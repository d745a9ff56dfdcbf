----------------------------- MODULE PolicyView -----------------------------
(***************************************************************************)
(* What the distribution of a site's policy promises, whatever the steps   *)
(* behind it: the adapter sees either no policy or one the hub has         *)
(* published, whole; the published revisions only ever grow; and the site  *)
(* has a floor, the newest revision it has recorded as installed, below    *)
(* which the policy it sees never falls again, crashes and failed          *)
(* installations included.                                                 *)
(***************************************************************************)
EXTENDS Naturals

CONSTANT  None       (* no usable policy file                              *)

VARIABLES published, (* the policies published so far: records with rev,   *)
                     (* issued and what else they carry                    *)
          view,      (* the policy in the file the adapter reads, or None  *)
          floor,     (* the newest revision recorded as installed          *)
          now        (* the clock                                          *)

viewVars == <<published, view, floor, now>>

ViewInit ==
  /\ published = {}
  /\ view = None
  /\ floor = 0
  /\ now = 0

ViewTick == now' = now + 1 /\ UNCHANGED <<published, view, floor>>

\* A new revision, the highest so far, stamped now.
Publish(p) ==
  /\ \A q \in published : q.rev < p.rev
  /\ p.issued = now
  /\ published' = published \union {p}
  /\ UNCHANGED <<view, floor, now>>

\* A published policy appears in the file: an installation, or a rollback.
Show(p) ==
  /\ p.rev >= floor
  /\ view' = p
  /\ UNCHANGED <<published, floor, now>>

\* While the file is being rewritten the adapter has no policy, and rejects.
Hide == view' = None /\ UNCHANGED <<published, floor, now>>

\* The policy in the file is recorded as installed.
Record ==
  /\ view # None
  /\ view.rev > floor
  /\ floor' = view.rev
  /\ UNCHANGED <<published, view, now>>

ViewNext ==
  \/ ViewTick
  \/ \E p \in published' : Publish(p)
  \/ \E p \in published : Show(p)
  \/ Hide
  \/ Record

ViewSpec == ViewInit /\ [][ViewNext]_viewVars

=============================================================================

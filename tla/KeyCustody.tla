----------------------------- MODULE KeyCustody -----------------------------
(***************************************************************************)
(* What the one-time stores promise of a new private key, whatever the     *)
(* requests and the sweeps behind it: it is made once, waits to be fetched *)
(* until its time is over, is handed to one request, and is delivered at   *)
(* most once.  A key that is lost is lost for good; only the end of the    *)
(* process loses a key that could still be fetched.                        *)
(***************************************************************************)
EXTENDS Integers

CONSTANTS
  Keys,
  Ttl,       (* how long a key waits at least                              *)
  None       (* not waiting                                                *)

VARIABLES
  stage,     (* where each key is                                          *)
  since,     (* from when the time of a waiting key counts, or None        *)
  now        (* the clock                                                  *)

custodyVars == <<stage, since, now>>

CustodyInit ==
  /\ stage = [k \in Keys |-> "none"]
  /\ since = [k \in Keys |-> None]
  /\ now = 0

Move(k, from, to) == stage[k] \in from /\ stage' = [stage EXCEPT ![k] = to]

Make(k) == Move(k, {"none"}, "made") /\ UNCHANGED <<since, now>>

Keep(k) ==
  /\ Move(k, {"made"}, "kept")
  /\ \E t \in 0..now : since' = [since EXCEPT ![k] = t]
  /\ UNCHANGED now

Leave(k, to) ==
  /\ Move(k, {"kept"}, to)
  /\ since' = [since EXCEPT ![k] = None]
  /\ UNCHANGED now

Take(k) == Leave(k, "taken")

Expire(k) == stage[k] = "kept" /\ now - since[k] > Ttl /\ Leave(k, "gone")

\* Who made it or took it fails.
Fail(k) == Move(k, {"made", "taken"}, "gone") /\ UNCHANGED <<since, now>>

Deliver(k) == Move(k, {"taken"}, "delivered") /\ UNCHANGED <<since, now>>

ProcessEnds ==
  /\ stage' = [k \in Keys |-> IF stage[k] \in {"none", "delivered"} THEN stage[k] ELSE "gone"]
  /\ since' = [k \in Keys |-> None]
  /\ UNCHANGED now

CustodyTick == now' = now + 1 /\ UNCHANGED <<stage, since>>

CustodyNext ==
  \/ \E k \in Keys : Make(k) \/ Keep(k) \/ Take(k) \/ Expire(k) \/ Fail(k) \/ Deliver(k)
  \/ ProcessEnds
  \/ CustodyTick

CustodySpec == CustodyInit /\ [][CustodyNext]_custodyVars

=============================================================================

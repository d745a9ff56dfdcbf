----------------------------- MODULE PolicySync -----------------------------
(***************************************************************************)
(* Distribution of one site's signed network policy: the hub that compiles *)
(* and publishes revisions (app/site_policy.py, app/routes/site.py, the    *)
(* web forms and scripts/refresh_site_policy.py), the site agent that      *)
(* pulls, checks and installs them (deploy/agent/site_agent.py), and the   *)
(* policy file the RADIUS adapter reads on every authentication.           *)
(*                                                                         *)
(* Simplifications:                                                        *)
(*  - The site's configuration is a set of database objects, each with a   *)
(*    version number: the Site row (vlan_segmentation_enabled) and the     *)
(*    bindings with everything compiled into them.                         *)
(*  - A signed payload is its revision row: revision, configuration, time  *)
(*    of issue.  The payload hash (ETag) identifies the row, since it      *)
(*    covers the revision and the time of issue.                           *)
(*  - Hub and site read the same clock.  Its unit is long compared with    *)
(*    one publication (lease and refresh are counted in hours, a request   *)
(*    in seconds), so no time passes inside a publication.  The agent's    *)
(*    pass may take any number of units.                                   *)
(*  - Signature, schema and site id of an envelope from the hub are valid. *)
(*  - One agent pass at a time: site-agent.service is a oneshot unit.      *)
(***************************************************************************)
EXTENDS Integers, FiniteSets

CONSTANTS
  SiteRow,     (* the Site row, an object every publisher loads first      *)
  Bindings,    (* SiteRoleBinding rows, with their role and subsidiary     *)
  Admins,      (* operators at the web forms and the publish command line  *)
  Timer,       (* the refresh_site_policy timer                            *)
  Pull,        (* the hub's handler of the agent's policy request          *)
  Lease,       (* lease_hours                                              *)
  Threshold,   (* threshold_hours of the refresh timer                     *)
  NoFile,      (* a file that is absent or empty                           *)
  Torn,        (* a file truncated by a write that has not finished        *)
  MaxTime,     (* bound on the clock                                       *)
  MaxEdits,    (* bound on the versions of an object                       *)
  MaxRevision, (* bound on the revisions, published and in progress        *)
  MaxFaults    (* bound on crashes, lost answers and failed installs       *)

Objects    == {SiteRow} \union Bindings
Publishers == Admins \union {Timer, Pull}
Versions   == [Objects -> Nat]
Policies   == [rev : Nat, cfg : Versions, issued : Nat]
Drafts     == [step : {"idle", "due", "read", "compiled"}, site : Nat,
               rev : Nat, cfg : Versions, issued : Nat]
Acks       == [rev : Nat, ok : BOOLEAN]

ASSUME LeaseAssumption == Lease \in Nat /\ Threshold \in Nat
ASSUME BoundAssumption ==
  MaxTime \in Nat /\ MaxEdits \in Nat /\ MaxRevision \in Nat /\ MaxFaults \in Nat
ASSUME NameAssumption ==
  /\ SiteRow \notin Bindings
  /\ Timer # Pull /\ Timer \notin Admins /\ Pull \notin Admins
ASSUME FileAssumption ==
  /\ NoFile # Torn
  /\ NoFile \notin Policies /\ Torn \notin Policies /\ Torn \notin Nat

VARIABLES
  now,       (* the clock                                                  *)
  cfg,       (* committed version of every object                          *)
  changedAt, (* history: when a version of an object was committed         *)
  rows,      (* the site_policy_revisions table                            *)
  pub,       (* every publisher's publication in progress                  *)
  lastAck,   (* the newest site_policy_acks row                            *)
  pc,        (* where the agent's pass stands                              *)
  resp,      (* the policy the hub answered with                           *)
  backup,    (* InstallState: the live file's content before the install   *)
  live,      (* policy.json, the file the adapter reads                    *)
  recRev,    (* policy_revision.txt; 0 when it is absent                   *)
  recHash,   (* policy_hash.txt                                            *)
  passOk,    (* whether the last pass has returned True                    *)
  faults     (* faults so far                                              *)

hubVars   == <<cfg, changedAt, rows, pub>>
siteFiles == <<live, recRev, recHash>>
agentVars == <<pc, resp, backup, live, recRev, recHash, passOk>>
vars      == <<now, hubVars, lastAck, agentVars, faults>>

AgentSteps ==
  {"idle", "asked", "unchanged", "fetched", "truncated", "written", "restoring",
   "verified", "revOpen", "revWritten", "hashOpen"}
Installing == {"truncated", "written", "restoring", "verified", "revOpen",
               "revWritten", "hashOpen"}

NoVersion == [o \in Objects |-> 0]
IdleDraft == [step |-> "idle", site |-> 0, rev |-> 0, cfg |-> NoVersion, issued |-> 0]

InProgress  == {w \in Publishers : pub[w].step # "idle"}
Expires(p)  == p.issued + Lease
IsLatest(p) == p \in rows /\ \A q \in rows : q.rev <= p.rev

TypeOK ==
  /\ now \in Nat
  /\ cfg \in Versions
  /\ changedAt \in [Objects -> [1..MaxEdits -> Nat]]
  /\ rows \subseteq Policies
  /\ pub \in [Publishers -> Drafts]
  /\ lastAck \in Acks
  /\ pc \in AgentSteps
  /\ resp \in Policies \union {NoFile}
  /\ backup \in Policies \union {NoFile, Torn}
  /\ live \in Policies \union {NoFile, Torn}
  /\ recRev \in Nat \union {Torn}
  /\ recHash \in Policies \union {NoFile}
  /\ passOk \in BOOLEAN
  /\ faults \in Nat

Init ==
  /\ now = 0
  /\ cfg = NoVersion
  /\ changedAt = [o \in Objects |-> [v \in 1..MaxEdits |-> 0]]
  /\ rows = {}
  /\ pub = [w \in Publishers |-> IdleDraft]
  /\ lastAck = [rev |-> 0, ok |-> FALSE]
  /\ pc = "idle"
  /\ resp = NoFile
  /\ backup = NoFile
  /\ live = NoFile
  /\ recRev = 0
  /\ recHash = NoFile
  /\ passOk = FALSE
  /\ faults = 0

(***************************************************************************)
(* Time and faults.                                                        *)
(***************************************************************************)
Tick ==
  /\ now < MaxTime
  /\ InProgress = {}
  /\ now' = now + 1
  /\ UNCHANGED <<hubVars, lastAck, agentVars, faults>>

Fault == faults < MaxFaults /\ faults' = faults + 1

(***************************************************************************)
(* The hub: changes of the configuration and publication.                  *)
(*                                                                         *)
(* Every publisher has the Site row loaded before it begins, and keeps it  *)
(* (the session factory sets expire_on_commit=False, and the request holds *)
(* the object): its version is the one this session saw.  Bindings, roles  *)
(* and subsidiaries are read while compiling.                              *)
(***************************************************************************)
BeginPublication(w, site) ==
  /\ Cardinality(rows) + Cardinality(InProgress) < MaxRevision
  /\ pub' = [pub EXCEPT ![w] = [step |-> "due", site |-> site, rev |-> 0,
                             cfg |-> NoVersion, issued |-> 0]]

CommitEdit(o) ==
  /\ cfg[o] < MaxEdits
  /\ cfg' = [cfg EXCEPT ![o] = cfg[o] + 1]
  /\ changedAt' = [changedAt EXCEPT ![o][cfg[o] + 1] = now]

\* A web form that commits a change and then publishes it (segmentation
\* switch, authorize, deauthorize, configure a binding).
WebEdit(a, o) ==
  /\ pub[a].step = "idle"
  /\ CommitEdit(o)
  /\ BeginPublication(a, cfg'[SiteRow])
  /\ UNCHANGED <<now, rows, lastAck, agentVars, faults>>

\* The JSON API's switches, draft and binding updates: committed, not published.
ApiEdit(o) ==
  /\ o \in Bindings
  /\ CommitEdit(o)
  /\ UNCHANGED <<now, rows, pub, lastAck, agentVars, faults>>

\* scripts/publish_site_policy.py
CliPublish(a) ==
  /\ pub[a].step = "idle"
  /\ BeginPublication(a, cfg[SiteRow])
  /\ UNCHANGED <<now, cfg, changedAt, rows, lastAck, agentVars, faults>>

\* Mutant: the timer waits until the lease has lapsed.
TimerRefreshLapsed ==
  /\ pub[Timer].step = "idle"
  /\ \A p \in rows : IsLatest(p) => Expires(p) < now
  /\ BeginPublication(Timer, cfg[SiteRow])
  /\ UNCHANGED <<now, cfg, changedAt, rows, lastAck, agentVars, faults>>

\* scripts/refresh_site_policy.py: no revision yet, or one that expires soon.
TimerRefresh ==
  /\ pub[Timer].step = "idle"
  /\ \A p \in rows : IsLatest(p) => Expires(p) <= now + Threshold
  /\ BeginPublication(Timer, cfg[SiteRow])
  /\ UNCHANGED <<now, cfg, changedAt, rows, lastAck, agentVars, faults>>

\* publish_site_policy, first read: the revision after the newest one.
ReadRevision(w) ==
  /\ pub[w].step = "due"
  /\ \/ /\ rows = {}
        /\ pub' = [pub EXCEPT ![w].step = "read", ![w].rev = 1]
     \/ \E p \in rows : /\ IsLatest(p)
                        /\ pub' = [pub EXCEPT ![w].step = "read", ![w].rev = p.rev + 1]
  /\ UNCHANGED <<now, cfg, changedAt, rows, lastAck, agentVars, faults>>

\* compile_site_policy, sign_policy_payload: stamp the time, read the rest.
Compiled(w) == [cfg EXCEPT ![SiteRow] = pub[w].site]

\* Mutant: a publisher that edits nothing signs the newest content again.
CompileAgain(w) ==
  /\ pub[w].step = "read"
  /\ \E c \in IF w \in Admins \/ rows = {} THEN {Compiled(w)}
                ELSE {p.cfg : p \in {q \in rows : IsLatest(q)}} :
       pub' = [pub EXCEPT ![w].step = "compiled", ![w].cfg = c, ![w].issued = now]
  /\ UNCHANGED <<now, cfg, changedAt, rows, lastAck, agentVars, faults>>

Compile(w) ==
  /\ pub[w].step = "read"
  /\ pub' = [pub EXCEPT ![w].step = "compiled", ![w].cfg = Compiled(w), ![w].issued = now]
  /\ UNCHANGED <<now, cfg, changedAt, rows, lastAck, agentVars, faults>>

DraftPolicy(w) ==
  [rev |-> pub[w].rev, cfg |-> pub[w].cfg, issued |-> pub[w].issued]

\* Mutant: no unique constraint.
RevisionFree(n) == FALSE

RevisionTaken(n) == \E p \in rows : p.rev = n

\* Mutant: the revision number is taken after compiling.
InsertNumbered(w) ==
  /\ pub[w].step = "compiled"
  /\ rows' = rows \union {[DraftPolicy(w) EXCEPT !.rev = Cardinality(rows) + 1]}
  /\ pub' = [pub EXCEPT ![w] = IdleDraft]
  /\ IF w = Pull /\ pc = "asked"
     THEN pc' = "fetched" /\ resp' = [DraftPolicy(w) EXCEPT !.rev = Cardinality(rows) + 1]
     ELSE UNCHANGED <<pc, resp>>
  /\ UNCHANGED <<now, cfg, changedAt, lastAck, backup, siteFiles, passOk, faults>>

\* The INSERT and the commit.  The agent's request is answered with the new row.
InsertRevision(w) ==
  /\ pub[w].step = "compiled"
  /\ ~RevisionTaken(pub[w].rev)
  /\ rows' = rows \union {DraftPolicy(w)}
  /\ pub' = [pub EXCEPT ![w] = IdleDraft]
  /\ IF w = Pull /\ pc = "asked"
     THEN pc' = "fetched" /\ resp' = DraftPolicy(w)
     ELSE UNCHANGED <<pc, resp>>
  /\ UNCHANGED <<now, cfg, changedAt, lastAck, backup, siteFiles, passOk, faults>>

\* uq_site_policy_revision refuses the INSERT: the request ends in a 500.
RevisionConflict(w) ==
  /\ pub[w].step = "compiled"
  /\ RevisionTaken(pub[w].rev)
  /\ pub' = [pub EXCEPT ![w] = IdleDraft]
  /\ IF w = Pull /\ pc = "asked"
     THEN pc' = "idle" /\ passOk' = FALSE
     ELSE UNCHANGED <<pc, passOk>>
  /\ UNCHANGED <<now, cfg, changedAt, rows, lastAck, resp, backup,
                 siteFiles, faults>>

\* The publishing process dies between two steps.
PublisherDies(w) ==
  /\ pub[w].step # "idle"
  /\ Fault
  /\ pub' = [pub EXCEPT ![w] = IdleDraft]
  /\ IF w = Pull /\ pc = "asked"
     THEN pc' = "idle" /\ passOk' = FALSE
     ELSE UNCHANGED <<pc, passOk>>
  /\ UNCHANGED <<now, cfg, changedAt, rows, lastAck, resp, backup, siteFiles>>

(***************************************************************************)
(* The site agent's pass.  EndPass ends it with its return value.          *)
(* _send_policy_ack waits for the hub's answer and swallows a failure: the *)
(* acknowledgement is stored by ack_network_policy, or it is lost.         *)
(***************************************************************************)
EndPass(ok) ==
  /\ pc' = "idle"
  /\ resp' = NoFile
  /\ backup' = NoFile
  /\ passOk' = ok

Acknowledge(rev, ok) ==
  \/ lastAck' = [rev |-> rev, ok |-> ok] /\ UNCHANGED faults
  \/ Fault /\ UNCHANGED lastAck

\* What a pass leaves alone: everything of the hub, the clock.
OnlySite == UNCHANGED <<now, hubVars>>

\* The request for the policy, with the recorded hash as If-None-Match.
StartPass ==
  /\ pc = "idle"
  /\ pub[Pull].step = "idle"
  /\ pc' = "asked"
  /\ passOk' = FALSE
  /\ OnlySite
  /\ UNCHANGED <<lastAck, resp, backup, siteFiles, faults>>

\* get_network_policy: no revision, or one whose lease has lapsed.
PullPublish ==
  /\ pc = "asked"
  /\ pub[Pull].step = "idle"
  /\ \A p \in rows : IsLatest(p) => Expires(p) < now
  /\ BeginPublication(Pull, cfg[SiteRow])
  /\ UNCHANGED <<now, cfg, changedAt, rows, lastAck, agentVars, faults>>

\* get_network_policy: 304 when the site's hash is the newest row's, else the row.
Answer(p) ==
  /\ pc = "asked"
  /\ pub[Pull].step = "idle"
  /\ IsLatest(p) /\ ~(Expires(p) < now)
  /\ IF recHash = p
     THEN pc' = "unchanged" /\ UNCHANGED resp
     ELSE pc' = "fetched" /\ resp' = p
  /\ OnlySite
  /\ UNCHANGED <<lastAck, backup, siteFiles, passOk, faults>>

\* The request fails, or its answer never arrives; the hub may still be at it.
LoseAnswer ==
  /\ pc = "asked"
  /\ Fault
  /\ EndPass(FALSE)
  /\ OnlySite
  /\ UNCHANGED <<lastAck, siteFiles>>

\* _validate_cached_policy
CachedIsUsable ==
  /\ live \in Policies
  /\ recRev = live.rev
  /\ Expires(live) > now

ReceiveUnchanged ==
  /\ pc = "unchanged"
  /\ EndPass(CachedIsUsable)
  /\ OnlySite
  /\ UNCHANGED <<lastAck, siteFiles, faults>>

\* int() of an empty revision file raises; without a file any revision will do.
RevisionAccepted(p) == recRev # Torn /\ p.rev >= (IF recRev = 0 THEN 1 ELSE recRev)

Verified(p) == RevisionAccepted(p) /\ Expires(p) > now

\* The same revision as the recorded one, with another hash than the recorded one.
Mismatched(p) == recRev = p.rev /\ recHash # NoFile /\ recHash # p

VerifyReject ==
  /\ pc = "fetched"
  /\ ~Verified(resp)
  /\ Acknowledge(0, FALSE)
  /\ EndPass(FALSE)
  /\ OnlySite
  /\ UNCHANGED siteFiles

\* Mutant: the same revision again counts as up to date.
MismatchAccept ==
  /\ pc = "fetched"
  /\ Verified(resp) /\ Mismatched(resp)
  /\ EndPass(TRUE)
  /\ OnlySite
  /\ UNCHANGED <<siteFiles, lastAck, faults>>

MismatchReject ==
  /\ pc = "fetched"
  /\ Verified(resp) /\ Mismatched(resp)
  /\ Acknowledge(recRev, FALSE)
  /\ EndPass(FALSE)
  /\ OnlySite
  /\ UNCHANGED siteFiles

\* Mutant: the hash is recorded before the installation.
BeginInstallRecorded ==
  /\ pc = "fetched"
  /\ Verified(resp) /\ ~Mismatched(resp)
  /\ pc' = "truncated"
  /\ backup' = live
  /\ live' = Torn
  /\ recHash' = resp
  /\ OnlySite
  /\ UNCHANGED <<lastAck, resp, recRev, passOk, faults>>

\* _install_with_safety: snapshot, then write the live file in place.
BeginInstall ==
  /\ pc = "fetched"
  /\ Verified(resp) /\ ~Mismatched(resp)
  /\ pc' = "truncated"
  /\ backup' = live
  /\ live' = Torn
  /\ OnlySite
  /\ UNCHANGED <<lastAck, resp, recRev, recHash, passOk, faults>>

FinishWrite ==
  /\ pc = "truncated"
  /\ pc' = "written"
  /\ live' = resp
  /\ OnlySite
  /\ UNCHANGED <<lastAck, resp, backup, recRev, recHash, passOk, faults>>

\* freeradius -XC, the reload and the is-active check all succeed.
CheckOk ==
  /\ pc = "written"
  /\ pc' = "verified"
  /\ OnlySite
  /\ UNCHANGED <<lastAck, resp, backup, siteFiles, passOk, faults>>

\* The write raises, or one of the three checks fails: InstallState.restore
\* unlinks a file that was absent and rewrites one that was there.
CheckFails ==
  /\ pc \in {"truncated", "written"}
  /\ Fault
  /\ pc' = "restoring"
  /\ live' = IF backup = NoFile THEN live ELSE Torn
  /\ OnlySite
  /\ UNCHANGED <<lastAck, resp, backup, recRev, recHash, passOk>>

\* Mutant: the acknowledgement says success, the hub's default.
FinishRestoreAcked ==
  /\ pc = "restoring"
  /\ live' = backup
  /\ Acknowledge(resp.rev, TRUE)
  /\ EndPass(FALSE)
  /\ OnlySite
  /\ UNCHANGED <<recRev, recHash>>

FinishRestore ==
  /\ pc = "restoring"
  /\ live' = backup
  /\ Acknowledge(resp.rev, FALSE)
  /\ EndPass(FALSE)
  /\ OnlySite
  /\ UNCHANGED <<recRev, recHash>>

\* rev_file.write_text, hash_file.write_text: each truncates, then writes.
OpenRev ==
  /\ pc = "verified"
  /\ pc' = "revOpen"
  /\ recRev' = Torn
  /\ OnlySite
  /\ UNCHANGED <<lastAck, resp, backup, live, recHash, passOk, faults>>

WriteRev ==
  /\ pc = "revOpen"
  /\ pc' = "revWritten"
  /\ recRev' = resp.rev
  /\ OnlySite
  /\ UNCHANGED <<lastAck, resp, backup, live, recHash, passOk, faults>>

\* Mutant: a hash file that is being written counts as a hash.
OpenHashTorn ==
  /\ pc = "revWritten"
  /\ pc' = "hashOpen"
  /\ recHash' = Torn
  /\ OnlySite
  /\ UNCHANGED <<lastAck, resp, backup, live, recRev, passOk, faults>>

OpenHash ==
  /\ pc = "revWritten"
  /\ pc' = "hashOpen"
  /\ recHash' = NoFile
  /\ OnlySite
  /\ UNCHANGED <<lastAck, resp, backup, live, recRev, passOk, faults>>

WriteHash ==
  /\ pc = "hashOpen"
  /\ recHash' = resp
  /\ Acknowledge(resp.rev, TRUE)
  /\ EndPass(TRUE)
  /\ OnlySite
  /\ UNCHANGED <<live, recRev>>

\* The agent is killed or the machine stops: the files stay as they are.
Crash ==
  /\ pc # "idle"
  /\ Fault
  /\ EndPass(FALSE)
  /\ OnlySite
  /\ UNCHANGED <<lastAck, siteFiles>>

(***************************************************************************)
(* The specification.                                                      *)
(***************************************************************************)
PublishStep(w) == ReadRevision(w) \/ Compile(w) \/ InsertRevision(w) \/ RevisionConflict(w)

AnswerStep == PullPublish \/ \E p \in rows : Answer(p)
CheckStep  == ReceiveUnchanged \/ VerifyReject \/ MismatchReject
InstallStep == BeginInstall \/ FinishWrite \/ CheckOk \/ FinishRestore
RecordStep == OpenRev \/ WriteRev \/ OpenHash \/ WriteHash

Hub ==
  \/ \E a \in Admins, o \in Objects : WebEdit(a, o)
  \/ \E o \in Objects : ApiEdit(o)
  \/ \E a \in Admins : CliPublish(a)
  \/ TimerRefresh
  \/ \E w \in Publishers : PublishStep(w) \/ PublisherDies(w)

Agent == StartPass \/ AnswerStep \/ CheckStep \/ InstallStep \/ RecordStep

Failure == LoseAnswer \/ CheckFails \/ Crash

Next == Tick \/ Hub \/ Agent \/ Failure

Spec == Init /\ [][Next]_vars

\* Both timers fire again and again (certmanager-policy-refresh.timer,
\* site-agent.timer), and a process that runs gets on.  Nobody has to edit
\* anything, and nothing has to fail.
Fairness ==
  /\ WF_vars(TimerRefresh)
  /\ \A w \in Publishers : WF_vars(PublishStep(w))
  /\ WF_vars(Agent)

FairSpec == Spec /\ Fairness

(***************************************************************************)
(* Safety.                                                                 *)
(***************************************************************************)

\* The point of the lease.  However an edit reaches the site or fails to (the
\* JSON API that does not publish, a lost race, a dead publisher, a stale
\* session, a crash), a policy the adapter still accepts lacks no edit that
\* was committed a full lease ago.
LeaseBoundsStaleness ==
  live \in Policies /\ Expires(live) > now =>
    \A o \in Objects : live.cfg[o] < cfg[o] =>
      now < changedAt[o][live.cfg[o] + 1] + Lease

\* The hub answers 304 on the strength of the recorded hash alone.  After any
\* sequence of crashes and rollbacks a recorded hash of the newest revision
\* means that this revision is in the live file and in the revision file.
NotModifiedIsIntact ==
  \A p \in rows : IsLatest(p) /\ recHash = p => live = p /\ recRev = p.rev

\* The fleet view's claim: when the newest acknowledgement says that the newest
\* revision is installed, that revision is the one the adapter reads.
InstalledStatusIsTrue ==
  \A p \in rows : IsLatest(p) /\ lastAck = [rev |-> p.rev, ok |-> TRUE] => live = p

\* A pass that exits 0 leaves the three files of the policy in agreement.
OkPassAgrees ==
  passOk => live \in rows /\ recHash = live /\ recRev = live.rev

\* However publishers race, no revision holds a binding older than the one in a
\* revision before it: the revision number is read before the bindings, and a
\* number is used once.
BindingsNeverRegress ==
  \A r, s \in rows : r.rev < s.rev => \A o \in Bindings : r.cfg[o] <= s.cfg[o]

\* The distribution keeps the promise of PolicyView.  While the revision file
\* is torn the agent installs nothing, so the floor is the live revision.
View == INSTANCE PolicyView WITH
  None      <- NoFile,
  published <- rows,
  view      <- IF live \in Policies THEN live ELSE NoFile,
  floor     <- IF recRev = Torn THEN live.rev ELSE recRev

KeepsTheView == View!ViewSpec

(***************************************************************************)
(* Liveness.                                                               *)
(***************************************************************************)

\* Once the edits, the faults and the clock have stopped, the site ends up with
\* the newest revision, unexpired, in its live file: whatever a crash left
\* behind, the next passes repair.  The exception is a revision file that a
\* crash has left empty: no later pass gets past it.
CatchesUp ==
  \/ <>[](recRev = Torn)
  \/ <>[](\E p \in rows : IsLatest(p) /\ live = p /\ Expires(p) > now)

(***************************************************************************)
(* What comments and documents say, and the code does not do.              *)
(***************************************************************************)

\* Outside a publication, what is committed is published:
\* deploy/STAGING-READINESS.md on mutations that publish immediately.
EditsArePublished ==
  rows # {} /\ InProgress = {} => \E p \in rows : IsLatest(p) /\ p.cfg = cfg

\* What has been published stays published: a later revision holds at least the
\* Site row's version of an earlier one ("published immediately").
PublishedEditsStay ==
  \A r, s \in rows : r.rev < s.rev => r.cfg[SiteRow] <= s.cfg[SiteRow]

\* deploy/agent/README.md: a policy is checked before it is installed; until
\* the check has passed, the live file is what it was before.
CheckedBeforeLive == pc = "written" => live = backup


=============================================================================

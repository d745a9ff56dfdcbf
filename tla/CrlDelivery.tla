---------------------------- MODULE CrlDelivery ----------------------------
(***************************************************************************)
(* How a revocation reaches a RADIUS server: the status change and the     *)
(* regeneration of the CRL under the PKI lock (app/cert_service.py), the   *)
(* push with its retries (app/main.py, app/crl_health.py, app/crl_push.py, *)
(* deploy/crlpush_forced_command.sh) and the site agent's pull             *)
(* (app/routes/site.py, deploy/agent/site_agent.py).  The push and the     *)
(* agent write the same live file of the same server.                      *)
(*                                                                         *)
(* Simplifications:                                                        *)
(*  - A CRL is the set of certificates it lists and a stamp: two           *)
(*    generations never have the same bytes.  Stamps no file holds any     *)
(*    more are used again, which keeps the model finite.                   *)
(*  - A CRL is valid for days and delivered within minutes: the tests of   *)
(*    nextUpdate fail only for a file that is not a complete CRL.          *)
(*  - A worker starts its next change when its push has ended.  The number *)
(*    of workers bounds the pushes that run at the same time.              *)
(*  - The server loads a CRL when it is reloaded, and never a torn one.    *)
(*  - A command that has run into its timeout does nothing more.           *)
(*  - Rows that a deletion of their employee removes are the subject of     *)
(*    module CertRegistry.                                                 *)
(***************************************************************************)
EXTENDS Integers, FiniteSets

CONSTANTS
  Certs,     (* certificates                                               *)
  Requests,  (* requests that change the status of certificates            *)
  Cron,      (* scripts/regenerate_crl_cron.py                             *)
  Nobody,    (* holder of a lock that is free                              *)
  NoFile,    (* a file that is absent or empty                             *)
  Torn,      (* a file that is not complete                                *)
  Stamps,    (* identities of generated CRLs                               *)
  Pulling,   (* whether the server has a site agent                        *)
  Attempts,  (* length of DEFAULT_RETRY_DELAYS_SECONDS                     *)
  MaxFailures, (* bound on commands that fail                              *)
  MaxTimeouts, (* bound on commands that run into their timeout            *)
  MaxDeaths    (* bound on processes that die                              *)

Workers == Requests \union {Cron}
Crls    == [stamp : Stamps, blocked : SUBSET Certs]
Files   == Crls \union {NoFile, Torn}

ASSUME StampAssumption == Stamps \subseteq Nat /\ Attempts \in Nat \ {0}
ASSUME AgentAssumption == Pulling \in BOOLEAN
ASSUME BoundAssumption == MaxFailures \in Nat /\ MaxTimeouts \in Nat /\ MaxDeaths \in Nat
ASSUME NameAssumption  == Cron \notin Requests /\ Nobody \notin Workers
ASSUME FileAssumption  == NoFile # Torn /\ NoFile \notin Crls /\ Torn \notin Crls

VARIABLES
  blocked,   (* certificates whose row says revoked or suspended           *)
  lock,      (* holder of .pki.lock                                        *)
  crlFile,   (* pki/crl.pem at the hub                                     *)
  pc,        (* where every worker stands                                  *)
  attempt,   (* the attempt its push is at                                 *)
  draft,     (* rows its regeneration has read                             *)
  payload,   (* file content it holds in hand                              *)
  staging,   (* .crl.pem.staging at the server                             *)
  live,      (* crl.pem at the server                                      *)
  loaded,    (* the CRL the server runs with                               *)
  agent,     (* where the agent's pass stands                              *)
  fetched,   (* the CRL the agent has fetched                              *)
  backup,    (* InstallState: the live file before the agent's install     *)
  failures, timeouts, deaths, (* faults so far                             *)
  missed,    (* history: a worker died before it regenerated the CRL       *)
  dropped,   (* history: a push ended without a result since crl.pem was written *)
  alerted    (* history: an alert was sent for the present crl.pem         *)

hubVars     == <<blocked, lock, crlFile>>
workVars    == <<pc, attempt, draft, payload>>
serverVars  == <<staging, live, loaded>>
agentVars   == <<agent, fetched, backup>>
faultVars   == <<failures, timeouts, deaths>>
historyVars == <<missed, dropped, alerted>>
vars == <<hubVars, workVars, serverVars, agentVars, faultVars, historyVars>>

WorkerSteps == {"idle", "due", "read", "truncated", "scp", "sending", "staged",
                "checked", "copying", "probing", "readback", "comparing"}
PushSteps   == {"scp", "sending", "staged", "checked", "copying", "probing",
                "readback", "comparing"}
AgentSteps  == {"idle", "asked", "fetched", "truncated", "written", "restoring"}

TypeOK ==
  /\ blocked \subseteq Certs
  /\ lock \in Workers \union {Nobody}
  /\ crlFile \in Files
  /\ pc \in [Workers -> WorkerSteps]
  /\ attempt \in [Workers -> 1..Attempts]
  /\ draft \in [Workers -> SUBSET Certs]
  /\ payload \in [Workers -> Files]
  /\ staging \in Files /\ live \in Files /\ loaded \in Files \ {Torn}
  /\ agent \in AgentSteps
  /\ fetched \in Files \ {Torn}
  /\ backup \in Files
  /\ failures \in Nat /\ timeouts \in Nat /\ deaths \in Nat
  /\ missed \in BOOLEAN /\ dropped \in BOOLEAN /\ alerted \in BOOLEAN

Init ==
  /\ blocked = {} /\ lock = Nobody /\ crlFile = NoFile
  /\ pc = [w \in Workers |-> "idle"]
  /\ attempt = [w \in Workers |-> 1]
  /\ draft = [w \in Workers |-> {}]
  /\ payload = [w \in Workers |-> NoFile]
  /\ staging = NoFile /\ live = NoFile /\ loaded = NoFile
  /\ agent = "idle" /\ fetched = NoFile /\ backup = NoFile
  /\ failures = 0 /\ timeouts = 0 /\ deaths = 0
  /\ missed = FALSE /\ dropped = FALSE /\ alerted = FALSE

(***************************************************************************)
(* The hub: status changes and the regeneration of the CRL.                *)
(***************************************************************************)

\* suspend, revoke: _set_status under the lock.  A bulk action and an
\* offboarding change several certificates before they regenerate.
Block(r, c) ==
  /\ pc[r] \in {"idle", "due"}
  /\ lock = Nobody
  /\ blocked' = blocked \union {c}
  /\ pc' = [pc EXCEPT ![r] = "due"]
  /\ UNCHANGED <<lock, crlFile, attempt, draft, payload, serverVars, agentVars,
                 faultVars, historyVars>>

\* unsuspend
Unblock(r, c) ==
  /\ pc[r] \in {"idle", "due"}
  /\ lock = Nobody
  /\ blocked' = blocked \ {c}
  /\ pc' = [pc EXCEPT ![r] = "due"]
  /\ UNCHANGED <<lock, crlFile, attempt, draft, payload, serverVars, agentVars,
                 faultVars, historyVars>>

CronFires ==
  /\ pc[Cron] = "idle"
  /\ pc' = [pc EXCEPT ![Cron] = "due"]
  /\ UNCHANGED <<hubVars, attempt, draft, payload, serverVars, agentVars,
                 faultVars, historyVars>>

\* Mutant: the CRL is regenerated without the lock.
ReadRowsUnlocked(w) ==
  /\ pc[w] = "due"
  /\ draft' = [draft EXCEPT ![w] = blocked]
  /\ pc' = [pc EXCEPT ![w] = "read"]
  /\ UNCHANGED <<hubVars, attempt, payload, serverVars, agentVars, faultVars,
                 historyVars>>

\* regenerate_crl: take the lock and read the blocked rows ...
ReadRows(w) ==
  /\ pc[w] = "due"
  /\ lock = Nobody
  /\ lock' = w
  /\ draft' = [draft EXCEPT ![w] = blocked]
  /\ pc' = [pc EXCEPT ![w] = "read"]
  /\ UNCHANGED <<blocked, crlFile, attempt, payload, serverVars, agentVars,
                 faultVars, historyVars>>

\* ... open crl.pem for writing ...
TruncateCrl(w) ==
  /\ pc[w] = "read"
  /\ crlFile' = Torn
  /\ pc' = [pc EXCEPT ![w] = "truncated"]
  /\ UNCHANGED <<blocked, lock, attempt, draft, payload, serverVars, agentVars,
                 faultVars, historyVars>>

StampsInUse ==
  {f.stamp : f \in Crls \intersect
     ({crlFile, staging, live, loaded, fetched, backup} \union {payload[w] : w \in Workers})}

NewStamp(s) ==
  s \in Stamps \ StampsInUse /\ \A t \in Stamps \ StampsInUse : s <= t

\* ... write it, release the lock and start the push.
WriteCrl(w) ==
  /\ pc[w] = "truncated"
  /\ \E s \in Stamps :
       NewStamp(s) /\ crlFile' = [stamp |-> s, blocked |-> draft[w]]
  /\ lock' = Nobody
  /\ pc' = [pc EXCEPT ![w] = "scp"]
  /\ attempt' = [attempt EXCEPT ![w] = 1]
  /\ missed' = FALSE /\ dropped' = FALSE /\ alerted' = FALSE
  /\ UNCHANGED <<blocked, draft, payload, serverVars, agentVars, faultVars>>

(***************************************************************************)
(* The push: push_with_retry, push_crl and the forced command.             *)
(***************************************************************************)

\* Mutant: one attempt more than there are delays.
AttemptFailsOnce(w) ==
  /\ payload' = [payload EXCEPT ![w] = NoFile]
  /\ IF attempt[w] <= Attempts
     THEN /\ attempt' = [attempt EXCEPT ![w] = attempt[w] + 1]
          /\ pc' = [pc EXCEPT ![w] = "scp"]
          /\ UNCHANGED alerted
     ELSE /\ pc' = [pc EXCEPT ![w] = "idle"]
          /\ alerted' = TRUE
          /\ UNCHANGED attempt
  /\ UNCHANGED <<hubVars, draft, live, loaded, agentVars, timeouts, deaths,
                 missed, dropped>>

\* The step of a push that ends its attempt: the next one starts over, the
\* last one alerts.
AttemptFails(w) ==
  /\ payload' = [payload EXCEPT ![w] = NoFile]
  /\ IF attempt[w] < Attempts
     THEN /\ attempt' = [attempt EXCEPT ![w] = attempt[w] + 1]
          /\ pc' = [pc EXCEPT ![w] = "scp"]
          /\ UNCHANGED alerted
     ELSE /\ pc' = [pc EXCEPT ![w] = "idle"]
          /\ alerted' = TRUE
          /\ UNCHANGED attempt
  /\ UNCHANGED <<hubVars, draft, live, loaded, agentVars, timeouts, deaths,
                 missed, dropped>>

\* What the other steps of a push leave alone.
OnlyPush(w) == UNCHANGED <<hubVars, draft, attempt, agentVars, faultVars, historyVars>>

\* scp reads crl.pem, with no lock, and overwrites the staging file.
OpenStaging(w) ==
  /\ pc[w] = "scp"
  /\ payload' = [payload EXCEPT ![w] = crlFile]
  /\ staging' = Torn
  /\ pc' = [pc EXCEPT ![w] = "sending"]
  /\ UNCHANGED <<live, loaded>> /\ OnlyPush(w)

CloseStaging(w) ==
  /\ pc[w] = "sending"
  /\ staging' = payload[w]
  /\ pc' = [pc EXCEPT ![w] = "staged"]
  /\ UNCHANGED <<payload, live, loaded>> /\ OnlyPush(w)

\* The forced command without arguments: the staged file must be a CRL.
CheckStaged(w) ==
  /\ pc[w] = "staged"
  /\ staging \in Crls
  /\ pc' = [pc EXCEPT ![w] = "checked"]
  /\ UNCHANGED <<payload, serverVars>> /\ OnlyPush(w)

RefuseStaged(w) ==
  /\ pc[w] = "staged"
  /\ staging \notin Crls
  /\ staging' = NoFile
  /\ AttemptFails(w) /\ UNCHANGED failures

\* cp: another push may have removed or reopened the staging file meanwhile.
OpenLive(w) ==
  /\ pc[w] = "checked"
  /\ staging # NoFile
  /\ payload' = [payload EXCEPT ![w] = staging]
  /\ live' = Torn
  /\ pc' = [pc EXCEPT ![w] = "copying"]
  /\ UNCHANGED <<staging, loaded>> /\ OnlyPush(w)

StagingGone(w) ==
  /\ pc[w] = "checked"
  /\ staging = NoFile
  /\ AttemptFails(w) /\ UNCHANGED <<staging, failures>>

CloseLive(w) ==
  /\ pc[w] = "copying"
  /\ live' = payload[w]
  /\ staging' = NoFile
  /\ pc' = [pc EXCEPT ![w] = "probing"]
  /\ UNCHANGED <<payload, loaded>> /\ OnlyPush(w)

\* freeradius -XC and the reload.
Reload(w) ==
  /\ pc[w] = "probing"
  /\ live \in Crls
  /\ loaded' = live
  /\ pc' = [pc EXCEPT ![w] = "readback"]
  /\ UNCHANGED <<payload, staging, live>> /\ OnlyPush(w)

ProbeFails(w) ==
  /\ pc[w] = "probing"
  /\ live \notin Crls
  /\ AttemptFails(w) /\ UNCHANGED <<staging, failures>>

\* sha256sum-crl, then the comparison with the hash of crl.pem.
ReadBack(w) ==
  /\ pc[w] = "readback"
  /\ payload' = [payload EXCEPT ![w] = live]
  /\ pc' = [pc EXCEPT ![w] = "comparing"]
  /\ UNCHANGED serverVars /\ OnlyPush(w)

\* Mutant: any hash that can be read back will do.
HashesAgreeAnyway(w) == payload[w] # NoFile

\* Two torn files may have the same bytes.
HashesAgree(w) == payload[w] = crlFile

PushSucceeds(w) ==
  /\ pc[w] = "comparing"
  /\ HashesAgree(w)
  /\ payload' = [payload EXCEPT ![w] = NoFile]
  /\ pc' = [pc EXCEPT ![w] = "idle"]
  /\ UNCHANGED serverVars /\ OnlyPush(w)

HashMismatch(w) ==
  /\ pc[w] = "comparing"
  /\ ~HashesAgree(w) \/ payload[w] = Torn
  /\ AttemptFails(w) /\ UNCHANGED <<staging, failures>>

\* scp, ssh or -XC ends with an error.
CommandFails(w) ==
  /\ pc[w] \in PushSteps \ {"comparing"}
  /\ failures < MaxFailures /\ failures' = failures + 1
  /\ AttemptFails(w) /\ UNCHANGED staging

\* subprocess.run raises TimeoutExpired, which neither push_crl nor
\* push_with_retry catches: the thread ends.
CommandTimesOut(w) ==
  /\ pc[w] \in PushSteps \ {"comparing"}
  /\ timeouts < MaxTimeouts /\ timeouts' = timeouts + 1
  /\ dropped' = TRUE
  /\ payload' = [payload EXCEPT ![w] = NoFile]
  /\ pc' = [pc EXCEPT ![w] = "idle"]
  /\ UNCHANGED <<hubVars, attempt, draft, serverVars, agentVars, failures, deaths,
                 missed, alerted>>

\* The process of a worker dies, and the operating system releases its lock; or
\* its request fails: no lock within 30 seconds, an error of the disk or the
\* database.
WorkerDies(w) ==
  /\ pc[w] # "idle"
  /\ deaths < MaxDeaths /\ deaths' = deaths + 1
  /\ missed' = (missed \/ pc[w] \notin PushSteps)
  /\ dropped' = (dropped \/ pc[w] \in PushSteps)
  /\ lock' = IF lock = w THEN Nobody ELSE lock
  /\ payload' = [payload EXCEPT ![w] = NoFile]
  /\ pc' = [pc EXCEPT ![w] = "idle"]
  /\ UNCHANGED <<blocked, crlFile, attempt, draft, serverVars, agentVars, failures,
                 timeouts, alerted>>

(***************************************************************************)
(* The pull: the CRL part of run_once.                                     *)
(***************************************************************************)
OnlyAgent == UNCHANGED <<hubVars, workVars, staging, timeouts, historyVars>>

\* Mutant: a live file that is no CRL is not reported as different.
AgentChecksInReadable ==
  /\ Pulling
  /\ agent = "idle"
  /\ crlFile # NoFile
  /\ \/ (live \in Crls /\ live # crlFile) /\ UNCHANGED failures
     \/ failures < MaxFailures /\ failures' = failures + 1
  /\ agent' = "asked"
  /\ OnlyAgent /\ UNCHANGED <<live, loaded, fetched, backup, deaths>>

\* checkin: the hub compares the reported hash with crl.pem's.  When the
\* check-in itself fails the agent asks for the CRL all the same.
AgentChecksIn ==
  /\ Pulling
  /\ agent = "idle"
  /\ crlFile # NoFile
  /\ \/ (live # crlFile \/ live = Torn) /\ UNCHANGED failures
     \/ failures < MaxFailures /\ failures' = failures + 1
  /\ agent' = "asked"
  /\ OnlyAgent /\ UNCHANGED <<live, loaded, fetched, backup, deaths>>

\* get_crl reads crl.pem with no lock; a torn CRL is refused.
AgentFetches ==
  /\ agent = "asked"
  /\ IF crlFile \in Crls
     THEN agent' = "fetched" /\ fetched' = crlFile
     ELSE agent' = "idle" /\ UNCHANGED fetched
  /\ OnlyAgent /\ UNCHANGED <<live, loaded, backup, failures, deaths>>

AgentOpensLive ==
  /\ agent = "fetched"
  /\ backup' = live
  /\ live' = Torn
  /\ agent' = "truncated"
  /\ OnlyAgent /\ UNCHANGED <<loaded, fetched, failures, deaths>>

AgentWritesLive ==
  /\ agent = "truncated"
  /\ live' = fetched
  /\ agent' = "written"
  /\ OnlyAgent /\ UNCHANGED <<loaded, fetched, backup, failures, deaths>>

AgentEnds == agent' = "idle" /\ fetched' = NoFile /\ backup' = NoFile

\* The check, the reload and the is-active test succeed.
AgentReloads ==
  /\ agent = "written"
  /\ live \in Crls
  /\ loaded' = live
  /\ AgentEnds
  /\ OnlyAgent /\ UNCHANGED <<live, failures, deaths>>

\* Otherwise the file from before is written back.
AgentRollsBack ==
  /\ agent = "written"
  /\ \/ live \notin Crls /\ UNCHANGED failures
     \/ failures < MaxFailures /\ failures' = failures + 1
  /\ live' = IF backup = NoFile THEN live ELSE Torn
  /\ agent' = "restoring"
  /\ OnlyAgent /\ UNCHANGED <<loaded, fetched, backup, deaths>>

AgentRestores ==
  /\ agent = "restoring"
  /\ live' = backup
  /\ loaded' = IF backup \in Crls THEN backup ELSE loaded
  /\ AgentEnds
  /\ OnlyAgent /\ UNCHANGED <<failures, deaths>>

AgentDies ==
  /\ agent # "idle"
  /\ deaths < MaxDeaths /\ deaths' = deaths + 1
  /\ AgentEnds
  /\ OnlyAgent /\ UNCHANGED <<live, loaded, failures>>

(***************************************************************************)
(* The specification.                                                      *)
(***************************************************************************)
Change(r) == \E c \in Certs : Block(r, c) \/ Unblock(r, c)

Regenerate(w) == ReadRows(w) \/ TruncateCrl(w) \/ WriteCrl(w)

Push(w) ==
  \/ OpenStaging(w) \/ CloseStaging(w)
  \/ CheckStaged(w) \/ RefuseStaged(w)
  \/ OpenLive(w) \/ StagingGone(w) \/ CloseLive(w)
  \/ Reload(w) \/ ProbeFails(w)
  \/ ReadBack(w) \/ PushSucceeds(w) \/ HashMismatch(w)

Pull ==
  \/ AgentChecksIn \/ AgentFetches \/ AgentOpensLive \/ AgentWritesLive
  \/ AgentReloads \/ AgentRollsBack \/ AgentRestores

Fault(w) == CommandFails(w) \/ CommandTimesOut(w) \/ WorkerDies(w)

Next ==
  \/ \E r \in Requests : Change(r)
  \/ CronFires
  \/ \E w \in Workers : Regenerate(w) \/ Push(w) \/ Fault(w)
  \/ Pull
  \/ AgentDies

Spec == Init /\ [][Next]_vars

\* A push that runs gets on, and site-agent.timer starts one pass after another.
\* Nothing has to be revoked, the daily regeneration need not come, and nothing
\* has to fail.
Fairness ==
  /\ \A w \in Workers : WF_vars(Regenerate(w) \/ Push(w))
  /\ WF_vars(Pull)

FairSpec == Spec /\ Fairness

(***************************************************************************)
(* Safety.                                                                 *)
(***************************************************************************)
HubAtRest == \A w \in Workers : pc[w] = "idle"

\* No revocation is lost between the registry and crl.pem: when no request is
\* between its commit and its regeneration, crl.pem lists exactly the blocked
\* certificates, in whatever order requests and the timer regenerated it.  Only
\* a worker that dies in between leaves it behind.
RegistryCovered ==
  \/ missed
  \/ \E w \in Workers : pc[w] \in {"due", "read", "truncated"}
  \/ crlFile \in Crls /\ crlFile.blocked = blocked
  \/ crlFile = NoFile /\ blocked = {}

\* Loud failure: when all pushes have ended, the server has and runs with
\* crl.pem, or an alert was sent.  Pushes share one staging file and one live
\* file, remove each other's staged CRL and may install an older one late.  The
\* exception is a push that ended without a result.  It is the push's promise
\* alone: an agent may write an older CRL over the one just verified.
DeliveredOrLoud ==
  ~Pulling /\ HubAtRest /\ ~dropped /\ ~missed /\ crlFile # NoFile =>
    (live = crlFile /\ loaded = crlFile) \/ alerted

(***************************************************************************)
(* Liveness.                                                               *)
(***************************************************************************)

\* When the hub comes to rest, the agent brings the live file up to crl.pem,
\* whatever pushes, rollbacks and deaths have left there.
PullRepairs == <>[](HubAtRest /\ crlFile \in Crls) => <>[](live = crlFile)

(***************************************************************************)
(* What comments say, and the code does not do.                            *)
(***************************************************************************)

\* app/crl_health.py: push failure must be loud, not silent.
NoSilentLoss ==
  HubAtRest /\ crlFile # NoFile => loaded = crlFile \/ alerted

=============================================================================

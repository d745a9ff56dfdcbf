------------------------- MODULE CrlDeliveryProofs -------------------------
(***************************************************************************)
(* Proofs about CrlDelivery: its types, that crl.pem covers the registry,  *)
(* and that a push either delivers crl.pem or alerts.                      *)
(***************************************************************************)
EXTENDS CrlDelivery, TLAPS

(***************************************************************************)
(* The lock is held by the worker that regenerates, and what that worker   *)
(* has read is still what the registry says; a torn crl.pem is being       *)
(* written, or its writer died.                                            *)
(***************************************************************************)
Regenerating(w) == pc[w] \in {"read", "truncated"}

LockInv ==
  /\ \A w \in Workers : Regenerating(w) => lock = w /\ draft[w] = blocked
  /\ crlFile = Torn => missed \/ \E w \in Workers : pc[w] = "truncated"
  /\ RegistryCovered

(***************************************************************************)
(* A push that has not reloaded the server yet will do so, or fail.  One   *)
(* that holds the hash of the present live file, or is yet to read it, is  *)
(* responsible for what is there.                                          *)
(***************************************************************************)
Early(w) == pc[w] \in PushSteps \ {"readback", "comparing"}

Responsible(w) == pc[w] # "idle" /\ (pc[w] = "comparing" => payload[w] = live)

Excused == dropped \/ alerted

Delivered == live = crlFile /\ loaded = crlFile

PushInv ==
  /\ ~Pulling => agent = "idle"
  /\ ~Pulling => live = loaded \/ Excused \/ \E w \in Workers : Early(w)
  /\ ~Pulling /\ crlFile # NoFile =>
       Delivered \/ Excused \/ missed \/ \E w \in Workers : Responsible(w)

LEMMA InitInvariants == Init => TypeOK /\ LockInv /\ PushInv
<1> SUFFICES ASSUME Init PROVE TypeOK /\ LockInv /\ PushInv
  OBVIOUS
<1>1. TypeOK
  <2>1. 1 \in 1..Attempts
    BY StampAssumption
  <2>2. attempt \in [Workers -> 1..Attempts]
    BY <2>1 DEF Init
  <2>3. NoFile \in Files \ {Torn}
    BY FileAssumption DEF Files
  <2>4. /\ pc \in [Workers -> WorkerSteps] /\ draft \in [Workers -> SUBSET Certs]
        /\ payload \in [Workers -> Files]
    BY <2>3 DEF Init, WorkerSteps
  <2> QED
    BY <2>2, <2>3, <2>4 DEF Init, TypeOK, AgentSteps
<1>2. LockInv
  BY FileAssumption DEF Init, LockInv, Regenerating, RegistryCovered
<1>3. PushInv
  BY DEF Init, PushInv
<1> QED
  BY <1>1, <1>2, <1>3

(***************************************************************************)
(* Types.                                                                  *)
(***************************************************************************)
LEMMA TypeInvariance == TypeOK /\ [Next]_vars => TypeOK'
<1> SUFFICES ASSUME TypeOK, [Next]_vars PROVE TypeOK'
  OBVIOUS
<1> USE DEF TypeOK, Files, WorkerSteps, PushSteps, AgentSteps, hubVars, workVars,
        serverVars, agentVars, faultVars, historyVars
<1>1. ASSUME NEW r \in Requests, Change(r) PROVE TypeOK'
  BY <1>1 DEF Change, Block, Unblock, Workers
<1>2. ASSUME CronFires PROVE TypeOK'
  BY <1>2 DEF CronFires, Workers
<1>3. ASSUME NEW w \in Workers, Regenerate(w) PROVE TypeOK'
  <2>1. CASE ReadRows(w)
    BY <2>1 DEF ReadRows
  <2>2. CASE TruncateCrl(w)
    BY <2>2 DEF TruncateCrl
  <2>3. CASE WriteCrl(w)
    <3>1. PICK s \in Stamps : crlFile' = [stamp |-> s, blocked |-> draft[w]]
      BY <2>3 DEF WriteCrl
    <3>2. crlFile' \in Crls
      BY <3>1 DEF Crls
    <3>3. attempt' \in [Workers -> 1..Attempts]
      BY <2>3, StampAssumption DEF WriteCrl
    <3>4. pc' \in [Workers -> WorkerSteps] /\ lock' \in Workers \union {Nobody}
      BY <2>3 DEF WriteCrl
    <3> QED
      BY <2>3, <3>2, <3>3, <3>4 DEF WriteCrl
  <2> QED
    BY <1>3, <2>1, <2>2, <2>3 DEF Regenerate
<1>4. ASSUME NEW w \in Workers, AttemptFails(w), staging' \in Files, failures' \in Nat
      PROVE TypeOK'
  <2>1. attempt' \in [Workers -> 1..Attempts]
    <3>1. CASE attempt[w] < Attempts
      <4>1. attempt[w] + 1 \in 1..Attempts
        BY <3>1, StampAssumption
      <4> QED
        BY <1>4, <3>1, <4>1 DEF AttemptFails
    <3>2. CASE ~(attempt[w] < Attempts)
      BY <1>4, <3>2 DEF AttemptFails
    <3> QED
      BY <3>1, <3>2
  <2>2. pc' \in [Workers -> WorkerSteps] /\ payload' \in [Workers -> Files]
    BY <1>4 DEF AttemptFails
  <2>3. alerted' \in BOOLEAN
    BY <1>4 DEF AttemptFails
  <2> QED
    BY <1>4, <2>1, <2>2, <2>3 DEF AttemptFails
<1>5. ASSUME NEW w \in Workers, Push(w) PROVE TypeOK'
  <2>1. CASE OpenStaging(w) \/ CloseStaging(w)
    BY <2>1 DEF OpenStaging, CloseStaging, OnlyPush
  <2>2. CASE CheckStaged(w) \/ OpenLive(w) \/ CloseLive(w)
    BY <2>2 DEF CheckStaged, OpenLive, CloseLive, OnlyPush
  <2>3. CASE Reload(w) \/ ReadBack(w) \/ PushSucceeds(w)
    BY <2>3, FileAssumption DEF Reload, ReadBack, PushSucceeds, OnlyPush
  <2>4. CASE RefuseStaged(w) \/ StagingGone(w) \/ ProbeFails(w) \/ HashMismatch(w)
    BY <2>4, <1>4 DEF RefuseStaged, StagingGone, ProbeFails, HashMismatch
  <2> QED
    BY <1>5, <2>1, <2>2, <2>3, <2>4 DEF Push
<1>6. ASSUME NEW w \in Workers, Fault(w) PROVE TypeOK'
  <2>1. CASE CommandFails(w)
    BY <2>1, <1>4 DEF CommandFails
  <2>2. CASE CommandTimesOut(w)
    BY <2>2 DEF CommandTimesOut
  <2>3. CASE WorkerDies(w)
    BY <2>3 DEF WorkerDies
  <2> QED
    BY <1>6, <2>1, <2>2, <2>3 DEF Fault
<1>7. ASSUME Pull PROVE TypeOK'
  <2>1. CASE AgentChecksIn \/ AgentFetches
    BY <1>7, <2>1, FileAssumption DEF AgentChecksIn, AgentFetches, OnlyAgent
  <2>2. CASE AgentOpensLive \/ AgentWritesLive
    BY <2>2 DEF AgentOpensLive, AgentWritesLive, OnlyAgent
  <2>3. CASE AgentReloads \/ AgentRollsBack \/ AgentRestores
    BY <2>3, FileAssumption
    DEF AgentReloads, AgentRollsBack, AgentRestores, AgentEnds, OnlyAgent
  <2> QED
    BY <1>7, <2>1, <2>2, <2>3 DEF Pull
<1>8. ASSUME AgentDies PROVE TypeOK'
  BY <1>8, FileAssumption DEF AgentDies, AgentEnds, OnlyAgent
<1>9. CASE UNCHANGED vars
  BY <1>9 DEF vars
<1> QED
  BY <1>1, <1>2, <1>3, <1>5, <1>6, <1>7, <1>8, <1>9 DEF Next

\* Every reachable state has the types TypeOK gives.
THEOREM TypeCorrect == Spec => []TypeOK
BY InitInvariants, TypeInvariance, PTL DEF Spec

(***************************************************************************)
(* The registry and crl.pem.                                               *)
(***************************************************************************)

\* A step that leaves the hub's state alone and takes no worker into or out of
\* a regeneration keeps the invariant.
LEMMA LockFrame ==
  ASSUME TypeOK, LockInv, UNCHANGED <<hubVars, draft, missed>>,
         \A w \in Workers : pc'[w] = pc[w]
           \/ {pc[w], pc'[w]} \intersect {"due", "read", "truncated"} = {}
  PROVE  LockInv'
<1>1. \A w \in Workers, s \in {"due", "read", "truncated"} : pc'[w] = s <=> pc[w] = s
  OBVIOUS
<1>2. \A w \in Workers : Regenerating(w)' <=> Regenerating(w)
  BY <1>1 DEF Regenerating
<1>3. RegistryCovered'
  BY <1>1 DEF LockInv, RegistryCovered, hubVars
<1> QED
  BY <1>1, <1>2, <1>3 DEF LockInv, hubVars

LEMMA LockInvariance == TypeOK /\ LockInv /\ [Next]_vars => LockInv'
<1> SUFFICES ASSUME TypeOK, LockInv, [Next]_vars PROVE LockInv'
  OBVIOUS
<1>1. ASSUME NEW r \in Requests, Change(r) PROVE LockInv'
  <2>1. /\ lock = Nobody /\ r \in Workers /\ pc' = [pc EXCEPT ![r] = "due"]
        /\ UNCHANGED <<lock, crlFile, draft, missed>>
    BY <1>1 DEF Change, Block, Unblock, Workers, faultVars, historyVars
  <2>2. pc'[r] = "due" /\ \A w \in Workers : w # r => pc'[w] = pc[w]
    BY <2>1 DEF TypeOK
  <2>3. \A w \in Workers : ~Regenerating(w)
    BY <2>1, NameAssumption DEF LockInv
  <2> QED
    BY <2>1, <2>2, <2>3 DEF LockInv, Regenerating, RegistryCovered
<1>2. ASSUME CronFires PROVE LockInv'
  <2>1. pc'[Cron] = "due" /\ \A w \in Workers : w # Cron => pc'[w] = pc[w]
    BY <1>2 DEF CronFires, TypeOK, Workers
  <2>2. Cron \in Workers /\ pc[Cron] = "idle" /\ UNCHANGED <<hubVars, draft, missed>>
    BY <1>2 DEF CronFires, Workers, historyVars
  <2> QED
    BY <2>1, <2>2 DEF LockInv, Regenerating, RegistryCovered, hubVars
<1>3. ASSUME NEW w \in Workers, Regenerate(w) PROVE LockInv'
  <2>1. CASE ReadRows(w)
    <3>1. pc'[w] = "read" /\ \A v \in Workers : v # w => pc'[v] = pc[v]
      BY <2>1 DEF ReadRows, TypeOK
    <3>2. \A v \in Workers : ~Regenerating(v)
      BY <2>1, NameAssumption DEF LockInv, ReadRows
    <3>3. draft'[w] = blocked /\ lock' = w /\ UNCHANGED <<blocked, crlFile, missed>>
      BY <2>1 DEF ReadRows, TypeOK, historyVars
    <3> QED
      BY <3>1, <3>2, <3>3 DEF LockInv, Regenerating, RegistryCovered
  <2>2. CASE TruncateCrl(w)
    <3>1. pc'[w] = "truncated" /\ \A v \in Workers : v # w => pc'[v] = pc[v]
      BY <2>2 DEF TruncateCrl, TypeOK
    <3>2. UNCHANGED <<blocked, lock, draft, missed>> /\ Regenerating(w)
      BY <2>2 DEF TruncateCrl, Regenerating, historyVars
    <3> QED
      BY <3>1, <3>2 DEF LockInv, Regenerating, RegistryCovered
  <2>3. CASE WriteCrl(w)
    <3>1. pc'[w] = "scp" /\ \A v \in Workers : v # w => pc'[v] = pc[v]
      BY <2>3 DEF WriteCrl, TypeOK
    <3>2. lock = w /\ draft[w] = blocked
      BY <2>3 DEF WriteCrl, LockInv, Regenerating
    <3>3. \A v \in Workers : v # w => ~Regenerating(v)
      BY <3>2 DEF LockInv
    <3>4. PICK s \in Stamps : crlFile' = [stamp |-> s, blocked |-> draft[w]]
      BY <2>3 DEF WriteCrl
    <3>5. crlFile' \in Crls /\ crlFile'.blocked = blocked'
      BY <2>3, <3>2, <3>4 DEF Crls, TypeOK, WriteCrl
    <3> QED
      BY <3>1, <3>3, <3>5, FileAssumption DEF LockInv, Regenerating, RegistryCovered
  <2> QED
    BY <1>3, <2>1, <2>2, <2>3 DEF Regenerate
<1>4. ASSUME NEW w \in Workers, AttemptFails(w), pc[w] \in PushSteps PROVE LockInv'
  <2>1. /\ pc'[w] \in {"scp", "idle"} /\ \A v \in Workers : v # w => pc'[v] = pc[v]
        /\ UNCHANGED <<hubVars, draft, missed>>
    BY <1>4 DEF AttemptFails, TypeOK
  <2> QED
    BY <1>4, <2>1, LockFrame DEF PushSteps
<1>5. ASSUME NEW w \in Workers, Push(w) PROVE LockInv'
  <2>1. CASE \/ OpenStaging(w) \/ CloseStaging(w) \/ CheckStaged(w) \/ OpenLive(w)
             \/ CloseLive(w) \/ Reload(w) \/ ReadBack(w) \/ PushSucceeds(w)
    <3>1. /\ pc[w] \in PushSteps /\ pc'[w] \in PushSteps \union {"idle"}
          /\ \A v \in Workers : v # w => pc'[v] = pc[v]
      BY <2>1 DEF OpenStaging, CloseStaging, CheckStaged, OpenLive, CloseLive, Reload,
                  ReadBack, PushSucceeds, TypeOK, PushSteps
    <3>2. UNCHANGED <<hubVars, draft, missed>>
      BY <2>1 DEF OpenStaging, CloseStaging, CheckStaged, OpenLive, CloseLive, Reload,
                  ReadBack, PushSucceeds, OnlyPush, historyVars
    <3> QED
      BY <3>1, <3>2, LockFrame DEF PushSteps
  <2>2. CASE RefuseStaged(w) \/ StagingGone(w) \/ ProbeFails(w) \/ HashMismatch(w)
    BY <2>2, <1>4 DEF RefuseStaged, StagingGone, ProbeFails, HashMismatch, PushSteps
  <2> QED
    BY <1>5, <2>1, <2>2 DEF Push
<1>6. ASSUME NEW w \in Workers, Fault(w) PROVE LockInv'
  <2>1. CASE CommandFails(w)
    BY <2>1, <1>4 DEF CommandFails, PushSteps
  <2>2. CASE CommandTimesOut(w)
    <3>1. /\ pc[w] \in PushSteps /\ pc'[w] = "idle"
          /\ \A v \in Workers : v # w => pc'[v] = pc[v]
          /\ UNCHANGED <<hubVars, draft, missed>>
      BY <2>2 DEF CommandTimesOut, TypeOK, PushSteps
    <3> QED
      BY <3>1, LockFrame DEF PushSteps
  <2>3. CASE WorkerDies(w)
    <3>1. /\ pc'[w] = "idle" /\ \A v \in Workers : v # w => pc'[v] = pc[v]
          /\ UNCHANGED <<blocked, crlFile, draft>>
      BY <2>3 DEF WorkerDies, TypeOK
    <3>2. CASE pc[w] \in PushSteps
      <4>1. \A v \in Workers : Regenerating(v)' => Regenerating(v) /\ v # w
        BY <3>1 DEF Regenerating
      <4>2. \A v \in Workers : Regenerating(v) => v # w /\ lock # w
        BY <3>2 DEF LockInv, Regenerating, PushSteps
      <4>3. \A v \in Workers : Regenerating(v)' => lock' = v /\ draft'[v] = blocked'
        BY <2>3, <3>1, <4>1, <4>2 DEF LockInv, WorkerDies
      <4>4. missed' = missed
        BY <2>3, <3>2 DEF WorkerDies, TypeOK
      <4> QED
        BY <3>1, <3>2, <4>3, <4>4 DEF LockInv, RegistryCovered, PushSteps
    <3>3. CASE pc[w] \notin PushSteps
      <4>1. missed'
        BY <2>3, <3>3 DEF WorkerDies
      <4>2. \A v \in Workers : Regenerating(v)' => lock' = v /\ draft'[v] = blocked'
        BY <2>3, <3>1 DEF LockInv, Regenerating, WorkerDies
      <4> QED
        BY <4>1, <4>2 DEF LockInv, RegistryCovered
    <3> QED
      BY <3>2, <3>3
  <2> QED
    BY <1>6, <2>1, <2>2, <2>3 DEF Fault
<1>7. ASSUME Pull \/ AgentDies PROVE LockInv'
  <2>1. UNCHANGED <<hubVars, pc, draft, missed>>
    BY <1>7 DEF Pull, AgentChecksIn, AgentFetches, AgentOpensLive, AgentWritesLive,
       AgentReloads, AgentRollsBack, AgentRestores, AgentDies, OnlyAgent, workVars,
       historyVars
  <2> QED
    BY <2>1, LockFrame
<1>8. CASE UNCHANGED vars
  BY <1>8, LockFrame DEF vars, hubVars, workVars, historyVars
<1> QED
  BY <1>1, <1>2, <1>3, <1>5, <1>6, <1>7, <1>8 DEF Next

\* No revocation is lost between the registry and crl.pem, for any number of
\* requests that change certificates and regenerate at the same time.
THEOREM RegistryIsCovered == Spec => []RegistryCovered
<1>1. LockInv => RegistryCovered
  BY DEF LockInv
<1> QED
  BY <1>1, InitInvariants, TypeInvariance, LockInvariance, PTL DEF Spec

(***************************************************************************)
(* The push.                                                               *)
(***************************************************************************)

\* A step of worker w that leaves it responsible for the live file: what w is
\* yet to do there is its own business.
LEMMA StaysResponsible ==
  ASSUME TypeOK, PushInv, NEW w \in Workers, Responsible(w)',
         Early(w)' \/ (live' = loaded') \/
           (UNCHANGED <<live, loaded, dropped, alerted>> /\ ~Early(w)
              /\ \A v \in Workers : v # w => pc'[v] = pc[v]),
         ~Pulling => agent' = "idle"
  PROVE  PushInv'
<1>1. CASE Early(w)' \/ (live' = loaded')
  BY <1>1 DEF PushInv
<1>2. CASE /\ UNCHANGED <<live, loaded, dropped, alerted>> /\ ~Early(w)
           /\ \A v \in Workers : v # w => pc'[v] = pc[v]
  <2>1. \A v \in Workers : Early(v) => Early(v)'
    BY <1>2 DEF Early
  <2> QED
    BY <1>2, <2>1 DEF PushInv, Excused
<1> QED
  BY <1>1, <1>2

LEMMA PushInvariance == TypeOK /\ LockInv /\ PushInv /\ [Next]_vars => PushInv'
<1> SUFFICES ASSUME TypeOK, LockInv, PushInv, [Next]_vars PROVE PushInv'
  OBVIOUS
<1>1. ASSUME NEW r \in Requests, Change(r) PROVE PushInv'
  <2>1. /\ r \in Workers /\ pc[r] \in {"idle", "due"} /\ pc' = [pc EXCEPT ![r] = "due"]
        /\ UNCHANGED <<live, loaded, agent, dropped, alerted>>
    BY <1>1 DEF Change, Block, Unblock, Workers, serverVars, agentVars, historyVars
  <2>2. pc'[r] = "due" /\ \A w \in Workers : w # r => pc'[w] = pc[w]
    BY <2>1 DEF TypeOK
  <2>3. Responsible(r)' /\ ~Early(r) /\ (~Pulling => agent' = "idle")
    BY <2>1, <2>2 DEF Responsible, Early, PushSteps, PushInv
  <2> QED
    BY <2>1, <2>2, <2>3, StaysResponsible
<1>2. ASSUME CronFires PROVE PushInv'
  <2>1. /\ Cron \in Workers /\ pc[Cron] = "idle" /\ pc' = [pc EXCEPT ![Cron] = "due"]
        /\ UNCHANGED <<live, loaded, agent, dropped, alerted>>
    BY <1>2 DEF CronFires, Workers, serverVars, agentVars, historyVars
  <2>2. pc'[Cron] = "due" /\ \A w \in Workers : w # Cron => pc'[w] = pc[w]
    BY <2>1 DEF TypeOK
  <2>3. Responsible(Cron)' /\ ~Early(Cron) /\ (~Pulling => agent' = "idle")
    BY <2>1, <2>2 DEF Responsible, Early, PushSteps, PushInv
  <2> QED
    BY <2>1, <2>2, <2>3, StaysResponsible
<1>3. ASSUME NEW w \in Workers, Regenerate(w) PROVE PushInv'
  <2>1. CASE ReadRows(w) \/ TruncateCrl(w)
    <3>1. /\ pc[w] \in {"due", "read"} /\ pc'[w] \in {"read", "truncated"}
          /\ \A v \in Workers : v # w => pc'[v] = pc[v]
          /\ UNCHANGED <<live, loaded, agent, dropped, alerted>>
      BY <2>1 DEF ReadRows, TruncateCrl, TypeOK, serverVars, agentVars, historyVars
    <3>2. Responsible(w)' /\ ~Early(w) /\ (~Pulling => agent' = "idle")
      BY <3>1 DEF Responsible, Early, PushSteps, PushInv
    <3> QED
      BY <3>1, <3>2, StaysResponsible
  <2>2. CASE WriteCrl(w)
    <3>1. pc'[w] = "scp" /\ UNCHANGED agent
      BY <2>2 DEF WriteCrl, TypeOK, agentVars
    <3>2. Responsible(w)' /\ Early(w)' /\ (~Pulling => agent' = "idle")
      BY <3>1 DEF Responsible, Early, PushSteps, PushInv
    <3> QED
      BY <3>2, StaysResponsible
  <2> QED
    BY <1>3, <2>1, <2>2 DEF Regenerate
<1>4. ASSUME NEW w \in Workers, AttemptFails(w) PROVE PushInv'
  <2>1. UNCHANGED agent
    BY <1>4 DEF AttemptFails, agentVars
  <2>2. CASE attempt[w] < Attempts
    <3>1. pc'[w] = "scp"
      BY <1>4, <2>2 DEF AttemptFails, TypeOK
    <3>2. Responsible(w)' /\ Early(w)' /\ (~Pulling => agent' = "idle")
      BY <2>1, <3>1 DEF Responsible, Early, PushSteps, PushInv
    <3> QED
      BY <3>2, StaysResponsible
  <2>3. CASE ~(attempt[w] < Attempts)
    BY <1>4, <2>1, <2>3 DEF AttemptFails, PushInv, Excused
  <2> QED
    BY <2>2, <2>3
<1>5. ASSUME NEW w \in Workers, Push(w) PROVE PushInv'
  <2>1. CASE \/ OpenStaging(w) \/ CloseStaging(w) \/ CheckStaged(w) \/ OpenLive(w)
             \/ CloseLive(w)
    <3>1. pc'[w] \in PushSteps \ {"readback", "comparing"} /\ UNCHANGED agent
      BY <2>1 DEF OpenStaging, CloseStaging, CheckStaged, OpenLive, CloseLive, OnlyPush,
                  TypeOK, PushSteps, agentVars
    <3>2. Responsible(w)' /\ Early(w)' /\ (~Pulling => agent' = "idle")
      BY <3>1 DEF Responsible, Early, PushSteps, PushInv
    <3> QED
      BY <3>2, StaysResponsible
  <2>2. CASE Reload(w)
    <3>1. pc'[w] = "readback" /\ live' = loaded' /\ UNCHANGED agent
      BY <2>2 DEF Reload, OnlyPush, TypeOK, agentVars
    <3>2. Responsible(w)' /\ (~Pulling => agent' = "idle")
      BY <3>1 DEF Responsible, PushInv
    <3> QED
      BY <3>1, <3>2, StaysResponsible
  <2>3. CASE ReadBack(w)
    <3>1. /\ pc[w] = "readback" /\ pc'[w] = "comparing" /\ payload'[w] = live
          /\ \A v \in Workers : v # w => pc'[v] = pc[v]
          /\ UNCHANGED <<live, loaded, agent, dropped, alerted>>
      BY <2>3 DEF ReadBack, OnlyPush, TypeOK, serverVars, agentVars, historyVars
    <3>2. Responsible(w)' /\ ~Early(w) /\ (~Pulling => agent' = "idle")
      BY <3>1 DEF Responsible, Early, PushSteps, PushInv
    <3> QED
      BY <3>1, <3>2, StaysResponsible
  <2>4. CASE PushSucceeds(w)
    <3>1. /\ pc[w] = "comparing" /\ payload[w] = crlFile
          /\ \A v \in Workers : v # w => pc'[v] = pc[v] /\ payload'[v] = payload[v]
          /\ UNCHANGED <<crlFile, live, loaded, agent, dropped, alerted, missed>>
      BY <2>4 DEF PushSucceeds, HashesAgree, OnlyPush, TypeOK, hubVars, serverVars,
                  agentVars, historyVars
    <3>2. \A v \in Workers : Early(v) => v # w /\ Early(v)'
      BY <3>1 DEF Early
    <3>3. ~Pulling => live' = loaded' \/ Excused' \/ \E v \in Workers : Early(v)'
      BY <3>1, <3>2 DEF PushInv, Excused
    <3>4. \A v \in Workers : v # w /\ Responsible(v) => Responsible(v)'
      BY <3>1 DEF Responsible
    <3>5. ASSUME NEW v \in Workers, Early(v) PROVE Responsible(v)'
      BY <3>2, <3>5 DEF Responsible, Early, PushSteps
    <3>6. ~Pulling /\ crlFile' # NoFile =>
            Delivered' \/ Excused' \/ missed' \/ \E v \in Workers : Responsible(v)'
      <4> SUFFICES ASSUME ~Pulling, crlFile # NoFile, ~Excused, ~missed,
                          \A v \in Workers : ~Responsible(v)'
                   PROVE  Delivered
        BY <3>1 DEF Delivered, Excused
      <4>1. live = loaded
        BY <3>5 DEF PushInv
      <4>2. Delivered \/ Responsible(w)
        BY <3>4 DEF PushInv
      <4>3. Responsible(w) => live = crlFile
        BY <3>1 DEF Responsible
      <4> QED
        BY <4>1, <4>2, <4>3 DEF Delivered
    <3> QED
      BY <3>1, <3>3, <3>6 DEF PushInv
  <2>5. CASE RefuseStaged(w) \/ StagingGone(w) \/ ProbeFails(w) \/ HashMismatch(w)
    BY <1>4, <2>5 DEF RefuseStaged, StagingGone, ProbeFails, HashMismatch
  <2> QED
    BY <1>5, <2>1, <2>2, <2>3, <2>4, <2>5 DEF Push
<1>6. ASSUME NEW w \in Workers, Fault(w) PROVE PushInv'
  <2>1. CASE CommandFails(w)
    BY <1>4, <2>1 DEF CommandFails
  <2>2. CASE CommandTimesOut(w)
    BY <2>2 DEF CommandTimesOut, PushInv, Excused, agentVars
  <2>3. CASE WorkerDies(w) /\ pc[w] \in PushSteps
    BY <2>3 DEF WorkerDies, PushInv, Excused, agentVars
  <2>4. CASE WorkerDies(w) /\ pc[w] \notin PushSteps
    <3>1. /\ missed' /\ \A v \in Workers : v # w => pc'[v] = pc[v]
          /\ UNCHANGED <<live, loaded, agent>> /\ dropped' = dropped /\ alerted' = alerted
      BY <2>4 DEF WorkerDies, TypeOK, serverVars, agentVars
    <3>2. \A v \in Workers : Early(v) => Early(v)'
      BY <2>4, <3>1 DEF Early
    <3> QED
      BY <3>1, <3>2 DEF PushInv, Excused
  <2> QED
    BY <1>6, <2>1, <2>2, <2>3, <2>4 DEF Fault
<1>7. ASSUME Pull \/ AgentDies PROVE PushInv'
  <2>1. Pulling
    BY <1>7 DEF PushInv, Pull, AgentChecksIn, AgentFetches, AgentOpensLive,
       AgentWritesLive, AgentReloads, AgentRollsBack, AgentRestores, AgentDies
  <2> QED
    BY <2>1 DEF PushInv
<1>8. CASE UNCHANGED vars
  BY <1>8 DEF vars, hubVars, workVars, serverVars, agentVars, historyVars, PushInv,
     Excused, Delivered, Early, Responsible
<1> QED
  BY <1>1, <1>2, <1>3, <1>5, <1>6, <1>7, <1>8 DEF Next

\* When every push has ended, the server has and runs with crl.pem or an alert
\* was sent: for any number of pushes at the same time and of attempts, and
\* wherever commands fail.
THEOREM DeliveryIsLoud == Spec => []DeliveredOrLoud
<1>1. TypeOK /\ PushInv => DeliveredOrLoud
  BY DEF PushInv, DeliveredOrLoud, HubAtRest, Delivered, Excused, Early, Responsible,
     PushSteps
<1> QED
  BY <1>1, InitInvariants, TypeInvariance, LockInvariance, PushInvariance, PTL DEF Spec

=============================================================================

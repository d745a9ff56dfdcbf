------------------------- MODULE CertRegistryProofs -------------------------
(***************************************************************************)
(* Proofs about CertRegistry: its types, that whoever holds a certificate  *)
(* is on record, that a form adds no second active certificate, and that   *)
(* offboarding leaves nothing behind.                                      *)
(***************************************************************************)
EXTENDS CertRegistry, TLAPS

Signing == {"signed", "opened", "written"}

(***************************************************************************)
(* Jobs.  Whoever signs holds the lock and has a row and a serial whose    *)
(* file is yet to be made; an import holds complete files.                 *)
(***************************************************************************)
JobOK(w) ==
  /\ job[w].step \in Signing =>
       lock = w /\ job[w].row \in Rows /\ job[w].serial \in Serials
  /\ job[w].step = "signed" => issued[job[w].serial] = NoFile
  /\ job[w].step \in {"sweeping", "publishing"} => job[w].emp \in Employees
  /\ job[w].step = "importing" => \A s \in job[w].todo : issued[s] \in Names

JobInv == \A w \in Workers : JobOK(w)

LEMMA IdleIsJob ==
  /\ IdleJob \in Jobs /\ IdleJob.step = "idle" /\ IdleJob.todo = {}
  /\ IdleJob.serial = 0 /\ IdleJob.pred = 0
BY DEF IdleJob, Jobs, Steps, Owners

\* Only one worker signs, and nobody does while the lock is free.
LEMMA OneSigner ==
  ASSUME JobInv
  PROVE  /\ lock = Nobody => \A w \in Workers : job[w].step \notin Signing
         /\ \A v, w \in Workers :
              job[v].step \in Signing /\ job[w].step \in Signing => v = w
BY WorkerAssumption DEF JobInv, JobOK

\* A step that changes the job of one worker, and no file that an import or a
\* signer holds, has to account for that worker alone.
LEMMA JobFrame ==
  ASSUME JobInv, TypeOK, NEW w \in Workers, NEW j,
         job' = [job EXCEPT ![w] = j],
         lock' = lock \/ lock \in {w, Nobody},
         UNCHANGED issued
  PROVE  \A v \in Workers : v # w => JobOK(v)'
<1> TAKE v \in Workers
<1> HAVE v # w
<1>1. job'[v] = job[v]
  BY DEF TypeOK
<1>2. job[v].step \in Signing => lock' = v
  BY WorkerAssumption DEF JobInv, JobOK
<1> QED
  BY <1>1, <1>2 DEF JobInv, JobOK

LEMMA InitJobs == Init => TypeOK /\ JobInv
<1> SUFFICES ASSUME Init PROVE TypeOK /\ JobInv
  OBVIOUS
<1>1. job \in [Workers -> Jobs] /\ \A w \in Workers : job[w].step = "idle"
  BY IdleIsJob DEF Init
<1>2. TypeOK
  BY <1>1 DEF Init, TypeOK
<1>3. JobInv
  BY <1>1 DEF JobInv, JobOK, Signing
<1> QED
  BY <1>2, <1>3

(***************************************************************************)
(* One lemma per group of actions.                                         *)
(***************************************************************************)
LEMMA SignsJobs ==
  ASSUME TypeOK, JobInv, NEW w \in Workers, NEW s \in Serials, NEW row \in Rows,
         NEW pred \in Serials \union {0}, Signs(w, s, row, pred)
  PROVE  TypeOK' /\ JobInv'
<1> DEFINE j == [IdleJob EXCEPT !.step = "signed", !.row = row, !.serial = s, !.pred = pred]
<1>1. job' = [job EXCEPT ![w] = j] /\ lock = Nobody /\ lock' = w
      /\ UNCHANGED <<rows, issued, crl, emp, deaths, delivered, deleted, late>>
  BY DEF Signs, historyVars
<1>2. j \in Jobs
  BY DEF IdleJob, Jobs, Steps, Owners
<1>3. j.step = "signed" /\ j.row = row /\ j.serial = s
  BY DEF IdleJob
<1> HIDE DEF j
<1>4. TypeOK'
  BY <1>1, <1>2 DEF TypeOK
<1>5. job'[w] = j
  BY <1>1 DEF TypeOK
<1>6. issued[s] = NoFile
  BY DEF Signs, NewSerial
<1>7. JobOK(w)'
  BY <1>1, <1>3, <1>5, <1>6 DEF JobOK
<1>8. \A v \in Workers : v # w => JobOK(v)'
  BY <1>1, JobFrame
<1> QED
  BY <1>4, <1>7, <1>8 DEF JobInv

LEMMA EndsJobs ==
  ASSUME TypeOK, JobInv, NEW w \in Workers, Ends(w),
         lock' = lock \/ lock \in {w, Nobody}, lock' \in Workers \union {Nobody},
         UNCHANGED issued
  PROVE  job' \in [Workers -> Jobs] /\ JobInv'
<1>1. job' = [job EXCEPT ![w] = IdleJob]
  BY DEF Ends
<1>2. job' \in [Workers -> Jobs] /\ job'[w] = IdleJob
  BY <1>1, IdleIsJob DEF TypeOK
<1>3. \A v \in Workers : v # w => JobOK(v)'
  BY <1>1, JobFrame
<1>4. JobOK(w)'
  BY <1>2, IdleIsJob DEF JobOK, Signing
<1> QED
  BY <1>2, <1>3, <1>4 DEF JobInv

\* The same for a worker whose next step is one that claims nothing.
LEMMA StepJobs ==
  ASSUME TypeOK, JobInv, NEW w \in Workers, NEW j \in Jobs,
         job' = [job EXCEPT ![w] = j], UNCHANGED <<lock, issued>>,
         j.step \in {"idle", "due"}
           \/ (j.step \in {"sweeping", "publishing"} /\ j.emp \in Employees)
           \/ (j.step = "importing" /\ \A s \in j.todo : issued[s] \in Names)
  PROVE  job' \in [Workers -> Jobs] /\ JobInv'
<1>1. job' \in [Workers -> Jobs] /\ job'[w] = j
  BY DEF TypeOK
<1>2. \A v \in Workers : v # w => JobOK(v)'
  BY JobFrame
<1>3. JobOK(w)'
  BY <1>1 DEF JobOK, Signing
<1> QED
  BY <1>1, <1>2, <1>3 DEF JobInv

LEMMA IssueJobs ==
  ASSUME TypeOK, JobInv, NEW w \in Workers, IssueSteps(w)
  PROVE  TypeOK' /\ JobInv'
<1>1. job[w].step \in Signing /\ job[w] \in Jobs
  BY DEF IssueSteps, OpenFile, WriteFile, CommitRow, CommitFails, Signing, TypeOK
<1>2. lock = w /\ job[w].row \in Rows /\ job[w].serial \in Serials
  BY <1>1 DEF JobInv, JobOK
<1>3. \A v \in Workers : v # w => job[v].step \notin Signing
  BY <1>1, OneSigner
<1>4. CASE OpenFile(w)
  <2> DEFINE j == [job[w] EXCEPT !.step = "opened"]
  <2>1. job' = [job EXCEPT ![w] = j]
    BY <1>4 DEF OpenFile
  <2>2. j \in Jobs /\ j.step = "opened" /\ j.row = job[w].row /\ j.serial = job[w].serial
    BY <1>1 DEF Jobs, Steps
  <2> HIDE DEF j
  <2>3. job' \in [Workers -> Jobs] /\ job'[w] = j
    BY <2>1, <2>2 DEF TypeOK
  <2>4. issued' = [issued EXCEPT ![job[w].serial] = Torn] /\ UNCHANGED lock
    BY <1>4 DEF OpenFile
  <2>5. TypeOK'
    BY <1>4, <2>3, <2>4 DEF OpenFile, TypeOK, historyVars
  <2>6. issued[job[w].serial] = NoFile
    BY <1>4 DEF OpenFile, JobInv, JobOK
  <2>7. JobOK(w)'
    BY <1>2, <2>2, <2>3, <2>4 DEF JobOK, Signing
  <2>8. ASSUME NEW v \in Workers, v # w PROVE JobOK(v)'
    <3>1. job'[v] = job[v] /\ job[v].step \notin Signing /\ JobOK(v)
      BY <1>3, <2>1, <2>8 DEF TypeOK, JobInv
    <3>2. \A s \in Serials : issued[s] \in Names => issued'[s] \in Names
      BY <2>4, <2>6, MarkAssumption DEF TypeOK
    <3>3. job[v].todo \subseteq Serials
      BY DEF TypeOK, Jobs
    <3> QED
      BY <3>1, <3>2, <3>3 DEF JobOK, Signing
  <2> QED
    BY <2>5, <2>7, <2>8 DEF JobInv
<1>5. CASE WriteFile(w)
  <2> DEFINE j == [job[w] EXCEPT !.step = "written"]
  <2>1. job' = [job EXCEPT ![w] = j]
    BY <1>5 DEF WriteFile
  <2>2. j \in Jobs /\ j.step = "written" /\ j.row = job[w].row /\ j.serial = job[w].serial
    BY <1>1 DEF Jobs, Steps
  <2> HIDE DEF j
  <2>3. job' \in [Workers -> Jobs] /\ job'[w] = j
    BY <2>1, <2>2 DEF TypeOK
  <2>4. /\ issued' = [issued EXCEPT ![job[w].serial] = job[w].row.name]
        /\ job[w].row.name \in Names /\ UNCHANGED lock
    BY <1>2, <1>5 DEF WriteFile, Rows
  <2>5. TypeOK'
    BY <1>5, <2>3, <2>4 DEF WriteFile, TypeOK, historyVars
  <2>6. JobOK(w)'
    BY <1>2, <2>2, <2>3, <2>4 DEF JobOK, Signing
  <2>7. ASSUME NEW v \in Workers, v # w PROVE JobOK(v)'
    <3>1. job'[v] = job[v] /\ job[v].step \notin Signing /\ JobOK(v)
      BY <1>3, <2>1, <2>7 DEF TypeOK, JobInv
    <3>2. \A s \in Serials : issued[s] \in Names => issued'[s] \in Names
      BY <2>4 DEF TypeOK
    <3>3. job[v].todo \subseteq Serials
      BY DEF TypeOK, Jobs
    <3> QED
      BY <3>1, <3>2, <3>3 DEF JobOK, Signing
  <2> QED
    BY <2>5, <2>6, <2>7 DEF JobInv
<1>6. CASE CommitRow(w)
  <2>1. job' \in [Workers -> Jobs] /\ JobInv'
    BY <1>2, <1>6, EndsJobs DEF CommitRow
  <2>2. [serial |-> job[w].serial, name |-> job[w].row.name, owner |-> job[w].row.owner]
          \in [serial : Serials, name : Names, owner : Owners]
    BY <1>2 DEF Rows
  <2>3. rows' \in [Serials -> Rows \union {NoRow}] /\ late' \subseteq Serials
    BY <1>2, <1>6 DEF CommitRow, TypeOK
  <2> QED
    BY <1>6, <2>1, <2>2, <2>3 DEF CommitRow, TypeOK
<1>7. CASE CommitFails(w)
  <2>1. job' \in [Workers -> Jobs] /\ JobInv'
    BY <1>2, <1>7, EndsJobs DEF CommitFails
  <2> QED
    BY <1>7, <2>1 DEF CommitFails, TypeOK, historyVars
<1> QED
  BY <1>4, <1>5, <1>6, <1>7 DEF IssueSteps

LEMMA BeginJobs ==
  ASSUME TypeOK, JobInv, NEW w \in Workers, Begin(w)
  PROVE  TypeOK' /\ JobInv'
<1>1. ASSUME NEW f \in Forms, NEW s \in Serials, Issue(w, f, s) PROVE TypeOK' /\ JobInv'
  <2> DEFINE row == [name |-> NameOf[f], owner |-> OwnerOf[f], form |-> f,
                     origin |-> "issued", status |-> "active"]
  <2>1. row \in Rows
    BY FormAssumption DEF Rows, Origins, Statuses
  <2>2. Signs(w, s, row, 0)
    BY <1>1 DEF Issue
  <2> HIDE DEF row
  <2> QED
    BY <2>1, <2>2, SignsJobs
<1>2. ASSUME NEW old \in Serials, NEW s \in Serials, Reissue(w, old, s)
      PROVE  TypeOK' /\ JobInv'
  <2> DEFINE row == [rows[old] EXCEPT !.form = NoForm, !.origin = "reissued",
                                      !.status = "active"]
  <2>1. rows[old] \in Rows
    BY <1>2 DEF Reissue, Registered, TypeOK
  <2>2. row \in Rows
    BY <2>1 DEF Rows, Origins, Statuses
  <2>3. Signs(w, s, row, old)
    BY <1>2 DEF Reissue
  <2> HIDE DEF row
  <2> QED
    BY <2>2, <2>3, SignsJobs
<1>3. ASSUME NEW s \in Serials, NEW st \in Statuses, SetStatus(w, s, st)
      PROVE  TypeOK' /\ JobInv'
  <2> DEFINE j == [job[w] EXCEPT !.step = "due"]
  <2>1. job' = [job EXCEPT ![w] = j]
    BY <1>3 DEF SetStatus
  <2>2. j \in Jobs /\ j.step = "due"
    BY DEF TypeOK, Jobs, Steps
  <2> HIDE DEF j
  <2>3. job' \in [Workers -> Jobs] /\ JobInv'
    BY <1>3, <2>1, <2>2, StepJobs DEF SetStatus
  <2>4. rows[s] \in Rows
    BY <1>3 DEF SetStatus, Registered, TypeOK
  <2>5. [rows[s] EXCEPT !.status = st] \in Rows
    BY <2>4 DEF Rows
  <2>6. rows' = [rows EXCEPT ![s] = [rows[s] EXCEPT !.status = st]]
    BY <1>3 DEF SetStatus
  <2>7. rows' \in [Serials -> Rows \union {NoRow}]
    BY <2>5, <2>6 DEF TypeOK
  <2> QED
    BY <1>3, <2>3, <2>7 DEF SetStatus, TypeOK
<1>4. ASSUME NEW e \in Employees, OffboardStart(w, e) PROVE TypeOK' /\ JobInv'
  <2> DEFINE j == [IdleJob EXCEPT !.step = "sweeping", !.todo = Usable(e), !.emp = e]
  <2>1. job' = [job EXCEPT ![w] = j]
    BY <1>4 DEF OffboardStart
  <2>2. Usable(e) \subseteq Serials
    BY DEF Usable, OwnedBy, Registered
  <2>3. j \in Jobs /\ j.step = "sweeping" /\ j.emp = e
    BY <2>2 DEF IdleJob, Jobs, Steps, Owners
  <2> HIDE DEF j
  <2>4. job' \in [Workers -> Jobs] /\ JobInv'
    BY <1>4, <2>1, <2>3, StepJobs DEF OffboardStart
  <2> QED
    BY <1>4, <2>4 DEF OffboardStart, TypeOK, historyVars
<1> QED
  BY <1>1, <1>2, <1>3, <1>4 DEF Begin

LEMMA OffboardJobs ==
  ASSUME TypeOK, JobInv, NEW w \in Workers, OffboardSteps(w)
  PROVE  TypeOK' /\ JobInv'
<1>1. job[w] \in Jobs /\ job[w].emp \in Employees
  BY DEF TypeOK, JobInv, JobOK, OffboardSteps, OffboardRevoke, OffboardPublish,
         OffboardComplete, OffboardFails
<1>2. ASSUME NEW s \in Serials, OffboardRevoke(w, s) PROVE TypeOK' /\ JobInv'
  <2> DEFINE j == [job[w] EXCEPT !.todo = job[w].todo \ {s}]
  <2>1. job' = [job EXCEPT ![w] = j]
    BY <1>2 DEF OffboardRevoke
  <2>2. j \in Jobs /\ j.step = "sweeping" /\ j.emp = job[w].emp
    BY <1>1, <1>2 DEF Jobs, OffboardRevoke
  <2> HIDE DEF j
  <2>3. job' \in [Workers -> Jobs] /\ JobInv'
    BY <1>1, <1>2, <2>1, <2>2, StepJobs DEF OffboardRevoke
  <2>4. rows[s] \in Rows
    BY <1>2 DEF OffboardRevoke, Registered, TypeOK
  <2>5. [rows[s] EXCEPT !.status = "revoked"] \in Rows
    BY <2>4 DEF Rows, Statuses
  <2>6. rows' = [rows EXCEPT ![s] = [rows[s] EXCEPT !.status = "revoked"]]
    BY <1>2 DEF OffboardRevoke
  <2>7. rows' \in [Serials -> Rows \union {NoRow}]
    BY <2>5, <2>6 DEF TypeOK
  <2> QED
    BY <1>2, <2>3, <2>7 DEF OffboardRevoke, TypeOK, historyVars
<1>3. CASE OffboardPublish(w)
  <2> DEFINE j == [job[w] EXCEPT !.step = "publishing"]
  <2>1. job' = [job EXCEPT ![w] = j]
    BY <1>3 DEF OffboardPublish
  <2>2. j \in Jobs /\ j.step = "publishing" /\ j.emp = job[w].emp
    BY <1>1 DEF Jobs, Steps
  <2> HIDE DEF j
  <2>3. job' \in [Workers -> Jobs] /\ JobInv'
    BY <1>1, <1>3, <2>1, <2>2, StepJobs DEF OffboardPublish
  <2> QED
    BY <1>3, <2>3 DEF OffboardPublish, TypeOK, historyVars, Listed, Registered
<1>4. CASE OffboardComplete(w) \/ OffboardFails(w)
  <2>1. job' \in [Workers -> Jobs] /\ JobInv'
    BY <1>4, EndsJobs DEF OffboardComplete, OffboardFails, TypeOK
  <2> QED
    BY <1>1, <1>4, <2>1 DEF OffboardComplete, OffboardFails, TypeOK, historyVars
<1> QED
  BY <1>2, <1>3, <1>4 DEF OffboardSteps

LEMMA ImportJobs ==
  ASSUME TypeOK, JobInv, Import
  PROVE  TypeOK' /\ JobInv'
<1>1. Boot \in Workers
  BY DEF Workers
<1>2. CASE ImportScan
  <2> DEFINE j == [IdleJob EXCEPT !.step = "importing", !.todo = Unregistered]
  <2>1. job' = [job EXCEPT ![Boot] = j]
    BY <1>2 DEF ImportScan
  <2>2. Unregistered \subseteq Serials /\ \A s \in Unregistered : issued[s] \in Names
    BY DEF Unregistered
  <2>3. j \in Jobs /\ j.step = "importing" /\ j.todo = Unregistered
    BY <2>2 DEF IdleJob, Jobs, Steps, Owners
  <2> HIDE DEF j
  <2>4. job' \in [Workers -> Jobs] /\ JobInv'
    BY <1>1, <1>2, <2>1, <2>2, <2>3, StepJobs DEF ImportScan
  <2> QED
    BY <1>2, <2>4 DEF ImportScan, TypeOK, historyVars
<1>3. CASE ImportCommit
  <2>1. job' \in [Workers -> Jobs] /\ JobInv'
    <3> DEFINE j == [IdleJob EXCEPT !.step = "due"]
    <3>1. Ends(Boot) \/ job' = [job EXCEPT ![Boot] = j]
      BY <1>3 DEF ImportCommit
    <3>2. j \in Jobs /\ j.step = "due"
      BY DEF IdleJob, Jobs, Steps, Owners
    <3> HIDE DEF j
    <3> QED
      BY <1>1, <1>3, <3>1, <3>2, EndsJobs, StepJobs DEF ImportCommit, TypeOK
  <2>2. \A s \in job[Boot].todo : issued[s] \in Names
    BY <1>1, <1>3 DEF JobInv, JobOK, ImportCommit
  <2>3. \A s \in job[Boot].todo : ImportedRow(s) \in Rows
    BY <2>2 DEF ImportedRow, Rows, Owners, Origins, Statuses
  <2>4. rows' \in [Serials -> Rows \union {NoRow}]
    BY <1>3, <2>3 DEF ImportCommit, TypeOK
  <2> QED
    BY <1>3, <2>1, <2>4 DEF ImportCommit, TypeOK, historyVars
<1>4. CASE ImportFails
  <2>1. job' \in [Workers -> Jobs] /\ JobInv'
    BY <1>1, <1>4, EndsJobs DEF ImportFails, TypeOK
  <2> QED
    BY <1>4, <2>1 DEF ImportFails, TypeOK, historyVars
<1> QED
  BY <1>2, <1>3, <1>4 DEF Import

LEMMA JobInvariance == TypeOK /\ JobInv /\ [Next]_vars => TypeOK' /\ JobInv'
<1> SUFFICES ASSUME TypeOK, JobInv, [Next]_vars PROVE TypeOK' /\ JobInv'
  OBVIOUS
<1>1. ASSUME NEW w \in Requests, Begin(w) \/ IssueSteps(w) \/ OffboardSteps(w)
      PROVE  TypeOK' /\ JobInv'
  <2>1. w \in Workers
    BY DEF Workers
  <2> QED
    BY <1>1, <2>1, BeginJobs, IssueJobs, OffboardJobs
<1>2. ASSUME NEW w \in Workers, Regenerate(w) \/ Die(w) PROVE TypeOK' /\ JobInv'
  <2>1. job' \in [Workers -> Jobs] /\ JobInv'
    BY <1>2, EndsJobs DEF Regenerate, Die, TypeOK
  <2> QED
    BY <1>2, <2>1 DEF Regenerate, Die, TypeOK, historyVars, Listed, Registered
<1>3. ASSUME NEW e \in Employees, DeleteEmployee(e) PROVE TypeOK' /\ JobInv'
  <2>1. OwnedBy(e) \subseteq Serials
    BY DEF OwnedBy, Registered
  <2>2. TypeOK'
    BY <1>3, <2>1 DEF DeleteEmployee, TypeOK
  <2>3. JobInv'
    BY <1>3 DEF DeleteEmployee, JobInv, JobOK
  <2> QED
    BY <2>2, <2>3
<1>4. CASE Import
  BY <1>4, ImportJobs
<1>5. CASE UNCHANGED vars
  <2>1. TypeOK'
    BY <1>5 DEF vars, historyVars, TypeOK
  <2>2. JobInv'
    BY <1>5 DEF vars, JobInv, JobOK
  <2> QED
    BY <2>1, <2>2
<1> QED
  BY <1>1, <1>2, <1>3, <1>4, <1>5 DEF Next

\* Every reachable state has the types TypeOK gives.
THEOREM TypeCorrect == Spec => []TypeOK
BY InitJobs, JobInvariance, PTL DEF Spec

(***************************************************************************)
(* What the actions do to the rows.                                        *)
(***************************************************************************)

\* A row comes into being by a commit of its signer or by an import, goes by a
\* deletion, and otherwise changes in nothing but its status.
Commits(w) ==
  /\ CommitRow(w)
  /\ job[w].row \in Rows /\ job[w].serial \in Serials
  /\ rows[job[w].serial] = NoRow
  /\ rows' = [rows EXCEPT ![job[w].serial] = job[w].row]

Imports ==
  /\ ImportCommit
  /\ \A s \in Serials : s \in job[Boot].todo =>
       rows[s] = NoRow /\ rows'[s] = ImportedRow(s) /\ ImportedRow(s) \in Rows
  /\ \A s \in Serials : s \notin job[Boot].todo => rows'[s] = rows[s]

Restatus(s, st) ==
  /\ lock = Nobody
  /\ rows[s] \in Rows
  /\ rows' = [rows EXCEPT ![s] = [rows[s] EXCEPT !.status = st]]
  /\ rows[s].status = "revoked" /\ st # "revoked" /\ Leaving(rows[s].owner) => s \in late'

LEMMA ImportsAreImported ==
  ASSUME NEW s \in Serials, Imports, rows'[s] # rows[s]
  PROVE  rows[s] = NoRow /\ rows'[s].origin = "imported" /\ rows'[s].owner = NoOne
<1>1. rows[s] = NoRow /\ rows'[s] = ImportedRow(s)
  BY DEF Imports
<1>2. ImportedRow(s).origin = "imported" /\ ImportedRow(s).owner = NoOne
  BY DEF ImportedRow
<1> QED
  BY <1>1, <1>2

LEMMA RowChange ==
  ASSUME TypeOK, JobInv, [Next]_vars
  PROVE  \/ UNCHANGED <<rows, delivered, deleted>>
         \/ \E w \in Workers : Commits(w)
         \/ Imports /\ UNCHANGED <<delivered, deleted>>
         \/ \E s \in Serials, st \in Statuses :
              Restatus(s, st) /\ UNCHANGED <<delivered, deleted>>
         \/ \E e \in Employees : DeleteEmployee(e)
<1> USE DEF historyVars
<1>1. ASSUME NEW w \in Requests, Begin(w)
      PROVE  \/ UNCHANGED <<rows, delivered, deleted>>
             \/ \E s \in Serials, st \in Statuses :
                  Restatus(s, st) /\ UNCHANGED <<delivered, deleted>>
  <2>1. ASSUME NEW s \in Serials, NEW st \in Statuses, SetStatus(w, s, st)
        PROVE  Restatus(s, st) /\ UNCHANGED <<delivered, deleted>>
    BY <2>1 DEF SetStatus, Restatus, Registered, TypeOK
  <2> QED
    BY <1>1, <2>1 DEF Begin, Issue, Reissue, Signs, OffboardStart
<1>2. ASSUME NEW w \in Requests, IssueSteps(w)
      PROVE  UNCHANGED <<rows, delivered, deleted>> \/ Commits(w)
  <2>1. CASE CommitRow(w)
    <3>1. w \in Workers /\ job[w].step \in Signing
      BY <2>1 DEF CommitRow, Signing, Workers
    <3> QED
      BY <2>1, <3>1 DEF Commits, CommitRow, RowFits, JobInv, JobOK
  <2> QED
    BY <1>2, <2>1 DEF IssueSteps, OpenFile, WriteFile, CommitFails
<1>3. ASSUME NEW w \in Requests, OffboardSteps(w)
      PROVE  \/ UNCHANGED <<rows, delivered, deleted>>
             \/ \E s \in Serials :
                  Restatus(s, "revoked") /\ UNCHANGED <<delivered, deleted>>
  <2>1. ASSUME NEW s \in Serials, OffboardRevoke(w, s)
        PROVE  Restatus(s, "revoked") /\ UNCHANGED <<delivered, deleted>>
    BY <2>1 DEF OffboardRevoke, Restatus, Registered, TypeOK
  <2> QED
    BY <1>3, <2>1 DEF OffboardSteps, OffboardPublish, OffboardComplete, OffboardFails
<1>4. CASE Import
  <2>1. CASE ImportCommit
    <3>1. \A s \in job[Boot].todo : issued[s] \in Names
      BY <2>1 DEF JobInv, JobOK, ImportCommit, Workers
    <3>2. \A s \in job[Boot].todo : ImportedRow(s) \in Rows
      BY <3>1 DEF ImportedRow, Rows, Owners, Origins, Statuses
    <3> QED
      BY <2>1, <3>2 DEF ImportCommit, Imports, Registered
  <2> QED
    BY <1>4, <2>1 DEF Import, ImportScan, ImportFails
<1>5. ASSUME NEW w \in Workers, Regenerate(w) \/ Die(w)
      PROVE  UNCHANGED <<rows, delivered, deleted>>
  BY <1>5 DEF Regenerate, Die
<1>6. CASE UNCHANGED vars
  BY <1>6 DEF vars
<1>7. "revoked" \in Statuses /\ Requests \subseteq Workers
  BY DEF Statuses, Workers
<1> QED
  BY <1>1, <1>2, <1>3, <1>4, <1>5, <1>6, <1>7 DEF Next

(***************************************************************************)
(* Holders of certificates are on record.                                  *)
(***************************************************************************)
OnRecord(d) ==
  \/ d.serial \in deleted
  \/ /\ d.serial \in Registered
     /\ rows[d.serial].name = d.name
     /\ rows[d.serial].owner = d.owner

LEMMA OwnerInvariance ==
  ASSUME TypeOK, JobInv, OwnerKnown, [Next]_vars
  PROVE  OwnerKnown'
<1>1. SUFFICES ASSUME NEW d \in delivered' PROVE OnRecord(d)'
  BY DEF OwnerKnown, OnRecord
<1>2. d \in delivered => OnRecord(d) /\ d.serial \in Serials
  BY DEF OwnerKnown, OnRecord, TypeOK
<1>3. CASE UNCHANGED <<rows, delivered, deleted>>
  BY <1>2, <1>3 DEF OnRecord, Registered
<1>4. ASSUME NEW w \in Workers, Commits(w) PROVE OnRecord(d)'
  <2>1. deleted' = deleted /\ job[w].row # NoRow
    BY <1>4, MarkAssumption DEF Commits, CommitRow
  <2>2. CASE d \in delivered
    <3>1. d.serial \in Registered => d.serial # job[w].serial
      BY <1>4 DEF Commits, Registered
    <3> QED
      BY <1>2, <1>4, <2>1, <2>2, <3>1 DEF Commits, OnRecord, Registered, TypeOK
  <2>3. CASE d \notin delivered
    <3>1. d.serial = job[w].serial /\ d.name = job[w].row.name /\ d.owner = job[w].row.owner
      BY <1>1, <1>4, <2>3 DEF Commits, CommitRow
    <3>2. rows'[job[w].serial] = job[w].row
      BY <1>4 DEF Commits, TypeOK
    <3> QED
      BY <1>4, <2>1, <3>1, <3>2 DEF Commits, OnRecord, Registered
  <2> QED
    BY <2>2, <2>3
<1>5. CASE Imports /\ UNCHANGED <<delivered, deleted>>
  <2>1. \A s \in Registered : rows'[s] = rows[s]
    BY <1>5 DEF Imports, Registered
  <2> QED
    BY <1>1, <1>2, <1>5, <2>1 DEF OnRecord, Registered
<1>6. ASSUME NEW s \in Serials, NEW st \in Statuses, Restatus(s, st),
             UNCHANGED <<delivered, deleted>>
      PROVE  OnRecord(d)'
  <2>1. /\ [rows[s] EXCEPT !.status = st] \in Rows
        /\ [rows[s] EXCEPT !.status = st].name = rows[s].name
        /\ [rows[s] EXCEPT !.status = st].owner = rows[s].owner
    BY <1>6 DEF Restatus, Rows
  <2>2. /\ rows'[s] \in Rows /\ rows'[s].name = rows[s].name
        /\ rows'[s].owner = rows[s].owner
        /\ \A t \in Serials : t # s => rows'[t] = rows[t]
    BY <1>6, <2>1 DEF Restatus, TypeOK
  <2> QED
    BY <1>1, <1>2, <1>6, <2>2, MarkAssumption DEF OnRecord, Registered
<1>7. ASSUME NEW e \in Employees, DeleteEmployee(e) PROVE OnRecord(d)'
  <2>1. d \in delivered
    BY <1>1, <1>7 DEF DeleteEmployee
  <2>2. \A s \in Serials : s \notin OwnedBy(e) => rows'[s] = rows[s]
    BY <1>7 DEF DeleteEmployee
  <2> QED
    BY <1>2, <1>7, <2>1, <2>2 DEF DeleteEmployee, OnRecord, Registered
<1> QED
  BY <1>3, <1>4, <1>5, <1>6, <1>7, RowChange

\* Whoever was given a certificate is on record with it.
THEOREM OwnersKnown == Spec => []OwnerKnown
<1>1. Init => OwnerKnown
  BY DEF Init, OwnerKnown
<1> QED
  BY <1>1, InitJobs, JobInvariance, OwnerInvariance, PTL DEF Spec

(***************************************************************************)
(* One active certificate per name.                                        *)
(***************************************************************************)

\* What an issuance has checked still holds while it keeps the lock, but for
\* what an import adds.
Alone(n) ==
  \A t \in Registered :
    rows[t].name = n /\ rows[t].status = "active" => rows[t].origin = "imported"

CheckInv ==
  \A w \in Workers :
    job[w].step \in Signing /\ job[w].row.origin = "issued" => Alone(job[w].row.name)

\* A worker goes on signing what it signed, or has just found the name free.
SignsOn(v) ==
  \/ job[v].step \in Signing /\ job'[v].row = job[v].row
  \/ /\ UNCHANGED rows
     /\ job'[v].row.origin = "issued" => ~NameTaken(job'[v].row.name)

LEMMA SigningChange ==
  ASSUME TypeOK, JobInv, [Next]_vars, NEW v \in Workers, job'[v].step \in Signing
  PROVE  SignsOn(v)
<1>1. ASSUME NEW w \in Workers, NEW j, job' = [job EXCEPT ![w] = j], j.step \notin Signing
      PROVE  SignsOn(v)
  <2>1. v # w
    BY <1>1 DEF TypeOK
  <2> QED
    BY <1>1, <2>1 DEF TypeOK, SignsOn
<1>2. ASSUME NEW w \in Workers, Ends(w) PROVE SignsOn(v)
  <2>1. IdleJob.step \notin Signing
    BY IdleIsJob DEF Signing
  <2> QED
    BY <1>1, <1>2, <2>1 DEF Ends
<1>3. ASSUME NEW w \in Workers, NEW s, NEW row, NEW pred, Signs(w, s, row, pred),
             row.origin = "issued" => ~NameTaken(row.name)
      PROVE  SignsOn(v)
  <2>1. v = w => job'[v].row = row
    BY <1>3 DEF Signs, TypeOK, IdleJob
  <2>2. v # w => job'[v] = job[v]
    BY <1>3 DEF Signs, TypeOK
  <2>3. UNCHANGED rows
    BY <1>3 DEF Signs
  <2> QED
    BY <1>3, <2>1, <2>2, <2>3 DEF SignsOn
<1>4. ASSUME NEW w \in Requests, Begin(w) PROVE SignsOn(v)
  <2>1. w \in Workers
    BY DEF Workers
  <2>2. ASSUME NEW f \in Forms, NEW s \in Serials, Issue(w, f, s) PROVE SignsOn(v)
    <3> DEFINE row == [name |-> NameOf[f], owner |-> OwnerOf[f], form |-> f,
                       origin |-> "issued", status |-> "active"]
    <3>1. Signs(w, s, row, 0) /\ ~NameTaken(row.name)
      BY <2>2 DEF Issue
    <3> HIDE DEF row
    <3> QED
      BY <1>3, <2>1, <3>1
  <2>3. ASSUME NEW old \in Serials, NEW s \in Serials, Reissue(w, old, s) PROVE SignsOn(v)
    <3> DEFINE row == [rows[old] EXCEPT !.form = NoForm, !.origin = "reissued",
                                        !.status = "active"]
    <3>1. rows[old] \in Rows
      BY <2>3 DEF Reissue, Registered, TypeOK
    <3>2. row.origin # "issued"
      BY <3>1 DEF Rows
    <3>3. Signs(w, s, row, old)
      BY <2>3 DEF Reissue
    <3> HIDE DEF row
    <3> QED
      BY <1>3, <2>1, <3>2, <3>3
  <2>4. ASSUME NEW s \in Serials, NEW st \in Statuses, SetStatus(w, s, st) PROVE SignsOn(v)
    <3> DEFINE j == [job[w] EXCEPT !.step = "due"]
    <3>1. job' = [job EXCEPT ![w] = j]
      BY <2>4 DEF SetStatus
    <3>2. j.step \notin Signing
      BY <2>1 DEF Signing, TypeOK, Jobs
    <3> HIDE DEF j
    <3> QED
      BY <1>1, <2>1, <3>1, <3>2
  <2>5. ASSUME NEW e \in Employees, OffboardStart(w, e) PROVE SignsOn(v)
    <3> DEFINE j == [IdleJob EXCEPT !.step = "sweeping", !.todo = Usable(e), !.emp = e]
    <3>1. job' = [job EXCEPT ![w] = j] /\ j.step \notin Signing
      BY <2>5 DEF OffboardStart, Signing, IdleJob
    <3> HIDE DEF j
    <3> QED
      BY <1>1, <2>1, <3>1
  <2> QED
    BY <1>4, <2>2, <2>3, <2>4, <2>5 DEF Begin
<1>5. ASSUME NEW w \in Requests, IssueSteps(w) PROVE SignsOn(v)
  <2>1. w \in Workers /\ job[w] \in Jobs
    BY DEF Workers, TypeOK
  <2>2. CASE OpenFile(w) \/ WriteFile(w)
    <3>1. v = w => job[v].step \in Signing /\ job'[v].row = job[v].row
      BY <2>1, <2>2 DEF OpenFile, WriteFile, Signing, TypeOK, Jobs
    <3>2. v # w => job'[v] = job[v]
      BY <2>2 DEF OpenFile, WriteFile, TypeOK
    <3> QED
      BY <3>1, <3>2 DEF SignsOn
  <2> QED
    BY <1>2, <1>5, <2>1, <2>2 DEF IssueSteps, CommitRow, CommitFails
<1>6. ASSUME NEW w \in Requests, OffboardSteps(w) PROVE SignsOn(v)
  <2>1. w \in Workers /\ job[w] \in Jobs
    BY DEF Workers, TypeOK
  <2>2. CASE (\E s \in Serials : OffboardRevoke(w, s)) \/ OffboardPublish(w)
    <3>1. v # w => job'[v] = job[v]
      BY <2>2 DEF OffboardRevoke, OffboardPublish, TypeOK
    <3>2. v = w => job'[v].step \in {"sweeping", "publishing"}
      BY <2>1, <2>2 DEF OffboardRevoke, OffboardPublish, TypeOK, Jobs
    <3> QED
      BY <3>1, <3>2 DEF Signing, SignsOn
  <2> QED
    BY <1>2, <1>6, <2>1, <2>2 DEF OffboardSteps, OffboardComplete, OffboardFails
<1>7. CASE Import
  <2>1. Boot \in Workers
    BY DEF Workers
  <2> DEFINE scan == [IdleJob EXCEPT !.step = "importing", !.todo = Unregistered]
             done == [IdleJob EXCEPT !.step = "due"]
  <2>2. scan.step \notin Signing /\ done.step \notin Signing
    BY DEF IdleJob, Signing
  <2>3. ImportScan => job' = [job EXCEPT ![Boot] = scan]
    BY DEF ImportScan
  <2>4. ImportCommit => Ends(Boot) \/ job' = [job EXCEPT ![Boot] = done]
    BY DEF ImportCommit
  <2>5. ImportFails => Ends(Boot)
    BY DEF ImportFails
  <2> HIDE DEF scan, done
  <2>6. job' = [job EXCEPT ![Boot] = scan] => SignsOn(v)
    BY <1>1, <2>1, <2>2
  <2>7. job' = [job EXCEPT ![Boot] = done] => SignsOn(v)
    BY <1>1, <2>1, <2>2
  <2>8. Ends(Boot) => SignsOn(v)
    BY <1>2, <2>1
  <2> QED
    BY <1>7, <2>3, <2>4, <2>5, <2>6, <2>7, <2>8 DEF Import
<1>8. ASSUME NEW w \in Workers, Regenerate(w) \/ Die(w) PROVE SignsOn(v)
  <2> QED
    BY <1>2, <1>8 DEF Regenerate, Die
<1>9. CASE UNCHANGED vars \/ \E e \in Employees : DeleteEmployee(e)
  BY <1>9 DEF vars, DeleteEmployee, SignsOn
<1> QED
  BY <1>4, <1>5, <1>6, <1>7, <1>8, <1>9 DEF Next

LEMMA CheckInvariance ==
  ASSUME TypeOK, JobInv, CheckInv, [Next]_vars
  PROVE  CheckInv'
<1> SUFFICES ASSUME NEW v \in Workers, job'[v].step \in Signing,
                    job'[v].row.origin = "issued"
             PROVE  Alone(job[v].row.name)'
  BY DEF CheckInv
<1>1. CASE UNCHANGED rows /\ ~NameTaken(job'[v].row.name)
  BY <1>1 DEF Alone, NameTaken, Registered
<1>2. CASE job[v].step \in Signing /\ job'[v].row = job[v].row
  <2> DEFINE n == job[v].row.name
  <2>1. Alone(n) /\ lock # Nobody
    BY <1>2, OneSigner DEF CheckInv
  <2> SUFFICES ASSUME NEW t \in Registered', rows'[t].name = n, rows'[t].status = "active"
               PROVE  rows'[t].origin = "imported"
    BY <1>2 DEF Alone
  <2>2. t \in Serials /\ rows'[t] # NoRow
    BY DEF Registered
  <2>3. rows'[t] = rows[t] => rows'[t].origin = "imported"
    BY <2>1, <2>2 DEF Alone, Registered
  <2>4. ASSUME NEW w \in Workers, Commits(w) PROVE FALSE
    <3>1. job[w].step \in Signing /\ job'[w] = IdleJob
      BY <2>4 DEF Commits, CommitRow, Signing, Ends, TypeOK
    <3>2. w = v
      BY <1>2, <3>1, OneSigner
    <3> QED
      BY <3>1, <3>2, IdleIsJob DEF Signing
  <2>5. CASE Imports
    BY <2>2, <2>3, <2>5, ImportsAreImported
  <2>6. CASE \E e \in Employees : DeleteEmployee(e)
    BY <2>2, <2>3, <2>6 DEF DeleteEmployee
  <2>7. CASE UNCHANGED rows
    BY <2>3, <2>7
  <2> QED
    BY <2>1, <2>4, <2>5, <2>6, <2>7, RowChange DEF Restatus
<1> QED
  BY <1>1, <1>2, SigningChange DEF SignsOn

\* A form adds no second active certificate under a name.
THEOREM NoSecondActives == Spec => NoSecondActive
<1>1. Init => CheckInv
  <2> SUFFICES ASSUME Init PROVE CheckInv
    OBVIOUS
  <2>1. \A w \in Workers : job[w].step = "idle"
    BY IdleIsJob DEF Init
  <2> QED
    BY <2>1 DEF CheckInv, Signing
<1>2. TypeOK /\ JobInv /\ CheckInv /\ [Next]_vars =>
        \A s \in Serials :
          rows[s] = NoRow /\ rows'[s] # NoRow /\ rows'[s].origin = "issued" =>
            \A t \in Registered :
              rows[t].name = rows'[s].name /\ rows[t].status = "active" =>
                rows[t].origin = "imported"
  <2> SUFFICES ASSUME TypeOK, JobInv, CheckInv, [Next]_vars, NEW s \in Serials,
                      rows[s] = NoRow, rows'[s] # NoRow, rows'[s].origin = "issued"
               PROVE  Alone(rows'[s].name)
    BY DEF Alone
  <2>1. ASSUME NEW w \in Workers, Commits(w) PROVE Alone(rows'[s].name)
    <3>1. job[w].step \in Signing /\ rows'[s] = job[w].row
      BY <2>1 DEF Commits, CommitRow, Signing, TypeOK
    <3> QED
      BY <3>1 DEF CheckInv
  <2>2. ~Imports
    BY ImportsAreImported
  <2>3. \A e \in Employees : ~DeleteEmployee(e)
    BY DEF DeleteEmployee
  <2>4. \A t \in Serials, st \in Statuses : ~Restatus(t, st)
    BY MarkAssumption DEF Restatus, TypeOK
  <2> QED
    BY <2>1, <2>2, <2>3, <2>4, RowChange
<1> QED
  BY <1>1, <1>2, InitJobs, JobInvariance, CheckInvariance, PTL DEF Spec, NoSecondActive

(***************************************************************************)
(* Offboarding leaves nothing behind.                                      *)
(***************************************************************************)

\* What is not revoked of an employee's certificates is yet to be swept, or late.
Swept(e, T) == \A s \in OwnedBy(e) : rows[s].status # "revoked" => s \in T \union late

Sweeping(w) == job[w].step \in {"sweeping", "publishing"}

SweepInv ==
  /\ \A e \in Employees : emp[e] = "offboarded" => Swept(e, {})
  /\ \A w \in Workers : Sweeping(w) /\ emp[job[w].emp] # "deleted" =>
       Leaving(job[w].emp) /\ Swept(job[w].emp, job[w].todo)
  /\ \A w \in Workers : job[w].step = "publishing" => job[w].todo = {}

LEMMA LateGrows == [Next]_vars => late \subseteq late'
BY DEF Next, Begin, Issue, Reissue, Signs, SetStatus, OffboardStart, IssueSteps, OpenFile,
       WriteFile, CommitRow, CommitFails, OffboardSteps, OffboardRevoke, OffboardPublish,
       OffboardComplete, OffboardFails, Regenerate, Die, DeleteEmployee, Import, ImportScan,
       ImportCommit, ImportFails, vars, historyVars

\* The status of an employee: deletion is final, nobody comes back, and only an
\* operation that has swept everything ends in "offboarded".
LEMMA EmpChange ==
  ASSUME TypeOK, JobInv, [Next]_vars, NEW e \in Employees
  PROVE  /\ emp[e] = "deleted" => emp'[e] = "deleted"
         /\ emp[e] # "active" => emp'[e] # "active"
         /\ emp'[e] = "offboarded" =>
              \/ emp[e] = "offboarded"
              \/ \E w \in Workers : job[w].step = "publishing" /\ job[w].emp = e
                                    /\ emp[e] # "deleted"
<1> DEFINE Goal ==
      /\ emp[e] = "deleted" => emp'[e] = "deleted"
      /\ emp[e] # "active" => emp'[e] # "active"
      /\ emp'[e] = "offboarded" =>
           \/ emp[e] = "offboarded"
           \/ \E w \in Workers : job[w].step = "publishing" /\ job[w].emp = e
                                 /\ emp[e] # "deleted"
<1>1. CASE UNCHANGED emp
  BY <1>1
<1>2. ASSUME NEW w \in Requests, NEW d \in Employees, OffboardStart(w, d) PROVE Goal
  BY <1>2 DEF OffboardStart, TypeOK
<1>3. ASSUME NEW w \in Requests, OffboardComplete(w) PROVE Goal
  <2>1. w \in Workers /\ job[w].emp \in Employees
    BY <1>3 DEF OffboardComplete, JobInv, JobOK, Workers
  <2> QED
    BY <1>3, <2>1 DEF OffboardComplete, TypeOK
<1>4. ASSUME NEW d \in Employees, DeleteEmployee(d) PROVE Goal
  BY <1>4 DEF DeleteEmployee, TypeOK
<1>5. \/ UNCHANGED emp
      \/ \E w \in Requests, d \in Employees : OffboardStart(w, d)
      \/ \E w \in Requests : OffboardComplete(w)
      \/ \E d \in Employees : DeleteEmployee(d)
  BY DEF Next, Begin, Issue, Reissue, Signs, SetStatus, IssueSteps, OpenFile,
         WriteFile, CommitRow, CommitFails, OffboardSteps, OffboardRevoke, OffboardPublish,
         OffboardFails, Regenerate, Die, Import, ImportScan, ImportCommit, ImportFails, vars
<1> QED
  BY <1>1, <1>2, <1>3, <1>4, <1>5

\* Once an employee is on the way out, no step adds a certificate to what is
\* neither swept nor late.
LEMMA SweptStays ==
  ASSUME TypeOK, JobInv, [Next]_vars, NEW e \in Employees, NEW T,
         Leaving(e), emp'[e] # "deleted", Swept(e, T)
  PROVE  Swept(e, T)'
<1> SUFFICES ASSUME NEW s \in OwnedBy(e)', rows'[s].status # "revoked", s \notin T
             PROVE  s \in late'
  BY DEF Swept
<1>1. s \in Serials /\ rows'[s] # NoRow /\ rows'[s].owner = e
  BY DEF OwnedBy, Registered
<1>2. rows'[s] = rows[s] => s \in late'
  BY <1>1, LateGrows DEF Swept, OwnedBy, Registered
<1>3. ASSUME NEW w \in Workers, Commits(w) PROVE s \in late'
  <2>1. s # job[w].serial => rows'[s] = rows[s]
    BY <1>1, <1>3 DEF Commits, TypeOK
  <2>2. s = job[w].serial => job[w].row.owner = e
    BY <1>1, <1>3 DEF Commits, TypeOK
  <2> QED
    BY <1>2, <1>3, <2>1, <2>2 DEF Commits, CommitRow
<1>4. CASE Imports
  BY <1>1, <1>2, <1>4, ImportsAreImported, MarkAssumption
<1>5. ASSUME NEW t \in Serials, NEW st \in Statuses, Restatus(t, st) PROVE s \in late'
  <2>1. s # t => rows'[s] = rows[s]
    BY <1>1, <1>5 DEF Restatus, TypeOK
  <2>2. CASE s = t
    <3>1. rows'[s] = [rows[s] EXCEPT !.status = st] /\ rows[s] \in Rows
      BY <1>1, <1>5, <2>2 DEF Restatus, TypeOK
    <3>2. rows'[s].status = st /\ rows'[s].owner = rows[s].owner
      BY <3>1 DEF Rows
    <3>3. rows[s] # NoRow
      BY <3>1, MarkAssumption
    <3>4. rows[s].status # "revoked" => s \in late
      BY <1>1, <3>2, <3>3 DEF Swept, OwnedBy, Registered
    <3> QED
      BY <1>1, <1>5, <2>2, <3>2, <3>4, LateGrows DEF Restatus
  <2> QED
    BY <1>2, <2>1, <2>2
<1>6. ASSUME NEW d \in Employees, DeleteEmployee(d) PROVE s \in late'
  BY <1>1, <1>2, <1>6 DEF DeleteEmployee
<1> QED
  BY <1>2, <1>3, <1>4, <1>5, <1>6, RowChange

\* A worker that sweeps has just begun, or goes on, or has revoked one more.
SweepsOn(w) ==
  \/ \E e \in Employees : OffboardStart(w, e)
  \/ /\ Sweeping(w) /\ job'[w].emp = job[w].emp /\ job'[w].todo = job[w].todo
     /\ job'[w].step = "publishing" => job[w].step = "publishing" \/ job[w].todo = {}
  \/ \E s \in Serials : OffboardRevoke(w, s)

LEMMA SweepChange ==
  ASSUME TypeOK, JobInv, [Next]_vars, NEW v \in Workers, Sweeping(v)'
  PROVE  SweepsOn(v)
<1>1. ASSUME NEW w \in Workers, NEW j, job' = [job EXCEPT ![w] = j],
             j.step \notin {"sweeping", "publishing"}
      PROVE  SweepsOn(v)
  <2>1. v # w
    BY <1>1 DEF TypeOK, Sweeping
  <2>2. job'[v] = job[v]
    BY <1>1, <2>1 DEF TypeOK
  <2> QED
    BY <2>2 DEF SweepsOn, Sweeping
<1>2. ASSUME NEW w \in Workers, Ends(w) PROVE SweepsOn(v)
  <2>1. IdleJob.step \notin {"sweeping", "publishing"}
    BY IdleIsJob
  <2> QED
    BY <1>1, <1>2, <2>1 DEF Ends
<1>3. ASSUME NEW w \in Workers, NEW s, NEW row, NEW pred, Signs(w, s, row, pred)
      PROVE  SweepsOn(v)
  <2> DEFINE j == [IdleJob EXCEPT !.step = "signed", !.row = row, !.serial = s,
                                  !.pred = pred]
  <2>1. job' = [job EXCEPT ![w] = j] /\ j.step = "signed"
    BY <1>3 DEF Signs, IdleJob
  <2> HIDE DEF j
  <2> QED
    BY <1>1, <2>1
<1>4. ASSUME NEW w \in Requests, Begin(w) PROVE SweepsOn(v)
  <2>1. w \in Workers /\ job[w] \in Jobs
    BY DEF Workers, TypeOK
  <2>2. ASSUME NEW s \in Serials, NEW st \in Statuses, SetStatus(w, s, st)
        PROVE  SweepsOn(v)
    <3> DEFINE j == [job[w] EXCEPT !.step = "due"]
    <3>1. job' = [job EXCEPT ![w] = j] /\ j.step = "due"
      BY <2>1, <2>2 DEF SetStatus, Jobs
    <3> HIDE DEF j
    <3> QED
      BY <1>1, <2>1, <3>1
  <2>3. ASSUME NEW e \in Employees, OffboardStart(w, e) PROVE SweepsOn(v)
    <3>1. v = w => SweepsOn(v)
      BY <2>3 DEF SweepsOn
    <3>2. v # w => job'[v] = job[v]
      BY <2>3 DEF OffboardStart, TypeOK
    <3> QED
      BY <3>1, <3>2 DEF SweepsOn, Sweeping
  <2> QED
    BY <1>3, <1>4, <2>1, <2>2, <2>3 DEF Begin, Issue, Reissue
<1>5. ASSUME NEW w \in Requests, IssueSteps(w) PROVE SweepsOn(v)
  <2>1. w \in Workers /\ job[w] \in Jobs
    BY DEF Workers, TypeOK
  <2>2. CASE OpenFile(w) \/ WriteFile(w)
    <3>1. v # w => job'[v] = job[v]
      BY <2>2 DEF OpenFile, WriteFile, TypeOK
    <3>2. v # w
      BY <2>1, <2>2 DEF OpenFile, WriteFile, TypeOK, Jobs, Sweeping
    <3> QED
      BY <3>1, <3>2 DEF SweepsOn, Sweeping
  <2> QED
    BY <1>2, <1>5, <2>1, <2>2 DEF IssueSteps, CommitRow, CommitFails
<1>6. ASSUME NEW w \in Requests, OffboardSteps(w) PROVE SweepsOn(v)
  <2>1. w \in Workers /\ job[w] \in Jobs
    BY DEF Workers, TypeOK
  <2>2. ASSUME NEW s \in Serials, OffboardRevoke(w, s) PROVE SweepsOn(v)
    <3>1. v = w => SweepsOn(v)
      BY <2>2 DEF SweepsOn
    <3>2. v # w => job'[v] = job[v]
      BY <2>2 DEF OffboardRevoke, TypeOK
    <3> QED
      BY <3>1, <3>2 DEF SweepsOn, Sweeping
  <2>3. CASE OffboardPublish(w)
    <3>1. v # w => job'[v] = job[v]
      BY <2>3 DEF OffboardPublish, TypeOK
    <3>2. v = w => Sweeping(v) /\ job[v].todo = {}
                   /\ job'[v].emp = job[v].emp /\ job'[v].todo = job[v].todo
      BY <2>1, <2>3 DEF OffboardPublish, TypeOK, Jobs, Sweeping
    <3> QED
      BY <3>1, <3>2 DEF SweepsOn, Sweeping
  <2> QED
    BY <1>2, <1>6, <2>1, <2>2, <2>3 DEF OffboardSteps, OffboardComplete, OffboardFails
<1>7. CASE Import
  <2>1. Boot \in Workers
    BY DEF Workers
  <2> DEFINE scan == [IdleJob EXCEPT !.step = "importing", !.todo = Unregistered]
             done == [IdleJob EXCEPT !.step = "due"]
  <2>2. scan.step = "importing" /\ done.step = "due"
    BY DEF IdleJob
  <2>3. ImportScan => job' = [job EXCEPT ![Boot] = scan]
    BY DEF ImportScan
  <2>4. ImportCommit => Ends(Boot) \/ job' = [job EXCEPT ![Boot] = done]
    BY DEF ImportCommit
  <2>5. ImportFails => Ends(Boot)
    BY DEF ImportFails
  <2> HIDE DEF scan, done
  <2>6. job' = [job EXCEPT ![Boot] = scan] => SweepsOn(v)
    BY <1>1, <2>1, <2>2
  <2>7. job' = [job EXCEPT ![Boot] = done] => SweepsOn(v)
    BY <1>1, <2>1, <2>2
  <2> QED
    BY <1>2, <1>7, <2>1, <2>3, <2>4, <2>5, <2>6, <2>7 DEF Import
<1>8. ASSUME NEW w \in Workers, Regenerate(w) \/ Die(w) PROVE SweepsOn(v)
  BY <1>2, <1>8 DEF Regenerate, Die
<1>9. CASE UNCHANGED vars \/ \E e \in Employees : DeleteEmployee(e)
  BY <1>9 DEF vars, DeleteEmployee, SweepsOn, Sweeping
<1> QED
  BY <1>4, <1>5, <1>6, <1>7, <1>8, <1>9 DEF Next

LEMMA SweepInvariance ==
  ASSUME TypeOK, JobInv, SweepInv, [Next]_vars
  PROVE  SweepInv'
<1>1. ASSUME NEW e \in Employees, emp'[e] = "offboarded" PROVE Swept(e, {})'
  <2>1. CASE emp[e] = "offboarded"
    BY <1>1, <2>1, SweptStays DEF SweepInv, Leaving
  <2>2. ASSUME NEW w \in Workers, job[w].step = "publishing", job[w].emp = e,
               emp[e] # "deleted"
        PROVE  Swept(e, {})'
    <3>1. Leaving(e) /\ Swept(e, {})
      BY <2>2 DEF SweepInv, Sweeping
    <3> QED
      BY <1>1, <3>1, SweptStays
  <2> QED
    BY <1>1, <2>1, <2>2, EmpChange
<1>2. ASSUME NEW w \in Workers, Sweeping(w)'
      PROVE  /\ emp'[job'[w].emp] # "deleted" =>
                  Leaving(job[w].emp)' /\ Swept(job[w].emp, job[w].todo)'
             /\ job'[w].step = "publishing" => job'[w].todo = {}
  <2>1. ASSUME NEW e \in Employees, OffboardStart(w, e)
        PROVE  /\ job'[w].step = "sweeping" /\ job'[w].emp = e
               /\ Leaving(e)' /\ Swept(e, job[w].todo)'
    <3>1. job'[w] = [IdleJob EXCEPT !.step = "sweeping", !.todo = Usable(e), !.emp = e]
      BY <2>1 DEF OffboardStart, TypeOK
    <3>2. job'[w].step = "sweeping" /\ job'[w].todo = Usable(e) /\ job'[w].emp = e
      BY <3>1 DEF IdleJob
    <3>3. emp'[e] = "offboarding" /\ UNCHANGED <<rows, late>>
      BY <2>1 DEF OffboardStart, TypeOK, historyVars
    <3>4. \A s \in OwnedBy(e) : rows[s].status \in Statuses
      BY DEF OwnedBy, Registered, TypeOK, Rows
    <3>5. Swept(e, job[w].todo)'
      BY <3>2, <3>3, <3>4 DEF Swept, Usable, OwnedBy, Registered, Statuses
    <3> QED
      BY <3>2, <3>3, <3>5 DEF Leaving
  <2>2. CASE /\ Sweeping(w) /\ job'[w].emp = job[w].emp /\ job'[w].todo = job[w].todo
             /\ job'[w].step = "publishing" => job[w].step = "publishing" \/ job[w].todo = {}
    <3>1. job[w].emp \in Employees
      BY <2>2 DEF JobInv, JobOK, Sweeping
    <3>2. ASSUME emp'[job[w].emp] # "deleted"
          PROVE  Leaving(job[w].emp)' /\ Swept(job[w].emp, job[w].todo)'
      <4> DEFINE e == job[w].emp
                 T == job[w].todo
      <4>1. emp[e] # "deleted"
        BY <3>1, <3>2, EmpChange
      <4>2. Leaving(e) /\ Swept(e, T)
        BY <2>2, <4>1 DEF SweepInv
      <4>3. e \in Employees /\ e' = e /\ T' = T /\ emp'[e] # "deleted" /\ emp'[e] # "active"
        BY <2>2, <3>1, <3>2, <4>2, EmpChange DEF Leaving
      <4>4. \A U : U = T => \A s \in OwnedBy(e)' : rows'[s].status # "revoked" =>
                                s \in U \union late'
        BY <4>2, <4>3, SweptStays DEF Swept
      <4> QED
        BY <4>3, <4>4 DEF Leaving, Swept
    <3> QED
      BY <2>2, <3>2 DEF SweepInv
  <2>3. ASSUME NEW s \in Serials, OffboardRevoke(w, s)
        PROVE  /\ job'[w].step = "sweeping"
               /\ emp'[job'[w].emp] # "deleted" =>
                    Leaving(job[w].emp)' /\ Swept(job[w].emp, job[w].todo)'
    <3>1. job[w] \in Jobs /\ job[w].step = "sweeping"
      BY <2>3 DEF OffboardRevoke, TypeOK
    <3>2. job'[w] = [job[w] EXCEPT !.todo = job[w].todo \ {s}]
      BY <2>3 DEF OffboardRevoke, TypeOK
    <3>3. /\ job'[w].step = "sweeping" /\ job'[w].emp = job[w].emp
          /\ job'[w].todo = job[w].todo \ {s}
      BY <3>1, <3>2 DEF Jobs
    <3>4. rows[s] \in Rows /\ rows' = [rows EXCEPT ![s].status = "revoked"]
      BY <2>3 DEF OffboardRevoke, Registered, TypeOK
    <3>5. /\ rows'[s].status = "revoked" /\ rows'[s].owner = rows[s].owner /\ rows[s] # NoRow
          /\ \A t \in Serials : t # s => rows'[t] = rows[t]
      BY <3>4, MarkAssumption DEF TypeOK, Rows
    <3>6. UNCHANGED <<emp, late>>
      BY <2>3 DEF OffboardRevoke, historyVars
    <3>7. ASSUME emp'[job'[w].emp] # "deleted"
          PROVE  Leaving(job[w].emp) /\ Swept(job[w].emp, job[w].todo)
      BY <3>1, <3>3, <3>6, <3>7 DEF SweepInv, Sweeping
    <3> QED
      BY <3>3, <3>5, <3>6, <3>7 DEF Leaving, Swept, OwnedBy, Registered
  <2> QED
    BY <1>2, <2>1, <2>2, <2>3, SweepChange DEF SweepsOn
<1> QED
  BY <1>1, <1>2 DEF SweepInv, Sweeping

\* Once an employee is offboarded, each of their certificates is revoked, save
\* those that came or came back after it began.
THEOREM OffboardingSweeps == Spec => []SweptOnOffboarding
<1>1. Init => SweepInv
  <2> SUFFICES ASSUME Init PROVE SweepInv
    OBVIOUS
  <2>1. \A w \in Workers : job[w].step = "idle"
    BY IdleIsJob DEF Init
  <2> QED
    BY <2>1 DEF Init, SweepInv, Sweeping
<1>2. SweepInv => SweptOnOffboarding
  BY DEF SweepInv, Swept, SweptOnOffboarding
<1> QED
  BY <1>1, <1>2, InitJobs, JobInvariance, SweepInvariance, PTL DEF Spec
=============================================================================

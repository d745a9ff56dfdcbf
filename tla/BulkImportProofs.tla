-------------------------- MODULE BulkImportProofs --------------------------
(***************************************************************************)
(* Proofs about BulkImport, for every value of its constants: a row is     *)
(* registered once, a name that is in use is not issued again, and a       *)
(* batch's result is true.                                                 *)
(***************************************************************************)
EXTENDS BulkImport, NaturalsInduction, WellFoundedInduction, TLAPS

(***************************************************************************)
(* The inductive invariant.                                                *)
(***************************************************************************)
Batches == Gear \union Renewals

\* A request by what it does: goes through the rows of a file of devices,
\* is at one of them, holds the PKI lock, works for a batch, is for an
\* upload or a selection.
GearOps   == {"wait", "load", "register", "check", "sign", "report"}
RowOps    == {"register", "check", "sign", "report"}
LockedOps == {"load", "register", "check", "sign", "report", "form check", "form sign"}
BatchOps  == GearOps \union {"renew", "store"}
IdOps     == BatchOps \union {"people"}

\* What was issued for a batch.
Issued(b) == {c \in certs : c.batch = b /\ ~c.imported}

\* A result tells the truth of the certificates issued, those of the rows
\* that are not told of yet aside.
TrueIn(issued, r, untold) ==
  /\ r.ok \subseteq {c.row : c \in issued}
  /\ r.zip \subseteq {c \in issued : c.row \in r.ok}
  /\ \A c \in issued : c.row \notin r.bad \union untold =>
       c.row \in r.ok /\ \E d \in r.zip : Entry(d) = Entry(c) /\ c.row <= d.row

Untold(j) == IF j.op = "report" THEN {First(j.todo)} ELSE {}

\* What was issued for a file was so for rows before those that are left.
Ahead(issued, j) ==
  \A c \in issued : \A k \in j.todo : c.row < k \/ (j.op = "report" /\ c = RowCert(j))

\* A row that is still to be done has no device yet, and the one being done
\* has at most its own.
RowsLeft(j) ==
  \A i \in j.todo :
    /\ i \in DOMAIN Rows[j.id] /\ people[Rows[j.id][i][1]] # "absent"
    /\ devices[j.id][i] = 0 \/ (devices[j.id][i] = 1 /\ j.op \in {"check", "sign", "report"} /\ i = First(j.todo))

\* Whoever is about to sign has found the name free; since then, only files
\* may have been imported.
OnlyImported(set, cn) == \A c \in set : c.cn = cn => c.imported

JobOK(w, j) ==
  /\ j.op \in LockedOps => lock = w
  /\ j.op = "people" => j.todo \subseteq DOMAIN Rows[j.id]
  /\ j.op \in GearOps => RowsLeft(j) /\ Ahead(Issued(j.id), j)
  /\ j.op \in RowOps => j.todo # {}
  /\ j.op = "report" => RowCert(j) \in certs
  /\ j.op = "renew" => \A c \in Issued(j.id) : c.row < j.row
  /\ j.op = "sign" => OnlyImported(active, Rows[j.id][First(j.todo)])
  /\ j.op = "form sign" => OnlyImported(active, j.cn)
  /\ j.op \in BatchOps => batch[j.id] = Idle /\ TrueIn(Issued(j.id), j.res, Untold(j))
  /\ j.op \in IdOps /\ j.id \in Uploads => preview[j.id] = "gone"

JobsOK == \A w \in Workers : JobOK(w, job[w])

\* An upload and a selection are worked on by one request.
OneJob ==
  \A v, w \in Workers :
    job[v].op \in IdOps /\ job[w].op \in IdOps /\ job[v].id = job[w].id => v = w

\* What has not been confirmed has done nothing.
NotBegun ==
  \A u \in Gear : preview[u] # "gone" =>
    /\ \A i \in DOMAIN Rows[u] : devices[u][i] = 0
    /\ Issued(u) = {} /\ batch[u] = Idle

Tables ==
  /\ devices = [u \in Gear |-> devices[u]] /\ batch = [b \in Batches |-> batch[b]]
  /\ \A c \in orphans : c.imported

BulkInv == TypeOK /\ Tables /\ JobsOK /\ OneJob /\ NotBegun /\ RowsOnce /\ ResultIsTrue

(***************************************************************************)
(* Facts about the definitions.                                            *)
(***************************************************************************)
PeopleJobs == [op : {"people"}, id : Staff, todo : SUBSET Index]
GearJobs   == [op : GearOps, id : Gear, todo : SUBSET Index, res : Results,
               seen : [emp : Emps, status : Statuses \ {"absent"}] \union {Idle}]
RenewJobs  == [op : {"renew"}, id : Renewals, todo : SUBSET Certs, res : Results, row : Nat]
StoreJobs  == [op : {"store"}, id : Batches, res : Results]
FormJobs   == [op : {"form check", "form sign"}, cn : Names]

LEMMA JobSets == Jobs = ({Idle} \union PeopleJobs \union GearJobs \union RenewJobs \union StoreJobs \union FormJobs)
BY DEF Jobs, PeopleJobs, GearJobs, RenewJobs, StoreJobs, FormJobs, GearOps, Batches

\* The shape of a request by its operation.
LEMMA JobShapes ==
  ASSUME NEW j \in Jobs
  PROVE  /\ j.op = "none" <=> j = Idle
         /\ j.op = "people" => j \in PeopleJobs
         /\ j.op \in GearOps => j \in GearJobs
         /\ j.op = "renew" => j \in RenewJobs
         /\ j.op = "store" => j \in StoreJobs
         /\ j.op \in {"form check", "form sign"} => j \in FormJobs
         /\ j.op \in {"none"} \union IdOps \union {"form check", "form sign"}
<1> USE DEF GearOps, IdOps, BatchOps
<1>1. CASE j = Idle
  BY <1>1 DEF Idle
<1>2. CASE j \in PeopleJobs
  <2>1. j.op = "people" /\ Idle.op = "none"
    BY <1>2 DEF PeopleJobs, Idle
  <2> QED
    BY <1>2, <2>1
<1>3. CASE j \in GearJobs
  <2>1. j.op \in GearOps /\ Idle.op = "none"
    BY <1>3 DEF GearJobs, Idle
  <2> QED
    BY <1>3, <2>1
<1>4. CASE j \in RenewJobs
  <2>1. j.op = "renew" /\ Idle.op = "none"
    BY <1>4 DEF RenewJobs, Idle
  <2> QED
    BY <1>4, <2>1
<1>5. CASE j \in StoreJobs
  <2>1. j.op = "store" /\ Idle.op = "none"
    BY <1>5 DEF StoreJobs, Idle
  <2> QED
    BY <1>5, <2>1
<1>6. CASE j \in FormJobs
  <2>1. j.op \in {"form check", "form sign"} /\ Idle.op = "none"
    BY <1>6 DEF FormJobs, Idle
  <2> QED
    BY <1>6, <2>1
<1> QED
  BY <1>1, <1>2, <1>3, <1>4, <1>5, <1>6, JobSets

LEMMA SomeSet ==
  ASSUME NEW j \in Jobs, j.op \in IdOps
  PROVE  /\ j.op \in BatchOps => j.id \in Batches /\ j.res \in Results
         /\ j.op \in GearOps => j.id \in Gear
         /\ j.op = "people" => j.id \in Staff
         /\ j.op = "renew" => j.id \in Renewals
BY JobShapes DEF PeopleJobs, GearJobs, RenewJobs, StoreJobs, IdOps, BatchOps, Batches

LEMMA Sets ==
  ASSUME TypeOK, NEW w \in Workers, NEW j \in Jobs, Set(w, j)
  PROVE  /\ job' \in [Workers -> Jobs]
         /\ job'[w] = j
         /\ \A v \in Workers : v # w => job'[v] = job[v]
BY DEF TypeOK, Set

\* A file's rows are numbered from 1.
LEMMA RowNumbers ==
  ASSUME NEW u \in Uploads
  PROVE  /\ DOMAIN Rows[u] \subseteq Index /\ DOMAIN Rows[u] \subseteq Nat
         /\ u \in Gear => \A i \in DOMAIN Rows[u] : Rows[u][i] \in Names /\ Rows[u][i][1] \in Emps
         /\ u \in Staff => \A i \in DOMAIN Rows[u] : Rows[u][i] \in Emps
<1>1. DOMAIN Rows[u] \subseteq Index
  BY DEF Index
<1>2. CASE u \in Gear
  <2>1. Rows[u] \in Seq(Names)
    BY <1>2, RowsAssumption
  <2>2. DOMAIN Rows[u] = 1..Len(Rows[u]) /\ Len(Rows[u]) \in Nat /\ \A i \in DOMAIN Rows[u] : Rows[u][i] \in Names
    BY <2>1
  <2>3. \A x \in Names : x[1] \in Emps
    BY DEF Names
  <2> QED
    BY <1>1, <1>2, <2>2, <2>3, RowsAssumption
<1>3. CASE u \in Staff
  <2>1. Rows[u] \in Seq(Emps)
    BY <1>3, RowsAssumption
  <2> QED
    BY <1>1, <1>3, <2>1, RowsAssumption
<1> QED
  BY <1>2, <1>3 DEF Uploads

\* The next row to do is one of those left, the one with the least number.
LEMMA FirstIsIn ==
  ASSUME NEW S \in SUBSET Nat, S # {}
  PROVE  First(S) \in S /\ \A k \in S : First(S) <= k
<1>1. PICK i \in S : \A k \in S : ~ (<<k, i>> \in OpToRel(<, Nat))
  BY WFMin, NatLessThanWellFounded
<1>2. \A k \in S : k < i => <<k, i>> \in OpToRel(<, Nat)
  BY DEF OpToRel
<1>3. \A k \in S : i <= k
  <2>1. \A k \in S : k \in Nat /\ i \in Nat /\ ~ (k < i)
    BY <1>1, <1>2
  <2> QED
    BY <2>1
<1> QED
  BY <1>3 DEF First

LEMMA Certificates ==
  ASSUME NEW cn \in Names, NEW b \in Batches \union {"form"}, NEW i \in Nat
  PROVE  LET c == Certificate(cn, b, i)
         IN  /\ c \in Certs /\ c.cn = cn /\ c.batch = b /\ c.row = i /\ ~c.imported
             /\ File(c) \in Certs /\ File(c).imported
BY DEF Certificate, File, Certs, Batches

\* The parts of what a row does to the result.
LEMMA Parts ==
  ASSUME NEW r \in Results, NEW i \in Nat
  PROVE  /\ Done(r, i) \in Results /\ Done(r, i).ok = r.ok \union {i}
         /\ Done(r, i).bad = r.bad /\ Done(r, i).zip = r.zip
         /\ [r EXCEPT !.bad = @ \union {i}] \in Results /\ [r EXCEPT !.bad = @ \union {i}].ok = r.ok
         /\ [r EXCEPT !.bad = @ \union {i}].bad = r.bad \union {i} /\ [r EXCEPT !.bad = @ \union {i}].zip = r.zip
BY DEF Results, Done

LEMMA PackedParts ==
  ASSUME NEW r \in Results, NEW c \in Certs
  PROVE  /\ Packed(r, c) \in Results /\ Packed(r, c).ok = r.ok \union {c.row}
         /\ Packed(r, c).bad = r.bad /\ Packed(r, c).zip = Entered(r.zip, c)
<1>1. c.row \in Nat
  BY DEF Certs
<1>2. PICK d : d = Done(r, c.row)
  OBVIOUS
<1>3. d \in Results /\ d.ok = r.ok \union {c.row} /\ d.bad = r.bad /\ d.zip = r.zip
  BY <1>1, <1>2, Parts
<1>4. Entered(r.zip, c) \subseteq Certs
  BY DEF Results, Entered
<1>5. Packed(r, c) = [d EXCEPT !.zip = Entered(r.zip, c)]
  BY <1>2, <1>3 DEF Packed
<1> QED
  BY <1>3, <1>4, <1>5 DEF Results

\* A row reported as failed needs no more to be true.
LEMMA TrueFailed ==
  ASSUME NEW I, NEW r \in Results, NEW i \in Nat, NEW untold \in SUBSET {i}, TrueIn(I, r, untold)
  PROVE  TrueIn(I, [r EXCEPT !.bad = @ \union {i}], {})
<1>1. PICK q : q = [r EXCEPT !.bad = @ \union {i}]
  OBVIOUS
<1>2. q.ok = r.ok /\ q.bad = r.bad \union {i} /\ q.zip = r.zip
  BY <1>1, Parts
<1>3. TrueIn(I, q, {})
  BY <1>2 DEF TrueIn
<1> QED
  BY <1>1, <1>3

\* One reported as done has its certificate.
LEMMA TrueDone ==
  ASSUME NEW I, NEW r \in Results, NEW c \in I, c \in Certs, NEW untold, TrueIn(I, r, untold)
  PROVE  TrueIn(I, Done(r, c.row), untold)
<1>1. c.row \in Nat
  BY DEF Certs
<1>2. PICK q : q = Done(r, c.row)
  OBVIOUS
<1>3. q.ok = r.ok \union {c.row} /\ q.bad = r.bad /\ q.zip = r.zip
  BY <1>1, <1>2, Parts
<1>4. TrueIn(I, q, untold)
  BY <1>3 DEF TrueIn
<1> QED
  BY <1>2, <1>4

\* A key that is put into the ZIP takes the place of those of rows before.
LEMMA TruePacked ==
  ASSUME NEW I \in SUBSET Certs, NEW r \in Results, NEW c \in I, TrueIn(I, r, {c.row}),
         \A e \in I : e.row < c.row \/ e = c
  PROVE  TrueIn(I, Packed(r, c), {})
<1>1. PICK q : q = Packed(r, c)
  OBVIOUS
<1>2. q.ok = r.ok \union {c.row} /\ q.bad = r.bad /\ q.zip = {d \in r.zip : Entry(d) # Entry(c)} \union {c}
  BY <1>1, PackedParts DEF Entered
<1>3. \A e \in I : e.row \in Nat
  BY DEF Certs
<1>4. q.ok \subseteq {e.row : e \in I} /\ q.zip \subseteq {e \in I : e.row \in q.ok}
  BY <1>2 DEF TrueIn
<1>5. ASSUME NEW e \in I, e.row \notin q.bad
      PROVE  e.row \in q.ok /\ \E d \in q.zip : Entry(d) = Entry(e) /\ e.row <= d.row
  <2>1. CASE e = c
    BY <1>2, <1>3, <2>1
  <2>2. CASE e # c
    <3>1. e.row < c.row /\ e.row \notin {c.row}
      BY <1>3, <2>2
    <3>2. PICK d \in r.zip : e.row \in r.ok /\ Entry(d) = Entry(e) /\ e.row <= d.row
      BY <1>2, <1>5, <3>1 DEF TrueIn
    <3> QED
      BY <1>2, <1>3, <3>1, <3>2
  <2> QED
    BY <2>1, <2>2
<1> QED
  BY <1>1, <1>4, <1>5 DEF TrueIn

\* What has just been issued is not told of yet.
LEMMA TrueIssued ==
  ASSUME NEW I, NEW r, NEW c, TrueIn(I, r, {})
  PROVE  TrueIn(I \union {c}, r, {c.row})
BY DEF TrueIn

\* The property that the runs check, of a batch.
LEMMA ResultTruth ==
  ResultIsTrue <=> \A b \in Batches : batch[b] # Idle => TrueIn(Issued(b), batch[b], {})
BY DEF ResultIsTrue, TrueIn, Issued, Batches

THEOREM InitBulk == Init => BulkInv
<1> SUFFICES ASSUME Init
             PROVE  BulkInv
  OBVIOUS
<1>1. Idle \in Jobs /\ Idle.op = "none" /\ \A w \in Workers : job[w] = Idle
  BY DEF Init, Jobs, Idle
<1>2. TypeOK /\ Tables
  BY <1>1 DEF Init, TypeOK, Tables, Batches, Statuses
<1>3. JobsOK /\ OneJob
  BY <1>1 DEF JobsOK, JobOK, OneJob, LockedOps, GearOps, RowOps, BatchOps, IdOps
<1>4. NotBegun
  BY DEF Init, NotBegun, Issued, Batches
<1>5. RowsOnce
  BY DEF Init, RowsOnce
<1>6. ResultIsTrue
  BY DEF Init, ResultIsTrue
<1> QED
  BY <1>2, <1>3, <1>4, <1>5, <1>6 DEF BulkInv

(***************************************************************************)
(* What a step of one request (who = {w}) or of nobody (who = {}) leaves   *)
(* to the other requests.                                                  *)
(***************************************************************************)
Mine(w, b) == job[w].op \in IdOps /\ job[w].id = b

\* What was issued for a batch, in the next state.
IssuedNext(b) == {c \in certs' : c.batch = b /\ ~c.imported}

Steady(b) == IssuedNext(b) = Issued(b)

\* The same as JobOK, in the next state, for a request whose record is known.
JobOKNext(w, j) ==
  /\ j.op \in LockedOps => lock' = w
  /\ j.op = "people" => j.todo \subseteq DOMAIN Rows[j.id]
  /\ j.op \in GearOps =>
       /\ \A i \in j.todo :
            /\ i \in DOMAIN Rows[j.id] /\ people'[Rows[j.id][i][1]] # "absent"
            /\ devices'[j.id][i] = 0
               \/ (devices'[j.id][i] = 1 /\ j.op \in {"check", "sign", "report"} /\ i = First(j.todo))
       /\ Ahead(IssuedNext(j.id), j)
  /\ j.op \in RowOps => j.todo # {}
  /\ j.op = "report" => RowCert(j) \in certs'
  /\ j.op = "renew" => \A c \in IssuedNext(j.id) : c.row < j.row
  /\ j.op = "sign" => OnlyImported(active', Rows[j.id][First(j.todo)])
  /\ j.op = "form sign" => OnlyImported(active', j.cn)
  /\ j.op \in BatchOps => batch'[j.id] = Idle /\ TrueIn(IssuedNext(j.id), j.res, Untold(j))
  /\ j.op \in IdOps /\ j.id \in Uploads => preview'[j.id] = "gone"

LEMMA JobOKNexts ==
  ASSUME NEW w \in Workers, NEW j, job'[w] = j, JobOKNext(w, j)
  PROVE  JobOK(w, job[w])'
BY Zenon DEF JobOK, JobOKNext, RowsLeft, Issued, IssuedNext, Ahead, OnlyImported, TrueIn, Untold, RowCert

Stored(w, b) == job[w].op = "store" /\ job[w].id = b /\ batch'[b] = job[w].res /\ Steady(b)

Calm(who) ==
  /\ \A e \in Emps : people[e] # "absent" => people'[e] # "absent"
  /\ \A v \in Workers \ who : lock = v => lock' = v
  /\ \A u \in Gear : devices'[u] = devices[u] \/ \E w \in who : Mine(w, u)
  /\ \A u \in Gear : \A i \in DOMAIN Rows[u] : devices'[u][i] = devices[u][i] \/ devices'[u][i] <= 1
  /\ \A b \in Batches : batch'[b] \in {batch[b], Idle} \/ \E w \in who : Stored(w, b)
  /\ certs \subseteq certs'
  /\ (\A c \in active' \ active : c.imported) \/ lock \in {Free} \union who
  /\ \A b \in Batches : Steady(b) \/ \E w \in who : Mine(w, b)
  /\ \A u \in Uploads : preview[u] = "gone" => preview'[u] = "gone"

LEMMA OthersOK ==
  ASSUME BulkInv, NEW who \in SUBSET Workers, Calm(who),
         NEW v \in Workers, v \notin who, NEW j, j = job[v]
  PROVE  JobOKNext(v, j)
<1>1. j \in Jobs /\ JobOK(v, j)
  BY DEF BulkInv, TypeOK, JobsOK
<1>2. \A w \in who : \A b : Mine(w, b) /\ j.op \in IdOps => b # j.id
  BY DEF BulkInv, OneJob, Mine
<1>3. j.op \in LockedOps => lock = v /\ lock' = v
  BY <1>1 DEF JobOK, Calm
<1>4. j.op \in {"sign", "form sign"} => \A c \in active' \ active : c.imported
  <2>1. j.op \in {"sign", "form sign"} => j.op \in LockedOps
    BY DEF LockedOps
  <2> QED
    BY <1>3, <2>1, RowsAssumption DEF Calm
<1>5. ASSUME j.op \in GearOps
      PROVE  \A i \in j.todo :
               /\ i \in DOMAIN Rows[j.id] /\ people'[Rows[j.id][i][1]] # "absent"
               /\ devices'[j.id][i] = 0
                  \/ (devices'[j.id][i] = 1 /\ j.op \in {"check", "sign", "report"} /\ i = First(j.todo))
  <2>1. RowsLeft(j)
    BY <1>1, <1>5 DEF JobOK
  <2>2. j.op \in IdOps /\ j.id \in Gear /\ j.id \in Uploads
    BY <1>1, <1>5, SomeSet DEF IdOps, BatchOps, Uploads
  <2>3. devices'[j.id] = devices[j.id]
    BY <1>2, <2>2 DEF Calm
  <2>4. \A i \in DOMAIN Rows[j.id] : Rows[j.id][i][1] \in Emps
    BY <2>2, RowNumbers
  <2> QED
    BY <2>1, <2>3, <2>4 DEF RowsLeft, Calm
<1>6. j.op \in BatchOps =>
        batch'[j.id] = Idle /\ TrueIn(Issued(j.id), j.res, Untold(j)) /\ IssuedNext(j.id) = Issued(j.id)
  <2> SUFFICES ASSUME j.op \in BatchOps
               PROVE  batch'[j.id] = Idle /\ TrueIn(Issued(j.id), j.res, Untold(j)) /\ Steady(j.id)
    BY DEF Steady
  <2>1. j.op \in IdOps /\ j.id \in Batches
    BY <1>1, SomeSet DEF IdOps
  <2>2. \A w \in who : ~Mine(w, j.id) /\ ~Stored(w, j.id)
    BY <1>2, <2>1 DEF Mine, Stored, IdOps, BatchOps
  <2> QED
    BY <1>1, <2>1, <2>2 DEF JobOK, Calm
<1>7. j.op \in IdOps /\ j.id \in Uploads => preview'[j.id] = "gone"
  BY <1>1 DEF JobOK, Calm
<1>8. j.op = "people" => j.todo \subseteq DOMAIN Rows[j.id]
  BY <1>1 DEF JobOK
<1>9. j.op \in RowOps => j.todo # {}
  BY <1>1 DEF JobOK
<1>10. j.op = "sign" => OnlyImported(active', Rows[j.id][First(j.todo)])
  BY <1>1, <1>4 DEF JobOK, OnlyImported
<1>11. j.op = "form sign" => OnlyImported(active', j.cn)
  BY <1>1, <1>4 DEF JobOK, OnlyImported
<1>12. j.op = "report" => RowCert(j) \in certs'
  BY <1>1 DEF JobOK, Calm
<1>13. j.op = "renew" => \A c \in IssuedNext(j.id) : c.row < j.row
  BY <1>1, <1>6 DEF JobOK, BatchOps
<1>14. j.op \in GearOps => Ahead(IssuedNext(j.id), j)
  BY <1>1, <1>6 DEF JobOK, BatchOps
<1>15. j.op \in BatchOps => batch'[j.id] = Idle /\ TrueIn(IssuedNext(j.id), j.res, Untold(j))
  BY <1>6
<1> QED
  BY <1>3, <1>5, <1>7, <1>8, <1>9, <1>10, <1>11, <1>12, <1>13, <1>14, <1>15 DEF JobOKNext

\* What a step has to show beside that it is calm.
LEMMA StepInv ==
  ASSUME BulkInv, NEW who \in SUBSET Workers, Calm(who), TypeOK', Tables',
         \A v \in Workers \ who : job'[v] = job[v],
         \A w \in who : JobOKNext(w, job'[w]),
         \A w \in who, v \in Workers : v # w =>
           v \notin who /\ (job'[w].op \in IdOps => ~Mine(v, job'[w].id))
  PROVE  BulkInv'
<1>1. JobsOK'
  <2> SUFFICES ASSUME NEW v \in Workers
               PROVE  JobOK(v, job[v])'
    BY DEF JobsOK
  <2>1. PICK j : j = job'[v]
    OBVIOUS
  <2>2. JobOKNext(v, j)
    <3>1. CASE v \in who
      BY <2>1, <3>1
    <3>2. CASE v \notin who
      BY <2>1, <3>2, OthersOK
    <3> QED
      BY <3>1, <3>2
  <2> QED
    BY <2>1, <2>2, JobOKNexts
<1>2. OneJob'
  <2> SUFFICES ASSUME NEW v \in Workers, NEW w \in Workers, job'[v].op \in IdOps, job'[w].op \in IdOps,
                      job'[v].id = job'[w].id, v # w
               PROVE  FALSE
    BY DEF OneJob
  <2>1. CASE w \in who
    BY <2>1 DEF Mine
  <2>2. CASE v \in who
    BY <2>2 DEF Mine
  <2>3. CASE v \notin who /\ w \notin who
    BY <2>3 DEF BulkInv, OneJob
  <2> QED
    BY <2>1, <2>2, <2>3
<1>3. NotBegun'
  <2> SUFFICES ASSUME NEW u \in Gear, preview'[u] # "gone"
               PROVE  /\ \A i \in DOMAIN Rows[u] : devices'[u][i] = 0
                      /\ IssuedNext(u) = {} /\ batch'[u] = Idle
    BY DEF NotBegun, Issued, IssuedNext
  <2>1. u \in Uploads /\ u \in Batches
    BY DEF Uploads, Batches
  <2>2. preview[u] # "gone"
    BY <2>1 DEF Calm
  <2>3. \A w \in Workers : ~Mine(w, u)
    BY <2>1, <2>2 DEF BulkInv, JobsOK, JobOK, Mine
  <2>4. /\ \A i \in DOMAIN Rows[u] : devices[u][i] = 0
        /\ Issued(u) = {} /\ batch[u] = Idle
    BY <2>2 DEF BulkInv, NotBegun
  <2>5. \A w \in who : ~Mine(w, u) /\ ~Stored(w, u)
    BY <2>3 DEF Mine, Stored, IdOps, BatchOps
  <2>6. devices'[u] = devices[u] /\ batch'[u] = Idle /\ Steady(u)
    BY <2>1, <2>4, <2>5 DEF Calm
  <2> QED
    BY <2>4, <2>6 DEF Steady
<1>4. RowsOnce'
  <2> SUFFICES ASSUME NEW u \in Gear, NEW i \in DOMAIN Rows[u]
               PROVE  devices'[u][i] <= 1
    BY DEF RowsOnce
  <2> QED
    BY DEF BulkInv, RowsOnce, Calm
<1>5. ResultIsTrue'
  <2> SUFFICES ASSUME NEW b \in Batches, batch'[b] # Idle
               PROVE  TrueIn(IssuedNext(b), batch'[b], {})
    <3>1. \A b \in Batches : batch'[b] # Idle => TrueIn(IssuedNext(b), batch'[b], {})
      OBVIOUS
    <3> QED
      BY <3>1 DEF ResultIsTrue, TrueIn, IssuedNext, Batches
  <2>1. CASE batch'[b] = batch[b]
    <3>1. TrueIn(Issued(b), batch[b], {})
      BY <2>1, ResultTruth DEF BulkInv
    <3>2. ASSUME NEW w \in who, Mine(w, b)
          PROVE  FALSE
      <4>1. job[w] \in Jobs /\ JobOK(w, job[w])
        BY DEF BulkInv, TypeOK, JobsOK
      <4>2. job[w].op \in BatchOps
        BY <3>2, <4>1, SomeSet, RowsAssumption DEF Mine, IdOps, Batches, Uploads
      <4> QED
        BY <2>1, <3>2, <4>1, <4>2 DEF JobOK, Mine
    <3>3. Steady(b)
      BY <3>2 DEF Calm
    <3> QED
      BY <2>1, <3>1, <3>3 DEF Steady
  <2>2. CASE \E w \in who : Stored(w, b)
    <3>1. PICK w \in who : Stored(w, b)
      BY <2>2
    <3>2. TrueIn(Issued(b), job[w].res, {})
      BY <3>1 DEF BulkInv, JobsOK, JobOK, Stored, BatchOps, Untold
    <3>3. batch'[b] = job[w].res /\ Steady(b)
      BY <3>1 DEF Stored
    <3> QED
      BY <3>2, <3>3 DEF Steady
  <2> QED
    BY <2>1, <2>2 DEF Calm
<1> QED
  BY <1>1, <1>2, <1>3, <1>4, <1>5 DEF BulkInv

(***************************************************************************)
(* Steps of nobody.                                                        *)
(***************************************************************************)
LEMMA Still ==
  ASSUME certs' = certs
  PROVE  \A b : Steady(b)
BY DEF Steady, Issued, IssuedNext

LEMMA WorldStep ==
  ASSUME BulkInv, Calm({}), TypeOK', Tables', UNCHANGED job
  PROVE  BulkInv'
<1>1. {} \in SUBSET Workers
  OBVIOUS
<1> QED
  BY <1>1, StepInv

LEMMA WorldInv ==
  ASSUME BulkInv, UNCHANGED <<devices, cert_vars, lock, job>>,
         people' \in [Emps -> Statuses], \A e \in Emps : people[e] # "absent" => people'[e] # "absent",
         linked' \in BOOLEAN,
         preview' \in [Uploads -> {"new", "pending", "gone"}],
         \A u \in Uploads : preview[u] = "gone" => preview'[u] = "gone",
         Tables', \A b \in Batches : batch'[b] \in {batch[b], Idle}
  PROVE  BulkInv'
<1>1. UNCHANGED <<devices, certs, active, orphans, lock, job>>
  BY DEF cert_vars
<1>2. TypeOK'
  BY <1>1, Zenon DEF BulkInv, TypeOK, Batches
<1>3. Calm({})
  BY <1>1, Still DEF Calm
<1> QED
  BY <1>1, <1>2, <1>3, WorldStep

LEMMA QuietInv ==
  ASSUME BulkInv,
         \/ \E u \in Uploads : Preview(u)
         \/ \E e \in Leavers : Offboard(e) \/ Complete(e)
         \/ Relink
         \/ \E b \in Batches : TakeBatch(b)
  PROVE  BulkInv'
<1>1. TypeOK /\ Tables /\ people \in [Emps -> Statuses] /\ linked \in BOOLEAN
      /\ preview \in [Uploads -> {"new", "pending", "gone"}]
  BY DEF BulkInv, TypeOK
<1>2. UNCHANGED <<devices, cert_vars, batch>> => Tables'
  BY <1>1 DEF Tables, cert_vars
<1>3. ASSUME NEW u \in Uploads, Preview(u)
      PROVE  BulkInv'
  <2>1. preview' \in [Uploads -> {"new", "pending", "gone"}]
        /\ \A x \in Uploads : preview[x] = "gone" => preview'[x] = "gone"
    BY <1>1, <1>3 DEF Preview
  <2> QED
    BY <1>1, <1>2, <1>3, <2>1, WorldInv DEF Preview, people_vars
<1>4. ASSUME NEW e \in Leavers, Offboard(e) \/ Complete(e)
      PROVE  BulkInv'
  <2>1. people' \in [Emps -> Statuses] /\ (\A x \in Emps : people[x] # "absent" => people'[x] # "absent")
    BY <1>1, <1>4 DEF Offboard, Complete, Statuses
  <2>2. UNCHANGED <<linked, devices, cert_vars, lock, preview, batch, job>>
    BY <1>4 DEF Offboard, Complete
  <2> QED
    BY <1>1, <1>2, <2>1, <2>2, WorldInv
<1>5. CASE Relink
  BY <1>1, <1>2, <1>5, WorldInv DEF Relink
<1>6. ASSUME NEW b \in Batches, TakeBatch(b)
      PROVE  BulkInv'
  <2>1. batch' = [x \in Batches |-> batch'[x]] /\ \A x \in Batches : batch'[x] \in {batch[x], Idle}
    BY <1>1, <1>6 DEF Tables, TakeBatch
  <2>2. Tables'
    BY <1>1, <1>6, <2>1 DEF Tables, TakeBatch, cert_vars
  <2> QED
    BY <1>1, <1>6, <2>1, <2>2, WorldInv DEF TakeBatch, people_vars
<1> QED
  BY <1>3, <1>4, <1>5, <1>6

\* A change of status takes the lock, so nobody is about to sign; an import
\* does not, but what it adds is imported.
LEMMA StatusInv ==
  ASSUME BulkInv,
         \/ \E c \in certs : Deactivate(c) \/ Reactivate(c)
         \/ Import
  PROVE  BulkInv'
<1>1. certs \subseteq Certs /\ active \subseteq certs /\ orphans \subseteq Certs /\ \A c \in orphans : c.imported
  BY DEF BulkInv, TypeOK, Tables
<1>2. /\ UNCHANGED <<people, linked, devices, lock, preview, batch, job>>
      /\ \/ lock = Free /\ certs' = certs /\ orphans' = orphans /\ active' \subseteq certs
         \/ certs' = certs \union orphans /\ active' = active \union orphans /\ orphans' = {}
  BY <1>1 DEF Deactivate, Reactivate, SetStatus, Import, people_vars
<1>3. certs' \subseteq Certs /\ active' \subseteq certs' /\ orphans' \subseteq Certs /\ certs \subseteq certs'
  BY <1>1, <1>2
<1>4. TypeOK'
  BY <1>2, <1>3, Zenon DEF BulkInv, TypeOK
<1>5. Tables'
  BY <1>1, <1>2 DEF BulkInv, Tables
<1>6. \A b \in Batches : Steady(b)
  BY <1>1, <1>2 DEF Steady, Issued, IssuedNext
<1>7. (\A c \in active' \ active : c.imported) \/ lock = Free
  BY <1>1, <1>2
<1>8. Calm({})
  BY <1>2, <1>3, <1>6, <1>7 DEF Calm
<1> QED
  BY <1>2, <1>4, <1>5, <1>8, WorldStep

\* Whatever is left without a row is imported one day.
Found == orphans' \subseteq Certs /\ \A c \in orphans' : c.imported

\* The certificates that a request may leave files of.
LEMMA RowCerts ==
  ASSUME BulkInv, NEW w \in Workers, job[w].op \in RowOps
  PROVE  LET c == RowCert(job[w])
         IN  /\ c \in Certs /\ c.cn = Rows[job[w].id][First(job[w].todo)] /\ c.cn \in Names
             /\ c.batch = job[w].id /\ c.row = First(job[w].todo) /\ ~c.imported
             /\ File(c) \in Certs /\ File(c).imported
<1> DEFINE o == job[w]
           i == First(o.todo)
<1>1. o \in Jobs /\ JobOK(w, o) /\ o.op \in GearOps
  BY DEF BulkInv, TypeOK, JobsOK, RowOps, GearOps
<1>2. o.id \in Gear /\ o.id \in Uploads /\ o.id \in Batches /\ RowsLeft(o) /\ o.todo # {}
  BY <1>1, SomeSet DEF JobOK, Uploads, Batches, IdOps, BatchOps
<1>3. o.todo \in SUBSET Nat
  BY <1>2, RowNumbers DEF RowsLeft
<1>4. i \in DOMAIN Rows[o.id] /\ i \in Nat
  BY <1>2, <1>3, FirstIsIn DEF RowsLeft
<1>5. Rows[o.id][i] \in Names
  BY <1>2, <1>4, RowNumbers
<1> QED
  BY <1>2, <1>4, <1>5, Certificates DEF RowCert

LEMMA FormCerts ==
  ASSUME BulkInv, NEW w \in Workers, job[w].op \in {"form check", "form sign"}
  PROVE  LET c == Certificate(job[w].cn, "form", 0)
         IN  /\ job[w].cn \in Names /\ c \in Certs /\ c.cn = job[w].cn /\ c.batch = "form" /\ ~c.imported
             /\ File(c) \in Certs /\ File(c).imported
<1>1. job[w] \in FormJobs
  BY JobShapes DEF BulkInv, TypeOK
<1>2. job[w].cn \in Names
  BY <1>1 DEF FormJobs
<1>3. PICK cn \in Names : cn = job[w].cn
  BY <1>2
<1>4. LET c == Certificate(cn, "form", 0)
      IN  /\ c \in Certs /\ c.cn = cn /\ c.batch = "form" /\ ~c.imported
          /\ File(c) \in Certs /\ File(c).imported
  BY DEF Certificate, File, Certs
<1> QED
  BY <1>3, <1>4

LEMMA RenewCerts ==
  ASSUME BulkInv, NEW w \in Workers, job[w].op = "renew", NEW c \in job[w].todo
  PROVE  LET n == Certificate(c.cn, job[w].id, job[w].row)
         IN  /\ n \in Certs /\ n.batch = job[w].id /\ n.row = job[w].row /\ ~n.imported
             /\ File(n) \in Certs /\ File(n).imported
<1>1. job[w] \in RenewJobs
  BY JobShapes DEF BulkInv, TypeOK
<1>2. job[w].id \in Batches /\ job[w].row \in Nat /\ c.cn \in Names
  BY <1>1 DEF RenewJobs, Batches, Certs
<1> QED
  BY <1>2, Certificates

\* A restart forgets requests, previews and batches alike, and may leave a
\* file.
LEMMA RestartInv ==
  ASSUME BulkInv, Restart
  PROVE  BulkInv'
<1>1. Idle \in Jobs /\ Idle.op = "none" /\ \A w \in Workers : job'[w] = Idle
  BY DEF Restart, Jobs, Idle
<1>2. /\ \A u \in Uploads : preview'[u] \in {"new", "gone"} /\ (preview'[u] = "new" => preview[u] = "new")
      /\ \A b \in Batches : batch'[b] = Idle
      /\ UNCHANGED <<people, linked, devices, certs, active>>
  BY DEF Restart, Batches, people_vars
<1>3. Found
  <2>1. ASSUME NEW w \in Workers, NEW c \in Unfinished(w)
        PROVE  c \in Certs /\ c.imported
    BY <2>1, RowCerts, FormCerts, RenewCerts DEF Unfinished, RowOps
  <2>2. \/ orphans' = orphans
        \/ \E w \in Workers : \E c \in Unfinished(w) : orphans' = orphans \union {c}
    BY DEF Restart
  <2> QED
    BY <2>1, <2>2 DEF Found, BulkInv, TypeOK, Tables
<1>4. TypeOK'
  <2>1. /\ job' \in [Workers -> Jobs] /\ lock' = Free
        /\ preview' \in [Uploads -> {"new", "pending", "gone"}]
    BY <1>1 DEF Restart
  <2>2. \A b \in Gear \union Renewals : batch'[b] = Idle
    BY <1>2 DEF Batches
  <2> QED
    BY <1>2, <1>3, <2>1, <2>2, Zenon DEF BulkInv, TypeOK, Found
<1>5. Tables'
  BY <1>3 DEF BulkInv, Tables, Restart, Batches, Found
<1>6. JobsOK' /\ OneJob'
  BY <1>1 DEF JobsOK, JobOK, OneJob, LockedOps, GearOps, RowOps, BatchOps, IdOps
<1>7. NotBegun'
  <2>1. \A u \in Gear : u \in Uploads /\ u \in Batches
    BY DEF Uploads, Batches
  <2> QED
    BY <1>2, <2>1 DEF BulkInv, NotBegun, Issued
<1>8. RowsOnce'
  BY <1>2 DEF BulkInv, RowsOnce
<1>9. ResultIsTrue'
  BY <1>2 DEF ResultIsTrue, Batches
<1> QED
  BY <1>4, <1>5, <1>6, <1>7, <1>8, <1>9 DEF BulkInv

(***************************************************************************)
(* Steps of one request.                                                   *)
(***************************************************************************)
LEMMA JobStep ==
  ASSUME BulkInv, NEW w \in Workers, NEW j \in Jobs, Set(w, j), Calm({w}), Tables',
         people' \in [Emps -> Statuses], linked' \in BOOLEAN,
         \A u \in Gear : devices'[u] \in [DOMAIN Rows[u] -> Nat],
         certs' \subseteq Certs, active' \subseteq certs', orphans' \subseteq Certs, lock' \in Workers \union {Free},
         preview' \in [Uploads -> {"new", "pending", "gone"}],
         \A b \in Batches : batch'[b] \in {Idle} \union Results,
         JobOKNext(w, j),
         j.op \in IdOps => Mine(w, j.id) \/ \A v \in Workers : ~Mine(v, j.id)
  PROVE  BulkInv'
<1>1. job' \in [Workers -> Jobs] /\ job'[w] = j /\ \A v \in Workers : v # w => job'[v] = job[v]
  BY Sets DEF BulkInv
<1>2. TypeOK'
  BY <1>1, Zenon DEF TypeOK, Batches
<1>3. \A v \in Workers : v # w => (j.op \in IdOps => ~Mine(v, j.id))
  BY DEF BulkInv, OneJob, Mine
<1> DEFINE who == {w}
<1>4. /\ who \in SUBSET Workers /\ Calm(who)
      /\ \A v \in Workers \ who : job'[v] = job[v]
      /\ \A v \in who : JobOKNext(v, job'[v])
      /\ \A x \in who, v \in Workers : v # x =>
           v \notin who /\ (job'[x].op \in IdOps => ~Mine(v, job'[x].id))
  BY <1>1, <1>3
<1> HIDE DEF who
<1> QED
  BY <1>2, <1>4, StepInv

\* The types of what a step leaves alone.
LEMMA Kept ==
  ASSUME BulkInv
  PROVE  /\ people \in [Emps -> Statuses] /\ linked \in BOOLEAN
         /\ \A u \in Gear : devices[u] \in [DOMAIN Rows[u] -> Nat]
         /\ certs \subseteq Certs /\ active \subseteq certs /\ orphans \subseteq Certs
         /\ lock \in Workers \union {Free}
         /\ preview \in [Uploads -> {"new", "pending", "gone"}]
         /\ \A b \in Batches : batch[b] \in {Idle} \union Results
         /\ devices = [u \in Gear |-> devices[u]] /\ batch = [b \in Batches |-> batch[b]]
         /\ orphans' = orphans => Found
BY DEF BulkInv, TypeOK, Tables, Batches, Found

LEMMA SameTables ==
  ASSUME BulkInv, Found
  PROVE  UNCHANGED <<devices, batch>> => Tables'
BY DEF BulkInv, Tables, Found

\* The lock may change hands between the request and nobody, and a file may
\* be left.
LEMMA QuietJob ==
  ASSUME BulkInv, NEW w \in Workers, NEW j \in Jobs, Set(w, j),
         lock' = lock \/ (lock \in {Free, w} /\ lock' \in {Free, w}),
         UNCHANGED <<people, linked, devices, certs, active, preview, batch>>, Found,
         JobOKNext(w, j),
         j.op \in IdOps => Mine(w, j.id) \/ \A v \in Workers : ~Mine(v, j.id)
  PROVE  BulkInv'
<1>1. Calm({w})
  <2>1. \A b : Steady(b)
    BY Still
  <2>2. \A v \in Workers \ {w} : lock = v => lock' = v
    BY RowsAssumption
  <2> QED
    BY <2>1, <2>2 DEF Calm
<1>2. Tables'
  BY SameTables
<1>3. /\ people' \in [Emps -> Statuses] /\ linked' \in BOOLEAN
      /\ \A u \in Gear : devices'[u] \in [DOMAIN Rows[u] -> Nat]
      /\ certs' \subseteq Certs /\ active' \subseteq certs' /\ orphans' \subseteq Certs
      /\ lock' \in Workers \union {Free}
      /\ preview' \in [Uploads -> {"new", "pending", "gone"}]
      /\ \A b \in Batches : batch'[b] \in {Idle} \union Results
  BY Kept DEF Found
<1> QED
  BY <1>1, <1>2, <1>3, JobStep

\* A request that ends, or has failed.
LEMMA IdleOK == Idle \in Jobs /\ \A w \in Workers : JobOKNext(w, Idle) /\ Idle.op \notin IdOps
BY DEF Jobs, Idle, JobOKNext, LockedOps, GearOps, RowOps, BatchOps, IdOps

LEMMA DoneInv ==
  ASSUME BulkInv, NEW w \in Workers, EmployeesDone(w) \/ LockTimesOut(w) \/ ReissueRaises(w)
  PROVE  BulkInv'
<1>1. /\ Set(w, Idle) /\ lock' = lock
      /\ UNCHANGED <<people, linked, devices, certs, active, preview, batch>>
  BY DEF EmployeesDone, LockTimesOut, ReissueRaises, people_vars, cert_vars
<1>2. Found
  <2>1. CASE EmployeesDone(w) \/ LockTimesOut(w)
    BY <2>1, Kept DEF EmployeesDone, LockTimesOut, cert_vars
  <2>2. CASE ReissueRaises(w)
    <3>1. \/ orphans' = orphans
          \/ \E c \in job[w].todo : orphans' = orphans \union {File(Certificate(c.cn, job[w].id, job[w].row))}
      BY <2>2 DEF ReissueRaises
    <3>2. \A c \in job[w].todo : LET f == File(Certificate(c.cn, job[w].id, job[w].row))
                                 IN  f \in Certs /\ f.imported
      BY <2>2, RenewCerts DEF ReissueRaises
    <3> QED
      BY <3>1, <3>2 DEF BulkInv, TypeOK, Tables, Found
  <2> QED
    BY <2>1, <2>2
<1> QED
  BY <1>1, <1>2, IdleOK, QuietJob

\* What is known of a request that works through a file of devices.
LEMMA GearKnown ==
  ASSUME BulkInv, NEW w \in Workers, job[w].op \in GearOps
  PROVE  LET o == job[w]
         IN  /\ o \in GearJobs /\ o.id \in Gear /\ o.id \in Uploads /\ o.id \in Batches
             /\ o.op # "wait" => lock = w
             /\ RowsLeft(o) /\ o.todo \in SUBSET Nat /\ Ahead(Issued(o.id), o)
             /\ o.op \in RowOps => First(o.todo) \in o.todo
             /\ o.todo # {} => First(o.todo) \in o.todo /\ \A k \in o.todo : First(o.todo) <= k
             /\ o.op = "report" => RowCert(o) \in Issued(o.id)
             /\ batch[o.id] = Idle /\ TrueIn(Issued(o.id), o.res, Untold(o)) /\ preview[o.id] = "gone"
             /\ Mine(w, o.id)
<1> DEFINE o == job[w]
<1>1. o \in Jobs /\ JobOK(w, o)
  BY DEF BulkInv, TypeOK, JobsOK
<1>2. o \in GearJobs /\ o.id \in Gear /\ o.op \in BatchOps /\ o.op \in IdOps
  BY <1>1, JobShapes DEF GearJobs, BatchOps, IdOps
<1>3. o.id \in Uploads /\ o.id \in Batches
  BY <1>2 DEF Uploads, Batches
<1>4. o.op # "wait" => lock = w
  BY <1>1 DEF JobOK, LockedOps, GearOps
<1>5. RowsLeft(o) /\ Ahead(Issued(o.id), o)
  BY <1>1 DEF JobOK
<1>6. o.todo \in SUBSET Nat
  BY <1>3, <1>5, RowNumbers DEF RowsLeft
<1>7. o.todo # {} => First(o.todo) \in o.todo /\ \A k \in o.todo : First(o.todo) <= k
  BY <1>6, FirstIsIn
<1>8. o.op \in RowOps => o.todo # {}
  BY <1>1 DEF JobOK
<1>9. batch[o.id] = Idle /\ TrueIn(Issued(o.id), o.res, Untold(o)) /\ preview[o.id] = "gone"
  BY <1>1, <1>2, <1>3 DEF JobOK
<1>10. o.op = "report" => RowCert(o) \in Issued(o.id)
  BY <1>1, RowCerts DEF JobOK, RowOps, Issued
<1> QED
  BY <1>2, <1>3, <1>4, <1>5, <1>6, <1>7, <1>8, <1>9, <1>10 DEF Mine

\* A step within a row, or to the next, that adds no certificate.
LEMMA GearStep ==
  ASSUME BulkInv, NEW w \in Workers, job[w].op \in GearOps, NEW j \in GearJobs, Set(w, j),
         j.id = job[w].id, TrueIn(Issued(j.id), j.res, {}),
         j.op \notin {"wait", "report"}, j.todo \subseteq job[w].todo, j.op \in RowOps => j.todo # {},
         \A c \in Issued(j.id) : \A k \in j.todo : c.row < k,
         \A i \in j.todo : \/ devices[j.id][i] = 0
                           \/ devices[j.id][i] = 1 /\ j.op \in {"check", "sign"} /\ i = First(j.todo),
         j.op = "sign" => Current(Rows[j.id][First(j.todo)]) = {},
         lock' = w /\ lock \in {Free, w}, Found,
         UNCHANGED <<people, linked, devices, certs, active, preview, batch>>
  PROVE  BulkInv'
<1> DEFINE o == job[w]
<1>1. o.id \in Gear /\ RowsLeft(o) /\ batch[o.id] = Idle /\ preview[o.id] = "gone" /\ Mine(w, o.id)
  BY GearKnown
<1>2. j \in Jobs /\ j.op \in GearOps /\ j.op \notin {"people", "form sign", "renew"}
  BY JobSets DEF GearJobs, GearOps
<1>3. Issued(j.id) = IssuedNext(j.id)
  BY DEF Issued, IssuedNext
<1>4. Untold(j) = {} /\ Ahead(IssuedNext(j.id), j)
  BY <1>3 DEF Untold, Ahead
<1>5. j.op = "sign" => OnlyImported(active', Rows[j.id][First(j.todo)])
  BY DEF OnlyImported, Current
<1>6. JobOKNext(w, j)
  BY <1>1, <1>2, <1>3, <1>4, <1>5 DEF JobOKNext, RowsLeft
<1> QED
  BY <1>1, <1>2, <1>6, QuietJob

LEMMA BeginBatchInv ==
  ASSUME BulkInv, NEW w \in Workers, BeginBatch(w)
  PROVE  BulkInv'
<1> DEFINE o == job[w]
           j == [o EXCEPT !.op = "load"]
<1>1. o.op = "wait" /\ o.op \in GearOps /\ Set(w, j) /\ lock = Free /\ lock' = w
      /\ UNCHANGED <<people, linked, devices, certs, active, orphans, preview, batch>>
  BY DEF BeginBatch, Acquire, GearOps, people_vars, cert_vars
<1>2. o \in GearJobs /\ RowsLeft(o) /\ Ahead(Issued(o.id), o) /\ TrueIn(Issued(o.id), o.res, Untold(o))
  BY <1>1, GearKnown
<1>3. j \in GearJobs /\ j.op = "load" /\ j.id = o.id /\ j.todo = o.todo /\ j.res = o.res
  BY <1>2 DEF GearJobs, GearOps
<1>4. (\A i \in o.todo : devices[o.id][i] = 0) /\ (\A c \in Issued(o.id) : \A k \in o.todo : c.row < k)
      /\ Untold(o) = {}
  BY <1>1, <1>2 DEF RowsLeft, Ahead, Untold
<1> HIDE DEF j
<1> QED
  BY <1>1, <1>2, <1>3, <1>4, GearStep, Kept DEF RowOps

LEMMA LoadRowInv ==
  ASSUME BulkInv, NEW w \in Workers, LoadRow(w)
  PROVE  BulkInv'
<1> DEFINE o == job[w]
           e == Rows[o.id][First(o.todo)][1]
           kept == o.seen # Idle /\ o.seen.emp = e
           seen == IF kept THEN o.seen ELSE [emp |-> e, status |-> people[e]]
           x == [o EXCEPT !.op = "register"]
           j == [x EXCEPT !.seen = seen]
<1>1. o.op = "load" /\ o.op \in GearOps /\ o.todo # {}
      /\ UNCHANGED <<people, linked, devices, certs, active, orphans, lock, preview, batch>>
  BY DEF LoadRow, GearOps, people_vars, cert_vars
<1>2. /\ o \in GearJobs /\ o.id \in Gear /\ o.id \in Uploads /\ lock = w /\ RowsLeft(o)
      /\ First(o.todo) \in o.todo
      /\ Ahead(Issued(o.id), o) /\ TrueIn(Issued(o.id), o.res, Untold(o))
  BY <1>1, GearKnown
<1>3. e \in Emps /\ people[e] \in Statuses \ {"absent"}
  <2>1. First(o.todo) \in DOMAIN Rows[o.id] /\ people[e] # "absent"
    BY <1>2 DEF RowsLeft
  <2>2. e \in Emps
    BY <1>2, <2>1, RowNumbers
  <2> QED
    BY <2>1, <2>2 DEF BulkInv, TypeOK
<1>4. seen \in [emp : Emps, status : Statuses \ {"absent"}] \union {Idle}
  <2>1. o.seen \in [emp : Emps, status : Statuses \ {"absent"}] \union {Idle}
    BY <1>2 DEF GearJobs
  <2>2. [emp |-> e, status |-> people[e]] \in [emp : Emps, status : Statuses \ {"absent"}]
    BY <1>3
  <2> HIDE DEF e, kept
  <2> QED
    BY <2>1, <2>2
<1>5. Set(w, j)
  BY Zenon DEF LoadRow
<1> HIDE DEF e, kept, seen
<1>6. x \in GearJobs /\ x.op = "register" /\ x.id = o.id /\ x.todo = o.todo /\ x.res = o.res
  BY <1>2 DEF GearJobs, GearOps
<1> HIDE DEF x
<1>7. j \in GearJobs /\ j.op = "register" /\ j.id = o.id /\ j.todo = o.todo /\ j.res = o.res
  BY <1>4, <1>6 DEF GearJobs
<1>8. (\A i \in o.todo : devices[o.id][i] = 0) /\ (\A c \in Issued(o.id) : \A k \in o.todo : c.row < k)
      /\ Untold(o) = {}
  BY <1>1, <1>2 DEF RowsLeft, Ahead, Untold
<1> HIDE DEF j
<1> QED
  BY <1>1, <1>2, <1>5, <1>7, <1>8, GearStep, Kept DEF RowOps

LEMMA CheckNameInv ==
  ASSUME BulkInv, NEW w \in Workers, CheckName(w)
  PROVE  BulkInv'
<1> DEFINE o == job[w]
           j == [o EXCEPT !.op = "sign"]
<1>1. o.op = "check" /\ o.op \in GearOps /\ Set(w, j) /\ Current(Rows[o.id][First(o.todo)]) = {}
      /\ UNCHANGED <<people, linked, devices, certs, active, orphans, lock, preview, batch>>
  BY DEF CheckName, GearOps, people_vars, cert_vars
<1>2. o \in GearJobs /\ RowsLeft(o) /\ lock = w /\ First(o.todo) \in o.todo
      /\ Ahead(Issued(o.id), o) /\ TrueIn(Issued(o.id), o.res, Untold(o))
  BY <1>1, GearKnown DEF RowOps
<1>3. j \in GearJobs /\ j.op = "sign" /\ j.id = o.id /\ j.todo = o.todo /\ j.res = o.res
  BY <1>2 DEF GearJobs, GearOps
<1>4. \A i \in o.todo : \/ devices[o.id][i] = 0
                        \/ devices[o.id][i] = 1 /\ i = First(o.todo)
  BY <1>1, <1>2 DEF RowsLeft
<1>5. (\A c \in Issued(o.id) : \A k \in o.todo : c.row < k) /\ Untold(o) = {}
  BY <1>1, <1>2 DEF Ahead, Untold
<1> HIDE DEF j
<1> QED
  BY <1>1, <1>2, <1>3, <1>4, <1>5, GearStep, Kept DEF RowOps

\* A row that is over, done or failed, is not tried again: what it has
\* registered stays one, and its certificate comes before those to come.
LEMMA RowOver ==
  ASSUME BulkInv, NEW w \in Workers, job[w].op \in RowOps
  PROVE  LET o == job[w]  i == First(o.todo)
         IN  /\ \A k \in o.todo \ {i} : devices[o.id][k] = 0
             /\ \A c \in Issued(o.id) : \A k \in o.todo \ {i} : c.row < k
             /\ \A c \in Issued(o.id) : c.row < i \/ (o.op = "report" /\ c = RowCert(o))
<1> DEFINE o == job[w]
           i == First(o.todo)
<1>1. /\ RowsLeft(o) /\ Ahead(Issued(o.id), o) /\ o.todo \in SUBSET Nat /\ i \in o.todo
      /\ \A k \in o.todo : i <= k
  BY GearKnown DEF RowOps, GearOps
<1>2. \A k \in o.todo \ {i} : devices[o.id][k] = 0
  BY <1>1 DEF RowsLeft
<1>3. \A c \in Issued(o.id) : c.row < i \/ (o.op = "report" /\ c = RowCert(o))
  BY <1>1 DEF Ahead
<1>4. ASSUME NEW c \in Issued(o.id), NEW k \in o.todo \ {i}
      PROVE  c.row < k
  <2>1. i < k /\ i \in Nat /\ k \in Nat
    BY <1>1
  <2>2. c.row < k \/ c.row = i
    BY <1>1, RowCerts DEF Ahead
  <2> QED
    BY <2>1, <2>2
<1> QED
  BY <1>2, <1>3, <1>4

LEMMA ReportInv ==
  ASSUME BulkInv, NEW w \in Workers, Report(w)
  PROVE  BulkInv'
<1> DEFINE o == job[w]
           i == First(o.todo)
           res == Packed(o.res, RowCert(o))
           x == [o EXCEPT !.op = "load"]
           y == [x EXCEPT !.todo = @ \ {i}]
           j == [y EXCEPT !.res = res]
<1>1. o.op = "report" /\ o.op \in RowOps /\ o.op \in GearOps
      /\ UNCHANGED <<people, linked, devices, certs, active, orphans, lock, preview, batch>>
  BY DEF Report, GearOps, RowOps, people_vars, cert_vars
<1>2. /\ o \in GearJobs /\ lock = w /\ RowCert(o) \in Issued(o.id) /\ o.res \in Results
      /\ TrueIn(Issued(o.id), o.res, {i}) /\ Issued(o.id) \subseteq Certs
  BY <1>1, GearKnown, Kept DEF Untold, GearJobs, Issued
<1>3. Set(w, j)
  BY Zenon DEF Report
<1>4. \A c \in Issued(o.id) : c.row < i \/ c = RowCert(o)
  BY <1>1, RowOver
<1>5. RowCert(o) \in Certs /\ RowCert(o).row = i
  BY <1>1, RowCerts
<1>6. TrueIn(Issued(o.id), res, {}) /\ res \in Results
  BY <1>2, <1>4, <1>5, TruePacked, PackedParts
<1>7. (\A k \in o.todo \ {i} : devices[o.id][k] = 0) /\ \A c \in Issued(o.id) : \A k \in o.todo \ {i} : c.row < k
  BY <1>1, RowOver
<1> HIDE DEF i, res
<1>8. x \in GearJobs /\ x.op = "load" /\ x.id = o.id /\ x.todo = o.todo /\ x.res = o.res
  BY <1>2 DEF GearJobs, GearOps
<1> HIDE DEF x
<1>9. y \in GearJobs /\ y.op = "load" /\ y.id = o.id /\ y.todo = o.todo \ {i}
  BY <1>8 DEF GearJobs
<1> HIDE DEF y
<1>10. j \in GearJobs /\ j.op = "load" /\ j.id = o.id /\ j.todo = o.todo \ {i} /\ j.res = res
  BY <1>6, <1>9 DEF GearJobs
<1> HIDE DEF j
<1> QED
  BY <1>1, <1>2, <1>3, <1>6, <1>7, <1>10, GearStep, Kept DEF RowOps

\* Wherever a row fails, its result is true of what has become of it.
LEMMA RowFailsInv ==
  ASSUME BulkInv, NEW w \in Workers, RowFails(w)
  PROVE  BulkInv'
<1> DEFINE o == job[w]
           i == First(o.todo)
           I == Issued(o.id)
<1>1. o.op \in RowOps /\ o.op \in GearOps
      /\ UNCHANGED <<people, linked, devices, certs, active, lock, preview, batch>>
  BY DEF RowFails, GearOps, RowOps, people_vars
<1>2. /\ o \in GearJobs /\ lock = w /\ o.res \in Results /\ o.todo \in SUBSET Nat /\ i \in o.todo
      /\ o.op = "report" => RowCert(o) \in I
      /\ TrueIn(I, o.res, Untold(o)) /\ I \subseteq Certs
  BY <1>1, GearKnown, Kept DEF RowOps, GearJobs, Issued
<1>3. PICK res : /\ \/ res = o.res
                    \/ o.op = "report" /\ res \in {Done(o.res, i), Packed(o.res, RowCert(o))}
                 /\ Set(w, Skip(o, i, res))
  BY Zenon DEF RowFails
<1>4. i \in Nat /\ RowCert(o) \in Certs /\ RowCert(o).row = i
      /\ File(RowCert(o)) \in Certs /\ File(RowCert(o)).imported
  BY <1>1, <1>2, RowCerts
<1>5. res \in Results /\ \E untold \in SUBSET {i} : TrueIn(I, res, untold)
  <2>1. CASE res = o.res
    <3>1. Untold(o) \in SUBSET {i}
      BY DEF Untold
    <3> QED
      BY <1>2, <2>1, <3>1
  <2>2. CASE o.op = "report" /\ res = Done(o.res, i)
    <3>1. TrueIn(I, res, Untold(o)) /\ Untold(o) = {i}
      BY <1>2, <1>4, <2>2, TrueDone DEF Untold
    <3> QED
      BY <1>2, <1>4, <2>2, <3>1, Parts
  <2>3. CASE o.op = "report" /\ res = Packed(o.res, RowCert(o))
    <3>1. \A c \in I : c.row < i \/ c = RowCert(o)
      BY <1>1, RowOver
    <3>2. TrueIn(I, o.res, {i})
      BY <1>2, <2>3 DEF Untold
    <3>3. TrueIn(I, res, {})
      BY <1>2, <1>4, <2>3, <3>1, <3>2, TruePacked
    <3> QED
      BY <1>2, <1>4, <2>3, <3>3, PackedParts
  <2> QED
    BY <1>3, <2>1, <2>2, <2>3
<1>6. (\A k \in o.todo \ {i} : devices[o.id][k] = 0) /\ \A c \in I : \A k \in o.todo \ {i} : c.row < k
  BY <1>1, RowOver
<1>7. Found
  <2>1. orphans' = orphans \/ orphans' = orphans \union {File(RowCert(o))}
    BY DEF RowFails
  <2> QED
    BY <1>4, <2>1 DEF BulkInv, TypeOK, Tables, Found
<1> DEFINE bad == [res EXCEPT !.bad = @ \union {i}]
           x == [o EXCEPT !.op = "load"]
           y == [x EXCEPT !.todo = @ \ {i}]
           z == [y EXCEPT !.res = bad]
           j == [z EXCEPT !.seen = Idle]
<1>8. TrueIn(I, bad, {}) /\ bad \in Results
  BY <1>4, <1>5, TrueFailed, Parts
<1>9. Set(w, j)
  BY <1>3, Zenon DEF Skip
<1> HIDE DEF i, bad
<1>10. x \in GearJobs /\ x.op = "load" /\ x.id = o.id /\ x.todo = o.todo
  BY <1>2 DEF GearJobs, GearOps
<1> HIDE DEF x
<1>11. y \in GearJobs /\ y.op = "load" /\ y.id = o.id /\ y.todo = o.todo \ {i}
  BY <1>10 DEF GearJobs
<1> HIDE DEF y
<1>12. z \in GearJobs /\ z.op = "load" /\ z.id = o.id /\ z.todo = o.todo \ {i} /\ z.res = bad
  BY <1>8, <1>11 DEF GearJobs
<1> HIDE DEF z
<1>13. j \in GearJobs /\ j.op = "load" /\ j.id = o.id /\ j.todo = o.todo \ {i} /\ j.res = bad
  BY <1>12 DEF GearJobs
<1> HIDE DEF j
<1> QED
  BY <1>1, <1>2, <1>6, <1>7, <1>8, <1>9, <1>13, GearStep DEF RowOps

\* What is known of a request that reissues, or has a result to store.
LEMMA BatchKnown ==
  ASSUME BulkInv, NEW w \in Workers, job[w].op \in BatchOps
  PROVE  LET o == job[w]
         IN  /\ o \in Jobs /\ o.id \in Batches /\ o.res \in Results
             /\ batch[o.id] = Idle /\ TrueIn(Issued(o.id), o.res, Untold(o)) /\ Mine(w, o.id)
             /\ o.id \in Uploads => preview[o.id] = "gone"
<1>1. job[w] \in Jobs /\ JobOK(w, job[w]) /\ job[w].op \in IdOps
  BY DEF BulkInv, TypeOK, JobsOK, IdOps
<1> QED
  BY <1>1, SomeSet DEF JobOK, Mine

\* The result of a batch is what was counted.
LEMMA CountedInv ==
  ASSUME BulkInv, NEW w \in Workers, EndBatch(w) \/ RenewDone(w)
  PROVE  BulkInv'
<1> DEFINE o == job[w]
           j == [op |-> "store", id |-> o.id, res |-> o.res]
<1>1. o.op \in {"load", "renew"} /\ Set(w, j)
      /\ UNCHANGED <<people, linked, devices, certs, active, orphans, preview, batch>>
  BY DEF EndBatch, RenewDone, people_vars, cert_vars
<1>2. /\ o.id \in Batches /\ o.res \in Results
      /\ batch[o.id] = Idle /\ TrueIn(Issued(o.id), o.res, {}) /\ Mine(w, o.id)
      /\ o.id \in Uploads => preview[o.id] = "gone"
  BY <1>1, BatchKnown DEF BatchOps, GearOps, Untold
<1>3. lock' = lock \/ (lock \in {Free, w} /\ lock' \in {Free, w})
  BY <1>1, GearKnown DEF EndBatch, RenewDone, GearOps
<1>4. j \in StoreJobs
  BY <1>2 DEF StoreJobs
<1>5. j \in Jobs
  BY <1>4, JobSets
<1>6. Issued(o.id) = IssuedNext(o.id)
  BY <1>1 DEF Issued, IssuedNext
<1>7. JobOKNext(w, j)
  BY <1>1, <1>2, <1>6 DEF JobOKNext, Untold, LockedOps, GearOps, RowOps
<1>8. Mine(w, j.id)
  BY <1>2
<1> HIDE DEF j
<1> QED
  BY <1>1, <1>3, <1>5, <1>7, <1>8, QuietJob, Kept

\* The form looks for an active certificate of the name, and may fail.
LEMMA FormLooksInv ==
  ASSUME BulkInv, NEW w \in Workers, (\E cn \in Singles : FormBegins(w, cn)) \/ FormChecks(w) \/ FormFails(w)
  PROVE  BulkInv'
<1> USE DEF IdOps, BatchOps, GearOps, RowOps
<1>1. ASSUME NEW cn \in Singles, FormBegins(w, cn)
      PROVE  BulkInv'
  <2> DEFINE j == [op |-> "form check", cn |-> cn]
  <2>1. j \in FormJobs
    BY RowsAssumption DEF FormJobs
  <2>2. j \in Jobs
    BY <2>1, JobSets
  <2>3. Set(w, j) /\ lock = Free /\ lock' = w
        /\ UNCHANGED <<people, linked, devices, certs, active, orphans, preview, batch>>
    BY <1>1 DEF FormBegins, Acquire, people_vars, cert_vars
  <2>4. JobOKNext(w, j) /\ j.op \notin IdOps
    BY <2>3 DEF JobOKNext, LockedOps
  <2> HIDE DEF j
  <2> QED
    BY <2>2, <2>3, <2>4, QuietJob, Kept
<1>2. CASE FormChecks(w)
  <2> DEFINE o == job[w]
             j == [o EXCEPT !.op = "form sign"]
  <2>1. o.op = "form check" /\ Current(o.cn) = {} /\ Set(w, j)
        /\ UNCHANGED <<people, linked, devices, certs, active, orphans, lock, preview, batch>>
    BY <1>2 DEF FormChecks, people_vars, cert_vars
  <2>2. o \in FormJobs /\ lock = w
    BY <2>1, JobShapes DEF BulkInv, TypeOK, JobsOK, JobOK, LockedOps
  <2>3. j \in FormJobs /\ j.op = "form sign" /\ j.cn = o.cn
    BY <2>2 DEF FormJobs
  <2>4. j \in Jobs
    BY <2>3, JobSets
  <2> HIDE DEF j
  <2>5. JobOKNext(w, j) /\ j.op \notin IdOps
    BY <2>1, <2>2, <2>3 DEF JobOKNext, Current, OnlyImported
  <2> QED
    BY <2>1, <2>4, <2>5, QuietJob, Kept
<1>3. CASE FormFails(w)
  <2> DEFINE f == File(Certificate(job[w].cn, "form", 0))
  <2>1. /\ job[w].op \in {"form check", "form sign"} /\ Set(w, Idle) /\ lock' = Free
        /\ orphans' = orphans \/ orphans' = orphans \union {f}
        /\ UNCHANGED <<people, linked, devices, certs, active, preview, batch>>
    BY <1>3 DEF FormFails, people_vars
  <2>2. lock = w
    BY <2>1 DEF BulkInv, JobsOK, JobOK, LockedOps
  <2>3. f \in Certs /\ f.imported
    BY <2>1, FormCerts
  <2>4. Found
    BY <2>1, <2>3 DEF BulkInv, TypeOK, Tables, Found
  <2> QED
    BY <2>1, <2>2, <2>4, IdleOK, QuietJob
<1> QED
  BY <1>1, <1>2, <1>3

\* A selection gets an id nothing was issued for.
LEMMA SelectInv ==
  ASSUME BulkInv, NEW w \in Workers, NEW r \in Renewals, NEW some \in SUBSET certs, Select(w, r, some)
  PROVE  BulkInv'
<1> DEFINE j == [op |-> "renew", id |-> r, todo |-> some, res |-> NoResult, row |-> 1]
<1>1. Set(w, j) /\ batch[r] = Idle
      /\ UNCHANGED <<people, linked, devices, certs, active, orphans, lock, preview, batch>>
  BY DEF Select, people_vars, cert_vars
<1>2. j \in RenewJobs
  BY DEF BulkInv, TypeOK, RenewJobs, Results, NoResult
<1>3. j \in Jobs
  BY <1>2, JobSets
<1>4. IssuedNext(r) = {}
  BY <1>1 DEF Select, IssuedNext
<1>5. r \notin Uploads
  BY RowsAssumption
<1>6. JobOKNext(w, j)
  <2>1. TrueIn({}, NoResult, {})
    BY DEF TrueIn, NoResult
  <2> QED
    BY <1>1, <1>4, <1>5, <2>1 DEF JobOKNext, Untold, LockedOps, GearOps, RowOps
<1>7. \A v \in Workers : ~Mine(v, r)
  <2> SUFFICES ASSUME NEW v \in Workers, Mine(v, r)
               PROVE  FALSE
    OBVIOUS
  <2>1. job[v] \in Jobs /\ job[v].op \in IdOps /\ job[v].id = r /\ job[v] # Idle
    BY DEF BulkInv, TypeOK, Mine, IdOps, BatchOps, GearOps, Idle
  <2>2. job[v].op \notin {"renew", "store"}
    BY <2>1 DEF Select
  <2>3. job[v].op \in GearOps \union {"people"}
    BY <2>1, <2>2 DEF IdOps, BatchOps
  <2> QED
    BY <1>5, <2>1, <2>3, SomeSet DEF Uploads
<1>8. j.id = r
  OBVIOUS
<1> HIDE DEF j
<1> QED
  BY <1>1, <1>3, <1>6, <1>7, <1>8, QuietJob, Kept

(***************************************************************************)
(* Steps that write a table.                                               *)
(***************************************************************************)
\* The store gives a preview away once: its rows have no device yet, and no
\* other request works on it.
LEMMA ConfirmInv ==
  ASSUME BulkInv, NEW w \in Workers, NEW u \in Uploads, Confirm(w, u)
  PROVE  BulkInv'
<1> DEFINE p == [op |-> "people", id |-> u, todo |-> Valid(u)]
           g == [op |-> "wait", id |-> u, todo |-> Valid(u), res |-> NoResult, seen |-> Idle]
<1>1. /\ preview[u] = "pending" /\ preview' = [preview EXCEPT ![u] = "gone"]
      /\ UNCHANGED <<people, linked, devices, certs, active, orphans, lock, batch>>
  BY DEF Confirm, TakePreview, people_vars, cert_vars
<1>2. /\ preview' \in [Uploads -> {"new", "pending", "gone"}] /\ preview'[u] = "gone"
      /\ \A x \in Uploads : preview[x] = "gone" => preview'[x] = "gone"
  BY <1>1, Kept
<1>3. \A v \in Workers : ~Mine(v, u)
  BY <1>1 DEF BulkInv, JobsOK, JobOK, Mine
<1>4. Calm({w}) /\ Tables'
  BY <1>1, <1>2, Still, Kept, SameTables DEF Calm
<1>5. Valid(u) \subseteq DOMAIN Rows[u] /\ Valid(u) \subseteq Index
  BY RowNumbers DEF Valid
<1>6. CASE u \in Staff
  <2>1. p \in PeopleJobs
    BY <1>5, <1>6 DEF PeopleJobs
  <2>2. p \in Jobs
    BY <2>1, JobSets
  <2>3. JobOKNext(w, p) /\ p.id = u
    BY <1>2, <1>5 DEF JobOKNext, LockedOps, GearOps, RowOps, BatchOps, IdOps
  <2>4. Set(w, p)
    BY <1>6 DEF Confirm
  <2> HIDE DEF p
  <2> QED
    BY <1>1, <1>2, <1>3, <1>4, <2>2, <2>3, <2>4, Kept, JobStep
<1>7. CASE u \notin Staff
  <2>1. u \in Gear /\ u \in Batches
    BY <1>7 DEF Uploads, Batches
  <2>2. g \in GearJobs
    BY <1>5, <2>1 DEF GearJobs, GearOps, Results, NoResult
  <2>3. g \in Jobs
    BY <2>2, JobSets
  <2>4. \A i \in DOMAIN Rows[u] : devices'[u][i] = 0
    BY <1>1, <2>1 DEF BulkInv, NotBegun
  <2>5. batch'[u] = Idle /\ IssuedNext(u) = {}
    BY <1>1, <2>1 DEF BulkInv, NotBegun, Issued, IssuedNext
  <2>6. \A i \in Valid(u) : people'[Rows[u][i][1]] # "absent"
    BY <1>1, <1>7 DEF Valid
  <2>7. TrueIn({}, NoResult, {}) /\ Ahead({}, g)
    BY DEF TrueIn, NoResult, Ahead
  <2>8. JobOKNext(w, g) /\ g.id = u
    BY <1>2, <1>5, <2>4, <2>5, <2>6, <2>7 DEF JobOKNext, Untold, LockedOps, RowOps
  <2>9. Set(w, g)
    BY <1>7 DEF Confirm
  <2> HIDE DEF g
  <2> QED
    BY <1>1, <1>2, <1>3, <1>4, <2>3, <2>8, <2>9, Kept, JobStep
<1> QED
  BY <1>6, <1>7

LEMMA CreateEmployeeInv ==
  ASSUME BulkInv, NEW w \in Workers, CreateEmployee(w)
  PROVE  BulkInv'
<1> DEFINE o == job[w]
           i == First(o.todo)
           e == Rows[o.id][i]
           j == [o EXCEPT !.todo = @ \ {i}]
<1>1. o.op = "people" /\ o.todo # {}
      /\ UNCHANGED <<linked, devices, certs, active, orphans, lock, preview, batch>>
  BY DEF CreateEmployee, cert_vars
<1>2. o \in PeopleJobs /\ o \in Jobs /\ JobOK(w, o)
  BY <1>1, JobShapes DEF BulkInv, TypeOK, JobsOK
<1>3. o.id \in Staff /\ o.id \in Uploads /\ Mine(w, o.id) /\ preview[o.id] = "gone"
      /\ o.todo \subseteq DOMAIN Rows[o.id]
  BY <1>1, <1>2 DEF PeopleJobs, Uploads, Mine, IdOps, JobOK
<1>4. i \in o.todo
  <2>1. o.todo \in SUBSET Nat
    BY <1>3, RowNumbers
  <2> QED
    BY <1>1, <2>1, FirstIsIn
<1>5. e \in Emps
  BY <1>3, <1>4, RowNumbers
<1>6. people' \in {people, [people EXCEPT ![e] = "active"]} /\ Set(w, j)
  BY Zenon DEF CreateEmployee
<1>7. people' \in [Emps -> Statuses] /\ \A d \in Emps : people[d] # "absent" => people'[d] # "absent"
  BY <1>5, <1>6, Kept DEF Statuses
<1>8. Calm({w}) /\ Tables'
  BY <1>1, <1>7, Still, Kept, SameTables DEF Calm
<1> HIDE DEF i, e
<1>9. j \in PeopleJobs /\ j.op = "people" /\ j.id = o.id /\ j.todo \subseteq o.todo
  BY <1>1, <1>2, <1>4 DEF PeopleJobs
<1> HIDE DEF j
<1>10. j \in Jobs
  BY <1>9, JobSets
<1>11. JobOKNext(w, j)
  BY <1>1, <1>3, <1>9 DEF JobOKNext, LockedOps, GearOps, RowOps, BatchOps
<1> QED
  BY <1>1, <1>3, <1>6, <1>7, <1>8, <1>9, <1>10, <1>11, Kept, JobStep

\* The device of a row that had none.
LEMMA RegisterInv ==
  ASSUME BulkInv, NEW w \in Workers, Register(w)
  PROVE  BulkInv'
<1> DEFINE o == job[w]
           i == First(o.todo)
           j == [o EXCEPT !.op = "check"]
           f == [devices[o.id] EXCEPT ![i] = @ + 1]
<1>1. o.op = "register" /\ o.op \in GearOps /\ o.op \in RowOps /\ Set(w, j)
      /\ UNCHANGED <<people, linked, certs, active, orphans, lock, preview, batch>>
  BY DEF Register, GearOps, RowOps, people_vars, cert_vars
<1>2. /\ o \in GearJobs /\ o.id \in Gear /\ o.id \in Uploads /\ lock = w /\ RowsLeft(o)
      /\ i \in o.todo /\ Mine(w, o.id) /\ preview[o.id] = "gone" /\ batch[o.id] = Idle
      /\ TrueIn(Issued(o.id), o.res, {}) /\ Ahead(Issued(o.id), o)
  BY <1>1, GearKnown DEF Untold
<1>3. i \in DOMAIN Rows[o.id] /\ devices[o.id][i] = 0 /\ \A k \in o.todo : devices[o.id][k] = 0
  BY <1>1, <1>2 DEF RowsLeft
<1>4. devices' = [devices EXCEPT ![o.id] = f]
  BY DEF Register
<1>5. f \in [DOMAIN Rows[o.id] -> Nat] /\ f[i] = 1 /\ \A k \in DOMAIN Rows[o.id] : k # i => f[k] = devices[o.id][k]
  <2>1. devices[o.id] \in [DOMAIN Rows[o.id] -> Nat]
    BY <1>2, Kept
  <2> HIDE DEF o, i
  <2> QED
    BY <1>3, <2>1
<1> HIDE DEF f, i
<1>6. /\ devices'[o.id] = f /\ \A u \in Gear : u # o.id => devices'[u] = devices[u]
      /\ devices' = [u \in Gear |-> devices'[u]]
  BY <1>2, <1>4, Kept
<1>7. j \in GearJobs /\ j.op = "check" /\ j.id = o.id /\ j.todo = o.todo /\ j.res = o.res
  BY <1>2 DEF GearJobs, GearOps
<1> HIDE DEF j
<1>8. j \in Jobs
  BY <1>7, JobSets
<1>9. \A b : Steady(b)
  BY <1>1, Still
<1>10. \A u \in Gear : devices'[u] \in [DOMAIN Rows[u] -> Nat]
  BY <1>5, <1>6, Kept
<1>11. Calm({w})
  <2>1. \A u \in Gear : devices'[u] = devices[u] \/ Mine(w, u)
    BY <1>2, <1>6
  <2>2. \A u \in Gear : \A k \in DOMAIN Rows[u] : devices'[u][k] = devices[u][k] \/ devices'[u][k] <= 1
    BY <1>5, <1>6
  <2> QED
    BY <1>1, <1>9, <2>1, <2>2 DEF Calm
<1>12. Tables'
  BY <1>1, <1>6, Kept DEF Tables, Found
<1>13. IssuedNext(o.id) = Issued(o.id)
  BY <1>1 DEF Issued, IssuedNext
<1>14. \A k \in o.todo :
         /\ k \in DOMAIN Rows[o.id] /\ people'[Rows[o.id][k][1]] # "absent"
         /\ devices'[o.id][k] = 0 \/ (devices'[o.id][k] = 1 /\ k = First(o.todo))
  BY <1>1, <1>2, <1>3, <1>5, <1>6 DEF RowsLeft, i
<1>15. Ahead(Issued(o.id), j) /\ Untold(j) = {}
  BY <1>1, <1>2, <1>7 DEF Ahead, Untold
<1>16. JobOKNext(w, j)
  BY <1>1, <1>2, <1>7, <1>13, <1>14, <1>15 DEF JobOKNext, BatchOps
<1>17. Mine(w, j.id)
  BY <1>2, <1>7
<1> QED
  BY <1>1, <1>8, <1>10, <1>11, <1>12, <1>16, <1>17, Kept, JobStep

\* What a new certificate, active at once, adds to what was issued.
LEMMA Added ==
  ASSUME BulkInv, NEW c \in Certs, ~c.imported, certs' = certs \union {c}, active' = active \union {c}
  PROVE  /\ certs' \subseteq Certs /\ active' \subseteq certs' /\ certs \subseteq certs'
         /\ \A b : b # c.batch => Steady(b)
         /\ IssuedNext(c.batch) = Issued(c.batch) \union {c}
<1>1. certs' \subseteq Certs /\ active' \subseteq certs' /\ certs \subseteq certs'
  BY Kept
<1>2. ASSUME NEW b, b # c.batch
      PROVE  Steady(b)
  BY <1>2 DEF IssuedNext, Issued, Steady
<1>3. IssuedNext(c.batch) = Issued(c.batch) \union {c}
  BY DEF IssuedNext, Issued
<1> QED
  BY <1>1, <1>2, <1>3

\* The row's certificate is issued, and the result does not tell of it yet.
LEMMA SignInv ==
  ASSUME BulkInv, NEW w \in Workers, Sign(w)
  PROVE  BulkInv'
<1> DEFINE o == job[w]
           i == First(o.todo)
           c == RowCert(o)
           j == [o EXCEPT !.op = "report"]
<1>1. o.op = "sign" /\ o.op \in GearOps /\ o.op \in RowOps
      /\ certs' = certs \union {c} /\ active' = active \union {c} /\ Set(w, j)
      /\ UNCHANGED <<people, linked, devices, orphans, lock, preview, batch>>
  BY DEF Sign, GearOps, RowOps, people_vars
<1>2. /\ o \in GearJobs /\ o.id \in Gear /\ o.id \in Uploads /\ o.id \in Batches /\ lock = w /\ RowsLeft(o)
      /\ i \in o.todo /\ Mine(w, o.id) /\ preview[o.id] = "gone" /\ batch[o.id] = Idle
      /\ TrueIn(Issued(o.id), o.res, {}) /\ Ahead(Issued(o.id), o)
  BY <1>1, GearKnown DEF Untold
<1>3. c \in Certs /\ c.batch = o.id /\ c.row = i /\ ~c.imported
  BY <1>1, RowCerts
<1>4. j \in GearJobs /\ j.op = "report" /\ j.id = o.id /\ j.todo = o.todo /\ j.res = o.res
  BY <1>2 DEF GearJobs, GearOps
<1>5. RowCert(j) = c
  BY <1>4 DEF RowCert
<1> HIDE DEF c, j
<1>6. /\ certs' \subseteq Certs /\ active' \subseteq certs' /\ certs \subseteq certs'
      /\ \A b : b # o.id => Steady(b)
      /\ IssuedNext(o.id) = Issued(o.id) \union {c}
  BY <1>1, <1>3, Added
<1>7. j \in Jobs
  BY <1>4, JobSets
<1>8. Calm({w}) /\ Tables'
  <2>1. \A b \in Batches : Steady(b) \/ Mine(w, b)
    BY <1>2, <1>6
  <2> QED
    BY <1>1, <1>2, <1>6, <2>1, Kept, SameTables DEF Calm
<1>9. TrueIn(IssuedNext(o.id), o.res, {i})
  BY <1>2, <1>3, <1>6, TrueIssued
<1>10. Untold(j) = {i} /\ Ahead(IssuedNext(o.id), j)
  BY <1>1, <1>2, <1>4, <1>5, <1>6 DEF Untold, Ahead
<1>11. \A k \in o.todo : /\ k \in DOMAIN Rows[o.id] /\ people'[Rows[o.id][k][1]] # "absent"
                         /\ devices'[o.id][k] = 0 \/ (devices'[o.id][k] = 1 /\ k = First(o.todo))
  BY <1>1, <1>2 DEF RowsLeft
<1>12. RowCert(j) \in certs' /\ o.todo # {}
  BY <1>1, <1>2, <1>5
<1>13. JobOKNext(w, j)
  BY <1>1, <1>2, <1>4, <1>9, <1>10, <1>11, <1>12 DEF JobOKNext
<1>14. Mine(w, j.id)
  BY <1>2, <1>4
<1> QED
  BY <1>1, <1>6, <1>7, <1>8, <1>13, <1>14, Kept, JobStep

LEMMA FormSignsInv ==
  ASSUME BulkInv, NEW w \in Workers, FormSigns(w)
  PROVE  BulkInv'
<1> DEFINE o == job[w]
           c == Certificate(o.cn, "form", 0)
<1>1. o.op = "form sign" /\ certs' = certs \union {c} /\ active' = active \union {c} /\ lock' = Free /\ Set(w, Idle)
      /\ UNCHANGED <<people, linked, devices, orphans, preview, batch>>
  BY DEF FormSigns, people_vars
<1>2. lock = w
  BY <1>1 DEF BulkInv, JobsOK, JobOK, LockedOps
<1>3. c \in Certs /\ c.batch = "form" /\ ~c.imported
  BY <1>1, FormCerts
<1> HIDE DEF c
<1>4. certs' \subseteq Certs /\ active' \subseteq certs' /\ certs \subseteq certs' /\ \A b : b # "form" => Steady(b)
  BY <1>1, <1>3, Added
<1>5. Calm({w}) /\ Tables'
  <2>1. \A b \in Batches : Steady(b)
    BY <1>4, RowsAssumption DEF Batches
  <2> QED
    BY <1>1, <1>2, <1>4, <2>1, RowsAssumption, Kept, SameTables DEF Calm
<1> QED
  BY <1>1, <1>2, <1>4, <1>5, IdleOK, Kept, JobStep

\* A request that reissues, a row on: its result is true of what there is.
LEMMA RenewStep ==
  ASSUME BulkInv, NEW w \in Workers, job[w].op = "renew", NEW k \in RenewJobs,
         k.id = job[w].id, batch'[k.id] = batch[k.id],
         TrueIn(IssuedNext(k.id), k.res, {}), \A c \in IssuedNext(k.id) : c.row < k.row
  PROVE  k \in Jobs /\ JobOKNext(w, k) /\ Mine(w, k.id)
<1>1. k \in Jobs /\ k.op = "renew" /\ k.id \in Renewals /\ k.id \notin Uploads
  BY JobSets, RowsAssumption DEF RenewJobs
<1>2. batch[k.id] = Idle /\ Mine(w, k.id)
  BY BatchKnown DEF BatchOps
<1> QED
  BY <1>1, <1>2 DEF JobOKNext, Untold, LockedOps, GearOps, RowOps

\* Certificate, result and ZIP entry of a reissue: what raises in between
\* ends the request.
LEMMA ReissueInv ==
  ASSUME BulkInv, NEW w \in Workers, job[w].op = "renew", NEW c \in job[w].todo,
         Reissue(w, c) \/ ReissueRefused(w, c)
  PROVE  BulkInv'
<1> DEFINE o == job[w]
           I == Issued(o.id)
           n == Certificate(c.cn, o.id, o.row)
           x == [o EXCEPT !.todo = @ \ {c}]
           y == [x EXCEPT !.row = @ + 1]
           done == Packed(o.res, n)
           bad == [o.res EXCEPT !.bad = @ \union {o.row}]
           j == [y EXCEPT !.res = done]
           k == [y EXCEPT !.res = bad]
<1>1. lock = Free /\ UNCHANGED <<people, linked, devices, orphans, lock, preview, batch>>
  BY DEF Reissue, ReissueRefused, people_vars, cert_vars
<1>2. \/ certs' = certs \union {n} /\ active' = active \union {n} /\ Set(w, j)
      \/ certs' = certs /\ active' = active /\ Set(w, k)
  <2>1. CASE Reissue(w, c)
    BY <2>1, Zenon DEF Reissue
  <2>2. CASE ReissueRefused(w, c)
    <3>1. certs' = certs /\ active' = active
      BY <2>2 DEF ReissueRefused, cert_vars
    <3>2. Set(w, [o EXCEPT !.todo = @ \ {c}, !.row = @ + 1, !.res.bad = @ \union {o.row}])
      BY <2>2 DEF ReissueRefused
    <3>3. [o EXCEPT !.todo = @ \ {c}, !.row = @ + 1, !.res.bad = @ \union {o.row}] = k
      <4>1. o \in RenewJobs
        BY JobShapes DEF BulkInv, TypeOK
      <4> QED
        BY <4>1 DEF RenewJobs, Results
    <3> QED
      BY <3>1, <3>2, <3>3
  <2> QED
    BY <2>1, <2>2
<1>3. o \in RenewJobs /\ o.res \in Results /\ o.row \in Nat /\ \A d \in I : d.row < o.row
  BY JobShapes DEF BulkInv, TypeOK, JobsOK, JobOK, RenewJobs
<1>4. TrueIn(I, o.res, {}) /\ Mine(w, o.id) /\ o.id \in Batches /\ I \subseteq Certs
  BY BatchKnown, Kept DEF BatchOps, Untold, Issued
<1>5. n \in Certs /\ n.batch = o.id /\ n.row = o.row /\ ~n.imported
  BY RenewCerts
<1> HIDE DEF n
<1>6. y \in RenewJobs /\ y.id = o.id /\ y.row = o.row + 1
  <2>1. x \in RenewJobs /\ x.id = o.id /\ x.row = o.row
    BY <1>3 DEF RenewJobs
  <2> HIDE DEF x
  <2> QED
    BY <1>3, <2>1 DEF RenewJobs
<1> HIDE DEF x, y
<1>7. done \in Results /\ bad \in Results
  BY <1>3, <1>5, PackedParts, Parts
<1>8. CASE certs' = certs /\ active' = active /\ Set(w, k)
  <2>1. IssuedNext(o.id) = I
    BY <1>8 DEF Issued, IssuedNext
  <2>2. TrueIn(I, bad, {})
    BY <1>3, <1>4, TrueFailed
  <2> HIDE DEF bad, done
  <2>3. k \in RenewJobs /\ k.id = o.id /\ k.row = o.row + 1 /\ k.res = bad
    BY <1>6, <1>7 DEF RenewJobs
  <2> HIDE DEF k
  <2>4. \A d \in I : d.row < o.row + 1
    BY <1>3, <1>4 DEF Certs
  <2>5. k \in Jobs /\ JobOKNext(w, k) /\ Mine(w, k.id)
    BY <1>1, <2>1, <2>2, <2>3, <2>4, RenewStep
  <2> QED
    BY <1>1, <1>8, <2>5, QuietJob, Kept
<1>9. CASE certs' = certs \union {n} /\ active' = active \union {n} /\ Set(w, j)
  <2>1. /\ certs' \subseteq Certs /\ active' \subseteq certs' /\ certs \subseteq certs'
        /\ \A b : b # o.id => Steady(b)
        /\ IssuedNext(o.id) = I \union {n}
    BY <1>5, <1>9, Added
  <2>2. TrueIn(I \union {n}, o.res, {n.row})
    BY <1>4, TrueIssued
  <2>3. I \union {n} \in SUBSET Certs /\ n \in I \union {n} /\ \A d \in I \union {n} : d.row < n.row \/ d = n
    BY <1>3, <1>4, <1>5
  <2>4. TrueIn(I \union {n}, done, {})
    <3> DEFINE J == I \union {n}
    <3>1. J \in SUBSET Certs /\ n \in J /\ TrueIn(J, o.res, {n.row}) /\ \A d \in J : d.row < n.row \/ d = n
      BY <2>2, <2>3
    <3> HIDE DEF J
    <3>2. TrueIn(J, done, {})
      BY <1>3, <3>1, TruePacked
    <3> QED
      BY <3>2 DEF J
  <2> HIDE DEF bad, done
  <2>5. j \in RenewJobs /\ j.id = o.id /\ j.row = o.row + 1 /\ j.res = done
    BY <1>6, <1>7 DEF RenewJobs
  <2> HIDE DEF j
  <2>6. \A d \in I \union {n} : d.row < o.row + 1
    BY <1>3, <1>4, <1>5 DEF Certs
  <2>7. j \in Jobs /\ JobOKNext(w, j) /\ Mine(w, j.id)
    BY <1>1, <2>1, <2>4, <2>5, <2>6, RenewStep
  <2>8. Calm({w}) /\ Tables'
    <3>1. \A b \in Batches : Steady(b) \/ Mine(w, b)
      BY <1>4, <2>1
    <3> QED
      BY <1>1, <2>1, <3>1, Kept, SameTables DEF Calm
  <2> QED
    BY <1>1, <1>9, <2>1, <2>7, <2>8, Kept, JobStep
<1> QED
  BY <1>2, <1>8, <1>9

\* What is stored is what was counted, and nothing of the batch is issued
\* once it is stored.
LEMMA StoreBatchInv ==
  ASSUME BulkInv, NEW w \in Workers, StoreBatch(w)
  PROVE  BulkInv'
<1> DEFINE o == job[w]
<1>1. o.op = "store" /\ Set(w, Idle) /\ batch' = [batch EXCEPT ![o.id] = o.res]
      /\ UNCHANGED <<people, linked, devices, certs, active, orphans, lock, preview>>
  BY DEF StoreBatch, people_vars, cert_vars
<1>2. o.res \in Results /\ o.id \in Batches
  BY <1>1, BatchKnown DEF BatchOps
<1>3. /\ batch'[o.id] = o.res /\ \A b \in Batches : b # o.id => batch'[b] = batch[b]
      /\ batch' = [b \in Batches |-> batch'[b]]
  BY <1>1, <1>2, Kept
<1>4. \A b \in Batches : batch'[b] \in {Idle} \union Results
  BY <1>2, <1>3, Kept
<1>5. Calm({w})
  <2>1. Stored(w, o.id)
    BY <1>1, <1>3, Still DEF Stored
  <2>2. \A b \in Batches : batch'[b] = batch[b] \/ Stored(w, b)
    BY <1>3, <2>1
  <2> QED
    BY <1>1, <2>2, Still DEF Calm
<1>6. Tables'
  BY <1>1, <1>3, Kept DEF Tables, Found
<1> QED
  BY <1>1, <1>4, <1>5, <1>6, IdleOK, Kept, JobStep

THEOREM NextBulk == BulkInv /\ [Next]_vars => BulkInv'
<1> SUFFICES ASSUME BulkInv, [Next]_vars
             PROVE  BulkInv'
  OBVIOUS
<1>1. ASSUME NEW w \in Workers, Imports(w)
      PROVE  BulkInv'
  BY <1>1, ConfirmInv, CreateEmployeeInv, DoneInv, BeginBatchInv, LoadRowInv, RegisterInv, CheckNameInv,
     SignInv, ReportInv, RowFailsInv, CountedInv, StoreBatchInv DEF Imports
<1>2. ASSUME NEW w \in Workers, Renews(w)
      PROVE  BulkInv'
  BY <1>2, SelectInv, ReissueInv, DoneInv, CountedInv DEF Renews
<1>3. ASSUME NEW w \in Workers, Issues(w)
      PROVE  BulkInv'
  BY <1>3, FormLooksInv, FormSignsInv DEF Issues
<1>4. CASE UNCHANGED vars
  <2>1. UNCHANGED <<people, linked, devices, cert_vars, orphans, lock, preview, batch, job>>
    BY <1>4 DEF vars, people_vars, cert_vars
  <2> QED
    BY <2>1, Kept, SameTables, WorldInv
<1> QED
  BY <1>1, <1>2, <1>3, <1>4, QuietInv, StatusInv, RestartInv DEF Next, Batches

THEOREM SpecBulk == Spec => []BulkInv
<1>1. Init => BulkInv
  BY InitBulk
<1>2. BulkInv /\ [Next]_vars => BulkInv'
  BY NextBulk
<1> QED
  BY <1>1, <1>2, PTL DEF Spec

(***************************************************************************)
(* The properties that the runs check.                                     *)
(***************************************************************************)
\* The rows and the requests stay of their types, through failed rows, lock
\* timeouts and restarts.
THEOREM SpecTypeOK == Spec => []TypeOK
<1>1. BulkInv => TypeOK
  BY DEF BulkInv
<1> QED
  BY <1>1, SpecBulk, PTL

\* However many threads confirm a preview, however often, no row of a file
\* of devices is registered twice (confirm_devices, take_pending_preview).
THEOREM SpecRowsOnce == Spec => []RowsOnce
<1>1. BulkInv => RowsOnce
  BY DEF BulkInv
<1> QED
  BY <1>1, SpecBulk, PTL

\* The result of a batch of any size tells what became of its rows, whatever
\* raised before a commit or after it, and whatever has been imported, or
\* suspended, since (confirm_devices, renew_batch, store_pending_batch).
THEOREM SpecResultIsTrue == Spec => []ResultIsTrue
<1>1. BulkInv => ResultIsTrue
  BY DEF BulkInv
<1> QED
  BY <1>1, SpecBulk, PTL

\* The certificates a step adds, if it is not a reissue, have names that
\* only imported ones have.
LEMMA NamesFree ==
  ASSUME BulkInv, Next, NEW c \in certs' \ certs, c.batch \notin Renewals, ~c.imported
  PROVE  \A d \in Current(c.cn) : d.imported
<1>1. ASSUME NEW w \in Workers, Sign(w)
      PROVE  \A d \in Current(c.cn) : d.imported
  <2>1. c = RowCert(job[w]) /\ job[w].op = "sign" /\ job[w].op \in RowOps
    BY <1>1 DEF Sign, RowOps
  <2>2. OnlyImported(active, Rows[job[w].id][First(job[w].todo)])
    BY <2>1 DEF BulkInv, JobsOK, JobOK
  <2> QED
    BY <2>1, <2>2, RowCerts DEF OnlyImported, Current
<1>2. ASSUME NEW w \in Workers, FormSigns(w)
      PROVE  \A d \in Current(c.cn) : d.imported
  <2>1. c = Certificate(job[w].cn, "form", 0) /\ job[w].op = "form sign"
    BY <1>2 DEF FormSigns
  <2>2. OnlyImported(active, job[w].cn)
    BY <2>1 DEF BulkInv, JobsOK, JobOK
  <2> QED
    BY <2>1, <2>2, FormCerts DEF OnlyImported, Current
<1>3. ASSUME NEW w \in Workers, job[w].op = "renew", NEW o \in job[w].todo, Reissue(w, o)
      PROVE  FALSE
  <2>1. c = Certificate(o.cn, job[w].id, job[w].row)
    BY <1>3 DEF Reissue
  <2>2. c.batch = job[w].id /\ job[w] \in Jobs
    BY <1>3, <2>1, RenewCerts DEF BulkInv, TypeOK
  <2> QED
    BY <1>3, <2>2, SomeSet DEF IdOps, BatchOps
<1>4. CASE Import
  BY <1>4 DEF Import, BulkInv, Tables
<1>5. ASSUME NEW w \in Workers, Imports(w), ~Sign(w)
      PROVE  certs' = certs
  BY <1>5 DEF Imports, Confirm, CreateEmployee, EmployeesDone, BeginBatch, LockTimesOut, LoadRow, Register,
              CheckName, Report, RowFails, EndBatch, StoreBatch, cert_vars
<1>6. ASSUME NEW w \in Workers, Renews(w), ~ \E o \in job[w].todo : job[w].op = "renew" /\ Reissue(w, o)
      PROVE  certs' = certs
  BY <1>6 DEF Renews, Select, ReissueRefused, ReissueRaises, RenewDone, cert_vars
<1>7. ASSUME NEW w \in Workers, Issues(w), ~FormSigns(w)
      PROVE  certs' = certs
  BY <1>7 DEF Issues, FormBegins, FormChecks, FormFails, cert_vars
<1>8. ASSUME ~ \E w \in Workers : Imports(w) \/ Renews(w) \/ Issues(w), ~Import
      PROVE  certs' = certs
  BY <1>8 DEF Next, Preview, TakeBatch, Deactivate, Reactivate, SetStatus, Offboard, Complete, Relink, Restart,
              cert_vars
<1> QED
  BY <1>1, <1>2, <1>3, <1>4, <1>5, <1>6, <1>7, <1>8

\* Batches and the form look for the name and sign in one hold of the PKI
\* lock (_issue_one_locked): no certificate gets a name that is in use but
\* by a reissue, an import or the end of a suspension.
THEOREM SpecNameOnce == Spec => NameOnce
<1>1. BulkInv /\ [Next]_vars =>
        [\A c \in certs' \ certs : c.batch \notin Renewals /\ ~c.imported => \A d \in Current(c.cn) : d.imported]_vars
  BY NamesFree
<1> QED
  BY <1>1, SpecBulk, PTL DEF Spec, NameOnce

=============================================================================

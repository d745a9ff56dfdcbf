------------------------- MODULE AdminAccessProofs -------------------------
(***************************************************************************)
(* Proofs about AdminAccess, for every value of its constants: the bumps   *)
(* of the token version hold, a lock ends by time only, and a superadmin   *)
(* is left, each as long as what it excepts has not happened.              *)
(***************************************************************************)
EXTENDS AdminAccess, FiniteSetTheorems, TLAPS

(***************************************************************************)
(* The inductive invariant.                                                *)
(***************************************************************************)
\* Rows of admins are never deleted: whoever a session or a request is for
\* has one.
RowsStay ==
  /\ \A i \in Sids : sess[i] # NoSession => Exists(sess[i].admin)
  /\ \A w \in Workers : job[w] # Idle => Exists(job[w].admin)

\* As long as no login has overlapped the reset of an expired lock: a row that
\* has used up its attempts has had a lock, and a login that may still fail
\* began below the limit.
AttemptsLeft ==
  "renewal" \notin raced =>
    /\ \A a \in Admins : Exists(a) => row[a].count <= MaxAttempts
    /\ \A a \in Admins : Exists(a) /\ row[a].count = MaxAttempts => row[a].lock # "no"
    /\ \A w \in Workers : job[w].op = "verify" => job[w].count < MaxAttempts

\* And a login that is about to reset the lock is the only one of its admin:
\* the row is as it has read it.
RenewalsAlone ==
  "renewal" \notin raced =>
    \A w \in Workers : job[w].op = "renew" =>
      /\ row[job[w].admin].lock = "over" /\ row[job[w].admin].count = job[w].count
      /\ \A v \in Workers : job[v].op \in {"verify", "renew"} /\ job[v].admin = job[w].admin => v = w

VersionsLeft == \A w \in Workers : job[w].op \in Bumps => job[w].tv < MaxVersion

\* Of the version a login or a cookie carries: none is ahead of the row's,
\* and those from before a bump are behind it.
Behind(x, a) == x.tv <= row[a].tv /\ (x.ended => x.tv < row[a].tv)

\* As long as no two bumps of one admin have overlapped: a bump in progress
\* has the version of the row.
VersionsInOrder ==
  "bump" \notin raced =>
    /\ \A v, w \in Workers : job[v].op \in Bumps /\ job[w].op \in Bumps /\ job[v].admin = job[w].admin => v = w
    /\ \A w \in Workers : job[w].op \in Bumps => job[w].tv = row[job[w].admin].tv
    /\ \A w \in Workers : job[w].op \in {"verify", "renew", "enter"} => Behind(job[w], job[w].admin)
    /\ \A i \in Sids : sess[i] # NoSession => Behind(sess[i], sess[i].admin)

\* As long as no two deactivations have overlapped: the one in progress
\* leaves another superadmin.
OneStays ==
  "removal" \notin raced =>
    /\ \A v, w \in Workers : job[v].op = "deactivate" /\ job[w].op = "deactivate" => v = w
    /\ \A w \in Workers : job[w].op = "deactivate" =>
         \E b \in Supers : b # job[w].admin /\ Exists(b) /\ row[b].active

AdminInv ==
  /\ Shapes /\ RowsStay /\ AttemptsLeft /\ RenewalsAlone /\ VersionsLeft
  /\ VersionsInOrder /\ OneStays /\ SuperLeft

(***************************************************************************)
(* Facts about the definitions.                                            *)
(***************************************************************************)
Renews   == [op : {"renew"}, admin : Admins, count : Nat, tv : 0..MaxVersion, active : BOOLEAN,
             ended : BOOLEAN]
Verifies == [op : {"verify"}, admin : Admins, count : Nat, tv : 0..MaxVersion, ended : BOOLEAN]
Enters   == [op : {"enter"}, admin : Admins, tv : 0..MaxVersion, ended : BOOLEAN]
BumpJobs == [op : Bumps, admin : Admins, must : BOOLEAN, tv : 0..MaxVersion]

\* The shape of a request by its step.
LEMMA JobShapes ==
  ASSUME NEW j \in Jobs
  PROVE  /\ j # Idle => j.admin \in Admins /\ j.tv \in 0..MaxVersion
         /\ j.op = "none" <=> j = Idle
         /\ j.op = "renew" => j \in Renews
         /\ j.op = "verify" => j \in Verifies
         /\ j.op = "enter" => j \in Enters
         /\ j.op \in Bumps => j \in BumpJobs
         /\ j = Idle \/ j.op \in {"verify", "renew", "enter"} \union Bumps
<1>1. CASE j = Idle
  BY <1>1 DEF Idle, Bumps
<1>2. CASE j \in Verifies
  BY <1>2 DEF Verifies, Idle, Bumps
<1>3. CASE j \in Enters
  BY <1>3 DEF Enters, Idle, Bumps
<1>4. CASE j \in BumpJobs
  BY <1>4 DEF BumpJobs, Idle, Bumps
<1>5. CASE j \in Renews
  BY <1>5 DEF Renews, Idle, Bumps
<1> QED
  BY <1>1, <1>2, <1>3, <1>4, <1>5 DEF Jobs, Verifies, Enters, BumpJobs, Renews

LEMMA Sets ==
  ASSUME Shapes, NEW w \in Workers, NEW j \in Jobs, Set(w, j)
  PROVE  /\ job' \in [Workers -> Jobs]
         /\ job'[w] = j
         /\ \A v \in Workers : v # w => job'[v] = job[v]
BY DEF Shapes, Set

LEMMA RowShapes ==
  ASSUME Shapes, NEW a \in Admins, Exists(a)
  PROVE  row[a] \in Rows
BY DEF Shapes, Exists

LEMMA SessionShapes ==
  ASSUME Shapes, NEW i \in Sids, sess[i] # NoSession
  PROVE  sess[i] \in Sessions /\ sess[i].admin \in Admins
BY DEF Shapes, Sessions

\* A row that is changed stays a row, and no other changes.
LEMMA RowSet ==
  ASSUME Shapes, NEW a \in Admins, NEW r \in Rows, row' = [row EXCEPT ![a] = r]
  PROVE  /\ row' \in [Admins -> Rows \union {NoAdmin}]
         /\ row'[a] = r /\ Exists(a)'
         /\ \A b \in Admins : b # a => row'[b] = row[b]
BY NoneAssumption DEF Shapes, Exists

THEOREM InitAdmin == Init => AdminInv
<1> SUFFICES ASSUME Init
             PROVE  AdminInv
  OBVIOUS
<1>1. Idle \in Jobs /\ Idle.op = "none" /\ \A w \in Workers : job[w] = Idle
  BY DEF Init, Jobs, Idle
<1>2. \A a \in Admins : ~Exists(a)
  BY DEF Init, Exists
<1>3. \A i \in Sids : sess[i] = NoSession
  BY DEF Init
<1>4. Shapes
  BY <1>1 DEF Init, Shapes
<1> QED
  BY <1>1, <1>2, <1>3, <1>4
     DEF AdminInv, RowsStay, AttemptsLeft, RenewalsAlone, VersionsLeft, VersionsInOrder, OneStays,
         SuperLeft, Bumps

(***************************************************************************)
(* Most steps touch neither version nor activity of a row, and begin no    *)
(* bump.                                                                   *)
(***************************************************************************)
Decent(x) == Exists(x.admin) /\ ("bump" \notin raced => Behind(x, x.admin))

Harmless(j) ==
  \/ j = Idle
  \/ j.op \in {"verify", "renew", "enter"} /\ Decent(j)

\* The same in the next state.
DecentNext(x) ==
  /\ row'[x.admin] # NoAdmin
  /\ "bump" \notin raced => x.tv <= row'[x.admin].tv /\ (x.ended => x.tv < row'[x.admin].tv)

LEMMA Decents ==
  ASSUME AdminInv
  PROVE  /\ \A w \in Workers : job[w].op \in {"verify", "renew", "enter"} => Decent(job[w])
         /\ \A i \in Sids : sess[i] # NoSession => Decent(sess[i])
<1>1. \A w \in Workers : job[w].op \in {"verify", "renew", "enter"} => job[w] # Idle
  BY DEF Idle
<1> QED
  BY <1>1 DEF AdminInv, RowsStay, VersionsInOrder, Decent

RowsKept ==
  \A a \in Admins : Exists(a) =>
    Exists(a)' /\ row'[a].tv = row[a].tv /\ row'[a].active = row[a].active

LEMMA QuietStep ==
  ASSUME AdminInv, Shapes', raced' \in {raced, raced \union {"renewal"}}, RowsKept,
         (\E a \in Admins : Exists(a)) \/ SuperLeft', AttemptsLeft', RenewalsAlone',
         \A w \in Workers : job'[w] = job[w] \/ Harmless(job'[w]),
         \A i \in Sids : sess'[i] \in {sess[i], NoSession} \/ Decent(sess'[i])
  PROVE  AdminInv'
<1> USE DEF AdminInv
<1>1. \A w \in Workers : job'[w] \in Jobs /\ job[w] \in Jobs
  BY DEF Shapes
<1>2. \A w \in Workers : job'[w].op \in Bumps => job'[w] = job[w] /\ job[w] # Idle
  <2> SUFFICES ASSUME NEW w \in Workers, job'[w].op \in Bumps
               PROVE  job'[w] = job[w] /\ job[w] # Idle
    OBVIOUS
  <2>1. job'[w] # Idle /\ job'[w].op \notin {"verify", "renew", "enter"}
    BY DEF Idle, Bumps
  <2> QED
    BY <2>1 DEF Harmless
<1>3. ASSUME NEW x, x.admin \in Admins, Decent(x)
      PROVE  DecentNext(x)
  <2>1. row'[x.admin] # NoAdmin /\ row'[x.admin].tv = row[x.admin].tv
    BY <1>3 DEF Decent, RowsKept, Exists
  <2> QED
    BY <1>3, <2>1 DEF Decent, Behind, DecentNext
<1>4. \A w \in Workers : job'[w].op \in {"verify", "renew", "enter"} => DecentNext(job'[w])
  <2> SUFFICES ASSUME NEW w \in Workers, job'[w].op \in {"verify", "renew", "enter"}
               PROVE  DecentNext(job'[w])
    OBVIOUS
  <2>1. job'[w] # Idle
    BY DEF Idle
  <2>2. job'[w].admin \in Admins
    BY <1>1, <2>1, JobShapes
  <2>3. Decent(job'[w])
    BY <2>1, Decents DEF Harmless
  <2> QED
    BY <1>3, <2>2, <2>3
<1>5. \A i \in Sids : sess'[i] # NoSession =>
        DecentNext(sess'[i])
  <2> SUFFICES ASSUME NEW i \in Sids, sess'[i] # NoSession
               PROVE  DecentNext(sess'[i])
    OBVIOUS
  <2>1. sess'[i].admin \in Admins
    BY DEF Shapes, Sessions
  <2>2. Decent(sess'[i])
    BY Decents
  <2> QED
    BY <1>3, <2>1, <2>2
<1>6. RowsStay'
  <2>1. ASSUME NEW w \in Workers, job'[w] # Idle
        PROVE  row'[job'[w].admin] # NoAdmin
    <3>1. CASE job'[w].op \in {"verify", "renew", "enter"}
      BY <1>4, <3>1 DEF DecentNext
    <3>2. CASE job'[w].op \in Bumps
      <4>1. Exists(job[w].admin) /\ job[w].admin \in Admins
        BY <1>1, <1>2, <3>2, JobShapes DEF RowsStay
      <4> QED
        BY <1>2, <3>2, <4>1 DEF RowsKept, Exists
    <3> QED
      BY <1>1, <2>1, <3>1, <3>2, JobShapes
  <2> QED
    BY <2>1, <1>5 DEF RowsStay, Exists, DecentNext
<1>7. VersionsLeft'
  BY <1>2 DEF VersionsLeft
<1>8. VersionsInOrder'
  <2> SUFFICES ASSUME "bump" \notin raced
               PROVE  VersionsInOrder'
    BY DEF VersionsInOrder
  <2>1. \A v, w \in Workers : job'[v].op \in Bumps /\ job'[w].op \in Bumps /\ job'[v].admin = job'[w].admin => v = w
    BY <1>2 DEF VersionsInOrder
  <2>2. ASSUME NEW w \in Workers, job'[w].op \in Bumps
        PROVE  job'[w].tv = row'[job'[w].admin].tv
    <3>1. job[w].admin \in Admins /\ Exists(job[w].admin)
      BY <1>1, <1>2, <2>2, JobShapes DEF RowsStay
    <3> QED
      BY <1>2, <2>2, <3>1 DEF VersionsInOrder, RowsKept
  <2> QED
    BY <1>4, <1>5, <2>1, <2>2 DEF VersionsInOrder, Behind, DecentNext
<1>9. OneStays'
  <2> SUFFICES ASSUME "removal" \notin raced
               PROVE  OneStays'
    BY DEF OneStays
  <2>1. \A w \in Workers : job'[w].op = "deactivate" => job'[w] = job[w]
    BY <1>2 DEF Bumps
  <2>2. \A b \in Supers : Exists(b) /\ row[b].active => Exists(b)' /\ row'[b].active
    BY SupersAssumption DEF RowsKept
  <2> QED
    BY <2>1, <2>2 DEF OneStays
<1>10. SuperLeft'
  BY SupersAssumption DEF SuperLeft, RowsKept
<1> QED
  BY <1>6, <1>7, <1>8, <1>9, <1>10

Below(r) == r.count <= MaxAttempts /\ (r.count = MaxAttempts => r.lock # "no")

\* The same for a login that writes its row and goes on to its next step: a
\* reset in progress is not of this admin, unless logins have overlapped it.
LEMMA LoginStep ==
  ASSUME AdminInv, NEW a \in Admins, NEW r \in Rows, Exists(a), row' = [row EXCEPT ![a] = r],
         r.tv = row[a].tv, r.active = row[a].active,
         NEW w \in Workers, job[w].op \in {"verify", "renew"}, job[w].admin = a,
         NEW j \in Jobs, Set(w, j), Harmless(j), UNCHANGED <<sess, raced>>, j.op # "renew", j.op = "verify" => j.admin = a,
         "renewal" \notin raced => Below(r) /\ (j.op = "verify" => j.count < MaxAttempts)
  PROVE  AdminInv'
<1> USE DEF AdminInv
<1>1. row' \in [Admins -> Rows \union {NoAdmin}] /\ row'[a] = r /\ Exists(a)'
      /\ \A b \in Admins : b # a => row'[b] = row[b]
  BY RowSet
<1>2. job' \in [Workers -> Jobs] /\ job'[w] = j /\ \A v \in Workers : v # w => job'[v] = job[v]
  BY Sets
<1>3. Shapes'
  BY <1>1, <1>2 DEF Shapes
<1>4. RowsKept
  BY <1>1 DEF RowsKept, Exists
<1>5. AttemptsLeft'
  BY <1>1, <1>2 DEF AttemptsLeft, Below, Exists
<1>6. RenewalsAlone'
  <2> SUFFICES ASSUME "renewal" \notin raced, NEW v \in Workers, job'[v].op = "renew"
               PROVE  /\ row'[job'[v].admin].lock = "over" /\ row'[job'[v].admin].count = job'[v].count
                      /\ \A u \in Workers : job'[u].op \in {"verify", "renew"} /\ job'[u].admin = job'[v].admin
                           => u = v
    BY DEF RenewalsAlone
  <2>1. v # w /\ job'[v] = job[v] /\ job[v] # Idle
    BY <1>2 DEF Idle
  <2>2. job[v].admin # a /\ job[v].admin \in Admins
    BY <2>1, JobShapes DEF RenewalsAlone, Shapes
  <2>3. \A u \in Workers : u # w => job'[u] = job[u]
    BY <1>2
  <2>4. j.op \in {"verify", "renew"} => j.admin = a
    OBVIOUS
  <2> QED
    BY <1>1, <1>2, <2>1, <2>2, <2>3, <2>4 DEF RenewalsAlone
<1> QED
  BY <1>2, <1>3, <1>4, <1>5, <1>6, QuietStep

LEMMA LoginReadsInv ==
  ASSUME AdminInv, NEW w \in Workers, NEW a \in Admins, LoginReads(w, a)
  PROVE  AdminInv'
<1> USE LimitsAssumption DEF AdminInv
<1> DEFINE r == row[a]
           verify == [op |-> "verify", admin |-> a, count |-> r.count, tv |-> r.tv, ended |-> FALSE]
           renew == [op |-> "renew", admin |-> a, count |-> r.count, tv |-> r.tv,
                     active |-> r.active, ended |-> FALSE]
           j == job'[w]
<1>1. job[w] = Idle /\ Exists(a) /\ r \in Rows /\ UNCHANGED <<row, sess>>
  BY RowShapes DEF LoginReads
<1>2. verify \in Jobs /\ renew \in Jobs /\ verify # Idle /\ renew # Idle
  BY <1>1 DEF Rows, Jobs, Idle
<1>3. /\ job' \in [Workers -> Jobs] /\ j \in {verify, renew}
      /\ \A v \in Workers : v # w => job'[v] = job[v]
      /\ j = verify => r.lock = "no" /\ raced' = raced
      /\ j = renew => r.lock = "over" /\ raced' = raced \union {"renewal" : v \in Others({"verify", "renew"}, a)}
  <2>1. CASE Set(w, verify) /\ r.lock = "no" /\ raced' = raced
    BY <1>2, <2>1, Sets
  <2>2. CASE Set(w, renew) /\ r.lock = "over"
             /\ raced' = raced \union {"renewal" : v \in Others({"verify", "renew"}, a)}
    BY <1>2, <2>2, Sets
  <2> QED
    BY <2>1, <2>2 DEF LoginReads
<1>4. /\ raced' \in {raced, raced \union {"renewal"}}
      /\ j = renew /\ "renewal" \notin raced' => Others({"verify", "renew"}, a) = {}
  BY <1>3
<1>5. j.op \in {"verify", "renew"} /\ j.admin = a /\ j.count = r.count /\ j.tv = r.tv /\ ~j.ended
      /\ (j = renew <=> j.op = "renew") /\ (j = verify <=> j.op = "verify")
  BY <1>3
<1> HIDE DEF verify, renew, j
<1>6. Shapes'
  BY <1>1, <1>3, <1>4 DEF Shapes
<1>7. Harmless(j)
  BY <1>1, <1>5 DEF Harmless, Decent, Behind, Rows
<1>8. RowsKept
  BY <1>1 DEF RowsKept, Exists
<1>9. AttemptsLeft'
  <2> SUFFICES ASSUME "renewal" \notin raced'
               PROVE  AttemptsLeft'
    BY DEF AttemptsLeft
  <2>1. "renewal" \notin raced
    BY <1>4
  <2>2. j.op = "verify" => j.count < MaxAttempts
    BY <1>1, <1>3, <1>5, <2>1 DEF AttemptsLeft, Rows
  <2> QED
    BY <1>1, <1>3, <2>1, <2>2 DEF AttemptsLeft, Exists, j
<1>10. RenewalsAlone'
  <2> SUFFICES ASSUME "renewal" \notin raced', NEW v \in Workers, job'[v].op = "renew"
               PROVE  /\ row[job'[v].admin].lock = "over" /\ row[job'[v].admin].count = job'[v].count
                      /\ \A u \in Workers : job'[u].op \in {"verify", "renew"} /\ job'[u].admin = job'[v].admin
                           => u = v
    BY <1>1 DEF RenewalsAlone
  <2>1. "renewal" \notin raced
    BY <1>4
  <2>2. CASE v = w
    <3>1. j.op = "renew" /\ r.lock = "over" /\ Others({"verify", "renew"}, a) = {}
      BY <1>3, <1>4, <1>5, <2>2 DEF j
    <3>2. \A u \in Workers : u # w /\ job'[u].op \in {"verify", "renew"} => job'[u].admin # a
      BY <1>3, <3>1 DEF Others
    <3> QED
      BY <1>5, <2>2, <3>1, <3>2 DEF j
  <2>3. CASE v # w
    <3>1. job'[v] = job[v]
      BY <1>3, <2>3
    <3>2. j.admin # job[v].admin
      <4>1. CASE j = verify
        BY <1>3, <1>5, <2>1, <3>1, <4>1 DEF RenewalsAlone
      <4>2. CASE j = renew
        BY <1>4, <1>5, <3>1, <4>2 DEF Others
      <4> QED
        BY <1>3, <4>1, <4>2
    <3> QED
      BY <1>3, <2>1, <3>1, <3>2 DEF RenewalsAlone, j
  <2> QED
    BY <2>2, <2>3
<1> HIDE DEF AdminInv
<1> QED
  BY <1>1, <1>3, <1>4, <1>6, <1>7, <1>8, <1>9, <1>10, QuietStep DEF j

LEMMA RenewInv ==
  ASSUME AdminInv, NEW w \in Workers, Renew(w)
  PROVE  AdminInv'
<1> USE LimitsAssumption DEF AdminInv
<1> DEFINE o == job[w]
           a == o.admin
           g == [row[a] EXCEPT !.lock = "no"]
           r == [g EXCEPT !.count = IF o.count # 0 THEN 0 ELSE @]
           n == [op |-> "verify", admin |-> a, count |-> 0, tv |-> o.tv, ended |-> o.ended]
           j == IF o.active THEN n ELSE Idle
<1>1. o.op = "renew" /\ o \in Jobs /\ o # Idle /\ Set(w, j) /\ UNCHANGED <<sess, raced>>
  BY DEF Renew, Shapes, Idle
<1>2. a \in Admins /\ Exists(a) /\ row[a] \in Rows /\ o \in Renews
  BY <1>1, JobShapes, RowShapes DEF RowsStay
<1>3. row' = [row EXCEPT ![a] = r]
  BY Zenon DEF Renew, Renewed
<1>4. g \in Rows /\ g.tv = row[a].tv /\ g.active = row[a].active /\ g.count = row[a].count
  BY <1>2 DEF Rows
<1>5. r \in Rows /\ r.tv = row[a].tv /\ r.active = row[a].active
      /\ r.count = IF o.count # 0 THEN 0 ELSE row[a].count
  <2> HIDE DEF g
  <2> QED
    BY <1>4 DEF Rows
<1>6. "renewal" \notin raced => r.count = 0
  BY <1>1, <1>5 DEF RenewalsAlone
<1>7. n \in Verifies /\ n \in Jobs /\ Idle \in Jobs
  <2>1. n \in Verifies
    BY <1>2 DEF Renews, Verifies
  <2> QED
    BY <2>1 DEF Verifies, Jobs
<1>8. Decent(o)
  BY <1>1, Decents
<1>9. Harmless(j)
  BY <1>8 DEF Harmless, Decent, Behind
<1>10. j \in Jobs /\ j.op # "renew" /\ (j.op = "verify" => j.count = 0 /\ j.admin = a)
  BY <1>7 DEF Idle
<1>11. "renewal" \notin raced => Below(r) /\ (j.op = "verify" => j.count < MaxAttempts)
  <2> HIDE DEF r, j
  <2> QED
    BY <1>6, <1>10 DEF Below
<1> HIDE DEF r, j, AdminInv
<1> QED
  BY <1>1, <1>2, <1>3, <1>5, <1>9, <1>10, <1>11, LoginStep

LEMMA WrongInv ==
  ASSUME AdminInv, NEW w \in Workers, Wrong(w)
  PROVE  AdminInv'
<1> USE LimitsAssumption DEF AdminInv
<1> DEFINE a == job[w].admin
           r == Failed(row[a], job[w].count + 1)
<1>1. job[w].op = "verify" /\ job[w] \in Jobs /\ job[w] # Idle /\ Set(w, Idle)
      /\ row' = [row EXCEPT ![a] = r] /\ UNCHANGED <<sess, raced>>
  BY DEF Wrong, Shapes, Idle
<1>2. a \in Admins /\ Exists(a) /\ row[a] \in Rows /\ job[w].count \in Nat
  BY <1>1, JobShapes, RowShapes DEF RowsStay, Verifies
<1>3. r \in Rows /\ r.tv = row[a].tv /\ r.active = row[a].active /\ r.count = job[w].count + 1
      /\ r.lock = IF job[w].count + 1 >= MaxAttempts THEN "on" ELSE row[a].lock
  <2>1. job[w].count + 1 \in Nat
    BY <1>2
  <2> QED
    BY <1>2, <2>1 DEF Failed, Rows
<1>4. "renewal" \notin raced => Below(r)
  <2>1. "renewal" \notin raced => job[w].count < MaxAttempts
    BY <1>1 DEF AttemptsLeft
  <2> HIDE DEF r, AdminInv
  <2>2. job[w].count < MaxAttempts => r.count <= MaxAttempts
    BY <1>2, <1>3
  <2>3. r.count = MaxAttempts => r.lock = "on"
    BY <1>2, <1>3
  <2> QED
    BY <2>1, <2>2, <2>3 DEF Below
<1>5. Idle \in Jobs /\ Harmless(Idle) /\ Idle.op \notin {"verify", "renew"}
  BY DEF Jobs, Harmless, Idle
<1> HIDE DEF r, AdminInv
<1> QED
  BY <1>1, <1>2, <1>3, <1>4, <1>5, LoginStep

LEMMA RightInv ==
  ASSUME AdminInv, NEW w \in Workers, Right(w)
  PROVE  AdminInv'
<1> USE LimitsAssumption DEF AdminInv
<1> DEFINE o == job[w]
           a == o.admin
           r == [row[a] EXCEPT !.count = IF o.count # 0 THEN 0 ELSE @]
           j == [op |-> "enter", admin |-> a, tv |-> o.tv, ended |-> o.ended]
<1>1. o.op = "verify" /\ o \in Jobs /\ o # Idle /\ Set(w, j) /\ UNCHANGED <<sess, raced>>
  BY DEF Right, Shapes, Idle
<1>2. a \in Admins /\ Exists(a) /\ row[a] \in Rows /\ o \in Verifies
  BY <1>1, JobShapes, RowShapes DEF RowsStay
<1>3. row' = [row EXCEPT ![a] = r]
  BY DEF Right
<1>4. r \in Rows /\ r.tv = row[a].tv /\ r.active = row[a].active /\ r.lock = row[a].lock
      /\ r.count \in {0, row[a].count}
  BY <1>2 DEF Rows
<1>5. "renewal" \notin raced => Below(r)
  <2>1. "renewal" \notin raced => Below(row[a])
    BY <1>2 DEF AttemptsLeft, Below
  <2> HIDE DEF r
  <2>2. r.count = 0 => Below(r)
    BY DEF Below
  <2>3. r.count = row[a].count /\ Below(row[a]) => Below(r)
    BY <1>4 DEF Below
  <2> QED
    BY <1>4, <2>1, <2>2, <2>3
<1>6. j \in Jobs /\ j.op = "enter"
  <2>1. j \in Enters
    BY <1>2 DEF Verifies, Enters
  <2> QED
    BY <2>1 DEF Jobs, Enters
<1>7. Decent(o)
  BY <1>1, Decents
<1>8. Harmless(j)
  BY <1>7 DEF Harmless, Decent, Behind
<1> HIDE DEF r, j, AdminInv
<1> QED
  BY <1>1, <1>2, <1>3, <1>4, <1>5, <1>6, <1>8, LoginStep

LEMMA EnterInv ==
  ASSUME AdminInv, NEW w \in Workers, NEW i \in Sids, Enter(w, i)
  PROVE  AdminInv'
<1> USE DEF AdminInv
<1> DEFINE o == job[w]
           s == [admin |-> o.admin, tv |-> o.tv, live |-> TRUE, ended |-> o.ended]
<1>1. o.op = "enter" /\ o \in Jobs /\ o # Idle /\ Set(w, Idle) /\ sess' = [sess EXCEPT ![i] = s]
      /\ UNCHANGED <<row, raced>> /\ Idle \in Jobs
  BY DEF Enter, Shapes, Idle, Jobs
<1>2. o \in Enters /\ Decent(o)
  BY <1>1, JobShapes, Decents
<1>3. s \in Sessions /\ Decent(s)
  BY <1>2 DEF Enters, Sessions, Decent, Behind
<1>4. job' \in [Workers -> Jobs] /\ job'[w] = Idle /\ \A v \in Workers : v # w => job'[v] = job[v]
  BY <1>1, Sets
<1>5. sess' \in [Sids -> Sessions \union {NoSession}] /\ sess'[i] = s /\ \A k \in Sids : k # i => sess'[k] = sess[k]
  BY <1>1, <1>3 DEF Shapes
<1>6. Shapes'
  BY <1>1, <1>4, <1>5 DEF Shapes
<1>7. RowsKept /\ AttemptsLeft' /\ RenewalsAlone'
  BY <1>1, <1>4 DEF RowsKept, Exists, AttemptsLeft, RenewalsAlone, Idle
<1>8. o.admin \in Admins /\ Exists(o.admin)
  BY <1>2 DEF Enters, Decent
<1> QED
  BY <1>1, <1>3, <1>4, <1>5, <1>6, <1>7, <1>8, QuietStep DEF Harmless

LEMMA FailsInv ==
  ASSUME AdminInv, NEW w \in Workers, Fails(w)
  PROVE  AdminInv'
<1> USE DEF AdminInv
<1>1. job[w] # Idle /\ job[w] \in Jobs /\ Set(w, Idle) /\ UNCHANGED <<row, sess, raced>> /\ Idle \in Jobs
  BY DEF Fails, Shapes, Jobs
<1>2. job' \in [Workers -> Jobs] /\ job'[w] = Idle /\ \A v \in Workers : v # w => job'[v] = job[v]
  BY <1>1, Sets
<1>3. Shapes'
  BY <1>1, <1>2 DEF Shapes
<1>4. RowsKept /\ AttemptsLeft' /\ RenewalsAlone'
  BY <1>1, <1>2 DEF RowsKept, Exists, AttemptsLeft, RenewalsAlone, Idle
<1>5. job[w].admin \in Admins /\ Exists(job[w].admin)
  BY <1>1, JobShapes DEF RowsStay
<1> QED
  BY <1>1, <1>2, <1>3, <1>4, <1>5, QuietStep DEF Harmless

LEMMA LockExpiresInv ==
  ASSUME AdminInv, NEW a \in Admins, LockExpires(a)
  PROVE  AdminInv'
<1> USE DEF AdminInv
<1> DEFINE r == [row[a] EXCEPT !.lock = "over"]
<1>1. Exists(a) /\ row[a] \in Rows /\ row[a].lock = "on" /\ row' = [row EXCEPT ![a] = r] /\ UNCHANGED <<sess, job, raced>>
  BY RowShapes DEF LockExpires
<1>2. r \in Rows /\ r.tv = row[a].tv /\ r.active = row[a].active /\ r.lock = "over" /\ r.count = row[a].count
  BY <1>1 DEF Rows
<1>3. row' \in [Admins -> Rows \union {NoAdmin}] /\ row'[a] = r /\ Exists(a)'
      /\ \A b \in Admins : b # a => row'[b] = row[b]
  BY <1>1, <1>2, RowSet
<1>4. Shapes'
  BY <1>1, <1>3 DEF Shapes
<1>5. RowsKept /\ AttemptsLeft'
  BY <1>1, <1>2, <1>3 DEF RowsKept, Exists, AttemptsLeft
<1>6. RenewalsAlone'
  <2>1. \A w \in Workers : job[w].op = "renew" => job[w] # Idle /\ job[w].admin \in Admins
    BY JobShapes DEF Shapes, Idle
  <2>2. "renewal" \notin raced => \A w \in Workers : job[w].op = "renew" => job[w].admin # a
    BY <1>1 DEF RenewalsAlone
  <2> QED
    BY <1>1, <1>3, <2>1, <2>2 DEF RenewalsAlone
<1> QED
  BY <1>1, <1>4, <1>5, <1>6, QuietStep

(***************************************************************************)
(* Sessions that end, accounts that begin.                                 *)
(***************************************************************************)
LEMMA SessionEndsInv ==
  ASSUME AdminInv, NEW i \in Sids, EndSession(i) \/ CookieExpires(i)
  PROVE  AdminInv'
<1> USE DEF AdminInv
<1> DEFINE s == [sess[i] EXCEPT !.live = FALSE]
<1>1. sess[i] # NoSession /\ sess[i] \in Sessions /\ sess[i].admin \in Admins /\ UNCHANGED <<row, job, raced>>
  BY SessionShapes DEF EndSession, CookieExpires
<1>2. s \in Sessions /\ Decent(s)
  BY <1>1, Decents DEF Sessions, Decent, Behind
<1>3. /\ sess' \in [Sids -> Sessions \union {NoSession}] /\ sess'[i] \in {s, NoSession}
      /\ \A k \in Sids : k # i => sess'[k] = sess[k]
  BY <1>2 DEF EndSession, CookieExpires, Shapes
<1>4. Shapes'
  BY <1>1, <1>3 DEF Shapes
<1>5. RowsKept /\ AttemptsLeft' /\ RenewalsAlone'
  BY <1>1 DEF RowsKept, Exists, AttemptsLeft, RenewalsAlone
<1>6. Exists(sess[i].admin)
  BY <1>1 DEF RowsStay
<1> QED
  BY <1>1, <1>2, <1>3, <1>4, <1>5, <1>6, QuietStep

LEMMA ArrivesInv ==
  ASSUME AdminInv, NEW a \in Admins, NEW must \in BOOLEAN, ~Exists(a),
         row' = [row EXCEPT ![a] = NewRow(must)], UNCHANGED <<sess, job, raced>>,
         a \in Supers \/ \E b \in Admins : Exists(b)
  PROVE  AdminInv'
<1> USE LimitsAssumption DEF AdminInv
<1> DEFINE r == NewRow(must)
<1>1. r \in Rows /\ r.count = 0 /\ r.active
  BY DEF NewRow, Rows
<1>2. row' \in [Admins -> Rows \union {NoAdmin}] /\ row'[a] = r /\ Exists(a)'
      /\ \A b \in Admins : b # a => row'[b] = row[b]
  BY <1>1, RowSet
<1>3. Shapes'
  BY <1>2 DEF Shapes
<1>4. RowsKept /\ AttemptsLeft'
  BY <1>1, <1>2 DEF RowsKept, Exists, AttemptsLeft
<1>6. RenewalsAlone'
  <2>1. \A w \in Workers : job[w].op = "renew" => job[w].admin \in Admins /\ job[w].admin # a
    BY JobShapes DEF Shapes, RowsStay, Idle
  <2> QED
    BY <1>2, <2>1 DEF RenewalsAlone
<1>5. a \in Supers => SuperLeft'
  BY <1>1, <1>2 DEF SuperLeft
<1> QED
  BY <1>3, <1>4, <1>5, <1>6, QuietStep

(***************************************************************************)
(* The operations that bump the version.                                   *)
(***************************************************************************)
\* One begins: if it races with another, raced says so.
LEMMA ReadsInv ==
  ASSUME AdminInv, NEW w \in Workers, NEW op \in Bumps, NEW a \in Admins, Reads(w, op, a),
         op = "deactivate" => \E b \in Supers : b # a /\ Exists(b) /\ row[b].active
  PROVE  AdminInv'
<1> USE LimitsAssumption DEF AdminInv
<1> DEFINE j == [op |-> op, admin |-> a, must |-> row[a].must, tv |-> row[a].tv]
<1>1. job[w] = Idle /\ Exists(a) /\ row[a] \in Rows /\ row[a].tv < MaxVersion /\ Set(w, j)
      /\ UNCHANGED <<row, sess>>
  BY RowShapes DEF Reads
<1>2. j \in BumpJobs /\ j \in Jobs
  BY <1>1 DEF BumpJobs, Jobs, Rows
<1>3. job' \in [Workers -> Jobs] /\ job'[w] = j /\ \A v \in Workers : v # w => job'[v] = job[v]
  BY <1>1, <1>2, Sets
<1>4. /\ raced' \subseteq {"bump", "removal", "renewal"}
      /\ "renewal" \notin raced' => "renewal" \notin raced
      /\ "bump" \notin raced' => "bump" \notin raced /\ Others(Bumps, a) = {}
      /\ "removal" \notin raced' => "removal" \notin raced
      /\ "removal" \notin raced' /\ op = "deactivate" => \A u \in Workers : job[u].op # "deactivate"
  <2> DEFINE B == {"bump" : v \in Others(Bumps, a)}
             R == {"removal" : v \in {u \in Workers : op = "deactivate" /\ job[u].op = op}}
  <2>1. raced' = (raced \union B) \union R
    BY DEF Reads
  <2>2. B \subseteq {"bump"} /\ (Others(Bumps, a) # {} => "bump" \in B)
    OBVIOUS
  <2>3. R \subseteq {"removal"}
        /\ \A u \in Workers : op = "deactivate" /\ job[u].op = "deactivate" => "removal" \in R
    OBVIOUS
  <2> HIDE DEF B, R
  <2>4. raced \subseteq {"bump", "removal", "renewal"}
    BY DEF Shapes
  <2> QED
    BY <2>1, <2>2, <2>3, <2>4
<1>5. j.op = op /\ j.op \notin {"verify", "renew", "enter"} /\ j # Idle
  BY DEF Bumps, Idle
<1>6. Shapes'
  BY <1>1, <1>3, <1>4 DEF Shapes
<1>7. RowsStay'
  BY <1>1, <1>3 DEF RowsStay, Exists
<1>8. AttemptsLeft' /\ RenewalsAlone' /\ VersionsLeft'
  <2>1. \A v \in Workers : job'[v].op \in {"verify", "renew"} => job'[v] = job[v] /\ v # w
    BY <1>3, <1>5
  <2>2. AttemptsLeft'
    BY <1>1, <1>4, <2>1 DEF AttemptsLeft, Exists
  <2>3. RenewalsAlone'
    BY <1>1, <1>4, <2>1 DEF RenewalsAlone
  <2>4. VersionsLeft'
    BY <1>1, <1>3 DEF VersionsLeft
  <2> QED
    BY <2>2, <2>3, <2>4
<1>9. VersionsInOrder'
  <2> SUFFICES ASSUME "bump" \notin raced'
               PROVE  VersionsInOrder'
    BY DEF VersionsInOrder
  <2>1. \A v \in Workers : job[v].op \in Bumps => job[v].admin # a
    BY <1>4 DEF Others
  <2>2. \A v, u \in Workers : job'[v].op \in Bumps /\ job'[u].op \in Bumps /\ job'[v].admin = job'[u].admin => v = u
    BY <1>3, <1>4, <2>1 DEF VersionsInOrder
  <2>3. \A v \in Workers : job'[v].op \in Bumps => job'[v].tv = row'[job'[v].admin].tv
    BY <1>1, <1>3, <1>4 DEF VersionsInOrder
  <2>4. \A v \in Workers : job'[v].op \in {"verify", "renew", "enter"} => job'[v] = job[v]
    BY <1>3, <1>5
  <2> QED
    BY <1>1, <1>4, <2>2, <2>3, <2>4 DEF VersionsInOrder, Behind
<1>10. OneStays'
  <2> SUFFICES ASSUME "removal" \notin raced'
               PROVE  OneStays'
    BY DEF OneStays
  <2>1. \A v, u \in Workers : job'[v].op = "deactivate" /\ job'[u].op = "deactivate" => v = u
    BY <1>3, <1>4, <1>5 DEF OneStays
  <2>2. \A v \in Workers : job'[v].op = "deactivate" =>
          \E b \in Supers : b # job'[v].admin /\ Exists(b) /\ row[b].active
    BY <1>3, <1>4, <1>5 DEF OneStays
  <2> QED
    BY <1>1, <2>1, <2>2 DEF OneStays, Exists
<1>11. SuperLeft'
  BY <1>1, <1>4 DEF SuperLeft, Exists
<1> QED
  BY <1>6, <1>7, <1>8, <1>9, <1>10, <1>11

\* The form's count of active superadmins leaves one beside the one who is
\* to be deactivated.
LEMMA AnotherSuper ==
  ASSUME AdminInv, NEW a \in Admins, NEW i \in Sids, ActsAsSuper(i),
         a \in Supers => Cardinality(ActiveSupers) > 1
  PROVE  \E b \in Supers : b # a /\ Exists(b) /\ row[b].active
<1> USE DEF AdminInv
<1>1. CASE a \in Supers
  <2> SUFFICES ASSUME ActiveSupers \subseteq {a}
               PROVE  FALSE
    BY DEF ActiveSupers
  <2>1. IsFiniteSet({a}) /\ Cardinality({a}) = 1
    BY FS_Singleton
  <2>2. Cardinality(ActiveSupers) <= 1
    BY <2>1, FS_Subset
  <2>3. IsFiniteSet(ActiveSupers)
    BY <2>1, FS_Subset
  <2>4. Cardinality(ActiveSupers) \in Nat
    BY <2>3, FS_CardinalityType
  <2> QED
    BY <1>1, <2>2, <2>4
<1>2. CASE a \notin Supers
  BY <1>2 DEF ActsAsSuper, Accepted, RowsStay
<1> QED
  BY <1>1, <1>2

LEMMA AccountInv ==
  ASSUME AdminInv, NEW w \in Workers, NEW i \in Sids, NEW a \in Admins,
         Deactivate(w, i, a) \/ Reset(w, i, a) \/ ForceLogout(w, i, a)
  PROVE  AdminInv'
<1> USE DEF AdminInv, Bumps
<1>1. CASE Deactivate(w, i, a)
  <2>1. \E b \in Supers : b # a /\ Exists(b) /\ row[b].active
    BY <1>1, AnotherSuper DEF Deactivate
  <2> QED
    BY <1>1, <2>1, ReadsInv DEF Deactivate
<1>2. CASE Reset(w, i, a)
  BY <1>2, ReadsInv DEF Reset
<1>3. CASE ForceLogout(w, i, a)
  BY <1>3, ReadsInv DEF ForceLogout
<1> QED
  BY <1>1, <1>2, <1>3

LEMMA ChangeInv ==
  ASSUME AdminInv, NEW w \in Workers, NEW i \in Sids, ChangePassword(w, i)
  PROVE  AdminInv'
<1>1. sess[i].admin \in Admins /\ Reads(w, "change", sess[i].admin)
  BY SessionShapes DEF AdminInv, ChangePassword, Accepted
<1>2. "change" \in Bumps /\ "change" # "deactivate"
  BY DEF Bumps
<1> QED
  BY <1>1, <1>2, ReadsInv

\* The row a bump writes.
LEMMA BumpedRow ==
  ASSUME AdminInv, NEW w \in Workers, job[w].op \in Bumps
  PROVE  LET a == job[w].admin
             r == [Assigned(job[w].op, row[a], job[w].must) EXCEPT !.tv = job[w].tv + 1]
         IN  /\ r \in Rows /\ r.tv = job[w].tv + 1 /\ r.count = row[a].count /\ r.lock = row[a].lock
             /\ job[w].op # "deactivate" => r.active = row[a].active
<1> USE LimitsAssumption DEF AdminInv
<1> DEFINE o == job[w]
           a == o.admin
           f == Assigned(o.op, row[a], o.must)
<1>1. o \in BumpJobs /\ a \in Admins /\ row[a] \in Rows /\ o.tv + 1 \in 0..MaxVersion
  <2>1. o \in Jobs /\ o # Idle
    BY DEF Shapes, Idle, Bumps
  <2>2. o \in BumpJobs /\ a \in Admins
    BY <2>1, JobShapes
  <2>3. row[a] \in Rows
    BY <2>1, <2>2, RowShapes DEF RowsStay
  <2> QED
    BY <2>2, <2>3 DEF VersionsLeft, BumpJobs
<1>2. /\ f \in Rows /\ f.count = row[a].count /\ f.lock = row[a].lock
      /\ o.op # "deactivate" => f.active = row[a].active
  <2>1. (IF o.must THEN row[a].must ELSE TRUE) \in BOOLEAN /\ (IF o.must THEN FALSE ELSE row[a].must) \in BOOLEAN
    BY <1>1 DEF Rows
  <2>2. CASE o.op = "deactivate"
    BY <1>1, <2>2 DEF Rows, Assigned
  <2>3. CASE o.op = "logout"
    BY <1>1, <2>3 DEF Assigned
  <2>4. CASE o.op = "reset"
    BY <1>1, <2>1, <2>4 DEF Rows, Assigned
  <2>5. CASE o.op = "change"
    BY <1>1, <2>1, <2>5 DEF Rows, Assigned
  <2> QED
    BY <2>2, <2>3, <2>4, <2>5 DEF Bumps
<1> HIDE DEF f
<1>3. [f EXCEPT !.tv = o.tv + 1] \in Rows
  BY <1>1, <1>2 DEF Rows
<1> QED
  BY <1>1, <1>2, <1>3 DEF Rows, f

\* What a bump does to the others.
LEMMA BumpedJobs ==
  ASSUME AdminInv, NEW w \in Workers, Bump(w)
  PROVE  LET a == job[w].admin
             n == [op |-> "enter", admin |-> a, tv |-> job[w].tv + 1, ended |-> FALSE]
         IN  /\ job' \in [Workers -> Jobs]
             /\ job'[w] \in {n, Idle} /\ n \in Jobs
             /\ \A v \in Workers : v # w =>
                  /\ job'[v].op = job[v].op
                  /\ job[v] # Idle => job'[v].admin = job[v].admin /\ job'[v].tv = job[v].tv
                  /\ job[v].op \in {"verify", "renew"} => job'[v].count = job[v].count
                  /\ (job[v].op \in {"verify", "renew", "enter"} /\ job[v].admin = a) \/ job'[v] = job[v]
<1> USE LimitsAssumption DEF AdminInv
<1> DEFINE o == job[w]
           a == o.admin
           n == [op |-> "enter", admin |-> a, tv |-> o.tv + 1, ended |-> FALSE]
<1>1. o.op \in Bumps /\ o \in Jobs /\ o # Idle
  <2>1. o.op \in Bumps
    BY DEF Bump
  <2> QED
    BY <2>1 DEF Shapes, Idle, Bumps
<1>2. n \in Jobs
  BY <1>1, JobShapes DEF VersionsLeft, Jobs
<1>3. Idle \in Jobs
  BY DEF Jobs
<1>4. job'[w] \in {n, Idle}
  BY DEF Bump
<1>5. ASSUME NEW v \in Workers, v # w
      PROVE  /\ job'[v] \in Jobs
             /\ job'[v].op = job[v].op
             /\ job[v] # Idle => job'[v].admin = job[v].admin /\ job'[v].tv = job[v].tv
             /\ job[v].op \in {"verify", "renew"} => job'[v].count = job[v].count
             /\ (job[v].op \in {"verify", "renew", "enter"} /\ job[v].admin = a) \/ job'[v] = job[v]
  <2>1. job[v] \in Jobs
    BY DEF Shapes
  <2>2. job'[v] = IF job[v].op \in {"verify", "renew", "enter"} /\ job[v].admin = a
                    THEN [job[v] EXCEPT !.ended = TRUE] ELSE job[v]
    BY <1>5 DEF Bump, Others
  <2>3. CASE job[v].op = "verify" /\ job[v].admin = a
    <3>1. job[v] \in Verifies
      BY <2>1, <2>3, JobShapes
    <3>2. job'[v] \in Verifies
      BY <2>2, <2>3, <3>1 DEF Verifies
    <3>3. job'[v] \in Jobs
      BY <3>2 DEF Verifies, Jobs
    <3> QED
      BY <2>2, <2>3, <3>1, <3>3 DEF Verifies
  <2>4. CASE job[v].op = "enter" /\ job[v].admin = a
    <3>1. job[v] \in Enters
      BY <2>1, <2>4, JobShapes
    <3>2. job'[v] \in Enters
      BY <2>2, <2>4, <3>1 DEF Enters
    <3>3. job'[v] \in Jobs
      BY <3>2 DEF Enters, Jobs
    <3> QED
      BY <2>2, <2>4, <3>1, <3>3 DEF Enters
  <2>6. CASE job[v].op = "renew" /\ job[v].admin = a
    <3>1. job[v] \in Renews
      BY <2>1, <2>6, JobShapes
    <3>2. job'[v] \in Renews
      BY <2>2, <2>6, <3>1 DEF Renews
    <3>3. job'[v] \in Jobs
      BY <3>2 DEF Renews, Jobs
    <3> QED
      BY <2>2, <2>6, <3>1, <3>3 DEF Renews
  <2>5. CASE ~(job[v].op \in {"verify", "renew", "enter"} /\ job[v].admin = a)
    BY <2>1, <2>2, <2>5
  <2> QED
    BY <2>3, <2>4, <2>5, <2>6
<1>6. job' \in [Workers -> Jobs]
  <2>1. \A v \in Workers : job'[v] \in Jobs
    BY <1>2, <1>3, <1>4, <1>5
  <2> QED
    BY <2>1 DEF Bump
<1> QED
  BY <1>2, <1>4, <1>5, <1>6

LEMMA BumpedSessions ==
  ASSUME AdminInv, NEW w \in Workers, Bump(w)
  PROVE  /\ sess' \in [Sids -> Sessions \union {NoSession}]
         /\ \A i \in Sids :
              /\ sess'[i] = NoSession <=> sess[i] = NoSession
              /\ sess[i] # NoSession => sess'[i].admin = sess[i].admin /\ sess'[i].tv = sess[i].tv
              /\ sess[i] # NoSession /\ sess[i].admin # job[w].admin => sess'[i] = sess[i]
<1> DEFINE a == job[w].admin
<1>1. ASSUME NEW i \in Sids
      PROVE  /\ sess'[i] \in Sessions \union {NoSession}
             /\ sess'[i] = NoSession <=> sess[i] = NoSession
             /\ sess[i] # NoSession => sess'[i].admin = sess[i].admin /\ sess'[i].tv = sess[i].tv
             /\ sess[i] # NoSession /\ sess[i].admin # a => sess'[i] = sess[i]
  <2> DEFINE g == [sess[i] EXCEPT !.live = FALSE]
             f == [g EXCEPT !.ended = TRUE]
  <2>1. sess'[i] = IF sess[i] # NoSession /\ sess[i].admin = a THEN f ELSE sess[i]
    BY Zenon DEF Bump
  <2>2. ASSUME sess[i] # NoSession
        PROVE  f \in Sessions /\ f.admin = sess[i].admin /\ f.tv = sess[i].tv
    <3>1. sess[i] \in Sessions
      BY <2>2, SessionShapes DEF AdminInv
    <3>2. g \in Sessions /\ g.admin = sess[i].admin /\ g.tv = sess[i].tv
      BY <3>1 DEF Sessions
    <3> HIDE DEF g
    <3> QED
      BY <3>2 DEF Sessions
  <2> HIDE DEF f
  <2>3. sess[i] \in Sessions \union {NoSession}
    BY DEF AdminInv, Shapes
  <2> QED
    BY <2>1, <2>2, <2>3, NoneAssumption
<1> HIDE DEF a
<1>2. sess' = [i \in Sids |-> sess'[i]]
  BY DEF Bump
<1> QED
  BY <1>1, <1>2 DEF a

\* A bump that overlaps none has the version of the row: it leaves behind
\* every login and every cookie that has read the one before.
LEMMA BumpInv ==
  ASSUME AdminInv, NEW w \in Workers, Bump(w)
  PROVE  AdminInv'
<1> USE LimitsAssumption DEF AdminInv
<1> DEFINE o == job[w]
           a == o.admin
           r == [Assigned(o.op, row[a], o.must) EXCEPT !.tv = o.tv + 1]
           n == [op |-> "enter", admin |-> a, tv |-> o.tv + 1, ended |-> FALSE]
<1>1. o.op \in Bumps
  BY DEF Bump
<1>2. o \in Jobs /\ o # Idle
  BY <1>1 DEF Shapes, Idle, Bumps
<1>3. a \in Admins /\ Exists(a) /\ row[a] \in Rows /\ o.tv \in Nat /\ row[a].tv \in Nat
  <2>1. a \in Admins /\ Exists(a) /\ o.tv \in Nat
    BY <1>2, JobShapes DEF RowsStay
  <2>2. row[a] \in Rows
    BY <2>1, RowShapes
  <2> QED
    BY <2>1, <2>2 DEF Rows
<1>4. row' = [row EXCEPT ![a] = r] /\ raced' = raced
  BY DEF Bump
<1>5. /\ r \in Rows /\ r.tv = o.tv + 1 /\ r.count = row[a].count /\ r.lock = row[a].lock
      /\ o.op # "deactivate" => r.active = row[a].active
  BY <1>1, BumpedRow
<1> HIDE DEF r
<1>6. /\ row' \in [Admins -> Rows \union {NoAdmin}] /\ row'[a] = r /\ row'[a] # NoAdmin
      /\ \A b \in Admins : b # a => row'[b] = row[b]
  BY <1>3, <1>4, <1>5, RowSet DEF Exists
<1>7. /\ job' \in [Workers -> Jobs] /\ job'[w] \in {n, Idle} /\ n \in Jobs
      /\ \A v \in Workers : v # w =>
           /\ job'[v].op = job[v].op
           /\ job[v] # Idle => job'[v].admin = job[v].admin /\ job'[v].tv = job[v].tv
           /\ job[v].op \in {"verify", "renew"} => job'[v].count = job[v].count
           /\ (job[v].op \in {"verify", "renew", "enter"} /\ job[v].admin = a) \/ job'[v] = job[v]
  BY BumpedJobs
<1>8. /\ sess' \in [Sids -> Sessions \union {NoSession}]
      /\ \A i \in Sids :
           /\ sess'[i] = NoSession <=> sess[i] = NoSession
           /\ sess[i] # NoSession => sess'[i].admin = sess[i].admin /\ sess'[i].tv = sess[i].tv
           /\ sess[i] # NoSession /\ sess[i].admin # a => sess'[i] = sess[i]
  BY BumpedSessions
<1>9. \/ job'[w] = Idle
      \/ job'[w].op = "enter" /\ job'[w].admin = a /\ job'[w].tv = o.tv + 1 /\ ~job'[w].ended
  <2>1. CASE job'[w] = n
    <3>1. n.op = "enter" /\ n.admin = a /\ n.tv = o.tv + 1 /\ ~n.ended
      OBVIOUS
    <3> HIDE DEF n
    <3> QED
      BY <2>1, <3>1
  <2> QED
    BY <1>7, <2>1
<1>10. job'[w].op \notin Bumps /\ job'[w].op # "verify"
  BY <1>9 DEF Idle, Bumps
<1>11. \A v \in Workers : job'[v].op \in Bumps => v # w /\ job'[v] = job[v] /\ job[v] # Idle
  <2>1. \A v \in Workers : job[v].op \in Bumps => job[v].op \notin {"verify", "renew", "enter"} /\ job[v] # Idle
    BY DEF Bumps, Idle
  <2> QED
    BY <1>7, <1>10, <2>1
<1>12. Shapes'
  BY <1>4, <1>6, <1>7, <1>8 DEF Shapes
<1>13. \A b \in Admins : Exists(b) => row'[b] # NoAdmin
  BY <1>6 DEF Exists
<1>14. RowsStay'
  <2>1. ASSUME NEW v \in Workers, job'[v] # Idle
        PROVE  row'[job'[v].admin] # NoAdmin
    <3>1. CASE v = w
      BY <1>6, <1>9, <2>1, <3>1 DEF Exists
    <3>2. CASE v # w
      <4>1. job[v] # Idle
        <5>1. job[v] = Idle => job'[v] = job[v]
          BY <1>7, <3>2 DEF Idle
        <5> QED
          BY <2>1, <5>1
      <4>2. job[v].admin \in Admins /\ Exists(job[v].admin)
        BY <4>1, JobShapes DEF Shapes, RowsStay
      <4> QED
        BY <1>7, <1>13, <3>2, <4>1, <4>2
    <3> QED
      BY <3>1, <3>2
  <2>2. ASSUME NEW i \in Sids, sess'[i] # NoSession
        PROVE  row'[sess'[i].admin] # NoAdmin
    BY <1>8, <1>13, <2>2, SessionShapes DEF RowsStay
  <2> QED
    BY <2>1, <2>2 DEF RowsStay, Exists
<1>15. AttemptsLeft' /\ RenewalsAlone' /\ VersionsLeft'
  <2>1. \A b \in Admins : Exists(b)' => row'[b].count = row[b].count /\ row'[b].lock = row[b].lock /\ Exists(b)
    BY <1>3, <1>5, <1>6 DEF Exists
  <2>2. \A v \in Workers : job'[v].op \in {"verify", "renew"} =>
          /\ job[v].op = job'[v].op /\ job'[v].admin = job[v].admin /\ job'[v].count = job[v].count
          /\ job[v].admin \in Admins /\ Exists(job[v].admin)
    <3> SUFFICES ASSUME NEW v \in Workers, job'[v].op \in {"verify", "renew"}
                 PROVE  /\ job[v].op = job'[v].op /\ job'[v].admin = job[v].admin /\ job'[v].count = job[v].count
                        /\ job[v].admin \in Admins /\ Exists(job[v].admin)
      OBVIOUS
    <3>1. v # w
      BY <1>7 DEF Idle
    <3>2. job[v].op \in {"verify", "renew"} /\ job[v] # Idle
      BY <1>7, <3>1 DEF Idle
    <3> QED
      BY <1>7, <3>1, <3>2, JobShapes DEF Shapes, RowsStay
  <2>3. AttemptsLeft'
    BY <1>4, <2>1, <2>2 DEF AttemptsLeft
  <2>4. RenewalsAlone'
    BY <1>4, <1>13, <2>1, <2>2 DEF RenewalsAlone, Exists
  <2>5. VersionsLeft'
    BY <1>11 DEF VersionsLeft
  <2> QED
    BY <2>3, <2>4, <2>5
<1>16. VersionsInOrder'
  <2> SUFFICES ASSUME "bump" \notin raced
               PROVE  VersionsInOrder'
    BY <1>4 DEF VersionsInOrder
  <2>1. o.tv = row[a].tv /\ row'[a].tv = o.tv + 1
    BY <1>1, <1>5, <1>6 DEF VersionsInOrder
  <2>2. \A v \in Workers : job'[v].op \in Bumps => job'[v].admin # a /\ job'[v].admin \in Admins
    <3>1. \A v \in Workers : job[v] # Idle => job[v].admin \in Admins
      BY JobShapes DEF Shapes
    <3> QED
      BY <1>1, <1>11, <3>1 DEF VersionsInOrder
  <2>3. \A u, v \in Workers : job'[u].op \in Bumps /\ job'[v].op \in Bumps /\ job'[u].admin = job'[v].admin => u = v
    BY <1>11 DEF VersionsInOrder
  <2>4. \A v \in Workers : job'[v].op \in Bumps => job'[v].tv = row'[job'[v].admin].tv
    BY <1>6, <1>11, <2>2 DEF VersionsInOrder
  <2>5. ASSUME NEW v \in Workers, job'[v].op \in {"verify", "renew", "enter"}
        PROVE  /\ job'[v].tv <= row'[job'[v].admin].tv
               /\ job'[v].ended => job'[v].tv < row'[job'[v].admin].tv
    <3>1. CASE v = w
      <4>1. job'[w] # Idle
        BY <2>5, <3>1 DEF Idle
      <4> QED
        BY <1>3, <1>9, <2>1, <3>1, <4>1
    <3>2. CASE v # w
      <4>1. job[v].op \in {"verify", "renew", "enter"} /\ job[v] # Idle
        BY <1>7, <2>5, <3>2 DEF Idle
      <4>2. /\ job'[v].admin = job[v].admin /\ job'[v].tv = job[v].tv
            /\ job[v].admin # a => job'[v] = job[v]
        BY <1>7, <3>2, <4>1
      <4>3. Behind(job[v], job[v].admin)
        BY <4>1 DEF VersionsInOrder
      <4>4. job[v].admin \in Admins /\ job[v].tv \in 0..MaxVersion
        BY <4>1, JobShapes DEF Shapes
      <4> QED
        BY <1>3, <1>6, <2>1, <4>2, <4>3, <4>4 DEF Behind
    <3> QED
      BY <3>1, <3>2
  <2>6. ASSUME NEW i \in Sids, sess'[i] # NoSession
        PROVE  /\ sess'[i].tv <= row'[sess'[i].admin].tv
               /\ sess'[i].ended => sess'[i].tv < row'[sess'[i].admin].tv
    <3>1. /\ sess[i] # NoSession /\ sess'[i].admin = sess[i].admin /\ sess'[i].tv = sess[i].tv
          /\ sess[i].admin # a => sess'[i] = sess[i]
      BY <1>8, <2>6
    <3>2. Behind(sess[i], sess[i].admin)
      BY <3>1 DEF VersionsInOrder
    <3>3. sess[i].admin \in Admins /\ sess[i].tv \in 0..MaxVersion
      BY <3>1, SessionShapes DEF Sessions
    <3> QED
      BY <1>3, <1>6, <2>1, <3>1, <3>2, <3>3 DEF Behind
  <2> QED
    BY <2>3, <2>4, <2>5, <2>6 DEF VersionsInOrder, Behind
<1>17. \A b \in Admins : Exists(b) /\ row[b].active /\ (b # a \/ o.op # "deactivate") => Exists(b)' /\ row'[b].active
  <2>1. CASE o.op = "deactivate"
    BY <1>6, <2>1 DEF Exists
  <2>2. CASE o.op # "deactivate"
    BY <1>5, <1>6, <2>2 DEF Exists
  <2> QED
    BY <2>1, <2>2
<1>18. OneStays'
  <2> SUFFICES ASSUME "removal" \notin raced
               PROVE  OneStays'
    BY <1>4 DEF OneStays
  <2>1. \A v \in Workers : job'[v].op = "deactivate" => v # w /\ job'[v] = job[v]
    BY <1>11 DEF Bumps
  <2>2. ASSUME NEW v \in Workers, job'[v].op = "deactivate"
        PROVE  \E b \in Supers : b # job'[v].admin /\ Exists(b)' /\ row'[b].active
    <3>1. o.op # "deactivate"
      BY <2>1, <2>2 DEF OneStays
    <3>2. \E b \in Supers : b # job[v].admin /\ Exists(b) /\ row[b].active
      BY <2>1, <2>2 DEF OneStays
    <3> QED
      BY <1>17, <2>1, <2>2, <3>1, <3>2, SupersAssumption
  <2> QED
    BY <2>1, <2>2 DEF OneStays
<1>19. SuperLeft'
  <2> SUFFICES ASSUME "removal" \notin raced
               PROVE  \E b \in Supers : Exists(b)' /\ row'[b].active
    BY <1>4 DEF SuperLeft
  <2>1. PICK b \in Supers : Exists(b) /\ row[b].active /\ (b # a \/ o.op # "deactivate")
    BY <1>3 DEF SuperLeft, OneStays
  <2> QED
    BY <1>17, <2>1, SupersAssumption
<1> QED
  BY <1>12, <1>14, <1>15, <1>16, <1>18, <1>19

(***************************************************************************)
(* The theorems.                                                           *)
(***************************************************************************)
\* Every step of a request, of a session, of time and of the bootstrap script
\* preserves the invariant.
THEOREM NextAdmin == AdminInv /\ [Next]_vars => AdminInv'
<1> SUFFICES ASSUME AdminInv, [Next]_vars
             PROVE  AdminInv'
  OBVIOUS
<1>1. ASSUME NEW w \in Workers, Request(w)
      PROVE  AdminInv'
  BY <1>1, LoginReadsInv, RenewInv, WrongInv, RightInv, BumpInv, FailsInv, EnterInv, AccountInv, ChangeInv DEF Request
<1>2. ASSUME NEW i \in Sids, EndSession(i) \/ CookieExpires(i)
      PROVE  AdminInv'
  BY <1>2, SessionEndsInv
<1>3. ASSUME NEW a \in Admins, LockExpires(a)
      PROVE  AdminInv'
  BY <1>3, LockExpiresInv
<1>4. ASSUME NEW a \in Admins, Bootstrap(a)
      PROVE  AdminInv'
  BY <1>4, ArrivesInv DEF Bootstrap
<1>5. ASSUME NEW i \in Sids, NEW a \in Admins, Create(i, a)
      PROVE  AdminInv'
  <2>1. sess[i].admin \in Admins /\ Exists(sess[i].admin)
    BY <1>5, SessionShapes DEF Create, ActsAsSuper, Accepted, AdminInv, RowsStay
  <2> QED
    BY <1>5, <2>1, ArrivesInv DEF Create
<1>6. CASE UNCHANGED vars
  BY <1>6 DEF vars, AdminInv, Shapes, RowsStay, AttemptsLeft, RenewalsAlone, VersionsLeft,
              VersionsInOrder, OneStays, SuperLeft, Exists, Behind
<1> QED
  BY <1>1, <1>2, <1>3, <1>4, <1>5, <1>6 DEF Next

THEOREM SpecAdmin == Spec => []AdminInv
BY InitAdmin, NextAdmin, PTL DEF Spec

\* Types.
THEOREM SpecTypeOK == Spec => []TypeOK
<1>1. AdminInv => TypeOK
  BY DEF AdminInv, AttemptsLeft, TypeOK
<1> QED
  BY <1>1, SpecAdmin, PTL

\* No request is accepted from a login that began before the admin was
\* deactivated, reset, logged out or changed the password, unless two such
\* operations on the admin have overlapped (bump_token_version, require_admin).
THEOREM SpecBumpsHold == Spec => []BumpsHold
<1>1. AdminInv => BumpsHold
  <2> SUFFICES ASSUME AdminInv, NEW i \in Sids, Accepted(i), "bump" \notin raced
               PROVE  ~sess[i].ended
    BY DEF BumpsHold
  <2>1. sess[i] # NoSession /\ row[sess[i].admin].tv = sess[i].tv /\ Behind(sess[i], sess[i].admin)
    BY DEF AdminInv, VersionsInOrder, Accepted
  <2>2. sess[i] \in Sessions
    BY <2>1, SessionShapes DEF AdminInv
  <2> QED
    BY <2>1, <2>2 DEF Behind, Sessions
<1> QED
  BY <1>1, SpecAdmin, PTL

\* Once there is an admin, an active superadmin is left, unless two
\* deactivations have overlapped (admin_deactivate).
THEOREM SpecSuperLeft == Spec => []SuperLeft
<1>1. AdminInv => SuperLeft
  BY DEF AdminInv
<1> QED
  BY <1>1, SpecAdmin, PTL

LEMMA LockStep ==
  ASSUME AdminInv, Next, NEW a \in Admins, Exists(a), row[a].lock = "on",
         "renewal" \notin raced
  PROVE  row'[a].lock \in {"on", "over"}
<1> USE DEF AdminInv
<1>1. row[a] \in Rows /\ row \in [Admins -> Rows \union {NoAdmin}]
  BY RowShapes DEF Shapes
<1>2. ASSUME NEW b \in Admins, NEW r, row' = [row EXCEPT ![b] = r], b = a => r.lock \in {"on", "over"}
      PROVE  row'[a].lock \in {"on", "over"}
  BY <1>1, <1>2
<1>3. ASSUME NEW w \in Workers, Request(w)
      PROVE  row'[a].lock \in {"on", "over"}
  <2> DEFINE b == job[w].admin
  <2>2. job[w] # Idle => b \in Admins /\ row[b] \in Rows
    BY JobShapes, RowShapes DEF Shapes, RowsStay
  <2>1. CASE Renew(w)
    <3> DEFINE r == Renewed(row[b], job[w].count)
    <3>1. job[w].op = "renew" /\ job[w] # Idle /\ row' = [row EXCEPT ![b] = r]
      BY <2>1 DEF Renew, Idle
    <3>2. b # a
      BY <3>1 DEF RenewalsAlone
    <3> HIDE DEF r
    <3> QED
      BY <1>2, <2>2, <3>1, <3>2
  <2>3. CASE Wrong(w)
    <3> DEFINE r == Failed(row[b], job[w].count + 1)
    <3>1. job[w] # Idle /\ row' = [row EXCEPT ![b] = r]
      BY <2>3 DEF Wrong, Idle
    <3>2. b = a => r.lock \in {"on", "over"}
      BY <1>1 DEF Failed, Rows
    <3> HIDE DEF r
    <3> QED
      BY <1>2, <2>2, <3>1, <3>2
  <2>4. CASE Right(w)
    <3> DEFINE r == [row[b] EXCEPT !.count = IF job[w].count # 0 THEN 0 ELSE @]
    <3>1. job[w] # Idle /\ row' = [row EXCEPT ![b] = r]
      BY <2>4 DEF Right, Idle
    <3>2. b = a => r.lock \in {"on", "over"}
      BY <1>1 DEF Rows
    <3> HIDE DEF r
    <3> QED
      BY <1>2, <2>2, <3>1, <3>2
  <2>5. CASE Bump(w)
    <3> DEFINE r == [Assigned(job[w].op, row[b], job[w].must) EXCEPT !.tv = job[w].tv + 1]
    <3>1. job[w].op \in Bumps /\ row' = [row EXCEPT ![b] = r]
      BY <2>5 DEF Bump
    <3>2. job[w] # Idle
      BY <3>1 DEF Idle, Bumps
    <3>3. r.lock = row[b].lock
      BY <3>1, BumpedRow
    <3> HIDE DEF r
    <3> QED
      BY <1>2, <2>2, <3>1, <3>2, <3>3
  <2>6. CASE UNCHANGED row
    BY <2>6
  <2> QED
    BY <1>3, <2>1, <2>3, <2>4, <2>5, <2>6
       DEF Request, Fails, Enter, LoginReads, Deactivate, Reset, ForceLogout, ChangePassword, Reads
<1>4. ASSUME NEW i \in Sids, EndSession(i) \/ CookieExpires(i)
      PROVE  row'[a].lock \in {"on", "over"}
  BY <1>4 DEF EndSession, CookieExpires
<1>5. ASSUME NEW b \in Admins, LockExpires(b)
      PROVE  row'[a].lock \in {"on", "over"}
  <2> DEFINE r == [row[b] EXCEPT !.lock = "over"]
  <2>1. row' = [row EXCEPT ![b] = r] /\ r.lock = "over"
    BY <1>5, RowShapes DEF LockExpires, Rows
  <2> HIDE DEF r
  <2> QED
    BY <1>2, <2>1
<1>6. ASSUME NEW b \in Admins, Bootstrap(b)
      PROVE  row'[a].lock \in {"on", "over"}
  BY <1>6 DEF Bootstrap
<1>7. ASSUME NEW i \in Sids, NEW b \in Admins, Create(i, b)
      PROVE  row'[a].lock \in {"on", "over"}
  BY <1>1, <1>7 DEF Create
<1> QED
  BY <1>3, <1>4, <1>5, <1>6, <1>7 DEF Next

\* A lock ends by time only: no request lifts it, whatever it has read before,
\* unless a login has overlapped the reset of an expired lock (attempt_login).
THEOREM SpecLockHolds == Spec => LockHolds
<1>1. AdminInv /\ [Next]_vars =>
        [\A a \in Admins : Exists(a) /\ row[a].lock = "on" /\ "renewal" \notin raced =>
           row'[a].lock \in {"on", "over"}]_vars
  BY LockStep
<1> QED
  BY <1>1, SpecAdmin, PTL DEF Spec, LockHolds

=============================================================================

------------------------ MODULE OneTimeStoresProofs ------------------------
(***************************************************************************)
(* Proofs about OneTimeStores, for every value of its constants: a private *)
(* key is in one place, and the stores implement KeyCustody.               *)
(***************************************************************************)
EXTENDS OneTimeStores, FiniteSetTheorems, TLAPS

(***************************************************************************)
(* The inductive invariant.                                                *)
(***************************************************************************)
\* A key exists of certificates that were issued only: this is what keeps
\* a second request from making the same key again.
KeysAreIssued ==
  \A s \in Serials :
    /\ cert[s] = "none" => s \notin Held("bundle") /\ delivered[s] = 0
    /\ \A w \in Workers : Carries(w, s) => cert[s] # "none"

\* What a sweep of the bundles has found is stale for good: nobody will put
\* the same key into the store again, so an entry that is still there is
\* the one the scan has seen.
StaleForGood ==
  \A w \in Workers : job[w].op = "sweep" /\ job[w].to = "bundle" =>
    \A s \in job[w].stale :
      /\ cert[s] # "none"
      /\ \A v \in Workers : ~Storing(job[v], s)
      /\ s \in Held("bundle") => clock - pending["bundle"][s] > Ttl

\* A scan has taken its time from the clock.
ScansArePast == \A w \in Workers : job[w].op \in {"scan", "sweep"} => job[w].at <= clock

StoresInv == TypeOK /\ KeysAreIssued /\ KeyInOnePlace /\ StaleForGood /\ ScansArePast

(***************************************************************************)
(* Facts about the definitions.                                            *)
(***************************************************************************)
LEMMA Sets ==
  ASSUME TypeOK, NEW w \in Workers, NEW j \in Jobs, Set(w, j)
  PROVE  /\ job' \in [Workers -> Jobs]
         /\ job'[w] = j
         /\ \A v \in Workers : v # w => job'[v] = job[v]
BY DEF TypeOK, Set

LEMMA Puts ==
  ASSUME TypeOK, NEW d \in Stores, NEW s \in Serials, NEW t \in Times \union {Never}, Put(d, s, t)
  PROVE  /\ pending' \in [Stores -> [Serials -> Times \union {Never}]]
         /\ \A e \in Stores, r \in Serials :
              pending'[e][r] = IF e = d /\ r = s THEN t ELSE pending[e][r]
BY DEF TypeOK, Put

Sweeps == [op : {"sweep"}, serial : Serials, to : Stores, key : BOOLEAN, at : Times, stale : SUBSET Serials]
Drops  == [op : {"drop"}, serial : Serials, key : BOOLEAN]
Answers == [op : {"answer"}, serial : Serials, key : {TRUE}]

\* The shape of a request by its step.
LEMMA JobShapes ==
  ASSUME NEW j \in Jobs
  PROVE  /\ j # Idle => j.serial \in Serials
         /\ j.op = "none" <=> j = Idle
         /\ j.op \in {"store", "scan", "sweep"} => j.to \in Stores /\ j.key \in BOOLEAN
         /\ j.op \in {"scan", "sweep"} => j.at \in Times
         /\ j.op = "sweep" => j.stale \in SUBSET Serials
         /\ j.op \in {"drop", "answer"} => j.key \in BOOLEAN
         /\ j.op = "sweep" => j \in Sweeps
         /\ j.op = "drop" => j \in Drops
         /\ j.op = "answer" => j \in Answers
<1>1. CASE j = Idle
  BY <1>1 DEF Idle
<1>2. CASE j \in [op : {"store"}, serial : Serials, to : Stores, key : BOOLEAN]
  BY <1>2 DEF Idle
<1>3. CASE j \in [op : {"scan"}, serial : Serials, to : Stores, key : BOOLEAN, at : Times, size : Nat]
  BY <1>3 DEF Idle
<1>4. CASE j \in Sweeps
  BY <1>4 DEF Idle, Sweeps
<1>5. CASE j \in Drops
  BY <1>5 DEF Idle, Drops
<1>6. CASE j \in Answers
  <2>1. j.op = "answer" /\ j.serial \in Serials /\ j.key \in BOOLEAN
    BY <1>6 DEF Answers
  <2>2. j # Idle
    BY <2>1 DEF Idle
  <2> QED
    BY <1>6, <2>1, <2>2
<1>7. CASE j \in [op : {"page"}, serial : Serials]
  BY <1>7 DEF Idle
<1> QED
  BY <1>1, <1>2, <1>3, <1>4, <1>5, <1>6, <1>7 DEF Jobs, Sweeps, Drops, Answers

LEMMA AnswerHasKey ==
  ASSUME NEW j \in Jobs, j.op = "answer"
  PROVE  j.key
<1>1. j \in Answers
  BY JobShapes
<1>2. j.key \in {TRUE}
  BY <1>1 DEF Answers
<1> QED
  BY <1>2

THEOREM InitStores == Init => StoresInv
<1> SUFFICES ASSUME Init
             PROVE  StoresInv
  OBVIOUS
<1> USE TimesAssumption DEF Init
<1>1. \A w \in Workers : job[w] = Idle
  OBVIOUS
<1>2. Idle \in Jobs /\ Idle.op = "none"
  BY DEF Jobs, Idle
<1>3. TypeOK
  BY <1>2 DEF TypeOK, Times, Empty
<1>4. \A d \in Stores : Held(d) = {}
  BY DEF Held, Empty
<1>5. "bundle" \in Stores
  BY DEF Stores
<1> QED
  BY <1>1, <1>2, <1>3, <1>4, <1>5
     DEF StoresInv, KeysAreIssued, KeyInOnePlace, StaleForGood, ScansArePast, Carries, Storing, Taking

(***************************************************************************)
(* Most steps of a request bring no key to a new place: the request has in *)
(* hand at most what it had, and the store of bundles only shrinks.        *)
(***************************************************************************)
NoNewKey(j, k) ==
  \A s \in Serials : (Storing(k, s) => Storing(j, s)) /\ (Taking(k, s) => Taking(j, s))

SweepIsTrue(j) ==
  /\ j.op \in {"scan", "sweep"} => j.at <= clock
  /\ j.op = "sweep" /\ j.to = "bundle" => \A s \in j.stale :
       /\ cert[s] # "none"
       /\ \A v \in Workers : ~Storing(job[v], s)
       /\ s \in Held("bundle") => clock - pending["bundle"][s] > Ttl

LEMMA OldSweeps ==
  ASSUME StoresInv, NEW w \in Workers
  PROVE  SweepIsTrue(job[w])
BY DEF StoresInv, StaleForGood, ScansArePast, SweepIsTrue

LEMMA QuietStep ==
  ASSUME StoresInv, NEW w \in Workers, NEW j \in Jobs, Set(w, j),
         UNCHANGED <<clock, cert, delivered>>,
         token' \in [Serials -> Times \union {Never}],
         pending' \in [Stores -> [Serials -> Times \union {Never}]],
         \A s \in Serials : pending'["bundle"][s] \in {pending["bundle"][s], Never},
         NoNewKey(job[w], j), SweepIsTrue(j)
  PROVE  StoresInv'
<1> USE TimesAssumption DEF StoresInv
<1>1. job' \in [Workers -> Jobs] /\ job'[w] = j /\ \A v \in Workers : v # w => job'[v] = job[v]
  BY Sets
<1>2. \A v \in Workers, s \in Serials :
        (Storing(job'[v], s) => Storing(job[v], s)) /\ (Taking(job'[v], s) => Taking(job[v], s))
  BY <1>1 DEF NoNewKey
<1>3. \A v \in Workers, s \in Serials : Carries(v, s)' => Carries(v, s)
  <2> SUFFICES ASSUME NEW v \in Workers, NEW s \in Serials, Carries(v, s)'
               PROVE  Carries(v, s)
    OBVIOUS
  <2>1. Storing(job'[v], s) \/ Taking(job'[v], s)
    BY DEF Carries
  <2> QED
    BY <1>2, <2>1 DEF Carries
<1>4. \A s \in Serials : s \in Held("bundle")' =>
        s \in Held("bundle") /\ pending'["bundle"][s] = pending["bundle"][s]
  BY DEF Held
<1>5. TypeOK'
  BY <1>1 DEF TypeOK
<1>6. KeysAreIssued' /\ KeyInOnePlace'
  BY <1>3, <1>4 DEF KeysAreIssued, KeyInOnePlace
<1>7. \A v \in Workers : SweepIsTrue(job'[v])
  BY <1>1, OldSweeps
<1>8. StaleForGood'
  <2> SUFFICES ASSUME NEW v \in Workers, job'[v].op = "sweep", job'[v].to = "bundle", NEW s \in job'[v].stale
               PROVE  /\ cert[s] # "none"
                      /\ \A u \in Workers : ~Storing(job'[u], s)
                      /\ s \in Held("bundle")' => clock - pending'["bundle"][s] > Ttl
    BY DEF StaleForGood
  <2>1. s \in Serials
    BY <1>1, JobShapes
  <2> QED
    BY <1>2, <1>4, <1>7, <2>1 DEF SweepIsTrue
<1>9. ScansArePast'
  BY <1>7 DEF ScansArePast, SweepIsTrue
<1> QED
  BY <1>5, <1>6, <1>8, <1>9

(***************************************************************************)
(* Issue and reissue, and the sweeps.                                      *)
(***************************************************************************)
LEMMA IssueInv ==
  ASSUME StoresInv, NEW w \in Workers, NEW s \in Serials, NEW way \in {"web", "api"}, Issue(w, s, way)
  PROVE  StoresInv'
<1> USE TimesAssumption DEF StoresInv
<1> DEFINE j == [op |-> "store", serial |-> s, to |-> "bundle", key |-> TRUE]
<1>1. j \in Jobs
  BY DEF Jobs, Stores
<1>2. job[w] = Idle /\ cert[s] = "none" /\ Set(w, j) /\ cert' = [cert EXCEPT ![s] = way]
      /\ UNCHANGED <<clock, pending, token, delivered>>
  BY DEF Issue
<1>3. job' \in [Workers -> Jobs] /\ job'[w] = j /\ \A v \in Workers : v # w => job'[v] = job[v]
  BY <1>1, <1>2, Sets
<1>4. TypeOK' /\ ScansArePast'
  BY <1>2, <1>3 DEF TypeOK, ScansArePast
<1>5. \A v \in Workers : ~Carries(v, s) /\ ~Storing(job[v], s)
  BY <1>2 DEF KeysAreIssued, Carries
<1>6. s \notin Held("bundle") /\ delivered[s] = 0 /\ Held("bundle")' = Held("bundle")
  BY <1>2 DEF KeysAreIssued, Held
<1>7. \A v \in Workers, r \in Serials : Carries(v, r)' <=> Carries(v, r) \/ (v = w /\ r = s)
  BY <1>2, <1>3 DEF Carries, Storing, Taking, Idle
<1>8. KeysAreIssued' /\ KeyInOnePlace'
  BY <1>2, <1>5, <1>6, <1>7 DEF KeysAreIssued, KeyInOnePlace, TypeOK
<1>9. StaleForGood'
  <2> SUFFICES ASSUME NEW v \in Workers, job'[v].op = "sweep", job'[v].to = "bundle", NEW r \in job'[v].stale
               PROVE  /\ cert'[r] # "none"
                      /\ \A u \in Workers : ~Storing(job'[u], r)
                      /\ r \in Held("bundle")' => clock' - pending'["bundle"][r] > Ttl
    BY DEF StaleForGood
  <2>1. v # w /\ job'[v] = job[v] /\ r \in Serials
    BY <1>3, JobShapes
  <2>2. r # s
    BY <1>2, <2>1 DEF StaleForGood
  <2> QED
    BY <1>2, <1>3, <1>6, <2>1, <2>2 DEF StaleForGood, Storing, TypeOK
<1> QED
  BY <1>4, <1>8, <1>9

LEMMA RetryInv ==
  ASSUME StoresInv, NEW w \in Workers, NEW s \in Serials, RetryAtApi(w, s)
  PROVE  StoresInv'
<1> DEFINE j == [op |-> "store", serial |-> s, to |-> "bundle", key |-> FALSE]
<1>1. j \in Jobs
  BY DEF Jobs, Stores
<1>2. NoNewKey(job[w], j) /\ SweepIsTrue(j)
  BY DEF NoNewKey, SweepIsTrue, Storing, Taking
<1> QED
  BY <1>1, <1>2, QuietStep DEF RetryAtApi, StoresInv, TypeOK

LEMMA BeginScanInv ==
  ASSUME StoresInv, NEW w \in Workers, BeginScan(w)
  PROVE  StoresInv'
<1> DEFINE o == job[w]
           j == [op |-> "scan", serial |-> o.serial, to |-> o.to, key |-> o.key,
                 at |-> clock, size |-> Cardinality(Held(o.to))]
<1>1. o \in Jobs /\ o.op = "store" /\ Set(w, j)
  BY DEF BeginScan, StoresInv, TypeOK
<1>2. o.serial \in Serials /\ o.to \in Stores /\ o.key \in BOOLEAN
  BY <1>1, JobShapes DEF Idle
<1>3. Cardinality(Held(o.to)) \in Nat
  BY SerialsAssumption, FS_Subset, FS_CardinalityType DEF Held
<1>4. j \in Jobs
  BY <1>2, <1>3 DEF Jobs, StoresInv, TypeOK
<1>5. NoNewKey(o, j) /\ SweepIsTrue(j)
  BY <1>1, TimesAssumption DEF NoNewKey, SweepIsTrue, Storing, Taking, StoresInv, TypeOK, Times
<1> QED
  BY <1>1, <1>4, <1>5, QuietStep DEF BeginScan, StoresInv, TypeOK

LEMMA EndScanInv ==
  ASSUME StoresInv, NEW w \in Workers, EndScan(w)
  PROVE  StoresInv'
<1> USE TimesAssumption
<1> DEFINE o == job[w]
           j == [op |-> "sweep", serial |-> o.serial, to |-> o.to, key |-> o.key,
                 at |-> o.at, stale |-> StaleIn(o.to, o.at)]
<1>1. o \in Jobs /\ o.op = "scan" /\ Set(w, j)
  BY DEF EndScan, StoresInv, TypeOK
<1>2. o.serial \in Serials /\ o.to \in Stores /\ o.key \in BOOLEAN /\ o.at \in Times
  BY <1>1, JobShapes DEF Idle
<1>3. StaleIn(o.to, o.at) \in SUBSET Serials
  BY DEF StaleIn, Held
<1>4. j \in Jobs
  BY <1>2, <1>3 DEF Jobs
<1>5. o.at <= clock /\ clock \in Nat
  BY <1>1 DEF StoresInv, ScansArePast, TypeOK, Times
<1>6. SweepIsTrue(j)
  <2> SUFFICES ASSUME o.to = "bundle", NEW s \in StaleIn("bundle", o.at)
               PROVE  /\ cert[s] # "none"
                      /\ \A v \in Workers : ~Storing(job[v], s)
                      /\ clock - pending["bundle"][s] > Ttl
    BY <1>5 DEF SweepIsTrue
  <2>1. s \in Serials /\ s \in Held("bundle") /\ o.at - pending["bundle"][s] > Ttl
    BY DEF StaleIn, Held
  <2>2. pending["bundle"][s] \in Nat
    BY <2>1 DEF Held, StoresInv, TypeOK, Stores, Times
  <2>3. clock - pending["bundle"][s] > Ttl
    BY <1>2, <1>5, <2>1, <2>2 DEF Times
  <2> QED
    BY <2>1, <2>3 DEF StoresInv, KeysAreIssued, KeyInOnePlace, Carries
<1>7. NoNewKey(o, j)
  BY <1>1 DEF NoNewKey, Storing, Taking
<1> QED
  BY <1>1, <1>4, <1>6, <1>7, QuietStep DEF EndScan, StoresInv, TypeOK

LEMMA DropStaleInv ==
  ASSUME StoresInv, NEW w \in Workers, NEW s \in Serials, DropStale(w, s)
  PROVE  StoresInv'
<1> USE TimesAssumption
<1> DEFINE o == job[w]
           j == [o EXCEPT !.stale = @ \ {s}]
<1>1. o \in Jobs /\ o.op = "sweep" /\ Set(w, j) /\ Put(o.to, s, Never)
  BY DEF DropStale, StoresInv, TypeOK
<1>2. o \in Sweeps
  BY <1>1, JobShapes
<1>3. /\ j.op = "sweep" /\ j.serial = o.serial /\ j.to = o.to /\ j.key = o.key /\ j.at = o.at
      /\ j.stale \subseteq o.stale
  BY <1>2 DEF Sweeps
<1>4. j \in Jobs
  <2>1. j \in Sweeps
    BY <1>2 DEF Sweeps
  <2> QED
    BY <2>1 DEF Jobs, Sweeps
<1>5. NoNewKey(o, j)
  BY <1>1, <1>3 DEF NoNewKey, Storing, Taking
<1>6. SweepIsTrue(j)
  BY <1>1, <1>3, OldSweeps DEF SweepIsTrue
<1>7. /\ pending' \in [Stores -> [Serials -> Times \union {Never}]]
      /\ \A r \in Serials : pending'["bundle"][r] \in {pending["bundle"][r], Never}
  BY <1>1, <1>2, Puts DEF StoresInv, Stores, Sweeps
<1> QED
  BY <1>1, <1>4, <1>5, <1>6, <1>7, QuietStep DEF DropStale, StoresInv, TypeOK

LEMMA SweepFailsInv ==
  ASSUME StoresInv, NEW w \in Workers, SweepFails(w)
  PROVE  StoresInv'
<1>1. Idle \in Jobs /\ NoNewKey(job[w], Idle) /\ SweepIsTrue(Idle)
  BY DEF Jobs, Idle, NoNewKey, SweepIsTrue, Storing, Taking
<1> QED
  BY <1>1, QuietStep DEF SweepFails, StoresInv, TypeOK

LEMMA InsertInv ==
  ASSUME StoresInv, NEW w \in Workers, Insert(w)
  PROVE  StoresInv'
<1> USE TimesAssumption
<1> DEFINE o == job[w]
           n == [op |-> "store", serial |-> o.serial, to |-> "password", key |-> TRUE]
           last == o.to = "password" \/ cert[o.serial] = "api"
           j == IF last THEN Idle ELSE n
<1>1. o \in Jobs /\ o.op = "sweep" /\ Set(w, j)
      /\ UNCHANGED <<clock, cert, token, delivered>>
      /\ IF o.key THEN Put(o.to, o.serial, o.at) ELSE UNCHANGED pending
  BY DEF Insert, StoresInv, TypeOK
<1>2. o.serial \in Serials /\ o.to \in Stores /\ o.key \in BOOLEAN /\ o.at \in Times
  BY <1>1, JobShapes DEF Idle
<1>3. n \in Jobs /\ Idle \in Jobs
  BY <1>2 DEF Jobs, Stores
<1>4. j \in Jobs /\ NoNewKey(o, j) /\ SweepIsTrue(j) /\ \A r \in Serials : ~Storing(j, r) /\ ~Taking(j, r)
  BY <1>3 DEF NoNewKey, SweepIsTrue, Storing, Taking, Idle
<1>5. CASE ~(o.key /\ o.to = "bundle")
  <2>1. /\ pending' \in [Stores -> [Serials -> Times \union {Never}]]
        /\ \A r \in Serials : pending'["bundle"][r] \in {pending["bundle"][r], Never}
    BY <1>1, <1>2, <1>5, Puts DEF StoresInv, TypeOK, Stores
  <2> QED
    BY <1>1, <1>4, <2>1, QuietStep DEF StoresInv, TypeOK
<1>6. CASE o.key /\ o.to = "bundle"
  <2> USE DEF StoresInv
  <2> DEFINE s == o.serial
  <2>1. /\ pending' \in [Stores -> [Serials -> Times \union {Never}]]
        /\ pending'["bundle"][s] = o.at
        /\ \A r \in Serials : r # s => pending'["bundle"][r] = pending["bundle"][r]
    BY <1>1, <1>2, <1>6, Puts DEF Stores
  <2>2. job' \in [Workers -> Jobs] /\ job'[w] = j /\ \A v \in Workers : v # w => job'[v] = job[v]
    BY <1>1, <1>4, Sets
  <2>3. Storing(o, s)
    BY <1>1, <1>6 DEF Storing
  <2>4. cert[s] # "none" /\ delivered[s] = 0 /\ \A v \in Workers : Carries(v, s) => v = w
    BY <1>2, <2>3 DEF KeysAreIssued, KeyInOnePlace, Carries
  <2>5. \A v \in Workers, r \in Serials : Carries(v, r)' => v # w /\ Carries(v, r)
    <3> SUFFICES ASSUME NEW v \in Workers, NEW r \in Serials, Carries(v, r)'
                 PROVE  v # w /\ Carries(v, r)
      OBVIOUS
    <3>1. Storing(job'[v], r) \/ Taking(job'[v], r)
      BY DEF Carries
    <3> QED
      BY <1>4, <2>2, <3>1 DEF Carries
  <2>6. Held("bundle")' = Held("bundle") \union {s}
    BY <1>2, <2>1 DEF Held, Times
  <2>7. TypeOK' /\ ScansArePast'
    BY <1>1, <1>4, <2>1, <2>2 DEF TypeOK, ScansArePast, SweepIsTrue
  <2>8. KeysAreIssued' /\ KeyInOnePlace'
    BY <1>1, <1>2, <2>4, <2>5, <2>6 DEF KeysAreIssued, KeyInOnePlace
  <2>9. StaleForGood'
    <3> SUFFICES ASSUME NEW v \in Workers, job'[v].op = "sweep", job'[v].to = "bundle", NEW r \in job'[v].stale
                 PROVE  /\ cert[r] # "none"
                        /\ \A u \in Workers : ~Storing(job'[u], r)
                        /\ r \in Held("bundle")' => clock - pending'["bundle"][r] > Ttl
      BY <1>1 DEF StaleForGood
    <3>1. r \in Serials /\ v # w /\ job'[v] = job[v]
      BY <2>2, JobShapes, <1>4 DEF Idle
    <3>2. r # s
      BY <2>3, <3>1 DEF StaleForGood
    <3>3. \A u \in Workers : ~Storing(job'[u], r)
      BY <1>4, <2>2, <3>1 DEF StaleForGood
    <3> QED
      BY <2>1, <2>6, <3>1, <3>2, <3>3 DEF StaleForGood
  <2> QED
    BY <2>7, <2>8, <2>9
<1> QED
  BY <1>5, <1>6

(***************************************************************************)
(* The delivery page and the downloads.                                    *)
(***************************************************************************)
LEMMA OpenPageInv ==
  ASSUME StoresInv, NEW w \in Workers, NEW s \in Serials, OpenPage(w, s)
  PROVE  StoresInv'
<1> DEFINE j == [op |-> "page", serial |-> s]
<1>1. j \in Jobs /\ NoNewKey(job[w], j) /\ SweepIsTrue(j)
  BY DEF Jobs, NoNewKey, SweepIsTrue, Storing, Taking
<1> QED
  BY <1>1, QuietStep DEF OpenPage, StoresInv, TypeOK

LEMMA ShowPageInv ==
  ASSUME StoresInv, NEW w \in Workers, ShowPage(w)
  PROVE  StoresInv'
<1>1. Idle \in Jobs /\ NoNewKey(job[w], Idle) /\ SweepIsTrue(Idle)
  BY DEF Jobs, Idle, NoNewKey, SweepIsTrue, Storing, Taking
<1>2. token' \in [Serials -> Times \union {Never}]
  BY DEF ShowPage, StoresInv, TypeOK
<1> QED
  BY <1>1, <1>2, QuietStep DEF ShowPage, StoresInv, TypeOK

\* Whoever pops a bundle has its key, and the store has it no more.
LEMMA PopInv ==
  ASSUME StoresInv, NEW w \in Workers, NEW s \in Serials, job[w] = Idle, PopBundle(w, s),
         UNCHANGED <<clock, cert, token, delivered>>
  PROVE  StoresInv'
<1> USE TimesAssumption DEF StoresInv
<1> DEFINE has == s \in Held("bundle")
           j == [op |-> "drop", serial |-> s, key |-> has]
<1>1. j \in Jobs /\ Set(w, j) /\ Put("bundle", s, Never)
  BY DEF PopBundle, Jobs
<1>2. job' \in [Workers -> Jobs] /\ job'[w] = j /\ \A v \in Workers : v # w => job'[v] = job[v]
  BY <1>1, Sets
<1>3. /\ pending' \in [Stores -> [Serials -> Times \union {Never}]]
      /\ pending'["bundle"][s] = Never
      /\ \A r \in Serials : r # s => pending'["bundle"][r] = pending["bundle"][r]
  BY <1>1, Puts DEF Stores
<1>4. Held("bundle")' = Held("bundle") \ {s}
  BY <1>3 DEF Held
<1>5. \A v \in Workers, r \in Serials : Storing(job'[v], r) => Storing(job[v], r)
  BY <1>2 DEF Storing
<1>6. \A v \in Workers, r \in Serials : Carries(v, r)' => Carries(v, r) \/ (v = w /\ r = s /\ has)
  <2> SUFFICES ASSUME NEW v \in Workers, NEW r \in Serials, Carries(v, r)'
               PROVE  Carries(v, r) \/ (v = w /\ r = s /\ has)
    OBVIOUS
  <2>1. Storing(job'[v], r) \/ Taking(job'[v], r)
    BY DEF Carries
  <2>a. Taking(j, r) => r = s /\ has
    BY Zenon DEF Taking
  <2>b. ~Storing(j, r)
    BY DEF Storing
  <2>2. CASE v = w
    BY <1>2, <2>1, <2>2, <2>a, <2>b
  <2>3. CASE v # w
    BY <1>2, <2>1, <2>3 DEF Carries
  <2> QED
    BY <2>2, <2>3
<1>7. TypeOK' /\ ScansArePast'
  BY <1>1, <1>2, <1>3 DEF TypeOK, ScansArePast
<1>8. KeysAreIssued' /\ KeyInOnePlace'
  BY <1>4, <1>6 DEF KeysAreIssued, KeyInOnePlace
<1>9. StaleForGood'
  <2> SUFFICES ASSUME NEW v \in Workers, job'[v].op = "sweep", job'[v].to = "bundle", NEW r \in job'[v].stale
               PROVE  /\ cert[r] # "none"
                      /\ \A u \in Workers : ~Storing(job'[u], r)
                      /\ r \in Held("bundle")' => clock - pending'["bundle"][r] > Ttl
    BY DEF StaleForGood
  <2>1. v # w /\ job'[v] = job[v] /\ r \in Serials
    BY <1>2, JobShapes
  <2> QED
    BY <1>3, <1>4, <1>5, <2>1 DEF StaleForGood
<1> QED
  BY <1>7, <1>8, <1>9

LEMMA DropPasswordInv ==
  ASSUME StoresInv, NEW w \in Workers, DropPassword(w)
  PROVE  StoresInv'
<1> DEFINE o == job[w]
           a == [o EXCEPT !.op = "answer"]
           j == IF o.key THEN a ELSE Idle
<1>1. o \in Jobs /\ o.op = "drop" /\ Set(w, j) /\ Put("password", o.serial, Never)
  BY DEF DropPassword, StoresInv, TypeOK
<1>2. o \in Drops
  BY <1>1, JobShapes
<1>3. o.key => a \in [op : {"answer"}, serial : Serials, key : {TRUE}]
  BY <1>2 DEF Drops
<1>4. j \in Jobs
  BY <1>3 DEF Jobs
<1>5. NoNewKey(o, j) /\ SweepIsTrue(j)
  BY <1>2, <1>3 DEF Drops, Idle, NoNewKey, SweepIsTrue, Storing, Taking
<1>6. /\ pending' \in [Stores -> [Serials -> Times \union {Never}]]
      /\ \A r \in Serials : pending'["bundle"][r] \in {pending["bundle"][r], Never}
  BY <1>1, <1>2, Puts DEF StoresInv, Stores, Drops
<1> QED
  BY <1>1, <1>4, <1>5, <1>6, QuietStep DEF DropPassword, StoresInv, TypeOK

LEMMA AnswerInv ==
  ASSUME StoresInv, NEW w \in Workers, Answer(w)
  PROVE  StoresInv'
<1> USE DEF StoresInv
<1> DEFINE s == job[w].serial
<1>1. job[w] \in Jobs /\ job[w].op = "answer" /\ Set(w, Idle) /\ Idle \in Jobs
      /\ UNCHANGED <<clock, cert, pending, token>>
  BY DEF Answer, TypeOK, Jobs
<1>2. NoNewKey(job[w], Idle) /\ SweepIsTrue(Idle)
  BY DEF Idle, NoNewKey, SweepIsTrue, Storing, Taking
<1>3. CASE UNCHANGED delivered
  BY <1>1, <1>2, <1>3, QuietStep DEF TypeOK
<1>4. CASE delivered' = [delivered EXCEPT ![s] = @ + 1] /\ job[w].key
  <2>1. job' \in [Workers -> Jobs] /\ job'[w] = Idle /\ \A v \in Workers : v # w => job'[v] = job[v]
    BY <1>1, Sets
  <2>2. s \in Serials /\ Carries(w, s)
    BY <1>1, <1>4, JobShapes DEF Taking, Idle, Carries
  <2>3. cert[s] # "none" /\ delivered[s] = 0 /\ s \notin Held("bundle")
        /\ \A v \in Workers : Carries(v, s) => v = w
    BY <2>2 DEF KeysAreIssued, KeyInOnePlace
  <2>4. \A v \in Workers, r \in Serials : Carries(v, r)' => v # w /\ Carries(v, r)
    BY <2>1 DEF Carries, Storing, Taking, Idle
  <2>5. Held("bundle")' = Held("bundle")
    BY <1>1 DEF Held
  <2>6. TypeOK' /\ ScansArePast'
    BY <1>1, <1>4, <2>1, <2>2, <2>3 DEF TypeOK, ScansArePast, Idle
  <2>7. KeysAreIssued' /\ KeyInOnePlace'
    BY <1>1, <1>4, <2>2, <2>3, <2>4, <2>5 DEF KeysAreIssued, KeyInOnePlace, TypeOK
  <2>8. StaleForGood'
    BY <1>1, <2>1, <2>5 DEF StaleForGood, Storing, Idle
  <2> QED
    BY <2>6, <2>7, <2>8
<1>5. job[w].key
  BY <1>1, AnswerHasKey
<1> QED
  BY <1>3, <1>4, <1>5 DEF Answer

(***************************************************************************)
(* Time and restarts.                                                      *)
(***************************************************************************)
LEMMA TickInv ==
  ASSUME StoresInv, Tick
  PROVE  StoresInv'
<1> USE TimesAssumption DEF StoresInv
<1>1. clock \in Nat /\ clock' = clock + 1 /\ clock' \in Times /\ UNCHANGED <<cert, pending, token, job, delivered>>
  BY DEF Tick, TypeOK, Times
<1>2. TypeOK'
  BY <1>1 DEF TypeOK
<1>3. KeysAreIssued' /\ KeyInOnePlace'
  BY <1>1 DEF KeysAreIssued, KeyInOnePlace, Carries, Storing, Taking, Held
<1>4. ScansArePast'
  <2> SUFFICES ASSUME NEW w \in Workers, job[w].op \in {"scan", "sweep"}
               PROVE  job[w].at <= clock'
    BY <1>1 DEF ScansArePast
  <2>1. job[w].at \in Nat
    BY JobShapes DEF TypeOK, Times
  <2> QED
    BY <1>1, <2>1 DEF ScansArePast
<1>5. StaleForGood'
  <2> SUFFICES ASSUME NEW w \in Workers, job[w].op = "sweep", job[w].to = "bundle", NEW s \in job[w].stale,
                      s \in Held("bundle")
               PROVE  clock' - pending["bundle"][s] > Ttl
    BY <1>1 DEF StaleForGood, Held
  <2>1. pending["bundle"][s] \in Nat
    BY JobShapes DEF TypeOK, Stores, Held, Times
  <2> QED
    BY <1>1, <2>1 DEF StaleForGood
<1> QED
  BY <1>2, <1>3, <1>4, <1>5

LEMMA RestartInv ==
  ASSUME StoresInv, Restart
  PROVE  StoresInv'
<1> USE TimesAssumption DEF StoresInv
<1>1. \A w \in Workers : job'[w] = Idle
  BY DEF Restart
<1>2. Idle \in Jobs /\ Idle.op = "none"
  BY DEF Jobs, Idle
<1>3. TypeOK'
  BY <1>2 DEF Restart, TypeOK, Empty
<1>4. Held("bundle")' = {}
  BY DEF Restart, Held, Empty, Stores
<1> QED
  BY <1>1, <1>2, <1>3, <1>4 DEF Restart, KeysAreIssued, KeyInOnePlace, StaleForGood, ScansArePast, Carries, Storing, Taking

THEOREM NextStores == StoresInv /\ [Next]_vars => StoresInv'
<1> SUFFICES ASSUME StoresInv, [Next]_vars
             PROVE  StoresInv'
  OBVIOUS
<1>1. CASE UNCHANGED vars
  BY <1>1 DEF vars, StoresInv, TypeOK, KeysAreIssued, KeyInOnePlace, StaleForGood, ScansArePast, Carries,
              Storing, Held
<1>2. ASSUME NEW w \in Workers, Fills(w)
      PROVE  StoresInv'
  BY <1>2, IssueInv, RetryInv, BeginScanInv, EndScanInv, SweepFailsInv, InsertInv, DropStaleInv DEF Fills
<1>3. ASSUME NEW w \in Workers, Empties(w)
      PROVE  StoresInv'
  BY <1>3, OpenPageInv, PopInv, ShowPageInv, DropPasswordInv, AnswerInv
     DEF Empties, Download, DownloadByQr
<1>4. CASE Tick \/ Restart
  BY <1>4, TickInv, RestartInv
<1> QED
  BY <1>1, <1>2, <1>3, <1>4 DEF Next

THEOREM SpecStores == Spec => []StoresInv
BY InitStores, NextStores, PTL DEF Spec

(***************************************************************************)
(* The theorems.                                                           *)
(***************************************************************************)

\* The stores, the requests and the clock keep their types; a scan's count
\* of the entries is a number because the stores are finite.
THEOREM SpecTypeOK == Spec => []TypeOK
BY SpecStores, PTL DEF StoresInv

\* A private key is in one place at most, whichever requests race for it
\* (store_pending_bundle and take_pending_bundle, app/main.py).
THEOREM SpecKeyInOnePlace == Spec => []KeyInOnePlace
BY SpecStores, PTL DEF StoresInv

(***************************************************************************)
(* The stores implement KeyCustody.                                        *)
(***************************************************************************)
\* While StoresInv holds, the tests of StageOf exclude each other.
StagesApart ==
  \A s \in Serials :
    /\ StageOf(s) \in {"none", "made", "kept", "taken", "delivered", "gone"}
    /\ StageOf(s) = "none" <=> cert[s] = "none"
    /\ StageOf(s) = "delivered" <=> delivered[s] > 0
    /\ StageOf(s) = "kept" <=> s \in Held("bundle")
    /\ StageOf(s) = "made" <=> \E w \in Workers : Storing(job[w], s)
    /\ StageOf(s) = "taken" <=> \E w \in Workers : Taking(job[w], s)

LEMMA Stages == StoresInv => StagesApart
<1> SUFFICES ASSUME StoresInv, NEW s \in Serials
             PROVE  /\ StageOf(s) \in {"none", "made", "kept", "taken", "delivered", "gone"}
                    /\ StageOf(s) = "none" <=> cert[s] = "none"
                    /\ StageOf(s) = "delivered" <=> delivered[s] > 0
                    /\ StageOf(s) = "kept" <=> s \in Held("bundle")
                    /\ StageOf(s) = "made" <=> \E w \in Workers : Storing(job[w], s)
                    /\ StageOf(s) = "taken" <=> \E w \in Workers : Taking(job[w], s)
  BY DEF StagesApart
<1>1. \A w \in Workers : Storing(job[w], s) \/ Taking(job[w], s) <=> Carries(w, s)
  BY DEF Carries
<1>2. \A w \in Workers : ~(Storing(job[w], s) /\ Taking(job[w], s))
  BY DEF Storing, Taking
<1>3. delivered[s] \in 0..1
  BY DEF StoresInv, TypeOK
<1> QED
  BY <1>1, <1>2, <1>3 DEF StoresInv, KeysAreIssued, KeyInOnePlace, StageOf

\* A step of a request leaves a key where it is when it touches neither its
\* entry nor its certificate, and has it in hand afterwards as before.
Untouched(w, j, r) ==
  /\ cert'[r] = cert[r] /\ delivered'[r] = delivered[r]
  /\ pending'["bundle"][r] = pending["bundle"][r]
  /\ Storing(j, r) <=> Storing(job[w], r)
  /\ Taking(j, r) <=> Taking(job[w], r)

LEMMA Stays ==
  ASSUME StoresInv, NEW w \in Workers, NEW j \in Jobs, Set(w, j), NEW r \in Serials, Untouched(w, j, r)
  PROVE  StageOf(r)' = StageOf(r)
<1>1. job' \in [Workers -> Jobs] /\ job'[w] = j /\ \A v \in Workers : v # w => job'[v] = job[v]
  BY Sets DEF StoresInv
<1>2. \A v \in Workers : (Storing(job'[v], r) <=> Storing(job[v], r)) /\ (Taking(job'[v], r) <=> Taking(job[v], r))
  BY <1>1 DEF Untouched
<1>3. r \in Held("bundle")' <=> r \in Held("bundle")
  BY DEF Untouched, Held
<1> QED
  BY <1>2, <1>3 DEF Untouched, StageOf

\* A step that moves one key.
LEMMA Moves ==
  ASSUME NEW s \in Serials, NEW from, NEW to, StageOf(s) \in from, StageOf(s)' = to,
         \A r \in Serials : r # s => StageOf(r)' = StageOf(r)
  PROVE  Custody!Move(s, from, to)
BY DEF Custody!Move

LEMMA Quiet ==
  ASSUME StoresInv, NEW w \in Workers, NEW j \in Jobs, Set(w, j),
         UNCHANGED <<clock, pending["bundle"]>>, \A r \in Serials : Untouched(w, j, r)
  PROVE  UNCHANGED Custody!custodyVars
<1>1. \A r \in Serials : StageOf(r)' = StageOf(r)
  BY Stays
<1> QED
  BY <1>1 DEF Custody!custodyVars

\* What a function of the stores says when one entry is put.
LEMMA PutsBundle ==
  ASSUME StoresInv, NEW s \in Serials, NEW t \in Times \union {Never}, Put("bundle", s, t)
  PROVE  pending'["bundle"] = [pending["bundle"] EXCEPT ![s] = t]
BY DEF StoresInv, TypeOK, Put, Stores

LEMMA PutsPassword ==
  ASSUME StoresInv, NEW s \in Serials, NEW t, Put("password", s, t)
  PROVE  pending'["bundle"] = pending["bundle"]
BY DEF StoresInv, TypeOK, Put, Stores

\* What a step may use of its two states.
Holds == StoresInv /\ StoresInv' /\ StagesApart /\ StagesApart'

LEMMA IssueMakes ==
  ASSUME Holds, NEW w \in Workers, NEW s \in Serials, NEW way \in {"web", "api"}, Issue(w, s, way)
  PROVE  Custody!Make(s)
<1> USE DEF Holds
<1> DEFINE j == [op |-> "store", serial |-> s, to |-> "bundle", key |-> TRUE]
<1>1. /\ j \in Jobs /\ Set(w, j) /\ job[w] = Idle
      /\ cert[s] = "none" /\ cert' = [cert EXCEPT ![s] = way]
      /\ UNCHANGED <<clock, pending, delivered>>
  BY DEF Issue, Jobs, Stores
<1>2. job'[w] = j
  BY <1>1, Sets DEF StoresInv
<1>3. StageOf(s) = "none" /\ StageOf(s)' = "made"
  BY <1>1, <1>2 DEF StagesApart, Storing
<1>4. \A r \in Serials : r # s => Untouched(w, j, r)
  BY <1>1 DEF Untouched, StoresInv, TypeOK, Storing, Taking, Idle
<1>5. \A r \in Serials : r # s => StageOf(r)' = StageOf(r)
  BY <1>1, <1>4, Stays
<1>6. Custody!Move(s, {"none"}, "made")
  BY <1>3, <1>5, Moves
<1> QED
  BY <1>1, <1>6 DEF Custody!Make

LEMMA DropStaleExpires ==
  ASSUME Holds, NEW w \in Workers, NEW s \in Serials, DropStale(w, s)
  PROVE  Custody!Expire(s) \/ UNCHANGED Custody!custodyVars
<1> USE DEF Holds
<1> DEFINE o == job[w]
           j == [o EXCEPT !.stale = @ \ {s}]
<1>1. /\ o.op = "sweep" /\ s \in o.stale /\ s \in Held(o.to) /\ Put(o.to, s, Never) /\ Set(w, j)
      /\ UNCHANGED <<clock, cert, delivered>>
  BY DEF DropStale
<1>2. o \in Sweeps
  BY <1>1, JobShapes DEF StoresInv, TypeOK
<1>3. j \in Sweeps /\ j.op = o.op /\ j.serial = o.serial /\ j.to = o.to /\ j.key = o.key
  BY <1>2 DEF Sweeps
<1>4. j \in Jobs
  BY <1>3 DEF Jobs, Sweeps
<1>5. \A r \in Serials : (Storing(j, r) <=> Storing(o, r)) /\ (Taking(j, r) <=> Taking(o, r))
  BY <1>3 DEF Storing, Taking
<1>6. CASE o.to = "password"
  <2>1. pending'["bundle"] = pending["bundle"]
    BY <1>1, <1>6, PutsPassword
  <2>2. \A r \in Serials : Untouched(w, j, r)
    BY <1>1, <1>5, <2>1 DEF Untouched
  <2> QED
    BY <1>1, <1>4, <2>1, <2>2, Quiet
<1>7. CASE o.to = "bundle"
  <2>1. pending'["bundle"] = [pending["bundle"] EXCEPT ![s] = Never]
    BY <1>1, <1>7, PutsBundle
  <2>2. pending["bundle"] \in [Serials -> Times \union {Never}]
    BY DEF StoresInv, TypeOK, Stores
  <2>3. \A r \in Serials : r # s => Untouched(w, j, r)
    BY <1>1, <1>5, <2>1 DEF Untouched
  <2>4. s \in Held("bundle") /\ ~(s \in Held("bundle"))'
    BY <1>1, <1>7, <2>1, <2>2 DEF Held
  <2>5. StageOf(s) = "kept"
    BY <2>4 DEF StagesApart
  <2>6. /\ job' \in [Workers -> Jobs] /\ job'[w] = j
        /\ \A v \in Workers : v # w => job'[v] = job[v]
    BY <1>1, <1>4, Sets DEF StoresInv
  <2>7. \A v \in Workers : ~Carries(v, s) /\ ~Carries(v, s)'
    BY <1>5, <2>4, <2>6 DEF StoresInv, KeyInOnePlace, Carries
  <2>8. cert'[s] # "none" /\ ~(delivered'[s] > 0)
    BY <1>1, <2>4 DEF StoresInv, KeyInOnePlace, KeysAreIssued
  <2>9. StageOf(s)' = "gone"
    BY <2>4, <2>7, <2>8 DEF StagesApart, Carries
  <2>10. clock - pending["bundle"][s] > Ttl
    BY <1>1, <1>7, <2>4 DEF StoresInv, StaleForGood
  <2>11. Custody!Move(s, {"kept"}, "gone")
    BY <1>1, <1>4, <2>3, <2>5, <2>9, Stays, Moves
  <2> QED
    BY <1>1, <2>1, <2>5, <2>10, <2>11 DEF Custody!Expire, Custody!Leave
<1> QED
  BY <1>2, <1>6, <1>7 DEF Sweeps, Stores

LEMMA FailLoses ==
  ASSUME Holds, NEW w \in Workers, NEW s \in Serials, Carries(w, s), Set(w, Idle),
         UNCHANGED <<clock, cert, pending, delivered>>
  PROVE  Custody!Fail(s)
<1> USE DEF Holds
<1>1. /\ Idle \in Jobs /\ job' \in [Workers -> Jobs] /\ job'[w] = Idle
      /\ \A v \in Workers : v # w => job'[v] = job[v]
  BY Sets DEF StoresInv, Jobs
<1>2. \A r \in Serials : ~Storing(Idle, r) /\ ~Taking(Idle, r)
  BY DEF Storing, Taking, Idle
<1>3. /\ s \notin Held("bundle") /\ delivered[s] = 0 /\ cert[s] # "none"
      /\ \A v \in Workers : Carries(v, s) => v = w
  BY DEF StoresInv, KeyInOnePlace, KeysAreIssued
<1>4. \A r \in Serials : r # s => ~Carries(w, r)
  BY DEF Carries, Storing, Taking
<1>5. \A r \in Serials : r # s => Untouched(w, Idle, r)
  BY <1>2, <1>4 DEF Untouched, Carries
<1>6. ~(s \in Held("bundle"))' /\ ~(delivered'[s] > 0) /\ cert'[s] # "none"
  BY <1>3 DEF Held
<1>7. \A v \in Workers : ~Storing(job'[v], s) /\ ~Taking(job'[v], s)
  BY <1>1, <1>2, <1>3 DEF Carries
<1>8. StageOf(s) \in {"made", "taken"} /\ StageOf(s)' = "gone"
  BY <1>6, <1>7 DEF StagesApart, Carries
<1>9. Custody!Move(s, {"made", "taken"}, "gone")
  BY <1>1, <1>5, <1>8, Stays, Moves
<1> QED
  BY <1>9 DEF Custody!Fail

LEMMA QuietEnd ==
  ASSUME Holds, NEW w \in Workers, \A s \in Serials : ~Carries(w, s), NEW j \in Jobs, Set(w, j),
         \A s \in Serials : ~Storing(j, s) /\ ~Taking(j, s),
         UNCHANGED <<clock, cert, pending["bundle"], delivered>>
  PROVE  UNCHANGED Custody!custodyVars
<1>1. \A s \in Serials : Untouched(w, j, s)
  BY DEF Untouched, Carries
<1> QED
  BY <1>1, Quiet DEF Holds

LEMMA InsertKeeps ==
  ASSUME Holds, NEW w \in Workers, Insert(w)
  PROVE  (\E s \in Serials : Custody!Keep(s)) \/ UNCHANGED Custody!custodyVars
<1> USE DEF Holds
<1>0. job[w] \in Jobs /\ job[w].op = "sweep" /\ job[w].serial \in Serials
  BY JobShapes DEF Insert, StoresInv, TypeOK, Idle
<1> PICK s \in Serials : s = job[w].serial
  BY <1>0
<1> DEFINE o == job[w]
           n == [op |-> "store", serial |-> s, to |-> "password", key |-> TRUE]
           last == o.to = "password" \/ cert[s] = "api"
           j == IF last THEN Idle ELSE n
<1>1. /\ o \in Jobs /\ o.op = "sweep" /\ Set(w, j)
      /\ UNCHANGED <<clock, cert, delivered>>
      /\ IF o.key THEN Put(o.to, s, o.at) ELSE UNCHANGED pending
  BY DEF Insert, StoresInv, TypeOK
<1>2. s \in Serials /\ o.to \in Stores /\ o.key \in BOOLEAN /\ o.at \in Times
  BY <1>1, JobShapes DEF Idle
<1>3. j \in Jobs
  BY <1>2 DEF Jobs, Stores
<1>4. \A r \in Serials : ~Storing(j, r) /\ ~Taking(j, r)
  BY DEF Storing, Taking, Idle
<1>5. CASE ~(o.key /\ o.to = "bundle")
  <2>1. pending'["bundle"] = pending["bundle"]
    BY <1>1, <1>2, <1>5, PutsPassword DEF Stores
  <2>2. \A r \in Serials : ~Carries(w, r)
    BY <1>1, <1>5 DEF Carries, Storing, Taking
  <2> QED
    BY <1>1, <1>3, <1>4, <2>1, <2>2, QuietEnd
<1>6. CASE o.key /\ o.to = "bundle"
  <2>1. pending'["bundle"] = [pending["bundle"] EXCEPT ![s] = o.at]
    BY <1>1, <1>2, <1>6, PutsBundle
  <2>2. Storing(o, s) /\ \A r \in Serials : ~Taking(o, r) /\ (r # s => ~Storing(o, r))
    BY <1>1, <1>6 DEF Storing, Taking
  <2>4. pending["bundle"] \in [Serials -> Times \union {Never}]
    BY DEF StoresInv, TypeOK, Stores
  <2>3. \A r \in Serials : r # s => Untouched(w, j, r)
    BY <1>1, <1>4, <2>1, <2>2, <2>4 DEF Untouched
  <2>5. (s \in Held("bundle"))'
    BY <1>2, <2>1, <2>4, TimesAssumption DEF Held, Times
  <2>6. StageOf(s) = "made" /\ StageOf(s)' = "kept"
    BY <1>2, <2>2, <2>5 DEF StagesApart
  <2>7. \A r \in Serials : r # s => StageOf(r)' = StageOf(r)
    BY <1>1, <1>3, <2>3, Stays
  <2>8. Custody!Move(s, {"made"}, "kept")
    BY <1>2, <2>6, <2>7, Moves
  <2>9. o.at \in 0..clock
    BY <1>1, <1>2 DEF StoresInv, ScansArePast, TypeOK, Times
  <2>10. Custody!Keep(s)
    BY <1>1, <2>1, <2>8, <2>9 DEF Custody!Keep
  <2> QED
    BY <1>2, <2>10
<1> QED
  BY <1>5, <1>6

LEMMA PopTakes ==
  ASSUME Holds, NEW w \in Workers, NEW s \in Serials, job[w] = Idle, PopBundle(w, s),
         UNCHANGED <<clock, cert, delivered>>
  PROVE  Custody!Take(s) \/ UNCHANGED Custody!custodyVars
<1> USE DEF Holds
<1> DEFINE has == s \in Held("bundle")
           j == [op |-> "drop", serial |-> s, key |-> has]
<1>1. j \in Jobs /\ Set(w, j) /\ Put("bundle", s, Never)
  BY DEF PopBundle, Jobs
<1>2. pending'["bundle"] = [pending["bundle"] EXCEPT ![s] = Never]
  BY <1>1, PutsBundle
<1>3. pending["bundle"] \in [Serials -> Times \union {Never}]
  BY DEF StoresInv, TypeOK, Stores
<1>4. \A r \in Serials : ~Storing(job[w], r) /\ ~Taking(job[w], r) /\ ~Storing(j, r)
  BY DEF Storing, Taking, Idle
<1>5. \A r \in Serials : Taking(j, r) <=> r = s /\ has
  BY Zenon DEF Taking
<1>6. CASE ~has
  <2>1. pending'["bundle"] = pending["bundle"]
    BY <1>2, <1>3, <1>6 DEF Held
  <2>2. \A r \in Serials : ~Taking(j, r) /\ ~Carries(w, r)
    BY <1>4, <1>5, <1>6 DEF Carries
  <2> QED
    BY <1>1, <1>4, <2>1, <2>2, QuietEnd
<1>7. CASE has
  <2>1. \A r \in Serials : r # s => Untouched(w, j, r)
    BY <1>2, <1>4, <1>5 DEF Untouched
  <2>2. \A r \in Serials : r # s => StageOf(r)' = StageOf(r)
    BY <1>1, <2>1, Stays
  <2>3. job'[w] = j
    BY <1>1, Sets DEF StoresInv
  <2>4. Taking(job'[w], s)
    BY <1>5, <1>7, <2>3
  <2>5. StageOf(s) = "kept" /\ StageOf(s)' = "taken"
    BY <1>7, <2>4 DEF StagesApart
  <2>6. Custody!Move(s, {"kept"}, "taken")
    BY <2>2, <2>5, Moves
  <2> QED
    BY <1>2, <2>6 DEF Custody!Take, Custody!Leave
<1> QED
  BY <1>6, <1>7

LEMMA DropPasswordQuiet ==
  ASSUME Holds, NEW w \in Workers, DropPassword(w)
  PROVE  UNCHANGED Custody!custodyVars
<1> USE DEF Holds
<1> DEFINE o == job[w]
           a == [o EXCEPT !.op = "answer"]
           j == IF o.key THEN a ELSE Idle
<1>1. /\ o.op = "drop" /\ Set(w, j) /\ Put("password", o.serial, Never)
      /\ UNCHANGED <<clock, cert, delivered>>
  BY DEF DropPassword
<1>2. o \in Drops
  BY <1>1, JobShapes DEF StoresInv, TypeOK
<1>3. o.key => a \in Answers /\ a.serial = o.serial /\ a.op = "answer" /\ a.key
  BY <1>2 DEF Drops, Answers
<1>4. j \in Jobs
  BY <1>3 DEF Jobs, Answers
<1>5. pending'["bundle"] = pending["bundle"]
  BY <1>1, <1>2, PutsPassword DEF Drops
<1>6. \A r \in Serials : (Storing(j, r) <=> Storing(o, r)) /\ (Taking(j, r) <=> Taking(o, r))
  BY <1>1, <1>3 DEF Storing, Taking, Idle
<1>7. \A r \in Serials : Untouched(w, j, r)
  BY <1>1, <1>5, <1>6 DEF Untouched
<1> QED
  BY <1>1, <1>4, <1>5, <1>7, Quiet

LEMMA AnswerDelivers ==
  ASSUME Holds, NEW w \in Workers, Answer(w)
  PROVE  \E s \in Serials : Custody!Deliver(s) \/ Custody!Fail(s)
<1> USE DEF Holds
<1>0. job[w] \in Jobs /\ job[w].op = "answer" /\ job[w].serial \in Serials
  BY JobShapes DEF Answer, StoresInv, TypeOK, Idle
<1> PICK s \in Serials : s = job[w].serial
  BY <1>0
<1>1. /\ job[w] \in Jobs /\ job[w].op = "answer" /\ Set(w, Idle) /\ Idle \in Jobs
      /\ UNCHANGED <<clock, cert, pending>>
  BY DEF Answer, StoresInv, TypeOK, Jobs
<1>2. s \in Serials /\ job[w].key
  BY <1>1, JobShapes, AnswerHasKey DEF Idle
<1>3. Taking(job[w], s)
  BY <1>1, <1>2 DEF Taking
<1>4. CASE UNCHANGED delivered
  BY <1>1, <1>2, <1>3, <1>4, FailLoses DEF Carries
<1>5. CASE delivered' = [delivered EXCEPT ![s] = @ + 1]
  <2>1. delivered \in [Serials -> 0..1]
    BY DEF StoresInv, TypeOK
  <2>2. delivered'[s] > 0 /\ \A r \in Serials : r # s => delivered'[r] = delivered[r]
    BY <1>2, <1>5, <2>1
  <2>3. StageOf(s) = "taken" /\ StageOf(s)' = "delivered"
    BY <1>2, <1>3, <2>2 DEF StagesApart
  <2>4. \A r \in Serials : r # s => Untouched(w, Idle, r)
    BY <1>1, <2>2 DEF Untouched, Storing, Taking, Idle
  <2>5. \A r \in Serials : r # s => StageOf(r)' = StageOf(r)
    BY <1>1, <2>4, Stays
  <2>6. Custody!Move(s, {"taken"}, "delivered")
    BY <1>2, <2>3, <2>5, Moves
  <2> QED
    BY <1>1, <1>2, <2>6 DEF Custody!Deliver
<1> QED
  BY <1>4, <1>5 DEF Answer

LEMMA RestartEnds ==
  ASSUME Holds, Restart
  PROVE  Custody!ProcessEnds
<1> USE DEF Holds
<1>1. /\ \A w \in Workers : job'[w] = Idle
      /\ pending'["bundle"] = [r \in Serials |-> Never]
      /\ UNCHANGED <<clock, cert, delivered>>
  BY DEF Restart, Empty, Stores
<1>2. \A r \in Serials : ~(r \in Held("bundle"))'
  BY <1>1 DEF Held
<1>3. \A w \in Workers, r \in Serials : ~Storing(job'[w], r) /\ ~Taking(job'[w], r)
  BY <1>1 DEF Storing, Taking, Idle
<1>4. \A r \in Serials :
        StageOf(r)' = IF StageOf(r) \in {"none", "delivered"} THEN StageOf(r) ELSE "gone"
  BY <1>1, <1>2, <1>3 DEF StagesApart
<1> QED
  BY <1>1, <1>4 DEF Custody!ProcessEnds

LEMMA SweepFailsLoses ==
  ASSUME Holds, NEW w \in Workers, SweepFails(w)
  PROVE  (\E s \in Serials : Custody!Fail(s)) \/ UNCHANGED Custody!custodyVars
<1>1. Set(w, Idle) /\ Idle \in Jobs /\ UNCHANGED <<clock, cert, pending, delivered>>
  BY DEF SweepFails, Jobs
<1>2. CASE \E s \in Serials : Carries(w, s)
  BY <1>1, <1>2, FailLoses
<1>3. CASE \A s \in Serials : ~Carries(w, s)
  <2>1. \A s \in Serials : ~Storing(Idle, s) /\ ~Taking(Idle, s)
    BY DEF Storing, Taking, Idle
  <2> QED
    BY <1>1, <1>3, <2>1, QuietEnd
<1> QED
  BY <1>2, <1>3

\* The steps of a request that has no key in hand and takes none.
LEMMA EmptyHanded ==
  ASSUME Holds, NEW w \in Workers,
         ShowPage(w) \/ \E s \in Serials : RetryAtApi(w, s) \/ OpenPage(w, s)
  PROVE  UNCHANGED Custody!custodyVars
<1>1. job[w].op \in {"none", "page"} /\ UNCHANGED <<clock, cert, pending, delivered>>
  <2>1. CASE ShowPage(w)
    BY <2>1 DEF ShowPage
  <2>2. CASE \E s \in Serials : RetryAtApi(w, s) \/ OpenPage(w, s)
    <3>1. job[w] = Idle /\ UNCHANGED <<clock, cert, pending, delivered>>
      BY <2>2 DEF RetryAtApi, OpenPage
    <3> QED
      BY <3>1 DEF Idle
  <2> QED
    BY <2>1, <2>2
<1>2. \A r \in Serials : ~Carries(w, r)
  BY <1>1 DEF Carries, Storing, Taking
<1>3. ASSUME NEW j \in Jobs, Set(w, j), \A r \in Serials : ~Storing(j, r) /\ ~Taking(j, r)
      PROVE  UNCHANGED Custody!custodyVars
  BY <1>1, <1>2, <1>3, QuietEnd
<1>4. CASE ShowPage(w)
  <2>1. Idle \in Jobs /\ Set(w, Idle) /\ \A r \in Serials : ~Storing(Idle, r) /\ ~Taking(Idle, r)
    BY <1>4 DEF ShowPage, Jobs, Idle, Storing, Taking
  <2> QED
    BY <1>3, <2>1
<1>5. ASSUME NEW s \in Serials, RetryAtApi(w, s)
      PROVE  UNCHANGED Custody!custodyVars
  <2> DEFINE j == [op |-> "store", serial |-> s, to |-> "bundle", key |-> FALSE]
  <2>1. j \in Jobs /\ Set(w, j) /\ \A r \in Serials : ~Storing(j, r) /\ ~Taking(j, r)
    BY <1>5 DEF RetryAtApi, Jobs, Stores, Storing, Taking
  <2> QED
    BY <1>3, <2>1
<1>6. ASSUME NEW s \in Serials, OpenPage(w, s)
      PROVE  UNCHANGED Custody!custodyVars
  <2> DEFINE j == [op |-> "page", serial |-> s]
  <2>1. j \in Jobs /\ Set(w, j) /\ \A r \in Serials : ~Storing(j, r) /\ ~Taking(j, r)
    BY <1>6 DEF OpenPage, Jobs, Storing, Taking
  <2> QED
    BY <1>3, <2>1
<1> QED
  BY <1>4, <1>5, <1>6

LEMMA ScansQuiet ==
  ASSUME Holds, NEW w \in Workers, BeginScan(w) \/ EndScan(w)
  PROVE  UNCHANGED Custody!custodyVars
<1> USE DEF Holds
<1>1. /\ job[w].op \in {"store", "scan"} /\ job' \in [Workers -> Jobs]
      /\ \E j : /\ Set(w, j)
                /\ j.op \in {"scan", "sweep"} /\ j.serial = job[w].serial
                /\ j.to = job[w].to /\ j.key = job[w].key
      /\ UNCHANGED <<clock, cert, pending, delivered>>
  BY DEF BeginScan, EndScan, StoresInv, TypeOK
<1>2. PICK j : /\ Set(w, j)
               /\ j.op \in {"scan", "sweep"} /\ j.serial = job[w].serial
               /\ j.to = job[w].to /\ j.key = job[w].key
  BY <1>1
<1>3. j \in Jobs
  BY <1>1, <1>2 DEF Set, StoresInv, TypeOK
<1>4. \A r \in Serials : Untouched(w, j, r)
  BY <1>1, <1>2 DEF Untouched, Storing, Taking
<1> QED
  BY <1>1, <1>2, <1>3, <1>4, Quiet

LEMMA CustodyStep == Holds /\ [Next]_vars => [Custody!CustodyNext]_(Custody!custodyVars)
<1> SUFFICES ASSUME Holds, [Next]_vars
             PROVE  [Custody!CustodyNext]_(Custody!custodyVars)
  OBVIOUS
<1>1. ASSUME NEW w \in Workers, Fills(w)
      PROVE  [Custody!CustodyNext]_(Custody!custodyVars)
  BY <1>1, IssueMakes, EmptyHanded, ScansQuiet, SweepFailsLoses, InsertKeeps, DropStaleExpires
     DEF Fills, Custody!CustodyNext
<1>2. ASSUME NEW w \in Workers, Empties(w)
      PROVE  [Custody!CustodyNext]_(Custody!custodyVars)
  BY <1>2, EmptyHanded, PopTakes, DropPasswordQuiet, AnswerDelivers
     DEF Empties, Download, DownloadByQr, Custody!CustodyNext
<1>3. ASSUME UNCHANGED <<cert, pending, job, delivered>>
      PROVE  \A r \in Serials : StageOf(r)' = StageOf(r)
  BY <1>3 DEF StageOf, Held, Storing, Taking
<1>4. CASE Tick
  BY <1>3, <1>4 DEF Tick, Custody!CustodyNext, Custody!CustodyTick
<1>5. CASE Restart
  BY <1>5, RestartEnds DEF Custody!CustodyNext
<1>6. CASE UNCHANGED vars
  BY <1>3, <1>6 DEF vars, Custody!custodyVars
<1> QED
  BY <1>1, <1>2, <1>4, <1>5, <1>6 DEF Next

LEMMA CustodyStarts == Init => Custody!CustodyInit
<1> SUFFICES ASSUME Init
             PROVE  Custody!CustodyInit
  OBVIOUS
<1>1. pending["bundle"] = [s \in Serials |-> Never] /\ clock = 0 /\ \A s \in Serials : cert[s] = "none"
  BY DEF Init, Empty, Stores
<1> QED
  BY <1>1 DEF Custody!CustodyInit, StageOf

\* The one-time stores implement KeyCustody: a key goes through the store to
\* one download and never back; it leaves the store with that download, after
\* its time, or with the process (store_pending_bundle, take_pending_bundle
\* and _sweep_stale, app/main.py).
THEOREM SpecKeepsCustody == Spec => KeepsCustody
<1>1. StoresInv /\ StoresInv' /\ [Next]_vars => [Custody!CustodyNext]_(Custody!custodyVars)
  <2>1. StoresInv' => StagesApart'
    BY Stages, PTL
  <2> QED
    BY <2>1, Stages, CustodyStep DEF Holds
<1> QED
  BY <1>1, CustodyStarts, SpecStores, PTL DEF Spec, KeepsCustody, Custody!CustodySpec

=============================================================================

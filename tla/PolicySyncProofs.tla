-------------------------- MODULE PolicySyncProofs --------------------------
(***************************************************************************)
(* Proofs about PolicySync, for every value of its constants: a valid      *)
(* policy is never staler than its lifetime; published bindings never      *)
(* regress, what the site records about its policy is true, and the        *)
(* distribution implements PolicyView.                                     *)
(***************************************************************************)
EXTENDS PolicySync, TLAPS

(***************************************************************************)
(* The inductive invariant of the lease.                                   *)
(***************************************************************************)
Holding == {"fetched"} \union Installing

\* A pass that has an answer to work on has a published policy.
Answered == pc \in Holding => resp \in rows

\* Every policy in a file of the site has been published.
FilesArePublished ==
  /\ live \in rows \union {NoFile, Torn}
  /\ backup \in rows \union {NoFile, Torn}

\* Version v of an object is not ahead of the committed one, and the first edit
\* it lacks was committed at time t or later.
FreshAt(o, v, t) ==
  /\ v <= cfg[o]
  /\ v < cfg[o] => t <= changedAt[o][v + 1]

Fresh(c, t) == \A o \in Objects : FreshAt(o, c[o], t)

EditsBounded == \A o \in Objects : cfg[o] <= MaxEdits

RowsAreFresh == \A p \in rows : p.issued <= now /\ Fresh(p.cfg, p.issued)

DraftsAreFresh ==
  \A w \in Publishers :
    /\ pub[w].step \in {"due", "read"} => FreshAt(SiteRow, pub[w].site, now)
    /\ pub[w].step = "compiled" => pub[w].issued = now /\ Fresh(pub[w].cfg, pub[w].issued)

LeaseInv ==
  /\ TypeOK
  /\ Answered
  /\ FilesArePublished
  /\ EditsBounded
  /\ RowsAreFresh
  /\ DraftsAreFresh

THEOREM InitLease == Init => LeaseInv
<1> SUFFICES ASSUME Init PROVE LeaseInv
  OBVIOUS
<1>1. TypeOK
  BY BoundAssumption DEF Init, TypeOK, Versions, NoVersion, IdleDraft, Drafts, Acks,
     AgentSteps
<1>2. Answered /\ FilesArePublished /\ EditsBounded /\ RowsAreFresh /\ DraftsAreFresh
  BY BoundAssumption DEF Init, Answered, Holding, Installing, FilesArePublished,
     EditsBounded, RowsAreFresh, DraftsAreFresh, NoVersion, IdleDraft
<1> QED
  BY <1>1, <1>2 DEF LeaseInv

(***************************************************************************)
(* The hub's steps.                                                        *)
(***************************************************************************)

\* Committing an edit keeps a stamp of the past fresh.
LEMMA FreshAfterEdit ==
  ASSUME TypeOK, NEW o \in Objects, CommitEdit(o), NEW x \in Objects, NEW v \in Nat,
         NEW t \in Nat, t <= now, FreshAt(x, v, t)
  PROVE  /\ v <= cfg'[x]
         /\ v < cfg'[x] => t <= changedAt'[x][v + 1]
<1>1. cfg[x] \in Nat /\ v <= cfg[x] /\ (v < cfg[x] => t <= changedAt[x][v + 1])
  BY DEF TypeOK, Versions, FreshAt
<1>2. CASE x # o
  BY <1>1, <1>2 DEF CommitEdit, TypeOK, Versions
<1>3. CASE x = o
  <2>1. cfg'[o] = cfg[o] + 1
    BY DEF CommitEdit, TypeOK, Versions
  <2>2. changedAt'[o] = [changedAt[o] EXCEPT ![cfg[o] + 1] = now]
    BY DEF CommitEdit, TypeOK, Versions
  <2>3. changedAt[o] \in [1..MaxEdits -> Nat] /\ cfg[o] < MaxEdits
    BY DEF CommitEdit, TypeOK
  <2>4. CASE v = cfg[o]
    <3>1. changedAt'[o][v + 1] = now
      BY <1>1, <1>3, <2>2, <2>3, <2>4, BoundAssumption
    <3> QED
      BY <1>1, <1>3, <2>1, <2>4, <3>1
  <2>5. CASE v < cfg[o]
    <3>1. changedAt'[o][v + 1] = changedAt[o][v + 1]
      BY <1>1, <1>3, <2>2, <2>3, <2>5, BoundAssumption
    <3> QED
      BY <1>1, <1>3, <2>1, <2>5, <3>1
  <2> QED
    BY <1>1, <1>3, <2>4, <2>5
<1> QED
  BY <1>2, <1>3

\* What committing an edit does to the configuration and the published rows.
LEMMA HubAfterEdit ==
  ASSUME LeaseInv, NEW o \in Objects, CommitEdit(o), UNCHANGED <<now, rows>>
  PROVE  /\ cfg' \in Versions
         /\ changedAt' \in [Objects -> [1..MaxEdits -> Nat]]
         /\ EditsBounded'
         /\ RowsAreFresh'
<1>1. cfg' \in Versions /\ EditsBounded'
  <2>1. cfg \in [Objects -> Nat] /\ cfg[o] < MaxEdits /\ cfg' = [cfg EXCEPT ![o] = cfg[o] + 1]
    BY DEF LeaseInv, TypeOK, Versions, CommitEdit
  <2>2. \A x \in Objects : cfg'[x] = IF x = o THEN cfg[o] + 1 ELSE cfg[x]
    BY <2>1
  <2>3. cfg' \in [Objects -> Nat]
    BY <2>1
  <2>4. \A x \in Objects : cfg'[x] <= MaxEdits
    BY <2>1, <2>2, BoundAssumption DEF LeaseInv, EditsBounded
  <2> QED
    BY <2>3, <2>4 DEF Versions, EditsBounded
<1>2. changedAt' \in [Objects -> [1..MaxEdits -> Nat]]
  BY DEF LeaseInv, TypeOK, CommitEdit
<1>3. RowsAreFresh'
  <2> SUFFICES ASSUME NEW p \in rows, NEW x \in Objects
               PROVE  /\ p.issued <= now
                      /\ p.cfg[x] <= cfg'[x]
                      /\ p.cfg[x] < cfg'[x] => p.issued <= changedAt'[x][p.cfg[x] + 1]
    BY DEF RowsAreFresh, Fresh, FreshAt, LeaseInv
  <2>1. /\ p.issued \in Nat /\ p.cfg[x] \in Nat
        /\ p.issued <= now /\ FreshAt(x, p.cfg[x], p.issued)
    BY DEF LeaseInv, TypeOK, Policies, Versions, RowsAreFresh, Fresh, FreshAt
  <2> QED
    BY <2>1, FreshAfterEdit DEF LeaseInv
<1> QED
  BY <1>1, <1>2, <1>3

\* A draft in progress survives somebody's edit.
LEMMA DraftAfterEdit ==
  ASSUME LeaseInv, NEW o \in Objects, CommitEdit(o), UNCHANGED now,
         NEW w \in Publishers, pub'[w] = pub[w]
  PROVE  (/\ pub[w].step \in {"due", "read"} => FreshAt(SiteRow, pub[w].site, now)
          /\ pub[w].step = "compiled" =>
               pub[w].issued = now /\ Fresh(pub[w].cfg, pub[w].issued))'
<1>1. /\ pub[w].site \in Nat /\ pub[w].issued \in Nat /\ now \in Nat
      /\ \A x \in Objects : pub[w].cfg[x] \in Nat
  BY DEF LeaseInv, TypeOK, Drafts, Versions
<1>2. ASSUME pub[w].step \in {"due", "read"} PROVE FreshAt(SiteRow, pub[w].site, now)'
  <2>1. FreshAt(SiteRow, pub[w].site, now) /\ SiteRow \in Objects
    BY <1>2 DEF LeaseInv, DraftsAreFresh, Objects
  <2> QED
    BY <1>1, <2>1, FreshAfterEdit DEF LeaseInv, FreshAt
<1>3. ASSUME pub[w].step = "compiled" PROVE (pub[w].issued = now /\ Fresh(pub[w].cfg, pub[w].issued))'
  <2>1. pub[w].issued = now /\ Fresh(pub[w].cfg, pub[w].issued)
    BY <1>3 DEF LeaseInv, DraftsAreFresh
  <2> SUFFICES ASSUME NEW x \in Objects
               PROVE  /\ pub[w].cfg[x] <= cfg'[x]
                      /\ pub[w].cfg[x] < cfg'[x] =>
                           pub[w].issued <= changedAt'[x][pub[w].cfg[x] + 1]
    BY <2>1 DEF Fresh, FreshAt
  <2>2. FreshAt(x, pub[w].cfg[x], pub[w].issued)
    BY <2>1 DEF Fresh
  <2> QED
    BY <1>1, <2>1, <2>2, FreshAfterEdit DEF LeaseInv
<1> QED
  BY <1>2, <1>3

\* A step of one publisher, outside the configuration.
LEMMA DraftsAfterStep ==
  ASSUME LeaseInv, UNCHANGED <<now, cfg, changedAt>>,
         NEW w \in Publishers, NEW d \in Drafts, pub' = [pub EXCEPT ![w] = d],
         d.step \in {"due", "read"} => FreshAt(SiteRow, d.site, now),
         d.step = "compiled" => d.issued = now /\ Fresh(d.cfg, d.issued)
  PROVE  pub' \in [Publishers -> Drafts] /\ DraftsAreFresh'
<1>1. pub \in [Publishers -> Drafts] /\ DraftsAreFresh
  BY DEF LeaseInv, TypeOK
<1>2. pub' \in [Publishers -> Drafts]
  BY <1>1
<1>3. \A v \in Publishers : pub'[v] = IF v = w THEN d ELSE pub[v]
  BY <1>1
<1>4. DraftsAreFresh'
  BY <1>1, <1>3 DEF DraftsAreFresh, Fresh, FreshAt
<1> QED
  BY <1>2, <1>4

\* The draft a publication begins with.
LEMMA BeginDraft ==
  ASSUME NEW w \in Publishers, NEW v \in Nat, BeginPublication(w, v)
  PROVE  \E d \in Drafts : /\ pub' = [pub EXCEPT ![w] = d]
                           /\ d.step = "due" /\ d.site = v
<1> DEFINE d == [step |-> "due", site |-> v, rev |-> 0, cfg |-> NoVersion, issued |-> 0]
<1>1. pub' = [pub EXCEPT ![w] = d]
  BY DEF BeginPublication
<1>2. d \in Drafts /\ d.step = "due" /\ d.site = v
  BY DEF Drafts, NoVersion, Versions
<1> QED
  BY <1>1, <1>2

\* A session that has nothing in progress has nothing stale.
LEMMA DraftGone ==
  ASSUME LeaseInv, NEW w \in Publishers, UNCHANGED <<now, cfg, changedAt>>,
         pub' = [pub EXCEPT ![w] = IdleDraft]
  PROVE  pub' \in [Publishers -> Drafts] /\ DraftsAreFresh'
<1>1. IdleDraft \in Drafts /\ IdleDraft.step = "idle"
  BY DEF IdleDraft, Drafts, NoVersion, Versions
<1> QED
  BY <1>1, DraftsAfterStep

\* What is left of the invariant when rows, the configuration and the clock stay.
LEMMA RowsKept ==
  ASSUME LeaseInv, UNCHANGED <<now, cfg, changedAt, rows>>
  PROVE  EditsBounded' /\ RowsAreFresh'
BY DEF LeaseInv, EditsBounded, RowsAreFresh, Fresh, FreshAt

\* What is left of it when the agent does nothing and no row is lost.
LEMMA AgentKept ==
  ASSUME LeaseInv, UNCHANGED agentVars, rows \subseteq rows'
  PROVE  Answered' /\ FilesArePublished'
BY DEF LeaseInv, Answered, FilesArePublished, agentVars

LEMMA TickLease == LeaseInv /\ Tick => LeaseInv'
<1> SUFFICES ASSUME LeaseInv, Tick PROVE LeaseInv'
  OBVIOUS
<1> USE DEF LeaseInv, Tick, hubVars, agentVars
<1>1. TypeOK'
  BY DEF TypeOK
<1>2. Answered' /\ FilesArePublished' /\ EditsBounded'
  BY DEF Answered, FilesArePublished, EditsBounded
<1>3. RowsAreFresh'
  BY DEF RowsAreFresh, Fresh, FreshAt, TypeOK, Policies
<1>4. DraftsAreFresh'
  BY DEF DraftsAreFresh, InProgress
<1> QED
  BY <1>1, <1>2, <1>3, <1>4

LEMMA WebEditLease ==
  ASSUME LeaseInv, NEW a \in Admins, NEW o \in Objects, WebEdit(a, o)
  PROVE  LeaseInv'
<1>1. /\ CommitEdit(o) /\ UNCHANGED <<now, rows, lastAck, agentVars, faults>>
      /\ BeginPublication(a, cfg'[SiteRow])
  BY DEF WebEdit
<1>2. a \in Publishers /\ SiteRow \in Objects
  BY DEF Publishers, Objects
<1>3. /\ cfg' \in Versions /\ changedAt' \in [Objects -> [1..MaxEdits -> Nat]]
      /\ EditsBounded' /\ RowsAreFresh'
  BY <1>1, HubAfterEdit
<1>4. cfg'[SiteRow] \in Nat
  BY <1>2, <1>3 DEF Versions
<1>5. PICK d \in Drafts : /\ pub' = [pub EXCEPT ![a] = d]
                          /\ d.step = "due" /\ d.site = cfg'[SiteRow]
  BY <1>1, <1>2, <1>4, BeginDraft
<1>6. /\ pub' \in [Publishers -> Drafts]
      /\ \A w \in Publishers : pub'[w] = IF w = a THEN d ELSE pub[w]
  BY <1>2, <1>5 DEF LeaseInv, TypeOK
<1>7. TypeOK'
  BY <1>1, <1>3, <1>6 DEF LeaseInv, TypeOK, agentVars
<1>8. DraftsAreFresh'
  <2> SUFFICES ASSUME NEW w \in Publishers
               PROVE  (/\ pub[w].step \in {"due", "read"} => FreshAt(SiteRow, pub[w].site, now)
                       /\ pub[w].step = "compiled" =>
                            pub[w].issued = now /\ Fresh(pub[w].cfg, pub[w].issued))'
    BY DEF DraftsAreFresh
  <2>1. CASE w = a
    <3>1. pub'[w].step = "due" /\ pub'[w].site = cfg'[SiteRow]
      BY <1>5, <1>6, <2>1
    <3> QED
      BY <1>4, <3>1 DEF FreshAt
  <2>2. CASE w # a
    BY <1>1, <1>6, <2>2, DraftAfterEdit
  <2> QED
    BY <2>1, <2>2
<1>9. Answered' /\ FilesArePublished'
  BY <1>1, AgentKept
<1> QED
  BY <1>3, <1>7, <1>8, <1>9 DEF LeaseInv

LEMMA ApiEditLease ==
  ASSUME LeaseInv, NEW o \in Objects, ApiEdit(o)
  PROVE  LeaseInv'
<1>1. CommitEdit(o) /\ UNCHANGED <<now, rows, pub, lastAck, agentVars, faults>>
  BY DEF ApiEdit
<1>2. /\ cfg' \in Versions /\ changedAt' \in [Objects -> [1..MaxEdits -> Nat]]
      /\ EditsBounded' /\ RowsAreFresh'
  BY <1>1, HubAfterEdit
<1>3. TypeOK'
  BY <1>1, <1>2 DEF LeaseInv, TypeOK, agentVars
<1>4. DraftsAreFresh'
  BY <1>1, DraftAfterEdit DEF DraftsAreFresh
<1>5. Answered' /\ FilesArePublished'
  BY <1>1, AgentKept
<1> QED
  BY <1>2, <1>3, <1>4, <1>5 DEF LeaseInv

\* The three ways a publication begins without an edit of its own.
LEMMA BeginLease ==
  ASSUME LeaseInv, NEW w \in Publishers, BeginPublication(w, cfg[SiteRow]),
         UNCHANGED <<now, cfg, changedAt, rows, lastAck, agentVars, faults>>
  PROVE  LeaseInv'
<1>1. cfg[SiteRow] \in Nat
  BY DEF LeaseInv, TypeOK, Versions, Objects
<1>2. PICK d \in Drafts : /\ pub' = [pub EXCEPT ![w] = d]
                          /\ d.step = "due" /\ d.site = cfg[SiteRow]
  BY <1>1, BeginDraft
<1>3. FreshAt(SiteRow, d.site, now)
  BY <1>1, <1>2 DEF FreshAt
<1>4. pub' \in [Publishers -> Drafts] /\ DraftsAreFresh'
  BY <1>2, <1>3, DraftsAfterStep
<1>5. TypeOK'
  BY <1>4 DEF LeaseInv, TypeOK, agentVars
<1> QED
  BY <1>4, <1>5, RowsKept, AgentKept DEF LeaseInv

LEMMA ReadRevisionLease ==
  ASSUME LeaseInv, NEW w \in Publishers, ReadRevision(w)
  PROVE  LeaseInv'
<1>1. /\ UNCHANGED <<now, cfg, changedAt, rows, lastAck, agentVars, faults>>
      /\ pub[w].step = "due"
  BY DEF ReadRevision
<1>2. pub[w] \in Drafts /\ FreshAt(SiteRow, pub[w].site, now)
  BY <1>1 DEF LeaseInv, TypeOK, DraftsAreFresh
<1>3. PICK n \in Nat : pub' = [pub EXCEPT ![w].step = "read", ![w].rev = n]
  <2>1. CASE rows = {} /\ pub' = [pub EXCEPT ![w].step = "read", ![w].rev = 1]
    BY <2>1
  <2>2. CASE \E p \in rows : pub' = [pub EXCEPT ![w].step = "read", ![w].rev = p.rev + 1]
    <3>1. PICK p \in rows : pub' = [pub EXCEPT ![w].step = "read", ![w].rev = p.rev + 1]
      BY <2>2
    <3>2. p.rev + 1 \in Nat
      BY DEF LeaseInv, TypeOK, Policies
    <3> QED
      BY <3>1, <3>2
  <2> QED
    BY <2>1, <2>2 DEF ReadRevision
<1> DEFINE d == [pub[w] EXCEPT !.step = "read", !.rev = n]
<1>4. d \in Drafts /\ d.step = "read" /\ d.site = pub[w].site
  BY <1>2 DEF Drafts
<1>5. pub' = [pub EXCEPT ![w] = d]
  BY <1>3 DEF LeaseInv, TypeOK
<1> HIDE DEF d
<1>6. pub' \in [Publishers -> Drafts] /\ DraftsAreFresh'
  BY <1>1, <1>2, <1>4, <1>5, DraftsAfterStep
<1>7. TypeOK'
  BY <1>1, <1>6 DEF LeaseInv, TypeOK, agentVars
<1> QED
  BY <1>1, <1>6, <1>7, RowsKept, AgentKept DEF LeaseInv

\* Compiling stamps the draft with the clock; the Site row is no older than
\* the publication, the rest is read now.
LEMMA CompileLease ==
  ASSUME LeaseInv, NEW w \in Publishers, Compile(w)
  PROVE  LeaseInv'
<1>1. /\ UNCHANGED <<now, cfg, changedAt, rows, lastAck, agentVars, faults>>
      /\ pub[w].step = "read"
      /\ pub' = [pub EXCEPT ![w].step = "compiled", ![w].cfg = Compiled(w),
                            ![w].issued = now]
  BY DEF Compile
<1>2. pub[w] \in Drafts /\ FreshAt(SiteRow, pub[w].site, now) /\ now \in Nat
  BY <1>1 DEF LeaseInv, TypeOK, DraftsAreFresh
<1>3. Compiled(w) \in Versions /\ Fresh(Compiled(w), now)
  <2>1. /\ cfg \in [Objects -> Nat] /\ pub[w].site \in Nat
        /\ SiteRow \in Objects
    BY <1>2 DEF LeaseInv, TypeOK, Versions, Drafts, Objects
  <2>2. \A o \in Objects : Compiled(w)[o] = IF o = SiteRow THEN pub[w].site ELSE cfg[o]
    BY <2>1 DEF Compiled
  <2>3. Compiled(w) \in [Objects -> Nat]
    BY <2>1 DEF Compiled
  <2> QED
    BY <1>2, <2>1, <2>2, <2>3 DEF Versions, Fresh, FreshAt
<1> DEFINE d == [pub[w] EXCEPT !.step = "compiled", !.cfg = Compiled(w), !.issued = now]
<1>4. d \in Drafts /\ d.step = "compiled" /\ d.cfg = Compiled(w) /\ d.issued = now
  BY <1>2, <1>3 DEF Drafts
<1>5. pub' = [pub EXCEPT ![w] = d]
  BY <1>1 DEF LeaseInv, TypeOK
<1> HIDE DEF d
<1>6. pub' \in [Publishers -> Drafts] /\ DraftsAreFresh'
  BY <1>1, <1>3, <1>4, <1>5, DraftsAfterStep
<1>7. TypeOK'
  BY <1>1, <1>6 DEF LeaseInv, TypeOK, agentVars
<1> QED
  BY <1>1, <1>6, <1>7, RowsKept, AgentKept DEF LeaseInv

LEMMA DraftIsPolicy ==
  ASSUME LeaseInv, NEW w \in Publishers
  PROVE  /\ DraftPolicy(w) \in Policies
         /\ DraftPolicy(w).cfg = pub[w].cfg
         /\ DraftPolicy(w).issued = pub[w].issued
BY DEF DraftPolicy, LeaseInv, TypeOK, Drafts, Policies

LEMMA InsertLease ==
  ASSUME LeaseInv, NEW w \in Publishers, InsertRevision(w)
  PROVE  LeaseInv'
<1> DEFINE p == DraftPolicy(w)
<1>1. /\ pub[w].step = "compiled" /\ rows' = rows \union {p}
      /\ pub' = [pub EXCEPT ![w] = IdleDraft]
      /\ UNCHANGED <<now, cfg, changedAt, lastAck, backup, siteFiles, passOk, faults>>
      /\ (pc' = "fetched" /\ resp' = p) \/ UNCHANGED <<pc, resp>>
  BY DEF InsertRevision
<1>2. p \in Policies /\ p.cfg = pub[w].cfg /\ p.issued = pub[w].issued
  BY DraftIsPolicy
<1>3. p.issued = now /\ Fresh(p.cfg, p.issued)
  BY <1>1, <1>2 DEF LeaseInv, DraftsAreFresh
<1> HIDE DEF p
<1>4. pub' \in [Publishers -> Drafts] /\ DraftsAreFresh'
  BY <1>1, DraftGone
<1>5. TypeOK'
  BY <1>1, <1>2, <1>4 DEF LeaseInv, TypeOK, AgentSteps, siteFiles
<1>6. RowsAreFresh' /\ EditsBounded'
  BY <1>1, <1>3 DEF LeaseInv, TypeOK, RowsAreFresh, EditsBounded, Fresh, FreshAt
<1>7. Answered' /\ FilesArePublished'
  BY <1>1 DEF LeaseInv, Answered, FilesArePublished, siteFiles
<1> QED
  BY <1>4, <1>5, <1>6, <1>7 DEF LeaseInv

LEMMA AbandonLease ==
  ASSUME LeaseInv, NEW w \in Publishers, RevisionConflict(w) \/ PublisherDies(w)
  PROVE  LeaseInv'
<1>1. /\ pub' = [pub EXCEPT ![w] = IdleDraft]
      /\ UNCHANGED <<now, cfg, changedAt, rows, lastAck, resp, backup, siteFiles>>
      /\ (pc' = "idle" /\ passOk' = FALSE) \/ UNCHANGED <<pc, passOk>>
      /\ faults' \in Nat
  BY DEF RevisionConflict, PublisherDies, Fault, LeaseInv, TypeOK
<1>2. pub' \in [Publishers -> Drafts] /\ DraftsAreFresh'
  BY <1>1, DraftGone
<1>3. TypeOK'
  BY <1>1, <1>2 DEF LeaseInv, TypeOK, AgentSteps, siteFiles
<1>4. Answered' /\ FilesArePublished'
  BY <1>1 DEF LeaseInv, Answered, Holding, Installing, FilesArePublished, siteFiles
<1> QED
  BY <1>1, <1>2, <1>3, <1>4, RowsKept DEF LeaseInv

(***************************************************************************)
(* The site's steps.                                                       *)
(***************************************************************************)
SiteInv ==
  /\ pc \in AgentSteps
  /\ resp \in Policies \union {NoFile}
  /\ backup \in Policies \union {NoFile, Torn}
  /\ live \in Policies \union {NoFile, Torn}
  /\ recRev \in Nat \union {Torn}
  /\ recHash \in Policies \union {NoFile}
  /\ passOk \in BOOLEAN
  /\ faults \in Nat
  /\ lastAck \in Acks
  /\ Answered
  /\ FilesArePublished

LEMMA SiteInvHolds == LeaseInv => SiteInv /\ rows \subseteq Policies
BY DEF LeaseInv, TypeOK, SiteInv

\* A step of the site has only the site's part to keep.
LEMMA SiteStep ==
  ASSUME LeaseInv, OnlySite, SiteInv'
  PROVE  LeaseInv'
<1>1. TypeOK'
  BY DEF LeaseInv, OnlySite, TypeOK, SiteInv, hubVars
<1>2. EditsBounded' /\ RowsAreFresh' /\ DraftsAreFresh'
  BY DEF LeaseInv, OnlySite, hubVars, EditsBounded, RowsAreFresh, DraftsAreFresh, Fresh, FreshAt
<1> QED
  BY <1>1, <1>2 DEF LeaseInv, SiteInv

LEMMA AckType ==
  ASSUME SiteInv, NEW n \in Nat, NEW b \in BOOLEAN, Acknowledge(n, b)
  PROVE  lastAck' \in Acks /\ faults' \in Nat
BY DEF Acknowledge, Fault, SiteInv, Acks

LEMMA AnswerLease ==
  ASSUME LeaseInv, StartPass \/ LoseAnswer \/ Crash \/ (\E p \in rows : Answer(p))
  PROVE  LeaseInv'
<1> SUFFICES SiteInv' /\ OnlySite
  BY SiteStep
<1>0. SiteInv /\ rows \subseteq Policies
  BY SiteInvHolds
<1> USE DEF SiteInv, AgentSteps, Holding, Installing, Answered, FilesArePublished,
            OnlySite, hubVars, siteFiles
<1>1. CASE StartPass
  BY <1>0, <1>1 DEF StartPass
<1>2. CASE LoseAnswer
  <2>1. faults' \in Nat
    BY <1>0, <1>2 DEF LoseAnswer, Fault
  <2> QED
    BY <1>0, <1>2, <2>1 DEF LoseAnswer, EndPass
<1>3. CASE Crash
  <2>1. faults' \in Nat
    BY <1>0, <1>3 DEF Crash, Fault
  <2> QED
    BY <1>0, <1>3, <2>1 DEF Crash, EndPass
<1>4. ASSUME NEW p \in rows, Answer(p) PROVE SiteInv' /\ OnlySite
  BY <1>0, <1>4 DEF Answer
<1> QED
  BY <1>1, <1>2, <1>3, <1>4

LEMMA CheckLease ==
  ASSUME LeaseInv, CheckStep
  PROVE  LeaseInv'
<1> SUFFICES SiteInv' /\ OnlySite
  BY SiteStep
<1>0. SiteInv
  BY SiteInvHolds
<1>1. CASE ReceiveUnchanged
  <2>1. CachedIsUsable \in BOOLEAN
    BY DEF CachedIsUsable
  <2> QED
    BY <1>0, <1>1, <2>1 DEF ReceiveUnchanged, EndPass, SiteInv, AgentSteps, Holding,
       Installing, Answered, FilesArePublished, OnlySite, hubVars, siteFiles
<1>2. CASE VerifyReject
  <2>1. lastAck' \in Acks /\ faults' \in Nat
    BY <1>0, <1>2, AckType DEF VerifyReject
  <2> QED
    BY <1>0, <1>2, <2>1 DEF VerifyReject, EndPass, SiteInv, AgentSteps, Holding,
       Installing, Answered, FilesArePublished, OnlySite, hubVars, siteFiles
<1>3. CASE MismatchReject
  <2>1. recRev \in Nat
    BY <1>0, <1>3 DEF MismatchReject, Verified, RevisionAccepted, SiteInv
  <2>2. lastAck' \in Acks /\ faults' \in Nat
    BY <1>0, <1>3, <2>1, AckType DEF MismatchReject
  <2> QED
    BY <1>0, <1>3, <2>2 DEF MismatchReject, EndPass, SiteInv, AgentSteps, Holding,
       Installing, Answered, FilesArePublished, OnlySite, hubVars, siteFiles
<1> QED
  BY <1>1, <1>2, <1>3 DEF CheckStep

LEMMA InstallLease ==
  ASSUME LeaseInv, InstallStep \/ CheckFails
  PROVE  LeaseInv'
<1> SUFFICES SiteInv' /\ OnlySite
  BY SiteStep
<1>0. SiteInv /\ rows \subseteq Policies
  BY SiteInvHolds
<1> USE DEF SiteInv, AgentSteps, Holding, Installing, Answered, FilesArePublished,
            OnlySite, hubVars, siteFiles
<1>1. CASE BeginInstall
  BY <1>0, <1>1 DEF BeginInstall
<1>2. CASE FinishWrite
  BY <1>0, <1>2 DEF FinishWrite
<1>3. CASE CheckOk
  BY <1>0, <1>3 DEF CheckOk
<1>4. CASE FinishRestore
  <2>1. resp.rev \in Nat
    BY <1>0, <1>4 DEF FinishRestore, Policies
  <2>2. lastAck' \in Acks /\ faults' \in Nat
    BY <1>0, <1>4, <2>1, AckType DEF FinishRestore
  <2> QED
    BY <1>0, <1>4, <2>2 DEF FinishRestore, EndPass
<1>5. CASE CheckFails
  BY <1>0, <1>5 DEF CheckFails, Fault
<1> QED
  BY <1>1, <1>2, <1>3, <1>4, <1>5 DEF InstallStep

LEMMA RecordLease ==
  ASSUME LeaseInv, RecordStep
  PROVE  LeaseInv'
<1> SUFFICES SiteInv' /\ OnlySite
  BY SiteStep
<1>0. SiteInv /\ rows \subseteq Policies
  BY SiteInvHolds
<1> USE DEF SiteInv, AgentSteps, Holding, Installing, Answered, FilesArePublished,
            OnlySite, hubVars, siteFiles
<1>1. CASE OpenRev
  BY <1>0, <1>1 DEF OpenRev
<1>2. CASE WriteRev
  BY <1>0, <1>2 DEF WriteRev, Policies
<1>3. CASE OpenHash
  BY <1>0, <1>3 DEF OpenHash
<1>4. CASE WriteHash
  <2>1. resp.rev \in Nat
    BY <1>0, <1>4 DEF WriteHash, Policies
  <2>2. lastAck' \in Acks /\ faults' \in Nat
    BY <1>0, <1>4, <2>1, AckType DEF WriteHash
  <2> QED
    BY <1>0, <1>4, <2>2 DEF WriteHash, EndPass
<1> QED
  BY <1>1, <1>2, <1>3, <1>4 DEF RecordStep

(***************************************************************************)
(* Every step keeps the invariant; the theorems.                           *)
(***************************************************************************)
LEMMA HubLease ==
  ASSUME LeaseInv, Hub
  PROVE  LeaseInv'
<1>1. ASSUME NEW a \in Admins, NEW o \in Objects, WebEdit(a, o) PROVE LeaseInv'
  BY <1>1, WebEditLease
<1>2. ASSUME NEW o \in Objects, ApiEdit(o) PROVE LeaseInv'
  BY <1>2, ApiEditLease
<1>3. ASSUME NEW a \in Admins, CliPublish(a) PROVE LeaseInv'
  BY <1>3, BeginLease DEF CliPublish, Publishers
<1>4. CASE TimerRefresh
  BY <1>4, BeginLease DEF TimerRefresh, Publishers
<1>5. ASSUME NEW w \in Publishers, PublishStep(w) \/ PublisherDies(w) PROVE LeaseInv'
  BY <1>5, ReadRevisionLease, CompileLease, InsertLease, AbandonLease DEF PublishStep
<1> QED
  BY <1>1, <1>2, <1>3, <1>4, <1>5 DEF Hub

LEMMA AgentLease ==
  ASSUME LeaseInv, Agent \/ Failure
  PROVE  LeaseInv'
<1>1. CASE StartPass \/ LoseAnswer \/ Crash \/ \E p \in rows : Answer(p)
  BY <1>1, AnswerLease
<1>2. CASE PullPublish
  BY <1>2, BeginLease DEF PullPublish, Publishers
<1>3. CASE CheckStep
  BY <1>3, CheckLease
<1>4. CASE InstallStep \/ CheckFails
  BY <1>4, InstallLease
<1>5. CASE RecordStep
  BY <1>5, RecordLease
<1> QED
  BY <1>1, <1>2, <1>3, <1>4, <1>5 DEF Agent, AnswerStep, Failure

LEMMA StutterLease == LeaseInv /\ UNCHANGED vars => LeaseInv'
BY DEF LeaseInv, vars, hubVars, agentVars, TypeOK, Answered, FilesArePublished,
   EditsBounded, RowsAreFresh, DraftsAreFresh, Fresh, FreshAt

LEMMA LeaseStep == LeaseInv /\ [Next]_vars => LeaseInv'
BY TickLease, HubLease, AgentLease, StutterLease DEF Next

\* The inductive invariant: published policies and drafts lack only edits that
\* were committed at their time of issue or later.
THEOREM LeaseInvariance == Spec => []LeaseInv
BY InitLease, LeaseStep, PTL DEF Spec

\* Every variable keeps its type, for all numbers of admins and bindings.
THEOREM TypeCorrect == Spec => []TypeOK
<1>1. LeaseInv => TypeOK
  BY DEF LeaseInv
<1> QED
  BY <1>1, LeaseInvariance, PTL

\* compile_site_policy and the lease: a policy that the adapter accepts lacks no
\* edit that was committed Lease or more units of time ago.
THEOREM StalenessBounded == Spec => []LeaseBoundsStaleness
<1>1. LeaseInv => LeaseBoundsStaleness
  <2> SUFFICES ASSUME LeaseInv, live \in Policies, Expires(live) > now,
                      NEW o \in Objects, live.cfg[o] < cfg[o]
               PROVE  now < changedAt[o][live.cfg[o] + 1] + Lease
    BY DEF LeaseBoundsStaleness
  <2>1. live \in rows
    BY FileAssumption DEF LeaseInv, FilesArePublished
  <2>2. live.issued <= changedAt[o][live.cfg[o] + 1]
    BY <2>1 DEF LeaseInv, RowsAreFresh, Fresh, FreshAt
  <2>3. live.cfg[o] + 1 \in 1..MaxEdits
    BY BoundAssumption DEF LeaseInv, TypeOK, EditsBounded, Policies, Versions
  <2>4. /\ changedAt[o][live.cfg[o] + 1] \in Nat /\ now \in Nat
        /\ live.issued \in Nat /\ Lease \in Nat
    BY <2>3, LeaseAssumption DEF LeaseInv, TypeOK, Policies
  <2> QED
    BY <2>2, <2>4 DEF Expires
<1> QED
  BY <1>1, LeaseInvariance, PTL

(***************************************************************************)
(* The hub: revision numbers are used once and without gaps, and whoever   *)
(* has read a number compiles bindings no older than those below it.       *)
(***************************************************************************)
RevisionsUnique == \A p, q \in rows : p.rev = q.rev => p = q

NumbersTakenTo(n) == n \in Nat /\ n >= 1 /\ \A m \in 1..(n - 1) : RevisionTaken(m)

RowsAreNumbered == \A p \in rows : NumbersTakenTo(p.rev)

DraftsAreNumbered ==
  \A w \in Publishers : pub[w].step \in {"read", "compiled"} => NumbersTakenTo(pub[w].rev)

DraftsFollow ==
  \A w \in Publishers : pub[w].step = "compiled" =>
    \A p \in rows : p.rev < pub[w].rev =>
      \A o \in Bindings : p.cfg[o] <= pub[w].cfg[o]

NumberInv ==
  /\ LeaseInv
  /\ RevisionsUnique
  /\ RowsAreNumbered
  /\ DraftsAreNumbered
  /\ DraftsFollow
  /\ BindingsNeverRegress

(***************************************************************************)
(* The site: how the three files, the acknowledgement and the pass in      *)
(* progress are related.                                                   *)
(***************************************************************************)
Newer(n) == \E q \in rows : q.rev > n

Shown == {"written", "verified", "revOpen", "revWritten", "hashOpen"}

HashIsOfTheFiles ==
  /\ recHash \in rows \union {NoFile}
  /\ recHash \in rows => Newer(recHash.rev) \/ (live = recHash /\ recRev = recHash.rev)

UnchangedIsOfTheFiles ==
  pc = "unchanged" => recHash \in rows /\ live = recHash /\ recRev = recHash.rev

PassInProgress ==
  /\ pc \in Holding /\ recHash \in rows => recHash.rev < resp.rev
  /\ pc \in Shown => live = resp
  /\ pc \in {"truncated", "written", "restoring"} =>
       /\ recRev \in Nat /\ recRev <= resp.rev
       /\ backup \in rows => recRev <= backup.rev
  /\ pc \in {"revWritten", "hashOpen"} => recRev = resp.rev

RevisionIsOfTheFile ==
  /\ recRev = Torn =>
       live \in rows /\ pc \in {"idle", "asked", "unchanged", "fetched", "revOpen"}
  /\ recRev \in Nat /\ live \in rows => recRev <= live.rev

AckIsOfTheFiles ==
  lastAck.ok => Newer(lastAck.rev) \/ (recHash \in rows /\ recHash.rev = lastAck.rev)

OkPassIsIdle == passOk => pc = "idle"

RecordPart ==
  /\ HashIsOfTheFiles
  /\ UnchangedIsOfTheFiles
  /\ PassInProgress
  /\ RevisionIsOfTheFile
  /\ AckIsOfTheFiles
  /\ OkPassIsIdle
  /\ OkPassAgrees

RecordInv == NumberInv /\ RecordPart

LEMMA InitNumbers == Init => NumberInv
BY InitLease DEF Init, NumberInv, RevisionsUnique, RowsAreNumbered, DraftsAreNumbered,
   DraftsFollow, BindingsNeverRegress, IdleDraft

\* Rows that stay keep what is said of rows alone.
LEMMA RowNumbersKept ==
  ASSUME NumberInv, rows' = rows
  PROVE  /\ RevisionsUnique' /\ RowsAreNumbered' /\ BindingsNeverRegress'
         /\ \A n : NumbersTakenTo(n) => NumbersTakenTo(n)'
BY DEF NumberInv, RevisionsUnique, RowsAreNumbered, BindingsNeverRegress, NumbersTakenTo,
   RevisionTaken

\* A step that publishes nothing and puts draft d in the place of w's.
LEMMA NumbersAfterStep ==
  ASSUME NumberInv, LeaseInv', rows' = rows, NEW w \in Publishers, NEW d,
         pub' = [pub EXCEPT ![w] = d],
         d.step \in {"read", "compiled"} => NumbersTakenTo(d.rev),
         d.step = "compiled" => \A p \in rows : p.rev < d.rev =>
                                  \A o \in Bindings : p.cfg[o] <= d.cfg[o]
  PROVE  NumberInv'
<1>1. \A v \in Publishers : pub'[v] = IF v = w THEN d ELSE pub[v]
  BY DEF NumberInv, LeaseInv, TypeOK
<1>2. DraftsAreNumbered'
  BY <1>1, RowNumbersKept DEF NumberInv, DraftsAreNumbered
<1>3. DraftsFollow'
  BY <1>1 DEF NumberInv, DraftsFollow
<1> QED
  BY <1>2, <1>3, RowNumbersKept DEF NumberInv

LEMMA NumbersKept ==
  ASSUME NumberInv, LeaseInv', UNCHANGED <<rows, pub>>
  PROVE  NumberInv'
BY RowNumbersKept DEF NumberInv, DraftsAreNumbered, DraftsFollow

LEMMA NumbersAtBegin ==
  ASSUME NumberInv, LeaseInv', rows' = rows, NEW w \in Publishers, NEW v \in Nat,
         BeginPublication(w, v)
  PROVE  NumberInv'
<1>1. PICK d \in Drafts : pub' = [pub EXCEPT ![w] = d] /\ d.step = "due"
  BY BeginDraft
<1> QED
  BY <1>1, NumbersAfterStep

LEMMA NumbersAtRead ==
  ASSUME NumberInv, LeaseInv', NEW w \in Publishers, ReadRevision(w)
  PROVE  NumberInv'
<1>1. rows' = rows /\ pub[w] \in Drafts
  BY DEF ReadRevision, NumberInv, LeaseInv, TypeOK
<1>2. PICK n \in Nat : /\ pub' = [pub EXCEPT ![w].step = "read", ![w].rev = n]
                       /\ NumbersTakenTo(n)
  <2>1. CASE rows = {} /\ pub' = [pub EXCEPT ![w].step = "read", ![w].rev = 1]
    <3>1. NumbersTakenTo(1) /\ 1 \in Nat
      BY DEF NumbersTakenTo
    <3> QED
      BY <2>1, <3>1
  <2>2. ASSUME NEW p \in rows, pub' = [pub EXCEPT ![w].step = "read", ![w].rev = p.rev + 1]
        PROVE  \E n \in Nat : /\ pub' = [pub EXCEPT ![w].step = "read", ![w].rev = n]
                              /\ NumbersTakenTo(n)
    <3>1. NumbersTakenTo(p.rev)
      BY DEF NumberInv, RowsAreNumbered
    <3>2. NumbersTakenTo(p.rev + 1)
      <4>1. p.rev \in Nat /\ p.rev >= 1
        BY <3>1 DEF NumbersTakenTo
      <4>2. ASSUME NEW m \in 1..p.rev PROVE RevisionTaken(m)
        <5>1. CASE m = p.rev
          BY <5>1 DEF RevisionTaken
        <5>2. CASE m # p.rev
          BY <3>1, <4>1, <5>2 DEF NumbersTakenTo
        <5> QED
          BY <5>1, <5>2
      <4> QED
        BY <4>1, <4>2 DEF NumbersTakenTo
    <3>3. p.rev + 1 \in Nat
      BY <3>2 DEF NumbersTakenTo
    <3> QED
      BY <2>2, <3>2, <3>3
  <2> QED
    BY <2>1, <2>2 DEF ReadRevision
<1> DEFINE d == [pub[w] EXCEPT !.step = "read", !.rev = n]
<1>3. d.step = "read" /\ d.rev = n
  BY <1>1 DEF Drafts
<1>4. pub' = [pub EXCEPT ![w] = d]
  BY <1>2 DEF NumberInv, LeaseInv, TypeOK
<1> HIDE DEF d
<1> QED
  BY <1>1, <1>2, <1>3, <1>4, NumbersAfterStep

LEMMA NumbersAtCompile ==
  ASSUME NumberInv, LeaseInv', NEW w \in Publishers, Compile(w)
  PROVE  NumberInv'
<1>1. /\ rows' = rows /\ pub[w] \in Drafts /\ pub[w].step = "read"
      /\ pub' = [pub EXCEPT ![w].step = "compiled", ![w].cfg = Compiled(w),
                            ![w].issued = now]
  BY DEF Compile, NumberInv, LeaseInv, TypeOK
<1> DEFINE d == [pub[w] EXCEPT !.step = "compiled", !.cfg = Compiled(w), !.issued = now]
<1>2. d.step = "compiled" /\ d.rev = pub[w].rev /\ d.cfg = Compiled(w)
  BY <1>1 DEF Drafts
<1>3. pub' = [pub EXCEPT ![w] = d]
  BY <1>1 DEF NumberInv, LeaseInv, TypeOK
<1>4. NumbersTakenTo(pub[w].rev)
  BY <1>1 DEF NumberInv, DraftsAreNumbered
<1>5. ASSUME NEW p \in rows, NEW o \in Bindings PROVE p.cfg[o] <= Compiled(w)[o]
  <2>1. o \in Objects /\ o # SiteRow
    BY NameAssumption DEF Objects
  <2>2. p.cfg[o] <= cfg[o]
    BY <2>1 DEF NumberInv, LeaseInv, RowsAreFresh, Fresh, FreshAt
  <2>3. Compiled(w)[o] = cfg[o]
    BY <2>1 DEF Compiled, NumberInv, LeaseInv, TypeOK, Versions
  <2> QED
    BY <2>2, <2>3
<1> HIDE DEF d
<1> QED
  BY <1>1, <1>2, <1>3, <1>4, <1>5, NumbersAfterStep

\* A draft whose number is free is above every row: the rows have no gap that it
\* could fill.
LEMMA FreeNumberIsAbove ==
  ASSUME NumberInv, NEW n \in Nat, n >= 1, ~RevisionTaken(n)
  PROVE  \A q \in rows : q.rev < n
<1> SUFFICES ASSUME NEW q \in rows, ~(q.rev < n) PROVE FALSE
  OBVIOUS
<1>1. NumbersTakenTo(q.rev) /\ q.rev # n
  BY DEF NumberInv, RowsAreNumbered, RevisionTaken
<1> QED
  BY <1>1 DEF NumbersTakenTo

LEMMA NumbersAtInsert ==
  ASSUME NumberInv, LeaseInv', NEW w \in Publishers, InsertRevision(w)
  PROVE  NumberInv'
<1> DEFINE p == DraftPolicy(w)
<1>1. /\ pub[w].step = "compiled" /\ ~RevisionTaken(pub[w].rev)
      /\ rows' = rows \union {p} /\ pub' = [pub EXCEPT ![w] = IdleDraft]
  BY DEF InsertRevision
<1>2. p.rev = pub[w].rev /\ p.cfg = pub[w].cfg
  BY DEF DraftPolicy
<1> HIDE DEF p
<1>3. NumbersTakenTo(p.rev) /\ p.rev \in Nat /\ p.rev >= 1
  BY <1>1, <1>2 DEF NumberInv, DraftsAreNumbered, NumbersTakenTo
<1>4. \A q \in rows : q.rev < p.rev /\ q.rev \in Nat
  BY <1>1, <1>2, <1>3, FreeNumberIsAbove DEF NumberInv, LeaseInv, TypeOK, Policies
<1>5. \A n : NumbersTakenTo(n) => NumbersTakenTo(n)'
  BY <1>1 DEF NumbersTakenTo, RevisionTaken
<1>6. RevisionsUnique'
  BY <1>1, <1>3, <1>4 DEF NumberInv, RevisionsUnique
<1>7. RowsAreNumbered'
  BY <1>1, <1>3, <1>5 DEF NumberInv, RowsAreNumbered
<1>8. \A v \in Publishers : pub'[v] = IF v = w THEN IdleDraft ELSE pub[v]
  BY <1>1 DEF NumberInv, LeaseInv, TypeOK
<1>9. IdleDraft.step = "idle"
  BY DEF IdleDraft
<1>10. DraftsAreNumbered'
  BY <1>5, <1>8, <1>9 DEF NumberInv, DraftsAreNumbered
<1>11. DraftsFollow'
  <2> SUFFICES ASSUME NEW v \in Publishers, pub'[v].step = "compiled",
                      NEW q \in rows', q.rev < pub'[v].rev, NEW o \in Bindings
               PROVE  q.cfg[o] <= pub'[v].cfg[o]
    BY DEF DraftsFollow
  <2>1. v # w /\ pub'[v] = pub[v]
    BY <1>8, <1>9
  <2>2. NumbersTakenTo(pub[v].rev)
    BY <2>1 DEF NumberInv, DraftsAreNumbered
  <2>3. q # p
    <3> SUFFICES ASSUME q = p PROVE FALSE
      OBVIOUS
    <3>1. p.rev \in 1..(pub[v].rev - 1)
      BY <1>3, <2>1, <2>2 DEF NumbersTakenTo
    <3> QED
      BY <1>1, <1>2, <2>2, <3>1 DEF NumbersTakenTo
  <2> QED
    BY <1>1, <2>1, <2>3 DEF NumberInv, DraftsFollow
<1>12. BindingsNeverRegress'
  <2> SUFFICES ASSUME NEW r \in rows', NEW q \in rows', r.rev < q.rev, NEW o \in Bindings
               PROVE  r.cfg[o] <= q.cfg[o]
    BY DEF BindingsNeverRegress
  <2>1. r \in rows
    BY <1>1, <1>3, <1>4
  <2>2. CASE q \in rows
    BY <2>1, <2>2 DEF NumberInv, BindingsNeverRegress
  <2>3. CASE q = p
    BY <1>1, <1>2, <2>1, <2>3 DEF NumberInv, DraftsFollow
  <2> QED
    BY <1>1, <2>2, <2>3
<1> QED
  BY <1>6, <1>7, <1>10, <1>11, <1>12 DEF NumberInv

LEMMA NumbersAtGone ==
  ASSUME NumberInv, LeaseInv', NEW w \in Publishers, RevisionConflict(w) \/ PublisherDies(w)
  PROVE  NumberInv'
<1>1. rows' = rows /\ pub' = [pub EXCEPT ![w] = IdleDraft]
  BY DEF RevisionConflict, PublisherDies
<1>2. IdleDraft.step = "idle"
  BY DEF IdleDraft
<1> QED
  BY <1>1, <1>2, NumbersAfterStep

LEMMA NumberStep == NumberInv /\ [Next]_vars => NumberInv'
<1> SUFFICES ASSUME NumberInv, [Next]_vars PROVE NumberInv'
  OBVIOUS
<1>1. LeaseInv' /\ LeaseInv
  BY LeaseStep DEF NumberInv
<1>2. /\ cfg[SiteRow] \in Nat /\ cfg'[SiteRow] \in Nat
      /\ Timer \in Publishers /\ Pull \in Publishers /\ Admins \subseteq Publishers
  BY <1>1 DEF LeaseInv, TypeOK, Versions, Objects, Publishers
<1>3. CASE Tick \/ UNCHANGED vars
  BY <1>1, <1>3, NumbersKept DEF Tick, vars, hubVars
<1>4. CASE Hub
  <2>1. ASSUME NEW a \in Admins, NEW o \in Objects, WebEdit(a, o) PROVE NumberInv'
    BY <1>1, <1>2, <2>1, NumbersAtBegin DEF WebEdit
  <2>2. ASSUME NEW o \in Objects, ApiEdit(o) PROVE NumberInv'
    BY <1>1, <2>2, NumbersKept DEF ApiEdit
  <2>3. ASSUME NEW a \in Admins, CliPublish(a) PROVE NumberInv'
    BY <1>1, <1>2, <2>3, NumbersAtBegin DEF CliPublish
  <2>4. CASE TimerRefresh
    BY <1>1, <1>2, <2>4, NumbersAtBegin DEF TimerRefresh
  <2>5. ASSUME NEW w \in Publishers, PublishStep(w) \/ PublisherDies(w) PROVE NumberInv'
    BY <1>1, <2>5, NumbersAtRead, NumbersAtCompile, NumbersAtInsert, NumbersAtGone
       DEF PublishStep
  <2> QED
    BY <1>4, <2>1, <2>2, <2>3, <2>4, <2>5 DEF Hub
<1>5. CASE Agent \/ Failure
  <2>1. CASE PullPublish
    BY <1>1, <1>2, <2>1, NumbersAtBegin DEF PullPublish
  <2>2. CASE OnlySite
    BY <1>1, <2>2, NumbersKept DEF OnlySite, hubVars
  <2>3. OnlySite \/ PullPublish
    BY <1>5 DEF Agent, Failure, StartPass, AnswerStep, Answer, CheckStep, ReceiveUnchanged,
       VerifyReject, MismatchReject, InstallStep, BeginInstall, FinishWrite, CheckOk,
       FinishRestore, RecordStep, OpenRev, WriteRev, OpenHash, WriteHash, LoseAnswer,
       CheckFails, Crash
  <2> QED
    BY <2>1, <2>2, <2>3
<1> QED
  BY <1>3, <1>4, <1>5 DEF Next

\* Revision numbers are unique and without gaps.
THEOREM NumbersInvariance == Spec => []NumberInv
BY InitNumbers, NumberStep, PTL DEF Spec

\* publish_site_policy: racing publishers never put an older binding under a
\* newer revision.
THEOREM NoRegress == Spec => []BindingsNeverRegress
<1>1. NumberInv => BindingsNeverRegress
  BY DEF NumberInv
<1> QED
  BY <1>1, NumbersInvariance, PTL

(***************************************************************************)
(* The site's records.                                                     *)
(***************************************************************************)

\* What the steps below use of the types.
FileTypes ==
  /\ rows \subseteq Policies
  /\ \A p \in rows : p.rev \in Nat /\ p.rev >= 1
  /\ NoFile \notin rows /\ Torn \notin rows /\ NoFile # Torn /\ Torn \notin Nat
  /\ live \in rows \union {NoFile, Torn}
  /\ backup \in rows \union {NoFile, Torn}
  /\ recRev \in Nat \union {Torn}
  /\ lastAck \in Acks
  /\ pc \in AgentSteps
  /\ passOk \in BOOLEAN
  /\ Answered

LEMMA FileTypesHold == NumberInv => FileTypes
<1> SUFFICES ASSUME NumberInv PROVE FileTypes
  OBVIOUS
<1>1. LeaseInv /\ TypeOK
  BY DEF NumberInv, LeaseInv
<1>2. \A p \in rows : p.rev \in Nat /\ p.rev >= 1
  BY DEF NumberInv, RowsAreNumbered, NumbersTakenTo
<1> QED
  BY <1>1, <1>2, FileAssumption DEF FileTypes, LeaseInv, TypeOK, FilesArePublished

LEMMA InitRecord == Init => RecordInv
<1> SUFFICES ASSUME Init PROVE RecordInv
  OBVIOUS
<1>1. NumberInv
  BY InitNumbers
<1>2. RecordPart
  BY FileAssumption DEF Init, RecordPart, HashIsOfTheFiles, UnchangedIsOfTheFiles,
     PassInProgress, Holding, Installing, Shown, RevisionIsOfTheFile, AckIsOfTheFiles,
     OkPassIsIdle, OkPassAgrees
<1> QED
  BY <1>1, <1>2 DEF RecordInv

\* Steps that touch neither the rows nor the site.
LEMMA RecordKept ==
  ASSUME RecordPart, UNCHANGED <<rows, lastAck, agentVars>>
  PROVE  RecordPart'
BY DEF RecordPart, agentVars, HashIsOfTheFiles, UnchangedIsOfTheFiles,
   PassInProgress, RevisionIsOfTheFile, AckIsOfTheFiles, OkPassIsIdle, OkPassAgrees, Newer

\* Steps that only end a pass early.
LEMMA RecordAtGone ==
  ASSUME RecordPart, FileTypes, UNCHANGED <<rows, lastAck, siteFiles>>,
         (pc' = "idle" /\ passOk' = FALSE)
           \/ UNCHANGED <<pc, resp, backup, passOk>>
  PROVE  RecordPart'
<1> USE DEF siteFiles, Newer
<1>1. HashIsOfTheFiles' /\ AckIsOfTheFiles'
  BY DEF RecordPart, HashIsOfTheFiles, AckIsOfTheFiles
<1>2. UnchangedIsOfTheFiles' /\ PassInProgress'
  BY DEF RecordPart, UnchangedIsOfTheFiles, PassInProgress, Holding, Installing, Shown
<1>3. RevisionIsOfTheFile'
  BY DEF RecordPart, RevisionIsOfTheFile
<1>4. OkPassIsIdle' /\ OkPassAgrees'
  BY DEF RecordPart, OkPassIsIdle, OkPassAgrees
<1> QED
  BY <1>1, <1>2, <1>3, <1>4 DEF RecordPart

LEMMA RecordAtInsert ==
  ASSUME NumberInv, RecordPart, NEW w \in Publishers, InsertRevision(w)
  PROVE  RecordPart'
<1> DEFINE p == DraftPolicy(w)
<1>1. /\ pub[w].step = "compiled" /\ ~RevisionTaken(pub[w].rev) /\ rows' = rows \union {p}
      /\ UNCHANGED <<lastAck, backup, live, recRev, recHash, passOk>>
      /\ (pc = "asked" /\ pc' = "fetched" /\ resp' = p) \/ UNCHANGED <<pc, resp>>
  BY DEF InsertRevision, siteFiles
<1>2. p.rev = pub[w].rev /\ p \in Policies
  BY DraftIsPolicy DEF DraftPolicy, NumberInv
<1> HIDE DEF p
<1>3. NumbersTakenTo(p.rev) /\ p.rev \in Nat /\ p.rev >= 1
  BY <1>1, <1>2 DEF NumberInv, DraftsAreNumbered, NumbersTakenTo
<1>4. \A q \in rows : q.rev < p.rev
  BY <1>1, <1>2, <1>3, FreeNumberIsAbove
<1>5. FileTypes /\ p # NoFile /\ p # Torn
  BY <1>2, FileTypesHold, FileAssumption
<1>6. recHash \in rows' <=> recHash \in rows
  BY <1>1, <1>5 DEF RecordPart, HashIsOfTheFiles
<1>7. (live \in rows' <=> live \in rows) /\ (backup \in rows' <=> backup \in rows)
  BY <1>1, <1>5 DEF FileTypes
<1>8. \A n : Newer(n) => Newer(n)'
  BY <1>1 DEF Newer
<1>9. HashIsOfTheFiles' /\ AckIsOfTheFiles'
  BY <1>1, <1>6, <1>8 DEF RecordPart, HashIsOfTheFiles, AckIsOfTheFiles
<1>10. UnchangedIsOfTheFiles'
  BY <1>1, <1>6 DEF RecordPart, UnchangedIsOfTheFiles
<1>11. PassInProgress'
  BY <1>1, <1>4, <1>6, <1>7 DEF RecordPart, PassInProgress, Holding, Installing, Shown
<1>12. RevisionIsOfTheFile'
  BY <1>1, <1>7 DEF RecordPart, RevisionIsOfTheFile
<1>13. OkPassIsIdle' /\ OkPassAgrees'
  BY <1>1, <1>7 DEF RecordPart, OkPassIsIdle, OkPassAgrees
<1> QED
  BY <1>9, <1>10, <1>11, <1>12, <1>13 DEF RecordPart

\* The newest row, and whatever follows from its being the newest.
LEMMA LatestIsTop ==
  ASSUME NumberInv, NEW p \in rows, IsLatest(p)
  PROVE  ~Newer(p.rev) /\ \A q \in rows : q # p => q.rev < p.rev
<1>1. \A q \in rows : q.rev \in Nat /\ q.rev <= p.rev
  BY FileTypesHold DEF FileTypes, IsLatest
<1>2. \A q \in rows : q.rev = p.rev => q = p
  BY DEF NumberInv, RevisionsUnique
<1> QED
  BY <1>1, <1>2 DEF Newer

LEMMA RecordAtAsk ==
  ASSUME NumberInv, RecordPart, StartPass \/ (\E p \in rows : Answer(p))
  PROVE  RecordPart'
<1>1. FileTypes
  BY FileTypesHold
<1>2. UNCHANGED <<rows, lastAck, backup, live, recRev, recHash>>
  BY DEF StartPass, Answer, OnlySite, hubVars, siteFiles
<1>3. HashIsOfTheFiles' /\ AckIsOfTheFiles'
  BY <1>2 DEF RecordPart, HashIsOfTheFiles, AckIsOfTheFiles, Newer
<1>4. CASE StartPass
  <2>1. pc = "idle" /\ pc' = "asked" /\ passOk' = FALSE
    BY <1>4 DEF StartPass
  <2>2. UnchangedIsOfTheFiles' /\ PassInProgress' /\ RevisionIsOfTheFile'
    BY <1>2, <2>1 DEF RecordPart, UnchangedIsOfTheFiles, PassInProgress, Holding,
       Installing, Shown, RevisionIsOfTheFile
  <2>3. OkPassIsIdle' /\ OkPassAgrees'
    BY <2>1 DEF OkPassIsIdle, OkPassAgrees
  <2> QED
    BY <1>3, <2>2, <2>3 DEF RecordPart
<1>5. ASSUME NEW p \in rows, Answer(p) PROVE RecordPart'
  <2>1. /\ pc = "asked" /\ IsLatest(p) /\ passOk' = passOk
        /\ \/ recHash = p /\ pc' = "unchanged" /\ resp' = resp
           \/ recHash # p /\ pc' = "fetched" /\ resp' = p
    BY <1>5 DEF Answer
  <2>2. ~Newer(p.rev) /\ \A q \in rows : q # p => q.rev < p.rev
    BY <2>1, LatestIsTop
  <2>3. UnchangedIsOfTheFiles'
    BY <1>2, <2>1, <2>2 DEF RecordPart, UnchangedIsOfTheFiles, HashIsOfTheFiles
  <2>4. PassInProgress'
    BY <1>2, <2>1, <2>2 DEF PassInProgress, Holding, Installing, Shown
  <2>5. RevisionIsOfTheFile' /\ OkPassIsIdle' /\ OkPassAgrees'
    BY <1>2, <2>1 DEF RecordPart, RevisionIsOfTheFile, OkPassIsIdle, OkPassAgrees
  <2> QED
    BY <1>3, <2>3, <2>4, <2>5 DEF RecordPart
<1> QED
  BY <1>4, <1>5

\* An acknowledgement of a failure claims nothing.
LEMMA NackClaimsNothing ==
  ASSUME NEW n, Acknowledge(n, FALSE)
  PROVE  lastAck' = lastAck \/ lastAck'.ok = FALSE
<1>1. CASE lastAck' = [rev |-> n, ok |-> FALSE]
  BY <1>1
<1>2. CASE lastAck' = lastAck
  BY <1>2
<1> QED
  BY <1>1, <1>2 DEF Acknowledge

\* A pass that ends without having touched a file.
LEMMA RecordAtCheck ==
  ASSUME NumberInv, RecordPart, CheckStep
  PROVE  RecordPart'
<1>1. FileTypes
  BY FileTypesHold
<1>2. /\ UNCHANGED <<rows, live, recRev, recHash>> /\ pc' = "idle"
      /\ pc \in {"unchanged", "fetched"}
  BY DEF CheckStep, ReceiveUnchanged, VerifyReject, MismatchReject, EndPass, OnlySite,
     hubVars, siteFiles
<1>3. lastAck' = lastAck \/ lastAck'.ok = FALSE
  BY NackClaimsNothing DEF CheckStep, ReceiveUnchanged, VerifyReject, MismatchReject
<1>4. passOk' => pc = "unchanged"
  BY DEF CheckStep, ReceiveUnchanged, VerifyReject, MismatchReject, EndPass
<1>5. HashIsOfTheFiles'
  BY <1>2 DEF RecordPart, HashIsOfTheFiles, Newer
<1>6. AckIsOfTheFiles'
  BY <1>2, <1>3 DEF RecordPart, AckIsOfTheFiles, Newer
<1>7. UnchangedIsOfTheFiles' /\ PassInProgress'
  BY <1>2 DEF UnchangedIsOfTheFiles, PassInProgress, Holding, Installing, Shown
<1>8. RevisionIsOfTheFile'
  BY <1>2 DEF RecordPart, RevisionIsOfTheFile
<1>9. OkPassIsIdle' /\ OkPassAgrees'
  BY <1>2, <1>4 DEF RecordPart, UnchangedIsOfTheFiles, OkPassIsIdle, OkPassAgrees
<1> QED
  BY <1>5, <1>6, <1>7, <1>8, <1>9 DEF RecordPart

\* While an installation runs, the recorded hash is of an older revision.
LEMMA InstallingIsNewer ==
  ASSUME NumberInv, RecordPart, pc \in Holding
  PROVE  resp \in rows /\ (recHash \in rows => Newer(recHash.rev))
BY FileTypesHold DEF FileTypes, Answered, RecordPart, PassInProgress, Newer

LEMMA RecordAtInstall ==
  ASSUME NumberInv, RecordPart, InstallStep \/ CheckFails
  PROVE  RecordPart'
<1>1. FileTypes
  BY FileTypesHold
<1>2. /\ UNCHANGED <<rows, recRev, recHash>>
      /\ pc \in {"fetched", "truncated", "written", "restoring"}
  BY DEF InstallStep, BeginInstall, FinishWrite, CheckOk, FinishRestore, CheckFails,
     OnlySite, hubVars, siteFiles
<1>3. resp \in rows /\ (recHash \in rows => Newer(recHash.rev)) /\ resp.rev \in Nat
  BY <1>1, <1>2, InstallingIsNewer DEF Holding, Installing, FileTypes
<1>4. HashIsOfTheFiles'
  BY <1>2, <1>3 DEF RecordPart, HashIsOfTheFiles, Newer
<1>5. lastAck' = lastAck \/ lastAck'.ok = FALSE
  BY NackClaimsNothing DEF InstallStep, BeginInstall, FinishWrite, CheckOk, FinishRestore, CheckFails
<1>6. AckIsOfTheFiles'
  BY <1>2, <1>5 DEF RecordPart, AckIsOfTheFiles, Newer
<1>7. ~passOk' /\ pc' # "unchanged"
  <2>1. ~passOk
    BY <1>2 DEF RecordPart, OkPassIsIdle
  <2>2. (passOk' = passOk \/ passOk' = FALSE) /\ pc' # "unchanged"
    BY DEF InstallStep, BeginInstall, FinishWrite, CheckOk, FinishRestore, CheckFails, EndPass
  <2> QED
    BY <2>1, <2>2
<1>8. PassInProgress' /\ RevisionIsOfTheFile'
  <2> USE DEF PassInProgress, Holding, Installing, Shown, RevisionIsOfTheFile, FileTypes
  <2>1. CASE BeginInstall
    <3>1. /\ recRev \in Nat /\ recRev <= resp.rev /\ pc = "fetched" /\ pc' = "truncated"
          /\ backup' = live /\ live' = Torn /\ resp' = resp
      BY <1>1, <1>3, <2>1 DEF BeginInstall, Verified, RevisionAccepted
    <3> QED
      BY <1>1, <1>2, <3>1 DEF RecordPart
  <2>2. CASE FinishWrite
    BY <1>1, <1>2, <1>3, <2>2 DEF FinishWrite, RecordPart
  <2>3. CASE CheckOk
    BY <1>1, <1>2, <2>3 DEF CheckOk, RecordPart, siteFiles
  <2>4. CASE FinishRestore
    BY <1>1, <1>2, <2>4 DEF FinishRestore, EndPass, RecordPart
  <2>5. CASE CheckFails
    BY <1>1, <1>2, <2>5 DEF CheckFails, RecordPart
  <2> QED
    BY <2>1, <2>2, <2>3, <2>4, <2>5 DEF InstallStep
<1> QED
  BY <1>4, <1>6, <1>7, <1>8 DEF RecordPart, UnchangedIsOfTheFiles, OkPassIsIdle, OkPassAgrees

LEMMA RecordAtRecord ==
  ASSUME NumberInv, RecordPart, RecordStep
  PROVE  RecordPart'
<1>1. FileTypes
  BY FileTypesHold
<1>2. /\ UNCHANGED <<rows, live>> /\ pc \in Holding /\ pc \in Shown /\ ~passOk
  BY DEF RecordStep, OpenRev, WriteRev, OpenHash, WriteHash, OnlySite, hubVars, siteFiles,
     Holding, Installing, Shown, RecordPart, OkPassIsIdle
<1>3. /\ resp \in rows /\ live = resp /\ resp.rev \in Nat
      /\ recHash \in rows => recHash.rev < resp.rev
  BY <1>1, <1>2, InstallingIsNewer DEF RecordPart, PassInProgress, FileTypes
<1>4. CASE OpenRev
  <2>1. pc = "verified" /\ pc' = "revOpen" /\ recRev' = Torn /\ UNCHANGED <<rows, live, resp, recHash, lastAck, passOk>>
    BY <1>4, <1>2 DEF OpenRev
  <2> QED
    BY <1>1, <1>2, <1>3, <2>1 DEF RecordPart, HashIsOfTheFiles, UnchangedIsOfTheFiles,
       PassInProgress, Holding, Installing, Shown, RevisionIsOfTheFile, AckIsOfTheFiles,
       OkPassIsIdle, OkPassAgrees, Newer, FileTypes
<1>5. CASE WriteRev
  <2>1. pc = "revOpen" /\ pc' = "revWritten" /\ recRev' = resp.rev /\ UNCHANGED <<rows, live, resp, recHash, lastAck, passOk>>
    BY <1>5, <1>2 DEF WriteRev
  <2> QED
    BY <1>1, <1>2, <1>3, <2>1 DEF RecordPart, HashIsOfTheFiles, UnchangedIsOfTheFiles,
       PassInProgress, Holding, Installing, Shown, RevisionIsOfTheFile, AckIsOfTheFiles,
       OkPassIsIdle, OkPassAgrees, Newer, FileTypes
<1>6. CASE OpenHash
  <2>1. pc = "revWritten" /\ pc' = "hashOpen" /\ recHash' = NoFile /\ UNCHANGED <<rows, live, resp, recRev, lastAck, passOk>>
    BY <1>6, <1>2 DEF OpenHash
  <2>2. recRev = resp.rev
    BY <2>1 DEF RecordPart, PassInProgress
  <2>3. AckIsOfTheFiles'
    BY <1>3, <2>1 DEF RecordPart, AckIsOfTheFiles, Newer
  <2> QED
    BY <1>1, <1>2, <1>3, <2>1, <2>2, <2>3 DEF RecordPart, HashIsOfTheFiles, UnchangedIsOfTheFiles,
       PassInProgress, Holding, Installing, Shown, RevisionIsOfTheFile,
       OkPassIsIdle, OkPassAgrees, FileTypes
<1>7. CASE WriteHash
  <2>1. /\ pc = "hashOpen" /\ pc' = "idle" /\ recHash' = resp
        /\ UNCHANGED <<rows, live, recRev>>
        /\ lastAck' = lastAck \/ lastAck' = [rev |-> resp.rev, ok |-> TRUE]
    BY <1>7, <1>2 DEF WriteHash, EndPass, Acknowledge
  <2>2. recRev = resp.rev
    BY <2>1 DEF RecordPart, PassInProgress
  <2>3. AckIsOfTheFiles'
    <3>1. CASE lastAck' = [rev |-> resp.rev, ok |-> TRUE]
      BY <1>3, <2>1, <3>1 DEF AckIsOfTheFiles
    <3>2. CASE lastAck' = lastAck
      BY <1>3, <2>1, <3>2 DEF RecordPart, AckIsOfTheFiles, Newer
    <3> QED
      BY <2>1, <3>1, <3>2
  <2> QED
    BY <1>1, <1>2, <1>3, <2>1, <2>2, <2>3 DEF RecordPart, HashIsOfTheFiles, UnchangedIsOfTheFiles,
       PassInProgress, Holding, Installing, Shown, RevisionIsOfTheFile,
       OkPassIsIdle, OkPassAgrees, FileTypes
<1> QED
  BY <1>4, <1>5, <1>6, <1>7 DEF RecordStep

LEMMA RecordStepKeeps == RecordInv /\ [Next]_vars => RecordInv'
<1> SUFFICES ASSUME RecordInv, [Next]_vars PROVE RecordInv'
  OBVIOUS
<1>1. NumberInv /\ RecordPart /\ NumberInv' /\ FileTypes
  BY NumberStep, FileTypesHold DEF RecordInv
<1>2. CASE Tick \/ UNCHANGED vars
  BY <1>1, <1>2, RecordKept DEF Tick, vars, hubVars, RecordInv
<1>3. CASE Hub
  <2>1. ASSUME NEW w \in Publishers, InsertRevision(w) PROVE RecordPart'
    BY <1>1, <2>1, RecordAtInsert
  <2>2. ASSUME NEW w \in Publishers, RevisionConflict(w) \/ PublisherDies(w) PROVE RecordPart'
    <3>1. UNCHANGED <<rows, lastAck, siteFiles, resp, backup>>
      BY <2>2 DEF RevisionConflict, PublisherDies
    <3>2. (pc' = "idle" /\ passOk' = FALSE) \/ UNCHANGED <<pc, passOk>>
      BY <2>2 DEF RevisionConflict, PublisherDies
    <3> QED
      BY <1>1, <3>1, <3>2, RecordAtGone
  <2>3. ASSUME NEW w \in Publishers, ReadRevision(w) \/ Compile(w) PROVE RecordPart'
    BY <1>1, <2>3, RecordKept DEF ReadRevision, Compile
  <2>4. ASSUME NEW a \in Admins, CliPublish(a) \/ \E o \in Objects : WebEdit(a, o)
        PROVE  RecordPart'
    BY <1>1, <2>4, RecordKept DEF CliPublish, WebEdit
  <2>5. ASSUME TimerRefresh \/ \E o \in Objects : ApiEdit(o) PROVE RecordPart'
    BY <1>1, <2>5, RecordKept DEF TimerRefresh, ApiEdit
  <2> QED
    BY <1>1, <1>3, <2>1, <2>2, <2>3, <2>4, <2>5 DEF Hub, PublishStep, RecordInv
<1>4. CASE Agent
  <2>1. CASE PullPublish
    BY <1>1, <2>1, RecordKept DEF PullPublish, RecordInv
  <2> QED
    BY <1>1, <1>4, <2>1, RecordAtAsk, RecordAtCheck, RecordAtInstall, RecordAtRecord
       DEF Agent, AnswerStep, RecordInv
<1>5. CASE Failure
  <2>1. CASE LoseAnswer \/ Crash
    <3>1. UNCHANGED <<rows, lastAck, siteFiles>> /\ pc' = "idle" /\ passOk' = FALSE
      BY <2>1 DEF LoseAnswer, Crash, EndPass, OnlySite, hubVars
    <3> QED
      BY <1>1, <3>1, RecordAtGone DEF RecordInv
  <2>2. CASE CheckFails
    BY <1>1, <2>2, RecordAtInstall DEF RecordInv
  <2> QED
    BY <1>5, <2>1, <2>2 DEF Failure
<1> QED
  BY <1>2, <1>3, <1>4, <1>5 DEF Next

\* The files, the acknowledgement and the exit status belong together.
THEOREM RecordInvariance == Spec => []RecordInv
BY InitRecord, RecordStepKeeps, PTL DEF Spec

\* get_network_policy's 304: a site with the newest hash has the newest policy.
THEOREM IntactWhenNotModified == Spec => []NotModifiedIsIntact
<1>1. RecordInv => NotModifiedIsIntact
  BY LatestIsTop DEF RecordInv, RecordPart, HashIsOfTheFiles, NotModifiedIsIntact, IsLatest
<1> QED
  BY <1>1, RecordInvariance, PTL

\* site_policy_acks: an acknowledged newest revision is the one in the live file.
THEOREM StatusTrue == Spec => []InstalledStatusIsTrue
<1>1. RecordInv => InstalledStatusIsTrue
  <2> SUFFICES ASSUME RecordInv, NEW p \in rows, IsLatest(p),
                      lastAck = [rev |-> p.rev, ok |-> TRUE]
               PROVE  live = p
    BY DEF InstalledStatusIsTrue
  <2>1. ~Newer(p.rev)
    BY LatestIsTop DEF RecordInv
  <2>2. recHash \in rows /\ recHash.rev = p.rev
    BY <2>1 DEF RecordInv, RecordPart, AckIsOfTheFiles
  <2>3. recHash = p
    BY <2>2 DEF RecordInv, NumberInv, RevisionsUnique
  <2> QED
    BY <2>1, <2>2, <2>3 DEF RecordInv, RecordPart, HashIsOfTheFiles
<1> QED
  BY <1>1, RecordInvariance, PTL

\* fetch_and_install_policy returns True only with the three files in agreement.
THEOREM OkPassTrue == Spec => []OkPassAgrees
<1>1. RecordInv => OkPassAgrees
  BY DEF RecordInv, RecordPart
<1> QED
  BY <1>1, RecordInvariance, PTL

(***************************************************************************)
(* The distribution implements PolicyView.                                 *)
(***************************************************************************)
LEMMA ViewUnchanged ==
  ASSUME UNCHANGED <<rows, live, recRev, now>>
  PROVE  UNCHANGED View!viewVars
BY DEF View!viewVars

LEMMA ViewAtInstall ==
  ASSUME RecordInv, InstallStep \/ CheckFails
  PROVE  [View!ViewNext]_(View!viewVars)
<1>1. FileTypes /\ PassInProgress
  BY FileTypesHold DEF RecordInv, RecordPart
<1>2. UNCHANGED <<rows, recRev, now>>
  BY DEF InstallStep, BeginInstall, FinishWrite, CheckOk, FinishRestore, CheckFails,
     OnlySite, hubVars, siteFiles
<1>3. CASE live' = live
  BY <1>2, <1>3, ViewUnchanged
<1>4. CASE live' # live
  <2>1. recRev \in Nat /\ recRev # Torn
    BY <1>1, <1>4, FileAssumption DEF FileTypes, PassInProgress, InstallStep, BeginInstall,
       FinishWrite, CheckOk, FinishRestore, CheckFails, siteFiles, Verified, RevisionAccepted
  <2>2. CASE live' \in {NoFile, Torn}
    <3>1. live' \notin Policies
      BY <2>2, FileAssumption
    <3> QED
      BY <1>2, <2>1, <3>1 DEF View!ViewNext, View!Hide
  <2>3. CASE live' \in rows /\ recRev <= live'.rev
    <3>1. live' \in Policies /\ live'.rev >= recRev
      BY <1>1, <2>1, <2>3 DEF FileTypes
    <3> QED
      BY <1>2, <2>1, <2>3, <3>1 DEF View!ViewNext, View!Show
  <2>4. live' \in {NoFile, Torn} \/ (live' \in rows /\ recRev <= live'.rev)
    <3>1. CASE BeginInstall \/ CheckFails
      BY <1>4, <3>1 DEF BeginInstall, CheckFails
    <3>2. CASE FinishWrite
      BY <1>1, <3>2 DEF FinishWrite, FileTypes, Answered, Holding, Installing, PassInProgress
    <3>3. CASE FinishRestore
      BY <1>1, <3>3 DEF FinishRestore, FileTypes, PassInProgress
    <3> QED
      BY <1>4, <3>1, <3>2, <3>3 DEF InstallStep, CheckOk, siteFiles
  <2> QED
    BY <2>2, <2>3, <2>4
<1> QED
  BY <1>3, <1>4

LEMMA ViewAtRecord ==
  ASSUME RecordInv, RecordStep
  PROVE  [View!ViewNext]_(View!viewVars)
<1>1. FileTypes /\ PassInProgress /\ RevisionIsOfTheFile
  BY FileTypesHold DEF RecordInv, RecordPart
<1>2. UNCHANGED <<rows, live, now>>
  BY DEF RecordStep, OpenRev, WriteRev, OpenHash, WriteHash, OnlySite, hubVars
<1>3. live = resp /\ live \in rows /\ live \in Policies /\ live.rev \in Nat /\ live # NoFile
  BY <1>1 DEF FileTypes, Answered, Holding, Installing, PassInProgress, Shown, RecordStep,
     OpenRev, WriteRev, OpenHash, WriteHash
<1>4. CASE OpenRev
  <2>1. recRev' = Torn
    BY <1>4 DEF OpenRev
  <2>2. CASE recRev = Torn \/ recRev = live.rev
    BY <1>2, <2>1, <2>2 DEF View!viewVars
  <2>3. CASE recRev # Torn /\ recRev # live.rev
    <3>1. live.rev > recRev
      BY <1>1, <1>3, <2>3 DEF FileTypes, RevisionIsOfTheFile
    <3> QED
      BY <1>2, <1>3, <2>1, <2>3, <3>1 DEF View!ViewNext, View!Record
  <2> QED
    BY <2>2, <2>3
<1>5. CASE WriteRev
  <2>1. recRev' = live.rev /\ recRev' # Torn /\ pc = "revOpen"
    BY <1>3, <1>5, FileAssumption DEF WriteRev
  <2>2. CASE recRev = Torn
    BY <1>2, <2>1, <2>2 DEF View!viewVars
  <2>3. CASE recRev # Torn /\ recRev = live.rev
    BY <1>2, <2>1, <2>3 DEF View!viewVars
  <2>4. CASE recRev # Torn /\ recRev # live.rev
    <3>1. live.rev > recRev
      BY <1>1, <1>3, <2>4 DEF FileTypes, RevisionIsOfTheFile
    <3> QED
      BY <1>2, <1>3, <2>1, <2>4, <3>1 DEF View!ViewNext, View!Record
  <2> QED
    BY <2>2, <2>3, <2>4
<1>6. CASE OpenHash \/ WriteHash
  BY <1>2, <1>6, ViewUnchanged DEF OpenHash, WriteHash
<1> QED
  BY <1>4, <1>5, <1>6 DEF RecordStep

LEMMA ViewAtInsert ==
  ASSUME RecordInv, NEW w \in Publishers, InsertRevision(w)
  PROVE  [View!ViewNext]_(View!viewVars)
<1> DEFINE p == DraftPolicy(w)
<1>1. /\ pub[w].step = "compiled" /\ ~RevisionTaken(pub[w].rev) /\ rows' = rows \union {p}
      /\ UNCHANGED <<now, live, recRev>>
  BY DEF InsertRevision, siteFiles
<1>2. p.rev = pub[w].rev /\ p.issued = pub[w].issued
  BY DEF DraftPolicy
<1> HIDE DEF p
<1>3. NumbersTakenTo(pub[w].rev) /\ pub[w].issued = now
  BY <1>1 DEF RecordInv, NumberInv, DraftsAreNumbered, LeaseInv, DraftsAreFresh
<1>4. \A q \in rows : q.rev < p.rev
  BY <1>1, <1>2, <1>3, FreeNumberIsAbove DEF NumbersTakenTo, RecordInv
<1>5. View!Publish(p)
  BY <1>1, <1>2, <1>3, <1>4 DEF View!Publish
<1> QED
  BY <1>1, <1>5 DEF View!ViewNext

LEMMA ViewStep == RecordInv /\ [Next]_vars => [View!ViewNext]_(View!viewVars)
<1> SUFFICES ASSUME RecordInv, [Next]_vars PROVE [View!ViewNext]_(View!viewVars)
  OBVIOUS
<1>1. CASE Tick
  BY <1>1 DEF Tick, hubVars, agentVars, View!ViewNext, View!ViewTick
<1>2. ASSUME NEW w \in Publishers, InsertRevision(w) PROVE [View!ViewNext]_(View!viewVars)
  BY <1>2, ViewAtInsert
<1>3. CASE InstallStep \/ CheckFails
  BY <1>3, ViewAtInstall
<1>4. CASE RecordStep
  BY <1>4, ViewAtRecord
<1>5. CASE UNCHANGED vars
  BY <1>5, ViewUnchanged DEF vars, hubVars, agentVars
<1>6. ASSUME NEW w \in Publishers,
             ReadRevision(w) \/ Compile(w) \/ RevisionConflict(w) \/ PublisherDies(w)
      PROVE  [View!ViewNext]_(View!viewVars)
  BY <1>6, ViewUnchanged DEF ReadRevision, Compile, RevisionConflict, PublisherDies,
     agentVars, siteFiles
<1>7. ASSUME \/ TimerRefresh \/ PullPublish
             \/ \E a \in Admins : CliPublish(a)
             \/ \E a \in Admins, o \in Objects : WebEdit(a, o)
             \/ \E o \in Objects : ApiEdit(o)
      PROVE  [View!ViewNext]_(View!viewVars)
  BY <1>7, ViewUnchanged DEF TimerRefresh, PullPublish, CliPublish, WebEdit, ApiEdit, agentVars
<1>8. ASSUME \/ StartPass \/ CheckStep \/ LoseAnswer \/ Crash
             \/ \E p \in rows : Answer(p)
      PROVE  [View!ViewNext]_(View!viewVars)
  BY <1>8, ViewUnchanged DEF StartPass, CheckStep, ReceiveUnchanged, VerifyReject,
     MismatchReject, LoseAnswer, Crash, Answer, OnlySite, hubVars, siteFiles
<1> QED
  BY <1>1, <1>2, <1>3, <1>4, <1>5, <1>6, <1>7, <1>8
     DEF Next, Hub, PublishStep, Agent, AnswerStep, Failure

\* PolicySync implements PolicyView: the adapter sees only published policies,
\* whole, and never one below the revision the site has recorded.
THEOREM Implements == Spec => KeepsTheView
<1>1. Init => View!ViewInit
  BY FileAssumption DEF Init, View!ViewInit
<1> QED
  BY <1>1, ViewStep, RecordInvariance, PTL DEF Spec, KeepsTheView, View!ViewSpec

=============================================================================

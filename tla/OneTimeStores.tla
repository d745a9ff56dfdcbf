---------------------------- MODULE OneTimeStores ----------------------------
(***************************************************************************)
(* Delivery of a new private key: the one-time stores of app/main.py for   *)
(* the bundle and its export password, the requests that fill them         *)
(* (issue, reissue, the JSON API), the delivery page and the downloads     *)
(* that empty them (app/routes/web_certs.py, app/routes/certs.py).         *)
(*                                                                         *)
(* The certificate is committed before its key is stored; from then on the *)
(* key exists in memory only.  Request threads share the two dicts and     *)
(* take no lock: a pop or an assignment is atomic, a sweep is a scan and   *)
(* then one deletion after the other.                                      *)
(*                                                                         *)
(* Simplifications:                                                        *)
(*  - A serial stands for its certificate, its key and the request id it   *)
(*    was asked for with.                                                  *)
(*  - Of the QR tokens of a serial the newest decides.                     *)
(*  - A repeated issue form changes nothing; the rate limits before the    *)
(*    downloads are left out.                                              *)
(*  - MaxTime bounds the clock.                                            *)
(***************************************************************************)
EXTENDS Integers, FiniteSets

CONSTANTS
  Workers,   (* request threads                                            *)
  Serials,
  Ttl,       (* _PENDING_TTL_SECONDS                                       *)
  QrAge,     (* BUNDLE_QR_TOKEN_MAX_AGE_SECONDS                            *)
  MaxTime,
  Never      (* no time: not in the store, no token                        *)

ASSUME SerialsAssumption == IsFiniteSet(Serials)
ASSUME TimesAssumption == Ttl \in Nat /\ QrAge \in Nat /\ MaxTime \in Nat /\ Never \notin Nat

VARIABLES
  clock,     (* time.monotonic()                                           *)
  cert,      (* rows of certificates, by the way they were asked for       *)
  pending,   (* the two dicts: when each entry was put there               *)
  token,     (* when the delivery page last made a QR token                *)
  job,       (* requests in progress                                       *)
  (* a history variable, for the properties                                *)
  delivered  (* how many answers with the key have arrived                 *)

vars == <<clock, cert, pending, token, job, delivered>>

Stores == {"bundle", "password"}
Times  == 0..MaxTime

Idle == [op |-> "none"]

\* key: the request has the private key in hand.
Jobs == {Idle}
  \union [op : {"store"}, serial : Serials, to : Stores, key : BOOLEAN]
  \union [op : {"scan"}, serial : Serials, to : Stores, key : BOOLEAN, at : Times, size : Nat]
  \union [op : {"sweep"}, serial : Serials, to : Stores, key : BOOLEAN, at : Times, stale : SUBSET Serials]
  \union [op : {"drop"}, serial : Serials, key : BOOLEAN]
  \union [op : {"answer"}, serial : Serials, key : {TRUE}]
  \union [op : {"page"}, serial : Serials]

TypeOK ==
  /\ clock \in Times
  /\ cert \in [Serials -> {"none", "web", "api"}]
  /\ pending \in [Stores -> [Serials -> Times \union {Never}]]
  /\ token \in [Serials -> Times \union {Never}]
  /\ job \in [Workers -> Jobs]
  /\ delivered \in [Serials -> 0..1]

Empty == [s \in Serials |-> Never]

Init ==
  /\ clock = 0
  /\ cert = [s \in Serials |-> "none"]
  /\ pending = [d \in Stores |-> Empty]
  /\ token = Empty
  /\ job = [w \in Workers |-> Idle]
  /\ delivered = [s \in Serials |-> 0]

Held(d) == {s \in Serials : pending[d][s] # Never}

Set(w, j) == job' = [job EXCEPT ![w] = j]

Put(d, s, t) == pending' = [pending EXCEPT ![d][s] = t]

(***************************************************************************)
(* Issue and reissue.                                                      *)
(***************************************************************************)
Issue(w, s, way) ==
  /\ job[w] = Idle /\ cert[s] = "none"
  /\ cert' = [cert EXCEPT ![s] = way]
  /\ Set(w, [op |-> "store", serial |-> s, to |-> "bundle", key |-> TRUE])
  /\ UNCHANGED <<clock, pending, token, delivered>>

\* The same request id again: the certificate is found, there is no bundle.
RetryAtApi(w, s) ==
  /\ job[w] = Idle /\ cert[s] = "api"
  /\ Set(w, [op |-> "store", serial |-> s, to |-> "bundle", key |-> FALSE])
  /\ UNCHANGED <<clock, cert, pending, token, delivered>>

(***************************************************************************)
(* store_pending_bundle and store_pending_password.                        *)
(***************************************************************************)
BeginScan(w) ==
  LET j == job[w]
  IN  /\ j.op = "store"
      /\ Set(w, [op |-> "scan", serial |-> j.serial, to |-> j.to, key |-> j.key,
                 at |-> clock, size |-> Cardinality(Held(j.to))])
      /\ UNCHANGED <<clock, cert, pending, token, delivered>>

\* Mutant: the sweep looks at the newest first.
YoungIn(d, now) == {s \in Held(d) : now - pending[d][s] <= Ttl}

StaleIn(d, now) == {s \in Held(d) : now - pending[d][s] > Ttl}

EndScan(w) ==
  LET j == job[w]
  IN  /\ j.op = "scan" /\ Cardinality(Held(j.to)) = j.size
      /\ Set(w, [op |-> "sweep", serial |-> j.serial, to |-> j.to, key |-> j.key,
                 at |-> j.at, stale |-> StaleIn(j.to, j.at)])
      /\ UNCHANGED <<clock, cert, pending, token, delivered>>

DropStale(w, s) ==
  LET j == job[w]
  IN  /\ j.op = "sweep" /\ s \in j.stale /\ s \in Held(j.to)
      /\ Put(j.to, s, Never)
      /\ Set(w, [j EXCEPT !.stale = @ \ {s}])
      /\ UNCHANGED <<clock, cert, token, delivered>>

\* The dict has changed its size under the scan, or somebody else has
\* removed the stale entry: the request ends in a 500.
SweepFails(w) ==
  LET j == job[w]
  IN  /\ \/ j.op = "scan" /\ Cardinality(Held(j.to)) # j.size
         \/ j.op = "sweep" /\ j.stale \ Held(j.to) # {}
      /\ Set(w, Idle)
      /\ UNCHANGED <<clock, cert, pending, token, delivered>>

\* The form stores the password next; the API was given it.
Insert(w) ==
  LET j == job[w]
      last == j.to = "password" \/ cert[j.serial] = "api"
  IN  /\ j.op = "sweep" /\ j.stale = {}
      /\ IF j.key THEN Put(j.to, j.serial, j.at) ELSE UNCHANGED pending
      /\ Set(w, IF last THEN Idle
                ELSE [op |-> "store", serial |-> j.serial, to |-> "password", key |-> TRUE])
      /\ UNCHANGED <<clock, cert, token, delivered>>

(***************************************************************************)
(* The delivery page and the downloads.                                    *)
(***************************************************************************)
OpenPage(w, s) ==
  /\ job[w] = Idle /\ s \in Held("password")
  /\ Set(w, [op |-> "page", serial |-> s])
  /\ UNCHANGED <<clock, cert, pending, token, delivered>>

ShowPage(w) ==
  LET j == job[w]
  IN  /\ j.op = "page"
      /\ Set(w, Idle)
      /\ token' = IF j.serial \in Held("bundle") THEN [token EXCEPT ![j.serial] = clock] ELSE token
      /\ UNCHANGED <<clock, cert, pending, delivered>>

\* Mutant: the bundle is looked up and left.
PeekBundle(w, s) ==
  /\ Set(w, [op |-> "drop", serial |-> s, key |-> s \in Held("bundle")])
  /\ UNCHANGED pending

PopBundle(w, s) ==
  /\ Set(w, [op |-> "drop", serial |-> s, key |-> s \in Held("bundle")])
  /\ Put("bundle", s, Never)

\* An admin logged in with write access, or whoever has a QR token.
Download(w, s) ==
  /\ job[w] = Idle /\ cert[s] # "none"
  /\ PopBundle(w, s)
  /\ UNCHANGED <<clock, cert, token, delivered>>

DownloadByQr(w, s) ==
  /\ job[w] = Idle
  /\ token[s] # Never /\ clock - token[s] <= QrAge
  /\ PopBundle(w, s)
  /\ UNCHANGED <<clock, cert, token, delivered>>

\* Also when there was no bundle.
DropPassword(w) ==
  LET j == job[w]
  IN  /\ j.op = "drop"
      /\ Put("password", j.serial, Never)
      /\ Set(w, IF j.key THEN [j EXCEPT !.op = "answer"] ELSE Idle)
      /\ UNCHANGED <<clock, cert, token, delivered>>

\* The file is built and sent, or building it fails, or the answer is lost.
Answer(w) ==
  LET j == job[w]
  IN  /\ j.op = "answer"
      /\ Set(w, Idle)
      /\ \/ delivered' = [delivered EXCEPT ![j.serial] = @ + 1]
         \/ UNCHANGED delivered
      /\ UNCHANGED <<clock, cert, pending, token>>

(***************************************************************************)
(* Time and restarts.                                                      *)
(***************************************************************************)
Tick ==
  /\ clock < MaxTime
  /\ clock' = clock + 1
  /\ UNCHANGED <<cert, pending, token, job, delivered>>

Restart ==
  /\ pending' = [d \in Stores |-> Empty]
  /\ job' = [w \in Workers |-> Idle]
  /\ UNCHANGED <<clock, cert, token, delivered>>

Fills(w) ==
  \/ \E s \in Serials : (\E way \in {"web", "api"} : Issue(w, s, way)) \/ RetryAtApi(w, s)
  \/ BeginScan(w) \/ EndScan(w) \/ SweepFails(w) \/ Insert(w)
  \/ \E s \in Serials : DropStale(w, s)

Empties(w) ==
  \/ \E s \in Serials : OpenPage(w, s) \/ Download(w, s) \/ DownloadByQr(w, s)
  \/ ShowPage(w) \/ DropPassword(w) \/ Answer(w)

Next == (\E w \in Workers : Fills(w) \/ Empties(w)) \/ Tick \/ Restart

Spec == Init /\ [][Next]_vars

(***************************************************************************)
(* Properties.                                                             *)
(***************************************************************************)
\* The request is on its way to put this key into the store, or has taken it.
Storing(j, s) ==
  j.op \in {"store", "scan", "sweep"} /\ j.serial = s /\ j.to = "bundle" /\ j.key
Taking(j, s) ==
  j.op \in {"drop", "answer"} /\ j.serial = s /\ j.key

\* The request has this key in hand.
Carries(w, s) == Storing(job[w], s) \/ Taking(job[w], s)

\* A private key is in one place at most - with the request that made it, in
\* the store, with the one download that took it, or delivered - whichever
\* of the pages, links and API calls race for it, and however a sweep runs
\* into them.
KeyInOnePlace ==
  \A s \in Serials :
    /\ \A v, w \in Workers : Carries(v, s) /\ Carries(w, s) => v = w
    /\ (\E w \in Workers : Carries(w, s)) => s \notin Held("bundle") /\ delivered[s] = 0
    /\ s \in Held("bundle") => delivered[s] = 0
    /\ delivered[s] <= 1

\* Where the key of a certificate is.
StageOf(s) ==
  IF cert[s] = "none" THEN "none"
  ELSE IF delivered[s] > 0 THEN "delivered"
  ELSE IF s \in Held("bundle") THEN "kept"
  ELSE IF \E w \in Workers : Storing(job[w], s) THEN "made"
  ELSE IF \E w \in Workers : Taking(job[w], s) THEN "taken"
  ELSE "gone"

Custody == INSTANCE KeyCustody WITH
  Keys  <- Serials,
  None  <- Never,
  stage <- [s \in Serials |-> StageOf(s)],
  since <- pending["bundle"],
  now   <- clock

\* The stores, the delivery page and the downloads keep the promise of
\* KeyCustody: a key goes from the request that made it through the store to
\* one download, and never back; it leaves the store into the hands of that
\* download, after the 15 minutes, or with the process, and no other
\* request's sweep removes a key that is still to be fetched.
KeepsCustody == Custody!CustodySpec

Busy(s) == \E w \in Workers : job[w] # Idle /\ job[w].serial = s

\* app/main.py says of the password that it is dropped "in lockstep" with
\* the bundle: no password is kept for a bundle that is no longer there.
Lockstep ==
  \A s \in Serials : s \in Held("password") /\ ~Busy(s) => s \in Held("bundle")

\* The delivery page says that it works as long as the bundle has not been
\* downloaded: whoever has a bundle pending from a form has the page.
Reloadable ==
  \A s \in Serials : cert[s] = "web" /\ s \in Held("bundle") /\ ~Busy(s) => s \in Held("password")

=============================================================================

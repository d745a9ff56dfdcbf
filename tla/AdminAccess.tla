----------------------------- MODULE AdminAccess -----------------------------
(***************************************************************************)
(* Admin accounts: login with its lockout, the sessions and their cookies, *)
(* change and reset of passwords, deactivation and forced logout           *)
(* (app/auth.py, app/routes/web_auth.py, web_account.py, web_admins.py,    *)
(* scripts/bootstrap_superadmin.py).                                       *)
(*                                                                         *)
(* A request reads the admin's row, spends some 100 ms in Argon2 or        *)
(* renders a form, and writes at its end the columns whose value it has    *)
(* changed, computed from what it has read.  Requests overlap, also two    *)
(* for the same admin.                                                     *)
(*                                                                         *)
(* Simplifications:                                                        *)
(*  - Passwords are left out: a login is right or wrong at its check.  That *)
(*    a password is temporary (drawn for a new admin or by a reset) is in  *)
(*    must_change_password alone.                                          *)
(*  - Roles other than superadmin are one; an admin's company is left out. *)
(*  - A cookie that is lost or has expired frees its session id.           *)
(*  - MaxVersion bounds the token version.                                 *)
(***************************************************************************)
EXTENDS Integers, FiniteSets

CONSTANTS
  Workers,      (* requests in progress                                    *)
  Admins,
  Supers,       (* those who are created as superadmins                    *)
  Sids,         (* session ids                                             *)
  NoAdmin, NoSession,
  MaxAttempts,  (* LOCKOUT_MAX_ATTEMPTS                                    *)
  MaxVersion

ASSUME SupersAssumption  == Supers \subseteq Admins /\ IsFiniteSet(Admins)
ASSUME LimitsAssumption  == MaxAttempts \in Nat \ {0} /\ MaxVersion \in Nat

VARIABLES
  row,    (* rows of admins                                                *)
  sess,   (* rows of admin_sessions, each with its cookie                  *)
  job,    (* requests that have read and not yet written                   *)
  (* a history variable, for the properties                                *)
  raced   (* what overlapped: two bumps of one admin, two deactivations, or  *)
          (* a login that finds an expired lock and another of the admin     *)

vars == <<row, sess, job, raced>>

Bumps == {"deactivate", "reset", "logout", "change"}

\* lock is locked_until: none, in the future, in the past.
Rows == [must : BOOLEAN, tv : 0..MaxVersion, count : Nat,
         lock : {"no", "on", "over"}, active : BOOLEAN]

\* tv is the version in the cookie; ended, whether a bump came since the
\* login read the row (history).
Sessions == [admin : Admins, tv : 0..MaxVersion, live : BOOLEAN, ended : BOOLEAN]

Idle == [op |-> "none"]
Jobs == {Idle}
  \union [op : {"renew"}, admin : Admins, count : Nat, tv : 0..MaxVersion, active : BOOLEAN,
          ended : BOOLEAN]
  \union [op : {"verify"}, admin : Admins, count : Nat, tv : 0..MaxVersion, ended : BOOLEAN]
  \union [op : {"enter"}, admin : Admins, tv : 0..MaxVersion, ended : BOOLEAN]
  \union [op : Bumps, admin : Admins, must : BOOLEAN, tv : 0..MaxVersion]

ASSUME NoneAssumption == NoAdmin \notin Rows /\ NoSession \notin Sessions

Shapes ==
  /\ row \in [Admins -> Rows \union {NoAdmin}]
  /\ sess \in [Sids -> Sessions \union {NoSession}]
  /\ job \in [Workers -> Jobs]
  /\ raced \subseteq {"bump", "removal", "renewal"}

Exists(a) == row[a] # NoAdmin

\* Types, and that no failure is counted past the limit as long as no login
\* overlapped the reset of an expired lock (see LockHolds): each adds one to
\* the count it has read (attempt_login, app/auth.py:189-194).
TypeOK ==
  /\ Shapes
  /\ "renewal" \notin raced => \A a \in Admins : Exists(a) => row[a].count <= MaxAttempts

NewRow(must) ==
  [must |-> must, tv |-> 0, count |-> 0, lock |-> "no", active |-> TRUE]

Init ==
  /\ row = [a \in Admins |-> NoAdmin]
  /\ sess = [i \in Sids |-> NoSession]
  /\ job = [w \in Workers |-> Idle]
  /\ raced = {}

\* require_admin
Accepted(i) ==
  /\ sess[i] # NoSession
  /\ LET s == sess[i] IN s.live /\ row[s.admin].active /\ row[s.admin].tv = s.tv

\* require_super_admin, at the forms
ActsAsSuper(i) == Accepted(i) /\ sess[i].admin \in Supers /\ ~row[sess[i].admin].must

Set(w, j) == job' = [job EXCEPT ![w] = j]

Others(ops, a) == {w \in Workers : job[w].op \in ops /\ job[w].admin = a}

(***************************************************************************)
(* Login.                                                                  *)
(***************************************************************************)
\* The admin's row is read; a request that finds an expired lock resets it
\* before it looks at anything else.
LoginReads(w, a) ==
  LET r == row[a]
  IN  /\ job[w] = Idle /\ Exists(a)
      /\ \/ /\ r.lock = "no" /\ r.active
            /\ Set(w, [op |-> "verify", admin |-> a, count |-> r.count, tv |-> r.tv, ended |-> FALSE])
            /\ UNCHANGED raced
         \/ /\ r.lock = "over"
            /\ Set(w, [op |-> "renew", admin |-> a, count |-> r.count, tv |-> r.tv,
                       active |-> r.active, ended |-> FALSE])
            /\ raced' = raced \union {"renewal" : v \in Others({"verify", "renew"}, a)}
      /\ UNCHANGED <<row, sess>>

\* Mutant: an expired lock leaves the count.
RenewedKeepsCount(now, count) == [now EXCEPT !.lock = "no"]

\* The columns of an expired lock that differ from what was read.
Renewed(now, count) == [now EXCEPT !.lock = "no", !.count = IF count # 0 THEN 0 ELSE @]

\* The reset, in a transaction of its own: the row may have been written
\* since, and the request goes on with what it has read and assigned.
Renew(w) ==
  LET j == job[w]  a == job[w].admin
  IN  /\ j.op = "renew"
      /\ row' = [row EXCEPT ![a] = Renewed(@, j.count)]
      /\ Set(w, IF j.active
                  THEN [op |-> "verify", admin |-> a, count |-> 0, tv |-> j.tv, ended |-> j.ended]
                  ELSE Idle)
      /\ UNCHANGED <<sess, raced>>

\* Mutant: a failed attempt writes the lock it has read.
FailedRow(now, count) == [now EXCEPT !.count = count, !.lock = IF count >= MaxAttempts THEN "on" ELSE "no"]

\* The columns that differ from what was read, when there was no lock.
Failed(now, count) == [now EXCEPT !.count = count, !.lock = IF count >= MaxAttempts THEN "on" ELSE @]

Wrong(w) ==
  LET j == job[w]  a == job[w].admin
  IN  /\ j.op = "verify"
      /\ row' = [row EXCEPT ![a] = Failed(@, j.count + 1)]
      /\ Set(w, Idle)
      /\ UNCHANGED <<sess, raced>>

Right(w) ==
  LET j == job[w]  a == job[w].admin
  IN  /\ j.op = "verify"
      /\ row' = [row EXCEPT ![a].count = IF j.count # 0 THEN 0 ELSE @]
      /\ Set(w, [op |-> "enter", admin |-> a, tv |-> j.tv, ended |-> j.ended])
      /\ UNCHANGED <<sess, raced>>

\* Mutant: the cookie takes the version the row has now.
EnterNow(w, i) ==
  /\ job[w].op = "enter" /\ sess[i] = NoSession
  /\ sess' = [sess EXCEPT ![i] = [admin |-> job[w].admin, tv |-> row[job[w].admin].tv,
                                  live |-> TRUE, ended |-> job[w].ended]]
  /\ Set(w, Idle)
  /\ UNCHANGED <<row, raced>>

\* create_admin_session and the cookie, with the row the request has read.
Enter(w, i) ==
  /\ job[w].op = "enter" /\ sess[i] = NoSession
  /\ sess' = [sess EXCEPT ![i] = [admin |-> job[w].admin, tv |-> job[w].tv,
                                  live |-> TRUE, ended |-> job[w].ended]]
  /\ Set(w, Idle)
  /\ UNCHANGED <<row, raced>>

LockExpires(a) ==
  /\ Exists(a) /\ row[a].lock = "on"
  /\ row' = [row EXCEPT ![a].lock = "over"]
  /\ UNCHANGED <<sess, job, raced>>

(***************************************************************************)
(* Sessions.                                                               *)
(***************************************************************************)
\* Logout, or the end of the session from another one of the same admin.
EndSession(i) ==
  /\ sess[i] # NoSession /\ sess[i].live
  /\ sess' = [sess EXCEPT ![i].live = FALSE]
  /\ UNCHANGED <<row, job, raced>>

\* 15 minutes without a request, or 12 hours.
CookieExpires(i) ==
  /\ sess[i] # NoSession
  /\ sess' = [sess EXCEPT ![i] = NoSession]
  /\ UNCHANGED <<row, job, raced>>

(***************************************************************************)
(* Accounts.                                                               *)
(***************************************************************************)
Bootstrap(a) ==
  /\ a \in Supers /\ \A b \in Admins : ~Exists(b)
  /\ row' = [row EXCEPT ![a] = NewRow(FALSE)]
  /\ UNCHANGED <<sess, job, raced>>

Create(i, a) ==
  /\ ActsAsSuper(i) /\ ~Exists(a)
  /\ row' = [row EXCEPT ![a] = NewRow(TRUE)]
  /\ UNCHANGED <<sess, job, raced>>

Reads(w, op, a) ==
  /\ job[w] = Idle /\ Exists(a) /\ row[a].tv < MaxVersion
  /\ Set(w, [op |-> op, admin |-> a, must |-> row[a].must, tv |-> row[a].tv])
  /\ raced' = raced \union {"bump" : v \in Others(Bumps, a)}
                   \union {"removal" : v \in {u \in Workers : op = "deactivate" /\ job[u].op = op}}
  /\ UNCHANGED <<row, sess>>

\* Mutant: deactivated superadmins count.
AllSupers == {a \in Supers : Exists(a)}

ActiveSupers == {a \in Supers : Exists(a) /\ row[a].active}

Deactivate(w, i, a) ==
  /\ ActsAsSuper(i)
  /\ a \in Supers => Cardinality(ActiveSupers) > 1
  /\ Reads(w, "deactivate", a)

Reset(w, i, a)       == ActsAsSuper(i) /\ Reads(w, "reset", a)
ForceLogout(w, i, a) == ActsAsSuper(i) /\ Reads(w, "logout", a)

\* The current password is given; the new one is the admin's own.
ChangePassword(w, i) == Accepted(i) /\ Reads(w, "change", sess[i].admin)

\* The columns an account operation assigns, and whether their value is new
\* to the request.
Assigned(op, now, must) ==
  CASE op = "deactivate" -> [now EXCEPT !.active = FALSE]
    [] op = "logout"     -> now
    [] op = "reset"      -> [now EXCEPT !.must = IF must THEN @ ELSE TRUE]
    [] op = "change"     -> [now EXCEPT !.must = IF must THEN FALSE ELSE @]

\* bump_token_version, with what the operation has assigned before; the
\* version is the one it has read, plus one.
Bump(w) ==
  LET j == job[w]
      a == job[w].admin
  IN  /\ j.op \in Bumps
      /\ row' = [row EXCEPT ![a] = [Assigned(j.op, @, j.must) EXCEPT !.tv = j.tv + 1]]
      /\ sess' = [i \in Sids |->
            IF sess[i] # NoSession /\ sess[i].admin = a
              THEN [sess[i] EXCEPT !.live = FALSE, !.ended = TRUE] ELSE sess[i]]
      /\ job' = [v \in Workers |->
            IF v = w
              THEN IF j.op = "change"
                     THEN [op |-> "enter", admin |-> a, tv |-> j.tv + 1, ended |-> FALSE]
                     ELSE Idle
              ELSE IF v \in Others({"verify", "renew", "enter"}, a)
                     THEN [job[v] EXCEPT !.ended = TRUE] ELSE job[v]]
      /\ UNCHANGED raced

Fails(w) == job[w] # Idle /\ Set(w, Idle) /\ UNCHANGED <<row, sess, raced>>

(***************************************************************************)
(* The specification.                                                      *)
(***************************************************************************)
Request(w) ==
  \/ \E a \in Admins : LoginReads(w, a)
  \/ Renew(w) \/ Wrong(w) \/ Right(w) \/ Bump(w) \/ Fails(w)
  \/ \E i \in Sids : Enter(w, i) \/ ChangePassword(w, i)
  \/ \E i \in Sids, a \in Admins : Deactivate(w, i, a) \/ Reset(w, i, a) \/ ForceLogout(w, i, a)

Next ==
  \/ \E w \in Workers : Request(w)
  \/ \E i \in Sids : EndSession(i) \/ CookieExpires(i)
  \/ \E a \in Admins : LockExpires(a) \/ Bootstrap(a)
  \/ \E i \in Sids, a \in Admins : Create(i, a)

Spec == Init /\ [][Next]_vars

(***************************************************************************)
(* Properties.                                                             *)
(***************************************************************************)

\* Nobody stays in, or gets in, with a login that began before the admin was
\* deactivated, reset or logged out: the session row may be written after
\* the bump, but its cookie carries the version read before.  As long as no
\* two bumps of one admin overlap.
BumpsHold ==
  \A i \in Sids : Accepted(i) /\ "bump" \notin raced => ~sess[i].ended

\* A lock ends by time only: no attempt that has read the row before the
\* lock, failed or successful, lifts it.  As long as no login found an expired
\* lock while another of the admin was in progress: the reset of the lock is
\* a transaction of its own, and one that is late lifts the lock that failures
\* after the first reset have set (attempt_login, app/auth.py:173-183).
LockHolds ==
  [][\A a \in Admins : Exists(a) /\ row[a].lock = "on" /\ "renewal" \notin raced =>
       row'[a].lock \in {"on", "over"}]_vars

\* The same without the exception, which fails: a login finds the expired
\* lock, failures of others lock the account anew, and its reset lifts that
\* lock (AdminLockLifted.cfg).
LockNeverLifted ==
  [][\A a \in Admins : Exists(a) /\ row[a].lock = "on" => row'[a].lock \in {"on", "over"}]_vars

\* Once there is an admin, there is an active superadmin: nothing else could
\* reactivate one, and the bootstrap script refuses.  As long as no two
\* deactivations overlap: each counts the superadmins before the other ends
\* (admin_deactivate, app/routes/web_admins.py:95, "cannot deactivate the last
\* active Super Admin").
SuperLeft ==
  (\E a \in Admins : Exists(a)) /\ "removal" \notin raced =>
    \E a \in Supers : Exists(a) /\ row[a].active

=============================================================================

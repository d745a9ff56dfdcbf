----------------------------- MODULE BulkImport -----------------------------
(***************************************************************************)
(* Bulk onboarding: a CSV of employees, then one of devices, each          *)
(* previewed and confirmed (app/bulk_network_service.py,                   *)
(* app/routes/bulk_network.py), the batch reissue of certificates          *)
(* (app/bulk_service.py, app/routes/web_certs.py, app/routes/bulk.py), and *)
(* what goes on beside them: single issues, suspensions, revocations and   *)
(* what takes them back, the import of certificates found as files         *)
(* (app/reconcile.py), offboarding, the links of roles with departments,   *)
(* restarts.                                                               *)
(*                                                                         *)
(* A confirm commits row after row.  The one of devices holds the PKI lock *)
(* from its first row to its last and keeps the keys of the batch in       *)
(* memory until the ZIP is stored; a reissue takes the lock per row.       *)
(*                                                                         *)
(* Simplifications:                                                        *)
(*  - One company, one role; an employee stands for his number.            *)
(*  - A common name is that of the employee and the device type.           *)
(*  - Each CSV is uploaded once; a repeated upload is one with equal rows. *)
(*  - The sweep of the preview and batch stores is that of OneTimeStores.  *)
(*  - The form issues one certificate per common name of Singles, which    *)
(*    are those that are suspended, and Leavers are offboarded: bounds.    *)
(*  - Suspended and revoked certificates are told apart only when one is   *)
(*    reissued, which a revoked one refuses: either may happen.            *)
(*  - A certificate's file is written before its row is committed.  One    *)
(*    that is imported in between makes the commit fail: this is the       *)
(*    failure that leaves the file, and the import after it.               *)
(*  - Nobody deletes employees, devices or certificates.                   *)
(***************************************************************************)
EXTENDS Integers, Sequences, FiniteSets

CONSTANTS
  Workers,    (* request threads                                           *)
  Emps, Types,
  Staff,      (* uploads of employees                                      *)
  Gear,       (* uploads of devices                                        *)
  Renewals,   (* batch ids of reissues                                     *)
  Rows,       (* upload -> its rows                                        *)
  Singles,    (* names the form is used for, and of which any is suspended *)
  Leavers,    (* employees who may be offboarded                           *)
  Display,    (* employee -> display name                                  *)
  Free        (* nobody holds the PKI lock                                 *)

Uploads == Staff \union Gear
Names   == Emps \X Types

ASSUME RowsAssumption ==
  /\ Staff \intersect Gear = {} /\ Renewals \intersect Uploads = {} /\ Free \notin Workers
  /\ "form" \notin Gear \union Renewals
  /\ Singles \subseteq Names /\ Leavers \subseteq Emps
  /\ \A u \in Staff : Rows[u] \in Seq(Emps)
  /\ \A u \in Gear : Rows[u] \in Seq(Names)

VARIABLES
  people,   (* rows of employees: their status                             *)
  linked,   (* the role is linked to the employees' department             *)
  devices,  (* rows of devices registered, by upload and row               *)
  certs,    (* rows of certificates                                        *)
  active,   (* those with status active; the others are suspended, revoked *)
  orphans,  (* files of certificates without a row                         *)
  lock,     (* the PKI lock                                                *)
  preview,  (* pending_previews                                            *)
  batch,    (* pending_batches: result and ZIP                             *)
  job       (* requests in progress                                        *)

people_vars == <<people, linked>>
cert_vars   == <<certs, active, orphans>>
vars == <<people_vars, devices, cert_vars, lock, preview, batch, job>>

Index == UNION {DOMAIN Rows[u] : u \in Uploads}

Statuses == {"absent", "active", "offboarding", "offboarded"}

\* batch and row: what the certificate was made for; row 0 is the form.  One
\* that is imported has lost both: they only tell it apart.
Certs == [cn : Names, batch : Gear \union Renewals \union {"form"}, row : Nat, imported : BOOLEAN]

\* rows: reported as done, reported as failed; zip: the certificates whose
\* keys are in the ZIP.
Results == [ok : SUBSET Nat, bad : SUBSET Nat, zip : SUBSET Certs]

Idle == [op |-> "none"]

\* todo: rows still to do; seen: the employee as this session has him.
Jobs == {Idle}
  \union [op : {"people"}, id : Staff, todo : SUBSET Index]
  \union [op : {"wait", "load", "register", "check", "sign", "report"}, id : Gear, todo : SUBSET Index,
          res : Results, seen : [emp : Emps, status : Statuses \ {"absent"}] \union {Idle}]
  \union [op : {"renew"}, id : Renewals, todo : SUBSET Certs, res : Results, row : Nat]
  \union [op : {"store"}, id : Gear \union Renewals, res : Results]
  \union [op : {"form check", "form sign"}, cn : Names]

TypeOK ==
  /\ people \in [Emps -> Statuses]
  /\ linked \in BOOLEAN
  /\ \A u \in Gear : devices[u] \in [DOMAIN Rows[u] -> Nat]
  /\ certs \subseteq Certs /\ active \subseteq certs /\ orphans \subseteq Certs
  /\ lock \in Workers \union {Free}
  /\ preview \in [Uploads -> {"new", "pending", "gone"}]
  /\ \A b \in Gear \union Renewals : batch[b] \in {Idle} \union Results
  /\ job \in [Workers -> Jobs]

Init ==
  /\ people = [e \in Emps |-> "absent"]
  /\ linked = TRUE
  /\ devices = [u \in Gear |-> [i \in DOMAIN Rows[u] |-> 0]]
  /\ certs = {} /\ active = {} /\ orphans = {}
  /\ lock = Free
  /\ preview = [u \in Uploads |-> "new"]
  /\ batch = [b \in Gear \union Renewals |-> Idle]
  /\ job = [w \in Workers |-> Idle]

Set(w, j) == job' = [job EXCEPT ![w] = j]

Current(cn) == {c \in active : c.cn = cn}

NoResult == [ok |-> {}, bad |-> {}, zip |-> {}]

\* The name of a certificate's entry in the ZIP: the device's, which begins
\* with the employee's display name, or the common name.
Entry(c) == IF c.batch \in Gear THEN <<Display[c.cn[1]], c.cn[2]>> ELSE c.cn

\* Entries of one name: when the ZIP is unpacked, the last one is left.
Entered(zip, c) == {d \in zip : Entry(d) # Entry(c)} \union {c}

Certificate(cn, b, i) == [cn |-> cn, batch |-> b, row |-> i, imported |-> FALSE]

File(c) == [c EXCEPT !.imported = TRUE]

(***************************************************************************)
(* Preview and confirm.                                                    *)
(***************************************************************************)
Preview(u) ==
  /\ preview[u] = "new"
  /\ preview' = [preview EXCEPT ![u] = "pending"]
  /\ UNCHANGED <<people_vars, devices, cert_vars, lock, batch, job>>

\* Mutant: whether the employee exists is not asked.
ValidUnasked(u) ==
  IF u \in Staff THEN {i \in DOMAIN Rows[u] : people[Rows[u][i]] = "absent"}
  ELSE {i \in DOMAIN Rows[u] : linked}

\* classify_employees and classify_devices
Valid(u) ==
  IF u \in Staff THEN {i \in DOMAIN Rows[u] : people[Rows[u][i]] = "absent"}
  ELSE {i \in DOMAIN Rows[u] : people[Rows[u][i][1]] # "absent" /\ linked}

\* Mutant: the preview stays.
PeekPreview(u) == preview[u] = "pending" /\ UNCHANGED preview

TakePreview(u) == preview[u] = "pending" /\ preview' = [preview EXCEPT ![u] = "gone"]

Confirm(w, u) ==
  /\ job[w] = Idle
  /\ TakePreview(u)
  /\ Set(w, IF u \in Staff THEN [op |-> "people", id |-> u, todo |-> Valid(u)]
            ELSE [op |-> "wait", id |-> u, todo |-> Valid(u), res |-> NoResult, seen |-> Idle])
  /\ UNCHANGED <<people_vars, devices, cert_vars, lock, batch>>

First(todo) == CHOOSE i \in todo : \A k \in todo : i <= k

\* create_employee and its commit; the number may have been taken since.
CreateEmployee(w) ==
  LET j == job[w]  i == First(j.todo)  e == Rows[j.id][i]
  IN  /\ j.op = "people" /\ j.todo # {}
      /\ \/ /\ people[e] = "absent"
            /\ people' = [people EXCEPT ![e] = "active"]
         \/ UNCHANGED people
      /\ Set(w, [j EXCEPT !.todo = @ \ {i}])
      /\ UNCHANGED <<linked, devices, cert_vars, lock, preview, batch>>

EmployeesDone(w) ==
  /\ job[w].op = "people" /\ job[w].todo = {}
  /\ Set(w, Idle)
  /\ UNCHANGED <<people_vars, devices, cert_vars, lock, preview, batch>>

(***************************************************************************)
(* confirm_devices.                                                        *)
(***************************************************************************)
\* Mutant: each does without the lock.
NoLock(w) == UNCHANGED lock

Acquire(w) == lock = Free /\ lock' = w

BeginBatch(w) ==
  /\ job[w].op = "wait"
  /\ Acquire(w)
  /\ Set(w, [job[w] EXCEPT !.op = "load"])
  /\ UNCHANGED <<people_vars, devices, cert_vars, preview, batch>>

\* The lock is waited for for 30 seconds; the preview is gone by then.
LockTimesOut(w) ==
  /\ job[w].op = "wait" /\ lock # Free
  /\ Set(w, Idle)
  /\ UNCHANGED <<people_vars, devices, cert_vars, lock, preview, batch>>

\* The employee the last row has loaded is still alive in the session: a
\* second SELECT finds him there and does not refresh him.
LoadRow(w) ==
  LET j == job[w]  e == Rows[j.id][First(j.todo)][1]
      kept == j.seen # Idle /\ j.seen.emp = e
  IN  /\ j.op = "load" /\ j.todo # {}
      /\ Set(w, [j EXCEPT !.op = "register",
                          !.seen = IF kept THEN @ ELSE [emp |-> e, status |-> people[e]]])
      /\ UNCHANGED <<people_vars, devices, cert_vars, lock, preview, batch>>

\* register_device and its commit.
Register(w) ==
  LET j == job[w]  i == First(j.todo)
  IN  /\ j.op = "register" /\ linked /\ j.seen.status # "offboarded"
      /\ devices' = [devices EXCEPT ![j.id][i] = @ + 1]
      /\ Set(w, [j EXCEPT !.op = "check"])
      /\ UNCHANGED <<people_vars, cert_vars, lock, preview, batch>>

\* _issue_one_locked: the check for an active certificate of that name ...
CheckName(w) ==
  LET j == job[w]  cn == Rows[j.id][First(j.todo)]
  IN  /\ j.op = "check" /\ Current(cn) = {}
      /\ Set(w, [j EXCEPT !.op = "sign"])
      /\ UNCHANGED <<people_vars, devices, cert_vars, lock, preview, batch>>

RowCert(j) == Certificate(Rows[j.id][First(j.todo)], j.id, First(j.todo))

\* ... and the key, the certificate, its file and the commit.
Sign(w) ==
  LET j == job[w]  c == RowCert(j)
  IN  /\ j.op = "sign"
      /\ certs' = certs \union {c} /\ active' = active \union {c}
      /\ Set(w, [j EXCEPT !.op = "report"])
      /\ UNCHANGED <<people_vars, devices, orphans, lock, preview, batch>>

\* The row is reported as done, and then the key goes into the ZIP.
Done(res, i)     == [res EXCEPT !.ok = @ \union {i}]
Packed(res, c)   == [Done(res, c.row) EXCEPT !.zip = Entered(@, c)]

Report(w) ==
  LET j == job[w]
  IN  /\ j.op = "report"
      /\ Set(w, [j EXCEPT !.op = "load", !.todo = @ \ {First(j.todo)}, !.res = Packed(@, RowCert(j))])
      /\ UNCHANGED <<people_vars, devices, cert_vars, lock, preview, batch>>

\* Mutant: the row that failed is reported as done.
CountAnyway(j, i, res) == [j EXCEPT !.op = "load", !.todo = @ \ {i}, !.res = Done(res, i), !.seen = Idle]

\* The rollback expires what the session holds.
Skip(j, i, res) ==
  [j EXCEPT !.op = "load", !.todo = @ \ {i}, !.res = [res EXCEPT !.bad = @ \union {i}], !.seen = Idle]

\* Whatever raises in a row - the checks of register_device, the name that
\* is taken, the database before the commit or after it, the ZIP: rolled
\* back, reported as failed, on to the next row.  The row may have been
\* reported as done already, and a certificate that is not committed may
\* have left its file.
RowFails(w) ==
  LET j == job[w]  i == First(j.todo)
  IN  /\ j.op \in {"register", "check", "sign", "report"}
      /\ \E res \in {j.res} \union {r \in {Done(j.res, i), Packed(j.res, RowCert(j))} : j.op = "report"} :
           Set(w, Skip(j, i, res))
      /\ orphans' \in {orphans} \union {orphans \union {File(c)} : c \in {d \in {RowCert(j)} : j.op = "sign"}}
      /\ UNCHANGED <<people_vars, devices, certs, active, lock, preview, batch>>

EndBatch(w) ==
  LET j == job[w]
  IN  /\ j.op = "load" /\ j.todo = {}
      /\ lock' = Free
      /\ Set(w, [op |-> "store", id |-> j.id, res |-> j.res])
      /\ UNCHANGED <<people_vars, devices, cert_vars, preview, batch>>

(***************************************************************************)
(* Reissue of a selection, and the results of both.                        *)
(***************************************************************************)
Select(w, r, some) ==
  /\ job[w] = Idle /\ batch[r] = Idle
  /\ ~ \E c \in certs \union orphans : c.batch = r
  /\ \A v \in Workers : job[v] # Idle /\ job[v].op \in {"renew", "store"} => job[v].id # r
  /\ Set(w, [op |-> "renew", id |-> r, todo |-> some, res |-> NoResult, row |-> 1])
  /\ UNCHANGED <<people_vars, devices, cert_vars, lock, preview, batch>>

\* One reissue under the lock, without a look for others of the name ...
Reissue(w, c) ==
  LET j == job[w]  n == Certificate(c.cn, j.id, j.row)
  IN  /\ j.op = "renew" /\ c \in j.todo /\ lock = Free
      /\ certs' = certs \union {n} /\ active' = active \union {n}
      /\ Set(w, [j EXCEPT !.todo = @ \ {c}, !.row = @ + 1, !.res = Packed(@, n)])
      /\ UNCHANGED <<people_vars, devices, orphans, lock, preview, batch>>

\* ... but of a revoked certificate: a failed row.
ReissueRefused(w, c) ==
  LET j == job[w]
  IN  /\ j.op = "renew" /\ c \in j.todo /\ lock = Free /\ c \notin active
      /\ Set(w, [j EXCEPT !.todo = @ \ {c}, !.row = @ + 1, !.res.bad = @ \union {j.row}])
      /\ UNCHANGED <<people_vars, devices, cert_vars, lock, preview, batch>>

\* The lock times out, or the database fails, before the commit or after it:
\* renew_batch catches ReissueTargetError only, and the keys it has go with
\* the request.
ReissueRaises(w) ==
  LET j == job[w]
  IN  /\ j.op = "renew"
      /\ Set(w, Idle)
      /\ orphans' \in {orphans} \union {orphans \union {File(Certificate(c.cn, j.id, j.row))} : c \in j.todo}
      /\ UNCHANGED <<people_vars, devices, certs, active, lock, preview, batch>>

RenewDone(w) ==
  LET j == job[w]
  IN  /\ j.op = "renew" /\ j.todo = {}
      /\ Set(w, [op |-> "store", id |-> j.id, res |-> j.res])
      /\ UNCHANGED <<people_vars, devices, cert_vars, lock, preview, batch>>

StoreBatch(w) ==
  LET j == job[w]
  IN  /\ j.op = "store"
      /\ batch' = [batch EXCEPT ![j.id] = j.res]
      /\ Set(w, Idle)
      /\ UNCHANGED <<people_vars, devices, cert_vars, lock, preview>>

\* The download, or the sweep of the store.
TakeBatch(b) ==
  /\ batch[b] # Idle
  /\ batch' = [batch EXCEPT ![b] = Idle]
  /\ UNCHANGED <<people_vars, devices, cert_vars, lock, preview, job>>

(***************************************************************************)
(* Beside the batches.                                                     *)
(***************************************************************************)
FormBegins(w, cn) ==
  /\ job[w] = Idle
  /\ ~ \E c \in certs \union orphans : c.cn = cn /\ c.batch = "form"
  /\ Acquire(w)
  /\ Set(w, [op |-> "form check", cn |-> cn])
  /\ UNCHANGED <<people_vars, devices, cert_vars, preview, batch>>

FormChecks(w) ==
  LET j == job[w]
  IN  /\ j.op = "form check" /\ Current(j.cn) = {}
      /\ Set(w, [j EXCEPT !.op = "form sign"])
      /\ UNCHANGED <<people_vars, devices, cert_vars, lock, preview, batch>>

FormSigns(w) ==
  LET j == job[w]  c == Certificate(j.cn, "form", 0)
  IN  /\ j.op = "form sign"
      /\ certs' = certs \union {c} /\ active' = active \union {c}
      /\ lock' = Free
      /\ Set(w, Idle)
      /\ UNCHANGED <<people_vars, devices, orphans, preview, batch>>

\* The name is taken, or something raises.
FormFails(w) ==
  LET j == job[w]
  IN  /\ j.op \in {"form check", "form sign"}
      /\ lock' = Free
      /\ Set(w, Idle)
      /\ orphans' \in {orphans} \union
           {orphans \union {File(c)} : c \in {d \in {Certificate(j.cn, "form", 0)} : j.op = "form sign"}}
      /\ UNCHANGED <<people_vars, devices, certs, active, preview, batch>>

\* _set_status: suspend, unsuspend and revoke, from any status and without a
\* look for others of the name.
SetStatus(c, now) ==
  /\ lock = Free /\ c.cn \in Singles
  /\ active' = now
  /\ UNCHANGED <<people_vars, devices, certs, orphans, lock, preview, batch, job>>

Deactivate(c) == SetStatus(c, active \ {c})
Reactivate(c) == SetStatus(c, active \union {c})

\* import_existing_certs, at the start of each process of the application,
\* without the lock.
Import ==
  /\ orphans # {}
  /\ certs' = certs \union orphans /\ active' = active \union orphans /\ orphans' = {}
  /\ UNCHANGED <<people_vars, devices, lock, preview, batch, job>>

\* The status, the revocations (by Deactivate) and the CRL, which take the
\* lock, and then the status again; nothing here reads the first.
Offboard(e) ==
  /\ people[e] = "active" /\ lock = Free
  /\ people' = [people EXCEPT ![e] = "offboarding"]
  /\ UNCHANGED <<linked, devices, cert_vars, lock, preview, batch, job>>

Complete(e) ==
  /\ people[e] = "offboarding"
  /\ people' = [people EXCEPT ![e] = "offboarded"]
  /\ UNCHANGED <<linked, devices, cert_vars, lock, preview, batch, job>>

Relink ==
  /\ linked' = ~linked
  /\ UNCHANGED <<people, devices, cert_vars, lock, preview, batch, job>>

\* The files of a request that is cut off between file and commit.
Unfinished(w) ==
  LET j == job[w]
  IN  CASE j.op = "sign"      -> {File(RowCert(j))}
        [] j.op = "form sign" -> {File(Certificate(j.cn, "form", 0))}
        [] j.op = "renew" /\ lock = Free -> {File(Certificate(c.cn, j.id, j.row)) : c \in j.todo}
        [] OTHER -> {}

Restart ==
  /\ job' = [w \in Workers |-> Idle]
  /\ lock' = Free
  /\ preview' = [u \in Uploads |-> IF preview[u] = "new" THEN "new" ELSE "gone"]
  /\ batch' = [b \in Gear \union Renewals |-> Idle]
  /\ orphans' \in {orphans} \union {orphans \union {c} : c \in UNION {Unfinished(w) : w \in Workers}}
  /\ UNCHANGED <<people_vars, devices, certs, active>>

Imports(w) ==
  \/ \E u \in Uploads : Confirm(w, u)
  \/ CreateEmployee(w) \/ EmployeesDone(w)
  \/ BeginBatch(w) \/ LockTimesOut(w) \/ LoadRow(w) \/ Register(w) \/ CheckName(w) \/ Sign(w) \/ Report(w) \/ RowFails(w) \/ EndBatch(w)
  \/ StoreBatch(w)

Renews(w) ==
  \/ \E r \in Renewals, some \in SUBSET certs : Select(w, r, some)
  \/ job[w].op = "renew" /\ \E c \in job[w].todo : Reissue(w, c) \/ ReissueRefused(w, c)
  \/ ReissueRaises(w) \/ RenewDone(w)

Issues(w) == (\E cn \in Singles : FormBegins(w, cn)) \/ FormChecks(w) \/ FormSigns(w) \/ FormFails(w)

Next ==
  \/ \E w \in Workers : Imports(w) \/ Renews(w) \/ Issues(w)
  \/ \E u \in Uploads : Preview(u)
  \/ \E b \in Gear \union Renewals : TakeBatch(b)
  \/ \E c \in certs : Deactivate(c) \/ Reactivate(c)
  \/ \E e \in Leavers : Offboard(e) \/ Complete(e)
  \/ Import \/ Relink \/ Restart

Spec == Init /\ [][Next]_vars

(***************************************************************************)
(* Properties.                                                             *)
(***************************************************************************)
\* A preview that is confirmed twice - a double click, a repeated request,
\* two threads - does not register a device of its file twice: the store
\* gives its rows away once.
RowsOnce == \A u \in Gear : \A i \in DOMAIN Rows[u] : devices[u][i] <= 1

\* A batch that is offered for download tells the truth, whatever failed in
\* between and whatever became of its certificates since.  A row reported as
\* done has its certificate, and the ZIP has keys of such rows only.  Of each
\* certificate that was issued for it, the key is in the ZIP - unless its row
\* is reported as failed as well, because something raised after the commit,
\* or a later row's entry has the same name.
ResultIsTrue ==
  \A b \in Gear \union Renewals : batch[b] # Idle =>
    LET r == batch[b]
        issued == {c \in certs : c.batch = b /\ ~c.imported}
    IN  /\ r.ok \subseteq {c.row : c \in issued}
        /\ r.zip \subseteq {c \in issued : c.row \in r.ok}
        /\ \A c \in issued : c.row \notin r.bad =>
             c.row \in r.ok /\ \E d \in r.zip : Entry(d) = Entry(c) /\ c.row <= d.row

\* A batch or the form never adds a certificate whose name is in use, be it
\* that another row, batch or form has issued it since, or that a suspended
\* one of the name has been taken back: they look before they sign.  Only a
\* certificate imported meanwhile may have the name; and a reissue, an
\* import and the end of a suspension do not look.
NameOnce ==
  [][ \A c \in certs' \ certs : c.batch \notin Renewals /\ ~c.imported =>
        \A d \in Current(c.cn) : d.imported ]_vars

\* confirm_devices "Registers each device, then issues a real cert against
\* it": when it is done, no device of the file is without a certificate.
EveryDeviceHasCert ==
  \A u \in Gear : batch[u] # Idle =>
    \A i \in DOMAIN Rows[u] : devices[u][i] > 0 => \E c \in certs : c.batch = u /\ c.row = i /\ ~c.imported

\* A reissue that still has rows to do goes on to do them, a row that fails
\* "does not block the rest", unless the process is restarted.
RestIsDone ==
  [][ \A w \in Workers :
        job[w].op = "renew" /\ job[w].todo # {} =>
          job'[w] # Idle \/ \A v \in Workers : job'[v] = Idle ]_vars

\* register_device: "Cannot add device to an offboarded employee".
NoneForLeavers ==
  [][ \A u \in Gear : \A i \in DOMAIN Rows[u] :
        devices'[u][i] > devices[u][i] => people[Rows[u][i][1]] # "offboarded" ]_vars

=============================================================================

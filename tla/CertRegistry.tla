---------------------------- MODULE CertRegistry ----------------------------
(***************************************************************************)
(* The certificate registry: issuance, reissue and status changes under    *)
(* the PKI lock (app/cert_service.py), the import of certificate files at  *)
(* every start of the application (app/reconcile.py, app/main.py), and     *)
(* offboarding and deletion of employees (app/employee_service.py).  The   *)
(* import and the deletion do not take the lock; a certificate's file is   *)
(* written before its row is committed.                                    *)
(*                                                                         *)
(* Simplifications:                                                        *)
(*  - A certificate file is the name in it; a row keeps its name, its      *)
(*    employee, its request, where it comes from and its status.           *)
(*  - No certificate expires, and all are client certificates.             *)
(*  - A request reads, checks and signs in one step: what it reads is      *)
(*    protected by the lock, except from imports, which add rows, and      *)
(*    deletions, which remove them.                                        *)
(*  - crl.pem is regenerated in one step: module CrlDelivery takes it      *)
(*    apart and shows that the lock makes it one.                          *)
(*  - A push of the CRL ends the same way for the registry whether it has  *)
(*    succeeded or not.                                                    *)
(***************************************************************************)
EXTENDS Integers, FiniteSets

CONSTANTS
  Requests,  (* request threads                                            *)
  Boot,      (* a process that runs create_app: a script or a restart      *)
  Nobody,    (* holder of a lock that is free                              *)
  Forms,     (* request ids of issue forms                                 *)
  Names,     (* common names                                               *)
  Employees, (* employees                                                  *)
  NoOne,     (* the employee of a certificate without one                  *)
  NoForm,    (* the form of a certificate no form asked for                *)
  NoRow,     (* a serial without a row                                     *)
  NoFile,    (* a serial without a file                                    *)
  Torn,      (* a file that is not complete                                *)
  NameOf,    (* the name a form asks for                                   *)
  OwnerOf,   (* the employee of the device it is for                       *)
  MaxCerts,  (* bound on certificates                                      *)
  MaxDeaths  (* bound on processes that die                                *)

Workers  == Requests \union {Boot}
Owners   == Employees \union {NoOne}
Serials  == 1..MaxCerts
Statuses == {"active", "suspended", "revoked"}
Origins  == {"issued", "reissued", "imported"}
Rows == [name : Names, owner : Owners, form : Forms \union {NoForm},
         origin : Origins, status : Statuses]

ASSUME FormAssumption   == NameOf \in [Forms -> Names] /\ OwnerOf \in [Forms -> Owners]
ASSUME BoundAssumption  == MaxCerts \in Nat /\ MaxDeaths \in Nat
ASSUME WorkerAssumption == Boot \notin Requests /\ Nobody \notin Workers
ASSUME MarkAssumption   ==
  /\ NoOne \notin Employees /\ NoForm \notin Forms /\ NoRow \notin Rows
  /\ NoFile \notin Names /\ Torn \notin Names /\ NoFile # Torn

VARIABLES
  rows,      (* table certificates, by serial                              *)
  issued,    (* pki/issued                                                 *)
  crl,       (* the serials crl.pem lists                                  *)
  emp,       (* status of every employee, or "deleted"                     *)
  lock,      (* holder of .pki.lock                                        *)
  job,       (* what every worker is doing                                 *)
  deaths,    (* processes that have died                                   *)
  delivered, (* history: certificates handed out, with name and owner      *)
  deleted,   (* history: serials whose row was deleted                     *)
  late       (* history: certificates that became usable again, or were
                inserted, after the offboarding of their employee began    *)

historyVars == <<delivered, deleted, late>>
vars == <<rows, issued, crl, emp, lock, job, deaths, historyVars>>

Steps == {"idle", "signed", "opened", "written", "due", "sweeping", "publishing",
          "importing"}

Jobs == [step : Steps, row : Rows \union {NoRow}, serial : Serials \union {0},
         pred : Serials \union {0}, todo : SUBSET Serials, emp : Owners]

IdleJob == [step |-> "idle", row |-> NoRow, serial |-> 0, pred |-> 0,
            todo |-> {}, emp |-> NoOne]

TypeOK ==
  /\ rows \in [Serials -> Rows \union {NoRow}]
  /\ issued \in [Serials -> Names \union {NoFile, Torn}]
  /\ crl \subseteq Serials
  /\ emp \in [Employees -> {"active", "offboarding", "offboarded", "deleted"}]
  /\ lock \in Workers \union {Nobody}
  /\ job \in [Workers -> Jobs]
  /\ deaths \in Nat
  /\ delivered \subseteq [serial : Serials, name : Names, owner : Owners]
  /\ deleted \subseteq Serials
  /\ late \subseteq Serials

Init ==
  /\ rows = [s \in Serials |-> NoRow]
  /\ issued = [s \in Serials |-> NoFile]
  /\ crl = {}
  /\ emp = [e \in Employees |-> "active"]
  /\ lock = Nobody
  /\ job = [w \in Workers |-> IdleJob]
  /\ deaths = 0
  /\ delivered = {} /\ deleted = {} /\ late = {}

Registered == {s \in Serials : rows[s] # NoRow}
Listed     == {s \in Registered : rows[s].status \in {"suspended", "revoked"}}
OwnedBy(e) == {s \in Registered : rows[s].owner = e}

Ends(w) == job' = [job EXCEPT ![w] = IdleJob]

(***************************************************************************)
(* Issuance and reissue.  The lock is held from the check to the commit.   *)
(***************************************************************************)

\* _unique_serial
NewSerial(s) ==
  /\ issued[s] = NoFile /\ rows[s] = NoRow
  /\ \A t \in 1..(s - 1) : issued[t] # NoFile \/ rows[t] # NoRow

NameTaken(n) == \E s \in Registered : rows[s].name = n /\ rows[s].status = "active"

\* Mutant: the checks are made before the lock is taken.
SignsUnlocked(w, s, row, pred) ==
  /\ job[w].step = "idle"
  /\ NewSerial(s)
  /\ lock' = w
  /\ job' = [job EXCEPT ![w] = [IdleJob EXCEPT !.step = "signed", !.row = row,
                                               !.serial = s, !.pred = pred]]
  /\ UNCHANGED <<rows, issued, crl, emp, deaths, historyVars>>

Signs(w, s, row, pred) ==
  /\ job[w].step = "idle"
  /\ lock = Nobody
  /\ NewSerial(s)
  /\ lock' = w
  /\ job' = [job EXCEPT ![w] = [IdleJob EXCEPT !.step = "signed", !.row = row,
                                               !.serial = s, !.pred = pred]]
  /\ UNCHANGED <<rows, issued, crl, emp, deaths, historyVars>>

\* issue_certificate: a form whose request id has a row gets that row again, a
\* name with an active certificate is refused.
Issue(w, f, s) ==
  /\ OwnerOf[f] \in Employees => emp[OwnerOf[f]] # "deleted"
  /\ \A t \in Registered : rows[t].form # f
  /\ ~NameTaken(NameOf[f])
  /\ Signs(w, s, [name |-> NameOf[f], owner |-> OwnerOf[f], form |-> f,
                  origin |-> "issued", status |-> "active"], 0)

\* reissue_certificate: the new certificate takes over name and owner, and the
\* old one stays as it is.
Reissue(w, old, s) ==
  /\ old \in Registered
  /\ rows[old].status # "revoked"
  /\ Signs(w, s, [rows[old] EXCEPT !.form = NoForm, !.origin = "reissued",
                                   !.status = "active"], old)

OpenFile(w) ==
  /\ job[w].step = "signed"
  /\ issued' = [issued EXCEPT ![job[w].serial] = Torn]
  /\ job' = [job EXCEPT ![w].step = "opened"]
  /\ UNCHANGED <<rows, crl, emp, lock, deaths, historyVars>>

WriteFile(w) ==
  /\ job[w].step = "opened"
  /\ issued' = [issued EXCEPT ![job[w].serial] = job[w].row.name]
  /\ job' = [job EXCEPT ![w].step = "written"]
  /\ UNCHANGED <<rows, crl, emp, lock, deaths, historyVars>>

\* The constraints of the table: a serial and a request id occur once, and
\* supersedes_id refers to a row.  A row that was deleted and imported again
\* is another row; it has no owner.
RowFits(w) ==
  LET j == job[w]
  IN  /\ rows[j.serial] = NoRow
      /\ j.row.form \in Forms => \A t \in Registered : rows[t].form # j.row.form
      /\ j.pred # 0 => j.pred \in Registered /\ rows[j.pred].owner = j.row.owner

\* Is the employee of this row on the way out, or gone?
Leaving(e) == e \in Employees /\ emp[e] # "active"

\* Mutant: a row that is there already is taken for one's own.
CommitRowIfMissing(w) ==
  /\ job[w].step = "written"
  /\ rows' = IF rows[job[w].serial] = NoRow
             THEN [rows EXCEPT ![job[w].serial] = job[w].row] ELSE rows
  /\ delivered' = delivered \union {[serial |-> job[w].serial,
                    name |-> job[w].row.name, owner |-> job[w].row.owner]}
  /\ late' = IF Leaving(job[w].row.owner) THEN late \union {job[w].serial} ELSE late
  /\ lock' = Nobody
  /\ Ends(w)
  /\ UNCHANGED <<issued, crl, emp, deaths, deleted>>

CommitRow(w) ==
  /\ job[w].step = "written"
  /\ RowFits(w)
  /\ rows' = [rows EXCEPT ![job[w].serial] = job[w].row]
  /\ delivered' = delivered \union {[serial |-> job[w].serial,
                    name |-> job[w].row.name, owner |-> job[w].row.owner]}
  /\ late' = IF Leaving(job[w].row.owner) THEN late \union {job[w].serial} ELSE late
  /\ lock' = Nobody
  /\ Ends(w)
  /\ UNCHANGED <<issued, crl, emp, deaths, deleted>>

\* IntegrityError: nothing is handed out, and the file stays.
CommitFails(w) ==
  /\ job[w].step = "written"
  /\ ~RowFits(w)
  /\ lock' = Nobody
  /\ Ends(w)
  /\ UNCHANGED <<rows, issued, crl, emp, deaths, historyVars>>

(***************************************************************************)
(* Status changes and the CRL.                                             *)
(***************************************************************************)

\* _set_status for suspend, unsuspend and revoke: any status may follow any.
SetStatus(w, s, st) ==
  /\ job[w].step \in {"idle", "due"}
  /\ lock = Nobody
  /\ s \in Registered
  /\ rows' = [rows EXCEPT ![s].status = st]
  /\ late' = IF rows[s].status = "revoked" /\ st # "revoked" /\ Leaving(rows[s].owner)
             THEN late \union {s} ELSE late
  /\ job' = [job EXCEPT ![w].step = "due"]
  /\ UNCHANGED <<issued, crl, emp, lock, deaths, delivered, deleted>>

Regenerate(w) ==
  /\ job[w].step = "due"
  /\ lock = Nobody
  /\ crl' = Listed
  /\ Ends(w)
  /\ UNCHANGED <<rows, issued, emp, lock, deaths, historyVars>>

(***************************************************************************)
(* Offboarding and deletion of an employee.                                *)
(***************************************************************************)
\* Mutant: a suspended certificate is not in use.
InUse(e) == {s \in OwnedBy(e) : rows[s].status = "active"}

Usable(e) == {s \in OwnedBy(e) : rows[s].status \in {"active", "suspended"}}

\* One transaction: the status update is flushed before the query.
OffboardStart(w, e) ==
  /\ job[w].step = "idle"
  /\ emp[e] # "deleted"
  /\ emp' = [emp EXCEPT ![e] = "offboarding"]
  /\ job' = [job EXCEPT ![w] = [IdleJob EXCEPT !.step = "sweeping",
                                               !.todo = Usable(e), !.emp = e]]
  /\ UNCHANGED <<rows, issued, crl, lock, deaths, historyVars>>

OffboardRevoke(w, s) ==
  /\ job[w].step = "sweeping"
  /\ s \in job[w].todo
  /\ lock = Nobody
  /\ s \in Registered
  /\ rows' = [rows EXCEPT ![s].status = "revoked"]
  /\ job' = [job EXCEPT ![w].todo = @ \ {s}]
  /\ UNCHANGED <<issued, crl, emp, lock, deaths, historyVars>>

OffboardPublish(w) ==
  /\ job[w].step = "sweeping"
  /\ job[w].todo = {}
  /\ emp[job[w].emp] # "deleted"
  /\ lock = Nobody
  /\ crl' = Listed
  /\ job' = [job EXCEPT ![w].step = "publishing"]
  /\ UNCHANGED <<rows, issued, emp, lock, deaths, historyVars>>

OffboardComplete(w) ==
  /\ job[w].step = "publishing"
  /\ emp[job[w].emp] # "deleted"
  /\ emp' = [emp EXCEPT ![job[w].emp] = "offboarded"]
  /\ Ends(w)
  /\ UNCHANGED <<rows, issued, crl, lock, deaths, historyVars>>

\* A row it was to revoke, or the operation itself, has been deleted.  The
\* employee stays "offboarding".
OffboardFails(w) ==
  /\ \/ job[w].step = "sweeping" /\ job[w].todo \ Registered # {}
     \/ job[w].step = "sweeping" /\ job[w].todo = {} /\ emp[job[w].emp] = "deleted"
     \/ job[w].step = "publishing" /\ emp[job[w].emp] = "deleted"
  /\ Ends(w)
  /\ UNCHANGED <<rows, issued, crl, emp, lock, deaths, historyVars>>

\* delete_employee with force, or without it when there is nothing to lose.
DeleteEmployee(e) ==
  /\ emp[e] # "deleted"
  /\ emp' = [emp EXCEPT ![e] = "deleted"]
  /\ rows' = [s \in Serials |-> IF s \in OwnedBy(e) THEN NoRow ELSE rows[s]]
  /\ deleted' = deleted \union OwnedBy(e)
  /\ UNCHANGED <<issued, crl, lock, job, deaths, delivered, late>>

(***************************************************************************)
(* The import at every start, without the lock.                            *)
(***************************************************************************)
\* Mutant: certificates are known by their name.
UnregisteredNames ==
  {s \in Serials : issued[s] \in Names /\ \A t \in Registered : rows[t].name # issued[s]}

Unregistered == {s \in Serials : issued[s] \in Names /\ rows[s] = NoRow}

\* Mutant: a torn file is imported.
ImportScanAll ==
  /\ job[Boot].step = "idle"
  /\ job' = [job EXCEPT ![Boot] = [IdleJob EXCEPT !.step = "importing",
       !.todo = {s \in Serials : issued[s] # NoFile /\ rows[s] = NoRow}]]
  /\ UNCHANGED <<rows, issued, crl, emp, lock, deaths, historyVars>>

\* A torn file ends the start with an error.
ImportScan ==
  /\ job[Boot].step = "idle"
  /\ \A s \in Serials : issued[s] # Torn
  /\ job' = [job EXCEPT ![Boot] = [IdleJob EXCEPT !.step = "importing",
                                                  !.todo = Unregistered]]
  /\ UNCHANGED <<rows, issued, crl, emp, lock, deaths, historyVars>>

ImportedRow(s) ==
  [name |-> issued[s], owner |-> NoOne, form |-> NoForm, origin |-> "imported",
   status |-> "active"]

\* Only the script that refreshes the CRL goes on to do so.
ImportCommit ==
  /\ job[Boot].step = "importing"
  /\ job[Boot].todo \intersect Registered = {}
  /\ rows' = [s \in Serials |-> IF s \in job[Boot].todo THEN ImportedRow(s) ELSE rows[s]]
  /\ \/ Ends(Boot)
     \/ job' = [job EXCEPT ![Boot] = [IdleJob EXCEPT !.step = "due"]]
  /\ UNCHANGED <<issued, crl, emp, lock, deaths, historyVars>>

\* IntegrityError: an issuance has committed one of the serials meanwhile.
ImportFails ==
  /\ job[Boot].step = "importing"
  /\ job[Boot].todo \intersect Registered # {}
  /\ Ends(Boot)
  /\ UNCHANGED <<rows, issued, crl, emp, lock, deaths, historyVars>>

\* The process of a worker dies and its lock is released, or its request fails.
Die(w) ==
  /\ job[w].step # "idle"
  /\ deaths < MaxDeaths /\ deaths' = deaths + 1
  /\ lock' = IF lock = w THEN Nobody ELSE lock
  /\ Ends(w)
  /\ UNCHANGED <<rows, issued, crl, emp, historyVars>>

(***************************************************************************)
(* The specification.                                                      *)
(***************************************************************************)
Begin(w) ==
  \/ \E f \in Forms, s \in Serials : Issue(w, f, s)
  \/ \E old, s \in Serials : Reissue(w, old, s)
  \/ \E s \in Serials, st \in Statuses : SetStatus(w, s, st)
  \/ \E e \in Employees : OffboardStart(w, e)

IssueSteps(w) == OpenFile(w) \/ WriteFile(w) \/ CommitRow(w) \/ CommitFails(w)

OffboardSteps(w) ==
  \/ \E s \in Serials : OffboardRevoke(w, s)
  \/ OffboardPublish(w) \/ OffboardComplete(w) \/ OffboardFails(w)

Import == ImportScan \/ ImportCommit \/ ImportFails

Next ==
  \/ \E w \in Requests : Begin(w) \/ IssueSteps(w) \/ OffboardSteps(w)
  \/ \E w \in Workers : Regenerate(w) \/ Die(w)
  \/ \E e \in Employees : DeleteEmployee(e)
  \/ Import

Spec == Init /\ [][Next]_vars

\* The lock's holder gets on; fleet_watch.timer starts a process every 15
\* minutes, which ends.
Fairness ==
  /\ \A w \in Requests : WF_vars(IssueSteps(w))
  /\ WF_vars(Import \/ Regenerate(Boot))

FairSpec == Spec /\ Fairness

(***************************************************************************)
(* Safety.                                                                 *)
(***************************************************************************)

\* Whoever was given a certificate is on record with it: its row has the name
\* and the employee it was issued for, also when an import found the file
\* between the writing of the file and the commit of the row.
OwnerKnown ==
  \A d \in delivered :
    \/ d.serial \in deleted
    \/ /\ d.serial \in Registered
       /\ rows[d.serial].name = d.name
       /\ rows[d.serial].owner = d.owner

\* Offboarding leaves nothing behind: once an employee is offboarded, each of
\* their certificates is revoked, except those that were issued or taken off
\* revocation after it began, whatever requests, deletions, imports and second
\* offboardings ran meanwhile.
SweptOnOffboarding ==
  \A e \in Employees : emp[e] = "offboarded" =>
    \A s \in OwnedBy(e) : rows[s].status # "revoked" => s \in late

\* An issue form never adds a second active certificate under a name, however
\* forms, reissues, status changes and offboardings overlap.  An import may
\* have added one after the check: it does not take the lock.
NoSecondActive ==
  [][\A s \in Serials :
       rows[s] = NoRow /\ rows'[s] # NoRow /\ rows'[s].origin = "issued" =>
         \A t \in Registered :
           rows[t].name = rows'[s].name /\ rows[t].status = "active" =>
             rows[t].origin = "imported"]_vars

(***************************************************************************)
(* Liveness.                                                               *)
(***************************************************************************)

\* No certificate stays unknown to the registry: a complete file gets a row,
\* through the issuance or, when that failed or died, through a later start.
\* A torn file stops every start, and with it the imports.
EventuallyRecorded ==
  \A s \in Serials :
    issued[s] \in Names ~> rows[s] # NoRow \/ \E t \in Serials : issued[t] = Torn

(***************************************************************************)
(* What docs say, and the code does not do.                                *)
(***************************************************************************)

\* app/retention.py: certificates are never deleted, because a revoked serial
\* must stay queryable for the CRL.  A serial leaves the CRL only while it
\* has a row.
RevokedStaysListed == [][\A s \in crl \ crl' : s \in Registered]_vars

\* app/templates/cert_detail.html: revoking is permanent.
RevokedForGood ==
  [][\A s \in Registered : rows[s].status = "revoked" /\ rows'[s] # NoRow =>
       rows'[s].status = "revoked"]_vars

=============================================================================

--------------------------- MODULE TenantRegistry ---------------------------
(***************************************************************************)
(* The tables of the tenants: subsidiaries, departments, network roles,    *)
(* which department may use which role, role grants of ordinary admins,    *)
(* employees and their devices (app/network_policy.py,                     *)
(* app/employee_service.py, app/device_service.py), and the certificates   *)
(* that name them.  SQLite enforces the foreign keys (app/db.py), and the  *)
(* certificates have none.                                                 *)
(*                                                                         *)
(* A request checks outside of a transaction and writes at its end.  Where *)
(* the check is more than what the constraints of the tables repeat at the *)
(* commit, the two are steps of their own, with other requests in between: *)
(* deletions, devices, issuance.  A write may fail at any time             *)
(* ("database is locked", a constraint); it then changes nothing.          *)
(*                                                                         *)
(* Simplifications:                                                        *)
(*  - A row keeps its subsidiary for life (no operation moves one), so it  *)
(*    is a constant of the row.  Names, descriptions and the privileged    *)
(*    flag decide nothing here, and renaming is left out.                  *)
(*  - Nothing sets is_active of a subsidiary or a department to false.     *)
(*  - Sites, bindings and allowlists, which also block deletions, are in   *)
(*    module SiteAccess; offboarding's revocations in CertRegistry.        *)
(*  - Certificates are those issued for a device; MaxCerts bounds them.    *)
(*    A device's status and certificate status stop nothing here.          *)
(*  - The program draws a fresh id for every row; here the id of a row     *)
(*    that is gone may come back, in the same subsidiary, which only adds  *)
(*    behaviours.                                                          *)
(***************************************************************************)
EXTENDS Integers, FiniteSets

CONSTANTS
  Workers,   (* requests in progress                                       *)
  Roots,     (* platform superadmins                                       *)
  Tenants,   (* superadmins of one subsidiary                              *)
  Clerks,    (* ordinary admins of one subsidiary                          *)
  ScopeOf,   (* the subsidiary of a tenant superadmin or an ordinary admin *)
  Subs, Depts, Roles, Emps, Devs,
  SubOf,     (* the subsidiary of a department, role, employee or device   *)
  None,      (* no row                                                     *)
  MaxCerts

ASSUME AdminAssumption == ScopeOf \in [Tenants \union Clerks -> Subs]
ASSUME RowAssumption   == SubOf \in [Depts \union Roles \union Emps \union Devs -> Subs]
ASSUME CertAssumption  == MaxCerts \in Nat

VARIABLES
  subs,    (* rows of subsidiaries                                         *)
  depts,   (* rows of departments                                          *)
  roles,   (* rows of network_roles: the tenant-wide switch                *)
  pairs,   (* rows of department_roles                                     *)
  grants,  (* rows of admin_role_grants                                    *)
  emps,    (* rows of employees                                            *)
  devs,    (* rows of devices                                              *)
  certs,   (* what certificates say of their owner                         *)
  job      (* requests that have checked and not yet written               *)

tables == <<subs, depts, roles, pairs, grants, emps, devs, certs>>
vars   == <<tables, job>>

Admins      == Roots \union Tenants \union Clerks
Employments == [dept : Depts, leaving : BOOLEAN]
Devices     == [emp : Emps, dept : Depts, role : Roles]
Identities  == [dev : Devs, emp : Emps, dept : Depts, role : Roles]

Idle == [op |-> "none"]
Jobs == {Idle}
  \union [op : {"delete subsidiary"}, sub : Subs]
  \union [op : {"delete department"}, dept : Depts]
  \union [op : {"delete role"}, role : Roles]
  \union [op : {"delete employee"}, emp : Emps, force : BOOLEAN, devices : SUBSET Devs,
          certs : SUBSET Identities]
  \union [op : {"register"}, dev : Devs, want : Devices]
  \union [op : {"update"}, dev : Devs, read : Devices, want : Devices]
  \union [op : {"issue"}, says : Identities]

ASSUME NoneAssumption == None \notin Employments \union Devices

TypeOK ==
  /\ subs \subseteq Subs
  /\ depts \subseteq Depts
  /\ roles \in [Roles -> {"none", "on", "off"}]
  /\ pairs \subseteq Depts \X Roles
  /\ grants \subseteq Clerks \X Roles
  /\ emps \in [Emps -> Employments \union {None}]
  /\ devs \in [Devs -> Devices \union {None}]
  /\ certs \subseteq Identities
  /\ job \in [Workers -> Jobs]

Init ==
  /\ subs = {} /\ depts = {} /\ pairs = {} /\ grants = {} /\ certs = {}
  /\ roles = [r \in Roles |-> "none"]
  /\ emps = [e \in Emps |-> None]
  /\ devs = [v \in Devs |-> None]
  /\ job = [w \in Workers |-> Idle]

Exists(r) == roles[r] # "none"

\* assert_can_manage_subsidiary
CanManage(a, s) == a \in Roots \/ (a \in Tenants /\ ScopeOf[a] = s)

\* is_admin_in_scope
InScope(a, s) == a \in Roots \/ (a \notin Roots /\ ScopeOf[a] = s)

Begins(w, j) == job[w] = Idle /\ job' = [job EXCEPT ![w] = j] /\ UNCHANGED tables
Ends(w)      == job' = [job EXCEPT ![w] = Idle]

(***************************************************************************)
(* Subsidiaries, departments and roles.                                    *)
(***************************************************************************)
CreateSubsidiary(a, s) ==
  /\ a \in Roots /\ s \notin subs
  /\ subs' = subs \union {s}
  /\ UNCHANGED <<depts, roles, pairs, grants, emps, devs, certs, job>>

CreateDepartment(a, d) ==
  /\ CanManage(a, SubOf[d]) /\ SubOf[d] \in subs /\ d \notin depts
  /\ depts' = depts \union {d}
  /\ UNCHANGED <<subs, roles, pairs, grants, emps, devs, certs, job>>

CreateNetworkRole(a, r) ==
  /\ CanManage(a, SubOf[r]) /\ SubOf[r] \in subs /\ ~Exists(r)
  /\ roles' = [roles EXCEPT ![r] = "on"]
  /\ UNCHANGED <<subs, depts, pairs, grants, emps, devs, certs, job>>

SetTenantState(a, r, state) ==
  /\ CanManage(a, SubOf[r]) /\ Exists(r)
  /\ roles' = [roles EXCEPT ![r] = state]
  /\ UNCHANGED <<subs, depts, pairs, grants, emps, devs, certs, job>>

\* Mutant: a department is linked to a role of another subsidiary.
LinkAcross(a, d, r) ==
  /\ d \in depts /\ Exists(r) /\ CanManage(a, SubOf[d])
  /\ pairs' = pairs \union {<<d, r>>}
  /\ UNCHANGED <<subs, depts, roles, grants, emps, devs, certs, job>>

LinkDepartmentRole(a, d, r) ==
  /\ d \in depts /\ Exists(r) /\ SubOf[d] = SubOf[r] /\ CanManage(a, SubOf[d])
  /\ pairs' = pairs \union {<<d, r>>}
  /\ UNCHANGED <<subs, depts, roles, grants, emps, devs, certs, job>>

UnlinkDepartmentRole(a, d, r) ==
  /\ <<d, r>> \in pairs /\ CanManage(a, SubOf[d])
  /\ pairs' = pairs \ {<<d, r>>}
  /\ UNCHANGED <<subs, depts, roles, grants, emps, devs, certs, job>>

\* A scoped admin is granted roles of their own subsidiary.
GrantRole(a, c, r) ==
  /\ Exists(r) /\ CanManage(a, SubOf[r]) /\ ScopeOf[c] = SubOf[r]
  /\ grants' = grants \union {<<c, r>>}
  /\ UNCHANGED <<subs, depts, roles, pairs, emps, devs, certs, job>>

RevokeGrant(a, c, r) ==
  /\ Exists(r) /\ CanManage(a, SubOf[r])
  /\ grants' = grants \ {<<c, r>>}
  /\ UNCHANGED <<subs, depts, roles, pairs, emps, devs, certs, job>>

(***************************************************************************)
(* Deletions: first everything that refers to the row is looked for.       *)
(***************************************************************************)
OfSub(s) ==
  [depts |-> {d \in depts : SubOf[d] = s}, roles |-> {r \in Roles : Exists(r) /\ SubOf[r] = s}]

DeleteSubsidiary(w, a, s) ==
  /\ a \in Roots /\ s \in subs
  /\ OfSub(s).depts = {} /\ OfSub(s).roles = {}
  /\ \A c \in certs : SubOf[c.role] # s
  /\ \A v \in Devs : devs[v] # None => SubOf[devs[v].role] # s
  /\ Begins(w, [op |-> "delete subsidiary", sub |-> s])

DeleteDepartment(w, a, d) ==
  /\ d \in depts /\ CanManage(a, SubOf[d])
  /\ \A c \in certs : c.dept # d
  /\ \A v \in Devs : devs[v] # None => devs[v].dept # d
  /\ Begins(w, [op |-> "delete department", dept |-> d])

DeleteNetworkRole(w, a, r) ==
  /\ Exists(r) /\ CanManage(a, SubOf[r])
  /\ \A c \in certs : c.role # r
  /\ \A v \in Devs : devs[v] # None => devs[v].role # r
  /\ Begins(w, [op |-> "delete role", role |-> r])

\* Mutant: foreign keys are not enforced.
UnreferencedNever(ds, rs) == TRUE

\* The foreign keys let these departments and roles go.
Unreferenced(ds, rs) ==
  /\ \A e \in Emps : emps[e] # None => emps[e].dept \notin ds
  /\ \A v \in Devs : devs[v] # None => devs[v].dept \notin ds /\ devs[v].role \notin rs
  /\ \A g \in grants : g[2] \notin rs

\* The departments and roles of the subsidiary go with it.
SubsidiaryGoes(w) ==
  LET s  == job[w].sub
      of == OfSub(s)
  IN  /\ job[w].op = "delete subsidiary"
      /\ Unreferenced(of.depts, of.roles)
      /\ \A p \in pairs : p[1] \notin of.depts /\ p[2] \notin of.roles
      /\ \A e \in Emps : emps[e] # None => SubOf[e] # s
      /\ subs' = subs \ {s}
      /\ depts' = depts \ of.depts
      /\ roles' = [r \in Roles |-> IF r \in of.roles THEN "none" ELSE roles[r]]
      /\ Ends(w) /\ UNCHANGED <<pairs, grants, emps, devs, certs>>

\* The links of a department, and of a role, go with it.
DepartmentGoes(w) ==
  LET d == job[w].dept
  IN  /\ job[w].op = "delete department"
      /\ Unreferenced({d}, {})
      /\ depts' = depts \ {d}
      /\ pairs' = {p \in pairs : p[1] # d}
      /\ Ends(w) /\ UNCHANGED <<subs, roles, grants, emps, devs, certs>>

RoleGoes(w) ==
  LET r == job[w].role
  IN  /\ job[w].op = "delete role"
      /\ Unreferenced({}, {r})
      /\ roles' = [roles EXCEPT ![r] = "none"]
      /\ pairs' = {p \in pairs : p[2] # r}
      /\ Ends(w) /\ UNCHANGED <<subs, depts, grants, emps, devs, certs>>

(***************************************************************************)
(* Employees.                                                              *)
(***************************************************************************)
\* Mutant: an employee without a department (NULL passes a foreign key).
CreateEmployeeBare(a, e, d) ==
  /\ CanManage(a, SubOf[e]) /\ SubOf[e] \in subs /\ emps[e] = None
  /\ emps' = [emps EXCEPT ![e] = [dept |-> None, leaving |-> FALSE]]
  /\ UNCHANGED <<subs, depts, roles, pairs, grants, devs, certs, job>>

CreateEmployee(a, e, d) ==
  /\ CanManage(a, SubOf[e]) /\ d \in depts /\ SubOf[d] = SubOf[e] /\ emps[e] = None
  /\ emps' = [emps EXCEPT ![e] = [dept |-> d, leaving |-> FALSE]]
  /\ UNCHANGED <<subs, depts, roles, pairs, grants, devs, certs, job>>

UpdateEmployee(a, e, d) ==
  /\ emps[e] # None /\ CanManage(a, SubOf[e]) /\ d \in depts /\ SubOf[d] = SubOf[e]
  /\ emps' = [emps EXCEPT ![e].dept = d]
  /\ UNCHANGED <<subs, depts, roles, pairs, grants, devs, certs, job>>

\* What offboarding does to the employee's row.
OffboardEmployee(a, e) ==
  /\ emps[e] # None /\ CanManage(a, SubOf[e])
  /\ emps' = [emps EXCEPT ![e].leaving = TRUE]
  /\ UNCHANGED <<subs, depts, roles, pairs, grants, devs, certs, job>>

CertsOf(e)   == {c \in certs : c.emp = e}
DevicesOf(e) == {v \in Devs : devs[v] # None /\ devs[v].emp = e}

DeleteEmployee(w, a, e, force) ==
  /\ a \in Roots /\ emps[e] # None
  /\ force \/ (CertsOf(e) = {} /\ DevicesOf(e) = {})
  /\ Begins(w, [op |-> "delete employee", emp |-> e, force |-> force,
                devices |-> DevicesOf(e), certs |-> CertsOf(e)])

\* The certificates it has seen; all of the employee's devices, by the cascade.
EmployeeGoes(w) ==
  LET e == job[w].emp
  IN  /\ job[w].op = "delete employee"
      /\ emps' = [emps EXCEPT ![e] = None]
      /\ devs' = [v \in Devs |-> IF v \in DevicesOf(e) THEN None ELSE devs[v]]
      /\ certs' = certs \ job[w].certs
      /\ Ends(w) /\ UNCHANGED <<subs, depts, roles, pairs, grants>>

(***************************************************************************)
(* Devices.                                                                *)
(***************************************************************************)
MayAssign(a, s, r) == IF a \in Clerks THEN <<a, r>> \in grants ELSE CanManage(a, s)

ValidPair(s, d, r) ==
  /\ d \in depts /\ SubOf[d] = s
  /\ roles[r] = "on" /\ SubOf[r] = s
  /\ <<d, r>> \in pairs

RegisterDevice(w, a, v, want) ==
  /\ devs[v] = None /\ SubOf[v] = SubOf[want.emp]
  /\ emps[want.emp] # None /\ ~emps[want.emp].leaving
  /\ InScope(a, SubOf[want.emp])
  /\ MayAssign(a, SubOf[want.emp], want.role)
  /\ ValidPair(SubOf[want.emp], want.dept, want.role)
  /\ Begins(w, [op |-> "register", dev |-> v, want |-> want])

DeviceComes(w) ==
  LET v == job[w].dev  want == job[w].want
  IN  /\ job[w].op = "register" /\ devs[v] = None
      /\ emps[want.emp] # None /\ want.dept \in depts /\ Exists(want.role)
      /\ devs' = [devs EXCEPT ![v] = want]
      /\ Ends(w) /\ UNCHANGED <<subs, depts, roles, pairs, grants, emps, certs>>

UpdateDevice(w, a, v, d, r) ==
  /\ devs[v] # None
  /\ LET s == SubOf[v]
     IN  InScope(a, s) /\ MayAssign(a, s, r) /\ ValidPair(s, d, r)
  /\ Begins(w, [op |-> "update", dev |-> v, read |-> devs[v],
                want |-> [devs[v] EXCEPT !.dept = d, !.role = r]])

\* A column that differs from what was read is written.
Column(stored, read, want) == IF want = read THEN stored ELSE want

DeviceChanges(w) ==
  LET v    == job[w].dev
      read == job[w].read
      want == job[w].want
      dept == Column(devs[v].dept, read.dept, want.dept)
      role == Column(devs[v].role, read.role, want.role)
  IN  /\ job[w].op = "update" /\ devs[v] # None
      /\ dept \in depts /\ Exists(role)
      /\ devs' = [devs EXCEPT ![v].dept = dept, ![v].role = role]
      /\ Ends(w) /\ UNCHANGED <<subs, depts, roles, pairs, grants, emps, certs>>

(***************************************************************************)
(* Issuance for a device.                                                  *)
(***************************************************************************)
IssueForDevice(w, a, v) ==
  /\ devs[v] # None /\ CanManage(a, SubOf[v])
  /\ Begins(w, [op |-> "issue", says |-> [dev |-> v, emp |-> devs[v].emp,
                                          dept |-> devs[v].dept, role |-> devs[v].role]])

Issued(w) ==
  /\ job[w].op = "issue" /\ Cardinality(certs) < MaxCerts
  /\ certs' = certs \union {job[w].says}
  /\ Ends(w) /\ UNCHANGED <<subs, depts, roles, pairs, grants, emps, devs>>

WriteFails(w) == job[w] # Idle /\ Ends(w) /\ UNCHANGED tables

(***************************************************************************)
(* The specification.                                                      *)
(***************************************************************************)
TenantForms(w, a) ==
  a \in Roots /\
    \/ \E s \in Subs : CreateSubsidiary(a, s) \/ DeleteSubsidiary(w, a, s)
    \/ \E d \in Depts : CreateDepartment(a, d) \/ DeleteDepartment(w, a, d)
    \/ \E r \in Roles : CreateNetworkRole(a, r) \/ DeleteNetworkRole(w, a, r)
    \/ \E d \in Depts, r \in Roles : LinkDepartmentRole(a, d, r) \/ UnlinkDepartmentRole(a, d, r)

NetworkApi(a) ==
  \/ \E d \in Depts : CreateDepartment(a, d)
  \/ \E r \in Roles : CreateNetworkRole(a, r)
  \/ \E d \in Depts, r \in Roles : LinkDepartmentRole(a, d, r)
  \/ \E c \in Clerks, r \in Roles : GrantRole(a, c, r) \/ RevokeGrant(a, c, r)
  \/ \E r \in Roles, state \in {"on", "off"} : SetTenantState(a, r, state)

EmployeeRequest(w, a) ==
  \E e \in Emps :
    \/ \E d \in Depts : CreateEmployee(a, e, d) \/ UpdateEmployee(a, e, d)
    \/ OffboardEmployee(a, e)
    \/ \E force \in BOOLEAN : DeleteEmployee(w, a, e, force)

DeviceRequest(w, a) ==
  \E v \in Devs :
    \/ \E want \in Devices : RegisterDevice(w, a, v, want)
    \/ \E d \in Depts, r \in Roles : UpdateDevice(w, a, v, d, r)
    \/ IssueForDevice(w, a, v)

Write(w) ==
  \/ SubsidiaryGoes(w) \/ DepartmentGoes(w) \/ RoleGoes(w) \/ EmployeeGoes(w)
  \/ DeviceComes(w) \/ DeviceChanges(w) \/ Issued(w) \/ WriteFails(w)

Next ==
  \E w \in Workers :
    \/ Write(w)
    \/ \E a \in Admins : TenantForms(w, a) \/ NetworkApi(a) \/ EmployeeRequest(w, a) \/ DeviceRequest(w, a)

Spec == Init /\ [][Next]_vars

(***************************************************************************)
(* Properties.                                                             *)
(***************************************************************************)

\* Every row names rows that exist, whatever was deleted between the check
\* of a request and its write: departments and roles their subsidiary; links,
\* grants, employees and devices what they refer to.  The checks of the
\* services alone do not give this; the constraints at the commit do.
RowsExist ==
  /\ \A d \in depts : SubOf[d] \in subs
  /\ \A r \in Roles : Exists(r) => SubOf[r] \in subs
  /\ \A p \in pairs : p[1] \in depts /\ Exists(p[2])
  /\ \A g \in grants : Exists(g[2])

PeopleExist ==
  /\ \A e \in Emps : emps[e] # None => emps[e].dept \in depts
  /\ \A v \in Devs : devs[v] # None =>
        emps[devs[v].emp] # None /\ devs[v].dept \in depts /\ Exists(devs[v].role)

ReferencesHold == RowsExist /\ PeopleExist

\* A link, a grant, an employee, a device and a certificate stay within one
\* subsidiary: requests check each reference against the tables as they were
\* when the request began, and a device is written column by column.
TenantsApart ==
  /\ \A p \in pairs : SubOf[p[1]] = SubOf[p[2]]
  /\ \A g \in grants : ScopeOf[g[1]] = SubOf[g[2]]
  /\ \A e \in Emps : emps[e] # None => SubOf[emps[e].dept] = SubOf[e]
  /\ \A v \in Devs : devs[v] # None =>
        SubOf[devs[v].dept] = SubOf[devs[v].emp] /\ SubOf[devs[v].role] = SubOf[devs[v].emp]
  /\ \A c \in certs : SubOf[c.dept] = SubOf[c.emp] /\ SubOf[c.role] = SubOf[c.emp]

\* Violated: delete_subsidiary (app/network_policy.py:203-208) "can never
\* silently orphan real data".
NoOrphans == \A c \in certs : SubOf[c.role] \in subs

\* Violated: update_device (app/device_service.py:270) "Check grant on
\* existing and new role if changed".
BothRolesGranted ==
  [][\A w \in Workers, a \in Clerks, v \in Devs, d \in Depts, r \in Roles :
       UpdateDevice(w, a, v, d, r) => <<a, devs[v].role>> \in grants]_vars

\* Violated: delete_employee (app/employee_service.py:411) "Without force:
\* refuses if the employee has any certificate or device history".
HistoryKept ==
  [][\A w \in Workers :
       job[w].op = "delete employee" /\ ~job[w].force /\ EmployeeGoes(w) => DevicesOf(job[w].emp) = {}]_vars

=============================================================================

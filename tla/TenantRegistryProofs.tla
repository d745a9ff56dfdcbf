------------------------ MODULE TenantRegistryProofs ------------------------
(***************************************************************************)
(* Proofs about TenantRegistry, for every value of its constants: rows     *)
(* name rows that exist, and what refers to each other stays in one        *)
(* subsidiary.                                                             *)
(***************************************************************************)
EXTENDS TenantRegistry, TLAPS

(***************************************************************************)
(* The inductive invariant.                                                *)
(***************************************************************************)
\* The columns of a device, or of a certificate, name rows of one subsidiary.
Within(s, x) == SubOf[x.emp] = s /\ SubOf[x.dept] = s /\ SubOf[x.role] = s

\* A device's own column says the subsidiary of its owner.
OwnSubsidiary == \A v \in Devs : devs[v] # None => Within(SubOf[v], devs[v])

\* What a request has checked is about rows, whose subsidiary no other
\* request changes: it is still true when it writes.
Apart(j) ==
  /\ j.op = "register" => Within(SubOf[j.dev], j.want)
  /\ j.op = "update" => SubOf[j.want.dept] = SubOf[j.dev] /\ SubOf[j.want.role] = SubOf[j.dev]
  /\ j.op = "issue" => Within(SubOf[j.says.emp], j.says)

RequestsApart == \A w \in Workers : Apart(job[w])

TenantInv == TypeOK /\ ReferencesHold /\ TenantsApart /\ OwnSubsidiary /\ RequestsApart

(***************************************************************************)
(* Facts about the definitions.                                            *)
(***************************************************************************)
Registers == [op : {"register"}, dev : Devs, want : Devices]
Updates   == [op : {"update"}, dev : Devs, read : Devices, want : Devices]
Issues    == [op : {"issue"}, says : Identities]
Removals  == [op : {"delete subsidiary"}, sub : Subs] \union [op : {"delete department"}, dept : Depts]
             \union [op : {"delete role"}, role : Roles]
Leavers   == [op : {"delete employee"}, emp : Emps, force : BOOLEAN, devices : SUBSET Devs,
              certs : SUBSET Identities]

\* The shape of a request by its operation.
LEMMA JobShapes ==
  ASSUME NEW j \in Jobs
  PROVE  /\ j.op = "register" => j \in Registers
         /\ j.op = "update" => j \in Updates
         /\ j.op = "issue" => j \in Issues
         /\ j.op = "delete subsidiary" => j.sub \in Subs
         /\ j.op = "delete department" => j.dept \in Depts
         /\ j.op = "delete role" => j.role \in Roles
         /\ j.op = "delete employee" => j.emp \in Emps
<1>1. CASE j = Idle
  BY <1>1 DEF Idle
<1>2. CASE j \in Registers
  BY <1>2 DEF Registers
<1>3. CASE j \in Updates
  BY <1>3 DEF Updates
<1>4. CASE j \in Issues
  BY <1>4 DEF Issues
<1>5. CASE j \in Removals
  BY <1>5 DEF Removals
<1>6. CASE j \in Leavers
  BY <1>6 DEF Leavers
<1> QED
  BY <1>1, <1>2, <1>3, <1>4, <1>5, <1>6 DEF Jobs, Registers, Updates, Issues, Removals, Leavers

LEMMA DeviceShapes ==
  ASSUME TypeOK, NEW v \in Devs, devs[v] # None
  PROVE  devs[v] \in Devices /\ devs[v].emp \in Emps /\ devs[v].dept \in Depts /\ devs[v].role \in Roles
BY DEF TypeOK, Devices

\* A request that has written, or failed, is over.
LEMMA EndsJobs ==
  ASSUME TypeOK, RequestsApart, NEW w \in Workers, Ends(w)
  PROVE  job' \in [Workers -> Jobs] /\ RequestsApart'
<1>1. Idle \in Jobs /\ Apart(Idle)
  BY DEF Jobs, Idle, Apart
<1> QED
  BY <1>1 DEF TypeOK, Ends, RequestsApart

THEOREM InitTenant == Init => TenantInv
<1> SUFFICES ASSUME Init
             PROVE  TenantInv
  OBVIOUS
<1>1. Idle \in Jobs /\ Apart(Idle)
  BY DEF Jobs, Idle, Apart
<1>2. TypeOK
  BY <1>1 DEF Init, TypeOK
<1> QED
  BY <1>1, <1>2
     DEF Init, TenantInv, ReferencesHold, RowsExist, PeopleExist, TenantsApart, OwnSubsidiary,
         RequestsApart, Exists

(***************************************************************************)
(* Requests begin.                                                         *)
(***************************************************************************)
LEMMA BeginsInv ==
  ASSUME TenantInv, NEW w \in Workers, NEW j \in Jobs, Apart(j), Begins(w, j)
  PROVE  TenantInv'
<1>1. TypeOK' /\ RequestsApart'
  BY DEF TenantInv, TypeOK, RequestsApart, Begins, tables
<1>2. UNCHANGED tables
  BY DEF Begins
<1> QED
  BY <1>1, <1>2
     DEF TenantInv, tables, ReferencesHold, RowsExist, PeopleExist, TenantsApart, OwnSubsidiary, Exists

LEMMA DeletionBeginsInv ==
  ASSUME TenantInv, NEW w \in Workers, NEW a \in Admins,
         \/ \E s \in Subs : DeleteSubsidiary(w, a, s)
         \/ \E d \in Depts : DeleteDepartment(w, a, d)
         \/ \E r \in Roles : DeleteNetworkRole(w, a, r)
  PROVE  TenantInv'
<1>1. ASSUME NEW s \in Subs, DeleteSubsidiary(w, a, s)
      PROVE  TenantInv'
  <2> DEFINE j == [op |-> "delete subsidiary", sub |-> s]
  <2>1. j \in Jobs /\ Apart(j) /\ Begins(w, j)
    BY <1>1 DEF Jobs, Apart, DeleteSubsidiary
  <2> HIDE DEF j
  <2> QED
    BY <2>1, BeginsInv
<1>2. ASSUME NEW d \in Depts, DeleteDepartment(w, a, d)
      PROVE  TenantInv'
  <2> DEFINE j == [op |-> "delete department", dept |-> d]
  <2>1. j \in Jobs /\ Apart(j) /\ Begins(w, j)
    BY <1>2 DEF Jobs, Apart, DeleteDepartment
  <2> HIDE DEF j
  <2> QED
    BY <2>1, BeginsInv
<1>3. ASSUME NEW r \in Roles, DeleteNetworkRole(w, a, r)
      PROVE  TenantInv'
  <2> DEFINE j == [op |-> "delete role", role |-> r]
  <2>1. j \in Jobs /\ Apart(j) /\ Begins(w, j)
    BY <1>3 DEF Jobs, Apart, DeleteNetworkRole
  <2> HIDE DEF j
  <2> QED
    BY <2>1, BeginsInv
<1> QED
  BY <1>1, <1>2, <1>3

LEMMA LeaverBeginsInv ==
  ASSUME TenantInv, NEW w \in Workers, NEW a \in Admins, NEW e \in Emps, NEW force \in BOOLEAN,
         DeleteEmployee(w, a, e, force)
  PROVE  TenantInv'
<1> DEFINE j == [op |-> "delete employee", emp |-> e, force |-> force,
                 devices |-> DevicesOf(e), certs |-> CertsOf(e)]
<1>1. DevicesOf(e) \in SUBSET Devs /\ CertsOf(e) \in SUBSET Identities
  BY DEF TenantInv, TypeOK, DevicesOf, CertsOf
<1>2. j \in Leavers
  BY <1>1 DEF Leavers
<1>3. j \in Jobs
  BY <1>2 DEF Jobs, Leavers
<1>4. Apart(j)
  BY DEF Apart
<1>5. Begins(w, j)
  BY DEF DeleteEmployee
<1> HIDE DEF j
<1> QED
  BY <1>3, <1>4, <1>5, BeginsInv

LEMMA DeviceRequestInv ==
  ASSUME TenantInv, NEW w \in Workers, NEW a \in Admins, DeviceRequest(w, a)
  PROVE  TenantInv'
<1>1. PICK v \in Devs : \/ \E want \in Devices : RegisterDevice(w, a, v, want)
                        \/ \E d \in Depts, r \in Roles : UpdateDevice(w, a, v, d, r)
                        \/ IssueForDevice(w, a, v)
  BY DEF DeviceRequest
<1>2. ASSUME NEW want \in Devices, RegisterDevice(w, a, v, want)
      PROVE  TenantInv'
  <2> DEFINE j == [op |-> "register", dev |-> v, want |-> want]
  <2>1. j \in Registers
    BY DEF Registers
  <2>2. j \in Jobs
    BY <2>1 DEF Registers, Jobs
  <2>3. Apart(j) /\ Begins(w, j)
    BY <1>2 DEF RegisterDevice, ValidPair, Apart, Within
  <2> HIDE DEF j
  <2> QED
    BY <2>2, <2>3, BeginsInv
<1>3. ASSUME NEW d \in Depts, NEW r \in Roles, UpdateDevice(w, a, v, d, r)
      PROVE  TenantInv'
  <2> DEFINE g == [devs[v] EXCEPT !.dept = d]
             f == [g EXCEPT !.role = r]
             want == [devs[v] EXCEPT !.dept = d, !.role = r]
             j == [op |-> "update", dev |-> v, read |-> devs[v], want |-> want]
  <2>1. devs[v] \in Devices
    BY <1>3, DeviceShapes DEF UpdateDevice, TenantInv
  <2>2. g \in Devices /\ g.dept = d
    BY <2>1 DEF Devices
  <2>3. f \in Devices /\ f.dept = d /\ f.role = r
    <3> HIDE DEF g
    <3> QED
      BY <2>2 DEF Devices
  <2>4. want = f
    BY Zenon
  <2> HIDE DEF f, want
  <2>5. j \in Updates
    BY <2>1, <2>3, <2>4 DEF Updates
  <2>6. j \in Jobs
    BY <2>5 DEF Updates, Jobs
  <2>7. Begins(w, j)
    BY <1>3 DEF UpdateDevice, want
  <2>8. Apart(j)
    BY <1>3, <2>3, <2>4 DEF UpdateDevice, ValidPair, Apart
  <2> HIDE DEF j
  <2> QED
    BY <2>6, <2>7, <2>8, BeginsInv
<1>4. CASE IssueForDevice(w, a, v)
  <2> DEFINE says == [dev |-> v, emp |-> devs[v].emp, dept |-> devs[v].dept, role |-> devs[v].role]
             j == [op |-> "issue", says |-> says]
  <2>1. devs[v] # None /\ Begins(w, j)
    BY <1>4 DEF IssueForDevice
  <2>2. says \in Identities /\ Within(SubOf[says.emp], says)
    BY <2>1, DeviceShapes DEF TenantInv, Identities, OwnSubsidiary, Within
  <2> HIDE DEF says
  <2>3. j \in Jobs /\ Apart(j)
    BY <2>2 DEF Jobs, Apart
  <2> HIDE DEF j
  <2> QED
    BY <2>1, <2>3, BeginsInv
<1> QED
  BY <1>1, <1>2, <1>3, <1>4

(***************************************************************************)
(* Operations in one step.                                                 *)
(***************************************************************************)
\* New rows refer to one that is there.
LEMMA CatalogueInv ==
  ASSUME TenantInv, NEW a \in Admins,
         \/ \E s \in Subs : CreateSubsidiary(a, s)
         \/ \E d \in Depts : CreateDepartment(a, d)
         \/ \E r \in Roles : CreateNetworkRole(a, r)
         \/ \E r \in Roles, state \in {"on", "off"} : SetTenantState(a, r, state)
  PROVE  TenantInv'
<1> USE DEF TenantInv, ReferencesHold
<1>1. ASSUME NEW s \in Subs, CreateSubsidiary(a, s)
      PROVE  TenantInv'
  BY <1>1 DEF CreateSubsidiary, TypeOK, RowsExist, PeopleExist, TenantsApart, OwnSubsidiary, RequestsApart, Exists
<1>2. ASSUME NEW d \in Depts, CreateDepartment(a, d)
      PROVE  TenantInv'
  BY <1>2 DEF CreateDepartment, TypeOK, RowsExist, PeopleExist, TenantsApart, OwnSubsidiary, RequestsApart, Exists
<1>3. ASSUME NEW r \in Roles, NEW state \in {"on", "off"}, SubOf[r] \in subs,
             roles' = [roles EXCEPT ![r] = state],
             UNCHANGED <<subs, depts, pairs, grants, emps, devs, certs, job>>
      PROVE  TenantInv'
  <2>1. roles' \in [Roles -> {"none", "on", "off"}] /\ \A q \in Roles : roles'[q] = IF q = r THEN state ELSE roles[q]
    BY <1>3 DEF TypeOK
  <2>2. TypeOK' /\ RequestsApart' /\ TenantsApart' /\ OwnSubsidiary'
    BY <1>3, <2>1 DEF TypeOK, RequestsApart, TenantsApart, OwnSubsidiary
  <2>3. RowsExist'
    BY <1>3, <2>1 DEF RowsExist, Exists, TypeOK
  <2>4. PeopleExist'
    BY <1>3, <2>1, DeviceShapes DEF PeopleExist, Exists
  <2> QED
    BY <2>2, <2>3, <2>4
<1>4. ASSUME NEW r \in Roles, CreateNetworkRole(a, r)
      PROVE  TenantInv'
  BY <1>3, <1>4 DEF CreateNetworkRole
<1>5. ASSUME NEW r \in Roles, NEW state \in {"on", "off"}, SetTenantState(a, r, state)
      PROVE  TenantInv'
  BY <1>3, <1>5 DEF SetTenantState, RowsExist
<1> QED
  BY <1>1, <1>2, <1>4, <1>5

\* Links and grants join rows of one subsidiary.
LEMMA LinksInv ==
  ASSUME TenantInv, NEW a \in Admins,
         \/ \E d \in Depts, r \in Roles : LinkDepartmentRole(a, d, r) \/ UnlinkDepartmentRole(a, d, r)
         \/ \E c \in Clerks, r \in Roles : GrantRole(a, c, r) \/ RevokeGrant(a, c, r)
  PROVE  TenantInv'
<1> USE DEF TenantInv, ReferencesHold
<1>1. ASSUME NEW d \in Depts, NEW r \in Roles, pairs' \subseteq pairs \union {<<d, r>>},
             <<d, r>> \in pairs' => <<d, r>> \in pairs \/ (d \in depts /\ Exists(r) /\ SubOf[d] = SubOf[r]),
             UNCHANGED <<subs, depts, roles, grants, emps, devs, certs, job>>
      PROVE  TenantInv'
  <2>1. TypeOK'
    BY <1>1 DEF TypeOK
  <2>2. RowsExist'
    BY <1>1 DEF RowsExist, Exists
  <2>3. PeopleExist' /\ OwnSubsidiary' /\ RequestsApart'
    BY <1>1 DEF PeopleExist, OwnSubsidiary, RequestsApart, Exists
  <2>4. TenantsApart'
    BY <1>1 DEF TenantsApart
  <2> QED
    BY <2>1, <2>2, <2>3, <2>4
<1>2. ASSUME NEW c \in Clerks, NEW r \in Roles, grants' \subseteq grants \union {<<c, r>>},
             <<c, r>> \in grants' => <<c, r>> \in grants \/ (Exists(r) /\ ScopeOf[c] = SubOf[r]),
             UNCHANGED <<subs, depts, roles, pairs, emps, devs, certs, job>>
      PROVE  TenantInv'
  <2>1. TypeOK'
    BY <1>2 DEF TypeOK
  <2>2. RowsExist'
    BY <1>2 DEF RowsExist, Exists
  <2>3. PeopleExist' /\ OwnSubsidiary' /\ RequestsApart'
    BY <1>2 DEF PeopleExist, OwnSubsidiary, RequestsApart, Exists
  <2>4. TenantsApart'
    BY <1>2 DEF TenantsApart
  <2> QED
    BY <2>1, <2>2, <2>3, <2>4
<1> HIDE DEF TenantInv, ReferencesHold
<1>3. ASSUME NEW d \in Depts, NEW r \in Roles, LinkDepartmentRole(a, d, r) \/ UnlinkDepartmentRole(a, d, r)
      PROVE  TenantInv'
  BY <1>1, <1>3 DEF LinkDepartmentRole, UnlinkDepartmentRole
<1>4. ASSUME NEW c \in Clerks, NEW r \in Roles, GrantRole(a, c, r) \/ RevokeGrant(a, c, r)
      PROVE  TenantInv'
  BY <1>2, <1>4 DEF GrantRole, RevokeGrant
<1> QED
  BY <1>3, <1>4

\* An employee's department is one of the employee's subsidiary.
LEMMA EmployeeInv ==
  ASSUME TenantInv, NEW a \in Admins, NEW e \in Emps,
         \/ \E d \in Depts : CreateEmployee(a, e, d) \/ UpdateEmployee(a, e, d)
         \/ OffboardEmployee(a, e)
  PROVE  TenantInv'
<1> USE DEF TenantInv, ReferencesHold
<1>1. ASSUME NEW r \in Employments, emps' = [emps EXCEPT ![e] = r], r.dept \in depts,
             SubOf[r.dept] = SubOf[e],
             UNCHANGED <<subs, depts, roles, pairs, grants, devs, certs, job>>
      PROVE  TenantInv'
  <2>1. r # None
    BY NoneAssumption
  <2>2. emps' \in [Emps -> Employments \union {None}] /\ emps'[e] = r
        /\ \A x \in Emps : x # e => emps'[x] = emps[x]
    BY <1>1 DEF TypeOK
  <2>3. TypeOK' /\ RowsExist' /\ OwnSubsidiary' /\ RequestsApart'
    BY <1>1, <2>2 DEF TypeOK, RowsExist, OwnSubsidiary, RequestsApart, Exists
  <2>4. PeopleExist'
    BY <1>1, <2>1, <2>2, DeviceShapes DEF PeopleExist, Exists
  <2>5. TenantsApart'
    BY <1>1, <2>2 DEF TenantsApart
  <2> QED
    BY <2>3, <2>4, <2>5
<1>2. \A x \in Emps : emps[x] # None => emps[x] \in Employments
  BY DEF TypeOK
<1>3. ASSUME NEW d \in Depts, CreateEmployee(a, e, d)
      PROVE  TenantInv'
  <2> DEFINE r == [dept |-> d, leaving |-> FALSE]
  <2>1. r \in Employments /\ r.dept = d
    BY DEF Employments
  <2> HIDE DEF r, TenantInv
  <2> QED
    BY <1>1, <1>3, <2>1 DEF CreateEmployee, r
<1>4. ASSUME NEW d \in Depts, UpdateEmployee(a, e, d)
      PROVE  TenantInv'
  <2> DEFINE r == [emps[e] EXCEPT !.dept = d]
  <2>1. r \in Employments /\ r.dept = d
    BY <1>2, <1>4 DEF Employments, UpdateEmployee
  <2>2. emps' = [emps EXCEPT ![e] = r]
    BY <1>4 DEF UpdateEmployee
  <2> HIDE DEF r, TenantInv
  <2> QED
    BY <1>1, <1>4, <2>1, <2>2 DEF UpdateEmployee
<1>5. CASE OffboardEmployee(a, e)
  <2> DEFINE r == [emps[e] EXCEPT !.leaving = TRUE]
  <2>1. r \in Employments /\ r.dept = emps[e].dept /\ emps[e] # None
    BY <1>2, <1>5 DEF Employments, OffboardEmployee
  <2>2. r.dept \in depts /\ SubOf[r.dept] = SubOf[e]
    BY <2>1 DEF PeopleExist, TenantsApart
  <2>3. emps' = [emps EXCEPT ![e] = r]
    BY <1>5 DEF OffboardEmployee
  <2> HIDE DEF r, TenantInv
  <2> QED
    BY <1>1, <1>5, <2>1, <2>2, <2>3 DEF OffboardEmployee
<1> QED
  BY <1>3, <1>4, <1>5

(***************************************************************************)
(* Writes: the foreign keys hold at the commit.                            *)
(***************************************************************************)
\* Departments and roles that nothing refers to may go, with their links.
LEMMA RowsGoInv ==
  ASSUME TenantInv, NEW w \in Workers, Ends(w),
         NEW ds, NEW rs, Unreferenced(ds, rs),
         depts' = depts \ ds,
         roles' \in [Roles -> {"none", "on", "off"}],
         \A r \in Roles : roles'[r] = roles[r] \/ (r \in rs /\ roles'[r] = "none"),
         pairs' \subseteq pairs,
         \A p \in pairs' : p[1] \notin ds /\ p[2] \notin rs,
         subs' \subseteq subs,
         \A d \in depts' : SubOf[d] \in subs',
         \A r \in Roles : roles'[r] # "none" => SubOf[r] \in subs',
         UNCHANGED <<grants, emps, devs, certs>>
  PROVE  TenantInv'
<1> USE DEF TenantInv, ReferencesHold
<1>1. job' \in [Workers -> Jobs] /\ RequestsApart'
  BY EndsJobs
<1>2. TypeOK'
  BY <1>1 DEF TypeOK
<1>3. \A r \in Roles : Exists(r) /\ r \notin rs => roles'[r] # "none"
  BY DEF Exists
<1>4. RowsExist'
  <2>1. \A p \in pairs' : p[1] \in depts' /\ p[2] \in Roles /\ roles'[p[2]] # "none"
    BY <1>3 DEF RowsExist, TypeOK
  <2>2. \A g \in grants : g[2] \in Roles /\ roles'[g[2]] # "none"
    BY <1>3 DEF RowsExist, TypeOK, Unreferenced
  <2> QED
    BY <2>1, <2>2 DEF RowsExist, Exists
<1>5. PeopleExist'
  BY <1>3, DeviceShapes DEF PeopleExist, Unreferenced, Exists
<1>6. TenantsApart' /\ OwnSubsidiary'
  BY DEF TenantsApart, OwnSubsidiary
<1> QED
  BY <1>1, <1>2, <1>4, <1>5, <1>6

LEMMA DeletionInv ==
  ASSUME TenantInv, NEW w \in Workers, SubsidiaryGoes(w) \/ DepartmentGoes(w) \/ RoleGoes(w)
  PROVE  TenantInv'
<1>1. job[w] \in Jobs /\ roles \in [Roles -> {"none", "on", "off"}]
  BY DEF TenantInv, TypeOK
<1>2. /\ \A d \in depts : SubOf[d] \in subs
      /\ \A r \in Roles : roles[r] # "none" => SubOf[r] \in subs
  BY DEF TenantInv, ReferencesHold, RowsExist, Exists
<1>3. CASE SubsidiaryGoes(w)
  <2> DEFINE s  == job[w].sub
             ds == {d \in depts : SubOf[d] = s}
             rs == {r \in Roles : Exists(r) /\ SubOf[r] = s}
  <2>1. OfSub(s).depts = ds /\ OfSub(s).roles = rs
    BY DEF OfSub
  <2>2. /\ Unreferenced(ds, rs)
        /\ \A p \in pairs : p[1] \notin ds /\ p[2] \notin rs
        /\ subs' = subs \ {s} /\ depts' = depts \ ds
        /\ roles' = [r \in Roles |-> IF r \in rs THEN "none" ELSE roles[r]]
        /\ Ends(w) /\ UNCHANGED <<pairs, grants, emps, devs, certs>>
    BY <1>3, <2>1, Zenon DEF SubsidiaryGoes
  <2>3. \A d \in depts' : SubOf[d] \in subs'
    BY <1>2, <2>2
  <2>4. \A r \in Roles : roles'[r] # "none" => SubOf[r] \in subs'
    BY <1>2, <2>2 DEF Exists
  <2>5. roles' \in [Roles -> {"none", "on", "off"}]
        /\ \A r \in Roles : roles'[r] = roles[r] \/ (r \in rs /\ roles'[r] = "none")
    BY <1>1, <2>2
  <2> HIDE DEF ds, rs
  <2> QED
    BY <2>2, <2>3, <2>4, <2>5, RowsGoInv
<1>4. CASE DepartmentGoes(w)
  <2> DEFINE ds == {job[w].dept}
             rs == {}
  <2>1. /\ Unreferenced(ds, rs) /\ depts' = depts \ ds
        /\ pairs' \subseteq pairs /\ \A p \in pairs' : p[1] \notin ds /\ p[2] \notin rs
        /\ Ends(w) /\ UNCHANGED <<subs, roles, grants, emps, devs, certs>>
    BY <1>4 DEF DepartmentGoes
  <2> HIDE DEF ds, rs
  <2> QED
    BY <1>1, <1>2, <2>1, RowsGoInv
<1>5. CASE RoleGoes(w)
  <2> DEFINE ds == {}
             rs == {job[w].role}
  <2>1. /\ Unreferenced(ds, rs) /\ roles' = [roles EXCEPT ![job[w].role] = "none"]
        /\ pairs' \subseteq pairs /\ \A p \in pairs' : p[1] \notin ds /\ p[2] \notin rs
        /\ Ends(w) /\ UNCHANGED <<subs, depts, grants, emps, devs, certs>>
    BY <1>5 DEF RoleGoes
  <2>2. depts' = depts \ ds
    BY <2>1
  <2>3. roles' \in [Roles -> {"none", "on", "off"}]
        /\ \A r \in Roles : roles'[r] = roles[r] \/ (r \in rs /\ roles'[r] = "none")
    BY <1>1, <2>1
  <2> HIDE DEF ds, rs
  <2> QED
    BY <1>2, <2>1, <2>2, <2>3, RowsGoInv
<1> QED
  BY <1>3, <1>4, <1>5

\* An employee takes all of their devices along.
LEMMA EmployeeGoesInv ==
  ASSUME TenantInv, NEW w \in Workers, EmployeeGoes(w)
  PROVE  TenantInv'
<1> USE DEF TenantInv, ReferencesHold
<1> DEFINE e == job[w].emp
<1>1. /\ emps' = [emps EXCEPT ![e] = None]
      /\ devs' = [v \in Devs |-> IF v \in DevicesOf(e) THEN None ELSE devs[v]]
      /\ certs' \subseteq certs /\ Ends(w) /\ UNCHANGED <<subs, depts, roles, pairs, grants>>
  BY DEF EmployeeGoes
<1>2. job' \in [Workers -> Jobs] /\ RequestsApart'
  BY <1>1, EndsJobs
<1>3. /\ emps' \in [Emps -> Employments \union {None}]
      /\ \A x \in Emps : emps'[x] = IF x = e THEN None ELSE emps[x]
  BY <1>1 DEF TypeOK
<1>4. /\ devs' \in [Devs -> Devices \union {None}]
      /\ \A v \in Devs : devs'[v] # None => devs'[v] = devs[v] /\ devs[v] # None /\ devs[v].emp # e
  BY <1>1 DEF TypeOK, DevicesOf
<1>5. TypeOK' /\ RowsExist'
  BY <1>1, <1>2, <1>3, <1>4 DEF TypeOK, RowsExist, Exists
<1>6. PeopleExist'
  <2>1. \A x \in Emps : emps'[x] # None => emps'[x].dept \in depts
    BY <1>3 DEF PeopleExist
  <2>2. \A v \in Devs : devs'[v] # None => emps'[devs'[v].emp] # None /\ devs'[v].dept \in depts /\ Exists(devs'[v].role)
    BY <1>3, <1>4, DeviceShapes DEF PeopleExist
  <2> QED
    BY <1>1, <2>1, <2>2 DEF PeopleExist, Exists
<1>7. TenantsApart'
  BY <1>1, <1>3, <1>4 DEF TenantsApart
<1>8. OwnSubsidiary'
  BY <1>4 DEF OwnSubsidiary
<1> QED
  BY <1>2, <1>5, <1>6, <1>7, <1>8

\* A device is written: whatever it refers to is there and is of its
\* subsidiary.
LEMMA DeviceWrittenInv ==
  ASSUME TenantInv, NEW w \in Workers, Ends(w), NEW v \in Devs, NEW x \in Devices,
         devs' = [devs EXCEPT ![v] = x], Within(SubOf[v], x),
         emps[x.emp] # None, x.dept \in depts, Exists(x.role),
         UNCHANGED <<subs, depts, roles, pairs, grants, emps, certs>>
  PROVE  TenantInv'
<1> USE DEF TenantInv, ReferencesHold
<1>1. job' \in [Workers -> Jobs] /\ RequestsApart'
  BY EndsJobs
<1>2. devs' \in [Devs -> Devices \union {None}] /\ \A u \in Devs : devs'[u] = IF u = v THEN x ELSE devs[u]
  BY DEF TypeOK
<1>3. TypeOK' /\ RowsExist'
  BY <1>1, <1>2 DEF TypeOK, RowsExist, Exists
<1>4. PeopleExist'
  BY <1>2 DEF PeopleExist, Exists
<1>5. TenantsApart' /\ OwnSubsidiary'
  BY <1>2 DEF TenantsApart, OwnSubsidiary, Within
<1> QED
  BY <1>1, <1>3, <1>4, <1>5

LEMMA DeviceComesInv ==
  ASSUME TenantInv, NEW w \in Workers, DeviceComes(w)
  PROVE  TenantInv'
<1>1. job[w] \in Registers /\ Within(SubOf[job[w].dev], job[w].want)
  BY JobShapes DEF TenantInv, TypeOK, RequestsApart, Apart, DeviceComes
<1>2. job[w].dev \in Devs /\ job[w].want \in Devices
  BY <1>1 DEF Registers
<1> QED
  BY <1>1, <1>2, DeviceWrittenInv DEF DeviceComes

LEMMA DeviceChangesInv ==
  ASSUME TenantInv, NEW w \in Workers, DeviceChanges(w)
  PROVE  TenantInv'
<1> DEFINE v    == job[w].dev
           read == job[w].read
           want == job[w].want
           dept == Column(devs[v].dept, read.dept, want.dept)
           role == Column(devs[v].role, read.role, want.role)
           x    == [devs[v] EXCEPT !.dept = dept]
           y    == [x EXCEPT !.role = role]
<1>1. job[w].op = "update" /\ devs[v] # None /\ dept \in depts /\ Exists(role)
      /\ Ends(w) /\ UNCHANGED <<subs, depts, roles, pairs, grants, emps, certs>>
  BY DEF DeviceChanges
<1>2. job[w] \in Updates /\ Apart(job[w])
  BY <1>1, JobShapes DEF TenantInv, TypeOK, RequestsApart
<1>3. v \in Devs /\ read \in Devices /\ want \in Devices /\ want.dept \in Depts /\ want.role \in Roles
  BY <1>2 DEF Updates, Devices
<1>4. devs[v] \in Devices /\ devs \in [Devs -> Devices \union {None}]
  BY <1>1, <1>3, DeviceShapes DEF TenantInv, TypeOK
<1>5. Within(SubOf[v], devs[v]) /\ emps[devs[v].emp] # None
  BY <1>1, <1>3 DEF TenantInv, OwnSubsidiary, ReferencesHold, PeopleExist
<1>6. dept \in Depts /\ role \in Roles /\ SubOf[dept] = SubOf[v] /\ SubOf[role] = SubOf[v]
  BY <1>1, <1>2, <1>3, <1>4, <1>5 DEF Column, Apart, Within, Devices
<1>7. devs' = [devs EXCEPT ![v] = y]
  <2> DEFINE g == [devs EXCEPT ![v].dept = dept]
             h == [g EXCEPT ![v].role = role]
  <2>1. devs' = h
    BY Zenon DEF DeviceChanges
  <2>2. g = [devs EXCEPT ![v] = x]
    OBVIOUS
  <2>3. g[v] = x
    BY <1>3, <1>4, <2>2
  <2> HIDE DEF dept, role, x, v
  <2>4. h = [g EXCEPT ![v] = [g[v] EXCEPT !.role = role]]
    OBVIOUS
  <2> HIDE DEF g
  <2>5. h = [g EXCEPT ![v] = y]
    BY <2>3, <2>4
  <2> HIDE DEF h, y
  <2> QED
    BY <1>3, <1>4, <2>1, <2>2, <2>5
<1> HIDE DEF dept, role
<1>8. x \in Devices /\ x.dept = dept /\ x.emp = devs[v].emp
  BY <1>4, <1>6 DEF Devices
<1> HIDE DEF x
<1>9. y \in Devices /\ y.dept = dept /\ y.role = role /\ y.emp = devs[v].emp
  BY <1>6, <1>8 DEF Devices
<1> HIDE DEF y, v
<1> QED
  BY <1>1, <1>3, <1>5, <1>6, <1>7, <1>9, DeviceWrittenInv DEF Within

\* What a certificate says of its owner was true when the request read it.
LEMMA IssuedInv ==
  ASSUME TenantInv, NEW w \in Workers, Issued(w)
  PROVE  TenantInv'
<1> USE DEF TenantInv, ReferencesHold
<1>1. job' \in [Workers -> Jobs] /\ RequestsApart'
  BY EndsJobs DEF Issued
<1>2. job[w] \in Issues /\ Apart(job[w])
  BY JobShapes DEF TypeOK, RequestsApart, Issued
<1>3. job[w].says \in Identities /\ Within(SubOf[job[w].says.emp], job[w].says)
  BY <1>2 DEF Issues, Apart
<1>4. certs' = certs \union {job[w].says} /\ UNCHANGED <<subs, depts, roles, pairs, grants, emps, devs>>
  BY DEF Issued
<1>5. TypeOK'
  BY <1>1, <1>3, <1>4 DEF TypeOK
<1>6. RowsExist' /\ PeopleExist' /\ OwnSubsidiary'
  BY <1>4 DEF RowsExist, PeopleExist, OwnSubsidiary, Exists
<1>7. TenantsApart'
  BY <1>3, <1>4 DEF TenantsApart, Within
<1> QED
  BY <1>1, <1>5, <1>6, <1>7

LEMMA WriteFailsInv ==
  ASSUME TenantInv, NEW w \in Workers, WriteFails(w)
  PROVE  TenantInv'
<1>1. job' \in [Workers -> Jobs] /\ RequestsApart' /\ UNCHANGED tables
  BY EndsJobs DEF WriteFails, TenantInv
<1> QED
  BY <1>1
     DEF tables, TenantInv, TypeOK, ReferencesHold, RowsExist, PeopleExist, TenantsApart,
         OwnSubsidiary, Exists

(***************************************************************************)
(* The theorems.                                                           *)
(***************************************************************************)
\* Every check and every write preserves the invariant.
THEOREM NextTenant == TenantInv /\ [Next]_vars => TenantInv'
<1> SUFFICES ASSUME TenantInv, [Next]_vars
             PROVE  TenantInv'
  OBVIOUS
<1>1. ASSUME NEW w \in Workers, Write(w)
      PROVE  TenantInv'
  BY <1>1, DeletionInv, EmployeeGoesInv, DeviceComesInv, DeviceChangesInv, IssuedInv, WriteFailsInv DEF Write
<1>2. ASSUME NEW w \in Workers, NEW a \in Admins, TenantForms(w, a)
      PROVE  TenantInv'
  BY <1>2, CatalogueInv, LinksInv, DeletionBeginsInv DEF TenantForms
<1>3. ASSUME NEW a \in Admins, NetworkApi(a)
      PROVE  TenantInv'
  BY <1>3, CatalogueInv, LinksInv DEF NetworkApi
<1>4. ASSUME NEW w \in Workers, NEW a \in Admins, EmployeeRequest(w, a)
      PROVE  TenantInv'
  BY <1>4, EmployeeInv, LeaverBeginsInv DEF EmployeeRequest
<1>5. CASE UNCHANGED vars
  BY <1>5 DEF vars, tables, TenantInv, TypeOK, ReferencesHold, RowsExist, PeopleExist, TenantsApart,
              OwnSubsidiary, RequestsApart, Exists
<1> QED
  BY <1>1, <1>2, <1>3, <1>4, <1>5, DeviceRequestInv DEF Next

THEOREM SpecTenant == Spec => []TenantInv
BY InitTenant, NextTenant, PTL DEF Spec

\* Types.
THEOREM SpecTypeOK == Spec => []TypeOK
<1>1. TenantInv => TypeOK
  BY DEF TenantInv
<1> QED
  BY <1>1, SpecTenant, PTL

\* Every row names rows that exist: what was checked may have gone since, and
\* the foreign keys are looked at again when the row is written.
THEOREM SpecReferencesHold == Spec => []ReferencesHold
<1>1. TenantInv => ReferencesHold
  BY DEF TenantInv
<1> QED
  BY <1>1, SpecTenant, PTL

\* Links, grants, employees, devices and certificates stay within one
\* subsidiary.
THEOREM SpecTenantsApart == Spec => []TenantsApart
<1>1. TenantInv => TenantsApart
  BY DEF TenantInv
<1> QED
  BY <1>1, SpecTenant, PTL

=============================================================================

----------------------------- MODULE SiteAccess -----------------------------
(***************************************************************************)
(* Who gets on the network of one site, and in which VLAN: the allowlist,  *)
(* the bindings of network roles to VLANs and their three switches         *)
(* (app/network_policy.py), the policy compiled from them                  *)
(* (app/site_policy.py), the decision of the RADIUS adapter                *)
(* (deploy/radius/authorize_policy.py) and the hub's own answer to the     *)
(* same question (resolve_binding).                                        *)
(*                                                                         *)
(* A request reads the row it is about, checks, and writes at the end of   *)
(* its transaction.  SQLite serialises the writes, and the session writes  *)
(* the columns that differ from what it read: two requests that overlap    *)
(* are merged column by column.                                            *)
(*                                                                         *)
(* Simplifications:                                                        *)
(*  - One site.  A role keeps its subsidiary for life, so a binding is     *)
(*    known by its role.  Nothing deactivates a subsidiary, and one with   *)
(*    roles or bindings is not deleted (module TenantRegistry).            *)
(*  - config_revision, which nothing decides by, and reasons are left out. *)
(*  - A draft with several bindings is one request per binding.            *)
(*  - A superadmin of the platform with a scope is left out.               *)
(*  - The lease, and when a site installs a policy: module PolicySync.     *)
(***************************************************************************)
EXTENDS Integers

CONSTANTS
  Admins,    (* superadmins, of the platform and of tenants                *)
  Subs,      (* subsidiaries                                               *)
  Everything,(* the scope of a platform superadmin                         *)
  ScopeOf,   (* the scope of an admin                                      *)
  Roles,     (* network roles                                              *)
  SubOf,     (* the subsidiary of a role                                   *)
  MaxVlan,   (* the last VLAN number, 4094                                 *)
  NoVlan,    (* no fallback VLAN                                           *)
  NoBinding, (* a role without a binding                                   *)
  Stranger   (* a role in a certificate that the hub does not know         *)

ASSUME ScopeAssumption  == ScopeOf \in [Admins -> Subs \union {Everything}] /\ Everything \notin Subs
ASSUME RoleAssumption   == SubOf \in [Roles -> Subs] /\ Stranger \notin Roles
ASSUME VlanAssumption   == MaxVlan \in Nat /\ NoVlan \notin Int

VARIABLES
  role,    (* "none", or whether the tenant-wide switch is "on" or "off"   *)
  allow,   (* rows of site_subsidiaries: "none", "on" or "off"             *)
  binding, (* rows of site_role_bindings                                   *)
  vlans,   (* the site's vlan_segmentation_enabled                         *)
  edit     (* what each admin's request has read and is about to write     *)

accessVars == <<role, allow, binding, vlans, edit>>

Vlans    == 1..MaxVlan
Numbers  == 0..(MaxVlan + 1)
Bindings == [vlan : Vlans, fallback : Vlans \union {NoVlan},
             platform : BOOLEAN, tenant : BOOLEAN]
ASSUME MarkAssumption == NoBinding \notin Bindings

Idle  == [busy |-> FALSE]
Edits == [busy : {TRUE}, role : Roles, read : Bindings \union {NoBinding}, want : Bindings]

AccessTypeOK ==
  /\ role \in [Roles -> {"none", "on", "off"}]
  /\ allow \in [Subs -> {"none", "on", "off"}]
  /\ binding \in [Roles -> Bindings \union {NoBinding}]
  /\ vlans \in BOOLEAN
  /\ edit \in [Admins -> Edits \union {Idle}]

AccessInit ==
  /\ role = [r \in Roles |-> "none"]
  /\ allow = [s \in Subs |-> "none"]
  /\ binding = [r \in Roles |-> NoBinding]
  /\ vlans = TRUE
  /\ edit = [a \in Admins |-> Idle]

(***************************************************************************)
(* Requests of admins.                                                     *)
(***************************************************************************)
OfPlatform(a) == ScopeOf[a] = Everything

\* Mutant: the scope is not looked at.
CanManageAny(a, s) == TRUE

\* assert_can_manage_subsidiary
CanManage(a, s) == ScopeOf[a] \in {Everything, s}

CreateRole(a, r) ==
  /\ CanManage(a, SubOf[r])
  /\ role[r] = "none"
  /\ role' = [role EXCEPT ![r] = "on"]
  /\ UNCHANGED <<allow, binding, vlans, edit>>

\* A role with a binding is refused, by the check or by the foreign key.
DeleteRole(a, r) ==
  /\ CanManage(a, SubOf[r])
  /\ role[r] # "none" /\ binding[r] = NoBinding
  /\ role' = [role EXCEPT ![r] = "none"]
  /\ UNCHANGED <<allow, binding, vlans, edit>>

SwitchRole(a, r, on) ==
  /\ CanManage(a, SubOf[r])
  /\ role[r] # "none"
  /\ role' = [role EXCEPT ![r] = IF on THEN "on" ELSE "off"]
  /\ UNCHANGED <<allow, binding, vlans, edit>>

Authorize(a, s) ==
  /\ OfPlatform(a)
  /\ allow' = [allow EXCEPT ![s] = "on"]
  /\ UNCHANGED <<role, binding, vlans, edit>>

Deauthorize(a, s) ==
  /\ OfPlatform(a)
  /\ allow[s] # "none"
  /\ allow' = [allow EXCEPT ![s] = "off"]
  /\ UNCHANGED <<role, binding, vlans, edit>>

SetSegmentation(a, on) ==
  /\ OfPlatform(a)
  /\ vlans' = on
  /\ UNCHANGED <<role, allow, binding, edit>>

Reads(a, r, want) ==
  /\ edit[a] = Idle
  /\ edit' = [edit EXCEPT ![a] = [busy |-> TRUE, role |-> r, read |-> binding[r],
                                  want |-> want]]
  /\ UNCHANGED <<role, allow, binding, vlans>>

\* Mutant: the bound on a VLAN number is off by one.
ValidVlansWide(v, f) == v \in 1..(MaxVlan + 1) /\ f \in (Vlans \union {NoVlan}) \ {v}

ValidVlans(v, f) == v \in Vlans /\ f \in (Vlans \union {NoVlan}) \ {v}

\* The form sets the VLANs and keeps the switches of a binding that exists.
ConfigureByForm(a, r, v, f) ==
  /\ OfPlatform(a) /\ role[r] # "none" /\ ValidVlans(v, f)
  /\ Reads(a, r, IF binding[r] = NoBinding
                 THEN [vlan |-> v, fallback |-> f, platform |-> TRUE, tenant |-> TRUE]
                 ELSE [binding[r] EXCEPT !.vlan = v, !.fallback = f])

\* A draft sets the switches too; they are on when the draft does not name them.
ConfigureByDraft(a, r, v, f, p, t) ==
  /\ OfPlatform(a) /\ role[r] # "none" /\ ValidVlans(v, f)
  /\ Reads(a, r, [vlan |-> v, fallback |-> f, platform |-> p, tenant |-> t])

\* The tenant's switch: off only where there is a fallback VLAN.
SwitchBinding(a, r, on) ==
  /\ CanManage(a, SubOf[r])
  /\ binding[r] # NoBinding
  /\ ~on => binding[r].fallback # NoVlan
  /\ Reads(a, r, [binding[r] EXCEPT !.tenant = on])

\* The platform's ceiling.
SwitchPlatform(a, r, on) ==
  /\ OfPlatform(a)
  /\ binding[r] # NoBinding
  /\ Reads(a, r, [binding[r] EXCEPT !.platform = on])

\* Mutant: a request writes back the whole row it has read.
Overwrite(read, want, current) == want

Merge(read, want, current) ==
  [vlan     |-> IF want.vlan = read.vlan THEN current.vlan ELSE want.vlan,
   fallback |-> IF want.fallback = read.fallback THEN current.fallback ELSE want.fallback,
   platform |-> IF want.platform = read.platform THEN current.platform ELSE want.platform,
   tenant   |-> IF want.tenant = read.tenant THEN current.tenant ELSE want.tenant]

\* A second insert of the same binding fails on the unique constraint.
Write(a) ==
  LET e == edit[a]
  IN  /\ e.busy
      /\ binding' = [binding EXCEPT ![e.role] =
           IF e.read = NoBinding
           THEN IF @ = NoBinding /\ role[e.role] # "none" THEN e.want ELSE @
           ELSE Merge(e.read, e.want, @)]
      /\ edit' = [edit EXCEPT ![a] = Idle]
      /\ UNCHANGED <<role, allow, vlans>>

(***************************************************************************)
(* The policy and the two decisions.                                       *)
(***************************************************************************)
Entry(r) == [sub |-> SubOf[r], role |-> r, active |-> role[r] = "on", row |-> binding[r]]

\* Mutant: a subsidiary that was withdrawn is still on the list.
CompileEveryRow == {Entry(r) : r \in {q \in Roles : binding[q] # NoBinding /\ allow[SubOf[q]] # "none"}}

\* compile_site_policy, with the lease and the site left out.
Compile == {Entry(r) : r \in {q \in Roles : binding[q] # NoBinding /\ allow[SubOf[q]] = "on"}}

Reject      == [outcome |-> "reject", vlan |-> NoVlan]
Primary(b)  == [outcome |-> "primary", vlan |-> b.vlan]
Fallback(b) == [outcome |-> "fallback", vlan |-> b.fallback]

UsableFallback(b) == b.fallback \in Vlans /\ b.fallback # b.vlan

\* evaluate_authorization, for a certificate of role r of subsidiary s.
Evaluate(policy, s, r) ==
  LET found == {e \in policy : e.sub = s /\ e.role = r}
      e     == CHOOSE e \in found : TRUE
  IN  IF found = {} \/ ~e.row.platform THEN Reject
      ELSE IF e.active /\ e.row.tenant
           THEN IF e.row.vlan \in Vlans THEN Primary(e.row) ELSE Reject
           ELSE IF UsableFallback(e.row) THEN Fallback(e.row) ELSE Reject

\* post_auth: without segmentation the decision stands and carries no VLAN.
Reply(d) == IF d.outcome # "reject" /\ ~vlans THEN [d EXCEPT !.vlan = NoVlan] ELSE d

Restricted == \E s \in Subs : allow[s] # "none"

\* resolve_binding.
Resolve(s, r) ==
  IF \/ Restricted /\ allow[s] # "on"
     \/ r \notin Roles
     \/ r \in Roles /\ (role[r] = "none" \/ SubOf[r] # s \/ binding[r] = NoBinding)
     \/ r \in Roles /\ binding[r] # NoBinding /\ ~binding[r].platform
  THEN Reject
  ELSE IF role[r] = "on" /\ binding[r].tenant THEN Primary(binding[r])
       ELSE IF UsableFallback(binding[r]) THEN Fallback(binding[r]) ELSE Reject

(***************************************************************************)
(* The specification.                                                      *)
(***************************************************************************)
TenantRequest(a) ==
  \E r \in Roles :
    \/ CreateRole(a, r) \/ DeleteRole(a, r)
    \/ \E on \in BOOLEAN : SwitchRole(a, r, on) \/ SwitchBinding(a, r, on)

PlatformRequest(a) ==
  \/ \E s \in Subs : Authorize(a, s) \/ Deauthorize(a, s)
  \/ \E on \in BOOLEAN : SetSegmentation(a, on)
  \/ \E r \in Roles, on \in BOOLEAN : SwitchPlatform(a, r, on)
  \/ \E r \in Roles, v \in Numbers, f \in Numbers \union {NoVlan} :
       \/ ConfigureByForm(a, r, v, f)
       \/ \E p, t \in BOOLEAN : ConfigureByDraft(a, r, v, f, p, t)

Step(a) == TenantRequest(a) \/ PlatformRequest(a) \/ Write(a)

AccessNext == \E a \in Admins : Step(a)

AccessSpec == AccessInit /\ [][AccessNext]_accessVars

(***************************************************************************)
(* Safety.                                                                 *)
(***************************************************************************)

\* The site decides as the hub would: for every subsidiary and role a
\* certificate may name, the adapter's reply from the compiled policy is the
\* hub's resolution, whatever requests overlapped.  The hub does not check the
\* primary VLAN's range again and the adapter does; and the two read an empty
\* allowlist differently, so there must be one.
AdapterAgrees ==
  Restricted =>
    \A s \in Subs, r \in Roles \union {Stranger} :
      Reply(Evaluate(Compile, s, r)) = Reply(Resolve(s, r))

\* A block set by the platform is lifted by a platform superadmin who has seen
\* it, never by a request that overlaps with the block or by a tenant.
BlockSurvivesOverlap ==
  [][\A r \in Roles :
       /\ binding[r] # NoBinding /\ ~binding[r].platform
       /\ binding'[r].platform
       => \E a \in Admins : /\ OfPlatform(a) /\ edit[a].busy /\ edit[a].role = r
                            /\ edit[a].read # NoBinding /\ ~edit[a].read.platform]_accessVars

\* What a tenant's superadmin does changes nobody's access but their tenant's.
TenantIsolation ==
  [][\A a \in Admins : ~OfPlatform(a) =>
       \/ \A s \in Subs \ {ScopeOf[a]}, r \in Roles \union {Stranger} :
            Evaluate(Compile, s, r)' = Evaluate(Compile, s, r)
       \/ ~Step(a)]_accessVars

(***************************************************************************)
(* What docs say, and the code does not do.                                *)
(***************************************************************************)

\* app/site_policy.py: an empty allowlist withdraws all bindings.
EmptyListWithdraws ==
  ~Restricted => \A s \in Subs, r \in Roles : Resolve(s, r) = Reject

=============================================================================

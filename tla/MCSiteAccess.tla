---------------------------- MODULE MCSiteAccess ----------------------------
(***************************************************************************)
(* SiteAccess with two tenants, for TLC: a superadmin of the platform, and *)
(* one of each tenant.                                                     *)
(***************************************************************************)
EXTENDS SiteAccess

CONSTANTS root, ann, tom, sA, sB, rA

TwoScopes == [a \in Admins |-> CASE a = ann -> sA [] a = tom -> sB [] a = root -> Everything]
OneRole   == [r \in Roles |-> sA]

=============================================================================

------------------------------ MODULE AdminRbac ------------------------------
(***************************************************************************)
(* AdminRbacService: the roles, the permissions they hold on connector     *)
(* types, the mappings of IdP groups to roles, and how the permissions of  *)
(* a session are read.  Only a superadmin changes roles and mappings; each *)
(* change is one commit.                                                   *)
(***************************************************************************)
EXTENDS Integers, FiniteSets

CONSTANTS Roles, IdpGroups,
          Types,    \* connector types
          None,     \* an id not yet given out
          Gone      \* the id of a deleted row: ids are uuids, never used again

Absent == {None, Gone}
Levels == {"none", "read", "write"}

VARIABLES role,    \* AdminRole with its AdminRoleConnectorPermission rows
          mapping  \* AdminGroupRoleMapping: "none", "off", "on"

RoleRows == [enabled : BOOLEAN, level : [Types -> Levels]]

ASSUME RbacAssumption == Absent \cap RoleRows = {} /\ None # Gone

RbacTypeOK ==
  /\ role \in [Roles -> RoleRows \cup Absent]
  /\ mapping \in [IdpGroups \X Roles -> {"none", "off", "on"}]

-----------------------------------------------------------------------------
(***************************************************************************)
(* Administration                                                          *)
(***************************************************************************)
\* normalizedPermissions: the rows of one connector type are joined, and the right to
\* write is a right to read.
Normalized(rows) ==
  [t \in Types |-> IF \E r \in rows : r.type = t /\ r.canWrite THEN "write"
                   ELSE IF \E r \in rows : r.type = t /\ r.canRead THEN "read" ELSE "none"]

CreateRole(r, enabled, rows) ==
  /\ role[r] = None
  /\ role' = [role EXCEPT ![r] = [enabled |-> enabled, level |-> Normalized(rows)]]
  /\ UNCHANGED mapping

\* updateRole: the permissions that are given replace the old ones, in a transaction
\* with the other fields.
UpdateRole(r, enabled, level) ==
  /\ role[r] \notin Absent
  /\ role' = [role EXCEPT ![r] = [enabled |-> enabled, level |-> level]]
  /\ UNCHANGED mapping

\* onDelete: Cascade
DeleteRole(r) ==
  /\ role[r] \notin Absent
  /\ role' = [role EXCEPT ![r] = Gone]
  /\ mapping' = [m \in DOMAIN mapping |-> IF m[2] = r THEN "none" ELSE mapping[m]]

\* requireRole, and the unique pair of group and role.
CreateMapping(m, state) ==
  /\ role[m[2]] \notin Absent /\ mapping[m] = "none"
  /\ mapping' = [mapping EXCEPT ![m] = state]
  /\ UNCHANGED role

UpdateMapping(m, n, state) ==
  /\ mapping[m] # "none" /\ (n = m \/ mapping[n] = "none") /\ role[n[2]] \notin Absent
  /\ mapping' = [mapping EXCEPT ![m] = "none", ![n] = state]
  /\ UNCHANGED role

DeleteMapping(m) ==
  /\ mapping[m] # "none"
  /\ mapping' = [mapping EXCEPT ![m] = "none"]
  /\ UNCHANGED role

-----------------------------------------------------------------------------
(***************************************************************************)
(* effectivePermissions.  The groups of a session are those of the IdP at  *)
(* the login; the local administrator is the superadmin.                   *)
(***************************************************************************)
Sessions == [local : BOOLEAN, groups : SUBSET IdpGroups]

\* The query of the mappings, filtered by their roles.
MappedRoles(s) ==
  {r \in Roles : role[r] \notin Absent /\ role[r].enabled
                 /\ \E g \in s.groups : mapping[<<g, r>>] = "on"}

\* Variant: the permissions are those of the role whose mapping comes last.
GrantsLast(rs, type, access) ==
  rs # {} /\ LET r == CHOOSE x \in rs : TRUE
             IN role[r] \notin Absent /\ role[r].level[type] \in {"write", access}

\* The query for their permissions, canRead and canWrite; a role deleted since has none.
Grants(rs, type, access) ==
  \E r \in rs : role[r] \notin Absent /\ role[r].level[type] \in {"write", access}

\* What a session may do at one moment, in terms of the tables.
Permitted(s, type, access) ==
  s.local \/ \E r \in Roles, g \in s.groups :
               /\ role[r] \notin Absent /\ role[r].enabled /\ mapping[<<g, r>>] = "on"
               /\ role[r].level[type] \in {"write", access}
=============================================================================

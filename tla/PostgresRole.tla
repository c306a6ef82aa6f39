----------------------------- MODULE PostgresRole -----------------------------
(***************************************************************************)
(* PostgresRoleConnectorService: what executeWithPool sends for one event. *)
(* createRole and updateRole run in withTransaction, after every name and  *)
(* permission has been validated; everything else is one statement.        *)
(***************************************************************************)
EXTENDS TargetRequests

\* login, password, roles, permissions, roleName: what throws before a statement.
PgInvalid(refs, e, secret) ==
  \/ e.given = "no id"
  \/ secret /\ e.given = "no password"
  \/ Malformed \in Named(refs) \/ e.permission \in {"deny", "outside"}

PgGrant(u, g) == Write({Account(u), Group(g)}, {}, {Right(u, g)}, {})
PgGrants(u, refs) == [i \in 1 .. Len(refs) |-> PgGrant(u, refs[i])]

PgPermission(u, permission) ==
  CASE permission = "grant"  -> <<Write({Account(u)}, {}, {Permit(u)}, {})>>
    [] permission = "revoke" -> <<Write({Account(u)}, {}, {}, {Permit(u)})>>
    [] OTHER -> <<>>

PgLogin(u, on) ==
  Write({Account(u)}, {}, IF on THEN {Active(u)} ELSE {}, IF on THEN {} ELSE {Active(u)})

\* LOGIN or NOLOGIN by the config alone: createRole does not look at data.enabled.
PgCreateRole(t, u) ==
  Write({}, {Account(u)},
        {Account(u), Password(u)} \cup IF t.loginByDefault THEN {Active(u)} ELSE {}, {})

\* Variant: the role is granted its groups before it exists.
PgCreateLast(t, e) ==
  LET refs == t.defaults \o Asked(t, e)
  IN IF PgInvalid(refs, e, TRUE) THEN <<Reject>>
     ELSE <<Begin>> \o PgGrants(e.user, refs) \o <<PgCreateRole(t, e.user)>>
            \o PgPermission(e.user, e.permission) \o <<Commit>>

\* Variant: the statements of a creation are not in one transaction.
PgCreateLoose(t, e) ==
  LET refs == t.defaults \o Asked(t, e)
  IN IF PgInvalid(refs, e, TRUE) THEN <<Reject>>
     ELSE <<PgCreateRole(t, e.user)>> \o PgGrants(e.user, refs)
            \o PgPermission(e.user, e.permission)

PgCreate(t, e) ==
  LET refs == t.defaults \o Asked(t, e)
  IN IF PgInvalid(refs, e, TRUE) THEN <<Reject>>
     ELSE <<Begin, PgCreateRole(t, e.user)>> \o PgGrants(e.user, refs)
            \o PgPermission(e.user, e.permission) \o <<Commit>>

PgUpdate(t, e) ==
  LET refs == Asked(t, e)
  IN IF PgInvalid(refs, e, FALSE) THEN <<Reject>>
     ELSE <<Begin>>
            \o (IF e.enabled = "unset" THEN <<>> ELSE <<PgLogin(e.user, e.enabled = "on")>>)
            \o PgGrants(e.user, refs) \o PgPermission(e.user, e.permission) \o <<Commit>>

\* DROP ROLE is refused while a permission depends on the role.
PgDelete(t, e) ==
  IF e.given = "no id" THEN <<Reject>>
  ELSE IF t.physical THEN <<Write({Account(e.user)}, {Permit(e.user)}, {}, UserFacts(e.user))>>
  ELSE <<PgLogin(e.user, FALSE)>>

PgPassword(e) ==
  IF e.given # "all" THEN <<Reject>>
  ELSE <<Write({Account(e.user)}, {}, {Password(e.user)}, {})>>

PgGroup(t, e) ==
  LET g == e.group
  IN IF e.given = "no id" \/ g = Malformed THEN <<Reject>>
     ELSE CASE e.op = "groupCreate" -> <<Write({}, {Group(g)}, {Group(g), Open(g)}, {})>>
            [] e.op = "groupDelete" /\ t.dropRoles -> <<Write({Group(g)}, {}, {}, GroupFacts(g))>>
            [] e.op = "addMember" -> <<PgGrant(e.user, g)>>
            [] e.op = "removeMember" ->
                 <<Write({Account(e.user), Group(g)}, {}, {}, {Right(e.user, g)})>>
            [] OTHER -> <<Reject>>

PostgresRolePlan(t, e) ==
  CASE e.op = "create" -> PgCreate(t, e)
    [] e.op = "update" -> PgUpdate(t, e)
    [] e.op = "delete" -> PgDelete(t, e)
    [] e.op \in {"enable", "disable"} ->
         IF e.given = "no id" THEN <<Reject>> ELSE <<PgLogin(e.user, e.op = "enable")>>
    [] e.op = "changePassword" -> PgPassword(e)
    [] e.op \in {"groupCreate", "groupDelete", "addMember", "removeMember"} -> PgGroup(t, e)
    [] e.op = "read" -> <<Read({}, {})>>
    [] OTHER -> <<Reject>>
=============================================================================

------------------------------ MODULE MssqlLogin ------------------------------
(***************************************************************************)
(* MssqlLoginConnectorService: what executeWithPool sends for one event.   *)
(* There is no transaction: each statement of createLogin, updateLogin and *)
(* deleteLogin commits by itself, and the roles and permissions are only   *)
(* validated when their turn comes.                                        *)
(***************************************************************************)
EXTENDS TargetRequests

\* ALTER ROLE ... ADD MEMBER: needs the database user and the role.
MsJoin(u, g) == Write({Mapped(u), Group(g)}, {}, {Right(u, g)}, {})

\* roles() validates the whole list before the first statement of the loop.
MsJoins(u, refs) ==
  IF Malformed \in Named(refs) THEN <<Reject>>
  ELSE [i \in 1 .. Len(refs) |-> MsJoin(u, refs[i])]

MsPermission(u, permission) ==
  CASE permission = "grant"   -> <<Write({Mapped(u)}, {}, {Permit(u)}, {})>>
    [] permission \in {"revoke", "deny"} -> <<Write({Mapped(u)}, {}, {}, {Permit(u)})>>
    [] permission = "outside" -> <<Reject>>
    [] OTHER -> <<>>

MsEnabled(u, on) ==
  Write({Account(u)}, {}, IF on THEN {Active(u)} ELSE {}, IF on THEN {} ELSE {Active(u)})

MsCreateLogin(u) == Write({}, {Account(u)}, {Account(u), Password(u), Active(u)}, {})
MsCreateUser(u)  == Write({Account(u)}, {}, {Mapped(u)}, {})       \* IF ... IS NULL

MsCreate(t, e) ==
  LET u == e.user
  IN IF e.given # "all" THEN <<Reject>>
     ELSE <<MsCreateLogin(u), MsCreateUser(u)>>
            \o MsJoins(u, t.defaults \o Asked(t, e)) \o MsPermission(u, e.permission)
            \o (IF e.enabled = "off" THEN <<MsEnabled(u, FALSE)>> ELSE <<>>)

MsUpdate(t, e) ==
  IF e.given = "no id" THEN <<Reject>>
  ELSE (IF e.enabled = "unset" THEN <<>> ELSE <<MsEnabled(e.user, e.enabled = "on")>>)
         \o MsJoins(e.user, Asked(t, e)) \o MsPermission(e.user, e.permission)

\* Both statements do nothing when what they drop is not there.
MsDropUser(u)  == Write({}, {}, {}, {Mapped(u), Permit(u)} \cup RightsOf(u))
MsDropLogin(u) == Write({}, {}, {}, {Account(u), Active(u), Attrs(u), Password(u), Valid(u)})

\* Variant: DROP USER without its IF ... IS NOT NULL.
MsDropUserPlain(u) == [MsDropUser(u) EXCEPT !.needs = {Mapped(u)}]
MsDeletePlain(t, e) ==
  IF e.given = "no id" THEN <<Reject>>
  ELSE IF t.physical THEN <<MsDropUserPlain(e.user), MsDropLogin(e.user)>>
  ELSE <<MsEnabled(e.user, FALSE)>>

MsDelete(t, e) ==
  IF e.given = "no id" THEN <<Reject>>
  ELSE IF t.physical THEN <<MsDropUser(e.user), MsDropLogin(e.user)>>
  ELSE <<MsEnabled(e.user, FALSE)>>

MsPassword(e) ==
  IF e.given # "all" THEN <<Reject>>
  ELSE <<Write({Account(e.user)}, {}, {Password(e.user)}, {})>>

\* A role that has members cannot be dropped; group.update answers by itself.
MsGroup(t, e) ==
  LET g == e.group
  IN IF e.given = "no id" \/ g = Malformed THEN <<Reject>>
     ELSE CASE e.op = "groupCreate" -> <<Write({}, {}, {Group(g), Open(g)}, {})>>
            [] e.op = "groupUpdate" -> <<>>
            [] e.op = "groupDelete" /\ t.dropRoles ->
                 <<Write({}, MembersOf(g), {}, {Group(g), Open(g)})>>
            [] e.op = "addMember" -> <<MsJoin(e.user, g)>>
            [] e.op = "removeMember" ->
                 <<Write({Mapped(e.user), Group(g)}, {}, {}, {Right(e.user, g)})>>
            [] OTHER -> <<Reject>>

MssqlLoginPlan(t, e) ==
  CASE e.op = "create" -> MsCreate(t, e)
    [] e.op = "update" -> MsUpdate(t, e)
    [] e.op = "delete" -> MsDelete(t, e)
    [] e.op \in {"enable", "disable"} ->
         IF e.given = "no id" THEN <<Reject>> ELSE <<MsEnabled(e.user, e.op = "enable")>>
    [] e.op = "changePassword" -> MsPassword(e)
    [] e.op \in {"groupCreate", "groupUpdate", "groupDelete", "addMember", "removeMember"} ->
         MsGroup(t, e)
    [] e.op = "read" -> <<Read({}, {})>>
    [] OTHER -> <<Reject>>
=============================================================================

--------------------------- MODULE ZabbixConnector ---------------------------
(***************************************************************************)
(* ZabbixConnectorService: the JSON-RPC calls of execute for one event.    *)
(* There is no validation of ids outside the member operations: a call     *)
(* without one is the target's to refuse.                                  *)
(***************************************************************************)
EXTENDS TargetRequests

\* resolveAuth: an API token, or user.login at the start of every event.
ZabbixLogin(t) == IF t.session THEN <<Read({}, {})>> ELSE <<>>

\* group.addMember and removeMember: getGroupUsers, then usergroup.update with the
\* whole list.  The login precedes the check of the ids.  Of an unknown group
\* getGroupUsers returns no user, and the update is refused.
ZabbixMember(t, e) ==
  LET g == e.group
      right == {Right(e.user, g)}
  IN IF e.given = "no id" THEN ZabbixLogin(t) \o <<Reject>>
     ELSE ZabbixLogin(t) \o
       IF e.op = "addMember"
         THEN <<Read({}, MembersOf(g)), Put({Group(g), Account(e.user)}, MembersOf(g), right, {})>>
         ELSE <<Read({}, MembersOf(g)), Put({Group(g)}, MembersOf(g), {}, right)>>

\* buildZabbixCall: one call an operation.  A user is blocked by making
\* disableGroupId its only group, and unblocked by making enableGroupId that.  Data is
\* sent whole: the usrgrps in it replace the user's groups, the blocking one included,
\* and removeAttributes empties them, which Zabbix refuses.
ZabbixUser(e, add, del) == Write(Known(e, {Account(e.user)}), {}, add, del)
ZabbixCall(t, e) ==
  LET u == e.user
      g == e.group
  IN CASE e.op = "create" ->
            Write(Known(e, Required(e.rights)), {Account(u)},
                  {Account(u), Active(u), Attrs(u), Password(u)} \cup Joined(u, e.rights), {})
       [] e.op \in {"update", "addAttributes"} ->
            Write(Known(e, {Account(u)} \cup Required(e.rights)), {},
                  {Attrs(u)} \cup Joined(u, e.rights)
                    \cup (IF e.rights = <<>> THEN {} ELSE {Active(u)}),
                  Replaced(u, e.rights))
       [] e.op = "removeAttributes" ->
            Write(IF e.rights = <<>> THEN Known(e, {Account(u)}) ELSE Nobody, {}, {}, {Attrs(u)})
       [] e.op = "delete"  -> ZabbixUser(e, {}, UserFacts(u))
       [] e.op = "enable"  -> ZabbixUser(e, {Active(u)}, RightsOf(u))
       [] e.op = "disable" -> ZabbixUser(e, {}, {Active(u)} \cup RightsOf(u))
       [] e.op = "changePassword" ->
            Write(IF e.given = "all" THEN {Account(u)} ELSE Nobody, {}, {Password(u)}, {})
       [] e.op = "groupCreate" -> Write(Known(e, {}), {Group(g)}, {Group(g), Open(g)}, {})
       [] e.op = "groupUpdate" -> Write(Known(e, {Group(g)}), {}, {}, {})
       [] e.op = "groupDelete" -> Write(Known(e, {Group(g)}), {}, {}, GroupFacts(g))
       [] OTHER -> Read({}, {})

ZabbixPlan(t, e) ==
  IF e.op \in {"addMember", "removeMember"} THEN ZabbixMember(t, e)
  ELSE ZabbixLogin(t) \o <<ZabbixCall(t, e)>>
=============================================================================

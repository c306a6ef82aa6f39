-------------------------- MODULE PassworkConnector --------------------------
(***************************************************************************)
(* PassworkConnectorService: the requests of execute for one event.  The   *)
(* groups of a new user are resolved before it is created and joined       *)
(* afterwards, one request a group.                                        *)
(***************************************************************************)
EXTENDS TargetRequests

\* PASSWORK_UNSUPPORTED_OPERATIONS
PassworkUnsupported == {"changePassword", "addAttributes", "removeAttributes"}

\* resolveUserGroupMapping: by id the refs are used as they are, else one GET
\* /user-groups of 500 rows looks them all up.
PassworkGroups(t, e) == IF t.mapping THEN t.defaults \o e.rights ELSE <<>>
PassworkResolve(t, refs) ==
  IF refs = <<>> \/ ~t.byName THEN <<>> ELSE <<Read(Looked(refs), {})>>

\* applyUserGroupMapping
PassworkJoins(u, refs) ==
  [i \in 1 .. Len(refs) |-> Write({Account(u), Group(refs[i])}, {}, {Right(u, refs[i])}, {})]

\* An answer to the POST that has no id ends the run before the groups (see LosesAnswer).
PassworkCreate(t, e) ==
  LET u == e.user
      refs == PassworkGroups(t, e)
      post == Write(Known(e, {}), {Account(u)},
                    {Account(u), Active(u), Attrs(u), Password(u)}, {})
  IN IF Malformed \in Named(refs) THEN <<Reject>>
     ELSE PassworkResolve(t, refs) \o <<post>> \o PassworkJoins(u, refs)

\* buildRequest: every other operation is one request, sent when the id is there.
PassworkRequest(t, e) ==
  LET u == e.user
      g == e.group
  IN CASE e.op = "update"  -> Write({Account(u)}, {}, {Attrs(u)}, {})
       [] e.op = "delete"  -> Write({Account(u)}, {}, {}, UserFacts(u))
       [] e.op = "enable"  -> Write({Account(u)}, {}, {Active(u)}, {})
       [] e.op = "disable" -> Write({Account(u)}, {}, {}, {Active(u)})
       [] e.op = "addMember"    -> Write({Account(u), Group(g)}, {}, {Right(u, g)}, {})
       [] e.op = "removeMember" -> Write({Group(g)}, {}, {}, {Right(u, g)})
       [] e.op = "groupUpdate"  -> Write({Group(g)}, {}, {}, {})
       [] e.op = "groupDelete"  -> Write({Group(g)}, {}, {}, GroupFacts(g))
       [] OTHER -> Read({}, {})

PassworkPlan(t, e) ==
  LET g == e.group
  IN CASE e.op \in PassworkUnsupported -> <<Reject>>
       [] e.op = "create" -> PassworkCreate(t, e)
       [] e.op = "groupCreate" ->
            <<Write(Known(e, {}), {Group(g)}, {Group(g), Open(g)}, {})>>
       [] OTHER -> IF e.given = "no id" THEN <<Reject>> ELSE <<PassworkRequest(t, e)>>
=============================================================================

-------------------------- MODULE CmdbuildConnector --------------------------
(***************************************************************************)
(* CmdbuildConnectorService: the requests of execute for one event, over a *)
(* session that ConnectorRun keeps.  CMDBuild's PUT replaces a card, so    *)
(* every change of a user or a role reads the card and writes it back.     *)
(***************************************************************************)
EXTENDS TargetRequests

UserCard(u) == {Active(u), Attrs(u)} \cup RightsOf(u)
RoleCard(g) == {Open(g)}

\* Variant: the PUT carries only the patch.
PutPatch(needs, of, add, del) == <<Read(needs, {}), Write(needs, {}, add, of \ add)>>

\* putMerged, and the GET and PUT of updateUserRoleMembership.
PutMerged(needs, of, add, del) == <<Read(needs, of), Put(needs, of, add, del)>>

\* applyCmdbuildUserGroups: the incoming groups, the default ones when there are none.
CmdbuildGroups(t, e) == IF Asked(t, e) # <<>> THEN Asked(t, e) ELSE t.defaults

\* toCmdbuildUserGroups precedes the POST; resolveRoleNames asks for 500 roles, once.
CmdbuildCreate(t, e) ==
  LET u == e.user
      refs == CmdbuildGroups(t, e)
      resolve == IF refs = <<>> \/ ~t.byName THEN <<>> ELSE <<Read(Looked(refs), {})>>
      post == Write(Known(e, Required(refs)), {Account(u)},
                    ({Account(u), Active(u), Attrs(u), Password(u)} \ Off(e)) \cup Joined(u, refs), Off(e))
  IN IF Malformed \in Named(refs) THEN <<Reject>> ELSE resolve \o <<post>>

\* executeStatefulOperation for a user that exists: the id and the password are
\* checked before the card is read.  Data is merged into the card, its flag `active`
\* too; `groups` are no field of the card.
CmdbuildCard(u, add, del) == PutMerged({Account(u)}, UserCard(u), add, del)
CmdbuildUser(t, e) ==
  LET u == e.user
  IN IF e.given = "no id" \/ (e.op = "changePassword" /\ e.given # "all") THEN <<Reject>>
     ELSE CASE e.op \in {"update", "addAttributes"} -> CmdbuildCard(u, {Attrs(u)} \cup On(e), Off(e))
            [] e.op = "removeAttributes" -> CmdbuildCard(u, {}, {Attrs(u)})
            [] e.op = "enable" -> CmdbuildCard(u, {Active(u)}, {})
            [] e.op \in {"disable", "delete"} -> CmdbuildCard(u, {}, {Active(u)})
            [] OTHER -> CmdbuildCard(u, {Password(u)}, {})

\* updateUserRoleMembership: the role list of the user's card, changed by one.
CmdbuildMember(t, e) ==
  LET u == e.user
      right == {Right(u, e.group)}
      joins == e.op = "addMember"
  IN IF e.given = "no id" THEN <<Reject>>
     ELSE CmdbuildCard(u, IF joins THEN right ELSE {}, IF joins THEN {} ELSE right)

CmdbuildRole(t, e) ==
  LET g == e.group
  IN CASE e.op = "groupCreate" -> <<Write(Known(e, {}), {Group(g)}, {Group(g), Open(g)}, {})>>
       [] e.op = "groupDelete" /\ e.given # "no id" -> PutMerged({Group(g)}, RoleCard(g), {}, {Open(g)})
       [] e.op = "groupUpdate" /\ e.given # "no id" -> PutMerged({Group(g)}, RoleCard(g), {}, {})
       [] OTHER -> <<Reject>>

CmdbuildPlan(t, e) ==
  CASE e.op = "create" -> CmdbuildCreate(t, e)
    [] e.op \in {"update", "delete", "enable", "disable", "changePassword",
                 "addAttributes", "removeAttributes"} -> CmdbuildUser(t, e)
    [] e.op \in {"addMember", "removeMember"} -> CmdbuildMember(t, e)
    [] e.op \in {"groupCreate", "groupUpdate", "groupDelete"} -> CmdbuildRole(t, e)
    [] OTHER -> IF e.given = "no id" THEN <<Reject>> ELSE <<Read({}, {})>>
=============================================================================

---------------------------- MODULE MCConnectorRun ----------------------------
(***************************************************************************)
(* TLC instance of ConnectorRun: for every connector, pairs of events that *)
(* meet in one target system, on the accounts ann (exists), bob (does not) *)
(* and the operator's own.                                                 *)
(***************************************************************************)
EXTENDS ConnectorRun, TLC

CONSTANTS ann, bob, op, admins, users, far, w1, w2

Plain == [kind |-> "cmdbuild", physical |-> FALSE, dropRoles |-> FALSE, mapping |-> TRUE,
          byName |-> TRUE, session |-> TRUE, loginByDefault |-> TRUE, defaults |-> <<>>]

Ev(o, u) == [op |-> o, user |-> u, group |-> admins, rights |-> <<>>, permission |-> "none",
             enabled |-> "unset", given |-> "all"]

Create       == [Ev("create", bob) EXCEPT !.rights = <<users, admins>>]
CreateBare   == Ev("create", bob)
CreateBad    == [Ev("create", bob) EXCEPT !.rights = <<users, Malformed>>]
CreateLost   == [Ev("create", bob) EXCEPT !.rights = <<Missing>>]
CreateFar    == [Ev("create", bob) EXCEPT !.rights = <<far>>]
CreateSilent == [Ev("create", bob) EXCEPT !.given = "no password"]
CreateOff    == [Create EXCEPT !.permission = "grant", !.enabled = "off"]
CreateOn     == [CreateBare EXCEPT !.enabled = "on"]
Update       == [Ev("update", ann) EXCEPT !.rights = <<admins>>]
UpdateOff    == [Ev("update", ann) EXCEPT !.enabled = "off", !.permission = "grant"]
UpdateOn     == [Update EXCEPT !.enabled = "on"]
Lock         == [Ev("update", ann) EXCEPT !.enabled = "off"]
UpdateOut    == [Ev("update", ann) EXCEPT !.rights = <<admins>>, !.permission = "outside"]
Deny         == [Ev("update", ann) EXCEPT !.permission = "deny"]
Revoke       == [Ev("update", ann) EXCEPT !.permission = "revoke", !.enabled = "on"]
Enable       == Ev("enable", ann)
Disable      == Ev("disable", ann)
Delete       == Ev("delete", ann)
DeleteNoId   == [Delete EXCEPT !.given = "no id"]
ChangePassword    == Ev("changePassword", ann)
AddAttrs     == Ev("addAttributes", ann)
AddGroups    == [AddAttrs EXCEPT !.rights = <<admins>>]
DropAttrs    == Ev("removeAttributes", ann)
DropMore     == [DropAttrs EXCEPT !.rights = <<admins>>]
Join(u)      == Ev("addMember", u)
Leave(u)     == [Ev("removeMember", u) EXCEPT !.group = users]
NewGroup     == Ev("groupCreate", ann)
EditGroup    == Ev("groupUpdate", ann)
DropGroup    == Ev("groupDelete", ann)
Reset        == [ChangePassword EXCEPT !.given = "no password"]
MakeSilent   == [CreateBare EXCEPT !.given = "no password"]
Silent       == [Update EXCEPT !.given = "no password"]
Look         == Ev("read", ann)

Ann    == {Account(ann), Active(ann), Valid(ann), Password(ann), Mapped(ann), Right(ann, users)}
Normal == Ann \cup {Group(g) : g \in Groups} \cup {Open(g) : g \in Groups}
Locked == Normal \ {Active(ann), Valid(ann)}
Reserved == Normal \ {Password(ann)}                 \* its password was never set
Allowed  == Normal \cup {Permit(ann)}

At(t, s, e, f) == [target |-> t, store |-> s, job |-> (w1 :> e @@ w2 :> f)]
Pairs(t, s, pairs) == {At(t, s, p[1], p[2]) : p \in pairs}

Cmdbuild == Plain
Basic    == [Plain EXCEPT !.session = FALSE, !.byName = FALSE, !.defaults = <<users>>]
Sessionless == [Plain EXCEPT !.session = FALSE]
Zabbix   == [Plain EXCEPT !.kind = "zabbix"]
Token    == [Zabbix EXCEPT !.session = FALSE]
Passwork == [Plain EXCEPT !.kind = "passwork"]
ById     == [Passwork EXCEPT !.byName = FALSE, !.defaults = <<users>>]
Postgres == [Plain EXCEPT !.kind = "postgres"]
Drops    == [Postgres EXCEPT !.physical = TRUE, !.dropRoles = TRUE, !.loginByDefault = FALSE]
Mssql    == [Plain EXCEPT !.kind = "mssql"]
MsDrops  == [Mssql EXCEPT !.physical = TRUE, !.dropRoles = TRUE]
Ssh      == [Plain EXCEPT !.kind = "ssh"]
SshDrops == [Ssh EXCEPT !.physical = TRUE, !.defaults = <<users>>]
Agent    == [Plain EXCEPT !.kind = "agent"]
Unmapped(t) == [t EXCEPT !.mapping = FALSE]
Cloud    == [Plain EXCEPT !.kind = "consultant"]
NoLogin  == [Cloud EXCEPT !.session = FALSE]

MCDeployments ==
  Pairs(Cmdbuild, Normal, {<<Create, Join(ann)>>, <<Join(ann), Leave(ann)>>})
  \cup Pairs(Sessionless, Normal, {<<Disable, AddAttrs>>, <<DropGroup, CreateLost>>, <<CreateFar, Lock>>})
  \cup Pairs(Sessionless, Locked, {<<Enable, DropAttrs>>, <<UpdateOn, Update>>})
  \cup Pairs(Basic, Reserved, {<<Create, ChangePassword>>})
  \cup Pairs(Basic, Normal, {<<CreateBare, Update>>, <<Delete, DropAttrs>>,
                             <<CreateBad, DeleteNoId>>, <<NewGroup, EditGroup>>, <<Look, Join(bob)>>})
  \cup Pairs(Zabbix, Normal, {<<Join(ann), Leave(ann)>>, <<Join(bob), Create>>,
                              <<Join(ann), Disable>>, <<Join(ann), Update>>})
  \cup Pairs(Zabbix, Reserved, {<<Delete, ChangePassword>>})
  \cup Pairs(Token, Locked, {<<Enable, Join(ann)>>, <<Update, DropAttrs>>, <<AddGroups, DropMore>>,
                             <<DeleteNoId, DropGroup>>, <<NewGroup, EditGroup>>})
  \cup Pairs(Passwork, Normal, {<<Create, DropGroup>>, <<Create, CreateLost>>, <<Update, ChangePassword>>,
                                <<CreateFar, Update>>})
  \cup Pairs(ById, Normal, {<<Create, Disable>>, <<Join(ann), Leave(ann)>>, <<Delete, EditGroup>>,
                            <<CreateBad, Enable>>, <<CreateFar, Look>>})
  \cup Pairs(Postgres, Normal, {<<CreateOff, CreateBare>>, <<CreateBad, Disable>>,
                                <<UpdateOff, Delete>>, <<CreateLost, Join(bob)>>})
  \cup Pairs(Postgres, Reserved, {<<UpdateOut, ChangePassword>>})
  \cup Pairs(Postgres, Allowed, {<<Update, Revoke>>, <<Deny, Revoke>>})
  \cup Pairs(Drops, Normal, {<<Create, DropGroup>>, <<Update, Delete>>, <<UpdateOff, Delete>>,
                             <<Join(ann), Leave(ann)>>, <<NewGroup, CreateSilent>>, <<CreateOn, Lock>>})
  \cup Pairs(Mssql, Normal, {<<CreateOff, Create>>, <<CreateBad, Update>>, <<UpdateOut, Delete>>})
  \cup Pairs(Mssql, Reserved, {<<UpdateOff, ChangePassword>>})
  \cup Pairs(Mssql, Allowed, {<<Revoke, EditGroup>>, <<Deny, CreateOn>>})
  \cup Pairs(MsDrops, Normal, {<<Delete, Join(ann)>>, <<CreateSilent, DropGroup>>,
                               <<Leave(ann), DropGroup>>, <<Delete, NewGroup>>})
  \cup Pairs(Ssh, Normal, {<<CreateSilent, Update>>, <<Create, Disable>>, <<CreateBad, Disable>>})
  \cup Pairs(Ssh, Reserved, {<<Delete, ChangePassword>>, <<Enable, UpdateOn>>})
  \cup Pairs(Ssh, Locked, {<<Enable, ChangePassword>>, <<Look, Join(ann)>>})
  \cup Pairs(SshDrops, Normal, {<<Create, Delete>>, <<Update, CreateLost>>})
  \cup Pairs(Agent, Normal, {<<Create, Delete>>, <<Update, Disable>>})
  \cup Pairs(Agent, Locked, {<<UpdateOn, Lock>>})
  \cup Pairs(Agent, Reserved, {<<ChangePassword, Join(ann)>>, <<CreateOff, AddAttrs>>})
  \cup Pairs(Unmapped(Agent), Normal, {<<CreateLost, Create>>})
  \cup Pairs(Unmapped(Zabbix), Normal, {<<CreateLost, Create>>})
  \cup Pairs(Cloud, Normal, {<<MakeSilent, Disable>>, <<Create, Reset>>, <<Update, Enable>>,
                             <<[Delete EXCEPT !.user = op], Delete>>})
  \cup Pairs(Cloud, Reserved, {<<Reset, Silent>>})
  \cup Pairs(NoLogin, Normal, {<<Update, Look>>})
=============================================================================

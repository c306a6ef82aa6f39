---------------------------- MODULE TargetRequests ----------------------------
(***************************************************************************)
(* What the connectors of src/connectors/implementations have in common:   *)
(* the event they are handed and the requests, statements and commands     *)
(* they send.  The state of a target system is the set of facts that hold  *)
(* in it; a request names the facts it requires, adds and removes.         *)
(***************************************************************************)
EXTENDS Integers, Sequences

CONSTANTS Users, Groups,
          Missing,    \* a group reference no target system knows
          Malformed,  \* a group reference a connector's own validation rejects
          Unlisted,   \* groups beyond the 500 rows that a lookup by name asks for
          Operator    \* ConsultantPlus: the protected login the connector works under

Refs == Groups \cup {Missing, Malformed}

ASSUME RefsAssumption ==
  Missing \notin Groups /\ Malformed \notin Groups /\ Missing # Malformed /\ Unlisted \subseteq Groups

-----------------------------------------------------------------------------
(***************************************************************************)
(* Facts                                                                   *)
(***************************************************************************)
Account(u)  == <<"account", u>>
Active(u)   == <<"active", u>>       \* not blocked, not locked, may log in
Valid(u)    == <<"valid", u>>        \* Linux: the account has not expired
Attrs(u)    == <<"attributes", u>>   \* has the attributes the IDM last asked for, a password
                                      \* sent among the data of an update included
Password(u) == <<"password", u>>
Mapped(u)   == <<"mapped", u>>       \* MSSQL: the login has its database user
Permit(u)   == <<"permit", u>>       \* PostgreSQL, MSSQL: a granted permission
Right(u, g) == <<"right", u, g>>     \* u is a member of g
Group(g)    == <<"group", g>>
Open(g)     == <<"open", g>>         \* the group is active

RightsOf(u)   == {Right(u, g) : g \in Refs}
MembersOf(g)  == {Right(u, g) : u \in Users}
UserFacts(u)  == {Account(u), Active(u), Valid(u), Attrs(u), Password(u), Mapped(u),
                  Permit(u)} \cup RightsOf(u)
GroupFacts(g) == {Group(g), Open(g)} \cup MembersOf(g)
Facts         == (UNION {UserFacts(u) : u \in Users}) \cup (UNION {GroupFacts(g) : g \in Refs})

\* A target keeps no membership of an account or a group it does not have (MSSQL
\* keeps those of a database user whose login is gone).
Whole(s) == \A u \in Users, g \in Refs :
              Right(u, g) \in s => Group(g) \in s /\ {Account(u), Mapped(u)} \cap s # {}

-----------------------------------------------------------------------------
(***************************************************************************)
(* Events: operation, data and params of a ConnectorPayload                *)
(***************************************************************************)
Ops == {"create", "update", "delete", "enable", "disable", "changePassword",
        "addAttributes", "removeAttributes", "addMember", "removeMember",
        "groupCreate", "groupUpdate", "groupDelete", "read"}

Events == [op : Ops, user : Users, group : Refs, rights : Seq(Refs),
           permission : {"none", "grant", "revoke", "deny", "outside"},
           enabled : {"unset", "on", "off"},
           given : {"all", "no id", "no password"}]

Kinds == {"cmdbuild", "zabbix", "passwork", "postgres", "mssql", "ssh", "agent",
          "consultant"}

\* The fields of a target system's config that change what is sent.
Targets == [kind : Kinds, physical : BOOLEAN, dropRoles : BOOLEAN, mapping : BOOLEAN,
            byName : BOOLEAN, session : BOOLEAN, loginByDefault : BOOLEAN,
            defaults : Seq(Refs)]

\* The refs of the event that the target's group mapping lets through.
Asked(t, e) == IF t.mapping THEN e.rights ELSE <<>>
Named(refs) == {refs[i] : i \in DOMAIN refs}
\* The memberships those refs stand for, and the groups they require.
Joined(u, refs)  == {Right(u, g) : g \in Named(refs)}
Required(refs)   == {Group(g) : g \in Named(refs)}
\* What a list of groups that replaces the user's removes; no list replaces nothing.
Replaced(u, refs) == IF refs = <<>> THEN {} ELSE RightsOf(u) \ Joined(u, refs)

\* The operations whose data says what the account shall be.
Describing == {"create", "update", "addAttributes"}
On(e)  == IF e.enabled = "on" THEN {Active(e.user)} ELSE {}
Off(e) == IF e.enabled = "off" THEN {Active(e.user)} ELSE {}

-----------------------------------------------------------------------------
(***************************************************************************)
(* Requests                                                                *)
(***************************************************************************)
RequestsOn(F) == [kind : {"write", "read", "reject", "begin", "commit", "poll", "follow"},
                  needs : SUBSET Facts, absent : SUBSET Facts,
                  add : SUBSET F, del : SUBSET F, of : SUBSET Facts]

Bare(kind) == [kind |-> kind, needs |-> {}, absent |-> {}, add |-> {}, del |-> {}, of |-> {}]
Reject == Bare("reject")     \* the connector throws before it sends anything more
Begin  == Bare("begin")
Commit == Bare("commit")
Read(needs, of) == [Bare("read") EXCEPT !.needs = needs, !.of = of]
Write(needs, absent, add, del) ==
  [kind |-> "write", needs |-> needs, absent |-> absent, add |-> add, del |-> del, of |-> {}]
\* A write of everything an earlier Read saw of `of`, changed.
Put(needs, of, add, del) ==
  [kind |-> "write", needs |-> needs, absent |-> {}, add |-> add, del |-> del, of |-> of]

\* What no target has: the needs of a request that lacks an identifier or a value
\* the connector itself does not check for.
Nobody == {Group(Missing)}
Known(e, needs) == IF e.given = "no id" THEN Nobody ELSE needs
\* A lookup of groups by name, over the first 500 rows.
Looked(refs) == Required(refs) \cup IF Named(refs) \cap Unlisted = {} THEN {} ELSE Nobody

Effect(r, s, seen) == (((s \ r.of) \cup seen) \ r.del) \cup r.add
Stands(r, s, seen) ==
  /\ r.needs \subseteq s
  /\ r.absent \cap s = {}
  /\ r.kind = "write" => Whole(Effect(r, s, IF r.of = {} THEN {} ELSE seen))

-----------------------------------------------------------------------------
(***************************************************************************)
(* The reference: what an event names, whatever the connector.             *)
(***************************************************************************)
\* usermod -G, Zabbix's usrgrps and the agent's groups are the list of a user's groups.
ListsGroups == {"ssh", "agent", "zabbix"}
Listed(t, e) == IF t.kind = "ssh" THEN t.defaults \o e.rights ELSE e.rights

\* The facts an event may change.  Three targets stretch what an event names: Zabbix
\* expresses a blocked user by its groups, chpasswd unlocks the account, and the admupd
\* of ConsultantPlus is both an update and a password reset.
Names(t, e) ==
  LET u == e.user
      flags == On(e) \cup Off(e)
      listed == t.kind \in ListsGroups /\ Listed(t, e) # <<>>
      named == IF listed THEN RightsOf(u) ELSE Joined(u, e.rights)
      blocks == IF t.kind = "zabbix" THEN {Active(u)} ELSE {}
      both == IF t.kind = "consultant" THEN {Attrs(u), Password(u)} ELSE {}
  IN IF t.kind = "consultant" /\ u = Operator THEN {}
     ELSE CASE e.op \in {"create", "delete"} -> UserFacts(u)
            [] e.op \in {"update", "addAttributes"} ->
                 {Attrs(u), Permit(u)} \cup flags \cup named \cup both
                   \cup IF listed THEN blocks ELSE {}
            [] e.op \in {"enable", "disable"} ->
                 {Active(u), Valid(u)} \cup (IF t.kind = "zabbix" THEN RightsOf(u) ELSE {})
            [] e.op = "changePassword" ->
                 {Password(u)} \cup both \cup (IF t.kind = "ssh" THEN {Active(u)} ELSE {})
            [] e.op = "removeAttributes" -> {Attrs(u)}
            [] e.op \in {"addMember", "removeMember"} -> {Right(u, e.group)}
            [] e.op \in {"groupCreate", "groupUpdate", "groupDelete"} -> GroupFacts(e.group)
            [] OTHER -> {}
=============================================================================

-------------------------- MODULE ConnectorRunProofs --------------------------
(***************************************************************************)
(* Proofs about ConnectorRun, for any users, groups, workers and target    *)
(* systems.  First what the plans of the connectors are made of, one lemma *)
(* a connector, and the invariants that rest on it: types, sessions, what  *)
(* a run changes.  Then what each plan comes to when all of it has taken   *)
(* effect, again connector by connector, and from that what an answered    *)
(* success means and that an operation happens as a whole or not at all.   *)
(* Last the course each plan takes through a target nobody else changes,   *)
(* once more connector by connector, and from that why a run is refused.   *)
(***************************************************************************)
EXTENDS ConnectorRun, SequenceTheorems, TLAPS

\* Requests that write nothing back from an earlier read.
Direct(F) == {r \in RequestsOn(F) : r.kind = "write" => r.of = {}}

LEMMA FactSets ==
  /\ \A u \in Users : UserFacts(u) \subseteq Facts /\ RightsOf(u) \subseteq UserFacts(u)
                      /\ {Account(u), Active(u), Valid(u), Attrs(u), Password(u), Mapped(u),
                          Permit(u)} \subseteq UserFacts(u)
  /\ \A g \in Refs : GroupFacts(g) \subseteq Facts /\ MembersOf(g) \subseteq GroupFacts(g)
                     /\ {Group(g), Open(g)} \subseteq GroupFacts(g)
  /\ \A u \in Users, g \in Refs : Right(u, g) \in RightsOf(u) /\ Right(u, g) \in MembersOf(g)
<1>1. \A u \in Users : UserFacts(u) \subseteq Facts
  BY DEF Facts
<1>2. ASSUME NEW g \in Refs PROVE GroupFacts(g) \subseteq Facts
  <2>1. GroupFacts(g) \in {GroupFacts(h) : h \in Refs}
    OBVIOUS
  <2>2. UNION {GroupFacts(h) : h \in Refs} \subseteq Facts
    BY DEF Facts
  <2> QED BY <2>1, <2>2
<1>3. \A u \in Users : RightsOf(u) \subseteq UserFacts(u)
        /\ {Account(u), Active(u), Valid(u), Attrs(u), Password(u), Mapped(u),
            Permit(u)} \subseteq UserFacts(u)
  BY DEF UserFacts
<1>4. \A g \in Refs : MembersOf(g) \subseteq GroupFacts(g) /\ {Group(g), Open(g)} \subseteq GroupFacts(g)
  BY DEF GroupFacts
<1>5. \A u \in Users, g \in Refs : Right(u, g) \in RightsOf(u) /\ Right(u, g) \in MembersOf(g)
  BY DEF RightsOf, MembersOf
<1> QED BY <1>1, <1>2, <1>3, <1>4, <1>5

LEMMA NamesAreFacts ==
  ASSUME NEW t \in Targets, NEW e \in Events PROVE Names(t, e) \subseteq Facts
<1> e.user \in Users /\ e.group \in Refs /\ e.rights \in Seq(Refs)
  BY DEF Events
<1>1. Joined(e.user, e.rights) \subseteq RightsOf(e.user) /\ RightsOf(e.user) \subseteq Facts
  BY FactSets DEF Joined, Named
<1>2. {Active(e.user), Valid(e.user), Attrs(e.user), Password(e.user), Permit(e.user)} \subseteq Facts
  BY FactSets
<1>3. On(e) \subseteq Facts /\ Off(e) \subseteq Facts
  BY <1>2 DEF On, Off
<1>4. (e.op \in {"addMember", "removeMember"} => Right(e.user, e.group) \in Facts)
      /\ UserFacts(e.user) \subseteq Facts /\ GroupFacts(e.group) \subseteq Facts
  BY FactSets
<1>5. CASE e.op \in {"update", "addAttributes"}
  BY <1>1, <1>2, <1>3, <1>5 DEF Names
<1>6. CASE e.op \notin {"update", "addAttributes"}
  BY <1>1, <1>2, <1>4, <1>6 DEF Names
<1> QED BY <1>5, <1>6

LEMMA Refs1 ==
  ASSUME NEW u \in Users, NEW refs \in Seq(Refs)
  PROVE  Joined(u, refs) \subseteq RightsOf(u) /\ Required(refs) \subseteq Facts
         /\ Joined(u, refs) \subseteq Facts /\ Named(refs) \subseteq Refs
  BY FactSets DEF Joined, Required, Named

LEMMA ReplacedIn ==
  ASSUME NEW u \in Users, NEW refs PROVE Replaced(u, refs) \subseteq RightsOf(u)
  BY DEF Replaced

LEMMA LookedIn ==
  ASSUME NEW refs \in Seq(Refs) PROVE Looked(refs) \subseteq Facts
<1>1. Required(refs) \subseteq Facts /\ Nobody \subseteq Facts
  BY FactSets DEF Required, Named, Nobody, Refs
<1> QED BY <1>1 DEF Looked

LEMMA FlagsIn ==
  ASSUME NEW e PROVE On(e) \subseteq {Active(e.user)} /\ Off(e) \subseteq {Active(e.user)}
  BY DEF On, Off

LEMMA Bares ==
  ASSUME NEW F, NEW kind \in {"reject", "begin", "commit", "poll", "follow"}
  PROVE  Bare(kind) \in Direct(F)
  BY DEF Bare, Direct, RequestsOn

LEMMA Marks == ASSUME NEW F PROVE {Reject, Begin, Commit} \subseteq Direct(F)
  BY Bares DEF Reject, Begin, Commit

LEMMA ReadIn ==
  ASSUME NEW F, NEW needs, needs \subseteq Facts, NEW of, of \subseteq Facts
  PROVE  Read(needs, of) \in Direct(F)
  BY DEF Read, Bare, Direct, RequestsOn

LEMMA WriteIn ==
  ASSUME NEW F, NEW needs, needs \subseteq Facts, NEW absent, absent \subseteq Facts,
         NEW add, add \subseteq F, NEW del, del \subseteq F
  PROVE  Write(needs, absent, add, del) \in Direct(F)
  BY DEF Write, Direct, RequestsOn

LEMMA Nones == Nobody \subseteq Facts
  BY FactSets DEF Nobody, Refs

LEMMA Short ==
  ASSUME NEW S, NEW a \in S
  PROVE  <<>> \in Seq(S) /\ <<a>> \in Seq(S)
  OBVIOUS

LEMMA Pair ==
  ASSUME NEW S, NEW a \in S, NEW b \in S
  PROVE  <<a, b>> \in Seq(S)
  OBVIOUS

LEMMA Cat ==
  ASSUME NEW S, NEW a \in Seq(S), NEW b \in Seq(S) PROVE a \o b \in Seq(S)
  OBVIOUS

-----------------------------------------------------------------------------
(***************************************************************************)
(* PostgreSQL                                                              *)
(***************************************************************************)
LEMMA PgPieces ==
  ASSUME NEW F, NEW u \in Users, NEW refs \in Seq(Refs)
  PROVE  /\ \A g \in Refs : Right(u, g) \in F => PgGrant(u, g) \in Direct(F)
         /\ Joined(u, refs) \subseteq F => PgGrants(u, refs) \in Seq(Direct(F))
         /\ \A p \in {"none", "grant", "revoke", "deny", "outside"} :
              Permit(u) \in F => PgPermission(u, p) \in Seq(Direct(F))
         /\ \A on \in BOOLEAN : Active(u) \in F => PgLogin(u, on) \in Direct(F)
<1>1. ASSUME NEW g \in Refs, Right(u, g) \in F PROVE PgGrant(u, g) \in Direct(F)
  BY <1>1, FactSets, WriteIn DEF PgGrant
<1>2. ASSUME Joined(u, refs) \subseteq F PROVE PgGrants(u, refs) \in Seq(Direct(F))
  <2>1. ASSUME NEW i \in 1 .. Len(refs) PROVE PgGrant(u, refs[i]) \in Direct(F)
    BY <1>1, <1>2 DEF Joined, Named
  <2> QED BY <2>1, IsASeq DEF PgGrants
<1>3. ASSUME NEW p \in {"none", "grant", "revoke", "deny", "outside"}, Permit(u) \in F
      PROVE PgPermission(u, p) \in Seq(Direct(F))
  <2>1. Write({Account(u)}, {}, {Permit(u)}, {}) \in Direct(F)
    BY <1>3, FactSets, WriteIn
  <2>2. Write({Account(u)}, {}, {}, {Permit(u)}) \in Direct(F)
    BY <1>3, FactSets, WriteIn
  <2> QED BY <2>1, <2>2, Short DEF PgPermission
<1>4. ASSUME NEW on \in BOOLEAN, Active(u) \in F PROVE PgLogin(u, on) \in Direct(F)
  <2> DEFINE add == IF on THEN {Active(u)} ELSE {}
             del == IF on THEN {} ELSE {Active(u)}
  <2>1. add \subseteq F /\ del \subseteq F /\ {Account(u)} \subseteq Facts
    BY <1>4, FactSets
  <2> QED BY <2>1, WriteIn DEF PgLogin
<1> QED BY <1>1, <1>2, <1>3, <1>4

LEMMA PgPlans ==
  ASSUME NEW t \in Targets, NEW e \in Events, t.kind = "postgres"
  PROVE  PostgresRolePlan(t, e) \in Seq(Direct(Names(t, e)))
<1> DEFINE u == e.user
           D == Direct(Names(t, e))
<1>e. /\ u \in Users /\ e.group \in Refs /\ e.rights \in Seq(Refs) /\ e.op \in Ops
      /\ e.permission \in {"none", "grant", "revoke", "deny", "outside"}
  BY DEF Events
<1>t. Asked(t, e) \in Seq(Refs) /\ t.defaults \in Seq(Refs) /\ t.loginByDefault \in BOOLEAN
      /\ (Asked(t, e) = e.rights \/ Asked(t, e) = <<>>)
  BY <1>e DEF Asked, Targets
<1>d. t.defaults \o Asked(t, e) \in Seq(Refs)
  BY <1>t, Cat
<1>m. {Reject, Begin, Commit} \subseteq D /\ <<Reject>> \in Seq(D) /\ <<Begin>> \in Seq(D)
      /\ <<Commit>> \in Seq(D)
  BY Marks, Short
<1>1. CASE e.op = "create"
  <2>1. Names(t, e) = UserFacts(u)
    BY <1>1 DEF Names
  <2>2. PgCreateRole(t, u) \in D
    <3> DEFINE add == {Account(u), Password(u)} \cup IF t.loginByDefault THEN {Active(u)} ELSE {}
    <3>1. add \subseteq UserFacts(u) /\ {Account(u)} \subseteq Facts
      BY <1>e, FactSets
    <3> QED BY <3>1, <2>1, WriteIn DEF PgCreateRole
  <2>3. PgGrants(u, t.defaults \o Asked(t, e)) \in Seq(D)
    BY <1>e, <1>d, <2>1, FactSets, Refs1, PgPieces
  <2>4. PgPermission(u, e.permission) \in Seq(D)
    BY <1>e, <1>d, <2>1, FactSets, PgPieces
  <2>5. <<Begin, PgCreateRole(t, u)>> \in Seq(D)
    BY <1>m, <2>2, Pair
  <2>6. <<Begin, PgCreateRole(t, u)>> \o PgGrants(u, t.defaults \o Asked(t, e)) \in Seq(D)
    BY <2>3, <2>5, Cat
  <2>7. <<Begin, PgCreateRole(t, u)>> \o PgGrants(u, t.defaults \o Asked(t, e))
          \o PgPermission(u, e.permission) \in Seq(D)
    BY <2>4, <2>6, Cat
  <2>8. <<Begin, PgCreateRole(t, u)>> \o PgGrants(u, t.defaults \o Asked(t, e))
          \o PgPermission(u, e.permission) \o <<Commit>> \in Seq(D)
    BY <1>m, <2>7, Cat
  <2> QED BY <1>1, <1>m, <2>8 DEF PostgresRolePlan, PgCreate
<1>2. CASE e.op = "update"
  <2>1. Joined(u, Asked(t, e)) \subseteq Names(t, e) /\ Permit(u) \in Names(t, e)
        /\ (e.enabled # "unset" => Active(u) \in Names(t, e))
    <3>1. Names(t, e) = {Attrs(u), Permit(u)} \cup (On(e) \cup Off(e)) \cup Joined(u, e.rights)
      BY <1>2 DEF Names, ListsGroups
    <3>2. Joined(u, Asked(t, e)) \subseteq Joined(u, e.rights)
      BY <1>t DEF Joined, Named
    <3>3. e.enabled # "unset" => Active(u) \in On(e) \cup Off(e)
      BY DEF Events, On, Off
    <3> QED BY <3>1, <3>2, <3>3
  <2>2. PgGrants(u, Asked(t, e)) \in Seq(D) /\ PgPermission(u, e.permission) \in Seq(D)
    BY <1>e, <1>t, <2>1, PgPieces
  <2> DEFINE login == IF e.enabled = "unset" THEN <<>> ELSE <<PgLogin(u, e.enabled = "on")>>
  <2>3. login \in Seq(D)
    <3>1. CASE e.enabled = "unset"
      BY <3>1, <1>m, Short
    <3>2. CASE e.enabled # "unset"
      <4>1. PgLogin(u, e.enabled = "on") \in D
        BY <1>e, <1>t, <2>1, <3>2, PgPieces
      <4> QED BY <3>2, <4>1, Short
    <3> QED BY <3>1, <3>2
  <2> HIDE DEF login
  <2>4. <<Begin>> \o login \in Seq(D)
    BY <1>m, <2>3, Cat
  <2>5. <<Begin>> \o login \o PgGrants(u, Asked(t, e)) \in Seq(D)
    BY <2>2, <2>4, Cat
  <2>6. <<Begin>> \o login \o PgGrants(u, Asked(t, e)) \o PgPermission(u, e.permission) \in Seq(D)
    BY <2>2, <2>5, Cat
  <2>7. <<Begin>> \o login \o PgGrants(u, Asked(t, e)) \o PgPermission(u, e.permission)
          \o <<Commit>> \in Seq(D)
    BY <1>m, <2>6, Cat
  <2> QED BY <1>2, <1>m, <2>7 DEF PostgresRolePlan, PgUpdate, login
<1>3. CASE e.op = "delete"
  <2>1. Names(t, e) = UserFacts(u)
    BY <1>3 DEF Names
  <2>2. Write({Account(u)}, {Permit(u)}, {}, UserFacts(u)) \in D
    BY <1>e, <2>1, FactSets, WriteIn
  <2>3. PgLogin(u, FALSE) \in D
    BY <1>e, <1>t, <2>1, FactSets, PgPieces
  <2> QED BY <1>3, <1>m, <2>2, <2>3, Short DEF PostgresRolePlan, PgDelete
<1>4. CASE e.op \in {"enable", "disable"}
  <2>1. Active(u) \in Names(t, e)
    BY <1>4 DEF Names
  <2>2. PgLogin(u, e.op = "enable") \in D
    BY <1>e, <1>t, <2>1, PgPieces
  <2> QED BY <1>4, <1>m, <2>2, Short DEF PostgresRolePlan
<1>5. CASE e.op = "changePassword"
  <2>1. Password(u) \in Names(t, e)
    BY <1>5 DEF Names
  <2>2. Write({Account(u)}, {}, {Password(u)}, {}) \in D
    BY <1>e, <2>1, FactSets, WriteIn
  <2> QED BY <1>5, <1>m, <2>2, Short DEF PostgresRolePlan, PgPassword
<1>6. CASE e.op \in {"groupCreate", "groupDelete"}
  <2>1. Names(t, e) = GroupFacts(e.group)
    BY <1>6 DEF Names
  <2>2. /\ Write({}, {Group(e.group)}, {Group(e.group), Open(e.group)}, {}) \in D
        /\ Write({Group(e.group)}, {}, {}, GroupFacts(e.group)) \in D
    BY <1>e, <2>1, FactSets, WriteIn
  <2> QED BY <1>6, <1>m, <2>2, Short DEF PostgresRolePlan, PgGroup
<1>7. CASE e.op \in {"addMember", "removeMember"}
  <2>1. Names(t, e) = {Right(u, e.group)}
    BY <1>7 DEF Names
  <2>2. PgGrant(u, e.group) \in D
    BY <1>e, <1>t, <2>1, PgPieces
  <2>3. Write({Account(u), Group(e.group)}, {}, {}, {Right(u, e.group)}) \in D
    BY <1>e, <2>1, FactSets, WriteIn
  <2> QED BY <1>7, <1>m, <2>2, <2>3, Short DEF PostgresRolePlan, PgGroup
<1>8. Read({}, {}) \in D
  BY ReadIn
<1> QED BY <1>1, <1>2, <1>3, <1>4, <1>5, <1>6, <1>7, <1>8, <1>m, Short DEF PostgresRolePlan

-----------------------------------------------------------------------------
(***************************************************************************)
(* MSSQL                                                                   *)
(***************************************************************************)
LEMMA MsPieces ==
  ASSUME NEW F, NEW u \in Users, NEW refs \in Seq(Refs)
  PROVE  /\ \A g \in Refs : Right(u, g) \in F => MsJoin(u, g) \in Direct(F)
         /\ Joined(u, refs) \subseteq F => MsJoins(u, refs) \in Seq(Direct(F))
         /\ \A p \in {"none", "grant", "revoke", "deny", "outside"} :
              Permit(u) \in F => MsPermission(u, p) \in Seq(Direct(F))
         /\ \A on \in BOOLEAN : Active(u) \in F => MsEnabled(u, on) \in Direct(F)
<1>1. ASSUME NEW g \in Refs, Right(u, g) \in F PROVE MsJoin(u, g) \in Direct(F)
  BY <1>1, FactSets, WriteIn DEF MsJoin
<1>2. ASSUME Joined(u, refs) \subseteq F PROVE MsJoins(u, refs) \in Seq(Direct(F))
  <2>1. ASSUME NEW i \in 1 .. Len(refs) PROVE MsJoin(u, refs[i]) \in Direct(F)
    BY <1>1, <1>2 DEF Joined, Named
  <2>2. [i \in 1 .. Len(refs) |-> MsJoin(u, refs[i])] \in Seq(Direct(F))
    BY <2>1, IsASeq
  <2> QED BY <2>2, Marks, Short DEF MsJoins
<1>3. ASSUME NEW p \in {"none", "grant", "revoke", "deny", "outside"}, Permit(u) \in F
      PROVE MsPermission(u, p) \in Seq(Direct(F))
  <2>1. Write({Mapped(u)}, {}, {Permit(u)}, {}) \in Direct(F)
    BY <1>3, FactSets, WriteIn
  <2>2. Write({Mapped(u)}, {}, {}, {Permit(u)}) \in Direct(F)
    BY <1>3, FactSets, WriteIn
  <2> QED BY <2>1, <2>2, Marks, Short DEF MsPermission
<1>4. ASSUME NEW on \in BOOLEAN, Active(u) \in F PROVE MsEnabled(u, on) \in Direct(F)
  <2> DEFINE add == IF on THEN {Active(u)} ELSE {}
             del == IF on THEN {} ELSE {Active(u)}
  <2>1. add \subseteq F /\ del \subseteq F /\ {Account(u)} \subseteq Facts
    BY <1>4, FactSets
  <2> QED BY <2>1, WriteIn DEF MsEnabled
<1> QED BY <1>1, <1>2, <1>3, <1>4

LEMMA MsPlans ==
  ASSUME NEW t \in Targets, NEW e \in Events, t.kind = "mssql"
  PROVE  MssqlLoginPlan(t, e) \in Seq(Direct(Names(t, e)))
<1> DEFINE u == e.user
           g == e.group
           D == Direct(Names(t, e))
<1>e. /\ u \in Users /\ g \in Refs /\ e.rights \in Seq(Refs) /\ e.op \in Ops
      /\ e.permission \in {"none", "grant", "revoke", "deny", "outside"}
  BY DEF Events
<1>t. Asked(t, e) \in Seq(Refs) /\ t.defaults \in Seq(Refs)
      /\ (Asked(t, e) = e.rights \/ Asked(t, e) = <<>>)
  BY <1>e DEF Asked, Targets
<1>d. t.defaults \o Asked(t, e) \in Seq(Refs)
  BY <1>t, Cat
<1>m. Reject \in D /\ <<Reject>> \in Seq(D) /\ <<>> \in Seq(D)
  BY Marks, Short
<1>1. CASE e.op = "create"
  <2>1. Names(t, e) = UserFacts(u)
    BY <1>1 DEF Names
  <2>2. MsCreateLogin(u) \in D /\ MsCreateUser(u) \in D
    BY <1>e, <2>1, FactSets, WriteIn DEF MsCreateLogin, MsCreateUser
  <2>3. MsJoins(u, t.defaults \o Asked(t, e)) \in Seq(D) /\ MsPermission(u, e.permission) \in Seq(D)
    BY <1>e, <1>d, <2>1, FactSets, Refs1, MsPieces
  <2> DEFINE off == IF e.enabled = "off" THEN <<MsEnabled(u, FALSE)>> ELSE <<>>
  <2>4. MsEnabled(u, FALSE) \in D
    BY <1>e, <1>t, <2>1, FactSets, MsPieces
  <2>5. off \in Seq(D)
    BY <1>m, <2>4, Short
  <2> HIDE DEF off
  <2>6. <<MsCreateLogin(u), MsCreateUser(u)>> \in Seq(D)
    BY <2>2, Pair
  <2>7. <<MsCreateLogin(u), MsCreateUser(u)>> \o MsJoins(u, t.defaults \o Asked(t, e)) \in Seq(D)
    BY <2>3, <2>6, Cat
  <2>8. <<MsCreateLogin(u), MsCreateUser(u)>> \o MsJoins(u, t.defaults \o Asked(t, e))
          \o MsPermission(u, e.permission) \in Seq(D)
    BY <2>3, <2>7, Cat
  <2>9. <<MsCreateLogin(u), MsCreateUser(u)>> \o MsJoins(u, t.defaults \o Asked(t, e))
          \o MsPermission(u, e.permission) \o off \in Seq(D)
    BY <2>5, <2>8, Cat
  <2> QED BY <1>1, <1>m, <2>9 DEF MssqlLoginPlan, MsCreate, off
<1>2. CASE e.op = "update"
  <2>1. Joined(u, Asked(t, e)) \subseteq Names(t, e) /\ Permit(u) \in Names(t, e)
        /\ (e.enabled # "unset" => Active(u) \in Names(t, e))
    <3>1. Names(t, e) = {Attrs(u), Permit(u)} \cup (On(e) \cup Off(e)) \cup Joined(u, e.rights)
      BY <1>2 DEF Names, ListsGroups
    <3>2. Joined(u, Asked(t, e)) \subseteq Joined(u, e.rights)
      BY <1>t DEF Joined, Named
    <3>3. e.enabled # "unset" => Active(u) \in On(e) \cup Off(e)
      BY DEF Events, On, Off
    <3> QED BY <3>1, <3>2, <3>3
  <2>2. MsJoins(u, Asked(t, e)) \in Seq(D) /\ MsPermission(u, e.permission) \in Seq(D)
    BY <1>e, <1>t, <2>1, MsPieces
  <2> DEFINE flag == IF e.enabled = "unset" THEN <<>> ELSE <<MsEnabled(u, e.enabled = "on")>>
  <2>3. flag \in Seq(D)
    <3>1. CASE e.enabled = "unset"
      BY <3>1, <1>m
    <3>2. CASE e.enabled # "unset"
      <4>1. MsEnabled(u, e.enabled = "on") \in D
        BY <1>e, <1>t, <2>1, <3>2, MsPieces
      <4> QED BY <3>2, <4>1, Short
    <3> QED BY <3>1, <3>2
  <2> HIDE DEF flag
  <2>4. flag \o MsJoins(u, Asked(t, e)) \in Seq(D)
    BY <2>2, <2>3, Cat
  <2>5. flag \o MsJoins(u, Asked(t, e)) \o MsPermission(u, e.permission) \in Seq(D)
    BY <2>2, <2>4, Cat
  <2> QED BY <1>2, <1>m, <2>5 DEF MssqlLoginPlan, MsUpdate, flag
<1>3. CASE e.op = "delete"
  <2>1. Names(t, e) = UserFacts(u)
    BY <1>3 DEF Names
  <2>2. MsDropUser(u) \in D /\ MsDropLogin(u) \in D
    BY <1>e, <2>1, FactSets, WriteIn DEF MsDropUser, MsDropLogin
  <2>3. MsEnabled(u, FALSE) \in D
    BY <1>e, <1>t, <2>1, FactSets, MsPieces
  <2> QED BY <1>3, <1>m, <2>2, <2>3, Short, Pair DEF MssqlLoginPlan, MsDelete
<1>4. CASE e.op \in {"enable", "disable"}
  <2>1. Active(u) \in Names(t, e)
    BY <1>4 DEF Names
  <2>2. MsEnabled(u, e.op = "enable") \in D
    BY <1>e, <1>t, <2>1, MsPieces
  <2> QED BY <1>4, <1>m, <2>2, Short DEF MssqlLoginPlan
<1>5. CASE e.op = "changePassword"
  <2>1. Password(u) \in Names(t, e)
    BY <1>5 DEF Names
  <2>2. Write({Account(u)}, {}, {Password(u)}, {}) \in D
    BY <1>e, <2>1, FactSets, WriteIn
  <2> QED BY <1>5, <1>m, <2>2, Short DEF MssqlLoginPlan, MsPassword
<1>6. CASE e.op \in {"groupCreate", "groupUpdate", "groupDelete"}
  <2>1. Names(t, e) = GroupFacts(g)
    BY <1>6 DEF Names
  <2>2. MembersOf(g) \subseteq Facts
    BY <1>e, FactSets
  <2>3. /\ Write({}, {}, {Group(g), Open(g)}, {}) \in D
        /\ Write({}, MembersOf(g), {}, {Group(g), Open(g)}) \in D
    BY <1>e, <2>1, <2>2, FactSets, WriteIn
  <2> QED BY <1>6, <1>m, <2>3, Short DEF MssqlLoginPlan, MsGroup
<1>7. CASE e.op \in {"addMember", "removeMember"}
  <2>1. Names(t, e) = {Right(u, g)}
    BY <1>7 DEF Names
  <2>2. MsJoin(u, g) \in D
    BY <1>e, <1>t, <2>1, MsPieces
  <2>3. Write({Mapped(u), Group(g)}, {}, {}, {Right(u, g)}) \in D
    BY <1>e, <2>1, FactSets, WriteIn
  <2> QED BY <1>7, <1>m, <2>2, <2>3, Short DEF MssqlLoginPlan, MsGroup
<1>8. Read({}, {}) \in D
  BY ReadIn
<1> QED BY <1>1, <1>2, <1>3, <1>4, <1>5, <1>6, <1>7, <1>8, <1>m, Short DEF MssqlLoginPlan

-----------------------------------------------------------------------------
(***************************************************************************)
(* Passwork, Linux, ConsultantPlus                                         *)
(***************************************************************************)
LEMMA PassworkPlans ==
  ASSUME NEW t \in Targets, NEW e \in Events, t.kind = "passwork"
  PROVE  PassworkPlan(t, e) \in Seq(Direct(Names(t, e)))
<1> DEFINE u == e.user
           g == e.group
           D == Direct(Names(t, e))
           refs == PassworkGroups(t, e)
<1>e. u \in Users /\ g \in Refs /\ e.rights \in Seq(Refs) /\ t.defaults \in Seq(Refs)
  BY DEF Events, Targets
<1>d. refs \in Seq(Refs)
  BY <1>e, Cat, Short DEF PassworkGroups
<1> HIDE DEF refs
<1>m. Reject \in D /\ <<Reject>> \in Seq(D) /\ <<>> \in Seq(D) /\ Read({}, {}) \in D
  BY Marks, Short, ReadIn
<1>k. Known(e, {}) \subseteq Facts
  BY Nones DEF Known
<1>1. CASE e.op = "create"
  <2>1. Names(t, e) = UserFacts(u)
    BY <1>1 DEF Names
  <2>2. Read(Looked(refs), {}) \in D
    BY <1>d, LookedIn, ReadIn
  <2>3. PassworkResolve(t, refs) \in Seq(D)
    BY <1>m, <2>2, Short DEF PassworkResolve
  <2>4. Write(Known(e, {}), {Account(u)}, {Account(u), Active(u), Attrs(u), Password(u)}, {}) \in D
    BY <1>e, <1>k, <2>1, FactSets, WriteIn
  <2>5. PassworkJoins(u, refs) \in Seq(D)
    <3>1. ASSUME NEW i \in 1 .. Len(refs)
          PROVE  Write({Account(u), Group(refs[i])}, {}, {Right(u, refs[i])}, {}) \in D
      <4>1. refs[i] \in Refs
        BY <1>d
      <4>2. {Account(u), Group(refs[i])} \subseteq Facts /\ {Right(u, refs[i])} \subseteq UserFacts(u)
        BY <1>e, <4>1, FactSets
      <4> QED BY <2>1, <4>2, WriteIn
    <3> QED BY <1>d, <3>1, IsASeq DEF PassworkJoins
  <2>6. PassworkResolve(t, refs) \o
          <<Write(Known(e, {}), {Account(u)}, {Account(u), Active(u), Attrs(u), Password(u)}, {})>>
          \in Seq(D)
    BY <2>3, <2>4, Short, Cat
  <2>7. PassworkResolve(t, refs) \o
          <<Write(Known(e, {}), {Account(u)}, {Account(u), Active(u), Attrs(u), Password(u)}, {})>>
          \o PassworkJoins(u, refs) \in Seq(D)
    BY <2>5, <2>6, Cat
  <2>8. PassworkPlan(t, e) = PassworkCreate(t, e)
    BY <1>1 DEF PassworkPlan, PassworkUnsupported
  <2> QED BY <1>m, <2>7, <2>8 DEF PassworkCreate, refs
<1>2. CASE e.op = "groupCreate"
  <2>1. Write(Known(e, {}), {Group(g)}, {Group(g), Open(g)}, {}) \in D
    <3>1. Names(t, e) = GroupFacts(g)
      BY <1>2 DEF Names
    <3> QED BY <1>e, <1>k, <3>1, FactSets, WriteIn
  <2> QED BY <1>2, <2>1, Short DEF PassworkPlan, PassworkUnsupported
<1>3. CASE e.op \notin {"create", "groupCreate"} /\ e.op \notin PassworkUnsupported
  <2>f. {Account(u)} \subseteq Facts /\ {Group(g)} \subseteq Facts
        /\ {Account(u), Group(g)} \subseteq Facts
    BY <1>e, FactSets
  <2>1. CASE e.op = "update"
    <3>1. {Attrs(u)} \subseteq Names(t, e)
      BY <2>1 DEF Names
    <3> QED BY <1>3, <2>1, <1>m, <2>f, <3>1, WriteIn, Short DEF PassworkPlan, PassworkRequest
  <2>2. CASE e.op = "delete"
    <3>1. UserFacts(u) \subseteq Names(t, e)
      BY <2>2 DEF Names
    <3> QED BY <1>3, <2>2, <1>m, <2>f, <3>1, WriteIn, Short DEF PassworkPlan, PassworkRequest
  <2>3. CASE e.op \in {"enable", "disable"}
    <3>1. {Active(u)} \subseteq Names(t, e)
      BY <2>3 DEF Names
    <3> QED BY <1>3, <2>3, <1>m, <2>f, <3>1, WriteIn, Short DEF PassworkPlan, PassworkRequest
  <2>4. CASE e.op \in {"addMember", "removeMember"}
    <3>1. {Right(u, g)} \subseteq Names(t, e)
      BY <2>4 DEF Names
    <3> QED BY <1>3, <2>4, <1>m, <2>f, <3>1, WriteIn, Short DEF PassworkPlan, PassworkRequest
  <2>5. CASE e.op \in {"groupUpdate", "groupDelete"}
    <3>1. GroupFacts(g) \subseteq Names(t, e)
      BY <2>5 DEF Names
    <3> QED BY <1>3, <2>5, <1>m, <2>f, <3>1, WriteIn, Short DEF PassworkPlan, PassworkRequest
  <2>6. CASE e.op \notin {"update", "delete", "enable", "disable", "addMember", "removeMember",
                         "groupUpdate", "groupDelete"}
    BY <1>3, <2>6, <1>m, Short DEF PassworkPlan, PassworkRequest
  <2> QED BY <2>1, <2>2, <2>3, <2>4, <2>5, <2>6
<1>4. CASE e.op \in PassworkUnsupported
  BY <1>4, <1>m DEF PassworkPlan, PassworkUnsupported
<1> QED BY <1>1, <1>2, <1>3, <1>4

LEMMA SshPieces ==
  ASSUME NEW F, NEW u \in Users
  PROVE  /\ {Active(u), Valid(u)} \subseteq F =>
              SshEnable(u) \in Seq(Direct(F)) /\ SshDisable(u) \in Seq(Direct(F))
         /\ {Password(u), Active(u)} \subseteq F => Chpasswd(u) \in Seq(Direct(F))
<1>f. {Account(u)} \subseteq Facts /\ {Account(u), Password(u)} \subseteq Facts
  BY FactSets
<1>1. ASSUME {Active(u), Valid(u)} \subseteq F
      PROVE SshEnable(u) \in Seq(Direct(F)) /\ SshDisable(u) \in Seq(Direct(F))
  <2>1. /\ Write({Account(u), Password(u)}, {}, {Active(u), Valid(u)}, {}) \in Direct(F)
        /\ Write({Account(u)}, {}, {}, {Active(u), Valid(u)}) \in Direct(F)
    BY <1>1, <1>f, WriteIn
  <2> QED BY <2>1, Short DEF SshEnable, SshDisable
<1>2. ASSUME {Password(u), Active(u)} \subseteq F PROVE Chpasswd(u) \in Seq(Direct(F))
  <2>1. Write({Account(u)}, {}, {Password(u), Active(u)}, {}) \in Direct(F)
    BY <1>2, <1>f, WriteIn
  <2> QED BY <2>1, Short DEF Chpasswd
<1> QED BY <1>1, <1>2

LEMMA SshPlans ==
  ASSUME NEW t \in Targets, NEW e \in Events, t.kind = "ssh"
  PROVE  SshPlan(t, e) \in Seq(Direct(Names(t, e)))
<1> DEFINE u == e.user
           D == Direct(Names(t, e))
           refs == LinuxGroups(t, e)
<1>e. u \in Users /\ e.rights \in Seq(Refs) /\ t.defaults \in Seq(Refs)
  BY DEF Events, Targets
<1>d. refs \in Seq(Refs)
  BY <1>e, Cat DEF LinuxGroups
<1> HIDE DEF refs
<1>r. Joined(u, refs) \subseteq RightsOf(u) /\ Required(refs) \subseteq Facts
  BY <1>d, <1>e, Refs1
<1>m. Reject \in D /\ <<Reject>> \in Seq(D) /\ Read({}, {}) \in D
  BY Marks, Short, ReadIn
<1>f. {Account(u)} \subseteq Facts /\ {Account(u)} \cup Required(refs) \subseteq Facts
  BY <1>e, <1>r, FactSets
<1>1. CASE e.op = "create"
  <2>1. Names(t, e) = UserFacts(u)
    BY <1>1 DEF Names
  <2> DEFINE useradd == Write(Required(refs), {Account(u)},
                              {Account(u), Valid(u), Attrs(u)} \cup Joined(u, refs), {})
             rest == IF e.given = "no password" THEN <<Reject>> ELSE Chpasswd(u)
  <2>2. useradd \in D
    <3>1. {Account(u), Valid(u), Attrs(u)} \cup Joined(u, refs) \subseteq UserFacts(u)
      BY <1>e, <1>r, FactSets
    <3> QED BY <1>f, <1>r, <2>1, <3>1, WriteIn
  <2>3. rest \in Seq(D)
    BY <1>e, <1>m, <2>1, FactSets, SshPieces
  <2> HIDE DEF useradd, rest
  <2>4. <<useradd>> \o rest \in Seq(D)
    BY <2>2, <2>3, Short, Cat
  <2> QED BY <1>1, <1>m, <2>4 DEF SshPlan, SshCreate, useradd, rest, refs
<1>2. CASE e.op = "update"
  <2>1. {Attrs(u)} \subseteq Names(t, e) /\ (refs # <<>> => RightsOf(u) \subseteq Names(t, e))
    BY <1>2 DEF Names, Listed, ListsGroups, LinuxGroups, refs
  <2> DEFINE add == {Attrs(u)} \cup Joined(u, refs)
             del == Replaced(u, refs)
  <2>2. add \subseteq Names(t, e) /\ del \subseteq Names(t, e)
    <3>1. CASE refs = <<>>
      BY <3>1, <2>1 DEF Replaced, Joined, Named
    <3>2. CASE refs # <<>>
      BY <3>2, <1>r, <2>1 DEF Replaced
    <3> QED BY <3>1, <3>2
  <2> HIDE DEF add, del
  <2>3. Write({Account(u)} \cup Required(refs), {}, add, del) \in D
    BY <1>f, <2>2, WriteIn
  <2> QED BY <1>2, <1>m, <2>3, Short DEF SshPlan, SshUpdate, add, del, refs
<1>3. CASE e.op = "delete"
  <2>1. Names(t, e) = UserFacts(u)
    BY <1>3 DEF Names
  <2>2. Write({Account(u)}, {}, {}, UserFacts(u)) \in D /\ SshDisable(u) \in Seq(D)
    BY <1>e, <1>f, <2>1, FactSets, WriteIn, SshPieces
  <2> QED BY <1>3, <1>m, <2>2, Short DEF SshPlan
<1>4. CASE e.op \in {"enable", "disable"}
  <2>1. {Active(u), Valid(u)} \subseteq Names(t, e)
    BY <1>4 DEF Names
  <2> QED BY <1>4, <1>e, <1>m, <2>1, SshPieces DEF SshPlan
<1>5. CASE e.op = "changePassword"
  <2>1. {Password(u), Active(u)} \subseteq Names(t, e)
    BY <1>5 DEF Names
  <2> QED BY <1>5, <1>e, <1>m, <2>1, SshPieces DEF SshPlan
<1>6. CASE e.op \notin {"create", "update", "delete", "enable", "disable", "changePassword"}
  BY <1>6, <1>m, Short DEF SshPlan
<1> QED BY <1>1, <1>2, <1>3, <1>4, <1>5, <1>6

LEMMA AgentPlans ==
  ASSUME NEW t \in Targets, NEW e \in Events, t.kind = "agent"
  PROVE  AgentPlan(t, e) \in Seq(Direct(Names(t, e)))
<1> DEFINE u == e.user
           D == Direct(Names(t, e))
<1>e. u \in Users /\ e.rights \in Seq(Refs)
  BY DEF Events
<1>f. {Account(u)} \subseteq Facts /\ Joined(u, e.rights) \subseteq RightsOf(u)
      /\ Required(e.rights) \subseteq Facts
  BY <1>e, FactSets, Refs1
<1>w. ASSUME NEW add, add \subseteq Names(t, e), NEW del, del \subseteq Names(t, e)
      PROVE  AgentUser(u, add, del) \in D
  BY <1>f, <1>w, WriteIn DEF AgentUser
<1>7. AgentRequest(t, e) \in D
  <2>1. CASE e.op = "create"
    <3>1. Names(t, e) = UserFacts(u)
      BY <2>1 DEF Names
    <3>2. ({Account(u), Active(u), Attrs(u), Password(u)} \ Off(e)) \cup Joined(u, e.rights)
            \subseteq UserFacts(u) /\ Off(e) \subseteq UserFacts(u)
      BY <1>e, <1>f, FactSets, FlagsIn
    <3>3. Write(Required(e.rights), {Account(u)},
                ({Account(u), Active(u), Attrs(u), Password(u)} \ Off(e)) \cup Joined(u, e.rights),
                Off(e)) \in D
      BY <1>f, <3>1, <3>2, WriteIn
    <3> QED BY <2>1, <3>3 DEF AgentRequest
  <2>2. CASE e.op = "update"
    <3> DEFINE add == {Attrs(u)} \cup On(e) \cup Joined(u, e.rights)
               del == Off(e) \cup Replaced(u, e.rights)
    <3>1. /\ {Attrs(u)} \cup On(e) \cup Off(e) \subseteq Names(t, e)
          /\ e.rights # <<>> => RightsOf(u) \subseteq Names(t, e)
      BY <2>2 DEF Names, Listed, ListsGroups
    <3>2. add \subseteq Names(t, e) /\ del \subseteq Names(t, e)
      <4>1. CASE e.rights = <<>>
        BY <4>1, <3>1 DEF Replaced, Joined, Named
      <4>2. CASE e.rights # <<>>
        BY <4>2, <1>f, <3>1 DEF Replaced
      <4> QED BY <4>1, <4>2
    <3> HIDE DEF add, del
    <3>3. {Account(u)} \cup Required(e.rights) \subseteq Facts
      BY <1>f
    <3>4. Write({Account(u)} \cup Required(e.rights), {}, add, del) \in D
      BY <3>2, <3>3, WriteIn
    <3> QED BY <2>2, <3>4 DEF AgentRequest, add, del
  <2>3. CASE e.op = "delete"
    <3>1. Names(t, e) = UserFacts(u)
      BY <2>3 DEF Names
    <3> DEFINE del == IF t.physical THEN UserFacts(u) ELSE {Active(u)}
    <3>2. del \subseteq Names(t, e)
      BY <1>e, <3>1, FactSets
    <3> HIDE DEF del
    <3>3. AgentUser(u, {}, del) \in D
      BY <3>2, <1>w
    <3> QED BY <2>3, <3>3 DEF AgentRequest, del
  <2>4. CASE e.op \in {"enable", "disable"}
    <3>1. {Active(u)} \subseteq Names(t, e)
      BY <2>4 DEF Names
    <3> QED BY <2>4, <3>1, <1>w DEF AgentRequest
  <2>5. CASE e.op = "changePassword"
    <3>1. {Password(u)} \subseteq Names(t, e)
      BY <2>5 DEF Names
    <3> QED BY <2>5, <3>1, <1>w DEF AgentRequest
  <2>6. CASE e.op \notin {"create", "update", "delete", "enable", "disable", "changePassword"}
    BY <2>6, ReadIn DEF AgentRequest
  <2> QED BY <2>1, <2>2, <2>3, <2>4, <2>5, <2>6
<1> QED BY <1>7, Marks, Short DEF AgentPlan

LEMMA ConsultantPlans ==
  ASSUME NEW t \in Targets, NEW e \in Events, t.kind = "consultant"
  PROVE  ConsultantPlan(t, e) \in Seq(Direct(Names(t, e)))
<1> DEFINE u == e.user
           D == Direct(Names(t, e))
<1>e. u \in Users
  BY DEF Events
<1>m. Reject \in D /\ Read({}, {}) \in D /\ Bare("poll") \in D /\ Bare("follow") \in D
  BY Marks, ReadIn, Bares
<1>f. {Account(u)} \subseteq Facts
  BY <1>e, FactSets
<1>1. ConsultantLogin(t) \in Seq(D)
  <2>1. [i \in 1 .. PollAttempts + 1 |-> Bare("poll")] \in Seq(D)
    BY <1>m, PollAssumption, IsASeq
  <2>2. [i \in 1 .. PollAttempts + 1 |-> Bare("poll")] \o <<Bare("follow")>> \in Seq(D)
    BY <1>m, <2>1, Short, Cat
  <2> QED BY <1>m, <2>2, Short, Cat DEF ConsultantLogin
<1>2. ASSUME e.op \in ConsultantOps, u # Operator PROVE ConsultantCall(e) \in D
  <2>1. CASE e.op = "create"
    <3>1. Names(t, e) = UserFacts(u)
      BY <1>2, <2>1 DEF Names
    <3> QED BY <2>1, <1>e, <1>f, <3>1, FactSets, WriteIn DEF ConsultantCall
  <2>2. CASE e.op = "update"
    <3>1. {Attrs(u), Password(u)} \subseteq Names(t, e)
      BY <1>2, <2>2 DEF Names
    <3> QED BY <2>2, <1>f, <3>1, WriteIn DEF ConsultantCall
  <2>3. CASE e.op = "delete"
    <3>1. Names(t, e) = UserFacts(u)
      BY <1>2, <2>3 DEF Names
    <3> QED BY <2>3, <1>f, <3>1, WriteIn DEF ConsultantCall
  <2>4. CASE e.op = "disable"
    <3>1. {Active(u)} \subseteq Names(t, e)
      BY <1>2, <2>4 DEF Names
    <3> QED BY <2>4, <1>f, <3>1, WriteIn DEF ConsultantCall
  <2>5. CASE e.op = "changePassword"
    <3>1. {Attrs(u), Password(u)} \subseteq Names(t, e)
      BY <1>2, <2>5 DEF Names
    <3> QED BY <2>5, <1>f, <3>1, WriteIn DEF ConsultantCall
  <2> QED BY <1>2, <2>1, <2>2, <2>3, <2>4, <2>5 DEF ConsultantOps
<1>3. CASE e.op \in ConsultantOps /\ ~ConsultantInvalid(e)
  <2>1. ConsultantCall(e) \in D
    BY <1>2, <1>3 DEF ConsultantInvalid
  <2>2. e.op # "read"
    BY <1>3 DEF ConsultantOps
  <2>3. ConsultantLogin(t) \o <<ConsultantCall(e)>> \in Seq(D)
    BY <1>1, <2>1, Short, Cat
  <2> QED BY <1>3, <2>2, <2>3 DEF ConsultantPlan
<1>4. CASE ~(e.op \in ConsultantOps /\ ~ConsultantInvalid(e))
  BY <1>4, <1>m, Short DEF ConsultantPlan
<1> QED BY <1>3, <1>4

-----------------------------------------------------------------------------
(***************************************************************************)
(* CMDBuild and Zabbix write back what they read                           *)
(***************************************************************************)
\* Plans in which a write of what was read comes right after that read, and last.
Rewrites(F) ==
  {p \in Seq(RequestsOn(F)) :
     \A i \in DOMAIN p :
       /\ p[i].kind # "poll" /\ (p[i].kind = "write" => i = Len(p))
       /\ p[i].kind = "write" /\ p[i].of # {} =>
            i > 1 /\ p[i - 1].kind = "read" /\ p[i - 1].of = p[i].of}

LEMMA RewriteOf ==
  ASSUME NEW F, NEW needs, needs \subseteq Facts, NEW more, more \subseteq Facts,
         NEW of, of \subseteq Facts, NEW add, add \subseteq F, NEW del, del \subseteq F
  PROVE  /\ <<Read(needs, of), Put(more, of, add, del)>> \in Rewrites(F)
         /\ <<Read({}, {}), Read(needs, of), Put(more, of, add, del)>> \in Rewrites(F)
<1> DEFINE r == Read(needs, of)
           q == Put(more, of, add, del)
           o == Read({}, {})
<1>1. r \in RequestsOn(F) /\ r.kind = "read" /\ r.of = of
  BY DEF Read, Bare, RequestsOn
<1>2. q \in RequestsOn(F) /\ q.kind = "write" /\ q.of = of
  BY DEF Put, RequestsOn
<1>3. o \in RequestsOn(F) /\ o.kind = "read" /\ o.of = {}
  BY DEF Read, Bare, RequestsOn
<1> HIDE DEF r, q, o
<1>4. <<r, q>> \in Rewrites(F)
  BY <1>1, <1>2 DEF Rewrites
<1>5. <<o, r, q>> \in Rewrites(F)
  BY <1>1, <1>2, <1>3 DEF Rewrites
<1> QED BY <1>4, <1>5 DEF r, q, o

LEMMA CardSets ==
  /\ \A u \in Users : UserCard(u) \subseteq Facts
  /\ \A g \in Refs : RoleCard(g) \subseteq Facts
BY FactSets DEF UserCard, RoleCard

LEMMA KnownIn ==
  ASSUME NEW e, NEW needs, needs \subseteq Facts PROVE Known(e, needs) \subseteq Facts
  BY Nones DEF Known

LEMMA CmdbuildPlans ==
  ASSUME NEW t \in Targets, NEW e \in Events, t.kind = "cmdbuild"
  PROVE  CmdbuildPlan(t, e) \in Seq(Direct(Names(t, e))) \cup Rewrites(Names(t, e))
<1> DEFINE u == e.user
           g == e.group
           F == Names(t, e)
           D == Direct(F)
<1>e. u \in Users /\ g \in Refs /\ e.rights \in Seq(Refs) /\ t.defaults \in Seq(Refs)
  BY DEF Events, Targets
<1>m. Reject \in D /\ <<Reject>> \in Seq(D) /\ <<>> \in Seq(D) /\ Read({}, {}) \in D
  BY Marks, Short, ReadIn
<1>f. {Account(u)} \subseteq Facts /\ {Group(g)} \subseteq Facts
  BY <1>e, FactSets
<1>c. ASSUME NEW add, add \subseteq F, NEW del, del \subseteq F
      PROVE  CmdbuildCard(u, add, del) \in Rewrites(F)
  BY <1>c, <1>e, <1>f, CardSets, RewriteOf DEF CmdbuildCard, PutMerged
<1>1. CASE e.op = "create"
  <2> DEFINE refs == CmdbuildGroups(t, e)
             resolve == IF refs = <<>> \/ ~t.byName THEN <<>> ELSE <<Read(Looked(refs), {})>>
             post == Write(Known(e, Required(refs)), {Account(u)},
                           ({Account(u), Active(u), Attrs(u), Password(u)} \ Off(e)) \cup Joined(u, refs), Off(e))
  <2>1. F = UserFacts(u)
    BY <1>1 DEF Names
  <2>2. refs \in Seq(Refs)
    BY <1>e DEF CmdbuildGroups, Asked
  <2> HIDE DEF refs
  <2>3. Joined(u, refs) \subseteq RightsOf(u) /\ Required(refs) \subseteq Facts
    BY <1>e, <2>2, Refs1
  <2>4. post \in D
    <3>1. ({Account(u), Active(u), Attrs(u), Password(u)} \ Off(e)) \cup Joined(u, refs)
            \subseteq UserFacts(u) /\ Off(e) \subseteq UserFacts(u)
      BY <1>e, <2>3, FactSets, FlagsIn
    <3>2. Known(e, Required(refs)) \subseteq Facts
      BY <2>3, KnownIn
    <3> QED BY <1>f, <2>1, <3>1, <3>2, WriteIn
  <2>5. resolve \in Seq(D)
    <3>1. Read(Looked(refs), {}) \in D
      BY <2>2, LookedIn, ReadIn
    <3> QED BY <1>m, <3>1, Short
  <2> HIDE DEF resolve, post
  <2>6. resolve \o <<post>> \in Seq(D)
    BY <2>4, <2>5, Short, Cat
  <2> QED BY <1>1, <1>m, <2>6 DEF CmdbuildPlan, CmdbuildCreate, refs, resolve, post
<1>2. CASE e.op \in {"update", "addAttributes", "removeAttributes"}
  <2> DEFINE add == {Attrs(u)} \cup On(e)
  <2>1. CASE e.op = "removeAttributes"
    <3>1. {Attrs(u)} \subseteq F
      BY <2>1 DEF Names
    <3>2. CmdbuildCard(u, {}, {Attrs(u)}) \in Rewrites(F)
      BY <3>1, <1>c
    <3> QED BY <2>1, <1>m, <3>2 DEF CmdbuildPlan, CmdbuildUser
  <2>2. CASE e.op # "removeAttributes"
    <3>1. add \subseteq F /\ Off(e) \subseteq F
      BY <1>2, <2>2 DEF Names
    <3> HIDE DEF add
    <3>2. CmdbuildCard(u, add, Off(e)) \in Rewrites(F)
      BY <3>1, <1>c
    <3> QED BY <1>2, <2>2, <1>m, <3>2 DEF CmdbuildPlan, CmdbuildUser, add
  <2> QED BY <2>1, <2>2
<1>3. CASE e.op \in {"enable", "disable", "delete"}
  <2>1. {Active(u)} \subseteq F
    BY <1>3, <1>e, FactSets DEF Names
  <2>2. CmdbuildCard(u, {Active(u)}, {}) \in Rewrites(F) /\ CmdbuildCard(u, {}, {Active(u)}) \in Rewrites(F)
    BY <2>1, <1>c
  <2> QED BY <1>3, <1>m, <2>2 DEF CmdbuildPlan, CmdbuildUser
<1>4. CASE e.op = "changePassword"
  <2>1. {Password(u)} \subseteq F
    BY <1>4 DEF Names
  <2>2. CmdbuildCard(u, {Password(u)}, {}) \in Rewrites(F)
    BY <2>1, <1>c
  <2> QED BY <1>4, <1>m, <2>2 DEF CmdbuildPlan, CmdbuildUser
<1>5. CASE e.op \in {"addMember", "removeMember"}
  <2>1. F = {Right(u, g)}
    BY <1>5 DEF Names
  <2>2. /\ CmdbuildCard(u, {Right(u, g)}, {}) \in Rewrites(F)
        /\ CmdbuildCard(u, {}, {Right(u, g)}) \in Rewrites(F)
    BY <2>1, <1>c
  <2> QED BY <1>5, <1>m, <2>2 DEF CmdbuildPlan, CmdbuildMember
<1>6. CASE e.op \in {"groupCreate", "groupUpdate", "groupDelete"}
  <2>1. F = GroupFacts(g)
    BY <1>6 DEF Names
  <2>2. Write(Known(e, {}), {Group(g)}, {Group(g), Open(g)}, {}) \in D
    <3>1. Known(e, {}) \subseteq Facts
      BY KnownIn
    <3> QED BY <1>e, <1>f, <2>1, <3>1, FactSets, WriteIn
  <2>3. PutMerged({Group(g)}, RoleCard(g), {}, {Open(g)}) \in Rewrites(F)
        /\ PutMerged({Group(g)}, RoleCard(g), {}, {}) \in Rewrites(F)
    <3>1. {Open(g)} \subseteq F
      BY <1>e, <2>1, FactSets
    <3> QED BY <1>e, <1>f, <3>1, CardSets, RewriteOf DEF PutMerged
  <2> QED BY <1>6, <1>m, <2>2, <2>3, Short DEF CmdbuildPlan, CmdbuildRole
<1>7. CASE e.op \notin {"create", "update", "delete", "enable", "disable", "changePassword",
                       "addAttributes", "removeAttributes", "addMember", "removeMember",
                       "groupCreate", "groupUpdate", "groupDelete"}
  BY <1>7, <1>m, Short DEF CmdbuildPlan
<1> QED BY <1>1, <1>2, <1>3, <1>4, <1>5, <1>6, <1>7

LEMMA Prefixed ==
  ASSUME NEW S, NEW a \in S, NEW b \in S, NEW c \in S
  PROVE  <<>> \o <<b, c>> = <<b, c>> /\ <<a>> \o <<b, c>> = <<a, b, c>>
<1>1. <<b, c>> \in Seq(S) /\ <<a>> \in Seq(S) /\ <<a, b, c>> \in Seq(S)
  OBVIOUS
<1>2. <<a>> \o <<b, c>> \in Seq(S) /\ <<>> \o <<b, c>> \in Seq(S)
  BY <1>1, Cat
<1>3. <<>> \o <<b, c>> = <<b, c>>
  BY <1>1, ConcatEmptySeq
<1>4. Len(<<a>> \o <<b, c>>) = Len(<<a, b, c>>)
      /\ \A i \in 1 .. Len(<<a>> \o <<b, c>>) : (<<a>> \o <<b, c>>)[i] = <<a, b, c>>[i]
  BY <1>1
<1> QED BY <1>1, <1>2, <1>3, <1>4, SeqEqual

LEMMA ZabbixPlans ==
  ASSUME NEW t \in Targets, NEW e \in Events, t.kind = "zabbix"
  PROVE  ZabbixPlan(t, e) \in Seq(Direct(Names(t, e))) \cup Rewrites(Names(t, e))
<1> DEFINE u == e.user
           g == e.group
           F == Names(t, e)
           D == Direct(F)
<1>e. u \in Users /\ g \in Refs /\ e.rights \in Seq(Refs)
  BY DEF Events
<1>m. Reject \in D /\ <<Reject>> \in Seq(D) /\ <<>> \in Seq(D) /\ Read({}, {}) \in D
  BY Marks, Short, ReadIn
<1>f. {Account(u)} \subseteq Facts /\ {Group(g)} \subseteq Facts /\ MembersOf(g) \subseteq Facts
      /\ {Group(g), Account(u)} \subseteq Facts
  BY <1>e, FactSets
<1>l. ZabbixLogin(t) \in Seq(D) /\ ZabbixLogin(t) \in {<<>>, <<Read({}, {})>>}
  BY <1>m, Short DEF ZabbixLogin
<1>1. CASE e.op \in {"addMember", "removeMember"}
  <2> DEFINE right == {Right(u, g)}
             r == Read({}, MembersOf(g))
             p == Put({Group(g), Account(u)}, MembersOf(g), right, {})
             q == Put({Group(g)}, MembersOf(g), {}, right)
  <2>1. right \subseteq F
    BY <1>1 DEF Names
  <2>2. <<r, p>> \in Rewrites(F) /\ <<Read({}, {}), r, p>> \in Rewrites(F)
        /\ <<r, q>> \in Rewrites(F) /\ <<Read({}, {}), r, q>> \in Rewrites(F)
    BY <1>f, <2>1, RewriteOf
  <2>0. /\ r \in RequestsOn(F) /\ p \in RequestsOn(F) /\ q \in RequestsOn(F)
        /\ Read({}, {}) \in RequestsOn(F)
    BY <1>f, <2>1 DEF Read, Bare, Put, RequestsOn
  <2> HIDE DEF r, p, q
  <2>3. ZabbixLogin(t) \o <<r, p>> \in {<<r, p>>, <<Read({}, {}), r, p>>}
        /\ ZabbixLogin(t) \o <<r, q>> \in {<<r, q>>, <<Read({}, {}), r, q>>}
    <3> DEFINE L == ZabbixLogin(t)
               a == Read({}, {})
    <3>1. L = <<>> \/ L = <<a>>
      BY <1>l
    <3>2. <<>> \o <<r, p>> = <<r, p>> /\ <<a>> \o <<r, p>> = <<a, r, p>>
      BY <2>0, Prefixed
    <3>3. <<>> \o <<r, q>> = <<r, q>> /\ <<a>> \o <<r, q>> = <<a, r, q>>
      BY <2>0, Prefixed
    <3> HIDE DEF L, a
    <3>4. L \o <<r, p>> \in {<<r, p>>, <<a, r, p>>}
      BY <3>1, <3>2
    <3>5. L \o <<r, q>> \in {<<r, q>>, <<a, r, q>>}
      BY <3>1, <3>3
    <3> QED BY <3>4, <3>5 DEF L, a
  <2>4. ZabbixLogin(t) \o <<Reject>> \in Seq(D)
    BY <1>l, <1>m, Cat
  <2>5. ZabbixMember(t, e) \in {ZabbixLogin(t) \o <<Reject>>, ZabbixLogin(t) \o <<r, p>>,
                               ZabbixLogin(t) \o <<r, q>>}
    BY DEF ZabbixMember, r, p, q
  <2> QED BY <1>1, <2>2, <2>3, <2>4, <2>5 DEF ZabbixPlan
<1>2. CASE e.op \notin {"addMember", "removeMember"}
  <2>k. Known(e, {Account(u)}) \subseteq Facts /\ Known(e, {Group(g)}) \subseteq Facts
        /\ Known(e, {}) \subseteq Facts
    BY <1>f, KnownIn
  <2>w. ASSUME NEW add, add \subseteq F, NEW del, del \subseteq F PROVE ZabbixUser(e, add, del) \in D
    BY <2>k, <2>w, WriteIn DEF ZabbixUser
  <2>1. ZabbixCall(t, e) \in D
    <3>1. CASE e.op = "create"
      <4>1. F = UserFacts(u)
        BY <3>1 DEF Names
      <4>2. Joined(u, e.rights) \subseteq RightsOf(u) /\ Required(e.rights) \subseteq Facts
        BY <1>e, Refs1
      <4>3. {Account(u), Active(u), Attrs(u), Password(u)} \cup Joined(u, e.rights) \subseteq UserFacts(u)
        BY <1>e, <4>2, FactSets
      <4>4. Known(e, Required(e.rights)) \subseteq Facts
        BY <4>2, KnownIn
      <4>5. Write(Known(e, Required(e.rights)), {Account(u)},
                  {Account(u), Active(u), Attrs(u), Password(u)} \cup Joined(u, e.rights), {}) \in D
        BY <1>f, <4>1, <4>3, <4>4, WriteIn
      <4> QED BY <3>1, <4>5 DEF ZabbixCall
    <3>2. CASE e.op \in {"update", "addAttributes"}
      <4> DEFINE add == {Attrs(u)} \cup Joined(u, e.rights)
                          \cup (IF e.rights = <<>> THEN {} ELSE {Active(u)})
      <4>1. /\ {Attrs(u)} \subseteq F
            /\ e.rights # <<>> => RightsOf(u) \cup {Active(u)} \subseteq F
        BY <3>2 DEF Names, Listed, ListsGroups
      <4>2. Joined(u, e.rights) \subseteq RightsOf(u) /\ Required(e.rights) \subseteq Facts
        BY <1>e, Refs1
      <4>3. add \subseteq F /\ Replaced(u, e.rights) \subseteq F
        <5>1. CASE e.rights = <<>>
          BY <5>1, <4>1 DEF Replaced, Joined, Named
        <5>2. CASE e.rights # <<>>
          BY <5>2, <4>1, <4>2 DEF Replaced
        <5> QED BY <5>1, <5>2
      <4> HIDE DEF add
      <4>4. Known(e, {Account(u)} \cup Required(e.rights)) \subseteq Facts
        BY <1>f, <4>2, KnownIn
      <4>5. Write(Known(e, {Account(u)} \cup Required(e.rights)), {}, add, Replaced(u, e.rights)) \in D
        BY <4>3, <4>4, WriteIn
      <4> QED BY <3>2, <4>5 DEF ZabbixCall, add
    <3>8. CASE e.op = "removeAttributes"
      <4> DEFINE needs == IF e.rights = <<>> THEN Known(e, {Account(u)}) ELSE Nobody
      <4>1. {Attrs(u)} \subseteq F
        BY <3>8 DEF Names
      <4>2. needs \subseteq Facts
        BY <2>k, Nones
      <4> HIDE DEF needs
      <4>3. Write(needs, {}, {}, {Attrs(u)}) \in D
        BY <4>1, <4>2, WriteIn
      <4> QED BY <3>8, <4>3 DEF ZabbixCall, needs
    <3>3. CASE e.op = "delete"
      <4>1. F = UserFacts(u)
        BY <3>3 DEF Names
      <4>2. ZabbixUser(e, {}, UserFacts(u)) \in D
        BY <4>1, <2>w
      <4> QED BY <3>3, <4>2 DEF ZabbixCall
    <3>4. CASE e.op \in {"enable", "disable"}
      <4>1. {Active(u)} \cup RightsOf(u) \subseteq F
        BY <3>4 DEF Names
      <4>2. ZabbixUser(e, {Active(u)}, RightsOf(u)) \in D
            /\ ZabbixUser(e, {}, {Active(u)} \cup RightsOf(u)) \in D
        BY <4>1, <2>w
      <4> QED BY <3>4, <4>2 DEF ZabbixCall
    <3>5. CASE e.op = "changePassword"
      <4>1. {Password(u)} \subseteq F
        BY <3>5 DEF Names
      <4>2. (IF e.given = "all" THEN {Account(u)} ELSE Nobody) \subseteq Facts
        BY <1>f, Nones
      <4>3. Write(IF e.given = "all" THEN {Account(u)} ELSE Nobody, {}, {Password(u)}, {}) \in D
        BY <4>1, <4>2, WriteIn
      <4> QED BY <3>5, <4>3 DEF ZabbixCall
    <3>6. CASE e.op \in {"groupCreate", "groupUpdate", "groupDelete"}
      <4>1. F = GroupFacts(g) /\ {Group(g), Open(g)} \subseteq GroupFacts(g)
        BY <1>e, <3>6, FactSets DEF Names
      <4>2. /\ Write(Known(e, {}), {Group(g)}, {Group(g), Open(g)}, {}) \in D
            /\ Write(Known(e, {Group(g)}), {}, {}, {}) \in D
            /\ Write(Known(e, {Group(g)}), {}, {}, GroupFacts(g)) \in D
        BY <1>f, <2>k, <4>1, WriteIn
      <4> QED BY <3>6, <4>2 DEF ZabbixCall
    <3>7. CASE e.op \notin {"create", "update", "addAttributes", "removeAttributes", "delete",
                           "enable", "disable", "changePassword", "groupCreate", "groupUpdate",
                           "groupDelete"}
      BY <3>7, <1>m DEF ZabbixCall
    <3> QED BY <3>1, <3>2, <3>3, <3>4, <3>5, <3>6, <3>7, <3>8
  <2>2. ZabbixLogin(t) \o <<ZabbixCall(t, e)>> \in Seq(D)
    BY <1>l, <2>1, Short, Cat
  <2> QED BY <1>2, <2>2 DEF ZabbixPlan
<1> QED BY <1>1, <1>2

LEMMA Plans ==
  ASSUME NEW t \in Targets, NEW e \in Events
  PROVE  /\ Plan(t, e) \in Seq(Direct(Names(t, e))) \cup Rewrites(Names(t, e))
         /\ Plan(t, e) \in Seq(RequestsOn(Names(t, e)))
         /\ Plan(t, e) \in Seq(RequestsOn(Facts))
<1>1. Plan(t, e) \in Seq(Direct(Names(t, e))) \cup Rewrites(Names(t, e))
  <2>1. t.kind \in Kinds
    BY DEF Targets
  <2> QED BY <2>1, PgPlans, MsPlans, PassworkPlans, SshPlans, AgentPlans, ConsultantPlans,
             CmdbuildPlans, ZabbixPlans DEF Plan, Kinds
<1>2. Plan(t, e) \in Seq(RequestsOn(Names(t, e)))
  BY <1>1 DEF Direct, Rewrites
<1>3. RequestsOn(Names(t, e)) \subseteq RequestsOn(Facts)
  BY NamesAreFacts DEF RequestsOn
<1>4. Plan(t, e) \in Seq(RequestsOn(Facts))
  BY <1>2, <1>3
<1> QED BY <1>1, <1>2, <1>4

-----------------------------------------------------------------------------
(***************************************************************************)
(* Type correctness                                                        *)
(***************************************************************************)
\* A worker's requests are those of its event.
Planned == \A w \in Workers : plan[w] = <<>> \/ plan[w] = Plan(target, job[w])

LEMMA RequestType ==
  ASSUME TypeOK, NEW w \in Workers, at[w] \in DOMAIN plan[w]
  PROVE  /\ Request(w) \in RequestsOn(Facts)
         /\ Touches(Request(w)) \subseteq Facts
         /\ Result(w) \subseteq Facts
<1>1. Request(w) \in RequestsOn(Facts)
  BY DEF TypeOK, Request
<1> QED BY <1>1 DEF TypeOK, RequestsOn, Touches, Result, Effect

LEMMA FaultType ==
  ASSUME TypeOK, NEW w \in Workers
  PROVE  /\ Harmed(w) => faults' \in 0 .. MaxFaults /\ hit' \in [Workers -> BOOLEAN]
         /\ Unharmed => faults' \in 0 .. MaxFaults /\ hit' \in [Workers -> BOOLEAN]
<1>1. MaxFaults \in Nat /\ faults \in 0 .. MaxFaults /\ hit \in [Workers -> BOOLEAN]
  BY RunAssumption DEF TypeOK
<1>2. ASSUME Harmed(w) PROVE faults' \in 0 .. MaxFaults
  BY <1>1, <1>2 DEF Harmed, Fault
<1>3. ASSUME Harmed(w) PROVE hit' \in [Workers -> BOOLEAN]
  BY <1>1, <1>3 DEF Harmed
<1>4. ASSUME Unharmed PROVE faults' \in 0 .. MaxFaults /\ hit' \in [Workers -> BOOLEAN]
  BY <1>1, <1>4 DEF Unharmed
<1> QED BY <1>2, <1>3, <1>4

\* What half of a command changes, the command touches.
LEMMA HalfIs ==
  ASSUME TypeOK, NEW w \in Workers, Halves(w)
  PROVE  /\ at[w] \in DOMAIN plan[w] /\ Request(w).kind = "write" /\ target.kind = "ssh"
         /\ Half(w) \subseteq Facts /\ Differs(store, Half(w)) \subseteq Touches(Request(w))
<1>1. at[w] \in DOMAIN plan[w] /\ Request(w).kind = "write" /\ target.kind = "ssh"
  BY DEF Halves, Ask, Sending
<1>2. Request(w) \in RequestsOn(Facts)
  BY <1>1, RequestType
<1>3. /\ Halved(Request(w)).add \subseteq Request(w).add
      /\ Halved(Request(w)).del \subseteq Request(w).del
  BY <1>2 DEF RequestsOn, Halved
<1>4. Request(w).add \subseteq Facts /\ store \subseteq Facts
  BY <1>2 DEF RequestsOn, TypeOK
<1> QED BY <1>1, <1>3, <1>4 DEF Half, Differs, Touches

\* A request that is taken for done has changed some of what it touches, or nothing.
LEMMA Supposed ==
  ASSUME TypeOK, NEW w \in Workers, CutOff(w) \/ Misreads(w)
  PROVE  \E s \in SUBSET Facts :
           /\ Supposes(w, s) /\ Differs(store, s) \subseteq Touches(Request(w))
           /\ Ask(w, "write")
<1>1. store \in SUBSET Facts /\ Differs(store, store) = {}
  BY DEF TypeOK, Differs
<1>2. CASE Supposes(w, store)
  BY <1>1, <1>2 DEF CutOff, Misreads
<1>3. CASE Halves(w) /\ Supposes(w, Half(w))
  BY <1>3, HalfIs DEF CutOff, Misreads
<1> QED BY <1>2, <1>3 DEF CutOff, Misreads

LEMMA SupposesType ==
  ASSUME TypeOK, NEW w \in Workers, NEW s, s \subseteq Facts, Supposes(w, s), Ask(w, "write")
  PROVE  TypeOK'
<1>1. Touches(Request(w)) \subseteq Facts
  BY RequestType DEF Ask, Sending
<1>2. store' \subseteq Facts /\ made' \in [Workers -> SUBSET Facts]
  BY DEF TypeOK, Supposes, Differs
<1>3. excused' \in [Workers -> SUBSET Facts]
  <2>1. \A v \in Workers :
          (excused[v] \cup IF v = w THEN Touches(Request(w)) ELSE Differs(store, s)) \in SUBSET Facts
    BY <1>1 DEF TypeOK, Differs
  <2> QED BY <2>1 DEF Supposes
<1>4. faults' \in 0 .. MaxFaults /\ hit' \in [Workers -> BOOLEAN]
  BY FaultType DEF Supposes
<1> QED BY <1>2, <1>3, <1>4, SMTT(30) DEF TypeOK, Supposes, Goes, Ready

LEMMA ViewType == ASSUME TypeOK, NEW w \in Workers PROVE View(w) \subseteq Facts
  BY DEF TypeOK, View, Drafts

LEMMA ChangesType ==
  ASSUME TypeOK, NEW w \in Workers, NEW s, s \subseteq Facts, Changes(w, s)
  PROVE  /\ store' \subseteq Facts /\ made' \in [Workers -> SUBSET Facts]
         /\ excused' \in [Workers -> SUBSET Facts]
  BY DEF TypeOK, Changes, Differs

LEMMA TypeStep == TypeOK /\ [Next]_vars => TypeOK'
<1> SUFFICES ASSUME TypeOK, [Next]_vars PROVE TypeOK'
  OBVIOUS
<1>1. CASE UNCHANGED vars
  BY <1>1 DEF TypeOK, vars, session, history
<1>2. CASE Expire
  BY <1>2, RunAssumption DEF TypeOK, Expire, Fault, history
<1>3. ASSUME NEW w \in Workers, Start(w) PROVE TypeOK'
  <2>1. Plan(target, job[w]) \in Seq(RequestsOn(Facts))
    BY Plans DEF TypeOK
  <2>2. Fits(target, job[w], store) \in BOOLEAN
    BY DEF Fits
  <2> QED BY <1>3, <2>1, <2>2 DEF TypeOK, Start, Ready
<1>4. ASSUME NEW w \in Workers, Connects(w) PROVE TypeOK'
  BY <1>4 DEF Connects, TypeOK, session, history
<1>5. ASSUME NEW w \in Workers, Close(w) PROVE TypeOK'
  BY <1>5 DEF Close, TypeOK, session, history
<1>6. ASSUME NEW w \in Workers, TakeSession(w) PROVE TypeOK'
  BY <1>6 DEF TakeSession, TypeOK, history
<1>7. ASSUME NEW w \in Workers, Login(w) PROVE TypeOK'
  BY <1>7 DEF Login, TypeOK, history
<1>8. ASSUME NEW w \in Workers, LoginAnswered(w) PROVE TypeOK'
  BY <1>8 DEF LoginAnswered, TypeOK, history
<1>9. ASSUME NEW w \in Workers, Renew(w) PROVE TypeOK'
  BY <1>9 DEF Renew, TypeOK, history
<1>10. ASSUME NEW w \in Workers, GiveUp(w) PROVE TypeOK'
  BY <1>10 DEF GiveUp, TypeOK, Ends, Leaves, Unharmed, session
<1>11. ASSUME NEW w \in Workers, Refused(w) PROVE TypeOK'
  BY <1>11 DEF Refused, TypeOK, Ends, Leaves, Unharmed, session
<1>12. ASSUME NEW w \in Workers, Reads(w) PROVE TypeOK'
  BY <1>12 DEF Reads, TypeOK, Goes, Ready, Leaves, Unharmed, Ask, Sending
<1>13. ASSUME NEW w \in Workers, Writes(w) PROVE TypeOK'
  BY <1>13, RequestType, ChangesType, SMTT(30) DEF Writes, TypeOK, Goes, Ready, Leaves, Unharmed,
     Ask, Sending
<1>14. ASSUME NEW w \in Workers, Begins(w) PROVE TypeOK'
  BY <1>14 DEF Begins, TypeOK, Goes, Ready, Leaves, Unharmed, Drafts
<1>15. ASSUME NEW w \in Workers, Drafted(w) PROVE TypeOK'
  <2>1. Request(w).add \subseteq Facts /\ Request(w).del \subseteq Facts
    BY <1>15, RequestType DEF Drafted, Ask, Sending, RequestsOn
  <2>2. draft[w] \in Drafts
    BY <1>15 DEF TypeOK, Drafted
  <2>3. draft' \in [Workers -> Drafts \cup {None}]
    BY <1>15, <2>1, <2>2 DEF TypeOK, Drafted, Drafts
  <2> QED BY <1>15, <2>3 DEF Drafted, TypeOK, Goes, Ready, Leaves, Unharmed
<1>16. ASSUME NEW w \in Workers, Commits(w) PROVE TypeOK'
  BY <1>16, ViewType, ChangesType, SMTT(30) DEF Commits, TypeOK, Goes, Ready, Leaves, Unharmed
<1>17. ASSUME NEW w \in Workers, WaitTimesOut(w) PROVE TypeOK'
  BY <1>17 DEF WaitTimesOut, TypeOK, Ends, Leaves, Unharmed, session
<1>18. ASSUME NEW w \in Workers, PollSettled(w) PROVE TypeOK'
  BY <1>18, PollAssumption DEF PollSettled, TypeOK, Goes, Ready, Leaves, Unharmed, LastPoll
<1>19. ASSUME NEW w \in Workers, Follows(w) PROVE TypeOK'
  BY <1>19 DEF Follows, TypeOK, Goes, Ready, Leaves, Unharmed
<1>20. ASSUME NEW w \in Workers, Succeeds(w) PROVE TypeOK'
  BY <1>20 DEF Succeeds, TypeOK, Ends, Leaves, Unharmed, session
<1>21. ASSUME NEW w \in Workers, ConnectFails(w) PROVE TypeOK'
  BY <1>21, FaultType DEF ConnectFails, TypeOK, session
<1>22. ASSUME NEW w \in Workers, CloseFails(w) PROVE TypeOK'
  BY <1>22, FaultType DEF CloseFails, TypeOK, session
<1>23. ASSUME NEW w \in Workers, LoginFails(w) PROVE TypeOK'
  BY <1>23, FaultType DEF LoginFails, TypeOK, Ends, Leaves, Unharmed, session
<1>24. ASSUME NEW w \in Workers, PollStarted(w) PROVE TypeOK'
  <2>1. CASE at[w] = LastPoll
    BY <1>24, <2>1, FaultType DEF PollStarted, TypeOK, Ends, Leaves, session
  <2>2. CASE at[w] # LastPoll
    <3>1. Goes(w, at[w] + 1) /\ UNCHANGED <<seen, draft>> /\ Leaves /\ Harmed(w)
      BY <1>24, <2>2 DEF PollStarted
    <3> QED BY <3>1, FaultType, SMTT(30) DEF TypeOK, Goes, Ready, Leaves
  <2> QED BY <2>1, <2>2
<1>25. ASSUME NEW w \in Workers, LosesRequest(w) PROVE TypeOK'
  BY <1>25, FaultType DEF LosesRequest, TypeOK, Ends, Leaves, Unharmed, session
<1>26. ASSUME NEW w \in Workers, LosesAnswer(w) PROVE TypeOK'
  <2>1. \E s \in SUBSET Facts : Changes(w, s)
    <3>1. CASE Lands(w)
      BY <3>1, RequestType DEF Lands, Ask, Sending
    <3>2. CASE Halves(w) /\ Changes(w, Half(w))
      BY <3>2, HalfIs
    <3>3. CASE Changes(w, View(w))
      BY <3>3, ViewType
    <3> QED BY <1>26, <3>1, <3>2, <3>3 DEF LosesAnswer
  <2> QED BY <1>26, <2>1, FaultType, ChangesType DEF LosesAnswer, TypeOK, Ends, session
<1>27. ASSUME NEW w \in Workers, Hangs(w) PROVE TypeOK'
  <2>1. Leaves \/ \E s \in SUBSET Facts : Changes(w, s)
    <3>1. CASE Lands(w)
      BY <3>1, RequestType DEF Lands, Ask, Sending
    <3>2. CASE Halves(w) /\ Changes(w, Half(w))
      BY <3>2, HalfIs
    <3>3. CASE Changes(w, View(w))
      BY <3>3, ViewType
    <3> QED BY <1>27, <3>1, <3>2, <3>3 DEF Hangs
  <2> QED BY <1>27, <2>1, FaultType, ChangesType DEF Hangs, TypeOK, session, Leaves
<1>28. ASSUME NEW w \in Workers, CutOff(w) \/ Misreads(w) PROVE TypeOK'
  BY <1>28, Supposed, SupposesType
<1>29. ASSUME NEW w \in Workers, Forbidden(w) PROVE TypeOK'
  BY <1>29, FaultType DEF Forbidden, TypeOK
<1> QED BY <1>1, <1>2, <1>3, <1>4, <1>5, <1>6, <1>7, <1>8, <1>9, <1>10, <1>11, <1>12, <1>13, <1>14,
           <1>15, <1>16, <1>17, <1>18, <1>19, <1>20, <1>21, <1>22, <1>23, <1>24, <1>25, <1>26,
           <1>27, <1>28, <1>29 DEF Next, Step, Fails

LEMMA TypeInit == Init => TypeOK
  BY RunAssumption DEF Init, TypeOK

\* Every reachable state is well typed: requests, sessions and facts are what the
\* connectors and the target systems know.
THEOREM TypeCorrect == Spec => []TypeOK
  BY TypeInit, TypeStep, PTL DEF Spec

-----------------------------------------------------------------------------
(***************************************************************************)
(* The session cache                                                       *)
(***************************************************************************)
\* A session that was refused is out of the cache for good, and one that is being
\* opened is nobody else's and has not been refused.
Sessions ==
  /\ \A w \in Workers : rejected[w] # 0 => cached # rejected[w] /\ phase[w] # "open"
  /\ \A w \in Workers : phase[w] = "login" =>
       /\ token[w] # 0 /\ token[w] # cached
       /\ \A v \in Workers : rejected[v] # token[w] /\ (v # w => token[v] # token[w])

SessionInv == TypeOK /\ Sessions /\ SessionRenewed

LEMMA SessionInit == Init => Sessions /\ SessionRenewed
  BY DEF Init, Sessions, SessionRenewed

\* The steps that neither look at the cache nor ask for a session.
LEMMA SessionAside ==
  ASSUME SessionInv, NEW w \in Workers, UNCHANGED <<cached, token>>,
         \A v \in Workers \ {w} : phase'[v] = phase[v] /\ rejected'[v] = rejected[v],
         phase'[w] \notin {"login", "open"}, rejected'[w] \in {0, rejected[w]},
         phase'[w] = "send" => rejected'[w] = 0
  PROVE  Sessions' /\ SessionRenewed'
  BY DEF SessionInv, Sessions, SessionRenewed

LEMMA SessionGoes ==
  ASSUME SessionInv, NEW w \in Workers, NEW i, Goes(w, i)
  PROVE  Sessions' /\ SessionRenewed'
<1>1. /\ UNCHANGED <<cached, token>> /\ rejected'[w] = 0
      /\ \A v \in Workers \ {w} : rejected'[v] = rejected[v]
  BY DEF SessionInv, TypeOK, Goes
<1>2. phase'[w] \in {"auth", "send"} /\ \A v \in Workers \ {w} : phase'[v] = phase[v]
  BY DEF SessionInv, TypeOK, Goes, Ready
<1> QED BY <1>1, <1>2, SessionAside

LEMMA SessionEnds ==
  ASSUME SessionInv, NEW w \in Workers, NEW how, Ends(w, how)
  PROVE  Sessions' /\ SessionRenewed'
<1>1. UNCHANGED <<cached, token, rejected>>
  BY DEF Ends, session
<1>2. phase'[w] \in {"closing", "done"} /\ \A v \in Workers \ {w} : phase'[v] = phase[v]
  BY DEF SessionInv, TypeOK, Ends
<1> QED BY <1>1, <1>2, SessionAside

LEMMA SessionStep == SessionInv /\ TypeOK' /\ [Next]_vars => Sessions' /\ SessionRenewed'
<1> SUFFICES ASSUME SessionInv, TypeOK', [Next]_vars PROVE Sessions' /\ SessionRenewed'
  OBVIOUS
<1> USE DEF SessionInv
<1>1. CASE UNCHANGED vars
  BY <1>1 DEF Sessions, SessionRenewed, vars, session
<1>2. CASE Expire
  BY <1>2 DEF Expire, Sessions, SessionRenewed
<1>3. ASSUME NEW w \in Workers, Start(w) PROVE Sessions' /\ SessionRenewed'
  BY <1>3, SMTT(30) DEF TypeOK, Start, Ready, Sessions, SessionRenewed
<1>4. ASSUME NEW w \in Workers, Connects(w) \/ ConnectFails(w) \/ Close(w) \/ CloseFails(w) \/ Hangs(w)
      PROVE  Sessions' /\ SessionRenewed'
  BY <1>4, ZenonT(40) DEF TypeOK, Connects, ConnectFails, Close, CloseFails, Hangs, session,
     Sessions, SessionRenewed
<1>5. ASSUME NEW w \in Workers, TakeSession(w) PROVE Sessions' /\ SessionRenewed'
  BY <1>5 DEF TypeOK, TakeSession, Sessions, SessionRenewed
<1>6. ASSUME NEW w \in Workers, Login(w) PROVE Sessions' /\ SessionRenewed'
  BY <1>6 DEF TypeOK, Login, Sessions, SessionRenewed
<1>7. ASSUME NEW w \in Workers, LoginAnswered(w) PROVE Sessions' /\ SessionRenewed'
  BY <1>7 DEF TypeOK, LoginAnswered, Sessions, SessionRenewed
<1>8. ASSUME NEW w \in Workers, Renew(w) PROVE Sessions' /\ SessionRenewed'
  <2>1. token[w] # 0
    BY <1>8 DEF TypeOK, Renew, Accepted
  <2> QED BY <1>8, <2>1 DEF TypeOK, Renew, Sessions, SessionRenewed
<1>12. ASSUME NEW w \in Workers, Forbidden(w) PROVE Sessions' /\ SessionRenewed'
  BY <1>12 DEF TypeOK, Forbidden, Sent, Sending, Sessions, SessionRenewed
<1>9. ASSUME NEW w \in Workers,
             GiveUp(w) \/ LoginFails(w) \/ Refused(w) \/ WaitTimesOut(w) \/ Succeeds(w)
               \/ LosesRequest(w) \/ LosesAnswer(w)
      PROVE  Sessions' /\ SessionRenewed'
  BY <1>9, SessionEnds DEF GiveUp, LoginFails, Refused, WaitTimesOut, Succeeds, LosesRequest,
     LosesAnswer
<1>10. ASSUME NEW w \in Workers,
              Reads(w) \/ Writes(w) \/ Begins(w) \/ Drafted(w) \/ Commits(w) \/ PollSettled(w)
                \/ Follows(w) \/ CutOff(w) \/ Misreads(w)
       PROVE  Sessions' /\ SessionRenewed'
  BY <1>10, SessionGoes DEF Reads, Writes, Begins, Drafted, Commits, PollSettled, Follows, CutOff,
     Misreads, Supposes
<1>11. ASSUME NEW w \in Workers, PollStarted(w) PROVE Sessions' /\ SessionRenewed'
  BY <1>11, SessionEnds, SessionGoes DEF PollStarted
<1> QED BY <1>1, <1>2, <1>3, <1>4, <1>5, <1>6, <1>7, <1>8, <1>9, <1>10, <1>11, <1>12
        DEF Next, Step, Fails

\* CMDBuild: whatever the interleaving of the workers on the one cache of sessions, the
\* repeat of a request that was refused for its session carries another session.
THEOREM SessionsRenewed == Spec => []SessionRenewed
<1>1. Init => SessionInv
  BY TypeInit, SessionInit DEF SessionInv
<1>2. SessionInv /\ [Next]_vars => SessionInv'
  BY TypeStep, SessionStep DEF SessionInv
<1>3. SessionInv => SessionRenewed
  BY DEF SessionInv
<1> QED BY <1>1, <1>2, <1>3, PTL DEF Spec

-----------------------------------------------------------------------------
(***************************************************************************)
(* What a run changes                                                      *)
(***************************************************************************)
Live == {"open", "auth", "login", "send"}

Asks(w)     == Names(target, job[w])
Rewriting(w) ==
  /\ phase[w] \in Live /\ at[w] \in DOMAIN plan[w]
  /\ Request(w).kind = "write" /\ Request(w).of # {}

\* What is about to be written back differs from what is there only where others
\* changed it.
Fresh(w) ==
  Rewriting(w) =>
    /\ seen[w] \subseteq Request(w).of
    /\ \A f \in Request(w).of \ excused[w] : f \in seen[w] <=> f \in store

\* An open transaction holds changes its event names.
DraftNamed(w) == draft[w] # None => draft[w].add \cup draft[w].del \subseteq Asks(w)

RunInv ==
  /\ TypeOK /\ Planned /\ OnlyAsked
  /\ \A w \in Workers : Fresh(w) /\ DraftNamed(w)

LEMMA RunInit == Init => Planned /\ OnlyAsked /\ \A w \in Workers : Fresh(w) /\ DraftNamed(w)
  BY DEF Init, Planned, OnlyAsked, Fresh, Rewriting, DraftNamed, Live

\* Worker v stands still while others act.
Still(v) ==
  /\ plan'[v] = plan[v] /\ at'[v] = at[v] /\ phase'[v] = phase[v] /\ seen'[v] = seen[v]
  /\ draft'[v] = draft[v] /\ made'[v] = made[v]
  /\ excused'[v] = excused[v] \cup Differs(store, store')

LEMMA StillKept ==
  ASSUME RunInv, UNCHANGED <<target, job>>, NEW v \in Workers, Still(v)
  PROVE  Fresh(v)' /\ DraftNamed(v)' /\ made'[v] \subseteq Asks(v) \cup excused'[v]
         /\ (plan'[v] = <<>> \/ plan'[v] = Plan(target, job[v]))
<1>1. Fresh(v) /\ DraftNamed(v) /\ made[v] \subseteq Asks(v) \cup excused[v]
      /\ (plan[v] = <<>> \/ plan[v] = Plan(target, job[v]))
  BY DEF RunInv, OnlyAsked, Planned, Asks
<1>2. Fresh(v)'
  <2>1. Rewriting(v)' = Rewriting(v) /\ Request(v)' = Request(v)
    BY DEF Still, Rewriting, Request
  <2>2. ASSUME Rewriting(v), NEW f \in Request(v).of \ excused'[v]
        PROVE  f \in seen'[v] <=> f \in store'
    <3>1. f \in Request(v).of \ excused[v] /\ f \notin Differs(store, store')
      BY <2>2 DEF Still
    <3> QED BY <1>1, <2>2, <3>1 DEF Fresh, Still, Differs
  <2> QED BY <1>1, <2>1, <2>2 DEF Fresh, Still
<1>3. DraftNamed(v)'
  BY <1>1 DEF DraftNamed, Asks, Still
<1> QED BY <1>1, <1>2, <1>3 DEF Still

LEMMA RunKept ==
  ASSUME RunInv, TypeOK', UNCHANGED <<target, job>>, NEW w \in Workers,
         \A v \in Workers \ {w} : Still(v),
         plan'[w] = plan[w] \/ plan'[w] = Plan(target, job[w]),
         Fresh(w)', DraftNamed(w)', made'[w] \subseteq Asks(w) \cup excused'[w]
  PROVE  RunInv'
<1>1. \A v \in Workers : Fresh(v)' /\ DraftNamed(v)' /\ made'[v] \subseteq Asks(v) \cup excused'[v]
  BY StillKept
<1>2. \A v \in Workers : plan'[v] = <<>> \/ plan'[v] = Plan(target, job[v])
  BY StillKept DEF RunInv, Planned
<1>3. Planned' /\ OnlyAsked'
  BY <1>1, <1>2 DEF Planned, OnlyAsked, Asks
<1> QED BY <1>1, <1>3 DEF RunInv

\* After a request that is no read comes no write of what was read; nor in a plan
\* that polls.
LEMMA NoRewrite ==
  ASSUME RunInv, NEW w \in Workers, at[w] \in DOMAIN plan[w]
  PROVE  /\ Request(w).kind # "read" /\ at[w] + 1 \in DOMAIN plan[w] =>
              ~(plan[w][at[w] + 1].kind = "write" /\ plan[w][at[w] + 1].of # {})
         /\ Request(w).kind = "read" /\ at[w] + 1 \in DOMAIN plan[w]
               /\ plan[w][at[w] + 1].kind = "write" /\ plan[w][at[w] + 1].of # {} =>
              plan[w][at[w] + 1].of = Request(w).of
         /\ Request(w).kind = "poll" =>
              \A i \in DOMAIN plan[w] : ~(plan[w][i].kind = "write" /\ plan[w][i].of # {})
         /\ 1 \in DOMAIN plan[w] => ~(plan[w][1].kind = "write" /\ plan[w][1].of # {})
<1>1. plan[w] \in Seq(Direct(Asks(w))) \cup Rewrites(Asks(w))
  BY Plans DEF RunInv, TypeOK, Planned, Asks
<1>2. at[w] \in Nat \ {0}
  BY DEF RunInv, TypeOK
<1>3. CASE plan[w] \in Seq(Direct(Asks(w)))
  <2>1. \A i \in DOMAIN plan[w] : plan[w][i] \in Direct(Asks(w))
    BY <1>3
  <2> QED BY <1>2, <2>1 DEF Direct
<1>4. CASE plan[w] \in Rewrites(Asks(w))
  <2>1. \A i \in DOMAIN plan[w] :
          /\ plan[w][i].kind # "poll"
          /\ plan[w][i].kind = "write" /\ plan[w][i].of # {} =>
               i > 1 /\ plan[w][i - 1].kind = "read" /\ plan[w][i - 1].of = plan[w][i].of
    BY <1>4 DEF Rewrites
  <2>2. at[w] + 1 - 1 = at[w]
    BY <1>2
  <2> QED BY <1>2, <2>1, <2>2 DEF Request
<1> QED BY <1>1, <1>3, <1>4

LEMMA Requested ==
  ASSUME RunInv, NEW w \in Workers, at[w] \in DOMAIN plan[w]
  PROVE  Touches(Request(w)) \subseteq Asks(w)
<1>1. plan[w] \in Seq(RequestsOn(Asks(w)))
  BY Plans DEF RunInv, TypeOK, Planned, Asks
<1>2. Request(w) \in RequestsOn(Asks(w))
  BY <1>1 DEF Request
<1> QED BY <1>2 DEF RequestsOn, Touches

LEMMA ResultAsked ==
  ASSUME RunInv, NEW w \in Workers, Ask(w, "write")
  PROVE  Differs(store, Result(w)) \subseteq Asks(w) \cup excused[w]
<1>1. Touches(Request(w)) \subseteq Asks(w)
  BY Requested DEF Ask, Sending
<1>2. CASE Request(w).of = {}
  BY <1>1, <1>2 DEF Differs, Result, Effect, Touches
<1>3. CASE Request(w).of # {}
  <2>1. seen[w] \subseteq Request(w).of
        /\ \A f \in Request(w).of \ excused[w] : f \in seen[w] <=> f \in store
    BY <1>3 DEF RunInv, Fresh, Rewriting, Ask, Sending, Live
  <2> QED BY <1>1, <1>3, <2>1 DEF Differs, Result, Effect, Touches
<1> QED BY <1>2, <1>3

LEMMA ViewAsked ==
  ASSUME RunInv, NEW w \in Workers
  PROVE  Differs(store, View(w)) \subseteq Asks(w)
  BY DEF RunInv, DraftNamed, Differs, View

-----------------------------------------------------------------------------
LEMMA LeavesStill ==
  ASSUME Leaves, NEW v \in Workers,
         plan'[v] = plan[v], at'[v] = at[v], phase'[v] = phase[v], seen'[v] = seen[v],
         draft'[v] = draft[v]
  PROVE  Still(v)
  BY DEF Leaves, Still, Differs

LEMMA ChangesStill ==
  ASSUME RunInv, NEW w \in Workers, NEW s, Changes(w, s), NEW v \in Workers \ {w},
         plan'[v] = plan[v], at'[v] = at[v], phase'[v] = phase[v], seen'[v] = seen[v],
         draft'[v] = draft[v]
  PROVE  Still(v)
  BY DEF RunInv, TypeOK, Changes, Still

LEMMA ChangesAsked ==
  ASSUME RunInv, NEW w \in Workers, NEW s, Changes(w, s),
         Differs(store, s) \subseteq Asks(w) \cup excused[w]
  PROVE  made'[w] \subseteq Asks(w) \cup excused'[w]
  BY DEF RunInv, TypeOK, Changes, OnlyAsked, Asks

LEMMA EndsFrame ==
  ASSUME TypeOK, NEW w \in Workers, NEW how, Ends(w, how)
  PROVE  /\ UNCHANGED <<target, job, plan, at, seen>> /\ phase'[w] \notin Live /\ draft'[w] = None
         /\ \A v \in Workers \ {w} : phase'[v] = phase[v] /\ draft'[v] = draft[v]
  BY DEF TypeOK, Ends, Live

LEMMA GoesFrame ==
  ASSUME TypeOK, NEW w \in Workers, NEW i, Goes(w, i)
  PROVE  /\ UNCHANGED <<target, job, plan>> /\ at'[w] = i
         /\ \A v \in Workers \ {w} : phase'[v] = phase[v] /\ at'[v] = at[v]
  BY DEF TypeOK, Goes

\* A run that ends, having changed nothing or what its event names.
LEMMA EndsKept ==
  ASSUME RunInv, TypeOK', NEW w \in Workers, NEW how, Ends(w, how),
         Leaves \/ \E s \in SUBSET Facts :
                     Changes(w, s) /\ Differs(store, s) \subseteq Asks(w) \cup excused[w]
  PROVE  RunInv'
<1>1. /\ UNCHANGED <<target, job, plan, at, seen>> /\ phase'[w] \notin Live /\ draft'[w] = None
      /\ \A v \in Workers \ {w} : phase'[v] = phase[v] /\ draft'[v] = draft[v]
  BY EndsFrame DEF RunInv
<1>2. Fresh(w)' /\ DraftNamed(w)'
  BY <1>1 DEF Fresh, Rewriting, DraftNamed
<1>3. CASE Leaves
  <2>1. made'[w] \subseteq Asks(w) \cup excused'[w]
    BY <1>3 DEF RunInv, OnlyAsked, Leaves, Asks
  <2> QED BY <1>1, <1>2, <1>3, <2>1, LeavesStill, RunKept
<1>4. ASSUME NEW s \in SUBSET Facts,
             Changes(w, s), Differs(store, s) \subseteq Asks(w) \cup excused[w]
      PROVE  RunInv'
  BY <1>1, <1>2, <1>4, ChangesStill, ChangesAsked, RunKept
<1> QED BY <1>3, <1>4

\* A run that goes on to a request that writes nothing back.
LEMMA GoesKept ==
  ASSUME RunInv, TypeOK', NEW w \in Workers, NEW i, Goes(w, i),
         ~(i \in DOMAIN plan[w] /\ plan[w][i].kind = "write" /\ plan[w][i].of # {}),
         \A v \in Workers \ {w} : seen'[v] = seen[v] /\ draft'[v] = draft[v],
         DraftNamed(w)',
         \/ Leaves
         \/ \E s \in SUBSET Facts :
              Changes(w, s) /\ Differs(store, s) \subseteq Asks(w) \cup excused[w]
  PROVE  RunInv'
<1>1. /\ UNCHANGED <<target, job, plan>> /\ at'[w] = i
      /\ \A v \in Workers \ {w} : phase'[v] = phase[v] /\ at'[v] = at[v]
  BY GoesFrame DEF RunInv
<1>2. Fresh(w)'
  BY <1>1 DEF Fresh, Rewriting, Request
<1>3. CASE Leaves
  <2>1. made'[w] \subseteq Asks(w) \cup excused'[w]
    BY <1>3 DEF RunInv, OnlyAsked, Leaves, Asks
  <2> QED BY <1>1, <1>2, <1>3, <2>1, LeavesStill, RunKept
<1>4. ASSUME NEW s \in SUBSET Facts,
             Changes(w, s), Differs(store, s) \subseteq Asks(w) \cup excused[w]
      PROVE  RunInv'
  BY <1>1, <1>2, <1>4, ChangesStill, ChangesAsked, RunKept
<1> QED BY <1>3, <1>4

\* A step of the session, the connection or the pool.
LEMMA PhaseKept ==
  ASSUME RunInv, TypeOK', NEW w \in Workers, UNCHANGED <<target, job, plan, at, seen, draft>>,
         Leaves, \A v \in Workers \ {w} : phase'[v] = phase[v],
         phase[w] \in Live \/ phase'[w] \notin Live
  PROVE  RunInv'
<1>1. Fresh(w)' /\ DraftNamed(w)' /\ made'[w] \subseteq Asks(w) \cup excused'[w]
  BY DEF RunInv, Fresh, Rewriting, Request, DraftNamed, OnlyAsked, Asks, Leaves
<1> QED BY <1>1, LeavesStill, RunKept

LEMMA StartKept ==
  ASSUME RunInv, TypeOK', NEW w \in Workers, Start(w)
  PROVE  RunInv'
<1>1. /\ UNCHANGED <<target, job, store, draft>> /\ plan'[w] = Plan(target, job[w])
      /\ at'[w] = 1 /\ made'[w] = {}
      /\ \A v \in Workers \ {w} : Still(v)
  BY DEF RunInv, TypeOK, Start, Still, Differs
<1>2. Fresh(w)'
  <2>1. Plan(target, job[w]) \in Seq(Direct(Asks(w))) \cup Rewrites(Asks(w))
    BY Plans DEF RunInv, TypeOK, Asks
  <2>2. ~(1 \in DOMAIN plan'[w] /\ plan'[w][1].kind = "write" /\ plan'[w][1].of # {})
    BY <1>1, <2>1 DEF Direct, Rewrites
  <2> QED BY <1>1, <2>2 DEF Fresh, Rewriting, Request
<1>3. DraftNamed(w)'
  BY <1>1 DEF RunInv, DraftNamed, Asks
<1> QED BY <1>1, <1>2, <1>3, RunKept

LEMMA ReadsKept ==
  ASSUME RunInv, TypeOK', NEW w \in Workers, Reads(w)
  PROVE  RunInv'
<1>1. /\ UNCHANGED <<target, job, plan, draft>> /\ Leaves /\ at'[w] = at[w] + 1
      /\ \A v \in Workers \ {w} : phase'[v] = phase[v] /\ at'[v] = at[v] /\ seen'[v] = seen[v]
      /\ seen'[w] = store \cap Request(w).of
      /\ Request(w).kind = "read" /\ at[w] \in DOMAIN plan[w]
  BY GoesFrame, ZenonT(40) DEF RunInv, TypeOK, Reads, Ask, Sending
<1>2. Fresh(w)'
  <2> SUFFICES ASSUME Rewriting(w)' PROVE Request(w)'.of = Request(w).of
    BY <1>1 DEF Fresh, Leaves
  <2>1. /\ at[w] + 1 \in DOMAIN plan[w] /\ plan[w][at[w] + 1].kind = "write"
        /\ plan[w][at[w] + 1].of # {} /\ Request(w)' = plan[w][at[w] + 1]
    BY <1>1 DEF Rewriting, Request
  <2> QED BY <1>1, <2>1, NoRewrite
<1>3. DraftNamed(w)' /\ made'[w] \subseteq Asks(w) \cup excused'[w]
  BY <1>1 DEF RunInv, DraftNamed, OnlyAsked, Asks, Leaves
<1> QED BY <1>1, <1>2, <1>3, LeavesStill, RunKept

LEMMA RunStep == RunInv /\ TypeOK' /\ [Next]_vars => RunInv'
<1> SUFFICES ASSUME RunInv, TypeOK', [Next]_vars PROVE RunInv'
  OBVIOUS
<1>t. TypeOK
  BY DEF RunInv
<1>1. CASE UNCHANGED vars
  BY <1>1 DEF RunInv, TypeOK, Planned, OnlyAsked, Fresh, Rewriting, Request, DraftNamed, Asks, vars,
              session, history
<1>2. CASE Expire
  BY <1>2 DEF RunInv, TypeOK, Planned, OnlyAsked, Fresh, Rewriting, Request, DraftNamed, Asks,
              Expire, history
<1>3. ASSUME NEW w \in Workers, Start(w) PROVE RunInv'
  BY <1>3, StartKept
<1>4. ASSUME NEW w \in Workers,
             Connects(w) \/ ConnectFails(w) \/ Close(w) \/ CloseFails(w) \/ TakeSession(w)
               \/ Login(w) \/ LoginAnswered(w) \/ Renew(w) \/ Forbidden(w)
      PROVE  RunInv'
  <2>1. /\ UNCHANGED <<target, job, plan, at, seen, draft>> /\ Leaves
        /\ \A v \in Workers \ {w} : phase'[v] = phase[v]
        /\ phase[w] \in Live \/ phase'[w] \notin Live
    BY <1>t, <1>4 DEF TypeOK, Connects, ConnectFails, Close, CloseFails, TakeSession, Login,
                      LoginAnswered, Renew, Forbidden, Sent, Leaves, Live, history, Sending
  <2> QED BY <2>1, PhaseKept
<1>5. ASSUME NEW w \in Workers,
             GiveUp(w) \/ LoginFails(w) \/ Refused(w) \/ WaitTimesOut(w) \/ Succeeds(w)
               \/ LosesRequest(w)
      PROVE  RunInv'
  <2>1. Leaves /\ \E how \in {"refused", "ok"} : Ends(w, how)
    BY <1>5 DEF GiveUp, LoginFails, Refused, WaitTimesOut, Succeeds, LosesRequest
  <2> QED BY <2>1, EndsKept
<1>6. ASSUME NEW w \in Workers, LosesAnswer(w) PROVE RunInv'
  <2>1. CASE Lands(w)
    <3>1. Ask(w, "write") /\ Changes(w, Result(w)) /\ Ends(w, "refused")
      BY <1>6, <2>1 DEF Lands, LosesAnswer
    <3>2. Result(w) \in SUBSET Facts /\ Differs(store, Result(w)) \subseteq Asks(w) \cup excused[w]
      BY <1>t, <3>1, RequestType, ResultAsked DEF Ask, Sending
    <3> QED BY <3>1, <3>2, EndsKept
  <2>3. CASE Halves(w) /\ Changes(w, Half(w))
    <3>1. Half(w) \in SUBSET Facts /\ Differs(store, Half(w)) \subseteq Asks(w) \cup excused[w]
      BY <1>t, <2>3, HalfIs, Requested
    <3> QED BY <1>6, <2>3, <3>1, EndsKept DEF LosesAnswer
  <2>2. CASE Ask(w, "commit") /\ Changes(w, View(w))
    <3>1. View(w) \in SUBSET Facts /\ Differs(store, View(w)) \subseteq Asks(w) \cup excused[w]
      BY <1>t, ViewType, ViewAsked
    <3>2. Ends(w, "refused")
      BY <1>6 DEF LosesAnswer
    <3> QED BY <2>2, <3>1, <3>2, EndsKept
  <2> QED BY <1>6, <2>1, <2>2, <2>3 DEF LosesAnswer
<1>7. ASSUME NEW w \in Workers, Reads(w) PROVE RunInv'
  BY <1>7, ReadsKept
<1>8. ASSUME NEW w \in Workers, Writes(w) PROVE RunInv'
  <2>1. Ask(w, "write") /\ Changes(w, Result(w)) /\ Goes(w, at[w] + 1) /\ UNCHANGED <<seen, draft>>
    BY <1>8 DEF Writes
  <2>2. at[w] \in DOMAIN plan[w] /\ Request(w).kind = "write"
    BY <2>1 DEF Ask, Sending
  <2>3. Result(w) \in SUBSET Facts /\ Differs(store, Result(w)) \subseteq Asks(w) \cup excused[w]
    BY <1>t, <2>1, <2>2, RequestType, ResultAsked
  <2>4. DraftNamed(w)'
    BY <2>1 DEF RunInv, DraftNamed, Asks, Goes
  <2> QED BY <2>1, <2>2, <2>3, <2>4, NoRewrite, GoesKept
<1>9. ASSUME NEW w \in Workers, Begins(w) \/ Follows(w) PROVE RunInv'
  <2>1. /\ Goes(w, at[w] + 1) /\ Leaves /\ UNCHANGED seen
        /\ at[w] \in DOMAIN plan[w] /\ Request(w).kind \in {"begin", "follow"}
    BY <1>9 DEF Begins, Follows, Ask, Sending
  <2>2. DraftNamed(w)' /\ \A v \in Workers \ {w} : draft'[v] = draft[v]
    BY <1>t, <1>9 DEF RunInv, TypeOK, Begins, Follows, DraftNamed, Asks, Goes
  <2> QED BY <2>1, <2>2, NoRewrite, GoesKept
<1>10. ASSUME NEW w \in Workers, Drafted(w) PROVE RunInv'
  <2>1. /\ Goes(w, at[w] + 1) /\ Leaves /\ UNCHANGED seen
        /\ at[w] \in DOMAIN plan[w] /\ Request(w).kind = "write" /\ draft[w] # None
    BY <1>10 DEF Drafted, Ask, Sending
  <2>2. /\ draft'[w].add \cup draft'[w].del
             \subseteq (draft[w].add \cup draft[w].del) \cup Touches(Request(w))
        /\ \A v \in Workers \ {w} : draft'[v] = draft[v]
    BY <1>t, <1>10 DEF TypeOK, Drafted, Touches
  <2>3. DraftNamed(w)'
    BY <2>1, <2>2, Requested DEF RunInv, DraftNamed, Asks, Goes
  <2> QED BY <2>1, <2>2, <2>3, NoRewrite, GoesKept
<1>11. ASSUME NEW w \in Workers, Commits(w) PROVE RunInv'
  <2>1. /\ Goes(w, at[w] + 1) /\ Changes(w, View(w)) /\ UNCHANGED seen
        /\ at[w] \in DOMAIN plan[w] /\ Request(w).kind = "commit"
    BY <1>11 DEF Commits, Ask, Sending
  <2>2. draft'[w] = None /\ \A v \in Workers \ {w} : draft'[v] = draft[v]
    BY <1>t, <1>11 DEF TypeOK, Commits
  <2>3. View(w) \in SUBSET Facts /\ Differs(store, View(w)) \subseteq Asks(w) \cup excused[w]
    BY <1>t, ViewType, ViewAsked
  <2>4. DraftNamed(w)'
    BY <2>2 DEF DraftNamed
  <2> QED BY <2>1, <2>2, <2>3, <2>4, NoRewrite, GoesKept
<1>12. ASSUME NEW w \in Workers, PollStarted(w) \/ PollSettled(w) PROVE RunInv'
  <2>1. /\ Leaves /\ at[w] \in DOMAIN plan[w] /\ Request(w).kind = "poll"
        /\ \/ Ends(w, "refused")
           \/ \E i \in Int : Goes(w, i) /\ UNCHANGED <<seen, draft>>
    BY <1>t, <1>12, PollAssumption DEF TypeOK, PollStarted, PollSettled, Ask, Sending, LastPoll
  <2>2. ASSUME NEW i \in Int, Goes(w, i), UNCHANGED <<seen, draft>> PROVE RunInv'
    <3>1. DraftNamed(w)'
      BY <2>2 DEF RunInv, DraftNamed, Asks, Goes
    <3> QED BY <2>1, <2>2, <3>1, NoRewrite, GoesKept
  <2> QED BY <2>1, <2>2, EndsKept
<1>13. ASSUME NEW w \in Workers, Hangs(w) PROVE RunInv'
  <2>1. /\ UNCHANGED <<target, job, plan, at, seen>> /\ phase'[w] \notin Live /\ draft'[w] = None
        /\ \A v \in Workers \ {w} : phase'[v] = phase[v] /\ draft'[v] = draft[v]
    BY <1>t, <1>13 DEF TypeOK, Hangs, Live
  <2>2. Fresh(w)' /\ DraftNamed(w)'
    BY <2>1 DEF Fresh, Rewriting, DraftNamed
  <2>3. CASE Leaves
    <3>1. made'[w] \subseteq Asks(w) \cup excused'[w]
      BY <2>3 DEF RunInv, OnlyAsked, Leaves, Asks
    <3> QED BY <2>1, <2>2, <2>3, <3>1, LeavesStill, RunKept
  <2>4. ASSUME NEW s \in SUBSET Facts,
               Changes(w, s), Differs(store, s) \subseteq Asks(w) \cup excused[w]
        PROVE  RunInv'
    BY <2>1, <2>2, <2>4, ChangesStill, ChangesAsked, RunKept
  <2>5. CASE Lands(w)
    <3>1. Ask(w, "write") /\ Changes(w, Result(w)) /\ at[w] \in DOMAIN plan[w]
      BY <2>5 DEF Lands, Ask, Sending
    <3>2. Result(w) \in SUBSET Facts /\ Differs(store, Result(w)) \subseteq Asks(w) \cup excused[w]
      BY <1>t, <3>1, RequestType, ResultAsked
    <3> QED BY <2>4, <3>1, <3>2
  <2>6. CASE Halves(w) /\ Changes(w, Half(w))
    <3>1. Half(w) \in SUBSET Facts /\ Differs(store, Half(w)) \subseteq Asks(w) \cup excused[w]
      BY <1>t, <2>6, HalfIs, Requested
    <3> QED BY <2>4, <2>6, <3>1
  <2>7. CASE Changes(w, View(w))
    BY <1>t, <2>4, <2>7, ViewType, ViewAsked
  <2> QED BY <1>13, <2>3, <2>5, <2>6, <2>7 DEF Hangs
<1>14. ASSUME NEW w \in Workers, CutOff(w) \/ Misreads(w) PROVE RunInv'
  <2>1. PICK s \in SUBSET Facts :
           /\ Supposes(w, s) /\ Differs(store, s) \subseteq Touches(Request(w))
           /\ Ask(w, "write")
    BY <1>t, <1>14, Supposed
  <2>2. /\ Goes(w, at[w] + 1) /\ UNCHANGED <<seen, draft>> /\ store' = s
        /\ at[w] \in DOMAIN plan[w] /\ Request(w).kind = "write"
    BY <2>1 DEF Supposes, Ask, Sending
  <2>3. /\ made'[w] = made[w] \cup Differs(store, s) /\ excused[w] \subseteq excused'[w]
        /\ \A v \in Workers \ {w} : made'[v] = made[v] /\ excused'[v] = excused[v] \cup Differs(store, s)
    BY <1>t, <2>1 DEF TypeOK, Supposes
  <2>4. /\ UNCHANGED <<target, job, plan>> /\ at'[w] = at[w] + 1
        /\ \A v \in Workers \ {w} : phase'[v] = phase[v] /\ at'[v] = at[v]
    BY <1>t, <2>2, GoesFrame
  <2>5. \A v \in Workers \ {w} : Still(v)
    BY <2>2, <2>3, <2>4 DEF Still
  <2>6. Fresh(w)'
    BY <2>2, <2>4, NoRewrite DEF Fresh, Rewriting, Request
  <2>7. DraftNamed(w)'
    BY <2>2, <2>4 DEF RunInv, DraftNamed, Asks
  <2>8. made'[w] \subseteq Asks(w) \cup excused'[w]
    BY <2>1, <2>2, <2>3, Requested DEF RunInv, OnlyAsked, Asks
  <2> QED BY <2>4, <2>5, <2>6, <2>7, <2>8, RunKept
<1> QED BY <1>1, <1>2, <1>3, <1>4, <1>5, <1>6, <1>7, <1>8, <1>9, <1>10, <1>11, <1>12, <1>13, <1>14
        DEF Next, Step, Fails

\* Whatever connector handles an event, whatever the other workers do and whichever
\* requests are lost, hang or are repeated, it changes only the facts the event names,
\* but for those that somebody changed between its read of a card and its write.
THEOREM ChangesOnlyWhatIsAsked == Spec => []OnlyAsked
<1>1. Init => RunInv
  BY TypeInit, RunInit DEF RunInv
<1>2. RunInv /\ [Next]_vars => RunInv'
  BY TypeStep, RunStep DEF RunInv
<1>3. RunInv => OnlyAsked
  BY DEF RunInv
<1> QED BY <1>1, <1>2, <1>3, PTL DEF Spec
-----------------------------------------------------------------------------
(***************************************************************************)
(* What a plan comes to                                                    *)
(***************************************************************************)
\* What a request adds when it takes effect, and what it removes.
Puts(r)  == IF r.kind = "write" THEN r.add ELSE {}
Takes(r) == IF r.kind = "write" THEN r.del \ r.add ELSE {}

\* What the requests of plan p before the i-th have added and not removed again, and
\* the other way round.
Got(p, i) ==
  {f \in Facts : \E k \in DOMAIN p : /\ k < i /\ f \in Puts(p[k])
                                     /\ \A j \in DOMAIN p : k < j /\ j < i => f \notin Takes(p[j])}
Rid(p, i) ==
  {f \in Facts : \E k \in DOMAIN p : /\ k < i /\ f \in Takes(p[k])
                                     /\ \A j \in DOMAIN p : k < j /\ j < i => f \notin Puts(p[j])}

Rejects(p) == \E i \in DOMAIN p : p[i].kind = "reject"

\* When all of p has taken effect, what is wanted holds, and what is unwanted does not.
Fulfils(p, W, U) ==
  Rejects(p) \/ (W \subseteq Got(p, Len(p) + 1) /\ U \subseteq Rid(p, Len(p) + 1))

\* A transaction and nothing else; requests of which only the last writes; and those
\* with a login that polls.
Bracketed(p) ==
  /\ Len(p) > 1 /\ p[1].kind = "begin" /\ p[Len(p)].kind = "commit"
  /\ \A i \in DOMAIN p : i > 1 /\ i < Len(p) => p[i].kind = "write"

Once(p) == \A i \in DOMAIN p : p[i].kind = "write" => i = Len(p)

Polled(p) ==
  /\ Once(p)
  /\ \A i \in DOMAIN p : /\ p[i].kind \notin {"begin", "commit"}
                         /\ p[i].kind = "poll" => i <= LastPoll /\ LastPoll + 1 < Len(p)
                         /\ p[i].kind = "reject" => \A j \in DOMAIN p : p[j].kind # "poll"

Simple == {r \in RequestsOn(Facts) : r.kind \in {"write", "read", "reject"}}

\* What is shown of every plan of every connector.
Devised(t, e, p) ==
  /\ Fulfils(p, Due(t, e), Barred(t, e))
  /\ (t.kind = "postgres" /\ Bracketed(p)) \/ (t.kind = "consultant" /\ Polled(p)) \/ p \in Seq(Simple)
  /\ ~Piecewise(t, e) => Bracketed(p) \/ Once(p)

All(p) == {p[i] : i \in DOMAIN p}

LEMMA AllOf ==
  ASSUME NEW S, NEW a \in Seq(S), NEW b \in Seq(S)
  PROVE  All(a \o b) = All(a) \cup All(b) /\ All(a) \subseteq S
<1>1. All(a \o b) \subseteq All(a) \cup All(b)
  <2> SUFFICES ASSUME NEW i \in DOMAIN (a \o b) PROVE (a \o b)[i] \in All(a) \cup All(b)
    BY DEF All
  <2>1. CASE i <= Len(a)
    BY <2>1 DEF All
  <2>2. CASE i > Len(a)
    <3>1. i - Len(a) \in DOMAIN b /\ (a \o b)[i] = b[i - Len(a)]
      BY <2>2
    <3> QED BY <3>1 DEF All
  <2> QED BY <2>1, <2>2
<1>2. All(a) \subseteq All(a \o b)
  <2> SUFFICES ASSUME NEW i \in DOMAIN a PROVE a[i] \in All(a \o b)
    BY DEF All
  <2>1. i \in DOMAIN (a \o b) /\ (a \o b)[i] = a[i]
    OBVIOUS
  <2> QED BY <2>1 DEF All
<1>3. All(b) \subseteq All(a \o b)
  <2> SUFFICES ASSUME NEW i \in DOMAIN b PROVE b[i] \in All(a \o b)
    BY DEF All
  <2>1. Len(a) + i \in DOMAIN (a \o b) /\ (a \o b)[Len(a) + i] = b[i]
    OBVIOUS
  <2> QED BY <2>1 DEF All
<1>4. All(a) \subseteq S
  BY DEF All
<1> QED BY <1>1, <1>2, <1>3, <1>4

LEMMA AllFew ==
  ASSUME NEW r, NEW q
  PROVE  All(<<r>>) = {r} /\ All(<<r, q>>) = {r, q} /\ All(<<>>) = {}
<1>1. DOMAIN <<r>> = {1} /\ DOMAIN <<r, q>> = {1, 2} /\ DOMAIN <<>> = {}
  OBVIOUS
<1>2. <<r>>[1] = r /\ <<r, q>>[1] = r /\ <<r, q>>[2] = q
  OBVIOUS
<1> QED BY <1>1, <1>2 DEF All

\* What some request of a plan puts and none takes is there in the end.
LEMMA FulfilsBy ==
  ASSUME NEW p \in Seq(RequestsOn(Facts)), NEW W \in SUBSET Facts, NEW U \in SUBSET Facts,
         \A f \in W : (\E r \in All(p) : f \in Puts(r)) /\ \A r \in All(p) : f \notin Takes(r),
         \A f \in U : (\E r \in All(p) : f \in Takes(r)) /\ \A r \in All(p) : f \notin Puts(r)
  PROVE  Fulfils(p, W, U)
<1>1. ASSUME NEW f \in W PROVE f \in Got(p, Len(p) + 1)
  <2>1. PICK k \in DOMAIN p : f \in Puts(p[k])
    BY DEF All
  <2>2. \A j \in DOMAIN p : f \notin Takes(p[j])
    BY DEF All
  <2>3. k < Len(p) + 1
    OBVIOUS
  <2> QED BY <2>1, <2>2, <2>3 DEF Got
<1>2. ASSUME NEW f \in U PROVE f \in Rid(p, Len(p) + 1)
  <2>1. PICK k \in DOMAIN p : f \in Takes(p[k])
    BY DEF All
  <2>2. \A j \in DOMAIN p : f \notin Puts(p[j])
    BY DEF All
  <2>3. k < Len(p) + 1
    OBVIOUS
  <2> QED BY <2>1, <2>2, <2>3 DEF Rid
<1> QED BY <1>1, <1>2 DEF Fulfils

\* What the last request does is done in the end.
LEMMA FulfilsLast ==
  ASSUME NEW a \in Seq(RequestsOn(Facts)), NEW r \in RequestsOn(Facts)
  PROVE  /\ Puts(r) \subseteq Got(a \o <<r>>, Len(a \o <<r>>) + 1)
         /\ Takes(r) \subseteq Rid(a \o <<r>>, Len(a \o <<r>>) + 1)
         /\ \A W, U : W \subseteq Puts(r) /\ U \subseteq Takes(r) => Fulfils(a \o <<r>>, W, U)
<1> DEFINE p == a \o <<r>>
<1>1. Len(p) \in DOMAIN p /\ p[Len(p)] = r /\ Len(p) \in Nat /\ DOMAIN p = 1 .. Len(p)
  OBVIOUS
<1>2. Puts(r) \subseteq Facts /\ Takes(r) \subseteq Facts
  BY DEF Puts, Takes, RequestsOn
<1> HIDE DEF p
<1>3. Puts(r) \subseteq Got(p, Len(p) + 1) /\ Takes(r) \subseteq Rid(p, Len(p) + 1)
  BY <1>1, <1>2 DEF Got, Rid
<1> QED BY <1>3 DEF Fulfils, p

LEMMA FulfilsOne ==
  ASSUME NEW r \in RequestsOn(Facts), NEW W, NEW U, W \subseteq Puts(r), U \subseteq Takes(r)
  PROVE  Fulfils(<<r>>, W, U)
<1>1. <<>> \o <<r>> = <<r>> /\ <<>> \in Seq(RequestsOn(Facts))
  BY ConcatEmptySeq
<1> QED BY <1>1, FulfilsLast

LEMMA FulfilsNot ==
  ASSUME NEW p \in Seq(RequestsOn(Facts)), NEW r \in All(p), r.kind = "reject", NEW W, NEW U
  PROVE  Fulfils(p, W, U)
  BY DEF Fulfils, Rejects, All

\* Requests that write nothing, and then one.
LEMMA OnceLast ==
  ASSUME NEW a \in Seq({r \in RequestsOn(Facts) : r.kind # "write"}), NEW r \in RequestsOn(Facts)
  PROVE  Once(a \o <<r>>)
<1> DEFINE p == a \o <<r>>
<1> SUFFICES ASSUME NEW i \in DOMAIN p, i # Len(p) PROVE p[i].kind # "write"
  BY DEF Once
<1>1. i \in DOMAIN a /\ p[i] = a[i]
  OBVIOUS
<1> QED BY <1>1

LEMMA OnceOne == ASSUME NEW r PROVE Once(<<r>>)
  BY DEF Once

\* The beginning of a transaction.
Writing == {r \in RequestsOn(Facts) : r.kind = "write"}
Opens(a) == /\ a \in Seq(RequestsOn(Facts)) /\ Len(a) > 0 /\ a[1] = Begin
            /\ \A i \in DOMAIN a : i > 1 => a[i].kind = "write"

LEMMA OpensBy ==
  /\ Opens(<<Begin>>)
  /\ \A r \in Writing : Opens(<<Begin, r>>)
  /\ \A a, m : Opens(a) /\ m \in Seq(Writing) => Opens(a \o m)
  /\ \A a : Opens(a) => Bracketed(a \o <<Commit>>)
<1>m. Begin \in RequestsOn(Facts) /\ Commit \in RequestsOn(Facts) /\ Begin.kind = "begin" /\ Commit.kind = "commit"
  BY DEF Begin, Commit, Bare, RequestsOn
<1> HIDE DEF Begin, Commit
<1>1. Opens(<<Begin>>) /\ \A r \in Writing : Opens(<<Begin, r>>)
  BY <1>m DEF Opens, Writing
<1>2. ASSUME NEW a, NEW m, Opens(a), m \in Seq(Writing) PROVE Opens(a \o m)
  <2>1. a \o m \in Seq(RequestsOn(Facts)) /\ Len(a \o m) > 0 /\ (a \o m)[1] = Begin
    BY <1>2 DEF Opens, Writing
  <2>2. ASSUME NEW i \in DOMAIN (a \o m), i > 1 PROVE (a \o m)[i].kind = "write"
    <3>1. CASE i <= Len(a)
      BY <1>2, <2>2, <3>1 DEF Opens
    <3>2. CASE i > Len(a)
      <4>1. i - Len(a) \in DOMAIN m /\ (a \o m)[i] = m[i - Len(a)]
        BY <1>2, <3>2 DEF Opens
      <4> QED BY <1>2, <4>1 DEF Writing
    <3> QED BY <1>2, <3>1, <3>2 DEF Opens
  <2> QED BY <2>1, <2>2 DEF Opens
<1>3. ASSUME NEW a, Opens(a) PROVE Bracketed(a \o <<Commit>>)
  <2> DEFINE p == a \o <<Commit>>
  <2>1. Len(p) = Len(a) + 1 /\ p[1] = Begin /\ p[Len(p)] = Commit /\ DOMAIN p = 1 .. Len(a) + 1
        /\ \A i \in DOMAIN p : i < Len(p) => i \in DOMAIN a /\ p[i] = a[i]
    BY <1>3, <1>m DEF Opens
  <2> HIDE DEF p
  <2>2. Bracketed(p)
    BY <1>3, <1>m, <2>1 DEF Bracketed, Opens
  <2> QED BY <2>2 DEF p
<1> QED BY <1>1, <1>2, <1>3

-----------------------------------------------------------------------------
LEMMA JoinedNone == ASSUME NEW u PROVE Joined(u, <<>>) = {}
<1>1. Named(<<>>) = {}
  BY DEF Named
<1> QED BY <1>1 DEF Joined

LEMMA Apart ==
  /\ \A u \in Users :
       /\ Account(u) \notin {Active(u), Valid(u), Attrs(u), Password(u), Mapped(u), Permit(u)}
       /\ Active(u) \notin {Valid(u), Attrs(u), Password(u), Mapped(u), Permit(u)}
       /\ Valid(u) \notin {Attrs(u), Password(u), Mapped(u), Permit(u)}
       /\ Attrs(u) \notin {Password(u), Mapped(u), Permit(u)}
       /\ Password(u) \notin {Mapped(u), Permit(u)}
       /\ Mapped(u) # Permit(u)
       /\ {Account(u), Active(u), Valid(u), Attrs(u), Password(u), Mapped(u), Permit(u)}
            \cap RightsOf(u) = {}
  /\ \A g \in Refs : Group(g) # Open(g) /\ {Group(g), Open(g)} \cap MembersOf(g) = {}
BY DEF Account, Active, Valid, Attrs, Password, Mapped, Permit, RightsOf, Right, Group, Open, MembersOf

LEMMA Event ==
  ASSUME NEW t \in Targets, NEW e \in Events
  PROVE  /\ e.user \in Users /\ e.group \in Refs /\ e.rights \in Seq(Refs) /\ e.op \in Ops
         /\ e.permission \in {"none", "grant", "revoke", "deny", "outside"}
         /\ e.enabled \in {"unset", "on", "off"}
         /\ Asked(t, e) \in Seq(Refs) /\ t.defaults \in Seq(Refs)
         /\ t.defaults \o Asked(t, e) \in Seq(Refs) /\ t.defaults \o e.rights \in Seq(Refs)
         /\ Joined(e.user, Asked(t, e)) \subseteq Joined(e.user, e.rights)
<1>1. e.rights \in Seq(Refs) /\ t.defaults \in Seq(Refs)
  BY DEF Events, Targets
<1>2. Asked(t, e) \in Seq(Refs) /\ Joined(e.user, Asked(t, e)) \subseteq Joined(e.user, e.rights)
  BY <1>1, JoinedNone DEF Asked
<1> QED BY <1>1, <1>2, Cat DEF Events

\* What the data of an event is due, and what it rules out.
Gives(t, e) == (IF Sql(t) THEN {} ELSE {Attrs(e.user)})
                 \cup (IF Flagged(t, e) THEN On(e) ELSE {})
                 \cup (IF Sql(t) /\ e.permission = "grant" THEN {Permit(e.user)} ELSE {})
                 \cup Joined(e.user, Refers(t, e))
Denies(t, e) == (IF Flagged(t, e) THEN Off(e) ELSE {})
                  \cup IF Sql(t) /\ e.permission \in {"revoke", "deny"} THEN {Permit(e.user)} ELSE {}

\* What an event is due, operation by operation.
LEMMA DueBy ==
  ASSUME NEW t \in Targets, NEW e \in Events
  PROVE  /\ e.op = "create" => Due(t, e) = {Account(e.user), Password(e.user)} \cup Gives(t, e)
         /\ e.op \in {"update", "addAttributes"} => Due(t, e) = Gives(t, e)
         /\ e.op = "enable" =>
              Due(t, e) = IF t.kind = "ssh" THEN {Active(e.user), Valid(e.user)} ELSE {Active(e.user)}
         /\ e.op = "changePassword" => Due(t, e) = {Password(e.user)}
         /\ e.op = "addMember" => Due(t, e) = {Right(e.user, e.group)}
         /\ e.op = "groupCreate" => Due(t, e) = {Group(e.group)}
         /\ e.op \in {"delete", "disable", "removeAttributes", "removeMember", "groupUpdate",
                      "groupDelete", "read"} => Due(t, e) = {}
<1> DEFINE u == e.user
           grants == IF e.permission = "grant" THEN {Permit(u)} ELSE {}
           described == {Attrs(u)} \cup On(e) \cup Joined(u, e.rights) \cup grants
<1>e. u \in Users /\ e.rights \in Seq(Refs)
  BY Event
<1>1. ASSUME e.op \notin Describing PROVE Due(t, e) = Wanted(t, e)
  BY <1>1 DEF Due, LeavesOut
<1>2. CASE e.op \in Describing
  <2>1. /\ Joined(u, e.rights) \subseteq RightsOf(u) /\ On(e) \subseteq {Active(u)}
        /\ grants \subseteq {Permit(u)}
    BY <1>e, Refs1 DEF On, Joined, RightsOf, Named
  <2>2. Joined(u, Refers(t, e)) = IF Refers(t, e) = e.rights THEN Joined(u, e.rights) ELSE {}
    <3>1. Refers(t, e) \in {e.rights, <<>>}
      BY DEF Refers, Asked
    <3> QED BY <1>e, <3>1, JoinedNone
  <2>3. described \ LeavesOut(t, e) = Gives(t, e)
    <3> DEFINE a == IF Flagged(t, e) THEN {} ELSE {Active(u)}
               b == IF Sql(t) THEN {Attrs(u)} ELSE {Permit(u)}
               c == IF Refers(t, e) = e.rights THEN {} ELSE RightsOf(u)
    <3>1. LeavesOut(t, e) = a \cup b \cup c
      BY <1>2 DEF LeavesOut
    <3>2. /\ {Attrs(u)} \ (a \cup b \cup c) = IF Sql(t) THEN {} ELSE {Attrs(u)}
          /\ On(e) \ (a \cup b \cup c) = IF Flagged(t, e) THEN On(e) ELSE {}
          /\ grants \ (a \cup b \cup c) = IF Sql(t) THEN grants ELSE {}
      BY <1>e, <2>1, Apart
    <3>3. Joined(u, e.rights) \ (a \cup b \cup c) = Joined(u, Refers(t, e))
      BY <1>e, <2>1, <2>2, Apart
    <3> HIDE DEF a, b, c
    <3>4. described \ (a \cup b \cup c) = ({Attrs(u)} \ (a \cup b \cup c)) \cup (On(e) \ (a \cup b \cup c))
            \cup (Joined(u, e.rights) \ (a \cup b \cup c)) \cup (grants \ (a \cup b \cup c))
      OBVIOUS
    <3> QED BY <3>1, <3>2, <3>3, <3>4 DEF Gives
  <2>4. {Account(u), Password(u)} \cap LeavesOut(t, e) = {}
    BY <1>e, Apart DEF LeavesOut
  <2>5. e.op = "create" => Wanted(t, e) = {Account(u), Password(u)} \cup described
    BY DEF Wanted
  <2>6. e.op \in {"update", "addAttributes"} => Wanted(t, e) = described
    BY DEF Wanted
  <2> HIDE DEF described
  <2>7. e.op = "create" => Due(t, e) = {Account(u), Password(u)} \cup Gives(t, e)
    BY <2>3, <2>4, <2>5 DEF Due
  <2>8. e.op \in {"update", "addAttributes"} => Due(t, e) = Gives(t, e)
    BY <2>3, <2>6 DEF Due
  <2> QED BY <1>2, <2>7, <2>8 DEF Describing
<1> QED BY <1>1, <1>2 DEF Wanted, Entry, Describing

LEMMA BarredBy ==
  ASSUME NEW t \in Targets, NEW e \in Events
  PROVE  /\ e.op = "delete" /\ Removes(t, e) => Barred(t, e) = {Account(e.user)}
         /\ e.op = "disable" \/ (e.op = "delete" /\ ~Removes(t, e)) =>
              Barred(t, e) =
                IF t.kind = "ssh" THEN {Active(e.user), Valid(e.user)} ELSE {Active(e.user)}
         /\ e.op \in {"create", "update", "addAttributes"} => Barred(t, e) = Denies(t, e)
         /\ e.op = "removeAttributes" => Barred(t, e) = {Attrs(e.user)}
         /\ e.op = "removeMember" => Barred(t, e) = {Right(e.user, e.group)}
         /\ e.op = "groupDelete" => Barred(t, e) = {Open(e.group)}
         /\ e.op \in {"enable", "changePassword", "addMember", "groupCreate",
                      "groupUpdate", "read"} => Barred(t, e) = {}
<1> DEFINE u == e.user
           revokes == IF e.permission \in {"revoke", "deny"} THEN {Permit(u)} ELSE {}
<1>e. u \in Users /\ e.op \in Ops
  BY Event
<1>1. ASSUME e.op # "delete" PROVE ~Removes(t, e)
  BY <1>1 DEF Removes
<1>2. Blocks(t, e) <=> e.op = "disable" \/ (e.op = "delete" /\ ~Removes(t, e))
  BY DEF Blocks
<1>3. ASSUME e.op \notin Describing PROVE Barred(t, e) = Unwanted(t, e)
  BY <1>3 DEF Barred, LeavesOut
<1>4. CASE e.op \in Describing
  <2>1. Unwanted(t, e) = Off(e) \cup revokes
    BY <1>1, <1>2, <1>4 DEF Unwanted, Describing
  <2>2. Off(e) \subseteq {Active(u)} /\ revokes \subseteq {Permit(u)}
    BY DEF Off
  <2>3. /\ Off(e) \ LeavesOut(t, e) = IF Flagged(t, e) THEN Off(e) ELSE {}
        /\ revokes \ LeavesOut(t, e) = IF Sql(t) THEN revokes ELSE {}
    BY <1>e, <1>4, <2>2, Apart DEF LeavesOut
  <2>4. (Off(e) \cup revokes) \ LeavesOut(t, e) = (Off(e) \ LeavesOut(t, e)) \cup (revokes \ LeavesOut(t, e))
    OBVIOUS
  <2>5. Barred(t, e) = Denies(t, e)
    BY <2>1, <2>3, <2>4 DEF Barred, Denies
  <2> QED BY <1>4, <2>5 DEF Describing
<1>5. CASE e.op \notin Describing
  BY <1>e, <1>1, <1>2, <1>3, <1>5 DEF Unwanted, Describing, Entry
<1> QED BY <1>4, <1>5

LEMMA DueFacts ==
  ASSUME NEW t \in Targets, NEW e \in Events
  PROVE  Due(t, e) \in SUBSET Facts /\ Barred(t, e) \in SUBSET Facts
<1>1. e.user \in Users /\ e.group \in Refs /\ e.rights \in Seq(Refs) /\ e.op \in Ops
  BY Event
<1>3. /\ Joined(e.user, e.rights) \subseteq Facts
      /\ On(e) \subseteq {Active(e.user)} /\ Off(e) \subseteq {Active(e.user)}
  BY <1>1, Refs1, FlagsIn
<1>4. {Account(e.user), Active(e.user), Valid(e.user), Attrs(e.user), Password(e.user),
       Mapped(e.user), Permit(e.user), Right(e.user, e.group), Group(e.group), Open(e.group)} \subseteq Facts
  BY <1>1, FactSets
<1>5. Wanted(t, e) \subseteq Facts
  BY <1>3, <1>4 DEF Wanted, Entry
<1>6. Unwanted(t, e) \subseteq Facts
  BY <1>3, <1>4 DEF Unwanted, Entry
<1> QED BY <1>5, <1>6 DEF Due, Barred

-----------------------------------------------------------------------------
\* Pieces of plans.
LEMMA WriteIs ==
  ASSUME NEW needs, needs \subseteq Facts, NEW absent, absent \subseteq Facts, NEW add, add \subseteq Facts,
         NEW del, del \subseteq Facts
  PROVE  Write(needs, absent, add, del) \in Writing /\ Write(needs, absent, add, del) \in Simple
BY DEF Write, Writing, Simple, RequestsOn

LEMMA PutIs ==
  ASSUME NEW needs, needs \subseteq Facts, NEW of, of \subseteq Facts, NEW add, add \subseteq Facts,
         NEW del, del \subseteq Facts
  PROVE  Put(needs, of, add, del) \in Writing /\ Put(needs, of, add, del) \in Simple
BY DEF Put, Writing, Simple, RequestsOn

LEMMA Effects ==
  ASSUME NEW needs, NEW more, NEW add, NEW del
  PROVE  /\ Puts(Write(needs, more, add, del)) = add
         /\ Takes(Write(needs, more, add, del)) = del \ add
         /\ Puts(Put(needs, more, add, del)) = add
         /\ Takes(Put(needs, more, add, del)) = del \ add
BY DEF Write, Put, Puts, Takes

LEMMA ReadDoes ==
  ASSUME NEW needs \in SUBSET Facts, NEW of \in SUBSET Facts
  PROVE  Read(needs, of) \in Simple /\ Read(needs, of).kind = "read"
BY DEF Read, Bare, Simple, RequestsOn

LEMMA MarksDo ==
  /\ Reject \in Simple /\ Reject.kind = "reject"
  /\ \A r \in {Begin, Commit, Reject} : r \in RequestsOn(Facts) /\ Puts(r) = {} /\ Takes(r) = {}
BY DEF Reject, Begin, Commit, Bare, Simple, RequestsOn, Puts, Takes

LEMMA DevisedOne ==
  ASSUME NEW t, NEW e, NEW r \in Simple,
         r.kind = "reject" \/ (Due(t, e) \subseteq Puts(r) /\ Barred(t, e) \subseteq Takes(r))
  PROVE  Devised(t, e, <<r>>)
<1>1. <<r>> \in Seq(Simple) /\ <<r>> \in Seq(RequestsOn(Facts)) /\ r \in All(<<r>>)
  BY DEF Simple, All
<1>2. Fulfils(<<r>>, Due(t, e), Barred(t, e))
  BY <1>1, FulfilsOne, FulfilsNot DEF Simple
<1> QED BY <1>1, <1>2, OnceOne DEF Devised

LEMMA DevisedWrite ==
  ASSUME NEW t, NEW e, NEW needs \in SUBSET Facts, NEW absent \in SUBSET Facts,
         NEW add \in SUBSET Facts, NEW del \in SUBSET Facts,
         Due(t, e) \subseteq add, Barred(t, e) \subseteq del \ add
  PROVE  Devised(t, e, <<Write(needs, absent, add, del)>>)
<1> DEFINE r == Write(needs, absent, add, del)
<1>1. r \in Simple /\ Puts(r) = add /\ Takes(r) = del \ add
  BY WriteIs, Effects
<1> HIDE DEF r
<1>2. Devised(t, e, <<r>>)
  BY <1>1, DevisedOne
<1> QED BY <1>2 DEF r

LEMMA DevisedReject == ASSUME NEW t, NEW e PROVE Devised(t, e, <<Reject>>)
  BY MarksDo, DevisedOne

LEMMA DevisedRead ==
  ASSUME NEW t, NEW e, Due(t, e) = {}, Barred(t, e) = {}
  PROVE  Devised(t, e, <<Read({}, {})>>)
<1>1. Read({}, {}) \in Simple
  BY ReadDoes
<1> QED BY <1>1, DevisedOne

\* Requests that add a member each.
LEMMA JoinsDo ==
  ASSUME NEW u \in Users, NEW refs \in Seq(Refs), NEW s \in Seq(Writing), Len(s) = Len(refs),
         \A i \in 1 .. Len(refs) : s[i].add = {Right(u, refs[i])} /\ s[i].del = {}
  PROVE  /\ \A f \in Joined(u, refs) : \E r \in All(s) : f \in Puts(r)
         /\ \A r \in All(s) : Takes(r) = {} /\ Puts(r) \subseteq RightsOf(u)
<1>1. ASSUME NEW i \in 1 .. Len(refs)
      PROVE  s[i] \in All(s) /\ Puts(s[i]) = {Right(u, refs[i])} /\ Takes(s[i]) = {} /\ refs[i] \in Refs
  BY DEF All, Writing, Puts, Takes
<1>2. ASSUME NEW f \in Joined(u, refs) PROVE \E r \in All(s) : f \in Puts(r)
  <2>1. PICK i \in DOMAIN refs : f = Right(u, refs[i])
    BY DEF Joined, Named
  <2> QED BY <1>1, <2>1
<1>3. ASSUME NEW r \in All(s) PROVE Takes(r) = {} /\ Puts(r) \subseteq RightsOf(u)
  <2>1. PICK i \in 1 .. Len(refs) : r = s[i]
    BY DEF All
  <2>2. Puts(r) = {Right(u, refs[i])} /\ Takes(r) = {} /\ refs[i] \in Refs
    BY <1>1, <2>1
  <2>3. Right(u, refs[i]) \in RightsOf(u)
    BY <2>2, FactSets
  <2> QED BY <2>2, <2>3
<1> QED BY <1>2, <1>3

LEMMA JoinedCat ==
  ASSUME NEW u, NEW a \in Seq(Refs), NEW b \in Seq(Refs)
  PROVE  Joined(u, a \o b) = Joined(u, a) \cup Joined(u, b) /\ Joined(u, <<>>) = {}
<1>1. All(a \o b) = All(a) \cup All(b)
  BY AllOf
<1>3. Named(a \o b) = Named(a) \cup Named(b)
  BY <1>1 DEF All, Named
<1>2. Named(<<>>) = {}
  BY DEF Named
<1> QED BY <1>2, <1>3 DEF Joined

-----------------------------------------------------------------------------
LEMMA PgParts ==
  ASSUME NEW u \in Users, NEW refs \in Seq(Refs)
  PROVE  /\ PgGrants(u, refs) \in Seq(Writing)
         /\ \A f \in Joined(u, refs) : \E r \in All(PgGrants(u, refs)) : f \in Puts(r)
         /\ \A r \in All(PgGrants(u, refs)) : Takes(r) = {} /\ Puts(r) \subseteq RightsOf(u)
         /\ \A c \in {"none", "grant", "revoke"} :
              LET P == PgPermission(u, c)
              IN /\ P \in Seq(Writing)
                 /\ c = "grant" => \E r \in All(P) : Permit(u) \in Puts(r)
                 /\ c = "revoke" => \E r \in All(P) : Permit(u) \in Takes(r)
                 /\ \A r \in All(P) : /\ Puts(r) \subseteq IF c = "grant" THEN {Permit(u)} ELSE {}
                                      /\ Takes(r) \subseteq IF c = "revoke" THEN {Permit(u)} ELSE {}
         /\ \A on \in BOOLEAN :
              /\ PgLogin(u, on) \in Writing /\ PgLogin(u, on) \in Simple
              /\ Puts(PgLogin(u, on)) = IF on THEN {Active(u)} ELSE {}
              /\ Takes(PgLogin(u, on)) = IF on THEN {} ELSE {Active(u)}
<1>1. ASSUME NEW i \in 1 .. Len(refs)
      PROVE  /\ PgGrant(u, refs[i]) \in Writing
             /\ PgGrant(u, refs[i]).add = {Right(u, refs[i])} /\ PgGrant(u, refs[i]).del = {}
  <2>1. /\ {Account(u), Group(refs[i])} \in SUBSET Facts /\ {Right(u, refs[i])} \in SUBSET Facts
        /\ {} \in SUBSET Facts
    BY FactSets
  <2>2. PgGrant(u, refs[i]) \in Writing
    BY <2>1, WriteIs DEF PgGrant
  <2> QED BY <2>2 DEF PgGrant, Write
<1>2. /\ PgGrants(u, refs) \in Seq(Writing) /\ Len(PgGrants(u, refs)) = Len(refs)
      /\ \A i \in 1 .. Len(refs) : PgGrants(u, refs)[i] = PgGrant(u, refs[i])
  BY <1>1, IsASeq DEF PgGrants
<1>3. \A i \in 1 .. Len(refs) : PgGrants(u, refs)[i].add = {Right(u, refs[i])}
                                 /\ PgGrants(u, refs)[i].del = {}
  BY <1>1, <1>2
<1>4. ASSUME NEW c \in {"none", "grant", "revoke"}
      PROVE  LET P == PgPermission(u, c)
             IN /\ P \in Seq(Writing)
                /\ c = "grant" => \E r \in All(P) : Permit(u) \in Puts(r)
                /\ c = "revoke" => \E r \in All(P) : Permit(u) \in Takes(r)
                /\ \A r \in All(P) : /\ Puts(r) \subseteq IF c = "grant" THEN {Permit(u)} ELSE {}
                                     /\ Takes(r) \subseteq IF c = "revoke" THEN {Permit(u)} ELSE {}
  <2> DEFINE grant == Write({Account(u)}, {}, {Permit(u)}, {})
             revoke == Write({Account(u)}, {}, {}, {Permit(u)})
  <2>1. {Account(u)} \in SUBSET Facts /\ {Permit(u)} \in SUBSET Facts /\ {} \in SUBSET Facts
    BY FactSets
  <2>2. grant \in Writing /\ Puts(grant) = {Permit(u)} /\ Takes(grant) = {}
        /\ revoke \in Writing /\ Puts(revoke) = {} /\ Takes(revoke) = {Permit(u)}
    BY <2>1, WriteIs, Effects
  <2>3. PgPermission(u, c) = IF c = "grant" THEN <<grant>> ELSE IF c = "revoke" THEN <<revoke>> ELSE <<>>
    BY DEF PgPermission
  <2> HIDE DEF grant, revoke
  <2>4. All(<<grant>>) = {grant} /\ All(<<revoke>>) = {revoke} /\ All(<<>>) = {}
    BY AllFew
  <2>5. <<grant>> \in Seq(Writing) /\ <<revoke>> \in Seq(Writing) /\ <<>> \in Seq(Writing)
    BY <2>2, Short
  <2> QED BY <2>5, <2>2, <2>3, <2>4
<1>5. ASSUME NEW on \in BOOLEAN
      PROVE  /\ PgLogin(u, on) \in Writing /\ PgLogin(u, on) \in Simple
             /\ Puts(PgLogin(u, on)) = IF on THEN {Active(u)} ELSE {}
             /\ Takes(PgLogin(u, on)) = IF on THEN {} ELSE {Active(u)}
  <2> DEFINE add == IF on THEN {Active(u)} ELSE {}
             del == IF on THEN {} ELSE {Active(u)}
  <2>1. {Account(u)} \in SUBSET Facts /\ add \in SUBSET Facts /\ del \in SUBSET Facts /\ {} \in SUBSET Facts
        /\ del \ add = del
    BY FactSets
  <2> HIDE DEF add, del
  <2>2. Write({Account(u)}, {}, add, del) \in Writing /\ Write({Account(u)}, {}, add, del) \in Simple
    BY <2>1, WriteIs
  <2>3. Puts(Write({Account(u)}, {}, add, del)) = add /\ Takes(Write({Account(u)}, {}, add, del)) = del \ add
    BY Effects
  <2> QED BY <2>1, <2>2, <2>3 DEF PgLogin, add, del
<1> QED BY <1>2, <1>3, <1>4, <1>5, JoinsDo

-----------------------------------------------------------------------------
\* A transaction whose requests are those of x, then those of g and c.
LEMMA Tx ==
  ASSUME NEW x, Opens(x), NEW g \in Seq(Writing), NEW c \in Seq(Writing)
  PROVE  LET p == ((x \o g) \o c) \o <<Commit>>
         IN /\ p \in Seq(RequestsOn(Facts)) /\ Bracketed(p)
            /\ All(p) = All(x) \cup All(g) \cup All(c) \cup {Commit}
<1>1. Opens((x \o g) \o c)
  BY OpensBy
<1>2. x \in Seq(RequestsOn(Facts)) /\ g \in Seq(RequestsOn(Facts)) /\ c \in Seq(RequestsOn(Facts))
      /\ <<Commit>> \in Seq(RequestsOn(Facts))
  BY MarksDo DEF Opens, Writing
<1>3. x \o g \in Seq(RequestsOn(Facts)) /\ (x \o g) \o c \in Seq(RequestsOn(Facts))
      /\ ((x \o g) \o c) \o <<Commit>> \in Seq(RequestsOn(Facts))
  BY <1>2, Cat
<1>4. All(x \o g) = All(x) \cup All(g)
  BY <1>2, AllOf
<1>8. ASSUME NEW a \in Seq(RequestsOn(Facts)), NEW b \in Seq(RequestsOn(Facts))
      PROVE  All(a \o b) = All(a) \cup All(b)
  BY AllOf
<1>6. All((x \o g) \o c) = All(x \o g) \cup All(c)
  <2> DEFINE y == x \o g
  <2>1. y \in Seq(RequestsOn(Facts))
    BY <1>3
  <2> HIDE DEF y
  <2>2. All(y \o c) = All(y) \cup All(c)
    BY <1>2, <1>8, <2>1
  <2> QED BY <2>2 DEF y
<1>7. All(((x \o g) \o c) \o <<Commit>>) = All((x \o g) \o c) \cup All(<<Commit>>)
  <2> DEFINE y == (x \o g) \o c
  <2>1. y \in Seq(RequestsOn(Facts))
    BY <1>3
  <2> HIDE DEF y
  <2>2. All(y \o <<Commit>>) = All(y) \cup All(<<Commit>>)
    BY <1>2, <1>8, <2>1
  <2> QED BY <2>2 DEF y
<1>5. All(<<Commit>>) = {Commit}
  BY AllFew
<1> QED BY <1>1, <1>3, <1>4, <1>5, <1>6, <1>7, OpensBy

LEMMA PgCreates ==
  ASSUME NEW t \in Targets, NEW e \in Events, t.kind = "postgres", e.op = "create"
  PROVE  Devised(t, e, PgCreate(t, e))
<1> DEFINE u == e.user
           refs == t.defaults \o Asked(t, e)
           role == PgCreateRole(t, u)
           G == PgGrants(u, refs)
           P == PgPermission(u, e.permission)
           p == ((<<Begin, role>> \o G) \o P) \o <<Commit>>
<1>0. u \in Users /\ refs \in Seq(Refs) /\ e.permission \in {"none", "grant", "revoke", "deny", "outside"}
      /\ Joined(u, refs) = Joined(u, t.defaults) \cup Joined(u, Asked(t, e))
  BY Event, JoinedCat
<1>1. CASE PgInvalid(refs, e, TRUE)
  BY <1>1, DevisedReject DEF PgCreate
<1>2. CASE ~PgInvalid(refs, e, TRUE)
  <2>1. e.permission \in {"none", "grant", "revoke"}
    BY <1>0, <1>2 DEF PgInvalid
  <2>2. role \in Writing /\ {Account(u), Password(u)} \subseteq Puts(role) /\ Takes(role) = {}
        /\ Puts(role) \subseteq {Account(u), Password(u), Active(u)}
    <3> DEFINE add == {Account(u), Password(u)} \cup IF t.loginByDefault THEN {Active(u)} ELSE {}
    <3>1. add \in SUBSET Facts /\ {} \in SUBSET Facts /\ {Account(u)} \in SUBSET Facts
      BY <1>0, FactSets
    <3>2. {Account(u), Password(u)} \subseteq add /\ add \subseteq {Account(u), Password(u), Active(u)}
      OBVIOUS
    <3> HIDE DEF add
    <3>3. Write({}, {Account(u)}, add, {}) \in Writing
      BY <3>1, WriteIs
    <3>4. Puts(Write({}, {Account(u)}, add, {})) = add /\ Takes(Write({}, {Account(u)}, add, {})) = {} \ add
      BY Effects
    <3>5. role = Write({}, {Account(u)}, add, {})
      BY DEF PgCreateRole, add
    <3> HIDE DEF role
    <3> QED BY <3>2, <3>3, <3>4, <3>5
  <2> HIDE DEF role, refs, G, P
  <2>3. /\ G \in Seq(Writing) /\ \A f \in Joined(u, refs) : \E r \in All(G) : f \in Puts(r)
        /\ \A r \in All(G) : Takes(r) = {} /\ Puts(r) \subseteq RightsOf(u)
        /\ P \in Seq(Writing) /\ (e.permission = "grant" => \E r \in All(P) : Permit(u) \in Puts(r))
        /\ (e.permission = "revoke" => \E r \in All(P) : Permit(u) \in Takes(r))
        /\ \A r \in All(P) : /\ Takes(r) \subseteq IF e.permission = "revoke" THEN {Permit(u)} ELSE {}
                             /\ Puts(r) \subseteq IF e.permission = "grant" THEN {Permit(u)} ELSE {}
    BY <1>0, <2>1, PgParts DEF G, P
  <2>4. Opens(<<Begin, role>>) /\ All(<<Begin, role>>) = {Begin, role}
    BY <2>2, OpensBy, AllFew
  <2>5. /\ p \in Seq(RequestsOn(Facts)) /\ Bracketed(p)
        /\ All(p) = All(<<Begin, role>>) \cup All(G) \cup All(P) \cup {Commit}
    <3> DEFINE x == <<Begin, role>>
    <3>1. Opens(x) /\ G \in Seq(Writing) /\ P \in Seq(Writing)
      BY <2>3, <2>4
    <3> HIDE DEF x
    <3>2. LET q == ((x \o G) \o P) \o <<Commit>>
          IN q \in Seq(RequestsOn(Facts)) /\ Bracketed(q) /\ All(q) = All(x) \cup All(G) \cup All(P) \cup {Commit}
      BY <3>1, Tx
    <3> QED BY <3>2 DEF x
  <2> HIDE DEF p
  <2>6. /\ Due(t, e) = {Account(u), Password(u)} \cup (IF e.permission = "grant" THEN {Permit(u)} ELSE {})
                            \cup Joined(u, Asked(t, e))
        /\ Barred(t, e) = IF e.permission = "revoke" THEN {Permit(u)} ELSE {}
    <3>1. Gives(t, e) = (IF e.permission = "grant" THEN {Permit(u)} ELSE {}) \cup Joined(u, Asked(t, e))
      BY DEF Gives, Flagged, Sql, Refers
    <3>2. Denies(t, e) = IF e.permission = "revoke" THEN {Permit(u)} ELSE {}
      BY <2>1 DEF Denies, Flagged, Sql
    <3> QED BY <3>1, <3>2, DueBy, BarredBy
  <2>7. Takes(Begin) = {} /\ Takes(Commit) = {} /\ Puts(Begin) = {} /\ Puts(Commit) = {}
    BY MarksDo
  <2>8. ASSUME NEW f \in Due(t, e)
        PROVE  (\E r \in All(p) : f \in Puts(r)) /\ \A r \in All(p) : f \notin Takes(r)
    <3>1. \E r \in All(p) : f \in Puts(r)
      BY <1>0, <2>2, <2>3, <2>4, <2>5, <2>6
    <3>2. e.permission = "revoke" => f # Permit(u)
      <4>1. Joined(u, Asked(t, e)) \subseteq RightsOf(u)
        BY <1>0, Event, Refs1
      <4> QED BY <1>0, <2>6, <4>1, Apart
    <3> QED BY <2>2, <2>3, <2>4, <2>5, <2>7, <3>1, <3>2
  <2>11. ASSUME NEW f \in Barred(t, e)
         PROVE  (\E r \in All(p) : f \in Takes(r)) /\ \A r \in All(p) : f \notin Puts(r)
    <3>1. f = Permit(u) /\ e.permission = "revoke"
      BY <2>6
    <3>2. Permit(u) \notin {Account(u), Password(u), Active(u)} \cup RightsOf(u)
      BY <1>0, Apart
    <3> QED BY <2>2, <2>3, <2>4, <2>5, <2>7, <3>1, <3>2
  <2>9. Fulfils(p, Due(t, e), Barred(t, e))
    BY <2>5, <2>8, <2>11, FulfilsBy, DueFacts
  <2>10. PgCreate(t, e) = p
    BY <1>2 DEF PgCreate, p, G, P, refs, role
  <2> QED BY <2>5, <2>9, <2>10 DEF Devised
<1> QED BY <1>1, <1>2

LEMMA PgUpdates ==
  ASSUME NEW t \in Targets, NEW e \in Events, t.kind = "postgres", e.op = "update"
  PROVE  Devised(t, e, PgUpdate(t, e))
<1> DEFINE u == e.user
           refs == Asked(t, e)
           login == PgLogin(u, e.enabled = "on")
           L == IF e.enabled = "unset" THEN <<>> ELSE <<login>>
           G == PgGrants(u, refs)
           P == PgPermission(u, e.permission)
           p == (((<<Begin>> \o L) \o G) \o P) \o <<Commit>>
<1>0. u \in Users /\ refs \in Seq(Refs) /\ e.permission \in {"none", "grant", "revoke", "deny", "outside"}
  BY Event
<1>1. CASE PgInvalid(refs, e, FALSE)
  BY <1>1, DevisedReject DEF PgUpdate
<1>2. CASE ~PgInvalid(refs, e, FALSE)
  <2>1. e.permission \in {"none", "grant", "revoke"}
    BY <1>0, <1>2 DEF PgInvalid
  <2>2. /\ login \in Writing /\ Puts(login) \subseteq {Active(u)} /\ Takes(login) \subseteq {Active(u)}
        /\ e.enabled = "off" => Puts(login) = {} /\ Takes(login) = {Active(u)}
        /\ e.enabled = "on" => Puts(login) = {Active(u)} /\ Takes(login) = {}
    <3>1. (e.enabled = "on") \in BOOLEAN
      OBVIOUS
    <3>2. PICK on \in BOOLEAN : on = (e.enabled = "on")
      BY <3>1
    <3>3. /\ PgLogin(u, on) \in Writing
          /\ Puts(PgLogin(u, on)) = IF on THEN {Active(u)} ELSE {}
          /\ Takes(PgLogin(u, on)) = IF on THEN {} ELSE {Active(u)}
      BY <1>0, PgParts
    <3>4. login = PgLogin(u, on)
      BY <3>2
    <3> HIDE DEF login
    <3>5. (e.enabled = "off" => ~on) /\ (e.enabled = "on" => on)
      BY <3>2
    <3> QED BY <3>3, <3>4, <3>5
  <2>3. /\ G \in Seq(Writing) /\ \A f \in Joined(u, refs) : \E r \in All(G) : f \in Puts(r)
        /\ \A r \in All(G) : Takes(r) = {} /\ Puts(r) \subseteq RightsOf(u)
        /\ P \in Seq(Writing) /\ (e.permission = "grant" => \E r \in All(P) : Permit(u) \in Puts(r))
        /\ (e.permission = "revoke" => \E r \in All(P) : Permit(u) \in Takes(r))
        /\ \A r \in All(P) : /\ Takes(r) \subseteq IF e.permission = "revoke" THEN {Permit(u)} ELSE {}
                             /\ Puts(r) \subseteq IF e.permission = "grant" THEN {Permit(u)} ELSE {}
    BY <1>0, <2>1, PgParts
  <2> HIDE DEF login, G, P
  <2>4. /\ L \in Seq(Writing) /\ \A r \in All(L) : r = login
        /\ e.enabled \in {"on", "off"} => login \in All(L)
    <3>1. <<login>> \in Seq(Writing) /\ <<>> \in Seq(Writing) /\ All(<<login>>) = {login} /\ All(<<>>) = {}
      BY <2>2, Short, AllFew
    <3> QED BY <3>1
  <2> HIDE DEF L
  <2>5. Opens(<<Begin>> \o L) /\ All(<<Begin>> \o L) = {Begin} \cup All(L)
    <3>1. Opens(<<Begin>> \o L)
      BY <2>4, OpensBy
    <3>2. <<Begin>> \in Seq(RequestsOn(Facts)) /\ L \in Seq(RequestsOn(Facts))
      BY <2>4, MarksDo DEF Writing
    <3>3. All(<<Begin>> \o L) = All(<<Begin>>) \cup All(L)
      <4> DEFINE b == <<Begin>>
      <4>1. b \in Seq(RequestsOn(Facts))
        BY <3>2
      <4> HIDE DEF b
      <4>2. All(b \o L) = All(b) \cup All(L)
        BY <3>2, <4>1, AllOf
      <4> QED BY <4>2 DEF b
    <3>4. All(<<Begin>>) = {Begin}
      BY AllFew
    <3> QED BY <3>1, <3>3, <3>4
  <2>6. /\ p \in Seq(RequestsOn(Facts)) /\ Bracketed(p)
        /\ All(p) = All(<<Begin>> \o L) \cup All(G) \cup All(P) \cup {Commit}
    <3> DEFINE x == <<Begin>> \o L
    <3>1. Opens(x)
      BY <2>5
    <3> HIDE DEF x
    <3>2. LET q == ((x \o G) \o P) \o <<Commit>>
          IN q \in Seq(RequestsOn(Facts)) /\ Bracketed(q) /\ All(q) = All(x) \cup All(G) \cup All(P) \cup {Commit}
      BY <2>3, <3>1, Tx
    <3> QED BY <3>2 DEF x
  <2> HIDE DEF p
  <2>7. /\ Due(t, e) = On(e) \cup (IF e.permission = "grant" THEN {Permit(u)} ELSE {}) \cup Joined(u, refs)
        /\ Barred(t, e) = Off(e) \cup IF e.permission = "revoke" THEN {Permit(u)} ELSE {}
    <3>1. Gives(t, e) = On(e) \cup (IF e.permission = "grant" THEN {Permit(u)} ELSE {}) \cup Joined(u, refs)
      BY DEF Gives, Flagged, Sql, Refers
    <3>2. Denies(t, e) = Off(e) \cup IF e.permission = "revoke" THEN {Permit(u)} ELSE {}
      BY <2>1 DEF Denies, Flagged, Sql
    <3> QED BY <3>1, <3>2, DueBy, BarredBy
  <2>8. Takes(Begin) = {} /\ Takes(Commit) = {} /\ Puts(Begin) = {} /\ Puts(Commit) = {}
    BY MarksDo
  <2>9. /\ Joined(u, refs) \subseteq RightsOf(u) /\ Permit(u) \notin RightsOf(u)
        /\ Active(u) \notin RightsOf(u) /\ Active(u) # Permit(u)
    BY <1>0, Refs1, Apart
  <2>10. ASSUME NEW f \in Due(t, e)
         PROVE  (\E r \in All(p) : f \in Puts(r)) /\ \A r \in All(p) : f \notin Takes(r)
    <3>1. \E r \in All(p) : f \in Puts(r)
      BY <2>2, <2>3, <2>4, <2>5, <2>6, <2>7 DEF On
    <3>2. (f = Active(u) => e.enabled = "on") /\ (e.permission = "revoke" => f # Permit(u))
      BY <2>7, <2>9 DEF On
    <3>3. ASSUME NEW r \in All(p) PROVE f \notin Takes(r)
      <4>1. r \in {Begin, login, Commit} \/ r \in All(G) \/ r \in All(P)
        BY <2>4, <2>5, <2>6
      <4> QED BY <2>2, <2>3, <2>8, <3>2, <4>1
    <3> QED BY <3>1, <3>3
  <2>11. ASSUME NEW f \in Barred(t, e)
         PROVE  (\E r \in All(p) : f \in Takes(r)) /\ \A r \in All(p) : f \notin Puts(r)
    <3>1. (f = Active(u) /\ e.enabled = "off") \/ (f = Permit(u) /\ e.permission = "revoke")
      BY <2>7 DEF Off
    <3>2. CASE f = Active(u) /\ e.enabled = "off"
      <4>1. login \in All(p) /\ f \in Takes(login)
        BY <2>2, <2>4, <2>5, <2>6, <3>2
      <4>2. ASSUME NEW r \in All(p) PROVE f \notin Puts(r)
        BY <2>2, <2>3, <2>4, <2>5, <2>6, <2>8, <2>9, <3>2
      <4> QED BY <4>1, <4>2
    <3>3. CASE f = Permit(u) /\ e.permission = "revoke"
      <4>1. \E r \in All(p) : f \in Takes(r)
        BY <2>3, <2>6, <3>3
      <4>2. ASSUME NEW r \in All(p) PROVE f \notin Puts(r)
        BY <2>2, <2>3, <2>4, <2>5, <2>6, <2>8, <2>9, <3>3
      <4> QED BY <4>1, <4>2
    <3> QED BY <3>1, <3>2, <3>3
  <2>12. Fulfils(p, Due(t, e), Barred(t, e))
    BY <2>6, <2>10, <2>11, FulfilsBy, DueFacts
  <2>13. PgUpdate(t, e) = p
    BY <1>2 DEF PgUpdate, p, G, P, L, login
  <2> QED BY <2>6, <2>12, <2>13 DEF Devised
<1> QED BY <1>1, <1>2

LEMMA PgDevised ==
  ASSUME NEW t \in Targets, NEW e \in Events, t.kind = "postgres"
  PROVE  Devised(t, e, PostgresRolePlan(t, e))
<1> DEFINE u == e.user
           g == e.group
<1>0. u \in Users /\ g \in Refs /\ e.op \in Ops
  BY Event
<1>f. /\ {Account(u)} \in SUBSET Facts /\ {Group(g)} \in SUBSET Facts /\ {Password(u)} \in SUBSET Facts
      /\ {Permit(u)} \in SUBSET Facts /\ UserFacts(u) \in SUBSET Facts /\ GroupFacts(g) \in SUBSET Facts
      /\ {Account(u), Group(g)} \in SUBSET Facts /\ {Right(u, g)} \in SUBSET Facts
      /\ {Group(g), Open(g)} \in SUBSET Facts /\ {} \in SUBSET Facts
      /\ Account(u) \in UserFacts(u) /\ Open(g) \in GroupFacts(g)
  BY <1>0, FactSets
<1>l. ASSUME NEW on \in BOOLEAN, Due(t, e) = (IF on THEN {Active(u)} ELSE {}),
             Barred(t, e) = (IF on THEN {} ELSE {Active(u)})
      PROVE  Devised(t, e, <<PgLogin(u, on)>>)
  <2>1. /\ PgLogin(u, on) \in Simple
        /\ Puts(PgLogin(u, on)) = IF on THEN {Active(u)} ELSE {}
        /\ Takes(PgLogin(u, on)) = IF on THEN {} ELSE {Active(u)}
    BY <1>0, PgParts, EmptySeq
  <2> QED BY <1>l, <2>1, DevisedOne
<1>1. CASE e.op = "create"
  BY <1>1, PgCreates DEF PostgresRolePlan
<1>2. CASE e.op = "update"
  BY <1>2, PgUpdates DEF PostgresRolePlan
<1>3. CASE e.op = "delete"
  <2>1. Due(t, e) = {} /\ (Removes(t, e) <=> t.physical)
        /\ Barred(t, e) = IF t.physical THEN {Account(u)} ELSE {Active(u)}
    BY <1>3, DueBy, BarredBy DEF Removes
  <2>2. t.physical => Devised(t, e, <<Write({Account(u)}, {Permit(u)}, {}, UserFacts(u))>>)
    BY <1>f, <2>1, DevisedWrite
  <2>3. ~t.physical => Devised(t, e, <<PgLogin(u, FALSE)>>)
    BY <1>l, <2>1
  <2> QED BY <1>3, <2>2, <2>3, DevisedReject DEF PostgresRolePlan, PgDelete
<1>4. CASE e.op \in {"enable", "disable"}
  <2>1. /\ e.op = "enable" => Due(t, e) = {Active(u)} /\ Barred(t, e) = {}
        /\ e.op = "disable" => Due(t, e) = {} /\ Barred(t, e) = {Active(u)}
    BY DueBy, BarredBy
  <2>2. e.op = "enable" => Devised(t, e, <<PgLogin(u, TRUE)>>)
    BY <1>l, <2>1
  <2>3. e.op = "disable" => Devised(t, e, <<PgLogin(u, FALSE)>>)
    BY <1>l, <2>1
  <2>4. PgLogin(u, e.op = "enable") = IF e.op = "enable" THEN PgLogin(u, TRUE) ELSE PgLogin(u, FALSE)
    BY DEF PgLogin
  <2>5. PostgresRolePlan(t, e) = IF e.given = "no id" THEN <<Reject>> ELSE <<PgLogin(u, e.op = "enable")>>
    BY <1>4 DEF PostgresRolePlan
  <2> QED BY <1>4, <2>2, <2>3, <2>4, <2>5, DevisedReject
<1>5. CASE e.op = "changePassword"
  <2>1. Due(t, e) = {Password(u)} /\ Barred(t, e) = {}
    BY <1>5, DueBy, BarredBy
  <2>2. Devised(t, e, <<Write({Account(u)}, {}, {Password(u)}, {})>>)
    BY <1>f, <2>1, DevisedWrite
  <2> QED BY <1>5, <2>2, DevisedReject DEF PostgresRolePlan, PgPassword
<1>6. CASE e.op \in {"groupCreate", "groupDelete", "addMember", "removeMember"}
  <2>1. /\ e.op = "groupCreate" => Due(t, e) = {Group(g)} /\ Barred(t, e) = {}
        /\ e.op = "groupDelete" => Due(t, e) = {} /\ Barred(t, e) = {Open(g)}
        /\ e.op = "addMember" => Due(t, e) = {Right(u, g)} /\ Barred(t, e) = {}
        /\ e.op = "removeMember" => Due(t, e) = {} /\ Barred(t, e) = {Right(u, g)}
    BY DueBy, BarredBy
  <2>2. e.op = "groupCreate" => Devised(t, e, <<Write({}, {Group(g)}, {Group(g), Open(g)}, {})>>)
    BY <1>f, <2>1, DevisedWrite
  <2>3. e.op = "groupDelete" => Devised(t, e, <<Write({Group(g)}, {}, {}, GroupFacts(g))>>)
    BY <1>f, <2>1, DevisedWrite
  <2>4. e.op = "addMember" => Devised(t, e, <<PgGrant(u, g)>>)
    BY <1>f, <2>1, DevisedWrite DEF PgGrant
  <2>5. e.op = "removeMember" =>
          Devised(t, e, <<Write({Account(u), Group(g)}, {}, {}, {Right(u, g)})>>)
    BY <1>f, <2>1, DevisedWrite
  <2> QED BY <1>6, <2>2, <2>3, <2>4, <2>5, DevisedReject DEF PostgresRolePlan, PgGroup
<1>7. CASE e.op = "read"
  <2>1. Due(t, e) = {} /\ Barred(t, e) = {}
    BY <1>7, DueBy, BarredBy
  <2> QED BY <1>7, <2>1, DevisedRead DEF PostgresRolePlan
<1>8. CASE e.op \in {"addAttributes", "removeAttributes", "groupUpdate"}
  BY <1>8, DevisedReject DEF PostgresRolePlan
<1> QED BY <1>0, <1>1, <1>2, <1>3, <1>4, <1>5, <1>6, <1>7, <1>8 DEF Ops

-----------------------------------------------------------------------------
LEMMA SimpleSeq == ASSUME NEW s \in Seq(Simple) PROVE s \in Seq(RequestsOn(Facts))
  BY DEF Simple

LEMMA Chain ==
  ASSUME NEW a \in Seq(Simple), NEW b \in Seq(Simple), NEW c \in Seq(Simple)
  PROVE  /\ (a \o b) \o c \in Seq(Simple) /\ (a \o b) \o c \in Seq(RequestsOn(Facts))
         /\ All((a \o b) \o c) = All(a) \cup All(b) \cup All(c)
<1> DEFINE x == a \o b
<1>1. x \in Seq(Simple) /\ All(x) = All(a) \cup All(b)
  BY AllOf, Cat
<1> HIDE DEF x
<1>2. x \o c \in Seq(Simple) /\ All(x \o c) = All(x) \cup All(c)
  BY <1>1, AllOf, Cat
<1>3. x \o c \in Seq(RequestsOn(Facts))
  BY <1>2 DEF Simple
<1> QED BY <1>1, <1>2, <1>3 DEF x

LEMMA FulfilsBoth ==
  ASSUME NEW p, NEW W, NEW U, NEW V, Fulfils(p, W, {}), Fulfils(p, {}, U), Fulfils(p, {}, V)
  PROVE  Fulfils(p, W, U \cup V)
BY DEF Fulfils

LEMMA DevisedSimple ==
  ASSUME NEW t, NEW e, NEW p \in Seq(Simple), Fulfils(p, Due(t, e), Barred(t, e)), Piecewise(t, e)
  PROVE  Devised(t, e, p)
BY DEF Devised

LEMMA MsParts ==
  ASSUME NEW u \in Users, NEW refs \in Seq(Refs)
  PROVE  /\ MsJoins(u, refs) \in Seq(Simple)
         /\ Reject \notin All(MsJoins(u, refs)) =>
              /\ \A f \in Joined(u, refs) : \E r \in All(MsJoins(u, refs)) : f \in Puts(r)
              /\ \A r \in All(MsJoins(u, refs)) : Takes(r) = {} /\ Puts(r) \subseteq RightsOf(u)
         /\ \A c \in {"none", "grant", "revoke", "deny", "outside"} :
              LET P == MsPermission(u, c)
              IN /\ P \in Seq(Simple)
                 /\ Reject \notin All(P) =>
                      /\ c = "grant" => \E r \in All(P) : Permit(u) \in Puts(r)
                      /\ c \in {"revoke", "deny"} => \E r \in All(P) : Permit(u) \in Takes(r)
                      /\ \A r \in All(P) :
                           /\ Puts(r) \subseteq IF c = "grant" THEN {Permit(u)} ELSE {}
                           /\ Takes(r) \subseteq IF c \in {"revoke", "deny"} THEN {Permit(u)} ELSE {}
         /\ \A on \in BOOLEAN :
              /\ MsEnabled(u, on) \in Simple
              /\ Puts(MsEnabled(u, on)) = IF on THEN {Active(u)} ELSE {}
              /\ Takes(MsEnabled(u, on)) = IF on THEN {} ELSE {Active(u)}
<1>r. <<Reject>> \in Seq(Simple) /\ All(<<Reject>>) = {Reject}
  BY MarksDo, Short, AllFew
<1>1. ASSUME Malformed \notin Named(refs)
      PROVE  /\ MsJoins(u, refs) \in Seq(Writing)
             /\ \A f \in Joined(u, refs) : \E r \in All(MsJoins(u, refs)) : f \in Puts(r)
             /\ \A r \in All(MsJoins(u, refs)) : Takes(r) = {} /\ Puts(r) \subseteq RightsOf(u)
  <2>1. ASSUME NEW i \in 1 .. Len(refs)
        PROVE  /\ MsJoin(u, refs[i]) \in Writing
               /\ MsJoin(u, refs[i]).add = {Right(u, refs[i])} /\ MsJoin(u, refs[i]).del = {}
    <3>1. /\ {Mapped(u), Group(refs[i])} \in SUBSET Facts /\ {Right(u, refs[i])} \in SUBSET Facts
          /\ {} \in SUBSET Facts
      BY FactSets
    <3>2. MsJoin(u, refs[i]) \in Writing
      BY <3>1, WriteIs DEF MsJoin
    <3> QED BY <3>2 DEF MsJoin, Write
  <2>2. MsJoins(u, refs) = [i \in 1 .. Len(refs) |-> MsJoin(u, refs[i])]
    BY <1>1 DEF MsJoins
  <2>3. /\ MsJoins(u, refs) \in Seq(Writing) /\ Len(MsJoins(u, refs)) = Len(refs)
        /\ \A i \in 1 .. Len(refs) : MsJoins(u, refs)[i] = MsJoin(u, refs[i])
    BY <2>1, <2>2, IsASeq
  <2>4. \A i \in 1 .. Len(refs) : MsJoins(u, refs)[i].add = {Right(u, refs[i])}
                                   /\ MsJoins(u, refs)[i].del = {}
    BY <2>1, <2>3
  <2> QED BY <2>3, <2>4, JoinsDo
<1>2. Malformed \in Named(refs) => MsJoins(u, refs) = <<Reject>>
  BY DEF MsJoins
<1>3. ASSUME NEW s \in Seq(Writing) PROVE s \in Seq(Simple)
  BY DEF Writing, Simple
<1>4. ASSUME NEW c \in {"none", "grant", "revoke", "deny", "outside"}
      PROVE  LET P == MsPermission(u, c)
             IN /\ P \in Seq(Simple)
                /\ Reject \notin All(P) =>
                     /\ c = "grant" => \E r \in All(P) : Permit(u) \in Puts(r)
                     /\ c \in {"revoke", "deny"} => \E r \in All(P) : Permit(u) \in Takes(r)
                     /\ \A r \in All(P) :
                          /\ Puts(r) \subseteq IF c = "grant" THEN {Permit(u)} ELSE {}
                          /\ Takes(r) \subseteq IF c \in {"revoke", "deny"} THEN {Permit(u)} ELSE {}
  <2> DEFINE grant == Write({Mapped(u)}, {}, {Permit(u)}, {})
             revoke == Write({Mapped(u)}, {}, {}, {Permit(u)})
  <2>1. {Mapped(u)} \in SUBSET Facts /\ {Permit(u)} \in SUBSET Facts /\ {} \in SUBSET Facts
    BY FactSets
  <2>2. grant \in Simple /\ Puts(grant) = {Permit(u)} /\ Takes(grant) = {}
        /\ revoke \in Simple /\ Puts(revoke) = {} /\ Takes(revoke) = {Permit(u)}
    BY <2>1, WriteIs, Effects
  <2>3. MsPermission(u, c) = IF c = "grant" THEN <<grant>> ELSE IF c \in {"revoke", "deny"}
                             THEN <<revoke>> ELSE IF c = "outside" THEN <<Reject>> ELSE <<>>
    BY DEF MsPermission
  <2> HIDE DEF grant, revoke
  <2>4. All(<<grant>>) = {grant} /\ All(<<revoke>>) = {revoke} /\ All(<<>>) = {}
    BY AllFew
  <2>5. <<grant>> \in Seq(Simple) /\ <<revoke>> \in Seq(Simple) /\ <<>> \in Seq(Simple)
    BY <2>2, Short
  <2> QED BY <1>r, <2>2, <2>3, <2>4, <2>5
<1>5. ASSUME NEW on \in BOOLEAN
      PROVE  /\ MsEnabled(u, on) \in Simple
             /\ Puts(MsEnabled(u, on)) = IF on THEN {Active(u)} ELSE {}
             /\ Takes(MsEnabled(u, on)) = IF on THEN {} ELSE {Active(u)}
  <2> DEFINE add == IF on THEN {Active(u)} ELSE {}
             del == IF on THEN {} ELSE {Active(u)}
  <2>1. {Account(u)} \in SUBSET Facts /\ add \in SUBSET Facts /\ del \in SUBSET Facts /\ {} \in SUBSET Facts
        /\ del \ add = del
    BY FactSets
  <2> HIDE DEF add, del
  <2>2. Write({Account(u)}, {}, add, del) \in Simple
    BY <2>1, WriteIs
  <2>3. Puts(Write({Account(u)}, {}, add, del)) = add /\ Takes(Write({Account(u)}, {}, add, del)) = del \ add
    BY Effects
  <2> QED BY <2>1, <2>2, <2>3 DEF MsEnabled, add, del
<1>6. MsJoins(u, refs) \in Seq(Simple)
  BY <1>r, <1>1, <1>2, <1>3
<1>7. Reject \notin All(MsJoins(u, refs)) => Malformed \notin Named(refs)
  BY <1>r, <1>2
<1> QED BY <1>1, <1>4, <1>5, <1>6, <1>7

LEMMA MsCreates ==
  ASSUME NEW t \in Targets, NEW e \in Events, t.kind = "mssql", e.op = "create"
  PROVE  Devised(t, e, MsCreate(t, e))
<1> DEFINE u == e.user
           refs == t.defaults \o Asked(t, e)
           login == MsCreateLogin(u)
           user == MsCreateUser(u)
           J == MsJoins(u, refs)
           P == MsPermission(u, e.permission)
           off == MsEnabled(u, FALSE)
           p == (<<login, user>> \o J) \o P
           q == p \o (IF e.enabled = "off" THEN <<off>> ELSE <<>>)
<1>0. u \in Users /\ refs \in Seq(Refs) /\ e.permission \in {"none", "grant", "revoke", "deny", "outside"}
      /\ Joined(u, refs) = Joined(u, t.defaults) \cup Joined(u, Asked(t, e))
  BY Event, JoinedCat
<1>1. CASE e.given # "all"
  BY <1>1, DevisedReject DEF MsCreate
<1>2. CASE e.given = "all"
  <2>1. /\ login \in Simple /\ Puts(login) = {Account(u), Password(u), Active(u)} /\ Takes(login) = {}
        /\ user \in Simple /\ Takes(user) = {} /\ Puts(user) = {Mapped(u)}
    <3>1. /\ {Account(u), Password(u), Active(u)} \in SUBSET Facts /\ {} \in SUBSET Facts
          /\ {Account(u)} \in SUBSET Facts /\ {Mapped(u)} \in SUBSET Facts
      BY <1>0, FactSets
    <3>2. login \in Simple /\ user \in Simple
      BY <3>1, WriteIs DEF MsCreateLogin, MsCreateUser
    <3>3. /\ Puts(login) = {Account(u), Password(u), Active(u)}
          /\ Takes(login) = {} \ {Account(u), Password(u), Active(u)}
          /\ Takes(user) = {} \ {Mapped(u)} /\ Puts(user) = {Mapped(u)}
      BY Effects DEF MsCreateLogin, MsCreateUser
    <3> QED BY <3>2, <3>3
  <2> HIDE DEF refs
  <2>2. J \in Seq(Simple) /\ P \in Seq(Simple)
    BY <1>0, MsParts
  <2>3. /\ Reject \notin All(J) =>
             /\ \A f \in Joined(u, refs) : \E r \in All(J) : f \in Puts(r)
             /\ \A r \in All(J) : Takes(r) = {} /\ Puts(r) \subseteq RightsOf(u)
        /\ Reject \notin All(P) =>
             /\ e.permission = "grant" => \E r \in All(P) : Permit(u) \in Puts(r)
             /\ e.permission \in {"revoke", "deny"} => \E r \in All(P) : Permit(u) \in Takes(r)
             /\ \A r \in All(P) :
                  /\ Takes(r) \subseteq IF e.permission \in {"revoke", "deny"} THEN {Permit(u)} ELSE {}
                  /\ Puts(r) \subseteq IF e.permission = "grant" THEN {Permit(u)} ELSE {}
    BY <1>0, MsParts
  <2>4. off \in Simple /\ Takes(off) = {Active(u)} /\ Puts(off) = {}
    BY <1>0, MsParts
  <2> HIDE DEF login, user, refs, J, P, off
  <2>5. <<login, user>> \in Seq(Simple) /\ All(<<login, user>>) = {login, user}
    BY <2>1, Pair, AllFew
  <2>6. /\ p \in Seq(Simple) /\ p \in Seq(RequestsOn(Facts))
        /\ All(p) = All(<<login, user>>) \cup All(J) \cup All(P)
    BY <2>2, <2>5, Chain
  <2> HIDE DEF p
  <2>7. /\ q \in Seq(Simple) /\ q \in Seq(RequestsOn(Facts))
        /\ All(q) = All(p) \cup IF e.enabled = "off" THEN {off} ELSE {}
    <3>1. <<off>> \in Seq(Simple) /\ <<>> \in Seq(Simple) /\ All(<<off>>) = {off} /\ All(<<>>) = {}
      BY <2>4, Short, AllFew
    <3>2. p \o <<off>> \in Seq(Simple) /\ All(p \o <<off>>) = All(p) \cup {off}
      <4> DEFINE b == <<off>>
      <4>1. b \in Seq(Simple) /\ All(b) = {off}
        BY <3>1
      <4> HIDE DEF b
      <4>2. p \o b \in Seq(Simple) /\ All(p \o b) = All(p) \cup All(b)
        BY <2>6, <4>1, AllOf, Cat
      <4> QED BY <4>1, <4>2 DEF b
    <3>3. p \o <<>> = p
      BY <2>6, ConcatEmptySeq
    <3>4. q \in Seq(Simple)
      BY <2>6, <3>2, <3>3
    <3>5. q \in Seq(RequestsOn(Facts))
      BY <3>4, SimpleSeq
    <3> QED BY <3>2, <3>3, <3>4, <3>5
  <2> DEFINE revoked == IF e.permission \in {"revoke", "deny"} THEN {Permit(u)} ELSE {}
  <2>8. /\ Due(t, e) = {Account(u), Password(u)} \cup On(e)
                         \cup (IF e.permission = "grant" THEN {Permit(u)} ELSE {})
                         \cup Joined(u, Asked(t, e))
        /\ Barred(t, e) = Off(e) \cup revoked
    <3>1. Gives(t, e) = On(e) \cup (IF e.permission = "grant" THEN {Permit(u)} ELSE {})
                          \cup Joined(u, Asked(t, e))
      BY DEF Gives, Flagged, Sql, Refers
    <3>2. Denies(t, e) = Off(e) \cup revoked
      BY DEF Denies, Flagged, Sql
    <3> QED BY <3>1, <3>2, DueBy, BarredBy
  <2>9. CASE Reject \in All(q)
    <3>1. Fulfils(q, Due(t, e), Barred(t, e))
      BY <2>7, <2>9, FulfilsNot, MarksDo
    <3>2. MsCreate(t, e) = q
      BY <1>2 DEF MsCreate, q, p, J, P, off, login, user, refs
    <3> QED BY <2>7, <3>1, <3>2, DevisedSimple DEF Piecewise
  <2>10. CASE Reject \notin All(q)
    <3>1. Joined(u, Asked(t, e)) \subseteq RightsOf(u)
      BY <1>0, Event, Refs1
    <3>2. ASSUME NEW f \in Due(t, e)
          PROVE  (\E r \in All(q) : f \in Puts(r)) /\ \A r \in All(q) : f \notin Takes(r)
      <4>1. \E r \in All(q) : f \in Puts(r)
        <5>1. CASE f \in {Account(u), Password(u)} \cup On(e)
          <6>1. f \in Puts(login)
            BY <2>1, <5>1 DEF On
          <6> QED BY <2>5, <2>6, <2>7, <6>1
        <5>2. CASE f = Permit(u) /\ e.permission = "grant"
          BY <2>3, <2>6, <2>7, <2>10, <5>2
        <5>3. CASE f \in Joined(u, Asked(t, e))
          BY <1>0, <2>3, <2>6, <2>7, <2>10, <5>3
        <5> QED BY <2>8, <5>1, <5>2, <5>3
      <4>2. (f = Active(u) => e.enabled = "on")
            /\ (e.permission \in {"revoke", "deny"} => f # Permit(u))
        BY <1>0, <2>8, <3>1, Apart DEF On
      <4>3. ASSUME NEW r \in All(q) PROVE f \notin Takes(r)
        <5>1. \/ r \in {login, user} \/ r \in All(J) \/ r \in All(P)
              \/ r = off /\ e.enabled = "off"
          BY <2>5, <2>6, <2>7
        <5> QED BY <2>1, <2>3, <2>4, <2>6, <2>7, <2>10, <4>2, <5>1
      <4> QED BY <4>1, <4>3
    <3>3. Fulfils(q, Due(t, e), {})
      BY <2>7, <3>2, FulfilsBy, DueFacts
    <3>4. Fulfils(q, {}, Off(e))
      <4>1. CASE e.enabled = "off"
        <5>1. q = p \o <<off>> /\ Off(e) = Takes(off) /\ off \in RequestsOn(Facts)
          BY <2>4, <4>1 DEF Simple, Off
        <5>2. Fulfils(p \o <<off>>, {}, Takes(off))
          BY <2>6, <5>1, FulfilsLast
        <5> QED BY <5>1, <5>2
      <4>2. CASE e.enabled # "off"
        BY <4>2 DEF Fulfils, Off
      <4> QED BY <4>1, <4>2
    <3>6. Fulfils(q, {}, revoked)
      <4>1. ASSUME NEW f \in revoked
            PROVE  (\E r \in All(q) : f \in Takes(r)) /\ \A r \in All(q) : f \notin Puts(r)
        <5>1. f = Permit(u) /\ e.permission \in {"revoke", "deny"}
          OBVIOUS
        <5>2. \E r \in All(q) : f \in Takes(r)
          BY <2>3, <2>6, <2>7, <2>10, <5>1
        <5>3. f \notin {Account(u), Password(u), Active(u), Mapped(u)} \cup RightsOf(u)
          BY <1>0, <5>1, Apart
        <5>4. ASSUME NEW r \in All(q) PROVE f \notin Puts(r)
          <6>1. r \in {login, user, off} \/ r \in All(J) \/ r \in All(P)
            BY <2>5, <2>6, <2>7
          <6> QED BY <2>1, <2>3, <2>4, <2>6, <2>7, <2>10, <5>1, <5>3, <6>1
        <5> QED BY <5>2, <5>4
      <4>2. revoked \in SUBSET Facts
        BY <1>0, FactSets
      <4> HIDE DEF revoked
      <4> QED BY <2>7, <4>1, <4>2, FulfilsBy
    <3>5. MsCreate(t, e) = q
      BY <1>2 DEF MsCreate, q, p, J, P, off, login, user, refs
    <3>7. Fulfils(q, Due(t, e), Barred(t, e))
      BY <2>8, <3>3, <3>4, <3>6, FulfilsBoth
    <3> QED BY <2>7, <3>5, <3>7, DevisedSimple DEF Piecewise
  <2> QED BY <2>9, <2>10
<1> QED BY <1>1, <1>2

LEMMA MsUpdates ==
  ASSUME NEW t \in Targets, NEW e \in Events, t.kind = "mssql", e.op = "update"
  PROVE  Devised(t, e, MsUpdate(t, e))
<1> DEFINE u == e.user
           refs == Asked(t, e)
           login == MsEnabled(u, e.enabled = "on")
           L == IF e.enabled = "unset" THEN <<>> ELSE <<login>>
           J == MsJoins(u, refs)
           P == MsPermission(u, e.permission)
           p == (L \o J) \o P
<1>0. u \in Users /\ refs \in Seq(Refs) /\ e.permission \in {"none", "grant", "revoke", "deny", "outside"}
  BY Event
<1>1. CASE e.given = "no id"
  BY <1>1, DevisedReject DEF MsUpdate
<1>2. CASE e.given # "no id"
  <2>2. /\ login \in Simple /\ Puts(login) \subseteq {Active(u)} /\ Takes(login) \subseteq {Active(u)}
        /\ e.enabled = "off" => Puts(login) = {} /\ Takes(login) = {Active(u)}
        /\ e.enabled = "on" => Puts(login) = {Active(u)} /\ Takes(login) = {}
    <3>1. (e.enabled = "on") \in BOOLEAN
      OBVIOUS
    <3>2. PICK on \in BOOLEAN : on = (e.enabled = "on")
      BY <3>1
    <3>3. /\ MsEnabled(u, on) \in Simple
          /\ Puts(MsEnabled(u, on)) = IF on THEN {Active(u)} ELSE {}
          /\ Takes(MsEnabled(u, on)) = IF on THEN {} ELSE {Active(u)}
      BY <1>0, MsParts
    <3>4. login = MsEnabled(u, on)
      BY <3>2
    <3> HIDE DEF login
    <3>5. (e.enabled = "off" => ~on) /\ (e.enabled = "on" => on)
      BY <3>2
    <3> QED BY <3>3, <3>4, <3>5
  <2>1. J \in Seq(Simple) /\ P \in Seq(Simple)
    BY <1>0, MsParts
  <2>3. /\ Reject \notin All(J) =>
             /\ \A f \in Joined(u, refs) : \E r \in All(J) : f \in Puts(r)
             /\ \A r \in All(J) : Takes(r) = {} /\ Puts(r) \subseteq RightsOf(u)
        /\ Reject \notin All(P) =>
             /\ e.permission = "grant" => \E r \in All(P) : Permit(u) \in Puts(r)
             /\ e.permission \in {"revoke", "deny"} => \E r \in All(P) : Permit(u) \in Takes(r)
             /\ \A r \in All(P) :
                  /\ Takes(r) \subseteq IF e.permission \in {"revoke", "deny"} THEN {Permit(u)} ELSE {}
                  /\ Puts(r) \subseteq IF e.permission = "grant" THEN {Permit(u)} ELSE {}
    BY <1>0, MsParts
  <2> HIDE DEF login, J, P
  <2>4. /\ L \in Seq(Simple) /\ \A r \in All(L) : r = login
        /\ e.enabled \in {"on", "off"} => login \in All(L)
    <3>1. <<login>> \in Seq(Simple) /\ <<>> \in Seq(Simple) /\ All(<<login>>) = {login} /\ All(<<>>) = {}
      BY <2>2, Short, AllFew
    <3> QED BY <3>1
  <2> HIDE DEF L
  <2>6. /\ p \in Seq(Simple) /\ p \in Seq(RequestsOn(Facts))
        /\ All(p) = All(L) \cup All(J) \cup All(P)
    BY <2>1, <2>4, Chain
  <2> HIDE DEF p
  <2>7. /\ Due(t, e) = On(e) \cup (IF e.permission = "grant" THEN {Permit(u)} ELSE {}) \cup Joined(u, refs)
        /\ Barred(t, e) = Off(e) \cup IF e.permission \in {"revoke", "deny"} THEN {Permit(u)} ELSE {}
    <3>1. Gives(t, e) = On(e) \cup (IF e.permission = "grant" THEN {Permit(u)} ELSE {}) \cup Joined(u, refs)
      BY DEF Gives, Flagged, Sql, Refers
    <3>2. Denies(t, e) = Off(e) \cup IF e.permission \in {"revoke", "deny"} THEN {Permit(u)} ELSE {}
      BY DEF Denies, Flagged, Sql
    <3> QED BY <3>1, <3>2, DueBy, BarredBy
  <2>9. /\ Joined(u, refs) \subseteq RightsOf(u) /\ Permit(u) \notin RightsOf(u)
        /\ Active(u) \notin RightsOf(u) /\ Active(u) # Permit(u)
    BY <1>0, Refs1, Apart
  <2>13. MsUpdate(t, e) = p
    BY <1>2 DEF MsUpdate, p, J, P, L, login
  <2>12. Fulfils(p, Due(t, e), Barred(t, e))
    <3>1. CASE Reject \in All(p)
      BY <2>6, <3>1, FulfilsNot, MarksDo
    <3>2. CASE Reject \notin All(p)
      <4>1. ASSUME NEW f \in Due(t, e)
            PROVE  (\E r \in All(p) : f \in Puts(r)) /\ \A r \in All(p) : f \notin Takes(r)
        <5>1. \E r \in All(p) : f \in Puts(r)
          BY <2>2, <2>3, <2>4, <2>6, <2>7, <3>2 DEF On
        <5>2. (f = Active(u) => e.enabled = "on")
              /\ (e.permission \in {"revoke", "deny"} => f # Permit(u))
          BY <2>7, <2>9 DEF On
        <5>3. ASSUME NEW r \in All(p) PROVE f \notin Takes(r)
          <6>1. r = login \/ r \in All(J) \/ r \in All(P)
            BY <2>4, <2>6
          <6> QED BY <2>2, <2>3, <2>6, <3>2, <5>2, <6>1
        <5> QED BY <5>1, <5>3
      <4>2. ASSUME NEW f \in Barred(t, e)
            PROVE  (\E r \in All(p) : f \in Takes(r)) /\ \A r \in All(p) : f \notin Puts(r)
        <5>1. \/ f = Active(u) /\ e.enabled = "off"
              \/ f = Permit(u) /\ e.permission \in {"revoke", "deny"}
          BY <2>7 DEF Off
        <5>2. \E r \in All(p) : f \in Takes(r)
          BY <2>2, <2>3, <2>4, <2>6, <3>2, <5>1
        <5>3. ASSUME NEW r \in All(p) PROVE f \notin Puts(r)
          <6>1. r = login \/ r \in All(J) \/ r \in All(P)
            BY <2>4, <2>6
          <6> QED BY <2>2, <2>3, <2>6, <2>9, <3>2, <5>1, <6>1
        <5> QED BY <5>2, <5>3
      <4> QED BY <2>6, <4>1, <4>2, FulfilsBy, DueFacts
    <3> QED BY <3>1, <3>2
  <2> QED BY <2>6, <2>12, <2>13, DevisedSimple DEF Piecewise
<1> QED BY <1>1, <1>2

LEMMA MsDeletes ==
  ASSUME NEW t \in Targets, NEW e \in Events, t.kind = "mssql", e.op = "delete"
  PROVE  Devised(t, e, MsDelete(t, e))
<1> DEFINE u == e.user
           user == MsDropUser(u)
           login == MsDropLogin(u)
<1>0. u \in Users
  BY Event
<1>1. Due(t, e) = {} /\ Barred(t, e) = IF t.physical THEN {Account(u)} ELSE {Active(u)}
  BY DueBy, BarredBy DEF Removes
<1>2. CASE e.given = "no id"
  BY <1>2, DevisedReject DEF MsDelete
<1>3. CASE e.given # "no id" /\ t.physical
  <2>1. /\ {Mapped(u), Permit(u)} \cup RightsOf(u) \in SUBSET Facts /\ {} \in SUBSET Facts
        /\ {Account(u), Active(u), Attrs(u), Password(u), Valid(u)} \in SUBSET Facts
    BY <1>0, FactSets
  <2>2. user \in Simple /\ login \in Simple
    BY <2>1, WriteIs DEF MsDropUser, MsDropLogin
  <2>3. /\ Puts(user) = {} /\ Puts(login) = {}
        /\ Takes(login) = {Account(u), Active(u), Attrs(u), Password(u), Valid(u)} \ {}
    BY Effects DEF MsDropUser, MsDropLogin
  <2> HIDE DEF user, login
  <2>4. <<user, login>> \in Seq(Simple) /\ All(<<user, login>>) = {user, login}
    BY <2>2, Pair, AllFew
  <2>5. <<user, login>> \in Seq(RequestsOn(Facts))
    BY <2>4, SimpleSeq
  <2>6. ASSUME NEW f \in Barred(t, e)
        PROVE  /\ \E r \in All(<<user, login>>) : f \in Takes(r)
               /\ \A r \in All(<<user, login>>) : f \notin Puts(r)
    BY <1>1, <1>3, <2>3, <2>4
  <2>7. Fulfils(<<user, login>>, Due(t, e), Barred(t, e))
    BY <1>1, <2>5, <2>6, FulfilsBy, DueFacts
  <2>8. Devised(t, e, <<user, login>>)
    BY <2>4, <2>7, DevisedSimple DEF Piecewise
  <2> QED BY <1>3, <2>8 DEF MsDelete, user, login
<1>4. CASE e.given # "no id" /\ ~t.physical
  <2>1. MsEnabled(u, FALSE) \in Simple /\ Takes(MsEnabled(u, FALSE)) = {Active(u)}
    BY <1>0, MsParts, EmptySeq
  <2> QED BY <1>1, <1>4, <2>1, DevisedOne DEF MsDelete
<1> QED BY <1>2, <1>3, <1>4

LEMMA MsDevised ==
  ASSUME NEW t \in Targets, NEW e \in Events, t.kind = "mssql"
  PROVE  Devised(t, e, MssqlLoginPlan(t, e))
<1> DEFINE u == e.user
           g == e.group
<1>0. u \in Users /\ g \in Refs /\ e.op \in Ops
  BY Event
<1>f. /\ {Account(u)} \in SUBSET Facts /\ {Group(g)} \in SUBSET Facts /\ {Password(u)} \in SUBSET Facts
      /\ {Mapped(u), Group(g)} \in SUBSET Facts /\ {Right(u, g)} \in SUBSET Facts
      /\ {Group(g), Open(g)} \in SUBSET Facts /\ {} \in SUBSET Facts /\ MembersOf(g) \in SUBSET Facts
  BY <1>0, FactSets
<1>1. CASE e.op = "create"
  BY <1>1, MsCreates DEF MssqlLoginPlan
<1>2. CASE e.op = "update"
  BY <1>2, MsUpdates DEF MssqlLoginPlan
<1>3. CASE e.op = "delete"
  BY <1>3, MsDeletes DEF MssqlLoginPlan
<1>4. CASE e.op \in {"enable", "disable"}
  <2>1. /\ e.op = "enable" => Due(t, e) = {Active(u)} /\ Barred(t, e) = {}
        /\ e.op = "disable" => Due(t, e) = {} /\ Barred(t, e) = {Active(u)}
    BY DueBy, BarredBy
  <2>e. /\ \A on \in BOOLEAN : MsEnabled(u, on) \in Simple
        /\ Puts(MsEnabled(u, TRUE)) = {Active(u)} /\ Takes(MsEnabled(u, FALSE)) = {Active(u)}
    BY <1>0, MsParts, EmptySeq
  <2>2. e.op = "enable" => Devised(t, e, <<MsEnabled(u, TRUE)>>)
    BY <2>1, <2>e, DevisedOne
  <2>3. e.op = "disable" => Devised(t, e, <<MsEnabled(u, FALSE)>>)
    BY <2>1, <2>e, DevisedOne
  <2>4. MsEnabled(u, e.op = "enable") = IF e.op = "enable" THEN MsEnabled(u, TRUE) ELSE MsEnabled(u, FALSE)
    BY DEF MsEnabled
  <2>5. MssqlLoginPlan(t, e) = IF e.given = "no id" THEN <<Reject>> ELSE <<MsEnabled(u, e.op = "enable")>>
    BY <1>4 DEF MssqlLoginPlan
  <2> QED BY <1>4, <2>2, <2>3, <2>4, <2>5, DevisedReject
<1>5. CASE e.op = "changePassword"
  <2>1. Due(t, e) = {Password(u)} /\ Barred(t, e) = {}
    BY <1>5, DueBy, BarredBy
  <2>2. Devised(t, e, <<Write({Account(u)}, {}, {Password(u)}, {})>>)
    BY <1>f, <2>1, DevisedWrite
  <2> QED BY <1>5, <2>2, DevisedReject DEF MssqlLoginPlan, MsPassword
<1>6. CASE e.op \in {"groupCreate", "groupUpdate", "groupDelete", "addMember", "removeMember"}
  <2>1. /\ e.op = "groupCreate" => Due(t, e) = {Group(g)} /\ Barred(t, e) = {}
        /\ e.op = "groupUpdate" => Due(t, e) = {} /\ Barred(t, e) = {}
        /\ e.op = "groupDelete" => Due(t, e) = {} /\ Barred(t, e) = {Open(g)}
        /\ e.op = "addMember" => Due(t, e) = {Right(u, g)} /\ Barred(t, e) = {}
        /\ e.op = "removeMember" => Due(t, e) = {} /\ Barred(t, e) = {Right(u, g)}
    BY DueBy, BarredBy
  <2>2. e.op = "groupCreate" => Devised(t, e, <<Write({}, {}, {Group(g), Open(g)}, {})>>)
    BY <1>f, <2>1, DevisedWrite
  <2>3. e.op = "groupDelete" => Devised(t, e, <<Write({}, MembersOf(g), {}, {Group(g), Open(g)})>>)
    BY <1>f, <2>1, DevisedWrite
  <2>4. e.op = "addMember" => Devised(t, e, <<MsJoin(u, g)>>)
    BY <1>f, <2>1, DevisedWrite DEF MsJoin
  <2>5. e.op = "removeMember" =>
          Devised(t, e, <<Write({Mapped(u), Group(g)}, {}, {}, {Right(u, g)})>>)
    BY <1>f, <2>1, DevisedWrite
  <2>6. e.op = "groupUpdate" => Devised(t, e, <<>>)
    <3>1. <<>> \in Seq(Simple) /\ Once(<<>>)
      BY DEF Once
    <3> QED BY <2>1, <3>1 DEF Devised, Fulfils
  <2> QED BY <1>6, <2>2, <2>3, <2>4, <2>5, <2>6, DevisedReject DEF MssqlLoginPlan, MsGroup
<1>7. CASE e.op = "read"
  <2>1. Due(t, e) = {} /\ Barred(t, e) = {}
    BY <1>7, DueBy, BarredBy
  <2> QED BY <1>7, <2>1, DevisedRead DEF MssqlLoginPlan
<1>8. CASE e.op \in {"addAttributes", "removeAttributes"}
  BY <1>8, DevisedReject DEF MssqlLoginPlan
<1> QED BY <1>0, <1>1, <1>2, <1>3, <1>4, <1>5, <1>6, <1>7, <1>8 DEF Ops

-----------------------------------------------------------------------------
\* What is wanted and unwanted of the connectors whose requests are no commands.
LEMMA PlainDue ==
  ASSUME NEW t \in Targets, NEW e \in Events,
         t.kind \in {"cmdbuild", "zabbix", "passwork", "agent", "consultant"}
  PROVE  /\ e.op = "create" =>
              /\ Due(t, e) \subseteq {Account(e.user), Password(e.user), Attrs(e.user)} \cup Joined(e.user, e.rights)
                   \cup IF t.kind \in {"cmdbuild", "agent"} THEN On(e) ELSE {}
              /\ t.kind \in {"cmdbuild", "passwork"} =>
                   Due(t, e) \subseteq {Account(e.user), Password(e.user), Attrs(e.user)}
                     \cup Joined(e.user, Asked(t, e)) \cup On(e) /\ On(e) \cap Off(e) = {}
              /\ t.kind = "passwork" =>
                   Due(t, e) \subseteq {Account(e.user), Password(e.user), Attrs(e.user)}
                     \cup Joined(e.user, Asked(t, e))
              /\ t.kind = "consultant" => Due(t, e) = {Account(e.user), Password(e.user), Attrs(e.user)}
         /\ e.op \in {"update", "addAttributes"} =>
              /\ t.kind \in {"passwork", "consultant"} => Due(t, e) = {Attrs(e.user)}
              /\ t.kind = "cmdbuild" => Due(t, e) = {Attrs(e.user)} \cup On(e)
              /\ t.kind = "zabbix" => Due(t, e) = {Attrs(e.user)} \cup Joined(e.user, e.rights)
              /\ t.kind = "agent" => Due(t, e) = {Attrs(e.user)} \cup On(e) \cup Joined(e.user, e.rights)
         /\ e.op \in {"create", "update", "addAttributes"} =>
              Barred(t, e) = IF t.kind \in {"cmdbuild", "agent"} THEN Off(e) ELSE {}
         /\ e.op = "enable" => Due(t, e) = {Active(e.user)} /\ Barred(t, e) = {}
         /\ e.op = "disable" => Due(t, e) = {} /\ Barred(t, e) = {Active(e.user)}
         /\ e.op = "delete" => Due(t, e) = {} /\ Barred(t, e) =
              IF t.kind # "cmdbuild" /\ (t.kind # "agent" \/ t.physical)
                THEN {Account(e.user)} ELSE {Active(e.user)}
         /\ e.op = "changePassword" => Due(t, e) = {Password(e.user)} /\ Barred(t, e) = {}
         /\ e.op = "removeAttributes" => Due(t, e) = {} /\ Barred(t, e) = {Attrs(e.user)}
         /\ e.op = "addMember" => Due(t, e) = {Right(e.user, e.group)} /\ Barred(t, e) = {}
         /\ e.op = "removeMember" => Due(t, e) = {} /\ Barred(t, e) = {Right(e.user, e.group)}
         /\ e.op = "groupCreate" => Due(t, e) = {Group(e.group)} /\ Barred(t, e) = {}
         /\ e.op = "groupDelete" => Due(t, e) = {} /\ Barred(t, e) = {Open(e.group)}
         /\ e.op \in {"groupUpdate", "read"} => Due(t, e) = {} /\ Barred(t, e) = {}
<1>s. ~Sql(t) /\ t.kind # "ssh" /\ t.kind # "mssql" /\ (Flagged(t, e) <=> t.kind \in {"cmdbuild", "agent"})
  BY DEF Sql, Flagged
<1>1. /\ t.kind \in {"zabbix", "agent"} /\ e.op \in Describing => Refers(t, e) = e.rights
      /\ t.kind = "consultant" \/ (t.kind \in {"cmdbuild", "passwork"} /\ e.op # "create") => Refers(t, e) = <<>>
      /\ t.kind \in {"cmdbuild", "passwork"} /\ e.op = "create" => Refers(t, e) = Asked(t, e)
  BY <1>s DEF Refers, Sql
<1>2. Joined(e.user, <<>>) = {} /\ Joined(e.user, Asked(t, e)) \subseteq Joined(e.user, e.rights)
  BY JoinedNone, Event
<1>3. Gives(t, e) = {Attrs(e.user)} \cup (IF t.kind \in {"cmdbuild", "agent"} THEN On(e) ELSE {})
                      \cup Joined(e.user, Refers(t, e))
  BY <1>s DEF Gives
<1>8. Denies(t, e) = IF t.kind \in {"cmdbuild", "agent"} THEN Off(e) ELSE {}
  BY <1>s DEF Denies
<1>4. Removes(t, e) <=> e.op = "delete" /\ t.kind # "cmdbuild" /\ (t.kind # "agent" \/ t.physical)
  BY DEF Removes
<1>9. On(e) \cap Off(e) = {}
  BY DEF On, Off
<1>5. ASSUME e.op = "create"
      PROVE  /\ Due(t, e) \subseteq {Account(e.user), Password(e.user), Attrs(e.user)} \cup Joined(e.user, e.rights)
                  \cup IF t.kind \in {"cmdbuild", "agent"} THEN On(e) ELSE {}
             /\ t.kind \in {"cmdbuild", "passwork"} =>
                  Due(t, e) \subseteq {Account(e.user), Password(e.user), Attrs(e.user)}
                    \cup Joined(e.user, Asked(t, e)) \cup On(e)
             /\ t.kind = "passwork" =>
                  Due(t, e) \subseteq {Account(e.user), Password(e.user), Attrs(e.user)}
                    \cup Joined(e.user, Asked(t, e))
             /\ t.kind = "consultant" => Due(t, e) = {Account(e.user), Password(e.user), Attrs(e.user)}
  <2>1. Due(t, e) = {Account(e.user), Password(e.user)} \cup Gives(t, e)
    BY <1>5, DueBy
  <2>2. Joined(e.user, Refers(t, e)) \subseteq Joined(e.user, e.rights)
    BY <1>1, <1>2, <1>5 DEF Describing
  <2> QED BY <1>1, <1>2, <1>3, <1>5, <2>1, <2>2
<1>6. ASSUME e.op \in {"update", "addAttributes"}
      PROVE  /\ t.kind \in {"passwork", "consultant"} => Due(t, e) = {Attrs(e.user)}
             /\ t.kind = "cmdbuild" => Due(t, e) = {Attrs(e.user)} \cup On(e)
             /\ t.kind = "zabbix" => Due(t, e) = {Attrs(e.user)} \cup Joined(e.user, e.rights)
             /\ t.kind = "agent" => Due(t, e) = {Attrs(e.user)} \cup On(e) \cup Joined(e.user, e.rights)
  <2>1. Due(t, e) = Gives(t, e)
    BY <1>6, DueBy
  <2> QED BY <1>1, <1>2, <1>3, <1>6, <2>1 DEF Describing
<1>7. e.op \in {"create", "update", "addAttributes"} =>
        Barred(t, e) = IF t.kind \in {"cmdbuild", "agent"} THEN Off(e) ELSE {}
  BY <1>8, BarredBy
<1>10. /\ e.op = "enable" => Due(t, e) = {Active(e.user)} /\ Barred(t, e) = {}
       /\ e.op = "disable" => Due(t, e) = {} /\ Barred(t, e) = {Active(e.user)}
       /\ e.op = "delete" => Due(t, e) = {} /\ Barred(t, e) =
            IF t.kind # "cmdbuild" /\ (t.kind # "agent" \/ t.physical)
              THEN {Account(e.user)} ELSE {Active(e.user)}
       /\ e.op = "changePassword" => Due(t, e) = {Password(e.user)} /\ Barred(t, e) = {}
       /\ e.op = "removeAttributes" => Due(t, e) = {} /\ Barred(t, e) = {Attrs(e.user)}
  BY <1>s, <1>4, DueBy, BarredBy
<1>11. /\ e.op = "addMember" => Due(t, e) = {Right(e.user, e.group)} /\ Barred(t, e) = {}
       /\ e.op = "removeMember" => Due(t, e) = {} /\ Barred(t, e) = {Right(e.user, e.group)}
       /\ e.op = "groupCreate" => Due(t, e) = {Group(e.group)} /\ Barred(t, e) = {}
       /\ e.op = "groupDelete" => Due(t, e) = {} /\ Barred(t, e) = {Open(e.group)}
       /\ e.op \in {"groupUpdate", "read"} => Due(t, e) = {} /\ Barred(t, e) = {}
  BY DueBy, BarredBy
<1> QED BY <1>5, <1>6, <1>7, <1>9, <1>10, <1>11

-----------------------------------------------------------------------------
LEMMA PassworkJoinsDo ==
  ASSUME NEW u \in Users, NEW refs \in Seq(Refs)
  PROVE  /\ PassworkJoins(u, refs) \in Seq(Simple)
         /\ \A f \in Joined(u, refs) : \E r \in All(PassworkJoins(u, refs)) : f \in Puts(r)
         /\ \A r \in All(PassworkJoins(u, refs)) : Takes(r) = {} /\ Puts(r) \subseteq RightsOf(u)
<1> DEFINE join(i) == Write({Account(u), Group(refs[i])}, {}, {Right(u, refs[i])}, {})
<1>1. ASSUME NEW i \in 1 .. Len(refs)
      PROVE  /\ join(i) \in Writing /\ join(i) \in Simple
             /\ join(i).add = {Right(u, refs[i])} /\ join(i).del = {}
  <2>1. /\ {Account(u), Group(refs[i])} \in SUBSET Facts /\ {Right(u, refs[i])} \in SUBSET Facts
        /\ {} \in SUBSET Facts
    BY FactSets
  <2>2. join(i) \in Writing /\ join(i) \in Simple
    BY <2>1, WriteIs
  <2> QED BY <2>2 DEF Write
<1>2. PassworkJoins(u, refs) = [i \in 1 .. Len(refs) |-> join(i)]
  BY DEF PassworkJoins
<1> HIDE DEF join
<1>3. PassworkJoins(u, refs) \in Seq(Writing) /\ PassworkJoins(u, refs) \in Seq(Simple)
      /\ Len(PassworkJoins(u, refs)) = Len(refs)
      /\ \A i \in 1 .. Len(refs) : PassworkJoins(u, refs)[i] = join(i)
  BY <1>1, <1>2, IsASeq
<1>4. \A i \in 1 .. Len(refs) : PassworkJoins(u, refs)[i].add = {Right(u, refs[i])}
                                 /\ PassworkJoins(u, refs)[i].del = {}
  BY <1>1, <1>3
<1> QED BY <1>3, <1>4, JoinsDo

LEMMA PassworkCreates ==
  ASSUME NEW t \in Targets, NEW e \in Events, t.kind = "passwork", e.op = "create"
  PROVE  Devised(t, e, PassworkCreate(t, e))
<1> DEFINE u == e.user
           refs == PassworkGroups(t, e)
           add == {Account(u), Active(u), Attrs(u), Password(u)}
           post == Write(Known(e, {}), {Account(u)}, add, {})
           resolve == PassworkResolve(t, refs)
           joins == PassworkJoins(u, refs)
           p == resolve \o <<post>> \o joins
<1>0. u \in Users
  BY Event
<1>1. refs \in Seq(Refs) /\ Joined(u, Asked(t, e)) \subseteq Joined(u, refs)
  <2>1. e.rights \in Seq(Refs) /\ t.defaults \in Seq(Refs) /\ <<>> \in Seq(Refs)
    BY Event, EmptySeq
  <2> DEFINE a == t.defaults
             b == e.rights
  <2> HIDE DEF a, b
  <2>3. a \in Seq(Refs) /\ b \in Seq(Refs)
    BY <2>1 DEF a, b
  <2>5. a \o b \in Seq(Refs)
    BY <2>3, Cat
  <2>6. Joined(u, a \o b) = Joined(u, a) \cup Joined(u, b) /\ Joined(u, <<>>) = {}
    BY <2>3, JoinedCat
  <2>4. a \o b \in Seq(Refs) /\ Joined(u, b) \subseteq Joined(u, a \o b) /\ Joined(u, <<>>) = {}
    BY <2>5, <2>6
  <2>2. t.defaults \o e.rights \in Seq(Refs) /\ Joined(u, e.rights) \subseteq Joined(u, t.defaults \o e.rights)
        /\ Joined(u, <<>>) = {}
    BY <2>4 DEF a, b
  <2> QED BY <2>1, <2>2 DEF PassworkGroups, Asked
<1>2. post \in Simple /\ Puts(post) = add /\ Takes(post) = {}
  <2>1. Known(e, {}) \subseteq Facts /\ {Account(u)} \subseteq Facts /\ add \subseteq Facts
    BY <1>0, FactSets, KnownIn
  <2> HIDE DEF add
  <2>2. post \in Simple
    BY <2>1, WriteIs
  <2>3. Puts(post) = add /\ Takes(post) = {} \ add
    BY Effects
  <2> QED BY <2>2, <2>3
<1> HIDE DEF post
<1>3. resolve \in Seq(Simple) /\ \A r \in All(resolve) : Puts(r) = {} /\ Takes(r) = {}
  <2> DEFINE look == Read(Looked(refs), {})
  <2>1. look \in Simple /\ look.kind = "read"
    <3>1. Looked(refs) \in SUBSET Facts /\ {} \in SUBSET Facts
      BY <1>1, LookedIn
    <3> QED BY <3>1, ReadDoes
  <2>2. resolve = IF refs = <<>> \/ ~t.byName THEN <<>> ELSE <<look>>
    BY DEF PassworkResolve
  <2> HIDE DEF look, resolve
  <2>3. All(<<look>>) = {look} /\ All(<<>>) = {}
    BY AllFew
  <2>4. Puts(look) = {} /\ Takes(look) = {}
    BY <2>1 DEF Puts, Takes
  <2> QED BY <2>1, <2>2, <2>3, <2>4, Short
<1>4. joins \in Seq(Simple)
      /\ (\A f \in Joined(u, refs) : \E r \in All(joins) : f \in Puts(r))
      /\ \A r \in All(joins) : Takes(r) = {} /\ Puts(r) \subseteq RightsOf(u)
  BY <1>0, <1>1, PassworkJoinsDo
<1> HIDE DEF refs, resolve, joins
<1>5. p \in Seq(Simple) /\ p \in Seq(RequestsOn(Facts)) /\ All(p) = All(resolve) \cup {post} \cup All(joins)
  <2>1. <<post>> \in Seq(Simple) /\ All(<<post>>) = {post}
    BY <1>2, AllFew, Short
  <2> DEFINE y == <<post>>
  <2> HIDE DEF y
  <2>2. y \in Seq(Simple) /\ All(y) = {post}
    BY <2>1 DEF y
  <2>3. (resolve \o y) \o joins \in Seq(Simple) /\ (resolve \o y) \o joins \in Seq(RequestsOn(Facts))
        /\ All((resolve \o y) \o joins) = All(resolve) \cup All(y) \cup All(joins)
    BY <1>3, <1>4, <2>2, Chain
  <2> QED BY <2>2, <2>3 DEF y
<1> HIDE DEF p
<1>6. Due(t, e) \subseteq {Account(u), Password(u), Attrs(u)} \cup Joined(u, Asked(t, e)) /\ Barred(t, e) = {}
  BY PlainDue
<1>7. \A f \in Due(t, e) : (\E r \in All(p) : f \in Puts(r)) /\ \A r \in All(p) : f \notin Takes(r)
  BY <1>1, <1>2, <1>3, <1>4, <1>5, <1>6
<1>8. Fulfils(p, Due(t, e), Barred(t, e))
  BY <1>5, <1>6, <1>7, FulfilsBy, DueFacts
<1>9. Devised(t, e, p)
  BY <1>5, <1>8, DevisedSimple DEF Piecewise
<1> QED BY <1>9, DevisedReject DEF PassworkCreate, p, post, resolve, joins, refs

LEMMA PassworkDevised ==
  ASSUME NEW t \in Targets, NEW e \in Events, t.kind = "passwork"
  PROVE  Devised(t, e, PassworkPlan(t, e))
<1> DEFINE u == e.user
           g == e.group
<1>0. u \in Users /\ g \in Refs /\ e.op \in Ops
  BY Event
<1>f. /\ {Account(u)} \in SUBSET Facts /\ {Group(g)} \in SUBSET Facts /\ {Attrs(u)} \in SUBSET Facts
      /\ {Account(u), Group(g)} \in SUBSET Facts /\ {Right(u, g)} \in SUBSET Facts
      /\ {Group(g), Open(g)} \in SUBSET Facts /\ {} \in SUBSET Facts /\ {Active(u)} \in SUBSET Facts
      /\ UserFacts(u) \in SUBSET Facts /\ GroupFacts(g) \in SUBSET Facts
      /\ Account(u) \in UserFacts(u) /\ Open(g) \in GroupFacts(g)
      /\ Known(e, {}) \in SUBSET Facts
  BY <1>0, FactSets, KnownIn
<1>1. CASE e.op = "create"
  BY <1>1, PassworkCreates DEF PassworkPlan, PassworkUnsupported
<1>2. CASE e.op = "groupCreate"
  <2>1. Due(t, e) = {Group(g)} /\ Barred(t, e) = {}
    BY <1>2, PlainDue
  <2>2. Devised(t, e, <<Write(Known(e, {}), {Group(g)}, {Group(g), Open(g)}, {})>>)
    BY <1>f, <2>1, DevisedWrite
  <2> QED BY <1>2, <2>2 DEF PassworkPlan, PassworkUnsupported
<1>3. CASE e.op \notin {"create", "groupCreate"} /\ e.op \notin PassworkUnsupported
  <2>1. /\ e.op = "update" => Devised(t, e, <<Write({Account(u)}, {}, {Attrs(u)}, {})>>)
        /\ e.op = "delete" => Devised(t, e, <<Write({Account(u)}, {}, {}, UserFacts(u))>>)
        /\ e.op = "enable" => Devised(t, e, <<Write({Account(u)}, {}, {Active(u)}, {})>>)
        /\ e.op = "disable" => Devised(t, e, <<Write({Account(u)}, {}, {}, {Active(u)})>>)
        /\ e.op = "addMember" => Devised(t, e, <<Write({Account(u), Group(g)}, {}, {Right(u, g)}, {})>>)
        /\ e.op = "removeMember" => Devised(t, e, <<Write({Group(g)}, {}, {}, {Right(u, g)})>>)
    BY <1>f, DevisedWrite, PlainDue
  <2>2. /\ e.op = "groupUpdate" => Devised(t, e, <<Write({Group(g)}, {}, {}, {})>>)
        /\ e.op = "groupDelete" => Devised(t, e, <<Write({Group(g)}, {}, {}, GroupFacts(g))>>)
        /\ e.op = "read" => Devised(t, e, <<Read({}, {})>>)
    BY <1>f, DevisedWrite, DevisedRead, PlainDue
  <2>3. e.op \in {"update", "delete", "enable", "disable", "addMember", "removeMember", "groupUpdate",
                  "groupDelete", "read"}
    BY <1>0, <1>3 DEF Ops, PassworkUnsupported
  <2>4. Devised(t, e, <<PassworkRequest(t, e)>>)
    BY <2>1, <2>2, <2>3 DEF PassworkRequest
  <2> QED BY <1>3, <2>4, DevisedReject DEF PassworkPlan
<1>4. CASE e.op \in PassworkUnsupported
  BY <1>4, DevisedReject DEF PassworkPlan, PassworkUnsupported
<1> QED BY <1>1, <1>2, <1>3, <1>4

-----------------------------------------------------------------------------
LEMMA DevisedTwo ==
  ASSUME NEW t \in Targets, NEW e \in Events, Piecewise(t, e), NEW a \in Simple, NEW b \in Simple,
         \/ b.kind = "reject"
         \/ /\ \A f \in Due(t, e) : f \in Puts(a) \cup Puts(b) /\ f \notin Takes(a) \cup Takes(b)
            /\ \A f \in Barred(t, e) : f \in Takes(a) \cup Takes(b) /\ f \notin Puts(a) \cup Puts(b)
  PROVE  Devised(t, e, <<a, b>>)
<1> DEFINE p == <<a, b>>
<1>1. p \in Seq(Simple) /\ All(p) = {a, b}
  BY Pair, AllFew
<1> HIDE DEF p
<1>2. p \in Seq(RequestsOn(Facts))
  BY <1>1, SimpleSeq
<1>3. ASSUME b.kind = "reject" PROVE Fulfils(p, Due(t, e), Barred(t, e))
  <2>1. b \in All(p)
    BY <1>1
  <2>2. Fulfils(p, Due(t, e), Barred(t, e))
    BY <1>2, <1>3, <2>1, FulfilsNot
  <2> QED BY <2>2
<1>4. ASSUME b.kind # "reject" PROVE Fulfils(p, Due(t, e), Barred(t, e))
  <2>1. \A f \in Due(t, e) : (\E r \in All(p) : f \in Puts(r)) /\ \A r \in All(p) : f \notin Takes(r)
    BY <1>1, <1>4
  <2>2. \A f \in Barred(t, e) : (\E r \in All(p) : f \in Takes(r)) /\ \A r \in All(p) : f \notin Puts(r)
    BY <1>1, <1>4
  <2>3. Fulfils(p, Due(t, e), Barred(t, e))
    BY <1>2, <2>1, <2>2, FulfilsBy, DueFacts
  <2> QED BY <2>3
<1>5. Devised(t, e, p)
  BY <1>1, <1>3, <1>4, DevisedSimple
<1> QED BY <1>5 DEF p

LEMMA Joining == ASSUME NEW S, NEW a \in S, NEW b \in S PROVE <<a>> \o <<b>> = <<a, b>>
<1>1. <<a>> \in Seq(S) /\ <<b>> \in Seq(S) /\ <<a, b>> \in Seq(S)
  OBVIOUS
<1>2. <<a>> \o <<b>> \in Seq(S)
  BY <1>1, Cat
<1>3. Len(<<a>> \o <<b>>) = Len(<<a, b>>)
      /\ \A i \in 1 .. Len(<<a>> \o <<b>>) : (<<a>> \o <<b>>)[i] = <<a, b>>[i]
  BY <1>1
<1> QED BY <1>1, <1>2, <1>3, SeqEqual

LEMMA SshParts ==
  ASSUME NEW u \in Users
  PROVE  \E off \in Simple, on \in Simple, hash \in Simple :
           /\ SshDisable(u) = <<off>> /\ SshEnable(u) = <<on>> /\ Chpasswd(u) = <<hash>>
           /\ Puts(off) = {} /\ Takes(off) = {Active(u), Valid(u)}
           /\ Puts(on) = {Active(u), Valid(u)} /\ Takes(on) = {}
           /\ Puts(hash) = {Password(u), Active(u)} /\ Takes(hash) = {}
<1> DEFINE off == Write({Account(u)}, {}, {}, {Active(u), Valid(u)})
           on == Write({Account(u), Password(u)}, {}, {Active(u), Valid(u)}, {})
           hash == Write({Account(u)}, {}, {Password(u), Active(u)}, {})
<1>f. /\ {Account(u)} \in SUBSET Facts /\ {Active(u), Valid(u)} \in SUBSET Facts
      /\ {Account(u), Password(u)} \in SUBSET Facts /\ {Password(u), Active(u)} \in SUBSET Facts
      /\ {} \in SUBSET Facts
  BY FactSets
<1>1. off \in Simple /\ on \in Simple /\ hash \in Simple
  BY <1>f, WriteIs
<1>2. /\ Puts(off) = {} /\ Takes(off) = {Active(u), Valid(u)} \ {}
      /\ Puts(on) = {Active(u), Valid(u)} /\ Takes(on) = {} \ {Active(u), Valid(u)}
      /\ Puts(hash) = {Password(u), Active(u)} /\ Takes(hash) = {} \ {Password(u), Active(u)}
  BY Effects
<1>3. SshDisable(u) = <<off>> /\ SshEnable(u) = <<on>> /\ Chpasswd(u) = <<hash>>
  BY DEF SshDisable, SshEnable, Chpasswd
<1> HIDE DEF off, on, hash
<1> QED BY <1>1, <1>2, <1>3

LEMMA SshCreates ==
  ASSUME NEW t \in Targets, NEW e \in Events, t.kind = "ssh", e.op = "create"
  PROVE  Devised(t, e, SshCreate(t, e))
<1> DEFINE u == e.user
           refs == LinuxGroups(t, e)
           add == {Account(u), Valid(u), Attrs(u)} \cup Joined(u, refs)
           useradd == Write(Required(refs), {Account(u)}, add, {})
<1>0. u \in Users
  BY Event
<1>1. refs \in Seq(Refs) /\ Joined(u, e.rights) \subseteq Joined(u, refs)
  <2> DEFINE a == t.defaults
             b == e.rights
  <2>1. a \in Seq(Refs) /\ b \in Seq(Refs) /\ refs = a \o b
    BY Event DEF LinuxGroups
  <2> HIDE DEF a, b, refs
  <2>2. a \o b \in Seq(Refs)
    BY <2>1, Cat
  <2>3. Joined(u, a \o b) = Joined(u, a) \cup Joined(u, b)
    BY <2>1, JoinedCat
  <2> QED BY <2>1, <2>2, <2>3 DEF b
<1> HIDE DEF refs
<1>2. useradd \in Simple /\ Puts(useradd) = add /\ Takes(useradd) = {}
  <2>1. Required(refs) \subseteq Facts /\ {Account(u)} \subseteq Facts /\ add \subseteq Facts
    BY <1>0, <1>1, FactSets, Refs1
  <2> HIDE DEF add
  <2>2. useradd \in Simple
    BY <2>1, WriteIs
  <2>3. Puts(useradd) = add /\ Takes(useradd) = {} \ add
    BY Effects
  <2> QED BY <2>2, <2>3
<1> HIDE DEF useradd
<1>3. PICK hash \in Simple :
        Chpasswd(u) = <<hash>> /\ Puts(hash) = {Password(u), Active(u)} /\ Takes(hash) = {}
  BY <1>0, SshParts
<1>4. Due(t, e) \subseteq {Account(u), Password(u), Attrs(u)} \cup Joined(u, e.rights) /\ Barred(t, e) = {}
  <2>1. Gives(t, e) = {Attrs(u)} \cup Joined(u, e.rights) /\ Denies(t, e) = {}
    BY DEF Gives, Denies, Flagged, Sql, Refers
  <2> QED BY <2>1, DueBy, BarredBy
<1>5. Piecewise(t, e)
  BY DEF Piecewise
<1>6. Devised(t, e, <<useradd, hash>>)
  BY <1>1, <1>2, <1>3, <1>4, <1>5, DevisedTwo
<1>7. Devised(t, e, <<useradd, Reject>>)
  BY <1>2, <1>5, MarksDo, DevisedTwo
<1>8. <<useradd>> \o <<Reject>> = <<useradd, Reject>> /\ <<useradd>> \o <<hash>> = <<useradd, hash>>
  BY <1>2, <1>3, MarksDo, Joining
<1>9. SshCreate(t, e) \in {<<Reject>>, <<useradd>> \o <<Reject>>, <<useradd>> \o <<hash>>}
  BY <1>3 DEF SshCreate, useradd, refs
<1> QED BY <1>6, <1>7, <1>8, <1>9, DevisedReject

LEMMA SshDevised ==
  ASSUME NEW t \in Targets, NEW e \in Events, t.kind = "ssh"
  PROVE  Devised(t, e, SshPlan(t, e))
<1> DEFINE u == e.user
<1>0. u \in Users /\ e.op \in Ops /\ e.rights \in Seq(Refs) /\ t.defaults \in Seq(Refs)
  BY Event
<1>s. ~Sql(t) /\ Refers(t, e) = e.rights
  BY DEF Sql, Refers
<1>p. PICK off \in Simple, on \in Simple, hash \in Simple :
        /\ SshDisable(u) = <<off>> /\ SshEnable(u) = <<on>> /\ Chpasswd(u) = <<hash>>
        /\ Puts(off) = {} /\ Takes(off) = {Active(u), Valid(u)}
        /\ Puts(on) = {Active(u), Valid(u)} /\ Takes(on) = {}
        /\ Puts(hash) = {Password(u), Active(u)} /\ Takes(hash) = {}
  BY <1>0, SshParts
<1>n. CASE e.given = "no id"
  BY <1>n, DevisedReject DEF SshPlan
<1>1. CASE e.given # "no id" /\ e.op = "create"
  BY <1>1, SshCreates DEF SshPlan
<1>2. CASE e.given # "no id" /\ e.op = "update"
  <2> DEFINE refs == LinuxGroups(t, e)
             add == {Attrs(u)} \cup Joined(u, refs)
             del == Replaced(u, refs)
  <2>1. refs \in Seq(Refs) /\ Joined(u, e.rights) \subseteq Joined(u, refs)
    <3> DEFINE a == t.defaults
               b == e.rights
    <3>1. a \in Seq(Refs) /\ b \in Seq(Refs) /\ refs = a \o b
      BY <1>0 DEF LinuxGroups
    <3> HIDE DEF a, b, refs
    <3>2. a \o b \in Seq(Refs)
      BY <3>1, Cat
    <3>3. Joined(u, a \o b) = Joined(u, a) \cup Joined(u, b)
      BY <3>1, JoinedCat
    <3> QED BY <3>1, <3>2, <3>3 DEF b
  <2> HIDE DEF refs
  <2>2. /\ {Account(u)} \cup Required(refs) \in SUBSET Facts /\ {} \in SUBSET Facts
        /\ add \in SUBSET Facts /\ del \in SUBSET Facts
    <3>1. RightsOf(u) \subseteq Facts /\ Joined(u, refs) \subseteq RightsOf(u)
          /\ Required(refs) \subseteq Facts /\ Account(u) \in Facts /\ Attrs(u) \in Facts
          /\ Replaced(u, refs) \subseteq RightsOf(u)
      BY <1>0, <2>1, FactSets, Refs1, ReplacedIn
    <3> QED BY <3>1
  <2>3. Due(t, e) = {Attrs(u)} \cup Joined(u, e.rights) /\ Barred(t, e) = {}
    <3>1. Gives(t, e) = {Attrs(u)} \cup Joined(u, e.rights) /\ Denies(t, e) = {}
      BY DEF Gives, Denies, Flagged, Sql, Refers
    <3> QED BY <1>2, <3>1, DueBy, BarredBy
  <2>4. Due(t, e) \subseteq add /\ Barred(t, e) \subseteq del \ add
    BY <2>1, <2>3
  <2> HIDE DEF add, del
  <2>5. Devised(t, e, <<Write({Account(u)} \cup Required(refs), {}, add, del)>>)
    BY <2>2, <2>4, DevisedWrite
  <2> QED BY <1>2, <2>5, DevisedReject DEF SshPlan, SshUpdate, add, del, refs
<1>3. CASE e.given # "no id" /\ e.op \in {"delete", "disable"}
  <2>1. CASE e.op = "delete" /\ t.physical
    <3>1. Due(t, e) = {} /\ Barred(t, e) = {Account(u)}
      BY <1>s, <2>1, DueBy, BarredBy DEF Removes
    <3>2. {Account(u)} \in SUBSET Facts /\ {} \in SUBSET Facts /\ UserFacts(u) \in SUBSET Facts
          /\ Account(u) \in UserFacts(u)
      BY <1>0, FactSets
    <3>3. Devised(t, e, <<Write({Account(u)}, {}, {}, UserFacts(u))>>)
      BY <3>1, <3>2, DevisedWrite
    <3> QED BY <1>3, <2>1, <3>3 DEF SshPlan
  <2>2. CASE ~(e.op = "delete" /\ t.physical)
    <3>1. Due(t, e) = {} /\ Barred(t, e) = {Active(u), Valid(u)}
      BY <1>s, <1>3, <2>2, DueBy, BarredBy DEF Removes
    <3>3. Devised(t, e, <<off>>)
      BY <1>p, <3>1, DevisedOne
    <3> QED BY <1>p, <1>3, <2>2, <3>3 DEF SshPlan
  <2> QED BY <2>1, <2>2
<1>4. CASE e.given # "no id" /\ e.op = "enable"
  <2>1. Due(t, e) = {Active(u), Valid(u)} /\ Barred(t, e) = {}
    BY <1>s, <1>4, DueBy, BarredBy
  <2>3. Devised(t, e, <<on>>)
    BY <1>p, <2>1, DevisedOne
  <2> QED BY <1>p, <1>4, <2>3 DEF SshPlan
<1>5. CASE e.given # "no id" /\ e.op = "changePassword"
  <2>1. Due(t, e) = {Password(u)} /\ Barred(t, e) = {}
    BY <1>5, DueBy, BarredBy
  <2>2. Devised(t, e, <<hash>>)
    BY <1>p, <2>1, DevisedOne
  <2> QED BY <1>p, <1>5, <2>2, DevisedReject DEF SshPlan
<1>6. CASE e.given # "no id" /\ e.op \notin {"create", "update", "delete", "disable", "enable", "changePassword"}
  <2>1. e.op = "read" => Due(t, e) = {} /\ Barred(t, e) = {}
    BY DueBy, BarredBy
  <2> QED BY <1>6, <2>1, DevisedRead, DevisedReject DEF SshPlan
<1> QED BY <1>n, <1>1, <1>2, <1>3, <1>4, <1>5, <1>6

-----------------------------------------------------------------------------
Looks == {r \in Simple : r.kind = "read"}

\* Requests that only look, and then the one that does what is asked.
LEMMA DevisedAfter ==
  ASSUME NEW t, NEW e, NEW a \in Seq(Looks), NEW r \in Simple,
         r.kind = "reject" \/ (Due(t, e) \subseteq Puts(r) /\ Barred(t, e) \subseteq Takes(r))
  PROVE  Devised(t, e, a \o <<r>>)
<1> DEFINE y == <<r>>
           p == a \o y
<1>1. y \in Seq(Simple) /\ All(y) = {r}
  BY AllFew, Short
<1>2. a \in Seq(Simple) /\ a \in Seq({q \in RequestsOn(Facts) : q.kind # "write"})
      /\ a \in Seq(RequestsOn(Facts)) /\ r \in RequestsOn(Facts)
  BY DEF Looks, Simple
<1>3. Once(a \o <<r>>)
  BY <1>2, OnceLast
<1>4. \A W, U : W \subseteq Puts(r) /\ U \subseteq Takes(r) => Fulfils(a \o <<r>>, W, U)
  BY <1>2, FulfilsLast
<1>5. Once(p) /\ \A W, U : W \subseteq Puts(r) /\ U \subseteq Takes(r) => Fulfils(p, W, U)
  BY <1>3, <1>4
<1> HIDE DEF y
<1>6. p \in Seq(Simple) /\ r \in All(p)
  BY <1>1, <1>2, AllOf, Cat
<1> HIDE DEF p
<1>7. p \in Seq(RequestsOn(Facts))
  BY <1>6, SimpleSeq
<1>8. Fulfils(p, Due(t, e), Barred(t, e))
  BY <1>5, <1>6, <1>7, FulfilsNot
<1>9. Devised(t, e, p)
  BY <1>5, <1>6, <1>8 DEF Devised
<1> QED BY <1>9 DEF p, y

LEMMA LooksAre ==
  ASSUME NEW needs \in SUBSET Facts, NEW of \in SUBSET Facts
  PROVE  /\ Read(needs, of) \in Looks /\ Read(needs, of) \in Simple
         /\ <<Read(needs, of)>> \in Seq(Looks) /\ <<>> \in Seq(Looks)
<1>1. Read(needs, of) \in Looks
  BY ReadDoes DEF Looks
<1> QED BY <1>1, Short DEF Looks

LEMMA DevisedRewrite ==
  ASSUME NEW t, NEW e, NEW needs \in SUBSET Facts, NEW more \in SUBSET Facts, NEW of \in SUBSET Facts,
         NEW add \in SUBSET Facts, NEW del \in SUBSET Facts,
         Due(t, e) \subseteq add, Barred(t, e) \subseteq del \ add
  PROVE  /\ Devised(t, e, <<Read(needs, of), Put(more, of, add, del)>>)
         /\ Devised(t, e, <<Read({}, {}), Read(needs, of), Put(more, of, add, del)>>)
<1> DEFINE o == Read({}, {})
           r == Read(needs, of)
           q == Put(more, of, add, del)
<1>1. o \in Looks /\ o \in Simple /\ r \in Looks /\ r \in Simple
  BY LooksAre
<1>2. q \in Simple
  BY PutIs
<1>3. Puts(q) = add /\ Takes(q) = del \ add
  BY Effects
<1> HIDE DEF o, r, q
<1>4. <<r>> \in Seq(Looks) /\ <<o, r>> \in Seq(Looks)
  BY <1>1, Short, Pair
<1>5. <<r>> \o <<q>> = <<r, q>>
  BY <1>1, <1>2, Joining
<1>6. <<o, r>> \o <<q>> = <<o, r, q>>
  <2>1. <<o, r>> \in Seq(Simple) /\ <<q>> \in Seq(Simple) /\ <<o, r, q>> \in Seq(Simple)
    BY <1>1, <1>2
  <2>2. <<o, r>> \o <<q>> \in Seq(Simple)
    BY <2>1, Cat
  <2>3. Len(<<o, r>> \o <<q>>) = Len(<<o, r, q>>)
        /\ \A i \in 1 .. Len(<<o, r>> \o <<q>>) : (<<o, r>> \o <<q>>)[i] = <<o, r, q>>[i]
    BY <2>1
  <2> QED BY <2>1, <2>2, <2>3, SeqEqual
<1>7. Devised(t, e, <<r>> \o <<q>>) /\ Devised(t, e, <<o, r>> \o <<q>>)
  BY <1>2, <1>3, <1>4, DevisedAfter
<1> QED BY <1>5, <1>6, <1>7 DEF o, r, q

-----------------------------------------------------------------------------
LEMMA AgentDevised ==
  ASSUME NEW t \in Targets, NEW e \in Events, t.kind = "agent"
  PROVE  Devised(t, e, AgentPlan(t, e))
<1> DEFINE u == e.user
           add == ({Account(u), Active(u), Attrs(u), Password(u)} \ Off(e)) \cup Joined(u, e.rights)
           more == {Attrs(u)} \cup On(e) \cup Joined(u, e.rights)
           less == Off(e) \cup Replaced(u, e.rights)
           gone == IF t.physical THEN UserFacts(u) ELSE {Active(u)}
<1>0. u \in Users /\ e.rights \in Seq(Refs) /\ e.op \in Ops
  BY Event
<1>f. /\ {Account(u)} \in SUBSET Facts /\ {Attrs(u)} \in SUBSET Facts /\ {} \in SUBSET Facts
      /\ {Active(u)} \in SUBSET Facts /\ {Password(u)} \in SUBSET Facts
      /\ add \in SUBSET Facts /\ Required(e.rights) \in SUBSET Facts
      /\ gone \in SUBSET Facts /\ Account(u) \in UserFacts(u)
      /\ Off(e) \in SUBSET Facts /\ more \in SUBSET Facts /\ less \in SUBSET Facts
      /\ {Account(u)} \cup Required(e.rights) \in SUBSET Facts
  <2>1. Joined(u, e.rights) \subseteq Facts /\ Required(e.rights) \subseteq Facts
    BY <1>0, Refs1
  <2>2. On(e) \subseteq {Active(u)} /\ Off(e) \subseteq {Active(u)}
        /\ Replaced(u, e.rights) \subseteq RightsOf(u)
    BY <1>0, FlagsIn, ReplacedIn
  <2>3. RightsOf(u) \subseteq Facts
    BY <1>0, FactSets
  <2> QED BY <1>0, <2>1, <2>2, <2>3, FactSets
<1>a. /\ Off(e) \subseteq {Active(u)} /\ Joined(u, e.rights) \subseteq RightsOf(u) /\ Active(u) \notin RightsOf(u)
      /\ On(e) \subseteq {Active(u)} \ Off(e) /\ Active(u) \notin {Account(u), Attrs(u), Password(u)}
  BY <1>0, FlagsIn, Refs1, Apart DEF On, Off
<1>1. e.op = "create" =>
        Devised(t, e, <<Write(Required(e.rights), {Account(u)}, add, Off(e))>>)
  <2> SUFFICES ASSUME e.op = "create"
               PROVE Devised(t, e, <<Write(Required(e.rights), {Account(u)}, add, Off(e))>>)
    OBVIOUS
  <2>1. Due(t, e) \subseteq {Account(u), Password(u), Attrs(u)} \cup Joined(u, e.rights) \cup On(e)
        /\ Barred(t, e) = Off(e)
    BY PlainDue
  <2>2. Due(t, e) \subseteq add /\ Barred(t, e) \subseteq Off(e) \ add
    BY <1>0, <1>a, <2>1
  <2> HIDE DEF add
  <2> QED BY <1>f, <2>2, DevisedWrite
<1>2. e.op = "delete" => Devised(t, e, <<AgentUser(u, {}, gone)>>)
  <2> SUFFICES ASSUME e.op = "delete" PROVE Devised(t, e, <<AgentUser(u, {}, gone)>>)
    OBVIOUS
  <2>1. Due(t, e) = {} /\ Barred(t, e) = IF t.physical THEN {Account(u)} ELSE {Active(u)}
    BY PlainDue
  <2>2. Due(t, e) \subseteq {} /\ Barred(t, e) \subseteq gone \ {}
    BY <1>f, <2>1
  <2> HIDE DEF gone
  <2> QED BY <1>f, <2>2, DevisedWrite DEF AgentUser
<1>6. e.op = "update" =>
        Devised(t, e, <<Write({Account(u)} \cup Required(e.rights), {}, more, less)>>)
  <2> SUFFICES ASSUME e.op = "update"
               PROVE Devised(t, e, <<Write({Account(u)} \cup Required(e.rights), {}, more, less)>>)
    OBVIOUS
  <2>1. Due(t, e) = {Attrs(u)} \cup On(e) \cup Joined(u, e.rights) /\ Barred(t, e) = Off(e)
    BY PlainDue
  <2>2. Due(t, e) \subseteq more /\ Barred(t, e) \subseteq less \ more
    BY <1>a, <2>1
  <2> HIDE DEF more, less
  <2> QED BY <1>f, <2>2, DevisedWrite
<1>3. /\ e.op = "enable" => Devised(t, e, <<AgentUser(u, {Active(u)}, {})>>)
      /\ e.op = "disable" => Devised(t, e, <<AgentUser(u, {}, {Active(u)})>>)
      /\ e.op = "changePassword" => Devised(t, e, <<AgentUser(u, {Password(u)}, {})>>)
  BY <1>f, DevisedWrite, PlainDue DEF AgentUser
<1>4. e.op = "read" => Devised(t, e, <<Read({}, {})>>)
  BY DevisedRead, PlainDue
<1>5. e.op \in {"create", "update", "delete", "enable", "disable", "changePassword", "read"}
        => Devised(t, e, <<AgentRequest(t, e)>>)
  BY <1>1, <1>2, <1>3, <1>4, <1>6 DEF AgentRequest
<1> QED BY <1>5, DevisedReject DEF AgentPlan

-----------------------------------------------------------------------------
LEMMA CmdbuildCreates ==
  ASSUME NEW t \in Targets, NEW e \in Events, t.kind = "cmdbuild", e.op = "create"
  PROVE  Devised(t, e, CmdbuildCreate(t, e))
<1> DEFINE u == e.user
           refs == CmdbuildGroups(t, e)
           look == Read(Looked(refs), {})
           resolve == IF refs = <<>> \/ ~t.byName THEN <<>> ELSE <<look>>
           add == ({Account(u), Active(u), Attrs(u), Password(u)} \ Off(e)) \cup Joined(u, refs)
           post == Write(Known(e, Required(refs)), {Account(u)}, add, Off(e))
<1>0. u \in Users
  BY Event
<1>1. refs \in Seq(Refs) /\ Joined(u, Asked(t, e)) \subseteq Joined(u, refs)
  <2>1. Asked(t, e) \in Seq(Refs) /\ t.defaults \in Seq(Refs)
    BY Event
  <2>2. Joined(u, <<>>) = {}
    BY EmptySeq, JoinedCat
  <2> QED BY <2>1, <2>2 DEF CmdbuildGroups
<1> HIDE DEF refs
<1>2. Required(refs) \subseteq Facts /\ Joined(u, refs) \subseteq Facts
  BY <1>0, <1>1, Refs1
<1>3. look \in Looks /\ <<look>> \in Seq(Looks) /\ <<>> \in Seq(Looks)
  <2>1. Looked(refs) \in SUBSET Facts /\ {} \in SUBSET Facts
    BY <1>1, LookedIn
  <2> QED BY <2>1, LooksAre
<1> HIDE DEF look
<1>4. resolve \in Seq(Looks)
  BY <1>3
<1>a. /\ Off(e) \subseteq {Active(u)} /\ Joined(u, refs) \subseteq RightsOf(u) /\ Active(u) \notin RightsOf(u)
      /\ On(e) \subseteq {Active(u)} \ Off(e) /\ Active(u) \notin {Account(u), Attrs(u), Password(u)}
  BY <1>0, <1>1, FlagsIn, Refs1, Apart DEF On, Off
<1>5. post \in Simple /\ Puts(post) = add /\ Takes(post) = Off(e) \ add
  <2>1. Known(e, Required(refs)) \subseteq Facts /\ {Account(u)} \subseteq Facts /\ add \subseteq Facts
        /\ Off(e) \subseteq Facts
    BY <1>0, <1>2, <1>a, FactSets, KnownIn
  <2> HIDE DEF add
  <2>2. post \in Simple
    BY <2>1, WriteIs
  <2>3. Puts(post) = add /\ Takes(post) = Off(e) \ add
    BY Effects
  <2> QED BY <2>2, <2>3
<1>6. Due(t, e) \subseteq {Account(u), Password(u), Attrs(u)} \cup Joined(u, Asked(t, e)) \cup On(e)
      /\ Barred(t, e) = Off(e)
  BY PlainDue
<1>7. Due(t, e) \subseteq Puts(post) /\ Barred(t, e) \subseteq Takes(post)
  BY <1>1, <1>5, <1>6, <1>a
<1> HIDE DEF post, resolve
<1>8. Devised(t, e, resolve \o <<post>>)
  BY <1>4, <1>5, <1>7, DevisedAfter
<1> QED BY <1>8, DevisedReject DEF CmdbuildCreate, post, resolve, look, refs

LEMMA CmdbuildDevised ==
  ASSUME NEW t \in Targets, NEW e \in Events, t.kind = "cmdbuild"
  PROVE  Devised(t, e, CmdbuildPlan(t, e))
<1> DEFINE u == e.user
           g == e.group
           right == {Right(u, g)}
<1>0. u \in Users /\ g \in Refs /\ e.op \in Ops
  BY Event
<1>f. /\ {Account(u)} \in SUBSET Facts /\ {Attrs(u)} \in SUBSET Facts /\ {} \in SUBSET Facts
      /\ {Active(u)} \in SUBSET Facts /\ {Password(u)} \in SUBSET Facts /\ right \in SUBSET Facts
      /\ {Group(g)} \in SUBSET Facts /\ {Group(g), Open(g)} \in SUBSET Facts /\ {Open(g)} \in SUBSET Facts
      /\ UserCard(u) \in SUBSET Facts /\ RoleCard(g) \in SUBSET Facts /\ Known(e, {}) \in SUBSET Facts
  BY <1>0, FactSets, CardSets, KnownIn
<1>c. ASSUME NEW add \in SUBSET Facts, NEW del \in SUBSET Facts,
             Due(t, e) \subseteq add, Barred(t, e) \subseteq del \ add
      PROVE  Devised(t, e, CmdbuildCard(u, add, del))
  BY <1>f, <1>c, DevisedRewrite DEF CmdbuildCard, PutMerged
<1>1. CASE e.op = "create"
  BY <1>1, CmdbuildCreates DEF CmdbuildPlan
<1>2. CASE e.op \in {"update", "delete", "enable", "disable", "changePassword", "addAttributes",
                     "removeAttributes"}
  <2>3. e.op \in {"update", "addAttributes"} => Devised(t, e, CmdbuildCard(u, {Attrs(u)} \cup On(e), Off(e)))
    <3> DEFINE add == {Attrs(u)} \cup On(e)
               del == Off(e)
    <3>1. add \in SUBSET Facts /\ del \in SUBSET Facts /\ del = del \ add
      BY <1>f, <1>0, FlagsIn, Apart DEF On, Off
    <3>2. e.op \in {"update", "addAttributes"} => Due(t, e) = add /\ Barred(t, e) = del
      BY PlainDue
    <3> HIDE DEF add, del
    <3>3. e.op \in {"update", "addAttributes"} => Devised(t, e, CmdbuildCard(u, add, del))
      BY <1>c, <3>1, <3>2
    <3> QED BY <3>3 DEF add, del
  <2>1. /\ e.op = "removeAttributes" => Devised(t, e, CmdbuildCard(u, {}, {Attrs(u)}))
        /\ e.op = "enable" => Devised(t, e, CmdbuildCard(u, {Active(u)}, {}))
        /\ e.op \in {"disable", "delete"} => Devised(t, e, CmdbuildCard(u, {}, {Active(u)}))
        /\ e.op = "changePassword" => Devised(t, e, CmdbuildCard(u, {Password(u)}, {}))
    BY <1>f, <1>c, PlainDue
  <2>2. Devised(t, e, CmdbuildUser(t, e))
    BY <1>2, <2>1, <2>3, DevisedReject DEF CmdbuildUser
  <2> QED BY <1>2, <2>2 DEF CmdbuildPlan
<1>3. CASE e.op \in {"addMember", "removeMember"}
  <2>1. /\ e.op = "addMember" => Devised(t, e, CmdbuildCard(u, right, {}))
        /\ e.op = "removeMember" => Devised(t, e, CmdbuildCard(u, {}, right))
    BY <1>f, <1>c, PlainDue
  <2>2. Devised(t, e, CmdbuildMember(t, e))
    BY <1>3, <2>1, DevisedReject DEF CmdbuildMember
  <2> QED BY <1>3, <2>2 DEF CmdbuildPlan
<1>4. CASE e.op \in {"groupCreate", "groupUpdate", "groupDelete"}
  <2>1. e.op = "groupCreate" =>
          Devised(t, e, <<Write(Known(e, {}), {Group(g)}, {Group(g), Open(g)}, {})>>)
    BY <1>f, DevisedWrite, PlainDue
  <2>2. /\ e.op = "groupDelete" => Devised(t, e, PutMerged({Group(g)}, RoleCard(g), {}, {Open(g)}))
        /\ e.op = "groupUpdate" => Devised(t, e, PutMerged({Group(g)}, RoleCard(g), {}, {}))
    BY <1>f, DevisedRewrite, PlainDue DEF PutMerged
  <2>3. Devised(t, e, CmdbuildRole(t, e))
    BY <1>4, <2>1, <2>2, DevisedReject DEF CmdbuildRole
  <2> QED BY <1>4, <2>3 DEF CmdbuildPlan
<1>5. CASE e.op = "read"
  <2>1. Devised(t, e, <<Read({}, {})>>)
    BY <1>5, PlainDue, DevisedRead
  <2> QED BY <1>5, <2>1, DevisedReject DEF CmdbuildPlan
<1> QED BY <1>0, <1>1, <1>2, <1>3, <1>4, <1>5 DEF Ops

-----------------------------------------------------------------------------
LEMMA ZabbixCalls ==
  ASSUME NEW t \in Targets, NEW e \in Events, t.kind = "zabbix", e.op \notin {"addMember", "removeMember"}
  PROVE  /\ ZabbixCall(t, e) \in Simple
         /\ Due(t, e) \subseteq Puts(ZabbixCall(t, e)) /\ Barred(t, e) \subseteq Takes(ZabbixCall(t, e))
<1> DEFINE u == e.user
           g == e.group
           good(r) == r \in Simple /\ Due(t, e) \subseteq Puts(r) /\ Barred(t, e) \subseteq Takes(r)
           add == {Account(u), Active(u), Attrs(u), Password(u)} \cup Joined(u, e.rights)
           more == {Attrs(u)} \cup Joined(u, e.rights) \cup (IF e.rights = <<>> THEN {} ELSE {Active(u)})
           less == Replaced(u, e.rights)
<1>0. u \in Users /\ g \in Refs /\ e.op \in Ops /\ e.rights \in Seq(Refs)
  BY Event
<1>f. /\ {Account(u)} \in SUBSET Facts /\ {Attrs(u)} \in SUBSET Facts /\ {} \in SUBSET Facts
      /\ {Active(u)} \in SUBSET Facts /\ {Password(u)} \in SUBSET Facts /\ add \in SUBSET Facts
      /\ {Group(g)} \in SUBSET Facts /\ {Group(g), Open(g)} \in SUBSET Facts
      /\ UserFacts(u) \in SUBSET Facts /\ RightsOf(u) \in SUBSET Facts /\ GroupFacts(g) \in SUBSET Facts
      /\ {Active(u)} \cup RightsOf(u) \in SUBSET Facts
      /\ Account(u) \in UserFacts(u) /\ Open(g) \in GroupFacts(g)
      /\ Joined(u, e.rights) \subseteq Facts /\ Required(e.rights) \in SUBSET Facts
  BY <1>0, FactSets, Refs1
<1>r. /\ more \in SUBSET Facts /\ less \in SUBSET Facts
      /\ Known(e, {Account(u)} \cup Required(e.rights)) \in SUBSET Facts
      /\ (IF e.rights = <<>> THEN Known(e, {Account(u)}) ELSE Nobody) \in SUBSET Facts
  <2>1. less \subseteq RightsOf(u) /\ Joined(u, e.rights) \subseteq Facts /\ {Account(u)} \cup Required(e.rights) \subseteq Facts
    BY <1>0, <1>f, ReplacedIn
  <2>2. Known(e, {Account(u)}) \subseteq Facts /\ Known(e, {Account(u)} \cup Required(e.rights)) \subseteq Facts
    BY <1>f, <2>1, KnownIn
  <2> HIDE DEF less
  <2> QED BY <1>f, <2>1, <2>2, Nones
<1>k. /\ Known(e, {}) \in SUBSET Facts /\ Known(e, {Account(u)}) \in SUBSET Facts
      /\ Known(e, {Group(g)}) \in SUBSET Facts /\ Known(e, Required(e.rights)) \in SUBSET Facts
      /\ (IF e.given = "all" THEN {Account(u)} ELSE Nobody) \in SUBSET Facts
  BY <1>f, KnownIn, Nones
<1>w. ASSUME NEW needs \in SUBSET Facts, NEW absent \in SUBSET Facts, NEW gain \in SUBSET Facts,
             NEW del \in SUBSET Facts, Due(t, e) \subseteq gain, Barred(t, e) \subseteq del \ gain
      PROVE  good(Write(needs, absent, gain, del))
  BY <1>w, WriteIs, Effects
<1> HIDE DEF good
<1>1. CASE e.op = "create"
  <2>1. Due(t, e) \subseteq {Account(u), Password(u), Attrs(u)} \cup Joined(u, e.rights) /\ Barred(t, e) = {}
    BY <1>1, PlainDue
  <2>2. Due(t, e) \subseteq add /\ Barred(t, e) \subseteq {} \ add
    BY <1>0, <2>1
  <2> HIDE DEF add
  <2>3. good(Write(Known(e, Required(e.rights)), {Account(u)}, add, {}))
    BY <1>f, <1>k, <1>w, <2>2
  <2>4. ZabbixCall(t, e) = Write(Known(e, Required(e.rights)), {Account(u)}, add, {})
    BY <1>1 DEF ZabbixCall, add
  <2> QED BY <2>3, <2>4 DEF good
<1>2. CASE e.op \in {"update", "addAttributes", "removeAttributes", "enable", "disable", "delete"}
  <2>3. e.op \in {"update", "addAttributes"} =>
          good(Write(Known(e, {Account(u)} \cup Required(e.rights)), {}, more, less))
    <3>1. e.op \in {"update", "addAttributes"} => Due(t, e) \subseteq more /\ Barred(t, e) \subseteq less \ more
      BY PlainDue
    <3> HIDE DEF more, less
    <3> QED BY <1>f, <1>r, <1>w, <3>1
  <2>4. e.op = "removeAttributes" =>
          good(Write(IF e.rights = <<>> THEN Known(e, {Account(u)}) ELSE Nobody, {}, {}, {Attrs(u)}))
    <3> DEFINE needs == IF e.rights = <<>> THEN Known(e, {Account(u)}) ELSE Nobody
    <3>1. needs \in SUBSET Facts
      BY <1>r
    <3>2. e.op = "removeAttributes" => Due(t, e) = {} /\ Barred(t, e) = {Attrs(u)}
      BY PlainDue
    <3> HIDE DEF needs
    <3>3. e.op = "removeAttributes" => good(Write(needs, {}, {}, {Attrs(u)}))
      BY <1>f, <1>w, <3>1, <3>2
    <3> QED BY <3>3 DEF needs
  <2>1. /\ e.op = "delete" => good(ZabbixUser(e, {}, UserFacts(u)))
        /\ e.op = "enable" => good(ZabbixUser(e, {Active(u)}, RightsOf(u)))
        /\ e.op = "disable" => good(ZabbixUser(e, {}, {Active(u)} \cup RightsOf(u)))
    <3>1. /\ e.op = "delete" => Due(t, e) = {} /\ Barred(t, e) = {Account(u)}
          /\ e.op = "enable" => Due(t, e) = {Active(u)} /\ Barred(t, e) = {}
          /\ e.op = "disable" => Due(t, e) = {} /\ Barred(t, e) = {Active(u)}
      BY PlainDue
    <3> QED BY <1>f, <1>k, <1>w, <3>1 DEF ZabbixUser
  <2>2. good(ZabbixCall(t, e))
    BY <1>2, <2>1, <2>3, <2>4 DEF ZabbixCall
  <2> QED BY <2>2 DEF good
<1>3. CASE e.op = "changePassword"
  <2> DEFINE needs == IF e.given = "all" THEN {Account(u)} ELSE Nobody
  <2>1. Due(t, e) = {Password(u)} /\ Barred(t, e) = {}
    BY <1>3, PlainDue
  <2>2. needs \in SUBSET Facts
    BY <1>k
  <2> HIDE DEF needs
  <2>3. good(Write(needs, {}, {Password(u)}, {}))
    BY <1>f, <1>w, <2>1, <2>2
  <2>4. ZabbixCall(t, e) = Write(needs, {}, {Password(u)}, {})
    BY <1>3 DEF ZabbixCall, needs
  <2> QED BY <2>3, <2>4 DEF good
<1>4. CASE e.op \in {"groupCreate", "groupUpdate", "groupDelete"}
  <2>3. /\ e.op = "groupCreate" => Due(t, e) = {Group(g)} /\ Barred(t, e) = {}
        /\ e.op = "groupUpdate" => Due(t, e) = {} /\ Barred(t, e) = {}
        /\ e.op = "groupDelete" => Due(t, e) = {} /\ Barred(t, e) = {Open(g)}
    BY PlainDue
  <2>4. e.op = "groupCreate" => good(Write(Known(e, {}), {Group(g)}, {Group(g), Open(g)}, {}))
    BY <1>f, <1>k, <1>w, <2>3
  <2>5. e.op = "groupUpdate" => good(Write(Known(e, {Group(g)}), {}, {}, {}))
    BY <1>f, <1>k, <1>w, <2>3
  <2>6. e.op = "groupDelete" => good(Write(Known(e, {Group(g)}), {}, {}, GroupFacts(g)))
    BY <1>f, <1>k, <1>w, <2>3
  <2>1. /\ e.op = "groupCreate" => good(Write(Known(e, {}), {Group(g)}, {Group(g), Open(g)}, {}))
        /\ e.op = "groupUpdate" => good(Write(Known(e, {Group(g)}), {}, {}, {}))
        /\ e.op = "groupDelete" => good(Write(Known(e, {Group(g)}), {}, {}, GroupFacts(g)))
    BY <2>4, <2>5, <2>6
  <2>2. good(ZabbixCall(t, e))
    BY <1>4, <2>1 DEF ZabbixCall
  <2> QED BY <2>2 DEF good
<1>5. CASE e.op = "read"
  <2>1. Due(t, e) = {} /\ Barred(t, e) = {}
    BY <1>5, PlainDue
  <2>2. Read({}, {}) \in Simple
    BY ReadDoes
  <2> QED BY <1>5, <2>1, <2>2 DEF ZabbixCall
<1> QED BY <1>0, <1>1, <1>2, <1>3, <1>4, <1>5 DEF Ops

LEMMA ZabbixDevised ==
  ASSUME NEW t \in Targets, NEW e \in Events, t.kind = "zabbix"
  PROVE  Devised(t, e, ZabbixPlan(t, e))
<1> DEFINE u == e.user
           g == e.group
           right == {Right(u, g)}
           L == ZabbixLogin(t)
           a == Read({}, {})
           r == Read({}, MembersOf(g))
           p == Put({Group(g), Account(u)}, MembersOf(g), right, {})
           q == Put({Group(g)}, MembersOf(g), {}, right)
<1>0. u \in Users /\ g \in Refs /\ e.op \in Ops
  BY Event
<1>f. /\ {Account(u)} \in SUBSET Facts /\ {} \in SUBSET Facts /\ right \in SUBSET Facts
      /\ {Group(g)} \in SUBSET Facts /\ {Group(g), Account(u)} \in SUBSET Facts
      /\ MembersOf(g) \in SUBSET Facts
  BY <1>0, FactSets
<1>1. (L = <<>> \/ L = <<a>>) /\ L \in Seq(Looks) /\ a \in Simple /\ r \in Simple
  BY <1>f, LooksAre DEF ZabbixLogin
<1>2. p \in Simple /\ q \in Simple
  BY <1>f, PutIs
<1>3. /\ e.op = "addMember" => Devised(t, e, <<r, p>>) /\ Devised(t, e, <<a, r, p>>)
      /\ e.op = "removeMember" => Devised(t, e, <<r, q>>) /\ Devised(t, e, <<a, r, q>>)
  <2>1. /\ e.op = "addMember" => Due(t, e) \subseteq right /\ Barred(t, e) \subseteq {} \ right
        /\ e.op = "removeMember" => Due(t, e) \subseteq {} /\ Barred(t, e) \subseteq right \ {}
    BY PlainDue
  <2> HIDE DEF right
  <2>2. e.op = "addMember" => Devised(t, e, <<r, p>>) /\ Devised(t, e, <<a, r, p>>)
    BY <1>f, <2>1, DevisedRewrite
  <2>3. e.op = "removeMember" => Devised(t, e, <<r, q>>) /\ Devised(t, e, <<a, r, q>>)
    BY <1>f, <2>1, DevisedRewrite
  <2> QED BY <2>2, <2>3
<1> HIDE DEF L, a, r, p, q
<1>4. L \o <<r, p>> \in {<<r, p>>, <<a, r, p>>} /\ L \o <<r, q>> \in {<<r, q>>, <<a, r, q>>}
  <2>1. <<>> \o <<r, p>> = <<r, p>> /\ <<a>> \o <<r, p>> = <<a, r, p>>
    BY <1>1, <1>2, Prefixed
  <2>2. <<>> \o <<r, q>> = <<r, q>> /\ <<a>> \o <<r, q>> = <<a, r, q>>
    BY <1>1, <1>2, Prefixed
  <2> QED BY <1>1, <2>1, <2>2
<1>5. Devised(t, e, L \o <<Reject>>)
  BY <1>1, MarksDo, DevisedAfter
<1>6. CASE e.op \in {"addMember", "removeMember"}
  <2>1. /\ e.op = "addMember" => ZabbixMember(t, e) \in {L \o <<Reject>>, L \o <<r, p>>}
        /\ e.op = "removeMember" => ZabbixMember(t, e) \in {L \o <<Reject>>, L \o <<r, q>>}
    BY DEF ZabbixMember, L, r, p, q
  <2>2. /\ e.op = "addMember" => Devised(t, e, L \o <<r, p>>)
        /\ e.op = "removeMember" => Devised(t, e, L \o <<r, q>>)
    BY <1>3, <1>4
  <2> QED BY <1>5, <1>6, <2>1, <2>2 DEF ZabbixPlan
<1>7. CASE e.op \notin {"addMember", "removeMember"}
  <2> DEFINE call == ZabbixCall(t, e)
  <2>1. call \in Simple /\ Due(t, e) \subseteq Puts(call) /\ Barred(t, e) \subseteq Takes(call)
    BY <1>7, ZabbixCalls
  <2> HIDE DEF call
  <2>2. Devised(t, e, L \o <<call>>)
    BY <1>1, <2>1, DevisedAfter
  <2> QED BY <1>7, <2>2 DEF ZabbixPlan, L, call
<1> QED BY <1>6, <1>7

-----------------------------------------------------------------------------
\* A login: a look at the page, the polls, the return; or the refusal to log in.
LEMMA LoginIs ==
  ASSUME NEW t \in Targets
  PROVE  /\ ConsultantLogin(t) \in Seq({r \in RequestsOn(Facts) : r.kind # "write"})
         /\ t.session =>
              /\ Len(ConsultantLogin(t)) = LastPoll + 1
              /\ \A i \in DOMAIN ConsultantLogin(t) :
                   /\ ConsultantLogin(t)[i].kind \in {"read", "poll", "follow"}
                   /\ ConsultantLogin(t)[i].kind = "poll" => i <= LastPoll
         /\ ~t.session => ConsultantLogin(t) = <<Read({}, {}), Reject>>
<1> DEFINE page == Read({}, {})
           poll == Bare("poll")
           follow == Bare("follow")
           polls == [i \in 1 .. PollAttempts + 1 |-> poll]
           N == {r \in RequestsOn(Facts) : r.kind # "write"}
<1>1. /\ page \in N /\ poll \in N /\ follow \in N /\ Reject \in N
      /\ page.kind = "read" /\ poll.kind = "poll" /\ follow.kind = "follow"
  BY DEF Read, Bare, Reject, RequestsOn
<1>2. ConsultantLogin(t) = <<page>> \o (IF t.session THEN polls \o <<follow>> ELSE <<Reject>>)
  BY DEF ConsultantLogin
<1>p. PollAttempts \in Nat
  BY PollAssumption
<1> HIDE DEF page, poll, follow, N
<1>3. CASE t.session
  <2>1. polls \in Seq(N) /\ Len(polls) = PollAttempts + 1 /\ \A i \in 1 .. PollAttempts + 1 : polls[i] = poll
    BY <1>1, <1>p, IsASeq
  <2> HIDE DEF polls
  <2> DEFINE s == polls \o <<follow>>
  <2>2. s \in Seq(N) /\ Len(s) = PollAttempts + 2
        /\ \A i \in 1 .. Len(s) : s[i] = IF i <= PollAttempts + 1 THEN poll ELSE follow
    BY <1>1, <1>p, <2>1
  <2> HIDE DEF s
  <2> DEFINE x == <<page>> \o s
  <2>3. x \in Seq(N) /\ Len(x) = PollAttempts + 3
        /\ \A i \in 1 .. Len(x) : x[i] = IF i = 1 THEN page ELSE IF i <= PollAttempts + 2 THEN poll ELSE follow
    BY <1>1, <1>p, <2>2
  <2>4. ConsultantLogin(t) = x
    BY <1>2, <1>3 DEF s
  <2> HIDE DEF x
  <2>5. /\ Len(x) = LastPoll + 1
        /\ \A i \in DOMAIN x : x[i].kind \in {"read", "poll", "follow"} /\ (x[i].kind = "poll" => i <= LastPoll)
    BY <1>1, <1>p, <2>3 DEF LastPoll
  <2> QED BY <1>3, <2>3, <2>4, <2>5 DEF N
<1>4. CASE ~t.session
  <2>1. <<page>> \o <<Reject>> = <<page, Reject>> /\ <<page, Reject>> \in Seq(N)
    BY <1>1, Joining, Pair
  <2>2. ConsultantLogin(t) = <<page, Reject>>
    BY <1>2, <1>4, <2>1
  <2>3. ConsultantLogin(t) \in Seq(N)
    BY <2>1, <2>2
  <2> QED BY <1>4, <2>2, <2>3 DEF N, page
<1> QED BY <1>3, <1>4

LEMMA ConsultantCalls ==
  ASSUME NEW t \in Targets, NEW e \in Events, t.kind = "consultant", e.op \in ConsultantOps
  PROVE  /\ ConsultantCall(e) \in RequestsOn(Facts) /\ ConsultantCall(e).kind = "write"
         /\ Due(t, e) \subseteq Puts(ConsultantCall(e)) /\ Barred(t, e) \subseteq Takes(ConsultantCall(e))
<1> DEFINE u == e.user
           good(r) == /\ r \in RequestsOn(Facts) /\ r.kind = "write"
                      /\ Due(t, e) \subseteq Puts(r) /\ Barred(t, e) \subseteq Takes(r)
           add == {Account(u), Active(u), Attrs(u), Password(u)}
<1>0. u \in Users
  BY Event
<1>f. /\ {Account(u)} \in SUBSET Facts /\ {Attrs(u)} \in SUBSET Facts /\ {} \in SUBSET Facts
      /\ {Active(u)} \in SUBSET Facts /\ {Password(u)} \in SUBSET Facts /\ add \in SUBSET Facts
      /\ UserFacts(u) \in SUBSET Facts /\ Account(u) \in UserFacts(u)
  BY <1>0, FactSets
<1>w. ASSUME NEW needs \in SUBSET Facts, NEW absent \in SUBSET Facts, NEW more \in SUBSET Facts,
             NEW del \in SUBSET Facts, Due(t, e) \subseteq more, Barred(t, e) \subseteq del \ more
      PROVE  good(Write(needs, absent, more, del))
  BY <1>w, WriteIs, Effects DEF Writing
<1> HIDE DEF good
<1>1. e.op = "create" => good(Write({}, {Account(u)}, add, {}))
  <2> SUFFICES ASSUME e.op = "create" PROVE good(Write({}, {Account(u)}, add, {}))
    OBVIOUS
  <2>1. Due(t, e) \subseteq add /\ Barred(t, e) \subseteq {} \ add
    BY PlainDue
  <2> HIDE DEF add
  <2> QED BY <1>f, <1>w, <2>1
<1>2. /\ e.op \in {"update", "changePassword"} =>
           good(Write({Account(u)}, {}, {Attrs(u), Password(u)}, {}))
      /\ e.op = "delete" => good(Write({Account(u)}, {}, {}, UserFacts(u)))
      /\ e.op = "disable" => good(Write({Account(u)}, {}, {}, {Active(u)}))
  <2>1. {Attrs(u), Password(u)} \in SUBSET Facts
    BY <1>f
  <2> QED BY <1>f, <1>w, <2>1, PlainDue
<1>3. good(ConsultantCall(e))
  BY <1>1, <1>2 DEF ConsultantOps, ConsultantCall
<1> QED BY <1>3 DEF good

LEMMA ConsultantDevised ==
  ASSUME NEW t \in Targets, NEW e \in Events, t.kind = "consultant"
  PROVE  Devised(t, e, ConsultantPlan(t, e))
<1>1. CASE e.op = "read"
  <2>1. Devised(t, e, <<Read({}, {})>>)
    BY <1>1, PlainDue, DevisedRead
  <2> QED BY <1>1, <2>1 DEF ConsultantPlan, ConsultantOps
<1>2. CASE e.op \in ConsultantOps /\ ~ConsultantInvalid(e)
  <2> DEFINE L == ConsultantLogin(t)
             call == ConsultantCall(e)
             p == L \o <<call>>
  <2>1. /\ call \in RequestsOn(Facts) /\ call.kind = "write"
        /\ Due(t, e) \subseteq Puts(call) /\ Barred(t, e) \subseteq Takes(call)
    BY <1>2, ConsultantCalls
  <2>2. L \in Seq({r \in RequestsOn(Facts) : r.kind # "write"}) /\ L \in Seq(RequestsOn(Facts))
    <3>1. L \in Seq({r \in RequestsOn(Facts) : r.kind # "write"})
      BY LoginIs
    <3> HIDE DEF L
    <3> QED BY <3>1
  <2>3. /\ t.session => Len(L) = LastPoll + 1
                        /\ \A i \in DOMAIN L : /\ L[i].kind \in {"read", "poll", "follow"}
                                               /\ L[i].kind = "poll" => i <= LastPoll
        /\ ~t.session => Len(L) = 2 /\ L[1].kind = "read" /\ L[2].kind = "reject"
    <3>1. Read({}, {}).kind = "read" /\ Reject.kind = "reject"
      BY DEF Read, Reject, Bare
    <3>2. /\ t.session => Len(L) = LastPoll + 1
                          /\ \A i \in DOMAIN L : /\ L[i].kind \in {"read", "poll", "follow"}
                                                 /\ L[i].kind = "poll" => i <= LastPoll
          /\ ~t.session => L = <<Read({}, {}), Reject>>
      BY LoginIs
    <3> HIDE DEF L
    <3> QED BY <3>1, <3>2
  <2> HIDE DEF call, L
  <2>4. Once(p) /\ Fulfils(p, Due(t, e), Barred(t, e))
    <3>1. Once(p)
      BY <2>1, <2>2, OnceLast
    <3>2. Fulfils(p, Due(t, e), Barred(t, e))
      BY <2>1, <2>2, FulfilsLast
    <3> QED BY <3>1, <3>2
  <2>5. /\ Len(p) = Len(L) + 1 /\ p[Len(p)] = call /\ DOMAIN p = 1 .. Len(L) + 1 /\ Len(L) \in Nat
        /\ \A i \in DOMAIN p : i # Len(L) + 1 => i \in DOMAIN L /\ p[i] = L[i]
    BY <2>1, <2>2
  <2> HIDE DEF p
  <2>6. LastPoll \in Nat
    BY PollAssumption DEF LastPoll
  <2>7. Polled(p)
    <3>1. CASE t.session
      BY <2>1, <2>3, <2>4, <2>5, <2>6, <3>1 DEF Polled
    <3>2. CASE ~t.session
      <4>1. \A i \in DOMAIN p : p[i].kind \in {"read", "reject", "write"}
        BY <2>1, <2>2, <2>3, <2>5, <3>2
      <4> QED BY <2>4, <4>1 DEF Polled
    <3> QED BY <3>1, <3>2
  <2>8. Devised(t, e, p)
    BY <2>4, <2>7 DEF Devised
  <2>9. e.op # "read"
    BY <1>2 DEF ConsultantOps
  <2> QED BY <1>2, <2>8, <2>9 DEF ConsultantPlan, p, call, L
<1>3. CASE e.op # "read" /\ ~(e.op \in ConsultantOps /\ ~ConsultantInvalid(e))
  BY <1>3, DevisedReject DEF ConsultantPlan
<1> QED BY <1>1, <1>2, <1>3

\* Every plan of every connector does what its event asks for, and writes in one
\* request or one transaction where the operation is to happen as a whole.
LEMMA PlansDevised ==
  ASSUME NEW t \in Targets, NEW e \in Events PROVE Devised(t, e, Plan(t, e))
<1>1. t.kind \in Kinds
  BY DEF Targets
<1> QED BY <1>1, PgDevised, MsDevised, PassworkDevised, SshDevised, AgentDevised, ConsultantDevised,
           CmdbuildDevised, ZabbixDevised DEF Plan, Kinds

-----------------------------------------------------------------------------
(***************************************************************************)
(* What a run has done                                                     *)
(***************************************************************************)
\* What was got is there and what was rid is not, but for the facts x.
Meets(x, got, rid, s) == got \ x \subseteq s /\ (rid \ x) \cap s = {}

LEMMA MeetsLess ==
  ASSUME NEW x, NEW y, NEW got, NEW rid, NEW less, NEW fewer, NEW s, Meets(x, got, rid, s),
         x \subseteq y, less \subseteq got, fewer \subseteq rid
  PROVE  Meets(y, less, fewer, s)
BY DEF Meets

LEMMA GotNext ==
  ASSUME NEW p \in Seq(RequestsOn(Facts)), NEW i \in DOMAIN p
  PROVE  /\ Got(p, i + 1) \subseteq (Got(p, i) \ Takes(p[i])) \cup Puts(p[i])
         /\ Rid(p, i + 1) \subseteq (Rid(p, i) \ Puts(p[i])) \cup Takes(p[i])
<1>0. i \in Nat /\ DOMAIN p \subseteq Nat
  OBVIOUS
<1>1. ASSUME NEW f \in Got(p, i + 1), f \notin Puts(p[i]) PROVE f \in Got(p, i) \ Takes(p[i])
  <2>1. PICK k \in DOMAIN p : /\ k < i + 1 /\ f \in Puts(p[k])
                              /\ \A j \in DOMAIN p : k < j /\ j < i + 1 => f \notin Takes(p[j])
    BY DEF Got
  <2>2. k < i
    BY <1>0, <1>1, <2>1
  <2>3. \A j \in DOMAIN p : k < j /\ j < i => f \notin Takes(p[j])
    BY <1>0, <2>1
  <2>4. f \notin Takes(p[i])
    BY <1>0, <2>1, <2>2
  <2> QED BY <2>1, <2>2, <2>3, <2>4 DEF Got
<1>2. ASSUME NEW f \in Rid(p, i + 1), f \notin Takes(p[i]) PROVE f \in Rid(p, i) \ Puts(p[i])
  <2>1. PICK k \in DOMAIN p : /\ k < i + 1 /\ f \in Takes(p[k])
                              /\ \A j \in DOMAIN p : k < j /\ j < i + 1 => f \notin Puts(p[j])
    BY DEF Rid
  <2>2. k < i
    BY <1>0, <1>2, <2>1
  <2>3. \A j \in DOMAIN p : k < j /\ j < i => f \notin Puts(p[j])
    BY <1>0, <2>1
  <2>4. f \notin Puts(p[i])
    BY <1>0, <2>1, <2>2
  <2> QED BY <2>1, <2>2, <2>3, <2>4 DEF Rid
<1> QED BY <1>1, <1>2

\* Before the only write of a plan, and before the first request, nothing is done.
LEMMA GotNone ==
  ASSUME NEW p \in Seq(RequestsOn(Facts)), NEW i \in Nat, i = 1 \/ (Once(p) /\ i <= Len(p))
  PROVE  Got(p, i) = {} /\ Rid(p, i) = {}
<1>1. \A k \in DOMAIN p : k < i => Puts(p[k]) = {} /\ Takes(p[k]) = {}
  BY DEF Once, Puts, Takes
<1> QED BY <1>1 DEF Got, Rid

LEMMA GotAll ==
  ASSUME NEW p \in Seq(RequestsOn(Facts)), NEW i \in Nat \ {0}, i \notin DOMAIN p
  PROVE  Got(p, i) = Got(p, Len(p) + 1) /\ Rid(p, i) = Rid(p, Len(p) + 1)
<1>1. \A k \in DOMAIN p : k < i /\ k < Len(p) + 1
  OBVIOUS
<1> QED BY <1>1 DEF Got, Rid

\* A request that takes effect, whatever else comes with it.
LEMMA MeetsNext ==
  ASSUME NEW p \in Seq(RequestsOn(Facts)), NEW i \in DOMAIN p, NEW x, NEW s, NEW n,
         Meets(x, Got(p, i), Rid(p, i), s),
         Puts(p[i]) \ x \subseteq n, (Takes(p[i]) \ x) \cap n = {},
         \A f \in Got(p, i) \ (Takes(p[i]) \cup x) : f \in s => f \in n,
         \A f \in Rid(p, i) \ (Puts(p[i]) \cup x) : f \notin s => f \notin n
  PROVE  Meets(x, Got(p, i + 1), Rid(p, i + 1), n)
<1>1. /\ Got(p, i + 1) \subseteq (Got(p, i) \ Takes(p[i])) \cup Puts(p[i])
      /\ Rid(p, i + 1) \subseteq (Rid(p, i) \ Puts(p[i])) \cup Takes(p[i])
  BY GotNext
<1> QED BY <1>1 DEF Meets

-----------------------------------------------------------------------------
\* A worker that still works, and one that has succeeded.
Held(w) == phase[w] \in Live \/ outcome[w] = "ok"

Devises(w) == phase[w] # "idle" => plan[w] = Plan(target, job[w])

\* What the requests sent so far have changed stays so, but for what is excused.
Obtained(w) ==
  Held(w) => /\ Meets(excused[w], Got(plan[w], at[w]), Rid(plan[w], at[w]), View(w))
             /\ \A k \in DOMAIN plan[w] : k < at[w] => plan[w][k].kind # "reject"
             /\ outcome[w] = "ok" => at[w] \notin DOMAIN plan[w]

\* A transaction is open from after the first request of its plan up to the last.
Midway(w) == Bracketed(plan[w]) /\ at[w] \in 2 .. Len(plan[w])
Opened(w) ==
  /\ draft[w] # None => phase[w] \in (Live \ {"open"}) \cup {"stuck"} /\ Midway(w)
  /\ phase[w] \in Live /\ Midway(w) => draft[w] # None

\* An operation that is not piecewise has changed nothing or done all.
Atomic(w) ==
  ~Piecewise(target, job[w]) /\ made[w] # {} =>
    Meets(excused[w], Due(target, job[w]), Barred(target, job[w]), store)

Does(w) == Devises(w) /\ Obtained(w) /\ Opened(w) /\ Atomic(w)
DoneInv == \A w \in Workers : Does(w)

LEMMA DoneInit == Init => DoneInv
<1> SUFFICES ASSUME Init, NEW w \in Workers PROVE Does(w)
  BY DEF DoneInv
<1>1. phase[w] = "idle" /\ draft[w] = None /\ outcome[w] = "none" /\ made[w] = {}
  BY DEF Init
<1> QED BY <1>1 DEF Does, Devises, Obtained, Held, Opened, Atomic, Live

\* Others may change the target meanwhile.
LEMMA DoneStill ==
  ASSUME DoneInv, UNCHANGED <<target, job>>, NEW v \in Workers, Still(v), outcome'[v] = outcome[v]
  PROVE  Does(v)'
<1>1. Does(v)
  BY DEF DoneInv
<1>2. /\ plan'[v] = plan[v] /\ at'[v] = at[v] /\ phase'[v] = phase[v] /\ draft'[v] = draft[v]
      /\ made'[v] = made[v] /\ excused'[v] = excused[v] \cup Differs(store, store')
  BY DEF Still
<1>3. /\ Held(v)' <=> Held(v)
      /\ Midway(v)' <=> Midway(v)
  BY <1>2 DEF Held, Midway
<1>4. ASSUME NEW got, NEW rid, Meets(excused[v], got, rid, store)
      PROVE  Meets(excused'[v], got, rid, store')
  BY <1>2, <1>4 DEF Meets, Differs
<1>5. ASSUME NEW got, NEW rid, Meets(excused[v], got, rid, View(v))
      PROVE  Meets(excused'[v], got, rid, View(v)')
  BY <1>2, <1>5 DEF Meets, Differs, View
<1>6. Devises(v)' /\ Opened(v)'
  BY <1>1, <1>2, <1>3 DEF Does, Devises, Opened
<1>7. Obtained(v)'
  BY <1>1, <1>2, <1>3, <1>5 DEF Does, Obtained
<1>8. Atomic(v)'
  BY <1>1, <1>2, <1>4 DEF Does, Atomic
<1> QED BY <1>6, <1>7, <1>8 DEF Does

LEMMA DoneKept ==
  ASSUME DoneInv, UNCHANGED <<target, job>>, NEW w \in Workers,
         \A v \in Workers \ {w} : Still(v) /\ outcome'[v] = outcome[v], Does(w)'
  PROVE  DoneInv'
<1>1. ASSUME NEW v \in Workers \ {w} PROVE Does(v)'
  BY DoneStill
<1> QED BY <1>1 DEF DoneInv

\* The plan of a worker that has begun.
LEMMA PlanIs ==
  ASSUME RunInv, DoneInv, NEW w \in Workers, phase[w] # "idle"
  PROVE  /\ plan[w] = Plan(target, job[w])
         /\ plan[w] \in Seq(RequestsOn(Facts)) /\ at[w] \in Nat \ {0}
         /\ Devised(target, job[w], plan[w])
         /\ plan[w] \in Seq(Direct(Asks(w))) \cup Rewrites(Asks(w))
<1>1. plan[w] = Plan(target, job[w])
  BY DEF DoneInv, Does, Devises
<1>2. target \in Targets /\ job[w] \in Events /\ at[w] \in Nat \ {0}
  BY DEF RunInv, TypeOK
<1> QED BY <1>1, <1>2, Plans, PlansDevised DEF Asks

\* The last change of an operation that is to happen as a whole completes it.
LEMMA Completes ==
  ASSUME RunInv, DoneInv, NEW w \in Workers, Sending(w), at[w] = Len(plan[w]),
         Request(w).kind # "reject",
         NEW x, NEW s, Meets(x, Got(plan[w], at[w] + 1), Rid(plan[w], at[w] + 1), s)
  PROVE  Meets(x, Due(target, job[w]), Barred(target, job[w]), s)
<1> DEFINE p == plan[w]
           i == at[w]
<1>1. /\ p \in Seq(RequestsOn(Facts)) /\ i \in DOMAIN p /\ Fulfils(p, Due(target, job[w]), Barred(target, job[w]))
      /\ DOMAIN p = 1 .. Len(p) /\ Len(p) \in Nat /\ p[i].kind # "reject"
  BY PlanIs DEF Sending, Devised, Request
<1>2. \A k \in DOMAIN p : k < i => p[k].kind # "reject"
  BY DEF DoneInv, Does, Obtained, Held, Live, Sending
<1> HIDE DEF p, i
<1>3. i = Len(p)
  BY DEF p, i
<1>4. ~Rejects(p)
  BY <1>1, <1>2, <1>3 DEF Rejects, p
<1>5. Due(target, job[w]) \subseteq Got(p, i + 1) /\ Barred(target, job[w]) \subseteq Rid(p, i + 1)
  BY <1>1, <1>3, <1>4 DEF Fulfils
<1> QED BY <1>5, MeetsLess DEF p, i

-----------------------------------------------------------------------------
\* A worker that is sending: its transaction is open exactly when its plan has begun one.
LEMMA Sends ==
  ASSUME RunInv, DoneInv, NEW w \in Workers, Sending(w)
  PROVE  /\ outcome[w] # "ok" /\ at[w] \in DOMAIN plan[w] /\ DOMAIN plan[w] = 1 .. Len(plan[w])
         /\ Len(plan[w]) \in Nat /\ Request(w) = plan[w][at[w]] /\ Request(w) \in RequestsOn(Facts)
         /\ draft[w] # None <=> Midway(w)
         /\ Meets(excused[w], Got(plan[w], at[w]), Rid(plan[w], at[w]), View(w))
         /\ \A k \in DOMAIN plan[w] : k < at[w] => plan[w][k].kind # "reject"
         /\ \/ target.kind = "postgres" /\ Bracketed(plan[w])
            \/ target.kind = "consultant" /\ Polled(plan[w])
            \/ plan[w] \in Seq(Simple)
         /\ ~Piecewise(target, job[w]) => Bracketed(plan[w]) \/ Once(plan[w])
<1>1. phase[w] = "send" /\ at[w] \in DOMAIN plan[w] /\ Does(w)
  BY DEF Sending, DoneInv
<1>2. /\ plan[w] \in Seq(RequestsOn(Facts)) /\ at[w] \in Nat \ {0}
      /\ Devised(target, job[w], plan[w])
  BY <1>1, PlanIs
<1>3. Held(w)
  BY <1>1 DEF Held, Live
<1>4. /\ outcome[w] # "ok"
      /\ Meets(excused[w], Got(plan[w], at[w]), Rid(plan[w], at[w]), View(w))
      /\ \A k \in DOMAIN plan[w] : k < at[w] => plan[w][k].kind # "reject"
  BY <1>1, <1>3 DEF Does, Obtained
<1>5. draft[w] # None <=> Midway(w)
  BY <1>1 DEF Does, Opened, Live
<1>6. DOMAIN plan[w] = 1 .. Len(plan[w]) /\ Len(plan[w]) \in Nat /\ Request(w) = plan[w][at[w]]
      /\ Request(w) \in RequestsOn(Facts)
  BY <1>1, <1>2 DEF Request
<1> QED BY <1>1, <1>2, <1>4, <1>5, <1>6 DEF Devised

\* A write on its own does what it says, and is the whole of its operation if that is not
\* piecewise.
LEMMA WriteMeets ==
  ASSUME RunInv, DoneInv, NEW w \in Workers, Ask(w, "write"), draft[w] = None,
         Changes(w, Result(w))
  PROVE  /\ ~Bracketed(plan[w])
         /\ Meets(excused'[w], Got(plan[w], at[w] + 1), Rid(plan[w], at[w] + 1), store')
         /\ ~Piecewise(target, job[w]) =>
              Meets(excused'[w], Due(target, job[w]), Barred(target, job[w]), store')
<1> DEFINE p == plan[w]
           i == at[w]
           r == Request(w)
<1>1. Sending(w) /\ r.kind = "write"
  BY DEF Ask
<1>2. /\ i \in DOMAIN p /\ DOMAIN p = 1 .. Len(p) /\ Len(p) \in Nat /\ r = p[i]
      /\ ~Midway(w) /\ Meets(excused[w], Got(p, i), Rid(p, i), View(w))
      /\ ~Piecewise(target, job[w]) => Bracketed(p) \/ Once(p)
  BY <1>1, Sends
<1>3. ~Bracketed(p)
  BY <1>1, <1>2 DEF Bracketed, Midway
<1>4. View(w) = store /\ store' = Result(w) /\ excused'[w] = excused[w]
  BY DEF View, Changes, RunInv, TypeOK
<1>5. p \in Seq(RequestsOn(Facts)) /\ p \in Seq(Direct(Asks(w))) \cup Rewrites(Asks(w)) /\ i \in Nat
  BY <1>1, PlanIs DEF Sending
<1>6. ASSUME r.of # {} PROVE Got(p, i) = {} /\ Rid(p, i) = {}
  <2>1. p \notin Seq(Direct(Asks(w)))
    BY <1>1, <1>2, <1>6 DEF Direct
  <2>2. Once(p)
    BY <1>5, <2>1 DEF Rewrites, Once
  <2> HIDE DEF p, i, r
  <2> QED BY <1>2, <1>5, <2>2, GotNone
<1>7. Puts(r) \subseteq store' /\ Takes(r) \cap store' = {}
  BY <1>1, <1>4 DEF Puts, Takes, Result, Effect
<1>8. /\ \A f \in Got(p, i) \ Takes(r) : f \in store => f \in store'
      /\ \A f \in Rid(p, i) \ Puts(r) : f \notin store => f \notin store'
  <2>1. CASE r.of = {}
    <3>1. store' = (store \ r.del) \cup r.add
      BY <1>4, <2>1 DEF Result, Effect
    <3> HIDE DEF r
    <3> QED BY <1>1, <3>1 DEF Puts, Takes
  <2>2. CASE r.of # {}
    BY <1>6, <2>2
  <2> QED BY <2>1, <2>2
<1> HIDE DEF p, i, r
<1>9. Meets(excused[w], Got(p, i), Rid(p, i), store)
  BY <1>2, <1>4
<1>10. Meets(excused[w], Got(p, i + 1), Rid(p, i + 1), store')
  BY <1>2, <1>5, <1>7, <1>8, <1>9, MeetsNext
<1>11. ASSUME ~Piecewise(target, job[w])
       PROVE  Meets(excused[w], Due(target, job[w]), Barred(target, job[w]), store')
  <2>1. i = Len(p)
    BY <1>1, <1>2, <1>3, <1>11 DEF Once, r
  <2> QED BY <1>1, <1>10, <2>1, Completes DEF p, i, r
<1> QED BY <1>3, <1>4, <1>10, <1>11 DEF p, i

LEMMA CommitMeets ==
  ASSUME RunInv, DoneInv, NEW w \in Workers, Ask(w, "commit"), Changes(w, View(w))
  PROVE  /\ at[w] = Len(plan[w])
         /\ Meets(excused'[w], Got(plan[w], at[w] + 1), Rid(plan[w], at[w] + 1), store')
         /\ Meets(excused'[w], Due(target, job[w]), Barred(target, job[w]), store')
<1> DEFINE p == plan[w]
           i == at[w]
<1>1. Sending(w) /\ Request(w).kind = "commit"
  BY DEF Ask
<1>2. /\ i \in DOMAIN p /\ DOMAIN p = 1 .. Len(p) /\ Len(p) \in Nat /\ Request(w) = p[i]
      /\ Meets(excused[w], Got(p, i), Rid(p, i), View(w))
      /\ Bracketed(p) \/ Polled(p) \/ p \in Seq(Simple)
  BY <1>1, Sends
<1>3. Bracketed(p)
  BY <1>1, <1>2 DEF Polled, Simple
<1>4. i = Len(p)
  BY <1>1, <1>2, <1>3 DEF Bracketed
<1>5. store' = View(w) /\ excused'[w] = excused[w]
  BY DEF Changes, RunInv, TypeOK
<1>6. p \in Seq(RequestsOn(Facts))
  BY <1>1, PlanIs DEF Sending
<1>7. Puts(p[i]) = {} /\ Takes(p[i]) = {}
  BY <1>1, <1>2 DEF Puts, Takes
<1> HIDE DEF p, i
<1>8. Meets(excused[w], Got(p, i + 1), Rid(p, i + 1), View(w))
  BY <1>2, <1>6, <1>7, MeetsNext
<1> QED BY <1>1, <1>4, <1>5, <1>8, Completes DEF p, i

-----------------------------------------------------------------------------
\* A run that ends.
LEMMA DoneEnds ==
  ASSUME RunInv, DoneInv, NEW w \in Workers, phase[w] \in Live, NEW how \in {"refused", "ok"},
         Ends(w, how), how = "ok" => phase[w] = "send" /\ at[w] \notin DOMAIN plan[w],
         \A v \in Workers \ {w} : Still(v), how = "ok" => Leaves,
         Leaves \/ (~Piecewise(target, job[w]) =>
                      Meets(excused'[w], Due(target, job[w]), Barred(target, job[w]), store'))
  PROVE  DoneInv'
<1>1. /\ UNCHANGED <<target, job, plan, at>> /\ phase'[w] \in {"closing", "done"}
      /\ draft'[w] = None /\ outcome'[w] = how
      /\ \A v \in Workers \ {w} : outcome'[v] = outcome[v]
  BY DEF RunInv, TypeOK, Ends
<1>2. Does(w)
  BY DEF DoneInv
<1>3. Devises(w)'
  BY <1>1, <1>2 DEF Does, Devises, Live
<1>4. Opened(w)'
  BY <1>1 DEF Opened, Live
<1>5. Atomic(w)'
  <2>1. CASE Leaves
    BY <1>1, <1>2, <2>1 DEF Does, Atomic, Leaves
  <2>2. CASE ~Piecewise(target, job[w]) =>
               Meets(excused'[w], Due(target, job[w]), Barred(target, job[w]), store')
    BY <1>1, <2>2 DEF Atomic
  <2> QED BY <2>1, <2>2
<1>6. Obtained(w)'
  <2>1. CASE how = "refused"
    BY <1>1, <2>1 DEF Obtained, Held, Live
  <2>2. CASE how = "ok"
    <3>1. /\ Meets(excused[w], Got(plan[w], at[w]), Rid(plan[w], at[w]), View(w))
          /\ \A k \in DOMAIN plan[w] : k < at[w] => plan[w][k].kind # "reject"
      BY <1>2 DEF Does, Obtained, Held
    <3>2. plan[w] \in Seq(RequestsOn(Facts))
      BY DEF RunInv, TypeOK
    <3>3. ~Midway(w)
      BY <2>2, <3>2 DEF Midway
    <3>4. draft[w] = None
      BY <1>2, <3>3 DEF Does, Opened
    <3>5. View(w) = store /\ View(w)' = store' /\ store' = store /\ excused' = excused
      BY <1>1, <2>2, <3>4 DEF View, Leaves
    <3> QED BY <1>1, <2>2, <3>1, <3>5 DEF Obtained
  <2> QED BY <2>1, <2>2
<1> QED BY <1>1, <1>3, <1>4, <1>5, <1>6, DoneKept DEF Does

\* A run that goes on to request i.
LEMMA DoneGoes ==
  ASSUME RunInv, DoneInv, NEW w \in Workers, Sending(w), NEW i \in Nat \ {0}, Goes(w, i),
         \A v \in Workers \ {w} : Still(v),
         Meets(excused'[w], Got(plan[w], i), Rid(plan[w], i), View(w)'),
         \A k \in DOMAIN plan[w] : k < i => plan[w][k].kind # "reject",
         draft'[w] # None <=> Bracketed(plan[w]) /\ i \in 2 .. Len(plan[w]),
         Atomic(w)'
  PROVE  DoneInv'
<1>1. /\ UNCHANGED <<target, job, plan, outcome>> /\ phase'[w] \in {"auth", "send"}
      /\ at'[w] = i
  BY DEF RunInv, TypeOK, Goes, Ready
<1>2. outcome[w] # "ok" /\ Does(w) /\ phase[w] = "send"
  BY Sends DEF DoneInv, Sending
<1>3. Devises(w)'
  BY <1>1, <1>2 DEF Does, Devises
<1>4. Opened(w)'
  BY <1>1 DEF Opened, Live, Midway
<1>5. Obtained(w)'
  BY <1>1, <1>2 DEF Obtained
<1> QED BY <1>1, <1>3, <1>4, <1>5, DoneKept DEF Does

\* The session, the connection and the pool.
LEMMA DonePhase ==
  ASSUME RunInv, DoneInv, NEW w \in Workers, UNCHANGED <<target, job, plan, at, seen, draft>>,
         Leaves, \A v \in Workers \ {w} : phase'[v] = phase[v] /\ outcome'[v] = outcome[v],
         \/ phase[w] \in Live /\ phase'[w] \in Live \ {"open"} /\ outcome'[w] = outcome[w]
         \/ phase[w] = "closing" /\ phase'[w] = "done" /\ outcome'[w] = outcome[w]
         \/ phase[w] \in {"open", "closing"} /\ phase'[w] = "done" /\ outcome'[w] = "threw"
  PROVE  DoneInv'
<1>1. Does(w) /\ View(w)' = View(w) /\ store' = store /\ excused' = excused /\ made' = made
  BY DEF DoneInv, Leaves, View
<1>2. \A v \in Workers \ {w} : Still(v)
  BY LeavesStill
<1>3. Devises(w)' /\ Atomic(w)'
  BY <1>1 DEF Does, Devises, Atomic, Live
<1>4. Opened(w)'
  BY <1>1 DEF Does, Opened, Midway, Live
<1>5. Held(w)' => Held(w) /\ outcome'[w] = outcome[w]
  BY DEF Held, Live
<1>6. Obtained(w)'
  BY <1>1, <1>5 DEF Does, Obtained
<1> QED BY <1>2, <1>3, <1>4, <1>6, DoneKept DEF Does

LEMMA DoneStart ==
  ASSUME RunInv, DoneInv, NEW w \in Workers, Start(w)
  PROVE  DoneInv'
<1>1. /\ UNCHANGED <<target, job, store, draft>> /\ plan'[w] = Plan(target, job[w])
      /\ at'[w] = 1 /\ made'[w] = {} /\ outcome'[w] = "none" /\ phase'[w] # "idle"
      /\ \A v \in Workers \ {w} : Still(v) /\ outcome'[v] = outcome[v]
  BY DEF RunInv, TypeOK, Start, Still, Differs, Ready
<1>2. draft[w] = None
  BY DEF DoneInv, Does, Opened, Start, Live
<1>3. Plan(target, job[w]) \in Seq(RequestsOn(Facts))
  BY Plans DEF RunInv, TypeOK
<1>4. Devises(w)' /\ Atomic(w)'
  BY <1>1 DEF Devises, Atomic
<1>5. Opened(w)'
  BY <1>1, <1>2 DEF Opened, Midway
<1>6. Obtained(w)'
  <2>1. Got(plan'[w], 1) = {} /\ Rid(plan'[w], 1) = {}
    BY <1>1, <1>3, GotNone
  <2>2. \A k \in DOMAIN plan'[w] : ~(k < 1)
    BY <1>1, <1>3
  <2> QED BY <1>1, <2>1, <2>2 DEF Obtained, Meets
<1> QED BY <1>1, <1>4, <1>5, <1>6, DoneKept DEF Does

-----------------------------------------------------------------------------
\* A request that changes nothing, in a plan without a transaction.
LEMMA DoneQuiet ==
  ASSUME RunInv, DoneInv, NEW w \in Workers, Sending(w), NEW i \in Nat \ {0}, Goes(w, i),
         UNCHANGED draft, Leaves, \A v \in Workers \ {w} : seen'[v] = seen[v],
         ~Bracketed(plan[w]),
         Meets(excused[w], Got(plan[w], i), Rid(plan[w], i), store),
         \A k \in DOMAIN plan[w] : k < i => plan[w][k].kind # "reject"
  PROVE  DoneInv'
<1>1. /\ UNCHANGED <<target, job, plan>>
      /\ \A v \in Workers \ {w} : phase'[v] = phase[v] /\ at'[v] = at[v]
  BY GoesFrame DEF RunInv
<1>2. \A v \in Workers \ {w} : Still(v)
  BY <1>1, LeavesStill
<1>3. draft[w] = None
  BY Sends DEF Midway
<1>4. View(w)' = store /\ excused' = excused
  BY <1>3 DEF View, Leaves
<1>5. Atomic(w)'
  BY <1>1 DEF DoneInv, Does, Atomic, Leaves
<1> QED BY <1>2, <1>3, <1>4, <1>5, DoneGoes

LEMMA DoneReads ==
  ASSUME RunInv, DoneInv, NEW w \in Workers, Reads(w) \/ Follows(w)
  PROVE  DoneInv'
<1> DEFINE p == plan[w]
           i == at[w]
<1>1. /\ Sending(w) /\ Request(w).kind \in {"read", "follow"} /\ Goes(w, i + 1) /\ Leaves
      /\ UNCHANGED draft /\ \A v \in Workers \ {w} : seen'[v] = seen[v]
  BY DEF Reads, Follows, Ask, RunInv, TypeOK
<1>2. /\ i \in DOMAIN p /\ DOMAIN p = 1 .. Len(p) /\ Request(w) = p[i] /\ Len(p) \in Nat
      /\ Meets(excused[w], Got(p, i), Rid(p, i), View(w)) /\ (draft[w] # None <=> Midway(w))
      /\ \A k \in DOMAIN p : k < i => p[k].kind # "reject"
  BY <1>1, Sends
<1>3. ~Bracketed(p)
  BY <1>1, <1>2 DEF Bracketed
<1>4. View(w) = store
  BY <1>2, <1>3 DEF View, Midway
<1>5. p \in Seq(RequestsOn(Facts)) /\ Puts(p[i]) = {} /\ Takes(p[i]) = {}
  BY <1>1, <1>2, PlanIs DEF Puts, Takes, Sending
<1>6. \A k \in DOMAIN p : k < i + 1 => p[k].kind # "reject"
  BY <1>1, <1>2
<1> HIDE DEF p, i
<1>7. Meets(excused[w], Got(p, i + 1), Rid(p, i + 1), store)
  BY <1>2, <1>4, <1>5, MeetsNext
<1>8. i + 1 \in Nat \ {0}
  BY <1>2
<1> QED BY <1>1, <1>3, <1>6, <1>7, <1>8, DoneQuiet DEF p, i

LEMMA DonePolls ==
  ASSUME RunInv, DoneInv, NEW w \in Workers, PollStarted(w) \/ PollSettled(w)
  PROVE  DoneInv'
<1> DEFINE p == plan[w]
<1>1. Sending(w) /\ Request(w).kind = "poll" /\ Leaves /\ LastPoll \in Nat
  BY PollAssumption DEF PollStarted, PollSettled, Ask, LastPoll
<1>2. /\ at[w] \in DOMAIN p /\ DOMAIN p = 1 .. Len(p) /\ Request(w) = p[at[w]] /\ Len(p) \in Nat
      /\ Bracketed(p) \/ Polled(p) \/ p \in Seq(Simple)
  BY <1>1, Sends
<1>3. Polled(p) /\ ~Bracketed(p)
  BY <1>1, <1>2 DEF Bracketed, Simple
<1>4. /\ Once(p) /\ at[w] <= LastPoll /\ LastPoll + 1 < Len(p)
      /\ \A k \in DOMAIN p : p[k].kind # "reject"
  BY <1>1, <1>2, <1>3 DEF Polled
<1>5. p \in Seq(RequestsOn(Facts))
  BY <1>1, PlanIs DEF Sending
<1>6. ASSUME NEW i \in Nat \ {0}, i <= Len(p), Goes(w, i), UNCHANGED <<seen, draft>> PROVE DoneInv'
  <2>1. Got(p, i) = {} /\ Rid(p, i) = {}
    BY <1>4, <1>5, <1>6, GotNone
  <2>2. Meets(excused[w], Got(p, i), Rid(p, i), store)
    BY <2>1 DEF Meets
  <2> QED BY <1>1, <1>3, <1>4, <1>6, <2>2, DoneQuiet
<1>7. ASSUME Ends(w, "refused") PROVE DoneInv'
  <2>1. \A v \in Workers \ {w} : Still(v)
    BY <1>1, <1>7, EndsFrame, LeavesStill DEF RunInv
  <2> QED BY <1>1, <1>7, <2>1, DoneEnds DEF Live, Sending
<1>8. \/ Ends(w, "refused")
      \/ \E i \in Nat \ {0} : i <= Len(p) /\ Goes(w, i) /\ UNCHANGED <<seen, draft>>
  <2>1. CASE PollStarted(w)
    <3>1. at[w] + 1 \in Nat \ {0}
      BY <1>2
    <3>2. at[w] = LastPoll \/ at[w] + 1 <= Len(p)
      BY <1>1, <1>2, <1>4
    <3> QED BY <2>1, <3>1, <3>2 DEF PollStarted
  <2>2. CASE PollSettled(w)
    <3>1. PICK skipped \in {1, 2} : Goes(w, LastPoll + skipped)
      BY <2>2 DEF PollSettled
    <3>2. UNCHANGED <<seen, draft>>
      BY <2>2 DEF PollSettled
    <3>3. LastPoll + skipped \in Nat \ {0} /\ LastPoll + skipped <= Len(p)
      BY <1>1, <1>2, <1>4
    <3> QED BY <3>1, <3>2, <3>3
  <2> QED BY <2>1, <2>2
<1> QED BY <1>6, <1>7, <1>8

-----------------------------------------------------------------------------
\* Requests that change the target.
LEMMA DoneWrites ==
  ASSUME RunInv, DoneInv, NEW w \in Workers, Writes(w)
  PROVE  DoneInv'
<1>1. /\ Ask(w, "write") /\ draft[w] = None /\ Changes(w, Result(w)) /\ Goes(w, at[w] + 1)
      /\ UNCHANGED <<seen, draft>> /\ Sending(w) /\ Request(w).kind = "write"
  BY DEF Writes, Ask
<1>2. /\ ~Bracketed(plan[w])
      /\ Meets(excused'[w], Got(plan[w], at[w] + 1), Rid(plan[w], at[w] + 1), store')
      /\ ~Piecewise(target, job[w]) =>
           Meets(excused'[w], Due(target, job[w]), Barred(target, job[w]), store')
  BY <1>1, WriteMeets
<1>3. /\ at[w] + 1 \in Nat \ {0}
      /\ \A k \in DOMAIN plan[w] : k < at[w] + 1 => plan[w][k].kind # "reject"
  BY <1>1, Sends
<1>4. UNCHANGED <<target, job, plan>> /\ \A v \in Workers \ {w} : Still(v)
  BY <1>1, GoesFrame, ChangesStill DEF RunInv
<1>5. View(w)' = store' /\ draft'[w] = None
  BY <1>1 DEF View
<1>6. Atomic(w)'
  BY <1>2, <1>4 DEF Atomic
<1> QED BY <1>1, <1>2, <1>3, <1>4, <1>5, <1>6, DoneGoes

LEMMA DoneCommits ==
  ASSUME RunInv, DoneInv, NEW w \in Workers, Commits(w)
  PROVE  DoneInv'
<1>1. /\ Ask(w, "commit") /\ Changes(w, View(w)) /\ Goes(w, at[w] + 1) /\ UNCHANGED seen
      /\ Sending(w) /\ Request(w).kind = "commit"
      /\ draft'[w] = None /\ \A v \in Workers \ {w} : draft'[v] = draft[v]
  BY DEF Commits, Ask, RunInv, TypeOK
<1>2. /\ at[w] = Len(plan[w])
      /\ Meets(excused'[w], Got(plan[w], at[w] + 1), Rid(plan[w], at[w] + 1), store')
      /\ Meets(excused'[w], Due(target, job[w]), Barred(target, job[w]), store')
  BY <1>1, CommitMeets
<1>3. /\ at[w] + 1 \in Nat \ {0} /\ at[w] + 1 \notin 2 .. Len(plan[w])
      /\ \A k \in DOMAIN plan[w] : k < at[w] + 1 => plan[w][k].kind # "reject"
  BY <1>1, <1>2, Sends
<1>4. UNCHANGED <<target, job, plan>> /\ \A v \in Workers \ {w} : Still(v)
  BY <1>1, GoesFrame, ChangesStill DEF RunInv
<1>5. View(w)' = store'
  BY <1>1 DEF View
<1>6. Atomic(w)'
  BY <1>2, <1>4 DEF Atomic
<1> QED BY <1>1, <1>2, <1>3, <1>4, <1>5, <1>6, DoneGoes

LEMMA DoneBegins ==
  ASSUME RunInv, DoneInv, NEW w \in Workers, Begins(w)
  PROVE  DoneInv'
<1> DEFINE p == plan[w]
<1>1. /\ Goes(w, at[w] + 1) /\ Leaves /\ UNCHANGED seen /\ Sending(w) /\ Request(w).kind = "begin"
      /\ draft'[w] = [add |-> {}, del |-> {}] /\ \A v \in Workers \ {w} : draft'[v] = draft[v]
  BY DEF Begins, Ask, RunInv, TypeOK
<1>2. /\ at[w] \in DOMAIN p /\ DOMAIN p = 1 .. Len(p) /\ Request(w) = p[at[w]] /\ Len(p) \in Nat
      /\ Bracketed(p) \/ Polled(p) \/ p \in Seq(Simple)
      /\ (draft[w] # None <=> Midway(w))
      /\ Meets(excused[w], Got(p, at[w]), Rid(p, at[w]), View(w))
  BY <1>1, Sends
<1>3. Bracketed(p)
  BY <1>1, <1>2 DEF Polled, Simple
<1>4. at[w] = 1 /\ Len(p) > 1
  BY <1>1, <1>2, <1>3 DEF Bracketed
<1>5. p \in Seq(RequestsOn(Facts)) /\ Puts(p[at[w]]) = {} /\ Takes(p[at[w]]) = {}
  BY <1>1, <1>2, PlanIs DEF Puts, Takes, Sending
<1>6. UNCHANGED <<target, job, plan>> /\ \A v \in Workers \ {w} : Still(v)
  BY <1>1, GoesFrame, LeavesStill DEF RunInv
<1>7. draft'[w] # None
  BY <1>1, RunAssumption
<1>8. View(w) = store /\ View(w)' = store
  <2>1. View(w) = store
    BY <1>2, <1>4 DEF View, Midway
  <2>2. View(w)' = (store' \ draft'[w].del) \cup draft'[w].add
    BY <1>7 DEF View
  <2>3. draft'[w].del = {} /\ draft'[w].add = {} /\ store' = store
    BY <1>1 DEF Leaves
  <2> QED BY <2>1, <2>2, <2>3
<1>9. excused' = excused /\ Atomic(w)'
  BY <1>1, <1>6 DEF DoneInv, Does, Atomic, Leaves
<1>10. /\ \A k \in DOMAIN p : k < at[w] + 1 => p[k].kind # "reject"
       /\ draft'[w] # None <=> Bracketed(p) /\ at[w] + 1 \in 2 .. Len(p)
       /\ at[w] + 1 \in Nat \ {0}
  BY <1>1, <1>2, <1>3, <1>4, <1>7
<1> HIDE DEF p
<1>11. Meets(excused'[w], Got(p, at[w] + 1), Rid(p, at[w] + 1), View(w)')
  BY <1>2, <1>5, <1>8, <1>9, MeetsNext
<1> QED BY <1>1, <1>6, <1>9, <1>10, <1>11, DoneGoes DEF p

LEMMA DoneDrafted ==
  ASSUME RunInv, DoneInv, NEW w \in Workers, Drafted(w)
  PROVE  DoneInv'
<1> DEFINE p == plan[w]
           i == at[w]
           r == Request(w)
           d == draft[w]
           n == draft'[w]
<1>1. /\ Goes(w, i + 1) /\ Leaves /\ UNCHANGED seen /\ Sending(w) /\ r.kind = "write" /\ d # None
      /\ n = [add |-> (d.add \ r.del) \cup r.add, del |-> (d.del \ r.add) \cup r.del]
      /\ \A v \in Workers \ {w} : draft'[v] = draft[v]
  BY DEF Drafted, Ask, RunInv, TypeOK
<1>2. /\ i \in DOMAIN p /\ DOMAIN p = 1 .. Len(p) /\ r = p[i] /\ Len(p) \in Nat
      /\ Midway(w) /\ Meets(excused[w], Got(p, i), Rid(p, i), View(w))
      /\ \A k \in DOMAIN p : k < i => p[k].kind # "reject"
      /\ r \in RequestsOn(Facts)
  BY <1>1, Sends
<1>3. Bracketed(p) /\ i + 1 \in 2 .. Len(p)
  BY <1>1, <1>2 DEF Bracketed, Midway
<1>4. n # None
  <2>1. n.add \subseteq Facts /\ n.del \subseteq Facts
    BY <1>1, <1>2 DEF RequestsOn, RunInv, TypeOK, Drafts
  <2>2. n = [add |-> n.add, del |-> n.del]
    BY <1>1
  <2> HIDE DEF n
  <2>3. n \in [add : SUBSET Facts, del : SUBSET Facts]
    BY <2>1, <2>2
  <2> QED BY <2>3, RunAssumption
<1>5. p \in Seq(RequestsOn(Facts))
  BY <1>1, PlanIs DEF Sending
<1>6. UNCHANGED <<target, job, plan>> /\ \A v \in Workers \ {w} : Still(v)
  BY <1>1, GoesFrame, LeavesStill DEF RunInv
<1>7. /\ View(w) = (store \ d.del) \cup d.add
      /\ View(w)' = (store' \ n.del) \cup n.add /\ store' = store
      /\ n.add = (d.add \ r.del) \cup r.add /\ n.del = (d.del \ r.add) \cup r.del
  BY <1>1, <1>4 DEF View, Leaves
<1>8. excused' = excused /\ Atomic(w)'
  BY <1>1, <1>6 DEF DoneInv, Does, Atomic, Leaves
<1>9. \A k \in DOMAIN p : k < i + 1 => p[k].kind # "reject"
  BY <1>1, <1>2
<1>10. Puts(r) = r.add /\ Takes(r) = r.del \ r.add
  BY <1>1 DEF Puts, Takes
<1> HIDE DEF p, i, r, d, n
<1>11. /\ Puts(r) \subseteq View(w)' /\ Takes(r) \cap View(w)' = {}
       /\ \A f \in Got(p, i) \ Takes(r) : f \in View(w) => f \in View(w)'
       /\ \A f \in Rid(p, i) \ Puts(r) : f \notin View(w) => f \notin View(w)'
  BY <1>7, <1>10
<1>12. Meets(excused[w], Got(p, i + 1), Rid(p, i + 1), View(w)')
  BY <1>2, <1>5, <1>11, MeetsNext
<1>13. i + 1 \in Nat \ {0}
  BY <1>2
<1> QED BY <1>1, <1>3, <1>4, <1>6, <1>8, <1>9, <1>12, <1>13, DoneGoes DEF p, i, n

\* An operation that is to happen as a whole is no command of two halves.
LEMMA HalvesPiecewise ==
  ASSUME RunInv, DoneInv, NEW w \in Workers, Halves(w)
  PROVE  Piecewise(target, job[w])
<1> DEFINE e == job[w]
           u == e.user
           refs == LinuxGroups(target, e)
           update == Write({Account(u)} \cup Required(refs), {}, {Attrs(u)} \cup Joined(u, refs),
                           Replaced(u, refs))
           hash == Write({Account(u)}, {}, {Password(u), Active(u)}, {})
           look == Read({}, {})
<1>1. target.kind = "ssh" /\ Sending(w) /\ Chained(Request(w)) /\ at[w] \in DOMAIN plan[w]
      /\ Request(w) = plan[w][at[w]]
  BY DEF Halves, Ask, Sending, Request
<1>2. plan[w] = SshPlan(target, e)
  BY <1>1, PlanIs DEF Sending, Plan
<1>3. SUFFICES ASSUME e.op \notin {"create", "enable", "disable", "delete"} PROVE FALSE
  BY <1>1 DEF Piecewise
<1>4. \/ plan[w] = <<Reject>> \/ plan[w] = <<look>>
      \/ plan[w] = <<update>> \/ plan[w] = <<hash>>
  BY <1>2, <1>3 DEF SshPlan, SshUpdate, Chpasswd
<1>5. \A v \in Users : Attrs(u) \notin {Active(v), Valid(v)} /\ Password(u) \notin {Active(v), Valid(v)}
  BY DEF Attrs, Password, Active, Valid
<1>6. ~Chained(update) /\ ~Chained(hash)
  <2>1. Attrs(u) \in update.add \cup update.del /\ Password(u) \in hash.add \cup hash.del
    BY DEF Write
  <2> HIDE DEF update, hash
  <2> QED BY <1>5, <2>1 DEF Chained
<1>7. ~Chained(Reject) /\ ~Chained(look)
  <2>1. Reject.add \cup Reject.del = {} /\ look.add \cup look.del = {}
    BY DEF Reject, Read, Bare
  <2> HIDE DEF look
  <2> QED BY <2>1 DEF Chained
<1> HIDE DEF update, hash, look
<1>8. Request(w) \in {Reject, look, update, hash}
  BY <1>1, <1>4
<1> QED BY <1>1, <1>6, <1>7, <1>8

\* A change whose answer is lost, or never comes.
LEMMA DoneLosesAnswer ==
  ASSUME RunInv, DoneInv, NEW w \in Workers, LosesAnswer(w)
  PROVE  DoneInv'
<1>1. Ends(w, "refused")
  BY DEF LosesAnswer
<1>2. /\ \E s : Changes(w, s)
      /\ ~Piecewise(target, job[w]) =>
           Meets(excused'[w], Due(target, job[w]), Barred(target, job[w]), store')
      /\ phase[w] = "send"
  <2>1. CASE Lands(w)
    BY <2>1, WriteMeets DEF Lands, Ask, Sending
  <2>2. CASE Ask(w, "commit") /\ Changes(w, View(w))
    BY <2>2, CommitMeets DEF Ask, Sending
  <2>3. CASE Halves(w) /\ Changes(w, Half(w))
    BY <2>3, HalvesPiecewise DEF Halves, Ask, Sending
  <2> QED BY <2>1, <2>2, <2>3 DEF LosesAnswer
<1>3. \A v \in Workers \ {w} : Still(v)
  BY <1>1, <1>2, EndsFrame, ChangesStill DEF RunInv
<1> QED BY <1>1, <1>2, <1>3, DoneEnds DEF Live

LEMMA DoneHangs ==
  ASSUME RunInv, DoneInv, NEW w \in Workers, Hangs(w)
  PROVE  DoneInv'
<1>1. /\ UNCHANGED <<target, job, plan, at, seen, outcome>> /\ phase'[w] = "stuck" /\ draft'[w] = None
      /\ \A v \in Workers \ {w} : phase'[v] = phase[v] /\ draft'[v] = draft[v]
      /\ \/ Lands(w) \/ Leaves
         \/ Halves(w) /\ Changes(w, Half(w))
         \/ Ask(w, "commit") /\ Changes(w, View(w))
      /\ Sending(w)
  BY DEF Hangs, Sent, RunInv, TypeOK
<1>2. Does(w) /\ outcome[w] # "ok"
  BY <1>1, Sends DEF DoneInv
<1>3. \A v \in Workers \ {w} : Still(v)
  <2>1. Leaves \/ \E s : Changes(w, s)
    BY <1>1 DEF Lands
  <2> QED BY <1>1, <2>1, LeavesStill, ChangesStill
<1>4. Devises(w)' /\ Obtained(w)' /\ Opened(w)'
  <2>1. Devises(w)' /\ Obtained(w)'
    BY <1>1, <1>2 DEF Does, Devises, Obtained, Held, Live, Sending
  <2>2. Opened(w)'
    BY <1>1, <1>2 DEF Does, Opened, Midway, Live
  <2> QED BY <2>1, <2>2
<1>5. Atomic(w)'
  <2>1. CASE Leaves
    BY <1>1, <1>2, <2>1 DEF Does, Atomic, Leaves
  <2>2. CASE Lands(w)
    BY <1>1, <2>2, WriteMeets DEF Lands, Atomic
  <2>3. CASE Halves(w) /\ Changes(w, Half(w))
    BY <1>1, <2>3, HalvesPiecewise DEF Atomic
  <2>4. CASE Ask(w, "commit") /\ Changes(w, View(w))
    BY <1>1, <2>4, CommitMeets DEF Atomic
  <2> QED BY <1>1, <2>1, <2>2, <2>3, <2>4
<1> QED BY <1>1, <1>3, <1>4, <1>5, DoneKept DEF Does

\* A write that is taken for done.
LEMMA DoneSupposes ==
  ASSUME RunInv, DoneInv, NEW w \in Workers, NEW s, Supposes(w, s), Ask(w, "write"), draft[w] = None,
         Differs(store, s) \subseteq Touches(Request(w)),
         s = store \/ Piecewise(target, job[w])
  PROVE  DoneInv'
<1> DEFINE p == plan[w]
           i == at[w]
           r == Request(w)
           x == excused'[w]
<1>1. /\ Goes(w, i + 1) /\ UNCHANGED <<seen, draft>> /\ Sending(w) /\ r.kind = "write" /\ store' = s
      /\ x = excused[w] \cup Touches(r)
      /\ \A v \in Workers \ {w} : excused'[v] = excused[v] \cup Differs(store, s) /\ made'[v] = made[v]
      /\ s = store => made'[w] = made[w]
  BY DEF Supposes, Ask, Differs, RunInv, TypeOK
<1>2. /\ i \in DOMAIN p /\ DOMAIN p = 1 .. Len(p) /\ r = p[i] /\ Len(p) \in Nat
      /\ (draft[w] # None <=> Midway(w)) /\ Meets(excused[w], Got(p, i), Rid(p, i), View(w))
      /\ \A k \in DOMAIN p : k < i => p[k].kind # "reject"
  BY <1>1, Sends
<1>3. p \in Seq(RequestsOn(Facts)) /\ Does(w)
  BY <1>1, PlanIs DEF Sending, DoneInv
<1>4. draft'[w] # None <=> Bracketed(p) /\ i + 1 \in 2 .. Len(p)
  BY <1>1, <1>2 DEF Bracketed, Midway
<1>5. /\ UNCHANGED <<target, job, plan>>
      /\ \A v \in Workers \ {w} : phase'[v] = phase[v] /\ at'[v] = at[v]
  BY <1>1, GoesFrame DEF RunInv
<1>6. \A v \in Workers \ {w} : Still(v)
  BY <1>1, <1>5 DEF Still
<1>7. View(w) = store /\ View(w)' = s
  BY <1>1 DEF View
<1>8. \A k \in DOMAIN p : k < i + 1 => p[k].kind # "reject"
  BY <1>1, <1>2
<1>9. Puts(r) \subseteq x /\ Takes(r) \subseteq x /\ Differs(store, s) \subseteq x
  BY <1>1 DEF Puts, Takes, Touches
<1>10. Atomic(w)'
  <2>1. CASE s = store
    <3>1. made'[w] = made[w] /\ store' = store /\ excused[w] \subseteq x
      BY <1>1, <2>1
    <3> QED BY <1>3, <1>5, <3>1, MeetsLess DEF Does, Atomic
  <2>2. CASE Piecewise(target, job[w])
    BY <1>5, <2>2 DEF Atomic
  <2> QED BY <2>1, <2>2
<1> HIDE DEF p, i, r, x
<1>11. Meets(x, Got(p, i + 1), Rid(p, i + 1), s)
  <2>1. /\ Got(p, i + 1) \subseteq (Got(p, i) \ Takes(p[i])) \cup Puts(p[i])
        /\ Rid(p, i + 1) \subseteq (Rid(p, i) \ Puts(p[i])) \cup Takes(p[i])
    BY <1>2, <1>3, GotNext
  <2>2. Meets(excused[w], Got(p, i), Rid(p, i), store) /\ excused[w] \subseteq x
    BY <1>1, <1>2, <1>7
  <2> QED BY <1>2, <1>9, <2>1, <2>2 DEF Meets, Differs
<1>12. i + 1 \in Nat \ {0}
  BY <1>2
<1> QED BY <1>1, <1>4, <1>6, <1>7, <1>8, <1>10, <1>11, <1>12, DoneGoes DEF p, i, x

LEMMA DoneCutOff ==
  ASSUME RunInv, DoneInv, NEW w \in Workers, CutOff(w) \/ Misreads(w)
  PROVE  DoneInv'
<1>1. Ask(w, "write") /\ target.kind \in {"ssh", "consultant"} /\ Sending(w)
  BY DEF CutOff, Misreads, Ask
<1>2. draft[w] = None
  <2>1. Polled(plan[w]) \/ plan[w] \in Seq(Simple)
    BY <1>1, Sends
  <2>2. ~Bracketed(plan[w])
    BY <2>1 DEF Bracketed, Polled, Simple
  <2> QED BY <1>1, <2>2, Sends DEF Midway
<1>3. CASE Supposes(w, store)
  <2>1. Differs(store, store) = {}
    BY DEF Differs
  <2> QED BY <1>1, <1>2, <1>3, <2>1, DoneSupposes
<1>4. CASE Halves(w) /\ Supposes(w, Half(w))
  <2>1. Differs(store, Half(w)) \subseteq Touches(Request(w)) /\ Piecewise(target, job[w])
    BY <1>4, HalfIs, HalvesPiecewise DEF RunInv
  <2> DEFINE s == Half(w)
  <2>2. Supposes(w, s) /\ Differs(store, s) \subseteq Touches(Request(w))
    BY <1>4, <2>1
  <2> HIDE DEF s
  <2> QED BY <1>1, <1>2, <2>1, <2>2, DoneSupposes
<1> QED BY <1>3, <1>4 DEF CutOff, Misreads

-----------------------------------------------------------------------------
LEMMA DoneStep == RunInv /\ DoneInv /\ [Next]_vars => DoneInv'
<1> SUFFICES ASSUME RunInv, DoneInv, [Next]_vars PROVE DoneInv'
  OBVIOUS
<1>1. CASE UNCHANGED vars \/ Expire
  <2>1. UNCHANGED <<target, store, job, plan, at, phase, seen, draft, outcome, made, excused>>
    BY <1>1 DEF vars, history, Expire
  <2>2. \A w \in Workers : Still(w) /\ outcome'[w] = outcome[w]
    BY <2>1 DEF Still, Differs
  <2> QED BY <2>1, <2>2, DoneStill DEF DoneInv
<1>2. ASSUME NEW w \in Workers,
             Connects(w) \/ ConnectFails(w) \/ Close(w) \/ CloseFails(w) \/ TakeSession(w)
               \/ Login(w) \/ LoginAnswered(w) \/ Renew(w) \/ Forbidden(w)
      PROVE  DoneInv'
  <2>1. /\ UNCHANGED <<target, job, plan, at, seen, draft>> /\ Leaves
        /\ \A v \in Workers \ {w} : phase'[v] = phase[v] /\ outcome'[v] = outcome[v]
        /\ \/ phase[w] \in Live /\ phase'[w] \in Live \ {"open"} /\ outcome'[w] = outcome[w]
           \/ phase[w] = "closing" /\ phase'[w] = "done" /\ outcome'[w] = outcome[w]
           \/ phase[w] \in {"open", "closing"} /\ phase'[w] = "done" /\ outcome'[w] = "threw"
    BY <1>2 DEF RunInv, TypeOK, Connects, ConnectFails, Close, CloseFails, TakeSession, Login,
                LoginAnswered, Renew, Forbidden, Sent, Leaves, Live, history, Sending
  <2> QED BY <2>1, DonePhase
<1>3. ASSUME NEW w \in Workers,
             GiveUp(w) \/ LoginFails(w) \/ Refused(w) \/ WaitTimesOut(w) \/ Succeeds(w)
               \/ LosesRequest(w)
      PROVE  DoneInv'
  <2>1. Leaves /\ phase[w] \in Live
    BY <1>3 DEF GiveUp, LoginFails, Refused, WaitTimesOut, Succeeds, LosesRequest, Ask, Sent, Sending,
                Live
  <2>2. PICK how \in {"refused", "ok"} :
          Ends(w, how) /\ (how = "ok" => phase[w] = "send" /\ at[w] \notin DOMAIN plan[w])
    BY <1>3 DEF GiveUp, LoginFails, Refused, WaitTimesOut, Succeeds, LosesRequest
  <2>3. \A v \in Workers \ {w} : Still(v)
    BY <2>1, <2>2, EndsFrame, LeavesStill DEF RunInv
  <2> QED BY <2>1, <2>2, <2>3, DoneEnds
<1> QED BY <1>1, <1>2, <1>3, DoneStart, DoneReads, DonePolls, DoneWrites, DoneCommits, DoneBegins,
           DoneDrafted, DoneLosesAnswer, DoneHangs, DoneCutOff DEF Next, Step, Fails

LEMMA DoneAlways == Spec => [](RunInv /\ DoneInv)
<1>1. Init => RunInv /\ DoneInv
  BY TypeInit, RunInit, DoneInit DEF RunInv
<1>2. RunInv /\ DoneInv /\ [Next]_vars => RunInv' /\ DoneInv'
  BY TypeStep, RunStep, DoneStep DEF RunInv
<1> QED BY <1>1, <1>2, PTL DEF Spec

\* Whatever connector handles an event, execute answers success only when every account,
\* right, flag and group the event asks for is there and what it takes away is gone, but
\* for what that connector leaves out, what others changed meanwhile and what it took for
\* done by mistake.
THEOREM SuccessMeansDone == Spec => []OkMeansDone
<1>1. RunInv /\ DoneInv => OkMeansDone
  <2> SUFFICES ASSUME RunInv, DoneInv, NEW w \in Workers, phase[w] = "done", outcome[w] = "ok"
               PROVE  /\ Due(target, job[w]) \ excused[w] \subseteq store
                      /\ (Barred(target, job[w]) \ excused[w]) \cap store = {}
    BY DEF OkMeansDone
  <2> DEFINE p == plan[w]
             n == Len(p) + 1
  <2>1. /\ p \in Seq(RequestsOn(Facts)) /\ at[w] \in Nat \ {0}
        /\ Fulfils(p, Due(target, job[w]), Barred(target, job[w]))
    BY PlanIs DEF Devised
  <2>2. /\ Meets(excused[w], Got(p, at[w]), Rid(p, at[w]), View(w)) /\ at[w] \notin DOMAIN p
        /\ \A k \in DOMAIN p : k < at[w] => p[k].kind # "reject"
        /\ draft[w] = None
    BY DEF DoneInv, Does, Obtained, Opened, Held, Live
  <2>3. ~Rejects(p)
    BY <2>1, <2>2 DEF Rejects
  <2> HIDE DEF p
  <2>4. Got(p, at[w]) = Got(p, n) /\ Rid(p, at[w]) = Rid(p, n)
    BY <2>1, <2>2, GotAll
  <2>5. View(w) = store
    BY <2>2 DEF View
  <2> QED BY <2>1, <2>2, <2>3, <2>4, <2>5 DEF Fulfils, Meets
<1> QED BY <1>1, DoneAlways, PTL

\* An operation that is not one of the piecewise ones has, when its run ends, done all
\* it asks for or changed nothing: whichever request is refused or lost, whichever
\* transaction is rolled back and however often the event is repeated.
THEOREM WholeOrNothing == Spec => []AllOrNothing
<1>1. DoneInv => AllOrNothing
  BY DEF DoneInv, Does, Atomic, AllOrNothing, Meets
<1> QED BY <1>1, DoneAlways, PTL
-----------------------------------------------------------------------------
(***************************************************************************)
(* How a target takes a plan: the states it goes through, request by       *)
(* request, when no one else changes it.                                   *)
(***************************************************************************)
Sound == {s \in SUBSET Facts : Whole(s)}

Then(r, s)  == (s \ Takes(r)) \cup Puts(r)
Suits(r, s) == r.kind # "reject" /\ r.needs \subseteq s /\ r.absent \cap s = {}

\* c[i] is the state in which request i meets the target.
Course(p, c) ==
  /\ c \in Seq(Sound) /\ Len(c) = Len(p) + 1
  /\ \A i \in DOMAIN p : Suits(p[i], c[i]) /\ c[i + 1] = Then(p[i], c[i])

\* Nothing changes between a poll and the last request.
Level(p, c) == (\E i \in DOMAIN p : p[i].kind = "poll") => \A i, j \in DOMAIN p : c[i] = c[j]

\* p takes the target from s to n.
Leads(p, s, n) == \E c : Course(p, c) /\ c[1] = s /\ c[Len(p) + 1] = n

LEMMA LeadsNone ==
  ASSUME NEW s \in Sound PROVE Leads(<<>>, s, s)
<1>1. <<s>> \in Seq(Sound) /\ Len(<<s>>) = 1 /\ <<s>>[1] = s /\ DOMAIN <<>> = {}
  OBVIOUS
<1>2. Len(<<>>) + 1 = 1
  OBVIOUS
<1>3. Course(<<>>, <<s>>)
  BY <1>1, <1>2 DEF Course
<1> QED BY <1>1, <1>2, <1>3 DEF Leads

LEMMA LeadsOne ==
  ASSUME NEW r, NEW s \in Sound, Suits(r, s), Then(r, s) \in Sound
  PROVE  Leads(<<r>>, s, Then(r, s))
<1> DEFINE n == Then(r, s)
<1> HIDE DEF n
<1>1. n \in Sound
  BY DEF n
<1>2. <<s, n>> \in Seq(Sound) /\ Len(<<s, n>>) = 2 /\ <<s, n>>[1] = s /\ <<s, n>>[2] = n
  BY <1>1
<1>3. DOMAIN <<r>> = {1} /\ <<r>>[1] = r /\ Len(<<r>>) = 1 /\ 1 + 1 = 2
  OBVIOUS
<1>4. Course(<<r>>, <<s, n>>)
  BY <1>2, <1>3 DEF Course, n
<1>5. Leads(<<r>>, s, n)
  BY <1>2, <1>3, <1>4 DEF Leads
<1> QED BY <1>5 DEF n

LEMMA LeadsCat ==
  ASSUME NEW S, NEW a \in Seq(S), NEW b \in Seq(S), NEW s, NEW m, NEW n, Leads(a, s, m), Leads(b, m, n)
  PROVE  Leads(a \o b, s, n)
<1>1. PICK x : Course(a, x) /\ x[1] = s /\ x[Len(a) + 1] = m
  BY DEF Leads
<1>2. PICK y : Course(b, y) /\ y[1] = m /\ y[Len(b) + 1] = n
  BY DEF Leads
<1> DEFINE k == Len(a)
           p == a \o b
           c == [i \in 1 .. Len(p) + 1 |-> IF i <= k THEN x[i] ELSE y[i - k]]
<1>3. /\ k \in Nat /\ Len(b) \in Nat /\ Len(p) = k + Len(b) /\ DOMAIN a = 1 .. k /\ DOMAIN b = 1 .. Len(b)
      /\ DOMAIN p = 1 .. Len(p) /\ \A i \in DOMAIN p : p[i] = IF i <= k THEN a[i] ELSE b[i - k]
  OBVIOUS
<1>4. /\ \A i \in 1 .. k + 1 : x[i] \in Sound
      /\ \A i \in 1 .. Len(b) + 1 : y[i] \in Sound
      /\ \A i \in 1 .. k : Suits(a[i], x[i]) /\ x[i + 1] = Then(a[i], x[i])
      /\ \A i \in 1 .. Len(b) : Suits(b[i], y[i]) /\ y[i + 1] = Then(b[i], y[i])
  <2>1. x \in Seq(Sound) /\ Len(x) = k + 1 /\ y \in Seq(Sound) /\ Len(y) = Len(b) + 1
    BY <1>1, <1>2 DEF Course
  <2>2. \A i \in 1 .. k + 1 : x[i] \in Sound
    BY <2>1
  <2>3. \A i \in 1 .. Len(b) + 1 : y[i] \in Sound
    BY <2>1
  <2> QED BY <1>1, <1>2, <1>3, <2>2, <2>3 DEF Course
<1> HIDE DEF k, p
<1>5. \A i \in 1 .. Len(p) + 1 : c[i] \in Sound
  BY <1>3, <1>4
<1>6. c \in Seq(Sound) /\ Len(c) = Len(p) + 1
  BY <1>3, <1>5, IsASeq
<1>7. ASSUME NEW i \in DOMAIN p PROVE Suits(p[i], c[i]) /\ c[i + 1] = Then(p[i], c[i])
  <2>1. i \in 1 .. Len(p) + 1 /\ i + 1 \in 1 .. Len(p) + 1
    BY <1>3
  <2>2. CASE i < k
    BY <1>3, <1>4, <2>1, <2>2
  <2>3. CASE i = k
    <3>1. c[i] = x[i] /\ p[i] = a[i] /\ c[i + 1] = y[1] /\ x[i + 1] = m /\ i \in 1 .. k
      BY <1>1, <1>3, <2>1, <2>3 DEF k
    <3> QED BY <1>2, <1>4, <3>1
  <2>4. CASE i > k
    <3>1. i - k \in 1 .. Len(b) /\ i + 1 - k = (i - k) + 1
      BY <1>3, <2>4
    <3>2. c[i] = y[i - k] /\ p[i] = b[i - k] /\ c[i + 1] = y[(i - k) + 1]
      BY <1>3, <2>1, <2>4, <3>1
    <3> QED BY <1>4, <3>1, <3>2
  <2> QED BY <1>3, <2>2, <2>3, <2>4
<1>8. c[1] = s
  <2>1. CASE k = 0
    BY <1>1, <1>2, <1>3, <2>1 DEF k
  <2>2. CASE k # 0
    BY <1>1, <1>3, <2>2
  <2> QED BY <2>1, <2>2
<1>9. c[Len(p) + 1] = n
  BY <1>2, <1>3
<1> HIDE DEF c
<1>10. Course(p, c)
  BY <1>6, <1>7 DEF Course
<1> QED BY <1>8, <1>9, <1>10 DEF Leads, p

-----------------------------------------------------------------------------
\* The facts about a user that no membership rests on.
Flags(u) == {Active(u), Valid(u), Attrs(u), Password(u), Permit(u)}

LEMMA Distinct ==
  ASSUME NEW u \in Users, NEW g \in Refs, NEW v \in Users
  PROVE  /\ Right(u, g) \notin Flags(v) \cup {Account(v), Mapped(v)}
         /\ Right(u, g) \in UserFacts(v) => u = v
         /\ Group(g) \notin UserFacts(v)
         /\ {Account(u), Mapped(u)} \cap (Flags(v) \cup RightsOf(v)) = {}
         /\ u # v => {Account(u), Mapped(u)} \cap UserFacts(v) = {}
         /\ RightsOf(u) \subseteq UserFacts(u) /\ Flags(u) \subseteq UserFacts(u)
         /\ Right(u, g) \in RightsOf(u)
<1>1. Right(u, g) \notin Flags(v) \cup {Account(v), Mapped(v)}
  BY DEF Right, Flags, Account, Mapped, Active, Valid, Attrs, Password, Permit
<1>2. Right(u, g) \in RightsOf(v) => u = v
  BY DEF RightsOf, Right
<1>3. UserFacts(v) = Flags(v) \cup {Account(v), Mapped(v)} \cup RightsOf(v)
  BY DEF UserFacts, Flags
<1>4. Group(g) \notin Flags(v) \cup {Account(v), Mapped(v)} /\ Group(g) \notin RightsOf(v)
  BY DEF Group, Right, RightsOf, Flags, Account, Mapped, Active, Valid, Attrs, Password, Permit
<1>5. {Account(u), Mapped(u)} \cap (Flags(v) \cup RightsOf(v)) = {}
  BY DEF Right, RightsOf, Flags, Account, Mapped, Active, Valid, Attrs, Password, Permit
<1>6. u # v => {Account(u), Mapped(u)} \cap {Account(v), Mapped(v)} = {}
  BY DEF Account, Mapped
<1>7. UserFacts(u) = Flags(u) \cup {Account(u), Mapped(u)} \cup RightsOf(u) /\ Right(u, g) \in RightsOf(u)
  BY DEF UserFacts, Flags, RightsOf
<1> QED BY <1>1, <1>2, <1>3, <1>4, <1>5, <1>6, <1>7

\* A user gains memberships of groups there are, and flags come and go.
LEMMA SoundGrows ==
  ASSUME NEW s \in Sound, NEW u \in Users, NEW add, add \subseteq UserFacts(u),
         NEW del, del \subseteq Flags(u) \cup RightsOf(u),
         \A g \in Refs : Right(u, g) \in add =>
           Group(g) \in s /\ {Account(u), Mapped(u)} \cap (s \cup add) # {}
  PROVE  (s \ del) \cup add \in Sound
<1> DEFINE n == (s \ del) \cup add
<1>1. n \subseteq Facts /\ Whole(s)
  BY FactSets DEF Sound
<1>2. ASSUME NEW v \in Users, NEW g \in Refs, Right(v, g) \in n
      PROVE  Group(g) \in n /\ {Account(v), Mapped(v)} \cap n # {}
  <2>1. Group(g) \notin del /\ {Account(v), Mapped(v)} \cap del = {}
    BY Distinct
  <2>2. CASE Right(v, g) \in add
    <3>1. v = u
      BY <2>2, Distinct
    <3>2. Group(g) \in s /\ {Account(v), Mapped(v)} \cap (s \cup add) # {}
      BY <2>2, <3>1
    <3> QED BY <2>1, <3>2
  <2>3. CASE Right(v, g) \in s
    <3>1. Group(g) \in s /\ {Account(v), Mapped(v)} \cap s # {}
      BY <1>1, <2>3 DEF Whole
    <3> QED BY <2>1, <3>1
  <2> QED BY <1>2, <2>2, <2>3
<1> HIDE DEF n
<1>3. Whole(n)
  BY <1>2 DEF Whole
<1>4. n \in Sound
  BY <1>1, <1>3 DEF Sound
<1> QED BY <1>4 DEF n

\* A user who is in no group any more loses the account.
LEMMA SoundDrops ==
  ASSUME NEW s \in Sound, NEW u \in Users, NEW del, del \subseteq UserFacts(u),
         \A g \in Refs : Right(u, g) \in s => Right(u, g) \in del
  PROVE  s \ del \in Sound
<1> DEFINE n == s \ del
<1>1. n \subseteq Facts /\ Whole(s)
  BY DEF Sound
<1>2. ASSUME NEW v \in Users, NEW g \in Refs, Right(v, g) \in n
      PROVE  Group(g) \in n /\ {Account(v), Mapped(v)} \cap n # {}
  <2>1. Group(g) \in s /\ {Account(v), Mapped(v)} \cap s # {}
    BY <1>1, <1>2 DEF Whole
  <2>2. v # u
    BY <1>2
  <2>3. Group(g) \notin del /\ {Account(v), Mapped(v)} \cap del = {}
    BY <2>2, Distinct
  <2> QED BY <2>1, <2>3
<1> HIDE DEF n
<1>3. Whole(n)
  BY <1>2 DEF Whole
<1>4. n \in Sound
  BY <1>1, <1>3 DEF Sound
<1> QED BY <1>4 DEF n

-----------------------------------------------------------------------------
LEMMA LeadsWrite ==
  ASSUME NEW s \in Sound, NEW needs, needs \subseteq s, NEW absent, absent \cap s = {}, NEW of,
         NEW add, NEW del, (s \ del) \cup add \in Sound
  PROVE  /\ Leads(<<Write(needs, absent, add, del)>>, s, (s \ del) \cup add)
         /\ Leads(<<Put(needs, of, add, del)>>, s, (s \ del) \cup add)
<1> DEFINE r == Write(needs, absent, add, del)
           q == Put(needs, of, add, del)
<1>1. /\ r.kind = "write" /\ r.needs = needs /\ r.absent = absent
      /\ q.kind = "write" /\ q.needs = needs /\ q.absent = {}
  BY DEF Write, Put
<1>2. Puts(r) = add /\ Takes(r) = del \ add /\ Puts(q) = add /\ Takes(q) = del \ add
  BY Effects
<1> HIDE DEF r, q
<1>3. Suits(r, s) /\ Suits(q, s)
  BY <1>1 DEF Suits
<1>4. Then(r, s) = (s \ del) \cup add /\ Then(q, s) = (s \ del) \cup add
  BY <1>2 DEF Then
<1>5. Leads(<<r>>, s, (s \ del) \cup add)
  BY <1>3, <1>4, LeadsOne
<1>6. Leads(<<q>>, s, (s \ del) \cup add)
  BY <1>3, <1>4, LeadsOne
<1> QED BY <1>5, <1>6 DEF r, q

LEMMA LeadsStill ==
  ASSUME NEW s \in Sound, NEW r, r.kind \in {"read", "begin", "commit", "poll", "follow"},
         r.needs \subseteq s, r.absent = {}
  PROVE  Leads(<<r>>, s, s)
<1>1. Puts(r) = {} /\ Takes(r) = {} /\ Suits(r, s)
  BY DEF Puts, Takes, Suits
<1>2. Then(r, s) = s
  BY <1>1 DEF Then
<1> QED BY <1>1, <1>2, LeadsOne

LEMMA LeadsMarks ==
  ASSUME NEW s \in Sound
  PROVE  /\ \A needs, of : needs \subseteq s => Leads(<<Read(needs, of)>>, s, s)
         /\ Leads(<<Begin>>, s, s) /\ Leads(<<Commit>>, s, s)
<1>1. ASSUME NEW needs, NEW of, needs \subseteq s PROVE Leads(<<Read(needs, of)>>, s, s)
  <2> DEFINE r == Read(needs, of)
  <2>1. r.kind = "read" /\ r.needs = needs /\ r.absent = {}
    BY DEF Read, Bare
  <2> HIDE DEF r
  <2>2. Leads(<<r>>, s, s)
    BY <1>1, <2>1, LeadsStill
  <2> QED BY <2>2 DEF r
<1>2. /\ Begin.kind = "begin" /\ Begin.needs = {} /\ Begin.absent = {}
      /\ Commit.kind = "commit" /\ Commit.needs = {} /\ Commit.absent = {}
  BY DEF Begin, Commit, Bare
<1>3. Leads(<<Begin>>, s, s)
  BY <1>2, LeadsStill
<1>4. Leads(<<Commit>>, s, s)
  BY <1>2, LeadsStill
<1> QED BY <1>1, <1>3, <1>4

LEMMA LeadsTwo ==
  ASSUME NEW a, NEW b, NEW s, NEW m, NEW n, Leads(<<a>>, s, m), Leads(<<b>>, m, n)
  PROVE  Leads(<<a, b>>, s, n)
<1>1. a \in {a, b} /\ b \in {a, b}
  OBVIOUS
<1>2. <<a>> \in Seq({a, b}) /\ <<b>> \in Seq({a, b})
  BY <1>1, Short
<1>3. <<a>> \o <<b>> = <<a, b>>
  BY <1>1, Joining
<1>4. Leads(<<a>> \o <<b>>, s, n)
  BY <1>2, LeadsCat
<1> QED BY <1>3, <1>4

\* A change of one user's facts.
LEMMA LeadsGrows ==
  ASSUME NEW s \in Sound, NEW u \in Users, NEW needs, needs \subseteq s, NEW absent, absent \cap s = {},
         NEW of, NEW add, add \subseteq UserFacts(u), NEW del, del \subseteq Flags(u) \cup RightsOf(u),
         \A g \in Refs : Right(u, g) \in add =>
           Group(g) \in s /\ {Account(u), Mapped(u)} \cap (s \cup add) # {}
  PROVE  /\ (s \ del) \cup add \in Sound
         /\ Leads(<<Write(needs, absent, add, del)>>, s, (s \ del) \cup add)
         /\ Leads(<<Put(needs, of, add, del)>>, s, (s \ del) \cup add)
<1>1. (s \ del) \cup add \in Sound
  BY SoundGrows
<1> QED BY <1>1, LeadsWrite

LEMMA LeadsFlags ==
  ASSUME NEW s \in Sound, NEW u \in Users, NEW needs, needs \subseteq s, NEW of,
         NEW add, add \subseteq Flags(u), NEW del, del \subseteq Flags(u) \cup RightsOf(u)
  PROVE  /\ (s \ del) \cup add \in Sound
         /\ Leads(<<Write(needs, {}, add, del)>>, s, (s \ del) \cup add)
         /\ Leads(<<Put(needs, of, add, del)>>, s, (s \ del) \cup add)
<1>1. add \subseteq UserFacts(u) /\ {} \cap s = {} /\ \A g \in Refs : Right(u, g) \notin add
  BY Distinct DEF UserFacts, Flags
<1> QED BY <1>1, LeadsGrows

LEMMA LeadsDrops ==
  ASSUME NEW s \in Sound, NEW u \in Users, NEW needs, needs \subseteq s, NEW absent, absent \cap s = {},
         NEW del, del \subseteq UserFacts(u), \A g \in Refs : Right(u, g) \in s => Right(u, g) \in del
  PROVE  s \ del \in Sound /\ Leads(<<Write(needs, absent, {}, del)>>, s, s \ del)
<1>1. s \ del \in Sound
  BY SoundDrops
<1>2. (s \ del) \cup {} = s \ del
  OBVIOUS
<1>3. Leads(<<Write(needs, absent, {}, del)>>, s, (s \ del) \cup {})
  BY <1>1, <1>2, LeadsWrite
<1> QED BY <1>1, <1>2, <1>3

LEMMA LeadsJoins ==
  ASSUME NEW u \in Users, NEW refs \in Seq(Refs), NEW q \in Seq(Writing), Len(q) = Len(refs),
         NEW s \in Sound, Required(refs) \subseteq s, {Account(u), Mapped(u)} \cap s # {},
         \A i \in 1 .. Len(refs) : /\ q[i].needs \subseteq s /\ q[i].absent = {}
                                   /\ q[i].add = {Right(u, refs[i])} /\ q[i].del = {}
  PROVE  s \cup Joined(u, refs) \in Sound /\ Leads(q, s, s \cup Joined(u, refs))
<1> DEFINE some(i) == {Right(u, refs[j]) : j \in 1 .. i - 1}
           c == [i \in 1 .. Len(q) + 1 |-> s \cup some(i)]
<1>1. Len(q) \in Nat /\ DOMAIN q = 1 .. Len(q) /\ DOMAIN refs = 1 .. Len(q)
  OBVIOUS
<1>2. ASSUME NEW i \in 1 .. Len(q) + 1 PROVE s \cup some(i) \in Sound
  <2>1. some(i) \subseteq RightsOf(u)
    BY <1>1 DEF RightsOf
  <2>2. some(i) \subseteq UserFacts(u)
    BY <2>1 DEF UserFacts
  <2>3. ASSUME NEW g \in Refs, Right(u, g) \in some(i) PROVE Group(g) \in s
    <3>1. PICK j \in 1 .. i - 1 : Right(u, g) = Right(u, refs[j])
      BY <2>3
    <3>2. g = refs[j] /\ j \in DOMAIN refs
      BY <1>1, <3>1 DEF Right
    <3> QED BY <3>2 DEF Required, Named
  <2> HIDE DEF some
  <2>4. (s \ {}) \cup some(i) \in Sound
    BY <2>2, <2>3, SoundGrows
  <2> QED BY <2>4
<1>3. some(1) = {} /\ some(Len(q) + 1) = Joined(u, refs)
  <2>1. 1 .. 1 - 1 = {} /\ 1 .. (Len(q) + 1) - 1 = DOMAIN refs
    BY <1>1
  <2>2. some(Len(q) + 1) = {Right(u, refs[j]) : j \in DOMAIN refs}
    BY <2>1
  <2>3. Joined(u, refs) = {Right(u, refs[j]) : j \in DOMAIN refs}
    BY DEF Joined, Named
  <2> QED BY <2>1, <2>2, <2>3
<1>4. ASSUME NEW i \in 1 .. Len(q) PROVE some(i + 1) = some(i) \cup {Right(u, refs[i])}
  <2>1. 1 .. (i + 1) - 1 = (1 .. i - 1) \cup {i}
    OBVIOUS
  <2> QED BY <2>1
<1>5. \A i \in 1 .. Len(q) + 1 : c[i] = s \cup some(i)
  OBVIOUS
<1> HIDE DEF some
<1>6. c \in Seq(Sound) /\ Len(c) = Len(q) + 1
  BY <1>1, <1>2, IsASeq
<1> HIDE DEF c
<1>7. ASSUME NEW i \in DOMAIN q PROVE Suits(q[i], c[i]) /\ c[i + 1] = Then(q[i], c[i])
  <2>1. q[i].kind = "write" /\ i \in 1 .. Len(refs) /\ i + 1 \in 1 .. Len(q) + 1 /\ i \in 1 .. Len(q) + 1
        /\ i \in 1 .. Len(q)
    BY <1>1 DEF Writing
  <2>2. Puts(q[i]) = {Right(u, refs[i])} /\ Takes(q[i]) = {}
    BY <2>1 DEF Puts, Takes
  <2>3. c[i] = s \cup some(i) /\ c[i + 1] = c[i] \cup {Right(u, refs[i])}
    BY <1>4, <1>5, <2>1
  <2>4. Suits(q[i], c[i])
    BY <2>1, <2>3 DEF Suits
  <2> QED BY <2>2, <2>3, <2>4 DEF Then
<1>8. c[1] = s /\ c[Len(q) + 1] = s \cup Joined(u, refs)
  <2>1. 1 \in 1 .. Len(q) + 1 /\ Len(q) + 1 \in 1 .. Len(q) + 1
    BY <1>1
  <2>2. c[1] = s \cup some(1)
    BY <1>5, <2>1
  <2>3. c[Len(q) + 1] = s \cup some(Len(q) + 1)
    BY <1>5, <2>1
  <2> QED BY <1>3, <2>2, <2>3
<1>9. s \cup Joined(u, refs) \in Sound
  BY <1>1, <1>2, <1>3
<1>10. Course(q, c)
  BY <1>6, <1>7 DEF Course
<1> QED BY <1>8, <1>9, <1>10 DEF Leads

-----------------------------------------------------------------------------
\* What a fitting event finds in its target.
LEMMA FitsGives ==
  ASSUME NEW t \in Targets, NEW e \in Events, NEW s, Fits(t, e, s)
  PROVE  /\ e.op \in Served(t) /\ e.permission # "outside"
         /\ e.given = IF t.kind = "consultant" THEN "no password" ELSE "all"
         /\ t.kind = "consultant" => t.session /\ e.user # Operator
         /\ e.op = "create" => /\ Account(e.user) \notin s
                               /\ Required(Refers(t, e)) \subseteq s /\ Malformed \notin Named(Refers(t, e))
                               /\ Required(t.defaults) \subseteq s /\ Malformed \notin Named(t.defaults)
         /\ e.op # "create" => Account(e.user) \in s
         /\ e.op = "delete" => Permit(e.user) \notin s
         /\ e.op = "enable" /\ t.kind = "ssh" => Password(e.user) \in s
         /\ t.kind = "postgres" => e.permission # "deny"
         /\ e.op \in {"addMember", "removeMember"} => /\ Group(e.group) \in s /\ e.group # Malformed
                                                      /\ t.kind = "mssql" => Mapped(e.user) \in s
         /\ e.op = "update" => /\ Required(Refers(t, e)) \subseteq s /\ Malformed \notin Named(Refers(t, e))
                               /\ t.kind = "ssh" => Required(t.defaults) \subseteq s
                                                      /\ Malformed \notin Named(t.defaults)
                               /\ t.kind = "mssql" => Mapped(e.user) \in s
<1> DEFINE known == s \ {Group(Malformed)}
           asked == Required(Refers(t, e))
           groups == asked \cup IF e.op = "create" \/ t.kind = "ssh" THEN Required(t.defaults) ELSE {}
           hash == IF t.kind = "ssh" THEN {Password(e.user)} ELSE {}
           there == IF t.kind = "mssql" THEN {Account(e.user), Mapped(e.user)} ELSE {Account(e.user)}
<1>1. /\ e.op \in Served(t) /\ e.permission # "outside"
      /\ e.given = IF t.kind = "consultant" THEN "no password" ELSE "all"
      /\ t.kind = "consultant" => t.session /\ e.user # Operator
      /\ e.op = "create" => Account(e.user) \notin s /\ groups \subseteq known
      /\ e.op = "delete" => Account(e.user) \in s /\ Permit(e.user) \notin s
      /\ e.op = "enable" => {Account(e.user)} \cup hash \subseteq s
      /\ t.kind = "postgres" => e.permission # "deny"
      /\ e.op \in {"addMember", "removeMember"} => there \cup {Group(e.group)} \subseteq known
      /\ e.op \notin {"create", "delete", "enable", "addMember", "removeMember"} =>
           there \cup groups \subseteq known
  BY DEF Fits
<1>2. ASSUME NEW refs, Required(refs) \subseteq known
      PROVE  Required(refs) \subseteq s /\ Malformed \notin Named(refs)
  BY <1>2 DEF Required
<1>3. Group(e.group) \in known => e.group # Malformed
  OBVIOUS
<1>4. Account(e.user) \in there /\ (t.kind = "mssql" => Mapped(e.user) \in there)
  OBVIOUS
<1>5. asked \subseteq groups /\ (e.op = "create" \/ t.kind = "ssh" => Required(t.defaults) \subseteq groups)
      /\ known \subseteq s
  OBVIOUS
<1> HIDE DEF known, asked, groups, there
<1>6. e.op = "create" => asked \subseteq known /\ Required(t.defaults) \subseteq known
  BY <1>1, <1>5
<1>7. e.op = "update" => asked \subseteq known /\ (t.kind = "ssh" => Required(t.defaults) \subseteq known)
  BY <1>1, <1>5
<1>8. /\ e.op = "create" => /\ Required(Refers(t, e)) \subseteq s /\ Malformed \notin Named(Refers(t, e))
                            /\ Required(t.defaults) \subseteq s /\ Malformed \notin Named(t.defaults)
      /\ e.op = "update" => /\ Required(Refers(t, e)) \subseteq s /\ Malformed \notin Named(Refers(t, e))
                            /\ t.kind = "ssh" => Required(t.defaults) \subseteq s
                                                   /\ Malformed \notin Named(t.defaults)
  BY <1>2, <1>6, <1>7 DEF asked
<1>9. e.op # "create" => Account(e.user) \in s
  <2>1. e.op \notin {"create", "delete", "enable"} => there \subseteq known
    BY <1>1
  <2> QED BY <1>1, <1>4, <1>5, <2>1
<1>10. e.op \in {"addMember", "removeMember"} => /\ Group(e.group) \in s /\ e.group # Malformed
                                                 /\ t.kind = "mssql" => Mapped(e.user) \in s
  BY <1>1, <1>3, <1>4, <1>5
<1>11. e.op = "update" => (t.kind = "mssql" => Mapped(e.user) \in s)
  BY <1>1, <1>4, <1>5
<1> QED BY <1>1, <1>8, <1>9, <1>10, <1>11

LEMMA NamedCat ==
  ASSUME NEW a \in Seq(Refs), NEW b \in Seq(Refs)
  PROVE  /\ Named(a \o b) = Named(a) \cup Named(b)
         /\ Required(a \o b) = Required(a) \cup Required(b)
         /\ Named(<<>>) = {} /\ Required(<<>>) = {}
<1>a. All(a \o b) = All(a) \cup All(b)
  BY AllOf
<1>1. Named(a \o b) = Named(a) \cup Named(b)
  BY <1>a DEF All, Named
<1>2. Named(<<>>) = {}
  BY DEF Named
<1>3. Required(a \o b) = Required(a) \cup Required(b) /\ Required(<<>>) = {}
  BY <1>1, <1>2 DEF Required
<1> QED BY <1>1, <1>2, <1>3

\* The target can take all of p.
Taken(p, s) == \E n : Leads(p, s, n)

LEMMA WritingSeq ==
  /\ \A q \in Seq(Writing) : q \in Seq(RequestsOn(Facts))
  /\ \A q \in Seq(Simple) : q \in Seq(RequestsOn(Facts))
  /\ \A r \in RequestsOn(Facts) : <<r>> \in Seq(RequestsOn(Facts))
  /\ <<>> \in Seq(RequestsOn(Facts))
<1>1. Writing \subseteq RequestsOn(Facts) /\ Simple \subseteq RequestsOn(Facts)
  BY DEF Writing, Simple
<1>2. ASSUME NEW S, S \subseteq RequestsOn(Facts), NEW q \in Seq(S) PROVE q \in Seq(RequestsOn(Facts))
  BY <1>2
<1> QED BY <1>1, <1>2, Short

LEMMA PgMoves ==
  ASSUME NEW u \in Users, NEW s \in Sound, Account(u) \in s
  PROVE  /\ \A refs \in Seq(Refs) : Required(refs) \subseteq s =>
              s \cup Joined(u, refs) \in Sound /\ Leads(PgGrants(u, refs), s, s \cup Joined(u, refs))
         /\ \A c \in {"none", "grant", "revoke"} : Taken(PgPermission(u, c), s)
         /\ \A on \in BOOLEAN :
              \E n \in Sound : s \ {Active(u)} \subseteq n /\ Leads(<<PgLogin(u, on)>>, s, n)
<1>1. ASSUME NEW refs \in Seq(Refs), Required(refs) \subseteq s
      PROVE  s \cup Joined(u, refs) \in Sound /\ Leads(PgGrants(u, refs), s, s \cup Joined(u, refs))
  <2> DEFINE q == PgGrants(u, refs)
  <2>1. q \in Seq(Writing)
    BY PgParts
  <2>2. Len(q) = Len(refs)
    BY DEF PgGrants
  <2>3. ASSUME NEW i \in 1 .. Len(refs)
        PROVE  /\ q[i].needs \subseteq s /\ q[i].absent = {}
               /\ q[i].add = {Right(u, refs[i])} /\ q[i].del = {}
    <3>1. q[i] = PgGrant(u, refs[i]) /\ i \in DOMAIN refs
      BY DEF PgGrants
    <3>2. q[i].needs = {Account(u), Group(refs[i])} /\ q[i].absent = {}
          /\ q[i].add = {Right(u, refs[i])} /\ q[i].del = {}
      BY <3>1 DEF PgGrant, Write
    <3>3. Group(refs[i]) \in s
      BY <1>1, <3>1 DEF Required, Named
    <3> QED BY <3>2, <3>3
  <2> HIDE DEF q
  <2>4. s \cup Joined(u, refs) \in Sound /\ Leads(q, s, s \cup Joined(u, refs))
    BY <1>1, <2>1, <2>2, <2>3, LeadsJoins
  <2> QED BY <2>4 DEF q
<1>2. {Permit(u)} \subseteq Flags(u) /\ {Active(u)} \subseteq Flags(u) /\ {Account(u)} \subseteq s
      /\ {} \subseteq Flags(u) /\ {} \subseteq Flags(u) \cup RightsOf(u)
      /\ {Permit(u)} \subseteq Flags(u) \cup RightsOf(u) /\ {Active(u)} \subseteq Flags(u) \cup RightsOf(u)
  BY DEF Flags
<1>3. Leads(<<Write({Account(u)}, {}, {Permit(u)}, {})>>, s, (s \ {}) \cup {Permit(u)})
  BY <1>2, LeadsFlags
<1>4. Leads(<<Write({Account(u)}, {}, {}, {Permit(u)})>>, s, (s \ {Permit(u)}) \cup {})
  BY <1>2, LeadsFlags
<1>5. Leads(<<>>, s, s)
  BY LeadsNone
<1>6. ASSUME NEW c \in {"none", "grant", "revoke"} PROVE Taken(PgPermission(u, c), s)
  <2>1. CASE c = "none"
    BY <1>5, <2>1 DEF PgPermission, Taken
  <2>2. CASE c = "grant"
    BY <1>3, <2>2 DEF PgPermission, Taken
  <2>3. CASE c = "revoke"
    BY <1>4, <2>3 DEF PgPermission, Taken
  <2> QED BY <2>1, <2>2, <2>3
<1>7. ASSUME NEW on \in BOOLEAN
      PROVE  \E n \in Sound : s \ {Active(u)} \subseteq n /\ Leads(<<PgLogin(u, on)>>, s, n)
  <2> DEFINE add == IF on THEN {Active(u)} ELSE {}
             del == IF on THEN {} ELSE {Active(u)}
             n == (s \ del) \cup add
  <2>1. add \subseteq Flags(u) /\ del \subseteq Flags(u) \cup RightsOf(u) /\ s \ {Active(u)} \subseteq n
    BY <1>2
  <2> HIDE DEF add, del
  <2>2. n \in Sound /\ Leads(<<Write({Account(u)}, {}, add, del)>>, s, n)
    BY <1>2, <2>1, LeadsFlags
  <2>3. PgLogin(u, on) = Write({Account(u)}, {}, add, del)
    BY DEF PgLogin, add, del
  <2> QED BY <2>1, <2>2, <2>3
<1> QED BY <1>1, <1>6, <1>7

\* The end of a transaction: the groups, the permission and the commit.
LEMMA PgTail ==
  ASSUME NEW u \in Users, NEW refs \in Seq(Refs), NEW d \in {"none", "grant", "revoke"},
         NEW x \in Seq(RequestsOn(Facts)), NEW s, NEW m \in Sound, Leads(x, s, m),
         Account(u) \in m, Required(refs) \subseteq m
  PROVE  Taken(x \o PgGrants(u, refs) \o PgPermission(u, d) \o <<Commit>>, s)
<1> DEFINE S == RequestsOn(Facts)
           g == PgGrants(u, refs)
           c == PgPermission(u, d)
           z == <<Commit>>
           k == m \cup Joined(u, refs)
<1>1. g \in Seq(S) /\ c \in Seq(S) /\ z \in Seq(S)
  BY PgParts, WritingSeq, MarksDo
<1>2. k \in Sound /\ Leads(g, m, k) /\ Account(u) \in k
  BY PgMoves
<1> HIDE DEF k, g
<1>3. PICK n : Leads(c, k, n)
  BY <1>2, PgMoves DEF Taken
<1> HIDE DEF c
<1>4. n \in Sound
  BY <1>1, <1>3 DEF Leads, Course
<1>5. Leads(z, n, n)
  BY <1>4, LeadsMarks
<1> HIDE DEF z
<1>6. x \o g \in Seq(S) /\ Leads(x \o g, s, k)
  BY <1>1, <1>2, LeadsCat, Cat
<1>7. x \o g \o c \in Seq(S) /\ Leads(x \o g \o c, s, n)
  BY <1>1, <1>3, <1>6, LeadsCat, Cat
<1>8. Leads(x \o g \o c \o z, s, n)
  BY <1>1, <1>5, <1>7, LeadsCat
<1> QED BY <1>8 DEF Taken, g, c, z

LEMMA PgCreateTaken ==
  ASSUME NEW t \in Targets, NEW e \in Events, NEW s \in Sound, t.kind = "postgres", Fits(t, e, s),
         e.op = "create"
  PROVE  Taken(PgCreate(t, e), s)
<1> DEFINE u == e.user
           S == RequestsOn(Facts)
           refs == t.defaults \o Asked(t, e)
           role == PgCreateRole(t, u)
           add == {Account(u), Password(u)} \cup IF t.loginByDefault THEN {Active(u)} ELSE {}
           m == (s \ {}) \cup add
<1>1. /\ u \in Users /\ Asked(t, e) \in Seq(Refs) /\ t.defaults \in Seq(Refs) /\ refs \in Seq(Refs)
      /\ e.permission \in {"none", "grant", "revoke", "deny", "outside"}
  BY Event
<1>2. Refers(t, e) = Asked(t, e)
  BY DEF Refers, Sql
<1>3. /\ e.given = "all" /\ e.permission \notin {"deny", "outside"} /\ Account(u) \notin s
      /\ Required(Asked(t, e)) \subseteq s /\ Malformed \notin Named(Asked(t, e))
      /\ Required(t.defaults) \subseteq s /\ Malformed \notin Named(t.defaults)
  BY <1>2, FitsGives
<1>4. Required(refs) \subseteq s /\ Malformed \notin Named(refs)
  BY <1>1, <1>3, NamedCat
<1>5. PgCreate(t, e) = <<Begin, role>> \o PgGrants(u, refs) \o PgPermission(u, e.permission) \o <<Commit>>
  BY <1>3, <1>4 DEF PgCreate, PgInvalid
<1> HIDE DEF refs
<1>6. add \subseteq UserFacts(u) /\ \A h \in Refs : Right(u, h) \notin add
  BY <1>1, Distinct DEF UserFacts, Flags
<1>7. Account(u) \in m /\ s \subseteq m
  OBVIOUS
<1> HIDE DEF add
<1>8. m \in Sound /\ Leads(<<Write({}, {Account(u)}, add, {})>>, s, m)
  <2> DEFINE absent == {Account(u)}
  <2>1. {} \subseteq s /\ absent \cap s = {} /\ {} \subseteq Flags(u) \cup RightsOf(u)
        /\ \A h \in Refs : Right(u, h) \in add =>
             Group(h) \in s /\ {Account(u), Mapped(u)} \cap (s \cup add) # {}
    BY <1>3, <1>6
  <2> HIDE DEF absent
  <2>2. m \in Sound
    BY <1>1, <1>6, <2>1, SoundGrows
  <2>3. Leads(<<Write({}, absent, add, {})>>, s, m)
    BY <2>1, <2>2, LeadsWrite
  <2> QED BY <2>2, <2>3 DEF absent
<1> HIDE DEF m
<1>9. role = Write({}, {Account(u)}, add, {})
  BY DEF PgCreateRole, add
<1>10. role \in S
  <2>1. add \subseteq Facts /\ {Account(u)} \subseteq Facts
    BY <1>1, <1>6, FactSets
  <2> QED BY <1>9, <2>1, WriteIs DEF Writing
<1> HIDE DEF role
<1>12. <<Begin, role>> \in Seq(S)
  BY <1>10, MarksDo, Pair
<1>13. Leads(<<Begin, role>>, s, m)
  <2>1. Leads(<<Begin>>, s, s)
    BY LeadsMarks
  <2> QED BY <1>8, <1>9, <2>1, LeadsTwo
<1>14. Required(refs) \subseteq m /\ e.permission \in {"none", "grant", "revoke"}
  BY <1>1, <1>3, <1>4, <1>7
<1> DEFINE x == <<Begin, role>>
<1>15. x \in Seq(S) /\ Leads(x, s, m)
  BY <1>12, <1>13
<1> HIDE DEF x
<1>16. Taken(x \o PgGrants(u, refs) \o PgPermission(u, e.permission) \o <<Commit>>, s)
  BY <1>1, <1>7, <1>8, <1>14, <1>15, PgTail
<1> QED BY <1>5, <1>16 DEF x

LEMMA PgUpdateTaken ==
  ASSUME NEW t \in Targets, NEW e \in Events, NEW s \in Sound, t.kind = "postgres", Fits(t, e, s),
         e.op = "update"
  PROVE  Taken(PgUpdate(t, e), s)
<1> DEFINE u == e.user
           S == RequestsOn(Facts)
           refs == Asked(t, e)
           login == IF e.enabled = "unset" THEN <<>> ELSE <<PgLogin(u, e.enabled = "on")>>
<1>1. /\ u \in Users /\ refs \in Seq(Refs) /\ e.permission \in {"none", "grant", "revoke", "deny", "outside"}
  BY Event
<1>2. Refers(t, e) = refs
  BY DEF Refers, Sql
<1>3. /\ e.given = "all" /\ e.permission \notin {"deny", "outside"} /\ Account(u) \in s
      /\ Required(refs) \subseteq s /\ Malformed \notin Named(refs)
  BY <1>2, FitsGives
<1>4. PgUpdate(t, e) = <<Begin>> \o login \o PgGrants(u, refs) \o PgPermission(u, e.permission) \o <<Commit>>
  BY <1>3 DEF PgUpdate, PgInvalid
<1>5. \E n \in Sound : s \ {Active(u)} \subseteq n /\ Leads(login, s, n)
  <2>1. CASE e.enabled = "unset"
    <3>1. Leads(<<>>, s, s)
      BY LeadsNone
    <3> QED BY <2>1, <3>1
  <2>2. CASE e.enabled # "unset"
    <3>1. (e.enabled = "on") \in BOOLEAN
      OBVIOUS
    <3>2. \E n \in Sound : s \ {Active(u)} \subseteq n /\ Leads(<<PgLogin(u, e.enabled = "on")>>, s, n)
      BY <1>1, <1>3, <3>1, PgMoves
    <3> QED BY <2>2, <3>2
  <2> QED BY <2>1, <2>2
<1>6. login \in Seq(S)
  <2>1. PgLogin(u, e.enabled = "on") \in S
    BY <1>1, PgParts DEF Writing
  <2> QED BY <2>1, WritingSeq
<1> HIDE DEF login
<1>7. PICK m \in Sound : s \ {Active(u)} \subseteq m /\ Leads(login, s, m)
  BY <1>5
<1>8. Account(u) \in m /\ Required(refs) \subseteq m
  <2>1. Active(u) # Account(u) /\ Active(u) \notin Required(refs)
    BY DEF Active, Account, Required, Group
  <2> QED BY <1>3, <1>7, <2>1
<1> DEFINE b == <<Begin>>
           x == b \o login
<1>9. b \in Seq(S) /\ Leads(b, s, s)
  BY MarksDo, WritingSeq, LeadsMarks
<1> HIDE DEF b
<1>10. x \in Seq(S) /\ Leads(x, s, m)
  BY <1>6, <1>7, <1>9, LeadsCat, Cat
<1> HIDE DEF x, refs
<1>11. Taken(x \o PgGrants(u, refs) \o PgPermission(u, e.permission) \o <<Commit>>, s)
  BY <1>1, <1>3, <1>8, <1>10, PgTail
<1> QED BY <1>4, <1>11 DEF x, b

LEMMA PgTaken ==
  ASSUME NEW t \in Targets, NEW e \in Events, NEW s \in Sound, t.kind = "postgres", Fits(t, e, s)
  PROVE  Taken(PostgresRolePlan(t, e), s)
<1> DEFINE u == e.user
           g == e.group
<1>1. /\ u \in Users /\ g \in Refs /\ e.given = "all"
      /\ e.op \in {"create", "update", "delete", "disable", "enable", "changePassword", "addMember",
                   "removeMember"}
      /\ e.op # "create" => Account(u) \in s
      /\ e.op = "delete" => Permit(u) \notin s
      /\ e.op \in {"addMember", "removeMember"} => Group(g) \in s /\ g # Malformed
  BY Event, FitsGives DEF Served
<1>2. CASE e.op = "create"
  BY <1>2, PgCreateTaken DEF PostgresRolePlan
<1>3. CASE e.op = "update"
  BY <1>3, PgUpdateTaken DEF PostgresRolePlan
<1>4. ASSUME NEW on \in BOOLEAN, Account(u) \in s PROVE Taken(<<PgLogin(u, on)>>, s)
  BY <1>1, <1>4, PgMoves DEF Taken
<1>5. CASE e.op = "delete"
  <2>1. CASE t.physical
    <3> DEFINE needs == {Account(u)}
               absent == {Permit(u)}
               del == UserFacts(u)
    <3>1. needs \subseteq s /\ absent \cap s = {} /\ \A h \in Refs : Right(u, h) \in del
      BY <1>1, <1>5, Distinct
    <3> HIDE DEF needs, absent
    <3>2. Leads(<<Write(needs, absent, {}, del)>>, s, s \ del)
      BY <1>1, <3>1, LeadsDrops
    <3> QED BY <1>1, <1>5, <2>1, <3>2 DEF PostgresRolePlan, PgDelete, Taken, needs, absent
  <2>2. CASE ~t.physical
    BY <1>1, <1>4, <1>5, <2>2 DEF PostgresRolePlan, PgDelete
  <2> QED BY <2>1, <2>2
<1>6. CASE e.op \in {"enable", "disable"}
  <2>1. (e.op = "enable") \in BOOLEAN
    OBVIOUS
  <2> QED BY <1>1, <1>4, <1>6, <2>1 DEF PostgresRolePlan
<1>7. CASE e.op = "changePassword"
  <2> DEFINE needs == {Account(u)}
             add == {Password(u)}
  <2>1. needs \subseteq s /\ add \subseteq Flags(u) /\ {} \subseteq Flags(u) \cup RightsOf(u)
    BY <1>1, <1>7 DEF Flags
  <2> HIDE DEF needs, add
  <2>2. Leads(<<Write(needs, {}, add, {})>>, s, (s \ {}) \cup add)
    BY <1>1, <2>1, LeadsFlags
  <2> QED BY <1>1, <1>7, <2>2 DEF PostgresRolePlan, PgPassword, Taken, needs, add
<1>8. CASE e.op = "addMember"
  <2> DEFINE needs == {Account(u), Group(g)}
             add == {Right(u, g)}
  <2>1. /\ needs \subseteq s /\ {} \cap s = {} /\ add \subseteq UserFacts(u)
        /\ {} \subseteq Flags(u) \cup RightsOf(u) /\ Account(u) \in s
    BY <1>1, <1>8, Distinct
  <2>2. \A h \in Refs : Right(u, h) \in add => Group(h) \in s
    BY <1>1, <1>8 DEF Right
  <2> HIDE DEF needs, add
  <2>3. (s \ {}) \cup add \in Sound
    BY <1>1, <2>1, <2>2, SoundGrows
  <2>4. Leads(<<Write(needs, {}, add, {})>>, s, (s \ {}) \cup add)
    BY <2>1, <2>3, LeadsWrite
  <2> QED BY <1>1, <1>8, <2>4 DEF PostgresRolePlan, PgGroup, PgGrant, Taken, needs, add
<1>9. CASE e.op = "removeMember"
  <2> DEFINE needs == {Account(u), Group(g)}
             del == {Right(u, g)}
  <2>1. needs \subseteq s /\ {} \subseteq Flags(u) /\ del \subseteq Flags(u) \cup RightsOf(u)
    BY <1>1, <1>9, Distinct
  <2> HIDE DEF needs, del
  <2>2. Leads(<<Write(needs, {}, {}, del)>>, s, (s \ del) \cup {})
    BY <1>1, <2>1, LeadsFlags
  <2> QED BY <1>1, <1>9, <2>2 DEF PostgresRolePlan, PgGroup, Taken, needs, del
<1> QED BY <1>1, <1>2, <1>3, <1>5, <1>6, <1>7, <1>8, <1>9

\* One write of one user's facts.
LEMMA TakenFlags ==
  ASSUME NEW s \in Sound, NEW u \in Users, NEW needs, needs \subseteq s,
         NEW add, add \subseteq Flags(u), NEW del, del \subseteq Flags(u) \cup RightsOf(u)
  PROVE  Taken(<<Write(needs, {}, add, del)>>, s)
<1>1. Leads(<<Write(needs, {}, add, del)>>, s, (s \ del) \cup add)
  BY LeadsFlags
<1> QED BY <1>1 DEF Taken

LEMMA SoundJoins ==
  ASSUME NEW s \in Sound, NEW u \in Users, NEW g \in Refs, Group(g) \in s,
         {Account(u), Mapped(u)} \cap s # {}
  PROVE  (s \ {}) \cup {Right(u, g)} \in Sound
<1> DEFINE add == {Right(u, g)}
<1>1. add \subseteq UserFacts(u) /\ {} \subseteq Flags(u) \cup RightsOf(u)
  BY Distinct
<1>2. \A h \in Refs : Right(u, h) \in add => Group(h) \in s
  BY DEF Right
<1> HIDE DEF add
<1>3. (s \ {}) \cup add \in Sound
  BY <1>1, <1>2, SoundGrows
<1> QED BY <1>3 DEF add

LEMMA TakenJoin ==
  ASSUME NEW s \in Sound, NEW u \in Users, NEW g \in Refs, Group(g) \in s,
         {Account(u), Mapped(u)} \cap s # {}, NEW needs, needs \subseteq s
  PROVE  Taken(<<Write(needs, {}, {Right(u, g)}, {})>>, s)
<1> DEFINE add == {Right(u, g)}
<1>1. (s \ {}) \cup add \in Sound /\ {} \cap s = {}
  BY SoundJoins
<1> HIDE DEF add
<1>2. Leads(<<Write(needs, {}, add, {})>>, s, (s \ {}) \cup add)
  BY <1>1, LeadsWrite
<1> QED BY <1>2 DEF Taken, add

LEMMA TakenDrop ==
  ASSUME NEW s \in Sound, NEW u \in Users, NEW needs, needs \subseteq s
  PROVE  Taken(<<Write(needs, {}, {}, UserFacts(u))>>, s)
<1> DEFINE del == UserFacts(u)
<1>1. {} \cap s = {} /\ \A h \in Refs : Right(u, h) \in del
  BY Distinct
<1> HIDE DEF del
<1>2. Leads(<<Write(needs, {}, {}, del)>>, s, s \ del)
  BY <1>1, LeadsDrops DEF del
<1> QED BY <1>2 DEF Taken, del

-----------------------------------------------------------------------------
LEMMA MsMoves ==
  ASSUME NEW u \in Users, NEW s \in Sound
  PROVE  /\ \A refs \in Seq(Refs) :
              Mapped(u) \in s /\ Required(refs) \subseteq s /\ Malformed \notin Named(refs) =>
                s \cup Joined(u, refs) \in Sound /\ Leads(MsJoins(u, refs), s, s \cup Joined(u, refs))
         /\ \A c \in {"none", "grant", "revoke", "deny"} :
              Mapped(u) \in s =>
                \E n \in Sound : s \ {Permit(u)} \subseteq n /\ Leads(MsPermission(u, c), s, n)
         /\ \A on \in BOOLEAN :
              Account(u) \in s =>
                \E n \in Sound : s \ {Active(u)} \subseteq n /\ Leads(<<MsEnabled(u, on)>>, s, n)
<1>1. ASSUME NEW refs \in Seq(Refs), Mapped(u) \in s, Required(refs) \subseteq s, Malformed \notin Named(refs)
      PROVE  s \cup Joined(u, refs) \in Sound /\ Leads(MsJoins(u, refs), s, s \cup Joined(u, refs))
  <2> DEFINE q == [i \in 1 .. Len(refs) |-> MsJoin(u, refs[i])]
  <2>1. MsJoins(u, refs) = q
    BY <1>1 DEF MsJoins
  <2>2. ASSUME NEW i \in 1 .. Len(refs)
        PROVE  /\ q[i] \in Writing /\ q[i].needs \subseteq s /\ q[i].absent = {}
               /\ q[i].add = {Right(u, refs[i])} /\ q[i].del = {}
    <3>1. q[i] = MsJoin(u, refs[i]) /\ i \in DOMAIN refs /\ refs[i] \in Refs
      OBVIOUS
    <3>2. q[i].needs = {Mapped(u), Group(refs[i])} /\ q[i].absent = {}
          /\ q[i].add = {Right(u, refs[i])} /\ q[i].del = {}
      BY <3>1 DEF MsJoin, Write
    <3>3. Group(refs[i]) \in s
      BY <1>1, <3>1 DEF Required, Named
    <3>4. {Mapped(u), Group(refs[i])} \subseteq Facts /\ {Right(u, refs[i])} \subseteq Facts
      BY <3>1, FactSets
    <3>5. q[i] \in Writing
      BY <3>1, <3>4, WriteIs DEF MsJoin
    <3> QED BY <1>1, <3>2, <3>3, <3>5
  <2>3. Len(q) = Len(refs)
    OBVIOUS
  <2>4. q \in Seq(Writing)
    BY <2>2, IsASeq
  <2> HIDE DEF q
  <2>5. s \cup Joined(u, refs) \in Sound /\ Leads(q, s, s \cup Joined(u, refs))
    BY <1>1, <2>2, <2>3, <2>4, LeadsJoins
  <2> QED BY <2>1, <2>5
<1>2. {Permit(u)} \subseteq Flags(u) /\ {Active(u)} \subseteq Flags(u)
      /\ {} \subseteq Flags(u) /\ {} \subseteq Flags(u) \cup RightsOf(u)
      /\ {Permit(u)} \subseteq Flags(u) \cup RightsOf(u) /\ {Active(u)} \subseteq Flags(u) \cup RightsOf(u)
  BY DEF Flags
<1>3. ASSUME NEW c \in {"none", "grant", "revoke", "deny"}, Mapped(u) \in s
      PROVE  \E n \in Sound : s \ {Permit(u)} \subseteq n /\ Leads(MsPermission(u, c), s, n)
  <2>0. {Mapped(u)} \subseteq s
    BY <1>3
  <2>1. CASE c = "none"
    <3>1. Leads(<<>>, s, s)
      BY LeadsNone
    <3> QED BY <2>1, <3>1 DEF MsPermission
  <2>2. CASE c = "grant"
    <3> DEFINE n == (s \ {}) \cup {Permit(u)}
    <3>1. n \in Sound /\ Leads(<<Write({Mapped(u)}, {}, {Permit(u)}, {})>>, s, n)
      BY <1>2, <2>0, LeadsFlags
    <3>2. s \ {Permit(u)} \subseteq n
      OBVIOUS
    <3> HIDE DEF n
    <3> QED BY <2>2, <3>1, <3>2 DEF MsPermission
  <2>3. CASE c \in {"revoke", "deny"}
    <3> DEFINE n == (s \ {Permit(u)}) \cup {}
    <3>1. n \in Sound /\ Leads(<<Write({Mapped(u)}, {}, {}, {Permit(u)})>>, s, n)
      BY <1>2, <2>0, LeadsFlags
    <3>2. s \ {Permit(u)} \subseteq n
      OBVIOUS
    <3> HIDE DEF n
    <3> QED BY <2>3, <3>1, <3>2 DEF MsPermission
  <2> QED BY <2>1, <2>2, <2>3
<1>4. ASSUME NEW on \in BOOLEAN, Account(u) \in s
      PROVE  \E n \in Sound : s \ {Active(u)} \subseteq n /\ Leads(<<MsEnabled(u, on)>>, s, n)
  <2> DEFINE add == IF on THEN {Active(u)} ELSE {}
             del == IF on THEN {} ELSE {Active(u)}
             n == (s \ del) \cup add
  <2>1. add \subseteq Flags(u) /\ del \subseteq Flags(u) \cup RightsOf(u) /\ s \ {Active(u)} \subseteq n
        /\ {Account(u)} \subseteq s
    BY <1>2, <1>4
  <2> HIDE DEF add, del
  <2>2. n \in Sound /\ Leads(<<Write({Account(u)}, {}, add, del)>>, s, n)
    BY <2>1, LeadsFlags
  <2>3. MsEnabled(u, on) = Write({Account(u)}, {}, add, del)
    BY DEF MsEnabled, add, del
  <2> QED BY <2>1, <2>2, <2>3
<1> QED BY <1>1, <1>3, <1>4

LEMMA MsCreateTaken ==
  ASSUME NEW t \in Targets, NEW e \in Events, NEW s \in Sound, t.kind = "mssql", Fits(t, e, s),
         e.op = "create"
  PROVE  Taken(MsCreate(t, e), s)
<1> DEFINE u == e.user
           S == RequestsOn(Facts)
           refs == t.defaults \o Asked(t, e)
           add == {Account(u), Password(u), Active(u)}
           m == (s \ {}) \cup add
           k == (m \ {}) \cup {Mapped(u)}
           h == k \cup Joined(u, refs)
           x == <<MsCreateLogin(u), MsCreateUser(u)>>
           q == MsJoins(u, refs)
           c == MsPermission(u, e.permission)
           off == IF e.enabled = "off" THEN <<MsEnabled(u, FALSE)>> ELSE <<>>
<1>1. /\ u \in Users /\ Asked(t, e) \in Seq(Refs) /\ t.defaults \in Seq(Refs) /\ refs \in Seq(Refs)
      /\ e.permission \in {"none", "grant", "revoke", "deny", "outside"}
  BY Event
<1>2. Refers(t, e) = Asked(t, e)
  BY DEF Refers, Sql
<1>3. /\ e.given = "all" /\ e.permission \in {"none", "grant", "revoke", "deny"} /\ Account(u) \notin s
      /\ Required(Asked(t, e)) \subseteq s /\ Malformed \notin Named(Asked(t, e))
      /\ Required(t.defaults) \subseteq s /\ Malformed \notin Named(t.defaults)
  BY <1>1, <1>2, FitsGives
<1>4. Required(refs) \subseteq s /\ Malformed \notin Named(refs)
  BY <1>1, <1>3, NamedCat
<1>5. MsCreate(t, e) = x \o q \o c \o off
  BY <1>3 DEF MsCreate
<1>6. x \in Seq(S) /\ q \in Seq(S) /\ c \in Seq(S) /\ off \in Seq(S)
  <2>4. q \in Seq(Simple)
    <3>1. refs \in Seq(Refs)
      BY <1>1
    <3> HIDE DEF refs
    <3> QED BY <1>1, <3>1, MsParts
  <2>5. c \in Seq(Simple)
    <3>1. MsPermission(u, e.permission) \in Seq(Simple)
      BY <1>1, MsParts
    <3> QED BY <3>1
  <2>6. MsEnabled(u, FALSE) \in Simple
    BY <1>1, MsParts
  <2>1. q \in Seq(Simple) /\ c \in Seq(Simple) /\ MsEnabled(u, FALSE) \in Simple
    BY <2>4, <2>5, <2>6
  <2>2. MsCreateLogin(u) \in Writing /\ MsCreateUser(u) \in Writing
    <3>1. {Account(u)} \subseteq Facts /\ add \subseteq Facts /\ {Mapped(u)} \subseteq Facts
      BY <1>1, FactSets
    <3> QED BY <3>1, WriteIs DEF MsCreateLogin, MsCreateUser
  <2>3. MsEnabled(u, FALSE) \in S /\ MsCreateLogin(u) \in S /\ MsCreateUser(u) \in S
    BY <2>1, <2>2 DEF Simple, Writing
  <2> QED BY <2>1, <2>3, WritingSeq, Pair
<1> HIDE DEF refs, q, c, off
<1>7. m \in Sound /\ Leads(<<MsCreateLogin(u)>>, s, m)
  <2> DEFINE absent == {Account(u)}
  <2>1. /\ {} \subseteq s /\ absent \cap s = {} /\ {} \subseteq Flags(u) \cup RightsOf(u)
        /\ add \subseteq UserFacts(u) /\ \A g \in Refs : Right(u, g) \notin add
    BY <1>1, <1>3, Distinct DEF UserFacts, Flags
  <2> HIDE DEF absent, add
  <2>2. m \in Sound
    BY <1>1, <2>1, SoundGrows
  <2>3. Leads(<<Write({}, absent, add, {})>>, s, m)
    BY <2>1, <2>2, LeadsWrite
  <2> QED BY <2>2, <2>3 DEF absent, add, MsCreateLogin
<1>8. k \in Sound /\ Leads(<<MsCreateUser(u)>>, m, k)
  <2> DEFINE needs == {Account(u)}
             more == {Mapped(u)}
  <2>1. /\ needs \subseteq m /\ {} \cap m = {} /\ {} \subseteq Flags(u) \cup RightsOf(u)
        /\ more \subseteq UserFacts(u) /\ \A g \in Refs : Right(u, g) \notin more
    BY <1>1, Distinct DEF UserFacts, Flags
  <2> HIDE DEF needs, more, m
  <2>2. (m \ {}) \cup more \in Sound
    BY <1>1, <1>7, <2>1, SoundGrows
  <2>3. Leads(<<Write(needs, {}, more, {})>>, m, (m \ {}) \cup more)
    BY <1>7, <2>1, <2>2, LeadsWrite
  <2> QED BY <2>2, <2>3 DEF needs, more, MsCreateUser
<1>9. Account(u) \in k /\ Mapped(u) \in k /\ s \subseteq k
  OBVIOUS
<1> HIDE DEF m, k
<1>10. Leads(x, s, k)
  BY <1>7, <1>8, LeadsTwo
<1>11. h \in Sound /\ Leads(q, k, h) /\ Account(u) \in h /\ Mapped(u) \in h
  <2>1. Required(refs) \subseteq k
    BY <1>4, <1>9
  <2> QED BY <1>1, <1>4, <1>8, <1>9, <2>1, MsMoves DEF q
<1> HIDE DEF x, h
<1>12. PICK n \in Sound : h \ {Permit(u)} \subseteq n /\ Leads(c, h, n)
  BY <1>1, <1>3, <1>11, MsMoves DEF c
<1>13. Account(u) \in n
  BY <1>1, <1>11, <1>12, Apart
<1>14. Taken(off, n)
  <2>1. CASE e.enabled = "off"
    <3>1. \E y \in Sound : Leads(<<MsEnabled(u, FALSE)>>, n, y)
      BY <1>1, <1>13, MsMoves
    <3> QED BY <2>1, <3>1 DEF Taken, off
  <2>2. CASE e.enabled # "off"
    BY <2>2, LeadsNone DEF Taken, off
  <2> QED BY <2>1, <2>2
<1>15. PICK y : Leads(off, n, y)
  BY <1>14 DEF Taken
<1>16. x \o q \in Seq(S) /\ Leads(x \o q, s, h)
  BY <1>6, <1>10, <1>11, LeadsCat, Cat
<1>17. x \o q \o c \in Seq(S) /\ Leads(x \o q \o c, s, n)
  BY <1>6, <1>12, <1>16, LeadsCat, Cat
<1>18. Leads(x \o q \o c \o off, s, y)
  BY <1>6, <1>15, <1>17, LeadsCat
<1> QED BY <1>5, <1>18 DEF Taken

-----------------------------------------------------------------------------
LEMMA MsUpdateTaken ==
  ASSUME NEW t \in Targets, NEW e \in Events, NEW s \in Sound, t.kind = "mssql", Fits(t, e, s),
         e.op = "update"
  PROVE  Taken(MsUpdate(t, e), s)
<1> DEFINE u == e.user
           S == RequestsOn(Facts)
           refs == Asked(t, e)
           login == IF e.enabled = "unset" THEN <<>> ELSE <<MsEnabled(u, e.enabled = "on")>>
           q == MsJoins(u, refs)
           c == MsPermission(u, e.permission)
<1>1. /\ u \in Users /\ refs \in Seq(Refs) /\ e.permission \in {"none", "grant", "revoke", "deny", "outside"}
  BY Event
<1>2. Refers(t, e) = refs
  BY DEF Refers, Sql
<1>3. /\ e.given = "all" /\ e.permission \in {"none", "grant", "revoke", "deny"} /\ Account(u) \in s
      /\ Required(refs) \subseteq s /\ Malformed \notin Named(refs) /\ Mapped(u) \in s
  BY <1>1, <1>2, FitsGives
<1>4. MsUpdate(t, e) = login \o q \o c
  BY <1>3 DEF MsUpdate
<1> HIDE DEF refs
<1>5. login \in Seq(S) /\ q \in Seq(S) /\ c \in Seq(S)
  <2>1. q \in Seq(Simple)
    BY <1>1, MsParts
  <2>2. c \in Seq(Simple)
    BY <1>1, <1>3, MsParts
  <2>3. MsEnabled(u, e.enabled = "on") \in S
    BY <1>1, MsParts DEF Simple
  <2>4. login \in Seq(S)
    BY <2>3, WritingSeq
  <2> QED BY <2>1, <2>2, <2>4, WritingSeq
<1> HIDE DEF q, c
<1>6. \E n \in Sound : s \ {Active(u)} \subseteq n /\ Leads(login, s, n)
  <2>1. CASE e.enabled = "unset"
    <3>1. Leads(<<>>, s, s)
      BY LeadsNone
    <3> QED BY <2>1, <3>1
  <2>2. CASE e.enabled # "unset"
    <3>1. (e.enabled = "on") \in BOOLEAN
      OBVIOUS
    <3>2. \E n \in Sound : s \ {Active(u)} \subseteq n /\ Leads(<<MsEnabled(u, e.enabled = "on")>>, s, n)
      BY <1>1, <1>3, <3>1, MsMoves
    <3> QED BY <2>2, <3>2
  <2> QED BY <2>1, <2>2
<1> HIDE DEF login
<1>7. PICK m \in Sound : s \ {Active(u)} \subseteq m /\ Leads(login, s, m)
  BY <1>6
<1>8. Mapped(u) \in m /\ Required(refs) \subseteq m
  <2>1. Active(u) # Mapped(u) /\ Active(u) \notin Required(refs)
    BY DEF Active, Mapped, Required, Group
  <2> QED BY <1>3, <1>7, <2>1
<1> DEFINE h == m \cup Joined(u, refs)
<1>9. h \in Sound /\ Leads(q, m, h) /\ Mapped(u) \in h
  BY <1>1, <1>3, <1>8, MsMoves DEF q
<1> HIDE DEF h
<1>10. PICK n \in Sound : Leads(c, h, n)
  BY <1>1, <1>3, <1>9, MsMoves DEF c
<1>11. login \o q \in Seq(S) /\ Leads(login \o q, s, h)
  BY <1>5, <1>7, <1>9, LeadsCat, Cat
<1>12. Leads(login \o q \o c, s, n)
  BY <1>5, <1>10, <1>11, LeadsCat
<1> QED BY <1>4, <1>12 DEF Taken

LEMMA MsDropsTaken ==
  ASSUME NEW u \in Users, NEW s \in Sound
  PROVE  Taken(<<MsDropUser(u), MsDropLogin(u)>>, s)
<1> DEFINE first == {Mapped(u), Permit(u)} \cup RightsOf(u)
           last == {Account(u), Active(u), Attrs(u), Password(u), Valid(u)}
           m == s \ first
<1>1. first \subseteq UserFacts(u) /\ last \subseteq UserFacts(u)
  BY DEF UserFacts
<1>2. \A g \in Refs : Right(u, g) \in first
  BY Distinct
<1>3. {} \subseteq s /\ {} \cap s = {} /\ {} \subseteq m /\ {} \cap m = {}
  OBVIOUS
<1> HIDE DEF first, last
<1>4. m \in Sound /\ Leads(<<Write({}, {}, {}, first)>>, s, m)
  BY <1>1, <1>2, <1>3, LeadsDrops
<1>5. \A g \in Refs : Right(u, g) \in m => Right(u, g) \in last
  BY <1>2
<1> HIDE DEF m
<1>6. Leads(<<Write({}, {}, {}, last)>>, m, m \ last)
  BY <1>1, <1>3, <1>4, <1>5, LeadsDrops
<1>7. Leads(<<Write({}, {}, {}, first), Write({}, {}, {}, last)>>, s, m \ last)
  BY <1>4, <1>6, LeadsTwo
<1>8. MsDropUser(u) = Write({}, {}, {}, first) /\ MsDropLogin(u) = Write({}, {}, {}, last)
  BY DEF MsDropUser, MsDropLogin, first, last
<1> QED BY <1>7, <1>8 DEF Taken

LEMMA MsTaken ==
  ASSUME NEW t \in Targets, NEW e \in Events, NEW s \in Sound, t.kind = "mssql", Fits(t, e, s)
  PROVE  Taken(MssqlLoginPlan(t, e), s)
<1> DEFINE u == e.user
           g == e.group
<1>1. /\ u \in Users /\ g \in Refs /\ e.given = "all"
      /\ e.op \in {"create", "update", "delete", "disable", "enable", "changePassword", "addMember",
                   "removeMember"}
      /\ e.op # "create" => Account(u) \in s
      /\ e.op \in {"addMember", "removeMember"} => Group(g) \in s /\ g # Malformed /\ Mapped(u) \in s
  BY Event, FitsGives DEF Served
<1>2. CASE e.op = "create"
  BY <1>2, MsCreateTaken DEF MssqlLoginPlan
<1>3. CASE e.op = "update"
  BY <1>3, MsUpdateTaken DEF MssqlLoginPlan
<1>4. ASSUME NEW on \in BOOLEAN, Account(u) \in s PROVE Taken(<<MsEnabled(u, on)>>, s)
  BY <1>1, <1>4, MsMoves DEF Taken
<1>5. CASE e.op = "delete"
  BY <1>1, <1>4, <1>5, MsDropsTaken DEF MssqlLoginPlan, MsDelete
<1>6. CASE e.op \in {"enable", "disable"}
  <2>1. (e.op = "enable") \in BOOLEAN
    OBVIOUS
  <2> QED BY <1>1, <1>4, <1>6, <2>1 DEF MssqlLoginPlan
<1>7. CASE e.op = "changePassword"
  <2> DEFINE needs == {Account(u)}
             add == {Password(u)}
  <2>1. needs \subseteq s /\ add \subseteq Flags(u) /\ {} \subseteq Flags(u) \cup RightsOf(u)
    BY <1>1, <1>7 DEF Flags
  <2> HIDE DEF needs, add
  <2>2. Taken(<<Write(needs, {}, add, {})>>, s)
    BY <1>1, <2>1, TakenFlags
  <2> QED BY <1>1, <1>7, <2>2 DEF MssqlLoginPlan, MsPassword, needs, add
<1>8. CASE e.op = "addMember"
  <2> DEFINE needs == {Mapped(u), Group(g)}
  <2>1. needs \subseteq s /\ Group(g) \in s /\ {Account(u), Mapped(u)} \cap s # {}
    BY <1>1, <1>8
  <2> HIDE DEF needs
  <2>2. Taken(<<Write(needs, {}, {Right(u, g)}, {})>>, s)
    BY <1>1, <2>1, TakenJoin
  <2> QED BY <1>1, <1>8, <2>2 DEF MssqlLoginPlan, MsGroup, MsJoin, needs
<1>9. CASE e.op = "removeMember"
  <2> DEFINE needs == {Mapped(u), Group(g)}
             del == {Right(u, g)}
  <2>1. needs \subseteq s /\ {} \subseteq Flags(u) /\ del \subseteq Flags(u) \cup RightsOf(u)
    BY <1>1, <1>9, Distinct
  <2> HIDE DEF needs, del
  <2>2. Taken(<<Write(needs, {}, {}, del)>>, s)
    BY <1>1, <2>1, TakenFlags
  <2> QED BY <1>1, <1>9, <2>2 DEF MssqlLoginPlan, MsGroup, needs, del
<1> QED BY <1>1, <1>2, <1>3, <1>5, <1>6, <1>7, <1>8, <1>9
-----------------------------------------------------------------------------
\* A new account and the memberships it is created with.
LEMMA LeadsCreate ==
  ASSUME NEW s \in Sound, NEW u \in Users, Account(u) \notin s, NEW needs, needs \subseteq s,
         NEW add, add \subseteq UserFacts(u), Account(u) \in add,
         \A g \in Refs : Right(u, g) \in add => Group(g) \in s
  PROVE  /\ s \cup add \in Sound
         /\ Leads(<<Write(needs, {Account(u)}, add, {})>>, s, s \cup add)
<1> DEFINE absent == {Account(u)}
<1>1. /\ absent \cap s = {} /\ {} \subseteq Flags(u) \cup RightsOf(u)
      /\ {Account(u), Mapped(u)} \cap (s \cup add) # {} /\ (s \ {}) \cup add = s \cup add
  OBVIOUS
<1> HIDE DEF absent
<1>2. (s \ {}) \cup add \in Sound
  BY <1>1, SoundGrows
<1>3. Leads(<<Write(needs, absent, add, {})>>, s, (s \ {}) \cup add)
  BY <1>1, <1>2, LeadsWrite
<1> QED BY <1>1, <1>2, <1>3 DEF absent

\* The facts of an account that belongs to the groups refs.
LEMMA NewFacts ==
  ASSUME NEW u \in Users, NEW refs \in Seq(Refs), NEW s, Required(refs) \subseteq s
  PROVE  /\ {Account(u), Active(u), Attrs(u), Password(u)} \cup Joined(u, refs) \subseteq UserFacts(u)
         /\ {Account(u), Active(u), Attrs(u), Password(u)} \subseteq UserFacts(u)
         /\ {Account(u), Valid(u), Attrs(u)} \cup Joined(u, refs) \subseteq UserFacts(u)
         /\ \A g \in Refs : Right(u, g) \in Joined(u, refs) => Group(g) \in s
         /\ \A g \in Refs : Right(u, g) \notin {Account(u), Active(u), Attrs(u), Password(u), Valid(u)}
<1>1. Joined(u, refs) \subseteq UserFacts(u)
  BY Refs1, FactSets
<1>2. ASSUME NEW g \in Refs, Right(u, g) \in Joined(u, refs) PROVE Group(g) \in s
  <2>1. PICK h \in Named(refs) : Right(u, g) = Right(u, h)
    BY <1>2 DEF Joined
  <2>2. g \in Named(refs)
    BY <2>1 DEF Right
  <2> QED BY <2>2 DEF Required
<1> QED BY <1>1, <1>2, Distinct DEF UserFacts, Flags

LEMMA LeadsLook ==
  ASSUME NEW s \in Sound, NEW refs, Required(refs) \subseteq s, NEW c \in BOOLEAN,
         ~c => Named(refs) \cap Unlisted = {}
  PROVE  Leads(IF c THEN <<>> ELSE <<Read(Looked(refs), {})>>, s, s)
<1>1. Leads(<<>>, s, s)
  BY LeadsNone
<1>2. ~c => Leads(<<Read(Looked(refs), {})>>, s, s)
  <2>1. ~c => Looked(refs) = Required(refs)
    BY DEF Looked
  <2> QED BY <2>1, LeadsMarks
<1> QED BY <1>1, <1>2

LEMMA PassworkCreateTaken ==
  ASSUME NEW t \in Targets, NEW e \in Events, NEW s \in Sound, t.kind = "passwork", Fits(t, e, s),
         e.op = "create", ~Overlooks(t, e)
  PROVE  Taken(PassworkCreate(t, e), s)
<1> DEFINE u == e.user
           S == RequestsOn(Facts)
           refs == PassworkGroups(t, e)
           add == {Account(u), Active(u), Attrs(u), Password(u)}
           post == Write({}, {Account(u)}, add, {})
           look == PassworkResolve(t, refs)
           q == PassworkJoins(u, refs)
           m == s \cup add
<1>1. u \in Users /\ e.rights \in Seq(Refs) /\ t.defaults \in Seq(Refs) /\ refs \in Seq(Refs)
  BY Event DEF PassworkGroups
<1>2. Refers(t, e) = Asked(t, e)
  BY DEF Refers, Sql
<1>3. /\ e.given = "all" /\ Account(u) \notin s
      /\ Required(Asked(t, e)) \subseteq s /\ Malformed \notin Named(Asked(t, e))
      /\ Required(t.defaults) \subseteq s /\ Malformed \notin Named(t.defaults)
  BY <1>2, FitsGives
<1>4. Required(refs) \subseteq s /\ Malformed \notin Named(refs)
  <2>1. CASE t.mapping
    <3>1. Asked(t, e) = e.rights /\ refs = t.defaults \o e.rights
      BY <2>1 DEF Asked, PassworkGroups
    <3> QED BY <1>1, <1>3, <3>1, NamedCat
  <2>2. CASE ~t.mapping
    <3>1. refs = <<>>
      BY <2>2 DEF PassworkGroups
    <3> QED BY <3>1 DEF Required, Named
  <2> QED BY <2>1, <2>2
<1>5. PassworkCreate(t, e) = look \o <<post>> \o q
  BY <1>3, <1>4 DEF PassworkCreate, Known
<1>o. t.byName => Named(refs) \cap Unlisted = {}
  BY DEF Overlooks
<1> HIDE DEF refs
<1>6. look \in Seq(S) /\ <<post>> \in Seq(S) /\ q \in Seq(S)
  <2>1. q \in Seq(Simple)
    BY <1>1, PassworkJoinsDo
  <2>2. Looked(refs) \in SUBSET Facts /\ {} \in SUBSET Facts
    BY <1>1, LookedIn
  <2>3. Read(Looked(refs), {}) \in Simple
    BY <2>2, ReadDoes
  <2>4. Read(Looked(refs), {}) \in S
    BY <2>3 DEF Simple
  <2>5. look \in Seq(S)
    BY <2>4, WritingSeq DEF PassworkResolve
  <2>6. {Account(u)} \subseteq Facts /\ add \subseteq Facts
    BY <1>1, FactSets
  <2>7. post \in Writing
    BY <2>6, WriteIs
  <2>8. post \in S
    BY <2>7 DEF Writing
  <2> QED BY <2>1, <2>5, <2>8, WritingSeq
<1>7. Leads(look, s, s)
  <2>1. (refs = <<>> \/ ~t.byName) \in BOOLEAN
    OBVIOUS
  <2>2. Leads(IF refs = <<>> \/ ~t.byName THEN <<>> ELSE <<Read(Looked(refs), {})>>, s, s)
    BY <1>4, <1>o, <2>1, LeadsLook
  <2> QED BY <2>2 DEF PassworkResolve
<1>8. m \in Sound /\ Leads(<<post>>, s, m)
  <2>1. add \subseteq UserFacts(u) /\ \A g \in Refs : Right(u, g) \notin add
    BY <1>1, <1>4, NewFacts
  <2>2. Account(u) \in add /\ {} \subseteq s
    OBVIOUS
  <2> HIDE DEF add
  <2> QED BY <1>1, <1>3, <2>1, <2>2, LeadsCreate
<1>9. Account(u) \in m /\ Required(refs) \subseteq m
  BY <1>4
<1> HIDE DEF m, look, post
<1>10. m \cup Joined(u, refs) \in Sound /\ Leads(q, m, m \cup Joined(u, refs))
  <2>1. q = [i \in 1 .. Len(refs) |-> Write({Account(u), Group(refs[i])}, {}, {Right(u, refs[i])}, {})]
    BY DEF PassworkJoins
  <2> HIDE DEF q
  <2>2. Len(q) = Len(refs)
    BY <1>1, <2>1
  <2>3. ASSUME NEW i \in 1 .. Len(refs)
        PROVE  /\ q[i] \in Writing /\ q[i].needs \subseteq m /\ q[i].absent = {}
               /\ q[i].add = {Right(u, refs[i])} /\ q[i].del = {}
    <3>1. i \in DOMAIN refs /\ refs[i] \in Refs
      BY <1>1
    <3>2. q[i] = Write({Account(u), Group(refs[i])}, {}, {Right(u, refs[i])}, {})
      BY <2>1
    <3>3. {Account(u), Group(refs[i])} \subseteq Facts /\ {Right(u, refs[i])} \subseteq Facts
      BY <1>1, <3>1, FactSets
    <3>4. q[i] \in Writing
      BY <3>2, <3>3, WriteIs
    <3>5. q[i].needs = {Account(u), Group(refs[i])} /\ q[i].absent = {}
          /\ q[i].add = {Right(u, refs[i])} /\ q[i].del = {}
      BY <3>2 DEF Write
    <3>6. Group(refs[i]) \in m
      BY <1>9, <3>1 DEF Required, Named
    <3> QED BY <1>9, <3>4, <3>5, <3>6
  <2>4. q \in Seq(Writing)
    <3>1. Len(refs) \in Nat
      BY <1>1
    <3>2. \A i \in 1 .. Len(refs) : q[i] \in Writing
      BY <2>3
    <3>3. q = [i \in 1 .. Len(refs) |-> q[i]]
      BY <2>1
    <3> QED BY <3>1, <3>2, <3>3, IsASeq
  <2> QED BY <1>1, <1>8, <1>9, <2>2, <2>3, <2>4, LeadsJoins
<1> HIDE DEF q
<1>11. look \o <<post>> \in Seq(S) /\ Leads(look \o <<post>>, s, m)
  BY <1>6, <1>7, <1>8, LeadsCat, Cat
<1>12. Leads(look \o <<post>> \o q, s, m \cup Joined(u, refs))
  BY <1>6, <1>10, <1>11, LeadsCat
<1> QED BY <1>5, <1>12 DEF Taken

LEMMA PassworkTaken ==
  ASSUME NEW t \in Targets, NEW e \in Events, NEW s \in Sound, t.kind = "passwork", Fits(t, e, s),
         ~Overlooks(t, e)
  PROVE  Taken(PassworkPlan(t, e), s)
<1> DEFINE u == e.user
           g == e.group
<1>1. /\ u \in Users /\ g \in Refs /\ e.given = "all"
      /\ e.op \in {"create", "update", "delete", "disable", "enable", "addMember", "removeMember"}
      /\ e.op # "create" => Account(u) \in s
      /\ e.op \in {"addMember", "removeMember"} => Group(g) \in s
  BY Event, FitsGives DEF Served
<1>2. CASE e.op = "create"
  BY <1>2, PassworkCreateTaken DEF PassworkPlan, PassworkUnsupported
<1>3. ASSUME e.op # "create", Taken(<<PassworkRequest(t, e)>>, s) PROVE Taken(PassworkPlan(t, e), s)
  BY <1>1, <1>3 DEF PassworkPlan, PassworkUnsupported
<1>4. ASSUME e.op # "create", NEW add, add \subseteq Flags(u), NEW del, del \subseteq Flags(u)
      PROVE  Taken(<<Write({Account(u)}, {}, add, del)>>, s)
  <2> DEFINE needs == {Account(u)}
  <2>1. needs \subseteq s /\ del \subseteq Flags(u) \cup RightsOf(u)
    BY <1>1, <1>4
  <2> HIDE DEF needs
  <2>2. Taken(<<Write(needs, {}, add, del)>>, s)
    BY <1>1, <1>4, <2>1, TakenFlags
  <2> QED BY <2>2 DEF needs
<1>5. {Active(u)} \subseteq Flags(u) /\ {Attrs(u)} \subseteq Flags(u) /\ {} \subseteq Flags(u)
  BY DEF Flags
<1>6. CASE e.op = "update"
  <2>1. Taken(<<Write({Account(u)}, {}, {Attrs(u)}, {})>>, s)
    BY <1>4, <1>5, <1>6
  <2> QED BY <1>3, <1>6, <2>1 DEF PassworkRequest
<1>7. CASE e.op = "delete"
  <2> DEFINE needs == {Account(u)}
  <2>1. needs \subseteq s
    BY <1>1, <1>7
  <2> HIDE DEF needs
  <2>2. Taken(<<Write(needs, {}, {}, UserFacts(u))>>, s)
    BY <1>1, <2>1, TakenDrop
  <2> QED BY <1>3, <1>7, <2>2 DEF PassworkRequest, needs
<1>8. CASE e.op = "enable"
  <2>1. Taken(<<Write({Account(u)}, {}, {Active(u)}, {})>>, s)
    BY <1>4, <1>5, <1>8
  <2> QED BY <1>3, <1>8, <2>1 DEF PassworkRequest
<1>9. CASE e.op = "disable"
  <2>1. Taken(<<Write({Account(u)}, {}, {}, {Active(u)})>>, s)
    BY <1>4, <1>5, <1>9
  <2> QED BY <1>3, <1>9, <2>1 DEF PassworkRequest
<1>10. CASE e.op = "addMember"
  <2> DEFINE needs == {Account(u), Group(g)}
  <2>1. needs \subseteq s /\ Group(g) \in s /\ {Account(u), Mapped(u)} \cap s # {}
    BY <1>1, <1>10
  <2> HIDE DEF needs
  <2>2. Taken(<<Write(needs, {}, {Right(u, g)}, {})>>, s)
    BY <1>1, <2>1, TakenJoin
  <2> QED BY <1>3, <1>10, <2>2 DEF PassworkRequest, needs
<1>11. CASE e.op = "removeMember"
  <2> DEFINE needs == {Group(g)}
             del == {Right(u, g)}
  <2>1. needs \subseteq s /\ {} \subseteq Flags(u) /\ del \subseteq Flags(u) \cup RightsOf(u)
    BY <1>1, <1>11, Distinct
  <2> HIDE DEF needs, del
  <2>2. Taken(<<Write(needs, {}, {}, del)>>, s)
    BY <1>1, <2>1, TakenFlags
  <2> QED BY <1>3, <1>11, <2>2 DEF PassworkRequest, needs, del
<1> QED BY <1>1, <1>2, <1>6, <1>7, <1>8, <1>9, <1>10, <1>11
-----------------------------------------------------------------------------
\* The account of a create whose data says whether it is active.
LEMMA LeadsMade ==
  ASSUME NEW s \in Sound, NEW u \in Users, Account(u) \notin s, NEW needs, needs \subseteq s,
         NEW refs \in Seq(Refs), Required(refs) \subseteq s, NEW off, off \subseteq {Active(u)}
  PROVE  \E n \in Sound :
           Leads(<<Write(needs, {Account(u)},
                         ({Account(u), Active(u), Attrs(u), Password(u)} \ off) \cup Joined(u, refs), off)>>, s, n)
<1> DEFINE absent == {Account(u)}
           add == ({Account(u), Active(u), Attrs(u), Password(u)} \ off) \cup Joined(u, refs)
           n == (s \ off) \cup add
<1>1. /\ Joined(u, refs) \subseteq UserFacts(u)
      /\ {Account(u), Active(u), Attrs(u), Password(u)} \subseteq UserFacts(u)
      /\ \A g \in Refs : Right(u, g) \in Joined(u, refs) => Group(g) \in s
      /\ \A g \in Refs : Right(u, g) \notin {Account(u), Active(u), Attrs(u), Password(u), Valid(u)}
  BY NewFacts
<1>2. Account(u) \in add
  BY DEF Account, Active
<1>3. /\ absent \cap s = {} /\ add \subseteq UserFacts(u) /\ off \subseteq Flags(u) \cup RightsOf(u)
      /\ \A g \in Refs : Right(u, g) \in add =>
           Group(g) \in s /\ {Account(u), Mapped(u)} \cap (s \cup add) # {}
  BY <1>1, <1>2 DEF Flags
<1> HIDE DEF absent, add
<1>4. (s \ off) \cup add \in Sound
  BY <1>3, SoundGrows
<1>5. Leads(<<Write(needs, absent, add, off)>>, s, n)
  BY <1>3, <1>4, LeadsWrite
<1> QED BY <1>4, <1>5 DEF absent, add

\* An update that joins groups, or replaces the user's groups by them.
LEMMA JoinsTaken ==
  ASSUME NEW s \in Sound, NEW u \in Users, Account(u) \in s, NEW needs, needs \subseteq s,
         NEW refs \in Seq(Refs), Required(refs) \subseteq s,
         NEW flags, flags \subseteq Flags(u), NEW less, less \subseteq Flags(u)
  PROVE  Taken(<<Write(needs, {}, flags \cup Joined(u, refs), less \cup Replaced(u, refs))>>, s)
<1> DEFINE add == flags \cup Joined(u, refs)
           del == less \cup Replaced(u, refs)
<1>1. /\ Joined(u, refs) \subseteq UserFacts(u)
      /\ \A g \in Refs : Right(u, g) \in Joined(u, refs) => Group(g) \in s
  BY NewFacts
<1>2. \A g \in Refs : Right(u, g) \notin flags
  BY Distinct
<1>3. flags \subseteq UserFacts(u)
  BY DEF UserFacts, Flags
<1>4. /\ {} \cap s = {} /\ add \subseteq UserFacts(u) /\ del \subseteq Flags(u) \cup RightsOf(u)
      /\ \A g \in Refs : Right(u, g) \in add =>
           Group(g) \in s /\ {Account(u), Mapped(u)} \cap (s \cup add) # {}
  BY <1>1, <1>2, <1>3 DEF Replaced
<1> HIDE DEF add, del
<1>5. (s \ del) \cup add \in Sound
  BY <1>4, SoundGrows
<1>6. Leads(<<Write(needs, {}, add, del)>>, s, (s \ del) \cup add)
  BY <1>4, <1>5, LeadsWrite
<1> QED BY <1>6 DEF Taken, add, del

LEMMA SshCreateTaken ==
  ASSUME NEW t \in Targets, NEW e \in Events, NEW s \in Sound, t.kind = "ssh", Fits(t, e, s),
         e.op = "create"
  PROVE  Taken(SshCreate(t, e), s)
<1> DEFINE u == e.user
           refs == LinuxGroups(t, e)
           needs == Required(refs)
           add == {Account(u), Valid(u), Attrs(u)} \cup Joined(u, refs)
           m == s \cup add
           still == {Account(u)}
           hash == {Password(u), Active(u)}
           k == (m \ {}) \cup hash
<1>1. u \in Users /\ e.rights \in Seq(Refs) /\ t.defaults \in Seq(Refs) /\ refs \in Seq(Refs)
  BY Event DEF LinuxGroups
<1>2. Refers(t, e) = e.rights
  BY DEF Refers, Sql
<1>3. /\ e.given = "all" /\ Account(u) \notin s
      /\ Required(e.rights) \subseteq s /\ Malformed \notin Named(e.rights)
      /\ Required(t.defaults) \subseteq s /\ Malformed \notin Named(t.defaults)
  BY <1>2, FitsGives
<1>4. needs \subseteq s /\ Malformed \notin Named(refs)
  BY <1>1, <1>3, NamedCat DEF LinuxGroups
<1>5. SshCreate(t, e) = <<Write(needs, {Account(u)}, add, {})>> \o <<Write(still, {}, hash, {})>>
  BY <1>3, <1>4 DEF SshCreate, Chpasswd
<1> HIDE DEF refs
<1>6. m \in Sound /\ Leads(<<Write(needs, {Account(u)}, add, {})>>, s, m)
  <2>1. /\ add \subseteq UserFacts(u) /\ \A g \in Refs : Right(u, g) \in Joined(u, refs) => Group(g) \in s
        /\ \A g \in Refs : Right(u, g) \notin {Account(u), Active(u), Attrs(u), Password(u), Valid(u)}
    BY <1>1, <1>4, NewFacts
  <2>2. Account(u) \in add /\ \A g \in Refs : Right(u, g) \in add => Group(g) \in s
    BY <2>1
  <2> HIDE DEF add, needs
  <2> QED BY <1>1, <1>3, <1>4, <2>1, <2>2, LeadsCreate
<1>7. still \subseteq m /\ hash \subseteq Flags(u) /\ {} \subseteq Flags(u) \cup RightsOf(u)
  BY DEF Flags
<1> HIDE DEF m, still, hash, needs, add
<1>8. Leads(<<Write(still, {}, hash, {})>>, m, k)
  BY <1>1, <1>6, <1>7, LeadsFlags
<1> DEFINE a == Write(needs, {Account(u)}, add, {})
           b == Write(still, {}, hash, {})
<1>9. Leads(<<a>>, s, m) /\ Leads(<<b>>, m, k) /\ SshCreate(t, e) = <<a>> \o <<b>>
  BY <1>5, <1>6, <1>8
<1> HIDE DEF a, b
<1>10. Leads(<<a, b>>, s, k)
  BY <1>9, LeadsTwo
<1>11. a \in {a, b} /\ b \in {a, b}
  OBVIOUS
<1>12. <<a>> \o <<b>> = <<a, b>>
  BY <1>11, Joining
<1> QED BY <1>9, <1>10, <1>12 DEF Taken

LEMMA SshUpdateTaken ==
  ASSUME NEW t \in Targets, NEW e \in Events, NEW s \in Sound, t.kind = "ssh", Fits(t, e, s),
         e.op = "update"
  PROVE  Taken(SshUpdate(t, e), s)
<1> DEFINE u == e.user
           refs == LinuxGroups(t, e)
           needs == {Account(u)} \cup Required(refs)
           flags == {Attrs(u)}
<1>1. u \in Users /\ e.rights \in Seq(Refs) /\ t.defaults \in Seq(Refs) /\ refs \in Seq(Refs)
  BY Event DEF LinuxGroups
<1>2. Refers(t, e) = e.rights
  BY DEF Refers, Sql
<1>3. /\ Account(u) \in s
      /\ Required(e.rights) \subseteq s /\ Malformed \notin Named(e.rights)
      /\ Required(t.defaults) \subseteq s /\ Malformed \notin Named(t.defaults)
  BY <1>2, FitsGives
<1>4. Required(refs) \subseteq s /\ Malformed \notin Named(refs)
  BY <1>1, <1>3, NamedCat DEF LinuxGroups
<1> HIDE DEF refs
<1>5. {} \cup Replaced(u, refs) = Replaced(u, refs)
  OBVIOUS
<1>6. SshUpdate(t, e) = <<Write(needs, {}, flags \cup Joined(u, refs), {} \cup Replaced(u, refs))>>
  BY <1>4, <1>5 DEF SshUpdate, refs
<1>7. needs \subseteq s /\ flags \subseteq Flags(u) /\ {} \subseteq Flags(u)
  BY <1>3, <1>4 DEF Flags
<1> HIDE DEF needs, flags
<1>8. Taken(<<Write(needs, {}, flags \cup Joined(u, refs), {} \cup Replaced(u, refs))>>, s)
  BY <1>1, <1>3, <1>4, <1>7, JoinsTaken
<1> QED BY <1>6, <1>8

LEMMA SshTaken ==
  ASSUME NEW t \in Targets, NEW e \in Events, NEW s \in Sound, t.kind = "ssh", Fits(t, e, s)
  PROVE  Taken(SshPlan(t, e), s)
<1> DEFINE u == e.user
<1>1. /\ u \in Users /\ e.given = "all"
      /\ e.op \in {"create", "update", "delete", "disable", "enable", "changePassword"}
      /\ e.op # "create" => Account(u) \in s
      /\ e.op = "enable" => Password(u) \in s
  BY Event, FitsGives DEF Served
<1>2. CASE e.op = "create"
  BY <1>1, <1>2, SshCreateTaken DEF SshPlan
<1>3. CASE e.op = "update"
  BY <1>1, <1>3, SshUpdateTaken DEF SshPlan
<1>4. /\ {Active(u), Valid(u)} \subseteq Flags(u) /\ {Active(u), Valid(u)} \subseteq Flags(u) \cup RightsOf(u)
      /\ {} \subseteq Flags(u)
      /\ {Password(u), Active(u)} \subseteq Flags(u) /\ {} \subseteq Flags(u) \cup RightsOf(u)
  BY DEF Flags
<1>5. ASSUME Account(u) \in s PROVE Taken(SshDisable(u), s)
  <2> DEFINE needs == {Account(u)}
  <2>1. needs \subseteq s
    BY <1>5
  <2> HIDE DEF needs
  <2>2. Taken(<<Write(needs, {}, {}, {Active(u), Valid(u)})>>, s)
    BY <1>1, <1>4, <2>1, TakenFlags
  <2> QED BY <2>2 DEF SshDisable, needs
<1>6. CASE e.op = "delete"
  <2>1. CASE t.physical
    <3> DEFINE needs == {Account(u)}
    <3>1. needs \subseteq s
      BY <1>1, <1>6
    <3> HIDE DEF needs
    <3>2. Taken(<<Write(needs, {}, {}, UserFacts(u))>>, s)
      BY <1>1, <3>1, TakenDrop
    <3> QED BY <1>1, <1>6, <2>1, <3>2 DEF SshPlan, needs
  <2>2. CASE ~t.physical
    BY <1>1, <1>5, <1>6, <2>2 DEF SshPlan
  <2> QED BY <2>1, <2>2
<1>7. CASE e.op = "disable"
  BY <1>1, <1>5, <1>7 DEF SshPlan
<1>8. CASE e.op = "enable"
  <2> DEFINE needs == {Account(u), Password(u)}
  <2>1. needs \subseteq s
    BY <1>1, <1>8
  <2> HIDE DEF needs
  <2>2. Taken(<<Write(needs, {}, {Active(u), Valid(u)}, {})>>, s)
    BY <1>1, <1>4, <2>1, TakenFlags
  <2> QED BY <1>1, <1>8, <2>2 DEF SshPlan, SshEnable, needs
<1>9. CASE e.op = "changePassword"
  <2> DEFINE needs == {Account(u)}
             add == {Password(u), Active(u)}
  <2>1. needs \subseteq s /\ add \subseteq Flags(u)
    BY <1>1, <1>4, <1>9
  <2> HIDE DEF needs, add
  <2>2. Taken(<<Write(needs, {}, add, {})>>, s)
    BY <1>1, <1>4, <2>1, TakenFlags
  <2> QED BY <1>1, <1>9, <2>2 DEF SshPlan, Chpasswd, needs, add
<1> QED BY <1>1, <1>2, <1>3, <1>6, <1>7, <1>8, <1>9

LEMMA AgentTaken ==
  ASSUME NEW t \in Targets, NEW e \in Events, NEW s \in Sound, t.kind = "agent", Fits(t, e, s)
  PROVE  Taken(AgentPlan(t, e), s)
<1> DEFINE u == e.user
           refs == e.rights
<1>1. /\ u \in Users /\ e.given = "all" /\ refs \in Seq(Refs)
      /\ e.op \in {"create", "update", "delete", "disable", "enable", "changePassword"}
      /\ e.op # "create" => Account(u) \in s
  BY Event, FitsGives DEF Served
<1>2. AgentPlan(t, e) = <<AgentRequest(t, e)>>
  BY <1>1 DEF AgentPlan
<1>3. CASE e.op = "create"
  <2> DEFINE needs == Required(refs)
             off == Off(e)
  <2>1. Refers(t, e) = refs
    BY <1>3 DEF Refers, Sql, Describing
  <2>2. Account(u) \notin s /\ needs \subseteq s /\ Required(refs) \subseteq s
    BY <1>3, <2>1, FitsGives
  <2>3. off \subseteq {Active(u)}
    BY FlagsIn
  <2> HIDE DEF needs, off
  <2>4. \E n \in Sound :
          Leads(<<Write(needs, {Account(u)},
                        ({Account(u), Active(u), Attrs(u), Password(u)} \ off) \cup Joined(u, refs), off)>>, s, n)
    BY <1>1, <2>2, <2>3, LeadsMade
  <2> QED BY <1>2, <1>3, <2>4 DEF AgentRequest, Taken, needs, off
<1>4. ASSUME e.op # "create", NEW add, add \subseteq Flags(u), NEW del, del \subseteq Flags(u)
      PROVE  Taken(<<AgentUser(u, add, del)>>, s)
  <2> DEFINE needs == {Account(u)}
  <2>1. needs \subseteq s /\ del \subseteq Flags(u) \cup RightsOf(u)
    BY <1>1, <1>4
  <2> HIDE DEF needs
  <2>2. Taken(<<Write(needs, {}, add, del)>>, s)
    BY <1>1, <1>4, <2>1, TakenFlags
  <2> QED BY <2>2 DEF needs, AgentUser
<1>5. /\ {Active(u)} \subseteq Flags(u) /\ {Attrs(u)} \subseteq Flags(u) /\ {} \subseteq Flags(u)
      /\ {Password(u)} \subseteq Flags(u)
  BY DEF Flags
<1>6. CASE e.op = "update"
  <2> DEFINE needs == {Account(u)} \cup Required(refs)
             flags == {Attrs(u)} \cup On(e)
             less == Off(e)
  <2>1. Refers(t, e) = refs
    BY <1>6 DEF Refers, Sql, Describing
  <2>2. Account(u) \in s /\ needs \subseteq s /\ Required(refs) \subseteq s
    BY <1>1, <1>6, <2>1, FitsGives
  <2>3. flags \subseteq Flags(u) /\ less \subseteq Flags(u)
    BY <1>5, FlagsIn
  <2> HIDE DEF needs, flags, less
  <2>4. Taken(<<Write(needs, {}, flags \cup Joined(u, refs), less \cup Replaced(u, refs))>>, s)
    BY <1>1, <2>2, <2>3, JoinsTaken
  <2> QED BY <1>2, <1>6, <2>4 DEF AgentRequest, needs, flags, less
<1>7. CASE e.op = "delete"
  <2>1. CASE t.physical
    <3> DEFINE needs == {Account(u)}
    <3>1. needs \subseteq s
      BY <1>1, <1>7
    <3> HIDE DEF needs
    <3>2. Taken(<<Write(needs, {}, {}, UserFacts(u))>>, s)
      BY <1>1, <3>1, TakenDrop
    <3> QED BY <1>2, <1>7, <2>1, <3>2 DEF AgentRequest, AgentUser, needs
  <2>2. CASE ~t.physical
    <3>1. Taken(<<AgentUser(u, {}, {Active(u)})>>, s)
      BY <1>4, <1>5, <1>7
    <3> QED BY <1>2, <1>7, <2>2, <3>1 DEF AgentRequest
  <2> QED BY <2>1, <2>2
<1>8. CASE e.op = "enable"
  <2>1. Taken(<<AgentUser(u, {Active(u)}, {})>>, s)
    BY <1>4, <1>5, <1>8
  <2> QED BY <1>2, <1>8, <2>1 DEF AgentRequest
<1>9. CASE e.op = "disable"
  <2>1. Taken(<<AgentUser(u, {}, {Active(u)})>>, s)
    BY <1>4, <1>5, <1>9
  <2> QED BY <1>2, <1>9, <2>1 DEF AgentRequest
<1>10. CASE e.op = "changePassword"
  <2>1. Taken(<<AgentUser(u, {Password(u)}, {})>>, s)
    BY <1>4, <1>5, <1>10
  <2> QED BY <1>2, <1>10, <2>1 DEF AgentRequest
<1> QED BY <1>1, <1>3, <1>6, <1>7, <1>8, <1>9, <1>10
-----------------------------------------------------------------------------
\* A look and the write that rests on it.
LEMMA TakenLook ==
  ASSUME NEW s \in Sound, NEW first, first \subseteq s, NEW of, NEW needs, needs \subseteq s,
         NEW add, NEW del, (s \ del) \cup add \in Sound
  PROVE  Taken(<<Read(first, of), Put(needs, of, add, del)>>, s)
<1>1. Leads(<<Read(first, of)>>, s, s)
  BY LeadsMarks
<1>2. {} \cap s = {}
  OBVIOUS
<1>3. Leads(<<Put(needs, of, add, del)>>, s, (s \ del) \cup add)
  BY <1>2, LeadsWrite
<1>4. Leads(<<Read(first, of), Put(needs, of, add, del)>>, s, (s \ del) \cup add)
  BY <1>1, <1>3, LeadsTwo
<1> QED BY <1>4 DEF Taken

LEMMA CmdbuildCreateTaken ==
  ASSUME NEW t \in Targets, NEW e \in Events, NEW s \in Sound, t.kind = "cmdbuild", Fits(t, e, s),
         e.op = "create", ~Overlooks(t, e)
  PROVE  Taken(CmdbuildCreate(t, e), s)
<1> DEFINE u == e.user
           S == RequestsOn(Facts)
           refs == CmdbuildGroups(t, e)
           needs == Required(refs)
           absent == {Account(u)}
           off == Off(e)
           add == ({Account(u), Active(u), Attrs(u), Password(u)} \ off) \cup Joined(u, refs)
           post == Write(needs, absent, add, off)
           look == IF refs = <<>> \/ ~t.byName THEN <<>> ELSE <<Read(Looked(refs), {})>>
<1>1. u \in Users /\ refs \in Seq(Refs)
  BY Event DEF CmdbuildGroups
<1>2. Refers(t, e) = Asked(t, e)
  BY DEF Refers, Sql
<1>3. /\ e.given = "all" /\ Account(u) \notin s
      /\ Required(Asked(t, e)) \subseteq s /\ Malformed \notin Named(Asked(t, e))
      /\ Required(t.defaults) \subseteq s /\ Malformed \notin Named(t.defaults)
  BY <1>2, FitsGives
<1>4. Required(refs) \subseteq s /\ Malformed \notin Named(refs)
  BY <1>3 DEF CmdbuildGroups
<1>5. CmdbuildCreate(t, e) = look \o <<post>>
  BY <1>3, <1>4 DEF CmdbuildCreate, Known
<1>o. t.byName => Named(refs) \cap Unlisted = {}
  BY DEF Overlooks
<1> HIDE DEF refs
<1>6. Joined(u, refs) \subseteq UserFacts(u) /\ off \subseteq {Active(u)}
  BY <1>1, <1>4, NewFacts, FlagsIn
<1>8. look \in Seq(S)
  <2>1. Looked(refs) \in SUBSET Facts /\ {} \in SUBSET Facts
    BY <1>1, LookedIn
  <2>2. Read(Looked(refs), {}) \in Simple
    BY <2>1, ReadDoes
  <2>3. Read(Looked(refs), {}) \in S
    BY <2>2 DEF Simple
  <2> QED BY <2>3, WritingSeq
<1>9. Leads(look, s, s)
  <2>1. (refs = <<>> \/ ~t.byName) \in BOOLEAN
    OBVIOUS
  <2> QED BY <1>4, <1>o, <2>1, LeadsLook
<1>10. <<post>> \in Seq(S)
  <2>1. absent \subseteq Facts /\ add \subseteq Facts /\ needs \subseteq Facts /\ off \subseteq Facts
    BY <1>1, <1>6, FactSets, Refs1
  <2> HIDE DEF needs, add, absent, off
  <2>2. post \in Writing
    BY <2>1, WriteIs
  <2> QED BY <2>2, WritingSeq DEF Writing
<1>n. needs \subseteq s
  BY <1>4
<1> HIDE DEF needs, off
<1>11. PICK n : Leads(<<post>>, s, n)
  <2>1. \E n \in Sound :
          Leads(<<Write(needs, {Account(u)},
                        ({Account(u), Active(u), Attrs(u), Password(u)} \ off) \cup Joined(u, refs), off)>>, s, n)
    BY <1>1, <1>3, <1>4, <1>6, <1>n, LeadsMade
  <2> QED BY <2>1
<1> HIDE DEF look, post
<1>12. Leads(look \o <<post>>, s, n)
  BY <1>8, <1>9, <1>10, <1>11, LeadsCat
<1> QED BY <1>5, <1>12 DEF Taken

LEMMA CmdbuildTaken ==
  ASSUME NEW t \in Targets, NEW e \in Events, NEW s \in Sound, t.kind = "cmdbuild", Fits(t, e, s),
         ~Overlooks(t, e)
  PROVE  Taken(CmdbuildPlan(t, e), s)
<1> DEFINE u == e.user
           g == e.group
           needs == {Account(u)}
<1>1. /\ u \in Users /\ g \in Refs /\ e.given = "all"
      /\ e.op \in {"create", "update", "delete", "disable", "enable", "changePassword", "addMember",
                   "removeMember"}
      /\ e.op # "create" => Account(u) \in s
      /\ e.op \in {"addMember", "removeMember"} => Group(g) \in s
  BY Event, FitsGives DEF Served
<1>2. CASE e.op = "create"
  BY <1>2, CmdbuildCreateTaken DEF CmdbuildPlan
<1>3. ASSUME e.op # "create", NEW add, NEW del, (s \ del) \cup add \in Sound
      PROVE  Taken(CmdbuildCard(u, add, del), s)
  <2>1. needs \subseteq s
    BY <1>1, <1>3
  <2> HIDE DEF needs
  <2>2. Taken(<<Read(needs, UserCard(u)), Put(needs, UserCard(u), add, del)>>, s)
    BY <1>3, <2>1, TakenLook
  <2> QED BY <2>2 DEF CmdbuildCard, PutMerged, needs
<1>4. ASSUME NEW add, add \subseteq Flags(u), NEW del, del \subseteq Flags(u) \cup RightsOf(u)
      PROVE  (s \ del) \cup add \in Sound
  <2>1. {} \subseteq s
    OBVIOUS
  <2> QED BY <1>1, <1>4, <2>1, LeadsFlags
<1>5. /\ {Active(u)} \subseteq Flags(u) /\ {Attrs(u)} \subseteq Flags(u) /\ {} \subseteq Flags(u)
      /\ {Password(u)} \subseteq Flags(u) /\ {} \subseteq Flags(u) \cup RightsOf(u)
      /\ {Active(u)} \subseteq Flags(u) \cup RightsOf(u)
      /\ {Right(u, g)} \subseteq Flags(u) \cup RightsOf(u)
  BY <1>1, Distinct DEF Flags
<1>6. CASE e.op = "update"
  <2> DEFINE add == {Attrs(u)} \cup On(e)
             del == Off(e)
  <2>0. add \subseteq Flags(u) /\ del \subseteq Flags(u) \cup RightsOf(u)
    BY <1>5, FlagsIn
  <2>1. (s \ del) \cup add \in Sound
    BY <1>4, <2>0
  <2>2. Taken(CmdbuildCard(u, add, del), s)
    BY <1>3, <1>6, <2>1
  <2> QED BY <1>1, <1>6, <2>2 DEF CmdbuildPlan, CmdbuildUser
<1>7. CASE e.op = "enable"
  <2>1. (s \ {}) \cup {Active(u)} \in Sound
    BY <1>4, <1>5
  <2>2. Taken(CmdbuildCard(u, {Active(u)}, {}), s)
    BY <1>3, <1>7, <2>1
  <2> QED BY <1>1, <1>7, <2>2 DEF CmdbuildPlan, CmdbuildUser
<1>8. CASE e.op \in {"disable", "delete"}
  <2>1. (s \ {Active(u)}) \cup {} \in Sound
    BY <1>4, <1>5
  <2>2. Taken(CmdbuildCard(u, {}, {Active(u)}), s)
    BY <1>3, <1>8, <2>1
  <2> QED BY <1>1, <1>8, <2>2 DEF CmdbuildPlan, CmdbuildUser
<1>9. CASE e.op = "changePassword"
  <2>1. (s \ {}) \cup {Password(u)} \in Sound
    BY <1>4, <1>5
  <2>2. Taken(CmdbuildCard(u, {Password(u)}, {}), s)
    BY <1>3, <1>9, <2>1
  <2> QED BY <1>1, <1>9, <2>2 DEF CmdbuildPlan, CmdbuildUser
<1>10. CASE e.op = "addMember"
  <2>1. (s \ {}) \cup {Right(u, g)} \in Sound
    BY <1>1, <1>10, SoundJoins
  <2>2. Taken(CmdbuildCard(u, {Right(u, g)}, {}), s)
    BY <1>3, <1>10, <2>1
  <2> QED BY <1>1, <1>10, <2>2 DEF CmdbuildPlan, CmdbuildMember
<1>11. CASE e.op = "removeMember"
  <2>1. (s \ {Right(u, g)}) \cup {} \in Sound
    BY <1>4, <1>5
  <2>2. Taken(CmdbuildCard(u, {}, {Right(u, g)}), s)
    BY <1>3, <1>11, <2>1
  <2> QED BY <1>1, <1>11, <2>2 DEF CmdbuildPlan, CmdbuildMember
<1> QED BY <1>1, <1>2, <1>6, <1>7, <1>8, <1>9, <1>10, <1>11

-----------------------------------------------------------------------------
LEMMA AfterLogin ==
  ASSUME NEW t, NEW p \in Seq(RequestsOn(Facts)), NEW s \in Sound, Taken(p, s)
  PROVE  Taken(ZabbixLogin(t) \o p, s)
<1> DEFINE S == RequestsOn(Facts)
           login == ZabbixLogin(t)
<1>1. {} \in SUBSET Facts /\ {} \subseteq s
  OBVIOUS
<1>2. Read({}, {}) \in Simple
  BY <1>1, ReadDoes
<1>3. Read({}, {}) \in S
  BY <1>2 DEF Simple
<1>4. login \in Seq(S)
  BY <1>3, WritingSeq DEF ZabbixLogin
<1>5. Leads(login, s, s)
  BY <1>1, LeadsNone, LeadsMarks DEF ZabbixLogin
<1> HIDE DEF login
<1>6. PICK n : Leads(p, s, n)
  BY DEF Taken
<1>7. Leads(login \o p, s, n)
  BY <1>4, <1>5, <1>6, LeadsCat
<1> QED BY <1>7 DEF Taken, login

LEMMA ZabbixCallTaken ==
  ASSUME NEW t \in Targets, NEW e \in Events, NEW s \in Sound, t.kind = "zabbix", Fits(t, e, s),
         e.op \notin {"addMember", "removeMember"}
  PROVE  Taken(<<ZabbixCall(t, e)>>, s)
<1> DEFINE u == e.user
           refs == e.rights
<1>1. /\ u \in Users /\ e.given = "all" /\ refs \in Seq(Refs)
      /\ e.op \in {"create", "update", "delete", "disable", "enable", "changePassword"}
      /\ e.op # "create" => Account(u) \in s
  BY Event, FitsGives DEF Served
<1>2. CASE e.op = "create"
  <2> DEFINE needs == Required(refs)
             add == {Account(u), Active(u), Attrs(u), Password(u)} \cup Joined(u, refs)
  <2>1. Refers(t, e) = refs
    BY <1>2 DEF Refers, Sql, Describing
  <2>2. Account(u) \notin s /\ needs \subseteq s
    BY <1>2, <2>1, FitsGives
  <2>3. /\ add \subseteq UserFacts(u) /\ \A g \in Refs : Right(u, g) \in Joined(u, refs) => Group(g) \in s
        /\ \A g \in Refs : Right(u, g) \notin {Account(u), Active(u), Attrs(u), Password(u), Valid(u)}
    BY <1>1, <2>2, NewFacts
  <2>4. Account(u) \in add /\ \A g \in Refs : Right(u, g) \in add => Group(g) \in s
    BY <2>3
  <2> HIDE DEF needs, add
  <2>5. Leads(<<Write(needs, {Account(u)}, add, {})>>, s, s \cup add)
    BY <1>1, <2>2, <2>3, <2>4, LeadsCreate
  <2> QED BY <1>1, <1>2, <2>5 DEF ZabbixCall, Known, Taken, needs, add
<1>3. ASSUME e.op # "create", NEW add, add \subseteq Flags(u),
             NEW del, del \subseteq Flags(u) \cup RightsOf(u)
      PROVE  Taken(<<Write({Account(u)}, {}, add, del)>>, s)
  <2> DEFINE needs == {Account(u)}
  <2>1. needs \subseteq s
    BY <1>1, <1>3
  <2> HIDE DEF needs
  <2>2. Taken(<<Write(needs, {}, add, del)>>, s)
    BY <1>1, <1>3, <2>1, TakenFlags
  <2> QED BY <2>2 DEF needs
<1>4. ASSUME NEW add, NEW del PROVE ZabbixUser(e, add, del) = Write({Account(u)}, {}, add, del)
  BY <1>1 DEF ZabbixUser, Known
<1>5. /\ {Active(u)} \subseteq Flags(u) /\ {Attrs(u)} \subseteq Flags(u) /\ {} \subseteq Flags(u)
      /\ {Password(u)} \subseteq Flags(u) /\ {} \subseteq Flags(u) \cup RightsOf(u)
      /\ {Active(u)} \cup RightsOf(u) \subseteq Flags(u) \cup RightsOf(u)
      /\ RightsOf(u) \subseteq Flags(u) \cup RightsOf(u)
  BY DEF Flags
<1>6. CASE e.op = "update"
  <2> DEFINE needs == {Account(u)} \cup Required(refs)
             blocks == IF refs = <<>> THEN {} ELSE {Active(u)}
             flags == {Attrs(u)} \cup blocks
  <2>1. Refers(t, e) = refs
    BY <1>6 DEF Refers, Sql, Describing
  <2>2. Account(u) \in s /\ needs \subseteq s /\ Required(refs) \subseteq s
    BY <1>1, <1>6, <2>1, FitsGives
  <2>3. flags \subseteq Flags(u) /\ {} \subseteq Flags(u)
    BY <1>5
  <2>4. /\ flags \cup Joined(u, refs) = {Attrs(u)} \cup Joined(u, refs) \cup blocks
        /\ {} \cup Replaced(u, refs) = Replaced(u, refs)
    OBVIOUS
  <2>5. ZabbixCall(t, e) = Write(needs, {}, flags \cup Joined(u, refs), {} \cup Replaced(u, refs))
    BY <1>1, <1>6, <2>4 DEF ZabbixCall, Known
  <2> HIDE DEF needs, flags
  <2>6. Taken(<<Write(needs, {}, flags \cup Joined(u, refs), {} \cup Replaced(u, refs))>>, s)
    BY <1>1, <2>2, <2>3, JoinsTaken
  <2> QED BY <2>5, <2>6
<1>7. CASE e.op = "delete"
  <2> DEFINE needs == {Account(u)}
  <2>1. needs \subseteq s
    BY <1>1, <1>7
  <2> HIDE DEF needs
  <2>2. Taken(<<Write(needs, {}, {}, UserFacts(u))>>, s)
    BY <1>1, <2>1, TakenDrop
  <2> QED BY <1>4, <1>7, <2>2 DEF ZabbixCall, needs
<1>8. CASE e.op = "enable"
  <2>1. Taken(<<Write({Account(u)}, {}, {Active(u)}, RightsOf(u))>>, s)
    BY <1>3, <1>5, <1>8
  <2> QED BY <1>4, <1>8, <2>1 DEF ZabbixCall
<1>9. CASE e.op = "disable"
  <2>1. Taken(<<Write({Account(u)}, {}, {}, {Active(u)} \cup RightsOf(u))>>, s)
    BY <1>3, <1>5, <1>9
  <2> QED BY <1>4, <1>9, <2>1 DEF ZabbixCall
<1>10. CASE e.op = "changePassword"
  <2>1. Taken(<<Write({Account(u)}, {}, {Password(u)}, {})>>, s)
    BY <1>3, <1>5, <1>10
  <2> QED BY <1>1, <1>10, <2>1 DEF ZabbixCall
<1> QED BY <1>1, <1>2, <1>6, <1>7, <1>8, <1>9, <1>10

LEMMA ZabbixTaken ==
  ASSUME NEW t \in Targets, NEW e \in Events, NEW s \in Sound, t.kind = "zabbix", Fits(t, e, s)
  PROVE  Taken(ZabbixPlan(t, e), s)
<1> DEFINE u == e.user
           g == e.group
           of == MembersOf(g)
           S == RequestsOn(Facts)
<1>1. /\ u \in Users /\ g \in Refs /\ e.given = "all"
      /\ e.op # "create" => Account(u) \in s
      /\ e.op \in {"addMember", "removeMember"} => Group(g) \in s
  BY Event, FitsGives
<1>2. CASE e.op \notin {"addMember", "removeMember"}
  <2> DEFINE p == <<ZabbixCall(t, e)>>
  <2>1. ZabbixCall(t, e) \in Simple
    BY <1>2, ZabbixCalls
  <2>2. p \in Seq(S)
    BY <2>1, WritingSeq DEF Simple
  <2>3. Taken(p, s)
    BY <1>2, ZabbixCallTaken
  <2> HIDE DEF p
  <2>4. Taken(ZabbixLogin(t) \o p, s)
    BY <2>2, <2>3, AfterLogin
  <2> QED BY <1>2, <2>4 DEF ZabbixPlan, p
<1>3. of \subseteq Facts
  BY <1>1, FactSets
<1> HIDE DEF of
<1>4. ASSUME NEW needs, needs \subseteq s, NEW add \in SUBSET Facts, NEW del \in SUBSET Facts,
             (s \ del) \cup add \in Sound
      PROVE  Taken(ZabbixLogin(t) \o <<Read({}, of), Put(needs, of, add, del)>>, s)
  <2> DEFINE p == <<Read({}, of), Put(needs, of, add, del)>>
  <2>1. {} \in SUBSET Facts /\ {} \subseteq s /\ needs \subseteq Facts
    BY <1>4 DEF Sound
  <2>2. Read({}, of) \in Simple /\ Put(needs, of, add, del) \in Simple
    BY <1>3, <2>1, ReadDoes, PutIs
  <2>3. p \in Seq(S)
    BY <2>2, Pair DEF Simple
  <2>4. Taken(p, s)
    BY <1>4, <2>1, TakenLook
  <2> HIDE DEF p
  <2>5. Taken(ZabbixLogin(t) \o p, s)
    BY <2>3, <2>4, AfterLogin
  <2> QED BY <2>5 DEF p
<1>5. {Right(u, g)} \in SUBSET Facts /\ {} \in SUBSET Facts
  BY <1>1, FactSets
<1>6. CASE e.op = "addMember"
  <2> DEFINE needs == {Group(g), Account(u)}
  <2>1. needs \subseteq s /\ (s \ {}) \cup {Right(u, g)} \in Sound
    BY <1>1, <1>6, SoundJoins
  <2> HIDE DEF needs
  <2>2. Taken(ZabbixLogin(t) \o <<Read({}, of), Put(needs, of, {Right(u, g)}, {})>>, s)
    BY <1>4, <1>5, <2>1
  <2> QED BY <1>1, <1>6, <2>2 DEF ZabbixPlan, ZabbixMember, of, needs
<1>7. CASE e.op = "removeMember"
  <2> DEFINE needs == {Group(g)}
             del == {Right(u, g)}
  <2>1. /\ needs \subseteq s /\ {} \subseteq s /\ {} \subseteq Flags(u)
        /\ del \subseteq Flags(u) \cup RightsOf(u)
    BY <1>1, <1>7, Distinct
  <2>2. del \in SUBSET Facts
    BY <1>5
  <2> HIDE DEF needs, del
  <2>3. (s \ del) \cup {} \in Sound
    BY <1>1, <2>1, LeadsFlags
  <2>4. Taken(ZabbixLogin(t) \o <<Read({}, of), Put(needs, of, {}, del)>>, s)
    BY <1>4, <1>5, <2>1, <2>2, <2>3
  <2> QED BY <1>1, <1>7, <2>4 DEF ZabbixPlan, ZabbixMember, of, needs, del
<1> QED BY <1>2, <1>6, <1>7
-----------------------------------------------------------------------------
\* Reads, polls and redirects that a target in any state answers.
Answered == {x \in RequestsOn(Facts) : /\ x.kind \in {"read", "poll", "follow"}
                                       /\ x.needs = {} /\ x.absent = {}}

LEMMA LevelCourse ==
  ASSUME NEW a \in Seq(Answered),
         NEW r, NEW s \in Sound, Suits(r, s), Then(r, s) \in Sound
  PROVE  \E c : Course(a \o <<r>>, c) /\ Level(a \o <<r>>, c) /\ c[1] = s
<1> DEFINE p == a \o <<r>>
           k == Len(a)
           n == Then(r, s)
           c == [i \in 1 .. k + 2 |-> IF i <= k + 1 THEN s ELSE n]
<1>1. /\ k \in Nat /\ Len(p) = k + 1 /\ DOMAIN p = 1 .. k + 1 /\ p[k + 1] = r
      /\ \A i \in 1 .. k : p[i] = a[i]
  OBVIOUS
<1>2. \A i \in 1 .. k : a[i].kind \in {"read", "poll", "follow"} /\ a[i].needs = {} /\ a[i].absent = {}
  BY DEF Answered
<1> HIDE DEF p, k
<1>3. n \in Sound
  OBVIOUS
<1> HIDE DEF n
<1>4. \A i \in 1 .. k + 2 : c[i] \in Sound
  BY <1>1, <1>3
<1>5. c \in Seq(Sound) /\ Len(c) = k + 2
  BY <1>1, <1>4, IsASeq
<1>6. \A i \in 1 .. k + 1 : c[i] = s
  BY <1>1
<1>7. c[k + 2] = n
  BY <1>1
<1> HIDE DEF c
<1>8. ASSUME NEW i \in DOMAIN p PROVE Suits(p[i], c[i]) /\ c[i + 1] = Then(p[i], c[i])
  <2>1. CASE i = k + 1
    <3>1. p[i] = r /\ c[i] = s /\ c[i + 1] = n
      BY <1>1, <1>6, <1>7, <2>1
    <3> QED BY <3>1 DEF n
  <2>2. CASE i \in 1 .. k
    <3>1. p[i] = a[i] /\ c[i] = s /\ c[i + 1] = s
      BY <1>1, <1>6, <2>2
    <3>2. p[i].kind \in {"read", "poll", "follow"} /\ p[i].needs = {} /\ p[i].absent = {}
      BY <1>2, <2>2, <3>1
    <3>3. Puts(p[i]) = {} /\ Takes(p[i]) = {}
      BY <3>2 DEF Puts, Takes
    <3> QED BY <3>1, <3>2, <3>3 DEF Suits, Then
  <2> QED BY <1>1, <2>1, <2>2
<1>9. Len(c) = Len(p) + 1
  BY <1>1, <1>5
<1>10. Course(p, c)
  BY <1>5, <1>8, <1>9 DEF Course
<1>11. Level(p, c)
  BY <1>1, <1>6 DEF Level
<1>12. c[1] = s
  BY <1>1, <1>6
<1> QED BY <1>10, <1>11, <1>12 DEF p

LEMMA TakenSuits ==
  ASSUME NEW r, NEW s, Taken(<<r>>, s)
  PROVE  Suits(r, s) /\ Then(r, s) \in Sound
<1>1. PICK c : Course(<<r>>, c) /\ c[1] = s
  BY DEF Taken, Leads
<1>2. DOMAIN <<r>> = {1} /\ <<r>>[1] = r /\ Len(<<r>>) = 1 /\ 1 + 1 = 2
  OBVIOUS
<1>3. c \in Seq(Sound) /\ Len(c) = 2 /\ Suits(r, c[1]) /\ c[2] = Then(r, c[1])
  BY <1>1, <1>2 DEF Course
<1>4. c[2] \in Sound
  BY <1>3
<1> QED BY <1>1, <1>3, <1>4

LEMMA ConsultantCallTaken ==
  ASSUME NEW t \in Targets, NEW e \in Events, NEW s \in Sound, t.kind = "consultant", Fits(t, e, s)
  PROVE  Taken(<<ConsultantCall(e)>>, s)
<1> DEFINE u == e.user
<1>1. /\ u \in Users
      /\ e.op \in {"create", "update", "delete", "disable", "changePassword"}
      /\ e.op = "create" => Account(u) \notin s
      /\ e.op # "create" => Account(u) \in s
  BY Event, FitsGives DEF Served
<1>2. CASE e.op = "create"
  <2> DEFINE add == {Account(u), Active(u), Attrs(u), Password(u)}
  <2>1. <<>> \in Seq(Refs) /\ Required(<<>>) \subseteq s
    BY DEF Required, Named
  <2>2. add \subseteq UserFacts(u) /\ \A g \in Refs : Right(u, g) \notin add
    BY <1>1, <2>1, NewFacts
  <2>3. Account(u) \in add /\ {} \subseteq s
    OBVIOUS
  <2> HIDE DEF add
  <2>4. Leads(<<Write({}, {Account(u)}, add, {})>>, s, s \cup add)
    BY <1>1, <1>2, <2>2, <2>3, LeadsCreate
  <2> QED BY <1>2, <2>4 DEF ConsultantCall, Taken, add
<1>3. ASSUME e.op # "create", NEW add, add \subseteq Flags(u), NEW del, del \subseteq Flags(u)
      PROVE  Taken(<<Write({Account(u)}, {}, add, del)>>, s)
  <2> DEFINE needs == {Account(u)}
  <2>1. needs \subseteq s /\ del \subseteq Flags(u) \cup RightsOf(u)
    BY <1>1, <1>3
  <2> HIDE DEF needs
  <2>2. Taken(<<Write(needs, {}, add, del)>>, s)
    BY <1>1, <1>3, <2>1, TakenFlags
  <2> QED BY <2>2 DEF needs
<1>4. /\ {Active(u)} \subseteq Flags(u) /\ {Attrs(u)} \subseteq Flags(u) /\ {} \subseteq Flags(u)
      /\ {Attrs(u), Password(u)} \subseteq Flags(u)
  BY DEF Flags
<1>5. CASE e.op \in {"update", "changePassword"}
  <2>1. Taken(<<Write({Account(u)}, {}, {Attrs(u), Password(u)}, {})>>, s)
    BY <1>3, <1>4, <1>5
  <2> QED BY <1>5, <2>1 DEF ConsultantCall
<1>6. CASE e.op = "delete"
  <2> DEFINE needs == {Account(u)}
  <2>1. needs \subseteq s
    BY <1>1, <1>6
  <2> HIDE DEF needs
  <2>2. Taken(<<Write(needs, {}, {}, UserFacts(u))>>, s)
    BY <1>1, <2>1, TakenDrop
  <2> QED BY <1>6, <2>2 DEF ConsultantCall, needs
<1>7. CASE e.op = "disable"
  <2>1. Taken(<<Write({Account(u)}, {}, {}, {Active(u)})>>, s)
    BY <1>3, <1>4, <1>7
  <2> QED BY <1>7, <2>1 DEF ConsultantCall
<1> QED BY <1>1, <1>2, <1>5, <1>6, <1>7

LEMMA ConsultantPasses ==
  ASSUME NEW t \in Targets, NEW e \in Events, NEW s \in Sound, t.kind = "consultant", Fits(t, e, s)
  PROVE  \E c : Course(ConsultantPlan(t, e), c) /\ Level(ConsultantPlan(t, e), c) /\ c[1] = s
<1> DEFINE polls == [i \in 1 .. PollAttempts + 1 |-> Bare("poll")]
           r == ConsultantCall(e)
<1>1. e.given = "no password" /\ t.session /\ e.user # Operator /\ e.op \in ConsultantOps
  BY FitsGives DEF Served, ConsultantOps
<1>2. ConsultantPlan(t, e) = ConsultantLogin(t) \o <<r>>
  BY <1>1 DEF ConsultantPlan, ConsultantInvalid, ConsultantOps
<1>3. Read({}, {}) \in Answered /\ Bare("poll") \in Answered /\ Bare("follow") \in Answered
  BY DEF Read, Bare, RequestsOn, Answered
<1>4. PollAttempts + 1 \in Nat
  BY PollAssumption
<1>5. ConsultantLogin(t) \in Seq(Answered)
  <2>1. polls \in Seq(Answered)
    BY <1>3, <1>4, IsASeq
  <2> HIDE DEF polls
  <2>2. <<Read({}, {})>> \in Seq(Answered) /\ <<Bare("follow")>> \in Seq(Answered)
    BY <1>3, Short
  <2>3. polls \o <<Bare("follow")>> \in Seq(Answered)
    BY <2>1, <2>2, Cat
  <2>4. <<Read({}, {})>> \o (polls \o <<Bare("follow")>>) \in Seq(Answered)
    BY <2>2, <2>3, Cat
  <2>5. ConsultantLogin(t) = <<Read({}, {})>> \o (polls \o <<Bare("follow")>>)
    BY <1>1 DEF ConsultantLogin, polls
  <2> QED BY <2>4, <2>5
<1>6. Suits(r, s) /\ Then(r, s) \in Sound
  BY ConsultantCallTaken, TakenSuits
<1> DEFINE a == ConsultantLogin(t)
<1>7. a \in Seq(Answered)
  BY <1>5
<1> HIDE DEF r, a
<1>8. \E c : Course(a \o <<r>>, c) /\ Level(a \o <<r>>, c) /\ c[1] = s
  BY <1>6, <1>7, LevelCourse
<1> QED BY <1>2, <1>8 DEF a

\* Whatever the connector, a fitting event sends requests that its target takes one
\* after the other, as long as nobody else changes it.
Passes(p, s) == \E c : Course(p, c) /\ Level(p, c) /\ c[1] = s

LEMMA PlansPass ==
  ASSUME NEW t \in Targets, NEW e \in Events, NEW s \in Sound, Fits(t, e, s), ~Overlooks(t, e)
  PROVE  Passes(Plan(t, e), s)
<1> DEFINE p == Plan(t, e)
<1>1. CASE t.kind = "consultant"
  <2>1. Plan(t, e) = ConsultantPlan(t, e)
    BY <1>1 DEF Plan
  <2> QED BY <1>1, <2>1, ConsultantPasses DEF Passes
<1>2. CASE t.kind # "consultant"
  <2>1. Taken(p, s)
    <3>1. CASE t.kind = "cmdbuild"
      BY <3>1, CmdbuildTaken DEF Plan
    <3>2. CASE t.kind = "zabbix"
      BY <3>2, ZabbixTaken DEF Plan
    <3>3. CASE t.kind = "passwork"
      BY <3>3, PassworkTaken DEF Plan
    <3>4. CASE t.kind = "postgres"
      BY <3>4, PgTaken DEF Plan
    <3>5. CASE t.kind = "mssql"
      BY <3>5, MsTaken DEF Plan
    <3>6. CASE t.kind = "ssh"
      BY <3>6, SshTaken DEF Plan
    <3>7. CASE t.kind = "agent"
      BY <3>7, AgentTaken DEF Plan
    <3>8. t.kind \in Kinds
      BY DEF Targets
    <3> QED BY <1>2, <3>1, <3>2, <3>3, <3>4, <3>5, <3>6, <3>7, <3>8 DEF Kinds
  <2>2. PICK c : Course(p, c) /\ c[1] = s
    BY <2>1 DEF Taken, Leads
  <2>3. \A i \in DOMAIN p : p[i].kind # "poll"
    <3>1. Devised(t, e, p)
      BY PlansDevised
    <3> HIDE DEF p
    <3>2. Bracketed(p) \/ p \in Seq(Simple)
      BY <1>2, <3>1 DEF Devised
    <3>3. CASE Bracketed(p)
      <4>1. p \in Seq(RequestsOn(Facts))
        BY Plans DEF p
      <4>2. DOMAIN p = 1 .. Len(p)
        BY <4>1
      <4> QED BY <3>3, <4>1, <4>2 DEF Bracketed
    <3>4. CASE p \in Seq(Simple)
      BY <3>4 DEF Simple
    <3> QED BY <3>2, <3>3, <3>4
  <2> HIDE DEF p
  <2>4. Level(p, c)
    BY <2>3 DEF Level
  <2>5. Passes(p, s)
    BY <2>2, <2>4 DEF Passes
  <2> QED BY <2>5 DEF p
<1> QED BY <1>1, <1>2
-----------------------------------------------------------------------------
\* A request or a transaction that removes a group, an account or a database user
\* touches the memberships that rest on it.
Linked(x) ==
  \A u \in Users, g \in Refs :
    {Group(g), Account(u), Mapped(u)} \cap x.del # {} => Right(u, g) \in Touches(x)

LinkedRequests == {r \in RequestsOn(Facts) : Linked(r)}

LEMMA LinkedWrites ==
  ASSUME NEW needs, needs \subseteq Facts, NEW absent, absent \subseteq Facts, NEW add, add \subseteq Facts
  PROVE  /\ \A u \in Users : \A del : del \subseteq Flags(u) \cup RightsOf(u) =>
              Write(needs, absent, add, del) \in LinkedRequests
         /\ \A u \in Users : Write(needs, absent, add, UserFacts(u)) \in LinkedRequests
         /\ \A g \in Refs : Write(needs, absent, add, GroupFacts(g)) \in LinkedRequests
<1>1. ASSUME NEW del, del \subseteq Facts,
             \A v \in Users, h \in Refs : {Group(h), Account(v), Mapped(v)} \cap del # {} => Right(v, h) \in del
      PROVE  Write(needs, absent, add, del) \in LinkedRequests
  <2> DEFINE r == Write(needs, absent, add, del)
  <2>1. r \in Writing
    BY <1>1, WriteIs
  <2>2. r.del = del /\ r.add = add
    BY DEF Write
  <2> HIDE DEF r
  <2>3. Linked(r)
    BY <1>1, <2>2 DEF Linked, Touches
  <2>4. r \in LinkedRequests
    BY <2>1, <2>3 DEF LinkedRequests, Writing
  <2> QED BY <2>4 DEF r
<1>2. ASSUME NEW u \in Users, NEW del, del \subseteq Flags(u) \cup RightsOf(u)
      PROVE  Write(needs, absent, add, del) \in LinkedRequests
  <2>1. del \subseteq Facts
    BY <1>2, FactSets DEF Flags
  <2>2. ASSUME NEW v \in Users, NEW h \in Refs PROVE {Group(h), Account(v), Mapped(v)} \cap del = {}
    <3>1. {Account(v), Mapped(v)} \cap (Flags(u) \cup RightsOf(u)) = {}
      BY <2>2, Distinct
    <3>2. Group(h) \notin UserFacts(u) /\ Flags(u) \cup RightsOf(u) \subseteq UserFacts(u)
      BY <2>2, Distinct
    <3> QED BY <1>2, <3>1, <3>2
  <2> QED BY <1>1, <2>1, <2>2
<1>3. ASSUME NEW u \in Users PROVE Write(needs, absent, add, UserFacts(u)) \in LinkedRequests
  <2> DEFINE del == UserFacts(u)
  <2>1. del \subseteq Facts
    BY FactSets
  <2>2. ASSUME NEW v \in Users, NEW h \in Refs, {Group(h), Account(v), Mapped(v)} \cap del # {}
        PROVE  Right(v, h) \in del
    <3>1. Group(h) \notin del
      BY Distinct
    <3>2. u = v
      BY <2>2, <3>1, Distinct
    <3> QED BY <3>2, Distinct
  <2> HIDE DEF del
  <2>3. Write(needs, absent, add, del) \in LinkedRequests
    BY <1>1, <2>1, <2>2
  <2> QED BY <2>3 DEF del
<1>4. ASSUME NEW g \in Refs PROVE Write(needs, absent, add, GroupFacts(g)) \in LinkedRequests
  <2> DEFINE del == GroupFacts(g)
  <2>1. del \subseteq Facts
    BY FactSets
  <2>2. ASSUME NEW v \in Users, NEW h \in Refs, {Group(h), Account(v), Mapped(v)} \cap del # {}
        PROVE  Right(v, h) \in del
    <3>1. Account(v) \notin del /\ Mapped(v) \notin del
      BY DEF GroupFacts, MembersOf, Right, Group, Open, Account, Mapped
    <3>2. Group(h) \in GroupFacts(g)
      BY <2>2, <3>1
    <3>3. Group(h) \notin MembersOf(g) /\ Group(h) # Open(g)
      BY DEF MembersOf, Right, Group, Open
    <3>4. Group(h) = Group(g)
      BY <3>2, <3>3 DEF GroupFacts
    <3>5. h = g
      BY <3>4 DEF Group
    <3> QED BY <3>5, FactSets
  <2> HIDE DEF del
  <2>3. Write(needs, absent, add, del) \in LinkedRequests
    BY <1>1, <2>1, <2>2
  <2> QED BY <2>3 DEF del
<1> QED BY <1>2, <1>3, <1>4

LEMMA LinkedPieces ==
  ASSUME NEW u \in Users
  PROVE  /\ {Begin, Commit, Reject, Read({}, {})} \subseteq LinkedRequests
         /\ \A g \in Refs : PgGrant(u, g) \in LinkedRequests
         /\ \A refs \in Seq(Refs) : PgGrants(u, refs) \in Seq(LinkedRequests)
         /\ \A c \in {"none", "grant", "revoke", "deny", "outside"} : PgPermission(u, c) \in Seq(LinkedRequests)
         /\ \A on \in BOOLEAN : PgLogin(u, on) \in LinkedRequests
         /\ \A t : PgCreateRole(t, u) \in LinkedRequests
<1>1. {Begin, Commit, Reject, Read({}, {})} \subseteq LinkedRequests
  <2>1. {} \in SUBSET Facts
    OBVIOUS
  <2>2. Read({}, {}) \in RequestsOn(Facts) /\ Read({}, {}).del = {}
    BY <2>1, ReadDoes DEF Simple, Read, Bare
  <2>3. \A r \in {Begin, Commit, Reject} : r \in RequestsOn(Facts) /\ r.del = {}
    BY MarksDo DEF Begin, Commit, Reject, Bare
  <2> QED BY <2>2, <2>3 DEF LinkedRequests, Linked
<1>2. /\ {} \subseteq Facts /\ {} \subseteq Flags(u) \cup RightsOf(u) /\ {Account(u)} \subseteq Facts
      /\ {Permit(u)} \subseteq Facts /\ {Permit(u)} \subseteq Flags(u) \cup RightsOf(u)
      /\ {Active(u)} \subseteq Facts /\ {Active(u)} \subseteq Flags(u) \cup RightsOf(u)
      /\ {Account(u), Password(u)} \subseteq Facts
  BY FactSets DEF Flags
<1>3. ASSUME NEW needs, needs \subseteq Facts, NEW absent, absent \subseteq Facts, NEW add, add \subseteq Facts,
             NEW del, del \subseteq Flags(u) \cup RightsOf(u)
      PROVE  Write(needs, absent, add, del) \in LinkedRequests
  BY <1>3, LinkedWrites
<1>4. ASSUME NEW g \in Refs PROVE PgGrant(u, g) \in LinkedRequests
  <2> DEFINE needs == {Account(u), Group(g)}
             add == {Right(u, g)}
  <2>1. needs \subseteq Facts /\ add \subseteq Facts
    BY FactSets
  <2> HIDE DEF needs, add
  <2>2. Write(needs, {}, add, {}) \in LinkedRequests
    BY <1>2, <1>3, <2>1
  <2> QED BY <2>2 DEF PgGrant, needs, add
<1>5. ASSUME NEW refs \in Seq(Refs) PROVE PgGrants(u, refs) \in Seq(LinkedRequests)
  <2>1. Len(refs) \in Nat /\ \A i \in 1 .. Len(refs) : refs[i] \in Refs
    OBVIOUS
  <2>2. \A i \in 1 .. Len(refs) : PgGrant(u, refs[i]) \in LinkedRequests
    BY <1>4, <2>1
  <2> QED BY <2>1, <2>2, IsASeq DEF PgGrants
<1>6. ASSUME NEW c \in {"none", "grant", "revoke", "deny", "outside"} PROVE PgPermission(u, c) \in Seq(LinkedRequests)
  <2> DEFINE needs == {Account(u)}
             flag == {Permit(u)}
  <2>1. needs \subseteq Facts /\ flag \subseteq Facts /\ flag \subseteq Flags(u) \cup RightsOf(u)
    BY <1>2
  <2> HIDE DEF needs, flag
  <2>2. Write(needs, {}, flag, {}) \in LinkedRequests /\ Write(needs, {}, {}, flag) \in LinkedRequests
    BY <1>2, <1>3, <2>1
  <2>3. /\ <<Write(needs, {}, flag, {})>> \in Seq(LinkedRequests) /\ <<>> \in Seq(LinkedRequests)
        /\ <<Write(needs, {}, {}, flag)>> \in Seq(LinkedRequests)
    BY <2>2, Short
  <2> QED BY <2>3 DEF PgPermission, needs, flag
<1>7. ASSUME NEW on \in BOOLEAN PROVE PgLogin(u, on) \in LinkedRequests
  <2> DEFINE needs == {Account(u)}
             add == IF on THEN {Active(u)} ELSE {}
             del == IF on THEN {} ELSE {Active(u)}
  <2>1. needs \subseteq Facts /\ add \subseteq Facts /\ del \subseteq Flags(u) \cup RightsOf(u)
    BY <1>2
  <2> HIDE DEF needs, add, del
  <2>2. Write(needs, {}, add, del) \in LinkedRequests
    BY <1>2, <1>3, <2>1
  <2> QED BY <2>2 DEF PgLogin, needs, add, del
<1>8. ASSUME NEW t PROVE PgCreateRole(t, u) \in LinkedRequests
  <2> DEFINE absent == {Account(u)}
             add == {Account(u), Password(u)} \cup IF t.loginByDefault THEN {Active(u)} ELSE {}
  <2>1. absent \subseteq Facts /\ add \subseteq Facts
    BY <1>2
  <2> HIDE DEF absent, add
  <2>2. Write({}, absent, add, {}) \in LinkedRequests
    BY <1>2, <1>3, <2>1
  <2> QED BY <2>2 DEF PgCreateRole, absent, add
<1> QED BY <1>1, <1>4, <1>5, <1>6, <1>7, <1>8

LEMMA PgLinked ==
  ASSUME NEW t \in Targets, NEW e \in Events
  PROVE  PostgresRolePlan(t, e) \in Seq(LinkedRequests)
<1> DEFINE u == e.user
           g == e.group
           S == LinkedRequests
<1>1. /\ u \in Users /\ g \in Refs /\ Asked(t, e) \in Seq(Refs) /\ t.defaults \o Asked(t, e) \in Seq(Refs)
      /\ e.permission \in {"none", "grant", "revoke", "deny", "outside"} /\ e.op \in Ops
  BY Event
<1>2. /\ <<Reject>> \in Seq(S) /\ <<Read({}, {})>> \in Seq(S) /\ <<Begin>> \in Seq(S) /\ <<Commit>> \in Seq(S)
      /\ Begin \in S /\ PgCreateRole(t, u) \in S /\ <<>> \in Seq(S)
  <2>1. Begin \in S /\ Commit \in S /\ Reject \in S /\ Read({}, {}) \in S /\ PgCreateRole(t, u) \in S
    BY <1>1, LinkedPieces
  <2> QED BY <2>1, Short
<1>3. ASSUME NEW x \in Seq(S), NEW refs \in Seq(Refs)
      PROVE  ((x \o PgGrants(u, refs)) \o PgPermission(u, e.permission)) \o <<Commit>> \in Seq(S)
  <2>1. PgGrants(u, refs) \in Seq(S)
    BY <1>1, LinkedPieces
  <2>2. PgPermission(u, e.permission) \in Seq(S)
    BY <1>1, LinkedPieces
  <2>3. x \o PgGrants(u, refs) \in Seq(S)
    BY <2>1, Cat
  <2>4. (x \o PgGrants(u, refs)) \o PgPermission(u, e.permission) \in Seq(S)
    BY <2>2, <2>3, Cat
  <2> QED BY <1>2, <2>4, Cat
<1>4. PgCreate(t, e) \in Seq(S)
  <2> DEFINE x == <<Begin, PgCreateRole(t, u)>>
             refs == t.defaults \o Asked(t, e)
  <2>1. x \in Seq(S) /\ refs \in Seq(Refs)
    BY <1>1, <1>2, Pair
  <2> HIDE DEF x
  <2>2. ((x \o PgGrants(u, refs)) \o PgPermission(u, e.permission)) \o <<Commit>> \in Seq(S)
    BY <1>3, <2>1
  <2> QED BY <1>2, <2>2 DEF PgCreate, x
<1>5. ASSUME NEW on \in BOOLEAN PROVE <<PgLogin(u, on)>> \in Seq(S)
  <2>1. PgLogin(u, on) \in S
    BY <1>1, LinkedPieces
  <2> QED BY <2>1, Short
<1>6. PgUpdate(t, e) \in Seq(S)
  <2> DEFINE login == IF e.enabled = "unset" THEN <<>> ELSE <<PgLogin(u, e.enabled = "on")>>
             x == <<Begin>> \o login
             refs == Asked(t, e)
  <2>1. (e.enabled = "on") \in BOOLEAN
    OBVIOUS
  <2>2. login \in Seq(S)
    BY <1>2, <1>5, <2>1
  <2> HIDE DEF login
  <2>3. x \in Seq(S)
    BY <1>2, <2>2, Cat
  <2> HIDE DEF x
  <2>4. ((x \o PgGrants(u, refs)) \o PgPermission(u, e.permission)) \o <<Commit>> \in Seq(S)
    BY <1>1, <1>3, <2>3
  <2> QED BY <1>2, <2>4 DEF PgUpdate, x, login
<1>7. /\ {Account(u)} \subseteq Facts /\ {Permit(u)} \subseteq Facts /\ {} \subseteq Facts
      /\ {Password(u)} \subseteq Facts /\ {Group(g)} \subseteq Facts /\ {Group(g), Open(g)} \subseteq Facts
      /\ {Account(u), Group(g)} \subseteq Facts
      /\ {} \subseteq Flags(u) \cup RightsOf(u) /\ {Right(u, g)} \subseteq Flags(u) \cup RightsOf(u)
  BY <1>1, FactSets
<1>8. ASSUME NEW needs, needs \subseteq Facts, NEW absent, absent \subseteq Facts, NEW add, add \subseteq Facts
      PROVE  /\ \A del : del \subseteq Flags(u) \cup RightsOf(u) =>
                  <<Write(needs, absent, add, del)>> \in Seq(S)
             /\ <<Write(needs, absent, add, UserFacts(u))>> \in Seq(S)
             /\ <<Write(needs, absent, add, GroupFacts(g))>> \in Seq(S)
  <2>1. ASSUME NEW del, del \subseteq Flags(u) \cup RightsOf(u)
        PROVE  <<Write(needs, absent, add, del)>> \in Seq(S)
    <3>1. Write(needs, absent, add, del) \in S
      BY <1>1, <1>8, <2>1, LinkedWrites
    <3> QED BY <3>1, Short
  <2>2. Write(needs, absent, add, UserFacts(u)) \in S
    BY <1>1, <1>8, LinkedWrites
  <2>3. Write(needs, absent, add, GroupFacts(g)) \in S
    BY <1>1, <1>8, LinkedWrites
  <2> QED BY <2>1, <2>2, <2>3, Short
<1>9. PgDelete(t, e) \in Seq(S)
  <2>1. <<Write({Account(u)}, {Permit(u)}, {}, UserFacts(u))>> \in Seq(S)
    BY <1>7, <1>8
  <2> QED BY <1>2, <1>5, <2>1 DEF PgDelete
<1>10. PgPassword(e) \in Seq(S)
  <2>1. <<Write({Account(u)}, {}, {Password(u)}, {})>> \in Seq(S)
    BY <1>7, <1>8
  <2> QED BY <1>2, <2>1 DEF PgPassword
<1>11. PgGroup(t, e) \in Seq(S)
  <2>1. <<Write({}, {Group(g)}, {Group(g), Open(g)}, {})>> \in Seq(S)
    BY <1>7, <1>8
  <2>2. <<Write({Group(g)}, {}, {}, GroupFacts(g))>> \in Seq(S)
    BY <1>7, <1>8
  <2>3. <<Write({Account(u), Group(g)}, {}, {}, {Right(u, g)})>> \in Seq(S)
    BY <1>7, <1>8
  <2>4. PgGrant(u, g) \in S
    BY <1>1, LinkedPieces
  <2>5. <<PgGrant(u, g)>> \in Seq(S)
    BY <2>4, Short
  <2> QED BY <1>2, <2>1, <2>2, <2>3, <2>5 DEF PgGroup
<1>12. (e.op = "enable") \in BOOLEAN
  OBVIOUS
<1>13. <<PgLogin(u, e.op = "enable")>> \in Seq(S)
  BY <1>5, <1>12
<1> HIDE DEF S
<1> QED BY <1>2, <1>4, <1>13, <1>6, <1>9, <1>10, <1>11 DEF PostgresRolePlan, S
-----------------------------------------------------------------------------
(***************************************************************************)
(* The target keeps no membership of what it does not have, and a          *)
(* transaction that commits leaves none.                                   *)
(***************************************************************************)
SoundInv ==
  /\ Whole(store)
  /\ \A w \in Workers : draft[w] # None =>
       /\ Whole(View(w)) /\ Linked(draft[w])
       /\ \A v \in Workers \ {w} :
            draft[v] # None => Touches(draft[w]) \cap Touches(draft[v]) = {}

\* What one worker makes of the target leaves whole what another is about to commit.
LEMMA DraftStays ==
  ASSUME NEW s, NEW d, NEW x, NEW n, n = (s \ x.del) \cup x.add, Whole(n), Linked(x), Linked(d),
         Whole((s \ d.del) \cup d.add), Touches(x) \cap Touches(d) = {}
  PROVE  Whole((n \ d.del) \cup d.add)
<1> DEFINE old == (s \ d.del) \cup d.add
           new == (n \ d.del) \cup d.add
<1>1. ASSUME NEW u \in Users, NEW g \in Refs, Right(u, g) \in new
      PROVE  Group(g) \in new /\ {Account(u), Mapped(u)} \cap new # {}
  <2>1. CASE Right(u, g) \in d.add
    <3>1. Group(g) \in old /\ {Account(u), Mapped(u)} \cap old # {}
      BY <2>1 DEF Whole
    <3>2. Right(u, g) \notin Touches(x)
      BY <2>1 DEF Touches
    <3>3. {Group(g), Account(u), Mapped(u)} \cap x.del = {}
      BY <3>2 DEF Linked
    <3> QED BY <3>1, <3>3
  <2>2. CASE Right(u, g) \notin d.add
    <3>1. Right(u, g) \in n /\ Right(u, g) \notin Touches(d)
      BY <1>1, <2>2 DEF Touches
    <3>2. {Group(g), Account(u), Mapped(u)} \cap d.del = {}
      BY <3>1 DEF Linked
    <3>3. Group(g) \in n /\ {Account(u), Mapped(u)} \cap n # {}
      BY <3>1 DEF Whole
    <3> QED BY <3>2, <3>3
  <2> QED BY <2>1, <2>2
<1> HIDE DEF new
<1>2. Whole(new)
  BY <1>1 DEF Whole
<1> QED BY <1>2 DEF new

LEMMA PgOnly ==
  ASSUME RunInv, DoneInv, NEW w \in Workers, draft[w] # None
  PROVE  target.kind = "postgres"
<1>1. /\ phase[w] # "idle" /\ Bracketed(plan[w])
  BY DEF DoneInv, Does, Opened, Midway, Live
<1>2. Devised(target, job[w], plan[w]) /\ plan[w] \in Seq(RequestsOn(Facts))
  BY <1>1, PlanIs
<1>3. 1 \in DOMAIN plan[w] /\ plan[w][1].kind = "begin"
  BY <1>1, <1>2 DEF Bracketed
<1> QED BY <1>2, <1>3 DEF Devised, Polled, Simple

LEMMA PgRequest ==
  ASSUME RunInv, DoneInv, NEW w \in Workers, Sending(w), target.kind = "postgres"
  PROVE  /\ Linked(Request(w))
         /\ Request(w).kind = "write" => Request(w).of = {}
         /\ Request(w).kind = "write" =>
              Result(w) = (store \ Request(w).del) \cup Request(w).add
<1>1. /\ plan[w] = PostgresRolePlan(target, job[w]) /\ at[w] \in DOMAIN plan[w]
      /\ Request(w) = plan[w][at[w]]
  BY PlanIs, Sends DEF Sending, Plan
<1>2. target \in Targets /\ job[w] \in Events
  BY DEF RunInv, TypeOK
<1>3. plan[w] \in Seq(LinkedRequests)
  BY <1>1, <1>2, PgLinked
<1>4. Request(w) \in LinkedRequests
  BY <1>1, <1>3
<1>5. plan[w] \in Seq(Direct(Names(target, job[w])))
  BY <1>1, <1>2, PgPlans
<1>6. Request(w) \in Direct(Names(target, job[w]))
  BY <1>1, <1>5
<1>7. Request(w).kind = "write" => Request(w).of = {}
  BY <1>6 DEF Direct
<1>8. Request(w).kind = "write" => Result(w) = (store \ Request(w).del) \cup Request(w).add
  BY <1>7 DEF Result, Effect
<1> QED BY <1>4, <1>7, <1>8 DEF LinkedRequests

LEMMA SoundQuiet ==
  ASSUME SoundInv, store' = store, \A w \in Workers : draft'[w] \in {draft[w], None}
  PROVE  SoundInv'
<1>1. \A w \in Workers : draft'[w] # None => draft'[w] = draft[w] /\ View(w)' = View(w)
  BY DEF View
<1> QED BY <1>1 DEF SoundInv

LEMMA SoundMoves ==
  ASSUME SoundInv, NEW w \in Workers, Whole(store'), draft'[w] = None,
         \A v \in Workers \ {w} : /\ draft'[v] = draft[v]
                                  /\ draft[v] # None =>
                                       \E x : /\ store' = (store \ x.del) \cup x.add /\ Linked(x)
                                              /\ Touches(x) \cap Touches(draft[v]) = {}
  PROVE  SoundInv'
<1>1. ASSUME NEW v \in Workers, draft'[v] # None
      PROVE  v # w /\ draft'[v] = draft[v] /\ Whole(View(v)') /\ Linked(draft[v])
  <2>1. v # w /\ draft'[v] = draft[v]
    BY <1>1
  <2>2. PICK x : /\ store' = (store \ x.del) \cup x.add /\ Linked(x)
                 /\ Touches(x) \cap Touches(draft[v]) = {}
    BY <1>1, <2>1
  <2>3. Linked(draft[v]) /\ Whole((store \ draft[v].del) \cup draft[v].add)
    BY <1>1, <2>1 DEF SoundInv, View
  <2>4. Whole((store' \ draft[v].del) \cup draft[v].add)
    BY <2>2, <2>3, DraftStays
  <2>5. View(v)' = (store' \ draft[v].del) \cup draft[v].add
    BY <1>1, <2>1 DEF View
  <2> QED BY <2>1, <2>3, <2>4, <2>5
<1>2. ASSUME NEW v \in Workers, draft'[v] # None, NEW z \in Workers \ {v}, draft'[z] # None
      PROVE  Touches(draft'[v]) \cap Touches(draft'[z]) = {}
  <2>1. draft'[v] = draft[v] /\ draft'[z] = draft[z]
    BY <1>1, <1>2
  <2> QED BY <1>2, <2>1 DEF SoundInv
<1> QED BY <1>1, <1>2 DEF SoundInv

\* A write of worker w outside a transaction.
LEMMA SoundWrites ==
  ASSUME RunInv, DoneInv, SoundInv, NEW w \in Workers, Ask(w, "write"), draft[w] = None, ~Waits(w),
         Stands(Request(w), store, seen[w]), store' = Result(w),
         draft'[w] = None, \A v \in Workers \ {w} : draft'[v] = draft[v]
  PROVE  SoundInv'
<1>1. Sending(w) /\ Request(w).kind = "write"
  BY DEF Ask
<1>2. Whole(store')
  BY <1>1 DEF Stands, Result
<1>3. ASSUME NEW v \in Workers \ {w}, draft[v] # None
      PROVE  /\ store' = (store \ Request(w).del) \cup Request(w).add /\ Linked(Request(w))
             /\ Touches(Request(w)) \cap Touches(draft[v]) = {}
  <2>1. target.kind = "postgres"
    BY <1>3, PgOnly
  <2>2. Touches(Request(w)) \cap Touches(draft[v]) = {}
    BY <1>3 DEF Waits
  <2> QED BY <1>1, <2>1, <2>2, PgRequest
<1> QED BY <1>2, <1>3, SoundMoves

\* The transaction of worker w is committed.
LEMMA SoundCommits ==
  ASSUME RunInv, DoneInv, SoundInv, NEW w \in Workers, store' = View(w),
         draft'[w] = None, \A v \in Workers \ {w} : draft'[v] = draft[v]
  PROVE  SoundInv'
<1>1. CASE draft[w] = None
  <2>1. store' = store /\ \A v \in Workers : draft'[v] \in {draft[v], None}
    BY <1>1 DEF View
  <2> QED BY <2>1, SoundQuiet
<1>2. CASE draft[w] # None
  <2>1. /\ Whole(store') /\ Linked(draft[w]) /\ store' = (store \ draft[w].del) \cup draft[w].add
        /\ \A v \in Workers \ {w} : draft[v] # None => Touches(draft[w]) \cap Touches(draft[v]) = {}
    BY <1>2 DEF SoundInv, View
  <2> QED BY <2>1, SoundMoves
<1> QED BY <1>1, <1>2

LEMMA DraftedView ==
  ASSUME RunInv, NEW w \in Workers, Drafted(w)
  PROVE  /\ draft'[w] # None /\ \A v \in Workers \ {w} : draft'[v] = draft[v]
         /\ View(w)' = Then(Request(w), View(w))
         /\ View(w)' = (View(w) \ Request(w).del) \cup Request(w).add
         /\ Touches(draft'[w]) = Touches(draft[w]) \cup Touches(Request(w))
         /\ draft'[w].del \subseteq draft[w].del \cup Request(w).del
<1> DEFINE r == Request(w)
           d == draft[w]
<1>1. /\ d # None /\ r.kind = "write" /\ store' = store
      /\ draft' = [draft EXCEPT ![w] = [add |-> (@.add \ r.del) \cup r.add,
                                        del |-> (@.del \ r.add) \cup r.del]]
  BY DEF Drafted, Ask, Leaves
<1>2. draft \in [Workers -> Drafts \cup {None}]
  BY DEF RunInv, TypeOK
<1>3. /\ draft'[w] = [add |-> (d.add \ r.del) \cup r.add, del |-> (d.del \ r.add) \cup r.del]
      /\ \A v \in Workers \ {w} : draft'[v] = draft[v]
  BY <1>1, <1>2
<1>4. draft'[w] # None
  <2>1. r \in RequestsOn(Facts) /\ d \in Drafts
    BY <1>1, <1>2, RequestType DEF Drafted, Ask, Sending, RunInv
  <2>2. (d.add \ r.del) \cup r.add \in SUBSET Facts /\ (d.del \ r.add) \cup r.del \in SUBSET Facts
    BY <2>1 DEF RequestsOn, Drafts
  <2>3. draft'[w] \in [add : SUBSET Facts, del : SUBSET Facts]
    BY <1>3, <2>2
  <2> QED BY <2>3, RunAssumption
<1>5. draft'[w].add = (d.add \ r.del) \cup r.add /\ draft'[w].del = (d.del \ r.add) \cup r.del
  BY <1>3
<1>6. View(w)' = (store \ draft'[w].del) \cup draft'[w].add /\ View(w) = (store \ d.del) \cup d.add
  BY <1>1, <1>4 DEF View
<1>7. Puts(r) = r.add /\ Takes(r) = r.del \ r.add
  BY <1>1 DEF Puts, Takes
<1> HIDE DEF r, d
<1>8. View(w)' = (View(w) \ r.del) \cup r.add
  BY <1>5, <1>6
<1>9. (View(w) \ r.del) \cup r.add = Then(r, View(w))
  BY <1>7 DEF Then
<1>10. /\ Touches(draft'[w]) = Touches(d) \cup Touches(r)
       /\ draft'[w].del \subseteq d.del \cup r.del
  BY <1>5 DEF Touches
<1> QED BY <1>3, <1>4, <1>8, <1>9, <1>10 DEF r, d

LEMMA SoundDrafted ==
  ASSUME RunInv, DoneInv, SoundInv, NEW w \in Workers, Drafted(w)
  PROVE  SoundInv'
<1> DEFINE r == Request(w)
<1>1. /\ Sending(w) /\ r.kind = "write" /\ draft[w] # None /\ ~Waits(w) /\ store' = store
      /\ Stands(r, View(w), seen[w])
  BY DEF Drafted, Ask, Leaves
<1>2. target.kind = "postgres"
  BY <1>1, PgOnly
<1>3. Linked(r) /\ r.of = {}
  BY <1>1, <1>2, PgRequest
<1>4. /\ draft'[w] # None /\ \A v \in Workers \ {w} : draft'[v] = draft[v]
      /\ View(w)' = (View(w) \ r.del) \cup r.add
      /\ Touches(draft'[w]) = Touches(draft[w]) \cup Touches(r)
      /\ draft'[w].del \subseteq draft[w].del \cup r.del
  BY DraftedView
<1>5. Whole(View(w)')
  <2>1. Whole(Effect(r, View(w), {}))
    BY <1>1, <1>3 DEF Stands
  <2>2. Effect(r, View(w), {}) = (View(w) \ r.del) \cup r.add
    BY <1>3 DEF Effect
  <2> QED BY <1>4, <2>1, <2>2
<1>6. Linked(draft'[w])
  <2>1. Linked(draft[w])
    BY <1>1 DEF SoundInv
  <2> HIDE DEF r
  <2> QED BY <1>3, <1>4, <2>1 DEF Linked
<1>7. ASSUME NEW v \in Workers \ {w}, draft[v] # None
      PROVE  Touches(draft'[w]) \cap Touches(draft[v]) = {}
  <2>1. Touches(r) \cap Touches(draft[v]) = {}
    BY <1>1, <1>7 DEF Waits
  <2>2. Touches(draft[w]) \cap Touches(draft[v]) = {}
    BY <1>1, <1>7 DEF SoundInv
  <2> QED BY <1>4, <2>1, <2>2
<1>8. \A v \in Workers \ {w} : draft[v] # None => View(v)' = View(v)
  BY <1>1, <1>4 DEF View
<1> HIDE DEF r
<1>9. ASSUME NEW v \in Workers, draft'[v] # None
      PROVE  /\ Whole(View(v)') /\ Linked(draft'[v])
             /\ \A z \in Workers \ {v} : draft'[z] # None => Touches(draft'[v]) \cap Touches(draft'[z]) = {}
  <2>1. CASE v = w
    BY <1>4, <1>5, <1>6, <1>7, <2>1
  <2>2. CASE v # w
    <3>1. draft'[v] = draft[v] /\ draft[v] # None /\ View(v)' = View(v)
      BY <1>4, <1>8, <1>9, <2>2
    <3>2. ASSUME NEW z \in Workers \ {v}, draft'[z] # None
          PROVE  Touches(draft'[v]) \cap Touches(draft'[z]) = {}
      <4>1. CASE z = w
        BY <1>7, <2>2, <3>1, <4>1
      <4>2. CASE z # w
        BY <1>4, <3>1, <3>2, <4>2 DEF SoundInv
      <4> QED BY <4>1, <4>2
    <3> QED BY <3>1, <3>2 DEF SoundInv
  <2> QED BY <2>1, <2>2
<1>10. Whole(store')
  BY <1>1 DEF SoundInv
<1> QED BY <1>9, <1>10 DEF SoundInv

LEMMA SoundBegins ==
  ASSUME RunInv, DoneInv, SoundInv, NEW w \in Workers, Begins(w)
  PROVE  SoundInv'
<1>1. /\ store' = store /\ draft'[w] = [add |-> {}, del |-> {}]
      /\ \A v \in Workers \ {w} : draft'[v] = draft[v]
  BY DEF Begins, Leaves, RunInv, TypeOK
<1>2. draft'[w].add = {} /\ draft'[w].del = {} /\ draft'[w] # None
  BY <1>1, RunAssumption
<1>3. Touches(draft'[w]) = {} /\ Linked(draft'[w])
  BY <1>2 DEF Touches, Linked
<1>4. View(w)' = store
  BY <1>1, <1>2 DEF View
<1>5. \A v \in Workers \ {w} : draft[v] # None => View(v)' = View(v)
  BY <1>1 DEF View
<1>6. ASSUME NEW v \in Workers, draft'[v] # None
      PROVE  /\ Whole(View(v)') /\ Linked(draft'[v])
             /\ \A z \in Workers \ {v} : draft'[z] # None => Touches(draft'[v]) \cap Touches(draft'[z]) = {}
  <2>1. CASE v = w
    BY <1>3, <1>4, <2>1 DEF SoundInv
  <2>2. CASE v # w
    BY <1>1, <1>3, <1>5, <1>6, <2>2 DEF SoundInv
  <2> QED BY <2>1, <2>2
<1>7. Whole(store')
  BY <1>1 DEF SoundInv
<1> QED BY <1>6, <1>7 DEF SoundInv

\* The first half of a command of two touches one flag of one account.
LEMMA SoundHalf ==
  ASSUME RunInv, DoneInv, SoundInv, NEW w \in Workers, Halves(w), store' = Half(w),
         \A v \in Workers : draft'[v] \in {draft[v], None}
  PROVE  SoundInv'
<1> DEFINE r == Request(w)
           x == Halved(r)
<1>1. target.kind = "ssh" /\ r.kind = "write"
  BY HalfIs DEF RunInv
<1>2. PICK u \in Users : r.add \cup r.del = {Active(u), Valid(u)}
  BY DEF Halves, Chained
<1>3. r \in RequestsOn(Facts)
  BY HalfIs, RequestType DEF RunInv
<1>4. x.add \subseteq r.add /\ x.del \subseteq r.del
  BY <1>3 DEF RequestsOn, Halved
<1>5. store' = (store \ x.del) \cup x.add
  BY DEF Half
<1> HIDE DEF r, x
<1>6. x.add \subseteq Flags(u) /\ x.del \subseteq Flags(u) \cup RightsOf(u)
  BY <1>2, <1>4 DEF Flags
<1>7. store \in Sound
  BY DEF RunInv, TypeOK, SoundInv, Sound
<1> DEFINE needs == {}
<1>8. needs \subseteq store
  OBVIOUS
<1> HIDE DEF needs
<1>9. (store \ x.del) \cup x.add \in Sound
  BY <1>6, <1>7, <1>8, LeadsFlags
<1>10. Whole(store')
  BY <1>5, <1>9 DEF Sound
<1>11. \A v \in Workers : draft'[v] = None
  BY <1>1, PgOnly
<1> QED BY <1>10, <1>11 DEF SoundInv

LEMMA SoundStep == RunInv /\ DoneInv /\ SoundInv /\ [Next]_vars => SoundInv'
<1> SUFFICES ASSUME RunInv, DoneInv, SoundInv, [Next]_vars PROVE SoundInv'
  OBVIOUS
<1>1. CASE UNCHANGED vars \/ Expire
  <2>1. UNCHANGED <<store, draft>>
    BY <1>1 DEF vars, Expire
  <2> QED BY <2>1, SoundQuiet
<1>2. ASSUME NEW w \in Workers,
             Start(w) \/ Connects(w) \/ ConnectFails(w) \/ Close(w) \/ CloseFails(w) \/ TakeSession(w)
               \/ Login(w) \/ LoginAnswered(w) \/ Renew(w) \/ Reads(w) \/ Follows(w) \/ PollSettled(w)
               \/ Forbidden(w)
      PROVE  SoundInv'
  <2>1. UNCHANGED <<store, draft>>
    BY <1>2 DEF Start, Connects, ConnectFails, Close, CloseFails, TakeSession, Login, LoginAnswered, Renew,
                Reads, Follows, PollSettled, Forbidden, Leaves
  <2> QED BY <2>1, SoundQuiet
<1>3. ASSUME NEW w \in Workers, NEW how, Ends(w, how), Leaves PROVE SoundInv'
  <2>1. store' = store /\ draft'[w] = None /\ \A v \in Workers \ {w} : draft'[v] = draft[v]
    BY <1>3, EndsFrame DEF RunInv, Leaves
  <2> QED BY <2>1, SoundQuiet
<1>4. ASSUME NEW w \in Workers,
             GiveUp(w) \/ LoginFails(w) \/ Refused(w) \/ WaitTimesOut(w) \/ Succeeds(w) \/ LosesRequest(w)
      PROVE  SoundInv'
  <2>1. Leaves /\ \E how \in {"refused", "ok"} : Ends(w, how)
    BY <1>4 DEF GiveUp, LoginFails, Refused, WaitTimesOut, Succeeds, LosesRequest
  <2> QED BY <1>3, <2>1
<1>5. ASSUME NEW w \in Workers, PollStarted(w) PROVE SoundInv'
  <2>1. Leaves /\ (Ends(w, "refused") \/ UNCHANGED draft)
    BY <1>5 DEF PollStarted
  <2>2. CASE UNCHANGED draft
    BY <2>1, <2>2, SoundQuiet DEF Leaves
  <2> QED BY <1>3, <2>1, <2>2
<1>6. ASSUME NEW w \in Workers, Writes(w) PROVE SoundInv'
  <2>1. /\ Ask(w, "write") /\ draft[w] = None /\ ~Waits(w) /\ Stands(Request(w), store, seen[w])
        /\ store' = Result(w) /\ draft' = draft
    BY <1>6 DEF Writes, Changes
  <2> QED BY <2>1, SoundWrites
<1>7. ASSUME NEW w \in Workers, Commits(w) PROVE SoundInv'
  <2>1. /\ store' = View(w) /\ draft'[w] = None /\ \A v \in Workers \ {w} : draft'[v] = draft[v]
    BY <1>7 DEF Commits, Changes, RunInv, TypeOK
  <2> QED BY <2>1, SoundCommits
<1>8. ASSUME NEW w \in Workers, draft'[w] = None, \A v \in Workers \ {w} : draft'[v] = draft[v],
             Lands(w) \/ Leaves \/ (Halves(w) /\ Changes(w, Half(w))) \/ Changes(w, View(w))
      PROVE  SoundInv'
  <2>1. \A v \in Workers : draft'[v] \in {draft[v], None}
    BY <1>8
  <2>2. CASE Lands(w)
    <3>1. /\ Ask(w, "write") /\ draft[w] = None /\ ~Waits(w) /\ Stands(Request(w), store, seen[w])
          /\ store' = Result(w)
      BY <2>2 DEF Lands, Changes
    <3> QED BY <1>8, <3>1, SoundWrites
  <2>3. CASE Leaves
    BY <2>1, <2>3, SoundQuiet DEF Leaves
  <2>4. CASE Halves(w) /\ Changes(w, Half(w))
    <3>1. store' = Half(w)
      BY <2>4 DEF Changes
    <3> QED BY <2>1, <2>4, <3>1, SoundHalf
  <2>5. CASE Changes(w, View(w))
    <3>1. store' = View(w)
      BY <2>5 DEF Changes
    <3> QED BY <1>8, <3>1, SoundCommits
  <2> QED BY <1>8, <2>2, <2>3, <2>4, <2>5
<1>9. ASSUME NEW w \in Workers, LosesAnswer(w) \/ Hangs(w) PROVE SoundInv'
  <2>1. draft'[w] = None /\ \A v \in Workers \ {w} : draft'[v] = draft[v]
    <3>1. CASE LosesAnswer(w)
      BY <3>1, EndsFrame DEF LosesAnswer, RunInv
    <3>2. CASE Hangs(w)
      BY <3>2 DEF Hangs, RunInv, TypeOK
    <3> QED BY <1>9, <3>1, <3>2
  <2>2. Lands(w) \/ Leaves \/ (Halves(w) /\ Changes(w, Half(w))) \/ Changes(w, View(w))
    BY <1>9 DEF LosesAnswer, Hangs
  <2> QED BY <1>8, <2>1, <2>2
<1>10. ASSUME NEW w \in Workers, CutOff(w) \/ Misreads(w) PROVE SoundInv'
  <2>1. draft' = draft /\ (store' = store \/ (Halves(w) /\ store' = Half(w)))
    BY <1>10 DEF CutOff, Misreads, Supposes
  <2>2. \A v \in Workers : draft'[v] \in {draft[v], None}
    BY <2>1
  <2> QED BY <2>1, <2>2, SoundQuiet, SoundHalf
<1> QED BY <1>1, <1>2, <1>4, <1>5, <1>6, <1>7, <1>9, <1>10, SoundDrafted, SoundBegins
        DEF Next, Step, Fails

LEMMA SoundAlways == Spec => [](RunInv /\ DoneInv /\ SoundInv)
<1>1. Init => SoundInv
  <2> SUFFICES ASSUME Init PROVE SoundInv
    OBVIOUS
  <2>1. Whole(store) /\ \A w \in Workers : draft[w] = None
    BY RunAssumption DEF Init
  <2> QED BY <2>1 DEF SoundInv
<1>2. RunInv /\ DoneInv /\ SoundInv /\ [Next]_vars /\ RunInv' /\ DoneInv' => SoundInv'
  BY SoundStep
<1> QED BY <1>1, <1>2, DoneAlways, PTL DEF Spec
-----------------------------------------------------------------------------
(***************************************************************************)
(* Why a run is refused                                                    *)
(***************************************************************************)
Overlooked(w) == Overlooks(target, job[w])

LEMMA OverlookedStays ==
  ASSUME UNCHANGED <<target, job>>, NEW w \in Workers
  PROVE  Overlooked(w)' = Overlooked(w)
  BY DEF Overlooked, Overlooks, CmdbuildGroups, PassworkGroups, Asked, Named

\* Nothing has happened that excuses a refusal.
Clean(w) == fit[w] /\ ~hit[w] /\ excused[w] = {} /\ ~Overlooked(w)

\* c is the course of worker w's plan, and the target is where it should be.
OnCourse(w, c) ==
  Course(plan[w], c) /\ Level(plan[w], c) /\ at[w] \in DOMAIN c /\ c[at[w]] = View(w)

Suited(w) == phase[w] \in Live /\ Clean(w) => \E c : OnCourse(w, c)
Caused(w) == outcome[w] = "refused" => ~Clean(w)

CauseInv == \A w \in Workers : Suited(w) /\ Caused(w)
AllInv   == RunInv /\ DoneInv /\ SoundInv /\ CauseInv

\* Worker v stands by while another acts.
Bystands(v) == Still(v) /\ outcome'[v] = outcome[v] /\ fit'[v] = fit[v] /\ hit'[v] = hit[v]

LEMMA CauseStill ==
  ASSUME UNCHANGED <<target, job>>, CauseInv, NEW v \in Workers, Bystands(v)
  PROVE  Suited(v)' /\ Caused(v)'
<1>1. /\ plan'[v] = plan[v] /\ at'[v] = at[v] /\ phase'[v] = phase[v] /\ draft'[v] = draft[v]
      /\ outcome'[v] = outcome[v] /\ fit'[v] = fit[v] /\ hit'[v] = hit[v]
      /\ excused'[v] = excused[v] \cup Differs(store, store')
  BY DEF Bystands, Still
<1>2. Clean(v)' => Clean(v) /\ store' = store
  BY <1>1, OverlookedStays DEF Clean, Differs
<1>3. Caused(v)'
  BY <1>1, <1>2 DEF CauseInv, Caused
<1>4. ASSUME phase'[v] \in Live, Clean(v)' PROVE \E c : OnCourse(v, c)'
  <2>1. PICK c : OnCourse(v, c)
    BY <1>1, <1>2, <1>4 DEF CauseInv, Suited
  <2>2. View(v)' = View(v)
    BY <1>1, <1>2, <1>4 DEF View
  <2>3. OnCourse(v, c)'
    BY <1>1, <2>1, <2>2 DEF OnCourse
  <2> QED BY <2>3
<1>5. Suited(v)'
  BY <1>4 DEF Suited
<1> QED BY <1>3, <1>5

LEMMA CauseKept ==
  ASSUME UNCHANGED <<target, job>>, CauseInv, NEW w \in Workers, \A v \in Workers \ {w} : Bystands(v),
         Suited(w)', Caused(w)'
  PROVE  CauseInv'
<1>1. \A v \in Workers \ {w} : Suited(v)' /\ Caused(v)'
  BY CauseStill
<1> QED BY <1>1 DEF CauseInv

\* A run that a fault befalls.
LEMMA CauseHit ==
  ASSUME UNCHANGED <<target, job>>, RunInv, CauseInv, NEW w \in Workers, hit' = [hit EXCEPT ![w] = TRUE],
         \A v \in Workers \ {w} : Still(v) /\ outcome'[v] = outcome[v] /\ fit'[v] = fit[v]
  PROVE  CauseInv'
<1>1. hit'[w] = TRUE /\ \A v \in Workers \ {w} : hit'[v] = hit[v]
  BY DEF RunInv, TypeOK
<1>2. ~Clean(w)'
  BY <1>1 DEF Clean
<1>3. Suited(w)' /\ Caused(w)'
  BY <1>2 DEF Suited, Caused
<1>4. \A v \in Workers \ {w} : Bystands(v)
  BY <1>1 DEF Bystands
<1> QED BY <1>3, <1>4, CauseKept

LEMMA CauseHits ==
  ASSUME RunInv, DoneInv, CauseInv, NEW w \in Workers,
         \/ ConnectFails(w) \/ CloseFails(w) \/ LoginFails(w) \/ PollStarted(w) \/ LosesRequest(w)
         \/ LosesAnswer(w) \/ Hangs(w) \/ CutOff(w) \/ Misreads(w) \/ Forbidden(w)
         \/ GiveUp(w) \/ WaitTimesOut(w)
  PROVE  CauseInv'
<1> DEFINE Others == \A v \in Workers \ {w} : Still(v) /\ outcome'[v] = outcome[v] /\ fit'[v] = fit[v]
<1>0. UNCHANGED <<target, job>>
  BY DEF ConnectFails, CloseFails, LoginFails, PollStarted, LosesRequest, LosesAnswer, Hangs, CutOff,
         Misreads, Supposes, Forbidden, GiveUp, WaitTimesOut, Ends, Goes
<1>1. hit' = [hit EXCEPT ![w] = TRUE]
  BY DEF ConnectFails, CloseFails, LoginFails, PollStarted, LosesRequest, LosesAnswer, Hangs, CutOff,
         Misreads, Supposes, Forbidden, GiveUp, WaitTimesOut, Harmed
<1>2. ASSUME NEW how, Ends(w, how), Leaves \/ \E s : Changes(w, s) PROVE Others
  <2>1. /\ UNCHANGED <<plan, at, seen>> /\ \A v \in Workers \ {w} : phase'[v] = phase[v] /\ draft'[v] = draft[v]
    BY <1>2, EndsFrame DEF RunInv
  <2>2. \A v \in Workers \ {w} : Still(v)
    BY <1>2, <2>1, LeavesStill, ChangesStill
  <2>3. fit' = fit /\ \A v \in Workers \ {w} : outcome'[v] = outcome[v]
    BY <1>2 DEF Ends, RunInv, TypeOK
  <2> QED BY <2>2, <2>3
<1>3. CASE LoginFails(w) \/ LosesRequest(w) \/ GiveUp(w) \/ WaitTimesOut(w)
  <2>1. Leaves /\ Ends(w, "refused")
    BY <1>3 DEF LoginFails, LosesRequest, GiveUp, WaitTimesOut
  <2> QED BY <1>0, <1>1, <1>2, <2>1, CauseHit
<1>4. CASE LosesAnswer(w)
  <2>1. Ends(w, "refused") /\ \E s : Changes(w, s)
    BY <1>4 DEF LosesAnswer, Lands
  <2> QED BY <1>0, <1>1, <1>2, <2>1, CauseHit
<1>5. ASSUME NEW i, Goes(w, i), UNCHANGED <<seen, draft>>, Leaves PROVE Others
  <2>1. UNCHANGED plan /\ \A v \in Workers \ {w} : phase'[v] = phase[v] /\ at'[v] = at[v]
    BY <1>5, GoesFrame DEF RunInv
  <2>2. \A v \in Workers \ {w} : Still(v)
    BY <1>5, <2>1, LeavesStill
  <2> QED BY <1>5, <2>2 DEF Goes
<1>6. CASE PollStarted(w)
  <2>1. Leaves /\ (Ends(w, "refused") \/ (Goes(w, at[w] + 1) /\ UNCHANGED <<seen, draft>>))
    BY <1>6 DEF PollStarted
  <2> QED BY <1>0, <1>1, <1>2, <1>5, <2>1, CauseHit
<1>7. CASE ConnectFails(w) \/ CloseFails(w)
  <2>1. /\ UNCHANGED <<store, plan, at, seen, draft, fit, made, excused>>
        /\ \A v \in Workers \ {w} : phase'[v] = phase[v] /\ outcome'[v] = outcome[v]
    BY <1>7 DEF ConnectFails, CloseFails, RunInv, TypeOK
  <2>2. \A v \in Workers \ {w} : Still(v)
    BY <2>1, LeavesStill DEF Leaves
  <2> QED BY <1>0, <1>1, <2>1, <2>2, CauseHit
<1>8. CASE Hangs(w)
  <2>1. /\ UNCHANGED <<plan, at, seen, outcome, fit>>
        /\ \A v \in Workers \ {w} : phase'[v] = phase[v] /\ draft'[v] = draft[v]
        /\ Leaves \/ \E s : Changes(w, s)
    BY <1>8 DEF Hangs, Lands, RunInv, TypeOK
  <2>2. \A v \in Workers \ {w} : Still(v)
    BY <2>1, LeavesStill, ChangesStill
  <2> QED BY <1>0, <1>1, <2>1, <2>2, CauseHit
<1>9. CASE CutOff(w) \/ Misreads(w)
  <2>0. PICK s : Supposes(w, s)
    BY <1>9 DEF CutOff, Misreads
  <2>1. /\ Goes(w, at[w] + 1) /\ UNCHANGED <<seen, draft>> /\ store' = s
        /\ \A v \in Workers \ {w} : excused'[v] = excused[v] \cup Differs(store, s) /\ made'[v] = made[v]
    BY <2>0 DEF Supposes, RunInv, TypeOK
  <2>2. UNCHANGED plan /\ \A v \in Workers \ {w} : phase'[v] = phase[v] /\ at'[v] = at[v]
    BY <2>1, GoesFrame DEF RunInv
  <2>3. \A v \in Workers \ {w} : Still(v)
    BY <2>1, <2>2 DEF Still
  <2>4. fit' = fit /\ outcome' = outcome
    BY <2>1 DEF Goes
  <2> QED BY <1>0, <1>1, <2>3, <2>4, CauseHit
<1>10. CASE Forbidden(w)
  <2>1. /\ UNCHANGED <<store, plan, at, seen, draft, fit, made, excused, outcome>>
        /\ \A v \in Workers \ {w} : phase'[v] = phase[v]
    BY <1>10 DEF Forbidden, RunInv, TypeOK
  <2>2. \A v \in Workers \ {w} : Still(v)
    BY <2>1, LeavesStill DEF Leaves
  <2> QED BY <1>0, <1>1, <2>1, <2>2, CauseHit
<1> QED BY <1>3, <1>4, <1>6, <1>7, <1>8, <1>9, <1>10

LEMMA CauseStart ==
  ASSUME AllInv, NEW w \in Workers, Start(w)
  PROVE  CauseInv'
<1> DEFINE p == Plan(target, job[w])
<1>1. /\ UNCHANGED <<target, job, store, draft>> /\ plan'[w] = p /\ at'[w] = 1
      /\ excused'[w] = {} /\ outcome'[w] = "none" /\ fit'[w] = Fits(target, job[w], store)
      /\ \A v \in Workers \ {w} : Bystands(v)
  BY DEF AllInv, RunInv, TypeOK, Start, Still, Differs, Bystands
<1>2. draft[w] = None
  BY DEF AllInv, DoneInv, Does, Opened, Start, Live
<1>3. View(w)' = store
  BY <1>1, <1>2 DEF View
<1>4. store \in Sound /\ target \in Targets /\ job[w] \in Events
  BY DEF AllInv, RunInv, TypeOK, SoundInv, Sound
<1>5. ASSUME Clean(w)' PROVE \E c : OnCourse(w, c)'
  <2>1. Fits(target, job[w], store) /\ ~Overlooks(target, job[w])
    BY <1>1, <1>5, OverlookedStays DEF Clean, Overlooked
  <2>2. PICK c : Course(p, c) /\ Level(p, c) /\ c[1] = store
    BY <1>4, <2>1, PlansPass DEF Passes
  <2>3. 1 \in DOMAIN c
    <3>1. p \in Seq(RequestsOn(Facts))
      BY <1>4, Plans
    <3> HIDE DEF p
    <3> QED BY <2>2, <3>1 DEF Course
  <2> HIDE DEF p
  <2>4. OnCourse(w, c)'
    BY <1>1, <1>3, <2>2, <2>3 DEF OnCourse
  <2> QED BY <2>4
<1>6. Suited(w)' /\ Caused(w)'
  BY <1>1, <1>5 DEF Suited, Caused
<1> QED BY <1>1, <1>6, CauseKept DEF AllInv

\* The worker's phase changes and nothing of its course.
LEMMA CausePhase ==
  ASSUME UNCHANGED <<target, job>>, RunInv, CauseInv, NEW w \in Workers,
         UNCHANGED <<plan, at, seen, draft, fit, hit>>, Leaves,
         \A v \in Workers \ {w} : phase'[v] = phase[v] /\ outcome'[v] = outcome[v],
         phase[w] \in Live \/ phase'[w] \notin Live, outcome'[w] \in {outcome[w], "ok"}
  PROVE  CauseInv'
<1>1. \A v \in Workers \ {w} : Bystands(v)
  BY LeavesStill DEF Bystands
<1>2. Clean(w)' = Clean(w) /\ View(w)' = View(w)
  BY OverlookedStays DEF Clean, Leaves, View
<1>3. \A c : OnCourse(w, c) => OnCourse(w, c)'
  BY <1>2 DEF OnCourse
<1>4. Suited(w) /\ Caused(w)
  BY DEF CauseInv
<1>5. Suited(w)' /\ Caused(w)'
  BY <1>2, <1>3, <1>4 DEF Suited, Caused
<1> QED BY <1>1, <1>5, CauseKept

LEMMA CauseSucceeds ==
  ASSUME RunInv, CauseInv, NEW w \in Workers, Succeeds(w)
  PROVE  CauseInv'
<1>1. Ends(w, "ok") /\ Leaves /\ UNCHANGED hit /\ UNCHANGED fit /\ UNCHANGED <<target, job>>
  BY DEF Succeeds, Unharmed, Ends
<1>2. /\ UNCHANGED <<plan, at, seen>> /\ phase'[w] \notin Live
      /\ \A v \in Workers \ {w} : phase'[v] = phase[v] /\ draft'[v] = draft[v]
  BY <1>1, EndsFrame DEF RunInv
<1>3. outcome'[w] = "ok" /\ \A v \in Workers \ {w} : outcome'[v] = outcome[v]
  BY <1>1 DEF Ends, RunInv, TypeOK
<1>4. \A v \in Workers \ {w} : Bystands(v)
  BY <1>1, <1>2, <1>3, LeavesStill DEF Bystands
<1>5. Suited(w)' /\ Caused(w)'
  BY <1>2, <1>3 DEF Suited, Caused
<1> QED BY <1>1, <1>4, <1>5, CauseKept

-----------------------------------------------------------------------------
\* What the write of a run that nobody crossed makes of what the run sees.
LEMMA EffectThen ==
  ASSUME RunInv, DoneInv, NEW w \in Workers, Ask(w, "write"), excused[w] = {}
  PROVE  Effect(Request(w), View(w), IF Request(w).of = {} THEN {} ELSE seen[w]) = Then(Request(w), View(w))
<1> DEFINE r == Request(w)
<1>1. Sending(w) /\ r.kind = "write"
  BY DEF Ask
<1>2. Puts(r) = r.add /\ Takes(r) = r.del \ r.add
  BY <1>1 DEF Puts, Takes
<1> HIDE DEF r
<1>3. Then(r, View(w)) = (View(w) \ r.del) \cup r.add
  BY <1>2 DEF Then
<1>4. CASE r.of = {}
  BY <1>3, <1>4 DEF Effect, r
<1>5. CASE r.of # {}
  <2>1. draft[w] = None
    BY <1>1, <1>5, PgOnly, PgRequest DEF r
  <2>2. View(w) = store
    BY <2>1 DEF View
  <2>3. Rewriting(w)
    BY <1>1, <1>5 DEF Rewriting, Sending, Live, r
  <2>4. seen[w] \subseteq r.of /\ \A f \in r.of : f \in seen[w] <=> f \in store
    BY <2>3 DEF RunInv, Fresh, r
  <2>5. (store \ r.of) \cup seen[w] = store
    BY <2>4
  <2>6. Effect(r, View(w), seen[w]) = (store \ r.del) \cup r.add
    BY <2>2, <2>5 DEF Effect
  <2> QED BY <1>3, <1>5, <2>2, <2>6 DEF r
<1> QED BY <1>4, <1>5

\* A request on the course stands.
LEMMA CourseStands ==
  ASSUME RunInv, DoneInv, NEW w \in Workers, Sending(w), Clean(w), NEW c, OnCourse(w, c)
  PROVE  /\ Request(w).kind # "reject" /\ at[w] + 1 \in DOMAIN c
         /\ c[at[w] + 1] = Then(Request(w), View(w))
         /\ Accepted(w) => Stands(Request(w), View(w), seen[w])
<1> DEFINE r == Request(w)
<1>1. /\ at[w] \in DOMAIN plan[w] /\ DOMAIN plan[w] = 1 .. Len(plan[w]) /\ Len(plan[w]) \in Nat
      /\ r = plan[w][at[w]]
  BY Sends
<1>2. /\ c \in Seq(Sound) /\ Len(c) = Len(plan[w]) + 1 /\ Suits(r, View(w))
      /\ c[at[w] + 1] = Then(r, View(w))
  BY <1>1 DEF OnCourse, Course
<1>3. at[w] + 1 \in DOMAIN c
  BY <1>1, <1>2
<1>4. Then(r, View(w)) \in Sound
  BY <1>2, <1>3
<1>5. ASSUME Accepted(w), r.kind = "write"
      PROVE  Whole(Effect(r, View(w), IF r.of = {} THEN {} ELSE seen[w]))
  <2>1. Ask(w, "write") /\ excused[w] = {}
    BY <1>5 DEF Ask, Clean
  <2>2. Effect(r, View(w), IF r.of = {} THEN {} ELSE seen[w]) = Then(r, View(w))
    BY <2>1, EffectThen
  <2> QED BY <1>4, <2>2 DEF Sound
<1>6. Accepted(w) => Stands(r, View(w), seen[w])
  BY <1>2, <1>5 DEF Stands, Suits
<1> QED BY <1>2, <1>3, <1>6 DEF Suits

LEMMA CauseRefused ==
  ASSUME AllInv, NEW w \in Workers, Refused(w)
  PROVE  CauseInv'
<1>1. /\ Ends(w, "refused") /\ Leaves /\ UNCHANGED hit /\ UNCHANGED fit /\ Sending(w) /\ Accepted(w)
      /\ Request(w).kind = "reject" \/ ~Stands(Request(w), View(w), seen[w])
      /\ UNCHANGED <<target, job>>
  BY DEF Refused, Unharmed, Ends, Ask
<1>2. ~Clean(w)
  <2>1. SUFFICES ASSUME Clean(w) PROVE FALSE
    OBVIOUS
  <2>2. PICK c : OnCourse(w, c)
    BY <1>1, <2>1 DEF AllInv, CauseInv, Suited, Sending, Live
  <2> QED BY <1>1, <2>1, <2>2, CourseStands DEF AllInv
<1>3. ~Clean(w)'
  BY <1>1, <1>2, OverlookedStays DEF Clean, Leaves
<1>4. /\ UNCHANGED <<plan, at, seen>> /\ \A v \in Workers \ {w} : phase'[v] = phase[v] /\ draft'[v] = draft[v]
  BY <1>1, EndsFrame DEF AllInv, RunInv
<1>5. \A v \in Workers \ {w} : outcome'[v] = outcome[v]
  BY <1>1 DEF Ends, AllInv, RunInv, TypeOK
<1>6. \A v \in Workers \ {w} : Bystands(v)
  BY <1>1, <1>4, <1>5, LeavesStill DEF Bystands
<1>7. Suited(w)' /\ Caused(w)'
  BY <1>3 DEF Suited, Caused
<1> QED BY <1>1, <1>6, <1>7, CauseKept DEF AllInv

\* A run that goes on along its course.
LEMMA CauseGoes ==
  ASSUME AllInv, NEW w \in Workers, Sending(w), NEW i, Goes(w, i), Unharmed, excused'[w] = excused[w],
         \A v \in Workers \ {w} : Still(v),
         \A c : Clean(w) /\ OnCourse(w, c) => i \in DOMAIN c /\ c[i] = View(w)'
  PROVE  CauseInv'
<1>1. /\ UNCHANGED <<target, job, plan>> /\ at'[w] = i /\ UNCHANGED <<outcome, fit, hit>>
  BY GoesFrame DEF AllInv, RunInv, Goes, Unharmed
<1>2. Clean(w)' = Clean(w)
  BY <1>1, OverlookedStays DEF Clean
<1>3. Suited(w) /\ Caused(w) /\ phase[w] \in Live
  BY DEF AllInv, CauseInv, Sending, Live
<1>4. ASSUME Clean(w)' PROVE \E c : OnCourse(w, c)'
  <2>1. PICK c : OnCourse(w, c)
    BY <1>2, <1>3, <1>4 DEF Suited
  <2>2. i \in DOMAIN c /\ c[i] = View(w)'
    BY <1>2, <1>4, <2>1
  <2>3. OnCourse(w, c)'
    BY <1>1, <2>1, <2>2 DEF OnCourse
  <2> QED BY <2>3
<1>5. Suited(w)' /\ Caused(w)'
  BY <1>1, <1>2, <1>3, <1>4 DEF Suited, Caused
<1>6. \A v \in Workers \ {w} : Bystands(v)
  BY <1>1 DEF Bystands
<1> QED BY <1>1, <1>5, <1>6, CauseKept DEF AllInv

\* Requests that change nothing the run sees.
LEMMA CauseLooks ==
  ASSUME AllInv, NEW w \in Workers, Reads(w) \/ Follows(w) \/ Begins(w)
  PROVE  CauseInv'
<1>1. /\ Sending(w) /\ Request(w).kind # "write" /\ Goes(w, at[w] + 1) /\ Leaves /\ Unharmed
      /\ \A v \in Workers \ {w} : seen'[v] = seen[v] /\ draft'[v] = draft[v]
  BY DEF Reads, Follows, Begins, Ask, AllInv, RunInv, TypeOK
<1>2. \A v \in Workers \ {w} : Still(v)
  BY <1>1, GoesFrame, LeavesStill DEF AllInv, RunInv
<1>3. View(w)' = View(w)
  <2>1. CASE Reads(w) \/ Follows(w)
    BY <1>1, <2>1 DEF Reads, Follows, View, Leaves
  <2>2. CASE Begins(w)
    <3>1. Request(w).kind = "begin" /\ draft'[w] = [add |-> {}, del |-> {}] /\ store' = store
      BY <1>1, <2>2 DEF Begins, Ask, Leaves, AllInv, RunInv, TypeOK
    <3>2. draft[w] = None
      <4>1. /\ at[w] \in DOMAIN plan[w] /\ DOMAIN plan[w] = 1 .. Len(plan[w]) /\ Request(w) = plan[w][at[w]]
            /\ Len(plan[w]) \in Nat /\ (draft[w] # None <=> Midway(w))
        BY <1>1, Sends DEF AllInv
      <4> QED BY <3>1, <4>1 DEF Midway, Bracketed
    <3>3. draft'[w].add = {} /\ draft'[w].del = {} /\ draft'[w] # None
      BY <3>1, RunAssumption
    <3>4. View(w)' = (store \ draft'[w].del) \cup draft'[w].add /\ View(w) = store
      BY <3>1, <3>2, <3>3 DEF View
    <3> QED BY <3>3, <3>4
  <2> QED BY <1>1, <2>1, <2>2
<1>4. Then(Request(w), View(w)) = View(w)
  BY <1>1 DEF Then, Puts, Takes
<1>5. \A c : Clean(w) /\ OnCourse(w, c) => at[w] + 1 \in DOMAIN c /\ c[at[w] + 1] = View(w)'
  BY <1>1, <1>3, <1>4, CourseStands DEF AllInv
<1>6. excused'[w] = excused[w]
  BY <1>1 DEF Leaves
<1> QED BY <1>1, <1>2, <1>5, <1>6, CauseGoes

LEMMA CauseCommits ==
  ASSUME AllInv, NEW w \in Workers, Commits(w)
  PROVE  CauseInv'
<1>1. /\ Sending(w) /\ Request(w).kind # "write" /\ Goes(w, at[w] + 1) /\ Unharmed /\ Changes(w, View(w))
      /\ UNCHANGED seen /\ draft'[w] = None /\ \A v \in Workers \ {w} : draft'[v] = draft[v]
  BY DEF Commits, Ask, AllInv, RunInv, TypeOK
<1>2. \A v \in Workers \ {w} : Still(v)
  BY <1>1, GoesFrame, ChangesStill DEF AllInv, RunInv
<1>3. View(w)' = View(w) /\ excused'[w] = excused[w]
  BY <1>1 DEF View, Changes, AllInv, RunInv, TypeOK
<1>4. Then(Request(w), View(w)) = View(w)
  BY <1>1 DEF Then, Puts, Takes
<1>5. \A c : Clean(w) /\ OnCourse(w, c) => at[w] + 1 \in DOMAIN c /\ c[at[w] + 1] = View(w)'
  BY <1>1, <1>3, <1>4, CourseStands DEF AllInv
<1> QED BY <1>1, <1>2, <1>3, <1>5, CauseGoes

LEMMA CauseWrites ==
  ASSUME AllInv, NEW w \in Workers, Writes(w)
  PROVE  CauseInv'
<1>1. /\ Sending(w) /\ Ask(w, "write") /\ Goes(w, at[w] + 1) /\ Unharmed /\ Changes(w, Result(w))
      /\ UNCHANGED <<seen, draft>> /\ draft[w] = None
  BY DEF Writes, Ask
<1>2. \A v \in Workers \ {w} : Still(v)
  BY <1>1, GoesFrame, ChangesStill DEF AllInv, RunInv
<1>3. View(w)' = Result(w) /\ View(w) = store /\ excused'[w] = excused[w]
  BY <1>1 DEF View, Changes, AllInv, RunInv, TypeOK
<1>4. Clean(w) => Result(w) = Then(Request(w), View(w))
  BY <1>1, <1>3, EffectThen DEF Result, Clean, AllInv
<1>5. \A c : Clean(w) /\ OnCourse(w, c) => at[w] + 1 \in DOMAIN c /\ c[at[w] + 1] = View(w)'
  BY <1>1, <1>3, <1>4, CourseStands DEF AllInv
<1> QED BY <1>1, <1>2, <1>3, <1>5, CauseGoes

LEMMA CauseDrafted ==
  ASSUME AllInv, NEW w \in Workers, Drafted(w)
  PROVE  CauseInv'
<1>1. /\ Sending(w) /\ Goes(w, at[w] + 1) /\ Unharmed /\ Leaves /\ UNCHANGED seen
  BY DEF Drafted, Ask
<1>2. View(w)' = Then(Request(w), View(w)) /\ \A v \in Workers \ {w} : draft'[v] = draft[v]
  BY DraftedView DEF AllInv
<1>3. \A v \in Workers \ {w} : Still(v)
  BY <1>1, <1>2, GoesFrame, LeavesStill DEF AllInv, RunInv
<1>4. \A c : Clean(w) /\ OnCourse(w, c) => at[w] + 1 \in DOMAIN c /\ c[at[w] + 1] = View(w)'
  BY <1>1, <1>2, CourseStands DEF AllInv
<1>5. excused'[w] = excused[w]
  BY <1>1 DEF Leaves
<1> QED BY <1>1, <1>3, <1>4, <1>5, CauseGoes

LEMMA CausePolls ==
  ASSUME AllInv, NEW w \in Workers, PollSettled(w)
  PROVE  CauseInv'
<1> DEFINE p == plan[w]
<1>1. /\ Sending(w) /\ Request(w).kind = "poll" /\ Leaves /\ Unharmed /\ LastPoll \in Nat /\ UNCHANGED <<seen, draft>>
  BY PollAssumption DEF PollSettled, Ask, LastPoll
<1>2. PICK skipped \in {1, 2} : Goes(w, LastPoll + skipped)
  BY DEF PollSettled
<1>3. /\ at[w] \in DOMAIN p /\ DOMAIN p = 1 .. Len(p) /\ Request(w) = p[at[w]] /\ Len(p) \in Nat
      /\ Bracketed(p) \/ Polled(p) \/ p \in Seq(Simple)
  BY <1>1, Sends DEF AllInv
<1>4. Polled(p)
  BY <1>1, <1>3 DEF Bracketed, Simple
<1>5. LastPoll + 1 < Len(p)
  BY <1>1, <1>3, <1>4 DEF Polled
<1>6. LastPoll + skipped \in DOMAIN p
  BY <1>1, <1>3, <1>5
<1>7. \A v \in Workers \ {w} : Still(v)
  BY <1>1, <1>2, GoesFrame, LeavesStill DEF AllInv, RunInv
<1>8. View(w)' = View(w) /\ excused'[w] = excused[w]
  BY <1>1 DEF View, Leaves
<1>9. ASSUME NEW c, Clean(w), OnCourse(w, c)
      PROVE  LastPoll + skipped \in DOMAIN c /\ c[LastPoll + skipped] = View(w)'
  <2>1. c[LastPoll + skipped] = c[at[w]] /\ c[at[w]] = View(w)
    BY <1>1, <1>3, <1>6, <1>9 DEF OnCourse, Level
  <2>2. c \in Seq(Sound) /\ Len(c) = Len(p) + 1
    BY <1>9 DEF OnCourse, Course
  <2>3. LastPoll + skipped \in DOMAIN c
    BY <1>3, <1>6, <2>2
  <2> QED BY <1>8, <2>1, <2>3
<1> QED BY <1>1, <1>2, <1>7, <1>8, <1>9, CauseGoes

-----------------------------------------------------------------------------
LEMMA CauseInit == Init => CauseInv
<1> SUFFICES ASSUME Init, NEW w \in Workers PROVE Suited(w) /\ Caused(w)
  BY DEF CauseInv
<1>1. phase[w] = "idle" /\ outcome[w] = "none"
  BY DEF Init
<1> QED BY <1>1 DEF Suited, Caused, Live

LEMMA CauseStep == AllInv /\ [Next]_vars => CauseInv'
<1> SUFFICES ASSUME AllInv, [Next]_vars PROVE CauseInv'
  OBVIOUS
<1>1. CASE UNCHANGED vars \/ Expire
  <2>1. UNCHANGED <<target, job, store, plan, at, phase, seen, draft, outcome, fit, made, excused, hit>>
    BY <1>1 DEF vars, history, Expire
  <2>2. \A w \in Workers : Bystands(w)
    BY <2>1 DEF Bystands, Still, Differs
  <2>3. \A w \in Workers : Suited(w)' /\ Caused(w)'
    BY <2>1, <2>2, CauseStill DEF AllInv
  <2> QED BY <2>3 DEF CauseInv
<1>2. ASSUME NEW w \in Workers,
             Connects(w) \/ Close(w) \/ TakeSession(w) \/ Login(w) \/ LoginAnswered(w) \/ Renew(w)
      PROVE  CauseInv'
  <2>1. /\ UNCHANGED <<target, job, plan, at, seen, draft, fit, hit>> /\ Leaves
        /\ \A v \in Workers \ {w} : phase'[v] = phase[v] /\ outcome'[v] = outcome[v]
        /\ phase[w] \in Live \/ phase'[w] \notin Live
        /\ outcome'[w] = outcome[w]
    BY <1>2 DEF AllInv, RunInv, TypeOK, Connects, Close, TakeSession, Login, LoginAnswered, Renew, Leaves,
                Live, history, Sending
  <2> QED BY <2>1, CausePhase DEF AllInv
<1> QED BY <1>1, <1>2, CauseStart, CauseHits, CauseSucceeds, CauseRefused, CauseLooks, CauseCommits,
           CauseWrites, CauseDrafted, CausePolls DEF Next, Step, Fails, AllInv

\* A run that no fault befell and nobody crossed is refused only if the target could not
\* do what the event asks when the run began: every connector sends its requests in an
\* order in which each finds what it needs, whatever else is going on in the target, and
\* no other worker's open transaction is the reason.  An event whose groups a lookup of 500
\* rows overlooks is the exception.
THEOREM RefusalsHaveCause == Spec => []RefusedForCause
<1>1. Init => CauseInv
  BY CauseInit
<1>2. RunInv /\ DoneInv /\ SoundInv /\ CauseInv /\ [Next]_vars => CauseInv'
  BY CauseStep DEF AllInv
<1>3. CauseInv => RefusedForCause
  BY DEF CauseInv, Caused, Clean, Overlooked, RefusedForCause
<1> QED BY <1>1, <1>2, <1>3, SoundAlways, PTL DEF Spec
=============================================================================

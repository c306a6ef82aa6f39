------------------------------ MODULE MCFleetRun ------------------------------
(***************************************************************************)
(* TLC instance of FleetRun: two Linux target systems, s1 with two hosts   *)
(* in a server group; pairs of administrators that meet in the inventory,  *)
(* one whose rights are edited meanwhile, and events that meet one of them.*)
(***************************************************************************)
EXTENDS FleetRun, TLC

CONSTANTS s1, s2, h1, h2, h3, p1, p2, g1, g2, c1, c2, c3, dev, ops, staff, a1, a2

Q(o, i) == [op |-> o, id |-> i, system |-> s1, profile |-> Keep, enabled |-> "keep",
           code |-> Keep, hosts |-> {}]

List          == Q("list", g1)
Hosting(hs)   == [Q("setGroupHosts", g1) EXCEPT !.hosts = hs]
AddProfile    == Q("createProfile", p2)
AddHost       == [Q("createHost", h3) EXCEPT !.profile = p1]
AddGroup(c)   == [Q("createGroup", g2) EXCEPT !.code = c]
ProfileOff    == [Q("updateProfile", p1) EXCEPT !.enabled = "off"]
Assign(h, p)  == [Q("updateHost", h) EXCEPT !.profile = p]
HostOff(h)    == [Q("updateHost", h) EXCEPT !.enabled = "off"]
GroupOff      == [Q("updateGroup", g1) EXCEPT !.enabled = "off"]
Rename(g, c)  == [Q("updateGroup", g) EXCEPT !.code = c]
DropProfile   == Q("deleteProfile", p1)
DropHost(h)   == Q("deleteHost", h)
DropGroup     == Q("deleteGroup", g1)

In(s)     == [system |-> s, enabled |-> TRUE]
Code(s, c)   == [system |-> s, enabled |-> TRUE, code |-> c]
HostIn(s, p) == [system |-> s, enabled |-> TRUE, profile |-> p]
Level(l)  == [t \in Types |-> IF t = "linux" THEN l ELSE "none"]
Having(l) == [enabled |-> TRUE, level |-> Level(l)]
Admin     == [local |-> TRUE, groups |-> {}]
Sso       == [local |-> FALSE, groups |-> {staff}]

Base == [system  |-> s1 :> "linux" @@ s2 :> "linux",
         profile |-> p1 :> In(s1) @@ p2 :> In(s2),
         host    |-> h1 :> HostIn(s1, p1) @@ h2 :> HostIn(s1, p1) @@ h3 :> HostIn(s2, p2),
         group   |-> g1 :> Code(s1, c1) @@ g2 :> Code(s2, c1),
         members |-> {<<g1, h1>>, <<g1, h2>>},
         role    |-> dev :> Having("read") @@ ops :> Having("write"),
         mapping |-> <<staff, dev>> :> "on" @@ <<staff, ops>> :> "on",
         session |-> a1 :> Admin @@ a2 :> Admin,
         request |-> a1 :> List @@ a2 :> List,
         event   |-> None, accounts |-> {h1, h2}, edits |-> 0]

\* Half of the inventory is not there yet.
Small == [Base EXCEPT !.profile[p2] = None, !.host[h3] = None, !.group[g2] = None]

Meet(base, pairs) == {[base EXCEPT !.request = a1 :> p[1] @@ a2 :> p[2]] : p \in pairs}

Inventory ==
  Meet(Base, {<<Hosting({h1}), Hosting({h2})>>, <<Hosting({h1, h2}), Hosting({})>>,
              <<Hosting({h1, h3}), DropHost(h1)>>, <<Hosting({h2}), DropHost(h2)>>,
              <<Hosting({h1}), DropGroup>>, <<Assign(h1, p2), DropProfile>>,
              <<Assign(h1, None), Assign(h2, p1)>>, <<DropHost(h1), Assign(h1, p1)>>,
              <<DropGroup, GroupOff>>, <<HostOff(h1), DropHost(h1)>>})
  \cup Meet([Base EXCEPT !.members = {}], {<<Hosting({h1}), Hosting({h2})>>,
                                           <<Hosting({h1}), Hosting({h1, h2})>>})
  \cup Meet(Small, {<<AddHost, DropProfile>>, <<AddProfile, AddGroup(c2)>>, <<AddHost, AddHost>>,
                      <<AddGroup(c1), Rename(g1, c2)>>})
  \cup Meet([Base EXCEPT !.edits = 1], {<<Hosting({h1}), Assign(h2, p1)>>})
  \cup Meet([Small EXCEPT !.edits = 1], {<<AddHost, AddProfile>>, <<AddGroup(c2), ProfileOff>>})

Rights ==
  {[Base EXCEPT !.session[a1] = Sso, !.request = a1 :> q @@ a2 :> List,
                !.role[ops] = r[1], !.mapping[<<staff, ops>>] = r[2], !.edits = 2] :
     q \in {List, HostOff(h1)},
     r \in {<<None, "none">>} \cup {Having("none"), Having("write")} \X {"on", "none"}}

Event(o) == [op |-> o, groups |-> {c1}, system |-> s1, password |-> TRUE]
Fresh    == [Base EXCEPT !.accounts = {}]
\* Two groups of s1, one host in each.
Two == [Base EXCEPT !.group[g2] = Code(s1, c2), !.members = {<<g1, h1>>, <<g2, h2>>}]

\* Who meets the run, and what it finds.
Meets(base) == Meet(base, {<<q, List>> : q \in {Hosting({h1}), HostOff(h1), ProfileOff, GroupOff,
                                                DropHost(h2), DropProfile}})
Fleet ==
  {[b EXCEPT !.event = Event("create")] : b \in Meets(Fresh)}
  \cup {[b EXCEPT !.event = Event("change")] : b \in Meets(Base)}
  \cup {[Base EXCEPT !.event = Event("delete")],
        [Fresh EXCEPT !.event = [Event("create") EXCEPT !.password = FALSE]]}
  \cup {[Base EXCEPT !.event = Event(o), !.accounts = {h1}] : o \in {"create", "change", "delete"}}
  \cup {[Base EXCEPT !.event = [Event("change") EXCEPT !.groups = cs], !.edits = 1] :
          cs \in {{}, {c1, c2}, {c1}}}
  \cup {[b EXCEPT !.event = [Event("change") EXCEPT !.groups = cs]] : cs \in {{c1}, {c1, c2}},
          b \in Meet(Two, {<<Rename(g1, c3), Rename(g2, c1)>>})}

MCScenarios == Inventory \cup Rights \cup Fleet
MCRoleEdits == {Having("none"), Having("write"),
                [enabled |-> FALSE, level |-> Level("write")]}
=============================================================================

------------------------------ MODULE LinuxFleet ------------------------------
(***************************************************************************)
(* LinuxFleetController and LinuxFleetService: the inventory of hosts,     *)
(* credential profiles and server groups behind the ssh-sudo-fleet         *)
(* provider, and the requests of administrators on it.  Every query is a   *)
(* step; the statements of setGroupHosts' transaction are steps of their   *)
(* own, as PostgreSQL runs them under READ COMMITTED.                      *)
(***************************************************************************)
EXTENDS AdminRbac

CONSTANTS Systems, Hosts, Profiles, ServerGroups,
          Codes,     \* of server groups: events name the groups by them
          Admins,
          Keep       \* a field that an update leaves out

VARIABLES
  system,   \* TargetSystem.type
  profile,  \* LinuxCredentialProfile
  host,     \* LinuxHost
  group,    \* LinuxServerGroup
  members,  \* LinuxServerGroupHost, committed
  session,  \* per administrator
  request,  \* per administrator
  pc,
  of,       \* the target system a request is about
  type,     \* ... and its type, when it was read
  granted,  \* the roles that were read for the session
  aim,      \* setGroupHosts: the rows its DELETE found
  tx,       \* setGroupHosts: the rows deleted and inserted so far, or None
  answer    \* "none", "ok", "forbidden", "failed"

inventory == <<profile, host, group, members>>
requests  == <<session, request, pc, of, type, granted, aim, tx, answer>>

ProfileRows == [system : Systems, enabled : BOOLEAN]
HostRows    == [system : Systems, enabled : BOOLEAN, profile : Profiles \cup {None}]
GroupRows   == [system : Systems, enabled : BOOLEAN, code : Codes]

Creates == {"createProfile", "createHost", "createGroup"}
Updates == {"updateProfile", "updateHost", "updateGroup"}
Deletes == {"deleteProfile", "deleteHost", "deleteGroup"}

\* A route is about one table.
Fits(q) ==
  /\ q.op \in {"createProfile", "updateProfile", "deleteProfile"} => q.id \in Profiles
  /\ q.op \in {"createHost", "updateHost", "deleteHost"} => q.id \in Hosts
  /\ q.op \in {"createGroup", "updateGroup", "deleteGroup", "setGroupHosts"} =>
       q.id \in ServerGroups
  /\ q.op = "createGroup" => q.code \in Codes

Requests == {q \in [op : {"list", "setGroupHosts"} \cup Creates \cup Updates \cup Deletes,
                    id : Hosts \cup Profiles \cup ServerGroups, system : Systems,
                    profile : Profiles \cup {None, Keep}, enabled : {"on", "off", "keep"},
                    code : Codes \cup {Keep}, hosts : SUBSET Hosts] : Fits(q)}

ASSUME FleetAssumption ==
  /\ Absent \cap (ProfileRows \cup HostRows \cup GroupRows \cup Types) = {}
  /\ {None, Keep} \cap Profiles = {} /\ None # Keep
  /\ None \notin [del : SUBSET (ServerGroups \X Hosts), add : SUBSET (ServerGroups \X Hosts)]
  /\ "linux" \in Types

FleetTypeOK ==
  /\ RbacTypeOK
  /\ system \in [Systems -> Types \cup Absent]
  /\ profile \in [Profiles -> ProfileRows \cup Absent]
  /\ host \in [Hosts -> HostRows \cup Absent]
  /\ group \in [ServerGroups -> GroupRows \cup Absent]
  /\ members \subseteq ServerGroups \X Hosts
  /\ session \in [Admins -> Sessions] /\ request \in [Admins -> Requests]
  /\ pc \in [Admins -> {"new", "type", "mappings", "roles", "grants", "work", "profile", "write",
                        "count", "delete", "clear", "insert", "commit", "done"}]
  /\ of \in [Admins -> Systems \cup {None}] /\ type \in [Admins -> Types \cup {None}]
  /\ granted \in [Admins -> SUBSET Roles]
  /\ aim \in [Admins -> SUBSET (ServerGroups \X Hosts)]
  /\ tx \in [Admins -> [del : SUBSET (ServerGroups \X Hosts),
                        add : SUBSET (ServerGroups \X Hosts)] \cup {None}]
  /\ answer \in [Admins -> {"none", "ok", "forbidden", "failed"}]

HostsOf(g) == {h \in Hosts : <<g, h>> \in members}

-----------------------------------------------------------------------------
(***************************************************************************)
(* The gate of the controller: the target system of the row, its type, the *)
(* permissions of the session.                                             *)
(***************************************************************************)
Access(q) == IF q.op = "list" THEN "read" ELSE "write"

Row(q) == CASE q.op \in {"updateProfile", "deleteProfile"} -> profile[q.id]
            [] q.op \in {"updateHost", "deleteHost"}       -> host[q.id]
            [] OTHER                                       -> group[q.id]

Answers(a, how) ==
  /\ pc' = [pc EXCEPT ![a] = "done"] /\ answer' = [answer EXCEPT ![a] = how]
  /\ tx' = [tx EXCEPT ![a] = None]
Moves(a, next) == pc' = [pc EXCEPT ![a] = next] /\ UNCHANGED answer

StaysPut == UNCHANGED <<role, mapping, system, inventory, session, request>>

\* targetSystemIdForHost and its like
Arrives(a) ==
  LET q == request[a]
  IN /\ pc[a] = "new" /\ StaysPut /\ UNCHANGED <<type, granted, aim>>
     /\ \/ /\ q.op \in Creates \cup {"list"}
           /\ of' = [of EXCEPT ![a] = q.system] /\ Moves(a, "type") /\ UNCHANGED tx
        \/ /\ q.op \notin Creates \cup {"list"} /\ Row(q) \notin Absent
           /\ of' = [of EXCEPT ![a] = Row(q).system] /\ Moves(a, "type") /\ UNCHANGED tx
        \/ /\ q.op \notin Creates \cup {"list"} /\ Row(q) \in Absent
           /\ Answers(a, "failed") /\ UNCHANGED of

\* connectorTypeByTargetSystemId; isSuperadminSession
ReadsType(a) ==
  /\ pc[a] = "type" /\ StaysPut /\ UNCHANGED <<of, granted, aim>>
  /\ \/ /\ system[of[a]] \notin Absent
        /\ type' = [type EXCEPT ![a] = system[of[a]]]
        /\ Moves(a, IF session[a].local THEN "work" ELSE "mappings") /\ UNCHANGED tx
     \/ system[of[a]] \in Absent /\ Answers(a, "failed") /\ UNCHANGED type

ReadsMappings(a) ==
  /\ pc[a] = "mappings" /\ StaysPut
  /\ granted' = [granted EXCEPT ![a] = MappedRoles(session[a])]
  /\ Moves(a, "roles") /\ UNCHANGED <<of, type, aim, tx>>

\* include: the roles and their permissions are two further queries.  A role deleted
\* since leaves its mapping without one, and Prisma throws.
ReadsRoles(a) ==
  /\ pc[a] = "roles" /\ StaysPut /\ UNCHANGED <<of, type, granted, aim>>
  /\ IF \E r \in granted[a] : role[r] \in Absent
       THEN Answers(a, "failed") ELSE Moves(a, "grants") /\ UNCHANGED tx

ReadsGrants(a) ==
  /\ pc[a] = "grants" /\ StaysPut /\ UNCHANGED <<of, type, granted, aim>>
  /\ IF Grants(granted[a], type[a], Access(request[a]))
       THEN Moves(a, "work") /\ UNCHANGED tx ELSE Answers(a, "forbidden")

-----------------------------------------------------------------------------
(***************************************************************************)
(* The checks of the service                                               *)
(***************************************************************************)
\* requireLinuxTargetSystem
RequiresLinux(a) ==
  LET q == request[a]
  IN /\ pc[a] = "work" /\ q.op \in Creates \cup {"list"}
     /\ StaysPut /\ UNCHANGED <<of, type, granted, aim>>
     /\ IF system[of[a]] # "linux" THEN Answers(a, "failed")
        ELSE IF q.op = "list" THEN Answers(a, "ok")
        ELSE /\ Moves(a, IF q.op = "createHost" /\ q.profile \in Profiles
                           THEN "profile" ELSE "write")
             /\ UNCHANGED tx

\* findUnique of the row to change; the deletes go without.
FindsRow(a) ==
  LET q == request[a]
  IN /\ pc[a] = "work" /\ q.op \in Updates \cup {"setGroupHosts"}
     /\ StaysPut /\ UNCHANGED <<type, granted, aim>>
     /\ \/ Row(q) \in Absent /\ Answers(a, "failed") /\ UNCHANGED of
        \/ /\ Row(q) \notin Absent
           /\ of' = [of EXCEPT ![a] = Row(q).system]
           /\ Moves(a, CASE q.op = "setGroupHosts" -> "count"
                         [] q.op = "updateHost" /\ q.profile \in Profiles -> "profile"
                         [] OTHER -> "write")
           /\ UNCHANGED tx

\* Variant: the profile is looked up by its id alone.
RequiresAnyProfile(a) ==
  LET p == profile[request[a].profile]
  IN /\ pc[a] = "profile" /\ StaysPut /\ UNCHANGED <<of, type, granted, aim>>
     /\ IF p \notin Absent THEN Moves(a, "write") /\ UNCHANGED tx ELSE Answers(a, "failed")

\* requireCredentialProfile
RequiresProfile(a) ==
  LET p == profile[request[a].profile]
  IN /\ pc[a] = "profile" /\ StaysPut /\ UNCHANGED <<of, type, granted, aim>>
     /\ IF p \notin Absent /\ p.system = of[a]
          THEN Moves(a, "write") /\ UNCHANGED tx ELSE Answers(a, "failed")

\* setGroupHosts counts the hosts of the group's target system.
CountsHosts(a) ==
  /\ pc[a] = "count" /\ StaysPut /\ UNCHANGED <<of, type, granted, aim>>
  /\ IF \A h \in request[a].hosts : host[h] \notin Absent /\ host[h].system = of[a]
       THEN Moves(a, "delete") /\ UNCHANGED tx ELSE Answers(a, "failed")

-----------------------------------------------------------------------------
(***************************************************************************)
(* Writes                                                                  *)
(***************************************************************************)
\* A row that an open transaction deletes or refers to cannot be deleted by another.
Open(b)         == IF tx[b] = None THEN {} ELSE tx[b].del \cup tx[b].add
GroupLocked(g)  == \E b \in Admins, h \in Hosts : <<g, h>> \in Open(b)
HostLocked(h)   == \E b \in Admins, g \in ServerGroups : <<g, h>> \in Open(b)

\* Variant: a field that is left out is written all the same.
AssignedAsGiven(q, old) == q.profile

Assigned(q, old) == IF q.profile = Keep THEN old ELSE q.profile
Flag(q, old)     == IF q.enabled = "keep" THEN old ELSE q.enabled = "on"
Coded(q, old)    == IF q.code = Keep THEN old ELSE q.code
There(p)         == p \in Profiles => profile[p] \notin Absent      \* the foreign key
Free(c, s, g)    == \A o \in ServerGroups \ {g} :                   \* the unique index
                      group[o] \notin Absent /\ group[o].system = s => group[o].code # c

WritesProfile(a) ==
  LET q == request[a]
  IN /\ UNCHANGED <<group, members>>
     /\ \/ /\ q.op = "createProfile" /\ profile[q.id] = None /\ system[of[a]] \notin Absent
           /\ profile' = [profile EXCEPT ![q.id] = [system |-> of[a], enabled |-> Flag(q, TRUE)]]
           /\ UNCHANGED host
        \/ /\ q.op = "updateProfile" /\ profile[q.id] \notin Absent
           /\ profile' = [profile EXCEPT ![q.id].enabled = Flag(q, @)]
           /\ UNCHANGED host
        \/ /\ q.op = "deleteProfile" /\ profile[q.id] \notin Absent     \* onDelete: SetNull
           /\ profile' = [profile EXCEPT ![q.id] = Gone]
           /\ host' = [h \in Hosts |-> IF host[h] \notin Absent /\ host[h].profile = q.id
                                         THEN [host[h] EXCEPT !.profile = None] ELSE host[h]]

WritesHost(a) ==
  LET q == request[a]
  IN /\ UNCHANGED <<profile, group>>
     /\ \/ /\ q.op = "createHost" /\ host[q.id] = None /\ system[of[a]] \notin Absent
           /\ There(q.profile)
           /\ host' = [host EXCEPT ![q.id] =
                         [system |-> of[a], enabled |-> Flag(q, TRUE),
                          profile |-> Assigned(q, None)]]
           /\ UNCHANGED members
        \/ /\ q.op = "updateHost" /\ host[q.id] \notin Absent /\ There(q.profile)
           /\ host' = [host EXCEPT ![q.id].enabled = Flag(q, @),
                                   ![q.id].profile = Assigned(q, @)]
           /\ UNCHANGED members
        \/ /\ q.op = "deleteHost" /\ host[q.id] \notin Absent           \* onDelete: Cascade
           /\ host' = [host EXCEPT ![q.id] = Gone]
           /\ members' = {m \in members : m[2] # q.id}

WritesGroup(a) ==
  LET q == request[a]
  IN /\ UNCHANGED <<profile, host>>
     /\ \/ /\ q.op = "createGroup" /\ group[q.id] = None /\ system[of[a]] \notin Absent
           /\ Free(q.code, of[a], q.id)
           /\ group' = [group EXCEPT ![q.id] =
                          [system |-> of[a], enabled |-> Flag(q, TRUE), code |-> q.code]]
           /\ UNCHANGED members
        \/ /\ q.op = "updateGroup" /\ group[q.id] \notin Absent
           /\ Free(Coded(q, group[q.id].code), group[q.id].system, q.id)
           /\ group' = [group EXCEPT ![q.id].enabled = Flag(q, @), ![q.id].code = Coded(q, @)]
           /\ UNCHANGED members
        \/ /\ q.op = "deleteGroup" /\ group[q.id] \notin Absent         \* onDelete: Cascade
           /\ group' = [group EXCEPT ![q.id] = Gone]
           /\ members' = {m \in members : m[1] # q.id}

Writing(a) == pc[a] = "write" \/ (pc[a] = "work" /\ request[a].op \in Deletes)
Waiting(a) == \/ request[a].op = "deleteHost" /\ HostLocked(request[a].id)
              \/ request[a].op = "deleteGroup" /\ GroupLocked(request[a].id)

Writes(a) ==
  /\ Writing(a) /\ ~Waiting(a)
  /\ WritesProfile(a) \/ WritesHost(a) \/ WritesGroup(a)
  /\ Answers(a, "ok")
  /\ UNCHANGED <<role, mapping, system, session, request, of, type, granted, aim>>

\* The row is gone or a foreign key is violated, or the name or the code is taken: names
\* are not modelled, so that any may be.
WriteFails(a) ==
  /\ Writing(a) /\ (request[a].op \in Deletes => Row(request[a]) \in Absent)
  /\ Answers(a, "failed")
  /\ StaysPut /\ UNCHANGED <<of, type, granted, aim>>

-----------------------------------------------------------------------------
(***************************************************************************)
(* The transaction of setGroupHosts                                        *)
(***************************************************************************)
\* deleteMany sees the rows committed when it begins ...
DeleteSees(a) ==
  /\ pc[a] = "delete" /\ StaysPut
  /\ aim' = [aim EXCEPT ![a] = {m \in members : m[1] = request[a].id}]
  /\ Moves(a, "clear") /\ UNCHANGED <<of, type, granted, tx>>

\* ... waits for the transactions that are deleting them, and deletes those left: a row
\* deleted and inserted again is a new one, which it does not see.
DeleteClears(a) ==
  /\ pc[a] = "clear" /\ StaysPut
  /\ \A b \in Admins \ {a} : Open(b) \cap aim[a] = {}
  /\ tx' = [tx EXCEPT ![a] = [del |-> aim[a] \cap members, add |-> {}]]
  /\ Moves(a, "insert") /\ UNCHANGED <<of, type, granted, aim>>

\* createMany: the unique index waits for a row another transaction is inserting.
NewRows(a) == {<<request[a].id, h>> : h \in request[a].hosts}
InsertWaits(a) == \E b \in Admins \ {a} : Open(b) \cap NewRows(a) # {}
Insertable(a) ==
  /\ NewRows(a) \cap (members \ tx[a].del) = {}
  /\ group[request[a].id] \notin Absent
  /\ \A h \in request[a].hosts : host[h] \notin Absent

Inserts(a) ==
  /\ pc[a] = "insert" /\ StaysPut /\ ~InsertWaits(a) /\ (Insertable(a) \/ NewRows(a) = {})
  /\ tx' = [tx EXCEPT ![a].add = NewRows(a)]
  /\ Moves(a, "commit") /\ UNCHANGED <<of, type, granted, aim>>

InsertFails(a) ==
  /\ pc[a] = "insert" /\ StaysPut /\ ~InsertWaits(a) /\ ~Insertable(a) /\ NewRows(a) # {}
  /\ Answers(a, "failed") /\ UNCHANGED <<of, type, granted, aim>>

\* The rows that others have seen and that are deleted now.
Outdated(a) == [b \in Admins |-> IF b = a THEN {} ELSE aim[b] \ tx[a].del]

\* Variant: the old rows stay.
CommitsAdded(a) ==
  /\ pc[a] = "commit"
  /\ members' = members \cup tx[a].add
  /\ aim' = Outdated(a) /\ Answers(a, "ok")
  /\ UNCHANGED <<role, mapping, system, profile, host, group, session, request, of, type,
                 granted>>

Commits(a) ==
  /\ pc[a] = "commit"
  /\ members' = (members \ tx[a].del) \cup tx[a].add
  /\ aim' = Outdated(a) /\ Answers(a, "ok")
  /\ UNCHANGED <<role, mapping, system, profile, host, group, session, request, of, type,
                 granted>>

-----------------------------------------------------------------------------
\* TargetSystemService: a target system changes its type, or goes with its inventory.
SetType(s, t) ==
  /\ system[s] \notin Absent /\ system[s] # t
  /\ system' = [system EXCEPT ![s] = t]
  /\ UNCHANGED <<role, mapping, inventory, requests>>

Kept(rows, s) == [i \in DOMAIN rows |->
                    IF rows[i] \notin Absent /\ rows[i].system = s THEN Gone ELSE rows[i]]

DropSystem(s) ==
  /\ system[s] \notin Absent
  /\ \A h \in Hosts : host[h] \notin Absent /\ host[h].system = s => ~HostLocked(h)
  /\ \A g \in ServerGroups : group[g] \notin Absent /\ group[g].system = s => ~GroupLocked(g)
  /\ system' = [system EXCEPT ![s] = Gone]
  /\ profile' = Kept(profile, s) /\ host' = Kept(host, s) /\ group' = Kept(group, s)
  /\ members' = {m \in members : group'[m[1]] \notin Absent /\ host'[m[2]] \notin Absent}
  /\ UNCHANGED <<role, mapping, requests>>

Gate(a)  == \/ Arrives(a) \/ ReadsType(a) \/ ReadsMappings(a) \/ ReadsRoles(a)
            \/ ReadsGrants(a)
Serve(a) ==
  \/ RequiresLinux(a) \/ FindsRow(a) \/ RequiresProfile(a) \/ CountsHosts(a)
  \/ Writes(a) \/ WriteFails(a)
  \/ DeleteSees(a) \/ DeleteClears(a) \/ Inserts(a) \/ InsertFails(a) \/ Commits(a)
=============================================================================

------------------------------- MODULE FleetRun -------------------------------
(***************************************************************************)
(* The Linux fleet at work: administrators change the inventory while      *)
(* their rights are changed, and LinuxConnectorService carries out an      *)
(* event on the hosts of its server groups (provider ssh-sudo-fleet):      *)
(* executeFleetUserOperation, with the four queries of resolveFleetHosts,  *)
(* and one SSH session after the other.                                    *)
(***************************************************************************)
EXTENDS LinuxFleet

CONSTANTS Scenarios,   \* how the inventory, the roles and the requests may begin
          RoleEdits,   \* what a role may be changed to
          MaxFaults    \* bound: SSH and secret faults in a behaviour

VARIABLES
  event,    \* [op, groups, system, password]: a "create", a "change" or a physical
            \* "delete" of an account, with or without the password a create needs
  stage,    \* of executeFleetUserOperation
  found,    \* server groups it has read
  list,     \* hosts it has read and not yet served
  chosen,   \* per host, the profile it was read with
  usable,   \* hosts read with an enabled profile
  current,  \* the host being served
  failed,   \* a host of the run has failed
  outcome,  \* "none", "ok", "refused"
  accounts, \* hosts that have the account
  has,      \* per host: what the event asks for is "absent", "half" made, "done"
  faults, edits, \* faults so far, and edits of roles and target systems still to come
  allowed, denied, \* history, per administrator: the session was permitted, or not,
                   \* at some moment of the request
  crossings,       \* history, per administrator: edits during the request, up to 2
  asked, exact,    \* history, per group: the hosts last asked for; no overlap since
  crossed,  \* history, per administrator: another setGroupHosts committed meanwhile
  due,      \* history: hosts that were the run's from its start until it read them
  offered,  \* history: hosts that were in a group of the event, or enabled, during a run
  cut       \* history: hosts where a command of the run was cut off without an effect

worker  == <<event, stage, found, list, chosen, usable, current, failed, outcome, accounts, has,
             faults>>
rights  == <<allowed, denied, crossings>>
history == <<rights, asked, exact, crossed, due, offered, cut>>
vars    == <<role, mapping, system, inventory, requests, worker, edits, history>>

FleetEvents == [op : {"create", "change", "delete"}, groups : SUBSET Codes, system : Systems,
                password : BOOLEAN]

ASSUME FleetRunAssumption ==
  /\ MaxFaults \in Nat /\ None \notin Hosts
  /\ RoleEdits \subseteq [enabled : BOOLEAN, level : [Types -> Levels]]

\* The tables begin as the services leave them: rows refer to rows that are there, and of
\* their own target system.
ASSUME ScenarioAssumption ==
  \A c \in Scenarios :
    /\ c.role \in [Roles -> RoleRows \cup Absent]
    /\ c.mapping \in [IdpGroups \X Roles -> {"none", "off", "on"}]
    /\ \A m \in IdpGroups \X Roles : c.role[m[2]] \in Absent => c.mapping[m] = "none"
    /\ c.system \in [Systems -> Types \cup Absent]
    /\ c.profile \in [Profiles -> ProfileRows \cup Absent]
    /\ c.host \in [Hosts -> HostRows \cup Absent]
    /\ c.group \in [ServerGroups -> GroupRows \cup Absent]
    /\ \A g, o \in ServerGroups :
         c.group[g] \notin Absent /\ c.group[o] \notin Absent /\ g # o =>
           c.group[g].system # c.group[o].system \/ c.group[g].code # c.group[o].code
    /\ \A h \in Hosts : c.host[h] \notin Absent /\ c.host[h].profile # None =>
         /\ c.profile[c.host[h].profile] \notin Absent
         /\ c.profile[c.host[h].profile].system = c.host[h].system
    /\ c.members \subseteq ServerGroups \X Hosts
    /\ \A m \in c.members : /\ c.group[m[1]] \notin Absent /\ c.host[m[2]] \notin Absent
                             /\ c.group[m[1]].system = c.host[m[2]].system
    /\ c.session \in [Admins -> Sessions] /\ c.request \in [Admins -> Requests]
    /\ c.event \in FleetEvents \cup {None} /\ c.accounts \subseteq Hosts /\ c.edits \in Nat

TypeOK ==
  /\ FleetTypeOK
  /\ event \in FleetEvents \cup {None}
  /\ stage \in {"idle", "system", "groups", "members", "hosts", "profiles", "next", "first",
                "second", "stuck", "done"}
  /\ found \subseteq ServerGroups /\ list \subseteq Hosts /\ usable \subseteq Hosts /\ current \in Hosts \cup {None}
  /\ chosen \in [Hosts -> Profiles \cup {None}]
  /\ failed \in BOOLEAN /\ outcome \in {"none", "ok", "refused"}
  /\ accounts \subseteq Hosts /\ has \in [Hosts -> {"absent", "half", "done"}]
  /\ faults \in 0 .. MaxFaults /\ edits \in Nat
  /\ allowed \in [Admins -> BOOLEAN] /\ denied \in [Admins -> BOOLEAN]
  /\ crossings \in [Admins -> 0 .. 2] /\ crossed \in [Admins -> BOOLEAN]
  /\ asked \in [ServerGroups -> SUBSET Hosts] /\ exact \in [ServerGroups -> BOOLEAN]
  /\ due \subseteq Hosts /\ offered \subseteq Hosts \X {"member", "enabled"} /\ cut \subseteq Hosts

Init ==
  /\ \E c \in Scenarios :
       /\ role = c.role /\ mapping = c.mapping /\ system = c.system
       /\ profile = c.profile /\ host = c.host /\ group = c.group /\ members = c.members
       /\ session = c.session /\ request = c.request /\ event = c.event /\ edits = c.edits
       /\ accounts = c.accounts
       /\ asked = [g \in ServerGroups |-> {h \in Hosts : <<g, h>> \in c.members}]
  /\ pc = [a \in Admins |-> "new"] /\ answer = [a \in Admins |-> "none"]
  /\ of = [a \in Admins |-> None] /\ type = [a \in Admins |-> None]
  /\ granted = [a \in Admins |-> {}] /\ aim = [a \in Admins |-> {}]
  /\ tx = [a \in Admins |-> None]
  /\ stage = "idle" /\ found = {} /\ list = {} /\ usable = {} /\ current = None /\ failed = FALSE
  /\ chosen = [h \in Hosts |-> None]
  /\ outcome = "none" /\ has = [h \in Hosts |-> "absent"] /\ faults = 0
  /\ allowed = [a \in Admins |-> FALSE] /\ denied = [a \in Admins |-> FALSE]
  /\ crossings = [a \in Admins |-> 0]
  /\ exact = [g \in ServerGroups |-> TRUE] /\ crossed = [a \in Admins |-> FALSE]
  /\ due = {} /\ offered = {} /\ cut = {}

-----------------------------------------------------------------------------
(***************************************************************************)
(* An event on the fleet                                                   *)
(***************************************************************************)
FleetStays == UNCHANGED <<role, mapping, system, inventory, requests, edits, event>>

\* execute catches what is thrown: success is false.
Refuses == stage' = "done" /\ outcome' = "refused"

\* The first run, and its repeats: `success: false` is no error, so that neither the retry
\* loop nor the DLQ repeats it, but the IDM or an operator, who sends the event again.
Start ==
  /\ event # None /\ stage \in {"idle", "done"} /\ outcome # "ok"
  /\ stage' = "system" /\ outcome' = "none" /\ failed' = FALSE /\ found' = {} /\ list' = {}
  /\ usable' = {} /\ current' = None /\ chosen' = [h \in Hosts |-> None] /\ cut' = {}
  /\ FleetStays /\ UNCHANGED <<accounts, has, faults>>

Reading(from, to, good) ==
  /\ stage = from /\ FleetStays
  /\ IF good THEN stage' = to /\ UNCHANGED outcome ELSE Refuses
  /\ UNCHANGED <<current, failed, accounts, has, faults, cut>>

\* fleetTargetSystem
ReadsSystem ==
  /\ Reading("system", "groups", system[event.system] = "linux")
  /\ UNCHANGED <<found, list, chosen, usable>>

\* The groups the event names by their codes.
Called(g) == /\ group[g] \notin Absent /\ group[g].enabled
             /\ group[g].system = event.system /\ group[g].code \in event.groups
Calls     == {g \in ServerGroups : Called(g)}

\* findMany of the groups; each that is named must be found.
ReadsGroups ==
  /\ Reading("groups", "members",
             event.groups # {} /\ Cardinality(Calls) = Cardinality(event.groups))
  /\ found' = Calls
  /\ UNCHANGED <<list, chosen, usable>>

\* include: Prisma reads the memberships, the hosts and the profiles in queries that
\* follow, outside of a transaction.
ReadsMembers ==
  /\ Reading("members", "hosts", TRUE)
  /\ list' = UNION {HostsOf(g) : g \in found}
  /\ UNCHANGED <<found, chosen, usable>>

\* A host deleted since leaves its membership without one, and Prisma throws; disabled
\* ones are passed over.
ReadsHosts ==
  /\ Reading("hosts", "profiles",
             /\ \A h \in list : host[h] \notin Absent
             /\ \E h \in list : host[h] \notin Absent /\ host[h].enabled)
  /\ list' = {h \in list : host[h] \notin Absent /\ host[h].enabled}
  /\ chosen' = [h \in Hosts |-> IF h \in list' THEN host[h].profile ELSE None]
  /\ UNCHANGED <<found, usable>>

Usable(p) == p \in Profiles /\ profile[p] \notin Absent /\ profile[p].enabled

ReadsProfiles ==
  /\ Reading("profiles", "next", TRUE)
  /\ usable' = {h \in list : Usable(chosen[h])}
  /\ UNCHANGED <<found, list, chosen>>

Running == FleetStays /\ UNCHANGED <<found, chosen, usable>>

\* hostSshConfig, outside the try of the loop: a host without an enabled profile ends
\* the whole operation, between the hosts that were served and those to come.
Configures ==
  /\ stage = "next" /\ Running /\ UNCHANGED <<failed, accounts, has, faults, cut>>
  /\ \E h \in list :
       /\ current' = h /\ list' = list \ {h}
       /\ IF h \in usable THEN stage' = "first" /\ UNCHANGED outcome ELSE Refuses

\* The PAM or the environment has no secret.
SecretFails ==
  /\ stage = "next" /\ list # {} /\ faults < MaxFaults /\ faults' = faults + 1
  /\ Refuses /\ Running /\ UNCHANGED <<list, current, failed, accounts, has, cut>>

\* Variant: usermod and its like fail when they find nothing to change.
CommandOnce == has[current] = "absent"

\* useradd refuses a login that exists; usermod, passwd and userdel one that does not.
CommandStands  == current \in accounts <=> event.op # "create"
\* password() throws when the event has none, with the account made; chpasswd needs it.
PasswordStands == event.password /\ current \in accounts

AfterFirst == IF event.op = "create" THEN "second" ELSE "next"
FirstTakes ==
  /\ has' = [has EXCEPT ![current] = IF event.op = "create" THEN "half" ELSE "done"]
  /\ accounts' = CASE event.op = "create" -> accounts \cup {current}
                   [] event.op = "delete" -> accounts \ {current}
                   [] OTHER -> accounts
SecondTakes == has' = [has EXCEPT ![current] = "done"] /\ UNCHANGED accounts
Fails       == failed' = TRUE /\ stage' = "next" /\ UNCHANGED <<accounts, has>>

\* One command, and chpasswd after useradd.
RunsFirst ==
  /\ stage = "first" /\ Running /\ UNCHANGED <<list, current, outcome, faults, cut>>
  /\ \/ CommandStands /\ FirstTakes /\ stage' = AfterFirst /\ UNCHANGED failed
     \/ ~CommandStands /\ Fails

RunsSecond ==
  /\ stage = "second" /\ Running /\ UNCHANGED <<list, current, outcome, faults, cut>>
  /\ \/ PasswordStands /\ SecondTakes /\ stage' = "next" /\ UNCHANGED failed
     \/ ~PasswordStands /\ Fails

CommandTakes == \/ stage = "first" /\ CommandStands /\ FirstTakes
                \/ stage = "second" /\ PasswordStands /\ SecondTakes

\* The connection breaks before or after the effect; or the command is killed, and
\* `close` without an exit code resolves like a success; or it never returns.
CommandFaults ==
  /\ stage = "first" \/ (stage = "second" /\ event.password)
  /\ faults < MaxFaults /\ faults' = faults + 1
  /\ \E takes \in BOOLEAN :
       /\ IF takes THEN CommandTakes ELSE UNCHANGED <<accounts, has>>
       /\ \/ failed' = TRUE /\ stage' = "next" /\ UNCHANGED cut
          \/ /\ cut' = IF takes THEN cut ELSE cut \cup {current}
             /\ stage' = (IF stage = "first" THEN AfterFirst ELSE "next") /\ UNCHANGED failed
          \/ stage' = "stuck" /\ UNCHANGED <<failed, cut>>
  /\ Running /\ UNCHANGED <<list, current, outcome>>

\* Variant: the summary is an answer like any other.
EndsAnyway ==
  /\ stage = "next" /\ list = {} /\ stage' = "done" /\ outcome' = "ok"
  /\ Running /\ UNCHANGED <<list, current, failed, accounts, has, faults, cut>>

\* All hosts were served; one that failed fails the event.
Ends ==
  /\ stage = "next" /\ list = {}
  /\ IF failed THEN Refuses ELSE stage' = "done" /\ outcome' = "ok"
  /\ Running /\ UNCHANGED <<list, current, failed, accounts, has, faults, cut>>

Works == \/ ReadsSystem \/ ReadsGroups \/ ReadsMembers \/ ReadsHosts \/ ReadsProfiles
         \/ Configures \/ RunsFirst \/ RunsSecond \/ Ends

-----------------------------------------------------------------------------
(***************************************************************************)
(* Edits of roles, mappings and target systems by others, each a commit    *)
(***************************************************************************)
EditsRights ==
  \E r \in Roles :
    \/ \E enabled \in BOOLEAN :
         CreateRole(r, enabled, {[type |-> t, canRead |-> FALSE, canWrite |-> TRUE] : t \in Types})
    \/ \E e \in RoleEdits : UpdateRole(r, e.enabled, e.level)
    \/ DeleteRole(r)
    \/ \E g \in IdpGroups, state \in {"on", "off"} :
         \/ CreateMapping(<<g, r>>, state) \/ DeleteMapping(<<g, r>>)
         \/ \E to \in Roles : UpdateMapping(<<g, r>>, <<g, to>>, state)

EditsSystem == \E s \in Systems : DropSystem(s) \/ \E t \in Types : SetType(s, t)

Edits ==
  /\ edits > 0 /\ edits' = edits - 1 /\ UNCHANGED <<worker, cut>>
  /\ \/ EditsRights /\ UNCHANGED <<system, inventory, requests>>
     \/ EditsSystem

-----------------------------------------------------------------------------
(***************************************************************************)
(* History, told from the step that is taken                               *)
(***************************************************************************)
InGate(a) == pc[a] \in {"type", "mappings", "roles", "grants"}
MayNow(a) == /\ system[of[a]] \notin Absent
             /\ Permitted(session[a], system[of[a]], Access(request[a]))

\* An update of a role may change at once what two queries read.
EditSize ==
  IF \E r \in Roles : /\ role[r] \notin Absent /\ role'[r] \notin Absent
                      /\ role[r].enabled # role'[r].enabled /\ role[r].level # role'[r].level
    THEN 2 ELSE 1

TracksRights ==
  /\ allowed' = [a \in Admins |-> allowed[a] \/ (InGate(a)' /\ MayNow(a)')]
  /\ denied'  = [a \in Admins |-> denied[a] \/ (InGate(a)' /\ ~MayNow(a)')]
  /\ crossings' = [a \in Admins |->
       IF edits' = edits \/ ~InGate(a) THEN crossings[a]
       ELSE IF crossings[a] = 0 THEN EditSize ELSE 2]

SetOf(a, g) == request[a].op = "setGroupHosts" /\ request[a].id = g
Committing(g) == {a \in Admins : SetOf(a, g) /\ pc[a] = "commit" /\ pc'[a] = "done"}

TracksSets ==
  /\ asked' = [g \in ServerGroups |->
       IF Committing(g) = {} THEN asked[g] ELSE UNION {request[a].hosts : a \in Committing(g)}]
  /\ exact' = [g \in ServerGroups |->
       IF Committing(g) = {} THEN exact[g] ELSE \A a \in Committing(g) : ~crossed[a]]
  /\ crossed' = [b \in Admins |->
       \/ crossed[b]
       \/ /\ pc[b] \in {"clear", "insert", "commit"}
          /\ \E g \in ServerGroups : SetOf(b, g) /\ Committing(g) \ {b} # {}]

\* The hosts of the run: of the groups it has read, or would read now.
HostsIn(gs) == {h \in Hosts : \E g \in gs : <<g, h>> \in members}
Named == IF event = None THEN {}
         ELSE HostsIn(IF stage \in {"members", "hosts"} THEN found ELSE Calls)
On    == {h \in Hosts : host[h] \notin Absent /\ host[h].enabled}

TracksHosts ==
  /\ due' = IF stage' = "system" /\ stage # "system" THEN (Named \cap On)'
            ELSE IF stage' \in {"system", "groups", "members", "hosts"} THEN due \cap (Named \cap On)'
            ELSE due
  /\ offered' = IF stage' \notin {"system", "groups", "members", "hosts"} THEN offered
                ELSE offered \cup Named' \X {"member"} \cup On' \X {"enabled"}

-----------------------------------------------------------------------------
Tracks == TracksRights /\ TracksSets /\ TracksHosts

Administers(a) == (Gate(a) \/ Serve(a)) /\ UNCHANGED <<worker, edits, cut>> /\ Tracks
Repeats        == Start /\ Tracks
Progresses     == Works /\ Tracks
Suffers        == (SecretFails \/ CommandFaults) /\ Tracks

Next ==
  \/ \E a \in Admins : Administers(a)
  \/ Edits /\ Tracks
  \/ Repeats \/ Progresses \/ Suffers

Spec == Init /\ [][Next]_vars

\* Queries are answered, and SSH commands but for those that get stuck; who is told that
\* the event failed sends it again (Start).
FairSpec == Spec /\ WF_vars(Progresses) /\ WF_vars(Repeats)

-----------------------------------------------------------------------------
(***************************************************************************)
(* Properties                                                              *)
(***************************************************************************)
\* A group has hosts of its own target system, and a host a profile of its own: what
\* was checked before the write still holds after it, whoever wrote in between.
SameTarget ==
  /\ \A m \in members : /\ group[m[1]] \notin Absent /\ host[m[2]] \notin Absent
                        /\ group[m[1]].system = host[m[2]].system
  /\ \A h \in Hosts : host[h] \notin Absent /\ host[h].profile # None =>
       /\ profile[host[h].profile] \notin Absent
       /\ profile[host[h].profile].system = host[h].system

\* A setGroupHosts that no other on the group overlapped leaves just the hosts it names,
\* as far as they were not deleted since.
AsOneAsked ==
  \A g \in ServerGroups : group[g] \notin Absent /\ exact[g] =>
    HostsOf(g) = {h \in asked[g] : host[h] \notin Absent}

\* A request passes the gate, or is forbidden, as the session's rights were at some one
\* moment of the request - though the gate reads them in three queries - unless two
\* edits fell between these.
DecisionHolds ==
  \A a \in Admins : crossings[a] < 2 =>
    /\ ~InGate(a) /\ pc[a] # "new" /\ answer[a] \in {"none", "ok"} => allowed[a]
    /\ answer[a] = "forbidden" => denied[a]

\* An event on the fleet succeeds only when every host that was its own from the start
\* is as it asks - one that failed is not lost among the others - but for a host where
\* the command was killed before it took effect, which the code takes for a success; and
\* it touches only enabled hosts of the groups it names.
FleetOkMeansAll ==
  /\ outcome = "ok" => \A h \in due \ cut :
       has[h] = "done" /\ (h \in accounts <=> event.op # "delete")
  /\ \A h \in Hosts : has[h] # "absent" => {h} \X {"member", "enabled"} \subseteq offered

\* The inventory and the hosts allow the change of an account.
Serviceable ==
  /\ system[event.system] = "linux"
  /\ event.groups # {} /\ \A c \in event.groups : \E g \in Calls : group[g].code = c
  /\ HostsIn(Calls) \cap On # {} /\ HostsIn(Calls) \cap On \subseteq accounts
  /\ \A h \in HostsIn(Calls) \cap On : Usable(host[h].profile)

\* A change that failed on some hosts is done on all of them in the end, when it is sent
\* again often enough, every host has the account and the inventory allows it - or an
\* SSH command hangs, and is never repeated.  This is so of changes only: a creation or a
\* deletion that was done on one host and failed on another is refused by the first one
\* for ever after.
FleetSettles ==
  []<>(event # None /\ event.op = "change" =>
         outcome = "ok" \/ stage = "stuck" \/ ~Serviceable)
=============================================================================

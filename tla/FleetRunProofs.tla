---------------------------- MODULE FleetRunProofs ----------------------------
(***************************************************************************)
(* Theorems of FleetRun, for any inventory and rights that begin as        *)
(* ScenarioAssumption says, and any number of administrators.  A step      *)
(* changes the inventory only as Keeps says, or by the commit of a         *)
(* setGroupHosts; Found says what a request has read and still relies on,  *)
(* Clears what its DELETE covers, Judges what the gate has read of the     *)
(* rights, Runs and Touched where the run over the hosts stands.           *)
(***************************************************************************)
EXTENDS FleetRun, TLAPS

(***************************************************************************)
(* The inductive invariant                                                 *)
(***************************************************************************)
\* Row i is, or was, one of target system s.
Was(rows, i, s) == rows[i] # None /\ (rows[i] # Gone => rows[i].system = s)

\* What the request of an administrator has found holds for as long as it is needed.
Found(a) ==
  LET q == request[a]
  IN /\ pc[a] \notin {"new", "done"} => of[a] \in Systems
     /\ pc[a] # "done" => answer[a] = "none"
     /\ pc[a] \notin {"insert", "commit"} => tx[a] = None
     /\ pc[a] = "profile" => q.op \in {"createHost", "updateHost"} /\ q.profile \in Profiles
     /\ pc[a] = "write" => q.op \in Creates \cup Updates
     /\ pc[a] \in {"count", "delete", "clear", "insert", "commit"} =>
          q.op = "setGroupHosts" /\ Was(group, q.id, of[a])
     /\ pc[a] = "write" /\ q.op \in {"createHost", "updateHost"} /\ q.profile \in Profiles =>
          Was(profile, q.profile, of[a])
     /\ pc[a] \in {"profile", "write"} /\ q.op = "updateHost" => Was(host, q.id, of[a])
     /\ pc[a] \in {"delete", "clear", "insert", "commit"} =>
          \A h \in q.hosts : Was(host, h, of[a])
     /\ pc[a] \in {"insert", "commit"} => tx[a] # None
     /\ pc[a] = "insert" => tx[a].add = {}
     /\ pc[a] = "commit" => tx[a].add = NewRows(a)

\* The rows that an open transaction inserts refer to rows that are there.
Referred == \A a \in Admins : pc[a] = "commit" =>
  \A m \in NewRows(a) : group[m[1]] \notin Absent /\ host[m[2]] \notin Absent

\* A transaction deletes rows of its group, and all of them unless another has committed
\* on the group since.
Clears(a) ==
  LET Own == {m \in members : m[1] = request[a].id}
  IN /\ pc[a] = "clear" => \A m \in aim[a] : m[1] = request[a].id
     /\ pc[a] = "clear" /\ ~crossed[a] => Own \subseteq aim[a]
     /\ pc[a] \in {"insert", "commit"} => \A m \in tx[a].del : m[1] = request[a].id
     /\ pc[a] \in {"insert", "commit"} /\ ~crossed[a] => Own \subseteq tx[a].del

AskedKnown ==
  \A g \in ServerGroups : /\ group[g] = None => asked[g] = {}
                          /\ \A h \in asked[g] : host[h] # None

Mapped == \A m \in IdpGroups \X Roles : role[m[2]] \in Absent => mapping[m] = "none"

\* What the gate has read of the rights, and what it will decide.
Decides(a, may) == (may => allowed[a]) /\ (~may => denied[a])
Judges(a) ==
  /\ InGate(a) => Decides(a, MayNow(a))
  /\ pc[a] \in {"mappings", "roles", "grants"} => ~session[a].local /\ type[a] \in Types
  /\ pc[a] \in {"mappings", "roles", "grants"} /\ crossings[a] = 0 => type[a] = system[of[a]]
  /\ pc[a] = "mappings" /\ crossings[a] < 2 =>
       Decides(a, Permitted(session[a], type[a], Access(request[a])))
  /\ pc[a] \in {"roles", "grants"} /\ crossings[a] = 0 => granted[a] = MappedRoles(session[a])
  /\ pc[a] \in {"roles", "grants"} /\ crossings[a] < 2 =>
       Decides(a, Grants(granted[a], type[a], Access(request[a])))

\* The hosts of the run: those that are due are to come, are served, or have failed it.
Early == {"system", "groups", "members", "hosts"}
Late  == {"next", "first", "second"}
Runs ==
  /\ stage \notin {"idle", "done"} => event # None /\ outcome = "none"
  /\ outcome = "ok" => stage = "done"
  /\ stage \in Early => due \subseteq Named \cap On
  /\ \A h \in Hosts : has[h] = "done" => (h \in accounts <=> event.op # "delete")
  /\ stage \in {"hosts", "profiles"} => due \subseteq list
  /\ stage \in {"first", "second"} => current \in Hosts
  /\ stage \in Late /\ ~failed => \A h \in due \ cut :
       h \in list \/ has[h] = "done" \/ (h = current /\ stage # "next")
  /\ stage = "second" => event.op = "create"
  /\ outcome = "ok" => \A h \in due \ cut : has[h] = "done"

Touched ==
  /\ stage \in Early => On \X {"enabled"} \subseteq offered /\ Named \X {"member"} \subseteq offered
  /\ stage = "hosts" => list \X {"member"} \subseteq offered
  /\ stage \in {"profiles"} \cup Late => list \X {"member", "enabled"} \subseteq offered
  /\ stage \in {"first", "second"} => {current} \X {"member", "enabled"} \subseteq offered
  /\ \A h \in Hosts : has[h] # "absent" => {h} \X {"member", "enabled"} \subseteq offered

-----------------------------------------------------------------------------
(***************************************************************************)
(* The inventory                                                           *)
(***************************************************************************)
InventoryOK ==
  /\ profile \in [Profiles -> ProfileRows \cup Absent]
  /\ host \in [Hosts -> HostRows \cup Absent]
  /\ group \in [ServerGroups -> GroupRows \cup Absent]
  /\ members \subseteq ServerGroups \X Hosts

\* A row that is gone stays gone, and one that is there stays in its target system.
Ages(rows, next) ==
  \A i \in DOMAIN rows :
    /\ rows[i] = Gone => next[i] = Gone
    /\ rows[i] \notin Absent =>
         next[i] = Gone \/ (next[i] \notin Absent /\ next[i].system = rows[i].system)

OwnProfiles ==
  \A h \in Hosts : host[h] \notin Absent /\ host[h].profile # None =>
    /\ profile[host[h].profile] \notin Absent
    /\ profile[host[h].profile].system = host[h].system

\* A change of the inventory other than the commit of a setGroupHosts.
Keeps ==
  /\ InventoryOK' /\ OwnProfiles'
  /\ Ages(profile, profile') /\ Ages(host, host') /\ Ages(group, group')
  /\ members' = {m \in members : group'[m[1]] \notin Absent /\ host'[m[2]] \notin Absent}
  /\ \A b \in Admins, g \in ServerGroups, h \in Hosts : <<g, h>> \in Open(b) =>
       /\ group[g] \notin Absent => group'[g] \notin Absent
       /\ host[h] \notin Absent => host'[h] \notin Absent

\* What the assumptions say of the ids of absent rows.
LEMMA Rows ==
  /\ None # Gone /\ Absent = {None, Gone} /\ None \notin Profiles /\ Keep \notin Profiles /\ Keep # None
  /\ \A r \in ProfileRows \cup HostRows \cup GroupRows : r \notin Absent
  /\ \A t \in Types : t \notin Absent
  BY RbacAssumption, FleetAssumption DEF Absent

LEMMA WasStays ==
  ASSUME NEW rows, NEW next, NEW i \in DOMAIN rows, NEW s, Ages(rows, next), Was(rows, i, s)
  PROVE  Was(next, i, s)
  BY Rows DEF Ages, Was

LEMMA AgesSame ==
  ASSUME NEW rows
  PROVE  Ages(rows, rows)
  BY DEF Ages

LEMMA AgesOne ==
  ASSUME NEW rows, NEW i \in DOMAIN rows, NEW r, rows[i] = None \/ r = Gone
         \/ (rows[i] \notin Absent /\ r \notin Absent /\ r.system = rows[i].system)
  PROVE  Ages(rows, [rows EXCEPT ![i] = r])
  BY Rows DEF Ages

LEMMA UnchangedKeeps ==
  ASSUME InventoryOK, SameTarget, UNCHANGED inventory
  PROVE  Keeps
<1>1. profile' = profile /\ host' = host /\ group' = group /\ members' = members
  BY DEF inventory
<1>2. members = {m \in members : group[m[1]] \notin Absent /\ host[m[2]] \notin Absent}
  BY DEF SameTarget
<1> QED BY <1>1, <1>2, AgesSame DEF Keeps, InventoryOK, OwnProfiles, SameTarget

\* The fields of the rows that are written.
LEMMA UpdatedRow ==
  ASSUME NEW r, NEW q \in Requests, r \in [system : Systems, enabled : BOOLEAN],
         NEW next, next = [r EXCEPT !.enabled = Flag(q, @)]
  PROVE  next \in [system : Systems, enabled : BOOLEAN] /\ next.system = r.system
<1>1. Flag(q, r.enabled) \in BOOLEAN
  BY DEF Flag
<1> QED BY <1>1

LEMMA UpdatedHost ==
  ASSUME NEW r \in HostRows, NEW q \in Requests,
         NEW next, next = [r EXCEPT !.enabled = Flag(q, @), !.profile = Assigned(q, @)]
  PROVE  /\ next \in HostRows /\ next.system = r.system
         /\ next.profile = IF q.profile = Keep THEN r.profile ELSE q.profile
<1>1. Flag(q, r.enabled) \in BOOLEAN
  BY DEF Flag, HostRows
<1>2. Assigned(q, r.profile) \in Profiles \cup {None}
  BY DEF Assigned, HostRows, Requests
<1> QED BY <1>1, <1>2 DEF HostRows, Assigned

LEMMA UpdatedGroup ==
  ASSUME NEW r \in GroupRows, NEW q \in Requests,
         NEW next, next = [r EXCEPT !.enabled = Flag(q, @), !.code = Coded(q, @)]
  PROVE  next \in GroupRows /\ next.system = r.system
<1>1. Flag(q, r.enabled) \in BOOLEAN
  BY DEF Flag, GroupRows
<1>2. Coded(q, r.code) \in Codes
  BY DEF Coded, GroupRows, Requests
<1> QED BY <1>1, <1>2 DEF GroupRows

LEMMA RequestFields ==
  ASSUME NEW q \in Requests
  PROVE  /\ q.op \in {"list", "setGroupHosts"} \cup Creates \cup Updates \cup Deletes
         /\ q.system \in Systems /\ q.profile \in Profiles \cup {None, Keep}
         /\ q.enabled \in {"on", "off", "keep"} /\ q.hosts \subseteq Hosts
         /\ q.op \in {"createProfile", "updateProfile", "deleteProfile"} => q.id \in Profiles
         /\ q.op \in {"createHost", "updateHost", "deleteHost"} => q.id \in Hosts
         /\ q.op \in {"createGroup", "updateGroup", "deleteGroup", "setGroupHosts"} =>
              q.id \in ServerGroups
         /\ q.op = "createGroup" => q.code \in Codes
  BY DEF Requests, Fits

LEMMA NewRow ==
  ASSUME NEW q \in Requests, NEW s \in Systems, NEW next,
         next = [system |-> s, enabled |-> Flag(q, TRUE)]
  PROVE  next \in [system : Systems, enabled : BOOLEAN]
<1>1. Flag(q, TRUE) \in BOOLEAN
  BY DEF Flag
<1> QED BY <1>1

LEMMA NewGroup ==
  ASSUME NEW q \in Requests, NEW s \in Systems, NEW c \in Codes, NEW next,
         next = [system |-> s, enabled |-> Flag(q, TRUE), code |-> c]
  PROVE  next \in GroupRows
<1>1. Flag(q, TRUE) \in BOOLEAN
  BY DEF Flag
<1> QED BY <1>1 DEF GroupRows

LEMMA NewHost ==
  ASSUME NEW q \in Requests, NEW s \in Systems, NEW next,
         next = [system |-> s, enabled |-> Flag(q, TRUE), profile |-> Assigned(q, None)]
  PROVE  /\ next \in HostRows /\ next.system = s
         /\ next.profile = IF q.profile = Keep THEN None ELSE q.profile
<1>1. Flag(q, TRUE) \in BOOLEAN
  BY DEF Flag
<1>2. Assigned(q, None) \in Profiles \cup {None}
  BY RequestFields DEF Assigned
<1> QED BY <1>1, <1>2 DEF HostRows, Assigned

-----------------------------------------------------------------------------
(***************************************************************************)
(* The writes of the service are changes of that kind                      *)
(***************************************************************************)
\* Only the profiles change.
LEMMA ProfilesKeep ==
  ASSUME InventoryOK, SameTarget, Ages(profile, profile'),
         profile' \in [Profiles -> ProfileRows \cup Absent],
         \A p \in Profiles : profile[p] \notin Absent => profile'[p] \notin Absent,
         UNCHANGED <<host, group, members>>
  PROVE  Keeps
<1>1. InventoryOK'
  BY DEF InventoryOK
<1>2. OwnProfiles'
  <2> SUFFICES ASSUME NEW h \in Hosts, host[h] \notin Absent, host[h].profile # None
               PROVE  /\ profile'[host[h].profile] \notin Absent
                      /\ profile'[host[h].profile].system = host[h].system
    BY DEF OwnProfiles
  <2>1. host[h] \in HostRows /\ host[h].profile \in Profiles
    BY DEF InventoryOK, HostRows
  <2>2. profile[host[h].profile] \notin Absent /\ profile[host[h].profile].system = host[h].system
    BY DEF SameTarget
  <2> QED BY <2>1, <2>2, Rows DEF Ages, InventoryOK
<1>3. members = {m \in members : group[m[1]] \notin Absent /\ host[m[2]] \notin Absent}
  BY DEF SameTarget
<1> QED BY <1>1, <1>2, <1>3, AgesSame DEF Keeps

LEMMA WritesProfileKeeps ==
  ASSUME NEW a \in Admins, InventoryOK, SameTarget, request[a] \in Requests, of[a] \in Systems
           \/ request[a].op \in Deletes,
         WritesProfile(a)
  PROVE  Keeps
<1> DEFINE q == request[a]
<1>0. group' = group /\ members' = members /\ profile \in [Profiles -> ProfileRows \cup Absent]
  BY DEF WritesProfile, InventoryOK
<1>1. CASE /\ q.op = "createProfile" /\ profile[q.id] = None /\ host' = host
           /\ profile' = [profile EXCEPT ![q.id] = [system |-> of[a], enabled |-> Flag(q, TRUE)]]
  <2>1. q.id \in Profiles /\ of[a] \in Systems
    BY <1>1, RequestFields DEF Deletes
  <2>2. PICK r : r = [system |-> of[a], enabled |-> Flag(q, TRUE)]
    OBVIOUS
  <2>3. r \in ProfileRows
    BY <2>1, <2>2, NewRow DEF ProfileRows
  <2>4. profile' = [profile EXCEPT ![q.id] = r]
    BY <1>1, <2>2
  <2>5. Ages(profile, profile')
    <3>1. q.id \in DOMAIN profile /\ profile[q.id] = None
      BY <1>0, <1>1, <2>1
    <3>2. Ages(profile, [profile EXCEPT ![q.id] = r])
      BY <3>1, AgesOne
    <3> QED BY <2>4, <3>2
  <2>6. profile' \in [Profiles -> ProfileRows \cup Absent]
    BY <1>0, <2>3, <2>4
  <2>7. \A p \in Profiles : profile[p] \notin Absent => profile'[p] \notin Absent
    BY <1>0, <2>1, <2>3, <2>4, Rows
  <2> QED BY <1>0, <1>1, <2>5, <2>6, <2>7, ProfilesKeep
<1>2. CASE /\ q.op = "updateProfile" /\ profile[q.id] \notin Absent /\ host' = host
           /\ profile' = [profile EXCEPT ![q.id].enabled = Flag(q, @)]
  <2>1. q.id \in Profiles /\ profile[q.id] \in ProfileRows
    BY <1>0, <1>2, RequestFields
  <2>2. PICK r : r = [profile[q.id] EXCEPT !.enabled = Flag(q, @)]
    OBVIOUS
  <2>3. r \in ProfileRows /\ r.system = profile[q.id].system
    BY <2>1, <2>2, UpdatedRow DEF ProfileRows
  <2>4. profile' = [profile EXCEPT ![q.id] = r]
    BY <1>2, <2>2
  <2>5. Ages(profile, profile')
    <3>1. q.id \in DOMAIN profile /\ profile[q.id] \notin Absent /\ r \notin Absent
      BY <1>0, <1>2, <2>1, <2>3, Rows
    <3>2. Ages(profile, [profile EXCEPT ![q.id] = r])
      BY <2>3, <3>1, AgesOne
    <3> QED BY <2>4, <3>2
  <2>6. profile' \in [Profiles -> ProfileRows \cup Absent]
    BY <1>0, <2>3, <2>4
  <2>7. \A p \in Profiles : profile[p] \notin Absent => profile'[p] \notin Absent
    BY <1>0, <2>1, <2>3, <2>4, Rows
  <2> QED BY <1>0, <1>2, <2>5, <2>6, <2>7, ProfilesKeep
<1>3. CASE /\ q.op = "deleteProfile" /\ profile[q.id] \notin Absent
           /\ profile' = [profile EXCEPT ![q.id] = Gone]
           /\ host' = [h \in Hosts |-> IF host[h] \notin Absent /\ host[h].profile = q.id
                                         THEN [host[h] EXCEPT !.profile = None] ELSE host[h]]
  <2>1. q.id \in Profiles
    BY <1>3, RequestFields
  <2>2. Ages(profile, profile') /\ profile' \in [Profiles -> ProfileRows \cup Absent]
    BY <1>0, <1>3, <2>1, AgesOne DEF Absent
  <2>3. \A h \in Hosts :
          IF host[h] \in HostRows /\ host[h].profile = q.id
          THEN host'[h] \in HostRows /\ host'[h].system = host[h].system /\ host'[h].profile = None
          ELSE host'[h] = host[h]
    <3> SUFFICES ASSUME NEW h \in Hosts, host[h] \in HostRows, host[h].profile = q.id
                 PROVE  host'[h] \in HostRows /\ host'[h].system = host[h].system
                        /\ host'[h].profile = None
      BY <1>3, Rows DEF InventoryOK
    <3>1. host'[h] = [host[h] EXCEPT !.profile = None]
      BY <1>3, Rows
    <3> QED BY <3>1 DEF HostRows
  <2>4. Ages(host, host')
    BY <2>3, Rows DEF Ages, InventoryOK
  <2>5. host' \in [Hosts -> HostRows \cup Absent]
    BY <1>3, <2>3 DEF InventoryOK
  <2>6. \A h \in Hosts : host[h] \notin Absent => host'[h] \notin Absent
    BY <2>3, Rows DEF InventoryOK
  <2>7. OwnProfiles'
    <3> SUFFICES ASSUME NEW h \in Hosts, host'[h] \notin Absent, host'[h].profile # None
                 PROVE  /\ profile'[host'[h].profile] \notin Absent
                        /\ profile'[host'[h].profile].system = host'[h].system
      BY DEF OwnProfiles
    <3>1. host'[h] = host[h] /\ host[h].profile # q.id /\ host[h] \in HostRows
      BY <2>3, <2>5
    <3>2. host[h].profile \in Profiles
      BY <3>1 DEF HostRows
    <3>3. profile'[host[h].profile] = profile[host[h].profile]
      BY <1>0, <1>3, <3>1, <3>2
    <3> QED BY <3>1, <3>3 DEF SameTarget
  <2>8. members = {m \in members : group[m[1]] \notin Absent /\ host'[m[2]] \notin Absent}
    BY <2>6 DEF SameTarget, InventoryOK
  <2>9. InventoryOK'
    BY <1>0, <2>2, <2>5 DEF InventoryOK
  <2> QED BY <1>0, <2>2, <2>4, <2>6, <2>7, <2>8, <2>9, AgesSame DEF Keeps
<1> QED BY <1>1, <1>2, <1>3 DEF WritesProfile

\* Only the hosts change, and none of them goes.
LEMMA HostsKeep ==
  ASSUME InventoryOK, SameTarget, Ages(host, host'), OwnProfiles',
         host' \in [Hosts -> HostRows \cup Absent],
         \A h \in Hosts : host[h] \notin Absent => host'[h] \notin Absent,
         UNCHANGED <<profile, group, members>>
  PROVE  Keeps
<1>1. InventoryOK'
  BY DEF InventoryOK
<1>2. members = {m \in members : group[m[1]] \notin Absent /\ host'[m[2]] \notin Absent}
  BY DEF SameTarget, InventoryOK
<1> QED BY <1>1, <1>2, AgesSame DEF Keeps

\* What FindsRow and RequiresProfile have read makes the profile of a host that is
\* written one of its own target system.
LEMMA WritesHostKeeps ==
  ASSUME NEW a \in Admins, InventoryOK, SameTarget, request[a] \in Requests, Found(a),
         Writing(a), ~Waiting(a), WritesHost(a)
  PROVE  Keeps
<1> DEFINE q == request[a]
<1>0. /\ profile' = profile /\ group' = group /\ host \in [Hosts -> HostRows \cup Absent]
      /\ DOMAIN host = Hosts
  BY DEF WritesHost, InventoryOK
<1>1. CASE /\ q.op = "createHost" /\ host[q.id] = None /\ There(q.profile) /\ members' = members
           /\ host' = [host EXCEPT ![q.id] = [system |-> of[a], enabled |-> Flag(q, TRUE),
                                              profile |-> Assigned(q, None)]]
  <2>1. pc[a] = "write"
    BY <1>1 DEF Writing, Deletes
  <2>2. /\ q.id \in Hosts /\ of[a] \in Systems /\ q.profile \in Profiles \cup {None, Keep}
        /\ q.profile \in Profiles => Was(profile, q.profile, of[a])
    BY <1>1, <2>1, RequestFields DEF Found
  <2>3. PICK r : r = [system |-> of[a], enabled |-> Flag(q, TRUE), profile |-> Assigned(q, None)]
    OBVIOUS
  <2>4. /\ r \in HostRows /\ r.system = of[a]
        /\ r.profile = IF q.profile = Keep THEN None ELSE q.profile
    <3>1. q \in Requests /\ of[a] \in Systems
      BY <2>2
    <3> HIDE DEF q
    <3> QED BY <2>3, <3>1, NewHost
  <2>5. host' = [host EXCEPT ![q.id] = r]
    BY <1>1, <2>3
  <2>6. Ages(host, [host EXCEPT ![q.id] = r])
    BY <1>0, <1>1, <2>2, AgesOne
  <2>7. host' \in [Hosts -> HostRows \cup Absent]
    BY <1>0, <2>4, <2>5
  <2>8. \A h \in Hosts : host[h] \notin Absent => host'[h] \notin Absent
    BY <1>0, <2>2, <2>4, <2>5, Rows
  <2>9. q.profile \in Profiles => profile[q.profile] \notin Absent /\ profile[q.profile].system = of[a]
    BY <1>1, <2>2, Rows DEF Was, There
  <2>10. OwnProfiles'
    <3> SUFFICES ASSUME NEW h \in Hosts, host'[h] \notin Absent, host'[h].profile # None
                 PROVE  /\ profile[host'[h].profile] \notin Absent
                        /\ profile[host'[h].profile].system = host'[h].system
      BY <1>0 DEF OwnProfiles
    <3>1. CASE h = q.id
      <4>1. host'[h] = r
        BY <1>0, <2>2, <2>5, <3>1
      <4>2. r.profile = q.profile /\ q.profile \in Profiles
        BY <2>2, <2>4, <4>1
      <4> QED BY <2>4, <2>9, <4>1, <4>2
    <3>2. CASE h # q.id
      <4>1. host'[h] = host[h]
        BY <1>0, <2>5, <3>2
      <4> QED BY <4>1 DEF SameTarget
    <3> QED BY <3>1, <3>2
  <2> QED BY <1>0, <1>1, <2>5, <2>6, <2>7, <2>8, <2>10, HostsKeep
<1>2. CASE /\ q.op = "updateHost" /\ host[q.id] \notin Absent /\ There(q.profile)
           /\ members' = members
           /\ host' = [host EXCEPT ![q.id].enabled = Flag(q, @), ![q.id].profile = Assigned(q, @)]
  <2>1. pc[a] = "write"
    BY <1>2 DEF Writing, Deletes
  <2>2. /\ q.id \in Hosts /\ host[q.id] \in HostRows /\ Was(host, q.id, of[a])
        /\ q.profile \in Profiles \cup {None, Keep}
        /\ q.profile \in Profiles => Was(profile, q.profile, of[a])
    BY <1>0, <1>2, <2>1, RequestFields DEF Found
  <2>3. PICK r : r = [host[q.id] EXCEPT !.enabled = Flag(q, @), !.profile = Assigned(q, @)]
    OBVIOUS
  <2>4. /\ r \in HostRows /\ r.system = host[q.id].system
        /\ r.profile = IF q.profile = Keep THEN host[q.id].profile ELSE q.profile
    <3>1. q \in Requests /\ host[q.id] \in HostRows
      BY <2>2
    <3> HIDE DEF q
    <3> QED BY <2>3, <3>1, UpdatedHost
  <2>5. host' = [host EXCEPT ![q.id] = r]
    BY <1>0, <1>2, <2>2, <2>3 DEF HostRows
  <2>6. Ages(host, [host EXCEPT ![q.id] = r])
    <3>1. q.id \in DOMAIN host /\ r \notin Absent
      BY <1>0, <2>2, <2>4, Rows
    <3> QED BY <1>2, <2>4, <3>1, AgesOne
  <2>7. host' \in [Hosts -> HostRows \cup Absent]
    BY <1>0, <2>4, <2>5
  <2>8. \A h \in Hosts : host[h] \notin Absent => host'[h] \notin Absent
    BY <1>0, <2>2, <2>4, <2>5, Rows
  <2>9. q.profile \in Profiles =>
          profile[q.profile] \notin Absent /\ profile[q.profile].system = host[q.id].system
    BY <1>2, <2>2, Rows DEF Was, There, Absent
  <2>10. OwnProfiles'
    <3> SUFFICES ASSUME NEW h \in Hosts, host'[h] \notin Absent, host'[h].profile # None
                 PROVE  /\ profile[host'[h].profile] \notin Absent
                        /\ profile[host'[h].profile].system = host'[h].system
      BY <1>0 DEF OwnProfiles
    <3>1. CASE h = q.id /\ q.profile # Keep
      <4>1. host'[h] = r
        BY <1>0, <2>2, <2>5, <3>1
      <4>2. r.profile = q.profile /\ q.profile \in Profiles
        BY <2>2, <2>4, <3>1, <4>1
      <4> QED BY <2>4, <2>9, <4>1, <4>2
    <3>2. CASE h = q.id /\ q.profile = Keep
      <4>1. host'[h] = r
        BY <1>0, <2>2, <2>5, <3>2
      <4> QED BY <1>2, <2>4, <3>2, <4>1 DEF SameTarget
    <3>3. CASE h # q.id
      <4>1. host'[h] = host[h]
        BY <1>0, <2>5, <3>3
      <4> QED BY <4>1 DEF SameTarget
    <3> QED BY <3>1, <3>2, <3>3
  <2> QED BY <1>0, <1>2, <2>5, <2>6, <2>7, <2>8, <2>10, HostsKeep
<1>3. CASE /\ q.op = "deleteHost" /\ host[q.id] \notin Absent
           /\ host' = [host EXCEPT ![q.id] = Gone] /\ members' = {m \in members : m[2] # q.id}
  <2>1. q.id \in Hosts /\ ~HostLocked(q.id)
    BY <1>3, RequestFields DEF Waiting
  <2>2. \A h \in Hosts : host'[h] = IF h = q.id THEN Gone ELSE host[h]
    BY <1>0, <1>3, <2>1
  <2>3. InventoryOK'
    BY <1>0, <1>3, <2>1 DEF InventoryOK, Absent
  <2>4. Ages(host, host')
    BY <1>0, <1>3, <2>1, AgesOne
  <2>5. OwnProfiles'
    BY <1>0, <2>2 DEF OwnProfiles, SameTarget, Absent
  <2>6. members' = {m \in members : group'[m[1]] \notin Absent /\ host'[m[2]] \notin Absent}
    BY <1>0, <1>3, <2>2 DEF SameTarget, InventoryOK, Absent
  <2>7. \A b \in Admins, g \in ServerGroups, h \in Hosts : <<g, h>> \in Open(b) =>
          (host[h] \notin Absent => host'[h] \notin Absent)
    BY <2>1, <2>2 DEF HostLocked
  <2> QED BY <1>0, <2>3, <2>4, <2>5, <2>6, <2>7, AgesSame DEF Keeps
<1> QED BY <1>1, <1>2, <1>3 DEF WritesHost

LEMMA WritesGroupKeeps ==
  ASSUME NEW a \in Admins, InventoryOK, SameTarget, request[a] \in Requests,
         of[a] \in Systems \/ request[a].op \in Deletes, ~Waiting(a), WritesGroup(a)
  PROVE  Keeps
<1> DEFINE q == request[a]
<1>0. /\ profile' = profile /\ host' = host /\ group \in [ServerGroups -> GroupRows \cup Absent]
      /\ DOMAIN group = ServerGroups
  BY DEF WritesGroup, InventoryOK
<1>a. OwnProfiles'
  BY <1>0 DEF OwnProfiles, SameTarget
<1>b. ASSUME NEW r \in GroupRows, q.id \in ServerGroups, group' = [group EXCEPT ![q.id] = r],
             group[q.id] = None \/ (group[q.id] \notin Absent /\ r.system = group[q.id].system),
             members' = members
      PROVE  Keeps
  <2>1. Ages(group, [group EXCEPT ![q.id] = r])
    <3>1. q.id \in DOMAIN group /\ r \notin Absent
      BY <1>0, <1>b, Rows
    <3> HIDE DEF q
    <3> QED BY <1>b, <3>1, AgesOne
  <2>2. InventoryOK'
    BY <1>0, <1>b DEF InventoryOK
  <2>3. \A g \in ServerGroups : group[g] \notin Absent => group'[g] \notin Absent
    BY <1>0, <1>b, Rows
  <2>4. members' = {m \in members : group'[m[1]] \notin Absent /\ host[m[2]] \notin Absent}
    BY <1>b, <2>3 DEF SameTarget, InventoryOK
  <2> QED BY <1>0, <1>a, <1>b, <2>1, <2>2, <2>3, <2>4, AgesSame DEF Keeps
<1>1. CASE /\ q.op = "createGroup" /\ group[q.id] = None /\ members' = members
           /\ group' = [group EXCEPT ![q.id] = [system |-> of[a], enabled |-> Flag(q, TRUE),
                                                code |-> q.code]]
  <2>1. q.id \in ServerGroups /\ of[a] \in Systems /\ q \in Requests /\ q.code \in Codes
    BY <1>1, RequestFields DEF Deletes
  <2>2. PICK r : r = [system |-> of[a], enabled |-> Flag(q, TRUE), code |-> q.code]
    OBVIOUS
  <2>3. r \in GroupRows
    <3> PICK c \in Codes : c = q.code
      BY <2>1
    <3> HIDE DEF q
    <3> QED BY <2>1, <2>2, NewGroup
  <2>4. group' = [group EXCEPT ![q.id] = r]
    BY <1>1, <2>2
  <2> QED BY <1>1, <1>b, <2>1, <2>3, <2>4
<1>2. CASE /\ q.op = "updateGroup" /\ group[q.id] \notin Absent /\ members' = members
           /\ group' = [group EXCEPT ![q.id].enabled = Flag(q, @),
                                     ![q.id].code = Coded(q, @)]
  <2>1. q.id \in ServerGroups /\ group[q.id] \in GroupRows /\ q \in Requests
    BY <1>0, <1>2, RequestFields
  <2>2. PICK r : r = [group[q.id] EXCEPT !.enabled = Flag(q, @), !.code = Coded(q, @)]
    OBVIOUS
  <2>3. r \in GroupRows /\ r.system = group[q.id].system
    <3> HIDE DEF q
    <3> QED BY <2>1, <2>2, UpdatedGroup
  <2>4. group' = [group EXCEPT ![q.id] = r]
    BY <1>2, <2>2
  <2> QED BY <1>2, <1>b, <2>1, <2>3, <2>4
<1>3. CASE /\ q.op = "deleteGroup" /\ group[q.id] \notin Absent
           /\ group' = [group EXCEPT ![q.id] = Gone] /\ members' = {m \in members : m[1] # q.id}
  <2>1. q.id \in ServerGroups /\ ~GroupLocked(q.id)
    BY <1>3, RequestFields DEF Waiting
  <2>2. \A g \in ServerGroups : group'[g] = IF g = q.id THEN Gone ELSE group[g]
    BY <1>0, <1>3, <2>1
  <2>3. InventoryOK'
    BY <1>0, <1>3, <2>1 DEF InventoryOK, Absent
  <2>4. Ages(group, group')
    BY <1>0, <1>3, <2>1, AgesOne
  <2>5. members' = {m \in members : group'[m[1]] \notin Absent /\ host'[m[2]] \notin Absent}
    BY <1>0, <1>3, <2>2 DEF SameTarget, InventoryOK, Absent
  <2>6. \A b \in Admins, g \in ServerGroups, h \in Hosts : <<g, h>> \in Open(b) =>
          (group[g] \notin Absent => group'[g] \notin Absent)
    BY <2>1, <2>2 DEF GroupLocked
  <2> QED BY <1>0, <1>a, <2>3, <2>4, <2>5, <2>6, AgesSame DEF Keeps
<1> QED BY <1>1, <1>2, <1>3 DEF WritesGroup

LEMMA WritesKeep ==
  ASSUME NEW a \in Admins, InventoryOK, SameTarget, request[a] \in Requests, Found(a), Writes(a)
  PROVE  Keeps
<1>1. Writing(a) /\ ~Waiting(a)
  BY DEF Writes
<1>2. of[a] \in Systems \/ request[a].op \in Deletes
  BY <1>1 DEF Writing, Found
<1>3. CASE WritesProfile(a)
  BY <1>2, <1>3, WritesProfileKeeps
<1>4. CASE WritesHost(a)
  BY <1>1, <1>4, WritesHostKeeps
<1>5. CASE WritesGroup(a)
  BY <1>1, <1>2, <1>5, WritesGroupKeeps
<1> QED BY <1>3, <1>4, <1>5 DEF Writes

LEMMA KeptAges ==
  ASSUME NEW rows, NEW s
  PROVE  /\ Ages(rows, Kept(rows, s))
         /\ \A i \in DOMAIN rows : Kept(rows, s)[i] =
              IF rows[i] \notin Absent /\ rows[i].system = s THEN Gone ELSE rows[i]
  BY Rows DEF Ages, Kept

\* A deleted target system takes its whole inventory along, but no row an open
\* transaction refers to.
LEMMA DropSystemKeeps ==
  ASSUME NEW s \in Systems, InventoryOK, SameTarget, DropSystem(s)
  PROVE  Keeps
<1>1. /\ profile' = Kept(profile, s) /\ host' = Kept(host, s) /\ group' = Kept(group, s)
      /\ members' = {m \in members : group'[m[1]] \notin Absent /\ host'[m[2]] \notin Absent}
      /\ \A h \in Hosts : host[h] \notin Absent /\ host[h].system = s => ~HostLocked(h)
      /\ \A g \in ServerGroups : group[g] \notin Absent /\ group[g].system = s => ~GroupLocked(g)
  BY DEF DropSystem
<1>2. Ages(profile, profile') /\ Ages(host, host') /\ Ages(group, group')
  BY <1>1, KeptAges
<1>3. /\ DOMAIN profile = Profiles /\ DOMAIN host = Hosts /\ DOMAIN group = ServerGroups
  BY DEF InventoryOK
<1>4. /\ \A p \in Profiles : profile'[p] =
           IF profile[p] \notin Absent /\ profile[p].system = s THEN Gone ELSE profile[p]
      /\ \A h \in Hosts : host'[h] =
           IF host[h] \notin Absent /\ host[h].system = s THEN Gone ELSE host[h]
      /\ \A g \in ServerGroups : group'[g] =
           IF group[g] \notin Absent /\ group[g].system = s THEN Gone ELSE group[g]
  BY <1>1, <1>3, KeptAges
<1>5. profile' \in [Profiles -> ProfileRows \cup Absent]
  BY <1>1, <1>3, <1>4 DEF Kept, InventoryOK, Absent
<1>6. host' \in [Hosts -> HostRows \cup Absent]
  BY <1>1, <1>3, <1>4 DEF Kept, InventoryOK, Absent
<1>7. group' \in [ServerGroups -> GroupRows \cup Absent]
  BY <1>1, <1>3, <1>4 DEF Kept, InventoryOK, Absent
<1>8. members' \subseteq ServerGroups \X Hosts
  BY <1>1 DEF InventoryOK
<1>9. OwnProfiles'
  <2> SUFFICES ASSUME NEW h \in Hosts, host'[h] \notin Absent, host'[h].profile # None
               PROVE  /\ profile'[host'[h].profile] \notin Absent
                      /\ profile'[host'[h].profile].system = host'[h].system
    BY DEF OwnProfiles
  <2>1. host'[h] = host[h] /\ host[h].system # s /\ host[h] \in HostRows
    BY <1>4, <1>6 DEF Absent
  <2>2. host[h].profile \in Profiles
    BY <2>1 DEF HostRows
  <2>3. profile[host[h].profile] \notin Absent /\ profile[host[h].profile].system = host[h].system
    BY <2>1 DEF SameTarget
  <2> QED BY <1>4, <2>1, <2>2, <2>3
<1>10. \A b \in Admins, g \in ServerGroups, h \in Hosts : <<g, h>> \in Open(b) =>
         /\ group[g] \notin Absent => group'[g] \notin Absent
         /\ host[h] \notin Absent => host'[h] \notin Absent
  BY <1>1, <1>4 DEF HostLocked, GroupLocked
<1> QED BY <1>1, <1>2, <1>5, <1>6, <1>7, <1>8, <1>9, <1>10 DEF Keeps, InventoryOK

-----------------------------------------------------------------------------
(***************************************************************************)
(* Types of what a request keeps                                           *)
(***************************************************************************)
Memberships == ServerGroups \X Hosts
Points == {"new", "type", "mappings", "roles", "grants", "work", "profile", "write", "count",
           "delete", "clear", "insert", "commit", "done"}
Changes  == [del : SUBSET Memberships, add : SUBSET Memberships]

RequestsOK ==
  /\ session \in [Admins -> Sessions] /\ request \in [Admins -> Requests]
  /\ pc \in [Admins -> Points]
  /\ of \in [Admins -> Systems \cup {None}] /\ type \in [Admins -> Types \cup {None}]
  /\ granted \in [Admins -> SUBSET Roles] /\ aim \in [Admins -> SUBSET Memberships]
  /\ tx \in [Admins -> Changes \cup {None}]
  /\ answer \in [Admins -> {"none", "ok", "forbidden", "failed"}]

SystemOK == system \in [Systems -> Types \cup Absent]

\* A request is served for one administrator.
OthersStay(a) ==
  \A b \in Admins \ {a} :
    /\ pc'[b] = pc[b] /\ of'[b] = of[b] /\ type'[b] = type[b] /\ granted'[b] = granted[b]
    /\ tx'[b] = tx[b] /\ answer'[b] = answer[b]

LEMMA RowFound ==
  ASSUME InventoryOK, NEW q \in Requests, q.op \notin Creates \cup {"list"}, Row(q) \notin Absent
  PROVE  /\ Row(q).system \in Systems
         /\ q.op = "updateHost" => Was(host, q.id, Row(q).system)
         /\ q.op = "setGroupHosts" => Was(group, q.id, Row(q).system)
<1>1. CASE q.op \in {"updateProfile", "deleteProfile"}
  BY <1>1, RequestFields DEF Row, InventoryOK, ProfileRows
<1>2. CASE q.op \in {"updateHost", "deleteHost"}
  BY <1>2, RequestFields DEF Row, InventoryOK, HostRows, Was, Absent
<1>3. CASE q.op \in {"updateGroup", "deleteGroup", "setGroupHosts"}
  BY <1>3, RequestFields DEF Row, InventoryOK, GroupRows, Was, Absent
<1> QED BY <1>1, <1>2, <1>3, RequestFields DEF Creates, Updates, Deletes

LEMMA AnswersTyped ==
  ASSUME NEW a \in Admins, RequestsOK, NEW how \in {"ok", "forbidden", "failed"}, Answers(a, how)
  PROVE  /\ pc' \in [Admins -> Points] /\ tx' \in [Admins -> Changes \cup {None}]
         /\ answer' \in [Admins -> {"none", "ok", "forbidden", "failed"}]
         /\ pc'[a] = "done" /\ answer'[a] = how /\ tx'[a] = None
         /\ \A b \in Admins \ {a} : pc'[b] = pc[b] /\ tx'[b] = tx[b] /\ answer'[b] = answer[b]
  BY DEF Answers, RequestsOK, Points

LEMMA MovesTyped ==
  ASSUME NEW a \in Admins, RequestsOK, NEW next \in Points, Moves(a, next)
  PROVE  /\ pc' \in [Admins -> Points] /\ answer' = answer /\ pc'[a] = next
         /\ \A b \in Admins \ {a} : pc'[b] = pc[b]
  BY DEF Moves, RequestsOK

LEMMA GateTyped ==
  ASSUME NEW a \in Admins, InventoryOK, SystemOK, RequestsOK, Found(a), Gate(a)
  PROVE  RequestsOK' /\ OthersStay(a)
<1>0. request[a] \in Requests /\ (pc[a] \notin {"new", "done"} => of[a] \in Systems)
  BY DEF RequestsOK, Found
<1>1. CASE Arrives(a)
  <2>1. ASSUME NEW s \in Systems, of' = [of EXCEPT ![a] = s], Moves(a, "type"), UNCHANGED tx
        PROVE  RequestsOK' /\ OthersStay(a)
    BY <1>1, <2>1, MovesTyped DEF Arrives, StaysPut, RequestsOK, OthersStay, Points
  <2>2. CASE Answers(a, "failed") /\ UNCHANGED of
    BY <1>1, <2>2, AnswersTyped DEF Arrives, StaysPut, RequestsOK, OthersStay
  <2> QED BY <1>0, <1>1, <2>1, <2>2, RowFound, RequestFields DEF Arrives
<1>2. CASE ReadsType(a)
  <2>1. CASE /\ type' = [type EXCEPT ![a] = system[of[a]]] /\ system[of[a]] \notin Absent
             /\ Moves(a, IF session[a].local THEN "work" ELSE "mappings") /\ UNCHANGED tx
    <3>1. system[of[a]] \in Types
      BY <1>0, <1>2, <2>1 DEF ReadsType, SystemOK
    <3>2. PICK next \in {"work", "mappings"} : Moves(a, next)
      BY <2>1
    <3> QED BY <1>2, <2>1, <3>1, <3>2, MovesTyped
            DEF ReadsType, StaysPut, RequestsOK, OthersStay, Points
  <2>2. CASE Answers(a, "failed") /\ UNCHANGED type
    BY <1>2, <2>2, AnswersTyped DEF ReadsType, StaysPut, RequestsOK, OthersStay
  <2> QED BY <1>2, <2>1, <2>2 DEF ReadsType
<1>3. CASE ReadsMappings(a)
  <2>1. MappedRoles(session[a]) \in SUBSET Roles
    BY DEF MappedRoles
  <2> QED BY <1>3, <2>1, MovesTyped DEF ReadsMappings, StaysPut, RequestsOK, OthersStay, Points
<1>4. CASE ReadsRoles(a) \/ ReadsGrants(a)
  <2>1. CASE (Moves(a, "grants") \/ Moves(a, "work")) /\ UNCHANGED tx
    BY <1>4, <2>1, MovesTyped DEF ReadsRoles, ReadsGrants, StaysPut, RequestsOK, OthersStay, Points
  <2>2. CASE Answers(a, "failed") \/ Answers(a, "forbidden")
    BY <1>4, <2>2, AnswersTyped DEF ReadsRoles, ReadsGrants, StaysPut, RequestsOK, OthersStay
  <2> QED BY <1>4, <2>1, <2>2 DEF ReadsRoles, ReadsGrants
<1> QED BY <1>1, <1>2, <1>3, <1>4 DEF Gate

LEMMA NewRowsTyped ==
  ASSUME NEW a \in Admins, request[a] \in Requests, request[a].op = "setGroupHosts"
  PROVE  NewRows(a) \subseteq Memberships /\ \A m \in NewRows(a) : m[1] = request[a].id
  BY RequestFields DEF NewRows, Memberships

LEMMA NoChange ==
  None \notin Changes
  BY FleetAssumption DEF Changes, Memberships

LEMMA ServeTyped ==
  ASSUME NEW a \in Admins, InventoryOK, SystemOK, RequestsOK, Found(a), Serve(a)
  PROVE  RequestsOK' /\ OthersStay(a)
<1>0. /\ request[a] \in Requests /\ (pc[a] \notin {"new", "done"} => of[a] \in Systems)
      /\ pc[a] \in {"delete", "clear", "insert", "commit"} => request[a].op = "setGroupHosts"
      /\ pc[a] = "insert" => tx[a] \in Changes
  BY DEF RequestsOK, Found
<1>a. ASSUME NEW how \in {"ok", "failed"}, Answers(a, how),
             UNCHANGED <<session, request, of, type, granted>>,
             aim' \in [Admins -> SUBSET Memberships]
      PROVE  RequestsOK' /\ OthersStay(a)
  BY <1>a, AnswersTyped DEF RequestsOK, OthersStay
<1>b. ASSUME NEW next \in Points, Moves(a, next),
             UNCHANGED <<session, request, type, granted, aim, tx>>,
             of' = of \/ \E s \in Systems : of' = [of EXCEPT ![a] = s]
      PROVE  RequestsOK' /\ OthersStay(a)
  <2>1. of' \in [Admins -> Systems \cup {None}] /\ \A b \in Admins \ {a} : of'[b] = of[b]
    BY <1>b DEF RequestsOK
  <2> QED BY <1>b, <2>1, MovesTyped DEF RequestsOK, OthersStay
<1>c. aim \in [Admins -> SUBSET Memberships] /\ members \subseteq Memberships
  BY DEF RequestsOK, InventoryOK, Memberships
<1>1. CASE RequiresLinux(a)
  <2>1. CASE Moves(a, IF request[a].op = "createHost" /\ request[a].profile \in Profiles
                        THEN "profile" ELSE "write") /\ UNCHANGED tx
    <3>1. PICK next \in Points : Moves(a, next)
      BY <2>1 DEF Points
    <3> QED BY <1>1, <1>b, <2>1, <3>1 DEF RequiresLinux, StaysPut
  <2>2. CASE \E how \in {"ok", "failed"} : Answers(a, how)
    BY <1>1, <1>a, <1>c, <2>2 DEF RequiresLinux, StaysPut
  <2> QED BY <1>1, <2>1, <2>2 DEF RequiresLinux
<1>2. CASE FindsRow(a)
  <2>1. CASE Row(request[a]) \in Absent /\ Answers(a, "failed") /\ UNCHANGED of
    BY <1>2, <1>a, <1>c, <2>1 DEF FindsRow, StaysPut
  <2>2. CASE Row(request[a]) \notin Absent
    <3>1. Row(request[a]).system \in Systems
      BY <1>0, <1>2, <2>2, RowFound, RequestFields DEF FindsRow, Creates, Updates
    <3>2. PICK next \in Points : Moves(a, next)
      BY <1>2, <2>2 DEF FindsRow, Points
    <3> QED BY <1>2, <1>b, <2>2, <3>1, <3>2 DEF FindsRow, StaysPut
  <2> QED BY <1>2, <2>1, <2>2 DEF FindsRow
<1>3. CASE RequiresProfile(a)
  <2>1. Answers(a, "failed") \/ (Moves(a, "write") /\ UNCHANGED tx)
    BY <1>3 DEF RequiresProfile
  <2> QED BY <1>3, <1>a, <1>b, <1>c, <2>1 DEF RequiresProfile, StaysPut, Points
<1>4. CASE CountsHosts(a)
  <2>1. Answers(a, "failed") \/ (Moves(a, "delete") /\ UNCHANGED tx)
    BY <1>4 DEF CountsHosts
  <2> QED BY <1>4, <1>a, <1>b, <1>c, <2>1 DEF CountsHosts, StaysPut, Points
<1>5. CASE Writes(a)
  BY <1>5, <1>a, <1>c DEF Writes
<1>6. CASE WriteFails(a)
  BY <1>6, <1>a, <1>c DEF WriteFails, StaysPut
<1>7. CASE DeleteSees(a)
  <2>1. {m \in members : m[1] = request[a].id} \in SUBSET Memberships
    BY <1>c
  <2>2. aim' \in [Admins -> SUBSET Memberships]
    BY <1>7, <1>c, <2>1 DEF DeleteSees
  <2> QED BY <1>7, <2>2, MovesTyped DEF DeleteSees, StaysPut, RequestsOK, OthersStay, Points
<1>8. CASE DeleteClears(a)
  <2>1. [del |-> aim[a] \cap members, add |-> {}] \in Changes
    BY <1>c DEF Changes
  <2>2. /\ tx' \in [Admins -> Changes \cup {None}]
        /\ \A b \in Admins \ {a} : tx'[b] = tx[b]
    BY <1>8, <2>1 DEF DeleteClears, RequestsOK
  <2> QED BY <1>8, <2>2, MovesTyped DEF DeleteClears, StaysPut, RequestsOK, OthersStay, Points
<1>9. CASE Inserts(a)
  <2>1. NewRows(a) \in SUBSET Memberships
    BY <1>0, <1>9, NewRowsTyped DEF Inserts
  <2>2. [tx[a] EXCEPT !.add = NewRows(a)] \in Changes
    BY <1>0, <1>9, <2>1 DEF Inserts, Changes
  <2>3. /\ tx' \in [Admins -> Changes \cup {None}]
        /\ \A b \in Admins \ {a} : tx'[b] = tx[b]
    BY <1>9, <2>2 DEF Inserts, RequestsOK
  <2> QED BY <1>9, <2>3, MovesTyped DEF Inserts, StaysPut, RequestsOK, OthersStay, Points
<1>10. CASE InsertFails(a)
  BY <1>10, <1>a, <1>c DEF InsertFails, StaysPut
<1>11. CASE Commits(a)
  <2>1. aim' \in [Admins -> SUBSET Memberships]
    BY <1>11, <1>c DEF Commits, Outdated
  <2> QED BY <1>11, <1>a, <2>1 DEF Commits
<1> QED BY <1>1, <1>2, <1>3, <1>4, <1>5, <1>6, <1>7, <1>8, <1>9, <1>10, <1>11 DEF Serve

LEMMA ActsKeep ==
  ASSUME NEW a \in Admins, InventoryOK, SameTarget, RequestsOK, Found(a), Gate(a) \/ Serve(a),
         ~Commits(a)
  PROVE  Keeps
<1>1. CASE Writes(a)
  BY <1>1, WritesKeep DEF RequestsOK
<1>2. CASE Gate(a)
  BY <1>2, UnchangedKeeps DEF Gate, Arrives, ReadsType, ReadsMappings, ReadsRoles, ReadsGrants, StaysPut
<1>3. CASE Serve(a) /\ ~Writes(a)
  BY <1>3, UnchangedKeeps
  DEF Serve, RequiresLinux, FindsRow, RequiresProfile, CountsHosts, WriteFails, DeleteSees,
      DeleteClears, Inserts, InsertFails, StaysPut
<1> QED BY <1>1, <1>2, <1>3

LEMMA ActsOnRequests ==
  ASSUME NEW a \in Admins, Gate(a) \/ Serve(a)
  PROVE  UNCHANGED <<role, mapping, system, session, request>>
<1>1. CASE Gate(a)
  BY <1>1 DEF Gate, Arrives, ReadsType, ReadsMappings, ReadsRoles, ReadsGrants, StaysPut
<1>2. CASE Serve(a)
  BY <1>2
  DEF Serve, RequiresLinux, FindsRow, RequiresProfile, CountsHosts, Writes, WriteFails,
      DeleteSees, DeleteClears, Inserts, InsertFails, Commits, StaysPut
<1> QED BY <1>1, <1>2

-----------------------------------------------------------------------------
(***************************************************************************)
(* The rights                                                              *)
(***************************************************************************)
AllTypes == {[type |-> t, canRead |-> FALSE, canWrite |-> TRUE] : t \in Types}

LEMMA EditsRightsTyped ==
  ASSUME RbacTypeOK, Mapped, EditsRights
  PROVE  RbacTypeOK' /\ Mapped'
<1>0. PICK r \in Roles :
        \/ \E enabled \in BOOLEAN : CreateRole(r, enabled, AllTypes)
        \/ \E e \in RoleEdits : UpdateRole(r, e.enabled, e.level)
        \/ DeleteRole(r)
        \/ \E g \in IdpGroups, state \in {"on", "off"} :
             \/ CreateMapping(<<g, r>>, state) \/ DeleteMapping(<<g, r>>)
             \/ \E to \in Roles : UpdateMapping(<<g, r>>, <<g, to>>, state)
  BY DEF EditsRights, AllTypes
<1>r. ASSUME NEW row \in RoleRows, role' = [role EXCEPT ![r] = row], mapping' = mapping
      PROVE  RbacTypeOK' /\ Mapped'
  BY <1>r, RbacAssumption DEF RbacTypeOK, Mapped
<1>1. ASSUME NEW enabled \in BOOLEAN, CreateRole(r, enabled, AllTypes)
      PROVE  RbacTypeOK' /\ Mapped'
  <2>1. Normalized(AllTypes) \in [Types -> Levels]
    BY DEF Normalized, Levels
  <2>2. [enabled |-> enabled, level |-> Normalized(AllTypes)] \in RoleRows
    BY <2>1 DEF RoleRows
  <2> QED BY <1>1, <1>r, <2>2 DEF CreateRole
<1>2. CASE \E e \in RoleEdits : UpdateRole(r, e.enabled, e.level)
  <2>1. PICK e \in RoleEdits : UpdateRole(r, e.enabled, e.level)
    BY <1>2
  <2>2. e \in [enabled : BOOLEAN, level : [Types -> Levels]]
    BY FleetRunAssumption
  <2>3. [enabled |-> e.enabled, level |-> e.level] \in RoleRows
    BY <2>2 DEF RoleRows
  <2> QED BY <1>r, <2>1, <2>3 DEF UpdateRole
<1>3. CASE DeleteRole(r)
  <2>1. role' \in [Roles -> RoleRows \cup Absent]
    BY <1>3 DEF DeleteRole, RbacTypeOK, Absent
  <2>2. mapping' \in [IdpGroups \X Roles -> {"none", "off", "on"}]
    BY <1>3 DEF DeleteRole, RbacTypeOK
  <2>3. Mapped'
    BY <1>3 DEF DeleteRole, RbacTypeOK, Mapped
  <2> QED BY <2>1, <2>2, <2>3 DEF RbacTypeOK
<1>4. ASSUME NEW m \in IdpGroups \X Roles, NEW n \in IdpGroups \X Roles, NEW state \in {"none", "off", "on"},
             state = "none" \/ role[n[2]] \notin Absent, role' = role,
             mapping' = [mapping EXCEPT ![m] = "none", ![n] = state]
      PROVE  RbacTypeOK' /\ Mapped'
  BY <1>4 DEF RbacTypeOK, Mapped
<1>5. ASSUME NEW g \in IdpGroups, NEW state \in {"on", "off"},
             \/ CreateMapping(<<g, r>>, state) \/ DeleteMapping(<<g, r>>)
             \/ \E to \in Roles : UpdateMapping(<<g, r>>, <<g, to>>, state)
      PROVE  RbacTypeOK' /\ Mapped'
  <2>1. CASE CreateMapping(<<g, r>>, state)
    BY <2>1 DEF CreateMapping, RbacTypeOK, Mapped
  <2>2. CASE DeleteMapping(<<g, r>>)
    BY <2>2 DEF DeleteMapping, RbacTypeOK, Mapped
  <2>3. ASSUME NEW to \in Roles, UpdateMapping(<<g, r>>, <<g, to>>, state)
        PROVE  RbacTypeOK' /\ Mapped'
    BY <1>4, <2>3 DEF UpdateMapping
  <2> QED BY <1>5, <2>1, <2>2, <2>3
<1> QED BY <1>0, <1>1, <1>2, <1>3, <1>5

-----------------------------------------------------------------------------
(***************************************************************************)
(* Types of the run and of the history                                     *)
(***************************************************************************)
Stages == {"idle", "system", "groups", "members", "hosts", "profiles", "next", "first",
           "second", "stuck", "done"}

WorkerOK ==
  /\ event \in FleetEvents \cup {None} /\ stage \in Stages
  /\ found \subseteq ServerGroups
  /\ list \subseteq Hosts /\ usable \subseteq Hosts /\ current \in Hosts \cup {None}
  /\ chosen \in [Hosts -> Profiles \cup {None}]
  /\ failed \in BOOLEAN /\ outcome \in {"none", "ok", "refused"}
  /\ accounts \subseteq Hosts /\ has \in [Hosts -> {"absent", "half", "done"}]
  /\ faults \in 0 .. MaxFaults /\ cut \subseteq Hosts

HistoryOK ==
  /\ allowed \in [Admins -> BOOLEAN] /\ denied \in [Admins -> BOOLEAN]
  /\ crossings \in [Admins -> 0 .. 2] /\ crossed \in [Admins -> BOOLEAN]
  /\ asked \in [ServerGroups -> SUBSET Hosts] /\ exact \in [ServerGroups -> BOOLEAN]
  /\ due \subseteq Hosts /\ offered \subseteq Hosts \X {"member", "enabled"}

LEMMA TypeParts ==
  TypeOK <=> /\ RbacTypeOK /\ SystemOK /\ InventoryOK /\ RequestsOK /\ WorkerOK /\ HistoryOK
             /\ edits \in Nat
  BY DEF TypeOK, FleetTypeOK, SystemOK, InventoryOK, RequestsOK, Points, Changes, Memberships,
         WorkerOK, Stages, HistoryOK

\* Every step of the connector is one of the run, and reads the inventory only.
LEMMA RunStep ==
  ASSUME Start \/ Works \/ SecretFails \/ CommandFaults
  PROVE  FleetStays
  BY DEF Start, Works, SecretFails, CommandFaults, ReadsSystem, ReadsGroups, ReadsMembers,
         ReadsHosts, ReadsProfiles, Configures, RunsFirst, RunsSecond, Ends, Reading, Running

LEMMA RunTyped ==
  ASSUME WorkerOK, InventoryOK, Runs, Start \/ Works \/ SecretFails \/ CommandFaults
  PROVE  WorkerOK'
<1>0. FleetStays
  BY RunStep
<1>1. CASE Start
  BY <1>0, <1>1 DEF Start, FleetStays, WorkerOK, Stages
<1>2. CASE ReadsSystem
  BY <1>0, <1>2 DEF ReadsSystem, Reading, Refuses, FleetStays, WorkerOK, Stages
<1>3. CASE ReadsGroups
  BY <1>0, <1>3 DEF ReadsGroups, Reading, Refuses, FleetStays, WorkerOK, Stages, Calls
<1>4. CASE ReadsMembers
  <2>1. list' \subseteq Hosts
    BY <1>4 DEF ReadsMembers, HostsOf, WorkerOK
  <2> QED BY <1>0, <1>4, <2>1 DEF ReadsMembers, Reading, FleetStays, WorkerOK, Stages
<1>5. CASE ReadsHosts
  <2>1. list' \subseteq Hosts
    BY <1>5 DEF ReadsHosts, WorkerOK
  <2>2. \A h \in list' : host[h].profile \in Profiles \cup {None}
    BY <1>5, <2>1 DEF ReadsHosts, InventoryOK, HostRows
  <2>3. chosen' \in [Hosts -> Profiles \cup {None}]
    BY <1>5, <2>2 DEF ReadsHosts
  <2> QED BY <1>0, <1>5, <2>1, <2>3 DEF ReadsHosts, Reading, Refuses, FleetStays, WorkerOK, Stages
<1>6. CASE ReadsProfiles
  BY <1>0, <1>6 DEF ReadsProfiles, Reading, FleetStays, WorkerOK, Stages
<1>7. CASE Configures
  BY <1>0, <1>7 DEF Configures, Running, Refuses, FleetStays, WorkerOK, Stages
<1>h. current \in Hosts /\ (FirstTakes \/ SecondTakes) =>
        has' \in [Hosts -> {"absent", "half", "done"}] /\ accounts' \subseteq Hosts
  BY DEF FirstTakes, SecondTakes, WorkerOK
<1>8. CASE RunsFirst
  <2>1. has' \in [Hosts -> {"absent", "half", "done"}] /\ accounts' \subseteq Hosts
    BY <1>8, <1>h DEF RunsFirst, Fails, WorkerOK, Runs
  <2> QED BY <1>0, <1>8, <2>1 DEF RunsFirst, Fails, AfterFirst, Running, FleetStays, WorkerOK, Stages
<1>9. CASE RunsSecond
  <2>1. has' \in [Hosts -> {"absent", "half", "done"}] /\ accounts' \subseteq Hosts
    BY <1>9, <1>h DEF RunsSecond, Fails, WorkerOK, Runs
  <2> QED BY <1>0, <1>9, <2>1 DEF RunsSecond, Fails, Running, FleetStays, WorkerOK, Stages
<1>10. CASE Ends
  BY <1>0, <1>10 DEF Ends, Running, Refuses, FleetStays, WorkerOK, Stages
<1>f. faults < MaxFaults /\ faults' = faults + 1 => faults' \in 0 .. MaxFaults
  BY FleetRunAssumption DEF WorkerOK
<1>11. CASE SecretFails
  BY <1>0, <1>11, <1>f DEF SecretFails, Running, Refuses, FleetStays, WorkerOK, Stages
<1>12. CASE CommandFaults
  <2>1. has' \in [Hosts -> {"absent", "half", "done"}] /\ accounts' \subseteq Hosts
    BY <1>12, <1>h DEF CommandFaults, CommandTakes, WorkerOK, Runs
  <2>2. cut' \subseteq Hosts
    BY <1>12 DEF CommandFaults, WorkerOK, Runs
  <2>3. stage' \in Stages
    BY <1>12 DEF CommandFaults, Stages, AfterFirst
  <2> QED BY <1>0, <1>12, <1>f, <2>1, <2>2, <2>3 DEF CommandFaults, Running, FleetStays, WorkerOK
<1> QED BY <1>1, <1>2, <1>3, <1>4, <1>5, <1>6, <1>7, <1>8, <1>9, <1>10, <1>11, <1>12 DEF Works

LEMMA EditSizes ==
  EditSize \in {1, 2}
  BY DEF EditSize

LEMMA TracksTyped ==
  ASSUME HistoryOK, WorkerOK, RequestsOK, Tracks, event' = event, InventoryOK'
  PROVE  HistoryOK'
<1>1. allowed' \in [Admins -> BOOLEAN] /\ denied' \in [Admins -> BOOLEAN]
  BY DEF Tracks, TracksRights, HistoryOK, InGate
<1>2. crossings' \in [Admins -> 0 .. 2]
  BY EditSizes DEF Tracks, TracksRights, HistoryOK
<1>3. asked' \in [ServerGroups -> SUBSET Hosts]
  <2>1. \A g \in ServerGroups : UNION {request[a].hosts : a \in Committing(g)} \subseteq Hosts
    BY RequestFields DEF Committing, RequestsOK
  <2> QED BY <2>1 DEF Tracks, TracksSets, HistoryOK
<1>4. exact' \in [ServerGroups -> BOOLEAN]
  BY DEF Tracks, TracksSets, HistoryOK
<1>5. crossed' \in [Admins -> BOOLEAN]
  BY DEF Tracks, TracksSets, HistoryOK
<1>6. due' \subseteq Hosts
  <2>1. (Named \cap On)' \subseteq Hosts
    BY DEF On
  <2> QED BY <2>1 DEF Tracks, TracksHosts, HistoryOK
<1>7. offered' \subseteq Hosts \X {"member", "enabled"}
  <2>1. Named' \subseteq Hosts /\ On' \subseteq Hosts
    BY DEF On, Named, HostsIn
  <2> QED BY <2>1 DEF Tracks, TracksHosts, HistoryOK
<1> QED BY <1>1, <1>2, <1>3, <1>4, <1>5, <1>6, <1>7 DEF HistoryOK

-----------------------------------------------------------------------------
(***************************************************************************)
(* What a request has found                                                *)
(***************************************************************************)
\* In every step the rows of the inventory age.
AgesAll == Ages(profile, profile') /\ Ages(host, host') /\ Ages(group, group')

LEMMA WasAll ==
  ASSUME InventoryOK, AgesAll, NEW s
  PROVE  /\ \A p \in Profiles : Was(profile, p, s) => Was(profile, p, s)'
         /\ \A h \in Hosts : Was(host, h, s) => Was(host, h, s)'
         /\ \A g \in ServerGroups : Was(group, g, s) => Was(group, g, s)'
<1>1. DOMAIN profile = Profiles /\ DOMAIN host = Hosts /\ DOMAIN group = ServerGroups
  BY DEF InventoryOK
<1>2. ASSUME NEW p \in Profiles, Was(profile, p, s) PROVE Was(profile', p, s)
  BY <1>1, <1>2, WasStays DEF AgesAll
<1>3. ASSUME NEW h \in Hosts, Was(host, h, s) PROVE Was(host', h, s)
  BY <1>1, <1>3, WasStays DEF AgesAll
<1>4. ASSUME NEW g \in ServerGroups, Was(group, g, s) PROVE Was(group', g, s)
  BY <1>1, <1>4, WasStays DEF AgesAll
<1> QED BY <1>2, <1>3, <1>4 DEF Was

\* The step of another leaves what administrator b has found.
LEMMA FoundStays ==
  ASSUME NEW b \in Admins, InventoryOK, RequestsOK, AgesAll, Found(b), request' = request,
         pc'[b] = pc[b], of'[b] = of[b], tx'[b] = tx[b], answer'[b] = answer[b]
  PROVE  Found(b)'
<1> DEFINE q == request[b]
           s == of[b]
<1>1. /\ q \in Requests /\ q.hosts \subseteq Hosts
      /\ q.op = "setGroupHosts" => q.id \in ServerGroups
      /\ q.op = "updateHost" => q.id \in Hosts
  BY RequestFields DEF RequestsOK
<1>2. /\ \A p \in Profiles : Was(profile, p, s) => Was(profile', p, s)
      /\ \A h \in Hosts : Was(host, h, s) => Was(host', h, s)
      /\ \A g \in ServerGroups : Was(group, g, s) => Was(group', g, s)
  BY WasAll DEF Was
<1> HIDE DEF s
<1>3. NewRows(b)' = NewRows(b)
  BY DEF NewRows
<1> QED BY <1>1, <1>2, <1>3 DEF Found, s

\* ... and its own step adds what the queries have shown.
LEMMA FoundByGate ==
  ASSUME NEW a \in Admins, InventoryOK, SystemOK, RequestsOK, Found(a), Gate(a)
  PROVE  Found(a)'
<1>1. CASE \E how \in {"failed", "forbidden"} : Answers(a, how)
  <2>1. pc'[a] = "done" /\ tx'[a] = None
    BY <1>1, AnswersTyped
  <2> QED BY <2>1 DEF Found
<1>2. CASE \E next \in {"type", "mappings", "roles", "grants", "work"} : Moves(a, next) /\ UNCHANGED tx
  <2>1. PICK next \in {"type", "mappings", "roles", "grants", "work"} : Moves(a, next)
    BY <1>2
  <2>2. pc'[a] = next /\ answer' = answer /\ tx' = tx
    BY <1>2, <2>1, MovesTyped DEF Points
  <2>3. pc[a] \in {"new", "type", "mappings", "roles", "grants"}
    BY <1>2 DEF Gate, Arrives, ReadsType, ReadsMappings, ReadsRoles, ReadsGrants
  <2>4. of'[a] \in Systems
    <3>1. CASE pc[a] = "new"
      <4>1. Arrives(a) /\ ~Answers(a, "failed")
        BY <2>2, <3>1 DEF Gate, Arrives, ReadsType, ReadsMappings, ReadsRoles, ReadsGrants, Answers, RequestsOK
      <4>2. of'[a] = request[a].system
            \/ /\ request[a].op \notin Creates \cup {"list"} /\ Row(request[a]) \notin Absent
               /\ of'[a] = Row(request[a]).system
        BY <4>1 DEF Arrives, RequestsOK
      <4> QED BY <4>2, RowFound, RequestFields DEF RequestsOK
    <3>2. CASE pc[a] # "new"
      BY <2>3, <3>2 DEF Gate, Arrives, ReadsType, ReadsMappings, ReadsRoles, ReadsGrants, Found
    <3> QED BY <3>1, <3>2
  <2> QED BY <2>2, <2>3, <2>4 DEF Found
<1> QED BY <1>1, <1>2 DEF Gate, Arrives, ReadsType, ReadsMappings, ReadsRoles, ReadsGrants

LEMMA FoundByService ==
  ASSUME NEW a \in Admins, InventoryOK, SystemOK, RequestsOK, Found(a), Serve(a)
  PROVE  Found(a)'
<1> DEFINE q == request[a]
<1>0. /\ q \in Requests /\ q.hosts \subseteq Hosts
      /\ q.op = "setGroupHosts" => q.id \in ServerGroups
      /\ q.op = "updateHost" => q.id \in Hosts
      /\ q.profile \in Profiles \cup {None, Keep} /\ request' = request
  BY RequestFields, ActsOnRequests DEF RequestsOK
<1>a. ASSUME NEW how \in {"ok", "failed"}, Answers(a, how)
      PROVE  Found(a)'
  <2>1. pc'[a] = "done" /\ tx'[a] = None
    BY <1>a, AnswersTyped
  <2> QED BY <2>1 DEF Found
<1>1. ASSUME RequiresLinux(a), ~ \E how \in {"ok", "failed"} : Answers(a, how)
      PROVE  Found(a)'
  <2>1. PICK next \in {"profile", "write"} :
          /\ Moves(a, next) /\ next = IF q.op = "createHost" /\ q.profile \in Profiles
                                        THEN "profile" ELSE "write"
    BY <1>1 DEF RequiresLinux
  <2>2. /\ pc[a] = "work" /\ q.op \in Creates /\ of' = of /\ tx' = tx
        /\ pc'[a] = next /\ answer' = answer
    BY <1>1, <2>1, MovesTyped DEF RequiresLinux, Points, Creates
  <2> QED BY <1>0, <2>1, <2>2 DEF Found, Creates
<1>2. ASSUME FindsRow(a), ~ \E how \in {"ok", "failed"} : Answers(a, how)
      PROVE  Found(a)'
  <2>1. PICK next \in {"count", "profile", "write"} :
          /\ Moves(a, next)
          /\ next = CASE q.op = "setGroupHosts" -> "count"
                      [] q.op = "updateHost" /\ q.profile \in Profiles -> "profile"
                      [] OTHER -> "write"
    BY <1>2 DEF FindsRow
  <2>2. /\ pc[a] = "work" /\ q.op \in Updates \cup {"setGroupHosts"} /\ tx' = tx
        /\ Row(q) \notin Absent /\ of'[a] = Row(q).system /\ inventory' = inventory
        /\ pc'[a] = next /\ answer' = answer
    BY <1>2, <2>1, MovesTyped DEF FindsRow, Points, StaysPut, RequestsOK
  <2>3. /\ of'[a] \in Systems /\ (q.op = "updateHost" => Was(host, q.id, of'[a]))
        /\ q.op = "setGroupHosts" => Was(group, q.id, of'[a])
    BY <1>0, <2>2, RowFound DEF Creates, Updates
  <2>4. (q.op = "updateHost" => Was(host', q.id, of'[a]))
        /\ (q.op = "setGroupHosts" => Was(group', q.id, of'[a]))
    BY <2>2, <2>3 DEF inventory
  <2>5. /\ next = "count" => q.op = "setGroupHosts"
        /\ next = "profile" => q.op = "updateHost" /\ q.profile \in Profiles
        /\ next = "write" => q.op \in Updates /\ ~(q.op = "updateHost" /\ q.profile \in Profiles)
    BY <2>1, <2>2
  <2>6. answer'[a] = "none" /\ tx'[a] = None
    BY <2>2 DEF Found
  <2> HIDE DEF q
  <2> QED BY <1>0, <2>2, <2>3, <2>4, <2>5, <2>6 DEF Found, Creates, Updates, q
<1>3. ASSUME RequiresProfile(a), ~ \E how \in {"ok", "failed"} : Answers(a, how)
      PROVE  Found(a)'
  <2>1. /\ Moves(a, "write") /\ pc[a] = "profile" /\ of' = of /\ tx' = tx
        /\ inventory' = inventory
        /\ profile[q.profile] \notin Absent /\ profile[q.profile].system = of[a]
    BY <1>3 DEF RequiresProfile, StaysPut
  <2>2. pc'[a] = "write" /\ answer' = answer
    BY <2>1, MovesTyped DEF Points
  <2>3. Was(profile', q.profile, of[a])
    BY <2>1 DEF Was, Absent, inventory
  <2>4. q.op = "updateHost" => Was(host', q.id, of[a])
    BY <2>1 DEF Found, inventory
  <2> QED BY <1>0, <2>1, <2>2, <2>3, <2>4 DEF Found, Creates, Updates
<1>4. ASSUME CountsHosts(a), ~ \E how \in {"ok", "failed"} : Answers(a, how)
      PROVE  Found(a)'
  <2>1. /\ Moves(a, "delete") /\ pc[a] = "count" /\ of' = of /\ tx' = tx
        /\ inventory' = inventory
        /\ \A h \in q.hosts : host[h] \notin Absent /\ host[h].system = of[a]
    BY <1>4 DEF CountsHosts, StaysPut
  <2>2. pc'[a] = "delete" /\ answer' = answer
    BY <2>1, MovesTyped DEF Points
  <2>3. \A h \in q.hosts : Was(host', h, of[a])
    BY <2>1 DEF Was, Absent, inventory
  <2>4. Was(group', q.id, of[a]) /\ q.op = "setGroupHosts"
    BY <2>1 DEF Found, inventory
  <2> QED BY <1>0, <2>1, <2>2, <2>3, <2>4 DEF Found
<1>s. ASSUME NEW next \in {"clear", "insert", "commit"}, pc[a] \in {"delete", "clear", "insert"},
             Moves(a, next), of' = of, inventory' = inventory
      PROVE  /\ pc'[a] = next /\ answer'[a] = "none" /\ of'[a] \in Systems
             /\ q.op = "setGroupHosts" /\ Was(group', q.id, of'[a])
             /\ \A h \in q.hosts : Was(host', h, of'[a])
  <2>1. pc'[a] = next /\ answer' = answer
    BY <1>s, MovesTyped DEF Points
  <2> QED BY <1>s, <2>1 DEF Found, inventory
<1>5. CASE DeleteSees(a)
  <2>1. /\ pc'[a] = "clear" /\ answer'[a] = "none" /\ of'[a] \in Systems /\ tx'[a] = None
        /\ q.op = "setGroupHosts" /\ Was(group', q.id, of'[a])
        /\ \A h \in q.hosts : Was(host', h, of'[a])
    BY <1>5, <1>s DEF DeleteSees, StaysPut, Found
  <2> QED BY <1>0, <2>1 DEF Found
<1>6. CASE DeleteClears(a)
  <2>1. /\ pc'[a] = "insert" /\ answer'[a] = "none" /\ of'[a] \in Systems
        /\ q.op = "setGroupHosts" /\ Was(group', q.id, of'[a])
        /\ \A h \in q.hosts : Was(host', h, of'[a])
    BY <1>6, <1>s DEF DeleteClears, StaysPut
  <2>2. tx'[a] # None /\ tx'[a].add = {}
    <3>1. tx'[a] = [del |-> aim[a] \cap members, add |-> {}]
      BY <1>6 DEF DeleteClears, RequestsOK
    <3>2. tx'[a] \in Changes
      BY <3>1 DEF Changes, RequestsOK, InventoryOK, Memberships
    <3> QED BY <3>1, <3>2, NoChange
  <2> QED BY <1>0, <2>1, <2>2 DEF Found
<1>7. CASE Inserts(a)
  <2>1. /\ pc'[a] = "commit" /\ answer'[a] = "none" /\ of'[a] \in Systems
        /\ q.op = "setGroupHosts" /\ Was(group', q.id, of'[a])
        /\ \A h \in q.hosts : Was(host', h, of'[a])
    BY <1>7, <1>s DEF Inserts, StaysPut
  <2>2. tx'[a] # None /\ tx'[a].add = NewRows(a)
    <3>1. tx'[a] = [tx[a] EXCEPT !.add = NewRows(a)] /\ tx[a] \in Changes
      BY <1>7 DEF Inserts, RequestsOK, Found
    <3>2. tx'[a] \in Changes
      BY <1>0, <2>1, <3>1, NewRowsTyped DEF Changes
    <3> QED BY <3>1, <3>2, NoChange DEF Changes
  <2>3. NewRows(a)' = NewRows(a)
    BY <1>0 DEF NewRows
  <2> QED BY <1>0, <2>1, <2>2, <2>3 DEF Found
<1>8. CASE Writes(a) \/ WriteFails(a) \/ InsertFails(a) \/ Commits(a)
  BY <1>8, <1>a DEF Writes, WriteFails, InsertFails, Commits
<1> QED BY <1>a, <1>1, <1>2, <1>3, <1>4, <1>5, <1>6, <1>7, <1>8 DEF Serve

-----------------------------------------------------------------------------
(***************************************************************************)
(* One target system                                                       *)
(***************************************************************************)
LEMMA KeepsAges ==
  Keeps => AgesAll
  BY DEF Keeps, AgesAll

LEMMA CommitAges ==
  ASSUME NEW a, Commits(a)
  PROVE  AgesAll /\ profile' = profile /\ host' = host /\ group' = group
  BY AgesSame DEF Commits, AgesAll

LEMMA SameTargetKept ==
  ASSUME InventoryOK, SameTarget, Keeps
  PROVE  SameTarget'
<1>1. ASSUME NEW m \in members'
      PROVE  /\ group'[m[1]] \notin Absent /\ host'[m[2]] \notin Absent
             /\ group'[m[1]].system = host'[m[2]].system
  <2>1. /\ m \in members /\ group'[m[1]] \notin Absent /\ host'[m[2]] \notin Absent
    BY <1>1 DEF Keeps
  <2>2. /\ m[1] \in ServerGroups /\ m[2] \in Hosts /\ group[m[1]] \notin Absent
        /\ host[m[2]] \notin Absent /\ group[m[1]].system = host[m[2]].system
    BY <2>1 DEF SameTarget, InventoryOK
  <2>3. group'[m[1]].system = group[m[1]].system
    BY <2>1, <2>2 DEF Keeps, Ages, InventoryOK, Absent
  <2>4. host'[m[2]].system = host[m[2]].system
    BY <2>1, <2>2 DEF Keeps, Ages, InventoryOK, Absent
  <2> QED BY <2>1, <2>2, <2>3, <2>4
<1> QED BY <1>1 DEF SameTarget, Keeps, OwnProfiles

\* What a setGroupHosts inserts is of one target system, for it was counted there and
\* the foreign keys hold.
LEMMA InsertedSame ==
  ASSUME NEW a \in Admins, RequestsOK, InventoryOK, Found(a), Referred, pc[a] = "commit",
         NEW m \in tx[a].add
  PROVE  /\ group[m[1]] \notin Absent /\ host[m[2]] \notin Absent
         /\ group[m[1]].system = host[m[2]].system /\ m \in ServerGroups \X Hosts
         /\ m[1] = request[a].id /\ m[2] \in request[a].hosts
<1>1. /\ m \in NewRows(a) /\ Was(group, request[a].id, of[a])
      /\ \A h \in request[a].hosts : Was(host, h, of[a])
      /\ request[a].op = "setGroupHosts"
  BY DEF Found
<1>2. m[1] = request[a].id /\ m[2] \in request[a].hosts
  BY <1>1 DEF NewRows
<1>3. group[m[1]] \notin Absent /\ host[m[2]] \notin Absent
  BY <1>1 DEF Referred
<1>4. m \in ServerGroups \X Hosts
  BY <1>1, NewRowsTyped DEF Memberships, RequestsOK
<1> QED BY <1>1, <1>2, <1>3, <1>4 DEF Was, Absent

LEMMA CommitRows ==
  ASSUME NEW a \in Admins, RequestsOK, InventoryOK, Found(a), Referred, SameTarget, Commits(a)
  PROVE  InventoryOK' /\ SameTarget'
<1>1. /\ profile' = profile /\ host' = host /\ group' = group /\ pc[a] = "commit"
      /\ members' = (members \ tx[a].del) \cup tx[a].add
  BY DEF Commits
<1>2. tx[a].add \subseteq ServerGroups \X Hosts
  BY <1>1, InsertedSame
<1>3. InventoryOK'
  BY <1>1, <1>2 DEF InventoryOK
<1>4. ASSUME NEW m \in members'
      PROVE  /\ group[m[1]] \notin Absent /\ host[m[2]] \notin Absent
             /\ group[m[1]].system = host[m[2]].system
  BY <1>1, <1>4, InsertedSame DEF SameTarget
<1> QED BY <1>1, <1>3, <1>4 DEF SameTarget

\* The rows that are inserted refer to rows that cannot go before the commit.
LEMMA ReferredStays ==
  ASSUME NEW b \in Admins, RequestsOK, Found(b), Referred, request' = request,
         pc[b] = "commit", Keeps \/ UNCHANGED <<group, host>>, NEW m \in NewRows(b)'
  PROVE  group'[m[1]] \notin Absent /\ host'[m[2]] \notin Absent
<1>1. m \in NewRows(b)
  BY DEF NewRows
<1>2. group[m[1]] \notin Absent /\ host[m[2]] \notin Absent
  BY <1>1 DEF Referred
<1>3. m \in Open(b) /\ request[b].op = "setGroupHosts"
  BY <1>1 DEF Found, Open
<1>4. m = <<m[1], m[2]>> /\ m[1] \in ServerGroups /\ m[2] \in Hosts
  BY <1>1, <1>3, NewRowsTyped DEF RequestsOK, Memberships
<1>5. CASE Keeps
  BY <1>2, <1>3, <1>4, <1>5 DEF Keeps
<1>6. CASE UNCHANGED <<group, host>>
  BY <1>2, <1>6
<1> QED BY <1>5, <1>6

LEMMA ReferredByOwn ==
  ASSUME NEW a \in Admins, RequestsOK, InventoryOK, SystemOK, Found(a), Gate(a) \/ Serve(a),
         pc'[a] = "commit", NEW m \in NewRows(a)'
  PROVE  group'[m[1]] \notin Absent /\ host'[m[2]] \notin Absent
<1>1. Inserts(a)
  <2>1. ASSUME NEW how, Answers(a, how) PROVE FALSE
    BY <2>1 DEF Answers, RequestsOK
  <2>2. ASSUME NEW next \in Points \ {"commit"}, Moves(a, next) PROVE FALSE
    BY <2>2, MovesTyped
  <2>3. ~Gate(a)
    BY <2>1, <2>2 DEF Gate, Arrives, ReadsType, ReadsMappings, ReadsRoles, ReadsGrants, Points
  <2>4. ~RequiresLinux(a) /\ ~FindsRow(a) /\ ~RequiresProfile(a) /\ ~CountsHosts(a)
    BY <2>1, <2>2 DEF RequiresLinux, FindsRow, RequiresProfile, CountsHosts, Points
  <2>5. ~Writes(a) /\ ~WriteFails(a) /\ ~InsertFails(a) /\ ~Commits(a)
    BY <2>1 DEF Writes, WriteFails, InsertFails, Commits
  <2>6. ~DeleteSees(a) /\ ~DeleteClears(a)
    BY <2>2 DEF DeleteSees, DeleteClears, Points
  <2> QED BY <2>3, <2>4, <2>5, <2>6 DEF Serve
<1>2. /\ NewRows(a)' = NewRows(a) /\ group' = group /\ host' = host
      /\ Insertable(a) \/ NewRows(a) = {}
  BY <1>1 DEF Inserts, StaysPut, NewRows, inventory
<1>3. m[1] = request[a].id /\ m[2] \in request[a].hosts
  BY <1>2 DEF NewRows
<1> QED BY <1>2, <1>3 DEF Insertable

-----------------------------------------------------------------------------
(***************************************************************************)
(* The hosts of a group are those last asked for                           *)
(***************************************************************************)
\* A transaction of setGroupHosts ends with Commits, or is rolled back by InsertFails.
LEMMA CommitOnly ==
  ASSUME NEW a \in Admins, RequestsOK, Gate(a) \/ Serve(a), pc[a] = "commit"
  PROVE  Commits(a)
<1>1. ~Gate(a)
  BY DEF Gate, Arrives, ReadsType, ReadsMappings, ReadsRoles, ReadsGrants
<1> QED BY <1>1 DEF Serve, RequiresLinux, FindsRow, RequiresProfile, CountsHosts, Writes, Writing,
                    WriteFails, DeleteSees, DeleteClears, Inserts, InsertFails

LEMMA NoneCommits ==
  ASSUME RequestsOK, NEW g,
         pc' = pc \/ \E a \in Admins : (Gate(a) \/ Serve(a)) /\ ~Commits(a) /\ OthersStay(a)
  PROVE  Committing(g) = {}
<1> SUFFICES ASSUME NEW b \in Admins, pc[b] = "commit", pc'[b] = "done"
             PROVE  FALSE
  BY DEF Committing
<1>1. PICK a \in Admins : (Gate(a) \/ Serve(a)) /\ ~Commits(a) /\ OthersStay(a)
  OBVIOUS
<1>2. b = a
  BY <1>1 DEF OthersStay
<1> QED BY <1>1, <1>2, CommitOnly

LEMMA OneCommits ==
  ASSUME RequestsOK, NEW a \in Admins, Commits(a), OthersStay(a), NEW g,
         request[a].op = "setGroupHosts"
  PROVE  Committing(g) = IF g = request[a].id THEN {a} ELSE {}
<1>1. pc[a] = "commit" /\ pc'[a] = "done" /\ \A b \in Admins \ {a} : pc'[b] = pc[b]
  BY AnswersTyped DEF Commits, OthersStay
<1> QED BY <1>1 DEF Committing, SetOf

\* No setGroupHosts commits: what was asked for stays, and so does who was crossed.
SetsStay ==
  /\ \A g \in ServerGroups : asked'[g] = asked[g] /\ exact'[g] = exact[g]
  /\ \A b \in Admins : crossed'[b] <=> crossed[b]

LEMMA SetsStayUnlessCommit ==
  ASSUME TracksSets, \A g \in ServerGroups : Committing(g) = {}
  PROVE  SetsStay
  BY DEF TracksSets, SetsStay

LEMMA AskedKept ==
  ASSUME InventoryOK, HistoryOK, SameTarget, AskedKnown, AsOneAsked, Keeps, SetsStay
  PROVE  AskedKnown' /\ AsOneAsked'
<1>1. ASSUME NEW g \in ServerGroups
      PROVE  /\ group'[g] = None => group[g] = None
             /\ group[g] = Gone => group'[g] = Gone
    BY Rows DEF Keeps, Ages, InventoryOK
<1>2. ASSUME NEW h \in Hosts
      PROVE  /\ host'[h] = None => host[h] = None
             /\ host[h] = Gone => host'[h] = Gone
    BY Rows DEF Keeps, Ages, InventoryOK
<1>3. AskedKnown'
  BY <1>1, <1>2 DEF AskedKnown, SetsStay, HistoryOK
<1>4. ASSUME NEW g \in ServerGroups, group'[g] \notin Absent, exact[g]
      PROVE  HostsOf(g)' = {h \in asked[g] : host'[h] \notin Absent}
  <2>1. group[g] # Gone
    BY <1>1, <1>4 DEF Absent
  <2>2. \A h \in Hosts : <<g, h>> \in members' <=> <<g, h>> \in members /\ host'[h] \notin Absent
    BY <1>4 DEF Keeps
  <2>3. asked[g] \subseteq Hosts
    BY DEF HistoryOK
  <2>4. CASE group[g] = None
    <3>1. asked[g] = {} /\ \A h \in Hosts : <<g, h>> \notin members
      BY <2>4 DEF AskedKnown, SameTarget, Absent
    <3> QED BY <2>2, <3>1 DEF HostsOf
  <2>5. CASE group[g] # None
    <3>1. \A h \in Hosts : <<g, h>> \in members <=> h \in asked[g] /\ host[h] \notin Absent
      BY <1>4, <2>1, <2>5 DEF AsOneAsked, HostsOf, Absent
    <3>2. \A h \in asked[g] : host'[h] \notin Absent => host[h] \notin Absent
      BY <1>2, <2>3 DEF AskedKnown, Absent
    <3> QED BY <2>2, <2>3, <3>1, <3>2 DEF HostsOf
  <2> QED BY <2>4, <2>5
<1> QED BY <1>3, <1>4 DEF AsOneAsked, SetsStay

LEMMA AskedAtCommit ==
  ASSUME NEW a \in Admins, RequestsOK, InventoryOK, HistoryOK, Found(a), Referred, Clears(a),
         AskedKnown, AsOneAsked, Commits(a), OthersStay(a), TracksSets
  PROVE  AskedKnown' /\ AsOneAsked'
<1> DEFINE q == request[a]
<1>1. /\ pc[a] = "commit" /\ profile' = profile /\ host' = host /\ group' = group
      /\ members' = (members \ tx[a].del) \cup tx[a].add
  BY DEF Commits
<1>2. /\ q.op = "setGroupHosts" /\ Was(group, q.id, of[a]) /\ tx[a].add = NewRows(a)
      /\ \A h \in q.hosts : Was(host, h, of[a])
  BY <1>1 DEF Found
<1>3. q.id \in ServerGroups /\ q.hosts \subseteq Hosts
  BY <1>2, RequestFields DEF RequestsOK
<1>4. \A g \in ServerGroups : Committing(g) = IF g = q.id THEN {a} ELSE {}
  BY <1>2, OneCommits
<1>5. \A g \in ServerGroups : /\ asked'[g] = IF g = q.id THEN q.hosts ELSE asked[g]
                              /\ exact'[g] <=> IF g = q.id THEN ~crossed[a] ELSE exact[g]
  BY <1>4 DEF TracksSets
<1>6. AskedKnown'
  BY <1>1, <1>2, <1>5 DEF AskedKnown, Was
<1>7. \A m \in tx[a].del : m[1] = q.id
  BY <1>1 DEF Clears
<1>8. \A m \in tx[a].add : m[1] = q.id
  BY <1>2 DEF NewRows
<1>9. ASSUME NEW g \in ServerGroups, g # q.id, group[g] \notin Absent, exact[g]
      PROVE  HostsOf(g)' = {h \in asked[g] : host[h] \notin Absent}
  <2>1. \A h \in Hosts : <<g, h>> \in members' <=> <<g, h>> \in members
    BY <1>1, <1>7, <1>8, <1>9
  <2>2. HostsOf(g)' = HostsOf(g)
    BY <2>1 DEF HostsOf
  <2> QED BY <1>9, <2>2 DEF AsOneAsked
<1>10. ASSUME ~crossed[a], NEW g \in ServerGroups, g = q.id
       PROVE  HostsOf(g)' = {h \in q.hosts : host[h] \notin Absent}
  <2>1. \A m \in members : m[1] = q.id => m \in tx[a].del
    BY <1>1, <1>10 DEF Clears
  <2>2. \A h \in Hosts : <<q.id, h>> \in members' <=> <<q.id, h>> \in NewRows(a)
    BY <1>1, <1>2, <2>1
  <2>3. \A h \in Hosts : <<q.id, h>> \in NewRows(a) <=> h \in q.hosts
    BY DEF NewRows
  <2>4. \A h \in q.hosts : host[h] \notin Absent
    BY <1>1, <1>3, <2>3 DEF Referred
  <2> QED BY <1>3, <1>10, <2>2, <2>3, <2>4 DEF HostsOf
<1> QED BY <1>1, <1>5, <1>6, <1>9, <1>10 DEF AsOneAsked

\* Another than the one that commits: its rows stay, or it is crossed.
LEMMA ClearsStays ==
  ASSUME NEW b \in Admins, Clears(b), request' = request, pc'[b] = pc[b], tx'[b] = tx[b],
         aim'[b] = aim[b], crossed'[b] <=> crossed[b], members' \subseteq members
  PROVE  Clears(b)'
  BY DEF Clears

LEMMA ClearsAtCommit ==
  ASSUME NEW a \in Admins, NEW b \in Admins \ {a}, RequestsOK, Found(a), Found(b), Clears(a),
         Clears(b), Commits(a), OthersStay(a), TracksSets
  PROVE  Clears(b)'
<1>1. /\ pc[a] = "commit" /\ request' = request /\ request[a].op = "setGroupHosts"
      /\ members' = (members \ tx[a].del) \cup tx[a].add
      /\ tx[a].add = NewRows(a) /\ aim'[b] = aim[b] \ tx[a].del
      /\ pc'[b] = pc[b] /\ tx'[b] = tx[b]
  BY DEF Commits, Found, OthersStay, Outdated
<1>2. /\ \A m \in tx[a].del : m[1] = request[a].id
      /\ \A m \in tx[a].add : m[1] = request[a].id
  BY <1>1 DEF Clears, NewRows
<1>3. CASE request[b].id # request[a].id
  <2>1. \A m \in members' : m[1] = request[b].id => m \in members
    BY <1>1, <1>2, <1>3
  <2>2. \A m : m[1] = request[b].id => m \notin tx[a].del
    BY <1>2, <1>3
  <2>3. ~crossed'[b] => ~crossed[b]
    BY DEF TracksSets
  <2>4. pc[b] = "clear" => \A m \in aim'[b] : m[1] = request[b].id
    BY <1>1 DEF Clears
  <2>5. pc[b] = "clear" /\ ~crossed'[b] => {m \in members' : m[1] = request[b].id} \subseteq aim'[b]
    BY <1>1, <2>1, <2>2, <2>3 DEF Clears
  <2>6. pc[b] \in {"insert", "commit"} /\ ~crossed'[b] =>
          {m \in members' : m[1] = request[b].id} \subseteq tx[b].del
    BY <2>1, <2>3 DEF Clears
  <2> QED BY <1>1, <2>4, <2>5, <2>6 DEF Clears
<1>4. CASE request[b].id = request[a].id
  <2>1. ASSUME pc[b] \in {"clear", "insert", "commit"}
        PROVE  crossed'[b]
    <3>1. /\ request[b].op = "setGroupHosts" /\ request[b].id \in ServerGroups
      BY <2>1, RequestFields DEF Found, RequestsOK
    <3>2. Committing(request[b].id) = {a}
      BY <1>1, <1>4, OneCommits
    <3> QED BY <2>1, <3>1, <3>2 DEF TracksSets, SetOf
  <2> QED BY <1>1, <2>1 DEF Clears
<1> QED BY <1>3, <1>4

LEMMA ClearsByOwn ==
  ASSUME NEW a \in Admins, RequestsOK, InventoryOK, Clears(a), Gate(a) \/ Serve(a), SetsStay
  PROVE  Clears(a)'
<1>0. request' = request
  BY ActsOnRequests
<1>a. ASSUME NEW how, Answers(a, how) PROVE Clears(a)'
  BY <1>a DEF Answers, RequestsOK, Clears
<1>b. ASSUME NEW next \in Points \ {"clear", "insert", "commit"}, Moves(a, next)
      PROVE  Clears(a)'
  BY <1>b, MovesTyped DEF Clears
<1>1. CASE Gate(a)
  BY <1>1, <1>a, <1>b DEF Gate, Arrives, ReadsType, ReadsMappings, ReadsRoles, ReadsGrants, Points
<1>2. CASE RequiresLinux(a) \/ FindsRow(a) \/ RequiresProfile(a) \/ CountsHosts(a)
  BY <1>2, <1>a, <1>b DEF RequiresLinux, FindsRow, RequiresProfile, CountsHosts, Points
<1>3. CASE Writes(a) \/ WriteFails(a) \/ InsertFails(a) \/ Commits(a)
  BY <1>3, <1>a DEF Writes, WriteFails, InsertFails, Commits
<1>4. CASE DeleteSees(a)
  <2>1. /\ pc'[a] = "clear" /\ members' = members
        /\ aim'[a] = {m \in members : m[1] = request[a].id}
    BY <1>4, MovesTyped DEF DeleteSees, StaysPut, inventory, RequestsOK, Points
  <2> QED BY <1>0, <2>1 DEF Clears
<1>5. CASE DeleteClears(a)
  <2>1. /\ pc[a] = "clear" /\ pc'[a] = "insert" /\ members' = members
        /\ tx'[a] = [del |-> aim[a] \cap members, add |-> {}]
    BY <1>5, MovesTyped DEF DeleteClears, StaysPut, inventory, RequestsOK, Points
  <2>2. tx'[a].del = aim[a] \cap members
    BY <2>1
  <2> QED BY <1>0, <2>1, <2>2 DEF Clears, SetsStay
<1>6. CASE Inserts(a)
  <2>1. /\ pc[a] = "insert" /\ pc'[a] = "commit" /\ members' = members
        /\ tx'[a] = [tx[a] EXCEPT !.add = NewRows(a)]
    BY <1>6, MovesTyped DEF Inserts, StaysPut, inventory, RequestsOK, Points
  <2>2. tx'[a].del = tx[a].del
    BY <2>1
  <2> QED BY <1>0, <2>1, <2>2 DEF Clears, SetsStay
<1> QED BY <1>1, <1>2, <1>3, <1>4, <1>5, <1>6 DEF Serve

-----------------------------------------------------------------------------
(***************************************************************************)
(* The decision of the gate                                                *)
(***************************************************************************)
\* The two queries for the permissions of a session tell what it may do.
LEMMA GrantsOfMapped ==
  ASSUME NEW s \in Sessions, NEW t, NEW access \in {"read", "write"}, ~s.local
  PROVE  Grants(MappedRoles(s), t, access) <=> Permitted(s, t, access)
  BY DEF Grants, MappedRoles, Permitted

LEMMA AccessKinds ==
  ASSUME NEW q
  PROVE  Access(q) \in {"read", "write"}
  BY DEF Access

LEMMA Tracked ==
  ASSUME HistoryOK, RequestsOK, NEW a \in Admins, TracksRights
  PROVE  /\ allowed[a] => allowed'[a]
         /\ denied[a] => denied'[a]
         /\ InGate(a)' => Decides(a, MayNow(a))'
         /\ edits' = edits \/ ~InGate(a) => crossings'[a] = crossings[a]
         /\ edits' # edits /\ InGate(a) /\ crossings'[a] < 2 => crossings[a] = 0 /\ EditSize = 1
<1>1. /\ allowed'[a] <=> allowed[a] \/ (InGate(a)' /\ MayNow(a)')
      /\ denied'[a] <=> denied[a] \/ (InGate(a)' /\ ~MayNow(a)')
  BY DEF TracksRights
<1>2. crossings'[a] = IF edits' = edits \/ ~InGate(a) THEN crossings[a]
                      ELSE IF crossings[a] = 0 THEN EditSize ELSE 2
  BY DEF TracksRights
<1>3. EditSize \in {1, 2}
  BY EditSizes
<1>4. crossings'[a] < 2 /\ edits' # edits /\ InGate(a) => crossings[a] = 0 /\ EditSize = 1
  BY <1>2, <1>3
<1>5. InGate(a)' => Decides(a, MayNow(a))'
  BY <1>1 DEF Decides
<1> QED BY <1>1, <1>2, <1>4, <1>5

\* In a step that is not one of its own, nor an edit, nothing changes for the request.
LEMMA JudgesStays ==
  ASSUME HistoryOK, RequestsOK, NEW b \in Admins, TracksRights, Judges(b), edits' = edits,
         UNCHANGED <<role, mapping, system, session, request>>,
         pc'[b] = pc[b], of'[b] = of[b], type'[b] = type[b], granted'[b] = granted[b]
  PROVE  Judges(b)'
<1>1. /\ allowed[b] => allowed'[b]
      /\ denied[b] => denied'[b]
      /\ InGate(b)' => Decides(b, MayNow(b))'
      /\ crossings'[b] = crossings[b]
  BY Tracked
<1>2. \A may : Decides(b, may) => (may => allowed'[b]) /\ (~may => denied'[b])
  BY <1>1 DEF Decides
<1>3. /\ Permitted(session[b], type[b], Access(request[b]))'
           <=> Permitted(session[b], type[b], Access(request[b]))
      /\ MappedRoles(session[b])' = MappedRoles(session[b])
      /\ Grants(granted[b], type[b], Access(request[b]))'
           <=> Grants(granted[b], type[b], Access(request[b]))
  BY DEF Permitted, MappedRoles, Grants, Access
<1>4. pc[b] = "mappings" /\ crossings[b] < 2 =>
        Decides(b, Permitted(session[b], type[b], Access(request[b])))'
  BY <1>1, <1>3 DEF Judges, Decides
<1>5. pc[b] \in {"roles", "grants"} /\ crossings[b] < 2 =>
       Decides(b, Grants(granted[b], type[b], Access(request[b])))'
  BY <1>1, <1>3 DEF Judges, Decides
<1>6. /\ pc[b] \in {"mappings", "roles", "grants"} => ~session[b].local /\ type[b] \in Types
      /\ pc[b] \in {"mappings", "roles", "grants"} /\ crossings[b] = 0 => type[b] = system[of[b]]
      /\ pc[b] \in {"roles", "grants"} /\ crossings[b] = 0 => granted[b] = MappedRoles(session[b])
  BY DEF Judges
<1> QED BY <1>1, <1>3, <1>4, <1>5, <1>6 DEF Judges

LEMMA OutOfGate ==
  ASSUME NEW a \in Admins, ~InGate(a)'
  PROVE  Judges(a)'
  BY DEF InGate, Judges

LEMMA JudgesByGate ==
  ASSUME HistoryOK, RequestsOK, SystemOK, NEW a \in Admins, TracksRights, Judges(a), Found(a),
         edits' = edits, Gate(a)
  PROVE  Judges(a)'
<1>0. UNCHANGED <<role, mapping, system, session, request>>
  BY ActsOnRequests
<1>1. /\ allowed[a] => allowed'[a]
      /\ denied[a] => denied'[a]
      /\ InGate(a)' => Decides(a, MayNow(a))'
      /\ crossings'[a] = crossings[a]
  BY Tracked
<1>a. ASSUME NEW how, Answers(a, how) PROVE Judges(a)'
  BY <1>a, OutOfGate DEF Answers, RequestsOK, InGate
<1>b. ASSUME Moves(a, "work") PROVE Judges(a)'
  BY <1>b, MovesTyped, OutOfGate DEF InGate, Points
<1>2. CASE Arrives(a)
  <2>1. CASE Moves(a, "type")
    <3>1. pc'[a] = "type"
      BY <2>1, MovesTyped DEF Points
    <3> QED BY <1>1, <3>1 DEF Judges
  <2> QED BY <1>2, <1>a, <2>1 DEF Arrives
<1>3. CASE ReadsType(a) /\ ~session[a].local /\ system[of[a]] \notin Absent
  <2>1. /\ pc[a] = "type" /\ type'[a] = system[of[a]] /\ of' = of /\ Moves(a, "mappings")
    BY <1>3 DEF ReadsType, RequestsOK
  <2>2. pc'[a] = "mappings" /\ of[a] \in Systems
    BY <2>1, MovesTyped DEF Points, Found
  <2>3. type'[a] \in Types
    BY <1>3, <2>1, <2>2 DEF SystemOK
  <2>4. InGate(a)' /\ system'[of'[a]] \notin Absent /\ type'[a] = system'[of'[a]]
    BY <1>0, <1>3, <2>1, <2>2 DEF InGate
  <2>5. Decides(a, Permitted(session[a], type[a], Access(request[a])))'
    BY <1>1, <2>4 DEF MayNow, Decides
  <2> QED BY <1>0, <1>1, <1>3, <2>2, <2>3, <2>4, <2>5 DEF Judges
<1>4. CASE ReadsType(a) /\ ~(~session[a].local /\ system[of[a]] \notin Absent)
  BY <1>4, <1>a, <1>b DEF ReadsType
<1>5. CASE ReadsMappings(a)
  <2>1. /\ pc[a] = "mappings" /\ of' = of /\ type' = type /\ Moves(a, "roles")
        /\ granted'[a] = MappedRoles(session[a])
    BY <1>5 DEF ReadsMappings, RequestsOK
  <2>2. pc'[a] = "roles"
    BY <2>1, MovesTyped DEF Points
  <2>3. /\ ~session[a].local /\ type[a] \in Types
        /\ crossings[a] = 0 => type[a] = system[of[a]]
        /\ crossings[a] < 2 => Decides(a, Permitted(session[a], type[a], Access(request[a])))
    BY <2>1 DEF Judges
  <2>4. granted'[a] = MappedRoles(session[a])'
    BY <1>0, <2>1 DEF MappedRoles
  <2>5. Grants(MappedRoles(session[a]), type[a], Access(request[a]))
          <=> Permitted(session[a], type[a], Access(request[a]))
    BY <2>3, GrantsOfMapped, AccessKinds DEF RequestsOK
  <2>6. Grants(granted[a], type[a], Access(request[a]))'
          <=> Grants(MappedRoles(session[a]), type[a], Access(request[a]))
    BY <1>0, <2>1 DEF Grants, Access
  <2>7. crossings'[a] < 2 => Decides(a, Grants(granted[a], type[a], Access(request[a])))'
    BY <1>1, <2>3, <2>5, <2>6 DEF Decides
  <2> QED BY <1>0, <1>1, <2>1, <2>2, <2>3, <2>4, <2>7 DEF Judges
<1>6. CASE ReadsRoles(a)
  <2>1. CASE Moves(a, "grants")
    <3>1. /\ pc[a] = "roles" /\ pc'[a] = "grants" /\ of' = of /\ type' = type /\ granted' = granted
      BY <1>6, <2>1, MovesTyped DEF ReadsRoles, Points
    <3>2. MappedRoles(session[a])' = MappedRoles(session[a])
      BY <1>0 DEF MappedRoles
    <3>3. Grants(granted[a], type[a], Access(request[a]))'
            <=> Grants(granted[a], type[a], Access(request[a]))
      BY <1>0, <3>1 DEF Grants, Access
    <3>4. crossings'[a] < 2 => Decides(a, Grants(granted[a], type[a], Access(request[a])))'
      BY <1>1, <3>1, <3>3 DEF Decides, Judges
    <3>5. /\ ~session[a].local /\ type[a] \in Types
          /\ crossings[a] = 0 => type[a] = system[of[a]] /\ granted[a] = MappedRoles(session[a])
      BY <3>1 DEF Judges
    <3> QED BY <1>0, <1>1, <3>1, <3>2, <3>4, <3>5 DEF Judges
  <2> QED BY <1>6, <1>a, <2>1 DEF ReadsRoles
<1>7. CASE ReadsGrants(a)
  BY <1>7, <1>a, <1>b DEF ReadsGrants
<1> QED BY <1>2, <1>3, <1>4, <1>5, <1>6, <1>7 DEF Gate

\* The service is beyond the gate, and forbids nothing.
LEMMA ServeOutside ==
  ASSUME NEW a \in Admins, RequestsOK, Serve(a)
  PROVE  /\ ~InGate(a) /\ pc[a] \notin {"new", "done"} /\ ~InGate(a)' /\ pc'[a] # "new"
         /\ answer'[a] \in {answer[a], "ok", "failed"}
<1>a. ASSUME NEW how \in {"ok", "failed"}, Answers(a, how)
      PROVE  pc'[a] = "done" /\ answer'[a] = how
  BY <1>a, AnswersTyped
<1>b. ASSUME NEW next \in {"profile", "write", "count", "delete", "clear", "insert", "commit"},
             Moves(a, next)
      PROVE  pc'[a] = next /\ answer'[a] = answer[a]
  BY <1>b, MovesTyped DEF Points
<1>1. CASE RequiresLinux(a) \/ FindsRow(a) \/ RequiresProfile(a) \/ CountsHosts(a)
  <2>1. \/ \E how \in {"ok", "failed"} : Answers(a, how)
        \/ \E next \in {"profile", "write", "count", "delete", "clear", "insert", "commit"} :
             Moves(a, next)
    BY <1>1 DEF RequiresLinux, FindsRow, RequiresProfile, CountsHosts
  <2> QED BY <1>1, <1>a, <1>b, <2>1
          DEF RequiresLinux, FindsRow, RequiresProfile, CountsHosts, InGate
<1>2. CASE Writes(a) \/ WriteFails(a) \/ InsertFails(a) \/ Commits(a)
  BY <1>2, <1>a DEF Writes, Writing, WriteFails, InsertFails, Commits, InGate
<1>3. CASE DeleteSees(a) \/ DeleteClears(a) \/ Inserts(a)
  BY <1>3, <1>b DEF DeleteSees, DeleteClears, Inserts, InGate
<1> QED BY <1>1, <1>2, <1>3 DEF Serve

\* An edit of the rights, of which the gate may have read one half, and its size: what
\* the gate has read is as good as before, or as what it would read now.
EditKeeps(a) ==
  \/ \A r \in granted[a] : role[r] \notin Absent =>
       role'[r] \notin Absent /\ role'[r].level = role[r].level
  \/ MappedRoles(session[a])' = {r \in granted[a] : role'[r] \notin Absent}

LEMMA EditOfRoles ==
  ASSUME RbacTypeOK, RequestsOK, EditsRights, EditSize = 1, session' = session, NEW a \in Admins,
         granted[a] = MappedRoles(session[a])
  PROVE  EditKeeps(a)
<1>0. PICK r \in Roles :
        \/ \E enabled \in BOOLEAN : CreateRole(r, enabled, AllTypes)
        \/ \E e \in RoleEdits : UpdateRole(r, e.enabled, e.level)
        \/ DeleteRole(r)
        \/ \E g \in IdpGroups, state \in {"on", "off"} :
             \/ CreateMapping(<<g, r>>, state) \/ DeleteMapping(<<g, r>>)
             \/ \E to \in Roles : UpdateMapping(<<g, r>>, <<g, to>>, state)
  BY DEF EditsRights, AllTypes
<1>1. granted[a] \subseteq Roles /\ DOMAIN role = Roles
  BY DEF RequestsOK, RbacTypeOK
<1>2. ASSUME NEW enabled \in BOOLEAN, CreateRole(r, enabled, AllTypes) PROVE EditKeeps(a)
  <2>1. r \notin granted[a]
    BY <1>2 DEF CreateRole, Absent, MappedRoles
  <2>2. \A x \in granted[a] : role'[x] = role[x]
    BY <1>1, <1>2, <2>1 DEF CreateRole
  <2> QED BY <2>2 DEF EditKeeps
<1>3. CASE DeleteRole(r)
  <2>1. \A x \in Roles : role'[x] = IF x = r THEN Gone ELSE role[x]
    BY <1>1, <1>3 DEF DeleteRole
  <2>2. Gone \in Absent
    BY DEF Absent
  <2>3. \A g \in IdpGroups, x \in Roles \ {r} : mapping'[<<g, x>>] = mapping[<<g, x>>]
    BY <1>3 DEF DeleteRole, RbacTypeOK
  <2>4. session[a] \in Sessions
    BY DEF RequestsOK
  <2>5. \A x \in Roles : x \in MappedRoles(session[a])'
                          <=> x \in granted[a] /\ role'[x] \notin Absent
    <3> TAKE x \in Roles
    <3>1. CASE x = r
      BY <2>1, <2>2, <3>1 DEF MappedRoles
    <3>2. CASE x # r
      BY <2>1, <2>3, <2>4, <3>2 DEF MappedRoles, Sessions
    <3> QED BY <3>1, <3>2
  <2>6. MappedRoles(session[a])' \subseteq Roles
    BY DEF MappedRoles
  <2> QED BY <1>1, <2>5, <2>6 DEF EditKeeps
<1>4. CASE \E g \in IdpGroups, state \in {"on", "off"} :
             \/ CreateMapping(<<g, r>>, state) \/ DeleteMapping(<<g, r>>)
             \/ \E to \in Roles : UpdateMapping(<<g, r>>, <<g, to>>, state)
  <2>1. role' = role
    BY <1>4 DEF CreateMapping, DeleteMapping, UpdateMapping
  <2> QED BY <2>1 DEF EditKeeps
<1>5. CASE \E e \in RoleEdits : UpdateRole(r, e.enabled, e.level)
  <2>1. PICK e \in RoleEdits : UpdateRole(r, e.enabled, e.level)
    BY <1>5
  <2>2. e \in RoleRows
    BY FleetRunAssumption DEF RoleRows
  <2>3. PICK row : row = [enabled |-> e.enabled, level |-> e.level]
    OBVIOUS
  <2>4. row \in RoleRows /\ row \notin Absent
    BY <2>2, <2>3, Rows, RbacAssumption DEF RoleRows
  <2>5. \A x \in Roles : role'[x] = IF x = r THEN row ELSE role[x]
    BY <1>1, <2>1, <2>3 DEF UpdateRole
  <2>6. role[r] \notin Absent /\ role[r] \in RoleRows /\ mapping' = mapping
    BY <2>1 DEF UpdateRole, RbacTypeOK
  <2>7. role[r].enabled = row.enabled \/ role[r].level = row.level
    BY <2>4, <2>5, <2>6 DEF EditSize
  <2>8. CASE role[r].level = row.level
    BY <1>1, <2>4, <2>5, <2>8 DEF EditKeeps
  <2>9. CASE role[r].enabled = row.enabled
    <3>1. \A x \in Roles : /\ role'[x] \notin Absent <=> role[x] \notin Absent
                           /\ role[x] \notin Absent => role'[x].enabled = role[x].enabled
      BY <2>4, <2>5, <2>6, <2>9
    <3>2. MappedRoles(session[a])' = MappedRoles(session[a])
      BY <2>6, <3>1 DEF MappedRoles
    <3>3. \A x \in granted[a] : role'[x] \notin Absent
      BY <1>1, <3>1 DEF MappedRoles
    <3> QED BY <3>2, <3>3 DEF EditKeeps
  <2> QED BY <2>7, <2>8, <2>9
<1> QED BY <1>0, <1>2, <1>3, <1>4, <1>5

LEMMA EditStep ==
  ASSUME Edits, edits \in Nat
  PROVE  /\ edits' # edits /\ edits' \in Nat /\ requests' = requests
         /\ UNCHANGED <<event, stage, found, list, chosen, usable, current, failed, outcome,
                        accounts, has, faults, cut>>
         /\ \/ EditsRights /\ UNCHANGED <<system, inventory>>
            \/ UNCHANGED <<role, mapping>> /\ EditsSystem
  BY DEF Edits, EditsSystem, DropSystem, SetType, worker

LEMMA JudgesByEdit ==
  ASSUME HistoryOK, RequestsOK, RbacTypeOK, SystemOK, NEW b \in Admins, TracksRights, Judges(b),
         edits \in Nat, Edits
  PROVE  Judges(b)'
<1>0. /\ edits' # edits /\ UNCHANGED <<session, request, pc, of, type, granted>>
      /\ \/ EditsRights /\ system' = system
         \/ UNCHANGED <<role, mapping>>
  BY EditStep DEF requests
<1>1. /\ allowed[b] => allowed'[b]
      /\ denied[b] => denied'[b]
      /\ InGate(b)' => Decides(b, MayNow(b))'
      /\ InGate(b) /\ crossings'[b] < 2 => crossings[b] = 0 /\ EditSize = 1
  BY <1>0, Tracked
<1>2. CASE ~InGate(b)
  BY <1>0, <1>2, OutOfGate DEF InGate
<1>3. CASE InGate(b)
  <2> DEFINE access == Access(request[b])
  <2>1. /\ ~(pc[b] \in {"mappings", "roles", "grants"} /\ crossings'[b] = 0)
        /\ access' = access
    <3>1. crossings'[b] # 0
      BY <1>0, <1>3, EditSizes DEF TracksRights
    <3> QED BY <1>0, <3>1 DEF Access
  <2>2. ASSUME pc[b] = "mappings", crossings'[b] < 2
        PROVE  Decides(b, Permitted(session[b], type[b], access))'
    <3>1. type[b] \in Types /\ type[b] = system[of[b]] /\ Decides(b, MayNow(b))
      BY <1>1, <1>3, <2>2 DEF Judges
    <3>2. type[b] \notin Absent
      BY <3>1, Rows
    <3>3. MayNow(b) <=> Permitted(session[b], type[b], access)
      BY <3>1, <3>2 DEF MayNow
    <3>4. CASE EditsRights /\ system' = system
      <4>1. MayNow(b)' <=> Permitted(session[b], type[b], access)'
        BY <1>0, <3>1, <3>2, <3>4 DEF MayNow
      <4> QED BY <1>0, <1>1, <1>3, <4>1 DEF InGate, Decides
    <3>5. CASE UNCHANGED <<role, mapping>>
      <4>1. Permitted(session[b], type[b], access)' <=> Permitted(session[b], type[b], access)
        BY <1>0, <3>5, <2>1 DEF Permitted
      <4> QED BY <1>1, <3>1, <3>3, <4>1 DEF Decides
    <3> QED BY <1>0, <3>4, <3>5
  <2>3. ASSUME pc[b] \in {"roles", "grants"}, crossings'[b] < 2
        PROVE  Decides(b, Grants(granted[b], type[b], access))'
    <3>1. /\ crossings[b] = 0 /\ EditSize = 1 /\ type[b] \in Types /\ type[b] = system[of[b]]
          /\ granted[b] = MappedRoles(session[b]) /\ ~session[b].local
      BY <1>1, <1>3, <2>3 DEF Judges
    <3>2. \A r \in granted[b] : role[r] \notin Absent
      BY <3>1 DEF MappedRoles
    <3>3. Decides(b, Grants(granted[b], type[b], access))
      BY <2>3, <3>1 DEF Judges
    <3>4. ASSUME \A r \in granted[b] : role'[r] \notin Absent /\ role'[r].level = role[r].level
          PROVE  Decides(b, Grants(granted[b], type[b], access))'
      <4>1. Grants(granted[b], type[b], access)' <=> Grants(granted[b], type[b], access)
        BY <1>0, <2>1, <3>2, <3>4 DEF Grants
      <4> QED BY <1>1, <3>3, <4>1 DEF Decides
    <3>5. CASE EditsRights /\ system' = system
      <4>1. EditKeeps(b)
        BY <1>0, <3>1, <3>5, EditOfRoles
      <4>2. CASE MappedRoles(session[b])' = {r \in granted[b] : role'[r] \notin Absent}
        <5>1. Grants(granted[b], type[b], access)' <=> Grants(MappedRoles(session[b]), type[b], access)'
          BY <1>0, <4>2 DEF Grants
        <5>2. Grants(granted[b], type[b], access)' <=> Permitted(session[b], type[b], access)'
          <6>1. session'[b] \in Sessions /\ ~session'[b].local /\ access' \in {"read", "write"}
            BY <1>0, <3>1, AccessKinds DEF RequestsOK
          <6> QED BY <5>1, <6>1 DEF Grants, MappedRoles, Permitted
        <5>3. type[b] \notin Absent
          BY <3>1, Rows
        <5>4. MayNow(b)' <=> Permitted(session[b], type[b], access)'
          BY <1>0, <3>1, <3>5, <5>3 DEF MayNow
        <5> QED BY <1>0, <1>1, <1>3, <5>2, <5>4 DEF InGate, Decides
      <4> QED BY <3>2, <3>4, <4>1, <4>2 DEF EditKeeps
    <3>6. CASE UNCHANGED <<role, mapping>>
      BY <3>2, <3>4, <3>6
    <3> QED BY <1>0, <3>5, <3>6
  <2>4. pc[b] \in {"mappings", "roles", "grants"} => ~session[b].local /\ type[b] \in Types
    BY DEF Judges
  <2> QED BY <1>0, <1>1, <2>1, <2>2, <2>3, <2>4 DEF Judges
<1> QED BY <1>2, <1>3

-----------------------------------------------------------------------------
\* What was decided stands, and a step of the gate decides as it has judged.
Decided(b) == crossings[b] < 2 =>
  /\ ~InGate(b) /\ pc[b] # "new" /\ answer[b] \in {"none", "ok"} => allowed[b]
  /\ answer[b] = "forbidden" => denied[b]

LEMMA DecidedStays ==
  ASSUME HistoryOK, RequestsOK, NEW b \in Admins, TracksRights, Decided(b), Found(b),
         pc'[b] = pc[b], answer'[b] = answer[b]
  PROVE  Decided(b)'
<1>1. /\ allowed[b] => allowed'[b]
      /\ denied[b] => denied'[b]
      /\ InGate(b)' <=> InGate(b)
      /\ ~InGate(b) => crossings'[b] = crossings[b]
  BY Tracked DEF InGate
<1>2. InGate(b) => answer[b] = "none"
  BY DEF InGate, Found
<1> QED BY <1>1, <1>2 DEF Decided

LEMMA DecidedByService ==
  ASSUME HistoryOK, RequestsOK, NEW a \in Admins, TracksRights, Decided(a), Found(a), Serve(a)
  PROVE  Decided(a)'
<1>1. /\ allowed[a] => allowed'[a]
      /\ denied[a] => denied'[a]
      /\ ~InGate(a) => crossings'[a] = crossings[a]
  BY Tracked
<1>2. /\ ~InGate(a) /\ pc[a] \notin {"new", "done"} /\ answer'[a] \in {answer[a], "ok", "failed"}
      /\ answer[a] = "none"
  BY ServeOutside DEF Found
<1> QED BY <1>1, <1>2 DEF Decided

LEMMA DecidedByGate ==
  ASSUME HistoryOK, RequestsOK, NEW a \in Admins, TracksRights, Judges(a), Found(a), Gate(a),
         edits' = edits
  PROVE  Decided(a)'
<1>1. /\ allowed[a] => allowed'[a]
      /\ denied[a] => denied'[a]
      /\ crossings'[a] = crossings[a]
  BY Tracked
<1>2. answer[a] = "none"
  BY DEF Found, Gate, Arrives, ReadsType, ReadsMappings, ReadsRoles, ReadsGrants
<1>3. ASSUME Answers(a, "failed") PROVE Decided(a)'
  BY <1>3, AnswersTyped DEF Decided
<1>4. ASSUME NEW next \in {"type", "mappings", "roles", "grants"}, Moves(a, next) PROVE Decided(a)'
  <2>1. InGate(a)' /\ answer'[a] = "none"
    BY <1>2, <1>4, MovesTyped DEF InGate, Points
  <2> QED BY <2>1 DEF Decided
<1>5. CASE Arrives(a)
  BY <1>3, <1>4, <1>5 DEF Arrives
<1>6. CASE ReadsType(a)
  <2>1. CASE system[of[a]] \notin Absent /\ session[a].local /\ Moves(a, "work")
    <3>1. InGate(a) /\ MayNow(a)
      BY <1>6, <2>1 DEF ReadsType, InGate, MayNow, Permitted
    <3>2. allowed'[a]
      BY <1>1, <3>1 DEF Judges, Decides
    <3>3. answer'[a] = "none"
      BY <1>2, <2>1, MovesTyped DEF Points
    <3> QED BY <3>2, <3>3 DEF Decided
  <2> QED BY <1>3, <1>4, <1>6, <2>1 DEF ReadsType
<1>7. CASE ReadsMappings(a)
  BY <1>4, <1>7 DEF ReadsMappings
<1>8. CASE ReadsRoles(a)
  BY <1>3, <1>4, <1>8 DEF ReadsRoles
<1>9. CASE ReadsGrants(a)
  <2> DEFINE may == Grants(granted[a], type[a], Access(request[a]))
  <2>1. pc[a] = "grants" /\ IF may THEN Moves(a, "work") ELSE Answers(a, "forbidden")
    BY <1>9 DEF ReadsGrants
  <2>2. crossings[a] < 2 => Decides(a, may)
    BY <2>1 DEF Judges
  <2> HIDE DEF may
  <2>3. CASE may
    BY <1>1, <1>2, <2>1, <2>2, <2>3, MovesTyped DEF Decided, Decides, Points
  <2>4. CASE ~may
    BY <1>1, <2>1, <2>2, <2>4, AnswersTyped DEF Decided, Decides
  <2> QED BY <2>3, <2>4
<1> QED BY <1>5, <1>6, <1>7, <1>8, <1>9 DEF Gate

-----------------------------------------------------------------------------
(***************************************************************************)
(* The run over the hosts                                                  *)
(***************************************************************************)
\* What the history says of the hosts, whatever is done.
LEMMA HostsTracked ==
  ASSUME TracksHosts
  PROVE  /\ stage' \in Early => due' \subseteq (Named \cap On)'
         /\ stage' \in Early /\ stage' # "system" => due' \subseteq due
         /\ stage' \in Early /\ stage' = stage => due' \subseteq due
         /\ stage' \notin Early => due' = due
         /\ offered \subseteq offered'
         /\ stage' \in Early => Named' \X {"member"} \subseteq offered' /\ On' \X {"enabled"} \subseteq offered'
<1>1. /\ stage' \in Early => offered' = offered \cup Named' \X {"member"} \cup On' \X {"enabled"}
      /\ stage' \notin Early => offered' = offered
  BY DEF TracksHosts, Early
<1>2. due' = IF stage' = "system" /\ stage # "system" THEN (Named \cap On)'
             ELSE IF stage' \in Early THEN due \cap (Named \cap On)' ELSE due
  BY DEF TracksHosts, Early
<1> QED BY <1>1, <1>2 DEF Early

LEMMA RunsStays ==
  ASSUME Runs, Touched, TracksHosts,
         UNCHANGED <<event, stage, list, current, failed, outcome, accounts, has, cut>>
  PROVE  Runs' /\ Touched'
<1>1. Runs'
  <2>1. stage \in Early => due' \subseteq (Named \cap On)'
    BY HostsTracked
  <2>2. due' \subseteq due
    BY HostsTracked
  <2> QED BY <2>1, <2>2 DEF Runs
<1>2. Touched'
  BY HostsTracked DEF Touched
<1> QED BY <1>1, <1>2

LEMMA RunsByStart ==
  ASSUME Runs, Touched, TracksHosts, Start
  PROVE  Runs' /\ Touched'
<1>1. /\ stage' = "system" /\ outcome' = "none" /\ event # None /\ event' = event /\ has' = has /\ accounts' = accounts
  BY DEF Start, FleetStays
<1>2. Runs'
  <2>1. due' \subseteq (Named \cap On)'
    BY <1>1, HostsTracked DEF Early
  <2> QED BY <1>1, <2>1 DEF Runs, Late
<1>3. Touched'
  BY <1>1, HostsTracked DEF Touched, Early, Late
<1> QED BY <1>2, <1>3

\* execute catches what is thrown, and the event fails.
LEMMA RunsByRefusal ==
  ASSUME Runs, Touched, TracksHosts, Refuses, UNCHANGED <<event, accounts, has>>
  PROVE  Runs' /\ Touched'
<1>1. stage' = "done" /\ outcome' = "refused"
  BY DEF Refuses
<1>2. Runs'
  BY <1>1 DEF Runs, Early, Late
<1>3. Touched'
  BY <1>1, HostsTracked DEF Touched, Early, Late
<1> QED BY <1>2, <1>3

LEMMA RunsByReading ==
  ASSUME WorkerOK, Runs, Touched, TracksHosts,
         ReadsSystem \/ ReadsGroups \/ ReadsMembers \/ ReadsHosts \/ ReadsProfiles
  PROVE  Runs' /\ Touched'
<1>0. FleetStays /\ UNCHANGED <<accounts, has, current, failed>> /\ (Refuses \/ outcome' = outcome)
  BY DEF ReadsSystem, ReadsGroups, ReadsMembers, ReadsHosts, ReadsProfiles, Reading
<1>a. event' = event /\ On' = On /\ Calls' = Calls /\ \A gs : HostsIn(gs)' = HostsIn(gs)
  BY <1>0 DEF FleetStays, inventory, Calls, Called, HostsIn, On
<1>1. CASE Refuses
  BY <1>0, <1>1, <1>a, RunsByRefusal
<1>2. CASE (ReadsSystem \/ ReadsGroups) /\ ~Refuses
  <2>1. /\ stage \in {"system", "groups"} /\ stage' \in {"groups", "members"} /\ outcome' = outcome
    BY <1>0, <1>2 DEF ReadsSystem, ReadsGroups, Reading
  <2>2. Runs'
    BY <1>0, <1>a, <2>1, HostsTracked DEF Runs, Early, Late
  <2>3. Touched'
    BY <1>0, <2>1, HostsTracked DEF Touched, Early, Late
  <2> QED BY <2>2, <2>3
<1>3. CASE ReadsMembers /\ ~Refuses
  <2>1. /\ stage = "members" /\ stage' = "hosts" /\ outcome' = outcome
        /\ list' = UNION {HostsOf(g) : g \in found} /\ found' = found
    BY <1>3 DEF ReadsMembers, Reading
  <2>2. event # None
    BY <2>1 DEF Runs
  <2>3. list' = Named
    <3>1. \A h : h \in list' <=> \E g \in found : h \in HostsOf(g)
      BY <2>1
    <3>2. \A h : h \in Named <=> \E g \in found : h \in HostsOf(g)
      BY <2>1, <2>2 DEF Named, HostsIn, HostsOf
    <3> QED BY <3>1, <3>2
  <2>n. Named' = Named
    BY <1>a, <2>1, <2>2 DEF Named
  <2>4. due' \subseteq Named' \cap On'
    BY <2>1, HostsTracked DEF Early
  <2>5. Runs'
    BY <1>0, <1>a, <2>n, <2>1, <2>2, <2>3, <2>4 DEF Runs, Early, Late
  <2>6. Touched'
    BY <1>0, <1>a, <2>n, <2>1, <2>3, HostsTracked DEF Touched, Early, Late
  <2> QED BY <2>5, <2>6
<1>4. CASE ReadsHosts /\ ~Refuses
  <2>1. /\ stage = "hosts" /\ stage' = "profiles" /\ outcome' = outcome
        /\ list' = {h \in list : host[h] \notin Absent /\ host[h].enabled}
    BY <1>4 DEF ReadsHosts, Reading
  <2>2. due' = due /\ offered \subseteq offered'
    BY <2>1, HostsTracked DEF Early
  <2>3. due \subseteq list'
    BY <2>1 DEF Runs, Early, On
  <2>4. Runs'
    BY <1>0, <1>a, <2>1, <2>2, <2>3 DEF Runs, Early, Late
  <2>5. list' \X {"member", "enabled"} \subseteq offered
    <3>1. \A h \in list' : h \in list
      BY <2>1
    <3>2. \A h \in list' : <<h, "member">> \in offered
      BY <2>1, <3>1 DEF Touched
    <3>3. \A h \in list' : <<h, "enabled">> \in offered
      BY <2>1, <3>1 DEF Touched, On, Early, WorkerOK
    <3> QED BY <3>2, <3>3
  <2>6. Touched'
    BY <1>0, <2>1, <2>2, <2>5 DEF Touched, Early, Late
  <2> QED BY <2>4, <2>6
<1>5. CASE ReadsProfiles /\ ~Refuses
  <2>1. /\ stage = "profiles" /\ stage' = "next" /\ outcome' = outcome /\ list' = list
    BY <1>5 DEF ReadsProfiles, Reading
  <2>2. due' = due /\ offered \subseteq offered'
    BY <2>1, HostsTracked DEF Early
  <2>3. Runs'
    BY <1>0, <1>a, <2>1, <2>2 DEF Runs, Early, Late
  <2>4. Touched'
    BY <1>0, <2>1, <2>2 DEF Touched, Early, Late
  <2> QED BY <2>3, <2>4
<1> QED BY <1>1, <1>2, <1>3, <1>4, <1>5

\* What the first command leaves done is as the event asks.
LEMMA FirstDone ==
  ASSUME WorkerOK, event # None, current \in Hosts, CommandStands, FirstTakes,
         \A h \in Hosts : has[h] = "done" => (h \in accounts <=> event.op # "delete")
  PROVE  \A h \in Hosts : has'[h] = "done" => (h \in accounts' <=> event.op # "delete")
<1>1. event.op \in {"create", "change", "delete"}
  BY DEF WorkerOK, FleetEvents
<1>2. has \in [Hosts -> {"absent", "half", "done"}]
  BY DEF WorkerOK
<1>3. CASE event.op = "create"
  BY <1>2, <1>3 DEF FirstTakes
<1>4. CASE event.op = "delete"
  BY <1>2, <1>4 DEF FirstTakes, CommandStands
<1>5. CASE event.op = "change"
  BY <1>2, <1>5 DEF FirstTakes, CommandStands
<1> QED BY <1>1, <1>3, <1>4, <1>5

\* One host after the other: a host leaves the list when it is the current one, and then
\* it is done, its command is cut off, or the run has failed.
LEMMA RunsByService ==
  ASSUME WorkerOK, due \subseteq Hosts, Runs, Touched, TracksHosts,
         Configures \/ RunsFirst \/ RunsSecond \/ Ends \/ SecretFails
  PROVE  Runs' /\ Touched'
<1>0. stage' \notin Early /\ stage' # "profiles" /\ event' = event /\ cut' = cut
  BY DEF Configures, RunsFirst, RunsSecond, Ends, SecretFails, Running, FleetStays, Refuses, Early,
         AfterFirst, Fails
<1>1. due' = due /\ offered \subseteq offered'
  BY <1>0, HostsTracked
<1>2. event # None /\ outcome = "none"
  BY DEF Runs, Configures, RunsFirst, RunsSecond, Ends, SecretFails
<1>3. CASE Refuses
  <2>1. has' = has /\ accounts' = accounts
    BY <1>2, <1>3 DEF Configures, RunsFirst, RunsSecond, Ends, SecretFails, Refuses
  <2> QED BY <1>0, <1>3, <2>1, RunsByRefusal
<1>4. CASE Configures /\ ~Refuses
  <2>1. PICK h \in list : /\ current' = h /\ list' = list \ {h}
                          /\ IF h \in usable THEN stage' = "first" /\ UNCHANGED outcome ELSE Refuses
    BY <1>4 DEF Configures
  <2>2. /\ stage = "next" /\ failed' = failed /\ has' = has /\ accounts' = accounts /\ stage' = "first" /\ outcome' = outcome
    BY <1>4, <2>1 DEF Configures
  <2>3. Runs'
    BY <1>0, <1>1, <1>2, <2>1, <2>2 DEF Runs, Early, Late, WorkerOK
  <2>4. Touched'
    BY <1>0, <1>1, <2>1, <2>2 DEF Touched, Early, Late
  <2> QED BY <2>3, <2>4
<1>d. \A h \in Hosts : has[h] = "done" => (h \in accounts <=> event.op # "delete")
  BY DEF Runs
<1>5. CASE RunsFirst
  <2>1. /\ stage = "first" /\ list' = list /\ current' = current /\ outcome' = outcome
        /\ \/ CommandStands /\ FirstTakes /\ stage' = AfterFirst /\ failed' = failed
           \/ failed' /\ stage' = "next" /\ UNCHANGED <<accounts, has>>
    BY <1>5 DEF RunsFirst, Fails
  <2>2. current \in Hosts /\ has \in [Hosts -> {"absent", "half", "done"}]
    BY <2>1 DEF Runs, WorkerOK
  <2>3. ~failed => \A h \in due \ cut : h \in list \/ has[h] = "done" \/ h = current
    BY <2>1 DEF Runs, Late
  <2>5. /\ stage' \in {"next", "second"} /\ (stage' = "second" => event.op = "create")
        /\ \A h \in Hosts \ {current} : has'[h] = has[h]
        /\ failed' \/ stage' = "second" \/ has'[current] = "done"
    BY <2>1, <2>2 DEF FirstTakes, AfterFirst
  <2>6. ~failed' => ~failed
    BY <2>1
  <2>7. ASSUME ~failed', NEW h \in due \ cut
        PROVE  h \in list \/ has'[h] = "done" \/ (h = current /\ stage' # "next")
    <3>1. h \in Hosts
      BY <2>7
    <3> QED BY <2>2, <2>3, <2>5, <2>6, <2>7, <3>1
  <2>9. \A h \in Hosts : has'[h] = "done" => (h \in accounts' <=> event.op # "delete")
    BY <1>2, <1>d, <2>1, <2>2, FirstDone
  <2>8. Runs'
    BY <1>0, <1>1, <1>2, <2>1, <2>2, <2>5, <2>7, <2>9 DEF Runs, Early, Late
  <2>4. Touched'
    BY <1>0, <1>1, <2>1, <2>2 DEF Touched, Early, Late, FirstTakes, AfterFirst
  <2> QED BY <2>4, <2>8
<1>6. CASE RunsSecond
  <2>1. /\ stage = "second" /\ list' = list /\ current' = current /\ outcome' = outcome
        /\ stage' = "next" /\ accounts' = accounts
        /\ \/ has' = [has EXCEPT ![current] = "done"] /\ failed' = failed /\ current \in accounts
           \/ failed' = TRUE /\ has' = has
    BY <1>6 DEF RunsSecond, SecondTakes, Fails, PasswordStands
  <2>2. /\ current \in Hosts /\ has \in [Hosts -> {"absent", "half", "done"}]
        /\ event.op = "create"
    BY <2>1 DEF Runs, WorkerOK
  <2>5. \A h \in Hosts : has'[h] = "done" => (h \in accounts' <=> event.op # "delete")
    BY <1>d, <2>1, <2>2
  <2>3. Runs'
    BY <1>0, <1>1, <1>2, <2>1, <2>2, <2>5 DEF Runs, Early, Late
  <2>4. Touched'
    BY <1>0, <1>1, <2>1, <2>2 DEF Touched, Early, Late
  <2> QED BY <2>4, <2>3
<1>7. CASE Ends /\ ~Refuses
  <2>1. /\ stage = "next" /\ list = {} /\ ~failed /\ stage' = "done" /\ outcome' = "ok"
        /\ list' = list /\ current' = current /\ has' = has /\ accounts' = accounts
    BY <1>7 DEF Ends
  <2>2. \A h \in due \ cut : has[h] = "done"
    BY <2>1 DEF Runs, Late
  <2>3. Runs'
    BY <1>0, <1>1, <1>2, <2>1, <2>2 DEF Runs, Early, Late
  <2>4. Touched'
    BY <1>0, <1>1, <2>1 DEF Touched, Early, Late
  <2> QED BY <2>3, <2>4
<1> QED BY <1>3, <1>4, <1>5, <1>6, <1>7 DEF SecretFails

\* A command whose connection breaks fails the run, one that never returns holds it up
\* for good, and one that is cut off passes for a success.
LEMMA RunsByFault ==
  ASSUME WorkerOK, due \subseteq Hosts, Runs, Touched, TracksHosts, CommandFaults
  PROVE  Runs' /\ Touched'
<1>0. /\ stage \in {"first", "second"} /\ event' = event /\ list' = list /\ current' = current
      /\ outcome' = outcome
  BY DEF CommandFaults, Running, FleetStays
<1>1. /\ current \in Hosts /\ has \in [Hosts -> {"absent", "half", "done"}]
      /\ event # None /\ outcome = "none"
      /\ ~failed => \A h \in due \ cut : h \in list \/ has[h] = "done" \/ h = current
  BY <1>0 DEF Runs, WorkerOK, Late
<1>d. \A h \in Hosts : has[h] = "done" => (h \in accounts <=> event.op # "delete")
  BY DEF Runs
<1>2. PICK takes \in BOOLEAN :
        /\ IF takes THEN CommandTakes ELSE UNCHANGED <<accounts, has>>
        /\ \/ failed' = TRUE /\ stage' = "next" /\ UNCHANGED cut
           \/ /\ cut' = IF takes THEN cut ELSE cut \cup {current}
              /\ stage' = (IF stage = "first" THEN AfterFirst ELSE "next") /\ UNCHANGED failed
           \/ stage' = "stuck" /\ UNCHANGED <<failed, cut>>
  BY DEF CommandFaults
<1>3. /\ \A h \in Hosts \ {current} : has'[h] = has[h]
      /\ takes => has'[current] = "done" \/ (stage = "first" /\ event.op = "create")
  BY <1>1, <1>2 DEF CommandTakes, FirstTakes, SecondTakes
<1>4. stage' \in {"next", "second", "stuck"} /\ (stage' = "second" => event.op = "create")
  BY <1>2 DEF AfterFirst
<1>5. due' = due /\ offered \subseteq offered'
  BY <1>4, HostsTracked DEF Early
<1>6. ASSUME stage' \in Late, ~failed', NEW h \in due \ cut'
      PROVE  h \in list \/ has'[h] = "done" \/ (h = current /\ stage' # "next")
  <2>1. /\ ~failed /\ cut' = IF takes THEN cut ELSE cut \cup {current}
        /\ stage' = IF stage = "first" THEN AfterFirst ELSE "next"
    BY <1>2, <1>6 DEF Late
  <2>2. h \in Hosts /\ h \in due \ cut
    BY <1>6, <2>1
  <2>3. CASE h # current
    BY <1>1, <1>3, <2>1, <2>2, <2>3
  <2>4. CASE h = current
    <3>1. takes
      BY <1>6, <2>1, <2>4
    <3> QED BY <1>3, <2>1, <2>4, <3>1 DEF AfterFirst
  <2> QED BY <2>3, <2>4
<1>9. \A h \in Hosts : has'[h] = "done" => (h \in accounts' <=> event.op # "delete")
  <2>1. CASE ~takes
    BY <1>2, <1>d, <2>1
  <2>2. CASE takes /\ stage = "first"
    BY <1>1, <1>2, <1>d, <2>2, FirstDone DEF CommandTakes
  <2>3. CASE takes /\ stage = "second"
    <3>1. has' = [has EXCEPT ![current] = "done"] /\ accounts' = accounts /\ current \in accounts
      BY <1>2, <2>3 DEF CommandTakes, SecondTakes, PasswordStands
    <3>2. event.op = "create"
      BY <2>3 DEF Runs
    <3> QED BY <1>1, <1>d, <3>1, <3>2
  <2> QED BY <1>0, <2>1, <2>2, <2>3
<1>7. Runs'
  BY <1>0, <1>1, <1>4, <1>5, <1>6, <1>9 DEF Runs, Early, Late
<1>8. Touched'
  <2>1. \A h \in Hosts : has'[h] # "absent" => h = current \/ has[h] # "absent"
    BY <1>3
  <2> QED BY <1>0, <1>4, <1>5, <2>1 DEF Touched, Early, Late
<1> QED BY <1>7, <1>8

LEMMA RunsByRun ==
  ASSUME WorkerOK, due \subseteq Hosts, Runs, Touched, TracksHosts, Start \/ Works \/ SecretFails \/ CommandFaults
  PROVE  Runs' /\ Touched'
  BY RunsByStart, RunsByReading, RunsByService, RunsByFault DEF Works

-----------------------------------------------------------------------------
(***************************************************************************)
(* The invariant holds in every behaviour                                  *)
(***************************************************************************)
Tables  == /\ SameTarget /\ Referred /\ AskedKnown /\ AsOneAsked /\ Mapped
Askers  == \A b \in Admins : Found(b) /\ Clears(b) /\ Judges(b) /\ Decided(b)
IInv    == TypeOK /\ Tables /\ Askers /\ Runs /\ Touched

LEMMA Implies ==
  IInv => TypeOK /\ SameTarget /\ AsOneAsked /\ DecisionHolds /\ FleetOkMeansAll
  BY DEF IInv, Tables, Askers, Decided, DecisionHolds, Runs, Touched, FleetOkMeansAll, TypeOK

LEMMA InitHolds ==
  Init => IInv
<1> SUFFICES ASSUME Init PROVE IInv
  OBVIOUS
<1>1. PICK c \in Scenarios :
        /\ role = c.role /\ mapping = c.mapping /\ system = c.system
        /\ profile = c.profile /\ host = c.host /\ group = c.group /\ members = c.members
        /\ session = c.session /\ request = c.request /\ event = c.event /\ edits = c.edits
        /\ accounts = c.accounts
        /\ asked = [g \in ServerGroups |-> {h \in Hosts : <<g, h>> \in c.members}]
  BY DEF Init
<1>2. /\ role \in [Roles -> RoleRows \cup Absent]
      /\ mapping \in [IdpGroups \X Roles -> {"none", "off", "on"}]
      /\ Mapped /\ SystemOK
  BY <1>1, ScenarioAssumption DEF Mapped, SystemOK
<1>3. InventoryOK
  BY <1>1, ScenarioAssumption DEF InventoryOK
<1>4. SameTarget
  BY <1>1, ScenarioAssumption DEF SameTarget
<1>5. /\ session \in [Admins -> Sessions] /\ request \in [Admins -> Requests]
      /\ event \in FleetEvents \cup {None} /\ edits \in Nat
      /\ accounts \subseteq Hosts
  BY <1>1, ScenarioAssumption
<1>6. RequestsOK
  BY <1>5 DEF Init, RequestsOK, Points
<1>7. WorkerOK
  <2>1. faults \in 0 .. MaxFaults
    BY FleetRunAssumption DEF Init
  <2>2. chosen \in [Hosts -> Profiles \cup {None}] /\ has \in [Hosts -> {"absent", "half", "done"}]
    BY DEF Init
  <2>3. /\ stage \in Stages /\ found = {} /\ list = {} /\ usable = {} /\ current = None /\ failed \in BOOLEAN
        /\ outcome = "none" /\ cut = {}
    BY DEF Init, Stages
  <2> QED BY <1>5, <2>1, <2>2, <2>3 DEF WorkerOK
<1>8. \A g \in ServerGroups : asked[g] = {h \in Hosts : <<g, h>> \in members}
  BY <1>1
<1>9. HistoryOK
  <2>1. asked \in [ServerGroups -> SUBSET Hosts]
    BY <1>1
  <2> QED BY <2>1 DEF Init, HistoryOK
<1>10. TypeOK
  BY <1>2, <1>3, <1>5, <1>6, <1>7, <1>9, TypeParts DEF RbacTypeOK
<1>11. AskedKnown
  <2>1. \A g \in ServerGroups, h \in Hosts :
          <<g, h>> \in members => group[g] # None /\ host[h] # None
    BY <1>4 DEF SameTarget, Absent
  <2> QED BY <1>8, <2>1 DEF AskedKnown
<1>12. AsOneAsked
  <2>1. \A m \in members : host[m[2]] \notin Absent
    BY <1>4 DEF SameTarget
  <2> QED BY <1>8, <2>1 DEF AsOneAsked, HostsOf
<1>13. \A b \in Admins : pc[b] = "new" /\ answer[b] = "none" /\ tx[b] = None
  BY DEF Init
<1>14. Referred /\ Askers
  BY <1>13 DEF Referred, Askers, Found, Clears, Judges, Decided, InGate
<1>15. Runs /\ Touched
  <2>1. stage = "idle" /\ outcome = "none" /\ \A h \in Hosts : has[h] = "absent"
    BY DEF Init
  <2> QED BY <2>1 DEF Runs, Touched, Early, Late
<1> QED BY <1>2, <1>4, <1>10, <1>11, <1>12, <1>14, <1>15 DEF IInv, Tables

LEMMA Unfold ==
  IInv => /\ RbacTypeOK /\ SystemOK /\ InventoryOK /\ RequestsOK /\ WorkerOK /\ HistoryOK
          /\ edits \in Nat /\ SameTarget /\ Referred /\ AskedKnown /\ AsOneAsked /\ Mapped
          /\ (\A b \in Admins : Found(b) /\ Clears(b) /\ Judges(b) /\ Decided(b))
          /\ Runs /\ Touched
  BY TypeParts DEF IInv, Tables, Askers

LEMMA Fold ==
  ASSUME RbacTypeOK', SystemOK', InventoryOK', RequestsOK', WorkerOK', HistoryOK', (edits \in Nat)',
         SameTarget', Referred', AskedKnown', AsOneAsked', Mapped',
         \A b \in Admins : Found(b)' /\ Clears(b)' /\ Judges(b)' /\ Decided(b)', Runs', Touched'
  PROVE  IInv'
<1>1. TypeOK'
  BY DEF TypeOK, FleetTypeOK, SystemOK, InventoryOK, RequestsOK, Points, Changes, Memberships,
         WorkerOK, Stages, HistoryOK
<1> QED BY <1>1 DEF IInv, Tables, Askers

LEMMA AimStays ==
  ASSUME NEW a \in Admins, NEW b \in Admins \ {a}, RequestsOK, Gate(a) \/ Serve(a), ~Commits(a)
  PROVE  aim'[b] = aim[b]
<1>1. CASE Gate(a)
  BY <1>1 DEF Gate, Arrives, ReadsType, ReadsMappings, ReadsRoles, ReadsGrants
<1>2. CASE DeleteSees(a)
  BY <1>2 DEF DeleteSees, RequestsOK
<1>3. CASE Serve(a) /\ ~DeleteSees(a)
  BY <1>3
  DEF Serve, RequiresLinux, FindsRow, RequiresProfile, CountsHosts, Writes, WriteFails,
      DeleteClears, Inserts, InsertFails
<1> QED BY <1>1, <1>2, <1>3

\* What every request of an administrator preserves, a commit of setGroupHosts or another.
LEMMA ActsPreserve ==
  ASSUME IInv, NEW a \in Admins, Administers(a)
  PROVE  /\ RbacTypeOK' /\ SystemOK' /\ RequestsOK' /\ WorkerOK' /\ (edits \in Nat)' /\ Mapped'
         /\ OthersStay(a)
         /\ \A b \in Admins : Judges(b)' /\ Decided(b)'
         /\ Runs' /\ Touched'
<1>1. /\ Gate(a) \/ Serve(a)
      /\ UNCHANGED <<event, stage, found, list, chosen, usable, current, failed, outcome, accounts,
                     has, faults, edits, cut>>
      /\ TracksRights /\ TracksSets /\ TracksHosts
  BY DEF Administers, Tracks, worker
<1>2. /\ RbacTypeOK /\ SystemOK /\ InventoryOK /\ RequestsOK /\ WorkerOK /\ HistoryOK
      /\ edits \in Nat /\ Mapped /\ Runs /\ Touched
      /\ \A b \in Admins : Found(b) /\ Judges(b) /\ Decided(b)
  BY Unfold
<1>3. RequestsOK' /\ OthersStay(a)
  BY <1>1, <1>2, GateTyped, ServeTyped
<1>4. UNCHANGED <<role, mapping, system, session, request>>
  BY <1>1, ActsOnRequests
<1>5. RbacTypeOK' /\ SystemOK' /\ Mapped'
  BY <1>2, <1>4 DEF RbacTypeOK, SystemOK, Mapped
<1>6. WorkerOK' /\ (edits \in Nat)'
  BY <1>1, <1>2 DEF WorkerOK
<1>7. Runs' /\ Touched'
  BY <1>1, <1>2, RunsStays
<1>8. ASSUME NEW b \in Admins PROVE Judges(b)' /\ Decided(b)'
  <2>1. CASE b # a
    <3>1. /\ pc'[b] = pc[b] /\ of'[b] = of[b] /\ type'[b] = type[b] /\ granted'[b] = granted[b]
          /\ answer'[b] = answer[b]
      BY <1>3, <2>1 DEF OthersStay
    <3>2. Judges(b)'
      BY <1>1, <1>2, <1>4, <3>1, JudgesStays
    <3>3. Decided(b)'
      BY <1>1, <1>2, <3>1, DecidedStays
    <3> QED BY <3>2, <3>3
  <2>2. CASE Gate(a) /\ b = a
    BY <1>1, <1>2, <2>2, JudgesByGate, DecidedByGate
  <2>3. CASE Serve(a) /\ b = a
    BY <1>1, <1>2, <2>3, ServeOutside, OutOfGate, DecidedByService
  <2> QED BY <1>1, <2>1, <2>2, <2>3
<1> QED BY <1>3, <1>5, <1>6, <1>7, <1>8

LEMMA NextAct ==
  ASSUME IInv, NEW a \in Admins, Administers(a), ~Commits(a)
  PROVE  IInv'
<1>1. /\ Gate(a) \/ Serve(a)
      /\ event' = event /\ Tracks /\ TracksSets
  BY DEF Administers, Tracks, worker
<1>2. /\ InventoryOK /\ RequestsOK /\ SystemOK /\ WorkerOK /\ HistoryOK
      /\ SameTarget /\ Referred /\ AskedKnown /\ AsOneAsked
      /\ \A b \in Admins : Found(b) /\ Clears(b)
  BY Unfold
<1>3. /\ RbacTypeOK' /\ SystemOK' /\ RequestsOK' /\ WorkerOK' /\ (edits \in Nat)' /\ Mapped'
      /\ OthersStay(a) /\ Runs' /\ Touched' /\ \A b \in Admins : Judges(b)' /\ Decided(b)'
  BY ActsPreserve
<1>4. Keeps
  BY <1>1, <1>2, ActsKeep
<1>5. InventoryOK' /\ AgesAll
  BY <1>4, KeepsAges DEF Keeps
<1>6. HistoryOK'
  BY <1>1, <1>2, <1>5, TracksTyped
<1>7. SameTarget'
  BY <1>2, <1>4, SameTargetKept
<1>8. request' = request
  BY <1>1, ActsOnRequests
<1>9. SetsStay
  <2>1. \A g \in ServerGroups : Committing(g) = {}
    BY <1>1, <1>2, <1>3, NoneCommits
  <2> QED BY <1>1, <2>1, SetsStayUnlessCommit
<1>10. AskedKnown' /\ AsOneAsked'
  BY <1>2, <1>4, <1>9, AskedKept
<1>11. ASSUME NEW b \in Admins PROVE Found(b)' /\ Clears(b)'
  <2>1. CASE b = a
    BY <1>1, <1>2, <1>9, <2>1, FoundByGate, FoundByService, ClearsByOwn
  <2>2. CASE b # a
    <3>1. /\ pc'[b] = pc[b] /\ of'[b] = of[b] /\ tx'[b] = tx[b] /\ answer'[b] = answer[b]
      BY <1>3, <2>2 DEF OthersStay
    <3>2. Found(b)'
      BY <1>2, <1>5, <1>8, <3>1, FoundStays
    <3>3. aim'[b] = aim[b] /\ members' \subseteq members
      BY <1>1, <1>2, <1>4, <2>2, AimStays DEF Keeps
    <3>4. Clears(b)'
      BY <1>2, <1>8, <1>9, <3>1, <3>3, ClearsStays DEF SetsStay
    <3> QED BY <3>2, <3>4
  <2> QED BY <2>1, <2>2
<1>12. Referred'
  <2> SUFFICES ASSUME NEW b \in Admins, pc'[b] = "commit", NEW m \in NewRows(b)'
               PROVE  group'[m[1]] \notin Absent /\ host'[m[2]] \notin Absent
    BY DEF Referred
  <2>1. CASE b = a
    BY <1>1, <1>2, <2>1, ReferredByOwn
  <2>2. CASE b # a
    <3>1. pc[b] = "commit"
      BY <1>3, <2>2 DEF OthersStay
    <3> QED BY <1>2, <1>4, <1>8, <3>1, ReferredStays
  <2> QED BY <2>1, <2>2
<1> QED BY <1>3, <1>5, <1>6, <1>7, <1>10, <1>11, <1>12, Fold

LEMMA NextCommit ==
  ASSUME IInv, NEW a \in Admins, Administers(a), Commits(a)
  PROVE  IInv'
<1>1. /\ Serve(a) /\ event' = event /\ Tracks /\ TracksSets
  BY DEF Administers, Tracks, worker, Serve
<1>2. /\ InventoryOK /\ RequestsOK /\ SystemOK /\ WorkerOK /\ HistoryOK
      /\ SameTarget /\ Referred /\ AskedKnown /\ AsOneAsked
      /\ \A b \in Admins : Found(b) /\ Clears(b)
  BY Unfold
<1>3. /\ RbacTypeOK' /\ SystemOK' /\ RequestsOK' /\ WorkerOK' /\ (edits \in Nat)' /\ Mapped'
      /\ OthersStay(a) /\ Runs' /\ Touched' /\ \A b \in Admins : Judges(b)' /\ Decided(b)'
  BY ActsPreserve
<1>4. AgesAll /\ UNCHANGED <<group, host>> /\ request' = request /\ pc'[a] = "done"
  BY <1>2, CommitAges, AnswersTyped DEF Commits
<1>5. InventoryOK' /\ SameTarget'
  BY <1>2, CommitRows
<1>6. HistoryOK'
  BY <1>1, <1>2, <1>5, TracksTyped
<1>7. AskedKnown' /\ AsOneAsked'
  BY <1>1, <1>2, <1>3, AskedAtCommit
<1>8. ASSUME NEW b \in Admins PROVE Found(b)' /\ Clears(b)'
  <2>1. CASE b = a
    <3>1. Found(a)'
      BY <1>1, <1>2, FoundByService
    <3>2. Clears(a)'
      BY <1>4 DEF Clears
    <3> QED BY <2>1, <3>1, <3>2
  <2>2. CASE b # a
    <3>1. /\ pc'[b] = pc[b] /\ of'[b] = of[b] /\ tx'[b] = tx[b] /\ answer'[b] = answer[b]
      BY <1>3, <2>2 DEF OthersStay
    <3>2. Found(b)'
      BY <1>2, <1>4, <3>1, FoundStays
    <3>3. Clears(b)'
      BY <1>1, <1>2, <1>3, <2>2, ClearsAtCommit
    <3> QED BY <3>2, <3>3
  <2> QED BY <2>1, <2>2
<1>9. Referred'
  <2> SUFFICES ASSUME NEW b \in Admins, pc'[b] = "commit", NEW m \in NewRows(b)'
               PROVE  group'[m[1]] \notin Absent /\ host'[m[2]] \notin Absent
    BY DEF Referred
  <2>1. pc[b] = "commit"
    BY <1>3, <1>4 DEF OthersStay
  <2> QED BY <1>2, <1>4, <2>1, ReferredStays
<1> QED BY <1>3, <1>5, <1>6, <1>7, <1>8, <1>9, Fold

\* The steps of others than the administrators.
LEMMA ElsewherePreserves ==
  ASSUME IInv, requests' = requests, Keeps, SetsStay
  PROVE  /\ RequestsOK' /\ InventoryOK' /\ SameTarget' /\ Referred' /\ AskedKnown' /\ AsOneAsked'
         /\ \A b \in Admins : Found(b)' /\ Clears(b)'
<1>1. /\ UNCHANGED <<session, request, pc, of, type, granted, aim, tx, answer>>
  BY DEF requests
<1>2. /\ InventoryOK /\ RequestsOK /\ HistoryOK /\ SameTarget /\ Referred /\ AskedKnown
      /\ AsOneAsked /\ \A b \in Admins : Found(b) /\ Clears(b)
  BY Unfold
<1>3. RequestsOK'
  BY <1>1, <1>2 DEF RequestsOK
<1>4. InventoryOK' /\ AgesAll /\ members' \subseteq members
  BY KeepsAges DEF Keeps
<1>5. SameTarget'
  BY <1>2, SameTargetKept
<1>6. AskedKnown' /\ AsOneAsked'
  BY <1>2, AskedKept
<1>7. Referred'
  <2> SUFFICES ASSUME NEW b \in Admins, pc[b] = "commit", NEW m \in NewRows(b)'
               PROVE  group'[m[1]] \notin Absent /\ host'[m[2]] \notin Absent
    BY <1>1 DEF Referred
  <2> QED BY <1>1, <1>2, ReferredStays
<1>8. ASSUME NEW b \in Admins PROVE Found(b)' /\ Clears(b)'
  <2>1. Found(b)'
    BY <1>1, <1>2, <1>4, FoundStays
  <2>2. Clears(b)'
    BY <1>1, <1>2, <1>4, ClearsStays DEF SetsStay
  <2> QED BY <2>1, <2>2
<1> QED BY <1>3, <1>4, <1>5, <1>6, <1>7, <1>8

LEMMA NextEdit ==
  ASSUME IInv, Edits, Tracks
  PROVE  IInv'
<1>1. /\ edits' # edits /\ edits' \in Nat /\ requests' = requests
      /\ UNCHANGED <<event, stage, found, list, chosen, usable, current, failed, outcome, accounts,
                     has, faults, cut>>
      /\ \/ EditsRights /\ UNCHANGED <<system, inventory>>
         \/ UNCHANGED <<role, mapping>> /\ EditsSystem
  BY EditStep, Unfold
<1>2. /\ RbacTypeOK /\ SystemOK /\ InventoryOK /\ RequestsOK /\ WorkerOK /\ HistoryOK
      /\ edits \in Nat /\ SameTarget /\ Mapped /\ Runs /\ Touched
      /\ \A b \in Admins : Found(b) /\ Judges(b) /\ Decided(b)
  BY Unfold
<1>3. UNCHANGED <<session, request, pc, of, type, granted, aim, tx, answer>>
  BY <1>1 DEF requests
<1>4. TracksRights /\ TracksSets /\ TracksHosts
  BY DEF Tracks
<1>5. SetsStay
  <2>1. \A g \in ServerGroups : Committing(g) = {}
    BY <1>2, <1>3, NoneCommits
  <2> QED BY <1>4, <2>1, SetsStayUnlessCommit
<1>6. Keeps
  <2>1. CASE UNCHANGED inventory
    BY <1>2, <2>1, UnchangedKeeps
  <2>2. ASSUME NEW s \in Systems, DropSystem(s) PROVE Keeps
    BY <1>2, <2>2, DropSystemKeeps
  <2> QED BY <1>1, <2>1, <2>2 DEF EditsSystem, SetType, inventory
<1>7. /\ RequestsOK' /\ InventoryOK' /\ SameTarget' /\ Referred' /\ AskedKnown' /\ AsOneAsked'
      /\ \A b \in Admins : Found(b)' /\ Clears(b)'
  BY <1>1, <1>5, <1>6, ElsewherePreserves
<1>8. RbacTypeOK' /\ Mapped'
  <2>1. CASE EditsRights
    BY <1>2, <2>1, EditsRightsTyped
  <2>2. CASE UNCHANGED <<role, mapping>>
    BY <1>2, <2>2 DEF RbacTypeOK, Mapped
  <2> QED BY <1>1, <2>1, <2>2
<1>9. SystemOK'
  BY <1>1, <1>2 DEF SystemOK, EditsSystem, SetType, DropSystem, Absent
<1>10. WorkerOK' /\ (edits \in Nat)'
  BY <1>1, <1>2 DEF WorkerOK
<1>11. HistoryOK'
  BY <1>1, <1>2, <1>7, TracksTyped
<1>12. \A b \in Admins : Judges(b)' /\ Decided(b)'
  BY <1>2, <1>3, <1>4, JudgesByEdit, DecidedStays
<1>13. Runs' /\ Touched'
  BY <1>1, <1>2, <1>4, RunsStays
<1> QED BY <1>7, <1>8, <1>9, <1>10, <1>11, <1>12, <1>13, Fold

LEMMA NextRun ==
  ASSUME IInv, Start \/ Works \/ SecretFails \/ CommandFaults, Tracks
  PROVE  IInv'
<1>1. UNCHANGED <<role, mapping, system, inventory, requests, edits, event>>
  BY RunStep DEF FleetStays
<1>2. /\ RbacTypeOK /\ SystemOK /\ InventoryOK /\ RequestsOK /\ WorkerOK /\ HistoryOK
      /\ edits \in Nat /\ SameTarget /\ Mapped /\ Runs /\ Touched
      /\ \A b \in Admins : Found(b) /\ Judges(b) /\ Decided(b)
  BY Unfold
<1>3. UNCHANGED <<session, request, pc, of, type, granted, aim, tx, answer>>
  BY <1>1 DEF requests
<1>4. TracksRights /\ TracksSets /\ TracksHosts
  BY DEF Tracks
<1>5. SetsStay
  <2>1. \A g \in ServerGroups : Committing(g) = {}
    BY <1>2, <1>3, NoneCommits
  <2> QED BY <1>4, <2>1, SetsStayUnlessCommit
<1>6. Keeps
  BY <1>1, <1>2, UnchangedKeeps
<1>7. /\ RequestsOK' /\ InventoryOK' /\ SameTarget' /\ Referred' /\ AskedKnown' /\ AsOneAsked'
      /\ \A b \in Admins : Found(b)' /\ Clears(b)'
  BY <1>1, <1>5, <1>6, ElsewherePreserves
<1>8. RbacTypeOK' /\ Mapped' /\ SystemOK' /\ (edits \in Nat)'
  BY <1>1, <1>2 DEF RbacTypeOK, Mapped, SystemOK
<1>9. WorkerOK'
  BY <1>2, RunTyped
<1>10. HistoryOK'
  BY <1>1, <1>2, <1>4, <1>7, TracksTyped DEF Tracks
<1>11. \A b \in Admins : Judges(b)' /\ Decided(b)'
  BY <1>1, <1>2, <1>3, <1>4, JudgesStays, DecidedStays
<1>12. Runs' /\ Touched'
  BY <1>2, <1>4, RunsByRun DEF HistoryOK
<1> QED BY <1>7, <1>8, <1>9, <1>10, <1>11, <1>12, Fold

LEMMA NextNothing ==
  ASSUME IInv, UNCHANGED vars
  PROVE  IInv'
<1>1. /\ UNCHANGED <<role, mapping, system, inventory, requests, edits>>
      /\ UNCHANGED <<event, stage, found, list, chosen, usable, current, failed, outcome, accounts>>
      /\ UNCHANGED <<has, faults>>
      /\ UNCHANGED <<allowed, denied, crossings, asked, exact, crossed, due, offered, cut>>
      /\ UNCHANGED <<session, request, pc, of, type, granted, aim, tx, answer>>
      /\ UNCHANGED <<profile, host, group, members>>
  BY DEF vars, worker, history, rights, requests, inventory
<1>2. /\ RbacTypeOK /\ SystemOK /\ InventoryOK /\ RequestsOK /\ WorkerOK /\ HistoryOK
      /\ edits \in Nat /\ SameTarget /\ Mapped /\ Runs /\ Touched
      /\ \A b \in Admins : Found(b) /\ Judges(b) /\ Decided(b)
  BY Unfold
<1>3. Keeps /\ SetsStay
  BY <1>1, <1>2, UnchangedKeeps DEF SetsStay
<1>4. /\ RequestsOK' /\ InventoryOK' /\ SameTarget' /\ Referred' /\ AskedKnown' /\ AsOneAsked'
      /\ \A b \in Admins : Found(b)' /\ Clears(b)'
  BY <1>1, <1>3, ElsewherePreserves
<1>5. RbacTypeOK' /\ SystemOK' /\ Mapped' /\ (edits \in Nat)'
  BY <1>1, <1>2 DEF RbacTypeOK, SystemOK, Mapped
<1>6. WorkerOK' /\ HistoryOK'
  BY <1>1, <1>2 DEF WorkerOK, HistoryOK
<1>7. Runs' /\ Touched'
  BY <1>1, <1>2 DEF Runs, Touched, Named, HostsIn, Calls, Called, On
<1>8. ASSUME NEW b \in Admins PROVE Judges(b)' /\ Decided(b)'
  <2>1. Judges(b) /\ Decided(b)
    BY <1>2
  <2>2. /\ InGate(b)' <=> InGate(b)
        /\ MayNow(b)' <=> MayNow(b)
    BY <1>1 DEF InGate, MayNow, Permitted, Access
  <2>3. Decided(b)'
    BY <1>1, <2>1, <2>2 DEF Decided
  <2>4. Judges(b)'
    BY <1>1, <2>1, <2>2 DEF Judges, Decides, MappedRoles, Grants, Permitted, Access
  <2> QED BY <2>3, <2>4
<1> QED BY <1>4, <1>5, <1>6, <1>7, <1>8, Fold

LEMMA NextHolds ==
  IInv /\ [Next]_vars => IInv'
<1> SUFFICES ASSUME IInv, [Next]_vars PROVE IInv'
  OBVIOUS
<1>1. ASSUME NEW a \in Admins, Administers(a) PROVE IInv'
  BY <1>1, NextAct, NextCommit
<1>2. CASE Edits /\ Tracks
  BY <1>2, NextEdit
<1>3. CASE Repeats \/ Progresses \/ Suffers
  BY <1>3, NextRun DEF Repeats, Progresses, Suffers
<1>4. CASE UNCHANGED vars
  BY <1>4, NextNothing
<1> QED BY <1>1, <1>2, <1>3, <1>4 DEF Next

\* The variables stay within their types, whatever administrators, the run over the hosts
\* and the edits of the rights do to each other.
THEOREM TypeCorrect == Spec => []TypeOK
<1>1. IInv => TypeOK
  BY Implies
<1> QED BY <1>1, InitHolds, NextHolds, PTL DEF Spec

\* LinuxFleetService checks in queries of their own that a profile and the hosts of a
\* group belong to its target system; what it writes afterwards still does, for any
\* number of administrators and with target systems deleted in between.
THEOREM StaysInTarget == Spec => []SameTarget
<1>1. IInv => SameTarget
  BY Implies
<1> QED BY <1>1, InitHolds, NextHolds, PTL DEF Spec

\* The deleteMany and createMany of setGroupHosts, under READ COMMITTED and next to
\* others that delete hosts and groups, leave just the hosts that are named, unless
\* another setGroupHosts on the group committed meanwhile.
THEOREM ReplacedAsAsked == Spec => []AsOneAsked
<1>1. IInv => AsOneAsked
  BY Implies
<1> QED BY <1>1, InitHolds, NextHolds, PTL DEF Spec

\* assertCanReadConnector and assertCanWriteConnector read the type, the mappings and the
\* permissions in three queries, and decide as the rights were at one moment of the
\* request, unless two edits fell in between.
THEOREM DecidesAsOnce == Spec => []DecisionHolds
<1>1. IInv => DecisionHolds
  BY Implies
<1> QED BY <1>1, InitHolds, NextHolds, PTL DEF Spec

\* executeFleetUserOperation reports success only when every host that was the run's from
\* its start is as the event asks, but for one where the command was killed before it took
\* effect, which the code takes for a success; and it touches enabled hosts of the groups
\* it names only.
THEOREM SuccessMeansAll == Spec => []FleetOkMeansAll
<1>1. IInv => FleetOkMeansAll
  BY Implies
<1> QED BY <1>1, InitHolds, NextHolds, PTL DEF Spec
=============================================================================

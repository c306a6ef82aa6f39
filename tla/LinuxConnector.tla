---------------------------- MODULE LinuxConnector ----------------------------
(***************************************************************************)
(* LinuxConnectorService for one event: executeRemoteAgent sends one HTTP  *)
(* request; executeSsh runs shell commands, each over a connection of its  *)
(* own that execSshWithInput opens.  (The fleet provider is LinuxFleet.)   *)
(***************************************************************************)
EXTENDS TargetRequests

\* groups(): the default groups, then those of the event.
LinuxGroups(t, e) == t.defaults \o e.rights

\* Variant: the account is locked and does not expire, so a key still logs in.
SshLockOnly(u) == <<Write({Account(u)}, {}, {}, {Active(u)})>>

\* `passwd -l && chage -E 0` and `passwd -u && chage -E -1`, one command each.  A hash
\* that was never set cannot be unlocked.
SshDisable(u) == <<Write({Account(u)}, {}, {}, {Active(u), Valid(u)})>>
SshEnable(u)  == <<Write({Account(u), Password(u)}, {}, {Active(u), Valid(u)}, {})>>

\* What such a command has done when it ends after its first half.
Chained(r) == \E u \in Users : r.add \cup r.del = {Active(u), Valid(u)}
Halved(r)  == LET expiry == {Valid(u) : u \in Users}
              IN [r EXCEPT !.add = @ \ expiry, !.del = @ \ expiry]

\* chpasswd sets the hash, which unlocks the account; it may still be expired.
Chpasswd(u) == <<Write({Account(u)}, {}, {Password(u), Active(u)}, {})>>

\* useradd -G; the password is only read for the second command.
SshCreate(t, e) ==
  LET u == e.user
      refs == LinuxGroups(t, e)
      useradd == Write(Required(refs), {Account(u)},
                       {Account(u), Valid(u), Attrs(u)} \cup Joined(u, refs), {})
  IN IF e.given = "no id" \/ Malformed \in Named(refs) THEN <<Reject>>
     ELSE <<useradd>> \o IF e.given = "no password" THEN <<Reject>> ELSE Chpasswd(u)

\* usermod: -G replaces the list of groups, and is left out when it would be empty.
SshUpdate(t, e) ==
  LET u == e.user
      refs == LinuxGroups(t, e)
  IN IF Malformed \in Named(refs) THEN <<Reject>>
     ELSE <<Write({Account(u)} \cup Required(refs), {}, {Attrs(u)} \cup Joined(u, refs),
                  Replaced(u, refs))>>

SshPlan(t, e) ==
  LET u == e.user
  IN IF e.given = "no id" THEN <<Reject>>
     ELSE CASE e.op = "create" -> SshCreate(t, e)
            [] e.op = "update" -> SshUpdate(t, e)
            [] e.op = "delete" -> IF t.physical THEN <<Write({Account(u)}, {}, {}, UserFacts(u))>>
                                  ELSE SshDisable(u)
            [] e.op = "disable" -> SshDisable(u)
            [] e.op = "enable"  -> SshEnable(u)
            [] e.op = "changePassword" -> IF e.given = "all" THEN Chpasswd(u) ELSE <<Reject>>
            [] e.op = "read" -> <<Read({}, {})>>
            [] OTHER -> <<Reject>>

\* The agent does with a request what the operation says; the connector passes the
\* data on whole, the groups and the flag in it too, and checks the login and the
\* password first.
AgentUser(u, add, del) == Write({Account(u)}, {}, add, del)
AgentRequest(t, e) ==
  LET u == e.user
  IN CASE e.op = "create" ->
            Write(Required(e.rights), {Account(u)},
                  ({Account(u), Active(u), Attrs(u), Password(u)} \ Off(e)) \cup Joined(u, e.rights), Off(e))
       [] e.op = "update" ->
            Write({Account(u)} \cup Required(e.rights), {},
                  {Attrs(u)} \cup On(e) \cup Joined(u, e.rights), Off(e) \cup Replaced(u, e.rights))
       [] e.op = "delete" -> AgentUser(u, {}, IF t.physical THEN UserFacts(u) ELSE {Active(u)})
       [] e.op = "enable"  -> AgentUser(u, {Active(u)}, {})
       [] e.op = "disable" -> AgentUser(u, {}, {Active(u)})
       [] e.op = "changePassword" -> AgentUser(u, {Password(u)}, {})
       [] OTHER -> Read({}, {})

AgentPlan(t, e) ==
  IF \/ e.given = "no id"
     \/ e.op \in {"create", "changePassword"} /\ e.given # "all"
     \/ e.op \notin {"create", "update", "delete", "enable", "disable", "changePassword", "read"}
    THEN <<Reject>> ELSE <<AgentRequest(t, e)>>
=============================================================================

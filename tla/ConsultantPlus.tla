---------------------------- MODULE ConsultantPlus ----------------------------
(***************************************************************************)
(* ConsultantPlusConnectorService: the requests of execute for one event.  *)
(* Every operation logs in anew: the login page, POST /login/, then up to  *)
(* authPollAttempts polls of /auth/ while the answer is "started", and a   *)
(* GET of the return URL when the answer is a redirect.  ConsultantPlus    *)
(* makes the passwords itself.                                             *)
(***************************************************************************)
EXTENDS TargetRequests

CONSTANT PollAttempts   \* authPollAttempts

ASSUME PollAssumption == PollAttempts \in Nat

\* authenticate: POST /login/ answers like a poll.  Without credentials the session
\* is not authenticated, and nothing is sent.
ConsultantLogin(t) ==
  <<Read({}, {})>> \o
    IF t.session THEN [i \in 1 .. PollAttempts + 1 |-> Bare("poll")] \o <<Bare("follow")>>
    ELSE <<Reject>>

LastPoll == PollAttempts + 2    \* its place in a plan

\* validateManagedUserOperation and touchesProtectedOperator: no password from the
\* caller, an id, and not the operator's own account.
ConsultantInvalid(e) ==
  \/ e.user = Operator
  \/ e.given = "no id"
  \/ e.op \in {"create", "changePassword"} /\ e.given = "all"

\* callConfiguredUserEndpoint: the request of the operation's configured path.  An update
\* and a password change send the same body to the same path: the tenant takes the
\* attributes and mails a new password either way.
ConsultantCall(e) ==
  LET u == e.user
  IN CASE e.op = "create" ->
            Write({}, {Account(u)}, {Account(u), Active(u), Attrs(u), Password(u)}, {})
       [] e.op = "delete"  -> Write({Account(u)}, {}, {}, UserFacts(u))
       [] e.op = "disable" -> Write({Account(u)}, {}, {}, {Active(u)})
       [] OTHER -> Write({Account(u)}, {}, {Attrs(u), Password(u)}, {})

ConsultantOps == {"create", "update", "delete", "disable", "changePassword"}

\* system.test and schema.get are the reads; user.enable, the attributes and the
\* groups are unsupported.
ConsultantPlan(t, e) ==
  CASE e.op = "read" -> <<Read({}, {})>>
    [] e.op \in ConsultantOps /\ ~ConsultantInvalid(e) -> ConsultantLogin(t) \o <<ConsultantCall(e)>>
    [] OTHER -> <<Reject>>
=============================================================================

---------------------------- MODULE MCLiveScript ----------------------------
EXTENDS LiveScript

CONSTANTS b1, b2, del, keep, near, oper

MCBulk == <<b1, b2>>

Given == [fio |-> "given", blocked |-> FALSE]
Tenant(there, further, allowed) ==
  [users |-> [l \in Logins |-> IF l \in there THEN Given ELSE Nil],
   further |-> further, allowed |-> allowed]

\* Tenants with room and without, with a bulk user or a cycle's user left from a
\* run of the same slug, also a blocked one, and with the first page just full or
\* not.
MCTenants ==
  {[Tenant({near, oper, keep}, 0, 6) EXCEPT !.users[keep].blocked = TRUE]} \cup
  {Tenant({near, oper}, further, allowed) : further \in 0 .. 1, allowed \in 3 .. 6} \cup
  {Tenant({near, oper, left}, 0, allowed) : left \in {b1, b2, del, keep}, allowed \in {4, 6}}
=============================================================================

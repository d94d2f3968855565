------------------------------- MODULE MCCheckIn -------------------------------
(***************************************************************************)
(* CheckIn with two processes and two users: the same name tried again, or *)
(* two names, one user or both, one of them twice, directly or in a room.  *)
(***************************************************************************)
EXTENDS CheckIn

Alone == {LPort}

Plan(n, m, us, ps) == [name |-> n, mode |-> m, users |-> us, ports |-> ps]
SmallPlans ==
  {Plan("deploy", m, <<"ann", "bob">>, Ports) : m \in Modes}
    \cup {Plan("deploy", "users", <<"ann", "ann">>, Alone),
          Plan("test", "room", <<"ann">>, Ports), Plan("test", "users", <<"ann">>, Alone)}
=============================================================================

--------------------------- MODULE MCDaemonFollow ---------------------------
(***************************************************************************)
(* Three players: the primary p1, and two that the session opens sockets   *)
(* to.  The groupings have p2 as a coordinator with a member of its own,   *)
(* as a member of the primary's group, and unplugged.                      *)
(***************************************************************************)
EXTENDS DaemonFollow

CONSTANTS p1, p2, p3, g1, g2

Alone(p) == [coord |-> p, members |-> {p}]

Apart == (g1 :> Alone(p1)) @@ (g2 :> [coord |-> p2, members |-> {p2, p3}])
Joined == g1 :> [coord |-> p1, members |-> {p1, p2, p3}]
Gone == g1 :> Alone(p1)

ThreePlayers == {p1, p2, p3}
TwoGroups == {g1, g2}
ThreeTopologies == {Apart, Joined, Gone}
=============================================================================

------------------------------ MODULE MCSignIn ------------------------------
(***************************************************************************)
(* The daemon with two callers, one other process, and one person who signs *)
(* in and out; two tokens after the first.                               *)
(***************************************************************************)
EXTENDS SignIn, TLC

CONSTANTS daemon, cli, d1, d2, c1, person

MCProcesses == {daemon, cli}
MCCallers == {d1, d2, c1}
MCProcessOf == d1 :> daemon @@ d2 :> daemon @@ c1 :> cli
MCPeople == {person}
MCSymmetry == Permutations({d1, d2})
=============================================================================

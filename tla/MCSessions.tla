----------------------------- MODULE MCSessions -----------------------------
(***************************************************************************)
(* Two households at three addresses.  The file remembers one of them, or   *)
(* both; the addresses are as remembered, or one household has taken the    *)
(* other's, or sleeps.  The selectors name a room of one, a room both have, *)
(* an id and nothing.                                                       *)
(***************************************************************************)
EXTENDS Sessions, TLC

CONSTANTS A, B, C, H, I, First, Second

MCWrites == {First, Second}
MCSymmetry == Permutations(MCWrites)
MCIps == {A, B, C}
MCHouseholds == {H, I}
MCWorlds == {(A :> H @@ B :> H @@ C :> I), (A :> I @@ B :> I @@ C :> Nobody),
             (A :> I @@ B :> Nobody @@ C :> H)}
MCFiles == {(H :> {A, B} @@ I :> {C}), (H :> {A, B} @@ I :> {})}
Selector(rooms, ids) == [given |-> TRUE, rooms |-> rooms, exact |-> ids, prefix |-> {H, I}]
MCSelectors == {[given |-> FALSE, rooms |-> {}, exact |-> {}, prefix |-> {}],
                Selector({H}, {}), Selector({}, {I})}
=============================================================================

---------------------------- MODULE MCDeckWiring ----------------------------
(***************************************************************************)
(* One room, the kitchen, as the coordinator of one group, of another one, *)
(* and gone from the list with its group.  The session is opened on the    *)
(* hidden half of a stereo pair: a search asks every speaker that answers  *)
(* (deck/src/household.rs:730-740), and the household hides the second one *)
(* of a pair (src/sonos/upnp.rs:407), so no topology lists it as a player. *)
(***************************************************************************)
EXTENDS DeckWiring, TLC

CONSTANTS Hidden, Kitchen, G1, G2

MCGroups == {G1, G2}
MCPlayers == {Hidden, Kitchen}
One == [coord |-> (G1 :> Kitchen), players |-> {Kitchen}]
Other == [coord |-> (G2 :> Kitchen), players |-> {Kitchen}]
Gone == [coord |-> <<>>, players |-> {}]
MCTopologies == {One, Other, Gone}
MCFragile == {Kitchen}
MCRooms == {G1, G2}
MCSpeakers == {Kitchen}
=============================================================================

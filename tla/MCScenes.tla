------------------------------ MODULE MCScenes ------------------------------
(***************************************************************************)
(* Three rooms in every arrangement, each named for itself, of which the   *)
(* topology lists all or, for two commands, all but one.  The scenes: a    *)
(* muted group of two rooms, one with a level, and a group of one; the     *)
(* same with another coordinator and a soundtrack, a room added again      *)
(* under a new id and one the household no longer has; two groups that     *)
(* have come to share a player, by the name of a room that is gone.        *)
(***************************************************************************)
EXTENDS Scenes

CONSTANTS a, b, c, former

MCRooms == {a, b, c}
MCMutedBefore == {{c}}
MCNameOf == [r \in MCRooms |-> r]
Room(id, name) == [id |-> id, name |-> name, level |-> FALSE]
Own(r) == Room(r, r)
Levelled(r) == [Own(r) EXCEPT !.level = TRUE]
Of(rooms, mute, play) == [rooms |-> rooms, muted |-> mute, play |-> play]
MCScenes == {<<Of(<<Levelled(a), Own(b)>>, TRUE, FALSE), Of(<<Own(c)>>, FALSE, FALSE)>>,
             <<Of(<<Room(former, c)>>, FALSE, FALSE),
               Of(<<Room(former, former), Own(b), Own(a)>>, FALSE, TRUE)>>,
             <<Of(<<Own(a), Own(b)>>, FALSE, FALSE), Of(<<Room(former, b), Own(c)>>, FALSE, FALSE)>>}
Typed(name, host, rooms, scene, listed) ==
    [name |-> name, host |-> host, rooms |-> rooms, scene |-> scene, listed |-> listed]
MCCommands ==
    {Typed("group", a, {b}, <<>>, MCRooms), Typed("group", a, {a, b, c}, <<>>, MCRooms),
     Typed("party", b, {}, <<>>, MCRooms), Typed("party", b, {}, <<>>, {a, b}),
     Typed("party off", a, {}, <<>>, MCRooms), Typed("party off", a, {}, <<>>, {a, b}),
     Typed("ungroup", b, {}, <<>>, MCRooms)}
    \cup {Typed("apply", a, {}, scene, MCRooms) : scene \in MCScenes}
=============================================================================

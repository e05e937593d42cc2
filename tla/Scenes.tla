------------------------------- MODULE Scenes -------------------------------
(***************************************************************************)
(* x2rock scene apply (commands/scene.rs): the groups of a scene are built *)
(* one after the other, each by single changes with the groups read again  *)
(* between them; then the rooms' levels are set, then each group's mute    *)
(* and its soundtrack.  The commands of Grouping run in its place when one *)
(* of them is what was typed.                                              *)
(*                                                                         *)
(* Of a level, the one thing that matters here is that it unmutes the room *)
(* when the player sets it, be that after apply has given up waiting.      *)
(***************************************************************************)
EXTENDS Grouping, Sequences, Functions

CONSTANTS
    NameOf,       \* [Rooms -> the name the player goes by]
    MutedBefore   \* sets of rooms that may be muted when the command starts

(* A scene is what `scene save` read of a household, perhaps another than it is
   now: a room of it is [id, name, level], level being whether it has one. *)
ASSUME ScenesAssumption ==
    /\ IsFiniteSet(Rooms)
    /\ MutedBefore \subseteq SUBSET Rooms
    /\ \A cmd \in Commands : cmd.name = "apply" =>
         /\ cmd.scene \in Seq(Range(cmd.scene))
         /\ \A i \in DOMAIN cmd.scene :
              /\ cmd.scene[i].rooms \in Seq(Range(cmd.scene[i].rooms))
              /\ cmd.scene[i].muted \in BOOLEAN /\ cmd.scene[i].play \in BOOLEAN

VARIABLES
    nth,        \* the scene group apply is at
    tries,      \* changes left for it
    unsettled,  \* scene groups noted as not settled
    muted,      \* rooms that are muted
    unlevelled, \* rooms noted as "volume not set"
    unmuted,    \* scene groups noted as "mute not set" or not reached
    stray       \* (ghost) a soundtrack was started in other rooms than its group's

sceneVars == <<nth, tries, unsettled, muted, unlevelled, unmuted, stray>>
vars == <<groupingVars, sceneVars>>

Scene == command.scene

SceneGroups == UNION {Range(cmd.scene) : cmd \in {cmd \in Commands : cmd.name = "apply"}}

(* find_room: the player with the room's id, or else the first of its name. *)
FindRoom(players, room) ==
    LET named == {p \in players : NameOf[p] = room.name}
    IN IF room.id \in players THEN {room.id}
       ELSE IF named = {} THEN {} ELSE {CHOOSE p \in named : TRUE}

WithRoom(players, ids, room) ==
    LET found == FindRoom(players, room) \ Range(ids)
    IN IF found = {} THEN ids ELSE Append(ids, CHOOSE p \in found : TRUE)

(* present: the players a scene group comes to, each once, the coordinator
   first. *)
Present ==
    [players \in {cmd.listed : cmd \in Commands} |->
        [group \in SceneGroups |->
            LET ids[n \in 0..Len(group.rooms)] ==
                  IF n = 0 THEN <<>> ELSE WithRoom(players, ids[n - 1], group.rooms[n])
            IN ids[Len(group.rooms)]]]

Ids(n) == Present[Listed][Scene[n]]

Bound(n) == IF n > Len(Scene) THEN 0 ELSE Len(Ids(n)) + Cardinality(Listed) + 1

Init ==
    /\ GroupingInit
    /\ nth = 1
    /\ tries = IF command.name = "apply" THEN Bound(1) ELSE 0
    /\ unsettled = {}
    /\ muted \in MutedBefore
    /\ unlevelled = {}
    /\ unmuted = {}
    /\ stray = FALSE

NoStep == [of |-> NoAsk.of, add |-> {}, remove |-> {}]

NextStep_AddsOnly(now, ids) ==
    IF ids = <<>> \/ Range(ids) \subseteq Members(now, now[Head(ids)]) THEN NoStep
    ELSE IF ~Coordinates(now, Head(ids))
         THEN [of |-> now[Head(ids)], add |-> {}, remove |-> {Head(ids)}]
    ELSE [of |-> Head(ids), add |-> Range(ids) \ Members(now, Head(ids)), remove |-> {}]

NextStep_DetachesAny(now, ids) ==
    IF ids = <<>> THEN NoStep
    ELSE LET first == Head(ids)
         IN IF Members(now, now[first]) # {first}
            THEN [of |-> now[first], add |-> {}, remove |-> {first}]
            ELSE [of |-> first, add |-> Range(ids) \ {first}, remove |-> {}]

(* next_step: take the wanted coordinator out of the group it is a member of;
   then add who is missing and remove who is not of the scene. *)
NextStep(now, ids) ==
    IF ids = <<>> THEN NoStep
    ELSE LET first == Head(ids)
             group == Members(now, now[first])
         IN IF ~Coordinates(now, first) THEN [of |-> now[first], add |-> {}, remove |-> {first}]
            ELSE IF group = Range(ids) THEN NoStep
            ELSE [of |-> first, add |-> Range(ids) \ group, remove |-> group \ Range(ids)]

(* apply reads the groups, at its start and after every change. *)
ReadsGroups ==
    /\ command.name = "apply"
    /\ at \in {"start", "answered"}
    /\ \/ /\ known' = house
          /\ at' = "planning"
          /\ ask' = NoAsk
       \/ Ends("failed") /\ UNCHANGED known
    /\ UNCHANGED <<house, command, broken, late, disturbed, robbed, sceneVars>>

Changes_Uncounted ==
    /\ at = "planning" /\ nth <= Len(Scene)
    /\ LET step == NextStep(known, Ids(nth))
       IN step # NoStep /\ Asks(step.of, step.add, step.remove)
    /\ UNCHANGED <<house, command, known, broken, late, disturbed, robbed, sceneVars>>

Changes_OneMore ==
    /\ at = "planning" /\ nth <= Len(Scene)
    /\ LET step == NextStep(known, Ids(nth))
       IN step # NoStep /\ Asks(step.of, step.add, step.remove)
    /\ tries' = tries - 1
    /\ UNCHANGED <<house, command, known, broken, late, disturbed, robbed,
                   nth, unsettled, muted, unlevelled, unmuted, stray>>

Changes ==
    /\ at = "planning" /\ nth <= Len(Scene) /\ tries > 0
    /\ LET step == NextStep(known, Ids(nth))
       IN step # NoStep /\ Asks(step.of, step.add, step.remove)
    /\ tries' = tries - 1
    /\ UNCHANGED <<house, command, known, broken, late, disturbed, robbed,
                   nth, unsettled, muted, unlevelled, unmuted, stray>>

(* The group is as the scene has it, or its changes are used up. *)
NextGroup ==
    /\ at = "planning" /\ nth <= Len(Scene)
    /\ LET settled == NextStep(known, Ids(nth)) = NoStep
       IN /\ settled \/ tries = 0
          /\ unsettled' = IF settled THEN unsettled ELSE unsettled \cup {nth}
    /\ nth' = nth + 1
    /\ tries' = Bound(nth + 1)
    /\ UNCHANGED <<groupingVars, muted, unlevelled, unmuted, stray>>

RoomsWithLevel ==
    UNION {FindRoom(Listed, room) :
             room \in {room \in UNION {Range(Scene[i].rooms) : i \in DOMAIN Scene} : room.level}}

(* Every level that was saved, at once; any of them may fail, or have no answer
   in time, and is noted. *)
SetsLevels ==
    /\ at = "planning" /\ nth > Len(Scene)
    /\ unlevelled' \in SUBSET RoomsWithLevel
    /\ muted' = muted \ (RoomsWithLevel \ unlevelled')
    /\ at' = "mutes"
    /\ nth' = 1
    /\ UNCHANGED <<house, command, known, broken, ask, late, disturbed, robbed,
                   tries, unsettled, unmuted, stray>>

(* A level that was noted is set all the same, when apply has gone on. *)
LevelSetLate ==
    /\ at = "mutes"
    /\ \E r \in unlevelled \cap muted : muted' = muted \ {r}
    /\ UNCHANGED <<groupingVars, nth, tries, unsettled, unlevelled, unmuted, stray>>

(* The mute of the group the coordinator is in, as last read, and then the
   soundtrack: each is sent to that group's coordinator, which serves its own
   group and no other.  A mute without an answer is noted, carried out or not. *)
PlaysGroup ==
    /\ at = "mutes" /\ nth <= Len(Scene)
    /\ LET ids == Ids(nth)
           live == known[Head(ids)]
           in == Members(house, live)
           mutedThere == IF Scene[nth].muted THEN muted \cup in ELSE muted \ in
       IN \/ ids = <<>> /\ UNCHANGED <<muted, unmuted, stray>>
          \/ /\ ids # <<>>
             /\ \/ Coordinates(house, live) /\ muted' = mutedThere /\ UNCHANGED unmuted
                \/ /\ muted' = muted \/ (Coordinates(house, live) /\ muted' = mutedThere)
                   /\ unmuted' = unmuted \cup {nth}
             /\ \/ Scene[nth].play /\ Coordinates(house, live) /\ stray' = (stray \/ in # Range(ids))
                \/ UNCHANGED stray
    /\ nth' = nth + 1
    /\ UNCHANGED <<groupingVars, tries, unsettled, unlevelled>>

(* A favorite to start, and the favorites cannot be read. *)
FavoritesUnread ==
    /\ at = "mutes" /\ nth <= Len(Scene)
    /\ Scene[nth].play
    /\ Ends("failed")
    /\ UNCHANGED <<house, command, known, broken, late, disturbed, robbed, sceneVars>>

Applied ==
    /\ at = "mutes" /\ nth > Len(Scene)
    /\ Ends("done")
    /\ UNCHANGED <<house, command, known, broken, late, disturbed, robbed, sceneVars>>

ApplyStep == ReadsGroups \/ Changes \/ NextGroup \/ SetsLevels \/ PlaysGroup \/ FavoritesUnread \/ Applied

Runs == ApplyStep \/ (CommandStep /\ UNCHANGED sceneVars)

Next == Runs \/ LevelSetLate \/ ((CarriedOutLate \/ Elsewhere) /\ UNCHANGED sceneVars)

Fairness == WF_vars(Runs)

Spec == Init /\ [][Next]_vars /\ Fairness
-----------------------------------------------------------------------------
TypeOK ==
    /\ GroupingTypeOK
    /\ nth \in Nat /\ tries \in Nat
    /\ unsettled \cup unmuted \subseteq Nat
    /\ muted \cup unlevelled \subseteq Rooms
    /\ stray \in BOOLEAN

Done(names) == at = "done" /\ command.name \in names

(* The rooms of the group stand in a group of their own around the first. *)
Stands(h, ids) == ids # <<>> => Members(h, Head(ids)) = Range(ids)

(* No player answers to rooms of two groups of the scene. *)
Apart == \A i, j \in DOMAIN Scene : i # j => Range(Ids(i)) \cap Range(Ids(j)) = {}

(* The group is muted as the scene has it, but that a room whose level is noted
   as not set may be unmuted by it afterwards. *)
MutedAs(i) ==
    \A r \in Range(Ids(i)) :
        IF Scene[i].muted THEN r \in muted \cup unlevelled ELSE r \notin muted

(* A scene that was applied with nobody regrouping the household meanwhile is
   in place, if no player answers to rooms of two of its groups: no group is
   noted as unsettled, every group stands, muted as the scene has it unless a
   note says otherwise, and each soundtrack was started in that group's rooms
   (scene.rs:495, "so music starts in the right rooms"). *)
AppliedIsTheScene ==
    Done({"apply"}) /\ ~disturbed /\ Apart =>
        /\ unsettled = {}
        /\ \A i \in DOMAIN Scene : Stands(house, Ids(i)) /\ (i \notin unmuted => MutedAs(i))
        /\ ~stray

(* A group that already stands as the scene has it is left alone: no change
   that apply asks for takes it apart, if no player answers to rooms of two
   groups (scene.rs:17, "Only what differs is changed"). *)
OnlyWhatDiffers ==
    [][command.name = "apply" /\ ~disturbed' /\ Apart =>
         \A i \in DOMAIN Scene : Stands(house, Ids(i)) => Stands(house', Ids(i))]_vars

(* A grouping command that reports success has done what was asked, also when
   the coordinator never answered (household.rs:729, the change is reported as
   a failure unless it is there), if nobody else regrouped the household.
   party off leaves the groups it notes, whose coordinator is not listed. *)
DoneIsThere ==
    /\ Done({"group"}) /\ ~disturbed =>
         command.rooms \subseteq Members(house, house[command.host])
    /\ Done({"party"}) /\ ~disturbed => \A r, s \in Listed : house[r] = house[s]
    /\ Done({"party off"}) /\ ~disturbed =>
         \A r \in Listed : house[r] = r \/ house[r] \notin Listed
    /\ Done({"ungroup"}) /\ ~disturbed => Members(house, command.host) = {command.host}

(* Taking rooms apart costs no room its queue, whatever another controller does
   between the read of the groups and the request; nor does gathering all of
   them, if nobody else regroups and every room is listed (household.rs:913,
   docs/architecture.md:338). *)
QueuesAreKept ==
    robbed => \/ command.name \in {"group", "apply"}
              \/ command.name = "party" /\ (disturbed \/ Listed # Rooms)

(* What scene.rs:13 says of applying a scene. *)
ScenesKeepQueues == command.name = "apply" => ~robbed

(* A command comes to its end although another controller undoes every change
   it makes: the changes of a scene group are bounded (scene.rs:512). *)
EveryCommandReturns == <>~Running
=============================================================================

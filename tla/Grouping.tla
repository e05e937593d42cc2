------------------------------ MODULE Grouping ------------------------------
(***************************************************************************)
(* A household's groups, and one command that changes them: group, party,  *)
(* party off and ungroup (commands/household.rs), on the request they all  *)
(* make, change_group.  Another controller regroups the household whenever *)
(* it likes; a coordinator may refuse, or not answer and make the change   *)
(* nonetheless, at once, later or never.                                   *)
(* What the household does once the command has ended is left out.         *)
(*                                                                         *)
(* A group is named by its coordinator.  What a player makes of a request  *)
(* is external: it is taken from docs/architecture.md, "Grouping over the  *)
(* local API".                                                             *)
(***************************************************************************)
EXTENDS Integers, FiniteSets

CONSTANTS
    Rooms,     \* the players of the household
    Commands,  \* what may be run, and in which household: [name, host, rooms, scene, listed]
    MaxLate    \* unanswered requests that are still to be carried out, at most

ASSUME GroupingAssumption ==
    /\ \A cmd \in Commands :
         /\ cmd.name \in {"group", "party", "party off", "ungroup", "apply"}
         /\ cmd.listed \subseteq Rooms
         /\ cmd.host \in cmd.listed /\ cmd.rooms \subseteq cmd.listed
    /\ MaxLate \in Nat

VARIABLES
    house,      \* [Rooms -> the coordinator of the room's group]
    command,    \* the one that runs
    at,         \* how far it is
    known,      \* the groups it goes by: session.groups, or its own last read
    broken,     \* the groups party off has been through
    ask,        \* the change_group under way
    late,       \* requests not answered that the coordinator may yet carry out
    disturbed,  \* (ghost) another controller has regrouped since known was read
    robbed      \* (ghost) a change of this command cost a room its queue

groupingVars == <<house, command, at, known, broken, ask, late, disturbed, robbed>>

-----------------------------------------------------------------------------
(* The household (external). *)
Arrangements == {h \in [Rooms -> Rooms] : \A r \in Rooms : h[h[r]] = h[r]}

Members(h, c) == {r \in Rooms : h[r] = c}
Coordinates(h, c) == h[c] = c

Leaving(h, req) == req.add \cup (req.remove \cap Members(h, req.of))

(* modifyGroupMembers moves the named rooms only: the added into the group,
   the removed each to a group of its own.  Who stays keeps the coordinator,
   or, where that is a room that leaves, gets one of their own. *)
Modified(h, req) ==
    LET gone == Leaving(h, req)
    IN {g \in Arrangements :
          /\ \A r \in Rooms \ gone :
               /\ g[r] \in Members(h, h[r]) \ gone
               /\ h[r] \notin gone => g[r] = h[r]
               /\ \A s \in Members(h, h[r]) \ gone : g[s] = g[r]
          /\ \A r \in req.add : g[r] = g[req.of]
          /\ \A r \in gone \ req.add : g[r] = r}

(* Who stays when its coordinator leaves has lost its own queue. *)
Robbed(h, req) ==
    {r \in Rooms \ Leaving(h, req) : h[r] \in Leaving(h, req)}

CarriesOut(req) ==
    /\ Coordinates(house, req.of)
    /\ house' \in Modified(house, req)
    /\ robbed' = (robbed \/ Robbed(house, req) # {})

-----------------------------------------------------------------------------
NoAsk == [of |-> CHOOSE r \in Rooms : TRUE, add |-> {}, remove |-> {}]

GroupingInit ==
    /\ house \in Arrangements
    /\ command \in Commands
    /\ at = "start"
    /\ known = house
    /\ broken = {}
    /\ ask = NoAsk
    /\ late = {}
    /\ disturbed = FALSE
    /\ robbed = FALSE

Asks(of, add, remove) ==
    /\ at' = "asking"
    /\ ask' = [of |-> of, add |-> add, remove |-> remove]

Ends(how) == at' = how /\ ask' = NoAsk

Running == at \notin {"done", "failed"}

(* The players the topology lists; a group may hold others. *)
Listed == command.listed

(* change_group: the coordinator answers, refuses (or cannot be reached), or
   leaves the request without an answer. *)
Answered ==
    /\ at = "asking"
    /\ CarriesOut(ask)
    /\ at' = "answered"
    /\ UNCHANGED <<command, known, broken, ask, late, disturbed>>

Refused ==
    /\ at = "asking"
    /\ Ends("failed")
    /\ UNCHANGED <<house, command, known, broken, late, disturbed, robbed>>

TimesOut ==
    /\ at = "asking" /\ Cardinality(late) < MaxLate
    /\ at' = "unanswered"
    /\ late' = late \cup {ask}
    /\ UNCHANGED <<house, command, known, broken, ask, disturbed, robbed>>

CarriedOutLate ==
    /\ Running
    /\ \E req \in late :
         /\ CarriesOut(req)
         /\ late' = late \ {req}
    /\ UNCHANGED <<command, at, known, broken, ask, disturbed>>

Confirmed_Joined(h, req) == Coordinates(h, req.of) /\ req.add \subseteq Members(h, req.of)

Confirmed(h, req) ==
    /\ Coordinates(h, req.of)
    /\ req.add \subseteq Members(h, req.of)
    /\ req.remove \cap Members(h, req.of) = {}

(* change_group reads the groups again to see whether the change is there. *)
Rereads ==
    /\ at = "unanswered"
    /\ \/ Confirmed(house, ask) /\ at' = "answered" /\ UNCHANGED ask
       \/ ~Confirmed(house, ask) /\ Ends("failed")
       \/ Ends("failed")     \* the groups cannot be read
    /\ UNCHANGED <<house, command, known, broken, late, disturbed, robbed>>

-----------------------------------------------------------------------------
Starts(name) == at = "start" /\ command.name = name

Gather(joining) ==
    IF joining = {} THEN Ends("done") ELSE Asks(known[command.host], joining, {})

Group ==
    /\ Starts("group")
    /\ Gather(command.rooms \ Members(known, known[command.host]))
    /\ UNCHANGED <<house, command, known, broken, late, disturbed, robbed>>

Party ==
    /\ Starts("party")
    /\ Gather(Listed \ Members(known, known[command.host]))
    /\ UNCHANGED <<house, command, known, broken, late, disturbed, robbed>>

Ungroup_AnyRoom ==
    /\ Starts("ungroup")
    /\ IF Cardinality(Members(known, known[command.host])) < 2 THEN Ends("done")
       ELSE Asks(known[command.host], {}, {command.host})
    /\ UNCHANGED <<house, command, known, broken, late, disturbed, robbed>>

Ungroup ==
    /\ Starts("ungroup")
    /\ LET room == command.host
           group == Members(known, known[room])
       IN IF Cardinality(group) < 2 THEN Ends("done")
          ELSE IF Coordinates(known, room) THEN Ends("failed")
          ELSE Asks(known[room], {}, {room})
    /\ UNCHANGED <<house, command, known, broken, late, disturbed, robbed>>

Leavers(c) == (Members(known, c) \cap Listed) \ {c}

(* A group whose coordinator is not listed has nobody to ask: it is noted, and
   left as it is. *)
ToBreak == {c \in Listed \ broken : Coordinates(known, c) /\ Leavers(c) # {}}

(* Each group keeps its coordinator and loses everyone else; the groups are
   those of the session, read once. *)
PartyOff ==
    /\ Starts("party off")
    /\ \/ ToBreak = {} /\ Ends("done") /\ UNCHANGED broken
       \/ \E c \in ToBreak :
            /\ Asks(c, {}, Leavers(c))
            /\ broken' = broken \cup {c}
    /\ UNCHANGED <<house, command, known, late, disturbed, robbed>>

Proceeds ==
    /\ at = "answered"
    /\ command.name # "apply"
    /\ IF command.name = "party off" THEN at' = "start" /\ ask' = NoAsk ELSE Ends("done")
    /\ UNCHANGED <<house, command, known, broken, late, disturbed, robbed>>

(* Another controller has regrouped the rooms, in however many changes. *)
Elsewhere ==
    /\ Running
    /\ house' \in Arrangements \ {house}
    /\ disturbed' = TRUE
    /\ UNCHANGED <<command, at, known, broken, ask, late, robbed>>

CommandStep ==
    Answered \/ Refused \/ TimesOut \/ Rereads \/ Group \/ Party \/ Ungroup \/ PartyOff \/ Proceeds

-----------------------------------------------------------------------------
Requests == [of : Rooms, add : SUBSET Rooms, remove : SUBSET Rooms]

GroupingTypeOK ==
    /\ house \in Arrangements
    /\ command \in Commands
    /\ at \in {"start", "asking", "unanswered", "answered", "planning", "mutes",
               "done", "failed"}
    /\ known \in Arrangements
    /\ broken \subseteq Rooms
    /\ ask \in Requests
    /\ late \subseteq Requests
    /\ disturbed \in BOOLEAN
    /\ robbed \in BOOLEAN
=============================================================================

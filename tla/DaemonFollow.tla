---------------------------- MODULE DaemonFollow ----------------------------
(***************************************************************************)
(* The daemon's service of one household: serve, follow, publish and       *)
(* connection_to in daemon.rs, with the Pool of session.rs they open       *)
(* sockets through.  One task runs the loop and awaits while it publishes; *)
(* one forwarder task per socket moves that socket's events onto one bus.  *)
(*                                                                         *)
(* The household is the environment: it changes its grouping, its players  *)
(* drop their sockets or cannot be reached.  Of an event only what the     *)
(* loop tells apart is kept: a groups snapshot, or LOST.  A socket's       *)
(* promise to say LOST as it dies is Connection's.                         *)
(***************************************************************************)
EXTENDS Naturals, Sequences, SequencesExt

CONSTANTS
    Players,
    Primary,     \* the player the session is connected to
    Groups,
    Topologies,  \* snapshots: group ids to [coord, members]
    LOST,        \* the event of a socket that died
    MaxTopo,     \* bound on regroupings
    MaxLoss      \* bound on sockets lost and restarts asked for

ASSUME PlayersAssumption == Primary \in Players
ASSUME TopologiesAssumption ==
    \A t \in Topologies :
        /\ DOMAIN t \subseteq Groups
        /\ \A g \in DOMAIN t :
              /\ t[g].members \subseteq Players
              /\ t[g].coord \in t[g].members
        /\ \A g, h \in DOMAIN t : g # h => t[g].members \cap t[h].members = {}
ASSUME LostAssumption == LOST \notin Topologies
ASSUME BoundsAssumption == MaxTopo \in Nat /\ MaxLoss \in Nat

VARIABLES
    topo,     \* the household's real grouping
    primary,  \* is the primary's socket up
    pool,     \* each other player's socket in the pool: none, up or dead
    feed,     \* the primary's forwarder: what it has yet to read
    fwd,      \* the other forwarders, on the current bus
    stale,    \* may an aborted forwarder still be mid-poll
    bus,      \* the loop's event channel
    pc,       \* where the loop is
    heard,    \* session.groups
    rooms,    \* the published players, by group
    todo,     \* groups publish has yet to take
    cur,      \* the group being published
    left,     \* its members yet to be reached
    skipped,  \* groups publish gave up on, with their coordinators
    dropped,  \* kinds of primary event no bus will ever deliver
    changes, losses

envVars == <<topo, primary, changes, losses>>
wireVars == <<pool, feed, fwd, stale, bus, dropped>>
loopVars == <<pc, heard, rooms, todo, cur, left, skipped>>
vars == <<topo, primary, pool, feed, fwd, stale, bus, pc, heard, rooms, todo,
          cur, left, skipped, dropped, changes, losses>>

Others == Players \ {Primary}
NoRooms == <<>>    \* the function with no group
NoGroup == [group |-> "none"]

\* A published player: its group as it was published, and whether the socket
\* it was built on is still up.
Room(g, live) == [coord |-> g.coord, members |-> g.members, live |-> live]

Skipped(g, p) == [group |-> g, coord |-> p]

\* The loop has no primary forwarder.
NoFeed == [on |-> FALSE, unread |-> <<>>]
NewFeed == [on |-> TRUE, unread |-> <<>>]

Kind(e) == IF e = LOST THEN "lost" ELSE "groups"
Kinds(s) == {Kind(s[i]) : i \in DOMAIN s}

Init ==
    /\ topo \in Topologies
    /\ primary = TRUE
    /\ pool = [p \in Others |-> "none"]
    /\ feed = NoFeed
    /\ fwd = {} /\ stale = FALSE
    /\ bus = <<>>
    /\ pc = "connect"
    /\ heard = NoRooms /\ rooms = NoRooms
    /\ todo = {} /\ cur = NoGroup /\ left = {} /\ skipped = {}
    /\ dropped = {}
    /\ changes = 0 /\ losses = 0

-----------------------------------------------------------------------------
(* The household.                                                          *)

\* An event the primary sends: its forwarder reads it, or nobody ever will.
Sends(e) ==
    IF feed.on
    THEN /\ feed' = [feed EXCEPT !.unread = Append(@, e)]
         /\ UNCHANGED dropped
    ELSE /\ dropped' = dropped \cup {Kind(e)}
         /\ UNCHANGED feed

Subscribed == pc \notin {"connect", "subscribe", "down"}

Regroup(t) ==
    /\ changes < MaxTopo
    /\ t # topo
    /\ topo' = t
    /\ changes' = changes + 1
    /\ IF primary /\ Subscribed THEN Sends(t) ELSE UNCHANGED <<feed, dropped>>
    /\ UNCHANGED <<primary, losses, pool, fwd, stale, bus, loopVars>>

\* Rooms built on p's socket are built on a dead one.
Die(p) ==
    /\ rooms' = [g \in DOMAIN rooms |->
                    IF rooms[g].coord = p
                    THEN [rooms[g] EXCEPT !.live = FALSE] ELSE rooms[g]]
    /\ cur' = IF cur # NoGroup /\ cur.coord = p
              THEN [cur EXCEPT !.live = FALSE] ELSE cur

LosePrimary ==
    /\ losses < MaxLoss
    /\ primary
    /\ pc \notin {"connect", "down"}
    /\ primary' = FALSE
    /\ losses' = losses + 1
    /\ IF pc # "subscribe" THEN Sends(LOST) ELSE UNCHANGED <<feed, dropped>>
    /\ Die(Primary)
    /\ UNCHANGED <<topo, changes, pool, fwd, stale, bus, pc, heard, todo, left,
                   skipped>>

LoseOther(p) ==
    /\ losses < MaxLoss
    /\ pool[p] = "up"
    /\ pool' = [pool EXCEPT ![p] = "dead"]
    /\ losses' = losses + 1
    /\ fwd' = {IF f.player = p THEN [f EXCEPT !.lost = TRUE] ELSE f : f \in fwd}
    /\ Die(p)
    /\ UNCHANGED <<topo, primary, changes, feed, stale, bus, dropped, pc, heard,
                   todo, left, skipped>>

-----------------------------------------------------------------------------
(* The forwarders.                                                         *)

\* Loss::Fatal; a member's LOST is logged and goes no further.
Fatal(f) == f.loss = "fatal"

\* Variant: the primary's forwarder treats its LOST as a member's.
PrimaryLoss_Tolerated == "tolerated"

PrimaryLoss == "fatal"

ForwardPrimary ==
    /\ feed.on
    /\ feed.unread # <<>>
    /\ bus' = IF Head(feed.unread) = LOST /\ PrimaryLoss # "fatal"
              THEN bus ELSE Append(bus, Head(feed.unread))
    /\ feed' = IF Head(feed.unread) = LOST
               THEN [on |-> TRUE, unread |-> <<>>]
               ELSE [feed EXCEPT !.unread = Tail(@)]
    /\ UNCHANGED <<envVars, pool, fwd, stale, dropped, loopVars>>

ForwardLost(f) ==
    /\ f.lost
    /\ fwd' = fwd \ {f}
    /\ bus' = IF Fatal(f) THEN Append(bus, LOST) ELSE bus
    /\ UNCHANGED <<envVars, pool, feed, stale, dropped, loopVars>>

\* Variant: the bus is drained and kept, so an aborted forwarder still has it.
StalePushes_Kept == bus' = Append(bus, LOST)

\* Its sender is the old bus's: the LOST that close provoked goes nowhere.
StalePushes == UNCHANGED bus

\* An aborted forwarder that was mid-poll finishes its push.
PushStale ==
    /\ stale
    /\ pc # "closing"
    /\ stale' = FALSE
    /\ StalePushes
    /\ UNCHANGED <<envVars, pool, feed, fwd, dropped, loopVars>>

-----------------------------------------------------------------------------
(* Connecting: attach reads the groups, follow listens, then subscribes.   *)

Connect ==
    /\ pc = "connect"
    /\ primary' = TRUE
    /\ heard' = topo
    /\ pc' = "subscribe"
    /\ UNCHANGED <<topo, changes, losses, wireVars, rooms, todo, cur, left,
                   skipped>>

\* The snapshot a new subscription is answered with.
Snapshot == [on |-> TRUE, unread |-> <<topo>>]

Subscribe ==
    /\ pc = "subscribe"
    /\ IF primary
       THEN /\ feed' = Snapshot
            /\ pc' = "publish"
            /\ todo' = DOMAIN heard
       ELSE /\ pc' = "down"
            /\ UNCHANGED <<feed, todo>>
    /\ UNCHANGED <<envVars, pool, fwd, stale, bus, dropped, heard, rooms, cur,
                   left, skipped>>

-----------------------------------------------------------------------------
(* publish, one group after another, each in awaits of its own.            *)

\* Variant: a socket opened for a coordinator is forwarded on a member's terms.
Forwarder_Tolerated(p, loss) ==
    [player |-> p, loss |-> "tolerated", lost |-> FALSE]

Forwarder(p, loss) == [player |-> p, loss |-> loss, lost |-> FALSE]

\* connection_to: the primary itself, a pooled socket that lives, or one
\* opened now, which alone gets a forwarder.
Reached(p, loss) ==
    \/ /\ p = Primary \/ (p \in Others /\ pool[p] = "up")
       /\ UNCHANGED <<pool, fwd>>
    \/ /\ p \in Others
       /\ pool[p] # "up"
       /\ pool' = [pool EXCEPT ![p] = "up"]
       /\ fwd' = fwd \cup {Forwarder(p, loss)}

\* The open failed; a dead socket was taken out of the pool before it.
NotReached(p) ==
    /\ p \in Others
    /\ pool[p] # "up"
    /\ pool' = [pool EXCEPT ![p] = "none"]
    /\ UNCHANGED fwd

ReachCoordinator(g) ==
    /\ pc = "publish"
    /\ g \in todo
    /\ todo' = todo \ {g}
    /\ LET p == heard[g].coord
       IN  \/ /\ Reached(p, "fatal")
              /\ pc' = "seed"
              /\ cur' = [group |-> g, coord |-> p, members |-> heard[g].members,
                         live |-> p # Primary \/ primary]
              /\ UNCHANGED skipped
           \/ /\ NotReached(p)
              /\ skipped' = skipped \cup {Skipped(g, p)}
              /\ UNCHANGED <<pc, cur>>
    /\ UNCHANGED <<envVars, feed, stale, bus, dropped, heard, rooms, left>>

\* The reads that seed the player, its bus name, and its subscriptions.
Seed ==
    /\ pc = "seed"
    /\ \/ /\ cur.live
          /\ pc' = "members"
          /\ left' = cur.members
          /\ UNCHANGED <<cur, skipped>>
       \/ /\ pc' = "publish"
          /\ skipped' = skipped \cup {Skipped(cur.group, cur.coord)}
          /\ cur' = NoGroup
          /\ UNCHANGED left
    /\ UNCHANGED <<envVars, wireVars, heard, rooms, todo>>

ReachMember(p) ==
    /\ pc = "members"
    /\ p \in left
    /\ left' = left \ {p}
    /\ Reached(p, "tolerated") \/ NotReached(p)
    /\ UNCHANGED <<envVars, feed, stale, bus, dropped, pc, heard, rooms, todo,
                   cur, skipped>>

PublishRoom ==
    /\ pc = "members"
    /\ left = {}
    /\ rooms' = [g \in DOMAIN rooms \cup {cur.group} |->
                    IF g = cur.group THEN Room(cur, cur.live) ELSE rooms[g]]
    /\ cur' = NoGroup
    /\ pc' = "publish"
    /\ UNCHANGED <<envVars, wireVars, heard, todo, left, skipped>>

\* Nothing publishing at all is the only error.
PublishDone ==
    /\ pc = "publish"
    /\ todo = {}
    /\ pc' = IF rooms = NoRooms /\ heard # NoRooms THEN "down" ELSE "select"
    /\ UNCHANGED <<envVars, wireVars, heard, rooms, todo, cur, left, skipped>>

-----------------------------------------------------------------------------
(* follow's loop.                                                          *)

\* Variant: the length check is left out, so a room whose group has gone stays.
SameTopology_NoLength(t) ==
    \A g \in DOMAIN t :
        /\ g \in DOMAIN rooms
        /\ rooms[g].coord = t[g].coord
        /\ rooms[g].members = t[g].members

\* still_published: the coordinator stands for the room's name.
SameTopology(t) ==
    /\ DOMAIN rooms = DOMAIN t
    /\ \A g \in DOMAIN t :
          /\ rooms[g].coord = t[g].coord
          /\ rooms[g].members = t[g].members

Receive ==
    /\ pc = "select"
    /\ bus # <<>>
    /\ bus' = Tail(bus)

HandleLost ==
    /\ Receive
    /\ Head(bus) = LOST
    /\ pc' = "down"
    /\ UNCHANGED <<envVars, pool, feed, fwd, stale, dropped, heard, rooms, todo,
                   cur, left, skipped>>

GroupsUnchanged ==
    /\ Receive
    /\ Head(bus) # LOST
    /\ SameTopology(Head(bus))
    /\ heard' = Head(bus)
    /\ UNCHANGED <<envVars, pool, feed, fwd, stale, dropped, pc, rooms, todo,
                   cur, left, skipped>>

\* Every forwarder is aborted; what the primary's had not read is gone.
GroupsChanged ==
    /\ Receive
    /\ Head(bus) # LOST
    /\ ~SameTopology(Head(bus))
    /\ heard' = Head(bus)
    /\ dropped' = dropped \cup Kinds(feed.unread)
    /\ feed' = NoFeed
    /\ fwd' = {}
    /\ pc' = "closing"
    /\ UNCHANGED <<envVars, pool, stale, rooms, todo, cur, left, skipped>>

\* pool.close_all: every socket but the primary's.
Emptied == [p \in Others |-> "none"]

\* close_all has the pool's lock; then a fresh bus, and the primary's forwarder
\* anew.  What the old bus still held goes with it.
Rewire ==
    /\ pc = "closing"
    /\ pool' = Emptied
    /\ stale' = (stale \/ \E p \in Others : pool[p] # "none")
    /\ bus' = <<>>
    /\ dropped' = dropped \cup Kinds(bus)
    /\ feed' = NewFeed
    /\ rooms' = NoRooms
    /\ todo' = DOMAIN heard
    /\ skipped' = {}
    /\ pc' = "publish"
    /\ UNCHANGED <<envVars, fwd, heard, cur, left>>

\* A restart reported to the loop: see Restarts.
HearRestart ==
    /\ pc = "select"
    /\ losses < MaxLoss
    /\ losses' = losses + 1
    /\ pc' = "down"
    /\ UNCHANGED <<topo, primary, changes, wireVars, heard, rooms, todo, cur,
                   left, skipped>>

\* serve closes every socket, and run connects again.
Teardown ==
    /\ pc = "down"
    /\ pc' = "connect"
    /\ pool' = [p \in Others |-> "none"]
    /\ feed' = NoFeed
    /\ fwd' = {} /\ stale' = FALSE
    /\ bus' = <<>>
    /\ rooms' = NoRooms
    /\ todo' = {} /\ cur' = NoGroup /\ left' = {} /\ skipped' = {}
    /\ dropped' = {}
    /\ UNCHANGED <<envVars, heard>>

Next ==
    \/ \E t \in Topologies : Regroup(t)
    \/ LosePrimary
    \/ \E p \in Others : LoseOther(p)
    \/ PushStale
    \/ ForwardPrimary
    \/ \E f \in fwd : ForwardLost(f)
    \/ Connect \/ Subscribe
    \/ \E g \in todo : ReachCoordinator(g)
    \/ Seed
    \/ \E p \in left : ReachMember(p)
    \/ PublishRoom \/ PublishDone
    \/ HandleLost \/ GroupsUnchanged \/ GroupsChanged \/ Rewire
    \/ HearRestart \/ Teardown

Spec == Init /\ [][Next]_vars

\* What the tasks do without being asked: forward, and run the loop.  The
\* household owes nothing, and neither does a restart.
Loop ==
    \/ Connect \/ Subscribe
    \/ \E g \in todo : ReachCoordinator(g)
    \/ Seed
    \/ \E p \in left : ReachMember(p)
    \/ PublishRoom \/ PublishDone
    \/ HandleLost \/ GroupsUnchanged \/ GroupsChanged \/ Rewire
    \/ Teardown

Fairness ==
    /\ WF_vars(Loop)
    /\ WF_vars(ForwardPrimary)
    /\ WF_vars(\E f \in fwd : ForwardLost(f))

FairSpec == Spec /\ Fairness

-----------------------------------------------------------------------------
(* Properties.                                                             *)

Events == Topologies \cup {LOST}

\* Every variable has its type: a forwarder's events are snapshots and LOST,
\* and no room is published of a player outside the household.
TypeOK ==
    /\ topo \in Topologies
    /\ primary \in BOOLEAN
    /\ pool \in [Others -> {"none", "up", "dead"}]
    /\ feed \in [on : BOOLEAN, unread : Seq(Events)]
    /\ fwd \subseteq [player : Others, loss : {"fatal", "tolerated"},
                     lost : BOOLEAN]
    /\ stale \in BOOLEAN
    /\ bus \in Seq(Events)
    /\ pc \in {"connect", "subscribe", "publish", "seed", "members", "select",
               "closing", "down"}
    /\ heard \in Topologies \cup {NoRooms}
    /\ DOMAIN rooms \subseteq Groups
    /\ \A g \in DOMAIN rooms :
          rooms[g] \in [coord : Players, members : SUBSET Players, live : BOOLEAN]
    /\ cur = NoGroup \/ cur \in [group : Groups, coord : Players,
                                members : SUBSET Players, live : BOOLEAN]
    /\ todo \subseteq Groups /\ left \subseteq Players
    /\ skipped \subseteq [group : Groups, coord : Players]
    /\ dropped \subseteq {"lost", "groups"}
    /\ changes \in 0 .. MaxTopo /\ losses \in 0 .. MaxLoss

\* The sockets the household stands on: the primary's, those rooms were built
\* on, and those of coordinators whose group was given up after it was reached.
FatalSocketDead ==
    \/ ~primary
    \/ \E g \in DOMAIN rooms : ~rooms[g].live
    \/ cur # NoGroup /\ ~cur.live
    \/ \E s \in skipped : s.coord \in Others /\ pool[s.coord] = "dead"

\* The daemon is never torn down for nothing: while LOST is on the loop's bus,
\* a socket of this wiring that the household stands on has died.  Neither the
\* LOST that close_all provoked in the wiring before it nor a flaky member's
\* gets there ("A fresh bus, not a drained one", daemon.rs).
NoStaleTeardown ==
    (Contains(bus, LOST) /\ pc # "closing") => FatalSocketDead

\* The LOST of p's socket is on its way to the loop.
LossUnderWay(p) ==
    \/ Contains(bus, LOST)
    \/ p = Primary /\ (Contains(feed.unread, LOST) \/ "lost" \in dropped)
    \/ \E f \in fwd : f.player = p /\ f.lost /\ f.loss = "fatal"

\* No room stays published on a dead socket unbeknown to the loop: whatever
\* the order in which coordinators and members were reached and their sockets
\* reused, a published room's socket that dies has a LOST under way
\* (connection_to: "a pooled one keeps the terms it was opened on").
DeadRoomsAreKnown ==
    pc \notin {"closing", "down"} =>
        \A g \in DOMAIN rooms : ~rooms[g].live => LossUnderWay(rooms[g].coord)

\* Nothing is left for the loop to hear.
Quiet == pc = "select" /\ bus = <<>> /\ feed.unread = <<>>

RoomsMatch ==
    /\ DOMAIN rooms = DOMAIN topo \ {s.group : s \in skipped}
    /\ \A g \in DOMAIN rooms :
          /\ rooms[g].coord = topo[g].coord
          /\ rooms[g].members = topo[g].members

\* What follow keeps of its snapshot ("kept current from the household's own
\* groups events - every one that parses"): with nothing left to hear on a live
\* primary, what is published is the household as it is, less the groups that
\* could not be, unless a groups event was dropped with the old bus of a
\* republish.
SettledIsPublished ==
    (Quiet /\ primary /\ "groups" \notin dropped) => RoomsMatch

\* What Loss::Fatal says ("The primary or a coordinator: the players it feeds
\* go stale, so reconnect"): the loop never sits with nothing to hear on a dead
\* primary.
PrimaryLossIsHeard == Quiet => primary

\* The same as an eventuality: a dead primary is reconnected, unless its LOST
\* was dropped at a republish.
PrimaryLossIsRecovered ==
    ~primary ~> (primary \/ "lost" \in dropped)

\* And of the rooms (the other half of Loss::Fatal): a room on a dead socket is
\* not left published; the household is reconnected or published anew.
DeadRoomsAreReplaced ==
    (\E g \in DOMAIN rooms : ~rooms[g].live)
        ~> ((\A g \in DOMAIN rooms : rooms[g].live) \/ "lost" \in dropped)
=============================================================================

------------------------- MODULE DaemonFollowProofs -------------------------
(* Theorems about DaemonFollow, for any players, groupings, and number of
   regroupings and losses. *)
EXTENDS DaemonFollow, Integers, SequenceTheorems, TLAPS

Wiring == pc \in {"publish", "seed", "members"}
Building == pc \in {"seed", "members"}
Published == [group : Groups, coord : Players, members : SUBSET Players, live : BOOLEAN]
SkippedGroups == {s.group : s \in skipped}

-----------------------------------------------------------------------------
(* A new wiring starts from nothing, and an old one leaves no forwarder. *)
Clean ==
    /\ pc \in {"connect", "subscribe"} =>
          bus = <<>> /\ feed = NoFeed /\ DOMAIN rooms = {} /\ skipped = {}
    /\ pc \in {"connect", "subscribe", "closing"} => fwd = {}
    /\ pc \in {"connect", "subscribe"} => \A p \in Others : pool[p] = "none"
    /\ pc = "closing" => ~feed.on /\ feed.unread = <<>>
    /\ pc # "connect" => heard \in Topologies
    /\ IF Building THEN cur \in Published ELSE cur = NoGroup

(* Each group of the snapshot is yet to be taken, in hand, published or given
   up, and only one of these. *)
Shape ==
    /\ DOMAIN rooms \cap SkippedGroups = {}
    /\ Wiring \/ pc = "select" =>
         /\ \A g \in DOMAIN rooms : /\ g \in DOMAIN heard \ todo
                                    /\ rooms[g].coord = heard[g].coord
                                    /\ rooms[g].members = heard[g].members
         /\ pc = "select" => DOMAIN heard \subseteq DOMAIN rooms \cup SkippedGroups
    /\ Wiring =>
         /\ todo \subseteq DOMAIN heard
         /\ DOMAIN heard \subseteq DOMAIN rooms \cup SkippedGroups \cup todo
                                     \cup (IF Building THEN {cur.group} ELSE {})
         /\ \A s \in skipped : s.group \in DOMAIN heard \ todo /\ s.coord = heard[s.group].coord
    /\ Building =>
         /\ cur.group \in DOMAIN heard \ (todo \cup SkippedGroups \cup DOMAIN rooms)
         /\ cur.coord = heard[cur.group].coord /\ cur.members = heard[cur.group].members
    /\ pc = "members" => left \subseteq cur.members

(* The coordinator of a group yet to be taken has no socket: nobody has
   reached it, as no other group has it as a member. *)
Unreached ==
    Wiring => \A g \in todo : heard[g].coord \in Others => pool[heard[g].coord] # "up"

(* The primary's loss is never lost without a trace. *)
PrimaryKnown ==
    /\ Subscribed /\ ~primary =>
          Contains(bus, LOST) \/ Contains(feed.unread, LOST) \/ "lost" \in dropped
    /\ Contains(feed.unread, LOST) => ~primary

FatalForwarder(fs, p, lost) == \E f \in fs : f.player = p /\ f.loss = "fatal" /\ f.lost = lost

(* A room on a live socket has a forwarder, of fs, that will report it; one on
   a dead socket is in the bus b or will be.  The primary's is known: up. *)
Reported(r, up, b, fs) ==
    IF r.coord = Primary THEN ~r.live => ~up
    ELSE IF r.live THEN FatalForwarder(fs, r.coord, FALSE)
    ELSE Contains(b, LOST) \/ FatalForwarder(fs, r.coord, TRUE)

RoomsReported ==
    /\ Wiring \/ pc = "select" => \A g \in DOMAIN rooms : Reported(rooms[g], primary, bus, fwd)
    /\ Building => Reported(cur, primary, bus, fwd)
    /\ pc = "seed" /\ ~cur.live /\ cur.coord # Primary => pool[cur.coord] = "dead"

(* Every forwarder on fatal terms is of a coordinator the household stands on:
   when it reports a loss, what it stood for is dead. *)
Stands(p, lost) ==
    \/ \E g \in DOMAIN rooms : rooms[g].coord = p /\ (lost => ~rooms[g].live)
    \/ Building /\ cur.coord = p /\ (lost => ~cur.live)
    \/ \E s \in skipped : s.coord = p /\ (lost => pool[p] = "dead")

ForwardersStand == \A f \in fwd : f.loss = "fatal" => Stands(f.player, f.lost)

(* The last snapshot in s is t; s has none. *)
Latest(s, t) == \E i \in 1..Len(s) : s[i] = t /\ \A j \in 1..Len(s) : j > i => s[j] = LOST
OnlyLost(s) == \A i \in 1..Len(s) : s[i] = LOST

(* What is still to be heard ends with the household as it is. *)
UpToDate ==
    pc \notin {"connect", "subscribe", "down"} /\ primary /\ "groups" \notin dropped =>
        /\ pc # "closing" => feed.on
        /\ \/ Latest(feed.unread, topo)
           \/ OnlyLost(feed.unread) /\ Latest(bus, topo)
           \/ OnlyLost(feed.unread) /\ OnlyLost(bus) /\ heard = topo

-----------------------------------------------------------------------------
(* Queues of events.                                                       *)

LEMMA Empty == /\ <<>> \in Seq(Events) /\ \A e : ~Contains(<<>>, e)
               /\ OnlyLost(<<>>) /\ \A t : ~Latest(<<>>, t)
               /\ DOMAIN NoRooms = {}
BY DEF Contains, OnlyLost, Latest, NoRooms

LEMMA Appending ==
    ASSUME NEW s \in Seq(Events), NEW x \in Events
    PROVE  /\ Append(s, x) \in Seq(Events)
           /\ \A e : Contains(Append(s, x), e) <=> Contains(s, e) \/ e = x
           /\ x = LOST /\ OnlyLost(s) => OnlyLost(Append(s, x))
           /\ \A t : x = LOST /\ Latest(s, t) => Latest(Append(s, x), t)
           /\ Latest(Append(s, x), x)
<1>1. /\ Append(s, x) \in Seq(Events) /\ Len(Append(s, x)) = Len(s) + 1 /\ Len(s) \in Nat
      /\ \A i \in 1..Len(s) : Append(s, x)[i] = s[i]
      /\ Append(s, x)[Len(s) + 1] = x
  BY AppendProperties, LenProperties
<1> DEFINE a == Append(s, x)
<1> HIDE DEF a
<1>2. \A i \in 1..Len(a) : i \in 1..Len(s) \/ i = Len(s) + 1
  BY <1>1 DEF a
<1>3. \A i \in 1..Len(s) : i \in 1..Len(a) /\ a[i] = s[i] /\ i < Len(s) + 1
  BY <1>1 DEF a
<1>4. Len(s) + 1 \in 1..Len(a) /\ a[Len(s) + 1] = x
  BY <1>1 DEF a
<1>5. \A e : Contains(a, e) <=> Contains(s, e) \/ e = x
  BY <1>2, <1>3, <1>4 DEF Contains
<1>6. x = LOST /\ OnlyLost(s) => OnlyLost(a)
  BY <1>2, <1>3, <1>4 DEF OnlyLost
<1>7. ASSUME NEW t, x = LOST, Latest(s, t) PROVE Latest(a, t)
  <2>1. PICK i \in 1..Len(s) : s[i] = t /\ \A j \in 1..Len(s) : j > i => s[j] = LOST
    BY <1>7 DEF Latest
  <2>2. i \in 1..Len(a) /\ a[i] = t
    BY <2>1, <1>3
  <2>3. \A j \in 1..Len(a) : j > i => a[j] = LOST
    BY <2>1, <1>2, <1>3, <1>4, <1>7
  <2>4. QED BY <2>2, <2>3 DEF Latest
<1>8. Latest(a, x)
  <2>1. \A j \in 1..Len(a) : ~(j > Len(s) + 1)
    BY <1>1 DEF a
  <2>2. QED BY <2>1, <1>4 DEF Latest
<1>9. QED BY <1>1, <1>5, <1>6, <1>7, <1>8 DEF a

LEMMA Taking ==
    ASSUME NEW s \in Seq(Events), s # <<>>
    PROVE  /\ Head(s) \in Events /\ Tail(s) \in Seq(Events)
           /\ \A e : Contains(s, e) <=> Head(s) = e \/ Contains(Tail(s), e)
           /\ OnlyLost(s) => Head(s) = LOST /\ OnlyLost(Tail(s))
           /\ \A t : Latest(s, t) => Latest(Tail(s), t) \/ (Head(s) = t /\ OnlyLost(Tail(s)))
<1>1. /\ Head(s) \in Events /\ Tail(s) \in Seq(Events) /\ Len(Tail(s)) = Len(s) - 1
      /\ Head(s) = s[1] /\ Len(s) \in Nat \ {0}
      /\ \A i \in 1..(Len(s) - 1) : Tail(s)[i] = s[i + 1]
  BY HeadTailProperties, EmptySeq, LenProperties
<1> DEFINE b == Tail(s)
<1> HIDE DEF b
<1>2. /\ 1 \in 1..Len(s) /\ \A i \in 1..Len(b) : i + 1 \in 1..Len(s) /\ b[i] = s[i + 1] /\ i + 1 > 1
      /\ \A i \in 1..Len(s) : i = 1 \/ (i - 1 \in 1..Len(b) /\ b[i - 1] = s[i])
  BY <1>1 DEF b
<1>3. \A e : Contains(s, e) <=> s[1] = e \/ Contains(b, e)
  BY <1>2 DEF Contains
<1>4. OnlyLost(s) => s[1] = LOST /\ OnlyLost(b)
  BY <1>2 DEF OnlyLost
<1>5. ASSUME NEW t, Latest(s, t) PROVE Latest(b, t) \/ (s[1] = t /\ OnlyLost(b))
  <2>1. PICK i \in 1..Len(s) : s[i] = t /\ \A j \in 1..Len(s) : j > i => s[j] = LOST
    BY <1>5 DEF Latest
  <2>2. CASE i = 1
    BY <2>1, <2>2, <1>2 DEF OnlyLost
  <2>3. CASE i # 1
    <3>1. PICK k \in 1..Len(b) : k = i - 1 /\ b[k] = t
      BY <2>1, <2>3, <1>2
    <3>2. \A j \in 1..Len(b) : j > k => j + 1 > i
      BY <3>1, <1>1 DEF b
    <3>3. \A j \in 1..Len(b) : j > k => b[j] = LOST
      BY <3>2, <2>1, <1>2
    <3>4. QED BY <3>1, <3>3 DEF Latest
  <2>4. QED BY <2>2, <2>3
<1>6. \A t : Latest(s, t) => Latest(b, t) \/ (s[1] = t /\ OnlyLost(b))
  BY <1>5
<1>7. Head(s) = s[1] /\ Tail(s) = b /\ Head(s) \in Events /\ b \in Seq(Events)
  BY <1>1 DEF b
<1>8. QED BY <1>3, <1>4, <1>6, <1>7, Zenon

\* What is dropped with a queue: LOST, or some snapshot.
LEMMA KindsAre ==
    ASSUME NEW s \in Seq(Events)
    PROVE  /\ Kinds(s) \subseteq {"lost", "groups"}
           /\ Contains(s, LOST) => "lost" \in Kinds(s)
           /\ "groups" \notin Kinds(s) => OnlyLost(s)
<1>1. DOMAIN s = 1..Len(s)
  BY LenProperties
<1>2. QED BY <1>1 DEF Kinds, Kind, Contains, OnlyLost

\* With a snapshot as the last, a queue does not hold LOST alone.
LEMMA LatestIsASnapshot ==
    ASSUME NEW s \in Seq(Events), NEW t \in Topologies
    PROVE  ~(OnlyLost(s) /\ Latest(s, t))
BY LostAssumption DEF OnlyLost, Latest

LEMMA PublishedIsSome == ASSUME NEW c \in Published PROVE c # NoGroup
<1>1. DOMAIN c = {"group", "coord", "members", "live"} /\ DOMAIN NoGroup = {"group"}
  BY DEF Published, NoGroup
<1>2. "live" \in DOMAIN c /\ "live" \notin DOMAIN NoGroup
  BY <1>1
<1>3. QED BY <1>2

-----------------------------------------------------------------------------
(* Types.                                                                  *)

LEMMA DieTyped ==
    ASSUME TypeOK, NEW p \in Players, Die(p)
    PROVE  /\ DOMAIN rooms' = DOMAIN rooms
           /\ \A g \in DOMAIN rooms :
                 /\ rooms'[g] \in [coord : Players, members : SUBSET Players, live : BOOLEAN]
                 /\ rooms'[g].coord = rooms[g].coord /\ rooms'[g].members = rooms[g].members
                 /\ rooms'[g].live = (rooms[g].live /\ rooms[g].coord # p)
           /\ cur' = NoGroup <=> cur = NoGroup
           /\ cur # NoGroup =>
                 /\ cur' \in Published
                 /\ cur'.group = cur.group /\ cur'.coord = cur.coord /\ cur'.members = cur.members
                 /\ cur'.live = (cur.live /\ cur.coord # p)
<1>1. \A g \in DOMAIN rooms : rooms[g] \in [coord : Players, members : SUBSET Players, live : BOOLEAN]
  BY DEF TypeOK
<1>2. /\ DOMAIN rooms' = DOMAIN rooms
      /\ \A g \in DOMAIN rooms :
            rooms'[g] = IF rooms[g].coord = p THEN [rooms[g] EXCEPT !.live = FALSE] ELSE rooms[g]
  BY DEF Die
<1>3. ASSUME NEW g \in DOMAIN rooms
      PROVE  /\ rooms'[g] \in [coord : Players, members : SUBSET Players, live : BOOLEAN]
             /\ rooms'[g].coord = rooms[g].coord /\ rooms'[g].members = rooms[g].members
             /\ rooms'[g].live = (rooms[g].live /\ rooms[g].coord # p)
  BY <1>1, <1>2
<1>4. CASE cur = NoGroup
  BY <1>4, <1>2, <1>3 DEF Die
<1>5. CASE cur # NoGroup
  <2>1. cur \in Published
    BY <1>5 DEF TypeOK, Published
  <2>2. cur' = IF cur.coord = p THEN [cur EXCEPT !.live = FALSE] ELSE cur
    BY <1>5 DEF Die
  <2>3. /\ cur' \in Published
        /\ cur'.group = cur.group /\ cur'.coord = cur.coord /\ cur'.members = cur.members
        /\ cur'.live = (cur.live /\ cur.coord # p)
    BY <2>1, <2>2 DEF Published
  <2>4. cur' # NoGroup
    BY <2>3, PublishedIsSome
  <2>5. QED BY <2>3, <2>4, <1>5, <1>2, <1>3
<1>6. QED BY <1>4, <1>5

\* The types of the queues and of what is dropped.
QueueTypes ==
    /\ feed \in [on : BOOLEAN, unread : Seq(Events)]
    /\ bus \in Seq(Events)
    /\ dropped \subseteq {"lost", "groups"}

LEMMA SendsTyped ==
    ASSUME QueueTypes, NEW e \in Events, Sends(e)
    PROVE  /\ feed' \in [on : BOOLEAN, unread : Seq(Events)]
           /\ dropped' \subseteq {"lost", "groups"}
BY Appending DEF QueueTypes, Sends, Kind

LEMMA ReachTyped ==
    ASSUME TypeOK, NEW p, NEW loss \in {"fatal", "tolerated"}, Reached(p, loss) \/ NotReached(p)
    PROVE  /\ pool' \in [Others -> {"none", "up", "dead"}]
           /\ fwd' \subseteq [player : Others, loss : {"fatal", "tolerated"}, lost : BOOLEAN]
<1>1. CASE UNCHANGED <<pool, fwd>>
  BY <1>1 DEF TypeOK
<1>2. CASE p \in Others /\ pool' = [pool EXCEPT ![p] = "up"] /\ fwd' = fwd \cup {Forwarder(p, loss)}
  <2>1. Forwarder(p, loss) \in [player : Others, loss : {"fatal", "tolerated"}, lost : BOOLEAN]
    BY <1>2 DEF Forwarder
  <2>2. QED BY <2>1, <1>2 DEF TypeOK
<1>3. CASE NotReached(p)
  BY <1>3 DEF NotReached, TypeOK
<1>4. QED BY <1>1, <1>2, <1>3 DEF Reached

\* Taking a group: its coordinator is reached and the group is in hand, or it
\* is not and the group is given up.
LEMMA TakenGroup ==
    ASSUME TypeOK, Clean, Shape, NEW g \in todo, ReachCoordinator(g)
    PROVE  /\ pc = "publish" /\ cur = NoGroup /\ heard \in Topologies
           /\ g \in DOMAIN heard /\ g \in Groups
           /\ heard[g].coord \in Players /\ heard[g].members \in SUBSET Players
           /\ \/ /\ pc' = "seed" /\ skipped' = skipped /\ Reached(heard[g].coord, "fatal")
                 /\ cur' \in Published /\ cur'.group = g
                 /\ cur'.coord = heard[g].coord /\ cur'.members = heard[g].members
                 /\ cur'.live = (heard[g].coord # Primary \/ primary)
              \/ /\ pc' = "publish" /\ cur' = cur /\ NotReached(heard[g].coord)
                 /\ skipped' = skipped \cup {Skipped(g, heard[g].coord)}
<1>1. pc = "publish" /\ g \in Groups
  BY DEF ReachCoordinator, TypeOK
<1>2. heard \in Topologies /\ g \in DOMAIN heard /\ cur = NoGroup
  BY <1>1 DEF Clean, Shape, Wiring, Building
<1>3. heard[g].coord \in Players /\ heard[g].members \in SUBSET Players
  BY <1>2, TopologiesAssumption
<1>4. [group |-> g, coord |-> heard[g].coord, members |-> heard[g].members,
       live |-> heard[g].coord # Primary \/ primary] \in Published
  BY <1>1, <1>3 DEF TypeOK, Published
<1>5. QED BY <1>1, <1>2, <1>3, <1>4 DEF ReachCoordinator

LEMMA TypeStep ==
    ASSUME TypeOK, Clean, Shape, Next
    PROVE  TypeOK'
<1> USE DEF Events
<1>t. /\ Primary \in Players /\ MaxTopo \in Nat /\ MaxLoss \in Nat
      /\ <<>> \in Seq(Events) /\ QueueTypes
      /\ DOMAIN NoRooms = {}
      /\ \A t \in Topologies : /\ DOMAIN t \subseteq Groups
                               /\ \A g \in DOMAIN t : t[g].coord \in Players /\ t[g].members \in SUBSET Players
  BY PlayersAssumption, BoundsAssumption, TopologiesAssumption, Empty DEF TypeOK, QueueTypes
<1>1. ASSUME NEW t \in Topologies, Regroup(t) PROVE TypeOK'
  <2>1. /\ feed' \in [on : BOOLEAN, unread : Seq(Events)]
        /\ dropped' \subseteq {"lost", "groups"}
    BY <1>1, <1>t, SendsTyped DEF Regroup, QueueTypes
  <2>2. QED BY <2>1, <1>1, <1>t DEF Regroup, TypeOK, loopVars
<1>2. CASE LosePrimary
  <2>1. /\ feed' \in [on : BOOLEAN, unread : Seq(Events)]
        /\ dropped' \subseteq {"lost", "groups"}
    BY <1>2, <1>t, SendsTyped DEF LosePrimary, QueueTypes
  <2>2. Die(Primary)
    BY <1>2 DEF LosePrimary
  <2>3. /\ DOMAIN rooms' \subseteq Groups
        /\ \A g \in DOMAIN rooms' : rooms'[g] \in [coord : Players, members : SUBSET Players, live : BOOLEAN]
        /\ cur' = NoGroup \/ cur' \in Published
    BY <2>2, <1>t, DieTyped DEF TypeOK
  <2>4. UNCHANGED <<topo, changes, pool, fwd, stale, bus, pc, heard, todo, left, skipped>>
        /\ primary' = FALSE /\ losses' \in 0..MaxLoss
    BY <1>2, <1>t DEF LosePrimary, TypeOK
  <2>5. QED BY <2>1, <2>3, <2>4 DEF TypeOK, Published
<1>3. ASSUME NEW p \in Others, LoseOther(p) PROVE TypeOK'
  <2>2. Die(p) /\ p \in Players
    BY <1>3 DEF LoseOther, Others
  <2>3. /\ DOMAIN rooms' \subseteq Groups
        /\ \A g \in DOMAIN rooms' : rooms'[g] \in [coord : Players, members : SUBSET Players, live : BOOLEAN]
        /\ cur' = NoGroup \/ cur' \in Published
    BY <2>2, <1>t, DieTyped DEF TypeOK
  <2>4. fwd' \subseteq [player : Others, loss : {"fatal", "tolerated"}, lost : BOOLEAN]
    <3>1. \A f \in fwd : f \in [player : Others, loss : {"fatal", "tolerated"}, lost : BOOLEAN]
      BY DEF TypeOK
    <3>2. \A f \in fwd : [f EXCEPT !.lost = TRUE]
                          \in [player : Others, loss : {"fatal", "tolerated"}, lost : BOOLEAN]
      BY <3>1
    <3>3. fwd' = {IF f.player = p THEN [f EXCEPT !.lost = TRUE] ELSE f : f \in fwd}
      BY <1>3 DEF LoseOther
    <3>4. QED BY <3>1, <3>2, <3>3
  <2>5. pool' \in [Others -> {"none", "up", "dead"}]
    BY <1>3 DEF LoseOther, TypeOK
  <2>6. QED BY <2>3, <2>4, <2>5, <1>3, <1>t DEF LoseOther, TypeOK, Published
<1>4. CASE PushStale
  BY <1>4 DEF PushStale, StalePushes, TypeOK, envVars, loopVars
<1>5. CASE ForwardPrimary
  <2>1. Head(feed.unread) \in Events /\ Tail(feed.unread) \in Seq(Events)
    BY <1>5, <1>t, Taking DEF ForwardPrimary, QueueTypes
  <2>2. bus' \in Seq(Events)
    BY <2>1, <1>5, <1>t, Appending DEF ForwardPrimary, QueueTypes
  <2>3. feed' \in [on : BOOLEAN, unread : Seq(Events)]
    BY <2>1, <1>5, <1>t DEF ForwardPrimary, QueueTypes
  <2>4. QED BY <2>2, <2>3, <1>5 DEF ForwardPrimary, TypeOK, envVars, loopVars
<1>6. ASSUME NEW f \in fwd, ForwardLost(f) PROVE TypeOK'
  <2>1. bus' \in Seq(Events)
    BY <1>6, <1>t, Appending DEF ForwardLost, QueueTypes
  <2>2. QED BY <2>1, <1>6 DEF ForwardLost, TypeOK, envVars, loopVars
<1>7. CASE Connect
  BY <1>7 DEF Connect, TypeOK, wireVars
<1>8. CASE Subscribe
  <2>1. <<topo>> \in Seq(Events)
    BY DEF TypeOK
  <2>2. heard \in Topologies
    BY <1>8 DEF Clean, Subscribe
  <2>3. feed' \in [on : BOOLEAN, unread : Seq(Events)] /\ todo' \in SUBSET Groups
    <3>1. CASE primary
      <4>1. feed' = Snapshot /\ todo' = DOMAIN heard
        BY <3>1, <1>8 DEF Subscribe
      <4>2. QED BY <4>1, <2>1, <2>2, <1>t DEF Snapshot
    <3>2. CASE ~primary
      BY <3>2, <1>8 DEF Subscribe, TypeOK
    <3>3. QED BY <3>1, <3>2
  <2>4. QED BY <2>3, <1>8 DEF Subscribe, TypeOK, envVars
<1>9. ASSUME NEW g \in todo, ReachCoordinator(g) PROVE TypeOK'
  <2>1. pool' \in [Others -> {"none", "up", "dead"}]
        /\ fwd' \subseteq [player : Others, loss : {"fatal", "tolerated"}, lost : BOOLEAN]
    BY <1>9, ReachTyped DEF ReachCoordinator
  <2>2. cur' = NoGroup \/ cur' \in Published
    BY <1>9, TakenGroup
  <2>3. skipped' \subseteq [group : Groups, coord : Players] /\ pc' \in {"publish", "seed"}
    BY <1>9, TakenGroup DEF TypeOK, Skipped
  <2>4. UNCHANGED <<envVars, feed, stale, bus, dropped, heard, rooms, left>> /\ todo' \subseteq todo
    BY <1>9 DEF ReachCoordinator
  <2>5. QED BY <2>1, <2>2, <2>3, <2>4 DEF TypeOK, Published, envVars
<1>10. CASE Seed
  <2>1. cur \in Published
    BY <1>10 DEF Clean, Seed, Building
  <2>2. skipped' \subseteq [group : Groups, coord : Players] /\ left' \subseteq Players
    BY <2>1, <1>10 DEF Seed, TypeOK, Published, Skipped
  <2>3. pc' \in {"members", "publish"} /\ cur' \in {cur, NoGroup}
    BY <1>10 DEF Seed
  <2>4. QED BY <2>2, <2>3, <1>10 DEF Seed, TypeOK, envVars, wireVars
<1>11. ASSUME NEW p \in left, ReachMember(p) PROVE TypeOK'
  <2>1. pool' \in [Others -> {"none", "up", "dead"}]
        /\ fwd' \subseteq [player : Others, loss : {"fatal", "tolerated"}, lost : BOOLEAN]
    BY <1>11, ReachTyped DEF ReachMember
  <2>2. QED BY <2>1, <1>11 DEF ReachMember, TypeOK, envVars
<1>12. CASE PublishRoom
  <2>1. cur \in Published
    BY <1>12 DEF Clean, PublishRoom, Building
  <2>2. /\ DOMAIN rooms' = DOMAIN rooms \cup {cur.group}
        /\ \A g \in DOMAIN rooms' :
              rooms'[g] = IF g = cur.group THEN Room(cur, cur.live) ELSE rooms[g]
    BY <1>12 DEF PublishRoom
  <2>3. Room(cur, cur.live) \in [coord : Players, members : SUBSET Players, live : BOOLEAN]
    BY <2>1 DEF Room, Published
  <2>4. /\ DOMAIN rooms' \subseteq Groups
        /\ \A g \in DOMAIN rooms' : rooms'[g] \in [coord : Players, members : SUBSET Players, live : BOOLEAN]
    BY <2>1, <2>2, <2>3 DEF TypeOK, Published
  <2>5. QED BY <2>4, <1>12 DEF PublishRoom, TypeOK, envVars, wireVars
<1>13. CASE PublishDone
  BY <1>13 DEF PublishDone, TypeOK, envVars, wireVars
<1>14. CASE HandleLost \/ GroupsUnchanged \/ GroupsChanged
  <2>1. bus \in Seq(Events) /\ bus # <<>> /\ bus' = Tail(bus)
    BY <1>14 DEF HandleLost, GroupsUnchanged, GroupsChanged, Receive, TypeOK
  <2>2. Head(bus) \in Events /\ bus' \in Seq(Events)
    BY <2>1, Taking
  <2>3. CASE HandleLost
    BY <2>2, <2>3 DEF HandleLost, TypeOK, envVars
  <2>4. CASE GroupsUnchanged
    BY <2>2, <2>4 DEF GroupsUnchanged, TypeOK, envVars
  <2>5. CASE GroupsChanged
    <3>1. dropped' \subseteq {"lost", "groups"}
      BY <2>5, <1>t, KindsAre DEF GroupsChanged, QueueTypes
    <3>2. QED BY <3>1, <2>2, <2>5, <1>t DEF GroupsChanged, TypeOK, NoFeed, envVars
  <2>6. QED BY <1>14, <2>3, <2>4, <2>5
<1>16. CASE Rewire
  <2>1. dropped' \subseteq {"lost", "groups"}
    BY <1>16, <1>t, KindsAre DEF Rewire, QueueTypes
  <2>2. heard \in Topologies
    BY <1>16 DEF Clean, Rewire
  <2>3. QED BY <2>1, <2>2, <1>16, <1>t DEF Rewire, Emptied, NewFeed, TypeOK, envVars
<1>17. CASE HearRestart
  BY <1>17, <1>t DEF HearRestart, TypeOK, wireVars
<1>18. CASE Teardown
  BY <1>18, <1>t DEF Teardown, TypeOK, NoFeed, envVars
<1>19. QED BY <1>1, <1>2, <1>3, <1>4, <1>5, <1>6, <1>7, <1>8, <1>9, <1>10, <1>11, <1>12, <1>13,
             <1>14, <1>16, <1>17, <1>18 DEF Next

-----------------------------------------------------------------------------
(* What a wiring starts from.                                              *)

LEMMA CleanStep ==
    ASSUME TypeOK, Clean, Shape, Next
    PROVE  Clean'
<1>t. topo \in Topologies /\ Primary \in Players
  BY PlayersAssumption DEF TypeOK
<1>1. ASSUME NEW t \in Topologies, Regroup(t) PROVE Clean'
  <2>1. UNCHANGED <<pc, bus, rooms, skipped, fwd, pool, heard, cur>>
    BY <1>1 DEF Regroup, loopVars
  <2>2. pc \in {"connect", "subscribe", "closing"} => feed' = feed
    BY <1>1 DEF Regroup, Sends, Clean, NoFeed, Subscribed
  <2>3. QED BY <2>1, <2>2 DEF Clean, Building
<1>2. CASE LosePrimary
  <2>1. UNCHANGED <<pc, bus, skipped, fwd, pool, heard>> /\ Die(Primary) /\ pc # "connect"
    BY <1>2 DEF LosePrimary
  <2>2. pc \in {"subscribe", "closing"} => feed' = feed
    BY <1>2 DEF LosePrimary, Sends, Clean
  <2>3. DOMAIN rooms' = DOMAIN rooms /\ (cur = NoGroup => cur' = NoGroup)
        /\ (cur # NoGroup => cur' \in Published)
    BY <2>1, <1>t, DieTyped
  <2>4. Building => cur # NoGroup
    BY PublishedIsSome DEF Clean
  <2>5. QED BY <2>1, <2>2, <2>3, <2>4 DEF Clean, Building
<1>3. ASSUME NEW p \in Others, LoseOther(p) PROVE Clean'
  <2>1. UNCHANGED <<pc, bus, feed, skipped, heard>> /\ Die(p) /\ p \in Players
        /\ pc \notin {"connect", "subscribe"}
    BY <1>3 DEF LoseOther, Clean, Others
  <2>2. fwd = {} => fwd' = {}
    BY <1>3 DEF LoseOther
  <2>3. DOMAIN rooms' = DOMAIN rooms /\ (cur = NoGroup => cur' = NoGroup)
        /\ (cur # NoGroup => cur' \in Published)
    BY <2>1, <1>t, DieTyped
  <2>4. Building => cur # NoGroup
    BY PublishedIsSome DEF Clean
  <2>5. QED BY <2>1, <2>2, <2>3, <2>4 DEF Clean, Building
<1>4. CASE PushStale
  BY <1>4 DEF PushStale, StalePushes, Clean, Building, loopVars
<1>5. CASE ForwardPrimary
  <2>1. UNCHANGED <<pc, rooms, skipped, fwd, pool, heard, cur>>
        /\ pc \notin {"connect", "subscribe", "closing"}
    BY <1>5 DEF ForwardPrimary, Clean, NoFeed, loopVars
  <2>2. QED BY <2>1 DEF Clean, Building
<1>6. ASSUME NEW f \in fwd, ForwardLost(f) PROVE Clean'
  <2>1. UNCHANGED <<pc, rooms, skipped, pool, feed, heard, cur>>
        /\ pc \notin {"connect", "subscribe", "closing"}
    BY <1>6 DEF ForwardLost, Clean, loopVars
  <2>2. QED BY <2>1 DEF Clean, Building
<1>7. CASE Connect
  BY <1>7, <1>t DEF Connect, Clean, Building, wireVars
<1>8. CASE Subscribe
  BY <1>8 DEF Subscribe, Clean, Building
<1>9. ASSUME NEW g \in todo, ReachCoordinator(g) PROVE Clean'
  <2>1. heard' = heard
    BY <1>9 DEF ReachCoordinator
  <2>2. QED BY <2>1, <1>9, TakenGroup DEF Clean, Building
<1>10. CASE Seed
  BY <1>10 DEF Seed, Clean, Building
<1>11. ASSUME NEW p \in left, ReachMember(p) PROVE Clean'
  BY <1>11 DEF ReachMember, Clean, Building
<1>12. CASE PublishRoom
  BY <1>12 DEF PublishRoom, Clean, Building
<1>13. CASE PublishDone
  BY <1>13 DEF PublishDone, Clean, Building
<1>14. CASE HandleLost \/ GroupsUnchanged \/ GroupsChanged
  <2>1. bus \in Seq(Events) /\ bus # <<>> /\ pc = "select"
    BY <1>14 DEF HandleLost, GroupsUnchanged, GroupsChanged, Receive, TypeOK
  <2>2. Head(bus) # LOST => Head(bus) \in Topologies
    BY <2>1, Taking DEF Events
  <2>3. QED BY <2>1, <2>2, <1>14 DEF HandleLost, GroupsUnchanged, GroupsChanged, NoFeed, Clean, Building
<1>16. CASE Rewire
  BY <1>16 DEF Rewire, Clean, Building
<1>17. CASE HearRestart
  BY <1>17 DEF HearRestart, Clean, Building
<1>18. CASE Teardown
  BY <1>18, Empty DEF Teardown, Clean, Building
<1>19. QED BY <1>1, <1>2, <1>3, <1>4, <1>5, <1>6, <1>7, <1>8, <1>9, <1>10, <1>11, <1>12, <1>13,
             <1>14, <1>16, <1>17, <1>18 DEF Next

-----------------------------------------------------------------------------
(* Which groups are where.                                                 *)

LEMMA SkippedMore ==
    ASSUME NEW g, NEW p, skipped' = skipped \cup {Skipped(g, p)}
    PROVE  SkippedGroups' = SkippedGroups \cup {g}
<1>1. Skipped(g, p).group = g
  BY DEF Skipped
<1>2. ASSUME NEW x PROVE x \in SkippedGroups' <=> x \in SkippedGroups \cup {g}
  <2>1. x \in SkippedGroups' <=> \E s \in skipped \cup {Skipped(g, p)} : x = s.group
    BY DEF SkippedGroups
  <2>2. QED BY <2>1, <1>1 DEF SkippedGroups
<1>3. QED BY <1>2, Zenon

LEMMA ShapeStep ==
    ASSUME TypeOK, Clean, Shape, Next
    PROVE  Shape'
<1>t. Primary \in Players
  BY PlayersAssumption
<1>1. CASE \/ \E t \in Topologies : Regroup(t)
           \/ PushStale \/ ForwardPrimary
           \/ \E f \in fwd : ForwardLost(f)
  <2>1. UNCHANGED <<pc, rooms, skipped, todo, heard, cur, left>>
    BY <1>1 DEF Regroup, PushStale, ForwardPrimary, ForwardLost, loopVars
  <2>2. QED BY <2>1 DEF Shape, Wiring, Building, SkippedGroups
<1>2. ASSUME NEW p \in Players, Die(p), UNCHANGED <<pc, heard, todo, left, skipped>>
      PROVE  Shape'
  <2>1. /\ DOMAIN rooms' = DOMAIN rooms
        /\ \A g \in DOMAIN rooms : /\ rooms'[g].coord = rooms[g].coord
                                   /\ rooms'[g].members = rooms[g].members
        /\ cur # NoGroup => /\ cur'.group = cur.group /\ cur'.coord = cur.coord
                            /\ cur'.members = cur.members
    BY <1>2, DieTyped
  <2>2. Building => cur # NoGroup
    BY PublishedIsSome DEF Clean
  <2>3. QED BY <2>1, <2>2, <1>2 DEF Shape, Wiring, Building, SkippedGroups
<1>3. CASE LosePrimary
  BY <1>2, <1>3, <1>t DEF LosePrimary
<1>4. ASSUME NEW p \in Others, LoseOther(p) PROVE Shape'
  BY <1>2, <1>4 DEF LoseOther, Others
<1>5. CASE Connect
  BY <1>5 DEF Connect, Shape, Wiring, Building, SkippedGroups
<1>6. CASE Subscribe
  <2>1. DOMAIN rooms = {} /\ skipped = {} /\ UNCHANGED <<rooms, skipped, heard, cur, left>>
    BY <1>6 DEF Subscribe, Clean
  <2>2. CASE primary
    BY <2>1, <2>2, <1>6 DEF Subscribe, Shape, Wiring, Building, SkippedGroups
  <2>3. CASE ~primary
    BY <2>1, <2>3, <1>6 DEF Subscribe, Shape, Wiring, Building, SkippedGroups
  <2>4. QED BY <2>2, <2>3
<1>7. ASSUME NEW g \in todo, ReachCoordinator(g) PROVE Shape'
  <2>1. UNCHANGED <<rooms, heard, left>> /\ todo' = todo \ {g}
    BY <1>7 DEF ReachCoordinator
  <2>2. pc = "publish" /\ g \in DOMAIN heard
    BY <1>7, TakenGroup
  <2>3. CASE pc' = "seed"
    <3>1. /\ skipped' = skipped /\ cur'.group = g
          /\ cur'.coord = heard[g].coord /\ cur'.members = heard[g].members
      BY <2>3, <1>7, TakenGroup
    <3>2. g \notin SkippedGroups /\ g \notin DOMAIN rooms
      BY <2>2 DEF Shape, Wiring, SkippedGroups
    <3>3. QED BY <2>1, <2>2, <2>3, <3>1, <3>2 DEF Shape, Wiring, Building, SkippedGroups
  <2>4. CASE pc' = "publish"
    <3>1. skipped' = skipped \cup {Skipped(g, heard[g].coord)}
      BY <2>4, <1>7, TakenGroup
    <3>2. SkippedGroups' = SkippedGroups \cup {g}
      BY <3>1, SkippedMore
    <3>3. g \notin DOMAIN rooms
      BY <2>2 DEF Shape, Wiring
    <3>4. \A s \in skipped' : s.group \in DOMAIN heard \ todo' /\ s.coord = heard[s.group].coord
      BY <3>1, <2>1, <2>2 DEF Shape, Wiring, Skipped
    <3>5. QED BY <2>1, <2>2, <2>4, <3>2, <3>3, <3>4 DEF Shape, Wiring, Building
  <2>5. QED BY <2>3, <2>4, <1>7, TakenGroup
<1>8. CASE Seed
  <2>1. pc = "seed" /\ UNCHANGED <<rooms, heard, todo>>
    BY <1>8 DEF Seed
  <2>2. CASE pc' = "members"
    BY <2>1, <2>2, <1>8 DEF Seed, Shape, Wiring, Building, SkippedGroups
  <2>3. CASE pc' = "publish"
    <3>1. skipped' = skipped \cup {Skipped(cur.group, cur.coord)}
      BY <2>3, <1>8 DEF Seed
    <3>2. SkippedGroups' = SkippedGroups \cup {cur.group}
      BY <3>1, SkippedMore
    <3>3. \A s \in skipped' : s.group \in DOMAIN heard \ todo /\ s.coord = heard[s.group].coord
      BY <3>1, <2>1 DEF Shape, Wiring, Building, Skipped
    <3>4. QED BY <2>1, <2>3, <3>2, <3>3 DEF Shape, Wiring, Building
  <2>4. QED BY <2>2, <2>3, <1>8 DEF Seed
<1>9. ASSUME NEW p \in left, ReachMember(p) PROVE Shape'
  BY <1>9 DEF ReachMember, Shape, Wiring, Building, SkippedGroups
<1>10. CASE PublishRoom
  <2>1. pc = "members" /\ pc' = "publish" /\ UNCHANGED <<heard, todo, skipped>>
    BY <1>10 DEF PublishRoom
  <2>2. /\ DOMAIN rooms' = DOMAIN rooms \cup {cur.group}
        /\ \A g \in DOMAIN rooms' :
              rooms'[g] = IF g = cur.group THEN Room(cur, cur.live) ELSE rooms[g]
    BY <1>10 DEF PublishRoom
  <2>3. Room(cur, cur.live).coord = cur.coord /\ Room(cur, cur.live).members = cur.members
    BY DEF Room
  <2>4. SkippedGroups' = SkippedGroups
    BY <2>1 DEF SkippedGroups
  <2>5. QED BY <2>1, <2>2, <2>3, <2>4 DEF Shape, Wiring, Building
<1>11. CASE PublishDone
  <2>1. pc = "publish" /\ pc' \in {"select", "down"} /\ todo = {}
        /\ UNCHANGED <<heard, rooms, todo, cur, left, skipped>>
    BY <1>11 DEF PublishDone
  <2>2. QED BY <2>1 DEF Shape, Wiring, Building, SkippedGroups
<1>12. CASE HandleLost \/ GroupsChanged \/ HearRestart
  <2>1. pc' \in {"down", "closing"} /\ UNCHANGED <<rooms, skipped>>
    BY <1>12 DEF HandleLost, GroupsChanged, HearRestart
  <2>2. QED BY <2>1 DEF Shape, Wiring, Building, SkippedGroups
<1>13. CASE GroupsUnchanged
  <2>1. pc = "select" /\ UNCHANGED <<pc, rooms, todo, cur, left, skipped>>
        /\ DOMAIN rooms = DOMAIN heard'
        /\ \A g \in DOMAIN heard' : rooms[g].coord = heard'[g].coord /\ rooms[g].members = heard'[g].members
    BY <1>13 DEF GroupsUnchanged, Receive, SameTopology
  <2>2. QED BY <2>1 DEF Shape, Wiring, Building, SkippedGroups
<1>14. CASE Rewire
  <2>1. pc' = "publish" /\ DOMAIN rooms' = {} /\ skipped' = {} /\ todo' = DOMAIN heard /\ heard' = heard
    BY <1>14, Empty DEF Rewire
  <2>2. QED BY <2>1 DEF Shape, Wiring, Building, SkippedGroups
<1>15. CASE Teardown
  <2>1. pc' = "connect" /\ DOMAIN rooms' = {} /\ skipped' = {}
    BY <1>15, Empty DEF Teardown
  <2>2. QED BY <2>1 DEF Shape, Wiring, Building, SkippedGroups
<1>16. QED BY <1>1, <1>3, <1>4, <1>5, <1>6, <1>7, <1>8, <1>9, <1>10, <1>11, <1>12, <1>13, <1>14,
              <1>15 DEF Next

-----------------------------------------------------------------------------
(* The coordinators yet to be reached.                                     *)

\* A coordinator is a member of its own group and of no other.
LEMMA OneGroupEach ==
    ASSUME heard \in Topologies, NEW g \in DOMAIN heard, NEW h \in DOMAIN heard, g # h
    PROVE  /\ heard[g].coord \notin heard[h].members
           /\ heard[g].coord # heard[h].coord
BY TopologiesAssumption

\* Reaching a player touches no other one's socket or forwarder.
LEMMA ReachChanges ==
    ASSUME TypeOK, NEW p, NEW loss, Reached(p, loss) \/ NotReached(p)
    PROVE  /\ \A q \in Others : q # p => pool'[q] = pool[q]
           /\ fwd \subseteq fwd'
           /\ fwd' \subseteq fwd \cup {Forwarder(p, loss)}
BY DEF Reached, NotReached, TypeOK

LEMMA UnreachedStep ==
    ASSUME TypeOK, Clean, Shape, Unreached, Next
    PROVE  Unreached'
<1>1. CASE \/ \E t \in Topologies : Regroup(t)
           \/ LosePrimary \/ PushStale \/ ForwardPrimary \/ Seed \/ PublishRoom \/ PublishDone
           \/ \E f \in fwd : ForwardLost(f)
  <2>1. UNCHANGED <<todo, heard, pool>> /\ (Wiring' => Wiring)
    BY <1>1 DEF Regroup, LosePrimary, PushStale, ForwardPrimary, ForwardLost, Seed, PublishRoom,
                PublishDone, loopVars, wireVars, Wiring
  <2>2. QED BY <2>1 DEF Unreached
<1>2. ASSUME NEW p \in Others, LoseOther(p) PROVE Unreached'
  <2>1. UNCHANGED <<pc, todo, heard>> /\ \A q \in Others : pool'[q] \in {pool[q], "dead"}
    BY <1>2 DEF LoseOther, TypeOK
  <2>2. QED BY <2>1 DEF Unreached, Wiring
<1>3. CASE Subscribe \/ Rewire
  <2>1. \A q \in Others : pool'[q] # "up"
    BY <1>3 DEF Subscribe, Rewire, Clean, Emptied
  <2>2. QED BY <2>1 DEF Unreached
<1>4. ASSUME NEW g \in todo, ReachCoordinator(g) PROVE Unreached'
  <2>1. /\ pc = "publish" /\ heard \in Topologies /\ g \in DOMAIN heard
        /\ Reached(heard[g].coord, "fatal") \/ NotReached(heard[g].coord)
    BY <1>4, TakenGroup
  <2>2. todo' = todo \ {g} /\ heard' = heard /\ todo \subseteq DOMAIN heard
    BY <1>4, <2>1 DEF ReachCoordinator, Shape, Wiring
  <2>3. ASSUME NEW h \in todo', heard[h].coord \in Others PROVE pool'[heard[h].coord] # "up"
    <3>1. heard[h].coord # heard[g].coord
      BY <2>1, <2>2, OneGroupEach
    <3>2. pool'[heard[h].coord] = pool[heard[h].coord]
      BY <3>1, <2>1, <2>3, ReachChanges
    <3>3. QED BY <3>2, <2>1, <2>2, <2>3 DEF Unreached, Wiring
  <2>4. QED BY <2>2, <2>3 DEF Unreached
<1>5. ASSUME NEW p \in left, ReachMember(p) PROVE Unreached'
  <2>1. /\ pc = "members" /\ UNCHANGED <<pc, todo, heard>>
        /\ Reached(p, "tolerated") \/ NotReached(p)
    BY <1>5 DEF ReachMember
  <2>2. /\ heard \in Topologies /\ todo \subseteq DOMAIN heard
        /\ cur.group \in DOMAIN heard \ todo /\ p \in heard[cur.group].members
    BY <2>1, <1>5 DEF Shape, Clean, Wiring, Building
  <2>3. ASSUME NEW h \in todo, heard[h].coord \in Others PROVE pool'[heard[h].coord] # "up"
    <3>1. heard[h].coord # p
      BY <2>2, OneGroupEach
    <3>2. pool'[heard[h].coord] = pool[heard[h].coord]
      BY <3>1, <2>1, <2>3, ReachChanges
    <3>3. QED BY <3>2, <2>1, <2>3 DEF Unreached, Wiring
  <2>4. QED BY <2>1, <2>3 DEF Unreached
<1>6. CASE Connect \/ HandleLost \/ GroupsUnchanged \/ GroupsChanged \/ HearRestart \/ Teardown
  <2>1. ~Wiring'
    BY <1>6 DEF Connect, HandleLost, GroupsUnchanged, GroupsChanged, Receive, HearRestart, Teardown,
                Wiring
  <2>2. QED BY <2>1 DEF Unreached
<1>7. QED BY <1>1, <1>2, <1>3, <1>4, <1>5, <1>6 DEF Next

-----------------------------------------------------------------------------
(* The loss of the primary, and the household's snapshots.                 *)

LEMMA Single == \A e : Contains(<<topo>>, e) <=> e = topo
BY DEF Contains

\* The steps that pass no event on.
Silent ==
    /\ UNCHANGED <<topo, primary, feed, bus, dropped, heard>>
    /\ pc' = pc \/ (Wiring /\ (Wiring' \/ pc' \in {"select", "down"}))

LEMMA SilentSteps ==
    ASSUME \/ \E p \in Others : LoseOther(p)
           \/ PushStale
           \/ \E g \in todo : ReachCoordinator(g)
           \/ Seed
           \/ \E p \in left : ReachMember(p)
           \/ PublishRoom \/ PublishDone
    PROVE  Silent
BY DEF LoseOther, PushStale, StalePushes, ReachCoordinator, Seed, ReachMember, PublishRoom,
       PublishDone, Silent, Wiring, envVars, wireVars, loopVars

\* An event sent is unread, or its kind is dropped.
LEMMA SendsAdds ==
    ASSUME QueueTypes, NEW e \in Events, Sends(e)
    PROVE  /\ \A x : Contains(feed'.unread, x) => Contains(feed.unread, x) \/ x = e
           /\ \A x : Contains(feed.unread, x) => Contains(feed'.unread, x)
           /\ dropped \subseteq dropped' /\ feed'.on = feed.on
           /\ IF feed.on THEN Contains(feed'.unread, e) /\ Latest(feed'.unread, e)
              ELSE Kind(e) \in dropped'
<1>1. CASE feed.on
  <2>1. feed' = [feed EXCEPT !.unread = Append(feed.unread, e)] /\ dropped' = dropped
    BY <1>1 DEF Sends
  <2>2. feed'.unread = Append(feed.unread, e) /\ feed'.on = feed.on /\ feed.unread \in Seq(Events)
    BY <2>1 DEF QueueTypes
  <2>3. /\ \A x : Contains(feed'.unread, x) <=> Contains(feed.unread, x) \/ x = e
        /\ Latest(feed'.unread, e)
    BY <2>2, Appending
  <2>4. QED BY <1>1, <2>1, <2>2, <2>3
<1>2. CASE ~feed.on
  BY <1>2 DEF Sends
<1>3. QED BY <1>1, <1>2

LEMMA PrimaryStep ==
    ASSUME TypeOK, Clean, PrimaryKnown, Next
    PROVE  PrimaryKnown'
<1>t. /\ QueueTypes /\ LOST \in Events /\ Topologies \subseteq Events
      /\ \A t \in Topologies : t # LOST
      /\ topo \in Topologies
  BY LostAssumption DEF TypeOK, QueueTypes, Events
<1>1. ASSUME NEW t \in Topologies, Regroup(t) PROVE PrimaryKnown'
  <2>1. UNCHANGED <<pc, primary, bus>> /\ dropped \subseteq dropped'
    BY <1>1 DEF Regroup, Sends, loopVars
  <2>2. Contains(feed'.unread, LOST) <=> Contains(feed.unread, LOST)
    <3>1. CASE Sends(t)
      BY <3>1, <1>t, SendsAdds
    <3>2. CASE UNCHANGED feed
      BY <3>2
    <3>3. QED BY <3>1, <3>2, <1>1 DEF Regroup
  <2>3. QED BY <2>1, <2>2 DEF PrimaryKnown, Subscribed
<1>2. CASE LosePrimary
  <2>1. ~primary' /\ pc' = pc
    BY <1>2 DEF LosePrimary
  <2>2. CASE pc = "subscribe"
    BY <2>1, <2>2 DEF PrimaryKnown, Subscribed
  <2>3. CASE pc # "subscribe"
    <3>1. Sends(LOST)
      BY <2>3, <1>2 DEF LosePrimary
    <3>2. Contains(feed'.unread, LOST) \/ "lost" \in dropped'
      BY <3>1, <1>t, SendsAdds DEF Kind
    <3>3. QED BY <2>1, <3>2 DEF PrimaryKnown
  <2>4. QED BY <2>2, <2>3
<1>3. CASE Silent
  BY <1>3 DEF Silent, PrimaryKnown, Subscribed, Wiring
<1>4. CASE ForwardPrimary
  <2>1. /\ feed.unread \in Seq(Events) /\ feed.unread # <<>> /\ bus \in Seq(Events)
        /\ bus' = Append(bus, Head(feed.unread)) /\ UNCHANGED <<pc, primary, dropped>>
        /\ feed'.unread = IF Head(feed.unread) = LOST THEN <<>> ELSE Tail(feed.unread)
    BY <1>4, <1>t DEF ForwardPrimary, PrimaryLoss, QueueTypes, envVars, loopVars
  <2>2. /\ Contains(feed.unread, LOST) <=> Head(feed.unread) = LOST \/ Contains(Tail(feed.unread), LOST)
        /\ Head(feed.unread) \in Events
    BY <2>1, Taking
  <2>3. Contains(bus', LOST) <=> Contains(bus, LOST) \/ LOST = Head(feed.unread)
    BY <2>1, <2>2, Appending
  <2>4. Contains(feed'.unread, LOST) => Contains(feed.unread, LOST)
    BY <2>1, <2>2, Empty
  <2>5. Contains(feed.unread, LOST) => Contains(feed'.unread, LOST) \/ Contains(bus', LOST)
    BY <2>1, <2>2, <2>3
  <2>6. QED BY <2>1, <2>3, <2>4, <2>5 DEF PrimaryKnown, Subscribed
<1>5. ASSUME NEW f \in fwd, ForwardLost(f) PROVE PrimaryKnown'
  <2>1. UNCHANGED <<pc, primary, dropped, feed>> /\ (Contains(bus, LOST) => Contains(bus', LOST))
    BY <1>5, <1>t, Appending DEF ForwardLost, QueueTypes, envVars, loopVars
  <2>2. QED BY <2>1 DEF PrimaryKnown, Subscribed
<1>6. CASE Connect
  BY <1>6, Empty DEF Connect, PrimaryKnown, Subscribed, Clean, NoFeed, wireVars
<1>7. CASE Subscribe
  <2>1. CASE primary
    <3>1. feed'.unread = <<topo>> /\ primary'
      BY <2>1, <1>7 DEF Subscribe, Snapshot, envVars
    <3>2. QED BY <3>1, <1>t, Single DEF PrimaryKnown
  <2>2. CASE ~primary
    BY <2>2, <1>7 DEF Subscribe, PrimaryKnown, Subscribed, envVars
  <2>3. QED BY <2>1, <2>2
<1>8. CASE HandleLost \/ HearRestart
  BY <1>8 DEF HandleLost, HearRestart, PrimaryKnown, Subscribed, envVars, wireVars
<1>9. CASE GroupsUnchanged \/ GroupsChanged
  <2>1. bus \in Seq(Events) /\ bus # <<>> /\ bus' = Tail(bus) /\ Head(bus) # LOST /\ pc = "select"
        /\ primary' = primary
    BY <1>9, <1>t DEF GroupsUnchanged, GroupsChanged, Receive, QueueTypes, envVars
  <2>2. Contains(bus, LOST) => Contains(bus', LOST)
    BY <2>1, Taking
  <2>3. CASE GroupsUnchanged
    BY <2>1, <2>2, <2>3 DEF GroupsUnchanged, PrimaryKnown, Subscribed
  <2>4. CASE GroupsChanged
    <3>1. dropped \subseteq dropped' /\ (Contains(feed.unread, LOST) => "lost" \in dropped')
      BY <2>4, <1>t, KindsAre DEF GroupsChanged, QueueTypes
    <3>2. ~Contains(feed'.unread, LOST)
      BY <2>4, Empty DEF GroupsChanged, NoFeed
    <3>3. QED BY <2>1, <2>2, <3>1, <3>2 DEF PrimaryKnown, Subscribed
  <2>5. QED BY <1>9, <2>3, <2>4
<1>10. CASE Rewire
  <2>1. dropped \subseteq dropped' /\ (Contains(bus, LOST) => "lost" \in dropped')
    BY <1>10, <1>t, KindsAre DEF Rewire, QueueTypes
  <2>2. ~Contains(feed'.unread, LOST) /\ ~Contains(feed.unread, LOST)
    BY <1>10, Empty DEF Rewire, NewFeed, Clean
  <2>3. QED BY <2>1, <2>2, <1>10 DEF Rewire, PrimaryKnown, Subscribed, envVars
<1>11. CASE Teardown
  BY <1>11, Empty DEF Teardown, PrimaryKnown, Subscribed, NoFeed
<1>12. QED BY <1>1, <1>2, <1>3, <1>4, <1>5, <1>6, <1>7, <1>8, <1>9, <1>10, <1>11, SilentSteps DEF Next

LEMMA UpToDateStep ==
    ASSUME TypeOK, Clean, PrimaryKnown, UpToDate, Next
    PROVE  UpToDate'
<1> DEFINE Live == pc \notin {"connect", "subscribe", "down"} /\ primary /\ "groups" \notin dropped
<1>t. /\ QueueTypes /\ LOST \in Events /\ Topologies \subseteq Events
      /\ \A t \in Topologies : t # LOST
      /\ topo \in Topologies
  BY LostAssumption DEF TypeOK, QueueTypes, Events
<1>1. ASSUME NEW t \in Topologies, Regroup(t) PROVE UpToDate'
  <2> SUFFICES ASSUME Live' PROVE (pc' # "closing" => feed'.on) /\ Latest(feed'.unread, topo')
    BY DEF UpToDate
  <2>1. UNCHANGED <<pc, primary>> /\ Sends(t) /\ topo' = t
    BY <1>1 DEF Regroup, loopVars, Subscribed
  <2>2. feed.on
    BY <2>1, <1>t, SendsAdds DEF Kind
  <2>3. QED BY <2>1, <2>2, <1>t, SendsAdds
<1>2. CASE LosePrimary \/ Connect \/ HandleLost \/ HearRestart \/ Teardown
  <2>1. ~Live'
    BY <1>2 DEF LosePrimary, Connect, HandleLost, HearRestart, Teardown
  <2>2. QED BY <2>1 DEF UpToDate
<1>3. CASE Silent
  BY <1>3 DEF Silent, UpToDate, Wiring
<1>4. CASE ForwardPrimary
  <2> SUFFICES ASSUME Live' PROVE UpToDate'
    BY DEF UpToDate
  <2>1. /\ feed.unread \in Seq(Events) /\ feed.unread # <<>> /\ bus \in Seq(Events)
        /\ bus' = Append(bus, Head(feed.unread)) /\ UNCHANGED <<pc, primary, dropped, topo, heard>>
        /\ feed.on
    BY <1>4, <1>t DEF ForwardPrimary, PrimaryLoss, QueueTypes, envVars, loopVars
  <2>2. Head(feed.unread) # LOST /\ Head(feed.unread) \in Events
    BY <2>1, Taking DEF PrimaryKnown
  <2>3. feed'.unread = Tail(feed.unread) /\ feed'.on
    BY <2>1, <2>2, <1>4, <1>t DEF ForwardPrimary, QueueTypes
  <2>4. Latest(feed.unread, topo)
    BY <2>1, <2>2, Taking DEF UpToDate
  <2>5. CASE Latest(Tail(feed.unread), topo)
    BY <2>1, <2>3, <2>5 DEF UpToDate
  <2>6. CASE Head(feed.unread) = topo /\ OnlyLost(Tail(feed.unread))
    <3>1. Latest(bus', topo)
      BY <2>1, <2>2, <2>6, Appending
    <3>2. QED BY <3>1, <2>1, <2>3, <2>6 DEF UpToDate
  <2>7. QED BY <2>1, <2>4, <2>5, <2>6, Taking
<1>5. ASSUME NEW f \in fwd, ForwardLost(f) PROVE UpToDate'
  <2>1. UNCHANGED <<pc, primary, dropped, feed, topo, heard>> /\ bus' \in {bus, Append(bus, LOST)}
    BY <1>5 DEF ForwardLost, envVars, loopVars
  <2>2. (Latest(bus, topo) => Latest(bus', topo)) /\ (OnlyLost(bus) => OnlyLost(bus'))
    BY <2>1, <1>t, Appending DEF QueueTypes
  <2>3. QED BY <2>1, <2>2 DEF UpToDate
<1>6. CASE Subscribe
  <2> SUFFICES ASSUME Live' PROVE UpToDate'
    BY DEF UpToDate
  <2>1. feed' = Snapshot /\ topo' = topo
    BY <1>6 DEF Subscribe, envVars
  <2>2. feed'.on /\ feed'.unread = <<topo>>
    BY <2>1 DEF Snapshot
  <2>3. Latest(<<topo>>, topo)
    BY DEF Latest
  <2>4. QED BY <2>1, <2>2, <2>3 DEF UpToDate
<1>7. CASE GroupsUnchanged \/ GroupsChanged
  <2> SUFFICES ASSUME Live' PROVE UpToDate'
    BY DEF UpToDate
  <2>1. /\ bus \in Seq(Events) /\ bus # <<>> /\ bus' = Tail(bus) /\ Head(bus) # LOST
        /\ pc = "select" /\ UNCHANGED <<topo, primary>> /\ heard' = Head(bus)
        /\ dropped \subseteq dropped'
    BY <1>7, <1>t DEF GroupsUnchanged, GroupsChanged, Receive, QueueTypes, envVars
  <2>2. UpToDate /\ Live
    BY <2>1
  <2>3. Latest(bus, topo) => Latest(bus', topo) \/ (heard' = topo /\ OnlyLost(bus'))
    BY <2>1, Taking
  <2>4. ~OnlyLost(bus)
    BY <2>1, Taking
  <2>5. CASE GroupsUnchanged
    <3>1. feed' = feed /\ pc' = pc
      BY <2>5 DEF GroupsUnchanged
    <3>2. QED BY <2>1, <2>2, <2>3, <2>4, <3>1 DEF UpToDate
  <2>6. CASE GroupsChanged
    <3>1. pc' = "closing" /\ feed'.unread = <<>> /\ dropped' = dropped \cup Kinds(feed.unread)
      BY <2>6 DEF GroupsChanged, NoFeed
    <3>2. OnlyLost(feed.unread) /\ OnlyLost(feed'.unread)
      BY <3>1, <1>t, KindsAre, Empty DEF QueueTypes
    <3>3. ~Latest(feed.unread, topo)
      BY <3>2, <1>t, LatestIsASnapshot DEF QueueTypes
    <3>4. QED BY <2>1, <2>2, <2>3, <2>4, <3>1, <3>2, <3>3 DEF UpToDate
  <2>7. QED BY <1>7, <2>5, <2>6
<1>8. CASE Rewire
  <2> SUFFICES ASSUME Live' PROVE UpToDate'
    BY DEF UpToDate
  <2>1. /\ pc = "closing" /\ UNCHANGED <<topo, primary, heard>> /\ bus' = <<>>
        /\ dropped' = dropped \cup Kinds(bus) /\ feed' = NewFeed
        /\ feed.unread = <<>>
    BY <1>8 DEF Rewire, Clean, envVars
  <2>2. OnlyLost(bus) /\ ~Latest(bus, topo) /\ ~Latest(feed.unread, topo)
    BY <2>1, <1>t, KindsAre, LatestIsASnapshot, Empty DEF QueueTypes
  <2>3. heard = topo
    BY <2>1, <2>2 DEF UpToDate
  <2>4. feed'.on /\ feed'.unread = <<>>
    BY <2>1 DEF NewFeed
  <2>5. QED BY <2>1, <2>3, <2>4, Empty DEF UpToDate
<1>9. QED BY <1>1, <1>2, <1>3, <1>4, <1>5, <1>6, <1>7, <1>8, SilentSteps DEF Next

\* With nothing left to hear, what is published is what there is.
LEMMA SettledFollows ==
    ASSUME Clean, Shape, UpToDate
    PROVE  SettledIsPublished
<1> SUFFICES ASSUME Quiet, primary, "groups" \notin dropped PROVE RoomsMatch
  BY DEF SettledIsPublished
<1>1. heard = topo /\ pc = "select"
  BY Empty DEF UpToDate, Quiet
<1>2. /\ DOMAIN rooms = DOMAIN heard \ SkippedGroups
      /\ \A g \in DOMAIN rooms : rooms[g].coord = heard[g].coord /\ rooms[g].members = heard[g].members
  BY <1>1 DEF Shape
<1>3. QED BY <1>1, <1>2 DEF RoomsMatch, SkippedGroups

-----------------------------------------------------------------------------
(* The rooms' sockets.                                                     *)

LEMMA OthersAre == TypeOK => /\ Primary \notin Others /\ Others \subseteq Players
                            /\ \A q \in Players : q # Primary => q \in Others
                            /\ \A f \in fwd : f.player \in Others
BY DEF TypeOK, Others

\* What is reported stays so while no forwarder on fatal terms goes, unless it
\* has told the loop.
LEMMA StillReported ==
    ASSUME NEW r, NEW up, NEW b, NEW fs, NEW q, NEW up2, NEW b2, NEW fs2,
           Reported(r, up, b, fs), q.coord = r.coord, q.live = r.live,
           up2 => up, Contains(b, LOST) => Contains(b2, LOST),
           \A f \in fs : f.loss = "fatal" => (f \in fs2 \/ (f.lost /\ Contains(b2, LOST)))
    PROVE  Reported(q, up2, b2, fs2)
<1>1. FatalForwarder(fs, r.coord, FALSE) => FatalForwarder(fs2, r.coord, FALSE)
  BY DEF FatalForwarder
<1>2. FatalForwarder(fs, r.coord, TRUE) => FatalForwarder(fs2, r.coord, TRUE) \/ Contains(b2, LOST)
  BY DEF FatalForwarder
<1>3. QED BY <1>1, <1>2 DEF Reported

LEMMA ReportedStep ==
    ASSUME TypeOK, Clean, Shape, Unreached, RoomsReported, Next
    PROVE  RoomsReported'
<1> DEFINE Still == /\ primary' => primary
                    /\ Contains(bus, LOST) => Contains(bus', LOST)
                    /\ \A f \in fwd : f.loss = "fatal" => (f \in fwd' \/ (f.lost /\ Contains(bus', LOST)))
           Some == Wiring \/ pc = "select"
<1>t. /\ bus \in Seq(Events) /\ feed.unread \in Seq(Events) /\ LOST \in Events
      /\ Primary \in Players
  BY PlayersAssumption DEF TypeOK, Events
<1>1. ASSUME Still, UNCHANGED <<rooms, cur, pool>>, Some' => Some, Building' => Building,
             pc' = "seed" => pc = "seed"
      PROVE  RoomsReported'
  <2>1. \A g \in DOMAIN rooms : Reported(rooms[g], primary, bus, fwd) => Reported(rooms[g], primary', bus', fwd')
    BY <1>1, StillReported
  <2>2. Reported(cur, primary, bus, fwd) => Reported(cur, primary', bus', fwd')
    BY <1>1, StillReported
  <2>3. QED BY <2>1, <2>2, <1>1 DEF RoomsReported, Wiring
<1>2. CASE \/ \E t \in Topologies : Regroup(t)
           \/ PushStale \/ PublishDone
  <2>1. UNCHANGED <<primary, bus, fwd, rooms, cur, pool>> /\ (Some' => Some) /\ (Building' => Building)
        /\ (pc' = "seed" => pc = "seed")
    BY <1>2 DEF Regroup, PushStale, StalePushes, PublishDone, envVars, wireVars, loopVars, Wiring, Building
  <2>2. QED BY <2>1, <1>1
<1>3. CASE ForwardPrimary
  <2>1. UNCHANGED <<primary, fwd, rooms, cur, pool, pc>> /\ bus' = Append(bus, Head(feed.unread))
        /\ feed.unread # <<>>
    BY <1>3 DEF ForwardPrimary, PrimaryLoss, envVars, loopVars
  <2>2. Contains(bus, LOST) => Contains(bus', LOST)
    BY <2>1, <1>t, Appending, Taking
  <2>3. QED BY <2>1, <2>2, <1>1 DEF Wiring, Building
<1>4. ASSUME NEW f \in fwd, ForwardLost(f) PROVE RoomsReported'
  <2>1. UNCHANGED <<primary, rooms, cur, pool, pc>> /\ fwd' = fwd \ {f} /\ f.lost
        /\ bus' = IF f.loss = "fatal" THEN Append(bus, LOST) ELSE bus
    BY <1>4 DEF ForwardLost, Fatal, envVars, loopVars
  <2>2. /\ Contains(bus, LOST) => Contains(bus', LOST)
        /\ f.loss = "fatal" => Contains(bus', LOST)
    BY <2>1, <1>t, Appending
  <2>3. QED BY <2>1, <2>2, <1>1 DEF Wiring, Building
<1>5. CASE GroupsUnchanged
  <2>1. UNCHANGED <<primary, fwd, rooms, cur, pool, pc>> /\ bus # <<>> /\ bus' = Tail(bus)
        /\ Head(bus) # LOST
    BY <1>5 DEF GroupsUnchanged, Receive, envVars
  <2>2. Contains(bus, LOST) => Contains(bus', LOST)
    BY <2>1, <1>t, Taking
  <2>3. QED BY <2>1, <2>2, <1>1 DEF Wiring, Building
<1>6. CASE LosePrimary
  <2>1. Die(Primary) /\ ~primary' /\ UNCHANGED <<bus, fwd, pool, pc>>
    BY <1>6 DEF LosePrimary
  <2>2. ASSUME NEW r, NEW q, Reported(r, primary, bus, fwd), q.coord = r.coord,
               q.live = (r.live /\ r.coord # Primary)
        PROVE  Reported(q, primary', bus', fwd')
    BY <2>1, <2>2 DEF Reported, FatalForwarder
  <2>3. /\ DOMAIN rooms' = DOMAIN rooms
        /\ \A g \in DOMAIN rooms : Reported(rooms[g], primary, bus, fwd) => Reported(rooms'[g], primary', bus', fwd')
    BY <2>1, <2>2, <1>t, DieTyped
  <2>4. Building => Reported(cur', primary', bus', fwd') /\ cur'.coord = cur.coord
                    /\ cur'.live = (cur.live /\ cur.coord # Primary)
    BY <2>1, <2>2, <1>t, DieTyped, PublishedIsSome DEF RoomsReported, Clean
  <2>5. QED BY <2>1, <2>3, <2>4 DEF RoomsReported, Wiring, Building
<1>7. ASSUME NEW p \in Others, LoseOther(p) PROVE RoomsReported'
  <2>1. /\ Die(p) /\ p \in Players /\ p # Primary /\ UNCHANGED <<primary, bus, pc>>
        /\ pool' = [pool EXCEPT ![p] = "dead"]
        /\ fwd' = {IF f.player = p THEN [f EXCEPT !.lost = TRUE] ELSE f : f \in fwd}
    BY <1>7 DEF LoseOther, Others
  <2>2. ASSUME NEW q, q # p, NEW lost
        PROVE  FatalForwarder(fwd, q, lost) => FatalForwarder(fwd', q, lost)
    BY <2>1, <2>2 DEF FatalForwarder
  <2>3. ASSUME NEW lost, FatalForwarder(fwd, p, lost)
        PROVE  FatalForwarder(fwd', p, TRUE)
    <3>1. PICK f \in fwd : f.player = p /\ f.loss = "fatal"
      BY <2>3 DEF FatalForwarder
    <3>2. [f EXCEPT !.lost = TRUE] \in fwd'
      BY <2>1, <3>1
    <3>3. f \in [player : Others, loss : {"fatal", "tolerated"}, lost : BOOLEAN]
      BY DEF TypeOK
    <3>4. [f EXCEPT !.lost = TRUE].player = p /\ [f EXCEPT !.lost = TRUE].loss = "fatal"
          /\ [f EXCEPT !.lost = TRUE].lost = TRUE
      BY <3>1, <3>3
    <3>5. QED BY <3>2, <3>4 DEF FatalForwarder
  <2>4. ASSUME NEW r, NEW q, Reported(r, primary, bus, fwd), q.coord = r.coord, q.live = (r.live /\ r.coord # p)
        PROVE  Reported(q, primary', bus', fwd')
    <3>1. CASE r.coord = p
      BY <3>1, <2>1, <2>3, <2>4 DEF Reported
    <3>2. CASE r.coord # p
      BY <3>2, <2>1, <2>2, <2>4 DEF Reported
    <3>3. QED BY <3>1, <3>2
  <2>5. /\ DOMAIN rooms' = DOMAIN rooms
        /\ \A g \in DOMAIN rooms : Reported(rooms[g], primary, bus, fwd) => Reported(rooms'[g], primary', bus', fwd')
    BY <2>1, <2>4, DieTyped
  <2>6. Building => Reported(cur', primary', bus', fwd') /\ cur'.coord = cur.coord
                    /\ cur'.live = (cur.live /\ cur.coord # p)
    BY <2>1, <2>4, DieTyped, PublishedIsSome DEF RoomsReported, Clean
  <2>7. \A q \in Others : pool[q] = "dead" \/ q = p => pool'[q] = "dead"
    BY <2>1 DEF TypeOK
  <2>8. Building => cur.coord \in Players
    BY DEF Clean, Published
  <2>9. QED BY <2>1, <2>5, <2>6, <2>7, <2>8, OthersAre DEF RoomsReported, Wiring, Building
<1>8. ASSUME NEW g \in todo, ReachCoordinator(g) PROVE RoomsReported'
  <2> DEFINE p == heard[g].coord
  <2>1. /\ pc = "publish" /\ p \in Players /\ (Reached(p, "fatal") \/ NotReached(p))
        /\ UNCHANGED <<primary, bus, rooms>>
    BY <1>8, TakenGroup DEF ReachCoordinator, envVars
  <2>2. fwd \subseteq fwd'
    BY <2>1, ReachChanges
  <2>3. \A h \in DOMAIN rooms : Reported(rooms'[h], primary', bus', fwd')
    BY <2>1, <2>2, StillReported DEF RoomsReported, Wiring
  <2>4. CASE pc' = "publish"
    BY <2>1, <2>3, <2>4 DEF RoomsReported, Wiring, Building
  <2>5. CASE pc' = "seed"
    <3>1. cur'.coord = p /\ cur'.live = (p # Primary \/ primary) /\ Reached(p, "fatal")
      BY <2>5, <1>8, TakenGroup
    <3>2. CASE p = Primary
      BY <2>1, <2>3, <2>5, <3>1, <3>2 DEF RoomsReported, Reported
    <3>3. CASE p # Primary
      <4>1. p \in Others /\ pool[p] # "up"
        BY <2>1, <3>3, OthersAre DEF Unreached, Wiring
      <4>2. Forwarder(p, "fatal") \in fwd'
        BY <3>1, <4>1, OthersAre DEF Reached
      <4>3. FatalForwarder(fwd', p, FALSE)
        BY <4>2 DEF FatalForwarder, Forwarder
      <4>4. Reported(cur', primary', bus', fwd')
        BY <3>1, <3>3, <4>3 DEF Reported
      <4>5. QED BY <2>1, <2>3, <3>1, <3>3, <4>4 DEF RoomsReported
    <3>4. QED BY <3>2, <3>3
  <2>6. QED BY <2>4, <2>5, <1>8, TakenGroup
<1>9. CASE Seed
  <2>1. UNCHANGED <<primary, bus, fwd, pool, rooms>> /\ pc = "seed" /\ pc' \in {"members", "publish"}
        /\ (pc' = "members" => cur' = cur)
    BY <1>9 DEF Seed, envVars, wireVars
  <2>2. /\ \A g \in DOMAIN rooms : Reported(rooms[g], primary', bus', fwd')
        /\ Reported(cur, primary', bus', fwd')
    BY <2>1, StillReported DEF RoomsReported, Wiring, Building
  <2>3. QED BY <2>1, <2>2 DEF RoomsReported, Building
<1>10. ASSUME NEW p \in left, ReachMember(p) PROVE RoomsReported'
  <2>1. UNCHANGED <<primary, bus, rooms, cur, pc>> /\ pc = "members"
        /\ (Reached(p, "tolerated") \/ NotReached(p))
    BY <1>10 DEF ReachMember, envVars
  <2>2. fwd \subseteq fwd'
    BY <2>1, ReachChanges
  <2>3. /\ \A g \in DOMAIN rooms : Reported(rooms[g], primary', bus', fwd')
        /\ Reported(cur, primary', bus', fwd')
    BY <2>1, <2>2, StillReported DEF RoomsReported, Wiring, Building
  <2>4. QED BY <2>1, <2>3 DEF RoomsReported
<1>11. CASE PublishRoom
  <2>1. UNCHANGED <<primary, bus, fwd, pool>> /\ pc = "members" /\ pc' = "publish"
        /\ DOMAIN rooms' = DOMAIN rooms \cup {cur.group}
        /\ \A g \in DOMAIN rooms' :
              rooms'[g] = IF g = cur.group THEN Room(cur, cur.live) ELSE rooms[g]
    BY <1>11 DEF PublishRoom, envVars, wireVars
  <2>2. /\ \A g \in DOMAIN rooms : Reported(rooms[g], primary, bus, fwd)
        /\ Reported(Room(cur, cur.live), primary, bus, fwd)
    BY <2>1, StillReported DEF RoomsReported, Wiring, Building, Room
  <2>3. \A g \in DOMAIN rooms' : Reported(rooms'[g], primary', bus', fwd')
    BY <2>1, <2>2, StillReported
  <2>4. QED BY <2>1, <2>3 DEF RoomsReported, Building
<1>12. CASE Connect \/ Subscribe \/ HandleLost \/ GroupsChanged \/ Rewire \/ HearRestart \/ Teardown
  <2>1. (pc' \in {"connect", "subscribe", "closing", "down"}) \/ (pc' = "publish" /\ DOMAIN rooms' = {})
    BY <1>12, Empty DEF Connect, Subscribe, HandleLost, GroupsChanged, Rewire, HearRestart, Teardown,
                        Clean
  <2>2. QED BY <2>1 DEF RoomsReported, Wiring, Building
<1>13. QED BY <1>2, <1>3, <1>4, <1>5, <1>6, <1>7, <1>8, <1>9, <1>10, <1>11, <1>12 DEF Next

-----------------------------------------------------------------------------
(* The forwarders on fatal terms.                                          *)

\* Nobody reaches a player whose group was given up.
LEMMA SkippedUntouched ==
    ASSUME TypeOK, Clean, Shape,
           \/ \E g \in todo : ReachCoordinator(g)
           \/ \E p \in left : ReachMember(p)
    PROVE  \A s \in skipped : s.coord \in Others => pool'[s.coord] = pool[s.coord]
<1>1. ASSUME NEW g \in todo, ReachCoordinator(g), NEW s \in skipped, s.coord \in Others
      PROVE  pool'[s.coord] = pool[s.coord]
  <2>1. /\ pc = "publish" /\ heard \in Topologies /\ g \in DOMAIN heard
        /\ (Reached(heard[g].coord, "fatal") \/ NotReached(heard[g].coord))
    BY <1>1, TakenGroup
  <2>2. s.group \in DOMAIN heard /\ s.group # g /\ s.coord = heard[s.group].coord
    BY <1>1, <2>1 DEF Shape, Wiring
  <2>3. s.coord # heard[g].coord
    BY <2>1, <2>2, OneGroupEach
  <2>4. QED BY <2>1, <2>3, <1>1, ReachChanges
<1>2. ASSUME NEW p \in left, ReachMember(p), NEW s \in skipped, s.coord \in Others
      PROVE  pool'[s.coord] = pool[s.coord]
  <2>1. pc = "members" /\ (Reached(p, "tolerated") \/ NotReached(p))
    BY <1>2 DEF ReachMember
  <2>2. /\ heard \in Topologies /\ cur.group \in DOMAIN heard /\ cur.group \notin SkippedGroups
        /\ p \in heard[cur.group].members
        /\ s.group \in DOMAIN heard /\ s.coord = heard[s.group].coord
    BY <2>1, <1>2 DEF Shape, Clean, Wiring, Building
  <2>3. s.group # cur.group
    BY <2>2 DEF SkippedGroups
  <2>4. s.coord # p
    BY <2>2, <2>3, OneGroupEach
  <2>5. QED BY <2>1, <2>4, <1>2, ReachChanges
<1>3. QED BY <1>1, <1>2

LEMMA StandStep ==
    ASSUME TypeOK, Clean, Shape, RoomsReported, ForwardersStand, Next
    PROVE  ForwardersStand'
<1>t. Primary \in Players /\ \A f \in fwd : f.player \in Others /\ f.player # Primary
  <2>1. Primary \in Players /\ \A q \in Others : q # Primary
    BY PlayersAssumption DEF Others
  <2>2. \A f \in fwd : f.player \in Others
    BY DEF TypeOK
  <2>3. QED BY <2>1, <2>2
<1>1. ASSUME fwd' \subseteq fwd, UNCHANGED <<rooms, cur, skipped, pool>>, Building' <=> Building
      PROVE  ForwardersStand'
  BY <1>1 DEF ForwardersStand, Stands
<1>2. CASE \/ \E t \in Topologies : Regroup(t)
           \/ PushStale \/ ForwardPrimary \/ PublishDone \/ HandleLost \/ GroupsUnchanged \/ HearRestart
           \/ \E f \in fwd : ForwardLost(f)
  <2>1. fwd' \subseteq fwd /\ UNCHANGED <<rooms, cur, skipped, pool>> /\ (Building' <=> Building)
    BY <1>2 DEF Regroup, PushStale, ForwardPrimary, PublishDone, HandleLost, GroupsUnchanged, Receive,
                HearRestart, ForwardLost, envVars, wireVars, loopVars, Building
  <2>2. QED BY <2>1, <1>1
<1>3. CASE Connect \/ Subscribe \/ GroupsChanged \/ Rewire \/ Teardown
  <2>1. fwd' = {}
    BY <1>3 DEF Connect, Subscribe, GroupsChanged, Rewire, Teardown, Clean, wireVars
  <2>2. QED BY <2>1 DEF ForwardersStand
<1>4. ASSUME NEW p \in Players, Die(p), UNCHANGED <<pc, skipped>>, NEW f \in fwd, f.loss = "fatal"
      PROVE  \/ \E g \in DOMAIN rooms' : /\ rooms'[g].coord = f.player
                                         /\ (f.lost \/ f.player = p) => ~rooms'[g].live
             \/ /\ Building' /\ cur'.coord = f.player
                /\ (f.lost \/ f.player = p) => ~cur'.live
             \/ \E s \in skipped' : s.coord = f.player /\ (f.lost => pool[f.player] = "dead")
  <2>1. Stands(f.player, f.lost)
    BY <1>4 DEF ForwardersStand
  <2>2. CASE \E g \in DOMAIN rooms : rooms[g].coord = f.player /\ (f.lost => ~rooms[g].live)
    <3>1. PICK g \in DOMAIN rooms : rooms[g].coord = f.player /\ (f.lost => ~rooms[g].live)
      BY <2>2
    <3>2. g \in DOMAIN rooms' /\ rooms'[g].coord = rooms[g].coord
          /\ rooms'[g].live = (rooms[g].live /\ rooms[g].coord # p)
      BY <3>1, <1>4, DieTyped
    <3>3. QED BY <3>1, <3>2
  <2>3. CASE Building /\ cur.coord = f.player /\ (f.lost => ~cur.live)
    <3>1. cur'.coord = cur.coord /\ cur'.live = (cur.live /\ cur.coord # p)
      BY <2>3, <1>4, DieTyped, PublishedIsSome DEF Clean
    <3>2. QED BY <2>3, <3>1, <1>4 DEF Building
  <2>4. CASE \E s \in skipped : s.coord = f.player /\ (f.lost => pool[f.player] = "dead")
    BY <2>4, <1>4
  <2>5. QED BY <2>1, <2>2, <2>3, <2>4 DEF Stands
<1>5. CASE LosePrimary
  <2>1. Die(Primary) /\ UNCHANGED <<pc, skipped, fwd, pool>>
    BY <1>5 DEF LosePrimary
  <2>2. ASSUME NEW f \in fwd', f.loss = "fatal" PROVE Stands(f.player, f.lost)'
    BY <2>1, <2>2, <1>4, <1>t DEF Stands
  <2>3. QED BY <2>2 DEF ForwardersStand
<1>6. ASSUME NEW p \in Others, LoseOther(p) PROVE ForwardersStand'
  <2>1. /\ Die(p) /\ p \in Players /\ UNCHANGED <<pc, skipped>>
        /\ pool' = [pool EXCEPT ![p] = "dead"]
        /\ fwd' = {IF f.player = p THEN [f EXCEPT !.lost = TRUE] ELSE f : f \in fwd}
    BY <1>6 DEF LoseOther, Others
  <2>2. pool'[p] = "dead" /\ \A q : q # p => pool'[q] = pool[q]
    BY <2>1 DEF TypeOK
  <2>3. ASSUME NEW e \in fwd', e.loss = "fatal" PROVE Stands(e.player, e.lost)'
    <3>1. PICK f \in fwd : e = IF f.player = p THEN [f EXCEPT !.lost = TRUE] ELSE f
      BY <2>1, <2>3
    <3>2. f \in [player : Others, loss : {"fatal", "tolerated"}, lost : BOOLEAN]
      BY DEF TypeOK
    <3>3. e.player = f.player /\ e.loss = f.loss /\ e.lost = (f.lost \/ f.player = p)
      BY <3>1, <3>2
    <3>4. \/ \E g \in DOMAIN rooms' : rooms'[g].coord = e.player /\ (e.lost => ~rooms'[g].live)
          \/ Building' /\ cur'.coord = e.player /\ (e.lost => ~cur'.live)
          \/ \E s \in skipped' : s.coord = e.player /\ (f.lost => pool[e.player] = "dead")
      BY <3>3, <2>1, <2>3, <1>4
    <3>5. CASE \E s \in skipped' : s.coord = e.player /\ (f.lost => pool[e.player] = "dead")
      <4>1. e.lost => pool'[e.player] = "dead"
        BY <3>3, <3>5, <2>2
      <4>2. QED BY <3>5, <4>1 DEF Stands
    <3>6. QED BY <3>4, <3>5 DEF Stands
  <2>4. QED BY <2>3 DEF ForwardersStand
<1>7. ASSUME NEW g \in todo, ReachCoordinator(g) PROVE ForwardersStand'
  <2> DEFINE p == heard[g].coord
  <2>1. /\ pc = "publish" /\ rooms' = rooms /\ skipped \subseteq skipped'
        /\ (Reached(p, "fatal") \/ NotReached(p))
    BY <1>7, TakenGroup DEF ReachCoordinator
  <2>2. \A s \in skipped : s.coord \in Others => pool'[s.coord] = pool[s.coord]
    BY <1>7, SkippedUntouched
  <2>3. ASSUME NEW f \in fwd, f.loss = "fatal" PROVE Stands(f.player, f.lost)'
    BY <2>1, <2>2, <2>3, <1>t DEF ForwardersStand, Stands, Building
  <2>4. CASE pc' = "seed"
    <3>1. cur'.coord = p
      BY <2>4, <1>7, TakenGroup
    <3>2. ASSUME NEW f \in fwd', f \notin fwd PROVE Stands(f.player, f.lost)'
      <4>1. f.player = p /\ f.lost = FALSE
        BY <2>1, <3>2, ReachChanges DEF Forwarder, NotReached
      <4>2. QED BY <4>1, <3>1, <2>4 DEF Stands, Building
    <3>3. QED BY <2>3, <3>2 DEF ForwardersStand
  <2>5. CASE pc' = "publish"
    <3>1. fwd' = fwd
      BY <2>5, <1>7, TakenGroup DEF NotReached
    <3>2. QED BY <2>3, <3>1 DEF ForwardersStand
  <2>6. QED BY <2>4, <2>5, <1>7, TakenGroup
<1>8. CASE Seed
  <2>1. pc = "seed" /\ UNCHANGED <<rooms, fwd, pool>> /\ skipped \subseteq skipped'
        /\ \/ pc' = "members" /\ cur' = cur
           \/ pc' = "publish" /\ Skipped(cur.group, cur.coord) \in skipped'
    BY <1>8 DEF Seed, wireVars
  <2>2. ASSUME NEW f \in fwd, f.loss = "fatal" PROVE Stands(f.player, f.lost)'
    <3>1. Stands(f.player, f.lost) /\ f.player # Primary
      BY <2>2, <1>t DEF ForwardersStand
    <3>2. CASE Building /\ cur.coord = f.player /\ (f.lost => ~cur.live)
      <4>1. f.lost => pool[f.player] = "dead"
        BY <3>1, <3>2, <2>1 DEF RoomsReported
      <4>2. CASE pc' = "members"
        BY <4>2, <3>2, <2>1 DEF Stands, Building
      <4>3. CASE pc' = "publish"
        <5>1. Skipped(cur.group, cur.coord).coord = f.player
          BY <3>2 DEF Skipped
        <5>2. QED BY <5>1, <4>1, <4>3, <2>1 DEF Stands
      <4>4. QED BY <4>2, <4>3, <2>1
    <3>3. CASE ~(Building /\ cur.coord = f.player /\ (f.lost => ~cur.live))
      BY <3>1, <3>3, <2>1 DEF Stands
    <3>4. QED BY <3>2, <3>3
  <2>3. QED BY <2>1, <2>2 DEF ForwardersStand
<1>9. ASSUME NEW p \in left, ReachMember(p) PROVE ForwardersStand'
  <2>1. UNCHANGED <<rooms, cur, skipped, pc>> /\ (Reached(p, "tolerated") \/ NotReached(p))
    BY <1>9 DEF ReachMember
  <2>2. \A s \in skipped : s.coord \in Others => pool'[s.coord] = pool[s.coord]
    BY <1>9, SkippedUntouched
  <2>3. \A f \in fwd' : f.loss = "fatal" => f \in fwd
    BY <2>1, ReachChanges DEF Forwarder
  <2>4. ASSUME NEW f \in fwd, f.loss = "fatal" PROVE Stands(f.player, f.lost)'
    BY <2>1, <2>2, <2>4, <1>t DEF ForwardersStand, Stands, Building
  <2>5. QED BY <2>3, <2>4 DEF ForwardersStand
<1>10. CASE PublishRoom
  <2>1. UNCHANGED <<fwd, pool, skipped>> /\ pc = "members"
        /\ DOMAIN rooms' = DOMAIN rooms \cup {cur.group}
        /\ \A g \in DOMAIN rooms' :
              rooms'[g] = IF g = cur.group THEN Room(cur, cur.live) ELSE rooms[g]
    BY <1>10 DEF PublishRoom, wireVars
  <2>2. cur.group \notin DOMAIN rooms
    BY <2>1 DEF Shape, Building
  <2>3. Room(cur, cur.live).coord = cur.coord /\ Room(cur, cur.live).live = cur.live
    BY DEF Room
  <2>4. ASSUME NEW f \in fwd, f.loss = "fatal" PROVE Stands(f.player, f.lost)'
    <3>1. Stands(f.player, f.lost)
      BY <2>4 DEF ForwardersStand
    <3>2. CASE \E g \in DOMAIN rooms : rooms[g].coord = f.player /\ (f.lost => ~rooms[g].live)
      BY <3>2, <2>1, <2>2 DEF Stands
    <3>3. CASE cur.coord = f.player /\ (f.lost => ~cur.live)
      BY <3>3, <2>1, <2>3 DEF Stands
    <3>4. CASE \E s \in skipped : s.coord = f.player /\ (f.lost => pool[f.player] = "dead")
      BY <3>4, <2>1 DEF Stands
    <3>5. QED BY <3>1, <3>2, <3>3, <3>4 DEF Stands
  <2>5. QED BY <2>1, <2>4 DEF ForwardersStand
<1>11. QED BY <1>2, <1>3, <1>5, <1>6, <1>7, <1>8, <1>9, <1>10 DEF Next

-----------------------------------------------------------------------------
(* LOST on the bus.                                                        *)

LEMMA NoStaleStep ==
    ASSUME TypeOK, Clean, Shape, PrimaryKnown, RoomsReported, ForwardersStand,
           NoStaleTeardown, Next
    PROVE  NoStaleTeardown'
<1>t. /\ bus \in Seq(Events) /\ feed.unread \in Seq(Events) /\ LOST \in Events
      /\ Primary \in Players
  BY PlayersAssumption DEF TypeOK, Events
<1>1. ASSUME FatalSocketDead, UNCHANGED <<rooms, cur, skipped, pool>>, primary' => primary
      PROVE  NoStaleTeardown'
  BY <1>1 DEF FatalSocketDead, NoStaleTeardown
<1>2. CASE \/ \E t \in Topologies : Regroup(t)
           \/ PushStale \/ PublishDone \/ HandleLost \/ GroupsUnchanged \/ HearRestart
  <2>1. /\ UNCHANGED <<primary, rooms, cur, skipped, pool>> /\ (pc = "closing" => pc' = "closing")
        /\ (bus' = bus \/ (bus # <<>> /\ bus' = Tail(bus)))
    BY <1>2 DEF Regroup, PushStale, StalePushes, PublishDone, HandleLost, GroupsUnchanged, HearRestart,
                Receive, envVars, wireVars, loopVars
  <2>2. Contains(bus', LOST) => Contains(bus, LOST)
    BY <2>1, <1>t, Taking
  <2>3. QED BY <2>1, <2>2, <1>1 DEF NoStaleTeardown
<1>3. CASE ForwardPrimary
  <2>1. UNCHANGED <<primary, rooms, cur, skipped, pool, pc>> /\ feed.unread # <<>>
        /\ bus' = Append(bus, Head(feed.unread))
    BY <1>3 DEF ForwardPrimary, PrimaryLoss, envVars, loopVars
  <2>2. Contains(bus', LOST) => Contains(bus, LOST) \/ Contains(feed.unread, LOST)
    BY <2>1, <1>t, Appending, Taking
  <2>3. Contains(feed.unread, LOST) => FatalSocketDead
    BY DEF PrimaryKnown, FatalSocketDead
  <2>4. QED BY <2>1, <2>2, <2>3, <1>1 DEF NoStaleTeardown
<1>4. ASSUME NEW f \in fwd, ForwardLost(f) PROVE NoStaleTeardown'
  <2>1. UNCHANGED <<primary, rooms, cur, skipped, pool, pc>> /\ f.lost
        /\ bus' = IF f.loss = "fatal" THEN Append(bus, LOST) ELSE bus
    BY <1>4 DEF ForwardLost, Fatal, envVars, loopVars
  <2>2. f.player \in Others
    BY DEF TypeOK
  <2>3. f.loss = "fatal" => FatalSocketDead
    BY <2>1, <2>2, PublishedIsSome DEF ForwardersStand, Stands, FatalSocketDead, Clean
  <2>4. QED BY <2>1, <2>3, <1>1 DEF NoStaleTeardown
<1>5. CASE LosePrimary
  BY <1>5 DEF LosePrimary, NoStaleTeardown, FatalSocketDead
<1>6. ASSUME NEW p \in Others, LoseOther(p) PROVE NoStaleTeardown'
  <2>1. /\ Die(p) /\ p \in Players /\ UNCHANGED <<primary, bus, pc, skipped>>
        /\ pool' = [pool EXCEPT ![p] = "dead"]
    BY <1>6 DEF LoseOther, Others
  <2>2. /\ (\E g \in DOMAIN rooms : ~rooms[g].live) => (\E g \in DOMAIN rooms' : ~rooms'[g].live)
        /\ cur # NoGroup /\ ~cur.live => cur' # NoGroup /\ ~cur'.live
    BY <2>1, DieTyped
  <2>3. \A q \in Others : pool[q] = "dead" => pool'[q] = "dead"
    BY <2>1 DEF TypeOK
  <2>4. FatalSocketDead => FatalSocketDead'
    BY <2>1, <2>2, <2>3 DEF FatalSocketDead
  <2>5. QED BY <2>1, <2>4 DEF NoStaleTeardown
<1>7. ASSUME NEW g \in todo, ReachCoordinator(g) PROVE NoStaleTeardown'
  <2>1. cur = NoGroup /\ UNCHANGED <<primary, bus, rooms>> /\ skipped \subseteq skipped' /\ pc # "closing"
    BY <1>7, TakenGroup DEF ReachCoordinator, envVars
  <2>2. \A s \in skipped : s.coord \in Others => pool'[s.coord] = pool[s.coord]
    BY <1>7, SkippedUntouched
  <2>3. QED BY <2>1, <2>2 DEF NoStaleTeardown, FatalSocketDead
<1>8. CASE Seed
  <2>1. pc = "seed" /\ UNCHANGED <<primary, bus, rooms, pool>> /\ skipped \subseteq skipped'
        /\ \/ cur' = cur
           \/ Skipped(cur.group, cur.coord) \in skipped'
    BY <1>8 DEF Seed, envVars, wireVars
  <2>2. Skipped(cur.group, cur.coord).coord = cur.coord
    BY DEF Skipped
  <2>3. cur \in Published
    BY <2>1 DEF Clean, Building
  <2>4. ASSUME ~cur.live PROVE ~primary \/ (cur.coord \in Others /\ pool[cur.coord] = "dead")
    <3>1. CASE cur.coord = Primary
      BY <2>1, <2>4, <3>1 DEF RoomsReported, Building, Reported
    <3>2. CASE cur.coord # Primary
      BY <2>1, <2>3, <2>4, <3>2, OthersAre DEF RoomsReported, Published
    <3>3. QED BY <3>1, <3>2
  <2>5. FatalSocketDead => FatalSocketDead'
    BY <2>1, <2>2, <2>4 DEF FatalSocketDead
  <2>6. QED BY <2>1, <2>5 DEF NoStaleTeardown
<1>9. ASSUME NEW p \in left, ReachMember(p) PROVE NoStaleTeardown'
  <2>1. UNCHANGED <<primary, bus, rooms, cur, skipped, pc>>
    BY <1>9 DEF ReachMember, envVars
  <2>2. \A s \in skipped : s.coord \in Others => pool'[s.coord] = pool[s.coord]
    BY <1>9, SkippedUntouched
  <2>3. QED BY <2>1, <2>2 DEF NoStaleTeardown, FatalSocketDead
<1>10. CASE PublishRoom
  <2>1. /\ UNCHANGED <<primary, bus, pool, skipped>> /\ pc = "members"
        /\ DOMAIN rooms' = DOMAIN rooms \cup {cur.group}
        /\ \A g \in DOMAIN rooms' :
              rooms'[g] = IF g = cur.group THEN Room(cur, cur.live) ELSE rooms[g]
    BY <1>10 DEF PublishRoom, envVars, wireVars
  <2>2. cur.group \notin DOMAIN rooms /\ Room(cur, cur.live).live = cur.live
    BY <2>1 DEF Shape, Building, Room
  <2>3. FatalSocketDead => FatalSocketDead'
    BY <2>1, <2>2 DEF FatalSocketDead
  <2>4. QED BY <2>1, <2>3 DEF NoStaleTeardown
<1>11. CASE Connect \/ Subscribe \/ Rewire \/ Teardown
  <2>1. bus' = <<>>
    BY <1>11 DEF Connect, Subscribe, Rewire, Teardown, Clean, wireVars
  <2>2. QED BY <2>1, Empty DEF NoStaleTeardown
<1>12. CASE GroupsChanged
  BY <1>12 DEF GroupsChanged, NoStaleTeardown
<1>13. QED BY <1>2, <1>3, <1>4, <1>5, <1>6, <1>7, <1>8, <1>9, <1>10, <1>11, <1>12 DEF Next

LEMMA DeadRoomsFollow ==
    ASSUME TypeOK, Clean, PrimaryKnown, RoomsReported
    PROVE  DeadRoomsAreKnown
<1> SUFFICES ASSUME pc \notin {"closing", "down"}, NEW g \in DOMAIN rooms, ~rooms[g].live
             PROVE  LossUnderWay(rooms[g].coord)
  BY DEF DeadRoomsAreKnown
<1>1. Wiring \/ pc = "select"
  BY DEF Clean, TypeOK, Wiring
<1>2. Reported(rooms[g], primary, bus, fwd)
  BY <1>1 DEF RoomsReported
<1>3. CASE rooms[g].coord = Primary
  BY <1>1, <1>2, <1>3 DEF Reported, PrimaryKnown, LossUnderWay, Subscribed, Wiring
<1>4. CASE rooms[g].coord # Primary
  BY <1>2, <1>4 DEF Reported, FatalForwarder, LossUnderWay
<1>5. QED BY <1>3, <1>4

-----------------------------------------------------------------------------
(* The invariant, and what follows from it.                                *)

Inv ==
    /\ TypeOK /\ Clean /\ Shape /\ Unreached
    /\ PrimaryKnown /\ RoomsReported /\ ForwardersStand
    /\ NoStaleTeardown /\ UpToDate

LEMMA InvInit == Init => Inv
<1> SUFFICES ASSUME Init PROVE Inv
  OBVIOUS
<1>1. TypeOK
  <2>1. <<>> \in Seq(Events) /\ DOMAIN NoRooms = {} /\ 0 \in 0..MaxTopo /\ 0 \in 0..MaxLoss
    BY Empty, BoundsAssumption
  <2>2. pool \in [Others -> {"none", "up", "dead"}]
    BY DEF Init
  <2>3. feed \in [on : BOOLEAN, unread : Seq(Events)]
    BY <2>1 DEF Init, NoFeed
  <2>4. QED BY <2>1, <2>2, <2>3 DEF Init, TypeOK
<1>2. Clean
  BY Empty DEF Init, Clean, Building
<1>3. Shape /\ Unreached /\ RoomsReported
  BY Empty DEF Init, Shape, Unreached, RoomsReported, Wiring, Building
<1>4. PrimaryKnown /\ ForwardersStand /\ NoStaleTeardown /\ UpToDate
  BY Empty DEF Init, PrimaryKnown, Subscribed, ForwardersStand, NoStaleTeardown, UpToDate, NoFeed
<1>5. QED BY <1>1, <1>2, <1>3, <1>4 DEF Inv

LEMMA InvStep == Inv /\ [Next]_vars => Inv'
<1> SUFFICES ASSUME Inv, [Next]_vars PROVE Inv'
  OBVIOUS
<1>1. CASE Next
  <2>1. TypeOK' /\ Clean' /\ Shape' /\ Unreached'
    BY <1>1, TypeStep, CleanStep, ShapeStep, UnreachedStep DEF Inv
  <2>2. PrimaryKnown' /\ RoomsReported' /\ ForwardersStand'
    BY <1>1, PrimaryStep, ReportedStep, StandStep DEF Inv
  <2>3. NoStaleTeardown' /\ UpToDate'
    BY <1>1, NoStaleStep, UpToDateStep DEF Inv
  <2>4. QED BY <2>1, <2>2, <2>3 DEF Inv
<1>2. CASE UNCHANGED vars
  <2>1. TypeOK' /\ Clean' /\ Shape' /\ Unreached'
    BY <1>2 DEF Inv, vars, TypeOK, Clean, Shape, Unreached, Wiring, Building, SkippedGroups
  <2>2. PrimaryKnown' /\ RoomsReported' /\ ForwardersStand'
    BY <1>2 DEF Inv, vars, PrimaryKnown, Subscribed, RoomsReported, Wiring, Building, ForwardersStand,
                Stands
  <2>3. NoStaleTeardown' /\ UpToDate'
    BY <1>2 DEF Inv, vars, NoStaleTeardown, FatalSocketDead, UpToDate
  <2>4. QED BY <2>1, <2>2, <2>3 DEF Inv
<1>3. QED BY <1>1, <1>2

LEMMA InvHolds == Spec => []Inv
BY InvInit, InvStep, PTL DEF Spec

\* Every variable keeps its type, however the household regroups and loses
\* its sockets while the loop publishes it.
THEOREM TypeCorrect == Spec => []TypeOK
<1>1. Inv => TypeOK
  BY DEF Inv
<1>2. QED BY <1>1, InvHolds, PTL

\* serve is never torn down for nothing: LOST on the loop's bus means that a
\* socket of this wiring that the household stands on is dead, since a bus is
\* made anew for a wiring and a member's forwarder says nothing.
THEOREM NoTeardownForNothing == Spec => []NoStaleTeardown
<1>1. Inv => NoStaleTeardown
  BY DEF Inv
<1>2. QED BY <1>1, InvHolds, PTL

\* No room stays published on a dead socket unbeknown to the loop: its
\* coordinator was reached on fatal terms, or is the primary.
THEOREM DeadRoomsKnown == Spec => []DeadRoomsAreKnown
<1>1. Inv => DeadRoomsAreKnown
  BY DeadRoomsFollow DEF Inv
<1>2. QED BY <1>1, InvHolds, PTL

\* With nothing left to hear and no groups event dropped at a republish, what
\* follow has published is the household as it is.
THEOREM SettledPublished == Spec => []SettledIsPublished
<1>1. Inv => SettledIsPublished
  BY SettledFollows DEF Inv
<1>2. QED BY <1>1, InvHolds, PTL
=============================================================================

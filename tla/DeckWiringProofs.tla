-------------------------- MODULE DeckWiringProofs --------------------------
(***************************************************************************)
(* Theorems about DeckWiring, for every household: its types, that a group *)
(* counted as wired is subscribed or about to be taken off the list, and   *)
(* that a room which is followed shows what its coordinator has.           *)
(***************************************************************************)
EXTENDS DeckWiring, SequenceTheorems, WellFoundedInduction, TLAPS

-----------------------------------------------------------------------------
(* Types. *)

(* Every change takes a turn of the household, so the versions are bounded. *)
VersionsBounded == \A i \in Items : version[i] + turns <= MaxTurns + 1

(* An item that is under way is at a speaker. *)
AtASpeaker == \A p \in Passes, i \in Items : work[p][i].pc # "off" => work[p][i].ip \in Players

Typed == TypeOK /\ VersionsBounded /\ AtASpeaker

WorkItems == [pc : Pcs, ip : Players \cup {Nobody}, conn : Nat, val : Versions]
Sock == [up : BOOLEAN, epoch : Nat, heard : BOOLEAN, subs : SUBSET Items]
Sockets == [Players -> Sock]

(* A socket that replaces another is a socket. *)
LEMMA ReplacedTyped ==
    ASSUME sock \in Sockets, NEW ip \in Players
    PROVE  /\ Replaced(sock[ip]) \in Sock
           /\ Replaced(sock[ip]).up /\ ~Replaced(sock[ip]).heard /\ Replaced(sock[ip]).subs = {}
<1>1. sock[ip].epoch \in Nat
  BY DEF Sockets, Sock
<1>2. Replaced(sock[ip]) = [up |-> TRUE, epoch |-> sock[ip].epoch + 1, heard |-> FALSE, subs |-> {}]
  BY DEF Replaced
<1>3. QED BY <1>1, <1>2 DEF Sock

(* A new session has the primary's socket alone. *)
LEMMA FollowsTyped ==
    /\ Follows \in Sockets
    /\ \A p \in Players : Follows[p].subs = {} /\ (Follows[p].up <=> p = Primary)
BY DEF Follows, Sockets, Sock, NoSocket

(* A socket that dies leaves a dead socket, and an event or a deaf item. *)
LEMMA DyingTyped ==
    ASSUME Typed, NEW ip \in Players, Dies(ip)
    PROVE  sock' \in Sockets /\ events' \in Seq(Events) /\ deaf' \subseteq Items \X Players
<1>1. sock \in Sockets /\ events \in Seq(Events) /\ deaf \subseteq Items \X Players
  BY DEF Typed, TypeOK, Sockets, Sock
<1>2. sock' \in Sockets
  BY <1>1 DEF Dies, Sockets, Sock
<1>3. LostEvent(ip) \in Events
  BY DEF LostEvent, Events
<1>4. events' = events \/ events' = Append(events, LostEvent(ip))
  BY DEF Dies, Push
<1>5. deaf' = deaf \/ deaf' = deaf \cup (sock[ip].subs \X {ip})
  BY DEF Dies, Push
<1>6. sock[ip].subs \subseteq Items
  BY <1>1 DEF Sockets, Sock
<1>7. deaf' \subseteq Items \X Players
  BY <1>1, <1>5, <1>6
<1>8. QED
  BY <1>1, <1>2, <1>3, <1>4, <1>7, AppendProperties

(* The bound survives a turn that changes no state. *)
LEMMA FewerTurns ==
    ASSUME Typed, turns' \in 0..MaxTurns, turns' <= turns, version' = version
    PROVE  VersionsBounded'
<1>1. \A i \in Items : version[i] \in Nat /\ version[i] + turns <= MaxTurns + 1
  BY DeckAssumption DEF Typed, TypeOK, VersionsBounded, Versions
<1>2. turns \in Nat /\ turns' \in Nat /\ MaxTurns \in Nat
  BY DeckAssumption DEF Typed, TypeOK
<1>3. QED
  BY <1>1, <1>2 DEF VersionsBounded

(* The household and the sockets of a step that leaves the program's channels
   and its loop alone. *)
LEMMA HouseholdTyped ==
    ASSUME Typed, Household PROVE Typed'
<1> USE DeckAssumption
<1>1. CASE Regroup
  <2>1. events' \in Seq(Events)
    <3>1. events \in Seq(Events) /\ Primary \in Players
      BY DEF Typed, TypeOK
    <3>2. PICK t \in Topologies : Push(Primary, {}, TopologyEvent(t))
      BY <1>1 DEF Regroup
    <3>3. TopologyEvent(t) \in Events
      BY <3>1 DEF TopologyEvent, Events
    <3>4. events' = events \/ events' = Append(events, TopologyEvent(t))
      BY <3>2 DEF Push
    <3>5. QED BY <3>1, <3>3, <3>4, AppendProperties
  <2>2. deaf' \subseteq Items \X Players
    BY <1>1 DEF Regroup, Push, Typed, TypeOK
  <2>3. turns' \in 0..MaxTurns /\ turns' <= turns
    BY <1>1 DEF Regroup, TakesTurn, Typed, TypeOK
  <2>4. VersionsBounded'
    BY <1>1, <2>3 DEF Regroup, Typed, TypeOK, VersionsBounded, Versions
  <2>5. world' \in Topologies /\ UNCHANGED <<version, plugged, sock, passVars, wire, loopVars, forwarded, delays>>
    BY <1>1 DEF Regroup
  <2>6. QED
    BY <2>1, <2>2, <2>3, <2>4, <2>5 DEF Typed, TypeOK, AtASpeaker, passVars, loopVars
<1>2. ASSUME NEW i \in Changing, Changes(i) PROVE Typed'
  <2>1. i \in Items /\ Speaks(i) \in Players
    BY <1>2 DEF Changes, Typed, TypeOK, Items
  <2>2. turns' \in 0..MaxTurns /\ turns' = turns - 1
    BY <1>2 DEF Changes, TakesTurn, Typed, TypeOK
  <2>3. version' = [version EXCEPT ![i] = @ + 1]
    BY <1>2 DEF Changes
  <2>4. version' \in [Items -> Versions] /\ VersionsBounded'
    <3>1. version \in [Items -> Versions] /\ turns \in 0..MaxTurns /\ MaxTurns \in Nat
      BY DeckAssumption DEF Typed, TypeOK
    <3>2. \A k \in Items : version[k] \in Nat /\ version[k] + turns <= MaxTurns + 1
      BY <3>1 DEF Typed, VersionsBounded, Versions
    <3>3. \A k \in Items : version'[k] = version[k] + (IF k = i THEN 1 ELSE 0)
      BY <2>1, <2>3, <3>1, <3>2
    <3>4. \A k \in Items : version'[k] \in Nat /\ version'[k] + turns' <= MaxTurns + 1
      BY <2>2, <3>1, <3>2, <3>3
    <3>5. version' = [k \in Items |-> version'[k]]
      BY <2>3, <3>1
    <3>6. \A k \in Items : version'[k] \in Versions
      BY <2>2, <3>1, <3>4 DEF Versions
    <3>7. QED
      BY <3>4, <3>5, <3>6 DEF VersionsBounded
  <2>5. StateEvent(i, Speaks(i), version'[i]) \in Events
    BY <2>1, <2>4 DEF StateEvent, Events
  <2>6. events' = events \/ events' = Append(events, StateEvent(i, Speaks(i), version'[i]))
    BY <1>2 DEF Changes
  <2>7. events' \in Seq(Events)
    <3>1. events \in Seq(Events)
      BY DEF Typed, TypeOK
    <3>2. QED BY <2>5, <2>6, <3>1, AppendProperties
  <2>8. deaf' \subseteq Items \X Players
    BY <1>2, <2>1 DEF Changes, Typed, TypeOK
  <2>9. UNCHANGED <<world, plugged, sock, passVars, wire, loopVars, forwarded, delays>>
    BY <1>2 DEF Changes
  <2>10. QED
    BY <2>2, <2>4, <2>7, <2>8, <2>9 DEF Typed, TypeOK, AtASpeaker, passVars, loopVars
<1>3. ASSUME NEW ip \in Fragile, SocketDies(ip) PROVE Typed'
  <2>1. ip \in Players /\ Dies(ip)
    BY <1>3 DEF SocketDies
  <2>2. turns' \in 0..MaxTurns /\ turns' <= turns
    BY <1>3 DEF SocketDies, TakesTurn, Typed, TypeOK
  <2>3. UNCHANGED <<world, version, plugged, passVars, wire, loopVars, forwarded, delays>>
    BY <1>3 DEF SocketDies
  <2>4. QED
    BY <2>1, <2>2, <2>3, DyingTyped, FewerTurns
    DEF Typed, TypeOK, AtASpeaker, passVars, loopVars, Sockets, Sock
<1>4. ASSUME NEW ip \in Fragile, Unplugged(ip) PROVE Typed'
  <2>1. turns' \in 0..MaxTurns /\ turns' <= turns
    BY <1>4 DEF Unplugged, TakesTurn, Typed, TypeOK
  <2>2. VersionsBounded'
    BY <1>4, <2>1, FewerTurns DEF Unplugged
  <2>3. QED
    BY <1>4, <2>1, <2>2 DEF Unplugged, Typed, TypeOK, AtASpeaker, passVars, loopVars
<1>5. ASSUME NEW ip \in Fragile, LaneReaches(ip) PROVE Typed'
  <2>1. turns' \in 0..MaxTurns /\ turns' <= turns
    BY <1>5 DEF LaneReaches, TakesTurn, Typed, TypeOK
  <2>2. VersionsBounded'
    BY <1>5, <2>1, FewerTurns DEF LaneReaches
  <2>3. sock' \in Sockets
    BY <1>5, ReplacedTyped DEF LaneReaches, Typed, TypeOK, Sockets, Sock
  <2>4. QED
    BY <1>5, <2>1, <2>2, <2>3 DEF LaneReaches, Typed, TypeOK, AtASpeaker, passVars, loopVars, Sockets, Sock
<1>6. QED
  BY <1>1, <1>2, <1>3, <1>4, <1>5 DEF Household

(* The steps that bring a speaker back. *)
LEMMA RecoveryTyped ==
    ASSUME Typed, Recovery PROVE Typed'
<1>1. ASSUME NEW ip \in Players, PingFails(ip) PROVE Typed'
  <2>1. Dies(ip) /\ UNCHANGED <<worldVars, delays, passVars, wire, loopVars, forwarded>>
    BY <1>1 DEF PingFails
  <2>2. QED
    BY <2>1, DyingTyped
    DEF Typed, TypeOK, AtASpeaker, VersionsBounded, worldVars, passVars, loopVars, Sockets, Sock
<1>2. ASSUME NEW ip \in Players, PluggedIn(ip) PROVE Typed'
  BY <1>2 DEF PluggedIn, Typed, TypeOK, AtASpeaker, VersionsBounded, passVars, loopVars
<1>3. QED
  BY <1>1, <1>2 DEF Recovery

-----------------------------------------------------------------------------
(* The program's steps keep the types. *)

(* What a pass is given is an item at a speaker, or none. *)
LEMMA PassOverTyped ==
    ASSUME NEW t \in Topologies, NEW groups, NEW players
    PROVE  /\ PassOver(t, groups, players) \in [Items -> WorkItems]
           /\ \A i \in Items : LET w == PassOver(t, groups, players)[i] IN
                 /\ w.pc \in {"off", "reach"}
                 /\ w.pc # "off" => w.ip \in Players
<1>1. 0 \in Versions
  BY DeckAssumption DEF Versions
<1>2. Off \in WorkItems /\ Off.pc = "off"
  BY <1>1 DEF Off, WorkItems, Pcs
<1>3. \A i \in Items, ip \in Players :
         Item(i, ip) \in WorkItems /\ Item(i, ip).pc = "reach" /\ Item(i, ip).ip = ip
  BY <1>1 DEF Item, WorkItems, Pcs
<1>4. \A i \in UnwiredGroups(t, groups) : t.coord[i] \in Players /\ i \in Items
  BY DeckAssumption DEF UnwiredGroups, Items
<1>5. \A i \in UnwiredPlayers(t, players) : i \in Players /\ i \in Items
  BY DeckAssumption DEF UnwiredPlayers, Items
<1>6. ASSUME NEW i \in Items
      PROVE  LET w == PassOver(t, groups, players)[i] IN
               /\ w \in WorkItems
               /\ w.pc \in {"off", "reach"}
               /\ w.pc # "off" => w.ip \in Players
  <2>1. CASE i \in UnwiredGroups(t, groups)
    <3>1. PassOver(t, groups, players)[i] = Item(i, t.coord[i])
      <4>1. i \notin UnwiredPlayers(t, players)
        BY <2>1, DeckAssumption DEF UnwiredGroups, UnwiredPlayers
      <4>2. QED BY <2>1, <4>1 DEF PassOver
    <3>2. QED BY <3>1, <2>1, <1>3, <1>4
  <2>2. CASE i \notin UnwiredGroups(t, groups) /\ i \in UnwiredPlayers(t, players)
    <3>1. PassOver(t, groups, players)[i] = Item(i, i)
      BY <2>2 DEF PassOver
    <3>2. QED BY <3>1, <2>2, <1>3, <1>5
  <2>3. CASE i \notin UnwiredGroups(t, groups) /\ i \notin UnwiredPlayers(t, players)
    <3>1. PassOver(t, groups, players)[i] = Off
      BY <2>3 DEF PassOver
    <3>2. QED BY <3>1, <1>2
  <2>4. QED BY <2>1, <2>2, <2>3
<1>7. PassOver(t, groups, players) = [i \in Items |-> PassOver(t, groups, players)[i]]
  BY DEF PassOver
<1>8. QED
  BY <1>6, <1>7
(* The passes and their items are of their types. *)
WorkTyped ==
    /\ passOn \in [Passes -> BOOLEAN] /\ failed \in [Passes -> SUBSET Players]
    /\ work \in [Passes -> [Items -> WorkItems]] /\ AtASpeaker
    /\ guards \subseteq [group : Groups, ip : Players]

(* An item that is not under way is an item. *)
LEMMA OffTyped == Off \in WorkItems /\ Off.pc = "off" /\ Nothing \in [Items -> WorkItems]
<1>1. Off \in WorkItems /\ Off.pc = "off"
  BY DeckAssumption DEF Off, WorkItems, Pcs, Versions
<1>2. QED BY <1>1 DEF Nothing

(* An armed guard has its group and a speaker. *)
LEMMA ArmedTyped ==
    ASSUME Typed, NEW p \in Passes
    PROVE  Armed(p) \subseteq [group : Groups, ip : Players]
<1>1. \A g \in Groups : g \in Items
  BY DEF Items
<1>2. \A g \in Groups : work[p][g].pc = "subscribe" => work[p][g].ip \in Players
  BY <1>1 DEF Typed, AtASpeaker
<1>3. QED BY <1>2 DEF Armed

(* What is said of the running and of the aborted pass. *)
LEMMA OfEachPass ==
    ASSUME NEW S, NEW a \in S, NEW b \in S
    PROVE  [running |-> a, aborted |-> b] \in [Passes -> S]
BY DEF Passes

(* A pass that is started has its items, the one before what it is polled for,
   and what was dropped leaves its guards. *)
LEMMA StartTyped ==
    ASSUME Typed, NEW t \in Topologies, NEW groups, NEW players, NEW times \in Nat,
           StartPass(t, groups, players, times)
    PROVE  WorkTyped' /\ delays' \in 0..MaxDelays
<1> USE DEF Passes
<1>1. PICK i \in Items \cup {Nobody} :
        /\ BecomesAborted(i)
        /\ work' = [running |-> PassOver(t, groups, players),
                    aborted |-> [j \in Items |-> IF j = i THEN work["running"][j] ELSE Off]]
        /\ guards' = guards \cup Armed("aborted") \cup {x \in Armed("running") : x.group # i}
        /\ HeldUp(times + Times(i # Nobody))
  BY DEF StartPass
<1>2. work["running"] \in [Items -> WorkItems] /\ failed["running"] \subseteq Players
  BY DEF Typed, TypeOK, WorkItems
<1>3. [j \in Items |-> IF j = i THEN work["running"][j] ELSE Off] \in [Items -> WorkItems]
  BY <1>2, OffTyped
<1>4. work' \in [Passes -> [Items -> WorkItems]]
  BY <1>1, <1>3, PassOverTyped
<1>5. AtASpeaker'
  <2>1. \A j \in Items : work'["running"][j] = PassOver(t, groups, players)[j]
    BY <1>1
  <2>2. \A j \in Items : work'["aborted"][j] = IF j = i THEN work["running"][j] ELSE Off
    BY <1>1
  <2>3. \A j \in Items : work'["aborted"][j].pc # "off" => work'["aborted"][j].ip \in Players
    BY <2>2, OffTyped DEF Typed, AtASpeaker
  <2>4. QED BY <2>1, <2>3, PassOverTyped DEF AtASpeaker
<1>6. passOn' \in [Passes -> BOOLEAN] /\ failed' \in [Passes -> SUBSET Players]
  <2>1. failed' = [running |-> {}, aborted |-> failed["running"]]
    BY <1>1 DEF BecomesAborted
  <2>2. failed' \in [Passes -> SUBSET Players]
    BY <1>2, <2>1
  <2>3. PICK b \in BOOLEAN : passOn' = [running |-> TRUE, aborted |-> b]
    BY <1>1, Zenon DEF BecomesAborted
  <2>4. [running |-> TRUE, aborted |-> b] \in [Passes -> BOOLEAN]
    BY OfEachPass
  <2>5. passOn' \in [Passes -> BOOLEAN]
    BY <2>3, <2>4, Zenon
  <2>6. QED BY <2>2, <2>5
<1>7. guards' \subseteq [group : Groups, ip : Players]
  BY <1>1, ArmedTyped DEF Typed, TypeOK
<1>8. delays' \in 0..MaxDelays
  <2>1. Times(i # Nobody) \in Nat
    BY DEF Times
  <2>2. QED BY <1>1, <2>1, DeckAssumption DEF HeldUp, Typed, TypeOK
<1>9. QED BY <1>4, <1>5, <1>6, <1>7, <1>8 DEF WorkTyped

(* All other items of both passes stay where they are. *)
OthersStay(p, i) ==
    \A q \in Passes, j \in Items : q # p \/ j # i => work'[q][j] = work[q][j]

(* An item that moves on or ends stays an item. *)
LEMMA ItemTyped ==
    ASSUME Typed, NEW p \in Passes, NEW i \in Items, NEW w \in WorkItems,
           w.pc # "off" => w.ip \in Players,
           work' = [work EXCEPT ![p] = [work[p] EXCEPT ![i] = w]]
    PROVE  /\ work' \in [Passes -> [Items -> WorkItems]] /\ AtASpeaker'
           /\ work'[p][i] = w /\ OthersStay(p, i)
<1>1. work \in [Passes -> [Items -> WorkItems]]
  BY DEF Typed, TypeOK, WorkItems
<1>2. work' \in [Passes -> [Items -> WorkItems]] /\ work'[p][i] = w /\ OthersStay(p, i)
  BY <1>1 DEF OthersStay
<1>3. AtASpeaker'
  BY <1>2 DEF OthersStay, Typed, AtASpeaker
<1>4. QED BY <1>2, <1>3

(* An item that ends is off, and no other moves... *)
LEMMA FinishTyped ==
    ASSUME Typed, NEW p \in Passes, NEW i \in Items, Finish(p, i)
    PROVE  /\ work' \in [Passes -> [Items -> WorkItems]] /\ AtASpeaker'
           /\ work'[p][i] = Off /\ OthersStay(p, i)
<1>1. work' = [work EXCEPT ![p] = [work[p] EXCEPT ![i] = Off]]
  BY DEF Finish
<1>2. QED BY <1>1, ItemTyped, OffTyped

(* ... and one that goes on stays at its speaker. *)
LEMMA MoveTyped ==
    ASSUME Typed, NEW p \in Passes, NEW i \in Items, NEW pc \in Pcs, MovesTo(p, i, pc),
           work[p][i].pc # "off"
    PROVE  /\ work' \in [Passes -> [Items -> WorkItems]] /\ AtASpeaker'
           /\ work'[p][i].pc = pc /\ work'[p][i].ip = work[p][i].ip /\ OthersStay(p, i)
<1> DEFINE w == [work[p][i] EXCEPT !.pc = pc]
<1>1. work' = [work EXCEPT ![p] = [work[p] EXCEPT ![i] = w]]
  BY DEF MovesTo
<1>2. work[p][i] \in WorkItems /\ work[p][i].ip \in Players
  BY DEF Typed, TypeOK, WorkItems, AtASpeaker
<1>3. w \in WorkItems /\ w.pc = pc /\ w.ip = work[p][i].ip
  BY <1>2 DEF WorkItems
<1> HIDE DEF w
<1>4. QED BY <1>1, <1>2, <1>3, ItemTyped

(* A connection in hand: the item reads, and the address has a forwarder. *)
LEMMA ForwardingTyped ==
    ASSUME Typed, NEW p \in Passes, NEW i \in Items, work[p][i].pc # "off",
           NEW s \in Sock, Forwarding(p, i, s)
    PROVE  /\ work' \in [Passes -> [Items -> WorkItems]] /\ AtASpeaker'
           /\ work'[p][i].pc = "read" /\ work'[p][i].ip = work[p][i].ip /\ OthersStay(p, i)
           /\ sock' \in Sockets /\ forwarded' \subseteq Players
<1> DEFINE w == [work[p][i] EXCEPT !.pc = "read", !.conn = s.epoch]
<1>1. work' = [work EXCEPT ![p] = [work[p] EXCEPT ![i] = w]]
  BY DEF Forwarding
<1>2. work[p][i] \in WorkItems /\ work[p][i].ip \in Players
  BY DEF Typed, TypeOK, WorkItems, AtASpeaker
<1>3. w \in WorkItems /\ w.pc = "read" /\ w.ip = work[p][i].ip
  BY <1>2 DEF WorkItems, Sock, Pcs
<1> HIDE DEF w
<1>4. [s EXCEPT !.heard = @ \/ work[p][i].ip \notin forwarded] \in Sock
  BY DEF Sock
<1>5. sock' \in Sockets /\ forwarded' \subseteq Players
  BY <1>2, <1>4 DEF Forwarding, Typed, TypeOK, Sockets, Sock
<1>6. QED BY <1>1, <1>2, <1>3, <1>5, ItemTyped

(* The socket Pass::reach has in hand. *)
InHand(ip) == IF sock[ip].up THEN sock[ip] ELSE Replaced(sock[ip])

(* What Reaches and Opens do: the item goes on to open a socket, or it has
   one, its own or a new one in the place of a dead one. *)
LEMMA ReachingTyped ==
    ASSUME Typed, NEW p \in Passes, NEW i \in Items, Reaches(p, i) \/ Opens(p, i)
    PROVE  /\ work' \in [Passes -> [Items -> WorkItems]] /\ AtASpeaker'
           /\ work[p][i].pc \in {"reach", "opening"} /\ work[p][i].ip \in Players
           /\ work'[p][i].pc \in {"read", "opening"} /\ work'[p][i].ip = work[p][i].ip
           /\ OthersStay(p, i)
           /\ sock' \in Sockets /\ forwarded' \subseteq Players
           /\ \/ UNCHANGED <<sock, forwarded>>
              \/ \E s \in {sock[work[p][i].ip], InHand(work[p][i].ip)} : s \in Sock /\ Forwarding(p, i, s)
<1> DEFINE ip == work[p][i].ip
<1>1. work[p][i].pc \in {"reach", "opening"} /\ ip \in Players
  BY DEF Reaches, Opens, At, Typed, AtASpeaker
<1>2. sock[ip] \in Sock /\ InHand(ip) \in Sock
  BY <1>1, ReplacedTyped DEF InHand, Typed, TypeOK, Sockets, Sock
<1>3. CASE Reaches(p, i) /\ ~(sock[ip].up \/ ip = Primary)
  <2>1. MovesTo(p, i, "opening") /\ UNCHANGED <<sock, forwarded>>
    BY <1>3 DEF Reaches
  <2>2. "opening" \in Pcs
    BY DEF Pcs
  <2>3. QED BY <1>1, <2>1, <2>2, MoveTyped DEF Typed, TypeOK, Sockets, Sock
<1>4. CASE Reaches(p, i) /\ (sock[ip].up \/ ip = Primary)
  <2>1. Forwarding(p, i, sock[ip])
    BY <1>4 DEF Reaches
  <2>2. QED BY <1>1, <1>2, <2>1, ForwardingTyped
<1>5. CASE Opens(p, i)
  <2>1. Forwarding(p, i, InHand(ip))
    BY <1>5 DEF Opens, InHand
  <2>2. QED BY <1>1, <1>2, <2>1, ForwardingTyped
<1>6. QED BY <1>3, <1>4, <1>5

(* The reports are reports. *)
LEMMA SentTyped ==
    ASSUME Typed, NEW r \in Reports, Sends(r) PROVE wire' \in Seq(Reports)
BY AppendProperties DEF Sends, Typed, TypeOK
(* One item of a pass. *)
LEMMA PassTyped ==
    ASSUME Typed, NEW p \in Passes, NEW i \in Items, PassStep(p, i) PROVE Typed'
<1> DEFINE ip == work[p][i].ip
<1>1. /\ sock \in Sockets /\ wire \in Seq(Reports) /\ events \in Seq(Events)
      /\ version \in [Items -> Versions] /\ work[p][i] \in WorkItems
      /\ work[p][i].pc # "off" => ip \in Players
      /\ failed \in [Passes -> SUBSET Players]
  <2>1. sock \in Sockets
    BY DEF Typed, TypeOK, Sockets, Sock
  <2>2. work \in [Passes -> [Items -> WorkItems]]
    BY DEF Typed, TypeOK, WorkItems
  <2>3. work[p][i] \in WorkItems
    BY <2>2
  <2>4. work[p][i].pc # "off" => ip \in Players
    BY DEF Typed, AtASpeaker
  <2>5. wire \in Seq(Reports) /\ events \in Seq(Events)
    BY DEF Typed, TypeOK
  <2>6. version \in [Items -> Versions] /\ failed \in [Passes -> SUBSET Players]
    BY DEF Typed, TypeOK
  <2>7. QED BY <2>1, <2>3, <2>4, <2>5, <2>6
<1>2. UNCHANGED <<worldVars, delays, passOn, guards, loopVars>> /\ work[p][i].pc # "off"
  BY DEF PassStep, ProbeFails, Reaches, Opens, OpenFails, Reads, Registers, Subscribes, ItemFails,
         ReadFails, ReportsPlayer, At
<1>3. SUFFICES /\ work' \in [Passes -> [Items -> WorkItems]] /\ AtASpeaker'
               /\ failed' \in [Passes -> SUBSET Players] /\ forwarded' \subseteq Players
               /\ sock' \in Sockets /\ wire' \in Seq(Reports) /\ events' \in Seq(Events)
               /\ deaf' \subseteq Items \X Players
  BY <1>2 DEF Typed, TypeOK, VersionsBounded, worldVars, loopVars, WorkItems, Sockets, Sock
<1>4. failed \in [Passes -> SUBSET Players] /\ forwarded \subseteq Players /\ deaf \subseteq Items \X Players
  BY DEF Typed, TypeOK
<1>5. CASE ProbeFails(p, i)
  <2>1. Finish(p, i) /\ UNCHANGED <<sock, wire, events, deaf, forwarded>>
    BY <1>5 DEF ProbeFails
  <2>2. failed' = [failed EXCEPT ![p] = @ \cup {ip}] /\ ip \in Players
    BY <1>1, <1>2, <1>5 DEF ProbeFails
  <2>3. QED BY <1>1, <1>4, <2>1, <2>2, FinishTyped
<1>6. CASE Reaches(p, i) \/ Opens(p, i)
  <2>1. UNCHANGED <<failed, wire, events, deaf>>
    BY <1>6 DEF Reaches, Opens
  <2>2. QED BY <1>1, <1>4, <1>6, <2>1, ReachingTyped
<1>7. CASE OpenFails(p, i)
  <2>1. Finish(p, i) /\ UNCHANGED <<sock, failed, wire, events, deaf, forwarded>>
    BY <1>7 DEF OpenFails
  <2>2. QED BY <1>1, <1>4, <2>1, FinishTyped
<1>8. CASE Reads(p, i)
  <2> DEFINE w == [work[p][i] EXCEPT !.val = version[i],
                                     !.pc = IF i \in Groups THEN "register" ELSE "subscribe"]
  <2>1. work' = [work EXCEPT ![p] = [work[p] EXCEPT ![i] = w]]
    BY <1>8 DEF Reads
  <2>2. w \in WorkItems /\ w.ip = ip
    BY <1>1 DEF WorkItems, Pcs
  <2> HIDE DEF w
  <2>3. UNCHANGED <<sock, failed, wire, events, deaf, forwarded>>
    BY <1>8 DEF Reads, loopVars
  <2>4. QED BY <1>1, <1>2, <1>4, <2>1, <2>2, <2>3, ItemTyped
<1>9. CASE i \in Groups /\ Registers(p, i)
  <2> DEFINE r == [kind |-> "group", item |-> i, ip |-> ip, val |-> work[p][i].val]
  <2>1. r \in Reports
    BY <1>1, <1>2, <1>9 DEF Reports, WorkItems
  <2>2. Sends(r)
    BY <1>9 DEF Registers
  <2> HIDE DEF r
  <2>3. MovesTo(p, i, "subscribe") /\ "subscribe" \in Pcs
        /\ UNCHANGED <<sock, failed, events, deaf, forwarded>>
    BY <1>9 DEF Registers, Pcs
  <2>4. QED BY <1>1, <1>2, <1>4, <2>1, <2>2, <2>3, MoveTyped, SentTyped
<1>10. CASE Subscribes(p, i)
  <2>1. ip \in Players /\ sock' = [sock EXCEPT ![ip].subs = @ \cup {i}]
    BY <1>1, <1>2, <1>10 DEF Subscribes
  <2>2. sock' \in Sockets
    BY <1>1, <2>1 DEF Sockets, Sock
  <2>3. Finish(p, i) \/ MovesTo(p, i, "report")
    BY <1>10 DEF Subscribes
  <2>4. work' \in [Passes -> [Items -> WorkItems]] /\ AtASpeaker'
    <3>1. "report" \in Pcs
      BY DEF Pcs
    <3>2. QED BY <1>2, <2>3, <3>1, FinishTyped, MoveTyped
  <2>5. events' \in Seq(Events)
    <3>1. StateEvent(i, ip, version[i]) \in Events
      BY <1>1, <2>1 DEF StateEvent, Events
    <3>2. events' = events \/ events' = Append(events, StateEvent(i, ip, version[i]))
      BY <1>10 DEF Subscribes
    <3>3. QED BY <1>1, <3>1, <3>2, AppendProperties
  <2>6. deaf' \subseteq Items \X Players
    BY <1>4, <1>10, <2>1 DEF Subscribes
  <2>7. UNCHANGED <<failed, wire, forwarded>>
    BY <1>10 DEF Subscribes
  <2>8. QED BY <1>1, <1>4, <2>2, <2>4, <2>5, <2>6, <2>7
<1>11. CASE ItemFails(p, i)
  <2>1. Finish(p, i) /\ UNCHANGED <<sock, failed, events, deaf, forwarded>>
    BY <1>11 DEF ItemFails
  <2>2. i \in Groups => FailedUpdate(i, ip) \in Reports
    BY <1>1, <1>2, DeckAssumption DEF FailedUpdate, Reports, Versions
  <2>3. wire' = wire \/ (i \in Groups /\ Sends(FailedUpdate(i, ip)))
    BY <1>11 DEF ItemFails
  <2>4. QED BY <1>1, <1>4, <2>1, <2>2, <2>3, FinishTyped, SentTyped
<1>12. CASE i \in Players /\ ReadFails(p, i)
  <2>1. MovesTo(p, i, "subscribe") /\ "subscribe" \in Pcs
        /\ UNCHANGED <<sock, failed, wire, events, deaf, forwarded>>
    BY <1>12 DEF ReadFails, Pcs
  <2>2. QED BY <1>1, <1>2, <1>4, <2>1, MoveTyped
<1>13. CASE i \in Players /\ ReportsPlayer(p, i)
  <2>1. Finish(p, i) /\ UNCHANGED <<sock, failed, events, deaf, forwarded>>
    BY <1>13 DEF ReportsPlayer
  <2> DEFINE r == [kind |-> "player", item |-> i, ip |-> i, val |-> work[p][i].val]
  <2>2. r \in Reports /\ Sends(r)
    BY <1>1, <1>13 DEF Reports, WorkItems, ReportsPlayer
  <2> HIDE DEF r
  <2>3. QED BY <1>1, <1>4, <2>1, <2>2, FinishTyped, SentTyped
<1>14. QED
  BY <1>5, <1>6, <1>7, <1>8, <1>9, <1>10, <1>11, <1>12, <1>13 DEF PassStep

(* The end of a pass, and the guards of an aborted one. *)
LEMMA PassEndTyped ==
    ASSUME Typed, (\E p \in Passes : PassDone(p)) \/ LastPollEnds \/ GuardDrops PROVE Typed'
<1>1. WorkTyped
  BY DEF Typed, TypeOK, WorkTyped, WorkItems
<1>2. ASSUME NEW p \in Passes, PassDone(p) PROVE Typed'
  <2> DEFINE r == [kind |-> "done", item |-> Nobody, ip |-> Nobody, val |-> 0]
  <2>1. r \in Reports /\ Sends(r)
    BY <1>2 DEF Reports, PassDone
  <2> HIDE DEF r
  <2>2. wire' \in Seq(Reports)
    BY <2>1, SentTyped
  <2>3. passOn' \in [Passes -> BOOLEAN]
    <3>1. passOn' = [passOn EXCEPT ![p] = FALSE] /\ passOn \in [Passes -> BOOLEAN]
      BY <1>1, <1>2 DEF PassDone, WorkTyped
    <3>2. QED BY <3>1, Zenon
  <2>4. failed' \in [Passes -> SUBSET Players]
    BY <1>1, <1>2 DEF PassDone, WorkTyped
  <2>5. UNCHANGED <<worldVars, delays, sock, work, guards, events, deaf, loopVars, forwarded>>
    BY <1>2 DEF PassDone
  <2>6. QED
    BY <2>2, <2>3, <2>4, <2>5 DEF Typed, TypeOK, AtASpeaker, VersionsBounded, worldVars, loopVars
<1>3. CASE LastPollEnds
  <2>1. /\ passOn' = [passOn EXCEPT !["aborted"] = FALSE]
        /\ work' = [work EXCEPT !["aborted"] = Nothing]
        /\ failed' = [failed EXCEPT !["aborted"] = {}]
        /\ guards' = guards \cup Armed("aborted")
        /\ UNCHANGED <<worldVars, delays, sock, wire, events, deaf, loopVars, forwarded>>
    BY <1>3 DEF LastPollEnds
  <2>2. "aborted" \in Passes
    BY DEF Passes
  <2>3. passOn' \in [Passes -> BOOLEAN]
    <3>1. passOn \in [Passes -> BOOLEAN]
      BY <1>1 DEF WorkTyped
    <3>2. QED BY <2>1, <3>1, Zenon
  <2>4. failed' \in [Passes -> SUBSET Players] /\ work' \in [Passes -> [Items -> WorkItems]]
    BY <1>1, <2>1, OffTyped DEF WorkTyped
  <2>5. AtASpeaker'
    <3>1. \A q \in Passes, j \in Items : work'[q][j] = IF q = "aborted" THEN Off ELSE work[q][j]
      BY <1>1, <2>1 DEF WorkTyped, Nothing
    <3>2. QED BY <3>1, OffTyped DEF Typed, AtASpeaker
  <2>6. guards' \subseteq [group : Groups, ip : Players]
    BY <1>1, <2>1, <2>2, ArmedTyped DEF WorkTyped
  <2>7. QED
    BY <2>1, <2>3, <2>4, <2>5, <2>6 DEF Typed, TypeOK, VersionsBounded, worldVars, loopVars, WorkItems
<1>4. CASE GuardDrops
  <2>1. PICK x \in guards : guards' = guards \ {x} /\ Sends(FailedUpdate(x.group, x.ip))
    BY <1>4 DEF GuardDrops
  <2>2. FailedUpdate(x.group, x.ip) \in Reports
    BY DeckAssumption DEF FailedUpdate, Reports, Versions, Typed, TypeOK
  <2>3. wire' \in Seq(Reports) /\ guards' \subseteq [group : Groups, ip : Players]
    BY <1>1, <2>1, <2>2, SentTyped DEF WorkTyped
  <2>4. UNCHANGED <<worldVars, delays, sock, passOn, work, failed, events, deaf, loopVars, forwarded>>
    BY <1>4 DEF GuardDrops
  <2>5. QED
    BY <2>3, <2>4 DEF Typed, TypeOK, AtASpeaker, VersionsBounded, worldVars, loopVars
<1>5. QED BY <1>2, <1>3, <1>4

-----------------------------------------------------------------------------
(* The reports that wait, one taken in after the other. *)

(* What holds of 0 and passes from each number to the next holds of all. *)
LEMMA Counting ==
    ASSUME NEW S, 0 \in S, \A n \in Nat : n \in S => n + 1 \in S
    PROVE  Nat \subseteq S
<1> SUFFICES ASSUME Nat \ S # {} PROVE FALSE
  OBVIOUS
<1>1. PICK m \in Nat \ S : \A k \in Nat \ S : <<k, m>> \notin OpToRel(<, Nat)
  BY WFMin, NatLessThanWellFounded, Zenon
<1>2. \A k \in Nat \ S : ~(k < m)
  <2>1. m \in Nat
    OBVIOUS
  <2>2. \A k \in Nat \ S : ~(k < m)
    BY <1>1, <2>1, Zenon DEF OpToRel
  <2>3. QED BY <2>2
<1>3. m # 0 /\ m - 1 \in Nat /\ m - 1 < m
  OBVIOUS
<1>4. m - 1 \in S
  BY <1>2, <1>3
<1>5. QED BY <1>3, <1>4

(* The wiring and the retry as TakeReports finds them. *)
Base == [groups |-> regGroups, players |-> regPlayers, known |-> known, running |-> retry.running]
Takes(f, k) == f = [n \in 0..k |-> IF n = 0 THEN Base ELSE Wired(f[n - 1], wire[n])]

(* For every number of reports there is what they come to... *)
LEMMA SomeTaken == \A k \in Nat : \E f : Takes(f, k)
<1> DEFINE S == {k \in Nat : \E f : Takes(f, k)}
<1>1. 0 \in S
  <2>1. Takes([n \in 0..0 |-> Base], 0)
    <3>1. [n \in 0..0 |-> Base] = [n \in 0..0 |-> IF n = 0 THEN Base ELSE Wired([m \in 0..0 |-> Base][n - 1], wire[n])]
      OBVIOUS
    <3>2. QED BY <3>1 DEF Takes
  <2>2. QED BY <2>1
<1>2. ASSUME NEW k \in Nat, k \in S PROVE k + 1 \in S
  <2>1. PICK f : Takes(f, k)
    BY <1>2
  <2> DEFINE g == [n \in 0..(k + 1) |-> IF n = k + 1 THEN Wired(f[k], wire[k + 1]) ELSE f[n]]
  <2>2. \A n \in 0..k : f[n] = IF n = 0 THEN Base ELSE Wired(f[n - 1], wire[n])
    BY <2>1 DEF Takes
  <2>3. ASSUME NEW n \in 0..(k + 1)
        PROVE  g[n] = IF n = 0 THEN Base ELSE Wired(g[n - 1], wire[n])
    <3>1. CASE n = k + 1
      <4>1. g[n - 1] = f[k] /\ n # 0
        BY <3>1
      <4>2. QED BY <3>1, <4>1
    <3>2. CASE n # k + 1
      <4>1. n \in 0..k /\ g[n] = f[n]
        BY <3>2
      <4>2. CASE n = 0
        BY <4>1, <4>2, <2>2
      <4>3. CASE n # 0
        <5>1. g[n - 1] = f[n - 1]
          BY <4>1, <4>3
        <5>2. QED BY <4>1, <4>3, <2>2, <5>1
      <4>4. QED BY <4>2, <4>3
    <3>3. QED BY <3>1, <3>2
  <2>4. g = [n \in 0..(k + 1) |-> g[n]]
    OBVIOUS
  <2> HIDE DEF g
  <2>5. Takes(g, k + 1)
    BY <2>3, <2>4 DEF Takes
  <2>6. QED BY <2>5
<1> HIDE DEF S
<1>3. Nat \subseteq S
  BY <1>1, <1>2, Counting
<1>4. QED BY <1>3 DEF S

(* ... and After is it. *)
LEMMA AfterTakes ==
    ASSUME Len(wire) \in Nat
    PROVE  Takes(After, Len(wire))
<1>1. PICK f : Takes(f, Len(wire))
  BY SomeTaken
<1>2. \E t : t = [n \in 0..Len(wire) |->
    IF n = 0 THEN [groups |-> regGroups, players |-> regPlayers, known |-> known,
                   running |-> retry.running]
    ELSE Wired(t[n - 1], wire[n])]
  BY <1>1 DEF Takes, Base
<1>3. QED BY <1>2 DEF After, Takes, Base

Wirings == [groups : [Groups -> Players \cup {Nobody}], players : SUBSET Players,
            known : [Items -> Versions], running : BOOLEAN]

Registering(r, g, ip) == r.kind = "group" /\ r.item = g /\ r.ip = ip
Fails(r, g, ip) == r.kind = "failed" /\ r.item = g /\ r.ip = ip

(* What one report does to what is counted of a group. *)
LEMMA WiredOne ==
    ASSUME Typed, NEW s \in Wirings, NEW u \in Reports
    PROVE  /\ Wired(s, u) \in Wirings
           /\ \A g \in Groups :
                \/ /\ Wired(s, u).groups[g] = s.groups[g] /\ Wired(s, u).known[g] = s.known[g]
                   /\ ~Fails(u, g, s.groups[g])
                   /\ \A ip : ip \in Players /\ Registering(u, g, ip) =>
                                ~(g \in DOMAIN topo.coord /\ topo.coord[g] = ip)
                \/ Wired(s, u).groups[g] = Nobody
                \/ /\ g \in DOMAIN topo.coord
                   /\ Wired(s, u).groups[g] = topo.coord[g] /\ Registering(u, g, topo.coord[g])
                   /\ Wired(s, u).known[g] = u.val
<1>1. Groups \cap Players = {} /\ topo \in Topologies
  BY DeckAssumption DEF Typed, TypeOK
<1>2. CASE u.kind = "group"
  <2>1. u.item \in Groups /\ u.ip \in Players /\ u.val \in Versions
    BY <1>2 DEF Reports
  <2>2. CASE u.item \in DOMAIN topo.coord /\ topo.coord[u.item] = u.ip
    <3>1. Wired(s, u) = [s EXCEPT !.groups[u.item] = u.ip, !.known[u.item] = u.val]
      BY <1>2, <2>2 DEF Wired
    <3>2. Wired(s, u) \in Wirings
      <4>1. [s.groups EXCEPT ![u.item] = u.ip] \in [Groups -> Players \cup {Nobody}]
        BY <2>1 DEF Wirings
      <4>2. [s.known EXCEPT ![u.item] = u.val] \in [Items -> Versions]
        BY <2>1 DEF Wirings, Items
      <4>3. Wired(s, u) = [s EXCEPT !.groups = [s.groups EXCEPT ![u.item] = u.ip],
                                    !.known = [s.known EXCEPT ![u.item] = u.val]]
        BY <3>1
      <4>4. QED BY <4>1, <4>2, <4>3 DEF Wirings
    <3>3. /\ Wired(s, u).groups = [s.groups EXCEPT ![u.item] = u.ip]
          /\ Wired(s, u).known = [s.known EXCEPT ![u.item] = u.val]
      BY <3>1 DEF Wirings
    <3>4. QED
      BY <1>2, <2>1, <2>2, <3>2, <3>3 DEF Registering, Fails, Wirings, Items
  <2>3. CASE ~(u.item \in DOMAIN topo.coord /\ topo.coord[u.item] = u.ip)
    <3>1. Wired(s, u) = s
      BY <1>2, <2>3 DEF Wired
    <3>2. QED BY <1>2, <2>3, <3>1 DEF Registering, Fails
  <2>4. QED BY <2>2, <2>3
<1>3. CASE u.kind = "failed"
  <2>1. u.item \in Groups /\ u.ip \in Players
    BY <1>3 DEF Reports
  <2>2. CASE s.groups[u.item] = u.ip
    <3>1. Wired(s, u) = [s EXCEPT !.groups[u.item] = Nobody]
      BY <1>3, <2>2 DEF Wired
    <3>2. Wired(s, u) \in Wirings
      BY <2>1, <3>1 DEF Wirings
    <3>3. /\ Wired(s, u).groups = [s.groups EXCEPT ![u.item] = Nobody]
          /\ Wired(s, u).known = s.known
      BY <3>1 DEF Wirings
    <3>4. QED
      BY <1>3, <2>1, <3>2, <3>3 DEF Registering, Fails, Wirings
  <2>3. CASE s.groups[u.item] # u.ip
    <3>1. Wired(s, u) = s
      BY <1>3, <2>3 DEF Wired
    <3>2. QED BY <1>3, <2>3, <3>1 DEF Registering, Fails
  <2>4. QED BY <2>2, <2>3
<1>4. CASE u.kind = "player"
  <2>1. u.item \in Players /\ u.val \in Versions
    BY <1>4 DEF Reports
  <2>2. CASE u.item \in topo.players
    <3> DEFINE v == IF u.val = 0 THEN s.known[u.item] ELSE u.val
    <3>1. v \in Versions /\ u.item \in Items
      BY <2>1 DEF Wirings, Items
    <3>2. Wired(s, u) = [s EXCEPT !.players = @ \cup {u.item}, !.known[u.item] = v]
      BY <1>4, <2>2 DEF Wired
    <3> HIDE DEF v
    <3>3. Wired(s, u) \in Wirings
      <4>1. s.players \cup {u.item} \in SUBSET Players
        BY <2>1 DEF Wirings
      <4>2. [s.known EXCEPT ![u.item] = v] \in [Items -> Versions]
        BY <3>1 DEF Wirings
      <4>3. Wired(s, u) = [s EXCEPT !.players = s.players \cup {u.item},
                                    !.known = [s.known EXCEPT ![u.item] = v]]
        BY <3>2
      <4>4. QED BY <4>1, <4>2, <4>3 DEF Wirings
    <3>4. /\ Wired(s, u).groups = s.groups
          /\ Wired(s, u).known = [s.known EXCEPT ![u.item] = v]
      BY <3>2 DEF Wirings
    <3>5. QED
      BY <1>1, <1>4, <2>1, <3>3, <3>4 DEF Registering, Fails, Wirings, Items
  <2>3. CASE u.item \notin topo.players
    <3>1. Wired(s, u) = s
      BY <1>4, <2>3 DEF Wired
    <3>2. QED BY <1>4, <3>1 DEF Registering, Fails
  <2>4. QED BY <2>2, <2>3
<1>5. CASE u.kind = "done"
  <2>1. Wired(s, u) = [s EXCEPT !.running = FALSE]
    BY <1>5 DEF Wired
  <2>2. Wired(s, u) \in Wirings
    BY <2>1 DEF Wirings
  <2>3. Wired(s, u).groups = s.groups /\ Wired(s, u).known = s.known
    BY <2>1 DEF Wirings
  <2>4. QED BY <1>5, <2>2, <2>3 DEF Registering, Fails
<1>6. QED
  BY <1>2, <1>3, <1>4, <1>5 DEF Reports

(* A group that s counts as wired is one it counted before, with no failure
   among the first k reports, or one that one of them registers and no later
   one registers again or takes back. *)
Kept(s, k) ==
    \A g \in Groups : s.groups[g] # Nobody =>
        \/ /\ regGroups[g] = s.groups[g] /\ s.known[g] = known[g]
           /\ \A m \in 1..k : ~Fails(wire[m], g, s.groups[g])
        \/ /\ g \in DOMAIN topo.coord /\ topo.coord[g] = s.groups[g]
           /\ \E n \in 1..k :
                /\ Registering(wire[n], g, s.groups[g]) /\ s.known[g] = wire[n].val
                /\ \A m \in (n + 1)..k : /\ ~Registering(wire[m], g, s.groups[g])
                                         /\ ~Fails(wire[m], g, s.groups[g])

(* One more report keeps that. *)
LEMMA KeptOn ==
    ASSUME Typed, NEW s \in Wirings, NEW k \in Nat, k + 1 \in 1..Len(wire), Kept(s, k)
    PROVE  Kept(Wired(s, wire[k + 1]), k + 1)
<1> DEFINE u == wire[k + 1]
           w == Wired(s, u)
<1>1. u \in Reports
  BY DEF Typed, TypeOK
<1>2. SUFFICES ASSUME NEW g \in Groups, w.groups[g] # Nobody
               PROVE  \/ /\ regGroups[g] = w.groups[g] /\ w.known[g] = known[g]
                         /\ \A m \in 1..(k + 1) : ~Fails(wire[m], g, w.groups[g])
                      \/ /\ g \in DOMAIN topo.coord /\ topo.coord[g] = w.groups[g]
                         /\ \E n \in 1..(k + 1) :
                              /\ Registering(wire[n], g, w.groups[g]) /\ w.known[g] = wire[n].val
                              /\ \A m \in (n + 1)..(k + 1) : /\ ~Registering(wire[m], g, w.groups[g])
                                                             /\ ~Fails(wire[m], g, w.groups[g])
  BY DEF Kept
<1> HIDE DEF w
<1>3. \/ /\ w.groups[g] = s.groups[g] /\ w.known[g] = s.known[g]
         /\ ~Fails(u, g, s.groups[g])
         /\ \A ip : ip \in Players /\ Registering(u, g, ip) =>
                      ~(g \in DOMAIN topo.coord /\ topo.coord[g] = ip)
      \/ /\ g \in DOMAIN topo.coord
         /\ w.groups[g] = topo.coord[g] /\ Registering(u, g, topo.coord[g])
         /\ w.known[g] = u.val
  BY <1>1, <1>2, WiredOne DEF w
<1>4. CASE /\ w.groups[g] = s.groups[g] /\ w.known[g] = s.known[g]
           /\ ~Fails(u, g, s.groups[g])
           /\ \A ip : ip \in Players /\ Registering(u, g, ip) =>
                        ~(g \in DOMAIN topo.coord /\ topo.coord[g] = ip)
  <2>1. s.groups[g] \in Players
    BY <1>2, <1>4 DEF Wirings
  <2>2. CASE /\ regGroups[g] = s.groups[g] /\ s.known[g] = known[g]
             /\ \A m \in 1..k : ~Fails(wire[m], g, s.groups[g])
    <3>1. \A m \in 1..(k + 1) : ~Fails(wire[m], g, s.groups[g])
      BY <1>4, <2>2
    <3>2. QED BY <1>4, <2>2, <3>1
  <2>3. CASE /\ g \in DOMAIN topo.coord /\ topo.coord[g] = s.groups[g]
             /\ \E n \in 1..k :
                  /\ Registering(wire[n], g, s.groups[g]) /\ s.known[g] = wire[n].val
                  /\ \A m \in (n + 1)..k : /\ ~Registering(wire[m], g, s.groups[g])
                                           /\ ~Fails(wire[m], g, s.groups[g])
    <3>1. PICK n \in 1..k : /\ Registering(wire[n], g, s.groups[g]) /\ s.known[g] = wire[n].val
                            /\ \A m \in (n + 1)..k : /\ ~Registering(wire[m], g, s.groups[g])
                                                     /\ ~Fails(wire[m], g, s.groups[g])
      BY <2>3
    <3>2. ~Registering(u, g, s.groups[g])
      BY <1>4, <2>1, <2>3
    <3>3. n \in 1..(k + 1) /\ \A m \in (n + 1)..(k + 1) : m \in (n + 1)..k \/ m = k + 1
      OBVIOUS
    <3>4. \A m \in (n + 1)..(k + 1) : /\ ~Registering(wire[m], g, s.groups[g])
                                      /\ ~Fails(wire[m], g, s.groups[g])
      BY <1>4, <3>1, <3>2, <3>3
    <3>5. QED BY <1>4, <2>3, <3>1, <3>3, <3>4
  <2>4. QED BY <1>2, <1>4, <2>2, <2>3 DEF Kept
<1>5. CASE /\ g \in DOMAIN topo.coord
           /\ w.groups[g] = topo.coord[g] /\ Registering(u, g, topo.coord[g])
           /\ w.known[g] = u.val
  <2>1. k + 1 \in 1..(k + 1) /\ (k + 1 + 1)..(k + 1) = {}
    OBVIOUS
  <2>2. QED BY <1>5, <2>1
<1>6. QED BY <1>3, <1>4, <1>5

(* What TakeReports leaves, from what it found. *)
LEMMA AfterAll ==
    ASSUME Typed
    PROVE  After[Len(wire)] \in Wirings /\ Kept(After[Len(wire)], Len(wire))
<1> DEFINE S == {k \in Nat : k <= Len(wire) => After[k] \in Wirings /\ Kept(After[k], k)}
<1>1. Len(wire) \in Nat
  BY DEF Typed, TypeOK
<1>2. \A n \in 0..Len(wire) : After[n] = IF n = 0 THEN Base ELSE Wired(After[n - 1], wire[n])
  BY <1>1, AfterTakes DEF Takes
<1>3. 0 \in S
  <2>1. After[0] = Base
    BY <1>1, <1>2
  <2>2. Base \in Wirings
    BY DEF Base, Wirings, Typed, TypeOK
  <2>3. Kept(Base, 0)
    BY DEF Kept, Base
  <2>4. QED BY <2>1, <2>2, <2>3
<1>4. ASSUME NEW k \in Nat, k \in S PROVE k + 1 \in S
  <2>1. SUFFICES ASSUME k + 1 <= Len(wire)
                 PROVE  After[k + 1] \in Wirings /\ Kept(After[k + 1], k + 1)
    OBVIOUS
  <2>2. After[k] \in Wirings /\ Kept(After[k], k)
    BY <1>1, <1>4, <2>1
  <2>3. After[k + 1] = Wired(After[k], wire[k + 1])
    BY <1>1, <1>2, <2>1
  <2>4. k + 1 \in 1..Len(wire) /\ wire[k + 1] \in Reports
    BY <1>1, <2>1 DEF Typed, TypeOK
  <2>5. QED BY <2>2, <2>3, <2>4, KeptOn, WiredOne
<1> HIDE DEF S
<1>5. Len(wire) \in S
  BY <1>1, <1>3, <1>4, Counting
<1>6. QED BY <1>1, <1>5 DEF S

-----------------------------------------------------------------------------
(* The loop keeps the types. *)

(* The retry, whatever is unwired. *)
LEMMA SettleTyped ==
    ASSUME NEW running \in BOOLEAN, NEW due \in BOOLEAN, NEW t, NEW groups, NEW players
    PROVE  Settle(running, due, Unwired(t, groups, players)) \in [running : BOOLEAN, due : BOOLEAN]
<1>1. Unwired(t, groups, players) \in BOOLEAN
  BY DEF Unwired
<1>2. QED BY <1>1 DEF Settle

(* The event that is taken, and those that are left. *)
LEMMA TailTyped ==
    ASSUME Typed, events # <<>>
    PROVE  Head(events) \in Events /\ Tail(events) \in Seq(Events)
BY HeadTailProperties DEF Typed, TypeOK

(* The times a worker may still be held up. *)
LEMMA HeldUpTyped ==
    /\ \A happens : Times(happens) \in Nat
    /\ Typed => \A times \in Nat : HeldUp(times) => delays' \in 0..MaxDelays
BY DeckAssumption DEF Times, HeldUp, Typed, TypeOK

(* What another arm than the reports' leaves alone, and leaves to be polled. *)
LEMMA OtherArmTyped == OtherArm => status = "following" /\ ~reportsFirst /\ reportsFirst' \in BOOLEAN
                                   /\ (reportsFirst' <=> wire # <<>>)
BY DEF OtherArm, ReportsPolled

(* What the loop does, by its arms. *)
LEMMA LoopTyped ==
    ASSUME Typed, TakeReports \/ TakeEvent \/ RetryDue \/ ConnectsAgain PROVE Typed'
<1>1. /\ retry.running \in BOOLEAN /\ retry.due \in BOOLEAN
      /\ regGroups \in [Groups -> Players \cup {Nobody}] /\ regPlayers \subseteq Players
      /\ known \in [Items -> Versions] /\ topo \in Topologies /\ world \in Topologies
      /\ 0 \in Versions /\ overtaken \subseteq Groups \X Players
  BY DeckAssumption DEF Typed, TypeOK, Versions
<1>2. CASE TakeReports
  <2>1. After[Len(wire)] \in Wirings
    BY AfterAll
  <2>2. /\ regGroups' = After[Len(wire)].groups /\ regPlayers' = After[Len(wire)].players
        /\ known' = After[Len(wire)].known
        /\ retry' = Settle(After[Len(wire)].running, retry.due,
                           Unwired(topo, After[Len(wire)].groups, After[Len(wire)].players))
        /\ wire' = <<>> /\ reportsFirst' = FALSE
        /\ UNCHANGED <<worldVars, delays, sock, passVars, events, deaf, status, topo, forwarded, overtaken>>
    BY <1>2 DEF TakeReports
  <2>3. /\ regGroups' \in [Groups -> Players \cup {Nobody}] /\ regPlayers' \subseteq Players
        /\ known' \in [Items -> Versions] /\ retry' \in [running : BOOLEAN, due : BOOLEAN]
    BY <1>1, <2>1, <2>2, SettleTyped DEF Wirings
  <2>4. wire' \in Seq(Reports)
    BY <2>2, EmptySeq
  <2>5. QED
    BY <2>2, <2>3, <2>4 DEF Typed, TypeOK, AtASpeaker, VersionsBounded, worldVars, passVars
<1>3. CASE TakeLostAndBail
  <2>1. /\ events' = <<>> /\ wire' = <<>> /\ deaf' = {} /\ overtaken' = {}
        /\ passOn' = [p \in Passes |-> FALSE] /\ work' = [p \in Passes |-> Nothing]
        /\ failed' = [p \in Passes |-> {}] /\ guards' = {}
        /\ sock' = [p \in Players |-> NoSocket]
        /\ known' = [i \in Items |-> 0]
        /\ regGroups' = [g \in Groups |-> Nobody] /\ regPlayers' = {} /\ forwarded' = {}
        /\ retry' = [running |-> FALSE, due |-> FALSE]
        /\ status' = "looking" /\ UNCHANGED <<worldVars, topo, reportsFirst>>
    BY <1>3 DEF TakeLostAndBail
  <2>2. wire' \in Seq(Reports) /\ events' \in Seq(Events)
    BY <2>1, EmptySeq
  <2>3. NoSocket \in Sock
    BY DEF NoSocket, Sock
  <2>4. sock' \in Sockets
    BY <2>1, <2>3 DEF Sockets
  <2>5. passOn' \in [Passes -> BOOLEAN]
    BY <2>1, Zenon
  <2>6. work' \in [Passes -> [Items -> WorkItems]] /\ AtASpeaker'
    BY <2>1, OffTyped DEF AtASpeaker, Nothing
  <2>7. /\ known' \in [Items -> Versions] /\ regGroups' \in [Groups -> Players \cup {Nobody}]
        /\ failed' \in [Passes -> SUBSET Players]
    BY <1>1, <2>1
  <2>8. delays' \in 0..MaxDelays
    BY <1>3, HeldUpTyped DEF TakeLostAndBail
  <2>9. QED
    BY <2>1, <2>2, <2>4, <2>5, <2>6, <2>7, <2>8
    DEF Typed, TypeOK, VersionsBounded, worldVars, Sockets, Sock, WorkItems
<1>4. CASE TakeLost
  <2>1. /\ events' \in Seq(Events) /\ reportsFirst' \in BOOLEAN
        /\ delays' \in 0..MaxDelays
    BY <1>4, TailTyped, OtherArmTyped, HeldUpTyped DEF TakeLost, NextEvent
  <2>2. retry' \in [running : BOOLEAN, due : BOOLEAN]
    BY <1>1, <1>4, SettleTyped DEF TakeLost
  <2>3. forwarded' \subseteq Players /\ regPlayers' \subseteq Players
    BY <1>4 DEF TakeLost, Typed, TypeOK
  <2>4. UNCHANGED <<worldVars, sock, deaf, passVars, wire, status, topo, known, regGroups, overtaken>>
    BY <1>4 DEF TakeLost, NextEvent
  <2>5. QED
    BY <2>1, <2>2, <2>3, <2>4
    DEF Typed, TypeOK, AtASpeaker, VersionsBounded, worldVars, passVars
<1>5. CASE TakeGroups
  <2>1. /\ events' \in Seq(Events) /\ Head(events) \in Events /\ Head(events).kind = "groups"
        /\ reportsFirst' \in BOOLEAN
    BY <1>5, TailTyped, OtherArmTyped DEF TakeGroups, NextEvent
  <2>2. topo' \in Topologies
    BY <1>5, <2>1 DEF TakeGroups, Events
  <2>3. known' \in [Items -> Versions] /\ regGroups' \in [Groups -> Players \cup {Nobody}]
    BY <1>1, <1>5 DEF TakeGroups
  <2>4. WorkTyped' /\ delays' \in 0..MaxDelays
    <3>1. StartPass(topo', regGroups', regPlayers, Times(wire # <<>>))
      BY <1>5 DEF TakeGroups
    <3>2. Times(wire # <<>>) \in Nat
      BY HeldUpTyped
    <3>3. QED BY <2>2, <3>1, <3>2, StartTyped
  <2>5. retry' \in [running : BOOLEAN, due : BOOLEAN]
    BY <1>5, SettleTyped DEF TakeGroups
  <2>6. UNCHANGED <<worldVars, sock, wire, status, regPlayers, forwarded, deaf, overtaken>>
    BY <1>5 DEF TakeGroups, NextEvent
  <2>7. QED
    BY <2>1, <2>2, <2>3, <2>4, <2>5, <2>6
    DEF Typed, TypeOK, WorkTyped, VersionsBounded, worldVars, WorkItems
<1>6. CASE TakeState
  <2>1. /\ events' \in Seq(Events) /\ Head(events) \in Events /\ Head(events).kind = "state"
        /\ reportsFirst' \in BOOLEAN /\ delays' \in 0..MaxDelays
    BY <1>6, TailTyped, OtherArmTyped, HeldUpTyped DEF TakeState, NextEvent
  <2>2. known' \in [Items -> Versions]
    <3>1. Head(events).val \in Versions
      BY <2>1 DEF Events
    <3>2. known' = known \/ known' = [known EXCEPT ![Head(events).item] = Head(events).val]
      BY <1>6 DEF TakeState
    <3>3. QED BY <1>1, <3>1, <3>2
  <2>3. overtaken' \subseteq Groups \X Players
    <3>1. CASE Reported({"group"}, Head(events).item, Head(events).ip)
      <4>1. PICK n \in 1..Len(wire) :
              wire[n].kind = "group" /\ wire[n].item = Head(events).item /\ wire[n].ip = Head(events).ip
        BY <3>1 DEF Reported
      <4>2. wire[n] \in Reports
        BY DEF Typed, TypeOK
      <4>3. Head(events).item \in Groups /\ Head(events).ip \in Players
        BY <4>1, <4>2 DEF Reports
      <4>4. overtaken' \subseteq overtaken \cup {<<Head(events).item, Head(events).ip>>}
        BY <1>6 DEF TakeState
      <4>5. QED BY <1>1, <4>3, <4>4
    <3>2. CASE ~Reported({"group"}, Head(events).item, Head(events).ip)
      BY <1>1, <1>6, <3>2 DEF TakeState
    <3>3. QED BY <3>1, <3>2
  <2>4. retry' \in [running : BOOLEAN, due : BOOLEAN]
    BY <1>1, <1>6, SettleTyped DEF TakeState
  <2>5. UNCHANGED <<worldVars, sock, deaf, passVars, wire, status, topo, regGroups, regPlayers, forwarded>>
    BY <1>6 DEF TakeState, NextEvent
  <2>6. QED
    BY <2>1, <2>2, <2>3, <2>4, <2>5 DEF Typed, TypeOK, AtASpeaker, VersionsBounded, worldVars, passVars
<1>7. CASE RetryDue
  <2>1. WorkTyped' /\ delays' \in 0..MaxDelays
    <3>1. StartPass(topo, regGroups, regPlayers, Times(wire # <<>> \/ events # <<>>))
      BY <1>7 DEF RetryDue
    <3>2. Times(wire # <<>> \/ events # <<>>) \in Nat
      BY HeldUpTyped
    <3>3. QED BY <1>1, <3>1, <3>2, StartTyped
  <2>2. retry' \in [running : BOOLEAN, due : BOOLEAN]
    BY <1>7, SettleTyped DEF RetryDue
  <2>3. reportsFirst' \in BOOLEAN
    BY <1>7, OtherArmTyped DEF RetryDue
  <2>4. UNCHANGED <<worldVars, sock, wire, events, deaf, status, topo, known, regGroups, regPlayers, forwarded, overtaken>>
    BY <1>7 DEF RetryDue
  <2>5. QED
    BY <2>1, <2>2, <2>3, <2>4 DEF Typed, TypeOK, WorkTyped, VersionsBounded, worldVars, WorkItems
<1>8. CASE ConnectsAgain
  <2>1. WorkTyped' /\ delays' \in 0..MaxDelays
    <3>1. StartPass(world, regGroups, regPlayers, 0)
      BY <1>8 DEF ConnectsAgain
    <3>2. QED BY <1>1, <3>1, StartTyped
  <2>2. sock' \in Sockets
    BY <1>8, FollowsTyped DEF ConnectsAgain
  <2>3. forwarded' \subseteq Players
    BY <1>8, DeckAssumption DEF ConnectsAgain
  <2>4. /\ retry' = [running |-> TRUE, due |-> FALSE] /\ topo' = world /\ status' = "following"
        /\ UNCHANGED <<worldVars, wire, events, deaf, known, regGroups, regPlayers, reportsFirst, overtaken>>
    BY <1>8 DEF ConnectsAgain
  <2>5. QED
    BY <1>1, <2>1, <2>2, <2>3, <2>4
    DEF Typed, TypeOK, WorkTyped, VersionsBounded, worldVars, WorkItems, Sockets, Sock
<1>9. QED
  BY <1>2, <1>3, <1>4, <1>5, <1>6, <1>7, <1>8 DEF TakeEvent

(* The types hold at the start... *)
LEMMA InitTyped ==
    ASSUME Init PROVE Typed
<1>1. /\ Primary \in Players /\ FirstTopology \in Topologies /\ MaxTurns \in Nat /\ MaxDelays \in Nat
      /\ 0 \in Versions /\ 1 \in Versions
  BY DeckAssumption DEF Versions
<1>2. work \in [Passes -> [Items -> WorkItems]] /\ AtASpeaker
  <2>1. work = [running |-> PassOver(FirstTopology, [g \in Groups |-> Nobody], {}), aborted |-> Nothing]
    BY DEF Init
  <2>2. work \in [Passes -> [Items -> WorkItems]]
    BY <1>1, <2>1, PassOverTyped, OffTyped DEF Passes
  <2>3. \A j \in Items : /\ work["running"][j] = PassOver(FirstTopology, [g \in Groups |-> Nobody], {})[j]
                         /\ work["aborted"][j] = Off
    BY <2>1 DEF Nothing
  <2>4. QED BY <1>1, <2>2, <2>3, PassOverTyped, OffTyped DEF AtASpeaker, Passes
<1>3. sock \in Sockets
  BY FollowsTyped DEF Init
<1>4. wire \in Seq(Reports) /\ events \in Seq(Events)
  BY EmptySeq DEF Init
<1>5. VersionsBounded
  BY <1>1 DEF Init, VersionsBounded
<1>6. passOn \in [Passes -> BOOLEAN]
  <2>1. passOn = [p \in Passes |-> p = "running"]
    BY DEF Init
  <2>2. QED BY <2>1, Zenon
<1>7. /\ failed \in [Passes -> SUBSET Players] /\ retry \in [running : BOOLEAN, due : BOOLEAN]
      /\ regGroups \in [Groups -> Players \cup {Nobody}] /\ regPlayers \subseteq Players
      /\ version \in [Items -> Versions] /\ known \in [Items -> Versions]
  BY <1>1 DEF Init
<1>8. /\ world \in Topologies /\ topo \in Topologies /\ plugged \subseteq Players
      /\ turns \in 0..MaxTurns /\ delays \in 0..MaxDelays /\ forwarded \subseteq Players
      /\ deaf = {} /\ guards = {} /\ status = "following" /\ reportsFirst = FALSE /\ overtaken = {}
  BY <1>1 DEF Init
<1>9. QED
  BY <1>2, <1>3, <1>4, <1>5, <1>6, <1>7, <1>8 DEF Typed, TypeOK, WorkItems, Sockets, Sock

(* ... and every step keeps them. *)
LEMMA NextTyped ==
    ASSUME Typed, [Next]_vars PROVE Typed'
<1>1. CASE Next
  BY <1>1, HouseholdTyped, RecoveryTyped, PassTyped, PassEndTyped, LoopTyped DEF Next, Runtime
<1>2. CASE UNCHANGED vars
  BY <1>2 DEF vars, worldVars, passVars, loopVars, Typed, TypeOK, AtASpeaker, VersionsBounded
<1>3. QED BY <1>1, <1>2

(* Every variable keeps its type: whatever the household does, the loop, the
   passes and the sockets of household.rs stay within their types. *)
THEOREM TypeCorrect == Spec => []TypeOK
<1>1. Init => Typed
  BY InitTyped
<1>2. Typed /\ [Next]_vars => Typed'
  BY NextTyped
<1>3. Typed => TypeOK
  BY DEF Typed
<1>4. QED BY <1>1, <1>2, <1>3, PTL DEF Spec

-----------------------------------------------------------------------------
(* The sockets and the passes. *)

(* The loss of ip's socket is on its way to the loop. *)
LossComes(ip) == \E n \in 1..Len(events) : events[n] = LostEvent(ip)

(* Nothing is subscribed on a dead socket. *)
DeadIsBare == \A p \in Players : ~sock[p].up => sock[p].subs = {}

(* A forwarder's address counts as forwarded until its loss is taken, and it
   forwards nothing more once it has sent that. *)
HeardIsForwarded == \A p \in Players : sock[p].up /\ sock[p].heard => p \in forwarded /\ ~LossComes(p)
LossIsLast == \A p \in Players : LossComes(p) => p \in forwarded
LostOnce ==
    \A p \in Players : \A n, m \in 1..Len(events) :
        events[n] = LostEvent(p) /\ events[m] = LostEvent(p) => n = m

SocketsSound == DeadIsBare /\ HeardIsForwarded /\ LossIsLast /\ LostOnce

(* An item is a pass's that has its end to report, unless it was aborted. *)
ItemsHaveAPass == ~passOn["running"] => \A i \in Items : work["running"][i].pc = "off"

(* Between two sessions nothing is under way and nothing is wired. *)
NothingBetween ==
    status = "looking" =>
        /\ \A p \in Passes : ~passOn[p] /\ work[p] = Nothing
        /\ guards = {} /\ wire = <<>> /\ events = <<>>
        /\ \A p \in Players : ~sock[p].up
        /\ \A g \in Groups : regGroups[g] = Nobody

Sound == SocketsSound /\ ItemsHaveAPass /\ NothingBetween

(* The events grow at the end. *)
LEMMA EventsGrow ==
    ASSUME Typed, NEW e \in Events, events' = Append(events, e)
    PROVE  /\ Len(events) \in Nat /\ Len(events') = Len(events) + 1 /\ events'[Len(events) + 1] = e
           /\ \A n \in 1..Len(events) : events'[n] = events[n]
           /\ \A n \in 1..Len(events') : n \in 1..Len(events) \/ n = Len(events) + 1
<1>1. events \in Seq(Events) /\ Len(events) \in Nat
  BY DEF Typed, TypeOK
<1>2. /\ Len(events') = Len(events) + 1 /\ events'[Len(events) + 1] = e
      /\ \A n \in 1..Len(events) : events'[n] = events[n]
  BY <1>1, AppendProperties
<1>3. QED BY <1>1, <1>2

(* A loss that is on its way stays so while the events grow, and no other comes. *)
LEMMA LossesGrow ==
    ASSUME Typed, NEW e \in Events, events' = events \/ events' = Append(events, e), NEW ip
    PROVE  /\ LossComes(ip) => LossComes(ip)'
           /\ LossComes(ip)' => LossComes(ip) \/ (events' = Append(events, e) /\ e = LostEvent(ip))
           /\ events' = Append(events, e) /\ e = LostEvent(ip) => LossComes(ip)'
<1>1. CASE events' = events
  <2>1. events' # Append(events, e)
    <3>1. events \in Seq(Events)
      BY DEF Typed, TypeOK
    <3>2. QED BY <1>1, <3>1, AppendProperties
  <2>2. QED BY <1>1, <2>1 DEF LossComes
<1>2. CASE events' = Append(events, e)
  <2>1. /\ Len(events) \in Nat /\ Len(events') = Len(events) + 1 /\ events'[Len(events) + 1] = e
        /\ \A n \in 1..Len(events) : events'[n] = events[n]
        /\ \A n \in 1..Len(events') : n \in 1..Len(events) \/ n = Len(events) + 1
    BY <1>2, EventsGrow
  <2>2. \A n \in 1..Len(events) : n \in 1..Len(events')
    BY <2>1
  <2>3. Len(events) + 1 \in 1..Len(events')
    BY <2>1
  <2>4. LossComes(ip) => LossComes(ip)'
    BY <2>1, <2>2 DEF LossComes
  <2>5. LossComes(ip)' => LossComes(ip) \/ e = LostEvent(ip)
    BY <2>1 DEF LossComes
  <2>6. e = LostEvent(ip) => LossComes(ip)'
    BY <2>1, <2>3 DEF LossComes
  <2>7. QED BY <1>2, <2>4, <2>5, <2>6
<1>3. QED BY <1>1, <1>2

(* A loss that was not on its way may come once. *)
LEMMA LostOnceGrows ==
    ASSUME Typed, LostOnce, NEW e \in Events, events' = Append(events, e),
           \A p \in Players : e = LostEvent(p) => ~LossComes(p)
    PROVE  LostOnce'
<1>1. /\ Len(events) \in Nat /\ Len(events') = Len(events) + 1 /\ events'[Len(events) + 1] = e
      /\ \A n \in 1..Len(events) : events'[n] = events[n]
      /\ \A n \in 1..Len(events') : n \in 1..Len(events) \/ n = Len(events) + 1
  BY EventsGrow
<1>2. SUFFICES ASSUME NEW p \in Players, NEW n \in 1..Len(events'), NEW m \in 1..Len(events'),
                      events'[n] = LostEvent(p), events'[m] = LostEvent(p)
               PROVE  n = m
  BY DEF LostOnce
<1>3. CASE n \in 1..Len(events) /\ m \in 1..Len(events)
  BY <1>1, <1>2, <1>3 DEF LostOnce
<1>4. CASE n \notin 1..Len(events) \/ m \notin 1..Len(events)
  <2>1. e = LostEvent(p)
    BY <1>1, <1>2, <1>4
  <2>2. \A k \in 1..Len(events) : events[k] # LostEvent(p)
    BY <2>1 DEF LossComes
  <2>3. QED BY <1>1, <1>2, <2>2
<1>5. QED BY <1>3, <1>4

(* The loop takes the first event; the others move up. *)
LEMMA EventsFall ==
    ASSUME Typed, events # <<>>, events' = Tail(events)
    PROVE  /\ Len(events) \in Nat /\ Len(events') = Len(events) - 1
           /\ \A k \in 1..Len(events') : k + 1 \in 1..Len(events) /\ events'[k] = events[k + 1]
           /\ Head(events) = events[1] /\ 1 \in 1..Len(events)
           /\ \A n \in 1..Len(events) : n = 1 \/ (n - 1 \in 1..Len(events') /\ events'[n - 1] = events[n])
<1>1. events \in Seq(Events) /\ Len(events) \in Nat
  BY DEF Typed, TypeOK
<1>2. /\ Len(events') = Len(events) - 1
      /\ \A k \in 1..Len(events') : events'[k] = events[k + 1]
      /\ Head(events) = events[1] /\ 1 \in 1..Len(events)
  BY <1>1, HeadTailProperties, EmptySeq
<1>3. ASSUME NEW n \in 1..Len(events), n # 1
      PROVE  n - 1 \in 1..Len(events') /\ events'[n - 1] = events[n]
  <2>1. n - 1 \in 1..Len(events') /\ (n - 1) + 1 = n
    BY <1>1, <1>2, <1>3
  <2>2. QED BY <1>2, <2>1
<1>4. QED BY <1>1, <1>2, <1>3

(* A loss stays on its way while the loop takes another event, and comes once. *)
LEMMA LossesFall ==
    ASSUME Typed, events # <<>>, events' = Tail(events)
    PROVE  /\ \A ip : LossComes(ip) /\ Head(events) # LostEvent(ip) => LossComes(ip)'
           /\ \A ip : LossComes(ip)' => LossComes(ip)
           /\ LostOnce => LostOnce'
           /\ LostOnce => \A ip \in Players : Head(events) = LostEvent(ip) => ~LossComes(ip)'
<1>1. /\ Len(events) \in Nat /\ Len(events') = Len(events) - 1
      /\ \A k \in 1..Len(events') : k + 1 \in 1..Len(events) /\ events'[k] = events[k + 1]
      /\ Head(events) = events[1] /\ 1 \in 1..Len(events)
      /\ \A n \in 1..Len(events) : n = 1 \/ (n - 1 \in 1..Len(events') /\ events'[n - 1] = events[n])
  BY EventsFall
<1>2. \A ip : LossComes(ip) /\ Head(events) # LostEvent(ip) => LossComes(ip)'
  BY <1>1 DEF LossComes
<1>3. \A ip : LossComes(ip)' => LossComes(ip)
  BY <1>1 DEF LossComes
<1>4. ASSUME LostOnce, NEW p \in Players, NEW n \in 1..Len(events'), NEW m \in 1..Len(events'),
             events'[n] = LostEvent(p), events'[m] = LostEvent(p)
      PROVE  n = m
  <2>1. n + 1 = m + 1
    BY <1>1, <1>4 DEF LostOnce
  <2>2. QED BY <1>1, <2>1
<1>5. ASSUME LostOnce, NEW ip \in Players, Head(events) = LostEvent(ip),
             NEW n \in 1..Len(events'), events'[n] = LostEvent(ip)
      PROVE  FALSE
  <2>1. n + 1 = 1
    BY <1>1, <1>5 DEF LostOnce
  <2>2. QED BY <1>1, <2>1
<1>6. LostOnce => LostOnce'
  BY <1>4 DEF LostOnce
<1>7. LostOnce => \A ip \in Players : Head(events) = LostEvent(ip) => ~LossComes(ip)'
  BY <1>5 DEF LossComes
<1>8. QED BY <1>2, <1>3, <1>6, <1>7

(* A loss is the loss of its speaker's socket. *)
LEMMA LostIsLost ==
    ASSUME NEW e \in Events, e.kind = "lost"
    PROVE  e.ip \in Players /\ e = LostEvent(e.ip)
<1>1. e \in [kind : {"lost"}, ip : Players]
  BY DEF Events
<1>2. QED BY <1>1 DEF LostEvent

(* A step that changes the socket of one speaker, or none. *)
LEMMA SocketChange ==
    ASSUME Typed, SocketsSound, NEW q \in Players,
           \A ip \in Players : ip # q => sock'[ip] = sock[ip] /\ (ip \in forwarded' <=> ip \in forwarded),
           ~sock'[q].up => sock'[q].subs = {},
           sock'[q].up /\ sock'[q].heard => q \in forwarded' /\ ~LossComes(q)',
           LossComes(q)' => q \in forwarded',
           \/ events' = events
           \/ \E e \in Events : /\ events' = Append(events, e)
                                /\ e.kind # "lost" \/ (e = LostEvent(q) /\ ~LossComes(q))
    PROVE  SocketsSound'
<1>1. DeadIsBare'
  BY DEF SocketsSound, DeadIsBare
<1>2. \A ip \in Players : ip # q /\ LossComes(ip)' => LossComes(ip)
  <2>1. CASE events' = events
    BY <2>1 DEF LossComes
  <2>2. ASSUME NEW e \in Events, events' = Append(events, e), e.kind # "lost" \/ e = LostEvent(q)
        PROVE  \A ip \in Players : ip # q /\ LossComes(ip)' => LossComes(ip)
    <3>1. \A ip \in Players : ip # q => e # LostEvent(ip)
      BY <2>2 DEF LostEvent
    <3>2. QED BY <2>2, <3>1, LossesGrow
  <2>3. QED BY <2>1, <2>2
<1>3. HeardIsForwarded' /\ LossIsLast'
  BY <1>2 DEF SocketsSound, HeardIsForwarded, LossIsLast
<1>4. LostOnce'
  <2>1. CASE events' = events
    BY <2>1 DEF LostOnce, SocketsSound
  <2>2. ASSUME NEW e \in Events, events' = Append(events, e),
               e.kind # "lost" \/ (e = LostEvent(q) /\ ~LossComes(q))
        PROVE  LostOnce'
    <3>1. \A p \in Players : e = LostEvent(p) => ~LossComes(p)
      BY <2>2 DEF LostEvent
    <3>2. QED BY <2>2, <3>1, LostOnceGrows DEF SocketsSound
  <2>3. QED BY <2>1, <2>2
<1>5. QED BY <1>1, <1>3, <1>4 DEF SocketsSound

(* A step of item i of pass p: all others stay, and so does the loop. *)
LEMMA ItemMoves ==
    ASSUME Typed, NEW p \in Passes, NEW i \in Items, PassStep(p, i)
    PROVE  /\ UNCHANGED <<worldVars, delays, passOn, guards, loopVars>>
           /\ work[p][i].pc # "off" /\ work[p][i].ip \in Players
           /\ OthersStay(p, i)
<1>1. UNCHANGED <<worldVars, delays, passOn, guards, loopVars>> /\ work[p][i].pc # "off"
  BY DEF PassStep, ProbeFails, Reaches, Opens, OpenFails, Reads, Registers, Subscribes, ItemFails,
         ReadFails, ReportsPlayer, At
<1>2. work[p][i] \in WorkItems /\ work[p][i].ip \in Players /\ version[i] \in Versions
  BY <1>1 DEF Typed, TypeOK, WorkItems, AtASpeaker
<1> SUFFICES OthersStay(p, i)
  BY <1>1, <1>2
<1>3. Finish(p, i) => OthersStay(p, i)
  BY FinishTyped
<1>4. \A pc \in Pcs : MovesTo(p, i, pc) => OthersStay(p, i)
  BY <1>1, MoveTyped
<1>5. "subscribe" \in Pcs /\ "report" \in Pcs
  BY DEF Pcs
<1>6. CASE Reaches(p, i) \/ Opens(p, i)
  BY <1>6, ReachingTyped
<1>7. CASE Reads(p, i)
  <2> DEFINE w == [work[p][i] EXCEPT !.val = version[i],
                                     !.pc = IF i \in Groups THEN "register" ELSE "subscribe"]
  <2>1. work' = [work EXCEPT ![p] = [work[p] EXCEPT ![i] = w]]
    BY <1>7 DEF Reads
  <2>2. w \in WorkItems /\ w.ip = work[p][i].ip
    BY <1>2 DEF WorkItems, Pcs
  <2> HIDE DEF w
  <2>3. QED BY <1>2, <2>1, <2>2, ItemTyped
<1>8. CASE ~(Reaches(p, i) \/ Opens(p, i) \/ Reads(p, i))
  BY <1>3, <1>4, <1>5, <1>8
  DEF PassStep, ProbeFails, OpenFails, Registers, Subscribes, ItemFails, ReadFails, ReportsPlayer
<1>9. QED BY <1>1, <1>2, <1>6, <1>7, <1>8

(* So are the sockets while nothing happens to them. *)
LEMMA SocketsStay ==
    ASSUME SocketsSound, UNCHANGED <<sock, forwarded, events>> PROVE SocketsSound'
BY DEF SocketsSound, DeadIsBare, HeardIsForwarded, LossIsLast, LostOnce, LossComes

(* What reaching a speaker makes of its socket. *)
LEMMA ReachingSockets ==
    ASSUME Typed, SocketsSound, NEW p \in Passes, NEW i \in Items, Reaches(p, i) \/ Opens(p, i)
    PROVE  SocketsSound' /\ \A ip \in Players : sock'[ip].subs = sock[ip].subs
<1>1. PICK q \in Players : q = work[p][i].ip
  BY ReachingTyped
<1>2. sock \in Sockets
  BY DEF Typed, TypeOK, Sockets, Sock
<1>3. events' = events
  BY DEF Reaches, Opens
<1>4. CASE UNCHANGED <<sock, forwarded>>
  BY <1>3, <1>4, SocketsStay
<1>5. ASSUME NEW s \in Sock, s \in {sock[q], InHand(q)}, Forwarding(p, i, s)
      PROVE  SocketsSound' /\ \A ip \in Players : sock'[ip].subs = sock[ip].subs
  <2>1. /\ sock' = [sock EXCEPT ![q] = [s EXCEPT !.heard = @ \/ q \notin forwarded]]
        /\ forwarded' = forwarded \cup {q}
    BY <1>1, <1>2, <1>5 DEF Forwarding
  <2>2. /\ sock'[q].up = s.up /\ sock'[q].subs = s.subs
        /\ sock'[q].heard => s.heard \/ q \notin forwarded
        /\ \A ip \in Players : ip # q => sock'[ip] = sock[ip] /\ (ip \in forwarded' <=> ip \in forwarded)
    BY <1>1, <1>2, <2>1 DEF Sockets, Sock
  <2>3. /\ ~s.up => s.subs = {}
        /\ s.subs = sock[q].subs
        /\ s.up /\ s.heard => sock[q].up /\ sock[q].heard
    BY <1>1, <1>2, <1>5, ReplacedTyped DEF InHand, SocketsSound, DeadIsBare
  <2>4. sock'[q].up /\ sock'[q].heard => ~LossComes(q)
    BY <1>1, <1>2, <2>2, <2>3 DEF SocketsSound, HeardIsForwarded, LossIsLast
  <2>5. LossComes(q)' <=> LossComes(q)
    BY <1>3 DEF LossComes
  <2>6. SocketsSound'
    BY <1>1, <1>2, <1>3, <2>1, <2>2, <2>3, <2>4, <2>5, SocketChange
  <2>7. QED BY <2>2, <2>3, <2>6
<1>6. \/ UNCHANGED <<sock, forwarded>>
      \/ \E s \in Sock : s \in {sock[q], InHand(q)} /\ Forwarding(p, i, s)
  BY <1>1, ReachingTyped
<1>7. QED BY <1>4, <1>5, <1>6

(* Every step of an item keeps the sockets and the passes sound. *)
LEMMA PassSound ==
    ASSUME Typed, Sound, NEW p \in Passes, NEW i \in Items, PassStep(p, i) PROVE Sound'
<1>1. PICK q \in Players : q = work[p][i].ip
  BY ItemMoves
<1>2. /\ UNCHANGED <<passOn, guards, status, regGroups>> /\ work[p][i].pc # "off"
      /\ OthersStay(p, i)
      /\ sock \in Sockets /\ version[i] \in Versions
  BY ItemMoves DEF loopVars, Typed, TypeOK, Sockets, Sock
<1>3. status # "looking"
  BY <1>2, OffTyped DEF Sound, NothingBetween, Nothing
<1>4. ItemsHaveAPass'
  <2>1. p = "running" => passOn["running"]
    BY <1>2 DEF Sound, ItemsHaveAPass
  <2>2. p # "running" => \A j \in Items : work'["running"][j] = work["running"][j]
    BY <1>2 DEF OthersStay, Passes
  <2>3. QED BY <1>2, <2>1, <2>2 DEF Sound, ItemsHaveAPass
<1>5. NothingBetween'
  BY <1>2, <1>3 DEF NothingBetween
<1>6. SocketsSound'
  <2>1. CASE Reaches(p, i) \/ Opens(p, i)
    BY <2>1, ReachingSockets DEF Sound
  <2>2. CASE Subscribes(p, i)
    <3>1. sock[q].up /\ sock' = [sock EXCEPT ![q].subs = @ \cup {i}] /\ forwarded' = forwarded
      BY <1>1, <2>2 DEF Subscribes, Answers, Live
    <3> DEFINE e == StateEvent(i, q, version[i])
    <3>2. events' = events \/ events' = Append(events, e)
      BY <1>1, <2>2 DEF Subscribes
    <3>3. e \in Events /\ e.kind # "lost"
      BY <1>2 DEF StateEvent, Events
    <3>4. e # LostEvent(q)
      BY DEF StateEvent, LostEvent
    <3> HIDE DEF e
    <3>5. LossComes(q)' => LossComes(q)
      BY <3>2, <3>3, <3>4, LossesGrow
    <3>6. /\ \A ip \in Players : ip # q => sock'[ip] = sock[ip]
          /\ sock'[q].up /\ sock'[q].heard = sock[q].heard
      BY <1>2, <3>1 DEF Sockets, Sock
    <3>7. \E x \in Events : x = e /\ x.kind # "lost"
      BY <3>3
    <3>8. QED
      BY <1>2, <3>1, <3>2, <3>3, <3>5, <3>6, SocketChange
      DEF Sound, SocketsSound, HeardIsForwarded, LossIsLast
  <2>3. CASE ~(Reaches(p, i) \/ Opens(p, i) \/ Subscribes(p, i))
    <3>1. UNCHANGED <<sock, forwarded, events>>
      BY <2>3 DEF PassStep, ProbeFails, OpenFails, Reads, Registers, ItemFails, ReadFails, ReportsPlayer,
                  loopVars
    <3>2. QED BY <3>1, SocketsStay DEF Sound
  <2>4. QED BY <2>1, <2>2, <2>3
<1>7. QED BY <1>4, <1>5, <1>6 DEF Sound

(* Outside the program. *)
LEMMA OutsideSound ==
    ASSUME Typed, Sound, Household \/ Recovery PROVE Sound'
<1>1. UNCHANGED <<passVars, wire, loopVars, forwarded>>
  BY DEF Household, Recovery, Regroup, Changes, SocketDies, Unplugged, LaneReaches, PingFails, PluggedIn
<1>2. sock \in Sockets /\ version' \in [Items -> Versions] /\ Primary \in Players
  <2>1. Typed'
    BY HouseholdTyped, RecoveryTyped
  <2>2. QED BY <2>1, DeckAssumption DEF Typed, TypeOK, Sockets, Sock
<1>3. \A q \in Players : LossComes(q) => q \in forwarded
  BY DEF Sound, SocketsSound, LossIsLast
<1>4. ItemsHaveAPass'
  BY <1>1 DEF passVars, Sound, ItemsHaveAPass
<1>5. ASSUME NEW e \in Events, e.kind # "lost", events' = events \/ events' = Append(events, e),
             sock' = sock, status = "looking" => events' = events
      PROVE  SocketsSound' /\ NothingBetween'
  <2>1. \A q : e # LostEvent(q)
    BY <1>5 DEF LostEvent
  <2>2. LossComes(Primary)' => LossComes(Primary)
    BY <1>5, <2>1, LossesGrow
  <2>3. SocketsSound'
    BY <1>1, <1>2, <1>3, <1>5, <2>2, SocketChange
    DEF Sound, SocketsSound, DeadIsBare, HeardIsForwarded
  <2>4. NothingBetween'
    BY <1>1, <1>5 DEF passVars, loopVars, Sound, NothingBetween
  <2>5. QED BY <2>3, <2>4
<1>6. CASE Regroup
  <2>1. PICK t \in Topologies : Push(Primary, {}, TopologyEvent(t)) /\ sock' = sock
    BY <1>6 DEF Regroup
  <2>2. TopologyEvent(t) \in Events /\ TopologyEvent(t).kind # "lost"
    BY <1>2 DEF TopologyEvent, Events
  <2>3. events' = events \/ (sock[Primary].up /\ events' = Append(events, TopologyEvent(t)))
    BY <2>1 DEF Push
  <2>4. status = "looking" => events' = events
    BY <1>2, <2>3 DEF Sound, NothingBetween
  <2>5. QED BY <1>4, <1>5, <2>1, <2>2, <2>3, <2>4 DEF Sound
<1>7. ASSUME NEW i \in Changing, Changes(i) PROVE Sound'
  <2> DEFINE ip == Speaks(i)
             e == StateEvent(i, ip, version'[i])
             told == IF sock[ip].heard THEN {q \in Players : i \in sock[q].subs} \cap {ip} ELSE {}
  <2>1. sock' = sock /\ events' = IF told # {} THEN Append(events, e) ELSE events
    BY <1>7 DEF Changes
  <2>2. i \in Items /\ ip \in Players
    BY <1>7, DeckAssumption DEF Changes, Typed, TypeOK, Items
  <2>3. e \in Events /\ e.kind # "lost"
    BY <1>2, <2>2 DEF StateEvent, Events
  <2>4. status = "looking" => sock[ip].subs = {}
    BY <2>2 DEF Sound, SocketsSound, DeadIsBare, NothingBetween
  <2>5. told # {} => i \in sock[ip].subs
    OBVIOUS
  <2> HIDE DEF e, told
  <2>6. QED BY <1>4, <1>5, <2>1, <2>3, <2>4, <2>5 DEF Sound
<1>8. ASSUME NEW q \in Players, Dies(q) PROVE Sound'
  <2>1. /\ sock[q].up /\ sock' = [sock EXCEPT ![q].up = FALSE, ![q].subs = {}]
        /\ events' = IF sock[q].up /\ sock[q].heard THEN Append(events, LostEvent(q)) ELSE events
    BY <1>8 DEF Dies, Push
  <2>2. /\ ~sock'[q].up /\ sock'[q].subs = {}
        /\ \A p \in Players : p # q => sock'[p] = sock[p]
    BY <1>2, <2>1 DEF Sockets, Sock
  <2>3. LostEvent(q) \in Events
    BY DEF LostEvent, Events
  <2>4. sock[q].heard => q \in forwarded /\ ~LossComes(q)
    BY <2>1 DEF Sound, SocketsSound, HeardIsForwarded
  <2>5. LossComes(q)' => q \in forwarded
    BY <1>3, <2>1, <2>3, <2>4, LossesGrow
  <2>6. SocketsSound'
    BY <1>1, <2>1, <2>2, <2>3, <2>4, <2>5, SocketChange DEF Sound
  <2>7. status # "looking"
    BY <2>1 DEF Sound, NothingBetween
  <2>8. NothingBetween'
    BY <1>1, <2>7 DEF loopVars, NothingBetween
  <2>9. QED BY <1>4, <2>6, <2>8 DEF Sound
<1>9. ASSUME NEW q \in Players, LaneReaches(q) PROVE Sound'
  <2>1. sock' = [sock EXCEPT ![q] = Replaced(@)] /\ events' = events /\ status # "looking"
    BY <1>9 DEF LaneReaches
  <2>2. sock'[q].up /\ ~sock'[q].heard /\ \A p \in Players : p # q => sock'[p] = sock[p]
    BY <1>2, <2>1, ReplacedTyped DEF Sockets, Sock
  <2>3. LossComes(q)' => q \in forwarded
    BY <1>3, <2>1 DEF LossComes
  <2>4. SocketsSound'
    BY <1>1, <2>1, <2>2, <2>3, SocketChange DEF Sound
  <2>5. NothingBetween'
    BY <1>1, <2>1 DEF loopVars, NothingBetween
  <2>6. QED BY <1>4, <2>4, <2>5 DEF Sound
<1>10. ASSUME NEW q \in Players, Unplugged(q) \/ PluggedIn(q) PROVE Sound'
  <2>1. UNCHANGED <<sock, events>>
    BY <1>10 DEF Unplugged, PluggedIn
  <2>2. SocketsSound'
    BY <1>1, <2>1, SocketsStay DEF Sound
  <2>3. NothingBetween'
    BY <1>1, <2>1 DEF passVars, loopVars, Sound, NothingBetween
  <2>4. QED BY <1>4, <2>2, <2>3 DEF Sound
<1>11. QED
  BY <1>6, <1>7, <1>8, <1>9, <1>10, DeckAssumption DEF Household, Recovery, SocketDies, PingFails


(* The end of a pass, and the guards of an aborted one. *)
LEMMA PassEndSound ==
    ASSUME Typed, Sound, (\E p \in Passes : PassDone(p)) \/ LastPollEnds \/ GuardDrops PROVE Sound'
<1>1. UNCHANGED <<sock, forwarded, events, loopVars>>
  BY DEF PassDone, LastPollEnds, GuardDrops, loopVars
<1>2. SocketsSound'
  BY <1>1, SocketsStay DEF Sound
<1>3. work \in [Passes -> [Items -> WorkItems]] /\ passOn \in [Passes -> BOOLEAN]
  BY DEF Typed, TypeOK, WorkItems
<1>4. status # "looking" /\ ItemsHaveAPass'
  <2>1. ASSUME NEW p \in Passes, PassDone(p) PROVE status # "looking" /\ ItemsHaveAPass'
    <3>1. passOn[p] /\ work[p] = Nothing /\ work' = work /\ passOn' = [passOn EXCEPT ![p] = FALSE]
      BY <2>1 DEF PassDone
    <3>2. status # "looking"
      BY <3>1 DEF Sound, NothingBetween
    <3>3. \A j \in Items : work[p][j].pc = "off"
      BY <3>1, OffTyped DEF Nothing
    <3>4. CASE p = "running"
      BY <3>1, <3>2, <3>3, <3>4 DEF ItemsHaveAPass
    <3>5. CASE p # "running"
      <4>1. passOn'["running"] = passOn["running"]
        BY <1>3, <3>1, <3>5 DEF Passes
      <4>2. QED BY <3>1, <3>2, <4>1 DEF Sound, ItemsHaveAPass
    <3>6. QED BY <3>4, <3>5
  <2>2. CASE LastPollEnds
    <3>1. /\ passOn' = [passOn EXCEPT !["aborted"] = FALSE]
          /\ work' = [work EXCEPT !["aborted"] = Nothing]
          /\ passOn["aborted"] \/ work["aborted"] # Nothing
      BY <2>2 DEF LastPollEnds
    <3>2. passOn'["running"] = passOn["running"] /\ work'["running"] = work["running"]
      BY <1>3, <3>1 DEF Passes
    <3>3. status # "looking"
      <4>1. ASSUME status = "looking" PROVE FALSE
        <5>1. ~passOn["aborted"] /\ work["aborted"] = Nothing
          BY <4>1 DEF Sound, NothingBetween, Passes
        <5>2. QED BY <3>1, <5>1
      <4>2. QED BY <4>1
    <3>4. QED BY <3>2, <3>3 DEF Sound, ItemsHaveAPass
  <2>3. CASE GuardDrops
    <3>1. guards # {} /\ UNCHANGED <<passOn, work>>
      BY <2>3 DEF GuardDrops
    <3>2. QED BY <3>1 DEF Sound, NothingBetween, ItemsHaveAPass
  <2>4. QED BY <2>1, <2>2, <2>3
<1>5. NothingBetween'
  BY <1>1, <1>4 DEF loopVars, NothingBetween
<1>6. QED BY <1>2, <1>4, <1>5 DEF Sound

(* A pass that is started is there to report its end. *)
LEMMA StartRuns ==
    ASSUME NEW t, NEW groups, NEW players, NEW times, StartPass(t, groups, players, times)
    PROVE  passOn'["running"] /\ ItemsHaveAPass'
<1>1. PICK i \in Items \cup {Nobody} : BecomesAborted(i)
  BY DEF StartPass
<1>2. passOn'["running"]
  BY <1>1 DEF BecomesAborted
<1>3. QED BY <1>2 DEF ItemsHaveAPass

(* Every arm of the loop, and the new session. *)
LEMMA LoopSound ==
    ASSUME Typed, Sound, TakeReports \/ TakeEvent \/ RetryDue \/ ConnectsAgain PROVE Sound'
<1>1. sock \in Sockets /\ Primary \in Players
  BY DeckAssumption DEF Typed, TypeOK, Sockets, Sock
<1>2. CASE TakeReports
  <2>1. UNCHANGED <<sock, forwarded, events, passOn, work, status>> /\ status = "following"
    BY <1>2 DEF TakeReports, passVars
  <2>2. QED BY <2>1, SocketsStay DEF Sound, ItemsHaveAPass, NothingBetween
<1>3. CASE TakeLostAndBail
  <2>1. /\ events' = <<>> /\ wire' = <<>> /\ guards' = {}
        /\ passOn' = [p \in Passes |-> FALSE] /\ work' = [p \in Passes |-> Nothing]
        /\ sock' = [p \in Players |-> NoSocket]
        /\ regGroups' = [g \in Groups |-> Nobody]
    BY <1>3 DEF TakeLostAndBail
  <2>2. \A p \in Players : ~sock'[p].up /\ sock'[p].subs = {}
    BY <2>1 DEF NoSocket
  <2>3. Len(events') = 0
    BY <2>1
  <2>4. SocketsSound'
    BY <2>2, <2>3 DEF SocketsSound, DeadIsBare, HeardIsForwarded, LossIsLast, LostOnce, LossComes
  <2>5. \A p \in Passes : ~passOn'[p] /\ work'[p] = Nothing
    BY <2>1
  <2>6. \A i \in Items : work'["running"][i].pc = "off"
    BY <2>5, OffTyped DEF Nothing, Passes
  <2>7. NothingBetween'
    BY <2>1, <2>2, <2>5 DEF NothingBetween
  <2>8. QED BY <2>4, <2>6, <2>7 DEF Sound, ItemsHaveAPass
<1>4. CASE TakeLost \/ TakeGroups \/ TakeState
  <2>1. /\ events # <<>> /\ events' = Tail(events) /\ Head(events) \in Events
        /\ UNCHANGED <<sock, status>> /\ status = "following"
    BY <1>4, TailTyped, OtherArmTyped DEF TakeLost, TakeGroups, TakeState, NextEvent
  <2>2. \/ forwarded' = forwarded
        \/ \E ip \in Players : Head(events) = LostEvent(ip) /\ forwarded' = forwarded \ {ip}
    <3>1. CASE TakeLost
      BY <2>1, <3>1, LostIsLost DEF TakeLost, NextEvent
    <3>2. CASE TakeGroups \/ TakeState
      BY <3>2 DEF TakeGroups, TakeState
    <3>3. QED BY <1>4, <3>1, <3>2
  <2>3. /\ \A ip : LossComes(ip)' => LossComes(ip)
        /\ LostOnce'
        /\ \A ip \in Players : Head(events) = LostEvent(ip) => ~LossComes(ip)'
    BY <2>1, LossesFall DEF Sound, SocketsSound
  <2>4. \A ip \in Players : Head(events) = LostEvent(ip) => LossComes(ip)
    BY <2>1, EventsFall DEF LossComes
  <2>5. HeardIsForwarded' /\ LossIsLast' /\ DeadIsBare'
    <3>1. CASE forwarded' = forwarded
      BY <2>1, <2>3, <3>1 DEF Sound, SocketsSound, HeardIsForwarded, LossIsLast, DeadIsBare
    <3>2. ASSUME NEW ip \in Players, Head(events) = LostEvent(ip), forwarded' = forwarded \ {ip}
          PROVE  HeardIsForwarded' /\ LossIsLast' /\ DeadIsBare'
      <4>1. ~(sock[ip].up /\ sock[ip].heard) /\ ~LossComes(ip)'
        BY <2>3, <2>4, <3>2 DEF Sound, SocketsSound, HeardIsForwarded
      <4>2. QED
        BY <2>1, <2>3, <3>2, <4>1 DEF Sound, SocketsSound, HeardIsForwarded, LossIsLast, DeadIsBare
    <3>3. QED BY <2>2, <3>1, <3>2
  <2>6. ItemsHaveAPass'
    <3>1. CASE TakeGroups
      BY <3>1, StartRuns DEF TakeGroups
    <3>2. CASE TakeLost \/ TakeState
      BY <3>2 DEF TakeLost, TakeState, passVars, Sound, ItemsHaveAPass
    <3>3. QED BY <1>4, <3>1, <3>2
  <2>7. QED BY <2>1, <2>3, <2>5, <2>6 DEF Sound, SocketsSound, NothingBetween
<1>5. CASE RetryDue
  <2>1. UNCHANGED <<sock, events, status, forwarded>> /\ status = "following"
    BY <1>5, OtherArmTyped DEF RetryDue
  <2>2. ItemsHaveAPass'
    BY <1>5, StartRuns DEF RetryDue
  <2>3. QED BY <2>1, <2>2, SocketsStay DEF Sound, NothingBetween
<1>6. CASE ConnectsAgain
  <2>1. /\ sock' = Follows /\ forwarded' = {Primary} /\ UNCHANGED events
        /\ status' = "following" /\ status = "looking"
    BY <1>6 DEF ConnectsAgain
  <2>2. events = <<>>
    BY <2>1 DEF Sound, NothingBetween
  <2>3. Len(events') = 0
    BY <2>1, <2>2
  <2>4. SocketsSound'
    BY <1>1, <2>1, <2>3, FollowsTyped
    DEF SocketsSound, DeadIsBare, HeardIsForwarded, LossIsLast, LostOnce, LossComes
  <2>5. ItemsHaveAPass'
    BY <1>6, StartRuns DEF ConnectsAgain
  <2>6. QED BY <2>1, <2>4, <2>5 DEF Sound, NothingBetween
<1>7. QED BY <1>2, <1>3, <1>4, <1>5, <1>6 DEF TakeEvent

(* Sound is inductive. *)
LEMMA NextSound ==
    ASSUME Typed, Sound, [Next]_vars PROVE Sound'
<1>1. CASE Next
  BY <1>1, OutsideSound, PassSound, PassEndSound, LoopSound DEF Next, Runtime
<1>2. CASE UNCHANGED vars
  <2>1. UNCHANGED <<sock, forwarded, events, passOn, work, guards, wire, status, regGroups>>
    BY <1>2 DEF vars, passVars, loopVars
  <2>2. QED BY <2>1, SocketsStay DEF Sound, ItemsHaveAPass, NothingBetween
<1>3. QED BY <1>1, <1>2

(* It holds at the start. *)
LEMMA InitSound ==
    ASSUME Init PROVE Sound
<1>1. /\ sock = Follows /\ forwarded = {Primary} /\ events = <<>> /\ status = "following"
      /\ passOn = [p \in Passes |-> p = "running"]
  BY DEF Init
<1>2. Len(events) = 0
  BY <1>1
<1>3. SocketsSound
  BY <1>1, <1>2, FollowsTyped DEF SocketsSound, DeadIsBare, HeardIsForwarded, LossIsLast, LostOnce, LossComes
<1>4. passOn["running"]
  BY <1>1 DEF Passes
<1>5. QED BY <1>1, <1>3, <1>4 DEF Sound, ItemsHaveAPass, NothingBetween

-----------------------------------------------------------------------------
(* What undoes the registration of group g at ip: the guard of an item that is
   subscribing, one of an aborted pass, or a report after the n-th. *)
ArmedAt(g, ip) == \E p \in Passes : work[p][g].pc = "subscribe" /\ work[p][g].ip = ip
FailsAfter(g, ip, n) == \E m \in 1..Len(wire) : n < m /\ Fails(wire[m], g, ip)
Undone(g, ip, n) ==
    \/ ArmedAt(g, ip)
    \/ [group |-> g, ip |-> ip] \in guards
    \/ FailsAfter(g, ip, n)

(* Group g is subscribed at ip, or ip's loss is on its way.  (A socket nobody
   forwards is left out.) *)
Subscribed(g, ip) == g \in sock[ip].subs \/ <<g, ip>> \in deaf \/ LossComes(ip)

Tells(e, g, ip) == e.kind = "state" /\ e.item = g /\ e.ip = ip

(* A push for g from ip waits before ip's loss. *)
Pushed(g, ip) ==
    \E n \in 1..Len(events) :
        Tells(events[n], g, ip) /\ \A m \in 1..(n - 1) : events[m] # LostEvent(ip)

(* A group that is counted as wired or about to be is subscribed, or something
   will undo that; and a registration that waits is taken in before the loss of
   its socket. *)
WiredOwed ==
    \A g \in Groups, ip \in Players : regGroups[g] = ip =>
        g \in DOMAIN topo.coord /\ (Subscribed(g, ip) \/ Undone(g, ip, 0))
RegisteredOwed ==
    \A g \in Groups, ip \in Players : \A n \in 1..Len(wire) :
        Registering(wire[n], g, ip) => Subscribed(g, ip) \/ Undone(g, ip, n)
ReportGoesFirst ==
    \A g \in Groups, ip \in Players : \A n \in 1..Len(wire) :
        Registering(wire[n], g, ip) =>
            reportsFirst \/ <<g, ip>> \in deaf \/ Pushed(g, ip) \/ Undone(g, ip, n)

Owed == WiredOwed /\ RegisteredOwed /\ ReportGoesFirst

(* The steps that neither empty the channels nor take the reports. *)
PassEnds == (\E p \in Passes : PassDone(p)) \/ LastPollEnds \/ GuardDrops
ItemStep == \E p \in Passes, i \in Items : PassStep(p, i)
LoopStep == TakeLost \/ TakeGroups \/ TakeState \/ RetryDue \/ ConnectsAgain
OtherStep == Household \/ Recovery \/ ItemStep \/ PassEnds \/ LoopStep

(* Item g of a pass subscribes at ip: its guard is disarmed. *)
Disarms(g, ip) == \E p \in Passes : Subscribes(p, g) /\ work[p][g].ip = ip

(* A report goes behind the others. *)
LEMMA SentReports ==
    ASSUME Typed, NEW r, Sends(r)
    PROVE  /\ Len(wire) \in Nat /\ Len(wire') = Len(wire) + 1 /\ wire'[Len(wire) + 1] = r
           /\ \A n \in 1..Len(wire) : wire'[n] = wire[n] /\ n \in 1..Len(wire')
           /\ \A n \in 1..Len(wire') : n \in 1..Len(wire) \/ n = Len(wire) + 1
<1>1. wire \in Seq(Reports) /\ Len(wire) \in Nat /\ wire \in Seq(Reports \cup {r})
  BY DEF Typed, TypeOK
<1>2. /\ Len(wire') = Len(wire) + 1 /\ wire'[Len(wire) + 1] = r
      /\ \A n \in 1..Len(wire) : wire'[n] = wire[n]
  BY <1>1, AppendProperties DEF Sends
<1>3. QED BY <1>1, <1>2

(* An item that sends a registration has armed its guard. *)
LEMMA ItemSends ==
    ASSUME Typed, NEW p \in Passes, NEW i \in Items, PassStep(p, i)
    PROVE  \/ wire' = wire
           \/ \E r \in Reports :
                /\ Sends(r)
                /\ \A g \in Groups, ip \in Players : Registering(r, g, ip) => ArmedAt(g, ip)'
<1>1. work[p][i] \in WorkItems /\ work[p][i].ip \in Players /\ work[p][i].pc # "off"
  BY ItemMoves DEF Typed, TypeOK, WorkItems
<1>2. CASE i \in Groups /\ Registers(p, i)
  <2> DEFINE r == [kind |-> "group", item |-> i, ip |-> work[p][i].ip, val |-> work[p][i].val]
  <2>1. r \in Reports /\ Sends(r)
    BY <1>1, <1>2 DEF Reports, WorkItems, Registers
  <2>2. work'[p][i].pc = "subscribe" /\ work'[p][i].ip = work[p][i].ip
    <3>1. MovesTo(p, i, "subscribe") /\ "subscribe" \in Pcs
      BY <1>2 DEF Registers, Pcs
    <3>2. QED BY <1>1, <3>1, MoveTyped
  <2>3. \A g \in Groups, ip \in Players : Registering(r, g, ip) => g = i /\ ip = work[p][i].ip
    BY DEF Registering
  <2> HIDE DEF r
  <2>4. \A g \in Groups, ip \in Players : Registering(r, g, ip) => ArmedAt(g, ip)'
    BY <2>2, <2>3 DEF ArmedAt
  <2>5. QED BY <2>1, <2>4
<1>3. CASE i \in Players /\ ReportsPlayer(p, i)
  <2> DEFINE r == [kind |-> "player", item |-> i, ip |-> i, val |-> work[p][i].val]
  <2>1. r \in Reports /\ Sends(r) /\ \A g, ip : ~Registering(r, g, ip)
    BY <1>1, <1>3 DEF Reports, WorkItems, ReportsPlayer, Registering
  <2> HIDE DEF r
  <2>2. QED BY <2>1
<1>4. CASE ItemFails(p, i)
  <2> DEFINE r == FailedUpdate(i, work[p][i].ip)
  <2>1. i \in Groups => r \in Reports
    BY <1>1, DeckAssumption DEF FailedUpdate, Reports, Versions
  <2>2. \A g, ip : ~Registering(r, g, ip)
    BY DEF FailedUpdate, Registering
  <2>3. wire' = wire \/ (i \in Groups /\ Sends(r))
    BY <1>4 DEF ItemFails
  <2> HIDE DEF r
  <2>4. QED BY <2>1, <2>2, <2>3
<1>5. CASE ~(i \in Groups /\ Registers(p, i)) /\ ~(i \in Players /\ ReportsPlayer(p, i)) /\ ~ItemFails(p, i)
  BY <1>5 DEF PassStep, ProbeFails, Reaches, Opens, OpenFails, Reads, Subscribes, ReadFails, loopVars
<1>6. QED BY <1>2, <1>3, <1>4, <1>5

(* So does every other step: it sends nothing, or a report of which the same
   is true. *)
LEMMA WhatIsSent ==
    ASSUME Typed, OtherStep
    PROVE  \/ wire' = wire
           \/ \E r \in Reports :
                /\ Sends(r)
                /\ \A g \in Groups, ip \in Players : Registering(r, g, ip) => ArmedAt(g, ip)'
<1>1. CASE ItemStep
  BY <1>1, ItemSends DEF ItemStep
<1>2. CASE PassEnds
  <2>1. ASSUME NEW p \in Passes, PassDone(p)
        PROVE  \E r \in Reports : Sends(r) /\ \A g, ip : ~Registering(r, g, ip)
    <3> DEFINE r == [kind |-> "done", item |-> Nobody, ip |-> Nobody, val |-> 0]
    <3>1. r \in Reports /\ Sends(r) /\ \A g, ip : ~Registering(r, g, ip)
      BY <2>1 DEF Reports, PassDone, Registering
    <3> HIDE DEF r
    <3>2. QED BY <3>1
  <2>2. CASE LastPollEnds
    BY <2>2 DEF LastPollEnds
  <2>3. CASE GuardDrops
    <3>1. PICK x \in guards : Sends(FailedUpdate(x.group, x.ip))
      BY <2>3 DEF GuardDrops
    <3>2. /\ FailedUpdate(x.group, x.ip) \in Reports
          /\ \A g, ip : ~Registering(FailedUpdate(x.group, x.ip), g, ip)
      BY DeckAssumption DEF FailedUpdate, Reports, Versions, Registering, Typed, TypeOK
    <3>3. QED BY <3>1, <3>2
  <2>4. QED BY <1>2, <2>1, <2>2, <2>3 DEF PassEnds
<1>3. CASE Household \/ Recovery
  BY <1>3 DEF Household, Recovery, Regroup, Changes, SocketDies, Unplugged, LaneReaches, PingFails, PluggedIn
<1>4. CASE LoopStep
  BY <1>4 DEF LoopStep, TakeLost, TakeGroups, TakeState, RetryDue, ConnectsAgain
<1>5. QED BY <1>1, <1>2, <1>3, <1>4 DEF OtherStep

(* A pass that is started leaves the armed guards of the others, or keeps the
   item that is carried on. *)
LEMMA StartHolds ==
    ASSUME Typed, NEW t, NEW groups, NEW players, NEW times, StartPass(t, groups, players, times),
           NEW g \in Groups, NEW ip \in Players
    PROVE  /\ guards \subseteq guards'
           /\ ArmedAt(g, ip) => ArmedAt(g, ip)' \/ [group |-> g, ip |-> ip] \in guards'
<1>1. PICK i \in Items \cup {Nobody} :
        /\ work' = [running |-> PassOver(t, groups, players),
                    aborted |-> [j \in Items |-> IF j = i THEN work["running"][j] ELSE Off]]
        /\ guards' = guards \cup Armed("aborted") \cup {x \in Armed("running") : x.group # i}
  BY DEF StartPass
<1>2. ASSUME NEW p \in Passes, work[p][g].pc = "subscribe", work[p][g].ip = ip
      PROVE  ArmedAt(g, ip)' \/ [group |-> g, ip |-> ip] \in guards'
  <2> DEFINE x == [group |-> g, ip |-> ip]
  <2>1. x \in Armed(p) /\ x.group = g
    BY <1>2 DEF Armed
  <2> HIDE DEF x
  <2>2. CASE p = "aborted" \/ g # i
    BY <1>1, <2>1, <2>2 DEF Passes, x
  <2>3. CASE p = "running" /\ g = i
    <3>1. work'["aborted"][g] = work["running"][g]
      BY <1>1, <2>3 DEF Items
    <3>2. QED BY <1>2, <2>3, <3>1 DEF ArmedAt, Passes
  <2>4. QED BY <2>2, <2>3 DEF Passes
<1>3. QED BY <1>1, <1>2 DEF ArmedAt

(* An item that ends with its guard armed has it undo the registration. *)
LEMMA ItemHolds ==
    ASSUME Typed, NEW p \in Passes, NEW i \in Items, PassStep(p, i),
           NEW g \in Groups, NEW ip \in Players, ArmedAt(g, ip)
    PROVE  ArmedAt(g, ip)' \/ Disarms(g, ip) \/ \E r \in Reports : Sends(r) /\ Fails(r, g, ip)
<1>1. PICK q \in Passes : work[q][g].pc = "subscribe" /\ work[q][g].ip = ip
  BY DEF ArmedAt
<1>2. g \in Items
  BY DEF Items
<1>3. CASE q # p \/ g # i
  <2>1. work'[q][g] = work[q][g]
    BY <1>2, <1>3, ItemMoves DEF OthersStay
  <2>2. QED BY <1>1, <2>1 DEF ArmedAt
<1>4. CASE q = p /\ g = i
  <2>1. i \notin Players
    BY <1>4, DeckAssumption
  <2>2. Subscribes(p, i) \/ ItemFails(p, i)
    BY <1>1, <1>4, <2>1
    DEF PassStep, ProbeFails, Reaches, Opens, OpenFails, Reads, Registers, At
  <2>3. CASE Subscribes(p, i)
    BY <1>1, <1>4, <2>3 DEF Disarms
  <2>4. CASE ItemFails(p, i)
    <3>1. Sends(FailedUpdate(g, ip))
      BY <1>1, <1>4, <2>4 DEF ItemFails, At
    <3>2. FailedUpdate(g, ip) \in Reports /\ Fails(FailedUpdate(g, ip), g, ip)
      BY DeckAssumption DEF FailedUpdate, Reports, Versions, Fails
    <3>3. QED BY <3>1, <3>2
  <2>5. QED BY <2>2, <2>3, <2>4
<1>5. QED BY <1>3, <1>4

(* So a guard's promise holds over the end of its item and of its pass. *)
LEMMA ArmedStays ==
    ASSUME Typed, OtherStep, NEW g \in Groups, NEW ip \in Players,
           ArmedAt(g, ip) \/ [group |-> g, ip |-> ip] \in guards
    PROVE  \/ ArmedAt(g, ip)' \/ [group |-> g, ip |-> ip] \in guards'
           \/ Disarms(g, ip) \/ \E r \in Reports : Sends(r) /\ Fails(r, g, ip)
<1> DEFINE x == [group |-> g, ip |-> ip]
<1>1. CASE ItemStep
  <2>1. UNCHANGED guards
    BY <1>1, ItemMoves DEF ItemStep
  <2>2. QED BY <1>1, <2>1, ItemHolds DEF ItemStep
<1>2. CASE Household \/ Recovery
  <2>1. UNCHANGED <<work, guards>>
    BY <1>2 DEF Household, Recovery, Regroup, Changes, SocketDies, Unplugged, LaneReaches, PingFails,
                PluggedIn, passVars
  <2>2. QED BY <2>1 DEF ArmedAt
<1>3. CASE PassEnds
  <2>1. CASE \E p \in Passes : PassDone(p)
    <3>1. UNCHANGED <<work, guards>>
      BY <2>1 DEF PassDone
    <3>2. QED BY <3>1 DEF ArmedAt
  <2>2. CASE LastPollEnds
    <3>1. work' = [work EXCEPT !["aborted"] = Nothing] /\ guards' = guards \cup Armed("aborted")
      BY <2>2 DEF LastPollEnds
    <3>2. ASSUME NEW p \in Passes, work[p][g].pc = "subscribe", work[p][g].ip = ip
          PROVE  ArmedAt(g, ip)' \/ x \in guards'
      <4>1. CASE p = "aborted"
        BY <3>1, <3>2, <4>1 DEF Armed
      <4>2. CASE p # "aborted"
        <5>1. work'[p] = work[p]
          BY <3>1, <4>2 DEF Typed, TypeOK
        <5>2. QED BY <3>2, <5>1 DEF ArmedAt
      <4>3. QED BY <4>1, <4>2
    <3>3. QED BY <3>1, <3>2 DEF ArmedAt
  <2>3. CASE GuardDrops
    <3>1. PICK y \in guards : guards' = guards \ {y} /\ Sends(FailedUpdate(y.group, y.ip)) /\ work' = work
      BY <2>3 DEF GuardDrops
    <3>2. CASE y = x
      <4>1. FailedUpdate(g, ip) \in Reports /\ Fails(FailedUpdate(g, ip), g, ip)
        BY DeckAssumption DEF FailedUpdate, Reports, Versions, Fails
      <4>2. QED BY <3>1, <3>2, <4>1
    <3>3. CASE y # x
      BY <3>1, <3>3 DEF ArmedAt
    <3>4. QED BY <3>2, <3>3
  <2>4. QED BY <1>3, <2>1, <2>2, <2>3 DEF PassEnds
<1>4. CASE TakeGroups \/ RetryDue \/ ConnectsAgain
  <2>1. \E t, groups, players, times : StartPass(t, groups, players, times)
    BY <1>4 DEF TakeGroups, RetryDue, ConnectsAgain
  <2>2. QED BY <2>1, StartHolds
<1>5. CASE TakeLost \/ TakeState
  <2>1. UNCHANGED <<work, guards>>
    BY <1>5 DEF TakeLost, TakeState, passVars
  <2>2. QED BY <2>1 DEF ArmedAt
<1>6. QED BY <1>1, <1>2, <1>3, <1>4, <1>5 DEF OtherStep, LoopStep

(* What undoes a registration stays on its way until the group is subscribed. *)
LEMMA UndoneStays ==
    ASSUME Typed, OtherStep, NEW g \in Groups, NEW ip \in Players, NEW n \in 0..Len(wire),
           Undone(g, ip, n)
    PROVE  Undone(g, ip, n)' \/ Disarms(g, ip)
<1>1. CASE FailsAfter(g, ip, n)
  <2>1. PICK m \in 1..Len(wire) : n < m /\ Fails(wire[m], g, ip)
    BY <1>1 DEF FailsAfter
  <2>2. m \in 1..Len(wire') /\ wire'[m] = wire[m]
    BY WhatIsSent, SentReports
  <2>3. QED BY <2>1, <2>2 DEF Undone, FailsAfter, Fails
<1>2. ASSUME NEW r \in Reports, Sends(r), Fails(r, g, ip) PROVE Undone(g, ip, n)'
  <2>1. Len(wire) + 1 \in 1..Len(wire') /\ n < Len(wire) + 1 /\ wire'[Len(wire) + 1] = r
    BY <1>2, SentReports
  <2>2. QED BY <1>2, <2>1 DEF Undone, FailsAfter, Fails
<1>3. CASE ~FailsAfter(g, ip, n)
  BY <1>2, <1>3, ArmedStays DEF Undone
<1>4. QED BY <1>1, <1>3

(* Outside the program a group stays subscribed, or it is known not to be
   heard, or the loss of its socket is on its way. *)
LEMMA OutsideSubscribed ==
    ASSUME Typed, Sound, Household \/ Recovery, NEW g \in Groups, NEW ip \in Players
    PROVE  /\ Subscribed(g, ip) => Subscribed(g, ip)'
           /\ deaf \subseteq deaf' /\ (events' = events \/ \E e \in Events : events' = Append(events, e))
<1>1. sock \in Sockets /\ Primary \in Players /\ version' \in [Items -> Versions] /\ g \in Items
  <2>1. Typed'
    BY HouseholdTyped, RecoveryTyped
  <2>2. QED BY <2>1, DeckAssumption DEF Typed, TypeOK, Sockets, Sock, Items
<1>2. ASSUME NEW e \in Events, events' = events \/ events' = Append(events, e),
             deaf \subseteq deaf', sock'[ip].subs = sock[ip].subs
      PROVE  /\ Subscribed(g, ip) => Subscribed(g, ip)'
             /\ deaf \subseteq deaf' /\ (events' = events \/ \E x \in Events : events' = Append(events, x))
  BY <1>2, LossesGrow DEF Subscribed
<1>3. CASE Regroup
  <2>1. PICK t \in Topologies : Push(Primary, {}, TopologyEvent(t)) /\ sock' = sock
    BY <1>3 DEF Regroup
  <2>2. TopologyEvent(t) \in Events
    BY <1>1 DEF TopologyEvent, Events
  <2>3. events' = events \/ events' = Append(events, TopologyEvent(t))
    BY <2>1 DEF Push
  <2>4. deaf \subseteq deaf'
    BY <2>1 DEF Push
  <2>5. QED BY <1>2, <2>1, <2>2, <2>3, <2>4
<1>4. ASSUME NEW i \in Changing, Changes(i)
      PROVE  /\ Subscribed(g, ip) => Subscribed(g, ip)'
             /\ deaf \subseteq deaf' /\ (events' = events \/ \E x \in Events : events' = Append(events, x))
  <2> DEFINE e == StateEvent(i, Speaks(i), version'[i])
  <2>1. i \in Items /\ Speaks(i) \in Players
    BY <1>4, DeckAssumption DEF Changes, Typed, TypeOK, Items
  <2>2. e \in Events
    BY <1>1, <2>1 DEF StateEvent, Events
  <2>3. events' = events \/ events' = Append(events, e)
    BY <1>4 DEF Changes
  <2>4. deaf \subseteq deaf' /\ sock' = sock
    BY <1>4 DEF Changes
  <2> HIDE DEF e
  <2>5. QED BY <1>2, <2>2, <2>3, <2>4
<1>5. ASSUME NEW q \in Players, Dies(q)
      PROVE  /\ Subscribed(g, ip) => Subscribed(g, ip)'
             /\ deaf \subseteq deaf' /\ (events' = events \/ \E x \in Events : events' = Append(events, x))
  <2>1. /\ sock[q].up /\ sock' = [sock EXCEPT ![q].up = FALSE, ![q].subs = {}]
        /\ events' = IF sock[q].up /\ sock[q].heard THEN Append(events, LostEvent(q)) ELSE events
        /\ deaf' = IF sock[q].heard THEN deaf ELSE deaf \cup (sock[q].subs \X {q})
    BY <1>5 DEF Dies, Push
  <2>2. LostEvent(q) \in Events
    BY DEF LostEvent, Events
  <2>3. deaf \subseteq deaf' /\ (events' = events \/ events' = Append(events, LostEvent(q)))
    BY <2>1
  <2>4. CASE q = ip
    <3>1. CASE sock[ip].heard
      <4>1. LossComes(ip)'
        BY <2>1, <2>2, <2>4, <3>1, LossesGrow
      <4>2. QED BY <2>2, <2>3, <4>1 DEF Subscribed
    <3>2. CASE ~sock[ip].heard
      <4>1. g \in sock[ip].subs => <<g, ip>> \in deaf'
        BY <2>1, <2>4, <3>2
      <4>2. events' = events
        BY <2>1, <2>4, <3>2
      <4>3. LossComes(ip)' <=> LossComes(ip)
        BY <4>2 DEF LossComes
      <4>4. QED BY <2>3, <4>1, <4>2, <4>3 DEF Subscribed
    <3>3. QED BY <3>1, <3>2
  <2>5. CASE q # ip
    <3>1. sock'[ip] = sock[ip]
      BY <1>1, <2>1, <2>5 DEF Sockets
    <3>2. QED BY <1>2, <2>2, <2>3, <3>1
  <2>6. QED BY <2>4, <2>5
<1>6. ASSUME UNCHANGED <<events, deaf>>, sock'[ip].subs = sock[ip].subs
      PROVE  /\ Subscribed(g, ip) => Subscribed(g, ip)'
             /\ deaf \subseteq deaf' /\ (events' = events \/ \E x \in Events : events' = Append(events, x))
  <2>1. LossComes(ip)' <=> LossComes(ip)
    BY <1>6 DEF LossComes
  <2>2. QED BY <1>6, <2>1 DEF Subscribed
<1>7. ASSUME NEW q \in Players, LaneReaches(q)
      PROVE  sock'[ip].subs = sock[ip].subs /\ UNCHANGED <<events, deaf>>
  <2>1. sock' = [sock EXCEPT ![q] = Replaced(@)] /\ ~sock[q].up /\ UNCHANGED <<events, deaf>>
    BY <1>7 DEF LaneReaches
  <2>2. sock[q].subs = {}
    BY <2>1 DEF Sound, SocketsSound, DeadIsBare
  <2>3. QED BY <1>1, <2>1, <2>2, ReplacedTyped DEF Sockets
<1>8. ASSUME NEW q \in Players, Unplugged(q) \/ PluggedIn(q) PROVE UNCHANGED <<sock, events, deaf>>
  BY <1>8 DEF Unplugged, PluggedIn
<1>9. QED
  BY <1>3, <1>4, <1>5, <1>6, <1>7, <1>8, DeckAssumption DEF Household, Recovery, SocketDies, PingFails

(* Item i of a pass takes a subscription: it is pushed what there is, before
   any loss, or the socket is not heard. *)
LEMMA Pushes ==
    ASSUME Typed, Sound, NEW p \in Passes, NEW i \in Items, NEW q \in Players, Subscribes(p, i),
           q = work[p][i].ip
    PROVE  /\ sock[q].up /\ i \in sock'[q].subs
           /\ \A ip \in Players : sock[ip].subs \subseteq sock'[ip].subs
           /\ \A ip \in Players, g \in Groups : <<g, ip>> # <<i, q>> => (<<g, ip>> \in deaf' <=> <<g, ip>> \in deaf)
           /\ \/ events' = events /\ <<i, q>> \in deaf' /\ ~sock[q].heard
              \/ /\ StateEvent(i, q, version[i]) \in Events
                 /\ events' = Append(events, StateEvent(i, q, version[i]))
                 /\ ~LossComes(q) /\ sock[q].heard
<1>1. sock \in Sockets /\ version[i] \in Versions
  BY DEF Typed, TypeOK, Sockets, Sock
<1>2. /\ sock[q].up /\ sock' = [sock EXCEPT ![q].subs = @ \cup {i}]
      /\ events' = IF sock[q].heard THEN Append(events, StateEvent(i, q, version[i])) ELSE events
      /\ deaf' = IF sock[q].heard THEN deaf \ {<<i, q>>} ELSE deaf \cup {<<i, q>>}
  BY DEF Subscribes, Answers, Live
<1>3. i \in sock'[q].subs /\ \A ip \in Players : sock[ip].subs \subseteq sock'[ip].subs
  BY <1>1, <1>2 DEF Sockets, Sock
<1>4. StateEvent(i, q, version[i]) \in Events
  BY <1>1 DEF StateEvent, Events
<1>5. sock[q].heard => ~LossComes(q)
  BY <1>2 DEF Sound, SocketsSound, HeardIsForwarded
<1>6. QED BY <1>2, <1>3, <1>4, <1>5

(* A pass's item takes no subscription away. *)
LEMMA ItemSubscribed ==
    ASSUME Typed, Sound, NEW p \in Passes, NEW i \in Items, PassStep(p, i),
           NEW g \in Groups, NEW ip \in Players, Subscribed(g, ip)
    PROVE  Subscribed(g, ip)'
<1>1. CASE Reaches(p, i) \/ Opens(p, i)
  <2>1. sock'[ip].subs = sock[ip].subs /\ UNCHANGED <<events, deaf>>
    BY <1>1, ReachingSockets DEF Sound, Reaches, Opens
  <2>2. LossComes(ip)' <=> LossComes(ip)
    BY <2>1 DEF LossComes
  <2>3. QED BY <2>1, <2>2 DEF Subscribed
<1>2. CASE Subscribes(p, i)
  <2>1. PICK q \in Players : q = work[p][i].ip
    BY ItemMoves
  <2>2. /\ i \in sock'[q].subs /\ sock[ip].subs \subseteq sock'[ip].subs
        /\ <<g, ip>> # <<i, q>> => (<<g, ip>> \in deaf' <=> <<g, ip>> \in deaf)
        /\ events' = events \/ \E e \in Events : events' = Append(events, e)
    BY <1>2, <2>1, Pushes
  <2>3. LossComes(ip) => LossComes(ip)'
    <3>1. CASE events' = events
      BY <3>1 DEF LossComes
    <3>2. QED BY <2>2, <3>1, LossesGrow
  <2>4. QED BY <2>2, <2>3 DEF Subscribed
<1>3. CASE ~(Reaches(p, i) \/ Opens(p, i) \/ Subscribes(p, i))
  <2>1. UNCHANGED <<sock, events, deaf>>
    BY <1>3 DEF PassStep, ProbeFails, OpenFails, Reads, Registers, ItemFails, ReadFails, ReportsPlayer,
                loopVars
  <2>2. LossComes(ip)' <=> LossComes(ip)
    BY <2>1 DEF LossComes
  <2>3. QED BY <2>1, <2>2 DEF Subscribed
<1>4. QED BY <1>1, <1>2, <1>3

(* A group stays subscribed, until the loop takes the loss of its socket. *)
LEMMA SubscribedStays ==
    ASSUME Typed, Sound, OtherStep, NEW g \in Groups, NEW ip \in Players, Subscribed(g, ip)
    PROVE  Subscribed(g, ip)' \/ (TakeLost /\ Head(events) = LostEvent(ip) /\ deaf' = deaf)
<1>1. CASE Household \/ Recovery
  BY <1>1, OutsideSubscribed
<1>2. CASE ItemStep
  BY <1>2, ItemSubscribed DEF ItemStep
<1>3. CASE PassEnds \/ RetryDue
  <2>1. UNCHANGED <<sock, events, deaf>>
    BY <1>3 DEF PassEnds, PassDone, LastPollEnds, GuardDrops, RetryDue
  <2>2. LossComes(ip)' <=> LossComes(ip)
    BY <2>1 DEF LossComes
  <2>3. QED BY <2>1, <2>2 DEF Subscribed
<1>4. CASE ConnectsAgain
  <2>1. UNCHANGED <<events, deaf>> /\ status = "looking"
    BY <1>4 DEF ConnectsAgain
  <2>2. sock[ip].subs = {}
    BY <2>1 DEF Sound, SocketsSound, DeadIsBare, NothingBetween
  <2>3. LossComes(ip)' <=> LossComes(ip)
    BY <2>1 DEF LossComes
  <2>4. QED BY <2>1, <2>2, <2>3 DEF Subscribed
<1>5. CASE TakeLost \/ TakeGroups \/ TakeState
  <2>1. /\ events # <<>> /\ events' = Tail(events) /\ UNCHANGED <<sock, deaf>>
        /\ TakeLost \/ Head(events).kind # "lost"
    BY <1>5 DEF TakeLost, TakeGroups, TakeState, NextEvent
  <2>2. LossComes(ip) => LossComes(ip)' \/ Head(events) = LostEvent(ip)
    BY <2>1, LossesFall
  <2>3. Head(events) = LostEvent(ip) => TakeLost
    BY <2>1 DEF LostEvent
  <2>4. QED BY <2>1, <2>2, <2>3 DEF Subscribed
<1>6. QED BY <1>1, <1>2, <1>3, <1>4, <1>5 DEF OtherStep, LoopStep

(* A push waits while the events grow. *)
LEMMA PushedStays ==
    ASSUME Typed, events' = events \/ \E e \in Events : events' = Append(events, e),
           NEW g \in Groups, NEW ip \in Players, Pushed(g, ip)
    PROVE  Pushed(g, ip)'
<1>1. CASE events' = events
  BY <1>1 DEF Pushed
<1>2. ASSUME NEW e \in Events, events' = Append(events, e) PROVE Pushed(g, ip)'
  <2>1. /\ Len(events) \in Nat /\ Len(events') = Len(events) + 1
        /\ \A n \in 1..Len(events) : events'[n] = events[n]
    BY <1>2, EventsGrow
  <2>2. PICK n \in 1..Len(events) :
          Tells(events[n], g, ip) /\ \A m \in 1..(n - 1) : events[m] # LostEvent(ip)
    BY DEF Pushed
  <2>3. n \in 1..Len(events') /\ \A m \in 1..(n - 1) : m \in 1..Len(events)
    BY <2>1
  <2>4. \A m \in 1..(n - 1) : events'[m] # LostEvent(ip)
    BY <2>1, <2>2, <2>3
  <2>5. Tells(events'[n], g, ip)
    BY <2>1, <2>2
  <2>6. QED BY <2>3, <2>4, <2>5 DEF Pushed
<1>3. QED BY <1>1, <1>2

(* With its guard disarmed, a group has its push on the way, or is not heard. *)
LEMMA DisarmedIsPushed ==
    ASSUME Typed, Sound, NEW g \in Groups, NEW ip \in Players, Disarms(g, ip)
    PROVE  g \in sock'[ip].subs /\ (<<g, ip>> \in deaf' \/ Pushed(g, ip)')
<1>1. PICK p \in Passes : Subscribes(p, g) /\ ip = work[p][g].ip
  BY DEF Disarms
<1>2. g \in Items
  BY DEF Items
<1> DEFINE e == StateEvent(g, ip, version[g])
<1>3. /\ g \in sock'[ip].subs
      /\ \/ <<g, ip>> \in deaf'
         \/ e \in Events /\ events' = Append(events, e) /\ ~LossComes(ip)
  BY <1>1, <1>2, Pushes
<1>4. Tells(e, g, ip)
  BY DEF StateEvent, Tells
<1> HIDE DEF e
<1>5. ASSUME e \in Events, events' = Append(events, e), ~LossComes(ip) PROVE Pushed(g, ip)'
  <2>1. /\ Len(events) \in Nat /\ Len(events') = Len(events) + 1 /\ events'[Len(events) + 1] = e
        /\ \A n \in 1..Len(events) : events'[n] = events[n]
    BY <1>5, EventsGrow
  <2> DEFINE k == Len(events) + 1
  <2>2. k \in 1..Len(events') /\ \A m \in 1..(k - 1) : m \in 1..Len(events)
    BY <2>1
  <2>3. \A m \in 1..(k - 1) : events'[m] # LostEvent(ip)
    BY <1>5, <2>1, <2>2 DEF LossComes
  <2>4. Tells(events'[k], g, ip)
    BY <1>4, <2>1
  <2> HIDE DEF k
  <2>5. QED BY <2>2, <2>3, <2>4 DEF Pushed
<1>6. QED BY <1>3, <1>5

(* Every step of OtherStep that finds a registration waiting has it taken in
   before the loss of its socket. *)
LEMMA GoesFirst ==
    ASSUME Typed, Sound, OtherStep, NEW g \in Groups, NEW ip \in Players, NEW n \in 1..Len(wire),
           reportsFirst \/ <<g, ip>> \in deaf \/ Pushed(g, ip) \/ Undone(g, ip, n)
    PROVE  reportsFirst' \/ <<g, ip>> \in deaf' \/ Pushed(g, ip)' \/ Undone(g, ip, n)'
<1>1. n \in 0..Len(wire) /\ wire # <<>>
  BY DEF Typed, TypeOK
<1>2. Undone(g, ip, n) => Undone(g, ip, n)' \/ Disarms(g, ip)
  BY <1>1, UndoneStays
<1>3. Disarms(g, ip) => <<g, ip>> \in deaf' \/ Pushed(g, ip)'
  BY DisarmedIsPushed
<1>4. CASE TakeLost \/ TakeGroups \/ TakeState \/ RetryDue
  BY <1>1, <1>4, OtherArmTyped DEF TakeLost, TakeGroups, TakeState, RetryDue, NextEvent
<1>5. CASE ConnectsAgain
  BY <1>1, <1>5 DEF ConnectsAgain, Sound, NothingBetween
<1>6. CASE Household \/ Recovery
  <2>1. UNCHANGED reportsFirst
    BY <1>6 DEF Household, Recovery, Regroup, Changes, SocketDies, Unplugged, LaneReaches, PingFails,
                PluggedIn, loopVars
  <2>2. QED BY <1>2, <1>3, <1>6, <2>1, OutsideSubscribed, PushedStays
<1>7. CASE PassEnds
  <2>1. UNCHANGED <<reportsFirst, events, deaf>>
    BY <1>7 DEF PassEnds, PassDone, LastPollEnds, GuardDrops, loopVars
  <2>2. QED BY <1>2, <1>3, <2>1, PushedStays
<1>8. ASSUME NEW p \in Passes, NEW i \in Items, PassStep(p, i)
      PROVE  reportsFirst' \/ <<g, ip>> \in deaf' \/ Pushed(g, ip)' \/ Undone(g, ip, n)'
  <2>1. UNCHANGED reportsFirst
    BY <1>8, ItemMoves DEF loopVars
  <2>2. CASE Subscribes(p, i)
    <3>1. PICK q \in Players : q = work[p][i].ip
      BY <1>8, ItemMoves
    <3>2. /\ <<g, ip>> # <<i, q>> => (<<g, ip>> \in deaf' <=> <<g, ip>> \in deaf)
          /\ events' = events \/ \E e \in Events : events' = Append(events, e)
      BY <2>2, <3>1, Pushes
    <3>3. <<g, ip>> = <<i, q>> => Disarms(g, ip)
      BY <2>2, <3>1 DEF Disarms
    <3>4. QED BY <1>2, <1>3, <2>1, <3>2, <3>3, PushedStays
  <2>3. CASE ~Subscribes(p, i)
    <3>1. UNCHANGED <<events, deaf>>
      BY <1>8, <2>3 DEF PassStep, ProbeFails, Reaches, Opens, OpenFails, Reads, Registers, ItemFails,
                        ReadFails, ReportsPlayer, loopVars
    <3>2. QED BY <1>2, <1>3, <2>1, <3>1, PushedStays
  <2>4. QED BY <2>2, <2>3
<1>9. QED BY <1>4, <1>5, <1>6, <1>7, <1>8 DEF OtherStep, LoopStep, ItemStep

(* The loss of ip at the head of the events comes before every push of ip. *)
LEMMA LossIsFirst ==
    ASSUME Typed, NEW g \in Groups, NEW ip \in Players, events # <<>>, Head(events) = LostEvent(ip)
    PROVE  ~Pushed(g, ip)
<1>1. SUFFICES ASSUME NEW n \in 1..Len(events), Tells(events[n], g, ip),
                      \A m \in 1..(n - 1) : events[m] # LostEvent(ip)
               PROVE  FALSE
  BY DEF Pushed
<1>2. Head(events) = events[1] /\ Len(events) \in Nat
  BY HeadTailProperties, EmptySeq DEF Typed, TypeOK
<1>3. n # 1
  BY <1>1, <1>2 DEF Tells, LostEvent
<1>4. 1 \in 1..(n - 1)
  BY <1>2, <1>3
<1>5. QED BY <1>1, <1>2, <1>4

(* Every step of OtherStep keeps what is owed to a group that is registered. *)
LEMMA OwedStep ==
    ASSUME Typed, Typed', Sound, Owed, OtherStep PROVE Owed'
<1>1. \A g \in Groups, ip \in Players : Disarms(g, ip) => Subscribed(g, ip)'
  BY DisarmedIsPushed DEF Subscribed
<1>2. Len(wire) \in Nat
  BY DEF Typed, TypeOK
<1>3. ASSUME NEW g \in Groups, NEW ip \in Players, NEW n \in 1..Len(wire), Registering(wire[n], g, ip)
      PROVE  /\ Subscribed(g, ip)' \/ Undone(g, ip, n)'
             /\ reportsFirst' \/ <<g, ip>> \in deaf' \/ Pushed(g, ip)' \/ Undone(g, ip, n)'
  <2>1. /\ Subscribed(g, ip) \/ Undone(g, ip, n)
        /\ reportsFirst \/ <<g, ip>> \in deaf \/ Pushed(g, ip) \/ Undone(g, ip, n)
    BY <1>3 DEF Owed, RegisteredOwed, ReportGoesFirst
  <2>2. n \in 0..Len(wire)
    BY <1>2
  <2>3. Undone(g, ip, n) => Undone(g, ip, n)' \/ Subscribed(g, ip)'
    BY <1>1, <2>2, UndoneStays
  <2>4. ASSUME TakeLost, Head(events) = LostEvent(ip), deaf' = deaf
        PROVE  Subscribed(g, ip)' \/ Undone(g, ip, n)'
    <3>1. events # <<>> /\ ~reportsFirst
      BY <2>4, OtherArmTyped DEF TakeLost, NextEvent
    <3>2. <<g, ip>> \in deaf \/ Undone(g, ip, n)
      BY <2>1, <2>4, <3>1, LossIsFirst
    <3>3. QED BY <2>3, <2>4, <3>2 DEF Subscribed
  <2>5. Subscribed(g, ip)' \/ Undone(g, ip, n)'
    BY <2>1, <2>3, <2>4, SubscribedStays
  <2>6. QED BY <2>1, <2>5, GoesFirst
<1>4. ASSUME NEW g \in Groups, NEW ip \in Players, NEW n \in 1..Len(wire'), Registering(wire'[n], g, ip)
      PROVE  /\ Subscribed(g, ip)' \/ Undone(g, ip, n)'
             /\ reportsFirst' \/ <<g, ip>> \in deaf' \/ Pushed(g, ip)' \/ Undone(g, ip, n)'
  <2>1. CASE n \in 1..Len(wire) /\ wire'[n] = wire[n]
    BY <1>3, <1>4, <2>1
  <2>2. CASE ~(n \in 1..Len(wire) /\ wire'[n] = wire[n])
    <3>1. PICK r \in Reports : /\ Sends(r)
                               /\ Registering(r, g, ip) => ArmedAt(g, ip)'
      BY <2>2, WhatIsSent
    <3>2. wire'[n] = r
      BY <2>2, <3>1, SentReports
    <3>3. QED BY <1>4, <3>1, <3>2 DEF Undone
  <2>3. QED BY <2>1, <2>2
<1>5. RegisteredOwed' /\ ReportGoesFirst'
  BY <1>4 DEF RegisteredOwed, ReportGoesFirst
<1>6. ASSUME NEW g \in Groups, NEW ip \in Players, regGroups'[g] = ip
      PROVE  g \in DOMAIN topo'.coord /\ (Subscribed(g, ip)' \/ Undone(g, ip, 0)')
  <2>1. ip # Nobody
    BY DeckAssumption
  <2>2. regGroups[g] = ip /\ (g \in DOMAIN topo.coord => g \in DOMAIN topo'.coord)
    <3>1. CASE TakeGroups
      <4>1. /\ topo' = Head(events).topo
            /\ regGroups' = [h \in Groups |-> IF h \in DOMAIN topo'.coord THEN regGroups[h] ELSE Nobody]
        BY <3>1 DEF TakeGroups
      <4>2. QED BY <1>6, <2>1, <4>1
    <3>2. CASE ConnectsAgain
      BY <1>6, <2>1, <3>2 DEF ConnectsAgain, Sound, NothingBetween
    <3>3. CASE Household \/ Recovery \/ PassEnds \/ ItemStep \/ TakeLost \/ TakeState \/ RetryDue
      <4>1. CASE ItemStep
        BY <1>6, <4>1, ItemMoves DEF ItemStep, loopVars
      <4>2. CASE Household \/ Recovery \/ PassEnds \/ TakeLost \/ TakeState \/ RetryDue
        BY <1>6, <4>2
        DEF Household, Recovery, Regroup, Changes, SocketDies, Unplugged, LaneReaches, PingFails, PluggedIn,
            PassEnds, PassDone, LastPollEnds, GuardDrops, TakeLost, TakeState, RetryDue, loopVars
      <4>3. QED BY <3>3, <4>1, <4>2
    <3>4. QED BY <3>1, <3>2, <3>3 DEF OtherStep, LoopStep
  <2>3. g \in DOMAIN topo.coord /\ (Subscribed(g, ip) \/ Undone(g, ip, 0))
    BY <2>2 DEF Owed, WiredOwed
  <2>4. Undone(g, ip, 0) => Undone(g, ip, 0)' \/ Subscribed(g, ip)'
    <3>1. 0 \in 0..Len(wire)
      BY <1>2
    <3>2. QED BY <1>1, <3>1, UndoneStays
  <2>5. ~(TakeLost /\ Head(events) = LostEvent(ip))
    BY <2>2 DEF TakeLost, Matters, LostEvent
  <2>6. QED BY <2>2, <2>3, <2>4, <2>5, SubscribedStays
<1>7. WiredOwed'
  BY <1>6 DEF WiredOwed
<1>8. QED BY <1>5, <1>7 DEF Owed

(* The reports are taken in: what they register is still owed. *)
LEMMA OwedTaken ==
    ASSUME Typed, Owed, TakeReports PROVE Owed'
<1> DEFINE s == After[Len(wire)]
<1>1. /\ wire' = <<>> /\ regGroups' = s.groups
      /\ UNCHANGED <<sock, events, deaf, work, guards, topo>>
  BY DEF TakeReports, passVars
<1>2. Kept(s, Len(wire)) /\ Len(wire) \in Nat
  BY AfterAll DEF Typed, TypeOK
<1> HIDE DEF s
<1>3. Len(wire') = 0
  BY <1>1
<1>4. RegisteredOwed' /\ ReportGoesFirst'
  BY <1>3 DEF RegisteredOwed, ReportGoesFirst
<1>5. ASSUME NEW g \in Groups, NEW ip \in Players, s.groups[g] = ip
      PROVE  g \in DOMAIN topo.coord /\ (Subscribed(g, ip)' \/ Undone(g, ip, 0)')
  <2>1. Subscribed(g, ip)' <=> Subscribed(g, ip)
    BY <1>1 DEF Subscribed, LossComes
  <2>2. \A n \in Nat : Undone(g, ip, n) => Undone(g, ip, 0)' \/ FailsAfter(g, ip, n)
    BY <1>1 DEF Undone, ArmedAt
  <2>3. CASE regGroups[g] = ip /\ \A m \in 1..Len(wire) : ~Fails(wire[m], g, ip)
    <3>1. g \in DOMAIN topo.coord /\ (Subscribed(g, ip) \/ Undone(g, ip, 0))
      BY <2>3 DEF Owed, WiredOwed
    <3>2. ~FailsAfter(g, ip, 0)
      BY <2>3 DEF FailsAfter
    <3>3. QED BY <2>1, <2>2, <3>1, <3>2
  <2>4. ASSUME g \in DOMAIN topo.coord, NEW n \in 1..Len(wire), Registering(wire[n], g, ip),
               \A m \in (n + 1)..Len(wire) : ~Fails(wire[m], g, ip)
        PROVE  Subscribed(g, ip)' \/ Undone(g, ip, 0)'
    <3>1. Subscribed(g, ip) \/ Undone(g, ip, n)
      BY <2>4 DEF Owed, RegisteredOwed
    <3>2. ~FailsAfter(g, ip, n)
      <4>1. \A m \in 1..Len(wire) : n < m => m \in (n + 1)..Len(wire)
        BY <1>2
      <4>2. QED BY <2>4, <4>1 DEF FailsAfter
    <3>3. QED BY <2>1, <2>2, <3>1, <3>2
  <2>5. ip # Nobody
    BY DeckAssumption
  <2>6. QED BY <1>2, <1>5, <2>3, <2>4, <2>5 DEF Kept
<1>6. WiredOwed'
  BY <1>1, <1>5 DEF WiredOwed
<1>7. QED BY <1>4, <1>6 DEF Owed

(* With the session everything goes. *)
LEMMA OwedBail ==
    ASSUME TakeLostAndBail PROVE Owed'
<1>1. wire' = <<>> /\ regGroups' = [g \in Groups |-> Nobody]
  BY DEF TakeLostAndBail
<1>2. Len(wire') = 0 /\ \A g \in Groups, ip \in Players : regGroups'[g] # ip
  BY <1>1, DeckAssumption
<1>3. QED BY <1>2 DEF Owed, WiredOwed, RegisteredOwed, ReportGoesFirst

(* What holds together, whatever happens. *)
IInv == Typed /\ Sound /\ Owed

(* At the start nothing is registered. *)
LEMMA InitOwed ==
    ASSUME Init PROVE IInv
<1>1. wire = <<>> /\ regGroups = [g \in Groups |-> Nobody]
  BY DEF Init
<1>2. Len(wire) = 0 /\ \A g \in Groups, ip \in Players : regGroups[g] # ip
  BY <1>1, DeckAssumption
<1>3. Owed
  BY <1>2 DEF Owed, WiredOwed, RegisteredOwed, ReportGoesFirst
<1>4. QED BY <1>3, InitTyped, InitSound DEF IInv

(* The runtime's steps, the household's and the recovery's, sorted. *)
LEMMA NextSteps == Next => OtherStep \/ TakeReports \/ TakeLostAndBail
BY DEF Next, Runtime, TakeEvent, OtherStep, ItemStep, PassEnds, LoopStep

(* IInv is inductive. *)
LEMMA NextOwed ==
    ASSUME IInv, [Next]_vars PROVE IInv'
<1>1. Typed' /\ Sound'
  BY NextTyped, NextSound DEF IInv
<1>2. CASE Next
  <2>1. Owed'
    BY <1>1, <1>2, NextSteps, OwedStep, OwedTaken, OwedBail DEF IInv
  <2>2. QED BY <1>1, <2>1 DEF IInv
<1>3. CASE UNCHANGED vars
  <2>1. UNCHANGED <<wire, regGroups, sock, events, deaf, work, guards, topo, reportsFirst>>
    BY <1>3 DEF vars, passVars, loopVars
  <2>2. Owed'
    BY <2>1 DEF IInv, Owed, WiredOwed, RegisteredOwed, ReportGoesFirst, Subscribed, Undone, Pushed,
                ArmedAt, FailsAfter, LossComes
  <2>3. QED BY <1>1, <2>2 DEF IInv
<1>4. QED BY <1>2, <1>3

(* A group counted as wired is one of the topology, and it is subscribed on
   its coordinator's socket or something is on its way that takes it off the
   list or ends the session: the Unregister guards and the order of the
   reports (household.rs's wire, Unregister and wired). *)
THEOREM WiredSubscribed == Spec => []WiredIsSubscribed
<1>1. Init => IInv
  BY InitOwed
<1>2. IInv /\ [Next]_vars => IInv'
  BY NextOwed
<1>3. IInv => WiredIsSubscribed
  <2>1. SUFFICES ASSUME IInv, NEW g \in Groups, regGroups[g] # Nobody
                 PROVE  LET ip == regGroups[g] IN
                          /\ g \in DOMAIN topo.coord
                          /\ g \in sock[ip].subs \/ <<g, ip>> \in deaf \/ Undoing(g, ip)
    BY DEF WiredIsSubscribed
  <2>2. PICK ip \in Players : ip = regGroups[g]
    BY <2>1 DEF IInv, Typed, TypeOK
  <2>3. g \in DOMAIN topo.coord /\ (Subscribed(g, ip) \/ Undone(g, ip, 0))
    BY <2>1, <2>2 DEF IInv, Owed, WiredOwed
  <2>4. LossComes(ip) => LostEvent(ip) \in {events[n] : n \in 1..Len(events)}
    BY DEF LossComes
  <2>5. FailsAfter(g, ip, 0) => Reported({"failed"}, g, ip)
    BY DEF FailsAfter, Fails, Reported
  <2>6. QED BY <2>2, <2>3, <2>4, <2>5 DEF Subscribed, Undone, ArmedAt, Undoing, At
<1>4. QED BY <1>1, <1>2, <1>3, PTL DEF Spec

-----------------------------------------------------------------------------
(* What the deck shows of a room.  For a group that is subscribed on a socket
   which has told all: the last event from there carries the state of now, and
   with no event on its way, and none that passed a registration, the
   registrations that wait and what is shown do, or they will be undone. *)

Untold(g, ip) == \A n \in 1..Len(events) : ~Tells(events[n], g, ip)

ToldLast(g, ip) ==
    \A n \in 1..Len(events) :
        (Tells(events[n], g, ip) /\ \A m \in (n + 1)..Len(events) : ~Tells(events[m], g, ip))
        => events[n].val = version[g]

Hears(g, ip) == g \in sock[ip].subs /\ <<g, ip>> \notin deaf

ReadNow(g, ip) ==
    \A n \in 1..Len(wire) :
        Registering(wire[n], g, ip) => wire[n].val = version[g] \/ Undone(g, ip, n)

ShownNow(g, ip) == regGroups[g] = ip => known[g] = version[g] \/ Undone(g, ip, 0)

Heard(g, ip) ==
    Hears(g, ip) =>
        /\ ToldLast(g, ip)
        /\ Untold(g, ip) /\ <<g, ip>> \notin overtaken => ReadNow(g, ip) /\ ShownNow(g, ip)

HeardSound == \A g \in Groups, ip \in Players : Heard(g, ip)

(* An event that says nothing of g at ip. *)
LEMMA AnotherEvent ==
    ASSUME Typed, NEW g \in Groups, NEW ip \in Players, version'[g] = version[g],
           events' = events \/ \E e \in Events : events' = Append(events, e) /\ ~Tells(e, g, ip)
    PROVE  /\ ToldLast(g, ip) => ToldLast(g, ip)'
           /\ Untold(g, ip)' => Untold(g, ip)
<1>1. CASE events' = events
  BY <1>1 DEF ToldLast, Untold
<1>2. ASSUME NEW e \in Events, events' = Append(events, e), ~Tells(e, g, ip)
      PROVE  (ToldLast(g, ip) => ToldLast(g, ip)') /\ (Untold(g, ip)' => Untold(g, ip))
  <2>1. /\ Len(events) \in Nat /\ Len(events') = Len(events) + 1 /\ events'[Len(events) + 1] = e
        /\ \A n \in 1..Len(events) : events'[n] = events[n] /\ n \in 1..Len(events')
    BY <1>2, EventsGrow
  <2>2. Untold(g, ip)' => Untold(g, ip)
    BY <2>1 DEF Untold
  <2>3. ASSUME ToldLast(g, ip), NEW n \in 1..Len(events'), Tells(events'[n], g, ip),
               \A m \in (n + 1)..Len(events') : ~Tells(events'[m], g, ip)
        PROVE  events'[n].val = version'[g]
    <3>1. n \in 1..Len(events)
      BY <1>2, <2>1, <2>3
    <3>2. \A m \in (n + 1)..Len(events) : m \in (n + 1)..Len(events') /\ events'[m] = events[m]
      BY <2>1, <3>1
    <3>3. QED BY <2>1, <2>3, <3>1, <3>2 DEF ToldLast
  <2>4. QED BY <2>2, <2>3 DEF ToldLast
<1>3. QED BY <1>1, <1>2

(* An event with the state of now. *)
LEMMA EventOfNow ==
    ASSUME Typed, NEW g \in Groups, NEW ip \in Players, NEW e \in Events,
           events' = Append(events, e), Tells(e, g, ip), e.val = version'[g]
    PROVE  ToldLast(g, ip)' /\ ~Untold(g, ip)'
<1>1. Len(events) \in Nat /\ Len(events') = Len(events) + 1 /\ events'[Len(events) + 1] = e
  BY EventsGrow
<1>2. ~Untold(g, ip)'
  BY <1>1 DEF Untold
<1>3. ASSUME NEW n \in 1..Len(events'), \A m \in (n + 1)..Len(events') : ~Tells(events'[m], g, ip)
      PROVE  n = Len(events) + 1
  <2>1. n # Len(events) + 1 => Len(events) + 1 \in (n + 1)..Len(events')
    BY <1>1
  <2>2. QED BY <1>1, <1>3, <2>1
<1>4. QED BY <1>1, <1>2, <1>3 DEF ToldLast

(* What waits on the wire and what is shown stay of now, or what undoes them
   stays on its way. *)
LEMMA NowStays ==
    ASSUME Typed, OtherStep, NEW g \in Groups, NEW ip \in Players,
           version'[g] = version[g], ~Disarms(g, ip),
           regGroups'[g] = ip => regGroups[g] = ip /\ known'[g] = known[g]
    PROVE  (ReadNow(g, ip) => ReadNow(g, ip)') /\ (ShownNow(g, ip) => ShownNow(g, ip)')
<1>1. Len(wire) \in Nat
  BY DEF Typed, TypeOK
<1>2. \A n \in 0..Len(wire) : Undone(g, ip, n) => Undone(g, ip, n)'
  BY UndoneStays
<1>3. ASSUME ReadNow(g, ip), NEW n \in 1..Len(wire'), Registering(wire'[n], g, ip)
      PROVE  wire'[n].val = version'[g] \/ Undone(g, ip, n)'
  <2>1. CASE n \in 1..Len(wire) /\ wire'[n] = wire[n]
    <3>1. wire[n].val = version[g] \/ Undone(g, ip, n)
      BY <1>3, <2>1 DEF ReadNow
    <3>2. n \in 0..Len(wire)
      BY <1>1, <2>1
    <3>3. QED BY <1>2, <2>1, <3>1, <3>2
  <2>2. CASE ~(n \in 1..Len(wire) /\ wire'[n] = wire[n])
    <3>1. PICK r \in Reports : Sends(r) /\ (Registering(r, g, ip) => ArmedAt(g, ip)')
      BY <2>2, WhatIsSent
    <3>2. wire'[n] = r
      BY <2>2, <3>1, SentReports
    <3>3. QED BY <1>3, <3>1, <3>2 DEF Undone
  <2>3. QED BY <2>1, <2>2
<1>4. ASSUME ShownNow(g, ip), regGroups'[g] = ip
      PROVE  known'[g] = version'[g] \/ Undone(g, ip, 0)'
  <2>1. 0 \in 0..Len(wire)
    BY <1>1
  <2>2. known[g] = version[g] \/ Undone(g, ip, 0)
    BY <1>4 DEF ShownNow
  <2>3. QED BY <1>2, <1>4, <2>1, <2>2
<1>5. QED BY <1>3, <1>4 DEF ReadNow, ShownNow

(* So a group stays shown as it is by a step that says nothing of it. *)
LEMMA HeardKept ==
    ASSUME Typed, OtherStep, NEW g \in Groups, NEW ip \in Players, Heard(g, ip),
           version'[g] = version[g], ~Disarms(g, ip),
           Hears(g, ip)' => Hears(g, ip),
           events' = events \/ \E e \in Events : events' = Append(events, e) /\ ~Tells(e, g, ip),
           <<g, ip>> \in overtaken => <<g, ip>> \in overtaken',
           regGroups'[g] = ip => regGroups[g] = ip /\ known'[g] = known[g]
    PROVE  Heard(g, ip)'
<1>1. SUFFICES ASSUME Hears(g, ip)'
               PROVE  /\ ToldLast(g, ip)'
                      /\ Untold(g, ip)' /\ <<g, ip>> \notin overtaken'
                         => ReadNow(g, ip)' /\ ShownNow(g, ip)'
  BY DEF Heard
<1>2. /\ ToldLast(g, ip)
      /\ Untold(g, ip) /\ <<g, ip>> \notin overtaken => ReadNow(g, ip) /\ ShownNow(g, ip)
  BY <1>1 DEF Heard
<1>3. ToldLast(g, ip)' /\ (Untold(g, ip)' => Untold(g, ip))
  BY <1>2, AnotherEvent
<1>4. (ReadNow(g, ip) => ReadNow(g, ip)') /\ (ShownNow(g, ip) => ShownNow(g, ip)')
  BY NowStays
<1>5. QED BY <1>2, <1>3, <1>4

(* A group that is subscribed is told the state of now. *)
LEMMA DisarmedIsHeard ==
    ASSUME Typed, Sound, NEW g \in Groups, NEW ip \in Players, Disarms(g, ip)
    PROVE  Heard(g, ip)'
<1>1. PICK p \in Passes : Subscribes(p, g) /\ ip = work[p][g].ip
  BY DEF Disarms
<1>2. g \in Items /\ version'[g] = version[g]
  BY <1>1 DEF Items, Subscribes, worldVars
<1> DEFINE e == StateEvent(g, ip, version[g])
<1>3. <<g, ip>> \in deaf' \/ (e \in Events /\ events' = Append(events, e))
  BY <1>1, <1>2, Pushes
<1>4. Tells(e, g, ip) /\ e.val = version'[g]
  BY <1>2 DEF StateEvent, Tells
<1> HIDE DEF e
<1>5. <<g, ip>> \in deaf' \/ (ToldLast(g, ip)' /\ ~Untold(g, ip)')
  BY <1>3, <1>4, EventOfNow
<1>6. QED BY <1>5 DEF Heard, Hears

(* The items of a pass. *)
LEMMA PassHeard ==
    ASSUME Typed, Sound, NEW p \in Passes, NEW i \in Items, PassStep(p, i),
           NEW g \in Groups, NEW ip \in Players, Heard(g, ip)
    PROVE  Heard(g, ip)'
<1>1. /\ OtherStep
      /\ UNCHANGED <<regGroups, known, overtaken, version>>
  BY ItemMoves DEF OtherStep, ItemStep, loopVars, worldVars
<1>2. CASE Disarms(g, ip)
  BY <1>2, DisarmedIsHeard
<1>3. CASE ~Disarms(g, ip) /\ Subscribes(p, i)
  <2>1. PICK q \in Players : q = work[p][i].ip
    BY ItemMoves
  <2>2. g # i \/ ip # q
    BY <1>3, <2>1 DEF Disarms
  <2> DEFINE e == StateEvent(i, q, version[i])
  <2>3. /\ <<g, ip>> \in deaf' <=> <<g, ip>> \in deaf
        /\ events' = events \/ (e \in Events /\ events' = Append(events, e))
    <3>1. <<g, ip>> # <<i, q>>
      BY <2>2
    <3>2. QED BY <1>3, <2>1, <3>1, Pushes, Zenon
  <2>4. sock' = [sock EXCEPT ![q].subs = @ \cup {i}]
    BY <1>3, <2>1 DEF Subscribes
  <2>5. e.item = i /\ e.ip = q
    BY DEF StateEvent
  <2>6. ~Tells(e, g, ip)
    BY <2>2, <2>5 DEF Tells
  <2> HIDE DEF e
  <2>7. g \in sock'[ip].subs => g \in sock[ip].subs
    BY <2>2, <2>4 DEF Typed, TypeOK
  <2>8. Hears(g, ip)' => Hears(g, ip)
    BY <2>3, <2>7 DEF Hears
  <2>9. QED BY <1>1, <1>3, <2>3, <2>6, <2>8, HeardKept
<1>4. CASE ~Disarms(g, ip) /\ ~Subscribes(p, i)
  <2>1. UNCHANGED <<events, deaf>>
    BY <1>4 DEF PassStep, ProbeFails, Reaches, Opens, OpenFails, Reads, Registers, ItemFails,
                ReadFails, ReportsPlayer, loopVars
  <2>2. sock'[ip].subs = sock[ip].subs
    <3>1. CASE Reaches(p, i) \/ Opens(p, i)
      BY <3>1, ReachingSockets DEF Sound
    <3>2. CASE ~(Reaches(p, i) \/ Opens(p, i))
      BY <1>4, <3>2 DEF PassStep, ProbeFails, OpenFails, Reads, Registers, ItemFails, ReadFails,
                        ReportsPlayer, loopVars
    <3>3. QED BY <3>1, <3>2
  <2>3. Hears(g, ip)' => Hears(g, ip)
    BY <2>1, <2>2 DEF Hears
  <2>4. QED BY <1>1, <1>4, <2>1, <2>3, HeardKept
<1>5. QED BY <1>2, <1>3, <1>4

(* Outside the program. *)
LEMMA OutsideHeard ==
    ASSUME Typed, Typed', Sound, Household \/ Recovery,
           NEW g \in Groups, NEW ip \in Players, Heard(g, ip)
    PROVE  Heard(g, ip)'
<1>1. /\ OtherStep
      /\ UNCHANGED <<regGroups, known, overtaken>>
  BY DEF OtherStep, Household, Recovery, Regroup, Changes, SocketDies, Unplugged, LaneReaches, PingFails,
         PluggedIn, loopVars
<1>2. /\ sock \in Sockets /\ Primary \in Players
      /\ version \in [Items -> Versions] /\ version' \in [Items -> Versions] /\ g \in Items
  BY DeckAssumption DEF Typed, TypeOK, Sockets, Sock, Items
<1> SUFFICES ASSUME ~Disarms(g, ip) PROVE Heard(g, ip)'
  BY DisarmedIsHeard
<1>3. ASSUME NEW e \in Events, ~Tells(e, g, ip), events' = events \/ events' = Append(events, e),
             deaf \subseteq deaf', sock'[ip].subs \subseteq sock[ip].subs, version'[g] = version[g]
      PROVE  Heard(g, ip)'
  <2>1. Hears(g, ip)' => Hears(g, ip)
    BY <1>3 DEF Hears
  <2>2. QED BY <1>1, <1>3, <2>1, HeardKept
<1>4. CASE Regroup
  <2>1. PICK t \in Topologies : Push(Primary, {}, TopologyEvent(t))
    BY <1>4 DEF Regroup
  <2>2. TopologyEvent(t) \in Events /\ ~Tells(TopologyEvent(t), g, ip)
    BY <1>2 DEF TopologyEvent, Events, Tells
  <2>3. /\ deaf \subseteq deaf'
        /\ events' = events \/ events' = Append(events, TopologyEvent(t))
    BY <2>1 DEF Push
  <2>4. UNCHANGED <<sock, version>>
    BY <1>4 DEF Regroup
  <2>5. QED BY <1>3, <2>2, <2>3, <2>4
<1>5. ASSUME NEW i \in Changing, Changes(i) PROVE Heard(g, ip)'
  <2> DEFINE p == Speaks(i)
             asked == {x \in Players : i \in sock[x].subs}
             told == IF sock[p].heard THEN asked \cap {p} ELSE {}
             e == StateEvent(i, p, version'[i])
  <2>1. i \in Items /\ p \in Players
    BY <1>5, DeckAssumption DEF Changes, Typed, TypeOK, Items
  <2>2. /\ version' = [version EXCEPT ![i] = @ + 1] /\ sock' = sock
        /\ events' = IF told # {} THEN Append(events, e) ELSE events
        /\ deaf' = deaf \cup ({i} \X (asked \ told))
    BY <1>5 DEF Changes
  <2>3. e \in Events /\ e.kind = "state" /\ e.item = i /\ e.ip = p /\ e.val = version'[i]
    BY <1>2, <2>1 DEF StateEvent, Events
  <2> HIDE DEF e
  <2>4. CASE g = i
    <3>1. SUFFICES ASSUME Hears(g, ip)' PROVE Heard(g, ip)'
      BY DEF Heard
    <3>2. ip \in asked /\ <<i, ip>> \notin {i} \X (asked \ told)
      BY <2>2, <2>4, <3>1 DEF Hears
    <3>3. ip \in told
      BY <3>2
    <3>4. told # {} /\ ip = p
      BY <3>3
    <3>5. ToldLast(g, ip)' /\ ~Untold(g, ip)'
      BY <2>2, <2>3, <2>4, <3>4, EventOfNow DEF Tells
    <3>6. QED BY <3>5 DEF Heard
  <2>5. CASE g # i
    <3>1. version'[g] = version[g] /\ ~Tells(e, g, ip)
      BY <1>2, <2>2, <2>3, <2>5 DEF Tells
    <3>2. deaf \subseteq deaf' /\ (events' = events \/ events' = Append(events, e))
      BY <2>2
    <3>3. QED BY <1>3, <2>2, <2>3, <3>1, <3>2
  <2>6. QED BY <2>4, <2>5
<1>6. ASSUME NEW q \in Players, Dies(q), version' = version PROVE Heard(g, ip)'
  <2>1. LostEvent(q) \in Events /\ ~Tells(LostEvent(q), g, ip)
    BY DEF LostEvent, Events, Tells
  <2>2. /\ deaf \subseteq deaf'
        /\ events' = events \/ events' = Append(events, LostEvent(q))
    BY <1>6 DEF Dies, Push
  <2>3. sock'[ip].subs \subseteq sock[ip].subs
    BY <1>2, <1>6 DEF Dies, Sockets, Sock
  <2>4. QED BY <1>3, <1>6, <2>1, <2>2, <2>3
<1>7. ASSUME UNCHANGED <<events, deaf, version>>, sock'[ip].subs \subseteq sock[ip].subs
      PROVE  Heard(g, ip)'
  <2>1. Hears(g, ip)' => Hears(g, ip)
    BY <1>7 DEF Hears
  <2>2. QED BY <1>1, <1>7, <2>1, HeardKept
<1>8. ASSUME NEW q \in Players, LaneReaches(q) PROVE Heard(g, ip)'
  <2>1. sock' = [sock EXCEPT ![q] = Replaced(@)] /\ UNCHANGED <<deaf, events, version>>
    BY <1>8 DEF LaneReaches
  <2>2. sock'[ip].subs \subseteq sock[ip].subs
    BY <1>2, <2>1, ReplacedTyped DEF Sockets, Sock
  <2>3. QED BY <1>7, <2>1, <2>2
<1>9. ASSUME NEW q \in Players, Unplugged(q) \/ PluggedIn(q) PROVE Heard(g, ip)'
  <2>1. UNCHANGED <<sock, deaf, events, version>>
    BY <1>9 DEF Unplugged, PluggedIn
  <2>2. QED BY <1>7, <2>1
<1>10. ASSUME NEW q \in Players, SocketDies(q) \/ PingFails(q) PROVE Heard(g, ip)'
  <2>1. Dies(q) /\ version' = version
    BY <1>10 DEF SocketDies, PingFails, worldVars
  <2>2. QED BY <1>6, <2>1
<1>11. QED
  BY <1>4, <1>5, <1>8, <1>9, <1>10, DeckAssumption DEF Household, Recovery

(* The loop takes one event: what the others say is said still, and the one it
   takes had the state of now if none of them tells more. *)
LEMMA EventTaken ==
    ASSUME Typed, NEW g \in Groups, NEW ip \in Players,
           events # <<>>, events' = Tail(events), version'[g] = version[g], ToldLast(g, ip)
    PROVE  /\ ToldLast(g, ip)'
           /\ Untold(g, ip)' => IF Tells(Head(events), g, ip) THEN Head(events).val = version[g]
                                ELSE Untold(g, ip)
<1>1. /\ Len(events) \in Nat /\ Len(events') = Len(events) - 1
      /\ \A k \in 1..Len(events') : k + 1 \in 1..Len(events) /\ events'[k] = events[k + 1]
      /\ Head(events) = events[1] /\ 1 \in 1..Len(events)
      /\ \A n \in 1..Len(events) : n = 1 \/ (n - 1 \in 1..Len(events') /\ events'[n - 1] = events[n])
  BY EventsFall
<1>2. ToldLast(g, ip)'
  <2>1. SUFFICES ASSUME NEW n \in 1..Len(events'), Tells(events'[n], g, ip),
                        \A m \in (n + 1)..Len(events') : ~Tells(events'[m], g, ip)
                 PROVE  events'[n].val = version'[g]
    BY DEF ToldLast
  <2>2. n + 1 \in 1..Len(events) /\ events'[n] = events[n + 1]
    BY <1>1
  <2>3. ASSUME NEW m \in (n + 2)..Len(events) PROVE ~Tells(events[m], g, ip)
    <3>1. m - 1 \in (n + 1)..Len(events') /\ m \in 1..Len(events) /\ m # 1
      <4>1. Len(events) \in Nat /\ Len(events') = Len(events) - 1 /\ n \in 1..Len(events')
        BY <1>1
      <4>2. QED BY <4>1
    <3>2. events'[m - 1] = events[m]
      BY <1>1, <3>1
    <3>3. ~Tells(events'[m - 1], g, ip)
      BY <2>1, <3>1
    <3>4. QED BY <3>2, <3>3
  <2>4. QED BY <2>1, <2>2, <2>3 DEF ToldLast
<1>3. ASSUME Untold(g, ip)'
      PROVE  IF Tells(Head(events), g, ip) THEN Head(events).val = version[g] ELSE Untold(g, ip)
  <2>1. ASSUME NEW m \in 2..Len(events) PROVE ~Tells(events[m], g, ip)
    <3>1. m \in 1..Len(events) /\ m # 1
      BY <1>1
    <3>2. m - 1 \in 1..Len(events') /\ events'[m - 1] = events[m]
      BY <1>1, <3>1
    <3>3. ~Tells(events'[m - 1], g, ip)
      BY <1>3, <3>2 DEF Untold
    <3>4. QED BY <3>2, <3>3
  <2>2. \A m \in 1..Len(events) : m = 1 \/ m \in 2..Len(events)
    BY <1>1
  <2>3. CASE Tells(events[1], g, ip)
    BY <1>1, <2>1, <2>3 DEF ToldLast
  <2>4. CASE ~Tells(events[1], g, ip)
    BY <1>1, <2>1, <2>2, <2>4 DEF Untold
  <2>5. QED BY <2>3, <2>4
<1>4. QED BY <1>2, <1>3

(* The loop takes an event and acts on it. *)
LEMMA EventHeard ==
    ASSUME Typed, Sound, TakeLost \/ TakeGroups \/ TakeState,
           NEW g \in Groups, NEW ip \in Players, Heard(g, ip), ~Disarms(g, ip)
    PROVE  Heard(g, ip)'
<1>1. /\ regGroups \in [Groups -> Players \cup {Nobody}] /\ known \in [Items -> Versions]
      /\ g \in Items /\ g \notin Players /\ ip # Nobody
  BY DeckAssumption DEF Typed, TypeOK, Items
<1>2. /\ events # <<>> /\ events' = Tail(events) /\ wire' = wire
      /\ UNCHANGED <<sock, deaf, version>>
  BY DEF TakeLost, TakeGroups, TakeState, NextEvent, worldVars
<1>3. SUFFICES ASSUME Hears(g, ip)
               PROVE  /\ ToldLast(g, ip)'
                      /\ Untold(g, ip)' /\ <<g, ip>> \notin overtaken'
                         => ReadNow(g, ip)' /\ ShownNow(g, ip)'
  BY <1>2 DEF Heard, Hears
<1>4. /\ ToldLast(g, ip)
      /\ Untold(g, ip) /\ <<g, ip>> \notin overtaken => ReadNow(g, ip) /\ ShownNow(g, ip)
  BY <1>3 DEF Heard
<1>5. /\ ToldLast(g, ip)'
      /\ Untold(g, ip)' => IF Tells(Head(events), g, ip) THEN Head(events).val = version[g]
                           ELSE Untold(g, ip)
  BY <1>2, <1>4, EventTaken
<1>6. regGroups'[g] = ip => regGroups[g] = ip
  BY <1>1 DEF TakeLost, TakeGroups, TakeState
<1>7. OtherStep
  BY DEF OtherStep, LoopStep
<1>8. ASSUME regGroups'[g] = ip => known'[g] = known[g],
             <<g, ip>> \in overtaken => <<g, ip>> \in overtaken', ~Tells(Head(events), g, ip)
      PROVE  Untold(g, ip)' /\ <<g, ip>> \notin overtaken' => ReadNow(g, ip)' /\ ShownNow(g, ip)'
  <2>1. (ReadNow(g, ip) => ReadNow(g, ip)') /\ (ShownNow(g, ip) => ShownNow(g, ip)')
    BY <1>2, <1>6, <1>7, <1>8, NowStays
  <2>2. QED BY <1>4, <1>5, <1>8, <2>1
<1>9. CASE TakeLost \/ TakeGroups
  <2>1. overtaken' = overtaken
    BY <1>9 DEF TakeLost, TakeGroups
  <2>2. regGroups'[g] = ip => known'[g] = known[g]
    BY <1>1, <1>9 DEF TakeLost, TakeGroups
  <2>3. ~Tells(Head(events), g, ip)
    BY <1>9 DEF TakeLost, TakeGroups, NextEvent, Tells
  <2>4. QED BY <1>5, <1>8, <2>1, <2>2, <2>3
<1>10. CASE TakeState
  <2> DEFINE e == Head(events)
  <2>1. /\ known' = IF Accepts(e) THEN [known EXCEPT ![e.item] = e.val] ELSE known
        /\ overtaken' = IF Reported({"group"}, e.item, e.ip) THEN overtaken \cup {<<e.item, e.ip>>}
                        ELSE overtaken \ {<<e.item, e.ip>>}
        /\ e.kind = "state"
    BY <1>10 DEF TakeState, NextEvent
  <2> HIDE DEF e
  <2>2. CASE ~Tells(e, g, ip)
    <3>1. <<g, ip>> # <<e.item, e.ip>>
      BY <2>1, <2>2 DEF Tells
    <3>2. <<g, ip>> \in overtaken => <<g, ip>> \in overtaken'
      BY <2>1, <3>1
    <3>3. regGroups[g] = ip /\ Accepts(e) => e.item # g
      BY <1>1, <2>1, <2>2 DEF Accepts, Tells
    <3>4. regGroups'[g] = ip => known'[g] = known[g]
      BY <1>1, <1>6, <2>1, <3>3
    <3>5. QED BY <1>5, <1>8, <2>2, <3>2, <3>4 DEF e
  <2>3. CASE Tells(e, g, ip) /\ Reported({"group"}, e.item, e.ip)
    <3>1. <<g, ip>> \in overtaken'
      BY <2>1, <2>3 DEF Tells
    <3>2. QED BY <1>5, <3>1
  <2>4. CASE Tells(e, g, ip) /\ ~Reported({"group"}, e.item, e.ip)
    <3>1. \A n \in 1..Len(wire) : ~Registering(wire[n], g, ip)
      BY <2>4 DEF Tells, Reported, Registering
    <3>2. ReadNow(g, ip)'
      BY <1>2, <3>1 DEF ReadNow
    <3>3. ASSUME Untold(g, ip)', regGroups'[g] = ip PROVE known'[g] = version[g]
      <4>1. e.val = version[g]
        BY <1>5, <2>4, <3>3 DEF e
      <4>2. Accepts(e)
        BY <1>6, <2>4, <3>3 DEF Accepts, Tells
      <4>3. QED BY <1>1, <2>1, <2>4, <4>1, <4>2 DEF Tells
    <3>4. Untold(g, ip)' => ShownNow(g, ip)'
      BY <1>2, <3>3 DEF ShownNow
    <3>5. QED BY <1>5, <3>2, <3>4
  <2>5. QED BY <2>2, <2>3, <2>4
<1>11. QED BY <1>9, <1>10

(* The reports are taken in. *)
LEMMA ReportsHeard ==
    ASSUME Typed, TakeReports, NEW g \in Groups, NEW ip \in Players, Heard(g, ip)
    PROVE  Heard(g, ip)'
<1> DEFINE s == After[Len(wire)]
<1>1. Kept(s, Len(wire)) /\ Len(wire) \in Nat /\ ip # Nobody
  BY AfterAll, DeckAssumption DEF Typed, TypeOK
<1>2. /\ regGroups' = s.groups /\ known' = s.known /\ wire' = <<>>
      /\ UNCHANGED <<sock, deaf, events, version, overtaken, work, guards>>
  BY DEF TakeReports, worldVars, passVars
<1> HIDE DEF s
<1>3. Len(wire') = 0
  BY <1>2
<1>4. ReadNow(g, ip)'
  BY <1>3 DEF ReadNow
<1>5. /\ ToldLast(g, ip)' <=> ToldLast(g, ip)
      /\ Untold(g, ip)' <=> Untold(g, ip)
      /\ Hears(g, ip)' <=> Hears(g, ip)
  BY <1>2 DEF ToldLast, Untold, Hears
<1>6. \A n \in Nat : Undone(g, ip, n) => Undone(g, ip, 0)' \/ FailsAfter(g, ip, n)
  BY <1>2 DEF Undone, ArmedAt
<1>7. ASSUME ReadNow(g, ip), ShownNow(g, ip), s.groups[g] = ip
      PROVE  s.known[g] = version[g] \/ Undone(g, ip, 0)'
  <2>1. CASE regGroups[g] = ip /\ s.known[g] = known[g] /\ \A m \in 1..Len(wire) : ~Fails(wire[m], g, ip)
    <3>1. known[g] = version[g] \/ Undone(g, ip, 0)
      BY <1>7, <2>1 DEF ShownNow
    <3>2. ~FailsAfter(g, ip, 0)
      BY <2>1 DEF FailsAfter
    <3>3. QED BY <1>6, <2>1, <3>1, <3>2
  <2>2. ASSUME NEW n \in 1..Len(wire), Registering(wire[n], g, ip), s.known[g] = wire[n].val,
               \A m \in (n + 1)..Len(wire) : ~Fails(wire[m], g, ip)
        PROVE  s.known[g] = version[g] \/ Undone(g, ip, 0)'
    <3>1. wire[n].val = version[g] \/ Undone(g, ip, n)
      BY <1>7, <2>2 DEF ReadNow
    <3>2. \A m \in 1..Len(wire) : n < m => m \in (n + 1)..Len(wire)
      BY <1>1
    <3>3. ~FailsAfter(g, ip, n)
      BY <2>2, <3>2 DEF FailsAfter
    <3>4. QED BY <1>6, <2>2, <3>1, <3>3
  <2>3. QED BY <1>1, <1>7, <2>1, <2>2 DEF Kept
<1>8. ReadNow(g, ip) /\ ShownNow(g, ip) => ShownNow(g, ip)'
  BY <1>2, <1>7 DEF ShownNow
<1>9. QED BY <1>2, <1>4, <1>5, <1>8 DEF Heard

(* The end of a pass, a retry and a new session. *)
LEMMA OthersHeard ==
    ASSUME Typed, Sound, PassEnds \/ RetryDue \/ ConnectsAgain,
           NEW g \in Groups, NEW ip \in Players, Heard(g, ip), ~Disarms(g, ip)
    PROVE  Heard(g, ip)'
<1>1. OtherStep
  BY DEF OtherStep, LoopStep
<1>2. CASE PassEnds \/ RetryDue
  <2>1. UNCHANGED <<sock, deaf, events, version, regGroups, known, overtaken>>
    BY <1>2 DEF PassEnds, PassDone, LastPollEnds, GuardDrops, RetryDue, worldVars, loopVars
  <2>2. Hears(g, ip)' <=> Hears(g, ip)
    BY <2>1 DEF Hears
  <2>3. QED BY <1>1, <2>1, <2>2, HeardKept
<1>3. CASE ConnectsAgain
  <2>1. sock'[ip].subs = {}
    BY <1>3, FollowsTyped DEF ConnectsAgain
  <2>2. QED BY <2>1 DEF Heard, Hears
<1>4. QED BY <1>2, <1>3

(* Whatever happens. *)
LEMMA NextHeard ==
    ASSUME IInv, HeardSound, [Next]_vars PROVE HeardSound'
<1>1. Typed /\ Typed' /\ Sound
  BY NextTyped DEF IInv
<1> SUFFICES ASSUME NEW g \in Groups, NEW ip \in Players PROVE Heard(g, ip)'
  BY DEF HeardSound
<1>2. Heard(g, ip)
  BY DEF HeardSound
<1>3. CASE UNCHANGED vars
  BY <1>2, <1>3
  DEF vars, worldVars, passVars, loopVars, Heard, Hears, ToldLast, Untold, ReadNow, ShownNow, Undone,
      ArmedAt, FailsAfter
<1>4. CASE Disarms(g, ip)
  BY <1>1, <1>4, DisarmedIsHeard
<1>5. CASE TakeReports
  BY <1>1, <1>2, <1>5, ReportsHeard
<1>6. CASE TakeLostAndBail
  <2>1. sock'[ip].subs = {}
    BY <1>6 DEF TakeLostAndBail, NoSocket
  <2>2. QED BY <2>1 DEF Heard, Hears
<1>7. CASE OtherStep /\ ~Disarms(g, ip)
  BY <1>1, <1>2, <1>7, PassHeard, OutsideHeard, EventHeard, OthersHeard
  DEF OtherStep, LoopStep, ItemStep
<1>8. QED BY <1>3, <1>4, <1>5, <1>6, <1>7, NextSteps

(* A room that is followed on a forwarded socket shows the state its
   coordinator has whenever nothing is under way: no order of the reads, the
   registration, the subscriptions and the loop's arms loses a change
   (household.rs:807-808, 1242-1246), but for an event that passed its
   registration between the polls of two arms, until the next one comes. *)
THEOREM RoomsCurrent == Spec => []HeardRoomsAreCurrent
<1>1. Init => IInv /\ HeardSound
  <2>1. ASSUME Init PROVE HeardSound
    <3>1. \A p \in Players : sock[p].subs = {}
      BY <2>1, FollowsTyped DEF Init
    <3>2. QED BY <3>1 DEF HeardSound, Heard, Hears
  <2>2. QED BY <2>1, InitOwed
<1>2. IInv /\ HeardSound /\ [Next]_vars => IInv' /\ HeardSound'
  BY NextOwed, NextHeard
<1>3. IInv /\ HeardSound => HeardRoomsAreCurrent
  <2>1. SUFFICES ASSUME IInv, HeardSound, Quiet, NEW g \in DOMAIN topo.coord, regGroups[g] # Nobody,
                        <<g, regGroups[g]>> \notin deaf \cup overtaken
                 PROVE  known[g] = version[g]
    BY DEF HeardRoomsAreCurrent
  <2>2. g \in Groups /\ g \in Items
    BY <2>1, DeckAssumption DEF IInv, Typed, TypeOK, Items
  <2>3. PICK ip \in Players : ip = regGroups[g]
    BY <2>1, <2>2 DEF IInv, Typed, TypeOK
  <2>4. Len(wire) = 0 /\ Len(events) = 0 /\ guards = {}
    BY <2>1 DEF Quiet
  <2>5. ~Undone(g, ip, 0)
    <3>1. work["running"][g].pc = "off"
      BY <2>1, <2>2 DEF Quiet, IInv, Sound, ItemsHaveAPass
    <3>2. work["aborted"][g].pc = "off"
      BY <2>1, <2>2, OffTyped DEF Quiet, Nothing
    <3>3. QED BY <2>4, <3>1, <3>2 DEF Undone, ArmedAt, FailsAfter, Passes
  <2>6. Hears(g, ip)
    <3>1. Subscribed(g, ip)
      BY <2>1, <2>2, <2>3, <2>5 DEF IInv, Owed, WiredOwed
    <3>2. QED BY <2>1, <2>3, <2>4, <3>1 DEF Subscribed, LossComes, Hears
  <2>7. Heard(g, ip) /\ Untold(g, ip)
    BY <2>1, <2>2, <2>3, <2>4 DEF HeardSound, Untold
  <2>8. ShownNow(g, ip)
    BY <2>1, <2>3, <2>6, <2>7 DEF Heard
  <2>9. QED BY <2>3, <2>5, <2>8 DEF ShownNow
<1>4. QED BY <1>1, <1>2, <1>3, PTL DEF Spec
=============================================================================

----------------------------- MODULE DeckWiring -----------------------------
(***************************************************************************)
(* The deck's runtime while it follows a household                         *)
(* (deck/src/household.rs): the loop that folds events in, the wiring pass *)
(* that reaches the coordinators and the speakers and subscribes them, the *)
(* retry of what a pass could not subscribe, and the sockets under both.   *)
(*                                                                         *)
(* A speaker stands for its address.  A pass is one task whose items, the  *)
(* groups first and then the players, run concurrently; each action below  *)
(* is a stretch of an item between two awaits, or what it sends after one. *)
(* A pass that is aborted while a worker polls it goes on to the end of    *)
(* that poll.  Durations are left out: a retry that is due may start at    *)
(* any time.                                                               *)
(***************************************************************************)
EXTENDS Integers, Sequences

CONSTANTS
    Groups,       \* group ids
    Players,      \* speakers, each standing for its address
    Primary,      \* the speaker the session is opened on
    Topologies,   \* [coord : groups of the moment -> coordinator, players : listed]
    FirstTopology,
    Fragile,      \* the speakers whose sockets may die
    Changing,     \* the groups and speakers whose state may change
    MaxTurns,     \* things the household and the lanes do in a behaviour
    MaxDelays     \* times a worker is held up in a behaviour

Nobody == "nobody"   \* no address

ASSUME DeckAssumption ==
    /\ Groups \cap Players = {}
    /\ Nobody \notin Players
    /\ Primary \in Players
    /\ FirstTopology \in Topologies
    /\ Fragile \subseteq Players
    /\ Changing \subseteq Groups \cup Players
    /\ \A t \in Topologies : /\ DOMAIN t.coord \subseteq Groups
                             /\ \A g \in DOMAIN t.coord : t.coord[g] \in t.players
                             /\ t.players \subseteq Players
    /\ MaxTurns \in Nat /\ MaxDelays \in Nat

Items == Groups \cup Players
Passes == {"running", "aborted"}
Off == [pc |-> "off", ip |-> Nobody, conn |-> 0, val |-> 0]

VARIABLES
    \* the household, outside this program
    world,        \* the topology as the household has it
    version,      \* [Items -> the state of a group, the volume of a speaker]
    plugged,      \* the speakers that answer
    \* the sockets of the session's pool
    sock,         \* [Players -> [up, epoch, heard, subs]]
    turns,        \* turns the household still has
    delays,       \* times a worker may still be held up between two polls, or in one
    deaf,         \* (ghost) <<item, speaker>>: its socket did not bring the last change
    \* the passes
    passOn,       \* [Passes -> it has its end to report]
    work,         \* [Passes -> [Items -> where its item is]]
    failed,       \* [Passes -> the addresses that did not answer it]
    guards,       \* Unregister guards of aborted passes, not dropped yet
    \* the channels to the loop
    wire,         \* the passes' reports
    events,       \* every forwarded socket's events
    \* the loop
    status,       \* "following" or "looking" (between two sessions)
    topo,         \* household.groups
    known,        \* household.live and player_volumes, 0 while absent
    regGroups,    \* wiring.groups, Nobody while absent
    regPlayers,   \* wiring.players
    forwarded,    \* wiring.forwarded
    retry,        \* [running, due]: Retry.pass_running and at.is_some()
    reportsFirst, \* the last arm left reports waiting: the next poll takes them
    overtaken     \* (ghost) <<group, speaker>>: an event passed its registration

worldVars == <<world, version, plugged, turns>>
passVars == <<passOn, work, failed, guards>>

loopVars == <<status, topo, known, regGroups, regPlayers, retry, reportsFirst, overtaken>>
vars == <<worldVars, delays, sock, deaf, passVars, wire, events, loopVars, forwarded>>

-----------------------------------------------------------------------------
(* What the topology asks for and the wiring lacks. *)

UnwiredGroups(t, groups) == {g \in DOMAIN t.coord : groups[g] # t.coord[g]}
UnwiredPlayers(t, players) == t.players \ players
Unwired(t, groups, players) ==
    UnwiredGroups(t, groups) # {} \/ UnwiredPlayers(t, players) # {}

Settle_OnlyWhatIsDue(running, due, unwired) == [running |-> running, due |-> unwired /\ due]

(* Retry::settle, at the end of every arm of the loop. *)
Settle(running, due, unwired) ==
    [running |-> running, due |-> unwired /\ (due \/ ~running)]

Item(i, ip) == [pc |-> "reach", ip |-> ip, conn |-> 0, val |-> 0]
Nothing == [i \in Items |-> Off]

(* A pass is given everything unwired. *)
PassOver(t, groups, players) ==
    [i \in Items |->
        CASE i \in UnwiredGroups(t, groups) -> Item(i, t.coord[i])
          [] i \in UnwiredPlayers(t, players) -> Item(i, i)
          [] OTHER -> Off]

(* The guards armed in pass p. *)
Armed(p) == {[group |-> g, ip |-> work[p][g].ip] :
                g \in {h \in Groups : work[p][h].pc = "subscribe"}}

(* Players wait for the groups (two join_alls). *)
Turn(p, i) == i \in Groups \/ \A g \in Groups : work[p][g].pc = "off"

(* A worker may be held up where no await parts two steps of it. *)
HeldUp(times) == times <= delays /\ delays' = delays - times
Times(happens) == IF happens THEN 1 ELSE 0

(* abort() only marks the running pass: when a worker is polling it, it is
   polled to the end, which carries one item on, item i (a bound), and the
   pass to its end when that was the last.  Nobody: it is not being polled. *)
BecomesAborted(i) ==
    /\ i = Nobody \/ (passOn["running"] /\ Turn("running", i))
    /\ passOn' = [running |-> TRUE,
                  aborted |-> i # Nobody /\ \A j \in Items \ {i} : work["running"][j] = Off]
    /\ failed' = [running |-> {}, aborted |-> failed["running"]]

StartPass_NoGuard(t, groups, players, times) ==
    /\ BecomesAborted(Nobody)
    /\ work' = [running |-> PassOver(t, groups, players), aborted |-> Nothing]
    /\ HeldUp(times)
    /\ UNCHANGED guards

(* start_pass: a new pass over everything unwired takes the place of the one
   that runs.  What is dropped leaves its armed guards to drop later; a pass
   aborted earlier is over by then (a bound). *)
StartPass(t, groups, players, times) ==
    \E i \in Items \cup {Nobody} :
        /\ BecomesAborted(i)
        /\ work' = [running |-> PassOver(t, groups, players),
                    aborted |-> [j \in Items |-> IF j = i THEN work["running"][j] ELSE Off]]
        /\ guards' = guards \cup Armed("aborted") \cup {x \in Armed("running") : x.group # i}
        /\ HeldUp(times + Times(i # Nobody))

-----------------------------------------------------------------------------
(* A socket of the pool: whether a forwarder copies its events, and what is
   subscribed on it. *)
NoSocket == [up |-> FALSE, epoch |-> 0, heard |-> FALSE, subs |-> {}]
Replaced(s) == [up |-> TRUE, epoch |-> s.epoch + 1, heard |-> FALSE, subs |-> {}]
Follows == [p \in Players |->
    IF p = Primary THEN [up |-> TRUE, epoch |-> 1, heard |-> TRUE, subs |-> {}] ELSE NoSocket]

TopologyEvent(t) == [kind |-> "groups", ip |-> Primary, topo |-> t]
StateEvent(i, ip, v) == [kind |-> "state", ip |-> ip, item |-> i, val |-> v]
LostEvent(ip) == [kind |-> "lost", ip |-> ip]

Init ==
    /\ world = FirstTopology
    /\ deaf = {}
    /\ version = [i \in Items |-> 1]
    /\ plugged = Players
    /\ turns = MaxTurns
    /\ delays = MaxDelays
    /\ sock = Follows
    /\ passOn = [p \in Passes |-> p = "running"]
    /\ work = [running |-> PassOver(world, [g \in Groups |-> Nobody], {}), aborted |-> Nothing]
    /\ failed = [p \in Passes |-> {}]
    /\ guards = {}
    /\ wire = <<>>
    /\ events = <<>>
    /\ status = "following"
    /\ topo = world
    /\ known = [i \in Items |-> 0]
    /\ regGroups = [g \in Groups |-> Nobody]
    /\ regPlayers = {}
    /\ forwarded = {Primary}
    /\ retry = [running |-> TRUE, due |-> FALSE]
    /\ reportsFirst = FALSE
    /\ overtaken = {}

-----------------------------------------------------------------------------
(* The household acts on its own, and so do the lanes of the commands. *)

TakesTurn == turns > 0 /\ turns' = turns - 1

(* A push for items, on ip's socket, reaches the loop's channel when the
   socket has a forwarder. *)
Push(ip, items, event) ==
    /\ events' = IF sock[ip].up /\ sock[ip].heard THEN Append(events, event) ELSE events
    /\ deaf' = IF sock[ip].heard THEN deaf ELSE deaf \cup (items \X {ip})

Regroup ==
    /\ TakesTurn
    /\ \E t \in Topologies :
        /\ world' = t
        /\ Push(Primary, {}, TopologyEvent(t))
    /\ UNCHANGED <<version, plugged, sock, passVars, wire, loopVars, forwarded, delays>>

(* The speaker whose socket group or player i is followed on. *)
Speaks(i) == IF i \in Players THEN i
             ELSE IF i \in DOMAIN world.coord THEN world.coord[i] ELSE Nobody

(* It is pushed by the speaker that has it now, on its socket; any other one
   that was subscribed while it coordinated the group pushes nothing. *)
Changes(i) ==
    LET ip == Speaks(i)
        asked == {p \in Players : i \in sock[p].subs}
        told == IF sock[ip].heard THEN asked \cap {ip} ELSE {} IN
    /\ TakesTurn
    /\ ip \in plugged
    /\ version' = [version EXCEPT ![i] = @ + 1]
    /\ events' = IF told # {} THEN Append(events, StateEvent(i, ip, version'[i])) ELSE events
    /\ deaf' = deaf \cup ({i} \X (asked \ told))
    /\ UNCHANGED <<world, plugged, sock, passVars, wire, loopVars, forwarded, delays>>

Dies(ip) ==
    /\ sock[ip].up
    /\ sock' = [sock EXCEPT ![ip].up = FALSE, ![ip].subs = {}]
    /\ Push(ip, sock[ip].subs, LostEvent(ip))

(* The connection's reader ends; the speaker itself may answer again at once. *)
SocketDies(ip) ==
    /\ TakesTurn
    /\ Dies(ip)
    /\ UNCHANGED <<world, version, plugged, passVars, wire, loopVars, forwarded, delays>>

Unplugged(ip) ==
    /\ TakesTurn
    /\ ip \in plugged
    /\ plugged' = plugged \ {ip}
    /\ UNCHANGED <<world, version, sock, passVars, wire, events, deaf, loopVars, forwarded, delays>>

(* The ping goes unanswered on the socket of a speaker that is gone. *)
PingFails(ip) ==
    /\ ip \notin plugged
    /\ Dies(ip)
    /\ UNCHANGED <<worldVars, delays, passVars, wire, loopVars, forwarded>>

PluggedIn(ip) ==
    /\ ip \notin plugged
    /\ ~sock[ip].up
    /\ plugged' = plugged \cup {ip}
    /\ UNCHANGED <<world, version, turns, sock, passVars, wire, events, deaf, loopVars, forwarded, delays>>

(* A command in a lane reaches a speaker through the same pool: a socket of
   the session's, on which nobody forwards.  The primary has none but its own. *)
LaneReaches(ip) ==
    /\ TakesTurn
    /\ ip # Primary
    /\ status = "following"
    /\ ~sock[ip].up
    /\ ip \in plugged
    /\ sock' = [sock EXCEPT ![ip] = Replaced(@)]
    /\ UNCHANGED <<world, version, plugged, passVars, wire, events, deaf, loopVars, forwarded, delays>>

-----------------------------------------------------------------------------
(* The items of pass p. *)

Live(p, i) == LET s == sock[work[p][i].ip] IN s.up /\ s.epoch = work[p][i].conn
Answers(p, i) == /\ Live(p, i)
                 /\ work[p][i].ip \in plugged
                 /\ Speaks(i) = work[p][i].ip

At(p, i, pc) == work[p][i].pc = pc
MovesTo(p, i, pc) == work' = [work EXCEPT ![p][i].pc = pc]
Finish(p, i) == work' = [work EXCEPT ![p][i] = Off]
Sends(report) == wire' = Append(wire, report)

(* Pass::reach has a connection in hand: the address gets a forwarder, on this
   connection, unless it is down as having one. *)
Forwarding(p, i, s) ==
    LET ip == work[p][i].ip IN
    /\ work' = [work EXCEPT ![p][i].pc = "read", ![p][i].conn = s.epoch]
    /\ sock' = [sock EXCEPT ![ip] =
                  [s EXCEPT !.heard = @ \/ ip \notin forwarded]]
    /\ forwarded' = forwarded \cup {ip}

(* Not forwarded and not answering the probe: left alone for this pass. *)
ProbeFails(p, i) ==
    LET ip == work[p][i].ip IN
    /\ At(p, i, "reach") /\ Turn(p, i)
    /\ ip \notin forwarded
    /\ ip \in failed[p] \/ ip \notin plugged
    /\ Finish(p, i)
    /\ failed' = [failed EXCEPT ![p] = @ \cup {ip}]
    /\ UNCHANGED <<worldVars, delays, sock, passOn, guards, wire, events, deaf, loopVars, forwarded>>

(* The pool's own socket while it is alive; the primary's whether it is or not. *)
Reaches(p, i) ==
    LET ip == work[p][i].ip IN
    /\ At(p, i, "reach") /\ Turn(p, i)
    /\ ip \in forwarded \/ (ip \notin failed[p] /\ ip \in plugged)
    /\ IF sock[ip].up \/ ip = Primary
       THEN Forwarding(p, i, sock[ip])
       ELSE MovesTo(p, i, "opening") /\ UNCHANGED <<sock, forwarded>>
    /\ UNCHANGED <<worldVars, delays, passOn, failed, guards, wire, events, deaf, loopVars>>

(* Pool::reach has opened one, or finds that another caller has. *)
Opens(p, i) ==
    LET ip == work[p][i].ip IN
    /\ At(p, i, "opening")
    /\ ip \in plugged
    /\ Forwarding(p, i, IF sock[ip].up THEN sock[ip] ELSE Replaced(sock[ip]))
    /\ UNCHANGED <<worldVars, delays, passOn, failed, guards, wire, events, deaf, loopVars>>

OpenFails(p, i) ==
    /\ At(p, i, "opening")
    /\ work[p][i].ip \notin plugged
    /\ Finish(p, i)
    /\ UNCHANGED <<worldVars, delays, sock, passOn, failed, guards, wire, events, deaf, loopVars, forwarded>>

(* The speaker's answer to the reads. *)
Reads(p, i) ==
    /\ At(p, i, "read")
    /\ Answers(p, i)
    /\ work' = [work EXCEPT ![p][i].val = version[i],
                            ![p][i].pc = IF i \in Groups THEN "register" ELSE "subscribe"]
    /\ UNCHANGED <<worldVars, delays, sock, passOn, failed, guards, wire, events, deaf, loopVars, forwarded>>

(* A group is reported before it is subscribed, and its guard is armed. *)
Registers(p, g) ==
    /\ At(p, g, "register")
    /\ MovesTo(p, g, "subscribe")
    /\ Sends([kind |-> "group", item |-> g, ip |-> work[p][g].ip, val |-> work[p][g].val])
    /\ UNCHANGED <<worldVars, delays, sock, passOn, failed, guards, events, deaf, loopVars, forwarded>>

(* The speaker takes the subscription and pushes the state it has.  A group's
   guard is disarmed; a player is still to be reported. *)
Subscribes(p, i) ==
    /\ At(p, i, "subscribe")
    /\ Answers(p, i)
    /\ LET ip == work[p][i].ip IN
        /\ sock' = [sock EXCEPT ![ip].subs = @ \cup {i}]
        /\ events' = IF sock[ip].heard
                     THEN Append(events, StateEvent(i, ip, version[i])) ELSE events
        /\ deaf' = IF sock[ip].heard THEN deaf \ {<<i, ip>>} ELSE deaf \cup {<<i, ip>>}
    /\ IF i \in Groups THEN Finish(p, i) ELSE MovesTo(p, i, "report")
    /\ UNCHANGED <<worldVars, delays, passOn, failed, guards, wire, loopVars, forwarded>>

ReportsPlayer(p, i) ==
    /\ At(p, i, "report")
    /\ Sends([kind |-> "player", item |-> i, ip |-> i, val |-> work[p][i].val])
    /\ Finish(p, i)
    /\ UNCHANGED <<worldVars, delays, sock, passOn, failed, guards, events, deaf, loopVars, forwarded>>

FailedUpdate(g, ip) == [kind |-> "failed", item |-> g, ip |-> ip, val |-> 0]

(* The socket died, nothing came in time, or the speaker refuses a group it
   does not coordinate. *)
Refused(p, i) == ~Answers(p, i)

(* A player's volume that could not be read is left out of its report. *)
ReadFails(p, i) ==
    /\ At(p, i, "read")
    /\ Refused(p, i)
    /\ MovesTo(p, i, "subscribe")
    /\ UNCHANGED <<worldVars, delays, sock, passOn, failed, guards, wire, events, deaf, loopVars, forwarded>>

(* Any other failure ends the item: an armed guard drops with it. *)
ItemFails(p, i) ==
    /\ At(p, i, "subscribe") \/ (At(p, i, "read") /\ i \in Groups)
    /\ Refused(p, i)
    /\ Finish(p, i)
    /\ IF i \in Groups /\ At(p, i, "subscribe")
       THEN Sends(FailedUpdate(i, work[p][i].ip)) ELSE UNCHANGED wire
    /\ UNCHANGED <<worldVars, delays, sock, passOn, failed, guards, events, deaf, loopVars, forwarded>>

PassDone(p) ==
    /\ passOn[p]
    /\ work[p] = Nothing
    /\ passOn' = [passOn EXCEPT ![p] = FALSE]
    /\ failed' = [failed EXCEPT ![p] = {}]
    /\ Sends([kind |-> "done", item |-> Nobody, ip |-> Nobody, val |-> 0])
    /\ UNCHANGED <<worldVars, delays, sock, work, guards, events, deaf, loopVars, forwarded>>

(* The poll of the aborted pass is over: its task is dropped. *)
LastPollEnds ==
    /\ passOn["aborted"] \/ work["aborted"] # Nothing
    /\ passOn' = [passOn EXCEPT !["aborted"] = FALSE]
    /\ work' = [work EXCEPT !["aborted"] = Nothing]
    /\ failed' = [failed EXCEPT !["aborted"] = {}]
    /\ guards' = guards \cup Armed("aborted")
    /\ UNCHANGED <<worldVars, delays, sock, wire, events, deaf, loopVars, forwarded>>

(* Unregister::drop in a pass that was aborted. *)
GuardDrops ==
    \E x \in guards :
        /\ guards' = guards \ {x}
        /\ Sends(FailedUpdate(x.group, x.ip))
        /\ UNCHANGED <<worldVars, delays, sock, passOn, work, failed, events, deaf, loopVars, forwarded>>

-----------------------------------------------------------------------------
(* The loop. *)

(* wired: one report taken in, against the topology of now. *)
Wired(s, u) ==
    CASE u.kind = "group" ->
           IF u.item \in DOMAIN topo.coord /\ topo.coord[u.item] = u.ip
           THEN [s EXCEPT !.groups[u.item] = u.ip, !.known[u.item] = u.val] ELSE s
      [] u.kind = "failed" ->
           IF s.groups[u.item] = u.ip THEN [s EXCEPT !.groups[u.item] = Nobody] ELSE s
      [] u.kind = "player" ->
           IF u.item \in topo.players
           THEN [s EXCEPT !.players = @ \cup {u.item},
                          !.known[u.item] = IF u.val = 0 THEN @ ELSE u.val] ELSE s
      [] u.kind = "done" -> [s EXCEPT !.running = FALSE]

(* The wiring once the first n of the reports that wait are taken in. *)
After[n \in 0..Len(wire)] ==
    IF n = 0 THEN [groups |-> regGroups, players |-> regPlayers, known |-> known,
                   running |-> retry.running]
    ELSE Wired(After[n - 1], wire[n])

(* The first arm: every report that is waiting. *)
TakeReports ==
    /\ status = "following"
    /\ wire # <<>>
    /\ LET s == After[Len(wire)] IN
        /\ regGroups' = s.groups
        /\ regPlayers' = s.players
        /\ known' = s.known
        /\ retry' = Settle(s.running, retry.due, Unwired(topo, s.groups, s.players))
    /\ wire' = <<>>
    /\ reportsFirst' = FALSE
    /\ UNCHANGED <<worldVars, delays, sock, passVars, events, deaf, status, topo, forwarded, overtaken>>

(* The arms are polled one after the other, the reports first and the retry
   last.  An arm is taken when the ones before it had nothing when they were
   polled: what they have now came since (the worker was held up), and reports
   that the last arm left waiting are polled before any other arm. *)
ReportsPolled ==
    /\ status = "following"
    /\ ~reportsFirst

OtherArm ==
    /\ ReportsPolled
    /\ reportsFirst' = (wire # <<>>)

NextEvent(kind) ==
    /\ OtherArm
    /\ events # <<>>
    /\ Head(events).kind = kind
    /\ events' = Tail(events)
    /\ UNCHANGED deaf

Reported(kinds, i, ip) ==
    \E n \in 1..Len(wire) : wire[n].kind \in kinds /\ wire[n].item = i /\ wire[n].ip = ip

(* A loss of the primary or of a coordinator ends the session: the passes go
   with it, and session.close() closes every socket. *)
Matters(ip) == ip = Primary \/ \E g \in Groups : regGroups[g] = ip

TakeLostAndBail ==
    /\ ReportsPolled
    /\ events # <<>>
    /\ Head(events).kind = "lost"
    /\ Matters(Head(events).ip)
    /\ status' = "looking"
    /\ events' = <<>> /\ wire' = <<>> /\ deaf' = {} /\ overtaken' = {}
    /\ passOn' = [p \in Passes |-> FALSE] /\ work' = [p \in Passes |-> Nothing]
    /\ failed' = [p \in Passes |-> {}] /\ guards' = {}
    /\ sock' = [p \in Players |-> NoSocket]
    /\ known' = [i \in Items |-> 0]
    /\ regGroups' = [g \in Groups |-> Nobody] /\ regPlayers' = {} /\ forwarded' = {}
    /\ retry' = [running |-> FALSE, due |-> FALSE]
    /\ HeldUp(Times(wire # <<>>))
    /\ UNCHANGED <<worldVars, topo, reportsFirst>>

TakeLost ==
    /\ NextEvent("lost") /\ HeldUp(Times(wire # <<>>))
    /\ LET ip == Head(events).ip IN
        /\ ~Matters(ip)
        /\ forwarded' = forwarded \ {ip}
        /\ regPlayers' = regPlayers \ {ip}
    /\ retry' = Settle(retry.running, retry.due, Unwired(topo, regGroups, regPlayers'))
    /\ UNCHANGED <<worldVars, sock, passVars, wire, status, topo, known, regGroups, overtaken>>

TakeGroups ==
    /\ NextEvent("groups")
    /\ LET t == Head(events).topo
           keep(g) == g \in DOMAIN t.coord IN
        /\ topo' = t
        /\ regGroups' = [g \in Groups |-> IF keep(g) THEN regGroups[g] ELSE Nobody]
        /\ known' = [i \in Items |-> IF i \in Players \/ keep(i) THEN known[i] ELSE 0]
    /\ StartPass(topo', regGroups', regPlayers, Times(wire # <<>>))
    /\ retry' = Settle(TRUE, FALSE, Unwired(topo', regGroups', regPlayers))
    /\ UNCHANGED <<worldVars, sock, wire, status, regPlayers, forwarded, overtaken>>

Accepts_FromPrimary(e) == e.item \in Players \/ e.ip = Primary

(* apply: a group's event is taken from its coordinator's socket alone. *)
Accepts(e) == e.item \in Players \/ regGroups[e.item] = e.ip

TakeState ==
    /\ NextEvent("state") /\ HeldUp(Times(wire # <<>>))
    /\ LET e == Head(events) IN
        /\ known' = IF Accepts(e) THEN [known EXCEPT ![e.item] = e.val] ELSE known
        /\ overtaken' = IF Reported({"group"}, e.item, e.ip) THEN overtaken \cup {<<e.item, e.ip>>}
                        ELSE overtaken \ {<<e.item, e.ip>>}
    /\ retry' = Settle(retry.running, retry.due, Unwired(topo, regGroups, regPlayers))
    /\ UNCHANGED <<worldVars, sock, passVars, wire, status, topo, regGroups, regPlayers, forwarded>>

RetryDue ==
    /\ OtherArm
    /\ retry.due
    /\ StartPass(topo, regGroups, regPlayers, Times(wire # <<>> \/ events # <<>>))
    /\ retry' = Settle(TRUE, FALSE, Unwired(topo, regGroups, regPlayers))
    /\ UNCHANGED <<worldVars, sock, wire, events, deaf, status, topo, known, regGroups, regPlayers, forwarded, overtaken>>

(* run: a new session, and a new wiring that knows nothing. *)
ConnectsAgain ==
    /\ status = "looking"
    /\ Primary \in plugged
    /\ status' = "following"
    /\ sock' = Follows
    /\ topo' = world
    /\ forwarded' = {Primary}
    /\ StartPass(topo', regGroups, regPlayers, 0)
    /\ retry' = [running |-> TRUE, due |-> FALSE]
    /\ UNCHANGED <<worldVars, wire, events, deaf, known, regGroups, regPlayers, reportsFirst, overtaken>>

Household ==
    \/ Regroup
    \/ \E i \in Changing : Changes(i)
    \/ \E ip \in Fragile : SocketDies(ip) \/ Unplugged(ip) \/ LaneReaches(ip)

PassStep(p, i) ==
    \/ ProbeFails(p, i) \/ Reaches(p, i) \/ Opens(p, i) \/ OpenFails(p, i)
    \/ Reads(p, i) \/ Subscribes(p, i) \/ ItemFails(p, i)
    \/ i \in Groups /\ Registers(p, i)
    \/ i \in Players /\ (ReadFails(p, i) \/ ReportsPlayer(p, i))

TakeEvent == TakeLostAndBail \/ TakeLost \/ TakeGroups \/ TakeState

Runtime ==
    \/ \E p \in Passes : PassDone(p) \/ \E i \in Items : PassStep(p, i)
    \/ LastPollEnds \/ GuardDrops
    \/ TakeReports \/ TakeEvent \/ RetryDue \/ ConnectsAgain

Recovery == \E ip \in Players : PingFails(ip) \/ PluggedIn(ip)

Next == Household \/ Recovery \/ Runtime

(* The runtime goes on while something is ready, in no order it promises.  A
   retry is two seconds away at least (Retry::FIRST), so the loop finds reports
   and events before it: it starts only when both were polled empty.  A ping
   times out, and a speaker that went is plugged in again.  Nothing is assumed
   of what the household does on its own. *)
Fairness == WF_vars(Runtime) /\ WF_vars(Recovery)

Spec == Init /\ [][Next]_vars /\ Fairness

-----------------------------------------------------------------------------
Versions == 0..(MaxTurns + 1)
Pcs == {"off", "reach", "opening", "read", "register", "subscribe", "report"}

(* What a pass sends the loop: a group registered or taken back, a speaker's
   volume, the end of the pass. *)
Reports ==
    [kind : {"group", "failed"}, item : Groups, ip : Players, val : Versions]
    \cup [kind : {"player"}, item : Players, ip : Players, val : Versions]
    \cup [kind : {"done"}, item : {Nobody}, ip : {Nobody}, val : {0}]

(* What the sockets send it. *)
Events ==
    [kind : {"groups"}, ip : Players, topo : Topologies]
    \cup [kind : {"state"}, ip : Players, item : Items, val : Versions]
    \cup [kind : {"lost"}, ip : Players]

(* Every variable has its type: household.rs's Wiring, Retry, Pass and Pool. *)
TypeOK ==
    /\ world \in Topologies /\ topo \in Topologies
    /\ version \in [Items -> Versions] /\ known \in [Items -> Versions]
    /\ plugged \subseteq Players /\ forwarded \subseteq Players
    /\ turns \in 0..MaxTurns
    /\ sock \in [Players -> [up : BOOLEAN, epoch : Nat, heard : BOOLEAN, subs : SUBSET Items]]
    /\ deaf \subseteq Items \X Players
    /\ wire \in Seq(Reports) /\ events \in Seq(Events)
    /\ passOn \in [Passes -> BOOLEAN] /\ failed \in [Passes -> SUBSET Players]
    /\ work \in [Passes -> [Items -> [pc : Pcs, ip : Players \cup {Nobody}, conn : Nat, val : Versions]]]
    /\ guards \subseteq [group : Groups, ip : Players]
    /\ status \in {"following", "looking"}
    /\ regGroups \in [Groups -> Players \cup {Nobody}] /\ regPlayers \subseteq Players
    /\ retry \in [running : BOOLEAN, due : BOOLEAN]
    /\ delays \in 0..MaxDelays
    /\ reportsFirst \in BOOLEAN /\ overtaken \subseteq Groups \X Players

(* Something will still undo the registration of group g at ip: the guard of
   an item that is subscribing, of an aborted pass, or their report; or the
   loss of the socket is on its way. *)
Undoing(g, ip) ==
    \/ \E p \in Passes : At(p, g, "subscribe") /\ work[p][g].ip = ip
    \/ [group |-> g, ip |-> ip] \in guards
    \/ Reported({"failed"}, g, ip)
    \/ LostEvent(ip) \in {events[n] : n \in 1..Len(events)}

(* A group counted as wired is a group of the topology, and it is subscribed
   on its coordinator's socket or something is on its way that takes it off
   the list or ends the session (Unregister, household.rs:892-915).  A socket
   that a lane opened while the address counted as forwarded has no forwarder,
   and is left out. *)
WiredIsSubscribed ==
    status = "following" =>
        \A g \in Groups : LET ip == regGroups[g] IN
            ip # Nobody =>
                /\ g \in DOMAIN topo.coord
                /\ g \in sock[ip].subs \/ <<g, ip>> \in deaf \/ Undoing(g, ip)

Quiet ==
    /\ status = "following" /\ plugged = Players
    /\ ~passOn["running"] /\ work["aborted"] = Nothing /\ guards = {}
    /\ wire = <<>> /\ events = <<>> /\ ~retry.due

(* When nothing is under way, a group followed on a forwarded socket shows
   the state its coordinator has: the reads, the registration sent before the
   subscriptions and the order of the loop's arms lose no change
   (household.rs:807-808, 1242-1246).  One order does: a registration and the
   event it lets through both come between the poll of the reports and that of
   the events.  The event is dropped and what was read before it stands, until
   the group's next event: overtaken tells, and is left out. *)
HeardRoomsAreCurrent ==
    Quiet => \A g \in DOMAIN topo.coord :
                regGroups[g] # Nobody /\ <<g, regGroups[g]>> \notin deaf \cup overtaken => known[g] = version[g]

(* When nothing is under way, a speaker that is counted as wired shows the
   volume it has: push, not poll (household.rs:3-9). *)
HeardVolumesAreCurrent ==
    Quiet => \A p \in topo.players \cap regPlayers :
                <<p, p>> \notin deaf => known[p] = version[p]

(* Every group and every speaker of the topology is subscribed again and
   again, whatever was lost or regrouped in between. *)
EverythingIsWired == []<>(status = "following" /\ ~Unwired(topo, regGroups, regPlayers))
=============================================================================

----------------------------- MODULE Connection -----------------------------
(***************************************************************************)
(* One WebSocket to a player: src/sonos/local.rs.  Callers, a reader task  *)
(* and a keepalive task share the pending replies, the write half behind a *)
(* FIFO async mutex, the alive flag and a one-permit Notify.  The other    *)
(* end is the environment: it answers (with or without a cmdId), repeats   *)
(* an answer, pings, falls silent or hangs up.                             *)
(*                                                                         *)
(* Time.  A command, a pong, a ping and the closing frame each give up     *)
(* REPLY_TIMEOUT after they line up for the write half.  The mutex is fair *)
(* and the limits are equal, so whoever waits ahead gives up no later: a   *)
(* limit on the wait for the lock is reached only once the lock is held,   *)
(* and the model lets only the holder of the lock time out on a write.     *)
(***************************************************************************)
EXTENDS Naturals, Sequences, SequencesExt

CONSTANTS
    Cmds,         \* commands, each one call of Connection::command
    Untagged,     \* those the player answers without echoing a cmdId
    InOrder,      \* TRUE: the player answers in the order it was written to
    SilentTicks,  \* SILENCE_LIMIT / PING_INTERVAL
    None          \* no reply yet

ASSUME CmdsAssumption ==
    /\ Untagged \subseteq Cmds
    /\ None \notin Cmds
    /\ "reader" \notin Cmds
    /\ "keeper" \notin Cmds
ASSUME TicksAssumption == SilentTicks \in Nat \ {0}
ASSUME InOrderAssumption == InOrder \in BOOLEAN

VARIABLES
    pc,      \* where each command's future stands
    got,     \* the reply put in each command's oneshot: whose it really is
    byId,    \* Pending.by_id
    order,   \* Pending.order
    wire,    \* commands the player may still answer, in the order written
    line,    \* who holds (Head) and who awaits the write half's mutex
    sink,    \* Inner.sink: "open" is Some, "taken" is None
    alive,   \* Inner.alive
    permit,  \* Inner.shutdown holds a permit
    reader,  \* the read_loop task
    keeper,  \* the keepalive task
    quiet,   \* keepalive ticks since last_rx
    peer     \* "up", or "silent": the zombie after a suspend

cmdVars == <<pc, got>>
pendingVars == <<byId, order>>
taskVars == <<reader, keeper>>
vars == <<pc, got, byId, order, wire, line, sink, alive, permit,
          reader, keeper, quiet, peer>>

Outstanding == {"registered", "queued", "writing", "waiting"}
Ended == {"replied", "lost", "failed", "cancelled"}
Users == Cmds \cup {"reader", "keeper"}

Init ==
    /\ pc = [c \in Cmds |-> "idle"]
    /\ got = [c \in Cmds |-> None]
    /\ byId = {}
    /\ order = <<>>
    /\ wire = <<>>
    /\ line = <<>>
    /\ sink = "open"
    /\ alive = TRUE
    /\ permit = FALSE
    /\ reader = "reading"
    /\ keeper = "sleeping"
    /\ quiet = 0
    /\ peer = "up"

\* s without e, which a queue here holds at most once: VecDeque::retain, and a
\* waiter that leaves the mutex's line.
Without(s, e) ==
    IF e \in ToSet(s)
    THEN RemoveAt(s, CHOOSE i \in DOMAIN s : s[i] = e)
    ELSE s

Holds(u) == line # <<>> /\ Head(line) = u

Moves(c, from, to) ==
    /\ pc[c] \in from
    /\ pc' = [pc EXCEPT ![c] = to]

\* Variant: the drop removes the sender and leaves its place in the queue.
Forget_IdOnly(c) ==
    /\ byId' = byId \ {c}
    /\ UNCHANGED order

\* The Registered guard's drop: Pending::remove.
Forget(c) ==
    /\ byId' = byId \ {c}
    /\ order' = Without(order, c)

-----------------------------------------------------------------------------
(* Connection::command, one step per await.                                *)

Issue(c) ==
    /\ Moves(c, {"idle"}, IF alive THEN "signing" ELSE "lost")
    /\ UNCHANGED <<got, byId, order, wire, line, sink, alive, permit,
                   taskVars, quiet, peer>>

\* login::bearer() has answered; Pending::insert.
Register(c) ==
    /\ Moves(c, {"signing"}, "registered")
    /\ byId' = byId \cup {c}
    /\ order' = Append(order, c)
    /\ UNCHANGED <<got, wire, line, sink, alive, permit, taskVars,
                   quiet, peer>>

LineUp(c) ==
    /\ Moves(c, {"registered"}, "queued")
    /\ line' = Append(line, c)
    /\ UNCHANGED <<got, pendingVars, wire, sink, alive, permit,
                   taskVars, quiet, peer>>

StartWrite(c) ==
    /\ Holds(c)
    /\ sink = "open"
    /\ Moves(c, {"queued"}, "writing")
    /\ wire' = Append(wire, c)
    /\ UNCHANGED <<got, pendingVars, line, sink, alive, permit,
                   taskVars, quiet, peer>>

\* "socket closed": the reader has taken the sink.
FindClosed(c) ==
    /\ Holds(c)
    /\ sink = "taken"
    /\ Moves(c, {"queued"}, "failed")
    /\ line' = Tail(line)
    /\ Forget(c)
    /\ UNCHANGED <<got, wire, sink, alive, permit, taskVars, quiet, peer>>

WriteDone(c) ==
    /\ Moves(c, {"writing"}, "waiting")
    /\ line' = Tail(line)
    /\ UNCHANGED <<got, pendingVars, wire, sink, alive, permit,
                   taskVars, quiet, peer>>

WriteError(c) ==
    /\ Moves(c, {"writing"}, "failed")
    /\ line' = Tail(line)
    /\ Forget(c)
    /\ UNCHANGED <<got, wire, sink, alive, permit, taskVars, quiet, peer>>

\* Variant: the deadline covers only the reply.
WriteTimeout_Unbounded(c) == c \notin Cmds /\ UNCHANGED vars

\* The write never finished within the deadline: the socket is to be closed.
WriteTimeout(c) ==
    /\ Moves(c, {"writing"}, "failed")
    /\ line' = Tail(line)
    /\ Forget(c)
    /\ permit' = TRUE
    /\ UNCHANGED <<got, wire, sink, alive, taskVars, quiet, peer>>

\* Sent, and no answer within the deadline.
ReplyTimeout(c) ==
    /\ got[c] = None
    /\ c \in byId
    /\ Moves(c, {"waiting"}, "failed")
    /\ Forget(c)
    /\ UNCHANGED <<got, wire, line, sink, alive, permit, taskVars,
                   quiet, peer>>

\* rx resolves: with the reply, or with the sender dropped by mark_dead.
Finish(c) ==
    /\ got[c] # None \/ c \notin byId
    /\ Moves(c, {"waiting"}, IF got[c] # None THEN "replied" ELSE "lost")
    /\ Forget(c)
    /\ UNCHANGED <<got, wire, line, sink, alive, permit, taskVars,
                   quiet, peer>>

\* The caller drops the future at any await.
Cancel(c) ==
    /\ Moves(c, {"signing"} \cup Outstanding, "cancelled")
    /\ Forget(c)
    /\ line' = Without(line, c)
    /\ UNCHANGED <<got, wire, sink, alive, permit, taskVars, quiet, peer>>

\* Connection::close.
Close ==
    /\ permit' = TRUE
    /\ UNCHANGED <<cmdVars, pendingVars, wire, line, sink, alive,
                   taskVars, quiet, peer>>

-----------------------------------------------------------------------------
(* The read_loop task.                                                     *)

Hears ==
    /\ reader = "reading"
    /\ peer = "up"
    /\ quiet' = 0

\* Pending::take(None): a reply without an id goes to the oldest registered.
TakeOldest(c) ==
    \/ /\ ToSet(order) \cap byId = {}
       /\ order' = <<>>
       /\ UNCHANGED <<byId, got>>
    \/ \E i \in DOMAIN order :
          /\ order[i] \in byId
          /\ \A j \in 1..(i - 1) : order[j] \notin byId
          /\ order' = SubSeq(order, i + 1, Len(order))
          /\ byId' = byId \ {order[i]}
          /\ got' = [got EXCEPT ![order[i]] = c]

\* Variant: a reply whose id nobody waits on goes to the oldest.
TakeTagged_FallBack(c) ==
    IF c \in byId
    THEN /\ Forget(c)
         /\ got' = [got EXCEPT ![c] = c]
    ELSE TakeOldest(c)

\* Pending::take(Some(id)): a reply nobody waits on is dropped.
TakeTagged(c) ==
    /\ Forget(c)
    /\ got' = IF c \in byId THEN [got EXCEPT ![c] = c] ELSE got

\* dispatch of a reply to c; the player may repeat one that carries its id.
ReadReply(c) ==
    /\ Hears
    /\ c \in ToSet(wire)
    /\ InOrder => c = Head(wire)
    /\ IF c \in Untagged THEN TakeOldest(c) ELSE TakeTagged(c)
    /\ \/ wire' = Without(wire, c)
       \/ c \notin Untagged /\ UNCHANGED wire
    /\ UNCHANGED <<pc, line, sink, alive, permit, taskVars, peer>>

\* An event, a pong or an unparsable frame: nobody's reply.
ReadOther ==
    /\ Hears
    /\ UNCHANGED <<cmdVars, pendingVars, wire, line, sink, alive,
                   permit, taskVars, peer>>

ReadPing ==
    /\ Hears
    /\ reader' = "ponging"
    /\ line' = Append(line, "reader")
    /\ UNCHANGED <<cmdVars, pendingVars, wire, sink, alive, permit,
                   keeper, peer>>

PongSent ==
    /\ reader = "ponging"
    /\ Holds("reader")
    /\ reader' = "reading"
    /\ line' = Tail(line)
    /\ UNCHANGED <<cmdVars, pendingVars, wire, sink, alive, permit,
                   keeper, quiet, peer>>

\* Variant: the pong waits for the write half without a bound.
PongTimeout_Unbounded == reader = "none" /\ UNCHANGED vars

PongTimeout ==
    /\ reader = "ponging"
    /\ Holds("reader")
    /\ reader' = "dying"
    /\ line' = Tail(line)
    /\ UNCHANGED <<cmdVars, pendingVars, wire, sink, alive, permit,
                   keeper, quiet, peer>>

SeeShutdown ==
    /\ reader = "reading"
    /\ permit
    /\ permit' = FALSE
    /\ reader' = "dying"
    /\ UNCHANGED <<cmdVars, pendingVars, wire, line, sink, alive,
                   keeper, quiet, peer>>

\* A Close frame, an error, or the end of the stream.
ReadEnd ==
    /\ reader = "reading"
    /\ reader' = "dying"
    /\ UNCHANGED <<cmdVars, pendingVars, wire, line, sink, alive, permit,
                   keeper, quiet, peer>>

\* Inner::mark_dead; LOST goes out to every events() receiver here.
MarkDead ==
    /\ reader = "dying"
    /\ reader' = "dead"
    /\ alive' = FALSE
    /\ byId' = {}
    /\ UNCHANGED <<cmdVars, order, wire, line, sink, permit, keeper,
                   quiet, peer>>

AwaitSink ==
    /\ reader = "dead"
    /\ reader' = "closing"
    /\ line' = Append(line, "reader")
    /\ UNCHANGED <<cmdVars, pendingVars, wire, sink, alive, permit,
                   keeper, quiet, peer>>

\* Variant: the reader leaves without taking the write half.
TakeSink_Left ==
    /\ reader = "closing"
    /\ Holds("reader")
    /\ reader' = "gone"
    /\ line' = Tail(line)
    /\ UNCHANGED <<cmdVars, pendingVars, wire, sink, alive, permit,
                   keeper, quiet, peer>>

TakeSink ==
    /\ reader = "closing"
    /\ Holds("reader")
    /\ reader' = "gone"
    /\ sink' = "taken"
    /\ line' = Tail(line)
    /\ UNCHANGED <<cmdVars, pendingVars, wire, alive, permit, keeper,
                   quiet, peer>>

-----------------------------------------------------------------------------
(* The keepalive task.                                                     *)

\* SILENCE_LIMIT in ticks.
SilenceLimit == SilentTicks

\* Variant: no silence check, the ping alone being the test.
PingUnlessSilent_Always ==
    /\ keeper' = "checked"
    /\ quiet' = IF quiet < SilenceLimit THEN quiet + 1 ELSE quiet
    /\ UNCHANGED permit

PingUnlessSilent ==
    \/ /\ quiet >= SilenceLimit
       /\ keeper' = "gone"
       /\ permit' = TRUE
       /\ UNCHANGED quiet
    \/ /\ quiet < SilenceLimit
       /\ keeper' = "checked"
       /\ quiet' = quiet + 1
       /\ UNCHANGED permit

Tick ==
    /\ keeper = "sleeping"
    /\ \/ /\ ~alive
          /\ keeper' = "gone"
          /\ UNCHANGED <<permit, quiet>>
       \/ alive /\ PingUnlessSilent
    /\ UNCHANGED <<cmdVars, pendingVars, wire, line, sink, alive,
                   reader, peer>>

PingLineUp ==
    /\ keeper = "checked"
    /\ keeper' = "pinging"
    /\ line' = Append(line, "keeper")
    /\ UNCHANGED <<cmdVars, pendingVars, wire, sink, alive, permit,
                   reader, quiet, peer>>

PingSent ==
    /\ keeper = "pinging"
    /\ Holds("keeper")
    /\ sink = "open"
    /\ keeper' = "sleeping"
    /\ line' = Tail(line)
    /\ UNCHANGED <<cmdVars, pendingVars, wire, sink, alive, permit,
                   reader, quiet, peer>>

\* The ping failed, could not drain in time, or found the sink taken.
PingFail ==
    /\ keeper = "pinging"
    /\ Holds("keeper")
    /\ keeper' = "gone"
    /\ permit' = TRUE
    /\ line' = Tail(line)
    /\ UNCHANGED <<cmdVars, pendingVars, wire, sink, alive, reader,
                   quiet, peer>>

-----------------------------------------------------------------------------
(* The player: a suspend or a pulled cable leaves a socket that never      *)
(* speaks again.                                                           *)

GoSilent ==
    /\ peer = "up"
    /\ peer' = "silent"
    /\ UNCHANGED <<cmdVars, pendingVars, wire, line, sink, alive, permit,
                   taskVars, quiet>>

Command(c) ==
    \/ Issue(c) \/ Register(c) \/ LineUp(c) \/ StartWrite(c) \/ FindClosed(c)
    \/ WriteDone(c) \/ WriteError(c) \/ WriteTimeout(c) \/ ReplyTimeout(c)
    \/ Finish(c) \/ Cancel(c)

ReadLoop ==
    \/ \E c \in Cmds : ReadReply(c)
    \/ ReadOther \/ ReadPing \/ PongSent \/ PongTimeout \/ SeeShutdown
    \/ ReadEnd \/ MarkDead \/ AwaitSink \/ TakeSink

Keepalive == Tick \/ PingLineUp \/ PingSent \/ PingFail

Next ==
    \/ \E c \in Cmds : Command(c)
    \/ Close
    \/ ReadLoop
    \/ Keepalive
    \/ GoSilent

Spec == Init /\ [][Next]_vars

\* The scheduler runs a task that is ready, and each timer fires.  A write may
\* stay stuck for ever, so WriteDone and PingSent get no fairness of their own:
\* only "it ends, or its deadline ends it" does.  The reader's select! picks at
\* random among its ready branches, so a permit is not passed over for ever.
Fairness ==
    /\ \A c \in Cmds :
          /\ WF_vars(Register(c)) /\ WF_vars(LineUp(c))
          /\ WF_vars(StartWrite(c) \/ FindClosed(c))
          /\ WF_vars(WriteTimeout(c))
          /\ WF_vars(Finish(c) \/ ReplyTimeout(c))
    /\ SF_vars(SeeShutdown)
    /\ WF_vars(PongTimeout)
    /\ WF_vars(MarkDead) /\ WF_vars(AwaitSink) /\ WF_vars(TakeSink)
    /\ WF_vars(Tick) /\ WF_vars(PingLineUp) /\ WF_vars(PingFail)

FairSpec == Spec /\ Fairness

-----------------------------------------------------------------------------
(* What the connection promises.                                           *)

\* Every variable keeps its type, the silence never counted past its limit.
TypeOK ==
    /\ pc \in [Cmds -> {"idle", "signing"} \cup Outstanding \cup Ended]
    /\ got \in [Cmds -> Cmds \cup {None}]
    /\ byId \subseteq Cmds
    /\ order \in Seq(Cmds)
    /\ wire \in Seq(Cmds)
    /\ line \in Seq(Users)
    /\ sink \in {"open", "taken"}
    /\ alive \in BOOLEAN /\ permit \in BOOLEAN
    /\ reader \in {"reading", "ponging", "dying", "dead", "closing", "gone"}
    /\ keeper \in {"sleeping", "checked", "pinging", "gone"}
    /\ quiet \in 0..SilentTicks
    /\ peer \in {"up", "silent"}

\* However a command ends - a reply, a failure, the deadline, its caller
\* dropping it - its registration ends with it, and nothing else ends it: a
\* command still outstanding keeps its place in both halves of Pending until
\* its own oneshot is filled or the connection is dead.
RegisteredWhileOutstanding ==
    /\ \A c \in byId \cup ToSet(order) : pc[c] \in Outstanding
    /\ \A c \in Cmds :
          /\ pc[c] \in Outstanding
          /\ got[c] = None
          /\ alive
          => c \in byId /\ c \in ToSet(order)

\* A reply that names its command reaches that command or nobody, however late
\* or often it comes: "never hand it to some other caller".
TaggedReplyIsOwn ==
    \A c \in Cmds : got[c] \in {None, c} \cup Untagged

\* Once the reader is gone the write half is gone with it, so the TCP socket is
\* down, and nobody is still writing to it or will.
ReaderGoneSocketDown ==
    reader = "gone" =>
        /\ sink = "taken"
        /\ ~alive
        /\ \A c \in Cmds : pc[c] # "writing"

\* Every command comes back: a stuck write, a silent player, a dead socket or a
\* writer stuck ahead of it on the lock only delay it to a deadline.
EveryCommandEnds ==
    \A c \in Cmds : pc[c] \in {"signing"} \cup Outstanding ~> pc[c] \in Ended

\* A player that stops speaking is found out, though every write succeeds.
SilenceIsNoticed == peer = "silent" ~> ~alive

\* A request to shut down - close(), an unsent command, a failed ping - is never
\* lost, whatever the reader was awaiting when it was made.
ShutdownIsHeeded == permit ~> ~alive
=============================================================================

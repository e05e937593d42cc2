------------------------------- MODULE Lanes --------------------------------
(***************************************************************************)
(* The deck's lanes, deck/src/lanes.rs: the ordering (Lanes) and the task  *)
(* that drives it (spawn).  Senders put jobs in an unbounded channel; the  *)
(* driver takes them one by one, spawns what may start, and joins what has *)
(* ended, in whichever order its select! finds them.  A job ends when it   *)
(* is done or panics: the driver frees its place either way.               *)
(***************************************************************************)
EXTENDS Naturals, Sequences

CONSTANTS
    Jobs, LaneOf, Free, Barrier, SetsOf, Nothing,  \* as in LaneOrder
    MaxInbox,  \* a bound on the channel, for model checking
    SentAfter  \* likewise: which of two alike jobs is sent first

ASSUME KindsAssumption ==
    /\ Free # Barrier
    /\ DOMAIN LaneOf = Jobs
    /\ DOMAIN SetsOf = Jobs
    /\ \A j \in Jobs : SetsOf[j] # Nothing => LaneOf[j] \notin {Free, Barrier}
    /\ MaxInbox \in Nat
    /\ SentAfter \in [Jobs -> SUBSET Jobs]

VARIABLES
    inbox,      \* the channel
    senders,    \* a Sender is left
    driver,     \* "open", "draining" (the channel is over), "returned"
    queue,      \* Lane.queue, by lane: places with their epoch and job
    running,    \* Lane.running, by lane: a ticket and an epoch, or Idle
    barriers,   \* Lanes.barriers
    barrier,    \* Lanes.barrier_running: a ticket, or 0
    sent,       \* barriers sent
    passed,     \* barriers finished
    next,       \* tickets handed out
    tasks,      \* the spawned tasks: tickets with their jobs
    fate,       \* history: what became of each job
    lastSent,   \* history: the job sent last for each thing that is set
    lastDone    \* history: the job done last for each

laneVars == <<queue, running, barriers, barrier, sent, passed, next>>
vars == <<inbox, senders, driver, laneVars, tasks, fate, lastSent, lastDone>>

LaneNames == {LaneOf[j] : j \in Jobs} \ {Free, Barrier}
Idle == [ticket |-> 0, epoch |-> 0]

\* What an absolute value sets: the same name in two lanes is two things.
Thing(j) == <<LaneOf[j], SetsOf[j]>>
Things == {Thing(j) : j \in {i \in Jobs : SetsOf[i] # Nothing}}

Init ==
    /\ inbox = <<>>
    /\ senders = TRUE
    /\ driver = "open"
    /\ queue = [k \in LaneNames |-> <<>>]
    /\ running = [k \in LaneNames |-> Idle]
    /\ barriers = <<>>
    /\ barrier = 0
    /\ sent = 0 /\ passed = 0 /\ next = 0
    /\ tasks = {}
    /\ fate = [j \in Jobs |-> "unsent"]
    /\ lastSent = [t \in Things |-> Nothing]
    /\ lastDone = [t \in Things |-> Nothing]

-----------------------------------------------------------------------------
(* Lanes.                                                                  *)

FrontIs(q, k, epoch) == q[k] # <<>> /\ Head(q[k]).epoch = epoch

\* Variant: only what runs is waited for, not what is queued ahead.
Current_Running(q, r, p, k) == r[k] # Idle /\ r[k].epoch = p

\* Variant: what was sent after the barrier is waited for too.
Current_Queued(q, r, p, k) == r[k] # Idle \/ q[k] # <<>>

\* A lane that the next barrier has to wait for.
Current(q, r, p, k) ==
    \/ r[k] # Idle /\ r[k].epoch = p
    \/ FrontIs(q, k, p)

Ready(q, r, p) ==
    {k \in LaneNames : r[k] = Idle /\ FrontIs(q, k, p)}

\* Lanes::start, from these lanes; the driver spawns what it returns.
StartFrom(q, r, bs, b, p, live) ==
    \/ /\ b # 0
       /\ queue' = q /\ running' = r
       /\ barriers' = bs /\ barrier' = b
       /\ tasks' = live
    \/ /\ b = 0 /\ bs # <<>>
       /\ \A k \in LaneNames : ~Current(q, r, p, k)
       /\ barriers' = Tail(bs)
       /\ barrier' = Head(bs).ticket
       /\ tasks' = live \cup {Head(bs)}
       /\ queue' = q /\ running' = r
    \/ /\ b = 0
       /\ bs = <<>> \/ \E k \in LaneNames : Current(q, r, p, k)
       /\ LET starts == Ready(q, r, p)
          IN  /\ queue' = [k \in LaneNames |->
                             IF k \in starts THEN Tail(q[k]) ELSE q[k]]
              /\ running' = [k \in LaneNames |->
                               IF k \in starts
                               THEN [ticket |-> Head(q[k]).ticket,
                                     epoch |-> Head(q[k]).epoch]
                               ELSE r[k]]
              /\ tasks' = live \cup {[ticket |-> Head(q[k]).ticket,
                                      job |-> Head(q[k]).job] : k \in starts}
       /\ barriers' = bs /\ barrier' = b

\* submit, Order::Free.
SubmitFree(j) ==
    /\ LaneOf[j] = Free
    /\ next' = next + 1
    /\ tasks' = tasks \cup {[ticket |-> next', job |-> j]}
    /\ fate' = [fate EXCEPT ![j] = "taken"]
    /\ UNCHANGED <<queue, running, barriers, barrier, sent, passed>>

\* Variant: the newer value jumps a barrier.
Same_AnyEpoch(place, j) ==
    SetsOf[j] # Nothing /\ SetsOf[place.job] = SetsOf[j]

\* A pending value for the same thing, sent since the last barrier.
Same(place, j) ==
    /\ SetsOf[j] # Nothing /\ SetsOf[place.job] = SetsOf[j]
    /\ place.epoch = sent

\* Variant: the value that waits is kept, and the newer one dropped.
SubmitReplacing_Keep(j) ==
    /\ LaneOf[j] \in LaneNames
    /\ \E i \in DOMAIN queue[LaneOf[j]] : Same(queue[LaneOf[j]][i], j)
    /\ fate' = [fate EXCEPT ![j] = "dropped"]
    /\ UNCHANGED <<laneVars, tasks>>

\* submit, Order::Lane, a newer value: it takes the place, and nothing starts.
SubmitReplacing(j) ==
    /\ LaneOf[j] \in LaneNames
    /\ LET k == LaneOf[j]
       IN  \E i \in DOMAIN queue[k] :
              /\ Same(queue[k][i], j)
              /\ \A h \in 1..(i - 1) : ~Same(queue[k][h], j)
              /\ queue' = [queue EXCEPT ![k][i].job = j]
              /\ fate' = [fate EXCEPT ![j] = "taken",
                                      ![queue[k][i].job] = "dropped"]
    /\ UNCHANGED <<running, barriers, barrier, sent, passed, next, tasks>>

\* submit, Order::Lane, otherwise.
SubmitLane(j) ==
    /\ LaneOf[j] \in LaneNames
    /\ LET k == LaneOf[j]
           place == [ticket |-> next + 1, epoch |-> sent, job |-> j]
       IN  /\ \A i \in DOMAIN queue[k] : ~Same(queue[k][i], j)
           /\ StartFrom([queue EXCEPT ![k] = Append(@, place)], running,
                        barriers, barrier, passed, tasks)
    /\ next' = next + 1
    /\ fate' = [fate EXCEPT ![j] = "taken"]
    /\ UNCHANGED <<sent, passed>>

\* submit, Order::Barrier.
SubmitBarrier(j) ==
    /\ LaneOf[j] = Barrier
    /\ next' = next + 1
    /\ sent' = sent + 1
    /\ StartFrom(queue, running,
                 Append(barriers, [ticket |-> next + 1, job |-> j]), barrier,
                 passed, tasks)
    /\ fate' = [fate EXCEPT ![j] = "taken"]
    /\ UNCHANGED passed

\* Variant: the end of a barrier starts nothing.
Finished_BarrierOnly(t) ==
    IF barrier = t.ticket
    THEN /\ barrier' = 0 /\ passed' = passed + 1
         /\ tasks' = tasks \ {t}
         /\ UNCHANGED <<queue, running, barriers>>
    ELSE /\ StartFrom(queue,
                      [k \in LaneNames |->
                         IF running[k].ticket = t.ticket THEN Idle ELSE running[k]],
                      barriers, barrier, passed, tasks \ {t})
         /\ UNCHANGED passed

\* Lanes::finished.
Finished(t) ==
    \/ /\ barrier = t.ticket
       /\ passed' = passed + 1
       /\ StartFrom(queue, running, barriers, 0, passed + 1, tasks \ {t})
    \/ /\ barrier # t.ticket
       /\ UNCHANGED passed
       /\ StartFrom(queue,
                    [k \in LaneNames |->
                       IF running[k].ticket = t.ticket THEN Idle ELSE running[k]],
                    barriers, barrier, passed, tasks \ {t})

-----------------------------------------------------------------------------
(* The senders and the driver.                                             *)

\* Sender::submit.
Send(j) ==
    /\ senders
    /\ fate[j] = "unsent"
    /\ Len(inbox) < MaxInbox
    /\ \A i \in SentAfter[j] : fate[i] # "unsent"
    /\ inbox' = Append(inbox, j)
    /\ fate' = [fate EXCEPT ![j] = "sent"]
    /\ lastSent' = IF SetsOf[j] # Nothing THEN [lastSent EXCEPT ![Thing(j)] = j]
                   ELSE lastSent
    /\ UNCHANGED <<senders, driver, laneVars, tasks, lastDone>>

DropSenders ==
    /\ senders
    /\ senders' = FALSE
    /\ UNCHANGED <<inbox, driver, laneVars, tasks, fate, lastSent, lastDone>>

Take ==
    /\ driver = "open"
    /\ inbox # <<>>
    /\ LET j == Head(inbox)
       IN  \/ SubmitFree(j) \/ SubmitReplacing(j) \/ SubmitLane(j)
           \/ SubmitBarrier(j)
    /\ inbox' = Tail(inbox)
    /\ UNCHANGED <<senders, driver, lastSent, lastDone>>

\* recv() answers None: the channel is empty and has no sender left.
InboxOver ==
    /\ driver = "open"
    /\ inbox = <<>> /\ ~senders
    /\ driver' = "draining"
    /\ UNCHANGED <<inbox, senders, laneVars, tasks, fate, lastSent, lastDone>>

\* A task has ended and join_next_with_id says so.
Join(t) ==
    /\ driver # "returned"
    /\ t \in tasks
    /\ Finished(t)
    /\ fate' = [fate EXCEPT ![t.job] = "done"]
    /\ lastDone' = IF SetsOf[t.job] # Nothing
                   THEN [lastDone EXCEPT ![Thing(t.job)] = t.job]
                   ELSE lastDone
    /\ UNCHANGED <<inbox, senders, driver, sent, next, lastSent>>

\* Neither branch of the select! is left.
Return ==
    /\ driver = "draining"
    /\ tasks = {}
    /\ driver' = "returned"
    /\ UNCHANGED <<inbox, senders, laneVars, tasks, fate, lastSent, lastDone>>

Next ==
    \/ \E j \in Jobs : Send(j)
    \/ DropSenders
    \/ Take
    \/ InboxOver
    \/ \E t \in tasks : Join(t)
    \/ Return

Spec == Init /\ [][Next]_vars

\* The driver is scheduled, and while tasks run some task comes to an end: each
\* exchange a command makes has its deadline.
Fairness ==
    /\ WF_vars(Take) /\ WF_vars(InboxOver) /\ WF_vars(Return)
    /\ WF_vars(\E t \in tasks : Join(t))

FairSpec == Spec /\ Fairness

-----------------------------------------------------------------------------
(* What the lanes promise.                                                 *)

Place == [ticket : Nat, epoch : Nat, job : Jobs]
Task == [ticket : Nat, job : Jobs]

\* Every variable keeps its type; the running barrier has a ticket, and no more
\* barriers have finished than were sent.
TypeOK ==
    /\ inbox \in Seq(Jobs)
    /\ senders \in BOOLEAN
    /\ driver \in {"open", "draining", "returned"}
    /\ queue \in [LaneNames -> Seq(Place)]
    /\ running \in [LaneNames -> [ticket : Nat, epoch : Nat]]
    /\ barriers \in Seq(Task)
    /\ next \in Nat /\ barrier \in 0..next
    /\ sent \in Nat /\ passed \in 0..sent
    /\ tasks \subseteq Task
    /\ fate \in [Jobs -> {"unsent", "sent", "taken", "done", "dropped"}]
    /\ lastSent \in [Things -> Jobs \cup {Nothing}]
    /\ lastDone \in [Things -> Jobs \cup {Nothing}]

\* A barrier runs with no lane's job beside it, and every job on a lane, running
\* or waiting, was sent after as many barriers as the ones that have finished at
\* the least: the ones before it are all over.
BarrierRunsAlone ==
    /\ barrier # 0 => \A k \in LaneNames : running[k] = Idle
    /\ \A k \in LaneNames :
          /\ running[k] # Idle => running[k].epoch = passed
          /\ \A i \in DOMAIN queue[k] :
                queue[k][i].epoch >= IF barrier # 0 THEN passed + 1 ELSE passed

\* "so the last value wins": once nothing that sets a thing is waiting or
\* running, the job done last for it is the one sent last.
LastValueWins ==
    \A t \in Things :
        (\A j \in Jobs : Thing(j) = t => fate[j] \notin {"sent", "taken"})
            => lastDone[t] = lastSent[t]

\* "what was sent still runs, and then the task ends": the driver does not
\* return with anything left, though it looks only at the tasks.
ReturnsWithNothingLeft ==
    driver = "returned" =>
        /\ inbox = <<>> /\ barriers = <<>> /\ barrier = 0
        /\ \A k \in LaneNames : queue[k] = <<>> /\ running[k] = Idle

\* Every job sent runs to its end, or gives its place to a newer value: no
\* circle of lanes and barriers waits on itself.  Jobs are finitely many, so it
\* is enough that whatever is under way is over some time.
EveryJobIsServed ==
    (\E j \in Jobs : fate[j] \in {"sent", "taken"})
        ~> (\A j \in Jobs : fate[j] \notin {"sent", "taken"})

\* The order promised, read off the lanes: a job's place is its ticket.
Waiting(j) ==
    \/ \E k \in LaneNames : \E i \in DOMAIN queue[k] : queue[k][i].job = j
    \/ \E i \in DOMAIN barriers : barriers[i].job = j

TicketOf(j) ==
    LET held == {t \in tasks : t.job = j}
                \cup {barriers[i] : i \in {h \in DOMAIN barriers : barriers[h].job = j}}
                \cup UNION {{queue[k][i] : i \in {h \in DOMAIN queue[k] : queue[k][h].job = j}}
                            : k \in LaneNames}
    IN  IF held = {} THEN 0 ELSE (CHOOSE t \in held : TRUE).ticket

OrderState ==
    [j \in Jobs |->
        CASE fate[j] \in {"unsent", "sent"} -> "unsent"
          [] fate[j] = "taken" -> IF Waiting(j) THEN "pending" ELSE "running"
          [] OTHER -> fate[j]]

OrderPlace == [j \in Jobs |-> TicketOf(j)]

Order == INSTANCE LaneOrder WITH state <- OrderState, place <- OrderPlace, last <- next

\* The queues, the epochs and the counts keep exactly the order promised:
\* nothing starts early, and nothing that could start is left waiting.
KeepsTheOrder == Order!Spec
=============================================================================

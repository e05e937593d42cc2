---------------------------- MODULE QueueFetches ----------------------------
(***************************************************************************)
(* How the daemon keeps each room's queue version current: daemon.rs,      *)
(* struct QueueFetches and the two arms of follow's loop that use it.  A   *)
(* playback event asks for a UPnP read of the queue's UpdateID; the read   *)
(* runs off the loop in a task of its own and answers over a channel.      *)
(*                                                                         *)
(* The speakers are the environment: a queue moves with or without a       *)
(* playback event, and a read may fail.  A version stands for the string   *)
(* UpdateID; 0 is the empty string a fresh room starts from.               *)
(***************************************************************************)
EXTENDS Naturals

CONSTANTS
    Groups,         \* group ids
    Tasks,          \* spawned fetch tasks; at least one per group
    MaxVersion,     \* bound on the edits TLC explores
    MaxRepublish,   \* bound on the republishes TLC explores
    Failed          \* a read that did not answer, or UPnP known to be off

ASSUME BoundsAssumption == MaxVersion \in Nat /\ MaxRepublish \in Nat
ASSUME FailedAssumption == Failed \notin Nat

VARIABLES
    truth,     \* the queue's real UpdateID at each coordinator
    heard,     \* its value when the last playback event was sent
    pending,   \* a playback event is on the bus, not yet handled
    rooms,     \* groups with a published RoomPlayer
    shown,     \* queue_version in each room's state
    inFlight,  \* QueueFetches.in_flight
    dirty,     \* QueueFetches.dirty
    task,      \* the fetch tasks: whose, how far, and the value read
    failed,    \* the last answer folded for the group was a failure
    republished

vars == <<truth, heard, pending, rooms, shown, inFlight, dirty, task, failed,
          republished>>

TaskStates ==
    [phase : {"free"}] \cup [phase : {"out"}, group : Groups]
    \cup [phase : {"answered"}, group : Groups, val : Nat \cup {Failed}]

Free == [phase |-> "free"]
Out(g) == [phase |-> "out", group |-> g]
Answered(g, v) == [phase |-> "answered", group |-> g, val |-> v]

Init ==
    /\ truth = [g \in Groups |-> 1]
    /\ heard = truth
    /\ pending = [g \in Groups |-> FALSE]
    /\ rooms = {}
    /\ shown = [g \in Groups |-> 0]
    /\ inFlight = {}
    /\ dirty = {}
    /\ task = [t \in Tasks |-> Free]
    /\ failed = [g \in Groups |-> FALSE]
    /\ republished = 0

-----------------------------------------------------------------------------
(* QueueFetches.                                                           *)

\* Variant: a burst is not folded, every event starts a fetch.
Want_Ungated(g, flying, owed, tasks) ==
    /\ inFlight' = flying \cup {g}
    /\ dirty' = owed
    /\ \E t \in Tasks :
          /\ tasks[t] = Free
          /\ task' = [tasks EXCEPT ![t] = Out(g)]

\* Variant: an event during a fetch is dropped.
Want_Forgetful(g, flying, owed, tasks) ==
    IF g \in flying
    THEN inFlight' = flying /\ dirty' = owed /\ task' = tasks
    ELSE Want_Ungated(g, flying, owed, tasks)

\* want/start, given the sets and the tasks they find.
Want(g, flying, owed, tasks) ==
    \/ /\ g \in flying
       /\ inFlight' = flying
       /\ dirty' = owed \cup {g}
       /\ task' = tasks
    \/ /\ g \notin flying
       /\ inFlight' = flying \cup {g}
       /\ dirty' = owed
       /\ \E t \in Tasks :
             /\ tasks[t] = Free
             /\ task' = [tasks EXCEPT ![t] = Out(g)]

\* The loop takes a playback event.
HandleEvent(g) ==
    /\ pending[g]
    /\ pending' = [pending EXCEPT ![g] = FALSE]
    /\ Want(g, inFlight, dirty, task)
    /\ UNCHANGED <<truth, heard, rooms, shown, failed, republished>>

\* queue_version_fetch: the browse answers with the version it finds, or not.
Read(t) ==
    /\ task[t].phase = "out"
    /\ \E v \in {truth[task[t].group], Failed} :
          task' = [task EXCEPT ![t] = Answered(task[t].group, v)]
    /\ UNCHANGED <<truth, heard, pending, rooms, shown, inFlight, dirty, failed,
                   republished>>

\* apply_queue_version, on the room if it is still published.
Folded(g, v) ==
    IF v # Failed /\ g \in rooms THEN [shown EXCEPT ![g] = v] ELSE shown

\* The loop takes an answer: done, apply_queue_version, and one more if owed.
Done(t) ==
    /\ task[t].phase = "answered"
    /\ LET g == task[t].group
           v == task[t].val
           rest == [task EXCEPT ![t] = Free]
       IN  /\ shown' = Folded(g, v)
           /\ failed' = [failed EXCEPT ![g] = (v = Failed)]
           /\ IF g \in dirty /\ g \in rooms
              THEN Want(g, inFlight \ {g}, dirty \ {g}, rest)
              ELSE /\ inFlight' = inFlight \ {g}
                   /\ dirty' = dirty \ {g}
                   /\ task' = rest
    /\ UNCHANGED <<truth, heard, pending, rooms, republished>>

\* follow replaces the bus and every RoomPlayer; each new subscription sends
\* the current playback status.  The fetches out keep running.
Republish(new) ==
    /\ republished < MaxRepublish
    /\ republished' = republished + 1
    /\ rooms' = new
    /\ shown' = [g \in Groups |-> 0]
    /\ pending' = [g \in Groups |-> g \in new]
    /\ heard' = [g \in Groups |-> IF g \in new THEN truth[g] ELSE heard[g]]
    /\ UNCHANGED <<truth, inFlight, dirty, task, failed>>

-----------------------------------------------------------------------------
(* The speakers.                                                           *)

EditQueue(g) ==
    /\ truth[g] < MaxVersion
    /\ truth' = [truth EXCEPT ![g] = @ + 1]
    /\ UNCHANGED <<heard, pending, rooms, shown, inFlight, dirty, task, failed,
                   republished>>

PlaybackEvent(g) ==
    /\ g \in rooms
    /\ pending' = [pending EXCEPT ![g] = TRUE]
    /\ heard' = [heard EXCEPT ![g] = truth[g]]
    /\ UNCHANGED <<truth, rooms, shown, inFlight, dirty, task, failed,
                   republished>>

Next ==
    \/ \E g \in Groups : HandleEvent(g) \/ EditQueue(g) \/ PlaybackEvent(g)
    \/ \E t \in Tasks : Read(t) \/ Done(t)
    \/ \E new \in SUBSET Groups : Republish(new)

Spec == Init /\ [][Next]_vars

\* The loop takes what is ready, and a browse ends within its 8s timeout.
FairSpec ==
    /\ Spec
    /\ \A g \in Groups : WF_vars(HandleEvent(g))
    /\ \A t \in Tasks : WF_vars(Read(t)) /\ WF_vars(Done(t))

-----------------------------------------------------------------------------

\* Typing; an answer carries a version or a failure.
TypeOK ==
    /\ truth \in [Groups -> Nat]
    /\ heard \in [Groups -> Nat]
    /\ pending \in [Groups -> BOOLEAN]
    /\ rooms \subseteq Groups
    /\ shown \in [Groups -> Nat]
    /\ inFlight \subseteq Groups
    /\ dirty \subseteq Groups
    /\ task \in [Tasks -> TaskStates]
    /\ failed \in [Groups -> BOOLEAN]
    /\ republished \in Nat

\* The bookkeeping and the tasks agree: a group marked in flight has exactly one
\* task out or answered, another has none, and only a group in flight is owed.
OneFetchPerGroup ==
    /\ dirty \subseteq inFlight
    /\ \A t \in Tasks : task[t] # Free => task[t].group \in inFlight
    /\ \A g \in inFlight : \E t \in Tasks :
          /\ task[t] # Free
          /\ task[t].group = g
          /\ \A u \in Tasks \ {t} : task[u] = Free \/ task[u].group # g

\* With nothing left to handle - no event waiting, no fetch out - every room
\* shows at least the version the last playback event spoke of, unless the
\* last read failed: no event is lost because it came while a read was out.
SettledIsCurrent ==
    \A g \in rooms :
        ~pending[g] /\ g \notin inFlight => failed[g] \/ shown[g] >= heard[g]

\* A room never goes back to an older version than it showed: answers are not
\* folded out of order.  (A republished room starts again from none.)
NeverRegresses ==
    [][\A g \in Groups : shown'[g] # 0 => shown'[g] >= shown[g]]_vars

\* Every room catches up with the last event for good, or its reads fail.
EventuallyCurrent ==
    \A g \in Groups :
        <>[](g \in rooms => failed[g] \/ shown[g] >= heard[g])
=============================================================================

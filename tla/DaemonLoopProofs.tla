-------------------------- MODULE DaemonLoopProofs --------------------------
(***************************************************************************)
(* Theorems about the two small machines in the daemon's loop, for every   *)
(* value of their constants: QueueFetches, for any groups and any number   *)
(* of fetch tasks, and Restarts, for any cap of the backoff and any run.   *)
(***************************************************************************)
EXTENDS QueueFetches, Restarts, SequenceTheorems, TLAPS

-----------------------------------------------------------------------------
(* QueueFetches.                                                           *)

\* What makes the invariants inductive: what each answer on its way back is
\* worth.  It is no older than what its room shows, and, unless another event
\* has come since, no older than what the last event spoke of.
AnswersAreCurrent ==
    /\ \A g \in Groups : shown[g] <= truth[g] /\ heard[g] <= truth[g]
    /\ \A t \in Tasks :
          task[t].phase = "answered" /\ task[t].val # Failed =>
              LET g == task[t].group
              IN  /\ shown[g] <= task[t].val
                  /\ task[t].val <= truth[g]
                  /\ g \in rooms /\ ~pending[g] /\ g \notin dirty =>
                         heard[g] <= task[t].val

IInv ==
    /\ TypeOK
    /\ OneFetchPerGroup
    /\ AnswersAreCurrent
    /\ SettledIsCurrent

\* What is known of a task from its phase.
LEMMA TaskShape ==
    ASSUME TypeOK, NEW t \in Tasks
    PROVE  /\ task[t] # Free <=> task[t].phase # "free"
           /\ task[t].phase = "free" => task[t] = Free
           /\ task[t].phase \in {"out", "answered"} => task[t].group \in Groups
           /\ task[t].phase = "answered" => task[t].val \in Nat \cup {Failed}
           /\ task[t].phase \in {"free", "out", "answered"}
BY DEF TypeOK, TaskStates, Free

\* Want keeps the types, whatever sets and tasks it is given.
LEMMA WantType ==
    ASSUME NEW g \in Groups, NEW flying \in SUBSET Groups,
           NEW owed \in SUBSET Groups, NEW tasks \in [Tasks -> TaskStates],
           Want(g, flying, owed, tasks)
    PROVE  /\ inFlight' \subseteq Groups
           /\ dirty' \subseteq Groups
           /\ task' \in [Tasks -> TaskStates]
<1>1. Out(g) \in TaskStates
  BY DEF Out, TaskStates
<1>2. QED BY <1>1 DEF Want

\* Every variable keeps its type.
THEOREM TypeCorrect == Spec => []TypeOK
<1>1. Init => TypeOK
  BY DEF Init, TypeOK, TaskStates, Free
<1>2. TypeOK /\ [Next]_vars => TypeOK'
  <2> SUFFICES ASSUME TypeOK, [Next]_vars PROVE TypeOK'
    OBVIOUS
  <2> USE DEF TypeOK
  <2>1. ASSUME NEW g \in Groups, HandleEvent(g) PROVE TypeOK'
    <3>1. Want(g, inFlight, dirty, task)
      BY <2>1 DEF HandleEvent
    <3>2. inFlight' \subseteq Groups /\ dirty' \subseteq Groups
          /\ task' \in [Tasks -> TaskStates]
      BY <3>1, WantType
    <3>3. QED BY <2>1, <3>2 DEF HandleEvent
  <2>2. ASSUME NEW g \in Groups, EditQueue(g) PROVE TypeOK'
    BY <2>2 DEF EditQueue
  <2>3. ASSUME NEW g \in Groups, PlaybackEvent(g) PROVE TypeOK'
    BY <2>3 DEF PlaybackEvent
  <2>4. ASSUME NEW t \in Tasks, Read(t) PROVE TypeOK'
    <3>1. task[t].group \in Groups
      BY <2>4, TaskShape DEF Read
    <3>2. \A v \in Nat \cup {Failed} : Answered(task[t].group, v) \in TaskStates
      BY <3>1 DEF Answered, TaskStates
    <3>3. task' \in [Tasks -> TaskStates]
      BY <2>4, <3>1, <3>2 DEF Read
    <3>4. QED BY <2>4, <3>3 DEF Read
  <2>5. ASSUME NEW t \in Tasks, Done(t) PROVE TypeOK'
    <3> DEFINE g == task[t].group
               v == task[t].val
               rest == [task EXCEPT ![t] = Free]
    <3>1. g \in Groups /\ v \in Nat \cup {Failed}
      BY <2>5, TaskShape DEF Done
    <3>2. rest \in [Tasks -> TaskStates]
      BY DEF Free, TaskStates
    <3>3. inFlight' \subseteq Groups /\ dirty' \subseteq Groups
          /\ task' \in [Tasks -> TaskStates]
      <4>1. CASE g \in dirty /\ g \in rooms
        <5>1. Want(g, inFlight \ {g}, dirty \ {g}, rest)
          BY <2>5, <4>1 DEF Done
        <5>2. QED BY <5>1, <3>1, <3>2, WantType
      <4>2. CASE ~(g \in dirty /\ g \in rooms)
        BY <2>5, <4>2, <3>2 DEF Done
      <4>3. QED BY <4>1, <4>2
    <3>4. shown' \in [Groups -> Nat]
      BY <2>5, <3>1 DEF Done, Folded
    <3>5. failed' \in [Groups -> BOOLEAN]
      BY <2>5, <3>1 DEF Done
    <3>6. QED BY <2>5, <3>3, <3>4, <3>5 DEF Done
  <2>6. ASSUME NEW new \in SUBSET Groups, Republish(new) PROVE TypeOK'
    BY <2>6 DEF Republish
  <2>7. CASE UNCHANGED vars
    BY <2>7 DEF vars
  <2>8. QED BY <2>1, <2>2, <2>3, <2>4, <2>5, <2>6, <2>7 DEF Next
<1>3. QED BY <1>1, <1>2, PTL DEF Spec

-----------------------------------------------------------------------------
\* OneFetchPerGroup of any value of the bookkeeping, so that it can be said of
\* the state between an answer's done and the fetch it owes.
Tracked(flying, owed, tasks) ==
    /\ owed \subseteq flying
    /\ \A t \in Tasks : tasks[t] # Free => tasks[t].group \in flying
    /\ \A g \in flying : \E t \in Tasks :
          /\ tasks[t] # Free
          /\ tasks[t].group = g
          /\ \A u \in Tasks \ {t} : tasks[u] = Free \/ tasks[u].group # g

\* What Want leaves behind: the fetches answered are as they were, and its own
\* group is owed another or has just been given one.
Wanted(g, flying, owed, tasks) ==
    /\ Tracked(inFlight', dirty', task')
    /\ g \in inFlight'
    /\ flying \subseteq inFlight'
    /\ inFlight' \subseteq flying \cup {g}
    /\ owed \subseteq dirty'
    /\ \A t \in Tasks : task'[t].phase = "answered" =>
          task'[t] = tasks[t]
    /\ g \in flying => g \in dirty'
    /\ g \notin flying => \A t \in Tasks :
          task'[t].phase = "answered" => task'[t].group # g

\* Want keeps the bookkeeping right: it starts a fetch only for a group that
\* has none, and touches no other task.
LEMMA WantTracks ==
    ASSUME NEW g \in Groups, NEW flying \in SUBSET Groups,
           NEW owed \in SUBSET Groups, NEW tasks \in [Tasks -> TaskStates],
           Tracked(flying, owed, tasks),
           Want(g, flying, owed, tasks)
    PROVE  Wanted(g, flying, owed, tasks)
<1>1. CASE g \in flying
  BY <1>1 DEF Want, Tracked, Wanted
<1>2. CASE g \notin flying
  <2>1. PICK s \in Tasks : tasks[s] = Free /\ task' = [tasks EXCEPT ![s] = Out(g)]
    BY <1>2 DEF Want
  <2>2. inFlight' = flying \cup {g} /\ dirty' = owed
    BY <1>2 DEF Want
  <2>3. Out(g) # Free /\ Out(g).group = g /\ Out(g).phase = "out"
    BY DEF Out, Free
  <2>4. task'[s] = Out(g) /\ \A t \in Tasks \ {s} : task'[t] = tasks[t]
    BY <2>1
  <2>5. \A t \in Tasks : tasks[t] = Free \/ tasks[t].group # g
    BY <1>2 DEF Tracked
  <2>6. \A t \in Tasks : task'[t] # Free => task'[t].group \in inFlight'
    BY <2>2, <2>3, <2>4 DEF Tracked
  <2>7. ASSUME NEW h \in inFlight'
        PROVE  \E t \in Tasks :
                  /\ task'[t] # Free
                  /\ task'[t].group = h
                  /\ \A u \in Tasks \ {t} : task'[u] = Free \/ task'[u].group # h
    <3>1. CASE h = g
      <4>1. WITNESS s \in Tasks
      <4>2. QED BY <3>1, <2>3, <2>4, <2>5
    <3>2. CASE h # g
      <4>1. h \in flying
        BY <3>2, <2>2
      <4>2. PICK t \in Tasks :
              /\ tasks[t] # Free
              /\ tasks[t].group = h
              /\ \A u \in Tasks \ {t} : tasks[u] = Free \/ tasks[u].group # h
        BY <4>1 DEF Tracked
      <4>3. t # s
        BY <4>2, <2>1
      <4>4. \A u \in Tasks \ {t} : task'[u] = Free \/ task'[u].group # h
        BY <4>2, <2>3, <2>4, <3>2
      <4>5. QED BY <4>2, <4>3, <4>4, <2>4
    <3>3. QED BY <3>1, <3>2
  <2>8. Tracked(inFlight', dirty', task')
    BY <2>2, <2>6, <2>7 DEF Tracked
  <2>9. \A t \in Tasks : task'[t].phase = "answered" =>
           task'[t] = tasks[t] /\ t # s
    BY <2>3, <2>4
  <2>10. \A t \in Tasks : task'[t].phase = "answered" => task'[t].group # g
    BY <2>5, <2>9 DEF Free
  <2>11. QED BY <2>2, <2>8, <2>9, <2>10, <1>2 DEF Wanted
<1>3. QED BY <1>1, <1>2

\* An answered task leaves: nothing else was out for its group.
LEMMA DoneTracks ==
    ASSUME TypeOK, OneFetchPerGroup,
           NEW t \in Tasks, task[t].phase = "answered"
    PROVE  LET g == task[t].group
           IN  /\ Tracked(inFlight \ {g}, dirty \ {g},
                          [task EXCEPT ![t] = Free])
               /\ g \in inFlight
               /\ \A u \in Tasks \ {t} : task[u] = Free \/ task[u].group # g
<1> DEFINE g == task[t].group
           rest == [task EXCEPT ![t] = Free]
<1>1. task[t] # Free
  BY TaskShape
<1>2. g \in inFlight
  BY <1>1 DEF OneFetchPerGroup
<1>3. \A u \in Tasks \ {t} : task[u] = Free \/ task[u].group # g
  <2>1. PICK w \in Tasks :
          /\ task[w] # Free
          /\ task[w].group = g
          /\ \A u \in Tasks \ {w} : task[u] = Free \/ task[u].group # g
    BY <1>2 DEF OneFetchPerGroup
  <2>2. w = t
    BY <1>1, <2>1
  <2>3. QED BY <2>1, <2>2
<1>4. rest[t] = Free /\ \A u \in Tasks \ {t} : rest[u] = task[u]
  BY DEF TypeOK
<1>5. \A u \in Tasks : rest[u] # Free => rest[u].group \in inFlight \ {g}
  BY <1>3, <1>4 DEF OneFetchPerGroup
<1>6. ASSUME NEW h \in inFlight \ {g}
      PROVE  \E w \in Tasks :
                /\ rest[w] # Free
                /\ rest[w].group = h
                /\ \A u \in Tasks \ {w} : rest[u] = Free \/ rest[u].group # h
  <2>1. PICK w \in Tasks :
          /\ task[w] # Free
          /\ task[w].group = h
          /\ \A u \in Tasks \ {w} : task[u] = Free \/ task[u].group # h
    BY DEF OneFetchPerGroup
  <2>2. w # t
    BY <2>1
  <2>3. QED BY <2>1, <2>2, <1>4
<1>7. dirty \ {g} \subseteq inFlight \ {g}
  BY DEF OneFetchPerGroup
<1>8. Tracked(inFlight \ {g}, dirty \ {g}, rest)
  BY <1>5, <1>6, <1>7 DEF Tracked
<1>9. QED BY <1>2, <1>3, <1>8

-----------------------------------------------------------------------------
\* The invariant holds at the start, and every step keeps it.
LEMMA InitIInv == Init => IInv
BY DEF Init, IInv, TypeOK, TaskStates, Free, OneFetchPerGroup,
       AnswersAreCurrent, SettledIsCurrent

LEMMA HandleEventKeeps ==
    ASSUME IInv, TypeOK', NEW g \in Groups, HandleEvent(g)
    PROVE  IInv'
<1> USE DEF IInv
<1>1. /\ pending' = [pending EXCEPT ![g] = FALSE]
      /\ UNCHANGED <<truth, heard, rooms, shown, failed>>
      /\ Want(g, inFlight, dirty, task)
  BY DEF HandleEvent
<1>2. Tracked(inFlight, dirty, task)
  BY DEF OneFetchPerGroup, Tracked
<1>3. /\ Tracked(inFlight', dirty', task')
      /\ g \in inFlight'
      /\ inFlight \subseteq inFlight'
      /\ dirty \subseteq dirty'
      /\ \A t \in Tasks : task'[t].phase = "answered" => task'[t] = task[t]
      /\ g \in inFlight => g \in dirty'
      /\ g \notin inFlight => \A t \in Tasks :
            task'[t].phase = "answered" => task'[t].group # g
  <2>1. /\ inFlight \in SUBSET Groups
        /\ dirty \in SUBSET Groups
        /\ task \in [Tasks -> TaskStates]
    BY DEF TypeOK
  <2>2. Wanted(g, inFlight, dirty, task)
    BY <1>1, <1>2, <2>1, WantTracks
  <2>3. QED BY <2>2 DEF Wanted
<1>4. OneFetchPerGroup'
  BY <1>3 DEF OneFetchPerGroup, Tracked
<1>5. AnswersAreCurrent'
  <2>1. ASSUME NEW t \in Tasks, task'[t].phase = "answered",
               task'[t].val # Failed
        PROVE  /\ shown'[task'[t].group] <= task'[t].val
               /\ task'[t].val <= truth'[task'[t].group]
               /\ task'[t].group \in rooms' /\ ~pending'[task'[t].group]
                  /\ task'[t].group \notin dirty' =>
                      heard'[task'[t].group] <= task'[t].val
    <3>1. task'[t] = task[t]
      BY <1>3, <2>1
    <3>2. task[t].group \in Groups
      BY <2>1, <3>1, TaskShape
    <3>3. CASE task[t].group = g
      BY <1>1, <1>3, <2>1, <3>1, <3>3 DEF AnswersAreCurrent
    <3>4. CASE task[t].group # g
      BY <1>1, <1>3, <2>1, <3>1, <3>2, <3>4 DEF AnswersAreCurrent, TypeOK
    <3>5. QED BY <3>3, <3>4
  <2>2. QED BY <1>1, <2>1 DEF AnswersAreCurrent
<1>6. SettledIsCurrent'
  BY <1>1, <1>3 DEF SettledIsCurrent, TypeOK
<1>7. QED BY <1>4, <1>5, <1>6

LEMMA ReadKeeps ==
    ASSUME IInv, TypeOK', NEW t \in Tasks, Read(t)
    PROVE  IInv'
<1> USE DEF IInv
<1> DEFINE g == task[t].group
<1>1. PICK v \in {truth[g], Failed} : task' = [task EXCEPT ![t] = Answered(g, v)]
  BY DEF Read
<1>2. task[t].phase = "out" /\ task[t] # Free /\ g \in Groups
  BY TaskShape DEF Read
<1>3. /\ task'[t] = Answered(g, v)
      /\ \A u \in Tasks \ {t} : task'[u] = task[u]
  BY <1>1 DEF TypeOK
<1>4. /\ task'[t] # Free /\ task'[t].group = g
      /\ task'[t].phase = "answered" /\ task'[t].val = v
  BY <1>3 DEF Answered, Free
<1>5. UNCHANGED <<truth, heard, pending, rooms, shown, inFlight, dirty, failed>>
  BY DEF Read
<1>6. OneFetchPerGroup'
  <2>1. \A u \in Tasks : (task'[u] = Free <=> task[u] = Free)
                        /\ (task[u] # Free => task'[u].group = task[u].group)
    BY <1>2, <1>3, <1>4
  <2>2. QED BY <2>1, <1>5 DEF OneFetchPerGroup
<1>7. AnswersAreCurrent'
  <2>1. v # Failed => v = truth[g] /\ shown[g] <= v /\ heard[g] <= v
    BY <1>2 DEF AnswersAreCurrent
  <2>2. truth[g] <= truth[g]
    BY <1>2 DEF TypeOK
  <2>3. QED BY <1>3, <1>4, <1>5, <2>1, <2>2 DEF AnswersAreCurrent
<1>8. SettledIsCurrent'
  BY <1>5 DEF SettledIsCurrent
<1>9. QED BY <1>6, <1>7, <1>8

LEMMA DoneKeeps ==
    ASSUME IInv, TypeOK', NEW t \in Tasks, Done(t)
    PROVE  IInv'
<1> USE DEF IInv
<1> DEFINE g == task[t].group
           v == task[t].val
           rest == [task EXCEPT ![t] = Free]
<1>1. /\ task[t].phase = "answered"
      /\ task[t] # Free
      /\ g \in Groups
      /\ v \in Nat \cup {Failed}
  BY TaskShape DEF Done
<1>2. /\ UNCHANGED <<truth, heard, pending, rooms>>
      /\ shown' = Folded(g, v)
      /\ failed' = [failed EXCEPT ![g] = (v = Failed)]
  BY DEF Done
<1>3. /\ Tracked(inFlight \ {g}, dirty \ {g}, rest)
      /\ g \in inFlight
      /\ \A u \in Tasks \ {t} : task[u] = Free \/ task[u].group # g
  BY <1>1, DoneTracks
<1>4. /\ rest \in [Tasks -> TaskStates]
      /\ rest[t] = Free
      /\ \A u \in Tasks \ {t} : rest[u] = task[u]
  BY DEF TypeOK, TaskStates, Free
<1>5. \A u \in Tasks : rest[u].phase = "answered" =>
         rest[u] = task[u] /\ task[u].group # g
  BY <1>3, <1>4 DEF Free
\* Whether or not another fetch is owed, what is answered was answered before,
\* and is another group's.
<1>6. /\ Tracked(inFlight', dirty', task')
      /\ inFlight \ {g} \subseteq inFlight'
      /\ dirty \ {g} \subseteq dirty'
      /\ \A u \in Tasks : task'[u].phase = "answered" =>
            task'[u] = task[u] /\ task[u].group # g
      /\ g \in inFlight' \/ g \notin dirty \/ g \notin rooms
  <2>1. CASE g \in dirty /\ g \in rooms
    <3>1. Want(g, inFlight \ {g}, dirty \ {g}, rest)
      BY <2>1 DEF Done
    <3>2. inFlight \ {g} \in SUBSET Groups /\ dirty \ {g} \in SUBSET Groups
      BY DEF TypeOK
    <3>3. /\ Tracked(inFlight', dirty', task')
          /\ g \in inFlight'
          /\ inFlight \ {g} \subseteq inFlight'
          /\ dirty \ {g} \subseteq dirty'
          /\ \A u \in Tasks : task'[u].phase = "answered" =>
                task'[u] = rest[u]
      <4>1. Wanted(g, inFlight \ {g}, dirty \ {g}, rest)
        BY <3>1, <3>2, <1>1, <1>3, <1>4, WantTracks
      <4>2. QED BY <4>1 DEF Wanted
    <3>4. QED BY <3>3, <1>5
  <2>2. CASE ~(g \in dirty /\ g \in rooms)
    <3>1. inFlight' = inFlight \ {g} /\ dirty' = dirty \ {g} /\ task' = rest
      BY <2>2 DEF Done
    <3>2. QED BY <3>1, <2>2, <1>3, <1>5
  <2>3. QED BY <2>1, <2>2
<1>7. OneFetchPerGroup'
  BY <1>6 DEF OneFetchPerGroup, Tracked
<1>8. /\ \A h \in Groups \ {g} : shown'[h] = shown[h]
      /\ shown'[g] <= truth[g]
      /\ g \in rooms /\ v # Failed => shown'[g] = v
  <2>1. v # Failed => v <= truth[g]
    BY <1>1 DEF AnswersAreCurrent
  <2>2. shown[g] <= truth[g]
    BY <1>1 DEF AnswersAreCurrent
  <2>3. QED BY <1>1, <1>2, <2>1, <2>2 DEF Folded, TypeOK
<1>9. AnswersAreCurrent'
  <2>1. \A h \in Groups : shown'[h] <= truth'[h] /\ heard'[h] <= truth'[h]
    BY <1>2, <1>8 DEF AnswersAreCurrent
  <2>2. ASSUME NEW u \in Tasks, task'[u].phase = "answered",
               task'[u].val # Failed
        PROVE  /\ shown'[task'[u].group] <= task'[u].val
               /\ task'[u].val <= truth'[task'[u].group]
               /\ task'[u].group \in rooms' /\ ~pending'[task'[u].group]
                  /\ task'[u].group \notin dirty' =>
                      heard'[task'[u].group] <= task'[u].val
    <3>1. task'[u] = task[u] /\ task[u].group # g
      BY <1>6, <2>2
    <3>2. task[u].group \in Groups
      BY <2>2, <3>1, TaskShape
    <3>3. QED BY <1>2, <1>6, <1>8, <2>2, <3>1, <3>2 DEF AnswersAreCurrent
  <2>3. QED BY <2>1, <2>2 DEF AnswersAreCurrent
<1>10. SettledIsCurrent'
  <2>1. ASSUME NEW h \in rooms', ~pending'[h], h \notin inFlight'
        PROVE  failed'[h] \/ shown'[h] >= heard'[h]
    <3>1. CASE h # g
      BY <1>2, <1>6, <1>8, <2>1, <3>1 DEF SettledIsCurrent, TypeOK
    <3>2. CASE h = g
      <4>1. g \notin dirty
        BY <1>2, <1>6, <2>1, <3>2
      <4>2. CASE v = Failed
        BY <1>1, <1>2, <3>2, <4>2 DEF TypeOK
      <4>3. CASE v # Failed
        <5>1. heard[g] <= v
          BY <1>1, <1>2, <2>1, <3>2, <4>1, <4>3 DEF AnswersAreCurrent
        <5>2. shown'[g] = v
          BY <1>2, <1>8, <2>1, <3>2, <4>3
        <5>3. QED BY <1>1, <1>2, <3>2, <5>1, <5>2, <4>3 DEF TypeOK
      <4>4. QED BY <4>2, <4>3
    <3>3. QED BY <3>1, <3>2
  <2>2. QED BY <2>1 DEF SettledIsCurrent
<1>11. QED BY <1>7, <1>9, <1>10

\* The environment's steps and the republish touch no task.
LEMMA OthersKeep ==
    ASSUME IInv, TypeOK',
           \/ \E g \in Groups : EditQueue(g) \/ PlaybackEvent(g)
           \/ \E new \in SUBSET Groups : Republish(new)
           \/ UNCHANGED vars
    PROVE  IInv'
<1> USE DEF IInv
<1>1. ASSUME UNCHANGED <<inFlight, dirty, task>> PROVE OneFetchPerGroup'
  BY <1>1 DEF OneFetchPerGroup
<1>2. ASSUME NEW t \in Tasks, task[t].phase = "answered"
      PROVE  task[t].group \in Groups /\ task[t].val \in Nat \cup {Failed}
  BY <1>2, TaskShape
<1>3. ASSUME NEW g \in Groups, EditQueue(g) PROVE IInv'
  <2>1. AnswersAreCurrent'
    BY <1>2, <1>3 DEF EditQueue, AnswersAreCurrent, TypeOK
  <2>2. SettledIsCurrent'
    BY <1>3 DEF EditQueue, SettledIsCurrent
  <2>3. QED BY <1>1, <1>3, <2>1, <2>2 DEF EditQueue
<1>4. ASSUME NEW g \in Groups, PlaybackEvent(g) PROVE IInv'
  <2>1. AnswersAreCurrent'
    BY <1>2, <1>4 DEF PlaybackEvent, AnswersAreCurrent, TypeOK
  <2>2. SettledIsCurrent'
    BY <1>4 DEF PlaybackEvent, SettledIsCurrent, TypeOK
  <2>3. QED BY <1>1, <1>4, <2>1, <2>2 DEF PlaybackEvent
<1>5. ASSUME NEW new \in SUBSET Groups, Republish(new) PROVE IInv'
  <2>1. AnswersAreCurrent'
    <3>1. \A g \in Groups, n \in Nat : shown'[g] <= n
      BY <1>5 DEF Republish
    <3>1a. \A g \in Groups : heard'[g] \in {truth[g], heard[g]}
      BY <1>5 DEF Republish
    <3>2a. \A g \in new : pending'[g]
      BY <1>5 DEF Republish
    <3>2. rooms' = new /\ UNCHANGED <<truth, dirty, task>>
      BY <1>5 DEF Republish
    <3>3. \A g \in Groups : shown'[g] <= truth'[g] /\ heard'[g] <= truth'[g]
      BY <3>1, <3>1a, <3>2 DEF AnswersAreCurrent, TypeOK
    <3>4. ASSUME NEW t \in Tasks, task[t].phase = "answered",
                 task[t].val # Failed
          PROVE  /\ shown'[task[t].group] <= task[t].val
                 /\ task[t].val <= truth[task[t].group]
                 /\ task[t].group \in rooms' => pending'[task[t].group]
      <4>1. task[t].val \in Nat /\ task[t].group \in Groups
        BY <1>2, <3>4
      <4>2. task[t].val <= truth[task[t].group]
        BY <3>4 DEF AnswersAreCurrent
      <4>3. shown'[task[t].group] <= task[t].val
        BY <3>1, <4>1
      <4>4. task[t].group \in rooms' => pending'[task[t].group]
        BY <3>2, <3>2a, Zenon
      <4>5. QED BY <4>2, <4>3, <4>4
    <3>5. QED BY <3>2, <3>3, <3>4 DEF AnswersAreCurrent
  <2>2. SettledIsCurrent'
    BY <1>5 DEF Republish, SettledIsCurrent
  <2>3. QED BY <1>1, <1>5, <2>1, <2>2 DEF Republish
<1>6. ASSUME UNCHANGED vars PROVE IInv'
  <2>1. AnswersAreCurrent'
    BY <1>6 DEF vars, AnswersAreCurrent
  <2>2. SettledIsCurrent'
    BY <1>6 DEF vars, SettledIsCurrent
  <2>3. QED BY <1>1, <1>6, <2>1, <2>2 DEF vars
<1>7. QED BY <1>3, <1>4, <1>5, <1>6

LEMMA Inductive == Spec => []IInv
<1>1. TypeOK /\ TypeOK' /\ IInv /\ [Next]_vars => IInv'
  BY HandleEventKeeps, ReadKeeps, DoneKeeps, OthersKeep DEF Next
<1>2. QED BY <1>1, InitIInv, TypeCorrect, PTL DEF Spec

\* The bookkeeping never has two fetches out for a group, or loses one.
THEOREM FetchesTracked == Spec => []OneFetchPerGroup
<1>1. IInv => OneFetchPerGroup
  BY DEF IInv
<1>2. QED BY <1>1, Inductive, PTL

\* A room with nothing left to handle shows what the last event spoke of.
THEOREM SettledCorrect == Spec => []SettledIsCurrent
<1>1. IInv => SettledIsCurrent
  BY DEF IInv
<1>2. QED BY <1>1, Inductive, PTL

\* No room ever goes back to an older queue version.
THEOREM NoRegress == Spec => NeverRegresses
<1> DEFINE Kept == \A g \in Groups : shown'[g] # 0 => shown'[g] >= shown[g]
<1>1. IInv /\ [Next]_vars => Kept
  <2> SUFFICES ASSUME IInv, [Next]_vars, NEW g \in Groups, shown'[g] # 0
               PROVE  shown'[g] >= shown[g]
    OBVIOUS
  <2>1. shown[g] >= shown[g] /\ TypeOK
    BY DEF IInv, TypeOK
  <2>2. ASSUME NEW t \in Tasks, Done(t) PROVE shown'[g] >= shown[g]
    <3>1. /\ shown' = Folded(task[t].group, task[t].val)
          /\ task[t].phase = "answered"
      BY <2>2 DEF Done
    <3>2. task[t].group \in Groups /\ task[t].val \in Nat \cup {Failed}
      BY <2>1, <3>1, TaskShape
    <3>3. task[t].val # Failed => shown[task[t].group] <= task[t].val
      BY <3>1 DEF IInv, AnswersAreCurrent
    <3>4. QED BY <2>1, <3>1, <3>2, <3>3 DEF Folded, TypeOK
  <2>3. ASSUME NEW new \in SUBSET Groups, Republish(new)
        PROVE  shown'[g] >= shown[g]
    BY <2>3 DEF Republish
  <2>4. CASE UNCHANGED shown
    BY <2>1, <2>4
  <2>5. QED
    BY <2>2, <2>3, <2>4
       DEF Next, vars, HandleEvent, EditQueue, PlaybackEvent, Read
<1>2. QED BY <1>1, Inductive, PTL DEF Spec, NeverRegresses

-----------------------------------------------------------------------------
(* Restarts.                                                               *)

\* What a step of the clock gives.
LEMMA StampNext ==
    ASSUME RestartsTypeOK, Stamp
    PROVE  /\ now \in Nat /\ now' = now + 1 /\ now' \in Nat
           /\ 0..now \subseteq 0..now' /\ 1..now \subseteq 1..now'
           /\ now' \in 1..now' /\ now' \in 0..now'
           /\ raw \in Seq(1..now')
<1>1. now \in Nat /\ now' = now + 1 /\ now' \in Nat
  BY DEF RestartsTypeOK, Stamp
<1>2. raw \in Seq(1..now')
  <2>1. raw \in Seq(1..now) /\ 1..now \subseteq 1..now'
    BY <1>1 DEF RestartsTypeOK
  <2>2. QED BY <2>1, SeqMonotonic
<1>3. QED BY <1>1, <1>2

\* Every variable keeps its type: nothing is stamped in the future, and the
\* backoff stays under its cap.
THEOREM RestartsTyped == RestartsSpec => []RestartsTypeOK
<1>1. RestartsInit => RestartsTypeOK
  <2>1. \A S : <<>> \in Seq(S)
    OBVIOUS
  <2>2. QED BY <2>1, BackoffAssumption DEF RestartsInit, RestartsTypeOK, Nothing
<1>2. RestartsTypeOK /\ [RestartsNext]_restartsVars => RestartsTypeOK'
  <2> SUFFICES ASSUME RestartsTypeOK, [RestartsNext]_restartsVars PROVE RestartsTypeOK'
    OBVIOUS
  <2>0. now \in Nat /\ MaxBackoff \in Nat
    BY BackoffAssumption DEF RestartsTypeOK
  <2>1. CASE Resume
    <3>1. slot' \in [reason : {"resumed", "network"}, at : 1..now']
      BY <2>1, StampNext DEF Resume, Restart
    <3>2. QED BY <2>1, <3>1, StampNext DEF Resume, RestartsTypeOK, loopVars
  <2>2. CASE NetworkTrigger
    <3>1. raw' \in Seq(1..now')
      BY <2>2, StampNext DEF NetworkTrigger
    <3>2. QED BY <2>2, <3>1, StampNext DEF NetworkTrigger, RestartsTypeOK, loopVars
  <2>3. CASE Collect
    <3>1. Head(raw) \in 1..now /\ Tail(raw) \in Seq(1..now)
      BY <2>3 DEF Collect, RestartsTypeOK
    <3>2. QED BY <2>3, <3>1, <2>0 DEF Collect, Latest, RestartsTypeOK, loopVars
  <2>4. CASE GoQuiet
    <3>1. slot' \in [reason : {"resumed", "network"}, at : 1..now]
      BY <2>4, <2>0 DEF GoQuiet, Settled, Restart, RestartsTypeOK
    <3>2. QED BY <2>4, <3>1, <2>0 DEF GoQuiet, RestartsTypeOK, loopVars
  <2>5. CASE Open
    BY <2>5, StampNext DEF Open, RestartsTypeOK
  <2>6. CASE ReadsHousehold
    BY <2>6 DEF ReadsHousehold, RestartsTypeOK, sourceVars
  <2>7. CASE ConnectFails
    BY <2>7 DEF ConnectFails, RestartsTypeOK, sourceVars
  <2>8. CASE Establish
    BY <2>8, <2>0, StampNext DEF Establish, RestartsTypeOK
  <2>9. CASE Handle \/ Handled \/ Lost
    BY <2>9 DEF Handle, Handled, Lost, RestartsTypeOK, sourceVars
  <2>10. CASE HearRestart
    BY <2>10 DEF HearRestart, RestartsTypeOK
  <2>11. CASE SleepOut
    BY <2>11, <2>0 DEF SleepOut, Doubled, RestartsTypeOK, sourceVars
  <2>12. CASE CutShort
    BY <2>12, <2>0 DEF CutShort, RestartsTypeOK
  <2>13. CASE UNCHANGED restartsVars
    BY <2>13 DEF restartsVars, RestartsTypeOK
  <2>14. QED BY <2>1, <2>2, <2>3, <2>4, <2>5, <2>6, <2>7, <2>8, <2>9, <2>10,
                <2>11, <2>12, <2>13 DEF RestartsNext
<1>3. QED BY <1>1, <1>2, PTL DEF RestartsSpec

-----------------------------------------------------------------------------
\* Whatever is reported happened, and no later than the last change.
NothingAhead ==
    /\ slot.at <= moved
    /\ settling <= moved
    /\ \A i \in DOMAIN raw : raw[i] <= moved

\* Nothing reported is ahead of the last change.
LEMMA AheadStep ==
    ASSUME RestartsTypeOK, NothingAhead, [RestartsNext]_restartsVars
    PROVE  NothingAhead'
<1> USE DEF NothingAhead
<1>0. now \in Nat /\ moved \in 0..now /\ raw \in Seq(1..now)
  BY DEF RestartsTypeOK
<1>1. CASE Resume
  <2>1. moved' = now + 1 /\ slot'.at = moved'
    BY <1>1 DEF Resume, Stamp, Restart
  <2>2. settling <= moved' /\ \A i \in DOMAIN raw : raw[i] <= moved'
    <3>1. \A i \in DOMAIN raw : raw[i] \in Nat
      BY <1>0
    <3>2. moved \in Nat /\ settling \in Nat /\ moved <= moved'
      BY <1>0, <2>1 DEF RestartsTypeOK
    <3>3. QED BY <3>1, <3>2, <1>0, <2>1
  <2>3. QED BY <1>1, <1>0, <2>1, <2>2 DEF Resume
<1>2. CASE NetworkTrigger
  <2>1. moved' = now + 1 /\ raw' = Append(raw, moved')
    BY <1>2 DEF NetworkTrigger, Stamp
  <2>2. slot.at \in Nat /\ settling \in Nat
    BY DEF RestartsTypeOK, Nothing
  <2>3. slot.at <= moved' /\ settling <= moved'
    BY <1>0, <2>1, <2>2
  <2>4. ASSUME NEW i \in DOMAIN raw' PROVE raw'[i] <= moved'
    <3>1. i \in 1..(Len(raw) + 1)
      BY <1>0, <2>1, <2>4
    <3>2. CASE i = Len(raw) + 1
      BY <1>0, <2>1, <3>2
    <3>3. CASE i # Len(raw) + 1
      <4>1. i \in 1..Len(raw) /\ raw'[i] = raw[i] /\ i \in DOMAIN raw
        BY <1>0, <2>1, <3>1, <3>3
      <4>2. raw[i] \in Nat /\ raw[i] <= moved
        BY <1>0, <4>1
      <4>3. QED BY <1>0, <2>1, <4>1, <4>2
    <3>4. QED BY <3>2, <3>3
  <2>5. QED BY <1>2, <2>3, <2>4 DEF NetworkTrigger
<1>3. CASE Collect
  <2>1. Head(raw) = raw[1] /\ 1 \in DOMAIN raw
    BY <1>3, <1>0 DEF Collect
  <2>2. \A i \in DOMAIN Tail(raw) : i + 1 \in DOMAIN raw /\ Tail(raw)[i] = raw[i + 1]
    BY <1>3, <1>0 DEF Collect
  <2>3. QED BY <1>3, <2>1, <2>2 DEF Collect, Latest
<1>4. CASE GoQuiet
  BY <1>4, <1>0 DEF GoQuiet, Settled, Restart
<1>5. CASE HearRestart \/ CutShort
  <2>1. slot'.at = 0 /\ UNCHANGED <<moved, raw, settling>>
    BY <1>5 DEF HearRestart, CutShort, Nothing
  <2>2. QED BY <2>1, <1>0
<1>6. CASE \/ Open \/ ReadsHousehold \/ ConnectFails \/ Establish \/ Handle \/ Handled
           \/ Lost \/ SleepOut \/ UNCHANGED restartsVars
  <2>1. UNCHANGED <<moved, raw, settling, slot>>
    BY <1>6 DEF Open, ReadsHousehold, ConnectFails, Establish, Handle, Handled, Lost,
                SleepOut, sourceVars, restartsVars
  <2>2. QED BY <2>1
<1>7. QED BY <1>1, <1>2, <1>3, <1>4, <1>5, <1>6 DEF RestartsNext

LEMMA AheadInvariant == RestartsSpec => []NothingAhead
<1>1. RestartsInit => NothingAhead
  BY DEF RestartsInit, NothingAhead, Nothing
<1>2. QED BY <1>1, AheadStep, RestartsTyped, PTL DEF RestartsSpec

\* The loop never throws away a connection newer than the last change, with one
\* watcher or both.
THEOREM FreshKept == RestartsSpec => FreshIsKept
<1>1. ASSUME RestartsTypeOK, NothingAhead, [RestartsNext]_restartsVars,
             pc = "serving", slot # Nothing, slot' = Nothing, pc' = "waiting"
      PROVE  moved > established
  <2>1. HearRestart
    BY <1>1 DEF RestartsNext, restartsVars, Resume, NetworkTrigger, Collect, GoQuiet, Open, ReadsHousehold,
                ConnectFails, Establish, Handle, Handled, Lost, SleepOut,
                CutShort, sourceVars, loopVars
  <2>2. slot.at > established
    BY <1>1, <2>1 DEF HearRestart, Postdates
  <2>3. slot.at \in Nat /\ moved \in Nat /\ established \in Nat
    BY <1>1 DEF RestartsTypeOK, Nothing
  <2>4. QED BY <1>1, <2>2, <2>3 DEF NothingAhead
<1>2. RestartsTypeOK /\ NothingAhead /\ [RestartsNext]_restartsVars
      => [pc = "serving" /\ slot # Nothing /\ slot' = Nothing /\ pc' = "waiting"
          => moved > established]_restartsVars
  BY <1>1
<1>3. QED BY <1>2, RestartsTyped, AheadInvariant, PTL DEF RestartsSpec, FreshIsKept

-----------------------------------------------------------------------------
\* Where the last change is on its way to the loop: the end of the debouncer's
\* queue, its stamp, or the channel with the debouncer idle.
LastUnderway ==
    \/ raw # <<>> /\ raw[Len(raw)] = moved
    \/ raw = <<>> /\ settling = moved
    \/ raw = <<>> /\ settling = 0 /\ slot.at = moved

\* Without a network watcher there is nothing to debounce; with one watcher, a
\* connection served past a change has that change, not just any, under way.
OneSource ==
    /\ "network" \notin watching => raw = <<>> /\ settling = 0
    /\ watching # Watchers /\ Serving /\ moved > established => LastUnderway

LEMMA SourceStep ==
    ASSUME RestartsTypeOK, OneSource, [RestartsNext]_restartsVars
    PROVE  OneSource'
<1> USE DEF OneSource
<1>0. /\ now \in Nat /\ moved \in 0..now /\ established \in 0..now
      /\ raw \in Seq(1..now)
      /\ watching \subseteq Watchers
  BY DEF RestartsTypeOK
<1>1. CASE Resume
  <2>1. watching' = watching /\ raw' = raw /\ settling' = settling
        /\ slot'.at = moved'
    BY <1>1 DEF Resume, Restart
  <2>2. "network" \notin watching \/ watching = Watchers
    BY <1>1, <1>0 DEF Resume, Watchers
  <2>3. QED BY <2>1, <2>2 DEF LastUnderway
<1>2. CASE NetworkTrigger
  <2>1. watching' = watching /\ "network" \in watching /\ raw' = Append(raw, moved')
    BY <1>2 DEF NetworkTrigger, Stamp
  <2>2. raw' # <<>> /\ raw'[Len(raw')] = moved'
    BY <2>1, <1>0
  <2>3. QED BY <2>1, <2>2 DEF LastUnderway
<1>3. CASE Collect
  <2>1. raw # <<>> /\ settling' = Head(raw) /\ raw' = Tail(raw)
        /\ watching' = watching /\ moved' = moved
        /\ established' = established /\ Serving' = Serving
    BY <1>3 DEF Collect, Latest, loopVars, Serving
  <2>2. "network" \in watching
    BY <2>1
  <2>3. ASSUME raw[Len(raw)] = moved PROVE LastUnderway'
    <3>1. CASE Len(raw) = 1
      <4>1. Tail(raw) = <<>> /\ Head(raw) = raw[Len(raw)]
        <5>1. Tail(raw) \in Seq(1..now) /\ Len(Tail(raw)) = 0
          BY <3>1, <2>1, <1>0, HeadTailProperties
        <5>2. Tail(raw) = <<>>
          BY <5>1, EmptySeq
        <5>3. QED BY <5>2, <3>1, <2>1, <1>0
      <4>2. QED BY <4>1, <2>1, <2>3 DEF LastUnderway
    <3>2. CASE Len(raw) # 1
      <4>1. Tail(raw) # <<>> /\ Tail(raw)[Len(Tail(raw))] = raw[Len(raw)]
        <5>1. Len(raw) \in Nat /\ Len(raw) > 1
          <6>1. Len(raw) \in Nat /\ Len(raw) # 0
            BY <2>1, <1>0, EmptySeq
          <6>2. \A n \in Nat : n # 0 /\ n # 1 => n > 1
            OBVIOUS
          <6>3. QED BY <6>1, <6>2, <3>2
        <5>2. Len(Tail(raw)) = Len(raw) - 1
          BY <2>1, <1>0, HeadTailProperties
        <5>3. Len(Tail(raw)) \in 1..Len(Tail(raw)) /\ Tail(raw) # <<>>
          <6>1. Len(Tail(raw)) \in Nat /\ Len(Tail(raw)) > 0
            BY <5>1, <5>2
          <6>2. Len(<<>>) = 0
            OBVIOUS
          <6>3. Tail(raw) # <<>>
            BY <6>1, <6>2
          <6>4. QED BY <6>1, <6>3
        <5>4. Tail(raw)[Len(Tail(raw))] = raw[Len(Tail(raw)) + 1]
          BY <5>3, <2>1, <1>0, HeadTailProperties
        <5>5. QED BY <5>1, <5>2, <5>3, <5>4
      <4>2. QED BY <4>1, <2>1, <2>3 DEF LastUnderway
    <3>3. QED BY <3>1, <3>2
  <2>4. QED BY <2>1, <2>2, <2>3 DEF LastUnderway
<1>4. CASE GoQuiet
  BY <1>4 DEF GoQuiet, Settled, Restart, LastUnderway, loopVars, Serving
<1>5. CASE HearRestart
  <2>1. raw' = raw /\ settling' = settling /\ moved' = moved
        /\ watching' = watching /\ established' = established
        /\ pc' = IF slot.at > established THEN "waiting" ELSE "serving"
    BY <1>5 DEF HearRestart, Postdates
  <2>2. CASE slot.at > established
    BY <2>1, <2>2 DEF Serving
  <2>3. CASE ~(slot.at > established)
    <3>1. Serving
      BY <1>5 DEF HearRestart, Serving
    <3>2. moved > established => slot.at # moved
      BY <2>3
    <3>3. QED BY <2>1, <3>1, <3>2 DEF LastUnderway
  <2>4. QED BY <2>2, <2>3
<1>6. CASE Establish
  <2>1. established' = now + 1 /\ moved' = moved
    BY <1>6 DEF Establish, Stamp
  <2>2. ~(moved' > established')
    BY <2>1, <1>0
  <2>3. QED BY <1>6, <2>2 DEF Establish
<1>7. CASE Handle \/ Handled
  BY <1>7 DEF Handle, Handled, sourceVars, Serving, LastUnderway
<1>8. CASE Open \/ ReadsHousehold \/ ConnectFails \/ Lost \/ SleepOut \/ CutShort
  BY <1>8 DEF Open, ReadsHousehold, ConnectFails, Lost, SleepOut, CutShort, sourceVars,
              Serving
<1>9. CASE UNCHANGED restartsVars
  BY <1>9 DEF restartsVars, Serving, LastUnderway
<1>10. QED BY <1>1, <1>2, <1>3, <1>4, <1>5, <1>6, <1>7, <1>8, <1>9 DEF RestartsNext

\* With one watcher, a connection served past a change always has a later
\* restart on its way to the loop: the channel of one loses nothing.
THEOREM OneWatcherIsTold == RestartsSpec => []OneWatcherTells
<1>1. RestartsInit => OneSource
  BY DEF RestartsInit, OneSource, Serving
<1>2. RestartsTypeOK /\ OneSource => OneWatcherTells
  <2> SUFFICES ASSUME RestartsTypeOK, OneSource, watching # Watchers, Serving,
                      moved > established
               PROVE  Underway(established)
    BY DEF OneWatcherTells, ToldOfChanges
  <2>1. LastUnderway
    BY DEF OneSource
  <2>2. CASE raw # <<>> /\ raw[Len(raw)] = moved
    <3>1. Len(raw) \in DOMAIN raw
      BY <2>2 DEF RestartsTypeOK
    <3>2. QED BY <2>2, <3>1 DEF Underway
  <2>3. CASE raw = <<>> /\ (settling = moved \/ slot.at = moved)
    BY <2>3 DEF Underway
  <2>4. QED BY <2>1, <2>2, <2>3 DEF LastUnderway
<1>3. QED BY <1>1, <1>2, SourceStep, RestartsTyped, PTL DEF RestartsSpec
=============================================================================

----------------------------- MODULE LaneOrder ------------------------------
(***************************************************************************)
(* The order the deck's lanes promise (deck/src/lanes.rs:1-14), with no    *)
(* queues, epochs or counts of barriers: a job runs as soon as, and not    *)
(* before, every earlier job it conflicts with is over.  A newer value for *)
(* the same thing takes the place of one that waits.                       *)
(***************************************************************************)
EXTENDS Naturals

CONSTANTS
    Jobs,     \* every job that may be sent, each once
    LaneOf,   \* the lane of each, or Free, or Barrier
    Free,
    Barrier,
    SetsOf,   \* the absolute value each sets, or Nothing
    Nothing

VARIABLES
    state,  \* what became of each job
    place,  \* its place in the order, or 0
    last    \* the last place given out

orderVars == <<state, place, last>>

Active == {"pending", "running"}

Conflict(i, j) ==
    /\ LaneOf[i] # Free /\ LaneOf[j] # Free
    /\ LaneOf[i] = LaneOf[j] \/ Barrier \in {LaneOf[i], LaneOf[j]}

\* The jobs j still has to wait for.
Before(st, pl, j) ==
    {i \in Jobs : st[i] \in Active /\ Conflict(i, j) /\ pl[i] < pl[j]}

\* Whatever has nothing left to wait for runs.
Settled(st, pl) ==
    [j \in Jobs |->
        IF st[j] = "pending" /\ Before(st, pl, j) = {} THEN "running" ELSE st[j]]

Start ==
    /\ state = [j \in Jobs |-> "unsent"]
    /\ place = [j \in Jobs |-> 0]
    /\ last = 0

\* The waiting job whose place j may take: never one from before a barrier.
Superseded(j) ==
    {p \in Jobs :
        /\ state[p] = "pending"
        /\ LaneOf[j] \notin {Free, Barrier} /\ LaneOf[p] = LaneOf[j]
        /\ SetsOf[j] # Nothing /\ SetsOf[p] = SetsOf[j]
        /\ ~\E b \in Jobs : /\ LaneOf[b] = Barrier
                            /\ state[b] \in Active
                            /\ place[p] < place[b]}

Supersede(j) ==
    /\ state[j] = "unsent"
    /\ \E p \in Superseded(j) :
          LET st == [state EXCEPT ![p] = "dropped", ![j] = "pending"]
              pl == [place EXCEPT ![p] = 0, ![j] = place[p]]
          IN  state' = Settled(st, pl) /\ place' = pl
    /\ UNCHANGED last

Enter(j) ==
    /\ state[j] = "unsent"
    /\ Superseded(j) = {}
    /\ last' = last + 1
    /\ place' = [place EXCEPT ![j] = last']
    /\ state' = Settled([state EXCEPT ![j] = "pending"], place')

End(j) ==
    /\ state[j] = "running"
    /\ place' = [place EXCEPT ![j] = 0]
    /\ state' = Settled([state EXCEPT ![j] = "done"], place')
    /\ UNCHANGED last

Move == \E j \in Jobs : Supersede(j) \/ Enter(j) \/ End(j)

Spec == Start /\ [][Move]_orderVars
=============================================================================

---------------------------- MODULE ScenesProofs ----------------------------
(***************************************************************************)
(* Theorems about Grouping and Scenes, for every household and every scene *)
(* of it: the types, that no command but group and apply costs a room its  *)
(* queue, that a command which reports success has done what was asked,    *)
(* and that apply leaves alone what stands.                                *)
(***************************************************************************)
EXTENDS Scenes, FiniteSetTheorems, SequenceTheorems, TLAPS

-----------------------------------------------------------------------------
-----------------------------------------------------------------------------
\* The rooms of a scene group.

\* What holds of 0, and of n + 1 when it holds of n, holds of every number.
LEMMA Counting ==
    ASSUME NEW S, 0 \in S, \A n \in Nat : n \in S => n + 1 \in S
    PROVE  Nat \subseteq S
<1> SUFFICES ASSUME Nat \ S # {} PROVE FALSE
  OBVIOUS
<1>1. PICK m \in Nat \ S : \A k \in Nat \ S : <<k, m>> \notin OpToRel(<, Nat)
  BY WFMin, NatLessThanWellFounded, Zenon
<1>2. \A k \in Nat \ S : ~(k < m)
  <2>1. m \in Nat
    OBVIOUS
  <2>2. \A k \in Nat \ S : ~(k < m)
    BY <1>1, <2>1, Zenon DEF OpToRel
  <2>3. QED BY <2>2
<1>3. m # 0 /\ m - 1 \in Nat /\ m - 1 < m
  OBVIOUS
<1>4. m - 1 \in S
  BY <1>2, <1>3
<1>5. QED BY <1>3, <1>4

\* What present has found after its first k rooms, one room after the other.
Keeps(players, rooms, f, k) ==
    f = [n \in 0..k |-> IF n = 0 THEN <<>> ELSE WithRoom(players, f[n - 1], rooms[n])]

\* However many rooms are listed, there is what is kept of them.
LEMMA SomeKept ==
    ASSUME NEW players, NEW rooms
    PROVE  \A k \in Nat : \E f : Keeps(players, rooms, f, k)
<1> DEFINE S == {k \in Nat : \E f : Keeps(players, rooms, f, k)}
<1>1. 0 \in S
  <2>1. Keeps(players, rooms, [n \in 0..0 |-> <<>>], 0)
    <3>1. [n \in 0..0 |-> <<>>]
            = [n \in 0..0 |-> IF n = 0 THEN <<>> ELSE WithRoom(players, [m \in 0..0 |-> <<>>][n - 1], rooms[n])]
      OBVIOUS
    <3>2. QED BY <3>1 DEF Keeps
  <2>2. QED BY <2>1
<1>2. ASSUME NEW k \in Nat, k \in S PROVE k + 1 \in S
  <2>1. PICK f : Keeps(players, rooms, f, k)
    BY <1>2
  <2> DEFINE g == [n \in 0..(k + 1) |-> IF n = k + 1 THEN WithRoom(players, f[k], rooms[k + 1]) ELSE f[n]]
  <2>2. \A n \in 0..k : f[n] = IF n = 0 THEN <<>> ELSE WithRoom(players, f[n - 1], rooms[n])
    BY <2>1 DEF Keeps
  <2>3. ASSUME NEW n \in 0..(k + 1)
        PROVE  g[n] = IF n = 0 THEN <<>> ELSE WithRoom(players, g[n - 1], rooms[n])
    <3>1. CASE n = k + 1
      <4>1. g[n - 1] = f[k] /\ n # 0
        BY <3>1
      <4>2. QED BY <3>1, <4>1
    <3>2. CASE n # k + 1
      <4>1. n \in 0..k /\ g[n] = f[n]
        BY <3>2
      <4>2. n # 0 => g[n - 1] = f[n - 1]
        BY <3>2
      <4>3. QED BY <2>2, <4>1, <4>2
    <3>3. QED BY <3>1, <3>2
  <2>4. Keeps(players, rooms, g, k + 1)
    <3>1. g = [n \in 0..(k + 1) |-> IF n = 0 THEN <<>> ELSE WithRoom(players, g[n - 1], rooms[n])]
      BY <2>3
    <3>2. QED BY <3>1 DEF Keeps
  <2>5. QED BY <2>4
<1>3. QED BY <1>1, <1>2, Counting

\* present gives players of the household.
LEMMA PresentIs ==
    ASSUME NEW cmd \in Commands, NEW group \in SceneGroups, group.rooms \in Seq(Range(group.rooms))
    PROVE  Present[cmd.listed][group] \in Seq(Rooms)
<1> DEFINE players == cmd.listed
           rooms == group.rooms
           g == CHOOSE f : f = [n \in 0..Len(rooms) |-> IF n = 0 THEN <<>>
                                 ELSE WithRoom(players, f[n - 1], rooms[n])]
<1>1. Len(rooms) \in Nat /\ players \subseteq Rooms
  <2>1. rooms \in Seq(Range(rooms))
    OBVIOUS
  <2>2. Len(rooms) \in Nat
    BY <2>1, LenProperties
  <2>3. QED BY <2>2, GroupingAssumption
<1>2. \E f : Keeps(players, rooms, f, Len(rooms))
  BY <1>1, SomeKept
<1>3. Keeps(players, rooms, g, Len(rooms))
  <2>1. \E f : f = [n \in 0..Len(rooms) |-> IF n = 0 THEN <<>>
                                           ELSE WithRoom(players, f[n - 1], rooms[n])]
    BY <1>2, Zenon DEF Keeps
  <2>2. g = [n \in 0..Len(rooms) |-> IF n = 0 THEN <<>> ELSE WithRoom(players, g[n - 1], rooms[n])]
    BY <2>1
  <2>3. QED BY <2>2 DEF Keeps
<1>4. Present[players][group] = g[Len(rooms)]
  <2>1. players \in {c.listed : c \in Commands}
    OBVIOUS
  <2>2. QED BY <2>1 DEF Present
<1> HIDE DEF g
<1>5. \A n \in 0..Len(rooms) : g[n] = IF n = 0 THEN <<>> ELSE WithRoom(players, g[n - 1], rooms[n])
  BY <1>3 DEF Keeps
<1> DEFINE T == {n \in Nat : n \in 0..Len(rooms) => g[n] \in Seq(Rooms)}
<1>6. 0 \in T
  <2>0. 0 \in 0..Len(rooms)
    BY <1>1
  <2>1. g[0] = <<>>
    BY <1>5, <2>0, Zenon
  <2>2. <<>> \in Seq(Rooms)
    BY EmptySeq
  <2>3. QED BY <2>1, <2>2
<1>7. ASSUME NEW n \in Nat, n \in T PROVE n + 1 \in T
  <2> SUFFICES ASSUME n + 1 \in 0..Len(rooms) PROVE g[n + 1] \in Seq(Rooms)
    OBVIOUS
  <2>1. n \in 0..Len(rooms)
    BY <1>1
  <2>2. g[n] \in Seq(Rooms)
    BY <1>7, <2>1
  <2>3. g[n + 1] = WithRoom(players, g[n], rooms[n + 1])
    BY <1>5, <2>1
  <2> DEFINE found == FindRoom(players, rooms[n + 1]) \ Range(g[n])
  <2>4. found \subseteq Rooms
    BY <1>1 DEF FindRoom
  <2>5. found # {} => (CHOOSE p \in found : TRUE) \in Rooms
    BY <2>4
  <2>6. g[n + 1] = IF found = {} THEN g[n] ELSE Append(g[n], CHOOSE p \in found : TRUE)
    BY <2>3 DEF WithRoom
  <2> HIDE DEF found
  <2>7. QED BY <2>2, <2>5, <2>6
<1>8. Nat \subseteq T
  BY <1>6, <1>7, Counting
<1>9. QED BY <1>1, <1>4, <1>8

-----------------------------------------------------------------------------
\* What a player makes of a request.

\* The household is rearranged into an arrangement, in which who does not leave
\* and whose coordinator does not leave is where it was.
LEMMA ModifiedIs ==
    ASSUME NEW h \in Arrangements, NEW req, NEW g \in Modified(h, req)
    PROVE  /\ g \in Arrangements
           /\ \A r \in Rooms \ Leaving(h, req) : h[r] \notin Leaving(h, req) => g[r] = h[r]
           /\ \A r \in req.add : g[r] = g[req.of]
           /\ \A r \in Leaving(h, req) \ req.add : g[r] = r
BY DEF Modified

\* Two arrangements that place every room alike are one.
LEMMA SameArrangement ==
    ASSUME NEW h \in Arrangements, NEW g \in Arrangements, \A r \in Rooms : g[r] = h[r]
    PROVE  g = h
BY DEF Arrangements

\* A request that nobody leaves by changes nothing.
LEMMA NobodyLeaves ==
    ASSUME NEW h \in Arrangements, NEW req, NEW g \in Modified(h, req),
           \A r \in Rooms : r \notin Leaving(h, req)
    PROVE  g = h
<1>1. g \in Arrangements /\ \A r \in Rooms : h[r] \in Rooms
  BY ModifiedIs DEF Arrangements
<1>2. \A r \in Rooms : g[r] = h[r]
  BY <1>1, ModifiedIs
<1>3. QED BY <1>1, <1>2, SameArrangement

\* A request to take a room out, of a coordinator.
Detaching(req, of, room) == req.of = of /\ req.add = {} /\ req.remove = {room}

\* A room that is taken out of another's group stands alone, the others where
\* they were.
LEMMA Detached ==
    ASSUME NEW h \in Arrangements, NEW f \in Rooms, h[f] # f,
           NEW req, Detaching(req, h[f], f), NEW g \in Modified(h, req)
    PROVE  g[f] = f /\ \A r \in Rooms \ {f} : g[r] = h[r] /\ h[r] # f
<1>1. Leaving(h, req) = {f}
  BY DEF Leaving, Members, Detaching
<1>2. \A r \in Rooms : h[r] # f
  BY DEF Arrangements
<1>3. g[f] = f
  BY <1>1, ModifiedIs DEF Detaching
<1>4. \A r \in Rooms \ {f} : g[r] = h[r]
  BY <1>1, <1>2, ModifiedIs
<1>5. QED BY <1>2, <1>3, <1>4

\* A room that coordinates is in no other's group to be taken out of.
LEMMA DetachedBefore ==
    ASSUME NEW h \in Arrangements, NEW f \in Rooms, h[f] = f,
           NEW req, NEW of, of # f, Detaching(req, of, f), NEW g \in Modified(h, req)
    PROVE  g = h
<1>1. Leaving(h, req) = {}
  BY DEF Leaving, Members, Detaching
<1>2. QED BY <1>1, NobodyLeaves

\* Rooms that are added to a group are in it, and with them who was in it.
LEMMA Added ==
    ASSUME NEW h \in Arrangements, NEW req, Coordinates(h, req.of), req.of \in Rooms,
           req.add \subseteq Rooms, req.of \notin req.add, req.remove = {},
           NEW g \in Modified(h, req)
    PROVE  /\ req.add \subseteq Members(g, req.of)
           /\ Members(h, req.of) \ req.add \subseteq Members(g, req.of)
<1>1. Leaving(h, req) = req.add
  BY DEF Leaving
<1>2. g[req.of] = req.of
  BY <1>1, ModifiedIs DEF Coordinates
<1>3. QED BY <1>1, <1>2, ModifiedIs DEF Members

-----------------------------------------------------------------------------
\* The changes of a scene group.

\* What is left to do for a group, in changes.
ChangesLeft(h, ids) ==
    IF Stands(h, ids) THEN 0 ELSE IF Coordinates(h, Head(ids)) THEN 1 ELSE 2

\* A request that was made for a group and changes nothing any more.
SpentOn(h, req, ids) ==
    /\ ids # <<>>
    /\ \/ req.of # Head(ids) /\ Detaching(req, req.of, Head(ids)) /\ Coordinates(h, Head(ids))
       \/ /\ req.of = Head(ids) /\ req.add \subseteq Range(ids) \ {Head(ids)}
          /\ req.remove \cap Range(ids) = {}
          /\ Stands(h, ids)

\* The first of the rooms of a group is one of them.
LEMMA HeadIn ==
    ASSUME NEW ids \in Seq(Rooms), ids # <<>>
    PROVE  Head(ids) \in Rooms /\ Head(ids) \in Range(ids) /\ Range(ids) \subseteq Rooms
BY DEF Range

\* next_step has nothing to do when the group stands as the scene has it, and
\* only then.
LEMMA SettledStands ==
    ASSUME NEW h \in Arrangements, NEW ids \in Seq(Rooms)
    PROVE  /\ NextStep(h, ids) = NoStep <=> Stands(h, ids)
           /\ ids # <<>> /\ Stands(h, ids) => Coordinates(h, Head(ids))
<1>1. CASE ids = <<>>
  BY <1>1 DEF NextStep, Stands
<1>2. CASE ids # <<>>
  <2> DEFINE f == Head(ids)
             group == Members(h, h[f])
  <2>1. f \in Rooms /\ f \in Range(ids) /\ Range(ids) \subseteq Rooms
    BY <1>2, HeadIn
  <2>2. Stands(h, ids) <=> Members(h, f) = Range(ids)
    BY <1>2 DEF Stands
  <2>3. Stands(h, ids) => h[f] = f
    BY <2>1, <2>2 DEF Members
  <2>4. NoStep.add = {} /\ NoStep.remove = {}
    BY DEF NoStep
  <2>5. CASE h[f] # f
    <3>1. NextStep(h, ids) = [of |-> h[f], add |-> {}, remove |-> {f}]
      BY <1>2, <2>5 DEF NextStep, Coordinates
    <3>2. NextStep(h, ids).remove = {f}
      BY <3>1
    <3>3. QED BY <2>3, <2>4, <2>5, <3>2
  <2>6. CASE h[f] = f /\ group = Range(ids)
    <3>1. NextStep(h, ids) = NoStep
      BY <1>2, <2>6 DEF NextStep, Coordinates
    <3>2. QED BY <2>2, <2>6, <3>1 DEF Coordinates
  <2>7. CASE h[f] = f /\ group # Range(ids)
    <3>1. NextStep(h, ids) = [of |-> f, add |-> Range(ids) \ group, remove |-> group \ Range(ids)]
      BY <1>2, <2>7 DEF NextStep, Coordinates
    <3>2. /\ NextStep(h, ids).add = Range(ids) \ group
          /\ NextStep(h, ids).remove = group \ Range(ids)
      BY <3>1
    <3>3. NextStep(h, ids) # NoStep
      BY <2>4, <2>7, <3>2
    <3>4. QED BY <2>2, <2>7, <3>3
  <2>8. QED BY <2>5, <2>6, <2>7
<1>3. QED BY <1>1, <1>2

\* What next_step asks where it has something to ask.
LEMMA StepIs ==
    ASSUME NEW h \in Arrangements, NEW ids \in Seq(Rooms), ~Stands(h, ids)
    PROVE  LET step == NextStep(h, ids) IN
           /\ ids # <<>> /\ step \in Requests
           /\ \/ ~Coordinates(h, Head(ids)) /\ Detaching(step, h[Head(ids)], Head(ids))
              \/ /\ Coordinates(h, Head(ids)) /\ step.of = Head(ids)
                 /\ step.add = Range(ids) \ Members(h, Head(ids))
                 /\ step.remove = Members(h, Head(ids)) \ Range(ids)
<1> DEFINE f == Head(ids)
           step == NextStep(h, ids)
<1>1. ids # <<>>
  BY DEF Stands
<1>2. f \in Rooms /\ Range(ids) \subseteq Rooms /\ h[f] \in Rooms
  BY <1>1, HeadIn DEF Arrangements
<1>3. CASE ~Coordinates(h, f)
  <2>1. step = [of |-> h[f], add |-> {}, remove |-> {f}]
    BY <1>1, <1>3 DEF NextStep
  <2>2. step \in Requests
    BY <1>2, <2>1 DEF Requests
  <2>3. Detaching(step, h[f], f)
    BY <2>1 DEF Detaching
  <2>4. QED BY <1>1, <1>3, <2>2, <2>3
<1>4. CASE Coordinates(h, f)
  <2>1. h[f] = f /\ Members(h, f) # Range(ids)
    BY <1>1, <1>4 DEF Stands, Coordinates
  <2>2. step = [of |-> f, add |-> Range(ids) \ Members(h, f), remove |-> Members(h, f) \ Range(ids)]
    BY <1>1, <1>4, <2>1 DEF NextStep
  <2>3. Range(ids) \ Members(h, f) \in SUBSET Rooms /\ Members(h, f) \ Range(ids) \in SUBSET Rooms
    BY <1>2 DEF Members
  <2>4. step \in Requests
    BY <1>2, <2>2, <2>3 DEF Requests
  <2>5. /\ step.of = f /\ step.add = Range(ids) \ Members(h, f)
        /\ step.remove = Members(h, f) \ Range(ids)
    BY <2>2
  <2>6. QED BY <1>1, <1>4, <2>4, <2>5
<1>5. QED BY <1>3, <1>4

\* A change that next_step asks for, once made, is spent: there is less to do.
LEMMA StepTaken ==
    ASSUME NEW h \in Arrangements, NEW ids \in Seq(Rooms), ~Stands(h, ids),
           NEW g \in Modified(h, NextStep(h, ids))
    PROVE  /\ g \in Arrangements
           /\ SpentOn(g, NextStep(h, ids), ids)
           /\ ChangesLeft(g, ids) + 1 <= ChangesLeft(h, ids)
<1> DEFINE f == Head(ids)
           R == Range(ids)
           step == NextStep(h, ids)
<1>1. ids # <<>> /\ f \in Rooms /\ f \in R /\ R \subseteq Rooms
  BY HeadIn DEF Stands
<1>2. g \in Arrangements /\ h[f] \in Rooms
  BY <1>1, ModifiedIs DEF Arrangements
<1>3. CASE ~Coordinates(h, f) /\ Detaching(step, h[f], f)
  <2>1. h[f] # f
    BY <1>3 DEF Coordinates
  <2>2. g[f] = f
    BY <1>1, <1>3, <2>1, Detached
  <2>3. step.of # f /\ Detaching(step, step.of, f)
    BY <1>3, <2>1 DEF Detaching
  <2>4. SpentOn(g, step, ids)
    BY <1>1, <2>2, <2>3 DEF SpentOn, Coordinates
  <2>5. ChangesLeft(h, ids) = 2 /\ ChangesLeft(g, ids) \in {0, 1}
    BY <1>3, <2>2 DEF ChangesLeft, Coordinates
  <2>6. QED BY <1>2, <2>4, <2>5
<1>4. CASE /\ Coordinates(h, f) /\ step.of = f
           /\ step.add = R \ Members(h, f) /\ step.remove = Members(h, f) \ R
  <2>1. h[f] = f
    BY <1>4 DEF Coordinates
  <2>2. Leaving(h, step) = (R \ Members(h, f)) \cup (Members(h, f) \ R)
    BY <1>4 DEF Leaving
  <2>3. f \notin Leaving(h, step)
    BY <1>1, <2>1, <2>2 DEF Members
  <2>4. g[f] = f
    BY <1>1, <2>1, <2>3, ModifiedIs
  <2>5. ASSUME NEW r \in R PROVE g[r] = f
    <3>1. CASE r \in Members(h, f)
      <4>1. r \notin Leaving(h, step) /\ h[r] = f /\ r \in Rooms
        BY <2>2, <2>5, <3>1 DEF Members
      <4>2. QED BY <2>3, <4>1, ModifiedIs
    <3>2. CASE r \notin Members(h, f)
      BY <1>4, <2>4, <2>5, <3>2, ModifiedIs
    <3>3. QED BY <3>1, <3>2
  <2>6. ASSUME NEW r \in Rooms \ R PROVE g[r] # f
    <3>1. CASE r \in Members(h, f)
      <4>1. r \in Leaving(h, step) \ step.add
        BY <1>4, <2>2, <2>6, <3>1
      <4>2. g[r] = r
        BY <4>1, ModifiedIs
      <4>3. QED BY <1>1, <2>6, <4>2
    <3>2. CASE r \notin Members(h, f)
      <4>1. r \notin Leaving(h, step)
        BY <2>2, <2>6, <3>2
      <4>2. g[r] \in Members(h, h[r]) \ Leaving(h, step)
        BY <4>1 DEF Modified
      <4>3. QED BY <2>1, <2>6, <3>2, <4>2 DEF Members
    <3>3. QED BY <3>1, <3>2
  <2>7. Members(g, f) = R
    BY <1>1, <2>5, <2>6 DEF Members
  <2>8. Stands(g, ids)
    BY <2>7 DEF Stands
  <2>9. step.add \subseteq R \ {f} /\ step.remove \cap R = {}
    BY <1>4, <2>1, <1>1 DEF Members
  <2>10. SpentOn(g, step, ids)
    BY <1>1, <1>4, <2>8, <2>9 DEF SpentOn
  <2>11. ChangesLeft(h, ids) = 1 /\ ChangesLeft(g, ids) = 0
    BY <1>4, <2>8 DEF ChangesLeft
  <2>12. QED BY <1>2, <2>10, <2>11
<1>5. QED BY <1>1, <1>3, <1>4, StepIs

\* ... and no other group of the scene is the worse for it.
LEMMA StepSparesOthers ==
    ASSUME NEW h \in Arrangements, NEW ids \in Seq(Rooms), ~Stands(h, ids),
           NEW g \in Modified(h, NextStep(h, ids)),
           NEW others \in Seq(Rooms), Range(others) \cap Range(ids) = {}, others # <<>>
    PROVE  /\ Coordinates(h, Head(others)) => Coordinates(g, Head(others))
           /\ Stands(h, others) => Stands(g, others)
<1> DEFINE f == Head(ids)
           R == Range(ids)
           step == NextStep(h, ids)
           o == Head(others)
           Q == Range(others)
<1>1. ids # <<>> /\ f \in Rooms /\ f \in R /\ R \subseteq Rooms
  BY HeadIn DEF Stands
<1>2. o \in Rooms /\ o \in Q /\ Q \subseteq Rooms /\ o \notin R /\ o # f
  BY <1>1, HeadIn
<1>3. (Stands(h, others) <=> Members(h, o) = Q) /\ (Stands(g, others) <=> Members(g, o) = Q)
  BY DEF Stands
<1>4. CASE ~Coordinates(h, f) /\ Detaching(step, h[f], f)
  <2>1. g[f] = f /\ f \notin Q /\ \A r \in Rooms \ {f} : g[r] = h[r]
    BY <1>1, <1>4, Detached DEF Coordinates
  <2>2. Members(h, o) = Q => Members(g, o) = Q
    BY <1>1, <1>2, <2>1 DEF Members
  <2>3. QED BY <1>2, <1>3, <2>1, <2>2 DEF Coordinates
<1>5. CASE /\ Coordinates(h, f) /\ step.of = f
           /\ step.add = R \ Members(h, f) /\ step.remove = Members(h, f) \ R
  <2>1. h[f] = f
    BY <1>5 DEF Coordinates
  <2>2. Leaving(h, step) = (R \ Members(h, f)) \cup (Members(h, f) \ R)
    BY <1>5 DEF Leaving
  <2> SUFFICES ASSUME h[o] = o
               PROVE  g[o] = o /\ (Members(h, o) = Q => Members(g, o) = Q)
    BY <1>2, <1>3 DEF Coordinates, Members
  <2>3. o \notin Leaving(h, step)
    BY <1>2, <2>2 DEF Members
  <2>4. g[o] = o
    BY <1>2, <2>3, ModifiedIs
  <2>5. ASSUME NEW r \in Rooms, h[r] = o, r \notin R PROVE g[r] = o
    <3>1. r \notin Leaving(h, step)
      BY <1>2, <2>2, <2>5 DEF Members
    <3>2. QED BY <2>3, <2>5, <3>1, ModifiedIs
  <2>6. g[f] = f
    <3>1. f \notin Leaving(h, step)
      BY <1>1, <2>1, <2>2 DEF Members
    <3>2. QED BY <1>1, <2>1, <3>1, ModifiedIs
  <2>7. ASSUME NEW r \in Rooms, g[r] = o, r # o PROVE h[r] = o
    <3>1. CASE r \in Leaving(h, step)
      <4>1. g[r] = f \/ g[r] = r
        BY <1>5, <2>6, <3>1, ModifiedIs
      <4>2. QED BY <1>2, <2>7, <4>1
    <3>2. CASE r \notin Leaving(h, step)
      <4>1. g[r] \in Members(h, h[r])
        BY <3>2, <2>7 DEF Modified
      <4>2. QED BY <2>7, <4>1 DEF Members
    <3>3. QED BY <3>1, <3>2
  <2>8. Members(h, o) = Q => Members(g, o) = Q
    <3> SUFFICES ASSUME Members(h, o) = Q PROVE Members(g, o) = Q
      OBVIOUS
    <3>1. \A r \in Q : r \in Rooms /\ h[r] = o /\ r \notin R
      BY DEF Members
    <3>2. \A r \in Q : g[r] = o
      BY <2>5, <3>1
    <3>3. \A r \in Rooms : g[r] = o => h[r] = o
      BY <2>7
    <3>4. \A r \in Rooms : g[r] = o => r \in Q
      BY <3>3 DEF Members
    <3>5. QED BY <3>1, <3>2, <3>4 DEF Members
  <2>9. QED BY <2>4, <2>8
<1>6. QED BY <1>1, <1>4, <1>5, StepIs

\* A spent request changes nothing.
LEMMA SpentChangesNothing ==
    ASSUME NEW h \in Arrangements, NEW ids \in Seq(Rooms), NEW req, SpentOn(h, req, ids),
           NEW g \in Modified(h, req)
    PROVE  g = h
<1> DEFINE f == Head(ids)
<1>1. ids # <<>> /\ f \in Rooms /\ f \in Range(ids) /\ Range(ids) \subseteq Rooms
  BY HeadIn DEF SpentOn
<1>2. CASE req.of # f /\ Detaching(req, req.of, f) /\ Coordinates(h, f)
  <2>1. h[f] = f
    BY <1>2 DEF Coordinates
  <2>2. QED BY <1>1, <1>2, <2>1, DetachedBefore
<1>3. CASE /\ req.of = f /\ req.add \subseteq Range(ids) \ {f}
           /\ req.remove \cap Range(ids) = {} /\ Stands(h, ids)
  <2>1. Members(h, f) = Range(ids) /\ h[f] = f
    BY <1>1, <1>3 DEF Stands, Members
  <2>2. Leaving(h, req) = req.add
    BY <1>3, <2>1 DEF Leaving
  <2>3. g \in Arrangements /\ g[f] = f
    BY <1>1, <1>3, <2>1, <2>2, ModifiedIs
  <2>4. ASSUME NEW r \in Rooms PROVE g[r] = h[r]
    <3>1. CASE r \in req.add
      <4>1. g[r] = f
        BY <1>3, <2>3, <3>1, ModifiedIs
      <4>2. h[r] = f
        BY <1>3, <2>1, <3>1 DEF Members
      <4>3. QED BY <4>1, <4>2
    <3>2. CASE r \notin req.add
      <4>1. h[r] \notin req.add
        <5>1. SUFFICES ASSUME h[r] \in req.add PROVE FALSE
          OBVIOUS
        <5>2. h[h[r]] = f /\ h[h[r]] = h[r]
          BY <1>3, <2>1, <5>1 DEF Members, Arrangements
        <5>3. QED BY <1>3, <5>1, <5>2
      <4>2. QED BY <2>2, <3>2, <4>1, ModifiedIs
    <3>3. QED BY <3>1, <3>2
  <2>5. QED BY <2>3, <2>4, SameArrangement
<1>4. QED BY <1>2, <1>3 DEF SpentOn

\* A change that is still to be made is not found made.
LEMMA StepNotConfirmed ==
    ASSUME NEW h \in Arrangements, NEW ids \in Seq(Rooms), ~Stands(h, ids)
    PROVE  ~Confirmed(h, NextStep(h, ids))
<1> DEFINE f == Head(ids)
           step == NextStep(h, ids)
<1>1. ids # <<>> /\ f \in Rooms /\ Range(ids) \subseteq Rooms
  BY HeadIn DEF Stands
<1>2. CASE ~Coordinates(h, f) /\ Detaching(step, h[f], f)
  <2>1. f \in step.remove \cap Members(h, step.of)
    BY <1>1, <1>2 DEF Detaching, Members
  <2>2. QED BY <2>1 DEF Confirmed
<1>3. CASE /\ Coordinates(h, f) /\ step.of = f
           /\ step.add = Range(ids) \ Members(h, f) /\ step.remove = Members(h, f) \ Range(ids)
  <2>1. Members(h, f) # Range(ids)
    BY <1>1 DEF Stands
  <2>2. QED BY <1>3, <2>1 DEF Confirmed
<1>4. QED BY <1>2, <1>3, StepIs
-----------------------------------------------------------------------------
\* Types.

Typed ==
    /\ TypeOK
    /\ nth >= 1
    /\ at \in {"planning", "mutes"} => command.name = "apply"

\* A scene is a sequence of groups, each of which comes to players.
LEMMA SceneIs ==
    ASSUME command \in Commands, command.name = "apply"
    PROVE  /\ Len(Scene) \in Nat /\ DOMAIN Scene = 1..Len(Scene)
           /\ \A i \in DOMAIN Scene :
                /\ Ids(i) \in Seq(Rooms)
                /\ Scene[i].muted \in BOOLEAN /\ Scene[i].play \in BOOLEAN
<1>1. Scene \in Seq(Range(Scene))
  BY ScenesAssumption DEF Scene
<1>2. Len(Scene) \in Nat /\ DOMAIN Scene = 1..Len(Scene)
  BY <1>1
<1>3. ASSUME NEW i \in DOMAIN Scene
      PROVE  /\ Scene[i].rooms \in Seq(Range(Scene[i].rooms))
             /\ Scene[i].muted \in BOOLEAN /\ Scene[i].play \in BOOLEAN
  BY <1>3, ScenesAssumption DEF Scene
<1>4. ASSUME NEW i \in DOMAIN Scene
      PROVE  Ids(i) \in Seq(Rooms)
  <2>1. Scene[i] \in SceneGroups
    BY DEF SceneGroups, Scene, Range
  <2>2. QED BY <1>3, <2>1, PresentIs DEF Ids, Listed
<1>5. QED BY <1>2, <1>3, <1>4

\* There is a bound on the changes of every group, and it leaves room for the
\* two that a group may need.
LEMMA BoundIs ==
    ASSUME command \in Commands, command.name = "apply", NEW n \in Nat, n >= 1
    PROVE  /\ Bound(n) \in Nat
           /\ n \in DOMAIN Scene => \A h \in Arrangements : ChangesLeft(h, Ids(n)) <= Bound(n)
<1>1. Len(Scene) \in Nat /\ DOMAIN Scene = 1..Len(Scene)
  BY SceneIs
<1>2. CASE n > Len(Scene)
  BY <1>1, <1>2 DEF Bound
<1>3. CASE ~(n > Len(Scene))
  <2>1. n \in DOMAIN Scene /\ Ids(n) \in Seq(Rooms)
    BY <1>1, <1>3, SceneIs
  <2>2. Cardinality(Listed) \in Nat
    BY FS_Subset, FS_CardinalityType, ScenesAssumption, GroupingAssumption DEF Listed
  <2>3. Bound(n) = Len(Ids(n)) + Cardinality(Listed) + 1 /\ Len(Ids(n)) \in Nat
    BY <1>3, <2>1 DEF Bound
  <2>4. CASE Ids(n) = <<>>
    BY <2>2, <2>3, <2>4 DEF ChangesLeft, Stands
  <2>5. CASE Ids(n) # <<>>
    <3>1. Len(Ids(n)) >= 1
      BY <2>1, <2>5, EmptySeq
    <3>2. \A h \in Arrangements : ChangesLeft(h, Ids(n)) \in {0, 1, 2}
      BY DEF ChangesLeft
    <3>3. QED BY <2>2, <2>3, <3>1, <3>2
  <2>6. QED BY <2>4, <2>5
<1>4. QED BY <1>2, <1>3

\* There is always a room to name when nothing is asked.
LEMMA NoAskTyped == ASSUME command \in Commands PROVE NoAsk \in Requests
<1>1. \E r \in Rooms : TRUE
  BY GroupingAssumption
<1>2. (CHOOSE r \in Rooms : TRUE) \in Rooms
  BY <1>1
<1>3. QED BY <1>2 DEF NoAsk, Requests

\* A request that a coordinator carries out leaves an arrangement.
LEMMA CarriedOutTyped ==
    ASSUME NEW req, CarriesOut(req), robbed \in BOOLEAN
    PROVE  house' \in Arrangements /\ robbed' \in BOOLEAN
BY DEF CarriesOut, Modified

\* The steps of the commands keep the types.
LEMMA CommandTyped ==
    ASSUME Typed, CommandStep \/ CarriedOutLate \/ Elsewhere, UNCHANGED sceneVars
    PROVE  Typed'
<1> USE DEF Typed, TypeOK, GroupingTypeOK, sceneVars
<1>1. /\ command \in Commands /\ command.host \in Rooms /\ command.rooms \subseteq Rooms
      /\ \A r \in Rooms : known[r] \in Rooms
      /\ \A c : Members(known, c) \subseteq Rooms
  BY GroupingAssumption DEF Arrangements, Members
<1>2. NoAsk \in Requests
  BY NoAskTyped
<1>3. CASE Answered
  BY <1>3, CarriedOutTyped DEF Answered
<1>4. CASE Refused
  BY <1>2, <1>4 DEF Refused, Ends
<1>5. CASE TimesOut
  BY <1>5 DEF TimesOut
<1>6. CASE Rereads
  BY <1>2, <1>6 DEF Rereads, Ends
<1>7. ASSUME NEW joining \in SUBSET Rooms, Gather(joining)
      PROVE  ask' \in Requests /\ at' \in {"asking", "done"}
  BY <1>1, <1>2, <1>7 DEF Gather, Ends, Asks, Requests
<1>8. CASE Group
  <2>1. ask' \in Requests /\ at' \in {"asking", "done"}
    BY <1>1, <1>7, <1>8 DEF Group
  <2>2. QED BY <1>8, <2>1 DEF Group
<1>9. CASE Party
  <2>1. ask' \in Requests /\ at' \in {"asking", "done"}
    <3>1. Listed \ Members(known, known[command.host]) \in SUBSET Rooms
      BY GroupingAssumption DEF Listed, Typed, TypeOK, GroupingTypeOK
    <3>2. QED BY <1>7, <1>9, <3>1 DEF Party
  <2>2. QED BY <1>9, <2>1 DEF Party
<1>10. CASE Ungroup
  <2>1. ask' \in Requests /\ at' \in {"asking", "done", "failed"}
    BY <1>1, <1>2, <1>10 DEF Ungroup, Ends, Asks, Requests
  <2>2. QED BY <1>10, <2>1 DEF Ungroup
<1>11. CASE PartyOff
  <2>1. ask' \in Requests /\ at' \in {"asking", "done"} /\ broken' \subseteq Rooms
    <3>1. CASE ToBreak = {} /\ Ends("done") /\ UNCHANGED broken
      BY <1>2, <3>1 DEF Ends
    <3>2. CASE \E c \in ToBreak :
                 /\ Asks(c, {}, Leavers(c))
                 /\ broken' = broken \cup {c}
      <4>1. PICK c \in ToBreak : Asks(c, {}, Leavers(c)) /\ broken' = broken \cup {c}
        BY <3>2
      <4>2. c \in Rooms /\ Leavers(c) \subseteq Rooms
        BY <1>1, GroupingAssumption DEF ToBreak, Leavers, Listed
      <4>3. QED BY <4>1, <4>2 DEF Asks, Requests
    <3>3. QED BY <1>11, <3>1, <3>2 DEF PartyOff
  <2>2. QED BY <1>11, <2>1 DEF PartyOff
<1>12. CASE Proceeds
  BY <1>2, <1>12 DEF Proceeds, Ends
<1>13. CASE CarriedOutLate
  BY <1>13, CarriedOutTyped DEF CarriedOutLate
<1>14. CASE Elsewhere
  BY <1>14 DEF Elsewhere
<1>15. QED BY <1>3, <1>4, <1>5, <1>6, <1>8, <1>9, <1>10, <1>11, <1>12, <1>13, <1>14 DEF CommandStep

\* The change that apply asks for is the one next_step gives, at a group of the
\* scene that does not stand yet.
LEMMA ChangesAsks ==
    ASSUME Typed, Changes
    PROVE  /\ nth \in DOMAIN Scene /\ Ids(nth) \in Seq(Rooms) /\ ~Stands(known, Ids(nth))
           /\ at' = "asking" /\ ask' = NextStep(known, Ids(nth)) /\ ask' \in Requests
           /\ tries' = tries - 1 /\ tries > 0
           /\ UNCHANGED <<house, command, known, broken, late, disturbed, robbed,
                          nth, unsettled, muted, unlevelled, unmuted, stray>>
<1> DEFINE step == NextStep(known, Ids(nth))
<1>1. /\ command \in Commands /\ command.name = "apply"
      /\ known \in Arrangements /\ nth \in Nat /\ nth >= 1
  BY DEF Typed, TypeOK, GroupingTypeOK, Changes
<1>2. nth \in DOMAIN Scene /\ Ids(nth) \in Seq(Rooms)
  BY <1>1, SceneIs DEF Changes
<1>3. step # NoStep /\ Asks(step.of, step.add, step.remove)
  BY DEF Changes
<1>4. ~Stands(known, Ids(nth))
  BY <1>1, <1>2, <1>3, SettledStands
<1>5. step \in Requests
  BY <1>1, <1>2, <1>4, StepIs
<1>6. ask' = step /\ at' = "asking"
  BY <1>3, <1>5 DEF Asks, Requests
<1>7. QED BY <1>2, <1>4, <1>5, <1>6 DEF Changes

\* The steps of apply keep the types.
LEMMA ApplyTyped ==
    ASSUME Typed, ApplyStep
    PROVE  Typed'
<1>1. /\ TypeOK /\ GroupingTypeOK /\ nth \in Nat /\ nth >= 1 /\ command \in Commands
      /\ NoAsk \in Requests
  BY NoAskTyped DEF Typed, TypeOK, GroupingTypeOK
<1>2. CASE ReadsGroups
  <2>1. known' \in Arrangements /\ ask' \in Requests /\ at' \in {"planning", "failed"}
    BY <1>1, <1>2 DEF ReadsGroups, Ends, GroupingTypeOK
  <2>2. QED BY <1>1, <1>2, <2>1 DEF ReadsGroups, Typed, TypeOK, GroupingTypeOK, sceneVars
<1>3. CASE Changes
  <2>1. tries' \in Nat
    BY <1>1, <1>3, ChangesAsks DEF TypeOK
  <2>2. QED BY <1>1, <1>3, <2>1, ChangesAsks DEF Typed, TypeOK, GroupingTypeOK
<1>4. CASE NextGroup
  <2>1. command.name = "apply"
    BY <1>4 DEF NextGroup, Typed
  <2>2. Bound(nth + 1) \in Nat
    BY <1>1, <2>1, BoundIs
  <2>3. unsettled' \subseteq Nat
    BY <1>1, <1>4 DEF NextGroup, TypeOK
  <2>4. QED BY <1>1, <1>4, <2>2, <2>3 DEF NextGroup, Typed, TypeOK, GroupingTypeOK, groupingVars
<1>5. CASE SetsLevels
  <2>1. muted' \cup unlevelled' \subseteq Rooms
    <3>1. RoomsWithLevel \subseteq Rooms
      BY <1>1, GroupingAssumption DEF RoomsWithLevel, FindRoom, Listed
    <3>2. QED BY <1>1, <1>5, <3>1 DEF SetsLevels, TypeOK
  <2>2. QED BY <1>1, <1>5, <2>1 DEF SetsLevels, Typed, TypeOK, GroupingTypeOK
<1>6. CASE PlaysGroup
  <2> DEFINE in == Members(house, known[Head(Ids(nth))])
  <2>1. muted' \in {muted, muted \cup in, muted \ in}
    BY <1>6 DEF PlaysGroup
  <2>2. muted' \subseteq Rooms
    BY <1>1, <2>1 DEF TypeOK, Members
  <2>3. unmuted' \in {unmuted, unmuted \cup {nth}}
    BY <1>6 DEF PlaysGroup
  <2>4. stray' \in BOOLEAN
    <3>1. stray' = stray \/ stray' = (stray \/ in # Range(Ids(nth)))
      BY <1>6, Zenon DEF PlaysGroup
    <3>2. (stray \/ in # Range(Ids(nth))) \in BOOLEAN
      OBVIOUS
    <3>3. QED BY <1>1, <3>1, <3>2 DEF TypeOK
  <2>5. unsettled' \cup unmuted' \subseteq Nat
    BY <1>1, <1>6, <2>3 DEF PlaysGroup, TypeOK
  <2>6. nth' = nth + 1 /\ UNCHANGED <<groupingVars, tries, unlevelled>>
    BY <1>6 DEF PlaysGroup
  <2>7. QED BY <1>1, <2>2, <2>4, <2>5, <2>6 DEF Typed, TypeOK, GroupingTypeOK, groupingVars
<1>7. CASE FavoritesUnread
  BY <1>1, <1>7 DEF FavoritesUnread, Ends, Typed, TypeOK, GroupingTypeOK, sceneVars
<1>8. CASE Applied
  BY <1>1, <1>8 DEF Applied, Ends, Typed, TypeOK, GroupingTypeOK, sceneVars
<1>9. QED BY <1>2, <1>3, <1>4, <1>5, <1>6, <1>7, <1>8 DEF ApplyStep

\* What the first state of a command is.
LEMMA InitTyped == ASSUME Init PROVE Typed
<1> USE DEF Init, GroupingInit
<1>1. command \in Commands /\ NoAsk \in Requests
  BY NoAskTyped
<1>2. tries \in Nat
  <2>1. command.name = "apply" => Bound(1) \in Nat
    BY <1>1, BoundIs
  <2>2. QED BY <2>1
<1>3. GroupingTypeOK
  BY <1>1 DEF GroupingTypeOK
<1>4. /\ nth = 1 /\ unsettled = {} /\ unmuted = {} /\ unlevelled = {} /\ stray = FALSE
      /\ at \notin {"planning", "mutes"} /\ muted \subseteq Rooms
  BY ScenesAssumption
<1> HIDE DEF Init, GroupingInit
<1>5. TypeOK
  BY <1>2, <1>3, <1>4 DEF TypeOK
<1>6. QED BY <1>4, <1>5 DEF Typed

\* Every step keeps the types.
LEMMA StepTyped == ASSUME Typed, [Next]_vars PROVE Typed'
<1>1. CASE UNCHANGED vars
  BY <1>1 DEF vars, groupingVars, sceneVars, Typed, TypeOK, GroupingTypeOK
<1>2. CASE LevelSetLate
  BY <1>2 DEF LevelSetLate, groupingVars, Typed, TypeOK, GroupingTypeOK
<1>3. QED BY <1>1, <1>2, CommandTyped, ApplyTyped DEF Next, Runs

\* A command, and with it a scene, never leaves its types.
THEOREM TypeCorrect == Spec => []TypeOK
<1>1. Typed => TypeOK
  BY DEF Typed
<1>2. QED BY <1>1, InitTyped, StepTyped, PTL DEF Spec

-----------------------------------------------------------------------------
\* Applying a scene.

AtGroup == nth \in DOMAIN Scene
Asked == at \in {"asking", "unanswered", "answered"}

\* A request that was made for some group of the scene and is spent.
Spent(h, req) == \E i \in DOMAIN Scene : SpentOn(h, req, Ids(i))

\* apply plans on, and plays by, the household as it is.
PlansOnFact == at \in {"planning", "asking", "mutes"} => known = house

\* What is asked is the next step of a group that does not stand.
AsksNextStep ==
    Asked => AtGroup /\ ~Stands(known, Ids(nth)) /\ ask = NextStep(known, Ids(nth))

\* A late request is the one without an answer, or it changes nothing.
LateIsSpent == \A req \in late : Spent(house, req) \/ (at = "unanswered" /\ req = ask)

\* The changes left for a group are enough; the one without an answer is to be
\* made still, or made.
EnoughTries ==
    AtGroup =>
      LET left == ChangesLeft(house, Ids(nth)) IN
      /\ at \in {"start", "planning", "answered"} => left <= tries
      /\ at = "asking" => left <= tries + 1
      /\ at = "unanswered" => \/ house = known /\ left <= tries + 1
                              \/ Spent(house, ask) /\ left <= tries

\* A group that apply has been through stands.
Through(i) == at \in {"mutes", "done"} \/ i < nth
InPlace ==
    /\ unsettled = {} /\ ~stray
    /\ \A i \in DOMAIN Scene : Through(i) => Stands(house, Ids(i))

\* ... and is muted or not, as the scene has it, but for a level that is late.
MutesSet ==
    at \in {"mutes", "done"} =>
      \A i \in DOMAIN Scene : i < nth /\ i \notin unmuted => MutedAs(i)

Finished == at = "done" => nth > Len(Scene)

Planning ==
    /\ PlansOnFact /\ AsksNextStep /\ LateIsSpent /\ EnoughTries
    /\ InPlace /\ MutesSet /\ Finished

ApplyInv == command.name = "apply" /\ ~disturbed /\ Apart /\ at # "failed" => Planning

\* The scene is the command's, and the command does not change: what the plan
\* is after a step is said of the same groups.
LEMMA SceneStays ==
    ASSUME UNCHANGED command
    PROVE  Scene' = Scene /\ (\A i : Ids(i)' = Ids(i)) /\ Apart' = Apart
<1>1. Scene' = Scene
  BY DEF Scene
<1>2. \A i : Ids(i)' = Ids(i)
  BY <1>1 DEF Ids, Listed
<1>3. Apart' = Apart
  BY <1>1, <1>2 DEF Apart
<1>4. QED BY <1>1, <1>2, <1>3

LEMMA PlanningNext ==
    ASSUME UNCHANGED command,
           at' \in {"planning", "asking", "mutes"} => known' = house',
           at' \in {"asking", "unanswered", "answered"} =>
              /\ nth' \in DOMAIN Scene /\ ~Stands(known', Ids(nth'))
              /\ ask' = NextStep(known', Ids(nth')),
           \A req \in late' : Spent(house', req) \/ (at' = "unanswered" /\ req = ask'),
           nth' \in DOMAIN Scene =>
              /\ at' \in {"start", "planning", "answered"} => ChangesLeft(house', Ids(nth')) <= tries'
              /\ at' = "asking" => ChangesLeft(house', Ids(nth')) <= tries' + 1
              /\ at' = "unanswered" =>
                   \/ house' = known' /\ ChangesLeft(house', Ids(nth')) <= tries' + 1
                   \/ Spent(house', ask') /\ ChangesLeft(house', Ids(nth')) <= tries',
           unsettled' = {}, ~stray',
           \A i \in DOMAIN Scene : at' \in {"mutes", "done"} \/ i < nth' => Stands(house', Ids(i)),
           at' \in {"mutes", "done"} =>
              \A i \in DOMAIN Scene : i < nth' /\ i \notin unmuted' =>
                \A r \in Range(Ids(i)) :
                  IF Scene[i].muted THEN r \in muted' \cup unlevelled' ELSE r \notin muted',
           at' = "done" => nth' > Len(Scene)
    PROVE  Planning'
<1>1. Scene' = Scene /\ \A i : Ids(i)' = Ids(i)
  BY SceneStays
<1>2. PlansOnFact'
  BY DEF PlansOnFact
<1>3. AsksNextStep'
  BY <1>1 DEF AsksNextStep, Asked, AtGroup
<1>4. LateIsSpent'
  BY <1>1 DEF LateIsSpent, Spent
<1>5. EnoughTries'
  BY <1>1 DEF EnoughTries, AtGroup, Spent
<1>6. InPlace'
  BY <1>1 DEF InPlace, Through
<1>7. MutesSet'
  BY <1>1 DEF MutesSet, MutedAs
<1>8. Finished'
  BY <1>1 DEF Finished
<1>9. QED BY <1>2, <1>3, <1>4, <1>5, <1>6, <1>7, <1>8 DEF Planning

\* The groups of the scene as the plan finds them.
LEMMA AtGroupIs ==
    ASSUME Typed, command.name = "apply"
    PROVE  /\ house \in Arrangements /\ known \in Arrangements /\ nth \in Nat /\ nth >= 1
           /\ tries \in Nat /\ Len(Scene) \in Nat /\ DOMAIN Scene = 1..Len(Scene)
           /\ \A i \in DOMAIN Scene : Ids(i) \in Seq(Rooms)
           /\ \A h : \A i \in DOMAIN Scene : ChangesLeft(h, Ids(i)) \in {0, 1, 2}
<1>1. command \in Commands /\ TypeOK /\ GroupingTypeOK
  BY DEF Typed, TypeOK, GroupingTypeOK
<1>2. Len(Scene) \in Nat /\ DOMAIN Scene = 1..Len(Scene) /\ \A i \in DOMAIN Scene : Ids(i) \in Seq(Rooms)
  BY <1>1, SceneIs
<1>3. \A h : \A i \in DOMAIN Scene : ChangesLeft(h, Ids(i)) \in {0, 1, 2}
  BY DEF ChangesLeft
<1>4. QED BY <1>1, <1>2, <1>3 DEF TypeOK, GroupingTypeOK, Typed

\* When the coordinator makes the change that is asked, it is spent, there is
\* less to do, and nothing of what stands or is spent is undone.
LEMMA AskedMade ==
    ASSUME Typed, command.name = "apply", Apart, Planning, at \in {"asking", "unanswered"},
           house = known, NEW g \in Modified(house, ask)
    PROVE  /\ Spent(g, ask)
           /\ ChangesLeft(g, Ids(nth)) + 1 <= ChangesLeft(house, Ids(nth))
           /\ \A req : Spent(house, req) => Spent(g, req)
           /\ \A i \in DOMAIN Scene : Stands(house, Ids(i)) => Stands(g, Ids(i))
<1> DEFINE ids == Ids(nth)
<1>1. /\ nth \in DOMAIN Scene /\ ~Stands(house, ids) /\ ask = NextStep(house, ids)
      /\ house \in Arrangements /\ \A i \in DOMAIN Scene : Ids(i) \in Seq(Rooms)
  BY AtGroupIs DEF Planning, AsksNextStep, Asked, AtGroup
<1>2. SpentOn(g, ask, ids) /\ ChangesLeft(g, ids) + 1 <= ChangesLeft(house, ids)
  BY <1>1, StepTaken
<1>3. ASSUME NEW i \in DOMAIN Scene, i # nth, Ids(i) # <<>>
      PROVE  /\ Coordinates(house, Head(Ids(i))) => Coordinates(g, Head(Ids(i)))
             /\ Stands(house, Ids(i)) => Stands(g, Ids(i))
  <2>1. Range(Ids(i)) \cap Range(ids) = {}
    BY <1>1, <1>3 DEF Apart
  <2>2. QED BY <1>1, <1>3, <2>1, StepSparesOthers
<1>4. ASSUME NEW i \in DOMAIN Scene, Stands(house, Ids(i)) PROVE Stands(g, Ids(i))
  <2>1. CASE Ids(i) = <<>>
    BY <2>1 DEF Stands
  <2>2. CASE Ids(i) # <<>>
    BY <1>1, <1>3, <1>4, <2>2
  <2>3. QED BY <2>1, <2>2
<1>5. ASSUME NEW req, NEW i \in DOMAIN Scene, SpentOn(house, req, Ids(i)) PROVE SpentOn(g, req, Ids(i))
  <2>1. CASE i # nth
    BY <1>3, <1>4, <1>5, <2>1 DEF SpentOn
  <2>2. CASE i = nth
    <3>1. Coordinates(g, Head(ids))
      <4>1. CASE Coordinates(house, Head(ids))
        <5>1. ask.of = Head(ids)
          BY <1>1, <4>1, StepIs
        <5>2. Stands(g, ids)
          BY <1>2, <5>1 DEF SpentOn
        <5>3. g \in Arrangements
          BY ModifiedIs, <1>1
        <5>4. QED BY <1>1, <1>2, <5>2, <5>3, SettledStands DEF SpentOn
      <4>2. CASE ~Coordinates(house, Head(ids))
        BY <1>1, <1>5, <2>2, <4>2 DEF SpentOn
      <4>3. QED BY <4>1, <4>2
    <3>2. QED BY <1>1, <1>5, <2>2, <3>1 DEF SpentOn
  <2>3. QED BY <2>1, <2>2
<1>6. QED BY <1>1, <1>2, <1>4, <1>5 DEF Spent

\* A late request makes the change that is asked, or nothing.
LEMMA LateMade ==
    ASSUME Typed, command.name = "apply", Planning, NEW req \in late, CarriesOut(req)
    PROVE  \/ house' = house
           \/ at = "unanswered" /\ req = ask /\ house = known /\ house' \in Modified(house, ask)
<1>1. house \in Arrangements /\ \A i \in DOMAIN Scene : Ids(i) \in Seq(Rooms)
  BY AtGroupIs
<1>2. house' \in Modified(house, req)
  BY DEF CarriesOut
<1>3. CASE Spent(house, req)
  <2>1. PICK i \in DOMAIN Scene : SpentOn(house, req, Ids(i))
    BY <1>3 DEF Spent
  <2>2. QED BY <1>1, <1>2, <2>1, SpentChangesNothing
<1>4. CASE ~Spent(house, req)
  <2>1. at = "unanswered" /\ req = ask
    BY <1>4 DEF Planning, LateIsSpent
  <2>2. AtGroup
    BY <2>1 DEF Planning, AsksNextStep, Asked
  <2>3. house = known
    BY <1>4, <2>1, <2>2 DEF Planning, EnoughTries
  <2>4. QED BY <1>2, <2>1, <2>3
<1>5. QED BY <1>3, <1>4


\* The steps of a request keep the plan.
LEMMA RequestKeepsPlan ==
    ASSUME Typed, command.name = "apply", Apart, Planning,
           Answered \/ TimesOut \/ CarriedOutLate \/ Rereads,
           UNCHANGED sceneVars, at' # "failed"
    PROVE  Planning'
<1> USE DEF sceneVars
<1>1. /\ house \in Arrangements /\ nth \in Nat /\ tries \in Nat /\ Len(Scene) \in Nat
      /\ DOMAIN Scene = 1..Len(Scene) /\ \A i \in DOMAIN Scene : Ids(i) \in Seq(Rooms)
      /\ \A h : \A i \in DOMAIN Scene : ChangesLeft(h, Ids(i)) \in {0, 1, 2}
  BY AtGroupIs
<1>2. /\ unsettled = {} /\ ~stray
      /\ \A i \in DOMAIN Scene : at \in {"mutes", "done"} \/ i < nth => Stands(house, Ids(i))
      /\ at \in {"mutes", "done"} =>
           \A i \in DOMAIN Scene : i < nth /\ i \notin unmuted => MutedAs(i)
      /\ at = "done" => nth > Len(Scene)
      /\ at \in {"planning", "asking", "mutes"} => known = house
  BY DEF Planning, InPlace, Through, MutesSet, Finished, PlansOnFact
<1>3. at \in {"asking", "unanswered", "answered"} =>
        nth \in DOMAIN Scene /\ ~Stands(known, Ids(nth)) /\ ask = NextStep(known, Ids(nth))
  BY DEF Planning, AsksNextStep, Asked, AtGroup
<1>4. \A req \in late : Spent(house, req) \/ (at = "unanswered" /\ req = ask)
  BY DEF Planning, LateIsSpent
<1>5. nth \in DOMAIN Scene =>
        /\ at \in {"start", "planning", "answered"} => ChangesLeft(house, Ids(nth)) <= tries
        /\ at = "asking" => ChangesLeft(house, Ids(nth)) <= tries + 1
        /\ at = "unanswered" => \/ house = known /\ ChangesLeft(house, Ids(nth)) <= tries + 1
                                \/ Spent(house, ask) /\ ChangesLeft(house, Ids(nth)) <= tries
  BY DEF Planning, EnoughTries, AtGroup
<1>6. CASE Answered
  <2>1. /\ at = "asking" /\ at' = "answered" /\ house' \in Modified(house, ask) /\ house = known
        /\ UNCHANGED <<command, known, ask, late, nth, tries, unsettled, muted, unlevelled, unmuted, stray>>
    BY <1>2, <1>6 DEF Answered, CarriesOut
  <2>2. /\ ChangesLeft(house', Ids(nth)) + 1 <= ChangesLeft(house, Ids(nth))
        /\ \A req : Spent(house, req) => Spent(house', req)
        /\ \A i \in DOMAIN Scene : Stands(house, Ids(i)) => Stands(house', Ids(i))
    BY <2>1, AskedMade
  <2>3. ChangesLeft(house', Ids(nth)) <= tries
    BY <1>1, <1>3, <1>5, <2>1, <2>2
  <2>4. \A req \in late' : Spent(house', req)
    BY <1>4, <2>1, <2>2
  <2>5. \A i \in DOMAIN Scene : i < nth => Stands(house', Ids(i))
    BY <1>2, <2>2
  <2>6. QED BY <1>2, <1>3, <2>1, <2>3, <2>4, <2>5, PlanningNext DEF MutedAs
<1>7. CASE TimesOut
  <2>1. /\ at = "asking" /\ at' = "unanswered" /\ late' = late \cup {ask} /\ house = known
        /\ UNCHANGED <<house, command, known, ask, nth, tries, unsettled, muted, unlevelled, unmuted, stray>>
    BY <1>2, <1>7 DEF TimesOut
  <2>2. \A req \in late' : Spent(house, req) \/ req = ask
    BY <1>4, <2>1
  <2>3. QED BY <1>2, <1>3, <1>5, <2>1, <2>2, PlanningNext DEF MutedAs
<1>8. CASE CarriedOutLate
  <2>1. PICK req \in late : CarriesOut(req) /\ late' = late \ {req}
    BY <1>8 DEF CarriedOutLate
  <2>2. UNCHANGED <<at, command, known, ask, nth, tries, unsettled, muted, unlevelled, unmuted, stray>>
    BY <1>8 DEF CarriedOutLate
  <2>3. CASE house' = house
    BY <1>2, <1>3, <1>4, <1>5, <2>1, <2>2, <2>3, PlanningNext DEF MutedAs
  <2>4. CASE at = "unanswered" /\ req = ask /\ house = known /\ house' \in Modified(house, ask)
    <3>1. /\ Spent(house', ask)
          /\ ChangesLeft(house', Ids(nth)) + 1 <= ChangesLeft(house, Ids(nth))
          /\ \A q : Spent(house, q) => Spent(house', q)
          /\ \A i \in DOMAIN Scene : Stands(house, Ids(i)) => Stands(house', Ids(i))
      BY <2>4, AskedMade
    <3>2. ChangesLeft(house, Ids(nth)) <= tries + 1
      BY <1>1, <1>3, <1>5, <2>4
    <3>3. ChangesLeft(house', Ids(nth)) <= tries
      BY <1>1, <1>3, <2>4, <3>1, <3>2
    <3>4. \A q \in late' : Spent(house', q)
      BY <1>4, <2>1, <3>1
    <3>5. \A i \in DOMAIN Scene : i < nth => Stands(house', Ids(i))
      BY <1>2, <3>1
    <3>6. QED BY <1>2, <1>3, <2>2, <2>4, <3>1, <3>3, <3>4, <3>5, PlanningNext DEF MutedAs
  <2>5. QED BY <2>1, <2>3, <2>4, LateMade
<1>9. CASE Rereads
  <2>1. /\ at = "unanswered" /\ Confirmed(house, ask) /\ at' = "answered"
        /\ UNCHANGED <<house, command, known, ask, late, nth, tries, unsettled, muted, unlevelled, unmuted, stray>>
    BY <1>9 DEF Rereads, Ends
  <2>2. house # known
    BY <1>1, <1>3, <2>1, StepNotConfirmed
  <2>3. Spent(house, ask) /\ ChangesLeft(house, Ids(nth)) <= tries
    BY <1>3, <1>5, <2>1, <2>2
  <2>4. \A req \in late : Spent(house, req)
    BY <1>4, <2>3
  <2>5. QED BY <1>2, <1>3, <2>1, <2>3, <2>4, PlanningNext DEF MutedAs
<1>10. QED BY <1>6, <1>7, <1>8, <1>9

\* The steps of apply keep the plan.
LEMMA ApplyKeepsPlan ==
    ASSUME Typed, Apart, Planning, ApplyStep, at' # "failed"
    PROVE  Planning'
<1>0. command.name = "apply"
  BY DEF ApplyStep, ReadsGroups, Changes, NextGroup, SetsLevels, PlaysGroup, FavoritesUnread,
         Applied, Typed
<1>1. /\ house \in Arrangements /\ known \in Arrangements /\ nth \in Nat /\ nth >= 1
      /\ tries \in Nat /\ Len(Scene) \in Nat
      /\ DOMAIN Scene = 1..Len(Scene) /\ \A i \in DOMAIN Scene : Ids(i) \in Seq(Rooms)
      /\ \A h : \A i \in DOMAIN Scene : ChangesLeft(h, Ids(i)) \in {0, 1, 2}
  BY <1>0, AtGroupIs
<1>2. /\ unsettled = {} /\ ~stray
      /\ \A i \in DOMAIN Scene : at \in {"mutes", "done"} \/ i < nth => Stands(house, Ids(i))
      /\ at \in {"mutes", "done"} =>
           \A i \in DOMAIN Scene : i < nth /\ i \notin unmuted => MutedAs(i)
      /\ at \in {"planning", "asking", "mutes"} => known = house
  BY DEF Planning, InPlace, Through, MutesSet, PlansOnFact
<1>4. at # "unanswered" => \A req \in late : Spent(house, req)
  BY DEF Planning, LateIsSpent
<1>5. nth \in DOMAIN Scene /\ at \in {"start", "planning", "answered"} =>
        ChangesLeft(house, Ids(nth)) <= tries
  BY DEF Planning, EnoughTries, AtGroup
<1>6. CASE ReadsGroups
  <2>1. /\ at \in {"start", "answered"} /\ at' = "planning" /\ known' = house
        /\ UNCHANGED <<house, command, late, nth, tries, unsettled, muted, unlevelled, unmuted, stray>>
    BY <1>6 DEF ReadsGroups, Ends, sceneVars
  <2>2. QED BY <1>2, <1>4, <1>5, <2>1, PlanningNext DEF MutedAs
<1>7. CASE Changes
  <2>1. /\ nth \in DOMAIN Scene /\ ~Stands(known, Ids(nth)) /\ at = "planning"
        /\ at' = "asking" /\ ask' = NextStep(known, Ids(nth)) /\ tries' = tries - 1
        /\ UNCHANGED <<house, command, known, late, nth, unsettled, muted, unlevelled, unmuted, stray>>
    BY <1>7, ChangesAsks DEF Changes
  <2>2. ChangesLeft(house, Ids(nth)) <= tries' + 1
    BY <1>1, <1>5, <2>1
  <2>3. QED BY <1>2, <1>4, <2>1, <2>2, PlanningNext DEF MutedAs
<1>8. CASE NextGroup
  <2>1. /\ at = "planning" /\ nth \in DOMAIN Scene /\ nth' = nth + 1 /\ tries' = Bound(nth + 1)
        /\ UNCHANGED <<house, command, at, known, ask, late, muted, unlevelled, unmuted, stray>>
    BY <1>1, <1>8 DEF NextGroup, groupingVars
  <2>2. Stands(house, Ids(nth)) /\ NextStep(known, Ids(nth)) = NoStep
    <3>1. NextStep(known, Ids(nth)) = NoStep \/ tries = 0
      BY <1>8 DEF NextGroup
    <3>2. tries = 0 => Stands(house, Ids(nth))
      <4>1. SUFFICES ASSUME tries = 0 PROVE Stands(house, Ids(nth))
        OBVIOUS
      <4>2. ChangesLeft(house, Ids(nth)) = 0
        BY <1>1, <1>5, <2>1, <4>1
      <4>3. QED BY <4>2 DEF ChangesLeft
    <3>3. QED BY <1>1, <1>2, <2>1, <3>1, <3>2, SettledStands
  <2>3. unsettled' = {}
    BY <1>2, <1>8, <2>2 DEF NextGroup
  <2>4. nth' \in DOMAIN Scene => ChangesLeft(house, Ids(nth')) <= tries'
    BY <1>0, <1>1, <2>1, BoundIs DEF Typed, TypeOK, GroupingTypeOK
  <2>5. \A i \in DOMAIN Scene : i < nth' => Stands(house, Ids(i))
    BY <1>1, <1>2, <2>1, <2>2
  <2>6. QED BY <1>2, <1>4, <2>1, <2>3, <2>4, <2>5, PlanningNext DEF MutedAs
<1>9. CASE SetsLevels
  <2>1. /\ at = "planning" /\ nth > Len(Scene) /\ at' = "mutes" /\ nth' = 1
        /\ UNCHANGED <<house, command, known, ask, late, tries, unsettled, unmuted, stray>>
    BY <1>9 DEF SetsLevels
  <2>2. \A i \in DOMAIN Scene : Stands(house, Ids(i))
    BY <1>1, <1>2, <2>1
  <2>3. \A i \in DOMAIN Scene : ~(i < nth')
    BY <1>1, <2>1
  <2>4. QED BY <1>2, <1>4, <2>1, <2>2, <2>3, PlanningNext
<1>10. CASE PlaysGroup
  <2> DEFINE ids == Ids(nth)
             live == known[Head(ids)]
             in == Members(house, live)
  <2>1. /\ at = "mutes" /\ nth \in DOMAIN Scene /\ nth' = nth + 1
        /\ UNCHANGED <<house, command, at, known, ask, late, tries, unsettled, unlevelled>>
    BY <1>1, <1>10 DEF PlaysGroup, groupingVars
  <2>2. /\ ids = <<>> => UNCHANGED <<muted, unmuted, stray>>
        /\ ids # <<>> =>
             /\ \/ /\ muted' = IF Scene[nth].muted THEN muted \cup in ELSE muted \ in
                   /\ UNCHANGED unmuted
                \/ /\ muted' = muted \/ muted' = IF Scene[nth].muted THEN muted \cup in ELSE muted \ in
                   /\ unmuted' = unmuted \cup {nth}
             /\ stray' = (stray \/ in # Range(ids)) \/ UNCHANGED stray
    BY <1>10, Zenon DEF PlaysGroup
  <2>3. ids # <<>> => in = Range(ids)
    <3>1. SUFFICES ASSUME ids # <<>> PROVE in = Range(ids)
      OBVIOUS
    <3>2. Stands(house, ids) /\ known = house
      BY <1>2, <2>1
    <3>3. live = Head(ids)
      BY <1>1, <2>1, <3>1, <3>2, SettledStands DEF Coordinates
    <3>4. QED BY <3>1, <3>2, <3>3 DEF Stands
  <2>4. ~stray'
    BY <1>2, <2>2, <2>3
  <2>5. ASSUME NEW i \in DOMAIN Scene, i < nth', i \notin unmuted', NEW r \in Range(Ids(i))
        PROVE  IF Scene[i].muted THEN r \in muted' \cup unlevelled' ELSE r \notin muted'
    <3>1. CASE i = nth
      <4>1. ids # <<>>
        BY <2>5, <3>1 DEF Range
      <4>2. muted' = IF Scene[nth].muted THEN muted \cup Range(ids) ELSE muted \ Range(ids)
        BY <2>2, <2>3, <2>5, <3>1, <4>1
      <4>3. Scene[nth].muted \in BOOLEAN
        BY <1>0, <2>1, SceneIs DEF Typed, TypeOK, GroupingTypeOK
      <4>4. QED BY <2>5, <3>1, <4>2, <4>3
    <3>2. CASE i # nth
      <4>1. i < nth /\ i \notin unmuted
        BY <1>1, <2>1, <2>2, <2>5, <3>2
      <4>2. IF Scene[i].muted THEN r \in muted \cup unlevelled ELSE r \notin muted
        BY <1>2, <2>1, <2>5, <4>1 DEF MutedAs
      <4>3. r \notin Range(ids)
        BY <2>1, <2>5, <3>2 DEF Apart
      <4>4. (r \in muted') <=> (r \in muted)
        BY <2>2, <2>3, <4>3
      <4>5. QED BY <2>1, <4>2, <4>4
    <3>3. QED BY <3>1, <3>2
  <2>6. unsettled' = {} /\ \A i \in DOMAIN Scene : Stands(house', Ids(i))
    BY <1>2, <2>1
  <2>7. \A req \in late' : Spent(house', req)
    BY <1>4, <2>1
  <2>8. at' = "mutes" /\ known' = house'
    BY <1>2, <2>1
  <2> HIDE DEF ids, live, in
  <2>9. QED BY <2>1, <2>4, <2>5, <2>6, <2>7, <2>8, PlanningNext
<1>11. CASE Applied
  <2>1. /\ at = "mutes" /\ at' = "done" /\ nth > Len(Scene)
        /\ UNCHANGED <<house, command, known, late, nth, tries, unsettled, muted, unlevelled, unmuted, stray>>
    BY <1>11 DEF Applied, Ends, sceneVars
  <2>2. QED BY <1>2, <1>4, <2>1, PlanningNext DEF MutedAs
<1>12. CASE FavoritesUnread
  BY <1>12 DEF FavoritesUnread, Ends
<1>13. QED BY <1>6, <1>7, <1>8, <1>9, <1>10, <1>11, <1>12 DEF ApplyStep

\* A plan is good at its start, and every step keeps it so unless another
\* controller regroups.
LEMMA ApplyInvStarts == ASSUME Init PROVE ApplyInv
<1> SUFFICES ASSUME command.name = "apply" PROVE Planning
  BY DEF ApplyInv
<1>1. Typed /\ house \in Arrangements /\ command \in Commands
  BY InitTyped DEF Typed, TypeOK, GroupingTypeOK
<1>2. /\ nth = 1 /\ at = "start" /\ late = {} /\ unsettled = {} /\ ~stray /\ tries = Bound(1)
  BY DEF Init, GroupingInit
<1>3. 1 \in DOMAIN Scene => ChangesLeft(house, Ids(1)) <= Bound(1)
  BY <1>1, BoundIs
<1>4. EnoughTries
  BY <1>2, <1>3 DEF EnoughTries, AtGroup
<1>5. PlansOnFact /\ AsksNextStep /\ LateIsSpent /\ MutesSet /\ Finished
  BY <1>2 DEF PlansOnFact, AsksNextStep, Asked, LateIsSpent, MutesSet, Finished
<1>6. InPlace
  <2>1. \A i \in DOMAIN Scene : ~(i < 1)
    BY <1>1, AtGroupIs
  <2>2. QED BY <1>2, <2>1 DEF InPlace, Through
<1>7. QED BY <1>4, <1>5, <1>6 DEF Planning

\* A level that is set late unmutes only where its note allows for it.
LEMMA LateLevelKeepsPlan ==
    ASSUME Typed, Planning, LevelSetLate
    PROVE  Planning'
<1>1. PICK late_r \in unlevelled \cap muted : muted' = muted \ {late_r}
  BY DEF LevelSetLate
<1>2. UNCHANGED <<house, command, at, known, ask, late, disturbed,
                  nth, tries, unsettled, unlevelled, unmuted, stray>>
  BY DEF LevelSetLate, groupingVars
<1>3. \A i \in DOMAIN Scene : MutedAs(i) =>
        \A r \in Range(Ids(i)) :
          IF Scene[i].muted THEN r \in muted' \cup unlevelled' ELSE r \notin muted'
  BY <1>1, <1>2 DEF MutedAs
<1>4. /\ PlansOnFact /\ AsksNextStep /\ LateIsSpent /\ EnoughTries
      /\ InPlace /\ MutesSet /\ Finished
  BY DEF Planning
<1>5. /\ at' \in {"planning", "asking", "mutes"} => known' = house'
      /\ at' \in {"asking", "unanswered", "answered"} =>
           /\ nth' \in DOMAIN Scene /\ ~Stands(known', Ids(nth'))
           /\ ask' = NextStep(known', Ids(nth'))
      /\ \A req \in late' : Spent(house', req) \/ (at' = "unanswered" /\ req = ask')
  BY <1>2, <1>4 DEF PlansOnFact, AsksNextStep, Asked, AtGroup, LateIsSpent
<1>6. at' = "mutes"
  BY <1>2 DEF LevelSetLate
<1>7. /\ unsettled' = {} /\ ~stray'
      /\ \A i \in DOMAIN Scene : Stands(house', Ids(i))
  BY <1>2, <1>4, <1>6 DEF InPlace, Through
<1>8. \A i \in DOMAIN Scene : i < nth' /\ i \notin unmuted' =>
        \A r \in Range(Ids(i)) :
          IF Scene[i].muted THEN r \in muted' \cup unlevelled' ELSE r \notin muted'
  BY <1>2, <1>3, <1>4, <1>6 DEF MutesSet
<1>9. QED BY <1>2, <1>5, <1>6, <1>7, <1>8, PlanningNext

\* No step changes the command.
LEMMA CommandStays == ASSUME Next PROVE UNCHANGED command
BY DEF Next, Runs, CommandStep, Answered, Refused, TimesOut, Rereads, Group, Party, Ungroup,
     PartyOff, Proceeds, CarriedOutLate, Elsewhere, ApplyStep, ReadsGroups, Changes, NextGroup,
     SetsLevels, PlaysGroup, FavoritesUnread, Applied, LevelSetLate, groupingVars

LEMMA ApplyInvKept == ASSUME Typed, ApplyInv, [Next]_vars PROVE ApplyInv'
<1> SUFFICES ASSUME command'.name = "apply", ~disturbed', Apart', at' # "failed" PROVE Planning'
  BY DEF ApplyInv
<1>0. UNCHANGED command /\ Apart
  <2>1. UNCHANGED command
    BY CommandStays DEF vars, groupingVars
  <2>2. QED BY <2>1, SceneStays
<1>1. CASE UNCHANGED vars
  <2>1. Planning
    BY <1>0, <1>1 DEF vars, groupingVars, ApplyInv
  <2>2. Scene' = Scene /\ \A i : Ids(i)' = Ids(i)
    BY <1>0, SceneStays
  <2>3. PlansOnFact' /\ AsksNextStep' /\ LateIsSpent' /\ EnoughTries'
    BY <1>1, <2>1, <2>2 DEF vars, groupingVars, sceneVars, Planning, PlansOnFact, AsksNextStep, Asked, AtGroup,
       LateIsSpent, EnoughTries, Spent
  <2>4. InPlace' /\ MutesSet' /\ Finished'
    BY <1>1, <2>1, <2>2 DEF vars, groupingVars, sceneVars, Planning, InPlace, Through, MutesSet, MutedAs, Finished
  <2>5. QED BY <2>3, <2>4 DEF Planning
<1>2. CASE ApplyStep
  <2>1. Planning
    BY <1>0, <1>2 DEF ApplyInv, ApplyStep, ReadsGroups, Changes, NextGroup, SetsLevels, PlaysGroup,
       FavoritesUnread, Applied, groupingVars
  <2>2. QED BY <1>0, <1>2, <2>1, ApplyKeepsPlan
<1>3. CASE (CommandStep \/ CarriedOutLate \/ Elsewhere) /\ UNCHANGED sceneVars
  <2>1. command.name = "apply"
    BY <1>0
  <2>2. Answered \/ TimesOut \/ CarriedOutLate \/ Rereads
    BY <1>3, <2>1 DEF CommandStep, Refused, Ends, Group, Party, Ungroup, PartyOff, Starts,
       Proceeds, Elsewhere
  <2>3. Planning
    BY <1>0, <2>1, <2>2 DEF ApplyInv, Answered, TimesOut, CarriedOutLate, Running, Rereads
  <2>4. QED BY <1>0, <1>3, <2>1, <2>2, <2>3, RequestKeepsPlan
<1>4. CASE LevelSetLate
  <2>1. Planning
    BY <1>0, <1>4 DEF ApplyInv, LevelSetLate, groupingVars
  <2>2. QED BY <1>4, <2>1, LateLevelKeepsPlan
<1>5. QED BY <1>1, <1>2, <1>3, <1>4 DEF Next, Runs

\* A scene that was applied while nobody else regrouped is in place: every
\* group stands, muted as the scene has it unless a note says otherwise, and no
\* soundtrack started in other rooms (scene.rs:494-496), however late coordinators
\* carried out a change and players set a level, in any household and for any
\* scene of which no player answers to rooms of two groups.
THEOREM ScenesAreApplied == Spec => []AppliedIsTheScene
<1>1. Init => Typed /\ ApplyInv
  BY InitTyped, ApplyInvStarts
<1>2. Typed /\ ApplyInv /\ [Next]_vars => (Typed /\ ApplyInv)'
  BY StepTyped, ApplyInvKept
<1>3. Typed /\ ApplyInv => AppliedIsTheScene
  <2> SUFFICES ASSUME Typed, ApplyInv, Done({"apply"}), ~disturbed, Apart
               PROVE  /\ unsettled = {} /\ ~stray
                      /\ \A i \in DOMAIN Scene :
                           /\ Stands(house, Ids(i))
                           /\ i \notin unmuted => MutedAs(i)
    BY DEF AppliedIsTheScene
  <2>1. Planning /\ at = "done" /\ command.name = "apply"
    BY DEF ApplyInv, Done
  <2>2. /\ unsettled = {} /\ ~stray /\ nth > Len(Scene)
        /\ \A i \in DOMAIN Scene : Stands(house, Ids(i))
        /\ \A i \in DOMAIN Scene : i < nth /\ i \notin unmuted => MutedAs(i)
    BY <2>1 DEF Planning, InPlace, Through, MutesSet, Finished
  <2>3. \A i \in DOMAIN Scene : i < nth
    BY <2>1, <2>2, AtGroupIs
  <2>4. QED BY <2>2, <2>3
<1>4. QED BY <1>1, <1>2, <1>3, PTL DEF Spec

\* No change that apply makes takes a group apart that stands as the scene has
\* it (scene.rs:17), while nobody else regroups and no player answers to rooms
\* of two groups.
THEOREM StandingGroupsAreKept == Spec => OnlyWhatDiffers
<1> DEFINE Spares == command.name = "apply" /\ ~disturbed' /\ Apart =>
              \A i \in DOMAIN Scene :
                 Stands(house, Ids(i)) => Stands(house', Ids(i))
<1>1. Init => Typed /\ ApplyInv
  BY InitTyped, ApplyInvStarts
<1>2. Typed /\ ApplyInv /\ [Next]_vars => (Typed /\ ApplyInv)'
  BY StepTyped, ApplyInvKept
<1>3. Typed /\ ApplyInv /\ [Next]_vars => [Spares]_vars
  <2> SUFFICES ASSUME Typed, ApplyInv, [Next]_vars, command.name = "apply", ~disturbed', Apart
               PROVE  \A i \in DOMAIN Scene : Stands(house, Ids(i)) => Stands(house', Ids(i))
    OBVIOUS
  <2>1. CASE house' = house
    BY <2>1
  <2>2. CASE Answered
    <3>1. Planning /\ at = "asking" /\ house = known /\ house' \in Modified(house, ask)
      BY <2>2 DEF Answered, CarriesOut, ApplyInv, Planning, PlansOnFact
    <3>2. QED BY <3>1, AskedMade
  <2>3. CASE CarriedOutLate
    <3>1. Planning
      BY <2>3 DEF CarriedOutLate, Running, ApplyInv
    <3>2. PICK req \in late : CarriesOut(req)
      BY <2>3 DEF CarriedOutLate
    <3>3. \/ house' = house
          \/ at = "unanswered" /\ house = known /\ house' \in Modified(house, ask)
      BY <3>1, <3>2, LateMade
    <3>4. QED BY <3>1, <3>3, AskedMade
  <2>4. house' = house \/ Answered \/ CarriedOutLate
    BY DEF Next, vars, groupingVars, Runs, CommandStep, Refused, TimesOut, Rereads, Group, Party, Ungroup,
       PartyOff, Proceeds, Elsewhere, ApplyStep, ReadsGroups, Changes, NextGroup, SetsLevels,
       PlaysGroup, FavoritesUnread, Applied, LevelSetLate
  <2>5. QED BY <2>1, <2>2, <2>3, <2>4
<1>4. QED BY <1>1, <1>2, <1>3, PTL DEF Spec, OnlyWhatDiffers
-----------------------------------------------------------------------------
\* The commands that end in "done".

\* What group and party want together, the coordinator they ask, the rooms they
\* ask it to add, and the household in which they have it.
Wanted == IF command.name = "group" THEN command.rooms ELSE Listed
HostGroup == Members(known, known[command.host])
Joining == Wanted \ HostGroup
Gathered(h) == Wanted \cup HostGroup \subseteq Members(h, known[command.host])

GatherInv ==
    command.name \in {"group", "party"} /\ ~disturbed /\ at # "failed" =>
      /\ at \in {"start", "asking"} => house = known /\ late = {}
      /\ Asked => /\ ask.of = known[command.host] /\ ask.add = Joining /\ ask.remove = {}
                  /\ Joining # {} /\ late \subseteq {ask}
      /\ at = "unanswered" => house = known \/ Gathered(house)
      /\ at \in {"answered", "done"} => Gathered(house)

\* ungroup takes the room out of the group of another.
Alone(h) == Members(h, command.host) = {command.host}

UngroupInv ==
    command.name = "ungroup" /\ ~disturbed /\ at # "failed" =>
      /\ at \in {"start", "asking"} => house = known /\ late = {}
      /\ Asked => /\ Detaching(ask, known[command.host], command.host)
                  /\ known[command.host] # command.host /\ late \subseteq {ask}
      /\ at = "unanswered" => house = known \/ Alone(house)
      /\ at \in {"answered", "done"} => Alone(house)

\* party off breaks one group of the household it knows after the other.
BreaksUp(req) == /\ req.of \in broken /\ req.add = {}
                 /\ req.remove = Leavers(req.of)
Broken(kn, ks) == [r \in Rooms |-> IF kn[r] \in ks /\ r \in Listed THEN r ELSE kn[r]]

PartyOffInv ==
    command.name = "party off" /\ ~disturbed /\ at # "failed" =>
      /\ \A c \in broken : Coordinates(known, c) /\ Leavers(c) # {}
      /\ Asked => BreaksUp(ask)
      /\ \A req \in late : BreaksUp(req) /\ (at = "asking" => req.of # ask.of)
      /\ \/ house = Broken(known, broken) /\ at # "asking"
         \/ at \in {"asking", "unanswered"} /\ house = Broken(known, broken \ {ask.of})
      /\ at = "done" => ToBreak = {}

DoneInv == GatherInv /\ UngroupInv /\ PartyOffInv

\* Breaking a group up, once or again.
LEMMA BrokenUp ==
    ASSUME NEW kn \in Arrangements, NEW ks \in SUBSET Rooms, NEW c \in Rooms, kn[c] = c,
           NEW req, req.of = c, req.add = {}, req.remove = (Members(kn, c) \cap Listed) \ {c},
           Broken(kn, ks) \in Arrangements, NEW g \in Modified(Broken(kn, ks), req)
    PROVE  g = Broken(kn, ks \cup {c})
<1> DEFINE h == Broken(kn, ks)
<1>1. \A r \in Rooms : /\ h[r] = IF kn[r] \in ks /\ r \in Listed THEN r ELSE kn[r]
                       /\ kn[r] \in Rooms /\ kn[kn[r]] = kn[r]
  BY DEF Broken, Arrangements
<1>2. g \in Arrangements
  BY ModifiedIs
<1> HIDE DEF h
<1>3. ASSUME NEW r \in Rooms PROVE g[r] = IF kn[r] \in ks \cup {c} /\ r \in Listed THEN r ELSE kn[r]
  <2>1. CASE r \in Leaving(h, req)
    <3>1. g[r] = r
      BY <2>1, ModifiedIs DEF h
    <3>2. kn[r] = c /\ r \in Listed
      BY <2>1 DEF Leaving, Members
    <3>3. QED BY <3>1, <3>2
  <2>2. CASE r \notin Leaving(h, req)
    <3>1. h[r] \notin Leaving(h, req)
      <4>1. SUFFICES ASSUME h[r] \in Leaving(h, req) PROVE FALSE
        OBVIOUS
      <4>2. kn[h[r]] = c /\ h[r] # c /\ h[h[r]] = c /\ h[r] \in Rooms
        BY <4>1 DEF Leaving, Members
      <4>3. h[r] = r
        BY <1>1, <4>2
      <4>4. QED BY <2>2, <4>1, <4>3
    <3>2. g[r] = h[r]
      BY <2>2, <3>1, ModifiedIs DEF h
    <3>3. CASE kn[r] = c
      <4>1. r \in Listed => r = c \/ h[r] # c
        BY <2>2, <3>3 DEF Leaving, Members
      <4>2. QED BY <1>1, <3>2, <3>3, <4>1
    <3>4. CASE kn[r] # c
      BY <1>1, <3>2, <3>4
    <3>5. QED BY <3>3, <3>4
  <2>3. QED BY <2>1, <2>2
<1>4. QED
  <2>1. g = [r \in Rooms |-> g[r]]
    BY <1>2 DEF Arrangements
  <2>2. QED BY <1>3, <2>1 DEF Broken

\* A room that is the only one of a group coordinates it.
LEMMA FewerThanTwo ==
    ASSUME NEW h \in Arrangements, NEW room \in Rooms, Cardinality(Members(h, h[room])) < 2
    PROVE  h[room] = room /\ Members(h, room) = {room}
<1> DEFINE group == Members(h, h[room])
<1>1. room \in group /\ h[room] \in group
  BY DEF Members, Arrangements
<1>2. IsFiniteSet(group)
  BY FS_Subset, ScenesAssumption DEF Members
<1>3. \A r \in group : r = room
  <2>1. SUFFICES ASSUME NEW r \in group, r # room PROVE FALSE
    OBVIOUS
  <2>2. IsFiniteSet(group \ {room}) /\ Cardinality(group \ {room}) = Cardinality(group) - 1
    BY <1>1, <1>2, FS_RemoveElement
  <2>3. Cardinality(group) \in Nat /\ Cardinality(group \ {room}) \in Nat
    BY <1>2, <2>2, FS_CardinalityType
  <2>4. Cardinality(group \ {room}) = 0
    BY <2>2, <2>3
  <2>5. QED BY <2>1, <2>2, <2>4, FS_EmptySet
<1>4. QED BY <1>1, <1>3

\* The steps that a command other than apply takes while nobody regroups.
LEMMA OtherSteps ==
    ASSUME Typed, command.name # "apply", Next, ~disturbed', at' # "failed"
    PROVE  /\ ~disturbed /\ at # "failed" /\ UNCHANGED <<command, known>>
           /\ Answered \/ TimesOut \/ CarriedOutLate \/ Rereads \/ Group \/ Party \/ Ungroup \/ PartyOff \/ Proceeds
<1>1. ~ApplyStep /\ ~LevelSetLate
  BY DEF ApplyStep, ReadsGroups, Changes, NextGroup, SetsLevels, PlaysGroup, FavoritesUnread,
     Applied, LevelSetLate, Typed
<1>2. ~Refused /\ ~Elsewhere
  BY DEF Refused, Ends, Elsewhere
<1>3. Answered \/ TimesOut \/ CarriedOutLate \/ Rereads \/ Group \/ Party \/ Ungroup \/ PartyOff \/ Proceeds
  BY <1>1, <1>2 DEF Next, Runs, CommandStep
<1>4. ASSUME Answered \/ TimesOut \/ Rereads \/ Group \/ Party \/ Ungroup \/ PartyOff \/ Proceeds
      PROVE  UNCHANGED <<command, known, disturbed>> /\ at # "failed"
  BY <1>4 DEF Answered, TimesOut, Rereads, Group, Party, Ungroup, PartyOff, Starts, Proceeds
<1>5. CarriedOutLate => UNCHANGED <<command, known, disturbed>> /\ at # "failed"
  BY DEF CarriedOutLate, Running
<1>6. UNCHANGED <<command, known, disturbed>> /\ at # "failed"
  BY <1>3, <1>4, <1>5
<1>7. QED BY <1>3, <1>6

\* group and party: the rooms join the coordinator of their host, once and for
\* all.
LEMMA GatherKept ==
    ASSUME Typed, GatherInv, Next
    PROVE  GatherInv'
<1> SUFFICES ASSUME command'.name \in {"group", "party"}, ~disturbed', at' # "failed"
             PROVE  GatherInv'
  BY DEF GatherInv
<1> DEFINE host == known[command.host]
<1>1. UNCHANGED command
  BY CommandStays
<1>2. /\ ~disturbed /\ at # "failed" /\ UNCHANGED <<command, known>>
      /\ Answered \/ TimesOut \/ CarriedOutLate \/ Rereads \/ Group \/ Party \/ Ungroup \/ PartyOff \/ Proceeds
  BY <1>1, OtherSteps
<1>3. /\ house \in Arrangements /\ known \in Arrangements /\ command.host \in Rooms
      /\ command.rooms \subseteq Rooms /\ host \in Rooms /\ known[host] = host
      /\ Wanted \subseteq Rooms
  BY GroupingAssumption DEF Typed, TypeOK, GroupingTypeOK, Arrangements, Wanted, Listed
<1>4. UNCHANGED <<Wanted, HostGroup, Joining>> /\ \A h : Gathered(h)' = Gathered(h)
  BY <1>2 DEF Wanted, Listed, HostGroup, Joining, Gathered
<1>5. /\ at \in {"start", "asking"} => house = known /\ late = {}
      /\ Asked => /\ ask.of = host /\ ask.add = Joining /\ ask.remove = {}
                  /\ Joining # {} /\ late \subseteq {ask}
      /\ at = "unanswered" => house = known \/ Gathered(house)
      /\ at \in {"answered", "done"} => Gathered(house)
  BY <1>1, <1>2 DEF GatherInv
<1>6. /\ host \in HostGroup /\ Joining \subseteq Rooms /\ Joining \cap HostGroup = {}
      /\ Wanted \cup HostGroup = Joining \cup HostGroup
  BY <1>3 DEF HostGroup, Joining, Members
<1>7. ASSUME Asked, house = known \/ Gathered(house), house' \in Modified(house, ask),
             Coordinates(house, ask.of)
      PROVE  Gathered(house')
  <2>1. ask.of = host /\ ask.add = Joining /\ ask.remove = {}
    BY <1>5, <1>7
  <2>2. HostGroup \subseteq Members(house, host)
    BY <1>7 DEF HostGroup, Gathered
  <2>3. /\ Joining \subseteq Members(house', host)
        /\ Members(house, host) \ Joining \subseteq Members(house', host)
    BY <1>3, <1>6, <1>7, <2>1, Added
  <2>4. QED BY <1>6, <2>2, <2>3 DEF Gathered
<1>8. ASSUME /\ at' \in {"start", "asking"} => house' = known /\ late' = {}
             /\ at' \in {"asking", "unanswered", "answered"} =>
                  /\ ask'.of = host /\ ask'.add = Joining /\ ask'.remove = {}
                  /\ Joining # {} /\ late' \subseteq {ask'}
             /\ at' = "unanswered" => house' = known \/ Gathered(house')
             /\ at' \in {"answered", "done"} => Gathered(house')
      PROVE  GatherInv'
  BY <1>2, <1>4, <1>8 DEF GatherInv, Asked, Gathered, Wanted, Listed, HostGroup, Joining
<1>9. CASE Answered
  <2>1. /\ at = "asking" /\ at' = "answered" /\ UNCHANGED <<ask, late>>
        /\ house' \in Modified(house, ask) /\ Coordinates(house, ask.of)
    BY <1>9 DEF Answered, CarriesOut
  <2>2. Gathered(house')
    BY <1>5, <1>7, <2>1 DEF Asked
  <2>3. QED BY <1>5, <1>8, <2>1, <2>2 DEF Asked
<1>10. CASE TimesOut
  <2>1. at = "asking" /\ at' = "unanswered" /\ UNCHANGED <<house, ask>> /\ late' = late \cup {ask}
    BY <1>10 DEF TimesOut
  <2>2. QED BY <1>5, <1>8, <2>1 DEF Asked
<1>11. CASE CarriedOutLate
  <2>1. PICK req \in late : CarriesOut(req) /\ late' = late \ {req}
    BY <1>11 DEF CarriedOutLate
  <2>2. UNCHANGED <<at, ask>> /\ at \notin {"done", "failed"}
    BY <1>11 DEF CarriedOutLate, Running
  <2>3. at \notin {"start", "asking", "planning", "mutes"}
    BY <1>1, <1>5, <2>1 DEF Typed
  <2>4. at \in {"unanswered", "answered"}
    BY <2>2, <2>3 DEF Typed, TypeOK, GroupingTypeOK
  <2>5. req = ask /\ Asked
    BY <1>5, <2>1, <2>4 DEF Asked
  <2>6. Gathered(house')
    BY <1>5, <1>7, <2>1, <2>4, <2>5 DEF CarriesOut
  <2>7. QED BY <1>5, <1>8, <2>1, <2>2, <2>4, <2>5, <2>6
<1>12. CASE Rereads
  <2>1. /\ at = "unanswered" /\ at' = "answered" /\ Confirmed(house, ask)
        /\ UNCHANGED <<house, late, ask>>
    BY <1>12 DEF Rereads, Ends
  <2>2. Asked
    BY <2>1 DEF Asked
  <2>3. house # known
    BY <1>5, <1>6, <2>1, <2>2 DEF Confirmed, HostGroup
  <2>4. QED BY <1>5, <1>8, <2>1, <2>2, <2>3
<1>13. CASE Group \/ Party
  <2>1. /\ at = "start" /\ Gather(Joining) /\ UNCHANGED <<house, late>>
    BY <1>13 DEF Group, Party, Starts, Joining, Wanted, HostGroup
  <2>2. CASE Joining = {}
    <3>1. at' = "done"
      BY <2>1, <2>2 DEF Gather, Ends
    <3>2. Gathered(house)
      BY <1>5, <1>6, <2>1, <2>2 DEF Gathered, HostGroup
    <3>3. QED BY <1>8, <2>1, <3>1, <3>2
  <2>3. CASE Joining # {}
    <3>1. at' = "asking" /\ ask' = [of |-> host, add |-> Joining, remove |-> {}]
      BY <2>1, <2>3 DEF Gather, Asks
    <3>2. ask'.of = host /\ ask'.add = Joining /\ ask'.remove = {}
      BY <3>1
    <3>3. QED BY <1>5, <1>8, <2>1, <2>3, <3>1, <3>2
  <2>4. QED BY <2>2, <2>3
<1>14. CASE Ungroup \/ PartyOff
  BY <1>1, <1>14 DEF Ungroup, PartyOff, Starts
<1>15. CASE Proceeds
  <2>1. at = "answered" /\ at' = "done" /\ UNCHANGED <<house, late>>
    BY <1>1, <1>15 DEF Proceeds, Ends
  <2>2. QED BY <1>5, <1>8, <2>1
<1>16. QED BY <1>2, <1>9, <1>10, <1>11, <1>12, <1>13, <1>14, <1>15

\* ungroup: the room leaves the group of another, once and for all.
LEMMA UngroupKept ==
    ASSUME Typed, UngroupInv, Next
    PROVE  UngroupInv'
<1> SUFFICES ASSUME command'.name = "ungroup", ~disturbed', at' # "failed"
             PROVE  UngroupInv'
  BY DEF UngroupInv
<1> DEFINE room == command.host
<1>1. UNCHANGED command
  BY CommandStays
<1>2. /\ ~disturbed /\ at # "failed" /\ UNCHANGED <<command, known>>
      /\ Answered \/ TimesOut \/ CarriedOutLate \/ Rereads \/ Group \/ Party \/ Ungroup \/ PartyOff \/ Proceeds
  BY <1>1, OtherSteps
<1>3. house \in Arrangements /\ known \in Arrangements /\ room \in Rooms /\ known[room] \in Rooms
  BY GroupingAssumption DEF Typed, TypeOK, GroupingTypeOK, Arrangements
<1>5. /\ at \in {"start", "asking"} => house = known /\ late = {}
      /\ Asked => /\ Detaching(ask, known[room], room) /\ known[room] # room /\ late \subseteq {ask}
      /\ at = "unanswered" => house = known \/ Alone(house)
      /\ at \in {"answered", "done"} => Alone(house)
  BY <1>1, <1>2 DEF UngroupInv
<1>7. ASSUME Asked, house = known \/ Alone(house), house' \in Modified(house, ask)
      PROVE  Alone(house')
  <2>1. CASE house = known
    <3>1. house'[room] = room /\ \A r \in Rooms \ {room} : house'[r] = house[r] /\ house[r] # room
      BY <1>3, <1>5, <1>7, <2>1, Detached
    <3>2. QED BY <1>3, <3>1 DEF Alone, Members
  <2>2. CASE Alone(house)
    <3>1. house[room] = room
      BY <1>3, <2>2 DEF Alone, Members
    <3>2. house' = house
      BY <1>3, <1>5, <1>7, <3>1, DetachedBefore
    <3>3. QED BY <2>2, <3>2
  <2>3. QED BY <1>7, <2>1, <2>2
<1>8. ASSUME /\ at' \in {"start", "asking"} => house' = known /\ late' = {}
             /\ at' \in {"asking", "unanswered", "answered"} =>
                  Detaching(ask', known[room], room) /\ known[room] # room /\ late' \subseteq {ask'}
             /\ at' = "unanswered" => house' = known \/ Alone(house')
             /\ at' \in {"answered", "done"} => Alone(house')
      PROVE  UngroupInv'
  BY <1>2, <1>8 DEF UngroupInv, Asked, Alone, Detaching
<1>9. CASE Answered
  <2>1. /\ at = "asking" /\ at' = "answered" /\ UNCHANGED <<ask, late>>
        /\ house' \in Modified(house, ask)
    BY <1>9 DEF Answered, CarriesOut
  <2>2. Alone(house')
    BY <1>5, <1>7, <2>1 DEF Asked
  <2>3. QED BY <1>5, <1>8, <2>1, <2>2 DEF Asked
<1>10. CASE TimesOut
  <2>1. at = "asking" /\ at' = "unanswered" /\ UNCHANGED <<house, ask>> /\ late' = late \cup {ask}
    BY <1>10 DEF TimesOut
  <2>2. QED BY <1>5, <1>8, <2>1 DEF Asked
<1>11. CASE CarriedOutLate
  <2>1. PICK req \in late : CarriesOut(req) /\ late' = late \ {req}
    BY <1>11 DEF CarriedOutLate
  <2>2. UNCHANGED <<at, ask>> /\ at \notin {"done", "failed"}
    BY <1>11 DEF CarriedOutLate, Running
  <2>3. at \notin {"start", "asking", "planning", "mutes"}
    BY <1>1, <1>5, <2>1 DEF Typed
  <2>4. at \in {"unanswered", "answered"}
    BY <2>2, <2>3 DEF Typed, TypeOK, GroupingTypeOK
  <2>5. req = ask /\ Asked
    BY <1>5, <2>1, <2>4 DEF Asked
  <2>6. Alone(house')
    BY <1>5, <1>7, <2>1, <2>4, <2>5 DEF CarriesOut
  <2>7. QED BY <1>5, <1>8, <2>1, <2>2, <2>4, <2>5, <2>6
<1>12. CASE Rereads
  <2>1. /\ at = "unanswered" /\ at' = "answered" /\ Confirmed(house, ask)
        /\ UNCHANGED <<house, late, ask>>
    BY <1>12 DEF Rereads, Ends
  <2>2. Asked
    BY <2>1 DEF Asked
  <2>3. house # known
    BY <1>3, <1>5, <2>1, <2>2 DEF Confirmed, Detaching, Members
  <2>4. QED BY <1>5, <1>8, <2>1, <2>2, <2>3
<1>13. CASE Ungroup
  <2>1. at = "start" /\ UNCHANGED <<house, late>> /\ house = known /\ late = {}
    BY <1>5, <1>13 DEF Ungroup, Starts
  <2>2. CASE Cardinality(Members(known, known[room])) < 2
    <3>1. at' = "done"
      BY <1>13, <2>2 DEF Ungroup, Ends
    <3>2. Alone(house)
      BY <1>3, <2>1, <2>2, FewerThanTwo DEF Alone
    <3>3. QED BY <1>8, <2>1, <3>1, <3>2
  <2>3. CASE ~(Cardinality(Members(known, known[room])) < 2)
    <3>1. /\ known[room] # room /\ at' = "asking"
          /\ ask' = [of |-> known[room], add |-> {}, remove |-> {room}]
      BY <1>13, <2>3 DEF Ungroup, Ends, Asks, Coordinates
    <3>2. Detaching(ask', known[room], room)
      BY <3>1 DEF Detaching
    <3>3. QED BY <1>8, <2>1, <3>1, <3>2
  <2>4. QED BY <2>2, <2>3
<1>14. CASE Group \/ Party \/ PartyOff
  BY <1>1, <1>14 DEF Group, Party, PartyOff, Starts
<1>15. CASE Proceeds
  <2>1. at = "answered" /\ at' = "done" /\ UNCHANGED <<house, late>>
    BY <1>1, <1>15 DEF Proceeds, Ends
  <2>2. QED BY <1>5, <1>8, <2>1
<1>16. QED BY <1>2, <1>9, <1>10, <1>11, <1>12, <1>13, <1>14, <1>15

\* party off: the groups that are known break up, one by one, each once.
LEMMA PartyOffKept ==
    ASSUME Typed, PartyOffInv, Next
    PROVE  PartyOffInv'
<1> SUFFICES ASSUME command'.name = "party off", ~disturbed', at' # "failed"
             PROVE  PartyOffInv'
  BY DEF PartyOffInv
<1>1. UNCHANGED command
  BY CommandStays
<1>2. /\ ~disturbed /\ at # "failed" /\ UNCHANGED <<command, known>>
      /\ Answered \/ TimesOut \/ CarriedOutLate \/ Rereads \/ Group \/ Party \/ Ungroup \/ PartyOff \/ Proceeds
  BY <1>1, OtherSteps
<1>3. house \in Arrangements /\ known \in Arrangements /\ broken \subseteq Rooms
  BY DEF Typed, TypeOK, GroupingTypeOK
<1>5. /\ \A c \in broken : Coordinates(known, c) /\ Leavers(c) # {}
      /\ Asked => BreaksUp(ask)
      /\ \A req \in late : BreaksUp(req) /\ (at = "asking" => req.of # ask.of)
      /\ \/ house = Broken(known, broken) /\ at # "asking"
         \/ at \in {"asking", "unanswered"} /\ house = Broken(known, broken \ {ask.of})
      /\ at = "done" => ToBreak = {}
  BY <1>1, <1>2 DEF PartyOffInv
<1>7. ASSUME NEW ks \in SUBSET Rooms, house = Broken(known, ks), NEW req, BreaksUp(req),
             house' \in Modified(house, req)
      PROVE  house' = Broken(known, ks \cup {req.of})
  BY <1>3, <1>5, <1>7, BrokenUp DEF BreaksUp, Coordinates, Leavers
<1>8. ASSUME UNCHANGED broken,
             at' \in {"asking", "unanswered", "answered"} => BreaksUp(ask'),
             \A req \in late' : BreaksUp(req) /\ (at' = "asking" => req.of # ask'.of),
             \/ house' = Broken(known, broken) /\ at' # "asking"
             \/ at' \in {"asking", "unanswered"} /\ house' = Broken(known, broken \ {ask'.of}),
             at' = "done" => ToBreak = {}
      PROVE  PartyOffInv'
  <2>1. UNCHANGED <<Listed, ToBreak>> /\ \A c : Leavers(c)' = Leavers(c)
    BY <1>2, <1>8 DEF Listed, Leavers, ToBreak
  <2>2. \A req : BreaksUp(req)' <=> BreaksUp(req)
    BY <1>8, <2>1 DEF BreaksUp
  <2>3. \A kn, ks : Broken(kn, ks)' = Broken(kn, ks)
    BY <2>1 DEF Broken
  <2>4. QED BY <1>2, <1>5, <1>8, <2>1, <2>2, <2>3 DEF PartyOffInv, Asked
<1>9. CASE Answered
  <2>1. /\ at = "asking" /\ at' = "answered" /\ UNCHANGED <<ask, late, broken>>
        /\ house' \in Modified(house, ask)
    BY <1>9 DEF Answered, CarriesOut
  <2>2. house = Broken(known, broken \ {ask.of}) /\ BreaksUp(ask) /\ ask.of \in broken
    BY <1>5, <2>1 DEF Asked, BreaksUp
  <2>3. house' = Broken(known, (broken \ {ask.of}) \cup {ask.of})
    BY <1>3, <1>7, <2>1, <2>2
  <2>4. (broken \ {ask.of}) \cup {ask.of} = broken
    BY <2>2
  <2>5. house' = Broken(known, broken)
    BY <2>3, <2>4
  <2>6. QED BY <1>5, <1>8, <2>1, <2>2, <2>5
<1>10. CASE TimesOut
  <2>1. /\ at = "asking" /\ at' = "unanswered" /\ UNCHANGED <<house, ask, broken>>
        /\ late' = late \cup {ask} /\ BreaksUp(ask)
    BY <1>5, <1>10 DEF TimesOut, Asked
  <2>2. QED BY <1>5, <1>8, <2>1
<1>11. CASE CarriedOutLate
  <2>1. PICK req \in late : CarriesOut(req) /\ late' = late \ {req}
    BY <1>11 DEF CarriedOutLate
  <2>2. UNCHANGED <<at, ask, broken>> /\ house' \in Modified(house, req) /\ BreaksUp(req)
    BY <1>5, <1>11, <2>1 DEF CarriedOutLate, CarriesOut
  <2>3. req.of \in broken
    BY <2>2 DEF BreaksUp
  <2>4. CASE house = Broken(known, broken) /\ at # "asking"
    <3>1. house' = Broken(known, broken \cup {req.of})
      BY <1>3, <1>7, <2>2, <2>4
    <3>2. broken \cup {req.of} = broken
      BY <2>3
    <3>3. house' = Broken(known, broken)
      BY <3>1, <3>2
    <3>4. QED BY <1>5, <1>8, <2>1, <2>2, <2>4, <3>3 DEF Asked
  <2>5. CASE at \in {"asking", "unanswered"} /\ house = Broken(known, broken \ {ask.of})
    <3>1. house' = Broken(known, (broken \ {ask.of}) \cup {req.of})
      BY <1>3, <1>7, <2>2, <2>5
    <3>2. CASE req.of = ask.of
      <4>1. at = "unanswered"
        BY <1>5, <2>1, <2>5, <3>2
      <4>2. (broken \ {ask.of}) \cup {req.of} = broken
        BY <2>3, <3>2
      <4>3. house' = Broken(known, broken)
        BY <3>1, <4>2
      <4>4. QED BY <1>5, <1>8, <2>1, <2>2, <4>1, <4>3 DEF Asked
    <3>3. CASE req.of # ask.of
      <4>1. (broken \ {ask.of}) \cup {req.of} = broken \ {ask.of}
        BY <2>3, <3>3
      <4>2. house' = Broken(known, broken \ {ask.of})
        BY <3>1, <4>1
      <4>3. QED BY <1>5, <1>8, <2>1, <2>2, <2>5, <4>2 DEF Asked
    <3>4. QED BY <3>2, <3>3
  <2>6. QED BY <1>5, <2>4, <2>5
<1>12. CASE Rereads
  <2>1. /\ at = "unanswered" /\ at' = "answered" /\ Confirmed(house, ask)
        /\ UNCHANGED <<house, late, ask, broken>> /\ BreaksUp(ask)
    BY <1>5, <1>12 DEF Rereads, Ends, Asked
  <2>2. house # Broken(known, broken \ {ask.of})
    <3>1. SUFFICES ASSUME house = Broken(known, broken \ {ask.of}) PROVE FALSE
      OBVIOUS
    <3>2. known[ask.of] = ask.of /\ Leavers(ask.of) # {} /\ ask.of \in Rooms
      BY <1>3, <1>5, <2>1 DEF BreaksUp, Coordinates
    <3>3. PICK r \in Members(known, ask.of) : r # ask.of /\ r \in Leavers(ask.of)
      BY <3>2 DEF Leavers
    <3>4. r \in Members(house, ask.of)
      BY <3>1, <3>3 DEF Members, Broken
    <3>5. r \in ask.remove
      BY <2>1, <3>3 DEF BreaksUp
    <3>6. QED BY <2>1, <3>4, <3>5 DEF Confirmed
  <2>3. QED BY <1>5, <1>8, <2>1, <2>2
<1>13. CASE PartyOff
  <2>1. at = "start" /\ UNCHANGED <<house, late>> /\ house = Broken(known, broken)
    BY <1>5, <1>13 DEF PartyOff, Starts
  <2>2. CASE ToBreak = {} /\ Ends("done") /\ UNCHANGED broken
    BY <1>5, <1>8, <2>1, <2>2 DEF Ends
  <2>3. CASE \E c \in ToBreak : Asks(c, {}, Leavers(c)) /\ broken' = broken \cup {c}
    <3>1. PICK c \in ToBreak : Asks(c, {}, Leavers(c)) /\ broken' = broken \cup {c}
      BY <2>3
    <3>2. c \in Rooms \ broken /\ Coordinates(known, c) /\ Leavers(c) # {}
      BY GroupingAssumption DEF ToBreak, Listed, Typed, TypeOK, GroupingTypeOK
    <3>3. at' = "asking" /\ ask' = [of |-> c, add |-> {}, remove |-> Leavers(c)]
      BY <3>1 DEF Asks
    <3>4. ask'.of = c /\ ask'.add = {} /\ ask'.remove = Leavers(c)
      BY <3>3
    <3>5. broken' \ {ask'.of} = broken
      BY <3>1, <3>2, <3>4
    <3>6. house' = Broken(known, broken' \ {ask'.of})
      BY <2>1, <3>5
    <3>0. Listed' = Listed /\ (\A k : Leavers(k)' = Leavers(k)) /\ \A kn, ks : Broken(kn, ks)' = Broken(kn, ks)
      BY <1>2 DEF Listed, Leavers, Broken
    <3>7. BreaksUp(ask)' /\ \A req \in late : BreaksUp(req)' /\ req.of # c
      BY <1>2, <1>5, <3>0, <3>1, <3>2, <3>4 DEF BreaksUp
    <3>8. \A k \in broken' : Coordinates(known, k) /\ Leavers(k) # {}
      BY <1>5, <3>1, <3>2
    <3>9. QED BY <1>2, <2>1, <3>0, <3>3, <3>4, <3>6, <3>7, <3>8 DEF PartyOffInv, Asked
  <2>4. QED BY <1>13, <2>2, <2>3 DEF PartyOff
<1>14. CASE Group \/ Party \/ Ungroup
  BY <1>1, <1>14 DEF Group, Party, Ungroup, Starts
<1>15. CASE Proceeds
  <2>1. at = "answered" /\ at' = "start" /\ UNCHANGED <<house, late, broken>>
    BY <1>1, <1>15 DEF Proceeds
  <2>2. QED BY <1>5, <1>8, <2>1
<1>16. QED BY <1>2, <1>9, <1>10, <1>11, <1>12, <1>13, <1>14, <1>15

\* A grouping command that reports success has done what was asked, also when
\* the coordinator never answered or carries its requests out late
\* (household.rs:731-733), while nobody else regroups, in any household.
THEOREM CommandsAreCarriedOut == Spec => []DoneIsThere
<1>1. Init => Typed /\ DoneInv
  <2> SUFFICES ASSUME Init PROVE DoneInv
    BY InitTyped
  <2>1. house = known /\ late = {} /\ broken = {} /\ at = "start" /\ house \in Arrangements
    BY DEF Init, GroupingInit
  <2>2. house = Broken(known, broken)
    BY <2>1 DEF Broken, Arrangements
  <2>3. QED BY <2>1, <2>2 DEF DoneInv, GatherInv, UngroupInv, PartyOffInv, Asked
<1>2. Typed /\ DoneInv /\ [Next]_vars => (Typed /\ DoneInv)'
  <2> SUFFICES ASSUME Typed, DoneInv, [Next]_vars PROVE DoneInv'
    BY StepTyped
  <2>1. CASE Next
    BY <2>1, GatherKept, UngroupKept, PartyOffKept DEF DoneInv
  <2>2. CASE UNCHANGED vars
    <3>1. GatherInv'
      BY <2>2 DEF DoneInv, vars, groupingVars, GatherInv, Asked, Gathered, Wanted, Listed, HostGroup, Joining
    <3>2. UngroupInv'
      BY <2>2 DEF DoneInv, vars, groupingVars, UngroupInv, Asked, Alone
    <3>3. PartyOffInv'
      <4>1. UNCHANGED <<Listed, ToBreak>> /\ \A c : Leavers(c)' = Leavers(c)
        BY <2>2 DEF vars, groupingVars, Listed, Leavers, ToBreak
      <4>2. /\ \A req : BreaksUp(req)' <=> BreaksUp(req)
            /\ \A kn, ks : Broken(kn, ks)' = Broken(kn, ks)
        BY <2>2, <4>1 DEF vars, groupingVars, BreaksUp, Broken
      <4>3. QED BY <2>2, <4>1, <4>2 DEF DoneInv, vars, groupingVars, PartyOffInv, Asked
    <3>4. QED BY <3>1, <3>2, <3>3 DEF DoneInv
  <2>3. QED BY <2>1, <2>2
<1>3. Typed /\ DoneInv => DoneIsThere
  <2> SUFFICES ASSUME Typed, DoneInv, at = "done", ~disturbed PROVE DoneIsThere
    BY DEF DoneIsThere, Done
  <2>1. house \in Arrangements /\ known \in Arrangements /\ command.host \in Rooms
    BY GroupingAssumption DEF Typed, TypeOK, GroupingTypeOK
  <2>2. CASE command.name \in {"group", "party"}
    <3>1. Wanted \cup HostGroup \subseteq Members(house, known[command.host])
      BY <2>2 DEF DoneInv, GatherInv, Gathered
    <3>2. house[command.host] = known[command.host]
      BY <2>1, <3>1 DEF HostGroup, Members
    <3>3. CASE command.name = "group"
      BY <3>1, <3>2, <3>3 DEF DoneIsThere, Done, Wanted
    <3>4. CASE command.name = "party"
      BY <3>1, <3>2, <3>4 DEF DoneIsThere, Done, Wanted, Members
    <3>5. QED BY <2>2, <3>3, <3>4
  <2>3. CASE command.name = "ungroup"
    BY <2>3 DEF DoneInv, UngroupInv, Alone, DoneIsThere, Done
  <2>4. CASE command.name = "party off"
    <3>1. house = Broken(known, broken) /\ ToBreak = {}
      BY <2>4 DEF DoneInv, PartyOffInv
    <3>2. ASSUME NEW r \in Listed PROVE house[r] = r \/ house[r] \notin Listed
      <4>1. r \in Rooms /\ known[r] \in Rooms /\ known[known[r]] = known[r]
        BY <2>1, GroupingAssumption DEF Arrangements, Listed, Typed, TypeOK, GroupingTypeOK
      <4>2. CASE known[r] \in broken
        BY <3>1, <4>1, <4>2 DEF Broken
      <4>3. CASE known[r] \notin broken
        <5>1. house[r] = known[r]
          BY <3>1, <4>1, <4>3 DEF Broken
        <5>2. known[r] \in Listed => Leavers(known[r]) = {}
          BY <3>1, <4>1, <4>3 DEF ToBreak, Coordinates
        <5>3. r # known[r] => r \in Leavers(known[r])
          BY <4>1 DEF Leavers, Members
        <5>4. QED BY <5>1, <5>2, <5>3
      <4>4. QED BY <4>2, <4>3
    <3>3. QED BY <2>4, <3>2 DEF DoneIsThere, Done
  <2>5. QED BY <2>2, <2>3, <2>4 DEF DoneIsThere, Done
<1>4. QED BY <1>1, <1>2, <1>3, PTL DEF Spec

-----------------------------------------------------------------------------
(* Queues. *)

(* What party asks of the household it knows. *)
PartyRequest ==
    [of |-> known[command.host], add |-> Listed \ Members(known, known[command.host]),
     remove |-> {}]

(* What is asked of a coordinator: party off and ungroup add nobody and leave
   the coordinator where it is; party, while nobody else has regrouped and with
   every room listed, asks once, of the household it knows. *)
AskInv ==
    /\ house \in Arrangements /\ known \in Arrangements /\ command \in Commands
    /\ at \in {"planning", "mutes"} => command.name = "apply"
    /\ command.name \in {"party off", "ungroup"} =>
         \A req \in late \cup {ask} : req.add = {} /\ req.of \notin req.remove
    /\ command.name = "party" /\ ~disturbed =>
         /\ at \in {"start", "asking"} => house = known /\ late = {}
         /\ at \in {"asking", "unanswered", "answered"} => ask = PartyRequest
         /\ \A req \in late : house = known /\ req = PartyRequest

\* A change that takes members out, and not the coordinator, costs nobody a
\* queue: who stays keeps the coordinator.
LEMMA TakingApart ==
    ASSUME NEW h \in Arrangements, NEW req, req.add = {}, req.of \notin req.remove
    PROVE  Robbed(h, req) = {}
<1>1. ASSUME NEW r \in Rooms, h[r] \in Leaving(h, req) PROVE FALSE
  <2>1. h[r] \in req.remove /\ h[h[r]] = req.of
    BY <1>1 DEF Leaving, Members
  <2>2. h[h[r]] = h[r]
    BY DEF Arrangements
  <2>3. QED BY <2>1, <2>2
<1>2. QED BY <1>1 DEF Robbed

\* Gathering every room that is not there leaves nobody behind in another group.
LEMMA Gathering ==
    ASSUME NEW h \in Arrangements, NEW host \in Rooms, NEW req,
           req.of = h[host], req.add = Rooms \ Members(h, h[host]), req.remove = {}
    PROVE  Robbed(h, req) = {}
BY DEF Robbed, Leaving, Members, Arrangements

\* Before its first request a command has asked for nothing.
LEMMA NothingAsked == NoAsk.add = {} /\ NoAsk.remove = {}
BY DEF NoAsk

\* Every step keeps what is asked, and what late requests ask, harmless to the
\* rooms that stay; so no step of taking apart or gathering all robs one.
LEMMA AskStep ==
    ASSUME AskInv, QueuesAreKept, Next
    PROVE  AskInv' /\ QueuesAreKept'
<1> USE GroupingAssumption
<1>1. ASSUME NEW req, req \in late \cup {ask}, CarriesOut(req),
             UNCHANGED <<command, disturbed, known>>,
             (req = ask /\ at = "asking") \/ req \in late
      PROVE  QueuesAreKept' /\ house' \in Arrangements
  <2>1. house' \in Arrangements
    BY <1>1 DEF CarriesOut, Modified
  <2>2. CASE command.name \in {"party off", "ungroup"}
    BY <2>1, <2>2, <1>1, TakingApart DEF CarriesOut, AskInv, QueuesAreKept, Listed
  <2>3. CASE command.name = "party" /\ ~disturbed /\ Listed = Rooms
    <3>1. house = known /\ req = PartyRequest /\ command.host \in Rooms
      BY <2>3, <1>1 DEF AskInv
    <3>2. Robbed(house, req) = {}
      BY <2>3, <3>1, Gathering DEF AskInv, PartyRequest
    <3>3. QED BY <2>1, <2>3, <3>2, <1>1 DEF CarriesOut, QueuesAreKept, Listed
  <2>4. CASE command.name \in {"group", "apply"} \/ (command.name = "party" /\ (disturbed \/ Listed # Rooms))
    BY <2>1, <2>4, <1>1 DEF QueuesAreKept, Listed
  <2>5. QED BY <2>2, <2>3, <2>4 DEF AskInv
<1>2. CASE Answered
  <2>1. QueuesAreKept' /\ house' \in Arrangements
    BY <1>1, <1>2 DEF Answered
  <2>2. QED BY <2>1, <1>2 DEF Answered, AskInv, PartyRequest, Listed
<1>3. CASE CarriedOutLate
  <2>1. PICK req \in late : CarriesOut(req) /\ late' = late \ {req}
    BY <1>3 DEF CarriedOutLate
  <2>2. QueuesAreKept' /\ house' \in Arrangements
    BY <1>1, <1>3, <2>1 DEF CarriedOutLate
  <2>3. QED BY <2>1, <2>2, <1>3 DEF CarriedOutLate, AskInv, PartyRequest, Listed
<1>4. CASE Refused \/ TimesOut \/ Rereads
  <2>1. CASE Refused
    BY <2>1, NothingAsked DEF Refused, Ends, AskInv, PartyRequest, Listed, QueuesAreKept
  <2>2. CASE TimesOut
    BY <2>2 DEF TimesOut, AskInv, PartyRequest, Listed, QueuesAreKept
  <2>3. CASE Rereads
    BY <2>3, NothingAsked DEF Rereads, Ends, AskInv, PartyRequest, Listed, QueuesAreKept
  <2>4. QED BY <1>4, <2>1, <2>2, <2>3
<1>5. CASE Group \/ Party
  <2>1. /\ UNCHANGED <<house, command, known, broken, late, disturbed, robbed>>
        /\ command.name \in {"group", "party"} /\ at = "start" /\ at' \in {"asking", "done"}
    BY <1>5 DEF Group, Party, Gather, Asks, Ends, Starts
  <2>2. command.name = "party" /\ at' = "asking" => ask' = PartyRequest
    BY <1>5 DEF Group, Party, Gather, Asks, Ends, Starts, PartyRequest, Listed
  <2>3. PartyRequest' = PartyRequest
    BY <2>1 DEF PartyRequest, Listed
  <2>4. QED BY <2>1, <2>2, <2>3 DEF AskInv, Listed, QueuesAreKept
<1>6. CASE Ungroup
  <2>1. /\ UNCHANGED <<house, command, known, broken, late, disturbed, robbed>>
        /\ command.name = "ungroup" /\ at' \in {"asking", "done", "failed"}
    BY <1>6 DEF Ungroup, Asks, Ends, Starts
  <2>2. ask'.add = {} /\ ask'.of \notin ask'.remove
    <3>1. CASE ask' = NoAsk
      BY <3>1, NothingAsked
    <3>2. CASE ~Coordinates(known, command.host)
               /\ ask' = [of |-> known[command.host], add |-> {}, remove |-> {command.host}]
      BY <3>2 DEF Coordinates
    <3>3. QED BY <1>6, <3>1, <3>2 DEF Ungroup, Asks, Ends
  <2>3. QED BY <2>1, <2>2 DEF AskInv, Listed, QueuesAreKept
<1>7. CASE PartyOff
  <2>1. /\ UNCHANGED <<house, command, known, late, disturbed, robbed>>
        /\ command.name = "party off" /\ at' \in {"asking", "done"}
    BY <1>7 DEF PartyOff, Asks, Ends, Starts
  <2>2. ask'.add = {} /\ ask'.of \notin ask'.remove
    <3>1. CASE ask' = NoAsk
      BY <3>1, NothingAsked
    <3>2. CASE \E c \in Rooms : ask' = [of |-> c, add |-> {}, remove |-> Leavers(c)]
      <4>1. PICK c \in Rooms :
              ask' = [of |-> c, add |-> {}, remove |-> Leavers(c)]
        BY <3>2
      <4>2. ask'.add = {} /\ ask'.of = c /\ ask'.remove = Leavers(c)
        BY <4>1
      <4>3. QED BY <4>2 DEF Leavers
    <3>3. QED
      BY <1>7, <3>1, <3>2, GroupingAssumption DEF PartyOff, Asks, Ends, ToBreak, Listed, AskInv
  <2>3. QED BY <2>1, <2>2 DEF AskInv, Listed, QueuesAreKept
<1>8. CASE Proceeds
  BY <1>8, NothingAsked DEF Proceeds, Ends, AskInv, PartyRequest, Listed, QueuesAreKept
<1>9. CASE Elsewhere
  BY <1>9 DEF Elsewhere, AskInv, PartyRequest, Listed, QueuesAreKept
<1>10. CASE ApplyStep
  <2>1. CASE ReadsGroups
    BY <2>1 DEF ReadsGroups, Ends, AskInv, Listed, QueuesAreKept
  <2>2. CASE Changes
    BY <2>2 DEF Changes, Asks, AskInv, Listed, QueuesAreKept
  <2>3. CASE NextGroup \/ PlaysGroup
    BY <2>3 DEF NextGroup, PlaysGroup, groupingVars, AskInv, PartyRequest, Listed, QueuesAreKept
  <2>4. CASE SetsLevels
    BY <2>4 DEF SetsLevels, AskInv, PartyRequest, Listed, QueuesAreKept
  <2>5. CASE FavoritesUnread \/ Applied
    BY <2>5 DEF FavoritesUnread, Applied, Ends, AskInv, Listed, QueuesAreKept
  <2>6. QED BY <1>10, <2>1, <2>2, <2>3, <2>4, <2>5 DEF ApplyStep
<1>11. CASE LevelSetLate
  BY <1>11 DEF LevelSetLate, groupingVars, AskInv, PartyRequest, Listed, QueuesAreKept
<1>12. QED BY <1>2, <1>3, <1>4, <1>5, <1>6, <1>7, <1>8, <1>9, <1>10, <1>11
           DEF Next, Runs, CommandStep

\* Taking rooms apart costs no room its queue, in any household and whatever
\* another controller and late coordinators do; gathering all of them, with
\* every room listed, costs none unless somebody regroups meanwhile
\* (household.rs:913-920).
THEOREM QueuesSurvive == Spec => []QueuesAreKept
<1>1. Init => AskInv /\ QueuesAreKept
  BY GroupingAssumption, NothingAsked DEF Init, GroupingInit, AskInv, Listed, QueuesAreKept
<1>2. AskInv /\ QueuesAreKept /\ [Next]_vars => AskInv' /\ QueuesAreKept'
  <2>1. CASE Next
    BY <2>1, AskStep
  <2>2. CASE UNCHANGED vars
    BY <2>2 DEF vars, groupingVars, sceneVars, AskInv, PartyRequest, Listed, QueuesAreKept
  <2>3. QED BY <2>1, <2>2
<1>3. QED BY <1>1, <1>2, PTL DEF Spec
=============================================================================

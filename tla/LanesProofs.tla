---------------------------- MODULE LanesProofs -----------------------------
(* Theorems about Lanes, for any jobs, lanes, barriers and settings. *)
EXTENDS Lanes, Integers, SequenceTheorems, TLAPS

\* A lane's queue: tickets handed out, epochs from the least to the last sent,
\* in order.
QueueSound(line, least, s, n) ==
    /\ \A i \in 1..Len(line) : line[i].ticket \in 1..n /\ line[i].epoch \in least..s
    /\ \A i, j \in 1..Len(line) : i <= j => line[i].epoch <= line[j].epoch

\* What makes the invariants inductive, said of the lanes in the middle of an
\* operation: q, r, bs, b, p as in StartFrom, s barriers sent, n tickets.
Sound(q, r, bs, b, p, s, n, live) ==
    /\ q \in [LaneNames -> Seq(Place)]
    /\ r \in [LaneNames -> [ticket : Nat, epoch : Nat]]
    /\ bs \in Seq(Task) /\ live \subseteq Task
    /\ n \in Nat /\ b \in 0..n /\ s \in Nat /\ p \in 0..s
    /\ \A i \in 1..Len(bs) : bs[i].ticket \in 1..n
    /\ \A t \in live : t.ticket \in 1..n
    /\ s = p + Len(bs) + IF b # 0 THEN 1 ELSE 0
    /\ \A k \in LaneNames : QueueSound(q[k], IF b # 0 THEN p + 1 ELSE p, s, n)
    /\ b # 0 => \A k \in LaneNames : r[k] = Idle
    /\ \A k \in LaneNames :
          r[k] # Idle => /\ r[k].epoch = p
                         /\ \E t \in live : t.ticket = r[k].ticket
    /\ b # 0 => \E t \in live : t.ticket = b

\* Nothing that could start is left waiting.
Busy(q, r, bs, b, p) ==
    b = 0 => /\ \A k \in LaneNames : r[k] = Idle => ~FrontIs(q, k, p)
             /\ bs # <<>> => \E k \in LaneNames : r[k] # Idle

\* The driver stops only with its inbox over and no task left.
DriverSound ==
    /\ driver # "open" => inbox = <<>> /\ ~senders
    /\ driver = "returned" => tasks = {}

LanesSound == Sound(queue, running, barriers, barrier, passed, sent, next, tasks)
LanesBusy == Busy(queue, running, barriers, barrier, passed)

IInv == TypeOK /\ LanesSound /\ LanesBusy /\ DriverSound

-----------------------------------------------------------------------------
(* Queues.                                                                 *)

\* The front of a queue that is taken leaves a sound queue.
LEMMA TailSound ==
    ASSUME NEW line \in Seq(Place), line # <<>>, NEW least \in Nat, NEW s \in Nat,
           NEW n \in Nat, QueueSound(line, least, s, n)
    PROVE  /\ Tail(line) \in Seq(Place)
           /\ QueueSound(Tail(line), least, s, n)
           /\ Head(line) \in Place
           /\ Head(line).ticket \in 1..n
           /\ Head(line).epoch \in least..s
<1>1. /\ Len(line) \in Nat /\ Len(line) >= 1
      /\ Head(line) = line[1]
      /\ Tail(line) \in Seq(Place)
      /\ Len(Tail(line)) = Len(line) - 1
      /\ \A i \in 1..(Len(line) - 1) : Tail(line)[i] = line[i + 1]
  BY HeadTailProperties, LenProperties, EmptySeq
<1>2. \A i \in 1..(Len(line) - 1) : i + 1 \in 1..Len(line)
  BY <1>1
<1>3. QueueSound(Tail(line), least, s, n)
  BY <1>1, <1>2 DEF QueueSound
<1>4. 1 \in 1..Len(line)
  BY <1>1
<1>5. QED BY <1>1, <1>3, <1>4, ElementOfSeq DEF QueueSound

\* A place at the end of a queue leaves a sound queue, if it has the last epoch.
LEMMA AppendSound ==
    ASSUME NEW line \in Seq(Place), NEW least \in Nat, NEW s \in Nat, NEW n \in Nat,
           QueueSound(line, least, s, n), least <= s,
           NEW place \in Place, place.epoch = s, place.ticket = n + 1
    PROVE  /\ Append(line, place) \in Seq(Place)
           /\ QueueSound(Append(line, place), least, s, n + 1)
<1> DEFINE longer == Append(line, place)
<1>1. /\ Len(line) \in Nat
      /\ longer \in Seq(Place)
      /\ Len(longer) = Len(line) + 1
      /\ \A i \in 1..Len(line) : longer[i] = line[i]
      /\ longer[Len(line) + 1] = place
  BY AppendProperties, LenProperties
<1> HIDE DEF longer
<1>2. \A i \in 1..(Len(line) + 1) : i \in 1..Len(line) \/ i = Len(line) + 1
  BY <1>1
<1>3. ASSUME NEW i \in 1..(Len(line) + 1)
      PROVE  longer[i].ticket \in 1..(n + 1) /\ longer[i].epoch \in least..s
  <2>1. CASE i \in 1..Len(line)
    BY <1>1, <2>1 DEF QueueSound
  <2>2. CASE i = Len(line) + 1
    BY <1>1, <2>2
  <2>3. QED BY <1>2, <2>1, <2>2
<1>4. ASSUME NEW i \in 1..(Len(line) + 1), NEW j \in 1..(Len(line) + 1), i <= j
      PROVE  longer[i].epoch <= longer[j].epoch
  <2>1. CASE j \in 1..Len(line)
    <3>1. i \in 1..Len(line)
      BY <1>1, <1>4, <2>1
    <3>2. QED BY <1>1, <1>4, <2>1, <3>1 DEF QueueSound
  <2>2. CASE j = Len(line) + 1
    <3>1. longer[j].epoch = s
      BY <1>1, <2>2
    <3>2. QED BY <1>3, <3>1
  <2>3. QED BY <1>2, <2>1, <2>2
<1>5. QED BY <1>1, <1>3, <1>4 DEF QueueSound, longer

\* A sound queue stays sound when more barriers or tickets are counted.
LEMMA CountMore ==
    ASSUME NEW line \in Seq(Place), NEW least \in Nat, NEW s \in Nat, NEW n \in Nat,
           QueueSound(line, least, s, n)
    PROVE  /\ QueueSound(line, least, s, n + 1)
           /\ QueueSound(line, least, s + 1, n + 1)
BY DEF QueueSound

-----------------------------------------------------------------------------
(* Lanes::start.                                                           *)

\* Whatever starts, the lanes stay sound, and nothing that could start waits.
LEMMA StartSound ==
    ASSUME NEW q, NEW r, NEW bs, NEW b, NEW p, NEW s, NEW n, NEW live,
           Sound(q, r, bs, b, p, s, n, live),
           StartFrom(q, r, bs, b, p, live)
    PROVE  /\ Sound(queue', running', barriers', barrier', p, s, n, tasks')
           /\ Busy(queue', running', barriers', barrier', p)
<1>0. /\ q \in [LaneNames -> Seq(Place)]
      /\ r \in [LaneNames -> [ticket : Nat, epoch : Nat]]
      /\ bs \in Seq(Task) /\ live \subseteq Task
      /\ n \in Nat /\ b \in 0..n /\ s \in Nat /\ p \in 0..s
      /\ Len(bs) \in Nat
      /\ \A i \in 1..Len(bs) : bs[i].ticket \in 1..n
      /\ \A t \in live : t.ticket \in 1..n
      /\ s = p + Len(bs) + IF b # 0 THEN 1 ELSE 0
      /\ \A k \in LaneNames : QueueSound(q[k], IF b # 0 THEN p + 1 ELSE p, s, n)
      /\ \A k \in LaneNames :
            r[k] # Idle => /\ r[k].epoch = p
                           /\ \E t \in live : t.ticket = r[k].ticket
  BY LenProperties DEF Sound
<1>1. CASE b # 0
  <2>1. /\ queue' = q /\ running' = r /\ barriers' = bs /\ barrier' = b
        /\ tasks' = live
    BY <1>1 DEF StartFrom
  <2>2. QED BY <1>1, <2>1 DEF Busy
<1>2. CASE /\ b = 0 /\ bs # <<>>
           /\ \A k \in LaneNames : ~Current(q, r, p, k)
           /\ barriers' = Tail(bs) /\ barrier' = Head(bs).ticket
           /\ tasks' = live \cup {Head(bs)}
           /\ queue' = q /\ running' = r
  <2>1. /\ Tail(bs) \in Seq(Task) /\ Len(Tail(bs)) = Len(bs) - 1
        /\ Len(bs) >= 1 /\ Head(bs) = bs[1] /\ Head(bs) \in Task
        /\ \A i \in 1..(Len(bs) - 1) : Tail(bs)[i] = bs[i + 1]
    BY <1>0, <1>2, HeadTailProperties, EmptySeq
  <2>2. Head(bs).ticket \in 1..n
    BY <1>0, <2>1
  <2>3. \A i \in 1..Len(Tail(bs)) : Tail(bs)[i].ticket \in 1..n
    <3>1. \A i \in 1..(Len(bs) - 1) : i + 1 \in 1..Len(bs)
      BY <1>0
    <3>2. QED BY <1>0, <2>1, <3>1
  <2>4. \A k \in LaneNames : r[k] = Idle
    BY <1>0, <1>2 DEF Current
  <2>5. ASSUME NEW k \in LaneNames PROVE QueueSound(q[k], p + 1, s, n)
    <3>1. q[k] \in Seq(Place) /\ Len(q[k]) \in Nat /\ QueueSound(q[k], p, s, n)
      BY <1>0, <1>2, LenProperties
    <3>2. CASE q[k] = <<>>
      BY <3>2, EmptySeq DEF QueueSound
    <3>3. CASE q[k] # <<>>
      <4>1. q[k][1].epoch # p
        BY <1>2, <3>3 DEF Current, FrontIs
      <4>2. 1 \in 1..Len(q[k])
        BY <3>1, <3>3, EmptySeq
      <4>3. q[k][1].epoch > p
        BY <1>0, <3>1, <4>1, <4>2 DEF QueueSound
      <4>4. ASSUME NEW i \in 1..Len(q[k]) PROVE q[k][i].epoch \in (p + 1)..s
        <5>1. q[k][1].epoch <= q[k][i].epoch
          BY <3>1, <4>2 DEF QueueSound
        <5>2. q[k][i].epoch \in p..s /\ q[k][1].epoch \in p..s
          BY <3>1, <4>2 DEF QueueSound
        <5>3. QED BY <1>0, <4>3, <5>1, <5>2
      <4>5. QED BY <3>1, <4>4 DEF QueueSound
    <3>4. QED BY <3>2, <3>3
  <2>6. s = p + Len(Tail(bs)) + 1
    BY <1>0, <1>2, <2>1
  <2>7. /\ tasks' \subseteq Task /\ \A t \in tasks' : t.ticket \in 1..n
        /\ \E t \in tasks' : t.ticket = barrier'
    BY <1>0, <1>2, <2>1, <2>2
  <2>8. barrier' # 0 /\ barrier' \in 0..n
    BY <1>0, <1>2, <2>2
  <2>9. QED BY <1>0, <1>2, <2>1, <2>3, <2>4, <2>5, <2>6, <2>7, <2>8
            DEF Sound, Busy
<1>3. CASE /\ b = 0
           /\ bs = <<>> \/ \E k \in LaneNames : Current(q, r, p, k)
           /\ queue' = [k \in LaneNames |->
                          IF k \in Ready(q, r, p) THEN Tail(q[k]) ELSE q[k]]
           /\ running' = [k \in LaneNames |->
                            IF k \in Ready(q, r, p)
                            THEN [ticket |-> Head(q[k]).ticket,
                                  epoch |-> Head(q[k]).epoch]
                            ELSE r[k]]
           /\ tasks' = live \cup {[ticket |-> Head(q[k]).ticket,
                                   job |-> Head(q[k]).job] : k \in Ready(q, r, p)}
           /\ barriers' = bs /\ barrier' = b
  <2>1. ASSUME NEW k \in Ready(q, r, p)
        PROVE  /\ k \in LaneNames /\ q[k] # <<>>
               /\ r[k] = Idle
               /\ Head(q[k]).epoch = p
               /\ Head(q[k]) \in Place
               /\ Head(q[k]).ticket \in 1..n
               /\ Tail(q[k]) \in Seq(Place)
               /\ QueueSound(Tail(q[k]), p, s, n)
    <3>1. k \in LaneNames /\ q[k] # <<>> /\ r[k] = Idle /\ Head(q[k]).epoch = p
      BY DEF Ready, FrontIs
    <3>2. q[k] \in Seq(Place) /\ QueueSound(q[k], p, s, n) /\ p \in Nat
      BY <1>0, <1>3, <3>1
    <3>3. QED BY <1>0, <3>1, <3>2, TailSound
  <2>2. queue' \in [LaneNames -> Seq(Place)]
        /\ \A k \in LaneNames : QueueSound(queue'[k], p, s, n)
    BY <1>0, <1>3, <2>1
  <2>3. running' \in [LaneNames -> [ticket : Nat, epoch : Nat]]
    BY <1>0, <1>3, <2>1
  <2>4. tasks' \subseteq Task /\ \A t \in tasks' : t.ticket \in 1..n
    <3>1. \A k \in Ready(q, r, p) :
             [ticket |-> Head(q[k]).ticket, job |-> Head(q[k]).job] \in Task
      BY <2>1 DEF Task, Place
    <3>2. QED BY <1>0, <1>3, <2>1, <3>1
  <2>5. ASSUME NEW k \in LaneNames, running'[k] # Idle
        PROVE  /\ running'[k].epoch = p
               /\ \E t \in tasks' : t.ticket = running'[k].ticket
    <3>1. CASE k \in Ready(q, r, p)
      <4>1. running'[k] = [ticket |-> Head(q[k]).ticket, epoch |-> Head(q[k]).epoch]
        BY <1>3, <3>1
      <4>2. [ticket |-> Head(q[k]).ticket, job |-> Head(q[k]).job] \in tasks'
        BY <1>3, <3>1
      <4>3. QED BY <2>1, <3>1, <4>1, <4>2
    <3>2. CASE k \notin Ready(q, r, p)
      BY <1>0, <1>3, <2>5, <3>2
    <3>3. QED BY <3>1, <3>2
  <2>6. Sound(queue', running', barriers', barrier', p, s, n, tasks')
    BY <1>0, <1>3, <2>2, <2>3, <2>4, <2>5 DEF Sound
  <2>7. ASSUME NEW k \in Ready(q, r, p) PROVE running'[k] # Idle
    <3>1. running'[k].ticket # 0
      BY <1>0, <1>3, <2>1
    <3>2. QED BY <3>1 DEF Idle
  <2>8. ASSUME NEW k \in LaneNames, running'[k] = Idle
        PROVE  ~FrontIs(queue', k, p)
    <3>1. k \notin Ready(q, r, p)
      BY <2>7, <2>8
    <3>2. queue'[k] = q[k] /\ r[k] = Idle
      BY <1>3, <2>8, <3>1
    <3>3. QED BY <3>1, <3>2 DEF Ready, FrontIs
  <2>9. ASSUME NEW k \in LaneNames, Current(q, r, p, k)
        PROVE  running'[k] # Idle
    BY <1>3, <2>1, <2>7, <2>9 DEF Current, Ready
  <2>10. QED BY <1>3, <2>6, <2>8, <2>9 DEF Busy
<1>4. QED BY <1>1, <1>2, <1>3 DEF StartFrom

-----------------------------------------------------------------------------
(* The steps.                                                              *)

\* The lanes' share of the types follows from their soundness.
LanesTyped ==
    /\ queue \in [LaneNames -> Seq(Place)]
    /\ running \in [LaneNames -> [ticket : Nat, epoch : Nat]]
    /\ barriers \in Seq(Task)
    /\ next \in Nat /\ barrier \in 0..next
    /\ sent \in Nat /\ passed \in 0..sent
    /\ tasks \subseteq Task

\* What is sound has its types.
LEMMA SoundIsTyped == LanesSound => LanesTyped
BY DEF LanesSound, Sound, LanesTyped

\* A read: one more ticket and task, and the lanes as they were.
LEMMA FreeStep ==
    ASSUME LanesSound, LanesBusy, NEW j \in Jobs, SubmitFree(j)
    PROVE  LanesSound' /\ LanesBusy'
<1>1. /\ next' = next + 1
      /\ tasks' = tasks \cup {[ticket |-> next + 1, job |-> j]}
      /\ UNCHANGED <<queue, running, barriers, barrier, sent, passed>>
  BY DEF SubmitFree
<1>2. [ticket |-> next + 1, job |-> j] \in Task
  BY DEF LanesSound, Sound, Task
<1>3. ASSUME NEW k \in LaneNames
      PROVE QueueSound(queue[k], IF barrier # 0 THEN passed + 1 ELSE passed,
                       sent, next + 1)
  <2>1. /\ queue[k] \in Seq(Place)
        /\ (IF barrier # 0 THEN passed + 1 ELSE passed) \in Nat
        /\ QueueSound(queue[k], IF barrier # 0 THEN passed + 1 ELSE passed, sent, next)
        /\ sent \in Nat /\ next \in Nat
    BY DEF LanesSound, Sound
  <2>2. QED BY <2>1, CountMore
<1>4. LanesSound'
  <2>1. \A i \in 1..Len(barriers) : barriers[i].ticket \in 1..(next + 1)
    BY DEF LanesSound, Sound
  <2>2. /\ tasks' \subseteq Task /\ \A t \in tasks' : t.ticket \in 1..(next + 1)
        /\ tasks \subseteq tasks'
    BY <1>1, <1>2 DEF LanesSound, Sound
  <2>3. next + 1 \in Nat /\ barrier \in 0..(next + 1)
    BY DEF LanesSound, Sound
  <2>4. Sound(queue, running, barriers, barrier, passed, sent, next + 1, tasks')
    BY <1>3, <2>1, <2>2, <2>3 DEF LanesSound, Sound
  <2>5. QED BY <1>1, <2>4 DEF LanesSound
<1>5. QED BY <1>1, <1>4 DEF LanesBusy, Busy, FrontIs

\* A newer value: one place has another job, and nothing else moves.
LEMMA ReplacingStep ==
    ASSUME LanesSound, LanesBusy, NEW j \in Jobs, SubmitReplacing(j)
    PROVE  LanesSound' /\ LanesBusy'
<1> DEFINE k == LaneOf[j]
<1>1. PICK i \in DOMAIN queue[k] : queue' = [queue EXCEPT ![k][i].job = j]
  BY DEF SubmitReplacing
<1>2. k \in LaneNames
      /\ UNCHANGED <<running, barriers, barrier, passed, sent, next, tasks>>
  BY DEF SubmitReplacing
<1>3. /\ queue \in [LaneNames -> Seq(Place)]
      /\ queue[k] \in Seq(Place)
      /\ DOMAIN queue[k] = 1..Len(queue[k]) /\ Len(queue[k]) \in Nat
      /\ queue[k][i] \in Place
  BY <1>2, LenProperties, ElementOfSeq DEF LanesSound, Sound
<1> DEFINE now == [queue[k][i] EXCEPT !.job = j]
           line == [queue[k] EXCEPT ![i] = now]
<1>4. now \in Place /\ now.ticket = queue[k][i].ticket /\ now.epoch = queue[k][i].epoch
  BY <1>3 DEF Place
<1> HIDE DEF now
<1>5. /\ line \in Seq(Place)
      /\ Len(line) = Len(queue[k])
      /\ \A h \in 1..Len(queue[k]) : line[h] = IF h = i THEN now ELSE queue[k][h]
  BY <1>3, <1>4, ExceptSeq
<1>6. queue' = [queue EXCEPT ![k] = line]
  BY <1>1, <1>2, <1>3 DEF now
<1> HIDE DEF line
<1>7. \A h \in 1..Len(queue[k]) : /\ line[h].ticket = queue[k][h].ticket
                                 /\ line[h].epoch = queue[k][h].epoch
  BY <1>3, <1>4, <1>5
<1>8. ASSUME NEW least \in Nat, QueueSound(queue[k], least, sent, next)
      PROVE  QueueSound(line, least, sent, next)
  BY <1>5, <1>7, <1>8 DEF QueueSound
<1>9. /\ queue' \in [LaneNames -> Seq(Place)] /\ queue'[k] = line
      /\ \A h \in LaneNames : h # k => queue'[h] = queue[h]
  BY <1>2, <1>3, <1>5, <1>6
<1>10. LanesSound'
  <2>1. (IF barrier # 0 THEN passed + 1 ELSE passed) \in Nat
    BY DEF LanesSound, Sound
  <2>2. \A h \in LaneNames :
           QueueSound(queue'[h], IF barrier # 0 THEN passed + 1 ELSE passed, sent, next)
    BY <1>2, <1>8, <1>9, <2>1 DEF LanesSound, Sound
  <2>3. Sound(queue', running, barriers, barrier, passed, sent, next, tasks)
    BY <1>9, <2>2 DEF LanesSound, Sound
  <2>4. QED BY <1>2, <2>3 DEF LanesSound
<1>11. ASSUME NEW h \in LaneNames, FrontIs(queue', h, passed)
       PROVE  FrontIs(queue, h, passed)
  <2>1. CASE h # k
    BY <1>9, <1>11, <2>1 DEF FrontIs
  <2>2. CASE h = k
    <3>1. line # <<>> /\ line[1].epoch = passed
      BY <1>9, <1>11, <2>2 DEF FrontIs
    <3>2. 1 \in 1..Len(queue[k]) /\ queue[k] # <<>>
      BY <1>3, <1>5, <3>1, EmptySeq
    <3>3. queue[k][1].epoch = passed
      BY <1>7, <3>1, <3>2
    <3>4. QED BY <2>2, <3>2, <3>3 DEF FrontIs
  <2>3. QED BY <2>1, <2>2
<1>12. LanesBusy'
  BY <1>2, <1>11 DEF LanesBusy, Busy
<1>13. QED BY <1>10, <1>12

\* What the steps hand to start.
NewPlace(j) == [ticket |-> next + 1, epoch |-> sent, job |-> j]
Longer(j) == [queue EXCEPT ![LaneOf[j]] = Append(@, NewPlace(j))]
NewBarrier(j) == [ticket |-> next + 1, job |-> j]
Freed(t) == [k \in LaneNames |-> IF running[k].ticket = t.ticket THEN Idle ELSE running[k]]

\* A job with a place of its own in its lane.
LEMMA LongerSound ==
    ASSUME LanesSound, NEW j \in Jobs, LaneOf[j] \in LaneNames
    PROVE  Sound(Longer(j), running, barriers, barrier, passed, sent, next + 1, tasks)
<1> DEFINE k == LaneOf[j]
           place == NewPlace(j)
           q == Longer(j)
           least == IF barrier # 0 THEN passed + 1 ELSE passed
<1>1. k \in LaneNames
  OBVIOUS
<1>2. /\ queue \in [LaneNames -> Seq(Place)]
      /\ sent \in Nat /\ next \in Nat /\ least \in Nat /\ least <= sent
      /\ \A h \in LaneNames : QueueSound(queue[h], least, sent, next)
  <2>1. Len(barriers) \in Nat
    BY LenProperties DEF LanesSound, Sound
  <2>2. QED BY <2>1 DEF LanesSound, Sound
<1>3. place \in Place /\ place.epoch = sent /\ place.ticket = next + 1
  BY <1>2 DEF Place, NewPlace
<1> HIDE DEF place, least
<1>4. /\ Append(queue[k], place) \in Seq(Place)
      /\ QueueSound(Append(queue[k], place), least, sent, next + 1)
  BY <1>1, <1>2, <1>3, AppendSound
<1>5. q \in [LaneNames -> Seq(Place)]
      /\ \A h \in LaneNames : QueueSound(q[h], least, sent, next + 1)
  <2>1. \A h \in LaneNames : QueueSound(queue[h], least, sent, next + 1)
    BY <1>2, CountMore
  <2>2. q = [queue EXCEPT ![k] = Append(queue[k], place)]
    BY DEF Longer, place
  <2>3. QED BY <1>1, <1>2, <1>4, <2>1, <2>2
<1> HIDE DEF q
<1>6. /\ \A i \in 1..Len(barriers) : barriers[i].ticket \in 1..(next + 1)
      /\ \A t \in tasks : t.ticket \in 1..(next + 1)
      /\ next + 1 \in Nat /\ barrier \in 0..(next + 1)
  BY DEF LanesSound, Sound
<1>7. QED BY <1>5, <1>6 DEF LanesSound, Sound, least, q

\* A job taken with a place of its own keeps the lanes sound and busy.
LEMMA LaneStep ==
    ASSUME LanesSound, NEW j \in Jobs, SubmitLane(j)
    PROVE  LanesSound' /\ LanesBusy'
<1>1. /\ LaneOf[j] \in LaneNames
      /\ StartFrom(Longer(j), running, barriers, barrier, passed, tasks)
      /\ next' = next + 1 /\ UNCHANGED <<sent, passed>>
  BY DEF SubmitLane, Longer, NewPlace
<1>2. /\ Sound(queue', running', barriers', barrier', passed, sent, next + 1, tasks')
      /\ Busy(queue', running', barriers', barrier', passed)
  BY <1>1, LongerSound, StartSound
<1>3. QED BY <1>1, <1>2 DEF LanesSound, LanesBusy

\* A barrier at the end of the barriers.
LEMMA AppendedSound ==
    ASSUME LanesSound, NEW j \in Jobs
    PROVE  Sound(queue, running, Append(barriers, NewBarrier(j)), barrier, passed, sent + 1,
                 next + 1, tasks)
<1> DEFINE waits == NewBarrier(j)
           bs == Append(barriers, waits)
<1>2. waits \in Task /\ waits.ticket = next + 1 /\ barriers \in Seq(Task)
      /\ next \in Nat /\ sent \in Nat
  BY DEF LanesSound, Sound, Task, NewBarrier
<1> HIDE DEF waits
<1>3. /\ bs \in Seq(Task) /\ Len(bs) = Len(barriers) + 1 /\ Len(barriers) \in Nat
      /\ \A i \in 1..Len(barriers) : bs[i] = barriers[i]
      /\ bs[Len(barriers) + 1] = waits
  BY <1>2, AppendProperties, LenProperties
<1> HIDE DEF bs
<1>4. \A i \in 1..Len(bs) : bs[i].ticket \in 1..(next + 1)
  <2>1. \A i \in 1..Len(bs) : i \in 1..Len(barriers) \/ i = Len(barriers) + 1
    BY <1>3
  <2>2. \A i \in 1..Len(barriers) : barriers[i].ticket \in 1..next
    BY DEF LanesSound, Sound
  <2>3. QED BY <1>2, <1>3, <2>1, <2>2
<1>5. \A k \in LaneNames :
         QueueSound(queue[k], IF barrier # 0 THEN passed + 1 ELSE passed,
                    sent + 1, next + 1)
  <2>1. (IF barrier # 0 THEN passed + 1 ELSE passed) \in Nat
    BY DEF LanesSound, Sound
  <2>2. QED BY <2>1, CountMore DEF LanesSound, Sound
<1>6. /\ \A t \in tasks : t.ticket \in 1..(next + 1)
      /\ next + 1 \in Nat /\ barrier \in 0..(next + 1)
      /\ sent + 1 \in Nat /\ passed \in 0..(sent + 1)
      /\ sent + 1 = passed + Len(bs) + IF barrier # 0 THEN 1 ELSE 0
  BY <1>3 DEF LanesSound, Sound
<1>7. Sound(queue, running, bs, barrier, passed, sent + 1, next + 1, tasks)
  BY <1>3, <1>4, <1>5, <1>6 DEF LanesSound, Sound
<1>8. QED BY <1>7 DEF bs, waits

\* A barrier taken keeps the lanes sound and busy.
LEMMA BarrierStep ==
    ASSUME LanesSound, NEW j \in Jobs, SubmitBarrier(j)
    PROVE  LanesSound' /\ LanesBusy'
<1>1. /\ StartFrom(queue, running, Append(barriers, NewBarrier(j)), barrier, passed, tasks)
      /\ next' = next + 1 /\ sent' = sent + 1 /\ UNCHANGED passed
  BY DEF SubmitBarrier, NewBarrier
<1>2. /\ Sound(queue', running', barriers', barrier', passed, sent + 1, next + 1, tasks')
      /\ Busy(queue', running', barriers', barrier', passed)
  BY <1>1, AppendedSound, StartSound
<1>3. QED BY <1>1, <1>2 DEF LanesSound, LanesBusy

\* The end of a barrier.
LEMMA PassedSound ==
    ASSUME LanesSound, NEW t \in tasks, barrier = t.ticket
    PROVE  Sound(queue, running, barriers, 0, passed + 1, sent, next, tasks \ {t})
<1>1. /\ queue \in [LaneNames -> Seq(Place)]
      /\ running \in [LaneNames -> [ticket : Nat, epoch : Nat]]
      /\ barriers \in Seq(Task) /\ Len(barriers) \in Nat
      /\ next \in Nat /\ sent \in Nat /\ passed \in 0..sent
      /\ barrier \in 0..next /\ t.ticket \in 1..next
  BY LenProperties DEF LanesSound, Sound
<1>2. barrier # 0
  BY <1>1
<1>3. /\ \A k \in LaneNames : QueueSound(queue[k], passed + 1, sent, next)
      /\ \A k \in LaneNames : running[k] = Idle
      /\ sent = passed + Len(barriers) + 1
  BY <1>2 DEF LanesSound, Sound
<1>4. passed + 1 \in 0..sent /\ 0 \in 0..next
      /\ sent = (passed + 1) + Len(barriers)
  BY <1>1, <1>3
<1>5. QED BY <1>3, <1>4 DEF LanesSound, Sound

\* The end of a lane's job or of a read.
LEMMA FreedSound ==
    ASSUME LanesSound, NEW t \in tasks, barrier # t.ticket
    PROVE  Sound(queue, Freed(t), barriers, barrier, passed, sent, next, tasks \ {t})
<1> DEFINE r == Freed(t)
<1>1. r \in [LaneNames -> [ticket : Nat, epoch : Nat]]
      /\ \A k \in LaneNames : running[k] = Idle => r[k] = Idle
  BY DEF Idle, Freed, LanesSound, Sound
<1>2. ASSUME NEW k \in LaneNames, r[k] # Idle
      PROVE  /\ r[k].epoch = passed
             /\ \E u \in tasks \ {t} : u.ticket = r[k].ticket
  <2>1. r[k] = running[k] /\ running[k].ticket # t.ticket /\ running[k] # Idle
    BY <1>2 DEF Freed
  <2>2. PICK u \in tasks : u.ticket = running[k].ticket
    BY <2>1 DEF LanesSound, Sound
  <2>3. QED BY <2>1, <2>2 DEF LanesSound, Sound
<1> HIDE DEF r
<1>3. barrier # 0 => \E u \in tasks \ {t} : u.ticket = barrier
  BY DEF LanesSound, Sound
<1>4. Sound(queue, r, barriers, barrier, passed, sent, next, tasks \ {t})
  BY <1>1, <1>2, <1>3 DEF LanesSound, Sound
<1>5. QED BY <1>4 DEF r

\* The end of a task keeps the lanes sound and busy.
LEMMA FinishedStep ==
    ASSUME LanesSound, NEW t \in tasks, Finished(t), UNCHANGED <<sent, next>>
    PROVE  LanesSound' /\ LanesBusy'
<1>1. CASE /\ barrier = t.ticket /\ passed' = passed + 1
           /\ StartFrom(queue, running, barriers, 0, passed + 1, tasks \ {t})
  BY <1>1, PassedSound, StartSound DEF LanesSound, LanesBusy
<1>2. CASE /\ barrier # t.ticket /\ UNCHANGED passed
           /\ StartFrom(queue, Freed(t), barriers, barrier, passed, tasks \ {t})
  BY <1>2, FreedSound, StartSound DEF LanesSound, LanesBusy
<1>3. QED BY <1>1, <1>2 DEF Finished, Freed

-----------------------------------------------------------------------------
(* The theorems.                                                           *)

\* Any step keeps the lanes sound and busy.
LEMMA LanesStep ==
    ASSUME TypeOK, LanesSound, LanesBusy, [Next]_vars
    PROVE  LanesSound' /\ LanesBusy'
<1>1. CASE Take
  <2>1. Head(inbox) \in Jobs
    BY <1>1, HeadTailProperties DEF Take, TypeOK
  <2>2. QED BY <1>1, <2>1, FreeStep, ReplacingStep, LaneStep, BarrierStep DEF Take
<1>2. ASSUME NEW t \in tasks, Join(t) PROVE LanesSound' /\ LanesBusy'
  BY <1>2, FinishedStep DEF Join
<1>3. CASE UNCHANGED <<laneVars, tasks>>
  BY <1>3 DEF laneVars, LanesSound, LanesBusy, Sound, Busy, FrontIs
<1>4. QED
  BY <1>1, <1>2, <1>3 DEF Next, Send, DropSenders, InboxOver, Return, vars, laneVars

\* Any step keeps the rest of the types, and the driver's end in order.
LEMMA RestStep ==
    ASSUME TypeOK, DriverSound, LanesSound', [Next]_vars
    PROVE  TypeOK' /\ DriverSound'
<1>0. LanesTyped'
  BY SoundIsTyped, PTL
<1>1. ASSUME NEW j \in Jobs, Send(j) PROVE TypeOK' /\ DriverSound'
  <2>1. inbox' \in Seq(Jobs) /\ fate' \in [Jobs -> {"unsent", "sent", "taken", "done", "dropped"}]
    BY <1>1, AppendProperties DEF TypeOK, Send
  <2>2. lastSent' \in [Things -> Jobs \cup {Nothing}]
    BY <1>1 DEF TypeOK, Send, Things
  <2>3. UNCHANGED <<senders, driver, tasks, lastDone>> /\ senders
    BY <1>1 DEF Send
  <2>4. QED BY <1>0, <2>1, <2>2, <2>3 DEF TypeOK, LanesTyped, DriverSound
<1>2. CASE Take
  <2>1. Head(inbox) \in Jobs /\ inbox' \in Seq(Jobs)
    BY <1>2, HeadTailProperties DEF TypeOK, Take
  <2>2. fate' \in [Jobs -> {"unsent", "sent", "taken", "done", "dropped"}]
    BY <1>2, <2>1 DEF TypeOK, Take, SubmitFree, SubmitReplacing, SubmitLane, SubmitBarrier
  <2>3. UNCHANGED <<senders, driver, lastSent, lastDone>> /\ driver = "open"
    BY <1>2 DEF Take
  <2>4. QED BY <1>0, <2>1, <2>2, <2>3 DEF TypeOK, LanesTyped, DriverSound
<1>3. ASSUME NEW t \in tasks, Join(t) PROVE TypeOK' /\ DriverSound'
  <2>1. t.job \in Jobs
    BY DEF TypeOK, Task
  <2>2. fate' \in [Jobs -> {"unsent", "sent", "taken", "done", "dropped"}]
    BY <1>3, <2>1 DEF TypeOK, Join
  <2>3. lastDone' \in [Things -> Jobs \cup {Nothing}]
    BY <1>3, <2>1 DEF TypeOK, Join, Things
  <2>4. UNCHANGED <<inbox, senders, driver, lastSent>> /\ driver # "returned"
    BY <1>3 DEF Join
  <2>5. QED BY <1>0, <2>2, <2>3, <2>4 DEF TypeOK, LanesTyped, DriverSound
<1>4. CASE DropSenders \/ InboxOver \/ Return \/ UNCHANGED vars
  <2>1. UNCHANGED <<fate, lastSent, lastDone, inbox>> /\ tasks' = tasks
    BY <1>4 DEF DropSenders, InboxOver, Return, vars
  <2>2. /\ senders' \in BOOLEAN /\ driver' \in {"open", "draining", "returned"}
    BY <1>4 DEF TypeOK, DropSenders, InboxOver, Return, vars
  <2>3. DriverSound'
    BY <1>4 DEF TypeOK, DriverSound, DropSenders, InboxOver, Return, vars
  <2>4. QED BY <1>0, <2>1, <2>2, <2>3 DEF TypeOK, LanesTyped
<1>5. QED BY <1>1, <1>2, <1>3, <1>4 DEF Next

\* The strengthening holds in every state.
THEOREM Inductive == Spec => []IInv
<1>1. Init => IInv
  <2> SUFFICES ASSUME Init PROVE IInv
    OBVIOUS
  <2>1. <<>> \in Seq(Place) /\ <<>> \in Seq(Task) /\ <<>> \in Seq(Jobs) /\ Len(<<>>) = 0
    BY EmptySeq
  <2>2. TypeOK
    BY <2>1 DEF Init, TypeOK, Idle
  <2>3. LanesSound
    BY <2>1 DEF Init, LanesSound, Sound, QueueSound, Idle
  <2>4. LanesBusy /\ DriverSound
    BY DEF Init, LanesBusy, Busy, FrontIs, DriverSound
  <2>5. QED BY <2>2, <2>3, <2>4 DEF IInv
<1>2. IInv /\ [Next]_vars => IInv'
  <2>1. SUFFICES ASSUME IInv, [Next]_vars PROVE IInv'
    OBVIOUS
  <2>2. LanesSound' /\ LanesBusy'
    BY <2>1, LanesStep DEF IInv
  <2>3. TypeOK' /\ DriverSound'
    BY <2>1, <2>2, RestStep DEF IInv
  <2>4. QED BY <2>2, <2>3 DEF IInv
<1>3. QED BY <1>1, <1>2, PTL DEF Spec

\* Every variable keeps its type, for any jobs, lanes and barriers.
THEOREM TypeCorrect == Spec => []TypeOK
<1>1. IInv => TypeOK
  BY DEF IInv
<1>2. QED BY <1>1, Inductive, PTL

\* A barrier runs alone, after everything sent before it and before everything
\* sent after, with any number of lanes, jobs and barriers.
THEOREM BarrierAlone == Spec => []BarrierRunsAlone
<1>1. IInv => BarrierRunsAlone
  <2> SUFFICES ASSUME IInv PROVE BarrierRunsAlone
    OBVIOUS
  <2>1. ASSUME NEW k \in LaneNames, NEW i \in DOMAIN queue[k]
        PROVE  queue[k][i].epoch >= IF barrier # 0 THEN passed + 1 ELSE passed
    <3>1. /\ queue[k] \in Seq(Place)
          /\ QueueSound(queue[k], IF barrier # 0 THEN passed + 1 ELSE passed, sent, next)
      BY DEF IInv, LanesSound, Sound
    <3>2. i \in 1..Len(queue[k])
      BY <3>1, LenProperties
    <3>3. QED BY <3>1, <3>2 DEF QueueSound
  <2>2. QED BY <2>1 DEF IInv, LanesSound, Sound, BarrierRunsAlone
<1>2. QED BY <1>1, Inductive, PTL

\* The driver looks only at its tasks, and yet returns with nothing left: with no
\* task, a lane's front could only wait for a barrier, and a barrier for a lane.
THEOREM NothingLeft == Spec => []ReturnsWithNothingLeft
<1>1. IInv => ReturnsWithNothingLeft
  <2> SUFFICES ASSUME IInv, driver = "returned" PROVE
                 /\ inbox = <<>> /\ barriers = <<>> /\ barrier = 0
                 /\ \A k \in LaneNames : queue[k] = <<>> /\ running[k] = Idle
    BY DEF ReturnsWithNothingLeft
  <2>1. inbox = <<>> /\ tasks = {}
    BY DEF IInv, DriverSound
  <2>2. barrier = 0 /\ \A k \in LaneNames : running[k] = Idle
    BY <2>1 DEF IInv, LanesSound, Sound
  <2>3. /\ barriers = <<>>
        /\ \A k \in LaneNames : ~FrontIs(queue, k, passed)
    BY <2>2 DEF IInv, LanesBusy, Busy
  <2>4. sent = passed
    BY <2>2, <2>3, EmptySeq DEF IInv, LanesSound, Sound
  <2>5. ASSUME NEW k \in LaneNames, queue[k] # <<>> PROVE FALSE
    <3>1. /\ queue[k] \in Seq(Place) /\ QueueSound(queue[k], passed, sent, next)
          /\ passed \in Nat /\ sent \in Nat /\ next \in Nat
      BY <2>2 DEF IInv, LanesSound, Sound
    <3>2. Head(queue[k]).epoch \in passed..sent
      BY <2>5, <3>1, TailSound
    <3>3. QED BY <2>3, <2>4, <2>5, <3>1, <3>2 DEF FrontIs
  <2>6. QED BY <2>1, <2>2, <2>3, <2>5
<1>2. QED BY <1>1, Inductive, PTL

-----------------------------------------------------------------------------
(* What is held, and in which order.                                       *)

\* Job j waits, with ticket n; runs with it; has it.
Waits(q, bs, n, j) ==
    \/ \E k \in LaneNames : \E i \in 1..Len(q[k]) : q[k][i].ticket = n /\ q[k][i].job = j
    \/ \E h \in 1..Len(bs) : bs[h].ticket = n /\ bs[h].job = j
Runs(live, n, j) == \E t \in live : t.ticket = n /\ t.job = j
Holds(q, bs, live, n, j) == Waits(q, bs, n, j) \/ Runs(live, n, j)

\* A ticket is one job's, and a job has one ticket.
Tickets(q, bs, live) ==
    \A n, m \in Nat : \A i, j \in Jobs :
        Holds(q, bs, live, n, i) /\ Holds(q, bs, live, m, j) => (n = m <=> i = j)

\* The barriers sent before the one at place h: how an epoch compares with it
\* is how the tickets do.
Number(b, p, h) == p + (IF b # 0 THEN 1 ELSE 0) + h

\* Waiting jobs are in the order of their tickets, behind what runs.
InOrder(q, r, bs, b, p) ==
    /\ \A k \in LaneNames : \A i \in 1..Len(q[k]) :
          /\ LaneOf[q[k][i].job] = k
          /\ \A j \in 1..Len(q[k]) : i < j => q[k][i].ticket < q[k][j].ticket
          /\ r[k] # Idle => r[k].ticket < q[k][i].ticket
          /\ b # 0 => b < q[k][i].ticket
          /\ \A h \in 1..Len(bs) :
                IF q[k][i].epoch < Number(b, p, h)
                THEN q[k][i].ticket < bs[h].ticket
                ELSE bs[h].ticket < q[k][i].ticket
    /\ \A h \in 1..Len(bs) :
          /\ LaneOf[bs[h].job] = Barrier
          /\ \A j \in 1..Len(bs) : h < j => bs[h].ticket < bs[j].ticket
          /\ \A k \in LaneNames : r[k] # Idle => r[k].ticket < bs[h].ticket
          /\ b # 0 => b < bs[h].ticket

\* The lanes and the tasks agree on what runs.
RunsInLane(r, b, live) ==
    /\ \A t \in live : /\ LaneOf[t.job] \in LaneNames => r[LaneOf[t.job]].ticket = t.ticket
                       /\ LaneOf[t.job] = Barrier => b = t.ticket
    /\ \A k \in LaneNames :
          r[k] # Idle => \E t \in live : t.ticket = r[k].ticket /\ LaneOf[t.job] = k
    /\ b # 0 => \E t \in live : t.ticket = b /\ LaneOf[t.job] = Barrier

Ordered(q, r, bs, b, p, live) ==
    Tickets(q, bs, live) /\ InOrder(q, r, bs, b, p) /\ RunsInLane(r, b, live)

LanesOrdered == Ordered(queue, running, barriers, barrier, passed, tasks)

\* A job is taken while it holds a ticket.
TakenSound ==
    \A j \in Jobs : fate[j] = "taken" <=> \E n \in Nat : Holds(queue, barriers, tasks, n, j)

\* What is in the inbox is sent, each job once, and not taken yet.
InboxSound ==
    /\ \A i \in 1..Len(inbox) : fate[inbox[i]] = "sent"
    /\ \A i, j \in 1..Len(inbox) : inbox[i] = inbox[j] => i = j

\* The same, place by place.
Facts(q, r, bs, b, p, s, n, live) ==
    /\ p \in Nat /\ s \in Nat /\ n \in Nat /\ b \in Nat /\ b <= n
    /\ Len(bs) \in Nat /\ s = Number(b, p, Len(bs))
    /\ \A k \in LaneNames :
         /\ Len(q[k]) \in Nat
         /\ r[k].ticket \in Nat
         /\ r[k] # Idle => b = 0 /\ r[k].epoch = p /\ r[k].ticket \in 1..n
         /\ \A i \in 1..Len(q[k]) :
               /\ q[k][i].ticket \in 1..n /\ q[k][i].job \in Jobs
               /\ q[k][i].epoch \in p..s /\ (b # 0 => q[k][i].epoch > p)
               /\ \A j \in 1..Len(q[k]) : i <= j => q[k][i].epoch <= q[k][j].epoch
    /\ \A h \in 1..Len(bs) : bs[h].ticket \in 1..n /\ bs[h].job \in Jobs
    /\ \A t \in live : t \in Task /\ t.ticket \in 1..n /\ t.job \in Jobs

\* What soundness says of each place, barrier and task.
LEMMA SoundFacts ==
    ASSUME NEW q, NEW r, NEW bs, NEW b, NEW p, NEW s, NEW n, NEW live,
           Sound(q, r, bs, b, p, s, n, live)
    PROVE  Facts(q, r, bs, b, p, s, n, live)
<1>1. /\ q \in [LaneNames -> Seq(Place)]
      /\ r \in [LaneNames -> [ticket : Nat, epoch : Nat]]
      /\ bs \in Seq(Task) /\ live \subseteq Task
      /\ n \in Nat /\ b \in 0..n /\ s \in Nat /\ p \in 0..s
      /\ Len(bs) \in Nat
      /\ \A i \in 1..Len(bs) : bs[i].ticket \in 1..n
      /\ \A t \in live : t.ticket \in 1..n
      /\ s = p + Len(bs) + IF b # 0 THEN 1 ELSE 0
      /\ \A k \in LaneNames : QueueSound(q[k], IF b # 0 THEN p + 1 ELSE p, s, n)
      /\ b # 0 => \A k \in LaneNames : r[k] = Idle
      /\ \A k \in LaneNames :
            r[k] # Idle => /\ r[k].epoch = p
                           /\ \E t \in live : t.ticket = r[k].ticket
  BY LenProperties DEF Sound
<1>2. ASSUME NEW k \in LaneNames
      PROVE  /\ Len(q[k]) \in Nat
             /\ \A i \in 1..Len(q[k]) :
                   /\ q[k][i].ticket \in 1..n /\ q[k][i].job \in Jobs
                   /\ q[k][i].epoch \in p..s /\ (b # 0 => q[k][i].epoch > p)
                   /\ \A j \in 1..Len(q[k]) : i <= j => q[k][i].epoch <= q[k][j].epoch
  <2>1. q[k] \in Seq(Place) /\ QueueSound(q[k], IF b # 0 THEN p + 1 ELSE p, s, n)
    BY <1>1
  <2>2. Len(q[k]) \in Nat /\ \A i \in 1..Len(q[k]) : q[k][i] \in Place
    BY <2>1, LenProperties, ElementOfSeq
  <2>3. ASSUME NEW i \in 1..Len(q[k])
        PROVE  q[k][i].epoch \in p..s /\ (b # 0 => q[k][i].epoch > p)
    BY <1>1, <2>1 DEF QueueSound
  <2>4. QED BY <2>1, <2>2, <2>3 DEF QueueSound, Place
<1>3. \A h \in 1..Len(bs) : bs[h] \in Task
  BY <1>1, ElementOfSeq
<1>4. \A k \in LaneNames : /\ r[k].ticket \in Nat
                           /\ r[k] # Idle => b = 0 /\ r[k].epoch = p /\ r[k].ticket \in 1..n
  BY <1>1
<1>5. s = Number(b, p, Len(bs)) /\ p \in Nat /\ b \in Nat /\ b <= n
  BY <1>1 DEF Number
<1>6. \A t \in live : t \in Task /\ t.ticket \in 1..n /\ t.job \in Jobs
  BY <1>1 DEF Task
<1>7. QED BY <1>1, <1>2, <1>3, <1>4, <1>5, <1>6 DEF Task, Facts

\* What start does, place by place.
Heads(q, r, bs, b, p, live) ==
    /\ b = 0 /\ barriers' = bs /\ barrier' = b
    /\ bs = <<>> \/ \E k \in LaneNames : Current(q, r, p, k)
    /\ \A k \in Ready(q, r, p) :
          /\ Len(queue'[k]) = Len(q[k]) - 1 /\ Len(q[k]) >= 1
          /\ \A i \in 1..Len(queue'[k]) : queue'[k][i] = q[k][i + 1]
          /\ r[k] = Idle /\ q[k][1].epoch = p
          /\ running'[k].ticket = q[k][1].ticket /\ running'[k] # Idle
    /\ \A k \in LaneNames :
          k \notin Ready(q, r, p) => queue'[k] = q[k] /\ running'[k] = r[k]
    /\ tasks' = live \cup {[ticket |-> q[k][1].ticket, job |-> q[k][1].job] : k \in Ready(q, r, p)}

FirstBarrier(q, r, bs, b, p, live) ==
    /\ b = 0 /\ queue' = q /\ running' = r
    /\ \A k \in LaneNames : /\ r[k] = Idle
                            /\ \A i \in 1..Len(q[k]) : q[k][i].epoch > p
    /\ Len(barriers') = Len(bs) - 1 /\ Len(bs) >= 1
    /\ \A h \in 1..Len(barriers') : barriers'[h] = bs[h + 1]
    /\ barrier' = bs[1].ticket /\ barrier' # 0
    /\ tasks' = live \cup {bs[1]}

StartsNothing(q, r, bs, b, live) ==
    /\ b # 0
    /\ queue' = q /\ running' = r /\ barriers' = bs /\ barrier' = b /\ tasks' = live

\* Lanes::start starts nothing, the first barrier, or the fronts of lanes.
LEMMA Starts ==
    ASSUME NEW q, NEW r, NEW bs, NEW b, NEW p, NEW s, NEW n, NEW live,
           Sound(q, r, bs, b, p, s, n, live),
           StartFrom(q, r, bs, b, p, live)
    PROVE  \/ StartsNothing(q, r, bs, b, live)
           \/ FirstBarrier(q, r, bs, b, p, live)
           \/ Heads(q, r, bs, b, p, live)
<1>f. Facts(q, r, bs, b, p, s, n, live)
  BY SoundFacts
<1>0. q \in [LaneNames -> Seq(Place)] /\ bs \in Seq(Task)
  BY DEF Sound
<1>1. CASE b # 0
  BY <1>1 DEF StartFrom, StartsNothing
<1>2. CASE /\ b = 0 /\ bs # <<>>
           /\ \A k \in LaneNames : ~Current(q, r, p, k)
           /\ barriers' = Tail(bs) /\ barrier' = Head(bs).ticket
           /\ tasks' = live \cup {Head(bs)}
           /\ queue' = q /\ running' = r
  <2>1. /\ Len(Tail(bs)) = Len(bs) - 1 /\ Len(bs) >= 1 /\ Head(bs) = bs[1]
        /\ \A i \in 1..(Len(bs) - 1) : Tail(bs)[i] = bs[i + 1]
    BY <1>0, <1>f, <1>2, HeadTailProperties, EmptySeq DEF Facts
  <2>2. 1 \in 1..Len(bs)
    BY <1>f, <2>1 DEF Facts
  <2>3. ASSUME NEW k \in LaneNames, NEW i \in 1..Len(q[k]) PROVE q[k][i].epoch > p
    <3>1. q[k] \in Seq(Place) /\ 1 \in 1..Len(q[k]) /\ q[k] # <<>>
      BY <1>0, <1>f, <2>3, EmptySeq DEF Facts
    <3>2. Head(q[k]) = q[k][1]
      BY <3>1, HeadTailProperties
    <3>3. q[k][1].epoch # p
      BY <1>2, <3>1, <3>2 DEF Current, FrontIs
    <3>4. q[k][1].epoch \in p..s /\ q[k][i].epoch \in p..s /\ q[k][1].epoch <= q[k][i].epoch
          /\ p \in Nat /\ s \in Nat
      BY <1>f, <3>1 DEF Facts
    <3>5. QED BY <3>3, <3>4
  <2>4. \A k \in LaneNames : r[k] = Idle
    BY <1>f, <1>2 DEF Current, Facts
  <2>5. QED BY <1>f, <1>2, <2>1, <2>2, <2>3, <2>4 DEF FirstBarrier, Facts
<1>3. CASE /\ b = 0
           /\ bs = <<>> \/ \E k \in LaneNames : Current(q, r, p, k)
           /\ queue' = [k \in LaneNames |->
                          IF k \in Ready(q, r, p) THEN Tail(q[k]) ELSE q[k]]
           /\ running' = [k \in LaneNames |->
                            IF k \in Ready(q, r, p)
                            THEN [ticket |-> Head(q[k]).ticket,
                                  epoch |-> Head(q[k]).epoch]
                            ELSE r[k]]
           /\ tasks' = live \cup {[ticket |-> Head(q[k]).ticket,
                                   job |-> Head(q[k]).job] : k \in Ready(q, r, p)}
           /\ barriers' = bs /\ barrier' = b
  <2>1. ASSUME NEW k \in Ready(q, r, p)
        PROVE  /\ k \in LaneNames /\ Head(q[k]) = q[k][1]
               /\ Len(queue'[k]) = Len(q[k]) - 1 /\ Len(q[k]) >= 1
               /\ \A i \in 1..Len(queue'[k]) : queue'[k][i] = q[k][i + 1]
               /\ r[k] = Idle /\ q[k][1].epoch = p
               /\ running'[k].ticket = q[k][1].ticket /\ running'[k] # Idle
    <3>1. k \in LaneNames /\ q[k] # <<>> /\ r[k] = Idle /\ Head(q[k]).epoch = p
      BY DEF Ready, FrontIs
    <3>2. q[k] \in Seq(Place)
      BY <1>0, <3>1
    <3>3. /\ Head(q[k]) = q[k][1] /\ Len(Tail(q[k])) = Len(q[k]) - 1 /\ Len(q[k]) >= 1
          /\ \A i \in 1..(Len(q[k]) - 1) : Tail(q[k])[i] = q[k][i + 1]
      BY <3>1, <3>2, HeadTailProperties, EmptySeq, LenProperties
    <3>4. queue'[k] = Tail(q[k]) /\ running'[k] = [ticket |-> q[k][1].ticket, epoch |-> q[k][1].epoch]
      BY <1>3, <3>1, <3>3
    <3>5. q[k][1].ticket # 0
      BY <1>f, <3>1, <3>3 DEF Facts
    <3>6. QED BY <3>1, <3>3, <3>4, <3>5 DEF Idle
  <2>2. {[ticket |-> Head(q[k]).ticket, job |-> Head(q[k]).job] : k \in Ready(q, r, p)}
          = {[ticket |-> q[k][1].ticket, job |-> q[k][1].job] : k \in Ready(q, r, p)}
    BY <2>1
  <2>3. \A k \in LaneNames :
          k \notin Ready(q, r, p) => queue'[k] = q[k] /\ running'[k] = r[k]
    BY <1>3
  <2>4. QED BY <1>3, <2>1, <2>2, <2>3 DEF Heads
<1>4. QED BY <1>1, <1>2, <1>3 DEF StartFrom

\* Somebody that j has to wait for holds an earlier ticket.
Blocked(q, bs, live, n, j) ==
    \E m \in Nat : \E i \in Jobs : Holds(q, bs, live, m, i) /\ Order!Conflict(i, j) /\ m < n

\* A job on a lane is held up unless it is the front of an idle lane and was
\* sent before any barrier that is left.
LEMMA PlaceBlocked ==
    ASSUME NEW q, NEW r, NEW bs, NEW b, NEW p, NEW s, NEW n, NEW live,
           Facts(q, r, bs, b, p, s, n, live), Ordered(q, r, bs, b, p, live),
           NEW k \in LaneNames, NEW i \in 1..Len(q[k])
    PROVE  Blocked(q, bs, live, q[k][i].ticket, q[k][i].job)
             <=> ~(b = 0 /\ r[k] = Idle /\ i = 1 /\ q[k][1].epoch = p)
<1> DEFINE n1 == q[k][i].ticket
           j1 == q[k][i].job
<1>0. /\ Len(q[k]) \in Nat /\ 1 \in 1..Len(q[k]) /\ p \in Nat /\ s \in Nat /\ b \in Nat
      /\ n1 \in Nat /\ LaneOf[j1] = k /\ k # Free /\ k # Barrier /\ Barrier # Free
      /\ InOrder(q, r, bs, b, p) /\ RunsInLane(r, b, live)
  <2>1. Len(q[k]) \in Nat /\ p \in Nat /\ s \in Nat /\ b \in Nat /\ n \in Nat /\ n1 \in 1..n
    BY DEF Facts
  <2>2. InOrder(q, r, bs, b, p) /\ RunsInLane(r, b, live)
    BY DEF Ordered
  <2>3. LaneOf[j1] = k
    BY <2>2 DEF InOrder
  <2>4. k # Free /\ k # Barrier /\ Barrier # Free
    BY KindsAssumption DEF LaneNames
  <2>5. QED BY <2>1, <2>2, <2>3, <2>4
<1>1. CASE b # 0
  <2>1. PICK t \in live : t.ticket = b /\ LaneOf[t.job] = Barrier
    BY <1>0, <1>1 DEF RunsInLane
  <2>2. t.ticket < n1 /\ t.ticket \in Nat /\ t.job \in Jobs
    BY <1>0, <1>1, <2>1 DEF InOrder, Facts
  <2>3. Holds(q, bs, live, t.ticket, t.job)
    BY DEF Holds, Runs
  <2>4. Order!Conflict(t.job, j1)
    BY <1>0, <2>1 DEF Order!Conflict
  <2>5. QED BY <1>1, <2>2, <2>3, <2>4 DEF Blocked
<1>2. CASE r[k] # Idle
  <2>1. PICK t \in live : t.ticket = r[k].ticket /\ LaneOf[t.job] = k
    BY <1>0, <1>2 DEF RunsInLane
  <2>2. t.ticket < n1 /\ t.ticket \in Nat /\ t.job \in Jobs
    BY <1>0, <1>2, <2>1 DEF InOrder, Facts
  <2>3. Holds(q, bs, live, t.ticket, t.job)
    BY DEF Holds, Runs
  <2>4. Order!Conflict(t.job, j1)
    BY <1>0, <2>1 DEF Order!Conflict
  <2>5. QED BY <1>2, <2>2, <2>3, <2>4 DEF Blocked
<1>3. CASE i # 1
  <2>1. 1 < i
    BY <1>3
  <2>2. q[k][1].ticket < n1 /\ q[k][1].ticket \in Nat /\ q[k][1].job \in Jobs /\ LaneOf[q[k][1].job] = k
    BY <1>0, <2>1 DEF InOrder, Facts
  <2>3. Holds(q, bs, live, q[k][1].ticket, q[k][1].job)
    BY <1>0 DEF Holds, Waits
  <2>4. Order!Conflict(q[k][1].job, j1)
    BY <1>0, <2>2 DEF Order!Conflict
  <2>5. QED BY <1>3, <2>2, <2>3, <2>4 DEF Blocked
<1>4. CASE b = 0 /\ i = 1 /\ q[k][1].epoch # p
  <2>1. q[k][i].epoch \in p..s /\ s = Number(b, p, Len(bs)) /\ Len(bs) \in Nat
    BY DEF Facts
  <2>2. 1 \in 1..Len(bs) /\ ~(q[k][i].epoch < Number(b, p, 1))
    BY <1>0, <1>4, <2>1 DEF Number
  <2>3. bs[1].ticket < n1 /\ bs[1].ticket \in Nat /\ bs[1].job \in Jobs /\ LaneOf[bs[1].job] = Barrier
    BY <1>0, <2>2 DEF InOrder, Facts
  <2>4. Holds(q, bs, live, bs[1].ticket, bs[1].job)
    BY <2>2 DEF Holds, Waits
  <2>5. Order!Conflict(bs[1].job, j1)
    BY <1>0, <2>3 DEF Order!Conflict
  <2>6. QED BY <1>4, <2>3, <2>4, <2>5 DEF Blocked
<1>5. ASSUME b = 0, r[k] = Idle, i = 1, q[k][1].epoch = p,
             Blocked(q, bs, live, n1, j1)
      PROVE  FALSE
  <2>1. PICK m \in Nat, j \in Jobs : Holds(q, bs, live, m, j) /\ Order!Conflict(j, j1) /\ m < n1
    BY <1>5 DEF Blocked
  <2>2. LaneOf[j] = k \/ LaneOf[j] = Barrier
    BY <1>0, <2>1 DEF Order!Conflict
  <2>3. CASE Runs(live, m, j)
    <3>1. PICK t \in live : t.ticket = m /\ t.job = j
      BY <2>3 DEF Runs
    <3>2. t.ticket # 0
      BY DEF Facts
    <3>3. r[k].ticket = t.ticket \/ b = t.ticket
      BY <1>0, <2>2, <3>1 DEF RunsInLane
    <3>4. QED BY <1>5, <3>2, <3>3 DEF Idle
  <2>4. ASSUME NEW l \in LaneNames, NEW h \in 1..Len(q[l]), q[l][h].ticket = m, q[l][h].job = j
        PROVE  FALSE
    <3>1. l = k
      BY <1>0, <2>2, <2>4 DEF InOrder, LaneNames
    <3>2. h = 1 \/ q[k][1].ticket < q[k][h].ticket
      BY <1>0, <2>4, <3>1 DEF InOrder
    <3>3. QED BY <1>0, <1>5, <2>1, <2>4, <3>1, <3>2
  <2>5. ASSUME NEW h \in 1..Len(bs), bs[h].ticket = m, bs[h].job = j
        PROVE  FALSE
    <3>1. q[k][i].epoch < Number(b, p, h)
      BY <1>0, <1>5 DEF Number
    <3>2. n1 < bs[h].ticket
      BY <1>0, <3>1 DEF InOrder
    <3>3. QED BY <1>0, <2>1, <2>5, <3>2
  <2>6. QED BY <2>1, <2>3, <2>4, <2>5 DEF Holds, Waits
<1>6. QED BY <1>1, <1>2, <1>3, <1>4, <1>5

\* A barrier is held up unless it is the first, and no lane has anything that
\* was sent before it.
LEMMA BarrierBlocked ==
    ASSUME NEW q, NEW r, NEW bs, NEW b, NEW p, NEW s, NEW n, NEW live,
           Facts(q, r, bs, b, p, s, n, live), Ordered(q, r, bs, b, p, live),
           NEW h \in 1..Len(bs)
    PROVE  Blocked(q, bs, live, bs[h].ticket, bs[h].job)
             <=> ~(/\ b = 0 /\ h = 1
                   /\ \A k \in LaneNames : r[k] = Idle /\ \A i \in 1..Len(q[k]) : q[k][i].epoch > p)
<1> DEFINE n1 == bs[h].ticket
           j1 == bs[h].job
<1>0. /\ Len(bs) \in Nat /\ 1 \in 1..Len(bs) /\ p \in Nat /\ s \in Nat /\ b \in Nat
      /\ n1 \in Nat /\ LaneOf[j1] = Barrier /\ Barrier # Free
      /\ \A k \in LaneNames : k # Free /\ k # Barrier
      /\ InOrder(q, r, bs, b, p) /\ RunsInLane(r, b, live)
  <2>1. Len(bs) \in Nat /\ p \in Nat /\ s \in Nat /\ b \in Nat /\ n \in Nat /\ n1 \in 1..n
    BY DEF Facts
  <2>2. InOrder(q, r, bs, b, p) /\ RunsInLane(r, b, live)
    BY DEF Ordered
  <2>3. LaneOf[j1] = Barrier
    BY <2>2 DEF InOrder
  <2>4. Barrier # Free /\ \A k \in LaneNames : k # Free /\ k # Barrier
    BY KindsAssumption DEF LaneNames
  <2>5. QED BY <2>1, <2>2, <2>3, <2>4
<1>1. CASE b # 0
  <2>1. PICK t \in live : t.ticket = b /\ LaneOf[t.job] = Barrier
    BY <1>0, <1>1 DEF RunsInLane
  <2>2. t.ticket < n1 /\ t.ticket \in Nat /\ t.job \in Jobs
    BY <1>0, <1>1, <2>1 DEF InOrder, Facts
  <2>3. Holds(q, bs, live, t.ticket, t.job) /\ Order!Conflict(t.job, j1)
    BY <1>0, <2>1 DEF Holds, Runs, Order!Conflict
  <2>4. QED BY <1>1, <2>2, <2>3 DEF Blocked
<1>2. CASE h # 1
  <2>1. bs[1].ticket < n1 /\ bs[1].ticket \in Nat /\ bs[1].job \in Jobs /\ LaneOf[bs[1].job] = Barrier
    BY <1>0, <1>2 DEF InOrder, Facts
  <2>2. Holds(q, bs, live, bs[1].ticket, bs[1].job) /\ Order!Conflict(bs[1].job, j1)
    BY <1>0, <2>1 DEF Holds, Waits, Order!Conflict
  <2>3. QED BY <1>2, <2>1, <2>2 DEF Blocked
<1>3. ASSUME NEW k \in LaneNames, r[k] # Idle PROVE Blocked(q, bs, live, n1, j1)
  <2>1. PICK t \in live : t.ticket = r[k].ticket /\ LaneOf[t.job] = k
    BY <1>0, <1>3 DEF RunsInLane
  <2>2. t.ticket < n1 /\ t.ticket \in Nat /\ t.job \in Jobs
    BY <1>0, <1>3, <2>1 DEF InOrder, Facts
  <2>3. Holds(q, bs, live, t.ticket, t.job) /\ Order!Conflict(t.job, j1)
    BY <1>0, <2>1 DEF Holds, Runs, Order!Conflict
  <2>4. QED BY <2>2, <2>3 DEF Blocked
<1>4. ASSUME b = 0, NEW k \in LaneNames, NEW i \in 1..Len(q[k]), ~(q[k][i].epoch > p)
      PROVE  Blocked(q, bs, live, n1, j1)
  <2>1. q[k][i].epoch \in p..s /\ q[k][i].ticket \in Nat /\ q[k][i].job \in Jobs /\ LaneOf[q[k][i].job] = k
    BY <1>0, <1>4 DEF Facts, InOrder
  <2>2. q[k][i].epoch < Number(b, p, h)
    BY <1>0, <1>4, <2>1 DEF Number
  <2>3. q[k][i].ticket < n1
    BY <1>0, <1>4, <2>2 DEF InOrder
  <2>4. Holds(q, bs, live, q[k][i].ticket, q[k][i].job) /\ Order!Conflict(q[k][i].job, j1)
    BY <1>0, <1>4, <2>1 DEF Holds, Waits, Order!Conflict
  <2>5. QED BY <2>1, <2>3, <2>4 DEF Blocked
<1>5. ASSUME b = 0, h = 1, Blocked(q, bs, live, n1, j1),
             \A k \in LaneNames : r[k] = Idle /\ \A i \in 1..Len(q[k]) : q[k][i].epoch > p
      PROVE  FALSE
  <2>1. PICK m \in Nat, j \in Jobs : Holds(q, bs, live, m, j) /\ Order!Conflict(j, j1) /\ m < n1
    BY <1>5 DEF Blocked
  <2>2. LaneOf[j] # Free
    BY <2>1 DEF Order!Conflict
  <2>3. CASE Runs(live, m, j)
    <3>1. PICK t \in live : t.ticket = m /\ t.job = j
      BY <2>3 DEF Runs
    <3>2. t.ticket # 0
      BY DEF Facts
    <3>3. LaneOf[j] \in LaneNames \/ LaneOf[j] = Barrier
      BY <2>2 DEF LaneNames
    <3>4. b = t.ticket \/ \E k \in LaneNames : r[k].ticket = t.ticket
      BY <1>0, <3>1, <3>3 DEF RunsInLane
    <3>5. QED BY <1>5, <3>2, <3>4 DEF Idle
  <2>4. ASSUME NEW l \in LaneNames, NEW i \in 1..Len(q[l]), q[l][i].ticket = m, q[l][i].job = j
        PROVE  FALSE
    <3>1. q[l][i].epoch > p /\ q[l][i].epoch \in Nat /\ q[l][i].ticket \in Nat
      BY <1>5, <2>4, <1>0 DEF Facts
    <3>2. ~(q[l][i].epoch < Number(b, p, h))
      BY <1>0, <1>5, <3>1 DEF Number
    <3>3. n1 < q[l][i].ticket
      BY <1>0, <2>4, <3>2 DEF InOrder
    <3>4. QED BY <1>0, <2>1, <2>4, <3>3
  <2>5. ASSUME NEW g \in 1..Len(bs), bs[g].ticket = m, bs[g].job = j
        PROVE  FALSE
    <3>1. g = 1 \/ bs[1].ticket < bs[g].ticket
      BY <1>0, <2>5 DEF InOrder
    <3>2. QED BY <1>0, <1>5, <2>1, <2>5, <3>1
  <2>6. QED BY <2>1, <2>3, <2>4, <2>5 DEF Holds, Waits
<1>6. QED BY <1>1, <1>2, <1>3, <1>4, <1>5

\* What waits after start is what waited and was held up.
LEMMA StartTakes ==
    ASSUME NEW q, NEW r, NEW bs, NEW b, NEW p, NEW s, NEW n, NEW live,
           Sound(q, r, bs, b, p, s, n, live), Ordered(q, r, bs, b, p, live),
           StartFrom(q, r, bs, b, p, live)
    PROVE  \A m \in Nat : \A j \in Jobs :
              /\ Waits(queue', barriers', m, j) <=> Waits(q, bs, m, j) /\ Blocked(q, bs, live, m, j)
              /\ Holds(queue', barriers', tasks', m, j) <=> Holds(q, bs, live, m, j)
<1>f. Facts(q, r, bs, b, p, s, n, live)
  BY SoundFacts
<1>p. \A k \in LaneNames : \A i \in 1..Len(q[k]) :
         Blocked(q, bs, live, q[k][i].ticket, q[k][i].job)
             <=> ~(b = 0 /\ r[k] = Idle /\ i = 1 /\ q[k][1].epoch = p)
  BY <1>f, PlaceBlocked
<1>b. \A h \in 1..Len(bs) :
         Blocked(q, bs, live, bs[h].ticket, bs[h].job)
             <=> ~(/\ b = 0 /\ h = 1
                   /\ \A k \in LaneNames : r[k] = Idle /\ \A i \in 1..Len(q[k]) : q[k][i].epoch > p)
  BY <1>f, BarrierBlocked
<1> SUFFICES ASSUME NEW m \in Nat, NEW j \in Jobs
             PROVE  /\ Waits(queue', barriers', m, j) <=> Waits(q, bs, m, j) /\ Blocked(q, bs, live, m, j)
                    /\ Holds(queue', barriers', tasks', m, j) <=> Holds(q, bs, live, m, j)
  OBVIOUS
<1>1. CASE StartsNothing(q, r, bs, b, live)
  <2>1. Waits(q, bs, m, j) => Blocked(q, bs, live, m, j)
    BY <1>1, <1>p, <1>b DEF StartsNothing, Waits
  <2>2. QED BY <1>1, <2>1 DEF StartsNothing, Holds
<1>2. CASE FirstBarrier(q, r, bs, b, p, live)
  <2>1. /\ b = 0 /\ queue' = q /\ Len(bs) \in Nat /\ Len(bs) >= 1
        /\ Len(barriers') = Len(bs) - 1
        /\ \A h \in 1..Len(barriers') : barriers'[h] = bs[h + 1]
        /\ tasks' = live \cup {bs[1]}
        /\ \A k \in LaneNames : r[k] = Idle /\ \A i \in 1..Len(q[k]) : q[k][i].epoch > p
    BY <1>2, <1>f DEF FirstBarrier, Facts
  <2>2. \A k \in LaneNames : \A i \in 1..Len(q[k]) : Blocked(q, bs, live, q[k][i].ticket, q[k][i].job)
    <3>1. ASSUME NEW k \in LaneNames, NEW i \in 1..Len(q[k]), i = 1 PROVE q[k][1].epoch # p
      <4>1. q[k][1].epoch > p /\ p \in Nat
        BY <2>1, <3>1, <1>f DEF Facts
      <4>2. QED BY <4>1
    <3>2. QED BY <3>1, <1>p
  <2>3. \A h \in 1..Len(bs) : Blocked(q, bs, live, bs[h].ticket, bs[h].job) <=> h # 1
    BY <2>1, <1>b
  <2>4. 1 \in 1..Len(bs) /\ \A h \in 1..Len(barriers') : h + 1 \in 1..Len(bs) /\ h + 1 # 1
    BY <2>1
  <2>5. \A h \in 1..Len(bs) : h # 1 => h - 1 \in 1..Len(barriers') /\ barriers'[h - 1] = bs[h]
    BY <2>1
  <2>6. Waits(queue', barriers', m, j) => Waits(q, bs, m, j) /\ Blocked(q, bs, live, m, j)
    BY <2>1, <2>2, <2>3, <2>4 DEF Waits
  <2>7. Waits(q, bs, m, j) /\ Blocked(q, bs, live, m, j) => Waits(queue', barriers', m, j)
    BY <2>1, <2>3, <2>5 DEF Waits
  <2>8. Waits(q, bs, m, j) => Waits(queue', barriers', m, j) \/ (bs[1].ticket = m /\ bs[1].job = j)
    BY <2>1, <2>5 DEF Waits
  <2>9. Runs(tasks', m, j) <=> Runs(live, m, j) \/ (bs[1].ticket = m /\ bs[1].job = j)
    BY <2>1 DEF Runs
  <2>10. bs[1].ticket = m /\ bs[1].job = j => Waits(q, bs, m, j)
    BY <2>4 DEF Waits
  <2>11. QED BY <2>6, <2>7, <2>8, <2>9, <2>10 DEF Holds
<1>3. CASE Heads(q, r, bs, b, p, live)
  <2> DEFINE Started(k) == q[k][1].ticket = m /\ q[k][1].job = j
  <2>1. /\ b = 0 /\ barriers' = bs
        /\ \A k \in LaneNames : Len(q[k]) \in Nat
        /\ \A k \in LaneNames : k \notin Ready(q, r, p) => queue'[k] = q[k]
        /\ \A k \in Ready(q, r, p) :
              /\ Len(queue'[k]) = Len(q[k]) - 1 /\ Len(q[k]) >= 1
              /\ \A i \in 1..Len(queue'[k]) : queue'[k][i] = q[k][i + 1]
        /\ tasks' = live \cup {[ticket |-> q[k][1].ticket, job |-> q[k][1].job] : k \in Ready(q, r, p)}
    BY <1>3, <1>f DEF Heads, Facts
  <2>2. \A k \in LaneNames : \A i \in 1..Len(q[k]) :
           Blocked(q, bs, live, q[k][i].ticket, q[k][i].job) <=> ~(k \in Ready(q, r, p) /\ i = 1)
    <3>1. ASSUME NEW k \in LaneNames, NEW i \in 1..Len(q[k]), i = 1
          PROVE  k \in Ready(q, r, p) <=> r[k] = Idle /\ q[k][1].epoch = p
      <4>1. q[k] \in Seq(Place) /\ q[k] # <<>>
        BY <3>1, EmptySeq DEF Sound
      <4>2. Head(q[k]) = q[k][1]
        BY <4>1, HeadTailProperties
      <4>3. QED BY <4>1, <4>2 DEF Ready, FrontIs
    <3>2. QED BY <3>1, <1>p, <2>1
  <2>3. \A h \in 1..Len(bs) : Blocked(q, bs, live, bs[h].ticket, bs[h].job)
    <3>1. ASSUME NEW h \in 1..Len(bs)
          PROVE \E k \in LaneNames : ~(r[k] = Idle /\ \A i \in 1..Len(q[k]) : q[k][i].epoch > p)
      <4>1. bs # <<>>
        BY EmptySeq, <1>f DEF Facts, Sound
      <4>2. PICK k \in LaneNames : Current(q, r, p, k)
        BY <1>3, <4>1 DEF Heads
      <4>3. CASE FrontIs(q, k, p)
        <5>1. q[k] \in Seq(Place) /\ q[k] # <<>> /\ Head(q[k]).epoch = p
          BY <4>3 DEF FrontIs, Sound
        <5>2. Head(q[k]) = q[k][1] /\ 1 \in 1..Len(q[k]) /\ p \in Nat
          BY <5>1, HeadTailProperties, LenProperties, EmptySeq, <1>f DEF Facts
        <5>3. ~(q[k][1].epoch > p)
          BY <5>1, <5>2
        <5>4. QED BY <5>2, <5>3
      <4>4. QED BY <4>2, <4>3 DEF Current
    <3>2. QED BY <3>1, <1>b
  <2>4. /\ \A k \in Ready(q, r, p) : k \in LaneNames /\ 1 \in 1..Len(q[k])
        /\ \A k \in LaneNames : \A i \in 1..Len(queue'[k]) :
              \/ i \in 1..Len(q[k]) /\ queue'[k][i] = q[k][i] /\ k \notin Ready(q, r, p)
              \/ i + 1 \in 1..Len(q[k]) /\ queue'[k][i] = q[k][i + 1] /\ i + 1 # 1
    BY <2>1 DEF Ready
  <2>5. ASSUME NEW k \in LaneNames, NEW i \in 1..Len(q[k])
        PROVE  \/ k \in Ready(q, r, p) /\ i = 1
               \/ \E h \in 1..Len(queue'[k]) : queue'[k][h] = q[k][i]
    <3>1. CASE k \notin Ready(q, r, p)
      BY <2>1, <3>1
    <3>2. CASE k \in Ready(q, r, p) /\ i # 1
      <4>1. i - 1 \in 1..Len(queue'[k]) /\ queue'[k][i - 1] = q[k][i]
        BY <2>1, <3>2
      <4>2. QED BY <4>1
    <3>3. QED BY <3>1, <3>2
  <2>6. ASSUME Waits(queue', barriers', m, j)
        PROVE  Waits(q, bs, m, j) /\ Blocked(q, bs, live, m, j)
    <3>1. ASSUME NEW k \in LaneNames, NEW i \in 1..Len(queue'[k]),
                 queue'[k][i].ticket = m, queue'[k][i].job = j
          PROVE  Waits(q, bs, m, j) /\ Blocked(q, bs, live, m, j)
      <4>1. PICK h \in 1..Len(q[k]) : queue'[k][i] = q[k][h] /\ ~(k \in Ready(q, r, p) /\ h = 1)
        BY <2>4
      <4>2. QED BY <2>2, <3>1, <4>1 DEF Waits
    <3>2. ASSUME NEW h \in 1..Len(barriers'), barriers'[h].ticket = m, barriers'[h].job = j
          PROVE  Waits(q, bs, m, j) /\ Blocked(q, bs, live, m, j)
      BY <2>1, <2>3, <3>2 DEF Waits
    <3>3. QED BY <2>6, <3>1, <3>2 DEF Waits
  <2>7. ASSUME Waits(q, bs, m, j)
        PROVE  Waits(queue', barriers', m, j) \/ \E k \in Ready(q, r, p) : Started(k)
    <3>1. ASSUME NEW k \in LaneNames, NEW i \in 1..Len(q[k]), q[k][i].ticket = m, q[k][i].job = j
          PROVE  Waits(queue', barriers', m, j) \/ \E l \in Ready(q, r, p) : Started(l)
      <4>1. CASE k \in Ready(q, r, p) /\ i = 1
        BY <3>1, <4>1
      <4>2. CASE \E h \in 1..Len(queue'[k]) : queue'[k][h] = q[k][i]
        BY <3>1, <4>2 DEF Waits
      <4>3. QED BY <2>5, <4>1, <4>2
    <3>2. ASSUME NEW h \in 1..Len(bs), bs[h].ticket = m, bs[h].job = j
          PROVE  Waits(queue', barriers', m, j)
      BY <2>1, <3>2 DEF Waits
    <3>3. QED BY <2>7, <3>1, <3>2 DEF Waits
  <2>8. ASSUME NEW k \in Ready(q, r, p), Started(k)
        PROVE  Waits(q, bs, m, j) /\ ~Blocked(q, bs, live, m, j)
    BY <2>2, <2>4, <2>8 DEF Waits
  <2>9. Runs(tasks', m, j) <=> Runs(live, m, j) \/ \E k \in Ready(q, r, p) : Started(k)
    <3> DEFINE new == {[ticket |-> q[k][1].ticket, job |-> q[k][1].job] : k \in Ready(q, r, p)}
    <3>1. (\E t \in new : t.ticket = m /\ t.job = j) <=> \E k \in Ready(q, r, p) : Started(k)
      <4>1. ASSUME NEW k \in Ready(q, r, p), Started(k)
            PROVE  \E t \in new : t.ticket = m /\ t.job = j
        <5>1. [ticket |-> q[k][1].ticket, job |-> q[k][1].job] \in new
          OBVIOUS
        <5>2. QED BY <5>1, <4>1
      <4>2. ASSUME NEW t \in new, t.ticket = m, t.job = j
            PROVE  \E k \in Ready(q, r, p) : Started(k)
        <5>1. PICK k \in Ready(q, r, p) : t = [ticket |-> q[k][1].ticket, job |-> q[k][1].job]
          OBVIOUS
        <5>2. Started(k)
          BY <5>1, <4>2
        <5>3. QED BY <5>2
      <4>3. QED BY <4>1, <4>2
    <3>2. tasks' = live \cup new
      BY <2>1
    <3> HIDE DEF new
    <3>3. QED BY <3>1, <3>2 DEF Runs
  <2>10. QED BY <2>6, <2>7, <2>8, <2>9 DEF Holds
<1>4. QED BY <1>1, <1>2, <1>3, Starts

\* Whatever starts, the places keep their order and no ticket is shared.
LEMMA StartOrdered ==
    ASSUME NEW q, NEW r, NEW bs, NEW b, NEW p, NEW s, NEW n, NEW live,
           Sound(q, r, bs, b, p, s, n, live), Ordered(q, r, bs, b, p, live),
           StartFrom(q, r, bs, b, p, live)
    PROVE  Ordered(queue', running', barriers', barrier', p, tasks')
<1>f. /\ Facts(q, r, bs, b, p, s, n, live) /\ p \in Nat /\ b \in Nat /\ Len(bs) \in Nat
      /\ \A k \in LaneNames : Len(q[k]) \in Nat
      /\ InOrder(q, r, bs, b, p) /\ RunsInLane(r, b, live)
  <2>1. Facts(q, r, bs, b, p, s, n, live)
    BY SoundFacts
  <2>2. QED BY <2>1 DEF Facts, Ordered
<1>t. Tickets(queue', barriers', tasks')
  BY StartTakes DEF Ordered, Tickets
<1>1. CASE StartsNothing(q, r, bs, b, live)
  BY <1>1 DEF StartsNothing, Ordered
<1>2. CASE FirstBarrier(q, r, bs, b, p, live)
  <2>1. /\ b = 0 /\ queue' = q /\ running' = r /\ Len(bs) >= 1 /\ 1 \in 1..Len(bs)
        /\ Len(barriers') = Len(bs) - 1
        /\ \A h \in 1..Len(barriers') : h + 1 \in 1..Len(bs) /\ barriers'[h] = bs[h + 1]
        /\ barrier' = bs[1].ticket /\ barrier' # 0 /\ tasks' = live \cup {bs[1]}
        /\ \A k \in LaneNames : r[k] = Idle /\ \A i \in 1..Len(q[k]) : q[k][i].epoch > p
    BY <1>2, <1>f DEF FirstBarrier
  <2>2. \A h \in 1..Len(barriers') : Number(barrier', p, h) = Number(b, p, h + 1)
    BY <2>1, <1>f DEF Number
  <2>3. ASSUME NEW k \in LaneNames, NEW i \in 1..Len(q[k]) PROVE barrier' < q[k][i].ticket
    <3>1. q[k][i].epoch > p /\ q[k][i].epoch \in p..s /\ s \in Nat
      BY <2>1, <1>f DEF Facts
    <3>2. ~(q[k][i].epoch < Number(b, p, 1))
      BY <3>1, <2>1, <1>f DEF Number
    <3>3. QED BY <3>2, <2>1, <1>f DEF InOrder
  <2>4. ASSUME NEW k \in LaneNames, NEW i \in 1..Len(q[k])
        PROVE  /\ LaneOf[q[k][i].job] = k
               /\ \A j \in 1..Len(q[k]) : i < j => q[k][i].ticket < q[k][j].ticket
               /\ \A h \in 1..Len(barriers') :
                     IF q[k][i].epoch < Number(barrier', p, h)
                     THEN q[k][i].ticket < barriers'[h].ticket
                     ELSE barriers'[h].ticket < q[k][i].ticket
    <3>1. ASSUME NEW h \in 1..Len(barriers')
          PROVE  IF q[k][i].epoch < Number(barrier', p, h)
                 THEN q[k][i].ticket < barriers'[h].ticket
                 ELSE barriers'[h].ticket < q[k][i].ticket
      <4>1. /\ h + 1 \in 1..Len(bs) /\ barriers'[h] = bs[h + 1]
            /\ Number(barrier', p, h) = Number(b, p, h + 1)
        BY <2>1, <2>2
      <4>2. IF q[k][i].epoch < Number(b, p, h + 1)
            THEN q[k][i].ticket < bs[h + 1].ticket
            ELSE bs[h + 1].ticket < q[k][i].ticket
        BY <4>1, <1>f DEF InOrder
      <4>3. QED BY <4>1, <4>2
    <3>2. QED BY <3>1, <1>f DEF InOrder
  <2>5. \A h \in 1..Len(barriers') :
          /\ LaneOf[barriers'[h].job] = Barrier
          /\ \A j \in 1..Len(barriers') : h < j => barriers'[h].ticket < barriers'[j].ticket
          /\ barrier' < barriers'[h].ticket
    <3>1. ASSUME NEW h \in 1..Len(barriers'), NEW j \in 1..Len(barriers'), h < j
          PROVE  barriers'[h].ticket < barriers'[j].ticket
      <4>1. PICK g \in 1..Len(bs), l \in 1..Len(bs) : g < l /\ barriers'[h] = bs[g] /\ barriers'[j] = bs[l]
        <5>1. h + 1 < j + 1 /\ h + 1 \in 1..Len(bs) /\ j + 1 \in 1..Len(bs)
              /\ barriers'[h] = bs[h + 1] /\ barriers'[j] = bs[j + 1]
          BY <2>1, <3>1
        <5>2. QED BY <5>1
      <4>2. QED BY <4>1, <2>1, <1>f DEF InOrder
    <3>2. ASSUME NEW h \in 1..Len(barriers')
          PROVE  LaneOf[barriers'[h].job] = Barrier /\ barrier' < barriers'[h].ticket
      <4>1. PICK g \in 1..Len(bs) : 1 < g /\ barriers'[h] = bs[g]
        <5>1. 1 < h + 1 /\ h + 1 \in 1..Len(bs) /\ barriers'[h] = bs[h + 1]
          BY <2>1
        <5>2. QED BY <5>1
      <4>2. QED BY <4>1, <2>1, <1>f DEF InOrder
    <3>3. QED BY <3>1, <3>2
  <2>6. InOrder(queue', running', barriers', barrier', p)
    BY <2>1, <2>3, <2>4, <2>5 DEF InOrder
  <2>7. RunsInLane(running', barrier', tasks')
    <3>1. LaneOf[bs[1].job] = Barrier /\ Barrier \notin LaneNames
      BY <2>1, <1>f DEF InOrder, LaneNames
    <3>2. \A t \in live : LaneOf[t.job] # Barrier
      BY <2>1, <1>f DEF RunsInLane, Facts
    <3>3. QED BY <2>1, <3>1, <3>2, <1>f DEF RunsInLane
  <2>8. QED BY <1>t, <2>6, <2>7 DEF Ordered
<1>3. CASE Heads(q, r, bs, b, p, live)
  <2>1. /\ b = 0 /\ barriers' = bs /\ barrier' = 0
        /\ \A k \in LaneNames : k \notin Ready(q, r, p) => queue'[k] = q[k] /\ running'[k] = r[k]
        /\ \A k \in Ready(q, r, p) :
              /\ k \in LaneNames /\ 1 \in 1..Len(q[k])
              /\ Len(queue'[k]) = Len(q[k]) - 1
              /\ \A i \in 1..Len(queue'[k]) : i + 1 \in 1..Len(q[k]) /\ queue'[k][i] = q[k][i + 1]
              /\ r[k] = Idle /\ q[k][1].epoch = p
              /\ running'[k].ticket = q[k][1].ticket /\ running'[k] # Idle
        /\ tasks' = live \cup {[ticket |-> q[k][1].ticket, job |-> q[k][1].job] : k \in Ready(q, r, p)}
    <3>1. \A k \in Ready(q, r, p) :
              /\ k \in LaneNames /\ Len(q[k]) \in Nat /\ Len(q[k]) >= 1
              /\ Len(queue'[k]) = Len(q[k]) - 1
              /\ \A i \in 1..Len(queue'[k]) : queue'[k][i] = q[k][i + 1]
      BY <1>3, <1>f DEF Heads, Ready
    <3>2. \A k \in Ready(q, r, p) : \A i \in 1..Len(queue'[k]) : i + 1 \in 1..Len(q[k])
      BY <3>1
    <3>3. \A k \in Ready(q, r, p) : 1 \in 1..Len(q[k])
      BY <3>1
    <3>4. QED BY <1>3, <3>1, <3>2, <3>3 DEF Heads
  <2>2. ASSUME NEW k \in LaneNames, NEW i \in 1..Len(queue'[k])
        PROVE  /\ LaneOf[queue'[k][i].job] = k
               /\ \A j \in 1..Len(queue'[k]) : i < j => queue'[k][i].ticket < queue'[k][j].ticket
               /\ running'[k] # Idle => running'[k].ticket < queue'[k][i].ticket
               /\ \A h \in 1..Len(bs) :
                     IF queue'[k][i].epoch < Number(b, p, h)
                     THEN queue'[k][i].ticket < bs[h].ticket
                     ELSE bs[h].ticket < queue'[k][i].ticket
    <3>1. CASE k \notin Ready(q, r, p)
      BY <2>1, <2>2, <3>1, <1>f DEF InOrder
    <3>2. CASE k \in Ready(q, r, p)
      <4>1. i + 1 \in 1..Len(q[k]) /\ queue'[k][i] = q[k][i + 1] /\ 1 < i + 1 /\ 1 \in 1..Len(q[k])
        BY <2>1, <2>2, <3>2
      <4>2. ASSUME NEW j \in 1..Len(queue'[k]), i < j PROVE queue'[k][i].ticket < queue'[k][j].ticket
        <5>1. j + 1 \in 1..Len(q[k]) /\ queue'[k][j] = q[k][j + 1] /\ i + 1 < j + 1
          BY <2>1, <2>2, <3>2, <4>2
        <5>2. QED BY <4>1, <5>1, <1>f DEF InOrder
      <4>3. running'[k].ticket < queue'[k][i].ticket
        BY <2>1, <3>2, <4>1, <1>f DEF InOrder
      <4>4. QED BY <4>1, <4>2, <4>3, <1>f DEF InOrder
    <3>3. QED BY <3>1, <3>2
  <2>3. ASSUME NEW h \in 1..Len(bs)
        PROVE  /\ LaneOf[bs[h].job] = Barrier
               /\ \A j \in 1..Len(bs) : h < j => bs[h].ticket < bs[j].ticket
               /\ \A k \in LaneNames : running'[k] # Idle => running'[k].ticket < bs[h].ticket
    <3>1. ASSUME NEW k \in Ready(q, r, p) PROVE running'[k].ticket < bs[h].ticket
      <4>1. q[k][1].epoch < Number(b, p, h) /\ 1 \in 1..Len(q[k]) /\ k \in LaneNames
        BY <2>1, <1>f DEF Number
      <4>2. QED BY <4>1, <2>1, <1>f DEF InOrder
    <3>2. QED BY <2>1, <3>1, <1>f DEF InOrder
  <2>4. InOrder(queue', running', barriers', barrier', p)
    BY <2>1, <2>2, <2>3 DEF InOrder
  <2>5. RunsInLane(running', barrier', tasks')
    <3> DEFINE new == {[ticket |-> q[k][1].ticket, job |-> q[k][1].job] : k \in Ready(q, r, p)}
    <3>1. \A t \in new : \E k \in Ready(q, r, p) : t.ticket = q[k][1].ticket /\ LaneOf[t.job] = k
      <4>1. \A k \in Ready(q, r, p) : LaneOf[q[k][1].job] = k
        BY <2>1, <1>f DEF InOrder
      <4>2. QED BY <4>1
    <3>2. \A k \in Ready(q, r, p) : \E t \in new : t.ticket = q[k][1].ticket /\ LaneOf[t.job] = k
      <4>1. ASSUME NEW k \in Ready(q, r, p)
            PROVE  \E t \in new : t.ticket = q[k][1].ticket /\ LaneOf[t.job] = k
        <5>1. [ticket |-> q[k][1].ticket, job |-> q[k][1].job] \in new
          OBVIOUS
        <5>2. LaneOf[q[k][1].job] = k
          BY <2>1, <1>f DEF InOrder
        <5>3. QED BY <5>1, <5>2
      <4>2. QED BY <4>1
    <3>3. tasks' = live \cup new
      BY <2>1
    <3> HIDE DEF new
    <3>4. ASSUME NEW t \in tasks', LaneOf[t.job] \in LaneNames
          PROVE  running'[LaneOf[t.job]].ticket = t.ticket
      <4>1. CASE t \in new
        BY <2>1, <3>1, <4>1
      <4>2. CASE t \in live
        <5>1. r[LaneOf[t.job]].ticket = t.ticket /\ t.ticket # 0
          BY <3>4, <4>2, <1>f DEF RunsInLane, Facts
        <5>2. r[LaneOf[t.job]] # Idle
          BY <5>1 DEF Idle
        <5>3. QED BY <2>1, <3>4, <5>1, <5>2
      <4>3. QED BY <3>3, <4>1, <4>2
    <3>5. \A t \in tasks' : LaneOf[t.job] # Barrier
      <4>1. \A t \in live : LaneOf[t.job] # Barrier
        BY <2>1, <1>f DEF RunsInLane, Facts
      <4>2. \A k \in Ready(q, r, p) : k # Barrier
        BY <2>1 DEF LaneNames
      <4>3. QED BY <3>1, <3>3, <4>1, <4>2
    <3>6. ASSUME NEW k \in LaneNames, running'[k] # Idle
          PROVE  \E t \in tasks' : t.ticket = running'[k].ticket /\ LaneOf[t.job] = k
      <4>1. CASE k \in Ready(q, r, p)
        BY <2>1, <3>2, <3>3, <4>1
      <4>2. CASE k \notin Ready(q, r, p)
        BY <2>1, <3>3, <3>6, <4>2, <1>f DEF RunsInLane
      <4>3. QED BY <4>1, <4>2
    <3>7. QED BY <2>1, <3>4, <3>5, <3>6 DEF RunsInLane
  <2>6. QED BY <1>t, <2>4, <2>5 DEF Ordered
<1>4. QED BY <1>1, <1>2, <1>3, Starts

-----------------------------------------------------------------------------
(* The steps, before start.                                                *)

\* What waits or runs has a ticket that was handed out.
LEMMA HeldTickets ==
    ASSUME NEW q, NEW r, NEW bs, NEW b, NEW p, NEW s, NEW n, NEW live,
           Facts(q, r, bs, b, p, s, n, live)
    PROVE  \A m : \A j : Holds(q, bs, live, m, j) => m \in 1..n /\ j \in Jobs
BY DEF Facts, Holds, Waits, Runs

\* A new ticket for a job that has none.
LEMMA NewTicket ==
    ASSUME NEW q, NEW bs, NEW live, NEW q2, NEW bs2, NEW live2, NEW n \in Nat, NEW j \in Jobs,
           Tickets(q, bs, live),
           \A m \in Nat : \A i \in Jobs : Holds(q, bs, live, m, i) => m <= n /\ i # j,
           \A m \in Nat : \A i \in Jobs :
              Holds(q2, bs2, live2, m, i) => Holds(q, bs, live, m, i) \/ (m = n + 1 /\ i = j)
    PROVE  Tickets(q2, bs2, live2)
<1> SUFFICES ASSUME NEW m1 \in Nat, NEW m2 \in Nat, NEW i1 \in Jobs, NEW i2 \in Jobs,
                    Holds(q2, bs2, live2, m1, i1), Holds(q2, bs2, live2, m2, i2)
             PROVE  m1 = m2 <=> i1 = i2
  BY DEF Tickets
<1>1. (Holds(q, bs, live, m1, i1) \/ (m1 = n + 1 /\ i1 = j))
      /\ (Holds(q, bs, live, m2, i2) \/ (m2 = n + 1 /\ i2 = j))
  OBVIOUS
<1>2. CASE Holds(q, bs, live, m1, i1) /\ Holds(q, bs, live, m2, i2)
  BY <1>2 DEF Tickets
<1>3. ~(n + 1 <= n)
  OBVIOUS
<1>4. QED BY <1>1, <1>2, <1>3

\* j has no ticket.
Holdless(j) == \A m \in Nat : ~Holds(queue, barriers, tasks, m, j)

\* A job with a place of its own in its lane keeps the order.
LEMMA LongerOrdered ==
    ASSUME LanesSound, LanesOrdered, NEW j \in Jobs, LaneOf[j] \in LaneNames, Holdless(j)
    PROVE  /\ Ordered(Longer(j), running, barriers, barrier, passed, tasks)
           /\ \A m \in Nat : \A i \in Jobs :
                 Waits(Longer(j), barriers, m, i)
                   <=> Waits(queue, barriers, m, i) \/ (m = next + 1 /\ i = j)
<1> DEFINE k == LaneOf[j]
           q == Longer(j)
           l == Len(queue[k])
<1>f. /\ Facts(queue, running, barriers, barrier, passed, sent, next, tasks)
      /\ InOrder(queue, running, barriers, barrier, passed)
      /\ RunsInLane(running, barrier, tasks) /\ Tickets(queue, barriers, tasks)
  BY SoundFacts DEF LanesSound, LanesOrdered, Ordered
<1>n. /\ next \in Nat /\ sent \in Nat /\ passed \in Nat /\ barrier \in Nat /\ barrier <= next
      /\ Len(barriers) \in Nat /\ sent = Number(barrier, passed, Len(barriers)) /\ l \in Nat
      /\ k \in LaneNames
  BY <1>f DEF Facts
<1>1. /\ \A h \in LaneNames : h # k => q[h] = queue[h]
      /\ Len(q[k]) = l + 1
      /\ \A i \in 1..l : q[k][i] = queue[k][i]
      /\ q[k][l + 1] = NewPlace(j)
  <2>1. queue \in [LaneNames -> Seq(Place)] /\ queue[k] \in Seq(Place) /\ NewPlace(j) \in Place
    <3>1. queue \in [LaneNames -> Seq(Place)]
      BY DEF LanesSound, Sound
    <3>2. NewPlace(j) \in Place
      BY <1>n DEF NewPlace, Place
    <3>3. QED BY <3>1, <3>2, <1>n
  <2>2. q[k] = Append(queue[k], NewPlace(j)) /\ \A h \in LaneNames : h # k => q[h] = queue[h]
    BY <2>1, <1>n DEF Longer
  <2>3. QED BY <2>1, <2>2, AppendProperties
<1> HIDE DEF q, l
<1>2. NewPlace(j).ticket = next + 1 /\ NewPlace(j).epoch = sent /\ NewPlace(j).job = j
  BY DEF NewPlace
<1>3. /\ \A i \in 1..Len(q[k]) : (i \in 1..l /\ q[k][i] = queue[k][i]) \/ (i = l + 1 /\ q[k][i] = NewPlace(j))
      /\ \A i \in 1..l : i \in 1..Len(q[k]) /\ q[k][i] = queue[k][i]
      /\ l + 1 \in 1..Len(q[k])
  BY <1>1, <1>n
<1>4. \A m \in Nat : \A i \in Jobs :
         Waits(q, barriers, m, i) <=> Waits(queue, barriers, m, i) \/ (m = next + 1 /\ i = j)
  <2> SUFFICES ASSUME NEW m \in Nat, NEW i \in Jobs
               PROVE  Waits(q, barriers, m, i) <=> Waits(queue, barriers, m, i) \/ (m = next + 1 /\ i = j)
    OBVIOUS
  <2> DEFINE Here(x, h) == \E g \in 1..Len(x[h]) : x[h][g].ticket = m /\ x[h][g].job = i
  <2>1. \A h \in LaneNames : h # k => (Here(q, h) <=> Here(queue, h))
    BY <1>1
  <2>2. Here(q, k) <=> Here(queue, k) \/ (m = next + 1 /\ i = j)
    <3>1. Here(q, k) => Here(queue, k) \/ (m = next + 1 /\ i = j)
      BY <1>2, <1>3 DEF l
    <3>2. Here(queue, k) => Here(q, k)
      BY <1>3 DEF l
    <3>3. m = next + 1 /\ i = j => Here(q, k)
      BY <1>1, <1>2, <1>3
    <3>4. QED BY <3>1, <3>2, <3>3
  <2>3. \A x : Waits(x, barriers, m, i)
                 <=> (\E h \in LaneNames : Here(x, h))
                       \/ \E h \in 1..Len(barriers) : barriers[h].ticket = m /\ barriers[h].job = i
    BY DEF Waits
  <2> HIDE DEF Here
  <2>4. QED BY <2>1, <2>2, <2>3, <1>n
<1>5. Tickets(q, barriers, tasks)
  <2>1. \A m \in Nat : \A i \in Jobs : Holds(queue, barriers, tasks, m, i) => m <= next /\ i # j
    BY <1>f, <1>n, HeldTickets DEF Holdless
  <2>2. \A m \in Nat : \A i \in Jobs :
           Holds(q, barriers, tasks, m, i)
             => Holds(queue, barriers, tasks, m, i) \/ (m = next + 1 /\ i = j)
    BY <1>4 DEF Holds
  <2>3. QED BY <2>1, <2>2, <1>f, <1>n, NewTicket
<1>6. /\ \A h \in 1..Len(barriers) : barriers[h].ticket < next + 1
      /\ \A i \in 1..l : queue[k][i].ticket < next + 1
      /\ \A h \in 1..Len(barriers) : ~(sent < Number(barrier, passed, h))
      /\ barrier < next + 1
      /\ running[k] # Idle => running[k].ticket < next + 1
  <2>1. /\ \A h \in 1..Len(barriers) : barriers[h].ticket \in 1..next
        /\ \A i \in 1..l : queue[k][i].ticket \in 1..next
        /\ running[k] # Idle => running[k].ticket \in 1..next
    BY <1>f, <1>n DEF Facts, l
  <2>2. QED BY <2>1, <1>n DEF Number
<1>7. InOrder(q, running, barriers, barrier, passed)
  <2>1. ASSUME NEW h \in LaneNames, NEW i \in 1..Len(q[h])
        PROVE  /\ LaneOf[q[h][i].job] = h
               /\ \A g \in 1..Len(q[h]) : i < g => q[h][i].ticket < q[h][g].ticket
               /\ running[h] # Idle => running[h].ticket < q[h][i].ticket
               /\ barrier # 0 => barrier < q[h][i].ticket
               /\ \A g \in 1..Len(barriers) :
                     IF q[h][i].epoch < Number(barrier, passed, g)
                     THEN q[h][i].ticket < barriers[g].ticket
                     ELSE barriers[g].ticket < q[h][i].ticket
    <3>1. CASE h # k
      BY <1>1, <1>f, <2>1, <3>1 DEF InOrder
    <3>2. CASE h = k /\ i \in 1..l /\ q[k][i] = queue[k][i]
      <4>1. \A g \in 1..Len(q[k]) : i < g => q[k][i].ticket < q[k][g].ticket
        <5>1. ASSUME NEW g \in 1..Len(q[k]), i < g PROVE q[k][i].ticket < q[k][g].ticket
          <6>1. CASE g \in 1..l /\ q[k][g] = queue[k][g]
            BY <3>2, <5>1, <6>1, <1>f, <1>n DEF InOrder, l
          <6>2. CASE q[k][g] = NewPlace(j)
            BY <3>2, <6>2, <1>2, <1>6
          <6>3. QED BY <1>3, <5>1, <6>1, <6>2
        <5>2. QED BY <5>1
      <4>2. QED BY <3>2, <4>1, <1>f, <1>n DEF InOrder, l
    <3>3. CASE h = k /\ i = l + 1 /\ q[k][i] = NewPlace(j)
      <4>1. \A g \in 1..Len(q[k]) : ~(i < g)
        BY <1>1, <1>n, <3>3
      <4>2. QED BY <3>3, <4>1, <1>2, <1>6
    <3>4. QED BY <1>3, <2>1, <3>1, <3>2, <3>3
  <2>2. QED BY <2>1, <1>f DEF InOrder
<1>8. QED BY <1>4, <1>5, <1>7, <1>f DEF Ordered, q

\* A barrier at the end of the barriers keeps the order.
LEMMA AppendedOrdered ==
    ASSUME LanesSound, LanesOrdered, NEW j \in Jobs, LaneOf[j] = Barrier, Holdless(j)
    PROVE  /\ Ordered(queue, running, Append(barriers, NewBarrier(j)), barrier, passed, tasks)
           /\ \A m \in Nat : \A i \in Jobs :
                 Waits(queue, Append(barriers, NewBarrier(j)), m, i)
                   <=> Waits(queue, barriers, m, i) \/ (m = next + 1 /\ i = j)
<1> DEFINE bs == Append(barriers, NewBarrier(j))
           l == Len(barriers)
<1>f. /\ Facts(queue, running, barriers, barrier, passed, sent, next, tasks)
      /\ InOrder(queue, running, barriers, barrier, passed)
      /\ RunsInLane(running, barrier, tasks) /\ Tickets(queue, barriers, tasks)
  BY SoundFacts DEF LanesSound, LanesOrdered, Ordered
<1>n. /\ next \in Nat /\ sent \in Nat /\ passed \in Nat /\ barrier \in Nat /\ barrier <= next
      /\ l \in Nat /\ sent = Number(barrier, passed, l)
  BY <1>f DEF Facts
<1>1. Len(bs) = l + 1 /\ (\A i \in 1..l : bs[i] = barriers[i]) /\ bs[l + 1] = NewBarrier(j)
  <2>1. barriers \in Seq(Task) /\ NewBarrier(j) \in Task
    BY <1>n DEF LanesSound, Sound, NewBarrier, Task
  <2>2. QED BY <2>1, AppendProperties
<1> HIDE DEF bs, l
<1>2. NewBarrier(j).ticket = next + 1 /\ NewBarrier(j).job = j
  BY DEF NewBarrier
<1>3. /\ \A i \in 1..Len(bs) : (i \in 1..l /\ bs[i] = barriers[i]) \/ (i = l + 1 /\ bs[i] = NewBarrier(j))
      /\ \A i \in 1..l : i \in 1..Len(bs) /\ bs[i] = barriers[i]
      /\ l + 1 \in 1..Len(bs)
  BY <1>1, <1>n
<1>4. \A m \in Nat : \A i \in Jobs :
         Waits(queue, bs, m, i) <=> Waits(queue, barriers, m, i) \/ (m = next + 1 /\ i = j)
  <2> SUFFICES ASSUME NEW m \in Nat, NEW i \in Jobs
               PROVE  Waits(queue, bs, m, i) <=> Waits(queue, barriers, m, i) \/ (m = next + 1 /\ i = j)
    OBVIOUS
  <2> DEFINE Here(x) == \E g \in 1..Len(x) : x[g].ticket = m /\ x[g].job = i
  <2>1. Here(bs) => Here(barriers) \/ (m = next + 1 /\ i = j)
    BY <1>2, <1>3 DEF l
  <2>2. Here(barriers) => Here(bs)
    BY <1>3 DEF l
  <2>3. m = next + 1 /\ i = j => Here(bs)
    BY <1>1, <1>2, <1>3
  <2>4. QED BY <2>1, <2>2, <2>3 DEF Waits
<1>5. Tickets(queue, bs, tasks)
  <2>1. \A m \in Nat : \A i \in Jobs : Holds(queue, barriers, tasks, m, i) => m <= next /\ i # j
    BY <1>f, <1>n, HeldTickets DEF Holdless
  <2>2. \A m \in Nat : \A i \in Jobs :
           Holds(queue, bs, tasks, m, i)
             => Holds(queue, barriers, tasks, m, i) \/ (m = next + 1 /\ i = j)
    BY <1>4 DEF Holds
  <2>3. QED BY <2>1, <2>2, <1>f, <1>n, NewTicket
<1>6. ASSUME NEW k \in LaneNames
      PROVE  /\ running[k] # Idle => running[k].ticket < next + 1
             /\ \A i \in 1..Len(queue[k]) : /\ queue[k][i].ticket < next + 1
                                            /\ queue[k][i].epoch < Number(barrier, passed, l + 1)
  <2>1. /\ \A i \in 1..Len(queue[k]) : queue[k][i].ticket \in 1..next /\ queue[k][i].epoch \in passed..sent
        /\ running[k] # Idle => running[k].ticket \in 1..next
    BY <1>f DEF Facts
  <2>2. Number(barrier, passed, l + 1) = sent + 1
    BY <1>n DEF Number
  <2>3. QED BY <2>1, <2>2, <1>n
<1>7. /\ \A h \in 1..l : barriers[h].ticket < next + 1
      /\ barrier < next + 1
  <2>1. \A h \in 1..l : barriers[h].ticket \in 1..next
    BY <1>f DEF Facts, l
  <2>2. QED BY <2>1, <1>n
<1>8. InOrder(queue, running, bs, barrier, passed)
  <2>1. ASSUME NEW k \in LaneNames, NEW i \in 1..Len(queue[k]), NEW h \in 1..Len(bs)
        PROVE  IF queue[k][i].epoch < Number(barrier, passed, h)
               THEN queue[k][i].ticket < bs[h].ticket
               ELSE bs[h].ticket < queue[k][i].ticket
    <3>1. CASE h \in 1..l /\ bs[h] = barriers[h]
      BY <3>1, <1>f DEF InOrder, l
    <3>2. CASE h = l + 1 /\ bs[h] = NewBarrier(j)
      BY <3>2, <1>2, <1>6
    <3>3. QED BY <1>3, <2>1, <3>1, <3>2
  <2>2. ASSUME NEW h \in 1..Len(bs)
        PROVE  /\ LaneOf[bs[h].job] = Barrier
               /\ \A g \in 1..Len(bs) : h < g => bs[h].ticket < bs[g].ticket
               /\ \A k \in LaneNames : running[k] # Idle => running[k].ticket < bs[h].ticket
               /\ barrier # 0 => barrier < bs[h].ticket
    <3>1. CASE h \in 1..l /\ bs[h] = barriers[h]
      <4>1. ASSUME NEW g \in 1..Len(bs), h < g PROVE bs[h].ticket < bs[g].ticket
        <5>1. CASE g \in 1..l /\ bs[g] = barriers[g]
          BY <3>1, <4>1, <5>1, <1>f DEF InOrder, l
        <5>2. CASE bs[g] = NewBarrier(j)
          BY <3>1, <5>2, <1>2, <1>7
        <5>3. QED BY <1>3, <4>1, <5>1, <5>2
      <4>2. QED BY <3>1, <4>1, <1>f DEF InOrder, l
    <3>2. CASE h = l + 1 /\ bs[h] = NewBarrier(j)
      <4>1. \A g \in 1..Len(bs) : ~(h < g)
        BY <1>1, <1>n, <3>2
      <4>2. QED BY <3>2, <4>1, <1>2, <1>6, <1>7
    <3>3. QED BY <1>3, <2>2, <3>1, <3>2
  <2>3. QED BY <2>1, <2>2, <1>f DEF InOrder
<1>9. QED BY <1>4, <1>5, <1>8, <1>f DEF Ordered, bs

\* What is left when a task has ended.
LEMMA EndedTickets ==
    ASSUME NEW t \in tasks, LanesSound, LanesOrdered
    PROVE  /\ Tickets(queue, barriers, tasks \ {t})
           /\ \A m \in Nat : \A i \in Jobs :
                 /\ Runs(tasks \ {t}, m, i) <=> Runs(tasks, m, i) /\ i # t.job
                 /\ Runs(tasks \ {t}, m, i) => m # t.ticket
<1>1. Tickets(queue, barriers, tasks) /\ t.job \in Jobs /\ t.ticket \in Nat
      /\ \A u \in tasks : u \in Task /\ u.ticket \in Nat /\ u.job \in Jobs
  BY SoundFacts DEF LanesSound, LanesOrdered, Ordered, Facts
<1>2. ASSUME NEW u \in tasks, u.job = t.job \/ u.ticket = t.ticket PROVE u = t
  <2>1. Holds(queue, barriers, tasks, u.ticket, u.job) /\ Holds(queue, barriers, tasks, t.ticket, t.job)
    BY DEF Holds, Runs
  <2>2. u.job = t.job /\ u.ticket = t.ticket
    BY <1>1, <1>2, <2>1 DEF Tickets
  <2>3. QED BY <1>1, <2>2 DEF Task
<1>3. \A m \in Nat : \A i \in Jobs :
         /\ Runs(tasks \ {t}, m, i) <=> Runs(tasks, m, i) /\ i # t.job
         /\ Runs(tasks \ {t}, m, i) => m # t.ticket
  BY <1>2 DEF Runs
<1>4. Tickets(queue, barriers, tasks \ {t})
  BY <1>1, <1>3 DEF Tickets, Holds
<1>5. QED BY <1>3, <1>4

\* The end of a barrier keeps the order.
LEMMA PassedOrdered ==
    ASSUME LanesSound, LanesOrdered, NEW t \in tasks, barrier = t.ticket
    PROVE  Ordered(queue, running, barriers, 0, passed + 1, tasks \ {t})
<1>f. /\ Facts(queue, running, barriers, barrier, passed, sent, next, tasks)
      /\ InOrder(queue, running, barriers, barrier, passed)
      /\ RunsInLane(running, barrier, tasks) /\ Tickets(queue, barriers, tasks)
  BY SoundFacts DEF LanesSound, LanesOrdered, Ordered
<1>n. passed \in Nat /\ Len(barriers) \in Nat /\ barrier # 0 /\ t.ticket \in Nat
      /\ \A k \in LaneNames : running[k] = Idle
  BY <1>f DEF Facts
<1>1. \A h \in 1..Len(barriers) : Number(0, passed + 1, h) = Number(barrier, passed, h)
  BY <1>n DEF Number
<1>2. InOrder(queue, running, barriers, 0, passed + 1)
  BY <1>1, <1>f DEF InOrder
<1>3. RunsInLane(running, 0, tasks \ {t})
  <2>1. ASSUME NEW u \in tasks \ {t}, LaneOf[u.job] = Barrier PROVE FALSE
    <3>1. u.ticket = t.ticket /\ u.ticket \in Nat /\ u.job \in Jobs
      BY <2>1, <1>f DEF RunsInLane, Facts
    <3>2. Runs(tasks \ {t}, u.ticket, u.job)
      BY DEF Runs
    <3>3. QED BY <3>1, <3>2, EndedTickets
  <2>2. QED BY <2>1, <1>f, <1>n DEF RunsInLane
<1>4. QED BY <1>2, <1>3, EndedTickets DEF Ordered

\* The end of a lane's job or of a read keeps the order.
LEMMA FreedOrdered ==
    ASSUME LanesSound, LanesOrdered, NEW t \in tasks, barrier # t.ticket
    PROVE  Ordered(queue, Freed(t), barriers, barrier, passed, tasks \ {t})
<1>f. /\ Facts(queue, running, barriers, barrier, passed, sent, next, tasks)
      /\ InOrder(queue, running, barriers, barrier, passed)
      /\ RunsInLane(running, barrier, tasks)
  BY SoundFacts DEF LanesSound, LanesOrdered, Ordered
<1>1. \A k \in LaneNames : Freed(t)[k] # Idle =>
         Freed(t)[k] = running[k] /\ running[k] # Idle /\ running[k].ticket # t.ticket
  BY DEF Freed
<1>2. InOrder(queue, Freed(t), barriers, barrier, passed)
  BY <1>1, <1>f DEF InOrder
<1>3. \A u \in tasks \ {t} : u.ticket # t.ticket
  <2>1. ASSUME NEW u \in tasks \ {t} PROVE u.ticket # t.ticket
    <3>1. u.ticket \in Nat /\ u.job \in Jobs
      BY <1>f DEF Facts
    <3>2. Runs(tasks \ {t}, u.ticket, u.job)
      BY DEF Runs
    <3>3. QED BY <3>1, <3>2, EndedTickets
  <2>2. QED BY <2>1
<1>4. RunsInLane(Freed(t), barrier, tasks \ {t})
  <2>1. ASSUME NEW u \in tasks \ {t}, LaneOf[u.job] \in LaneNames
        PROVE  Freed(t)[LaneOf[u.job]].ticket = u.ticket
    BY <2>1, <1>3, <1>f DEF RunsInLane, Freed
  <2>2. ASSUME NEW k \in LaneNames, Freed(t)[k] # Idle
        PROVE  \E u \in tasks \ {t} : u.ticket = Freed(t)[k].ticket /\ LaneOf[u.job] = k
    BY <2>2, <1>1, <1>f DEF RunsInLane
  <2>3. barrier # 0 => \E u \in tasks \ {t} : u.ticket = barrier /\ LaneOf[u.job] = Barrier
    BY <1>f DEF RunsInLane
  <2>4. QED BY <2>1, <2>2, <2>3, <1>f DEF RunsInLane
<1>5. QED BY <1>2, <1>4, EndedTickets DEF Ordered

\* A read, which starts at once, keeps the order.
LEMMA FreeOrdered ==
    ASSUME LanesSound, LanesOrdered, NEW j \in Jobs, LaneOf[j] = Free, Holdless(j)
    PROVE  /\ Ordered(queue, running, barriers, barrier, passed, tasks \cup {NewBarrier(j)})
           /\ \A m \in Nat : \A i \in Jobs :
                 Runs(tasks \cup {NewBarrier(j)}, m, i) <=> Runs(tasks, m, i) \/ (m = next + 1 /\ i = j)
<1>f. /\ Facts(queue, running, barriers, barrier, passed, sent, next, tasks)
      /\ InOrder(queue, running, barriers, barrier, passed)
      /\ RunsInLane(running, barrier, tasks) /\ Tickets(queue, barriers, tasks)
      /\ next \in Nat
  BY SoundFacts DEF LanesSound, LanesOrdered, Ordered, Facts
<1>1. NewBarrier(j).ticket = next + 1 /\ NewBarrier(j).job = j
  BY DEF NewBarrier
<1>2. \A m \in Nat : \A i \in Jobs :
         Runs(tasks \cup {NewBarrier(j)}, m, i) <=> Runs(tasks, m, i) \/ (m = next + 1 /\ i = j)
  BY <1>1 DEF Runs
<1>3. Tickets(queue, barriers, tasks \cup {NewBarrier(j)})
  <2>1. \A m \in Nat : \A i \in Jobs : Holds(queue, barriers, tasks, m, i) => m <= next /\ i # j
    BY <1>f, HeldTickets DEF Holdless
  <2>2. \A m \in Nat : \A i \in Jobs :
           Holds(queue, barriers, tasks \cup {NewBarrier(j)}, m, i)
             => Holds(queue, barriers, tasks, m, i) \/ (m = next + 1 /\ i = j)
    BY <1>2 DEF Holds
  <2>3. QED BY <2>1, <2>2, <1>f, NewTicket
<1>4. RunsInLane(running, barrier, tasks \cup {NewBarrier(j)})
  <2>1. Free \notin LaneNames /\ Free # Barrier
    BY KindsAssumption DEF LaneNames
  <2>2. QED BY <2>1, <1>1, <1>f DEF RunsInLane
<1>5. QED BY <1>2, <1>3, <1>4, <1>f DEF Ordered

\* What waits does not run.
LEMMA Exclusive ==
    ASSUME NEW q, NEW r, NEW bs, NEW b, NEW p, NEW s, NEW n, NEW live,
           Facts(q, r, bs, b, p, s, n, live), Ordered(q, r, bs, b, p, live)
    PROVE  \A m1, m2 \in Nat : \A j \in Jobs : ~(Waits(q, bs, m1, j) /\ Runs(live, m2, j))
<1> SUFFICES ASSUME NEW m1 \in Nat, NEW m2 \in Nat, NEW j \in Jobs,
                    Waits(q, bs, m1, j), Runs(live, m2, j)
             PROVE  FALSE
  OBVIOUS
<1>1. m1 = m2
  BY DEF Ordered, Tickets, Holds
<1>2. InOrder(q, r, bs, b, p) /\ RunsInLane(r, b, live)
  BY DEF Ordered
<1>3. PICK t \in live : t.ticket = m2 /\ t.job = j
  BY DEF Runs
<1>4. t.ticket \in Nat /\ t.ticket # 0
  BY DEF Facts
<1>5. ASSUME NEW k \in LaneNames, NEW i \in 1..Len(q[k]), q[k][i].ticket = m1, q[k][i].job = j
      PROVE  FALSE
  <2>1. LaneOf[j] = k
    BY <1>2, <1>5 DEF InOrder
  <2>2. r[k].ticket = m2
    BY <1>2, <1>3, <2>1 DEF RunsInLane
  <2>3. r[k] # Idle
    BY <1>3, <1>4, <2>2 DEF Idle
  <2>4. r[k].ticket < q[k][i].ticket
    BY <1>2, <2>3 DEF InOrder
  <2>5. QED BY <1>1, <1>5, <2>2, <2>4
<1>6. ASSUME NEW h \in 1..Len(bs), bs[h].ticket = m1, bs[h].job = j
      PROVE  FALSE
  <2>1. b = m2
    BY <1>2, <1>3, <1>6 DEF InOrder, RunsInLane
  <2>2. b < bs[h].ticket
    BY <1>2, <1>3, <1>4, <2>1 DEF InOrder
  <2>3. QED BY <1>1, <1>6, <2>1, <2>2
<1>7. QED BY <1>5, <1>6 DEF Waits

\* Between the operations, whatever waits is held up.
LEMMA BusyBlocked ==
    ASSUME NEW q, NEW r, NEW bs, NEW b, NEW p, NEW s, NEW n, NEW live,
           Sound(q, r, bs, b, p, s, n, live), Ordered(q, r, bs, b, p, live),
           Busy(q, r, bs, b, p)
    PROVE  \A m \in Nat : \A j \in Jobs : Waits(q, bs, m, j) => Blocked(q, bs, live, m, j)
<1>f. Facts(q, r, bs, b, p, s, n, live)
  BY SoundFacts
<1>1. ASSUME NEW k \in LaneNames, NEW i \in 1..Len(q[k])
      PROVE  Blocked(q, bs, live, q[k][i].ticket, q[k][i].job)
  <2>1. ASSUME b = 0, r[k] = Idle, i = 1, q[k][1].epoch = p PROVE FALSE
    <3>1. q[k] \in Seq(Place) /\ q[k] # <<>>
      BY <2>1, EmptySeq DEF Sound
    <3>2. Head(q[k]) = q[k][1]
      BY <3>1, HeadTailProperties
    <3>3. QED BY <2>1, <3>1, <3>2 DEF Busy, FrontIs
  <2>2. QED BY <2>1, <1>f, PlaceBlocked
<1>2. ASSUME NEW h \in 1..Len(bs)
      PROVE  Blocked(q, bs, live, bs[h].ticket, bs[h].job)
  <2>1. ASSUME b = 0, \A k \in LaneNames : r[k] = Idle PROVE FALSE
    <3>1. bs # <<>>
      BY <1>f, EmptySeq DEF Facts
    <3>2. QED BY <2>1, <3>1 DEF Busy
  <2>2. QED BY <2>1, <1>f, BarrierBlocked
<1>3. QED BY <1>1, <1>2 DEF Waits

\* The place of a waiting job, given to a newer one.
LEMMA ReplacingOrdered ==
    ASSUME LanesSound, LanesOrdered, NEW j \in Jobs, SubmitReplacing(j), Holdless(j)
    PROVE  \E n \in 1..next, old \in Jobs :
              /\ old # j /\ Waits(queue, barriers, n, old) /\ LaneOf[old] = LaneOf[j]
              /\ \E i \in 1..Len(queue[LaneOf[j]]) :
                    /\ queue[LaneOf[j]][i].ticket = n /\ queue[LaneOf[j]][i].job = old
                    /\ Same(queue[LaneOf[j]][i], j)
              /\ fate' = [fate EXCEPT ![j] = "taken", ![old] = "dropped"]
              /\ \A m \in Nat : \A i \in Jobs :
                    Waits(queue', barriers', m, i)
                      <=> (Waits(queue, barriers, m, i) /\ i # old) \/ (m = n /\ i = j)
              /\ LanesOrdered'
<1>0. PICK k \in LaneNames : k = LaneOf[j]
  BY DEF SubmitReplacing
<1>f. /\ Facts(queue, running, barriers, barrier, passed, sent, next, tasks)
      /\ InOrder(queue, running, barriers, barrier, passed)
      /\ RunsInLane(running, barrier, tasks) /\ Tickets(queue, barriers, tasks)
      /\ next \in Nat
  BY SoundFacts DEF LanesSound, LanesOrdered, Ordered, Facts
<1>1. PICK i \in 1..Len(queue[k]) :
         /\ Same(queue[k][i], j)
         /\ queue' = [queue EXCEPT ![k][i].job = j]
         /\ fate' = [fate EXCEPT ![j] = "taken", ![queue[k][i].job] = "dropped"]
  <2>1. DOMAIN queue[k] = 1..Len(queue[k])
    BY LenProperties DEF LanesSound, Sound
  <2>2. QED BY <1>0, <2>1 DEF SubmitReplacing
<1>2. UNCHANGED <<running, barriers, barrier, passed, sent, next, tasks>>
  BY DEF SubmitReplacing
<1> DEFINE n == queue[k][i].ticket
           old == queue[k][i].job
<1>3. /\ queue \in [LaneNames -> Seq(Place)]
      /\ queue[k] \in Seq(Place)
      /\ DOMAIN queue[k] = 1..Len(queue[k]) /\ Len(queue[k]) \in Nat
      /\ queue[k][i] \in Place
  BY <1>2, LenProperties, ElementOfSeq DEF LanesSound, Sound
<1> DEFINE now == [queue[k][i] EXCEPT !.job = j]
           line == [queue[k] EXCEPT ![i] = now]
<1>4. now \in Place /\ now.ticket = n /\ now.epoch = queue[k][i].epoch /\ now.job = j
  BY <1>3 DEF Place
<1> HIDE DEF now
<1>5. /\ Len(line) = Len(queue[k])
      /\ \A h \in 1..Len(queue[k]) : line[h] = IF h = i THEN now ELSE queue[k][h]
  BY <1>3, <1>4, ExceptSeq
<1>6. queue' = [queue EXCEPT ![k] = line]
  BY <1>1, <1>2, <1>3 DEF now
<1> HIDE DEF line
<1>6a. /\ \A l \in LaneNames : l # k => queue'[l] = queue[l]
       /\ queue'[k] = line
  BY <1>3, <1>6
<1>7. /\ i \in 1..Len(queue'[k])
      /\ queue'[k][i].ticket = queue[k][i].ticket
      /\ queue'[k][i].epoch = queue[k][i].epoch
      /\ queue'[k][i].job = j
  BY <1>4, <1>5, <1>6a
<1>7a. ASSUME NEW l \in LaneNames
       PROVE  /\ Len(queue'[l]) = Len(queue[l])
              /\ \A h \in 1..Len(queue[l]) : ~(l = k /\ h = i) => queue'[l][h] = queue[l][h]
  <2>1. CASE l # k
    BY <1>6a, <2>1
  <2>2. CASE l = k
    BY <1>5, <1>6a, <2>2
  <2>3. QED BY <2>1, <2>2
<1>8. n \in 1..next /\ n \in Nat /\ old \in Jobs /\ LaneOf[old] = k /\ Waits(queue, barriers, n, old)
  <2>1. queue[k][i].ticket \in 1..next /\ queue[k][i].job \in Jobs
    BY <1>f DEF Facts
  <2>2. LaneOf[queue[k][i].job] = k
    BY <1>f DEF InOrder
  <2>3. Waits(queue, barriers, n, old)
    BY DEF Waits
  <2>4. QED BY <2>1, <2>2, <2>3, <1>f
<1>9. old # j
  BY <1>8 DEF Holdless, Holds
<1> HIDE DEF n, old
<1>10. \A m \in Nat : \A x \in Jobs :
          Waits(queue', barriers', m, x)
            <=> (Waits(queue, barriers, m, x) /\ x # old) \/ (m = n /\ x = j)
  <2> SUFFICES ASSUME NEW m \in Nat, NEW x \in Jobs
               PROVE  Waits(queue', barriers', m, x)
                        <=> (Waits(queue, barriers, m, x) /\ x # old) \/ (m = n /\ x = j)
    OBVIOUS
  <2>0. Waits(queue, barriers, m, old) => m = n
    BY <1>8, <1>f DEF Tickets, Holds
  <2>1. ASSUME NEW l \in LaneNames, NEW h \in 1..Len(queue'[l]),
               queue'[l][h].ticket = m, queue'[l][h].job = x
        PROVE  (Waits(queue, barriers, m, x) /\ x # old) \/ (m = n /\ x = j)
    <3>1. CASE l = k /\ h = i
      BY <1>7, <2>1, <3>1 DEF n
    <3>2. CASE ~(l = k /\ h = i)
      <4>1. h \in 1..Len(queue[l]) /\ queue'[l][h] = queue[l][h]
        BY <1>7a, <2>1, <3>2
      <4>2. Waits(queue, barriers, m, x)
        BY <2>1, <4>1 DEF Waits
      <4>3. ASSUME x = old PROVE FALSE
        <5>1. l = k
          BY <1>8, <2>1, <4>1, <4>3, <1>f DEF InOrder
        <5>2. queue[k][h].ticket = queue[k][i].ticket /\ h # i
          BY <2>0, <2>1, <3>2, <4>1, <4>2, <4>3, <5>1 DEF n
        <5>3. h \in 1..Len(queue[k]) /\ (h < i \/ i < h)
          BY <1>3, <4>1, <5>1, <5>2
        <5>4. queue[k][h].ticket \in Nat
          BY <5>2, <1>8 DEF n
        <5>5. queue[k][h].ticket < queue[k][i].ticket \/ queue[k][i].ticket < queue[k][h].ticket
          BY <5>3, <1>f DEF InOrder
        <5>6. QED BY <5>2, <5>4, <5>5
      <4>4. QED BY <4>2, <4>3
    <3>3. QED BY <3>1, <3>2
  <2>2. ASSUME NEW h \in 1..Len(barriers'), barriers'[h].ticket = m, barriers'[h].job = x
        PROVE  Waits(queue, barriers, m, x) /\ x # old
    <3>1. LaneOf[x] = Barrier /\ k # Barrier
      BY <1>2, <2>2, <1>f DEF InOrder, LaneNames
    <3>2. QED BY <1>2, <1>8, <2>2, <3>1 DEF Waits
  <2>3. ASSUME x # old, NEW l \in LaneNames, NEW h \in 1..Len(queue[l]),
               queue[l][h].ticket = m, queue[l][h].job = x
        PROVE  Waits(queue', barriers', m, x)
    <3>1. ~(l = k /\ h = i)
      BY <2>3 DEF old
    <3>2. h \in 1..Len(queue'[l]) /\ queue'[l][h] = queue[l][h]
      BY <1>7a, <2>3, <3>1
    <3>3. QED BY <2>3, <3>2 DEF Waits
  <2>4. m = n /\ x = j => Waits(queue', barriers', m, x)
    BY <1>2, <1>7 DEF Waits, n
  <2>5. Waits(queue, barriers, m, x) /\ x # old => Waits(queue', barriers', m, x)
    BY <2>3, <1>2 DEF Waits
  <2>6. Waits(queue', barriers', m, x) => (Waits(queue, barriers, m, x) /\ x # old) \/ (m = n /\ x = j)
    BY <2>1, <2>2 DEF Waits
  <2>7. QED BY <2>4, <2>5, <2>6
<1>11. Tickets(queue', barriers', tasks')
  <2>1. \A m \in Nat : ~Runs(tasks, m, old)
    BY <1>8, <1>f, Exclusive DEF LanesOrdered
  <2>2. \A m \in Nat : \A x \in Jobs :
          Holds(queue', barriers', tasks', m, x)
            => \/ Holds(queue, barriers, tasks, m, x) /\ x # old
               \/ m = n /\ x = j
    BY <1>10, <1>2, <2>1 DEF Holds
  <2>3. \A m \in Nat : \A x \in Jobs :
          Holds(queue, barriers, tasks, m, x) /\ x # old => m # n /\ x # j
    BY <1>8, <1>f DEF Tickets, Holds, Holdless
  <2>4. \A m1, m2 \in Nat : \A x1, x2 \in Jobs :
          Holds(queue, barriers, tasks, m1, x1) /\ Holds(queue, barriers, tasks, m2, x2)
            => (m1 = m2 <=> x1 = x2)
    BY <1>f DEF Tickets
  <2> SUFFICES ASSUME NEW m1 \in Nat, NEW m2 \in Nat, NEW x1 \in Jobs, NEW x2 \in Jobs,
                      Holds(queue', barriers', tasks', m1, x1),
                      Holds(queue', barriers', tasks', m2, x2)
               PROVE  m1 = m2 <=> x1 = x2
    BY DEF Tickets
  <2>5. (Holds(queue, barriers, tasks, m1, x1) /\ x1 # old) \/ (m1 = n /\ x1 = j)
    BY <2>2
  <2>6. (Holds(queue, barriers, tasks, m2, x2) /\ x2 # old) \/ (m2 = n /\ x2 = j)
    BY <2>2
  <2>7. QED BY <2>3, <2>4, <2>5, <2>6
<1>12. InOrder(queue', running', barriers', barrier', passed')
  <2>1. ASSUME NEW l \in LaneNames, NEW h \in 1..Len(queue'[l])
        PROVE  /\ h \in 1..Len(queue[l]) /\ Len(queue'[l]) = Len(queue[l])
               /\ queue'[l][h].epoch = queue[l][h].epoch
               /\ queue'[l][h].ticket = queue[l][h].ticket
               /\ LaneOf[queue'[l][h].job] = l
    <3>1. CASE l = k /\ h = i
      BY <1>0, <1>7, <1>7a, <2>1, <3>1
    <3>2. CASE ~(l = k /\ h = i)
      <4>1. /\ h \in 1..Len(queue[l]) /\ queue'[l][h] = queue[l][h]
            /\ Len(queue'[l]) = Len(queue[l])
        BY <1>7a, <2>1, <3>2
      <4>2. QED BY <4>1, <1>f DEF InOrder
    <3>3. QED BY <3>1, <3>2
  <2>2. ASSUME NEW l \in LaneNames, NEW h \in 1..Len(queue'[l])
        PROVE  /\ LaneOf[queue'[l][h].job] = l
               /\ \A g \in 1..Len(queue'[l]) : h < g => queue'[l][h].ticket < queue'[l][g].ticket
               /\ running[l] # Idle => running[l].ticket < queue'[l][h].ticket
               /\ barrier # 0 => barrier < queue'[l][h].ticket
               /\ \A g \in 1..Len(barriers) :
                     IF queue'[l][h].epoch < Number(barrier, passed, g)
                     THEN queue'[l][h].ticket < barriers[g].ticket
                     ELSE barriers[g].ticket < queue'[l][h].ticket
    <3>1. /\ h \in 1..Len(queue[l])
          /\ queue'[l][h].epoch = queue[l][h].epoch
          /\ queue'[l][h].ticket = queue[l][h].ticket
          /\ LaneOf[queue'[l][h].job] = l
      BY <2>1
    <3>2. ASSUME NEW g \in 1..Len(queue'[l]), h < g
          PROVE  queue'[l][h].ticket < queue'[l][g].ticket
      <4>1. g \in 1..Len(queue[l]) /\ queue'[l][g].ticket = queue[l][g].ticket
        BY <2>1
      <4>2. QED BY <3>1, <3>2, <4>1, <1>f DEF InOrder
    <3>3. QED BY <3>1, <3>2, <1>f DEF InOrder
  <2>3. QED BY <2>2, <1>2, <1>f DEF InOrder
<1>13. LanesOrdered'
  BY <1>2, <1>11, <1>12, <1>f DEF LanesOrdered, Ordered
<1>14. fate' = [fate EXCEPT ![j] = "taken", ![old] = "dropped"]
  BY <1>1 DEF old
<1>15. \E h \in 1..Len(queue[k]) :
         queue[k][h].ticket = n /\ queue[k][h].job = old /\ Same(queue[k][h], j)
  BY <1>1 DEF n, old
<1>16. QED BY <1>0, <1>8, <1>9, <1>10, <1>13, <1>14, <1>15

-----------------------------------------------------------------------------
(* The steps, as a whole.                                                  *)

\* The lanes after a step are those of q, bs and live once nothing waits that
\* is not held up.
Settles(q, bs, live) ==
    \A m \in Nat : \A i \in Jobs :
        /\ Waits(queue', barriers', m, i) <=> Waits(q, bs, m, i) /\ Blocked(q, bs, live, m, i)
        /\ Holds(queue', barriers', tasks', m, i) <=> Holds(q, bs, live, m, i)

\* A job that waits with a new ticket.
Adds(q, bs, j) ==
    \A m \in Nat : \A i \in Jobs :
        Waits(q, bs, m, i) <=> Waits(queue, barriers, m, i) \/ (m = next + 1 /\ i = j)

\* A job taken with a new ticket: the lanes settle to what they were with it.
LEMMA EnterStep ==
    ASSUME LanesSound, LanesOrdered, NEW j \in Jobs, Holdless(j),
           SubmitLane(j) \/ SubmitBarrier(j)
    PROVE  /\ LanesOrdered'
           /\ \E q, bs : Adds(q, bs, j) /\ Settles(q, bs, tasks)
<1>1. CASE SubmitLane(j)
  <2>1. /\ LaneOf[j] \in LaneNames
        /\ StartFrom(Longer(j), running, barriers, barrier, passed, tasks)
        /\ UNCHANGED passed
    BY <1>1 DEF SubmitLane, Longer, NewPlace
  <2>2. /\ Sound(Longer(j), running, barriers, barrier, passed, sent, next + 1, tasks)
        /\ Ordered(Longer(j), running, barriers, barrier, passed, tasks)
        /\ Adds(Longer(j), barriers, j)
    BY <2>1, LongerSound, LongerOrdered DEF Adds
  <2>3. Ordered(queue', running', barriers', barrier', passed, tasks')
    BY <2>1, <2>2, StartOrdered
  <2>4. Settles(Longer(j), barriers, tasks)
    BY <2>1, <2>2, StartTakes DEF Settles
  <2>5. QED BY <2>1, <2>2, <2>3, <2>4 DEF LanesOrdered
<1>2. CASE SubmitBarrier(j)
  <2> DEFINE bs == Append(barriers, NewBarrier(j))
  <2>1. /\ LaneOf[j] = Barrier
        /\ StartFrom(queue, running, bs, barrier, passed, tasks)
        /\ UNCHANGED passed
    BY <1>2 DEF SubmitBarrier, NewBarrier
  <2>2. /\ Sound(queue, running, bs, barrier, passed, sent + 1, next + 1, tasks)
        /\ Ordered(queue, running, bs, barrier, passed, tasks)
        /\ Adds(queue, bs, j)
    BY <2>1, AppendedSound, AppendedOrdered DEF Adds
  <2> HIDE DEF bs
  <2>3. Ordered(queue', running', barriers', barrier', passed, tasks')
    BY <2>1, <2>2, StartOrdered
  <2>4. Settles(queue, bs, tasks)
    BY <2>1, <2>2, StartTakes DEF Settles
  <2>5. QED BY <2>1, <2>2, <2>3, <2>4 DEF LanesOrdered
<1>3. QED BY <1>1, <1>2

\* The end of a task: the lanes settle to what they were without it.
LEMMA EndStep ==
    ASSUME LanesSound, LanesOrdered, NEW t \in tasks, Finished(t)
    PROVE  LanesOrdered' /\ Settles(queue, barriers, tasks \ {t})
<1>1. CASE /\ barrier = t.ticket /\ passed' = passed + 1
           /\ StartFrom(queue, running, barriers, 0, passed + 1, tasks \ {t})
  <2>1. /\ Sound(queue, running, barriers, 0, passed + 1, sent, next, tasks \ {t})
        /\ Ordered(queue, running, barriers, 0, passed + 1, tasks \ {t})
    BY <1>1, PassedSound, PassedOrdered
  <2>2. Ordered(queue', running', barriers', barrier', passed + 1, tasks')
    BY <1>1, <2>1, StartOrdered
  <2>3. Settles(queue, barriers, tasks \ {t})
    BY <1>1, <2>1, StartTakes DEF Settles
  <2>4. QED BY <1>1, <2>2, <2>3 DEF LanesOrdered
<1>2. CASE /\ barrier # t.ticket /\ UNCHANGED passed
           /\ StartFrom(queue, Freed(t), barriers, barrier, passed, tasks \ {t})
  <2>1. /\ Sound(queue, Freed(t), barriers, barrier, passed, sent, next, tasks \ {t})
        /\ Ordered(queue, Freed(t), barriers, barrier, passed, tasks \ {t})
    BY <1>2, FreedSound, FreedOrdered
  <2>2. Ordered(queue', running', barriers', barrier', passed, tasks')
    BY <1>2, <2>1, StartOrdered
  <2>3. Settles(queue, barriers, tasks \ {t})
    BY <1>2, <2>1, StartTakes DEF Settles
  <2>4. QED BY <1>2, <2>2, <2>3 DEF LanesOrdered
<1>3. QED BY <1>1, <1>2 DEF Finished, Freed

\* A read taken: nothing else waits or runs for it, and it runs.
LEMMA FreeEnters ==
    ASSUME LanesSound, LanesOrdered, NEW j \in Jobs, Holdless(j), SubmitFree(j)
    PROVE  /\ LanesOrdered'
           /\ \A m \in Nat : \A i \in Jobs :
                 /\ Waits(queue', barriers', m, i) <=> Waits(queue, barriers, m, i)
                 /\ Runs(tasks', m, i) <=> Runs(tasks, m, i) \/ (m = next + 1 /\ i = j)
<1>1. /\ LaneOf[j] = Free /\ tasks' = tasks \cup {NewBarrier(j)}
      /\ UNCHANGED <<queue, running, barriers, barrier, sent, passed>>
  BY DEF SubmitFree, NewBarrier
<1>2. QED BY <1>1, FreeOrdered DEF LanesOrdered

\* The order, and what became of each job, besides IInv.
OInv == LanesOrdered /\ TakenSound /\ InboxSound

\* The job at the head of the inbox.
LEMMA TakeFacts ==
    ASSUME IInv, OInv, Take
    PROVE  \E j \in Jobs :
              /\ fate[j] = "sent" /\ Holdless(j)
              /\ SubmitFree(j) \/ SubmitReplacing(j) \/ SubmitLane(j) \/ SubmitBarrier(j)
              /\ Len(inbox) \in Nat /\ Len(inbox) >= 1 /\ inbox[1] = j
              /\ Len(inbox') = Len(inbox) - 1
              /\ \A i \in 1..Len(inbox') : i + 1 \in 1..Len(inbox) /\ inbox'[i] = inbox[i + 1]
              /\ \A i \in 1..Len(inbox) : inbox[i] \in Jobs
              /\ UNCHANGED <<lastSent, lastDone>>
<1> DEFINE j == Head(inbox)
<1>1. /\ inbox \in Seq(Jobs) /\ inbox # <<>>
      /\ inbox' = Tail(inbox) /\ UNCHANGED <<lastSent, lastDone>>
      /\ SubmitFree(j) \/ SubmitReplacing(j) \/ SubmitLane(j) \/ SubmitBarrier(j)
  BY DEF Take, IInv, TypeOK
<1>2. /\ Len(inbox) \in Nat /\ Len(inbox) >= 1 /\ j = inbox[1] /\ Len(inbox') = Len(inbox) - 1
      /\ \A i \in 1..(Len(inbox) - 1) : inbox'[i] = inbox[i + 1]
      /\ \A i \in 1..Len(inbox) : inbox[i] \in Jobs
  BY <1>1, HeadTailProperties, LenProperties, EmptySeq, ElementOfSeq
<1> HIDE DEF j
<1>3. 1 \in 1..Len(inbox) /\ \A i \in 1..(Len(inbox) - 1) : i + 1 \in 1..Len(inbox)
  BY <1>2
<1>4. j \in Jobs /\ fate[j] = "sent"
  BY <1>2, <1>3 DEF OInv, InboxSound
<1>5. Holdless(j)
  BY <1>4 DEF OInv, TakenSound, Holdless
<1>6. QED BY <1>1, <1>2, <1>3, <1>4, <1>5

\* j is taken, with a ticket of its own; or with the ticket of an older value.
Fresh(j) ==
    /\ fate' = [fate EXCEPT ![j] = "taken"]
    /\ \A m \in Nat : \A i \in Jobs :
          Holds(queue', barriers', tasks', m, i)
            <=> Holds(queue, barriers, tasks, m, i) \/ (m = next + 1 /\ i = j)

Given(j, n, old) ==
    /\ old # j /\ LaneOf[j] \in LaneNames
    /\ fate[old] = "taken"
    /\ fate' = [fate EXCEPT ![j] = "taken", ![old] = "dropped"]
    /\ \E i \in 1..Len(queue[LaneOf[j]]) :
          /\ queue[LaneOf[j]][i].ticket = n /\ queue[LaneOf[j]][i].job = old
          /\ Same(queue[LaneOf[j]][i], j)
    /\ \A m \in Nat : \A i \in Jobs :
          Holds(queue', barriers', tasks', m, i)
            <=> (Holds(queue, barriers, tasks, m, i) /\ i # old) \/ (m = n /\ i = j)

\* A job taken gets a ticket of its own, or the one of a value it replaces.
LEMMA TakeHolds ==
    ASSUME IInv, OInv, NEW j \in Jobs, fate[j] = "sent",
           SubmitFree(j) \/ SubmitReplacing(j) \/ SubmitLane(j) \/ SubmitBarrier(j)
    PROVE  /\ LanesOrdered'
           /\ Fresh(j) \/ \E n \in 1..next, old \in Jobs : Given(j, n, old)
<1>1. LanesSound /\ LanesOrdered /\ TakenSound
  BY DEF IInv, OInv
<1>2. Holdless(j)
  BY <1>1 DEF TakenSound, Holdless
<1>3. CASE SubmitFree(j)
  <2>1. fate' = [fate EXCEPT ![j] = "taken"]
    BY <1>3 DEF SubmitFree
  <2>2. QED BY <1>1, <1>2, <1>3, <2>1, FreeEnters DEF Fresh, Holds
<1>4. CASE SubmitLane(j) \/ SubmitBarrier(j)
  <2>1. fate' = [fate EXCEPT ![j] = "taken"]
    BY <1>4 DEF SubmitLane, SubmitBarrier
  <2>2. LanesOrdered' /\ \E q, bs : Adds(q, bs, j) /\ Settles(q, bs, tasks)
    BY <1>1, <1>2, <1>4, EnterStep
  <2>3. PICK q, bs : Adds(q, bs, j) /\ Settles(q, bs, tasks)
    BY <2>2
  <2>4. \A m \in Nat : \A i \in Jobs :
           Holds(queue', barriers', tasks', m, i)
             <=> Holds(queue, barriers, tasks, m, i) \/ (m = next + 1 /\ i = j)
    BY <2>3 DEF Adds, Settles, Holds
  <2>5. QED BY <2>1, <2>2, <2>4 DEF Fresh
<1>5. CASE SubmitReplacing(j)
  <2>1. PICK n \in 1..next, old \in Jobs :
              /\ old # j /\ Waits(queue, barriers, n, old)
              /\ \E i \in 1..Len(queue[LaneOf[j]]) :
                    /\ queue[LaneOf[j]][i].ticket = n /\ queue[LaneOf[j]][i].job = old
                    /\ Same(queue[LaneOf[j]][i], j)
              /\ fate' = [fate EXCEPT ![j] = "taken", ![old] = "dropped"]
              /\ \A m \in Nat : \A i \in Jobs :
                    Waits(queue', barriers', m, i)
                      <=> (Waits(queue, barriers, m, i) /\ i # old) \/ (m = n /\ i = j)
              /\ LanesOrdered'
    BY <1>1, <1>2, <1>5, ReplacingOrdered
  <2>2. n \in Nat
    BY <1>1 DEF LanesSound, Sound
  <2>3. Facts(queue, running, barriers, barrier, passed, sent, next, tasks)
    BY <1>1, SoundFacts DEF LanesSound
  <2>4. \A m \in Nat : ~Runs(tasks, m, old)
    BY <1>1, <2>1, <2>2, <2>3, Exclusive DEF LanesOrdered
  <2>5. tasks' = tasks /\ LaneOf[j] \in LaneNames
    BY <1>5 DEF SubmitReplacing
  <2>6. \A m \in Nat : \A i \in Jobs :
           Holds(queue', barriers', tasks', m, i)
             <=> (Holds(queue, barriers, tasks, m, i) /\ i # old) \/ (m = n /\ i = j)
    BY <2>1, <2>4, <2>5 DEF Holds
  <2>7. fate[old] = "taken"
    BY <1>1, <2>1, <2>2 DEF TakenSound, Holds
  <2>8. Given(j, n, old)
    BY <2>1, <2>5, <2>6, <2>7 DEF Given
  <2>9. QED BY <2>1, <2>8
<1>6. QED BY <1>3, <1>4, <1>5

\* The driver takes a job from the inbox.
LEMMA TakeKeeps ==
    ASSUME IInv, OInv, Take
    PROVE  OInv'
<1>1. PICK j \in Jobs :
         /\ fate[j] = "sent"
         /\ SubmitFree(j) \/ SubmitReplacing(j) \/ SubmitLane(j) \/ SubmitBarrier(j)
         /\ Len(inbox) \in Nat /\ Len(inbox) >= 1 /\ inbox[1] = j
         /\ Len(inbox') = Len(inbox) - 1
         /\ \A i \in 1..Len(inbox') : i + 1 \in 1..Len(inbox) /\ inbox'[i] = inbox[i + 1]
         /\ \A i \in 1..Len(inbox) : inbox[i] \in Jobs
  BY TakeFacts
<1>2. /\ TakenSound /\ next \in Nat
      /\ \A i \in 1..Len(inbox) : fate[inbox[i]] = "sent"
      /\ \A i, h \in 1..Len(inbox) : inbox[i] = inbox[h] => i = h
      /\ fate \in [Jobs -> {"unsent", "sent", "taken", "done", "dropped"}]
  BY DEF OInv, InboxSound, IInv, TypeOK
<1>3. \A i \in 1..Len(inbox') : inbox'[i] \in Jobs /\ inbox'[i] # j /\ fate[inbox'[i]] = "sent"
  <2> SUFFICES ASSUME NEW i \in 1..Len(inbox')
               PROVE  inbox'[i] \in Jobs /\ inbox'[i] # j /\ fate[inbox'[i]] = "sent"
    OBVIOUS
  <2>1. /\ 1 \in 1..Len(inbox) /\ i + 1 \in 1..Len(inbox) /\ i + 1 # 1
        /\ inbox'[i] = inbox[i + 1] /\ inbox[1] = j
    BY <1>1
  <2>2. inbox[i + 1] # inbox[1]
    BY <1>2, <2>1
  <2>3. QED BY <1>1, <1>2, <2>1, <2>2
<1>4. \A i, h \in 1..Len(inbox') : inbox'[i] = inbox'[h] => i = h
  <2> SUFFICES ASSUME NEW i \in 1..Len(inbox'), NEW h \in 1..Len(inbox'), inbox'[i] = inbox'[h]
               PROVE  i = h
    OBVIOUS
  <2>1. i + 1 = h + 1
    BY <1>1, <1>2
  <2>2. QED BY <1>1, <2>1
<1>5. LanesOrdered' /\ (Fresh(j) \/ \E n \in 1..next, old \in Jobs : Given(j, n, old))
  BY <1>1, TakeHolds
<1>6. SUFFICES TakenSound' /\ \A i \in 1..Len(inbox') : fate'[inbox'[i]] = "sent"
  BY <1>4, <1>5 DEF OInv, InboxSound
<1>7. CASE Fresh(j)
  <2>1. next + 1 \in Nat
    BY <1>2
  <2>2. TakenSound'
    BY <1>2, <1>7, <2>1 DEF TakenSound, Fresh
  <2>3. QED BY <1>2, <1>3, <1>7, <2>2 DEF Fresh
<1>8. ASSUME NEW n \in 1..next, NEW old \in Jobs, Given(j, n, old)
      PROVE  TakenSound' /\ \A i \in 1..Len(inbox') : fate'[inbox'[i]] = "sent"
  <2>1. /\ n \in Nat /\ old # j /\ fate[old] = "taken"
        /\ \A i \in Jobs : fate'[i] = IF i = old THEN "dropped" ELSE IF i = j THEN "taken" ELSE fate[i]
        /\ \A m \in Nat : \A i \in Jobs :
              Holds(queue', barriers', tasks', m, i)
                <=> (Holds(queue, barriers, tasks, m, i) /\ i # old) \/ (m = n /\ i = j)
    BY <1>2, <1>8 DEF Given
  <2>2. TakenSound'
    <3> SUFFICES ASSUME NEW i \in Jobs
                 PROVE  fate'[i] = "taken" <=> \E m \in Nat : Holds(queue', barriers', tasks', m, i)
      BY DEF TakenSound
    <3>1. (\E m \in Nat : Holds(queue', barriers', tasks', m, i))
            <=> ((\E m \in Nat : Holds(queue, barriers, tasks, m, i)) /\ i # old) \/ i = j
      BY <2>1
    <3>2. fate[i] = "taken" <=> \E m \in Nat : Holds(queue, barriers, tasks, m, i)
      BY <1>2 DEF TakenSound
    <3>3. QED BY <2>1, <3>1, <3>2
  <2>3. QED BY <1>3, <2>1, <2>2
<1>9. QED BY <1>5, <1>7, <1>8

\* A task ends.
LEMMA JoinKeeps ==
    ASSUME IInv, OInv, NEW t \in tasks, Join(t)
    PROVE  OInv'
<1>1. /\ LanesSound /\ LanesOrdered /\ TakenSound /\ InboxSound
      /\ fate \in [Jobs -> {"unsent", "sent", "taken", "done", "dropped"}]
      /\ t.job \in Jobs /\ t.ticket \in Nat
  BY DEF IInv, OInv, TypeOK, Task
<1>2. LanesOrdered' /\ Settles(queue, barriers, tasks \ {t})
  BY <1>1, EndStep DEF Join
<1>3. fate' = [fate EXCEPT ![t.job] = "done"] /\ inbox' = inbox
  BY DEF Join
<1>4. Facts(queue, running, barriers, barrier, passed, sent, next, tasks)
  BY <1>1, SoundFacts DEF LanesSound
<1>5. Runs(tasks, t.ticket, t.job) /\ \A m \in Nat : ~Waits(queue, barriers, m, t.job)
  BY <1>1, <1>4, Exclusive DEF LanesOrdered, Runs
<1>6. \A m \in Nat : \A i \in Jobs :
         Holds(queue', barriers', tasks', m, i)
           <=> Holds(queue, barriers, tasks, m, i) /\ i # t.job
  BY <1>1, <1>2, <1>5, EndedTickets DEF Settles, Holds
<1>7. TakenSound'
  BY <1>1, <1>3, <1>6 DEF TakenSound
<1>8. fate[t.job] = "taken"
  BY <1>1, <1>5 DEF TakenSound, Holds
<1>9. InboxSound'
  BY <1>1, <1>3, <1>8 DEF InboxSound
<1>10. QED BY <1>2, <1>7, <1>9 DEF OInv

\* A job is sent.
LEMMA SendKeeps ==
    ASSUME IInv, OInv, NEW j \in Jobs, Send(j)
    PROVE  OInv'
<1> DEFINE l == Len(inbox)
<1>1. /\ LanesOrdered /\ TakenSound
      /\ \A i \in 1..l : fate[inbox[i]] = "sent"
      /\ \A i, h \in 1..l : inbox[i] = inbox[h] => i = h
      /\ fate \in [Jobs -> {"unsent", "sent", "taken", "done", "dropped"}]
      /\ inbox \in Seq(Jobs)
  BY DEF IInv, OInv, TypeOK, InboxSound
<1>2. /\ fate[j] = "unsent" /\ fate' = [fate EXCEPT ![j] = "sent"]
      /\ inbox' = Append(inbox, j)
      /\ UNCHANGED <<queue, running, barriers, barrier, passed, tasks>>
  BY DEF Send, laneVars
<1>3. /\ l \in Nat /\ Len(inbox') = l + 1
      /\ \A i \in 1..l : inbox'[i] = inbox[i]
      /\ inbox'[l + 1] = j
  BY <1>1, <1>2, AppendProperties, LenProperties
<1>4. \A i \in 1..l : inbox[i] \in Jobs /\ inbox[i] # j
  BY <1>1, <1>2, ElementOfSeq
<1> HIDE DEF l
<1>5. \A i \in 1..(l + 1) : i \in 1..l \/ i = l + 1
  BY <1>3
<1>6. LanesOrdered' /\ TakenSound'
  <2>1. LanesOrdered'
    BY <1>1, <1>2 DEF LanesOrdered
  <2>2. \A i \in Jobs : fate'[i] = "taken" <=> fate[i] = "taken"
    BY <1>1, <1>2
  <2>3. QED BY <1>1, <1>2, <2>1, <2>2 DEF TakenSound
<1>7. \A i \in 1..(l + 1) : fate'[inbox'[i]] = "sent"
  BY <1>1, <1>2, <1>3, <1>4, <1>5
<1>8. \A i, h \in 1..(l + 1) : inbox'[i] = inbox'[h] => i = h
  <2> SUFFICES ASSUME NEW i \in 1..(l + 1), NEW h \in 1..(l + 1), inbox'[i] = inbox'[h]
               PROVE  i = h
    OBVIOUS
  <2>1. (i \in 1..l \/ i = l + 1) /\ (h \in 1..l \/ h = l + 1)
    BY <1>5
  <2>2. CASE i \in 1..l /\ h \in 1..l
    BY <1>1, <1>3, <2>2
  <2>3. CASE i \in 1..l /\ h = l + 1
    BY <1>3, <1>4, <2>3
  <2>4. CASE i = l + 1 /\ h \in 1..l
    BY <1>3, <1>4, <2>4
  <2>5. QED BY <2>1, <2>2, <2>3, <2>4
<1>9. QED BY <1>3, <1>6, <1>7, <1>8 DEF OInv, InboxSound

\* Both strengthenings hold in every state.
THEOREM OrderInductive == Spec => [](IInv /\ OInv)
<1>1. Init => OInv
  <2> SUFFICES ASSUME Init PROVE OInv
    OBVIOUS
  <2>1. /\ Len(<<>>) = 0 /\ inbox = <<>> /\ barriers = <<>> /\ tasks = {} /\ barrier = 0
        /\ \A k \in LaneNames : queue[k] = <<>> /\ running[k] = Idle
        /\ \A j \in Jobs : fate[j] = "unsent"
    BY EmptySeq DEF Init
  <2>2. \A m : \A j : ~Holds(queue, barriers, tasks, m, j)
    <3>1. \A k \in LaneNames : 1..Len(queue[k]) = {}
      BY <2>1
    <3>2. 1..Len(barriers) = {}
      BY <2>1
    <3>3. QED BY <2>1, <3>1, <3>2 DEF Holds, Waits, Runs
  <2>3. Tickets(queue, barriers, tasks) /\ TakenSound
    BY <2>1, <2>2 DEF Tickets, TakenSound
  <2>4. InOrder(queue, running, barriers, barrier, passed) /\ RunsInLane(running, barrier, tasks)
    BY <2>1 DEF InOrder, RunsInLane
  <2>5. InboxSound
    BY <2>1 DEF InboxSound
  <2>6. QED BY <2>3, <2>4, <2>5 DEF OInv, LanesOrdered, Ordered
<1>2. IInv /\ OInv /\ [Next]_vars => OInv'
  <2> SUFFICES ASSUME IInv, OInv, [Next]_vars PROVE OInv'
    OBVIOUS
  <2>1. CASE DropSenders \/ InboxOver \/ Return \/ UNCHANGED vars
    <3>1. UNCHANGED <<inbox, fate, queue, running, barriers, barrier, passed, tasks>>
      BY <2>1 DEF DropSenders, InboxOver, Return, vars, laneVars
    <3>2. LanesOrdered'
      BY <3>1 DEF OInv, LanesOrdered
    <3>3. TakenSound' /\ InboxSound'
      BY <3>1 DEF OInv, TakenSound, InboxSound
    <3>4. QED BY <3>2, <3>3 DEF OInv
  <2>2. QED BY <2>1, TakeKeeps, JoinKeeps, SendKeeps DEF Next
<1>3. QED BY <1>1, <1>2, Inductive, PTL DEF Spec

-----------------------------------------------------------------------------
(* The refinement: what the mapping reads off the lanes.                   *)

Word(f) == IF f \in {"unsent", "sent"} THEN "unsent" ELSE f

Mapped ==
    /\ OrderState = [j \in Jobs |-> OrderState[j]]
    /\ OrderPlace = [j \in Jobs |-> OrderPlace[j]]
    /\ \A j \in Jobs :
          /\ OrderState[j] = "pending" <=> \E n \in Nat : Waits(queue, barriers, n, j)
          /\ OrderState[j] = "running" <=> \E n \in Nat : Runs(tasks, n, j)
          /\ fate[j] = "taken" <=> OrderState[j] \in {"pending", "running"}
          /\ fate[j] # "taken" => OrderState[j] = Word(fate[j]) /\ OrderPlace[j] = 0
          /\ \A n \in Nat : Holds(queue, barriers, tasks, n, j) => OrderPlace[j] = n

\* What the mapping reads off the lanes, for a job taken and for one that is not.
LEMMA Mapping == IInv /\ OInv => Mapped
<1> SUFFICES ASSUME IInv, OInv PROVE Mapped
  OBVIOUS
<1>1. /\ LanesOrdered /\ TakenSound /\ LanesSound
      /\ fate \in [Jobs -> {"unsent", "sent", "taken", "done", "dropped"}]
      /\ Facts(queue, running, barriers, barrier, passed, sent, next, tasks)
  BY SoundFacts DEF IInv, OInv, TypeOK, LanesSound
<1>2. /\ \A k \in LaneNames : DOMAIN queue[k] = 1..Len(queue[k])
      /\ DOMAIN barriers = 1..Len(barriers)
  BY <1>1, LenProperties DEF LanesSound, Sound
<1>3. /\ \A k \in LaneNames : \A i \in 1..Len(queue[k]) : queue[k][i].ticket \in Nat
      /\ \A h \in 1..Len(barriers) : barriers[h].ticket \in Nat
      /\ \A t \in tasks : t.ticket \in Nat
  BY <1>1 DEF Facts
<1>4. OrderState = [j \in Jobs |-> OrderState[j]] /\ OrderPlace = [j \in Jobs |-> OrderPlace[j]]
  BY DEF OrderState, OrderPlace
<1>5. SUFFICES ASSUME NEW j \in Jobs
               PROVE  /\ OrderState[j] = "pending" <=> \E n \in Nat : Waits(queue, barriers, n, j)
                      /\ OrderState[j] = "running" <=> \E n \in Nat : Runs(tasks, n, j)
                      /\ fate[j] = "taken" <=> OrderState[j] \in {"pending", "running"}
                      /\ fate[j] # "taken" => OrderState[j] = Word(fate[j]) /\ OrderPlace[j] = 0
                      /\ \A n \in Nat : Holds(queue, barriers, tasks, n, j) => OrderPlace[j] = n
  BY <1>4 DEF Mapped
<1>6. Waiting(j) <=> \E n \in Nat : Waits(queue, barriers, n, j)
  BY <1>2, <1>3 DEF Waiting, Waits
<1>7. fate[j] = "taken" <=> \E n \in Nat : Holds(queue, barriers, tasks, n, j)
  BY <1>1 DEF TakenSound
<1>8. \A m1, m2 \in Nat : ~(Waits(queue, barriers, m1, j) /\ Runs(tasks, m2, j))
  BY <1>1, Exclusive DEF LanesOrdered
<1>9. OrderState[j] = IF fate[j] \in {"unsent", "sent"} THEN "unsent"
                      ELSE IF fate[j] = "taken" THEN IF Waiting(j) THEN "pending" ELSE "running"
                      ELSE fate[j]
  BY DEF OrderState
<1>10. fate[j] \in {"unsent", "sent", "taken", "done", "dropped"}
  BY <1>1
<1>11. /\ OrderState[j] = "pending" <=> fate[j] = "taken" /\ Waiting(j)
       /\ OrderState[j] = "running" <=> fate[j] = "taken" /\ ~Waiting(j)
       /\ fate[j] = "taken" <=> OrderState[j] \in {"pending", "running"}
       /\ fate[j] # "taken" => OrderState[j] = Word(fate[j])
  BY <1>9, <1>10 DEF Word
<1>12. /\ OrderState[j] = "pending" <=> \E n \in Nat : Waits(queue, barriers, n, j)
       /\ OrderState[j] = "running" <=> \E n \in Nat : Runs(tasks, n, j)
  BY <1>6, <1>7, <1>8, <1>11 DEF Holds
<1> DEFINE here(k) == {h \in DOMAIN queue[k] : queue[k][h].job = j}
           places(k) == {queue[k][i] : i \in here(k)}
           held == {t \in tasks : t.job = j}
                     \cup {barriers[i] : i \in {h \in DOMAIN barriers : barriers[h].job = j}}
                     \cup UNION {places(k) : k \in LaneNames}
<1>13. OrderPlace[j] = IF held = {} THEN 0 ELSE (CHOOSE t \in held : TRUE).ticket
  BY DEF OrderPlace, TicketOf
<1>14. ASSUME NEW t \in held
       PROVE  t.ticket \in Nat /\ Holds(queue, barriers, tasks, t.ticket, j)
  <2>1. CASE t \in {u \in tasks : u.job = j}
    BY <1>3, <2>1 DEF Holds, Runs
  <2>2. CASE t \in {barriers[i] : i \in {h \in DOMAIN barriers : barriers[h].job = j}}
    BY <1>2, <1>3, <2>2 DEF Holds, Waits
  <2>3. CASE t \in UNION {places(k) : k \in LaneNames}
    <3>1. PICK k \in LaneNames : t \in places(k)
      BY <2>3
    <3>2. PICK i \in 1..Len(queue[k]) : t = queue[k][i] /\ queue[k][i].job = j
      BY <1>2, <3>1
    <3>3. QED BY <1>3, <3>2 DEF Holds, Waits
  <2>4. QED BY <2>1, <2>2, <2>3
<1>15. ASSUME NEW n \in Nat, Holds(queue, barriers, tasks, n, j) PROVE held # {}
  <2>1. CASE Runs(tasks, n, j)
    BY <2>1 DEF Runs
  <2>2. ASSUME NEW k \in LaneNames, NEW i \in 1..Len(queue[k]), queue[k][i].job = j
        PROVE  held # {}
    <3>1. queue[k][i] \in places(k)
      BY <1>2, <2>2
    <3>2. QED BY <3>1
  <2>3. ASSUME NEW h \in 1..Len(barriers), barriers[h].job = j
        PROVE  held # {}
    <3>1. barriers[h] \in {barriers[i] : i \in {g \in DOMAIN barriers : barriers[g].job = j}}
      BY <1>2, <2>3
    <3>2. QED BY <3>1
  <2>4. QED BY <1>15, <2>1, <2>2, <2>3 DEF Holds, Waits
<1> HIDE DEF held
<1>16. \A n \in Nat : Holds(queue, barriers, tasks, n, j) => OrderPlace[j] = n
  <2>1. SUFFICES ASSUME NEW n \in Nat, Holds(queue, barriers, tasks, n, j) PROVE OrderPlace[j] = n
    OBVIOUS
  <2>2. PICK t \in held : OrderPlace[j] = t.ticket
    BY <1>13, <1>15, <2>1
  <2>3. QED BY <1>1, <1>14, <2>1, <2>2 DEF LanesOrdered, Ordered, Tickets
<1>17. fate[j] # "taken" => OrderPlace[j] = 0
  BY <1>7, <1>13, <1>14
<1>18. QED BY <1>11, <1>12, <1>16, <1>17

\* What a configuration reads as, before start.
Reads(st, pl, q, bs, live) ==
    /\ st = [j \in Jobs |-> st[j]]
    /\ \A j \in Jobs :
          /\ st[j] = "pending" <=> \E n \in Nat : Waits(q, bs, n, j)
          /\ st[j] = "running" <=> \E n \in Nat : Runs(live, n, j)
          /\ \A n \in Nat : Holds(q, bs, live, n, j) => pl[j] = n

\* If the lanes after a step are what a configuration settles to, the states
\* after it are what the states read off that configuration settle to.
LEMMA SettledRead ==
    ASSUME NEW st, NEW pl, NEW q, NEW bs, NEW live,
           Reads(st, pl, q, bs, live), Settles(q, bs, live), Mapped', LanesSound', LanesOrdered',
           \A j \in Jobs : fate'[j] # "taken" => st[j] = Word(fate'[j])
    PROVE  OrderState' = Order!Settled(st, pl)
<1>1. \A m1, m2 \in Nat : \A j \in Jobs : ~(Waits(queue', barriers', m1, j) /\ Runs(tasks', m2, j))
  <2>1. Facts(queue', running', barriers', barrier', passed', sent', next', tasks')
    BY SoundFacts DEF LanesSound
  <2>2. QED BY <2>1, Exclusive DEF LanesOrdered
<1>2. \A j \in Jobs :
          /\ OrderState'[j] = "pending" <=> \E n \in Nat : Waits(queue', barriers', n, j)
          /\ OrderState'[j] = "running" <=> \E n \in Nat : Runs(tasks', n, j)
          /\ fate'[j] = "taken" <=> OrderState'[j] \in {"pending", "running"}
          /\ fate'[j] # "taken" => OrderState'[j] = Word(fate'[j])
  BY DEF Mapped
<1>3. ASSUME NEW j \in Jobs, NEW n \in Nat, Waits(q, bs, n, j)
      PROVE  Order!Before(st, pl, j) # {} <=> Blocked(q, bs, live, n, j)
  <2>1. pl[j] = n
    BY <1>3 DEF Reads, Holds
  <2>2. ASSUME NEW i \in Order!Before(st, pl, j) PROVE Blocked(q, bs, live, n, j)
    <3>1. i \in Jobs /\ st[i] \in {"pending", "running"} /\ Order!Conflict(i, j) /\ pl[i] < pl[j]
      BY DEF Order!Before, Order!Active
    <3>2. PICK m \in Nat : Holds(q, bs, live, m, i)
      BY <3>1 DEF Reads, Holds
    <3>3. pl[i] = m
      BY <3>1, <3>2 DEF Reads
    <3>4. QED BY <2>1, <3>1, <3>2, <3>3 DEF Blocked
  <2>3. ASSUME Blocked(q, bs, live, n, j) PROVE Order!Before(st, pl, j) # {}
    <3>1. PICK m \in Nat, i \in Jobs : Holds(q, bs, live, m, i) /\ Order!Conflict(i, j) /\ m < n
      BY <2>3 DEF Blocked
    <3>2. pl[i] = m /\ st[i] \in {"pending", "running"}
      BY <3>1 DEF Reads, Holds
    <3>3. i \in Order!Before(st, pl, j)
      BY <2>1, <3>1, <3>2 DEF Order!Before, Order!Active
    <3>4. QED BY <3>3
  <2>4. QED BY <2>2, <2>3
<1>4. ASSUME NEW j \in Jobs PROVE OrderState'[j] = Order!Settled(st, pl)[j]
  <2>1. Order!Settled(st, pl)[j] = IF st[j] = "pending" /\ Order!Before(st, pl, j) = {} THEN "running" ELSE st[j]
    BY DEF Order!Settled
  <2>2. CASE st[j] = "pending"
    <3>1. PICK n \in Nat : Waits(q, bs, n, j)
      BY <2>2 DEF Reads
    <3>2. Order!Before(st, pl, j) # {} <=> Blocked(q, bs, live, n, j)
      BY <1>3, <3>1
    <3>3. CASE Blocked(q, bs, live, n, j)
      <4>1. Waits(queue', barriers', n, j)
        BY <3>1, <3>3 DEF Settles
      <4>2. QED BY <1>2, <2>1, <2>2, <3>2, <3>3, <4>1
    <3>4. CASE ~Blocked(q, bs, live, n, j)
      <4>1. Holds(queue', barriers', tasks', n, j) /\ ~Waits(queue', barriers', n, j)
        BY <3>1, <3>4 DEF Settles, Holds
      <4>2. Runs(tasks', n, j)
        BY <4>1 DEF Holds
      <4>3. OrderState'[j] = "running"
        BY <1>2, <4>2
      <4>4. QED BY <2>1, <2>2, <3>2, <3>4, <4>3
    <3>5. QED BY <3>3, <3>4
  <2>3. CASE st[j] = "running"
    <3>1. PICK n \in Nat : Runs(live, n, j)
      BY <2>3 DEF Reads
    <3>2. \A m \in Nat : ~Waits(q, bs, m, j)
      BY <2>3 DEF Reads
    <3>3. Holds(queue', barriers', tasks', n, j) /\ ~Waits(queue', barriers', n, j)
      BY <3>1, <3>2 DEF Settles, Holds
    <3>4. Runs(tasks', n, j)
      BY <3>3 DEF Holds
    <3>5. QED BY <1>2, <2>1, <2>3, <3>4
  <2>4. CASE st[j] \notin {"pending", "running"}
    <3>1. \A n \in Nat : ~Holds(q, bs, live, n, j)
      BY <2>4 DEF Reads, Holds
    <3>2. \A n \in Nat : ~Holds(queue', barriers', tasks', n, j)
      BY <3>1 DEF Settles
    <3>3. OrderState'[j] \notin {"pending", "running"}
      BY <1>2, <3>2 DEF Holds
    <3>4. QED BY <1>2, <2>1, <2>4, <3>3
  <2>5. QED BY <2>2, <2>3, <2>4
<1>5. OrderState' = [j \in Jobs |-> OrderState'[j]]
  BY DEF Mapped
<1>6. Order!Settled(st, pl) = [j \in Jobs |-> Order!Settled(st, pl)[j]]
  BY DEF Order!Settled
<1>7. QED BY <1>4, <1>5, <1>6

\* The places read off the lanes follow from what is held after a step.
LEMMA PlacesFollow ==
    ASSUME NEW pl, pl = [j \in Jobs |-> pl[j]], Mapped', TakenSound',
           \A i \in Jobs :
              /\ fate'[i] # "taken" => pl[i] = 0
              /\ \A n \in Nat : Holds(queue', barriers', tasks', n, i) => pl[i] = n
    PROVE  OrderPlace' = pl
<1>1. ASSUME NEW i \in Jobs PROVE OrderPlace'[i] = pl[i]
  <2>1. CASE fate'[i] # "taken"
    BY <2>1 DEF Mapped
  <2>2. CASE fate'[i] = "taken"
    <3>1. PICK n \in Nat : Holds(queue', barriers', tasks', n, i)
      BY <2>2 DEF TakenSound
    <3>2. QED BY <3>1 DEF Mapped
  <2>3. QED BY <2>1, <2>2
<1>2. OrderPlace' = [i \in Jobs |-> OrderPlace'[i]]
  BY DEF Mapped
<1>3. QED BY <1>1, <1>2

\* No waiting value that was sent since the last barrier: nothing is superseded.
LEMMA NoneSuperseded ==
    ASSUME IInv, OInv, Mapped, NEW j \in Jobs, SubmitLane(j) \/ SubmitBarrier(j)
    PROVE  Order!Superseded(j) = {}
<1> SUFFICES ASSUME NEW old \in Order!Superseded(j) PROVE FALSE
  OBVIOUS
<1>f. /\ Facts(queue, running, barriers, barrier, passed, sent, next, tasks)
      /\ InOrder(queue, running, barriers, barrier, passed)
      /\ LanesSound
  BY SoundFacts DEF IInv, OInv, LanesSound, LanesOrdered, Ordered
<1>1. /\ old \in Jobs /\ OrderState[old] = "pending"
      /\ LaneOf[j] \notin {Free, Barrier} /\ LaneOf[old] = LaneOf[j]
      /\ SetsOf[j] # Nothing /\ SetsOf[old] = SetsOf[j]
      /\ ~\E b \in Jobs : /\ LaneOf[b] = Barrier
                          /\ OrderState[b] \in {"pending", "running"}
                          /\ OrderPlace[old] < OrderPlace[b]
  BY DEF Order!Superseded, Order!Active
<1>2. SubmitLane(j)
  BY <1>1 DEF SubmitBarrier
<1>3. PICK k \in LaneNames : k = LaneOf[j]
  BY <1>2 DEF SubmitLane
<1>4. PICK n \in Nat : Waits(queue, barriers, n, old)
  BY <1>1 DEF Mapped
<1>5. PICK i \in 1..Len(queue[k]) : queue[k][i].ticket = n /\ queue[k][i].job = old
  BY <1>1, <1>3, <1>4, <1>f DEF Waits, InOrder
<1>6. ~Same(queue[k][i], j)
  <2>1. DOMAIN queue[k] = 1..Len(queue[k])
    BY <1>f, LenProperties DEF LanesSound, Sound
  <2>2. QED BY <1>2, <1>3, <2>1 DEF SubmitLane
<1>7. queue[k][i].epoch # sent
  BY <1>1, <1>5, <1>6 DEF Same
<1>8. /\ queue[k][i].epoch \in passed..sent /\ (barrier # 0 => queue[k][i].epoch > passed)
      /\ passed \in Nat /\ sent \in Nat /\ barrier \in Nat /\ Len(barriers) \in Nat
      /\ sent = Number(barrier, passed, Len(barriers))
  BY <1>f DEF Facts
<1> DEFINE last == barriers[Len(barriers)]
<1>9. Len(barriers) \in 1..Len(barriers)
  BY <1>7, <1>8 DEF Number
<1>10. /\ n < last.ticket /\ last.ticket \in Nat
       /\ last.job \in Jobs /\ LaneOf[last.job] = Barrier
  <2>1. queue[k][i].epoch < Number(barrier, passed, Len(barriers))
    BY <1>7, <1>8
  <2>2. queue[k][i].ticket < last.ticket
    BY <1>9, <2>1, <1>f DEF InOrder
  <2>3. last.ticket \in 1..next /\ last.job \in Jobs /\ LaneOf[last.job] = Barrier
    BY <1>9, <1>f DEF InOrder, Facts
  <2>4. QED BY <1>5, <2>2, <2>3
<1>11. Waits(queue, barriers, last.ticket, last.job)
  BY <1>9 DEF Waits
<1>12. OrderState[last.job] = "pending" /\ OrderPlace[last.job] = last.ticket /\ OrderPlace[old] = n
  BY <1>1, <1>4, <1>10, <1>11 DEF Mapped, Holds
<1>13. QED BY <1>1, <1>10, <1>12

\* A job sent to a lane, or a barrier, enters the order.
LEMMA EnterRefines ==
    ASSUME IInv, OInv, IInv', OInv', Mapped, Mapped',
           NEW j \in Jobs, fate[j] = "sent", SubmitLane(j) \/ SubmitBarrier(j)
    PROVE  Order!Enter(j)
<1>1. /\ LanesSound /\ LanesOrdered /\ TakenSound /\ next \in Nat
      /\ LanesSound' /\ LanesOrdered' /\ TakenSound'
      /\ fate \in [Jobs -> {"unsent", "sent", "taken", "done", "dropped"}]
  BY DEF IInv, OInv, TypeOK
<1>2. Holdless(j)
  BY <1>1 DEF TakenSound, Holdless
<1>3. PICK q, bs : Adds(q, bs, j) /\ Settles(q, bs, tasks)
  BY <1>1, <1>2, EnterStep
<1>4. next' = next + 1 /\ fate' = [fate EXCEPT ![j] = "taken"]
  BY DEF SubmitLane, SubmitBarrier
<1>5. OrderState[j] = "unsent"
  BY DEF Mapped, Word
<1> DEFINE st == [OrderState EXCEPT ![j] = "pending"]
           pl == [OrderPlace EXCEPT ![j] = next']
<1>6. /\ st = [i \in Jobs |-> IF i = j THEN "pending" ELSE OrderState[i]]
      /\ pl = [i \in Jobs |-> IF i = j THEN next + 1 ELSE OrderPlace[i]]
  BY <1>4 DEF Mapped
<1> HIDE DEF st, pl
<1>7. \A n \in Nat : \A i \in Jobs :
         /\ Holds(q, bs, tasks, n, i) => (Holds(queue, barriers, tasks, n, i) /\ i # j) \/ (n = next + 1 /\ i = j)
         /\ i # j => (Waits(q, bs, n, i) <=> Waits(queue, barriers, n, i))
         /\ ~Runs(tasks, n, j)
  BY <1>2, <1>3 DEF Adds, Holds, Holdless
<1>8. Waits(q, bs, next + 1, j) /\ next + 1 \in Nat
  BY <1>1, <1>3 DEF Adds
<1>9. Reads(st, pl, q, bs, tasks)
  <2>1. st = [i \in Jobs |-> st[i]]
    BY <1>6
  <2>2. ASSUME NEW i \in Jobs
        PROVE  /\ st[i] = "pending" <=> \E n \in Nat : Waits(q, bs, n, i)
               /\ st[i] = "running" <=> \E n \in Nat : Runs(tasks, n, i)
               /\ \A n \in Nat : Holds(q, bs, tasks, n, i) => pl[i] = n
    <3>1. CASE i = j
      BY <1>6, <1>7, <1>8, <3>1
    <3>2. CASE i # j
      BY <1>6, <1>7, <3>2 DEF Mapped
    <3>3. QED BY <3>1, <3>2
  <2>3. QED BY <2>1, <2>2 DEF Reads
<1>10. OrderState' = Order!Settled(st, pl)
  <2>1. \A i \in Jobs : fate'[i] # "taken" => st[i] = Word(fate'[i])
    BY <1>1, <1>4, <1>6 DEF Mapped
  <2>2. QED BY <1>1, <1>3, <1>9, <2>1, SettledRead
<1>11. OrderPlace' = pl
  <2>1. \A i \in Jobs :
            /\ fate'[i] # "taken" => pl[i] = 0
            /\ \A n \in Nat : Holds(queue', barriers', tasks', n, i) => pl[i] = n
    BY <1>1, <1>3, <1>4, <1>6, <1>9 DEF Mapped, Settles, Reads
  <2>2. pl = [i \in Jobs |-> pl[i]]
    BY <1>6
  <2>3. QED BY <1>1, <2>1, <2>2, PlacesFollow
<1>12. Order!Superseded(j) = {}
  BY NoneSuperseded
<1>13. QED BY <1>4, <1>5, <1>10, <1>11, <1>12 DEF Order!Enter, st, pl

\* A read enters the order and runs.
LEMMA FreeRefines ==
    ASSUME IInv, OInv, OInv', Mapped, Mapped',
           NEW j \in Jobs, fate[j] = "sent", SubmitFree(j)
    PROVE  Order!Enter(j)
<1>1. /\ LanesSound /\ LanesBusy /\ LanesOrdered /\ TakenSound /\ next \in Nat /\ TakenSound'
      /\ fate \in [Jobs -> {"unsent", "sent", "taken", "done", "dropped"}]
  BY DEF IInv, OInv, TypeOK
<1>2. Holdless(j)
  BY <1>1 DEF TakenSound, Holdless
<1>3. \A m \in Nat : \A i \in Jobs :
         /\ Waits(queue', barriers', m, i) <=> Waits(queue, barriers, m, i)
         /\ Runs(tasks', m, i) <=> Runs(tasks, m, i) \/ (m = next + 1 /\ i = j)
  BY <1>1, <1>2, FreeEnters
<1>4. LaneOf[j] = Free /\ next' = next + 1 /\ fate' = [fate EXCEPT ![j] = "taken"]
  BY DEF SubmitFree
<1>5. OrderState[j] = "unsent" /\ Order!Superseded(j) = {}
  BY <1>4 DEF Mapped, Word, Order!Superseded
<1> DEFINE st == [OrderState EXCEPT ![j] = "pending"]
           pl == [OrderPlace EXCEPT ![j] = next']
<1>6. /\ st = [i \in Jobs |-> IF i = j THEN "pending" ELSE OrderState[i]]
      /\ pl = [i \in Jobs |-> IF i = j THEN next + 1 ELSE OrderPlace[i]]
  BY <1>4 DEF Mapped
<1> HIDE DEF st, pl
<1>7. \A n \in Nat : \A i \in Jobs :
         Holds(queue', barriers', tasks', n, i)
           <=> (Holds(queue, barriers, tasks, n, i) /\ i # j) \/ (n = next + 1 /\ i = j)
  BY <1>2, <1>3 DEF Holds, Holdless
<1>8. OrderPlace' = pl
  <2>1. \A i \in Jobs :
            /\ fate'[i] # "taken" => pl[i] = 0
            /\ \A n \in Nat : Holds(queue', barriers', tasks', n, i) => pl[i] = n
    BY <1>1, <1>4, <1>6, <1>7 DEF Mapped
  <2>2. pl = [i \in Jobs |-> pl[i]]
    BY <1>6
  <2>3. QED BY <1>1, <2>1, <2>2, PlacesFollow
<1>9. ASSUME NEW i \in Jobs PROVE OrderState'[i] = Order!Settled(st, pl)[i]
  <2>1. Order!Settled(st, pl)[i] = IF st[i] = "pending" /\ Order!Before(st, pl, i) = {} THEN "running" ELSE st[i]
    BY DEF Order!Settled
  <2>2. CASE i = j
    <3>1. Order!Before(st, pl, j) = {} /\ st[j] = "pending"
      BY <1>4, <1>6 DEF Order!Before, Order!Conflict
    <3>2. Runs(tasks', next + 1, j) /\ next + 1 \in Nat
      BY <1>1, <1>3
    <3>3. OrderState'[j] = "running"
      BY <3>2 DEF Mapped
    <3>4. QED BY <2>1, <2>2, <3>1, <3>3
  <2>3. CASE i # j /\ OrderState[i] = "pending"
    <3>1. PICK n \in Nat : Waits(queue, barriers, n, i)
      BY <2>3 DEF Mapped
    <3>2. PICK m \in Nat, x \in Jobs : Holds(queue, barriers, tasks, m, x) /\ Order!Conflict(x, i) /\ m < n
      BY <1>1, <3>1, BusyBlocked DEF LanesSound, LanesBusy, LanesOrdered, Blocked
    <3>3. x # j
      BY <1>2, <3>2 DEF Holdless
    <3>4. st[x] \in {"pending", "running"} /\ pl[x] = m /\ pl[i] = n
      BY <1>6, <2>3, <3>1, <3>2, <3>3 DEF Mapped, Holds
    <3>5. x \in Order!Before(st, pl, i)
      BY <3>2, <3>4 DEF Order!Before, Order!Active
    <3>6. OrderState'[i] = "pending"
      BY <1>3, <3>1 DEF Mapped
    <3>7. QED BY <1>6, <2>1, <2>3, <3>5, <3>6
  <2>4. CASE i # j /\ OrderState[i] = "running"
    <3>1. PICK n \in Nat : Runs(tasks, n, i)
      BY <2>4 DEF Mapped
    <3>2. OrderState'[i] = "running"
      BY <1>3, <3>1 DEF Mapped
    <3>3. QED BY <1>6, <2>1, <2>4, <3>2
  <2>5. CASE i # j /\ OrderState[i] \notin {"pending", "running"}
    <3>1. fate[i] # "taken" /\ fate'[i] = fate[i]
      BY <1>1, <1>4, <2>5 DEF Mapped
    <3>2. OrderState'[i] = OrderState[i]
      BY <3>1 DEF Mapped
    <3>3. QED BY <1>6, <2>1, <2>5, <3>2
  <2>6. QED BY <2>2, <2>3, <2>4, <2>5
<1>10. OrderState' = Order!Settled(st, pl)
  <2>1. OrderState' = [i \in Jobs |-> OrderState'[i]]
    BY DEF Mapped
  <2>2. Order!Settled(st, pl) = [i \in Jobs |-> Order!Settled(st, pl)[i]]
    BY DEF Order!Settled
  <2>3. QED BY <1>9, <2>1, <2>2
<1>11. QED BY <1>4, <1>5, <1>8, <1>10 DEF Order!Enter, st, pl

\* The end of a task ends its job in the order.
LEMMA EndRefines ==
    ASSUME IInv, OInv, IInv', OInv', Mapped, Mapped', NEW t \in tasks, Join(t)
    PROVE  Order!End(t.job)
<1> DEFINE j == t.job
<1>1. /\ LanesSound /\ LanesOrdered /\ TakenSound
      /\ LanesSound' /\ LanesOrdered' /\ TakenSound'
      /\ fate \in [Jobs -> {"unsent", "sent", "taken", "done", "dropped"}]
      /\ j \in Jobs /\ t.ticket \in Nat
  BY DEF IInv, OInv, TypeOK, Task
<1>2. Settles(queue, barriers, tasks \ {t})
  BY <1>1, EndStep DEF Join
<1>3. fate' = [fate EXCEPT ![j] = "done"] /\ next' = next
  BY DEF Join
<1>4. Runs(tasks, t.ticket, j)
  BY DEF Runs
<1>5. OrderState[j] = "running" /\ \A n \in Nat : ~Waits(queue, barriers, n, j)
  BY <1>1, <1>4 DEF Mapped
<1>6. \A m \in Nat : \A i \in Jobs :
         Runs(tasks \ {t}, m, i) <=> Runs(tasks, m, i) /\ i # j
  BY <1>1, EndedTickets
<1> HIDE DEF j
<1> DEFINE st == [OrderState EXCEPT ![j] = "done"]
           pl == [OrderPlace EXCEPT ![j] = 0]
<1>7. /\ st = [i \in Jobs |-> IF i = j THEN "done" ELSE OrderState[i]]
      /\ pl = [i \in Jobs |-> IF i = j THEN 0 ELSE OrderPlace[i]]
  BY DEF Mapped
<1> HIDE DEF st, pl
<1>8. Reads(st, pl, queue, barriers, tasks \ {t})
  <2>1. st = [i \in Jobs |-> st[i]]
    BY <1>7
  <2>2. ASSUME NEW i \in Jobs
        PROVE  /\ st[i] = "pending" <=> \E n \in Nat : Waits(queue, barriers, n, i)
               /\ st[i] = "running" <=> \E n \in Nat : Runs(tasks \ {t}, n, i)
               /\ \A n \in Nat : Holds(queue, barriers, tasks \ {t}, n, i) => pl[i] = n
    <3>1. CASE i = j
      BY <1>5, <1>6, <1>7, <3>1 DEF Holds
    <3>2. CASE i # j
      BY <1>6, <1>7, <3>2 DEF Mapped, Holds
    <3>3. QED BY <3>1, <3>2
  <2>3. QED BY <2>1, <2>2 DEF Reads
<1>9. OrderState' = Order!Settled(st, pl)
  <2>1. \A i \in Jobs : fate'[i] # "taken" => st[i] = Word(fate'[i])
    BY <1>1, <1>3, <1>7 DEF Mapped, Word
  <2>2. QED BY <1>1, <1>2, <1>8, <2>1, SettledRead
<1>10. OrderPlace' = pl
  <2>1. \A i \in Jobs :
            /\ fate'[i] # "taken" => pl[i] = 0
            /\ \A n \in Nat : Holds(queue', barriers', tasks', n, i) => pl[i] = n
    BY <1>1, <1>2, <1>3, <1>7, <1>8 DEF Mapped, Settles, Reads
  <2>2. pl = [i \in Jobs |-> pl[i]]
    BY <1>7
  <2>3. QED BY <1>1, <2>1, <2>2, PlacesFollow
<1>11. QED BY <1>3, <1>5, <1>9, <1>10 DEF Order!End, st, pl, j

\* A newer value takes the place of the one that waits.
LEMMA ReplaceRefines ==
    ASSUME IInv, OInv, IInv', OInv', Mapped, Mapped',
           NEW j \in Jobs, fate[j] = "sent", SubmitReplacing(j)
    PROVE  Order!Supersede(j)
<1>1. /\ LanesSound /\ LanesOrdered /\ TakenSound
      /\ LanesSound' /\ LanesOrdered' /\ LanesBusy' /\ TakenSound'
      /\ fate \in [Jobs -> {"unsent", "sent", "taken", "done", "dropped"}]
  BY DEF IInv, OInv, TypeOK
<1>f. /\ Facts(queue, running, barriers, barrier, passed, sent, next, tasks)
      /\ InOrder(queue, running, barriers, barrier, passed)
      /\ RunsInLane(running, barrier, tasks)
  BY <1>1, SoundFacts DEF LanesSound, LanesOrdered, Ordered
<1>2. Holdless(j)
  BY <1>1 DEF TakenSound, Holdless
<1>3. PICK n \in 1..next, old \in Jobs :
         /\ old # j /\ Waits(queue, barriers, n, old) /\ LaneOf[old] = LaneOf[j]
         /\ \E i \in 1..Len(queue[LaneOf[j]]) :
               /\ queue[LaneOf[j]][i].ticket = n /\ queue[LaneOf[j]][i].job = old
               /\ Same(queue[LaneOf[j]][i], j)
         /\ fate' = [fate EXCEPT ![j] = "taken", ![old] = "dropped"]
         /\ \A m \in Nat : \A i \in Jobs :
               Waits(queue', barriers', m, i)
                 <=> (Waits(queue, barriers, m, i) /\ i # old) \/ (m = n /\ i = j)
  BY <1>1, <1>2, ReplacingOrdered
<1>4. n \in Nat /\ tasks' = tasks /\ next' = next
  BY <1>f DEF Facts, SubmitReplacing
<1>5. OrderState[j] = "unsent" /\ OrderState[old] = "pending" /\ OrderPlace[old] = n
  BY <1>1, <1>3, <1>4 DEF Mapped, Word, Holds
<1>6. old \in Order!Superseded(j)
  <2>1. PICK k \in LaneNames : k = LaneOf[j]
    BY DEF SubmitReplacing
  <2>2. PICK i \in 1..Len(queue[k]) : queue[k][i].ticket = n /\ queue[k][i].job = old /\ Same(queue[k][i], j)
    BY <1>3, <2>1
  <2>3. SetsOf[j] # Nothing /\ SetsOf[old] = SetsOf[j] /\ queue[k][i].epoch = sent
    BY <2>2 DEF Same
  <2>4. k # Free /\ k # Barrier
    BY <2>1 DEF LaneNames
  <2>5. ASSUME NEW b \in Jobs, LaneOf[b] = Barrier, OrderState[b] \in {"pending", "running"}
        PROVE  ~(OrderPlace[old] < OrderPlace[b])
    <3>1. CASE OrderState[b] = "pending"
      <4>1. PICK m \in Nat : Waits(queue, barriers, m, b)
        BY <3>1 DEF Mapped
      <4>2. Barrier \notin LaneNames
        BY DEF LaneNames
      <4>3. PICK h \in 1..Len(barriers) : barriers[h].ticket = m /\ barriers[h].job = b
        BY <2>5, <4>1, <4>2, <1>f DEF Waits, InOrder
      <4>4. ~(queue[k][i].epoch < Number(barrier, passed, h))
        BY <2>3, <1>f DEF Facts, Number
      <4>5. barriers[h].ticket < queue[k][i].ticket
        BY <4>4, <1>f DEF InOrder
      <4>6. OrderPlace[b] = m
        BY <4>1 DEF Mapped, Holds
      <4>7. QED BY <1>4, <1>5, <2>2, <4>3, <4>5, <4>6
    <3>2. CASE OrderState[b] = "running"
      <4>1. PICK m \in Nat : Runs(tasks, m, b)
        BY <3>2 DEF Mapped
      <4>2. barrier = m /\ m # 0
        BY <2>5, <4>1, <1>f DEF Runs, RunsInLane, Facts
      <4>3. barrier < queue[k][i].ticket
        BY <4>2, <1>f DEF InOrder
      <4>4. OrderPlace[b] = m
        BY <4>1 DEF Mapped, Holds
      <4>5. QED BY <1>4, <1>5, <2>2, <4>2, <4>3, <4>4
    <3>3. QED BY <2>5, <3>1, <3>2
  <2>6. QED BY <1>3, <1>5, <2>1, <2>3, <2>4, <2>5 DEF Order!Superseded, Order!Active
<1> DEFINE st == [OrderState EXCEPT ![old] = "dropped", ![j] = "pending"]
           pl == [OrderPlace EXCEPT ![old] = 0, ![j] = OrderPlace[old]]
<1>7. /\ st = [i \in Jobs |-> IF i = j THEN "pending" ELSE IF i = old THEN "dropped" ELSE OrderState[i]]
      /\ pl = [i \in Jobs |-> IF i = j THEN n ELSE IF i = old THEN 0 ELSE OrderPlace[i]]
  BY <1>3, <1>5 DEF Mapped
<1> HIDE DEF st, pl
<1>8. /\ \A m \in Nat : ~Runs(tasks, m, old) /\ ~Runs(tasks, m, j) /\ ~Waits(queue, barriers, m, j)
      /\ \A m \in Nat : \A i \in Jobs :
            Waits(queue', barriers', m, i) => Blocked(queue', barriers', tasks', m, i)
  <2>1. \A m \in Nat : ~Runs(tasks, m, old)
    BY <1>1, <1>3, <1>4, <1>f, Exclusive DEF LanesOrdered
  <2>2. \A m \in Nat : \A i \in Jobs :
            Waits(queue', barriers', m, i) => Blocked(queue', barriers', tasks', m, i)
    BY <1>1, BusyBlocked DEF LanesSound, LanesBusy, LanesOrdered
  <2>3. QED BY <1>2, <2>1, <2>2 DEF Holdless, Holds
<1>9. Settles(queue', barriers', tasks')
  BY <1>8 DEF Settles
<1>10. Reads(st, pl, queue', barriers', tasks')
  <2>1. st = [i \in Jobs |-> st[i]]
    BY <1>7
  <2>2. ASSUME NEW i \in Jobs
        PROVE  /\ st[i] = "pending" <=> \E m \in Nat : Waits(queue', barriers', m, i)
               /\ st[i] = "running" <=> \E m \in Nat : Runs(tasks', m, i)
               /\ \A m \in Nat : Holds(queue', barriers', tasks', m, i) => pl[i] = m
    <3>1. CASE i = j
      BY <1>3, <1>4, <1>7, <1>8, <3>1 DEF Holds
    <3>2. CASE i = old
      BY <1>3, <1>4, <1>7, <1>8, <3>2 DEF Holds
    <3>3. CASE i # j /\ i # old
      BY <1>3, <1>4, <1>7, <3>3 DEF Mapped, Holds
    <3>4. QED BY <3>1, <3>2, <3>3
  <2>3. QED BY <2>1, <2>2 DEF Reads
<1>11. \A i \in Jobs : fate'[i] = IF i = old THEN "dropped" ELSE IF i = j THEN "taken" ELSE fate[i]
  BY <1>1, <1>3
<1>12. OrderState' = Order!Settled(st, pl)
  <2>1. \A i \in Jobs : fate'[i] # "taken" => st[i] = Word(fate'[i])
    <3> SUFFICES ASSUME NEW i \in Jobs, fate'[i] # "taken" PROVE st[i] = Word(fate'[i])
      OBVIOUS
    <3>1. CASE i = old
      <4>1. old # j
        BY <1>3
      <4>2. st[i] = "dropped" /\ fate'[i] = "dropped"
        BY <1>7, <1>11, <3>1, <4>1
      <4>3. QED BY <4>2 DEF Word
    <3>2. CASE i # old
      <4>1. i # j /\ fate'[i] = fate[i] /\ st[i] = OrderState[i]
        BY <1>7, <1>11, <3>2
      <4>2. QED BY <4>1 DEF Mapped
    <3>3. QED BY <3>1, <3>2
  <2>2. QED BY <1>1, <1>9, <1>10, <2>1, SettledRead
<1>13. OrderPlace' = pl
  <2>1. \A i \in Jobs :
            /\ fate'[i] # "taken" => pl[i] = 0
            /\ \A m \in Nat : Holds(queue', barriers', tasks', m, i) => pl[i] = m
    BY <1>3, <1>7, <1>10, <1>11 DEF Mapped, Reads
  <2>2. pl = [i \in Jobs |-> pl[i]]
    BY <1>7
  <2>3. QED BY <1>1, <2>1, <2>2, PlacesFollow
<1>14. QED BY <1>4, <1>5, <1>6, <1>12, <1>13 DEF Order!Supersede, st, pl

\* A step that leaves the lanes and the tasks alone is none of the order's.
LEMMA RestStutters ==
    ASSUME Mapped, Mapped',
           UNCHANGED <<queue, barriers, tasks, next>>,
           \A j \in Jobs : fate'[j] = fate[j] \/ (fate[j] = "unsent" /\ fate'[j] = "sent")
    PROVE  UNCHANGED <<OrderState, OrderPlace, next>>
<1>1. ASSUME NEW j \in Jobs
      PROVE  OrderState'[j] = OrderState[j] /\ OrderPlace'[j] = OrderPlace[j]
  <2>1. /\ OrderState'[j] = "pending" <=> OrderState[j] = "pending"
        /\ OrderState'[j] = "running" <=> OrderState[j] = "running"
    BY DEF Mapped
  <2>2. CASE fate[j] = "taken"
    <3>1. fate'[j] = "taken"
      BY <2>2
    <3>2. OrderState'[j] = OrderState[j]
      BY <2>1, <2>2 DEF Mapped
    <3>3. PICK n \in Nat : Holds(queue, barriers, tasks, n, j)
      BY <2>2 DEF Mapped, Holds
    <3>4. Holds(queue', barriers', tasks', n, j)
      BY <3>3 DEF Holds, Waits, Runs
    <3>5. OrderPlace'[j] = n /\ OrderPlace[j] = n
      BY <3>3, <3>4 DEF Mapped
    <3>6. QED BY <3>2, <3>5
  <2>3. CASE fate[j] # "taken"
    <3>1. fate'[j] # "taken" /\ Word(fate'[j]) = Word(fate[j])
      BY <2>3 DEF Word
    <3>2. QED BY <2>3, <3>1 DEF Mapped
  <2>4. QED BY <2>2, <2>3
<1>2. /\ OrderState' = [j \in Jobs |-> OrderState'[j]] /\ OrderPlace' = [j \in Jobs |-> OrderPlace'[j]]
      /\ OrderState = [j \in Jobs |-> OrderState[j]] /\ OrderPlace = [j \in Jobs |-> OrderPlace[j]]
  BY DEF Mapped
<1>3. OrderState' = OrderState /\ OrderPlace' = OrderPlace
  BY <1>1, <1>2
<1>4. QED BY <1>3

\* The queues, the epochs and the counts of barriers keep exactly the order
\* promised (deck/src/lanes.rs:1-14): whatever jobs are sent to whatever lanes,
\* each runs when, and not before, every earlier one it conflicts with is over.
THEOREM LanesKeepTheOrder == Spec => KeepsTheOrder
<1>1. Init => Order!Start
  <2> SUFFICES ASSUME Init PROVE Order!Start
    OBVIOUS
  <2>1. \A j \in Jobs : fate[j] = "unsent"
    BY DEF Init
  <2>2. OrderState = [j \in Jobs |-> "unsent"]
    BY <2>1 DEF OrderState
  <2>3. \A j \in Jobs : TicketOf(j) = 0
    <3> SUFFICES ASSUME NEW j \in Jobs PROVE TicketOf(j) = 0
      OBVIOUS
    <3>1. /\ \A k \in LaneNames : DOMAIN queue[k] = {}
          /\ DOMAIN barriers = {} /\ tasks = {}
      BY DEF Init
    <3> DEFINE places(k) == {queue[k][i] : i \in {h \in DOMAIN queue[k] : queue[k][h].job = j}}
    <3>2. \A k \in LaneNames : places(k) = {}
      BY <3>1
    <3>3. UNION {places(k) : k \in LaneNames} = {}
      BY <3>2
    <3>4. {barriers[i] : i \in {h \in DOMAIN barriers : barriers[h].job = j}} = {}
      BY <3>1
    <3>5. {t \in tasks : t.job = j} = {}
      BY <3>1
    <3>6. QED BY <3>3, <3>4, <3>5 DEF TicketOf
  <2>4. OrderPlace = [j \in Jobs |-> 0]
    BY <2>3 DEF OrderPlace
  <2>5. QED BY <2>2, <2>4 DEF Init, Order!Start
<1>2. /\ IInv /\ OInv /\ Mapped /\ IInv' /\ OInv' /\ Mapped' /\ [Next]_vars
      => [Order!Move]_(Order!orderVars)
  <2> SUFFICES ASSUME IInv, OInv, Mapped, IInv', OInv', Mapped', [Next]_vars
               PROVE  Order!Move \/ UNCHANGED <<OrderState, OrderPlace, next>>
    BY DEF Order!orderVars
  <2>1. CASE Take
    <3>1. Head(inbox) \in Jobs /\ fate[Head(inbox)] = "sent"
      <4>1. inbox \in Seq(Jobs) /\ inbox # <<>>
        BY <2>1 DEF Take, IInv, TypeOK
      <4>2. Head(inbox) = inbox[1] /\ Head(inbox) \in Jobs /\ 1 \in 1..Len(inbox)
        BY <4>1, HeadTailProperties, LenProperties, EmptySeq
      <4>3. QED BY <4>2 DEF OInv, InboxSound
    <3>2. PICK j \in Jobs : /\ fate[j] = "sent"
                            /\ SubmitFree(j) \/ SubmitReplacing(j) \/ SubmitLane(j) \/ SubmitBarrier(j)
      BY <2>1, <3>1 DEF Take
    <3>3. Order!Enter(j) \/ Order!Supersede(j)
      BY <3>2, FreeRefines, ReplaceRefines, EnterRefines
    <3>4. QED BY <3>3 DEF Order!Move
  <2>2. ASSUME NEW t \in tasks, Join(t) PROVE Order!Move
    <3>1. Order!End(t.job) /\ t.job \in Jobs
      BY <2>2, EndRefines DEF IInv, TypeOK, Task
    <3>2. QED BY <3>1 DEF Order!Move
  <2>3. ASSUME NEW j \in Jobs, Send(j) PROVE UNCHANGED <<OrderState, OrderPlace, next>>
    <3>1. /\ UNCHANGED <<queue, barriers, tasks, next>>
          /\ \A i \in Jobs : fate'[i] = fate[i] \/ (fate[i] = "unsent" /\ fate'[i] = "sent")
      BY <2>3 DEF Send, laneVars, IInv, TypeOK
    <3>2. QED BY <3>1, RestStutters
  <2>4. CASE DropSenders \/ InboxOver \/ Return \/ UNCHANGED vars
    <3>1. UNCHANGED <<queue, barriers, tasks, next, fate>>
      BY <2>4 DEF DropSenders, InboxOver, Return, vars, laneVars
    <3>2. QED BY <3>1, RestStutters
  <2>5. QED BY <2>1, <2>2, <2>3, <2>4 DEF Next
<1>3. QED
  BY <1>1, <1>2, OrderInductive, Mapping, PTL DEF Spec, KeepsTheOrder, Order!Spec

-----------------------------------------------------------------------------
(* The last value wins.                                                    *)

Sets(j) == SetsOf[j] # Nothing
Out == {"sent", "taken"}

\* Of two waiting values for the same thing, a barrier was sent in between.
Apart(q) ==
    \A k \in LaneNames : \A i, h \in 1..Len(q[k]) :
        i < h /\ Sets(q[k][i].job) /\ SetsOf[q[k][h].job] = SetsOf[q[k][i].job]
          => q[k][i].epoch # q[k][h].epoch

SentSound == \A j \in Jobs : fate[j] = "sent" => \E i \in 1..Len(inbox) : inbox[i] = j

\* z, the value sent last for the same thing as j, is over no earlier than j.
Outlasts(z, j, f, ib, q, bs, ts) ==
    /\ z \in Jobs /\ Sets(z) /\ Thing(z) = Thing(j) /\ f[z] \in Out
    /\ f[j] = "sent" =>
          /\ f[z] = "sent"
          /\ \A i, h \in 1..Len(ib) : ib[i] = j /\ ib[h] = z => i <= h
    /\ f[j] = "taken" /\ f[z] = "taken" =>
          \A n, m \in Nat : Holds(q, bs, ts, n, j) /\ Holds(q, bs, ts, m, z) => n <= m

NotBefore(z, j) == Outlasts(z, j, fate, inbox, queue, barriers, tasks)

LastSound ==
    \A j \in Jobs : Sets(j) /\ fate[j] \in Out => NotBefore(lastSent[Thing(j)], j)

VInv == Apart(queue) /\ SentSound /\ LastSound /\ LastValueWins

\* Whatever starts, waiting values stay apart.
LEMMA StartApart ==
    ASSUME NEW q, NEW r, NEW bs, NEW b, NEW p, NEW s, NEW n, NEW live,
           Sound(q, r, bs, b, p, s, n, live), StartFrom(q, r, bs, b, p, live), Apart(q)
    PROVE  Apart(queue')
<1>f. \A k \in LaneNames : Len(q[k]) \in Nat
  <2>1. Facts(q, r, bs, b, p, s, n, live)
    BY SoundFacts
  <2>2. QED BY <2>1 DEF Facts
<1>1. CASE StartsNothing(q, r, bs, b, live) \/ FirstBarrier(q, r, bs, b, p, live)
  <2>1. queue' = q
    BY <1>1 DEF StartsNothing, FirstBarrier
  <2>2. QED BY <2>1
<1>2. CASE Heads(q, r, bs, b, p, live)
  <2> SUFFICES ASSUME NEW k \in LaneNames, NEW i \in 1..Len(queue'[k]), NEW h \in 1..Len(queue'[k]),
                      i < h, Sets(queue'[k][i].job),
                      SetsOf[queue'[k][h].job] = SetsOf[queue'[k][i].job]
               PROVE  queue'[k][i].epoch # queue'[k][h].epoch
    BY DEF Apart
  <2>1. CASE k \notin Ready(q, r, p)
    <3>1. queue'[k] = q[k]
      BY <1>2, <2>1 DEF Heads
    <3>2. QED BY <3>1 DEF Apart
  <2>2. CASE k \in Ready(q, r, p)
    <3>1. /\ Len(queue'[k]) = Len(q[k]) - 1 /\ Len(q[k]) >= 1
          /\ queue'[k][i] = q[k][i + 1] /\ queue'[k][h] = q[k][h + 1]
      BY <1>2, <2>2 DEF Heads
    <3>2. i + 1 \in 1..Len(q[k]) /\ h + 1 \in 1..Len(q[k]) /\ i + 1 < h + 1
      BY <1>f, <3>1
    <3>3. QED BY <3>1, <3>2 DEF Apart
  <2>3. QED BY <2>1, <2>2
<1>3. QED BY <1>1, <1>2, Starts

\* A step keeps waiting values apart.
LEMMA TakeApart ==
    ASSUME LanesSound, LanesOrdered, NEW j \in Jobs, Holdless(j), Apart(queue),
           SubmitFree(j) \/ SubmitReplacing(j) \/ SubmitLane(j) \/ SubmitBarrier(j)
    PROVE  Apart(queue')
<1>1. CASE SubmitFree(j)
  BY <1>1 DEF SubmitFree
<1>2. CASE SubmitBarrier(j)
  <2>1. StartFrom(queue, running, Append(barriers, NewBarrier(j)), barrier, passed, tasks)
    BY <1>2 DEF SubmitBarrier, NewBarrier
  <2>2. QED BY <2>1, AppendedSound, StartApart
<1>3. CASE SubmitLane(j)
  <2>1. PICK k \in LaneNames : k = LaneOf[j]
    BY <1>3 DEF SubmitLane
  <2>2. /\ StartFrom(Longer(j), running, barriers, barrier, passed, tasks)
        /\ \A i \in DOMAIN queue[k] : ~Same(queue[k][i], j)
    BY <1>3, <2>1 DEF SubmitLane, Longer, NewPlace
  <2>3. /\ queue \in [LaneNames -> Seq(Place)] /\ queue[k] \in Seq(Place) /\ NewPlace(j) \in Place
        /\ DOMAIN queue[k] = 1..Len(queue[k]) /\ Len(queue[k]) \in Nat
    <3>1. queue \in [LaneNames -> Seq(Place)] /\ next \in Nat /\ sent \in Nat
      BY DEF LanesSound, Sound
    <3>2. NewPlace(j) \in Place
      BY <3>1 DEF NewPlace, Place
    <3>3. QED BY <3>1, <3>2, LenProperties
  <2>4. /\ Longer(j)[k] = Append(queue[k], NewPlace(j))
        /\ \A l \in LaneNames : l # k => Longer(j)[l] = queue[l]
    BY <2>1, <2>3 DEF Longer
  <2>5. /\ Len(Longer(j)[k]) = Len(queue[k]) + 1
        /\ \A i \in 1..Len(queue[k]) : Longer(j)[k][i] = queue[k][i]
        /\ Longer(j)[k][Len(queue[k]) + 1] = NewPlace(j)
    BY <2>3, <2>4, AppendProperties
  <2>6. NewPlace(j).epoch = sent /\ NewPlace(j).job = j
    BY DEF NewPlace
  <2>7. Apart(Longer(j))
    <3> SUFFICES ASSUME NEW l \in LaneNames, NEW i \in 1..Len(Longer(j)[l]), NEW h \in 1..Len(Longer(j)[l]),
                        i < h, Sets(Longer(j)[l][i].job),
                        SetsOf[Longer(j)[l][h].job] = SetsOf[Longer(j)[l][i].job]
                 PROVE  Longer(j)[l][i].epoch # Longer(j)[l][h].epoch
      BY DEF Apart
    <3>1. CASE l # k
      <4>1. Longer(j)[l] = queue[l]
        BY <2>4, <3>1
      <4>2. QED BY <4>1 DEF Apart
    <3>2. CASE l = k
      <4>1. i \in 1..Len(queue[k]) /\ Longer(j)[k][i] = queue[k][i]
        BY <2>3, <2>5, <3>2
      <4>2. CASE h \in 1..Len(queue[k])
        <5>1. Longer(j)[k][h] = queue[k][h]
          BY <2>5, <4>2
        <5>2. QED BY <3>2, <4>1, <4>2, <5>1 DEF Apart
      <4>3. CASE h = Len(queue[k]) + 1
        <5>1. Longer(j)[k][h] = NewPlace(j)
          BY <2>5, <4>3
        <5>2. ~Same(queue[k][i], j)
          BY <2>2, <2>3, <4>1
        <5>3. SetsOf[j] # Nothing /\ SetsOf[queue[k][i].job] = SetsOf[j]
          BY <2>6, <3>2, <4>1, <5>1 DEF Sets
        <5>4. QED BY <2>6, <3>2, <4>1, <5>1, <5>2, <5>3 DEF Same
      <4>4. QED BY <2>3, <2>5, <3>2, <4>2, <4>3
    <3>3. QED BY <3>1, <3>2
  <2>8. QED BY <2>1, <2>2, <2>7, LongerSound, StartApart
<1>4. CASE SubmitReplacing(j)
  <2>1. PICK k \in LaneNames : k = LaneOf[j]
    BY <1>4 DEF SubmitReplacing
  <2>2. /\ queue \in [LaneNames -> Seq(Place)] /\ queue[k] \in Seq(Place)
        /\ DOMAIN queue[k] = 1..Len(queue[k]) /\ Len(queue[k]) \in Nat
    BY LenProperties DEF LanesSound, Sound
  <2>3. PICK g \in 1..Len(queue[k]) : /\ Same(queue[k][g], j)
                                      /\ queue' = [queue EXCEPT ![k][g].job = j]
    BY <1>4, <2>1, <2>2 DEF SubmitReplacing
  <2> DEFINE now == [queue[k][g] EXCEPT !.job = j]
             line == [queue[k] EXCEPT ![g] = now]
  <2>4. now \in Place /\ now.epoch = queue[k][g].epoch /\ now.job = j
    <3>1. queue[k][g] \in Place
      BY <2>2, ElementOfSeq
    <3>2. QED BY <3>1 DEF Place
  <2> HIDE DEF now
  <2>5. /\ Len(line) = Len(queue[k])
        /\ \A h \in 1..Len(queue[k]) : line[h] = IF h = g THEN now ELSE queue[k][h]
    BY <2>2, <2>4, ExceptSeq
  <2>6. queue' = [queue EXCEPT ![k] = line]
    BY <2>2, <2>3 DEF now
  <2> HIDE DEF line
  <2>7. queue'[k] = line /\ \A l \in LaneNames : l # k => queue'[l] = queue[l]
    BY <2>2, <2>6
  <2>8. \A h \in 1..Len(queue[k]) : /\ line[h].epoch = queue[k][h].epoch
                                   /\ SetsOf[line[h].job] = SetsOf[queue[k][h].job]
    BY <2>3, <2>4, <2>5 DEF Same
  <2> SUFFICES ASSUME NEW l \in LaneNames, NEW i \in 1..Len(queue'[l]), NEW h \in 1..Len(queue'[l]),
                      i < h, Sets(queue'[l][i].job),
                      SetsOf[queue'[l][h].job] = SetsOf[queue'[l][i].job]
               PROVE  queue'[l][i].epoch # queue'[l][h].epoch
    BY DEF Apart
  <2>9. CASE l # k
    <3>1. queue'[l] = queue[l]
      BY <2>7, <2>9
    <3>2. QED BY <3>1 DEF Apart
  <2>10. CASE l = k
    <3>1. /\ i \in 1..Len(queue[k]) /\ h \in 1..Len(queue[k])
          /\ queue'[l][i] = line[i] /\ queue'[l][h] = line[h]
      BY <2>5, <2>7, <2>10
    <3>2. /\ Sets(queue[k][i].job) /\ SetsOf[queue[k][h].job] = SetsOf[queue[k][i].job]
          /\ line[i].epoch = queue[k][i].epoch /\ line[h].epoch = queue[k][h].epoch
      BY <2>8, <3>1 DEF Sets
    <3>3. QED BY <3>1, <3>2 DEF Apart
  <2>11. QED BY <2>9, <2>10
<1>5. QED BY <1>1, <1>2, <1>3, <1>4

\* The place given is the last that is held for what it sets.
LEMMA GivenLast ==
    ASSUME LanesSound, LanesOrdered, Apart(queue),
           NEW j \in Jobs, NEW n \in Nat, NEW old \in Jobs, Given(j, n, old),
           NEW i \in Jobs, i # old, Thing(i) = Thing(j),
           NEW m \in Nat, Holds(queue, barriers, tasks, m, i)
    PROVE  m <= n
<1>f. /\ Facts(queue, running, barriers, barrier, passed, sent, next, tasks)
      /\ InOrder(queue, running, barriers, barrier, passed)
      /\ RunsInLane(running, barrier, tasks)
  BY SoundFacts DEF LanesSound, LanesOrdered, Ordered
<1>1. PICK k \in LaneNames : k = LaneOf[j]
  BY DEF Given
<1>2. PICK g \in 1..Len(queue[k]) :
         queue[k][g].ticket = n /\ queue[k][g].job = old /\ Same(queue[k][g], j)
  BY <1>1 DEF Given
<1>3. /\ LaneOf[i] = k /\ SetsOf[i] = SetsOf[j] /\ SetsOf[j] # Nothing
      /\ SetsOf[old] = SetsOf[j] /\ queue[k][g].epoch = sent /\ k # Barrier
  BY <1>1, <1>2 DEF Thing, Same, LaneNames
<1>4. CASE Runs(tasks, m, i)
  <2>1. running[k].ticket = m /\ m # 0
    BY <1>3, <1>4, <1>f DEF Runs, RunsInLane, Facts
  <2>2. running[k].ticket < queue[k][g].ticket
    BY <2>1, <1>f DEF Idle, InOrder
  <2>3. QED BY <1>2, <2>1, <2>2
<1>5. ASSUME NEW l \in LaneNames, NEW h \in 1..Len(queue[l]),
             queue[l][h].ticket = m, queue[l][h].job = i
      PROVE  m <= n
  <2>1. l = k
    BY <1>3, <1>5, <1>f DEF InOrder
  <2>2. h \in Nat /\ g \in Nat /\ h # g
    BY <1>2, <1>5, <2>1, <1>f DEF Facts
  <2>3. CASE h < g
    <3>1. queue[k][h].ticket < queue[k][g].ticket
      BY <1>5, <2>1, <2>3, <1>f DEF InOrder
    <3>2. QED BY <1>2, <1>5, <2>1, <3>1
  <2>4. CASE g < h
    <3>1. h \in 1..Len(queue[k]) /\ queue[k][h].job = i
      BY <1>5, <2>1
    <3>2. queue[k][g].epoch # queue[k][h].epoch
      BY <1>2, <1>3, <2>4, <3>1 DEF Apart, Sets
    <3>3. /\ queue[k][g].epoch <= queue[k][h].epoch /\ queue[k][h].epoch \in passed..sent
          /\ passed \in Nat /\ sent \in Nat
      BY <2>2, <2>4, <3>1, <1>f DEF Facts
    <3>4. QED BY <1>3, <3>2, <3>3
  <2>5. QED BY <2>2, <2>3, <2>4
<1>6. ASSUME NEW h \in 1..Len(barriers), barriers[h].job = i PROVE FALSE
  BY <1>3, <1>6, <1>f DEF InOrder
<1>7. QED BY <1>4, <1>5, <1>6 DEF Holds, Waits

\* Taking a job keeps the last value last.
LEMMA TakeLast ==
    ASSUME IInv, OInv, OInv', VInv, Take
    PROVE  VInv'
<1>1. PICK j \in Jobs :
         /\ fate[j] = "sent" /\ Holdless(j)
         /\ SubmitFree(j) \/ SubmitReplacing(j) \/ SubmitLane(j) \/ SubmitBarrier(j)
         /\ Len(inbox) \in Nat /\ Len(inbox) >= 1 /\ inbox[1] = j
         /\ Len(inbox') = Len(inbox) - 1
         /\ \A i \in 1..Len(inbox') : i + 1 \in 1..Len(inbox) /\ inbox'[i] = inbox[i + 1]
         /\ UNCHANGED <<lastSent, lastDone>>
  BY TakeFacts
<1>2. /\ LanesSound /\ LanesOrdered /\ LanesOrdered' /\ next \in Nat
      /\ Apart(queue) /\ SentSound /\ LastSound /\ LastValueWins
      /\ \A i, h \in 1..Len(inbox) : inbox[i] = inbox[h] => i = h
      /\ fate \in [Jobs -> {"unsent", "sent", "taken", "done", "dropped"}]
  BY DEF IInv, OInv, VInv, InboxSound, TypeOK
<1>3. Apart(queue')
  BY <1>1, <1>2, TakeApart
<1>4. Fresh(j) \/ \E n \in 1..next, old \in Jobs : Given(j, n, old)
  BY <1>1, TakeHolds
<1>5. /\ fate'[j] = "taken"
      /\ \A i \in Jobs : i # j => \/ fate'[i] = fate[i]
                                  \/ fate[i] = "taken" /\ fate'[i] = "dropped"
  BY <1>2, <1>4 DEF Fresh, Given
<1>6. SentSound'
  <2> SUFFICES ASSUME NEW i \in Jobs, fate'[i] = "sent"
               PROVE  \E h \in 1..Len(inbox') : inbox'[h] = i
    BY DEF SentSound
  <2>1. i # j /\ fate[i] = "sent"
    BY <1>5
  <2>2. PICK h \in 1..Len(inbox) : inbox[h] = i
    BY <1>2, <2>1 DEF SentSound
  <2>3. h - 1 \in 1..Len(inbox') /\ (h - 1) + 1 = h
    BY <1>1, <2>1, <2>2
  <2>4. inbox'[h - 1] = i
    BY <1>1, <2>2, <2>3
  <2>5. QED BY <2>3, <2>4
\* Whoever is superseded sets the same thing as j, and was not sent last.
<1>7. ASSUME NEW x \in Jobs, x # j, fate'[x] # fate[x]
      PROVE  Sets(j) /\ Thing(x) = Thing(j) /\ lastSent[Thing(j)] # x
  <2>1. PICK n \in 1..next, old \in Jobs : Given(j, n, old)
    BY <1>2, <1>4, <1>7 DEF Fresh
  <2>2. x = old
    BY <1>2, <1>7, <2>1 DEF Given
  <2>3. PICK k \in LaneNames : k = LaneOf[j]
    BY <2>1 DEF Given
  <2>4. PICK g \in 1..Len(queue[k]) : queue[k][g].job = old /\ Same(queue[k][g], j)
    BY <2>1, <2>3 DEF Given
  <2>5. LaneOf[old] = k
    BY <1>2, <2>4 DEF LanesOrdered, Ordered, InOrder
  <2>6. Sets(j) /\ Thing(x) = Thing(j)
    BY <2>2, <2>3, <2>4, <2>5 DEF Sets, Thing, Same
  <2>7. NotBefore(lastSent[Thing(j)], j)
    BY <1>1, <1>2, <2>6 DEF LastSound, Out
  <2>8. fate[lastSent[Thing(j)]] = "sent"
    BY <1>1, <2>7 DEF NotBefore, Outlasts
  <2>9. QED BY <1>5, <1>7, <2>6, <2>8
<1>8. LastSound'
  <2> SUFFICES ASSUME NEW i \in Jobs, Sets(i), fate'[i] \in Out
               PROVE  NotBefore(lastSent[Thing(i)], i)'
    BY <1>1 DEF LastSound
  <2> DEFINE z == lastSent[Thing(i)]
  <2>1. fate[i] \in Out
    BY <1>1, <1>5 DEF Out
  <2>2. NotBefore(z, i)
    BY <1>2, <2>1 DEF LastSound
  <2>3. z \in Jobs /\ Sets(z) /\ Thing(z) = Thing(i) /\ fate[z] \in Out
    BY <2>2 DEF NotBefore, Outlasts
  <2>4. fate'[z] \in Out /\ (z # j => fate'[z] = fate[z])
    BY <1>5, <1>7, <2>3 DEF Out
  <2>5. ASSUME fate'[i] = "sent"
        PROVE  /\ fate'[z] = "sent"
               /\ \A g, h \in 1..Len(inbox') : inbox'[g] = i /\ inbox'[h] = z => g <= h
    <3>1. i # j /\ fate[i] = "sent"
      BY <1>5, <2>5
    <3>2. fate[z] = "sent" /\ \A g, h \in 1..Len(inbox) : inbox[g] = i /\ inbox[h] = z => g <= h
      BY <2>2, <3>1 DEF NotBefore, Outlasts
    <3>3. z # j
      <4>1. PICK g \in 1..Len(inbox) : inbox[g] = i
        BY <1>2, <3>1 DEF SentSound
      <4>2. 1 \in 1..Len(inbox) /\ g # 1 /\ ~(g <= 1)
        BY <1>1, <3>1, <4>1
      <4>3. QED BY <1>1, <3>2, <4>1, <4>2
    <3>4. ASSUME NEW g \in 1..Len(inbox'), NEW h \in 1..Len(inbox'), inbox'[g] = i, inbox'[h] = z
          PROVE  g <= h
      <4>1. g + 1 <= h + 1
        BY <1>1, <3>2, <3>4
      <4>2. QED BY <1>1, <4>1
    <3>5. QED BY <2>4, <3>2, <3>3, <3>4
  <2>6. ASSUME fate'[i] = "taken", fate'[z] = "taken",
               NEW n \in Nat, NEW m \in Nat,
               Holds(queue', barriers', tasks', n, i), Holds(queue', barriers', tasks', m, z)
        PROVE  n <= m
    <3>1. CASE i = z
      <4>1. Tickets(queue', barriers', tasks')
        BY <1>2 DEF LanesOrdered, Ordered
      <4>2. Holds(queue', barriers', tasks', n, i) /\ Holds(queue', barriers', tasks', m, i)
        BY <2>6, <3>1
      <4>3. n = m
        BY <4>1, <4>2 DEF Tickets
      <4>4. QED BY <4>3
    <3>2. CASE i # z /\ i = j
      <4>1. fate[z] = "sent"
        BY <1>1, <2>2, <3>2 DEF NotBefore, Outlasts
      <4>2. QED BY <2>4, <2>6, <3>2, <4>1
    <3>3. CASE i # j
      <4>1. fate[i] = "taken" /\ fate'[i] = fate[i]
        BY <1>5, <2>6, <3>3
      <4>2. Holds(queue, barriers, tasks, n, i)
        BY <1>4, <2>6, <3>3 DEF Fresh, Given
      <4>3. CASE z # j
        <5>1. Holds(queue, barriers, tasks, m, z) /\ fate[z] = "taken"
          BY <1>4, <2>3, <2>4, <2>6, <4>3 DEF Fresh, Given
        <5>2. QED BY <2>2, <4>1, <4>2, <5>1 DEF NotBefore, Outlasts
      <4>4. CASE z = j
        <5>1. CASE Fresh(j)
          <6>1. m = next + 1
            BY <1>1, <2>6, <4>4, <5>1 DEF Fresh, Holdless
          <6>2. n \in 1..next
            BY <1>2, <4>2, SoundFacts, HeldTickets DEF LanesSound
          <6>3. QED BY <1>2, <6>1, <6>2
        <5>2. ASSUME NEW a \in 1..next, NEW old \in Jobs, Given(j, a, old)
              PROVE  n <= m
          <6>1. m = a /\ a \in Nat
            BY <1>1, <1>2, <2>6, <4>4, <5>2 DEF Given, Holdless
          <6>2. i # old
            BY <1>2, <2>6, <5>2 DEF Given
          <6>3. QED BY <1>2, <2>3, <4>2, <4>4, <5>2, <6>1, <6>2, GivenLast
        <5>3. QED BY <1>4, <5>1, <5>2
      <4>5. QED BY <4>3, <4>4
    <3>4. QED BY <3>1, <3>2, <3>3
  <2>7. NotBefore(z, i)'
    BY <1>1, <2>3, <2>4, <2>5, <2>6 DEF NotBefore, Outlasts
  <2>8. QED BY <2>7
<1>9. LastValueWins'
  <2> SUFFICES ASSUME NEW t \in Things, \A i \in Jobs : Thing(i) = t => fate'[i] \notin {"sent", "taken"}
               PROVE  lastDone[t] = lastSent[t]
    BY <1>1 DEF LastValueWins
  <2>1. Thing(j) # t
    BY <1>5
  <2>2. \A i \in Jobs : Thing(i) = t => fate'[i] = fate[i]
    BY <1>7, <2>1
  <2>3. QED BY <1>2, <2>2 DEF LastValueWins
<1>10. QED BY <1>3, <1>6, <1>8, <1>9 DEF VInv

\* The end of a task keeps the last value last.
LEMMA JoinLast ==
    ASSUME IInv, OInv, OInv', VInv, NEW t \in tasks, Join(t)
    PROVE  VInv'
<1> DEFINE j == t.job
<1>1. /\ LanesSound /\ LanesOrdered /\ TakenSound
      /\ Apart(queue) /\ SentSound /\ LastSound /\ LastValueWins
      /\ fate \in [Jobs -> {"unsent", "sent", "taken", "done", "dropped"}]
      /\ lastDone \in [Things -> Jobs \cup {Nothing}]
      /\ j \in Jobs /\ t.ticket \in Nat
  BY DEF IInv, OInv, VInv, TypeOK, Task
<1>2. /\ fate' = [fate EXCEPT ![j] = "done"]
      /\ lastDone' = IF Sets(j) THEN [lastDone EXCEPT ![Thing(j)] = j] ELSE lastDone
      /\ UNCHANGED <<inbox, lastSent>>
  BY DEF Join, Sets
<1>3. Settles(queue, barriers, tasks \ {t})
  BY <1>1, EndStep DEF Join
<1>4. Runs(tasks, t.ticket, j)
  BY DEF Runs
<1>5. fate[j] = "taken"
  BY <1>1, <1>4 DEF TakenSound, Holds
<1>6. \A m \in Nat : \A i \in Jobs :
         Holds(queue', barriers', tasks', m, i) => Holds(queue, barriers, tasks, m, i)
  BY <1>1, <1>3, EndedTickets DEF Settles, Holds
<1>7. Apart(queue')
  <2>1. CASE barrier = t.ticket /\ StartFrom(queue, running, barriers, 0, passed + 1, tasks \ {t})
    BY <1>1, <2>1, PassedSound, StartApart
  <2>2. CASE barrier # t.ticket /\ StartFrom(queue, Freed(t), barriers, barrier, passed, tasks \ {t})
    BY <1>1, <2>2, FreedSound, StartApart
  <2>3. QED BY <2>1, <2>2 DEF Join, Finished, Freed
<1> HIDE DEF j
<1>8. SentSound'
  BY <1>1, <1>2, <1>5 DEF SentSound
\* The value sent last ends after all the others for the same thing.
<1>9. ASSUME NEW i \in Jobs, i # j, Sets(i), fate[i] \in Out
      PROVE  lastSent[Thing(i)] # j
  <2>1. SUFFICES ASSUME lastSent[Thing(i)] = j PROVE FALSE
    OBVIOUS
  <2>2. NotBefore(j, i)
    BY <1>1, <1>9, <2>1 DEF LastSound
  <2>3. fate[i] = "taken" /\ Thing(i) = Thing(j)
    BY <1>5, <1>9, <2>2 DEF NotBefore, Outlasts, Out
  <2>4. PICK n \in Nat : Holds(queue, barriers, tasks, n, i)
    BY <1>1, <2>3 DEF TakenSound
  <2>5. n <= t.ticket /\ n # t.ticket
    BY <1>1, <1>4, <1>5, <1>9, <2>2, <2>3, <2>4 DEF NotBefore, Outlasts, Holds, LanesOrdered, Ordered, Tickets
  <2>6. /\ Facts(queue, running, barriers, barrier, passed, sent, next, tasks)
        /\ InOrder(queue, running, barriers, barrier, passed)
        /\ RunsInLane(running, barrier, tasks)
    BY <1>1, SoundFacts DEF LanesSound, LanesOrdered, Ordered
  <2>7. /\ LaneOf[i] = LaneOf[j] /\ LaneOf[j] \in LaneNames /\ LaneOf[j] # Barrier
    BY <1>1, <1>9, <2>3, KindsAssumption DEF Thing, Sets, LaneNames
  <2>8. running[LaneOf[j]].ticket = t.ticket /\ t.ticket # 0
    BY <2>6, <2>7 DEF RunsInLane, Facts, j
  <2>9. CASE Runs(tasks, n, i)
    BY <2>5, <2>6, <2>7, <2>8, <2>9 DEF Runs, RunsInLane
  <2>10. ASSUME NEW l \in LaneNames, NEW h \in 1..Len(queue[l]),
                queue[l][h].ticket = n, queue[l][h].job = i
         PROVE  FALSE
    <3>1. l = LaneOf[j]
      BY <2>6, <2>7, <2>10 DEF InOrder
    <3>2. running[l] # Idle
      BY <2>8, <3>1 DEF Idle
    <3>3. running[l].ticket < queue[l][h].ticket
      BY <2>6, <3>2 DEF InOrder
    <3>4. QED BY <1>1, <2>5, <2>8, <2>10, <3>1, <3>3
  <2>11. ASSUME NEW h \in 1..Len(barriers), barriers[h].job = i PROVE FALSE
    BY <2>6, <2>7, <2>11 DEF InOrder
  <2>12. QED BY <2>4, <2>9, <2>10, <2>11 DEF Holds, Waits
<1>10. LastSound'
  <2> SUFFICES ASSUME NEW i \in Jobs, Sets(i), fate'[i] \in Out
               PROVE  NotBefore(lastSent[Thing(i)], i)'
    BY <1>2 DEF LastSound
  <2> DEFINE z == lastSent[Thing(i)]
  <2>1. i # j /\ fate[i] \in Out /\ fate'[i] = fate[i]
    BY <1>1, <1>2 DEF Out
  <2>2. NotBefore(z, i) /\ z # j
    BY <1>1, <1>9, <2>1 DEF LastSound
  <2>3. z \in Jobs /\ fate'[z] = fate[z]
    BY <1>1, <1>2, <2>2 DEF NotBefore, Outlasts
  <2>4. NotBefore(z, i)'
    BY <1>2, <1>6, <2>1, <2>2, <2>3 DEF NotBefore, Outlasts
  <2>5. QED BY <2>4
<1>11. LastValueWins'
  <2> SUFFICES ASSUME NEW u \in Things, \A i \in Jobs : Thing(i) = u => fate'[i] \notin {"sent", "taken"}
               PROVE  lastDone'[u] = lastSent[u]
    BY <1>2 DEF LastValueWins
  <2>1. CASE Sets(j) /\ Thing(j) = u
    <3>1. NotBefore(lastSent[u], j)
      BY <1>1, <1>5, <2>1 DEF LastSound, Out
    <3>2. lastSent[u] \in Jobs /\ Thing(lastSent[u]) = u /\ fate[lastSent[u]] \in {"sent", "taken"}
      BY <2>1, <3>1 DEF NotBefore, Outlasts, Out
    <3>3. lastSent[u] = j
      BY <1>1, <1>2, <3>2
    <3>4. lastDone'[u] = j
      BY <1>1, <1>2, <2>1
    <3>5. QED BY <3>3, <3>4
  <2>2. CASE ~(Sets(j) /\ Thing(j) = u)
    <3>1. Thing(j) # u
      BY <1>1, <2>2 DEF Things, Thing, Sets
    <3>2. lastDone'[u] = lastDone[u]
      BY <1>1, <1>2, <3>1
    <3>3. \A i \in Jobs : Thing(i) = u => fate'[i] = fate[i]
      BY <1>1, <1>2, <3>1
    <3>4. QED BY <1>1, <3>2, <3>3 DEF LastValueWins
  <2>3. QED BY <2>1, <2>2
<1>12. QED BY <1>7, <1>8, <1>10, <1>11 DEF VInv

\* Sending a job makes its value the last for what it sets.
LEMMA SendLast ==
    ASSUME IInv, OInv, VInv, NEW j \in Jobs, Send(j)
    PROVE  VInv'
<1>1. /\ TakenSound
      /\ \A i \in 1..Len(inbox) : fate[inbox[i]] = "sent"
      /\ Apart(queue) /\ SentSound /\ LastSound /\ LastValueWins
      /\ fate \in [Jobs -> {"unsent", "sent", "taken", "done", "dropped"}]
      /\ inbox \in Seq(Jobs)
      /\ lastSent \in [Things -> Jobs \cup {Nothing}]
  BY DEF IInv, OInv, VInv, TypeOK, InboxSound
<1>2. /\ fate[j] = "unsent" /\ fate' = [fate EXCEPT ![j] = "sent"]
      /\ inbox' = Append(inbox, j)
      /\ lastSent' = IF Sets(j) THEN [lastSent EXCEPT ![Thing(j)] = j] ELSE lastSent
      /\ UNCHANGED <<queue, barriers, tasks, lastDone>>
  BY DEF Send, laneVars, Sets
<1> DEFINE l == Len(inbox)
<1>3. /\ l \in Nat /\ Len(inbox') = l + 1
      /\ \A i \in 1..l : inbox'[i] = inbox[i]
      /\ inbox'[l + 1] = j
  BY <1>1, <1>2, AppendProperties, LenProperties
<1>4. \A i \in 1..l : inbox[i] # j
  BY <1>1, <1>2
<1>5. Apart(queue')
  BY <1>1, <1>2
<1>6. SentSound'
  <2> SUFFICES ASSUME NEW i \in Jobs, fate'[i] = "sent" PROVE \E h \in 1..Len(inbox') : inbox'[h] = i
    BY DEF SentSound
  <2>1. CASE i = j
    <3>1. l + 1 \in 1..Len(inbox')
      BY <1>3
    <3>2. QED BY <1>3, <2>1, <3>1
  <2>2. CASE i # j
    <3>1. PICK h \in 1..l : inbox[h] = i
      BY <1>1, <1>2, <2>2 DEF SentSound
    <3>2. h \in 1..Len(inbox') /\ inbox'[h] = i
      BY <1>3, <3>1
    <3>3. QED BY <3>2
  <2>3. QED BY <2>1, <2>2
<1>7. LastSound'
  <2> SUFFICES ASSUME NEW i \in Jobs, Sets(i), fate'[i] \in Out
               PROVE  Outlasts(lastSent'[Thing(i)], i, fate', inbox', queue', barriers', tasks')
    BY DEF LastSound, NotBefore
  <2>0. Thing(i) \in Things
    BY DEF Things, Sets
  <2>1. CASE Sets(j) /\ Thing(j) = Thing(i)
    <3>1. lastSent'[Thing(i)] = j
      BY <1>1, <1>2, <2>0, <2>1
    <3>2. fate'[j] = "sent" /\ "sent" \in Out /\ "sent" # "taken"
      BY <1>1, <1>2 DEF Out
    <3>3. ASSUME NEW g \in 1..Len(inbox'), NEW h \in 1..Len(inbox'), inbox'[h] = j
          PROVE  g <= h
      <4>1. h \notin 1..l
        BY <1>3, <1>4, <3>3
      <4>2. QED BY <1>3, <4>1
    <3>4. Outlasts(j, i, fate', inbox', queue', barriers', tasks')
      BY <2>1, <3>2, <3>3 DEF Outlasts
    <3>5. QED BY <3>1, <3>4
  <2>2. CASE ~(Sets(j) /\ Thing(j) = Thing(i))
    <3> DEFINE z == lastSent[Thing(i)]
    <3>1. lastSent'[Thing(i)] = z
      BY <1>1, <1>2, <2>0, <2>2
    <3>2. i # j /\ fate'[i] = fate[i]
      BY <1>1, <1>2, <2>2
    <3>3. NotBefore(z, i)
      BY <1>1, <3>2 DEF LastSound
    <3>4. z \in Jobs /\ z # j /\ fate'[z] = fate[z]
      BY <1>1, <1>2, <2>2, <3>3 DEF NotBefore, Outlasts, Sets, Thing, Out
    <3>5. ASSUME fate[i] = "sent", NEW g \in 1..Len(inbox'), NEW h \in 1..Len(inbox'),
                 inbox'[g] = i, inbox'[h] = z
          PROVE  g <= h
      <4>1. g # l + 1 /\ h # l + 1
        BY <1>3, <3>2, <3>4, <3>5
      <4>2. /\ g \in 1..l /\ h \in 1..l /\ inbox'[g] = inbox[g] /\ inbox'[h] = inbox[h]
        BY <1>3, <4>1
      <4>3. QED BY <3>3, <3>5, <4>2 DEF NotBefore, Outlasts
    <3>6. /\ Sets(z) /\ Thing(z) = Thing(i) /\ fate'[z] \in Out
          /\ fate'[i] = "sent" => fate'[z] = "sent"
      BY <3>2, <3>3, <3>4 DEF NotBefore, Outlasts
    <3>7. fate'[i] = "taken" /\ fate'[z] = "taken" =>
             \A n, m \in Nat : Holds(queue', barriers', tasks', n, i) /\ Holds(queue', barriers', tasks', m, z)
                                 => n <= m
      BY <1>2, <3>2, <3>3, <3>4 DEF NotBefore, Outlasts
    <3>8. Outlasts(z, i, fate', inbox', queue', barriers', tasks')
      BY <3>2, <3>4, <3>5, <3>6, <3>7 DEF Outlasts
    <3>9. QED BY <3>1, <3>8
  <2>3. QED BY <2>1, <2>2
<1>8. LastValueWins'
  <2> SUFFICES ASSUME NEW u \in Things, \A i \in Jobs : Thing(i) = u => fate'[i] \notin {"sent", "taken"}
               PROVE  lastDone[u] = lastSent'[u]
    BY <1>2 DEF LastValueWins
  <2>1. Thing(j) # u
    BY <1>1, <1>2
  <2>2. lastSent'[u] = lastSent[u]
    BY <1>1, <1>2, <2>1
  <2>3. \A i \in Jobs : Thing(i) = u => fate'[i] = fate[i]
    BY <1>1, <1>2, <2>1
  <2>4. QED BY <1>1, <2>2, <2>3 DEF LastValueWins
<1>9. QED BY <1>5, <1>6, <1>7, <1>8 DEF VInv

\* "so the last value wins": once nothing that sets a thing is waiting or
\* running, the value done last for it is the one sent last, whatever was
\* superseded and wherever the barriers were.
THEOREM LastWins == Spec => []LastValueWins
<1>1. Init => VInv
  <2> SUFFICES ASSUME Init PROVE VInv
    OBVIOUS
  <2>1. /\ \A k \in LaneNames : queue[k] = <<>>
        /\ \A j \in Jobs : fate[j] = "unsent"
        /\ \A t \in Things : lastDone[t] = lastSent[t]
    BY DEF Init
  <2>2. Apart(queue)
    <3>1. \A k \in LaneNames : 1..Len(queue[k]) = {}
      BY <2>1, EmptySeq
    <3>2. QED BY <3>1 DEF Apart
  <2>3. SentSound /\ LastSound /\ LastValueWins
    BY <2>1 DEF SentSound, LastSound, LastValueWins, Out
  <2>4. QED BY <2>2, <2>3 DEF VInv
<1>2. IInv /\ OInv /\ OInv' /\ VInv /\ [Next]_vars => VInv'
  <2> SUFFICES ASSUME IInv, OInv, OInv', VInv, [Next]_vars PROVE VInv'
    OBVIOUS
  <2>1. CASE DropSenders \/ InboxOver \/ Return \/ UNCHANGED vars
    <3>1. UNCHANGED <<inbox, fate, queue, barriers, tasks, lastSent, lastDone>>
      BY <2>1 DEF DropSenders, InboxOver, Return, vars, laneVars
    <3>2. Apart(queue') /\ SentSound' /\ LastValueWins'
      BY <3>1 DEF VInv, SentSound, LastValueWins
    <3>3. LastSound'
      BY <3>1 DEF VInv, LastSound, NotBefore, Outlasts
    <3>4. QED BY <3>2, <3>3 DEF VInv
  <2>2. QED BY <2>1, TakeLast, JoinLast, SendLast DEF Next
<1>3. VInv => LastValueWins
  BY DEF VInv
<1>4. QED BY <1>1, <1>2, <1>3, OrderInductive, PTL DEF Spec
=============================================================================

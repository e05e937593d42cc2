-------------------------- MODULE ConnectionProofs --------------------------
(* Theorems about Connection, for any commands and either order of answers. *)
EXTENDS Connection, Integers, SequenceTheorems, TLAPS

Distinct(s) == \A i, j \in 1..Len(s) : s[i] = s[j] => i = j

-----------------------------------------------------------------------------
(* The queues.                                                             *)

\* Position by position, a sequence without its k-th element.
LEMMA RemoveAtIs ==
    ASSUME NEW S, NEW s \in Seq(S), NEW k \in 1..Len(s)
    PROVE  /\ RemoveAt(s, k) \in Seq(S)
           /\ Len(RemoveAt(s, k)) = Len(s) - 1
           /\ \A i \in 1..(Len(s) - 1) :
                 RemoveAt(s, k)[i] = IF i < k THEN s[i] ELSE s[i + 1]
<1> DEFINE front == SubSeq(s, 1, k - 1)
           back == SubSeq(s, k + 1, Len(s))
<1>1. /\ Len(s) \in Nat
      /\ \A i \in 1..Len(s) : s[i] \in S
  BY LenProperties, ElementOfSeq
<1>2. /\ front \in Seq(S)
      /\ Len(front) = k - 1
      /\ \A i \in 1..(k - 1) : front[i] = s[i]
  <2>1. /\ front \in Seq(S)
        /\ Len(front) = IF 1 <= k - 1 THEN (k - 1) - 1 + 1 ELSE 0
        /\ \A i \in 1..((k - 1) - 1 + 1) : front[i] = s[1 + i - 1]
    BY <1>1, SubSeqProperties
  <2>2. QED BY <1>1, <2>1
<1>3. /\ back \in Seq(S)
      /\ Len(back) = Len(s) - k
      /\ \A i \in 1..(Len(s) - k) : back[i] = s[k + i]
  <2>1. /\ back \in Seq(S)
        /\ Len(back) = IF k + 1 <= Len(s) THEN Len(s) - (k + 1) + 1 ELSE 0
        /\ \A i \in 1..(Len(s) - (k + 1) + 1) : back[i] = s[k + 1 + i - 1]
    BY <1>1, SubSeqProperties
  <2>2. QED BY <1>1, <2>1
<1>4. RemoveAt(s, k) = front \o back
  BY DEF RemoveAt
<1>5. /\ front \o back \in Seq(S)
      /\ Len(front \o back) = Len(front) + Len(back)
      /\ \A i \in 1..(Len(front) + Len(back)) :
            (front \o back)[i] = IF i <= Len(front) THEN front[i]
                                 ELSE back[i - Len(front)]
  BY <1>2, <1>3, ConcatProperties
<1> HIDE DEF front, back
<1>6. Len(front) + Len(back) = Len(s) - 1
  BY <1>1, <1>2, <1>3
<1>7. ASSUME NEW i \in 1..(Len(s) - 1)
      PROVE (front \o back)[i] = IF i < k THEN s[i] ELSE s[i + 1]
  <2>1. CASE i < k
    BY <1>1, <1>2, <1>5, <1>6, <2>1
  <2>2. CASE ~(i < k)
    <3>1. i - Len(front) \in 1..(Len(s) - k) /\ k + (i - Len(front)) = i + 1
      BY <1>1, <1>2, <2>2
    <3>2. (front \o back)[i] = back[i - Len(front)]
      BY <1>1, <1>2, <1>5, <1>6, <2>2
    <3>3. back[i - Len(front)] = s[i + 1]
      BY <1>3, <3>1
    <3>4. QED BY <1>1, <2>2, <3>2, <3>3
  <2>3. QED BY <2>1, <2>2
<1>8. QED BY <1>4, <1>5, <1>6, <1>7

\* Taking a value out of a queue loses no other, adds none, leaves the head
\* alone unless it is the head, and takes it out for good if it was there once.
LEMMA WithoutIs ==
    ASSUME NEW S, NEW s \in Seq(S), NEW e
    PROVE  /\ Without(s, e) \in Seq(S)
           /\ ToSet(Without(s, e)) \subseteq ToSet(s)
           /\ \A x \in ToSet(s) : x # e => x \in ToSet(Without(s, e))
           /\ Distinct(s) => /\ Distinct(Without(s, e))
                             /\ e \notin ToSet(Without(s, e))
           /\ s # <<>> /\ Head(s) # e =>
                  Without(s, e) # <<>> /\ Head(Without(s, e)) = Head(s)
<1>0. Len(s) \in Nat /\ DOMAIN s = 1..Len(s)
  BY LenProperties
<1>1. CASE e \notin ToSet(s)
  BY <1>1 DEF Without
<1>2. CASE e \in ToSet(s)
  <2> DEFINE k == CHOOSE i \in DOMAIN s : s[i] = e
             t == RemoveAt(s, k)
  <2>1. k \in 1..Len(s) /\ s[k] = e
    BY <1>0, <1>2 DEF ToSet
  <2>2. Without(s, e) = t
    BY <1>2 DEF Without
  <2> HIDE DEF k
  <2>3. /\ t \in Seq(S)
        /\ Len(t) = Len(s) - 1
        /\ \A i \in 1..(Len(s) - 1) : t[i] = IF i < k THEN s[i] ELSE s[i + 1]
    BY <2>1, RemoveAtIs
  <2>4. DOMAIN t = 1..(Len(s) - 1)
    BY <2>3, LenProperties
  <2> HIDE DEF t
  <2>5. ToSet(t) \subseteq ToSet(s)
    <3>1. SUFFICES ASSUME NEW i \in 1..(Len(s) - 1)
                   PROVE  t[i] \in ToSet(s)
      BY <2>4 DEF ToSet
    <3>2. i \in 1..Len(s) /\ i + 1 \in 1..Len(s)
      BY <1>0
    <3>3. s[i] \in ToSet(s) /\ s[i + 1] \in ToSet(s)
      BY <1>0, <3>2 DEF ToSet
    <3>4. QED BY <2>3, <3>3
  <2>6. ASSUME NEW x \in ToSet(s), x # e
        PROVE  x \in ToSet(t)
    <3>1. PICK i \in 1..Len(s) : s[i] = x
      BY <1>0 DEF ToSet
    <3>2. i # k
      BY <2>1, <2>6, <3>1
    <3>3. CASE i < k
      <4>1. i \in 1..(Len(s) - 1)
        BY <1>0, <2>1, <3>3
      <4>2. t[i] = x
        BY <2>3, <3>1, <3>3, <4>1
      <4>3. QED BY <2>4, <4>1, <4>2 DEF ToSet
    <3>4. CASE i > k
      <4>1. i - 1 \in 1..(Len(s) - 1) /\ ~(i - 1 < k) /\ (i - 1) + 1 = i
        BY <1>0, <2>1, <3>4
      <4>2. t[i - 1] = x
        BY <2>3, <3>1, <4>1
      <4>3. QED BY <2>4, <4>1, <4>2 DEF ToSet
    <3>5. QED BY <1>0, <2>1, <3>2, <3>3, <3>4
  <2>7. ASSUME Distinct(s)
        PROVE  Distinct(t) /\ e \notin ToSet(t)
    <3>1. \A i, j \in 1..Len(s) : s[i] = s[j] => i = j
      BY <2>7 DEF Distinct
    <3>2. ASSUME NEW i \in 1..(Len(s) - 1), NEW j \in 1..(Len(s) - 1), t[i] = t[j]
          PROVE  i = j
      <4>1. /\ i \in 1..Len(s) /\ i + 1 \in 1..Len(s)
            /\ j \in 1..Len(s) /\ j + 1 \in 1..Len(s)
        BY <1>0
      <4> DEFINE at(n) == IF n < k THEN n ELSE n + 1
      <4>2. t[i] = s[at(i)] /\ t[j] = s[at(j)]
        BY <2>3
      <4>3. at(i) \in 1..Len(s) /\ at(j) \in 1..Len(s)
        BY <4>1
      <4>4. at(i) = at(j)
        BY <3>1, <3>2, <4>2, <4>3
      <4>5. QED BY <1>0, <2>1, <4>4
    <3>3. ASSUME NEW i \in 1..(Len(s) - 1)
          PROVE  t[i] # e
      <4>1. i \in 1..Len(s) /\ i + 1 \in 1..Len(s)
        BY <1>0
      <4>2. t[i] = IF i < k THEN s[i] ELSE s[i + 1]
        BY <2>3
      <4>3. QED BY <2>1, <3>1, <4>1, <4>2
    <3>4. QED BY <2>3, <2>4, <3>2, <3>3 DEF Distinct, ToSet
  <2>8. ASSUME s # <<>>, Head(s) # e
        PROVE  t # <<>> /\ Head(t) = Head(s)
    <3>1. Head(s) = s[1]
      BY <2>8
    <3>2. k > 1 /\ 1 \in 1..(Len(s) - 1)
      BY <1>0, <2>1, <2>8, <3>1
    <3>3. t[1] = s[1] /\ Len(t) # 0
      BY <1>0, <2>3, <3>2
    <3>4. QED BY <2>3, <3>1, <3>3, EmptySeq
  <2>9. QED BY <2>2, <2>3, <2>5, <2>6, <2>7, <2>8
<1>3. QED BY <1>1, <1>2

\* A queue that has got one more at its end.
LEMMA AppendIs ==
    ASSUME NEW S, NEW s \in Seq(S), NEW e \in S
    PROVE  /\ Append(s, e) \in Seq(S)
           /\ ToSet(Append(s, e)) = ToSet(s) \cup {e}
           /\ Distinct(s) /\ e \notin ToSet(s) => Distinct(Append(s, e))
           /\ s # <<>> => Append(s, e) # <<>> /\ Head(Append(s, e)) = Head(s)
<1> DEFINE t == Append(s, e)
<1>1. /\ Len(s) \in Nat
      /\ DOMAIN s = 1..Len(s)
  BY LenProperties
<1>2. /\ t \in Seq(S)
      /\ Len(t) = Len(s) + 1
      /\ \A i \in 1..Len(s) : t[i] = s[i]
      /\ t[Len(s) + 1] = e
  BY AppendProperties
<1>3. DOMAIN t = 1..(Len(s) + 1)
  BY <1>2, LenProperties
<1>4. s # <<>> => t # <<>> /\ Head(t) = Head(s)
  BY AppendProperties, HeadTailAppend
<1> HIDE DEF t
<1>5. ToSet(t) = ToSet(s) \cup {e}
  <2>1. ToSet(t) \subseteq ToSet(s) \cup {e}
    <3>1. SUFFICES ASSUME NEW i \in 1..(Len(s) + 1)
                   PROVE  t[i] \in ToSet(s) \cup {e}
      BY <1>3 DEF ToSet
    <3>2. i \in 1..Len(s) \/ i = Len(s) + 1
      BY <1>1
    <3>3. QED BY <1>1, <1>2, <3>2 DEF ToSet
  <2>2. ToSet(s) \subseteq ToSet(t)
    <3>1. 1..Len(s) \subseteq 1..(Len(s) + 1)
      BY <1>1
    <3>2. QED BY <1>1, <1>2, <1>3, <3>1 DEF ToSet
  <2>3. Len(s) + 1 \in 1..(Len(s) + 1)
    BY <1>1
  <2>4. e \in ToSet(t)
    BY <1>2, <1>3, <2>3 DEF ToSet
  <2>5. QED BY <2>1, <2>2, <2>4
<1>6. ASSUME Distinct(s), e \notin ToSet(s)
      PROVE  Distinct(t)
  <2>1. SUFFICES ASSUME NEW i \in 1..(Len(s) + 1), NEW j \in 1..(Len(s) + 1),
                        t[i] = t[j]
                 PROVE  i = j
    BY <1>2 DEF Distinct
  <2>2. \A n \in 1..Len(s) : s[n] # e
    BY <1>1, <1>6 DEF ToSet
  <2>3. (i \in 1..Len(s) \/ i = Len(s) + 1) /\ (j \in 1..Len(s) \/ j = Len(s) + 1)
    BY <1>1
  <2>4. QED BY <1>2, <1>6, <2>1, <2>2, <2>3 DEF Distinct
<1>7. QED BY <1>2, <1>4, <1>5, <1>6 DEF t

\* What is left of a queue behind its i-th place.
LEMMA SuffixIs ==
    ASSUME NEW S, NEW s \in Seq(S), NEW i \in 1..Len(s)
    PROVE  /\ SubSeq(s, i + 1, Len(s)) \in Seq(S)
           /\ ToSet(SubSeq(s, i + 1, Len(s))) = {s[j] : j \in (i + 1)..Len(s)}
           /\ Distinct(s) => Distinct(SubSeq(s, i + 1, Len(s)))
<1> DEFINE t == SubSeq(s, i + 1, Len(s))
<1>1. Len(s) \in Nat /\ \A j \in 1..Len(s) : s[j] \in S
  BY LenProperties, ElementOfSeq
<1>2. /\ t \in Seq(S)
      /\ Len(t) = Len(s) - i
      /\ \A j \in 1..(Len(s) - i) : t[j] = s[i + j]
  <2>1. /\ t \in Seq(S)
        /\ Len(t) = IF i + 1 <= Len(s) THEN Len(s) - (i + 1) + 1 ELSE 0
        /\ \A j \in 1..(Len(s) - (i + 1) + 1) : t[j] = s[i + 1 + j - 1]
    BY <1>1, SubSeqProperties
  <2>2. QED BY <1>1, <2>1
<1>3. DOMAIN t = 1..(Len(s) - i)
  BY <1>2, LenProperties
<1> HIDE DEF t
<1>4. ToSet(t) = {s[j] : j \in (i + 1)..Len(s)}
  <2>1. \A j \in 1..(Len(s) - i) : i + j \in (i + 1)..Len(s)
    BY <1>1
  <2>2. \A j \in (i + 1)..Len(s) : j - i \in 1..(Len(s) - i) /\ i + (j - i) = j
    BY <1>1
  <2>3. ToSet(t) \subseteq {s[j] : j \in (i + 1)..Len(s)}
    BY <1>2, <1>3, <2>1 DEF ToSet
  <2>4. ASSUME NEW j \in (i + 1)..Len(s) PROVE s[j] \in ToSet(t)
    <3>1. t[j - i] = s[j]
      BY <1>2, <2>2
    <3>2. QED BY <1>3, <2>2, <3>1 DEF ToSet
  <2>5. QED BY <2>3, <2>4
<1>5. ASSUME Distinct(s) PROVE Distinct(t)
  <2>1. \A j \in 1..(Len(s) - i) : i + j \in 1..Len(s)
    BY <1>1
  <2>2. SUFFICES ASSUME NEW j \in 1..(Len(s) - i), NEW k \in 1..(Len(s) - i),
                        t[j] = t[k]
                 PROVE  j = k
    BY <1>2 DEF Distinct
  <2>3. s[i + j] = s[i + k]
    BY <1>2, <2>2
  <2>4. i + j = i + k
    BY <1>5, <2>1, <2>3 DEF Distinct
  <2>5. QED BY <1>1, <2>4
<1>6. QED BY <1>2, <1>4, <1>5 DEF t

-----------------------------------------------------------------------------
(* Types, and who is writing.                                              *)

\* A command that is writing holds the write half.
WritersHold == \A c \in Cmds : pc[c] = "writing" => Holds(c)

\* What the drop of a registration does to Pending.
LEMMA ForgetIs ==
    ASSUME byId \subseteq Cmds, order \in Seq(Cmds), NEW c \in Cmds, Forget(c)
    PROVE  /\ byId' = byId \ {c}
           /\ order' \in Seq(Cmds)
           /\ ToSet(order') \subseteq ToSet(order)
           /\ \A x \in ToSet(order) : x # c => x \in ToSet(order')
           /\ Distinct(order) => Distinct(order') /\ c \notin ToSet(order')
BY WithoutIs DEF Forget

\* What a reply without an id does to Pending and to the oneshots: it reaches
\* one command that was registered and awaited, or nobody.
LEMMA TakeOldestIs ==
    ASSUME order \in Seq(Cmds), NEW c \in Cmds, TakeOldest(c)
    PROVE  \/ /\ ToSet(order) \cap byId = {}
              /\ order' = <<>>
              /\ UNCHANGED <<byId, got>>
           \/ \E x \in Cmds \cap byId :
                 /\ byId' = byId \ {x}
                 /\ got' = [got EXCEPT ![x] = c]
                 /\ order' \in Seq(Cmds)
                 /\ ToSet(order') \subseteq ToSet(order)
                 /\ \A y \in ToSet(order) : y \in byId /\ y # x => y \in ToSet(order')
                 /\ Distinct(order) => Distinct(order') /\ x \notin ToSet(order')
<1>0. Len(order) \in Nat /\ DOMAIN order = 1..Len(order)
  BY LenProperties
<1>1. CASE /\ ToSet(order) \cap byId = {}
           /\ order' = <<>>
           /\ UNCHANGED <<byId, got>>
  BY <1>1
<1>2. CASE \E i \in DOMAIN order :
              /\ order[i] \in byId
              /\ \A j \in 1..(i - 1) : order[j] \notin byId
              /\ order' = SubSeq(order, i + 1, Len(order))
              /\ byId' = byId \ {order[i]}
              /\ got' = [got EXCEPT ![order[i]] = c]
  <2>1. PICK i \in 1..Len(order) :
              /\ order[i] \in byId
              /\ \A j \in 1..(i - 1) : order[j] \notin byId
              /\ order' = SubSeq(order, i + 1, Len(order))
              /\ byId' = byId \ {order[i]}
              /\ got' = [got EXCEPT ![order[i]] = c]
    BY <1>0, <1>2
  <2> DEFINE x == order[i]
  <2>2. x \in Cmds \cap byId
    BY <2>1, ElementOfSeq
  <2>3. /\ order' \in Seq(Cmds)
        /\ ToSet(order') = {order[j] : j \in (i + 1)..Len(order)}
        /\ Distinct(order) => Distinct(order')
    BY <2>1, SuffixIs
  <2>4. ToSet(order') \subseteq ToSet(order)
    BY <1>0, <2>3 DEF ToSet
  <2>5. ASSUME NEW y \in ToSet(order), y \in byId, y # x
        PROVE  y \in ToSet(order')
    <3>1. PICK j \in 1..Len(order) : order[j] = y
      BY <1>0 DEF ToSet
    <3>2. j \notin 1..(i - 1) /\ j # i
      BY <2>1, <2>5, <3>1
    <3>3. j \in (i + 1)..Len(order)
      BY <1>0, <3>2
    <3>4. QED BY <2>3, <3>1, <3>3
  <2>6. ASSUME Distinct(order) PROVE x \notin ToSet(order')
    <3>1. \A j \in (i + 1)..Len(order) : j \in 1..Len(order) /\ j # i
      BY <1>0
    <3>2. \A j \in (i + 1)..Len(order) : order[j] # x
      BY <2>6, <3>1 DEF Distinct
    <3>3. QED BY <2>3, <3>2
  <2>7. QED BY <2>1, <2>2, <2>3, <2>4, <2>5, <2>6
<1>3. QED BY <1>1, <1>2 DEF TakeOldest

\* A step keeps the types, if whoever is writing stands at the head of the line
\* it leaves when it is done.
LEMMA TypeStep == TypeOK /\ WritersHold /\ [Next]_vars => TypeOK'
<1> SUFFICES ASSUME TypeOK, WritersHold, [Next]_vars PROVE TypeOK'
  OBVIOUS
<1> USE DEF TypeOK
<1>0. /\ \A u \in Users : Append(line, u) \in Seq(Users)
      /\ line # <<>> => Tail(line) \in Seq(Users)
      /\ 0 \in 0..SilentTicks
  BY AppendIs, HeadTailProperties, TicksAssumption
<1>1. ASSUME NEW c \in Cmds, Command(c) PROVE TypeOK'
  <2>0. c \in Users
    BY DEF Users
  <2>1. CASE Issue(c)
    BY <2>1 DEF Issue, Moves, Outstanding, Ended, taskVars
  <2>2. CASE Register(c)
    <3>1. Append(order, c) \in Seq(Cmds)
      BY AppendIs
    <3>2. QED BY <2>2, <3>1 DEF Register, Moves, Outstanding, Ended, taskVars
  <2>3. CASE LineUp(c)
    BY <1>0, <2>0, <2>3 DEF LineUp, Moves, Outstanding, Ended, taskVars, pendingVars
  <2>4. CASE StartWrite(c)
    <3>1. Append(wire, c) \in Seq(Cmds)
      BY AppendIs
    <3>2. QED BY <2>4, <3>1
          DEF StartWrite, Moves, Outstanding, Ended, taskVars, pendingVars
  <2>5. CASE FindClosed(c)
    <3>1. Forget(c) /\ line # <<>>
      BY <2>5 DEF FindClosed, Holds
    <3>2. byId' \subseteq Cmds /\ order' \in Seq(Cmds)
      BY <3>1, ForgetIs
    <3>3. QED BY <1>0, <2>5, <3>1, <3>2
          DEF FindClosed, Moves, Outstanding, Ended, taskVars
  <2>6. CASE WriteDone(c)
    <3>1. line # <<>>
      BY <2>6 DEF WriteDone, WritersHold, Holds, Moves
    <3>2. QED BY <1>0, <2>6, <3>1 DEF WriteDone, Moves, Outstanding, Ended, taskVars, pendingVars
  <2>7. CASE WriteError(c)
    <3>1. line # <<>>
      BY <2>7 DEF WriteError, WritersHold, Holds, Moves
    <3>2. QED BY <1>0, <2>7, <3>1, ForgetIs
          DEF WriteError, Moves, Outstanding, Ended, taskVars
  <2>8. CASE WriteTimeout(c)
    <3>1. line # <<>>
      BY <2>8 DEF WriteTimeout, WritersHold, Holds, Moves
    <3>2. QED BY <1>0, <2>8, <3>1, ForgetIs
          DEF WriteTimeout, Moves, Outstanding, Ended, taskVars
  <2>9. CASE ReplyTimeout(c)
    BY <2>9, ForgetIs DEF ReplyTimeout, Moves, Outstanding, Ended, taskVars
  <2>10. CASE Finish(c)
    BY <2>10, ForgetIs DEF Finish, Moves, Outstanding, Ended, taskVars
  <2>11. CASE Cancel(c)
    <3>1. line' \in Seq(Users)
      BY <2>11, WithoutIs DEF Cancel
    <3>2. QED BY <2>11, <3>1, ForgetIs DEF Cancel, Moves, Outstanding, Ended, taskVars
  <2>12. QED BY <1>1, <2>1, <2>2, <2>3, <2>4, <2>5, <2>6, <2>7, <2>8, <2>9,
                <2>10, <2>11 DEF Command
<1>2. CASE Close
  BY <1>2 DEF Close, cmdVars, pendingVars, taskVars
<1>3. CASE ReadLoop
  <2>0. "reader" \in Users
    BY DEF Users
  <2>1. ASSUME NEW c \in Cmds, ReadReply(c) PROVE TypeOK'
    <3>1. wire' \in Seq(Cmds)
      BY <2>1, WithoutIs DEF ReadReply
    <3>2. CASE c \in Untagged
      <4>1. TakeOldest(c)
        BY <2>1, <3>2 DEF ReadReply
      <4>2. CASE UNCHANGED <<byId, got>> /\ order' = <<>>
        BY <1>0, <2>1, <3>1, <4>2, EmptySeq DEF ReadReply, Hears, taskVars
      <4>3. CASE \E x \in Cmds \cap byId :
                    /\ byId' = byId \ {x}
                    /\ got' = [got EXCEPT ![x] = c]
                    /\ order' \in Seq(Cmds)
        <5>1. byId' \subseteq Cmds /\ got' \in [Cmds -> Cmds \cup {None}]
          BY <4>3
        <5>2. QED BY <1>0, <2>1, <3>1, <4>3, <5>1 DEF ReadReply, Hears, taskVars
      <4>4. QED BY <4>1, <4>2, <4>3, TakeOldestIs
    <3>3. CASE c \notin Untagged
      <4>1. TakeTagged(c)
        BY <2>1, <3>3 DEF ReadReply
      <4>2. byId' \subseteq Cmds /\ order' \in Seq(Cmds)
            /\ got' \in [Cmds -> Cmds \cup {None}]
        BY <4>1, ForgetIs DEF TakeTagged
      <4>3. QED BY <1>0, <2>1, <3>1, <4>2 DEF ReadReply, Hears, taskVars
    <3>4. QED BY <3>2, <3>3
  <2>2. CASE ReadOther
    BY <1>0, <2>2 DEF ReadOther, Hears, cmdVars, pendingVars, taskVars
  <2>3. CASE ReadPing
    BY <1>0, <2>0, <2>3 DEF ReadPing, Hears, cmdVars, pendingVars
  <2>4. CASE PongSent
    BY <1>0, <2>4 DEF PongSent, Holds, cmdVars, pendingVars
  <2>5. CASE PongTimeout
    BY <1>0, <2>5 DEF PongTimeout, Holds, cmdVars, pendingVars
  <2>6. CASE SeeShutdown
    BY <2>6 DEF SeeShutdown, cmdVars, pendingVars
  <2>7. CASE ReadEnd
    BY <2>7 DEF ReadEnd, cmdVars, pendingVars
  <2>8. CASE MarkDead
    BY <2>8 DEF MarkDead, cmdVars
  <2>9. CASE AwaitSink
    BY <1>0, <2>0, <2>9 DEF AwaitSink, cmdVars, pendingVars
  <2>10. CASE TakeSink
    BY <1>0, <2>10 DEF TakeSink, Holds, cmdVars, pendingVars
  <2>11. QED BY <1>3, <2>1, <2>2, <2>3, <2>4, <2>5, <2>6, <2>7, <2>8, <2>9,
                <2>10 DEF ReadLoop
<1>4. CASE Keepalive
  <2>0. "keeper" \in Users
    BY DEF Users
  <2>1. CASE Tick
    <3>1. quiet' \in 0..SilentTicks /\ permit' \in BOOLEAN
          /\ keeper' \in {"checked", "gone"}
      <4>1. \A n \in 0..SilentTicks : n < SilentTicks => n + 1 \in 0..SilentTicks
        BY TicksAssumption
      <4>2. QED BY <2>1, <4>1 DEF Tick, PingUnlessSilent, SilenceLimit
    <3>2. QED BY <2>1, <3>1 DEF Tick, cmdVars, pendingVars
  <2>2. CASE PingLineUp
    BY <1>0, <2>0, <2>2 DEF PingLineUp, cmdVars, pendingVars
  <2>3. CASE PingSent
    BY <1>0, <2>3 DEF PingSent, Holds, cmdVars, pendingVars
  <2>4. CASE PingFail
    BY <1>0, <2>4 DEF PingFail, Holds, cmdVars, pendingVars
  <2>5. QED BY <1>4, <2>1, <2>2, <2>3, <2>4 DEF Keepalive
<1>5. CASE GoSilent
  BY <1>5 DEF GoSilent, cmdVars, pendingVars, taskVars
<1>6. CASE UNCHANGED vars
  BY <1>6 DEF vars
<1>7. QED BY <1>1, <1>2, <1>3, <1>4, <1>5, <1>6 DEF Next

\* The head of the line keeps its place while others join or leave.
LEMMA HoldsIs ==
    ASSUME line \in Seq(Users), NEW c \in Cmds, Holds(c)
    PROVE  /\ \A u \in Users : line' = Append(line, u) => Holds(c)'
           /\ \A u : u # c /\ line' = Without(line, u) => Holds(c)'
           /\ line' = line => Holds(c)'
<1>1. \A u \in Users : line' = Append(line, u) => Holds(c)'
  BY AppendIs DEF Holds
<1>2. \A u : u # c /\ line' = Without(line, u) => Holds(c)'
  BY WithoutIs DEF Holds
<1>3. line' = line => Holds(c)'
  BY DEF Holds
<1>4. QED BY <1>1, <1>2, <1>3

\* A step leaves the write half with whoever is writing.
LEMMA WritersStep == TypeOK /\ WritersHold /\ [Next]_vars => WritersHold'
<1> SUFFICES ASSUME TypeOK, WritersHold, [Next]_vars,
                    NEW d \in Cmds, pc'[d] = "writing"
             PROVE  Holds(d)'
  BY DEF WritersHold
<1>0. /\ line \in Seq(Users)
      /\ pc \in [Cmds -> {"idle", "signing"} \cup Outstanding \cup Ended]
      /\ "reader" \in Users /\ "keeper" \in Users /\ Cmds \subseteq Users
      /\ "reader" \notin Cmds /\ "keeper" \notin Cmds
      /\ pc[d] = "writing" => Holds(d)
  BY CmdsAssumption DEF TypeOK, Users, WritersHold
<1>1. ASSUME NEW c \in Cmds, Command(c) PROVE Holds(d)'
  <2>1. CASE StartWrite(c)
    <3>1. Holds(c) /\ line' = line
      BY <2>1 DEF StartWrite
    <3>2. d # c => pc[d] = "writing"
      BY <1>0, <2>1 DEF StartWrite, Moves
    <3>3. QED BY <1>0, <3>1, <3>2, HoldsIs
  <2>2. CASE Issue(c) \/ Register(c) \/ ReplyTimeout(c) \/ Finish(c)
    <3>1. line' = line /\ pc[d] = "writing"
      BY <1>0, <2>2 DEF Issue, Register, ReplyTimeout, Finish, Moves
    <3>2. QED BY <1>0, <3>1, HoldsIs
  <2>3. CASE LineUp(c)
    <3>1. line' = Append(line, c) /\ pc[d] = "writing"
      BY <1>0, <2>3 DEF LineUp, Moves
    <3>2. QED BY <1>0, <3>1, HoldsIs
  <2>4. CASE FindClosed(c) \/ WriteDone(c) \/ WriteError(c) \/ WriteTimeout(c)
    <3>1. Holds(c) /\ d # c /\ pc[d] = "writing"
      BY <1>0, <2>4 DEF FindClosed, WriteDone, WriteError, WriteTimeout, Moves,
                        WritersHold
    <3>2. QED BY <1>0, <3>1 DEF Holds
  <2>5. CASE Cancel(c)
    <3>1. line' = Without(line, c) /\ d # c /\ pc[d] = "writing"
      BY <1>0, <2>5 DEF Cancel, Moves
    <3>2. QED BY <1>0, <3>1, HoldsIs
  <2>6. QED BY <1>1, <2>1, <2>2, <2>3, <2>4, <2>5 DEF Command
<1>2. CASE pc' = pc /\ line' = line
  BY <1>0, <1>2, HoldsIs
<1>3. CASE ReadLoop
  <2>1. pc' = pc
    BY <1>3 DEF ReadLoop, ReadReply, ReadOther, ReadPing, PongSent, PongTimeout,
                SeeShutdown, ReadEnd, MarkDead, AwaitSink, TakeSink, cmdVars
  <2>2. ~Holds("reader")
    BY <1>0, <2>1 DEF Holds
  <2>3. line' = line \/ line' = Append(line, "reader")
    BY <1>3, <2>2 DEF ReadLoop, ReadReply, ReadOther, ReadPing, PongSent,
                PongTimeout, SeeShutdown, ReadEnd, MarkDead, AwaitSink, TakeSink
  <2>4. QED BY <1>0, <2>1, <2>3, HoldsIs
<1>4. CASE Keepalive
  <2>1. pc' = pc
    BY <1>4 DEF Keepalive, Tick, PingLineUp, PingSent, PingFail, cmdVars
  <2>2. ~Holds("keeper")
    BY <1>0, <2>1 DEF Holds
  <2>3. line' = line \/ line' = Append(line, "keeper")
    BY <1>4, <2>2 DEF Keepalive, Tick, PingLineUp, PingSent, PingFail
  <2>4. QED BY <1>0, <2>1, <2>3, HoldsIs
<1>5. QED BY <1>1, <1>2, <1>3, <1>4 DEF Next, Close, GoSilent, cmdVars, vars

\* Every variable keeps its type, for any commands and any silence limit.
THEOREM TypeCorrect == Spec => []TypeOK
<1>1. Init => TypeOK /\ WritersHold
  <2>1. <<>> \in Seq(Cmds) /\ <<>> \in Seq(Users)
    BY EmptySeq
  <2>2. 0 \in 0..SilentTicks
    BY TicksAssumption
  <2>3. QED BY <2>1, <2>2 DEF Init, TypeOK, WritersHold
<1>2. TypeOK /\ WritersHold /\ [Next]_vars => TypeOK' /\ WritersHold'
  BY TypeStep, WritersStep
<1>3. QED BY <1>1, <1>2, PTL DEF Spec

\* The write half is never used by two at once, and only its holder writes.
THEOREM WritersAlwaysHold == Spec => []WritersHold
<1>1. Init => WritersHold
  BY DEF Init, WritersHold
<1>2. TypeOK /\ WritersHold /\ [Next]_vars => WritersHold'
  BY WritersStep
<1>3. QED BY <1>1, <1>2, TypeCorrect, PTL DEF Spec

-----------------------------------------------------------------------------
(* Replies and registrations.                                              *)

\* What any answer read does to the oneshots, tagged or not.
LEMMA ReplyIs ==
    ASSUME TypeOK, NEW c \in Cmds, ReadReply(c)
    PROVE  \/ got' = got
           \/ \E x \in Cmds : /\ got' = [got EXCEPT ![x] = c]
                              /\ x = c \/ c \in Untagged
<1>1. CASE c \in Untagged
  <2>1. order \in Seq(Cmds) /\ TakeOldest(c)
    BY <1>1 DEF TypeOK, ReadReply
  <2>2. QED BY <1>1, <2>1, TakeOldestIs
<1>2. CASE c \notin Untagged
  BY <1>2 DEF ReadReply, TakeTagged
<1>3. QED BY <1>1, <1>2

\* A reply that names its command reaches that command or nobody, for any
\* number of commands and answers, in any order and repeated at will.
THEOREM RepliesOwned == Spec => []TaggedReplyIsOwn
<1>1. Init => TaggedReplyIsOwn
  BY DEF Init, TaggedReplyIsOwn
<1>2. TypeOK /\ TaggedReplyIsOwn /\ [Next]_vars => TaggedReplyIsOwn'
  <2> SUFFICES ASSUME TypeOK, TaggedReplyIsOwn, [Next]_vars
               PROVE  TaggedReplyIsOwn'
    OBVIOUS
  <2>1. CASE got' = got
    BY <2>1 DEF TaggedReplyIsOwn
  <2>2. ASSUME NEW c \in Cmds, ReadReply(c) PROVE TaggedReplyIsOwn'
    <3>1. SUFFICES ASSUME NEW x \in Cmds, got' = [got EXCEPT ![x] = c],
                          x = c \/ c \in Untagged
                   PROVE  TaggedReplyIsOwn'
      BY <2>1, <2>2, ReplyIs
    <3>2. QED BY <3>1 DEF TypeOK, TaggedReplyIsOwn
  <2>3. got' = got \/ \E c \in Cmds : ReadReply(c)
    BY DEF Next, Command, Issue, Register, LineUp, StartWrite, FindClosed,
           WriteDone, WriteError, WriteTimeout, ReplyTimeout, Finish, Cancel,
           Close, ReadLoop, ReadOther, ReadPing, PongSent, PongTimeout,
           SeeShutdown, ReadEnd, MarkDead, AwaitSink, TakeSink, Keepalive, Tick,
           PingLineUp, PingSent, PingFail, GoSilent, cmdVars, vars
  <2>4. QED BY <2>1, <2>2, <2>3
<1>3. QED BY <1>1, <1>2, TypeCorrect, PTL DEF Spec

\* What makes RegisteredWhileOutstanding inductive: a place in the queue is
\* given up for good, because no command has two.
Registrations == RegisteredWhileOutstanding /\ Distinct(order)

\* A command that moves among the outstanding ones with Pending and the oneshots
\* as they were: its registration stays right.
LEMMA StaysOutstanding ==
    ASSUME TypeOK, Registrations, NEW c \in Cmds,
           pc[c] \in Outstanding, \E to \in Outstanding : pc' = [pc EXCEPT ![c] = to],
           UNCHANGED <<byId, order, got, alive>>
    PROVE  Registrations'
BY DEF TypeOK, Registrations, RegisteredWhileOutstanding, Distinct, Outstanding

\* A command that ends and gives up its registration.
LEMMA Ends ==
    ASSUME TypeOK, Registrations, NEW c \in Cmds, Forget(c),
           \E to \in Ended : pc' = [pc EXCEPT ![c] = to],
           UNCHANGED <<got, alive>>
    PROVE  Registrations'
<1>1. /\ byId' = byId \ {c}
      /\ ToSet(order') \subseteq ToSet(order)
      /\ \A x \in ToSet(order) : x # c => x \in ToSet(order')
      /\ Distinct(order') /\ c \notin ToSet(order')
  BY ForgetIs DEF TypeOK, Registrations
<1>2. \A x \in Cmds : x # c => pc'[x] = pc[x]
  BY DEF TypeOK
<1>3. pc'[c] \notin Outstanding
  BY DEF TypeOK, Ended, Outstanding
<1>4. byId' \cup ToSet(order') \subseteq Cmds
  <2>1. ToSet(order) \subseteq Cmds
    BY ElementOfSeq, LenProperties DEF TypeOK, ToSet
  <2>2. QED BY <1>1, <2>1 DEF TypeOK
<1>5. \A x \in byId' \cup ToSet(order') : pc'[x] \in Outstanding
  BY <1>1, <1>2, <1>4 DEF Registrations, RegisteredWhileOutstanding
<1>6. ASSUME NEW x \in Cmds, pc'[x] \in Outstanding, got'[x] = None, alive'
      PROVE  x \in byId' /\ x \in ToSet(order')
  <2>1. x # c /\ x \in byId /\ x \in ToSet(order)
    BY <1>2, <1>3, <1>6 DEF Registrations, RegisteredWhileOutstanding
  <2>2. QED BY <1>1, <2>1
<1>7. QED BY <1>1, <1>5, <1>6 DEF Registrations, RegisteredWhileOutstanding

\* A registration lives exactly as long as the command that made it.
THEOREM RegistrationsTracked == Spec => []RegisteredWhileOutstanding
<1>1. Init => Registrations
  BY DEF Init, Registrations, RegisteredWhileOutstanding, Distinct, Outstanding,
         ToSet
<1>2. TypeOK /\ Registrations /\ [Next]_vars => Registrations'
  <2> SUFFICES ASSUME TypeOK, Registrations, [Next]_vars PROVE Registrations'
    OBVIOUS
  <2>0. ToSet(order) \subseteq Cmds
    BY ElementOfSeq, LenProperties DEF TypeOK, ToSet
  <2>1. ASSUME NEW c \in Cmds, Command(c) PROVE Registrations'
    <3>1. CASE Issue(c)
      <4>1. pc[c] \notin Outstanding /\ pc'[c] \notin Outstanding
        BY <3>1 DEF Issue, Moves, TypeOK, Outstanding
      <4>2. \A x \in Cmds : x # c => pc'[x] = pc[x]
        BY <3>1 DEF Issue, Moves, TypeOK
      <4>3. UNCHANGED <<byId, order, got, alive>>
        BY <3>1 DEF Issue
      <4>4. byId \cup ToSet(order) \subseteq Cmds
        BY <2>0 DEF TypeOK
      <4>5. QED BY <4>1, <4>2, <4>3, <4>4
                DEF Registrations, RegisteredWhileOutstanding, Distinct
    <3>2. CASE Register(c)
      <4>1. pc[c] \notin Outstanding /\ pc'[c] \in Outstanding
        BY <3>2 DEF Register, Moves, TypeOK, Outstanding
      <4>2. \A x \in Cmds : x # c => pc'[x] = pc[x]
        BY <3>2 DEF Register, Moves, TypeOK
      <4>3. /\ byId' = byId \cup {c} /\ order' = Append(order, c)
            /\ UNCHANGED <<got, alive>>
        BY <3>2 DEF Register
      <4>4. ToSet(order') = ToSet(order) \cup {c} /\ Distinct(order')
        <5>1. c \notin ToSet(order)
          BY <4>1 DEF Registrations, RegisteredWhileOutstanding
        <5>2. QED BY <4>3, <5>1, AppendIs DEF TypeOK, Registrations
      <4>5. byId \cup ToSet(order) \subseteq Cmds
        BY <2>0 DEF TypeOK
      <4>6. QED BY <4>1, <4>2, <4>3, <4>4, <4>5
                DEF Registrations, RegisteredWhileOutstanding
    <3>3. CASE LineUp(c) \/ StartWrite(c) \/ WriteDone(c)
      <4>1. /\ pc[c] \in Outstanding
            /\ \E to \in Outstanding : pc' = [pc EXCEPT ![c] = to]
        BY <3>3 DEF LineUp, StartWrite, WriteDone, Moves, Outstanding
      <4>2. UNCHANGED <<byId, order, got, alive>>
        BY <3>3 DEF LineUp, StartWrite, WriteDone, pendingVars
      <4>3. QED BY <4>1, <4>2, StaysOutstanding
    <3>4. CASE \/ FindClosed(c) \/ WriteError(c) \/ WriteTimeout(c)
               \/ ReplyTimeout(c) \/ Finish(c) \/ Cancel(c)
      <4>1. /\ Forget(c) /\ UNCHANGED <<got, alive>>
            /\ \E to \in Ended : pc' = [pc EXCEPT ![c] = to]
        BY <3>4 DEF FindClosed, WriteError, WriteTimeout, ReplyTimeout, Finish,
                    Cancel, Moves, Ended
      <4>2. QED BY <4>1, Ends
    <3>5. QED BY <2>1, <3>1, <3>2, <3>3, <3>4 DEF Command
  <2>2. ASSUME NEW c \in Cmds, ReadReply(c) PROVE Registrations'
    <3>0. UNCHANGED <<pc, alive>> /\ c # None
      BY <2>2, CmdsAssumption DEF ReadReply
    <3>1. CASE UNCHANGED <<byId, got>> /\ ToSet(order) \cap byId = {} /\ order' = <<>>
      BY <3>0, <3>1 DEF Registrations, RegisteredWhileOutstanding, Distinct, ToSet
    <3>2. ASSUME NEW x \in Cmds,
                 byId' = byId \ {x}, got' = [got EXCEPT ![x] = c],
                 ToSet(order') \subseteq ToSet(order),
                 \A y \in ToSet(order) : y \in byId /\ y # x => y \in ToSet(order'),
                 Distinct(order')
          PROVE  Registrations'
      <4>1. got'[x] # None /\ \A y \in Cmds : y # x => got'[y] = got[y]
        BY <3>0, <3>2 DEF TypeOK
      <4>2. QED BY <3>0, <3>2, <4>1 DEF Registrations, RegisteredWhileOutstanding
    <3>3. CASE c \in Untagged
      <4>1. TakeOldest(c) /\ order \in Seq(Cmds) /\ Distinct(order)
        BY <2>2, <3>3 DEF ReadReply, TypeOK, Registrations
      <4>2. QED BY <3>1, <3>2, <4>1, TakeOldestIs
    <3>4. CASE c \notin Untagged
      <4>1. TakeTagged(c)
        BY <2>2, <3>4 DEF ReadReply
      <4>2. /\ byId' = byId \ {c}
            /\ ToSet(order') \subseteq ToSet(order)
            /\ \A y \in ToSet(order) : y # c => y \in ToSet(order')
            /\ Distinct(order')
        BY <4>1, ForgetIs DEF TakeTagged, TypeOK, Registrations
      <4>3. CASE c \in byId
        BY <3>2, <4>1, <4>2, <4>3 DEF TakeTagged
      <4>4. CASE c \notin byId
        <5>1. byId' = byId /\ got' = got
          BY <4>1, <4>2, <4>4 DEF TakeTagged
        <5>2. QED BY <3>0, <4>2, <4>4, <5>1
                  DEF Registrations, RegisteredWhileOutstanding
      <4>5. QED BY <4>3, <4>4
    <3>5. QED BY <3>3, <3>4
  <2>3. CASE MarkDead
    <3>1. UNCHANGED <<pc, got, order>> /\ byId' = {} /\ alive' = FALSE
      BY <2>3 DEF MarkDead, cmdVars
    <3>2. QED BY <3>1 DEF Registrations, RegisteredWhileOutstanding, Distinct
  <2>4. CASE UNCHANGED <<pc, got, byId, order, alive>>
    BY <2>4 DEF Registrations, RegisteredWhileOutstanding, Distinct
  <2>5. \/ \E c \in Cmds : Command(c)
        \/ \E c \in Cmds : ReadReply(c)
        \/ MarkDead
        \/ UNCHANGED <<pc, got, byId, order, alive>>
    BY DEF Next, Close, ReadLoop, ReadOther, ReadPing, PongSent, PongTimeout,
           SeeShutdown, ReadEnd, AwaitSink, TakeSink, Keepalive, Tick,
           PingLineUp, PingSent, PingFail, GoSilent, cmdVars, pendingVars, vars
  <2>6. QED BY <2>1, <2>2, <2>3, <2>4, <2>5
<1>3. Registrations => RegisteredWhileOutstanding
  BY DEF Registrations
<1>4. QED BY <1>1, <1>2, <1>3, TypeCorrect, PTL DEF Spec

-----------------------------------------------------------------------------
(* The end of the reader.                                                  *)

\* What makes ReaderGoneSocketDown inductive: the reader takes the write half
\* holding it, when no command can be writing, and nobody writes to what is gone.
ReaderTakesSink ==
    /\ reader \in {"dead", "closing", "gone"} => ~alive
    /\ reader = "gone" <=> sink = "taken"
    /\ ReaderGoneSocketDown

\* Once the reader is gone the write half is gone and no command writes.
THEOREM GoneMeansDown == Spec => []ReaderGoneSocketDown
<1>1. Init => ReaderTakesSink
  BY DEF Init, ReaderTakesSink, ReaderGoneSocketDown
<1>2. TypeOK /\ WritersHold /\ ReaderTakesSink /\ [Next]_vars => ReaderTakesSink'
  <2> SUFFICES ASSUME TypeOK, WritersHold, ReaderTakesSink, [Next]_vars
               PROVE  ReaderTakesSink'
    OBVIOUS
  <2>1. ASSUME NEW c \in Cmds, Command(c) PROVE ReaderTakesSink'
    <3>1. UNCHANGED <<reader, alive, sink>>
      BY <2>1 DEF Command, Issue, Register, LineUp, StartWrite, FindClosed,
                  WriteDone, WriteError, WriteTimeout, ReplyTimeout, Finish,
                  Cancel, taskVars
    <3>2. \A d \in Cmds : pc'[d] = "writing" => pc[d] = "writing" \/ sink = "open"
      BY <2>1 DEF TypeOK, Command, Issue, Register, LineUp, StartWrite, FindClosed,
                  WriteDone, WriteError, WriteTimeout, ReplyTimeout, Finish,
                  Cancel, Moves
    <3>3. QED BY <3>1, <3>2 DEF ReaderTakesSink, ReaderGoneSocketDown
  <2>2. CASE TakeSink
    <3>1. \A d \in Cmds : pc[d] # "writing"
      BY <2>2, CmdsAssumption DEF TakeSink, Holds, WritersHold
    <3>2. QED BY <2>2, <3>1 DEF TakeSink, cmdVars, ReaderTakesSink,
                                ReaderGoneSocketDown
  <2>3. CASE ReadLoop /\ ~TakeSink
    <3>1. UNCHANGED <<pc, sink>>
      BY <2>3 DEF ReadLoop, ReadReply, ReadOther, ReadPing, PongSent, PongTimeout,
                  SeeShutdown, ReadEnd, MarkDead, AwaitSink, cmdVars
    <3>2. /\ reader # "gone" /\ reader' # "gone"
          /\ reader' \in {"dead", "closing"} => ~alive'
      BY <2>3 DEF ReadLoop, ReadReply, Hears, ReadOther, ReadPing, PongSent,
                  PongTimeout, SeeShutdown, ReadEnd, MarkDead, AwaitSink,
                  taskVars, ReaderTakesSink
    <3>3. QED BY <3>1, <3>2 DEF ReaderTakesSink, ReaderGoneSocketDown
  <2>4. CASE Close \/ Keepalive \/ GoSilent \/ UNCHANGED vars
    <3>1. UNCHANGED <<pc, sink, reader, alive>>
      BY <2>4 DEF Close, Keepalive, Tick, PingLineUp, PingSent, PingFail,
                  GoSilent, cmdVars, taskVars, vars
    <3>2. QED BY <3>1 DEF ReaderTakesSink, ReaderGoneSocketDown
  <2>5. QED BY <2>1, <2>2, <2>3, <2>4 DEF Next
<1>3. ReaderTakesSink => ReaderGoneSocketDown
  BY DEF ReaderTakesSink
<1>4. QED BY <1>1, <1>2, <1>3, TypeCorrect, WritersAlwaysHold, PTL DEF Spec

=============================================================================

--------------------------- MODULE SessionsProofs ---------------------------
(* Theorems about Connect and Sessions, for every set of writes, addresses,
   households and selectors, and any number of connects. *)
EXTENDS Sessions, FiniteSetTheorems, TLAPS

\* What CHOOSE gives is of the set, or nobody.
LEMMA SingleIsOfTheSet == ASSUME NEW S PROVE Single(S) \in S \cup {Nobody}
<1>1. CASE S = {}
  BY <1>1, FS_EmptySet DEF Single
<1>2. CASE S # {}
  BY <1>2 DEF Single
<1>3. QED BY <1>1, <1>2

\* A selector resolves to a household that is known, or to none.
LEMMA ResolvedIsKnown ==
    ASSUME NEW known \in SUBSET Households, NEW s \in Selectors
    PROVE  Resolve(known, s) \in SomeHousehold
<1>1. {known, s.rooms \cap known, s.exact \cap known, s.prefix \cap known} \subseteq SUBSET Households
  OBVIOUS
<1>2. \A S \in SUBSET Households : Single(S) \in SomeHousehold
  BY SingleIsOfTheSet DEF SomeHousehold
<1>3. QED BY <1>1, <1>2 DEF Resolve, SomeHousehold

\* A household is remembered with its members' addresses.
LEMMA Remembering ==
    ASSUME NEW m \in Memories, NEW h
    PROVE  /\ Members(h) \in SUBSET Ips
           /\ [m EXCEPT ![h] = Members(h)] \in Memories
BY DEF Members, Memories

\* A session that is closed or found severed is a session still.
LEMMA StillASession ==
    ASSUME NEW ss \in [Ids -> SessionRecords], NEW n
    PROVE  /\ [ss EXCEPT ![n].blamed = TRUE] \in [Ids -> SessionRecords]
           /\ [ss EXCEPT ![n].alive = FALSE] \in [Ids -> SessionRecords]
           /\ Closed(ss, n) \in [Ids -> SessionRecords]
           /\ \A i : \A x \in {"none", "alive", "dead"} :
                [ss EXCEPT ![n].pool[i] = x] \in [Ids -> SessionRecords]
<1>1. ASSUME NEW r \in SessionRecords
      PROVE  /\ [r EXCEPT !.blamed = TRUE] \in SessionRecords
             /\ [r EXCEPT !.alive = FALSE] \in SessionRecords
             /\ [r EXCEPT !.closed = TRUE] \in SessionRecords
             /\ [r EXCEPT !.pool = [i \in Ips |-> "none"]] \in SessionRecords
  BY DEF SessionRecords
<1>2. ASSUME NEW f \in [Ids -> SessionRecords]
      PROVE  /\ [f EXCEPT ![n].blamed = TRUE] \in [Ids -> SessionRecords]
             /\ [f EXCEPT ![n].alive = FALSE] \in [Ids -> SessionRecords]
             /\ [f EXCEPT ![n].closed = TRUE] \in [Ids -> SessionRecords]
             /\ [f EXCEPT ![n].pool = [i \in Ips |-> "none"]] \in [Ids -> SessionRecords]
  BY <1>1
<1> DEFINE f1 == [ss EXCEPT ![n].closed = TRUE]
           f2 == [f1 EXCEPT ![n].alive = FALSE]
           f3 == [f2 EXCEPT ![n].pool = [i \in Ips |-> "none"]]
<1>3. f1 \in [Ids -> SessionRecords]
  BY <1>2
<1> HIDE DEF f1
<1>4. f2 \in [Ids -> SessionRecords]
  BY <1>2, <1>3
<1> HIDE DEF f2
<1>5. f3 \in [Ids -> SessionRecords]
  BY <1>2, <1>4
<1>6. Closed(ss, n) = f3
  BY DEF Closed, f1, f2
<1>7. ASSUME NEW i, NEW x \in {"none", "alive", "dead"}
      PROVE  [ss EXCEPT ![n].pool[i] = x] \in [Ids -> SessionRecords]
  <2>1. \A r \in SessionRecords : [r EXCEPT !.pool[i] = x] \in SessionRecords
    BY DEF SessionRecords
  <2>2. QED BY <2>1
<1>8. QED BY <1>2, <1>5, <1>6, <1>7

\* What a release leaves held, and the sessions, have their types.
LEMMA ReleaseTyped ==
    ASSUME TypeOK, NEW w \in Writes, Release(w)
    PROVE  /\ held' \in [session : 0..MaxCalls, generation : Nat]
           /\ sessions' \in [Ids -> SessionRecords]
           /\ open' \subseteq [call : 0..MaxCalls, ip : Ips]
<1>1. 0 \in 0..MaxCalls
  BY ConnectAssumption
<1> DEFINE blamed == [sessions EXCEPT ![write[w].session].blamed = TRUE]
<1>2. sessions' \in [Ids -> SessionRecords]
  <2>1. blamed \in [Ids -> SessionRecords]
    BY StillASession DEF TypeOK
  <2>2. sessions' = Closed(blamed, held.session) \/ sessions' = blamed
    BY DEF Release
  <2> HIDE DEF blamed
  <2>3. Closed(blamed, held.session) \in [Ids -> SessionRecords]
    BY <2>1, StillASession, Zenon
  <2>4. QED BY <2>1, <2>2, <2>3
<1>3. \/ held' = [held EXCEPT !.session = 0] /\ open' = {s \in open : s.call # held.session}
      \/ UNCHANGED <<held, open>>
  BY DEF Release
<1>4. /\ held \in [session : 0..MaxCalls, generation : Nat]
      /\ open \subseteq [call : 0..MaxCalls, ip : Ips]
  BY DEF TypeOK
<1>5. held' \in [session : 0..MaxCalls, generation : Nat]
  BY <1>1, <1>3, <1>4
<1>6. QED BY <1>2, <1>3, <1>4, <1>5

\* The steps of a connect keep the types.
LEMMA ConnectTyped ==
    ASSUME TypeOK, Connecting
    PROVE  /\ call' \in CallRecords /\ world' = world /\ turns' \in 0..MaxTurns
           /\ file' \in Memories /\ other' = other /\ stale' \subseteq {"call", "other"}
           /\ open' \subseteq [call : 0..MaxCalls, ip : Ips]
<1>t. /\ call \in CallRecords /\ file \in Memories /\ stale \subseteq {"call", "other"}
      /\ open \subseteq [call : 0..MaxCalls, ip : Ips] /\ turns \in 0..MaxTurns
      /\ MaxTurns \in Nat /\ world \in [Ips -> SomeHousehold]
  BY ConnectAssumption DEF TypeOK
<1>o. \A S \in SUBSET Ips : Sockets(S) \subseteq [call : 0..MaxCalls, ip : Ips]
  BY <1>t DEF Sockets, CallRecords
<1>u. TakesTurn => turns' \in 0..MaxTurns
  BY <1>t DEF TakesTurn
<1>s. ASSUME NEW m \in Memories, SaveCall(m) PROVE file' \in Memories /\ stale' \subseteq {"call", "other"}
  BY <1>s, <1>t DEF SaveCall
<1>1. CASE Attach
  <2>1. PICK i \in call.todo :
          IF world[i] = Nobody
          THEN call' = [call EXCEPT !.todo = @ \ {i}] /\ UNCHANGED open
          ELSE /\ call' = [call EXCEPT !.todo = @ \ {i}, !.pc = "groups", !.ip = i, !.house = world[i]]
               /\ open' = open \cup Sockets({i})
    BY <1>1 DEF Attach
  <2>2. i \in Ips
    BY <1>t DEF CallRecords
  <2>3. call' \in CallRecords
    <3>1. CASE world[i] = Nobody
      BY <2>1, <3>1, <1>t DEF CallRecords
    <3>2. CASE world[i] # Nobody
      <4>1. /\ world[i] \in SomeHousehold /\ i \in SomeIp /\ "groups" \in Pcs
            /\ call.todo \ {i} \in SUBSET Ips
        BY <2>2, <1>t DEF SomeIp, Pcs, CallRecords
      <4>2. QED BY <2>1, <3>2, <4>1, <1>t DEF CallRecords
    <3>3. QED BY <3>1, <3>2
  <2>4. QED BY <1>1, <2>1, <2>2, <2>3, <1>t, <1>o DEF Attach
<1>2. CASE AttachGroups \/ AttachGroupsFail
  BY <1>2, <1>t, <1>u DEF AttachGroups, AttachGroupsFail, CallRecords, Pcs
<1>3. CASE AttachRemembers
  <2> DEFINE memory == [call.mem EXCEPT ![call.house] = Members(call.house)]
  <2>1. memory \in Memories
    BY <1>t, Remembering DEF CallRecords
  <2>2. call' \in CallRecords
    BY <2>1, <1>3, <1>t DEF AttachRemembers, CallRecords, Pcs
  <2>3. QED BY <2>1, <2>2, <1>3, <1>t, <1>s DEF AttachRemembers
<1>4. CASE AttachFails
  <2>1. [call.mem EXCEPT ![call.house] = Members(call.house)] \in Memories /\ call.mem \in Memories
    BY <1>t, Remembering DEF CallRecords
  <2>2. PICK memory \in Memories :
          call' = [call EXCEPT !.pc = "attach", !.mem = memory, !.faulted = TRUE]
    BY <2>1, <1>4 DEF AttachFails
  <2>3. call' \in CallRecords
    BY <2>2, <1>t DEF CallRecords, Pcs
  <2>4. QED BY <2>3, <1>4, <1>t, <1>u DEF AttachFails
<1>5. CASE Scan
  <2> DEFINE found == {i \in Ips : world[i] # Nobody}
  <2>1. PICK mute \in SUBSET found :
          /\ Cardinality(mute) <= turns
          /\ turns' = turns - Cardinality(mute)
          /\ call' = [call EXCEPT !.conns = {[ip |-> i, house |-> world[i]] : i \in found \ mute},
                                  !.pc = IF found = mute THEN "err" ELSE "fetch"]
          /\ open' = open \cup Sockets(found \ mute)
    BY <1>5 DEF Scan
  <2>2. Cardinality(mute) \in Nat
    BY ConnectAssumption, FS_Subset, FS_CardinalityType
  <2>3. {[ip |-> i, house |-> world[i]] : i \in found \ mute} \subseteq Places
    BY <1>t DEF Places, SomeHousehold
  <2>4. call' \in CallRecords
    BY <2>1, <2>3, <1>t DEF CallRecords, Pcs
  <2>5. found \ mute \in SUBSET Ips
    OBVIOUS
  <2>6. QED BY <2>1, <2>2, <2>4, <2>5, <1>5, <1>t, <1>o DEF Scan
<1>6. CASE Fetch \/ FetchFails
  <2>1. PICK S, T \in SUBSET call.conns :
          call' = [call EXCEPT !.conns = @ \ S, !.found = @ \cup T]
    <3>1. CASE Fetch
      <4>1. PICK c \in call.conns :
              call' = [call EXCEPT !.conns = @ \ (({d \in call.conns : d.house = c.house} \ {c}) \cup {c}),
                                   !.found = @ \cup {c}]
        BY <3>1 DEF Fetch
      <4>2. ({d \in call.conns : d.house = c.house} \ {c}) \cup {c} \in SUBSET call.conns
            /\ {c} \in SUBSET call.conns
        OBVIOUS
      <4>3. QED BY <4>1, <4>2
    <3>2. CASE FetchFails
      <4>1. PICK c \in call.conns : call' = [call EXCEPT !.conns = @ \ {c}]
        BY <3>2 DEF FetchFails
      <4>2. call' = [call EXCEPT !.conns = @ \ {c}, !.found = @ \cup {}]
        BY <4>1, <1>t DEF CallRecords
      <4>3. QED BY <4>2
    <3>3. QED BY <1>6, <3>1, <3>2
  <2>2. call' \in CallRecords
    BY <2>1, <1>t DEF CallRecords
  <2>3. QED BY <2>2, <1>6, <1>t, <1>u DEF Fetch, FetchFails
<1>7. Learnt \in Memories
  BY <1>t, Remembering DEF Learnt, Memories, CallRecords
<1>8. CASE Select
  <2>1. call' \in CallRecords
    <3>1. CASE call' = [call EXCEPT !.pc = "err", !.found = {}]
      BY <3>1, <1>t DEF CallRecords, Pcs
    <3>2. CASE \E c \in call.found :
                  call' = [call EXCEPT !.pc = "ok", !.ip = c.ip, !.house = c.house,
                                       !.mem = Learnt, !.found = {}]
      BY <3>2, <1>t, <1>7 DEF CallRecords, Pcs, Places, SomeIp, SomeHousehold
    <3>3. QED BY <1>8, <3>1, <3>2 DEF Select
  <2>2. QED BY <2>1, <1>8, <1>7, <1>t, <1>s DEF Select
<1>9. CASE SelectFails
  BY <1>9, <1>t, <1>u DEF SelectFails, CallRecords, Pcs
<1>10. QED BY <1>1, <1>2, <1>3, <1>4, <1>5, <1>6, <1>8, <1>9 DEF Connecting

WriteRecords == [pc : WritePcs, generation : Nat, session : 0..MaxCalls, to : SomeIp]

\* A write that goes on, or ends, is a write still.
LEMMA StillAWrite ==
    ASSUME TypeOK, NEW w \in Writes
    PROVE  /\ Resting \in WriteRecords
           /\ \A pc \in WritePcs : [write EXCEPT ![w].pc = pc] \in [Writes -> WriteRecords]
           /\ \A pc \in WritePcs, g \in Nat, n \in 0..MaxCalls :
                [write EXCEPT ![w].pc = pc, ![w].generation = g, ![w].session = n]
                    \in [Writes -> WriteRecords]
           /\ Ends(w) => write' \in [Writes -> WriteRecords]
<1>1. Resting \in WriteRecords
  BY ConnectAssumption DEF Resting, WriteRecords, WritePcs, SomeIp
<1>2. write \in [Writes -> WriteRecords]
  BY DEF TypeOK, WriteRecords
<1>3. \A pc \in WritePcs : [write EXCEPT ![w].pc = pc] \in [Writes -> WriteRecords]
  BY <1>2 DEF WriteRecords
<1>4. ASSUME NEW pc \in WritePcs, NEW g \in Nat, NEW n \in 0..MaxCalls
      PROVE  [write EXCEPT ![w].pc = pc, ![w].generation = g, ![w].session = n]
                    \in [Writes -> WriteRecords]
  <2>1. \A r \in WriteRecords : /\ [r EXCEPT !.pc = pc] \in WriteRecords
                                /\ [r EXCEPT !.generation = g] \in WriteRecords
                                /\ [r EXCEPT !.session = n] \in WriteRecords
    BY DEF WriteRecords
  <2> DEFINE w1 == [write EXCEPT ![w].pc = pc]
             w2 == [w1 EXCEPT ![w].generation = g]
             w3 == [w2 EXCEPT ![w].session = n]
  <2>2. w1 \in [Writes -> WriteRecords]
    BY <1>2, <2>1
  <2> HIDE DEF w1
  <2>3. w2 \in [Writes -> WriteRecords]
    BY <2>1, <2>2
  <2> HIDE DEF w2
  <2>4. w3 \in [Writes -> WriteRecords]
    BY <2>1, <2>3
  <2>5. QED BY <2>4 DEF w1, w2
<1>5. QED BY <1>1, <1>2, <1>3, <1>4 DEF Ends

\* Whoever joined the connect gets a session to refresh, or none.
LEMMA AnsweredTyped ==
    ASSUME TypeOK, NEW pc \in WritePcs, NEW g \in Nat, NEW n \in 0..MaxCalls,
           Answered(pc, g, n)
    PROVE  write' \in [Writes -> WriteRecords]
<1>1. [Resting EXCEPT !.pc = pc, !.generation = g, !.session = n] \in WriteRecords
  BY DEF Resting, WriteRecords, SomeIp
<1>2. write \in [Writes -> WriteRecords]
  BY DEF TypeOK, WriteRecords
<1>3. QED BY <1>1, <1>2 DEF Answered

\* No connect is under way.
LEMMA IdleTyped ==
    ASSUME NEW n \in 0..MaxCalls, NEW f \in BOOLEAN
    PROVE  [Idle EXCEPT !.n = n, !.faulted = f] \in CallRecords
BY DEF Idle, CallRecords, Pcs, Memories, SomeIp, SomeHousehold

\* A connect that begins goes by the file it has just loaded.
LEMMA BeginTyped ==
    ASSUME TypeOK, NEW s \in Selectors, Begin(s)
    PROVE  call' \in CallRecords
<1> DEFINE target == Resolve(Known(file), s)
           todo == IF target = Nobody THEN {} ELSE file[target]
           pc == IF target = Nobody THEN "err" ELSE "attach"
<1>1. target \in SomeHousehold
  BY ResolvedIsKnown DEF Known
<1>2. file \in Memories /\ call.n + 1 \in 0..MaxCalls /\ call.faulted \in BOOLEAN
  BY ConnectAssumption DEF Begin, TypeOK, CallRecords
<1>3. todo \in SUBSET Ips /\ pc \in Pcs
  BY <1>1, <1>2 DEF Memories, SomeHousehold, Pcs
<1>4. call' = [Idle EXCEPT !.n = call.n + 1, !.faulted = call.faulted, !.mem = file,
                           !.wanted = target, !.todo = todo, !.pc = pc]
  BY DEF Begin
<1> HIDE DEF target, todo, pc
<1>5. QED BY <1>1, <1>2, <1>3, <1>4 DEF Idle, CallRecords, SomeIp, SomeHousehold

(* No connect runs while a session is held. *)
Alone == call.pc # "idle" => held.session = 0

(* So what Next does is one of these. *)
Step ==
    \/ \E w \in Writes : Write(w)
    \/ ConnectGoesOn \/ Stores \/ StoresError
    \/ Elsewhere /\ UNCHANGED speakersVars
    \/ Dies

LEMMA NextIsStep == ASSUME Alone, Next PROVE Step
<1>1. CASE Arrives
  <2>1. call.pc = "ok"
    BY <1>1 DEF Arrives, Discards, Stores
  <2>2. QED BY <2>1, <1>1 DEF Alone, Arrives, Step
<1>2. QED BY <1>1 DEF Next, Step

LEMMA AloneStep ==
    ASSUME TypeOK, Alone, Step
    PROVE  Alone'
<1>1. ASSUME NEW w \in Writes, Write(w) PROVE Alone'
  <2>1. CASE \E s \in Selectors : Connects(w, s)
    BY <2>1 DEF Connects, Alone
  <2>2. CASE RefreshFails(w) \/ Fails(w) \/ DeclinesOnDead(w)
    <3>1. call' = call /\ held'.session \in {0, held.session}
      BY <2>2 DEF RefreshFails, Fails, DeclinesOnDead, Release, TypeOK
    <3>2. QED BY <3>1 DEF Alone
  <2>3. CASE Takes(w) \/ Joins(w) \/ Refreshes(w) \/ Reaches(w) \/ Opens(w) \/ Acts(w) \/ GivenUp(w)
    <3>1. call' = call /\ held' = held
      BY <2>3 DEF Takes, Joins, Refreshes, Reaches, Opens, Acts, GivenUp, connectVars
    <3>2. QED BY <3>1 DEF Alone
  <2>4. QED BY <1>1, <2>1, <2>2, <2>3 DEF Write
<1>2. CASE Dies
  BY <1>2 DEF Dies, Alone
<1>3. CASE Stores \/ StoresError
  BY <1>3 DEF Stores, StoresError, Idle, Alone
<1>4. CASE ConnectGoesOn
  <2>1. call.pc # "idle" /\ held' = held
    BY <1>4 DEF ConnectGoesOn, Connecting, Attach, AttachGroups, AttachGroupsFail,
                AttachRemembers, AttachFails, Scan, Fetch, FetchFails, Select, SelectFails,
                FetchedAll, speakersVars
  <2>2. QED BY <2>1 DEF Alone
<1>5. ASSUME Elsewhere, UNCHANGED speakersVars PROVE Alone'
  <2>1. call' = call /\ held' = held
    BY <1>5 DEF Elsewhere, Moves, OtherLoads, OtherSaves, speakersVars
  <2>2. QED BY <2>1 DEF Alone
<1>6. QED BY <1>1, <1>2, <1>3, <1>4, <1>5 DEF Step

\* Every variable keeps its type, and no step but one of Step is taken.
LEMMA TypedSteps == Spec => Init /\ []TypeOK /\ [][Step]_vars
<1>1. Init => TypeOK /\ Alone
  <2> SUFFICES ASSUME Init PROVE TypeOK /\ Alone
    OBVIOUS
  <2>1. 0 \in 0..MaxCalls /\ 0 \in Nat
    BY ConnectAssumption
  <2>2. Idle \in CallRecords
    BY <2>1 DEF Idle, CallRecords, Pcs, Memories, SomeIp, SomeHousehold
  <2>3. Unopened \in SessionRecords
    BY DEF Unopened, SessionRecords, SomeIp, SomeHousehold
  <2>4. Resting \in [pc : WritePcs, generation : Nat, session : 0..MaxCalls, to : SomeIp]
    BY <2>1 DEF Resting, WritePcs, SomeIp
  <2>5. /\ world \in [Ips -> SomeHousehold] /\ turns \in 0..MaxTurns /\ file \in Memories
        /\ other \in [loaded : BOOLEAN, copy : Memories]
    BY ConnectAssumption DEF Init, ConnectInit, SomeHousehold, Memories
  <2>6. QED BY <2>1, <2>2, <2>3, <2>4, <2>5 DEF Init, ConnectInit, TypeOK, Alone, Idle
<1>2. TypeOK /\ Alone /\ [Step]_vars => TypeOK'
  <2> SUFFICES ASSUME TypeOK, Alone, [Step]_vars PROVE TypeOK'
    OBVIOUS
  <2>t. /\ MaxTurns \in Nat /\ MaxCalls \in Nat
        /\ write \in [Writes -> WriteRecords] /\ call \in CallRecords
    BY ConnectAssumption DEF TypeOK, WriteRecords
  <2>u. TakesTurn => turns' \in 0..MaxTurns
    BY <2>t DEF TakesTurn, TypeOK
  <2>1. ASSUME NEW w \in Writes, Write(w) PROVE TypeOK'
    <3>1. CASE Takes(w)
      <4>1. write' \in [Writes -> WriteRecords]
        <5>1. held.generation \in Nat /\ held.session \in 0..MaxCalls /\ "refresh" \in WritePcs
          BY DEF TypeOK, WritePcs
        <5>2. QED BY <3>1, <5>1, StillAWrite DEF Takes
      <4>2. QED BY <4>1, <3>1 DEF Takes, TypeOK, WriteRecords, connectVars
    <3>2. CASE Joins(w)
      <4>1. write' \in [Writes -> WriteRecords]
        BY <3>2, StillAWrite DEF Joins, WritePcs
      <4>2. QED BY <4>1, <3>2 DEF Joins, TypeOK, WriteRecords, connectVars
    <3>3. ASSUME NEW s \in Selectors, Connects(w, s) PROVE TypeOK'
      <4>1. write' \in [Writes -> WriteRecords]
        BY <3>3, StillAWrite DEF Connects, WritePcs
      <4>2. call' \in CallRecords
        BY <3>3, BeginTyped DEF Connects
      <4>3. QED BY <4>1, <4>2, <3>3 DEF Connects, Begin, TypeOK, WriteRecords
    <3>4. CASE Refreshes(w)
      <4>1. PICK i \in Ips : write' = [write EXCEPT ![w].pc = "reach", ![w].to = i]
        BY <3>4 DEF Refreshes
      <4>2. write' \in [Writes -> WriteRecords]
        BY <4>1, <2>t DEF WriteRecords, WritePcs, SomeIp
      <4>3. QED BY <4>2, <3>4 DEF Refreshes, TypeOK, WriteRecords, connectVars
    <3>5. CASE RefreshFails(w) \/ Fails(w) \/ DeclinesOnDead(w)
      <4>1. Release(w) /\ Ends(w) /\ UNCHANGED <<world, turns, file, other, stale, call>>
        BY <3>5 DEF RefreshFails, Fails, DeclinesOnDead
      <4>2. QED BY <4>1, StillAWrite, ReleaseTyped DEF TypeOK, WriteRecords
    <3>6. CASE Reaches(w) \/ Opens(w)
      <4>1. UNCHANGED <<connectVars, held>> /\ \E pc \in WritePcs : write' = [write EXCEPT ![w].pc = pc]
        BY <3>6 DEF Reaches, Opens, WritePcs
      <4>2. \E n, i : \E x \in {"none", "alive"} :
              sessions' \in {sessions, [sessions EXCEPT ![n].pool[i] = x]}
        BY <3>6 DEF Reaches, Opens
      <4>3. sessions' \in [Ids -> SessionRecords]
        <5>1. PICK n, i : \E x \in {"none", "alive", "dead"} :
                sessions' \in {sessions, [sessions EXCEPT ![n].pool[i] = x]}
          BY <4>2
        <5>2. sessions \in [Ids -> SessionRecords]
          BY DEF TypeOK
        <5>3. \A x \in {"none", "alive", "dead"} :
                [sessions EXCEPT ![n].pool[i] = x] \in [Ids -> SessionRecords]
          BY <5>2, StillASession, Zenon
        <5>4. QED BY <5>1, <5>2, <5>3
      <4>4. write' \in [Writes -> WriteRecords]
        <5>1. PICK pc \in WritePcs : write' = [write EXCEPT ![w].pc = pc]
          BY <4>1
        <5>2. [write EXCEPT ![w].pc = pc] \in [Writes -> WriteRecords]
          BY StillAWrite, Zenon
        <5>3. QED BY <5>1, <5>2
      <4>5. QED BY <4>1, <4>3, <4>4 DEF TypeOK, WriteRecords, connectVars
    <3>7. CASE Acts(w)
      BY <3>7, StillAWrite DEF Acts, TypeOK, WriteRecords, connectVars
    <3>8. CASE GivenUp(w)
      BY <3>8, <2>u, StillAWrite DEF GivenUp, TypeOK, WriteRecords
    <3>9. QED BY <2>1, <3>1, <3>2, <3>3, <3>4, <3>5, <3>6, <3>7, <3>8 DEF Write
  <2>2. CASE ConnectGoesOn
    BY <2>2, ConnectTyped DEF ConnectGoesOn, speakersVars, TypeOK
  <2>3. CASE Stores
    <3>1. write' \in [Writes -> WriteRecords] /\ held' \in [session : 0..MaxCalls, generation : Nat]
      <4>1. call.n \in 0..MaxCalls /\ held.generation + 1 \in Nat
        BY <2>t DEF TypeOK, CallRecords
      <4>2. QED BY <4>1, <2>3, AnsweredTyped DEF Stores, WritePcs
    <3>2. sessions' \in [Ids -> SessionRecords]
      <4>1. [Unopened EXCEPT !.ip = call.ip, !.house = call.house, !.wanted = call.wanted,
                             !.alive = TRUE] \in SessionRecords
        BY <2>t DEF Unopened, SessionRecords, CallRecords
      <4>2. QED BY <4>1, <2>3 DEF Stores, TypeOK
    <3>3. call' \in CallRecords
      BY <2>3, <2>t, IdleTyped DEF Stores, CallRecords
    <3>4. QED BY <3>1, <3>2, <3>3, <2>3 DEF Stores, TypeOK, WriteRecords
  <2>4. CASE StoresError
    <3>1. call' \in CallRecords
      BY <2>4, <2>t, IdleTyped DEF StoresError, CallRecords
    <3>2. write' \in [Writes -> WriteRecords]
      BY <2>4, <2>t, AnsweredTyped DEF StoresError, WritePcs
    <3>3. QED BY <3>1, <3>2, <2>4 DEF StoresError, TypeOK, WriteRecords
  <2>5. CASE Elsewhere /\ UNCHANGED speakersVars
    <3>1. CASE Moves
      BY <3>1, <2>5, <2>u DEF Moves, speakersVars, TypeOK, SomeHousehold
    <3>2. CASE OtherLoads
      BY <3>2, <2>5, <2>u DEF OtherLoads, speakersVars, TypeOK
    <3>3. CASE OtherSaves
      <4>1. PICK h \in Households : file' = [other.copy EXCEPT ![h] = Members(h)]
        BY <3>3 DEF OtherSaves
      <4>2. file' \in Memories
        BY <4>1, Remembering DEF TypeOK
      <4>3. QED BY <3>3, <2>5, <4>2 DEF OtherSaves, speakersVars, TypeOK
    <3>4. QED BY <2>5, <3>1, <3>2, <3>3 DEF Elsewhere
  <2>6. CASE Dies
    <3>1. PICK n \in Ids :
            \/ sessions' = [sessions EXCEPT ![n].alive = FALSE]
               /\ open' = {s \in open : s.call # n}
            \/ /\ \E i \in Ips : sessions' = [sessions EXCEPT ![n].pool[i] = "dead"]
               /\ UNCHANGED open
      BY <2>6 DEF Dies
    <3>2. sessions' \in [Ids -> SessionRecords]
      <4>1. sessions \in [Ids -> SessionRecords]
        BY DEF TypeOK
      <4>2. /\ [sessions EXCEPT ![n].alive = FALSE] \in [Ids -> SessionRecords]
            /\ \A i : [sessions EXCEPT ![n].pool[i] = "dead"] \in [Ids -> SessionRecords]
        BY <4>1, StillASession, Zenon
      <4>3. CASE \E i \in Ips : sessions' = [sessions EXCEPT ![n].pool[i] = "dead"]
        <5>1. PICK i \in Ips : sessions' = [sessions EXCEPT ![n].pool[i] = "dead"]
          BY <4>3
        <5>2. [sessions EXCEPT ![n].pool[i] = "dead"] \in [Ids -> SessionRecords]
          BY <4>2
        <5>3. QED BY <5>1, <5>2
      <4>4. QED BY <3>1, <4>2, <4>3
    <3>3. open' \subseteq open
      BY <3>1
    <3>4. turns' \in 0..MaxTurns /\ UNCHANGED <<world, file, other, stale, call, held, write>>
      BY <2>6, <2>u DEF Dies
    <3>5. QED BY <3>2, <3>3, <3>4 DEF TypeOK
  <2>7. CASE UNCHANGED vars
    BY <2>7 DEF vars, connectVars, speakersVars, TypeOK
  <2>8. QED BY <2>1, <2>2, <2>3, <2>4, <2>5, <2>6, <2>7 DEF Step
<1>3. TypeOK /\ Alone /\ [Next]_vars => (TypeOK /\ Alone)'
  <2>1. CASE Next
    BY <2>1, <1>2, NextIsStep, AloneStep
  <2>2. CASE UNCHANGED vars
    BY <2>2, <1>2 DEF vars, connectVars, speakersVars, Alone
  <2>3. QED BY <2>1, <2>2
<1>4. Alone /\ [Next]_vars => [Step]_vars
  BY NextIsStep
<1>5. QED BY <1>1, <1>3, <1>4, PTL DEF Spec

\* Every variable has its type throughout.
THEOREM TypeCorrect == Spec => []TypeOK
<1>1. QED BY TypedSteps, PTL
-----------------------------------------------------------------------------
(* What a step other than Stores leaves of the sessions: whose they are and
   where, that one that has died has no primary socket open, and that none is
   given up alive. *)
Keeps ==
    /\ open' \subseteq open
    /\ \A n \in Ids :
         /\ sessions'[n].ip = sessions[n].ip
         /\ sessions'[n].house = sessions[n].house
         /\ sessions'[n].wanted = sessions[n].wanted
         /\ sessions'[n].alive =>
              sessions[n].alive /\ (n = held.session => held'.session = held.session)
         /\ sessions[n].alive /\ ~sessions'[n].alive => \A s \in open' : s.call # n

(* Nor is one closed that is not blamed. *)
ClosesTheBlamed ==
    \A n \in Ids : /\ sessions[n].blamed => sessions'[n].blamed
                   /\ sessions'[n].closed => sessions[n].closed \/ sessions'[n].blamed

\* Setting one field of a session leaves the others.
LEMMA FieldsApart ==
    ASSUME NEW ss \in [Ids -> SessionRecords], NEW m, NEW n \in Ids
    PROVE  /\ \A i, x : [ss EXCEPT ![m].pool[i] = x][n] =
                IF n = m THEN [ss[n] EXCEPT !.pool[i] = x] ELSE ss[n]
           /\ Closed(ss, m)[n].ip = ss[n].ip /\ Closed(ss, m)[n].house = ss[n].house
           /\ Closed(ss, m)[n].wanted = ss[n].wanted /\ Closed(ss, m)[n].blamed = ss[n].blamed
           /\ IF n = m THEN ~Closed(ss, m)[n].alive ELSE Closed(ss, m)[n] = ss[n]
BY DEF Closed, SessionRecords

(* A write that is about a session knows it by its generation. *)
GenerationInv ==
    \A w \in Writes : write[w].pc \in {"refresh", "reach", "opening", "act"} =>
        /\ write[w].generation <= held.generation
        /\ held.session # 0 /\ write[w].generation = held.generation =>
             write[w].session = held.session

\* A write gives up the session it ran on and no other.
LEMMA ReleaseKeeps ==
    ASSUME TypeOK, GenerationInv, NEW w \in Writes, Release(w),
           write[w].pc \in {"refresh", "reach", "opening", "act"}
    PROVE  Keeps /\ ClosesTheBlamed
<1> DEFINE b == [sessions EXCEPT ![write[w].session].blamed = TRUE]
<1>1. sessions \in [Ids -> SessionRecords] /\ b \in [Ids -> SessionRecords]
  BY StillASession DEF TypeOK
<1>2. ASSUME NEW n \in Ids
      PROVE  /\ b[n].ip = sessions[n].ip /\ b[n].house = sessions[n].house
             /\ b[n].wanted = sessions[n].wanted /\ b[n].alive = sessions[n].alive
             /\ b[n].closed = sessions[n].closed
             /\ sessions[n].blamed => b[n].blamed
             /\ n = write[w].session => b[n].blamed
  BY <1>1 DEF SessionRecords
<1>3. CASE held.session # 0 /\ held.generation = write[w].generation
  <2>1. sessions' = Closed(b, held.session) /\ open' = {s \in open : s.call # held.session}
    BY <1>3 DEF Release
  <2>2. held.session = write[w].session
    BY <1>3 DEF GenerationInv
  <2>4. ASSUME NEW n \in Ids
        PROVE  /\ sessions'[n].ip = b[n].ip /\ sessions'[n].house = b[n].house
               /\ sessions'[n].wanted = b[n].wanted /\ sessions'[n].blamed = b[n].blamed
               /\ IF n = held.session THEN ~sessions'[n].alive ELSE sessions'[n] = b[n]
    <3> HIDE DEF b
    <3>1. LET c == Closed(b, held.session)[n] IN
          /\ c.ip = b[n].ip /\ c.house = b[n].house
          /\ c.wanted = b[n].wanted /\ c.blamed = b[n].blamed
          /\ IF n = held.session THEN ~c.alive ELSE c = b[n]
      <4>1. b \in [Ids -> SessionRecords]
        BY <1>1
      <4>2. QED BY <4>1 DEF Closed, SessionRecords
    <3>2. QED BY <2>1, <3>1
  <2> HIDE DEF b
  <2>5. QED BY <1>2, <2>1, <2>2, <2>4 DEF Keeps, ClosesTheBlamed
<1>4. CASE ~(held.session # 0 /\ held.generation = write[w].generation)
  <2>1. sessions' = b /\ open' = open /\ held' = held
    BY <1>4 DEF Release
  <2> HIDE DEF b
  <2>2. QED BY <1>2, <2>1 DEF Keeps, ClosesTheBlamed
<1>5. QED BY <1>3, <1>4

\* What happens to the sessions in a step of a write.
LEMMA WriteKeeps ==
    ASSUME TypeOK, GenerationInv, NEW w \in Writes, Write(w)
    PROVE  Keeps /\ ClosesTheBlamed
<1>1. sessions \in [Ids -> SessionRecords]
  BY DEF TypeOK
<1>2. CASE UNCHANGED <<sessions, open, held>>
  BY <1>2 DEF Keeps, ClosesTheBlamed
<1>3. CASE RefreshFails(w) \/ Fails(w) \/ DeclinesOnDead(w)
  BY <1>3, ReleaseKeeps DEF RefreshFails, Fails, Severed, DeclinesOnDead
<1>4. CASE Reaches(w) \/ Opens(w)
  <2>1. open' = open /\ held' = held /\ \E n, i, x : sessions' \in {sessions, [sessions EXCEPT ![n].pool[i] = x]}
    BY <1>4 DEF Reaches, Opens, connectVars
  <2>2. PICK m, i, x : sessions' \in {sessions, [sessions EXCEPT ![m].pool[i] = x]}
    BY <2>1
  <2>3. ASSUME NEW n \in Ids, sessions' # sessions
        PROVE  sessions'[n] = IF n = m THEN [sessions[n] EXCEPT !.pool[i] = x] ELSE sessions[n]
    <3>1. [sessions EXCEPT ![m].pool[i] = x][n] =
            IF n = m THEN [sessions[n] EXCEPT !.pool[i] = x] ELSE sessions[n]
      BY <1>1, FieldsApart, Zenon
    <3>2. sessions' = [sessions EXCEPT ![m].pool[i] = x]
      BY <2>2, <2>3
    <3>3. QED BY <3>1, <3>2
  <2>4. ASSUME NEW n \in Ids
        PROVE  /\ sessions'[n].ip = sessions[n].ip /\ sessions'[n].house = sessions[n].house
               /\ sessions'[n].wanted = sessions[n].wanted /\ sessions'[n].alive = sessions[n].alive
               /\ sessions'[n].closed = sessions[n].closed /\ sessions'[n].blamed = sessions[n].blamed
    BY <1>1, <2>3 DEF SessionRecords
  <2>5. QED BY <2>1, <2>4 DEF Keeps, ClosesTheBlamed
<1>5. CASE Takes(w) \/ Joins(w) \/ (\E s \in Selectors : Connects(w, s)) \/ Refreshes(w)
           \/ Acts(w) \/ GivenUp(w)
  BY <1>2, <1>5 DEF Takes, Joins, Connects, Begin, Refreshes, Acts, GivenUp, connectVars
<1>6. QED BY <1>3, <1>4, <1>5 DEF Write

\* What happens to them when a socket dies.
LEMMA DiesKeeps ==
    ASSUME TypeOK, Dies
    PROVE  Keeps /\ ClosesTheBlamed
<1>1. sessions \in [Ids -> SessionRecords]
  BY DEF TypeOK
<1>2. ASSUME NEW m \in Ids, sessions' = [sessions EXCEPT ![m].alive = FALSE],
             open' = {s \in open : s.call # m}, held' = held
      PROVE  Keeps /\ ClosesTheBlamed
  <2>1. ASSUME NEW n \in Ids
        PROVE  /\ sessions'[n].ip = sessions[n].ip /\ sessions'[n].house = sessions[n].house
               /\ sessions'[n].wanted = sessions[n].wanted
               /\ IF n = m THEN ~sessions'[n].alive ELSE sessions'[n].alive = sessions[n].alive
               /\ sessions'[n].closed = sessions[n].closed /\ sessions'[n].blamed = sessions[n].blamed
    BY <1>1, <1>2 DEF SessionRecords
  <2>2. QED BY <1>2, <2>1 DEF Keeps, ClosesTheBlamed
<1>3. ASSUME NEW m \in Ids, NEW i \in Ips, open' = open, held' = held,
             sessions' = [sessions EXCEPT ![m].pool[i] = "dead"]
      PROVE  Keeps /\ ClosesTheBlamed
  <2>1. ASSUME NEW n \in Ids
        PROVE  /\ sessions'[n].ip = sessions[n].ip /\ sessions'[n].house = sessions[n].house
               /\ sessions'[n].wanted = sessions[n].wanted /\ sessions'[n].alive = sessions[n].alive
               /\ sessions'[n].closed = sessions[n].closed /\ sessions'[n].blamed = sessions[n].blamed
    BY <1>1, <1>3 DEF SessionRecords
  <2>2. QED BY <1>3, <2>1 DEF Keeps, ClosesTheBlamed
<1>4. QED BY <1>2, <1>3 DEF Dies
\* A write's session is the one held as long as its generation is.
LEMMA GenerationStep ==
    ASSUME TypeOK, GenerationInv, Step
    PROVE  GenerationInv'
<1>t. /\ held \in [session : 0..MaxCalls, generation : Nat]
      /\ write \in [Writes -> [pc : WritePcs, generation : Nat, session : 0..MaxCalls, to : SomeIp]]
  BY DEF TypeOK
<1> DEFINE Busy == {"refresh", "reach", "opening", "act"}
<1>1. ASSUME held'.generation = held.generation, held'.session \in {0, held.session},
             \A w \in Writes : write'[w].pc \in Busy =>
                /\ write[w].pc \in Busy
                /\ write'[w].generation = write[w].generation
                /\ write'[w].session = write[w].session
      PROVE  GenerationInv'
  BY <1>1 DEF GenerationInv
<1>2. ASSUME NEW w \in Writes, Write(w) PROVE GenerationInv'
  <2>1. CASE Takes(w)
    <3>1. /\ write'[w].generation = held.generation /\ write'[w].session = held.session
          /\ held' = held
          /\ \A v \in Writes \ {w} : write'[v] = write[v]
      BY <2>1, <1>t DEF Takes
    <3>2. QED BY <3>1, <1>t DEF GenerationInv
  <2>2. CASE Joins(w) \/ \E s \in Selectors : Connects(w, s)
    <3>1. held' = held /\ write' = [write EXCEPT ![w].pc = "joined"]
      BY <2>2 DEF Joins, Connects
    <3>2. write'[w].pc \notin Busy /\ \A v \in Writes \ {w} : write'[v] = write[v]
      BY <3>1, <1>t
    <3>3. QED BY <3>1, <3>2, <1>1
  <2>3. CASE Refreshes(w)
    <3>1. /\ held' = held /\ write[w].pc = "refresh"
          /\ \E i \in Ips : write' = [write EXCEPT ![w].pc = "reach", ![w].to = i]
      BY <2>3 DEF Refreshes
    <3>2. /\ write'[w].generation = write[w].generation /\ write'[w].session = write[w].session
          /\ \A v \in Writes \ {w} : write'[v] = write[v]
      BY <3>1, <1>t
    <3>3. QED BY <3>1, <3>2, <1>1
  <2>4. CASE Reaches(w) \/ Opens(w)
    <3>1. /\ held' = held /\ write[w].pc \in Busy
          /\ \E pc \in Busy : write' = [write EXCEPT ![w].pc = pc]
      BY <2>4 DEF Reaches, Opens
    <3>2. /\ write'[w].generation = write[w].generation /\ write'[w].session = write[w].session
          /\ \A v \in Writes \ {w} : write'[v] = write[v]
      BY <3>1, <1>t
    <3>3. QED BY <3>1, <3>2, <1>1
  <2>5. CASE RefreshFails(w) \/ Fails(w) \/ DeclinesOnDead(w) \/ Acts(w) \/ GivenUp(w)
    <3>1. Ends(w) /\ (Release(w) \/ held' = held)
      BY <2>5 DEF RefreshFails, Fails, DeclinesOnDead, Acts, GivenUp
    <3>2. write'[w].pc \notin Busy /\ \A v \in Writes \ {w} : write'[v] = write[v]
      BY <3>1, <1>t DEF Ends, Resting
    <3>3. held'.generation = held.generation /\ held'.session \in {0, held.session}
      BY <3>1, <1>t DEF Release
    <3>4. QED BY <3>2, <3>3, <1>1
  <2>6. QED BY <1>2, <2>1, <2>2, <2>3, <2>4, <2>5 DEF Write
<1>3. CASE Stores
  <2>1. ASSUME NEW w \in Writes, write'[w].pc \in Busy
        PROVE  \/ write'[w] = write[w]
               \/ write'[w].generation = held.generation + 1 /\ write'[w].session = call.n
    BY <1>3, <2>1 DEF Stores, Answered, Resting
  <2>2. held'.generation = held.generation + 1 /\ held'.session = call.n
    BY <1>3 DEF Stores
  <2>3. QED BY <2>1, <2>2, <1>t DEF GenerationInv
<1>4. CASE StoresError
  <2>1. ASSUME NEW w \in Writes, write'[w].pc \in Busy PROVE write'[w] = write[w]
    BY <1>4, <2>1 DEF StoresError, Answered, Resting
  <2>2. QED BY <2>1, <1>4, <1>1 DEF StoresError
<1>5. CASE ConnectGoesOn \/ (Elsewhere /\ UNCHANGED speakersVars) \/ Dies
  BY <1>5, <1>1 DEF ConnectGoesOn, Dies, speakersVars
<1>6. QED BY <1>2, <1>3, <1>4, <1>5 DEF Step

\* What Stores adds is open, of the household asked for, and not closed.
LEMMA StoresKeeps ==
    ASSUME TypeOK, Stores
    PROVE  \A n \in Ids :
             IF n = call.n
             THEN /\ sessions'[n].ip = call.ip /\ sessions'[n].house = call.house
                  /\ sessions'[n].wanted = call.wanted
                  /\ sessions'[n].alive /\ ~sessions'[n].closed
             ELSE sessions'[n] = sessions[n]
<1>1. sessions' = [sessions EXCEPT ![call.n] =
                      [Unopened EXCEPT !.ip = call.ip, !.house = call.house,
                                       !.wanted = call.wanted, !.alive = TRUE]]
  BY DEF Stores
<1>2. QED BY <1>1 DEF Unopened, TypeOK

\* Whatever a step does but Stores, it keeps the sessions.
LEMMA OtherStepsKeep ==
    ASSUME TypeOK, GenerationInv, Step, ~Stores
    PROVE  /\ \A n \in Ids : /\ sessions'[n].ip = sessions[n].ip
                             /\ sessions'[n].house = sessions[n].house
                             /\ sessions'[n].wanted = sessions[n].wanted
           /\ ClosesTheBlamed
<1>1. CASE UNCHANGED sessions
  BY <1>1 DEF ClosesTheBlamed
<1>2. CASE (\E w \in Writes : Write(w)) \/ Dies
  BY <1>2, WriteKeeps, DiesKeeps DEF Keeps
<1>3. QED BY <1>1, <1>2 DEF Step, ConnectGoesOn, speakersVars, StoresError

\* A write that fails closes the session it ran on, and no other: by the
\* generation it took, not by whatever is held when it fails (action.rs:189).
THEOREM FailuresCloseTheirOwn == Spec => []OnlyTheFailedIsClosed
<1>1. Init => GenerationInv /\ OnlyTheFailedIsClosed
  BY DEF Init, GenerationInv, OnlyTheFailedIsClosed, Resting, Unopened
<1>2. TypeOK /\ GenerationInv /\ OnlyTheFailedIsClosed /\ [Step]_vars
        => (GenerationInv /\ OnlyTheFailedIsClosed)'
  <2> SUFFICES ASSUME TypeOK, GenerationInv, OnlyTheFailedIsClosed, [Step]_vars
               PROVE  (GenerationInv /\ OnlyTheFailedIsClosed)'
    OBVIOUS
  <2>1. CASE Stores
    BY <2>1, GenerationStep, StoresKeeps DEF Step, OnlyTheFailedIsClosed
  <2>2. CASE Step /\ ~Stores
    BY <2>2, GenerationStep, OtherStepsKeep DEF ClosesTheBlamed, OnlyTheFailedIsClosed
  <2>3. CASE UNCHANGED vars
    BY <2>3 DEF vars, speakersVars, GenerationInv, OnlyTheFailedIsClosed
  <2>4. QED BY <2>1, <2>2, <2>3
<1>3. QED BY <1>1, <1>2, TypedSteps, PTL

-----------------------------------------------------------------------------
\* A connect that has succeeded has found the household it was to find.
FoundInv == call.pc = "ok" => call.house = call.wanted

\* Neither what answers at a remembered address nor what the scan finds is taken
\* for another household.
LEMMA FoundStep ==
    ASSUME TypeOK, FoundInv, Step
    PROVE  FoundInv'
<1>t. call \in CallRecords
  BY DEF TypeOK
<1>1. CASE UNCHANGED call
  BY <1>1 DEF FoundInv
<1>2. CASE call'.pc # "ok"
  BY <1>2 DEF FoundInv
<1>3. CASE AttachRemembers
  BY <1>3, <1>t DEF AttachRemembers, CallRecords, FoundInv
<1>4. CASE Select
  BY <1>4, <1>t DEF Select, CallRecords, FoundInv
<1>5. CASE Connecting
  <2>1. CASE Attach
    <3>1. call'.pc \in {call.pc, "groups"} /\ call.pc = "attach"
      BY <2>1, <1>t DEF Attach, CallRecords
    <3>2. QED BY <3>1, <1>2
  <2>2. CASE AttachGroups \/ AttachGroupsFail \/ AttachFails \/ SelectFails
    BY <2>2, <1>t, <1>2 DEF AttachGroups, AttachGroupsFail, AttachFails, SelectFails, CallRecords
  <2>3. CASE Scan
    BY <2>3, <1>t, <1>2 DEF Scan, CallRecords
  <2>4. CASE Fetch \/ FetchFails
    BY <2>4, <1>t, <1>2 DEF Fetch, FetchFails, CallRecords
  <2>5. QED BY <1>3, <1>4, <1>5, <2>1, <2>2, <2>3, <2>4 DEF Connecting
<1>6. CASE Stores \/ StoresError
  BY <1>6, <1>2 DEF Stores, StoresError, Idle
<1>7. ASSUME NEW w \in Writes, Write(w) PROVE FoundInv'
  <2>1. ASSUME NEW s \in Selectors, Connects(w, s) PROVE FoundInv'
    BY <2>1, <1>2 DEF Connects, Begin, Idle
  <2>2. CASE RefreshFails(w) \/ Fails(w) \/ DeclinesOnDead(w)
    BY <2>2, <1>1 DEF RefreshFails, Fails, DeclinesOnDead
  <2>3. CASE Takes(w) \/ Joins(w) \/ Refreshes(w) \/ Reaches(w) \/ Opens(w) \/ Acts(w) \/ GivenUp(w)
    BY <2>3, <1>1 DEF Takes, Joins, Refreshes, Reaches, Opens, Acts, GivenUp, connectVars
  <2>4. QED BY <1>7, <2>1, <2>2, <2>3 DEF Write
<1>8. CASE Elsewhere \/ Dies
  BY <1>8, <1>1 DEF Elsewhere, Moves, OtherLoads, OtherSaves, Dies
<1>9. QED BY <1>5, <1>6, <1>7, <1>8 DEF Step, ConnectGoesOn

\* Every session is of the household that was asked for, however the addresses
\* it was remembered at have moved on (session.rs:234).
THEOREM SessionsAreOfTheirHousehold == Spec => []RightHousehold
<1>1. Init => GenerationInv /\ FoundInv /\ RightHousehold
  BY DEF Init, ConnectInit, GenerationInv, FoundInv, RightHousehold, Resting, Unopened, Idle
<1>2. TypeOK /\ GenerationInv /\ FoundInv /\ RightHousehold /\ [Step]_vars
        => (GenerationInv /\ FoundInv /\ RightHousehold)'
  <2> SUFFICES ASSUME TypeOK, GenerationInv, FoundInv, RightHousehold, [Step]_vars
               PROVE  (GenerationInv /\ FoundInv /\ RightHousehold)'
    OBVIOUS
  <2>1. CASE Stores
    <3>1. call.house = call.wanted
      BY <2>1 DEF Stores, FoundInv
    <3>2. QED BY <2>1, <3>1, GenerationStep, FoundStep, StoresKeeps DEF Step, RightHousehold
  <2>2. CASE Step /\ ~Stores
    BY <2>2, GenerationStep, FoundStep, OtherStepsKeep DEF RightHousehold
  <2>3. CASE UNCHANGED vars
    BY <2>3 DEF vars, connectVars, speakersVars, GenerationInv, FoundInv, RightHousehold
  <2>4. QED BY <2>1, <2>2, <2>3
<1>3. QED BY <1>1, <1>2, TypedSteps, PTL
-----------------------------------------------------------------------------
(* The addresses the connect under way may hold an open socket to. *)
Underway ==
    IF call.pc \in {"groups", "id", "ok"} THEN {call.ip}
    ELSE IF call.pc = "fetch" THEN {c.ip : c \in call.conns \cup call.found}
    ELSE {}

(* Every open socket is the connect's under way or that of a living session. *)
OpenInv ==
    /\ call.pc # "idle" => call.n \in Ids
    /\ \A s \in open : s.call \in Ids /\ s.call <= call.n
    /\ ~call.faulted => \A s \in open :
         IF s.call = call.n /\ call.pc # "idle" THEN s.ip \in Underway
         ELSE sessions[s.call].ip = s.ip /\ sessions[s.call].alive

(* Of each household at most one member has been fetched from, and none is left
   to fetch from then. *)
FetchInv ==
    /\ call.pc # "fetch" => call.found = {}
    /\ \A c \in call.found : \A d \in call.conns \cup call.found : d.house = c.house => d = c

\* A household is fetched from once.
LEMMA FetchStep ==
    ASSUME TypeOK, FetchInv, Connecting
    PROVE  FetchInv'
<1>t. call \in CallRecords
  BY DEF TypeOK
<1>1. CASE call'.found = {}
  BY <1>1 DEF FetchInv
<1>2. CASE Attach
  <2>1. call.pc = "attach" /\ call'.found = call.found
    BY <1>2, <1>t DEF Attach, CallRecords
  <2>2. QED BY <2>1, <1>1 DEF FetchInv
<1>3. CASE AttachGroups \/ AttachGroupsFail \/ AttachFails \/ AttachRemembers \/ Scan
  <2>1. call.pc # "fetch" /\ call'.found = call.found
    BY <1>3, <1>t DEF AttachGroups, AttachGroupsFail, AttachFails, AttachRemembers, Scan, CallRecords
  <2>2. QED BY <2>1, <1>1 DEF FetchInv
<1>4. CASE Select \/ SelectFails
  <2>1. call'.found = {}
    BY <1>4, <1>t DEF Select, SelectFails, CallRecords
  <2>2. QED BY <2>1, <1>1
<1>5. CASE Fetch
  <2>1. PICK c \in call.conns :
          /\ call'.conns = call.conns \ (({d \in call.conns : d.house = c.house} \ {c}) \cup {c})
          /\ call'.found = call.found \cup {c}
    BY <1>5, <1>t DEF Fetch, CallRecords
  <2>2. QED BY <2>1, <1>5 DEF Fetch, FetchInv
<1>6. CASE FetchFails
  <2>1. call'.conns \subseteq call.conns /\ call'.found = call.found
    BY <1>6, <1>t DEF FetchFails, CallRecords
  <2>2. QED BY <2>1, <1>6 DEF FetchFails, FetchInv
<1>7. QED BY <1>2, <1>3, <1>4, <1>5, <1>6 DEF Connecting

\* The connect under way closes what it does not go on with.
LEMMA ConnectCloses ==
    ASSUME TypeOK, OpenInv, FetchInv, Connecting, UNCHANGED sessions
    PROVE  OpenInv'
<1>t. call \in CallRecords /\ MaxCalls \in Nat /\ open \subseteq [call : 0..MaxCalls, ip : Ips]
  BY ConnectAssumption DEF TypeOK
(* It is enough to look at the sockets of this connect. *)
<1>1. ASSUME call.pc # "idle", call'.pc # "idle", call'.n = call.n,
             call.faulted => call'.faulted,
             \A s \in open' : s \in open \/ s.call = call.n,
             ~call'.faulted => \A s \in open' : s.call = call.n => s.ip \in Underway'
      PROVE  OpenInv'
  BY <1>1, <1>t DEF OpenInv, Ids
<1>2. \A S : \A s \in Sockets(S) : s.call = call.n /\ s.ip \in S
  BY DEF Sockets
<1>3. \A S : \A s \in open : s.call = call.n /\ s \notin Sockets(S) => s.ip \notin S
  BY <1>t DEF Sockets
<1>4. CASE Attach
  <2>1. PICK i \in call.todo :
          IF world[i] = Nobody
          THEN call' = [call EXCEPT !.todo = @ \ {i}] /\ UNCHANGED open
          ELSE /\ call' = [call EXCEPT !.todo = @ \ {i}, !.pc = "groups", !.ip = i, !.house = world[i]]
               /\ open' = open \cup Sockets({i})
    BY <1>4 DEF Attach
  <2>2. call.pc = "attach"
    BY <1>4 DEF Attach
  <2>3. CASE world[i] = Nobody
    BY <2>1, <2>2, <2>3, <1>1, <1>t DEF CallRecords, OpenInv, Underway
  <2>4. CASE world[i] # Nobody
    <3>1. call'.pc = "groups" /\ call'.ip = i /\ call'.n = call.n /\ call'.faulted = call.faulted
      BY <2>1, <2>4, <1>t DEF CallRecords
    <3>2. ~call.faulted => \A s \in open : s.call # call.n
      BY <2>2 DEF OpenInv, Underway
    <3>3. \A s \in open' : s \in open \/ (s.call = call.n /\ s.ip = i)
      BY <2>1, <2>4, <1>2
    <3>4. QED BY <3>1, <3>2, <3>3, <2>2, <1>1 DEF Underway
  <2>5. QED BY <2>3, <2>4
<1>5. CASE AttachGroups
  <2>1. /\ call'.pc = "id" /\ call.pc = "groups" /\ call'.ip = call.ip /\ call'.n = call.n
        /\ call'.faulted = call.faulted /\ open' = open
    BY <1>5, <1>t DEF AttachGroups, CallRecords
  <2>2. QED BY <2>1, <1>1 DEF OpenInv, Underway
<1>6. CASE AttachGroupsFail
  <2>1. /\ call'.pc \in {"attach", "err"} /\ call.pc = "groups" /\ call'.n = call.n
        /\ call'.faulted = call.faulted /\ open' = open \ Sockets({call.ip})
    BY <1>6, <1>t DEF AttachGroupsFail, CallRecords
  <2>2. QED BY <2>1, <1>1, <1>3 DEF OpenInv, Underway
<1>7. CASE AttachRemembers
  <2>1. /\ call.pc = "id" /\ call'.ip = call.ip /\ call'.n = call.n /\ call'.faulted = call.faulted
        /\ \/ call'.pc = "ok" /\ open' = open
           \/ call'.pc = "attach" /\ open' = open \ Sockets({call.ip})
    BY <1>7, <1>t DEF AttachRemembers, CallRecords
  <2>2. QED BY <2>1, <1>1, <1>3 DEF OpenInv, Underway
<1>8. CASE AttachFails
  <2>1. call.pc = "id" /\ call'.pc = "attach" /\ call'.n = call.n /\ call'.faulted /\ open' = open
    BY <1>8, <1>t DEF AttachFails, CallRecords
  <2>2. QED BY <2>1, <1>1
<1>9. CASE Scan
  <2>1. PICK answered \in SUBSET Ips :
          /\ call.pc = "attach"
          /\ call' = [call EXCEPT !.conns = {[ip |-> i, house |-> world[i]] : i \in answered},
                                  !.pc = IF answered = {} THEN "err" ELSE "fetch"]
          /\ open' = open \cup Sockets(answered)
    <3> DEFINE found == {i \in Ips : world[i] # Nobody}
    <3>1. PICK mute \in SUBSET found :
            /\ call' = [call EXCEPT !.conns = {[ip |-> i, house |-> world[i]] : i \in found \ mute},
                                    !.pc = IF found = mute THEN "err" ELSE "fetch"]
            /\ open' = open \cup Sockets(found \ mute)
      BY <1>9 DEF Scan
    <3>2. found \ mute \in SUBSET Ips /\ (found = mute <=> found \ mute = {})
      OBVIOUS
    <3> HIDE DEF found
    <3>3. QED BY <3>1, <3>2, <1>9 DEF Scan
  <2>2. /\ call'.n = call.n /\ call'.faulted = call.faulted
        /\ call'.pc = IF answered = {} THEN "err" ELSE "fetch"
        /\ call'.conns = {[ip |-> i, house |-> world[i]] : i \in answered}
    BY <2>1, <1>t DEF CallRecords
  <2>3. ~call.faulted => \A s \in open : s.call # call.n
    BY <2>1 DEF OpenInv, Underway
  <2>4. \A s \in open' : s \in open \/ (s.call = call.n /\ s.ip \in answered)
    BY <2>1, <1>2
  <2>5. answered \subseteq Underway'
    <3>1. ASSUME NEW i \in answered PROVE i \in Underway'
      <4>1. call'.pc = "fetch" /\ [ip |-> i, house |-> world[i]] \in call'.conns \cup call'.found
        BY <2>2, <3>1
      <4>2. QED BY <4>1 DEF Underway
    <3>2. QED BY <3>1
  <2>6. QED BY <2>1, <2>2, <2>3, <2>4, <2>5, <1>1
<1>10. CASE Fetch
  <2>1. PICK c \in call.conns :
          /\ call' = [call EXCEPT !.conns = @ \ (({d \in call.conns : d.house = c.house} \ {c}) \cup {c}),
                                  !.found = @ \cup {c}]
          /\ open' = open \ Sockets({d.ip : d \in {d \in call.conns : d.house = c.house} \ {c}})
    BY <1>10 DEF Fetch
  <2> DEFINE spares == {d \in call.conns : d.house = c.house} \ {c}
  <2>2. /\ call.pc = "fetch" /\ call'.pc = "fetch" /\ call'.n = call.n /\ call'.faulted = call.faulted
        /\ call'.conns = call.conns \ (spares \cup {c}) /\ call'.found = call.found \cup {c}
    BY <2>1, <1>10, <1>t DEF Fetch, CallRecords
  <2>3. ASSUME NEW s \in open', s.call = call.n, ~call.faulted
        PROVE  s.ip \in Underway'
    <3>1. s \in open /\ s \notin Sockets({d.ip : d \in spares})
      BY <2>1, <2>3
    <3>2. s.ip \notin {d.ip : d \in spares}
      BY <3>1, <2>3, <1>3
    <3>3. PICK d \in call.conns \cup call.found : s.ip = d.ip
      BY <3>1, <2>2, <2>3 DEF OpenInv, Underway
    <3>4. d \in call'.conns \cup call'.found
      BY <3>2, <3>3, <2>2
    <3>5. QED BY <3>3, <3>4, <2>2 DEF Underway
  <2>4. QED BY <2>1, <2>2, <2>3, <1>1
<1>11. CASE FetchFails
  <2>1. PICK c \in call.conns : /\ call' = [call EXCEPT !.conns = @ \ {c}]
                                /\ open' = open \ Sockets({c.ip})
    BY <1>11 DEF FetchFails
  <2>2. /\ call.pc = "fetch" /\ call'.pc = "fetch" /\ call'.n = call.n /\ call'.faulted = call.faulted
        /\ call'.conns = call.conns \ {c} /\ call'.found = call.found
    BY <2>1, <1>11, <1>t DEF FetchFails, CallRecords
  <2>3. ASSUME NEW s \in open', s.call = call.n, ~call.faulted
        PROVE  s.ip \in Underway'
    <3>1. s \in open /\ s.ip # c.ip
      BY <2>1, <2>3, <1>3
    <3>2. PICK d \in call.conns \cup call.found : s.ip = d.ip
      BY <3>1, <2>2, <2>3 DEF OpenInv, Underway
    <3>3. d \in call'.conns \cup call'.found
      BY <3>1, <3>2, <2>2
    <3>4. QED BY <3>2, <3>3, <2>2 DEF Underway
  <2>4. QED BY <2>1, <2>2, <2>3, <1>1
<1>12. CASE Select
  <2> DEFINE kept == {c \in call.found : c.house = call.wanted}
             others == call.found \ kept
  <2>1. /\ call.pc = "fetch" /\ call.conns = {} /\ call'.n = call.n /\ call'.faulted = call.faulted
        /\ open' = open \ Sockets({c.ip : c \in others})
        /\ \/ kept = {} /\ call'.pc = "err"
           \/ \E c \in kept : call'.pc = "ok" /\ call'.ip = c.ip
    <3>1. /\ call.pc = "fetch" /\ call.conns = {} /\ open' = open \ Sockets({c.ip : c \in others})
          /\ IF kept = {} THEN call' = [call EXCEPT !.pc = "err", !.found = {}]
             ELSE \E c \in kept : call' = [call EXCEPT !.pc = "ok", !.ip = c.ip, !.house = c.house,
                                                      !.mem = Learnt, !.found = {}]
      BY <1>12 DEF Select, FetchedAll
    <3> HIDE DEF kept
    <3>2. CASE kept = {}
      BY <3>1, <3>2, <1>t DEF CallRecords
    <3>3. CASE kept # {}
      <4>1. PICK c \in kept : call' = [call EXCEPT !.pc = "ok", !.ip = c.ip, !.house = c.house,
                                                  !.mem = Learnt, !.found = {}]
        BY <3>1, <3>3
      <4>2. QED BY <4>1, <3>1, <1>t DEF CallRecords
    <3>4. QED BY <3>2, <3>3
  <2>2. ASSUME NEW s \in open', s.call = call.n, ~call.faulted
        PROVE  s.ip \in Underway'
    <3>1. s \in open /\ s.ip \notin {c.ip : c \in others}
      BY <2>1, <2>2, <1>3
    <3>2. PICK d \in call.found : s.ip = d.ip
      BY <3>1, <2>1, <2>2 DEF OpenInv, Underway
    <3>3. d \in kept
      BY <3>1, <3>2
    <3>4. call'.pc = "ok" /\ call'.ip = d.ip
      BY <3>3, <2>1 DEF FetchInv
    <3>5. QED BY <3>2, <3>4 DEF Underway
  <2>3. QED BY <2>1, <2>2, <1>1
<1>13. CASE SelectFails
  <2>1. call.pc = "fetch" /\ call'.pc = "err" /\ call'.n = call.n /\ call'.faulted /\ open' = open
    BY <1>13, <1>t DEF SelectFails, FetchedAll, CallRecords
  <2>2. QED BY <2>1, <1>1
<1>14. QED BY <1>4, <1>5, <1>6, <1>7, <1>8, <1>9, <1>10, <1>11, <1>12, <1>13 DEF Connecting

\* No step leaves a socket open that is nobody's.
LEMMA OpenStep ==
    ASSUME TypeOK, GenerationInv, OpenInv, FetchInv, Step
    PROVE  OpenInv' /\ FetchInv'
<1>t. call \in CallRecords /\ MaxCalls \in Nat /\ open \subseteq [call : 0..MaxCalls, ip : Ips]
  BY ConnectAssumption DEF TypeOK
<1>1. ASSUME Keeps, call' = call PROVE OpenInv' /\ FetchInv'
  <2>1. Underway' = Underway
    BY <1>1 DEF Underway
  <2>2. QED BY <1>1, <2>1 DEF Keeps, OpenInv, FetchInv
<1>2. CASE ConnectGoesOn
  BY <1>2, ConnectCloses, FetchStep DEF ConnectGoesOn, speakersVars
<1>3. CASE Stores
  <2>1. /\ call.pc = "ok" /\ call'.pc = "idle" /\ call'.n = call.n /\ call'.found = {}
        /\ call'.faulted = call.faulted /\ open' = open
    BY <1>3, <1>t DEF Stores, Idle, CallRecords
  <2>2. ~call.faulted => \A s \in open : s.call = call.n => s.ip = call.ip
    BY <2>1 DEF OpenInv, Underway
  <2>3. QED BY <2>1, <2>2, <1>3, StoresKeeps DEF OpenInv, FetchInv
<1>4. CASE StoresError
  <2>1. /\ call.pc = "err" /\ call'.pc = "idle" /\ call'.n = call.n /\ call'.found = {}
        /\ call'.faulted = call.faulted /\ open' = open /\ sessions' = sessions
    BY <1>4, <1>t DEF StoresError, Idle, CallRecords
  <2>2. ~call.faulted => \A s \in open : s.call # call.n
    BY <2>1 DEF OpenInv, Underway
  <2>3. QED BY <2>1, <2>2 DEF OpenInv, FetchInv
<1>5. ASSUME NEW w \in Writes, NEW s \in Selectors, Connects(w, s) PROVE OpenInv' /\ FetchInv'
  <2>1. /\ call.pc = "idle" /\ call'.pc \in {"err", "attach"} /\ call'.n = call.n + 1
        /\ call'.faulted = call.faulted /\ open' = open /\ sessions' = sessions
        /\ call.n < MaxCalls /\ call'.found = {}
    BY <1>5, <1>t DEF Connects, Begin, Idle, CallRecords
  <2>2. call.n \in 0..MaxCalls /\ call'.n \in Ids /\ \A r \in open : r.call \in Nat
    BY <2>1, <1>t DEF CallRecords, Ids
  <2>3. \A r \in open : r.call \in Ids /\ r.call <= call'.n /\ r.call # call'.n
    BY <2>1, <2>2 DEF OpenInv
  <2>4. QED BY <2>1, <2>2, <2>3 DEF OpenInv, FetchInv
<1>6. ASSUME NEW w \in Writes, Write(w) PROVE OpenInv' /\ FetchInv'
  <2>1. CASE \E s \in Selectors : Connects(w, s)
    BY <2>1, <1>5
  <2>2. CASE ~\E s \in Selectors : Connects(w, s)
    <3>1. call' = call
      BY <1>6, <2>2 DEF Write, Takes, Joins, Refreshes, RefreshFails, Reaches, Opens, Fails, Acts,
                        DeclinesOnDead, GivenUp, connectVars
    <3>2. QED BY <3>1, <1>1, <1>6, WriteKeeps
  <2>3. QED BY <2>1, <2>2
<1>7. CASE Dies
  BY <1>7, <1>1, DiesKeeps DEF Dies
<1>8. CASE Elsewhere /\ UNCHANGED speakersVars
  BY <1>8, <1>1 DEF Elsewhere, Moves, OtherLoads, OtherSaves, speakersVars, Keeps
<1>9. QED BY <1>2, <1>3, <1>4, <1>6, <1>7, <1>8 DEF Step

\* Throughout a run every open socket is somebody's, and a household is fetched
\* from once.
LEMMA SocketsAreOwned == Spec => [](OpenInv /\ FetchInv)
<1>1. Init => GenerationInv /\ OpenInv /\ FetchInv
  BY DEF Init, ConnectInit, GenerationInv, OpenInv, FetchInv, Resting, Idle
<1>2. TypeOK /\ GenerationInv /\ OpenInv /\ FetchInv /\ [Step]_vars
        => (GenerationInv /\ OpenInv /\ FetchInv)'
  <2> SUFFICES ASSUME TypeOK, GenerationInv, OpenInv, FetchInv, [Step]_vars
               PROVE  (GenerationInv /\ OpenInv /\ FetchInv)'
    OBVIOUS
  <2>1. CASE Step
    BY <2>1, GenerationStep, OpenStep
  <2>2. CASE UNCHANGED vars
    BY <2>2 DEF vars, connectVars, speakersVars, GenerationInv, OpenInv, FetchInv, Underway
  <2>3. QED BY <2>1, <2>2
<1>3. QED BY <1>1, <1>2, TypedSteps, PTL

\* Between two connects nothing is open but the living sessions' sockets, if no
\* early return of attach or discover_households was taken (session.rs:154, 445).
THEOREM ConnectsCloseTheRest == Spec => []NothingLeftOpen
<1>1. OpenInv => NothingLeftOpen
  BY DEF OpenInv, NothingLeftOpen
<1>2. QED BY <1>1, SocketsAreOwned, PTL
-----------------------------------------------------------------------------
\* Writes share one session, whatever they fail at and however they overlap; the
\* one that open_and_store would find stored before it never is (action.rs:175).
THEOREM WritesShareOneSession == Spec => []OneSession
<1>1. Init => GenerationInv /\ OneSession
  BY DEF Init, ConnectInit, GenerationInv, OneSession, Resting, Unopened, Idle
<1>2. TypeOK /\ GenerationInv /\ OneSession /\ [Step]_vars => (GenerationInv /\ OneSession)'
  <2> SUFFICES ASSUME TypeOK, GenerationInv, OneSession, [Step]_vars
               PROVE  (GenerationInv /\ OneSession)'
    OBVIOUS
  <2>t. call \in CallRecords
    BY DEF TypeOK
  <2>1. ASSUME Keeps, call'.pc # "idle" => held'.session = 0 PROVE OneSession'
    BY <2>1 DEF Keeps, OneSession
  <2>2. CASE Stores
    <3>1. call'.pc = "idle" /\ held'.session = call.n /\ held.session = 0
      BY <2>2 DEF Stores, Idle
    <3>2. \A n \in Ids : ~sessions[n].alive
      BY <3>1 DEF OneSession, Ids
    <3>3. QED BY <2>2, <3>1, <3>2, StoresKeeps, GenerationStep DEF Step, OneSession
  <2>3. ASSUME NEW w \in Writes, Write(w) PROVE OneSession'
    <3>1. CASE \E s \in Selectors : Connects(w, s)
      BY <3>1 DEF Connects, OneSession
    <3>2. CASE RefreshFails(w) \/ Fails(w) \/ DeclinesOnDead(w)
      <4>1. call' = call /\ held'.session \in {0, held.session}
        BY <3>2 DEF RefreshFails, Fails, DeclinesOnDead, Release, TypeOK
      <4>2. QED BY <4>1, <2>1, <2>3, WriteKeeps DEF OneSession
    <3>3. CASE Takes(w) \/ Joins(w) \/ Refreshes(w) \/ Reaches(w) \/ Opens(w) \/ Acts(w) \/ GivenUp(w)
      <4>1. call' = call /\ held' = held
        BY <3>3 DEF Takes, Joins, Refreshes, Reaches, Opens, Acts, GivenUp, connectVars
      <4>2. QED BY <4>1, <2>1, <2>3, WriteKeeps DEF OneSession
    <3>4. QED BY <2>3, <3>1, <3>2, <3>3 DEF Write
  <2>4. ASSUME Dies PROVE OneSession'
    <3>1. call' = call /\ held' = held
      BY <2>4 DEF Dies
    <3>2. call'.pc # "idle" => held'.session = 0
      BY <3>1 DEF OneSession
    <3>3. Keeps
      BY <2>4, DiesKeeps
    <3>4. QED BY <3>2, <3>3, <2>1
  <2>5. ASSUME StoresError PROVE OneSession'
    <3>1. call'.pc = "idle" /\ held' = held /\ sessions' = sessions
      BY <2>5 DEF StoresError, Idle
    <3>2. QED BY <3>1 DEF OneSession
  <2>6. ASSUME ConnectGoesOn PROVE OneSession'
    <3>1. call.pc # "idle" /\ UNCHANGED <<held, sessions>>
      BY <2>6 DEF ConnectGoesOn, Connecting, Attach, AttachGroups, AttachGroupsFail,
                  AttachRemembers, AttachFails, Scan, Fetch, FetchFails, Select, SelectFails,
                  FetchedAll, speakersVars
    <3>2. QED BY <3>1 DEF OneSession
  <2>7. ASSUME Elsewhere, UNCHANGED speakersVars PROVE OneSession'
    <3>1. call' = call /\ held' = held /\ sessions' = sessions
      BY <2>7 DEF Elsewhere, Moves, OtherLoads, OtherSaves, speakersVars
    <3>2. QED BY <3>1 DEF OneSession
  <2>8. CASE UNCHANGED vars
    BY <2>8 DEF vars, connectVars, speakersVars, GenerationInv, OneSession
  <2>9. QED BY <2>2, <2>3, <2>4, <2>5, <2>6, <2>7, <2>8, GenerationStep DEF Step
<1>3. QED BY <1>1, <1>2, TypedSteps, PTL
-----------------------------------------------------------------------------
(* A socket keeps its player where it is: who answered at an address when it was
   opened answers there for as long as the connect is at work on it. *)
Answers(ip, house) == house # Nobody /\ world[ip] = house /\ \E s \in open : s.ip = ip

SocketInv ==
    /\ call.pc \in {"groups", "id"} => Answers(call.ip, call.house)
    /\ call.pc = "fetch" =>
        /\ \A c \in call.conns \cup call.found : Answers(c.ip, c.house)
        /\ call.conns \cap call.found = {}

(* A copy nobody has saved over knows every household that the file knows: a
   connect's, which may know more when a save has failed, and another's. *)
CopiesInv ==
    /\ "call" \notin stale /\ call.pc \in {"attach", "groups", "id", "fetch"} =>
        \A h \in Households : file[h] # {} => call.mem[h] # {}
    /\ "other" \notin stale /\ other.loaded => other.copy = file

(* What ForgottenOnEvidence says of one step. *)
OnEvidence ==
    \A h \in Forgotten :
        \/ stale # {}
        \/ call.mem[h] # {} /\ \A i \in call.mem[h] : world[i] \notin {h, Nobody}

\* While a connect is under way no write closes a socket, and none dies.
LEMMA NoneClosesMeanwhile ==
    ASSUME TypeOK, OneSession, call.pc # "idle",
           Dies \/ \E w \in Writes : Write(w)
    PROVE  UNCHANGED <<open, call, world, file, other, stale>>
<1>1. held.session = 0 /\ \A n \in Ids : ~sessions[n].alive
  BY DEF OneSession, Ids
<1>2. CASE Dies
  BY <1>1, <1>2 DEF Dies
<1>3. ASSUME NEW w \in Writes, Write(w) PROVE UNCHANGED <<open, call, world, file, other, stale>>
  <2>1. Release(w) => UNCHANGED open
    BY <1>1 DEF Release
  <2>2. QED BY <1>3, <2>1 DEF Write, Takes, Joins, Connects, Begin, Refreshes, RefreshFails, Reaches,
               Opens, Fails, Acts, DeclinesOnDead, GivenUp, connectVars
<1>4. QED BY <1>2, <1>3

\* A connect goes on with what still answers.
LEMMA ConnectHoldsOn ==
    ASSUME TypeOK, FetchInv, SocketInv, Connecting
    PROVE  SocketInv'
<1>t. call \in CallRecords /\ world \in [Ips -> SomeHousehold] /\ UNCHANGED world
  BY ConnectTyped DEF TypeOK
<1>n. \A S : \A s \in Sockets(S) : s.ip \in S
  BY DEF Sockets
<1>o. ASSUME NEW S, NEW i \in S PROVE \E s \in Sockets(S) : s.ip = i
  <2>1. [call |-> call.n, ip |-> i] \in Sockets(S)
    BY DEF Sockets
  <2>2. QED BY <2>1
<1>1. CASE call'.pc \notin {"groups", "id", "fetch"}
  BY <1>1 DEF SocketInv
<1>2. CASE Attach
  <2>1. PICK i \in call.todo :
          IF world[i] = Nobody
          THEN call' = [call EXCEPT !.todo = @ \ {i}] /\ UNCHANGED open
          ELSE /\ call' = [call EXCEPT !.todo = @ \ {i}, !.pc = "groups", !.ip = i, !.house = world[i]]
               /\ open' = open \cup Sockets({i})
    BY <1>2 DEF Attach
  <2>2. CASE world[i] = Nobody
    <3>1. call'.pc = "attach"
      BY <1>2, <2>1, <2>2, <1>t DEF Attach, CallRecords
    <3>2. QED BY <3>1, <1>1
  <2>3. CASE world[i] # Nobody
    <3>1. /\ call'.pc = "groups" /\ call'.ip = i /\ call'.house = world[i]
          /\ open' = open \cup Sockets({i})
      BY <2>1, <2>3, <1>t DEF CallRecords
    <3>2. \E s \in open' : s.ip = i
      BY <3>1, <1>o
    <3>3. QED BY <3>1, <3>2, <2>3, <1>t DEF SocketInv, Answers
  <2>4. QED BY <2>2, <2>3
<1>3. CASE AttachGroups
  <2>1. /\ call.pc = "groups" /\ call'.pc = "id" /\ open' = open
        /\ call'.ip = call.ip /\ call'.house = call.house
    BY <1>3, <1>t DEF AttachGroups, CallRecords
  <2>2. QED BY <2>1, <1>t DEF SocketInv, Answers
<1>4. CASE AttachGroupsFail \/ AttachRemembers \/ AttachFails \/ Select \/ SelectFails
  <2>1. call'.pc \in {"attach", "err", "ok"}
    <3>1. CASE AttachGroupsFail
      BY <3>1, <1>t DEF AttachGroupsFail, CallRecords
    <3>2. CASE AttachRemembers
      BY <3>2, <1>t DEF AttachRemembers, CallRecords
    <3>3. CASE AttachFails
      BY <3>3, <1>t DEF AttachFails, CallRecords
    <3>4. CASE Select \/ SelectFails
      BY <3>4, <1>t DEF Select, SelectFails, CallRecords
    <3>5. QED BY <1>4, <3>1, <3>2, <3>3, <3>4
  <2>2. QED BY <2>1, <1>1
<1>5. CASE Scan
  <2>1. PICK S \in SUBSET {i \in Ips : world[i] # Nobody} :
          /\ call'.conns = {[ip |-> i, house |-> world[i]] : i \in S}
          /\ call'.found = call.found
          /\ call'.pc \in {"err", "fetch"}
          /\ open' = open \cup Sockets(S)
    <3> DEFINE found == {i \in Ips : world[i] # Nobody}
    <3>1. PICK mute \in SUBSET found :
            /\ call' = [call EXCEPT !.conns = {[ip |-> i, house |-> world[i]] : i \in found \ mute},
                                    !.pc = IF found = mute THEN "err" ELSE "fetch"]
            /\ open' = open \cup Sockets(found \ mute)
      BY <1>5 DEF Scan
    <3>2. found \ mute \in SUBSET found
      OBVIOUS
    <3> HIDE DEF found
    <3>3. QED BY <3>1, <3>2, <1>t DEF CallRecords, found
  <2>2. call.found = {}
    BY <1>5 DEF Scan, FetchInv
  <2>3. ASSUME NEW c \in call'.conns PROVE Answers(c.ip, c.house)'
    <3>1. PICK i \in S : c = [ip |-> i, house |-> world[i]]
      BY <2>1
    <3>2. \E s \in open' : s.ip = i
      BY <2>1, <1>o
    <3>3. world[i] # Nobody /\ c.ip = i /\ c.house = world[i]
      BY <3>1
    <3>4. QED BY <3>2, <3>3, <1>t DEF Answers
  <2>4. QED BY <2>1, <2>2, <2>3 DEF SocketInv
<1>6. CASE Fetch
  <2>1. PICK c \in call.conns :
          /\ call' = [call EXCEPT !.conns = @ \ (({d \in call.conns : d.house = c.house} \ {c}) \cup {c}),
                                  !.found = @ \cup {c}]
          /\ open' = open \ Sockets({d.ip : d \in {d \in call.conns : d.house = c.house} \ {c}})
    BY <1>6 DEF Fetch
  <2> DEFINE spares == {d \in call.conns : d.house = c.house} \ {c}
  <2>2. /\ call.pc = "fetch" /\ call'.pc = "fetch" /\ open' = open \ Sockets({d.ip : d \in spares})
        /\ call'.conns = call.conns \ (spares \cup {c}) /\ call'.found = call.found \cup {c}
    BY <2>1, <1>6, <1>t DEF Fetch, CallRecords
  <2>3. ASSUME NEW e \in call'.conns \cup call'.found PROVE Answers(e.ip, e.house)'
    <3>1. e \in call.conns \cup call.found /\ e \notin spares
      <4>1. e \in call.found => e \notin call.conns
        BY <2>2 DEF SocketInv
      <4>2. QED BY <2>2, <2>3, <4>1
    <3>2. Answers(e.ip, e.house)
      BY <3>1, <2>2 DEF SocketInv
    <3>3. e.ip \notin {d.ip : d \in spares}
      <4> SUFFICES ASSUME NEW d \in spares, e.ip = d.ip PROVE FALSE
        OBVIOUS
      <4>1. Answers(d.ip, d.house)
        BY <2>2 DEF SocketInv
      <4>2. e.house = d.house /\ d.house = c.house
        BY <3>2, <4>1 DEF Answers
      <4>3. CASE e \in call.found
        BY <4>2, <4>3, <2>2 DEF FetchInv
      <4>4. CASE e \in call.conns
        <5>1. d \in Places /\ e \in Places
          BY <4>4, <1>t DEF CallRecords
        <5>2. e = d
          BY <4>2, <5>1 DEF Places
        <5>3. QED BY <5>2, <3>1
      <4>5. QED BY <3>1, <4>3, <4>4
    <3>4. PICK s \in open : s.ip = e.ip
      BY <3>2 DEF Answers
    <3>5. s \in open'
      BY <3>3, <3>4, <2>2, <1>n
    <3>6. QED BY <3>2, <3>4, <3>5, <1>t DEF Answers
  <2>4. call'.conns \cap call'.found = {}
    BY <2>2 DEF SocketInv
  <2>5. QED BY <2>2, <2>3, <2>4 DEF SocketInv
<1>7. CASE FetchFails
  <2>1. PICK c \in call.conns : /\ call' = [call EXCEPT !.conns = @ \ {c}]
                                /\ open' = open \ Sockets({c.ip})
    BY <1>7 DEF FetchFails
  <2>2. /\ call.pc = "fetch" /\ call'.pc = "fetch"
        /\ call'.conns = call.conns \ {c} /\ call'.found = call.found
    BY <2>1, <1>7, <1>t DEF FetchFails, CallRecords
  <2>3. ASSUME NEW e \in call'.conns \cup call'.found PROVE Answers(e.ip, e.house)'
    <3>1. e \in call.conns \cup call.found /\ e # c
      BY <2>2, <2>3 DEF SocketInv
    <3>2. Answers(e.ip, e.house) /\ Answers(c.ip, c.house)
      BY <3>1, <2>2 DEF SocketInv
    <3>3. e.ip # c.ip
      <4>1. e \in Places /\ c \in Places
        BY <3>1, <1>t DEF CallRecords
      <4>2. QED BY <3>1, <3>2, <4>1 DEF Answers, Places
    <3>4. PICK s \in open : s.ip = e.ip
      BY <3>2 DEF Answers
    <3>5. s \in open'
      BY <3>3, <3>4, <2>1, <1>n
    <3>6. QED BY <3>2, <3>4, <3>5, <1>t DEF Answers
  <2>4. QED BY <2>2, <2>3 DEF SocketInv
<1>8. QED BY <1>2, <1>3, <1>4, <1>5, <1>6, <1>7 DEF Connecting

\* What answered when its socket was opened goes on answering.
LEMMA SocketStep ==
    ASSUME TypeOK, OneSession, FetchInv, SocketInv, Step
    PROVE  SocketInv'
<1>t. call \in CallRecords /\ world \in [Ips -> SomeHousehold]
  BY DEF TypeOK
<1>1. CASE call'.pc = "idle"
  BY <1>1 DEF SocketInv
<1>2. ASSUME UNCHANGED <<open, call, world>> PROVE SocketInv'
  BY <1>2 DEF SocketInv, Answers
<1>3. CASE Dies \/ \E w \in Writes : Write(w)
  <2>1. CASE call.pc # "idle"
    BY <2>1, <1>3, <1>2, NoneClosesMeanwhile
  <2>2. CASE call.pc = "idle"
    <3>1. call' = call \/ call'.pc \in {"err", "attach"}
      <4>1. \A s \in Selectors : Begin(s) => call'.pc \in {"err", "attach"}
        BY DEF Begin, Idle
      <4>2. QED BY <1>3, <4>1 DEF Dies, Write, Takes, Joins, Connects, Refreshes, RefreshFails, Reaches,
               Opens, Fails, Acts, DeclinesOnDead, GivenUp, connectVars
    <3>2. QED BY <3>1, <2>2 DEF SocketInv
  <2>3. QED BY <2>1, <2>2
<1>4. CASE ConnectGoesOn
  BY <1>4, ConnectHoldsOn DEF ConnectGoesOn
<1>5. CASE Stores \/ StoresError
  BY <1>5, <1>1 DEF Stores, StoresError, Idle
<1>6. CASE Elsewhere
  <2>1. call' = call /\ open' = open
    BY <1>6 DEF Elsewhere, Moves, OtherLoads, OtherSaves
  <2>2. \A ip, house : Answers(ip, house) => Answers(ip, house)'
    <3>1. CASE Moves
      <4>1. PICK i \in Ips, h \in Households \cup {Nobody} :
                (\A s \in open : s.ip # i) /\ world' = [world EXCEPT ![i] = h]
        BY <3>1 DEF Moves
      <4>2. \A ip : (\E s \in open : s.ip = ip) => world'[ip] = world[ip]
        BY <4>1, <1>t
      <4>3. QED BY <4>2, <2>1 DEF Answers
    <3>2. CASE OtherLoads \/ OtherSaves
      <4>1. world' = world
        BY <3>2 DEF OtherLoads, OtherSaves
      <4>2. QED BY <4>1, <2>1 DEF Answers
    <3>3. QED BY <1>6, <3>1, <3>2 DEF Elsewhere
  <2>3. QED BY <2>1, <2>2 DEF SocketInv
<1>7. QED BY <1>3, <1>4, <1>5, <1>6 DEF Step

\* Who found a household remembers its members: what the connect learns of it is
\* not nothing, and only households superseded are forgotten.
LEMMA LearntIsHeard ==
    ASSUME TypeOK, SocketInv, FetchedAll, NEW h \in Households, Learnt[h] = {}, call.mem[h] # {}
    PROVE  \A i \in call.mem[h] : world[i] \notin {h, Nobody}
<1>t. call \in CallRecords /\ world \in [Ips -> SomeHousehold] /\ Nobody \notin Households
  BY ConnectAssumption DEF TypeOK
<1> DEFINE heard == [k \in Households |-> IF k \in Discovered THEN Members(k) ELSE call.mem[k]]
           answering == UNION {Members(k) : k \in Discovered}
<1>1. Learnt[h] = IF h \in Superseded(heard, Discovered, answering) THEN {} ELSE heard[h]
  BY DEF Learnt
<1>2. h \notin Discovered
  <2> SUFFICES ASSUME h \in Discovered PROVE FALSE
    OBVIOUS
  <2>1. PICK c \in call.found : c.house = h
    BY DEF Discovered
  <2>2. Answers(c.ip, h) /\ c.ip \in Ips
    BY <2>1, <1>t DEF SocketInv, FetchedAll, CallRecords, Places
  <2>3. heard[h] # {}
    BY <2>2 DEF Answers, Members
  <2>4. h \notin Superseded(heard, Discovered, answering)
    BY DEF Superseded
  <2>5. QED BY <2>3, <2>4, <1>1
<1>3. heard[h] = call.mem[h]
  BY <1>2
<1>4. call.mem[h] \subseteq answering
  <2>1. h \in Superseded(heard, Discovered, answering)
    BY <1>1, <1>3
  <2>2. QED BY <2>1, <1>3 DEF Superseded
<1>5. ASSUME NEW i \in call.mem[h] PROVE world[i] \notin {h, Nobody}
  <2>1. PICK k \in Discovered : i \in Members(k)
    BY <1>4
  <2>2. k \in Households
    BY <1>t DEF Discovered, CallRecords, Places
  <2>3. QED BY <2>1, <2>2, <1>2, <1>t DEF Members
<1>6. QED BY <1>5

\* Remembering a household leaves none empty that was not.
LEMMA RememberingForgetsNone ==
    ASSUME TypeOK, SocketInv, call.pc \in {"groups", "id"}, NEW h \in Households, call.mem[h] # {}
    PROVE  [call.mem EXCEPT ![call.house] = Members(call.house)][h] # {}
<1>t. call \in CallRecords /\ world \in [Ips -> SomeHousehold]
      /\ open \subseteq [call : 0..MaxCalls, ip : Ips]
  BY DEF TypeOK
<1>1. Answers(call.ip, call.house)
  BY DEF SocketInv
<1>2. call.ip \in Members(call.house)
  BY <1>1, <1>t DEF Answers, Members
<1>3. QED BY <1>2, <1>t DEF CallRecords, Memories

\* A save by either process forgets only on evidence.
LEMMA EvidenceStep ==
    ASSUME TypeOK, SocketInv, CopiesInv, Step
    PROVE  OnEvidence
<1>t. call \in CallRecords /\ file \in Memories /\ other.copy \in Memories
  BY DEF TypeOK
<1> SUFFICES ASSUME NEW h \in Forgotten, stale = {}
             PROVE  call.mem[h] # {} /\ \A i \in call.mem[h] : world[i] \notin {h, Nobody}
  BY DEF OnEvidence
<1>1. h \in Households /\ file[h] # {} /\ file'[h] = {} /\ file' # file
  BY DEF Forgotten
<1>2. CASE AttachRemembers
  <2>1. file' = [call.mem EXCEPT ![call.house] = Members(call.house)] /\ call.pc = "id"
    BY <1>1, <1>2 DEF AttachRemembers, SaveCall
  <2>2. call.mem[h] # {}
    BY <2>1, <1>1 DEF CopiesInv
  <2>3. QED BY <2>1, <2>2, <1>1, RememberingForgetsNone
<1>3. CASE Select
  <2>1. file' = Learnt /\ FetchedAll
    BY <1>1, <1>3 DEF Select, SaveCall
  <2>2. call.mem[h] # {}
    BY <2>1, <1>1 DEF CopiesInv, FetchedAll
  <2>3. QED BY <2>1, <2>2, <1>1, LearntIsHeard
<1>4. CASE OtherSaves
  <2>1. PICK k \in Households : Members(k) # {} /\ file' = [other.copy EXCEPT ![k] = Members(k)]
    BY <1>4 DEF OtherSaves
  <2>2. other.copy = file
    BY <1>4 DEF OtherSaves, CopiesInv
  <2>3. file'[h] # {}
    BY <2>1, <2>2, <1>1, <1>t DEF Memories
  <2>4. QED BY <2>3, <1>1
<1>5. QED
  <2>1. AttachRemembers \/ Select \/ OtherSaves
    <3>1. Connecting => AttachRemembers \/ Select \/ file' = file
      BY DEF Connecting, Attach, AttachGroups, AttachGroupsFail, AttachFails, Scan, Fetch, FetchFails,
             SelectFails
    <3>2. Elsewhere => OtherSaves \/ file' = file
      BY DEF Elsewhere, Moves, OtherLoads
    <3>3. Stores \/ StoresError \/ Dies => file' = file
      BY DEF Stores, StoresError, Dies
    <3>4. \A w \in Writes : Write(w) => file' = file
      BY DEF Write, Takes, Joins, Connects, Begin, Refreshes, RefreshFails, Reaches, Opens, Fails, Acts,
             DeclinesOnDead, GivenUp, connectVars
    <3>5. QED BY <1>1, <3>1, <3>2, <3>3, <3>4 DEF Step, ConnectGoesOn
  <2>2. QED BY <2>1, <1>2, <1>3, <1>4

\* The connect's steps leave every copy knowing what the file knows.
LEMMA ConnectKeepsCopies ==
    ASSUME TypeOK, SocketInv, CopiesInv, Connecting
    PROVE  CopiesInv'
<1>t. call \in CallRecords /\ file \in Memories /\ other' = other
  BY ConnectTyped DEF TypeOK
<1>1. ASSUME UNCHANGED <<file, stale>>, call'.pc \in {"ok", "err"} \/ call'.mem = call.mem,
             call.pc \in {"attach", "groups", "id", "fetch"}
      PROVE  CopiesInv'
  BY <1>1, <1>t DEF CopiesInv
<1>2. ASSUME NEW m, SaveCall(m), call'.pc \in {"ok", "err"} \/ call'.mem = m
      PROVE  CopiesInv'
  BY <1>2, <1>t DEF CopiesInv, SaveCall
<1>3. CASE Attach
  <2>1. UNCHANGED <<file, stale>> /\ call.pc = "attach" /\ call'.mem = call.mem
    BY <1>3, <1>t DEF Attach, CallRecords
  <2>2. QED BY <2>1, <1>1
<1>4. CASE AttachGroups \/ AttachGroupsFail \/ Scan \/ FetchFails
  <2>1. /\ UNCHANGED <<file, stale>> /\ call.pc \in {"attach", "groups", "id", "fetch"}
        /\ call'.mem = call.mem
    <3>1. CASE AttachGroups \/ AttachGroupsFail
      BY <3>1, <1>t DEF AttachGroups, AttachGroupsFail, CallRecords
    <3>2. CASE Scan
      BY <3>2, <1>t DEF Scan, CallRecords
    <3>3. CASE FetchFails
      BY <3>3, <1>t DEF FetchFails, CallRecords
    <3>4. QED BY <1>4, <3>1, <3>2, <3>3
  <2>2. QED BY <2>1, <1>1
<1>5. CASE AttachRemembers
  <2> DEFINE m == [call.mem EXCEPT ![call.house] = Members(call.house)]
  <2>1. call'.mem = m /\ (SaveCall(m) \/ (m = call.mem /\ UNCHANGED <<file, stale>>)) /\ call.pc = "id"
    BY <1>5, <1>t DEF AttachRemembers, CallRecords
  <2> HIDE DEF m
  <2>2. QED BY <2>1, <1>1, <1>2
<1>6. CASE AttachFails
  <2> DEFINE m == [call.mem EXCEPT ![call.house] = Members(call.house)]
  <2>1. call'.mem \in {call.mem, m} /\ call.pc = "id" /\ UNCHANGED <<file, stale>>
    BY <1>6, <1>t DEF AttachFails, CallRecords
  <2>2. \A h \in Households : call.mem[h] # {} => call'.mem[h] # {}
    BY <2>1, RememberingForgetsNone
  <2>3. QED BY <2>1, <2>2, <1>t DEF CopiesInv
<1>7. CASE Fetch
  <2>1. UNCHANGED <<file, stale>> /\ call.pc = "fetch" /\ call'.mem = call.mem
    BY <1>7, <1>t DEF Fetch, CallRecords
  <2>2. QED BY <2>1, <1>1
<1>8. CASE Select \/ SelectFails
  <2>1. /\ call.pc = "fetch" /\ call'.pc \in {"ok", "err"}
        /\ SaveCall(Learnt) \/ UNCHANGED <<file, stale>>
    BY <1>8, <1>t DEF Select, SelectFails, FetchedAll, CallRecords
  <2>2. QED BY <2>1, <1>1, <1>2
<1>9. QED BY <1>3, <1>4, <1>5, <1>6, <1>7, <1>8 DEF Connecting

\* A copy nobody saved over goes on knowing what the file knows.
LEMMA CopiesStep ==
    ASSUME TypeOK, SocketInv, CopiesInv, Step
    PROVE  CopiesInv'
<1>t. call \in CallRecords /\ file \in Memories /\ other \in [loaded : BOOLEAN, copy : Memories]
  BY DEF TypeOK
<1>1. ASSUME UNCHANGED <<file, other, stale>>, call' = call \/ call'.pc = "idle" PROVE CopiesInv'
  BY <1>1 DEF CopiesInv
<1>2. CASE ConnectGoesOn
  BY <1>2, ConnectKeepsCopies DEF ConnectGoesOn
<1>3. CASE Stores \/ StoresError \/ Dies
  BY <1>3, <1>1 DEF Stores, StoresError, Dies, Idle
<1>4. ASSUME NEW w \in Writes, Write(w) PROVE CopiesInv'
  <2>1. ASSUME NEW s \in Selectors, Begin(s) PROVE CopiesInv'
    <3>1. call'.mem = file /\ UNCHANGED <<file, other>> /\ stale' = stale \ {"call"}
      BY <2>1 DEF Begin, Idle
    <3>2. QED BY <3>1 DEF CopiesInv
  <2>2. CASE ~\E s \in Selectors : Begin(s)
    <3>1. UNCHANGED <<file, other, stale, call>>
      BY <1>4, <2>2 DEF Write, Takes, Joins, Connects, Refreshes, RefreshFails, Reaches, Opens, Fails,
             Acts, DeclinesOnDead, GivenUp, connectVars
    <3>2. QED BY <3>1, <1>1
  <2>3. QED BY <2>1, <2>2
<1>5. CASE Elsewhere
  <2>1. CASE Moves
    BY <2>1, <1>1 DEF Moves
  <2>2. CASE OtherLoads
    <3>1. /\ other'.copy = file /\ UNCHANGED <<file, call>> /\ stale' = stale \ {"other"}
      BY <2>2 DEF OtherLoads
    <3>2. QED BY <3>1 DEF CopiesInv
  <2>3. CASE OtherSaves
    <3>1. /\ ~other'.loaded /\ call' = call
          /\ (file' = file /\ stale' = stale) \/ "call" \in stale'
      BY <2>3, <1>t DEF OtherSaves
    <3>2. QED BY <3>1 DEF CopiesInv
  <2>4. QED BY <1>5, <2>1, <2>2, <2>3 DEF Elsewhere
<1>6. QED BY <1>2, <1>3, <1>4, <1>5 DEF Step

\* A household leaves the file only when other households have answered at every
\* address that this process remembers it at (state.rs:128), however many
\* processes save, connects and saves fail, and players move.
THEOREM HouseholdsAreForgottenOnEvidence == Spec => ForgottenOnEvidence
<1>1. Init => SocketInv /\ CopiesInv
  BY DEF Init, ConnectInit, SocketInv, CopiesInv, Idle
<1>2. TypeOK /\ OneSession /\ FetchInv /\ SocketInv /\ CopiesInv /\ [Step]_vars
        => (SocketInv /\ CopiesInv)'
  <2>1. UNCHANGED vars /\ SocketInv /\ CopiesInv => (SocketInv /\ CopiesInv)'
    BY DEF vars, connectVars, speakersVars, SocketInv, CopiesInv, Answers
  <2>2. QED BY <2>1, SocketStep, CopiesStep
<1>3. TypeOK /\ SocketInv /\ CopiesInv /\ [Step]_vars => [OnEvidence]_vars
  BY EvidenceStep
<1>4. Spec => [][OnEvidence]_vars
  BY <1>1, <1>2, <1>3, TypedSteps, SocketsAreOwned, WritesShareOneSession, PTL
<1>5. QED BY <1>4 DEF ForgottenOnEvidence, OnEvidence
=============================================================================

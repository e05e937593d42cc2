------------------------------ MODULE Sessions ------------------------------
(***************************************************************************)
(* The terminal UI's hold on the speakers (tui/action.rs: Speakers): one   *)
(* session, shared by writes that run concurrently, opened by a connect    *)
(* they share (Connect) and given up by the write that finds it severed;   *)
(* and the pool of sockets each session keeps to other players             *)
(* (session.rs: Pool).  A session is known by the connect that opened it.  *)
(***************************************************************************)
EXTENDS Connect

CONSTANT Writes   \* the tasks that write; a write may be followed by another

ASSUME SessionsAssumption == Writes # {}

VARIABLES
    held,      \* [session, generation]; session 0 while none is held
    sessions,  \* [1..MaxCalls -> [ip, house, alive, closed, blamed, pool]]
    write      \* [Writes -> [pc, generation, session]]

speakersVars == <<held, sessions, write>>
vars == <<connectVars, speakersVars>>

Ids == 1..MaxCalls
Unopened == [ip |-> Nobody, house |-> Nobody, wanted |-> Nobody, alive |-> FALSE, closed |-> FALSE,
             blamed |-> FALSE, pool |-> [i \in Ips |-> "none"]]
Resting == [pc |-> "idle", generation |-> 0, session |-> 0, to |-> Nobody]

Init ==
    /\ ConnectInit
    /\ held = [session |-> 0, generation |-> 0]
    /\ sessions = [n \in Ids |-> Unopened]
    /\ write = [w \in Writes |-> Resting]

-----------------------------------------------------------------------------
(* Speakers::current, then connect: a session that is held, or a place at the
   connect under way, or a connect of its own. *)
Takes(w) ==
    /\ write[w].pc = "idle"
    /\ held.session # 0
    /\ write' = [write EXCEPT ![w].pc = "refresh", ![w].generation = held.generation,
                              ![w].session = held.session]
    /\ UNCHANGED <<connectVars, held, sessions>>

Joins(w) ==
    /\ write[w].pc = "idle"
    /\ held.session = 0
    /\ call.pc # "idle"
    /\ write' = [write EXCEPT ![w].pc = "joined"]
    /\ UNCHANGED <<connectVars, held, sessions>>

Connects_Unchecked(w, s) ==
    /\ write[w].pc = "idle"
    /\ Begin(s)
    /\ write' = [write EXCEPT ![w].pc = "joined"]
    /\ UNCHANGED <<held, sessions>>

Connects(w, s) ==
    /\ write[w].pc = "idle"
    /\ held.session = 0
    /\ Begin(s)
    /\ write' = [write EXCEPT ![w].pc = "joined"]
    /\ UNCHANGED <<held, sessions>>

(* The connect goes on whether or not a write still waits for it. *)
ConnectGoesOn == Connecting /\ UNCHANGED speakersVars

(* open_and_store: everybody who joined gets what it came to. *)
Answered(pc, generation, n) ==
    write' = [w \in Writes |->
                IF write[w].pc # "joined" THEN write[w]
                ELSE [Resting EXCEPT !.pc = pc, !.generation = generation, !.session = n]]

StoresError ==
    /\ call.pc = "err"
    /\ call' = [Idle EXCEPT !.n = call.n, !.faulted = call.faulted]
    /\ Answered("idle", 0, 0)
    /\ UNCHANGED <<world, turns, file, other, stale, open, held, sessions>>

Stores ==
    /\ call.pc = "ok"
    /\ held.session = 0
    /\ held' = [session |-> call.n, generation |-> held.generation + 1]
    /\ sessions' = [sessions EXCEPT ![call.n] =
                      [Unopened EXCEPT !.ip = call.ip, !.house = call.house,
                                       !.wanted = call.wanted, !.alive = TRUE]]
    /\ call' = [Idle EXCEPT !.n = call.n, !.faulted = call.faulted]
    /\ Answered("refresh", held.generation + 1, call.n)
    /\ UNCHANGED <<world, turns, file, other, stale, open>>

(* A session arrived meanwhile: that one wins and this one is closed. *)
Discards ==
    /\ call.pc = "ok"
    /\ open' = open \ Sockets({call.ip})
    /\ call' = [Idle EXCEPT !.n = call.n, !.faulted = call.faulted]
    /\ Answered("refresh", held.generation, held.session)
    /\ UNCHANGED <<world, turns, file, other, stale, held, sessions>>

Arrives == IF held.session # 0 THEN Discards ELSE Stores

-----------------------------------------------------------------------------
(* Session::close: the pool is drained, then the primary goes. *)
Closed(ss, n) ==
    [ss EXCEPT ![n].closed = TRUE, ![n].alive = FALSE, ![n].pool = [i \in Ips |-> "none"]]

Release_Any(w) ==
    IF held.session # 0
    THEN /\ held' = [held EXCEPT !.session = 0]
         /\ sessions' = Closed([sessions EXCEPT ![write[w].session].blamed = TRUE], held.session)
         /\ open' = {s \in open : s.call # held.session}
    ELSE UNCHANGED <<held, sessions, open>>

(* Speakers::release: the session this write ran on, if it is still the one
   held. *)
Release(w) ==
    LET blamed == [sessions EXCEPT ![write[w].session].blamed = TRUE] IN
    IF held.session # 0 /\ held.generation = write[w].generation
    THEN /\ held' = [held EXCEPT !.session = 0]
         /\ sessions' = Closed(blamed, held.session)
         /\ open' = {s \in open : s.call # held.session}
    ELSE sessions' = blamed /\ UNCHANGED <<held, open>>

Ends(w) == write' = [write EXCEPT ![w] = Resting]
Mine(w) == sessions[write[w].session]

(* refresh_groups on the primary, before anything else. *)
Refreshes(w) ==
    /\ write[w].pc = "refresh"
    /\ Mine(w).alive
    /\ \E i \in Ips : write' = [write EXCEPT ![w].pc = "reach", ![w].to = i]
    /\ UNCHANGED <<connectVars, held, sessions>>

RefreshFails(w) ==
    /\ write[w].pc = "refresh"
    /\ ~Mine(w).alive
    /\ Release(w)
    /\ Ends(w)
    /\ UNCHANGED <<world, turns, file, other, stale, call>>

(* Pool::reach: the primary for its own address, the pool's socket if it is
   alive; a dead one is taken out and closed, and another is opened. *)
Reaches(w) ==
    LET n == write[w].session  i == write[w].to IN
    /\ write[w].pc = "reach"
    /\ IF i = Mine(w).ip \/ Mine(w).pool[i] = "alive"
       THEN write' = [write EXCEPT ![w].pc = "act"] /\ UNCHANGED sessions
       ELSE /\ write' = [write EXCEPT ![w].pc = "opening"]
            /\ sessions' = [sessions EXCEPT ![n].pool[i] = "none"]
    /\ UNCHANGED <<connectVars, held>>

(* Opened: the winner's is taken and one's own closed, or one's own is kept. *)
Opens(w) ==
    LET n == write[w].session  i == write[w].to IN
    /\ write[w].pc = "opening"
    /\ world[i] # Nobody
    /\ sessions' = [sessions EXCEPT ![n].pool[i] = "alive"]
    /\ write' = [write EXCEPT ![w].pc = "act"]
    /\ UNCHANGED <<connectVars, held>>

(* The player does not answer, or the socket is gone when it is used: the
   session goes with it. *)
Severed(w) ==
    LET i == write[w].to IN
    \/ write[w].pc = "opening" /\ world[i] = Nobody
    \/ write[w].pc = "act" /\ i = Mine(w).ip /\ ~Mine(w).alive
    \/ write[w].pc = "act" /\ i # Mine(w).ip /\ Mine(w).pool[i] # "alive"

Fails(w) ==
    /\ Severed(w)
    /\ Release(w)
    /\ Ends(w)
    /\ UNCHANGED <<world, turns, file, other, stale, call>>

(* The player does it, or declines: that is no reason to reconnect. *)
Acts(w) ==
    /\ write[w].pc = "act"
    /\ ~Severed(w)
    /\ Ends(w)
    /\ UNCHANGED <<connectVars, held, sessions>>

(* Declined, and the primary is found dead besides: given up all the same. *)
DeclinesOnDead(w) ==
    /\ write[w].pc = "act"
    /\ ~Severed(w) /\ ~Mine(w).alive
    /\ Release(w)
    /\ Ends(w)
    /\ UNCHANGED <<world, turns, file, other, stale, call>>

(* The screen's twenty seconds are up and the write is dropped where it waits;
   or a living player declines what it is asked, the re-read too. *)
GivenUp(w) ==
    /\ write[w].pc # "idle"
    /\ TakesTurn
    /\ Ends(w)
    /\ UNCHANGED <<world, file, other, stale, call, open, held, sessions>>

(* A socket dies under a session: its primary, or one of its pool. *)
Dies ==
    /\ TakesTurn
    /\ \E n \in Ids :
        \/ /\ sessions[n].alive
           /\ sessions' = [sessions EXCEPT ![n].alive = FALSE]
           /\ open' = {s \in open : s.call # n}
        \/ /\ \E i \in Ips : /\ sessions[n].pool[i] = "alive"
                             /\ sessions' = [sessions EXCEPT ![n].pool[i] = "dead"]
           /\ UNCHANGED open
    /\ UNCHANGED <<world, file, other, stale, call, held, write>>

Write(w) ==
    \/ Takes(w) \/ Joins(w) \/ \E s \in Selectors : Connects(w, s)
    \/ Refreshes(w) \/ RefreshFails(w) \/ Reaches(w) \/ Opens(w)
    \/ Fails(w) \/ Acts(w) \/ DeclinesOnDead(w) \/ GivenUp(w)

Next ==
    \/ \E w \in Writes : Write(w)
    \/ ConnectGoesOn \/ Arrives \/ StoresError
    \/ Elsewhere /\ UNCHANGED speakersVars
    \/ Dies

Spec == Init /\ [][Next]_vars

-----------------------------------------------------------------------------
Pcs == {"idle", "attach", "groups", "id", "fetch", "ok", "err"}
WritePcs == {"idle", "joined", "refresh", "reach", "opening", "act"}
Memories == [Households -> SUBSET Ips]
Places == [ip : Ips, house : Households]
SomeIp == Ips \cup {Nobody}
SomeHousehold == Households \cup {Nobody}
SessionRecords ==
    [ip : SomeIp, house : SomeHousehold, wanted : SomeHousehold, alive : BOOLEAN,
     closed : BOOLEAN, blamed : BOOLEAN, pool : [Ips -> {"none", "alive", "dead"}]]
CallRecords ==
    [n : 0..MaxCalls, pc : Pcs, mem : Memories, wanted : SomeHousehold, todo : SUBSET Ips,
     ip : SomeIp, house : SomeHousehold, conns : SUBSET Places, found : SUBSET Places,
     faulted : BOOLEAN]

(* Every variable has its type (state.rs State, session.rs Session and Pool,
   action.rs Held). *)
TypeOK ==
    /\ world \in [Ips -> SomeHousehold]
    /\ turns \in 0..MaxTurns
    /\ file \in Memories /\ other \in [loaded : BOOLEAN, copy : Memories]
    /\ stale \subseteq {"call", "other"}
    /\ call \in CallRecords
    /\ open \subseteq [call : 0..MaxCalls, ip : Ips]
    /\ held \in [session : 0..MaxCalls, generation : Nat]
    /\ sessions \in [Ids -> SessionRecords]
    /\ write \in [Writes -> [pc : WritePcs, generation : Nat, session : 0..MaxCalls,
                             to : SomeIp]]

(* The session in hand is one of the household that was asked for, whoever
   answers at the addresses it was remembered at (session.rs:234). *)
RightHousehold == \A n \in Ids : sessions[n].house = sessions[n].wanted

(* Writes share one session: a living one is the one held, and no connect runs
   while one is held.  So the case that open_and_store provides for, a session
   that arrived while it connected (action.rs:175), does not arise: Arrives
   always Stores. *)
OneSession ==
    /\ call.pc # "idle" => held.session = 0
    /\ \A n \in Ids : sessions[n].alive => held.session = n

(* Between two connects every primary socket that is open is the one of a
   session that is not closed: connect closes what it does not hand out
   (session.rs:141, 242, 265, 391), unless reading the household id or saving the
   state file failed. *)
NothingLeftOpen ==
    call.pc = "idle" /\ ~call.faulted =>
        \A s \in open : sessions[s.call].ip = s.ip /\ sessions[s.call].alive

(* A session is closed only if a write that ran on it found it severed: a write
   that fails late leaves alone the session that replaced its own
   (action.rs:189). *)
OnlyTheFailedIsClosed == \A n \in Ids : sessions[n].closed => sessions[n].blamed

Forgotten == {h \in Households : file[h] # {} /\ file'[h] = {}}

(* A remembered household leaves the file only when every address that this
   process remembers it at has answered for another one, unless another process
   had saved in between (state.rs:128).  What it remembers and what the file has
   differ once a save has failed. *)
ForgottenOnEvidence ==
    [][\A h \in Forgotten :
        \/ stale # {}
        \/ call.mem[h] # {} /\ \A i \in call.mem[h] : world[i] \notin {h, Nobody}]_vars
=============================================================================

------------------------------ MODULE Connect ------------------------------
(***************************************************************************)
(* Finding a player to talk to (session.rs: connect, attach,               *)
(* discover_households, resolve_household) on one recognised network, and  *)
(* what is remembered of it (state.rs), in a file that other processes     *)
(* load and save too.                                                      *)
(*                                                                         *)
(* An address answers for one household or is silent.  Every failure of a  *)
(* request or of a save, every move of an address and every step of another *)
(* process takes one of a bounded number of turns.                         *)
(***************************************************************************)
EXTENDS Integers, FiniteSets

CONSTANTS
    Ips,          \* addresses of players
    Households,   \* household ids
    Worlds,       \* [Ips -> Households or Nobody]: who answers where, at first
    Files,        \* [Households -> addresses remembered]: the file at first
    Selectors,    \* --household or the room: [given, rooms, exact, prefix]
    MaxCalls,     \* calls of connect
    MaxTurns      \* failures, moves and steps of other processes

Nobody == "nobody"

ASSUME ConnectAssumption ==
    /\ IsFiniteSet(Ips)
    /\ Nobody \notin Households
    /\ Worlds \subseteq [Ips -> Households \cup {Nobody}]
    /\ Files \subseteq [Households -> SUBSET Ips]
    /\ Selectors \subseteq [given : BOOLEAN, rooms : SUBSET Households,
                            exact : SUBSET Households, prefix : SUBSET Households]
    /\ {MaxCalls, MaxTurns} \subseteq Nat

VARIABLES
    world,    \* [Ips -> the household that answers there]
    turns,    \* turns left
    file,     \* networks.json, this network: [Households -> addresses]
    other,    \* another process: [loaded, copy] of the file
    stale,    \* {"call", "other"}: whose copy the file has moved on from
    call,     \* the connect under way
    open      \* the primary sockets open: [call, ip]

connectVars == <<world, turns, file, other, stale, call, open>>

Idle == [n |-> 0, pc |-> "idle", mem |-> [h \in Households |-> {}], wanted |-> Nobody,
         todo |-> {}, ip |-> Nobody, house |-> Nobody, conns |-> {}, found |-> {},
         faulted |-> FALSE]

ConnectInit ==
    /\ world \in Worlds
    /\ turns = MaxTurns
    /\ file \in Files
    /\ other = [loaded |-> FALSE, copy |-> file]
    /\ stale = {}
    /\ call = Idle
    /\ open = {}

TakesTurn == turns > 0 /\ turns' = turns - 1

Sockets(ips) == {[call |-> call.n, ip |-> i] : i \in ips}

(* What a member of household h reports: every player of it, with its address. *)
Members(h) == {i \in Ips : world[i] = h}

-----------------------------------------------------------------------------
Known(memory) == {h \in Households : memory[h] # {}}
Single(S) == IF Cardinality(S) = 1 THEN CHOOSE h \in S : TRUE ELSE Nobody

(* resolve_household: a single household needs no selector; else the room's
   name decides, and only where it names no room the id, whole or its start. *)
Resolve(known, s) ==
    LET rooms == s.rooms \cap known IN
    IF Cardinality(known) <= 1 THEN Single(known)
    ELSE IF ~s.given THEN Nobody
    ELSE IF rooms # {} THEN Single(rooms)
    ELSE IF s.exact \cap known # {} THEN Single(s.exact \cap known)
    ELSE Single(s.prefix \cap known)

(* connect starts from the state just loaded; an unregistered network is an
   error, never a scan. *)
Begin(s) ==
    /\ call.pc = "idle"
    /\ call.n < MaxCalls
    /\ LET target == Resolve(Known(file), s) IN
        call' = [Idle EXCEPT !.n = call.n + 1, !.faulted = call.faulted, !.mem = file, !.wanted = target,
                             !.todo = IF target = Nobody THEN {} ELSE file[target],
                             !.pc = IF target = Nobody THEN "err" ELSE "attach"]
    /\ stale' = stale \ {"call"}
    /\ UNCHANGED <<world, turns, file, other, open>>

(* attach: the next remembered address is opened, or does not answer. *)
Attach ==
    /\ call.pc = "attach"
    /\ \E i \in call.todo :
        IF world[i] = Nobody
        THEN /\ call' = [call EXCEPT !.todo = @ \ {i}]
             /\ UNCHANGED open
        ELSE /\ call' = [call EXCEPT !.todo = @ \ {i}, !.pc = "groups", !.ip = i,
                                     !.house = world[i]]
             /\ open' = open \cup Sockets({i})
    /\ UNCHANGED <<world, turns, file, other, stale>>

AttachGroups ==
    /\ call.pc = "groups"
    /\ call' = [call EXCEPT !.pc = "id"]
    /\ UNCHANGED <<world, turns, file, other, stale, open>>

(* The first read fails: closed, and the next address; refused by the player,
   it is the answer. *)
AttachGroupsFail ==
    /\ call.pc = "groups"
    /\ TakesTurn
    /\ open' = open \ Sockets({call.ip})
    /\ \E pc \in {"attach", "err"} : call' = [call EXCEPT !.pc = pc]
    /\ UNCHANGED <<world, file, other, stale>>

(* State::save: the file becomes this process's copy of it. *)
SaveCall(memory) ==
    /\ file' = memory
    /\ stale' = IF other.loaded /\ memory # file THEN stale \cup {"other"} ELSE stale

AttachRemembers_Unchecked ==
    /\ call.pc = "id"
    /\ LET memory == [call.mem EXCEPT ![call.house] = Members(call.house)] IN
        /\ call' = [call EXCEPT !.mem = memory, !.pc = "ok"]
        /\ IF memory = call.mem THEN UNCHANGED <<file, stale>> ELSE SaveCall(memory)
    /\ UNCHANGED <<world, turns, other, open>>

(* The id is read, what the player reports is remembered, and saved if that
   changed anything; a wrong household's socket is closed. *)
AttachRemembers ==
    /\ call.pc = "id"
    /\ LET memory == [call.mem EXCEPT ![call.house] = Members(call.house)]
           right == call.house = call.wanted IN
        /\ call' = [call EXCEPT !.mem = memory, !.pc = IF right THEN "ok" ELSE "attach"]
        /\ open' = IF right THEN open ELSE open \ Sockets({call.ip})
        /\ IF memory = call.mem THEN UNCHANGED <<file, stale>> ELSE SaveCall(memory)
    /\ UNCHANGED <<world, turns, other>>

(* The id or the save fails: attach returns early, and nobody closes. *)
AttachFails ==
    /\ call.pc = "id"
    /\ TakesTurn
    /\ \E memory \in {call.mem, [call.mem EXCEPT ![call.house] = Members(call.house)]} :
        call' = [call EXCEPT !.pc = "attach", !.mem = memory, !.faulted = TRUE]
    /\ UNCHANGED <<world, file, other, stale, open>>

-----------------------------------------------------------------------------
(* None of the remembered players is left to try: the subnet is scanned, and
   whoever answers is probed for its household.  Those that open and then do
   not name one are closed. *)
Scan ==
    /\ call.pc = "attach"
    /\ call.todo = {}
    /\ LET found == {i \in Ips : world[i] # Nobody} IN
        \E mute \in SUBSET found :
            /\ Cardinality(mute) <= turns
            /\ turns' = turns - Cardinality(mute)
            /\ call' = [call EXCEPT !.conns = {[ip |-> i, house |-> world[i]] : i \in found \ mute},
                                    !.pc = IF found = mute THEN "err" ELSE "fetch"]
            /\ open' = open \cup Sockets(found \ mute)
    /\ UNCHANGED <<world, file, other, stale>>

Discovered == {c.house : c \in call.found}

Fetch_KeepsSpares ==
    /\ call.pc = "fetch"
    /\ \E c \in call.conns :
        call' = [call EXCEPT !.conns = {d \in @ : d.house # c.house}, !.found = @ \cup {c}]
    /\ UNCHANGED <<world, turns, file, other, stale, open>>

(* A household's members are asked in turn until one reports the topology;
   the spares are closed. *)
Fetch ==
    /\ call.pc = "fetch"
    /\ \E c \in call.conns :
        LET spares == {d \in call.conns : d.house = c.house} \ {c} IN
        /\ call' = [call EXCEPT !.conns = @ \ (spares \cup {c}), !.found = @ \cup {c}]
        /\ open' = open \ Sockets({d.ip : d \in spares})
    /\ UNCHANGED <<world, turns, file, other, stale>>

FetchFails ==
    /\ call.pc = "fetch"
    /\ TakesTurn
    /\ \E c \in call.conns :
        /\ call' = [call EXCEPT !.conns = @ \ {c}]
        /\ open' = open \ Sockets({c.ip})
    /\ UNCHANGED <<world, file, other, stale>>

Superseded_AnyAddress(memory, seen, answering) ==
    {h \in Known(memory) \ seen : memory[h] \cap answering # {}}

(* forget_superseded_households: gone is a household every address of which
   answered for another one. *)
Superseded(memory, seen, answering) ==
    {h \in Known(memory) \ seen : memory[h] \subseteq answering}

Learnt ==
    LET heard == [h \in Households |-> IF h \in Discovered THEN Members(h) ELSE call.mem[h]]
        answering == UNION {Members(h) : h \in Discovered} IN
    [h \in Households |->
        IF h \in Superseded(heard, Discovered, answering) THEN {} ELSE heard[h]]

FetchedAll == call.pc = "fetch" /\ call.conns = {}

(* What was found is remembered and saved; connect keeps the household it was
   asked for and closes the others. *)
Select ==
    /\ FetchedAll
    /\ LET kept == {c \in call.found : c.house = call.wanted}
           others == call.found \ kept IN
        /\ open' = open \ Sockets({c.ip : c \in others})
        /\ IF kept = {}
           THEN call' = [call EXCEPT !.pc = "err", !.found = {}]
           ELSE \E c \in kept :
                  call' = [call EXCEPT !.pc = "ok", !.ip = c.ip, !.house = c.house,
                                       !.mem = Learnt, !.found = {}]
    /\ IF call.found = {} \/ Learnt = call.mem THEN UNCHANGED <<file, stale>> ELSE SaveCall(Learnt)
    /\ UNCHANGED <<world, turns, other>>

(* The save fails: an error, and the sessions found are dropped, not closed. *)
SelectFails ==
    /\ FetchedAll
    /\ call.found # {} /\ Learnt # call.mem
    /\ TakesTurn
    /\ call' = [call EXCEPT !.pc = "err", !.found = {}, !.faulted = TRUE]
    /\ UNCHANGED <<world, file, other, stale, open>>

-----------------------------------------------------------------------------
(* DHCP hands an address on, a player is switched off or on: none a connect has
   a socket to. *)
Moves ==
    /\ TakesTurn
    /\ \E i \in Ips, h \in Households \cup {Nobody} :
        /\ h # world[i] /\ \A s \in open : s.ip # i
        /\ world' = [world EXCEPT ![i] = h]
    /\ UNCHANGED <<file, other, stale, call, open>>

(* Another process of x2rock loads the file, and later saves what one
   household told it. *)
OtherLoads ==
    /\ ~other.loaded
    /\ TakesTurn
    /\ other' = [loaded |-> TRUE, copy |-> file]
    /\ stale' = stale \ {"other"}
    /\ UNCHANGED <<world, file, call, open>>

OtherSaves ==
    /\ other.loaded
    /\ \E h \in Households :
        /\ Members(h) # {}
        /\ file' = [other.copy EXCEPT ![h] = Members(h)]
    /\ other' = [other EXCEPT !.loaded = FALSE, !.copy = file']
    /\ stale' = IF file' # file THEN stale \cup {"call"} ELSE stale
    /\ UNCHANGED <<world, turns, call, open>>

Connecting ==
    \/ Attach \/ AttachGroups \/ AttachGroupsFail \/ AttachRemembers \/ AttachFails
    \/ Scan \/ Fetch \/ FetchFails \/ Select \/ SelectFails

Elsewhere == Moves \/ OtherLoads \/ OtherSaves
=============================================================================

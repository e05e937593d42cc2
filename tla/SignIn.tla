------------------------------- MODULE SignIn -------------------------------
(***************************************************************************)
(* The Sonos sign-in kept in sonos-token.json (sonos/login.rs): a bearer   *)
(* is asked for by many callers of several processes, each process with    *)
(* one mutex over its refreshes, while login and logout replace and remove *)
(* the file.  Writers hold the file's lock (store.rs); readers do not, for *)
(* a write is one rename.                                                  *)
(*                                                                         *)
(* A sign-in is named by the serial of its first token.                    *)
(***************************************************************************)
EXTENDS Integers, FiniteSets

CONSTANTS
    Processes,
    Callers,      \* the tasks that ask for a bearer
    ProcessOf,    \* [Callers -> Processes]
    People,       \* the runs of x2rock login and x2rock logout
    MaxTokens     \* tokens the endpoint hands out

Free == "free"

ASSUME SignInAssumption ==
    /\ ProcessOf \in [Callers -> Processes]
    /\ Callers \cap People = {}
    /\ Free \notin Callers \cup People
    /\ MaxTokens \in Nat

Tokens == [grant : Nat, serial : Nat]
None == [grant |-> 0, serial |-> 0]
NoAnswer == [by |-> Free, token |-> None]

VARIABLES
    file,       \* the token on disk, or None
    lock,       \* who holds the lock of the file's writers
    mutex,      \* [Processes -> the caller that holds REFRESH]
    failed,     \* [Processes -> the token whose refresh failed within REFRESH_RETRY]
    stale,      \* the token on disk is about to run out
    issued,     \* tokens handed out so far
    pc,         \* [Callers \cup People -> where each one is]
    held,       \* [Callers -> the token it read]
    got,        \* [Callers \cup People -> the token it had from the endpoint]
    answer,     \* the bearer given last: [by, token]
    signedIn,   \* (ghost) the sign-in in force, by the last login or logout to finish
    asked,      \* (ghost) [Processes -> tokens it asks about, or has an answer about]
    seen        \* (ghost) [Callers -> what the file has held since its call began]

vars == <<file, lock, mutex, failed, stale, issued, pc, held, got, answer, signedIn, asked, seen>>

Init ==
    /\ file \in {None, [grant |-> 1, serial |-> 1]}
    /\ lock = Free
    /\ mutex = [p \in Processes |-> Free]
    /\ failed = [p \in Processes |-> None]
    /\ stale = FALSE
    /\ issued = 1
    /\ pc = [a \in Callers \cup People |-> "idle"]
    /\ held = [c \in Callers |-> None]
    /\ got = [a \in Callers \cup People |-> None]
    /\ answer = NoAnswer
    /\ signedIn = file.grant
    /\ asked = [p \in Processes |-> {}]
    /\ seen = [c \in Callers |-> {}]

Fresh == file # None /\ ~stale

Goes(a, to) == pc' = [pc EXCEPT ![a] = to]

(* bearer_from returns the token's bearer. *)
Answers(c, token) ==
    /\ Goes(c, "idle")
    /\ held' = [held EXCEPT ![c] = None]
    /\ got' = [got EXCEPT ![c] = None]
    /\ answer' = [by |-> c, token |-> token]

(* The file holds token from now on: one rename, or its removal. *)
Puts(token) == file' = token /\ stale' = FALSE

Unlocks(p) == mutex' = [mutex EXCEPT ![p] = Free]

-----------------------------------------------------------------------------
(* bearer_from: the first look at the file. *)
Asks(c) ==
    /\ pc[c] = "idle"
    /\ IF file = None \/ Fresh THEN Answers(c, file)
       ELSE Goes(c, "waiting") /\ UNCHANGED <<held, got, answer>>
    /\ UNCHANGED <<file, lock, mutex, failed, stale, issued, signedIn, asked>>

LooksAgain_TriesAgain(c) ==
    LET p == ProcessOf[c]
    IN /\ pc[c] = "waiting" /\ mutex[p] = Free
       /\ IF file = None \/ Fresh
          THEN Answers(c, file) /\ UNCHANGED <<mutex, asked>>
          ELSE /\ Goes(c, "refreshing")
               /\ held' = [held EXCEPT ![c] = file]
               /\ mutex' = [mutex EXCEPT ![p] = c]
               /\ asked' = [asked EXCEPT ![p] = @ \cup {file}]
               /\ UNCHANGED <<got, answer>>
       /\ UNCHANGED <<file, lock, failed, stale, issued, signedIn>>

(* It has the mutex and looks again; a token whose refresh has just failed is
   not tried again. *)
LooksAgain(c) ==
    LET p == ProcessOf[c]
    IN /\ pc[c] = "waiting" /\ mutex[p] = Free
       /\ IF file = None \/ Fresh \/ file = failed[p]
          THEN Answers(c, file) /\ UNCHANGED <<mutex, asked>>
          ELSE /\ Goes(c, "refreshing")
               /\ held' = [held EXCEPT ![c] = file]
               /\ mutex' = [mutex EXCEPT ![p] = c]
               /\ asked' = [asked EXCEPT ![p] = @ \cup {file}]
               /\ UNCHANGED <<got, answer>>
       /\ UNCHANGED <<file, lock, failed, stale, issued, signedIn>>

(* The token endpoint grants the refresh. *)
Granted(c) ==
    /\ pc[c] = "refreshing" /\ issued < MaxTokens
    /\ issued' = issued + 1
    /\ got' = [got EXCEPT ![c] = [grant |-> held[c].grant, serial |-> issued + 1]]
    /\ failed' = [failed EXCEPT ![ProcessOf[c]] = None]
    /\ Goes(c, "saving")
    /\ UNCHANGED <<file, lock, mutex, stale, held, answer, signedIn, asked>>

(* The caller gives the mutex up and answers with what is on disk. *)
ReadsBack(c) == Answers(c, file) /\ Unlocks(ProcessOf[c])

(* It does not, or does not answer in time. *)
RefreshFails(c) ==
    /\ pc[c] = "refreshing"
    /\ failed' = [failed EXCEPT ![ProcessOf[c]] = held[c]]
    /\ ReadsBack(c)
    /\ UNCHANGED <<file, lock, stale, issued, signedIn, asked>>

Compares_Not(c) ==
    /\ pc[c] = "saving" /\ lock = Free
    /\ lock' = c /\ Goes(c, "committing")
    /\ UNCHANGED <<file, mutex, failed, stale, issued, held, got, answer, signedIn, asked>>

Compares_AnswersItsOwn(c) ==
    /\ pc[c] = "saving" /\ lock = Free
    /\ IF file = held[c]
       THEN lock' = c /\ Goes(c, "committing") /\ UNCHANGED <<mutex, held, got, answer>>
       ELSE Answers(c, got[c]) /\ Unlocks(ProcessOf[c]) /\ UNCHANGED lock
    /\ UNCHANGED <<file, failed, stale, issued, signedIn, asked>>

(* save_refresh_at: with the lock, the token refreshed is compared with the one
   on disk; that one is the answer if it is another. *)
Compares(c) ==
    /\ pc[c] = "saving" /\ lock = Free
    /\ IF file = held[c]
       THEN lock' = c /\ Goes(c, "committing") /\ UNCHANGED <<mutex, held, got, answer>>
       ELSE ReadsBack(c) /\ UNCHANGED lock
    /\ UNCHANGED <<file, failed, stale, issued, signedIn, asked>>

Commits(c) ==
    /\ pc[c] = "committing"
    /\ Puts(got[c])
    /\ Answers(c, got[c])
    /\ lock' = Free
    /\ Unlocks(ProcessOf[c])
    /\ UNCHANGED <<failed, issued, signedIn, asked>>

(* The lock or the write fails; the token that was asked about may be asked
   about again. *)
SaveFails(c) ==
    /\ pc[c] \in {"saving", "committing"}
    /\ ReadsBack(c)
    /\ lock' = IF lock = c THEN Free ELSE lock
    /\ asked' = [asked EXCEPT ![ProcessOf[c]] = @ \ {held[c]}]
    /\ UNCHANGED <<file, failed, stale, issued, signedIn>>

(* The caller's future is dropped, for its command was cancelled or ran into its
   deadline: at the mutex, or with the request out, which frees the mutex and
   leaves failed as it was. *)
IsDropped(c) ==
    LET p == ProcessOf[c]
    IN /\ pc[c] \in {"waiting", "refreshing"}
       /\ Goes(c, "idle")
       /\ held' = [held EXCEPT ![c] = None]
       /\ answer' = NoAnswer
       /\ IF pc[c] = "refreshing"
          THEN /\ Unlocks(p)
               /\ asked' = [asked EXCEPT ![p] = @ \ {held[c]}]
          ELSE UNCHANGED <<mutex, asked>>
       /\ UNCHANGED <<file, lock, failed, stale, issued, got, signedIn>>

-----------------------------------------------------------------------------
(* exchange: the code has been traded for a token, which is then saved. *)
SignsIn(u) ==
    /\ pc[u] = "idle" /\ issued < MaxTokens
    /\ issued' = issued + 1
    /\ got' = [got EXCEPT ![u] = [grant |-> issued + 1, serial |-> issued + 1]]
    /\ Goes(u, "saving")
    /\ UNCHANGED <<file, lock, mutex, failed, stale, held, answer, signedIn, asked>>

(* save_at. *)
LocksToSave(u) ==
    /\ pc[u] = "saving" /\ lock = Free
    /\ lock' = u
    /\ Goes(u, "writing")
    /\ UNCHANGED <<file, mutex, failed, stale, issued, held, got, answer, signedIn, asked>>

Saves(u) ==
    /\ pc[u] = "writing"
    /\ Puts(got[u])
    /\ signedIn' = got[u].grant
    /\ lock' = Free
    /\ Goes(u, "idle")
    /\ got' = [got EXCEPT ![u] = None]
    /\ UNCHANGED <<mutex, failed, issued, held, answer, asked>>

(* sign_out_at. *)
LocksToRemove(u) ==
    /\ pc[u] = "idle" /\ lock = Free
    /\ lock' = u
    /\ Goes(u, "removing")
    /\ UNCHANGED <<file, mutex, failed, stale, issued, held, got, answer, signedIn, asked>>

Removes(u) ==
    /\ pc[u] = "removing"
    /\ Puts(None)
    /\ signedIn' = 0
    /\ lock' = Free
    /\ Goes(u, "idle")
    /\ UNCHANGED <<mutex, failed, issued, held, got, answer, asked>>

(* A login or logout that fails, or is killed, before its rename or removal. *)
GivesUp(u) ==
    /\ pc[u] # "idle"
    /\ Goes(u, "idle")
    /\ got' = [got EXCEPT ![u] = None]
    /\ lock' = IF lock = u THEN Free ELSE lock
    /\ UNCHANGED <<file, mutex, failed, stale, issued, held, answer, signedIn, asked>>

-----------------------------------------------------------------------------
Expires ==
    /\ Fresh
    /\ stale' = TRUE
    /\ UNCHANGED <<file, lock, mutex, failed, issued, pc, held, got, answer, signedIn, asked>>

(* REFRESH_RETRY has passed since the failure. *)
RetryIsAllowed(p) ==
    /\ failed[p] # None
    /\ failed' = [failed EXCEPT ![p] = None]
    /\ asked' = [asked EXCEPT ![p] = @ \ {failed[p]}]
    /\ UNCHANGED <<file, lock, mutex, stale, issued, pc, held, got, answer, signedIn>>

(* A process is killed: its mutex and its memory go, and the system frees the
   lock.  What it had written to a scratch file was never renamed. *)
Crash(p) ==
    LET its == {c \in Callers : ProcessOf[c] = p}
    IN /\ pc' = [a \in Callers \cup People |-> IF a \in its THEN "idle" ELSE pc[a]]
       /\ held' = [c \in Callers |-> IF c \in its THEN None ELSE held[c]]
       /\ got' = [a \in Callers \cup People |-> IF a \in its THEN None ELSE got[a]]
       /\ answer' = NoAnswer
       /\ lock' = IF lock \in its THEN Free ELSE lock
       /\ mutex' = [mutex EXCEPT ![p] = Free]
       /\ failed' = [failed EXCEPT ![p] = None]
       /\ asked' = [asked EXCEPT ![p] = {}]
       /\ UNCHANGED <<file, stale, issued, signedIn>>

CallerStep(c) ==
    \/ Asks(c) \/ LooksAgain(c) \/ Granted(c) \/ RefreshFails(c)
    \/ Compares(c) \/ Commits(c) \/ SaveFails(c) \/ IsDropped(c)

PersonStep(u) ==
    SignsIn(u) \/ LocksToSave(u) \/ Saves(u) \/ LocksToRemove(u) \/ Removes(u) \/ GivesUp(u)

Watches ==
    seen' = [c \in Callers |-> IF pc'[c] = "idle" THEN {}
                               ELSE IF pc[c] = "idle" THEN {file'} ELSE seen[c] \cup {file'}]

Next ==
    /\ \/ \E c \in Callers : CallerStep(c)
       \/ \E u \in People : PersonStep(u)
       \/ Expires
       \/ \E p \in Processes : RetryIsAllowed(p) \/ Crash(p)
    /\ Watches

Spec == Init /\ [][Next]_vars

-----------------------------------------------------------------------------
CallerPcs == {"idle", "waiting", "refreshing", "saving", "committing"}
PersonPcs == {"idle", "saving", "writing", "removing"}

TypeOK ==
    /\ file \in Tokens
    /\ lock \in Callers \cup People \cup {Free}
    /\ mutex \in [Processes -> Callers \cup {Free}]
    /\ failed \in [Processes -> Tokens]
    /\ stale \in BOOLEAN
    /\ issued \in Nat
    /\ pc \in [Callers \cup People -> CallerPcs \cup PersonPcs]
    /\ held \in [Callers -> Tokens]
    /\ got \in [Callers \cup People -> Tokens]
    /\ answer \in [by : Callers \cup {Free}, token : Tokens]
    /\ signedIn \in Nat
    /\ seen \in [Callers -> SUBSET Tokens]
    /\ asked \in [Processes -> SUBSET Tokens]

(* The file holds a token of the sign-in in force: a refresh that was out while
   the person signed out, or in again, neither brings the old sign-in back nor
   overwrites the new one (login.rs:391). *)
SignInOfTheFile == file.grant = signedIn

(* Every answer is what the file held at some moment of the call: a bearer is
   never one that was replaced before it was asked for, and never one that was
   granted and not kept (login.rs:353). *)
AnswersWereHeld ==
    [][\A c \in Callers :
        pc[c] # "idle" /\ pc'[c] = "idle" /\ answer'.by = c =>
            answer'.token \in seen[c] \cup {file'}]_vars

(* The callers of a process share the answer of the one that asks: however many
   waited, none asks about a token whose request is out, has failed within
   REFRESH_RETRY, or ended in a grant that was kept or lost to another writer
   (login.rs:326).  It is the answer they share: when the one that asks is
   dropped or killed before it has one, the next to have the mutex asks about
   the same token at once. *)
AsksOncePerToken ==
    [][\A c \in Callers :
        pc[c] # "refreshing" /\ pc'[c] = "refreshing" => held'[c] \notin asked[ProcessOf[c]]]_vars
=============================================================================

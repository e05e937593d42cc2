---------------------------- MODULE SignInProofs ----------------------------
(* Theorems about SignIn, for every set of processes, callers and people, and
   every number of tokens. *)
EXTENDS SignIn, TLAPS

\* What the helpers of a caller's step leave typed.
LEMMA Typed ==
    ASSUME TypeOK
    PROVE  /\ None \in Tokens /\ NoAnswer \in [by : Callers \cup {Free}, token : Tokens]
           /\ \A c \in Callers : ProcessOf[c] \in Processes
BY SignInAssumption DEF TypeOK, None, NoAnswer, Tokens

\* Every variable keeps its type.
THEOREM TypeCorrect == Spec => []TypeOK
<1>1. Init => TypeOK
  <2> SUFFICES ASSUME Init PROVE TypeOK
    OBVIOUS
  <2>1. file \in Tokens /\ None \in Tokens /\ file.grant \in Nat
    BY DEF Init, None, Tokens
  <2>2. QED BY <2>1 DEF Init, TypeOK, NoAnswer, CallerPcs, PersonPcs
<1>2. TypeOK /\ [Next]_vars => TypeOK'
  <2> SUFFICES ASSUME TypeOK, [Next]_vars PROVE TypeOK'
    OBVIOUS
  <2> USE Typed
  <2>w. ASSUME Watches, file' \in Tokens PROVE seen' \in [Callers -> SUBSET Tokens]
    BY <2>w DEF Watches, TypeOK
  <2>1. ASSUME NEW c \in Callers, CallerStep(c), Watches PROVE TypeOK'
    <3>1. CASE Asks(c)
      BY <3>1, <2>1, <2>w DEF Asks, Answers, Goes, TypeOK, CallerPcs
    <3>2. CASE LooksAgain(c)
      BY <3>2, <2>1, <2>w DEF LooksAgain, Answers, Goes, TypeOK, CallerPcs
    <3>3. CASE Granted(c)
      <4>1. [grant |-> held[c].grant, serial |-> issued + 1] \in Tokens
        BY DEF TypeOK, Tokens
      <4>2. QED BY <3>3, <4>1, <2>1, <2>w DEF Granted, Goes, TypeOK, CallerPcs
    <3>4. CASE RefreshFails(c)
      BY <3>4, <2>1, <2>w DEF RefreshFails, ReadsBack, Unlocks, Answers, Goes, TypeOK, CallerPcs
    <3>5. CASE Compares(c)
      BY <3>5, <2>1, <2>w DEF Compares, ReadsBack, Unlocks, Answers, Goes, TypeOK, CallerPcs
    <3>6. CASE Commits(c)
      BY <3>6, <2>1, <2>w DEF Commits, Puts, Unlocks, Answers, Goes, TypeOK, CallerPcs
    <3>7. CASE SaveFails(c)
      BY <3>7, <2>1, <2>w DEF SaveFails, ReadsBack, Unlocks, Answers, Goes, TypeOK, CallerPcs
    <3>8. CASE IsDropped(c)
      <4>1. mutex' \in [Processes -> Callers \cup {Free}]
        BY <3>8 DEF IsDropped, Unlocks, TypeOK
      <4>2. asked' \in [Processes -> SUBSET Tokens]
        BY <3>8 DEF IsDropped, TypeOK
      <4>3. pc' \in [Callers \cup People -> CallerPcs \cup PersonPcs]
        BY <3>8 DEF IsDropped, Goes, TypeOK, CallerPcs
      <4>4. answer' = NoAnswer /\ held' \in [Callers -> Tokens]
        BY <3>8 DEF IsDropped, TypeOK
      <4>5. QED BY <3>8, <4>1, <4>2, <4>3, <4>4, <2>1, <2>w DEF IsDropped, TypeOK
    <3>9. QED BY <2>1, <3>1, <3>2, <3>3, <3>4, <3>5, <3>6, <3>7, <3>8 DEF CallerStep
  <2>2. ASSUME NEW u \in People, PersonStep(u), Watches PROVE TypeOK'
    <3>1. CASE SignsIn(u)
      <4>1. [grant |-> issued + 1, serial |-> issued + 1] \in Tokens
        BY DEF TypeOK, Tokens
      <4>2. QED BY <3>1, <4>1, <2>2, <2>w DEF SignsIn, Goes, TypeOK, PersonPcs
    <3>2. CASE LocksToSave(u) \/ LocksToRemove(u)
      BY <3>2, <2>2, <2>w DEF LocksToSave, LocksToRemove, Goes, TypeOK, PersonPcs
    <3>3. CASE Saves(u)
      <4>1. got[u] \in Tokens /\ got[u].grant \in Nat
        BY DEF TypeOK, Tokens
      <4>2. QED BY <3>3, <4>1, <2>2, <2>w DEF Saves, Puts, Goes, TypeOK, PersonPcs
    <3>4. CASE Removes(u)
      BY <3>4, <2>2, <2>w DEF Removes, Puts, Goes, TypeOK, PersonPcs
    <3>5. CASE GivesUp(u)
      BY <3>5, <2>2, <2>w DEF GivesUp, Goes, TypeOK, PersonPcs
    <3>6. QED BY <2>2, <3>1, <3>2, <3>3, <3>4, <3>5 DEF PersonStep
  <2>3. ASSUME Expires, Watches PROVE TypeOK'
    BY <2>3, <2>w DEF Expires, TypeOK
  <2>4. ASSUME NEW p \in Processes, RetryIsAllowed(p), Watches PROVE TypeOK'
    BY <2>4, <2>w DEF RetryIsAllowed, TypeOK
  <2>5. ASSUME NEW p \in Processes, Crash(p), Watches PROVE TypeOK'
    BY <2>5, <2>w DEF Crash, TypeOK, CallerPcs
  <2>6. CASE UNCHANGED vars
    BY <2>6 DEF vars, TypeOK
  <2>7. QED BY <2>1, <2>2, <2>3, <2>4, <2>5, <2>6 DEF Next
<1>3. QED BY <1>1, <1>2, PTL DEF Spec

(* Who writes the file holds its lock; a token about to be committed was got
   for the token still on disk, and is of the same sign-in. *)
LockInv ==
    /\ \A c \in Callers : pc[c] = "committing" => lock = c /\ file = held[c]
    /\ \A u \in People : pc[u] \in {"writing", "removing"} => lock = u
    /\ \A c \in Callers : pc[c] \in {"saving", "committing"} => got[c].grant = held[c].grant

\* The lock keeps every writer's view of the file true until it has written.
LEMMA LockStep ==
    ASSUME TypeOK, LockInv, SignInOfTheFile, Next
    PROVE  LockInv' /\ SignInOfTheFile'
<1> USE SignInAssumption
<1>1. ASSUME NEW c \in Callers, CallerStep(c) PROVE LockInv' /\ SignInOfTheFile'
  <2>1. CASE Asks(c)
    BY <2>1 DEF Asks, Answers, Goes, TypeOK, LockInv, SignInOfTheFile
  <2>2. CASE LooksAgain(c)
    BY <2>2 DEF LooksAgain, Answers, Goes, TypeOK, LockInv, SignInOfTheFile
  <2>3. CASE Granted(c)
    BY <2>3 DEF Granted, Goes, TypeOK, LockInv, SignInOfTheFile
  <2>4. CASE RefreshFails(c)
    BY <2>4 DEF RefreshFails, ReadsBack, Answers, Goes, TypeOK, LockInv, SignInOfTheFile
  <2>5. CASE Compares(c)
    BY <2>5 DEF Compares, ReadsBack, Answers, Goes, TypeOK, LockInv, SignInOfTheFile
  <2>6. CASE Commits(c)
    BY <2>6 DEF Commits, Puts, Answers, Goes, TypeOK, LockInv, SignInOfTheFile
  <2>7. CASE SaveFails(c)
    BY <2>7 DEF SaveFails, ReadsBack, Answers, Goes, TypeOK, LockInv, SignInOfTheFile
  <2>8. CASE IsDropped(c)
    BY <2>8 DEF IsDropped, Goes, TypeOK, LockInv, SignInOfTheFile
  <2>9. QED BY <1>1, <2>1, <2>2, <2>3, <2>4, <2>5, <2>6, <2>7, <2>8 DEF CallerStep
<1>2. ASSUME NEW u \in People, PersonStep(u) PROVE LockInv' /\ SignInOfTheFile'
  <2>1. CASE SignsIn(u)
    BY <2>1 DEF SignsIn, Goes, TypeOK, LockInv, SignInOfTheFile
  <2>2. CASE LocksToSave(u)
    BY <2>2 DEF LocksToSave, Goes, TypeOK, LockInv, SignInOfTheFile
  <2>3. CASE Saves(u)
    BY <2>3 DEF Saves, Puts, Goes, TypeOK, LockInv, SignInOfTheFile
  <2>4. CASE LocksToRemove(u)
    BY <2>4 DEF LocksToRemove, Goes, TypeOK, LockInv, SignInOfTheFile
  <2>5. CASE Removes(u)
    BY <2>5 DEF Removes, Puts, None, Goes, TypeOK, LockInv, SignInOfTheFile
  <2>6. CASE GivesUp(u)
    BY <2>6 DEF GivesUp, Goes, TypeOK, LockInv, SignInOfTheFile
  <2>7. QED BY <1>2, <2>1, <2>2, <2>3, <2>4, <2>5, <2>6 DEF PersonStep
<1>3. ASSUME Expires PROVE LockInv' /\ SignInOfTheFile'
  BY <1>3 DEF Expires, LockInv, SignInOfTheFile
<1>4. ASSUME NEW p \in Processes, RetryIsAllowed(p) PROVE LockInv' /\ SignInOfTheFile'
  BY <1>4 DEF RetryIsAllowed, LockInv, SignInOfTheFile
<1>5. ASSUME NEW p \in Processes, Crash(p) PROVE LockInv' /\ SignInOfTheFile'
  BY <1>5 DEF Crash, TypeOK, LockInv, SignInOfTheFile
<1>6. QED BY <1>1, <1>2, <1>3, <1>4, <1>5 DEF Next

\* What is on disk is always of the sign-in in force: no refresh undoes a logout
\* or overwrites a later login, whatever crashes or fails (login.rs:391).
THEOREM RefreshNeverOutlivesSignIn == Spec => []SignInOfTheFile
<1>1. Init => LockInv /\ SignInOfTheFile
  BY SignInAssumption DEF Init, LockInv, SignInOfTheFile
<1>2. TypeOK /\ LockInv /\ SignInOfTheFile /\ [Next]_vars => LockInv' /\ SignInOfTheFile'
  <2>1. CASE Next
    BY <2>1, LockStep
  <2>2. CASE UNCHANGED vars
    BY <2>2 DEF vars, LockInv, SignInOfTheFile
  <2>3. QED BY <2>1, <2>2
<1>3. QED BY <1>1, <1>2, TypeCorrect, PTL DEF Spec

-----------------------------------------------------------------------------
\* During a call the file's content is among what the call has seen.
SeenInv == \A c \in Callers : pc[c] # "idle" => file \in seen[c]

\* The action of AnswersWereHeld.
AnswerStep ==
    \A c \in Callers :
        pc[c] # "idle" /\ pc'[c] = "idle" /\ answer'.by = c =>
            answer'.token \in seen[c] \cup {file'}

\* What a caller has in hand, from its first look to its answer, the file held
\* in between.
LEMMA SeenStep ==
    ASSUME TypeOK, SeenInv, Next
    PROVE  SeenInv' /\ AnswerStep
<1> USE SignInAssumption
<1>1. SeenInv'
  BY DEF SeenInv, Watches, Next, TypeOK
<1>2. ASSUME NEW d \in Callers, CallerStep(d) PROVE AnswerStep
  <2>1. CASE Asks(d)
    BY <2>1 DEF Asks, Answers, Goes, TypeOK, AnswerStep
  <2>2. CASE LooksAgain(d)
    BY <2>2 DEF LooksAgain, Answers, Goes, TypeOK, SeenInv, AnswerStep
  <2>3. CASE Granted(d)
    BY <2>3 DEF Granted, Goes, TypeOK, AnswerStep
  <2>4. CASE RefreshFails(d)
    BY <2>4 DEF RefreshFails, ReadsBack, Answers, Goes, TypeOK, SeenInv, AnswerStep
  <2>5. CASE Compares(d)
    BY <2>5 DEF Compares, ReadsBack, Answers, Goes, TypeOK, SeenInv, AnswerStep
  <2>6. CASE Commits(d)
    BY <2>6 DEF Commits, Puts, Answers, Goes, TypeOK, AnswerStep
  <2>7. CASE SaveFails(d)
    BY <2>7 DEF SaveFails, ReadsBack, Answers, Goes, TypeOK, SeenInv, AnswerStep
  <2>8. CASE IsDropped(d)
    BY <2>8 DEF IsDropped, NoAnswer, Goes, TypeOK, AnswerStep
  <2>9. QED BY <1>2, <2>1, <2>2, <2>3, <2>4, <2>5, <2>6, <2>7, <2>8 DEF CallerStep
<1>3. ASSUME NEW u \in People, PersonStep(u) PROVE AnswerStep
  BY <1>3 DEF PersonStep, SignsIn, LocksToSave, Saves, LocksToRemove, Removes, GivesUp,
              Goes, TypeOK, AnswerStep
<1>4. ASSUME Expires \/ \E p \in Processes : RetryIsAllowed(p) PROVE AnswerStep
  BY <1>4 DEF Expires, RetryIsAllowed, AnswerStep
<1>5. ASSUME NEW p \in Processes, Crash(p) PROVE AnswerStep
  BY <1>5 DEF Crash, NoAnswer, TypeOK, AnswerStep
<1>6. QED BY <1>1, <1>2, <1>3, <1>4, <1>5 DEF Next

\* A bearer that is handed out was on disk during the call that asked for it,
\* also when a refresh was refused, lost to another writer or not saved
\* (login.rs:353).
THEOREM AnswersAreFromTheFile == Spec => AnswersWereHeld
<1>1. Init => SeenInv
  BY SignInAssumption DEF Init, SeenInv
<1>2. TypeOK /\ SeenInv /\ [Next]_vars => SeenInv'
  <2>1. CASE Next
    BY <2>1, SeenStep
  <2>2. CASE UNCHANGED vars
    BY <2>2 DEF vars, SeenInv
  <2>3. QED BY <2>1, <2>2
<1>3. TypeOK /\ SeenInv /\ [Next]_vars => [AnswerStep]_vars
  BY SeenStep
<1>4. QED BY <1>1, <1>2, <1>3, TypeCorrect, PTL DEF Spec, AnswersWereHeld, AnswerStep

-----------------------------------------------------------------------------
Working(c) == pc[c] \in {"refreshing", "saving", "committing"}
Pending(a) == pc[a] \in {"saving", "committing", "writing"}

(* The mutex is held by the one caller of the process that is refreshing. *)
MutexInv ==
    \A c \in Callers : Working(c) <=> mutex[ProcessOf[c]] = c

(* A token got and not yet on disk is new: it is neither on disk, nor another's,
   nor one that any process has asked about. *)
PendingInv ==
    /\ file.serial <= issued
    /\ \A p \in Processes : \A t \in asked[p] : t.serial <= issued /\ t # None
    /\ \A a \in Callers \cup People : Pending(a) =>
         /\ got[a].serial <= issued /\ got[a] # None
         /\ got[a] # file
         /\ \A p \in Processes : got[a] \notin asked[p]
         /\ \A b \in Callers \cup People : Pending(b) /\ b # a => got[b] # got[a]

(* A token that was asked about is on disk only while its refresh is under way
   or has just failed; the refresh under way is of a token that was asked about
   and has not failed. *)
AskedInv ==
    /\ \A p \in Processes : failed[p] # None => failed[p] \in asked[p]
    /\ \A p \in Processes : \A t \in asked[p] :
         file = t => t = failed[p] \/ \E c \in Callers :
                        ProcessOf[c] = p /\ Working(c) /\ held[c] = t
    /\ \A c \in Callers : Working(c) =>
         /\ held[c] # None /\ held[c] \in asked[ProcessOf[c]] /\ held[c] # failed[ProcessOf[c]]
         /\ failed[ProcessOf[c]] # None => failed[ProcessOf[c]] # file

\* The action of AsksOncePerToken.
AskStep ==
    \A c \in Callers :
        pc[c] # "refreshing" /\ pc'[c] = "refreshing" => held'[c] \notin asked[ProcessOf[c]]

\* A token that is got is numbered after every other.
LEMMA PendingStep ==
    ASSUME TypeOK, PendingInv, Next
    PROVE  PendingInv'
<1> USE SignInAssumption
<1>t. file \in Tokens /\ issued \in Nat /\ held \in [Callers -> Tokens]
      /\ got \in [Callers \cup People -> Tokens] /\ asked \in [Processes -> SUBSET Tokens]
      /\ \A t \in Tokens : t.serial \in Nat
  BY DEF TypeOK, Tokens
<1>1. ASSUME NEW c \in Callers, CallerStep(c) PROVE PendingInv'
  <2>1. CASE Asks(c)
    BY <2>1, <1>t DEF Asks, Answers, Goes, TypeOK, PendingInv, Pending
  <2>2. CASE LooksAgain(c)
    BY <2>2, <1>t DEF LooksAgain, Answers, Goes, TypeOK, PendingInv, Pending
  <2>3. CASE Granted(c)
    BY <2>3, <1>t DEF Granted, Goes, TypeOK, PendingInv, Pending, None
  <2>4. CASE RefreshFails(c)
    BY <2>4, <1>t DEF RefreshFails, ReadsBack, Answers, Goes, TypeOK, PendingInv, Pending
  <2>5. CASE Compares(c)
    BY <2>5, <1>t DEF Compares, ReadsBack, Answers, Goes, TypeOK, PendingInv, Pending
  <2>6. CASE Commits(c)
    BY <2>6, <1>t DEF Commits, Puts, Answers, Goes, TypeOK, PendingInv, Pending
  <2>7. CASE SaveFails(c)
    BY <2>7, <1>t DEF SaveFails, ReadsBack, Answers, Goes, TypeOK, PendingInv, Pending
  <2>8. CASE IsDropped(c)
    <3>1. \A p \in Processes : asked'[p] \subseteq asked[p]
      BY <2>8 DEF IsDropped, TypeOK
    <3>2. \A a \in Callers \cup People : Pending(a)' => Pending(a)
      BY <2>8 DEF IsDropped, Goes, TypeOK, Pending
    <3>3. file' = file /\ issued' = issued /\ got' = got
      BY <2>8 DEF IsDropped
    <3>4. QED BY <3>1, <3>2, <3>3 DEF PendingInv
  <2>9. QED BY <1>1, <2>1, <2>2, <2>3, <2>4, <2>5, <2>6, <2>7, <2>8 DEF CallerStep
<1>2. ASSUME NEW u \in People, PersonStep(u) PROVE PendingInv'
  <2>1. CASE SignsIn(u)
    BY <2>1, <1>t DEF SignsIn, Goes, TypeOK, PendingInv, Pending, None
  <2>2. CASE LocksToSave(u)
    BY <2>2, <1>t DEF LocksToSave, Goes, TypeOK, PendingInv, Pending
  <2>3. CASE Saves(u)
    BY <2>3, <1>t DEF Saves, Puts, Goes, TypeOK, PendingInv, Pending
  <2>4. CASE LocksToRemove(u)
    BY <2>4, <1>t DEF LocksToRemove, Goes, TypeOK, PendingInv, Pending
  <2>5. CASE Removes(u)
    BY <2>5, <1>t DEF Removes, Puts, Goes, None, TypeOK, PendingInv, Pending
  <2>6. CASE GivesUp(u)
    BY <2>6, <1>t DEF GivesUp, Goes, TypeOK, PendingInv, Pending
  <2>7. QED BY <1>2, <2>1, <2>2, <2>3, <2>4, <2>5, <2>6 DEF PersonStep
<1>3. ASSUME Expires PROVE PendingInv'
  BY <1>3 DEF Expires, PendingInv, Pending
<1>4. ASSUME NEW p \in Processes, RetryIsAllowed(p) PROVE PendingInv'
  BY <1>4, <1>t DEF RetryIsAllowed, PendingInv, Pending
<1>5. ASSUME NEW p \in Processes, Crash(p) PROVE PendingInv'
  BY <1>5, <1>t DEF Crash, TypeOK, PendingInv, Pending
<1>6. QED BY <1>1, <1>2, <1>3, <1>4, <1>5 DEF Next

\* A refresh holds its process's mutex from its second look to its answer.
LEMMA MutexStep ==
    ASSUME TypeOK, MutexInv, Next
    PROVE  MutexInv'
<1> USE SignInAssumption
<1>1. ASSUME NEW c \in Callers, CallerStep(c) PROVE MutexInv'
  <2>1. CASE Asks(c)
    BY <2>1 DEF Asks, Answers, Goes, TypeOK, MutexInv, Working
  <2>2. CASE LooksAgain(c)
    BY <2>2 DEF LooksAgain, Answers, Goes, TypeOK, MutexInv, Working
  <2>3. CASE Granted(c)
    BY <2>3 DEF Granted, Goes, TypeOK, MutexInv, Working
  <2>4. CASE RefreshFails(c)
    BY <2>4 DEF RefreshFails, ReadsBack, Unlocks, Answers, Goes, TypeOK, MutexInv, Working
  <2>5. CASE Compares(c)
    BY <2>5 DEF Compares, ReadsBack, Unlocks, Answers, Goes, TypeOK, MutexInv, Working
  <2>6. CASE Commits(c)
    BY <2>6 DEF Commits, Puts, Unlocks, Answers, Goes, TypeOK, MutexInv, Working
  <2>7. CASE SaveFails(c)
    BY <2>7 DEF SaveFails, ReadsBack, Unlocks, Answers, Goes, TypeOK, MutexInv, Working
  <2>8. CASE IsDropped(c)
    BY <2>8 DEF IsDropped, Goes, Unlocks, TypeOK, MutexInv, Working
  <2>9. QED BY <1>1, <2>1, <2>2, <2>3, <2>4, <2>5, <2>6, <2>7, <2>8 DEF CallerStep
<1>2. ASSUME NEW u \in People, PersonStep(u) PROVE MutexInv'
  <2>1. CASE SignsIn(u)
    BY <2>1 DEF SignsIn, Goes, TypeOK, MutexInv, Working
  <2>2. CASE LocksToSave(u)
    BY <2>2 DEF LocksToSave, Goes, TypeOK, MutexInv, Working
  <2>3. CASE Saves(u)
    BY <2>3 DEF Saves, Puts, Goes, TypeOK, MutexInv, Working
  <2>4. CASE LocksToRemove(u)
    BY <2>4 DEF LocksToRemove, Goes, TypeOK, MutexInv, Working
  <2>5. CASE Removes(u)
    BY <2>5 DEF Removes, Puts, Goes, TypeOK, MutexInv, Working
  <2>6. CASE GivesUp(u)
    BY <2>6 DEF GivesUp, Goes, TypeOK, MutexInv, Working
  <2>7. QED BY <1>2, <2>1, <2>2, <2>3, <2>4, <2>5, <2>6 DEF PersonStep
<1>3. ASSUME Expires PROVE MutexInv'
  BY <1>3 DEF Expires, TypeOK, MutexInv, Working
<1>4. ASSUME NEW p \in Processes, RetryIsAllowed(p) PROVE MutexInv'
  BY <1>4 DEF RetryIsAllowed, TypeOK, MutexInv, Working
<1>5. ASSUME NEW p \in Processes, Crash(p) PROVE MutexInv'
  BY <1>5 DEF Crash, TypeOK, MutexInv, Working
<1>6. QED BY <1>1, <1>2, <1>3, <1>4, <1>5 DEF Next

\* A token that was asked about is not on disk when it may be asked about again.
LEMMA AskedStep ==
    ASSUME TypeOK, MutexInv, PendingInv, AskedInv, Next
    PROVE  AskedInv'
<1> USE SignInAssumption
<1>1. ASSUME NEW c \in Callers, CallerStep(c) PROVE AskedInv'
  <2>1. CASE Asks(c)
    BY <2>1 DEF Asks, Answers, Goes, TypeOK, MutexInv, PendingInv, AskedInv, Working, Pending
  <2>2. CASE LooksAgain(c)
    BY <2>2 DEF LooksAgain, Answers, Goes, TypeOK, MutexInv, PendingInv, AskedInv, Working, Pending
  <2>3. CASE Granted(c)
    BY <2>3 DEF Granted, Goes, TypeOK, MutexInv, PendingInv, AskedInv, Working, Pending
  <2>4. CASE RefreshFails(c)
    <3>1. /\ file' = file /\ asked' = asked
          /\ failed' = [failed EXCEPT ![ProcessOf[c]] = held[c]]
          /\ held[c] \in asked[ProcessOf[c]] /\ held[c] # None
      BY <2>4 DEF RefreshFails, ReadsBack, Answers, AskedInv, Working
    <3>2. \A d \in Callers : d # c =>
            /\ held'[d] = held[d]
            /\ Working(d)' <=> Working(d)
            /\ Working(d) => ProcessOf[d] # ProcessOf[c]
      BY <2>4 DEF RefreshFails, ReadsBack, Answers, Goes, TypeOK, MutexInv, Working
    <3>3. ~Working(c)' /\ Working(c)
      BY <2>4 DEF RefreshFails, ReadsBack, Answers, Goes, TypeOK, Working
    <3>4. failed \in [Processes -> Tokens] /\ ProcessOf[c] \in Processes
      BY DEF TypeOK
    <3>5. \A p \in Processes : failed'[p] # None => failed'[p] \in asked'[p]
      BY <3>1, <3>4 DEF AskedInv, Working
    <3>6. ASSUME NEW p \in Processes, NEW t \in asked'[p], file' = t
          PROVE  t = failed'[p] \/ \E d \in Callers :
                    ProcessOf[d] = p /\ Working(d)' /\ held'[d] = t
      <4>1. t = failed[p] \/ \E d \in Callers : ProcessOf[d] = p /\ Working(d) /\ held[d] = t
        BY <3>1, <3>6 DEF AskedInv, Working
      <4>2. CASE p = ProcessOf[c]
        <5>1. t # failed[p]
          BY <4>2, <3>1, <3>3, <3>6 DEF AskedInv, PendingInv
        <5>2. t = held[c]
          BY <4>1, <4>2, <5>1, <3>2
        <5>3. QED BY <5>2, <4>2, <3>1, <3>4
      <4>3. CASE p # ProcessOf[c]
        <5>1. failed'[p] = failed[p]
          BY <4>3, <3>1, <3>4
        <5>2. QED BY <4>1, <4>3, <5>1, <3>2 DEF Working
      <4>4. QED BY <4>2, <4>3
    <3>7. \A d \in Callers : Working(d)' =>
            /\ held'[d] # None /\ held'[d] \in asked'[ProcessOf[d]]
            /\ held'[d] # failed'[ProcessOf[d]]
            /\ failed'[ProcessOf[d]] # None => failed'[ProcessOf[d]] # file'
      BY <3>1, <3>2, <3>3, <3>4 DEF AskedInv, Working
    <3>8. QED BY <3>5, <3>6, <3>7 DEF AskedInv, Working
  <2>5. CASE Compares(c)
    BY <2>5 DEF Compares, ReadsBack, Unlocks, Answers, Goes, TypeOK, MutexInv, PendingInv, AskedInv, Working, Pending
  <2>6. CASE Commits(c)
    BY <2>6 DEF Commits, Puts, Unlocks, Answers, Goes, TypeOK, MutexInv, PendingInv, AskedInv, Working, Pending
  <2>7. CASE SaveFails(c)
    <3>1. /\ file' = file /\ failed' = failed
          /\ asked' = [asked EXCEPT ![ProcessOf[c]] = @ \ {held[c]}]
      BY <2>7 DEF SaveFails
    <3>2. \A d \in Callers : d # c =>
            /\ held'[d] = held[d]
            /\ Working(d)' <=> Working(d)
            /\ Working(d) => ProcessOf[d] # ProcessOf[c]
      BY <2>7 DEF SaveFails, ReadsBack, Answers, Goes, TypeOK, MutexInv, Working
    <3>3. ~Working(c)' /\ Working(c)
      BY <2>7 DEF SaveFails, ReadsBack, Answers, Goes, TypeOK, Working
    <3>4. asked \in [Processes -> SUBSET Tokens] /\ ProcessOf[c] \in Processes
      BY DEF TypeOK
    <3>5. failed[ProcessOf[c]] # held[c]
      BY <3>3 DEF AskedInv, Working
    <3>6. \A p \in Processes : failed'[p] # None => failed'[p] \in asked'[p]
      BY <3>1, <3>4, <3>5 DEF AskedInv, Working
    <3>7. ASSUME NEW p \in Processes, NEW t \in asked'[p], file' = t
          PROVE  t = failed'[p] \/ \E d \in Callers :
                    ProcessOf[d] = p /\ Working(d)' /\ held'[d] = t
      <4>1. t \in asked[p] /\ (p = ProcessOf[c] => t # held[c])
        BY <3>1, <3>4
      <4>2. t = failed[p] \/ \E d \in Callers : ProcessOf[d] = p /\ Working(d) /\ held[d] = t
        BY <4>1, <3>1, <3>7 DEF AskedInv, Working
      <4>3. QED BY <4>1, <4>2, <3>1, <3>2, <3>3 DEF Working
    <3>8. \A d \in Callers : Working(d)' =>
            /\ held'[d] # None /\ held'[d] \in asked'[ProcessOf[d]]
            /\ held'[d] # failed'[ProcessOf[d]]
            /\ failed'[ProcessOf[d]] # None => failed'[ProcessOf[d]] # file'
      BY <3>1, <3>2, <3>3, <3>4 DEF AskedInv, Working
    <3>9. QED BY <3>6, <3>7, <3>8 DEF AskedInv, Working
  <2>8. CASE IsDropped(c)
    <3>1. CASE pc[c] = "refreshing"
      <4>1. /\ file' = file /\ failed' = failed
            /\ asked' = [asked EXCEPT ![ProcessOf[c]] = @ \ {held[c]}]
        BY <2>8, <3>1 DEF IsDropped
      <4>2. \A d \in Callers : d # c =>
              /\ held'[d] = held[d]
              /\ Working(d)' <=> Working(d)
              /\ Working(d) => ProcessOf[d] # ProcessOf[c]
        BY <2>8, <3>1 DEF IsDropped, Unlocks, Goes, TypeOK, MutexInv, Working
      <4>3. ~Working(c)' /\ Working(c)
        BY <2>8, <3>1 DEF IsDropped, Unlocks, Goes, TypeOK, Working
      <4>4. asked \in [Processes -> SUBSET Tokens] /\ ProcessOf[c] \in Processes
        BY DEF TypeOK
      <4>5. failed[ProcessOf[c]] # held[c]
        BY <4>3 DEF AskedInv, Working
      <4>6. \A p \in Processes : failed'[p] # None => failed'[p] \in asked'[p]
        BY <4>1, <4>4, <4>5 DEF AskedInv, Working
      <4>7. ASSUME NEW p \in Processes, NEW t \in asked'[p], file' = t
            PROVE  t = failed'[p] \/ \E d \in Callers :
                      ProcessOf[d] = p /\ Working(d)' /\ held'[d] = t
        <5>1. t \in asked[p] /\ (p = ProcessOf[c] => t # held[c])
          BY <4>1, <4>4
        <5>2. t = failed[p] \/ \E d \in Callers : ProcessOf[d] = p /\ Working(d) /\ held[d] = t
          BY <5>1, <4>1, <4>7 DEF AskedInv, Working
        <5>3. QED BY <5>1, <5>2, <4>1, <4>2, <4>3 DEF Working
      <4>8. \A d \in Callers : Working(d)' =>
              /\ held'[d] # None /\ held'[d] \in asked'[ProcessOf[d]]
              /\ held'[d] # failed'[ProcessOf[d]]
              /\ failed'[ProcessOf[d]] # None => failed'[ProcessOf[d]] # file'
        BY <4>1, <4>2, <4>3, <4>4 DEF AskedInv, Working
      <4>9. QED BY <4>6, <4>7, <4>8 DEF AskedInv, Working
    <3>2. CASE pc[c] = "waiting"
      BY <2>8, <3>2 DEF IsDropped, Goes, TypeOK, MutexInv, PendingInv, AskedInv, Working, Pending
    <3>3. QED BY <2>8, <3>1, <3>2 DEF IsDropped
  <2>9. QED BY <1>1, <2>1, <2>2, <2>3, <2>4, <2>5, <2>6, <2>7, <2>8 DEF CallerStep
<1>2. ASSUME NEW u \in People, PersonStep(u) PROVE AskedInv'
  <2>1. CASE SignsIn(u)
    BY <2>1 DEF SignsIn, Goes, TypeOK, MutexInv, PendingInv, AskedInv, Working, Pending
  <2>2. CASE LocksToSave(u)
    BY <2>2 DEF LocksToSave, Goes, TypeOK, MutexInv, PendingInv, AskedInv, Working, Pending
  <2>3. CASE Saves(u)
    BY <2>3 DEF Saves, Puts, Goes, TypeOK, MutexInv, PendingInv, AskedInv, Working, Pending
  <2>4. CASE LocksToRemove(u)
    BY <2>4 DEF LocksToRemove, Goes, TypeOK, MutexInv, PendingInv, AskedInv, Working, Pending
  <2>5. CASE Removes(u)
    BY <2>5 DEF Removes, Puts, Goes, TypeOK, MutexInv, PendingInv, AskedInv, Working, Pending
  <2>6. CASE GivesUp(u)
    BY <2>6 DEF GivesUp, Goes, TypeOK, MutexInv, PendingInv, AskedInv, Working, Pending
  <2>7. QED BY <1>2, <2>1, <2>2, <2>3, <2>4, <2>5, <2>6 DEF PersonStep
<1>3. ASSUME Expires PROVE AskedInv'
  BY <1>3 DEF Expires, TypeOK, MutexInv, PendingInv, AskedInv, Working, Pending
<1>4. ASSUME NEW p \in Processes, RetryIsAllowed(p) PROVE AskedInv'
  BY <1>4 DEF RetryIsAllowed, TypeOK, MutexInv, PendingInv, AskedInv, Working, Pending
<1>5. ASSUME NEW p \in Processes, Crash(p) PROVE AskedInv'
  BY <1>5 DEF Crash, TypeOK, MutexInv, PendingInv, AskedInv, Working, Pending
<1>6. QED BY <1>1, <1>2, <1>3, <1>4, <1>5 DEF Next

\* What a caller asks about has not been asked about.
LEMMA NotAskedTwice ==
    ASSUME TypeOK, MutexInv, AskedInv, Next
    PROVE  AskStep
<1> USE SignInAssumption
<1>1. ASSUME NEW c \in Callers, CallerStep(c) PROVE AskStep
  <2>1. CASE Asks(c)
    BY <2>1 DEF Asks, Answers, Goes, TypeOK, MutexInv, AskedInv, Working, AskStep
  <2>2. CASE LooksAgain(c)
    BY <2>2 DEF LooksAgain, Answers, Goes, TypeOK, MutexInv, AskedInv, Working, AskStep
  <2>3. CASE Granted(c)
    BY <2>3 DEF Granted, Goes, TypeOK, MutexInv, AskedInv, Working, AskStep
  <2>4. CASE RefreshFails(c)
    BY <2>4 DEF RefreshFails, ReadsBack, Unlocks, Answers, Goes, TypeOK, MutexInv, AskedInv, Working, AskStep
  <2>5. CASE Compares(c)
    BY <2>5 DEF Compares, ReadsBack, Unlocks, Answers, Goes, TypeOK, MutexInv, AskedInv, Working, AskStep
  <2>6. CASE Commits(c)
    BY <2>6 DEF Commits, Puts, Unlocks, Answers, Goes, TypeOK, MutexInv, AskedInv, Working, AskStep
  <2>7. CASE SaveFails(c)
    BY <2>7 DEF SaveFails, ReadsBack, Unlocks, Answers, Goes, TypeOK, MutexInv, AskedInv, Working, AskStep
  <2>8. CASE IsDropped(c)
    BY <2>8 DEF IsDropped, Goes, Unlocks, TypeOK, MutexInv, AskedInv, Working, AskStep
  <2>9. QED BY <1>1, <2>1, <2>2, <2>3, <2>4, <2>5, <2>6, <2>7, <2>8 DEF CallerStep
<1>2. ASSUME NEW u \in People, PersonStep(u) PROVE AskStep
  <2>1. CASE SignsIn(u)
    BY <2>1 DEF SignsIn, Goes, TypeOK, MutexInv, AskedInv, Working, AskStep
  <2>2. CASE LocksToSave(u)
    BY <2>2 DEF LocksToSave, Goes, TypeOK, MutexInv, AskedInv, Working, AskStep
  <2>3. CASE Saves(u)
    BY <2>3 DEF Saves, Puts, Goes, TypeOK, MutexInv, AskedInv, Working, AskStep
  <2>4. CASE LocksToRemove(u)
    BY <2>4 DEF LocksToRemove, Goes, TypeOK, MutexInv, AskedInv, Working, AskStep
  <2>5. CASE Removes(u)
    BY <2>5 DEF Removes, Puts, Goes, TypeOK, MutexInv, AskedInv, Working, AskStep
  <2>6. CASE GivesUp(u)
    BY <2>6 DEF GivesUp, Goes, TypeOK, MutexInv, AskedInv, Working, AskStep
  <2>7. QED BY <1>2, <2>1, <2>2, <2>3, <2>4, <2>5, <2>6 DEF PersonStep
<1>3. ASSUME Expires PROVE AskStep
  BY <1>3 DEF Expires, TypeOK, MutexInv, AskedInv, Working, AskStep
<1>4. ASSUME NEW p \in Processes, RetryIsAllowed(p) PROVE AskStep
  BY <1>4 DEF RetryIsAllowed, TypeOK, MutexInv, AskedInv, Working, AskStep
<1>5. ASSUME NEW p \in Processes, Crash(p) PROVE AskStep
  BY <1>5 DEF Crash, TypeOK, MutexInv, AskedInv, Working, AskStep
<1>6. QED BY <1>1, <1>2, <1>3, <1>4, <1>5 DEF Next

\* The callers of a process share the answer of the one that asks: once a process
\* has an answer about a token, it asks again only when REFRESH_RETRY has passed
\* since a failure or the grant could not be saved, and until it has one, only
\* when the caller that asked is dropped or killed (login.rs:326).
THEOREM RefreshesAreCoalesced == Spec => AsksOncePerToken
<1> DEFINE Inv == MutexInv /\ PendingInv /\ AskedInv
<1>1. Init => Inv
  BY SignInAssumption DEF Init, MutexInv, PendingInv, AskedInv, Working, Pending, None
<1>2. TypeOK /\ Inv /\ [Next]_vars => Inv'
  <2>1. CASE Next
    BY <2>1, MutexStep, PendingStep, AskedStep
  <2>2. CASE UNCHANGED vars
    BY <2>2 DEF vars, MutexInv, PendingInv, AskedInv, Working, Pending
  <2>3. QED BY <2>1, <2>2
<1>3. TypeOK /\ Inv /\ [Next]_vars => [AskStep]_vars
  BY NotAskedTwice
<1>4. QED BY <1>1, <1>2, <1>3, TypeCorrect, PTL DEF Spec, AsksOncePerToken, AskStep
=============================================================================

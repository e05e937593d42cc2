------------------------------ MODULE Restarts ------------------------------
(***************************************************************************)
(* Reasons to reconnect, and the loop that reconnects: restart.rs, and     *)
(* run, wait_to_retry, restarted and follow's restart arm in daemon.rs.    *)
(*                                                                         *)
(* Two watchers stamp what they hear with Instant::now().  A resume goes   *)
(* straight to a broadcast channel of capacity one; a network trigger goes *)
(* through the debouncer first, which keeps the stamp of the last of the   *)
(* burst.  Time is the order of the stamps: each stamped event takes the   *)
(* next instant, and SETTLE is the choice of when the burst has ended.     *)
(***************************************************************************)
EXTENDS Naturals, Sequences

CONSTANTS
    MaxBackoff, \* doublings from MIN_BACKOFF to MAX_BACKOFF
    MaxTime     \* bound on the stamped events TLC explores

ASSUME BackoffAssumption == MaxBackoff \in Nat /\ MaxTime \in Nat

VARIABLES
    watching,    \* the watchers that could be set up, of Watchers
    now,         \* the last instant stamped
    moved,       \* when the connections were last invalidated
    raw,         \* the debouncer's queue of network triggers
    settling,    \* the debouncer's `at' while a burst settles; 0 when idle
    slot,        \* the broadcast channel: the one restart not yet received
    pc,          \* where the run loop is
    opened,      \* when the serving connection's socket was opened
    established, \* when run says it dates from
    backoff      \* doublings of the wait so far

sourceVars == <<watching, now, moved, raw, settling, slot>>
loopVars == <<pc, opened, established, backoff>>
restartsVars == <<watching, now, moved, raw, settling, slot, pc, opened, established, backoff>>

Watchers == {"resume", "network"}

Nothing == [reason |-> "nothing", at |-> 0]
Restart(reason, at) == [reason |-> reason, at |-> at]

\* Each watcher is attempted separately and may be missing.
RestartsInit ==
    /\ watching \in SUBSET Watchers
    /\ now = 0 /\ moved = 0
    /\ raw = <<>> /\ settling = 0
    /\ slot = Nothing
    /\ pc = "connecting"
    /\ opened = 0 /\ established = 0
    /\ backoff = 0

Stamp ==
    /\ now < MaxTime
    /\ now' = now + 1

-----------------------------------------------------------------------------
(* The watchers and the debouncer.                                         *)

\* PrepareForSleep(false).  A message not yet received is overwritten.
Resume ==
    /\ "resume" \in watching
    /\ Stamp
    /\ moved' = now'
    /\ slot' = Restart("resumed", now')
    /\ UNCHANGED <<watching, raw, settling, loopVars>>

\* The state reaching connected, or the primary connection gaining a route.
NetworkTrigger ==
    /\ "network" \in watching
    /\ Stamp
    /\ moved' = now'
    /\ raw' = Append(raw, now')
    /\ UNCHANGED <<watching, settling, slot, loopVars>>

\* Variant: the burst keeps the stamp it started with.
Latest_First == IF settling = 0 THEN Head(raw) ELSE settling

\* Each trigger of a burst replaces the stamp before it.
Latest == Head(raw)

Collect ==
    /\ raw # <<>>
    /\ settling' = Latest
    /\ raw' = Tail(raw)
    /\ UNCHANGED <<watching, now, moved, slot, loopVars>>

\* Variant: the restart is stamped when the burst went quiet.
Settled_Now == Restart("network", now + 1)

Settled == Restart("network", settling)

\* SETTLE passes with nothing more.
GoQuiet ==
    /\ settling # 0
    /\ raw = <<>>
    /\ slot' = Settled
    /\ settling' = 0
    /\ UNCHANGED <<watching, now, moved, raw, loopVars>>

-----------------------------------------------------------------------------
(* run: connect, serve, wait.                                              *)

\* session::connect opens a socket ...
Open ==
    /\ pc = "connecting"
    /\ Stamp
    /\ pc' = "open"
    /\ opened' = now'
    /\ UNCHANGED <<watching, moved, raw, settling, slot, established, backoff>>

\* ... and reads the household over it, which a dead socket does not answer.
ReadsHousehold ==
    /\ pc = "open"
    /\ moved < opened
    /\ pc' = "read"
    /\ UNCHANGED <<sourceVars, opened, established, backoff>>

\* connect fails: no player, no answer, or the state file would not save.
ConnectFails ==
    /\ pc \in {"connecting", "open", "read"}
    /\ pc' = "waiting"
    /\ UNCHANGED <<sourceVars, opened, established, backoff>>

Establish ==
    /\ pc = "read"
    /\ Stamp
    /\ pc' = "serving"
    /\ established' = now'
    /\ backoff' = 0
    /\ UNCHANGED <<watching, moved, raw, settling, slot, opened>>

\* follow handles an event: it may await for seconds, and hears no restart.
Handle ==
    /\ pc = "serving"
    /\ pc' = "busy"
    /\ UNCHANGED <<sourceVars, opened, established, backoff>>

Handled ==
    /\ pc = "busy"
    /\ pc' = "serving"
    /\ UNCHANGED <<sourceVars, opened, established, backoff>>

\* A LOST, or a publish that failed: serve closes everything and returns.
Lost ==
    /\ pc \in {"serving", "busy"}
    /\ pc' = "waiting"
    /\ UNCHANGED <<sourceVars, opened, established, backoff>>

\* Variant: one that is reported is taken as answered already.
Postdates_None == FALSE

Postdates == slot.at > established

\* follow's restart arm: sockets newer than the change are the answer to it.
HearRestart ==
    /\ pc = "serving"
    /\ slot # Nothing
    /\ slot' = Nothing
    /\ pc' = IF Postdates THEN "waiting" ELSE "serving"
    /\ UNCHANGED <<watching, now, moved, raw, settling, opened, established, backoff>>

Doubled == IF backoff < MaxBackoff THEN backoff + 1 ELSE backoff

\* wait_to_retry: the backoff runs out,
SleepOut ==
    /\ pc = "waiting"
    /\ pc' = "connecting"
    /\ backoff' = Doubled
    /\ UNCHANGED <<sourceVars, opened, established>>

\* or a restart cuts it short.
CutShort ==
    /\ pc = "waiting"
    /\ slot # Nothing
    /\ slot' = Nothing
    /\ pc' = "connecting"
    /\ backoff' = 0
    /\ UNCHANGED <<watching, now, moved, raw, settling, opened, established>>

RestartsNext ==
    \/ Resume \/ NetworkTrigger \/ Collect \/ GoQuiet
    \/ Open \/ ReadsHousehold \/ ConnectFails \/ Establish
    \/ Handle \/ Handled \/ Lost \/ HearRestart \/ SleepOut \/ CutShort

RestartsSpec == RestartsInit /\ [][RestartsNext]_restartsVars

\* A burst ends, a handler returns, and select! does not pass a message over
\* for ever.  Nothing is assumed of Lost: the keepalive's minute and a half is
\* what restarts are there to save.
RestartsFairSpec ==
    /\ RestartsSpec
    /\ WF_restartsVars(Collect) /\ WF_restartsVars(GoQuiet)
    /\ WF_restartsVars(Handled) /\ SF_restartsVars(HearRestart)

-----------------------------------------------------------------------------

Serving == pc \in {"serving", "busy"}

\* A restart later than t is still on its way to the loop.
Underway(t) ==
    \/ slot.at > t
    \/ settling > t
    \/ \E i \in DOMAIN raw : raw[i] > t

\* Typing; nothing is stamped later than now.
RestartsTypeOK ==
    /\ watching \subseteq Watchers
    /\ now \in Nat /\ moved \in 0..now
    /\ raw \in Seq(1..now)
    /\ settling \in 0..now
    /\ slot \in {Nothing} \cup [reason : {"resumed", "network"}, at : 1..now]
    /\ pc \in {"connecting", "open", "read", "serving", "busy", "waiting"}
    /\ opened \in 0..now /\ established \in 0..now
    /\ backoff \in 0..MaxBackoff

\* A connection invalidated since it was established is never served with
\* nothing on its way to say so.  restarted's comment says as much of a burst
\* that overran the channel: "the next receive still yields a real reason, and
\* one reconnect answers all of them".
ToldOfChanges ==
    Serving /\ moved > established => Underway(established)

\* That holds where the changes come from one watcher: what overwrites a
\* restart not yet received was stamped after it.
OneWatcherTells == watching # Watchers => ToldOfChanges

\* A connection newer than the last change is never thrown away for it, however
\* late the change is reported.
FreshIsKept ==
    [][pc = "serving" /\ slot # Nothing /\ slot' = Nothing /\ pc' = "waiting"
       => moved > established]_restartsVars

\* With one watcher, an invalidated connection is dropped without waiting for
\* its keepalive.
ChangesAreAnswered ==
    Serving /\ moved > established /\ watching # Watchers ~> ~Serving
=============================================================================

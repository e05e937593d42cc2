# x2rock, specified

TLA+ specifications of x2rock: a command-line client, a daemon and a desktop
application that control a Sonos household over the local network.  The modules
here are translated from the Rust source; the source is the reference, and every
correspondence is listed with its lines in `PROJECT.json` under `map`.

- [The system](#the-system)
- [The modules](#the-modules)
- [What each run checks](#what-each-run-checks)
- [Disagreements found](#disagreements-found)
- [What is proved](#what-is-proved)
- [What is only model-checked, and what is left out](#what-is-only-model-checked-and-what-is-left-out)
- [Plan](#plan)

## The system

A household is a set of players.  Each player belongs to one group, and each
group has a coordinator, which answers for the group.  A client holds one
WebSocket per player it talks to; commands, their replies and events all travel
on it.

| Component | Source | State it keeps | Operations | Why it is hard |
|---|---|---|---|---|
| LAN connection | `src/sonos/local.rs` | replies awaited (`Pending`), the write half behind an async mutex, `alive`, `last_rx`, a one-permit `Notify` | `command`, `close`, the `read_loop` and `keepalive` tasks | callers are cancelled at any await; a socket can stop draining, fall silent, or die while somebody holds the write half; replies come late, twice, or without an id |
| Daemon event loop | `src/daemon.rs`, `src/session.rs` (`Pool`) | the published rooms, the session's groups, a pool of sockets, one forwarder task per socket, one bus | `serve`, `follow`, `publish`, `publish_group`, `connection_to`, `same_topology` | the loop awaits for seconds while it publishes, and the household goes on changing; a republish replaces bus, forwarders, sockets and rooms at once |
| Queue versions | `src/daemon.rs` (`QueueFetches`), `src/mpris.rs` | fetches in flight, groups owed one more, each room's version | `want`, `done`, `queue_version_fetch`, `apply_queue_version` | a read runs off the loop and may be stale before it is folded in |
| Restarts and the run loop | `src/restart.rs`, `src/daemon.rs` (`run`) | a debouncer, a broadcast channel of one, `established`, the backoff | the two watchers, `restarted`, `wait_to_retry` | reports come late; a fresh connection must survive the report of a change it already answers |
| Status log | `src/daemon.rs` (`StatusLog`) | last status, last line's time, a count | `note`, `reset` | sequential |
| MPRIS room state | `src/mpris.rs` | what D-Bus clients see of a room | `apply_*` | partial bodies folded in; errors that parse as statuses |
| Session, pool, discovery | `src/session.rs`, `src/discover.rs` | the primary connection, the pool | `connect`, `attach`, `discover_households`, `reach`, `close` | several branches each hold sockets that somebody must close; addresses are handed on to other households |
| Remembered state | `src/state.rs`, `src/store.rs` | the players of each network, on disk | `remember`, `save`, `forget_superseded_households` | several processes read, change and write one file |
| Terminal UI | `src/tui/action.rs` (`Speakers`) | one session, shared by writes that run concurrently | `current`, `open_and_store`, `release` | a write that fails late must not close the session that replaced its own |
| Login token | `src/sonos/login.rs` | a token file, a failed refresh and its time | `bearer`, `save_refresh_at`, `sign_out`, `save` | a refresh runs without the file's lock while others sign in or out |
| Grouping commands, scenes | `src/commands/household.rs`, `src/commands/scene.rs` | the groups as last read | `group`, `party`, `party off`, `ungroup`, `scene apply` | a request nobody answered may be carried out; another controller regroups at will; taking a coordinator away costs the rooms it leaves their queue |
| Deck runtime | `deck/src/household.rs` | wired groups and players, the sockets forwarded, a pass and its retry | `start_pass`, `wired`, `reach`, `follow_loop` | passes are aborted at any await and superseded by newer ones, and their cleanup comes later still |
| Deck lanes | `deck/src/lanes.rs` | queues, barriers, what runs | `submit`, `finished`, `start` | order across lanes and barriers; replacement of pending jobs |
| Credentials, bookmarks, stations | `src/credentials.rs`, `src/bookmarks.rs`, ... | small JSON files | load, change, save | as remembered state |
| Stored-token rereads | `src/rereads.rs` | one read per household, with its age | `reread`, `reached` | a failed read is kept for ten minutes |
| Playing, announcements, art cache, deck application | `src/play.rs`, `src/clipserve.rs`, `deck/src/art/`, `deck/src/app.rs` | per command, or a view | one exchange after another | partial failure of a sequence of requests |
| Protocol clients, catalogues, command line, service installation, widget | see `PROJECT.json` | none between calls | requests, parsing, output | - |

How they interact: a **session** owns a primary **connection** and a **pool** of
others.  The **daemon** opens a session, spawns a forwarder per socket that
copies the connection's events onto the loop's **bus**, and publishes one
**room** per group over D-Bus.  A connection that dies says so by one `LOST`
event; a **restart** is the other reason to give a session up.  A playback event
also starts a **queue-version** fetch, which answers over a channel of its own.
Every command asks the **login token** for a bearer before it is registered.
What the **terminal UI** shows comes from the rooms; what it writes goes over a
session of its own, which its writes share.  The **deck** follows the household
itself: a wiring **pass** reaches every coordinator and speaker and subscribes
them, its reports and the sockets' events meet in one loop, and what the user
does goes through the **lanes** on sockets of the same pool.

What makes each component correct:

- *Connection*: a reply reaches its own command or nobody; whatever a command's
  fate, its registration ends with it; every command ends; a socket that is shut
  down or silent is found dead, and the TCP connection really closes.
- *Event loop*: what is published is the household as it is; a published room's
  death, or the primary's, is heard; a member's is not a reason to start over,
  nor is the `LOST` of a socket the loop itself closed.
- *Queue versions*: no event is lost because a read was already out; versions
  never go back.
- *Restarts*: a connection newer than a change is kept, one older is given up.
- *Session and pool*: the session is of the household that was asked for;
  whoever gives up a socket closes it, and nobody closes another's session.
- *Remembered state*: a household is forgotten only on evidence.
- *Login token*: the file holds the sign-in in force; a caller is given what the
  file held; the endpoint is asked about a token once.
- *Grouping and scenes*: a success means the household is as asked; what already
  is as it should be is left alone; queues survive what promises to spare them.
- *Deck runtime*: what counts as wired is subscribed; what is shown is current;
  everything is wired in the end.
- *Lanes*: two jobs of one lane run in the order sent, a barrier separates what
  came before it from what came after, nothing unnamed is dropped.

## The modules

| Module | Models | Notes |
|---|---|---|
| `Connection` | `local.rs` | one action per await of `command`, of the reader and of the keepalive |
| `MCConnection` | | two commands, one answered without its id |
| `ConnectionProofs` | | theorems about `Connection` |
| `QueueFetches` | `QueueFetches` and the two arms of `follow` that use it | |
| `MCQueueFetches` | | two groups, two fetch tasks |
| `Restarts` | `restart.rs`, `run`, `wait_to_retry`, `restarted` | run as it is, without an MC module |
| `DaemonLoopProofs` | | theorems about `QueueFetches` and `Restarts` |
| `DaemonFollow` | `serve`, `follow`, `publish`, `publish_group`, `connection_to`, `same_topology`, the forwarders | composes sockets, forwarders, bus and loop |
| `DaemonFollowProofs` | | theorems about `DaemonFollow` |
| `MCDaemonFollow` | | three players, three groupings |
| `Lanes` | `deck/src/lanes.rs`: the ordering and the task that drives it | implements `LaneOrder` |
| `LaneOrder` | what the lanes promise (their module comment and tests) | abstract: no queues, no epochs |
| `MCLanes` | | seven commands, two lanes, two barriers |
| `LanesProofs` | | theorems about `Lanes` |
| `DeckWiring` | `deck/src/household.rs`: the loop, the wiring pass, the retry, the forwarders | composes sockets, pass, channels and loop |
| `MCDeckWiring` | | one room under two groups and none; the session on a hidden speaker |
| `DeckWiringProofs` | | theorems about `DeckWiring` |
| `Connect` | `connect`, `attach`, `discover_households`, `resolve_household`; `state.rs` | no `Next` of its own: `Sessions` takes its actions |
| `Sessions` | `Speakers` of the terminal UI, `Pool` | composes concurrent writes with one `Connect` |
| `MCSessions` | | two households, three addresses, two writes |
| `SessionsProofs` | | theorems about `Connect` and `Sessions` |
| `Grouping` | `change_group`, `group`, `party`, `party off`, `ungroup`; the household itself (external) | no `Next` of its own |
| `Scenes` | `scene apply` (`next_step`, levels, mutes, soundtracks) | composes `Grouping` with `apply` |
| `MCScenes` | | three rooms, ten commands, three of them scenes |
| `ScenesProofs` | | theorems about `Scenes` and `Grouping` |
| `SignIn` | `login.rs`: `bearer`, refresh and commit, sign-in, sign-out; the lock of `store.rs` | |
| `MCSignIn` | | a daemon with two callers, a command, a person |
| `SignInProofs` | | theorems about `SignIn` |

### Connection

`pc[c]` is where the future of command `c` stands: `signing` is the await of
`login::bearer`, `registered` has its place in `Pending`, `queued` is in the
line for the write half, `writing` is inside `sink.send`, `waiting` awaits its
oneshot.  `byId` and `order` are the two halves of `Pending`; `got` is the
oneshot, holding *which command the player was answering*, so that a misrouted
reply can be seen.  `line` is the FIFO of `tokio::sync::Mutex`, with its holder
at the head.  `sink` is `Inner.sink` (`taken` is `None`), `permit` the stored
permit of `Inner.shutdown`.  `Cancel` drops a command's future at any await;
the drop of `Registered` runs with it.

The player answers any command it was written, in any order unless `InOrder`,
again if the reply carries its id, or never.  `GoSilent` is the half-open socket
a suspend leaves: writes go on succeeding.  The five-second deadline covers
lock, write and reply and all users of the lock have the same one, so the model
lets a wait for the lock end only at its head; the comment at the top of the
module gives the argument.

### QueueFetches

`truth` is a queue's real `UpdateID`, a number that only grows; `heard` its
value at the last playback event; `shown` what the room publishes.  A task reads
`truth` at one instant and answers at another.  `Republish` replaces rooms and
bus; fetches out keep running, as they do in the code.

### Restarts

Time is the order of the stamps.  `moved` is the instant the connections were
last invalidated, which nothing in the program knows; `raw` and `settling` are
the debouncer, `slot` the broadcast channel of one, in which a newer message
overwrites an unread one.  `opened` and `established` are the two instants
between which the code reads the household.  `watching` says which watchers
could be set up: each is optional in the code.

### DaemonFollow

`pc` is the loop: `connect`, `subscribe`, then for each group `publish` (its
coordinator is reached), `seed` (its reads), `members` (each member is reached),
back to `publish`, and `select` when all are done; `closing` is the await of
`close_all` inside a republish; `down` is an error on its way to `run`.  `feed`
is the primary's forwarder and what it has not read; `fwd` the other forwarders;
`bus` the loop's channel; `rooms` the published players, each marked with
whether the socket it was built on still lives.  `stale` says that an aborted
forwarder may still be in the middle of a poll.  `dropped` is a history variable:
the kinds of primary event that were queued on a bus or a forwarder that a
republish threw away.

### Lanes

`queue`, `running`, `barriers`, `barrier`, `sent`, `passed` and `next` are the
fields of the struct `Lanes`; a lane that the code removes from its map is one
with an empty queue and nothing running.  `StartFrom` is `Lanes::start`, given the
lanes as `submit` or `finished` has left them; `tasks` are the spawned tasks with
their tickets.  `Join` is the end of a task and its handling together: until the
driver joins it, nobody can tell an ended task from a running one.  Which lane a
command takes and what it sets are constants, so the model covers every
assignment `household.rs` could make.

`LaneOrder` knows only places: a job runs as soon as, and not before, every
earlier job it conflicts with is over, and a newer value takes the place of one
that waits.  `KeepsTheOrder` maps a job's place to its ticket.

### DeckWiring

`work[p][i]` is where item `i` of pass `p` stands (a group or a speaker): `reach`
is the lookup of its socket in the pool, `opening` the connect, `read` its reads,
`register` the report of a group that was read, `subscribe` the stretch in which
its `Unregister` guard is armed, `report` the report of a speaker.  A player whose
volume cannot be read goes on without it (`ReadFails`).  The primary's own address
always gives the primary's connection, alive or not.

A newer pass replaces the one that runs (`StartPass`).  `abort()` takes hold at the
next await only: a pass that another worker is polling becomes the *aborted* one,
which carries an item on, reports, and comes to its end, until its last poll is
over (`LastPollEnds`).  What is dropped turns its armed guards into `guards`, which
drop later, on their own thread (`GuardDrops`), and send a report as any other.

`wire` and `events` are the loop's two channels.  The biased `select!` polls them one
after the other, the reports first, and either may be filled between the two
polls: an event (or the retry, which is polled after both) may be taken
while a report waits that came since, when a worker is held up that long
(`HeldUp`; a bounded number of times).  A report that the last arm left waiting is
there before the next poll, and goes first (`reportsFirst`).  An event that is
taken ahead of the registration it belongs to is dropped by `apply`; `overtaken`
records it until the group's next event.

`regGroups`, `regPlayers`, `forwarded` are the fields of `Wiring`, `retry` those of
`Retry`, and `known` is what the deck shows.  `status` is `looking` from the loss
of a socket that matters to the next session.  A socket carries an `epoch`, so
that an item which reached one and awaits on it notices that it was replaced.

`LaneReaches` is a command that opens a socket between the death of the old one
and the loop's reading of its `LOST`: the address still counts as forwarded, so
the new socket has no forwarder.  What such a socket would have pushed is
collected in the history variable `deaf`, which the properties leave out (see
[Disagreements found](#disagreements-found)).  `deaf` holds pairs of an item and a
speaker: a group may go to another coordinator and come back, and what the first
one's socket did not bring is still unknown then.

Left out: durations (a retry that is due may start at any time), the task that
searches for speakers, bonds and home-theater values, a speaker's change of
address, held reads.

### Connect and Sessions

`call` is the connect under way: `attach` tries the remembered addresses,
`groups` and `id` are its two reads on an open socket, `fetch` the reads of
`discover_households` over the sockets the scan left open, `ok` and `err` what it
came to.  `file` is `networks.json` on this network, `call.mem` this process's
copy, `other` a second process.  `open` is every primary socket that is open.
`held` is `Speakers`' slot with its generation, and `sessions[n]` the session of
connect `n` with its pool; `write[w]` is one write of the screen: it joins or
starts the connect, refreshes the groups on the primary, reaches the player it is
for, and acts.

History variables: `stale` (a process's copy of the file is older than the
file), `faulted` (an early return of `attach` or `discover_households` was
taken), `blamed` (a write that ran on the session found it severed), `wanted` (the
household asked for).  `scan` and `mute` are the world's: who answers, and who
answers without naming a household.

`open_and_store` provides for a session that was stored while it connected
(`Discards`): it keeps that one and closes its own.  `Arrives` has both branches;
`OneSession` is why the first is never taken.

An address with an open primary does not move.  Left out: `--ip`, an
unidentified network, which room a command means (the selector gives the
households that have a room of that name), stored groups.  A write on a session
that another write has closed may put a socket into its pool that nobody closes;
that is in the model and no property claims otherwise.

### Grouping and Scenes

`house` maps each room to its group's coordinator, which also names the group.
`known` is the groups the command goes by: the session's for the commands, its own
last read for `apply`.  `ask` is the `modifyGroupMembers` under way.  It may be
carried out and answered, refused, or not answered; then it may have been carried
out, be carried out later (`late`) or never.  The command reads the groups again
and believes those (`confirmed`).  How players react (`Modified`) is external and
comes from the description of the local API in `docs/architecture.md`.

History variables: `disturbed` (another controller regrouped since `known` was
read), `robbed` (a change of this command took a coordinator out of its group
and cost the rooms it left their queue), `stray` (a soundtrack was started in
other rooms than its group's).

`Present` keeps each player of a scene group once, as `present` does, and finds it as
`find_room` does: by the room's id, or else the first player of its name (case is
not modelled).  So two groups of one scene may come to the same player once a room
was added again, renamed, or saved in another household; the groups then pull it
to and fro, and `apply` reports the scene applied without a note, since each group
is judged right after it was built.  What is claimed of applied scenes is claimed
of those whose groups come to different players (`Apart`); the third scene of
`MCScenes` is one of the others.

A room has a level or has none.  A level that is set unmutes; one that fails or is
not answered is noted (`unlevelled`), and may be set all the same after `apply` has
gone on to the mutes (`LevelSetLate`).  A mute that is noted may have been carried
out or not.

`listed` are the players the topology has: a group may hold others, whom `party`
does not gather, and `party off` passes over a group whose coordinator is not
listed, with a note.

Left out: the reading, saving and deleting of scenes, levels beyond their being
set, a session whose player answers with groups older than the change, and what
the household does once the command has ended.

### SignIn

`file` is the token on disk; a token is a sign-in (`grant`) and a serial.  `mutex`
is `REFRESH` of each process, `lock` the lock file of `store.rs`, which only
writers take.  A caller's `waiting` is the wait for the mutex, `refreshing` the
request, `saving` the wait for the lock, `committing` the write after the
comparison.  A person runs `x2rock login` or `logout`; both may fail or be killed
before their rename or removal.  `Crash` kills a process at any point.  `IsDropped`
is the end of a caller's future at an await, as `Connection.Cancel` is at `signing`:
at the mutex, or with the request out, which frees the mutex and leaves `failed`
unset.

Ghosts: `signedIn` (the sign-in in force), `asked` (tokens a process has no
reason to ask about again), `seen` (what the file has held since a call began).
Left out: the pending sign-in kept between two runs of `x2rock login`.

## What each run checks

| Run | Bounds | Question |
|---|---|---|
| `connection` | two commands, one untagged; a silence limit of one tick | every safety and liveness property of a connection |
| `queue_fetches` | two groups, two tasks, versions to 2, one republish | is every event answered, and in order? |
| `restarts` | seven stamped instants, two doublings | is a fresh connection kept, an old one dropped? |
| `daemon_follow` | three players, three groupings, two regroupings, two losses or restarts | is what is published what there is, and is every loss that matters heard? |
| `daemon_follow_lost` | the same | ... also the primary's loss? (no) |
| `lanes` | two lanes, two values of one setting, a toggle, two barriers, a read; one job in the channel at a time | do queues and epochs keep the order promised, and does everything sent run? |
| `deck_wiring` | one room as the coordinator of two groups in turn, or gone; the primary apart; two turns (a regrouping, a change, a death, a command's socket), one delay | does the wiring survive aborted passes, late cleanup and lost sockets? |
| `deck_volume` | the same | is the volume shown the one there is? (no) |
| `sessions` | two writes, two connects, two households, three addresses, two faults or moves | whose session is it, what stays open, who closes what, what is forgotten? |
| `scenes` | three rooms in every arrangement, all listed or all but one; ten commands (three of them scenes), one late request | what does a success mean, and what does a command cost? |
| `scenes_queues` | the same | does applying a scene spare every queue? (no) |
| `sign_in` | a process with two callers, one with one, a person; three tokens; any number of crashes, failures and dropped callers | is a sign-in ever brought back, and the endpoint asked too often? |

The properties, by run:

- `connection`.  `RegisteredWhileOutstanding` (a registration lives
  exactly as long as the command that made it, in both halves of `Pending`);
  `TaggedReplyIsOwn`; `ReaderGoneSocketDown` (the reader's exit takes the write
  half, and with it every write); `EveryCommandEnds`; `SilenceIsNoticed`;
  `ShutdownIsHeeded` (a permit is never lost, whatever the reader is doing).
- `queue_fetches`.  `SettledIsCurrent` (with nothing left to handle a room shows
  at least the version of the last event, unless its last read failed);
  `NeverRegresses`; `EventuallyCurrent`.
- `restarts`.  `OneWatcherTells` (a connection invalidated since it
  was established has a later restart on its way); `FreshIsKept` (the loop never
  throws away a connection newer than the last change); `ChangesAreAnswered`.
- `daemon_follow`.  `NoStaleTeardown` (LOST on the bus means that a socket the
  household stands on has died); `DeadRoomsAreKnown` (a published room on a dead
  socket has a LOST under way); `SettledIsPublished`; `PrimaryLossIsRecovered`;
  `DeadRoomsAreReplaced` (no room stays published on a dead socket, unless the
  primary's LOST was dropped).
- `lanes`.  `BarrierRunsAlone`; `LastValueWins` (once a setting is at
  rest, the value done last is the value sent last); `ReturnsWithNothingLeft`;
  `EveryJobIsServed`; `KeepsTheOrder` (`Lanes` implements `LaneOrder`: nothing
  starts early, and nothing that could start waits).
- `deck_wiring`.  `WiredIsSubscribed` (a registration without its
  subscription has something on its way that undoes it); `HeardRoomsAreCurrent`
  (when all is quiet a group shows the state its coordinator has, unless its last
  event overtook its registration); `EverythingIsWired` (again and again, whatever
  was lost).
- `sessions`.  `OneSession` (a living session is the one held, and no connect runs
  beside it); `RightHousehold`; `NothingLeftOpen`;
  `OnlyTheFailedIsClosed` (a late failure spares the session that replaced its
  own); `ForgottenOnEvidence` (a household leaves the file only when every address
  this process remembers of it has answered for another).  It speaks of what is
  remembered, not of what the file has: a save that fails leaves in memory what
  the file did not get, the player may then move, and the next scan judges by the
  memory.
- `scenes`.  `TypeOK`; `AppliedIsTheScene` (every group stands, with the mute it was
  saved with unless the mute or a level of it is noted, and music started in its
  rooms only); `DoneIsThere`; `QueuesAreKept`
  (taking rooms apart, and gathering all of them undisturbed, costs nobody a
  queue); `OnlyWhatDiffers`; `EveryCommandReturns` (although another controller
  undoes every change).
- `sign_in`.  `SignInOfTheFile` (a refresh that was out while somebody signed out
  or in neither restores the old sign-in nor overwrites the new one);
  `AnswersWereHeld`; `AsksOncePerToken` (nobody asks about a token whose request is
  out, has failed within the retry interval, or ended in a grant; a token whose
  asker was dropped or killed may be asked about again at once).

Every module with a theorem has its `TypeOK` proved; the run of `Scenes`, whose
`TypeOK` bounds the changes a scene may take, checks it as well, the others do not
repeat it.

**Bounds.** Two commands suffice for each interference that `Connection` has: a
holder and a waiter of the write half, an untagged reply and a command it is not
meant for; three commands were checked for the safety properties and show
nothing more. A silence limit of one tick has the same three cases as the code's
three ticks (below, at, and not yet). In `QueueFetches` groups meet only at the
loop and the republish, so two are enough, and one republish with two versions
gives a fetch that outlives its room. Seven instants in `Restarts` are a
connection, a burst of three triggers, a resume between them, and a
reconnection. Two regroupings in `DaemonFollow` are the least that queue one
behind another; two losses the least that kill a coordinator's socket and its
replacement. In `Lanes` two values and a toggle are a value that waits behind
another job, two barriers a value on each side of one that waits; a longer
channel only delays jobs, since the driver takes them one at a time, and jobs
that are alike are sent in one order. In `DeckWiring` two turns are the least in
which a regrouping aborts a pass that a death has already upset, and one delay the
least that lets an event overtake a registration or a pass outlive its abort;
failures of reads and reports, guards that drop late and pings that fail are not
counted.  One room stands for all of them, for rooms meet only in the loop's
channels and in the order of a pass, and it brings two groups there; the primary
is a speaker no topology lists, as the hidden half of a pair is, so that the
room's socket is one the pool opens.  An aborted pass carries one item on, and one
such pass is under way at a time.
Two connects and two writes in `Sessions` are a session, its replacement, and a
write that still runs on the first; two turns a fault and a move, or another
process's load and a move. A failed save, a move and a silent address take three
turns: they were checked with one connect, and nothing more shows. Three rooms in `Scenes` have every shape of one step (a
coordinator to take out, rooms to add and to remove at once); one late request
is the least that lands behind a command's own second read. In `SignIn` two
callers share a mutex, the third process shares only the file, and three tokens
are a first sign-in, a refresh of it and a second sign-in. `CHECK_DEADLOCK FALSE` is
set in every run but `sign_in`, because a bounded household may simply stop
changing, and an idle loop waits for ever.

**Fairness.**  A runtime's task that is ready runs (weak fairness on a task's
own steps), and a timer fires.  Nothing is owed by a player, a queue, a network
or a caller: no fairness on replies, on writes succeeding, on `Read`s that
connect, on events or on cancellation.  Strong fairness is used for
`tokio::select!` branches that are ready again and again while another branch is
taken (`SeeShutdown`, `HearRestart`): `select!` chooses at random among the
ready branches.  In `DaemonFollow`, the loop, the primary's forwarder and
the other forwarders are weakly fair, being tasks.  In `Lanes` the driver
is weakly fair and, while tasks run, some task ends: the exchanges a command
makes have deadlines of their own (`EveryCommandEnds`).  In `DeckWiring` the runtime
is weakly fair as a whole, in no order between its tasks but one: a retry, which is
at least two seconds away, starts when the loop finds no report and no event
waiting, or was held up.  `Recovery` is weakly fair: a ping to a dead socket times
out, and a speaker that was unplugged is plugged in again; without the last nothing
could be wired.  In
`Scenes` the command runs: each of its requests has a timeout.  `Sessions` and
`SignIn` claim no liveness and assume no fairness.

## Disagreements found

Each of the first three is a run in which TLC finds the quoted claim violated.

1. `daemon_follow_lost` - the primary's `LOST`, queued behind a groups event on a
   bus that the republish throws away, or sent between the abort of its forwarder
   and the new one's first receive, reaches nobody.  The loop then waits on a
   primary that will never speak; if no group is coordinated by it, nothing else
   fails.
2. `deck_volume` - a pass reads a speaker's volume, subscribes it, awaits more
   reads, and reports the volume it read first; the report overwrites what the
   subscription pushed in between, and nothing reads again
   (`deck/src/household.rs:1054`, `1123`).  For groups the order is the other way
   round, and `HeardRoomsAreCurrent` holds but for the case named below.
3. `scenes_queues` - `next_step` adds a missing room whether or not it
   coordinates another group (`scene.rs:177`), so the rooms it leaves lose their
   queue; `scene.rs:13` and `docs/architecture.md:339` say applying never does
   that.

These were met while modelling and are stated here without a run of their own;
the models contain the behaviour, and where a property would meet it, the
property says so:

- A write that passes its deadline leaves a shutdown permit and releases the
  write half.  A command queued behind it writes next on the same socket, before
  the reader takes the permit.  The comment at `local.rs:379` says nothing more can
  be sent on it.
- With both watchers, the channel of one keeps the restart *sent* last.  A
  network change stamped before a resume can be sent after it (the debouncer
  waits two seconds), overwrite it, and be ignored as older than the connection.
  The comment at `daemon.rs:318` says one receive answers the burst.  The keepalive
  finds the dead sockets a minute and a half later.  `OneWatcherTells` claims what
  its name says.
- Two groups events queued on the daemon's bus: the first causes a republish,
  which replaces the bus and drops the second (`daemon.rs:404`).  The daemon stays at
  a grouping the household has left until the next groups event.
  `SettledIsPublished` exempts it.
- "Whenever such an event is waiting, so is the registration", says the comment at
  `deck/src/household.rs:1243` of a group's first events.  The `select!` is biased, but
  it polls the two channels one after the other, and the pass runs on another
  worker: the registration and the event may both come after the poll of the
  reports and before that of the events.  The event is then dropped, for the group
  is not registered, and what was read before it stands until the next one.
  `HeardRoomsAreCurrent` leaves it out (`overtaken`); without that TLC finds it.
- "A level being set unmutes, and a group saved muted should come back muted", says
  the comment at `scene.rs:574`, and the mute is set after the levels.  A level that
  is not answered in time is only noted, and may be set after the mute and unmute
  the room; nothing but "volume not set" tells.  `AppliedIsTheScene` allows for it.
- `docs/architecture.md:1018` says "one refresh runs per process at a time, with a
  60-second cooldown after a failure".  A caller that is dropped with its refresh
  out (its command was cancelled or hit its deadline) leaves no failure behind, and
  the next one asks about the same token at once.  `AsksOncePerToken` allows for it.
- A socket the deck's lanes open while the address still counts as forwarded has
  no forwarder until the next loss (`deck/src/household.rs:845`).
- A write on a session that another write has closed opens a socket in its pool
  after the pool was drained (`session.rs:109`), against what `session.rs:58` says.
- `attach` and `discover_households` return early when the household id, or the
  state file, fails them, with sockets open (`session.rs:154`, `445`).
- `state.rs` loads, changes and saves without a lock: the second of two saves
  drops what the first remembered (`state.rs:44`).  `ForgottenOnEvidence` exempts it.
- A group whose seed failed leaves its coordinator's forwarder in place on fatal
  terms, so a player that dies while it is being published tears the household
  down even when the next snapshot no longer lists it.  This contradicts no claim;
  `NoStaleTeardown` allows for it.

## What is proved

Proofs are checked by TLAPS for every value of the constants; the assumptions are
the `ASSUME`s of the modules (bounds are naturals, `Failed` is no version), which
TLC evaluates on each run's constants.

**`ConnectionProofs`**, for any number of commands: `TypeCorrect`,
`RegistrationsTracked` (`RegisteredWhileOutstanding`), `RepliesOwned`
(`TaggedReplyIsOwn`) and `GoneMeansDown` (`ReaderGoneSocketDown`).  Types are not
inductive alone: a command that leaves the write half must have been at the head
of its line (`WritersHold`).  A registration is given up for good because no
command stands twice in the queue (`Distinct`).  The reader takes the write half
while it holds it, so no command can be writing (`ReaderTakesSink`).  The lemmas
say what `Without`, `Append` and a suffix do to a queue.

**`LanesProofs`**, for any jobs, lanes, settings and barriers: `TypeCorrect`,
`BarrierAlone` (`BarrierRunsAlone`) and `NothingLeft` (`ReturnsWithNothingLeft`).
`start` looks only at the front of each lane; `Sound` says why that is enough (a
queue's epochs are in order and none is behind the barriers passed, and the three
counts of barriers agree) and holds in the middle of an operation, so that one
lemma, `StartSound`, serves `submit` and `finished`.  `Busy` says that nothing that
could start is left waiting; without it the driver could return with jobs queued.

`LanesKeepTheOrder` (`KeepsTheOrder`) shows that `Lanes` implements `LaneOrder`: a
job sent, taken or ended is a step of the order, or none of it.  It needs a second
inductive invariant, `OInv`: no ticket is held twice; in a lane tickets grow, and
a place's epoch compares with a barrier's number (how many were sent before it) as
its ticket does with the barrier's; what runs sits in its lane; and a job holds a
ticket exactly while it is `taken`.  From it, a place is held up in the
queues (`Blocked`) when and only when an earlier place it conflicts with is left, so
what the code starts is what `LaneOrder` settles to (`StartTakes`, `SettledRead`).
`LastWins` (`LastValueWins`) adds `VInv`: two waiting values for one thing have a
barrier between them, and the value sent last is behind every other one in the
channel, or has the later ticket.  A value that replaces another takes its *earlier*
ticket; it is still last, because that place was given since the last barrier, and
any other value waiting for the same thing was sent before one.

Both use `KindsAssumption`: only jobs on a lane set a value, as `order` gives them
(`deck/src/household.rs:1351`: reads and barriers carry none).

**`DaemonLoopProofs`** is about two modules.  On `QueueFetches`, for any groups and
any number of fetch tasks: `TypeCorrect`, `FetchesTracked` (`OneFetchPerGroup`), `SettledCorrect`
(`SettledIsCurrent`) and `NoRegress` (`NeverRegresses`).  The inductive invariant
is `IInv`.  `OneFetchPerGroup` is inductive by itself (`WantTracks` says it of the
bookkeeping in the middle of `Done`, between an answer's `done` and the `want` it
owes), but `SettledIsCurrent` is not: an answer under way could carry anything.
`AnswersAreCurrent` says what it is worth: no older than what its room shows,
and, unless an event has come since, no older than what the last event spoke of.
`OneFetchPerGroup` is what makes that survive the fold of another answer: there
is none for the same group.  `NeverRegresses` follows from the same invariant.

On `Restarts`, for any cap of the backoff and runs of any length:
`RestartsTyped`; `FreshKept` (`FreshIsKept`), from `NothingAhead` - whatever is
queued, settling or sent is stamped no later than the last change - with both
watchers; `OneWatcherIsTold` (`OneWatcherTells`), from `OneSource`: with one
watcher, a connection served past a change has *that* change, not merely some
change, at the end of the debouncer's queue, as its stamp, or in the channel with
the debouncer idle.  The weaker "some later restart is under way" is not
inductive, since the debouncer replaces one stamp by another, and with both
watchers `OneSource` fails: see the one-slot channel above.

**`DaemonFollowProofs`**, for any players, groupings in which a player is in one
group, and number of regroupings and losses: `TypeCorrect`;
`SettledPublished` (`SettledIsPublished`), `NoTeardownForNothing`
(`NoStaleTeardown`) and `DeadRoomsKnown` (`DeadRoomsAreKnown`).  The first follows
from `Shape` (each group of the snapshot is yet to be taken, in hand, published or
given up) and `UpToDate` (what is still to be heard ends with the household as it
is).  The other two say that losses and reports of losses match, and neither is
inductive: a room on a live socket must have a forwarder on fatal terms that will
report it (`RoomsReported`), and a forwarder on fatal terms must be of a
coordinator the household stands on (`ForwardersStand`).  That holds only because
a coordinator yet to be taken has no socket (`Unreached`): a member's forwarder,
whose loss is tolerated, can then never come to stand for a coordinator.  It is
where a player in two groups would break the code, and where the assumption that
a player is in one group is used.

**`SignInProofs`**, for any processes, callers, people and number of tokens:
`TypeCorrect`; `RefreshNeverOutlivesSignIn` (`SignInOfTheFile`), because whoever is
between the comparison and the write holds the lock and the file still holds what
was compared (`LockStep`); `AnswersAreFromTheFile` (`AnswersWereHeld`), from
`SeenInv`: while a call is under way the file's present token has been seen by it;
`RefreshesAreCoalesced` (`AsksOncePerToken`), which callers that are dropped at any
await leave true, from three lemmas: a caller holds its
process's mutex exactly while it refreshes or saves (`MutexStep`), a token got and
not yet on disk is nobody else's and was never asked about (`PendingStep`), and a
token that was asked about is on disk only while its refresh is under way or has
just failed (`AskedStep`).

**`DeckWiringProofs`**, for any groups, speakers, topologies and numbers of turns and
delays: `TypeCorrect`, `WiredSubscribed` (`WiredIsSubscribed`) and `RoomsCurrent`
(`HeardRoomsAreCurrent`).  `Typed` adds to the types that an item under way is at a
speaker and that a version costs a turn; the assumption that `Nobody` is no speaker
is used there.  `Sound` says that a dead socket has no subscriptions and its loss is
the last it sends (`SocketsSound`), that no item outlives its pass
(`ItemsHaveAPass`), and that nothing of a session is left between two
(`NothingBetween`).

`Owed` is about a group and a speaker it may be counted as wired at.  Either it is
`Subscribed` there, or the loss of the socket is on its way, or it is `Undone`: its
guard is armed, in the pass that runs or the aborted one, or still to drop, or its
failure is reported.  `WiredOwed` says so of a group counted as wired, and
`RegisteredOwed` of every report that would register it, with a failure counted
only if it comes *later* than that report.  The second is what makes the first
inductive: guards drop late, so a pass that was aborted may take off the list what a
newer one has just put on it, and never the other way round.  `ReportGoesFirst` says
why the loss of a socket is not taken in before a registration that it would have
to undo: the loss comes behind the group's first event, and once the loop has
gone round for that event, the report goes first.  What the queue of reports comes
to is the recursive function `After`; `AfterAll` says how it is typed and what it
keeps.

`HeardSound` (for `RoomsCurrent`) is about a group that is subscribed on a socket which
has brought everything so far: the last event from there carries the state of
now, and with no event on its way, and none that has overtaken its registration, the
last registration does, and what is shown.
It rests on the order in which a group is wired: its reads are reported before it
is subscribed, and the subscription pushes the state there is, so the push is
behind the read.  A speaker is subscribed first and reported afterwards, and the
claim is false of it (`deck_volume`).

**`ScenesProofs`**, for any rooms, names, commands, scenes and number of late requests:

- `TypeCorrect` (`TypeOK`).
- `QueuesSurvive` (`QueuesAreKept`).  `AskInv` says what is ever asked, now or late:
  `party off` and `ungroup` ask a coordinator to remove others and never itself, so
  who stays keeps it in any household the request meets (`TakingApart`); `party`,
  while nobody else regroups, asks once, of the household as it is, and gathers
  every room, if every room is listed, so nobody is left behind to lose a queue
  (`Gathering`).
- `ScenesAreApplied` (`AppliedIsTheScene`) and `StandingGroupsAreKept`
  (`OnlyWhatDiffers`), from `ApplyInv`: while nobody else regroups, apply plans on the
  household as it is (`PlansOnFact`), what it asks is the next step of the group in
  hand (`AsksNextStep`), and the groups done stand (`InPlace`).  That a scene is
  reached at all is a count: each step leaves fewer strangers to detach or rooms to
  add (`StepTaken`), so the tries allowed are enough (`EnoughTries`).
  `StepSparesOthers` says that a step takes apart no group of the scene that
  already stands, which is where groups of different players (`Apart`) are needed.
  `PresentIs` says what `present` makes of a group's rooms, by id or by name.  A late request
  is the one not answered yet, or what it would do is done already (`LateIsSpent`),
  and a request that is spent changes nothing (`SpentChangesNothing`).  A group whose
  mute was set stays muted but for rooms noted as without their level (`MutesSet`),
  which is what late levels leave true (`LateLevelKeepsPlan`).
- `CommandsAreCarriedOut` (`DoneIsThere`), from `DoneInv`, which says for `group` and
  `party`, for `ungroup` and for `party off` what the request in hand, answered or not,
  leads to.

**`SessionsProofs`**, for any writes, selectors, households and number of connects,
and any finite set of addresses: `TypeCorrect`; `WritesShareOneSession`
(`OneSession`); `FailuresCloseTheirOwn` (`OnlyTheFailedIsClosed`), from
`GenerationInv`: a write of the held generation runs on the held session;
`SessionsAreOfTheirHousehold` (`RightHousehold`), from `FoundInv`: a connect that
succeeds has the household that was wanted; `ConnectsCloseTheRest`
(`NothingLeftOpen`), from `OpenInv` and `FetchInv`: while a connect runs, its sockets
are those of `conns` and `found` or the address in hand, and `found` has one for each
household.  `HouseholdsAreForgottenOnEvidence` (`ForgottenOnEvidence`) has two
invariants: what answered when its socket was opened still answers (`SocketInv`, since
an address in use does not move), so a household that is discovered or attached has
a member to remember; and a copy that nobody saved over knows every household the
file knows (`CopiesInv`), so that a save drops only what `Superseded` names.  No
connect runs while a session is held (`Alone`, which is inductive
with the types); so `open_and_store` never finds one stored before its own, every
step is one of `Step`, and the other proofs are about `Step`.

## What is only model-checked, and what is left out

Liveness (`EveryCommandEnds`, `SilenceIsNoticed`, `ShutdownIsHeeded`,
`EveryJobIsServed`, `EventuallyCurrent`, `ChangesAreAnswered`, `PrimaryLossIsRecovered`,
`DeadRoomsAreReplaced`, `EverythingIsWired`, `EveryCommandReturns`) is checked by TLC only:
the prover does not handle fairness.  Every safety invariant and action property
that a passing run checks is a theorem as well.  The three violations are TLC's
alone: they are counterexamples, and an instance is enough.

### Not modelled

Inside modelled components: the TLS and WebSocket handshakes; the
parsing of frames; the UPnP switch and the volume and home-theater fan-out of
`follow`; a forwarder that lags behind its broadcast channel; the names and
addresses of players in the daemon (a rename is a regrouping with the same
shape); how the network watcher tells a change from an announcement; and what
the module sections above name.

Most of the repository by lines keeps no state between two calls, or is a
view: the UPnP and SMAPI clients, the catalogues, the command line, the services'
commands, the deck's screens and layout, the terminal UI's drawing.  They build
and parse messages, or draw; a model of them would restate them line by line, and
their tests already reach what can go wrong.  The status log is a
sequential coalescer, the rereads one cached read behind one mutex, the small
files repeat the protocol `SignIn` models.  `PROJECT.json` gives for each
component the reason it is left out, and for each hazard no property covers, why.

## Plan

Done: `Connection`, `QueueFetches`, `Restarts`, `DaemonFollow` (the daemon's core);
`Lanes` with `LaneOrder`; `SignIn` (the token file); `DeckWiring` (the deck's
runtime); `Connect` and `Sessions` (sessions, pool, state file); `Grouping` and
`Scenes`.

What is left, in this order:

1. The composition of the deck's lanes with its wiring (a command's socket and
   the pass's are the same pool, of which `LaneReaches` is the least part).
2. Pure algorithms against reference definitions: the backoff and `StatusLog`,
   the enqueue fallbacks.

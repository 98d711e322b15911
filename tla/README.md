# A verification project for dun

dun is a coding agent. A conversation (a *session*) is run by an engine
process, `dun -p`, which reads commands on stdin and writes events on stdout,
one JSON frame per line. A daemon, `dund`, keeps the sessions: it starts, stops
and restarts their engines, numbers and keeps their events, and serves them to
any number of clients (the terminal UI, the phone app, a web page), which come,
lose their connection, and resume.

The modules here model the parts of dun whose correctness is a matter of order:
what happens when a client, a timer, an engine and the service meet between two
steps. TLC checks them on small instances; TLAPS proves every safety property of the
twelve runs, and one refinement, for every size.

Contents: [the system](#1-the-system), [the modules](#2-the-modules),
[the runs](#3-the-runs), [the proofs](#4-the-proofs),
[what the models leave out](#5-abstractions),
[where the code and its docs differ](#6-known-deviations),
[the plan](#7-the-plan).

## 1. The system

Paths are relative to `src/`. "hard" is the behaviour that tests hardly reach.

**Event log** (`proto/log.go`). State: a ring of the last `ringCap` events, a
seq that never goes back, the newest event of each state type, and a bounded
channel per subscriber. Operations: Append, Subscribe(after), Close, reading a
channel. Hard: an append that meets a full channel ends that subscription; a
subscribe at the edge of what the ring still holds. Correct when a subscription
delivers every event after its replay once and in order or is ended at a place
it can resume from, a replay is exactly what was asked for, and the kept state
is the newest.

**Following a session** (`internal/dund/session.go` subscribe, `service.go`
Stream, `server.go` subscribe; clients `mobile/src/api/live.ts`,
`internal/tui/attach.go`, `internal/dundapi/subscribe.go`). State: the client's
cursor (epoch, seq) and what it shows. Operations: ask with the cursor, get a
replay or a snapshot, live events, a drop, a lost connection, a service that
restarts and numbers from 1. Hard: a snapshot is put together from several
reads of a log that grows in between; a cursor of an earlier epoch. Correct when
a client never misses or repeats an event except by a snapshot that moves it
forward with state at least as new, and catches up.

**Session and engine lifecycle** (`session.go`, `service.go`, `engine.go`).
State per session: the engine pointer, stopping, the restart count and window,
the launch flags, persist, whether the engine is in a turn. Operations: create,
send, subscribe, stop, leave, restart, set-persist, forget, the idle reap, Close,
an engine's exit and the delayed automatic restart. Hard: all of them run on
goroutines of their own, under three locks of small scope, and a start may fail.
Correct when a session never has two engines, a crashed engine comes back, or its
clients are told that it does not, unless asked not to, a stop returns, Close
leaves nothing running.

**Scheduler** (`internal/dund/schedule.go`, `loopctl.go`). State: entries
(one-shot, fixed loop, self-paced loop) in memory and in `schedule.json`.
Operations: add, push, edit, cancel, loop_ctl, firing, the end of a turn,
forgetting a session, load. Hard: a firing works on copies while entries change;
a crash between any two steps; a loop that waits for a turn whose engine dies.
Correct when a one-shot is delivered at most once, loops neither burst nor stay
waiting forever, and the file holds what memory holds once changes are saved.

**Lock order** (`service.go`, `session.go`, `schedule.go`, `upgrade.go`,
`server.go`). Ten mutexes, an engine's two pipes of bounded size, and an event
reader that must never wait for a sender. Correct when nobody waits, in the end, for
himself.

**Handing out sessions** (`service.go` CreateOrReuse, `session.go` reusable).
State: a claim with a hold of 30 seconds, the log's subscriber count. Hard: the
claim ends a moment before the subscriber is there, and by anybody's subscribe.
Correct when two clients that start get different sessions.

**Engine input and turns** (`cmd/dun/inputstream.go`, `cmd/dun/engine.go`, the
harness's `queue.go`, `turn.go`, `interrupt.go`, `retry.go`, `store.go`,
`bgjob.go`). A scanner goroutine reads lines; the turn loop takes messages,
wakes and held images and runs a turn for them; messages that come during a turn
are buffered and ride its next tool result; jobs announce their end; a person
interrupts, answers a question or takes a queued message back. State: the
buffer, the inbox (published, not claimed), two unbuffered channels, flags.
Hard: every one of these is read in one step and acted upon in another. Correct
when a message is in exactly one place and reaches the model.

**Server connections** (`internal/dund/server.go`). State: a connection's
subscription, the views of sub-agents it opened, its end. Hard: a connection
ends at any step of what its reader is doing, and what it opened in the engine
must be let go for it; the engine it opened it in may be gone by then. Correct
when the engine streams a child's entries as long as somebody looks at it, and no
longer.

**Upgrade and handover** (`internal/dund/upgrade.go`, `internal/dundcli/cli.go`,
`handover.go`). State: the pending upgrade, the sessions told to wrap up, the
resume notes, in memory and in the registry. Operations: a request, the notices,
the wait, install or failure, the stop (of an upgrade or of a signal), the
wake-up at the next start. Hard: sessions begin and end work while they are gone
over one by one; a loop that fails is still going over them when the next
begins; dund dies between a note's delivery and its erasure. Correct when a
session that was cut or told is woken after the restart, once, and when nobody is
left told to wrap up by an upgrade that failed.

**Peers and mailboxes** (`peer.go`, `mailbox.go`). Messages between sessions with
a rate limit per pair; named listeners with a bounded box that drops its oldest
and reports how many. Each is one section under one lock, or one send.

**Registry** (`service.go` saveRegistry, restored sessions). `sessions.json` is
written whole, under a lock of its own. What it carries over a restart is the
resume notes.

**Jobs and exec** (`jobs.go`, `bgjob.go`, `bgkill.go`, `exec.go`). State: a job's
flags (promoted, done, killed, muted), the one persistent shell, the shells given
away. Operations: run, outlive the grace, end, wait, mute, kill, interrupt.
Hard: the end of a command, of its grace and of a wait for it, and an interrupt
all decide who tells the model; a shell is killed as its command ends. Correct
when an outcome is told exactly once, no two commands are in one shell, and no
command waits behind one that never ends.

**Sub-agents** (`subagent.go`, `plan.go`). State: the child's state, harness, done
channel and cancel function, its record on disk, the plan nodes it owns.
Operations: spawn, tell, dismiss, resume, settle, save, the close of the engine
and its restart. Hard: a run settles in three sections of `sa.mu` with a file
written in between, and anyone may change the child there. Correct when a child
has one run at a time, its waiter gets the report, its record is its state, and
no unfinished node stays with a child that is gone.

**MCP gateway** (`gateway.go`, `internal/dund/mcpgw.go`). State: one upstream per
key, its start, its clients, its grace timer. Operations: Share, which joins an
upstream or starts one, a client's release, its engine's exit, the grace, a call that
finds the server gone, Close. Hard: a start outlives its askers, a grace ends as a
client joins, and a server is stopped by its key after the lock was let go. Correct
when one start runs per key, nothing runs that nobody knows, and a server that
nobody uses is stopped.

**Tool servers of a session** (`servers_runtime.go`, `mcpscope.go`, `retry.go`,
`fork.go`). State: the switches in the files and as the session last read them, the
starts in flight, the servers that run, the tool set. Operations: switch, start,
stop, reload by a turn, a frame or a command, rebuilding the tools. Hard: a reload
walks through four sections under two locks while others reload; the tools are
rebuilt under the turn's lock, or put off. Correct when a server is started once at
a time and the model is told of the tools there are.

Not modelled at all, because they have no order to get wrong or are I/O: OAuth,
tokens, job usage sampling, the GraphQL API beyond its subscription, service
managers, the updater, spend and token meters, config files, rendering in the TUI
and the app, the text work of folding, rules, skills, plan and memory.

How they interact:

    clients --- Server conns --- Service --- session --- engine process
                    |               |          |  ^           |
                    |               |        Log  +- reader <-+ stdout
                    +-- subscribe --+----------+
    scheduler -- deliver --> session.send;  reader -- turn ended --> scheduler
    reaper, Close, upgrade --> session.stop

## 2. The modules

| module | models | composed with |
|---|---|---|
| `EventLog` | `proto/log.go` | |
| `Feed` | the promise to a client, without rings or connections | |
| `Follow` | subscribe, delivery and client cursors | extends `EventLog`; implements `Feed` |
| `Session` | one session object and its engine processes | |
| `Scheduler` | the scheduler with one session's engine and reader | |
| `Locks` | who takes which lock while holding which | |
| `Reuse` | CreateOrReuse against the creates and subscribes of any member | |
| `Turns` | the engine's input, turn loop and message buffer | |
| `Upgrade` | the upgrade, the planned stop, the resume notes and the next start | |
| `Conn` | a connection's subscription and views, beside one engine | |
| `Jobs` | exec calls, the shells, and who reports a command | |
| `Agents` | one sub-agent, its runs, its record and its plan nodes | |
| `Gateway` | one server shared through dund by the engines that ask for it | |
| `Servers` | a session's servers, their switches and starts, and its tool set | |
| `MC*` | TLC instances | extend the module they name |
| `*_proofs` | theorems | extend the module they name and one more: `Follow_proofs` has also those of `EventLog`, `Session_proofs` of `Reuse`, `Scheduler_proofs` of `Turns`, `Jobs_proofs` of `Locks`, `Servers_proofs` of `Conn` |

In all of them **a stretch of code under one lock is one action, as is a channel
operation or an atomic load or store; between two of them anybody may step.**
Names are the code's where possible. `PROJECT.json` maps each definition to its
lines. A definition whose comment begins "Mutant:" is a plausible bug of the
operation below it, which makes a property fail; no specification uses it.

**EventLog.** `ring`, `chan`, `latest`, `seq` as in `Log`; `hist` is a history
variable, all events ever appended, that the properties compare with. An event is
its seq and its type. Actions: `AppendEvent`, `Subscribe`, `Receive`,
`Unsubscribe`, `Close`.

**Follow.** `pc` walks `session.subscribe` through its four separate uses of the
log: the replay (`Resume`, or `NeedSnapshot` when it is impossible or longer than
maxReplay), `ReadLast`, `ReadState`, `Resubscribe`. `out` holds the frames on
their way, `cur` is the client's cursor and `shown` the state it displays. `Cut`
loses a connection with everything in it, `Dropped` is the log ending a slow
subscription, `Restart` the service coming back with a new epoch.

**Feed** is what that amounts to: an event applied in order, or a jump forward
whose state is at least as new as the place jumped to. `Promise == INSTANCE Feed
WITH Client <- Subscriber` and `Promise!FeedSpec` is a PROPERTY of the run.

**Session.** One session object, which one create makes. `eng`, `stopping`,
`restarts` are its fields; `est`, `stdin`, `stdout` the processes; `reader` the
goroutine per engine; `th[t]` is the operation a caller is in and where: `stop` is
`StopBegins` (under `ses.mu`), `StopWrites` (the frame, under no lock), `StopKills`,
`StopDone`/`StopGivesUp`, and so on. The exit of an engine is `EngineExited` (its
decision under `ses.mu`), then `ReaderEnds`. The automatic restart is `TimerFires`
(it looks at `stopping` under the lock), `TimerRestarts` (it starts the engine later,
or fails to) and, if it failed, `TimerTells`. A start may fail wherever `Spawn` or the
engine may: `CreateFails`, `EnsureFails`, and what each caller then does. `told` is
that the log's last word on the engine is gave_up; the field `gaveUp` is read nowhere
in the code. `registered` is that `s.sessions` has this object: `Displaced` is another
create of the conversation putting its own there.

**Scheduler.** `entries` and `disk` are memory and file; `fire` is `fireDue` as
it goes through collecting, asking whether the session is busy, marking, saving,
delivering and putting back; `op` an operation and its save; `reader` the two
event readers that may be alive at once (the current engine's and its
predecessor's). `Crash` ends dund between any two steps and loads the file.

**Locks.** Each operation is a sequence of lock, unlock, write and wait steps
(`Send`, `Stop`, `Restart`, `SetPersist`, ...); a goroutine works through its
own. The engine reads, writes and may hang.

**Reuse.** `Looks` and `Chooses` are `reusable`'s two steps (the log's
subscribers, then the claim) and the choice, under `s.mu`. A client is "given" a
session by CreateOrReuse (`Chooses`, `Creates`) or comes to one it knows: its own
(`CreatesOwn`), or any there is (`Comes`: a pick, a reconnect, a Poll).
`SubscribeClears`/`Attaches`/`Snapshots` are the steps of the subscribe of either,
which ends the claim whoever it was made for. `exposed` is a history variable: who was
given a session and had the claim ended by the hold or by somebody else.

**Turns.** `scanner` is `newInputStreamFrom`'s goroutine with what it holds in
its hand: a message to `Say` ("routed"), to offer on `users` ("offers"), to hold
("holds"), an answer to hand over. `loop` is `runProgrammatic`: `top`, `pend`,
`select`, the three looks of `drainStep`, and inside a turn `enter`, `prepare`,
`attempt`, `round`, `tool`, `ask`, `lift`, `result`, `end`, `after`. `queue` is
the harness's buffer, `stored`/`fresh` the conversation and what no turn has
claimed. A job is noted and then wakes the loop, two steps.

**Upgrade.** `at[w]` is where each of the goroutines is that go over the
sessions: two upgrade loops, of which an old one may still be failing, and main,
which stops for a signal. `Loop*` is `upgradeLoop`, `Notice*` `noticeBusy`,
`Fail*` `failUpgrade`, `Prepare*` `PrepareStop` with its goroutine per session
(`prep`), `Wake*` `resumeFlagged`, `New` the next start with the notes of the
file (`disk`). `owed` is a history variable: what a session was told that it is
still owed. `overlap` collects the sessions that two of these activities were at
simultaneously, which is where the code's promises end (section 6).

**Conn.** `reader[c]` is where a connection's reader is in the frame it handles;
`conn[c]` how far its close is; `leaver[c]` the goroutine of a `/exit`. A viewer
is counted twice, in `views` (the connection's, kept after the frame was sent)
and in `watchers` (the engine's, `AgentCmd`, when it reads the frame), with
`pipe` between them.

**Jobs.** `run[j]` is the job's goroutine, `call[j]` the exec call that waits for
it, `waiter[j]` a jobs(wait) call, which stops being counted in one section
(`WaitLeaves`) and looks at the job in the next (`WaitReports`), `killer[j]` a
jobs(kill) of the model, which waits for the end as well (`ModelKills`,
`KillAnswers`); `Kill` is the person's. `HostShell` is `mu`, `p` and the shells by
number of the job they were started for. `Promoted`, `ExecSettles`, `Finishes`,
`Notes`, `WaitReports` and `CutTurnSettles` are the places where it is decided who
speaks; `said` counts, and `answers` how often of these the model had asked
(`KillAnswers`, `AsksOfDone`).

**Agents.** `pc[q]` of a run, of the parent's turn or of the input goroutine.
Every change of the child's state is followed by `Snapshot` (under the lock) and
`Writes` (outside it), then by what comes after the save. `closeAgents` is
`CloseMarks`, `CloseStops`, `CloseDrops`; `Exits` is the process ending at any
point; `Restore` reads the record.

**Gateway.** `ups` is what the table has under the key, `phase[u]` how far the start
of upstream `u` is, `timer[u]` its grace, `kills` the stops still to be made after the
lock was let go. `pc[r]` is where an engine's request is: asked, listened to, waiting
for the start, granted, calling. `proc` is the process as the manager sees it, which
knows a server by its key alone. `Release` is shared by a refused request, a client
that leaves and an engine that exits (`ReleaseBegins`, `ReleasesOne`, `ReleaseEnds`).

**Servers.** `file` is what the scopes' files resolve to and `specs` what the session
last read. `spc[k]` walks start `k` through `Marks`, `Registers`, `Connects`,
`Discovers`, `Records`, `Ends`; `pc[a]` walks a reload by the turn loop or an
operation's goroutine through `Resolves`, `StopsOff`, `CancelsOff`, `MarksOn`,
`StartsOne`/`WaitsForOne`, `Reloaded`; `ap[x]` is `applyTools`: store that it is
pending, try the lock, rebuild, unlock. A turn, a fork and a frame's look whether a
turn runs hold the same lock. `byName` are the servers somebody started by name,
which no reload is responsible for.

## 3. The runs

Twelve runs, all of which pass. Where the code does not do what its words say, the
properties are worded around it ([section 6](#6-known-deviations)).

| run | question |
|---|---|
| `follow` | the log: replay, stream and state exact while the ring wraps. The client (channel 1, ring 2, maxReplay 1, 4 events), through one lost connection, one close that forgets the log and one service restart: `FeedPromise`, catches up |
| `session` | one session object, two callers, 3 operations of all kinds, one crash, 3 engines, starts that fail: one engine at a time, busy flag right, and restart, stop and Close come to their end |
| `sched` | two entries of any kind, two operations, times 1 to 3, one crash of dund |
| `locks` | two callers, each running any operations after one another beside the event reader and an engine that may hang: nobody waits for himself, but through a session's lock that the reaper or CreateOrReuse takes under the service's |
| `reuse` | three clients, three sessions, holds that pass and members that come, poll and leave: two starts differ unless a claim was ended |
| `turns` | three lines of any kind, one job, one question, two failed attempts |
| `upgrade` | two sessions, two requests, one start of work, two starts of dund: what is cut is recorded, a failure frees all, a note is sent once |
| `conn` | two connections, three frames, two engines, one that does not start: views and watchers agree |
| `jobs` | two commands, one interrupt, two waits, reads, mutes or kills: told once beside what was asked for, shells apart, nothing waits behind a command that never ends |
| `agents` | one child with two runs, two plan nodes, one restart of the engine: one run at a time, record and nodes right |
| `gateway` | two requests of two engines, three upstreams: one start at a time, nothing runs unknown, what nobody uses is timed and stopped |
| `servers` | one server, three commands or edits beside the turn loop and a fork, two starts: one start at a time, the tool set misses nothing, and what was put off is made good |

Why the bounds are enough. `follow`: the ring wraps, its channel both fills and is
drained; a backlog of 2 is longer than maxReplay and more than 2 is beyond the
ring, so all three answers of subscribe occur, in both epochs. `session`: the
races need two callers plus the timer and the two readers, which are actions of
their own; three engines allow create, crash, restart or command, and after it
every start fails, as any start may. The one crash of this run reaches the gave_up of
a timer whose start failed, but not the gave_up by the cap, which takes two. With
`MaxCrashes = 2` the five properties hold of two operations (31 000 states), and the
two invariants of three (1.3 million); with the liveness properties three are too slow
to keep beside the other runs. `sched`: two
entries let a firing collect one while the other changes; time 3 lets a loop of
interval 1 fire, be late and fire again. `locks`: two callers, the reader and the
engine can form every cycle through two or three locks and the pipes; cycles of more
callers are the theorem's. `turns`: three lines are
a message in the turn, a command about it and one after it. `upgrade`: of two
sessions one is gone over while the other changes; the second request meets the
first one's failure; work also begins by a wake-up or a notice. One session with
more of everything (three starts of work, three of dund; 6 million states) shows
nothing more. `conn`: three frames are a view of each and one leave, or a view, a
re-view after a restart and an exit; every step of the close falls into every step
of a frame. `jobs`: one command runs while the other is promoted, one wait and one
kill or mute can meet at each. `gateway`: two requests
are one that leaves, fails or gives up and one that comes; three upstreams one that
ends, one that replaces it and the stop of the first meeting it. A third request (2
million states, without liveness) shows nothing more. `servers`: three commands are off, on and a restart, beside
what the turn loop reloads; two goroutines for them (4 million states, without
liveness) show nothing more. `agents`: the second run is the one a tell starts
while the first settles; one child suffices because children meet only in the
plan, where another child's node is one that is not free. Three runs of the child
(21 million states) show nothing more.

**Fairness.** Safety runs use none. `Follow`: the goroutine that serves a client
and the client's own reader go on; engines, networks and restarts owe nothing.
`Session`: dund's goroutines and timers go on, processes owe nothing; the output
of an engine that is gone and has no child holding it ends. `Turns`: the scanner,
the loop and the turn go on, a job that ended is announced, and the model replies
in the end (strong fairness of `RoundReplies`), because a turn's rounds are
capped (`turn.go` maxTurns) and failures retry within a budget. Nobody is
assumed to write another line, answer or interrupt. `Jobs`: goroutines and timers
(the grace, a wait's, the pause before a kill) go on; a command owes nothing, it
may never end. `Gateway`: goroutines and timers go on, a handshake and a discovery
have a timeout; nobody has to ask, leave or exit. `Servers`: goroutines go on, a start
has a timeout, a turn and a fork end; the turn gets its lock in the end (strong
fairness of `TurnLocks`, a Go mutex). `Upgrade`, `Conn` and `Agents` state no liveness: with fairness for
each goroutine and session their graphs are beyond TLC in reasonable time. Deadlock is not checked,
since every program here may come to rest: bounds run out and goroutines wait.

What the properties say, by hazard: `PROJECT.json` lists each hazard at its line
with the properties that would catch it. Those without a property are in
section 6 or in the plan.

## 4. The proofs

What is proved holds for every value of the constants: any number of callers, sessions,
entries, servers, connections, lines, jobs, events, and any value of the bounds that
keep TLC's instances small. The only assumptions are the modules' own `ASSUME`s, which
say that bounds are numbers, that a capacity is at least one, that names are distinct,
and that the connections are finitely many. Each module has an inductive invariant
(`IInv`; `FollowInv`, `HandingInv`, `LockInv`, `ConnInv`, `TurnsInv` where a module
holds two), which TLC checked on a run before it was proved; the proof shows that it
holds initially, that every action keeps it, and that it implies the properties. There
is one lemma per conjunct, and in it one step per action; those that do not touch the
conjunct go together.

| module | theorem | says |
|---|---|---|
| `Follow_proofs` | `StreamExact`, `StateExact`, `ReplayExact` | `EventLog`'s `Spec => []NoGapNoRepeat`, `[]LatestIsCurrent`, `[]ReplayFaithful` |
| | `FollowedLogIsExact` | the three under `FollowSpec` |
| | `FollowImplementsFeed` | `FollowSpec => FeedPromise`, the refinement |
| `Session_proofs` | `OneEngineAtWork`, `StoppedIsNotBusy` | `Spec => []OneEngine`, `[]NotBusyWhenStopped` |
| | `StartsDiffer` | `Reuse`'s `ReuseSpec => []TwoStartsDiffer` |
| `Scheduler_proofs` | `FileIsCurrent`, `WaitingLoopsEnd` | `Spec => []DiskCurrent`, `[]AwaitingHasEnd` |
| | `OneShotDeliveredOnce`, `NoBurstOfALoop` | `Spec => OneShotOnce`, `NoBurst` (action properties) |
| | `MessagesOnce`, `NothingLeftSaid` | `Turns`'s `TurnsSpec => []TypeOK`, `[]LeavesNothingSaid` |
| `Upgrade_proofs` | `CutIsRecorded`, `NobodyLeftWrappedUp`, `SentIsCleared` | `Spec => []StopRecorded`, `[]FailureFreesAll`, `[]SentOnce` |
| `Gateway_proofs` | `OneStartAtATime`, `NothingOrphaned`, `IdleTimed` | `Spec => []OneStart`, `[]NoOrphan`, `[]IdleIsTimed` |
| `Servers_proofs` | `StartedOnce`, `ToolsAreCurrent` | `Spec => []OneStart`, `[]ToolsCurrent` |
| | `ConnTypeCorrect`, `NobodyWatchesAlone`, `ViewersCounted` | `Conn`'s `ConnSpec => []TypeOK`, `[]NoOneWatches`, `[]ViewersAreWatched` |
| `Jobs_proofs` | `TypeCorrect`, `OutcomeToldOnce` | `Spec => []TypeOK`, `[]ExactlyOneSpeaks` |
| | `NobodyWaitsForHimself` | `Locks`'s `LocksSpec => []NoMutualWait` |
| `Agents_proofs` | `TypeCorrect`, `OneRunAtATime`, `RecordIsState` | `Spec => []TypeOK`, `[]RunsOneByOne`, `[]SavedIsState` |

**The event log.** `ReplayFaithful` is not inductive: whether a replay is exact depends
on what every slot of the ring holds, which it does not say. `LogInv` does: the history
is numbered without a hole (`HistNumbered`), each of the last `Cap` events is in its own
slot (`RingKeepsNewest`), and the ring holds nothing else (`RingOnlyNewest`). The step
that overwrites a slot rests on the arithmetic of the ring: two seqs less than `Cap`
apart have different slots (`SlotDiff`) and seqs `Cap` apart the same (`SlotPeriod`),
from division with remainder. That `latest[t]` is of type `t` is part of
`LatestIsCurrent`, for a client's snapshot rests on it.

**The refinement.** Each step of `Follow` is a step of `Feed` or a stutter: only a
client that takes a frame (`TakeSnapshot`, `TakeReplayed`, `TakeLive`) moves `cur` and
`shown`. It may do what `Feed` allows if what is on its way continues where the cursor
stands. `OutInv` says so: either the replay and then the channel go on from the cursor
(`CursorFirst`), or a snapshot goes first, at a place not before the cursor and with
state at least as new as that place (`SnapshotFirst`). For a snapshot that is still
being read, `SnapInv` says it of the place (read first) and of the state (read second),
which is why the order of these two reads matters. The log may grow between any two
reads, so the lemmas are about a log that has `Grown`.

**Session.** That one engine is at work (`OneEngine`) rests on who may start one. An
engine that works is `eng`, or is the first, which names the session (`WorksInv`); while
it does, nothing else of this object runs and nobody knows it (`NamingInv`); one create
makes it, and no other caller reaches it before (`CreateInv`); all other starts look at
`eng` and set it in one section of `ses.mu`. The theorem is of an object, not of a
conversation (section 6). Engines are used in their order (`UsedInv`), so "the next
engine" was never read. For `NotBusyWhenStopped`, whoever read of a turn is still there
to clear the flag (`BusyInv`).

**Scheduler.** A crash replaces memory by the file at any step, so nothing said of the
entries alone is inductive: it has to hold of the file too, or of the entry that a
firing has in hand. `FireInv` says what a pass holds at each step; `DiskInv` that memory
and file differ only while somebody has a save to make; `SentInv` that a one-shot that
was sent is in none of the three and its number is not given again, `OnceInv` that one
about to be sent is off the entries and, once saved, off the file; `LastInv` that a
fixed loop's next run is an interval after its last. `AwaitingHasEnd` is kept by itself
given that an engine that lives belongs to a session that runs (`RunInv`).

**Upgrade.** A promise made to a session (`owed`) is kept by its note, or by somebody on
the way to write the note or to revoke the promise: `NotedInv`. The rest of the
invariant says who that may be. A stop that went over a session is alone at it
(`AloneInv`), who was at rest then still is (`RestInv`), from its install on an upgrade
has noted whomever it noticed (`WrappedInv`), and what a stop promised is on file when
it is done (`FileInv`, which gives `StopRecorded`). Whoever was noticed is on the list
of a loop that will tell it that it is off (`NoticeInv`, which gives `FailureFreesAll`).
Between two processes only the file counts (`DownInv`). All of it is about the sessions
outside `overlap`; that the set has to hold no more sessions than it does, the proof
shows at each step where two goroutines meet.

**Gateway.** As long as a request is registered, the upstream it looked up is the one in
the table, or has failed (`ClientInv`); so no release and no failed call of it drops
another that is just starting. A server that runs is the table's and has shaken hands,
or its stop is on the way (`OwnerInv`); a timer is set only for one that is up
(`TimerInv`).

**Servers.** What a reload is to start is marked in `starting` in the section of `mcpMu`
that finds it missing, so a server is on one list or has one start (`MarkedInv`); a
server somebody starts by name is outside, as in the property. A tool set that is not
that of the servers is on somebody's list: the flag is set, or a start, a reload or a
rebuild is before its store of it (`ToolsInv`).

**Jobs.** Who speaks is decided by flags read under `j.mu`; the invariant adds that
those who read them agree (`DoneIsOver`), what each who may still speak knows of the
others (`SpeaksOnce`: nobody has spoken, but in answer to a question, before the job is done,
while a waiter waits or carries the outcome, or while its call has not settled), and who holds the lock and the shell until a promotion
gives both away (`HoldsShell`, `ShellInv`).

**Reuse.** `TwoStartsDiffer` does not survive a choice, which looks at claims and not at
clients; the invariant adds that whoever was given a session is covered by its claim
until somebody else ended that (`GivenIsClaimed`). Each step that ends a claim, the
hold's and any client's subscribe, exposes all who were waiting under it, so that the
next choice of that session is shared with no one who is still covered.

**Locks.** A script is composed of sections: what a goroutine does between taking a lock
and giving it up. `Under(m)` is what may happen while `m` is held, and shows which locks
and pipes are waited for under it. The invariant says that a lock is held by exactly the
goroutine that is inside a section of it. Then whoever waits has a lower level (`Level`)
than the one he waits for, if that one waits too: a lock of the registry's saves, the
upgrade or the server comes first, then a session's or a connection's, the service's, a
write to an engine, the engine, the scheduler's save, the rest; but for a session's lock
under the service's, the exception the property makes. Seven levels cannot grow around a
circle. The argument does not count the callers, so it covers the cycles of three and
more that TLC's two callers cannot form.

**Turns.** `Total(m)` adds up how often `m` is in each place: among the lines not read,
in the scanner's hand, in the loop's, held, in the buffer, in the conversation, taken
back. It is at most one, zero for a message not yet written and for a note not yet made,
and a note that was made is in the buffer or the conversation (`PlaceInv`). Every action
but a write and a note moves one message from a place to another at most (`MovesOnly`),
so there is a lemma for each kind of move. `DrainInv` says what has been looked at on
the way to the end: the loop waits for no more input only when the reader is done, it
took what was held before it drains, and nothing is pending when it has; nobody is left
then who could bring more.

**Conn.** The engine's count lags behind the connections' by what is on its pipe. The
invariant looks ahead: `WatchInv` compares what the engine will count when it has read
its pipe with the sum, over the connections, of what each stands for (`Stand`): the
views it has when its reader is through with the frame, and the leaves that a close or
an exit of it has still to send. The engine never has more watchers than that, which
gives `NoOneWatches`; and just as many as long as nothing of section 6 has happened
(`Undisturbed`), which gives `ViewersAreWatched`. For the second a leave must find a
view before it (`AskInv`), since the engine's count stops at zero.

**Agents.** The child's settle, tell, dismissal, resume, close and restart meet in one
record. A run that works or is about to, and was not canceled, is the child's current
one (`OneInv`); once a dismissal has canceled it none is active until a resume is
through (`StopInv`); a run that settles, unless `raced`, settles the child it ran for
(`ShutInv`). For `SavedIsState`: what is about to be written is the state (`WriteInv`),
and without a save under way the file has it (`DiskInv`). A child that is gone has given
its unfinished plan nodes back (`OwnInv`). After a restart only the turn is left
(`RunInv`, `EngineInv`).

Only model-checked: the liveness properties (`EventuallyCaughtUp`, `RestartComesBack`,
`CloseStops`, `StopReturns`, `MidTurnGetsTurn`, `NewsGetsTurn`, `HeldGetsTurn`,
`CommandsGoOn`, `IdleIsStopped`, `CatchesUp`). The prover has no rule for fairness, nor
for ENABLED.

Induction over data (a sum over connections, a count in a sequence, a filtered buffer)
is not a rule of the provers either; where a definition is a recursive function, the
proofs argue by the smallest number it fails for (`Smallest`, from the library's
well-founded order of the numbers).

## 5. Abstractions

- An event is its seq and type; a message or job is a number. Wording, wire
  format, usage figures and display are left out.
- `Follow`: one log; the items of a snapshot other than the state are not
  followed; a connection's outgoing queue is part of `out`; one sub-action per
  use of the log, none for the sockets.
- `Session`: one session object, made by one create; another create's object of
  the same conversation is there only as what displaces it (`Displaced`, section 6).
  "Occupied" (turn, question, jobs, sub-agents) is one flag; subscribers are one
  boolean; sessions restored from the registry and SwitchModel (a Restart with
  other flags) are not there; which flags an engine got is left out; an engine's
  pipe never fills (`Locks` has that). The idle stop passes only when nothing is under
  way, as 30 minutes is longer than any call.
- `Scheduler`: one session; edits of text and iteration budgets change nothing
  the properties tell apart; the run loop's poke and its timer are one "now is
  later" step. A save is one step and succeeds: the code only logs one that fails
  (`schedule.go:150-152`), and the file is behind until the next.
- `Locks`: one session; operations whose locks are a part of another's (List,
  Stop, Forget, Waiting) are left out; pipes hold one frame.
- `Reuse`: one principal and workspace, the sessions that qualify; a session is not
  forgotten. A client is in one thing at a time: given a session, coming to one, or
  following one.
- `Upgrade`: a session's work is idle, a turn, or jobs; which target an upgrade
  has is not kept, so a retarget and UpgradeNow change nothing; installing is one
  step that succeeds or fails; that the stop after an install cannot write the
  registry (`upgrade.go:312-314`) is left out; the wait of a stop for an interrupted turn is
  "its end, or not".
- `Conn`: one session with one child; frames that are request and answer are left
  out, as are `dropIfEmpty` and the persisting session of a leave (it is not
  stopped); one goroutine of a leave per connection.
- `Jobs`: HostShell, the default; HostExec and Docker run a process per command.
  Progress reports, unmuting, listing, and closing the shell on a change of
  directory are left out. A write into a shell that died just then, which the code
  tries again in a new one (`exec.go:360-369`), is part of the look whether it is alive.
  The interrupt is one step.
- `Agents`: one child; messages to the parent, isolated work trees, reminders and
  the limits on depth and number are left out; a child's run is what it does to
  its plan nodes; tell's message itself is not followed.
- `Gateway`: one key; the proxied requests and notifications and the login's URL are
  left out; the library that runs the server is external and knows it by its key.
- `Servers`: one server, so a reload's queue of several is one long; a server is a
  process of the session (scripts and dund's shared servers are left out), its
  definition does not change, its files are read without error
  (`mcpscope.go:565-568`), and two consecutive reads of what runs and what starts
  are one step. A session begins with its servers up.
- `Turns`: agentkit, which runs a turn's rounds, is external: an attempt claims
  what is published, then rounds of one tool call each follow. Left out:
  rephrasing, refused images, reset, peers' messages and asides, healing of
  orphaned calls, turn budgets, an engine that dies.

Not modelled: peer messages and mailboxes (each operation is one section under
one lock, so there is no order to check); that a session's arguments are read for
the registry without its lock; OAuth, tokens, usage sampling, service
managers, the updater, the meters and config files (I/O, or functions of their
input); rules, skills, memory and rendering (text); the pairing of tool calls and
results under recap, fold and compaction, which is next in the plan.

## 6. Known deviations

Found while reading and modelling. The models do this too, and the passing
properties are worded around it.

Locks:

- `service.go:157`, `311`: the reaper and CreateOrReuse take a session's lock under
  the service's, an engine start takes them the other way round: two such goroutines
  wait for each other for good. Without its exception (`SessionUnderService`) TLC
  finds `NoMutualWait` violated by a send and a reap.

Clients and sessions:

- `service.go:167-171`: the reaper stops a session it chose before a turn began.
- `service.go:197-221`, `282-284`: create looks for the resumed conversation under
  `s.mu`, lets it go, starts `--resume` and lists the session when the engine has
  named it. Two creates of one conversation at once, or one beside a session that was
  just forgotten and whose engine still stops, run two engines on it, each with a
  session object of its own; the later is listed, and the other's engine is reached by
  who holds that object, and by no Close. `OneEngine` is of one object.
- `service.go:274-280`: a plain Create counts as no use of the session (only a claimed
  one is touched): until the engine says something more, the reaper may take it at
  once.
- `session.go:319-321`, `337`: an automatic restart whose start fails logs gave_up and
  is not tried again, though the restarts of the window are not used up
  (`session.go:326`: "A session that gave up is started again: a person asking for it
  is the retry"); `gaveUp` is not set, and is read nowhere. `RestartComesBack` asks for
  an engine or that word.
- `session.go:434-444`: the claim of a handed-out session is cleared before its
  subscriber exists; a third start in between gets the same session
  (`TwoStartsDiffer` speaks of clients that have not subscribed yet).
- `session.go:437`: the subscribe of any member ends the claim, not only that of the
  client it is for: after a Poll, which unsubscribes when it is through, or a device
  that looked and left, the next CreateOrReuse gets the session that another was handed
  and is on its way to (`service.go:303-305`: "no other CreateOrReuse handed it out
  within reuseHold"). The session of a plain Create has no claim until its creator
  subscribes. `TwoStartsDiffer` excepts whose claim was ended so (`exposed`).
- `session.go:313`: the restart timer looks at `stopping` and starts the engine
  in two steps; a stop in between is undone.
- `session.go:328`, `service.go:515`: a caller that got the session before
  Forget removed it starts an engine nobody lists.
- `service.go:505-512`: Restart stops, sets flags and starts in three steps; a
  send in between starts an engine with the old flags.
- `session.go:266`: the reader of an old engine tracks "stopped" after its
  successor began, and clears the turn of that one: it then passes for idle
  (`NotBusyWhenStopped` is about the other direction).
- `service.go:214`, `283`: a create under way while Close lists the sessions
  leaves its engine running.
- `session.go:406-416`: stop writes its frame before the grace timer starts:
  an engine that no longer reads, its pipe full, is never killed; and stop waits
  for `ses.mu` before that, which a send blocked on such an engine holds.

Scheduler:

- `schedule.go:276-287`: a firing that fails to deliver puts the entry back from
  its copy although it was cancelled meanwhile (`schedule_test.go:115`: "a
  cancelled entry fired").
- `schedule.go:246-263`: a one-shot is removed from the file before it is sent:
  a crash in between loses it (`OneShotOnce` is at most once).
- `schedule.go:294-309`: the end of another turn gives a loop its default while
  its own firing is on its way.

The engine's input and turns:

- `engine.go:585-602`: the router reads `turnActive` and says the message later:
  routed to a turn that ends in between it stays in the buffer until something
  else wakes the loop (`queue.go:123`). `MidTurnGetsTurn` states the weaker: what
  is in the buffer while a turn runs does reach the model.
- `inputstream.go:284-289`: a message read as a turn begins is offered to the
  loop, which is in that turn; if the turn asks a question, the reader cannot
  bring the answer, nor an interrupt.
- `engine.go:675-696`, `bgjob.go:229`: the drain sees no running job between the
  count and the note of one, and exits without the note.
- `queue.go:228`: a tool result looks for an interrupt, then drains: a message
  can ride a turn that was cut in between. `interrupt.go:178` clears the flag
  outside the lock, so an interrupt of a turn just beginning may not hold the
  buffer back.
- `inputstream.go:291`: an answer to a question that is no longer open blocks the
  scanner until the next question, which takes it.

Upgrade (`StopRecorded` and `FailureFreesAll` except the sessions in `overlap`):

- `upgrade.go:244`: a failed upgrade wipes the note of a session whose wake-up
  from the last stop is not sent yet, or failed.
- `upgrade.go:412-415`: the wake-up clears the note it sent, or a newer one that
  was recorded meanwhile; if dund dies before the save it is sent twice.
- A second request while the first one's failure is gone over: the sessions told
  by the second are told it is off.
- A stop for a signal while an upgrade is pending does not wake those that were
  only told to wrap up.
- `upgrade.go:197-210`: a retarget during an install announces a build that is
  not the installed one; `upgrade.go:157` and `server.go:146-152`: a client may
  see an older status after a newer one.
- `upgrade.go:296-300`: the stop's decision to save leaves out the note of a
  session that has begun to work since it was looked at.

Connections (`ViewersAreWatched` holds while the first engine lives, except after
`late`):

- `server.go:451`: views counted for an engine outlive its restart, so their
  leaves end another viewer's watch in the next one; so does the leave of a view
  that was never counted because the engine did not start.
- `server.go:187`, `429`: a connection closed between a leave's frame and its
  count sends the leave twice.
- `server.go:436`, `491`: a view or a subscription that is registered after the
  close stays.
- `service.go:616`: a leave asks for subscribers and stops the engine later.

Jobs (`answers`, `early`, `dropped`):

- `bgkill.go:58-74`: the model's jobs(kill) waits for the end and returns the outcome,
  and the note, which only a waiter holds back (`bgjob.go:245`), tells it again; so does
  a jobs call of a job that is done whose note is still to come, a wait included
  (`jobs.go:295-298`): `bgjob.go:105-107`, "sending both would say it twice".
  `ExactlyOneSpeaks` counts these answers apart.
- `jobs.go:309-314`, `351`: a waiter that leaves between a command's end and its note,
  or just before the end, finds the outcome when it reports, and the note tells it
  again.
- A note is left out for a waiter whose result the interrupt then drops: nobody
  tells.

Sub-agents (`raced`, `late`):

- `subagent.go:740-747`: a told child that is dismissed settles "idle" after
  its dismissal and is recorded so: a restart brings it back.
- A dismissal and a quick resume: the old run settles the resumed child, which may
  then have two runs.
- `subagent.go:233-240`: a tell between a run's "idle" and its report: the run
  closes the new run's done channel, its own is never closed, and whoever waits
  on it waits on.
- `subagent.go:915-931`: two saves at once can land in the wrong order; an
  engine that closes between a change and its save leaves the record behind.
- A resume or a tell during closeAgents leaves a harness or a run that nothing
  cancels.

MCP gateway:

- `session.go:248`, `260`: each request of an engine is answered on a goroutine of its
  own, and the engine's clients are released once, at its exit: a share that
  registers after that counts for an engine that is gone, and its server runs on
  (`mcpgw.go:14`: "whose exit releases it").
- `gateway.go:283-294`, `348`: an upstream is forgotten under the lock and its server
  stopped by its key after it: a client that comes in between starts a new one, which
  that call stops (`gateway.go:143`: "later ones get the running one at once").

Tool servers (TLC shows each of them with the words as an invariant):

- `mcpscope.go:607`, `servers_runtime.go:408`: between the mark of a start and its
  registration, as long as the starts before it take, a switch off finds nothing to
  stop: the server comes up (`harness.go:366`: "a server switched off while it starts
  stops starting").
- `mcpscope.go:619`, `703`: switched on before its stopped start has ended, it counts as
  starting and is not started (`mcpscope.go:675`: "The change applies now").
- `fork.go:32`, `mcpscope.go:512`: a fork, or a frame's look whether a turn runs, lets
  the lock go without the rebuild that was put off for it (`servers_runtime.go:643`:
  "it applies on the way out"); the next turn makes it (`CatchesUp`).
- `servers_runtime.go:589`: a start stops counting as in flight while another rebuild,
  which read the tools before, holds the lock.
- `servers_runtime.go:282`, `mcpscope.go:698`: a start by name looks and starts in two
  steps, so two of them may run (`OneStart` leaves such servers out).

## 7. The plan

Done, in this order: `EventLog` and its proofs (everything a client sees rests on
it), `Feed` and `Follow`, `Session`, `Scheduler`, `Locks`, `Reuse`, `Turns`; then
`Upgrade`, `Conn`, `Jobs`, `Agents`, `Gateway`, `Servers`; then the proofs of all of them.

What is left to model: in the modules there are, restored sessions and SwitchModel in
`Session`, the reset and asides of the engine's loop in `Turns`; as a module of its
own, the transcript's pairing of tool calls and results under recap, fold and
compaction (`recap.go`, `fold.go`, `compaction.go`).

Every safety property of the runs is proved. Worth proving next: that an engine's
watchers are counted right for each later engine too, given that its viewers view
again; a refinement of `Scheduler` (each one-shot: pending, then sent or lost) and of
`Turns` (each message: written, then in the conversation or taken back), of which
`OneShotOnce` and `MessagesOnce` are the first halves. A new component's theorems go to
the proofs module of the component it works beside.

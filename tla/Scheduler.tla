----------------------------- MODULE Scheduler -----------------------------
(***************************************************************************)
(* The scheduled messages and loops of one session:                        *)
(* internal/dund/schedule.go, with as much of the session (send,           *)
(* readEvents) as a firing meets.                                          *)
(*                                                                         *)
(* Four kinds of goroutines touch the entries: the scheduler's own         *)
(* (fireDue), the peer handlers (schedOp), the event reader (turnEnded),   *)
(* and Forget. Each section under sc.mu is one action; the file is written *)
(* in a later one, and dund may die between any two.                       *)
(***************************************************************************)
EXTENDS Naturals, Sequences, FiniteSets

CONSTANTS
  Kinds,            \* of entries added, a subset of {"once", "every", "self"}
  Every,            \* a fixed loop's interval
  schedRetry,       \* how long a firing that cannot go waits
  selfPaceDefault,  \* a self-paced loop's next run without loop_ctl
  MaxId,            \* bound: entries ever added
  MaxTime,          \* bound: the clock
  MaxOps,           \* bound: operations begun
  MaxSays,          \* bound: messages of the person's own
  MaxCrashes        \* bound: times dund or an engine dies

ASSUME SchedulerAssumption ==
  /\ Kinds \subseteq {"once", "every", "self"}
  /\ Every \in Nat \ {0} /\ schedRetry \in Nat \ {0} /\ selfPaceDefault \in Nat \ {0}
  /\ MaxId \in Nat /\ MaxTime \in Nat /\ MaxOps \in Nat /\ MaxSays \in Nat /\ MaxCrashes \in Nat

Id == 1..MaxId
Time == 0..(MaxTime + Every + schedRetry + selfPaceDefault)
Never == 0                      \* the zero time: the clock starts at 1

VARIABLES
  now,        \* the wall clock
  next,       \* sc.next
  entries,    \* sc.entries: a function on the ids it holds
  disk,       \* schedule.json
  fire,       \* fireDue: where it is, and its locals
  op,         \* the operation a peer handler runs, or Forget
  reader,     \* the event readers: the running engine's, and the last one's
  exists,     \* the session is registered
  running,    \* session.running
  alive,      \* its engine's process is
  inbox,      \* how many messages were written to the engine and not read
  turn,       \* a turn of the engine's runs
  events,     \* turn starts and ends it wrote and dund has not read
  inTurn,     \* session.inTurn
  says, ops, crashes,
  sent,       \* one-shot entries delivered
  last        \* per fixed loop: when it last fired, Never if its time was set otherwise since

store == <<next, entries>>
engine == <<running, alive, inbox, turn, events>>
bounds == <<says, ops, crashes>>
history == <<sent, last>>
vars == <<now, store, disk, fire, op, reader, exists, engine, inTurn, bounds, history>>

Loop(e) == e.kind # "once"
Ids == DOMAIN entries
None == [i \in {} |-> 0]
Put(es, id, e) == [i \in DOMAIN es \union {id} |-> IF i = id THEN e ELSE es[i]]
Drop(es, ids) == [i \in DOMAIN es \ ids |-> es[i]]

FireIdle == [at |-> "idle", when |-> Never, due |-> {}, busy |-> FALSE, todo |-> {}, retry |-> {}]
OpIdle == [at |-> "idle", id |-> 0, what |-> "none"]
InHand == {f.id : f \in fire.todo \union fire.retry}

Init ==
  /\ now = 1 /\ next = 0 /\ entries = None
  /\ disk = [next |-> 0, entries |-> None]
  /\ fire = FireIdle /\ op = OpIdle /\ reader = [cur |-> "read", old |-> "read"]
  /\ exists = TRUE /\ running = FALSE /\ alive = FALSE
  /\ inbox = 0 /\ turn = FALSE /\ events = <<>> /\ inTurn = FALSE
  /\ says = 0 /\ ops = 0 /\ crashes = 0
  /\ sent = {} /\ last = [i \in Id |-> Never]

\* scheduler.save: what one written now holds.
Saves == disk' = [next |-> next, entries |-> entries]

-----------------------------------------------------------------------------
(* fireDue *)

\* A pass starts (a poke, or the timer that never sleeps past a minute): what
\* is due is copied; with a loop among it, busy is asked, the lock released.
Due == {i \in Ids : entries[i].at # Never /\ entries[i].at <= now}

FireCollects ==
  /\ fire.at = "idle" /\ Due # {}
  /\ fire' = [FireIdle EXCEPT !.when = now,
                !.at = IF \E i \in Due : Loop(entries[i]) THEN "ask" ELSE "mark",
                !.due = {[id |-> i, at |-> entries[i].at] : i \in Due}]
  /\ UNCHANGED <<now, store, disk, op, reader, exists, engine, inTurn, bounds, history>>

\* sched.busy: loaded, and in a turn.
FireAsksBusy ==
  /\ fire.at = "ask"
  /\ fire' = [fire EXCEPT !.at = "mark", !.busy = exists /\ running /\ inTurn]
  /\ UNCHANGED <<now, store, disk, op, reader, exists, engine, inTurn, bounds, history>>

\* Mutant: a loop's next run counts from when this one was due.
NextRunFromDue(e) ==
  IF e.kind = "self"
  THEN [e EXCEPT !.at = Never, !.awaiting = TRUE, !.fired = fire.when]
  ELSE [e EXCEPT !.at = e.at + Every, !.fired = fire.when]

\* A fired entry's next state.
NextRun(e) ==
  IF e.kind = "self"
  THEN [e EXCEPT !.at = Never, !.awaiting = TRUE, !.fired = fire.when]
  ELSE [e EXCEPT !.at = fire.when + Every, !.fired = fire.when]

\* Under the lock again: an entry cancelled or pushed meanwhile is left, a loop
\* of a busy session waits, the others fire; a one-shot is removed.
FireMarks ==
  LET same == {d.id : d \in {x \in fire.due : x.id \in Ids /\ entries[x.id].at = x.at}}
      held == {i \in same : Loop(entries[i]) /\ fire.busy}
      go   == same \ held
      once == {i \in go : ~Loop(entries[i])}
  IN
  /\ fire.at = "mark"
  /\ entries' = [i \in Ids \ once |->
                   CASE i \in held -> [entries[i] EXCEPT !.at = fire.when + schedRetry]
                     [] i \in go   -> NextRun(entries[i])
                     [] OTHER      -> entries[i]]
  /\ fire' = [fire EXCEPT !.at = "save", !.due = {},
                !.todo = {[id |-> i, e |-> [entries[i] EXCEPT !.fired = fire.when]] : i \in go}]
  /\ last' = [i \in Id |-> IF i \in go /\ entries[i].kind = "every" THEN fire.when ELSE last[i]]
  /\ UNCHANGED <<now, next, disk, op, reader, exists, engine, inTurn, bounds, sent>>

\* Mutant: what fired is written only after it was delivered.
FireSavesLater ==
  /\ fire.at = "save" /\ fire' = [fire EXCEPT !.at = "deliver"]
  /\ UNCHANGED <<now, store, disk, op, reader, exists, engine, inTurn, bounds, history>>

FireSaves ==
  /\ fire.at = "save" /\ fire' = [fire EXCEPT !.at = "deliver"]
  /\ Saves
  /\ UNCHANGED <<now, store, op, reader, exists, engine, inTurn, bounds, history>>

\* Due first, ties by id.
Earlier(f, g) == f.e.at < g.e.at \/ (f.e.at = g.e.at /\ f.id <= g.id)
First == CHOOSE f \in fire.todo : \A g \in fire.todo : Earlier(f, g)

Taken(f) == fire' = [fire EXCEPT !.todo = @ \ {f}]

\* deliverScheduled reached the engine, started for it if none ran.
FireDelivers ==
  LET f == First IN
  /\ fire.at = "deliver" /\ fire.todo # {} /\ exists
  /\ running => alive
  /\ Taken(f)
  /\ inbox' = inbox + 1 /\ running' = TRUE /\ alive' = TRUE
  /\ sent' = IF Loop(f.e) THEN sent ELSE sent \union {f.id}
  /\ UNCHANGED <<now, store, disk, op, reader, exists, turn, events, inTurn, bounds, last>>

\* The engine would not start, or was found gone at the write.
FireFails ==
  LET f == First IN
  /\ fire.at = "deliver" /\ fire.todo # {} /\ exists
  /\ running => ~alive
  /\ fire' = [fire EXCEPT !.todo = @ \ {f}, !.retry = @ \union {f}]
  /\ UNCHANGED <<now, store, disk, op, reader, exists, engine, inTurn, bounds, history>>

\* ErrNoSession: the entry goes with its session.
FireFindsNone ==
  LET f == First IN
  /\ fire.at = "deliver" /\ fire.todo # {} /\ ~exists
  /\ Taken(f)
  /\ entries' = Drop(entries, {f.id})
  /\ UNCHANGED <<now, next, disk, op, reader, exists, engine, inTurn, bounds, history>>

\* What could not be delivered is put back as it was when it fired.
FirePutsBack ==
  LET back == [i \in {f.id : f \in fire.retry} |->
                 LET f == CHOOSE g \in fire.retry : g.id = i IN
                 [f.e EXCEPT !.at = fire.when + schedRetry, !.awaiting = FALSE]]
  IN
  /\ fire.at = "deliver" /\ fire.todo = {}
  /\ entries' = [i \in Ids \union DOMAIN back |-> IF i \in DOMAIN back THEN back[i] ELSE entries[i]]
  /\ fire' = [fire EXCEPT !.at = "finish", !.retry = {}]
  /\ last' = [i \in Id |-> IF i \in DOMAIN back THEN Never ELSE last[i]]
  /\ UNCHANGED <<now, next, disk, op, reader, exists, engine, inTurn, bounds, sent>>

\* Mutant: what was put back is not written.
FireFinishesUnsaved ==
  /\ fire.at = "finish" /\ fire' = FireIdle
  /\ UNCHANGED <<now, store, disk, op, reader, exists, engine, inTurn, bounds, history>>

FireFinishes ==
  /\ fire.at = "finish" /\ fire' = FireIdle
  /\ Saves
  /\ UNCHANGED <<now, store, op, reader, exists, engine, inTurn, bounds, history>>

FireStep ==
  \/ FireCollects \/ FireAsksBusy \/ FireMarks \/ FireSaves
  \/ FireDelivers \/ FireFails \/ FireFindsNone \/ FirePutsBack \/ FireFinishes

-----------------------------------------------------------------------------
(* schedOp and dropSession: the entry changes under the lock, then changed()  *)
(* saves.                                                                     *)

Starts(what, step, id) ==
  /\ op.at = "idle" /\ ops < MaxOps
  /\ ops' = ops + 1
  /\ op' = [at |-> step, id |-> id, what |-> what]
  /\ UNCHANGED <<now, disk, fire, reader, engine, inTurn, says, crashes>>

Soon == {now, now + 1}

Add(kind, at) ==
  /\ exists /\ next < MaxId
  /\ Starts("add", "save", next + 1)
  /\ next' = next + 1
  /\ entries' = Put(entries, next + 1,
                    [kind |-> kind, at |-> at, awaiting |-> FALSE, fired |-> Never])
  /\ UNCHANGED <<exists, history>>

\* Its time is set anew by a push or loop_ctl.
SetTime(id, at) ==
  /\ entries' = [entries EXCEPT ![id].at = at, ![id].awaiting = FALSE]
  /\ last' = [last EXCEPT ![id] = Never]

Removed(id) == entries' = Drop(entries, {id})

Push(id, at) ==
  /\ id \in Ids /\ Starts("push", "save", id)
  /\ SetTime(id, at)
  /\ UNCHANGED <<next, exists, sent>>

Cancel(id) ==
  /\ id \in Ids /\ Starts("cancel", "save", id)
  /\ Removed(id)
  /\ UNCHANGED <<next, exists, sent, last>>

\* loop_ctl, called by the model in a turn, picks the loop that fired last...
LoopCtlPicks(id) ==
  LET loops == {i \in Ids : Loop(entries[i])} IN
  /\ turn /\ id \in loops
  /\ \A i \in loops : \/ entries[i].fired < entries[id].fired
                      \/ entries[i].fired = entries[id].fired /\ i <= id
  /\ Starts("ctl", "ctl", id)
  /\ UNCHANGED <<store, exists, history>>

\* ...and updates it in a second section, if it is still there.
LoopCtlSets ==
  /\ op.at = "ctl"
  /\ \/ op.id \notin Ids /\ op' = OpIdle /\ UNCHANGED <<entries, last>>
     \/ op.id \in Ids /\ op' = [op EXCEPT !.at = "save"]
        /\ SetTime(op.id, now + 1)
     \/ op.id \in Ids /\ op' = [op EXCEPT !.at = "save"]
        /\ Removed(op.id) /\ UNCHANGED last
  /\ UNCHANGED <<now, next, disk, fire, reader, exists, engine, inTurn, bounds, sent>>

\* Forget of a session whose engine is stopped; dropSession follows.
Forget ==
  /\ exists /\ ~running
  /\ Starts("forget", "drop", 0)
  /\ exists' = FALSE
  /\ UNCHANGED <<store, history>>

DropSession ==
  /\ op.at = "drop"
  /\ op' = IF Ids = {} THEN OpIdle ELSE [op EXCEPT !.at = "save"]
  /\ entries' = None
  /\ UNCHANGED <<now, next, disk, fire, reader, exists, engine, inTurn, bounds, history>>

\* changed() has saved, and the caller is answered.
OpSaves ==
  /\ op.at = "save" /\ op' = OpIdle
  /\ Saves
  /\ UNCHANGED <<now, store, fire, reader, exists, engine, inTurn, bounds, history>>

OpStep == LoopCtlSets \/ DropSession \/ OpSaves

-----------------------------------------------------------------------------
(* The session's engine, and its readers *)

PersonSends ==
  /\ exists /\ says < MaxSays /\ (running => alive)
  /\ says' = says + 1
  /\ inbox' = inbox + 1 /\ running' = TRUE /\ alive' = TRUE
  /\ UNCHANGED <<now, store, disk, fire, op, reader, exists, turn, events, inTurn, ops, crashes,
                 history>>

EngineTakes ==
  /\ alive /\ inbox > 0
  /\ inbox' = inbox - 1
  /\ turn' = TRUE
  /\ events' = IF turn THEN events ELSE Append(events, "turn")
  /\ UNCHANGED <<now, store, disk, fire, op, reader, exists, running, alive, inTurn, bounds,
                 history>>

\* loop_ctl is answered before the turn that called it goes on.
EngineTurnEnds ==
  /\ turn /\ op.what # "ctl"
  /\ turn' = FALSE
  /\ events' = Append(events, "done")
  /\ UNCHANGED <<now, store, disk, fire, op, reader, exists, running, alive, inbox, inTurn,
                 bounds, history>>

\* It exits: stopped, reaped or crashed.
EngineDies ==
  /\ alive /\ crashes < MaxCrashes
  /\ crashes' = crashes + 1
  /\ alive' = FALSE /\ inbox' = 0 /\ turn' = FALSE
  /\ UNCHANGED <<now, store, disk, fire, op, reader, exists, running, events, inTurn, says, ops,
                 history>>

\* session.track; a turn's end goes on to loopTurnEnded.
ReadEvent ==
  /\ reader.cur = "read" /\ events # <<>>
  /\ events' = Tail(events)
  /\ inTurn' = (Head(events) = "turn")
  /\ reader' = IF Head(events) = "done" THEN [reader EXCEPT !.cur = "ended"] ELSE reader
  /\ UNCHANGED <<now, store, disk, fire, op, exists, running, alive, inbox, turn, bounds, history>>

\* session.exited: a new engine may run before this reader's last words.
ReaderExits ==
  /\ running /\ ~alive /\ events = <<>> /\ reader.cur = "read" /\ reader.old = "read"
  /\ running' = FALSE
  /\ reader' = [reader EXCEPT !.old = "exited"]
  /\ UNCHANGED <<now, store, disk, fire, op, exists, alive, inbox, turn, events, inTurn, bounds,
                 history>>

\* Mutant: an engine's exit is not a turn's end.
ReaderTracksStopOnly ==
  /\ reader.old = "exited"
  /\ reader' = [reader EXCEPT !.old = "read"]
  /\ inTurn' = FALSE
  /\ UNCHANGED <<now, store, disk, fire, op, exists, engine, bounds, history>>

ReaderTracksStop ==
  /\ reader.old = "exited"
  /\ reader' = [reader EXCEPT !.old = "ended"]
  /\ inTurn' = FALSE
  /\ UNCHANGED <<now, store, disk, fire, op, exists, engine, bounds, history>>

Awaiting == {i \in Ids : entries[i].awaiting}
Default(es, at) ==
  [i \in DOMAIN es |->
     IF es[i].awaiting THEN [es[i] EXCEPT !.awaiting = FALSE, !.at = at + selfPaceDefault] ELSE es[i]]

\* scheduler.turnEnded; it saves when some loop was waiting.
TurnEnded(r) ==
  /\ reader[r] = "ended"
  /\ reader' = [reader EXCEPT ![r] = IF Awaiting = {} THEN "read" ELSE "save"]
  /\ entries' = Default(entries, now)
  /\ UNCHANGED <<now, next, disk, fire, op, exists, engine, inTurn, bounds, history>>

ReaderSaves(r) ==
  /\ reader[r] = "save"
  /\ reader' = [reader EXCEPT ![r] = "read"]
  /\ Saves
  /\ UNCHANGED <<now, store, fire, op, exists, engine, inTurn, bounds, history>>

ReaderStep ==
  \/ ReadEvent \/ ReaderExits \/ ReaderTracksStop
  \/ \E r \in {"cur", "old"} : TurnEnded(r) \/ ReaderSaves(r)

-----------------------------------------------------------------------------
Tick ==
  /\ now < MaxTime
  /\ now' = now + 1
  /\ UNCHANGED <<store, disk, fire, op, reader, exists, engine, inTurn, bounds, history>>

\* dund dies, its engines with it, and the next one loads the file: a loop that
\* was waiting for its turn to end gets its default.
Crash ==
  /\ crashes < MaxCrashes
  /\ crashes' = crashes + 1
  /\ next' = disk.next
  /\ entries' = Default(disk.entries, now)
  /\ fire' = FireIdle /\ op' = OpIdle /\ reader' = [cur |-> "read", old |-> "read"]
  /\ running' = FALSE /\ alive' = FALSE /\ inbox' = 0 /\ turn' = FALSE /\ events' = <<>>
  /\ inTurn' = FALSE
  /\ last' = [i \in Id |-> IF i \in DOMAIN disk.entries
                              /\ disk.entries[i].at = last[i] + Every THEN last[i] ELSE Never]
  /\ UNCHANGED <<now, disk, exists, says, ops, sent>>

Next ==
  \/ FireStep \/ OpStep \/ ReaderStep
  \/ \E k \in Kinds, at \in Soon : Add(k, at)
  \/ \E i \in Id : Cancel(i) \/ LoopCtlPicks(i) \/ \E at \in Soon : Push(i, at)
  \/ Forget
  \/ PersonSends \/ EngineTakes \/ EngineTurnEnds \/ EngineDies
  \/ Tick \/ Crash

Spec == Init /\ [][Next]_vars

-----------------------------------------------------------------------------
(* Properties *)

Entry == [kind : {"once", "every", "self"}, at : Time, awaiting : BOOLEAN, fired : Time]

\* A one-shot message is delivered at most once, also when dund dies between
\* any two steps of a firing: it is off the file before it is sent
\* (schedule.go 246-263).
OneShotOnce ==
  [][\A f \in fire.todo \ fire'.todo : inbox' # inbox => f.id \notin sent]_vars

\* A fixed loop nobody moved fires at least its interval apart, after a long
\* wait or a restart too: missed firings are not a burst (schedule.go 46-47).
Refires(i) ==
  /\ fire.at = "mark" /\ \E f \in fire'.todo : f.id = i
  /\ entries[i].kind = "every" /\ last[i] # Never

NoBurst == [][\A i \in Ids : Refires(i) => last'[i] >= last[i] + Every]_vars

\* A self-paced loop with no time is never left that way: the end of some turn
\* is still to reach the scheduler, or the firing itself to be sent
\* (docs/scheduling.md 74-77).
AwaitingHasEnd ==
  Awaiting \ InHand # {} =>
    \/ alive /\ (inbox > 0 \/ turn)
    \/ \E k \in DOMAIN events : events[k] = "done"
    \/ running /\ ~alive
    \/ \E r \in {"cur", "old"} : reader[r] \in {"exited", "ended"}

\* Once nobody is between a change and its save, the file holds the entries as
\* they are; a loop written as waiting may have had its default at the load.
DiskCurrent ==
  fire.at = "idle" /\ op.at \notin {"save", "drop"} /\ reader.cur # "save" /\ reader.old # "save" =>
    /\ disk.next = next /\ DOMAIN disk.entries = Ids
    /\ \A i \in Ids : disk.entries[i] = entries[i] \/ disk.entries[i].awaiting
=============================================================================

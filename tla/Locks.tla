------------------------------- MODULE Locks -------------------------------
(***************************************************************************)
(* The mutexes of internal/dund and the pipes of one session's engine: who *)
(* takes what while holding what, in session.go, service.go, schedule.go,  *)
(* upgrade.go and server.go.                                               *)
(*                                                                         *)
(* A goroutine is the steps it has left. An operation's script is the      *)
(* sequence of lock sections its code makes; what it does in them is the   *)
(* other modules' matter. The event reader and the engine process are      *)
(* goroutines too: a write to an engine that does not read blocks, and an  *)
(* engine blocks when its events are not read.                             *)
(***************************************************************************)
EXTENDS Naturals, Sequences, FiniteSets

CONSTANTS
  Caller,     \* goroutines that call the service
  Ops,        \* the operations they call, a subset of AllOps
  PipeCap,    \* bound: frames a pipe holds
  MayHang     \* an engine may stop reading its input

\* svc is Service.mu, ses session.mu, act session.actMu, log Log.mu, sched and
\* schedSave the scheduler's two, save Service.saveMu, up upgrader.mu, conn
\* conn.mu, srv Server.mu.
Lock == {"svc", "ses", "act", "log", "sched", "schedSave", "save", "up", "conn", "srv"}

\* List, Stop, Forget, Waiting, schedOp and the busy of a peer take their locks as
\* parts of these do.
AllOps == {"send", "subscribe", "leave", "restart", "persist", "create", "fire", "notice",
           "upgrade", "ui", "reap", "reuse"}

ASSUME LocksAssumption == Ops \subseteq AllOps /\ PipeCap \in Nat \ {0} /\ MayHang \in BOOLEAN

VARIABLES
  todo,      \* per goroutine: the steps it has left
  owner,     \* per lock: who holds it, or None
  running,   \* session.running
  alive,     \* the engine's process is
  hung,      \* and does not read
  stdin, out,   \* frames in its pipes
  owed       \* it has an event to write before it reads on

lockVars == <<todo, owner, running, alive, hung, stdin, out, owed>>

Reader == "reader"
Engine == "engine"
None == "none"
Goroutine == Caller \union {Reader}

ASSUME CallerAssumption == Caller \intersect {Reader, Engine, None} = {}

-----------------------------------------------------------------------------
(* Scripts *)

Step(do, on) == <<[do |-> do, on |-> on]>>
With(m, body) == Step("lock", m) \o body \o Step("unlock", m)

\* A section in which nothing else is waited for: one step.
Take(m) == Step("take", m)

\* session.touch, session.track, session.busy: the leaf lock.
Touch == Take("act")

\* Mutant: the reader notes what the engine does under mu.
TrackUnderMu == Take("ses")

Track == Touch

IsClosing == Take("svc")

\* Where the engine runs already, only ses.mu is taken (see Ensure).
EnsureRunning == With("ses", Step("ensure", None))
Starts == IsClosing \o Take("log") \o Step("spawn", None)

Write == With("ses", Step("write", None))
Send == Touch \o EnsureRunning \o Write

\* session.stop, whose frame is written outside the lock.
Stop == Take("ses") \o Step("write", None) \o Step("await", None)

\* Service.Get and the loops over Service.all take svc and nothing under it.
Get == Take("svc")
All == Take("svc")

SaveRegistry == With("save", With("svc", Take("act")))
Changed == With("schedSave", Take("sched"))
TurnEnded == Take("sched") \o Changed

Subscribe == Touch \o Take("ses") \o Take("log") \o With("conn", Take("log")) \o EnsureRunning
DropIfEmpty == Take("ses") \o Take("sched") \o Take("log") \o Take("svc") \o SaveRegistry
Waiting == All \o Take("ses") \o Touch

\* session.persists and session.idle of each session, and the stop of an idle one.
ReapOnce ==
  With("svc", Take("ses") \o Take("log") \o Take("ses") \o Touch) \o Take("log") \o Stop
    \o DropIfEmpty

\* session.reusable and session.claim, under the service's lock.
CreateOrReuse == With("svc", Take("log") \o Take("ses") \o Take("ses") \o Touch)

Restart == Get \o Stop \o Take("ses") \o SaveRegistry \o EnsureRunning
Create == IsClosing \o With("ses", Take("log")) \o Touch \o Take("svc") \o SaveRegistry
Leave == With("conn", Take("log")) \o Get \o Take("ses") \o Take("log") \o Stop \o DropIfEmpty

SetPersist == Get \o Take("ses") \o SaveRegistry
FireDue ==
  Take("sched") \o Take("svc") \o Take("ses") \o Touch \o Take("sched") \o Changed
    \o Get \o Send \o Take("sched") \o Changed

\* upgradeLoop looks at the sessions under up.mu; noticeBusy and PrepareStop do not.
UpgradeLoop ==
  Waiting \o With("up", All \o Touch) \o Take("srv") \o Waiting \o Touch \o Send \o Touch
    \o SaveRegistry
NoticeBusy == Waiting \o Take("up") \o Take("srv") \o Touch \o Write
UIChanged == Get \o With("srv", Take("conn"))

Script(op) ==
  CASE op = "send"      -> Get \o Send
    [] op = "subscribe" -> Get \o Subscribe
    [] op = "leave"     -> Leave
    [] op = "restart"   -> Restart
    [] op = "persist"   -> SetPersist
    [] op = "create"    -> Create
    [] op = "fire"      -> FireDue
    [] op = "notice"    -> NoticeBusy
    [] op = "upgrade"   -> UpgradeLoop
    [] op = "ui"        -> UIChanged
    [] op = "reap"      -> ReapOnce
    [] op = "reuse"     -> CreateOrReuse

\* What readEvents does with an event, and after the last one.
OnEvent == Track \o Take("log") \o TurnEnded
OnExit == With("ses", Step("exited", None) \o IsClosing \o Take("log")) \o Track \o TurnEnded

-----------------------------------------------------------------------------
LocksInit ==
  /\ todo = [g \in Goroutine |-> <<>>]
  /\ owner = [m \in Lock |-> None]
  /\ running = FALSE /\ alive = FALSE /\ hung = FALSE
  /\ stdin = 0 /\ out = 0 /\ owed = FALSE

engineVars == <<running, alive, hung, stdin, out, owed>>

Begin(t) ==
  /\ todo[t] = <<>>
  /\ \E op \in Ops : todo' = [todo EXCEPT ![t] = Script(op)]
  /\ UNCHANGED <<owner, engineVars>>

Doing(g, do) == todo[g] # <<>> /\ Head(todo[g]).do = do
On(g) == Head(todo[g]).on
Then(g) == todo' = [todo EXCEPT ![g] = Tail(@)]

Acquire(g) ==
  /\ Doing(g, "lock") /\ owner[On(g)] = None
  /\ owner' = [owner EXCEPT ![On(g)] = g]
  /\ Then(g) /\ UNCHANGED engineVars

TakesAndLeaves(g) ==
  /\ Doing(g, "take") /\ owner[On(g)] = None
  /\ Then(g) /\ UNCHANGED <<owner, engineVars>>

Release(g) ==
  /\ Doing(g, "unlock")
  /\ owner' = [owner EXCEPT ![On(g)] = None]
  /\ Then(g) /\ UNCHANGED engineVars

\* ensureRunning: returns when the engine runs.
Ensure(g) ==
  /\ Doing(g, "ensure")
  /\ todo' = [todo EXCEPT ![g] = IF running THEN Tail(@) ELSE Starts \o Tail(@)]
  /\ UNCHANGED <<owner, engineVars>>

Spawn(g) ==
  /\ Doing(g, "spawn")
  /\ running' = TRUE /\ alive' = TRUE /\ hung' = FALSE
  /\ stdin' = 0 /\ out' = 0 /\ owed' = FALSE
  /\ Then(g) /\ UNCHANGED owner

\* A frame for the engine: nothing to write to, a broken pipe, or room.
Write1(g) ==
  /\ Doing(g, "write")
  /\ IF alive THEN stdin < PipeCap /\ stdin' = stdin + 1 ELSE UNCHANGED stdin
  /\ Then(g) /\ UNCHANGED <<owner, running, alive, hung, out, owed>>

\* stop's wait: the engine ended, or is killed, or was another one by now.
Await(g) ==
  /\ Doing(g, "await")
  /\ alive' \in {FALSE, alive}
  /\ Then(g) /\ UNCHANGED <<owner, running, hung, stdin, out, owed>>

Exited(g) ==
  /\ Doing(g, "exited")
  /\ running' = FALSE
  /\ Then(g) /\ UNCHANGED <<owner, alive, hung, stdin, out, owed>>

ReaderReads ==
  /\ todo[Reader] = <<>> /\ out > 0
  /\ out' = out - 1
  /\ todo' = [todo EXCEPT ![Reader] = OnEvent]
  /\ UNCHANGED <<owner, running, alive, hung, stdin, owed>>

ReaderEnds ==
  /\ todo[Reader] = <<>> /\ out = 0 /\ running /\ ~alive
  /\ todo' = [todo EXCEPT ![Reader] = OnExit]
  /\ UNCHANGED <<owner, engineVars>>

EngineReads ==
  /\ alive /\ ~hung /\ ~owed /\ stdin > 0
  /\ stdin' = stdin - 1 /\ owed' = TRUE
  /\ UNCHANGED <<todo, owner, running, alive, hung, out>>

EngineWrites ==
  /\ alive /\ owed /\ out < PipeCap
  /\ out' = out + 1 /\ owed' = FALSE
  /\ UNCHANGED <<todo, owner, running, alive, hung, stdin>>

EngineHangs ==
  /\ MayHang /\ alive /\ ~hung
  /\ hung' = TRUE
  /\ UNCHANGED <<todo, owner, running, alive, stdin, out, owed>>

Do(g) ==
  \/ Acquire(g) \/ TakesAndLeaves(g) \/ Release(g)
  \/ Ensure(g) \/ Spawn(g) \/ Write1(g) \/ Await(g) \/ Exited(g)

LocksNext ==
  \/ \E t \in Caller : Begin(t)
  \/ \E g \in Goroutine : Do(g)
  \/ ReaderReads \/ ReaderEnds
  \/ EngineReads \/ EngineWrites \/ EngineHangs

LocksSpec == LocksInit /\ [][LocksNext]_lockVars

-----------------------------------------------------------------------------
(* Properties *)

\* Whom a goroutine, or the engine, waits for.
WaitsFor(g) ==
  IF g = Engine
  THEN IF alive /\ owed /\ out = PipeCap THEN {Reader} ELSE {}
  ELSE IF (Doing(g, "lock") \/ Doing(g, "take")) /\ owner[On(g)] # None THEN {owner[On(g)]}
  ELSE IF Doing(g, "write") /\ alive /\ stdin = PipeCap THEN {Engine}
  ELSE {}

\* The reaper and CreateOrReuse wait for a session's lock under the service's,
\* which whoever starts that session's engine takes the other way round.
SessionUnderService(g) ==
  g # Engine /\ owner["svc"] = g /\ (Doing(g, "lock") \/ Doing(g, "take")) /\ On(g) = "ses"

\* Nobody but through those two ever waits for someone who waits, in the end, for
\* him: not through the locks, not through the engine's pipes. And the reader
\* never waits for an engine that has stopped reading, though callers do
\* (session.go 67-69: it "must never wait on mu, which send holds while writing
\* to an engine").
NoMutualWait ==
  \A waiters \in SUBSET (Goroutine \union {Engine}) :
    waiters # {} /\ (\A g \in waiters : ~SessionUnderService(g)) => \E g \in waiters :
      /\ WaitsFor(g) \intersect waiters = {}
      /\ ~(Reader \in waiters /\ g = Engine /\ alive /\ hung)
=============================================================================

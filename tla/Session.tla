------------------------------ MODULE Session ------------------------------
(***************************************************************************)
(* One session object of dund and its engine processes:                    *)
(* internal/dund/session.go and the operations of                          *)
(* internal/dund/service.go that start and stop engines. Each create makes *)
(* an object of its own; two of one conversation (service.go 197-221) have *)
(* nothing in common but s.sessions, where the later displaces the other   *)
(* (Displaced). Each then has its engines: what is said of an object here  *)
(* is not said of the conversation.                                        *)
(*                                                                         *)
(* Callers (clients' commands, the idle reaper, Close, restart timers) run *)
(* concurrently. A stretch of code under one lock is one action; between   *)
(* two of them any other caller may run. s.mu guards registered and        *)
(* closing, ses.mu the engine fields, actMu inTurn and fresh. ses.gaveUp   *)
(* is read nowhere, and left out.                                          *)
(***************************************************************************)
EXTENDS Naturals, Sequences

CONSTANTS
  Caller,       \* goroutines that call into the service
  Ops,          \* the operations they call, a subset of AllOps
  MaxCalls,     \* bound: operations begun
  MaxCrashes,   \* bound: engines that die on their own
  MaxEngines,   \* bound: engines ever started
  RestartMax,   \* restartMax: automatic restarts per window
  OutputHeld    \* a child of an engine that is gone may hold its output open

AllOps == {"create", "send", "open", "stop", "leave", "restart", "forget",
           "persist", "reap", "close"}

ASSUME SessionAssumption ==
  /\ Ops \subseteq AllOps
  /\ MaxCalls \in Nat /\ MaxCrashes \in Nat /\ MaxEngines \in Nat \ {0} /\ RestartMax \in Nat
  /\ OutputHeld \in BOOLEAN

Engine == 1..MaxEngines
None == 0

VARIABLES
  registered,   \* the session is in s.sessions
  logOpen,      \* its log is not closed
  closing,      \* s.closing
  persist,      \* ses.persist
  eng,          \* ses.eng; running is eng # None
  stopping, restarts,
  told,         \* the log said gave_up, after its last started, stopped or restarting
  windowOver,   \* restartWindow has passed since restartStart
  armed,        \* restart timers (AfterFunc) not fired yet
  checked,      \* fired, and past the stopping check
  failed,       \* could start no engine, and have not logged so yet
  inTurn,       \* what the events say: the engine is occupied
  fresh,        \* lastActive is less than the idle stop ago
  attached,     \* a client is subscribed
  asked,        \* the transcript holds a user message
  est,          \* each engine process: "free", "idle", "turn", "gone", or "held":
                \* gone, but a child of it has its output open
  stdin,        \* frames written to it and not read
  stdout,       \* events it wrote, not read by dund
  reader,       \* its readEvents goroutine
  th,           \* what each caller does
  calls, crashes

serviceVars == <<registered, logOpen, closing, persist>>
engVars == <<eng, stopping, told, restarts, windowOver>>
timerVars == <<armed, checked, failed>>
actVars == <<inTurn, fresh>>
procVars == <<est, stdin, stdout, reader, asked>>
vars == <<serviceVars, engVars, timerVars, actVars, procVars, attached, th, calls, crashes>>

Idle == [op |-> "none", at |-> "idle", e |-> None]
Alive(e) == est[e] \in {"idle", "turn"}

Init ==
  /\ registered = FALSE /\ logOpen = TRUE /\ closing = FALSE /\ persist = FALSE
  /\ eng = None /\ stopping = FALSE /\ told = FALSE /\ restarts = 0 /\ windowOver = TRUE
  /\ armed = 0 /\ checked = 0 /\ failed = 0
  /\ inTurn = FALSE /\ fresh = FALSE /\ attached = FALSE /\ asked = FALSE
  /\ est = [e \in Engine |-> "free"]
  /\ stdin = [e \in Engine |-> <<>>]
  /\ stdout = [e \in Engine |-> <<>>]
  /\ reader = [e \in Engine |-> "none"]
  /\ th = [t \in Caller |-> Idle]
  /\ calls = 0 /\ crashes = 0

At(t, step) == th[t].at = step
Go(t, step) == th' = [th EXCEPT ![t].at = step]
End(t) == th' = [th EXCEPT ![t] = Idle]

-----------------------------------------------------------------------------
(* Starting an engine                                                       *)

\* Spawner.Spawn: the next unused engine process starts.
Spawned(e, step) ==
  /\ est[e] = "free" /\ \A f \in 1..(e - 1) : est[f] # "free"
  /\ est' = [est EXCEPT ![e] = "idle"]
  /\ reader' = [reader EXCEPT ![e] = step]
  /\ UNCHANGED <<stdin, stdout, asked>>

\* session.attach: a stop asked for before is forgotten.
Attached(e) ==
  /\ eng' = e
  /\ stopping' = FALSE /\ told' = FALSE
  /\ UNCHANGED <<restarts, windowOver>>

\* Mutant: starts an engine without looking for a running one.
EnsureAlways(e) == ~closing /\ Spawned(e, "read") /\ Attached(e)

\* Mutant: isClosing is not asked.
EnsureIgnoresClosing(e) == eng = None /\ Spawned(e, "read") /\ Attached(e)

\* session.ensureRunning starts one when none runs and the service is not
\* closing (one ses.mu section, the spawn included).
EnsureStarts(e) == eng = None /\ ~closing /\ Spawned(e, "read") /\ Attached(e)

\* session.ensureRunning leaves an engine: one it started or one that runs.
EnsureRunning ==
  \/ \E e \in Engine : EnsureStarts(e)
  \/ eng # None /\ UNCHANGED <<engVars, procVars>>

\* It fails when the service is closing, or when Spawn does.
EnsureFails == eng = None /\ UNCHANGED <<engVars, procVars>>

-----------------------------------------------------------------------------
(* The engine process                                                       *)

EngineOnly == UNCHANGED <<serviceVars, engVars, timerVars, actVars, attached, th, calls,
                          reader>>

\* Reads a message: a turn starts, or the running one takes it.
EngineTakes(e) ==
  /\ Alive(e) /\ stdin[e] # <<>> /\ Head(stdin[e]) = "msg"
  /\ stdin' = [stdin EXCEPT ![e] = Tail(@)]
  /\ est' = [est EXCEPT ![e] = "turn"]
  /\ stdout' = IF est[e] = "turn" THEN stdout ELSE [stdout EXCEPT ![e] = Append(@, "turn")]
  /\ asked' = TRUE
  /\ EngineOnly /\ UNCHANGED crashes

EngineTurnEnds(e) ==
  /\ est[e] = "turn"
  /\ est' = [est EXCEPT ![e] = "idle"]
  /\ stdout' = [stdout EXCEPT ![e] = Append(@, "done")]
  /\ EngineOnly /\ UNCHANGED <<stdin, asked, crashes>>

\* The process is gone, with whatever it had not read.
Dies(e) ==
  /\ \E as \in IF OutputHeld THEN {"gone", "held"} ELSE {"gone"} :
       est' = [est EXCEPT ![e] = as]
  /\ stdin' = [stdin EXCEPT ![e] = <<>>]

EngineObeysStop(e) ==
  /\ Alive(e) /\ stdin[e] # <<>> /\ Head(stdin[e]) = "stop"
  /\ Dies(e)
  /\ EngineOnly /\ UNCHANGED <<stdout, asked, crashes>>

EngineCrashes(e) ==
  /\ Alive(e) /\ reader[e] # "naming" /\ crashes < MaxCrashes
  /\ crashes' = crashes + 1
  /\ Dies(e)
  /\ EngineOnly /\ UNCHANGED <<stdout, asked>>

OutputCloses(e) ==
  /\ est[e] = "held"
  /\ est' = [est EXCEPT ![e] = "gone"]
  /\ EngineOnly /\ UNCHANGED <<stdin, stdout, asked, crashes>>

-----------------------------------------------------------------------------
(* readEvents                                                               *)

\* session.track of a turn's start or end.
ReadEvent(e) ==
  /\ reader[e] = "read" /\ stdout[e] # <<>>
  /\ stdout' = [stdout EXCEPT ![e] = Tail(@)]
  /\ inTurn' = (Head(stdout[e]) = "turn")
  /\ fresh' = TRUE
  /\ UNCHANGED <<serviceVars, engVars, timerVars, attached, th, calls, crashes, est, stdin,
                 reader, asked>>

\* Mutant: a crash is logged and nothing restarts it.
RestartNever == told' = FALSE /\ UNCHANGED <<restarts, windowOver, armed>>

\* session.exited past its early returns: restart, at most RestartMax times in
\* a window, or give up.
RestartOrGiveUp ==
  LET base == IF windowOver THEN 0 ELSE restarts IN
  /\ windowOver' = FALSE
  /\ IF base >= RestartMax
     THEN told' = TRUE /\ restarts' = base /\ UNCHANGED armed
     ELSE told' = FALSE /\ restarts' = base + 1 /\ armed' = armed + 1

\* The output ended: Wait, then session.exited (one ses.mu section).
EngineExited(e) ==
  /\ reader[e] = "read" /\ est[e] = "gone" /\ stdout[e] = <<>>
  /\ reader' = [reader EXCEPT ![e] = "exited"]
  /\ IF eng # e
     THEN UNCHANGED <<engVars, armed>>
     ELSE /\ eng' = None
          /\ UNCHANGED stopping
          /\ IF stopping \/ closing
             THEN told' = FALSE /\ UNCHANGED <<restarts, windowOver, armed>>
             ELSE RestartOrGiveUp
  /\ UNCHANGED <<serviceVars, checked, failed, actVars, attached, th, calls, crashes, est, stdin,
                 stdout, asked>>

\* Mutant: what the engine was doing is not cleared when it ends.
ReaderEndsOnly(e) ==
  /\ reader[e] = "exited"
  /\ reader' = [reader EXCEPT ![e] = "done"]
  /\ UNCHANGED <<serviceVars, engVars, timerVars, actVars, attached, th, calls, crashes, est,
                 stdin, stdout, asked>>

\* "What it was doing ended with it": track(stopped), then close(done).
ReaderEnds(e) ==
  /\ reader[e] = "exited"
  /\ reader' = [reader EXCEPT ![e] = "done"]
  /\ inTurn' = FALSE /\ fresh' = TRUE
  /\ UNCHANGED <<serviceVars, engVars, timerVars, attached, th, calls, crashes, est, stdin,
                 stdout, asked>>

\* The restart timer: reads stopping and unlocks; ensureRunning locks again.
TimerFires ==
  /\ armed > 0
  /\ armed' = armed - 1
  /\ checked' = IF stopping THEN checked ELSE checked + 1
  /\ UNCHANGED <<serviceVars, engVars, failed, actVars, procVars, attached, th, calls, crashes>>

TimerRestarts ==
  /\ checked > 0
  /\ checked' = checked - 1
  /\ \/ EnsureRunning /\ UNCHANGED failed
     \/ EnsureFails /\ failed' = failed + 1
  /\ UNCHANGED <<serviceVars, armed, actVars, attached, th, calls, crashes>>

\* Its start failed: gave_up is logged, after the unlock. Nothing tries again
\* until a person asks for the session.
TimerTells ==
  /\ failed > 0
  /\ failed' = failed - 1
  /\ told' = TRUE
  /\ UNCHANGED <<serviceVars, eng, stopping, restarts, windowOver, armed, checked, actVars,
                 procVars, attached, th, calls, crashes>>

-----------------------------------------------------------------------------
(* Callers                                                                  *)

\* session.idle and reapOnce's choice, made under s.mu.
Reapable == registered /\ ~persist /\ ~attached /\ eng # None /\ ~inTurn /\ ~fresh

\* The operation's first look at the service: Get, or what stands for it.
Begins(op) ==
  CASE op = "create" -> ~registered /\ ~closing /\ est[1] = "free"
    [] op = "reap"   -> Reapable /\ \A t \in Caller : th[t].op # "reap"
    [] op = "close"  -> ~closing
    [] op = "leave"  -> registered /\ ~persist /\ ~attached
    [] OTHER         -> registered

FirstStep(op) ==
  CASE op = "create" -> "spawn"
    [] op = "open"   -> "subscribe"
    [] op = "send"   -> "ensure"
    [] op = "persist" -> "persist"
    [] OTHER -> "stop"

\* One create makes this object; the others make theirs.
Begin(t) ==
  /\ At(t, "idle") /\ calls < MaxCalls
  /\ calls' = calls + 1
  /\ \E op \in Ops :
       /\ Begins(op)
       /\ op = "create" => \A u \in Caller : th[u].op # "create"
       /\ th' = [th EXCEPT ![t] =
                   IF op = "close" /\ ~registered THEN Idle
                   ELSE [op |-> op, at |-> FirstStep(op), e |-> None]]
       /\ closing' = (closing \/ op = "close")
       /\ fresh' = (fresh \/ op = "send")       \* session.touch
  /\ UNCHANGED <<registered, logOpen, persist, engVars, timerVars, inTurn, procVars,
                 attached, crashes>>

\* create: Spawn; the engine names the session; attach; then s.sessions gets it.
CreateSpawns(t) ==
  /\ At(t, "spawn") /\ Go(t, "name")
  /\ \E e \in Engine : Spawned(e, "naming")
  /\ UNCHANGED <<serviceVars, engVars, timerVars, actVars, attached, calls, crashes>>

\* Spawn fails, or the engine is killed or gone before it named the session.
CreateFails(t) ==
  /\ \/ At(t, "spawn") /\ UNCHANGED procVars
     \/ /\ At(t, "name")
        /\ \E e \in Engine :
             /\ reader[e] = "naming"
             /\ reader' = [reader EXCEPT ![e] = "done"]
             /\ Dies(e)
        /\ UNCHANGED <<stdout, asked>>
  /\ End(t)
  /\ UNCHANGED <<serviceVars, engVars, timerVars, actVars, attached, calls, crashes>>

\* Only a create of CreateOrReuse counts as a use of it (touch).
CreateAttaches(t) ==
  /\ At(t, "name") /\ Go(t, "register")
  /\ \E e \in Engine :
       /\ reader[e] = "naming"
       /\ reader' = [reader EXCEPT ![e] = "read"]
       /\ Attached(e)
  /\ fresh' \in BOOLEAN
  /\ UNCHANGED <<serviceVars, timerVars, inTurn, attached, calls, crashes, est, stdin, stdout,
                 asked>>

CreateRegisters(t) ==
  /\ At(t, "register") /\ End(t)
  /\ registered' = TRUE
  /\ UNCHANGED <<logOpen, closing, persist, engVars, timerVars, actVars, procVars, attached,
                 calls, crashes>>

\* Another create of the conversation puts its object in this one's place in
\* s.sessions, or a Forget that found that object deletes the id. This one's
\* engine, calls and subscribers go on.
Displaced ==
  /\ registered
  /\ registered' = FALSE
  /\ UNCHANGED <<logOpen, closing, persist, engVars, timerVars, actVars, procVars, attached,
                 th, calls, crashes>>

\* session.subscribe: a forgotten session's log is closed.
Subscribe(t) ==
  /\ At(t, "subscribe")
  /\ IF logOpen THEN attached' = TRUE /\ Go(t, "ensure") ELSE End(t) /\ UNCHANGED attached
  /\ fresh' = TRUE
  /\ UNCHANGED <<serviceVars, engVars, timerVars, inTurn, procVars, calls, crashes>>

Detach ==
  /\ attached
  /\ attached' = FALSE
  /\ UNCHANGED <<serviceVars, engVars, timerVars, actVars, procVars, th, calls, crashes>>

\* A client whose start failed is not subscribed (Stream and Poll close it).
Ensure(t) ==
  /\ At(t, "ensure")
  /\ \/ EnsureRunning /\ UNCHANGED attached
        /\ IF th[t].op = "send" THEN Go(t, "write") ELSE End(t)
     \/ EnsureFails /\ End(t)
        /\ attached' \in {attached, attached /\ th[t].op # "open"}
  /\ UNCHANGED <<serviceVars, timerVars, actVars, calls, crashes>>

\* send's second section: the engine may have gone since.
Write(t) ==
  /\ At(t, "write") /\ End(t)
  /\ stdin' = IF eng = None \/ ~Alive(eng) THEN stdin ELSE [stdin EXCEPT ![eng] = Append(@, "msg")]
  /\ UNCHANGED <<serviceVars, engVars, timerVars, actVars, attached, calls, crashes, est, stdout,
                 reader, asked>>

\* What follows stop in each operation.
AfterStop(op) ==
  CASE op = "restart" -> "args"
    [] op \in {"forget", "close"} -> "closelog"
    [] OTHER          -> "drop"

\* session.stop: it is marked and its engine read, under ses.mu.
StopBegins(t) ==
  /\ At(t, "stop")
  /\ stopping' = TRUE
  /\ IF eng = None
     THEN Go(t, AfterStop(th[t].op))
     ELSE th' = [th EXCEPT ![t].at = "frame", ![t].e = eng]
  /\ UNCHANGED <<serviceVars, eng, told, restarts, windowOver, timerVars, actVars, procVars,
                 attached, calls, crashes>>

\* The stop frame, under no lock; then the wait.
StopWrites(t) ==
  /\ At(t, "frame") /\ Go(t, "wait")
  /\ LET e == th[t].e IN
     stdin' = IF Alive(e) THEN [stdin EXCEPT ![e] = Append(@, "stop")] ELSE stdin
  /\ UNCHANGED <<serviceVars, engVars, timerVars, actVars, attached, calls, crashes, est, stdout,
                 reader, asked>>

StopDone(t) ==
  /\ At(t, "wait") /\ reader[th[t].e] = "done"
  /\ Go(t, AfterStop(th[t].op))
  /\ UNCHANGED <<serviceVars, engVars, timerVars, actVars, procVars, attached, calls, crashes>>

\* stopGrace passed: kill it.
StopKills(t) ==
  /\ At(t, "wait") /\ Alive(th[t].e)
  /\ Dies(th[t].e)
  /\ UNCHANGED <<serviceVars, engVars, timerVars, actVars, attached, th, calls, crashes,
                 stdout, reader, asked>>

\* Mutant: the wait for a killed engine's output has no end.
StopWaitsOn(t) == FALSE /\ UNCHANGED vars

\* stopGrace passed again and its output is still open: go on without it.
StopGivesUp(t) ==
  /\ At(t, "wait") /\ est[th[t].e] = "held"
  /\ Go(t, AfterStop(th[t].op))
  /\ UNCHANGED <<serviceVars, engVars, timerVars, actVars, procVars, attached, calls, crashes>>

\* dropIfEmpty: decided here, done in the next two steps. It keeps a session with
\* a message scheduled into it, or in a transcript from before, too.
DropChecks(t) ==
  /\ At(t, "drop")
  /\ \/ End(t)
     \/ ~persist /\ ~asked /\ Go(t, "closelog")
  /\ UNCHANGED <<serviceVars, engVars, timerVars, actVars, procVars, attached, calls, crashes>>

\* Forget, dropIfEmpty and Close: the log is closed, its subscribers dropped.
LogCloses(t) ==
  /\ At(t, "closelog")
  /\ IF th[t].op = "close" THEN End(t) ELSE Go(t, "remove")
  /\ logOpen' = FALSE /\ attached' = FALSE
  /\ UNCHANGED <<registered, closing, persist, engVars, timerVars, actVars, procVars,
                 calls, crashes>>

\* Forget and dropIfEmpty: the session is deleted.
Remove(t) ==
  /\ At(t, "remove") /\ End(t)
  /\ registered' = FALSE
  /\ UNCHANGED <<logOpen, closing, persist, engVars, timerVars, actVars, procVars, attached,
                 calls, crashes>>

\* Restart: the new flags, which nothing here tells apart, and saveRegistry,
\* which may fail.
SetFlags(t) ==
  /\ At(t, "args")
  /\ Go(t, "ensure") \/ End(t)
  /\ UNCHANGED <<serviceVars, engVars, timerVars, actVars, procVars, attached, calls, crashes>>

SetPersist(t) ==
  /\ At(t, "persist") /\ End(t)
  /\ persist' = ~persist
  /\ UNCHANGED <<registered, logOpen, closing, engVars, timerVars, actVars, procVars, attached,
                 calls, crashes>>

-----------------------------------------------------------------------------
(* Time                                                                     *)

\* The idle stop (30 minutes) is longer than any call or exit takes.
IdleStopPasses ==
  /\ fresh
  /\ \A t \in Caller : At(t, "idle")
  /\ armed = 0 /\ checked = 0 /\ failed = 0
  /\ \A e \in Engine :
       /\ reader[e] \notin {"naming", "exited"} /\ stdin[e] = <<>> /\ stdout[e] = <<>>
       /\ est[e] = "gone" => reader[e] = "done"
  /\ fresh' = FALSE
  /\ UNCHANGED <<serviceVars, engVars, timerVars, inTurn, procVars, attached, th, calls, crashes>>

RestartWindowPasses ==
  /\ ~windowOver
  /\ windowOver' = TRUE
  /\ UNCHANGED <<serviceVars, eng, stopping, told, restarts, timerVars, actVars, procVars,
                 attached, th, calls, crashes>>

-----------------------------------------------------------------------------
CallerStep(t) ==
  \/ CreateSpawns(t) \/ CreateFails(t) \/ CreateAttaches(t) \/ CreateRegisters(t)
  \/ Subscribe(t) \/ Ensure(t) \/ Write(t)
  \/ StopBegins(t) \/ StopWrites(t) \/ StopDone(t) \/ StopGivesUp(t)
  \/ DropChecks(t) \/ LogCloses(t) \/ Remove(t) \/ SetFlags(t) \/ SetPersist(t)

ReaderStep(e) == ReadEvent(e) \/ EngineExited(e) \/ ReaderEnds(e)

Next ==
  \/ \E t \in Caller : Begin(t) \/ CallerStep(t) \/ StopKills(t)
  \/ \E e \in Engine :
       \/ EngineTakes(e) \/ EngineTurnEnds(e) \/ EngineObeysStop(e) \/ EngineCrashes(e)
       \/ OutputCloses(e)
       \/ ReaderStep(e)
  \/ TimerFires \/ TimerRestarts \/ TimerTells
  \/ Displaced \/ Detach \/ IdleStopPasses \/ RestartWindowPasses

\* dund's goroutines and timers run on; engines, their children and clients owe
\* nothing. The output of an engine that is gone without such a child ends.
Fairness ==
  /\ \A t \in Caller : WF_vars(CallerStep(t)) /\ WF_vars(StopKills(t))
  /\ \A e \in Engine : WF_vars(ReaderStep(e))
  /\ WF_vars(TimerFires) /\ WF_vars(TimerRestarts) /\ WF_vars(TimerTells)

Spec == Init /\ [][Next]_vars
FairSpec == Spec /\ Fairness

-----------------------------------------------------------------------------
(* Properties *)

\* A session object never has two engines at work, whoever starts, stops,
\* restarts or reaps it and however the timers fall (session.go 326-343): eng is
\* cleared only when the engine it names is gone, so that a start that finds it
\* empty starts the only one. Of a conversation this holds while one object has it.
OneEngine == \A e, f \in Engine : Alive(e) /\ Alive(f) => e = f

\* A session whose engines have all ended, and been read to the end, does not
\* count as busy (session.go 261-264: "a turn cut by a stop stayed 'in a turn'").
NotBusyWhenStopped ==
  eng = None /\ (\A e \in Engine : reader[e] \in {"none", "naming", "done"}) => ~inTurn

\* An engine that dies is replaced by another, or the log tells the clients that
\* it is not (gave_up: the restarts of this window are used up, or the one start
\* the timer tries failed), unless someone asked for a stop (session.go 287-322).
RestartComesBack ==
  \A e \in Engine : (eng = e /\ est[e] = "gone")
                     ~> (eng \notin {None, e} \/ stopping \/ closing \/ (eng = None /\ told))

\* stop returns, even of an engine that ignores the stop frame and whose child
\* holds its output open after the kill (session.go 417-422).
StopReturns == \A t \in Caller : At(t, "wait") ~> ~At(t, "wait")

\* A session Close found is stopped for good: its engine ends, and no command
\* or timer that was under way starts another (service.go 672-673).
CloseStops == (\E t \in Caller : th[t].op = "close") ~> [](\A e \in Engine : ~Alive(e))
=============================================================================

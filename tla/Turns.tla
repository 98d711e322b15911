------------------------------- MODULE Turns -------------------------------
(***************************************************************************)
(* One engine's input and its turns: cmd/dun/inputstream.go (the scanner), *)
(* the loop of cmd/dun/engine.go (runProgrammatic, continueTurn, turn,     *)
(* drainStep), and the harness under them: the buffer of queue.go,         *)
(* Continue and prepareTurn of turn.go, Ask, Interrupt, and as much of     *)
(* bgjob.go as announces a job's end.                                      *)
(*                                                                         *)
(* The scanner, the loop and the jobs are goroutines that share the        *)
(* buffer, the flags and two unbuffered channels (users, answers). A       *)
(* section under a lock, an atomic load or store and a channel operation   *)
(* are one step each. A message is a number; what the model is given of it *)
(* is not looked at, only where it is.                                     *)
(***************************************************************************)
EXTENDS Naturals, Sequences, FiniteSets, Functions

CONSTANTS
  LineKinds, \* of lines the clients write, a subset of AllKinds
  MaxLines,  \* bound: lines they write
  MaxJobs,   \* bound: background jobs started
  MaxAsks,   \* bound: questions the model asks
  MaxFails   \* bound: attempts of a turn that fail

AllKinds == {"user", "image", "answer", "interrupt", "unqueue", "eof", "stop"}

ASSUME TurnsAssumption ==
  /\ LineKinds \subseteq AllKinds
  /\ MaxLines \in Nat /\ MaxJobs \in Nat /\ MaxAsks \in Nat /\ MaxFails \in Nat

Msg == 1..MaxLines                            \* messages of the person's, by their line
News == (MaxLines + 1)..(MaxLines + MaxJobs)  \* a job, and its completion note

VARIABLES
  written,       \* lines written
  left,          \* the clients' last line was written
  pipe,          \* lines not read
  scanner,       \* the input reader: where it is and what it holds
  closed,        \* users is closed, by "eof" or "stop"
  held, heldSig, \* inputStream.held and heldCh
  queue,         \* Harness.queue
  stored, fresh, \* the conversation, and what of it no turn claimed
  back,          \* messages taken back by an unqueue
  wake,          \* Harness.wake
  loop,          \* the turn loop: where it is, the kind of its turn and its message
  usersNil,      \* it waits for no more input
  auto,          \* autoContinue
  active,        \* turnActive
  cancel,        \* interruptState.intCancel is set
  interrupting,  \* interruptState.interrupting
  cut,           \* the turn's context is cancelled
  failed,        \* the turn's last attempt failed for good
  asked, fails,  \* questions asked, attempts failed
  jobs           \* per job: none, running, ended, said (noted), done

clients == <<written, left, pipe>>
stream == <<scanner, closed, held, heldSig>>
buffer == <<queue, back>>
convo == <<stored, fresh>>
driver == <<loop, usersNil, auto, active, failed>>
interrupt == <<cancel, interrupting, cut>>
counts == <<asked, fails>>
turnsVars == <<clients, stream, buffer, convo, wake, driver, interrupt, counts, jobs>>

Reads == [at |-> "read", msg |-> 0]
IsUser(m) == m \in Msg
IsNews(m) == m \in News
BackgroundRunning == Cardinality({n \in News : jobs[n] = "running"})

\* Harness.Pending: something a turn would have to be run for.
Pending == queue # <<>> \/ fresh # {}

TurnsInit ==
  /\ written = 0 /\ left = FALSE /\ pipe = <<>>
  /\ scanner = Reads /\ closed = "no" /\ held = <<>> /\ heldSig = FALSE
  /\ queue = <<>> /\ back = {} /\ stored = {} /\ fresh = {} /\ wake = FALSE
  /\ loop = [at |-> "top", kind |-> "none", msg |-> 0]
  /\ usersNil = FALSE /\ auto = TRUE /\ active = FALSE /\ failed = FALSE
  /\ cancel = FALSE /\ interrupting = FALSE /\ cut = FALSE
  /\ asked = 0 /\ fails = 0 /\ jobs = [n \in News |-> "none"]

-----------------------------------------------------------------------------
(* The clients: any of them, also two at once, so an answer may be to a       *)
(* question that is closed by then.                                           *)

Line(kind) ==
  IF kind \in {"user", "image"} THEN {[kind |-> kind, id |-> written + 1]}
  ELSE IF kind = "answer" THEN {[kind |-> kind, id |-> q] : q \in 1..asked}
  ELSE {[kind |-> kind, id |-> 0]}

Writes ==
  /\ ~left /\ written < MaxLines
  /\ \E kind \in LineKinds : \E line \in Line(kind) :
       /\ pipe' = Append(pipe, line)
       /\ left' = (kind \in {"eof", "stop"})
  /\ written' = written + 1
  /\ UNCHANGED <<stream, buffer, convo, wake, driver, interrupt, counts, jobs>>

-----------------------------------------------------------------------------
(* The scanner *)

Hears(kind) ==
  /\ scanner.at = "read" /\ pipe # <<>> /\ Head(pipe).kind = kind
  /\ pipe' = Tail(pipe)
  /\ UNCHANGED <<written, left>>

\* midTurn asks turnActive; a message it does not take is for the loop.
HearsUser ==
  /\ Hears("user")
  /\ scanner' = [at |-> IF active THEN "routed" ELSE "offers", msg |-> Head(pipe).id]
  /\ UNCHANGED <<closed, held, heldSig, buffer, convo, wake, driver, interrupt, counts, jobs>>

\* Mutant: the message is buffered and offered to the loop as well.
SaysAndOffers ==
  /\ scanner.at = "routed"
  /\ queue' = Append(queue, scanner.msg)
  /\ scanner' = [scanner EXCEPT !.at = "offers"]
  /\ UNCHANGED <<clients, closed, held, heldSig, back, convo, wake, driver, interrupt, counts, jobs>>

\* Harness.Say, after the echo was written.
Says ==
  /\ scanner.at = "routed"
  /\ queue' = Append(queue, scanner.msg)
  /\ scanner' = Reads
  /\ UNCHANGED <<clients, closed, held, heldSig, back, convo, wake, driver, interrupt, counts, jobs>>

\* A message with images is held for the turn after the running one.
HearsImage ==
  /\ Hears("image")
  /\ scanner' = [at |-> IF active THEN "holds" ELSE "offers", msg |-> Head(pipe).id]
  /\ UNCHANGED <<closed, held, heldSig, buffer, convo, wake, driver, interrupt, counts, jobs>>

Holds ==
  /\ scanner.at = "holds"
  /\ held' = Append(held, scanner.msg)
  /\ scanner' = [at |-> "signals", msg |-> 0]
  /\ UNCHANGED <<clients, closed, heldSig, buffer, convo, wake, driver, interrupt, counts, jobs>>

\* Mutant: nobody is told.
SignalsNobody ==
  /\ scanner.at = "signals" /\ scanner' = Reads
  /\ UNCHANGED <<clients, closed, held, heldSig, buffer, convo, wake, driver, interrupt, counts, jobs>>

Signals ==
  /\ scanner.at = "signals" /\ scanner' = Reads
  /\ heldSig' = TRUE
  /\ UNCHANGED <<clients, closed, held, buffer, convo, wake, driver, interrupt, counts, jobs>>

HearsAnswer ==
  /\ Hears("answer")
  /\ scanner' = [at |-> "answers", msg |-> Head(pipe).id]
  /\ UNCHANGED <<closed, held, heldSig, buffer, convo, wake, driver, interrupt, counts, jobs>>

\* Harness.Interrupt.
HearsInterrupt ==
  /\ Hears("interrupt")
  /\ interrupting' = (interrupting \/ cancel) /\ cut' = (cut \/ cancel)
  /\ UNCHANGED <<stream, buffer, convo, wake, driver, cancel, counts, jobs>>

\* The notes of a buffer, in its order.
KeptNews(s) ==
  LET f[n \in 0..Len(s)] ==
        IF n = 0 THEN <<>> ELSE IF IsNews(s[n]) THEN Append(f[n - 1], s[n]) ELSE f[n - 1]
  IN  f[Len(s)]

\* Harness.Unqueue.
HearsUnqueue ==
  /\ Hears("unqueue")
  /\ queue' = KeptNews(queue)
  /\ back' = back \union {m \in Range(queue) : IsUser(m)}
  /\ UNCHANGED <<stream, convo, wake, driver, interrupt, counts, jobs>>

HearsEnd ==
  /\ Hears("eof") \/ Hears("stop")
  /\ closed' = Head(pipe).kind /\ scanner' = [at |-> "done", msg |-> 0]
  /\ UNCHANGED <<held, heldSig, buffer, convo, wake, driver, interrupt, counts, jobs>>

ScannerStep ==
  \/ HearsUser \/ Says \/ HearsImage \/ Holds \/ Signals
  \/ HearsAnswer \/ HearsInterrupt \/ HearsUnqueue \/ HearsEnd

-----------------------------------------------------------------------------
(* The loop between turns *)

To(at) == loop' = [loop EXCEPT !.at = at]
Begins(kind, msg) == loop' = [at |-> "begin", kind |-> kind, msg |-> msg]
SameTurn == UNCHANGED <<clients, buffer, convo, active, failed, interrupt, counts, jobs>>

TakesHeld ==
  /\ loop.at = "top" /\ held # <<>>
  /\ held' = Tail(held) /\ Begins("user", Head(held))
  /\ UNCHANGED <<scanner, closed, heldSig, wake, usersNil, auto>> /\ SameTurn

FindsNoneHeld ==
  /\ loop.at = "top" /\ held = <<>>
  /\ To("pend")
  /\ UNCHANGED <<stream, wake, usersNil, auto>> /\ SameTurn

LooksForPending ==
  /\ loop.at = "pend"
  /\ IF auto /\ Pending THEN Begins("continue", 0) ELSE To(IF usersNil THEN "drain" ELSE "select")
  /\ UNCHANGED <<stream, wake, usersNil, auto>> /\ SameTurn

SelectsHeld ==
  /\ loop.at = "select" /\ heldSig
  /\ heldSig' = FALSE /\ To("top")
  /\ UNCHANGED <<scanner, closed, held, wake, usersNil, auto>> /\ SameTurn

SelectsUser ==
  /\ loop.at = "select" /\ scanner.at = "offers"
  /\ scanner' = Reads /\ Begins("user", scanner.msg)
  /\ UNCHANGED <<closed, held, heldSig, wake, usersNil, auto>> /\ SameTurn

SelectsClosed ==
  /\ loop.at = "select" /\ closed # "no"
  /\ usersNil' = TRUE
  /\ To(IF closed = "stop" THEN "stopped" ELSE "top")
  /\ UNCHANGED <<stream, wake, auto>> /\ SameTurn

SelectsWake ==
  /\ loop.at = "select" /\ wake
  /\ wake' = FALSE /\ Begins("continue", 0)
  /\ UNCHANGED <<stream, usersNil, auto>> /\ SameTurn

\* drainStep: a running job's wake is waited for, else one is taken if there.
DrainLooks ==
  /\ loop.at = "drain"
  /\ To(IF BackgroundRunning > 0 THEN "drainwait" ELSE "drainwake")
  /\ UNCHANGED <<stream, wake, usersNil, auto>> /\ SameTurn

DrainWakes ==
  /\ loop.at \in {"drainwait", "drainwake"}
  /\ \/ wake /\ wake' = FALSE /\ Begins("drain", 0)
     \/ loop.at = "drainwake" /\ ~wake /\ To("drainpend") /\ UNCHANGED wake
  /\ UNCHANGED <<stream, usersNil, auto>> /\ SameTurn

\* Mutant: with no job running there is nothing left.
DrainEndsAtOnce ==
  /\ loop.at = "drainpend" /\ To("drained")
  /\ UNCHANGED <<stream, wake, usersNil, auto>> /\ SameTurn

DrainEnds ==
  /\ loop.at = "drainpend"
  /\ IF Pending THEN Begins("drain", 0) ELSE To("drained")
  /\ UNCHANGED <<stream, wake, usersNil, auto>> /\ SameTurn

LoopStep ==
  \/ TakesHeld \/ FindsNoneHeld \/ LooksForPending
  \/ SelectsHeld \/ SelectsUser \/ SelectsClosed \/ SelectsWake
  \/ DrainLooks \/ DrainWakes \/ DrainEnds

-----------------------------------------------------------------------------
(* A turn *)

TurnBegins ==
  /\ loop.at = "begin"
  /\ active' = TRUE /\ failed' = FALSE /\ To("enter")
  /\ UNCHANGED <<clients, stream, buffer, convo, wake, usersNil, auto, interrupt, counts, jobs>>

\* interruptible, to the end of its locked section.
Interruptible ==
  /\ loop.at = "enter"
  /\ cancel' = TRUE /\ cut' = FALSE /\ To("prepare")
  /\ UNCHANGED <<clients, stream, buffer, convo, wake, usersNil, auto, active, failed, interrupting,
                 counts, jobs>>

\* flushQueued: the buffer is published.
Flush(more) ==
  LET new == Range(queue) \union more IN
  /\ stored' = stored \union new /\ fresh' = fresh \union new
  /\ queue' = <<>>

\* The rest of interruptible, prepareTurn, and Ask's own message; a Continue
\* with nothing pending is no turn.
Prepares ==
  /\ loop.at = "prepare"
  /\ interrupting' = FALSE
  /\ Flush(IF loop.kind = "user" THEN {loop.msg} ELSE {})
  /\ loop' = [loop EXCEPT !.at = IF fresh' = {} THEN "end" ELSE "attempt", !.msg = 0]
  /\ UNCHANGED <<clients, stream, back, wake, usersNil, auto, active, failed, cancel, cut, counts, jobs>>

\* runTurn: prepareTurn again, and the agent's turn claims what is pending.
Attempts ==
  /\ loop.at = "attempt"
  /\ stored' = stored \union Range(queue) /\ fresh' = {} /\ queue' = <<>>
  /\ To(IF cut THEN "end" ELSE "round")
  /\ UNCHANGED <<clients, stream, back, wake, usersNil, auto, active, failed, interrupt, counts, jobs>>

InTurn == UNCHANGED <<clients, buffer, convo, wake, usersNil, auto, active, interrupt>>

\* The model replies, or the round is cut; or it calls a tool.
RoundReplies ==
  /\ loop.at = "round" /\ To("end")
  /\ UNCHANGED <<stream, failed, counts, jobs>> /\ InTurn

RoundCallsTool ==
  /\ loop.at = "round" /\ To("tool")
  /\ UNCHANGED <<stream, failed, counts, jobs>> /\ InTurn

\* The provider failed: another attempt, or none.
RoundFails ==
  /\ loop.at = "round" /\ ~cut /\ fails < MaxFails
  /\ fails' = fails + 1
  /\ \/ To("attempt") /\ UNCHANGED failed
     \/ To("end") /\ failed' = TRUE
  /\ UNCHANGED <<stream, asked, jobs>> /\ InTurn

\* A command outlives its grace and is promoted to a job (settle).
ToolStartsJob ==
  /\ loop.at = "tool" /\ ~cut
  /\ \E n \in News :
       /\ jobs[n] = "none" /\ \A m \in News : m < n => jobs[m] # "none"
       /\ jobs' = [jobs EXCEPT ![n] = "running"]
  /\ UNCHANGED <<stream, loop, failed, counts>> /\ InTurn

ToolAsks ==
  /\ loop.at = "tool" /\ ~cut /\ asked < MaxAsks
  /\ asked' = asked + 1 /\ To("ask")
  /\ UNCHANGED <<stream, failed, fails, jobs>> /\ InTurn

AskIsAnswered ==
  /\ loop.at = "ask" /\ scanner.at = "answers"
  /\ scanner' = Reads /\ To("tool")
  /\ UNCHANGED <<closed, held, heldSig, failed, counts, jobs>> /\ InTurn

AskIsCut ==
  /\ loop.at = "ask" /\ cut /\ To("tool")
  /\ UNCHANGED <<stream, failed, counts, jobs>> /\ InTurn

\* liftQueued: nothing rides the result of a cut turn...
ToolReturns ==
  /\ loop.at = "tool"
  /\ To(IF interrupting THEN "result" ELSE "lift")
  /\ UNCHANGED <<stream, failed, counts, jobs>> /\ InTurn

\* ...else all of the buffer does.
Lifts ==
  /\ loop.at = "lift"
  /\ stored' = stored \union Range(queue) /\ queue' = <<>>
  /\ To("result")
  /\ UNCHANGED <<clients, stream, back, fresh, wake, usersNil, auto, active, failed, interrupt, counts,
                 jobs>>

RoundFollows ==
  /\ loop.at = "result"
  /\ To(IF cut THEN "end" ELSE "round")
  /\ UNCHANGED <<stream, failed, counts, jobs>> /\ InTurn

\* finishInterrupt, before or after the last interrupt, and the deferred end of
\* interruptible: a failed turn that was cut is an interrupted one.
TurnReturns ==
  /\ loop.at = "end"
  /\ cancel' = FALSE /\ failed' \in {failed, failed /\ ~cut} /\ To("after")
  /\ UNCHANGED <<clients, stream, buffer, convo, wake, usersNil, auto, active, interrupting, cut, counts,
                 jobs>>

\* Mutant: a turn that was interrupted counts as failed.
CarriesOnUncut == IF loop.kind = "continue" THEN ~failed /\ ~cut ELSE auto \/ loop.kind = "user"

\* What continueTurn reports, and a turn for a message re-arms.
CarriesOn == IF loop.kind = "continue" THEN ~failed ELSE auto \/ loop.kind = "user"

TurnEnds ==
  /\ loop.at = "after"
  /\ active' = FALSE
  /\ auto' = CarriesOn
  /\ To(IF loop.kind = "drain" /\ failed THEN "gaveup" ELSE "top")
  /\ UNCHANGED <<clients, stream, buffer, convo, wake, usersNil, failed, interrupt, counts, jobs>>

TurnStep ==
  \/ TurnBegins \/ Interruptible \/ Prepares \/ Attempts
  \/ RoundReplies \/ RoundCallsTool \/ RoundFails
  \/ ToolStartsJob \/ ToolAsks \/ AskIsAnswered \/ AskIsCut \/ ToolReturns \/ Lifts \/ RoundFollows
  \/ TurnReturns \/ TurnEnds

-----------------------------------------------------------------------------
(* The jobs: bgRun goes down, the note is buffered, the loop is woken. *)

Gone == loop.at \in {"stopped", "drained", "gaveup"}

JobMoves(n, from, to) ==
  /\ ~Gone /\ jobs[n] = from
  /\ jobs' = [jobs EXCEPT ![n] = to]
  /\ UNCHANGED <<clients, stream, back, convo, driver, interrupt, counts>>

JobEnds(n) == JobMoves(n, "running", "ended") /\ UNCHANGED <<queue, wake>>

JobNotifies(n) ==
  JobMoves(n, "ended", "said") /\ queue' = Append(queue, n) /\ UNCHANGED wake

\* Mutant: wake has no buffer, so that a loop that is only on its way to its
\* select is missed.
JobWakesWaiting(n) ==
  /\ JobMoves(n, "said", "done") /\ UNCHANGED queue
  /\ \E waits \in BOOLEAN : wake' = (waits /\ loop.at \in {"select", "drainwait"})

JobWakes(n) == JobMoves(n, "said", "done") /\ wake' = TRUE /\ UNCHANGED queue

JobStep == \E n \in News : JobEnds(n) \/ JobNotifies(n) \/ JobWakes(n)

TurnsNext == Writes \/ ScannerStep \/ LoopStep \/ TurnStep \/ JobStep

TurnsSpec == TurnsInit /\ [][TurnsNext]_turnsVars

\* Every goroutine goes on; a turn's rounds are capped (turn.go 214-222), so in the
\* end the model replies.
Fairness ==
  /\ WF_turnsVars(ScannerStep) /\ WF_turnsVars(LoopStep) /\ WF_turnsVars(TurnStep)
  /\ SF_turnsVars(RoundReplies)
  /\ \A n \in News : WF_turnsVars(JobNotifies(n)) /\ WF_turnsVars(JobWakes(n))

FairSpec == TurnsSpec /\ Fairness

-----------------------------------------------------------------------------
(* Properties *)

Count(m, s) == Cardinality({k \in DOMAIN s : s[k] = m})
InPipe(m) == Cardinality({k \in DOMAIN pipe : pipe[k].kind \in {"user", "image"} /\ pipe[k].id = m})
AtScanner(m) == IF scanner.at \in {"routed", "offers", "holds"} /\ scanner.msg = m THEN 1 ELSE 0
InTurnOf(m) == IF loop.msg = m THEN 1 ELSE 0
InSet(m, S) == IF m \in S THEN 1 ELSE 0

\* Types; and a message is always in one place: none is lost between the
\* scanner, the buffer and the turns, and none is given to the model twice
\* (queue.go 259-261).
TypeOK ==
  /\ written \in 0..MaxLines /\ asked \in 0..MaxAsks /\ fails \in 0..MaxFails
  /\ scanner.at \in {"read", "routed", "offers", "holds", "signals", "answers", "done"}
  /\ loop.kind \in {"none", "user", "continue", "drain"}
  /\ \A b \in {left, heldSig, wake, usersNil, auto, active, cancel, interrupting, cut, failed} :
       b \in BOOLEAN
  /\ fresh \subseteq stored
  /\ \A m \in Msg \union News :
       InPipe(m) + AtScanner(m) + InTurnOf(m) + Count(m, held) + Count(m, queue)
         + InSet(m, stored) + InSet(m, back) <= 1
  /\ \A n \in News : jobs[n] \in {"said", "done"} <=> n \in Range(queue) \union stored
  /\ \A m \in Range(queue) : IsUser(m) \/ IsNews(m)

Waits(m) == m \in Range(queue) \union fresh

\* A turn that waits for an answer, a failed one that left the loop waiting for
\* the person, and an engine that is gone, deliver nothing.
Excused == loop.at = "ask" \/ (failed /\ ~auto) \/ Gone

\* A message that was buffered while a turn ran reaches the model: in that
\* turn, or in the next, which needs no other message to start, also when the
\* turn was interrupted (engine.go 625-627, interrupt.go 39-41).
MidTurnGetsTurn ==
  \A m \in Msg : (active /\ Waits(m)) ~> (~Waits(m) \/ Excused)

\* A finished job's note reaches the model, whatever the loop did between the
\* note and the wake (bgjob.go 408-417).
NewsGetsTurn == \A n \in News : Waits(n) ~> (~Waits(n) \/ Excused)

\* A message with images that was held gets its own turn (inputstream.go 206-209).
HeldGetsTurn == held # <<>> ~> (held = <<>> \/ loop.at = "ask" \/ Gone)

\* When the input has ended, the engine leaves no message of the person's
\* behind, also one that a failed turn left (engine.go 632-638, 685-694).
LeavesNothingSaid ==
  loop.at = "drained" => held = <<>> /\ \A m \in Msg : ~Waits(m)
=============================================================================

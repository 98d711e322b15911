-------------------------------- MODULE Jobs --------------------------------
(***************************************************************************)
(* The engine's commands (bgjob.go, bgkill.go, jobs.go, exec.go): an exec  *)
(* call starts a job in the one persistent shell and waits for it; what is *)
(* still running then goes on in the background, with the shell it has     *)
(* (donated), and says its outcome itself. A job may be waited for, muted, *)
(* killed, and its turn interrupted.                                       *)
(***************************************************************************)
EXTENDS Naturals, FiniteSets

CONSTANTS
  Job,
  NoJob,
  MaxCuts,    \* bound: turns that are interrupted
  MaxAsks     \* bound: waits for a job, reads of it, mutes and kills

ASSUME JobsAssumption == NoJob \notin Job /\ MaxCuts \in Nat /\ MaxAsks \in Nat

VARIABLES
  run,       \* the job's goroutine: for the shell, in its read loop, after it, in finish
  bg, done, killed, muted,   \* the job's flags; a kill cancels its context
  bgRun,     \* h.bgRun
  mu,        \* HostShell.mu: the job that holds it
  p,         \* HostShell.p: the shell the next command gets
  shell,     \* the shells, named by the job each was started for
  in,        \* the shell a command runs in
  donated,
  call,      \* the exec call
  waiter,    \* a jobs(wait) call, one at a time: counted in waiters, or it left them
             \* with the outcome to carry, or before that
  killer,    \* a jobs(kill) call of the model, one at a time
  cut,       \* the turn is interrupted
  said,      \* how often the model was told the outcome
  answers,   \* how often of these because it asked for it
  dropped,   \* the interrupt took the result of a call that had it
  early,     \* a waiter left before the note, and found the outcome then
  cuts, asks  \* what the bounds count

flags == <<bg, done, killed, muted>>
shells == <<mu, p, shell, in, donated>>
calls == <<call, waiter, killer, cut>>
news == <<said, answers, dropped, early>>
bounds == <<cuts, asks>>
vars == <<run, flags, bgRun, shells, calls, news, bounds>>

Init ==
  /\ run = [j \in Job |-> "new"]
  /\ bg = {} /\ done = {} /\ killed = {} /\ muted = {}
  /\ bgRun = 0
  /\ mu = NoJob /\ p = NoJob /\ shell = [j \in Job |-> "none"]
  /\ in = [j \in Job |-> NoJob] /\ donated = {}
  /\ call = [j \in Job |-> "none"] /\ waiter = [j \in Job |-> "none"]
  /\ killer = [j \in Job |-> "none"] /\ cut = FALSE
  /\ said = [j \in Job |-> 0] /\ answers = [j \in Job |-> 0] /\ dropped = {} /\ early = {}
  /\ cuts = 0 /\ asks = 0

Goes(j, from, to) == run[j] = from /\ run' = [run EXCEPT ![j] = to]
Calls(j, from, to) == call[j] = from /\ call' = [call EXCEPT ![j] = to]

-----------------------------------------------------------------------------
(* The persistent shell: HostShell.RunPromotable, readUntil                 *)

\* withExec: the job starts, and the call waits for it.
StartJob(j) ==
  /\ ~cut /\ Calls(j, "none", "grace") /\ Goes(j, "new", "lock")
  /\ UNCHANGED <<flags, bgRun, shells, waiter, killer, cut, news, bounds>>

\* h.p is neither nil nor exited.
Alive == {k \in Job : shell[k] \in {"live", "term"}}

\* The shell there is, or a new one for one that exited; the write of the
\* command finds one that died just then, and it is replaced as well.
Locks(j) ==
  /\ mu = NoJob /\ Goes(j, "lock", "read") /\ mu' = j
  /\ IF p \notin Alive
     THEN p' = j /\ shell' = [shell EXCEPT ![j] = "live"] /\ in' = [in EXCEPT ![j] = j]
     ELSE in' = [in EXCEPT ![j] = p] /\ UNCHANGED <<p, shell>>
  /\ UNCHANGED <<flags, bgRun, donated, calls, news, bounds>>

\* No shell can be started.
CannotStart(j) ==
  /\ mu = NoJob /\ p \notin Alive
  /\ Goes(j, "lock", "ended")
  /\ UNCHANGED <<flags, bgRun, shells, calls, news, bounds>>

\* The sentinel line: the command ended, by itself or although it is canceled.
Sentinel(j) ==
  /\ Goes(j, "read", "after") /\ (in[j] \in Alive \/ j \in killed)
  /\ UNCHANGED <<flags, bgRun, shells, calls, news, bounds>>

\* "exit 7" and "kill $$" are commands.
ShellExits(j) ==
  /\ run[j] = "read" /\ shell[in[j]] = "live"
  /\ shell' = [shell EXCEPT ![in[j]] = "dead"]
  /\ UNCHANGED <<run, flags, bgRun, mu, p, in, donated, calls, news, bounds>>

\* The context is canceled: SIGTERM, then SIGKILL, for the shell's group.
Cancels(j) ==
  /\ run[j] = "read" /\ j \in killed /\ shell[in[j]] = "live"
  /\ shell' = [shell EXCEPT ![in[j]] = "term"]
  /\ UNCHANGED <<run, flags, bgRun, mu, p, in, donated, calls, news, bounds>>

TermEnds(j) ==
  /\ shell[j] = "term" /\ shell' = [shell EXCEPT ![j] = "dead"]
  /\ UNCHANGED <<run, flags, bgRun, mu, p, in, donated, calls, news, bounds>>

\* Mutant: the promoted command keeps the lock with the shell.
PromotedKeepsLock(j) ==
  /\ run[j] = "read" /\ j \in bg \ donated
  /\ donated' = donated \union {j} /\ p' = NoJob
  /\ UNCHANGED <<run, flags, bgRun, mu, shell, in, calls, news, bounds>>

\* promoteCh is closed: the command keeps the shell, the next call gets another.
Promoted(j) ==
  /\ run[j] = "read" /\ j \in bg \ donated
  /\ donated' = donated \union {j} /\ p' = NoJob /\ mu' = NoJob
  /\ UNCHANGED <<run, flags, bgRun, shell, in, calls, news, bounds>>

\* The shell is dead: its exit status is the command's result.
ReadsDead(j) ==
  /\ Goes(j, "read", "after") /\ shell[in[j]] = "dead"
  /\ UNCHANGED <<flags, bgRun, shells, calls, news, bounds>>

\* Mutant: a command that ended is not asked whether it was canceled.
LeavesShellAsIs(j) ==
  /\ Goes(j, "after", "ended")
  /\ IF j \in donated
     THEN shell' = [shell EXCEPT ![in[j]] = "dead"] /\ UNCHANGED <<mu, p>>
     ELSE /\ mu' = NoJob
          /\ p' = IF shell[in[j]] = "dead" THEN NoJob ELSE p
          /\ UNCHANGED shell
  /\ UNCHANGED <<flags, bgRun, in, donated, calls, news, bounds>>

\* A donated shell goes with its command; one that is being killed is not used
\* again, whatever the command said before.
LeavesShell(j) ==
  /\ Goes(j, "after", "ended")
  /\ IF j \in donated
     THEN shell' = [shell EXCEPT ![in[j]] = "dead"] /\ UNCHANGED <<mu, p>>
     ELSE /\ mu' = NoJob
          /\ p' = IF j \in killed \/ shell[in[j]] = "dead" THEN NoJob ELSE p
          /\ shell' = IF j \in killed /\ shell[in[j]] = "live"
                      THEN [shell EXCEPT ![in[j]] = "term"] ELSE shell
  /\ UNCHANGED <<flags, bgRun, in, donated, calls, news, bounds>>

-----------------------------------------------------------------------------
(* finish                                                                   *)

\* Under j.mu: the verdict, and whether the job is a background one.
Finishes(j) ==
  /\ Goes(j, "ended", IF j \in bg THEN "count" ELSE "over")
  /\ done' = done \union {j}
  /\ UNCHANGED <<bg, killed, muted, bgRun, shells, calls, news, bounds>>

CountsDown(j) ==
  /\ Goes(j, "count", "note") /\ bgRun' = bgRun - 1
  /\ UNCHANGED <<flags, shells, calls, news, bounds>>

\* Mutant: the note goes out although someone waits for the job.
NotesAnyway(j) ==
  /\ Goes(j, "note", "over")
  /\ said' = IF j \in muted THEN said ELSE [said EXCEPT ![j] = @ + 1]
  /\ UNCHANGED <<flags, bgRun, shells, calls, answers, dropped, early, bounds>>

\* completionNote: nothing of a muted job, nor while someone waits for it. Then
\* doneCh is closed, last.
Notes(j) ==
  /\ Goes(j, "note", "over")
  /\ said' = IF j \in muted \/ waiter[j] = "waits" THEN said ELSE [said EXCEPT ![j] = @ + 1]
  /\ UNCHANGED <<flags, bgRun, shells, calls, answers, dropped, early, bounds>>

-----------------------------------------------------------------------------
(* The calls                                                                *)

\* The result of a call reaches the model, or the interrupt drops it and a
\* healed one says that nothing is known.
Tells(j) ==
  \/ said' = [said EXCEPT ![j] = @ + 1] /\ UNCHANGED dropped
  \/ cut /\ dropped' = dropped \union {j} /\ UNCHANGED said

\* settle, once: done is reported inline, what runs is promoted.
Settle(j) ==
  IF j \in bg \union done THEN UNCHANGED <<bg, bgRun>>
  ELSE bg' = bg \union {j} /\ bgRun' = bgRun + 1

\* The end of the grace: doneCh, the timer, the interrupt or a message, so at
\* any time.
ExecSettles(j) ==
  /\ Calls(j, "grace", "over") /\ Settle(j)
  /\ IF j \in bg' THEN UNCHANGED <<said, dropped>> ELSE Tells(j)
  /\ UNCHANGED <<run, done, killed, muted, shells, waiter, killer, cut, answers, early, bounds>>

\* What the model gets for a question of its own, asked of a job of the background.
Answers(j) ==
  /\ said' = [said EXCEPT ![j] = @ + 1] /\ answers' = [answers EXCEPT ![j] = @ + 1]
  /\ UNCHANGED <<dropped, early>>

\* jobs of a job that is done, be it to read, wait for or kill it: the outcome,
\* whatever the note said or will say.
AsksOfDone(j) ==
  /\ ~cut /\ asks < MaxAsks /\ asks' = asks + 1
  /\ j \in bg \cap done /\ Answers(j)
  /\ UNCHANGED <<run, flags, bgRun, shells, calls, cuts>>

\* jobs(job:N, wait), while it runs.
WaitBegins(j) ==
  /\ ~cut /\ asks < MaxAsks /\ asks' = asks + 1
  /\ j \in bg \ done /\ waiter[j] = "none" /\ waiter' = [waiter EXCEPT ![j] = "waits"]
  /\ UNCHANGED <<run, flags, bgRun, shells, call, killer, cut, news, cuts>>

\* It stops when doneCh is closed, at the interrupt or at a message, and is no
\* longer counted. Closed, the note was left to it.
WaitLeaves(j) ==
  /\ waiter[j] = "waits"
  /\ waiter' = [waiter EXCEPT ![j] = IF run[j] = "over" THEN "carries" ELSE "left"]
  /\ UNCHANGED <<run, flags, bgRun, shells, call, killer, cut, news, bounds>>

\* jobReport looks again: the outcome, if there is one by now.
WaitReports(j) ==
  /\ waiter[j] \in {"carries", "left"} /\ waiter' = [waiter EXCEPT ![j] = "none"]
  /\ IF j \in done
     THEN Tells(j) /\ early' = early \union (IF waiter[j] = "left" THEN {j} ELSE {})
     ELSE UNCHANGED <<said, dropped, early>>
  /\ UNCHANGED <<run, flags, bgRun, shells, call, killer, cut, answers, bounds>>

Mute(j) ==
  /\ asks < MaxAsks /\ asks' = asks + 1
  /\ j \in bg \ muted /\ muted' = muted \union {j}
  /\ UNCHANGED <<run, bg, done, killed, bgRun, shells, calls, news, cuts>>

\* kill, by the person; one that is done is not killed. The answer is theirs.
Kill(j) ==
  /\ run[j] # "new" /\ j \notin done \union killed
  /\ asks < MaxAsks /\ asks' = asks + 1 /\ killed' = killed \union {j}
  /\ UNCHANGED <<run, bg, done, muted, bgRun, shells, calls, news, cuts>>

\* jobs(kill) of a job that runs: killAndWait, which waits for doneCh.
ModelKills(j) ==
  /\ ~cut /\ asks < MaxAsks /\ asks' = asks + 1
  /\ j \in bg \ done /\ killer[j] = "none" /\ killer' = [killer EXCEPT ![j] = "waits"]
  /\ killed' = killed \union {j}
  /\ UNCHANGED <<run, bg, done, muted, bgRun, shells, call, waiter, cut, news, cuts>>

\* doneCh is closed and the outcome is its answer, which an interrupt may take;
\* or jobKillWait passed: "has not exited yet".
KillAnswers(j) ==
  /\ killer[j] = "waits" /\ killer' = [killer EXCEPT ![j] = "none"]
  /\ \/ run[j] = "over" /\ Answers(j)
     \/ UNCHANGED news
  /\ UNCHANGED <<run, flags, bgRun, shells, call, waiter, cut, bounds>>

\* The turn is interrupted; its end settles the jobs it started (cutTurnJobs).
Interrupt ==
  /\ ~cut /\ cuts < MaxCuts /\ cut' = TRUE /\ cuts' = cuts + 1
  /\ UNCHANGED <<run, flags, bgRun, shells, call, waiter, killer, news, asks>>

CutTurnSettles(j) ==
  /\ cut /\ run[j] \notin {"new", "note", "over"} /\ Settle(j)
  /\ UNCHANGED <<run, done, killed, muted, shells, calls, news, bounds>>

NextTurn ==
  /\ cut
  /\ \A j \in Job : call[j] \in {"none", "over"} /\ waiter[j] = "none" /\ killer[j] = "none"
  /\ cut' = FALSE
  /\ UNCHANGED <<run, flags, bgRun, shells, call, waiter, killer, news, bounds>>

-----------------------------------------------------------------------------
JobRuns(j) ==
  \/ CannotStart(j) \/ Cancels(j) \/ TermEnds(j) \/ Promoted(j) \/ ReadsDead(j) \/ LeavesShell(j)
  \/ Finishes(j) \/ CountsDown(j) \/ Notes(j)

CallRuns(j) == ExecSettles(j) \/ WaitLeaves(j) \/ WaitReports(j) \/ KillAnswers(j)

Others(j) ==
  \/ StartJob(j) \/ Sentinel(j) \/ ShellExits(j) \/ CutTurnSettles(j)
  \/ AsksOfDone(j) \/ WaitBegins(j) \/ Mute(j) \/ Kill(j) \/ ModelKills(j)

Next ==
  \/ Interrupt \/ NextTurn
  \/ \E j \in Job : Locks(j) \/ JobRuns(j) \/ CallRuns(j) \/ Others(j)

\* Goroutines and timers run on, a command owes nothing.
Fairness ==
  \A j \in Job : WF_vars(JobRuns(j)) /\ WF_vars(CallRuns(j)) /\ WF_vars(Locks(j))

Spec == Init /\ [][Next]_vars /\ Fairness

-----------------------------------------------------------------------------
(* Properties *)

\* Types. A shell runs one command at a time, none is started in one that is
\* being killed (exec.go 382-385), and bgRun counts the background jobs that
\* run.
TypeOK ==
  /\ run \in [Job -> {"new", "lock", "read", "after", "ended", "count", "note", "over"}]
  /\ bg \subseteq Job /\ done \subseteq Job /\ donated \subseteq bg
  /\ killed \subseteq Job /\ muted \subseteq Job
  /\ mu \in Job \union {NoJob} /\ p \in Job \union {NoJob}
  /\ shell \in [Job -> {"none", "live", "term", "dead"}] /\ in \in [Job -> Job \union {NoJob}]
  /\ call \in [Job -> {"none", "grace", "over"}]
  /\ waiter \in [Job -> {"none", "waits", "carries", "left"}]
  /\ killer \in [Job -> {"none", "waits"}] /\ cut \in BOOLEAN
  /\ said \in [Job -> Nat] /\ answers \in [Job -> Nat]
  /\ dropped \subseteq Job /\ early \subseteq Job
  /\ \A j, k \in Job : run[j] = "read" /\ run[k] = "read" /\ in[j] = in[k] => j = k
  /\ \A j \in Job : run[j] = "read" /\ shell[in[j]] = "term" => j \in killed
  /\ bgRun = Cardinality({j \in bg : run[j] \notin {"note", "over"}})

\* "Exactly one of the two speaks" (bgjob.go 256-260) and "sending both would
\* say it twice" (105-107): beside the answers to questions of its own (a
\* jobs(kill), or any jobs call of a job that is done: the note says it again),
\* the model is told an outcome once: inline, by the job's note or by the call
\* that waited. More than once only if a waiter left before the note and its
\* report found the outcome; not at all only of a muted job, or when the
\* interrupt dropped the result that had it.
ExactlyOneSpeaks ==
  \A j \in Job :
    /\ said[j] > 1 + answers[j] => j \in early
    /\ run[j] = "over" /\ call[j] = "over" /\ waiter[j] = "none" =>
         said[j] > answers[j] \/ j \in dropped \union muted

\* "the next exec gets a fresh shell instead of queueing behind this one"
\* (bgjob.go 292-293) and a killed job ends (bgkill.go 18-30), though no
\* command ever ends by itself.
CommandsGoOn ==
  \A j \in Job : (run[j] = "lock" ~> run[j] # "lock") /\ (j \in killed ~> run[j] = "over")
=============================================================================

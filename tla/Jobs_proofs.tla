---------------------------- MODULE Jobs_proofs ----------------------------
(***************************************************************************)
(* Theorems about Jobs, for any set of jobs and any bounds: an outcome is  *)
(* told once, beside the answers to what the model asked about it, and no  *)
(* two commands are in one shell. Neither is inductive   *)
(* by itself; IInv adds what each of those who may speak, or may take a    *)
(* shell, relies on.                                                       *)
(*                                                                         *)
(* The second half is about Locks, for any number of callers: nobody waits *)
(* for himself. LockInv says where in a script each lock is held, and each *)
(* wait leads to a later place in the order of what is waited for.         *)
(***************************************************************************)
EXTENDS Jobs, Locks, TLAPS, FiniteSetTheorems

\* TypeOK without what it says of shells and of the count.
Types ==
  /\ run \in [Job -> {"new", "lock", "read", "after", "ended", "count", "note", "over"}]
  /\ bg \subseteq Job /\ done \subseteq Job /\ donated \subseteq bg
  /\ killed \subseteq Job /\ muted \subseteq Job
  /\ mu \in Job \union {NoJob} /\ p \in Job \union {NoJob}
  /\ shell \in [Job -> {"none", "live", "term", "dead"}] /\ in \in [Job -> Job \union {NoJob}]
  /\ call \in [Job -> {"none", "grace", "over"}]
  /\ waiter \in [Job -> {"none", "waits", "carries", "left"}]
  /\ killer \in [Job -> {"none", "waits"}] /\ cut \in BOOLEAN
  /\ said \in [Job -> Nat] /\ answers \in [Job -> Nat] /\ dropped \subseteq Job /\ early \subseteq Job

\* The command of j is in a shell, or has just left it.
InShell(j) == run[j] \in {"read", "after"}

\* Whether a job is done, and whether it is a background one, is settled once
\* under j.mu, so that all who decide by it decide alike.
DoneIsOver(j) ==
  /\ j \in done <=> run[j] \in {"count", "note", "over"}
  /\ run[j] \in {"count", "note"} => j \in bg
  /\ call[j] = "over" => j \in bg \union done

\* Whoever may still speak unasked knows that nobody has: a call that has not
\* settled, the note of a background job (unless a waiter came early), a waiter
\* that the note left it to. Only the answers were given beside.
SpeaksOnce(j) ==
  /\ answers[j] <= said[j]
  /\ said[j] > 1 + answers[j] => j \in early
  /\ j \notin done => said[j] = answers[j]
  /\ waiter[j] # "none" => j \in bg
  /\ waiter[j] \in {"waits", "carries"} => said[j] = answers[j]
  /\ waiter[j] = "carries" => run[j] = "over"
  /\ run[j] \in {"count", "note"} => said[j] = answers[j] \/ j \in early
  /\ j \notin bg /\ call[j] # "over" => said[j] = answers[j]

\* When all of them are through, the outcome was told, dropped or muted.
Spoken(j) ==
  run[j] = "over" /\ (IF j \in bg THEN waiter[j] \notin {"waits", "carries"}
                      ELSE call[j] = "over") =>
    said[j] > answers[j] \/ j \in dropped \union muted

SpeakInv == \A j \in Job : DoneIsOver(j) /\ SpeaksOnce(j) /\ Spoken(j)

\* A command holds the lock and the shell until it is promoted; then its shell is
\* not the one the next command gets. A shell exists from Locks on.
HoldsShell(j) ==
  /\ run[j] \in {"new", "lock"} => shell[j] = "none" /\ p # j
  /\ j \in donated => run[j] \notin {"new", "lock"}
  /\ InShell(j) => /\ in[j] \in Job /\ shell[in[j]] # "none"
                   /\ IF j \in donated THEN p # in[j] ELSE mu = j /\ p = in[j]
                   /\ shell[in[j]] = "term" => j \in killed

\* A shell has one command; the one that is free to take is not being killed.
ShellInv ==
  /\ \A j \in Job : HoldsShell(j)
  /\ \A j, k \in Job : InShell(j) /\ InShell(k) /\ in[j] = in[k] => j = k
  /\ mu # NoJob => InShell(mu) /\ mu \notin donated
  /\ mu = NoJob /\ p # NoJob => shell[p] # "term"

Counted == {j \in bg : run[j] \notin {"note", "over"}}

\* bgRun counts the background jobs that run.
CountInv ==
  /\ IsFiniteSet(bg)
  /\ bgRun = Cardinality(Counted)

\* The inductive invariant.
IInv == Types /\ SpeakInv /\ ShellInv /\ CountInv

-----------------------------------------------------------------------------
(* One lemma per conjunct, in each one step per action                      *)

\* Every step keeps the types.
LEMMA TypesStep ==
  ASSUME Types, [Next]_vars
  PROVE  Types'
<1>1. CASE UNCHANGED vars
  BY <1>1 DEF Types, vars, flags, shells, calls, news, bounds
<1>2. CASE Interrupt \/ NextTurn
  BY <1>2 DEF Types, Interrupt, NextTurn, flags, shells, calls, news, bounds
<1>3. ASSUME NEW j \in Job, Locks(j) PROVE Types'
  BY <1>3 DEF Types, Locks, Goes, Alive, flags, calls, news, bounds
<1>4. ASSUME NEW j \in Job, CannotStart(j) PROVE Types'
  BY <1>4 DEF Types, CannotStart, Goes, Alive, flags, shells, calls, news, bounds
<1>5. ASSUME NEW j \in Job, Cancels(j) PROVE Types'
  BY <1>5 DEF Types, Cancels, flags, calls, news, bounds
<1>6. ASSUME NEW j \in Job, TermEnds(j) PROVE Types'
  BY <1>6 DEF Types, TermEnds, flags, calls, news, bounds
<1>7. ASSUME NEW j \in Job, Promoted(j) PROVE Types'
  BY <1>7 DEF Types, Promoted, flags, calls, news, bounds
<1>8. ASSUME NEW j \in Job, ReadsDead(j) PROVE Types'
  BY <1>8 DEF Types, ReadsDead, Goes, flags, shells, calls, news, bounds
<1>9. ASSUME NEW j \in Job, LeavesShell(j) PROVE Types'
  BY <1>9 DEF Types, LeavesShell, Goes, flags, calls, news, bounds
<1>10. ASSUME NEW j \in Job, Finishes(j) PROVE Types'
  BY <1>10 DEF Types, Finishes, Goes, shells, calls, news, bounds
<1>11. ASSUME NEW j \in Job, CountsDown(j) PROVE Types'
  BY <1>11 DEF Types, CountsDown, Goes, flags, shells, calls, news, bounds
<1>12. ASSUME NEW j \in Job, Notes(j) PROVE Types'
  BY <1>12 DEF Types, Notes, Goes, flags, shells, calls, bounds
<1>13. ASSUME NEW j \in Job, ExecSettles(j) PROVE Types'
  BY <1>13 DEF Types, ExecSettles, Calls, Settle, Tells, shells, bounds
<1>14. ASSUME NEW j \in Job, WaitLeaves(j) PROVE Types'
  BY <1>14 DEF Types, WaitLeaves, flags, shells, news, bounds
<1>15. ASSUME NEW j \in Job, StartJob(j) PROVE Types'
  BY <1>15 DEF Types, StartJob, Goes, Calls, flags, shells, news, bounds
<1>16. ASSUME NEW j \in Job, Sentinel(j) PROVE Types'
  BY <1>16 DEF Types, Sentinel, Goes, Alive, flags, shells, calls, news, bounds
<1>17. ASSUME NEW j \in Job, ShellExits(j) PROVE Types'
  BY <1>17 DEF Types, ShellExits, flags, calls, news, bounds
<1>18. ASSUME NEW j \in Job, WaitBegins(j) PROVE Types'
  BY <1>18 DEF Types, WaitBegins, flags, shells, news
<1>19. ASSUME NEW j \in Job, Mute(j) PROVE Types'
  BY <1>19 DEF Types, Mute, shells, calls, news
<1>20. ASSUME NEW j \in Job, Kill(j) PROVE Types'
  BY <1>20 DEF Types, Kill, shells, calls, news
<1>21. ASSUME NEW j \in Job, CutTurnSettles(j) PROVE Types'
  BY <1>21 DEF Types, CutTurnSettles, Settle, shells, calls, news, bounds
<1>22. ASSUME NEW j \in Job, WaitReports(j) PROVE Types'
  BY <1>22 DEF Types, WaitReports, Tells, flags, shells, bounds
<1>23. ASSUME NEW j \in Job, AsksOfDone(j) PROVE Types'
  BY <1>23 DEF Types, AsksOfDone, Answers, flags, shells, calls
<1>24. ASSUME NEW j \in Job, ModelKills(j) PROVE Types'
  BY <1>24 DEF Types, ModelKills, shells, news
<1>25. ASSUME NEW j \in Job, KillAnswers(j) PROVE Types'
  BY <1>25 DEF Types, KillAnswers, Answers, flags, shells, news, bounds
<1> QED
  BY <1>1, <1>2, <1>3, <1>4, <1>5, <1>6, <1>7, <1>8, <1>9, <1>10, <1>11, <1>12, <1>13, <1>14,
     <1>15, <1>16, <1>17, <1>18, <1>19, <1>20, <1>21, <1>22, <1>23, <1>24, <1>25 DEF Next, JobRuns, CallRuns, Others

\* Every step keeps the account of who has spoken and who may.
LEMMA SpeakStep ==
  ASSUME Types, SpeakInv, [Next]_vars
  PROVE  SpeakInv'
<1>1. ASSUME UNCHANGED <<run, bg, done, muted, call, waiter, news>> PROVE SpeakInv'
  BY <1>1 DEF Types, SpeakInv, DoneIsOver, SpeaksOnce, Spoken, news
<1>2. CASE UNCHANGED vars
  BY <1>1, <1>2 DEF vars, flags, shells, calls, news, bounds
<1>3. CASE Interrupt \/ NextTurn
  BY <1>1, <1>3 DEF Interrupt, NextTurn, flags, shells, news, bounds
<1>4. ASSUME NEW j \in Job,
           \/ Cancels(j) \/ TermEnds(j) \/ Promoted(j) \/ ShellExits(j) \/ Kill(j)
           \/ ModelKills(j) \/ (KillAnswers(j) /\ UNCHANGED news)
    PROVE  SpeakInv'
  BY <1>1, <1>4 DEF Cancels, TermEnds, Promoted, ShellExits, Kill, ModelKills, KillAnswers, flags,
     calls, bounds, shells
<1>5. ASSUME NEW j \in Job, Locks(j) PROVE SpeakInv'
  BY <1>5 DEF Types, SpeakInv, DoneIsOver, SpeaksOnce, Spoken, Locks, Goes, Alive, flags, calls,
     news, bounds
<1>6. ASSUME NEW j \in Job, CannotStart(j) PROVE SpeakInv'
  BY <1>6 DEF Types, SpeakInv, DoneIsOver, SpeaksOnce, Spoken, CannotStart, Goes, Alive, flags,
     shells, calls, news, bounds
<1>7. ASSUME NEW j \in Job, ReadsDead(j) PROVE SpeakInv'
  BY <1>7 DEF Types, SpeakInv, DoneIsOver, SpeaksOnce, Spoken, ReadsDead, Goes, flags, shells,
     calls, news, bounds
<1>8. ASSUME NEW j \in Job, LeavesShell(j) PROVE SpeakInv'
  BY <1>8 DEF Types, SpeakInv, DoneIsOver, SpeaksOnce, Spoken, LeavesShell, Goes, flags, calls,
     news, bounds
<1>9. ASSUME NEW j \in Job, Finishes(j) PROVE SpeakInv'
  BY <1>9 DEF Types, SpeakInv, DoneIsOver, SpeaksOnce, Spoken, Finishes, Goes, shells, calls,
     news, bounds
<1>10. ASSUME NEW j \in Job, CountsDown(j) PROVE SpeakInv'
  BY <1>10 DEF Types, SpeakInv, DoneIsOver, SpeaksOnce, Spoken, CountsDown, Goes, flags, shells,
     calls, news, bounds
<1>11. ASSUME NEW j \in Job, Notes(j) PROVE SpeakInv'
  BY <1>11 DEF Types, SpeakInv, DoneIsOver, SpeaksOnce, Spoken, Notes, Goes, flags, shells,
     calls, bounds
<1>12. ASSUME NEW j \in Job, ExecSettles(j) PROVE SpeakInv'
  BY <1>12 DEF Types, SpeakInv, DoneIsOver, SpeaksOnce, Spoken, ExecSettles, Calls, Settle,
     Tells, shells, bounds
<1>13. ASSUME NEW j \in Job, WaitLeaves(j) PROVE SpeakInv'
  BY <1>13 DEF Types, SpeakInv, DoneIsOver, SpeaksOnce, Spoken, WaitLeaves, flags, shells, news,
     bounds
<1>14. ASSUME NEW j \in Job, StartJob(j) PROVE SpeakInv'
  BY <1>14 DEF Types, SpeakInv, DoneIsOver, SpeaksOnce, Spoken, StartJob, Goes, Calls, flags,
     shells, news, bounds
<1>15. ASSUME NEW j \in Job, Sentinel(j) PROVE SpeakInv'
  BY <1>15 DEF Types, SpeakInv, DoneIsOver, SpeaksOnce, Spoken, Sentinel, Goes, Alive, flags,
     shells, calls, news, bounds
<1>16. ASSUME NEW j \in Job, WaitBegins(j) PROVE SpeakInv'
  BY <1>16 DEF Types, SpeakInv, DoneIsOver, SpeaksOnce, Spoken, WaitBegins, flags, shells, news
<1>17. ASSUME NEW j \in Job, Mute(j) PROVE SpeakInv'
  BY <1>17 DEF Types, SpeakInv, DoneIsOver, SpeaksOnce, Spoken, Mute, shells, calls, news
<1>18. ASSUME NEW j \in Job, CutTurnSettles(j) PROVE SpeakInv'
  BY <1>18 DEF Types, SpeakInv, DoneIsOver, SpeaksOnce, Spoken, CutTurnSettles, Settle, shells,
     calls, news, bounds
<1>19. ASSUME NEW j \in Job, WaitReports(j) PROVE SpeakInv'
  BY <1>19 DEF Types, SpeakInv, DoneIsOver, SpeaksOnce, Spoken, WaitReports, Tells, flags, shells,
     bounds
<1>20. ASSUME NEW j \in Job, AsksOfDone(j) PROVE SpeakInv'
  BY <1>20 DEF Types, SpeakInv, DoneIsOver, SpeaksOnce, Spoken, AsksOfDone, Answers, flags,
     shells, calls
<1>21. ASSUME NEW j \in Job, KillAnswers(j), run[j] = "over" /\ Answers(j) PROVE SpeakInv'
  BY <1>21 DEF Types, SpeakInv, DoneIsOver, SpeaksOnce, Spoken, KillAnswers, Answers, flags,
     shells
<1> QED
  BY <1>1, <1>2, <1>3, <1>4, <1>5, <1>6, <1>7, <1>8, <1>9, <1>10, <1>11, <1>12, <1>13, <1>14,
     <1>15, <1>16, <1>17, <1>18, <1>19, <1>20, <1>21 DEF Next, JobRuns, CallRuns, Others,
     KillAnswers

\* Every step keeps commands in shells of their own.
LEMMA ShellStep ==
  ASSUME Types, ShellInv, [Next]_vars
  PROVE  ShellInv'
<1> USE JobsAssumption
<1>1. ASSUME UNCHANGED <<run, mu, p, shell, in, donated>>, killed \subseteq killed' PROVE ShellInv'
  BY <1>1 DEF Types, ShellInv, HoldsShell, InShell
<1>2. CASE UNCHANGED vars
  BY <1>1, <1>2 DEF vars, flags, shells, calls, news, bounds
<1>3. CASE Interrupt \/ NextTurn
  BY <1>1, <1>3 DEF Types, Interrupt, NextTurn, flags, shells, news, bounds
<1>4. ASSUME NEW j \in Job,
           \/ ExecSettles(j) \/ WaitLeaves(j) \/ WaitReports(j) \/ WaitBegins(j)
           \/ AsksOfDone(j) \/ KillAnswers(j) \/ ModelKills(j)
           \/ Mute(j) \/ Kill(j) \/ CutTurnSettles(j)
    PROVE  ShellInv'
  BY <1>1, <1>4 DEF Types, ExecSettles, WaitLeaves, WaitReports, WaitBegins, AsksOfDone,
     KillAnswers, ModelKills, Mute, Kill, CutTurnSettles, shells, flags
<1>5. ASSUME NEW j \in Job, Locks(j) PROVE ShellInv'
  BY <1>5 DEF Types, ShellInv, HoldsShell, InShell, Locks, Goes, Alive, flags, calls, news,
     bounds
<1>6. ASSUME NEW j \in Job, CannotStart(j) PROVE ShellInv'
  BY <1>6 DEF Types, ShellInv, HoldsShell, InShell, CannotStart, Goes, Alive, flags, shells,
     calls, news, bounds
<1>7. ASSUME NEW j \in Job, Cancels(j) PROVE ShellInv'
  BY <1>7 DEF Types, ShellInv, HoldsShell, InShell, Cancels, flags, calls, news, bounds
<1>8. ASSUME NEW j \in Job, TermEnds(j) PROVE ShellInv'
  BY <1>8 DEF Types, ShellInv, HoldsShell, InShell, TermEnds, flags, calls, news, bounds
<1>9. ASSUME NEW j \in Job, Promoted(j) PROVE ShellInv'
  BY <1>9 DEF Types, ShellInv, HoldsShell, InShell, Promoted, flags, calls, news, bounds
<1>10. ASSUME NEW j \in Job, ReadsDead(j) PROVE ShellInv'
  BY <1>10 DEF Types, ShellInv, HoldsShell, InShell, ReadsDead, Goes, flags, shells, calls, news,
     bounds
<1>11. ASSUME NEW j \in Job, LeavesShell(j) PROVE ShellInv'
  BY <1>11 DEF Types, ShellInv, HoldsShell, InShell, LeavesShell, Goes, flags, calls, news,
     bounds
<1>12. ASSUME NEW j \in Job, Finishes(j) PROVE ShellInv'
  BY <1>12 DEF Types, ShellInv, HoldsShell, InShell, Finishes, Goes, shells, calls, news, bounds
<1>13. ASSUME NEW j \in Job, CountsDown(j) PROVE ShellInv'
  BY <1>13 DEF Types, ShellInv, HoldsShell, InShell, CountsDown, Goes, flags, shells, calls,
     news, bounds
<1>14. ASSUME NEW j \in Job, Notes(j) PROVE ShellInv'
  BY <1>14 DEF Types, ShellInv, HoldsShell, InShell, Notes, Goes, flags, shells, calls, bounds
<1>15. ASSUME NEW j \in Job, StartJob(j) PROVE ShellInv'
  BY <1>15 DEF Types, ShellInv, HoldsShell, InShell, StartJob, Goes, Calls, flags, shells, news,
     bounds
<1>16. ASSUME NEW j \in Job, Sentinel(j) PROVE ShellInv'
  BY <1>16 DEF Types, ShellInv, HoldsShell, InShell, Sentinel, Goes, Alive, flags, shells, calls,
     news, bounds
<1>17. ASSUME NEW j \in Job, ShellExits(j) PROVE ShellInv'
  BY <1>17 DEF Types, ShellInv, HoldsShell, InShell, ShellExits, flags, calls, news, bounds
<1> QED
  BY <1>1, <1>2, <1>3, <1>4, <1>5, <1>6, <1>7, <1>8, <1>9, <1>10, <1>11, <1>12, <1>13, <1>14,
     <1>15, <1>16, <1>17 DEF Next, JobRuns, CallRuns, Others

\* Promoting a job that runs counts it.
LEMMA SettleCounts ==
  ASSUME Types, SpeakInv, CountInv, NEW j \in Job, Settle(j), run[j] \notin {"note", "over"},
         run' = run
  PROVE  CountInv'
<1>1. CASE j \in bg \union done
  BY <1>1 DEF CountInv, Counted, Settle
<1>2. CASE j \notin bg \union done
  <2>1. bg' = bg \union {j} /\ bgRun' = bgRun + 1
    BY <1>2 DEF Settle
  <2>2. IsFiniteSet(bg')
    BY <2>1, FS_AddElement DEF CountInv
  <2>3. Counted' = Counted \union {j} /\ j \notin Counted
    BY <1>2, <2>1 DEF Counted
  <2>4. IsFiniteSet(Counted)
    BY FS_Subset DEF CountInv, Counted
  <2>5. Cardinality(Counted') = Cardinality(Counted) + 1
    BY <2>3, <2>4, FS_AddElement
  <2> QED
    BY <2>1, <2>2, <2>5 DEF CountInv
<1> QED
  BY <1>1, <1>2

\* Every step keeps the count.
LEMMA CountStep ==
  ASSUME Types, SpeakInv, CountInv, [Next]_vars
  PROVE  CountInv'
<1>1. ASSUME UNCHANGED <<bg, bgRun>>, Counted' = Counted PROVE CountInv'
  BY <1>1 DEF CountInv
<1>2. CASE UNCHANGED vars
  BY <1>1, <1>2 DEF vars, flags, Counted
<1>3. CASE Interrupt \/ NextTurn
  BY <1>1, <1>3 DEF Interrupt, NextTurn, flags, Counted
<1>4. ASSUME NEW j \in Job, Locks(j) \/ (JobRuns(j) /\ ~CountsDown(j)) PROVE CountInv'
  BY <1>1, <1>4 DEF Types, SpeakInv, DoneIsOver, Counted, Locks, JobRuns, CannotStart, Cancels,
     TermEnds, Promoted, ReadsDead, LeavesShell, Finishes, Notes, Goes, flags
<1>5. ASSUME NEW j \in Job, CountsDown(j) PROVE CountInv'
  <2>1. bg' = bg /\ bgRun' = bgRun - 1
    BY <1>5 DEF CountsDown, flags
  <2>2. Counted' = Counted \ {j} /\ j \in Counted
    BY <1>5, <2>1 DEF Types, SpeakInv, DoneIsOver, Counted, CountsDown, Goes
  <2>3. IsFiniteSet(Counted)
    BY FS_Subset DEF CountInv, Counted
  <2>4. Cardinality(Counted') = Cardinality(Counted) - 1
    BY <2>2, <2>3, FS_RemoveElement
  <2> QED
    BY <2>1, <2>4 DEF CountInv
<1>6. ASSUME NEW j \in Job, ExecSettles(j) PROVE CountInv'
  <2>1. CASE j \in bg \union done
    BY <1>1, <1>6, <2>1 DEF ExecSettles, Settle, Counted
  <2>2. CASE j \notin bg \union done
    BY <1>6, <2>2, SettleCounts DEF ExecSettles, Types, SpeakInv, DoneIsOver
  <2> QED
    BY <2>1, <2>2
<1>7. ASSUME NEW j \in Job, CutTurnSettles(j) PROVE CountInv'
  BY <1>7, SettleCounts DEF CutTurnSettles
<1>8. ASSUME NEW j \in Job,
           \/ WaitLeaves(j) \/ WaitReports(j) \/ KillAnswers(j)
           \/ (Others(j) /\ ~CutTurnSettles(j))
    PROVE  CountInv'
  BY <1>1, <1>8 DEF Types, Counted, WaitLeaves, WaitReports, KillAnswers, Others, StartJob,
     Sentinel, ShellExits, AsksOfDone, WaitBegins, Mute, Kill, ModelKills, Goes, flags
<1> QED
  BY <1>2, <1>3, <1>4, <1>5, <1>6, <1>7, <1>8 DEF Next, CallRuns, JobRuns, Others

-----------------------------------------------------------------------------
(* The theorems *)

\* The invariant holds at first.
LEMMA InitIInv == Init => IInv
<1> SUFFICES ASSUME Init PROVE IInv
  OBVIOUS
<1>1. Types
  BY DEF Init, Types
<1>2. SpeakInv
  BY DEF Init, SpeakInv, DoneIsOver, SpeaksOnce, Spoken
<1>3. ShellInv
  BY JobsAssumption DEF Init, ShellInv, HoldsShell, InShell
<1>4. CountInv
  <2>1. Counted = {} /\ bg = {} /\ bgRun = 0
    BY DEF Init, Counted
  <2> QED
    BY <2>1, FS_EmptySet DEF CountInv
<1> QED
  BY <1>1, <1>2, <1>3, <1>4 DEF IInv

\* The inductive invariant holds in every reachable state, whatever the jobs.
THEOREM InductiveInvariant == Spec => []IInv
<1>1. IInv /\ [Next]_vars => IInv'
  BY TypesStep, SpeakStep, ShellStep, CountStep DEF IInv
<1> QED
  BY <1>1, InitIInv, PTL DEF Spec

\* A shell runs one command at a time, none is started in one that is being
\* killed (exec.go 382-385), and bgRun counts the background jobs that run.
THEOREM TypeCorrect == Spec => []TypeOK
<1>1. IInv => TypeOK
  BY DEF IInv, Types, ShellInv, HoldsShell, InShell, CountInv, Counted, TypeOK
<1> QED
  BY <1>1, InductiveInvariant, PTL

\* Beside the answers to what the model asks of a job (its jobs(kill), any call of
\* one that is done), exactly one of the call that waits inline, the job's note and
\* the wait for it tells the outcome (bgjob.go 105-107, 256-260, jobs.go 309-314);
\* it is told again where a waiter left before the note and reported it all the
\* same, and lost where the job was muted or an interrupt dropped the result.
THEOREM OutcomeToldOnce == Spec => []ExactlyOneSpeaks
<1>1. IInv => ExactlyOneSpeaks
  <2> SUFFICES ASSUME IInv, NEW j \in Job
               PROVE  /\ said[j] > 1 + answers[j] => j \in early
                      /\ run[j] = "over" /\ call[j] = "over" /\ waiter[j] = "none" =>
                           said[j] > answers[j] \/ j \in dropped \union muted
    BY DEF ExactlyOneSpeaks
  <2> QED
    BY DEF IInv, SpeakInv, DoneIsOver, SpeaksOnce, Spoken
<1> QED
  BY <1>1, InductiveInvariant, PTL

-----------------------------------------------------------------------------
(* Locks: the scripts *)

\* A step of a script; Step is the script of one.
St(do, on) == [do |-> do, on |-> on]

\* The locks that are held while something else is done.
Held == {"svc", "ses", "schedSave", "save", "up", "conn", "srv"}

\* What the code may do while it holds m.
Under(m) ==
  CASE m = "ses"       -> {St("take", "svc"), St("take", "log"), St("ensure", None), St("spawn", None),
                           St("write", None), St("exited", None)}
    [] m = "save"      -> {St("lock", "svc"), St("unlock", "svc"), St("take", "act")}
    [] m = "svc"       -> {St("take", "act"), St("take", "ses"), St("take", "log")}
    [] m = "schedSave" -> {St("take", "sched")}
    [] m = "conn"      -> {St("take", "log")}
    [] m = "up"        -> {St("take", "svc"), St("take", "act")}
    [] m = "srv"       -> {St("take", "conn")}
    [] OTHER           -> {}

\* The steps that scripts are made of.
AnyStep ==
  [do : {"lock", "unlock"}, on : Held] \union [do : {"take"}, on : Lock]
    \union [do : {"ensure", "spawn", "write", "await", "exited"}, on : {None}]

\* Whoever has s before him holds m: it comes to the unlock of m through what is
\* done under m.
Inside(s, m) ==
  \E u \in 1..Len(s) : s[u] = St("unlock", m) /\ \A i \in 1..(u - 1) : s[i] \in Under(m)

\* Every lock taken is let go after what is done under it; every unlock was
\* preceded by such a stretch.
Matched(s) ==
  /\ s \in Seq(AnyStep)
  /\ \A m \in Held, k \in 1..Len(s) : s[k] = St("lock", m) =>
       \E u \in 1..Len(s) : /\ k < u /\ s[u] = St("unlock", m)
                            /\ \A i \in 1..Len(s) : k < i /\ i < u => s[i] \in Under(m)
  /\ \A m \in Held, k \in 1..Len(s), u \in 1..Len(s) :
       /\ k < u /\ s[u] = St("unlock", m)
       /\ \A i \in 1..Len(s) : k < i /\ i < u => s[i] \in Under(m)
       => s[k] \in Under(m) \union {St("lock", m)}

\* An engine is started, and its end noted, under session.mu.
Guarded(s) ==
  \A k \in 1..Len(s) : s[k].do \in {"ensure", "spawn", "exited"} =>
    \E u \in 1..Len(s) : /\ k < u /\ s[u] = St("unlock", "ses")
                         /\ \A i \in 1..Len(s) : k < i /\ i < u => s[i] \in Under("ses")

\* A script begins and ends with no lock held.
Closed(s) == \A m \in Held : ~Inside(s, m)
\* A script of whole sections, and one that starts no engine outside of session.mu.
Sections(s) == Matched(s) /\ Closed(s)
Whole(s) == Sections(s) /\ Guarded(s)

\* Whoever holds m goes on with what is allowed under m, or lets it go.
LEMMA InsideHead ==
  ASSUME NEW s \in Seq(AnyStep), NEW m, Inside(s, m)
  PROVE  /\ m \in Held /\ s # <<>>
         /\ Head(s) \in Under(m) \union {St("unlock", m)}
  <1>1. PICK u \in 1..Len(s) : s[u] = St("unlock", m) /\ \A i \in 1..(u - 1) : s[i] \in Under(m)
    BY DEF Inside
  <1>2. s[u] \in AnyStep
    OBVIOUS
  <1>3. m \in Held
    BY <1>1, <1>2 DEF AnyStep, St
  <1>4. s # <<>> /\ Head(s) = s[1] /\ 1 \in 1..Len(s)
    BY <1>1
  <1>5. u = 1 \/ 1 \in 1..(u - 1)
    OBVIOUS
  <1>. QED BY <1>1, <1>3, <1>4, <1>5

\* Nobody takes a lock he holds; only under session.mu are engines started.
LEMMA UnderHeld ==
  ASSUME NEW m \in Held
  PROVE  /\ St("lock", m) \notin Under(m) /\ St("unlock", m) \notin Under(m)
         /\ Under(m) \subseteq AnyStep
         /\ St("ensure", None) \in Under(m) \/ St("spawn", None) \in Under(m)
              \/ St("exited", None) \in Under(m) => m = "ses"
  BY DEF Held, Under, St, AnyStep, Lock, None

\* Of two scripts one after the other.
LEMMA SectionsAppend ==
  ASSUME NEW s, NEW t, Sections(s), Sections(t)
  PROVE  Sections(s \o t)
  <1>. DEFINE r == s \o t
  <1>1. s \in Seq(AnyStep) /\ t \in Seq(AnyStep) /\ r \in Seq(AnyStep)
    BY DEF Sections, Matched
  <1>2. Len(r) = Len(s) + Len(t) /\ Len(s) \in Nat /\ Len(t) \in Nat
    BY <1>1
  <1>3. /\ \A i \in 1..Len(s) : i \in 1..Len(r) /\ r[i] = s[i]
        /\ \A i \in 1..Len(t) : i + Len(s) \in 1..Len(r) /\ r[i + Len(s)] = t[i]
    BY <1>1, <1>2
  <1>4. \A i \in 1..Len(r) : i \in 1..Len(s) \/ i - Len(s) \in 1..Len(t)
    BY <1>2
  <1>5. ASSUME NEW m \in Held, NEW u \in 1..Len(r), r[u] = St("unlock", m), NEW b \in 0..Len(s), b < u,
               \A i \in 1..Len(r) : b < i /\ i < u => r[i] \in Under(m)
        PROVE  u \in 1..Len(s)
    <2>. SUFFICES ASSUME u \notin 1..Len(s) PROVE FALSE
      OBVIOUS
    <2>1. u - Len(s) \in 1..Len(t) /\ t[u - Len(s)] = St("unlock", m)
      BY <1>2, <1>3, <1>4, <1>5
    <2>2. ASSUME NEW i \in 1..(u - Len(s) - 1) PROVE t[i] \in Under(m)
      <3>1. i \in 1..Len(t) /\ i + Len(s) \in 1..Len(r) /\ b < i + Len(s) /\ i + Len(s) < u
        BY <1>2, <1>5, <2>1
      <3>. QED BY <1>3, <1>5, <3>1
    <2>3. Inside(t, m)
      BY <2>1, <2>2 DEF Inside
    <2>. QED BY <2>3 DEF Sections, Closed
  <1>6. ASSUME NEW m \in Held, NEW k \in 1..Len(r), r[k] = St("lock", m)
        PROVE  \E u \in 1..Len(r) : /\ k < u /\ r[u] = St("unlock", m)
                                    /\ \A i \in 1..Len(r) : k < i /\ i < u => r[i] \in Under(m)
    <2>1. CASE k \in 1..Len(s)
      <3>1. PICK u \in 1..Len(s) : /\ k < u /\ s[u] = St("unlock", m)
                                   /\ \A i \in 1..Len(s) : k < i /\ i < u => s[i] \in Under(m)
        BY <1>3, <1>6, <2>1 DEF Sections, Matched
      <3>2. u \in 1..Len(r) /\ r[u] = St("unlock", m)
        BY <1>3, <3>1
      <3>3. \A i \in 1..Len(r) : k < i /\ i < u => r[i] \in Under(m)
        BY <1>2, <1>3, <3>1
      <3>. QED BY <3>1, <3>2, <3>3
    <2>2. CASE k - Len(s) \in 1..Len(t)
      <3>0. t[k - Len(s)] = St("lock", m)
        BY <1>2, <1>3, <1>6, <2>2
      <3>1. PICK v \in 1..Len(t) : /\ k - Len(s) < v /\ t[v] = St("unlock", m)
                                   /\ \A i \in 1..Len(t) : k - Len(s) < i /\ i < v => t[i] \in Under(m)
        BY <3>0, <2>2 DEF Sections, Matched
      <3>2. v + Len(s) \in 1..Len(r) /\ r[v + Len(s)] = St("unlock", m) /\ k < v + Len(s)
        BY <1>2, <1>3, <3>1
      <3>3. ASSUME NEW i \in 1..Len(r), k < i, i < v + Len(s) PROVE r[i] \in Under(m)
        <4>1. i - Len(s) \in 1..Len(t) /\ k - Len(s) < i - Len(s) /\ i - Len(s) < v
          BY <1>2, <3>3, <2>2
        <4>2. r[i - Len(s) + Len(s)] = t[i - Len(s)] /\ i - Len(s) + Len(s) = i
          BY <1>2, <1>3, <4>1
        <4>. QED BY <3>1, <4>1, <4>2
      <3>. QED BY <3>2, <3>3
    <2>. QED BY <1>4, <2>1, <2>2
  <1>7. ASSUME NEW m \in Held, NEW k \in 1..Len(r), NEW u \in 1..Len(r), k < u, r[u] = St("unlock", m),
               \A i \in 1..Len(r) : k < i /\ i < u => r[i] \in Under(m)
        PROVE  r[k] \in Under(m) \union {St("lock", m)}
    <2>1. CASE k \in 1..Len(s)
      <3>1. u \in 1..Len(s)
        BY <1>5, <1>7, <2>1
      <3>2. s[u] = St("unlock", m) /\ \A i \in 1..Len(s) : k < i /\ i < u => s[i] \in Under(m)
        BY <1>3, <1>7, <3>1
      <3>3. s[k] \in Under(m) \union {St("lock", m)}
        BY <1>7, <2>1, <3>1, <3>2 DEF Sections, Matched
      <3>. QED BY <1>3, <2>1, <3>3
    <2>2. CASE k - Len(s) \in 1..Len(t)
      <3>1. u - Len(s) \in 1..Len(t) /\ k - Len(s) < u - Len(s)
        BY <1>2, <1>7, <2>2
      <3>2. t[u - Len(s)] = St("unlock", m) /\ t[k - Len(s)] = r[k]
        BY <1>2, <1>3, <1>7, <2>2, <3>1
      <3>3. ASSUME NEW i \in 1..Len(t), k - Len(s) < i, i < u - Len(s) PROVE t[i] \in Under(m)
        <4>1. i + Len(s) \in 1..Len(r) /\ k < i + Len(s) /\ i + Len(s) < u /\ r[i + Len(s)] = t[i]
          BY <1>2, <1>3, <3>3
        <4>. QED BY <1>7, <4>1
      <3>4. t[k - Len(s)] \in Under(m) \union {St("lock", m)}
        BY <2>2, <3>1, <3>2, <3>3 DEF Sections, Matched
      <3>. QED BY <3>2, <3>4
    <2>. QED BY <1>4, <2>1, <2>2
  <1>8. ASSUME NEW m \in Held, Inside(r, m) PROVE FALSE
    <2>1. PICK u \in 1..Len(r) : r[u] = St("unlock", m) /\ \A i \in 1..(u - 1) : r[i] \in Under(m)
      BY <1>8 DEF Inside
    <2>2. 0 \in 0..Len(s) /\ 0 < u /\ \A i \in 1..Len(r) : 0 < i /\ i < u => r[i] \in Under(m)
      BY <1>2, <2>1
    <2>3. u \in 1..Len(s)
      BY <1>5, <2>1, <2>2
    <2>4. s[u] = St("unlock", m) /\ \A i \in 1..(u - 1) : s[i] \in Under(m)
      BY <1>3, <2>1, <2>3
    <2>5. Inside(s, m)
      BY <2>3, <2>4 DEF Inside
    <2>. QED BY <2>5 DEF Sections, Closed
  <1>. HIDE DEF r
  <1>9. Matched(r)
    BY <1>1, <1>6, <1>7 DEF Matched
  <1>10. Closed(r)
    BY <1>8 DEF Closed
  <1>11. Sections(r)
    BY <1>9, <1>10 DEF Sections
  <1>. QED BY <1>11 DEF r

\* Of two scripts, an engine's start stays under session.mu.
LEMMA GuardedAppend ==
  ASSUME NEW s \in Seq(AnyStep), NEW t \in Seq(AnyStep), Guarded(s), Guarded(t)
  PROVE  Guarded(s \o t)
  <1>. DEFINE r == s \o t
  <1>2. Len(r) = Len(s) + Len(t) /\ Len(s) \in Nat /\ Len(t) \in Nat
    OBVIOUS
  <1>3. /\ \A i \in 1..Len(s) : i \in 1..Len(r) /\ r[i] = s[i]
        /\ \A i \in 1..Len(t) : i + Len(s) \in 1..Len(r) /\ r[i + Len(s)] = t[i]
    BY <1>2
  <1>4. \A i \in 1..Len(r) : i \in 1..Len(s) \/ i - Len(s) \in 1..Len(t)
    BY <1>2
  <1>5. ASSUME NEW k \in 1..Len(r), r[k].do \in {"ensure", "spawn", "exited"}
        PROVE  \E u \in 1..Len(r) : /\ k < u /\ r[u] = St("unlock", "ses")
                                    /\ \A i \in 1..Len(r) : k < i /\ i < u => r[i] \in Under("ses")
    <2>1. CASE k \in 1..Len(s)
      <3>1. PICK u \in 1..Len(s) : /\ k < u /\ s[u] = St("unlock", "ses")
                                   /\ \A i \in 1..Len(s) : k < i /\ i < u => s[i] \in Under("ses")
        BY <1>3, <1>5, <2>1 DEF Guarded
      <3>2. u \in 1..Len(r) /\ r[u] = St("unlock", "ses")
        BY <1>3, <3>1
      <3>3. \A i \in 1..Len(r) : k < i /\ i < u => r[i] \in Under("ses")
        BY <1>2, <1>3, <3>1
      <3>. QED BY <3>1, <3>2, <3>3
    <2>2. CASE k - Len(s) \in 1..Len(t)
      <3>0. t[k - Len(s)].do \in {"ensure", "spawn", "exited"}
        BY <1>2, <1>3, <1>5, <2>2
      <3>1. PICK v \in 1..Len(t) : /\ k - Len(s) < v /\ t[v] = St("unlock", "ses")
                                   /\ \A i \in 1..Len(t) : k - Len(s) < i /\ i < v => t[i] \in Under("ses")
        BY <3>0, <2>2 DEF Guarded
      <3>2. v + Len(s) \in 1..Len(r) /\ r[v + Len(s)] = St("unlock", "ses") /\ k < v + Len(s)
        BY <1>2, <1>3, <3>1
      <3>3. ASSUME NEW i \in 1..Len(r), k < i, i < v + Len(s) PROVE r[i] \in Under("ses")
        <4>1. i - Len(s) \in 1..Len(t) /\ k - Len(s) < i - Len(s) /\ i - Len(s) < v
          BY <1>2, <3>3, <2>2
        <4>2. r[i - Len(s) + Len(s)] = t[i - Len(s)] /\ i - Len(s) + Len(s) = i
          BY <1>2, <1>3, <4>1
        <4>. QED BY <3>1, <4>1, <4>2
      <3>. QED BY <3>2, <3>3
    <2>. QED BY <1>4, <2>1, <2>2
  <1>. HIDE DEF r
  <1>6. Guarded(r)
    BY <1>5 DEF Guarded
  <1>. QED BY <1>6 DEF r

\* Two whole scripts make one.
LEMMA WholeAppend ==
  ASSUME NEW s, NEW t, Whole(s), Whole(t)
  PROVE  Whole(s \o t)
  BY SectionsAppend, GuardedAppend DEF Whole, Sections, Matched

\* A single step that is neither a lock nor an unlock.
LEMMA WholeStep ==
  ASSUME NEW x \in AnyStep, x.do \in {"take", "write", "await"}
  PROVE  Whole(<<x>>)
  BY DEF Whole, Sections, Matched, Closed, Guarded, Inside, St

\* A section in which nothing else is waited for.
LEMMA WholeTake ==
  ASSUME NEW m \in Lock
  PROVE  Whole(Take(m))
  BY WholeStep DEF Take, Step, AnyStep

\* A section is a script, when what is done in it is one, or one step, and is
\* allowed under its lock.
LEMMA SectionsWith ==
  ASSUME NEW m \in Held, NEW body \in Seq(Under(m)), Sections(body)
  PROVE  Sections(With(m, body))
  <1>. DEFINE r == With(m, body)
              n == Len(body)
  <1>1. body \in Seq(AnyStep) /\ n \in Nat
    BY UnderHeld
  <1>2. /\ r \in Seq(AnyStep) /\ Len(r) = n + 2
        /\ r[1] = St("lock", m) /\ r[n + 2] = St("unlock", m)
        /\ \A i \in 1..n : r[i + 1] = body[i]
    <2>1. St("lock", m) \in AnyStep /\ St("unlock", m) \in AnyStep
      BY DEF AnyStep, St
    <2>2. r = <<St("lock", m)>> \o body \o <<St("unlock", m)>>
      BY DEF With, Step, St
    <2>. QED BY <1>1, <2>1, <2>2
  <1>. HIDE DEF r
  <1>3. \A i \in 1..Len(r) : i = 1 \/ i = n + 2 \/ i - 1 \in 1..n
    BY <1>1, <1>2
  <1>4. \A i \in 1..n : body[i] \in Under(m) /\ i + 1 \in 1..Len(r)
    BY <1>1, <1>2
  <1>5. ASSUME NEW x \in Held, NEW u \in 1..Len(r), r[u] = St("unlock", x), NEW b \in 0..1, b < u,
               \A i \in 1..Len(r) : b < i /\ i < u => r[i] \in Under(x)
        PROVE  u = n + 2 /\ x = m
    <2>1. u # 1
      BY <1>2, <1>5 DEF St
    <2>2. CASE u - 1 \in 1..n
      <3>1. body[u - 1] = St("unlock", x)
        BY <1>2, <1>5, <2>2
      <3>2. ASSUME NEW i \in 1..(u - 1 - 1) PROVE body[i] \in Under(x)
        <4>1. i \in 1..n /\ i + 1 \in 1..Len(r) /\ b < i + 1 /\ i + 1 < u
          BY <1>1, <1>2, <2>2
        <4>. QED BY <1>2, <1>5, <4>1
      <3>3. Inside(body, x)
        BY <2>2, <3>1, <3>2 DEF Inside
      <3>. QED BY <3>3 DEF Sections, Closed
    <2>3. CASE u = n + 2
      BY <1>2, <1>5, <2>3 DEF St
    <2>. QED BY <1>3, <2>1, <2>2, <2>3
  <1>6. ASSUME NEW x \in Held, NEW k \in 1..Len(r), r[k] = St("lock", x)
        PROVE  \E u \in 1..Len(r) : /\ k < u /\ r[u] = St("unlock", x)
                                    /\ \A i \in 1..Len(r) : k < i /\ i < u => r[i] \in Under(x)
    <2>1. CASE k = 1
      <3>1. x = m
        BY <1>2, <1>6, <2>1 DEF St
      <3>2. ASSUME NEW i \in 1..Len(r), 1 < i, i < n + 2 PROVE r[i] \in Under(m)
        <4>1. i - 1 \in 1..n /\ r[i - 1 + 1] = body[i - 1] /\ i - 1 + 1 = i
          BY <1>1, <1>2, <3>2
        <4>. QED BY <1>4, <4>1
      <3>. QED BY <1>1, <1>2, <2>1, <3>1, <3>2
    <2>2. CASE k - 1 \in 1..n
      <3>1. body[k - 1] = St("lock", x)
        BY <1>2, <1>6, <2>2
      <3>2. PICK v \in 1..n : /\ k - 1 < v /\ body[v] = St("unlock", x)
                              /\ \A i \in 1..n : k - 1 < i /\ i < v => body[i] \in Under(x)
        BY <2>2, <3>1 DEF Sections, Matched
      <3>3. v + 1 \in 1..Len(r) /\ r[v + 1] = St("unlock", x) /\ k < v + 1
        BY <1>2, <1>4, <3>2
      <3>4. ASSUME NEW i \in 1..Len(r), k < i, i < v + 1 PROVE r[i] \in Under(x)
        <4>1. i - 1 \in 1..n /\ k - 1 < i - 1 /\ i - 1 < v /\ i - 1 + 1 = i
          BY <1>1, <1>2, <2>2, <3>4
        <4>. QED BY <1>2, <3>2, <4>1
      <3>. QED BY <3>3, <3>4
    <2>3. CASE k = n + 2
      BY <1>2, <1>6, <2>3 DEF St
    <2>. QED BY <1>3, <2>1, <2>2, <2>3
  <1>7. ASSUME NEW x \in Held, NEW k \in 1..Len(r), NEW u \in 1..Len(r), k < u, r[u] = St("unlock", x),
               \A i \in 1..Len(r) : k < i /\ i < u => r[i] \in Under(x)
        PROVE  r[k] \in Under(x) \union {St("lock", x)}
    <2>1. CASE k = 1
      BY <1>2, <1>5, <1>7, <2>1
    <2>2. CASE k - 1 \in 1..n
      <3>0. k - 1 + 1 = k /\ u # 1 /\ r[k] = body[k - 1]
        BY <1>2, <1>7, <2>2
      <3>1. CASE u = n + 2
        <4>1. x = m
          BY <1>2, <1>7, <3>1 DEF St
        <4>. QED BY <1>4, <2>2, <3>0, <4>1
      <3>2. CASE u - 1 \in 1..n
        <4>1. k - 1 < u - 1 /\ body[u - 1] = St("unlock", x)
          BY <1>2, <1>7, <3>2
        <4>2. ASSUME NEW i \in 1..n, k - 1 < i, i < u - 1 PROVE body[i] \in Under(x)
          <5>1. i + 1 \in 1..Len(r) /\ k < i + 1 /\ i + 1 < u /\ r[i + 1] = body[i]
            BY <1>1, <1>2, <4>2
          <5>. QED BY <1>7, <5>1
        <4>3. body[k - 1] \in Under(x) \union {St("lock", x)}
          BY <2>2, <3>2, <4>1, <4>2 DEF Sections, Matched
        <4>. QED BY <3>0, <4>3
      <3>. QED BY <1>3, <3>0, <3>1, <3>2
    <2>. QED BY <1>1, <1>2, <1>3, <1>7, <2>1, <2>2
  <1>8. ASSUME NEW x \in Held, Inside(r, x) PROVE FALSE
    <2>1. PICK u \in 1..Len(r) : r[u] = St("unlock", x) /\ \A i \in 1..(u - 1) : r[i] \in Under(x)
      BY <1>8 DEF Inside
    <2>2. 0 \in 0..1 /\ 0 < u /\ \A i \in 1..Len(r) : 0 < i /\ i < u => r[i] \in Under(x)
      BY <1>1, <1>2, <2>1
    <2>3. u = n + 2 /\ x = m
      BY <1>5, <2>1, <2>2
    <2>4. r[1] \in Under(m)
      BY <1>1, <2>1, <2>3
    <2>. QED BY <1>2, <2>4, UnderHeld
  <1>9. Sections(r)
    BY <1>2, <1>6, <1>7, <1>8 DEF Sections, Matched, Closed
  <1>. QED BY <1>9 DEF r

\* A section of a whole script is whole.
LEMMA WholeWith ==
  ASSUME NEW m \in Held, NEW body \in Seq(Under(m)), Sections(body)
  PROVE  Whole(With(m, body))
  <1>. DEFINE r == With(m, body)
              n == Len(body)
  <1>1. Sections(r)
    BY SectionsWith
  <1>2. /\ n \in Nat /\ Len(r) = n + 2
        /\ r[1] = St("lock", m) /\ r[n + 2] = St("unlock", m)
        /\ \A i \in 1..n : r[i + 1] = body[i] /\ r[i + 1] \in Under(m)
    <2>2. r = <<St("lock", m)>> \o body \o <<St("unlock", m)>>
      BY DEF With, Step, St
    <2>. QED BY <2>2
  <1>. HIDE DEF r
  <1>3. ASSUME NEW k \in 1..Len(r), r[k].do \in {"ensure", "spawn", "exited"}
        PROVE  \E u \in 1..Len(r) : /\ k < u /\ r[u] = St("unlock", "ses")
                                    /\ \A i \in 1..Len(r) : k < i /\ i < u => r[i] \in Under("ses")
    <2>1. k # 1 /\ k # n + 2
      BY <1>2, <1>3 DEF St
    <2>2. k - 1 \in 1..n /\ k - 1 + 1 = k
      BY <1>2, <2>1
    <2>3. r[k] \in Under(m)
      BY <1>2, <2>2
    <2>4. m = "ses"
      BY <1>3, <2>3 DEF Under, St, Held
    <2>5. ASSUME NEW i \in 1..Len(r), k < i, i < n + 2 PROVE r[i] \in Under("ses")
      <3>1. i - 1 \in 1..n /\ i - 1 + 1 = i
        BY <1>2, <2>5
      <3>. QED BY <1>2, <2>4, <3>1
    <2>. QED BY <1>2, <2>2, <2>4, <2>5
  <1>4. Guarded(r)
    BY <1>3 DEF Guarded
  <1>. QED BY <1>1, <1>4 DEF r, Whole

\* A step of a script.
CallerStep == {x \in AnyStep : x.do \notin {"spawn", "exited"}}

\* What is done with an event holds schedSave at most; at an engine's end the reader
\* notes that under session.mu first.
EventStep ==
  {St("take", "act"), St("take", "log"), St("take", "sched"), St("lock", "schedSave"),
   St("unlock", "schedSave")}
ExitStep ==
  EventStep \union {St("lock", "ses"), St("exited", None), St("take", "svc"), St("unlock", "ses")}

\* A step in a section, an engine's start too.
LEMMA SectionsStep ==
  ASSUME NEW x \in AnyStep, x.do \notin {"lock", "unlock"}
  PROVE  Sections(<<x>>)
  BY DEF Sections, Matched, Closed, Inside, St

\* The steps of sections.
LEMMA StepsWith ==
  ASSUME NEW S, NEW m, NEW body \in Seq(S), St("lock", m) \in S, St("unlock", m) \in S
  PROVE  With(m, body) \in Seq(S)
  BY DEF With, Step, St

\* The step of a section in which nothing else is waited for.
LEMMA StepsTake ==
  ASSUME NEW S, NEW m, St("take", m) \in S
  PROVE  Take(m) \in Seq(S)
  BY DEF Take, Step, St

\* The parts that operations share: ensureRunning, write, stop, the save.
LEMMA EnsureWhole == Whole(EnsureRunning)
  <1>1. /\ Step("ensure", None) \in Seq(Under("ses")) /\ St("ensure", None) \in AnyStep /\ "ses" \in Held
        /\ Step("ensure", None) = <<St("ensure", None)>> /\ St("ensure", None).do = "ensure"
    BY DEF Step, Under, St, AnyStep, Held
  <1>2. Sections(Step("ensure", None))
    BY <1>1, SectionsStep
  <1>. QED BY <1>1, <1>2, WholeWith DEF EnsureRunning

\* Writing to the engine is one section of session.mu.
LEMMA WriteWhole == Whole(Write)
  <1>1. /\ Step("write", None) \in Seq(Under("ses")) /\ St("write", None) \in AnyStep /\ "ses" \in Held
        /\ Step("write", None) = <<St("write", None)>> /\ St("write", None).do = "write"
    BY DEF Step, Under, St, AnyStep, Held
  <1>2. Sections(Step("write", None))
    BY <1>1, SectionsStep
  <1>. QED BY <1>1, <1>2, WholeWith DEF Write

\* The sections in which nothing else is waited for.
LEMMA TakesWhole ==
  /\ Whole(Take("act")) /\ Whole(Take("log")) /\ Whole(Take("ses")) /\ Whole(Take("svc"))
  /\ Whole(Take("sched")) /\ Whole(Take("srv")) /\ Whole(Take("conn")) /\ Whole(Take("up"))
  <1>1. {"act", "log", "ses", "svc", "sched", "srv", "conn", "up"} \subseteq Lock
    BY DEF Lock
  <1>. QED BY <1>1, WholeTake

\* The stop of an engine waits for its end with no lock held.
LEMMA StopWhole == Whole(Stop)
  <1>1. Whole(Step("write", None)) /\ Whole(Step("await", None))
    BY WholeStep DEF Step, AnyStep
  <1>. QED BY <1>1, TakesWhole, WholeAppend DEF Stop

\* saveRegistry takes the service's lock under saveMu.
LEMMA SaveWhole == Whole(SaveRegistry)
  <1>1. /\ Take("act") \in Seq(Under("svc")) /\ "svc" \in Held /\ "save" \in Held
        /\ St("take", "act") \in Under("save") /\ St("lock", "svc") \in Under("save")
        /\ St("unlock", "svc") \in Under("save")
    BY DEF Take, Step, Under, St, Held
  <1>2. With("svc", Take("act")) \in Seq(Under("save"))
    BY <1>1, StepsTake, StepsWith
  <1>3. Whole(With("svc", Take("act")))
    BY <1>1, TakesWhole, WholeWith DEF Whole
  <1>. QED BY <1>1, <1>2, <1>3, WholeWith DEF SaveRegistry, Whole

\* What a change of a session, a subscriber, a client and the reaper do under one lock.
LEMMA SectionsOfOneLock ==
  /\ Whole(Changed) /\ Whole(With("ses", Take("log"))) /\ Whole(With("conn", Take("log")))
  /\ Whole(With("svc", Take("ses") \o Take("log") \o Take("ses") \o Touch))
  /\ Whole(With("svc", Take("log") \o Take("ses") \o Take("ses") \o Touch))
  /\ Whole(With("up", All \o Touch)) /\ Whole(With("srv", Take("conn")))
  <1>1. /\ Take("sched") \in Seq(Under("schedSave")) /\ Take("log") \in Seq(Under("ses"))
        /\ Take("log") \in Seq(Under("conn")) /\ Take("conn") \in Seq(Under("srv"))
        /\ Take("svc") \in Seq(Under("up")) /\ Take("act") \in Seq(Under("up"))
        /\ Take("ses") \in Seq(Under("svc")) /\ Take("log") \in Seq(Under("svc"))
        /\ Take("act") \in Seq(Under("svc"))
    BY DEF Take, Step, Under, St
  <1>2. {"schedSave", "ses", "conn", "svc", "up", "srv"} \subseteq Held
    BY DEF Held
  <1>3. Whole(Changed) /\ Whole(With("ses", Take("log"))) /\ Whole(With("conn", Take("log")))
        /\ Whole(With("srv", Take("conn")))
    BY <1>1, <1>2, TakesWhole, WholeWith DEF Changed, Whole
  <1>4. Whole(With("up", All \o Touch))
    <2>1. All \o Touch \in Seq(Under("up"))
      BY <1>1 DEF All, Touch
    <2>2. Whole(All \o Touch)
      BY TakesWhole, WholeAppend DEF All, Touch
    <2>. QED BY <1>2, <2>1, <2>2, WholeWith DEF Whole
  <1>5. Whole(With("svc", Take("ses") \o Take("log") \o Take("ses") \o Touch))
    <2>1. Take("ses") \o Take("log") \o Take("ses") \o Touch \in Seq(Under("svc"))
      BY <1>1 DEF Touch
    <2>2. Whole(Take("ses") \o Take("log") \o Take("ses") \o Touch)
      BY TakesWhole, WholeAppend DEF Touch
    <2>. QED BY <1>2, <2>1, <2>2, WholeWith DEF Whole
  <1>6. Whole(With("svc", Take("log") \o Take("ses") \o Take("ses") \o Touch))
    <2>1. Take("log") \o Take("ses") \o Take("ses") \o Touch \in Seq(Under("svc"))
      BY <1>1 DEF Touch
    <2>2. Whole(Take("log") \o Take("ses") \o Take("ses") \o Touch)
      BY TakesWhole, WholeAppend DEF Touch
    <2>. QED BY <1>2, <2>1, <2>2, WholeWith DEF Whole
  <1>. QED BY <1>3, <1>4, <1>5, <1>6

\* Every operation's script.
LEMMA ScriptWhole ==
  ASSUME NEW op \in AllOps
  PROVE  Whole(Script(op))
  <1>. USE TakesWhole, WholeAppend
  <1>1. Whole(Touch) /\ Whole(Get) /\ Whole(All) /\ Whole(IsClosing)
    BY DEF Touch, Get, All, IsClosing
  <1>2. Whole(Send)
    BY <1>1, EnsureWhole, WriteWhole DEF Send
  <1>3. Whole(Waiting)
    BY <1>1 DEF Waiting
  <1>4. Whole(DropIfEmpty)
    BY SaveWhole DEF DropIfEmpty
  <1>5. Whole(Subscribe)
    BY <1>1, EnsureWhole, SectionsOfOneLock DEF Subscribe
  <1>6. Whole(Leave)
    BY <1>1, <1>4, StopWhole, SectionsOfOneLock DEF Leave
  <1>7. Whole(Restart)
    BY <1>1, StopWhole, SaveWhole, EnsureWhole DEF Restart
  <1>8. Whole(SetPersist) /\ Whole(Create)
    BY <1>1, SaveWhole, SectionsOfOneLock DEF SetPersist, Create
  <1>9. Whole(FireDue)
    BY <1>1, <1>2, SectionsOfOneLock DEF FireDue
  <1>10. Whole(NoticeBusy)
    BY <1>1, <1>3, WriteWhole DEF NoticeBusy
  <1>11. Whole(UpgradeLoop)
    BY <1>1, <1>2, <1>3, SaveWhole, SectionsOfOneLock DEF UpgradeLoop
  <1>12. Whole(UIChanged)
    BY <1>1, SectionsOfOneLock DEF UIChanged
  <1>13. Whole(ReapOnce)
    BY <1>4, StopWhole, SectionsOfOneLock DEF ReapOnce
  <1>14. Whole(CreateOrReuse)
    BY SectionsOfOneLock DEF CreateOrReuse
  <1>15. Whole(Get \o Send) /\ Whole(Get \o Subscribe)
    BY <1>1, <1>2, <1>5
  <1>. QED BY <1>6, <1>7, <1>8, <1>9, <1>10, <1>11, <1>12, <1>13, <1>14, <1>15 DEF Script, AllOps

\* No operation's script starts an engine but by ensureRunning, and none notes its end.
LEMMA ScriptSteps ==
  ASSUME NEW op \in AllOps
  PROVE  Script(op) \in Seq(CallerStep)
  <1>. DEFINE S == Seq(CallerStep)
  <1>1. /\ \A m \in Lock : St("take", m) \in CallerStep
        /\ \A m \in Held : St("lock", m) \in CallerStep /\ St("unlock", m) \in CallerStep
        /\ \A do \in {"ensure", "write", "await"} : St(do, None) \in CallerStep
    BY DEF CallerStep, AnyStep, St
  <1>2. \A m \in Lock : Take(m) \in S
    BY <1>1, StepsTake
  <1>3. \A m \in Held, body \in S : With(m, body) \in S
    BY <1>1, StepsWith
  <1>4. \A do \in {"ensure", "write", "await"} : Step(do, None) \in S
    BY <1>1 DEF Step, St
  <1>5. \A s \in S, t \in S : s \o t \in S
    OBVIOUS
  <1>6. /\ {"svc", "ses", "schedSave", "save", "up", "conn", "srv"} \subseteq Held
        /\ {"act", "log", "sched", "svc", "ses", "srv", "conn", "up"} \subseteq Lock
    BY DEF Held, Lock
  <1>. HIDE DEF S
  <1>7. Touch \in S /\ Get \in S /\ All \in S /\ IsClosing \in S
    BY <1>2, <1>6 DEF Touch, Get, All, IsClosing
  <1>8. EnsureRunning \in S /\ Write \in S /\ Changed \in S
    BY <1>2, <1>3, <1>4, <1>6 DEF EnsureRunning, Write, Changed
  <1>9. Send \in S
    BY <1>5, <1>7, <1>8 DEF Send
  <1>10. Stop \in S
    BY <1>2, <1>4, <1>5, <1>6 DEF Stop
  <1>11. SaveRegistry \in S
    BY <1>2, <1>3, <1>6 DEF SaveRegistry
  <1>12. Subscribe \in S
    BY <1>2, <1>3, <1>5, <1>6, <1>7, <1>8 DEF Subscribe
  <1>13. DropIfEmpty \in S /\ Waiting \in S
    BY <1>2, <1>5, <1>6, <1>7, <1>11 DEF DropIfEmpty, Waiting
  <1>14. Leave \in S
    BY <1>2, <1>3, <1>5, <1>6, <1>7, <1>10, <1>13 DEF Leave
  <1>15. Restart \in S /\ SetPersist \in S
    BY <1>2, <1>5, <1>6, <1>7, <1>8, <1>10, <1>11 DEF Restart, SetPersist
  <1>16. Create \in S
    BY <1>2, <1>3, <1>5, <1>6, <1>7, <1>11 DEF Create
  <1>17. FireDue \in S
    BY <1>2, <1>5, <1>6, <1>7, <1>8, <1>9 DEF FireDue
  <1>18. NoticeBusy \in S
    BY <1>2, <1>5, <1>6, <1>7, <1>8, <1>13 DEF NoticeBusy
  <1>19. UpgradeLoop \in S
    BY <1>2, <1>3, <1>5, <1>6, <1>7, <1>9, <1>11, <1>13 DEF UpgradeLoop
  <1>20. UIChanged \in S
    BY <1>2, <1>3, <1>5, <1>6, <1>7 DEF UIChanged
  <1>21. ReapOnce \in S
    BY <1>2, <1>3, <1>5, <1>6, <1>7, <1>10, <1>13 DEF ReapOnce
  <1>22. CreateOrReuse \in S
    BY <1>2, <1>3, <1>5, <1>6, <1>7 DEF CreateOrReuse
  <1>23. Get \o Send \in S /\ Get \o Subscribe \in S
    BY <1>5, <1>7, <1>9, <1>12
  <1>24. Script(op) \in S
    BY <1>14, <1>15, <1>16, <1>17, <1>18, <1>19, <1>20, <1>21, <1>22, <1>23 DEF Script, AllOps
  <1>. QED BY <1>24 DEF S

\* After session.mu the reader only does what it does with an event.
Late(s) ==
  \A k \in 1..Len(s) : s[k] = St("unlock", "ses") =>
    \A i \in 1..Len(s) : k < i => s[i] \in EventStep

\* An end whose engine's last words follow.
LEMMA LateAppend ==
  ASSUME NEW s \in Seq(AnyStep), NEW t \in Seq(EventStep), Late(s)
  PROVE  Late(s \o t)
  <1>. DEFINE r == s \o t
  <1>1. Len(r) = Len(s) + Len(t) /\ Len(s) \in Nat /\ Len(t) \in Nat
    OBVIOUS
  <1>2. /\ \A i \in 1..Len(s) : r[i] = s[i]
        /\ \A i \in 1..Len(t) : r[i + Len(s)] = t[i]
    BY <1>1
  <1>3. \A i \in 1..Len(r) : i \in 1..Len(s) \/ r[i] \in EventStep
    <2>1. ASSUME NEW i \in 1..Len(r), i \notin 1..Len(s) PROVE r[i] \in EventStep
      <3>1. i - Len(s) \in 1..Len(t) /\ i - Len(s) + Len(s) = i
        BY <1>1, <2>1
      <3>. HIDE DEF r
      <3>2. r[i] = t[i - Len(s)]
        BY <1>2, <3>1
      <3>. QED BY <3>1, <3>2
    <2>. QED BY <2>1
  <1>. HIDE DEF r
  <1>4. St("unlock", "ses") \notin EventStep
    BY DEF EventStep, St
  <1>5. Late(r)
    BY <1>1, <1>2, <1>3, <1>4 DEF Late
  <1>. QED BY <1>5 DEF r

\* What the reader does with an event, and at its engine's end.
LEMMA ReaderWhole ==
  /\ Whole(OnEvent) /\ OnEvent \in Seq(EventStep)
  /\ Whole(OnExit) /\ OnExit \in Seq(ExitStep) /\ Late(OnExit)
  <1>. DEFINE body == Step("exited", None) \o IsClosing \o Take("log")
              sec == With("ses", body)
  <1>1. Whole(TurnEnded) /\ Whole(Track) /\ Whole(Take("log"))
    BY TakesWhole, WholeAppend, SectionsOfOneLock DEF TurnEnded, Track, Touch
  <1>2. Whole(OnEvent)
    BY <1>1, WholeAppend DEF OnEvent
  <1>3. /\ Track \in Seq(EventStep) /\ Take("log") \in Seq(EventStep) /\ TurnEnded \in Seq(EventStep)
    BY DEF Track, Touch, TurnEnded, Changed, With, Take, Step, EventStep, St
  <1>4. OnEvent \in Seq(EventStep)
    BY <1>3 DEF OnEvent
  <1>5. Sections(body) /\ body \in Seq(Under("ses")) /\ body \in Seq(ExitStep)
    <2>1. St("exited", None) \in AnyStep /\ Step("exited", None) = <<St("exited", None)>>
          /\ St("exited", None).do = "exited"
      BY DEF AnyStep, Step, St
    <2>2. Sections(Step("exited", None))
      BY <2>1, SectionsStep
    <2>3. Sections(body)
      BY <2>2, TakesWhole, SectionsAppend DEF IsClosing, Whole
    <2>4. Step("exited", None) \in Seq(Under("ses")) /\ IsClosing \in Seq(Under("ses"))
          /\ Take("log") \in Seq(Under("ses"))
      BY DEF IsClosing, Take, Step, Under, St
    <2>5. Step("exited", None) \in Seq(ExitStep) /\ IsClosing \in Seq(ExitStep)
          /\ Take("log") \in Seq(ExitStep)
      BY DEF IsClosing, Take, Step, ExitStep, EventStep, St
    <2>. QED BY <2>3, <2>4, <2>5
  <1>. HIDE DEF body
  <1>6. Whole(sec)
    BY <1>5, WholeWith DEF Held
  <1>7. Late(sec) /\ sec \in Seq(AnyStep) /\ sec \in Seq(ExitStep)
    <2>1. sec = <<St("lock", "ses")>> \o body \o <<St("unlock", "ses")>>
      BY DEF With, Step, St
    <2>2. St("unlock", "ses") \notin Under("ses") /\ St("lock", "ses") # St("unlock", "ses")
      BY UnderHeld DEF Held, St
    <2>3. \A k \in 1..Len(sec) : sec[k] = St("unlock", "ses") => k = Len(sec)
      BY <1>5, <2>1, <2>2
    <2>4. Late(sec)
      BY <2>3 DEF Late
    <2>5. sec \in Seq(ExitStep)
      <3>1. St("lock", "ses") \in ExitStep /\ St("unlock", "ses") \in ExitStep
        BY DEF ExitStep
      <3>. QED BY <1>5, <3>1, StepsWith
    <2>. HIDE DEF sec
    <2>. QED BY <2>4, <2>5, <1>6 DEF Whole, Sections, Matched
  <1>8. OnExit = (sec \o Track) \o TurnEnded
    BY DEF OnExit, body
  <1>. HIDE DEF sec
  <1>9. Whole(OnExit)
    BY <1>1, <1>6, <1>8, WholeAppend
  <1>10. OnExit \in Seq(ExitStep)
    BY <1>3, <1>7, <1>8 DEF ExitStep
  <1>11. Late(OnExit)
    <2>1. Track \in Seq(AnyStep) /\ sec \o Track \in Seq(AnyStep)
      BY <1>1, <1>7 DEF Whole, Sections, Matched
    <2>. QED BY <1>3, <1>7, <1>8, <2>1, LateAppend
  <1>. QED BY <1>2, <1>4, <1>9, <1>10, <1>11

\* What is left of a goroutine's script after its first step.
LEMMA TailMatched ==
  ASSUME NEW s, Matched(s), Guarded(s), s # <<>>
  PROVE  /\ Matched(Tail(s)) /\ Guarded(Tail(s))
         /\ \A m \in Held : Inside(Tail(s), m) <=>
              \/ Head(s) = St("lock", m)
              \/ Inside(s, m) /\ Head(s) # St("unlock", m)
  <1>. DEFINE r == Tail(s)
  <1>1. s \in Seq(AnyStep) /\ Len(s) \in Nat \ {0} /\ Head(s) = s[1] /\ 1 \in 1..Len(s)
    BY DEF Matched
  <1>2. r \in Seq(AnyStep) /\ Len(r) = Len(s) - 1 /\ Len(r) \in Nat
        /\ \A i \in 1..Len(r) : i + 1 \in 1..Len(s) /\ r[i] = s[i + 1]
    BY <1>1
  <1>3. \A i \in 1..Len(s) : i = 1 \/ (i - 1 \in 1..Len(r) /\ r[i - 1] = s[i])
    <2>1. ASSUME NEW i \in 1..Len(s), i # 1 PROVE i - 1 \in 1..Len(r) /\ r[i - 1] = s[i]
      <3>1. i - 1 \in 1..Len(r) /\ i - 1 + 1 = i
        BY <1>1, <1>2, <2>1
      <3>. HIDE DEF r
      <3>. QED BY <1>2, <3>1
    <2>. QED BY <2>1
  <1>. HIDE DEF r
  \* A stretch in the one is a stretch in the other.
  <1>4. ASSUME NEW m, NEW k \in 1..Len(r),
               \E u \in 1..Len(s) : /\ k + 1 < u /\ s[u] = St("unlock", m)
                                    /\ \A i \in 1..Len(s) : k + 1 < i /\ i < u => s[i] \in Under(m)
        PROVE  \E u \in 1..Len(r) : /\ k < u /\ r[u] = St("unlock", m)
                                    /\ \A i \in 1..Len(r) : k < i /\ i < u => r[i] \in Under(m)
    <2>1. PICK u \in 1..Len(s) : /\ k + 1 < u /\ s[u] = St("unlock", m)
                                 /\ \A i \in 1..Len(s) : k + 1 < i /\ i < u => s[i] \in Under(m)
      BY <1>4
    <2>2. u - 1 \in 1..Len(r) /\ k < u - 1 /\ r[u - 1] = St("unlock", m)
      BY <1>3, <2>1
    <2>3. \A i \in 1..Len(r) : k < i /\ i < u - 1 => r[i] \in Under(m)
      BY <1>2, <2>1
    <2>. QED BY <2>2, <2>3
  <1>5. ASSUME NEW m \in Held, NEW k \in 1..Len(r), r[k] = St("lock", m)
        PROVE  \E u \in 1..Len(r) : /\ k < u /\ r[u] = St("unlock", m)
                                    /\ \A i \in 1..Len(r) : k < i /\ i < u => r[i] \in Under(m)
    <2>1. k + 1 \in 1..Len(s) /\ s[k + 1] = St("lock", m)
      BY <1>2, <1>5
    <2>. QED BY <1>4, <2>1 DEF Matched
  <1>6. ASSUME NEW m \in Held, NEW k \in 1..Len(r), NEW u \in 1..Len(r), k < u, r[u] = St("unlock", m),
               \A i \in 1..Len(r) : k < i /\ i < u => r[i] \in Under(m)
        PROVE  r[k] \in Under(m) \union {St("lock", m)}
    <2>1. /\ k + 1 \in 1..Len(s) /\ u + 1 \in 1..Len(s) /\ k + 1 < u + 1 /\ s[u + 1] = St("unlock", m)
          /\ r[k] = s[k + 1]
      BY <1>2, <1>6
    <2>2. \A i \in 1..Len(s) : k + 1 < i /\ i < u + 1 => s[i] \in Under(m)
      BY <1>2, <1>3, <1>6
    <2>. QED BY <2>1, <2>2 DEF Matched
  <1>7. ASSUME NEW k \in 1..Len(r), r[k].do \in {"ensure", "spawn", "exited"}
        PROVE  \E u \in 1..Len(r) : /\ k < u /\ r[u] = St("unlock", "ses")
                                    /\ \A i \in 1..Len(r) : k < i /\ i < u => r[i] \in Under("ses")
    <2>1. k + 1 \in 1..Len(s) /\ s[k + 1].do \in {"ensure", "spawn", "exited"}
      BY <1>2, <1>7
    <2>. QED BY <1>4, <2>1 DEF Guarded
  <1>8. ASSUME NEW m \in Held, Inside(r, m)
        PROVE  Head(s) = St("lock", m) \/ (Inside(s, m) /\ Head(s) # St("unlock", m))
    <2>1. PICK u \in 1..Len(r) : r[u] = St("unlock", m) /\ \A i \in 1..(u - 1) : r[i] \in Under(m)
      BY <1>8 DEF Inside
    <2>2. u + 1 \in 1..Len(s) /\ s[u + 1] = St("unlock", m) /\ 1 < u + 1
      BY <1>2, <2>1
    <2>3. \A i \in 1..Len(s) : 1 < i /\ i < u + 1 => s[i] \in Under(m)
      BY <1>2, <1>3, <2>1
    <2>4. s[1] \in Under(m) \union {St("lock", m)}
      BY <1>1, <2>2, <2>3 DEF Matched
    <2>5. CASE s[1] \in Under(m)
      <3>1. Inside(s, m)
        BY <1>1, <2>2, <2>3, <2>5 DEF Inside
      <3>. QED BY <1>1, <2>5, <3>1, UnderHeld
    <2>6. CASE s[1] = St("lock", m)
      BY <1>1, <2>6
    <2>. QED BY <2>4, <2>5, <2>6
  <1>9. ASSUME NEW m \in Held, Head(s) = St("lock", m) PROVE Inside(r, m)
    <2>1. PICK u \in 1..Len(s) : /\ 1 < u /\ s[u] = St("unlock", m)
                                 /\ \A i \in 1..Len(s) : 1 < i /\ i < u => s[i] \in Under(m)
      BY <1>1, <1>9 DEF Matched
    <2>2. u - 1 \in 1..Len(r) /\ r[u - 1] = St("unlock", m)
      BY <1>3, <2>1
    <2>3. \A i \in 1..(u - 1 - 1) : r[i] \in Under(m)
      BY <1>2, <2>1, <2>2
    <2>. QED BY <2>2, <2>3 DEF Inside
  <1>10. ASSUME NEW m \in Held, Inside(s, m), Head(s) # St("unlock", m) PROVE Inside(r, m)
    <2>1. PICK u \in 1..Len(s) : s[u] = St("unlock", m) /\ \A i \in 1..(u - 1) : s[i] \in Under(m)
      BY <1>10 DEF Inside
    <2>2. u - 1 \in 1..Len(r) /\ r[u - 1] = St("unlock", m)
      BY <1>1, <1>3, <1>10, <2>1
    <2>3. \A i \in 1..(u - 1 - 1) : r[i] \in Under(m)
      BY <1>2, <2>1, <2>2
    <2>. QED BY <2>2, <2>3 DEF Inside
  <1>11. Matched(r)
    BY <1>2, <1>5, <1>6 DEF Matched
  <1>12. Guarded(r)
    BY <1>7 DEF Guarded
  <1>. QED BY <1>8, <1>9, <1>10, <1>11, <1>12 DEF r

\* The start of an engine before what follows it.
LEMMA StartsPlaces ==
  ASSUME NEW t \in Seq(AnyStep)
  PROVE  /\ Starts \o t \in Seq(AnyStep) /\ Len(Starts \o t) = Len(t) + 3 /\ Len(t) \in Nat
         /\ (Starts \o t)[1] = St("take", "svc") /\ (Starts \o t)[2] = St("take", "log")
         /\ (Starts \o t)[3] = St("spawn", None)
         /\ \A i \in 1..Len(t) : (Starts \o t)[i + 3] = t[i]
         /\ \A i \in 1..Len(Starts \o t) :
              i \in 1..3 \/ (i - 3 \in 1..Len(t) /\ (Starts \o t)[i] = t[i - 3])
  <1>. DEFINE r == Starts \o t
  <1>1. /\ Starts \in Seq(AnyStep) /\ Len(Starts) = 3
        /\ Starts[1] = St("take", "svc") /\ Starts[2] = St("take", "log") /\ Starts[3] = St("spawn", None)
    BY DEF Starts, IsClosing, Take, Step, St, AnyStep, Lock
  <1>2. Starts \in Seq(AnyStep)
    BY <1>1
  <1>3. r \in Seq(AnyStep) /\ Len(r) = Len(Starts) + Len(t) /\ Len(t) \in Nat
    BY <1>2
  <1>4. /\ \A i \in 1..Len(Starts) : r[i] = Starts[i]
        /\ \A i \in 1..Len(t) : r[i + Len(Starts)] = t[i]
    BY <1>2
  <1>. HIDE DEF r
  <1>5. ASSUME NEW i \in 1..Len(r), i \notin 1..3 PROVE i - 3 \in 1..Len(t) /\ r[i] = t[i - 3]
    <2>1. i - 3 \in 1..Len(t) /\ i - 3 + 3 = i
      BY <1>1, <1>3, <1>5
    <2>. QED BY <1>1, <1>4, <2>1
  <1>6. /\ r \in Seq(AnyStep) /\ Len(r) = Len(t) + 3 /\ Len(t) \in Nat
        /\ r[1] = St("take", "svc") /\ r[2] = St("take", "log") /\ r[3] = St("spawn", None)
        /\ \A i \in 1..Len(t) : r[i + 3] = t[i]
    BY <1>1, <1>3, <1>4
  <1>. QED BY <1>5, <1>6 DEF r

\* An engine that does not run is started where it is ensured.
LEMMA StartsMatched ==
  ASSUME NEW s, Matched(s), Guarded(s), s # <<>>, Head(s) = St("ensure", None)
  PROVE  /\ Matched(Starts \o Tail(s)) /\ Guarded(Starts \o Tail(s))
         /\ \A m \in Held : Inside(Starts \o Tail(s), m) <=> Inside(s, m)
  <1>. DEFINE t == Tail(s)
              r == Starts \o t
  <1>1. t \in Seq(AnyStep) /\ Matched(t) /\ Guarded(t)
    BY TailMatched DEF Matched
  <1>2. /\ r \in Seq(AnyStep) /\ Len(r) = Len(t) + 3 /\ Len(t) \in Nat
        /\ r[1] = St("take", "svc") /\ r[2] = St("take", "log") /\ r[3] = St("spawn", None)
        /\ \A i \in 1..Len(t) : r[i + 3] = t[i]
    BY <1>1, StartsPlaces
  <1>3. \A i \in 1..3 : r[i] \in Under("ses") /\ r[i].do \notin {"lock", "unlock"}
    BY <1>2 DEF Under, St
  <1>4. \A m \in Held : Inside(t, m) <=> Inside(s, m)
    <2>1. \A m : Head(s) # St("lock", m) /\ Head(s) # St("unlock", m)
      BY DEF St
    <2>2. \A m \in Held : Inside(t, m) <=>
            (Head(s) = St("lock", m) \/ (Inside(s, m) /\ Head(s) # St("unlock", m)))
      BY TailMatched
    <2>. QED BY <2>1, <2>2
  <1>5. /\ Inside(s, "ses")
        /\ \A m \in Held : Inside(s, m) => m = "ses"
    <2>1. Head(s).do = "ensure" /\ 1 \in 1..Len(s) /\ Head(s) = s[1] /\ Len(s) \in Nat /\ s \in Seq(AnyStep)
      BY DEF Matched, St
    <2>2. PICK u \in 1..Len(s) : /\ 1 < u /\ s[u] = St("unlock", "ses")
                                 /\ \A i \in 1..Len(s) : 1 < i /\ i < u => s[i] \in Under("ses")
      BY <2>1 DEF Guarded
    <2>3. s[1] \in Under("ses")
      BY <2>1 DEF Under
    <2>4. Inside(s, "ses")
      BY <2>1, <2>2, <2>3 DEF Inside
    <2>5. ASSUME NEW m \in Held, Inside(s, m) PROVE m = "ses"
      <3>1. Head(s) \in Under(m) \union {St("unlock", m)}
        BY <2>1, <2>5, InsideHead
      <3>2. Head(s) \in Under(m)
        BY <3>1 DEF St
      <3>. QED BY <3>2, UnderHeld
    <2>. QED BY <2>4, <2>5
  <1>7. \A i \in 1..Len(r) : i \in 1..3 \/ (i - 3 \in 1..Len(t) /\ r[i] = t[i - 3])
    BY <1>1, StartsPlaces
  <1>. HIDE DEF r, t
  \* The stretch to the unlock of session.mu.
  <1>8. PICK w \in 1..Len(t) : t[w] = St("unlock", "ses") /\ \A i \in 1..(w - 1) : t[i] \in Under("ses")
    BY <1>4, <1>5 DEF Inside, Held
  <1>9. /\ w + 3 \in 1..Len(r) /\ r[w + 3] = St("unlock", "ses")
        /\ \A i \in 1..Len(r) : i < w + 3 => r[i] \in Under("ses")
    <2>1. w + 3 \in 1..Len(r) /\ r[w + 3] = St("unlock", "ses")
      BY <1>2, <1>8
    <2>2. ASSUME NEW i \in 1..Len(r), i < w + 3 PROVE r[i] \in Under("ses")
      <3>1. CASE i \in 1..3
        BY <1>3, <3>1
      <3>2. CASE i - 3 \in 1..Len(t) /\ r[i] = t[i - 3]
        <4>1. i - 3 \in 1..(w - 1)
          BY <1>2, <2>2, <3>2
        <4>. QED BY <1>8, <3>2, <4>1
      <3>. QED BY <1>7, <3>1, <3>2
    <2>. QED BY <2>1, <2>2
  <1>10. Inside(r, "ses")
    <2>1. \A i \in 1..(w + 3 - 1) : i \in 1..Len(r) /\ i < w + 3
      BY <1>2, <1>8
    <2>. QED BY <1>9, <2>1 DEF Inside
  <1>11. ASSUME NEW m \in Held, NEW b \in 0..3, NEW u \in 1..Len(r), b < u, r[u] = St("unlock", m),
                \A i \in 1..Len(r) : b < i /\ i < u => r[i] \in Under(m)
         PROVE  Inside(t, m) /\ m = "ses"
    <2>1. u \notin 1..3
      BY <1>3, <1>11 DEF St
    <2>2. u - 3 \in 1..Len(t) /\ t[u - 3] = St("unlock", m)
      BY <1>7, <1>11, <2>1
    <2>3. ASSUME NEW i \in 1..(u - 3 - 1) PROVE t[i] \in Under(m)
      <3>1. i \in 1..Len(t) /\ i + 3 \in 1..Len(r) /\ b < i + 3 /\ i + 3 < u
        BY <1>2, <2>2
      <3>. QED BY <1>2, <1>11, <3>1
    <2>4. Inside(t, m)
      BY <2>2, <2>3 DEF Inside
    <2>. QED BY <1>4, <1>5, <2>4
  <1>12. ASSUME NEW m \in Held, Inside(r, m) PROVE m = "ses"
    <2>1. PICK u \in 1..Len(r) : r[u] = St("unlock", m) /\ \A i \in 1..(u - 1) : r[i] \in Under(m)
      BY <1>12 DEF Inside
    <2>2. 0 \in 0..3 /\ 0 < u /\ \A i \in 1..Len(r) : 0 < i /\ i < u => r[i] \in Under(m)
      BY <1>2, <2>1
    <2>. QED BY <1>11, <2>1, <2>2
  <1>13. ASSUME NEW m \in Held, NEW k \in 1..Len(r), r[k] = St("lock", m)
         PROVE  \E u \in 1..Len(r) : /\ k < u /\ r[u] = St("unlock", m)
                                     /\ \A i \in 1..Len(r) : k < i /\ i < u => r[i] \in Under(m)
    <2>1. k \notin 1..3
      BY <1>3, <1>13 DEF St
    <2>2. k - 3 \in 1..Len(t) /\ t[k - 3] = St("lock", m)
      BY <1>7, <1>13, <2>1
    <2>3. PICK v \in 1..Len(t) : /\ k - 3 < v /\ t[v] = St("unlock", m)
                                 /\ \A i \in 1..Len(t) : k - 3 < i /\ i < v => t[i] \in Under(m)
      BY <1>1, <2>2 DEF Matched
    <2>4. v + 3 \in 1..Len(r) /\ r[v + 3] = St("unlock", m) /\ k < v + 3
      BY <1>2, <2>3
    <2>5. ASSUME NEW i \in 1..Len(r), k < i, i < v + 3 PROVE r[i] \in Under(m)
      <3>1. i - 3 \in 1..Len(t) /\ r[i] = t[i - 3] /\ k - 3 < i - 3 /\ i - 3 < v
        BY <1>2, <1>7, <2>2, <2>5
      <3>. QED BY <2>3, <3>1
    <2>. QED BY <2>4, <2>5
  <1>14. ASSUME NEW m \in Held, NEW k \in 1..Len(r), NEW u \in 1..Len(r), k < u, r[u] = St("unlock", m),
                \A i \in 1..Len(r) : k < i /\ i < u => r[i] \in Under(m)
         PROVE  r[k] \in Under(m) \union {St("lock", m)}
    <2>1. CASE k \in 1..3
      <3>1. k \in 0..3
        BY <2>1
      <3>2. m = "ses"
        BY <1>11, <1>14, <3>1
      <3>. QED BY <1>3, <2>1, <3>2
    <2>2. CASE k - 3 \in 1..Len(t) /\ r[k] = t[k - 3]
      <3>1. u - 3 \in 1..Len(t) /\ k - 3 < u - 3 /\ t[u - 3] = St("unlock", m)
        BY <1>2, <1>7, <1>14, <2>2
      <3>2. ASSUME NEW i \in 1..Len(t), k - 3 < i, i < u - 3 PROVE t[i] \in Under(m)
        <4>1. i + 3 \in 1..Len(r) /\ k < i + 3 /\ i + 3 < u /\ r[i + 3] = t[i]
          BY <1>2, <3>2
        <4>. QED BY <1>14, <4>1
      <3>3. t[k - 3] \in Under(m) \union {St("lock", m)}
        BY <1>1, <2>2, <3>1, <3>2 DEF Matched
      <3>. QED BY <2>2, <3>3
    <2>. QED BY <1>7, <2>1, <2>2
  <1>15. ASSUME NEW k \in 1..Len(r), r[k].do \in {"ensure", "spawn", "exited"}
         PROVE  \E u \in 1..Len(r) : /\ k < u /\ r[u] = St("unlock", "ses")
                                     /\ \A i \in 1..Len(r) : k < i /\ i < u => r[i] \in Under("ses")
    <2>1. CASE k \in 1..3
      BY <1>8, <1>9, <2>1
    <2>2. CASE k - 3 \in 1..Len(t) /\ r[k] = t[k - 3]
      <3>1. PICK v \in 1..Len(t) : /\ k - 3 < v /\ t[v] = St("unlock", "ses")
                                   /\ \A i \in 1..Len(t) : k - 3 < i /\ i < v => t[i] \in Under("ses")
        BY <1>1, <1>15, <2>2 DEF Guarded
      <3>2. v + 3 \in 1..Len(r) /\ r[v + 3] = St("unlock", "ses") /\ k < v + 3
        BY <1>2, <3>1
      <3>3. ASSUME NEW i \in 1..Len(r), k < i, i < v + 3 PROVE r[i] \in Under("ses")
        <4>1. i - 3 \in 1..Len(t) /\ r[i] = t[i - 3] /\ k - 3 < i - 3 /\ i - 3 < v
          BY <1>2, <1>7, <2>2, <3>3
        <4>. QED BY <3>1, <4>1
      <3>. QED BY <3>2, <3>3
    <2>. QED BY <1>7, <2>1, <2>2
  <1>16. Matched(r) /\ Guarded(r)
    BY <1>2, <1>13, <1>14, <1>15 DEF Matched, Guarded
  <1>17. \A m \in Held : Inside(r, m) <=> Inside(s, m)
    BY <1>5, <1>10, <1>12
  <1>. QED BY <1>16, <1>17 DEF r, t

-----------------------------------------------------------------------------
(* The inductive invariant *)

\* The types of what the locks' invariant speaks of.
LockTypes ==
  /\ todo \in [Goroutine -> Seq(AnyStep)] /\ owner \in [Lock -> Goroutine \union {None}]
  /\ running \in BOOLEAN /\ alive \in BOOLEAN

\* What a goroutine has left goes on as its script does.
TodoInv == \A g \in Goroutine : Matched(todo[g]) /\ Guarded(todo[g])

\* A lock is held by whoever is in a section of it.
HoldInv ==
  /\ \A m \in Held, g \in Goroutine : owner[m] = g <=> Inside(todo[g], m)
  /\ \A m \in Lock \ Held : owner[m] = None

\* Who is about to start an engine is so under session.mu, and none runs.
SpawnInv ==
  \A g \in Goroutine : \A k \in 1..Len(todo[g]) : todo[g][k].do = "spawn" =>
    /\ ~running /\ g # Reader
    /\ \A i \in 1..(k - 1) : todo[g][i] \in {St("take", "svc"), St("take", "log")}

\* Only the reader notes an engine's end.
CallerInv == \A g \in Caller : \A k \in 1..Len(todo[g]) : todo[g][k].do # "exited"

\* The reader takes session.mu only when its engine is gone, and until it has let
\* it go nobody starts another.
ReaderInv ==
  /\ \A k \in 1..Len(todo[Reader]) : todo[Reader][k] \in ExitStep
  /\ Late(todo[Reader])
  /\ (\E k \in 1..Len(todo[Reader]) : todo[Reader][k] \notin EventStep) =>
       ~alive /\ (running \/ owner["ses"] = Reader)

\* All of it together is inductive.
LockInv == LockTypes /\ TodoInv /\ HoldInv /\ SpawnInv /\ CallerInv /\ ReaderInv

\* The names differ: nobody is None, and no caller is the reader.
LEMMA Names ==
  /\ Reader \in Goroutine /\ None \notin Goroutine /\ Engine \notin Goroutine /\ Reader \notin Caller
  /\ Held \subseteq Lock
  BY CallerAssumption DEF Goroutine, Reader, Engine, None, Held, Lock

\* The invariant holds at first.
LEMMA LockInit == LocksInit => LockInv
  <1>. SUFFICES ASSUME LocksInit PROVE LockInv
    OBVIOUS
  <1>1. \A g \in Goroutine : todo[g] = <<>>
    BY DEF LocksInit
  <1>2. LockTypes
    <2>1. <<>> \in Seq(AnyStep)
      OBVIOUS
    <2>. QED BY <2>1 DEF LocksInit, LockTypes
  <1>3. Matched(<<>>) /\ Guarded(<<>>) /\ Late(<<>>) /\ \A m : ~Inside(<<>>, m)
    BY DEF Matched, Guarded, Late, Inside
  <1>4. TodoInv
    BY <1>1, <1>3 DEF TodoInv
  <1>5. HoldInv
    BY <1>1, <1>3, Names DEF HoldInv, LocksInit
  <1>6. SpawnInv /\ CallerInv
    BY <1>1, Names DEF SpawnInv, CallerInv, Goroutine
  <1>7. ReaderInv
    BY <1>1, <1>3, Names DEF ReaderInv
  <1>. QED BY <1>2, <1>4, <1>5, <1>6, <1>7 DEF LockInv

\* A step of a goroutine's script: the first of those left, and then the rest are
\* left, or a start and the rest.
LEMMA DoSteps ==
  ASSUME LockTypes, NEW g \in Goroutine, Do(g)
  PROVE  /\ todo[g] # <<>> /\ todo[g] \in Seq(AnyStep) /\ Len(todo[g]) \in Nat \ {0}
         /\ Head(todo[g]) = todo[g][1]
         /\ Head(todo[g]) \in AnyStep
         /\ \/ todo' = [todo EXCEPT ![g] = Tail(todo[g])]
            \/ /\ todo' = [todo EXCEPT ![g] = Starts \o Tail(todo[g])]
               /\ Ensure(g) /\ ~running /\ Head(todo[g]) = St("ensure", None)
  <1>1. todo[g] # <<>> /\ todo[g] \in Seq(AnyStep)
    BY DEF LockTypes, Do, Acquire, TakesAndLeaves, Release, Ensure, Spawn, Write1, Await, Exited,
       Doing
  <1>2. Len(todo[g]) \in Nat \ {0} /\ Head(todo[g]) = todo[g][1] /\ Head(todo[g]) \in AnyStep
    BY <1>1
  <1>3. \A x \in AnyStep : x.do = "ensure" => x = St("ensure", None)
    BY DEF AnyStep, St
  <1>4. CASE Ensure(g)
    <2>1. Head(todo[g]) = St("ensure", None)
      BY <1>2, <1>3, <1>4 DEF Ensure, Doing
    <2>. QED BY <1>1, <1>2, <1>4, <2>1 DEF Ensure
  <1>5. CASE ~Ensure(g)
    <2>1. todo' = [todo EXCEPT ![g] = Tail(todo[g])]
      BY <1>5 DEF Do, Then, Acquire, TakesAndLeaves, Release, Spawn, Write1, Await, Exited
    <2>. QED BY <1>1, <1>2, <2>1
  <1>. QED BY <1>4, <1>5

\* The steps that take no lock of another's script and leave owner as it is.
LEMMA OwnerKept ==
  ASSUME NEW g \in Goroutine, Do(g), ~Acquire(g), ~Release(g)
  PROVE  owner' = owner /\ Head(todo[g]).do \notin {"lock", "unlock"}
  BY DEF Do, TakesAndLeaves, Ensure, Spawn, Write1, Await, Exited, Doing, engineVars

\* A step leaves scripts that go on as scripts do.
LEMMA TodoKept ==
  ASSUME LockInv, [LocksNext]_lockVars
  PROVE  TodoInv' /\ LockTypes'
  <1>. USE DEF LockInv
  <1>1. CASE \E t \in Caller : Begin(t)
    <2>1. PICK t \in Caller, op \in Ops : todo' = [todo EXCEPT ![t] = Script(op)] /\ Begin(t)
      BY <1>1 DEF Begin
    <2>2. Whole(Script(op)) /\ op \in AllOps
      BY LocksAssumption, ScriptWhole
    <2>3. Matched(Script(op)) /\ Guarded(Script(op)) /\ Script(op) \in Seq(AnyStep)
      BY <2>2 DEF Whole, Sections, Matched
    <2>4. t \in Goroutine
      BY DEF Goroutine
    <2>5. todo'[t] = Script(op) /\ \A g \in Goroutine : g # t => todo'[g] = todo[g]
      BY <2>1, <2>4 DEF LockTypes
    <2>6. TodoInv'
      BY <2>3, <2>5 DEF TodoInv
    <2>. QED BY <2>1, <2>3, <2>6 DEF LockTypes, Begin, engineVars
  <1>2. ASSUME NEW g \in Goroutine, Do(g) PROVE TodoInv' /\ LockTypes'
    <2>1. todo[g] # <<>> /\ Matched(todo[g]) /\ Guarded(todo[g]) /\ Head(todo[g]) \in AnyStep
      BY <1>2, DoSteps DEF TodoInv
    <2>2. Matched(Tail(todo[g])) /\ Guarded(Tail(todo[g]))
      BY <2>1, TailMatched
    <2>3. ASSUME todo' = [todo EXCEPT ![g] = Tail(todo[g])]
          PROVE  TodoInv' /\ todo' \in [Goroutine -> Seq(AnyStep)]
      <3>1. todo'[g] = Tail(todo[g]) /\ \A h \in Goroutine : h # g => todo'[h] = todo[h]
        BY <2>3 DEF LockTypes
      <3>2. TodoInv'
        BY <2>2, <3>1 DEF TodoInv
      <3>. QED BY <2>2, <2>3, <3>2 DEF Matched, LockTypes
    <2>4. ASSUME todo' = [todo EXCEPT ![g] = Starts \o Tail(todo[g])], Head(todo[g]) = St("ensure", None)
          PROVE  TodoInv' /\ todo' \in [Goroutine -> Seq(AnyStep)]
      <3>1. todo'[g] = Starts \o Tail(todo[g]) /\ \A h \in Goroutine : h # g => todo'[h] = todo[h]
        BY <2>4 DEF LockTypes
      <3>2. Matched(todo'[g]) /\ Guarded(todo'[g])
        BY <2>1, <2>4, <3>1, StartsMatched
      <3>3. TodoInv'
        BY <3>1, <3>2 DEF TodoInv
      <3>. QED BY <2>4, <3>1, <3>2, <3>3 DEF Matched, LockTypes
    <2>5. TodoInv' /\ todo' \in [Goroutine -> Seq(AnyStep)]
      BY <1>2, <2>3, <2>4, DoSteps DEF LockTypes
    <2>6. owner' \in [Lock -> Goroutine \union {None}]
      <3>1. CASE Acquire(g)
        BY <3>1 DEF Acquire, LockTypes
      <3>2. CASE Release(g)
        BY <3>2 DEF Release, LockTypes
      <3>. QED BY <1>2, <3>1, <3>2, OwnerKept DEF LockTypes
    <2>7. running' \in BOOLEAN /\ alive' \in BOOLEAN
      BY <1>2 DEF LockTypes, Do, Acquire, TakesAndLeaves, Release, Ensure, Spawn, Write1, Await,
         Exited, engineVars
    <2>. QED BY <2>5, <2>6, <2>7 DEF LockTypes
  <1>3. ASSUME NEW s, Whole(s), todo' = [todo EXCEPT ![Reader] = s], UNCHANGED <<owner, running, alive>>
        PROVE  TodoInv' /\ LockTypes'
    <2>1. Matched(s) /\ Guarded(s) /\ s \in Seq(AnyStep)
      BY <1>3 DEF Whole, Sections, Matched
    <2>2. todo'[Reader] = s /\ \A g \in Goroutine : g # Reader => todo'[g] = todo[g]
      BY <1>3, Names DEF LockTypes
    <2>3. TodoInv'
      BY <2>1, <2>2 DEF TodoInv
    <2>. QED BY <1>3, <2>1, <2>3 DEF LockTypes
  <1>4. CASE ReaderReads
    BY <1>3, <1>4, ReaderWhole DEF ReaderReads
  <1>5. CASE ReaderEnds
    BY <1>3, <1>5, ReaderWhole DEF ReaderEnds, engineVars
  <1>6. CASE EngineReads \/ EngineWrites \/ EngineHangs \/ UNCHANGED lockVars
    BY <1>6 DEF EngineReads, EngineWrites, EngineHangs, lockVars, LockTypes, TodoInv
  <1>. QED BY <1>1, <1>2, <1>4, <1>5, <1>6 DEF LocksNext

\* A step takes a lock where a section of it begins, and lets it go where it ends.
LEMMA HoldKept ==
  ASSUME LockInv, [LocksNext]_lockVars
  PROVE  HoldInv'
  <1>. USE DEF LockInv
  <1>1. ASSUME NEW s, Whole(s), NEW t \in Goroutine, todo[t] = <<>>, todo' = [todo EXCEPT ![t] = s],
               owner' = owner
        PROVE  HoldInv'
    <2>1. todo'[t] = s /\ \A g \in Goroutine : g # t => todo'[g] = todo[g]
      BY <1>1 DEF LockTypes
    <2>2. \A m \in Held : ~Inside(s, m) /\ ~Inside(todo[t], m)
      BY <1>1 DEF Whole, Sections, Closed, Inside
    <2>. QED BY <1>1, <2>1, <2>2 DEF HoldInv
  <1>2. ASSUME NEW g \in Goroutine, Do(g) PROVE HoldInv'
    <2>1. todo[g] # <<>> /\ Matched(todo[g]) /\ Guarded(todo[g]) /\ Head(todo[g]) \in AnyStep
      BY <1>2, DoSteps DEF TodoInv
    <2>2. CASE Acquire(g)
      <3>. DEFINE m == On(g)
      <3>1. Head(todo[g]) = St("lock", m) /\ m \in Held
        BY <2>1, <2>2 DEF Acquire, Doing, On, AnyStep, St
      <3>2. owner[m] = None /\ owner'[m] = g /\ \A x \in Lock : x # m => owner'[x] = owner[x]
        BY <2>2, <3>1, Names DEF Acquire, LockTypes
      <3>3. todo'[g] = Tail(todo[g]) /\ \A h \in Goroutine : h # g => todo'[h] = todo[h]
        BY <2>2 DEF Acquire, Then, LockTypes
      <3>4. \A x \in Held : Inside(todo'[g], x) <=> (x = m \/ Inside(todo[g], x))
        <4>1. \A x \in Held : (Head(todo[g]) = St("lock", x) <=> x = m) /\ Head(todo[g]) # St("unlock", x)
          BY <3>1 DEF St
        <4>2. \A x \in Held : Inside(Tail(todo[g]), x) <=>
                (Head(todo[g]) = St("lock", x) \/ (Inside(todo[g], x) /\ Head(todo[g]) # St("unlock", x)))
          BY <2>1, TailMatched
        <4>. HIDE DEF m
        <4>. QED BY <3>3, <4>1, <4>2
      <3>. HIDE DEF m
      <3>5. ASSUME NEW x \in Held, NEW h \in Goroutine PROVE owner'[x] = h <=> Inside(todo'[h], x)
        <4>1. CASE x = m
          <5>1. h # g => ~Inside(todo[h], m)
            BY <3>1, <3>2, Names DEF HoldInv
          <5>. QED BY <3>2, <3>3, <3>4, <4>1, <5>1
        <4>2. CASE x # m
          BY <3>2, <3>3, <3>4, <4>2, Names DEF HoldInv
        <4>. QED BY <4>1, <4>2
      <3>6. \A x \in Lock \ Held : owner'[x] = None
        BY <3>1, <3>2 DEF HoldInv
      <3>. QED BY <3>5, <3>6 DEF HoldInv
    <2>3. CASE Release(g)
      <3>. DEFINE m == On(g)
      <3>1. Head(todo[g]) = St("unlock", m) /\ m \in Held
        BY <2>1, <2>3 DEF Release, Doing, On, AnyStep, St
      <3>2. owner'[m] = None /\ \A x \in Lock : x # m => owner'[x] = owner[x]
        BY <2>3, <3>1, Names DEF Release, LockTypes
      <3>3. todo'[g] = Tail(todo[g]) /\ \A h \in Goroutine : h # g => todo'[h] = todo[h]
        BY <2>3 DEF Release, Then, LockTypes
      <3>4. \A x \in Held : Inside(todo'[g], x) <=> (x # m /\ Inside(todo[g], x))
        <4>1. \A x \in Held : (Head(todo[g]) = St("unlock", x) <=> x = m) /\ Head(todo[g]) # St("lock", x)
          BY <3>1 DEF St
        <4>2. \A x \in Held : Inside(Tail(todo[g]), x) <=>
                (Head(todo[g]) = St("lock", x) \/ (Inside(todo[g], x) /\ Head(todo[g]) # St("unlock", x)))
          BY <2>1, TailMatched
        <4>. HIDE DEF m
        <4>. QED BY <3>3, <4>1, <4>2
      <3>5. owner[m] = g
        <4>1. 1 \in 1..Len(todo[g]) /\ todo[g][1] = St("unlock", m)
          BY <1>2, <3>1, DoSteps
        <4>2. Inside(todo[g], m)
          BY <4>1 DEF Inside
        <4>. HIDE DEF m
        <4>. QED BY <3>1, <4>2 DEF HoldInv
      <3>. HIDE DEF m
      <3>6. ASSUME NEW x \in Held, NEW h \in Goroutine PROVE owner'[x] = h <=> Inside(todo'[h], x)
        <4>1. CASE x = m
          <5>1. h # g => ~Inside(todo[h], m)
            BY <3>1, <3>5 DEF HoldInv
          <5>. QED BY <3>2, <3>3, <3>4, <4>1, <5>1, Names
        <4>2. CASE x # m
          BY <3>2, <3>3, <3>4, <4>2, Names DEF HoldInv
        <4>. QED BY <4>1, <4>2
      <3>7. \A x \in Lock \ Held : owner'[x] = None
        BY <3>1, <3>2 DEF HoldInv
      <3>. QED BY <3>6, <3>7 DEF HoldInv
    <2>4. CASE ~Acquire(g) /\ ~Release(g)
      <3>1. owner' = owner /\ Head(todo[g]).do \notin {"lock", "unlock"}
        BY <1>2, <2>4, OwnerKept
      <3>2. \A x \in Held : Head(todo[g]) # St("lock", x) /\ Head(todo[g]) # St("unlock", x)
        BY <3>1 DEF St
      <3>3. /\ \A h \in Goroutine : h # g => todo'[h] = todo[h]
            /\ todo'[g] = Tail(todo[g])
                 \/ (todo'[g] = Starts \o Tail(todo[g]) /\ Head(todo[g]) = St("ensure", None))
        BY <1>2, DoSteps DEF LockTypes
      <3>4. \A x \in Held : Inside(Tail(todo[g]), x) <=> Inside(todo[g], x)
        <4>2. \A x \in Held : Inside(Tail(todo[g]), x) <=>
                (Head(todo[g]) = St("lock", x) \/ (Inside(todo[g], x) /\ Head(todo[g]) # St("unlock", x)))
          BY <2>1, TailMatched
        <4>. QED BY <3>2, <4>2
      <3>5. \A x \in Held : Inside(todo'[g], x) <=> Inside(todo[g], x)
        <4>1. CASE todo'[g] = Tail(todo[g])
          BY <3>4, <4>1
        <4>2. CASE todo'[g] = Starts \o Tail(todo[g]) /\ Head(todo[g]) = St("ensure", None)
          <5>1. \A x \in Held : Inside(Starts \o Tail(todo[g]), x) <=> Inside(todo[g], x)
            BY <2>1, <4>2, StartsMatched
          <5>. QED BY <4>2, <5>1
        <4>. QED BY <3>3, <4>1, <4>2
      <3>. QED BY <3>1, <3>3, <3>5 DEF HoldInv
    <2>. QED BY <2>2, <2>3, <2>4
  <1>3. CASE \E t \in Caller : Begin(t)
    <2>1. PICK t \in Caller, op \in Ops : todo' = [todo EXCEPT ![t] = Script(op)] /\ Begin(t)
      BY <1>3 DEF Begin
    <2>2. Whole(Script(op)) /\ t \in Goroutine
      BY LocksAssumption, ScriptWhole DEF Goroutine
    <2>. QED BY <1>1, <2>1, <2>2 DEF Begin
  <1>4. CASE ReaderReads
    BY <1>1, <1>4, ReaderWhole, Names DEF ReaderReads
  <1>5. CASE ReaderEnds
    BY <1>1, <1>5, ReaderWhole, Names DEF ReaderEnds, engineVars
  <1>6. CASE EngineReads \/ EngineWrites \/ EngineHangs \/ UNCHANGED lockVars
    BY <1>6 DEF EngineReads, EngineWrites, EngineHangs, lockVars, HoldInv
  <1>. QED BY <1>2, <1>3, <1>4, <1>5, <1>6 DEF LocksNext

\* Who is about to start an engine, or to look whether one is to be started, or
\* notes its end, holds session.mu.
LEMMA UnderSession ==
  ASSUME LockInv, NEW g \in Goroutine
  PROVE  /\ \A k \in 1..Len(todo[g]) : todo[g][k].do = "spawn" => owner["ses"] = g
         /\ todo[g] # <<>> /\ Head(todo[g]).do \in {"ensure", "spawn", "exited"} => owner["ses"] = g
  <1>. USE DEF LockInv
  <1>0. todo[g] \in Seq(AnyStep) /\ Guarded(todo[g]) /\ Len(todo[g]) \in Nat
    BY DEF LockTypes, TodoInv
  <1>1. ASSUME NEW k \in 1..Len(todo[g]), todo[g][k].do \in {"ensure", "spawn", "exited"},
               \A i \in 1..(k - 1) : todo[g][i] \in Under("ses")
        PROVE  owner["ses"] = g
    <2>1. PICK u \in 1..Len(todo[g]) :
            /\ k < u /\ todo[g][u] = St("unlock", "ses")
            /\ \A i \in 1..Len(todo[g]) : k < i /\ i < u => todo[g][i] \in Under("ses")
      BY <1>0, <1>1 DEF Guarded
    <2>2. todo[g][k] \in Under("ses")
      <3>1. todo[g][k] \in AnyStep
        BY <1>0
      <3>2. \A x \in AnyStep : x.do \in {"ensure", "spawn", "exited"} => x \in Under("ses")
        BY DEF AnyStep, Under, St
      <3>. QED BY <1>1, <3>1, <3>2
    <2>3. \A i \in 1..(u - 1) : todo[g][i] \in Under("ses")
      BY <1>0, <1>1, <2>1, <2>2
    <2>4. Inside(todo[g], "ses")
      BY <2>1, <2>3 DEF Inside
    <2>. QED BY <2>4 DEF HoldInv, Held
  <1>2. {St("take", "svc"), St("take", "log")} \subseteq Under("ses")
    BY DEF Under
  <1>3. ASSUME NEW k \in 1..Len(todo[g]), todo[g][k].do = "spawn" PROVE owner["ses"] = g
    BY <1>1, <1>2, <1>3 DEF SpawnInv
  <1>4. ASSUME todo[g] # <<>>, Head(todo[g]).do \in {"ensure", "spawn", "exited"} PROVE owner["ses"] = g
    BY <1>0, <1>1, <1>4
  <1>. QED BY <1>3, <1>4

\* A step moves what is left of a script one place.
LEMMA TailPlaces ==
  ASSUME NEW s \in Seq(AnyStep), s # <<>>
  PROVE  /\ Len(Tail(s)) = Len(s) - 1 /\ Len(s) \in Nat \ {0}
         /\ \A k \in 1..Len(Tail(s)) : k + 1 \in 1..Len(s) /\ Tail(s)[k] = s[k + 1]
  OBVIOUS

\* No engine begins, or is about to begin, beside another.
LEMMA SpawnKept ==
  ASSUME LockInv, [LocksNext]_lockVars
  PROVE  SpawnInv'
  <1>. USE DEF LockInv
  <1>1. ASSUME NEW s, NEW t \in Goroutine, todo' = [todo EXCEPT ![t] = s], running' = running,
               \A k \in 1..Len(s) : s[k].do # "spawn"
        PROVE  SpawnInv'
    <2>1. todo'[t] = s /\ \A g \in Goroutine : g # t => todo'[g] = todo[g]
      BY <1>1 DEF LockTypes
    <2>. QED BY <1>1, <2>1 DEF SpawnInv
  <1>2. ASSUME NEW g \in Goroutine, Do(g) PROVE SpawnInv'
    <2>. DEFINE s == todo[g]
    <2>1. s \in Seq(AnyStep) /\ s # <<>> /\ Len(s) \in Nat \ {0} /\ Head(s) = s[1]
      BY <1>2, DoSteps
    <2>2. ASSUME NEW k \in 1..Len(Tail(s)), Tail(s)[k].do = "spawn"
          PROVE  /\ ~running /\ g # Reader /\ Head(s).do = "take"
                 /\ \A i \in 1..(k - 1) : Tail(s)[i] \in {St("take", "svc"), St("take", "log")}
      <3>1. /\ Len(Tail(s)) = Len(s) - 1
            /\ \A i \in 1..Len(Tail(s)) : i + 1 \in 1..Len(s) /\ Tail(s)[i] = s[i + 1]
        BY <2>1, TailPlaces
      <3>2. k + 1 \in 1..Len(s) /\ s[k + 1].do = "spawn"
        BY <2>2, <3>1
      <3>. HIDE DEF s
      <3>3. /\ ~running /\ g # Reader
            /\ \A i \in 1..(k + 1 - 1) : s[i] \in {St("take", "svc"), St("take", "log")}
        BY <3>2 DEF SpawnInv, s
      <3>4. s[1] \in {St("take", "svc"), St("take", "log")}
        BY <3>1, <3>3
      <3>5. \A i \in 1..(k - 1) : i \in 1..Len(Tail(s)) /\ i + 1 \in 1..(k + 1 - 1)
        BY <2>1, <3>1
      <3>6. \A i \in 1..(k - 1) : Tail(s)[i] \in {St("take", "svc"), St("take", "log")}
        BY <3>1, <3>3, <3>5
      <3>. QED BY <2>1, <3>3, <3>4, <3>6 DEF St
    <2>. HIDE DEF s
    <2>3. \A h \in Goroutine : h # g => todo'[h] = todo[h]
      BY <1>2, DoSteps DEF LockTypes
    <2>4. CASE Spawn(g)
      <3>1. todo'[g] = Tail(s)
        BY <2>4 DEF Spawn, Then, LockTypes, s
      <3>2. Head(s).do = "spawn" /\ owner["ses"] = g
        BY <2>1, <2>4, UnderSession DEF Spawn, Doing, s
      <3>3. \A k \in 1..Len(todo'[g]) : todo'[g][k].do # "spawn"
        BY <2>2, <3>1, <3>2
      <3>4. ASSUME NEW h \in Goroutine, h # g, NEW k \in 1..Len(todo'[h]) PROVE todo'[h][k].do # "spawn"
        BY <2>3, <3>2, <3>4, UnderSession
      <3>. QED BY <3>3, <3>4 DEF SpawnInv
    <2>5. CASE ~Spawn(g)
      <3>1. ~running => ~running'
        BY <1>2, <2>5 DEF Do, Acquire, TakesAndLeaves, Release, Ensure, Write1, Await, Exited,
           engineVars
      <3>2. CASE todo' = [todo EXCEPT ![g] = Tail(s)]
        <4>1. todo'[g] = Tail(s)
          BY <3>2 DEF LockTypes
        <4>. QED BY <2>2, <2>3, <3>1, <4>1 DEF SpawnInv
      <3>3. CASE /\ todo' = [todo EXCEPT ![g] = Starts \o Tail(s)]
                 /\ Ensure(g) /\ ~running /\ Head(s) = St("ensure", None)
        <4>1. todo'[g] = Starts \o Tail(s) /\ ~running'
          BY <3>1, <3>3 DEF LockTypes
        <4>2. \A k \in 1..Len(Tail(s)) : Tail(s)[k].do # "spawn"
          <5>1. Head(s).do = "ensure"
            BY <3>3 DEF St
          <5>. QED BY <2>2, <3>3, <5>1
        <4>. DEFINE r == Starts \o Tail(s)
        <4>6. /\ r[1] = St("take", "svc") /\ r[2] = St("take", "log") /\ r[3] = St("spawn", None)
              /\ \A k \in 1..Len(r) : k \in 1..3 \/ r[k].do # "spawn"
          <5>1. Tail(s) \in Seq(AnyStep)
            BY <2>1
          <5>2. /\ r[1] = St("take", "svc") /\ r[2] = St("take", "log") /\ r[3] = St("spawn", None)
                /\ \A k \in 1..Len(r) : k \in 1..3 \/ (k - 3 \in 1..Len(Tail(s)) /\ r[k] = Tail(s)[k - 3])
            BY <5>1, StartsPlaces
          <5>. HIDE DEF r
          <5>. QED BY <4>2, <5>2
        <4>7. g # Reader
          <5>1. St("ensure", None) \notin ExitStep
            BY DEF ExitStep, EventStep, St
          <5>2. g = Reader => s[1] \in ExitStep
            BY <2>1 DEF ReaderInv, s
          <5>. QED BY <2>1, <3>3, <5>1, <5>2
        <4>. HIDE DEF r
        <4>8. ASSUME NEW k \in 1..Len(r), r[k].do = "spawn"
              PROVE  \A i \in 1..(k - 1) : r[i] \in {St("take", "svc"), St("take", "log")}
          <5>1. k = 3
            BY <4>6, <4>8 DEF St
          <5>. QED BY <4>6, <5>1
        <4>9. todo'[g] = r
          BY <4>1 DEF r
        <4>. QED BY <2>3, <3>3, <4>1, <4>7, <4>8, <4>9 DEF SpawnInv
      <3>. QED BY <1>2, <3>2, <3>3, DoSteps DEF s
    <2>. QED BY <2>4, <2>5
  <1>3. CASE \E t \in Caller : Begin(t)
    <2>1. PICK t \in Caller, op \in Ops : todo' = [todo EXCEPT ![t] = Script(op)] /\ Begin(t)
      BY <1>3 DEF Begin
    <2>2. Script(op) \in Seq(CallerStep) /\ t \in Goroutine
      BY LocksAssumption, ScriptSteps DEF Goroutine
    <2>3. \A k \in 1..Len(Script(op)) : Script(op)[k].do # "spawn"
      BY <2>2 DEF CallerStep
    <2>. QED BY <1>1, <2>1, <2>2, <2>3 DEF Begin, engineVars
  <1>4. CASE ReaderReads
    <2>1. \A k \in 1..Len(OnEvent) : OnEvent[k].do # "spawn"
      BY ReaderWhole DEF EventStep, St
    <2>. QED BY <1>1, <1>4, <2>1, Names DEF ReaderReads
  <1>5. CASE ReaderEnds
    <2>1. \A k \in 1..Len(OnExit) : OnExit[k].do # "spawn"
      BY ReaderWhole DEF ExitStep, EventStep, St
    <2>. QED BY <1>1, <1>5, <2>1, Names DEF ReaderEnds, engineVars
  <1>6. CASE EngineReads \/ EngineWrites \/ EngineHangs \/ UNCHANGED lockVars
    BY <1>6 DEF EngineReads, EngineWrites, EngineHangs, lockVars, SpawnInv
  <1>. QED BY <1>2, <1>3, <1>4, <1>5, <1>6 DEF LocksNext

\* The reader goes on as it may, and no engine is started while it notes an end.
LEMMA ReaderKept ==
  ASSUME LockInv, [LocksNext]_lockVars
  PROVE  CallerInv' /\ ReaderInv'
  <1>. USE DEF LockInv
  <1>1. ASSUME NEW g \in Goroutine, Do(g) PROVE CallerInv' /\ ReaderInv'
    <2>. DEFINE s == todo[g]
    <2>1. s \in Seq(AnyStep) /\ s # <<>> /\ Len(s) \in Nat \ {0} /\ Head(s) = s[1] /\ 1 \in 1..Len(s)
      BY <1>1, DoSteps
    <2>2. /\ Len(Tail(s)) = Len(s) - 1
          /\ \A k \in 1..Len(Tail(s)) : k + 1 \in 1..Len(s) /\ Tail(s)[k] = s[k + 1]
      BY <2>1, TailPlaces
    <2>. HIDE DEF s
    <2>3. \A h \in Goroutine : h # g => todo'[h] = todo[h]
      BY <1>1, DoSteps DEF LockTypes
    <2>4. \/ todo'[g] = Tail(s)
          \/ /\ todo'[g] = Starts \o Tail(s)
             /\ Head(s) = St("ensure", None) /\ Ensure(g)
      BY <1>1, DoSteps DEF LockTypes, s
    <2>5. CallerInv'
      <3>1. CASE g \notin Caller
        BY <2>3, <3>1 DEF CallerInv, Goroutine
      <3>2. CASE g \in Caller
        <4>1. \A k \in 1..Len(Tail(s)) : Tail(s)[k].do # "exited"
          BY <2>2, <3>2 DEF CallerInv, s
        <4>2. CASE todo'[g] = Tail(s)
          BY <2>3, <4>1, <4>2 DEF CallerInv, Goroutine
        <4>3. CASE todo'[g] = Starts \o Tail(s) /\ Head(s) = St("ensure", None)
          <5>1. Tail(s) \in Seq(AnyStep)
            BY <2>1
          <5>. DEFINE r == Starts \o Tail(s)
          <5>2. /\ r[1] = St("take", "svc") /\ r[2] = St("take", "log") /\ r[3] = St("spawn", None)
                /\ \A k \in 1..Len(r) : k \in 1..3 \/ (k - 3 \in 1..Len(Tail(s)) /\ r[k] = Tail(s)[k - 3])
            BY <5>1, StartsPlaces
          <5>3. todo'[g] = r
            BY <4>3
          <5>. HIDE DEF r
          <5>4. r[1].do # "exited" /\ r[2].do # "exited" /\ r[3].do # "exited"
            BY <5>2 DEF St
          <5>5. \A k \in 1..Len(r) : k \in 1..3 => r[k].do # "exited"
            BY <5>4
          <5>7. \A k \in 1..Len(todo'[g]) : todo'[g][k].do # "exited"
            BY <4>1, <5>2, <5>3, <5>5
          <5>. QED BY <2>3, <5>7 DEF CallerInv, Goroutine
        <4>. QED BY <2>4, <4>2, <4>3
      <3>. QED BY <3>1, <3>2
    <2>6. CASE g = Reader
      <3>1. \A k \in 1..Len(s) : s[k] \in ExitStep
        BY <2>6 DEF ReaderInv, s
      <3>2. Head(s) \in ExitStep
        BY <2>1, <3>1
      <3>3. Head(s).do \notin {"ensure", "spawn", "await"}
        BY <3>2 DEF ExitStep, EventStep, St
      <3>4. todo'[Reader] = Tail(s)
        BY <2>4, <2>6, <3>3 DEF St
      <3>5. alive' = alive /\ (~Exited(g) => running' = running)
        BY <1>1, <3>3 DEF Do, Acquire, TakesAndLeaves, Release, Ensure, Spawn, Write1, Await,
           Exited, Doing,
           engineVars, s
      <3>6. \A k \in 1..Len(Tail(s)) : Tail(s)[k] \in ExitStep
        BY <2>2, <3>1
      <3>7. Late(Tail(s))
        <4>1. Late(s)
          BY <2>6 DEF ReaderInv, s
        <4>. QED BY <2>1, <2>2, <4>1 DEF Late
      <3>8. ASSUME NEW k \in 1..Len(Tail(s)), Tail(s)[k] \notin EventStep
            PROVE  ~alive' /\ (running' \/ owner'["ses"] = Reader)
        <4>1. k + 1 \in 1..Len(s) /\ s[k + 1] \notin EventStep
          BY <2>2, <3>8
        <4>2. ~alive /\ (running \/ owner["ses"] = Reader)
          BY <2>6, <4>1 DEF ReaderInv, s
        <4>3. Head(s) # St("unlock", "ses")
          <5>1. Late(s) /\ 1 < k + 1
            BY <2>1, <2>2, <2>6 DEF ReaderInv, s
          <5>. QED BY <2>1, <4>1, <5>1 DEF Late
        <4>4. owner["ses"] = Reader => owner'["ses"] = Reader
          <5>1. CASE Acquire(g)
            BY <2>6, <5>1 DEF Acquire, LockTypes
          <5>2. CASE Release(g)
            <6>1. On(g) # "ses"
              <7>1. Head(s).do = "unlock" /\ On(g) = Head(s).on
                BY <5>2 DEF Release, Doing, On, s
              <7>2. Head(s) \in AnyStep
                BY <2>1
              <7>. QED BY <4>3, <7>1, <7>2 DEF AnyStep, St
            <6>. QED BY <5>2, <6>1, Names DEF Release, LockTypes, Held
          <5>. QED BY <1>1, <5>1, <5>2, OwnerKept
        <4>5. CASE Exited(g)
          <5>1. owner["ses"] = Reader
            BY <2>1, <2>6, <4>5, UnderSession DEF Exited, Doing, s
          <5>. QED BY <3>5, <4>2, <4>4, <5>1
        <4>. QED BY <3>5, <4>2, <4>4, <4>5
      <3>. QED BY <2>5, <3>4, <3>6, <3>7, <3>8 DEF ReaderInv
    <2>7. CASE g # Reader
      <3>1. todo'[Reader] = todo[Reader]
        BY <2>3, <2>7, Names
      <3>2. ASSUME NEW k \in 1..Len(todo[Reader]), todo[Reader][k] \notin EventStep
            PROVE  ~alive' /\ (running' \/ owner'["ses"] = Reader)
        <4>1. ~alive /\ (running \/ owner["ses"] = Reader)
          BY <3>2 DEF ReaderInv
        <4>2. ~Spawn(g)
          <5>. SUFFICES ASSUME Spawn(g) PROVE FALSE
            OBVIOUS
          <5>1. s[1].do = "spawn"
            BY <2>1 DEF Spawn, Doing, s
          <5>2. owner["ses"] = g /\ ~running
            BY <2>1, <5>1, UnderSession DEF SpawnInv, s
          <5>. QED BY <2>7, <4>1, <5>2
        <4>3. ~Exited(g)
          BY <2>1, <2>7 DEF CallerInv, Exited, Doing, Goroutine, s
        <4>4. ~alive' /\ running' = running
          <5>1. CASE Await(g)
            <6>1. alive = FALSE
              BY <4>1 DEF LockTypes
            <6>2. alive' = FALSE /\ running' = running
              BY <5>1, <6>1 DEF Await
            <6>. QED BY <6>2
          <5>2. CASE ~Await(g)
            <6>1. UNCHANGED <<alive, running>>
              BY <1>1, <4>2, <4>3, <5>2 DEF Do, Acquire, TakesAndLeaves, Release, Ensure, Write1,
                 engineVars
            <6>. QED BY <4>1, <6>1
          <5>. QED BY <5>1, <5>2
        <4>5. owner["ses"] = Reader => owner'["ses"] = Reader
          <5>1. CASE Acquire(g)
            BY <5>1, Names DEF Acquire, LockTypes
          <5>2. CASE Release(g)
            <6>1. On(g) = "ses" => owner["ses"] = g
              <7>1. On(g) = "ses" => s[1] = St("unlock", "ses")
                <8>1. Head(s).do = "unlock" /\ On(g) = Head(s).on /\ Head(s) \in AnyStep
                  BY <2>1, <5>2 DEF Release, Doing, On, s
                <8>. QED BY <2>1, <8>1 DEF AnyStep, St
              <7>2. s[1] = St("unlock", "ses") => Inside(s, "ses")
                BY <2>1 DEF Inside
              <7>. QED BY <7>1, <7>2 DEF HoldInv, Held, s
            <6>. QED BY <2>7, <5>2, <6>1, Names DEF Release, LockTypes, Held
          <5>. QED BY <1>1, <5>1, <5>2, OwnerKept
        <4>. QED BY <4>1, <4>4, <4>5
      <3>. QED BY <2>5, <3>1, <3>2 DEF ReaderInv
    <2>. QED BY <2>6, <2>7
  <1>2. CASE \E t \in Caller : Begin(t)
    <2>1. PICK t \in Caller, op \in Ops : todo' = [todo EXCEPT ![t] = Script(op)] /\ Begin(t)
      BY <1>2 DEF Begin
    <2>2. Script(op) \in Seq(CallerStep) /\ t \in Goroutine /\ t # Reader
      BY LocksAssumption, ScriptSteps, Names DEF Goroutine
    <2>3. \A k \in 1..Len(Script(op)) : Script(op)[k].do # "exited"
      BY <2>2 DEF CallerStep
    <2>4. todo'[t] = Script(op) /\ \A g \in Goroutine : g # t => todo'[g] = todo[g]
      BY <2>1, <2>2 DEF LockTypes
    <2>5. CallerInv'
      BY <2>3, <2>4 DEF CallerInv, Goroutine
    <2>6. todo'[Reader] = todo[Reader] /\ UNCHANGED <<owner, running, alive>>
      BY <2>1, <2>2, <2>4, Names DEF Begin, engineVars
    <2>. QED BY <2>5, <2>6 DEF ReaderInv
  <1>3. ASSUME NEW s, todo' = [todo EXCEPT ![Reader] = s]
        PROVE  CallerInv' /\ todo'[Reader] = s
    <2>1. todo'[Reader] = s /\ \A g \in Goroutine : g # Reader => todo'[g] = todo[g]
      BY <1>3, Names DEF LockTypes
    <2>. QED BY <2>1, Names DEF CallerInv, Goroutine
  <1>4. CASE ReaderReads
    <2>1. CallerInv' /\ todo'[Reader] = OnEvent
      BY <1>3, <1>4 DEF ReaderReads
    <2>2. \A k \in 1..Len(OnEvent) : OnEvent[k] \in EventStep /\ OnEvent[k] \in ExitStep
      BY ReaderWhole DEF ExitStep
    <2>. QED BY <2>1, <2>2 DEF ReaderInv, Late
  <1>5. CASE ReaderEnds
    <2>1. CallerInv' /\ todo'[Reader] = OnExit
      BY <1>3, <1>5 DEF ReaderEnds
    <2>2. /\ \A k \in 1..Len(OnExit) : OnExit[k] \in ExitStep
          /\ Late(OnExit) /\ ~alive' /\ running'
      BY <1>5, ReaderWhole DEF ReaderEnds, engineVars
    <2>. QED BY <2>1, <2>2 DEF ReaderInv
  <1>6. CASE EngineReads \/ EngineWrites \/ EngineHangs \/ UNCHANGED lockVars
    BY <1>6 DEF EngineReads, EngineWrites, EngineHangs, lockVars, ReaderInv, CallerInv
  <1>. QED BY <1>1, <1>2, <1>4, <1>5, <1>6 DEF LocksNext

-----------------------------------------------------------------------------
(* Nobody waits for himself *)

\* The order of what is waited for: whoever holds a lock, or is written to, waits
\* only for what comes later, but for a session's lock under the service's.
LockLevel(m) ==
  CASE m \in {"save", "up", "srv"} -> 1
    [] m \in {"ses", "conn"}       -> 2
    [] m = "svc"                   -> 3
    [] m = "schedSave"             -> 6
    [] OTHER                       -> 7

\* The place of a waiter in that order.
Level(g) == IF g = Engine THEN 5 ELSE IF Doing(g, "write") THEN 4 ELSE LockLevel(On(g))

\* What a goroutine that waits is about to do.
LEMMA Waiting1 ==
  ASSUME LockInv, NEW g \in Goroutine, WaitsFor(g) # {}
  PROVE  /\ todo[g] # <<>> /\ Head(todo[g]) \in AnyStep
         /\ \/ /\ Head(todo[g]) \in {St("lock", On(g)), St("take", On(g))}
               /\ On(g) \in Held /\ owner[On(g)] \in Goroutine /\ WaitsFor(g) = {owner[On(g)]}
               /\ Inside(todo[owner[On(g)]], On(g)) /\ Level(g) = LockLevel(On(g))
            \/ /\ Head(todo[g]) = St("write", None) /\ WaitsFor(g) = {Engine} /\ alive /\ Level(g) = 4
  <1>. USE DEF LockInv
  <1>1. g # Engine
    BY Names
  <1>2. todo[g] # <<>>
    BY <1>1 DEF WaitsFor, Doing
  <1>3. Head(todo[g]) \in AnyStep
    BY <1>2 DEF LockTypes
  <1>4. CASE (Doing(g, "lock") \/ Doing(g, "take")) /\ owner[On(g)] # None
    <2>1. Head(todo[g]) \in {St("lock", On(g)), St("take", On(g))} /\ On(g) \in Lock
      BY <1>3, <1>4, Names DEF Doing, On, AnyStep, St
    <2>2. On(g) \in Held /\ owner[On(g)] \in Goroutine
      BY <1>4, <2>1 DEF HoldInv, LockTypes
    <2>3. Inside(todo[owner[On(g)]], On(g))
      BY <2>2 DEF HoldInv
    <2>4. WaitsFor(g) = {owner[On(g)]} /\ Level(g) = LockLevel(On(g))
      BY <1>1, <1>4 DEF WaitsFor, Level, Doing
    <2>. QED BY <1>2, <1>3, <2>1, <2>2, <2>3, <2>4
  <1>5. CASE ~((Doing(g, "lock") \/ Doing(g, "take")) /\ owner[On(g)] # None)
    <2>1. Doing(g, "write") /\ alive /\ WaitsFor(g) = {Engine}
      BY <1>1, <1>5 DEF WaitsFor
    <2>2. Head(todo[g]) = St("write", None)
      BY <1>3, <2>1 DEF Doing, AnyStep, St
    <2>. QED BY <1>1, <1>2, <1>3, <2>1, <2>2 DEF Level
  <1>. QED BY <1>4, <1>5

\* While its engine lives the reader waits, if at all, for the save of the schedule.
LEMMA ReaderWaits ==
  ASSUME LockInv, alive, WaitsFor(Reader) # {}
  PROVE  On(Reader) = "schedSave" /\ Level(Reader) = 6 /\ WaitsFor(Reader) = {owner["schedSave"]}
         /\ owner["schedSave"] \in Goroutine /\ Inside(todo[owner["schedSave"]], "schedSave")
  <1>1. todo[Reader] # <<>> /\ todo[Reader] \in Seq(AnyStep)
    BY Names, Waiting1 DEF LockInv, LockTypes
  <1>2. Head(todo[Reader]) \in EventStep
    BY <1>1 DEF LockInv, ReaderInv
  <1>3. On(Reader) = Head(todo[Reader]).on
    BY DEF On
  <1>4. On(Reader) \in Held /\ WaitsFor(Reader) = {owner[On(Reader)]} /\ owner[On(Reader)] \in Goroutine
        /\ Inside(todo[owner[On(Reader)]], On(Reader)) /\ Level(Reader) = LockLevel(On(Reader))
    BY <1>2, Names, Waiting1 DEF EventStep, St
  <1>5. On(Reader) = "schedSave"
    BY <1>2, <1>3, <1>4 DEF EventStep, Held, St
  <1>. QED BY <1>4, <1>5 DEF LockLevel

\* Along a wait the level grows.
LEMMA LevelGrows ==
  ASSUME LockInv, NEW g \in Goroutine \union {Engine}, NEW h \in WaitsFor(g), WaitsFor(h) # {},
         ~SessionUnderService(g), ~SessionUnderService(h)
  PROVE  Level(g) \in 1..7 /\ Level(h) \in 1..7 /\ Level(g) < Level(h)
  <1>0. \A m : LockLevel(m) \in 1..7
    BY DEF LockLevel
  <1>1. CASE g = Engine
    <2>1. h = Reader /\ alive
      BY <1>1 DEF WaitsFor
    <2>. QED BY <1>1, <2>1, ReaderWaits DEF Level
  <1>2. CASE g \in Goroutine /\ Head(todo[g]) = St("write", None) /\ WaitsFor(g) = {Engine} /\ Level(g) = 4
    BY <1>2 DEF Level
  <1>3. CASE /\ g \in Goroutine
             /\ On(g) \in Held /\ owner[On(g)] \in Goroutine /\ WaitsFor(g) = {owner[On(g)]}
             /\ Inside(todo[owner[On(g)]], On(g)) /\ Level(g) = LockLevel(On(g))
    <2>. DEFINE m == On(g)
    <2>1. h = owner[m] /\ h \in Goroutine /\ Inside(todo[h], m) /\ m \in Held
      BY <1>3
    <2>2. todo[h] \in Seq(AnyStep)
      BY <2>1 DEF LockInv, LockTypes
    <2>3. Head(todo[h]) \in Under(m) \union {St("unlock", m)}
      BY <2>1, <2>2, InsideHead
    <2>. HIDE DEF m
    <2>4. CASE Head(todo[h]) = St("write", None) /\ Level(h) = 4
      <3>1. m = "ses"
        BY <2>1, <2>3, <2>4 DEF Under, Held, St
      <3>. QED BY <1>3, <2>4, <3>1 DEF LockLevel, m
    <2>5. CASE Head(todo[h]) \in {St("lock", On(h)), St("take", On(h))} /\ Level(h) = LockLevel(On(h))
      <3>1. Head(todo[h]) \in Under(m)
        BY <2>3, <2>5 DEF St
      <3>2. ~(m = "svc" /\ On(h) = "ses")
        <4>1. Doing(h, "lock") \/ Doing(h, "take")
          BY <2>1, <2>2, <2>5, InsideHead DEF Doing, St
        <4>. QED BY <2>1, <4>1, Names DEF SessionUnderService
      <3>3. LockLevel(m) < LockLevel(On(h))
        BY <2>1, <2>5, <3>1, <3>2 DEF Under, LockLevel, Held, St
      <3>. QED BY <1>0, <1>3, <2>5, <3>3 DEF m
    <2>. QED BY <2>1, <2>4, <2>5, Waiting1
  <1>. QED BY <1>1, <1>2, <1>3, Waiting1

\* Of the waiters one at the highest level waits for nobody who waits.
LEMMA NoCycle ==
  ASSUME LockInv
  PROVE  NoMutualWait
  <1>. SUFFICES ASSUME NEW W \in SUBSET (Goroutine \union {Engine}), W # {},
                       \A g \in W : ~SessionUnderService(g)
                PROVE  \E g \in W : /\ WaitsFor(g) \intersect W = {}
                                    /\ ~(Reader \in W /\ g = Engine /\ alive /\ hung)
    BY DEF NoMutualWait
  <1>1. CASE Reader \in W /\ alive
    <2>1. CASE WaitsFor(Reader) \intersect W = {}
      BY <1>1, <2>1, Names
    <2>2. CASE WaitsFor(Reader) \intersect W # {}
      <3>. DEFINE h == owner["schedSave"]
      <3>1. h \in W /\ h \in Goroutine /\ Inside(todo[h], "schedSave") /\ WaitsFor(Reader) = {h}
        BY <1>1, <2>2, ReaderWaits
      <3>2. WaitsFor(h) = {}
        <4>. SUFFICES ASSUME WaitsFor(h) # {} PROVE FALSE
          OBVIOUS
        <4>1. todo[h] \in Seq(AnyStep)
          BY <3>1 DEF LockInv, LockTypes
        <4>2. Head(todo[h]) \in {St("take", "sched"), St("unlock", "schedSave")}
          BY <3>1, <4>1, InsideHead DEF Under
        <4>. HIDE DEF h
        <4>3. Head(todo[h]) \in {St("lock", On(h)), St("take", On(h))} /\ On(h) \in Held
          BY <3>1, <4>2, Waiting1 DEF St
        <4>. QED BY <4>2, <4>3 DEF Held, St
      <3>. QED BY <3>1, <3>2, Names
    <2>. QED BY <2>1, <2>2
  <1>2. CASE ~(Reader \in W /\ alive)
    <2>. SUFFICES ASSUME \A g \in W : WaitsFor(g) \intersect W # {} PROVE FALSE
      BY <1>2
    <2>1. ASSUME NEW g \in W
          PROVE  Level(g) \in 1..7 /\ \E h \in W : Level(g) < Level(h)
      <3>1. PICK h \in W : h \in WaitsFor(g)
        OBVIOUS
      <3>2. WaitsFor(h) # {}
        OBVIOUS
      <3>. QED BY <3>1, <3>2, LevelGrows
    <2>. DEFINE L == {Level(g) : g \in W}
    <2>2. L \subseteq 1..7 /\ L # {} /\ \A i \in L : \E j \in L : i < j
      BY <2>1
    <2>. HIDE DEF L
    <2>3. 7 \notin L
      BY <2>2
    <2>4. 6 \notin L
      BY <2>2, <2>3
    <2>5. 5 \notin L
      BY <2>2, <2>3, <2>4
    <2>6. 4 \notin L
      BY <2>2, <2>3, <2>4, <2>5
    <2>7. 3 \notin L
      BY <2>2, <2>3, <2>4, <2>5, <2>6
    <2>8. 2 \notin L
      BY <2>2, <2>3, <2>4, <2>5, <2>6, <2>7
    <2>9. 1 \notin L
      BY <2>2, <2>3, <2>4, <2>5, <2>6, <2>7, <2>8
    <2>10. \A i \in 1..7 : i = 1 \/ i = 2 \/ i = 3 \/ i = 4 \/ i = 5 \/ i = 6 \/ i = 7
      OBVIOUS
    <2>. QED BY <2>2, <2>3, <2>4, <2>5, <2>6, <2>7, <2>8, <2>9, <2>10
  <1>. QED BY <1>1, <1>2

\* The inductive invariant of the locks holds in every reachable state, whatever the
\* callers do.
THEOREM LocksInductive == LocksSpec => []LockInv
  <1>1. LockInv /\ [LocksNext]_lockVars => LockInv'
    <2>. SUFFICES ASSUME LockInv, [LocksNext]_lockVars PROVE LockInv'
      OBVIOUS
    <2>. QED BY TodoKept, HoldKept, SpawnKept, ReaderKept DEF LockInv
  <1>. QED BY <1>1, LockInit, PTL DEF LocksSpec

\* However many call at once, nobody waits for someone who waits for him, through
\* locks and pipes, and the reader not for a hung engine (session.go 67-69).
THEOREM NobodyWaitsForHimself == LocksSpec => []NoMutualWait
  BY LocksInductive, NoCycle, PTL

=============================================================================

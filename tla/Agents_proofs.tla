---------------------------- MODULE Agents_proofs ----------------------------
(***************************************************************************)
(* Theorems about Agents, for any number of runs, restarts and plan nodes: *)
(* one run of the child at a time and a waiter released after the report,  *)
(* the record on disk that of the child, no unfinished node with a child   *)
(* that is gone.  They rest on who can still touch the child: a run that   *)
(* works and was not canceled is the child's current one, and once the     *)
(* child has no harness every run there was is canceled.                   *)
(***************************************************************************)
EXTENDS Agents, FiniteSetTheorems, TLAPS

\* States that are saved; a process that is saving one.
Saved == {"running", "idle", "dismissed"}
Saving(q) == pc[q] \in {"save", "write"}

\* The state is of its types.
Types ==
  /\ engine \in {"up", "marks", "stops", "closed", "down", "starts"}
  /\ state \in {"none", "stopped"} \union Saved /\ has \in BOOLEAN
  /\ disk \in {"none"} \union Saved /\ closed \in BOOLEAN
  /\ runs \in 0..MaxRuns /\ last \in 0..runs /\ cur \in {0, last}
  /\ shut \subseteq Run /\ canceled \subseteq 1..runs /\ reported \subseteq Run
  /\ owned \subseteq Node /\ open \subseteq Node
  /\ raced \in BOOLEAN /\ late \in BOOLEAN /\ cutOff \in BOOLEAN

SaveTypes ==
  /\ snap \in [Proc -> {"none"} \union Saved]
  /\ then \in [Proc -> {"rest", "report", "done", "assign", "go", "release", "orphans"}]

\* Where a process can be, and what can follow its save.
RunAt == {"rest", "works", "settle", "save", "write", "report", "done", "over"}
TurnAt == {"rest", "save", "write", "assign", "go", "tell", "quit", "stop", "dismiss",
              "release", "resume", "orphans"}
PcTypes ==
  /\ pc \in [Proc -> RunAt \union TurnAt]
  /\ \A r \in Run : pc[r] \in RunAt
  /\ pc[Input] \in {"rest", "save", "write", "go"} /\ pc[Turn] \in TurnAt
  /\ Saving(Input) => then[Input] = "go"
  /\ Saving(Turn) => then[Turn] \in {"assign", "go", "release", "rest", "orphans"}

\* Runs are numbered; one that settles reports, or is the first and was canceled.
RunInv ==
  \A r \in Run :
    /\ r > runs => pc[r] = "rest"
    /\ pc[r] \in {"settle", "save", "write"} =>
         then[r] = "report" \/ (then[r] = "done" /\ r = 1 /\ r \in canceled)
    /\ pc[r] = "done" => r \in reported \union canceled
    /\ pc[r] # "rest" \/ runs >= 2 => last # 0

\* The turn's calls: one that comes up again after a restart, one that spawns,
\* one that dismisses.
In(step) == pc[Turn] = step \/ (Saving(Turn) /\ then[Turn] = step)
Orphaning == In("orphans")
Spawning == In("assign")
Leaving == pc[Turn] \in {"stop", "dismiss"} \/ In("release")

\* After a restart only the turn is there.
EngineInv ==
  /\ closed <=> engine \in {"marks", "stops", "closed"}
  /\ engine \in {"down", "starts"} =>
       runs <= 1 /\ last = 0 /\ canceled = {} /\ \A q \in Proc \ {Turn} : pc[q] = "rest"
  /\ engine = "down" => pc[Turn] = "rest" /\ ~has /\ shut = {}
  /\ engine = "starts" => pc[Turn] = "resume" \/ Orphaning
  /\ Orphaning => engine = "starts"

SpawnInv ==
  /\ state = "none" => runs = 0 /\ ~has
  /\ Spawning \/ pc[Turn] = "quit" => 
       state = "running" /\ cur = 1 /\ runs = 1 /\ pc[1] = "rest"

\* A run that works or is about to, and is not canceled.
Waits(r) == pc[r] = "rest" /\ (r \in 2..runs \/ (r = 1 /\ Spawning))
Active(r) == r \notin canceled /\ (pc[r] \in {"works", "settle"} \/ Waits(r))
OneInv == ~late => \A r \in Run : Active(r) => r = cur /\ state = "running"

\* Once a dismissal has canceled the run there is none, until a resume is through.
Stopped ==
  \/ (Leaving \/ pc[Turn] = "resume") /\ pc[Turn] # "stop"
  \/ engine \in {"up", "starts"} /\ ~has /\ pc[Turn] # "stop"
StopInv ==
  /\ Stopped /\ ~late => \A r \in Run : ~Active(r)
  /\ Stopped \/ cur = 0 => last \in canceled \union {0}
HasInv ==
  /\ Leaving \/ pc[Turn] = "resume" => ~has
  /\ engine = "up" /\ ~has => pc[Turn] \in {"rest", "resume"} \/ Leaving
  /\ engine = "up" /\ has /\ cur # 0 => cur \notin canceled
  /\ engine \in {"up", "starts"} /\ has /\ ~late => state # "dismissed"

\* Unless it was changed meanwhile, a run settles the child it ran for.
ShutInv ==
  ~raced /\ ~late => /\ shut \subseteq reported \union canceled
                     /\ \A r \in Run : Settling(r) => last = r

\* What is being written is the state; when nothing is, the record is.
WriteInv ==
  /\ \A q \in Proc : Saving(q) => state \in Saved
  /\ \A q \in Proc : pc[q] = "write" => snap[q] \in Saved /\ (~raced => snap[q] = state)
DiskInv ==
  /\ ~raced /\ (\A q \in Proc : ~Saving(q)) /\ engine \in {"up", "starts"} /\ state \in Saved =>
       disk = state
  /\ cutOff => /\ ~raced => disk = "running"
               /\ engine \in {"marks", "stops", "closed", "down"}
               /\ \A q \in Proc : pc[q] # "write"

\* A child that is gone has given its nodes back.
OwnInv ==
  engine = "up" /\ pc[Turn] \in {"rest", "resume"} /\ state \in {"none", "dismissed"} /\ ~late =>
    owned \intersect open = {}

\* The inductive invariant.
IInv ==
  /\ Types /\ SaveTypes /\ PcTypes /\ RunInv /\ EngineInv /\ SpawnInv
  /\ OneInv /\ StopInv /\ HasInv /\ ShutInv /\ WriteInv /\ DiskInv /\ OwnInv

-----------------------------------------------------------------------------
\* The turn and the input are no runs.
LEMMA Procs ==
  /\ Run \subseteq Proc /\ Turn \in Proc /\ Input \in Proc /\ Turn # Input
  /\ Turn \notin Run /\ Input \notin Run /\ 1 \in Run /\ 0 \notin Run
  /\ \A r \in Run : r \in Nat /\ r # 0
BY AgentsAssumption DEF Run, Proc, Turn, Input

\* The state is of its types.
LEMMA TypesP ==
  ASSUME Types, SaveTypes, PcTypes, RunInv, EngineInv, WriteInv, SpawnInv, [Next]_vars
  PROVE  Types'
<1>1. ASSUME UNCHANGED <<engine, state, has, disk, closed, runs, last, cur, shut, canceled,
                          reported, owned, open, raced, late, cutOff>>
      PROVE  Types'
  BY <1>1 DEF PcTypes, Run, RunInv, Saved, SpawnInv, Types, WriteInv
<1>2. CASE UNCHANGED vars
  BY <1>1, <1>2 DEF vars, child, procs, plan, seen
<1>3. CASE ResumeBegins \/ ResumeFails
  BY <1>1, <1>3 DEF ResumeBegins, Goes, child, plan, seen, ResumeFails
<1>4. ASSUME NEW r \in Run, WorkEnds(r) PROVE Types'
  BY <1>1, <1>4 DEF WorkEnds, Goes, child, plan, seen
<1>5. ASSUME NEW q \in {Turn, Input}, Go(q) PROVE Types'
  BY <1>1, <1>5 DEF Go, child, plan, seen
<1>6. ASSUME NEW q \in Proc, Snapshot(q) PROVE Types'
  BY <1>1, <1>6 DEF Snapshot, Goes, child, plan, seen
<1>7. CASE Spawn
  BY <1>7, Procs, AgentsAssumption DEF Spawn, StartRun, SavesThen, Goes, Types, Saved, Run,
     RunInv, WriteInv, PcTypes, SpawnInv
<1>8. CASE Assign
  BY <1>8, Procs, AgentsAssumption DEF Assign, child, seen, Types, Saved, Run, RunInv, WriteInv,
     PcTypes, SpawnInv
<1>9. CASE GiveNode
  BY <1>9, Procs, AgentsAssumption DEF GiveNode, child, seen, Types, Saved, Run, RunInv,
     WriteInv, PcTypes, SpawnInv
<1>10. CASE GivenTell
  <2>1. CASE UNCHANGED <<child, raced, runs>>
    BY <1>10, <2>1 DEF GivenTell, StartRun, SavesThen, Goes, child, plan, Types, Saved, Run
  <2>2. CASE StartRun /\ SavesThen(Turn, "tell", "go") /\ UNCHANGED <<has, closed, shut, canceled>>
    BY <1>10, <2>2, Procs, AgentsAssumption DEF GivenTell, StartRun, SavesThen, Goes, child, plan,
       Types, Saved, Run
  <2> QED
    BY <1>10, <2>1, <2>2 DEF GivenTell
<1>11. CASE QuitBegins
  BY <1>11, Procs, AgentsAssumption DEF QuitBegins, plan, seen, Types, Saved, Run, RunInv,
     WriteInv, PcTypes, SpawnInv
<1>12. CASE QuitStops
  BY <1>12, Procs, AgentsAssumption DEF QuitStops, Goes, plan, seen, Types, Saved, Run, RunInv,
     WriteInv, PcTypes, SpawnInv
<1>13. CASE QuitSettles
  BY <1>13, Procs, AgentsAssumption DEF QuitSettles, SavesThen, Goes, plan, Types, Saved, Run,
     RunInv, WriteInv, PcTypes, SpawnInv
<1>14. CASE QuitEnds
  BY <1>14, Procs, AgentsAssumption DEF QuitEnds, Goes, seen, Types, Saved, Run, RunInv,
     WriteInv, PcTypes, SpawnInv
<1>15. CASE ResumeSets
  BY <1>15, Procs, AgentsAssumption DEF ResumeSets, SavesThen, Goes, plan, Types, Saved, Run,
     RunInv, WriteInv, PcTypes, SpawnInv
<1>16. ASSUME NEW r \in Run, Publish(r) PROVE Types'
  BY <1>16, Procs, AgentsAssumption DEF Publish, child, procs, seen, Types, Saved, Run, RunInv,
     WriteInv, PcTypes, SpawnInv
<1>17. ASSUME NEW r \in Run, Settles(r) PROVE Types'
  BY <1>17, Procs, AgentsAssumption DEF Settles, SavesThen, Goes, plan, Types, Saved, Run,
     RunInv, WriteInv, PcTypes, SpawnInv
<1>18. ASSUME NEW r \in Run, Reports(r) PROVE Types'
  BY <1>18, Procs, AgentsAssumption DEF Reports, Goes, child, plan, Types, Saved, Run, RunInv,
     WriteInv, PcTypes, SpawnInv
<1>19. ASSUME NEW r \in Run, Done(r) PROVE Types'
  BY <1>19, Procs, AgentsAssumption DEF Done, Goes, plan, seen, Types, Saved, Run, RunInv,
     WriteInv, PcTypes, SpawnInv
<1>20. CASE CloseMarks
  BY <1>20, Procs, AgentsAssumption DEF CloseMarks, procs, plan, Types, Saved, Run, RunInv,
     WriteInv, PcTypes, SpawnInv
<1>21. CASE CloseStops
  BY <1>21, Procs, AgentsAssumption DEF CloseStops, procs, plan, seen, Types, Saved, Run,
     RunInv, WriteInv, PcTypes, SpawnInv
<1>22. CASE CloseDrops
  BY <1>22, Procs, AgentsAssumption DEF CloseDrops, procs, plan, seen, Types, Saved, Run,
     RunInv, WriteInv, PcTypes, SpawnInv
<1>23. CASE Exits
  <2>1. /\ engine' = "down" /\ state' = "none" /\ has' = FALSE /\ closed' = FALSE /\ cur' = 0
        /\ last' = 0 /\ shut' = {} /\ canceled' = {} /\ reported' = {} /\ runs' = 0
        /\ UNCHANGED <<disk, owned, open, raced, late, cutOff>>
    BY <1>23 DEF Exits, Gone
  <2>2. 0 \in 0..MaxRuns /\ 0 \in 0..0
    BY AgentsAssumption
  <2> QED
    BY <2>1, <2>2 DEF Types, Saved
<1>24. CASE Restore
  <2>1. /\ engine' = "starts" /\ runs' \in {0, 1} /\ state' \in {"none", "dismissed", "stopped"}
        /\ cutOff' = FALSE /\ raced' = FALSE /\ late' = FALSE
        /\ UNCHANGED <<has, closed, cur, last, shut, canceled, disk, plan, reported>>
    BY <1>24 DEF Restore
  <2>2. last = 0 /\ canceled = {}
    BY <1>24 DEF Restore, EngineInv
  <2>3. runs' \in 0..MaxRuns /\ 0 \in 0..runs'
    BY <2>1, AgentsAssumption
  <2> QED
    BY <2>1, <2>2, <2>3 DEF Types, Saved, plan
<1>25. CASE Orphans
  BY <1>25, Procs, AgentsAssumption DEF Orphans, Goes, child, seen, Types, Saved, Run, RunInv,
     WriteInv, PcTypes, SpawnInv
<1>26. CASE PersonDrops
  BY <1>26, Procs, AgentsAssumption DEF PersonDrops, child, procs, seen, Types, Saved, Run,
     RunInv, WriteInv, PcTypes, SpawnInv
<1>27. ASSUME NEW q \in {Turn, Input}, Tell(q) PROVE Types'
  BY <1>27, Procs, AgentsAssumption DEF Tell, StartRun, SavesThen, Goes, Lives, plan, Types,
     Saved, Run, RunInv, WriteInv, PcTypes, SpawnInv
<1>28. ASSUME NEW q \in Proc, Writes(q) PROVE Types'
  BY <1>28, Procs, AgentsAssumption DEF Writes, Goes, child, plan, seen, Types, Saved, Run,
     RunInv, WriteInv, PcTypes, SpawnInv
<1> QED
  BY <1>1, <1>2, <1>3, <1>4, <1>5, <1>6, <1>7, <1>8, <1>9, <1>10, <1>11, <1>12, <1>13, <1>14,
     <1>15, <1>16, <1>17, <1>18, <1>19, <1>20, <1>21, <1>22, <1>23, <1>24, <1>25, <1>26, <1>27,
     <1>28 DEF Next, TurnSteps, RunSteps, EngineSteps

\* What is saved, and what comes after.
LEMMA SaveTypesP ==
  ASSUME Types, SaveTypes, PcTypes, WriteInv, [Next]_vars
  PROVE  SaveTypes'
<1>1. ASSUME UNCHANGED <<snap, then>> PROVE SaveTypes'
  BY <1>1 DEF SaveTypes, Saved, Saving, WriteInv
<1>2. CASE UNCHANGED vars
  BY <1>1, <1>2 DEF vars, child, procs, plan, seen
<1>3. CASE Assign \/ GiveNode \/ QuitBegins \/ QuitStops \/ QuitEnds \/ ResumeBegins \/
           ResumeFails \/ CloseMarks \/ CloseStops \/ CloseDrops \/ Restore \/ Orphans \/
           PersonDrops
  BY <1>1, <1>3 DEF Assign, child, seen, GiveNode, QuitBegins, plan, QuitStops, Goes, QuitEnds,
     ResumeBegins, ResumeFails, CloseMarks, procs, CloseStops, CloseDrops, Restore, Orphans,
     PersonDrops
<1>4. ASSUME NEW r \in Run, Publish(r) \/ Reports(r) \/ Done(r) PROVE SaveTypes'
  BY <1>1, <1>4 DEF Publish, child, procs, seen, Reports, Goes, plan, Done
<1>5. ASSUME NEW q \in {Turn, Input}, Go(q) PROVE SaveTypes'
  BY <1>1, <1>5 DEF Go, child, plan, seen
<1>6. CASE Spawn
  BY <1>6, Procs DEF Spawn, StartRun, SavesThen, Goes, SaveTypes, Saved, WriteInv, Saving
<1>7. CASE GivenTell
  BY <1>7, Procs DEF GivenTell, StartRun, SavesThen, Goes, child, plan, SaveTypes, Saved,
     WriteInv, Saving
<1>8. CASE QuitSettles
  BY <1>8, Procs DEF QuitSettles, SavesThen, Goes, plan, SaveTypes, Saved, WriteInv, Saving
<1>9. CASE ResumeSets
  BY <1>9, Procs DEF ResumeSets, SavesThen, Goes, plan, SaveTypes, Saved, WriteInv, Saving
<1>10. ASSUME NEW r \in Run, WorkEnds(r) PROVE SaveTypes'
  BY <1>10, Procs DEF WorkEnds, Goes, child, plan, seen, SaveTypes, Saved, WriteInv, Saving
<1>11. ASSUME NEW r \in Run, Settles(r) PROVE SaveTypes'
  BY <1>11, Procs DEF Settles, SavesThen, Goes, plan, SaveTypes, Saved, WriteInv, Saving
<1>12. CASE Exits
  BY <1>12, Procs DEF Exits, Gone, SaveTypes, Saved, WriteInv, Saving
<1>13. ASSUME NEW q \in {Turn, Input}, Tell(q) PROVE SaveTypes'
  BY <1>13, Procs DEF Tell, StartRun, SavesThen, Goes, Lives, plan, SaveTypes, Saved, WriteInv,
     Saving
<1>14. ASSUME NEW q \in Proc, Snapshot(q) PROVE SaveTypes'
  BY <1>14, Procs DEF Snapshot, Goes, child, plan, seen, SaveTypes, Saved, WriteInv, Saving
<1>15. ASSUME NEW q \in Proc, Writes(q) PROVE SaveTypes'
  BY <1>15, Procs DEF Writes, Goes, child, plan, seen, SaveTypes, Saved, WriteInv, Saving
<1> QED
  BY <1>1, <1>2, <1>3, <1>4, <1>5, <1>6, <1>7, <1>8, <1>9, <1>10, <1>11, <1>12, <1>13, <1>14,
     <1>15 DEF Next, TurnSteps, RunSteps, EngineSteps

\* Where everybody is.
LEMMA PcTypesP ==
  ASSUME Types, SaveTypes, PcTypes, RunInv, [Next]_vars
  PROVE  PcTypes'
<1>1. ASSUME UNCHANGED <<pc, then>> PROVE PcTypes'
  BY <1>1 DEF PcTypes, RunAt, RunInv, SaveTypes, Saving, TurnAt
<1>2. CASE UNCHANGED vars
  BY <1>1, <1>2 DEF vars, child, procs, plan, seen
<1>3. CASE CloseMarks \/ CloseStops \/ CloseDrops \/ PersonDrops
  BY <1>1, <1>3 DEF CloseMarks, procs, plan, CloseStops, seen, CloseDrops, PersonDrops, child
<1>4. ASSUME NEW r \in Run, Publish(r) PROVE PcTypes'
  BY <1>1, <1>4 DEF Publish, child, procs, seen
<1>5. CASE Spawn
  BY <1>5, Procs DEF Spawn, StartRun, SavesThen, Goes, PcTypes, RunAt, TurnAt, Saving,
     SaveTypes, RunInv
<1>6. CASE Assign
  BY <1>6, Procs DEF Assign, child, seen, PcTypes, RunAt, TurnAt, Saving, SaveTypes, RunInv
<1>7. CASE GiveNode
  BY <1>7, Procs DEF GiveNode, child, seen, PcTypes, RunAt, TurnAt, Saving, SaveTypes, RunInv
<1>8. CASE GivenTell
  BY <1>8, Procs DEF GivenTell, StartRun, SavesThen, Goes, child, plan, PcTypes, RunAt, TurnAt,
     Saving, SaveTypes, RunInv
<1>9. CASE QuitBegins
  BY <1>9, Procs DEF QuitBegins, plan, seen, PcTypes, RunAt, TurnAt, Saving, SaveTypes, RunInv
<1>10. CASE QuitStops
  BY <1>10, Procs DEF QuitStops, Goes, plan, seen, PcTypes, RunAt, TurnAt, Saving, SaveTypes,
     RunInv
<1>11. CASE QuitSettles
  BY <1>11, Procs DEF QuitSettles, SavesThen, Goes, plan, PcTypes, RunAt, TurnAt, Saving,
     SaveTypes, RunInv
<1>12. CASE QuitEnds
  BY <1>12, Procs DEF QuitEnds, Goes, seen, PcTypes, RunAt, TurnAt, Saving, SaveTypes, RunInv
<1>13. CASE ResumeBegins
  BY <1>13, Procs DEF ResumeBegins, Goes, child, plan, seen, PcTypes, RunAt, TurnAt, Saving,
     SaveTypes, RunInv
<1>14. CASE ResumeSets
  BY <1>14, Procs DEF ResumeSets, SavesThen, Goes, plan, PcTypes, RunAt, TurnAt, Saving,
     SaveTypes, RunInv
<1>15. CASE ResumeFails
  BY <1>15, Procs DEF ResumeFails, Goes, child, plan, seen, PcTypes, RunAt, TurnAt, Saving,
     SaveTypes, RunInv
<1>16. ASSUME NEW r \in Run, WorkEnds(r) PROVE PcTypes'
  BY <1>16, Procs DEF WorkEnds, Goes, child, plan, seen, PcTypes, RunAt, TurnAt, Saving,
     SaveTypes, RunInv
<1>17. ASSUME NEW r \in Run, Settles(r) PROVE PcTypes'
  BY <1>17, Procs DEF Settles, SavesThen, Goes, plan, PcTypes, RunAt, TurnAt, Saving, SaveTypes,
     RunInv
<1>18. ASSUME NEW r \in Run, Reports(r) PROVE PcTypes'
  BY <1>18, Procs DEF Reports, Goes, child, plan, PcTypes, RunAt, TurnAt, Saving, SaveTypes,
     RunInv
<1>19. ASSUME NEW r \in Run, Done(r) PROVE PcTypes'
  BY <1>19, Procs DEF Done, Goes, plan, seen, PcTypes, RunAt, TurnAt, Saving, SaveTypes, RunInv
<1>20. CASE Exits
  BY <1>20, Procs DEF Exits, Gone, PcTypes, RunAt, TurnAt, Saving, SaveTypes, RunInv
<1>21. CASE Restore
  BY <1>21, Procs DEF Restore, plan, PcTypes, RunAt, TurnAt, Saving, SaveTypes, RunInv
<1>22. CASE Orphans
  BY <1>22, Procs DEF Orphans, Goes, child, seen, PcTypes, RunAt, TurnAt, Saving, SaveTypes,
     RunInv
<1>23. ASSUME NEW q \in {Turn, Input}, Tell(q) PROVE PcTypes'
  BY <1>23, Procs DEF Tell, StartRun, SavesThen, Goes, Lives, plan, PcTypes, RunAt, TurnAt,
     Saving, SaveTypes, RunInv
<1>24. ASSUME NEW q \in {Turn, Input}, Go(q) PROVE PcTypes'
  <2>1. PICK r \in 2..runs : pc[r] = "rest" /\ pc' = [pc EXCEPT ![q] = "rest", ![r] = "works"]
    BY <1>24 DEF Go
  <2>2. r \in Run
    BY AgentsAssumption DEF Types, Run
  <2>3. /\ pc'[q] = "rest" /\ pc'[r] = "works" /\ \A o \in Proc \ {q, r} : pc'[o] = pc[o]
        /\ DOMAIN pc' = Proc /\ q \in Proc /\ q \notin Run /\ pc[q] = "go"
    BY <1>24, <2>1, <2>2, Procs DEF Go, PcTypes
  <2> QED
    BY <1>24, <2>1, <2>2, <2>3, Procs DEF Go, child, plan, seen, PcTypes, RunAt, TurnAt, Saving
<1>25. ASSUME NEW q \in Proc, Snapshot(q) PROVE PcTypes'
  BY <1>25, Procs DEF Snapshot, Goes, child, plan, seen, PcTypes, RunAt, TurnAt, Saving,
     SaveTypes, RunInv
<1>26. ASSUME NEW q \in Proc, Writes(q) PROVE PcTypes'
  BY <1>26, Procs DEF Writes, Goes, child, plan, seen, PcTypes, RunAt, TurnAt, Saving,
     SaveTypes, RunInv
<1> QED
  BY <1>1, <1>2, <1>3, <1>4, <1>5, <1>6, <1>7, <1>8, <1>9, <1>10, <1>11, <1>12, <1>13, <1>14,
     <1>15, <1>16, <1>17, <1>18, <1>19, <1>20, <1>21, <1>22, <1>23, <1>24, <1>25, <1>26 DEF
     Next, TurnSteps, RunSteps, EngineSteps

\* Runs are numbered, and a run is done after its report or its end.
LEMMA RunInvP ==
  ASSUME Types, SaveTypes, PcTypes, RunInv, EngineInv, SpawnInv, [Next]_vars
  PROVE  RunInv'
<1>1. ASSUME UNCHANGED <<pc, then, runs, last, canceled, reported>> PROVE RunInv'
  BY <1>1 DEF EngineInv, In, PcTypes, RunAt, RunInv, SaveTypes, SpawnInv, Spawning, Types
<1>2. CASE UNCHANGED vars
  BY <1>1, <1>2 DEF vars, child, procs, plan, seen
<1>3. CASE CloseMarks \/ CloseDrops \/ PersonDrops
  BY <1>1, <1>3 DEF CloseMarks, procs, plan, CloseDrops, seen, PersonDrops, child
<1>4. ASSUME NEW r \in Run, Publish(r) PROVE RunInv'
  BY <1>1, <1>4 DEF Publish, child, procs, seen
<1>5. CASE Spawn
  BY <1>5, Procs DEF Spawn, StartRun, SavesThen, Goes, RunInv, Types, PcTypes, RunAt, SaveTypes,
     SpawnInv, Spawning, In, EngineInv
<1>6. CASE Assign
  BY <1>6, Procs DEF Assign, child, seen, RunInv, Types, PcTypes, RunAt, SaveTypes, SpawnInv,
     Spawning, In, EngineInv
<1>7. CASE GiveNode
  BY <1>7, Procs DEF GiveNode, child, seen, RunInv, Types, PcTypes, RunAt, SaveTypes, SpawnInv,
     Spawning, In, EngineInv
<1>8. CASE GivenTell
  BY <1>8, Procs DEF GivenTell, StartRun, SavesThen, Goes, child, plan, RunInv, Types, PcTypes,
     RunAt, SaveTypes, SpawnInv, Spawning, In, EngineInv
<1>9. CASE QuitBegins
  BY <1>9, Procs DEF QuitBegins, plan, seen, RunInv, Types, PcTypes, RunAt, SaveTypes, SpawnInv,
     Spawning, In, EngineInv
<1>10. CASE QuitStops
  BY <1>10, Procs DEF QuitStops, Goes, plan, seen, RunInv, Types, PcTypes, RunAt, SaveTypes,
     SpawnInv, Spawning, In, EngineInv
<1>11. CASE QuitSettles
  BY <1>11, Procs DEF QuitSettles, SavesThen, Goes, plan, RunInv, Types, PcTypes, RunAt,
     SaveTypes, SpawnInv, Spawning, In, EngineInv
<1>12. CASE QuitEnds
  BY <1>12, Procs DEF QuitEnds, Goes, seen, RunInv, Types, PcTypes, RunAt, SaveTypes, SpawnInv,
     Spawning, In, EngineInv
<1>13. CASE ResumeBegins
  BY <1>13, Procs DEF ResumeBegins, Goes, child, plan, seen, RunInv, Types, PcTypes, RunAt,
     SaveTypes, SpawnInv, Spawning, In, EngineInv
<1>14. CASE ResumeSets
  BY <1>14, Procs DEF ResumeSets, SavesThen, Goes, plan, RunInv, Types, PcTypes, RunAt,
     SaveTypes, SpawnInv, Spawning, In, EngineInv
<1>15. CASE ResumeFails
  BY <1>15, Procs DEF ResumeFails, Goes, child, plan, seen, RunInv, Types, PcTypes, RunAt,
     SaveTypes, SpawnInv, Spawning, In, EngineInv
<1>16. ASSUME NEW r \in Run, WorkEnds(r) PROVE RunInv'
  BY <1>16, Procs DEF WorkEnds, Goes, child, plan, seen, RunInv, Types, PcTypes, RunAt,
     SaveTypes, SpawnInv, Spawning, In, EngineInv
<1>17. ASSUME NEW r \in Run, Settles(r) PROVE RunInv'
  BY <1>17, Procs DEF Settles, SavesThen, Goes, plan, RunInv, Types, PcTypes, RunAt, SaveTypes,
     SpawnInv, Spawning, In, EngineInv
<1>18. ASSUME NEW r \in Run, Reports(r) PROVE RunInv'
  BY <1>18, Procs DEF Reports, Goes, child, plan, RunInv, Types, PcTypes, RunAt, SaveTypes,
     SpawnInv, Spawning, In, EngineInv
<1>19. ASSUME NEW r \in Run, Done(r) PROVE RunInv'
  BY <1>19, Procs DEF Done, Goes, plan, seen, RunInv, Types, PcTypes, RunAt, SaveTypes,
     SpawnInv, Spawning, In, EngineInv
<1>20. CASE CloseStops
  BY <1>20, Procs DEF CloseStops, procs, plan, seen, RunInv, Types, PcTypes, RunAt, SaveTypes,
     SpawnInv, Spawning, In, EngineInv
<1>21. CASE Exits
  BY <1>21, Procs DEF Exits, Gone, RunInv, Types, PcTypes, RunAt, SaveTypes, SpawnInv, Spawning,
     In, EngineInv
<1>22. CASE Restore
  BY <1>22, Procs DEF Restore, plan, RunInv, Types, PcTypes, RunAt, SaveTypes, SpawnInv,
     Spawning, In, EngineInv
<1>23. CASE Orphans
  BY <1>23, Procs DEF Orphans, Goes, child, seen, RunInv, Types, PcTypes, RunAt, SaveTypes,
     SpawnInv, Spawning, In, EngineInv
<1>24. ASSUME NEW q \in {Turn, Input}, Tell(q) PROVE RunInv'
  BY <1>24, Procs DEF Tell, StartRun, SavesThen, Goes, Lives, plan, RunInv, Types, PcTypes,
     RunAt, SaveTypes, SpawnInv, Spawning, In, EngineInv
<1>25. ASSUME NEW q \in {Turn, Input}, Go(q) PROVE RunInv'
  BY <1>25, Procs DEF Go, child, plan, seen, RunInv, Types, Run, PcTypes, RunAt
<1>26. ASSUME NEW q \in Proc, Snapshot(q) PROVE RunInv'
  BY <1>26, Procs DEF Snapshot, Goes, child, plan, seen, RunInv, Types, PcTypes, RunAt,
     SaveTypes, SpawnInv, Spawning, In, EngineInv
<1>27. ASSUME NEW q \in Proc, Writes(q) PROVE RunInv'
  BY <1>27, Procs DEF Writes, Goes, child, plan, seen, RunInv, Types, PcTypes, RunAt, SaveTypes,
     SpawnInv, Spawning, In, EngineInv
<1> QED
  BY <1>1, <1>2, <1>3, <1>4, <1>5, <1>6, <1>7, <1>8, <1>9, <1>10, <1>11, <1>12, <1>13, <1>14,
     <1>15, <1>16, <1>17, <1>18, <1>19, <1>20, <1>21, <1>22, <1>23, <1>24, <1>25, <1>26, <1>27
     DEF Next, TurnSteps, RunSteps, EngineSteps

\* After a restart only the turn is there.
LEMMA EngineInvP ==
  ASSUME Types, SaveTypes, PcTypes, RunInv, EngineInv, SpawnInv, [Next]_vars
  PROVE  EngineInv'
<1>1. ASSUME UNCHANGED <<engine, closed, has, shut, runs, last, canceled, pc, then>>
      PROVE  EngineInv'
  BY <1>1 DEF EngineInv, In, Orphaning, PcTypes, RunAt, RunInv, SaveTypes, Saving, SpawnInv,
     Spawning, TurnAt, Types
<1>2. CASE UNCHANGED vars
  BY <1>1, <1>2 DEF vars, child, procs, plan, seen
<1>3. CASE PersonDrops
  BY <1>1, <1>3 DEF PersonDrops, child, procs, seen
<1>4. ASSUME NEW r \in Run, Publish(r) PROVE EngineInv'
  BY <1>1, <1>4 DEF Publish, child, procs, seen
<1>5. CASE Spawn
  BY <1>5, Procs DEF Spawn, StartRun, SavesThen, Goes, EngineInv, Types, PcTypes, RunAt, TurnAt,
     SaveTypes, SpawnInv, Spawning, Orphaning, In, Saving, RunInv
<1>6. CASE Assign
  BY <1>6, Procs DEF Assign, child, seen, EngineInv, Types, PcTypes, RunAt, TurnAt, SaveTypes,
     SpawnInv, Spawning, Orphaning, In, Saving, RunInv
<1>7. CASE GiveNode
  BY <1>7, Procs DEF GiveNode, child, seen, EngineInv, Types, PcTypes, RunAt, TurnAt, SaveTypes,
     SpawnInv, Spawning, Orphaning, In, Saving, RunInv
<1>8. CASE GivenTell
  BY <1>8, Procs DEF GivenTell, StartRun, SavesThen, Goes, child, plan, EngineInv, Types,
     PcTypes, RunAt, TurnAt, SaveTypes, SpawnInv, Spawning, Orphaning, In, Saving, RunInv
<1>9. CASE QuitBegins
  BY <1>9, Procs DEF QuitBegins, plan, seen, EngineInv, Types, PcTypes, RunAt, TurnAt,
     SaveTypes, SpawnInv, Spawning, Orphaning, In, Saving, RunInv
<1>10. CASE QuitStops
  BY <1>10, Procs DEF QuitStops, Goes, plan, seen, EngineInv, Types, PcTypes, RunAt, TurnAt,
     SaveTypes, SpawnInv, Spawning, Orphaning, In, Saving, RunInv
<1>11. CASE QuitSettles
  BY <1>11, Procs DEF QuitSettles, SavesThen, Goes, plan, EngineInv, Types, PcTypes, RunAt,
     TurnAt, SaveTypes, SpawnInv, Spawning, Orphaning, In, Saving, RunInv
<1>12. CASE QuitEnds
  BY <1>12, Procs DEF QuitEnds, Goes, seen, EngineInv, Types, PcTypes, RunAt, TurnAt, SaveTypes,
     SpawnInv, Spawning, Orphaning, In, Saving, RunInv
<1>13. CASE ResumeBegins
  BY <1>13, Procs DEF ResumeBegins, Goes, child, plan, seen, EngineInv, Types, PcTypes, RunAt,
     TurnAt, SaveTypes, SpawnInv, Spawning, Orphaning, In, Saving, RunInv
<1>14. CASE ResumeSets
  BY <1>14, Procs DEF ResumeSets, SavesThen, Goes, plan, EngineInv, Types, PcTypes, RunAt,
     TurnAt, SaveTypes, SpawnInv, Spawning, Orphaning, In, Saving, RunInv
<1>15. CASE ResumeFails
  BY <1>15, Procs DEF ResumeFails, Goes, child, plan, seen, EngineInv, Types, PcTypes, RunAt,
     TurnAt, SaveTypes, SpawnInv, Spawning, Orphaning, In, Saving, RunInv
<1>16. ASSUME NEW r \in Run, WorkEnds(r) PROVE EngineInv'
  BY <1>16, Procs DEF WorkEnds, Goes, child, plan, seen, EngineInv, Types, PcTypes, RunAt,
     TurnAt, SaveTypes, SpawnInv, Spawning, Orphaning, In, Saving, RunInv
<1>17. ASSUME NEW r \in Run, Settles(r) PROVE EngineInv'
  BY <1>17, Procs DEF Settles, SavesThen, Goes, plan, EngineInv, Types, PcTypes, RunAt, TurnAt,
     SaveTypes, SpawnInv, Spawning, Orphaning, In, Saving, RunInv
<1>18. ASSUME NEW r \in Run, Reports(r) PROVE EngineInv'
  BY <1>18, Procs DEF Reports, Goes, child, plan, EngineInv, Types, PcTypes, RunAt, TurnAt,
     SaveTypes, SpawnInv, Spawning, Orphaning, In, Saving, RunInv
<1>19. ASSUME NEW r \in Run, Done(r) PROVE EngineInv'
  BY <1>19, Procs DEF Done, Goes, plan, seen, EngineInv, Types, PcTypes, RunAt, TurnAt,
     SaveTypes, SpawnInv, Spawning, Orphaning, In, Saving, RunInv
<1>20. CASE CloseMarks
  BY <1>20, Procs DEF CloseMarks, procs, plan, EngineInv, Types, PcTypes, RunAt, TurnAt,
     SaveTypes, SpawnInv, Spawning, Orphaning, In, Saving, RunInv
<1>21. CASE CloseStops
  BY <1>21, Procs DEF CloseStops, procs, plan, seen, EngineInv, Types, PcTypes, RunAt, TurnAt,
     SaveTypes, SpawnInv, Spawning, Orphaning, In, Saving, RunInv
<1>22. CASE CloseDrops
  BY <1>22, Procs DEF CloseDrops, procs, plan, seen, EngineInv, Types, PcTypes, RunAt, TurnAt,
     SaveTypes, SpawnInv, Spawning, Orphaning, In, Saving, RunInv
<1>23. CASE Exits
  BY <1>23, Procs DEF Exits, Gone, EngineInv, Types, PcTypes, RunAt, TurnAt, SaveTypes,
     SpawnInv, Spawning, Orphaning, In, Saving, RunInv
<1>24. CASE Restore
  BY <1>24, Procs DEF Restore, plan, EngineInv, Types, PcTypes, RunAt, TurnAt, SaveTypes,
     SpawnInv, Spawning, Orphaning, In, Saving, RunInv
<1>25. CASE Orphans
  BY <1>25, Procs DEF Orphans, Goes, child, seen, EngineInv, Types, PcTypes, RunAt, TurnAt,
     SaveTypes, SpawnInv, Spawning, Orphaning, In, Saving, RunInv
<1>26. ASSUME NEW q \in {Turn, Input}, Tell(q) PROVE EngineInv'
  BY <1>26, Procs DEF Tell, StartRun, SavesThen, Goes, Lives, plan, EngineInv, Types, PcTypes,
     RunAt, TurnAt, SaveTypes, SpawnInv, Spawning, Orphaning, In, Saving, RunInv
<1>27. ASSUME NEW q \in {Turn, Input}, Go(q) PROVE EngineInv'
  BY <1>27, Procs DEF Go, child, plan, seen, EngineInv, Types, PcTypes, RunAt, TurnAt,
     SaveTypes, SpawnInv, Spawning, Orphaning, In, Saving, RunInv
<1>28. ASSUME NEW q \in Proc, Snapshot(q) PROVE EngineInv'
  BY <1>28, Procs DEF Snapshot, Goes, child, plan, seen, EngineInv, Types, PcTypes, RunAt,
     TurnAt, SaveTypes, SpawnInv, Spawning, Orphaning, In, Saving, RunInv
<1>29. ASSUME NEW q \in Proc, Writes(q) PROVE EngineInv'
  BY <1>29, Procs DEF Writes, Goes, child, plan, seen, EngineInv, Types, PcTypes, RunAt, TurnAt,
     SaveTypes, SpawnInv, Spawning, Orphaning, In, Saving, RunInv
<1> QED
  BY <1>1, <1>2, <1>3, <1>4, <1>5, <1>6, <1>7, <1>8, <1>9, <1>10, <1>11, <1>12, <1>13, <1>14,
     <1>15, <1>16, <1>17, <1>18, <1>19, <1>20, <1>21, <1>22, <1>23, <1>24, <1>25, <1>26, <1>27,
     <1>28, <1>29 DEF Next, TurnSteps, RunSteps, EngineSteps

\* A child that is spawned waits for its node, and stays as it is.
LEMMA SpawnInvP ==
  ASSUME Types, SaveTypes, PcTypes, RunInv, EngineInv, SpawnInv, HasInv, WriteInv, [Next]_vars
  PROVE  SpawnInv'
<1>1. ASSUME UNCHANGED <<state, runs, has, cur, pc, then>> PROVE SpawnInv'
  BY <1>1 DEF EngineInv, In, PcTypes, RunAt, RunInv, SaveTypes, Saving, SpawnInv, Spawning,
     TurnAt, Types
<1>2. CASE UNCHANGED vars
  BY <1>1, <1>2 DEF vars, child, procs, plan, seen
<1>3. CASE CloseMarks \/ CloseStops \/ PersonDrops
  BY <1>1, <1>3 DEF CloseMarks, procs, plan, CloseStops, seen, PersonDrops, child
<1>4. ASSUME NEW r \in Run, Publish(r) PROVE SpawnInv'
  BY <1>1, <1>4 DEF Publish, child, procs, seen
<1>5. CASE Spawn
  BY <1>5, Procs DEF Spawn, StartRun, SavesThen, Goes, SpawnInv, Types, PcTypes, RunAt, TurnAt,
     SaveTypes, Spawning, In, Saving, EngineInv, RunInv
<1>6. CASE Assign
  BY <1>6, Procs DEF Assign, child, seen, SpawnInv, Types, PcTypes, RunAt, TurnAt, SaveTypes,
     Spawning, In, Saving, EngineInv, RunInv
<1>7. CASE GiveNode
  BY <1>7, Procs DEF GiveNode, child, seen, SpawnInv, Types, PcTypes, RunAt, TurnAt, SaveTypes,
     Spawning, In, Saving, EngineInv, RunInv
<1>8. CASE GivenTell
  BY <1>8, Procs DEF GivenTell, StartRun, SavesThen, Goes, child, plan, SpawnInv, Types,
     PcTypes, RunAt, TurnAt, SaveTypes, Spawning, In, Saving, EngineInv, RunInv
<1>9. CASE QuitBegins
  BY <1>9, Procs DEF QuitBegins, plan, seen, SpawnInv, Types, PcTypes, RunAt, TurnAt, SaveTypes,
     Spawning, In, Saving, EngineInv, RunInv
<1>10. CASE QuitStops
  BY <1>10, Procs DEF QuitStops, Goes, plan, seen, SpawnInv, Types, PcTypes, RunAt, TurnAt,
     SaveTypes, Spawning, In, Saving, EngineInv, RunInv
<1>11. CASE QuitSettles
  BY <1>11, Procs DEF QuitSettles, SavesThen, Goes, plan, SpawnInv, Types, PcTypes, RunAt,
     TurnAt, SaveTypes, Spawning, In, Saving, EngineInv, RunInv
<1>12. CASE QuitEnds
  BY <1>12, Procs DEF QuitEnds, Goes, seen, SpawnInv, Types, PcTypes, RunAt, TurnAt, SaveTypes,
     Spawning, In, Saving, EngineInv, RunInv
<1>13. CASE ResumeBegins
  BY <1>13, Procs DEF ResumeBegins, Goes, child, plan, seen, SpawnInv, Types, PcTypes, RunAt,
     TurnAt, SaveTypes, Spawning, In, Saving, EngineInv, RunInv
<1>14. CASE ResumeSets
  BY <1>14, Procs DEF ResumeSets, SavesThen, Goes, plan, SpawnInv, Types, PcTypes, RunAt,
     TurnAt, SaveTypes, Spawning, In, Saving, EngineInv, RunInv
<1>15. CASE ResumeFails
  BY <1>15, Procs DEF ResumeFails, Goes, child, plan, seen, SpawnInv, Types, PcTypes, RunAt,
     TurnAt, SaveTypes, Spawning, In, Saving, EngineInv, RunInv
<1>16. ASSUME NEW r \in Run, WorkEnds(r) PROVE SpawnInv'
  BY <1>16, Procs DEF WorkEnds, Goes, child, plan, seen, SpawnInv, Types, PcTypes, RunAt,
     TurnAt, SaveTypes, Spawning, In, Saving, EngineInv, RunInv
<1>17. ASSUME NEW r \in Run, Settles(r) PROVE SpawnInv'
  BY <1>17, Procs DEF Settles, SavesThen, Goes, plan, SpawnInv, Types, PcTypes, RunAt, TurnAt,
     SaveTypes, Spawning, In, Saving, EngineInv, RunInv
<1>18. ASSUME NEW r \in Run, Reports(r) PROVE SpawnInv'
  BY <1>18, Procs DEF Reports, Goes, child, plan, SpawnInv, Types, PcTypes, RunAt, TurnAt,
     SaveTypes, Spawning, In, Saving, EngineInv, RunInv
<1>19. ASSUME NEW r \in Run, Done(r) PROVE SpawnInv'
  BY <1>19, Procs DEF Done, Goes, plan, seen, SpawnInv, Types, PcTypes, RunAt, TurnAt,
     SaveTypes, Spawning, In, Saving, EngineInv, RunInv
<1>20. CASE CloseDrops
  BY <1>20, Procs DEF CloseDrops, procs, plan, seen, SpawnInv, Types, PcTypes, RunAt, TurnAt,
     SaveTypes, Spawning, In, Saving, EngineInv, RunInv
<1>21. CASE Exits
  BY <1>21, Procs DEF Exits, Gone, SpawnInv, Types, PcTypes, RunAt, TurnAt, SaveTypes, Spawning,
     In, Saving, EngineInv, RunInv
<1>22. CASE Restore
  BY <1>22, Procs DEF Restore, plan, SpawnInv, Types, PcTypes, RunAt, TurnAt, SaveTypes,
     Spawning, In, Saving, EngineInv, RunInv
<1>23. CASE Orphans
  BY <1>23, Procs DEF Orphans, Goes, child, seen, SpawnInv, Types, PcTypes, RunAt, TurnAt,
     SaveTypes, Spawning, In, Saving, EngineInv, RunInv
<1>24. ASSUME NEW q \in {Turn, Input}, Tell(q) PROVE SpawnInv'
  BY <1>24, Procs DEF Tell, StartRun, SavesThen, Goes, Lives, plan, SpawnInv, Types, PcTypes,
     RunAt, TurnAt, SaveTypes, Spawning, In, Saving, EngineInv, RunInv
<1>25. ASSUME NEW q \in {Turn, Input}, Go(q) PROVE SpawnInv'
  BY <1>25, Procs DEF Go, child, plan, seen, SpawnInv, Types, PcTypes, RunAt, TurnAt, SaveTypes,
     Spawning, In, Saving, EngineInv, RunInv
<1>26. ASSUME NEW q \in Proc, Snapshot(q) PROVE SpawnInv'
  BY <1>26, Procs DEF Snapshot, Goes, child, plan, seen, SpawnInv, Types, PcTypes, RunAt,
     TurnAt, SaveTypes, Spawning, In, Saving, EngineInv, RunInv
<1>27. ASSUME NEW q \in Proc, Writes(q) PROVE SpawnInv'
  BY <1>27, Procs DEF Writes, Goes, child, plan, seen, SpawnInv, Types, PcTypes, RunAt, TurnAt,
     SaveTypes, Spawning, In, Saving, EngineInv, RunInv
<1> QED
  BY <1>1, <1>2, <1>3, <1>4, <1>5, <1>6, <1>7, <1>8, <1>9, <1>10, <1>11, <1>12, <1>13, <1>14,
     <1>15, <1>16, <1>17, <1>18, <1>19, <1>20, <1>21, <1>22, <1>23, <1>24, <1>25, <1>26, <1>27
     DEF Next, TurnSteps, RunSteps, EngineSteps

\* A run that works and was not canceled is the current one.
LEMMA OneInvP ==
  ASSUME Types, SaveTypes, PcTypes, RunInv, EngineInv, SpawnInv, OneInv, StopInv, HasInv,
         [Next]_vars
  PROVE  OneInv'
<1>1. ASSUME UNCHANGED <<late, canceled, pc, then, runs, cur, state>> PROVE OneInv'
  BY <1>1 DEF Active, In, OneInv, PcTypes, RunAt, RunInv, SaveTypes, Saving, SpawnInv, Spawning,
     TurnAt, Types, Waits
<1>2. CASE UNCHANGED vars
  BY <1>1, <1>2 DEF vars, child, procs, plan, seen
<1>3. CASE CloseMarks \/ CloseDrops \/ PersonDrops
  BY <1>1, <1>3 DEF CloseMarks, procs, plan, CloseDrops, seen, PersonDrops, child
<1>4. ASSUME NEW r \in Run, Publish(r) PROVE OneInv'
  BY <1>1, <1>4 DEF Publish, child, procs, seen
<1>5. CASE Spawn
  BY <1>5, Procs DEF Spawn, StartRun, SavesThen, Goes, OneInv, Active, Waits, Types, PcTypes,
     RunAt, TurnAt, SaveTypes, Spawning, In, Saving, RunInv, SpawnInv
<1>6. CASE Assign
  BY <1>6, Procs DEF Assign, child, seen, OneInv, Active, Waits, Types, PcTypes, RunAt, TurnAt,
     SaveTypes, Spawning, In, Saving, RunInv, SpawnInv
<1>7. CASE GiveNode
  BY <1>7, Procs DEF GiveNode, child, seen, OneInv, Active, Waits, Types, PcTypes, RunAt,
     TurnAt, SaveTypes, Spawning, In, Saving, RunInv, SpawnInv
<1>8. CASE GivenTell
  BY <1>8, Procs DEF GivenTell, StartRun, SavesThen, Goes, child, plan, OneInv, Active, Waits,
     Types, PcTypes, RunAt, TurnAt, SaveTypes, Spawning, In, Saving, RunInv, SpawnInv
<1>9. CASE QuitBegins
  BY <1>9, Procs DEF QuitBegins, plan, seen, OneInv, Active, Waits, Types, PcTypes, RunAt,
     TurnAt, SaveTypes, Spawning, In, Saving, RunInv, SpawnInv
<1>10. CASE QuitStops
  BY <1>10, Procs DEF QuitStops, Goes, plan, seen, OneInv, Active, Waits, Types, PcTypes, RunAt,
     TurnAt, SaveTypes, Spawning, In, Saving, RunInv, SpawnInv
<1>11. CASE QuitSettles
  BY <1>11, Procs DEF QuitSettles, SavesThen, Goes, plan, OneInv, Active, Waits, StopInv,
     Stopped, Leaving, Types, PcTypes, RunAt, TurnAt, SaveTypes, Spawning, In, Saving, RunInv,
     SpawnInv
<1>12. CASE QuitEnds
  BY <1>12, Procs DEF QuitEnds, Goes, seen, OneInv, Active, Waits, Types, PcTypes, RunAt,
     TurnAt, SaveTypes, Spawning, In, Saving, RunInv, SpawnInv
<1>13. CASE ResumeBegins
  BY <1>13, Procs DEF ResumeBegins, Goes, child, plan, seen, OneInv, Active, Waits, Types,
     PcTypes, RunAt, TurnAt, SaveTypes, Spawning, In, Saving, RunInv, SpawnInv
<1>14. CASE ResumeSets
  BY <1>14, Procs DEF ResumeSets, SavesThen, Goes, plan, OneInv, Active, Waits, StopInv,
     Stopped, Leaving, Types, PcTypes, RunAt, TurnAt, SaveTypes, Spawning, In, Saving, RunInv,
     SpawnInv
<1>15. CASE ResumeFails
  BY <1>15, Procs DEF ResumeFails, Goes, child, plan, seen, OneInv, Active, Waits, Types,
     PcTypes, RunAt, TurnAt, SaveTypes, Spawning, In, Saving, RunInv, SpawnInv
<1>16. ASSUME NEW r \in Run, WorkEnds(r) PROVE OneInv'
  BY <1>16, Procs DEF WorkEnds, Goes, child, plan, seen, OneInv, Active, Waits, Types, PcTypes,
     RunAt, TurnAt, SaveTypes, Spawning, In, Saving, RunInv, SpawnInv
<1>17. ASSUME NEW r \in Run, Settles(r) PROVE OneInv'
  BY <1>17, Procs DEF Settles, SavesThen, Goes, plan, OneInv, Active, Waits, Types, PcTypes,
     RunAt, TurnAt, SaveTypes, Spawning, In, Saving, RunInv, SpawnInv
<1>18. ASSUME NEW r \in Run, Reports(r) PROVE OneInv'
  BY <1>18, Procs DEF Reports, Goes, child, plan, OneInv, Active, Waits, Types, PcTypes, RunAt,
     TurnAt, SaveTypes, Spawning, In, Saving, RunInv, SpawnInv
<1>19. ASSUME NEW r \in Run, Done(r) PROVE OneInv'
  BY <1>19, Procs DEF Done, Goes, plan, seen, OneInv, Active, Waits, Types, PcTypes, RunAt,
     TurnAt, SaveTypes, Spawning, In, Saving, RunInv, SpawnInv
<1>20. CASE CloseStops
  BY <1>20, Procs DEF CloseStops, procs, plan, seen, OneInv, Active, Waits, Types, PcTypes,
     RunAt, TurnAt, SaveTypes, Spawning, In, Saving, RunInv, SpawnInv
<1>21. CASE Exits
  BY <1>21, Procs DEF Exits, Gone, OneInv, Active, Waits, Types, PcTypes, RunAt, TurnAt,
     SaveTypes, Spawning, In, Saving, RunInv, SpawnInv
<1>22. CASE Restore
  BY <1>22, Procs DEF Restore, plan, OneInv, Active, Waits, EngineInv, Types, PcTypes, RunAt,
     TurnAt, SaveTypes, Spawning, In, Saving, RunInv, SpawnInv
<1>23. CASE Orphans
  BY <1>23, Procs DEF Orphans, Goes, child, seen, OneInv, Active, Waits, Types, PcTypes, RunAt,
     TurnAt, SaveTypes, Spawning, In, Saving, RunInv, SpawnInv
<1>24. ASSUME NEW q \in {Turn, Input}, Tell(q) PROVE OneInv'
  BY <1>24, Procs DEF Tell, StartRun, SavesThen, Goes, Lives, plan, OneInv, Active, Waits,
     Types, PcTypes, RunAt, TurnAt, SaveTypes, Spawning, In, Saving, RunInv, SpawnInv
<1>25. ASSUME NEW q \in {Turn, Input}, Go(q) PROVE OneInv'
  <2>1. PICK r \in 2..runs : pc[r] = "rest" /\ pc' = [pc EXCEPT ![q] = "rest", ![r] = "works"]
    BY <1>25 DEF Go
  <2>2. r \in Run
    BY AgentsAssumption DEF Types, Run
  <2>3. /\ pc'[q] = "rest" /\ pc'[r] = "works" /\ \A o \in Proc \ {q, r} : pc'[o] = pc[o]
        /\ DOMAIN pc' = Proc /\ q \in Proc /\ q \notin Run /\ pc[q] = "go"
    BY <1>25, <2>1, <2>2, Procs DEF Go, PcTypes
  <2> QED
    BY <1>25, <2>1, <2>2, <2>3, Procs DEF Go, child, plan, seen, OneInv, Active, Waits, Spawning,
       In, Saving
<1>26. ASSUME NEW q \in Proc, Snapshot(q) PROVE OneInv'
  BY <1>26, Procs DEF Snapshot, Goes, child, plan, seen, OneInv, Active, Waits, Types, PcTypes,
     RunAt, TurnAt, SaveTypes, Spawning, In, Saving, RunInv, SpawnInv
<1>27. ASSUME NEW q \in Proc, Writes(q) PROVE OneInv'
  BY <1>27, Procs DEF Writes, Goes, child, plan, seen, OneInv, Active, Waits, Types, PcTypes,
     RunAt, TurnAt, SaveTypes, Spawning, In, Saving, RunInv, SpawnInv
<1> QED
  BY <1>1, <1>2, <1>3, <1>4, <1>5, <1>6, <1>7, <1>8, <1>9, <1>10, <1>11, <1>12, <1>13, <1>14,
     <1>15, <1>16, <1>17, <1>18, <1>19, <1>20, <1>21, <1>22, <1>23, <1>24, <1>25, <1>26, <1>27
     DEF Next, TurnSteps, RunSteps, EngineSteps

\* Nobody works for a child that was dismissed.
LEMMA StopInvP ==
  ASSUME Types, SaveTypes, PcTypes, RunInv, EngineInv, SpawnInv, OneInv, StopInv, HasInv,
         [Next]_vars
  PROVE  StopInv'
<1>1. ASSUME UNCHANGED <<engine, late, has, canceled, pc, then, runs, cur, last, state>>
      PROVE  StopInv'
  BY <1>1 DEF Active, EngineInv, HasInv, In, Leaving, OneInv, Orphaning, PcTypes, RunAt, RunInv,
     SaveTypes, Saving, SpawnInv, Spawning, StopInv, Stopped, TurnAt, Types, Waits
<1>2. CASE UNCHANGED vars
  BY <1>1, <1>2 DEF vars, child, procs, plan, seen
<1>3. CASE PersonDrops
  BY <1>1, <1>3 DEF PersonDrops, child, procs, seen
<1>4. ASSUME NEW r \in Run, Publish(r) PROVE StopInv'
  BY <1>1, <1>4 DEF Publish, child, procs, seen
<1>5. CASE Spawn
  BY <1>5, Procs DEF Spawn, StartRun, SavesThen, Goes, StopInv, Stopped, Leaving, OneInv,
     Active, Waits, EngineInv, Orphaning, HasInv, Types, PcTypes, RunAt, TurnAt, SaveTypes,
     Spawning, In, Saving, RunInv, SpawnInv
<1>6. CASE Assign
  BY <1>6, Procs DEF Assign, child, seen, StopInv, Stopped, Leaving, OneInv, Active, Waits,
     EngineInv, Orphaning, HasInv, Types, PcTypes, RunAt, TurnAt, SaveTypes, Spawning, In,
     Saving, RunInv, SpawnInv
<1>7. CASE GiveNode
  BY <1>7, Procs DEF GiveNode, child, seen, StopInv, Stopped, Leaving, OneInv, Active, Waits,
     EngineInv, Orphaning, HasInv, Types, PcTypes, RunAt, TurnAt, SaveTypes, Spawning, In,
     Saving, RunInv, SpawnInv
<1>8. CASE GivenTell
  BY <1>8, Procs DEF GivenTell, StartRun, SavesThen, Goes, child, plan, StopInv, Stopped,
     Leaving, OneInv, Active, Waits, EngineInv, Orphaning, HasInv, Types, PcTypes, RunAt,
     TurnAt, SaveTypes, Spawning, In, Saving, RunInv, SpawnInv
<1>9. CASE QuitBegins
  BY <1>9, Procs DEF QuitBegins, plan, seen, StopInv, Stopped, Leaving, OneInv, Active, Waits,
     EngineInv, Orphaning, HasInv, Types, PcTypes, RunAt, TurnAt, SaveTypes, Spawning, In,
     Saving, RunInv, SpawnInv
<1>10. CASE QuitStops
  BY <1>10, Procs DEF QuitStops, Goes, plan, seen, StopInv, Stopped, Leaving, OneInv, Active,
     Waits, EngineInv, Orphaning, HasInv, Types, PcTypes, RunAt, TurnAt, SaveTypes, Spawning,
     In, Saving, RunInv, SpawnInv
<1>11. CASE QuitSettles
  BY <1>11, Procs DEF QuitSettles, SavesThen, Goes, plan, StopInv, Stopped, Leaving, OneInv,
     Active, Waits, EngineInv, Orphaning, HasInv, Types, PcTypes, RunAt, TurnAt, SaveTypes,
     Spawning, In, Saving, RunInv, SpawnInv
<1>12. CASE QuitEnds
  BY <1>12, Procs DEF QuitEnds, Goes, seen, StopInv, Stopped, Leaving, OneInv, Active, Waits,
     EngineInv, Orphaning, HasInv, Types, PcTypes, RunAt, TurnAt, SaveTypes, Spawning, In,
     Saving, RunInv, SpawnInv
<1>13. CASE ResumeBegins
  BY <1>13, Procs DEF ResumeBegins, Goes, child, plan, seen, StopInv, Stopped, Leaving, OneInv,
     Active, Waits, EngineInv, Orphaning, HasInv, Types, PcTypes, RunAt, TurnAt, SaveTypes,
     Spawning, In, Saving, RunInv, SpawnInv
<1>14. CASE ResumeSets
  BY <1>14, Procs DEF ResumeSets, SavesThen, Goes, plan, StopInv, Stopped, Leaving, OneInv,
     Active, Waits, EngineInv, Orphaning, HasInv, Types, PcTypes, RunAt, TurnAt, SaveTypes,
     Spawning, In, Saving, RunInv, SpawnInv
<1>15. CASE ResumeFails
  BY <1>15, Procs DEF ResumeFails, Goes, child, plan, seen, StopInv, Stopped, Leaving, OneInv,
     Active, Waits, EngineInv, Orphaning, HasInv, Types, PcTypes, RunAt, TurnAt, SaveTypes,
     Spawning, In, Saving, RunInv, SpawnInv
<1>16. ASSUME NEW r \in Run, WorkEnds(r) PROVE StopInv'
  BY <1>16, Procs DEF WorkEnds, Goes, child, plan, seen, StopInv, Stopped, Leaving, OneInv,
     Active, Waits, EngineInv, Orphaning, HasInv, Types, PcTypes, RunAt, TurnAt, SaveTypes,
     Spawning, In, Saving, RunInv, SpawnInv
<1>17. ASSUME NEW r \in Run, Settles(r) PROVE StopInv'
  BY <1>17, Procs DEF Settles, SavesThen, Goes, plan, StopInv, Stopped, Leaving, OneInv, Active,
     Waits, EngineInv, Orphaning, HasInv, Types, PcTypes, RunAt, TurnAt, SaveTypes, Spawning,
     In, Saving, RunInv, SpawnInv
<1>18. ASSUME NEW r \in Run, Reports(r) PROVE StopInv'
  BY <1>18, Procs DEF Reports, Goes, child, plan, StopInv, Stopped, Leaving, OneInv, Active,
     Waits, EngineInv, Orphaning, HasInv, Types, PcTypes, RunAt, TurnAt, SaveTypes, Spawning,
     In, Saving, RunInv, SpawnInv
<1>19. ASSUME NEW r \in Run, Done(r) PROVE StopInv'
  BY <1>19, Procs DEF Done, Goes, plan, seen, StopInv, Stopped, Leaving, OneInv, Active, Waits,
     EngineInv, Orphaning, HasInv, Types, PcTypes, RunAt, TurnAt, SaveTypes, Spawning, In,
     Saving, RunInv, SpawnInv
<1>20. CASE CloseMarks
  BY <1>20, Procs DEF CloseMarks, procs, plan, StopInv, Stopped, Leaving, OneInv, Active, Waits,
     EngineInv, Orphaning, HasInv, Types, PcTypes, RunAt, TurnAt, SaveTypes, Spawning, In,
     Saving, RunInv, SpawnInv
<1>21. CASE CloseStops
  BY <1>21, Procs DEF CloseStops, procs, plan, seen, StopInv, Stopped, Leaving, OneInv, Active,
     Waits, EngineInv, Orphaning, HasInv, Types, PcTypes, RunAt, TurnAt, SaveTypes, Spawning,
     In, Saving, RunInv, SpawnInv
<1>22. CASE CloseDrops
  BY <1>22, Procs DEF CloseDrops, procs, plan, seen, StopInv, Stopped, Leaving, OneInv, Active,
     Waits, EngineInv, Orphaning, HasInv, Types, PcTypes, RunAt, TurnAt, SaveTypes, Spawning,
     In, Saving, RunInv, SpawnInv
<1>23. CASE Exits
  BY <1>23, Procs DEF Exits, Gone, StopInv, Stopped, Leaving, OneInv, Active, Waits, EngineInv,
     Orphaning, HasInv, Types, PcTypes, RunAt, TurnAt, SaveTypes, Spawning, In, Saving, RunInv,
     SpawnInv
<1>24. CASE Restore
  BY <1>24, Procs DEF Restore, plan, StopInv, Stopped, Leaving, OneInv, Active, Waits,
     EngineInv, Orphaning, HasInv, Types, PcTypes, RunAt, TurnAt, SaveTypes, Spawning, In,
     Saving, RunInv, SpawnInv
<1>25. CASE Orphans
  BY <1>25, Procs DEF Orphans, Goes, child, seen, StopInv, Stopped, Leaving, OneInv, Active,
     Waits, EngineInv, Orphaning, HasInv, Types, PcTypes, RunAt, TurnAt, SaveTypes, Spawning,
     In, Saving, RunInv, SpawnInv
<1>26. ASSUME NEW q \in {Turn, Input}, Tell(q) PROVE StopInv'
  BY <1>26, Procs DEF Tell, StartRun, SavesThen, Goes, Lives, plan, StopInv, Stopped, Leaving,
     OneInv, Active, Waits, EngineInv, Orphaning, HasInv, Types, PcTypes, RunAt, TurnAt,
     SaveTypes, Spawning, In, Saving, RunInv, SpawnInv
<1>27. ASSUME NEW q \in {Turn, Input}, Go(q) PROVE StopInv'
  BY <1>27, Procs DEF Go, child, plan, seen, StopInv, Stopped, Leaving, OneInv, Active, Waits,
     EngineInv, Orphaning, HasInv, Types, PcTypes, RunAt, TurnAt, SaveTypes, Spawning, In,
     Saving, RunInv, SpawnInv
<1>28. ASSUME NEW q \in Proc, Snapshot(q) PROVE StopInv'
  BY <1>28, Procs DEF Snapshot, Goes, child, plan, seen, StopInv, Stopped, Leaving, OneInv,
     Active, Waits, EngineInv, Orphaning, HasInv, Types, PcTypes, RunAt, TurnAt, SaveTypes,
     Spawning, In, Saving, RunInv, SpawnInv
<1>29. ASSUME NEW q \in Proc, Writes(q) PROVE StopInv'
  BY <1>29, Procs DEF Writes, Goes, child, plan, seen, StopInv, Stopped, Leaving, OneInv,
     Active, Waits, EngineInv, Orphaning, HasInv, Types, PcTypes, RunAt, TurnAt, SaveTypes,
     Spawning, In, Saving, RunInv, SpawnInv
<1> QED
  BY <1>1, <1>2, <1>3, <1>4, <1>5, <1>6, <1>7, <1>8, <1>9, <1>10, <1>11, <1>12, <1>13, <1>14,
     <1>15, <1>16, <1>17, <1>18, <1>19, <1>20, <1>21, <1>22, <1>23, <1>24, <1>25, <1>26, <1>27,
     <1>28, <1>29 DEF Next, TurnSteps, RunSteps, EngineSteps

\* A child has no harness while it is dismissed, and one that runs otherwise.
LEMMA HasInvP ==
  ASSUME Types, SaveTypes, PcTypes, RunInv, EngineInv, SpawnInv, OneInv, StopInv, HasInv,
         [Next]_vars
  PROVE  HasInv'
<1>1. ASSUME UNCHANGED <<engine, late, has, canceled, pc, then, runs, cur, last, state>>
      PROVE  HasInv'
  BY <1>1 DEF EngineInv, HasInv, In, Leaving, Orphaning, PcTypes, RunAt, RunInv, SaveTypes,
     Saving, SpawnInv, Spawning, StopInv, Stopped, TurnAt, Types
<1>2. CASE UNCHANGED vars
  BY <1>1, <1>2 DEF vars, child, procs, plan, seen
<1>3. CASE PersonDrops
  BY <1>1, <1>3 DEF PersonDrops, child, procs, seen
<1>4. ASSUME NEW r \in Run, Publish(r) PROVE HasInv'
  BY <1>1, <1>4 DEF Publish, child, procs, seen
<1>5. CASE Spawn
  BY <1>5, Procs DEF Spawn, StartRun, SavesThen, Goes, HasInv, Stopped, Leaving, StopInv,
     EngineInv, Orphaning, Types, PcTypes, RunAt, TurnAt, SaveTypes, Spawning, In, Saving,
     RunInv, SpawnInv
<1>6. CASE Assign
  BY <1>6, Procs DEF Assign, child, seen, HasInv, Stopped, Leaving, StopInv, EngineInv,
     Orphaning, Types, PcTypes, RunAt, TurnAt, SaveTypes, Spawning, In, Saving, RunInv, SpawnInv
<1>7. CASE GiveNode
  BY <1>7, Procs DEF GiveNode, child, seen, HasInv, Stopped, Leaving, StopInv, EngineInv,
     Orphaning, Types, PcTypes, RunAt, TurnAt, SaveTypes, Spawning, In, Saving, RunInv, SpawnInv
<1>8. CASE GivenTell
  BY <1>8, Procs DEF GivenTell, StartRun, SavesThen, Goes, child, plan, HasInv, Stopped,
     Leaving, StopInv, EngineInv, Orphaning, Types, PcTypes, RunAt, TurnAt, SaveTypes, Spawning,
     In, Saving, RunInv, SpawnInv
<1>9. CASE QuitBegins
  BY <1>9, Procs DEF QuitBegins, plan, seen, HasInv, Stopped, Leaving, StopInv, EngineInv,
     Orphaning, Types, PcTypes, RunAt, TurnAt, SaveTypes, Spawning, In, Saving, RunInv, SpawnInv
<1>10. CASE QuitStops
  BY <1>10, Procs DEF QuitStops, Goes, plan, seen, HasInv, Stopped, Leaving, StopInv, EngineInv,
     Orphaning, Types, PcTypes, RunAt, TurnAt, SaveTypes, Spawning, In, Saving, RunInv, SpawnInv
<1>11. CASE QuitSettles
  BY <1>11, Procs DEF QuitSettles, SavesThen, Goes, plan, HasInv, Stopped, Leaving, StopInv,
     EngineInv, Orphaning, Types, PcTypes, RunAt, TurnAt, SaveTypes, Spawning, In, Saving,
     RunInv, SpawnInv
<1>12. CASE QuitEnds
  BY <1>12, Procs DEF QuitEnds, Goes, seen, HasInv, Stopped, Leaving, StopInv, EngineInv,
     Orphaning, Types, PcTypes, RunAt, TurnAt, SaveTypes, Spawning, In, Saving, RunInv, SpawnInv
<1>13. CASE ResumeBegins
  BY <1>13, Procs DEF ResumeBegins, Goes, child, plan, seen, HasInv, Stopped, Leaving, StopInv,
     EngineInv, Orphaning, Types, PcTypes, RunAt, TurnAt, SaveTypes, Spawning, In, Saving,
     RunInv, SpawnInv
<1>14. CASE ResumeSets
  BY <1>14, Procs DEF ResumeSets, SavesThen, Goes, plan, HasInv, Stopped, Leaving, StopInv,
     EngineInv, Orphaning, Types, PcTypes, RunAt, TurnAt, SaveTypes, Spawning, In, Saving,
     RunInv, SpawnInv
<1>15. CASE ResumeFails
  BY <1>15, Procs DEF ResumeFails, Goes, child, plan, seen, HasInv, Stopped, Leaving, StopInv,
     EngineInv, Orphaning, Types, PcTypes, RunAt, TurnAt, SaveTypes, Spawning, In, Saving,
     RunInv, SpawnInv
<1>16. ASSUME NEW r \in Run, WorkEnds(r) PROVE HasInv'
  BY <1>16, Procs DEF WorkEnds, Goes, child, plan, seen, HasInv, Stopped, Leaving, StopInv,
     EngineInv, Orphaning, Types, PcTypes, RunAt, TurnAt, SaveTypes, Spawning, In, Saving,
     RunInv, SpawnInv
<1>17. ASSUME NEW r \in Run, Settles(r) PROVE HasInv'
  BY <1>17, Procs DEF Settles, SavesThen, Goes, plan, HasInv, Stopped, Leaving, StopInv,
     EngineInv, Orphaning, Types, PcTypes, RunAt, TurnAt, SaveTypes, Spawning, In, Saving,
     RunInv, SpawnInv
<1>18. ASSUME NEW r \in Run, Reports(r) PROVE HasInv'
  BY <1>18, Procs DEF Reports, Goes, child, plan, HasInv, Stopped, Leaving, StopInv, EngineInv,
     Orphaning, Types, PcTypes, RunAt, TurnAt, SaveTypes, Spawning, In, Saving, RunInv, SpawnInv
<1>19. ASSUME NEW r \in Run, Done(r) PROVE HasInv'
  BY <1>19, Procs DEF Done, Goes, plan, seen, HasInv, Stopped, Leaving, StopInv, EngineInv,
     Orphaning, Types, PcTypes, RunAt, TurnAt, SaveTypes, Spawning, In, Saving, RunInv, SpawnInv
<1>20. CASE CloseMarks
  BY <1>20, Procs DEF CloseMarks, procs, plan, HasInv, Stopped, Leaving, StopInv, EngineInv,
     Orphaning, Types, PcTypes, RunAt, TurnAt, SaveTypes, Spawning, In, Saving, RunInv, SpawnInv
<1>21. CASE CloseStops
  BY <1>21, Procs DEF CloseStops, procs, plan, seen, HasInv, Stopped, Leaving, StopInv,
     EngineInv, Orphaning, Types, PcTypes, RunAt, TurnAt, SaveTypes, Spawning, In, Saving,
     RunInv, SpawnInv
<1>22. CASE CloseDrops
  BY <1>22, Procs DEF CloseDrops, procs, plan, seen, HasInv, Stopped, Leaving, StopInv,
     EngineInv, Orphaning, Types, PcTypes, RunAt, TurnAt, SaveTypes, Spawning, In, Saving,
     RunInv, SpawnInv
<1>23. CASE Exits
  BY <1>23, Procs DEF Exits, Gone, HasInv, Stopped, Leaving, StopInv, EngineInv, Orphaning,
     Types, PcTypes, RunAt, TurnAt, SaveTypes, Spawning, In, Saving, RunInv, SpawnInv
<1>24. CASE Restore
  BY <1>24, Procs DEF Restore, plan, HasInv, Stopped, Leaving, StopInv, EngineInv, Orphaning,
     Types, PcTypes, RunAt, TurnAt, SaveTypes, Spawning, In, Saving, RunInv, SpawnInv
<1>25. CASE Orphans
  BY <1>25, Procs DEF Orphans, Goes, child, seen, HasInv, Stopped, Leaving, StopInv, EngineInv,
     Orphaning, Types, PcTypes, RunAt, TurnAt, SaveTypes, Spawning, In, Saving, RunInv, SpawnInv
<1>26. ASSUME NEW q \in {Turn, Input}, Tell(q) PROVE HasInv'
  BY <1>26, Procs DEF Tell, StartRun, SavesThen, Goes, Lives, plan, HasInv, Stopped, Leaving,
     StopInv, EngineInv, Orphaning, Types, PcTypes, RunAt, TurnAt, SaveTypes, Spawning, In,
     Saving, RunInv, SpawnInv
<1>27. ASSUME NEW q \in {Turn, Input}, Go(q) PROVE HasInv'
  <2>1. PICK r \in 2..runs : pc[r] = "rest" /\ pc' = [pc EXCEPT ![q] = "rest", ![r] = "works"]
    BY <1>27 DEF Go
  <2>2. r \in Run
    BY AgentsAssumption DEF Types, Run
  <2>3. /\ pc'[q] = "rest" /\ pc'[r] = "works" /\ \A o \in Proc \ {q, r} : pc'[o] = pc[o]
        /\ DOMAIN pc' = Proc /\ q \in Proc /\ q \notin Run /\ pc[q] = "go"
    BY <1>27, <2>1, <2>2, Procs DEF Go, PcTypes
  <2> QED
    BY <1>27, <2>1, <2>2, <2>3, Procs DEF Go, child, plan, seen, HasInv, Leaving, In, Saving
<1>28. ASSUME NEW q \in Proc, Snapshot(q) PROVE HasInv'
  BY <1>28, Procs DEF Snapshot, Goes, child, plan, seen, HasInv, Stopped, Leaving, StopInv,
     EngineInv, Orphaning, Types, PcTypes, RunAt, TurnAt, SaveTypes, Spawning, In, Saving,
     RunInv, SpawnInv
<1>29. ASSUME NEW q \in Proc, Writes(q) PROVE HasInv'
  BY <1>29, Procs DEF Writes, Goes, child, plan, seen, HasInv, Stopped, Leaving, StopInv,
     EngineInv, Orphaning, Types, PcTypes, RunAt, TurnAt, SaveTypes, Spawning, In, Saving,
     RunInv, SpawnInv
<1> QED
  BY <1>1, <1>2, <1>3, <1>4, <1>5, <1>6, <1>7, <1>8, <1>9, <1>10, <1>11, <1>12, <1>13, <1>14,
     <1>15, <1>16, <1>17, <1>18, <1>19, <1>20, <1>21, <1>22, <1>23, <1>24, <1>25, <1>26, <1>27,
     <1>28, <1>29 DEF Next, TurnSteps, RunSteps, EngineSteps

\* A waiter is released after the report.
LEMMA ShutInvP ==
  ASSUME Types, SaveTypes, PcTypes, RunInv, EngineInv, SpawnInv, StopInv, ShutInv, [Next]_vars
  PROVE  ShutInv'
<1>1. ASSUME UNCHANGED <<raced, late, shut, reported, canceled, last, pc>> PROVE ShutInv'
  BY <1>1 DEF EngineInv, In, Leaving, PcTypes, Run, RunAt, RunInv, Saving, Settling, ShutInv,
     StopInv, Stopped, Types
<1>2. CASE UNCHANGED vars
  BY <1>1, <1>2 DEF vars, child, procs, plan, seen
<1>3. CASE CloseMarks \/ CloseDrops \/ PersonDrops
  BY <1>1, <1>3 DEF CloseMarks, procs, plan, CloseDrops, seen, PersonDrops, child
<1>4. ASSUME NEW r \in Run, Publish(r) PROVE ShutInv'
  BY <1>1, <1>4 DEF Publish, child, procs, seen
<1>5. CASE Spawn
  BY <1>5, Procs DEF Spawn, StartRun, SavesThen, Goes, ShutInv, Settling, StopInv, Stopped,
     Leaving, RunInv, Types, PcTypes, RunAt, In, Saving, Run, EngineInv
<1>6. CASE Assign
  BY <1>6, Procs DEF Assign, child, seen, ShutInv, Settling, StopInv, Stopped, Leaving, RunInv,
     Types, PcTypes, RunAt, In, Saving, Run, EngineInv
<1>7. CASE GiveNode
  BY <1>7, Procs DEF GiveNode, child, seen, ShutInv, Settling, StopInv, Stopped, Leaving,
     RunInv, Types, PcTypes, RunAt, In, Saving, Run, EngineInv
<1>8. CASE GivenTell
  BY <1>8, Procs DEF GivenTell, StartRun, SavesThen, Goes, child, plan, ShutInv, Settling,
     StopInv, Stopped, Leaving, RunInv, Types, PcTypes, RunAt, In, Saving, Run, EngineInv
<1>9. CASE QuitBegins
  BY <1>9, Procs DEF QuitBegins, plan, seen, ShutInv, Settling, StopInv, Stopped, Leaving,
     RunInv, Types, PcTypes, RunAt, In, Saving, Run, EngineInv
<1>10. CASE QuitStops
  BY <1>10, Procs DEF QuitStops, Goes, plan, seen, ShutInv, Settling, StopInv, Stopped, Leaving,
     RunInv, Types, PcTypes, RunAt, In, Saving, Run, EngineInv
<1>11. CASE QuitSettles
  BY <1>11, Procs DEF QuitSettles, SavesThen, Goes, plan, ShutInv, Settling, StopInv, Stopped,
     Leaving, RunInv, Types, PcTypes, RunAt, In, Saving, Run, EngineInv
<1>12. CASE QuitEnds
  BY <1>12, Procs DEF QuitEnds, Goes, seen, ShutInv, Settling, StopInv, Stopped, Leaving,
     RunInv, Types, PcTypes, RunAt, In, Saving, Run, EngineInv
<1>13. CASE ResumeBegins
  BY <1>13, Procs DEF ResumeBegins, Goes, child, plan, seen, ShutInv, Settling, StopInv,
     Stopped, Leaving, RunInv, Types, PcTypes, RunAt, In, Saving, Run, EngineInv
<1>14. CASE ResumeSets
  BY <1>14, Procs DEF ResumeSets, SavesThen, Goes, plan, ShutInv, Settling, StopInv, Stopped,
     Leaving, RunInv, Types, PcTypes, RunAt, In, Saving, Run, EngineInv
<1>15. CASE ResumeFails
  BY <1>15, Procs DEF ResumeFails, Goes, child, plan, seen, ShutInv, Settling, StopInv, Stopped,
     Leaving, RunInv, Types, PcTypes, RunAt, In, Saving, Run, EngineInv
<1>16. ASSUME NEW r \in Run, WorkEnds(r) PROVE ShutInv'
  BY <1>16, Procs DEF WorkEnds, Goes, child, plan, seen, ShutInv, Settling, StopInv, Stopped,
     Leaving, RunInv, Types, PcTypes, RunAt, In, Saving, Run, EngineInv
<1>17. ASSUME NEW r \in Run, Settles(r) PROVE ShutInv'
  BY <1>17, Procs DEF Settles, SavesThen, Goes, plan, ShutInv, Settling, StopInv, Stopped,
     Leaving, RunInv, Types, PcTypes, RunAt, In, Saving, Run, EngineInv
<1>18. ASSUME NEW r \in Run, Reports(r) PROVE ShutInv'
  BY <1>18, Procs DEF Reports, Goes, child, plan, ShutInv, Settling, StopInv, Stopped, Leaving,
     RunInv, Types, PcTypes, RunAt, In, Saving, Run, EngineInv
<1>19. ASSUME NEW r \in Run, Done(r) PROVE ShutInv'
  BY <1>19, Procs DEF Done, Goes, plan, seen, ShutInv, Settling, StopInv, Stopped, Leaving,
     RunInv, Types, PcTypes, RunAt, In, Saving, Run, EngineInv
<1>20. CASE CloseStops
  BY <1>20, Procs DEF CloseStops, procs, plan, seen, ShutInv, Settling, StopInv, Stopped,
     Leaving, RunInv, Types, PcTypes, RunAt, In, Saving, Run, EngineInv
<1>21. CASE Exits
  BY <1>21, Procs DEF Exits, Gone, ShutInv, Settling, StopInv, Stopped, Leaving, RunInv, Types,
     PcTypes, RunAt, In, Saving, Run, EngineInv
<1>22. CASE Restore
  BY <1>22, Procs DEF Restore, plan, ShutInv, Settling, StopInv, Stopped, Leaving, RunInv,
     Types, PcTypes, RunAt, In, Saving, Run, EngineInv
<1>23. CASE Orphans
  BY <1>23, Procs DEF Orphans, Goes, child, seen, ShutInv, Settling, StopInv, Stopped, Leaving,
     RunInv, Types, PcTypes, RunAt, In, Saving, Run, EngineInv
<1>24. ASSUME NEW q \in {Turn, Input}, Tell(q) PROVE ShutInv'
  BY <1>24, Procs DEF Tell, StartRun, SavesThen, Goes, Lives, plan, ShutInv, Settling, StopInv,
     Stopped, Leaving, RunInv, Types, PcTypes, RunAt, In, Saving, Run, EngineInv
<1>25. ASSUME NEW q \in {Turn, Input}, Go(q) PROVE ShutInv'
  BY <1>25, Procs DEF Go, child, plan, seen, ShutInv, Settling, StopInv, Stopped, Leaving,
     RunInv, Types, PcTypes, RunAt, In, Saving, Run, EngineInv
<1>26. ASSUME NEW q \in Proc, Snapshot(q) PROVE ShutInv'
  BY <1>26, Procs DEF Snapshot, Goes, child, plan, seen, ShutInv, Settling, StopInv, Stopped,
     Leaving, RunInv, Types, PcTypes, RunAt, In, Saving, Run, EngineInv
<1>27. ASSUME NEW q \in Proc, Writes(q) PROVE ShutInv'
  BY <1>27, Procs DEF Writes, Goes, child, plan, seen, ShutInv, Settling, StopInv, Stopped,
     Leaving, RunInv, Types, PcTypes, RunAt, In, Saving, Run, EngineInv
<1> QED
  BY <1>1, <1>2, <1>3, <1>4, <1>5, <1>6, <1>7, <1>8, <1>9, <1>10, <1>11, <1>12, <1>13, <1>14,
     <1>15, <1>16, <1>17, <1>18, <1>19, <1>20, <1>21, <1>22, <1>23, <1>24, <1>25, <1>26, <1>27
     DEF Next, TurnSteps, RunSteps, EngineSteps

\* What is being written is the state.
LEMMA WriteInvP ==
  ASSUME Types, SaveTypes, PcTypes, RunInv, EngineInv, SpawnInv, WriteInv, [Next]_vars
  PROVE  WriteInv'
<1>1. ASSUME UNCHANGED <<state, pc, snap, raced>> PROVE WriteInv'
  BY <1>1 DEF EngineInv, PcTypes, RunInv, SaveTypes, Saved, Saving, Settling, Types, WriteInv
<1>2. CASE UNCHANGED vars
  BY <1>1, <1>2 DEF vars, child, procs, plan, seen
<1>3. CASE CloseMarks \/ CloseStops \/ CloseDrops \/ PersonDrops
  BY <1>1, <1>3 DEF CloseMarks, procs, plan, CloseStops, seen, CloseDrops, PersonDrops, child
<1>4. ASSUME NEW r \in Run, Publish(r) PROVE WriteInv'
  BY <1>1, <1>4 DEF Publish, child, procs, seen
<1>5. CASE Spawn
  BY <1>5, Procs DEF Spawn, StartRun, SavesThen, Goes, WriteInv, Saved, Saving, Settling,
     SaveTypes, PcTypes, RunInv, EngineInv, Types
<1>6. CASE Assign
  BY <1>6, Procs DEF Assign, child, seen, WriteInv, Saved, Saving, Settling, SaveTypes, PcTypes,
     RunInv, EngineInv, Types
<1>7. CASE GiveNode
  BY <1>7, Procs DEF GiveNode, child, seen, WriteInv, Saved, Saving, Settling, SaveTypes,
     PcTypes, RunInv, EngineInv, Types
<1>8. CASE GivenTell
  BY <1>8, Procs DEF GivenTell, StartRun, SavesThen, Goes, child, plan, WriteInv, Saved, Saving,
     Settling, SaveTypes, PcTypes, RunInv, EngineInv, Types
<1>9. CASE QuitBegins
  BY <1>9, Procs DEF QuitBegins, plan, seen, WriteInv, Saved, Saving, Settling, SaveTypes,
     PcTypes, RunInv, EngineInv, Types
<1>10. CASE QuitStops
  BY <1>10, Procs DEF QuitStops, Goes, plan, seen, WriteInv, Saved, Saving, Settling, SaveTypes,
     PcTypes, RunInv, EngineInv, Types
<1>11. CASE QuitSettles
  BY <1>11, Procs DEF QuitSettles, SavesThen, Goes, plan, WriteInv, Saved, Saving, Settling,
     SaveTypes, PcTypes, RunInv, EngineInv, Types
<1>12. CASE QuitEnds
  BY <1>12, Procs DEF QuitEnds, Goes, seen, WriteInv, Saved, Saving, Settling, SaveTypes,
     PcTypes, RunInv, EngineInv, Types
<1>13. CASE ResumeBegins
  BY <1>13, Procs DEF ResumeBegins, Goes, child, plan, seen, WriteInv, Saved, Saving, Settling,
     SaveTypes, PcTypes, RunInv, EngineInv, Types
<1>14. CASE ResumeSets
  BY <1>14, Procs DEF ResumeSets, SavesThen, Goes, plan, WriteInv, Saved, Saving, Settling,
     SaveTypes, PcTypes, RunInv, EngineInv, Types
<1>15. CASE ResumeFails
  BY <1>15, Procs DEF ResumeFails, Goes, child, plan, seen, WriteInv, Saved, Saving, Settling,
     SaveTypes, PcTypes, RunInv, EngineInv, Types
<1>16. ASSUME NEW r \in Run, WorkEnds(r) PROVE WriteInv'
  BY <1>16, Procs DEF WorkEnds, Goes, child, plan, seen, WriteInv, Saved, Saving, Settling,
     SaveTypes, PcTypes, RunInv, EngineInv, Types
<1>17. ASSUME NEW r \in Run, Settles(r) PROVE WriteInv'
  BY <1>17, Procs DEF Settles, SavesThen, Goes, plan, WriteInv, Saved, Saving, Settling,
     SaveTypes, PcTypes, RunInv, EngineInv, Types
<1>18. ASSUME NEW r \in Run, Reports(r) PROVE WriteInv'
  BY <1>18, Procs DEF Reports, Goes, child, plan, WriteInv, Saved, Saving, Settling, SaveTypes,
     PcTypes, RunInv, EngineInv, Types
<1>19. ASSUME NEW r \in Run, Done(r) PROVE WriteInv'
  BY <1>19, Procs DEF Done, Goes, plan, seen, WriteInv, Saved, Saving, Settling, SaveTypes,
     PcTypes, RunInv, EngineInv, Types
<1>20. CASE Exits
  BY <1>20, Procs DEF Exits, Gone, WriteInv, Saved, Saving, Settling, SaveTypes, PcTypes,
     RunInv, EngineInv, Types
<1>21. CASE Restore
  BY <1>21, Procs DEF Restore, plan, WriteInv, Saved, Saving, Settling, SaveTypes, PcTypes,
     RunInv, EngineInv, Types
<1>22. CASE Orphans
  BY <1>22, Procs DEF Orphans, Goes, child, seen, WriteInv, Saved, Saving, Settling, SaveTypes,
     PcTypes, RunInv, EngineInv, Types
<1>23. ASSUME NEW q \in {Turn, Input}, Tell(q) PROVE WriteInv'
  BY <1>23, Procs DEF Tell, StartRun, SavesThen, Goes, Lives, plan, WriteInv, Saved, Saving,
     Settling, SaveTypes, PcTypes, RunInv, EngineInv, Types
<1>24. ASSUME NEW q \in {Turn, Input}, Go(q) PROVE WriteInv'
  BY <1>24, Procs DEF Go, child, plan, seen, WriteInv, Saved, Saving, Settling, SaveTypes,
     PcTypes, RunInv, EngineInv, Types
<1>25. ASSUME NEW q \in Proc, Snapshot(q) PROVE WriteInv'
  BY <1>25, Procs DEF Snapshot, Goes, child, plan, seen, WriteInv, Saved, Saving, Settling,
     SaveTypes, PcTypes, RunInv, EngineInv, Types
<1>26. ASSUME NEW q \in Proc, Writes(q) PROVE WriteInv'
  BY <1>26, Procs DEF Writes, Goes, child, plan, seen, WriteInv, Saved, Saving, Settling,
     SaveTypes, PcTypes, RunInv, EngineInv, Types
<1> QED
  BY <1>1, <1>2, <1>3, <1>4, <1>5, <1>6, <1>7, <1>8, <1>9, <1>10, <1>11, <1>12, <1>13, <1>14,
     <1>15, <1>16, <1>17, <1>18, <1>19, <1>20, <1>21, <1>22, <1>23, <1>24, <1>25, <1>26 DEF
     Next, TurnSteps, RunSteps, EngineSteps

\* The record is the state, unless two saves were under way at once.
LEMMA DiskInvP ==
  ASSUME Types, SaveTypes, PcTypes, RunInv, EngineInv, SpawnInv, WriteInv, DiskInv, [Next]_vars
  PROVE  DiskInv'
<1>1. ASSUME UNCHANGED <<state, pc, snap, raced, disk, engine, cutOff>> PROVE DiskInv'
  BY <1>1 DEF DiskInv, EngineInv, PcTypes, RunInv, SaveTypes, Saved, Saving, Types, WriteInv
<1>2. CASE UNCHANGED vars
  BY <1>1, <1>2 DEF vars, child, procs, plan, seen
<1>3. CASE PersonDrops
  BY <1>1, <1>3 DEF PersonDrops, child, procs, seen
<1>4. ASSUME NEW r \in Run, Publish(r) PROVE DiskInv'
  BY <1>1, <1>4 DEF Publish, child, procs, seen
<1>5. CASE Spawn
  BY <1>5, Procs DEF Spawn, StartRun, SavesThen, Goes, DiskInv, WriteInv, Saved, Saving,
     SaveTypes, PcTypes, RunInv, EngineInv, Types
<1>6. CASE Assign
  <2>1. \A q \in Proc : pc'[q] \notin {"save", "write"} => pc[q] \notin {"save", "write"}
    BY <1>6, Procs DEF Assign, PcTypes, SpawnInv, Spawning, In
  <2>2. \A q \in Proc : pc'[q] \in {"save", "write"} => pc[q] = pc'[q]
    BY <1>6, Procs DEF Assign, PcTypes
  <2>3. UNCHANGED <<engine, state, disk, snap, raced, cutOff>>
    BY <1>6 DEF Assign, child, seen
  <2> QED
    BY <2>1, <2>2, <2>3 DEF DiskInv, Saving
<1>7. CASE GiveNode
  BY <1>7, Procs DEF GiveNode, child, seen, DiskInv, WriteInv, Saved, Saving, SaveTypes,
     PcTypes, RunInv, EngineInv, Types
<1>8. CASE GivenTell
  BY <1>8, Procs DEF GivenTell, StartRun, SavesThen, Goes, child, plan, DiskInv, WriteInv,
     Saved, Saving, SaveTypes, PcTypes, RunInv, EngineInv, Types
<1>9. CASE QuitBegins
  BY <1>9, Procs DEF QuitBegins, plan, seen, DiskInv, WriteInv, Saved, Saving, SaveTypes,
     PcTypes, RunInv, EngineInv, Types
<1>10. CASE QuitStops
  BY <1>10, Procs DEF QuitStops, Goes, plan, seen, DiskInv, WriteInv, Saved, Saving, SaveTypes,
     PcTypes, RunInv, EngineInv, Types
<1>11. CASE QuitSettles
  BY <1>11, Procs DEF QuitSettles, SavesThen, Goes, plan, DiskInv, WriteInv, Saved, Saving,
     SaveTypes, PcTypes, RunInv, EngineInv, Types
<1>12. CASE QuitEnds
  BY <1>12, Procs DEF QuitEnds, Goes, seen, DiskInv, WriteInv, Saved, Saving, SaveTypes,
     PcTypes, RunInv, EngineInv, Types
<1>13. CASE ResumeBegins
  BY <1>13, Procs DEF ResumeBegins, Goes, child, plan, seen, DiskInv, WriteInv, Saved, Saving,
     SaveTypes, PcTypes, RunInv, EngineInv, Types
<1>14. CASE ResumeSets
  BY <1>14, Procs DEF ResumeSets, SavesThen, Goes, plan, DiskInv, WriteInv, Saved, Saving,
     SaveTypes, PcTypes, RunInv, EngineInv, Types
<1>15. CASE ResumeFails
  BY <1>15, Procs DEF ResumeFails, Goes, child, plan, seen, DiskInv, WriteInv, Saved, Saving,
     SaveTypes, PcTypes, RunInv, EngineInv, Types
<1>16. ASSUME NEW r \in Run, WorkEnds(r) PROVE DiskInv'
  BY <1>16, Procs DEF WorkEnds, Goes, child, plan, seen, DiskInv, WriteInv, Saved, Saving,
     SaveTypes, PcTypes, RunInv, EngineInv, Types
<1>17. ASSUME NEW r \in Run, Settles(r) PROVE DiskInv'
  BY <1>17, Procs DEF Settles, SavesThen, Goes, plan, DiskInv, WriteInv, Saved, Saving,
     SaveTypes, PcTypes, RunInv, EngineInv, Types
<1>18. ASSUME NEW r \in Run, Reports(r) PROVE DiskInv'
  BY <1>18, Procs DEF Reports, Goes, child, plan, DiskInv, WriteInv, Saved, Saving, SaveTypes,
     PcTypes, RunInv, EngineInv, Types
<1>19. ASSUME NEW r \in Run, Done(r) PROVE DiskInv'
  BY <1>19, Procs DEF Done, Goes, plan, seen, DiskInv, WriteInv, Saved, Saving, SaveTypes,
     PcTypes, RunInv, EngineInv, Types
<1>20. CASE CloseMarks
  BY <1>20, Procs DEF CloseMarks, procs, plan, DiskInv, WriteInv, Saved, Saving, SaveTypes,
     PcTypes, RunInv, EngineInv, Types
<1>21. CASE CloseStops
  BY <1>21, Procs DEF CloseStops, procs, plan, seen, DiskInv, WriteInv, Saved, Saving,
     SaveTypes, PcTypes, RunInv, EngineInv, Types
<1>22. CASE CloseDrops
  BY <1>22, Procs DEF CloseDrops, procs, plan, seen, DiskInv, WriteInv, Saved, Saving,
     SaveTypes, PcTypes, RunInv, EngineInv, Types
<1>23. CASE Exits
  BY <1>23, Procs DEF Exits, Gone, DiskInv, WriteInv, Saved, Saving, SaveTypes, PcTypes, RunInv,
     EngineInv, Types
<1>24. CASE Restore
  BY <1>24, Procs DEF Restore, plan, DiskInv, WriteInv, Saved, Saving, SaveTypes, PcTypes,
     RunInv, EngineInv, Types
<1>25. CASE Orphans
  BY <1>25, Procs DEF Orphans, Goes, child, seen, DiskInv, WriteInv, Saved, Saving, SaveTypes,
     PcTypes, Orphaning, In, EngineInv
<1>26. ASSUME NEW q \in {Turn, Input}, Tell(q) PROVE DiskInv'
  BY <1>26, Procs DEF Tell, StartRun, SavesThen, Goes, Lives, plan, DiskInv, WriteInv, Saved,
     Saving, SaveTypes, PcTypes, RunInv, EngineInv, Types
<1>27. ASSUME NEW q \in {Turn, Input}, Go(q) PROVE DiskInv'
  BY <1>27, Procs DEF Go, child, plan, seen, DiskInv, WriteInv, Saved, Saving, SaveTypes,
     PcTypes, RunInv, EngineInv, Types
<1>28. ASSUME NEW q \in Proc, Snapshot(q) PROVE DiskInv'
  BY <1>28, Procs DEF Snapshot, Goes, child, plan, seen, DiskInv, WriteInv, Saved, Saving,
     SaveTypes, PcTypes, RunInv, EngineInv, Types
<1>29. ASSUME NEW q \in Proc, Writes(q) PROVE DiskInv'
  BY <1>29, Procs DEF Writes, Goes, child, plan, seen, DiskInv, WriteInv, Saved, Saving,
     SaveTypes, PcTypes, RunInv, EngineInv, Types
<1> QED
  BY <1>1, <1>2, <1>3, <1>4, <1>5, <1>6, <1>7, <1>8, <1>9, <1>10, <1>11, <1>12, <1>13, <1>14,
     <1>15, <1>16, <1>17, <1>18, <1>19, <1>20, <1>21, <1>22, <1>23, <1>24, <1>25, <1>26, <1>27,
     <1>28, <1>29 DEF Next, TurnSteps, RunSteps, EngineSteps

\* A child that is gone has given its nodes back.
LEMMA OwnInvP ==
  ASSUME Types, SaveTypes, PcTypes, RunInv, EngineInv, SpawnInv, HasInv, OwnInv, [Next]_vars
  PROVE  OwnInv'
<1>1. ASSUME UNCHANGED <<engine, pc, state, late, owned, open>> PROVE OwnInv'
  BY <1>1 DEF EngineInv, HasInv, In, Leaving, Orphaning, OwnInv, PcTypes, RunInv, SaveTypes,
     Saving, SpawnInv, Spawning, Types
<1>2. CASE UNCHANGED vars
  BY <1>1, <1>2 DEF vars, child, procs, plan, seen
<1>3. CASE Spawn
  BY <1>3, Procs DEF Spawn, StartRun, SavesThen, Goes, OwnInv, HasInv, Leaving, SpawnInv,
     Spawning, In, RunInv, EngineInv, Orphaning, Types, PcTypes, SaveTypes, Saving
<1>4. CASE Assign
  BY <1>4, Procs DEF Assign, child, seen, OwnInv, HasInv, Leaving, SpawnInv, Spawning, In,
     RunInv, EngineInv, Orphaning, Types, PcTypes, SaveTypes, Saving
<1>5. CASE GiveNode
  BY <1>5, Procs DEF GiveNode, child, seen, OwnInv, HasInv, Leaving, SpawnInv, Spawning, In,
     RunInv, EngineInv, Orphaning, Types, PcTypes, SaveTypes, Saving
<1>6. CASE GivenTell
  BY <1>6, Procs DEF GivenTell, StartRun, SavesThen, Goes, child, plan, OwnInv, HasInv, Leaving,
     SpawnInv, Spawning, In, RunInv, EngineInv, Orphaning, Types, PcTypes, SaveTypes, Saving
<1>7. CASE QuitBegins
  BY <1>7, Procs DEF QuitBegins, plan, seen, OwnInv, HasInv, Leaving, SpawnInv, Spawning, In,
     RunInv, EngineInv, Orphaning, Types, PcTypes, SaveTypes, Saving
<1>8. CASE QuitStops
  BY <1>8, Procs DEF QuitStops, Goes, plan, seen, OwnInv, HasInv, Leaving, SpawnInv, Spawning,
     In, RunInv, EngineInv, Orphaning, Types, PcTypes, SaveTypes, Saving
<1>9. CASE QuitSettles
  BY <1>9, Procs DEF QuitSettles, SavesThen, Goes, plan, OwnInv, HasInv, Leaving, SpawnInv,
     Spawning, In, RunInv, EngineInv, Orphaning, Types, PcTypes, SaveTypes, Saving
<1>10. CASE QuitEnds
  BY <1>10, Procs DEF QuitEnds, Goes, seen, OwnInv, HasInv, Leaving, SpawnInv, Spawning, In,
     RunInv, EngineInv, Orphaning, Types, PcTypes, SaveTypes, Saving
<1>11. CASE ResumeBegins
  BY <1>11, Procs DEF ResumeBegins, Goes, child, plan, seen, OwnInv, HasInv, Leaving, SpawnInv,
     Spawning, In, RunInv, EngineInv, Orphaning, Types, PcTypes, SaveTypes, Saving
<1>12. CASE ResumeSets
  BY <1>12, Procs DEF ResumeSets, SavesThen, Goes, plan, OwnInv, HasInv, Leaving, SpawnInv,
     Spawning, In, RunInv, EngineInv, Orphaning, Types, PcTypes, SaveTypes, Saving
<1>13. CASE ResumeFails
  BY <1>13, Procs DEF ResumeFails, Goes, child, plan, seen, OwnInv, HasInv, Leaving, SpawnInv,
     Spawning, In, RunInv, EngineInv, Orphaning, Types, PcTypes, SaveTypes, Saving
<1>14. ASSUME NEW r \in Run, Publish(r) PROVE OwnInv'
  BY <1>14, Procs DEF Publish, child, procs, seen, OwnInv, HasInv, Leaving, SpawnInv, Spawning,
     In, RunInv, EngineInv, Orphaning, Types, PcTypes, SaveTypes, Saving
<1>15. ASSUME NEW r \in Run, WorkEnds(r) PROVE OwnInv'
  BY <1>15, Procs DEF WorkEnds, Goes, child, plan, seen, OwnInv, HasInv, Leaving, SpawnInv,
     Spawning, In, RunInv, EngineInv, Orphaning, Types, PcTypes, SaveTypes, Saving
<1>16. ASSUME NEW r \in Run, Settles(r) PROVE OwnInv'
  BY <1>16, Procs DEF Settles, SavesThen, Goes, plan, OwnInv, HasInv, Leaving, SpawnInv,
     Spawning, In, RunInv, EngineInv, Orphaning, Types, PcTypes, SaveTypes, Saving
<1>17. ASSUME NEW r \in Run, Reports(r) PROVE OwnInv'
  BY <1>17, Procs DEF Reports, Goes, child, plan, OwnInv, HasInv, Leaving, SpawnInv, Spawning,
     In, RunInv, EngineInv, Orphaning, Types, PcTypes, SaveTypes, Saving
<1>18. ASSUME NEW r \in Run, Done(r) PROVE OwnInv'
  BY <1>18, Procs DEF Done, Goes, plan, seen, OwnInv, HasInv, Leaving, SpawnInv, Spawning, In,
     RunInv, EngineInv, Orphaning, Types, PcTypes, SaveTypes, Saving
<1>19. CASE CloseMarks
  BY <1>19, Procs DEF CloseMarks, procs, plan, OwnInv, HasInv, Leaving, SpawnInv, Spawning, In,
     RunInv, EngineInv, Orphaning, Types, PcTypes, SaveTypes, Saving
<1>20. CASE CloseStops
  BY <1>20, Procs DEF CloseStops, procs, plan, seen, OwnInv, HasInv, Leaving, SpawnInv,
     Spawning, In, RunInv, EngineInv, Orphaning, Types, PcTypes, SaveTypes, Saving
<1>21. CASE CloseDrops
  BY <1>21, Procs DEF CloseDrops, procs, plan, seen, OwnInv, HasInv, Leaving, SpawnInv,
     Spawning, In, RunInv, EngineInv, Orphaning, Types, PcTypes, SaveTypes, Saving
<1>22. CASE Exits
  BY <1>22, Procs DEF Exits, Gone, OwnInv, HasInv, Leaving, SpawnInv, Spawning, In, RunInv,
     EngineInv, Orphaning, Types, PcTypes, SaveTypes, Saving
<1>23. CASE Restore
  BY <1>23, Procs DEF Restore, plan, OwnInv, HasInv, Leaving, SpawnInv, Spawning, In, RunInv,
     EngineInv, Orphaning, Types, PcTypes, SaveTypes, Saving
<1>24. CASE Orphans
  BY <1>24, Procs DEF Orphans, Goes, child, seen, OwnInv, HasInv, Leaving, SpawnInv, Spawning,
     In, RunInv, EngineInv, Orphaning, Types, PcTypes, SaveTypes, Saving
<1>25. CASE PersonDrops
  BY <1>25, Procs DEF PersonDrops, child, procs, seen, OwnInv, HasInv, Leaving, SpawnInv,
     Spawning, In, RunInv, EngineInv, Orphaning, Types, PcTypes, SaveTypes, Saving
<1>26. ASSUME NEW q \in {Turn, Input}, Tell(q) PROVE OwnInv'
  BY <1>26, Procs DEF Tell, StartRun, SavesThen, Goes, Lives, plan, OwnInv, HasInv, Leaving,
     SpawnInv, Spawning, In, RunInv, EngineInv, Orphaning, Types, PcTypes, SaveTypes, Saving
<1>27. ASSUME NEW q \in {Turn, Input}, Go(q) PROVE OwnInv'
  BY <1>27, Procs DEF Go, child, plan, seen, OwnInv, HasInv, Leaving, SpawnInv, Spawning, In,
     RunInv, EngineInv, Orphaning, Types, PcTypes, SaveTypes, Saving
<1>28. ASSUME NEW q \in Proc, Snapshot(q) PROVE OwnInv'
  BY <1>28, Procs DEF Snapshot, Goes, child, plan, seen, OwnInv, HasInv, Leaving, SpawnInv,
     Spawning, In, RunInv, EngineInv, Orphaning, Types, PcTypes, SaveTypes, Saving
<1>29. ASSUME NEW q \in Proc, Writes(q) PROVE OwnInv'
  BY <1>29, Procs DEF Writes, Goes, child, plan, seen, OwnInv, HasInv, Leaving, SpawnInv,
     Spawning, In, RunInv, EngineInv, Orphaning, Types, PcTypes, SaveTypes, Saving
<1> QED
  BY <1>1, <1>2, <1>3, <1>4, <1>5, <1>6, <1>7, <1>8, <1>9, <1>10, <1>11, <1>12, <1>13, <1>14,
     <1>15, <1>16, <1>17, <1>18, <1>19, <1>20, <1>21, <1>22, <1>23, <1>24, <1>25, <1>26, <1>27,
     <1>28, <1>29 DEF Next, TurnSteps, RunSteps, EngineSteps

LEMMA InitIInv == Init => IInv
<1> SUFFICES ASSUME Init PROVE IInv
  OBVIOUS
<1>1. /\ engine = "up" /\ state = "none" /\ has = FALSE /\ closed = FALSE /\ cur = 0 /\ last = 0
      /\ shut = {} /\ canceled = {} /\ reported = {} /\ runs = 0 /\ disk = "none" /\ owned = {}
      /\ open = Node /\ raced = FALSE /\ late = FALSE /\ cutOff = FALSE
      /\ \A q \in Proc : pc[q] = "rest"
  BY DEF Init
<1>2. Types
  <2>1. 0 \in 0..MaxRuns /\ 0 \in 0..0
    BY AgentsAssumption
  <2> QED
    BY <1>1, <2>1 DEF Types, Saved
<1>3. SaveTypes /\ PcTypes
  BY Procs DEF Init, SaveTypes, PcTypes, RunAt, TurnAt, Saving
<1>4. RunInv /\ EngineInv /\ SpawnInv
  BY <1>1, Procs DEF RunInv, EngineInv, SpawnInv, Orphaning, Spawning, In, Saving
<1>5. OneInv /\ StopInv
  BY <1>1, Procs DEF OneInv, StopInv, Active, Waits, Stopped, Leaving, Spawning, In, Saving
<1>6. HasInv /\ ShutInv /\ WriteInv /\ DiskInv /\ OwnInv
  BY <1>1, Procs DEF HasInv, ShutInv, WriteInv, DiskInv, OwnInv, Leaving, In, Saving, Saved,
     Settling
<1> QED
  BY <1>2, <1>3, <1>4, <1>5, <1>6 DEF IInv

LEMMA StepIInv == IInv /\ [Next]_vars => IInv'
BY TypesP, SaveTypesP, PcTypesP, RunInvP, EngineInvP, SpawnInvP, OneInvP, StopInvP, HasInvP,
   ShutInvP,
   WriteInvP, DiskInvP, OwnInvP DEF IInv

-----------------------------------------------------------------------------
\* What the steps of the child's runs, the turn, the person, closes and restarts
\* leave of the child, its record and its nodes.
THEOREM InductiveInvariant == Spec => []IInv
BY InitIInv, StepIInv, PTL DEF Spec

\* plan.go 621-623: while the turn is at rest no unfinished node is owned by a child
\* that is dismissed or unknown.
THEOREM TypeCorrect == Spec => []TypeOK
<1>1. IInv => TypeOK
  <2> SUFFICES ASSUME IInv PROVE TypeOK
    OBVIOUS
  <2>1. cur \in 0..MaxRuns /\ last \in 0..MaxRuns /\ canceled \subseteq Run
    BY AgentsAssumption DEF IInv, Types, Run
  <2> QED
    BY <2>1 DEF IInv, Types, Saved, OwnInv, TypeOK
<1> QED
  BY <1>1, InductiveInvariant, PTL

\* subagent.go 714-720, 222-225: a child has one run at a time and is running while
\* it has, and who waits for it is released after its report.
THEOREM OneRunAtATime == Spec => []RunsOneByOne
<1>1. ASSUME IInv PROVE RunsOneByOne
  <2> DEFINE working == {r \in Run \ canceled : pc[r] \in {"works", "settle"}}
  <2>1. ASSUME ~late PROVE working \subseteq {cur} /\ (working # {} => state = "running")
    BY <1>1, <2>1 DEF IInv, OneInv, Active
  <2>2. ASSUME working \subseteq {cur} PROVE Cardinality(working) <= 1
    <3>1. working = {} \/ working = {cur}
      BY <2>2
    <3> QED
      BY <3>1, FS_EmptySet, FS_Singleton
  <2>3. ~raced /\ ~late => shut \subseteq reported \union canceled
    BY <1>1 DEF IInv, ShutInv
  <2> QED
    BY <2>1, <2>2, <2>3 DEF RunsOneByOne
<1> QED
  BY <1>1, InductiveInvariant, PTL

\* subagent.go 235-236, 912-914: with no save under way the record is the state, and
\* a child that was running when the engine began to close is recorded so.
THEOREM RecordIsState == Spec => []SavedIsState
<1>1. IInv => SavedIsState
  BY DEF IInv, DiskInv, SavedIsState, Saving, Saved
<1> QED
  BY <1>1, InductiveInvariant, PTL
=============================================================================

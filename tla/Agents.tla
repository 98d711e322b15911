------------------------------- MODULE Agents -------------------------------
(***************************************************************************)
(* A sub-agent of an engine (subagent.go, plan.go): its runs, each a       *)
(* goroutine of its own, the record beside its transcript that a restart   *)
(* reads, and the plan nodes it owns. The parent's turn spawns, tells,     *)
(* dismisses and resumes it, one call after the other; the person tells it *)
(* from the input goroutine meanwhile; the engine closes, dies, and starts *)
(* again. Sub-agents meet only in the plan, so one is enough: a node that  *)
(* another one has is one that is not free.                                *)
(***************************************************************************)
EXTENDS Naturals, FiniteSets

CONSTANTS
  Node,        \* plan nodes
  MaxRuns,     \* bound: runs of the child
  MaxRestarts  \* bound: restarts of the engine

ASSUME AgentsAssumption == MaxRuns \in Nat \ {0} /\ MaxRestarts \in Nat

Run == 1 .. MaxRuns
Turn == 0               \* the parent's turn
Input == MaxRuns + 1    \* the input goroutine
Proc == Run \union {Turn, Input}

VARIABLES
  engine,     \* "up", closing ("marks", "stops", "closed"), "down", "starts"
  state, has, \* sa.state; sa.h # nil
  closed,     \* sa.closed
  cur,        \* the run whose context sa.cancel cancels, 0: none
  last,       \* the run whose channel is sa.done
  shut,       \* runs whose channel is closed
  canceled,   \* runs whose context is canceled
  pc, then, snap, \* of a process: where it is, what follows its save, what it saves
  disk,       \* the saved state
  owned, open,    \* the nodes the child owns; the ones not done nor dropped
  node,       \* the nodes a spawn is to give (one or none)
  reported,   \* runs whose report was sent
  raced,      \* the child was changed while another was settling it
  late,       \* a run settled a child that was dismissed, or resumed since
  cutOff,     \* it was running, and saved so, when the engine began to close
  runs, restarts

child == <<state, has, closed, cur, last, shut, canceled>>
procs == <<pc, then, snap>>
plan == <<owned, open, node>>
seen == <<reported, raced, late, cutOff>>
vars == <<engine, child, procs, disk, plan, seen, runs, restarts>>

Gone == /\ state' = "none" /\ has' = FALSE /\ closed' = FALSE /\ cur' = 0 /\ last' = 0
        /\ shut' = {} /\ canceled' = {} /\ reported' = {}
        /\ pc' = [q \in Proc |-> "rest"] /\ then' = [q \in Proc |-> "rest"]
        /\ snap' = [q \in Proc |-> "none"] /\ node' = {} /\ runs' = 0

Init ==
  /\ engine = "up" /\ state = "none" /\ has = FALSE /\ closed = FALSE /\ cur = 0 /\ last = 0
  /\ shut = {} /\ canceled = {} /\ reported = {}
  /\ pc = [q \in Proc |-> "rest"] /\ then = [q \in Proc |-> "rest"]
  /\ snap = [q \in Proc |-> "none"] /\ node = {} /\ runs = 0
  /\ disk = "none" /\ owned = {} /\ open = Node
  /\ raced = FALSE /\ late = FALSE /\ cutOff = FALSE /\ restarts = 0

Lives == engine \in {"up", "stops", "closed", "marks"}
Goes(q, from, to) == pc[q] = from /\ pc' = [pc EXCEPT ![q] = to]

\* A run, or a dismissal, on its way from the state it sets to the end of it.
Settling(q) == pc[q] \in {"save", "write", "report", "done", "release"}

\* The state is set, and its save comes next; then something else.
SavesThen(q, from, next) ==
  /\ Goes(q, from, "save") /\ then' = [then EXCEPT ![q] = next]
  /\ raced' = (raced \/ \E o \in Proc \ {q} : Settling(o))

-----------------------------------------------------------------------------
(* saveState: the snapshot is taken under mu, the file is written outside   *)

\* Mutant: the close of the parent is not looked at.
SnapshotAlways(q) ==
  /\ Goes(q, "save", "write") /\ snap' = [snap EXCEPT ![q] = state]
  /\ UNCHANGED <<engine, child, then, disk, plan, seen, runs, restarts>>

\* "Skipped once the parent is closing".
Snapshot(q) ==
  /\ Goes(q, "save", IF closed THEN then[q] ELSE "write")
  /\ snap' = [snap EXCEPT ![q] = IF closed THEN @ ELSE state]
  /\ UNCHANGED <<engine, child, then, disk, plan, seen, runs, restarts>>

Writes(q) ==
  /\ Goes(q, "write", then[q]) /\ disk' = snap[q] /\ snap' = [snap EXCEPT ![q] = "none"]
  /\ UNCHANGED <<engine, child, then, plan, seen, runs, restarts>>

-----------------------------------------------------------------------------
(* Runs                                                                     *)

\* startRunLocked, under mu: a new clock and a new done channel.
StartRun == /\ runs < MaxRuns /\ runs' = runs + 1
            /\ state' = "running" /\ last' = runs + 1 /\ cur' = runs + 1

\* spawnAgentFor: the first run; a node it is to have must be free.
Spawn ==
  /\ engine = "up" /\ pc[Turn] = "rest" /\ state = "none" /\ StartRun /\ has' = TRUE
  /\ \E n \in SUBSET (open \ owned) : Cardinality(n) <= 1 /\ node' = n
  /\ SavesThen(Turn, "rest", "assign")
  /\ UNCHANGED <<engine, closed, shut, canceled, snap, disk, owned, open, reported, late, cutOff,
                 restarts>>

\* planAssign: given only once the child is on record. A node that the person
\* dropped meanwhile is not given, and the child is dismissed.
Assign ==
  /\ pc[Turn] = "assign" /\ node' = {}
  /\ IF node \subseteq open
     THEN owned' = owned \union node /\ pc' = [pc EXCEPT ![Turn] = "rest", ![1] = "works"]
     ELSE pc' = [pc EXCEPT ![Turn] = "quit"] /\ UNCHANGED owned
  /\ UNCHANGED <<engine, child, then, snap, disk, open, seen, runs, restarts>>

\* tell, of the turn or of the person (AgentTell): a new run of an idle child.
Tell(q) ==
  /\ Lives /\ state # "running" /\ has /\ StartRun /\ SavesThen(q, "rest", "go")
  /\ UNCHANGED <<engine, has, closed, shut, canceled, snap, disk, plan, reported, late, cutOff,
                 restarts>>

\* Its goroutine starts when its teller has saved. Run 1 is the spawned one.
Go(q) ==
  /\ pc[q] = "go" /\ \E r \in 2 .. runs : pc[r] = "rest"
                       /\ pc' = [pc EXCEPT ![q] = "rest", ![r] = "works"]
  /\ UNCHANGED <<engine, child, then, snap, disk, plan, seen, runs, restarts>>

\* giveNode: a ready node for an idle child, which is then told.
GiveNode ==
  /\ engine = "up" /\ pc[Turn] = "rest" /\ state # "running" /\ has
  /\ \E n \in open \ owned : owned' = owned \union {n}
  /\ pc' = [pc EXCEPT ![Turn] = "tell"]
  /\ UNCHANGED <<engine, child, then, snap, disk, open, node, seen, runs, restarts>>

\* The tell may find that the person told it before; the node stays with it.
GivenTell ==
  /\ pc[Turn] = "tell"
  /\ \/ /\ state # "running" /\ has /\ StartRun /\ SavesThen(Turn, "tell", "go")
        /\ UNCHANGED <<has, closed, shut, canceled>>
     \/ /\ state = "running" \/ ~has
        /\ pc' = [pc EXCEPT ![Turn] = "rest"] /\ UNCHANGED <<child, then, raced, runs>>
  /\ UNCHANGED <<engine, snap, disk, plan, reported, late, cutOff, restarts>>

\* The child's plan tool: one of its nodes is done or dropped.
Publish(r) ==
  /\ pc[r] = "works" /\ r \notin canceled /\ \E n \in owned \intersect open : open' = open \ {n}
  /\ UNCHANGED <<engine, child, procs, disk, owned, node, seen, runs, restarts>>

PersonDrops ==
  /\ engine = "up" /\ \E n \in open : open' = open \ {n}
  /\ UNCHANGED <<engine, child, procs, disk, owned, node, seen, runs, restarts>>

\* The work of a run is over. The spawned one asks then whether it was
\* canceled; a told one does not.
WorkEnds(r) ==
  /\ Goes(r, "works", "settle")
  /\ then' = [then EXCEPT ![r] = IF r = 1 /\ r \in canceled THEN "done" ELSE "report"]
  /\ UNCHANGED <<engine, child, snap, disk, plan, seen, runs, restarts>>

\* Mutant: a waiter is let go before the report is sent.
SettlesFirst(r) ==
  /\ SavesThen(r, "settle", then[r])
  /\ state' = IF then[r] = "report" THEN "idle" ELSE "dismissed"
  /\ shut' = shut \union {last}
  /\ late' = (late \/ cur # r \/ ~has)
  /\ UNCHANGED <<engine, has, closed, cur, last, canceled, snap, disk, plan, reported, cutOff,
                 runs, restarts>>

\* settleThen: idle with a report, or dismissed without.
Settles(r) ==
  /\ SavesThen(r, "settle", then[r])
  /\ state' = IF then[r] = "report" THEN "idle" ELSE "dismissed"
  /\ late' = (late \/ cur # r \/ ~has)
  /\ UNCHANGED <<engine, has, closed, cur, last, shut, canceled, snap, disk, plan, reported,
                 cutOff, runs, restarts>>

Reports(r) ==
  /\ Goes(r, "report", "done") /\ reported' = reported \union {r}
  /\ UNCHANGED <<engine, child, then, snap, disk, plan, raced, late, cutOff, runs, restarts>>

\* Whatever channel is sa.done by now is closed.
Done(r) ==
  /\ Goes(r, "done", "over") /\ shut' = shut \union {last}
  /\ UNCHANGED <<engine, state, has, closed, cur, last, canceled, then, snap, disk, plan, seen,
                 runs, restarts>>

-----------------------------------------------------------------------------
(* Dismissal and resume, by the turn                                        *)

QuitBegins ==
  /\ \/ engine = "up" /\ pc[Turn] = "rest" /\ state # "none"
     \/ pc[Turn] = "quit"
  /\ has' = FALSE /\ pc' = [pc EXCEPT ![Turn] = "stop"]
  /\ UNCHANGED <<engine, state, closed, cur, last, shut, canceled, then, snap, disk, plan, seen,
                 runs, restarts>>

QuitStops ==
  /\ Goes(Turn, "stop", "dismiss") /\ canceled' = canceled \union ({cur} \ {0})
  /\ UNCHANGED <<engine, state, has, closed, cur, last, shut, then, snap, disk, plan, seen,
                 runs, restarts>>

QuitSettles ==
  /\ SavesThen(Turn, "dismiss", "release") /\ state' = "dismissed"
  /\ UNCHANGED <<engine, has, closed, cur, last, shut, canceled, snap, disk, plan, reported,
                 late, cutOff, runs, restarts>>

\* Mutant: the nodes stay with the child.
QuitKeepsNodes ==
  /\ Goes(Turn, "release", "rest") /\ shut' = shut \union ({last} \ {0})
  /\ UNCHANGED <<engine, state, has, closed, cur, last, canceled, then, snap, disk, plan, seen,
                 runs, restarts>>

\* sa.done is closed, and planRelease gives its unfinished nodes back.
QuitEnds ==
  /\ Goes(Turn, "release", "rest") /\ shut' = shut \union ({last} \ {0})
  /\ owned' = owned \ open
  /\ UNCHANGED <<engine, state, has, closed, cur, last, canceled, then, snap, disk, open, node,
                 seen, runs, restarts>>

\* resumeAgent: a child that has no harness gets one; outside mu until then.
ResumeBegins ==
  /\ engine = "up" /\ state # "none" /\ ~has /\ Goes(Turn, "rest", "resume")
  /\ UNCHANGED <<engine, child, then, snap, disk, plan, seen, runs, restarts>>

ResumeSets ==
  /\ SavesThen(Turn, "resume", IF engine = "starts" THEN "orphans" ELSE "rest")
  /\ has' = TRUE /\ cur' = 0 /\ state' = "idle"
  /\ UNCHANGED <<engine, closed, last, shut, canceled, snap, disk, plan, reported, late, cutOff,
                 runs, restarts>>

ResumeFails ==
  /\ Goes(Turn, "resume", IF engine = "starts" THEN "orphans" ELSE "rest")
  /\ UNCHANGED <<engine, child, then, snap, disk, plan, seen, runs, restarts>>

-----------------------------------------------------------------------------
(* The engine                                                               *)

\* closeAgents, in three sections under mu.
CloseMarks ==
  /\ engine = "up" /\ state # "none" /\ engine' = "marks" /\ closed' = TRUE
  /\ cutOff' = (state = "running" /\ \A q \in Proc : pc[q] \notin {"save", "write"})
  /\ UNCHANGED <<state, has, cur, last, shut, canceled, procs, disk, plan, reported, raced, late,
                 runs, restarts>>

CloseStops ==
  /\ engine = "marks" /\ engine' = "stops" /\ canceled' = canceled \union ({cur} \ {0})
  /\ UNCHANGED <<state, has, closed, cur, last, shut, procs, disk, plan, seen, runs, restarts>>

CloseDrops ==
  /\ engine = "stops" /\ engine' = "closed" /\ has' = FALSE
  /\ UNCHANGED <<state, closed, cur, last, shut, canceled, procs, disk, plan, seen, runs, restarts>>

\* The process ends, in order or not.
Exits ==
  /\ engine \in {"up", "starts", "marks", "stops", "closed"} /\ restarts < MaxRestarts
  /\ engine' = "down" /\ Gone
  /\ UNCHANGED <<disk, owned, open, raced, late, cutOff, restarts>>

\* restoreAgents: one that was running or idle is resumed (Config.Persist), the
\* others come back as they were or stopped; one without a record may have no
\* transcript either, and is not known.
Restore ==
  /\ engine = "down" /\ engine' = "starts" /\ restarts' = restarts + 1
  /\ \E s \in IF disk = "dismissed" THEN {"dismissed"}
              ELSE IF disk = "none" THEN {"none", "stopped"} ELSE {"stopped"} : state' = s
  /\ \E to \in IF disk \in {"running", "idle"} THEN {"resume", "orphans"} ELSE {"orphans"} :
       pc' = [pc EXCEPT ![Turn] = to]
  /\ cutOff' = FALSE /\ raced' = FALSE /\ late' = FALSE
  /\ runs' = IF state' = "none" THEN 0 ELSE 1
  /\ UNCHANGED <<has, closed, cur, last, shut, canceled, then, snap, disk, plan, reported>>

\* planReleaseOrphans.
Orphans ==
  /\ Goes(Turn, "orphans", "rest") /\ engine' = "up"
  /\ owned' = IF state \in {"none", "dismissed"} THEN owned \ open ELSE owned
  /\ UNCHANGED <<child, then, snap, disk, open, node, seen, runs, restarts>>

-----------------------------------------------------------------------------
TurnSteps ==
  \/ Spawn \/ Assign \/ GiveNode \/ GivenTell \/ QuitBegins \/ QuitStops \/ QuitSettles \/ QuitEnds
  \/ ResumeBegins \/ ResumeSets \/ ResumeFails

RunSteps(r) == Publish(r) \/ WorkEnds(r) \/ Settles(r) \/ Reports(r) \/ Done(r)

EngineSteps == CloseMarks \/ CloseStops \/ CloseDrops \/ Exits \/ Restore \/ Orphans

Next ==
  \/ TurnSteps \/ EngineSteps \/ PersonDrops
  \/ \E q \in {Turn, Input} : Tell(q) \/ Go(q)
  \/ \E q \in Proc : Snapshot(q) \/ Writes(q)
  \/ \E r \in Run : RunSteps(r)

Spec == Init /\ [][Next]_vars

-----------------------------------------------------------------------------
(* Properties *)

\* Types. No unfinished node waits on a child that is gone (plan.go 621-623,
\* 639-641): while the turn is at rest, one that is dismissed or unknown owns
\* none.
TypeOK ==
  /\ engine \in {"up", "marks", "stops", "closed", "down", "starts"}
  /\ state \in {"none", "running", "idle", "stopped", "dismissed"} /\ has \in BOOLEAN
  /\ disk \in {"none", "running", "idle", "dismissed"} /\ closed \in BOOLEAN
  /\ cur \in 0 .. MaxRuns /\ last \in 0 .. MaxRuns /\ shut \subseteq Run /\ canceled \subseteq Run
  /\ owned \subseteq Node /\ open \subseteq Node /\ reported \subseteq Run
  /\ engine = "up" /\ pc[Turn] = "rest" /\ state \in {"none", "dismissed"} /\ ~late =>
       owned \intersect open = {}

\* A child has one run at a time (subagent.go 714-720), and is "running" while
\* it has, unless a run of a dismissed child settled after a resume; and a
\* waiter is released only when the report is sent (222-225), unless the child
\* was told or dismissed while its run was settling.
RunsOneByOne ==
  LET working == {r \in Run \ canceled : pc[r] \in {"works", "settle"}} IN
  /\ ~late => Cardinality(working) <= 1 /\ (working # {} => state = "running")
  /\ ~raced /\ ~late => shut \subseteq reported \union canceled

\* The record is what a restart goes by (subagent.go 235-236, 912-914): when
\* nothing is being saved it is the state, unless two saves were under way at
\* once; and a child that was running, and recorded so, when the engine
\* began to close still is.
SavedIsState ==
  ~raced /\ (\A q \in Proc : pc[q] \notin {"save", "write"}) =>
    /\ engine = "up" /\ state \in {"running", "idle", "dismissed"} => disk = state
    /\ cutOff => disk = "running"
=============================================================================

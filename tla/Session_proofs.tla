--------------------------- MODULE Session_proofs ---------------------------
(***************************************************************************)
(* Theorems about Session, for any callers, operations and bounds: a       *)
(* session object never has two engines at work, and is not remembered at  *)
(* work when its engines have ended. The first rests on who may start one: *)
(* the create that makes the object, while nobody else knows of it, and    *)
(* then only who finds eng empty under ses.mu, which an engine leaves when *)
(* it is gone and not before.                                              *)
(* And about Reuse, for any clients and number of sessions: those that     *)
(* start together are handed different ones.                               *)
(***************************************************************************)
EXTENDS Session, Reuse, TLAPS

\* Where a caller can be.
Steps == {"idle", "spawn", "name", "register", "subscribe", "ensure", "write", "stop", "frame",
          "wait", "drop", "closelog", "remove", "args", "persist"}

\* At these it goes with the engine it stops.
Stopping == {"frame", "wait"}

\* The state is of its types, as far as the theorems need them.
ProcTypes ==
  /\ eng \in Engine \union {None}
  /\ est \in [Engine -> {"free", "idle", "turn", "gone", "held"}]
  /\ stdin \in [Engine -> Seq({"msg", "stop"})]
  /\ reader \in [Engine -> {"none", "naming", "read", "exited", "done"}]

CallTypes ==
  /\ th \in [Caller -> [op : AllOps \union {"none"}, at : Steps, e : Engine \union {None}]]
  /\ \A t \in Caller : th[t].at \in Stopping => th[t].e \in Engine

Types == ProcTypes /\ CallTypes

\* Engines are used in their order; one that was not yet has no reader and no input.
UsedInv ==
  /\ \A e \in Engine : est[e] = "free" <=> reader[e] = "none"
  /\ \A e \in Engine : est[e] = "free" => stdin[e] = <<>>
  /\ \A e, f \in Engine : e < f /\ est[e] = "free" => est[f] = "free"

Creating(t) == th[t].at \in {"spawn", "name", "register"}
Untouched == \A e \in Engine : est[e] = "free"

\* The session object is made by one create, which nobody else knows of before.
CreateInv ==
  /\ \A t \in Caller : th[t].op = "create" <=> Creating(t)
  /\ \A t, u \in Caller : Creating(t) /\ Creating(u) => t = u
  /\ \A t \in Caller : At(t, "spawn") => Untouched
  /\ Untouched => /\ ~registered /\ eng = None /\ armed = 0 /\ checked = 0
                  /\ \A t \in Caller : th[t].at \in {"idle", "spawn"}

\* While the first engine names the session, nothing else of it runs.
NamingInv ==
  \A e \in Engine : reader[e] = "naming" =>
    /\ est[e] = "idle" /\ stdin[e] = <<>> /\ \A f \in Engine \ {e} : est[f] = "free"
    /\ ~registered /\ eng = None /\ armed = 0 /\ checked = 0
    /\ \A t \in Caller : th[t].at \in {"idle", "name"}

\* An engine that works is the session's, or names it.
WorksInv == \A e \in Engine : Alive(e) => eng = e \/ reader[e] = "naming"

\* Who read of a turn is there to clear it.
BusyInv == inTurn => \E e \in Engine : reader[e] \in {"read", "exited"}

\* The inductive invariant.
IInv == Types /\ UsedInv /\ CreateInv /\ NamingInv /\ WorksInv /\ BusyInv

-----------------------------------------------------------------------------
(* What the operators that the actions share do                             *)

\* Engines are numbered from 1, and 0 is none.
LEMMA EngineNumbers == None \notin Engine /\ Engine \subseteq Nat /\ 1 \in Engine
BY SessionAssumption DEF None, Engine

\* What a caller's record can be.
Record == [op : AllOps \union {"none"}, at : Steps, e : Engine \union {None}]

LEMMA CallSet ==
  ASSUME CallTypes, NEW t \in Caller, NEW r \in Record, r.at \in Stopping => r.e \in Engine,
         th' = [th EXCEPT ![t] = r]
  PROVE  CallTypes' /\ th'[t] = r /\ \A u \in Caller \ {t} : th'[u] = th[u]
<1>1. th' \in [Caller -> Record] /\ th'[t] = r /\ \A u \in Caller \ {t} : th'[u] = th[u]
  BY DEF CallTypes, Record
<1>2. \A u \in Caller : th'[u].at \in Stopping => th'[u].e \in Engine
  BY <1>1 DEF CallTypes
<1> QED
  BY <1>1, <1>2 DEF CallTypes, Record

\* A caller that goes on keeps its operation; the others stay where they are.
LEMMA GoMoves ==
  ASSUME CallTypes, NEW t \in Caller, NEW step \in Steps \ Stopping, Go(t, step)
  PROVE  /\ CallTypes'
         /\ th'[t].op = th[t].op /\ th'[t].at = step
         /\ \A u \in Caller \ {t} : th'[u] = th[u]
<1> DEFINE r == [th[t] EXCEPT !.at = step]
<1>1. r \in Record /\ r.op = th[t].op /\ r.at = step
  BY DEF CallTypes, Record
<1>2. th' = [th EXCEPT ![t] = r]
  BY DEF Go
<1> QED
  BY <1>1, <1>2, CallSet

\* The stop frame written, the wait begins, for the same engine.
LEMMA WaitMoves ==
  ASSUME CallTypes, NEW t \in Caller, At(t, "frame"), Go(t, "wait")
  PROVE  /\ CallTypes'
         /\ th'[t].op = th[t].op /\ th'[t].at = "wait"
         /\ \A u \in Caller \ {t} : th'[u] = th[u]
<1> DEFINE r == [th[t] EXCEPT !.at = "wait"]
<1>1. r \in Record /\ r.op = th[t].op /\ r.at = "wait" /\ r.e = th[t].e
  BY DEF CallTypes, Record, Steps
<1>2. r.e \in Engine
  BY <1>1 DEF CallTypes, At, Stopping
<1>3. th' = [th EXCEPT ![t] = r]
  BY DEF Go
<1> QED
  BY <1>1, <1>2, <1>3, CallSet

LEMMA EndMoves ==
  ASSUME CallTypes, NEW t \in Caller, End(t)
  PROVE  /\ CallTypes'
         /\ th'[t].op = "none" /\ th'[t].at = "idle"
         /\ \A u \in Caller \ {t} : th'[u] = th[u]
<1>1. Idle \in Record /\ Idle.op = "none" /\ Idle.at = "idle" /\ Idle.at \notin Stopping
  BY DEF Idle, Record, Steps, Stopping
<1> QED
  BY <1>1, CallSet DEF End

LEMMA AfterStopSteps ==
  \A op : AfterStop(op) \in {"args", "closelog", "drop"}
BY DEF AfterStop

\* A spawned engine was the next one in order.
LEMMA SpawnedOne ==
  ASSUME ProcTypes, UsedInv, NEW e \in Engine, NEW step \in {"read", "naming"}, Spawned(e, step)
  PROVE  /\ ProcTypes' \/ eng' \notin Engine \union {None}
         /\ UsedInv'
         /\ est[e] = "free" /\ est'[e] = "idle" /\ reader'[e] = step /\ stdin' = stdin
         /\ \A f \in Engine \ {e} : est'[f] = est[f] /\ reader'[f] = reader[f]
<1>1. /\ est[e] = "free" /\ est'[e] = "idle" /\ reader'[e] = step /\ stdin' = stdin
      /\ \A f \in Engine \ {e} : est'[f] = est[f] /\ reader'[f] = reader[f]
  BY DEF ProcTypes, Spawned
<1>2. ProcTypes' \/ eng' \notin Engine \union {None}
  BY DEF ProcTypes, Spawned
<1>3. ASSUME NEW a \in Engine, NEW b \in Engine, a < b, est'[a] = "free" PROVE est'[b] = "free"
  <2>1. a # e /\ est[a] = "free" /\ est[b] = "free"
    BY <1>1, <1>3 DEF UsedInv
  <2>2. b # e
    <3>1. a \in 1..(e - 1) \/ b # e
      BY <1>3, SessionAssumption DEF Engine
    <3> QED
      BY <3>1, <2>1 DEF Spawned
  <2> QED
    BY <1>1, <2>1, <2>2
<1> QED
  BY <1>1, <1>2, <1>3 DEF UsedInv

\* An engine that died was at work or idle; the others stay as they are.
LEMMA DiesOne ==
  ASSUME ProcTypes, NEW e \in Engine, Dies(e)
  PROVE  /\ est' \in [Engine -> {"free", "idle", "turn", "gone", "held"}]
         /\ stdin' \in [Engine -> Seq({"msg", "stop"})]
         /\ est'[e] \in {"gone", "held"} /\ stdin'[e] = <<>>
         /\ \A f \in Engine \ {e} : est'[f] = est[f] /\ stdin'[f] = stdin[f]
<1>1. PICK as \in {"gone", "held"} : est' = [est EXCEPT ![e] = as]
  BY DEF Dies
<1>2. stdin' = [stdin EXCEPT ![e] = <<>>] /\ <<>> \in Seq({"msg", "stop"})
  BY DEF Dies
<1> QED
  BY <1>1, <1>2 DEF ProcTypes

\* What ensureRunning starts, it found no engine and no closing before.
LEMMA EnsureStartsOne ==
  ASSUME ProcTypes, UsedInv, NEW e \in Engine, EnsureStarts(e)
  PROVE  /\ eng = None /\ eng' = e /\ ProcTypes' /\ UsedInv'
         /\ est[e] = "free" /\ est'[e] = "idle" /\ reader'[e] = "read" /\ stdin' = stdin
         /\ \A f \in Engine \ {e} : est'[f] = est[f] /\ reader'[f] = reader[f]
<1>1. eng = None /\ eng' = e /\ Spawned(e, "read")
  BY DEF EnsureStarts, Attached
<1> QED
  BY <1>1, SpawnedOne

\* A create that fails leaves the engines as they are, or the one it waits for ends.
LEMMA CreateFailsOne ==
  ASSUME ProcTypes, NEW t \in Caller, CreateFails(t)
  PROVE  /\ End(t) /\ UNCHANGED <<registered, eng, armed, checked, inTurn>>
         /\ \/ At(t, "spawn") /\ UNCHANGED <<est, stdin, reader>>
            \/ /\ At(t, "name")
               /\ \E e \in Engine :
                    /\ reader[e] = "naming" /\ reader'[e] = "done"
                    /\ est'[e] \in {"gone", "held"} /\ stdin'[e] = <<>>
                    /\ \A f \in Engine \ {e} : /\ reader'[f] = reader[f] /\ est'[f] = est[f]
                                                /\ stdin'[f] = stdin[f]
         /\ (eng \in Engine \union {None} => ProcTypes')
<1>1. /\ End(t) /\ UNCHANGED <<registered, eng, armed, checked, inTurn>>
      /\ \/ At(t, "spawn") /\ UNCHANGED <<est, stdin, reader>>
         \/ /\ At(t, "name")
            /\ \E e \in Engine : /\ reader[e] = "naming" /\ Dies(e)
                                  /\ reader' = [reader EXCEPT ![e] = "done"]
  BY DEF CreateFails, serviceVars, engVars, timerVars, actVars, procVars
<1>2. CASE UNCHANGED <<est, stdin, reader>> /\ At(t, "spawn")
  BY <1>1, <1>2 DEF ProcTypes
<1>3. CASE At(t, "name") /\ \E e \in Engine : /\ reader[e] = "naming" /\ Dies(e)
                                              /\ reader' = [reader EXCEPT ![e] = "done"]
  <2>1. PICK e \in Engine : /\ reader[e] = "naming" /\ Dies(e)
                            /\ reader' = [reader EXCEPT ![e] = "done"]
    BY <1>3
  <2>2. /\ est' \in [Engine -> {"free", "idle", "turn", "gone", "held"}]
        /\ stdin' \in [Engine -> Seq({"msg", "stop"})]
        /\ est'[e] \in {"gone", "held"} /\ stdin'[e] = <<>>
        /\ \A f \in Engine \ {e} : est'[f] = est[f] /\ stdin'[f] = stdin[f]
    BY <2>1, DiesOne
  <2>3. /\ reader' \in [Engine -> {"none", "naming", "read", "exited", "done"}]
        /\ reader'[e] = "done" /\ \A f \in Engine \ {e} : reader'[f] = reader[f]
    BY <2>1 DEF ProcTypes
  <2> QED
    BY <1>1, <1>3, <2>1, <2>2, <2>3 DEF ProcTypes
<1> QED
  BY <1>1, <1>2, <1>3

LEMMA EnsureDoes ==
  ASSUME NEW t \in Caller, Ensure(t)
  PROVE  /\ (Go(t, "write") /\ th[t].op = "send") \/ End(t)
         /\ At(t, "ensure")
         /\ (\E e \in Engine : EnsureStarts(e)) \/ UNCHANGED <<engVars, procVars>>
         /\ UNCHANGED <<serviceVars, timerVars, actVars>>
BY DEF Ensure, EnsureRunning, EnsureFails

LEMMA TimerRestartsDoes ==
  ASSUME TimerRestarts
  PROVE  /\ checked > 0 /\ checked' = checked - 1
         /\ (\E e \in Engine : EnsureStarts(e)) \/ UNCHANGED <<engVars, procVars>>
         /\ UNCHANGED <<serviceVars, armed, actVars, th>>
BY DEF TimerRestarts, EnsureRunning, EnsureFails

-----------------------------------------------------------------------------
(* One lemma per conjunct, in each one step per action                      *)

\* Every step keeps the types of the engines.
LEMMA ProcStep ==
  ASSUME Types, UsedInv, [Next]_vars
  PROVE  ProcTypes'
<1>1. ASSUME UNCHANGED <<eng, est, stdin, reader>> PROVE ProcTypes'
  BY <1>1 DEF Types, ProcTypes
<1>2. CASE UNCHANGED vars
  BY <1>1, <1>2 DEF vars, serviceVars, engVars, timerVars, actVars, procVars
<1>3. ASSUME NEW t \in Caller,
           \/ Begin(t) \/ CreateRegisters(t) \/ Subscribe(t) \/ StopBegins(t) \/ StopDone(t)
           \/ StopGivesUp(t) \/ DropChecks(t) \/ LogCloses(t) \/ Remove(t) \/ SetFlags(t)
           \/ SetPersist(t)
    PROVE  ProcTypes'
  BY <1>1, <1>3 DEF Begin, At, Begins, FirstStep, Reapable, CreateRegisters, Subscribe,
     StopBegins, StopDone, StopGivesUp, DropChecks, LogCloses, Remove, SetFlags, SetPersist,
     serviceVars, engVars, timerVars, actVars, procVars
<1>4. ASSUME NEW e \in Engine,
           ReadEvent(e)
    PROVE  ProcTypes'
  BY <1>1, <1>4 DEF ReadEvent, serviceVars, engVars, timerVars, actVars, procVars
<1>5. CASE \/ TimerFires \/ TimerTells
          \/ Displaced \/ Detach \/ IdleStopPasses \/ RestartWindowPasses
  BY <1>1, <1>5 DEF TimerFires, TimerTells, Displaced, Detach, IdleStopPasses,
     RestartWindowPasses, serviceVars, engVars, timerVars, actVars, procVars
<1>6. ASSUME NEW t \in Caller, CreateSpawns(t) PROVE ProcTypes'
  BY <1>6, EngineNumbers, SpawnedOne, DiesOne DEF Types, ProcTypes, CreateSpawns, At,
     serviceVars, engVars, timerVars, actVars, procVars
<1>7. ASSUME NEW t \in Caller, CreateAttaches(t) PROVE ProcTypes'
  BY <1>7, EngineNumbers, SpawnedOne, DiesOne DEF Types, ProcTypes, CreateAttaches, At,
     Attached, serviceVars, engVars, timerVars, actVars, procVars
<1>8. ASSUME NEW t \in Caller, Ensure(t) PROVE ProcTypes'
  <2>1. CASE \E f \in Engine : EnsureStarts(f)
    BY <1>8, <2>1, EnsureStartsOne, EnsureDoes, GoMoves, EndMoves DEF Types, ProcTypes, Steps
  <2>2. CASE UNCHANGED <<engVars, procVars>>
    BY <1>8, <2>2, EnsureDoes, GoMoves, EndMoves DEF Types, ProcTypes, Steps, engVars, procVars
  <2> QED
    BY <1>8, <2>1, <2>2, EnsureDoes
<1>9. ASSUME NEW t \in Caller, Write(t) PROVE ProcTypes'
  BY <1>9, EngineNumbers, SpawnedOne, DiesOne DEF Types, ProcTypes, Write, At, Alive,
     serviceVars, engVars, timerVars, actVars, procVars
<1>10. ASSUME NEW t \in Caller, StopWrites(t) PROVE ProcTypes'
  <2> DEFINE e == th[t].e
  <2>1. e \in Engine /\ UNCHANGED <<eng, est, reader>>
        /\ stdin' \in {stdin, [stdin EXCEPT ![e] = Append(@, "stop")]}
    BY <1>10 DEF StopWrites, Types, CallTypes, At, Stopping, engVars
  <2> HIDE DEF e
  <2>2. Append(stdin[e], "stop") \in Seq({"msg", "stop"})
    BY <2>1 DEF Types, ProcTypes
  <2> QED
    BY <2>1, <2>2 DEF Types, ProcTypes
<1>11. ASSUME NEW t \in Caller, StopKills(t) PROVE ProcTypes'
  <2> DEFINE e == th[t].e
  <2>1. e \in Engine /\ At(t, "wait") /\ Alive(e) /\ Dies(e) /\ UNCHANGED <<eng, th, reader>>
    BY <1>11 DEF StopKills, Types, CallTypes, At, Stopping, engVars
  <2> HIDE DEF e
  <2>2. est[e] # "free" /\ est'[e] \notin {"free", "idle", "turn"} /\ stdin'[e] = <<>>
    BY <2>1, DiesOne DEF Alive, Types
  <2>3. \A f \in Engine \ {e} : est'[f] = est[f] /\ stdin'[f] = stdin[f]
    BY <2>1, DiesOne DEF Types
  <2> QED
    BY <2>1, <2>2, <2>3, DiesOne DEF Types, ProcTypes
<1>12. ASSUME NEW e \in Engine, EngineTakes(e) PROVE ProcTypes'
  BY <1>12, EngineNumbers, SpawnedOne, DiesOne DEF Types, ProcTypes, EngineTakes, EngineOnly,
     Alive, serviceVars, engVars, timerVars, actVars, procVars
<1>13. ASSUME NEW e \in Engine, EngineTurnEnds(e) PROVE ProcTypes'
  BY <1>13, EngineNumbers, SpawnedOne, DiesOne DEF Types, ProcTypes, EngineTurnEnds, EngineOnly,
     serviceVars, engVars, timerVars, actVars, procVars
<1>14. ASSUME NEW e \in Engine, EngineObeysStop(e) PROVE ProcTypes'
  <2>1. Alive(e) /\ Dies(e) /\ UNCHANGED <<eng, reader>>
    BY <1>14 DEF EngineObeysStop, EngineCrashes, EngineOnly, engVars
  <2>2. est[e] # "free" /\ est'[e] \notin {"free", "idle", "turn"} /\ stdin'[e] = <<>>
    BY <2>1, DiesOne DEF Alive, Types
  <2>3. \A f \in Engine \ {e} : est'[f] = est[f] /\ stdin'[f] = stdin[f]
    BY <2>1, DiesOne DEF Types
  <2> QED
    BY <2>1, <2>2, <2>3, DiesOne DEF Types, ProcTypes
<1>15. ASSUME NEW e \in Engine, EngineCrashes(e) PROVE ProcTypes'
  <2>1. Alive(e) /\ Dies(e) /\ UNCHANGED <<eng, reader>>
    BY <1>15 DEF EngineObeysStop, EngineCrashes, EngineOnly, engVars
  <2>2. est[e] # "free" /\ est'[e] \notin {"free", "idle", "turn"} /\ stdin'[e] = <<>>
    BY <2>1, DiesOne DEF Alive, Types
  <2>3. \A f \in Engine \ {e} : est'[f] = est[f] /\ stdin'[f] = stdin[f]
    BY <2>1, DiesOne DEF Types
  <2> QED
    BY <2>1, <2>2, <2>3, DiesOne DEF Types, ProcTypes
<1>16. ASSUME NEW e \in Engine, OutputCloses(e) PROVE ProcTypes'
  BY <1>16, EngineNumbers, SpawnedOne, DiesOne DEF Types, ProcTypes, OutputCloses, EngineOnly,
     serviceVars, engVars, timerVars, actVars, procVars
<1>17. ASSUME NEW e \in Engine, EngineExited(e) PROVE ProcTypes'
  BY <1>17, EngineNumbers, SpawnedOne, DiesOne DEF Types, ProcTypes, EngineExited,
     RestartOrGiveUp, serviceVars, engVars, timerVars, actVars, procVars
<1>18. ASSUME NEW e \in Engine, ReaderEnds(e) PROVE ProcTypes'
  BY <1>18, EngineNumbers, SpawnedOne, DiesOne DEF Types, ProcTypes, ReaderEnds, serviceVars,
     engVars, timerVars, actVars, procVars
<1>19. CASE TimerRestarts
  <2>1. CASE \E f \in Engine : EnsureStarts(f)
    BY <1>19, <2>1, EnsureStartsOne, TimerRestartsDoes DEF Types, ProcTypes
  <2>2. CASE UNCHANGED <<engVars, procVars>>
    BY <1>19, <2>2, TimerRestartsDoes DEF Types, ProcTypes, engVars, procVars
  <2> QED
    BY <1>19, <2>1, <2>2, TimerRestartsDoes
<1>20. ASSUME NEW t \in Caller, CreateFails(t) PROVE ProcTypes'
  BY <1>20, CreateFailsOne DEF Types, ProcTypes
<1> QED
  BY <1>1, <1>2, <1>3, <1>4, <1>5, <1>6, <1>7, <1>8, <1>9, <1>10, <1>11, <1>12, <1>13, <1>14,
     <1>15, <1>16, <1>17, <1>18, <1>19, <1>20 DEF Next, CallerStep, ReaderStep

\* A call that creates nothing stays so, and the other calls stay where they are.
Moved(t) ==
  /\ th[t].at \notin {"idle", "spawn", "name", "register"}
  /\ th'[t].at \notin {"spawn", "name", "register"}
  /\ th'[t].op \in {th[t].op, "none"}
  /\ \A u \in Caller \ {t} : th'[u] = th[u]

\* The steps of calls that create nothing, but for the kill, which moves no caller.
OtherStep(t) ==
  \/ Subscribe(t) \/ Ensure(t) \/ Write(t)
  \/ StopBegins(t) \/ StopWrites(t) \/ StopDone(t) \/ StopGivesUp(t)
  \/ DropChecks(t) \/ LogCloses(t) \/ Remove(t) \/ SetFlags(t) \/ SetPersist(t)

LEMMA OtherMoves ==
  ASSUME Types, NEW t \in Caller, OtherStep(t)
  PROVE  CallTypes' /\ Moved(t)
<1>1. /\ CallTypes
      /\ {"ensure", "write", "args", "closelog", "remove", "drop"} \subseteq Steps \ Stopping
  BY DEF Types, Steps, Stopping
<1>2. ASSUME NEW from \in {"subscribe", "ensure", "write", "stop", "wait", "drop", "closelog",
                           "remove", "args", "persist"},
             At(t, from),
             \/ End(t)
             \/ \E to \in {"ensure", "write", "args", "closelog", "remove", "drop"} : Go(t, to)
      PROVE  CallTypes' /\ Moved(t)
  <2>1. CASE End(t)
    BY <1>1, <1>2, <2>1, EndMoves DEF At, Moved
  <2>2. ASSUME NEW to \in {"ensure", "write", "args", "closelog", "remove", "drop"}, Go(t, to)
        PROVE  CallTypes' /\ Moved(t)
    <3>1. to \in Steps \ Stopping
      BY <1>1
    <3>2. /\ CallTypes'
          /\ th'[t].op = th[t].op /\ th'[t].at = to
          /\ \A u \in Caller \ {t} : th'[u] = th[u]
      BY <1>1, <2>2, <3>1, GoMoves
    <3> QED
      BY <1>2, <3>2 DEF At, Moved
  <2> QED
    BY <1>2, <2>1, <2>2
<1>3. CASE Subscribe(t)
  BY <1>2, <1>3 DEF Subscribe
<1>4. CASE Ensure(t)
  BY <1>2, <1>4, EnsureDoes
<1>5. CASE Write(t)
  BY <1>2, <1>5 DEF Write
<1>6. CASE StopBegins(t)
  <2>1. CASE eng = None
    BY <1>2, <1>6, <2>1, AfterStopSteps DEF StopBegins
  <2>2. CASE eng # None
    <3> DEFINE r == [op |-> th[t].op, at |-> "frame", e |-> eng]
    <3>1. th[t].op \in AllOps \union {"none"} /\ eng \in Engine
      BY <1>1, <2>2 DEF Types, ProcTypes, CallTypes
    <3>2. r \in Record /\ r.at = "frame" /\ r.op = th[t].op /\ r.e \in Engine
      BY <3>1 DEF Record, Steps
    <3>3. th' = [th EXCEPT ![t] = r]
      BY <1>1, <1>6, <2>2 DEF StopBegins, CallTypes
    <3>4. CallTypes' /\ th'[t] = r /\ \A u \in Caller \ {t} : th'[u] = th[u]
      BY <1>1, <3>2, <3>3, CallSet
    <3> QED
      BY <1>6, <3>2, <3>4 DEF StopBegins, At, Moved
  <2> QED
    BY <2>1, <2>2
<1>7. CASE StopDone(t) \/ StopGivesUp(t)
  BY <1>2, <1>7, AfterStopSteps DEF StopDone, StopGivesUp
<1>8. CASE DropChecks(t) \/ LogCloses(t) \/ Remove(t)
  BY <1>2, <1>8 DEF DropChecks, LogCloses, Remove
<1>9. CASE SetFlags(t) \/ SetPersist(t)
  BY <1>2, <1>9 DEF SetFlags, SetPersist
<1>10. CASE StopWrites(t)
  <2>1. At(t, "frame") /\ Go(t, "wait")
    BY <1>10 DEF StopWrites
  <2> QED
    BY <1>1, <2>1, WaitMoves DEF Moved, At
<1> QED
  BY <1>3, <1>4, <1>5, <1>6, <1>7, <1>8, <1>9, <1>10 DEF OtherStep

\* A call begins at its operation's first step; only a creation at "spawn".
LEMMA BeginMoves ==
  ASSUME Types, NEW t \in Caller, Begin(t)
  PROVE  /\ CallTypes' /\ th[t].at = "idle"
         /\ \A u \in Caller \ {t} : th'[u] = th[u]
         /\ \/ th'[t].op = "none" /\ th'[t].at = "idle"
            \/ /\ th'[t].op = "create" /\ th'[t].at = "spawn"
               /\ ~registered /\ est[1] = "free"
               /\ \A u \in Caller : th[u].op # "create"
            \/ /\ th'[t].op # "create" /\ registered
               /\ th'[t].at \in {"subscribe", "ensure", "persist", "stop"}
<1>1. PICK op \in Ops :
        /\ Begins(op) /\ (op = "create" => \A u \in Caller : th[u].op # "create")
        /\ th' = [th EXCEPT ![t] = IF op = "close" /\ ~registered THEN Idle
                                   ELSE [op |-> op, at |-> FirstStep(op), e |-> None]]
  BY DEF Begin
<1>2. CallTypes /\ th[t].at = "idle" /\ op \in AllOps
  BY SessionAssumption DEF Types, Begin, At
<1>3. CASE op = "close" /\ ~registered
  <2>1. End(t)
    BY <1>1, <1>3 DEF End
  <2> QED
    BY <1>2, <2>1, EndMoves
<1>4. CASE ~(op = "close" /\ ~registered)
  <2> DEFINE r == [op |-> op, at |-> FirstStep(op), e |-> None]
  <2>1. r \in Record /\ r.op = op /\ r.at = FirstStep(op) /\ r.at \notin Stopping
    BY <1>2 DEF Record, Steps, Stopping, FirstStep, AllOps
  <2>2. CallTypes' /\ th'[t] = r /\ \A u \in Caller \ {t} : th'[u] = th[u]
    BY <1>1, <1>2, <1>4, <2>1, CallSet
  <2>3. \/ op = "create" /\ FirstStep(op) = "spawn" /\ ~registered /\ est[1] = "free"
        \/ /\ op # "create" /\ registered
           /\ FirstStep(op) \in {"subscribe", "ensure", "persist", "stop"}
    BY <1>1, <1>2, <1>4 DEF Begins, FirstStep, AllOps, Reapable
  <2> QED
    BY <1>1, <1>2, <2>1, <2>2, <2>3
<1> QED
  BY <1>3, <1>4

\* The steps of a creation.
LEMMA CreateMoves ==
  ASSUME Types, NEW t \in Caller,
         CreateSpawns(t) \/ CreateFails(t) \/ CreateAttaches(t) \/ CreateRegisters(t)
  PROVE  /\ CallTypes' /\ \A u \in Caller \ {t} : th'[u] = th[u]
         /\ CreateSpawns(t) => th[t].at = "spawn" /\ th'[t].at = "name" /\ th'[t].op = th[t].op
         /\ CreateFails(t) => /\ th[t].at \in {"spawn", "name"}
                              /\ th'[t].at = "idle" /\ th'[t].op = "none"
         /\ CreateAttaches(t) => th[t].at = "name" /\ th'[t].at = "register" /\ th'[t].op = th[t].op
         /\ CreateRegisters(t) => th[t].at = "register" /\ th'[t].at = "idle" /\ th'[t].op = "none"
<1>1. CallTypes /\ {"name", "register"} \subseteq Steps \ Stopping
  BY DEF Types, Steps, Stopping
<1>2. ASSUME CreateSpawns(t)
      PROVE  /\ CallTypes' /\ th[t].at = "spawn" /\ th'[t].at = "name" /\ th'[t].op = th[t].op
             /\ \A u \in Caller \ {t} : th'[u] = th[u]
  BY <1>1, <1>2, GoMoves DEF CreateSpawns, At
<1>3. ASSUME CreateAttaches(t)
      PROVE  /\ CallTypes' /\ th[t].at = "name" /\ th'[t].at = "register" /\ th'[t].op = th[t].op
             /\ \A u \in Caller \ {t} : th'[u] = th[u]
  BY <1>1, <1>3, GoMoves DEF CreateAttaches, At
<1>4. ASSUME CreateRegisters(t)
      PROVE  /\ CallTypes' /\ th[t].at = "register" /\ th'[t].at = "idle" /\ th'[t].op = "none"
             /\ \A u \in Caller \ {t} : th'[u] = th[u]
  BY <1>1, <1>4, EndMoves DEF CreateRegisters, At
<1>5. ASSUME CreateFails(t)
      PROVE  /\ CallTypes' /\ th[t].at \in {"spawn", "name"} /\ th'[t].at = "idle"
             /\ th'[t].op = "none" /\ \A u \in Caller \ {t} : th'[u] = th[u]
  BY <1>1, <1>5, EndMoves DEF CreateFails, At
<1> QED
  BY <1>2, <1>3, <1>4, <1>5

\* The steps that move no caller.
EngineStep ==
  \E e \in Engine : \/ EngineTakes(e) \/ EngineTurnEnds(e) \/ EngineObeysStop(e)
                    \/ EngineCrashes(e) \/ OutputCloses(e) \/ ReaderStep(e)

LEMMA StepKinds ==
  ASSUME Next
  PROVE  \/ \E t \in Caller : \/ Begin(t) \/ CreateSpawns(t) \/ CreateFails(t)
                               \/ CreateAttaches(t) \/ CreateRegisters(t)
         \/ \E t \in Caller : OtherStep(t)
         \/ \E t \in Caller : StopKills(t)
         \/ EngineStep \/ TimerFires \/ TimerRestarts \/ TimerTells
         \/ Displaced \/ Detach \/ IdleStopPasses \/ RestartWindowPasses
BY DEF Next, CallerStep, OtherStep, EngineStep

\* Every step keeps the types of the calls.
LEMMA CallStep ==
  ASSUME Types, [Next]_vars
  PROVE  CallTypes'
<1>1. ASSUME UNCHANGED th PROVE CallTypes'
  BY <1>1 DEF Types, CallTypes, At
<1>2. CASE \E t \in Caller : \/ Begin(t) \/ CreateSpawns(t) \/ CreateFails(t)
                             \/ CreateAttaches(t) \/ CreateRegisters(t) \/ OtherStep(t)
  BY <1>2, BeginMoves, CreateMoves, OtherMoves
<1>3. CASE (\E t \in Caller : StopKills(t)) \/ UNCHANGED vars
  BY <1>1, <1>3 DEF StopKills, vars
<1>4. CASE EngineStep
  BY <1>1, <1>4 DEF EngineStep, EngineTakes, EngineTurnEnds, EngineObeysStop, EngineCrashes,
     OutputCloses, ReaderStep, ReadEvent, EngineExited, ReaderEnds, EngineOnly
<1>5. CASE \/ TimerFires \/ TimerRestarts \/ TimerTells
          \/ Displaced \/ Detach \/ IdleStopPasses \/ RestartWindowPasses
  BY <1>1, <1>5, TimerRestartsDoes DEF TimerFires, TimerTells, Displaced, Detach, IdleStopPasses,
     RestartWindowPasses
<1> QED
  BY <1>2, <1>3, <1>4, <1>5, StepKinds

\* Every step keeps the order of the engines.
LEMMA UsedStep ==
  ASSUME Types, UsedInv, WorksInv, NamingInv, [Next]_vars
  PROVE  UsedInv'
<1>1. ASSUME UNCHANGED <<est, reader, stdin>> PROVE UsedInv'
  BY <1>1 DEF UsedInv
<1>2. CASE UNCHANGED vars
  BY <1>1, <1>2 DEF vars, serviceVars, engVars, timerVars, actVars, procVars
<1>3. ASSUME NEW t \in Caller,
           \/ Begin(t) \/ CreateRegisters(t) \/ Subscribe(t) \/ StopBegins(t) \/ StopDone(t)
           \/ StopGivesUp(t) \/ DropChecks(t) \/ LogCloses(t) \/ Remove(t) \/ SetFlags(t)
           \/ SetPersist(t)
    PROVE  UsedInv'
  BY <1>1, <1>3 DEF Begin, At, Begins, FirstStep, Reapable, CreateRegisters, Subscribe,
     StopBegins, StopDone, StopGivesUp, DropChecks, LogCloses, Remove, SetFlags, SetPersist,
     serviceVars, engVars, timerVars, actVars, procVars
<1>4. ASSUME NEW e \in Engine,
           ReadEvent(e)
    PROVE  UsedInv'
  BY <1>1, <1>4 DEF ReadEvent, serviceVars, engVars, timerVars, actVars, procVars
<1>5. CASE \/ TimerFires \/ TimerTells
          \/ Displaced \/ Detach \/ IdleStopPasses \/ RestartWindowPasses
  BY <1>1, <1>5 DEF TimerFires, TimerTells, Displaced, Detach, IdleStopPasses,
     RestartWindowPasses, serviceVars, engVars, timerVars, actVars, procVars
<1>6. ASSUME NEW t \in Caller, CreateSpawns(t) PROVE UsedInv'
  BY <1>6, EngineNumbers, SpawnedOne, DiesOne DEF Types, ProcTypes, UsedInv, WorksInv,
     NamingInv, CreateSpawns, At, serviceVars, engVars, timerVars, actVars, procVars
<1>7. ASSUME NEW t \in Caller, CreateAttaches(t) PROVE UsedInv'
  BY <1>7, EngineNumbers, SpawnedOne, DiesOne DEF Types, ProcTypes, UsedInv, WorksInv,
     NamingInv, CreateAttaches, At, Attached, serviceVars, engVars, timerVars, actVars, procVars
<1>8. ASSUME NEW t \in Caller, Ensure(t) PROVE UsedInv'
  <2>1. CASE \E f \in Engine : EnsureStarts(f)
    BY <1>8, <2>1, EnsureStartsOne, EnsureDoes, GoMoves, EndMoves DEF Types, ProcTypes, UsedInv,
       WorksInv, NamingInv, Steps
  <2>2. CASE UNCHANGED <<engVars, procVars>>
    BY <1>8, <2>2, EnsureDoes, GoMoves, EndMoves DEF Types, ProcTypes, UsedInv, WorksInv,
       NamingInv, Steps, engVars, procVars
  <2> QED
    BY <1>8, <2>1, <2>2, EnsureDoes
<1>9. ASSUME NEW t \in Caller, Write(t) PROVE UsedInv'
  BY <1>9, EngineNumbers, SpawnedOne, DiesOne DEF Types, ProcTypes, UsedInv, WorksInv,
     NamingInv, Write, At, Alive, serviceVars, engVars, timerVars, actVars, procVars
<1>10. ASSUME NEW t \in Caller, StopWrites(t) PROVE UsedInv'
  <2> DEFINE e == th[t].e
  <2>1. /\ e \in Engine /\ UNCHANGED <<est, reader>>
        /\ \/ stdin' = stdin
           \/ Alive(e) /\ stdin' = [stdin EXCEPT ![e] = Append(@, "stop")]
    BY <1>10 DEF StopWrites, Types, CallTypes, At, Stopping
  <2> HIDE DEF e
  <2>2. \A f \in Engine : est[f] = "free" => stdin'[f] = stdin[f]
    BY <2>1 DEF Alive, Types, ProcTypes
  <2> QED
    BY <2>1, <2>2 DEF UsedInv
<1>11. ASSUME NEW t \in Caller, StopKills(t) PROVE UsedInv'
  <2> DEFINE e == th[t].e
  <2>1. e \in Engine /\ At(t, "wait") /\ Alive(e) /\ Dies(e) /\ UNCHANGED <<eng, th, reader>>
    BY <1>11 DEF StopKills, Types, CallTypes, At, Stopping, engVars
  <2> HIDE DEF e
  <2>2. est[e] # "free" /\ est'[e] \notin {"free", "idle", "turn"} /\ stdin'[e] = <<>>
    BY <2>1, DiesOne DEF Alive, Types
  <2>3. \A f \in Engine \ {e} : est'[f] = est[f] /\ stdin'[f] = stdin[f]
    BY <2>1, DiesOne DEF Types
  <2>4. \A f \in Engine : est'[f] = "free" <=> est[f] = "free"
    BY <2>2, <2>3
  <2>5. \A f \in Engine : est'[f] = "free" => stdin'[f] = <<>>
    BY <2>2, <2>3, <2>4 DEF UsedInv
  <2> QED
    BY <2>1, <2>4, <2>5 DEF UsedInv
<1>12. ASSUME NEW e \in Engine, EngineTakes(e) PROVE UsedInv'
  BY <1>12, EngineNumbers, SpawnedOne, DiesOne DEF Types, ProcTypes, UsedInv, WorksInv,
     NamingInv, EngineTakes, EngineOnly, Alive, serviceVars, engVars, timerVars, actVars,
     procVars
<1>13. ASSUME NEW e \in Engine, EngineTurnEnds(e) PROVE UsedInv'
  BY <1>13, EngineNumbers, SpawnedOne, DiesOne DEF Types, ProcTypes, UsedInv, WorksInv,
     NamingInv, EngineTurnEnds, EngineOnly, serviceVars, engVars, timerVars, actVars, procVars
<1>14. ASSUME NEW e \in Engine, EngineObeysStop(e) PROVE UsedInv'
  <2>1. Alive(e) /\ Dies(e) /\ UNCHANGED <<eng, reader>>
    BY <1>14 DEF EngineObeysStop, EngineCrashes, EngineOnly, engVars
  <2>2. est[e] # "free" /\ est'[e] \notin {"free", "idle", "turn"} /\ stdin'[e] = <<>>
    BY <2>1, DiesOne DEF Alive, Types
  <2>3. \A f \in Engine \ {e} : est'[f] = est[f] /\ stdin'[f] = stdin[f]
    BY <2>1, DiesOne DEF Types
  <2>4. \A f \in Engine : est'[f] = "free" <=> est[f] = "free"
    BY <2>2, <2>3
  <2>5. \A f \in Engine : est'[f] = "free" => stdin'[f] = <<>>
    BY <2>2, <2>3, <2>4 DEF UsedInv
  <2> QED
    BY <2>1, <2>4, <2>5 DEF UsedInv
<1>15. ASSUME NEW e \in Engine, EngineCrashes(e) PROVE UsedInv'
  <2>1. Alive(e) /\ Dies(e) /\ UNCHANGED <<eng, reader>>
    BY <1>15 DEF EngineObeysStop, EngineCrashes, EngineOnly, engVars
  <2>2. est[e] # "free" /\ est'[e] \notin {"free", "idle", "turn"} /\ stdin'[e] = <<>>
    BY <2>1, DiesOne DEF Alive, Types
  <2>3. \A f \in Engine \ {e} : est'[f] = est[f] /\ stdin'[f] = stdin[f]
    BY <2>1, DiesOne DEF Types
  <2>4. \A f \in Engine : est'[f] = "free" <=> est[f] = "free"
    BY <2>2, <2>3
  <2>5. \A f \in Engine : est'[f] = "free" => stdin'[f] = <<>>
    BY <2>2, <2>3, <2>4 DEF UsedInv
  <2> QED
    BY <2>1, <2>4, <2>5 DEF UsedInv
<1>16. ASSUME NEW e \in Engine, OutputCloses(e) PROVE UsedInv'
  BY <1>16, EngineNumbers, SpawnedOne, DiesOne DEF Types, ProcTypes, UsedInv, WorksInv,
     NamingInv, OutputCloses, EngineOnly, serviceVars, engVars, timerVars, actVars, procVars
<1>17. ASSUME NEW e \in Engine, EngineExited(e) PROVE UsedInv'
  BY <1>17, EngineNumbers, SpawnedOne, DiesOne DEF Types, ProcTypes, UsedInv, WorksInv,
     NamingInv, EngineExited, RestartOrGiveUp, serviceVars, engVars, timerVars, actVars,
     procVars
<1>18. ASSUME NEW e \in Engine, ReaderEnds(e) PROVE UsedInv'
  BY <1>18, EngineNumbers, SpawnedOne, DiesOne DEF Types, ProcTypes, UsedInv, WorksInv,
     NamingInv, ReaderEnds, serviceVars, engVars, timerVars, actVars, procVars
<1>19. CASE TimerRestarts
  <2>1. CASE \E f \in Engine : EnsureStarts(f)
    BY <1>19, <2>1, EnsureStartsOne, TimerRestartsDoes DEF Types, ProcTypes, UsedInv, WorksInv,
       NamingInv
  <2>2. CASE UNCHANGED <<engVars, procVars>>
    BY <1>19, <2>2, TimerRestartsDoes DEF Types, ProcTypes, UsedInv, WorksInv, NamingInv,
       engVars, procVars
  <2> QED
    BY <1>19, <2>1, <2>2, TimerRestartsDoes
<1>20. ASSUME NEW t \in Caller, CreateFails(t) PROVE UsedInv'
  <2>1. CASE UNCHANGED <<est, stdin, reader>>
    BY <1>1, <2>1
  <2>2. CASE ~UNCHANGED <<est, stdin, reader>>
    <3>1. PICK e \in Engine :
            /\ reader[e] = "naming" /\ reader'[e] = "done"
            /\ est'[e] \in {"gone", "held"} /\ stdin'[e] = <<>>
            /\ \A f \in Engine \ {e} : /\ reader'[f] = reader[f] /\ est'[f] = est[f]
                                        /\ stdin'[f] = stdin[f]
      BY <1>20, <2>2, CreateFailsOne DEF Types
    <3>2. est[e] = "idle"
      BY <3>1 DEF NamingInv
    <3>3. \A f \in Engine : est'[f] = "free" <=> est[f] = "free"
      BY <3>1, <3>2
    <3>4. \A f \in Engine : est'[f] = "free" <=> reader'[f] = "none"
      BY <3>1, <3>2, <3>3 DEF UsedInv
    <3>5. \A f \in Engine : est'[f] = "free" => stdin'[f] = <<>>
      BY <3>1, <3>3 DEF UsedInv
    <3> QED
      BY <3>3, <3>4, <3>5 DEF UsedInv
  <2> QED
    BY <2>1, <2>2
<1> QED
  BY <1>1, <1>2, <1>3, <1>4, <1>5, <1>6, <1>7, <1>8, <1>9, <1>10, <1>11, <1>12, <1>13, <1>14,
     <1>15, <1>16, <1>17, <1>18, <1>19, <1>20 DEF Next, CallerStep, ReaderStep

\* A step that moves a call that creates nothing, and frees no engine, finds
\* neither an unused session nor a naming engine.
LEMMA OtherAlone ==
  ASSUME CreateInv, NamingInv, NEW t \in Caller, Moved(t),
         \A e \in Engine : est[e] # "free" => est'[e] # "free",
         \A e \in Engine : reader'[e] = "naming" => reader[e] = "naming"
  PROVE  CreateInv' /\ NamingInv'
<1>1. ~Untouched /\ \A e \in Engine : reader[e] # "naming"
  BY DEF CreateInv, NamingInv, Moved, Untouched
<1>2. ~Untouched' /\ \A e \in Engine : reader'[e] # "naming"
  BY <1>1 DEF Untouched
<1>3. th[t].op # "create" /\ ~Creating(t) /\ th'[t].op # "create" /\ ~Creating(t)'
  BY DEF CreateInv, Creating, Moved
<1>4. \A u \in Caller : ~At(u, "spawn")
  BY <1>1 DEF CreateInv
<1>5. \A u \in Caller : (Creating(u)' <=> Creating(u)) /\ (th'[u].op = "create" <=> th[u].op = "create")
  BY <1>3 DEF Creating, Moved
<1>6. \A u \in Caller : ~At(u, "spawn")'
  BY <1>3, <1>4 DEF At, Creating, Moved
<1> QED
  BY <1>2, <1>5, <1>6 DEF CreateInv, NamingInv

\* So does a step that only an engine takes, or that ends one.
LEMMA EngineAlone ==
  ASSUME CreateInv, NamingInv, NEW e \in Engine, th' = th,
         est[e] # "free" /\ est'[e] # "free" /\ reader[e] # "naming" /\ reader'[e] # "naming",
         \A f \in Engine \ {e} : est'[f] = est[f] /\ reader'[f] = reader[f]
  PROVE  CreateInv' /\ NamingInv'
<1>1. ~Untouched /\ \A f \in Engine : reader[f] # "naming"
  BY DEF NamingInv, Untouched
<1>2. ~Untouched' /\ \A f \in Engine : reader'[f] # "naming"
  BY <1>1 DEF Untouched
<1> QED
  BY <1>1, <1>2 DEF CreateInv, NamingInv, Creating, At

\* What the steps of other calls and of engines do to the engines.
LEMMA OtherEngines ==
  ASSUME Types, UsedInv, NEW t \in Caller, OtherStep(t)
  PROVE  \A e \in Engine : /\ est[e] # "free" => est'[e] # "free"
                           /\ reader'[e] = "naming" => reader[e] = "naming"
<1>1. CASE UNCHANGED <<est, reader>>
  BY <1>1
<1>2. CASE Ensure(t)
  <2>1. ASSUME NEW f \in Engine, EnsureStarts(f)
        PROVE  \A e \in Engine : /\ est[e] # "free" => est'[e] # "free"
                                 /\ reader'[e] = "naming" => reader[e] = "naming"
    BY <2>1, EnsureStartsOne DEF Types
  <2> QED
    BY <1>1, <1>2, <2>1, EnsureDoes DEF procVars
<1>3. CASE ~Ensure(t)
  <2>1. UNCHANGED <<est, reader>>
    BY <1>3 DEF OtherStep, Subscribe, Write, StopBegins, StopWrites, StopDone, StopGivesUp,
       DropChecks, LogCloses, Remove, SetFlags, SetPersist, procVars
  <2> QED
    BY <1>1, <2>1
<1> QED
  BY <1>2, <1>3

LEMMA EngineSteps ==
  ASSUME Types, UsedInv, NamingInv, EngineStep
  PROVE  \E e \in Engine :
           /\ th' = th /\ UNCHANGED registered
           /\ est[e] # "free" /\ est'[e] # "free" /\ reader[e] # "naming" /\ reader'[e] # "naming"
           /\ \A f \in Engine \ {e} : est'[f] = est[f] /\ reader'[f] = reader[f]
<1> USE DEF Types, ProcTypes
<1>1. PICK e \in Engine : \/ EngineTakes(e) \/ EngineTurnEnds(e) \/ EngineObeysStop(e)
                          \/ EngineCrashes(e) \/ OutputCloses(e) \/ ReaderStep(e)
  BY DEF EngineStep
<1> DEFINE Goal ==
      /\ th' = th /\ UNCHANGED registered
      /\ est[e] # "free" /\ est'[e] # "free" /\ reader[e] # "naming" /\ reader'[e] # "naming"
      /\ \A f \in Engine \ {e} : est'[f] = est[f] /\ reader'[f] = reader[f]
<1>2. CASE EngineTakes(e) \/ EngineTurnEnds(e) \/ OutputCloses(e)
  <2>1. est[e] # "free" /\ reader[e] # "naming"
    BY <1>2 DEF EngineTakes, EngineTurnEnds, OutputCloses, Alive, NamingInv
  <2>2. /\ th' = th /\ UNCHANGED <<registered, reader>>
        /\ est'[e] # "free" /\ \A f \in Engine \ {e} : est'[f] = est[f]
    BY <1>2 DEF EngineTakes, EngineTurnEnds, OutputCloses, EngineOnly, serviceVars
  <2> QED
    BY <2>1, <2>2
<1>3. CASE EngineObeysStop(e) \/ EngineCrashes(e)
  <2>1. est[e] # "free" /\ reader[e] # "naming" /\ th' = th /\ UNCHANGED <<registered, reader>> /\ Dies(e)
    BY <1>3 DEF EngineObeysStop, EngineCrashes, EngineOnly, Alive, NamingInv, serviceVars
  <2> QED
    BY <2>1, DiesOne
<1>4. CASE ReaderStep(e)
  <2>1. /\ th' = th /\ UNCHANGED <<registered, est>> /\ reader[e] \in {"read", "exited"}
        /\ reader' \in {reader, [reader EXCEPT ![e] = "exited"], [reader EXCEPT ![e] = "done"]}
    BY <1>4 DEF ReaderStep, ReadEvent, EngineExited, ReaderEnds, serviceVars
  <2>2. est[e] # "free"
    BY <2>1 DEF UsedInv
  <2> QED
    BY <2>1, <2>2
<1> QED
  BY <1>1, <1>2, <1>3, <1>4

\* Every step keeps a creation alone, and a naming engine.
LEMMA AloneStep ==
  ASSUME Types, UsedInv, CreateInv, NamingInv, [Next]_vars
  PROVE  CreateInv' /\ NamingInv'
<1> USE DEF Types
<1>1. ASSUME UNCHANGED <<th, est, reader, stdin, registered, eng, armed, checked>>
      PROVE  CreateInv' /\ NamingInv'
  BY <1>1 DEF CreateInv, NamingInv, Creating, Untouched, At
<1>2. CASE UNCHANGED vars
  BY <1>1, <1>2 DEF vars, serviceVars, engVars, timerVars, procVars
<1>3. CASE TimerTells \/ Detach \/ IdleStopPasses \/ RestartWindowPasses
  BY <1>1, <1>3 DEF TimerTells, Detach, IdleStopPasses, RestartWindowPasses, serviceVars, engVars,
     timerVars, procVars
<1>4. ASSUME NEW t \in Caller, Begin(t) PROVE CreateInv' /\ NamingInv'
  <2>1. UNCHANGED <<registered, eng, armed, checked, est, reader, stdin>>
    BY <1>4 DEF Begin, engVars, timerVars, procVars
  <2>2. CASE th'[t].op = "none" /\ th'[t].at = "idle"
    BY <1>4, <2>1, <2>2, BeginMoves DEF CreateInv, NamingInv, Creating, Untouched, At
  <2>3. CASE th'[t].op = "create" /\ th'[t].at = "spawn"
    <3>1. ~registered /\ est[1] = "free" /\ (\A u \in Caller : th[u].op # "create")
      BY <1>4, <2>3, BeginMoves
    <3>2. Untouched
      <4>1. ASSUME NEW e \in Engine PROVE est[e] = "free"
        BY <3>1, <4>1, SessionAssumption DEF Engine, UsedInv
      <4> QED
        BY <4>1 DEF Untouched
    <3>3. \A e \in Engine : reader[e] # "naming"
      BY <3>2 DEF Untouched, UsedInv
    <3>4. \A u \in Caller \ {t} : th'[u] = th[u] /\ ~Creating(u)
      BY <1>4, <3>1, BeginMoves DEF CreateInv
    <3> QED
      BY <2>1, <2>3, <3>1, <3>2, <3>3, <3>4 DEF CreateInv, NamingInv, Creating, Untouched, At
  <2>4. CASE registered /\ th'[t].op # "create"
             /\ th'[t].at \in {"subscribe", "ensure", "persist", "stop"}
    <3>1. ~Untouched /\ \A e \in Engine : reader[e] # "naming"
      BY <2>4 DEF CreateInv, NamingInv
    <3>2. \A u \in Caller \ {t} : th'[u] = th[u]
      BY <1>4, BeginMoves
    <3> QED
      BY <2>1, <2>4, <3>1, <3>2 DEF CreateInv, NamingInv, Creating, Untouched, At
  <2> QED
    BY <1>4, <2>2, <2>3, <2>4, BeginMoves
<1>5. ASSUME NEW t \in Caller, CreateSpawns(t) PROVE CreateInv' /\ NamingInv'
  <2>1. PICK e \in Engine : Spawned(e, "naming")
    BY <1>5 DEF CreateSpawns
  <2>2. UNCHANGED <<registered, eng, armed, checked>>
    BY <1>5 DEF CreateSpawns, serviceVars, engVars, timerVars
  <2>3. /\ th[t].at = "spawn" /\ th'[t].at = "name" /\ th'[t].op = th[t].op
        /\ \A u \in Caller \ {t} : th'[u] = th[u]
    BY <1>5, CreateMoves
  <2>4. Untouched /\ ~registered /\ eng = None /\ armed = 0 /\ checked = 0
    BY <2>3 DEF CreateInv, At
  <2>5. \A u \in Caller \ {t} : th[u].at = "idle"
    BY <2>3, <2>4 DEF CreateInv, Creating
  <2>6. /\ est'[e] = "idle" /\ reader'[e] = "naming" /\ stdin' = stdin /\ stdin[e] = <<>>
        /\ \A f \in Engine \ {e} : est'[f] = "free" /\ reader'[f] = "none"
    BY <2>1, <2>4, SpawnedOne DEF Untouched, UsedInv
  <2>7. NamingInv'
    BY <2>2, <2>3, <2>4, <2>5, <2>6 DEF NamingInv, At
  <2>8. CreateInv'
    BY <2>3, <2>5, <2>6 DEF CreateInv, Creating, Untouched, At
  <2> QED
    BY <2>7, <2>8
<1>6. ASSUME NEW t \in Caller, CreateAttaches(t) PROVE CreateInv' /\ NamingInv'
  <2>1. PICK e \in Engine : reader[e] = "naming" /\ reader' = [reader EXCEPT ![e] = "read"]
    BY <1>6 DEF CreateAttaches
  <2>2. /\ th[t].at = "name" /\ th'[t].at = "register" /\ th'[t].op = th[t].op
        /\ \A u \in Caller \ {t} : th'[u] = th[u]
    BY <1>6, CreateMoves
  <2>3. est' = est
    BY <1>6 DEF CreateAttaches
  <2>4. est[e] = "idle" /\ \A f \in Engine \ {e} : est[f] = "free" /\ reader[f] = "none"
    BY <2>1 DEF NamingInv, UsedInv
  <2>5. \A f \in Engine : reader'[f] # "naming"
    BY <2>1, <2>4 DEF ProcTypes
  <2>6. ~Untouched /\ ~Untouched'
    BY <2>3, <2>4 DEF Untouched
  <2>7. \A u \in Caller : ~At(u, "spawn") /\ ~At(u, "spawn")'
    BY <2>2, <2>6 DEF CreateInv, At
  <2>8. \A u \in Caller : /\ Creating(u)' <=> Creating(u)
                          /\ th'[u].op = "create" <=> th[u].op = "create"
    BY <2>2 DEF Creating
  <2> QED
    BY <2>5, <2>6, <2>7, <2>8 DEF CreateInv, NamingInv
<1>7. ASSUME NEW t \in Caller, CreateRegisters(t) PROVE CreateInv' /\ NamingInv'
  <2>1. UNCHANGED <<est, reader>>
    BY <1>7 DEF CreateRegisters, procVars
  <2>2. /\ th[t].at = "register" /\ th'[t].at = "idle" /\ th'[t].op = "none"
        /\ \A u \in Caller \ {t} : th'[u] = th[u]
    BY <1>7, CreateMoves
  <2>3. ~Untouched /\ \A e \in Engine : reader[e] # "naming"
    BY <2>2 DEF CreateInv, NamingInv
  <2> QED
    BY <2>1, <2>2, <2>3 DEF CreateInv, NamingInv, Creating, Untouched, At
<1>8. CASE \E t \in Caller : OtherStep(t)
  BY <1>8, OtherMoves, OtherEngines, OtherAlone
<1>9. ASSUME NEW t \in Caller, StopKills(t) PROVE CreateInv' /\ NamingInv'
  <2> DEFINE e == th[t].e
  <2>1. e \in Engine /\ At(t, "wait") /\ Alive(e) /\ Dies(e) /\ UNCHANGED <<th, reader>>
    BY <1>9 DEF StopKills, CallTypes, At, Stopping
  <2>2. est[e] # "free" /\ reader[e] # "naming"
    BY <2>1 DEF NamingInv, Alive, At
  <2>3. est'[e] # "free" /\ \A f \in Engine \ {e} : est'[f] = est[f]
    BY <2>1, DiesOne
  <2> HIDE DEF e
  <2> QED
    BY <2>1, <2>2, <2>3, EngineAlone
<1>10. CASE EngineStep
  BY <1>10, EngineSteps, EngineAlone
<1>11. CASE TimerFires \/ TimerRestarts
  <2>1. ~Untouched /\ \A e \in Engine : reader[e] # "naming"
    BY <1>11, TimerRestartsDoes DEF CreateInv, NamingInv, TimerFires
  <2>2. th' = th
    BY <1>11, TimerRestartsDoes DEF TimerFires
  <2>3. \A e \in Engine : /\ est[e] # "free" => est'[e] # "free"
                          /\ reader'[e] = "naming" => reader[e] = "naming"
    BY <1>11, TimerRestartsDoes, EnsureStartsOne DEF TimerFires, procVars
  <2>4. ~Untouched' /\ \A e \in Engine : reader'[e] # "naming"
    BY <2>1, <2>3 DEF Untouched
  <2> QED
    BY <2>1, <2>2, <2>4 DEF CreateInv, NamingInv, Creating, At
<1>12. CASE Displaced
  <2>1. ~registered' /\ UNCHANGED <<th, est, reader, stdin, eng, armed, checked>>
    BY <1>12 DEF Displaced, engVars, timerVars, procVars
  <2> QED
    BY <2>1 DEF CreateInv, NamingInv, Creating, Untouched, At
<1>13. ASSUME NEW t \in Caller, CreateFails(t) PROVE CreateInv' /\ NamingInv'
  <2>1. /\ th[t].at \in {"spawn", "name"} /\ th'[t].at = "idle" /\ th'[t].op = "none"
        /\ \A u \in Caller \ {t} : th'[u] = th[u]
    BY <1>13, CreateMoves
  <2>2. Creating(t) /\ \A u \in Caller \ {t} : ~Creating(u) /\ ~Creating(u)'
    BY <2>1 DEF CreateInv, Creating
  <2>3. ~Creating(t)' /\ \A u \in Caller : ~At(u, "spawn")'
    BY <2>1, <2>2 DEF Creating, At
  <2>4. \A u \in Caller : th'[u].op # "create"
    BY <2>1, <2>2 DEF CreateInv
  <2>5. UNCHANGED <<registered, eng, armed, checked>>
    BY <1>13, CreateFailsOne
  <2>6. CASE At(t, "spawn") /\ UNCHANGED <<est, stdin, reader>>
    <3>1. Untouched /\ \A e \in Engine : reader'[e] # "naming"
      BY <2>6 DEF CreateInv, Untouched, UsedInv
    <3>2. \A u \in Caller : th'[u].at \in {"idle", "spawn"}
      BY <2>1, <3>1 DEF CreateInv
    <3> QED
      BY <2>2, <2>3, <2>4, <2>5, <2>6, <3>1, <3>2 DEF CreateInv, NamingInv, Untouched
  <2>7. CASE ~(At(t, "spawn") /\ UNCHANGED <<est, stdin, reader>>)
    <3>1. PICK e \in Engine :
            /\ reader[e] = "naming" /\ reader'[e] = "done"
            /\ est'[e] \in {"gone", "held"}
            /\ \A f \in Engine \ {e} : reader'[f] = reader[f] /\ est'[f] = est[f]
      BY <1>13, <2>7, CreateFailsOne
    <3>2. ~Untouched' /\ \A f \in Engine : reader'[f] # "naming"
      BY <3>1 DEF Untouched, NamingInv, UsedInv
    <3> QED
      BY <2>2, <2>3, <2>4, <3>2 DEF CreateInv, NamingInv
  <2> QED
    BY <2>6, <2>7
<1> QED
  BY <1>2, <1>3, <1>4, <1>5, <1>6, <1>7, <1>8, <1>9, <1>10, <1>11, <1>12, <1>13, StepKinds

\* Every step that starts an engine finds none at work.
LEMMA WorksStep ==
  ASSUME Types, UsedInv, CreateInv, NamingInv, WorksInv, [Next]_vars
  PROVE  WorksInv'
<1>1. ASSUME UNCHANGED <<est, reader, eng>> PROVE WorksInv'
  BY <1>1 DEF WorksInv, Alive
<1>2. CASE UNCHANGED vars
  BY <1>1, <1>2 DEF vars, serviceVars, engVars, timerVars, actVars, procVars
<1>3. ASSUME NEW t \in Caller,
           \/ Begin(t) \/ CreateRegisters(t) \/ Subscribe(t) \/ Write(t) \/ StopBegins(t)
           \/ StopWrites(t) \/ StopDone(t) \/ StopGivesUp(t) \/ DropChecks(t) \/ LogCloses(t)
           \/ Remove(t) \/ SetFlags(t) \/ SetPersist(t)
    PROVE  WorksInv'
  BY <1>1, <1>3 DEF Begin, At, Begins, FirstStep, Reapable, CreateRegisters, Subscribe, Write,
     Alive, StopBegins, StopWrites, StopDone, StopGivesUp, DropChecks, LogCloses, Remove,
     SetFlags, SetPersist, serviceVars, engVars, timerVars, actVars, procVars
<1>4. ASSUME NEW e \in Engine,
           ReadEvent(e)
    PROVE  WorksInv'
  BY <1>1, <1>4 DEF ReadEvent, serviceVars, engVars, timerVars, actVars, procVars
<1>5. CASE \/ TimerFires \/ TimerTells
          \/ Displaced \/ Detach \/ IdleStopPasses \/ RestartWindowPasses
  BY <1>1, <1>5 DEF TimerFires, TimerTells, Displaced, Detach, IdleStopPasses,
     RestartWindowPasses, serviceVars, engVars, timerVars, actVars, procVars
<1>6. ASSUME NEW t \in Caller, CreateSpawns(t) PROVE WorksInv'
  <2>1. PICK e \in Engine : Spawned(e, "naming")
    BY <1>6 DEF CreateSpawns
  <2>2. eng' = eng /\ \A f \in Engine : f # e => est'[f] = "free"
    BY <1>6, <2>1, SpawnedOne DEF CreateSpawns, engVars, CreateInv, Untouched, Types
  <2> QED
    BY <2>1, <2>2, SpawnedOne DEF WorksInv, Alive, Types
<1>7. ASSUME NEW t \in Caller, CreateAttaches(t) PROVE WorksInv'
  BY <1>7, EngineNumbers, SpawnedOne, DiesOne DEF Types, ProcTypes, UsedInv, CreateInv,
     NamingInv, WorksInv, Alive, At, Creating, Untouched, CreateAttaches, At, Attached,
     serviceVars, engVars, timerVars, actVars, procVars
<1>8. ASSUME NEW t \in Caller, Ensure(t) PROVE WorksInv'
  <2>1. CASE \E f \in Engine : EnsureStarts(f)
    <3>1. PICK f \in Engine : EnsureStarts(f)
      BY <2>1
    <3>2. \A e \in Engine : reader[e] # "naming"
      BY <1>8, EnsureDoes DEF NamingInv, At
    <3>3. eng = None /\ \A e \in Engine : ~Alive(e)
      BY <3>1, <3>2, EnsureStartsOne, EngineNumbers DEF WorksInv, Types
    <3> QED
      BY <3>1, <3>3, EnsureStartsOne DEF WorksInv, Alive, Types
  <2>2. CASE UNCHANGED <<engVars, procVars>>
    BY <2>2 DEF WorksInv, Alive, engVars, procVars
  <2> QED
    BY <1>8, <2>1, <2>2, EnsureDoes
<1>9. ASSUME NEW t \in Caller, StopKills(t) PROVE WorksInv'
  <2> DEFINE e == th[t].e
  <2>1. e \in Engine /\ At(t, "wait") /\ Alive(e) /\ Dies(e) /\ UNCHANGED <<eng, th, reader>>
    BY <1>9 DEF StopKills, Types, CallTypes, At, Stopping, engVars
  <2> HIDE DEF e
  <2>2. est[e] # "free" /\ est'[e] \notin {"free", "idle", "turn"} /\ stdin'[e] = <<>>
    BY <2>1, DiesOne DEF Alive, Types
  <2>3. \A f \in Engine \ {e} : est'[f] = est[f] /\ stdin'[f] = stdin[f]
    BY <2>1, DiesOne DEF Types
  <2> QED
    BY <2>1, <2>2, <2>3, DiesOne DEF Types, ProcTypes, UsedInv, CreateInv, NamingInv, WorksInv,
       Alive, At, Creating, Untouched
<1>10. ASSUME NEW e \in Engine, EngineTakes(e) PROVE WorksInv'
  BY <1>10, EngineNumbers, SpawnedOne, DiesOne DEF Types, ProcTypes, UsedInv, CreateInv,
     NamingInv, WorksInv, Alive, At, Creating, Untouched, EngineTakes, EngineOnly, Alive,
     serviceVars, engVars, timerVars, actVars, procVars
<1>11. ASSUME NEW e \in Engine, EngineTurnEnds(e) PROVE WorksInv'
  BY <1>11, EngineNumbers, SpawnedOne, DiesOne DEF Types, ProcTypes, UsedInv, CreateInv,
     NamingInv, WorksInv, Alive, At, Creating, Untouched, EngineTurnEnds, EngineOnly,
     serviceVars, engVars, timerVars, actVars, procVars
<1>12. ASSUME NEW e \in Engine, EngineObeysStop(e) PROVE WorksInv'
  <2>1. Alive(e) /\ Dies(e) /\ UNCHANGED <<eng, reader>>
    BY <1>12 DEF EngineObeysStop, EngineCrashes, EngineOnly, engVars
  <2>2. est[e] # "free" /\ est'[e] \notin {"free", "idle", "turn"} /\ stdin'[e] = <<>>
    BY <2>1, DiesOne DEF Alive, Types
  <2>3. \A f \in Engine \ {e} : est'[f] = est[f] /\ stdin'[f] = stdin[f]
    BY <2>1, DiesOne DEF Types
  <2> QED
    BY <2>1, <2>2, <2>3, DiesOne DEF Types, ProcTypes, UsedInv, CreateInv, NamingInv, WorksInv,
       Alive, At, Creating, Untouched
<1>13. ASSUME NEW e \in Engine, EngineCrashes(e) PROVE WorksInv'
  <2>1. Alive(e) /\ Dies(e) /\ UNCHANGED <<eng, reader>>
    BY <1>13 DEF EngineObeysStop, EngineCrashes, EngineOnly, engVars
  <2>2. est[e] # "free" /\ est'[e] \notin {"free", "idle", "turn"} /\ stdin'[e] = <<>>
    BY <2>1, DiesOne DEF Alive, Types
  <2>3. \A f \in Engine \ {e} : est'[f] = est[f] /\ stdin'[f] = stdin[f]
    BY <2>1, DiesOne DEF Types
  <2> QED
    BY <2>1, <2>2, <2>3, DiesOne DEF Types, ProcTypes, UsedInv, CreateInv, NamingInv, WorksInv,
       Alive, At, Creating, Untouched
<1>14. ASSUME NEW e \in Engine, OutputCloses(e) PROVE WorksInv'
  BY <1>14, EngineNumbers, SpawnedOne, DiesOne DEF Types, ProcTypes, UsedInv, CreateInv,
     NamingInv, WorksInv, Alive, At, Creating, Untouched, OutputCloses, EngineOnly, serviceVars,
     engVars, timerVars, actVars, procVars
<1>15. ASSUME NEW e \in Engine, EngineExited(e) PROVE WorksInv'
  BY <1>15, EngineNumbers, SpawnedOne, DiesOne DEF Types, ProcTypes, UsedInv, CreateInv,
     NamingInv, WorksInv, Alive, At, Creating, Untouched, EngineExited, RestartOrGiveUp,
     serviceVars, engVars, timerVars, actVars, procVars
<1>16. ASSUME NEW e \in Engine, ReaderEnds(e) PROVE WorksInv'
  BY <1>16, EngineNumbers, SpawnedOne, DiesOne DEF Types, ProcTypes, UsedInv, CreateInv,
     NamingInv, WorksInv, Alive, At, Creating, Untouched, ReaderEnds, serviceVars, engVars,
     timerVars, actVars, procVars
<1>17. CASE TimerRestarts
  <2>1. CASE \E f \in Engine : EnsureStarts(f)
    <3>1. PICK f \in Engine : EnsureStarts(f)
      BY <2>1
    <3>2. \A e \in Engine : reader[e] # "naming"
      BY <1>17, TimerRestartsDoes DEF NamingInv, At
    <3>3. eng = None /\ \A e \in Engine : ~Alive(e)
      BY <3>1, <3>2, EnsureStartsOne, EngineNumbers DEF WorksInv, Types
    <3> QED
      BY <3>1, <3>3, EnsureStartsOne DEF WorksInv, Alive, Types
  <2>2. CASE UNCHANGED <<engVars, procVars>>
    BY <2>2 DEF WorksInv, Alive, engVars, procVars
  <2> QED
    BY <1>17, <2>1, <2>2, TimerRestartsDoes
<1>18. ASSUME NEW t \in Caller, CreateFails(t) PROVE WorksInv'
  <2>1. eng' = eng /\ \A e \in Engine : \/ est'[e] = est[e] /\ reader'[e] = reader[e]
                                        \/ est'[e] \in {"gone", "held"}
    BY <1>18, CreateFailsOne DEF Types
  <2> QED
    BY <2>1 DEF WorksInv, Alive
<1> QED
  BY <1>1, <1>2, <1>3, <1>4, <1>5, <1>6, <1>7, <1>8, <1>9, <1>10, <1>11, <1>12, <1>13, <1>14,
     <1>15, <1>16, <1>17, <1>18 DEF Next, CallerStep, ReaderStep

\* Every step that ends the reading clears what was read.
LEMMA BusyStep ==
  ASSUME Types, UsedInv, BusyInv, [Next]_vars
  PROVE  BusyInv'
<1>1. ASSUME UNCHANGED <<reader, inTurn>> PROVE BusyInv'
  BY <1>1 DEF BusyInv
<1>2. CASE UNCHANGED vars
  BY <1>1, <1>2 DEF vars, serviceVars, engVars, timerVars, actVars, procVars
<1>3. ASSUME NEW t \in Caller,
           \/ Begin(t) \/ CreateRegisters(t) \/ Subscribe(t) \/ Write(t) \/ StopBegins(t)
           \/ StopWrites(t) \/ StopDone(t) \/ StopGivesUp(t) \/ StopKills(t) \/ DropChecks(t)
           \/ LogCloses(t) \/ Remove(t) \/ SetFlags(t) \/ SetPersist(t)
    PROVE  BusyInv'
  BY <1>1, <1>3 DEF Begin, At, Begins, FirstStep, Reapable, CreateRegisters, Subscribe, Write,
     Alive, StopBegins, StopWrites, StopDone, StopGivesUp, StopKills, DropChecks, LogCloses,
     Remove, SetFlags, SetPersist, serviceVars, engVars, timerVars, actVars, procVars
<1>4. ASSUME NEW e \in Engine,
           \/ EngineTakes(e) \/ EngineTurnEnds(e) \/ EngineObeysStop(e) \/ EngineCrashes(e)
           \/ OutputCloses(e)
    PROVE  BusyInv'
  BY <1>1, <1>4 DEF EngineTakes, EngineOnly, Alive, EngineTurnEnds, EngineObeysStop,
     EngineCrashes, OutputCloses, serviceVars, engVars, timerVars, actVars, procVars
<1>5. CASE \/ TimerFires \/ TimerTells
          \/ Displaced \/ Detach \/ IdleStopPasses \/ RestartWindowPasses
  BY <1>1, <1>5 DEF TimerFires, TimerTells, Displaced, Detach, IdleStopPasses,
     RestartWindowPasses, serviceVars, engVars, timerVars, actVars, procVars
<1>6. ASSUME NEW t \in Caller, CreateSpawns(t) PROVE BusyInv'
  BY <1>6, EngineNumbers, SpawnedOne DEF Types, ProcTypes, UsedInv, BusyInv, CreateSpawns, At,
     serviceVars, engVars, timerVars, actVars, procVars
<1>7. ASSUME NEW t \in Caller, CreateAttaches(t) PROVE BusyInv'
  BY <1>7, EngineNumbers, SpawnedOne DEF Types, ProcTypes, UsedInv, BusyInv, CreateAttaches, At,
     Attached, serviceVars, engVars, timerVars, actVars, procVars
<1>8. ASSUME NEW t \in Caller, Ensure(t) PROVE BusyInv'
  <2>1. CASE \E f \in Engine : EnsureStarts(f)
    <3>1. PICK f \in Engine : EnsureStarts(f)
      BY <2>1
    <3>2. reader'[f] = "read"
      BY <3>1, EnsureStartsOne DEF Types
    <3> QED
      BY <3>2 DEF BusyInv
  <2>2. CASE UNCHANGED <<engVars, procVars>>
    BY <1>8, <2>2, EnsureDoes DEF BusyInv, procVars, actVars
  <2> QED
    BY <1>8, <2>1, <2>2, EnsureDoes
<1>9. ASSUME NEW e \in Engine, ReadEvent(e) PROVE BusyInv'
  BY <1>9, EngineNumbers, SpawnedOne DEF Types, ProcTypes, UsedInv, BusyInv, ReadEvent,
     serviceVars, engVars, timerVars, actVars, procVars
<1>10. ASSUME NEW e \in Engine, EngineExited(e) PROVE BusyInv'
  BY <1>10, EngineNumbers, SpawnedOne DEF Types, ProcTypes, UsedInv, BusyInv, EngineExited,
     RestartOrGiveUp, serviceVars, engVars, timerVars, actVars, procVars
<1>11. ASSUME NEW e \in Engine, ReaderEnds(e) PROVE BusyInv'
  BY <1>11, EngineNumbers, SpawnedOne DEF Types, ProcTypes, UsedInv, BusyInv, ReaderEnds,
     serviceVars, engVars, timerVars, actVars, procVars
<1>12. CASE TimerRestarts
  <2>1. CASE \E f \in Engine : EnsureStarts(f)
    <3>1. PICK f \in Engine : EnsureStarts(f)
      BY <2>1
    <3>2. reader'[f] = "read"
      BY <3>1, EnsureStartsOne DEF Types
    <3> QED
      BY <3>2 DEF BusyInv
  <2>2. CASE UNCHANGED <<engVars, procVars>>
    BY <1>12, <2>2, TimerRestartsDoes DEF BusyInv, procVars, actVars
  <2> QED
    BY <1>12, <2>1, <2>2, TimerRestartsDoes
<1>13. ASSUME NEW t \in Caller, CreateFails(t) PROVE BusyInv'
  <2>1. UNCHANGED inTurn
    BY <1>13, CreateFailsOne DEF Types
  <2>2. \A e \in Engine : reader[e] \in {"read", "exited"} => reader'[e] = reader[e]
    BY <1>13, CreateFailsOne DEF Types
  <2> QED
    BY <2>1, <2>2 DEF BusyInv
<1> QED
  BY <1>1, <1>2, <1>3, <1>4, <1>5, <1>6, <1>7, <1>8, <1>9, <1>10, <1>11, <1>12, <1>13 DEF Next,
     CallerStep, ReaderStep

-----------------------------------------------------------------------------
(* The theorems                                                             *)

\* The invariant holds at first.
LEMMA InitIInv == Init => IInv
<1> SUFFICES ASSUME Init PROVE IInv
  OBVIOUS
<1> USE DEF Init, Idle
<1>1. Types
  BY DEF Types, ProcTypes, CallTypes, Steps, Stopping
<1>2. UsedInv /\ NamingInv /\ WorksInv /\ BusyInv
  BY DEF UsedInv, NamingInv, WorksInv, Alive, BusyInv
<1>3. CreateInv
  BY DEF CreateInv, Creating, Untouched, At
<1> QED
  BY <1>1, <1>2, <1>3 DEF IInv

\* The inductive invariant holds in every reachable state.
THEOREM InductiveInvariant == Spec => []IInv
<1>1. IInv /\ [Next]_vars => IInv'
  BY ProcStep, CallStep, UsedStep, AloneStep, WorksStep, BusyStep DEF IInv, Types
<1> QED
  BY <1>1, InitIInv, PTL DEF Spec

\* A session object never has two engines at work, whatever callers, restart timers
\* and the reaper do, and in whatever order (session.go 326-343). Two objects made
\* for one conversation by creates that resume it at once are two (service.go 197-221).
THEOREM OneEngineAtWork == Spec => []OneEngine
<1>1. IInv => OneEngine
  BY DEF IInv, UsedInv, NamingInv, WorksInv, OneEngine, Alive
<1> QED
  BY <1>1, InductiveInvariant, PTL

\* A session whose engines have ended, and been read to the end, is not in a turn
\* (session.go 261-264).
THEOREM StoppedIsNotBusy == Spec => []NotBusyWhenStopped
<1>1. IInv => NotBusyWhenStopped
  BY DEF IInv, BusyInv, NotBusyWhenStopped
<1> QED
  BY <1>1, InductiveInvariant, PTL

-----------------------------------------------------------------------------
(* Handing sessions out (Reuse)                                             *)

\* Whoever was handed a session is covered by its claim until somebody else ends
\* it: a choice avoids what is claimed.
GivenIsClaimed == \A c \in Client : at[c] = "given" /\ c \notin exposed => of[c] \in claimed

HandingInv == TypeOK /\ GivenIsClaimed /\ TwoStartsDiffer

Places == {"idle", "look", "create", "given", "comes", "cleared", "snap", "on"}

-----------------------------------------------------------------------------
LEMMA NoSessionIsNone == NoSession \notin Session
BY ReuseAssumption DEF NoSession, Session

LEMMA InitHanding == ReuseInit => HandingInv
BY DEF ReuseInit, HandingInv, TypeOK, GivenIsClaimed, TwoStartsDiffer

\* Where a client that is given s, or comes to it, finds itself; the others stay.
LEMMA GivenOne ==
  ASSUME TypeOK, NEW c \in Client, NEW s \in Session \union {NoSession}, NEW step \in Places,
         Given(c, s, step), sessions \subseteq sessions', s \in sessions' \union {NoSession},
         s = NoSession <=> step \in {"idle", "look", "create"}
  PROVE  /\ at' \in [Client -> Places] /\ of' \in [Client -> sessions' \union {NoSession}]
         /\ at'[c] = step /\ of'[c] = s
         /\ \A d \in Client \ {c} : at'[d] = at[d] /\ of'[d] = of[d]
         /\ \A d \in Client :
              of'[d] \in IF at'[d] \in {"idle", "look", "create"} THEN {NoSession} ELSE sessions'
<1>1. /\ at' \in [Client -> Places] /\ of' \in [Client -> sessions' \union {NoSession}]
      /\ at'[c] = step /\ of'[c] = s
      /\ \A d \in Client \ {c} : at'[d] = at[d] /\ of'[d] = of[d]
  BY DEF Given, Goes, TypeOK, Places
<1> QED
  BY <1>1 DEF TypeOK

\* A client given s that nobody holds a claim of, or that is new, shares s with
\* none that is still covered.
LEMMA GivenStep ==
  ASSUME HandingInv, NEW c \in Client, NEW s \in Session, s \in sessions', s \notin claimed,
         at[c] \in {"look", "create"}, Given(c, s, "given"), sessions' \subseteq Session,
         sessions \subseteq sessions', claimed' = claimed \union {s}, free' \subseteq sessions',
         UNCHANGED <<subs, exposed>>
  PROVE  HandingInv'
<1>1. TypeOK /\ s # NoSession
  BY NoSessionIsNone DEF HandingInv
<1>2. /\ at' \in [Client -> Places] /\ of' \in [Client -> sessions' \union {NoSession}]
      /\ at'[c] = "given" /\ of'[c] = s
      /\ \A d \in Client \ {c} : at'[d] = at[d] /\ of'[d] = of[d]
      /\ \A d \in Client :
           of'[d] \in IF at'[d] \in {"idle", "look", "create"} THEN {NoSession} ELSE sessions'
  BY <1>1, GivenOne DEF Places
<1>3. TypeOK'
  <2>1. \A r \in Session : subs'[r] = {d \in Client : at'[d] = "on" /\ of'[d] = r}
    BY <1>1, <1>2 DEF TypeOK
  <2>2. exposed' \subseteq {d \in Client : at'[d] = "given"}
    BY <1>1, <1>2 DEF TypeOK
  <2> QED
    BY <1>1, <1>2, <2>1, <2>2 DEF TypeOK, Places
<1>4. GivenIsClaimed'
  BY <1>2 DEF GivenIsClaimed, HandingInv
<1>5. \A d \in Client : at[d] = "given" /\ of[d] = s => d \in exposed
  BY DEF GivenIsClaimed, HandingInv
<1>6. TwoStartsDiffer'
  BY <1>2, <1>5 DEF TwoStartsDiffer, HandingInv
<1> QED
  BY <1>3, <1>4, <1>6 DEF HandingInv

\* A step of a client that is given nothing by it, and ends no claim but those it
\* says it ends, takes none of the others' cover away.
LEMMA OtherwiseStep ==
  ASSUME HandingInv, NEW c \in Client, TypeOK', at'[c] # "given",
         \A d \in Client \ {c} : at'[d] = at[d] /\ of'[d] = of[d],
         \A d \in Client \ {c} : d \in exposed => d \in exposed',
         \A d \in Client \ {c} : at[d] = "given" /\ of[d] \in claimed \ claimed' => d \in exposed'
  PROVE  HandingInv'
<1>1. GivenIsClaimed'
  BY DEF HandingInv, GivenIsClaimed
<1>2. TwoStartsDiffer'
  BY DEF HandingInv, TwoStartsDiffer
<1> QED
  BY <1>1, <1>2 DEF HandingInv

LEMMA LooksStep ==
  ASSUME HandingInv, NEW c \in Client, Looks(c)
  PROVE  HandingInv'
<1>1. at'[c] = "look" /\ \A d \in Client \ {c} : at'[d] = at[d]
  BY DEF HandingInv, TypeOK, Looks, Goes
<1>2. TypeOK'
  <2>1. \A d \in Client : at'[d] = "given" <=> at[d] = "given"
    BY <1>1 DEF Looks
  <2>2. \A d \in Client : at'[d] = "on" <=> at[d] = "on"
    BY <1>1 DEF Looks
  <2> QED
    BY <1>1, <2>1, <2>2 DEF HandingInv, TypeOK, Looks, Goes
<1> QED
  BY <1>1, <1>2, OtherwiseStep DEF Looks

LEMMA ChoosesStep ==
  ASSUME HandingInv, NEW c \in Client, Chooses(c)
  PROVE  HandingInv'
<1>1. CASE free \ claimed = {}
  <2>1. Goes(c, "create") /\ at[c] = "look" /\ free' = {} /\ UNCHANGED <<claimed, of, sessions, subs, exposed>>
    BY <1>1 DEF Chooses
  <2>2. at'[c] = "create" /\ \A d \in Client \ {c} : at'[d] = at[d]
    BY <2>1 DEF Goes, HandingInv, TypeOK
  <2>3. TypeOK'
    <3>1. \A d \in Client : at'[d] = "given" <=> at[d] = "given"
      BY <2>1, <2>2
    <3>2. \A d \in Client : at'[d] = "on" <=> at[d] = "on"
      BY <2>1, <2>2
    <3> QED
      BY <2>1, <2>2, <3>1, <3>2 DEF HandingInv, TypeOK, Goes
  <2> QED
    BY <2>1, <2>2, <2>3, OtherwiseStep
<1>2. CASE free \ claimed # {}
  <2>1. PICK s \in free \ claimed : claimed' = claimed \union {s} /\ Given(c, s, "given")
    BY <1>2 DEF Chooses
  <2>2. UNCHANGED <<sessions, subs, exposed>> /\ free' = {} /\ at[c] = "look"
    BY DEF Chooses
  <2>3. s \in sessions /\ s \in Session
    BY <2>1 DEF HandingInv, TypeOK
  <2> QED
    BY <2>1, <2>2, <2>3, GivenStep DEF HandingInv, TypeOK
<1> QED
  BY <1>1, <1>2

\* What is listed is new: nobody claims it or was given it.
LEMMA ListsNew ==
  ASSUME HandingInv, NEW c \in Client, NEW s \in Session, NEW step, Lists(c, s, step)
  PROVE  /\ sessions' = sessions \union {s} /\ s \notin sessions /\ s \notin claimed
         /\ s # NoSession /\ Given(c, s, step) /\ UNCHANGED <<subs, free, exposed>>
<1>1. sessions' = sessions \union {s} /\ s \notin sessions
  BY ReuseAssumption DEF Lists, Session
<1> QED
  BY <1>1, NoSessionIsNone DEF Lists, HandingInv, TypeOK

LEMMA CreatesStep ==
  ASSUME HandingInv, NEW c \in Client, Creates(c)
  PROVE  HandingInv'
<1>1. PICK s \in Session : Lists(c, s, "given") /\ claimed' = claimed \union {s}
  BY DEF Creates
<1>2. /\ sessions' = sessions \union {s} /\ s \notin claimed
      /\ Given(c, s, "given") /\ UNCHANGED <<subs, free, exposed>>
  BY <1>1, ListsNew
<1> QED
  BY <1>1, <1>2, GivenStep DEF Creates, HandingInv, TypeOK

\* Who comes to a session ends no claim yet.
LEMMA ComesStep ==
  ASSUME HandingInv, NEW c \in Client, CreatesOwn(c) \/ Comes(c)
  PROVE  HandingInv'
<1>1. PICK s \in Session :
        /\ s \in sessions' /\ Given(c, s, "comes") /\ sessions \subseteq sessions' /\ sessions' \subseteq Session
        /\ UNCHANGED <<subs, free, exposed, claimed>>
  <2>1. CASE Comes(c)
    BY <2>1 DEF Comes, HandingInv, TypeOK
  <2>2. ASSUME CreatesOwn(c), NEW s \in Session, Lists(c, s, "comes")
        PROVE  /\ s \in sessions' /\ Given(c, s, "comes") /\ sessions \subseteq sessions'
               /\ sessions' \subseteq Session /\ UNCHANGED <<subs, free, exposed, claimed>>
    BY <2>2, ListsNew DEF CreatesOwn, HandingInv, TypeOK
  <2> QED
    BY <2>1, <2>2 DEF CreatesOwn
<1>2. at[c] = "idle" /\ s # NoSession
  BY NoSessionIsNone DEF CreatesOwn, Comes
<1>3. /\ at' \in [Client -> Places] /\ of' \in [Client -> sessions' \union {NoSession}]
      /\ at'[c] = "comes" /\ of'[c] = s
      /\ \A d \in Client \ {c} : at'[d] = at[d] /\ of'[d] = of[d]
      /\ \A d \in Client :
           of'[d] \in IF at'[d] \in {"idle", "look", "create"} THEN {NoSession} ELSE sessions'
  BY <1>1, <1>2, GivenOne DEF Places, HandingInv
<1>4. TypeOK'
  <2>1. \A r \in Session : subs'[r] = {d \in Client : at'[d] = "on" /\ of'[d] = r}
    BY <1>1, <1>2, <1>3 DEF HandingInv, TypeOK
  <2>2. exposed' \subseteq {d \in Client : at'[d] = "given"}
    BY <1>1, <1>2, <1>3 DEF HandingInv, TypeOK
  <2> QED
    BY <1>1, <1>3, <2>1, <2>2 DEF HandingInv, TypeOK, Places
<1> QED
  BY <1>1, <1>3, <1>4, OtherwiseStep

\* Whoever else was given the session has no claim from now on, and is exposed.
LEMMA SubscribeClearsStep ==
  ASSUME HandingInv, NEW c \in Client, SubscribeClears(c)
  PROVE  HandingInv'
<1>1. at'[c] = "cleared" /\ \A d \in Client \ {c} : at'[d] = at[d] /\ of'[d] = of[d]
  BY DEF SubscribeClears, Goes, HandingInv, TypeOK
<1>2. TypeOK'
  <2>1. of[c] \in sessions /\ at' \in [Client -> Places]
    BY DEF SubscribeClears, HandingInv, TypeOK, Goes, Places
  <2>2. exposed' \subseteq {d \in Client : at'[d] = "given"}
    BY <1>1 DEF SubscribeClears, HandingInv, TypeOK, Awaited
  <2>3. \A d \in Client : at'[d] = "on" <=> at[d] = "on"
    BY <1>1 DEF SubscribeClears
  <2>4. \A d \in Client : at'[d] \in {"idle", "look", "create"} <=> at[d] \in {"idle", "look", "create"}
    BY <1>1 DEF SubscribeClears
  <2> QED
    BY <2>1, <2>2, <2>3, <2>4 DEF SubscribeClears, HandingInv, TypeOK, Places
<1>3. \A d \in Client \ {c} : d \in exposed => d \in exposed'
  BY DEF SubscribeClears
<1>4. \A d \in Client \ {c} : at[d] = "given" /\ of[d] \in claimed \ claimed' => d \in exposed'
  BY DEF SubscribeClears, Awaited
<1> QED
  BY <1>1, <1>2, <1>3, <1>4, OtherwiseStep

LEMMA SubscribeStep ==
  ASSUME HandingInv, NEW c \in Client, SubscribeAttaches(c) \/ SubscribeSnapshots(c)
  PROVE  HandingInv'
<1> USE DEF SubscribeAttaches, SubscribeSnapshots
<1>1. /\ at[c] \in {"cleared", "snap"} /\ at'[c] \in {"on", "snap"}
      /\ \A d \in Client \ {c} : at'[d] = at[d] /\ of'[d] = of[d]
  BY DEF Goes, HandingInv, TypeOK
<1>2. of[c] \in Session /\ of[c] \in sessions /\ at' \in [Client -> Places]
  BY <1>1 DEF HandingInv, TypeOK, Goes, Places
<1>3. exposed' \subseteq {d \in Client : at'[d] = "given"}
  BY <1>1 DEF HandingInv, TypeOK
<1>4. \A d \in Client : at'[d] \in {"idle", "look", "create"} <=> at[d] \in {"idle", "look", "create"}
  BY <1>1
<1>5. subs' \in [Session -> SUBSET Client]
  BY <1>2 DEF HandingInv, TypeOK
<1>6. ASSUME NEW s \in Session
      PROVE  subs'[s] = {d \in Client : at'[d] = "on" /\ of'[d] = s}
  <2>1. CASE SubscribeAttaches(c)
    <3>1. subs'[s] = IF s = of[c] THEN subs[s] \union {c} ELSE subs[s]
      BY <2>1, <1>2 DEF HandingInv, TypeOK
    <3>2. at'[c] = "on" /\ of' = of /\ subs[s] = {d \in Client : at[d] = "on" /\ of[d] = s}
      BY <2>1 DEF HandingInv, TypeOK, Goes
    <3> QED
      BY <1>1, <3>1, <3>2
  <2>2. CASE SubscribeSnapshots(c)
    <3>1. at'[c] = "snap" /\ UNCHANGED <<subs, of>>
      BY <2>2 DEF HandingInv, TypeOK, Goes
    <3> QED
      BY <1>1, <3>1 DEF HandingInv, TypeOK
  <2> QED
    BY <2>1, <2>2
<1>7. TypeOK'
  BY <1>2, <1>3, <1>4, <1>5, <1>6 DEF HandingInv, TypeOK, Places
<1> QED
  BY <1>1, <1>7, OtherwiseStep

LEMMA DepartsStep ==
  ASSUME HandingInv, NEW c \in Client, Departs(c)
  PROVE  HandingInv'
<1>1. /\ at' \in [Client -> Places] /\ of' \in [Client -> sessions' \union {NoSession}]
      /\ at'[c] = "idle" /\ of'[c] = NoSession
      /\ \A d \in Client \ {c} : at'[d] = at[d] /\ of'[d] = of[d]
      /\ \A d \in Client :
           of'[d] \in IF at'[d] \in {"idle", "look", "create"} THEN {NoSession} ELSE sessions'
  BY GivenOne DEF Departs, HandingInv, Places
<1>2. TypeOK'
  <2>1. \A s \in Session : subs'[s] = {d \in Client : at'[d] = "on" /\ of'[d] = s}
    BY <1>1 DEF Departs, HandingInv, TypeOK
  <2>2. exposed' \subseteq {d \in Client : at'[d] = "given"}
    BY <1>1 DEF Departs, HandingInv, TypeOK
  <2>3. subs' \in [Session -> SUBSET Client]
    BY DEF Departs, HandingInv, TypeOK
  <2> QED
    BY <1>1, <2>1, <2>2, <2>3 DEF Departs, HandingInv, TypeOK, Places
<1> QED
  BY <1>1, <1>2, OtherwiseStep DEF Departs

LEMMA HoldPassesStep ==
  ASSUME HandingInv, NEW s \in Session, HoldPasses(s)
  PROVE  HandingInv'
<1>1. TypeOK'
  BY DEF HoldPasses, HandingInv, TypeOK, Awaited
<1>2. GivenIsClaimed'
  BY DEF HoldPasses, HandingInv, GivenIsClaimed, Awaited
<1>3. TwoStartsDiffer'
  BY DEF HoldPasses, HandingInv, TwoStartsDiffer
<1> QED
  BY <1>1, <1>2, <1>3 DEF HandingInv

LEMMA NextHanding == HandingInv /\ [ReuseNext]_reuseVars => HandingInv'
<1> SUFFICES ASSUME HandingInv, [ReuseNext]_reuseVars
             PROVE  HandingInv'
  OBVIOUS
<1>1. CASE UNCHANGED reuseVars
  BY <1>1 DEF HandingInv, TypeOK, GivenIsClaimed, TwoStartsDiffer, reuseVars
<1>2. CASE ReuseNext
  BY <1>2, LooksStep, ChoosesStep, CreatesStep, ComesStep, SubscribeClearsStep, SubscribeStep,
     DepartsStep, HoldPassesStep DEF ReuseNext
<1> QED
  BY <1>1, <1>2

-----------------------------------------------------------------------------
\* Two clients that were handed a session and have not subscribed yet have
\* different ones, as long as neither's claim was ended by the hold's passing or by
\* another member's subscribe (CreateOrReuse, service.go 306-329), for any clients
\* that start, come, poll and leave, and any number of sessions.
THEOREM StartsDiffer == ReuseSpec => []TwoStartsDiffer
<1>1. HandingInv => TwoStartsDiffer
  BY DEF HandingInv
<1> QED
  BY <1>1, InitHanding, NextHanding, PTL DEF ReuseSpec
=============================================================================

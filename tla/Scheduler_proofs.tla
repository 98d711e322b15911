-------------------------- MODULE Scheduler_proofs --------------------------
(***************************************************************************)
(* Theorems about Scheduler, for any kinds, intervals and bounds: a file   *)
(* that is current once nobody has a save to make, a one-shot delivered at *)
(* most once across crashes, no burst of a fixed loop, and no self-paced   *)
(* loop left without a turn's end to come.  The crash makes the invariant: *)
(* what is remembered of an entry (that it was sent, when it fired) must   *)
(* agree with the file as well as with the entries, at every step between  *)
(* a change and its save.                                                  *)
(*                                                                         *)
(* The second half is about Turns, for any number of lines and jobs: a     *)
(* message, and a job's note, is in one place, counted over all of them;   *)
(* and an engine that drained has left none behind.                        *)
(***************************************************************************)
EXTENDS Scheduler, Turns, FiniteSetTheorems, WellFoundedInduction, NaturalsInduction, TLAPS

\* An entry; only a self-paced loop waits for its turn to end.
AnEntry ==
  {e \in [kind : {"once", "every", "self"}, at : Nat, awaiting : BOOLEAN, fired : Nat] :
     e.awaiting => e.kind = "self"}

\* Entries as memory or the file holds them, numbered up to n.
AStore(n, es) ==
  /\ n \in 0..MaxId
  /\ es \in [DOMAIN es -> AnEntry] /\ DOMAIN es \subseteq 1..n

Firing == [id : Id, e : AnEntry]
Hand == fire.todo \union fire.retry

\* The state is of its types, as far as the theorems need them.
StoreTypes ==
  /\ now \in Nat /\ disk.next <= next
  /\ AStore(next, entries) /\ AStore(disk.next, disk.entries)

FireTypes ==
  /\ fire \in [at : {"idle", "ask", "mark", "save", "deliver", "finish"}, when : Nat,
               due : SUBSET [id : Id, at : Nat], busy : BOOLEAN,
               todo : SUBSET Firing, retry : SUBSET Firing]
  /\ \A f \in Hand : f.id <= next

SessionTypes ==
  /\ reader \in [cur : {"read", "ended", "save"}, old : {"read", "exited", "ended", "save"}]
  /\ inbox \in Nat /\ events \in Seq({"turn", "done"})
  /\ sent \subseteq Id /\ last \in [Id -> Nat]
  /\ \A b \in {exists, running, alive, turn, inTurn} : b \in BOOLEAN

OpTypes ==
  op \in [at : {"idle", "save", "ctl", "drop"}, id : Nat,
          what : {"none", "add", "push", "cancel", "ctl", "forget"}]

Types == StoreTypes /\ FireTypes /\ SessionTypes /\ OpTypes

\* What a pass of fireDue has in hand, at each of its steps.
FireInv ==
  /\ fire.at \in {"idle", "ask", "mark", "finish"} => fire.todo = {}
  /\ fire.at \in {"idle", "ask", "mark", "save", "finish"} => fire.retry = {}
  /\ \A d \in fire.due : d.at <= fire.when
  /\ \A f, g \in Hand : f.id = g.id => f = g
  /\ fire.todo \intersect fire.retry = {}

\* Memory and file differ only while somebody has a save to make.
SameOnDisk ==
  /\ disk.next = next /\ DOMAIN disk.entries = Ids
  /\ \A i \in Ids : disk.entries[i] = entries[i] \/ disk.entries[i].awaiting

DiskInv ==
  \/ fire.at \in {"save", "deliver", "finish"} \/ op.at = "save"
  \/ reader.cur = "save" \/ reader.old = "save"
  \/ SameOnDisk

\* A one-shot that was sent is nowhere any more, and its number is not given again.
SentInv ==
  \A i \in sent : i <= disk.next /\ i \notin Ids /\ i \notin DOMAIN disk.entries /\ i \notin InHand

\* One that is to be sent is off the entries, and off the file from its save on.
OnceInv ==
  \A f \in fire.todo : ~Loop(f.e) =>
    /\ f.id \notin Ids
    /\ fire.at = "deliver" => f.id <= disk.next /\ f.id \notin DOMAIN disk.entries

\* The next run of a fixed loop is an interval or more after the last.
LastInv ==
  /\ \A i \in Ids : entries[i].kind = "every" /\ last[i] # Never => entries[i].at >= last[i] + Every
  /\ \A i \in Id : i > next => last[i] = Never

RunInv == alive => running

\* The inductive invariant.
IInv ==
  Types /\ FireInv /\ DiskInv /\ SentInv /\ OnceInv /\ LastInv /\ RunInv /\ AwaitingHasEnd

-----------------------------------------------------------------------------
(* Entries: what the steps make of them                                      *)

LEMMA Intervals == Every \in Nat \ {0} /\ schedRetry \in Nat \ {0} /\ selfPaceDefault \in Nat \ {0}
BY SchedulerAssumption DEF SchedulerAssumption

LEMMA PutStore ==
  ASSUME NEW n, NEW es, AStore(n, es), n < MaxId, NEW e \in AnEntry
  PROVE  AStore(n + 1, Put(es, n + 1, e))
<1>1. MaxId \in Nat
  BY SchedulerAssumption DEF SchedulerAssumption
<1> QED
  BY <1>1 DEF AStore, Put

LEMMA DropStore ==
  ASSUME NEW n, NEW es, AStore(n, es), NEW ids
  PROVE  AStore(n, Drop(es, ids))
BY DEF AStore, Drop

\* A step that leaves the ids, or some of them, and makes entries of entries.
LEMMA MapStore ==
  ASSUME NEW n, NEW es, AStore(n, es), NEW fs, fs = [i \in DOMAIN fs |-> fs[i]],
         DOMAIN fs \subseteq 1..n, \A i \in DOMAIN fs : fs[i] \in AnEntry
  PROVE  AStore(n, fs)
BY DEF AStore

LEMMA TimedEntry ==
  ASSUME NEW e \in AnEntry, NEW t \in Nat
  PROVE  /\ [e EXCEPT !.at = t] \in AnEntry
         /\ [e EXCEPT !.at = t, !.awaiting = FALSE] \in AnEntry
         /\ [e EXCEPT !.awaiting = FALSE, !.at = t] \in AnEntry
         /\ [e EXCEPT !.fired = t] \in AnEntry
BY DEF AnEntry

LEMMA NextRunEntry ==
  ASSUME NEW e \in AnEntry, fire.when \in Nat
  PROVE  NextRun(e) \in AnEntry
<1>1. fire.when + Every \in Nat
  BY Intervals
<1>2. CASE e.kind = "self"
  <2>1. NextRun(e) = [e EXCEPT !.at = 0, !.awaiting = TRUE, !.fired = fire.when]
    BY <1>2 DEF NextRun, Never
  <2>2. NextRun(e) = [kind |-> "self", at |-> 0, awaiting |-> TRUE, fired |-> fire.when]
    BY <1>2, <2>1 DEF AnEntry
  <2> QED
    BY <2>2 DEF AnEntry
<1>3. CASE e.kind # "self"
  <2>1. NextRun(e) = [e EXCEPT !.at = fire.when + Every, !.fired = fire.when]
    BY <1>3 DEF NextRun
  <2> QED
    BY <1>1, <2>1 DEF AnEntry
<1> QED
  BY <1>2, <1>3

LEMMA DefaultStore ==
  ASSUME NEW n, NEW es, AStore(n, es), NEW t \in Nat
  PROVE  AStore(n, Default(es, t))
<1> DEFINE fs == Default(es, t)
<1>1. fs = [i \in DOMAIN fs |-> fs[i]] /\ DOMAIN fs = DOMAIN es
  BY DEF Default
<1>2. \A i \in DOMAIN es : es[i] \in AnEntry
  BY DEF AStore
<1>3. t + selfPaceDefault \in Nat
  BY Intervals
<1>4. \A i \in DOMAIN es : fs[i] \in AnEntry
  BY <1>2, <1>3, TimedEntry DEF Default
<1>5. DOMAIN fs \subseteq 1..n
  BY <1>1 DEF AStore
<1> QED
  BY <1>1, <1>4, <1>5, MapStore

LEMMA SetTimeStore ==
  ASSUME AStore(next, entries), NEW id, NEW t \in Nat, SetTime(id, t)
  PROVE  AStore(next, entries') /\ Ids' = Ids
<1>1. Ids' = Ids /\ entries' = [i \in Ids |-> entries'[i]]
  BY DEF SetTime, Ids, AStore
<1>2. \A i \in Ids : entries'[i] = IF i = id THEN [entries[i] EXCEPT !.at = t, !.awaiting = FALSE]
                                             ELSE entries[i]
  BY DEF SetTime, Ids, AStore, AnEntry
<1>3. \A i \in Ids : entries[i] \in AnEntry
  BY DEF AStore, Ids
<1>4. [entries[id] EXCEPT !.at = t, !.awaiting = FALSE] \in AnEntry \/ id \notin Ids
  BY <1>3, TimedEntry
<1>5. \A i \in Ids : entries'[i] \in AnEntry
  BY <1>2, <1>3, <1>4
<1> QED
  BY <1>1, <1>5, MapStore DEF AStore, Ids

\* Entries stay entries, and the file is no newer than memory.
LEMMA StoreTypesP ==
  ASSUME StoreTypes, FireTypes, [Next]_vars
  PROVE  StoreTypes'
<1>1. ASSUME UNCHANGED <<now, next, entries, disk>> PROVE StoreTypes'
  BY <1>1 DEF StoreTypes
<1>2. CASE UNCHANGED vars
  BY <1>1, <1>2 DEF vars, store, engine, bounds, history
<1>3. CASE \/ FireCollects \/ FireAsksBusy \/ FireDelivers \/ FireFails \/ ReadEvent
           \/ ReaderExits \/ ReaderTracksStop \/ Forget \/ PersonSends \/ EngineTakes
           \/ EngineTurnEnds \/ EngineDies
  BY <1>1, <1>3 DEF FireCollects, Due, FireIdle, FireAsksBusy, FireDelivers, Taken, FireFails,
     ReadEvent, ReaderExits, ReaderTracksStop, Forget, Starts, PersonSends, EngineTakes,
     EngineTurnEnds, EngineDies, store, engine, bounds, history
<1>4. ASSUME NEW i \in Id,
           LoopCtlPicks(i)
    PROVE  StoreTypes'
  BY <1>1, <1>4 DEF LoopCtlPicks, Starts, store, engine, bounds, history
<1>5. CASE FireMarks
  <2>1. \A i \in Ids : entries[i] \in AnEntry
    BY DEF StoreTypes, AStore, Ids
  <2>2. fire.when \in Nat /\ fire.when + schedRetry \in Nat
    BY Intervals DEF FireTypes
  <2>3. entries' = [i \in DOMAIN entries' |-> entries'[i]] /\ DOMAIN entries' \subseteq Ids
    BY <1>5 DEF FireMarks
  <2>4. \A i \in DOMAIN entries' : \/ entries'[i] = [entries[i] EXCEPT !.at = fire.when + schedRetry]
                                  \/ entries'[i] = NextRun(entries[i])
                                  \/ entries'[i] = entries[i]
    BY <1>5 DEF FireMarks
  <2>5. \A i \in DOMAIN entries' : entries'[i] \in AnEntry
    BY <2>1, <2>2, <2>3, <2>4, TimedEntry, NextRunEntry
  <2>6. AStore(next, entries')
    BY <2>3, <2>5, MapStore DEF StoreTypes, AStore, Ids
  <2> QED
    BY <1>5, <2>6 DEF FireMarks, StoreTypes
<1>6. CASE FireSaves
  BY <1>6 DEF FireSaves, Saves, StoreTypes, AStore, store
<1>7. CASE FireFindsNone
  <2>1. AStore(next, entries')
    BY <1>7, DropStore DEF FireFindsNone, StoreTypes
  <2> QED
    BY <1>7, <2>1 DEF FireFindsNone, StoreTypes
<1>8. CASE FirePutsBack
  <2>1. \A i \in DOMAIN entries' : \/ i \in Ids /\ entries'[i] = entries[i]
                                  \/ \E f \in fire.retry : /\ i = f.id
                                       /\ entries'[i] = [f.e EXCEPT !.at = fire.when + schedRetry,
                                                                    !.awaiting = FALSE]
    BY <1>8 DEF FirePutsBack
  <2>2. \A f \in fire.retry : f.id \in 1..next /\ f.e \in AnEntry
    BY DEF FireTypes, FireInv, Firing, Id, Hand
  <2>3. fire.when + schedRetry \in Nat
    BY Intervals DEF FireTypes
  <2>4. \A i \in Ids : i \in 1..next /\ entries[i] \in AnEntry
    BY DEF StoreTypes, AStore, Ids
  <2>5. \A f \in fire.retry : [f.e EXCEPT !.at = fire.when + schedRetry, !.awaiting = FALSE] \in AnEntry
    BY <2>2, <2>3, TimedEntry
  <2>6. ASSUME NEW i \in DOMAIN entries' PROVE i \in 1..next /\ entries'[i] \in AnEntry
    <3>1. CASE i \in Ids /\ entries'[i] = entries[i]
      BY <2>4, <3>1
    <3>2. CASE ~(i \in Ids /\ entries'[i] = entries[i])
      <4>1. PICK f \in fire.retry : /\ i = f.id
                                    /\ entries'[i] = [f.e EXCEPT !.at = fire.when + schedRetry,
                                                                 !.awaiting = FALSE]
        BY <2>1, <3>2
      <4> QED
        BY <2>2, <2>5, <4>1
    <3> QED
      BY <3>1, <3>2
  <2>7. entries' = [i \in DOMAIN entries' |-> entries'[i]]
    BY <1>8 DEF FirePutsBack
  <2>8. AStore(next, entries')
    BY <2>6, <2>7, MapStore DEF StoreTypes
  <2> QED
    BY <1>8, <2>8 DEF FirePutsBack, StoreTypes
<1>9. CASE FireFinishes
  BY <1>9 DEF FireFinishes, Saves, StoreTypes, AStore, store
<1>10. CASE LoopCtlSets
  <2>1. now + 1 \in Nat
    BY DEF StoreTypes
  <2>2. CASE entries' = entries
    BY <1>10, <2>2 DEF LoopCtlSets, StoreTypes
  <2>3. CASE SetTime(op.id, now + 1)
    BY <1>10, <2>1, <2>3, SetTimeStore DEF LoopCtlSets, StoreTypes
  <2>4. CASE Removed(op.id)
    BY <1>10, <2>4, DropStore DEF LoopCtlSets, StoreTypes, Removed
  <2> QED
    BY <1>10, <2>2, <2>3, <2>4 DEF LoopCtlSets
<1>11. CASE DropSession
  BY <1>11 DEF DropSession, StoreTypes, AStore, None
<1>12. CASE OpSaves
  BY <1>12 DEF OpSaves, Saves, StoreTypes, AStore, store
<1>13. ASSUME NEW r \in {"cur", "old"}, TurnEnded(r) PROVE StoreTypes'
  BY <1>13, DefaultStore DEF TurnEnded, StoreTypes
<1>14. ASSUME NEW r \in {"cur", "old"}, ReaderSaves(r) PROVE StoreTypes'
  BY <1>14 DEF ReaderSaves, Saves, StoreTypes, AStore, store
<1>15. ASSUME NEW k \in Kinds, NEW at \in Soon, Add(k, at) PROVE StoreTypes'
  <2>1. at \in Nat
    BY DEF StoreTypes, Soon
  <2>2. [kind |-> k, at |-> at, awaiting |-> FALSE, fired |-> Never] \in AnEntry
    BY <2>1, SchedulerAssumption DEF SchedulerAssumption, AnEntry, Never
  <2>3. AStore(next + 1, entries')
    BY <1>15, <2>2, PutStore DEF Add, StoreTypes
  <2>4. next' = next + 1 /\ UNCHANGED <<now, disk>>
    BY <1>15 DEF Add, Starts
  <2>5. disk.next <= next + 1 /\ next \in Nat /\ disk.next \in Nat
    BY DEF StoreTypes, AStore
  <2> QED
    BY <2>3, <2>4, <2>5 DEF StoreTypes
<1>16. ASSUME NEW i \in Id, Cancel(i) PROVE StoreTypes'
  BY <1>16, DropStore DEF Cancel, Starts, Removed, StoreTypes
<1>17. ASSUME NEW i \in Id, NEW at \in Soon, Push(i, at) PROVE StoreTypes'
  <2>1. at \in Nat
    BY DEF StoreTypes, Soon
  <2> QED
    BY <1>17, <2>1, SetTimeStore DEF Push, Starts, StoreTypes
<1>18. CASE Tick
  BY <1>18 DEF Tick, StoreTypes, store
<1>19. CASE Crash
  <2>1. AStore(next', entries')
    BY <1>19, DefaultStore DEF Crash, StoreTypes
  <2> QED
    BY <1>19, <2>1 DEF Crash, StoreTypes, AStore
<1> QED
  BY <1>1, <1>2, <1>3, <1>4, <1>5, <1>6, <1>7, <1>8, <1>9, <1>10, <1>11, <1>12, <1>13, <1>14,
     <1>15, <1>16, <1>17, <1>18, <1>19 DEF Next, FireStep, OpStep, ReaderStep

\* The entries of memory, and those of the file.
LEMMA Held ==
  ASSUME StoreTypes
  PROVE  /\ \A i \in Ids : /\ i \in Id /\ i <= next /\ entries[i] \in AnEntry
                           /\ entries[i].at \in Nat
         /\ \A i \in DOMAIN disk.entries : /\ i \in Id /\ i <= disk.next
                                           /\ disk.entries[i] \in AnEntry
                                           /\ disk.entries[i].at \in Nat
         /\ next \in Nat /\ disk.next \in Nat /\ disk.next <= next
<1>1. MaxId \in Nat
  BY SchedulerAssumption DEF SchedulerAssumption
<1> QED
  BY <1>1 DEF StoreTypes, AStore, AnEntry, Ids, Id

-----------------------------------------------------------------------------
(* What a firing has in hand                                                 *)

\* Numbers have a least.
LEMMA Least ==
  ASSUME NEW Q \in SUBSET Nat, Q # {}
  PROVE  \E q \in Q : \A r \in Q : q <= r
<1> DEFINE less == OpToRel(<, Nat)
<1>1. \E q \in Q : \A r \in Q : ~ (<<r, q>> \in less)
  <2> HIDE DEF less
  <2>1. IsWellFoundedOn(less, Nat)
    BY NatLessThanWellFounded DEF less
  <2> QED
    BY <2>1, WFMin
<1>2. PICK q \in Q : \A r \in Q : ~ (<<r, q>> \in less)
  BY <1>1
<1>3. \A r \in Q : ~ (r < q)
  BY <1>2 DEF OpToRel
<1> QED
  BY <1>3

\* There is a firing to deliver first: the earliest, and of those the lowest id.
LEMMA FirstInHand ==
  ASSUME FireTypes, fire.todo # {}
  PROVE  First \in fire.todo
<1>1. \A f \in fire.todo : f.e.at \in Nat /\ f.id \in Nat
  BY DEF FireTypes, Firing, AnEntry, Id
<1> DEFINE times == {f.e.at : f \in fire.todo}
<1>2. \E t \in times : \A u \in times : t <= u
  BY <1>1, Least
<1>3. PICK t \in times : \A u \in times : t <= u
  BY <1>2
<1> DEFINE nums == {f.id : f \in {g \in fire.todo : g.e.at = t}}
<1>4. nums \in SUBSET Nat /\ nums # {}
  BY <1>1, <1>3
<1>5. PICK n \in nums : \A m \in nums : n <= m
  BY <1>4, Least
<1>6. PICK f \in fire.todo : f.e.at = t /\ f.id = n
  BY <1>5
<1>7. ASSUME NEW g \in fire.todo PROVE Earlier(f, g)
  <2>1. t <= g.e.at
    BY <1>3
  <2>2. g.e.at = t => n <= g.id
    BY <1>5
  <2>3. t \in Nat /\ g.e.at \in Nat
    BY <1>1, <1>3
  <2> QED
    BY <1>6, <2>1, <2>2, <2>3 DEF Earlier
<1> QED
  BY <1>6, <1>7 DEF First

\* A pass has firings of entries in hand.
LEMMA FireTypesP ==
  ASSUME StoreTypes, FireTypes, [Next]_vars
  PROVE  FireTypes'
<1>1. ASSUME UNCHANGED <<next, fire>> PROVE FireTypes'
  BY <1>1 DEF FireTypes, Hand, Firing
<1>2. CASE UNCHANGED vars
  BY <1>1, <1>2 DEF vars, store, engine, bounds, history
<1>3. CASE \/ LoopCtlSets \/ DropSession \/ OpSaves \/ ReadEvent \/ ReaderExits
           \/ ReaderTracksStop \/ Forget \/ PersonSends \/ EngineTakes \/ EngineTurnEnds
           \/ EngineDies \/ Tick
  BY <1>1, <1>3 DEF LoopCtlSets, SetTime, Removed, DropSession, OpIdle, OpSaves, Saves,
     ReadEvent, ReaderExits, ReaderTracksStop, Forget, Starts, PersonSends, EngineTakes,
     EngineTurnEnds, EngineDies, Tick, store, engine, bounds, history
<1>4. ASSUME NEW r \in {"cur", "old"},
           TurnEnded(r) \/ ReaderSaves(r)
    PROVE  FireTypes'
  BY <1>1, <1>4 DEF TurnEnded, ReaderSaves, Saves, store, engine, bounds, history
<1>5. ASSUME NEW i \in Id,
           Cancel(i) \/ LoopCtlPicks(i)
    PROVE  FireTypes'
  BY <1>1, <1>5 DEF Cancel, Starts, Removed, LoopCtlPicks, store, engine, bounds, history
<1>6. ASSUME NEW i \in Id, NEW at \in Soon,
           Push(i, at)
    PROVE  FireTypes'
  BY <1>1, <1>6 DEF Push, Starts, SetTime, store, engine, bounds, history
<1>7. CASE FireCollects
  <2>1. \A i \in Ids : i \in Id /\ entries[i].at \in Nat
    BY Held
  <2>2. now \in Nat /\ 0 \in Nat
    BY DEF StoreTypes
  <2>3. {[id |-> i, at |-> entries[i].at] : i \in Due} \subseteq [id : Id, at : Nat]
    BY <2>1 DEF Due
  <2> QED
    BY <1>7, <2>2, <2>3 DEF FireCollects, FireIdle, Never, store, FireTypes, Hand, Firing
<1>8. CASE FireAsksBusy
  <2>1. (exists /\ running /\ inTurn) \in BOOLEAN
    OBVIOUS
  <2> QED
    BY <1>8, <2>1 DEF FireAsksBusy, store, FireTypes, Hand, Firing
<1>9. CASE FireMarks
  <2>1. \A i \in Ids : i \in Id /\ i <= next /\ entries[i] \in AnEntry
    BY Held
  <2>2. \A i \in Ids : [entries[i] EXCEPT !.fired = fire.when] \in AnEntry
    BY <2>1, TimedEntry DEF FireTypes
  <2>3. \A f \in fire'.todo : /\ f.id \in Ids
                              /\ f = [id |-> f.id, e |-> [entries[f.id] EXCEPT !.fired = fire.when]]
    BY <1>9 DEF FireMarks, FireTypes
  <2>4. fire'.todo \subseteq Firing /\ \A f \in fire'.todo : f.id <= next
    BY <2>1, <2>2, <2>3 DEF Firing
  <2>5. fire' = [fire EXCEPT !.at = "save", !.due = {}, !.todo = fire'.todo] /\ next' = next
    BY <1>9 DEF FireMarks, FireTypes
  <2> HIDE DEF FireMarks
  <2> QED
    BY <2>4, <2>5 DEF FireTypes, Hand
<1>10. CASE FireSaves
  BY <1>10 DEF FireTypes, Hand, Firing, FireSaves, Saves, store, engine, bounds, history
<1>11. CASE FireDelivers
  BY <1>11 DEF FireDelivers, Taken, store, engine, bounds, history, FireTypes, Hand, Firing
<1>12. CASE FireFails
  <2>1. First \in fire.todo
    BY <1>12, FirstInHand DEF FireFails
  <2> QED
    BY <1>12, <2>1 DEF FireFails, store, FireTypes, Hand, Firing
<1>13. CASE FireFindsNone
  BY <1>13 DEF FireTypes, Hand, Firing, FireFindsNone, Taken, store, engine, bounds, history
<1>14. CASE FirePutsBack
  BY <1>14 DEF FireTypes, Hand, Firing, FirePutsBack, store, engine, bounds, history
<1>15. CASE FireFinishes
  <2>1. fire' = [at |-> "idle", when |-> 0, due |-> {}, busy |-> FALSE, todo |-> {}, retry |-> {}]
    BY <1>15 DEF FireFinishes, FireIdle, Never
  <2> QED
    BY <2>1 DEF FireTypes, Hand, Firing
<1>16. ASSUME NEW k \in Kinds, NEW at \in Soon, Add(k, at) PROVE FireTypes'
  BY <1>16 DEF Add, Starts, StoreTypes, AStore, Id, FireTypes, Hand, Firing
<1>17. CASE Crash
  <2>1. fire' = [at |-> "idle", when |-> 0, due |-> {}, busy |-> FALSE, todo |-> {}, retry |-> {}]
    BY <1>17 DEF Crash, FireIdle, Never
  <2> QED
    BY <2>1 DEF FireTypes, Hand, Firing
<1> QED
  BY <1>1, <1>2, <1>3, <1>4, <1>5, <1>6, <1>7, <1>8, <1>9, <1>10, <1>11, <1>12, <1>13, <1>14,
     <1>15, <1>16, <1>17 DEF Next, FireStep, OpStep, ReaderStep

\* The session's side keeps its types.
LEMMA SessionTypesP ==
  ASSUME StoreTypes, FireTypes, SessionTypes, [Next]_vars
  PROVE  SessionTypes'
<1>1. ASSUME UNCHANGED <<reader, exists, running, alive, inbox, turn, events, inTurn, sent, last>> PROVE SessionTypes'
  BY <1>1 DEF SessionTypes
<1>2. CASE UNCHANGED vars
  BY <1>1, <1>2 DEF vars, store, engine, bounds, history
<1>3. CASE \/ FireCollects \/ FireAsksBusy \/ FireSaves \/ FireFails \/ FireFindsNone
           \/ FireFinishes \/ DropSession \/ OpSaves \/ Tick
  BY <1>1, <1>3 DEF FireCollects, Due, FireIdle, FireAsksBusy, FireSaves, Saves, FireFails,
     FireFindsNone, Taken, FireFinishes, DropSession, OpIdle, OpSaves, Tick, store, engine,
     bounds, history
<1>4. ASSUME NEW k \in Kinds, NEW at \in Soon,
           Add(k, at)
    PROVE  SessionTypes'
  BY <1>1, <1>4 DEF Add, Starts, store, engine, bounds, history
<1>5. ASSUME NEW i \in Id,
           Cancel(i) \/ LoopCtlPicks(i)
    PROVE  SessionTypes'
  BY <1>1, <1>5 DEF Cancel, Starts, Removed, LoopCtlPicks, store, engine, bounds, history
<1>6. CASE FireMarks
  <2>1. fire.when \in Nat
    BY DEF FireTypes
  <2>2. last' \in [Id -> Nat]
    BY <1>6, <2>1 DEF FireMarks, SessionTypes
  <2> QED
    BY <1>6, <2>2 DEF FireMarks, engine, SessionTypes
<1>7. CASE FireDelivers
  <2>1. First \in fire.todo
    BY <1>7, FirstInHand DEF FireDelivers
  <2>2. First.id \in Id
    BY <2>1 DEF FireTypes, Firing
  <2> QED
    BY <1>7, <2>2 DEF FireDelivers, SessionTypes
<1>8. CASE FirePutsBack
  <2>1. last' \in [Id -> Nat]
    BY <1>8 DEF FirePutsBack, Never, SessionTypes
  <2> QED
    BY <1>8, <2>1 DEF FirePutsBack, engine, SessionTypes
<1>9. CASE LoopCtlSets
  BY <1>9 DEF LoopCtlSets, SetTime, Never, engine, SessionTypes
<1>10. CASE ReadEvent
  BY <1>10 DEF SessionTypes, ReadEvent, store, engine, bounds, history
<1>11. CASE ReaderExits
  BY <1>11 DEF SessionTypes, ReaderExits, store, engine, bounds, history
<1>12. CASE ReaderTracksStop
  BY <1>12 DEF SessionTypes, ReaderTracksStop, store, engine, bounds, history
<1>13. ASSUME NEW r \in {"cur", "old"}, TurnEnded(r) PROVE SessionTypes'
  BY <1>13 DEF SessionTypes, TurnEnded, store, engine, bounds, history
<1>14. ASSUME NEW r \in {"cur", "old"}, ReaderSaves(r) PROVE SessionTypes'
  BY <1>14 DEF SessionTypes, ReaderSaves, Saves, store, engine, bounds, history
<1>15. ASSUME NEW i \in Id, NEW at \in Soon, Push(i, at) PROVE SessionTypes'
  BY <1>15 DEF Push, Starts, SetTime, Never, engine, SessionTypes
<1>16. CASE Forget
  BY <1>16 DEF SessionTypes, Forget, Starts, store, engine, bounds, history
<1>17. CASE PersonSends
  BY <1>17 DEF SessionTypes, PersonSends, store, engine, bounds, history
<1>18. CASE EngineTakes
  BY <1>18 DEF SessionTypes, EngineTakes, store, engine, bounds, history
<1>19. CASE EngineTurnEnds
  <2>1. events' \in Seq({"turn", "done"})
    BY <1>19 DEF EngineTurnEnds, SessionTypes
  <2> QED
    BY <1>19, <2>1 DEF EngineTurnEnds, bounds, history, SessionTypes
<1>20. CASE EngineDies
  BY <1>20 DEF SessionTypes, EngineDies, store, engine, bounds, history
<1>21. CASE Crash
  <2>1. last' \in [Id -> Nat]
    BY <1>21 DEF Crash, Never, SessionTypes
  <2>2. events' \in Seq({"turn", "done"})
    BY <1>21 DEF Crash
  <2> QED
    BY <1>21, <2>1, <2>2 DEF Crash, SessionTypes
<1> QED
  BY <1>1, <1>2, <1>3, <1>4, <1>5, <1>6, <1>7, <1>8, <1>9, <1>10, <1>11, <1>12, <1>13, <1>14,
     <1>15, <1>16, <1>17, <1>18, <1>19, <1>20, <1>21 DEF Next, FireStep, OpStep, ReaderStep

\* What the marking of the due ones takes in hand, and what it leaves.
LEMMA MarksTake ==
  ASSUME StoreTypes, FireTypes, FireInv, FireMarks
  PROVE  /\ fire'.at = "save" /\ fire'.when = fire.when /\ fire'.due = {} /\ fire'.retry = {}
         /\ Ids' \subseteq Ids
         /\ \A f \in fire'.todo :
              /\ f.id \in Ids /\ f.e = [entries[f.id] EXCEPT !.fired = fire.when]
              /\ f = [id |-> f.id, e |-> f.e]
              /\ entries[f.id].at <= fire.when
              /\ ~Loop(f.e) => f.id \notin Ids'
<1> DEFINE same == {d.id : d \in {x \in fire.due : x.id \in Ids /\ entries[x.id].at = x.at}}
           busy == {i \in same : Loop(entries[i]) /\ fire.busy}
           go   == same \ busy
<1>1. \A i \in same : i \in Ids /\ entries[i].at <= fire.when
  BY DEF FireInv
<1>2. fire' = [fire EXCEPT !.at = "save", !.due = {},
                 !.todo = {[id |-> i, e |-> [entries[i] EXCEPT !.fired = fire.when]] : i \in go}]
  BY DEF FireMarks
<1>3. Ids' = Ids \ {i \in go : ~Loop(entries[i])}
  BY DEF FireMarks, Ids
<1>4. fire.retry = {}
  BY DEF FireMarks, FireInv
<1>5. fire'.todo = {[id |-> i, e |-> [entries[i] EXCEPT !.fired = fire.when]] : i \in go}
  BY <1>2 DEF FireTypes
<1>6. \A f \in fire'.todo : /\ f.id \in go /\ f.e = [entries[f.id] EXCEPT !.fired = fire.when]
                            /\ f = [id |-> f.id, e |-> f.e]
  BY <1>5
<1>7. \A i \in go : i \in same
  OBVIOUS
<1>8. \A i \in Ids : Loop([entries[i] EXCEPT !.fired = fire.when]) <=> Loop(entries[i])
  BY Held DEF Loop, AnEntry
<1>9. fire'.at = "save" /\ fire'.when = fire.when /\ fire'.due = {} /\ fire'.retry = {}
  BY <1>2, <1>4 DEF FireTypes
<1> HIDE DEF go, same
<1> QED
  BY <1>1, <1>3, <1>6, <1>7, <1>8, <1>9

\* The default of those that wait leaves the others, and so every fixed loop.
LEMMA DefaultKeeps ==
  ASSUME NEW n, NEW es, AStore(n, es), NEW t
  PROVE  /\ DOMAIN Default(es, t) = DOMAIN es
         /\ \A i \in DOMAIN es : \/ es[i].awaiting /\ ~Default(es, t)[i].awaiting
                                 \/ Default(es, t)[i] = es[i] /\ ~es[i].awaiting
         /\ \A i \in DOMAIN es : Default(es, t)[i].kind = es[i].kind
         /\ \A i \in DOMAIN es : es[i].kind = "every" => Default(es, t)[i] = es[i]
<1>1. \A i \in DOMAIN es : es[i] \in AnEntry
  BY DEF AStore
<1> QED
  BY <1>1 DEF Default, AnEntry

\* A pass has an entry in hand once, and only where it may.
LEMMA FireInvP ==
  ASSUME StoreTypes, FireTypes, FireInv, [Next]_vars
  PROVE  FireInv'
<1>1. ASSUME UNCHANGED <<fire>> PROVE FireInv'
  BY <1>1 DEF FireInv, Hand
<1>2. CASE UNCHANGED vars
  BY <1>1, <1>2 DEF vars, store, engine, bounds, history
<1>3. CASE \/ LoopCtlSets \/ DropSession \/ OpSaves \/ ReadEvent \/ ReaderExits
           \/ ReaderTracksStop \/ Forget \/ PersonSends \/ EngineTakes \/ EngineTurnEnds
           \/ EngineDies \/ Tick
  BY <1>1, <1>3 DEF LoopCtlSets, SetTime, Removed, DropSession, OpIdle, OpSaves, Saves,
     ReadEvent, ReaderExits, ReaderTracksStop, Forget, Starts, PersonSends, EngineTakes,
     EngineTurnEnds, EngineDies, Tick, store, engine, bounds, history
<1>4. ASSUME NEW r \in {"cur", "old"},
           TurnEnded(r) \/ ReaderSaves(r)
    PROVE  FireInv'
  BY <1>1, <1>4 DEF TurnEnded, ReaderSaves, Saves, store, engine, bounds, history
<1>5. ASSUME NEW k \in Kinds, NEW at \in Soon,
           Add(k, at)
    PROVE  FireInv'
  BY <1>1, <1>5 DEF Add, Starts, store, engine, bounds, history
<1>6. ASSUME NEW i \in Id,
           Cancel(i) \/ LoopCtlPicks(i)
    PROVE  FireInv'
  BY <1>1, <1>6 DEF Cancel, Starts, Removed, LoopCtlPicks, store, engine, bounds, history
<1>7. ASSUME NEW i \in Id, NEW at \in Soon,
           Push(i, at)
    PROVE  FireInv'
  BY <1>1, <1>7 DEF Push, Starts, SetTime, store, engine, bounds, history
<1>8. CASE FireCollects
  <2>1. fire'.due = {[id |-> i, at |-> entries[i].at] : i \in Due} /\ fire'.when = now
    BY <1>8 DEF FireCollects, FireIdle
  <2>2. \A d \in fire'.due : d.at <= fire'.when
    BY <2>1, Held DEF Due
  <2>3. fire'.todo = {} /\ fire'.retry = {}
    BY <1>8 DEF FireCollects, FireIdle
  <2> QED
    BY <2>2, <2>3 DEF FireInv, Hand
<1>9. CASE FireAsksBusy
  BY <1>9 DEF FireAsksBusy, FireTypes, FireInv, Hand
<1>10. CASE FireMarks
  <2>1. /\ fire'.at = "save" /\ fire'.due = {} /\ fire'.retry = {}
        /\ \A f \in fire'.todo : /\ f.e = [entries[f.id] EXCEPT !.fired = fire.when]
                                 /\ f = [id |-> f.id, e |-> f.e]
    BY <1>10, MarksTake
  <2>2. ASSUME NEW f \in fire'.todo, NEW g \in fire'.todo, f.id = g.id PROVE f = g
    <3>1. f.e = g.e
      BY <2>1, <2>2
    <3> QED
      BY <2>1, <2>2, <3>1
  <2> QED
    BY <2>1, <2>2 DEF FireInv, Hand
<1>11. CASE FireSaves
  BY <1>11 DEF FireSaves, FireTypes, FireInv, Hand
<1>12. CASE FireDelivers
  BY <1>12 DEF FireDelivers, Taken, FireTypes, FireInv, Hand
<1>13. CASE FireFails
  <2>1. First \in fire.todo
    BY <1>13, FirstInHand DEF FireFails
  <2>2. /\ fire'.todo = fire.todo \ {First} /\ fire'.retry = fire.retry \union {First}
        /\ fire'.at = "deliver" /\ fire'.due = fire.due /\ fire'.when = fire.when
    BY <1>13 DEF FireFails, FireTypes
  <2>3. Hand' = Hand
    BY <2>1, <2>2 DEF Hand
  <2> QED
    BY <2>1, <2>2, <2>3 DEF FireInv
<1>14. CASE FireFindsNone
  BY <1>14 DEF FireFindsNone, Taken, FireTypes, FireInv, Hand
<1>15. CASE FirePutsBack
  <2>1. /\ fire'.todo = {} /\ fire'.retry = {}
        /\ fire'.at = "finish" /\ fire'.due = fire.due /\ fire'.when = fire.when
    BY <1>15 DEF FirePutsBack, FireTypes
  <2> QED
    BY <2>1 DEF FireInv, Hand
<1>16. CASE FireFinishes
  BY <1>16 DEF FireFinishes, FireIdle, FireInv, Hand
<1>17. CASE Crash
  BY <1>17 DEF Crash, FireIdle, FireInv, Hand
<1> QED
  BY <1>1, <1>2, <1>3, <1>4, <1>5, <1>6, <1>7, <1>8, <1>9, <1>10, <1>11, <1>12, <1>13, <1>14,
     <1>15, <1>16, <1>17 DEF Next, FireStep, OpStep, ReaderStep

\* What only sets times or removes gives out no number and puts nothing back.
LEMMA Shrinks ==
  ASSUME StoreTypes, FireTypes,
         \/ FireFindsNone \/ LoopCtlSets \/ DropSession
         \/ \E r \in {"cur", "old"} : TurnEnded(r)
         \/ \E i \in Id : Cancel(i) \/ \E at \in Soon : Push(i, at)
  PROVE  /\ Ids' \subseteq Ids /\ UNCHANGED <<next, disk, sent>>
         /\ fire'.todo \subseteq fire.todo /\ fire'.retry = fire.retry /\ fire'.at = fire.at
         /\ InHand' \subseteq InHand
<1>1. CASE FireFindsNone
  <2>1. fire'.todo \subseteq fire.todo /\ fire'.retry = fire.retry /\ fire'.at = fire.at
    BY <1>1 DEF FireFindsNone, Taken, FireTypes
  <2> QED
    BY <1>1, <2>1 DEF FireFindsNone, history, Drop, Ids, InHand
<1>2. CASE LoopCtlSets
  BY <1>2, Held DEF LoopCtlSets, SetTime, Removed, Drop, Ids, InHand
<1>3. CASE DropSession
  BY <1>3 DEF DropSession, None, Ids, InHand, history
<1>4. CASE \E r \in {"cur", "old"} : TurnEnded(r)
  BY <1>4 DEF TurnEnded, Default, Ids, InHand, history
<1>5. CASE \E i \in Id : Cancel(i) \/ \E at \in Soon : Push(i, at)
  BY <1>5 DEF Cancel, Push, Starts, SetTime, Removed, Drop, Ids, InHand
<1> QED
  BY <1>1, <1>2, <1>3, <1>4, <1>5

\* A one-shot that was sent stays gone.
LEMMA SentInvP ==
  ASSUME StoreTypes, FireTypes, SessionTypes, FireInv, SentInv, OnceInv, [Next]_vars
  PROVE  SentInv'
<1>1. ASSUME UNCHANGED <<entries, disk, fire, sent>> PROVE SentInv'
  BY <1>1 DEF SentInv, InHand, Ids
<1>2. CASE UNCHANGED vars
  BY <1>1, <1>2 DEF vars, store, engine, bounds, history
<1>3. CASE \/ ReadEvent \/ ReaderExits \/ ReaderTracksStop \/ Forget \/ PersonSends
           \/ EngineTakes \/ EngineTurnEnds \/ EngineDies \/ Tick
  BY <1>1, <1>3 DEF ReadEvent, ReaderExits, ReaderTracksStop, Forget, Starts, PersonSends,
     EngineTakes, EngineTurnEnds, EngineDies, Tick, store, engine, bounds, history
<1>4. ASSUME NEW i \in Id,
           LoopCtlPicks(i)
    PROVE  SentInv'
  BY <1>1, <1>4 DEF LoopCtlPicks, Starts, store, engine, bounds, history
<1>5. CASE FireCollects
  BY <1>5 DEF FireCollects, FireIdle, store, history, SentInv, InHand, Ids
<1>6. CASE FireAsksBusy
  BY <1>6 DEF FireAsksBusy, FireTypes, store, history, SentInv, InHand, Ids
<1>7. CASE FireMarks
  <2>1. InHand' \subseteq Ids /\ Ids' \subseteq Ids
    BY <1>7, MarksTake DEF InHand
  <2>2. UNCHANGED <<disk, sent>>
    BY <1>7 DEF FireMarks
  <2> QED
    BY <2>1, <2>2 DEF SentInv
<1>8. CASE FireSaves
  <2>1. disk'.next = next /\ DOMAIN disk'.entries = Ids /\ UNCHANGED <<entries, next, sent>>
    BY <1>8 DEF FireSaves, Saves, store, history, Ids
  <2>2. InHand' \subseteq InHand
    BY <1>8 DEF FireSaves, FireTypes, FireIdle, InHand
  <2>3. \A i \in sent : i <= disk'.next /\ i \notin DOMAIN disk'.entries
    BY <2>1, Held DEF SentInv, SessionTypes, Id
  <2> QED
    BY <2>1, <2>2, <2>3 DEF SentInv, Ids
<1>9. CASE FireDelivers
  <2>1. First \in fire.todo
    BY <1>9, FirstInHand DEF FireDelivers
  <2>2. fire'.todo = fire.todo \ {First} /\ fire'.retry = fire.retry
    BY <1>9 DEF FireDelivers, Taken, FireTypes
  <2>3. First.id \notin InHand' /\ InHand' \subseteq InHand
    BY <2>1, <2>2 DEF InHand, FireInv, Hand
  <2>4. ~Loop(First.e) => First.id <= disk.next /\ First.id \notin Ids /\ First.id \notin DOMAIN disk.entries
    BY <1>9, <2>1 DEF OnceInv, FireDelivers
  <2>5. sent' = (IF Loop(First.e) THEN sent ELSE sent \union {First.id}) /\ UNCHANGED <<disk, entries>>
    BY <1>9 DEF FireDelivers, store
  <2> QED
    BY <2>3, <2>4, <2>5 DEF SentInv, Ids
<1>10. CASE FireFails
  <2>1. First \in fire.todo
    BY <1>10, FirstInHand DEF FireFails
  <2>2. InHand' = InHand
    BY <1>10, <2>1 DEF FireFails, FireTypes, InHand
  <2> QED
    BY <1>10, <2>2 DEF FireFails, store, history, SentInv, Ids
<1>11. CASE FireFindsNone
  BY <1>11, Shrinks DEF SentInv
<1>12. CASE FirePutsBack
  <2>1. fire'.todo = {} /\ fire'.retry = {}
    BY <1>12 DEF FirePutsBack, FireTypes
  <2>2. Ids' \subseteq Ids \union InHand /\ UNCHANGED <<disk, sent>>
    BY <1>12 DEF FirePutsBack, Ids, InHand
  <2> QED
    BY <2>1, <2>2 DEF SentInv, InHand
<1>13. CASE FireFinishes
  <2>1. disk'.next = next /\ DOMAIN disk'.entries = Ids /\ UNCHANGED <<entries, next, sent>>
    BY <1>13 DEF FireFinishes, Saves, store, history, Ids
  <2>2. InHand' \subseteq InHand
    BY <1>13 DEF FireFinishes, FireTypes, FireIdle, InHand
  <2>3. \A i \in sent : i <= disk'.next /\ i \notin DOMAIN disk'.entries
    BY <2>1, Held DEF SentInv, SessionTypes, Id
  <2> QED
    BY <2>1, <2>2, <2>3 DEF SentInv, Ids
<1>14. CASE LoopCtlSets
  BY <1>14, Shrinks DEF SentInv
<1>15. CASE DropSession
  BY <1>15, Shrinks DEF SentInv
<1>16. CASE OpSaves
  <2>1. disk'.next = next /\ DOMAIN disk'.entries = Ids /\ UNCHANGED <<entries, next, sent>>
    BY <1>16 DEF OpSaves, Saves, store, history, Ids
  <2>2. InHand' \subseteq InHand
    BY <1>16 DEF OpSaves, FireTypes, FireIdle, InHand
  <2>3. \A i \in sent : i <= disk'.next /\ i \notin DOMAIN disk'.entries
    BY <2>1, Held DEF SentInv, SessionTypes, Id
  <2> QED
    BY <2>1, <2>2, <2>3 DEF SentInv, Ids
<1>17. ASSUME NEW r \in {"cur", "old"}, TurnEnded(r) PROVE SentInv'
  BY <1>17, Shrinks DEF SentInv
<1>18. ASSUME NEW r \in {"cur", "old"}, ReaderSaves(r) PROVE SentInv'
  <2>1. disk'.next = next /\ DOMAIN disk'.entries = Ids /\ UNCHANGED <<entries, next, sent>>
    BY <1>18 DEF ReaderSaves, Saves, store, history, Ids
  <2>2. InHand' \subseteq InHand
    BY <1>18 DEF ReaderSaves, FireTypes, FireIdle, InHand
  <2>3. \A i \in sent : i <= disk'.next /\ i \notin DOMAIN disk'.entries
    BY <2>1, Held DEF SentInv, SessionTypes, Id
  <2> QED
    BY <2>1, <2>2, <2>3 DEF SentInv, Ids
<1>19. ASSUME NEW k \in Kinds, NEW at \in Soon, Add(k, at) PROVE SentInv'
  <2>1. Ids' = Ids \union {next + 1} /\ UNCHANGED <<disk, sent, fire>>
    BY <1>19 DEF Add, Starts, Put, Ids, history
  <2>2. \A i \in sent : i # next + 1
    BY Held DEF SentInv, SessionTypes, Id
  <2> QED
    BY <2>1, <2>2 DEF SentInv, InHand
<1>20. ASSUME NEW i \in Id, Cancel(i) PROVE SentInv'
  BY <1>20, Shrinks DEF SentInv
<1>21. ASSUME NEW i \in Id, NEW at \in Soon, Push(i, at) PROVE SentInv'
  BY <1>21, Shrinks DEF SentInv
<1>22. CASE Crash
  <2>1. Ids' = DOMAIN disk.entries /\ InHand' = {} /\ UNCHANGED <<disk, sent>>
    BY <1>22 DEF Crash, Default, Ids, InHand, FireIdle
  <2> QED
    BY <2>1 DEF SentInv
<1> QED
  BY <1>1, <1>2, <1>3, <1>4, <1>5, <1>6, <1>7, <1>8, <1>9, <1>10, <1>11, <1>12, <1>13, <1>14,
     <1>15, <1>16, <1>17, <1>18, <1>19, <1>20, <1>21, <1>22 DEF Next, FireStep, OpStep,
     ReaderStep

\* A one-shot in hand is off the entries, and from its save on off the file.
LEMMA OnceInvP ==
  ASSUME StoreTypes, FireTypes, FireInv, OnceInv, [Next]_vars
  PROVE  OnceInv'
<1>1. ASSUME UNCHANGED <<entries, disk, fire>> PROVE OnceInv'
  BY <1>1 DEF OnceInv, Ids
<1>2. CASE UNCHANGED vars
  BY <1>1, <1>2 DEF vars, store, engine, bounds, history
<1>3. CASE \/ ReadEvent \/ ReaderExits \/ ReaderTracksStop \/ Forget \/ PersonSends
           \/ EngineTakes \/ EngineTurnEnds \/ EngineDies \/ Tick
  BY <1>1, <1>3 DEF ReadEvent, ReaderExits, ReaderTracksStop, Forget, Starts, PersonSends,
     EngineTakes, EngineTurnEnds, EngineDies, Tick, store, engine, bounds, history
<1>4. ASSUME NEW i \in Id,
           LoopCtlPicks(i)
    PROVE  OnceInv'
  BY <1>1, <1>4 DEF LoopCtlPicks, Starts, store, engine, bounds, history
<1>5. CASE FireCollects
  BY <1>5 DEF FireCollects, FireIdle, store, OnceInv, Ids
<1>6. CASE FireAsksBusy
  BY <1>6 DEF FireAsksBusy, FireTypes, store, OnceInv, Ids
<1>7. CASE FireMarks
  BY <1>7, MarksTake DEF OnceInv
<1>8. CASE FireSaves
  <2>1. disk'.next = next /\ DOMAIN disk'.entries = Ids /\ UNCHANGED <<entries, next>>
    BY <1>8 DEF FireSaves, Saves, store, Ids
  <2>2. fire'.todo \subseteq fire.todo
    BY <1>8 DEF FireSaves, FireTypes, FireIdle
  <2> QED
    BY <2>1, <2>2 DEF OnceInv, FireTypes, Hand, Ids
<1>9. CASE FireDelivers
  BY <1>9 DEF FireDelivers, Taken, FireTypes, store, OnceInv, Ids
<1>10. CASE FireFails
  BY <1>10 DEF FireFails, FireTypes, store, OnceInv, Ids
<1>11. CASE FireFindsNone
  BY <1>11, Shrinks DEF OnceInv
<1>12. CASE FirePutsBack
  <2>1. fire'.todo = {}
    BY <1>12 DEF FirePutsBack, FireTypes
  <2> QED
    BY <2>1 DEF OnceInv
<1>13. CASE FireFinishes
  BY <1>13 DEF FireFinishes, FireIdle, OnceInv
<1>14. CASE LoopCtlSets
  BY <1>14, Shrinks DEF OnceInv
<1>15. CASE DropSession
  BY <1>15, Shrinks DEF OnceInv
<1>16. CASE OpSaves
  <2>1. disk'.next = next /\ DOMAIN disk'.entries = Ids /\ UNCHANGED <<entries, next>>
    BY <1>16 DEF OpSaves, Saves, store, Ids
  <2>2. fire'.todo \subseteq fire.todo
    BY <1>16 DEF OpSaves, FireTypes, FireIdle
  <2> QED
    BY <2>1, <2>2 DEF OnceInv, FireTypes, Hand, Ids
<1>17. ASSUME NEW r \in {"cur", "old"}, TurnEnded(r) PROVE OnceInv'
  BY <1>17, Shrinks DEF OnceInv
<1>18. ASSUME NEW r \in {"cur", "old"}, ReaderSaves(r) PROVE OnceInv'
  <2>1. disk'.next = next /\ DOMAIN disk'.entries = Ids /\ UNCHANGED <<entries, next>>
    BY <1>18 DEF ReaderSaves, Saves, store, Ids
  <2>2. fire'.todo \subseteq fire.todo
    BY <1>18 DEF ReaderSaves, FireTypes, FireIdle
  <2> QED
    BY <2>1, <2>2 DEF OnceInv, FireTypes, Hand, Ids
<1>19. ASSUME NEW k \in Kinds, NEW at \in Soon, Add(k, at) PROVE OnceInv'
  <2>1. Ids' = Ids \union {next + 1} /\ UNCHANGED <<disk, fire>>
    BY <1>19 DEF Add, Starts, Put, Ids
  <2>2. \A f \in fire.todo : f.id <= next /\ f.id \in Id
    BY DEF FireTypes, Hand, Firing
  <2>3. \A f \in fire.todo : f.id # next + 1
    BY <2>2, Held DEF Id
  <2> QED
    BY <2>1, <2>3 DEF OnceInv
<1>20. ASSUME NEW i \in Id, Cancel(i) PROVE OnceInv'
  BY <1>20, Shrinks DEF OnceInv
<1>21. ASSUME NEW i \in Id, NEW at \in Soon, Push(i, at) PROVE OnceInv'
  BY <1>21, Shrinks DEF OnceInv
<1>22. CASE Crash
  BY <1>22 DEF Crash, FireIdle, OnceInv
<1> QED
  BY <1>1, <1>2, <1>3, <1>4, <1>5, <1>6, <1>7, <1>8, <1>9, <1>10, <1>11, <1>12, <1>13, <1>14,
     <1>15, <1>16, <1>17, <1>18, <1>19, <1>20, <1>21, <1>22 DEF Next, FireStep, OpStep,
     ReaderStep

\* A fixed loop is marked to run an interval after this run, and no other loop sooner than before.
LEMMA MarksTime ==
  ASSUME StoreTypes, FireTypes, FireInv, SessionTypes, FireMarks, NEW i \in Ids',
         entries[i].kind = "every"
  PROVE  /\ i \in Ids /\ entries'[i].kind = "every"
         /\ \/ last'[i] = fire.when /\ entries'[i].at = fire.when + Every
            \/ last'[i] = last[i] /\ entries'[i].at >= entries[i].at
<1> DEFINE same == {d.id : d \in {x \in fire.due : x.id \in Ids /\ entries[x.id].at = x.at}}
           busy == {j \in same : Loop(entries[j]) /\ fire.busy}
           go   == same \ busy
<1>1. i \in Ids /\ entries[i] \in AnEntry /\ i \in Id /\ entries[i].at \in Nat
  BY MarksTake, Held
<1>2. entries'[i] = CASE i \in busy -> [entries[i] EXCEPT !.at = fire.when + schedRetry]
                      [] i \in go   -> NextRun(entries[i])
                      [] OTHER      -> entries[i]
  BY DEF FireMarks, Ids
<1>3. last'[i] = IF i \in go /\ entries[i].kind = "every" THEN fire.when ELSE last[i]
  BY <1>1 DEF FireMarks
<1>4. i \in same => entries[i].at <= fire.when
  BY DEF FireInv
<1>5. fire.when \in Nat
  BY DEF FireTypes
<1>6. busy \subseteq same /\ busy \intersect go = {}
  OBVIOUS
<1> HIDE DEF busy, go, same
<1>7. CASE i \in busy
  <2>1. entries'[i] = [entries[i] EXCEPT !.at = fire.when + schedRetry]
    BY <1>2, <1>6, <1>7
  <2>2. entries'[i].at = fire.when + schedRetry /\ entries'[i].kind = "every"
    BY <1>1, <2>1 DEF AnEntry
  <2>3. last'[i] = last[i]
    BY <1>3, <1>6, <1>7
  <2> QED
    BY <1>1, <1>4, <1>5, <1>6, <1>7, <2>2, <2>3, Intervals
<1>8. CASE i \in go
  <2>1. entries'[i] = NextRun(entries[i])
    BY <1>2, <1>6, <1>8
  <2>2. entries'[i].at = fire.when + Every /\ entries'[i].kind = "every"
    BY <1>1, <2>1 DEF AnEntry, NextRun
  <2> QED
    BY <1>1, <1>3, <1>8, <2>2
<1>9. CASE i \notin busy /\ i \notin go
  BY <1>1, <1>2, <1>3, <1>9
<1> QED
  BY <1>7, <1>8, <1>9

\* Marking makes no other kind of entry a fixed loop.
LEMMA MarksKind ==
  ASSUME StoreTypes, FireTypes, FireMarks, NEW i \in Ids', entries'[i].kind = "every"
  PROVE  entries[i].kind = "every"
<1>1. i \in Ids
  BY DEF FireMarks, Ids
<1>2. \/ entries'[i] = [entries[i] EXCEPT !.at = fire.when + schedRetry]
      \/ entries'[i] = NextRun(entries[i])
      \/ entries'[i] = entries[i]
  BY DEF FireMarks, Ids
<1> QED
  BY <1>1, <1>2, Held DEF NextRun, AnEntry

\* Held, after a step.
LEMMA HeldThen ==
  ASSUME StoreTypes'
  PROVE  \A i \in Ids' : i \in Id /\ entries'[i].at \in Nat
<1>1. MaxId \in Nat
  BY SchedulerAssumption DEF SchedulerAssumption
<1> QED
  BY <1>1 DEF StoreTypes, AStore, AnEntry, Ids, Id

\* An entry whose time is set anew is none of whose last run anything is known.
LEMMA SetTimeLast ==
  ASSUME StoreTypes, SessionTypes, LastInv, NEW id, NEW t, SetTime(id, t), next' = next
  PROVE  LastInv'
<1>1. Ids' = Ids /\ Ids \subseteq Id
  BY Held DEF SetTime, Ids
<1>2. \A j \in Ids : j # id => entries'[j] = entries[j]
  BY DEF SetTime, Ids, StoreTypes, AStore
<1>3. \A j \in Id : last'[j] = IF j = id THEN Never ELSE last[j]
  BY DEF SetTime, SessionTypes
<1> QED
  BY <1>1, <1>2, <1>3 DEF LastInv

\* The next run of a fixed loop stays an interval or more after its last.
LEMMA LastInvP ==
  ASSUME StoreTypes, FireTypes, SessionTypes, FireInv, LastInv, [Next]_vars
  PROVE  LastInv'
<1>1. ASSUME UNCHANGED <<next, entries, last>> PROVE LastInv'
  BY <1>1 DEF LastInv, Ids
<1>2. CASE UNCHANGED vars
  BY <1>1, <1>2 DEF vars, store, engine, bounds, history
<1>3. CASE \/ FireCollects \/ FireAsksBusy \/ FireSaves \/ FireDelivers \/ FireFails
           \/ FireFinishes \/ OpSaves \/ ReadEvent \/ ReaderExits \/ ReaderTracksStop \/ Forget
           \/ PersonSends \/ EngineTakes \/ EngineTurnEnds \/ EngineDies \/ Tick
  BY <1>1, <1>3 DEF FireCollects, Due, FireIdle, FireAsksBusy, FireSaves, Saves, FireDelivers,
     Taken, FireFails, FireFinishes, OpSaves, OpIdle, ReadEvent, ReaderExits, ReaderTracksStop,
     Forget, Starts, PersonSends, EngineTakes, EngineTurnEnds, EngineDies, Tick, store, engine,
     bounds, history
<1>4. ASSUME NEW r \in {"cur", "old"},
           ReaderSaves(r)
    PROVE  LastInv'
  BY <1>1, <1>4 DEF ReaderSaves, Saves, store, engine, bounds, history
<1>5. ASSUME NEW i \in Id,
           LoopCtlPicks(i)
    PROVE  LastInv'
  BY <1>1, <1>5 DEF LoopCtlPicks, Starts, store, engine, bounds, history
<1>6. CASE FireMarks
  <2>1. ASSUME NEW i \in Ids', entries'[i].kind = "every", last'[i] # Never
        PROVE  entries'[i].at >= last'[i] + Every
    <3>1. entries[i].kind = "every" /\ i \in Ids /\ i \in Id
      BY <1>6, <2>1, MarksKind, MarksTake, Held
    <3>2. CASE last'[i] = fire.when /\ entries'[i].at = fire.when + Every
      BY <3>2, Intervals DEF FireTypes
    <3>3. CASE last'[i] = last[i] /\ entries'[i].at >= entries[i].at
      <4>1. entries[i].at >= last[i] + Every
        BY <2>1, <3>1, <3>3 DEF LastInv
      <4>2. entries'[i].at \in Nat /\ entries[i].at \in Nat /\ last[i] \in Nat
        BY <1>6, <2>1, <3>1, Held, StoreTypesP, HeldThen DEF SessionTypes, Next, FireStep
      <4> QED
        BY <3>3, <4>1, <4>2, Intervals
    <3> QED
      BY <1>6, <2>1, <3>1, <3>2, <3>3, MarksTime
  <2>2. ASSUME NEW i \in Id, i > next' PROVE last'[i] = Never
    <3>1. next' = next /\ last[i] = Never
      BY <1>6, <2>2 DEF FireMarks, LastInv
    <3>2. i \notin Ids
      BY <2>2, <3>1, Held DEF Id
    <3>3. last'[i] = last[i] \/ i \in Ids
      BY <1>6 DEF FireMarks
    <3> QED
      BY <3>1, <3>2, <3>3
  <2> QED
    BY <2>1, <2>2 DEF LastInv
<1>7. CASE FireFindsNone
  BY <1>7 DEF FireFindsNone, Drop, store, history, LastInv, Ids
<1>8. CASE FirePutsBack
  <2> DEFINE again == {f.id : f \in fire.retry}
  <2>3. \A j \in Ids' : j \in again \/ (j \in Ids /\ entries'[j] = entries[j])
    BY <1>8 DEF FirePutsBack, Ids
  <2>4. \A j \in Id : last'[j] = IF j \in again THEN Never ELSE last[j]
    BY <1>8 DEF FirePutsBack
  <2>5. \A j \in again : j \in Id
    BY DEF FireTypes, Firing
  <2>6. \A j \in Ids' : j \in Id
    BY <2>3, <2>5, Held
  <2>1. \A j \in Ids' : last'[j] = Never \/ (j \in Ids /\ entries'[j] = entries[j] /\ last'[j] = last[j])
    <3> HIDE DEF again
    <3> QED
      BY <2>3, <2>4, <2>6
  <2>2. next' = next /\ \A j \in Id : last'[j] = Never \/ last'[j] = last[j]
    BY <1>8 DEF FirePutsBack
  <2> QED
    BY <2>1, <2>2 DEF LastInv
<1>9. CASE LoopCtlSets
  <2>1. CASE SetTime(op.id, now + 1)
    BY <1>9, <2>1, SetTimeLast DEF LoopCtlSets
  <2>2. CASE last' = last /\ (entries' = entries \/ Removed(op.id))
    BY <1>9, <2>2 DEF LoopCtlSets, Removed, Drop, LastInv, Ids
  <2> QED
    BY <1>9, <2>1, <2>2 DEF LoopCtlSets
<1>10. CASE DropSession
  BY <1>10 DEF DropSession, None, history, LastInv, Ids
<1>11. ASSUME NEW r \in {"cur", "old"}, TurnEnded(r) PROVE LastInv'
  <2>1. Ids' = Ids /\ \A j \in Ids : /\ entries'[j].kind = entries[j].kind
                                     /\ entries[j].kind = "every" => entries'[j] = entries[j]
    BY <1>11, DefaultKeeps DEF TurnEnded, StoreTypes, Ids
  <2> QED
    BY <1>11, <2>1 DEF TurnEnded, history, LastInv
<1>12. ASSUME NEW k \in Kinds, NEW at \in Soon, Add(k, at) PROVE LastInv'
  <2>1. \A j \in Ids' : j = next + 1 \/ (j \in Ids /\ entries'[j] = entries[j])
    <3>1. entries' = [j \in Ids \union {next + 1} |->
                        IF j = next + 1 THEN [kind |-> k, at |-> at, awaiting |-> FALSE, fired |-> Never]
                                        ELSE entries[j]]
      BY <1>12 DEF Add, Put, Ids
    <3> QED
      BY <3>1 DEF Ids
  <2>2. next' = next + 1 /\ last' = last /\ next + 1 \in Id /\ next + 1 > next
    BY <1>12, Held, SchedulerAssumption DEF Add, Starts, history, Id, SchedulerAssumption
  <2>3. last[next + 1] = Never
    BY <2>2 DEF LastInv
  <2>4. \A j \in Id : j > next + 1 => j > next
    BY Held DEF Id
  <2> QED
    BY <2>1, <2>2, <2>3, <2>4 DEF LastInv
<1>13. ASSUME NEW i \in Id, Cancel(i) PROVE LastInv'
  BY <1>13 DEF Cancel, Starts, Removed, Drop, LastInv, Ids
<1>14. ASSUME NEW i \in Id, NEW at \in Soon, Push(i, at) PROVE LastInv'
  BY <1>14, SetTimeLast DEF Push, Starts
<1>15. CASE Crash
  <2>1. Ids' = DOMAIN disk.entries
        /\ \A j \in Ids' : /\ entries'[j].kind = disk.entries[j].kind
                           /\ disk.entries[j].kind = "every" => entries'[j] = disk.entries[j]
    BY <1>15, DefaultKeeps DEF Crash, StoreTypes, Ids
  <2>2. \A j \in Id : \/ last'[j] = Never
                      \/ /\ j \in DOMAIN disk.entries /\ last'[j] = last[j]
                         /\ disk.entries[j].at = last[j] + Every
    BY <1>15 DEF Crash
  <2>3. \A j \in Ids' : j \in Id /\ j <= disk.next
    BY <2>1, Held
  <2>4. next' = disk.next
    BY <1>15 DEF Crash
  <2>5. ASSUME NEW j \in Ids', entries'[j].kind = "every", last'[j] # Never
        PROVE  entries'[j].at >= last'[j] + Every
    <3>1. entries'[j].at = last'[j] + Every
      BY <2>1, <2>2, <2>3, <2>5
    <3>2. last'[j] \in Nat
      BY <1>15, <2>3, SessionTypesP DEF SessionTypes, Next
    <3> QED
      BY <3>1, <3>2, Intervals
  <2>6. ASSUME NEW j \in Id, j > next' PROVE last'[j] = Never
    <3>1. j \notin DOMAIN disk.entries
      BY <2>4, <2>6, Held DEF Id
    <3> QED
      BY <2>2, <3>1
  <2> QED
    BY <2>5, <2>6 DEF LastInv
<1> QED
  BY <1>1, <1>2, <1>3, <1>4, <1>5, <1>6, <1>7, <1>8, <1>9, <1>10, <1>11, <1>12, <1>13, <1>14,
     <1>15 DEF Next, FireStep, OpStep, ReaderStep

\* An operation keeps its types.
LEMMA OpTypesP ==
  ASSUME StoreTypes, OpTypes, [Next]_vars
  PROVE  OpTypes'
<1>1. ASSUME UNCHANGED <<op>> PROVE OpTypes'
  BY <1>1 DEF OpTypes
<1>2. CASE UNCHANGED vars
  BY <1>1, <1>2 DEF vars, store, engine, bounds, history
<1>3. CASE \/ FireCollects \/ FireAsksBusy \/ FireMarks \/ FireSaves \/ FireDelivers
           \/ FireFails \/ FireFindsNone \/ FirePutsBack \/ FireFinishes \/ ReadEvent
           \/ ReaderExits \/ ReaderTracksStop \/ PersonSends \/ EngineTakes \/ EngineTurnEnds
           \/ EngineDies \/ Tick
  BY <1>1, <1>3 DEF FireCollects, Due, FireIdle, FireAsksBusy, FireMarks, FireSaves, Saves,
     FireDelivers, Taken, FireFails, FireFindsNone, FirePutsBack, FireFinishes, ReadEvent,
     ReaderExits, ReaderTracksStop, PersonSends, EngineTakes, EngineTurnEnds, EngineDies, Tick,
     store, engine, bounds, history
<1>4. ASSUME NEW r \in {"cur", "old"},
           TurnEnded(r) \/ ReaderSaves(r)
    PROVE  OpTypes'
  BY <1>1, <1>4 DEF TurnEnded, ReaderSaves, Saves, store, engine, bounds, history
<1>5. CASE LoopCtlSets
  BY <1>5 DEF LoopCtlSets, OpIdle, OpTypes
<1>6. CASE DropSession
  BY <1>6 DEF OpTypes, DropSession, OpIdle, store, engine, bounds, history
<1>7. CASE OpSaves
  BY <1>7 DEF OpTypes, OpSaves, Saves, OpIdle, store, engine, bounds, history
<1>8. ASSUME NEW k \in Kinds, NEW at \in Soon, Add(k, at) PROVE OpTypes'
  BY <1>8, Held DEF Add, Starts, OpTypes
<1>9. ASSUME NEW i \in Id, Cancel(i) PROVE OpTypes'
  BY <1>9, SchedulerAssumption DEF SchedulerAssumption, Id, Cancel, Starts, OpTypes
<1>10. ASSUME NEW i \in Id, LoopCtlPicks(i) PROVE OpTypes'
  BY <1>10, SchedulerAssumption DEF SchedulerAssumption, Id, LoopCtlPicks, Starts, OpTypes
<1>11. ASSUME NEW i \in Id, NEW at \in Soon, Push(i, at) PROVE OpTypes'
  BY <1>11, SchedulerAssumption DEF SchedulerAssumption, Id, Push, Starts, OpTypes
<1>12. CASE Forget
  BY <1>12 DEF OpTypes, Forget, Starts, store, engine, bounds, history
<1>13. CASE Crash
  BY <1>13 DEF OpTypes, Crash, FireIdle, OpIdle, store, engine, bounds, history
<1> QED
  BY <1>1, <1>2, <1>3, <1>4, <1>5, <1>6, <1>7, <1>8, <1>9, <1>10, <1>11, <1>12, <1>13 DEF Next,
     FireStep, OpStep, ReaderStep

\* An engine that lives is the one the session has running.
LEMMA RunInvP ==
  ASSUME RunInv, [Next]_vars
  PROVE  RunInv'
<1>1. ASSUME UNCHANGED <<running, alive>> PROVE RunInv'
  BY <1>1 DEF RunInv
<1>2. CASE UNCHANGED vars
  BY <1>1, <1>2 DEF vars, store, engine, bounds, history
<1>3. CASE \/ FireCollects \/ FireAsksBusy \/ FireMarks \/ FireSaves \/ FireFails
           \/ FireFindsNone \/ FirePutsBack \/ FireFinishes \/ LoopCtlSets \/ DropSession
           \/ OpSaves \/ ReadEvent \/ ReaderTracksStop \/ Forget \/ EngineTakes
           \/ EngineTurnEnds \/ Tick
  BY <1>1, <1>3 DEF FireCollects, Due, FireIdle, FireAsksBusy, FireMarks, FireSaves, Saves,
     FireFails, FireFindsNone, Taken, FirePutsBack, FireFinishes, LoopCtlSets, SetTime, Removed,
     DropSession, OpIdle, OpSaves, ReadEvent, ReaderTracksStop, Forget, Starts, EngineTakes,
     EngineTurnEnds, Tick, store, engine, bounds, history
<1>4. ASSUME NEW r \in {"cur", "old"},
           TurnEnded(r) \/ ReaderSaves(r)
    PROVE  RunInv'
  BY <1>1, <1>4 DEF TurnEnded, ReaderSaves, Saves, store, engine, bounds, history
<1>5. ASSUME NEW k \in Kinds, NEW at \in Soon,
           Add(k, at)
    PROVE  RunInv'
  BY <1>1, <1>5 DEF Add, Starts, store, engine, bounds, history
<1>6. ASSUME NEW i \in Id,
           Cancel(i) \/ LoopCtlPicks(i)
    PROVE  RunInv'
  BY <1>1, <1>6 DEF Cancel, Starts, Removed, LoopCtlPicks, store, engine, bounds, history
<1>7. ASSUME NEW i \in Id, NEW at \in Soon,
           Push(i, at)
    PROVE  RunInv'
  BY <1>1, <1>7 DEF Push, Starts, SetTime, store, engine, bounds, history
<1>8. CASE FireDelivers
  BY <1>8 DEF RunInv, FireDelivers, Taken, store, engine, bounds, history
<1>9. CASE ReaderExits
  BY <1>9 DEF RunInv, ReaderExits, store, engine, bounds, history
<1>10. CASE PersonSends
  BY <1>10 DEF RunInv, PersonSends, store, engine, bounds, history
<1>11. CASE EngineDies
  BY <1>11 DEF RunInv, EngineDies, store, engine, bounds, history
<1>12. CASE Crash
  BY <1>12 DEF RunInv, Crash, FireIdle, OpIdle, store, engine, bounds, history
<1> QED
  BY <1>1, <1>2, <1>3, <1>4, <1>5, <1>6, <1>7, <1>8, <1>9, <1>10, <1>11, <1>12 DEF Next,
     FireStep, OpStep, ReaderStep

\* Memory and file differ only while somebody has a save to make.
LEMMA DiskInvP ==
  ASSUME StoreTypes, FireTypes, SessionTypes, FireInv, OpTypes, DiskInv, [Next]_vars
  PROVE  DiskInv'
<1>1. ASSUME UNCHANGED <<next, entries, disk, fire, op, reader>> PROVE DiskInv'
  BY <1>1 DEF DiskInv, SameOnDisk, Ids
<1>2. CASE UNCHANGED vars
  BY <1>1, <1>2 DEF vars, store, engine, bounds, history
<1>3. CASE PersonSends \/ EngineTakes \/ EngineTurnEnds \/ EngineDies \/ Tick
  BY <1>1, <1>3 DEF PersonSends, EngineTakes, EngineTurnEnds, EngineDies, Tick, store, engine,
     bounds, history
<1>4. CASE FireCollects
  BY <1>4 DEF FireCollects, store, DiskInv, SameOnDisk, Ids
<1>5. CASE FireAsksBusy
  BY <1>5 DEF FireAsksBusy, store, DiskInv, SameOnDisk, Ids
<1>6. CASE FireMarks
  BY <1>6, MarksTake DEF DiskInv
<1>7. CASE FireSaves
  <2>1. disk' = [next |-> next, entries |-> entries] /\ UNCHANGED <<entries, next>>
    BY <1>7 DEF FireSaves, Saves, store
  <2>2. SameOnDisk'
    BY <2>1 DEF SameOnDisk, Ids
  <2> QED
    BY <2>2 DEF DiskInv
<1>8. CASE FireDelivers
  <2>1. fire'.at = "deliver"
    BY <1>8 DEF FireDelivers, Taken, FireTypes
  <2> QED
    BY <2>1 DEF DiskInv
<1>9. CASE FireFails
  <2>1. fire'.at = "deliver"
    BY <1>9 DEF FireFails, FireTypes
  <2> QED
    BY <2>1 DEF DiskInv
<1>10. CASE FireFindsNone
  <2>1. fire'.at = "deliver"
    BY <1>10 DEF FireFindsNone, Taken, FireTypes
  <2> QED
    BY <2>1 DEF DiskInv
<1>11. CASE FirePutsBack
  <2>1. fire'.at = "finish"
    BY <1>11 DEF FirePutsBack, FireTypes
  <2> QED
    BY <2>1 DEF DiskInv
<1>12. CASE FireFinishes
  <2>1. disk' = [next |-> next, entries |-> entries] /\ UNCHANGED <<entries, next>>
    BY <1>12 DEF FireFinishes, Saves, store
  <2>2. SameOnDisk'
    BY <2>1 DEF SameOnDisk, Ids
  <2> QED
    BY <2>2 DEF DiskInv
<1>13. CASE LoopCtlSets
  <2>1. CASE op.id \notin Ids /\ op' = OpIdle /\ UNCHANGED <<entries, last>>
    BY <1>13, <2>1 DEF LoopCtlSets, OpIdle, DiskInv, SameOnDisk, Ids
  <2>2. CASE op' = [op EXCEPT !.at = "save"]
    <3>1. op'.at = "save"
      BY <1>13, <2>2 DEF OpTypes
    <3> QED
      BY <3>1 DEF DiskInv
  <2> QED
    BY <1>13, <2>1, <2>2 DEF LoopCtlSets
<1>14. CASE DropSession
  <2>1. CASE Ids = {}
    BY <1>14, <2>1 DEF DropSession, OpIdle, None, DiskInv, SameOnDisk, Ids
  <2>2. CASE Ids # {}
    <3>1. op'.at = "save"
      BY <1>14, <2>2 DEF DropSession, OpTypes
    <3> QED
      BY <3>1 DEF DiskInv
  <2> QED
    BY <2>1, <2>2
<1>15. CASE OpSaves
  <2>1. disk' = [next |-> next, entries |-> entries] /\ UNCHANGED <<entries, next>>
    BY <1>15 DEF OpSaves, Saves, store
  <2>2. SameOnDisk'
    BY <2>1 DEF SameOnDisk, Ids
  <2> QED
    BY <2>2 DEF DiskInv
<1>16. CASE ReadEvent
  BY <1>16 DEF ReadEvent, SessionTypes, store, DiskInv, SameOnDisk, Ids
<1>17. CASE ReaderExits
  BY <1>17 DEF ReaderExits, SessionTypes, store, DiskInv, SameOnDisk, Ids
<1>18. CASE ReaderTracksStop
  BY <1>18 DEF ReaderTracksStop, SessionTypes, store, DiskInv, SameOnDisk, Ids
<1>19. ASSUME NEW r \in {"cur", "old"}, TurnEnded(r) PROVE DiskInv'
  <2>1. CASE Awaiting = {}
    <3>1. Ids' = Ids /\ \A j \in Ids : entries'[j] = entries[j]
      BY <1>19, <2>1, DefaultKeeps DEF TurnEnded, StoreTypes, Awaiting, Ids
    <3>2. UNCHANGED <<next, disk, fire, op>>
      BY <1>19 DEF TurnEnded
    <3>3. reader' = [reader EXCEPT ![r] = "read"] /\ reader[r] = "ended"
      BY <1>19, <2>1 DEF TurnEnded
    <3> QED
      BY <3>1, <3>2, <3>3 DEF SessionTypes, DiskInv, SameOnDisk
  <2>2. CASE Awaiting # {}
    <3>1. reader'[r] = "save"
      BY <1>19, <2>2 DEF TurnEnded, SessionTypes
    <3> QED
      BY <1>19, <3>1 DEF DiskInv
  <2> QED
    BY <2>1, <2>2
<1>20. ASSUME NEW r \in {"cur", "old"}, ReaderSaves(r) PROVE DiskInv'
  <2>1. disk' = [next |-> next, entries |-> entries] /\ UNCHANGED <<entries, next>>
    BY <1>20 DEF ReaderSaves, Saves, store
  <2>2. SameOnDisk'
    BY <2>1 DEF SameOnDisk, Ids
  <2> QED
    BY <2>2 DEF DiskInv
<1>21. ASSUME NEW k \in Kinds, NEW at \in Soon, Add(k, at) PROVE DiskInv'
  <2>1. op'.at = "save"
    BY <1>21 DEF Add, Starts
  <2> QED
    BY <2>1 DEF DiskInv
<1>22. ASSUME NEW i \in Id, Cancel(i) PROVE DiskInv'
  <2>1. op'.at = "save"
    BY <1>22 DEF Cancel, Starts
  <2> QED
    BY <2>1 DEF DiskInv
<1>23. ASSUME NEW i \in Id, LoopCtlPicks(i) PROVE DiskInv'
  BY <1>23 DEF LoopCtlPicks, Starts, store, DiskInv, SameOnDisk, Ids
<1>24. ASSUME NEW i \in Id, NEW at \in Soon, Push(i, at) PROVE DiskInv'
  <2>1. op'.at = "save"
    BY <1>24 DEF Push, Starts
  <2> QED
    BY <2>1 DEF DiskInv
<1>25. CASE Forget
  BY <1>25 DEF Forget, Starts, store, DiskInv, SameOnDisk, Ids
<1>26. CASE Crash
  <2>1. Ids' = DOMAIN disk.entries
        /\ \A j \in Ids' : disk.entries[j] = entries'[j] \/ disk.entries[j].awaiting
    BY <1>26, DefaultKeeps DEF Crash, StoreTypes, Ids
  <2>2. next' = disk.next /\ disk' = disk
    BY <1>26 DEF Crash
  <2>3. SameOnDisk'
    BY <2>1, <2>2 DEF SameOnDisk
  <2> QED
    BY <2>3 DEF DiskInv
<1> QED
  BY <1>1, <1>2, <1>3, <1>4, <1>5, <1>6, <1>7, <1>8, <1>9, <1>10, <1>11, <1>12, <1>13, <1>14,
     <1>15, <1>16, <1>17, <1>18, <1>19, <1>20, <1>21, <1>22, <1>23, <1>24, <1>25, <1>26 DEF
     Next, FireStep, OpStep, ReaderStep

-----------------------------------------------------------------------------
(* A turn's end for every loop that waits                                     *)

\* What leaves the session alone and has no more loops wait keeps the promise.
LEMMA NoMoreWait ==
  ASSUME AwaitingHasEnd, (Awaiting \ InHand)' \subseteq Awaiting \ InHand,
         UNCHANGED <<reader, running, alive, inbox, turn, events>>
  PROVE  AwaitingHasEnd'
BY DEF AwaitingHasEnd

\* The loops that start to wait at a marking are in hand.
LEMMA MarksAwait ==
  ASSUME StoreTypes, FireTypes, FireInv, FireMarks
  PROVE  (Awaiting \ InHand)' \subseteq Awaiting \ InHand
<1> SUFFICES ASSUME NEW i \in Ids', entries'[i].awaiting, i \notin InHand'
             PROVE  i \in Awaiting /\ i \notin InHand
  BY DEF Awaiting
<1> DEFINE same == {d.id : d \in {x \in fire.due : x.id \in Ids /\ entries[x.id].at = x.at}}
           busy == {j \in same : Loop(entries[j]) /\ fire.busy}
           go   == same \ busy
<1>1. i \in Ids
  BY MarksTake
<1>2. fire'.todo = {[id |-> j, e |-> [entries[j] EXCEPT !.fired = fire.when]] : j \in go}
  BY DEF FireMarks, FireTypes
<1>3. i \notin go
  <2>1. ASSUME i \in go PROVE FALSE
    <3>1. [id |-> i, e |-> [entries[i] EXCEPT !.fired = fire.when]] \in fire'.todo
      BY <1>2, <2>1
    <3> QED
      BY <3>1 DEF InHand
  <2> QED
    BY <2>1
<1>4. entries'[i] = CASE i \in busy -> [entries[i] EXCEPT !.at = fire.when + schedRetry]
                      [] i \in go   -> NextRun(entries[i])
                      [] OTHER      -> entries[i]
  BY DEF FireMarks, Ids
<1>5. entries'[i].awaiting = entries[i].awaiting
  <2> HIDE DEF go, busy
  <2> QED
    BY <1>1, <1>3, <1>4, Held DEF AnEntry
<1>6. InHand = {}
  BY DEF FireMarks, FireInv, InHand
<1> QED
  BY <1>1, <1>5, <1>6 DEF Awaiting

\* One whose time is set anew waits no more.
LEMMA SetTimeAwait ==
  ASSUME StoreTypes, NEW id, NEW t, SetTime(id, t)
  PROVE  Awaiting' \subseteq Awaiting
<1>1. Ids' = Ids
  BY DEF SetTime, Ids
<1>2. \A j \in Ids : entries'[j] = IF j = id THEN [entries[j] EXCEPT !.at = t, !.awaiting = FALSE]
                                             ELSE entries[j]
  BY DEF SetTime, Ids, StoreTypes, AStore, AnEntry
<1>3. \A j \in Ids : ~[entries[j] EXCEPT !.at = t, !.awaiting = FALSE].awaiting
  BY Held DEF AnEntry
<1> QED
  BY <1>1, <1>2, <1>3 DEF Awaiting

\* A loop that waits keeps a turn whose end is still to come.
LEMMA AwaitingP ==
  ASSUME StoreTypes, FireTypes, SessionTypes, FireInv, RunInv, AwaitingHasEnd, [Next]_vars
  PROVE  AwaitingHasEnd'
<1>1. ASSUME UNCHANGED <<entries, fire, reader, running, alive, inbox, turn, events>> PROVE AwaitingHasEnd'
  BY <1>1 DEF AwaitingHasEnd, Awaiting, Ids, InHand
<1>2. CASE UNCHANGED vars
  BY <1>1, <1>2 DEF vars, store, engine, bounds, history
<1>3. CASE OpSaves \/ Forget \/ Tick
  BY <1>1, <1>3 DEF OpSaves, Saves, OpIdle, Forget, Starts, Tick, store, engine, bounds, history
<1>4. ASSUME NEW i \in Id,
           LoopCtlPicks(i)
    PROVE  AwaitingHasEnd'
  BY <1>1, <1>4 DEF LoopCtlPicks, Starts, store, engine, bounds, history
<1>5. CASE FireCollects
  <2>1. (Awaiting \ InHand)' \subseteq Awaiting \ InHand
    BY <1>5 DEF FireCollects, FireInv, FireIdle, store, Awaiting, Ids, InHand
  <2> QED
    BY <1>5, <2>1, NoMoreWait DEF FireCollects, engine
<1>6. CASE FireAsksBusy
  <2>1. (Awaiting \ InHand)' \subseteq Awaiting \ InHand
    BY <1>6 DEF FireAsksBusy, FireTypes, store, Awaiting, Ids, InHand
  <2> QED
    BY <1>6, <2>1, NoMoreWait DEF FireAsksBusy, engine
<1>7. CASE FireMarks
  <2>1. (Awaiting \ InHand)' \subseteq Awaiting \ InHand
    BY <1>7, MarksAwait
  <2> QED
    BY <1>7, <2>1, NoMoreWait DEF FireMarks, engine
<1>8. CASE FireSaves
  <2>1. (Awaiting \ InHand)' \subseteq Awaiting \ InHand
    BY <1>8 DEF FireSaves, FireTypes, store, Awaiting, Ids, InHand
  <2> QED
    BY <1>8, <2>1, NoMoreWait DEF FireSaves, engine
<1>9. CASE FireDelivers
  <2>1. alive' /\ inbox' > 0
    BY <1>9 DEF FireDelivers, SessionTypes
  <2> QED
    BY <2>1 DEF AwaitingHasEnd
<1>10. CASE FireFails
  <2>1. First \in fire.todo
    BY <1>10, FirstInHand DEF FireFails
  <2>2. (Awaiting \ InHand)' \subseteq Awaiting \ InHand
    BY <1>10, <2>1 DEF FireFails, FireTypes, store, Awaiting, Ids, InHand
  <2> QED
    BY <1>10, <2>2, NoMoreWait DEF FireFails, engine
<1>11. CASE FireFindsNone
  <2>1. Awaiting' = Awaiting \ {First.id}
    BY <1>11 DEF FireFindsNone, Drop, Awaiting, Ids
  <2>2. InHand \subseteq InHand' \union {First.id}
    BY <1>11 DEF FireFindsNone, Taken, FireTypes, InHand
  <2>3. (Awaiting \ InHand)' \subseteq Awaiting \ InHand
    BY <2>1, <2>2
  <2> QED
    BY <1>11, <2>3, NoMoreWait DEF FireFindsNone, engine
<1>12. CASE FirePutsBack
  <2>1. \A i \in DOMAIN entries' :
          \/ i \in Ids /\ i \notin InHand /\ entries'[i] = entries[i]
          \/ \E f \in fire.retry : entries'[i] = [f.e EXCEPT !.at = fire.when + schedRetry,
                                                             !.awaiting = FALSE]
    BY <1>12 DEF FirePutsBack, InHand
  <2>2. \A f \in fire.retry : ~[f.e EXCEPT !.at = fire.when + schedRetry, !.awaiting = FALSE].awaiting
    BY DEF FireTypes, Firing, AnEntry
  <2>3. \A i \in Awaiting' : i \in Awaiting /\ i \notin InHand
    BY <2>1, <2>2 DEF Awaiting, Ids
  <2>4. (Awaiting \ InHand)' \subseteq Awaiting \ InHand
    BY <2>3
  <2> QED
    BY <1>12, <2>4, NoMoreWait DEF FirePutsBack, engine
<1>13. CASE FireFinishes
  <2>1. (Awaiting \ InHand)' \subseteq Awaiting \ InHand
    BY <1>13 DEF FireFinishes, FireInv, FireIdle, store, Awaiting, Ids, InHand
  <2> QED
    BY <1>13, <2>1, NoMoreWait DEF FireFinishes, engine
<1>14. CASE LoopCtlSets
  <2>1. (Awaiting \ InHand)' \subseteq Awaiting \ InHand
    <3>1. CASE SetTime(op.id, now + 1)
      BY <1>14, <3>1, SetTimeAwait DEF LoopCtlSets, InHand
    <3>2. CASE entries' = entries \/ Removed(op.id)
      BY <1>14, <3>2 DEF LoopCtlSets, Removed, Drop, Awaiting, Ids, InHand
    <3> QED
      BY <1>14, <3>1, <3>2 DEF LoopCtlSets
  <2> QED
    BY <1>14, <2>1, NoMoreWait DEF LoopCtlSets, engine
<1>15. CASE DropSession
  <2>1. (Awaiting \ InHand)' \subseteq Awaiting \ InHand
    BY <1>15 DEF DropSession, None, Awaiting, Ids, InHand
  <2> QED
    BY <1>15, <2>1, NoMoreWait DEF DropSession, engine
<1>16. CASE ReadEvent
  <2>1. /\ UNCHANGED <<entries, fire, running, alive, inbox, turn>>
        /\ reader'.old = reader.old /\ reader.cur = "read"
        /\ Head(events) = "done" => reader'.cur = "ended"
    BY <1>16 DEF ReadEvent, SessionTypes, store
  <2>2. ASSUME NEW j \in DOMAIN events, events[j] = "done"
        PROVE  \/ Head(events) = "done"
               \/ \E q \in DOMAIN events' : events'[q] = "done"
    <3>1. CASE j = 1
      BY <2>2, <3>1 DEF SessionTypes
    <3>2. CASE j # 1
      <4>1. j - 1 \in DOMAIN events' /\ events'[j - 1] = events[j]
        BY <1>16, <2>2, <3>2 DEF ReadEvent, SessionTypes
      <4> QED
        BY <2>2, <4>1
    <3> QED
      BY <3>1, <3>2
  <2> QED
    BY <2>1, <2>2 DEF AwaitingHasEnd, Awaiting, Ids, InHand
<1>17. CASE ReaderExits
  <2>1. reader'.old = "exited"
    BY <1>17 DEF ReaderExits, SessionTypes
  <2> QED
    BY <2>1 DEF AwaitingHasEnd
<1>18. CASE ReaderTracksStop
  <2>1. reader'.old = "ended"
    BY <1>18 DEF ReaderTracksStop, SessionTypes
  <2> QED
    BY <2>1 DEF AwaitingHasEnd
<1>19. ASSUME NEW r \in {"cur", "old"}, TurnEnded(r) PROVE AwaitingHasEnd'
  <2>1. Awaiting' = {}
    BY <1>19, DefaultKeeps DEF TurnEnded, StoreTypes, Awaiting, Ids
  <2> QED
    BY <2>1 DEF AwaitingHasEnd
<1>20. ASSUME NEW r \in {"cur", "old"}, ReaderSaves(r) PROVE AwaitingHasEnd'
  <2>1. UNCHANGED <<entries, fire, running, alive, inbox, turn, events>>
    BY <1>20 DEF ReaderSaves, store, engine
  <2>2. \A q \in {"cur", "old"} : reader[q] \in {"exited", "ended"} => reader'[q] = reader[q]
    BY <1>20 DEF ReaderSaves, SessionTypes
  <2> QED
    BY <2>1, <2>2 DEF AwaitingHasEnd, Awaiting, Ids, InHand
<1>21. ASSUME NEW k \in Kinds, NEW at \in Soon, Add(k, at) PROVE AwaitingHasEnd'
  <2>1. entries' = [j \in Ids \union {next + 1} |->
                      IF j = next + 1 THEN [kind |-> k, at |-> at, awaiting |-> FALSE, fired |-> Never]
                                      ELSE entries[j]]
    BY <1>21 DEF Add, Put, Ids
  <2>2. Awaiting' \subseteq Awaiting
    BY <2>1 DEF Awaiting, Ids
  <2>3. InHand' = InHand
    BY <1>21 DEF Add, Starts, InHand
  <2> QED
    BY <1>21, <2>2, <2>3, NoMoreWait DEF Add, Starts, engine
<1>22. ASSUME NEW i \in Id, Cancel(i) PROVE AwaitingHasEnd'
  <2>1. (Awaiting \ InHand)' \subseteq Awaiting \ InHand
    BY <1>22 DEF Cancel, Starts, Removed, Drop, Awaiting, Ids, InHand
  <2> QED
    BY <1>22, <2>1, NoMoreWait DEF Cancel, engine, Starts
<1>23. ASSUME NEW i \in Id, NEW at \in Soon, Push(i, at) PROVE AwaitingHasEnd'
  <2>1. (Awaiting \ InHand)' \subseteq Awaiting \ InHand
    BY <1>23, SetTimeAwait DEF Push, Starts, InHand
  <2> QED
    BY <1>23, <2>1, NoMoreWait DEF Push, engine, Starts
<1>24. CASE PersonSends
  <2>1. alive' /\ inbox' > 0
    BY <1>24 DEF PersonSends, SessionTypes
  <2> QED
    BY <2>1 DEF AwaitingHasEnd
<1>25. CASE EngineTakes
  <2>1. alive' /\ turn'
    BY <1>25 DEF EngineTakes
  <2> QED
    BY <2>1 DEF AwaitingHasEnd
<1>26. CASE EngineTurnEnds
  <2>1. Len(events) + 1 \in DOMAIN events' /\ events'[Len(events) + 1] = "done"
    BY <1>26 DEF EngineTurnEnds, SessionTypes
  <2> QED
    BY <2>1 DEF AwaitingHasEnd
<1>27. CASE EngineDies
  <2>1. running' /\ ~alive'
    BY <1>27 DEF EngineDies, RunInv
  <2> QED
    BY <2>1 DEF AwaitingHasEnd
<1>28. CASE Crash
  <2>1. Awaiting' = {}
    BY <1>28, DefaultKeeps DEF Crash, StoreTypes, Awaiting, Ids
  <2> QED
    BY <2>1 DEF AwaitingHasEnd
<1> QED
  BY <1>1, <1>2, <1>3, <1>4, <1>5, <1>6, <1>7, <1>8, <1>9, <1>10, <1>11, <1>12, <1>13, <1>14,
     <1>15, <1>16, <1>17, <1>18, <1>19, <1>20, <1>21, <1>22, <1>23, <1>24, <1>25, <1>26, <1>27,
     <1>28 DEF Next, FireStep, OpStep, ReaderStep

-----------------------------------------------------------------------------
(* The theorems                                                              *)

LEMMA InitIInv == Init => IInv
<1> SUFFICES ASSUME Init PROVE IInv
  OBVIOUS
<1>1. StoreTypes /\ FireTypes /\ OpTypes
  <2>1. MaxId \in Nat
    BY SchedulerAssumption DEF SchedulerAssumption
  <2> QED
    BY <2>1 DEF Init, StoreTypes, FireTypes, OpTypes, AStore, Hand, FireIdle, OpIdle, None, Never
<1>2. SessionTypes
  <2>1. reader \in [cur : {"read", "ended", "save"}, old : {"read", "exited", "ended", "save"}]
    BY DEF Init
  <2>2. events \in Seq({"turn", "done"})
    BY DEF Init
  <2>3. last \in [Id -> Nat]
    BY DEF Init, Never
  <2> QED
    BY <2>1, <2>2, <2>3 DEF Init, SessionTypes
<1>3. FireInv /\ SentInv /\ OnceInv /\ RunInv
  BY DEF Init, FireInv, SentInv, OnceInv, RunInv, Hand, FireIdle
<1>4. DiskInv /\ LastInv /\ AwaitingHasEnd
  BY DEF Init, DiskInv, SameOnDisk, LastInv, AwaitingHasEnd, Awaiting, Ids, None, Never
<1> QED
  BY <1>1, <1>2, <1>3, <1>4 DEF IInv, Types

LEMMA NextIInv == IInv /\ [Next]_vars => IInv'
<1> SUFFICES ASSUME IInv, [Next]_vars PROVE IInv'
  OBVIOUS
<1>1. /\ StoreTypes /\ FireTypes /\ SessionTypes /\ OpTypes
      /\ FireInv /\ DiskInv /\ SentInv /\ OnceInv /\ LastInv /\ RunInv /\ AwaitingHasEnd
  BY DEF IInv, Types
<1>2. StoreTypes' /\ FireTypes' /\ SessionTypes' /\ OpTypes'
  BY <1>1, StoreTypesP, FireTypesP, SessionTypesP, OpTypesP
<1>3. FireInv' /\ DiskInv' /\ SentInv' /\ OnceInv' /\ LastInv' /\ RunInv' /\ AwaitingHasEnd'
  BY <1>1, FireInvP, DiskInvP, SentInvP, OnceInvP, LastInvP, RunInvP, AwaitingP
<1> QED
  BY <1>2, <1>3 DEF IInv, Types

\* The invariant that everything below rests on: what memory, the file, a pass
\* in progress and the session hold of an entry agree at every step of
\* schedule.go, a crash between any two included.
THEOREM InductiveInvariant == Spec => []IInv
BY InitIInv, NextIInv, PTL DEF Spec

\* Once nobody is between a change of the entries and its save, the file holds
\* them as they are (scheduler.save after each section of fireDue, schedOp,
\* turnEnded), so that a restart loads what was promised.
THEOREM FileIsCurrent == Spec => []DiskCurrent
<1>1. IInv => DiskCurrent
  BY DEF IInv, DiskInv, SameOnDisk, DiskCurrent, Types, FireTypes, FireInv
<1> QED
  BY <1>1, InductiveInvariant, PTL

\* A self-paced loop with no time is never left that way: the end of a turn is
\* still to reach turnEnded, or the firing itself to be sent.
THEOREM WaitingLoopsEnd == Spec => []AwaitingHasEnd
<1>1. IInv => AwaitingHasEnd
  BY DEF IInv
<1> QED
  BY <1>1, InductiveInvariant, PTL

\* A one-shot message is delivered at most once, wherever dund dies in a firing:
\* it is off the file before it is sent.
THEOREM OneShotDeliveredOnce == Spec => OneShotOnce
<1>1. IInv => \A f \in fire.todo : f.id \notin sent
  BY DEF IInv, SentInv, InHand
<1>2. IInv /\ [Next]_vars =>
        [\A f \in fire.todo \ fire'.todo : inbox' # inbox => f.id \notin sent]_vars
  BY <1>1
<1> QED
  BY <1>2, InductiveInvariant, PTL DEF Spec, OneShotOnce

\* Only the marking puts entries in hand.
LEMMA OnlyMarks ==
  ASSUME FireTypes, FireInv, [Next]_vars, fire.at = "mark", fire'.todo # {}
  PROVE  FireMarks
<1>1. fire.todo = {}
  BY DEF FireInv
<1>2. fire' # fire
  BY <1>1
<1>3. ~Crash
  BY DEF Crash, FireIdle
<1>4. FireStep
  BY <1>2, <1>3 DEF Next, OpStep, LoopCtlSets, DropSession, OpSaves, ReaderStep, ReadEvent,
     ReaderExits, ReaderTracksStop, TurnEnded, ReaderSaves, Add, Cancel, LoopCtlPicks, Push, Starts,
     Forget, PersonSends, EngineTakes, EngineTurnEnds, EngineDies, Tick, vars
<1> QED
  BY <1>4 DEF FireStep, FireCollects, FireAsksBusy, FireSaves, FireDelivers, FireFails,
     FireFindsNone, FirePutsBack, FireFinishes

\* A fixed loop that nobody moved fires an interval or more after it last did,
\* however long dund was away: a pass that finds it due twice over fires it once.
THEOREM NoBurstOfALoop == Spec => NoBurst
<1>1. ASSUME IInv, [Next]_vars, NEW i \in Ids, Refires(i)
      PROVE  last'[i] >= last[i] + Every
  <2>1. /\ StoreTypes /\ FireTypes /\ SessionTypes /\ FireInv /\ LastInv
        /\ fire.at = "mark" /\ entries[i].kind = "every" /\ last[i] # Never
    BY <1>1 DEF IInv, Types, Refires
  <2>2. PICK f \in fire'.todo : f.id = i
    BY <1>1 DEF Refires
  <2>3. FireMarks
    BY <1>1, <2>1, <2>2, OnlyMarks
  <2>4. entries[i].at <= fire.when
    BY <2>1, <2>2, <2>3, MarksTake
  <2>5. entries[i].at >= last[i] + Every
    BY <2>1 DEF LastInv
  <2>6. last'[i] = fire.when
    BY <2>1, <2>2, <2>3, Held DEF FireMarks, FireTypes
  <2>7. entries[i].at \in Nat /\ last[i] \in Nat /\ fire.when \in Nat
    BY <2>1, Held DEF FireTypes, SessionTypes
  <2> QED
    BY <2>4, <2>5, <2>6, <2>7, Intervals
<1>2. IInv /\ [Next]_vars => [\A i \in Ids : Refires(i) => last'[i] >= last[i] + Every]_vars
  BY <1>1
<1> QED
  BY <1>2, InductiveInvariant, PTL DEF Spec, NoBurst

-----------------------------------------------------------------------------
(* Turns: its invariant *)

LineOf == [kind : {"user", "image"}, id : Msg] \union [kind : AllKinds \ {"user", "image"}, id : Nat]
Holding == {"routed", "offers", "holds"}
LoopAt == {"top", "pend", "select", "drain", "drainwait", "drainwake", "drainpend", "drained", "stopped",
           "gaveup", "begin", "enter", "prepare", "attempt", "round", "tool", "ask", "lift", "result",
           "end", "after"}

\* The types: of the input...
InputTypes ==
  /\ written \in 0..MaxLines /\ left \in BOOLEAN /\ pipe \in Seq(LineOf)
  /\ scanner \in [at : Holding \union {"read", "signals", "answers", "done"}, msg : Nat]
  /\ scanner.at \in Holding => scanner.msg \in Msg
  /\ closed \in {"no", "eof", "stop"} /\ held \in Seq(Msg) /\ heldSig \in BOOLEAN

\* ...the buffer and the conversation...
BufferTypes == queue \in Seq(Msg \union News) /\ back \subseteq Msg /\ fresh \subseteq stored

\* ...and the loop and its turn.
LoopTypes ==
  /\ loop \in [at : LoopAt, kind : {"none", "user", "continue", "drain"}, msg : Nat]
  /\ usersNil \in BOOLEAN /\ auto \in BOOLEAN /\ active \in BOOLEAN /\ failed \in BOOLEAN
  /\ cancel \in BOOLEAN /\ interrupting \in BOOLEAN /\ cut \in BOOLEAN /\ wake \in BOOLEAN
  /\ asked \in 0..MaxAsks /\ fails \in 0..MaxFails
  /\ jobs \in [News -> {"none", "running", "ended", "said", "done"}]

\* The places a message is in.
Total(m) ==
  InPipe(m) + AtScanner(m) + InTurnOf(m) + Count(m, held) + Count(m, queue)
    + InSet(m, stored) + InSet(m, back)

\* No message is in two places; one that was not written, and a job's note that
\* was not made, is in none; and one that was made is not lost.
PlaceInv ==
  /\ \A m \in Msg \union News : Total(m) <= 1
  /\ \A m \in Msg : m > written => Total(m) = 0
  /\ \A n \in News : jobs[n] \notin {"said", "done"} => Total(n) = 0
  /\ \A n \in News : jobs[n] \in {"said", "done"} => n \in Range(queue) \union stored

\* The loop waits for no more input when there is none; what was held for it is
\* taken before it drains, and it is drained when nothing is pending.
Draining == {"drain", "drainwait", "drainwake", "drainpend", "drained"}
DrainInv ==
  /\ closed # "no" => scanner.at = "done"
  /\ usersNil => closed # "no"
  /\ loop.at \in Draining => usersNil /\ held = <<>>
  /\ loop.at = "pend" /\ usersNil => held = <<>>
  /\ loop.at = "drained" => ~Pending

TurnTypes == InputTypes /\ BufferTypes /\ LoopTypes
TurnsInv == TurnTypes /\ PlaceInv /\ DrainInv

-----------------------------------------------------------------------------
(* Sequences *)

\* Induction: of natural numbers that a statement fails for there is a smallest.
LEMMA Smallest ==
  ASSUME NEW T, T \subseteq Nat, T # {}
  PROVE  \E n \in T : \A k \in T : n <= k
  <1>. DEFINE R == OpToRel(<, Nat)
  <1>1. IsWellFoundedOn(R, Nat)
    BY NatLessThanWellFounded
  <1>2. \A i, j \in Nat : i < j => <<i, j>> \in R
    BY DEF OpToRel
  <1>. HIDE DEF R
  <1>3. PICK n \in T : \A y \in T : ~(<<y, n>> \in R)
    BY <1>1, WFMin
  <1>4. ASSUME NEW k \in T PROVE n <= k
    <2>1. n \in Nat /\ k \in Nat
      OBVIOUS
    <2>2. ~(k < n)
      BY <1>2, <1>3, <2>1
    <2>. QED BY <2>1, <2>2
  <1>. QED BY <1>4

\* The places of s that hold a member of S, and their number.
PlacesIn(s, S) == {k \in DOMAIN s : s[k] \in S}
CountIn(s, S) == Cardinality(PlacesIn(s, S))

\* There are finitely many places, and none when no member is in the sequence.
LEMMA CountType ==
  ASSUME NEW T, NEW s \in Seq(T), NEW S
  PROVE  /\ IsFiniteSet(PlacesIn(s, S)) /\ CountIn(s, S) \in Nat
         /\ CountIn(s, S) = 0 <=> \A k \in DOMAIN s : s[k] \notin S
  <1>1. DOMAIN s = 1..Len(s) /\ Len(s) \in Nat
    OBVIOUS
  <1>2. IsFiniteSet(1..Len(s))
    BY <1>1, FS_Interval
  <1>3. PlacesIn(s, S) \subseteq 1..Len(s)
    BY <1>1 DEF PlacesIn
  <1>4. IsFiniteSet(PlacesIn(s, S))
    BY <1>2, <1>3, FS_Subset
  <1>5. CountIn(s, S) = 0 <=> PlacesIn(s, S) = {}
    BY <1>4, FS_EmptySet DEF CountIn
  <1>. QED BY <1>4, <1>5, FS_CardinalityType DEF CountIn, PlacesIn

\* What is appended counts once...
LEMMA CountAppend ==
  ASSUME NEW T, NEW s \in Seq(T), NEW x \in T, NEW S
  PROVE  CountIn(Append(s, x), S) = CountIn(s, S) + (IF x \in S THEN 1 ELSE 0)
  <1>. DEFINE t == Append(s, x)
  <1>1. /\ Len(s) \in Nat /\ DOMAIN s = 1..Len(s) /\ DOMAIN t = 1..(Len(s) + 1)
        /\ t[Len(s) + 1] = x /\ \A k \in DOMAIN s : t[k] = s[k]
    OBVIOUS
  <1>. HIDE DEF t
  <1>2. IsFiniteSet(PlacesIn(s, S)) /\ Len(s) + 1 \notin PlacesIn(s, S) /\ CountIn(s, S) \in Nat
    BY <1>1, CountType DEF PlacesIn
  <1>3. CASE x \in S
    <2>1. PlacesIn(t, S) = PlacesIn(s, S) \union {Len(s) + 1}
      BY <1>1, <1>3 DEF PlacesIn
    <2>2. Cardinality(PlacesIn(s, S) \union {Len(s) + 1}) = Cardinality(PlacesIn(s, S)) + 1
      BY <1>2, FS_AddElement
    <2>. QED BY <1>3, <2>1, <2>2 DEF CountIn, t
  <1>4. CASE x \notin S
    <2>1. PlacesIn(t, S) = PlacesIn(s, S)
      BY <1>1, <1>4 DEF PlacesIn
    <2>. QED BY <1>2, <1>4, <2>1 DEF CountIn, t
  <1>. QED BY <1>3, <1>4

\* ...and what is taken off the front counts no more.
LEMMA CountTail ==
  ASSUME NEW T, NEW s \in Seq(T), s # <<>>, NEW S
  PROVE  CountIn(s, S) = CountIn(Tail(s), S) + (IF Head(s) \in S THEN 1 ELSE 0)
  <1>. DEFINE t == Tail(s)
              A == PlacesIn(t, S)
              B == {k + 1 : k \in A}
  <1>1. /\ Len(s) \in Nat \ {0} /\ DOMAIN s = 1..Len(s) /\ DOMAIN t = 1..(Len(s) - 1) /\ t \in Seq(T)
        /\ Head(s) = s[1] /\ \A k \in DOMAIN t : t[k] = s[k + 1]
    OBVIOUS
  <1>. HIDE DEF t
  <1>2. IsFiniteSet(A) /\ A \subseteq Nat /\ \A k \in A : k > 0
    <2>1. IsFiniteSet(A)
      BY <1>1, CountType
    <2>2. A \subseteq 1..(Len(s) - 1)
      BY <1>1 DEF PlacesIn
    <2>. QED BY <1>1, <2>1, <2>2
  <1>3. A = {k \in DOMAIN t : s[k + 1] \in S}
    BY <1>1 DEF PlacesIn
  <1>4. B = {k \in DOMAIN s : k # 1 /\ s[k] \in S}
    <2>1. ASSUME NEW k \in B PROVE k \in DOMAIN s /\ k # 1 /\ s[k] \in S
      BY <1>1, <1>2, <1>3
    <2>2. ASSUME NEW k \in DOMAIN s, k # 1, s[k] \in S PROVE k \in B
      <3>1. k - 1 \in DOMAIN t /\ (k - 1) + 1 = k
        BY <1>1, <2>2
      <3>. QED BY <1>3, <2>2, <3>1
    <2>. QED BY <2>1, <2>2
  <1>. HIDE DEF A
  <1>5. IsFiniteSet(B) /\ Cardinality(B) = Cardinality(A)
    <2>. DEFINE f == [k \in A |-> k + 1]
    <2>1. f \in Bijection(A, B)
      <3>1. f \in [A -> B] /\ \A k, j \in A : f[k] = f[j] => k = j
        BY <1>2
      <3>2. \A b \in B : \E k \in A : f[k] = b
        OBVIOUS
      <3>. HIDE DEF f, B
      <3>. QED BY <3>1, <3>2 DEF Bijection, Injection, Surjection, IsInjective
    <2>. HIDE DEF f
    <2>2. ExistsBijection(A, B)
      BY <2>1 DEF ExistsBijection
    <2>. QED BY <1>2, <2>2, FS_Bijection
  <1>. HIDE DEF B
  <1>6. Cardinality(A) \in Nat
    BY <1>2, FS_CardinalityType
  <1>7. CASE Head(s) \in S
    <2>1. PlacesIn(s, S) = B \union {1} /\ 1 \notin B
      BY <1>1, <1>4, <1>7 DEF PlacesIn
    <2>2. Cardinality(B \union {1}) = Cardinality(B) + 1
      BY <1>5, <2>1, FS_AddElement
    <2>. QED BY <1>5, <1>7, <2>1, <2>2 DEF CountIn, t, A
  <1>8. CASE Head(s) \notin S
    <2>1. PlacesIn(s, S) = B
      BY <1>1, <1>4, <1>8 DEF PlacesIn
    <2>. QED BY <1>5, <1>6, <1>8, <2>1 DEF CountIn, t, A
  <1>. QED BY <1>7, <1>8

\* The message is in Range(s) if it is counted there.
LEMMA CountRange ==
  ASSUME NEW T, NEW s \in Seq(T), NEW m
  PROVE  Count(m, s) = CountIn(s, {m}) /\ (m \in Range(s) <=> CountIn(s, {m}) # 0)
  <1>1. {k \in DOMAIN s : s[k] = m} = PlacesIn(s, {m})
    BY DEF PlacesIn
  <1>2. m \in Range(s) <=> \E k \in DOMAIN s : s[k] = m
    BY DEF Range
  <1>. QED BY <1>1, <1>2, CountType DEF Count, CountIn

-----------------------------------------------------------------------------
\* The notes of a buffer.

KeepNote(s, g, n) == IF n = 0 THEN <<>> ELSE IF IsNews(s[n]) THEN Append(g[n - 1], s[n]) ELSE g[n - 1]
KeepRec(s, g) == g = [n \in 0..Len(s) |-> KeepNote(s, g, n)]

\* KeptNews is a function that fits its recursion, if there is one.
LEMMA KeptIs == ASSUME NEW s PROVE KeptNews(s) = (CHOOSE g : KeepRec(s, g))[Len(s)]
  BY Zenon DEF KeptNews, KeepRec, KeepNote

\* There is one: the notes of the first places, in their order.
LEMMA KeepExists ==
  ASSUME NEW T, NEW s \in Seq(T)
  PROVE  \E g : KeepRec(s, g)
  <1>. DEFINE D == 0..Len(s)
              Upto(n, g) == g = [k \in D |-> g[k]] /\ \A k \in D : k <= n => g[k] = KeepNote(s, g, k)
              X == {n \in Nat : ~\E g : Upto(n, g)}
  <1>0. Len(s) \in Nat
    OBVIOUS
  <1>1. Upto(0, [k \in D |-> <<>>])
    BY <1>0 DEF KeepNote
  <1>2. ASSUME NEW n \in Nat, NEW g, Upto(n, g)
        PROVE  Upto(n + 1, [k \in D |-> KeepNote(s, g, k)])
    <2>. DEFINE h == [k \in D |-> KeepNote(s, g, k)]
    <2>1. ASSUME NEW k \in D, k <= n + 1 PROVE h[k] = KeepNote(s, h, k)
      <3>1. CASE k = 0
        BY <3>1 DEF KeepNote
      <3>2. CASE k # 0
        <4>1. k - 1 \in D /\ k - 1 <= n
          BY <1>0, <2>1, <3>2
        <4>2. g[k - 1] = KeepNote(s, g, k - 1) /\ h[k - 1] = KeepNote(s, g, k - 1)
          BY <1>2, <4>1
        <4>. HIDE DEF h
        <4>3. g[k - 1] = h[k - 1]
          BY <4>2
        <4>4. h[k] = KeepNote(s, g, k)
          BY DEF h
        <4>. QED BY <3>2, <4>3, <4>4 DEF KeepNote
      <3>. QED BY <3>1, <3>2
    <2>2. h = [k \in D |-> h[k]]
      OBVIOUS
    <2>. HIDE DEF h
    <2>3. Upto(n + 1, h)
      BY <2>1, <2>2
    <2>. QED BY <2>3 DEF h
  <1>. HIDE DEF Upto
  <1>3. X = {}
    <2>. SUFFICES ASSUME X # {} PROVE FALSE
      OBVIOUS
    <2>1. PICK n \in X : \A k \in X : n <= k
      BY Smallest
    <2>2. n # 0
      BY <1>1
    <2>3. n - 1 \in Nat /\ n - 1 \notin X
      BY <2>1, <2>2
    <2>4. PICK g : Upto(n - 1, g)
      BY <2>3
    <2>5. Upto(n - 1 + 1, [k \in D |-> KeepNote(s, g, k)])
      BY <1>2, <2>3, <2>4
    <2>. QED BY <2>1, <2>5
  <1>5. PICK g : Upto(Len(s), g)
    BY <1>0, <1>3
  <1>7. KeepRec(s, g)
    <2>1. g = [k \in D |-> g[k]] /\ \A k \in D : g[k] = KeepNote(s, g, k)
      BY <1>0, <1>5 DEF Upto
    <2>2. [k \in D |-> g[k]] = [k \in D |-> KeepNote(s, g, k)]
      BY <2>1
    <2>. QED BY <2>1, <2>2 DEF KeepRec
  <1>. QED BY <1>7

\* What is kept of a buffer are its notes, each as often as it was there.
LEMMA KeepsNews ==
  ASSUME NEW T, NEW s \in Seq(T)
  PROVE  /\ KeptNews(s) \in Seq(News)
         /\ \A m \in News : CountIn(KeptNews(s), {m}) = CountIn(s, {m})
  <1>. DEFINE F == CHOOSE g : KeepRec(s, g)
              D == 0..Len(s)
              Seen(n, m) == {k \in 1..n : s[k] = m}
              Good(n) == /\ F[n] \in Seq(News)
                         /\ \A m \in News : CountIn(F[n], {m}) = Cardinality(Seen(n, m))
              X == {n \in D : ~Good(n)}
  <1>0. Len(s) \in Nat /\ DOMAIN s = 1..Len(s)
    OBVIOUS
  <1>1. KeepRec(s, F)
    <2>1. \E g : KeepRec(s, g)
      BY KeepExists
    <2>. QED BY <2>1, Zenon
  <1>. HIDE DEF F
  <1>2. \A n \in D : F[n] = KeepNote(s, F, n)
    BY <1>1 DEF KeepRec
  <1>3. \A n \in D, m \in News : IsFiniteSet(Seen(n, m))
    <2>1. ASSUME NEW n \in D, NEW m \in News PROVE IsFiniteSet(Seen(n, m))
      <3>1. IsFiniteSet(1..n) /\ Seen(n, m) \in SUBSET (1..n)
        BY <1>0, FS_Interval
      <3>. QED BY <3>1, FS_Subset
    <2>. QED BY <2>1
  <1>4. Good(0)
    <2>1. F[0] = <<>>
      BY <1>0, <1>2 DEF KeepNote
    <2>2. \A m \in News : Seen(0, m) = {} /\ PlacesIn(<<>>, {m}) = {}
      BY DEF PlacesIn
    <2>3. F[0] \in Seq(News)
      BY <2>1
    <2>4. ASSUME NEW m \in News PROVE CountIn(F[0], {m}) = Cardinality(Seen(0, m))
      <3>1. PlacesIn(F[0], {m}) = Seen(0, m)
        BY <2>1, <2>2
      <3>. QED BY <3>1 DEF CountIn
    <2>. QED BY <2>3, <2>4
  <1>5. ASSUME NEW n \in D, n # 0, Good(n - 1) PROVE Good(n)
    <2>1. n - 1 \in D /\ n \in 1..Len(s) /\ n \in Nat
      BY <1>0, <1>5
    <2>2. F[n] = IF IsNews(s[n]) THEN Append(F[n - 1], s[n]) ELSE F[n - 1]
      BY <1>2, <1>5 DEF KeepNote
    <2>3. F[n - 1] \in Seq(News)
      BY <1>5
    <2>4. F[n] \in Seq(News)
      BY <2>2, <2>3 DEF IsNews
    <2>5. ASSUME NEW m \in News PROVE CountIn(F[n], {m}) = Cardinality(Seen(n, m))
      <3>1. CountIn(F[n - 1], {m}) = Cardinality(Seen(n - 1, m)) /\ IsFiniteSet(Seen(n - 1, m))
        BY <1>3, <1>5, <2>1
      <3>2. CASE s[n] = m
        <4>1. CountIn(F[n], {m}) = CountIn(F[n - 1], {m}) + 1
          BY <2>2, <2>3, <3>2, CountAppend DEF IsNews
        <4>2. Seen(n, m) = Seen(n - 1, m) \union {n} /\ n \notin Seen(n - 1, m)
          BY <2>1, <3>2
        <4>. HIDE DEF Seen
        <4>. QED BY <3>1, <4>1, <4>2, FS_AddElement
      <3>3. CASE s[n] # m
        <4>1. CountIn(F[n], {m}) = CountIn(F[n - 1], {m})
          <5>1. IsNews(s[n]) => CountIn(F[n], {m}) = CountIn(F[n - 1], {m}) + 0
            BY <2>2, <2>3, <3>3, CountAppend DEF IsNews
          <5>2. CountIn(F[n - 1], {m}) \in Nat
            BY <2>3, CountType
          <5>. QED BY <2>2, <5>1, <5>2
        <4>2. Seen(n, m) = Seen(n - 1, m)
          BY <2>1, <3>3
        <4>. QED BY <3>1, <4>1, <4>2
      <3>. QED BY <3>2, <3>3
    <2>. QED BY <2>4, <2>5
  <1>. HIDE DEF Good
  <1>6. X = {}
    <2>. SUFFICES ASSUME X # {} PROVE FALSE
      OBVIOUS
    <2>0. X \subseteq Nat
      BY <1>0
    <2>1. PICK n \in X : \A k \in X : n <= k
      BY <2>0, Smallest
    <2>2. n # 0 /\ n \in D
      BY <1>4
    <2>3. n - 1 \in D /\ n - 1 \notin X
      BY <1>0, <2>1, <2>2
    <2>. QED BY <1>5, <2>1, <2>2, <2>3
  <1>7. Good(Len(s))
    BY <1>0, <1>6
  <1>8. \A m \in News : Seen(Len(s), m) = PlacesIn(s, {m})
    BY <1>0 DEF PlacesIn
  <1>. QED BY <1>7, <1>8, KeptIs DEF Good, CountIn, F

-----------------------------------------------------------------------------
(* The types *)

\* At first nothing is written, and the loop is at its top.
LEMMA TurnTypesInit == TurnsInit => TurnTypes
  <1>. SUFFICES ASSUME TurnsInit PROVE TurnTypes
    OBVIOUS
  <1>0. 0 \in 0..MaxLines /\ 0 \in 0..MaxAsks /\ 0 \in 0..MaxFails
    BY TurnsAssumption
  <1>1. InputTypes
    <2>1. scanner = [at |-> "read", msg |-> 0] /\ "read" \notin Holding
      BY DEF TurnsInit, Reads, Holding
    <2>2. scanner \in [at : Holding \union {"read", "signals", "answers", "done"}, msg : Nat]
      BY <2>1
    <2>3. scanner.at \notin Holding
      BY <2>1
    <2>4. pipe = <<>> /\ held = <<>> /\ written = 0 /\ left = FALSE /\ closed = "no" /\ heldSig = FALSE
      BY DEF TurnsInit
    <2>5. pipe \in Seq(LineOf) /\ held \in Seq(Msg)
      BY <2>4
    <2>. QED BY <1>0, <2>2, <2>3, <2>4, <2>5 DEF InputTypes
  <1>2. BufferTypes
    BY DEF TurnsInit, BufferTypes
  <1>3. LoopTypes
    BY <1>0 DEF TurnsInit, LoopTypes, LoopAt
  <1>. QED BY <1>1, <1>2, <1>3 DEF TurnTypes

\* A line that is written.
LEMMA LineTypes ==
  ASSUME InputTypes, written < MaxLines, NEW kind \in LineKinds, NEW line \in Line(kind), LoopTypes
  PROVE  line \in LineOf /\ written + 1 \in Msg
         /\ (line.kind \in {"user", "image"} => line.id = written + 1)
  <1>1. written + 1 \in Msg /\ kind \in AllKinds
    BY TurnsAssumption DEF InputTypes, Msg
  <1>2. CASE kind \in {"user", "image"}
    <2>1. line = [kind |-> kind, id |-> written + 1]
      BY <1>2 DEF Line
    <2>. QED BY <1>1, <1>2, <2>1 DEF LineOf
  <1>3. CASE kind \notin {"user", "image"}
    <2>1. \E q \in Nat : line = [kind |-> kind, id |-> q]
      <3>1. CASE kind = "answer"
        BY <3>1, TurnsAssumption DEF Line, LoopTypes
      <3>2. CASE kind # "answer"
        BY <1>3, <3>2 DEF Line
      <3>. QED BY <3>1, <3>2
    <2>. QED BY <1>1, <1>3, <2>1 DEF LineOf
  <1>. QED BY <1>2, <1>3

\* A line that is heard.
LEMMA HeardTypes ==
  ASSUME InputTypes, NEW kind, Hears(kind)
  PROVE  /\ pipe # <<>> /\ pipe' = Tail(pipe) /\ pipe' \in Seq(LineOf) /\ Head(pipe) \in LineOf
         /\ Head(pipe).kind = kind /\ Head(pipe).id \in Nat /\ scanner.at = "read"
         /\ (kind \in {"user", "image"} => Head(pipe).id \in Msg) /\ UNCHANGED <<written, left>>
  <1>1. /\ pipe # <<>> /\ pipe' = Tail(pipe) /\ Head(pipe).kind = kind /\ scanner.at = "read"
        /\ UNCHANGED <<written, left>>
    BY DEF Hears
  <1>2. Head(pipe) \in LineOf /\ pipe' \in Seq(LineOf)
    BY <1>1 DEF InputTypes
  <1>3. Msg \subseteq Nat
    BY TurnsAssumption DEF Msg
  <1>. QED BY <1>1, <1>2, <1>3 DEF LineOf

\* The scanner goes on to a place with a message.
LEMMA ScannerTypes ==
  ASSUME NEW at \in Holding \union {"read", "signals", "answers", "done"}, NEW m \in Nat,
         at \in Holding => m \in Msg, scanner' = [at |-> at, msg |-> m]
  PROVE  /\ scanner' \in [at : Holding \union {"read", "signals", "answers", "done"}, msg : Nat]
         /\ scanner'.at \in Holding => scanner'.msg \in Msg
         /\ scanner'.at = at /\ scanner'.msg = m
  OBVIOUS

\* The input stays of its types.
LEMMA InputKept ==
  ASSUME TurnTypes, [TurnsNext]_turnsVars
  PROVE  InputTypes'
  <1>1. InputTypes /\ LoopTypes
    BY DEF TurnTypes
  <1>. USE <1>1
  <1>2. CASE UNCHANGED <<clients, stream>>
    BY <1>2 DEF InputTypes, clients, stream
  <1>3. CASE Writes
    <2>0. PICK kind \in LineKinds : \E x \in Line(kind) :
            pipe' = Append(pipe, x) /\ left' = (kind \in {"eof", "stop"})
      BY <1>3 DEF Writes
    <2>1. PICK line \in Line(kind) :
            pipe' = Append(pipe, line) /\ left' = (kind \in {"eof", "stop"})
      BY <2>0
    <2>2. written' = written + 1 /\ written < MaxLines /\ UNCHANGED <<scanner, closed, held, heldSig>>
      BY <1>3 DEF Writes, stream
    <2>3. line \in LineOf
      BY <2>2, LineTypes
    <2>4. pipe' \in Seq(LineOf)
      BY <2>1, <2>3 DEF InputTypes
    <2>5. written' \in 0..MaxLines
      BY <2>2, TurnsAssumption DEF InputTypes
    <2>. QED BY <2>1, <2>2, <2>4, <2>5 DEF InputTypes
  <1>4. ASSUME UNCHANGED <<written, left, closed, heldSig>>, pipe' \in Seq(LineOf), held' \in Seq(Msg),
               NEW at \in Holding \union {"read", "signals", "answers", "done"}, NEW m \in Nat,
               at \in Holding => m \in Msg, scanner' = [at |-> at, msg |-> m]
        PROVE  InputTypes'
    BY <1>4, ScannerTypes DEF InputTypes
  <1>5. pipe \in Seq(LineOf) /\ held \in Seq(Msg) /\ 0 \in Nat
    BY DEF InputTypes
  <1>6. CASE HearsUser \/ HearsImage
    <2>1. PICK kind \in {"user", "image"} : Hears(kind)
      BY <1>6 DEF HearsUser, HearsImage
    <2>2. UNCHANGED <<closed, held, heldSig>> /\ \E at \in Holding : scanner' = [at |-> at, msg |-> Head(pipe).id]
      BY <1>6 DEF HearsUser, HearsImage, Holding
    <2>. QED BY <1>4, <1>5, <2>1, <2>2, HeardTypes
  <1>7. CASE Says \/ Signals \/ Holds
    <2>1. UNCHANGED <<written, left, pipe, closed>>
      BY <1>7 DEF Says, Signals, Holds, clients
    <2>2. CASE Says
      BY <1>4, <1>5, <2>1, <2>2 DEF Says, Reads, Holding
    <2>3. CASE Signals
      <3>1. scanner' = [at |-> "read", msg |-> 0] /\ heldSig' = TRUE /\ held' = held
        BY <2>3 DEF Signals, Reads
      <3>2. "read" \notin Holding
        BY DEF Holding
      <3>. QED BY <1>5, <2>1, <3>1, <3>2, ScannerTypes DEF InputTypes
    <2>4. CASE Holds
      <3>1. scanner.msg \in Msg /\ held' = Append(held, scanner.msg) /\ scanner' = [at |-> "signals", msg |-> 0]
            /\ heldSig' = heldSig
        BY <2>4 DEF Holds, InputTypes, Holding
      <3>2. held' \in Seq(Msg)
        BY <1>5, <3>1
      <3>. QED BY <1>4, <1>5, <2>1, <3>1, <3>2 DEF Holding
    <2>. QED BY <1>7, <2>2, <2>3, <2>4
  <1>8. CASE HearsAnswer
    <2>1. Hears("answer") /\ UNCHANGED <<closed, held, heldSig>> /\ scanner' = [at |-> "answers", msg |-> Head(pipe).id]
      BY <1>8 DEF HearsAnswer
    <2>. QED BY <1>4, <1>5, <2>1, HeardTypes DEF Holding
  <1>9. CASE HearsInterrupt \/ HearsUnqueue
    <2>1. (Hears("interrupt") \/ Hears("unqueue")) /\ UNCHANGED stream
      BY <1>9 DEF HearsInterrupt, HearsUnqueue
    <2>. QED BY <2>1, HeardTypes DEF InputTypes, stream
  <1>10. CASE HearsEnd
    <2>1. PICK kind \in {"eof", "stop"} : Hears(kind)
      BY <1>10 DEF HearsEnd
    <2>2. closed' = Head(pipe).kind /\ scanner' = [at |-> "done", msg |-> 0] /\ UNCHANGED <<held, heldSig>>
      BY <1>10 DEF HearsEnd
    <2>3. closed' \in {"eof", "stop"} /\ pipe' \in Seq(LineOf) /\ UNCHANGED <<written, left>>
      BY <2>1, <2>2, HeardTypes
    <2>4. "done" \notin Holding
      BY DEF Holding
    <2>. QED BY <1>5, <2>2, <2>3, <2>4, ScannerTypes DEF InputTypes
  <1>11. CASE TakesHeld
    <2>1. held # <<>> /\ held' = Tail(held) /\ UNCHANGED <<clients, scanner, closed, heldSig>>
      BY <1>11 DEF TakesHeld, SameTurn
    <2>2. held' \in Seq(Msg)
      BY <1>5, <2>1
    <2>. QED BY <2>1, <2>2 DEF InputTypes, clients
  <1>12. CASE SelectsHeld
    <2>1. heldSig' = FALSE /\ UNCHANGED <<clients, scanner, closed, held>>
      BY <1>12 DEF SelectsHeld, SameTurn
    <2>. QED BY <2>1 DEF InputTypes, clients
  <1>13. CASE SelectsUser \/ AskIsAnswered
    <2>1. scanner' = [at |-> "read", msg |-> 0] /\ UNCHANGED <<clients, closed, held, heldSig>>
      BY <1>13 DEF SelectsUser, SameTurn, AskIsAnswered, InTurn, Reads
    <2>. QED BY <1>4, <1>5, <2>1 DEF clients, Holding
  <1>14. CASE \/ FindsNoneHeld \/ LooksForPending \/ SelectsClosed \/ SelectsWake
              \/ DrainLooks \/ DrainWakes \/ DrainEnds
    BY <1>2, <1>14 DEF FindsNoneHeld, LooksForPending, SelectsClosed, SelectsWake, DrainLooks,
         DrainWakes, DrainEnds, SameTurn
  <1>15. CASE \/ TurnBegins \/ Interruptible \/ Prepares \/ Attempts \/ RoundReplies \/ RoundCallsTool
              \/ RoundFails \/ ToolStartsJob \/ ToolAsks \/ AskIsCut \/ ToolReturns \/ Lifts \/ RoundFollows
              \/ TurnReturns \/ TurnEnds
    BY <1>2, <1>15 DEF TurnBegins, Interruptible, Prepares, Attempts, RoundReplies, RoundCallsTool,
         RoundFails, ToolStartsJob, ToolAsks, AskIsCut, ToolReturns, Lifts, RoundFollows, TurnReturns,
         TurnEnds, InTurn
  <1>16. CASE JobStep
    BY <1>2, <1>16 DEF JobStep, JobEnds, JobNotifies, JobWakes, JobMoves
  <1>17. CASE UNCHANGED turnsVars
    BY <1>2, <1>17 DEF turnsVars
  <1>. QED BY <1>3, <1>6, <1>7, <1>8, <1>9, <1>10, <1>11, <1>12, <1>13, <1>14, <1>15, <1>16, <1>17
           DEF TurnsNext, ScannerStep, LoopStep, TurnStep

\* So does the buffer...
LEMMA BufferKept ==
  ASSUME TurnTypes, [TurnsNext]_turnsVars
  PROVE  BufferTypes'
  <1>1. InputTypes /\ BufferTypes
    BY DEF TurnTypes
  <1>. USE <1>1
  <1>2. CASE UNCHANGED <<buffer, convo>>
    BY <1>2 DEF BufferTypes, buffer, convo
  <1>3. CASE Says
    <2>1. scanner.msg \in Msg /\ queue' = Append(queue, scanner.msg) /\ back' = back /\ UNCHANGED convo
      BY <1>3 DEF Says, InputTypes, Holding
    <2>. QED BY <2>1 DEF BufferTypes, convo
  <1>4. CASE HearsUnqueue
    <2>1. queue' = KeptNews(queue) /\ back' = back \union {m \in Range(queue) : IsUser(m)} /\ UNCHANGED convo
      BY <1>4 DEF HearsUnqueue
    <2>2. KeptNews(queue) \in Seq(News)
      BY KeepsNews DEF BufferTypes
    <2>3. queue' \in Seq(Msg \union News)
      BY <2>1, <2>2
    <2>4. back' \subseteq Msg
      BY <2>1 DEF BufferTypes, IsUser
    <2>. QED BY <2>1, <2>3, <2>4 DEF BufferTypes, convo
  <1>5. CASE Prepares
    <2>1. queue' = <<>> /\ back' = back /\ \E new : stored' = stored \union new /\ fresh' = fresh \union new
      BY <1>5 DEF Prepares, Flush
    <2>. QED BY <2>1 DEF BufferTypes
  <1>6. CASE Attempts \/ Lifts
    <2>1. queue' = <<>> /\ back' = back /\ stored' = stored \union Range(queue) /\ fresh' \subseteq fresh
      BY <1>6 DEF Attempts, Lifts
    <2>. QED BY <2>1 DEF BufferTypes
  <1>7. CASE JobStep
    <2>1. PICK n \in News : JobEnds(n) \/ JobNotifies(n) \/ JobWakes(n)
      BY <1>7 DEF JobStep
    <2>2. UNCHANGED <<back, convo>> /\ (queue' = queue \/ queue' = Append(queue, n))
      BY <2>1 DEF JobEnds, JobNotifies, JobWakes, JobMoves
    <2>3. queue' \in Seq(Msg \union News)
      BY <2>2 DEF BufferTypes
    <2>. QED BY <2>2, <2>3 DEF BufferTypes, convo
  <1>8. CASE Writes \/ UNCHANGED turnsVars
    BY <1>2, <1>8 DEF Writes, turnsVars
  <1>9. CASE HearsUser \/ HearsImage \/ Holds \/ Signals \/ HearsAnswer \/ HearsInterrupt \/ HearsEnd
    BY <1>2, <1>9 DEF HearsUser, HearsImage, Holds, Signals, HearsAnswer, HearsInterrupt, HearsEnd
  <1>10. CASE LoopStep
    BY <1>2, <1>10 DEF LoopStep, TakesHeld, FindsNoneHeld, LooksForPending, SelectsHeld,
       SelectsUser,
         SelectsClosed, SelectsWake, DrainLooks, DrainWakes, DrainEnds, SameTurn
  <1>11. CASE \/ TurnBegins \/ Interruptible \/ RoundReplies \/ RoundCallsTool \/ RoundFails
              \/ ToolStartsJob \/ ToolAsks \/ AskIsAnswered \/ AskIsCut \/ ToolReturns \/ RoundFollows
              \/ TurnReturns \/ TurnEnds
    BY <1>2, <1>11 DEF TurnBegins, Interruptible, RoundReplies, RoundCallsTool, RoundFails,
       ToolStartsJob,
         ToolAsks, AskIsAnswered, AskIsCut, ToolReturns, RoundFollows, TurnReturns, TurnEnds, InTurn
  <1>. QED BY <1>3, <1>4, <1>5, <1>6, <1>7, <1>8, <1>9, <1>10, <1>11 DEF TurnsNext, ScannerStep, TurnStep

\* The loop goes on at another place.
LEMMA ToTypes ==
  ASSUME LoopTypes, NEW at \in LoopAt, To(at)
  PROVE  /\ loop' \in [at : LoopAt, kind : {"none", "user", "continue", "drain"}, msg : Nat]
         /\ loop'.at = at /\ loop'.msg = loop.msg /\ loop'.kind = loop.kind
  <1>1. loop' = [loop EXCEPT !.at = at]
    BY DEF To
  <1>. QED BY <1>1 DEF LoopTypes

\* A turn that begins has a message or none.
LEMMA BeginsTypes ==
  ASSUME NEW kind \in {"user", "continue", "drain"}, NEW m \in Nat, Begins(kind, m)
  PROVE  /\ loop' \in [at : LoopAt, kind : {"none", "user", "continue", "drain"}, msg : Nat]
         /\ loop'.at = "begin" /\ loop'.msg = m /\ loop'.kind = kind
  BY DEF Begins, LoopAt

\* What the turns and the loop leave alone, and what they do.
LEMMA LoopKept ==
  ASSUME TurnTypes, [TurnsNext]_turnsVars
  PROVE  LoopTypes'
  <1>1. LoopTypes /\ InputTypes
    BY DEF TurnTypes
  <1>. USE <1>1
  <1>. DEFINE LoopSet == [at : LoopAt, kind : {"none", "user", "continue", "drain"}, msg : Nat]
  <1>2. ASSUME loop' \in LoopSet, UNCHANGED <<usersNil, auto, active, failed, interrupt, counts, jobs>>,
               wake' \in BOOLEAN
        PROVE  LoopTypes'
    BY <1>2 DEF LoopTypes, interrupt, counts
  <1>3. loop \in LoopSet /\ wake \in BOOLEAN
    BY DEF LoopTypes
  <1>4. CASE UNCHANGED <<wake, driver, counts, jobs>> /\ UNCHANGED interrupt
    BY <1>2, <1>3, <1>4 DEF driver
  <1>5. CASE Writes \/ UNCHANGED turnsVars
    BY <1>4, <1>5 DEF Writes, turnsVars
  <1>6. CASE \/ HearsUser \/ Says \/ HearsImage \/ Holds \/ Signals \/ HearsAnswer \/ HearsUnqueue \/ HearsEnd
    BY <1>4, <1>6 DEF HearsUser, Says, HearsImage, Holds, Signals, HearsAnswer, HearsUnqueue,
       HearsEnd
  <1>7. CASE HearsInterrupt
    <2>1. /\ interrupting' = (interrupting \/ cancel) /\ cut' = (cut \/ cancel)
          /\ UNCHANGED <<wake, driver, cancel, counts, jobs>>
      BY <1>7 DEF HearsInterrupt
    <2>. QED BY <2>1 DEF LoopTypes, driver, counts
  <1>8. CASE LoopStep
    <2>1. UNCHANGED <<auto, active, failed, interrupt, counts, jobs>>
      BY <1>8 DEF LoopStep, TakesHeld, FindsNoneHeld, LooksForPending, SelectsHeld, SelectsUser,
         SelectsClosed, SelectsWake, DrainLooks, DrainWakes, DrainEnds, SameTurn
    <2>2. usersNil' \in BOOLEAN /\ wake' \in BOOLEAN
      BY <1>8 DEF LoopStep, TakesHeld, FindsNoneHeld, LooksForPending, SelectsHeld, SelectsUser,
         SelectsClosed, SelectsWake, DrainLooks, DrainWakes, DrainEnds, LoopTypes
    <2>3. loop' \in LoopSet
      <3>1. {"pend", "drain", "select", "top", "stopped", "drainwait", "drainwake", "drainpend", "drained"}
              \subseteq LoopAt
        BY DEF LoopAt
      <3>2. CASE TakesHeld
        <4>1. held # <<>> /\ Begins("user", Head(held))
          BY <3>2 DEF TakesHeld
        <4>2. Head(held) \in Nat
          BY <4>1, TurnsAssumption DEF InputTypes, Msg
        <4>. QED BY <4>1, <4>2, BeginsTypes
      <3>3. CASE SelectsUser
        BY <3>3, BeginsTypes DEF SelectsUser, InputTypes
      <3>4. CASE FindsNoneHeld \/ SelectsHeld \/ SelectsClosed \/ DrainLooks
        BY <3>1, <3>4, ToTypes DEF FindsNoneHeld, SelectsHeld, SelectsClosed, DrainLooks
      <3>5. CASE LooksForPending \/ SelectsWake \/ DrainWakes \/ DrainEnds
        BY <3>1, <3>5, ToTypes, BeginsTypes DEF LooksForPending, SelectsWake, DrainWakes, DrainEnds
      <3>. QED BY <1>8, <3>2, <3>3, <3>4, <3>5 DEF LoopStep
    <2>. QED BY <2>1, <2>2, <2>3 DEF LoopTypes, interrupt, counts
  <1>9. {"enter", "prepare", "end", "attempt", "round", "tool", "ask", "lift", "result", "after", "top",
         "gaveup"} \subseteq LoopAt
    BY DEF LoopAt
  <1>10. CASE RoundReplies \/ RoundCallsTool \/ AskIsAnswered \/ AskIsCut \/ ToolReturns \/ RoundFollows
    <2>1. loop' \in LoopSet
      BY <1>9, <1>10, ToTypes DEF RoundReplies, RoundCallsTool, AskIsAnswered, AskIsCut,
         ToolReturns, RoundFollows
    <2>2. UNCHANGED <<failed, counts, jobs>> /\ InTurn
      BY <1>10 DEF RoundReplies, RoundCallsTool, AskIsAnswered, AskIsCut, ToolReturns, RoundFollows
    <2>. QED BY <1>2, <1>3, <2>1, <2>2 DEF InTurn
  <1>11. CASE Lifts \/ Attempts
    <2>1. loop' \in LoopSet
      BY <1>9, <1>11, ToTypes DEF Lifts, Attempts
    <2>2. UNCHANGED <<wake, usersNil, auto, active, failed, interrupt, counts, jobs>>
      BY <1>11 DEF Lifts, Attempts
    <2>. QED BY <1>2, <1>3, <2>1, <2>2
  <1>12. CASE TurnBegins
    <2>1. loop' \in LoopSet /\ active' = TRUE /\ failed' = FALSE
          /\ UNCHANGED <<wake, usersNil, auto, interrupt, counts, jobs>>
      BY <1>9, <1>12, ToTypes DEF TurnBegins
    <2>. QED BY <2>1 DEF LoopTypes, interrupt, counts
  <1>13. CASE Interruptible
    <2>1. loop' \in LoopSet /\ cancel' = TRUE /\ cut' = FALSE
          /\ UNCHANGED <<wake, usersNil, auto, active, failed, interrupting, counts, jobs>>
      BY <1>9, <1>13, ToTypes DEF Interruptible
    <2>. QED BY <2>1 DEF LoopTypes, counts
  <1>14. CASE Prepares
    <2>1. interrupting' = FALSE /\ UNCHANGED <<wake, usersNil, auto, active, failed, cancel, cut, counts, jobs>>
          /\ loop' = [loop EXCEPT !.at = IF fresh' = {} THEN "end" ELSE "attempt", !.msg = 0]
      BY <1>14 DEF Prepares
    <2>2. loop' \in LoopSet
      BY <1>3, <1>9, <2>1
    <2>. QED BY <2>1, <2>2 DEF LoopTypes, counts
  <1>15. CASE RoundFails
    <2>1. loop' \in LoopSet
      BY <1>9, <1>15, ToTypes DEF RoundFails
    <2>2. fails' = fails + 1 /\ fails < MaxFails /\ failed' \in BOOLEAN
          /\ UNCHANGED <<asked, jobs, wake, usersNil, auto, active, interrupt>>
      BY <1>15 DEF RoundFails, InTurn, LoopTypes
    <2>3. fails' \in 0..MaxFails
      BY <2>2, TurnsAssumption DEF LoopTypes
    <2>. QED BY <2>1, <2>2, <2>3 DEF LoopTypes, interrupt
  <1>16. CASE ToolAsks
    <2>1. loop' \in LoopSet
      BY <1>9, <1>16, ToTypes DEF ToolAsks
    <2>2. asked' = asked + 1 /\ asked < MaxAsks
          /\ UNCHANGED <<fails, failed, jobs, wake, usersNil, auto, active, interrupt>>
      BY <1>16 DEF ToolAsks, InTurn
    <2>3. asked' \in 0..MaxAsks
      BY <2>2, TurnsAssumption DEF LoopTypes
    <2>. QED BY <2>1, <2>2, <2>3 DEF LoopTypes, interrupt
  <1>17. CASE ToolStartsJob
    <2>1. UNCHANGED <<loop, failed, counts, wake, usersNil, auto, active, interrupt>>
          /\ \E n \in News : jobs' = [jobs EXCEPT ![n] = "running"]
      BY <1>17 DEF ToolStartsJob, InTurn
    <2>. QED BY <2>1 DEF LoopTypes, counts, interrupt
  <1>18. CASE TurnReturns
    <2>1. loop' \in LoopSet /\ cancel' = FALSE /\ failed' \in BOOLEAN
          /\ UNCHANGED <<wake, usersNil, auto, active, interrupting, cut, counts, jobs>>
      BY <1>9, <1>18, ToTypes DEF TurnReturns, LoopTypes
    <2>. QED BY <2>1 DEF LoopTypes, counts
  <1>19. CASE TurnEnds
    <2>1. loop' \in LoopSet /\ active' = FALSE
          /\ UNCHANGED <<wake, usersNil, failed, interrupt, counts, jobs>>
      BY <1>9, <1>19, ToTypes DEF TurnEnds
    <2>2. auto' \in BOOLEAN
      BY <1>19 DEF TurnEnds, CarriesOn, LoopTypes
    <2>. QED BY <2>1, <2>2 DEF LoopTypes, interrupt, counts
  <1>20. CASE JobStep
    <2>1. PICK n \in News : JobEnds(n) \/ JobNotifies(n) \/ JobWakes(n)
      BY <1>20 DEF JobStep
    <2>2. /\ UNCHANGED <<driver, interrupt, counts>> /\ wake' \in BOOLEAN
          /\ \E to \in {"ended", "said", "done"} : jobs' = [jobs EXCEPT ![n] = to]
      BY <2>1 DEF JobEnds, JobNotifies, JobWakes, JobMoves, LoopTypes
    <2>. QED BY <2>2 DEF LoopTypes, driver, interrupt, counts
  <1>. QED BY <1>5, <1>6, <1>7, <1>8, <1>10, <1>11, <1>12, <1>13, <1>14, <1>15, <1>16, <1>17, <1>18, <1>19,
              <1>20 DEF TurnsNext, ScannerStep, TurnStep

\* ...and with the loop all of the state.
LEMMA TurnTypesKept == TurnTypes /\ [TurnsNext]_turnsVars => TurnTypes'
  BY InputKept, BufferKept, LoopKept DEF TurnTypes

-----------------------------------------------------------------------------
(* Where a message is *)

Wanted(m) == {l \in LineOf : l.kind \in {"user", "image"} /\ l.id = m}

\* The lines of a pipe that bring m.
LEMMA PipeIs ==
  ASSUME NEW p \in Seq(LineOf), NEW m
  PROVE  /\ Cardinality({k \in DOMAIN p : p[k].kind \in {"user", "image"} /\ p[k].id = m}) = CountIn(p, Wanted(m))
         /\ CountIn(p, Wanted(m)) \in Nat
  <1>1. {k \in DOMAIN p : p[k].kind \in {"user", "image"} /\ p[k].id = m} = PlacesIn(p, Wanted(m))
    BY DEF PlacesIn, Wanted
  <1>. QED BY <1>1, CountType DEF CountIn

\* How often m is in each place.
LEMMA PlacesBefore ==
  ASSUME InputTypes, BufferTypes, NEW m
  PROVE  /\ InPipe(m) = CountIn(pipe, Wanted(m))
         /\ Count(m, held) = CountIn(held, {m})
         /\ Count(m, queue) = CountIn(queue, {m})
  <1>1. pipe \in Seq(LineOf) /\ held \in Seq(Msg) /\ queue \in Seq(Msg \union News)
    BY DEF InputTypes, BufferTypes
  <1>2. Count(m, held) = Count(m, held) /\ Count(m, queue) = Count(m, queue)
    BY DEF Count
  <1>3. InPipe(m) = CountIn(pipe, Wanted(m))
    BY <1>1, PipeIs DEF InPipe
  <1>. QED BY <1>1, <1>2, <1>3, CountRange

\* These are numbers.
LEMMA NumbersBefore ==
  ASSUME InputTypes, BufferTypes, NEW m
  PROVE  /\ InPipe(m) \in Nat /\ Count(m, held) \in Nat /\ Count(m, queue) \in Nat
         /\ AtScanner(m) \in Nat /\ InTurnOf(m) \in Nat /\ InSet(m, stored) \in Nat
         /\ InSet(m, back) \in Nat /\ Total(m) \in Nat
  <1>1. pipe \in Seq(LineOf) /\ held \in Seq(Msg) /\ queue \in Seq(Msg \union News)
    BY DEF InputTypes, BufferTypes
  <1>2. InPipe(m) \in Nat /\ Count(m, held) \in Nat /\ Count(m, queue) \in Nat
    <2>1. CountIn(pipe, Wanted(m)) \in Nat
      BY <1>1, PipeIs
    <2>2. CountIn(held, {m}) \in Nat /\ CountIn(queue, {m}) \in Nat
      BY <1>1, CountType
    <2>. QED BY <2>1, <2>2, PlacesBefore
  <1>3. /\ AtScanner(m) \in Nat /\ InTurnOf(m) \in Nat /\ InSet(m, stored) \in Nat
        /\ InSet(m, back) \in Nat
    BY DEF AtScanner, InTurnOf, InSet
  <1>. QED BY <1>2, <1>3 DEF Total

\* What is in the buffer is there a number of times.
LEMMA BufferedBefore ==
  ASSUME BufferTypes, NEW m
  PROVE  m \in Range(queue) <=> Count(m, queue) # 0
  <1>1. queue \in Seq(Msg \union News)
    BY DEF BufferTypes
  <1>. QED BY <1>1, CountRange

\* How often m is in each place after the step.
LEMMA PlacesAfter ==
  ASSUME InputTypes', BufferTypes', NEW m
  PROVE  /\ InPipe(m)' = CountIn(pipe', Wanted(m))
         /\ Count(m, held)' = CountIn(held', {m})
         /\ Count(m, queue)' = CountIn(queue', {m})
  <1>1. pipe' \in Seq(LineOf) /\ held' \in Seq(Msg) /\ queue' \in Seq(Msg \union News)
    BY DEF InputTypes, BufferTypes
  <1>2. Count(m, held)' = Count(m, held') /\ Count(m, queue)' = Count(m, queue')
    BY DEF Count
  <1>3. InPipe(m)' = CountIn(pipe', Wanted(m))
    BY <1>1, PipeIs DEF InPipe
  <1>. QED BY <1>1, <1>2, <1>3, CountRange

\* These are numbers.
LEMMA NumbersAfter ==
  ASSUME InputTypes', BufferTypes', NEW m
  PROVE  /\ InPipe(m)' \in Nat /\ Count(m, held)' \in Nat /\ Count(m, queue)' \in Nat
         /\ AtScanner(m)' \in Nat /\ InTurnOf(m)' \in Nat /\ InSet(m, stored)' \in Nat
         /\ InSet(m, back)' \in Nat /\ Total(m)' \in Nat
  <1>1. pipe' \in Seq(LineOf) /\ held' \in Seq(Msg) /\ queue' \in Seq(Msg \union News)
    BY DEF InputTypes, BufferTypes
  <1>2. InPipe(m)' \in Nat /\ Count(m, held)' \in Nat /\ Count(m, queue)' \in Nat
    <2>1. CountIn(pipe', Wanted(m)) \in Nat
      BY <1>1, PipeIs
    <2>2. CountIn(held', {m}) \in Nat /\ CountIn(queue', {m}) \in Nat
      BY <1>1, CountType
    <2>. QED BY <2>1, <2>2, PlacesAfter
  <1>3. /\ AtScanner(m)' \in Nat /\ InTurnOf(m)' \in Nat /\ InSet(m, stored)' \in Nat
        /\ InSet(m, back)' \in Nat
    BY DEF AtScanner, InTurnOf, InSet
  <1>. QED BY <1>2, <1>3 DEF Total

\* What is in the buffer is there a number of times.
LEMMA BufferedAfter ==
  ASSUME BufferTypes', NEW m
  PROVE  m \in Range(queue') <=> Count(m, queue') # 0
  <1>1. queue' \in Seq(Msg \union News)
    BY DEF BufferTypes
  <1>. QED BY <1>1, CountRange

\* A step that brings no message anywhere, but from one place to another at most.
LEMMA MovesOnly ==
  ASSUME InputTypes, BufferTypes, InputTypes', BufferTypes', PlaceInv, written' >= written,
         \A m \in Msg \union News : Total(m)' <= Total(m),
         \A n \in News : jobs'[n] \in {"said", "done"} <=> jobs[n] \in {"said", "done"},
         \A n \in News : n \in Range(queue) \union stored => n \in Range(queue') \union stored'
  PROVE  PlaceInv'
  <1>1. \A m \in Msg \union News : Total(m) \in Nat /\ Total(m)' \in Nat
    BY NumbersBefore, NumbersAfter
  <1>2. written \in Nat /\ written' \in Nat /\ Msg \subseteq Nat
    BY TurnsAssumption DEF InputTypes, Msg
  <1>3. \A m \in Msg \union News : Total(m)' <= 1
    BY <1>1 DEF PlaceInv
  <1>4. \A m \in Msg : m > written' => Total(m)' = 0
    <2>. SUFFICES ASSUME NEW m \in Msg, m > written' PROVE Total(m)' = 0
      OBVIOUS
    <2>1. m > written
      BY <1>2
    <2>2. Total(m) = 0 /\ Total(m)' <= Total(m) /\ Total(m)' \in Nat
      BY <1>1, <2>1 DEF PlaceInv
    <2>. QED BY <2>2
  <1>5. \A n \in News : jobs'[n] \notin {"said", "done"} => Total(n)' = 0
    <2>. SUFFICES ASSUME NEW n \in News, jobs'[n] \notin {"said", "done"} PROVE Total(n)' = 0
      OBVIOUS
    <2>2. Total(n) = 0 /\ Total(n)' <= Total(n) /\ Total(n)' \in Nat
      BY <1>1 DEF PlaceInv
    <2>. QED BY <2>2
  <1>6. \A n \in News : jobs'[n] \in {"said", "done"} => n \in Range(queue') \union stored'
    BY DEF PlaceInv
  <1>. QED BY <1>3, <1>4, <1>5, <1>6 DEF PlaceInv

\* No message moves.
LEMMA StaysOnce ==
  ASSUME InputTypes, BufferTypes, InputTypes', BufferTypes', PlaceInv,
         UNCHANGED <<written, pipe, held, queue, stored, back>>,
         scanner' = scanner \/ scanner'.at \notin Holding,
         \A m \in Msg \union News : InTurnOf(m)' <= InTurnOf(m),
         \A n \in News : jobs'[n] \in {"said", "done"} <=> jobs[n] \in {"said", "done"}
  PROVE  PlaceInv'
  <1>1. ASSUME NEW m \in Msg \union News PROVE Total(m)' <= Total(m)
    <2>1. InPipe(m)' = InPipe(m) /\ Count(m, held)' = Count(m, held) /\ Count(m, queue)' = Count(m, queue)
          /\ InSet(m, stored)' = InSet(m, stored) /\ InSet(m, back)' = InSet(m, back)
      BY DEF InPipe, Count, InSet
    <2>2. AtScanner(m)' <= AtScanner(m)
      <3>1. AtScanner(m)' = AtScanner(m) \/ AtScanner(m)' = 0
        BY DEF AtScanner, Holding
      <3>. QED BY <3>1, NumbersBefore
    <2>. QED BY <2>1, <2>2, NumbersBefore, NumbersAfter DEF Total
  <1>2. written' >= written
    BY TurnsAssumption DEF InputTypes
  <1>. QED BY <1>1, <1>2, MovesOnly

\* A line is heard, and what it brings is in the scanner's hand.
LEMMA HearsOnce ==
  ASSUME InputTypes, BufferTypes, InputTypes', BufferTypes', PlaceInv, NEW kind, Hears(kind),
         UNCHANGED <<loop, held, queue, stored, back, jobs>>,
         \/ scanner'.at \notin Holding
         \/ kind \in {"user", "image"} /\ scanner'.msg = Head(pipe).id
  PROVE  PlaceInv'
  <1>1. /\ pipe # <<>> /\ pipe' = Tail(pipe) /\ pipe \in Seq(LineOf) /\ Head(pipe) \in LineOf
        /\ Head(pipe).kind = kind /\ scanner.at = "read" /\ written' = written
    BY HeardTypes DEF InputTypes
  <1>2. ASSUME NEW m \in Msg \union News PROVE Total(m)' <= Total(m)
    <2>1. Count(m, held)' = Count(m, held) /\ Count(m, queue)' = Count(m, queue)
          /\ InSet(m, stored)' = InSet(m, stored) /\ InSet(m, back)' = InSet(m, back)
          /\ InTurnOf(m)' = InTurnOf(m)
      BY DEF Count, InSet, InTurnOf
    <2>2. InPipe(m) = InPipe(m)' + (IF Head(pipe) \in Wanted(m) THEN 1 ELSE 0)
      <3>1. CountIn(pipe, Wanted(m)) = CountIn(Tail(pipe), Wanted(m)) + (IF Head(pipe) \in Wanted(m) THEN 1 ELSE 0)
        BY <1>1, CountTail
      <3>2. InPipe(m) = CountIn(pipe, Wanted(m))
        BY PlacesBefore
      <3>3. InPipe(m)' = CountIn(pipe', Wanted(m))
        BY PlacesAfter
      <3>. QED BY <1>1, <3>1, <3>2, <3>3
    <2>3. AtScanner(m) = 0
      BY <1>1 DEF AtScanner
    <2>4. AtScanner(m)' <= IF Head(pipe) \in Wanted(m) THEN 1 ELSE 0
      BY <1>1 DEF AtScanner, Wanted, Holding
    <2>. QED BY <2>1, <2>2, <2>3, <2>4, NumbersBefore, NumbersAfter DEF Total
  <1>3. written' >= written
    BY <1>1, TurnsAssumption DEF InputTypes
  <1>. QED BY <1>2, <1>3, MovesOnly

\* The buffer goes to the conversation.
LEMMA FlushOnce ==
  ASSUME InputTypes, BufferTypes, InputTypes', BufferTypes', PlaceInv,
         UNCHANGED <<written, pipe, scanner, held, back, jobs>>, queue' = <<>>,
         NEW more, stored' = stored \union Range(queue) \union more,
         \A m \in Msg \union News : IF m \in more THEN InTurnOf(m) = 1 /\ InTurnOf(m)' = 0
                                    ELSE InTurnOf(m)' <= InTurnOf(m)
  PROVE  PlaceInv'
  <1>1. ASSUME NEW m \in Msg \union News PROVE Total(m)' <= Total(m)
    <2>1. InPipe(m)' = InPipe(m) /\ Count(m, held)' = Count(m, held) /\ InSet(m, back)' = InSet(m, back)
          /\ AtScanner(m)' = AtScanner(m)
      BY DEF InPipe, Count, InSet, AtScanner
    <2>2. Count(m, queue)' = 0
      <3>1. m \notin Range(queue')
        BY DEF Range
      <3>2. Count(m, queue') = 0
        BY <3>1, BufferedAfter
      <3>. QED BY <3>2 DEF Count
    <2>3. PICK x \in Nat : x = IF m \in more THEN 1 ELSE 0
      OBVIOUS
    <2>4. InSet(m, stored)' <= InSet(m, stored) + Count(m, queue) + x
      <3>1. m \in Range(queue) => Count(m, queue) >= 1
        BY BufferedBefore, NumbersBefore
      <3>2. m \in stored' <=> m \in stored \/ m \in Range(queue) \/ m \in more
        OBVIOUS
      <3>. QED BY <2>3, <3>1, <3>2, NumbersBefore DEF InSet
    <2>5. InTurnOf(m)' + x <= InTurnOf(m)
      BY <2>3, NumbersBefore, NumbersAfter
    <2>6. PICK p \in Nat, a \in Nat, h \in Nat, b \in Nat :
            p = InPipe(m) /\ a = AtScanner(m) /\ h = Count(m, held) /\ b = InSet(m, back)
      BY NumbersBefore
    <2>7. PICK t0 \in Nat, q \in Nat, s0 \in Nat :
            t0 = InTurnOf(m) /\ q = Count(m, queue) /\ s0 = InSet(m, stored)
      BY NumbersBefore
    <2>8. PICK t1 \in Nat, s1 \in Nat : t1 = InTurnOf(m)' /\ s1 = InSet(m, stored)'
      BY NumbersAfter
    <2>9. Total(m)' = p + a + t1 + h + 0 + s1 + b
      BY <2>1, <2>2, <2>6, <2>8 DEF Total
    <2>10. Total(m) = p + a + t0 + h + q + s0 + b
      BY <2>6, <2>7 DEF Total
    <2>11. t1 + x <= t0 /\ s1 <= s0 + q + x
      BY <2>4, <2>5, <2>7, <2>8
    <2>12. p + a + t1 + h + 0 + s1 + b <= p + a + t0 + h + q + s0 + b
      BY <2>11
    <2>. QED BY <2>9, <2>10, <2>12
  <1>2. written' >= written
    BY TurnsAssumption DEF InputTypes
  <1>. QED BY <1>1, <1>2, MovesOnly

\* A message goes from the scanner's hand to the buffer, to those held, or to the loop.
LEMMA HandOnce ==
  ASSUME InputTypes, BufferTypes, InputTypes', BufferTypes', PlaceInv,
         UNCHANGED <<written, pipe, stored, back, jobs>>, scanner.at \in Holding, scanner'.at \notin Holding,
         \/ queue' = Append(queue, scanner.msg) /\ held' = held /\ loop' = loop
         \/ held' = Append(held, scanner.msg) /\ queue' = queue /\ loop' = loop
         \/ loop'.msg = scanner.msg /\ held' = held /\ queue' = queue
  PROVE  PlaceInv'
  <1>1. scanner.msg \in Msg /\ held \in Seq(Msg) /\ queue \in Seq(Msg \union News)
    BY DEF InputTypes, BufferTypes
  <1>2. ASSUME NEW m \in Msg \union News PROVE Total(m)' <= Total(m)
    <2>1. InPipe(m)' = InPipe(m) /\ InSet(m, stored)' = InSet(m, stored) /\ InSet(m, back)' = InSet(m, back)
      BY DEF InPipe, InSet
    <2>2. PICK x \in Nat : x = IF scanner.msg = m THEN 1 ELSE 0
      OBVIOUS
    <2>3. AtScanner(m)' = 0 /\ AtScanner(m) = x
      BY <2>2 DEF AtScanner, Holding
    <2>4. InPipe(m) \in Nat /\ Count(m, held) \in Nat /\ InSet(m, back) \in Nat /\ AtScanner(m) \in Nat
           /\ Count(m, queue) \in Nat /\ InSet(m, stored) \in Nat /\ InTurnOf(m) \in Nat
      BY NumbersBefore
    <2>5. Total(m) = InPipe(m) + AtScanner(m) + InTurnOf(m) + Count(m, held) + Count(m, queue)
                        + InSet(m, stored) + InSet(m, back)
      BY DEF Total
    <2>6. Count(m, held) = CountIn(held, {m}) /\ Count(m, queue) = CountIn(queue, {m})
      BY PlacesBefore
    <2>7. Count(m, held)' = CountIn(held', {m}) /\ Count(m, queue)' = CountIn(queue', {m})
      BY PlacesAfter
    <2>8. CASE queue' = Append(queue, scanner.msg) /\ held' = held /\ loop' = loop
      <3>1. CountIn(queue', {m}) = CountIn(queue, {m}) + (IF scanner.msg \in {m} THEN 1 ELSE 0)
        BY <1>1, <2>8, CountAppend
      <3>2. Count(m, queue)' = Count(m, queue) + x
        BY <2>2, <2>6, <2>7, <3>1
      <3>3. InTurnOf(m)' = InTurnOf(m) /\ Count(m, held)' = Count(m, held)
        BY <2>8 DEF InTurnOf, Count
      <3>4. Total(m)' = InPipe(m) + 0 + InTurnOf(m) + Count(m, held) + (Count(m, queue) + x)
                          + InSet(m, stored) + InSet(m, back)
        BY <2>1, <2>3, <3>2, <3>3 DEF Total
      <3>. QED BY <2>2, <2>3, <2>4, <2>5, <3>4
    <2>9. CASE held' = Append(held, scanner.msg) /\ queue' = queue /\ loop' = loop
      <3>1. CountIn(held', {m}) = CountIn(held, {m}) + (IF scanner.msg \in {m} THEN 1 ELSE 0)
        BY <1>1, <2>9, CountAppend
      <3>2. Count(m, held)' = Count(m, held) + x
        BY <2>2, <2>6, <2>7, <3>1
      <3>3. InTurnOf(m)' = InTurnOf(m) /\ Count(m, queue)' = Count(m, queue)
        BY <2>9 DEF InTurnOf, Count
      <3>4. Total(m)' = InPipe(m) + 0 + InTurnOf(m) + (Count(m, held) + x) + Count(m, queue)
                          + InSet(m, stored) + InSet(m, back)
        BY <2>1, <2>3, <3>2, <3>3 DEF Total
      <3>. QED BY <2>2, <2>3, <2>4, <2>5, <3>4
    <2>10. CASE loop'.msg = scanner.msg /\ held' = held /\ queue' = queue
      <3>1. InTurnOf(m)' = x
        BY <2>2, <2>10 DEF InTurnOf
      <3>2. Count(m, held)' = Count(m, held) /\ Count(m, queue)' = Count(m, queue)
        BY <2>10 DEF Count
      <3>3. Total(m)' = InPipe(m) + 0 + x + Count(m, held) + Count(m, queue)
                          + InSet(m, stored) + InSet(m, back)
        BY <2>1, <2>3, <3>1, <3>2 DEF Total
      <3>. QED BY <2>2, <2>3, <2>4, <2>5, <3>3
    <2>. QED BY <2>8, <2>9, <2>10
  <1>3. written' >= written
    BY TurnsAssumption DEF InputTypes
  <1>4. \A n \in News : n \in Range(queue) => n \in Range(queue')
    <2>1. CASE queue' = queue
      BY <2>1
    <2>2. CASE queue' = Append(queue, scanner.msg)
      BY <1>1, <2>2 DEF Range
    <2>. QED BY <2>1, <2>2
  <1>. QED BY <1>2, <1>3, <1>4, MovesOnly

\* A held message goes to the loop.
LEMMA TakesOnce ==
  ASSUME InputTypes, BufferTypes, InputTypes', BufferTypes', PlaceInv,
         UNCHANGED <<written, pipe, scanner, queue, stored, back, jobs>>, held # <<>>, held' = Tail(held),
         loop'.msg = Head(held)
  PROVE  PlaceInv'
  <1>1. held \in Seq(Msg)
    BY DEF InputTypes
  <1>2. ASSUME NEW m \in Msg \union News PROVE Total(m)' <= Total(m)
    <2>1. InPipe(m)' = InPipe(m) /\ InSet(m, stored)' = InSet(m, stored) /\ InSet(m, back)' = InSet(m, back)
          /\ Count(m, queue)' = Count(m, queue) /\ AtScanner(m)' = AtScanner(m)
      BY DEF InPipe, InSet, Count, AtScanner
    <2>2. Count(m, held) = CountIn(held, {m})
      BY PlacesBefore
    <2>3. Count(m, held)' = CountIn(held', {m})
      BY PlacesAfter
    <2>4. CountIn(held, {m}) = CountIn(Tail(held), {m}) + (IF Head(held) \in {m} THEN 1 ELSE 0)
      BY <1>1, CountTail
    <2>5. PICK x \in Nat : x = IF Head(held) = m THEN 1 ELSE 0
      OBVIOUS
    <2>6. PICK p \in Nat, a \in Nat, q \in Nat, s0 \in Nat, b \in Nat :
            p = InPipe(m) /\ a = AtScanner(m) /\ q = Count(m, queue) /\ s0 = InSet(m, stored) /\ b = InSet(m, back)
      BY NumbersBefore
    <2>7. PICK t \in Nat, h0 \in Nat : t = InTurnOf(m) /\ h0 = Count(m, held)
      BY NumbersBefore
    <2>8. PICK h1 \in Nat : h1 = Count(m, held)'
      BY NumbersAfter
    <2>9. h0 = h1 + x
      BY <2>2, <2>3, <2>4, <2>5, <2>7, <2>8
    <2>10. Total(m)' = p + a + x + h1 + q + s0 + b
      BY <2>1, <2>5, <2>6, <2>8 DEF Total, InTurnOf
    <2>11. Total(m) = p + a + t + h0 + q + s0 + b
      BY <2>6, <2>7 DEF Total
    <2>12. p + a + x + h1 + q + s0 + b <= p + a + t + h0 + q + s0 + b
      BY <2>9
    <2>. QED BY <2>10, <2>11, <2>12
  <1>3. written' >= written
    BY TurnsAssumption DEF InputTypes
  <1>. QED BY <1>2, <1>3, MovesOnly

\* An unqueue gives the person's messages back.
LEMMA UnqueueOnce ==
  ASSUME InputTypes, BufferTypes, InputTypes', BufferTypes', PlaceInv, HearsUnqueue
  PROVE  PlaceInv'
  <1>1. /\ Hears("unqueue") /\ queue' = KeptNews(queue)
        /\ back' = back \union {m \in Range(queue) : IsUser(m)}
        /\ UNCHANGED <<scanner, held, stored, loop, jobs>>
    BY DEF HearsUnqueue, stream, convo, driver
  <1>2. /\ pipe # <<>> /\ pipe' = Tail(pipe) /\ pipe \in Seq(LineOf) /\ written' = written
        /\ queue \in Seq(Msg \union News)
    BY <1>1, HeardTypes DEF InputTypes, BufferTypes
  <1>3. KeptNews(queue) \in Seq(News) /\ \A n \in News : CountIn(KeptNews(queue), {n}) = CountIn(queue, {n})
    BY <1>2, KeepsNews
  <1>4. \A m \in Msg : m \notin News
    BY TurnsAssumption DEF Msg, News
  <1>5. ASSUME NEW m \in Msg \union News PROVE Total(m)' <= Total(m)
    <2>1. InTurnOf(m)' = InTurnOf(m) /\ InSet(m, stored)' = InSet(m, stored)
          /\ Count(m, held)' = Count(m, held) /\ AtScanner(m)' = AtScanner(m)
      BY <1>1 DEF InTurnOf, InSet, Count, AtScanner
    <2>2. InPipe(m)' <= InPipe(m)
      <3>1. CountIn(pipe, Wanted(m)) = CountIn(Tail(pipe), Wanted(m)) + (IF Head(pipe) \in Wanted(m) THEN 1 ELSE 0)
        BY <1>2, CountTail
      <3>2. InPipe(m) = CountIn(pipe, Wanted(m))
        BY PlacesBefore
      <3>3. InPipe(m)' = CountIn(pipe', Wanted(m))
        BY PlacesAfter
      <3>. QED BY <1>2, <3>1, <3>2, <3>3, NumbersBefore, NumbersAfter
    <2>3. Count(m, queue) = CountIn(queue, {m})
      BY PlacesBefore
    <2>4. Count(m, queue)' = CountIn(queue', {m})
      BY PlacesAfter
    <2>5. InPipe(m) \in Nat /\ Count(m, held) \in Nat /\ InSet(m, back) \in Nat /\ AtScanner(m) \in Nat
           /\ Count(m, queue) \in Nat /\ InSet(m, stored) \in Nat /\ InTurnOf(m) \in Nat
      BY NumbersBefore
    <2>6. Total(m) = InPipe(m) + AtScanner(m) + InTurnOf(m) + Count(m, held) + Count(m, queue)
                        + InSet(m, stored) + InSet(m, back)
      BY DEF Total
    <2>7. CASE m \in News
      <3>1. InSet(m, back)' = InSet(m, back)
        BY <1>1, <1>4, <2>7 DEF InSet, IsUser
      <3>2. Count(m, queue)' = Count(m, queue)
        BY <1>1, <1>3, <2>3, <2>4, <2>7
      <3>3. Total(m)' = InPipe(m)' + AtScanner(m) + InTurnOf(m) + Count(m, held) + Count(m, queue)
                          + InSet(m, stored) + InSet(m, back)
        BY <2>1, <3>1, <3>2 DEF Total
      <3>4. InPipe(m)' \in Nat
        BY NumbersAfter
      <3>. QED BY <2>2, <2>5, <2>6, <3>3, <3>4
    <2>8. CASE m \in Msg
      <3>1. m \notin Range(queue')
        BY <1>1, <1>3, <1>4, <2>8 DEF Range
      <3>2. Count(m, queue') = 0
        BY <3>1, BufferedAfter
      <3>3. Count(m, queue)' = 0
        BY <3>2 DEF Count
      <3>4. InSet(m, back)' <= InSet(m, back) + Count(m, queue)
        <4>1. m \in Range(queue) => Count(m, queue) >= 1
          BY BufferedBefore, NumbersBefore
        <4>2. m \in back' <=> m \in back \/ m \in Range(queue)
          BY <1>1, <2>8 DEF IsUser
        <4>. QED BY <4>1, <4>2, NumbersBefore DEF InSet
      <3>5. Total(m)' = InPipe(m)' + AtScanner(m) + InTurnOf(m) + Count(m, held) + 0
                          + InSet(m, stored) + InSet(m, back)'
        BY <2>1, <3>3 DEF Total
      <3>6. InPipe(m)' \in Nat /\ InSet(m, back)' \in Nat
        BY NumbersAfter
      <3>. QED BY <2>2, <2>5, <2>6, <3>4, <3>5, <3>6
    <2>. QED BY <2>7, <2>8
  <1>6. written' >= written
    BY <1>2, TurnsAssumption DEF InputTypes
  <1>7. ASSUME NEW n \in News, n \in Range(queue) PROVE n \in Range(queue')
    <2>1. Count(n, queue) # 0
      BY <1>7, BufferedBefore
    <2>2. Count(n, queue) = CountIn(queue, {n})
      BY PlacesBefore
    <2>3. Count(n, queue)' = CountIn(queue', {n})
      BY PlacesAfter
    <2>4. Count(n, queue') # 0
      BY <1>1, <1>3, <2>1, <2>2, <2>3 DEF Count
    <2>. QED BY <2>4, BufferedAfter
  <1>. QED BY <1>1, <1>5, <1>6, <1>7, MovesOnly

\* A line is written, with a message of a number of its own.
LEMMA WritesOnce ==
  ASSUME InputTypes, BufferTypes, LoopTypes, InputTypes', BufferTypes', PlaceInv, Writes
  PROVE  PlaceInv'
  <1>1. PICK kind \in LineKinds : \E x \in Line(kind) : pipe' = Append(pipe, x)
    BY DEF Writes
  <1>2. PICK line \in Line(kind) : pipe' = Append(pipe, line)
    BY <1>1
  <1>3. written' = written + 1 /\ written < MaxLines /\ UNCHANGED <<scanner, held, queue, back, stored, loop, jobs>>
    BY DEF Writes, stream, buffer, convo, driver
  <1>4. line \in LineOf /\ written + 1 \in Msg /\ (line.kind \in {"user", "image"} => line.id = written + 1)
    BY <1>3, LineTypes
  <1>5. pipe \in Seq(LineOf) /\ written \in Nat /\ Msg \subseteq Nat /\ \A n \in News : n # written + 1
    BY <1>4, TurnsAssumption DEF InputTypes, Msg, News
  <1>6. \A m \in Msg \union News : Total(m) \in Nat /\ Total(m)' \in Nat
    BY NumbersBefore, NumbersAfter
  <1>7. ASSUME NEW m \in Msg \union News
        PROVE  Total(m)' = Total(m) + (IF line \in Wanted(m) THEN 1 ELSE 0)
    <2>1. InTurnOf(m)' = InTurnOf(m) /\ InSet(m, stored)' = InSet(m, stored) /\ InSet(m, back)' = InSet(m, back)
          /\ Count(m, held)' = Count(m, held) /\ Count(m, queue)' = Count(m, queue)
          /\ AtScanner(m)' = AtScanner(m)
      BY <1>3 DEF InTurnOf, InSet, Count, AtScanner
    <2>2. CountIn(pipe', Wanted(m)) = CountIn(pipe, Wanted(m)) + (IF line \in Wanted(m) THEN 1 ELSE 0)
      BY <1>2, <1>4, <1>5, CountAppend
    <2>3. InPipe(m) = CountIn(pipe, Wanted(m))
      BY PlacesBefore
    <2>4. InPipe(m)' = CountIn(pipe', Wanted(m))
      BY PlacesAfter
    <2>. QED BY <2>1, <2>2, <2>3, <2>4, NumbersBefore, NumbersAfter DEF Total
  <1>8. \A m \in Msg \union News : line \in Wanted(m) => m = written + 1
    BY <1>4 DEF Wanted
  <1>9. Total(written + 1) = 0
    <2>1. written + 1 > written
      BY <1>5
    <2>. QED BY <1>4, <2>1 DEF PlaceInv
  <1>10. \A m \in Msg \union News : Total(m)' <= 1
    <2>. SUFFICES ASSUME NEW m \in Msg \union News PROVE Total(m)' <= 1
      OBVIOUS
    <2>1. CASE line \in Wanted(m)
      <3>1. Total(m)' = Total(m) + 1 /\ Total(m) = 0
        BY <1>7, <1>8, <1>9, <2>1
      <3>. QED BY <3>1
    <2>2. CASE line \notin Wanted(m)
      <3>1. Total(m)' = Total(m) + 0 /\ Total(m) <= 1
        BY <1>7, <2>2 DEF PlaceInv
      <3>. QED BY <1>6, <3>1
    <2>. QED BY <2>1, <2>2
  <1>11. \A m \in Msg : m > written' => Total(m)' = 0
    <2>. SUFFICES ASSUME NEW m \in Msg, m > written' PROVE Total(m)' = 0
      OBVIOUS
    <2>1. m > written /\ m # written + 1
      BY <1>3, <1>5
    <2>2. Total(m)' = Total(m) + 0 /\ Total(m) = 0
      BY <1>7, <1>8, <2>1 DEF PlaceInv
    <2>. QED BY <2>2
  <1>12. \A n \in News : jobs'[n] \notin {"said", "done"} => Total(n)' = 0
    <2>. SUFFICES ASSUME NEW n \in News, jobs'[n] \notin {"said", "done"} PROVE Total(n)' = 0
      OBVIOUS
    <2>1. Total(n)' = Total(n) + 0 /\ Total(n) = 0
      BY <1>3, <1>5, <1>7, <1>8 DEF PlaceInv
    <2>. QED BY <2>1
  <1>13. \A n \in News : jobs'[n] \in {"said", "done"} => n \in Range(queue') \union stored'
    BY <1>3 DEF PlaceInv
  <1>. QED BY <1>10, <1>11, <1>12, <1>13 DEF PlaceInv

\* A job's note is made.
LEMMA NotesOnce ==
  ASSUME InputTypes, BufferTypes, LoopTypes, InputTypes', BufferTypes', PlaceInv, NEW j \in News, JobNotifies(j)
  PROVE  PlaceInv'
  <1>1. /\ jobs[j] = "ended" /\ jobs' = [jobs EXCEPT ![j] = "said"] /\ queue' = Append(queue, j)
        /\ UNCHANGED <<written, pipe, scanner, held, back, stored, loop>>
    BY DEF JobNotifies, JobMoves, clients, stream, convo, driver
  <1>2. jobs'[j] = "said" /\ \A n \in News : n # j => jobs'[n] = jobs[n]
    BY <1>1 DEF LoopTypes
  <1>3. Total(j) = 0
    BY <1>1 DEF PlaceInv
  <1>4. queue \in Seq(Msg \union News)
    BY DEF BufferTypes
  <1>5. \A m \in Msg \union News : Total(m) \in Nat /\ Total(m)' \in Nat
    BY NumbersBefore, NumbersAfter
  <1>6. ASSUME NEW m \in Msg \union News PROVE Total(m)' = Total(m) + (IF j = m THEN 1 ELSE 0)
    <2>1. InTurnOf(m)' = InTurnOf(m) /\ InSet(m, stored)' = InSet(m, stored) /\ InSet(m, back)' = InSet(m, back)
          /\ Count(m, held)' = Count(m, held) /\ InPipe(m)' = InPipe(m) /\ AtScanner(m)' = AtScanner(m)
      BY <1>1 DEF InTurnOf, InSet, Count, AtScanner, InPipe
    <2>2. CountIn(queue', {m}) = CountIn(queue, {m}) + (IF j \in {m} THEN 1 ELSE 0)
      BY <1>1, <1>4, CountAppend
    <2>3. Count(m, queue) = CountIn(queue, {m})
      BY PlacesBefore
    <2>4. Count(m, queue)' = CountIn(queue', {m})
      BY PlacesAfter
    <2>. QED BY <2>1, <2>2, <2>3, <2>4, NumbersBefore, NumbersAfter DEF Total
  <1>7. ASSUME NEW m \in Msg \union News PROVE Total(m)' <= 1 /\ (m # j => Total(m)' = Total(m))
    <2>1. CASE m = j
      <3>1. Total(m)' = Total(m) + 1 /\ Total(m) = 0
        BY <1>3, <1>6, <2>1
      <3>. QED BY <2>1, <3>1
    <2>2. CASE m # j
      <3>1. Total(m)' = Total(m) + 0 /\ Total(m) <= 1
        BY <1>6, <2>2 DEF PlaceInv
      <3>. QED BY <1>5, <3>1
    <2>. QED BY <2>1, <2>2
  <1>8. \A m \in Msg : m # j
    BY TurnsAssumption DEF Msg, News
  <1>9. \A n \in Range(queue) \union {j} : n \in Range(queue')
    BY <1>1, <1>4 DEF Range
  <1>. QED BY <1>1, <1>2, <1>7, <1>8, <1>9 DEF PlaceInv

\* The loop's message stays with it, or is dropped by it.
LEMMA InHandKept ==
  ASSUME LoopTypes, loop'.msg \in {loop.msg, 0}
  PROVE  \A m \in Msg \union News : InTurnOf(m)' <= InTurnOf(m)
  <1>. SUFFICES ASSUME NEW m \in Msg \union News PROVE InTurnOf(m)' <= InTurnOf(m)
    OBVIOUS
  <1>1. m # 0
    BY TurnsAssumption DEF Msg, News
  <1>2. CASE loop'.msg = loop.msg
    BY <1>2 DEF InTurnOf
  <1>3. CASE loop'.msg = 0
    BY <1>1, <1>3 DEF InTurnOf
  <1>. QED BY <1>2, <1>3

\* At first no message is anywhere.
LEMMA OnceInit == TurnsInit => PlaceInv
  <1>. SUFFICES ASSUME TurnsInit PROVE PlaceInv
    OBVIOUS
  <1>1. InputTypes /\ BufferTypes
    BY TurnTypesInit DEF TurnTypes
  <1>2. ASSUME NEW m \in Msg \union News PROVE Total(m) = 0
    <2>1. m # 0
      BY TurnsAssumption DEF Msg, News
    <2>2. AtScanner(m) = 0 /\ InTurnOf(m) = 0 /\ InSet(m, stored) = 0 /\ InSet(m, back) = 0
      BY <2>1 DEF TurnsInit, AtScanner, Reads, InTurnOf, InSet
    <2>3. pipe = <<>> /\ held = <<>> /\ queue = <<>>
      BY DEF TurnsInit
    <2>4. \A S : PlacesIn(<<>>, S) = {}
      BY DEF PlacesIn
    <2>5. \A S : CountIn(<<>>, S) = 0
      BY <2>4, FS_EmptySet DEF CountIn
    <2>6. InPipe(m) = 0 /\ Count(m, held) = 0 /\ Count(m, queue) = 0
      BY <1>1, <2>3, <2>5, PlacesBefore
    <2>. QED BY <2>2, <2>6 DEF Total
  <1>3. \A n \in News : jobs[n] = "none"
    BY DEF TurnsInit
  <1>. QED BY <1>2, <1>3 DEF PlaceInv

\* Each action moves a message at most.
LEMMA OnceKept ==
  ASSUME TurnTypes, TurnTypes', PlaceInv, [TurnsNext]_turnsVars
  PROVE  PlaceInv'
  <1>0. InputTypes /\ BufferTypes /\ LoopTypes /\ InputTypes' /\ BufferTypes' /\ LoopTypes'
    BY DEF TurnTypes
  <1>1. loop = [at |-> loop.at, kind |-> loop.kind, msg |-> loop.msg]
    BY <1>0 DEF LoopTypes
  <1>2. "routed" \in Holding /\ "offers" \in Holding /\ "holds" \in Holding
        /\ "read" \notin Holding /\ "signals" \notin Holding /\ "answers" \notin Holding /\ "done" \notin Holding
    BY DEF Holding
  <1>3. ASSUME UNCHANGED <<written, pipe, held, queue, stored, back, jobs>>,
               scanner' = scanner \/ scanner'.at \notin Holding, loop'.msg \in {loop.msg, 0}
        PROVE  PlaceInv'
    BY <1>0, <1>3, InHandKept, StaysOnce
  <1>4. CASE UNCHANGED turnsVars
    BY <1>3, <1>4 DEF turnsVars, clients, stream, buffer, convo, driver
  <1>5. CASE Writes
    BY <1>0, <1>5, WritesOnce
  <1>6. CASE HearsUser \/ HearsImage
    <2>1. PICK kind \in {"user", "image"} : Hears(kind) /\ scanner'.msg = Head(pipe).id
      BY <1>6 DEF HearsUser, HearsImage
    <2>2. UNCHANGED <<loop, held, queue, stored, back, jobs>>
      BY <1>6 DEF HearsUser, HearsImage, buffer, convo, driver
    <2>. QED BY <1>0, <2>1, <2>2, HearsOnce
  <1>7. CASE HearsAnswer \/ HearsInterrupt \/ HearsEnd
    <2>1. PICK kind : Hears(kind) /\ scanner'.at \notin Holding
      <3>1. CASE HearsAnswer
        BY <1>2, <3>1 DEF HearsAnswer
      <3>2. CASE HearsInterrupt
        BY <1>2, <3>2 DEF HearsInterrupt, Hears, stream
      <3>3. CASE HearsEnd
        BY <1>2, <3>3 DEF HearsEnd
      <3>. QED BY <1>7, <3>1, <3>2, <3>3
    <2>2. UNCHANGED <<loop, held, queue, stored, back, jobs>>
      BY <1>7 DEF HearsAnswer, HearsInterrupt, HearsEnd, stream, buffer, convo, driver
    <2>. QED BY <1>0, <2>1, <2>2, HearsOnce
  <1>8. CASE HearsUnqueue
    BY <1>0, <1>8, UnqueueOnce
  <1>9. CASE Says
    <2>1. scanner.at \in Holding /\ scanner'.at \notin Holding /\ queue' = Append(queue, scanner.msg)
          /\ UNCHANGED <<written, pipe, stored, back, jobs, held, loop>>
      BY <1>2, <1>9 DEF Says, Reads, clients, convo, driver
    <2>. QED BY <1>0, <2>1, HandOnce
  <1>10. CASE Holds
    <2>1. scanner.at \in Holding /\ scanner'.at \notin Holding /\ held' = Append(held, scanner.msg)
          /\ UNCHANGED <<written, pipe, stored, back, jobs, queue, loop>>
      BY <1>2, <1>10 DEF Holds, clients, buffer, convo, driver
    <2>. QED BY <1>0, <2>1, HandOnce
  <1>11. CASE Signals
    <2>1. UNCHANGED <<written, pipe, held, queue, stored, back, jobs, loop>> /\ scanner'.at \notin Holding
      BY <1>2, <1>11 DEF Signals, Reads, clients, buffer, convo, driver
    <2>. QED BY <1>3, <2>1
  <1>12. CASE TakesHeld
    <2>1. UNCHANGED <<written, pipe, scanner, queue, stored, back, jobs>> /\ held # <<>> /\ held' = Tail(held)
          /\ loop'.msg = Head(held)
      BY <1>12 DEF TakesHeld, Begins, SameTurn, clients, buffer, convo
    <2>. QED BY <1>0, <2>1, TakesOnce
  <1>13. CASE SelectsUser
    <2>1. UNCHANGED <<written, pipe, stored, back, jobs, held, queue>> /\ scanner.at \in Holding
          /\ scanner'.at \notin Holding /\ loop'.msg = scanner.msg
      BY <1>2, <1>13 DEF SelectsUser, Begins, Reads, SameTurn, clients, buffer, convo
    <2>. QED BY <1>0, <2>1, HandOnce
  <1>14. CASE FindsNoneHeld \/ LooksForPending \/ SelectsHeld \/ SelectsClosed \/ SelectsWake \/ DrainLooks
              \/ DrainWakes \/ DrainEnds
    <2>1. SameTurn /\ UNCHANGED <<scanner, held>>
      BY <1>14 DEF FindsNoneHeld, LooksForPending, SelectsHeld, SelectsClosed, SelectsWake,
         DrainLooks,
                   DrainWakes, DrainEnds, stream
    <2>2. loop'.msg \in {loop.msg, 0}
      BY <1>1, <1>14 DEF FindsNoneHeld, LooksForPending, SelectsHeld, SelectsClosed, SelectsWake,
         DrainLooks,
                   DrainWakes, DrainEnds, To, Begins
    <2>. QED BY <1>3, <2>1, <2>2 DEF SameTurn, clients, buffer, convo
  <1>15. CASE TurnBegins \/ Interruptible \/ TurnReturns \/ TurnEnds
    <2>1. UNCHANGED <<clients, stream, buffer, convo, jobs>>
      BY <1>15 DEF TurnBegins, Interruptible, TurnReturns, TurnEnds
    <2>2. loop'.msg = loop.msg
      BY <1>1, <1>15 DEF TurnBegins, Interruptible, TurnReturns, TurnEnds, To
    <2>. QED BY <1>3, <2>1, <2>2 DEF clients, stream, buffer, convo
  <1>16. CASE RoundReplies \/ RoundCallsTool \/ RoundFails \/ ToolAsks \/ AskIsAnswered \/ AskIsCut
              \/ ToolReturns \/ RoundFollows
    <2>1. InTurn /\ UNCHANGED <<jobs, held>> /\ (scanner' = scanner \/ scanner'.at \notin Holding)
      BY <1>2, <1>16 DEF RoundReplies, RoundCallsTool, RoundFails, ToolAsks, AskIsAnswered,
         AskIsCut,
                         ToolReturns, RoundFollows, stream, Reads
    <2>2. loop'.msg = loop.msg
      BY <1>1, <1>16 DEF RoundReplies, RoundCallsTool, RoundFails, ToolAsks, AskIsAnswered,
         AskIsCut,
                         ToolReturns, RoundFollows, To
    <2>. QED BY <1>3, <2>1, <2>2 DEF InTurn, clients, buffer, convo
  <1>17. CASE Prepares
    <2>1. PICK more : more = IF loop.kind = "user" THEN {loop.msg} ELSE {}
      OBVIOUS
    <2>2. Flush(more) /\ loop'.msg = 0 /\ UNCHANGED <<clients, stream, back, jobs>>
      BY <1>1, <1>17, <2>1 DEF Prepares
    <2>3. stored' = stored \union Range(queue) \union more /\ queue' = <<>>
      BY <2>2 DEF Flush
    <2>4. ASSUME NEW m \in Msg \union News
          PROVE  IF m \in more THEN InTurnOf(m) = 1 /\ InTurnOf(m)' = 0 ELSE InTurnOf(m)' <= InTurnOf(m)
      <3>1. m # 0
        BY TurnsAssumption DEF Msg, News
      <3>2. InTurnOf(m)' = 0 /\ (m \in more => InTurnOf(m) = 1)
        BY <2>1, <2>2, <3>1 DEF InTurnOf
      <3>3. InTurnOf(m) \in Nat
        BY DEF InTurnOf
      <3>. QED BY <3>2, <3>3
    <2>. QED BY <1>0, <2>2, <2>3, <2>4, FlushOnce DEF clients, stream
  <1>18. CASE Attempts \/ Lifts
    <2>1. stored' = stored \union Range(queue) \union {} /\ queue' = <<>>
          /\ UNCHANGED <<clients, stream, back, jobs>>
      BY <1>18 DEF Attempts, Lifts
    <2>2. loop'.msg = loop.msg
      BY <1>1, <1>18 DEF Attempts, Lifts, To
    <2>3. ASSUME NEW m \in Msg \union News PROVE InTurnOf(m)' <= InTurnOf(m)
      BY <1>0, <2>2, InHandKept
    <2>. QED BY <1>0, <2>1, <2>3, FlushOnce DEF clients, stream
  <1>19. CASE ToolStartsJob
    <2>1. PICK j \in News : jobs[j] = "none" /\ jobs' = [jobs EXCEPT ![j] = "running"]
      BY <1>19 DEF ToolStartsJob
    <2>2. InTurn /\ UNCHANGED <<stream, loop>>
      BY <1>19 DEF ToolStartsJob
    <2>3. \A n \in News : jobs'[n] \in {"said", "done"} <=> jobs[n] \in {"said", "done"}
      BY <1>0, <2>1 DEF LoopTypes
    <2>4. \A m \in Msg \union News : InTurnOf(m)' <= InTurnOf(m)
      BY <1>0, <2>2, InHandKept
    <2>. QED BY <1>0, <2>2, <2>3, <2>4, StaysOnce DEF InTurn, stream, clients, buffer, convo
  <1>20. CASE JobStep
    <2>1. PICK j \in News : JobEnds(j) \/ JobNotifies(j) \/ JobWakes(j)
      BY <1>20 DEF JobStep
    <2>2. CASE JobNotifies(j)
      BY <1>0, <2>2, NotesOnce
    <2>3. CASE JobEnds(j) \/ JobWakes(j)
      <3>1. UNCHANGED <<clients, stream, back, convo, driver, queue>>
        BY <2>3 DEF JobEnds, JobWakes, JobMoves
      <3>2. \/ jobs[j] = "running" /\ jobs' = [jobs EXCEPT ![j] = "ended"]
            \/ jobs[j] = "said" /\ jobs' = [jobs EXCEPT ![j] = "done"]
        BY <2>3 DEF JobEnds, JobWakes, JobMoves
      <3>3. \A n \in News : jobs'[n] \in {"said", "done"} <=> jobs[n] \in {"said", "done"}
        BY <1>0, <3>2 DEF LoopTypes
      <3>4. \A m \in Msg \union News : InTurnOf(m)' <= InTurnOf(m)
        BY <1>0, <3>1, InHandKept DEF driver
      <3>. QED BY <1>0, <3>1, <3>3, <3>4, StaysOnce DEF stream, clients, convo
    <2>. QED BY <2>1, <2>2, <2>3
  <1>. QED BY <1>4, <1>5, <1>6, <1>7, <1>8, <1>9, <1>10, <1>11, <1>12, <1>13, <1>14, <1>15, <1>16, <1>17,
              <1>18, <1>19, <1>20 DEF TurnsNext, ScannerStep, LoopStep, TurnStep

-----------------------------------------------------------------------------
(* The end of the input *)

\* At first the input has not ended.
LEMMA DrainInit == TurnsInit => DrainInv
  BY DEF TurnsInit, DrainInv, Draining

\* The loop has drained what was held before it waits for no more.
LEMMA DrainKept ==
  ASSUME TurnTypes, DrainInv, [TurnsNext]_turnsVars
  PROVE  DrainInv'
  <1>0. closed \in {"no", "eof", "stop"} /\ loop = [at |-> loop.at, kind |-> loop.kind, msg |-> loop.msg]
    BY DEF TurnTypes, InputTypes, LoopTypes
  <1>1. CASE UNCHANGED turnsVars
    BY <1>1 DEF turnsVars, clients, stream, buffer, convo, driver, DrainInv, Draining, Pending
  <1>2. CASE Writes
    BY <1>2 DEF Writes, stream, buffer, convo, driver, DrainInv, Draining, Pending
  <1>3. CASE ScannerStep
    <2>1. UNCHANGED <<loop, usersNil, fresh>>
      BY <1>3 DEF ScannerStep, HearsUser, Says, HearsImage, Holds, Signals, HearsAnswer,
         HearsInterrupt,
                  HearsUnqueue, HearsEnd, driver, convo
    <2>2. scanner.at # "done"
      BY <1>3 DEF ScannerStep, HearsUser, Says, HearsImage, Holds, Signals, HearsAnswer,
         HearsInterrupt,
                  HearsUnqueue, HearsEnd, Hears
    <2>3. closed = "no" /\ usersNil = FALSE /\ loop.at \notin Draining
      BY <2>2 DEF DrainInv, TurnTypes, LoopTypes
    <2>4. closed' # "no" => scanner'.at = "done"
      BY <1>3, <2>3 DEF ScannerStep, HearsUser, Says, HearsImage, Holds, Signals, HearsAnswer,
         HearsInterrupt,
                        HearsUnqueue, HearsEnd, stream
    <2>. QED BY <2>1, <2>3, <2>4 DEF DrainInv, Draining
  <1>4. CASE TakesHeld
    <2>1. loop'.at = "begin" /\ UNCHANGED <<scanner, closed, usersNil>>
      BY <1>4 DEF TakesHeld, Begins
    <2>. QED BY <2>1 DEF DrainInv, Draining
  <1>5. CASE FindsNoneHeld
    <2>1. loop'.at = "pend" /\ held = <<>> /\ UNCHANGED <<stream, usersNil>>
      BY <1>0, <1>5 DEF FindsNoneHeld, To
    <2>. QED BY <2>1 DEF DrainInv, Draining, stream
  <1>6. CASE LooksForPending
    <2>1. loop.at = "pend" /\ UNCHANGED <<stream, usersNil>>
          /\ loop'.at \in {"begin"} \union (IF usersNil THEN {"drain"} ELSE {"select"})
      BY <1>0, <1>6 DEF LooksForPending, To, Begins
    <2>. QED BY <2>1 DEF DrainInv, Draining, stream
  <1>7. CASE SelectsHeld \/ SelectsWake
    <2>1. loop'.at \in {"top", "begin"} /\ UNCHANGED <<scanner, closed, held, usersNil>>
      BY <1>0, <1>7 DEF SelectsHeld, SelectsWake, To, Begins, stream
    <2>. QED BY <2>1 DEF DrainInv, Draining
  <1>8. CASE SelectsUser
    <2>1. loop'.at = "begin" /\ UNCHANGED <<closed, held, usersNil>> /\ scanner.at = "offers"
      BY <1>8 DEF SelectsUser, Begins
    <2>. QED BY <2>1 DEF DrainInv, Draining
  <1>9. CASE SelectsClosed
    <2>1. loop'.at \in {"top", "stopped"} /\ closed # "no" /\ UNCHANGED stream
      BY <1>0, <1>9 DEF SelectsClosed, To
    <2>. QED BY <2>1 DEF DrainInv, Draining, stream
  <1>10. CASE DrainLooks \/ DrainWakes
    <2>1. loop.at \in {"drain", "drainwait", "drainwake"} /\ UNCHANGED <<stream, usersNil>>
          /\ loop'.at \in {"drainwait", "drainwake", "drainpend", "begin"}
      BY <1>0, <1>10 DEF DrainLooks, DrainWakes, To, Begins
    <2>. QED BY <2>1 DEF DrainInv, Draining, stream
  <1>11. CASE DrainEnds
    <2>1. loop.at = "drainpend" /\ UNCHANGED <<stream, usersNil, queue, fresh>>
          /\ loop'.at \in {"drained", "begin"} /\ (loop'.at = "drained" => ~Pending)
      BY <1>0, <1>11 DEF DrainEnds, To, Begins, SameTurn, buffer, convo
    <2>. QED BY <2>1 DEF DrainInv, Draining, stream, Pending
  <1>12. CASE TurnStep
    <2>1. loop.at \notin Draining /\ loop.at # "pend" /\ UNCHANGED <<closed, held, usersNil>>
      BY <1>12 DEF TurnStep, TurnBegins, Interruptible, Prepares, Attempts, RoundReplies,
         RoundCallsTool,
                   RoundFails, ToolStartsJob, ToolAsks, AskIsAnswered, AskIsCut, ToolReturns, Lifts,
                   RoundFollows, TurnReturns, TurnEnds, InTurn, stream, Draining
    <2>2. loop'.at \notin Draining /\ loop'.at # "pend"
      <3>1. CASE TurnBegins \/ Interruptible \/ Prepares \/ Attempts \/ RoundReplies \/ RoundCallsTool
                 \/ RoundFails
        BY <1>0, <3>1 DEF TurnBegins, Interruptible, Prepares, Attempts, RoundReplies,
           RoundCallsTool,
                          RoundFails, To, Draining
      <3>2. CASE ToolStartsJob
        BY <2>1, <3>2 DEF ToolStartsJob
      <3>3. CASE ToolAsks \/ AskIsAnswered \/ AskIsCut \/ ToolReturns \/ Lifts \/ RoundFollows
                 \/ TurnReturns \/ TurnEnds
        BY <1>0, <3>3 DEF ToolAsks, AskIsAnswered, AskIsCut, ToolReturns, Lifts, RoundFollows,
           TurnReturns,
                          TurnEnds, To, Draining
      <3>. QED BY <1>12, <3>1, <3>2, <3>3 DEF TurnStep
    <2>3. scanner' = scanner \/ scanner.at = "answers"
      BY <1>12 DEF TurnStep, TurnBegins, Interruptible, Prepares, Attempts, RoundReplies,
         RoundCallsTool,
                   RoundFails, ToolStartsJob, ToolAsks, AskIsAnswered, AskIsCut, ToolReturns, Lifts,
                   RoundFollows, TurnReturns, TurnEnds, InTurn, stream
    <2>. QED BY <2>1, <2>2, <2>3 DEF DrainInv, Draining
  <1>13. CASE JobStep
    <2>1. UNCHANGED <<stream, driver, fresh>> /\ loop.at # "drained"
      BY <1>13 DEF JobStep, JobEnds, JobNotifies, JobWakes, JobMoves, Gone, convo
    <2>. QED BY <2>1 DEF DrainInv, Draining, stream, driver
  <1>. QED BY <1>1, <1>2, <1>3, <1>4, <1>5, <1>6, <1>7, <1>8, <1>9, <1>10, <1>11, <1>12, <1>13
       DEF TurnsNext, LoopStep

THEOREM TurnsInductive == TurnsSpec => []TurnsInv
  <1>1. TurnsInit => TurnsInv
    BY TurnTypesInit, OnceInit, DrainInit DEF TurnsInv
  <1>2. TurnsInv /\ [TurnsNext]_turnsVars => TurnsInv'
    <2>. SUFFICES ASSUME TurnsInv, [TurnsNext]_turnsVars PROVE TurnsInv'
      OBVIOUS
    <2>1. TurnTypes'
      BY TurnTypesKept DEF TurnsInv
    <2>2. PlaceInv'
      BY <2>1, OnceKept DEF TurnsInv
    <2>3. DrainInv'
      BY DrainKept DEF TurnsInv
    <2>. QED BY <2>1, <2>2, <2>3 DEF TurnsInv
  <1>. QED BY <1>1, <1>2, PTL DEF TurnsSpec

\* A job's note that is somewhere was made.
LEMMA OnceIsTyped == TurnTypes /\ PlaceInv => TypeOK
  <1>. SUFFICES ASSUME TurnTypes, PlaceInv PROVE TypeOK
    OBVIOUS
  <1>0. InputTypes /\ BufferTypes /\ LoopTypes
    BY DEF TurnTypes
  <1>1. /\ written \in 0..MaxLines /\ asked \in 0..MaxAsks /\ fails \in 0..MaxFails
        /\ \A b \in {left, heldSig, wake, usersNil, auto, active, cancel, interrupting, cut, failed} : b \in BOOLEAN
        /\ fresh \subseteq stored
    BY <1>0 DEF InputTypes, BufferTypes, LoopTypes
  <1>2. scanner.at \in {"read", "routed", "offers", "holds", "signals", "answers", "done"}
    BY <1>0 DEF InputTypes, Holding
  <1>3. loop.kind \in {"none", "user", "continue", "drain"}
    BY <1>0 DEF LoopTypes
  <1>4. \A m \in Msg \union News :
          InPipe(m) + AtScanner(m) + InTurnOf(m) + Count(m, held) + Count(m, queue)
            + InSet(m, stored) + InSet(m, back) <= 1
    BY DEF PlaceInv, Total
  <1>5. ASSUME NEW n \in News, n \in Range(queue) \union stored
        PROVE  jobs[n] \in {"said", "done"}
    <2>1. Total(n) # 0
      <3>1. /\ InPipe(n) \in Nat /\ Count(n, held) \in Nat /\ Count(n, queue) \in Nat
            /\ AtScanner(n) \in Nat /\ InTurnOf(n) \in Nat /\ InSet(n, stored) \in Nat
            /\ InSet(n, back) \in Nat
        BY <1>0, NumbersBefore
      <3>2. Count(n, queue) # 0 \/ InSet(n, stored) # 0
        BY <1>0, <1>5, BufferedBefore DEF InSet
      <3>3. Total(n) = InPipe(n) + AtScanner(n) + InTurnOf(n) + Count(n, held) + Count(n, queue)
                         + InSet(n, stored) + InSet(n, back)
        BY DEF Total
      <3>4. PICK a \in Nat : a = InPipe(n) + AtScanner(n) + InTurnOf(n) + Count(n, held)
        BY <3>1
      <3>5. PICK b \in Nat, c \in Nat, d \in Nat :
              b = Count(n, queue) /\ c = InSet(n, stored) /\ d = InSet(n, back)
        BY <3>1
      <3>6. Total(n) = a + b + c + d
        BY <3>3, <3>4, <3>5
      <3>7. b # 0 \/ c # 0
        BY <3>2, <3>5
      <3>8. a + b + c + d # 0
        BY <3>7
      <3>. QED BY <3>6, <3>8
    <2>. QED BY <2>1 DEF PlaceInv
  <1>6. \A m \in Range(queue) : m \in Msg \union News
    BY <1>0 DEF BufferTypes, Range
  <1>. QED BY <1>1, <1>2, <1>3, <1>4, <1>5, <1>6 DEF TypeOK, PlaceInv, IsUser, IsNews

\* A message, and a job's note, is in one place.
THEOREM MessagesOnce == TurnsSpec => []TypeOK
  BY TurnsInductive, OnceIsTyped, PTL DEF TurnsInv

\* An engine that drained leaves nothing.
THEOREM NothingLeftSaid == TurnsSpec => []LeavesNothingSaid
  <1>1. TurnsInv => LeavesNothingSaid
    <2>. SUFFICES ASSUME TurnsInv, loop.at = "drained" PROVE held = <<>> /\ \A m \in Msg : ~Waits(m)
      BY DEF LeavesNothingSaid
    <2>1. held = <<>> /\ ~Pending
      BY DEF TurnsInv, DrainInv, Draining
    <2>2. Range(queue) = {} /\ fresh = {}
      BY <2>1 DEF Pending, Range
    <2>. QED BY <2>1, <2>2 DEF Waits
  <1>. QED BY <1>1, TurnsInductive, PTL
=============================================================================

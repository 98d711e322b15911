--------------------------- MODULE Upgrade_proofs ---------------------------
(***************************************************************************)
(* Theorems about Upgrade, for any sessions, requests, work and starts: a  *)
(* planned stop leaves a note of each session it cut, a failed upgrade     *)
(* leaves none told to wrap up, and a note is sent once.  A promise to a   *)
(* session is kept by its note, or by whoever is on the way to write or to *)
(* revoke it; the invariant says who that can be, and that a stop that     *)
(* went over a session is alone at it, or the session is in overlap.       *)
(***************************************************************************)
EXTENDS Upgrade, TLAPS

\* Steps of a loop that still means to install; those that undo a failed one;
\* and those of a stop, of a loop or of main.
Heading == {"look", "notice", "tell", "install", "prepare", "save", "ready"}
Failing == {"failing", "carry"}
Stopping == {"prepare", "save", "ready", "close"}

\* The state is of its types.
StepTypes ==
  /\ at \in [Worker -> {"off"} \union Heading \union Failing \union Stopping]
  /\ at["main"] \in {"off", "prepare", "save", "close"}
  /\ \A l \in Loop : at[l] # "close"
  /\ todo \in [Worker -> SUBSET Sess] /\ found \in [Worker -> SUBSET Sess]
  /\ cur \in [Worker -> SUBSET Sess]
  /\ prep \in [Worker -> [Sess -> {"none", "begin", "done"}]]

SessTypes ==
  /\ work \in [Sess -> {"idle", "turn", "job"}]
  /\ live \subseteq Sess /\ noticed \subseteq Sess /\ midturn \subseteq Sess
  /\ resume \in [Sess -> Note] /\ disk \in [Sess -> Note]
  /\ owed \in [Sess -> {"nothing", "wake", "resume"}]
  /\ overlap \subseteq Sess

LifeTypes ==
  /\ wake \in [left : SUBSET Sess, at : SUBSET Sess, step : {"done", "read", "send", "clear"}]
  /\ phase \in {"up", "down", "crashed"} /\ upgraded \in BOOLEAN
  /\ state \in {"none", "pending", "restarting"}

\* One loop heads for an install, and something is pending while it does.
HeadingInv ==
  /\ \A l \in Loop : at[l] \in Heading => state # "none"
  /\ \A l, m \in Loop : at[l] \in Heading /\ at[m] \in Heading => l = m

\* The wake-up is at one session, and once that got its note it is owed nothing.
WakeInv ==
  /\ \A s, t \in wake.at : s = t
  /\ wake.step = "clear" => \A s \in wake.at \ overlap : owed[s] = "nothing"

\* Who was noticed is told, or to be told it is off; nobody is passed over.
NoticeInv ==
  /\ noticed \subseteq live
  /\ \A s \in noticed : state # "none" \/ \E l \in Loop : at[l] \in Failing /\ s \in todo[l]
  /\ \A s \in noticed \ overlap : s \notin wake.left \union wake.at

CurInv ==
  /\ \A l \in Loop : cur[l] \subseteq live
  /\ \A l \in Loop : \A s, t \in cur[l] : s = t
  /\ \A l \in Loop : at[l] = "tell" => cur[l] \subseteq noticed \union overlap
  /\ \A l, m \in Loop : at[l] = "tell" /\ at[m] \in Failing => cur[l] \intersect todo[m] \subseteq overlap

\* How far a stop is.
PrepInv ==
  /\ \A w \in Worker : at[w] \in {"save", "ready", "close"} => todo[w] = {}
  /\ at["main"] = "off" => todo["main"] = {} /\ found["main"] = {}
  /\ \A w \in Worker : at[w] = "prepare" => found[w] \intersect todo[w] = {}
  /\ \A w \in Worker, s \in Sess : prep[w][s] = "begin" => at[w] = "prepare" /\ s \in found[w]
  /\ upgraded => at["main"] = "close"

PastLook(w, s) == at[w] \in Stopping /\ s \notin todo[w]

\* A stop that went over s is alone at it.
AloneInv ==
  \A w \in Worker, s \in Sess \ overlap : PastLook(w, s) =>
    /\ s \notin wake.left \union wake.at
    /\ \A v \in Worker \ {w} : at[v] \in Stopping => s \in todo[v]
    /\ \A l \in Loop : at[l] = "carry" => s \notin cur[l]

\* Who was at rest when a stop looked still is.
RestInv ==
  \A w \in Worker, s \in Sess \ overlap :
    at[w] = "prepare" /\ s \notin todo[w] \union found[w] => s \notin Working

\* A promise has its note, or somebody who is on the way to write or to revoke it.
Cutting(s) == \E w \in Worker : prep[w][s] = "begin"
Revoking(s) == \E l \in Loop : at[l] = "carry" /\ s \in cur[l]
Noted(s) ==
  /\ owed[s] = "resume" => resume[s] # "" \/ Cutting(s)
  /\ owed[s] = "wake" => resume[s] # "" \/ s \in noticed \/ Revoking(s)
NotedInv == \A s \in Sess \ overlap : Noted(s)

\* The worker's stop is an upgrade's.
Upgrades(w) == w \in Loop \/ upgraded

Wrapped == {"install", "prepare", "save", "ready", "close"}

\* From its install on, an upgrade has noted all it noticed.
WrappedInv ==
  \A w \in Worker :
    at[w] \in Wrapped /\ Upgrades(w) =>
      \A s \in noticed \ overlap : resume[s] # ""

Promised(w, s) == owed[s] = "resume" \/ (owed[s] = "wake" /\ Upgrades(w))

\* What a stop promised is in the file when it is done.
FileInv ==
  \A w \in Worker : at[w] \in {"ready", "close"} =>
    \A s \in Sess \ overlap : Promised(w, s) => disk[s] # ""

UpInv ==
  /\ HeadingInv /\ WakeInv /\ NoticeInv /\ CurInv /\ PrepInv
  /\ AloneInv /\ RestInv /\ NotedInv /\ WrappedInv /\ FileInv

\* Between two processes only the file and what is owed count.
DownInv ==
  /\ \A w \in Worker : at[w] = "off" /\ todo[w] = {} /\ found[w] = {} /\ cur[w] = {}
  /\ prep = NoPrep
  /\ \A s \in Sess \ overlap : owed[s] = "nothing" \/ disk[s] # ""

Types == StepTypes /\ SessTypes /\ LifeTypes

\* The inductive invariant.
IInv ==
  /\ Types /\ SentOnce
  /\ phase = "up" => UpInv
  /\ phase # "up" => DownInv

-----------------------------------------------------------------------------
(* Types                                                                     *)

LEMMA Workers == Loop \subseteq Worker /\ "main" \in Worker /\ "main" \notin Loop
BY DEF Worker, Loop

LEMMA OffTypes ==
  ASSUME NEW how, EndsHow(how)
  PROVE  StepTypes'
BY DEF EndsHow, StepTypes, Nobody, NoPrep, Worker, Loop

\* Where everybody is.
LEMMA StepTypesP ==
  ASSUME StepTypes, [Next]_vars
  PROVE  StepTypes'
<1>1. ASSUME UNCHANGED <<at, todo, found, cur, prep>> PROVE StepTypes'
  BY <1>1 DEF StepTypes
<1>2. CASE UNCHANGED vars
  BY <1>1, <1>2 DEF vars, up, loops, sessions, file, life
<1>3. ASSUME NEW s \in Sess,
           \/ BeginWork(s) \/ EndWork(s) \/ WakeReads(s) \/ WakeSends(s) \/ WakeFails(s)
           \/ WakeClears(s)
    PROVE  StepTypes'
  BY <1>1, <1>3 DEF BeginWork, EndWork, WakeReads, WakeSends, WakeFails, WakeClears, up, loops,
     sessions, file, life
<1>4. CASE OtherSave \/ New \/ WakeEnds
  BY <1>1, <1>4 DEF OtherSave, SaveRegistry, New, WakeEnds, up, loops, sessions, file, life
<1>5. CASE RequestUpgrade
  BY <1>5 DEF StepTypes, Heading, Failing, Stopping, Worker, Loop, RequestUpgrade, Scans, Goes,
     up, loops, sessions, file, life
<1>6. ASSUME NEW l \in Loop, NEW s \in Sess, LoopLooks(l, s) PROVE StepTypes'
  BY <1>6 DEF StepTypes, Heading, Failing, Stopping, Worker, Loop, LoopLooks, Drop, up, loops,
     sessions, file, life
<1>7. ASSUME NEW l \in Loop, LoopGoesOn(l) PROVE StepTypes'
  BY <1>7 DEF StepTypes, Heading, Failing, Stopping, Worker, Loop, LoopGoesOn, Scans, Goes,
     Touches, up, loops, sessions, file, life
<1>8. ASSUME NEW l \in Loop, LoopWaits(l) PROVE StepTypes'
  BY <1>8 DEF StepTypes, Heading, Failing, Stopping, Worker, Loop, LoopWaits, Scans, Goes, up,
     loops, sessions, file, life
<1>9. ASSUME NEW l \in Loop, NEW s \in Sess, NoticeMarks(l, s) PROVE StepTypes'
  BY <1>9 DEF StepTypes, Heading, Failing, Stopping, Worker, Loop, NoticeMarks, Drop, Goes,
     Touches, up, loops, sessions, file, life
<1>10. ASSUME NEW l \in Loop, NEW s \in Sess, NoticeTells(l, s) PROVE StepTypes'
  BY <1>10 DEF StepTypes, Heading, Failing, Stopping, Worker, Loop, NoticeTells, Goes, Touches,
     up, loops, sessions, file, life
<1>11. ASSUME NEW l \in Loop, LoopSleeps(l) PROVE StepTypes'
  BY <1>11 DEF StepTypes, Heading, Failing, Stopping, Worker, Loop, LoopSleeps, Scans, Goes, up,
     loops, sessions, file, life
<1>12. ASSUME NEW l \in Loop, LoopInstalls(l) PROVE StepTypes'
  BY <1>12 DEF StepTypes, Heading, Failing, Stopping, Worker, Loop, LoopInstalls, Scans, Goes,
     up, loops, sessions, file, life
<1>13. ASSUME NEW l \in Loop, LoopFails(l) PROVE StepTypes'
  BY <1>13 DEF StepTypes, Heading, Failing, Stopping, Worker, Loop, LoopFails, Scans, Goes, up,
     loops, sessions, file, life
<1>14. ASSUME NEW l \in Loop, NEW s \in Sess, FailForgets(l, s) PROVE StepTypes'
  <2>1. /\ todo' \in [Worker -> SUBSET Sess] /\ UNCHANGED <<found, prep>>
        /\ \/ at' = [at EXCEPT ![l] = "carry"] /\ cur' = [cur EXCEPT ![l] = {s}]
           \/ UNCHANGED <<at, cur>>
    BY <1>14, Workers DEF FailForgets, Drop, Goes, StepTypes
  <2> QED
    BY <2>1 DEF StepTypes, Heading, Failing, Stopping, Worker, Loop
<1>15. ASSUME NEW l \in Loop, NEW s \in Sess, FailTells(l, s) PROVE StepTypes'
  BY <1>15 DEF StepTypes, Heading, Failing, Stopping, Worker, Loop, FailTells, Goes, up, loops,
     sessions, file, life
<1>16. ASSUME NEW l \in Loop, FailEnds(l) PROVE StepTypes'
  BY <1>16 DEF StepTypes, Heading, Failing, Stopping, Worker, Loop, FailEnds, Goes, up, loops,
     sessions, file, life
<1>17. ASSUME NEW w \in Worker, NEW s \in Sess, PrepareLooks(w, s) PROVE StepTypes'
  BY <1>17 DEF StepTypes, Heading, Failing, Stopping, Worker, Loop, PrepareLooks, Drop, Touches,
     up, loops, sessions, file, life
<1>18. ASSUME NEW w \in Worker, NEW s \in Sess, PrepareSets(w, s) PROVE StepTypes'
  BY <1>18 DEF StepTypes, Heading, Failing, Stopping, Worker, Loop, PrepareSets, Touches, up,
     loops, sessions, file, life
<1>19. ASSUME NEW w \in Worker, PrepareJoins(w) PROVE StepTypes'
  BY <1>19 DEF StepTypes, Heading, Failing, Stopping, Worker, Loop, PrepareJoins, Goes,
     Prepared, up, loops, sessions, file, life
<1>20. ASSUME NEW w \in Worker, PrepareSaves(w) PROVE StepTypes'
  BY <1>20 DEF StepTypes, Heading, Failing, Stopping, Worker, Loop, PrepareSaves, Goes,
     Prepared, SaveRegistry, up, loops, sessions, file, life
<1>21. CASE Terminate
  BY <1>21 DEF StepTypes, Heading, Failing, Stopping, Worker, Loop, Terminate, Scans, Goes,
     Touches, up, loops, sessions, file, life
<1>22. ASSUME NEW l \in Loop, TakesReady(l) PROVE StepTypes'
  BY <1>22 DEF StepTypes, Heading, Failing, Stopping, Worker, Loop, TakesReady, up, loops,
     sessions, file, life
<1>23. CASE Stops
  BY <1>23, OffTypes DEF Stops
<1>24. CASE Crash
  BY <1>24, OffTypes DEF Crash
<1> QED
  BY <1>1, <1>2, <1>3, <1>4, <1>5, <1>6, <1>7, <1>8, <1>9, <1>10, <1>11, <1>12, <1>13, <1>14,
     <1>15, <1>16, <1>17, <1>18, <1>19, <1>20, <1>21, <1>22, <1>23, <1>24 DEF Next, LoopStep,
     PrepareStep, WakeStep

\* What is kept of the sessions.
LEMMA SessTypesP ==
  ASSUME SessTypes, [Next]_vars
  PROVE  SessTypes'
<1>1. ASSUME UNCHANGED <<work, live, noticed, midturn, resume, disk, owed, overlap>> PROVE SessTypes'
  BY <1>1 DEF SessTypes
<1>2. CASE UNCHANGED vars
  BY <1>1, <1>2 DEF vars, up, loops, sessions, file, life
<1>3. CASE RequestUpgrade
  BY <1>1, <1>3 DEF RequestUpgrade, Scans, Goes, up, loops, sessions, file, life
<1>4. ASSUME NEW l \in Loop, NEW s \in Sess,
           LoopLooks(l, s)
    PROVE  SessTypes'
  BY <1>1, <1>4 DEF LoopLooks, Drop, up, loops, sessions, file, life
<1>5. ASSUME NEW l \in Loop,
           \/ LoopWaits(l) \/ LoopSleeps(l) \/ LoopInstalls(l) \/ LoopFails(l) \/ FailEnds(l)
           \/ TakesReady(l)
    PROVE  SessTypes'
  BY <1>1, <1>5 DEF LoopWaits, Scans, Goes, LoopSleeps, LoopInstalls, LoopFails, FailEnds,
     TakesReady, up, loops, sessions, file, life
<1>6. ASSUME NEW w \in Worker,
           PrepareJoins(w)
    PROVE  SessTypes'
  BY <1>1, <1>6 DEF PrepareJoins, Goes, Prepared, up, loops, sessions, file, life
<1>7. ASSUME NEW s \in Sess,
           WakeReads(s) \/ WakeFails(s)
    PROVE  SessTypes'
  BY <1>1, <1>7 DEF WakeReads, WakeFails, up, loops, sessions, file, life
<1>8. ASSUME NEW s \in Sess, BeginWork(s) PROVE SessTypes'
  BY <1>8 DEF SessTypes, Note, WrappedUp, BeginWork, up, loops, sessions, file, life
<1>9. ASSUME NEW s \in Sess, EndWork(s) PROVE SessTypes'
  BY <1>9 DEF SessTypes, Note, WrappedUp, EndWork, up, loops, sessions, file, life
<1>10. ASSUME NEW l \in Loop, LoopGoesOn(l) PROVE SessTypes'
  BY <1>10 DEF SessTypes, Note, WrappedUp, LoopGoesOn, Scans, Goes, Touches, up, loops,
     sessions, file, life
<1>11. ASSUME NEW l \in Loop, NEW s \in Sess, NoticeMarks(l, s) PROVE SessTypes'
  BY <1>11 DEF SessTypes, Note, WrappedUp, NoticeMarks, Drop, Goes, Touches, up, loops,
     sessions, file, life
<1>12. ASSUME NEW l \in Loop, NEW s \in Sess, NoticeTells(l, s) PROVE SessTypes'
  BY <1>12 DEF SessTypes, Note, WrappedUp, NoticeTells, Goes, Touches, up, loops, sessions,
     file, life
<1>13. ASSUME NEW l \in Loop, NEW s \in Sess, FailForgets(l, s) PROVE SessTypes'
  BY <1>13 DEF SessTypes, Note, WrappedUp, FailForgets, Drop, Goes, up, loops, sessions, file,
     life
<1>14. ASSUME NEW l \in Loop, NEW s \in Sess, FailTells(l, s) PROVE SessTypes'
  BY <1>14 DEF SessTypes, Note, WrappedUp, FailTells, Goes, up, loops, sessions, file, life
<1>15. ASSUME NEW w \in Worker, NEW s \in Sess, PrepareLooks(w, s) PROVE SessTypes'
  BY <1>15 DEF SessTypes, Note, WrappedUp, PrepareLooks, Drop, Touches, up, loops, sessions,
     file, life
<1>16. ASSUME NEW w \in Worker, NEW s \in Sess, PrepareSets(w, s) PROVE SessTypes'
  BY <1>16 DEF SessTypes, Note, WrappedUp, PrepareSets, Touches, up, loops, sessions, file, life
<1>17. ASSUME NEW w \in Worker, PrepareSaves(w) PROVE SessTypes'
  BY <1>17 DEF SessTypes, Note, WrappedUp, PrepareSaves, Goes, Prepared, SaveRegistry, up,
     loops, sessions, file, life
<1>18. CASE OtherSave
  BY <1>18 DEF SessTypes, Note, WrappedUp, OtherSave, SaveRegistry, up, loops, sessions, file,
     life
<1>19. CASE Terminate
  BY <1>19 DEF SessTypes, Note, WrappedUp, Terminate, Scans, Goes, Touches, up, loops, sessions,
     file, life
<1>20. CASE Stops
  <2>1. work' = [s \in Sess |-> "idle"] /\ live' = {} /\ UNCHANGED <<noticed, resume, disk, overlap>>
    BY <1>20 DEF Stops, EndsHow, file
  <2>2. owed' \in [Sess -> {"nothing", "wake", "resume"}]
    BY <1>20 DEF Stops, SessTypes
  <2>3. midturn' \subseteq Sess
    BY <1>20 DEF Stops, EndsHow, SessTypes, Working
  <2> QED
    BY <2>1, <2>2, <2>3 DEF SessTypes
<1>21. CASE Crash
  <2>1. work' = [s \in Sess |-> "idle"] /\ live' = {} /\ UNCHANGED <<noticed, resume, disk, overlap>>
    BY <1>21 DEF Crash, EndsHow, file
  <2>2. owed' \in [Sess -> {"nothing", "wake", "resume"}]
    BY <1>21 DEF Crash, SessTypes
  <2>3. midturn' \subseteq Sess
    BY <1>21 DEF Crash, EndsHow, SessTypes, Working
  <2> QED
    BY <2>1, <2>2, <2>3 DEF SessTypes
<1>22. CASE New
  BY <1>22 DEF SessTypes, Note, WrappedUp, New, up, loops, sessions, file, life
<1>23. ASSUME NEW s \in Sess, WakeSends(s) PROVE SessTypes'
  BY <1>23 DEF SessTypes, Note, WrappedUp, WakeSends, up, loops, sessions, file, life
<1>24. ASSUME NEW s \in Sess, WakeClears(s) PROVE SessTypes'
  BY <1>24 DEF SessTypes, Note, WrappedUp, WakeClears, up, loops, sessions, file, life
<1>25. CASE WakeEnds
  BY <1>25 DEF SessTypes, Note, WrappedUp, WakeEnds, up, loops, sessions, file, life
<1> QED
  BY <1>1, <1>2, <1>3, <1>4, <1>5, <1>6, <1>7, <1>8, <1>9, <1>10, <1>11, <1>12, <1>13, <1>14,
     <1>15, <1>16, <1>17, <1>18, <1>19, <1>20, <1>21, <1>22, <1>23, <1>24, <1>25 DEF Next,
     LoopStep, PrepareStep, WakeStep

\* What is pending, and the wake-up.
LEMMA LifeTypesP ==
  ASSUME LifeTypes, [Next]_vars
  PROVE  LifeTypes'
<1>1. ASSUME UNCHANGED <<wake, phase, upgraded, state>> PROVE LifeTypes'
  BY <1>1 DEF LifeTypes
<1>2. CASE UNCHANGED vars
  BY <1>1, <1>2 DEF vars, up, loops, sessions, file, life
<1>3. ASSUME NEW s \in Sess,
           BeginWork(s) \/ EndWork(s)
    PROVE  LifeTypes'
  BY <1>1, <1>3 DEF BeginWork, EndWork, up, loops, sessions, file, life
<1>4. ASSUME NEW l \in Loop, NEW s \in Sess,
           \/ LoopLooks(l, s) \/ NoticeMarks(l, s) \/ NoticeTells(l, s) \/ FailForgets(l, s)
           \/ FailTells(l, s)
    PROVE  LifeTypes'
  BY <1>1, <1>4 DEF LoopLooks, Drop, NoticeMarks, Goes, Touches, NoticeTells, FailForgets,
     FailTells, up, loops, sessions, file, life
<1>5. ASSUME NEW l \in Loop,
           LoopWaits(l) \/ LoopSleeps(l) \/ FailEnds(l)
    PROVE  LifeTypes'
  BY <1>1, <1>5 DEF LoopWaits, Scans, Goes, LoopSleeps, FailEnds, up, loops, sessions, file,
     life
<1>6. ASSUME NEW w \in Worker, NEW s \in Sess,
           PrepareLooks(w, s) \/ PrepareSets(w, s)
    PROVE  LifeTypes'
  BY <1>1, <1>6 DEF PrepareLooks, Drop, Touches, PrepareSets, up, loops, sessions, file, life
<1>7. ASSUME NEW w \in Worker,
           PrepareJoins(w) \/ PrepareSaves(w)
    PROVE  LifeTypes'
  BY <1>1, <1>7 DEF PrepareJoins, Goes, Prepared, PrepareSaves, SaveRegistry, up, loops,
     sessions, file, life
<1>8. CASE OtherSave \/ Terminate
  BY <1>1, <1>8 DEF OtherSave, SaveRegistry, Terminate, Scans, Goes, Touches, up, loops,
     sessions, file, life
<1>9. CASE RequestUpgrade
  BY <1>9 DEF LifeTypes, WakeDone, RequestUpgrade, Scans, Goes, up, loops, sessions, file, life
<1>10. ASSUME NEW l \in Loop, LoopGoesOn(l) PROVE LifeTypes'
  BY <1>10 DEF LifeTypes, WakeDone, LoopGoesOn, Scans, Goes, Touches, up, loops, sessions, file,
     life
<1>11. ASSUME NEW l \in Loop, LoopInstalls(l) PROVE LifeTypes'
  BY <1>11 DEF LifeTypes, WakeDone, LoopInstalls, Scans, Goes, up, loops, sessions, file, life
<1>12. ASSUME NEW l \in Loop, LoopFails(l) PROVE LifeTypes'
  BY <1>12 DEF LifeTypes, WakeDone, LoopFails, Scans, Goes, up, loops, sessions, file, life
<1>13. ASSUME NEW l \in Loop, TakesReady(l) PROVE LifeTypes'
  BY <1>13 DEF LifeTypes, WakeDone, TakesReady, up, loops, sessions, file, life
<1>14. CASE Stops
  BY <1>14 DEF LifeTypes, WakeDone, Stops, EndsHow, up, loops, sessions, file, life
<1>15. CASE Crash
  BY <1>15 DEF LifeTypes, WakeDone, Crash, EndsHow, up, loops, sessions, file, life
<1>16. CASE New
  BY <1>16 DEF LifeTypes, WakeDone, New, up, loops, sessions, file, life
<1>17. ASSUME NEW s \in Sess, WakeReads(s) PROVE LifeTypes'
  BY <1>17 DEF LifeTypes, WakeDone, WakeReads, up, loops, sessions, file, life
<1>18. ASSUME NEW s \in Sess, WakeSends(s) PROVE LifeTypes'
  BY <1>18 DEF LifeTypes, WakeDone, WakeSends, up, loops, sessions, file, life
<1>19. ASSUME NEW s \in Sess, WakeFails(s) PROVE LifeTypes'
  BY <1>19 DEF LifeTypes, WakeDone, WakeFails, up, loops, sessions, file, life
<1>20. ASSUME NEW s \in Sess, WakeClears(s) PROVE LifeTypes'
  BY <1>20 DEF LifeTypes, WakeDone, WakeClears, up, loops, sessions, file, life
<1>21. CASE WakeEnds
  BY <1>21 DEF LifeTypes, WakeDone, WakeEnds, up, loops, sessions, file, life
<1> QED
  BY <1>1, <1>2, <1>3, <1>4, <1>5, <1>6, <1>7, <1>8, <1>9, <1>10, <1>11, <1>12, <1>13, <1>14,
     <1>15, <1>16, <1>17, <1>18, <1>19, <1>20, <1>21 DEF Next, LoopStep, PrepareStep, WakeStep

-----------------------------------------------------------------------------
(* While dund is up                                                          *)

\* What the three steps do that take a session on: it is marked and about to be
\* told, forgotten and about to be told that it is off, or cut.
LEMMA NoticeMarksDo ==
  ASSUME StepTypes, NEW l \in Loop, NEW s \in Sess, NoticeMarks(l, s)
  PROVE  /\ at[l] = "notice" /\ s \in todo[l] /\ todo'[l] = todo[l] \ {s}
         /\ \A v \in Worker \ {l} : at'[v] = at[v] /\ todo'[v] = todo[v] /\ cur'[v] = cur[v]
         /\ overlap \subseteq overlap'
         /\ \/ /\ s \in live /\ at'[l] = "tell" /\ cur'[l] = {s} /\ noticed' = noticed \union {s}
               /\ s \notin overlap' => ~Busied(l, s)
            \/ at'[l] = "notice" /\ cur'[l] = cur[l] /\ noticed' = noticed
         /\ UNCHANGED <<state, found, prep, live, work, wake, owed, resume, disk, upgraded>>
<1>1. /\ at[l] = "notice" /\ s \in todo[l] /\ todo' = [todo EXCEPT ![l] = @ \ {s}]
      /\ \/ /\ s \in live /\ at' = [at EXCEPT ![l] = "tell"] /\ cur' = [cur EXCEPT ![l] = {s}]
            /\ noticed' = noticed \union {s}
            /\ overlap' = overlap \union {t \in {s} : Busied(l, t)}
         \/ UNCHANGED <<at, cur, noticed, overlap>>
      /\ UNCHANGED <<state, found, prep, live, work, wake, owed, resume, disk, upgraded>>
  BY DEF NoticeMarks, Drop, Goes, Touches, Working, up, file, life
<1> QED
  BY <1>1, Workers DEF StepTypes

LEMMA FailForgetsDo ==
  ASSUME StepTypes, SessTypes, NEW l \in Loop, NEW s \in Sess, FailForgets(l, s)
  PROVE  /\ at[l] = "failing" /\ s \in todo[l] /\ todo'[l] = todo[l] \ {s}
         /\ \A v \in Worker \ {l} : at'[v] = at[v] /\ todo'[v] = todo[v] /\ cur'[v] = cur[v]
         /\ noticed' = noticed \ {s} /\ resume' = [resume EXCEPT ![s] = ""]
         /\ s \in noticed => at'[l] = "carry" /\ cur'[l] = {s}
         /\ s \notin noticed => at'[l] = "failing" /\ cur'[l] = cur[l]
         /\ overlap \subseteq overlap'
         /\ s \notin overlap' => ~Busied(l, s) /\ ~Unsent(s)
         /\ UNCHANGED <<state, found, prep, live, work, wake, owed, disk, upgraded>>
<1>1. /\ at[l] = "failing" /\ s \in todo[l] /\ todo' = [todo EXCEPT ![l] = @ \ {s}]
      /\ noticed' = noticed \ {s} /\ resume' = [resume EXCEPT ![s] = ""]
      /\ s \in noticed => at' = [at EXCEPT ![l] = "carry"] /\ cur' = [cur EXCEPT ![l] = {s}]
      /\ s \notin noticed => UNCHANGED <<at, cur>>
      /\ overlap' = overlap \union IF Busied(l, s) \/ Unsent(s) THEN {s} ELSE {}
      /\ UNCHANGED <<state, found, prep, live, work, wake, owed, disk, upgraded>>
  BY DEF FailForgets, Drop, Goes, up, file, life
<1> QED
  BY <1>1, Workers DEF StepTypes

LEMMA PrepareLooksDo ==
  ASSUME StepTypes, SessTypes, NEW w \in Worker, NEW s \in Sess, PrepareLooks(w, s)
  PROVE  /\ at[w] = "prepare" /\ s \in todo[w] /\ todo'[w] = todo[w] \ {s}
         /\ \A v \in Worker \ {w} : found'[v] = found[v] /\ todo'[v] = todo[v] /\ prep'[v] = prep[v]
         /\ \A t \in Sess \ {s} : owed'[t] = owed[t] /\ prep'[w][t] = prep[w][t]
         /\ s \in Working => /\ found'[w] = found[w] \union {s} /\ owed'[s] = "resume"
                             /\ prep'[w][s] = "begin"
         /\ s \notin Working => found'[w] = found[w] /\ owed' = owed /\ prep' = prep
         /\ overlap \subseteq overlap' /\ (s \notin overlap' => ~Busied(w, s))
         /\ UNCHANGED <<state, at, cur, work, live, noticed, resume, disk, wake, upgraded>>
<1>1. /\ at[w] = "prepare" /\ s \in todo[w] /\ todo' = [todo EXCEPT ![w] = @ \ {s}]
      /\ s \in Working => /\ found' = [found EXCEPT ![w] = @ \union {s}]
                          /\ prep' = [prep EXCEPT ![w][s] = "begin"]
                          /\ owed' = [owed EXCEPT ![s] = "resume"]
      /\ s \notin Working => UNCHANGED <<found, prep, owed>>
      /\ overlap' = overlap \union {t \in {s} : Busied(w, t)}
      /\ UNCHANGED <<state, at, cur, work, live, noticed, resume, disk, wake, upgraded>>
  BY DEF PrepareLooks, Drop, Touches, up, file, life
<1> QED
  BY <1>1 DEF StepTypes, SessTypes

\* One loop heads for an install.
LEMMA HeadingP ==
  ASSUME StepTypes, SessTypes, HeadingInv, phase = "up", phase' = "up", [Next]_vars
  PROVE  HeadingInv'
<1>1. ASSUME UNCHANGED <<at, state>> PROVE HeadingInv'
  BY <1>1 DEF HeadingInv
<1>2. CASE UNCHANGED vars
  BY <1>1, <1>2 DEF vars, up, loops, sessions, file, life
<1>3. ASSUME NEW s \in Sess,
           \/ BeginWork(s) \/ EndWork(s) \/ WakeReads(s) \/ WakeSends(s) \/ WakeFails(s)
           \/ WakeClears(s)
    PROVE  HeadingInv'
  BY <1>1, <1>3 DEF BeginWork, EndWork, WakeReads, WakeSends, WakeFails, WakeClears, up, loops,
     sessions, file, life
<1>4. ASSUME NEW l \in Loop, NEW s \in Sess,
           LoopLooks(l, s)
    PROVE  HeadingInv'
  BY <1>1, <1>4 DEF LoopLooks, Drop, up, loops, sessions, file, life
<1>5. ASSUME NEW w \in Worker, NEW s \in Sess,
           PrepareLooks(w, s) \/ PrepareSets(w, s)
    PROVE  HeadingInv'
  BY <1>1, <1>5 DEF PrepareLooks, Drop, Touches, PrepareSets, up, loops, sessions, file, life
<1>6. CASE OtherSave \/ WakeEnds
  BY <1>1, <1>6 DEF OtherSave, SaveRegistry, WakeEnds, up, loops, sessions, file, life
<1>7. CASE RequestUpgrade
  BY <1>7 DEF HeadingInv, Heading, StepTypes, Worker, Loop, RequestUpgrade, Scans, Goes, up,
     loops, sessions, file, life
<1>8. ASSUME NEW l \in Loop, LoopGoesOn(l) PROVE HeadingInv'
  BY <1>8 DEF HeadingInv, Heading, StepTypes, Worker, Loop, LoopGoesOn, Scans, Goes, Touches,
     up, loops, sessions, file, life
<1>9. ASSUME NEW l \in Loop, LoopWaits(l) PROVE HeadingInv'
  BY <1>9 DEF HeadingInv, Heading, StepTypes, Worker, Loop, LoopWaits, Scans, Goes, up, loops,
     sessions, file, life
<1>10. ASSUME NEW l \in Loop, NEW s \in Sess, NoticeMarks(l, s) PROVE HeadingInv'
  BY <1>10, Workers, NoticeMarksDo DEF HeadingInv, Heading
<1>11. ASSUME NEW l \in Loop, NEW s \in Sess, NoticeTells(l, s) PROVE HeadingInv'
  BY <1>11 DEF HeadingInv, Heading, StepTypes, Worker, Loop, NoticeTells, Goes, Touches, up,
     loops, sessions, file, life
<1>12. ASSUME NEW l \in Loop, LoopSleeps(l) PROVE HeadingInv'
  BY <1>12 DEF HeadingInv, Heading, StepTypes, Worker, Loop, LoopSleeps, Scans, Goes, up, loops,
     sessions, file, life
<1>13. ASSUME NEW l \in Loop, LoopInstalls(l) PROVE HeadingInv'
  BY <1>13 DEF HeadingInv, Heading, StepTypes, Worker, Loop, LoopInstalls, Scans, Goes, up,
     loops, sessions, file, life
<1>14. ASSUME NEW l \in Loop, LoopFails(l) PROVE HeadingInv'
  BY <1>14 DEF HeadingInv, Heading, StepTypes, Worker, Loop, LoopFails, Scans, Goes, up, loops,
     sessions, file, life
<1>15. ASSUME NEW l \in Loop, NEW s \in Sess, FailForgets(l, s) PROVE HeadingInv'
  BY <1>15, Workers, FailForgetsDo DEF HeadingInv, Heading
<1>16. ASSUME NEW l \in Loop, NEW s \in Sess, FailTells(l, s) PROVE HeadingInv'
  BY <1>16 DEF HeadingInv, Heading, StepTypes, Worker, Loop, FailTells, Goes, up, loops,
     sessions, file, life
<1>17. ASSUME NEW l \in Loop, FailEnds(l) PROVE HeadingInv'
  BY <1>17 DEF HeadingInv, Heading, StepTypes, Worker, Loop, FailEnds, Goes, up, loops,
     sessions, file, life
<1>18. ASSUME NEW w \in Worker, PrepareJoins(w) PROVE HeadingInv'
  BY <1>18 DEF HeadingInv, Heading, StepTypes, Worker, Loop, PrepareJoins, Goes, Prepared, up,
     loops, sessions, file, life
<1>19. ASSUME NEW w \in Worker, PrepareSaves(w) PROVE HeadingInv'
  BY <1>19 DEF HeadingInv, Heading, StepTypes, Worker, Loop, PrepareSaves, Goes, Prepared,
     SaveRegistry, up, loops, sessions, file, life
<1>20. CASE Terminate
  BY <1>20 DEF HeadingInv, Heading, StepTypes, Worker, Loop, Terminate, Scans, Goes, Touches,
     up, loops, sessions, file, life
<1>21. ASSUME NEW l \in Loop, TakesReady(l) PROVE HeadingInv'
  BY <1>21 DEF HeadingInv, Heading, StepTypes, Worker, Loop, TakesReady, up, loops, sessions,
     file, life
<1>22. CASE Stops
  BY <1>22 DEF Stops, EndsHow
<1>23. CASE Crash
  BY <1>23 DEF Crash, EndsHow
<1>24. CASE New
  BY <1>24 DEF New
<1> QED
  BY <1>1, <1>2, <1>3, <1>4, <1>5, <1>6, <1>7, <1>8, <1>9, <1>10, <1>11, <1>12, <1>13, <1>14,
     <1>15, <1>16, <1>17, <1>18, <1>19, <1>20, <1>21, <1>22, <1>23, <1>24 DEF Next, LoopStep,
     PrepareStep, WakeStep

\* The wake-up is at one session, which it owes nothing once it was sent.
LEMMA WakeP ==
  ASSUME SessTypes, LifeTypes, WakeInv, phase = "up", phase' = "up", [Next]_vars
  PROVE  WakeInv'
<1>1. ASSUME UNCHANGED <<wake, owed, overlap>> PROVE WakeInv'
  BY <1>1 DEF WakeInv
<1>2. CASE UNCHANGED vars
  BY <1>1, <1>2 DEF vars, up, loops, sessions, file, life
<1>3. ASSUME NEW s \in Sess,
           EndWork(s)
    PROVE  WakeInv'
  BY <1>1, <1>3 DEF EndWork, up, loops, sessions, file, life
<1>4. CASE RequestUpgrade \/ OtherSave
  BY <1>1, <1>4 DEF RequestUpgrade, Scans, Goes, OtherSave, SaveRegistry, up, loops, sessions,
     file, life
<1>5. ASSUME NEW l \in Loop, NEW s \in Sess,
           LoopLooks(l, s)
    PROVE  WakeInv'
  BY <1>1, <1>5 DEF LoopLooks, Drop, up, loops, sessions, file, life
<1>6. ASSUME NEW l \in Loop,
           \/ LoopWaits(l) \/ LoopSleeps(l) \/ LoopInstalls(l) \/ LoopFails(l) \/ FailEnds(l)
           \/ TakesReady(l)
    PROVE  WakeInv'
  BY <1>1, <1>6 DEF LoopWaits, Scans, Goes, LoopSleeps, LoopInstalls, LoopFails, FailEnds,
     TakesReady, up, loops, sessions, file, life
<1>7. ASSUME NEW w \in Worker,
           PrepareJoins(w) \/ PrepareSaves(w)
    PROVE  WakeInv'
  BY <1>1, <1>7 DEF PrepareJoins, Goes, Prepared, PrepareSaves, SaveRegistry, up, loops,
     sessions, file, life
<1>8. ASSUME NEW s \in Sess, BeginWork(s) PROVE WakeInv'
  BY <1>8 DEF WakeInv, LifeTypes, SessTypes, WakeDone, Busied, BeginWork, up, loops, sessions,
     file, life
<1>9. ASSUME NEW l \in Loop, LoopGoesOn(l) PROVE WakeInv'
  BY <1>9 DEF WakeInv, LifeTypes, SessTypes, WakeDone, Busied, LoopGoesOn, Scans, Goes, Touches,
     up, loops, sessions, file, life
<1>10. ASSUME NEW l \in Loop, NEW s \in Sess, NoticeMarks(l, s) PROVE WakeInv'
  BY <1>10 DEF WakeInv, LifeTypes, SessTypes, WakeDone, Busied, NoticeMarks, Drop, Goes,
     Touches, up, loops, sessions, file, life
<1>11. ASSUME NEW l \in Loop, NEW s \in Sess, NoticeTells(l, s) PROVE WakeInv'
  BY <1>11 DEF WakeInv, LifeTypes, SessTypes, WakeDone, Busied, NoticeTells, Goes, Touches, up,
     loops, sessions, file, life
<1>12. ASSUME NEW l \in Loop, NEW s \in Sess, FailForgets(l, s) PROVE WakeInv'
  BY <1>12 DEF WakeInv, LifeTypes, SessTypes, WakeDone, Busied, FailForgets, Drop, Goes, up,
     loops, sessions, file, life
<1>13. ASSUME NEW l \in Loop, NEW s \in Sess, FailTells(l, s) PROVE WakeInv'
  BY <1>13 DEF WakeInv, LifeTypes, SessTypes, WakeDone, Busied, FailTells, Goes, up, loops,
     sessions, file, life
<1>14. ASSUME NEW w \in Worker, NEW s \in Sess, PrepareLooks(w, s) PROVE WakeInv'
  BY <1>14 DEF WakeInv, LifeTypes, SessTypes, WakeDone, Busied, PrepareLooks, Drop, Touches, up,
     loops, sessions, file, life
<1>15. ASSUME NEW w \in Worker, NEW s \in Sess, PrepareSets(w, s) PROVE WakeInv'
  BY <1>15 DEF WakeInv, LifeTypes, SessTypes, WakeDone, Busied, PrepareSets, Touches, up, loops,
     sessions, file, life
<1>16. CASE Terminate
  BY <1>16 DEF WakeInv, LifeTypes, SessTypes, WakeDone, Busied, Terminate, Scans, Goes, Touches,
     up, loops, sessions, file, life
<1>17. CASE Stops
  BY <1>17 DEF Stops, EndsHow
<1>18. CASE Crash
  BY <1>18 DEF Crash, EndsHow
<1>19. CASE New
  BY <1>19 DEF New
<1>20. ASSUME NEW s \in Sess, WakeReads(s) PROVE WakeInv'
  BY <1>20 DEF WakeInv, LifeTypes, SessTypes, WakeDone, Busied, WakeReads, up, loops, sessions,
     file, life
<1>21. ASSUME NEW s \in Sess, WakeSends(s) PROVE WakeInv'
  BY <1>21 DEF WakeInv, LifeTypes, SessTypes, WakeDone, Busied, WakeSends, up, loops, sessions,
     file, life
<1>22. ASSUME NEW s \in Sess, WakeFails(s) PROVE WakeInv'
  BY <1>22 DEF WakeInv, LifeTypes, SessTypes, WakeDone, Busied, WakeFails, up, loops, sessions,
     file, life
<1>23. ASSUME NEW s \in Sess, WakeClears(s) PROVE WakeInv'
  BY <1>23 DEF WakeInv, LifeTypes, SessTypes, WakeDone, Busied, WakeClears, up, loops, sessions,
     file, life
<1>24. CASE WakeEnds
  BY <1>24 DEF WakeInv, LifeTypes, SessTypes, WakeDone, Busied, WakeEnds, up, loops, sessions,
     file, life
<1> QED
  BY <1>1, <1>2, <1>3, <1>4, <1>5, <1>6, <1>7, <1>8, <1>9, <1>10, <1>11, <1>12, <1>13, <1>14,
     <1>15, <1>16, <1>17, <1>18, <1>19, <1>20, <1>21, <1>22, <1>23, <1>24 DEF Next, LoopStep,
     PrepareStep, WakeStep

\* Who was noticed is to be told what becomes of it.
LEMMA NoticeP ==
  ASSUME StepTypes, SessTypes, LifeTypes, HeadingInv, CurInv, NoticeInv, phase = "up", phase' = "up", [Next]_vars
  PROVE  NoticeInv'
<1>1. ASSUME UNCHANGED <<live, noticed, state, at, todo, overlap, wake>> PROVE NoticeInv'
  BY <1>1 DEF NoticeInv
<1>2. CASE UNCHANGED vars
  BY <1>1, <1>2 DEF vars, up, loops, sessions, file, life
<1>3. ASSUME NEW s \in Sess,
           EndWork(s)
    PROVE  NoticeInv'
  BY <1>1, <1>3 DEF EndWork, up, loops, sessions, file, life
<1>4. CASE OtherSave
  BY <1>1, <1>4 DEF OtherSave, SaveRegistry, up, loops, sessions, file, life
<1>5. ASSUME NEW s \in Sess, BeginWork(s) PROVE NoticeInv'
  BY <1>5 DEF NoticeInv, StepTypes, SessTypes, LifeTypes, HeadingInv, Heading, Failing, Worker,
     Loop, BeginWork, up, loops, sessions, file, life
<1>6. CASE RequestUpgrade
  BY <1>6 DEF NoticeInv, StepTypes, SessTypes, LifeTypes, HeadingInv, Heading, Failing, Worker,
     Loop, RequestUpgrade, Scans, Goes, up, loops, sessions, file, life
<1>7. ASSUME NEW l \in Loop, NEW s \in Sess, LoopLooks(l, s) PROVE NoticeInv'
  BY <1>7 DEF NoticeInv, StepTypes, SessTypes, LifeTypes, HeadingInv, Heading, Failing, Worker,
     Loop, LoopLooks, Drop, up, loops, sessions, file, life
<1>8. ASSUME NEW l \in Loop, LoopGoesOn(l) PROVE NoticeInv'
  BY <1>8 DEF NoticeInv, StepTypes, SessTypes, LifeTypes, HeadingInv, Heading, Failing, Worker,
     Loop, LoopGoesOn, Scans, Goes, Touches, up, loops, sessions, file, life
<1>9. ASSUME NEW l \in Loop, LoopWaits(l) PROVE NoticeInv'
  BY <1>9 DEF NoticeInv, StepTypes, SessTypes, LifeTypes, HeadingInv, Heading, Failing, Worker,
     Loop, LoopWaits, Scans, Goes, up, loops, sessions, file, life
<1>10. ASSUME NEW l \in Loop, NEW s \in Sess, NoticeMarks(l, s) PROVE NoticeInv'
  <2>1. state # "none"
    BY <1>10, NoticeMarksDo DEF HeadingInv, Heading
  <2>2. \A t \in (noticed' \ overlap') : t \in noticed \ overlap \/ ~Busied(l, t)
    BY <1>10, NoticeMarksDo
  <2> QED
    BY <1>10, <2>1, <2>2, NoticeMarksDo DEF NoticeInv, Busied
<1>11. ASSUME NEW l \in Loop, NEW s \in Sess, NoticeTells(l, s) PROVE NoticeInv'
  BY <1>11 DEF NoticeInv, StepTypes, SessTypes, LifeTypes, HeadingInv, Heading, Failing, Worker,
     Loop, NoticeTells, Goes, Touches, up, loops, sessions, file, life
<1>12. ASSUME NEW l \in Loop, LoopSleeps(l) PROVE NoticeInv'
  BY <1>12 DEF NoticeInv, StepTypes, SessTypes, LifeTypes, HeadingInv, Heading, Failing, Worker,
     Loop, LoopSleeps, Scans, Goes, up, loops, sessions, file, life
<1>13. ASSUME NEW l \in Loop, LoopInstalls(l) PROVE NoticeInv'
  BY <1>13 DEF NoticeInv, StepTypes, SessTypes, LifeTypes, HeadingInv, Heading, Failing, Worker,
     Loop, LoopInstalls, Scans, Goes, up, loops, sessions, file, life
<1>14. ASSUME NEW l \in Loop, LoopFails(l) PROVE NoticeInv'
  BY <1>14 DEF NoticeInv, StepTypes, SessTypes, LifeTypes, HeadingInv, Heading, Failing, Worker,
     Loop, LoopFails, Scans, Goes, up, loops, sessions, file, life
<1>15. ASSUME NEW l \in Loop, NEW s \in Sess, FailForgets(l, s) PROVE NoticeInv'
  <2>1. \A m \in Loop, t \in Sess \ {s} : at[m] \in Failing /\ t \in todo[m] => at'[m] \in Failing /\ t \in todo'[m]
    BY <1>15, Workers, FailForgetsDo DEF Failing
  <2>2. /\ noticed' = noticed \ {s} /\ overlap \subseteq overlap' /\ UNCHANGED <<state, live, wake>>
    BY <1>15, FailForgetsDo
  <2>3. \A t \in noticed' : state' # "none" \/ \E m \in Loop : at'[m] \in Failing /\ t \in todo'[m]
    <3> SUFFICES ASSUME NEW t \in noticed', state' = "none"
                 PROVE  \E m \in Loop : at'[m] \in Failing /\ t \in todo'[m]
      OBVIOUS
    <3>1. PICK m \in Loop : at[m] \in Failing /\ t \in todo[m]
      BY <2>2 DEF NoticeInv
    <3> QED
      BY <2>1, <2>2, <3>1 DEF SessTypes
  <2>4. noticed' \subseteq live' /\ \A t \in noticed' \ overlap' : t \notin wake'.left \union wake'.at
    BY <2>2 DEF NoticeInv
  <2> QED
    BY <2>3, <2>4 DEF NoticeInv
<1>16. ASSUME NEW l \in Loop, NEW s \in Sess, FailTells(l, s) PROVE NoticeInv'
  BY <1>16 DEF NoticeInv, StepTypes, SessTypes, LifeTypes, HeadingInv, Heading, Failing, Worker,
     Loop, FailTells, Goes, up, loops, sessions, file, life
<1>17. ASSUME NEW l \in Loop, FailEnds(l) PROVE NoticeInv'
  BY <1>17 DEF NoticeInv, StepTypes, SessTypes, LifeTypes, HeadingInv, Heading, Failing, Worker,
     Loop, FailEnds, Goes, up, loops, sessions, file, life
<1>18. ASSUME NEW w \in Worker, NEW s \in Sess, PrepareLooks(w, s) PROVE NoticeInv'
  BY <1>18 DEF NoticeInv, StepTypes, SessTypes, LifeTypes, HeadingInv, Heading, Failing, Worker,
     Loop, PrepareLooks, Drop, Touches, up, loops, sessions, file, life
<1>19. ASSUME NEW w \in Worker, NEW s \in Sess, PrepareSets(w, s) PROVE NoticeInv'
  BY <1>19 DEF NoticeInv, StepTypes, SessTypes, LifeTypes, HeadingInv, Heading, Failing, Worker,
     Loop, PrepareSets, Touches, up, loops, sessions, file, life
<1>20. ASSUME NEW w \in Worker, PrepareJoins(w) PROVE NoticeInv'
  BY <1>20 DEF NoticeInv, StepTypes, SessTypes, LifeTypes, HeadingInv, Heading, Failing, Worker,
     Loop, PrepareJoins, Goes, Prepared, up, loops, sessions, file, life
<1>21. ASSUME NEW w \in Worker, PrepareSaves(w) PROVE NoticeInv'
  BY <1>21 DEF NoticeInv, StepTypes, SessTypes, LifeTypes, HeadingInv, Heading, Failing, Worker,
     Loop, PrepareSaves, Goes, Prepared, SaveRegistry, up, loops, sessions, file, life
<1>22. CASE Terminate
  BY <1>22 DEF NoticeInv, StepTypes, SessTypes, LifeTypes, HeadingInv, Heading, Failing, Worker,
     Loop, Terminate, Scans, Goes, Touches, up, loops, sessions, file, life
<1>23. ASSUME NEW l \in Loop, TakesReady(l) PROVE NoticeInv'
  BY <1>23 DEF NoticeInv, StepTypes, SessTypes, LifeTypes, HeadingInv, Heading, Failing, Worker,
     Loop, TakesReady, up, loops, sessions, file, life
<1>24. CASE Stops
  BY <1>24 DEF Stops, EndsHow
<1>25. CASE Crash
  BY <1>25 DEF Crash, EndsHow
<1>26. CASE New
  BY <1>26 DEF New
<1>27. ASSUME NEW s \in Sess, WakeReads(s) PROVE NoticeInv'
  <2>1. wake'.left \union wake'.at \subseteq wake.left \union wake.at
    BY <1>27 DEF WakeReads, LifeTypes
  <2> QED
    BY <1>27, <2>1 DEF WakeReads, up, loops, sessions, NoticeInv
<1>28. ASSUME NEW s \in Sess, WakeSends(s) PROVE NoticeInv'
  BY <1>28 DEF NoticeInv, StepTypes, SessTypes, LifeTypes, HeadingInv, Heading, Failing, Worker,
     Loop, WakeSends, up, loops, sessions, file, life
<1>29. ASSUME NEW s \in Sess, WakeFails(s) PROVE NoticeInv'
  BY <1>29 DEF NoticeInv, StepTypes, SessTypes, LifeTypes, HeadingInv, Heading, Failing, Worker,
     Loop, WakeFails, up, loops, sessions, file, life
<1>30. ASSUME NEW s \in Sess, WakeClears(s) PROVE NoticeInv'
  BY <1>30 DEF NoticeInv, StepTypes, SessTypes, LifeTypes, HeadingInv, Heading, Failing, Worker,
     Loop, WakeClears, up, loops, sessions, file, life
<1>31. CASE WakeEnds
  <2>1. wake'.left \union wake'.at = {}
    BY <1>31 DEF WakeEnds, WakeDone
  <2> QED
    BY <1>31, <2>1 DEF WakeEnds, up, loops, sessions, NoticeInv
<1> QED
  BY <1>1, <1>2, <1>3, <1>4, <1>5, <1>6, <1>7, <1>8, <1>9, <1>10, <1>11, <1>12, <1>13, <1>14,
     <1>15, <1>16, <1>17, <1>18, <1>19, <1>20, <1>21, <1>22, <1>23, <1>24, <1>25, <1>26, <1>27,
     <1>28, <1>29, <1>30, <1>31 DEF Next, LoopStep, PrepareStep, WakeStep

\* A loop is at one session, which it marked, or which a failing one left to it.
LEMMA CurP ==
  ASSUME StepTypes, SessTypes, HeadingInv, NoticeInv, CurInv, phase = "up", phase' = "up", [Next]_vars
  PROVE  CurInv'
<1>1. ASSUME UNCHANGED <<at, todo, cur, live, noticed, overlap>> PROVE CurInv'
  BY <1>1 DEF CurInv
<1>2. CASE UNCHANGED vars
  BY <1>1, <1>2 DEF vars, up, loops, sessions, file, life
<1>3. ASSUME NEW s \in Sess,
           EndWork(s) \/ WakeReads(s) \/ WakeFails(s) \/ WakeClears(s)
    PROVE  CurInv'
  BY <1>1, <1>3 DEF EndWork, WakeReads, WakeFails, WakeClears, up, loops, sessions, file, life
<1>4. CASE OtherSave \/ WakeEnds
  BY <1>1, <1>4 DEF OtherSave, SaveRegistry, WakeEnds, up, loops, sessions, file, life
<1>5. ASSUME NEW s \in Sess, BeginWork(s) PROVE CurInv'
  BY <1>5 DEF CurInv, StepTypes, Failing, Heading, Worker, Loop, BeginWork, up, loops, sessions,
     file, life
<1>6. CASE RequestUpgrade
  BY <1>6 DEF CurInv, StepTypes, Failing, Heading, Worker, Loop, RequestUpgrade, Scans, Goes,
     up, loops, sessions, file, life
<1>7. ASSUME NEW l \in Loop, NEW s \in Sess, LoopLooks(l, s) PROVE CurInv'
  BY <1>7 DEF CurInv, StepTypes, Failing, Heading, Worker, Loop, LoopLooks, Drop, up, loops,
     sessions, file, life
<1>8. ASSUME NEW l \in Loop, LoopGoesOn(l) PROVE CurInv'
  BY <1>8 DEF CurInv, StepTypes, Failing, Heading, Worker, Loop, LoopGoesOn, Scans, Goes,
     Touches, up, loops, sessions, file, life
<1>9. ASSUME NEW l \in Loop, LoopWaits(l) PROVE CurInv'
  BY <1>9 DEF CurInv, StepTypes, Failing, Heading, Worker, Loop, LoopWaits, Scans, Goes, up,
     loops, sessions, file, life
<1>10. ASSUME NEW l \in Loop, NEW s \in Sess, NoticeMarks(l, s) PROVE CurInv'
  <2>1. CASE at'[l] = "notice" /\ cur'[l] = cur[l] /\ noticed' = noticed
    BY <1>10, <2>1, Workers, NoticeMarksDo DEF CurInv, Failing
  <2>2. CASE /\ s \in live /\ at'[l] = "tell" /\ cur'[l] = {s} /\ noticed' = noticed \union {s}
             /\ s \notin overlap' => ~Busied(l, s)
    <3>1. \A m \in Loop : at[m] \in Failing => m # l
      BY <1>10, NoticeMarksDo DEF Failing
    <3>2. \A m \in Loop \ {l} : at[m] \in Failing /\ s \in todo[m] => Busied(l, s)
      BY DEF Busied, Failing
    <3>3. \A m \in Loop : at'[m] \in Failing => m # l /\ at[m] \in Failing /\ todo'[m] = todo[m]
      BY <1>10, <2>2, Workers, NoticeMarksDo DEF Failing
    <3>4. /\ live' = live /\ noticed \subseteq noticed' /\ overlap \subseteq overlap'
          /\ \A m \in Loop \ {l} : at'[m] = at[m] /\ cur'[m] = cur[m]
      BY <1>10, <2>2, Workers, NoticeMarksDo
    <3>5. \A k, m \in Loop : at'[k] = "tell" /\ at'[m] \in Failing => cur'[k] \intersect todo'[m] \subseteq overlap'
      BY <2>2, <3>2, <3>3, <3>4 DEF CurInv
    <3> QED
      BY <2>2, <3>4, <3>5 DEF CurInv
  <2> QED
    BY <1>10, <2>1, <2>2, NoticeMarksDo
<1>11. ASSUME NEW l \in Loop, NEW s \in Sess, NoticeTells(l, s) PROVE CurInv'
  BY <1>11 DEF CurInv, StepTypes, Failing, Heading, Worker, Loop, NoticeTells, Goes, Touches,
     up, loops, sessions, file, life
<1>12. ASSUME NEW l \in Loop, LoopSleeps(l) PROVE CurInv'
  BY <1>12 DEF CurInv, StepTypes, Failing, Heading, Worker, Loop, LoopSleeps, Scans, Goes, up,
     loops, sessions, file, life
<1>13. ASSUME NEW l \in Loop, LoopInstalls(l) PROVE CurInv'
  BY <1>13 DEF CurInv, StepTypes, Failing, Heading, Worker, Loop, LoopInstalls, Scans, Goes, up,
     loops, sessions, file, life
<1>14. ASSUME NEW l \in Loop, LoopFails(l) PROVE CurInv'
  <2>1. \A m \in Loop : at'[m] # "tell"
    BY <1>14 DEF LoopFails, Scans, Goes, HeadingInv, Heading, StepTypes, Worker, Loop
  <2> QED
    BY <1>14, <2>1 DEF LoopFails, CurInv, file, life, up, sessions
<1>15. ASSUME NEW l \in Loop, NEW s \in Sess, FailForgets(l, s) PROVE CurInv'
  <2>1. /\ live' = live /\ noticed' = noticed \ {s} /\ overlap \subseteq overlap'
        /\ \A m \in Loop \ {l} : at'[m] = at[m] /\ cur'[m] = cur[m] /\ todo'[m] = todo[m]
        /\ at'[l] \in Failing /\ todo'[l] \subseteq todo[l] /\ at[l] \in Failing /\ s \in todo[l]
    BY <1>15, Workers, FailForgetsDo DEF Failing
  <2>2. cur'[l] = cur[l] \/ (cur'[l] = {s} /\ s \in live)
    BY <1>15, FailForgetsDo DEF NoticeInv
  <2>3. \A m \in Loop : at'[m] = "tell" => m # l /\ at[m] = "tell"
    BY <2>1 DEF Failing
  <2>4. \A m \in Loop : at'[m] \in Failing => at[m] \in Failing /\ todo'[m] \subseteq todo[m]
    BY <2>1
  <2>5. \A m \in Loop : at'[m] = "tell" => cur'[m] \subseteq noticed' \union overlap'
    BY <2>1, <2>3 DEF CurInv
  <2>6. \A k, m \in Loop : at'[k] = "tell" /\ at'[m] \in Failing => cur'[k] \intersect todo'[m] \subseteq overlap'
    BY <2>1, <2>3, <2>4 DEF CurInv
  <2>7. \A m \in Loop : cur'[m] \subseteq live' /\ \A t, u \in cur'[m] : t = u
    BY <2>1, <2>2 DEF CurInv
  <2> QED
    BY <2>5, <2>6, <2>7 DEF CurInv
<1>16. ASSUME NEW l \in Loop, NEW s \in Sess, FailTells(l, s) PROVE CurInv'
  BY <1>16 DEF CurInv, StepTypes, Failing, Heading, Worker, Loop, FailTells, Goes, up, loops,
     sessions, file, life
<1>17. ASSUME NEW l \in Loop, FailEnds(l) PROVE CurInv'
  BY <1>17 DEF CurInv, StepTypes, Failing, Heading, Worker, Loop, FailEnds, Goes, up, loops,
     sessions, file, life
<1>18. ASSUME NEW w \in Worker, NEW s \in Sess, PrepareLooks(w, s) PROVE CurInv'
  <2>1. /\ UNCHANGED <<at, cur, live, noticed>> /\ overlap \subseteq overlap'
        /\ \A l \in Loop : todo'[l] \subseteq todo[l]
    BY <1>18, Workers, PrepareLooksDo
  <2> QED
    BY <2>1 DEF CurInv
<1>19. ASSUME NEW w \in Worker, NEW s \in Sess, PrepareSets(w, s) PROVE CurInv'
  BY <1>19 DEF CurInv, StepTypes, Failing, Heading, Worker, Loop, PrepareSets, Touches, up,
     loops, sessions, file, life
<1>20. ASSUME NEW w \in Worker, PrepareJoins(w) PROVE CurInv'
  BY <1>20 DEF CurInv, StepTypes, Failing, Heading, Worker, Loop, PrepareJoins, Goes, Prepared,
     up, loops, sessions, file, life
<1>21. ASSUME NEW w \in Worker, PrepareSaves(w) PROVE CurInv'
  BY <1>21 DEF CurInv, StepTypes, Failing, Heading, Worker, Loop, PrepareSaves, Goes, Prepared,
     SaveRegistry, up, loops, sessions, file, life
<1>22. CASE Terminate
  BY <1>22 DEF CurInv, StepTypes, Failing, Heading, Worker, Loop, Terminate, Scans, Goes,
     Touches, up, loops, sessions, file, life
<1>23. ASSUME NEW l \in Loop, TakesReady(l) PROVE CurInv'
  BY <1>23 DEF CurInv, StepTypes, Failing, Heading, Worker, Loop, TakesReady, up, loops,
     sessions, file, life
<1>24. CASE Stops
  BY <1>24 DEF Stops, EndsHow
<1>25. CASE Crash
  BY <1>25 DEF Crash, EndsHow
<1>26. CASE New
  BY <1>26 DEF New
<1>27. ASSUME NEW s \in Sess, WakeSends(s) PROVE CurInv'
  BY <1>27 DEF CurInv, StepTypes, Failing, Heading, Worker, Loop, WakeSends, up, loops,
     sessions, file, life
<1> QED
  BY <1>1, <1>2, <1>3, <1>4, <1>5, <1>6, <1>7, <1>8, <1>9, <1>10, <1>11, <1>12, <1>13, <1>14,
     <1>15, <1>16, <1>17, <1>18, <1>19, <1>20, <1>21, <1>22, <1>23, <1>24, <1>25, <1>26, <1>27
     DEF Next, LoopStep, PrepareStep, WakeStep

\* How far each stop is.
LEMMA PrepP ==
  ASSUME StepTypes, SessTypes, PrepInv, phase = "up", phase' = "up", [Next]_vars
  PROVE  PrepInv'
<1>1. ASSUME UNCHANGED <<at, todo, found, prep, upgraded>> PROVE PrepInv'
  BY <1>1 DEF PrepInv
<1>2. CASE UNCHANGED vars
  BY <1>1, <1>2 DEF vars, up, loops, sessions, file, life
<1>3. ASSUME NEW s \in Sess,
           \/ BeginWork(s) \/ EndWork(s) \/ WakeReads(s) \/ WakeSends(s) \/ WakeFails(s)
           \/ WakeClears(s)
    PROVE  PrepInv'
  BY <1>1, <1>3 DEF BeginWork, EndWork, WakeReads, WakeSends, WakeFails, WakeClears, up, loops,
     sessions, file, life
<1>4. CASE OtherSave \/ WakeEnds
  BY <1>1, <1>4 DEF OtherSave, SaveRegistry, WakeEnds, up, loops, sessions, file, life
<1>5. CASE RequestUpgrade
  BY <1>5 DEF PrepInv, StepTypes, Heading, Failing, Stopping, NoPrep, Worker, Loop,
     RequestUpgrade, Scans, Goes, up, loops, sessions, file, life
<1>6. ASSUME NEW l \in Loop, NEW s \in Sess, LoopLooks(l, s) PROVE PrepInv'
  BY <1>6 DEF PrepInv, StepTypes, Heading, Failing, Stopping, NoPrep, Worker, Loop, LoopLooks,
     Drop, up, loops, sessions, file, life
<1>7. ASSUME NEW l \in Loop, LoopGoesOn(l) PROVE PrepInv'
  BY <1>7 DEF PrepInv, StepTypes, Heading, Failing, Stopping, NoPrep, Worker, Loop, LoopGoesOn,
     Scans, Goes, Touches, up, loops, sessions, file, life
<1>8. ASSUME NEW l \in Loop, LoopWaits(l) PROVE PrepInv'
  BY <1>8 DEF PrepInv, StepTypes, Heading, Failing, Stopping, NoPrep, Worker, Loop, LoopWaits,
     Scans, Goes, up, loops, sessions, file, life
<1>9. ASSUME NEW l \in Loop, NEW s \in Sess, NoticeMarks(l, s) PROVE PrepInv'
  <2>1. /\ at[l] = "notice" /\ at'[l] \in {"notice", "tell"} /\ UNCHANGED <<found, prep, upgraded>>
        /\ \A v \in Worker \ {l} : at'[v] = at[v] /\ todo'[v] = todo[v]
    BY <1>9, NoticeMarksDo
  <2> QED
    BY <2>1, Workers DEF PrepInv
<1>10. ASSUME NEW l \in Loop, NEW s \in Sess, NoticeTells(l, s) PROVE PrepInv'
  BY <1>10 DEF PrepInv, StepTypes, Heading, Failing, Stopping, NoPrep, Worker, Loop,
     NoticeTells, Goes, Touches, up, loops, sessions, file, life
<1>11. ASSUME NEW l \in Loop, LoopSleeps(l) PROVE PrepInv'
  BY <1>11 DEF PrepInv, StepTypes, Heading, Failing, Stopping, NoPrep, Worker, Loop, LoopSleeps,
     Scans, Goes, up, loops, sessions, file, life
<1>12. ASSUME NEW l \in Loop, LoopInstalls(l) PROVE PrepInv'
  BY <1>12 DEF PrepInv, StepTypes, Heading, Failing, Stopping, NoPrep, Worker, Loop,
     LoopInstalls, Scans, Goes, up, loops, sessions, file, life
<1>13. ASSUME NEW l \in Loop, LoopFails(l) PROVE PrepInv'
  BY <1>13 DEF PrepInv, StepTypes, Heading, Failing, Stopping, NoPrep, Worker, Loop, LoopFails,
     Scans, Goes, up, loops, sessions, file, life
<1>14. ASSUME NEW l \in Loop, NEW s \in Sess, FailForgets(l, s) PROVE PrepInv'
  <2>1. /\ at[l] = "failing" /\ at'[l] \in {"failing", "carry"} /\ UNCHANGED <<found, prep, upgraded>>
        /\ \A v \in Worker \ {l} : at'[v] = at[v] /\ todo'[v] = todo[v]
    BY <1>14, FailForgetsDo
  <2> QED
    BY <2>1, Workers DEF PrepInv
<1>15. ASSUME NEW l \in Loop, NEW s \in Sess, FailTells(l, s) PROVE PrepInv'
  BY <1>15 DEF PrepInv, StepTypes, Heading, Failing, Stopping, NoPrep, Worker, Loop, FailTells,
     Goes, up, loops, sessions, file, life
<1>16. ASSUME NEW l \in Loop, FailEnds(l) PROVE PrepInv'
  BY <1>16 DEF PrepInv, StepTypes, Heading, Failing, Stopping, NoPrep, Worker, Loop, FailEnds,
     Goes, up, loops, sessions, file, life
<1>17. ASSUME NEW w \in Worker, NEW s \in Sess, PrepareLooks(w, s) PROVE PrepInv'
  <2>1. /\ at[w] = "prepare" /\ at' = at /\ upgraded' = upgraded /\ todo'[w] = todo[w] \ {s}
        /\ \A v \in Worker \ {w} : found'[v] = found[v] /\ todo'[v] = todo[v] /\ prep'[v] = prep[v]
        /\ found[w] \subseteq found'[w] /\ found'[w] \subseteq found[w] \union {s}
        /\ prep'[w][s] = "begin" => s \in found'[w] \/ prep' = prep
        /\ \A t \in Sess \ {s} : prep'[w][t] = prep[w][t]
    BY <1>17, PrepareLooksDo
  <2>2. \A v \in Worker : at'[v] \in {"save", "ready", "close"} => todo'[v] = {}
    BY <2>1 DEF PrepInv
  <2>3. at'["main"] = "off" => todo'["main"] = {} /\ found'["main"] = {}
    BY <2>1, Workers DEF PrepInv
  <2>4. \A v \in Worker : at'[v] = "prepare" => found'[v] \intersect todo'[v] = {}
    BY <2>1 DEF PrepInv
  <2>5. \A v \in Worker, t \in Sess : prep'[v][t] = "begin" => at'[v] = "prepare" /\ t \in found'[v]
    BY <2>1 DEF PrepInv
  <2>6. upgraded' => at'["main"] = "close"
    BY <2>1 DEF PrepInv
  <2> QED
    BY <2>2, <2>3, <2>4, <2>5, <2>6 DEF PrepInv
<1>18. ASSUME NEW w \in Worker, NEW s \in Sess, PrepareSets(w, s) PROVE PrepInv'
  BY <1>18 DEF PrepInv, StepTypes, Heading, Failing, Stopping, NoPrep, Worker, Loop,
     PrepareSets, Touches, up, loops, sessions, file, life
<1>19. ASSUME NEW w \in Worker, PrepareJoins(w) PROVE PrepInv'
  BY <1>19 DEF PrepInv, StepTypes, Heading, Failing, Stopping, NoPrep, Worker, Loop,
     PrepareJoins, Goes, Prepared, up, loops, sessions, file, life
<1>20. ASSUME NEW w \in Worker, PrepareSaves(w) PROVE PrepInv'
  BY <1>20 DEF PrepInv, StepTypes, Heading, Failing, Stopping, NoPrep, Worker, Loop,
     PrepareSaves, Goes, Prepared, SaveRegistry, up, loops, sessions, file, life
<1>21. CASE Terminate
  BY <1>21 DEF PrepInv, StepTypes, Heading, Failing, Stopping, NoPrep, Worker, Loop, Terminate,
     Scans, Goes, Touches, up, loops, sessions, file, life
<1>22. ASSUME NEW l \in Loop, TakesReady(l) PROVE PrepInv'
  BY <1>22 DEF PrepInv, StepTypes, Heading, Failing, Stopping, NoPrep, Worker, Loop, TakesReady,
     up, loops, sessions, file, life
<1>23. CASE Stops
  BY <1>23 DEF Stops, EndsHow
<1>24. CASE Crash
  BY <1>24 DEF Crash, EndsHow
<1>25. CASE New
  BY <1>25 DEF New
<1> QED
  BY <1>1, <1>2, <1>3, <1>4, <1>5, <1>6, <1>7, <1>8, <1>9, <1>10, <1>11, <1>12, <1>13, <1>14,
     <1>15, <1>16, <1>17, <1>18, <1>19, <1>20, <1>21, <1>22, <1>23, <1>24, <1>25 DEF Next,
     LoopStep, PrepareStep, WakeStep

\* Nobody new at a session, nor a stop that went over one it had not.
StaysAlone ==
  /\ overlap \subseteq overlap' /\ wake'.left \union wake'.at \subseteq wake.left \union wake.at
  /\ \A w \in Worker : at'[w] \in Stopping => at[w] \in Stopping /\ todo'[w] = todo[w]
  /\ \A l \in Loop : at'[l] = "carry" => at[l] = "carry" /\ cur'[l] = cur[l]

LEMMA AloneKept ==
  ASSUME AloneInv, StaysAlone
  PROVE  AloneInv'
BY DEF AloneInv, PastLook, StaysAlone

\* A stop begins to go over the sessions.
BeginsOver(w) ==
  /\ overlap \subseteq overlap' /\ wake' = wake /\ todo'[w] = Sess
  /\ \A v \in Worker \ {w} : at'[v] = at[v] /\ todo'[v] = todo[v]
  /\ \A l \in Loop : at'[l] = "carry" => at[l] = "carry" /\ cur'[l] = cur[l]

LEMMA AloneBegun ==
  ASSUME AloneInv, NEW w \in Worker, BeginsOver(w)
  PROVE  AloneInv'
BY DEF AloneInv, PastLook, BeginsOver

\* A stop that went over a session is alone at it.
LEMMA AloneP ==
  ASSUME StepTypes, SessTypes, LifeTypes, PrepInv, AloneInv, phase = "up", phase' = "up", [Next]_vars
  PROVE  AloneInv'
<1>1. ASSUME UNCHANGED <<at, todo, cur, wake, overlap>> PROVE AloneInv'
  BY <1>1 DEF AloneInv, PastLook
<1>2. CASE UNCHANGED vars
  BY <1>1, <1>2 DEF vars, up, loops, sessions, file, life
<1>3. ASSUME NEW s \in Sess,
           EndWork(s)
    PROVE  AloneInv'
  BY <1>1, <1>3 DEF EndWork, up, loops, sessions, file, life
<1>4. CASE OtherSave
  BY <1>1, <1>4 DEF OtherSave, SaveRegistry, up, loops, sessions, file, life
<1>5. ASSUME NEW s \in Sess, BeginWork(s) PROVE AloneInv'
  <2>1. StaysAlone
    BY <1>5, Workers DEF BeginWork, up, loops, sessions, file, life, StepTypes, Stopping,
       LifeTypes, PrepInv, WakeDone, StaysAlone
  <2> QED
    BY <2>1, AloneKept
<1>6. CASE RequestUpgrade
  <2>1. StaysAlone
    BY <1>6, Workers DEF RequestUpgrade, Scans, Goes, up, loops, sessions, file, life,
       StepTypes, Stopping, LifeTypes, PrepInv, WakeDone, StaysAlone
  <2> QED
    BY <2>1, AloneKept
<1>7. ASSUME NEW l \in Loop, NEW s \in Sess, LoopLooks(l, s) PROVE AloneInv'
  <2>1. StaysAlone
    BY <1>7, Workers DEF LoopLooks, Drop, up, loops, sessions, file, life, StepTypes, Stopping,
       LifeTypes, PrepInv, WakeDone, StaysAlone
  <2> QED
    BY <2>1, AloneKept
<1>8. ASSUME NEW l \in Loop, LoopGoesOn(l) PROVE AloneInv'
  <2>1. CASE handover
    <3>1. StaysAlone
      BY <1>8, <2>1, Workers DEF LoopGoesOn, Scans, Goes, Touches, up, loops, sessions, file,
         life, StepTypes, Stopping, StaysAlone
    <3> QED
      BY <3>1, AloneKept
  <2>2. CASE ~handover
    <3>1. BeginsOver(l)
      BY <1>8, <2>2, Workers DEF LoopGoesOn, Scans, Goes, Touches, up, loops, sessions, file,
         life, StepTypes, BeginsOver
    <3> QED
      BY <3>1, Workers, AloneBegun
  <2> QED
    BY <2>1, <2>2
<1>9. ASSUME NEW l \in Loop, LoopWaits(l) PROVE AloneInv'
  <2>1. StaysAlone
    BY <1>9, Workers DEF LoopWaits, Scans, Goes, up, loops, sessions, file, life, StepTypes,
       Stopping, LifeTypes, PrepInv, WakeDone, StaysAlone
  <2> QED
    BY <2>1, AloneKept
<1>10. ASSUME NEW l \in Loop, NEW s \in Sess, NoticeMarks(l, s) PROVE AloneInv'
  <2>1. StaysAlone
    BY <1>10, Workers, NoticeMarksDo DEF Stopping, StaysAlone
  <2> QED
    BY <2>1, AloneKept
<1>11. ASSUME NEW l \in Loop, NEW s \in Sess, NoticeTells(l, s) PROVE AloneInv'
  <2>1. StaysAlone
    BY <1>11, Workers DEF NoticeTells, Goes, Touches, up, loops, sessions, file, life,
       StepTypes, Stopping, LifeTypes, PrepInv, WakeDone, StaysAlone
  <2> QED
    BY <2>1, AloneKept
<1>12. ASSUME NEW l \in Loop, LoopSleeps(l) PROVE AloneInv'
  <2>1. StaysAlone
    BY <1>12, Workers DEF LoopSleeps, Scans, Goes, up, loops, sessions, file, life, StepTypes,
       Stopping, LifeTypes, PrepInv, WakeDone, StaysAlone
  <2> QED
    BY <2>1, AloneKept
<1>13. ASSUME NEW l \in Loop, LoopInstalls(l) PROVE AloneInv'
  <2>1. BeginsOver(l)
    BY <1>13, Workers DEF LoopInstalls, Scans, Goes, up, loops, sessions, file, life, StepTypes,
       BeginsOver
  <2> QED
    BY <2>1, Workers, AloneBegun
<1>14. ASSUME NEW l \in Loop, LoopFails(l) PROVE AloneInv'
  <2>1. StaysAlone
    BY <1>14, Workers DEF LoopFails, Scans, Goes, up, loops, sessions, file, life, StepTypes,
       Stopping, LifeTypes, PrepInv, WakeDone, StaysAlone
  <2> QED
    BY <2>1, AloneKept
<1>15. ASSUME NEW l \in Loop, NEW s \in Sess, FailForgets(l, s) PROVE AloneInv'
  <2>1. /\ overlap \subseteq overlap' /\ (s \notin overlap' => ~Busied(l, s)) /\ wake' = wake
        /\ \A v \in Worker \ {l} : at'[v] = at[v] /\ todo'[v] = todo[v] /\ cur'[v] = cur[v]
        /\ at'[l] \in {"failing", "carry"} /\ (at'[l] = "carry" => cur'[l] = {s})
    BY <1>15, FailForgetsDo
  <2>2. \A v \in Worker : at'[v] \in Stopping => v # l /\ at[v] \in Stopping
    BY <2>1 DEF Stopping
  <2>3. ASSUME NEW w \in Worker, NEW t \in Sess \ overlap', at'[w] \in Stopping, t \notin todo'[w]
        PROVE  /\ t \notin wake'.left \union wake'.at
               /\ \A v \in Worker \ {w} : at'[v] \in Stopping => t \in todo'[v]
               /\ \A m \in Loop : at'[m] = "carry" => t \notin cur'[m]
    <3>1. w # l /\ at[w] \in Stopping /\ t \notin todo[w] /\ t \notin overlap
      BY <2>1, <2>2, <2>3
    <3>2. t # s
      BY <2>1, <2>3, <3>1 DEF Busied, Stopping
    <3> QED
      BY <2>1, <2>2, <3>1, <3>2, Workers DEF AloneInv, PastLook
  <2> QED
    BY <2>3 DEF AloneInv, PastLook
<1>16. ASSUME NEW l \in Loop, NEW s \in Sess, FailTells(l, s) PROVE AloneInv'
  <2>1. StaysAlone
    BY <1>16, Workers DEF FailTells, Goes, up, loops, sessions, file, life, StepTypes, Stopping,
       LifeTypes, PrepInv, WakeDone, StaysAlone
  <2> QED
    BY <2>1, AloneKept
<1>17. ASSUME NEW l \in Loop, FailEnds(l) PROVE AloneInv'
  <2>1. StaysAlone
    BY <1>17, Workers DEF FailEnds, Goes, up, loops, sessions, file, life, StepTypes, Stopping,
       LifeTypes, PrepInv, WakeDone, StaysAlone
  <2> QED
    BY <2>1, AloneKept
<1>18. ASSUME NEW w \in Worker, NEW s \in Sess, PrepareLooks(w, s) PROVE AloneInv'
  <2>1. /\ overlap \subseteq overlap' /\ (s \notin overlap' => ~Busied(w, s)) /\ UNCHANGED <<at, cur, wake>>
        /\ \A v \in Worker \ {w} : todo'[v] = todo[v]
        /\ at[w] = "prepare" /\ todo'[w] = todo[w] \ {s}
    BY <1>18, PrepareLooksDo
  <2>2. ASSUME NEW v \in Worker, NEW t \in Sess \ overlap', at[v] \in Stopping, t \notin todo'[v]
        PROVE  /\ t \notin wake.left \union wake.at
               /\ \A u \in Worker \ {v} : at[u] \in Stopping => t \in todo'[u]
               /\ \A m \in Loop : at[m] = "carry" => t \notin cur[m]
    <3>1. CASE t = s
      <4>1. s \notin wake.left \union wake.at /\ \A u \in Worker \ {w} : at[u] \notin Stopping
        BY <2>1, <2>2, <3>1 DEF Busied, Stopping
      <4>2. \A m \in Loop : at[m] = "carry" => s \notin cur[m]
        BY <2>1, <2>2, <3>1 DEF Busied
      <4> QED
        BY <2>2, <3>1, <4>1, <4>2
    <3>2. CASE t # s
      <4>1. t \notin todo[v] /\ t \notin overlap
        BY <2>1, <2>2, <3>2
      <4>2. \A u \in Worker : t \in todo[u] => t \in todo'[u]
        BY <2>1, <3>2
      <4> QED
        BY <2>2, <4>1, <4>2 DEF AloneInv, PastLook
    <3> QED
      BY <3>1, <3>2
  <2> QED
    BY <2>1, <2>2 DEF AloneInv, PastLook
<1>19. ASSUME NEW w \in Worker, NEW s \in Sess, PrepareSets(w, s) PROVE AloneInv'
  <2>1. StaysAlone
    BY <1>19, Workers DEF PrepareSets, Touches, up, loops, sessions, file, life, StepTypes,
       Stopping, LifeTypes, PrepInv, WakeDone, StaysAlone
  <2> QED
    BY <2>1, AloneKept
<1>20. ASSUME NEW w \in Worker, PrepareJoins(w) PROVE AloneInv'
  <2>1. StaysAlone
    BY <1>20, Workers DEF PrepareJoins, Goes, Prepared, up, loops, sessions, file, life,
       StepTypes, Stopping, LifeTypes, PrepInv, WakeDone, StaysAlone
  <2> QED
    BY <2>1, AloneKept
<1>21. ASSUME NEW w \in Worker, PrepareSaves(w) PROVE AloneInv'
  <2>1. StaysAlone
    BY <1>21, Workers DEF PrepareSaves, Goes, Prepared, SaveRegistry, up, loops, sessions, file,
       life, StepTypes, Stopping, LifeTypes, PrepInv, WakeDone, StaysAlone
  <2> QED
    BY <2>1, AloneKept
<1>22. CASE Terminate
  <2>1. BeginsOver("main")
    BY <1>22, Workers DEF Terminate, Scans, Goes, Touches, up, loops, sessions, file, life,
       StepTypes, BeginsOver
  <2> QED
    BY <2>1, Workers, AloneBegun
<1>23. ASSUME NEW l \in Loop, TakesReady(l) PROVE AloneInv'
  <2>1. /\ at[l] = "ready" /\ at'["main"] = "close" /\ at'[l] = "off"
        /\ \A v \in Worker \ {l, "main"} : at'[v] = at[v]
        /\ UNCHANGED <<todo, cur, wake, overlap>> /\ at["main"] = "off"
    BY <1>23, Workers DEF TakesReady, up, loops, sessions, file, life, StepTypes
  <2>2. todo[l] = {} /\ todo["main"] = {}
    BY <2>1, Workers DEF PrepInv
  <2>3. ASSUME NEW w \in Worker, NEW s \in Sess \ overlap', at'[w] \in Stopping, s \notin todo'[w]
        PROVE  /\ s \notin wake'.left \union wake'.at
               /\ \A v \in Worker \ {w} : at'[v] \in Stopping => s \in todo'[v]
               /\ \A m \in Loop : at'[m] = "carry" => s \notin cur'[m]
    <3>1. /\ s \notin wake.left \union wake.at
          /\ \A v \in Worker \ {l} : at[v] \in Stopping => s \in todo[v]
          /\ \A m \in Loop : at[m] = "carry" => s \notin cur[m]
      BY <2>1, <2>2, <2>3, Workers DEF AloneInv, PastLook, Stopping
    <3>2. w = "main"
      BY <2>1, <2>3, <3>1 DEF Stopping
    <3> QED
      BY <2>1, <3>1, <3>2, Workers DEF Stopping
  <2> QED
    BY <2>3 DEF AloneInv, PastLook
<1>24. CASE Stops
  BY <1>24 DEF Stops, EndsHow
<1>25. CASE Crash
  BY <1>25 DEF Crash, EndsHow
<1>26. CASE New
  BY <1>26 DEF New
<1>27. ASSUME NEW s \in Sess, WakeReads(s) PROVE AloneInv'
  <2>1. StaysAlone
    BY <1>27, Workers DEF WakeReads, up, loops, sessions, file, life, StepTypes, Stopping,
       LifeTypes, PrepInv, WakeDone, StaysAlone
  <2> QED
    BY <2>1, AloneKept
<1>28. ASSUME NEW s \in Sess, WakeSends(s) PROVE AloneInv'
  <2>1. StaysAlone
    BY <1>28, Workers DEF WakeSends, up, loops, sessions, file, life, StepTypes, Stopping,
       LifeTypes, PrepInv, WakeDone, StaysAlone
  <2> QED
    BY <2>1, AloneKept
<1>29. ASSUME NEW s \in Sess, WakeFails(s) PROVE AloneInv'
  <2>1. StaysAlone
    BY <1>29, Workers DEF WakeFails, up, loops, sessions, file, life, StepTypes, Stopping,
       LifeTypes, PrepInv, WakeDone, StaysAlone
  <2> QED
    BY <2>1, AloneKept
<1>30. ASSUME NEW s \in Sess, WakeClears(s) PROVE AloneInv'
  <2>1. StaysAlone
    BY <1>30, Workers DEF WakeClears, up, loops, sessions, file, life, StepTypes, Stopping,
       LifeTypes, PrepInv, WakeDone, StaysAlone
  <2> QED
    BY <2>1, AloneKept
<1>31. CASE WakeEnds
  <2>1. StaysAlone
    BY <1>31, Workers DEF WakeEnds, up, loops, sessions, file, life, StepTypes, Stopping,
       LifeTypes, PrepInv, WakeDone, StaysAlone
  <2> QED
    BY <2>1, AloneKept
<1> QED
  BY <1>1, <1>2, <1>3, <1>4, <1>5, <1>6, <1>7, <1>8, <1>9, <1>10, <1>11, <1>12, <1>13, <1>14,
     <1>15, <1>16, <1>17, <1>18, <1>19, <1>20, <1>21, <1>22, <1>23, <1>24, <1>25, <1>26, <1>27,
     <1>28, <1>29, <1>30, <1>31 DEF Next, LoopStep, PrepareStep, WakeStep

\* Nobody is newly at rest behind a stop, and none that was works.
StaysAtRest ==
  /\ overlap \subseteq overlap' /\ Working' \subseteq Working
  /\ \A w \in Worker : at'[w] = "prepare" =>
       (at[w] = "prepare" /\ todo'[w] = todo[w] /\ found'[w] = found[w]) \/ todo'[w] = Sess

LEMMA RestKept ==
  ASSUME RestInv, StaysAtRest
  PROVE  RestInv'
BY DEF RestInv, StaysAtRest

\* Who was at rest when a stop looked is so, or in overlap.
LEMMA RestP ==
  ASSUME StepTypes, SessTypes, LifeTypes, HeadingInv, CurInv, PrepInv, AloneInv, RestInv, phase = "up", phase' = "up", [Next]_vars
  PROVE  RestInv'
<1>1. ASSUME UNCHANGED <<at, todo, found, live, work, overlap>> PROVE RestInv'
  BY <1>1 DEF RestInv, Working
<1>2. CASE UNCHANGED vars
  BY <1>1, <1>2 DEF vars, up, loops, sessions, file, life
<1>3. CASE OtherSave \/ WakeEnds
  BY <1>1, <1>3 DEF OtherSave, SaveRegistry, WakeEnds, up, loops, sessions, file, life
<1>4. ASSUME NEW s \in Sess,
           WakeReads(s) \/ WakeFails(s) \/ WakeClears(s)
    PROVE  RestInv'
  BY <1>1, <1>4 DEF WakeReads, WakeFails, WakeClears, up, loops, sessions, file, life
<1>5. ASSUME NEW s \in Sess, BeginWork(s) PROVE RestInv'
  <2>1. /\ Working' \subseteq Working \union {s} /\ UNCHANGED <<at, todo, found>>
        /\ overlap \subseteq overlap' /\ (s \in overlap' \/ \A w \in Worker : ~PastLooking(w, s))
    BY <1>5 DEF BeginWork, up, loops, sessions, file, life, Working, SessTypes
  <2> QED
    BY <2>1 DEF RestInv, PastLooking
<1>6. ASSUME NEW s \in Sess, EndWork(s) PROVE RestInv'
  <2>1. StaysAtRest
    BY <1>6, Workers DEF EndWork, up, loops, sessions, file, life, StepTypes, SessTypes, Working,
       StaysAtRest
  <2> QED
    BY <2>1, RestKept
<1>7. CASE RequestUpgrade
  <2>1. StaysAtRest
    BY <1>7, Workers DEF RequestUpgrade, Scans, Goes, up, loops, sessions, file, life,
       StepTypes, SessTypes, Working, StaysAtRest
  <2> QED
    BY <2>1, RestKept
<1>8. ASSUME NEW l \in Loop, NEW s \in Sess, LoopLooks(l, s) PROVE RestInv'
  <2>1. StaysAtRest
    BY <1>8, Workers DEF LoopLooks, Drop, up, loops, sessions, file, life, StepTypes, SessTypes,
       Working, StaysAtRest
  <2> QED
    BY <2>1, RestKept
<1>9. ASSUME NEW l \in Loop, LoopGoesOn(l) PROVE RestInv'
  <2>1. StaysAtRest
    BY <1>9, Workers DEF LoopGoesOn, Scans, Goes, Touches, up, loops, sessions, file, life,
       StepTypes, SessTypes, Working, StaysAtRest
  <2> QED
    BY <2>1, RestKept
<1>10. ASSUME NEW l \in Loop, LoopWaits(l) PROVE RestInv'
  <2>1. StaysAtRest
    BY <1>10, Workers DEF LoopWaits, Scans, Goes, up, loops, sessions, file, life, StepTypes,
       SessTypes, Working, StaysAtRest
  <2> QED
    BY <2>1, RestKept
<1>11. ASSUME NEW l \in Loop, NEW s \in Sess, NoticeMarks(l, s) PROVE RestInv'
  <2>1. StaysAtRest
    BY <1>11, Workers, NoticeMarksDo DEF Working, StaysAtRest
  <2> QED
    BY <2>1, RestKept
<1>12. ASSUME NEW l \in Loop, NEW s \in Sess, NoticeTells(l, s) PROVE RestInv'
  <2>1. /\ Working' \subseteq Working \union {s} /\ UNCHANGED <<todo, found>>
        /\ overlap \subseteq overlap' /\ (s \in overlap' \/ ~Busied(l, s))
        /\ \A v \in Worker : at'[v] = "prepare" => v # l /\ at[v] = "prepare"
    BY <1>12, Workers DEF NoticeTells, Goes, Touches, up, loops, sessions, file, life, Working,
       SessTypes, StepTypes
  <2>2. \A v \in Worker \ {l} : at[v] = "prepare" => Busied(l, s)
    BY DEF Busied
  <2> QED
    BY <2>1, <2>2 DEF RestInv
<1>13. ASSUME NEW l \in Loop, LoopSleeps(l) PROVE RestInv'
  <2>1. StaysAtRest
    BY <1>13, Workers DEF LoopSleeps, Scans, Goes, up, loops, sessions, file, life, StepTypes,
       SessTypes, Working, StaysAtRest
  <2> QED
    BY <2>1, RestKept
<1>14. ASSUME NEW l \in Loop, LoopInstalls(l) PROVE RestInv'
  <2>1. StaysAtRest
    BY <1>14, Workers DEF LoopInstalls, Scans, Goes, up, loops, sessions, file, life, StepTypes,
       SessTypes, Working, StaysAtRest
  <2> QED
    BY <2>1, RestKept
<1>15. ASSUME NEW l \in Loop, LoopFails(l) PROVE RestInv'
  <2>1. StaysAtRest
    BY <1>15, Workers DEF LoopFails, Scans, Goes, up, loops, sessions, file, life, StepTypes,
       SessTypes, Working, StaysAtRest
  <2> QED
    BY <2>1, RestKept
<1>16. ASSUME NEW l \in Loop, NEW s \in Sess, FailForgets(l, s) PROVE RestInv'
  <2>1. StaysAtRest
    BY <1>16, Workers, FailForgetsDo DEF Working, StaysAtRest
  <2> QED
    BY <2>1, RestKept
<1>17. ASSUME NEW l \in Loop, NEW s \in Sess, FailTells(l, s) PROVE RestInv'
  <2>1. /\ Working' \subseteq Working \union {s} /\ UNCHANGED <<todo, found, overlap>>
        /\ \A v \in Worker : at'[v] = "prepare" => v # l /\ at[v] = "prepare"
        /\ at[l] = "carry" /\ s \in cur[l]
    BY <1>17, Workers DEF FailTells, Goes, up, loops, sessions, file, life, Working, SessTypes,
       StepTypes
  <2>2. \A v \in Worker : at[v] = "prepare" /\ s \notin overlap => s \in todo[v]
    BY <2>1 DEF AloneInv, PastLook, Stopping, StepTypes
  <2> QED
    BY <2>1, <2>2 DEF RestInv
<1>18. ASSUME NEW l \in Loop, FailEnds(l) PROVE RestInv'
  <2>1. StaysAtRest
    BY <1>18, Workers DEF FailEnds, Goes, up, loops, sessions, file, life, StepTypes, SessTypes,
       Working, StaysAtRest
  <2> QED
    BY <2>1, RestKept
<1>19. ASSUME NEW w \in Worker, NEW s \in Sess, PrepareLooks(w, s) PROVE RestInv'
  <2>1. /\ overlap \subseteq overlap' /\ UNCHANGED <<at, live, work>>
        /\ todo'[w] = todo[w] \ {s} /\ \A v \in Worker \ {w} : found'[v] = found[v] /\ todo'[v] = todo[v]
        /\ (s \in Working /\ found'[w] = found[w] \union {s}) \/ (s \notin Working /\ found'[w] = found[w])
    BY <1>19, PrepareLooksDo
  <2> QED
    BY <2>1 DEF RestInv, Working
<1>20. ASSUME NEW w \in Worker, NEW s \in Sess, PrepareSets(w, s) PROVE RestInv'
  <2>1. StaysAtRest
    BY <1>20, Workers DEF PrepareSets, Touches, up, loops, sessions, file, life, StepTypes,
       SessTypes, Working, StaysAtRest
  <2> QED
    BY <2>1, RestKept
<1>21. ASSUME NEW w \in Worker, PrepareJoins(w) PROVE RestInv'
  <2>1. StaysAtRest
    BY <1>21, Workers DEF PrepareJoins, Goes, Prepared, up, loops, sessions, file, life,
       StepTypes, SessTypes, Working, StaysAtRest
  <2> QED
    BY <2>1, RestKept
<1>22. ASSUME NEW w \in Worker, PrepareSaves(w) PROVE RestInv'
  <2>1. StaysAtRest
    BY <1>22, Workers DEF PrepareSaves, Goes, Prepared, SaveRegistry, up, loops, sessions, file,
       life, StepTypes, SessTypes, Working, StaysAtRest
  <2> QED
    BY <2>1, RestKept
<1>23. CASE Terminate
  <2>1. StaysAtRest
    BY <1>23, Workers DEF Terminate, Scans, Goes, Touches, up, loops, sessions, file, life,
       StepTypes, SessTypes, Working, StaysAtRest
  <2> QED
    BY <2>1, RestKept
<1>24. ASSUME NEW l \in Loop, TakesReady(l) PROVE RestInv'
  <2>1. StaysAtRest
    BY <1>24, Workers DEF TakesReady, up, loops, sessions, file, life, StepTypes, SessTypes,
       Working, StaysAtRest
  <2> QED
    BY <2>1, RestKept
<1>25. CASE Stops
  BY <1>25 DEF Stops, EndsHow
<1>26. CASE Crash
  BY <1>26 DEF Crash, EndsHow
<1>27. CASE New
  BY <1>27 DEF New
<1>28. ASSUME NEW s \in Sess, WakeSends(s) PROVE RestInv'
  <2>1. /\ Working' \subseteq Working \union {s} /\ UNCHANGED <<at, todo, found>>
        /\ overlap \subseteq overlap' /\ (s \in overlap' \/ \A w \in Worker : ~PastLooking(w, s))
    BY <1>28 DEF WakeSends, up, loops, sessions, file, life, Working, SessTypes
  <2> QED
    BY <2>1 DEF RestInv, PastLooking
<1> QED
  BY <1>1, <1>2, <1>3, <1>4, <1>5, <1>6, <1>7, <1>8, <1>9, <1>10, <1>11, <1>12, <1>13, <1>14,
     <1>15, <1>16, <1>17, <1>18, <1>19, <1>20, <1>21, <1>22, <1>23, <1>24, <1>25, <1>26, <1>27,
     <1>28 DEF Next, LoopStep, PrepareStep, WakeStep

\* What a step leaves alone of a session leaves its promise noted.
LEMMA NotedAt ==
  ASSUME NEW s \in Sess, Noted(s), owed'[s] = owed[s], resume[s] # "" => resume'[s] # "",
         s \in noticed => s \in noticed',
         \A w \in Worker : prep[w][s] = "begin" => prep'[w][s] = "begin",
         \A l \in Loop : at[l] = "carry" /\ s \in cur[l] => at'[l] = "carry" /\ s \in cur'[l]
  PROVE  Noted(s)'
<1>1. Cutting(s) => Cutting(s)'
  BY DEF Cutting
<1>2. Revoking(s) => Revoking(s)'
  BY DEF Revoking
<1> QED
  BY <1>1, <1>2 DEF Noted

\* Promises, notes and those who are told it is off are as they were.
StaysNoted ==
  /\ overlap \subseteq overlap' /\ owed' = owed /\ prep' = prep /\ noticed \subseteq noticed'
  /\ \A s \in Sess : resume[s] # "" => resume'[s] # ""
  /\ \A l \in Loop : at[l] = "carry" => at'[l] = "carry" /\ cur'[l] = cur[l]

LEMMA NotedKept ==
  ASSUME NotedInv, StaysNoted
  PROVE  NotedInv'
<1>1. ASSUME NEW s \in Sess \ overlap' PROVE Noted(s)'
  <2>1. Noted(s)
    BY DEF NotedInv, StaysNoted
  <2> QED
    BY <2>1, NotedAt DEF StaysNoted
<1> QED
  BY <1>1 DEF NotedInv

\* One session's promise changes.
OthersNoted(s) ==
  /\ overlap \subseteq overlap'
  /\ \A t \in Sess \ {s} :
       /\ owed'[t] = owed[t] /\ (resume[t] # "" => resume'[t] # "")
       /\ t \in noticed => t \in noticed'
       /\ \A w \in Worker : prep[w][t] = "begin" => prep'[w][t] = "begin"
       /\ \A l \in Loop : at[l] = "carry" /\ t \in cur[l] => at'[l] = "carry" /\ t \in cur'[l]

LEMMA NotedBut ==
  ASSUME NotedInv, NEW s \in Sess, OthersNoted(s), s \notin overlap' => Noted(s)'
  PROVE  NotedInv'
<1>1. ASSUME NEW t \in Sess \ overlap' PROVE Noted(t)'
  <2>1. CASE t = s
    BY <2>1
  <2>2. CASE t # s
    <3>1. Noted(t)
      BY DEF NotedInv, OthersNoted
    <3> QED
      BY <2>2, <3>1, NotedAt DEF OthersNoted
  <2> QED
    BY <2>1, <2>2
<1> QED
  BY <1>1 DEF NotedInv

\* A promise has its note, or somebody at it.
LEMMA NotedP ==
  ASSUME StepTypes, SessTypes, LifeTypes, CurInv, WakeInv, NotedInv, phase = "up", phase' = "up", [Next]_vars
  PROVE  NotedInv'
<1>1. ASSUME UNCHANGED <<at, cur, prep, owed, resume, noticed, overlap>> PROVE NotedInv'
  BY <1>1, NotedKept DEF StaysNoted
<1>2. CASE UNCHANGED vars
  BY <1>1, <1>2 DEF vars, up, loops, sessions, file, life
<1>3. ASSUME NEW s \in Sess,
           EndWork(s) \/ WakeReads(s) \/ WakeFails(s)
    PROVE  NotedInv'
  BY <1>1, <1>3 DEF EndWork, WakeReads, WakeFails, up, loops, sessions, file, life
<1>4. ASSUME NEW l \in Loop, NEW s \in Sess,
           LoopLooks(l, s)
    PROVE  NotedInv'
  BY <1>1, <1>4 DEF LoopLooks, Drop, up, loops, sessions, file, life
<1>5. CASE OtherSave \/ WakeEnds
  BY <1>1, <1>5 DEF OtherSave, SaveRegistry, WakeEnds, up, loops, sessions, file, life
<1>6. ASSUME NEW s \in Sess, BeginWork(s) PROVE NotedInv'
  <2>1. StaysNoted
    BY <1>6, Workers DEF BeginWork, up, loops, sessions, file, life, StepTypes, SessTypes,
       WrappedUp, StaysNoted
  <2> QED
    BY <2>1, NotedKept
<1>7. CASE RequestUpgrade
  <2>1. StaysNoted
    BY <1>7, Workers DEF RequestUpgrade, Scans, Goes, up, loops, sessions, file, life,
       StepTypes, SessTypes, WrappedUp, StaysNoted
  <2> QED
    BY <2>1, NotedKept
<1>8. ASSUME NEW l \in Loop, LoopGoesOn(l) PROVE NotedInv'
  <2>1. StaysNoted
    BY <1>8, Workers DEF LoopGoesOn, Scans, Goes, Touches, up, loops, sessions, file, life,
       StepTypes, SessTypes, WrappedUp, StaysNoted
  <2> QED
    BY <2>1, NotedKept
<1>9. ASSUME NEW l \in Loop, LoopWaits(l) PROVE NotedInv'
  <2>1. StaysNoted
    BY <1>9, Workers DEF LoopWaits, Scans, Goes, up, loops, sessions, file, life, StepTypes,
       SessTypes, WrappedUp, StaysNoted
  <2> QED
    BY <2>1, NotedKept
<1>10. ASSUME NEW l \in Loop, NEW s \in Sess, NoticeMarks(l, s) PROVE NotedInv'
  <2>1. StaysNoted
    BY <1>10, Workers, NoticeMarksDo DEF StaysNoted
  <2> QED
    BY <2>1, NotedKept
<1>11. ASSUME NEW l \in Loop, NEW s \in Sess, NoticeTells(l, s) PROVE NotedInv'
  <2>1. OthersNoted(s)
    BY <1>11, Workers DEF NoticeTells, Goes, Touches, up, loops, sessions, file, life,
       StepTypes, SessTypes, OthersNoted
  <2>2. /\ UNCHANGED <<prep, noticed, resume>> /\ (owed'[s] = owed[s] \/ owed'[s] = "wake")
        /\ \A m \in Loop : at[m] = "carry" => at'[m] = "carry" /\ cur'[m] = cur[m]
    BY <1>11, Workers DEF NoticeTells, Goes, Touches, up, loops, sessions, file, life,
       StepTypes, SessTypes
  <2>3. ASSUME s \notin overlap' PROVE Noted(s)'
    <3>1. s \in noticed /\ Noted(s)
      BY <1>11, <2>1, <2>3 DEF NoticeTells, CurInv, NotedInv, OthersNoted
    <3>2. CASE owed'[s] = owed[s]
      BY <2>2, <3>1, <3>2, NotedAt
    <3>3. CASE owed'[s] = "wake"
      BY <2>2, <3>1, <3>3 DEF Noted
    <3> QED
      BY <2>2, <3>2, <3>3
  <2> QED
    BY <2>1, <2>3, NotedBut DEF OthersNoted
<1>12. ASSUME NEW l \in Loop, LoopSleeps(l) PROVE NotedInv'
  <2>1. StaysNoted
    BY <1>12, Workers DEF LoopSleeps, Scans, Goes, up, loops, sessions, file, life, StepTypes,
       SessTypes, WrappedUp, StaysNoted
  <2> QED
    BY <2>1, NotedKept
<1>13. ASSUME NEW l \in Loop, LoopInstalls(l) PROVE NotedInv'
  <2>1. StaysNoted
    BY <1>13, Workers DEF LoopInstalls, Scans, Goes, up, loops, sessions, file, life, StepTypes,
       SessTypes, WrappedUp, StaysNoted
  <2> QED
    BY <2>1, NotedKept
<1>14. ASSUME NEW l \in Loop, LoopFails(l) PROVE NotedInv'
  <2>1. StaysNoted
    BY <1>14, Workers DEF LoopFails, Scans, Goes, up, loops, sessions, file, life, StepTypes,
       SessTypes, WrappedUp, StaysNoted
  <2> QED
    BY <2>1, NotedKept
<1>15. ASSUME NEW l \in Loop, NEW s \in Sess, FailForgets(l, s) PROVE NotedInv'
  <2>0. \A t \in Sess \ {s} : resume'[t] = resume[t]
    BY <1>15 DEF FailForgets, SessTypes
  <2>1. /\ noticed' = noticed \ {s} /\ UNCHANGED <<owed, prep>> /\ at[l] = "failing"
        /\ \A m \in Loop \ {l} : at'[m] = at[m] /\ cur'[m] = cur[m]
        /\ (s \notin overlap' => ~Unsent(s)) /\ (s \in noticed => at'[l] = "carry" /\ cur'[l] = {s})
    BY <1>15, Workers, FailForgetsDo
  <2>2. OthersNoted(s)
    BY <1>15, <2>0, <2>1, FailForgetsDo DEF OthersNoted
  <2>3. ASSUME s \notin overlap' PROVE Noted(s)'
    <3>1. owed'[s] # "resume" /\ (owed'[s] = "wake" => at'[l] = "carry" /\ s \in cur'[l])
      BY <2>1, <2>3 DEF Unsent
    <3> QED
      BY <3>1 DEF Noted, Revoking
  <2> QED
    BY <2>2, <2>3, NotedBut DEF OthersNoted
<1>16. ASSUME NEW l \in Loop, NEW s \in Sess, FailTells(l, s) PROVE NotedInv'
  <2>1. /\ UNCHANGED <<overlap, prep, noticed, resume>> /\ at[l] = "carry" /\ s \in cur[l]
        /\ \A t \in Sess \ {s} : owed'[t] = owed[t]
        /\ s \in live => owed'[s] # "wake" /\ (owed'[s] = "resume" => owed[s] = "resume")
        /\ \A m \in Loop \ {l} : at'[m] = at[m] /\ cur'[m] = cur[m]
    BY <1>16, Workers DEF FailTells, Goes, up, loops, sessions, file, life, StepTypes, SessTypes
  <2>2. s \in live /\ \A t \in cur[l] : t = s
    BY <2>1 DEF CurInv
  <2>3. OthersNoted(s)
    BY <2>1, <2>2 DEF OthersNoted
  <2>4. ASSUME s \notin overlap' PROVE Noted(s)'
    <3>1. Noted(s)
      BY <2>1, <2>4 DEF NotedInv
    <3> QED
      BY <2>1, <2>2, <3>1 DEF Noted, Cutting
  <2> QED
    BY <2>3, <2>4, NotedBut DEF OthersNoted
<1>17. ASSUME NEW l \in Loop, FailEnds(l) PROVE NotedInv'
  <2>1. StaysNoted
    BY <1>17, Workers DEF FailEnds, Goes, up, loops, sessions, file, life, StepTypes, SessTypes,
       WrappedUp, StaysNoted
  <2> QED
    BY <2>1, NotedKept
<1>18. ASSUME NEW w \in Worker, NEW s \in Sess, PrepareLooks(w, s) PROVE NotedInv'
  <2>1. /\ overlap \subseteq overlap' /\ UNCHANGED <<at, cur, noticed, resume>>
        /\ \A t \in Sess \ {s} : owed'[t] = owed[t] /\ \A v \in Worker : prep'[v][t] = prep[v][t]
        /\ \/ owed'[s] = "resume" /\ prep'[w][s] = "begin"
           \/ owed' = owed /\ prep' = prep
    BY <1>18, PrepareLooksDo
  <2>2. ASSUME s \notin overlap' PROVE Noted(s)'
    <3>1. CASE owed'[s] = "resume" /\ prep'[w][s] = "begin"
      BY <3>1 DEF Noted, Cutting
    <3>2. CASE owed' = owed /\ prep' = prep
      BY <2>1, <2>2, <3>2, NotedAt DEF NotedInv
    <3> QED
      BY <2>1, <3>1, <3>2
  <2> QED
    BY <2>1, <2>2, NotedBut DEF OthersNoted
<1>19. ASSUME NEW w \in Worker, NEW s \in Sess, PrepareSets(w, s) PROVE NotedInv'
  <2>1. /\ overlap \subseteq overlap' /\ UNCHANGED <<at, cur, noticed, owed>> /\ resume'[s] # ""
        /\ \A t \in Sess \ {s} : resume'[t] = resume[t] /\ \A v \in Worker : prep'[v][t] = prep[v][t]
    BY <1>19 DEF PrepareSets, Touches, up, loops, sessions, file, life, StepTypes, SessTypes
  <2>2. Noted(s)'
    BY <2>1 DEF Noted
  <2> QED
    BY <2>1, <2>2, NotedBut DEF OthersNoted
<1>20. ASSUME NEW w \in Worker, PrepareJoins(w) PROVE NotedInv'
  <2>1. StaysNoted
    BY <1>20, Workers DEF PrepareJoins, Goes, Prepared, up, loops, sessions, file, life,
       StepTypes, SessTypes, WrappedUp, StaysNoted
  <2> QED
    BY <2>1, NotedKept
<1>21. ASSUME NEW w \in Worker, PrepareSaves(w) PROVE NotedInv'
  <2>1. StaysNoted
    BY <1>21, Workers DEF PrepareSaves, Goes, Prepared, SaveRegistry, up, loops, sessions, file,
       life, StepTypes, SessTypes, WrappedUp, StaysNoted
  <2> QED
    BY <2>1, NotedKept
<1>22. CASE Terminate
  <2>1. StaysNoted
    BY <1>22, Workers DEF Terminate, Scans, Goes, Touches, up, loops, sessions, file, life,
       StepTypes, SessTypes, WrappedUp, StaysNoted
  <2> QED
    BY <2>1, NotedKept
<1>23. ASSUME NEW l \in Loop, TakesReady(l) PROVE NotedInv'
  <2>1. StaysNoted
    BY <1>23, Workers DEF TakesReady, up, loops, sessions, file, life, StepTypes, SessTypes,
       WrappedUp, StaysNoted
  <2> QED
    BY <2>1, NotedKept
<1>24. CASE Stops
  BY <1>24 DEF Stops, EndsHow
<1>25. CASE Crash
  BY <1>25 DEF Crash, EndsHow
<1>26. CASE New
  BY <1>26 DEF New
<1>27. ASSUME NEW s \in Sess, WakeSends(s) PROVE NotedInv'
  <2>1. /\ overlap \subseteq overlap' /\ UNCHANGED <<at, cur, prep, noticed, resume>>
        /\ owed'[s] = "nothing" /\ \A t \in Sess \ {s} : owed'[t] = owed[t]
    BY <1>27 DEF WakeSends, up, loops, sessions, file, life, SessTypes
  <2>2. Noted(s)'
    BY <2>1 DEF Noted
  <2> QED
    BY <2>1, <2>2, NotedBut DEF OthersNoted
<1>28. ASSUME NEW s \in Sess, WakeClears(s) PROVE NotedInv'
  <2>1. /\ UNCHANGED <<overlap, owed, at, cur, prep, noticed>> /\ wake.step = "clear" /\ s \in wake.at
        /\ \A t \in Sess \ {s} : resume'[t] = resume[t]
    BY <1>28 DEF WakeClears, up, loops, sessions, file, life, SessTypes
  <2>2. s \notin overlap' => owed'[s] = "nothing"
    BY <2>1 DEF WakeInv
  <2>3. s \notin overlap' => Noted(s)'
    BY <2>2 DEF Noted
  <2> QED
    BY <2>1, <2>3, NotedBut DEF OthersNoted
<1> QED
  BY <1>1, <1>2, <1>3, <1>4, <1>5, <1>6, <1>7, <1>8, <1>9, <1>10, <1>11, <1>12, <1>13, <1>14,
     <1>15, <1>16, <1>17, <1>18, <1>19, <1>20, <1>21, <1>22, <1>23, <1>24, <1>25, <1>26, <1>27,
     <1>28 DEF Next, LoopStep, PrepareStep, WakeStep

\* Notes stay, nobody else is noticed, and nobody else comes to the install.
StaysWrapped ==
  /\ overlap \subseteq overlap' /\ noticed' \subseteq noticed /\ upgraded' = upgraded
  /\ \A s \in noticed' : resume[s] # "" => resume'[s] # ""
  /\ \A w \in Worker : at'[w] \in Wrapped /\ Upgrades(w) => at[w] \in Wrapped

LEMMA WrappedKept ==
  ASSUME WrappedInv, StaysWrapped
  PROVE  WrappedInv'
BY DEF WrappedInv, Upgrades, StaysWrapped

\* Who was noticed has a note once an upgrade installs.
LEMMA WrappedP ==
  ASSUME StepTypes, SessTypes, LifeTypes, HeadingInv, NoticeInv, PrepInv, WrappedInv, phase = "up", phase' = "up", [Next]_vars
  PROVE  WrappedInv'
<1>1. ASSUME UNCHANGED <<at, resume, noticed, overlap, upgraded>> PROVE WrappedInv'
  BY <1>1 DEF WrappedInv, Upgrades
<1>2. CASE UNCHANGED vars
  BY <1>1, <1>2 DEF vars, up, loops, sessions, file, life
<1>3. ASSUME NEW s \in Sess,
           EndWork(s) \/ WakeReads(s) \/ WakeFails(s)
    PROVE  WrappedInv'
  BY <1>1, <1>3 DEF EndWork, WakeReads, WakeFails, up, loops, sessions, file, life
<1>4. ASSUME NEW l \in Loop, NEW s \in Sess,
           LoopLooks(l, s)
    PROVE  WrappedInv'
  BY <1>1, <1>4 DEF LoopLooks, Drop, up, loops, sessions, file, life
<1>5. CASE OtherSave \/ WakeEnds
  BY <1>1, <1>5 DEF OtherSave, SaveRegistry, WakeEnds, up, loops, sessions, file, life
<1>6. ASSUME NEW s \in Sess, BeginWork(s) PROVE WrappedInv'
  <2>1. StaysWrapped
    BY <1>6, Workers DEF BeginWork, up, loops, sessions, file, life, StepTypes, SessTypes,
       StaysWrapped, Wrapped
  <2> QED
    BY <2>1, WrappedKept
<1>7. CASE RequestUpgrade
  <2>1. StaysWrapped
    BY <1>7, Workers DEF RequestUpgrade, Scans, Goes, up, loops, sessions, file, life,
       StepTypes, SessTypes, StaysWrapped, Wrapped
  <2> QED
    BY <2>1, WrappedKept
<1>8. ASSUME NEW l \in Loop, LoopGoesOn(l) PROVE WrappedInv'
  <2>1. resume' = WrappedUp /\ noticed' = noticed /\ overlap \subseteq overlap'
    BY <1>8 DEF LoopGoesOn, Scans, Goes, Touches, up, loops, sessions, file, life
  <2>2. \A s \in noticed : resume'[s] # ""
    BY <2>1 DEF WrappedUp, SessTypes
  <2> QED
    BY <2>1, <2>2 DEF WrappedInv
<1>9. ASSUME NEW l \in Loop, LoopWaits(l) PROVE WrappedInv'
  <2>1. StaysWrapped
    BY <1>9, Workers DEF LoopWaits, Scans, Goes, up, loops, sessions, file, life, StepTypes,
       SessTypes, StaysWrapped, Wrapped
  <2> QED
    BY <2>1, WrappedKept
<1>10. ASSUME NEW l \in Loop, NEW s \in Sess, NoticeMarks(l, s) PROVE WrappedInv'
  <2>1. /\ overlap \subseteq overlap' /\ UNCHANGED <<resume, upgraded>>
        /\ noticed' = noticed \/ (noticed' = noticed \union {s} /\ (s \notin overlap' => ~Busied(l, s)))
        /\ at[l] = "notice" /\ at'[l] \in {"notice", "tell"} /\ \A v \in Worker \ {l} : at'[v] = at[v]
    BY <1>10, NoticeMarksDo
  <2>2. ASSUME NEW v \in Worker, at'[v] \in Wrapped, Upgrades(v)
        PROVE  v # l /\ at[v] = at'[v] /\ at[v] # "install"
    <3>1. v # l /\ at[v] = at'[v]
      BY <2>1, <2>2 DEF Wrapped
    <3> QED
      BY <2>1, <3>1 DEF HeadingInv, Heading, StepTypes, Worker
  <2>3. ASSUME NEW v \in Worker, at'[v] \in Wrapped, Upgrades(v)
        PROVE  noticed' \ overlap' \subseteq noticed \ overlap
    <3>1. at[v] \in {"prepare", "save", "ready", "close"} /\ v \in Worker \ {l}
      BY <2>2, <2>3 DEF Wrapped
    <3>2. Busied(l, s)
      BY <3>1 DEF Busied
    <3> QED
      BY <2>1, <3>2
  <2>4. \A v \in Worker : Upgrades(v)' <=> Upgrades(v)
    BY <2>1 DEF Upgrades
  <2> QED
    BY <2>1, <2>2, <2>3, <2>4 DEF WrappedInv
<1>11. ASSUME NEW l \in Loop, NEW s \in Sess, NoticeTells(l, s) PROVE WrappedInv'
  <2>1. StaysWrapped
    BY <1>11, Workers DEF NoticeTells, Goes, Touches, up, loops, sessions, file, life,
       StepTypes, SessTypes, StaysWrapped, Wrapped
  <2> QED
    BY <2>1, WrappedKept
<1>12. ASSUME NEW l \in Loop, LoopSleeps(l) PROVE WrappedInv'
  <2>1. StaysWrapped
    BY <1>12, Workers DEF LoopSleeps, Scans, Goes, up, loops, sessions, file, life, StepTypes,
       SessTypes, StaysWrapped, Wrapped
  <2> QED
    BY <2>1, WrappedKept
<1>13. ASSUME NEW l \in Loop, LoopInstalls(l) PROVE WrappedInv'
  <2>1. StaysWrapped
    BY <1>13, Workers DEF LoopInstalls, Scans, Goes, up, loops, sessions, file, life, StepTypes,
       SessTypes, StaysWrapped, Wrapped
  <2> QED
    BY <2>1, WrappedKept
<1>14. ASSUME NEW l \in Loop, LoopFails(l) PROVE WrappedInv'
  <2>1. StaysWrapped
    BY <1>14, Workers DEF LoopFails, Scans, Goes, up, loops, sessions, file, life, StepTypes,
       SessTypes, StaysWrapped, Wrapped
  <2> QED
    BY <2>1, WrappedKept
<1>15. ASSUME NEW l \in Loop, NEW s \in Sess, FailForgets(l, s) PROVE WrappedInv'
  <2>0. noticed \subseteq Sess /\ \A t \in Sess \ {s} : resume'[t] = resume[t]
    BY <1>15 DEF FailForgets, SessTypes
  <2>1. /\ overlap \subseteq overlap' /\ noticed' = noticed \ {s} /\ upgraded' = upgraded
        /\ at'[l] \in {"failing", "carry"} /\ \A v \in Worker \ {l} : at'[v] = at[v]
    BY <1>15, FailForgetsDo
  <2>2. \A v \in Worker : at'[v] \in Wrapped => at[v] = at'[v]
    BY <2>1 DEF Wrapped
  <2> QED
    BY <2>0, <2>1, <2>2, WrappedKept DEF StaysWrapped
<1>16. ASSUME NEW l \in Loop, NEW s \in Sess, FailTells(l, s) PROVE WrappedInv'
  <2>1. StaysWrapped
    BY <1>16, Workers DEF FailTells, Goes, up, loops, sessions, file, life, StepTypes, SessTypes,
       StaysWrapped, Wrapped
  <2> QED
    BY <2>1, WrappedKept
<1>17. ASSUME NEW l \in Loop, FailEnds(l) PROVE WrappedInv'
  <2>1. StaysWrapped
    BY <1>17, Workers DEF FailEnds, Goes, up, loops, sessions, file, life, StepTypes, SessTypes,
       StaysWrapped, Wrapped
  <2> QED
    BY <2>1, WrappedKept
<1>18. ASSUME NEW w \in Worker, NEW s \in Sess, PrepareLooks(w, s) PROVE WrappedInv'
  <2>1. StaysWrapped
    BY <1>18, PrepareLooksDo DEF StaysWrapped, Wrapped
  <2> QED
    BY <2>1, WrappedKept
<1>19. ASSUME NEW w \in Worker, NEW s \in Sess, PrepareSets(w, s) PROVE WrappedInv'
  <2>1. StaysWrapped
    BY <1>19, Workers DEF PrepareSets, Touches, up, loops, sessions, file, life, StepTypes,
       SessTypes, StaysWrapped, Wrapped
  <2> QED
    BY <2>1, WrappedKept
<1>20. ASSUME NEW w \in Worker, PrepareJoins(w) PROVE WrappedInv'
  <2>1. StaysWrapped
    BY <1>20, Workers DEF PrepareJoins, Goes, Prepared, up, loops, sessions, file, life,
       StepTypes, SessTypes, StaysWrapped, Wrapped
  <2> QED
    BY <2>1, WrappedKept
<1>21. ASSUME NEW w \in Worker, PrepareSaves(w) PROVE WrappedInv'
  <2>1. StaysWrapped
    BY <1>21, Workers DEF PrepareSaves, Goes, Prepared, SaveRegistry, up, loops, sessions, file,
       life, StepTypes, SessTypes, StaysWrapped, Wrapped
  <2> QED
    BY <2>1, WrappedKept
<1>22. CASE Terminate
  <2>1. /\ overlap \subseteq overlap' /\ UNCHANGED <<noticed, resume, upgraded>>
        /\ \A v \in Worker \ {"main"} : at'[v] = at[v]
    BY <1>22 DEF Terminate, Scans, Goes, Touches, up, loops, sessions, file, life, StepTypes
  <2>2. ~upgraded
    BY <1>22 DEF Terminate, PrepInv
  <2>3. ~Upgrades("main")
    BY <2>2, Workers DEF Upgrades
  <2> QED
    BY <2>1, <2>3, WrappedKept DEF StaysWrapped
<1>23. ASSUME NEW l \in Loop, TakesReady(l) PROVE WrappedInv'
  <2>1. /\ UNCHANGED <<overlap, noticed, resume>> /\ at[l] = "ready"
    BY <1>23 DEF TakesReady, up, loops, sessions, file, life
  <2>2. \A s \in noticed \ overlap : resume[s] # ""
    BY <2>1, Workers DEF WrappedInv, Upgrades, Wrapped
  <2> QED
    BY <2>1, <2>2 DEF WrappedInv
<1>24. CASE Stops
  BY <1>24 DEF Stops, EndsHow
<1>25. CASE Crash
  BY <1>25 DEF Crash, EndsHow
<1>26. CASE New
  BY <1>26 DEF New
<1>27. ASSUME NEW s \in Sess, WakeSends(s) PROVE WrappedInv'
  <2>1. StaysWrapped
    BY <1>27, Workers DEF WakeSends, up, loops, sessions, file, life, StepTypes, SessTypes,
       StaysWrapped, Wrapped
  <2> QED
    BY <2>1, WrappedKept
<1>28. ASSUME NEW s \in Sess, WakeClears(s) PROVE WrappedInv'
  <2>1. /\ UNCHANGED <<overlap, noticed, at, upgraded>> /\ s \in wake.at
        /\ \A t \in Sess \ {s} : resume'[t] = resume[t]
    BY <1>28 DEF WakeClears, up, loops, sessions, file, life, SessTypes
  <2>2. s \notin noticed \ overlap
    BY <2>1 DEF NoticeInv
  <2> QED
    BY <2>1, <2>2 DEF WrappedInv, Upgrades, SessTypes
<1> QED
  BY <1>1, <1>2, <1>3, <1>4, <1>5, <1>6, <1>7, <1>8, <1>9, <1>10, <1>11, <1>12, <1>13, <1>14,
     <1>15, <1>16, <1>17, <1>18, <1>19, <1>20, <1>21, <1>22, <1>23, <1>24, <1>25, <1>26, <1>27,
     <1>28 DEF Next, LoopStep, PrepareStep, WakeStep

\* When a stop has gone over all, its promises have their notes.
LEMMA ResumeThere ==
  ASSUME StepTypes, PrepInv, AloneInv, NotedInv, WrappedInv,
         NEW w \in Worker, at[w] \in Stopping, todo[w] = {}, \A t \in Sess : prep[w][t] # "begin",
         NEW s \in Sess \ overlap, Promised(w, s)
  PROVE  resume[s] # ""
<1>1. \A v \in Worker \ {w} : at[v] \in Stopping => s \in todo[v]
  BY DEF AloneInv, PastLook
<1>2. ~Revoking(s)
  BY DEF AloneInv, PastLook, Revoking
<1>3. ~Cutting(s)
  <2> SUFFICES ASSUME NEW v \in Worker, prep[v][s] = "begin" PROVE FALSE
    BY DEF Cutting
  <2>1. v # w /\ at[v] = "prepare" /\ s \in found[v] /\ found[v] \intersect todo[v] = {}
    BY DEF PrepInv
  <2> QED
    BY <1>1, <2>1 DEF Stopping
<1>4. Noted(s)
  BY DEF NotedInv
<1>5. CASE owed[s] = "resume"
  BY <1>3, <1>4, <1>5 DEF Noted
<1>6. CASE owed[s] = "wake" /\ Upgrades(w)
  <2>1. s \in noticed => resume[s] # ""
    BY <1>6 DEF WrappedInv, Wrapped, Stopping
  <2> QED
    BY <1>2, <1>4, <1>6, <2>1 DEF Noted
<1> QED
  BY <1>5, <1>6 DEF Promised

\* A stop that is done, or is to save, has its promises in the notes.
LEMMA DoneNoted ==
  ASSUME StepTypes, PrepInv, AloneInv, NotedInv, WrappedInv,
         NEW w \in Worker, at[w] \in {"save", "ready", "close"}, NEW s \in Sess \ overlap, Promised(w, s)
  PROVE  resume[s] # ""
<1>1. at[w] \in Stopping /\ todo[w] = {} /\ \A t \in Sess : prep[w][t] # "begin"
  BY DEF PrepInv, Stopping
<1> QED
  BY <1>1, ResumeThere

\* What is in the file stays there, and nobody is promised more.
LEMMA FileKept ==
  ASSUME FileInv, overlap \subseteq overlap', disk' = disk, upgraded' = upgraded,
         \A w \in Worker : at'[w] \in {"ready", "close"} =>
           at[w] \in {"ready", "close"} /\ \A s \in Sess \ overlap' : Promised(w, s)' => Promised(w, s)
  PROVE  FileInv'
BY DEF FileInv

StaysFiled ==
  /\ overlap \subseteq overlap' /\ disk' = disk /\ upgraded' = upgraded
  /\ \A w \in Worker : at'[w] \in {"ready", "close"} => at[w] \in {"ready", "close"}
  /\ \A s \in Sess : owed'[s] # "nothing" => owed'[s] = owed[s]

LEMMA FileStays ==
  ASSUME FileInv, StaysFiled
  PROVE  FileInv'
BY FileKept DEF Promised, Upgrades, StaysFiled

\* The notes go to the file.
LEMMA FileSaved ==
  ASSUME StepTypes, PrepInv, AloneInv, NotedInv, WrappedInv, UNCHANGED <<overlap, owed, upgraded>>, disk' = resume,
         \A w \in Worker : at'[w] \in {"ready", "close"} => at[w] \in {"save", "ready", "close"}
  PROVE  FileInv'
<1> SUFFICES ASSUME NEW w \in Worker, at'[w] \in {"ready", "close"}, NEW s \in Sess \ overlap', Promised(w, s)'
             PROVE  disk'[s] # ""
  BY DEF FileInv
<1>1. Promised(w, s)
  BY DEF Promised, Upgrades
<1> QED
  BY <1>1, DoneNoted

\* What a stop promised is in the file.
LEMMA FileP ==
  ASSUME StepTypes, SessTypes, LifeTypes, PrepInv, AloneInv, RestInv, NotedInv, WrappedInv, FileInv, phase = "up", phase' = "up", [Next]_vars
  PROVE  FileInv'
<1>1. ASSUME UNCHANGED <<at, owed, disk, overlap, upgraded>> PROVE FileInv'
  BY <1>1 DEF FileInv, Promised, Upgrades
<1>2. CASE UNCHANGED vars
  BY <1>1, <1>2 DEF vars, up, loops, sessions, file, life
<1>3. ASSUME NEW s \in Sess,
           EndWork(s) \/ WakeReads(s) \/ WakeFails(s) \/ WakeClears(s)
    PROVE  FileInv'
  BY <1>1, <1>3 DEF EndWork, WakeReads, WakeFails, WakeClears, up, loops, sessions, file, life
<1>4. ASSUME NEW l \in Loop, NEW s \in Sess,
           LoopLooks(l, s)
    PROVE  FileInv'
  BY <1>1, <1>4 DEF LoopLooks, Drop, up, loops, sessions, file, life
<1>5. ASSUME NEW s \in Sess, BeginWork(s) PROVE FileInv'
  <2>1. StaysFiled
    BY <1>5, Workers DEF BeginWork, up, loops, sessions, file, life, StepTypes, SessTypes,
       StaysFiled
  <2> QED
    BY <2>1, FileStays
<1>6. CASE RequestUpgrade
  <2>1. StaysFiled
    BY <1>6, Workers DEF RequestUpgrade, Scans, Goes, up, loops, sessions, file, life,
       StepTypes, SessTypes, StaysFiled
  <2> QED
    BY <2>1, FileStays
<1>7. ASSUME NEW l \in Loop, LoopGoesOn(l) PROVE FileInv'
  <2>1. StaysFiled
    BY <1>7, Workers DEF LoopGoesOn, Scans, Goes, Touches, up, loops, sessions, file, life,
       StepTypes, SessTypes, StaysFiled
  <2> QED
    BY <2>1, FileStays
<1>8. ASSUME NEW l \in Loop, LoopWaits(l) PROVE FileInv'
  <2>1. StaysFiled
    BY <1>8, Workers DEF LoopWaits, Scans, Goes, up, loops, sessions, file, life, StepTypes,
       SessTypes, StaysFiled
  <2> QED
    BY <2>1, FileStays
<1>9. ASSUME NEW l \in Loop, NEW s \in Sess, NoticeMarks(l, s) PROVE FileInv'
  <2>1. StaysFiled
    BY <1>9, Workers, NoticeMarksDo DEF StaysFiled
  <2> QED
    BY <2>1, FileStays
<1>10. ASSUME NEW l \in Loop, NEW s \in Sess, NoticeTells(l, s) PROVE FileInv'
  <2>1. /\ overlap \subseteq overlap' /\ disk' = disk /\ upgraded' = upgraded
        /\ (s \notin overlap' => ~Busied(l, s)) /\ \A t \in Sess \ {s} : owed'[t] = owed[t]
        /\ \A v \in Worker : at'[v] \in {"ready", "close"} => v # l /\ at[v] \in {"ready", "close"}
    BY <1>10, Workers DEF NoticeTells, Goes, Touches, up, loops, sessions, file, life,
       StepTypes, SessTypes
  <2>2. ASSUME NEW v \in Worker, at'[v] \in {"ready", "close"} PROVE Busied(l, s)
    BY <2>1, <2>2 DEF Busied
  <2> QED
    BY <2>1, <2>2, FileKept DEF Promised, Upgrades
<1>11. ASSUME NEW l \in Loop, LoopSleeps(l) PROVE FileInv'
  <2>1. StaysFiled
    BY <1>11, Workers DEF LoopSleeps, Scans, Goes, up, loops, sessions, file, life, StepTypes,
       SessTypes, StaysFiled
  <2> QED
    BY <2>1, FileStays
<1>12. ASSUME NEW l \in Loop, LoopInstalls(l) PROVE FileInv'
  <2>1. StaysFiled
    BY <1>12, Workers DEF LoopInstalls, Scans, Goes, up, loops, sessions, file, life, StepTypes,
       SessTypes, StaysFiled
  <2> QED
    BY <2>1, FileStays
<1>13. ASSUME NEW l \in Loop, LoopFails(l) PROVE FileInv'
  <2>1. StaysFiled
    BY <1>13, Workers DEF LoopFails, Scans, Goes, up, loops, sessions, file, life, StepTypes,
       SessTypes, StaysFiled
  <2> QED
    BY <2>1, FileStays
<1>14. ASSUME NEW l \in Loop, NEW s \in Sess, FailForgets(l, s) PROVE FileInv'
  <2>1. StaysFiled
    BY <1>14, Workers, FailForgetsDo DEF StaysFiled
  <2> QED
    BY <2>1, FileStays
<1>15. ASSUME NEW l \in Loop, NEW s \in Sess, FailTells(l, s) PROVE FileInv'
  <2>1. StaysFiled
    BY <1>15, Workers DEF FailTells, Goes, up, loops, sessions, file, life, StepTypes, SessTypes,
       StaysFiled
  <2> QED
    BY <2>1, FileStays
<1>16. ASSUME NEW l \in Loop, FailEnds(l) PROVE FileInv'
  <2>1. StaysFiled
    BY <1>16, Workers DEF FailEnds, Goes, up, loops, sessions, file, life, StepTypes, SessTypes,
       StaysFiled
  <2> QED
    BY <2>1, FileStays
<1>17. ASSUME NEW w \in Worker, NEW s \in Sess, PrepareLooks(w, s) PROVE FileInv'
  <2>1. /\ overlap \subseteq overlap' /\ disk' = disk /\ upgraded' = upgraded /\ at' = at /\ at[w] = "prepare"
        /\ (s \notin overlap' => ~Busied(w, s)) /\ \A t \in Sess \ {s} : owed'[t] = owed[t]
    BY <1>17, PrepareLooksDo
  <2>2. ASSUME NEW v \in Worker, at[v] \in {"ready", "close"} PROVE Busied(w, s)
    BY <2>1, <2>2 DEF Busied
  <2> QED
    BY <2>1, <2>2, FileKept DEF Promised, Upgrades
<1>18. ASSUME NEW w \in Worker, NEW s \in Sess, PrepareSets(w, s) PROVE FileInv'
  <2>1. StaysFiled
    BY <1>18, Workers DEF PrepareSets, Touches, up, loops, sessions, file, life, StepTypes,
       SessTypes, StaysFiled
  <2> QED
    BY <2>1, FileStays
<1>19. ASSUME NEW w \in Worker, PrepareJoins(w) PROVE FileInv'
  <2>1. /\ at[w] = "prepare" /\ todo[w] = {} /\ \A s \in found[w] : prep[w][s] = "done"
        /\ UNCHANGED <<overlap, disk, upgraded, owed>> /\ \A v \in Worker \ {w} : at'[v] = at[v]
        /\ at'[w] \in {"ready", "close"} => ~Flagged(w)
    BY <1>19 DEF PrepareJoins, Goes, Prepared, up, loops, sessions, file, life, StepTypes
  <2>2. \A t \in Sess : prep[w][t] # "begin"
    BY <2>1 DEF PrepInv
  <2>3. ASSUME NEW s \in Sess \ overlap, at'[w] \in {"ready", "close"} PROVE ~Promised(w, s)
    <3>1. found[w] = {} /\ \A t \in Sess \ Working : resume[t] = ""
      BY <2>1, <2>3 DEF Flagged
    <3>2. s \notin Working
      BY <2>1, <3>1 DEF RestInv
    <3> QED
      BY <2>1, <2>2, <3>1, <3>2, ResumeThere DEF Stopping
  <2>4. ASSUME NEW v \in Worker, at'[v] \in {"ready", "close"}, NEW s \in Sess \ overlap', Promised(v, s)'
        PROVE  disk'[s] # ""
    <3>1. Promised(v, s)
      BY <2>1, <2>4 DEF Promised, Upgrades
    <3> QED
      BY <2>1, <2>3, <2>4, <3>1 DEF FileInv
  <2> QED
    BY <2>4 DEF FileInv
<1>20. ASSUME NEW w \in Worker, PrepareSaves(w) PROVE FileInv'
  <2>1. /\ UNCHANGED <<overlap, owed, upgraded>> /\ disk' = resume
        /\ \A v \in Worker : at'[v] \in {"ready", "close"} => at[v] \in {"save", "ready", "close"}
    BY <1>20 DEF PrepareSaves, Goes, Prepared, SaveRegistry, up, loops, sessions, file, life,
       StepTypes
  <2> QED
    BY <2>1, FileSaved
<1>21. CASE OtherSave
  <2>1. UNCHANGED <<overlap, owed, upgraded, at>> /\ disk' = resume
    BY <1>21 DEF OtherSave, SaveRegistry, up, loops, sessions, file, life
  <2> QED
    BY <2>1, FileSaved
<1>22. CASE Terminate
  <2>1. StaysFiled
    BY <1>22, Workers DEF Terminate, Scans, Goes, Touches, up, loops, sessions, file, life,
       StepTypes, SessTypes, StaysFiled
  <2> QED
    BY <2>1, FileStays
<1>23. ASSUME NEW l \in Loop, TakesReady(l) PROVE FileInv'
  <2>1. /\ at[l] = "ready" /\ UNCHANGED <<overlap, owed, disk>> /\ at["main"] = "off"
        /\ \A v \in Worker \ {l, "main"} : at'[v] = at[v]
        /\ at'[l] = "off" /\ at'["main"] = "close"
    BY <1>23, Workers DEF TakesReady, up, loops, sessions, file, life, StepTypes
  <2>2. ASSUME NEW s \in Sess \ overlap, owed[s] # "nothing" PROVE disk[s] # ""
    BY <2>1, <2>2, Workers DEF FileInv, Promised, Upgrades, SessTypes
  <2> QED
    BY <2>1, <2>2 DEF FileInv, Promised
<1>24. CASE Stops
  BY <1>24 DEF Stops, EndsHow
<1>25. CASE Crash
  BY <1>25 DEF Crash, EndsHow
<1>26. CASE New
  BY <1>26 DEF New
<1>27. ASSUME NEW s \in Sess, WakeSends(s) PROVE FileInv'
  <2>1. StaysFiled
    BY <1>27, Workers DEF WakeSends, up, loops, sessions, file, life, StepTypes, SessTypes,
       StaysFiled
  <2> QED
    BY <2>1, FileStays
<1>28. CASE WakeEnds
  <2>1. UNCHANGED <<overlap, owed, upgraded, at>> /\ (disk' = resume \/ disk' = disk)
    BY <1>28 DEF WakeEnds, up, loops, sessions, file, life
  <2>2. disk' = disk => FileInv'
    BY <2>1, FileKept DEF Promised, Upgrades
  <2> QED
    BY <2>1, <2>2, FileSaved
<1> QED
  BY <1>1, <1>2, <1>3, <1>4, <1>5, <1>6, <1>7, <1>8, <1>9, <1>10, <1>11, <1>12, <1>13, <1>14,
     <1>15, <1>16, <1>17, <1>18, <1>19, <1>20, <1>21, <1>22, <1>23, <1>24, <1>25, <1>26, <1>27,
     <1>28 DEF Next, LoopStep, PrepareStep, WakeStep

-----------------------------------------------------------------------------
(* Between two processes                                                     *)

\* What a dund that is up keeps, it keeps step by step.
LEMMA UpP ==
  ASSUME Types, UpInv, phase = "up", phase' = "up", [Next]_vars
  PROVE  UpInv'
BY HeadingP, WakeP, NoticeP, CurP, PrepP, AloneP, RestP, NotedP, WrappedP, FileP DEF UpInv, Types

\* A planned stop leaves in the file what it promised.
LEMMA StopsDown ==
  ASSUME Types, UpInv, Stops
  PROVE  DownInv'
<1>1. /\ at["main"] = "close" /\ UNCHANGED <<disk, overlap>>
      /\ \A w \in Worker : at'[w] = "off" /\ todo'[w] = {} /\ found'[w] = {} /\ cur'[w] = {}
      /\ prep' = NoPrep
  BY DEF Stops, EndsHow, Nobody, file
<1>2. ASSUME NEW s \in Sess \ overlap, owed'[s] # "nothing" PROVE Promised("main", s)
  BY <1>2 DEF Stops, Promised, Upgrades, Types, SessTypes
<1>3. \A s \in Sess \ overlap : Promised("main", s) => disk[s] # ""
  BY <1>1, Workers DEF UpInv, FileInv
<1> QED
  BY <1>1, <1>2, <1>3 DEF DownInv

\* After a crash nobody is owed anything.
LEMMA CrashDown ==
  ASSUME Types, Crash
  PROVE  DownInv'
<1>1. /\ \A w \in Worker : at'[w] = "off" /\ todo'[w] = {} /\ found'[w] = {} /\ cur'[w] = {}
      /\ prep' = NoPrep /\ \A s \in Sess : owed'[s] = "nothing"
  BY DEF Crash, EndsHow, Nobody
<1> QED
  BY <1>1 DEF DownInv

\* The next dund begins with the notes of the file.
LEMMA NewUp ==
  ASSUME Types, DownInv, New
  PROVE  UpInv'
<1>1. /\ UNCHANGED <<at, todo, found, cur, prep, live, work>> /\ noticed' = {} /\ overlap' = {} /\ upgraded' = FALSE
      /\ wake' = [left |-> Sess, at |-> {}, step |-> "read"]
      /\ \A s \in Sess : owed'[s] = IF s \in overlap THEN "nothing" ELSE owed[s]
      /\ \A s \in Sess : disk[s] # "" => resume'[s] # ""
  BY DEF New
<1>2. /\ \A w \in Worker : at[w] = "off" /\ todo[w] = {} /\ found[w] = {} /\ cur[w] = {}
      /\ \A w \in Worker, s \in Sess : prep[w][s] # "begin"
  BY DEF DownInv, NoPrep
<1>3. HeadingInv' /\ WakeInv' /\ NoticeInv' /\ CurInv'
  BY <1>1, <1>2, Workers DEF HeadingInv, Heading, WakeInv, NoticeInv, CurInv
<1>4. PrepInv' /\ AloneInv' /\ RestInv'
  BY <1>1, <1>2, Workers DEF PrepInv, AloneInv, RestInv, PastLook, Stopping
<1>5. ASSUME NEW s \in Sess, owed'[s] # "nothing" PROVE resume'[s] # ""
  BY <1>1, <1>5 DEF DownInv
<1>6. NotedInv'
  BY <1>5 DEF NotedInv, Noted
<1>7. WrappedInv' /\ FileInv'
  BY <1>1, <1>2 DEF WrappedInv, FileInv
<1> QED
  BY <1>3, <1>4, <1>6, <1>7 DEF UpInv

\* A dund that is not up does nothing, ...
LEMMA OnlyNew ==
  ASSUME Next, phase # "up"
  PROVE  New
<1>1. ~\E s \in Sess : BeginWork(s) \/ EndWork(s)
  BY DEF BeginWork, EndWork
<1>2. ~(RequestUpgrade \/ OtherSave \/ Terminate \/ Stops \/ Crash)
  BY DEF RequestUpgrade, OtherSave, Terminate, Stops, Crash
<1>3. ~\E l \in Loop : LoopStep(l)
  <2> SUFFICES ASSUME NEW l \in Loop, LoopStep(l) PROVE FALSE
    OBVIOUS
  <2>1. ~(LoopGoesOn(l) \/ LoopWaits(l) \/ LoopSleeps(l) \/ LoopInstalls(l))
    BY DEF LoopGoesOn, LoopWaits, LoopSleeps, LoopInstalls
  <2>2. ~(LoopFails(l) \/ FailEnds(l) \/ TakesReady(l))
    BY DEF LoopFails, FailEnds, TakesReady
  <2>3. ~\E s \in Sess : LoopLooks(l, s) \/ NoticeMarks(l, s) \/ NoticeTells(l, s)
    BY DEF LoopLooks, NoticeMarks, NoticeTells
  <2>4. ~\E s \in Sess : FailForgets(l, s) \/ FailTells(l, s)
    BY DEF FailForgets, FailTells
  <2> QED
    BY <2>1, <2>2, <2>3, <2>4 DEF LoopStep
<1>4. ~\E w \in Worker : PrepareStep(w)
  BY DEF PrepareStep, PrepareLooks, PrepareSets, PrepareJoins, PrepareSaves
<1>5. ~WakeStep
  BY DEF WakeStep, WakeReads, WakeSends, WakeFails, WakeClears, WakeEnds
<1> QED
  BY <1>1, <1>2, <1>3, <1>4, <1>5 DEF Next

\* ... and one that is goes down by Stops or Crash.
LEMMA OnlyStops ==
  ASSUME Next, phase = "up"
  PROVE  phase' = "up" \/ Stops \/ Crash
<1>1. CASE \E s \in Sess : BeginWork(s) \/ EndWork(s)
  BY <1>1 DEF BeginWork, EndWork, life
<1>2. CASE RequestUpgrade \/ OtherSave \/ Terminate \/ New
  BY <1>2 DEF RequestUpgrade, OtherSave, Terminate, New, life
<1>3. ASSUME NEW l \in Loop, LoopStep(l) PROVE phase' = "up"
  <2>1. CASE LoopGoesOn(l) \/ LoopWaits(l) \/ LoopSleeps(l) \/ LoopInstalls(l)
    BY <2>1 DEF LoopGoesOn, LoopWaits, LoopSleeps, LoopInstalls, life
  <2>2. CASE LoopFails(l) \/ FailEnds(l) \/ TakesReady(l)
    BY <2>2 DEF LoopFails, FailEnds, TakesReady, life
  <2>3. CASE \E s \in Sess : LoopLooks(l, s) \/ NoticeMarks(l, s) \/ NoticeTells(l, s)
    BY <2>3 DEF LoopLooks, NoticeMarks, NoticeTells, life
  <2>4. CASE \E s \in Sess : FailForgets(l, s) \/ FailTells(l, s)
    BY <2>4 DEF FailForgets, FailTells, life
  <2> QED
    BY <1>3, <2>1, <2>2, <2>3, <2>4 DEF LoopStep
<1>4. CASE \E w \in Worker : PrepareStep(w)
  BY <1>4 DEF PrepareStep, PrepareLooks, PrepareSets, PrepareJoins, PrepareSaves, life
<1>5. CASE WakeStep
  BY <1>5 DEF WakeStep, WakeReads, WakeSends, WakeFails, WakeClears, WakeEnds, life
<1> QED
  BY <1>1, <1>2, <1>3, <1>4, <1>5 DEF Next

\* What is down stays as it is until the next start.
LEMMA DownP ==
  ASSUME Types, DownInv, phase # "up", phase' # "up", [Next]_vars
  PROVE  DownInv'
<1>1. CASE UNCHANGED vars
  BY <1>1 DEF DownInv, NoPrep, vars, loops, sessions, file
<1>2. CASE Next
  BY <1>2, OnlyNew DEF New
<1> QED
  BY <1>1, <1>2

\* A note that was sent is off the file once all were.
LEMMA SentP ==
  ASSUME LifeTypes, SentOnce, [Next]_vars
  PROVE  SentOnce'
<1>1. ASSUME UNCHANGED <<wake, sent>> PROVE SentOnce'
  BY <1>1 DEF SentOnce
<1>2. CASE UNCHANGED vars
  BY <1>1, <1>2 DEF vars, up, loops, sessions, file, life
<1>3. ASSUME NEW s \in Sess,
           BeginWork(s) \/ EndWork(s)
    PROVE  SentOnce'
  BY <1>1, <1>3 DEF BeginWork, EndWork, up, loops, sessions, file, life
<1>4. CASE RequestUpgrade \/ Terminate
  BY <1>1, <1>4 DEF RequestUpgrade, Scans, Goes, Terminate, Touches, up, loops, sessions, file,
     life
<1>5. ASSUME NEW l \in Loop, NEW s \in Sess,
           \/ LoopLooks(l, s) \/ NoticeMarks(l, s) \/ NoticeTells(l, s) \/ FailForgets(l, s)
           \/ FailTells(l, s)
    PROVE  SentOnce'
  BY <1>1, <1>5 DEF LoopLooks, Drop, NoticeMarks, Goes, Touches, NoticeTells, FailForgets,
     FailTells, up, loops, sessions, file, life
<1>6. ASSUME NEW l \in Loop,
           \/ LoopGoesOn(l) \/ LoopWaits(l) \/ LoopSleeps(l) \/ LoopInstalls(l) \/ LoopFails(l)
           \/ FailEnds(l) \/ TakesReady(l)
    PROVE  SentOnce'
  BY <1>1, <1>6 DEF LoopGoesOn, Scans, Goes, Touches, LoopWaits, LoopSleeps, LoopInstalls,
     LoopFails, FailEnds, TakesReady, up, loops, sessions, file, life
<1>7. ASSUME NEW w \in Worker, NEW s \in Sess,
           PrepareLooks(w, s) \/ PrepareSets(w, s)
    PROVE  SentOnce'
  BY <1>1, <1>7 DEF PrepareLooks, Drop, Touches, PrepareSets, up, loops, sessions, file, life
<1>8. ASSUME NEW w \in Worker,
           PrepareJoins(w)
    PROVE  SentOnce'
  BY <1>1, <1>8 DEF PrepareJoins, Goes, Prepared, up, loops, sessions, file, life
<1>9. ASSUME NEW w \in Worker, PrepareSaves(w) PROVE SentOnce'
  BY <1>9 DEF SentOnce, LifeTypes, WakeDone, PrepareSaves, Goes, Prepared, SaveRegistry, up,
     loops, sessions, file, life
<1>10. CASE OtherSave
  BY <1>10 DEF SentOnce, LifeTypes, WakeDone, OtherSave, SaveRegistry, up, loops, sessions,
     file, life
<1>11. CASE Stops
  BY <1>11 DEF SentOnce, LifeTypes, WakeDone, Stops, EndsHow, up, loops, sessions, file, life
<1>12. CASE Crash
  BY <1>12 DEF SentOnce, LifeTypes, WakeDone, Crash, EndsHow, up, loops, sessions, file, life
<1>13. CASE New
  BY <1>13 DEF SentOnce, LifeTypes, WakeDone, New, up, loops, sessions, file, life
<1>14. ASSUME NEW s \in Sess, WakeReads(s) PROVE SentOnce'
  <2>1. sent' = sent /\ wake'.step # "done"
    BY <1>14 DEF WakeReads, up, loops, sessions, file, life, LifeTypes
  <2> QED
    BY <2>1 DEF SentOnce
<1>15. ASSUME NEW s \in Sess, WakeSends(s) PROVE SentOnce'
  BY <1>15 DEF SentOnce, LifeTypes, WakeDone, WakeSends, up, loops, sessions, file, life
<1>16. ASSUME NEW s \in Sess, WakeFails(s) PROVE SentOnce'
  BY <1>16 DEF SentOnce, LifeTypes, WakeDone, WakeFails, up, loops, sessions, file, life
<1>17. ASSUME NEW s \in Sess, WakeClears(s) PROVE SentOnce'
  BY <1>17 DEF SentOnce, LifeTypes, WakeDone, WakeClears, up, loops, sessions, file, life
<1>18. CASE WakeEnds
  BY <1>18 DEF SentOnce, LifeTypes, WakeDone, WakeEnds, up, loops, sessions, file, life
<1> QED
  BY <1>1, <1>2, <1>3, <1>4, <1>5, <1>6, <1>7, <1>8, <1>9, <1>10, <1>11, <1>12, <1>13, <1>14,
     <1>15, <1>16, <1>17, <1>18 DEF Next, LoopStep, PrepareStep, WakeStep

-----------------------------------------------------------------------------
(* The invariant                                                             *)

LEMMA InitIInv ==
  ASSUME Init
  PROVE  IInv
<1>1. Types
  BY DEF Init, Types, StepTypes, SessTypes, LifeTypes, Nobody, NoPrep, WakeDone, Note, Worker, Loop
<1>2. /\ \A w \in Worker : at[w] = "off" /\ todo[w] = {} /\ found[w] = {} /\ cur[w] = {}
      /\ \A w \in Worker, s \in Sess : prep[w][s] # "begin"
      /\ \A s \in Sess : owed[s] = "nothing"
      /\ noticed = {} /\ ~upgraded /\ wake = WakeDone /\ sent = {} /\ phase = "up"
  BY DEF Init, Nobody, NoPrep
<1>3. HeadingInv /\ WakeInv /\ NoticeInv /\ CurInv
  BY <1>2, Workers DEF HeadingInv, Heading, WakeInv, WakeDone, NoticeInv, CurInv
<1>4. PrepInv /\ AloneInv /\ RestInv
  BY <1>2, Workers DEF PrepInv, AloneInv, RestInv, PastLook, Stopping
<1>5. NotedInv /\ WrappedInv /\ FileInv
  BY <1>2, Workers DEF NotedInv, Noted, WrappedInv, FileInv
<1> QED
  BY <1>1, <1>2, <1>3, <1>4, <1>5 DEF IInv, UpInv, SentOnce

LEMMA StepIInv ==
  ASSUME IInv, [Next]_vars
  PROVE  IInv'
<1>1. Types' /\ SentOnce'
  BY StepTypesP, SessTypesP, LifeTypesP, SentP DEF IInv, Types
<1>2. CASE phase' = phase
  <2>1. phase = "up" => UpInv'
    BY <1>2, UpP DEF IInv
  <2>2. phase # "up" => DownInv'
    BY <1>2, DownP DEF IInv
  <2> QED
    BY <1>1, <1>2, <2>1, <2>2 DEF IInv
<1>3. CASE phase' # phase
  <2>1. CASE phase = "up" /\ (Stops \/ Crash)
    <3>1. phase' # "up" /\ DownInv'
      BY <2>1, StopsDown, CrashDown DEF IInv, Stops, Crash, EndsHow
    <3> QED
      BY <1>1, <3>1 DEF IInv
  <2>2. CASE phase # "up" /\ New
    <3>1. phase' = "up" /\ UpInv'
      BY <2>2, NewUp DEF IInv, New
    <3> QED
      BY <1>1, <3>1 DEF IInv
  <2>3. Next
    BY <1>3 DEF vars, life
  <2> QED
    BY <1>3, <2>1, <2>2, <2>3, OnlyNew, OnlyStops
<1> QED
  BY <1>2, <1>3

\* In every state dund's stops, upgrades and wake-ups are where IInv says.
THEOREM InductiveInvariant == Spec => []IInv
BY InitIInv, StepIInv, PTL DEF Spec

-----------------------------------------------------------------------------
(* What follows from it                                                      *)

\* PrepareStop and Close: a planned stop leaves in the file the note of each
\* session it cut, and an upgrade's of each it told to wrap up.
THEOREM CutIsRecorded == Spec => []StopRecorded
<1>1. IInv => StopRecorded
  BY DEF IInv, DownInv, StopRecorded
<1> QED
  BY <1>1, InductiveInvariant, PTL

\* failUpgrade: when nothing is pending and all are done, no session is left with
\* the order to wrap up for an upgrade that does not come.
THEOREM NobodyLeftWrappedUp == Spec => []FailureFreesAll
<1>1. ASSUME IInv PROVE FailureFreesAll
  <2> SUFFICES ASSUME phase = "up", state = "none", \A w \in Worker : at[w] = "off",
                      NEW s \in live \ overlap, resume[s] = "", owed[s] = "wake"
               PROVE  FALSE
    BY DEF FailureFreesAll
  <2>1. s \in Sess /\ Noted(s) /\ NoticeInv
    BY <1>1 DEF IInv, Types, SessTypes, UpInv, NotedInv
  <2>2. ~Revoking(s)
    BY Workers DEF Revoking
  <2>3. s \in noticed
    BY <2>1, <2>2 DEF Noted
  <2> QED
    BY <2>1, <2>3, Workers DEF NoticeInv, Failing
<1> QED
  BY <1>1, InductiveInvariant, PTL

\* resumeFlagged: no note is on the file any more once the wake-up is through.
THEOREM SentIsCleared == Spec => []SentOnce
<1>1. IInv => SentOnce
  BY DEF IInv
<1> QED
  BY <1>1, InductiveInvariant, PTL

=============================================================================

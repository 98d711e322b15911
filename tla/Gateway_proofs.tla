--------------------------- MODULE Gateway_proofs ---------------------------
(***************************************************************************)
(* Theorems about Gateway, for any engines, any requests and any number of *)
(* starts: one start at a time, no server without an owner, a grace for    *)
(* every idle server.  What makes them inductive is where a client stands: *)
(* as long as it is registered, the upstream it looked up is the one in    *)
(* the table, so no call of it drops another one that is just starting.    *)
(***************************************************************************)
EXTENDS Gateway, TLAPS

\* The state is of its types; an upstream is used from its start on.
Types ==
  /\ ups \in Up \union {None} /\ starts \in 0..MaxStarts
  /\ phase \in [Up -> {"unused", "connect", "tools", "up", "broken", "ok", "failed"}]
  /\ timer \in [Up -> {"off", "armed", "fired"}]
  /\ kills \subseteq Up /\ proc \in {"none", "alive", "dead"}
  /\ clients \subseteq Request
  /\ pc \in [Request -> {"none", "asked", "listened", "waiting", "granted", "calling", "refused",
                        "left", "lost"}]
  /\ held \in [Request -> Up \union {None}]
  /\ who \in [Request -> Engine] /\ snap \in [Engine -> SUBSET Request]
  /\ engine \in [Engine -> {"live", "gone", "releasing", "released"}]
  /\ closed \in {"no", "closed", "down"}

\* A grace runs for a server that has started; what is in the table
\* has not failed; upstreams are used in order.
TimerInv ==
  /\ \A u \in Up : timer[u] # "off" => phase[u] = "ok"
  /\ ups # None => phase[ups] \notin {"unused", "failed"}
  /\ \A u \in Up : u > starts => phase[u] = "unused"

\* A request that waits or was granted looked an upstream up, and a granted one's
\* has started. While it is registered, that is the one in the table, or it failed.
ClientInv ==
  \A r \in Request :
    /\ pc[r] \in {"waiting", "granted", "calling"} => held[r] \in Up
    /\ pc[r] \in {"granted", "calling"} => phase[held[r]] = "ok"
    /\ r \in clients => /\ pc[r] \in {"waiting", "granted", "calling"}
                        /\ held[r] = ups \/ phase[held[r]] = "failed"

\* What runs is the table's and has shaken hands, unless its stop is on the way.
OwnerInv ==
  proc # "none" /\ closed = "no" =>
    kills # {} \/ (ups # None /\ phase[ups] \in {"tools", "up", "ok"})

\* The inductive invariant.
IInv == Types /\ TimerInv /\ ClientInv /\ OneStart /\ OwnerInv /\ IdleIsTimed

-----------------------------------------------------------------------------
\* Upstreams are numbered from 1, and 0 is none.
LEMMA UpNumbers ==
  /\ None \notin Up /\ Up \subseteq Nat
  /\ \A n \in 0..MaxStarts : n \in Nat /\ (n < MaxStarts => n + 1 \in Up)
  /\ \A u, n \in Nat : u > n + 1 => u > n
  /\ \A n \in 0..MaxStarts : n < MaxStarts => n + 1 \in 0..MaxStarts /\ n + 1 > n
BY GatewayAssumption DEF Up, None

(* One lemma per conjunct, in each one step per action                      *)

\* Every step keeps the types.
LEMMA TypesStep ==
  ASSUME Types, ClientInv, [Next]_vars
  PROVE  Types'
<1> USE UpNumbers
<1>1. CASE UNCHANGED vars
  BY <1>1 DEF Types, vars, upstream, asking, engines
<1>2. ASSUME NEW r \in Request, Asks(r) PROVE Types'
  BY <1>2 DEF Types, Asks, Steps, upstream, asking, engines
<1>3. ASSUME NEW r \in Request, Listens(r) PROVE Types'
  BY <1>3 DEF Types, Listens, Steps, upstream, asking, engines
<1>4. ASSUME NEW r \in Request, Joins(r) PROVE Types'
  BY <1>4 DEF Types, Joins, Serving, Steps, upstream, asking, engines
<1>5. ASSUME NEW r \in Request, StartsNew(r) PROVE Types'
  BY <1>5 DEF Types, StartsNew, Serving, Steps, upstream, asking, engines
<1>6. ASSUME NEW r \in Request, Granted(r) PROVE Types'
  BY <1>6 DEF Types, Granted, Steps, upstream, asking, engines
<1>7. ASSUME NEW r \in Request, Refused(r) PROVE Types'
  BY <1>7 DEF Types, Refused, Release, Serving, Steps, upstream, asking, engines
<1>8. ASSUME NEW r \in Request, Leaves(r) PROVE Types'
  BY <1>8 DEF Types, Leaves, Release, Serving, Steps, upstream, asking, engines
<1>9. ASSUME NEW u \in Up, Connects(u) PROVE Types'
  BY <1>9 DEF Types, Connects, upstream, asking, engines
<1>10. ASSUME NEW u \in Up, Discovers(u) PROVE Types'
  BY <1>10 DEF Types, Discovers, upstream, asking, engines
<1>11. ASSUME NEW u \in Up, Reports(u) PROVE Types'
  BY <1>11 DEF Types, Reports, upstream, asking, engines
<1>12. ASSUME NEW u \in Up, GraceEnds(u) PROVE Types'
  BY <1>12 DEF Types, GraceEnds, upstream, asking, engines
<1>13. ASSUME NEW u \in Up, GraceStops(u) PROVE Types'
  BY <1>13 DEF Types, GraceStops, upstream, asking, engines
<1>14. ASSUME NEW u \in Up, Kills(u) PROVE Types'
  BY <1>14 DEF Types, Kills, upstream, asking, engines
<1>15. ASSUME NEW r \in Request, Calls(r) PROVE Types'
  BY <1>15 DEF Types, Calls, Serving, Steps, upstream, asking, engines
<1>16. ASSUME NEW r \in Request, Answered(r) PROVE Types'
  <2>1. held[r] \in Up
    BY <1>16 DEF ClientInv, Answered, Steps
  <2> QED
    BY <1>16, <2>1 DEF Types, Answered, Drop, Steps, upstream, asking, engines
<1>17. ASSUME NEW e \in Engine, EngineExits(e) PROVE Types'
  BY <1>17 DEF Types, EngineExits, upstream, asking, engines
<1>18. ASSUME NEW e \in Engine, ReleaseBegins(e) PROVE Types'
  BY <1>18 DEF Types, ReleaseBegins, upstream, asking, engines
<1>19. ASSUME NEW e \in Engine, NEW r \in Request, ReleasesOne(e, r) PROVE Types'
  BY <1>19 DEF Types, ReleasesOne, Release, Serving, upstream, asking, engines
<1>20. ASSUME NEW e \in Engine, ReleaseEnds(e) PROVE Types'
  BY <1>20 DEF Types, ReleaseEnds, upstream, asking, engines
<1>21. CASE ProcessExits
  BY <1>21 DEF Types, ProcessExits, upstream, asking, engines
<1>22. CASE Closes
  BY <1>22 DEF Types, Closes, upstream, asking, engines
<1>23. CASE ManagerCloses
  BY <1>23 DEF Types, ManagerCloses, upstream, asking, engines
<1> QED
  BY <1>1, <1>2, <1>3, <1>4, <1>5, <1>6, <1>7, <1>8, <1>9, <1>10, <1>11, <1>12, <1>13, <1>14,
     <1>15, <1>16, <1>17, <1>18, <1>19, <1>20, <1>21, <1>22, <1>23 DEF Next, Handling, Starting,
     Ending, Exiting

\* Every step keeps graces to servers that run.
LEMMA TimerStep ==
  ASSUME Types, TimerInv, [Next]_vars
  PROVE  TimerInv'
<1> USE UpNumbers
<1>1. CASE UNCHANGED vars
  BY <1>1 DEF Types, TimerInv, vars, upstream, asking, engines
<1>2. ASSUME NEW r \in Request, Asks(r) PROVE TimerInv'
  BY <1>2 DEF Types, TimerInv, Asks, Steps, upstream, asking, engines
<1>3. ASSUME NEW r \in Request, Listens(r) PROVE TimerInv'
  BY <1>3 DEF Types, TimerInv, Listens, Steps, upstream, asking, engines
<1>4. ASSUME NEW r \in Request, Joins(r) PROVE TimerInv'
  BY <1>4 DEF Types, TimerInv, Joins, Serving, Steps, upstream, asking, engines
<1>5. ASSUME NEW r \in Request, StartsNew(r) PROVE TimerInv'
  BY <1>5 DEF Types, TimerInv, StartsNew, Serving, Steps, upstream, asking, engines
<1>6. ASSUME NEW r \in Request, Granted(r) PROVE TimerInv'
  BY <1>6 DEF Types, TimerInv, Granted, Steps, upstream, asking, engines
<1>7. ASSUME NEW r \in Request, Refused(r) PROVE TimerInv'
  BY <1>7 DEF Types, TimerInv, Refused, Release, Serving, Steps, upstream, asking, engines
<1>8. ASSUME NEW r \in Request, Leaves(r) PROVE TimerInv'
  BY <1>8 DEF Types, TimerInv, Leaves, Release, Serving, Steps, upstream, asking, engines
<1>9. ASSUME NEW u \in Up, Connects(u) PROVE TimerInv'
  BY <1>9 DEF Types, TimerInv, Connects, upstream, asking, engines
<1>10. ASSUME NEW u \in Up, Discovers(u) PROVE TimerInv'
  BY <1>10 DEF Types, TimerInv, Discovers, upstream, asking, engines
<1>11. ASSUME NEW u \in Up, Reports(u) PROVE TimerInv'
  BY <1>11 DEF Types, TimerInv, Reports, upstream, asking, engines
<1>12. ASSUME NEW u \in Up, GraceEnds(u) PROVE TimerInv'
  BY <1>12 DEF Types, TimerInv, GraceEnds, upstream, asking, engines
<1>13. ASSUME NEW u \in Up, GraceStops(u) PROVE TimerInv'
  BY <1>13 DEF Types, TimerInv, GraceStops, upstream, asking, engines
<1>14. ASSUME NEW u \in Up, Kills(u) PROVE TimerInv'
  BY <1>14 DEF Types, TimerInv, Kills, upstream, asking, engines
<1>15. ASSUME NEW r \in Request, Calls(r) PROVE TimerInv'
  BY <1>15 DEF Types, TimerInv, Calls, Serving, Steps, upstream, asking, engines
<1>16. ASSUME NEW r \in Request, Answered(r) PROVE TimerInv'
  BY <1>16 DEF Types, TimerInv, Answered, Drop, Steps, upstream, asking, engines
<1>17. ASSUME NEW e \in Engine, EngineExits(e) PROVE TimerInv'
  BY <1>17 DEF Types, TimerInv, EngineExits, upstream, asking, engines
<1>18. ASSUME NEW e \in Engine, ReleaseBegins(e) PROVE TimerInv'
  BY <1>18 DEF Types, TimerInv, ReleaseBegins, upstream, asking, engines
<1>19. ASSUME NEW e \in Engine, NEW r \in Request, ReleasesOne(e, r) PROVE TimerInv'
  BY <1>19 DEF Types, TimerInv, ReleasesOne, Release, Serving, upstream, asking, engines
<1>20. ASSUME NEW e \in Engine, ReleaseEnds(e) PROVE TimerInv'
  BY <1>20 DEF Types, TimerInv, ReleaseEnds, upstream, asking, engines
<1>21. CASE ProcessExits
  BY <1>21 DEF Types, TimerInv, ProcessExits, upstream, asking, engines
<1>22. CASE Closes
  BY <1>22 DEF Types, TimerInv, Closes, upstream, asking, engines
<1>23. CASE ManagerCloses
  BY <1>23 DEF Types, TimerInv, ManagerCloses, upstream, asking, engines
<1> QED
  BY <1>1, <1>2, <1>3, <1>4, <1>5, <1>6, <1>7, <1>8, <1>9, <1>10, <1>11, <1>12, <1>13, <1>14,
     <1>15, <1>16, <1>17, <1>18, <1>19, <1>20, <1>21, <1>22, <1>23 DEF Next, Handling, Starting,
     Ending, Exiting

\* Every step keeps the clients with the upstream in the table.
LEMMA ClientStep ==
  ASSUME Types, TimerInv, ClientInv, [Next]_vars
  PROVE  ClientInv'
<1> USE UpNumbers
<1>1. CASE UNCHANGED vars
  BY <1>1 DEF Types, TimerInv, ClientInv, vars, upstream, asking, engines
<1>2. ASSUME NEW r \in Request, Asks(r) PROVE ClientInv'
  BY <1>2 DEF Types, TimerInv, ClientInv, Asks, Steps, upstream, asking, engines
<1>3. ASSUME NEW r \in Request, Listens(r) PROVE ClientInv'
  BY <1>3 DEF Types, TimerInv, ClientInv, Listens, Steps, upstream, asking, engines
<1>4. ASSUME NEW r \in Request, Joins(r) PROVE ClientInv'
  BY <1>4 DEF Types, TimerInv, ClientInv, Joins, Serving, Steps, upstream, asking, engines
<1>5. ASSUME NEW r \in Request, StartsNew(r) PROVE ClientInv'
  BY <1>5 DEF Types, TimerInv, ClientInv, StartsNew, Serving, Steps, upstream, asking, engines
<1>6. ASSUME NEW r \in Request, Granted(r) PROVE ClientInv'
  BY <1>6 DEF Types, TimerInv, ClientInv, Granted, Steps, upstream, asking, engines
<1>7. ASSUME NEW r \in Request, Refused(r) PROVE ClientInv'
  BY <1>7 DEF Types, TimerInv, ClientInv, Refused, Release, Serving, Steps, upstream, asking,
     engines
<1>8. ASSUME NEW r \in Request, Leaves(r) PROVE ClientInv'
  BY <1>8 DEF Types, TimerInv, ClientInv, Leaves, Release, Serving, Steps, upstream, asking,
     engines
<1>9. ASSUME NEW u \in Up, Connects(u) PROVE ClientInv'
  <2>1. phase[u] \notin {"ok", "failed"} /\ \A v \in Up \ {u} : phase'[v] = phase[v]
    BY <1>9 DEF Types, Connects
  <2>2. UNCHANGED <<clients, pc, held, ups>>
    BY <1>9 DEF Connects, asking
  <2>3. ASSUME NEW r \in Request, held[r] \in Up, phase[held[r]] \in {"ok", "failed"}
        PROVE  phase'[held[r]] = phase[held[r]]
    BY <2>1, <2>3
  <2> QED
    BY <2>2, <2>3 DEF ClientInv
<1>10. ASSUME NEW u \in Up, Discovers(u) PROVE ClientInv'
  <2>1. phase[u] \notin {"ok", "failed"} /\ \A v \in Up \ {u} : phase'[v] = phase[v]
    BY <1>10 DEF Types, Discovers
  <2>2. UNCHANGED <<clients, pc, held, ups>>
    BY <1>10 DEF Discovers, asking
  <2>3. ASSUME NEW r \in Request, held[r] \in Up, phase[held[r]] \in {"ok", "failed"}
        PROVE  phase'[held[r]] = phase[held[r]]
    BY <2>1, <2>3
  <2> QED
    BY <2>2, <2>3 DEF ClientInv
<1>11. ASSUME NEW u \in Up, Reports(u) PROVE ClientInv'
  BY <1>11 DEF Types, TimerInv, ClientInv, Reports, upstream, asking, engines
<1>12. ASSUME NEW u \in Up, GraceEnds(u) PROVE ClientInv'
  BY <1>12 DEF Types, TimerInv, ClientInv, GraceEnds, upstream, asking, engines
<1>13. ASSUME NEW u \in Up, GraceStops(u) PROVE ClientInv'
  BY <1>13 DEF Types, TimerInv, ClientInv, GraceStops, upstream, asking, engines
<1>14. ASSUME NEW u \in Up, Kills(u) PROVE ClientInv'
  BY <1>14 DEF Types, TimerInv, ClientInv, Kills, upstream, asking, engines
<1>15. ASSUME NEW r \in Request, Calls(r) PROVE ClientInv'
  BY <1>15 DEF Types, TimerInv, ClientInv, Calls, Serving, Steps, upstream, asking, engines
<1>16. ASSUME NEW r \in Request, Answered(r) PROVE ClientInv'
  BY <1>16 DEF Types, TimerInv, ClientInv, Answered, Drop, Steps, upstream, asking, engines
<1>17. ASSUME NEW e \in Engine, EngineExits(e) PROVE ClientInv'
  BY <1>17 DEF Types, TimerInv, ClientInv, EngineExits, upstream, asking, engines
<1>18. ASSUME NEW e \in Engine, ReleaseBegins(e) PROVE ClientInv'
  BY <1>18 DEF Types, TimerInv, ClientInv, ReleaseBegins, upstream, asking, engines
<1>19. ASSUME NEW e \in Engine, NEW r \in Request, ReleasesOne(e, r) PROVE ClientInv'
  BY <1>19 DEF Types, TimerInv, ClientInv, ReleasesOne, Release, Serving, upstream, asking,
     engines
<1>20. ASSUME NEW e \in Engine, ReleaseEnds(e) PROVE ClientInv'
  BY <1>20 DEF Types, TimerInv, ClientInv, ReleaseEnds, upstream, asking, engines
<1>21. CASE ProcessExits
  BY <1>21 DEF Types, TimerInv, ClientInv, ProcessExits, upstream, asking, engines
<1>22. CASE Closes
  BY <1>22 DEF Types, TimerInv, ClientInv, Closes, upstream, asking, engines
<1>23. CASE ManagerCloses
  BY <1>23 DEF Types, TimerInv, ClientInv, ManagerCloses, upstream, asking, engines
<1> QED
  BY <1>1, <1>2, <1>3, <1>4, <1>5, <1>6, <1>7, <1>8, <1>9, <1>10, <1>11, <1>12, <1>13, <1>14,
     <1>15, <1>16, <1>17, <1>18, <1>19, <1>20, <1>21, <1>22, <1>23 DEF Next, Handling, Starting,
     Ending, Exiting

\* Every step keeps a start the only one.
LEMMA StartStep ==
  ASSUME Types, TimerInv, ClientInv, OneStart, [Next]_vars
  PROVE  OneStart'
<1> USE UpNumbers
<1>1. CASE UNCHANGED vars
  BY <1>1 DEF Types, TimerInv, ClientInv, OneStart, Running, vars, upstream, asking, engines
<1>2. ASSUME NEW r \in Request, Asks(r) PROVE OneStart'
  BY <1>2 DEF Types, TimerInv, ClientInv, OneStart, Running, Asks, Steps, upstream, asking,
     engines
<1>3. ASSUME NEW r \in Request, Listens(r) PROVE OneStart'
  BY <1>3 DEF Types, TimerInv, ClientInv, OneStart, Running, Listens, Steps, upstream, asking,
     engines
<1>4. ASSUME NEW r \in Request, Joins(r) PROVE OneStart'
  BY <1>4 DEF Types, TimerInv, ClientInv, OneStart, Running, Joins, Serving, Steps, upstream,
     asking, engines
<1>5. ASSUME NEW r \in Request, StartsNew(r) PROVE OneStart'
  BY <1>5 DEF Types, TimerInv, ClientInv, OneStart, Running, StartsNew, Serving, Steps,
     upstream, asking, engines
<1>6. ASSUME NEW r \in Request, Granted(r) PROVE OneStart'
  BY <1>6 DEF Types, TimerInv, ClientInv, OneStart, Running, Granted, Steps, upstream, asking,
     engines
<1>7. ASSUME NEW r \in Request, Refused(r) PROVE OneStart'
  BY <1>7 DEF Types, TimerInv, ClientInv, OneStart, Running, Refused, Release, Serving, Steps,
     upstream, asking, engines
<1>8. ASSUME NEW r \in Request, Leaves(r) PROVE OneStart'
  BY <1>8 DEF Types, TimerInv, ClientInv, OneStart, Running, Leaves, Release, Serving, Steps,
     upstream, asking, engines
<1>9. ASSUME NEW u \in Up, Connects(u) PROVE OneStart'
  BY <1>9 DEF Types, TimerInv, ClientInv, OneStart, Running, Connects, upstream, asking, engines
<1>10. ASSUME NEW u \in Up, Discovers(u) PROVE OneStart'
  BY <1>10 DEF Types, TimerInv, ClientInv, OneStart, Running, Discovers, upstream, asking,
     engines
<1>11. ASSUME NEW u \in Up, Reports(u) PROVE OneStart'
  BY <1>11 DEF Types, TimerInv, ClientInv, OneStart, Running, Reports, upstream, asking, engines
<1>12. ASSUME NEW u \in Up, GraceEnds(u) PROVE OneStart'
  BY <1>12 DEF Types, TimerInv, ClientInv, OneStart, Running, GraceEnds, upstream, asking,
     engines
<1>13. ASSUME NEW u \in Up, GraceStops(u) PROVE OneStart'
  BY <1>13 DEF Types, TimerInv, ClientInv, OneStart, Running, GraceStops, upstream, asking,
     engines
<1>14. ASSUME NEW u \in Up, Kills(u) PROVE OneStart'
  BY <1>14 DEF Types, TimerInv, ClientInv, OneStart, Running, Kills, upstream, asking, engines
<1>15. ASSUME NEW r \in Request, Calls(r) PROVE OneStart'
  BY <1>15 DEF Types, TimerInv, ClientInv, OneStart, Running, Calls, Serving, Steps, upstream,
     asking, engines
<1>16. ASSUME NEW r \in Request, Answered(r) PROVE OneStart'
  BY <1>16 DEF Types, TimerInv, ClientInv, OneStart, Running, Answered, Drop, Steps, upstream,
     asking, engines
<1>17. ASSUME NEW e \in Engine, EngineExits(e) PROVE OneStart'
  BY <1>17 DEF Types, TimerInv, ClientInv, OneStart, Running, EngineExits, upstream, asking,
     engines
<1>18. ASSUME NEW e \in Engine, ReleaseBegins(e) PROVE OneStart'
  BY <1>18 DEF Types, TimerInv, ClientInv, OneStart, Running, ReleaseBegins, upstream, asking,
     engines
<1>19. ASSUME NEW e \in Engine, NEW r \in Request, ReleasesOne(e, r) PROVE OneStart'
  BY <1>19 DEF Types, TimerInv, ClientInv, OneStart, Running, ReleasesOne, Release, Serving,
     upstream, asking, engines
<1>20. ASSUME NEW e \in Engine, ReleaseEnds(e) PROVE OneStart'
  BY <1>20 DEF Types, TimerInv, ClientInv, OneStart, Running, ReleaseEnds, upstream, asking,
     engines
<1>21. CASE ProcessExits
  BY <1>21 DEF Types, TimerInv, ClientInv, OneStart, Running, ProcessExits, upstream, asking,
     engines
<1>22. CASE Closes
  BY <1>22 DEF Types, TimerInv, ClientInv, OneStart, Running, Closes, upstream, asking, engines
<1>23. CASE ManagerCloses
  BY <1>23 DEF Types, TimerInv, ClientInv, OneStart, Running, ManagerCloses, upstream, asking,
     engines
<1> QED
  BY <1>1, <1>2, <1>3, <1>4, <1>5, <1>6, <1>7, <1>8, <1>9, <1>10, <1>11, <1>12, <1>13, <1>14,
     <1>15, <1>16, <1>17, <1>18, <1>19, <1>20, <1>21, <1>22, <1>23 DEF Next, Handling, Starting,
     Ending, Exiting

\* Every step leaves what runs its owner.
LEMMA OwnerStep ==
  ASSUME Types, TimerInv, ClientInv, OneStart, OwnerInv, [Next]_vars
  PROVE  OwnerInv'
<1> USE UpNumbers
<1>1. CASE UNCHANGED vars
  BY <1>1 DEF Types, TimerInv, ClientInv, OneStart, Running, OwnerInv, vars, upstream, asking,
     engines
<1>2. ASSUME NEW r \in Request, Asks(r) PROVE OwnerInv'
  BY <1>2 DEF Types, TimerInv, ClientInv, OneStart, Running, OwnerInv, Asks, Steps, upstream,
     asking, engines
<1>3. ASSUME NEW r \in Request, Listens(r) PROVE OwnerInv'
  BY <1>3 DEF Types, TimerInv, ClientInv, OneStart, Running, OwnerInv, Listens, Steps, upstream,
     asking, engines
<1>4. ASSUME NEW r \in Request, Joins(r) PROVE OwnerInv'
  BY <1>4 DEF Types, TimerInv, ClientInv, OneStart, Running, OwnerInv, Joins, Serving, Steps,
     upstream, asking, engines
<1>5. ASSUME NEW r \in Request, StartsNew(r) PROVE OwnerInv'
  BY <1>5 DEF Types, TimerInv, ClientInv, OneStart, Running, OwnerInv, StartsNew, Serving,
     Steps, upstream, asking, engines
<1>6. ASSUME NEW r \in Request, Granted(r) PROVE OwnerInv'
  BY <1>6 DEF Types, TimerInv, ClientInv, OneStart, Running, OwnerInv, Granted, Steps, upstream,
     asking, engines
<1>7. ASSUME NEW r \in Request, Refused(r) PROVE OwnerInv'
  BY <1>7 DEF Types, TimerInv, ClientInv, OneStart, Running, OwnerInv, Refused, Release,
     Serving, Steps, upstream, asking, engines
<1>8. ASSUME NEW r \in Request, Leaves(r) PROVE OwnerInv'
  BY <1>8 DEF Types, TimerInv, ClientInv, OneStart, Running, OwnerInv, Leaves, Release, Serving,
     Steps, upstream, asking, engines
<1>9. ASSUME NEW u \in Up, Connects(u) PROVE OwnerInv'
  BY <1>9 DEF Types, TimerInv, ClientInv, OneStart, Running, OwnerInv, Connects, upstream,
     asking, engines
<1>10. ASSUME NEW u \in Up, Discovers(u) PROVE OwnerInv'
  BY <1>10 DEF Types, TimerInv, ClientInv, OneStart, Running, OwnerInv, Discovers, upstream,
     asking, engines
<1>11. ASSUME NEW u \in Up, Reports(u) PROVE OwnerInv'
  BY <1>11 DEF Types, TimerInv, ClientInv, OneStart, Running, OwnerInv, Reports, upstream,
     asking, engines
<1>12. ASSUME NEW u \in Up, GraceEnds(u) PROVE OwnerInv'
  BY <1>12 DEF Types, TimerInv, ClientInv, OneStart, Running, OwnerInv, GraceEnds, upstream,
     asking, engines
<1>13. ASSUME NEW u \in Up, GraceStops(u) PROVE OwnerInv'
  BY <1>13 DEF Types, TimerInv, ClientInv, OneStart, Running, OwnerInv, GraceStops, upstream,
     asking, engines
<1>14. ASSUME NEW u \in Up, Kills(u) PROVE OwnerInv'
  BY <1>14 DEF Types, TimerInv, ClientInv, OneStart, Running, OwnerInv, Kills, upstream, asking,
     engines
<1>15. ASSUME NEW r \in Request, Calls(r) PROVE OwnerInv'
  BY <1>15 DEF Types, TimerInv, ClientInv, OneStart, Running, OwnerInv, Calls, Serving, Steps,
     upstream, asking, engines
<1>16. ASSUME NEW r \in Request, Answered(r) PROVE OwnerInv'
  BY <1>16 DEF Types, TimerInv, ClientInv, OneStart, Running, OwnerInv, Answered, Drop, Steps,
     upstream, asking, engines
<1>17. ASSUME NEW e \in Engine, EngineExits(e) PROVE OwnerInv'
  BY <1>17 DEF Types, TimerInv, ClientInv, OneStart, Running, OwnerInv, EngineExits, upstream,
     asking, engines
<1>18. ASSUME NEW e \in Engine, ReleaseBegins(e) PROVE OwnerInv'
  BY <1>18 DEF Types, TimerInv, ClientInv, OneStart, Running, OwnerInv, ReleaseBegins, upstream,
     asking, engines
<1>19. ASSUME NEW e \in Engine, NEW r \in Request, ReleasesOne(e, r) PROVE OwnerInv'
  BY <1>19 DEF Types, TimerInv, ClientInv, OneStart, Running, OwnerInv, ReleasesOne, Release,
     Serving, upstream, asking, engines
<1>20. ASSUME NEW e \in Engine, ReleaseEnds(e) PROVE OwnerInv'
  BY <1>20 DEF Types, TimerInv, ClientInv, OneStart, Running, OwnerInv, ReleaseEnds, upstream,
     asking, engines
<1>21. CASE ProcessExits
  BY <1>21 DEF Types, TimerInv, ClientInv, OneStart, Running, OwnerInv, ProcessExits, upstream,
     asking, engines
<1>22. CASE Closes
  BY <1>22 DEF Types, TimerInv, ClientInv, OneStart, Running, OwnerInv, Closes, upstream,
     asking, engines
<1>23. CASE ManagerCloses
  BY <1>23 DEF Types, TimerInv, ClientInv, OneStart, Running, OwnerInv, ManagerCloses, upstream,
     asking, engines
<1> QED
  BY <1>1, <1>2, <1>3, <1>4, <1>5, <1>6, <1>7, <1>8, <1>9, <1>10, <1>11, <1>12, <1>13, <1>14,
     <1>15, <1>16, <1>17, <1>18, <1>19, <1>20, <1>21, <1>22, <1>23 DEF Next, Handling, Starting,
     Ending, Exiting

\* Every step that takes the last client away leaves the grace running.
LEMMA IdleStep ==
  ASSUME Types, TimerInv, ClientInv, OneStart, IdleIsTimed, [Next]_vars
  PROVE  IdleIsTimed'
<1> USE UpNumbers
<1>1. CASE UNCHANGED vars
  BY <1>1 DEF Types, TimerInv, ClientInv, OneStart, Running, IdleIsTimed, Serving, vars,
     upstream, asking, engines
<1>2. ASSUME NEW r \in Request, Asks(r) PROVE IdleIsTimed'
  BY <1>2 DEF Types, TimerInv, ClientInv, OneStart, Running, IdleIsTimed, Serving, Asks, Steps,
     upstream, asking, engines
<1>3. ASSUME NEW r \in Request, Listens(r) PROVE IdleIsTimed'
  BY <1>3 DEF Types, TimerInv, ClientInv, OneStart, Running, IdleIsTimed, Serving, Listens,
     Steps, upstream, asking, engines
<1>4. ASSUME NEW r \in Request, Joins(r) PROVE IdleIsTimed'
  BY <1>4 DEF Types, TimerInv, ClientInv, OneStart, Running, IdleIsTimed, Serving, Joins,
     Serving, Steps, upstream, asking, engines
<1>5. ASSUME NEW r \in Request, StartsNew(r) PROVE IdleIsTimed'
  BY <1>5 DEF Types, TimerInv, ClientInv, OneStart, Running, IdleIsTimed, Serving, StartsNew,
     Serving, Steps, upstream, asking, engines
<1>6. ASSUME NEW r \in Request, Granted(r) PROVE IdleIsTimed'
  BY <1>6 DEF Types, TimerInv, ClientInv, OneStart, Running, IdleIsTimed, Serving, Granted,
     Steps, upstream, asking, engines
<1>7. ASSUME NEW r \in Request, Refused(r) PROVE IdleIsTimed'
  BY <1>7 DEF Types, TimerInv, ClientInv, OneStart, Running, IdleIsTimed, Serving, Refused,
     Release, Serving, Steps, upstream, asking, engines
<1>8. ASSUME NEW r \in Request, Leaves(r) PROVE IdleIsTimed'
  BY <1>8 DEF Types, TimerInv, ClientInv, OneStart, Running, IdleIsTimed, Serving, Leaves,
     Release, Serving, Steps, upstream, asking, engines
<1>9. ASSUME NEW u \in Up, Connects(u) PROVE IdleIsTimed'
  BY <1>9 DEF Types, TimerInv, ClientInv, OneStart, Running, IdleIsTimed, Serving, Connects,
     upstream, asking, engines
<1>10. ASSUME NEW u \in Up, Discovers(u) PROVE IdleIsTimed'
  BY <1>10 DEF Types, TimerInv, ClientInv, OneStart, Running, IdleIsTimed, Serving, Discovers,
     upstream, asking, engines
<1>11. ASSUME NEW u \in Up, Reports(u) PROVE IdleIsTimed'
  BY <1>11 DEF Types, TimerInv, ClientInv, OneStart, Running, IdleIsTimed, Serving, Reports,
     upstream, asking, engines
<1>12. ASSUME NEW u \in Up, GraceEnds(u) PROVE IdleIsTimed'
  BY <1>12 DEF Types, TimerInv, ClientInv, OneStart, Running, IdleIsTimed, Serving, GraceEnds,
     upstream, asking, engines
<1>13. ASSUME NEW u \in Up, GraceStops(u) PROVE IdleIsTimed'
  BY <1>13 DEF Types, TimerInv, ClientInv, OneStart, Running, IdleIsTimed, Serving, GraceStops,
     upstream, asking, engines
<1>14. ASSUME NEW u \in Up, Kills(u) PROVE IdleIsTimed'
  BY <1>14 DEF Types, TimerInv, ClientInv, OneStart, Running, IdleIsTimed, Serving, Kills,
     upstream, asking, engines
<1>15. ASSUME NEW r \in Request, Calls(r) PROVE IdleIsTimed'
  BY <1>15 DEF Types, TimerInv, ClientInv, OneStart, Running, IdleIsTimed, Serving, Calls,
     Serving, Steps, upstream, asking, engines
<1>16. ASSUME NEW r \in Request, Answered(r) PROVE IdleIsTimed'
  BY <1>16 DEF Types, TimerInv, ClientInv, OneStart, Running, IdleIsTimed, Serving, Answered,
     Drop, Steps, upstream, asking, engines
<1>17. ASSUME NEW e \in Engine, EngineExits(e) PROVE IdleIsTimed'
  BY <1>17 DEF Types, TimerInv, ClientInv, OneStart, Running, IdleIsTimed, Serving, EngineExits,
     upstream, asking, engines
<1>18. ASSUME NEW e \in Engine, ReleaseBegins(e) PROVE IdleIsTimed'
  BY <1>18 DEF Types, TimerInv, ClientInv, OneStart, Running, IdleIsTimed, Serving,
     ReleaseBegins, upstream, asking, engines
<1>19. ASSUME NEW e \in Engine, NEW r \in Request, ReleasesOne(e, r) PROVE IdleIsTimed'
  BY <1>19 DEF Types, TimerInv, ClientInv, OneStart, Running, IdleIsTimed, Serving, ReleasesOne,
     Release, Serving, upstream, asking, engines
<1>20. ASSUME NEW e \in Engine, ReleaseEnds(e) PROVE IdleIsTimed'
  BY <1>20 DEF Types, TimerInv, ClientInv, OneStart, Running, IdleIsTimed, Serving, ReleaseEnds,
     upstream, asking, engines
<1>21. CASE ProcessExits
  BY <1>21 DEF Types, TimerInv, ClientInv, OneStart, Running, IdleIsTimed, Serving,
     ProcessExits, upstream, asking, engines
<1>22. CASE Closes
  BY <1>22 DEF Types, TimerInv, ClientInv, OneStart, Running, IdleIsTimed, Serving, Closes,
     upstream, asking, engines
<1>23. CASE ManagerCloses
  BY <1>23 DEF Types, TimerInv, ClientInv, OneStart, Running, IdleIsTimed, Serving,
     ManagerCloses, upstream, asking, engines
<1> QED
  BY <1>1, <1>2, <1>3, <1>4, <1>5, <1>6, <1>7, <1>8, <1>9, <1>10, <1>11, <1>12, <1>13, <1>14,
     <1>15, <1>16, <1>17, <1>18, <1>19, <1>20, <1>21, <1>22, <1>23 DEF Next, Handling, Starting,
     Ending, Exiting

-----------------------------------------------------------------------------
(* The theorems                                                             *)

\* The invariant holds at first.
LEMMA InitIInv == Init => IInv
<1> SUFFICES ASSUME Init PROVE IInv
  OBVIOUS
<1> USE GatewayAssumption DEF Init, Up, None
<1>1. Types
  BY DEF Types
<1>2. TimerInv /\ ClientInv
  BY DEF TimerInv, ClientInv
<1>3. OneStart /\ OwnerInv /\ IdleIsTimed
  BY DEF OneStart, Running, OwnerInv, IdleIsTimed, Serving
<1> QED
  BY <1>1, <1>2, <1>3 DEF IInv

\* The inductive invariant holds in every reachable state.
THEOREM InductiveInvariant == Spec => []IInv
<1>1. IInv /\ [Next]_vars => IInv'
  BY TypesStep, TimerStep, ClientStep, StartStep, OwnerStep, IdleStep DEF IInv
<1> QED
  BY <1>1, InitIInv, PTL DEF Spec

\* dund starts a shared server once at a time, and never beside the one that serves
\* (gateway.go: one upstream connection for each shared server).
THEOREM OneStartAtATime == Spec => []OneStart
<1>1. IInv => OneStart
  BY DEF IInv
<1> QED
  BY <1>1, InductiveInvariant, PTL

\* No server process is left that neither the table nor a stop under way knows.
THEOREM NothingOrphaned == Spec => []NoOrphan
<1>1. IInv => NoOrphan
  BY DEF IInv, OwnerInv, NoOrphan
<1> QED
  BY <1>1, InductiveInvariant, PTL

\* Whichever step takes the last client of a server away, its grace runs then.
THEOREM IdleTimed == Spec => []IdleIsTimed
<1>1. IInv => IdleIsTimed
  BY DEF IInv
<1> QED
  BY <1>1, InductiveInvariant, PTL
=============================================================================

------------------------------ MODULE Gateway ------------------------------
(***************************************************************************)
(* dund's MCP gateway (gateway.go, internal/dund/mcpgw.go): one connection *)
(* to a server, shared by the engines that ask for it.  One key: upstreams *)
(* of different keys meet only in the manager's table and in the close.    *)
(* A request is one mcp_share of an engine, and names the client (bearer)  *)
(* it registers.  The manager (mcpmgr, a library) knows a server by its    *)
(* key alone: which upstream started it, it cannot tell.                   *)
(***************************************************************************)
EXTENDS Naturals

CONSTANTS
  Engine,
  Request,
  MaxStarts    \* bound: upstreams started

ASSUME GatewayAssumption == MaxStarts \in Nat \ {0}

VARIABLES
  ups,     \* g.ups[key]: the upstream, by number (0: none)
  starts,  \* upstreams made
  phase,   \* per upstream: how far g.start is; "ok" and "failed": ready is closed
  timer,   \* per upstream: the grace timer: "off", "armed", "fired" (its function waits for g.mu)
  kills,   \* upstreams forgotten whose StopServer is still to come
  proc,    \* what the manager has under the key: "none", "alive", "dead" (exited, not stopped)
  clients, \* g.clients
  pc,      \* per request: where its handling is
  who,     \* the engine that asks
  held,    \* the upstream it looked up
  engine,  \* "live", "gone" (it exited), "releasing", "released"
  snap,    \* the bearers ReleaseEngine still has to give back
  closed   \* "no", "closed" (the tables are emptied), "down" (mgr.Close)

upstream == <<ups, starts, phase, timer, kills, proc>>
asking == <<pc, who, held>>
engines == <<engine, snap>>
vars == <<upstream, clients, asking, engines, closed>>

None == 0
Up == 1..MaxStarts

Init ==
  /\ ups = None /\ starts = 0 /\ phase = [u \in Up |-> "unused"] /\ timer = [u \in Up |-> "off"]
  /\ kills = {} /\ proc = "none" /\ clients = {}
  /\ pc = [r \in Request |-> "none"] /\ who \in [Request -> Engine]
  /\ held = [r \in Request |-> None]
  /\ engine = [e \in Engine |-> "live"] /\ snap = [e \in Engine |-> {}]
  /\ closed = "no"

Ready(u) == phase[u] \in {"ok", "failed"}
Serving == ups # None /\ phase[ups] # "failed"
Steps(r, from, to) == pc[r] = from /\ pc' = [pc EXCEPT ![r] = to]

-----------------------------------------------------------------------------
(* Release                                                                  *)

\* Mutant: only a client that was granted starts the grace.
ReleaseGranted(r) ==
  /\ clients' = clients \ {r}
  /\ timer' = IF /\ r \in clients /\ Serving /\ pc[r] = "granted" /\ clients' = {}
              THEN [timer EXCEPT ![ups] = "armed"] ELSE timer

\* The client is forgotten; after the last one of a running upstream its grace
\* begins (a starting one's, when it has started).
Release(r) ==
  /\ clients' = clients \ {r}
  /\ timer' = IF r \in clients /\ Serving /\ phase[ups] = "ok" /\ clients' = {}
              THEN [timer EXCEPT ![ups] = "armed"] ELSE timer

-----------------------------------------------------------------------------
(* mcp_share: handlePeer's goroutine                                        *)

\* The reader of an engine's events starts the goroutine.
Asks(r) ==
  /\ engine[who[r]] = "live" /\ closed = "no"
  /\ Steps(r, "none", "asked")
  /\ UNCHANGED <<upstream, clients, who, held, engines, closed>>

Listens(r) ==
  /\ Steps(r, "asked", IF closed = "no" THEN "listened" ELSE "refused")
  /\ UNCHANGED <<upstream, clients, who, held, engines, closed>>

\* The client is registered with the upstream that runs or starts.
Joins(r) ==
  /\ Serving /\ Steps(r, "listened", "waiting")
  /\ held' = [held EXCEPT ![r] = ups]
  /\ timer' = [timer EXCEPT ![ups] = IF @ = "armed" THEN "off" ELSE @]
  /\ clients' = clients \union {r}
  /\ UNCHANGED <<ups, starts, phase, kills, proc, who, engines, closed>>

\* ...or with a new one.
StartsNew(r) ==
  /\ ~Serving /\ starts < MaxStarts /\ Steps(r, "listened", "waiting")
  /\ starts' = starts + 1 /\ ups' = starts' /\ phase' = [phase EXCEPT ![starts'] = "connect"]
  /\ held' = [held EXCEPT ![r] = starts']
  /\ clients' = clients \union {r}
  /\ UNCHANGED <<timer, kills, proc, who, engines, closed>>

Granted(r) ==
  /\ Steps(r, "waiting", "granted") /\ phase[held[r]] = "ok"
  /\ UNCHANGED <<upstream, clients, who, held, engines, closed>>

\* The start failed, or the asker waited too long for it.
Refused(r) ==
  /\ Steps(r, "waiting", "refused") /\ phase[held[r]] # "ok"
  /\ Release(r)
  /\ UNCHANGED <<ups, starts, phase, kills, proc, who, held, engines, closed>>

\* A DELETE, or mcp_release.
Leaves(r) ==
  /\ engine[who[r]] = "live" /\ Steps(r, "granted", "left")
  /\ Release(r)
  /\ UNCHANGED <<ups, starts, phase, kills, proc, who, held, engines, closed>>

-----------------------------------------------------------------------------
(* g.start                                                                  *)

\* Mutant: nobody looks whether anyone still waits.
ReportsNoGrace(u) ==
  /\ phase[u] \in {"up", "broken"}
  /\ phase' = [phase EXCEPT ![u] = IF @ = "up" THEN "ok" ELSE "failed"]
  /\ ups' = IF phase[u] = "broken" /\ ups = u THEN None ELSE ups
  /\ UNCHANGED <<starts, timer, kills, proc, clients, asking, engines, closed>>

\* The login and the handshake.
Connects(u) ==
  /\ phase[u] = "connect"
  /\ \/ phase' = [phase EXCEPT ![u] = "tools"] /\ proc' = "alive"
     \/ phase' = [phase EXCEPT ![u] = "broken"] /\ UNCHANGED proc
  /\ UNCHANGED <<ups, starts, timer, kills, clients, asking, engines, closed>>

\* Mutant: an upstream that shows no tools is reported, and runs on.
DiscoversLeaves(u) ==
  /\ phase[u] = "tools"
  /\ phase' = [phase EXCEPT ![u] = "up"] \/ phase' = [phase EXCEPT ![u] = "broken"]
  /\ UNCHANGED <<ups, starts, timer, kills, proc, clients, asking, engines, closed>>

\* waitServerTools; an upstream that shows none in time is stopped.
Discovers(u) ==
  /\ phase[u] = "tools"
  /\ \/ phase' = [phase EXCEPT ![u] = "up"] /\ UNCHANGED proc
     \/ phase' = [phase EXCEPT ![u] = "broken"] /\ proc' = "none"
  /\ UNCHANGED <<ups, starts, timer, kills, clients, asking, engines, closed>>

\* Who waits is told; the grace begins when nobody does.
Reports(u) ==
  /\ phase[u] \in {"up", "broken"}
  /\ phase' = [phase EXCEPT ![u] = IF @ = "up" THEN "ok" ELSE "failed"]
  /\ ups' = IF phase[u] = "broken" /\ ups = u THEN None ELSE ups
  /\ timer' = IF phase[u] = "up" /\ clients = {} THEN [timer EXCEPT ![u] = "armed"] ELSE timer
  /\ UNCHANGED <<starts, kills, proc, clients, asking, engines, closed>>

-----------------------------------------------------------------------------
(* An upstream ends                                                         *)

ProcessExits ==
  /\ proc = "alive" /\ proc' = "dead"
  /\ UNCHANGED <<ups, starts, phase, timer, kills, clients, asking, engines, closed>>

GraceEnds(u) ==
  /\ timer[u] = "armed" /\ timer' = [timer EXCEPT ![u] = "fired"]
  /\ UNCHANGED <<ups, starts, phase, kills, proc, clients, asking, engines, closed>>

\* The timer's function, under g.mu: is it still the upstream, and still
\* without a client?
GraceStops(u) ==
  /\ timer[u] = "fired" /\ timer' = [timer EXCEPT ![u] = "off"]
  /\ IF ups = u /\ clients = {}
     THEN ups' = None /\ kills' = kills \union {u}
     ELSE UNCHANGED <<ups, kills>>
  /\ UNCHANGED <<starts, phase, proc, clients, asking, engines, closed>>

\* mgr.StopServer(key), after g.mu was let go.
Kills(u) ==
  /\ u \in kills /\ kills' = kills \ {u} /\ proc' = "none"
  /\ UNCHANGED <<ups, starts, phase, timer, clients, asking, engines, closed>>

\* A client's request: ServeHTTP looks up the upstream...
Calls(r) ==
  /\ engine[who[r]] = "live" /\ closed # "down" /\ pc[r] = "granted"
  /\ IF r \in clients /\ Serving
     THEN Steps(r, "granted", "calling") /\ held' = [held EXCEPT ![r] = ups]
     ELSE Steps(r, "granted", "lost") /\ UNCHANGED held
  /\ UNCHANGED <<upstream, clients, who, engines, closed>>

\* Mutant: drop forgets whatever runs under the key now.
DropCurrent(u) ==
  /\ ups' = None /\ clients' = {}
  /\ kills' = kills \union {u}

\* g.drop: the upstream it was looked up as, if it is still that one.
Drop(u) ==
  IF ups = u
  THEN ups' = None /\ clients' = {} /\ kills' = kills \union {u}
  ELSE UNCHANGED <<ups, clients, kills>>

\* ...and asks the manager. A server that is gone, or that ended the session,
\* is dropped; what the library says of a key it does not have may not tell.
Answered(r) ==
  /\ Steps(r, "calling", "granted")
  /\ \/ proc # "alive" /\ Drop(held[r])
     \/ proc # "dead" /\ UNCHANGED <<ups, clients, kills>>
  /\ UNCHANGED <<starts, phase, timer, proc, who, held, engines, closed>>

-----------------------------------------------------------------------------
(* An engine exits; dund closes                                             *)

EngineExits(e) ==
  /\ engine[e] = "live" /\ engine' = [engine EXCEPT ![e] = "gone"]
  /\ UNCHANGED <<upstream, clients, asking, snap, closed>>

\* ReleaseEngine lists the engine's clients,
ReleaseBegins(e) ==
  /\ engine[e] = "gone" /\ engine' = [engine EXCEPT ![e] = "releasing"]
  /\ snap' = [snap EXCEPT ![e] = {r \in clients : who[r] = e}]
  /\ UNCHANGED <<upstream, clients, asking, closed>>

\* and gives them back one by one.
ReleasesOne(e, r) ==
  /\ engine[e] = "releasing" /\ r \in snap[e] /\ snap' = [snap EXCEPT ![e] = @ \ {r}]
  /\ Release(r)
  /\ UNCHANGED <<ups, starts, phase, kills, proc, asking, engine, closed>>

ReleaseEnds(e) ==
  /\ engine[e] = "releasing" /\ snap[e] = {}
  /\ engine' = [engine EXCEPT ![e] = "released"]
  /\ UNCHANGED <<upstream, clients, asking, snap, closed>>

\* Service.Close comes to the gateway when its engines are gone.
Closes ==
  /\ closed = "no" /\ \A e \in Engine : engine[e] = "released"
  /\ closed' = "closed" /\ ups' = None /\ clients' = {}
  /\ timer' = [u \in Up |-> IF u = ups /\ timer[u] = "armed" THEN "off" ELSE timer[u]]
  /\ UNCHANGED <<starts, phase, kills, proc, asking, engines>>

ManagerCloses ==
  /\ closed = "closed" /\ closed' = "down" /\ proc' = "none"
  /\ UNCHANGED <<ups, starts, phase, timer, kills, clients, asking, engines>>

-----------------------------------------------------------------------------

Handling(r) == Listens(r) \/ Joins(r) \/ StartsNew(r) \/ Granted(r) \/ Refused(r) \/ Answered(r)
Starting(u) == Connects(u) \/ Discovers(u) \/ Reports(u)
Ending(u) == GraceEnds(u) \/ GraceStops(u) \/ Kills(u)
Exiting(e) == ReleaseBegins(e) \/ (\E r \in Request : ReleasesOne(e, r)) \/ ReleaseEnds(e)

Next ==
  \/ \E r \in Request : Asks(r) \/ Handling(r) \/ Leaves(r) \/ Calls(r)
  \/ \E u \in Up : Starting(u) \/ Ending(u)
  \/ \E e \in Engine : EngineExits(e) \/ Exiting(e)
  \/ ProcessExits \/ Closes \/ ManagerCloses

Spec == Init /\ [][Next]_vars

\* Goroutines and timers go on; a handshake and a discovery have a timeout.
\* Nobody has to ask, leave, call or exit.
FairSpec ==
  /\ Spec
  /\ \A r \in Request : WF_vars(Handling(r))
  /\ \A u \in Up : WF_vars(Starting(u)) /\ WF_vars(Ending(u))
  /\ \A e \in Engine : WF_vars(Exiting(e))

-----------------------------------------------------------------------------

Running(u) == phase[u] \in {"connect", "tools", "up", "broken"}

\* "dund runs one Gateway: for each shared server it holds one upstream
\* connection" (gateway.go): however calls fail, graces end and clients come
\* and go, no start runs beside another one or beside the upstream in the table.
OneStart == \A u \in Up : Running(u) => ups = u \/ closed # "no"

\* What runs under the key is somebody's: in the table, starting, or about to
\* be stopped. A server that nobody knows would run as long as dund.
NoOrphan == proc # "none" /\ closed = "no" => ups # None \/ kills # {}

\* "Its upstream stops GatewayGrace after its last client" (Release): whichever
\* step takes the last client away, and whenever, the grace is running.
IdleIsTimed == Serving /\ phase[ups] = "ok" /\ clients = {} => timer[ups] # "off"

\* ...and at the end of it the server is stopped.
IdleIsStopped == <>[](clients = {} /\ closed = "no") => <>[](proc = "none")

=============================================================================

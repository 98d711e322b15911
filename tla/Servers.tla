------------------------------ MODULE Servers ------------------------------
(***************************************************************************)
(* The engine's tool servers (servers_runtime.go, mcpscope.go): the        *)
(* switches in the files and as the session last read them, the servers    *)
(* that run, the starts in flight, and the session's tool set, which is    *)
(* rebuilt under the turn's lock.  Commands run on goroutines of their     *)
(* own, beside the turn loop and what other sessions write.                *)
(* A server is a process of its own: the shell's and dund's are left out.  *)
(***************************************************************************)
EXTENDS Naturals

CONSTANTS
  Server,
  Op,          \* goroutines that carry out commands and frames
  Loop,        \* the turn loop
  MaxStarts,   \* bound: calls of startServer
  MaxOps       \* bound: commands, frames and edits made elsewhere

ASSUME ServersAssumption == MaxStarts \in Nat \ {0} /\ MaxOps \in Nat /\ Loop \notin Op

VARIABLES
  file,      \* is the server on: what every scope's file resolves to
  specs,     \* h.specs: what the session last read
  up,        \* h.mgr: "no", "up" (shook hands), "ready" (its tools are listed)
  starting,  \* h.starting
  stopOf,    \* h.startStop: the start registered for the server (0: none)
  starts,    \* calls of startServer so far
  spc,       \* per start: where it is
  srv,       \* per start: its server
  cut,       \* starts whose context is cancelled
  pc,        \* per command and frame, and the turn loop: where it is
  kind,      \* "set", "bounce" (/mcp restart), "frame" (a global change elsewhere), "turn"
  about,     \* the server of a command
  prev,      \* specs as they were before the reload
  todo,      \* the servers a reload has still to start
  mine,      \* the start a command waits for (0: none)
  ap,        \* where it is in applyTools
  recon,     \* who holds reconMu
  turnMu,    \* what holds turnMu: "free", "turn", "fork", "peek", "apply"
  pending,   \* h.applyPending
  tools,     \* the servers whose tools the session has
  budget,    \* MaxOps, counted down
  byName     \* (history) servers restarted or started by name

running == <<up, starting, stopOf, cut>>
called == <<starts, spc, srv>>
walking == <<pc, kind, about, prev, todo, mine>>
toolset == <<ap, turnMu, pending, tools>>
vars == <<file, specs, running, called, walking, toolset, recon, budget, byName>>

Start == 1..MaxStarts
Caller == Op \union {Loop}
Actor == Caller \union Start
None == 0
Ready == {s \in Server : up[s] = "ready"}
Flying(k) == spc[k] \notin {"none", "over", "failed"}

\* A session whose servers are up.
Init ==
  /\ file \in [Server -> BOOLEAN] /\ specs = file
  /\ up = [s \in Server |-> IF specs[s] THEN "ready" ELSE "no"] /\ starting = {}
  /\ stopOf = [s \in Server |-> None] /\ cut = {}
  /\ starts = 0 /\ spc = [k \in Start |-> "none"]
  /\ srv \in {[k \in Start |-> s] : s \in {CHOOSE s \in Server : TRUE}}
  /\ pc = [a \in Caller |-> "idle"] /\ kind = [a \in Caller |-> IF a = Loop THEN "turn" ELSE "none"]
  /\ about = [a \in Caller |-> CHOOSE s \in Server : TRUE]
  /\ prev = [a \in Caller |-> {}] /\ todo = [a \in Caller |-> {}] /\ mine = [a \in Caller |-> None]
  /\ ap = [a \in Actor |-> "no"] /\ recon = "none" /\ turnMu = "free"
  /\ pending = FALSE /\ tools = Ready /\ budget = MaxOps /\ byName = {}

At(a, from) == pc[a] = from /\ ap[a] = "no"
Goes(a, to) == pc' = [pc EXCEPT ![a] = to]
\* A command's goroutine ends.
Rests(o) ==
  /\ Goes(o, "idle") /\ kind' = [kind EXCEPT ![o] = "none"]
  /\ about' = [about EXCEPT ![o] = CHOOSE s \in Server : TRUE]
Spends == budget > 0 /\ budget' = budget - 1

-----------------------------------------------------------------------------
(* applyTools                                                               *)

Applies(a) == ap' = [ap EXCEPT ![a] = "store"]

Stores(a) ==
  /\ ap[a] = "store" /\ pending' = TRUE /\ ap' = [ap EXCEPT ![a] = "try"]
  /\ UNCHANGED <<file, specs, running, called, walking, turnMu, tools, recon, budget, byName>>

\* Who holds the lock applies on the way out.
Tries(a) ==
  /\ ap[a] = "try"
  /\ IF pending /\ turnMu = "free"
     THEN ap' = [ap EXCEPT ![a] = "swap"] /\ turnMu' = "apply"
     ELSE ap' = [ap EXCEPT ![a] = "no"] /\ UNCHANGED turnMu
  /\ UNCHANGED <<file, specs, running, called, walking, pending, tools, recon, budget, byName>>

Rebuilds(a) ==
  /\ ap[a] = "swap" /\ ap' = [ap EXCEPT ![a] = "unlock"]
  /\ pending' = FALSE /\ tools' = (IF pending THEN Ready ELSE tools)
  /\ UNCHANGED <<file, specs, running, called, walking, turnMu, recon, budget, byName>>

Unlocks(a) ==
  /\ ap[a] = "unlock" /\ ap' = [ap EXCEPT ![a] = "try"] /\ turnMu' = "free"
  /\ UNCHANGED <<file, specs, running, called, walking, pending, tools, recon, budget, byName>>

Applying(a) == Stores(a) \/ Tries(a) \/ Rebuilds(a) \/ Unlocks(a)

-----------------------------------------------------------------------------
(* startServer                                                              *)

StartAt(k, from) == spc[k] = from /\ ap[k] = "no"
StartGoes(k, to) == spc' = [spc EXCEPT ![k] = to]

\* A call for s, as number starts + 1.
Calls(s) ==
  /\ starts < MaxStarts /\ starts' = starts + 1
  /\ spc' = [spc EXCEPT ![starts'] = "queued"] /\ srv' = [srv EXCEPT ![starts'] = s]

Marks(k) ==
  /\ StartAt(k, "queued") /\ StartGoes(k, "marked")
  /\ starting' = starting \union {srv[k]}
  /\ UNCHANGED <<file, specs, up, stopOf, cut, starts, srv, walking, toolset, recon, budget, byName>>

\* From here it can be stopped.
Registers(k) ==
  /\ StartAt(k, "marked") /\ StartGoes(k, "connect")
  /\ stopOf' = [stopOf EXCEPT ![srv[k]] = k]
  /\ UNCHANGED <<file, specs, up, starting, cut, starts, srv, walking, toolset, recon, budget, byName>>

Connects(k) ==
  /\ StartAt(k, "connect")
  /\ \/ /\ k \notin cut /\ StartGoes(k, "tools")
        /\ up' = [up EXCEPT ![srv[k]] = IF @ = "no" THEN "up" ELSE @]
     \/ StartGoes(k, "lost") /\ UNCHANGED up
  /\ UNCHANGED <<file, specs, starting, stopOf, cut, starts, srv, walking, toolset, recon, budget, byName>>

\* waitServerTools. A server that shows none is stopped.
Discovers(k) ==
  /\ StartAt(k, "tools")
  /\ \/ up[srv[k]] # "no" /\ StartGoes(k, "won") /\ up' = [up EXCEPT ![srv[k]] = "ready"]
     \/ up[srv[k]] # "ready" /\ StartGoes(k, "lost") /\ up' = [up EXCEPT ![srv[k]] = "no"]
  /\ UNCHANGED <<file, specs, starting, stopOf, cut, starts, srv, walking, toolset, recon, budget, byName>>

\* The start can be stopped no more; then the tools.
Records(k) ==
  /\ \/ StartAt(k, "won") /\ StartGoes(k, "wins")
     \/ StartAt(k, "lost") /\ StartGoes(k, "loses")
  /\ stopOf' = [stopOf EXCEPT ![srv[k]] = None] /\ Applies(k) /\ cut' = cut \ {k}
  /\ UNCHANGED <<file, specs, up, starting, starts, srv, walking, turnMu, pending, tools, recon, budget, byName>>

Ends(k) ==
  /\ \/ StartAt(k, "wins") /\ StartGoes(k, "over")
     \/ StartAt(k, "loses") /\ StartGoes(k, "failed")
  /\ starting' = starting \ {srv[k]}
  /\ UNCHANGED <<file, specs, up, stopOf, cut, starts, srv, walking, toolset, recon, budget, byName>>

Starting(k) == Marks(k) \/ Registers(k) \/ Connects(k) \/ Discovers(k) \/ Records(k) \/ Ends(k) \/ Applying(k)

-----------------------------------------------------------------------------
(* reloadServers                                                            *)

TurnedOff(a) == {s \in prev[a] : ~specs[s]}
TurnedOn(a) == {s \in Server \ prev[a] : specs[s]}

\* Under reconMu until what is to start is marked.
Resolves(a) ==
  /\ At(a, "resolve") /\ recon = "none"
  /\ specs' = file
  /\ IF specs = file THEN Goes(a, "after") /\ UNCHANGED <<prev, recon>>
     ELSE /\ Goes(a, "stop") /\ recon' = a
          /\ prev' = [prev EXCEPT ![a] = {s \in Server : specs[s]}]
  /\ UNCHANGED <<file, running, called, kind, about, todo, mine, toolset, budget, byName>>

\* What is no longer on is stopped,
StopsOff(a) ==
  /\ At(a, "stop") /\ Goes(a, "cancel")
  /\ up' = [s \in Server |-> IF s \in TurnedOff(a) THEN "no" ELSE up[s]]
  /\ UNCHANGED <<file, specs, starting, stopOf, cut, called,
                 kind, about, prev, todo, mine, toolset, recon, budget, byName>>

\* and so is its start.
CancelsOff(a) ==
  /\ At(a, "cancel") /\ Goes(a, "mark")
  /\ cut' = cut \union ({stopOf[s] : s \in TurnedOff(a)} \ {None})
  /\ UNCHANGED <<file, specs, up, starting, stopOf, called,
                 kind, about, prev, todo, mine, toolset, recon, budget, byName>>

\* Mutant: what is to start is not marked yet.
MarksLater(a) ==
  /\ At(a, "mark") /\ Goes(a, "start") /\ recon' = "none"
  /\ prev' = [prev EXCEPT ![a] = {}]
  /\ todo' = [todo EXCEPT ![a] = {s \in TurnedOn(a) : up[s] = "no" /\ s \notin starting}]
  /\ UNCHANGED <<file, specs, running, called, kind, about, mine, toolset, budget, byName>>

\* What turned on, is not up and is not starting is to be started.
MarksOn(a) ==
  /\ At(a, "mark") /\ Goes(a, "start") /\ recon' = "none"
  /\ prev' = [prev EXCEPT ![a] = {}]
  /\ LET new == {s \in TurnedOn(a) : up[s] = "no" /\ s \notin starting}
     IN todo' = [todo EXCEPT ![a] = new] /\ starting' = starting \union new
  /\ UNCHANGED <<file, specs, up, stopOf, cut, called, kind, about, mine, toolset, budget, byName>>

\* A command waits for one after another; a turn and a frame for none.
StartsOne(a) ==
  /\ At(a, "start") /\ mine[a] = None
  /\ \E s \in todo[a] : Calls(s) /\ todo' = [todo EXCEPT ![a] = @ \ {s}]
  /\ mine' = IF kind[a] = "set" THEN [mine EXCEPT ![a] = starts'] ELSE mine
  /\ UNCHANGED <<file, specs, running, pc, kind, about, prev, toolset, recon, budget, byName>>

WaitsForOne(a) ==
  /\ At(a, "start") /\ mine[a] # None /\ ~Flying(mine[a])
  /\ mine' = [mine EXCEPT ![a] = None]
  /\ kind' = IF spc[mine[a]] = "failed" THEN [kind EXCEPT ![a] = "err"] ELSE kind
  /\ UNCHANGED <<file, specs, running, called, pc, about, prev, todo, toolset, recon, budget, byName>>

\* Mutant: the tools are rebuilt by what was started.
ReloadedStops(a) ==
  /\ At(a, "start") /\ todo[a] = {} /\ mine[a] = None
  /\ Goes(a, "after")
  /\ UNCHANGED <<file, specs, running, called, kind, about, prev, todo, mine, toolset, recon, budget, byName>>

Reloaded(a) ==
  /\ At(a, "start") /\ todo[a] = {} /\ mine[a] = None
  /\ Goes(a, "after") /\ Applies(a)
  /\ UNCHANGED <<file, specs, running, called, kind, about, prev, todo, mine, turnMu, pending, tools, recon, budget, byName>>

Reloading(a) == Resolves(a) \/ StopsOff(a) \/ CancelsOff(a) \/ MarksOn(a) \/ StartsOne(a)
                \/ WaitsForOne(a) \/ Reloaded(a)

-----------------------------------------------------------------------------
(* Commands, frames, other sessions                                         *)

\* Another session, or a hand, edits a file that this one resolves.
Elsewhere(s) ==
  /\ Spends /\ file' = [file EXCEPT ![s] = ~@]
  /\ UNCHANGED <<specs, running, called, walking, toolset, recon, byName>>

Begins(o, k, s, to) ==
  /\ At(o, "idle") /\ Spends /\ Goes(o, to)
  /\ kind' = [kind EXCEPT ![o] = k] /\ about' = [about EXCEPT ![o] = s]

\* SetServerOn writes the switch and reloads.
Switches(o, s, v) ==
  /\ Begins(o, "set", s, "resolve") /\ file' = [file EXCEPT ![s] = v]
  /\ UNCHANGED <<specs, running, called, prev, todo, mine, toolset, recon, byName>>

\* A server started by name, unless it is up or starting.
ByName(o, s, to) ==
  /\ Calls(s) /\ mine' = [mine EXCEPT ![o] = starts'] /\ Goes(o, to)
  /\ byName' = byName \union {s}

\* After the reload: a server that is on but not up is tried again.
TriesAgain(o) ==
  /\ At(o, "after") /\ kind[o] # "turn"
  /\ IF /\ kind[o] = "set" /\ specs[about[o]]
        /\ up[about[o]] = "no" /\ about[o] \notin starting
     THEN ByName(o, about[o], "named") /\ UNCHANGED <<kind, about>>
     ELSE Rests(o) /\ UNCHANGED <<called, mine, byName>>
  /\ UNCHANGED <<file, specs, running, prev, todo, toolset, recon, budget>>

NamedEnds(o) ==
  /\ At(o, "named") /\ ~Flying(mine[o])
  /\ mine' = [mine EXCEPT ![o] = None] /\ Rests(o)
  /\ UNCHANGED <<file, specs, running, called, prev, todo, toolset, recon, budget, byName>>

\* /mcp restart: StopServer...
Bounces(o, s) ==
  /\ Begins(o, "bounce", s, "bounced")
  /\ up' = [up EXCEPT ![s] = "no"] /\ byName' = byName \union {s}
  /\ IF up[s] = "no" THEN UNCHANGED ap ELSE Applies(o)
  /\ UNCHANGED <<file, specs, starting, stopOf, cut, called, prev, todo, mine,
                 turnMu, pending, tools, recon>>

\* ...and StartServer.
BouncesBack(o) ==
  /\ At(o, "bounced")
  /\ IF up[about[o]] = "no" /\ about[o] \notin starting
     THEN ByName(o, about[o], "named") /\ UNCHANGED <<kind, about>>
     ELSE Rests(o) /\ UNCHANGED <<called, mine, byName>>
  /\ UNCHANGED <<file, specs, running, prev, todo, toolset, recon, budget>>

\* FollowServersIfIdle: while a turn runs, the frame is left to the next one.
Peeks(o) ==
  /\ turnMu = "free" /\ turnMu' = "peek" /\ Begins(o, "frame", CHOOSE s \in Server : TRUE, "peek")
  /\ UNCHANGED <<file, specs, running, called, prev, todo, mine, ap, pending, tools, recon, byName>>

Peeked(o) ==
  /\ At(o, "peek") /\ turnMu' = "free" /\ Goes(o, "resolve")
  /\ UNCHANGED <<file, specs, running, called, kind, about, prev, todo, mine, ap, pending, tools, recon, budget, byName>>

-----------------------------------------------------------------------------
(* Turns and forks                                                          *)

TurnBegins ==
  /\ At(Loop, "idle") /\ Goes(Loop, "resolve")
  /\ UNCHANGED <<file, specs, running, called, kind, about, prev, todo, mine, toolset, recon, budget, byName>>

TurnLocks ==
  /\ At(Loop, "after") /\ turnMu = "free" /\ turnMu' = "turn" /\ Goes(Loop, "turn")
  /\ UNCHANGED <<file, specs, running, called, kind, about, prev, todo, mine, ap, pending, tools, recon, budget, byName>>

TurnUnlocks ==
  /\ At(Loop, "turn") /\ turnMu' = "free" /\ Goes(Loop, "out")
  /\ UNCHANGED <<file, specs, running, called, kind, about, prev, todo, mine, ap, pending, tools, recon, budget, byName>>

\* Mutant: what was put off until the turn ended is not looked at.
TurnLeaves ==
  /\ At(Loop, "out") /\ Goes(Loop, "idle") /\ UNCHANGED ap
  /\ UNCHANGED <<file, specs, running, called, kind, about, prev, todo, mine, turnMu, pending, tools, recon, budget, byName>>

\* What was put off until the turn ended.
TurnApplies ==
  /\ At(Loop, "out") /\ Goes(Loop, "idle")
  /\ IF pending THEN Applies(Loop) ELSE UNCHANGED ap
  /\ UNCHANGED <<file, specs, running, called, kind, about, prev, todo, mine, turnMu, pending, tools, recon, budget, byName>>

ForkTakes ==
  /\ Spends /\ turnMu = "free" /\ turnMu' = "fork"
  /\ UNCHANGED <<file, specs, running, called, walking, ap, pending, tools, recon, byName>>

ForkGives ==
  /\ turnMu = "fork" /\ turnMu' = "free"
  /\ UNCHANGED <<file, specs, running, called, walking, ap, pending, tools, recon, budget, byName>>

-----------------------------------------------------------------------------

Commanding(o) == TriesAgain(o) \/ NamedEnds(o) \/ BouncesBack(o) \/ Peeked(o)

Next ==
  \/ \E k \in Start : Starting(k)
  \/ \E a \in Caller : Reloading(a) \/ Applying(a)
  \/ \E o \in Op : \/ Commanding(o) \/ Peeks(o)
                   \/ \E s \in Server : Bounces(o, s) \/ \E v \in BOOLEAN : Switches(o, s, v)
  \/ \E s \in Server : Elsewhere(s)
  \/ TurnBegins \/ TurnLocks \/ TurnUnlocks \/ TurnApplies \/ ForkTakes \/ ForkGives

Spec == Init /\ [][Next]_vars

\* Goroutines go on; a start has a timeout, a turn and a fork end.
FairSpec ==
  /\ Spec
  /\ \A k \in Start : WF_vars(Starting(k))
  /\ \A a \in Caller : WF_vars(Reloading(a) \/ Applying(a))
  /\ \A o \in Op : WF_vars(Commanding(o))
  /\ WF_vars(TurnUnlocks \/ TurnApplies) /\ SF_vars(TurnLocks) /\ WF_vars(ForkGives)

-----------------------------------------------------------------------------

FlyingFor(s) == {k \in Start : Flying(k) /\ srv[k] = s}

\* "Each is marked starting under the lock, so no other reconcile starts it
\* again" (reloadServers): whatever turns, frames and commands reload, a server
\* is started once at a time, unless somebody starts it by name as well.
OneStart == \A s \in Server \ byName : \A j, k \in FlyingFor(s) : j = k

Resting ==
  /\ \A a \in Caller : pc[a] = "idle"
  /\ \A a \in Actor : ap[a] = "no"
  /\ \A k \in Start : ~Flying(k)

\* The tools the model is told of are those of the servers that run, or the
\* session knows that they are not: no order of rebuilds, starts and stops
\* loses a change.
ToolsCurrent == Resting /\ ~pending => tools = Ready

\* ...and as long as there are turns, what was put off is made good.
CatchesUp == []<>(turnMu = "turn") => <>[](tools = Ready)

=============================================================================

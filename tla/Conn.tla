-------------------------------- MODULE Conn --------------------------------
(***************************************************************************)
(* dund's connections (internal/dund/server.go): what a connection follows *)
(* and which sub-agent views it opened, on one session with one child.     *)
(* A connection is served by its reader, which handles frames, and closed  *)
(* once, by anyone: the reader, the writer, or a send that stalled. A      *)
(* viewer is counted at both ends: by the connection (c.views) and by the  *)
(* engine (subAgent.watchers).                                             *)
(***************************************************************************)
EXTENDS Naturals, Sequences, FiniteSets, Functions

CONSTANTS
  Conn,
  MaxFrames,   \* bound: frames sent
  MaxQueue,    \* bound: frames of a connection on their way
  MaxEngines,  \* bound: engines the session has
  MaxFails     \* bound: engines that do not start

ASSUME ConnAssumption ==
  /\ IsFiniteSet(Conn)
  /\ MaxFrames \in Nat /\ MaxQueue \in Nat /\ MaxEngines \in Nat \ {0} /\ MaxFails \in Nat

VARIABLES
  scope,   \* the clients that are in the child's conversation
  seen,    \* per client: the engine it last asked for the view
  frames,  \* per client: commands on their way
  used,    \* frames sent
  conn,    \* close: "open", "done" is closed, "swept", "gone"
  reader,  \* where the reader is in a frame
  subs,    \* c.subs: the subscription registered (0: none)
  hand,    \* the one subscribe has just taken
  live,    \* the log's subscriptions
  views,   \* c.views
  owed,    \* leaves close has to send
  left,    \* leaves the frame "leave the session" has to send
  leaver,  \* svc.Leave's goroutine
  engine,  \* the engine's number, and whether it runs
  pipe,    \* what is on its stdin
  watchers,\* its child's watchers
  fails,
  late     \* a leave was counted after close had taken the views

client == <<scope, seen, frames, used>>
following == <<subs, hand, live>>
closing == <<conn, owed>>
session == <<engine, pipe, watchers, fails, late>>
connVars == <<client, reader, following, views, closing, left, leaver, session>>

NoSub == 0
Zero == [c \in Conn |-> 0]

ConnInit ==
  /\ scope = {} /\ seen = Zero /\ frames = [c \in Conn |-> <<>>] /\ used = 0
  /\ conn = [c \in Conn |-> "open"] /\ reader = [c \in Conn |-> "read"]
  /\ subs = Zero /\ hand = Zero /\ live = {}
  /\ views = Zero /\ owed = Zero /\ left = Zero /\ leaver = [c \in Conn |-> "none"]
  /\ engine = [n |-> 0, up |-> FALSE] /\ pipe = <<>> /\ watchers = 0 /\ fails = 0
  /\ late = FALSE

-----------------------------------------------------------------------------
(* The client                                                               *)

Sends(c, frame) ==
  /\ conn[c] = "open" /\ used < MaxFrames /\ Len(frames[c]) < MaxQueue
  /\ used' = used + 1
  /\ frames' = [frames EXCEPT ![c] = Append(@, frame)]
  /\ UNCHANGED <<reader, following, views, closing, left, leaver, session>>

\* The TUI enters the child's conversation, and leaves it.
Enters(c) ==
  /\ c \notin scope /\ scope' = scope \union {c}
  /\ seen' = [seen EXCEPT ![c] = engine.n]
  /\ Sends(c, "view")

LeavesView(c) == c \in scope /\ scope' = scope \ {c} /\ Sends(c, "leave") /\ UNCHANGED seen

\* "ready" of another engine: "the watch went with the old one".
AsksAgain(c) ==
  /\ c \in scope /\ engine.up /\ engine.n > seen[c] /\ <<c, subs[c]>> \in live
  /\ seen' = [seen EXCEPT ![c] = engine.n]
  /\ Sends(c, "view") /\ UNCHANGED scope

Follows(c, frame) ==
  /\ frame \in {"subscribe", "detach"} /\ Sends(c, frame) /\ UNCHANGED <<scope, seen>>

\* /exit.
Exits(c) == scope' = scope \ {c} /\ Sends(c, "exit") /\ UNCHANGED seen

-----------------------------------------------------------------------------
(* The engine                                                               *)

Starts ==
  /\ ~engine.up /\ engine.n < MaxEngines
  /\ engine' = [n |-> engine.n + 1, up |-> TRUE]

\* ensureRunning: the engine runs, starts, or fails to.
Runs(then) ==
  \/ engine.up /\ UNCHANGED engine /\ then
  \/ Starts /\ then

CannotRun == ~engine.up /\ fails < MaxFails /\ fails' = fails + 1 /\ UNCHANGED <<engine, pipe, watchers, late>>

\* The restart timer, another client's command.
EngineStarts ==
  /\ Starts
  /\ UNCHANGED <<client, reader, following, views, closing, left, leaver, pipe, watchers, fails, late>>

Stopped ==
  /\ engine' = [engine EXCEPT !.up = FALSE] /\ pipe' = <<>> /\ watchers' = 0
  /\ UNCHANGED <<fails, late>>

\* A crash, a restart, the reaper: what is unread on the pipe goes too.
EngineEnds ==
  /\ engine.up /\ Stopped
  /\ UNCHANGED <<client, reader, following, views, closing, left, leaver>>

\* Mutant: a viewer who leaves ends the watch.
AgentCmdFlag ==
  /\ pipe # <<>> /\ pipe' = Tail(pipe)
  /\ watchers' = IF Head(pipe) = "view" THEN watchers + 1 ELSE 0
  /\ UNCHANGED <<client, reader, following, views, closing, left, leaver, engine, fails, late>>

\* AgentWatch and AgentUnwatch.
AgentCmd ==
  /\ pipe # <<>> /\ pipe' = Tail(pipe)
  /\ watchers' = IF Head(pipe) = "view" THEN watchers + 1
                 ELSE IF watchers > 0 THEN watchers - 1 ELSE 0
  /\ UNCHANGED <<client, reader, following, views, closing, left, leaver, engine, fails, late>>

-----------------------------------------------------------------------------
(* The reader: handle                                                       *)

\* The next frame; one that was read ahead is handled though the connection is
\* closed.
Handles(c, frame, step) ==
  /\ reader[c] = "read" /\ frames[c] # <<>> /\ Head(frames[c]) = frame
  /\ frames' = [frames EXCEPT ![c] = Tail(@)]
  /\ reader' = [reader EXCEPT ![c] = step]
  /\ UNCHANGED <<scope, seen, used>>

Steps(c, from, to) == reader[c] = from /\ reader' = [reader EXCEPT ![c] = to]

\* A view or a leave goes to the engine, which starts for it...
Forwards(c, frame) ==
  /\ frame \in {"view", "leave"} /\ Handles(c, frame, frame)
  /\ Runs(pipe' = Append(pipe, frame)) /\ UNCHANGED <<watchers, fails, late>>
  /\ UNCHANGED <<following, views, closing, left, leaver>>

ForwardFails(c) ==
  /\ \E frame \in {"view", "leave"} : Handles(c, frame, "read")
  /\ CannotRun
  /\ UNCHANGED <<following, views, closing, left, leaver>>

\* ...and is counted after it.
CountView(c) ==
  /\ \/ Steps(c, "view", "read") /\ views' = [views EXCEPT ![c] = @ + 1] /\ UNCHANGED late
     \/ /\ Steps(c, "leave", "read")
        /\ views' = [views EXCEPT ![c] = IF @ > 0 THEN @ - 1 ELSE 0]
        /\ late' = (late \/ conn[c] \in {"swept", "gone"})
  /\ UNCHANGED <<client, following, closing, left, leaver, engine, pipe, watchers, fails>>

\* subscribe takes a subscription of the log...
Subscribe(c) ==
  /\ Handles(c, "subscribe", "register")
  /\ hand' = [hand EXCEPT ![c] = CHOOSE n \in {1, 2} : n # subs[c]]
  /\ live' = live \union {<<c, hand'[c]>>}
  /\ UNCHANGED <<subs, views, closing, left, leaver, session>>

\* Mutant: the subscription it replaces is kept.
RegisterBeside(c) ==
  /\ Steps(c, "register", "run")
  /\ subs' = [subs EXCEPT ![c] = hand[c]] /\ hand' = [hand EXCEPT ![c] = NoSub]
  /\ UNCHANGED <<client, live, views, closing, left, leaver, session>>

\* ...puts it in the old one's place under c.mu...
Register(c) ==
  /\ Steps(c, "register", "run")
  /\ live' = live \ {<<c, subs[c]>>}
  /\ subs' = [subs EXCEPT ![c] = hand[c]] /\ hand' = [hand EXCEPT ![c] = NoSub]
  /\ UNCHANGED <<client, views, closing, left, leaver, session>>

\* ...and has the engine running.
EnsureRunning(c) ==
  /\ Steps(c, "run", "read")
  /\ \/ Runs(TRUE) /\ UNCHANGED <<pipe, watchers, fails, late>>
     \/ CannotRun
  /\ UNCHANGED <<client, following, views, closing, left, leaver>>

\* c.mu: the registered subscription is closed.
Unfollows(c) ==
  /\ live' = live \ {<<c, subs[c]>>} /\ subs' = [subs EXCEPT ![c] = NoSub]
  /\ UNCHANGED hand

Detach(c) ==
  /\ Handles(c, "detach", "read") /\ Unfollows(c)
  /\ UNCHANGED <<views, closing, left, leaver, session>>

\* Leave: the subscription and the views are taken, the leaves sent...
Leave(c) ==
  /\ Handles(c, "exit", "leaves") /\ Unfollows(c)
  /\ left' = [left EXCEPT ![c] = views[c]] /\ views' = [views EXCEPT ![c] = 0]
  /\ UNCHANGED <<closing, leaver, session>>

\* sendIfRunning.
SendLeave ==
  /\ pipe' = IF engine.up THEN Append(pipe, "leave") ELSE pipe
  /\ UNCHANGED <<engine, watchers, fails, late>>

LeaveSends(c) ==
  /\ reader[c] = "leaves" /\ left[c] > 0 /\ SendLeave
  /\ left' = [left EXCEPT ![c] = @ - 1]
  /\ UNCHANGED <<client, reader, following, views, closing, leaver>>

\* ...and a goroutine asks whether anyone is attached still (one at a time
\* for a connection: bound), and stops the engine later.
LeaveGoes(c) ==
  /\ left[c] = 0 /\ leaver[c] = "none" /\ Steps(c, "leaves", "read")
  /\ leaver' = [leaver EXCEPT ![c] = "ask"]
  /\ UNCHANGED <<client, following, views, closing, left, session>>

LeaveAsks(c) ==
  /\ leaver[c] = "ask"
  /\ leaver' = [leaver EXCEPT ![c] = IF live = {} THEN "stop" ELSE "none"]
  /\ UNCHANGED <<client, reader, following, views, closing, left, session>>

LeaveStops(c) ==
  /\ leaver[c] = "stop" /\ leaver' = [leaver EXCEPT ![c] = "none"] /\ Stopped
  /\ UNCHANGED <<client, reader, following, views, closing, left>>

-----------------------------------------------------------------------------
(* close                                                                    *)

\* Dropped by the log for falling behind.
FallsBehind(c) ==
  /\ <<c, subs[c]>> \in live /\ live' = live \ {<<c, subs[c]>>}
  /\ UNCHANGED <<client, reader, subs, hand, views, closing, left, leaver, session>>

\* The reader's input ends; its close waits for one that is under way.
ReaderEnds(c) ==
  /\ Steps(c, "read", "over")
  /\ conn' = [conn EXCEPT ![c] = IF @ = "open" THEN "done" ELSE @]
  /\ UNCHANGED <<client, following, views, owed, left, leaver, session>>

\* The writer, or a send that stalled.
Closes(c) ==
  /\ conn[c] = "open" /\ conn' = [conn EXCEPT ![c] = "done"]
  /\ UNCHANGED <<client, reader, following, views, owed, left, leaver, session>>

\* Mutant: the views are let go without a leave.
SweepsSubs(c) ==
  /\ conn[c] = "done" /\ conn' = [conn EXCEPT ![c] = "swept"]
  /\ Unfollows(c) /\ views' = [views EXCEPT ![c] = 0]
  /\ UNCHANGED <<client, reader, owed, left, leaver, session>>

\* c.mu: the subscription is closed, the views are taken.
Sweeps(c) ==
  /\ conn[c] = "done" /\ conn' = [conn EXCEPT ![c] = "swept"]
  /\ Unfollows(c)
  /\ owed' = [owed EXCEPT ![c] = views[c]] /\ views' = [views EXCEPT ![c] = 0]
  /\ UNCHANGED <<client, reader, left, leaver, session>>

\* leaveViews, and off the server's list.
CloseSends(c) ==
  /\ conn[c] = "swept" /\ owed[c] > 0 /\ SendLeave
  /\ owed' = [owed EXCEPT ![c] = @ - 1]
  /\ UNCHANGED <<client, reader, following, views, conn, left, leaver>>

CloseEnds(c) ==
  /\ conn[c] = "swept" /\ owed[c] = 0 /\ conn' = [conn EXCEPT ![c] = "gone"]
  /\ UNCHANGED <<client, reader, following, views, owed, left, leaver, session>>

Client(c) ==
  \/ Enters(c) \/ LeavesView(c) \/ AsksAgain(c) \/ Exits(c)
  \/ \E frame \in {"subscribe", "detach"} : Follows(c, frame)

Serves(c) ==
  \/ \E frame \in {"view", "leave"} : Forwards(c, frame)
  \/ ForwardFails(c) \/ CountView(c) \/ Subscribe(c) \/ Register(c) \/ EnsureRunning(c) \/ Detach(c)
  \/ Leave(c) \/ LeaveSends(c) \/ LeaveGoes(c) \/ LeaveAsks(c) \/ LeaveStops(c)
  \/ FallsBehind(c) \/ ReaderEnds(c) \/ Closes(c) \/ Sweeps(c) \/ CloseSends(c) \/ CloseEnds(c)

ConnNext == EngineStarts \/ EngineEnds \/ AgentCmd \/ \E c \in Conn : Client(c) \/ Serves(c)

ConnSpec == ConnInit /\ [][ConnNext]_connVars

-----------------------------------------------------------------------------
(* Properties *)

\* Nothing is between a client's frame and the engine's count.
Settled ==
  /\ pipe = <<>>
  /\ \A c \in Conn : reader[c] \in {"read", "over", "register", "run"} /\ owed[c] = 0 /\ left[c] = 0

\* Types; what is owed is owed by a connection that was swept, or a leave. A
\* connection has one subscription: the one it registered, beside the one a
\* subscribe under way is about to put there (server.go 487-492). So none
\* outlives close, except one that its reader registers after it.
TypeOK ==
  /\ scope \subseteq Conn /\ seen \in [Conn -> 0..MaxEngines] /\ used \in 0..MaxFrames
  /\ frames \in [Conn -> Seq({"view", "leave", "subscribe", "detach", "exit"})]
  /\ conn \in [Conn -> {"open", "done", "swept", "gone"}]
  /\ reader \in [Conn -> {"read", "view", "leave", "register", "run", "leaves", "over"}]
  /\ subs \in [Conn -> 0..2] /\ hand \in [Conn -> 0..2]
  /\ live \subseteq Conn \X {1, 2}
  /\ views \in [Conn -> 0..MaxFrames] /\ owed \in [Conn -> Nat] /\ left \in [Conn -> Nat]
  /\ leaver \in [Conn -> {"none", "ask", "stop"}]
  /\ engine \in [n : 0..MaxEngines, up : BOOLEAN]
  /\ pipe \in Seq({"view", "leave"}) /\ watchers \in Nat /\ fails \in 0..MaxFails
  /\ ~engine.up => pipe = <<>> /\ watchers = 0
  /\ \A c \in Conn : (owed[c] > 0 => conn[c] = "swept") /\ (left[c] > 0 => reader[c] = "leaves")
  /\ \A s \in live : s[2] = subs[s[1]] \/ s[2] = hand[s[1]]

\* "a client that goes without leave would otherwise keep the engine streaming
\* that child's entries" (server.go 172-175): the engine never has a watcher
\* that no connection's count stands for.
NoOneWatches == Settled => watchers <= SumFunction(views)

\* "the watch is a count, so two viewers do not end each other's"
\* (subagent.go 1492-1493): while the session's first engine lives, each
\* view is a watcher, unless a connection was closed in the midst of a leave,
\* which is then sent twice.
ViewersAreWatched ==
  Settled /\ engine = [n |-> 1, up |-> TRUE] /\ fails = 0 /\ ~late => watchers = SumFunction(views)
=============================================================================

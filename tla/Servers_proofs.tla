---------------------------- MODULE Servers_proofs ----------------------------
(***************************************************************************)
(* Theorems about Servers, for any servers, commands, starts and edits: a  *)
(* server that nobody starts by name is started once at a time, because    *)
(* what is to be started is marked before the reload's lock is given back; *)
(* and a tool set that is not that of the servers is on somebody's list.   *)
(*                                                                         *)
(* The second half is about Conn, for any connections and any bounds: the  *)
(* engine's watchers are those that the connections' counts stand for.     *)
(* WatchInv looks ahead to what is still on the engine's pipe, and adds up *)
(* what each connection counts and has to send.                            *)
(***************************************************************************)
EXTENDS Servers, Conn, TLAPS, FiniteSetTheorems, WellFoundedInduction, NaturalsInduction

\* Which server a start or a command is about before it is about any.
Some == CHOOSE s \in Server : TRUE
About == Server \union {Some}

Step == {"none", "queued", "marked", "connect", "tools", "won", "lost", "wins", "loses",
         "over", "failed"}

\* The state is of its types.
Types ==
  /\ specs \in [Server -> BOOLEAN] /\ file \in [Server -> BOOLEAN]
  /\ up \in [Server -> {"no", "up", "ready"}] /\ starting \subseteq About
  /\ starts \in 0..MaxStarts
  /\ spc \in [Start -> Step]
  /\ srv \in [Start -> About]
  /\ pc \in [Caller -> {"idle", "resolve", "stop", "cancel", "mark", "start", "after", "named",
                        "bounced", "peek", "turn", "out"}]
  /\ about \in [Caller -> About] /\ todo \in [Caller -> SUBSET Server]
  /\ ap \in [Actor -> {"no", "store", "try", "swap", "unlock"}]
  /\ pending \in BOOLEAN /\ byName \subseteq About

\* Starts are called one after the other.
CalledInv == \A k \in Start : spc[k] # "none" => k <= starts

\* A server that is being started, or is on a reload's list, is marked; it is on
\* one list, or has one start.
MarkedInv ==
  \A s \in Server \ byName :
    /\ \A k \in FlyingFor(s) : s \in starting
    /\ \A a \in Caller : s \in todo[a] => s \in starting /\ FlyingFor(s) = {}
    /\ \A a, b \in Caller : s \in todo[a] /\ s \in todo[b] => a = b

\* A change of the servers that run is followed by a rebuild of the tools.
Changing == {"cancel", "mark", "start"}   \* a reload that stopped what is off
ToRebuild ==
  \/ \E k \in Start : spc[k] = "won"
  \/ \E a \in Caller : pc[a] \in Changing
  \/ \E a \in Actor : ap[a] = "store"
ToolsInv == tools = Ready \/ pending \/ ToRebuild

\* The inductive invariant.
IInv == Types /\ CalledInv /\ MarkedInv /\ OneStart /\ ToolsInv

\* Who may rebuild the tools: callers and starts.
LEMMA ActorsAre ==
  Start \subseteq Actor /\ Caller \subseteq Actor /\ Op \subseteq Caller /\ Loop \in Caller
BY DEF Actor, Caller

-----------------------------------------------------------------------------
(* Types                                                                     *)

\* The next call is one of the starts.
LEMMA CallTypes ==
  ASSUME Types, NEW s \in About, Calls(s)
  PROVE  /\ starts' \in Start /\ starts' \in 0..MaxStarts
         /\ spc' = [spc EXCEPT ![starts'] = "queued"] /\ srv' = [srv EXCEPT ![starts'] = s]
<1>1. starts \in 0..MaxStarts /\ MaxStarts \in Nat
  BY ServersAssumption DEF Types
<1> QED
  BY <1>1 DEF Calls, Start

\* The state is of its types.
LEMMA TypesP ==
  ASSUME Types, [Next]_vars
  PROVE  Types'
<1>1. CASE UNCHANGED vars
  BY <1>1 DEF Types, Step, About, Some, Caller, Actor, vars, running, called, walking, toolset
<1>2. ASSUME NEW a \in Actor, Stores(a) PROVE Types'
  BY <1>2 DEF Types, Step, About, Some, Caller, Actor, Stores, running, called, walking, toolset
<1>3. ASSUME NEW a \in Actor, Tries(a) PROVE Types'
  BY <1>3 DEF Types, Step, About, Some, Caller, Actor, Tries, running, called, walking, toolset
<1>4. ASSUME NEW a \in Actor, Rebuilds(a) PROVE Types'
  BY <1>4 DEF Types, Step, About, Some, Caller, Actor, Rebuilds, running, called, walking,
     toolset
<1>5. ASSUME NEW a \in Actor, Unlocks(a) PROVE Types'
  BY <1>5 DEF Types, Step, About, Some, Caller, Actor, Unlocks, running, called, walking,
     toolset
<1>6. ASSUME NEW k \in Start, Marks(k) PROVE Types'
  <2>1. spc' \in [Start -> Step] /\ starting' \subseteq About
    BY <1>6 DEF Marks, StartGoes, Types, Step
  <2> QED
    BY <1>6, <2>1 DEF Marks, Types, walking, toolset
<1>7. ASSUME NEW k \in Start, Registers(k) PROVE Types'
  BY <1>7 DEF Types, Step, About, Some, Caller, Actor, Registers, StartGoes, running, called,
     walking, toolset
<1>8. ASSUME NEW k \in Start, Connects(k) PROVE Types'
  BY <1>8 DEF Types, Step, About, Some, Caller, Actor, Connects, StartGoes, running, called,
     walking, toolset
<1>9. ASSUME NEW k \in Start, Discovers(k) PROVE Types'
  BY <1>9 DEF Types, Step, About, Some, Caller, Actor, Discovers, StartAt, StartGoes, running,
     called, walking, toolset
<1>10. ASSUME NEW k \in Start, Records(k) PROVE Types'
  BY <1>10 DEF Types, Step, About, Some, Caller, Actor, Records, StartAt, StartGoes, Applies,
     running, called, walking, toolset
<1>11. ASSUME NEW k \in Start, Ends(k) PROVE Types'
  BY <1>11 DEF Types, Step, About, Some, Caller, Actor, Ends, StartAt, StartGoes, running,
     called, walking, toolset
<1>12. ASSUME NEW a \in Caller, Resolves(a) PROVE Types'
  BY <1>12 DEF Types, Step, About, Some, Caller, Actor, Resolves, Goes, running, called,
     walking, toolset
<1>13. ASSUME NEW a \in Caller, StopsOff(a) PROVE Types'
  BY <1>13 DEF Types, Step, About, Some, Caller, Actor, StopsOff, At, Goes, running, called,
     walking, toolset
<1>14. ASSUME NEW a \in Caller, CancelsOff(a) PROVE Types'
  BY <1>14 DEF Types, Step, About, Some, Caller, Actor, CancelsOff, At, Goes, running, called,
     walking, toolset
<1>15. ASSUME NEW a \in Caller, MarksOn(a) PROVE Types'
  <2>1. PICK new \in SUBSET Server : todo' = [todo EXCEPT ![a] = new] /\ starting' = starting \union new
    BY <1>15 DEF MarksOn, At, Goes, running, called, walking, toolset, TurnedOn
  <2>2. /\ UNCHANGED <<specs, file, up, starts, spc, srv, about, ap, pending, byName>>
        /\ pc' = [pc EXCEPT ![a] = "start"]
    BY <1>15 DEF MarksOn, At, Goes, running, called, walking, toolset
  <2>3. starting' \subseteq About /\ todo' \in [Caller -> SUBSET Server]
    BY <2>1 DEF Types, About
  <2> QED
    BY <2>2, <2>3 DEF Types
<1>16. ASSUME NEW a \in Caller, StartsOne(a) PROVE Types'
  <2>1. PICK s \in todo[a] : Calls(s) /\ todo' = [todo EXCEPT ![a] = @ \ {s}]
    BY <1>16 DEF StartsOne
  <2>2. s \in About
    BY <2>1 DEF Types, About
  <2>3. starts' \in 0..MaxStarts /\ spc' \in [Start -> Step] /\ srv' \in [Start -> About]
    BY <2>1, <2>2, CallTypes DEF Types, Step
  <2>4. todo' \in [Caller -> SUBSET Server]
    BY <2>1 DEF Types
  <2> QED
    BY <1>16, <2>3, <2>4 DEF StartsOne, Types, running, toolset
<1>17. ASSUME NEW a \in Caller, WaitsForOne(a) PROVE Types'
  BY <1>17 DEF Types, Step, About, Some, Caller, Actor, WaitsForOne, running, called, walking,
     toolset
<1>18. ASSUME NEW a \in Caller, Reloaded(a) PROVE Types'
  BY <1>18 DEF Types, Step, About, Some, Caller, Actor, Reloaded, At, Goes, Applies, running,
     called, walking, toolset
<1>19. ASSUME NEW o \in Op, TriesAgain(o) PROVE Types'
  <2>1. CASE ByName(o, about[o], "named")
    <3>1. about[o] \in About /\ Calls(about[o])
      BY <2>1 DEF ByName, Types, Caller
    <3>2. starts' \in 0..MaxStarts /\ spc' \in [Start -> Step] /\ srv' \in [Start -> About]
      BY <3>1, CallTypes DEF Types, Step
    <3>3. pc' = [pc EXCEPT ![o] = "named"] /\ byName' \subseteq About
      BY <2>1, <3>1 DEF ByName, Goes, Types
    <3>4. /\ about' \in [Caller -> About]
          /\ UNCHANGED <<specs, file, up, starting, todo, ap, pending>>
      BY <1>19 DEF TriesAgain, Rests, Types, About, Some, running, toolset
    <3> QED
      BY <3>2, <3>3, <3>4 DEF Types, Step
  <2>2. CASE ~ByName(o, about[o], "named")
    BY <1>19, <2>2 DEF TriesAgain, Rests, Goes, running, called, toolset, Types, About, Some
  <2> QED
    BY <2>1, <2>2
<1>20. ASSUME NEW o \in Op, NamedEnds(o) PROVE Types'
  BY <1>20 DEF Types, Step, About, Some, Caller, Actor, NamedEnds, Rests, Goes, running, called,
     walking, toolset
<1>21. ASSUME NEW o \in Op, NEW s \in Server, Bounces(o, s) PROVE Types'
  BY <1>21 DEF Types, Step, About, Some, Caller, Actor, Bounces, Begins, Goes, Applies, At,
     running, called, walking, toolset
<1>22. ASSUME NEW o \in Op, BouncesBack(o) PROVE Types'
  <2>1. CASE ByName(o, about[o], "named")
    <3>1. about[o] \in About /\ Calls(about[o])
      BY <2>1 DEF ByName, Types, Caller
    <3>2. starts' \in 0..MaxStarts /\ spc' \in [Start -> Step] /\ srv' \in [Start -> About]
      BY <3>1, CallTypes DEF Types, Step
    <3>3. pc' = [pc EXCEPT ![o] = "named"] /\ byName' \subseteq About
      BY <2>1, <3>1 DEF ByName, Goes, Types
    <3>4. /\ about' \in [Caller -> About]
          /\ UNCHANGED <<specs, file, up, starting, todo, ap, pending>>
      BY <1>22 DEF BouncesBack, Rests, Types, About, Some, running, toolset
    <3> QED
      BY <3>2, <3>3, <3>4 DEF Types, Step
  <2>2. CASE ~ByName(o, about[o], "named")
    BY <1>22, <2>2 DEF BouncesBack, Rests, Goes, running, called, toolset, Types, About, Some
  <2> QED
    BY <2>1, <2>2
<1>23. ASSUME NEW o \in Op, Peeks(o) PROVE Types'
  BY <1>23 DEF Types, Step, About, Some, Caller, Actor, Peeks, Begins, Goes, At, running,
     called, walking, toolset
<1>24. ASSUME NEW o \in Op, Peeked(o) PROVE Types'
  BY <1>24 DEF Types, Step, About, Some, Caller, Actor, Peeked, At, Goes, running, called,
     walking, toolset
<1>25. ASSUME NEW o \in Op, NEW s \in Server, NEW v \in BOOLEAN, Switches(o, s, v) PROVE Types'
  BY <1>25 DEF Types, Step, About, Some, Caller, Actor, Switches, Begins, Goes, At, running,
     called, walking, toolset
<1>26. ASSUME NEW s \in Server, Elsewhere(s) PROVE Types'
  BY <1>26 DEF Types, Step, About, Some, Caller, Actor, Elsewhere, running, called, walking,
     toolset
<1>27. CASE TurnBegins
  BY <1>27 DEF Types, Step, About, Some, Caller, Actor, TurnBegins, At, Goes, running, called,
     walking, toolset
<1>28. CASE TurnLocks
  BY <1>28 DEF Types, Step, About, Some, Caller, Actor, TurnLocks, At, Goes, running, called,
     walking, toolset
<1>29. CASE TurnUnlocks
  BY <1>29 DEF Types, Step, About, Some, Caller, Actor, TurnUnlocks, At, Goes, running, called,
     walking, toolset
<1>30. CASE TurnApplies
  BY <1>30 DEF Types, Step, About, Some, Caller, Actor, TurnApplies, At, Goes, Applies, running,
     called, walking, toolset
<1>31. CASE ForkTakes
  BY <1>31 DEF Types, Step, About, Some, Caller, Actor, ForkTakes, running, called, walking,
     toolset
<1>32. CASE ForkGives
  BY <1>32 DEF Types, Step, About, Some, Caller, Actor, ForkGives, running, called, walking,
     toolset
<1> QED
  BY <1>1, <1>2, <1>3, <1>4, <1>5, <1>6, <1>7, <1>8, <1>9, <1>10, <1>11, <1>12, <1>13, <1>14,
     <1>15, <1>16, <1>17, <1>18, <1>19, <1>20, <1>21, <1>22, <1>23, <1>24, <1>25, <1>26, <1>27,
     <1>28, <1>29, <1>30, <1>31, <1>32 DEF Next, Starting, Reloading, Applying, Commanding,
     Actor

-----------------------------------------------------------------------------
(* Starts                                                                    *)

\* A call is of a start that none was.
LEMMA CallIsNew ==
  ASSUME Types, CalledInv, NEW s \in About, Calls(s)
  PROVE  /\ spc[starts'] = "none" /\ starts' = starts + 1
         /\ \A k \in Start \ {starts'} : spc'[k] = spc[k]
<1>1. starts' \in Start /\ starts' = starts + 1
  BY CallTypes DEF Calls
<1>2. spc[starts'] = "none"
  BY <1>1 DEF CalledInv, Types, Start
<1> QED
  BY <1>1, <1>2, CallTypes DEF Types

StartInv == MarkedInv /\ OneStart

\* Nothing is taken on, and what is marked stays so.
LEMMA StartsKept ==
  ASSUME StartInv, byName \subseteq byName', starting \subseteq starting', todo' = todo,
         \A s \in Server \ byName' : FlyingFor(s)' \subseteq FlyingFor(s)
  PROVE  StartInv'
BY DEF StartInv, MarkedInv, OneStart

\* A start goes a step on, without ending.
LEMMA FliesOn ==
  ASSUME Types, NEW k \in Start, Flying(k), NEW to, spc' = [spc EXCEPT ![k] = to], srv' = srv
  PROVE  \A s \in Server : FlyingFor(s)' \subseteq FlyingFor(s)
BY DEF Types, FlyingFor, Flying

\* A call adds its start to those of its server, and to no others.
LEMMA CallFlies ==
  ASSUME Types, NEW s \in Server, Calls(s)
  PROVE  /\ FlyingFor(s)' \subseteq FlyingFor(s) \union {starts'}
         /\ \A t \in Server \ {s} : FlyingFor(t)' \subseteq FlyingFor(t)
<1>1. /\ starts' \in Start /\ srv'[starts'] = s
      /\ \A k \in Start \ {starts'} : spc'[k] = spc[k] /\ srv'[k] = srv[k]
  BY CallTypes DEF Types, About
<1> QED
  BY <1>1 DEF FlyingFor, Flying

\* A start by name leaves the other servers their one start.
LEMMA NamedStarts ==
  ASSUME Types, StartInv, NEW s \in Server, Calls(s), byName' = byName \union {s},
         UNCHANGED <<starting, todo>>
  PROVE  StartInv'
BY CallFlies, StartsKept

\* Starts are called in order.
LEMMA CalledP ==
  ASSUME Types, CalledInv, [Next]_vars
  PROVE  CalledInv'
<1>1. ASSUME UNCHANGED <<spc, starts>> PROVE CalledInv'
  BY <1>1 DEF CalledInv
<1>2. CASE UNCHANGED vars
  BY <1>1, <1>2 DEF vars, running, called, walking, toolset
<1>3. ASSUME NEW a \in Actor,
           Stores(a) \/ Tries(a) \/ Rebuilds(a) \/ Unlocks(a)
    PROVE  CalledInv'
  BY <1>1, <1>3 DEF Stores, Tries, Rebuilds, Unlocks, running, called, walking, toolset
<1>4. ASSUME NEW a \in Caller,
           \/ Resolves(a) \/ StopsOff(a) \/ CancelsOff(a) \/ MarksOn(a) \/ WaitsForOne(a)
           \/ Reloaded(a)
    PROVE  CalledInv'
  BY <1>1, <1>4 DEF Resolves, Goes, StopsOff, At, CancelsOff, MarksOn, WaitsForOne, Reloaded,
     Applies, running, called, walking, toolset
<1>5. ASSUME NEW o \in Op,
           NamedEnds(o) \/ Peeks(o) \/ Peeked(o)
    PROVE  CalledInv'
  BY <1>1, <1>5 DEF NamedEnds, Rests, Goes, Peeks, Begins, At, Peeked, running, called, walking,
     toolset
<1>6. ASSUME NEW o \in Op, NEW s \in Server,
           Bounces(o, s)
    PROVE  CalledInv'
  BY <1>1, <1>6 DEF Bounces, Begins, Goes, Applies, At, running, called, walking, toolset
<1>7. ASSUME NEW o \in Op, NEW s \in Server, NEW v \in BOOLEAN,
           Switches(o, s, v)
    PROVE  CalledInv'
  BY <1>1, <1>7 DEF Switches, Begins, Goes, At, running, called, walking, toolset
<1>8. ASSUME NEW s \in Server,
           Elsewhere(s)
    PROVE  CalledInv'
  BY <1>1, <1>8 DEF Elsewhere, running, called, walking, toolset
<1>9. CASE TurnBegins \/ TurnLocks \/ TurnUnlocks \/ TurnApplies \/ ForkTakes \/ ForkGives
  BY <1>1, <1>9 DEF TurnBegins, At, Goes, TurnLocks, TurnUnlocks, TurnApplies, Applies,
     ForkTakes, ForkGives, running, called, walking, toolset
<1>10. ASSUME NEW k \in Start, Marks(k) PROVE CalledInv'
  <2>1. spc[k] # "none" /\ starts' = starts /\ \A j \in Start \ {k} : spc'[j] = spc[j]
    BY <1>10 DEF Marks, StartGoes, running, called, walking, toolset, StartAt, Types
  <2> QED
    BY <2>1 DEF CalledInv
<1>11. ASSUME NEW k \in Start, Registers(k) PROVE CalledInv'
  <2>1. spc[k] # "none" /\ starts' = starts /\ \A j \in Start \ {k} : spc'[j] = spc[j]
    BY <1>11 DEF Registers, StartGoes, running, called, walking, toolset, StartAt, Types
  <2> QED
    BY <2>1 DEF CalledInv
<1>12. ASSUME NEW k \in Start, Connects(k) PROVE CalledInv'
  <2>1. spc[k] # "none" /\ starts' = starts /\ \A j \in Start \ {k} : spc'[j] = spc[j]
    BY <1>12 DEF Connects, StartGoes, running, called, walking, toolset, StartAt, Types
  <2> QED
    BY <2>1 DEF CalledInv
<1>13. ASSUME NEW k \in Start, Discovers(k) PROVE CalledInv'
  <2>1. spc[k] # "none" /\ starts' = starts /\ \A j \in Start \ {k} : spc'[j] = spc[j]
    BY <1>13 DEF Discovers, StartAt, StartGoes, running, called, walking, toolset, StartAt,
       Types
  <2> QED
    BY <2>1 DEF CalledInv
<1>14. ASSUME NEW k \in Start, Records(k) PROVE CalledInv'
  <2>1. spc[k] # "none" /\ starts' = starts /\ \A j \in Start \ {k} : spc'[j] = spc[j]
    BY <1>14 DEF Records, StartAt, StartGoes, Applies, running, called, walking, toolset,
       StartAt, Types
  <2> QED
    BY <2>1 DEF CalledInv
<1>15. ASSUME NEW k \in Start, Ends(k) PROVE CalledInv'
  <2>1. spc[k] # "none" /\ starts' = starts /\ \A j \in Start \ {k} : spc'[j] = spc[j]
    BY <1>15 DEF Ends, StartAt, StartGoes, running, called, walking, toolset, StartAt, Types
  <2> QED
    BY <2>1 DEF CalledInv
<1>16. ASSUME NEW a \in Caller, StartsOne(a) PROVE CalledInv'
  <2>1. PICK s \in todo[a] : Calls(s)
    BY <1>16 DEF StartsOne
  <2>2. s \in About
    BY <2>1 DEF Types, About
  <2> QED
    BY <2>1, <2>2, CallIsNew DEF CalledInv, Types, Start
<1>17. ASSUME NEW o \in Op, TriesAgain(o) PROVE CalledInv'
  <2>1. CASE UNCHANGED <<spc, starts>>
    BY <2>1 DEF CalledInv
  <2>2. ASSUME NEW s \in About, Calls(s) PROVE CalledInv'
    BY <2>2, CallIsNew DEF CalledInv, Types, Start
  <2> QED
    BY <1>17, <2>1, <2>2, ActorsAre DEF TriesAgain, ByName, called, Types
<1>18. ASSUME NEW o \in Op, BouncesBack(o) PROVE CalledInv'
  <2>1. CASE UNCHANGED <<spc, starts>>
    BY <2>1 DEF CalledInv
  <2>2. ASSUME NEW s \in About, Calls(s) PROVE CalledInv'
    BY <2>2, CallIsNew DEF CalledInv, Types, Start
  <2> QED
    BY <1>18, <2>1, <2>2, ActorsAre DEF BouncesBack, ByName, called, Types
<1> QED
  BY <1>1, <1>2, <1>3, <1>4, <1>5, <1>6, <1>7, <1>8, <1>9, <1>10, <1>11, <1>12, <1>13, <1>14,
     <1>15, <1>16, <1>17, <1>18 DEF Next, Starting, Reloading, Applying, Commanding, Actor

\* A server is started once at a time, and marked meanwhile.
LEMMA StartP ==
  ASSUME Types, StartInv, [Next]_vars
  PROVE  StartInv'
<1>1. ASSUME UNCHANGED <<spc, srv, starting, todo, byName>> PROVE StartInv'
  BY <1>1 DEF StartInv, MarkedInv, OneStart, FlyingFor, Flying
<1>2. CASE UNCHANGED vars
  BY <1>1, <1>2 DEF vars, running, called, walking, toolset
<1>3. ASSUME NEW a \in Actor,
           Stores(a) \/ Tries(a) \/ Rebuilds(a) \/ Unlocks(a)
    PROVE  StartInv'
  BY <1>1, <1>3 DEF Stores, Tries, Rebuilds, Unlocks, running, called, walking, toolset
<1>4. ASSUME NEW a \in Caller,
           Resolves(a) \/ StopsOff(a) \/ CancelsOff(a) \/ WaitsForOne(a) \/ Reloaded(a)
    PROVE  StartInv'
  BY <1>1, <1>4 DEF Resolves, Goes, StopsOff, At, CancelsOff, WaitsForOne, Reloaded, Applies,
     running, called, walking, toolset
<1>5. ASSUME NEW o \in Op,
           NamedEnds(o) \/ Peeks(o) \/ Peeked(o)
    PROVE  StartInv'
  BY <1>1, <1>5 DEF NamedEnds, Rests, Goes, Peeks, Begins, At, Peeked, running, called, walking,
     toolset
<1>6. ASSUME NEW o \in Op, NEW s \in Server, NEW v \in BOOLEAN,
           Switches(o, s, v)
    PROVE  StartInv'
  BY <1>1, <1>6 DEF Switches, Begins, Goes, At, running, called, walking, toolset
<1>7. ASSUME NEW s \in Server,
           Elsewhere(s)
    PROVE  StartInv'
  BY <1>1, <1>7 DEF Elsewhere, running, called, walking, toolset
<1>8. CASE TurnBegins \/ TurnLocks \/ TurnUnlocks \/ TurnApplies \/ ForkTakes \/ ForkGives
  BY <1>1, <1>8 DEF TurnBegins, At, Goes, TurnLocks, TurnUnlocks, TurnApplies, Applies,
     ForkTakes, ForkGives, running, called, walking, toolset
<1>9. ASSUME NEW k \in Start, Marks(k) PROVE StartInv'
  <2>1. Flying(k) /\ srv' = srv /\ starting \subseteq starting' /\ UNCHANGED <<todo, byName>>
    BY <1>9 DEF Marks, StartGoes, running, called, walking, toolset, StartAt, Flying
  <2>2. \E to : spc' = [spc EXCEPT ![k] = to]
    BY <1>9 DEF Marks, StartGoes, running, called, walking, toolset
  <2> QED
    BY <2>1, <2>2, FliesOn, StartsKept
<1>10. ASSUME NEW k \in Start, Registers(k) PROVE StartInv'
  <2>1. Flying(k) /\ srv' = srv /\ starting \subseteq starting' /\ UNCHANGED <<todo, byName>>
    BY <1>10 DEF Registers, StartGoes, running, called, walking, toolset, StartAt, Flying
  <2>2. \E to : spc' = [spc EXCEPT ![k] = to]
    BY <1>10 DEF Registers, StartGoes, running, called, walking, toolset
  <2> QED
    BY <2>1, <2>2, FliesOn, StartsKept
<1>11. ASSUME NEW k \in Start, Connects(k) PROVE StartInv'
  <2>1. srv' = srv /\ starting \subseteq starting' /\ UNCHANGED <<todo, byName>>
    BY <1>11 DEF Connects, StartGoes, running, called, walking, toolset, StartAt, Flying
  <2>2. \E to : spc' = [spc EXCEPT ![k] = to]
    BY <1>11 DEF Connects, StartGoes, running, called, walking, toolset
  <2>3. Flying(k)
    BY <1>11 DEF Connects, StartGoes, running, called, walking, toolset, StartAt, Flying
  <2> QED
    BY <2>1, <2>2, <2>3, FliesOn, StartsKept
<1>12. ASSUME NEW k \in Start, Discovers(k) PROVE StartInv'
  <2>1. srv' = srv /\ starting \subseteq starting' /\ UNCHANGED <<todo, byName>>
    BY <1>12 DEF Discovers, StartAt, StartGoes, running, called, walking, toolset, StartAt,
       Flying
  <2>2. \E to : spc' = [spc EXCEPT ![k] = to]
    BY <1>12 DEF Discovers, StartAt, StartGoes, running, called, walking, toolset
  <2>3. Flying(k)
    BY <1>12 DEF Discovers, StartAt, StartGoes, running, called, walking, toolset, StartAt,
       Flying
  <2> QED
    BY <2>1, <2>2, <2>3, FliesOn, StartsKept
<1>13. ASSUME NEW k \in Start, Records(k) PROVE StartInv'
  <2>1. srv' = srv /\ starting \subseteq starting' /\ UNCHANGED <<todo, byName>>
    BY <1>13 DEF Records, StartAt, StartGoes, Applies, running, called, walking, toolset,
       StartAt, Flying
  <2>2. \E to : spc' = [spc EXCEPT ![k] = to]
    BY <1>13 DEF Records, StartAt, StartGoes, Applies, running, called, walking, toolset
  <2>3. Flying(k)
    BY <1>13 DEF Records, StartAt, StartGoes, Applies, running, called, walking, toolset,
       StartAt, Flying
  <2> QED
    BY <2>1, <2>2, <2>3, FliesOn, StartsKept
<1>14. ASSUME NEW k \in Start, Ends(k) PROVE StartInv'
  <2>1. /\ UNCHANGED <<srv, todo, byName>> /\ Flying(k) /\ starting' = starting \ {srv[k]}
    BY <1>14 DEF Ends, StartAt, StartGoes, running, called, walking, toolset, Flying
  <2>2. \E to \in {"over", "failed"} : spc' = [spc EXCEPT ![k] = to]
    BY <1>14 DEF Ends, StartAt, StartGoes, running, called, walking, toolset
  <2>3. \A s \in Server : FlyingFor(s)' \subseteq FlyingFor(s) \ {k}
    BY <2>1, <2>2 DEF Types, FlyingFor, Flying
  <2>4. ASSUME srv[k] \in Server \ byName
        PROVE  FlyingFor(srv[k])' = {} /\ \A a \in Caller : srv[k] \notin todo[a]
    <3>1. k \in FlyingFor(srv[k])
      BY <2>1 DEF FlyingFor
    <3>2. FlyingFor(srv[k]) = {k}
      BY <2>4, <3>1 DEF StartInv, OneStart
    <3>3. FlyingFor(srv[k])' = {}
      BY <2>1, <2>3, <2>4, <3>2
    <3>4. \A a \in Caller : srv[k] \notin todo[a]
      BY <2>4, <3>1 DEF StartInv, MarkedInv
    <3> QED
      BY <3>3, <3>4
  <2> QED
    BY <2>1, <2>3, <2>4 DEF StartInv, MarkedInv, OneStart
<1>15. ASSUME NEW a \in Caller, MarksOn(a) PROVE StartInv'
  <2>1. PICK new \in SUBSET (Server \ starting) :
          /\ todo' = [todo EXCEPT ![a] = new] /\ starting' = starting \union new
    BY <1>15 DEF MarksOn, At, Goes, running, called, walking, toolset, TurnedOn
  <2>2. \A s \in Server : FlyingFor(s)' = FlyingFor(s)
    BY <1>15 DEF MarksOn, called, FlyingFor, Flying
  <2>3. byName' = byName /\ \A b \in Caller : todo'[b] = IF b = a THEN new ELSE todo[b]
    BY <1>15, <2>1 DEF MarksOn, Types
  <2>4. ASSUME NEW s \in Server \ byName', s \in new
        PROVE  FlyingFor(s) = {} /\ \A b \in Caller : s \notin todo[b]
    BY <2>3, <2>4 DEF StartInv, MarkedInv
  <2> QED
    BY <2>1, <2>2, <2>3, <2>4 DEF StartInv, MarkedInv, OneStart
<1>16. ASSUME NEW a \in Caller, StartsOne(a) PROVE StartInv'
  <2>1. PICK s \in todo[a] : Calls(s) /\ todo' = [todo EXCEPT ![a] = @ \ {s}]
    BY <1>16 DEF StartsOne
  <2>2. s \in Server /\ UNCHANGED <<starting, byName>>
    BY <1>16, <2>1 DEF StartsOne, running, Types
  <2>3. \A b \in Caller : todo'[b] = IF b = a THEN todo[a] \ {s} ELSE todo[b]
    BY <2>1 DEF Types
  <2>4. /\ FlyingFor(s)' \subseteq FlyingFor(s) \union {starts'}
        /\ \A t \in Server \ {s} : FlyingFor(t)' \subseteq FlyingFor(t)
    BY <2>1, <2>2, CallFlies
  <2>5. ASSUME s \notin byName
        PROVE  s \in starting /\ FlyingFor(s) = {} /\ \A b \in Caller : s \notin todo'[b]
    BY <2>1, <2>2, <2>3, <2>5 DEF StartInv, MarkedInv
  <2>6. ASSUME NEW t \in Server \ byName', t # s
        PROVE  /\ \A k \in FlyingFor(t)' : t \in starting'
               /\ \A b \in Caller : t \in todo'[b] => t \in starting' /\ FlyingFor(t)' = {}
               /\ \A b, c \in Caller : t \in todo'[b] /\ t \in todo'[c] => b = c
               /\ \A j, k \in FlyingFor(t)' : j = k
    BY <2>2, <2>3, <2>4, <2>6 DEF StartInv, MarkedInv, OneStart
  <2> QED
    BY <2>2, <2>4, <2>5, <2>6 DEF StartInv, MarkedInv, OneStart
<1>17. ASSUME NEW o \in Op, TriesAgain(o) PROVE StartInv'
  <2>1. CASE UNCHANGED <<starts, spc, srv, byName>>
    <3>1. UNCHANGED <<starting, todo, spc, srv, byName>>
      BY <1>17, <2>1 DEF TriesAgain, running
    <3> QED
      BY <3>1, StartsKept DEF FlyingFor, Flying
  <2>2. CASE ByName(o, about[o], "named") /\ about[o] \in Server
    BY <1>17, <2>2, NamedStarts DEF TriesAgain, ByName, running
  <2>3. CASE ByName(o, about[o], "named") /\ about[o] \notin Server
    <3>1. \A s \in Server : FlyingFor(s)' \subseteq FlyingFor(s)
      <4>1. about[o] \in About /\ Calls(about[o])
        BY <2>3 DEF ByName, Types, Caller
      <4>2. /\ starts' \in Start /\ srv'[starts'] \notin Server
            /\ \A k \in Start \ {starts'} : spc'[k] = spc[k] /\ srv'[k] = srv[k]
        BY <2>3, <4>1, CallTypes DEF Types
      <4> QED
        BY <4>2 DEF FlyingFor, Flying
    <3> QED
      BY <1>17, <2>3, <3>1, StartsKept DEF TriesAgain, ByName, running
  <2> QED
    BY <1>17, <2>1, <2>2, <2>3 DEF TriesAgain, called
<1>18. ASSUME NEW o \in Op, NEW s \in Server, Bounces(o, s) PROVE StartInv'
  <2>1. UNCHANGED <<starting, todo, spc, srv>> /\ byName \subseteq byName'
    BY <1>18 DEF Bounces, called
  <2> QED
    BY <2>1, StartsKept DEF FlyingFor, Flying
<1>19. ASSUME NEW o \in Op, BouncesBack(o) PROVE StartInv'
  <2>1. CASE UNCHANGED <<starts, spc, srv, byName>>
    <3>1. UNCHANGED <<starting, todo, spc, srv, byName>>
      BY <1>19, <2>1 DEF BouncesBack, running
    <3> QED
      BY <3>1, StartsKept DEF FlyingFor, Flying
  <2>2. CASE ByName(o, about[o], "named") /\ about[o] \in Server
    BY <1>19, <2>2, NamedStarts DEF BouncesBack, ByName, running
  <2>3. CASE ByName(o, about[o], "named") /\ about[o] \notin Server
    <3>1. \A s \in Server : FlyingFor(s)' \subseteq FlyingFor(s)
      <4>1. about[o] \in About /\ Calls(about[o])
        BY <2>3 DEF ByName, Types, Caller
      <4>2. /\ starts' \in Start /\ srv'[starts'] \notin Server
            /\ \A k \in Start \ {starts'} : spc'[k] = spc[k] /\ srv'[k] = srv[k]
        BY <2>3, <4>1, CallTypes DEF Types
      <4> QED
        BY <4>2 DEF FlyingFor, Flying
    <3> QED
      BY <1>19, <2>3, <3>1, StartsKept DEF BouncesBack, ByName, running
  <2> QED
    BY <1>19, <2>1, <2>2, <2>3 DEF BouncesBack, called
<1> QED
  BY <1>1, <1>2, <1>3, <1>4, <1>5, <1>6, <1>7, <1>8, <1>9, <1>10, <1>11, <1>12, <1>13, <1>14,
     <1>15, <1>16, <1>17, <1>18, <1>19 DEF Next, Starting, Reloading, Applying, Commanding,
     Actor

-----------------------------------------------------------------------------
(* The tool set                                                              *)

\* The servers that are ready are the same, and whoever is to rebuild still is.
LEMMA ToolsKept ==
  ASSUME ToolsInv, UNCHANGED <<up, tools>>, pending => pending', ToRebuild => ToRebuild' \/ pending'
  PROVE  ToolsInv'
BY DEF ToolsInv, Ready

\* Whoever is to rebuild still is.
StillToRebuild ==
  /\ \A k \in Start : spc[k] = "won" => spc'[k] = "won"
  /\ \A a \in Caller : pc[a] \in Changing => pc'[a] \in Changing
  /\ \A a \in Actor : ap[a] = "store" => ap'[a] = "store"

\* Who has a rebuild before him has it still.
LEMMA RebuildKept ==
  ASSUME StillToRebuild
  PROVE  ToRebuild => ToRebuild'
BY DEF ToRebuild, StillToRebuild

\* A tool set that is not that of the servers is to be rebuilt.
LEMMA ToolsP ==
  ASSUME Types, CalledInv, ToolsInv, [Next]_vars
  PROVE  ToolsInv'
<1>1. ASSUME UNCHANGED <<up, tools, pending, spc, pc, ap>> PROVE ToolsInv'
  BY <1>1 DEF ToolsInv, Ready, ToRebuild
<1>2. CASE UNCHANGED vars
  BY <1>1, <1>2 DEF vars, running, called, walking, toolset
<1>3. ASSUME NEW a \in Caller,
           WaitsForOne(a)
    PROVE  ToolsInv'
  BY <1>1, <1>3 DEF WaitsForOne, running, called, walking, toolset
<1>4. ASSUME NEW s \in Server,
           Elsewhere(s)
    PROVE  ToolsInv'
  BY <1>1, <1>4 DEF Elsewhere, running, called, walking, toolset
<1>5. CASE ForkTakes \/ ForkGives
  BY <1>1, <1>5 DEF ForkTakes, ForkGives, running, called, walking, toolset
<1>6. ASSUME NEW a \in Actor, Stores(a) PROVE ToolsInv'
  <2>1. UNCHANGED <<up, tools>> /\ pending'
    BY <1>6 DEF Stores, running, called, walking, toolset
  <2> QED
    BY <2>1 DEF ToolsInv
<1>7. ASSUME NEW a \in Actor, Tries(a) PROVE ToolsInv'
  <2>1. UNCHANGED <<up, tools, pending>>
    BY <1>7 DEF Tries, running, called, walking, toolset
  <2>2. StillToRebuild
    BY <1>7, ActorsAre DEF Tries, running, called, walking, toolset, StartAt, At, Types,
       StillToRebuild, Changing
  <2> QED
    BY <2>1, <2>2, RebuildKept, ToolsKept
<1>8. ASSUME NEW a \in Actor, Rebuilds(a) PROVE ToolsInv'
  <2>1. /\ up' = up /\ tools' = (IF pending THEN Ready ELSE tools) /\ UNCHANGED <<spc, pc>>
        /\ \A b \in Actor \ {a} : ap'[b] = ap[b]
        /\ ap[a] = "swap"
    BY <1>8 DEF Rebuilds, running, called, walking, toolset, Types
  <2>2. \A b \in Actor : ap[b] = "store" => b # a
    BY <2>1
  <2>3. \A b \in Actor : ap[b] = "store" => ap'[b] = "store"
    BY <2>1, <2>2
  <2>4. ToRebuild => ToRebuild'
    BY <2>1, <2>3, RebuildKept DEF StillToRebuild
  <2> QED
    BY <2>1, <2>4 DEF ToolsInv, Ready
<1>9. ASSUME NEW a \in Actor, Unlocks(a) PROVE ToolsInv'
  <2>1. UNCHANGED <<up, tools, pending>>
    BY <1>9 DEF Unlocks, running, called, walking, toolset
  <2>2. StillToRebuild
    BY <1>9, ActorsAre DEF Unlocks, running, called, walking, toolset, StartAt, At, Types,
       StillToRebuild, Changing
  <2> QED
    BY <2>1, <2>2, RebuildKept, ToolsKept
<1>10. ASSUME NEW k \in Start, Marks(k) PROVE ToolsInv'
  <2>1. UNCHANGED <<up, tools, pending>>
    BY <1>10 DEF Marks, StartGoes, running, called, walking, toolset
  <2>2. StillToRebuild
    BY <1>10, ActorsAre DEF Marks, StartGoes, running, called, walking, toolset, StartAt, At,
       Types, StillToRebuild, Changing
  <2> QED
    BY <2>1, <2>2, RebuildKept, ToolsKept
<1>11. ASSUME NEW k \in Start, Registers(k) PROVE ToolsInv'
  <2>1. UNCHANGED <<up, tools, pending>>
    BY <1>11 DEF Registers, StartGoes, running, called, walking, toolset
  <2>2. StillToRebuild
    BY <1>11, ActorsAre DEF Registers, StartGoes, running, called, walking, toolset, StartAt,
       At, Types, StillToRebuild, Changing
  <2> QED
    BY <2>1, <2>2, RebuildKept, ToolsKept
<1>12. ASSUME NEW k \in Start, Connects(k) PROVE ToolsInv'
  <2>1. UNCHANGED <<tools, pending, pc, ap>> /\ \A s \in Server : up'[s] = "ready" <=> up[s] = "ready"
    BY <1>12 DEF Connects, StartGoes, running, called, walking, toolset, Types
  <2>2. ToRebuild => ToRebuild'
    BY <1>12, <2>1 DEF Connects, StartAt, StartGoes, Types, ToRebuild, Changing
  <2> QED
    BY <2>1, <2>2 DEF ToolsInv, Ready
<1>13. ASSUME NEW k \in Start, Discovers(k) PROVE ToolsInv'
  <2>1. CASE StartGoes(k, "won")
    <3>1. ToRebuild'
      BY <1>13, <2>1 DEF StartGoes, Types, ToRebuild, Changing
    <3> QED
      BY <3>1 DEF ToolsInv
  <2>2. CASE up[srv[k]] # "ready" /\ StartGoes(k, "lost") /\ up' = [up EXCEPT ![srv[k]] = "no"]
    <3>1. UNCHANGED <<tools, pending, pc, ap>> /\ \A s \in Server : up'[s] = "ready" <=> up[s] = "ready"
      BY <1>13, <2>2 DEF Discovers, walking, toolset, Types
    <3>2. ToRebuild => ToRebuild'
      BY <1>13, <2>2, <3>1 DEF Discovers, StartAt, StartGoes, Types, ToRebuild, Changing
    <3> QED
      BY <3>1, <3>2 DEF ToolsInv, Ready
  <2> QED
    BY <1>13, <2>1, <2>2 DEF Discovers
<1>14. ASSUME NEW k \in Start, Records(k) PROVE ToolsInv'
  <2>1. ToRebuild'
    BY <1>14, ActorsAre DEF Records, Applies, Types, ToRebuild, Changing
  <2> QED
    BY <2>1 DEF ToolsInv
<1>15. ASSUME NEW k \in Start, Ends(k) PROVE ToolsInv'
  <2>1. UNCHANGED <<up, tools, pending>>
    BY <1>15 DEF Ends, StartAt, StartGoes, running, called, walking, toolset
  <2>2. StillToRebuild
    BY <1>15, ActorsAre DEF Ends, StartAt, StartGoes, running, called, walking, toolset,
       StartAt, At, Types, StillToRebuild, Changing
  <2> QED
    BY <2>1, <2>2, RebuildKept, ToolsKept
<1>16. ASSUME NEW a \in Caller, Resolves(a) PROVE ToolsInv'
  <2>1. UNCHANGED <<up, tools, pending>>
    BY <1>16 DEF Resolves, Goes, running, called, walking, toolset
  <2>2. StillToRebuild
    BY <1>16, ActorsAre DEF Resolves, Goes, running, called, walking, toolset, StartAt, At,
       Types, StillToRebuild, Changing
  <2> QED
    BY <2>1, <2>2, RebuildKept, ToolsKept
<1>17. ASSUME NEW a \in Caller, StopsOff(a) PROVE ToolsInv'
  <2>1. ToRebuild'
    BY <1>17 DEF StopsOff, Goes, Types, ToRebuild, Changing
  <2> QED
    BY <2>1 DEF ToolsInv
<1>18. ASSUME NEW a \in Caller, CancelsOff(a) PROVE ToolsInv'
  <2>1. ToRebuild'
    BY <1>18 DEF CancelsOff, Goes, Types, ToRebuild, Changing
  <2> QED
    BY <2>1 DEF ToolsInv
<1>19. ASSUME NEW a \in Caller, MarksOn(a) PROVE ToolsInv'
  <2>1. ToRebuild'
    BY <1>19 DEF MarksOn, Goes, Types, ToRebuild, Changing
  <2> QED
    BY <2>1 DEF ToolsInv
<1>20. ASSUME NEW a \in Caller, StartsOne(a) PROVE ToolsInv'
  <2>1. ToRebuild'
    BY <1>20 DEF StartsOne, At, toolset, ToRebuild, Changing
  <2> QED
    BY <2>1 DEF ToolsInv
<1>21. ASSUME NEW a \in Caller, Reloaded(a) PROVE ToolsInv'
  <2>1. ToRebuild'
    BY <1>21, ActorsAre DEF Reloaded, Applies, Types, ToRebuild, Changing
  <2> QED
    BY <2>1 DEF ToolsInv
<1>22. ASSUME NEW o \in Op, TriesAgain(o) PROVE ToolsInv'
  <2>1. UNCHANGED <<up, tools, pending, ap>>
    BY <1>22 DEF TriesAgain, running, toolset
  <2>2. pc[o] \notin Changing /\ \A a \in Caller \ {o} : pc'[a] = pc[a]
    BY <1>22 DEF TriesAgain, At, ByName, Rests, Goes, Types, Changing
  <2>3. \A k \in Start : spc[k] = "won" => spc'[k] = "won" \/ Calls(about[o])
    BY <1>22 DEF TriesAgain, ByName, called
  <2>4. ASSUME Calls(about[o]) PROVE \A k \in Start : spc[k] = "won" => spc'[k] = "won"
    BY <2>4, CallIsNew, ActorsAre DEF Types
  <2> QED
    BY <2>1, <2>2, <2>3, <2>4, ToolsKept DEF ToRebuild
<1>23. ASSUME NEW o \in Op, NamedEnds(o) PROVE ToolsInv'
  <2>1. UNCHANGED <<up, tools, pending>>
    BY <1>23 DEF NamedEnds, Rests, Goes, running, called, walking, toolset
  <2>2. StillToRebuild
    BY <1>23, ActorsAre DEF NamedEnds, Rests, Goes, running, called, walking, toolset, StartAt,
       At, Types, StillToRebuild, Changing
  <2> QED
    BY <2>1, <2>2, RebuildKept, ToolsKept
<1>24. ASSUME NEW o \in Op, NEW s \in Server, Bounces(o, s) PROVE ToolsInv'
  <2>1. CASE up[s] = "no"
    <3>1. UNCHANGED <<tools, pending, spc, ap>> /\ \A t \in Server : up'[t] = "ready" <=> up[t] = "ready"
      BY <1>24, <2>1 DEF Bounces, called, Types
    <3>2. pc[o] = "idle" /\ \A a \in Caller \ {o} : pc'[a] = pc[a]
      BY <1>24 DEF Bounces, Begins, At, Goes, Types
    <3>3. ToRebuild => ToRebuild'
      BY <3>1, <3>2 DEF ToRebuild, Changing
    <3> QED
      BY <3>1, <3>3 DEF ToolsInv, Ready
  <2>2. CASE up[s] # "no"
    <3>1. ToRebuild'
      BY <1>24, <2>2, ActorsAre DEF Bounces, Applies, Types, ToRebuild
    <3> QED
      BY <3>1 DEF ToolsInv
  <2> QED
    BY <2>1, <2>2
<1>25. ASSUME NEW o \in Op, BouncesBack(o) PROVE ToolsInv'
  <2>1. UNCHANGED <<up, tools, pending, ap>>
    BY <1>25 DEF BouncesBack, running, toolset
  <2>2. pc[o] \notin Changing /\ \A a \in Caller \ {o} : pc'[a] = pc[a]
    BY <1>25 DEF BouncesBack, At, ByName, Rests, Goes, Types, Changing
  <2>3. \A k \in Start : spc[k] = "won" => spc'[k] = "won" \/ Calls(about[o])
    BY <1>25 DEF BouncesBack, ByName, called
  <2>4. ASSUME Calls(about[o]) PROVE \A k \in Start : spc[k] = "won" => spc'[k] = "won"
    BY <2>4, CallIsNew, ActorsAre DEF Types
  <2> QED
    BY <2>1, <2>2, <2>3, <2>4, ToolsKept DEF ToRebuild
<1>26. ASSUME NEW o \in Op, Peeks(o) PROVE ToolsInv'
  <2>1. UNCHANGED <<up, tools, pending>>
    BY <1>26 DEF Peeks, Begins, Goes, At, running, called, walking, toolset
  <2>2. StillToRebuild
    BY <1>26, ActorsAre DEF Peeks, Begins, Goes, At, running, called, walking, toolset, StartAt,
       At, Types, StillToRebuild, Changing
  <2> QED
    BY <2>1, <2>2, RebuildKept, ToolsKept
<1>27. ASSUME NEW o \in Op, Peeked(o) PROVE ToolsInv'
  <2>1. UNCHANGED <<up, tools, pending>>
    BY <1>27 DEF Peeked, At, Goes, running, called, walking, toolset
  <2>2. StillToRebuild
    BY <1>27, ActorsAre DEF Peeked, At, Goes, running, called, walking, toolset, StartAt, At,
       Types, StillToRebuild, Changing
  <2> QED
    BY <2>1, <2>2, RebuildKept, ToolsKept
<1>28. ASSUME NEW o \in Op, NEW s \in Server, NEW v \in BOOLEAN, Switches(o, s, v) PROVE ToolsInv'
  <2>1. UNCHANGED <<up, tools, pending>>
    BY <1>28 DEF Switches, Begins, Goes, At, running, called, walking, toolset
  <2>2. StillToRebuild
    BY <1>28, ActorsAre DEF Switches, Begins, Goes, At, running, called, walking, toolset,
       StartAt, At, Types, StillToRebuild, Changing
  <2> QED
    BY <2>1, <2>2, RebuildKept, ToolsKept
<1>29. CASE TurnBegins
  <2>1. UNCHANGED <<up, tools, pending>>
    BY <1>29 DEF TurnBegins, At, Goes, running, called, walking, toolset
  <2>2. StillToRebuild
    BY <1>29, ActorsAre DEF TurnBegins, At, Goes, running, called, walking, toolset, StartAt,
       At, Types, StillToRebuild, Changing
  <2> QED
    BY <2>1, <2>2, RebuildKept, ToolsKept
<1>30. CASE TurnLocks
  <2>1. UNCHANGED <<up, tools, pending>>
    BY <1>30 DEF TurnLocks, At, Goes, running, called, walking, toolset
  <2>2. StillToRebuild
    BY <1>30, ActorsAre DEF TurnLocks, At, Goes, running, called, walking, toolset, StartAt, At,
       Types, StillToRebuild, Changing
  <2> QED
    BY <2>1, <2>2, RebuildKept, ToolsKept
<1>31. CASE TurnUnlocks
  <2>1. UNCHANGED <<up, tools, pending>>
    BY <1>31 DEF TurnUnlocks, At, Goes, running, called, walking, toolset
  <2>2. StillToRebuild
    BY <1>31, ActorsAre DEF TurnUnlocks, At, Goes, running, called, walking, toolset, StartAt,
       At, Types, StillToRebuild, Changing
  <2> QED
    BY <2>1, <2>2, RebuildKept, ToolsKept
<1>32. CASE TurnApplies
  <2>1. UNCHANGED <<up, tools, pending>>
    BY <1>32 DEF TurnApplies, At, Goes, Applies, running, called, walking, toolset
  <2>2. StillToRebuild
    BY <1>32, ActorsAre DEF TurnApplies, At, Goes, Applies, running, called, walking, toolset,
       StartAt, At, Types, StillToRebuild, Changing
  <2> QED
    BY <2>1, <2>2, RebuildKept, ToolsKept
<1> QED
  BY <1>1, <1>2, <1>3, <1>4, <1>5, <1>6, <1>7, <1>8, <1>9, <1>10, <1>11, <1>12, <1>13, <1>14,
     <1>15, <1>16, <1>17, <1>18, <1>19, <1>20, <1>21, <1>22, <1>23, <1>24, <1>25, <1>26, <1>27,
     <1>28, <1>29, <1>30, <1>31, <1>32 DEF Next, Starting, Reloading, Applying, Commanding,
     Actor

-----------------------------------------------------------------------------
(* The invariant                                                             *)

\* At first nothing starts, and the tools are those of the servers.
LEMMA InitIInv ==
  ASSUME Init
  PROVE  IInv
<1>1. Types
  <2>1. specs \in [Server -> BOOLEAN] /\ file \in [Server -> BOOLEAN]
    BY DEF Init
  <2>2. up \in [Server -> {"no", "up", "ready"}] /\ starting = {} /\ byName = {} /\ pending = FALSE
    BY DEF Init
  <2>3. starts \in 0..MaxStarts
    BY ServersAssumption DEF Init
  <2>4. spc \in [Start -> Step] /\ srv \in [Start -> About]
    BY DEF Init, Step, About, Some
  <2>5. /\ pc = [a \in Caller |-> "idle"] /\ about \in [Caller -> About]
        /\ todo \in [Caller -> SUBSET Server] /\ ap = [a \in Actor |-> "no"]
    BY DEF Init, About, Some
  <2> QED
    BY <2>1, <2>2, <2>3, <2>4, <2>5 DEF Types
<1>2. CalledInv /\ StartInv
  BY DEF Init, CalledInv, StartInv, MarkedInv, OneStart, FlyingFor, Flying
<1>3. ToolsInv
  BY DEF Init, ToolsInv
<1> QED
  BY <1>1, <1>2, <1>3 DEF IInv, StartInv

\* Every step keeps the invariant.
LEMMA StepIInv ==
  ASSUME IInv, [Next]_vars
  PROVE  IInv'
BY TypesP, CalledP, StartP, ToolsP DEF IInv, StartInv

\* What runs, starts, is marked, and is to be rebuilt agree in every state.
THEOREM InductiveInvariant == Spec => []IInv
BY InitIInv, StepIInv, PTL DEF Spec

\* reloadServers: whatever turns, frames and commands reload at once, a server
\* that nobody starts by name has one start at a time.
THEOREM StartedOnce == Spec => []OneStart
<1>1. IInv => OneStart
  BY DEF IInv
<1> QED
  BY <1>1, InductiveInvariant, PTL

\* applyTools: when all are at rest, the session has the tools of the servers that
\* run, or knows that it has not, for any order of rebuilds, starts and stops.
THEOREM ToolsAreCurrent == Spec => []ToolsCurrent
<1>1. ASSUME IInv PROVE ToolsCurrent
  <2>1. Resting => ~ToRebuild
    BY DEF Resting, ToRebuild, Changing, Flying
  <2> QED
    BY <1>1, <2>1 DEF IInv, ToolsInv, ToolsCurrent
<1> QED
  BY <1>1, InductiveInvariant, PTL


-----------------------------------------------------------------------------
(* Conn: its invariant *)

\* The frames, and where a reader may be in one.
Frame == {"view", "leave", "subscribe", "detach", "exit"}
Place == {"read", "view", "leave", "register", "run", "leaves", "over"}

\* The types, part by part.
ClientTypes == scope \subseteq Conn /\ seen \in [Conn -> 0..MaxEngines]
ReaderTypes == reader \in [Conn -> Place]
FollowTypes == subs \in [Conn -> 0..2] /\ hand \in [Conn -> 0..2] /\ live \subseteq Conn \X {1, 2}
CountTypes ==
  /\ conn \in [Conn -> {"open", "done", "swept", "gone"}]
  /\ views \in [Conn -> Nat] /\ owed \in [Conn -> Nat] /\ left \in [Conn -> Nat]
  /\ leaver \in [Conn -> {"none", "ask", "stop"}]
EngineTypes ==
  /\ engine \in [n : 0..MaxEngines, up : BOOLEAN]
  /\ pipe \in Seq({"view", "leave"}) /\ watchers \in Nat /\ fails \in 0..MaxFails
  /\ IF engine.up THEN engine.n > 0 ELSE pipe = <<>> /\ watchers = 0

\* Leaves are sent by a close or by a leave.
OwesInv == \A c \in Conn : (owed[c] > 0 => conn[c] = "swept") /\ (left[c] > 0 => reader[c] = "leaves")

\* A subscription is registered, or in the hand of a reader that is about to.
SubsInv ==
  /\ \A c \in Conn : /\ hand[c] # NoSub <=> reader[c] = "register"
                     /\ reader[c] = "register" => hand[c] # subs[c]
  /\ \A c \in Conn, n \in {1, 2} : <<c, n>> \in live => n = subs[c] \/ n = hand[c]

\* What a client has on its way and in the count it has sent.
Sent(c) == views[c] + (IF reader[c] = "view" THEN 1 ELSE 0)
SentInv ==
  /\ used \in 0..MaxFrames /\ frames \in [Conn -> Seq(Frame)]
  /\ \A c \in Conn : Sent(c) + Len(frames[c]) <= used

\* The types, all of them.
ConnTypes ==
  /\ ClientTypes /\ ReaderTypes /\ FollowTypes /\ CountTypes /\ EngineTypes
  /\ OwesInv /\ SubsInv /\ SentInv

\* The views a connection has when the reader is through with its frame.
Counted(c) ==
  IF reader[c] = "view" THEN views[c] + 1
  ELSE IF reader[c] = "leave" /\ views[c] > 0 THEN views[c] - 1
  ELSE views[c]

\* A client leaves the view only after it asked for it: what it has on its way
\* before its i-th frame leaves it a view.
Leaving == {"leave", "exit"}
HasView(n, s, i) ==
  \/ n > 0 /\ \A j \in 1..(i - 1) : s[j] \notin Leaving
  \/ \E j \in 1..(i - 1) : /\ s[j] = "view"
                           /\ \A k \in 1..(i - 1) : j < k => s[k] \notin Leaving
Asks(n, s, in) ==
  /\ \A i \in 1..Len(s) : s[i] = "leave" => HasView(n, s, i)
  /\ in => HasView(n, s, Len(s) + 1)

\* Until an engine fails to start, a connection that is not swept leaves only a
\* view that it has.
AskInv ==
  fails = 0 => \A c \in Conn : conn[c] \in {"open", "done"} =>
    Asks(Counted(c), frames[c], c \in scope) /\ (reader[c] = "leave" => views[c] > 0)

\* The watchers that a connection stands for: what it counts, and the leaves it
\* has still to send.
Stand == [c \in Conn |-> Counted(c) + owed[c] + left[c]]

\* The watchers there will be when the engine has read each command on the pipe.
Watches(n, frame) == IF frame = "view" THEN n + 1 ELSE IF n > 0 THEN n - 1 ELSE 0
Drains(w) ==
  /\ w[0] = watchers
  /\ \A k \in 1..Len(pipe) : w[k] = Watches(w[k - 1], pipe[k])

\* Nothing was lost with an engine, failed to reach it, or is sent twice.
Undisturbed ==
  /\ engine.n = 0 \/ (engine.n = 1 /\ engine.up)
  /\ fails = 0 /\ ~late
  /\ \A c \in Conn : reader[c] = "leave" => conn[c] \in {"open", "done"}

\* When the pipe is read, the engine has at most the watchers that are stood for;
\* and just as many when nothing came to pass.
WatchInv ==
  \E w \in [0..Len(pipe) -> Nat] :
    /\ Drains(w)
    /\ w[Len(pipe)] <= SumFunction(Stand)
    /\ Undisturbed => w[Len(pipe)] = SumFunction(Stand)

\* The inductive invariant of the connections.
ConnInv == ConnTypes /\ AskInv /\ WatchInv


-----------------------------------------------------------------------------
(* The types *)

\* A connection begins with the types it keeps.
LEMMA ConnTypesInit == ConnInit => ConnTypes
  <1>. SUFFICES ASSUME ConnInit PROVE ConnTypes
    OBVIOUS
  <1>1. ClientTypes /\ ReaderTypes /\ FollowTypes /\ CountTypes
    BY ConnAssumption DEF ConnInit, ClientTypes, ReaderTypes, FollowTypes, CountTypes, Zero, Place
  <1>2. EngineTypes
    BY ConnAssumption DEF ConnInit, EngineTypes
  <1>3. OwesInv /\ SubsInv
    BY DEF ConnInit, OwesInv, SubsInv, Zero, NoSub
  <1>4. SentInv
    BY ConnAssumption DEF ConnInit, SentInv, Sent, Zero
  <1>. QED BY <1>1, <1>2, <1>3, <1>4 DEF ConnTypes

\* The parts are the type invariant that is checked: no more views than frames sent.
LEMMA ConnTypeOK == ConnTypes => TypeOK
  <1>. SUFFICES ASSUME ConnTypes PROVE TypeOK
    OBVIOUS
  <1>1. ASSUME NEW c \in Conn PROVE views[c] \in 0..MaxFrames
    <2>1. views[c] \in Nat
      BY DEF ConnTypes, CountTypes
    <2>2. Len(frames[c]) \in Nat /\ used \in Nat /\ used <= MaxFrames /\ Sent(c) + Len(frames[c]) <= used
      BY ConnAssumption DEF ConnTypes, SentInv
    <2>. QED BY <2>1, <2>2, ConnAssumption DEF Sent
  <1>2. views \in [Conn -> 0..MaxFrames]
    BY <1>1 DEF ConnTypes, CountTypes
  <1>3. ASSUME NEW s \in live PROVE s[2] = subs[s[1]] \/ s[2] = hand[s[1]]
    <2>1. PICK c \in Conn, n \in {1, 2} : s = <<c, n>>
      BY DEF ConnTypes, FollowTypes
    <2>. QED BY <2>1 DEF ConnTypes, SubsInv
  <1>. QED BY <1>2, <1>3 DEF ConnTypes, ClientTypes, ReaderTypes, FollowTypes, CountTypes, EngineTypes,
              OwesInv, SentInv, TypeOK, Frame, Place

\* A frame that is sent is on its way.
LEMMA SendsOne ==
  ASSUME SentInv, NEW c \in Conn, NEW frame \in Frame, Sends(c, frame)
  PROVE  /\ frames' \in [Conn -> Seq(Frame)] /\ frames'[c] = Append(frames[c], frame)
         /\ frames[c] \in Seq(Frame) /\ Len(frames[c]) \in Nat /\ Len(frames'[c]) = Len(frames[c]) + 1
         /\ \A d \in Conn : d # c => frames'[d] = frames[d]
         /\ used' = used + 1 /\ used' \in 0..MaxFrames /\ conn[c] = "open"
  <1>1. frames' = [frames EXCEPT ![c] = Append(frames[c], frame)] /\ used' = used + 1
        /\ used < MaxFrames /\ conn[c] = "open"
    BY DEF Sends
  <1>2. used \in 0..MaxFrames /\ frames \in [Conn -> Seq(Frame)]
    BY DEF SentInv
  <1>3. used' \in 0..MaxFrames
    BY <1>1, <1>2, ConnAssumption
  <1>. QED BY <1>1, <1>2, <1>3

\* A client sends a frame, and does nothing else.
LEMMA ClientSends ==
  ASSUME NEW c \in Conn, Client(c)
  PROVE  /\ \E frame \in Frame : Sends(c, frame)
         /\ UNCHANGED <<reader, following, views, closing, left, leaver, session>>
  BY DEF Client, Enters, LeavesView, AsksAgain, Exits, Follows, Sends, Frame

\* A frame that is handled is not on its way any more.
LEMMA HandlesOne ==
  ASSUME SentInv, ReaderTypes, NEW c \in Conn, NEW frame, NEW step, Handles(c, frame, step)
  PROVE  /\ frames' \in [Conn -> Seq(Frame)]
         /\ frames[c] \in Seq(Frame) /\ frames[c] # <<>> /\ Head(frames[c]) = frame /\ frame \in Frame
         /\ frames'[c] = Tail(frames[c]) /\ Len(frames'[c]) = Len(frames[c]) - 1
         /\ Len(frames[c]) \in Nat \ {0}
         /\ \A d \in Conn : d # c => frames'[d] = frames[d]
         /\ reader[c] = "read" /\ reader'[c] = step /\ \A d \in Conn : d # c => reader'[d] = reader[d]
         /\ reader' = [reader EXCEPT ![c] = step]
         /\ scope' = scope /\ seen' = seen /\ used' = used
  <1>1. /\ frames' = [frames EXCEPT ![c] = Tail(frames[c])] /\ frames[c] # <<>> /\ Head(frames[c]) = frame
        /\ reader[c] = "read" /\ reader' = [reader EXCEPT ![c] = step]
        /\ scope' = scope /\ seen' = seen /\ used' = used
    BY DEF Handles
  <1>2. frames[c] \in Seq(Frame) /\ frames \in [Conn -> Seq(Frame)]
    BY DEF SentInv
  <1>3. Len(frames[c]) \in Nat \ {0} /\ Tail(frames[c]) \in Seq(Frame)
        /\ Len(Tail(frames[c])) = Len(frames[c]) - 1 /\ Head(frames[c]) \in Frame
    BY <1>1, <1>2
  <1>. QED BY <1>1, <1>2, <1>3 DEF ReaderTypes

\* What the reader of c does, and the others not.
LEMMA StepsOne ==
  ASSUME ReaderTypes, NEW c \in Conn, NEW from, NEW to, Steps(c, from, to)
  PROVE  /\ reader[c] = from /\ reader'[c] = to /\ reader' = [reader EXCEPT ![c] = to]
         /\ \A d \in Conn : d # c => reader'[d] = reader[d]
  BY DEF Steps, ReaderTypes

\* Each step of a reader: it handles a frame, or goes on with one.
LEMMA ReaderSteps ==
  ASSUME ConnTypes, NEW c \in Conn, Serves(c)
  PROVE  \/ reader' = reader
         \/ \E to \in Place : /\ reader' = [reader EXCEPT ![c] = to] /\ reader'[c] = to
                           /\ \A d \in Conn : d # c => reader'[d] = reader[d]
  <1>. USE DEF ConnTypes
  <1>1. ASSUME NEW frame, NEW to \in Place, Handles(c, frame, to)
        PROVE  \E x \in Place : /\ reader' = [reader EXCEPT ![c] = x] /\ reader'[c] = x
                             /\ \A d \in Conn : d # c => reader'[d] = reader[d]
    BY <1>1, HandlesOne
  <1>2. ASSUME NEW from, NEW to \in Place, Steps(c, from, to)
        PROVE  \E x \in Place : /\ reader' = [reader EXCEPT ![c] = x] /\ reader'[c] = x
                             /\ \A d \in Conn : d # c => reader'[d] = reader[d]
    BY <1>2, StepsOne
  <1>3. /\ {"view", "leave"} \subseteq Place /\ "read" \in Place /\ "register" \in Place /\ "run" \in Place
        /\ "leaves" \in Place /\ "over" \in Place
    BY DEF Place
  <1>4. CASE \/ \E frame \in {"view", "leave"} : Forwards(c, frame)
             \/ ForwardFails(c) \/ Subscribe(c) \/ Detach(c) \/ Leave(c)
    BY <1>1, <1>3, <1>4 DEF Forwards, ForwardFails, Subscribe, Detach, Leave
  <1>5. CASE CountView(c) \/ Register(c) \/ EnsureRunning(c) \/ LeaveGoes(c) \/ ReaderEnds(c)
    BY <1>2, <1>3, <1>5 DEF CountView, Register, EnsureRunning, LeaveGoes, ReaderEnds
  <1>6. CASE \/ LeaveSends(c) \/ LeaveAsks(c) \/ LeaveStops(c) \/ FallsBehind(c) \/ Closes(c)
             \/ Sweeps(c) \/ CloseSends(c) \/ CloseEnds(c)
    BY <1>6 DEF LeaveSends, LeaveAsks, LeaveStops, FallsBehind, Closes, Sweeps, CloseSends,
       CloseEnds
  <1>. QED BY <1>4, <1>5, <1>6 DEF Serves

\* A reader is where a reader may be.
LEMMA ReaderKept ==
  ASSUME ConnTypes, [ConnNext]_connVars
  PROVE  ReaderTypes'
  <1>1. ReaderTypes
    BY DEF ConnTypes
  <1>2. CASE reader' = reader
    BY <1>1, <1>2 DEF ReaderTypes
  <1>3. ASSUME NEW c \in Conn, Serves(c) PROVE ReaderTypes'
    BY <1>1, <1>2, <1>3, ReaderSteps DEF ReaderTypes
  <1>4. CASE EngineStarts \/ EngineEnds \/ AgentCmd \/ UNCHANGED connVars \/ \E c \in Conn : Client(c)
    BY <1>2, <1>4, ClientSends DEF EngineStarts, EngineEnds, AgentCmd, connVars
  <1>. QED BY <1>3, <1>4 DEF ConnNext

\* Nothing is on the pipe of an engine that does not run, and nobody watches it.
LEMMA EngineKept ==
  ASSUME ConnTypes, [ConnNext]_connVars
  PROVE  EngineTypes'
  <1>. USE DEF EngineTypes
  <1>1. EngineTypes
    BY DEF ConnTypes
  <1>2. CASE UNCHANGED <<engine, pipe, watchers, fails>>
    BY <1>1, <1>2
  <1>3. ASSUME Starts, watchers' = watchers, fails' = fails, pipe' \in Seq({"view", "leave"})
        PROVE  EngineTypes'
    <2>1. engine.n \in 0..MaxEngines /\ engine.n < MaxEngines /\ engine' = [n |-> engine.n + 1, up |-> TRUE]
      BY <1>1, <1>3 DEF Starts
    <2>2. engine.n + 1 \in 0..MaxEngines
      BY <2>1, ConnAssumption
    <2>. QED BY <1>1, <1>3, <2>1, <2>2
  <1>4. CASE Stopped
    <2>1. engine' = [engine EXCEPT !.up = FALSE] /\ pipe' = <<>> /\ watchers' = 0 /\ fails' = fails
      BY <1>4 DEF Stopped
    <2>2. engine' \in [n : 0..MaxEngines, up : BOOLEAN]
      BY <1>1, <2>1
    <2>. QED BY <1>1, <2>1, <2>2
  <1>5. CASE SendLeave
    <2>1. engine' = engine /\ watchers' = watchers /\ fails' = fails
          /\ (engine.up => pipe' = Append(pipe, "leave")) /\ (~engine.up => pipe' = pipe)
      BY <1>5 DEF SendLeave
    <2>. QED BY <1>1, <2>1
  <1>6. CASE CannotRun
    <2>1. UNCHANGED <<engine, pipe, watchers>> /\ fails' = fails + 1 /\ fails < MaxFails
      BY <1>6 DEF CannotRun
    <2>2. fails' \in 0..MaxFails
      BY <1>1, <2>1, ConnAssumption
    <2>. QED BY <1>1, <2>1, <2>2
  <1>7. CASE EngineStarts
    BY <1>1, <1>3, <1>7 DEF EngineStarts
  <1>8. CASE AgentCmd
    <2>1. pipe # <<>> /\ pipe' = Tail(pipe) /\ engine' = engine /\ fails' = fails /\ watchers' \in Nat
      BY <1>1, <1>8 DEF AgentCmd
    <2>. QED BY <1>1, <2>1
  <1>9. CASE EngineEnds \/ UNCHANGED connVars \/ \E c \in Conn : Client(c)
    BY <1>2, <1>4, <1>9, ClientSends DEF EngineEnds, connVars, session
  <1>10. ASSUME NEW c \in Conn, Serves(c) PROVE EngineTypes'
    <2>1. ASSUME NEW frame \in {"view", "leave"}, Forwards(c, frame) PROVE EngineTypes'
      <3>1. /\ UNCHANGED <<watchers, fails>> /\ pipe' = Append(pipe, frame)
            /\ Starts \/ (engine.up /\ engine' = engine)
        BY <2>1 DEF Forwards, Runs
      <3>2. pipe' \in Seq({"view", "leave"})
        BY <1>1, <3>1
      <3>. QED BY <1>1, <1>3, <3>1, <3>2
    <2>2. CASE EnsureRunning(c)
      BY <1>1, <1>2, <1>3, <1>6, <2>2 DEF EnsureRunning, Runs
    <2>3. CASE ForwardFails(c) \/ LeaveSends(c) \/ LeaveStops(c) \/ CloseSends(c)
      BY <1>4, <1>5, <1>6, <2>3 DEF ForwardFails, LeaveSends, LeaveStops, CloseSends
    <2>4. CASE \/ CountView(c) \/ Subscribe(c) \/ Register(c) \/ Detach(c) \/ Leave(c) \/ LeaveGoes(c)
               \/ LeaveAsks(c) \/ FallsBehind(c) \/ ReaderEnds(c) \/ Closes(c) \/ Sweeps(c) \/ CloseEnds(c)
      BY <1>2, <2>4 DEF CountView, Subscribe, Register, Detach, Leave, LeaveGoes, LeaveAsks,
           FallsBehind, ReaderEnds, Closes, Sweeps, CloseEnds, session
    <2>. QED BY <1>10, <2>1, <2>2, <2>3, <2>4 DEF Serves
  <1>. QED BY <1>7, <1>8, <1>9, <1>10 DEF ConnNext

\* Subscriptions, counts and the ends of a connection keep their types.
LEMMA CountKept ==
  ASSUME ConnTypes, [ConnNext]_connVars
  PROVE  ClientTypes' /\ FollowTypes' /\ CountTypes'
  <1>1. ClientTypes /\ FollowTypes /\ CountTypes /\ SentInv /\ ReaderTypes /\ EngineTypes
    BY DEF ConnTypes
  <1>. USE <1>1
  <1>2. CASE EngineStarts \/ EngineEnds \/ AgentCmd \/ UNCHANGED connVars
    <2>1. UNCHANGED <<client, following, views, closing, left, leaver>>
      BY <1>2 DEF EngineStarts, EngineEnds, AgentCmd, connVars
    <2>. QED BY <2>1 DEF ClientTypes, FollowTypes, CountTypes, client, following, closing
  <1>3. ASSUME NEW c \in Conn, Client(c) PROVE ClientTypes' /\ FollowTypes' /\ CountTypes'
    <2>1. engine.n \in 0..MaxEngines
      BY DEF EngineTypes
    <2>2. ClientTypes'
      BY <1>3, <2>1 DEF Client, Enters, LeavesView, AsksAgain, Exits, Follows, ClientTypes
    <2>3. UNCHANGED <<following, views, closing, left, leaver>>
      BY <1>3, ClientSends
    <2>. QED BY <2>2, <2>3 DEF FollowTypes, CountTypes, following, closing
  <1>4. ASSUME NEW c \in Conn, Serves(c) PROVE ClientTypes' /\ FollowTypes' /\ CountTypes'
    <2>1. UNCHANGED <<scope, seen>>
      BY <1>4 DEF Serves, Forwards, ForwardFails, CountView, Subscribe, Register, EnsureRunning,
         Detach,
           Leave, LeaveSends, LeaveGoes, LeaveAsks, LeaveStops, FallsBehind, ReaderEnds, Closes, Sweeps,
           CloseSends, CloseEnds, Handles, client
    <2>2. FollowTypes'
      <3>1. CASE UNCHANGED following
        BY <3>1 DEF following, FollowTypes
      <3>2. ASSUME Unfollows(c) PROVE FollowTypes'
        BY <3>2 DEF Unfollows, FollowTypes, NoSub
      <3>3. CASE Subscribe(c)
        <4>. DEFINE n == CHOOSE m \in {1, 2} : m # subs[c]
        <4>1. \E m \in {1, 2} : m # subs[c]
          OBVIOUS
        <4>2. n \in {1, 2}
          BY <4>1
        <4>3. hand' = [hand EXCEPT ![c] = n] /\ subs' = subs /\ live' = live \union {<<c, hand'[c]>>}
          BY <3>3 DEF Subscribe
        <4>. HIDE DEF n
        <4>. QED BY <4>2, <4>3 DEF FollowTypes
      <3>4. CASE Register(c)
        BY <3>4 DEF Register, FollowTypes, NoSub
      <3>5. CASE FallsBehind(c)
        BY <3>5 DEF FallsBehind, FollowTypes
      <3>6. CASE Detach(c) \/ Leave(c) \/ Sweeps(c)
        BY <3>2, <3>6 DEF Detach, Leave, Sweeps
      <3>7. CASE \/ (\E frame \in {"view", "leave"} : Forwards(c, frame)) \/ ForwardFails(c) \/ CountView(c)
                 \/ EnsureRunning(c) \/ LeaveSends(c) \/ LeaveGoes(c) \/ LeaveAsks(c) \/ LeaveStops(c)
                 \/ ReaderEnds(c) \/ Closes(c) \/ CloseSends(c) \/ CloseEnds(c)
        BY <3>1, <3>7 DEF Forwards, ForwardFails, CountView, EnsureRunning, LeaveSends, LeaveGoes,
           LeaveAsks,
             LeaveStops, ReaderEnds, Closes, CloseSends, CloseEnds
      <3>. QED BY <1>4, <3>3, <3>4, <3>5, <3>6, <3>7 DEF Serves
    <2>3. CountTypes'
      <3>1. CASE UNCHANGED <<views, closing, left, leaver>>
        BY <3>1 DEF closing, CountTypes
      <3>2. CASE CountView(c)
        <4>1. views' \in [Conn -> Nat] /\ UNCHANGED <<closing, left, leaver>>
          BY <3>2 DEF CountView, CountTypes
        <4>. QED BY <4>1 DEF closing, CountTypes
      <3>3. CASE Leave(c) \/ Sweeps(c)
        BY <3>3 DEF Leave, Sweeps, closing, CountTypes
      <3>4. CASE LeaveSends(c) \/ LeaveGoes(c) \/ LeaveAsks(c) \/ LeaveStops(c)
        BY <3>4 DEF LeaveSends, LeaveGoes, LeaveAsks, LeaveStops, closing, CountTypes
      <3>5. CASE ReaderEnds(c) \/ Closes(c) \/ CloseSends(c) \/ CloseEnds(c)
        BY <3>5 DEF ReaderEnds, Closes, CloseSends, CloseEnds, CountTypes
      <3>6. CASE \/ (\E frame \in {"view", "leave"} : Forwards(c, frame)) \/ ForwardFails(c) \/ Subscribe(c)
                 \/ Register(c) \/ EnsureRunning(c) \/ Detach(c) \/ FallsBehind(c)
        BY <3>1, <3>6 DEF Forwards, ForwardFails, Subscribe, Register, EnsureRunning, Detach,
           FallsBehind
      <3>. QED BY <1>4, <3>2, <3>3, <3>4, <3>5, <3>6 DEF Serves
    <2>. QED BY <2>1, <2>2, <2>3 DEF ClientTypes
  <1>. QED BY <1>2, <1>3, <1>4 DEF ConnNext

\* Leaves are owed only by a close, or a leave, that is sending them.
LEMMA OwesKept ==
  ASSUME ConnTypes, [ConnNext]_connVars
  PROVE  OwesInv'
  <1>1. OwesInv /\ CountTypes /\ SentInv /\ ReaderTypes
    BY DEF ConnTypes
  <1>. USE <1>1
  <1>2. CASE EngineStarts \/ EngineEnds \/ AgentCmd \/ UNCHANGED connVars \/ \E c \in Conn : Client(c)
    <2>1. UNCHANGED <<reader, closing, left>>
      BY <1>2, ClientSends DEF EngineStarts, EngineEnds, AgentCmd, connVars
    <2>. QED BY <2>1 DEF closing, OwesInv
  <1>3. ASSUME NEW c \in Conn, Serves(c) PROVE OwesInv'
    <2>1. ASSUME UNCHANGED <<closing, left>>, reader[c] # "leaves" \/ reader'[c] = reader[c],
                 \A d \in Conn : d # c => reader'[d] = reader[d]
          PROVE  OwesInv'
      BY <2>1 DEF closing, OwesInv
    <2>2. ASSUME NEW frame, NEW step, Handles(c, frame, step), UNCHANGED <<closing, left>> PROVE OwesInv'
      BY <2>1, <2>2, HandlesOne
    <2>3. ASSUME NEW from, NEW to, Steps(c, from, to), from # "leaves", UNCHANGED <<closing, left>>
          PROVE OwesInv'
      BY <2>1, <2>3, StepsOne
    <2>4. CASE \/ \E frame \in {"view", "leave"} : Forwards(c, frame)
               \/ ForwardFails(c) \/ Subscribe(c) \/ Detach(c)
      BY <2>2, <2>4 DEF Forwards, ForwardFails, Subscribe, Detach
    <2>5. CASE CountView(c) \/ Register(c) \/ EnsureRunning(c)
      BY <2>3, <2>5 DEF CountView, Register, EnsureRunning
    <2>6. CASE Leave(c)
      <3>1. Handles(c, "exit", "leaves") /\ UNCHANGED closing /\ left' = [left EXCEPT ![c] = views[c]]
        BY <2>6 DEF Leave
      <3>2. reader'[c] = "leaves" /\ \A d \in Conn : d # c => reader'[d] = reader[d] /\ left'[d] = left[d]
        BY <3>1, HandlesOne DEF CountTypes
      <3>. QED BY <3>1, <3>2 DEF closing, OwesInv
    <2>7. CASE LeaveSends(c)
      <3>1. UNCHANGED <<closing, reader>> /\ left' = [left EXCEPT ![c] = left[c] - 1] /\ left[c] > 0
        BY <2>7 DEF LeaveSends
      <3>2. \A d \in Conn : left'[d] > 0 => left[d] > 0
        BY <3>1 DEF CountTypes
      <3>. QED BY <3>1, <3>2 DEF closing, OwesInv
    <2>8. CASE LeaveGoes(c)
      <3>1. left[c] = 0 /\ UNCHANGED <<closing, left>> /\ Steps(c, "leaves", "read")
        BY <2>8 DEF LeaveGoes
      <3>2. \A d \in Conn : d # c => reader'[d] = reader[d]
        BY <3>1, StepsOne
      <3>. QED BY <3>1, <3>2 DEF closing, OwesInv
    <2>9. CASE LeaveAsks(c) \/ LeaveStops(c) \/ FallsBehind(c)
      BY <2>1, <2>9 DEF LeaveAsks, LeaveStops, FallsBehind
    <2>10. ASSUME UNCHANGED left, owed' = owed, \A d \in Conn : reader[d] = "leaves" => reader'[d] = "leaves",
                  \A d \in Conn : conn[d] = "swept" => conn'[d] = "swept"
           PROVE  OwesInv'
      BY <2>10 DEF OwesInv
    <2>11. CASE ReaderEnds(c)
      <3>1. UNCHANGED <<left, owed>> /\ Steps(c, "read", "over")
            /\ conn' = [conn EXCEPT ![c] = IF conn[c] = "open" THEN "done" ELSE conn[c]]
        BY <2>11 DEF ReaderEnds
      <3>2. \A d \in Conn : reader[d] = "leaves" => reader'[d] = "leaves"
        BY <3>1, StepsOne
      <3>3. \A d \in Conn : conn[d] = "swept" => conn'[d] = "swept"
        BY <3>1 DEF CountTypes
      <3>. QED BY <2>10, <3>1, <3>2, <3>3
    <2>12. CASE Closes(c)
      BY <2>12 DEF Closes, OwesInv, CountTypes
    <2>13. CASE Sweeps(c)
      BY <2>13 DEF Sweeps, OwesInv, CountTypes
    <2>14. CASE CloseSends(c) \/ CloseEnds(c)
      BY <2>14 DEF CloseSends, CloseEnds, OwesInv, CountTypes
    <2>. QED BY <1>3, <2>4, <2>5, <2>6, <2>7, <2>8, <2>9, <2>11, <2>12, <2>13, <2>14 DEF Serves
  <1>. QED BY <1>2, <1>3 DEF ConnNext

\* A connection keeps one subscription beside the one it is registering.
LEMMA SubsKept ==
  ASSUME ConnTypes, [ConnNext]_connVars
  PROVE  SubsInv'
  <1>1. SubsInv /\ FollowTypes /\ SentInv /\ ReaderTypes
    BY DEF ConnTypes
  <1>. USE <1>1
  <1>2. CASE EngineStarts \/ EngineEnds \/ AgentCmd \/ UNCHANGED connVars \/ \E c \in Conn : Client(c)
    <2>1. UNCHANGED <<reader, following>>
      BY <1>2, ClientSends DEF EngineStarts, EngineEnds, AgentCmd, connVars
    <2>. QED BY <2>1 DEF following, SubsInv
  <1>3. ASSUME NEW c \in Conn, Serves(c) PROVE SubsInv'
    <2>1. ASSUME \A d \in Conn : d # c => reader'[d] = reader[d],
                 reader[c] # "register", reader'[c] # "register", UNCHANGED following
          PROVE  SubsInv'
      BY <2>1 DEF following, SubsInv
    <2>2. ASSUME NEW frame, NEW to, Handles(c, frame, to), to # "register", UNCHANGED following
          PROVE SubsInv'
      BY <2>1, <2>2, HandlesOne
    <2>3. ASSUME NEW from, NEW to, Steps(c, from, to), from # "register", to # "register", UNCHANGED following
          PROVE SubsInv'
      BY <2>1, <2>3, StepsOne
    <2>4. CASE (\E frame \in {"view", "leave"} : Forwards(c, frame)) \/ ForwardFails(c)
      BY <2>2, <2>4 DEF Forwards, ForwardFails
    <2>5. CASE CountView(c) \/ EnsureRunning(c) \/ LeaveGoes(c) \/ ReaderEnds(c)
      BY <2>3, <2>5 DEF CountView, EnsureRunning, LeaveGoes, ReaderEnds
    <2>6. CASE Subscribe(c)
      <3>1. Handles(c, "subscribe", "register")
        BY <2>6 DEF Subscribe
      <3>. DEFINE n == CHOOSE m \in {1, 2} : m # subs[c]
      <3>2. \E m \in {1, 2} : m # subs[c]
        OBVIOUS
      <3>3. n \in {1, 2} /\ n # subs[c]
        BY <3>2
      <3>4. hand' = [hand EXCEPT ![c] = n] /\ subs' = subs /\ live' = live \union {<<c, hand'[c]>>}
        BY <2>6 DEF Subscribe
      <3>. HIDE DEF n
      <3>5. hand'[c] = n /\ \A d \in Conn : d # c => hand'[d] = hand[d]
        BY <3>4 DEF FollowTypes
      <3>6. reader[c] = "read" /\ reader'[c] = "register" /\ \A d \in Conn : d # c => reader'[d] = reader[d]
        BY <3>1, HandlesOne
      <3>7. hand[c] = NoSub
        BY <3>6 DEF SubsInv
      <3>8. ASSUME NEW d \in Conn
            PROVE  /\ hand'[d] # NoSub <=> reader'[d] = "register"
                   /\ reader'[d] = "register" => hand'[d] # subs'[d]
        BY <3>3, <3>4, <3>5, <3>6 DEF SubsInv, NoSub
      <3>9. ASSUME NEW d \in Conn, NEW m \in {1, 2}, <<d, m>> \in live'
            PROVE  m = subs'[d] \/ m = hand'[d]
        <4>1. CASE <<d, m>> \in live
          <5>1. m = subs[d] \/ m = hand[d]
            BY <4>1 DEF SubsInv
          <5>. QED BY <3>4, <3>5, <3>7, <5>1 DEF NoSub
        <4>2. CASE <<d, m>> = <<c, hand'[c]>>
          BY <4>2
        <4>. QED BY <3>4, <3>9, <4>1, <4>2
      <3>. QED BY <3>8, <3>9 DEF SubsInv
    <2>7. CASE Register(c)
      <3>1. /\ live' = live \ {<<c, subs[c]>>} /\ subs' = [subs EXCEPT ![c] = hand[c]]
            /\ hand' = [hand EXCEPT ![c] = NoSub] /\ Steps(c, "register", "run")
        BY <2>7 DEF Register
      <3>2. /\ subs'[c] = hand[c] /\ hand'[c] = NoSub /\ reader'[c] = "run"
            /\ \A d \in Conn : d # c => subs'[d] = subs[d] /\ hand'[d] = hand[d] /\ reader'[d] = reader[d]
        BY <3>1, StepsOne DEF FollowTypes
      <3>. QED BY <3>1, <3>2 DEF SubsInv
    <2>8. ASSUME Unfollows(c), \A d \in Conn : d # c => reader'[d] = reader[d],
                 reader[c] = "register" <=> reader'[c] = "register"
          PROVE SubsInv'
      <3>1. live' = live \ {<<c, subs[c]>>} /\ subs' = [subs EXCEPT ![c] = NoSub] /\ hand' = hand
        BY <2>8 DEF Unfollows
      <3>2. subs'[c] = NoSub /\ \A d \in Conn : d # c => subs'[d] = subs[d]
        BY <3>1 DEF FollowTypes
      <3>3. ASSUME NEW d \in Conn
            PROVE  /\ hand'[d] # NoSub <=> reader'[d] = "register"
                   /\ reader'[d] = "register" => hand'[d] # subs'[d]
        BY <2>8, <3>1, <3>2 DEF SubsInv
      <3>4. ASSUME NEW d \in Conn, NEW m \in {1, 2}, <<d, m>> \in live'
            PROVE  m = subs'[d] \/ m = hand'[d]
        BY <3>1, <3>2, <3>4 DEF SubsInv
      <3>. QED BY <3>3, <3>4 DEF SubsInv
    <2>9. CASE Detach(c) \/ Leave(c)
      <3>1. Unfollows(c) /\ (Handles(c, "detach", "read") \/ Handles(c, "exit", "leaves"))
        BY <2>9 DEF Detach, Leave
      <3>2. reader[c] = "read" /\ reader'[c] # "register" /\ \A d \in Conn : d # c => reader'[d] = reader[d]
        BY <3>1, HandlesOne
      <3>. QED BY <2>8, <3>1, <3>2
    <2>10. CASE Sweeps(c)
      <3>1. Unfollows(c) /\ reader' = reader
        BY <2>10 DEF Sweeps
      <3>. QED BY <2>8, <3>1
    <2>11. CASE FallsBehind(c)
      BY <2>11 DEF FallsBehind, SubsInv
    <2>12. CASE LeaveSends(c) \/ LeaveAsks(c) \/ LeaveStops(c) \/ Closes(c) \/ CloseSends(c) \/ CloseEnds(c)
      <3>1. UNCHANGED <<reader, following>>
        BY <2>12 DEF LeaveSends, LeaveAsks, LeaveStops, Closes, CloseSends, CloseEnds
      <3>. QED BY <3>1 DEF following, SubsInv
    <2>. QED BY <1>3, <2>4, <2>5, <2>6, <2>7, <2>9, <2>10, <2>11, <2>12 DEF Serves
  <1>. QED BY <1>2, <1>3 DEF ConnNext

\* A step at one connection, or at none, keeps the numbers of the others.
\* A connection counts no view that was not asked for.
LEMMA SentKept ==
  ASSUME ConnTypes, [ConnNext]_connVars
  PROVE  SentInv'
  <1>1. SentInv /\ ReaderTypes /\ CountTypes
    BY DEF ConnTypes
  <1>. USE <1>1
  <1>2. used \in Nat /\ \A d \in Conn : Len(frames[d]) \in Nat /\ Sent(d) \in Nat /\ Sent(d) + Len(frames[d]) <= used
    BY ConnAssumption DEF SentInv, Sent, CountTypes
  <1>3. ASSUME UNCHANGED <<frames, used>>, \A d \in Conn : Sent(d)' \in Nat /\ Sent(d)' <= Sent(d) PROVE SentInv'
    BY <1>2, <1>3 DEF SentInv
  <1>4. CASE EngineStarts \/ EngineEnds \/ AgentCmd \/ UNCHANGED connVars
    BY <1>2, <1>3, <1>4 DEF EngineStarts, EngineEnds, AgentCmd, connVars, client, Sent
  <1>5. ASSUME NEW c \in Conn, Client(c) PROVE SentInv'
    <2>1. PICK frame \in Frame : Sends(c, frame)
      BY <1>5, ClientSends
    <2>2. UNCHANGED <<reader, views>>
      BY <1>5, ClientSends
    <2>3. \A d \in Conn : Sent(d)' = Sent(d)
      BY <2>2 DEF Sent
    <2>4. used' = used + 1 /\ \A d \in Conn : Len(frames'[d]) \in {Len(frames[d]), Len(frames[d]) + 1}
      BY <2>1, SendsOne
    <2>5. \A d \in Conn : Sent(d)' + Len(frames'[d]) <= used'
      BY <1>2, <2>3, <2>4
    <2>. QED BY <2>1, <2>5, SendsOne DEF SentInv
  <1>6. ASSUME NEW c \in Conn, Serves(c) PROVE SentInv'
    <2>1. ASSUME NEW frame, NEW step, Handles(c, frame, step),
                 \A d \in Conn : d # c => views'[d] = views[d],
                 views'[c] = views[c] \/ views'[c] = 0
          PROVE  SentInv'
      <3>1. /\ Len(frames'[c]) = Len(frames[c]) - 1 /\ reader[c] = "read"
            /\ used' = used /\ frames' \in [Conn -> Seq(Frame)]
            /\ \A d \in Conn : d # c => frames'[d] = frames[d] /\ reader'[d] = reader[d]
        BY <2>1, HandlesOne
      <3>2. views[c] \in Nat
        BY DEF CountTypes
      <3>3. Sent(c)' \in Nat /\ Sent(c)' <= Sent(c) + 1
        BY <2>1, <3>1, <3>2 DEF Sent
      <3>4. \A d \in Conn : d # c => Sent(d)' = Sent(d)
        BY <2>1, <3>1 DEF Sent
      <3>5. ASSUME NEW d \in Conn PROVE Sent(d)' + Len(frames'[d]) <= used'
        BY <1>2, <3>1, <3>3, <3>4
      <3>. QED BY <3>1, <3>5 DEF SentInv
    <2>2. CASE \/ \E frame \in {"view", "leave"} : Forwards(c, frame)
               \/ ForwardFails(c) \/ Subscribe(c) \/ Detach(c)
      BY <2>1, <2>2 DEF Forwards, ForwardFails, Subscribe, Detach
    <2>3. CASE Leave(c)
      <3>1. views' = [views EXCEPT ![c] = 0] /\ Handles(c, "exit", "leaves")
        BY <2>3 DEF Leave
      <3>2. views'[c] = 0 /\ \A d \in Conn : d # c => views'[d] = views[d]
        BY <3>1 DEF CountTypes
      <3>. QED BY <2>1, <3>1, <3>2
    <2>4. CASE CountView(c)
      <3>1. UNCHANGED <<frames, used>>
        BY <2>4 DEF CountView, client
      <3>2. \A d \in Conn : d # c => views'[d] = views[d] /\ reader'[d] = reader[d]
        BY <2>4, StepsOne DEF CountView, CountTypes
      <3>3. views[c] \in Nat
        BY DEF CountTypes
      <3>4. CASE Steps(c, "view", "read") /\ views' = [views EXCEPT ![c] = views[c] + 1]
        <4>1. reader[c] = "view" /\ reader'[c] = "read" /\ views'[c] = views[c] + 1
          BY <3>4, StepsOne DEF CountTypes
        <4>2. \A d \in Conn : Sent(d)' = Sent(d)
          BY <3>2, <3>3, <4>1 DEF Sent
        <4>. QED BY <1>2, <1>3, <3>1, <4>2
      <3>5. CASE Steps(c, "leave", "read") /\ views' = [views EXCEPT ![c] = IF views[c] > 0 THEN views[c] - 1 ELSE 0]
        <4>1. reader[c] = "leave" /\ reader'[c] = "read" /\ views'[c] = IF views[c] > 0 THEN views[c] - 1 ELSE 0
          BY <3>5, StepsOne DEF CountTypes
        <4>2. \A d \in Conn : Sent(d)' \in Nat /\ Sent(d)' <= Sent(d)
          BY <1>2, <3>2, <3>3, <4>1 DEF Sent
        <4>. QED BY <1>3, <3>1, <4>2
      <3>. QED BY <2>4, <3>4, <3>5 DEF CountView
    <2>5. CASE Register(c) \/ EnsureRunning(c) \/ LeaveGoes(c) \/ ReaderEnds(c)
      <3>1. UNCHANGED <<frames, used, views>>
        BY <2>5 DEF Register, EnsureRunning, LeaveGoes, ReaderEnds, client
      <3>2. \A d \in Conn : reader'[d] = "view" => reader[d] = "view"
        BY <2>5, StepsOne DEF Register, EnsureRunning, LeaveGoes, ReaderEnds
      <3>3. \A d \in Conn : views[d] \in Nat
        BY DEF CountTypes
      <3>4. \A d \in Conn : Sent(d)' \in Nat /\ Sent(d)' <= Sent(d)
        BY <3>1, <3>2, <3>3 DEF Sent
      <3>. QED BY <1>3, <3>1, <3>4
    <2>6. CASE Sweeps(c)
      <3>1. UNCHANGED <<frames, used, reader>> /\ views' = [views EXCEPT ![c] = 0]
        BY <2>6 DEF Sweeps, client
      <3>2. \A d \in Conn : views[d] \in Nat /\ views'[d] \in {0, views[d]}
        BY <3>1 DEF CountTypes
      <3>3. \A d \in Conn : Sent(d)' \in Nat /\ Sent(d)' <= Sent(d)
        BY <3>1, <3>2 DEF Sent
      <3>. QED BY <1>3, <3>1, <3>3
    <2>7. CASE \/ LeaveSends(c) \/ LeaveAsks(c) \/ LeaveStops(c) \/ FallsBehind(c) \/ Closes(c)
               \/ CloseSends(c) \/ CloseEnds(c)
      <3>1. UNCHANGED <<frames, used, reader, views>>
        BY <2>7 DEF LeaveSends, LeaveAsks, LeaveStops, FallsBehind, Closes, CloseSends, CloseEnds,
           client
      <3>2. \A d \in Conn : Sent(d)' = Sent(d)
        BY <3>1 DEF Sent
      <3>. QED BY <1>2, <1>3, <3>1, <3>2
    <2>. QED BY <1>6, <2>2, <2>3, <2>4, <2>5, <2>6, <2>7 DEF Serves
  <1>. QED BY <1>4, <1>5, <1>6 DEF ConnNext

\* The types are kept.
LEMMA ConnTypesKept ==
  ASSUME ConnTypes, [ConnNext]_connVars
  PROVE  ConnTypes'
  BY ReaderKept, EngineKept, CountKept, OwesKept, SubsKept, SentKept DEF ConnTypes

-----------------------------------------------------------------------------
(* A client leaves only what it has asked for *)

\* Something more is on its way.
LEMMA AskAppend ==
  ASSUME NEW n \in Nat, NEW s \in Seq(Frame), NEW in, NEW after, NEW frame \in Frame, Asks(n, s, in),
         frame = "leave" => in, after => frame = "view" \/ (in /\ frame \notin Leaving)
  PROVE  Asks(n, Append(s, frame), after)
  <1>. DEFINE t == Append(s, frame)
  <1>1. /\ Len(t) = Len(s) + 1 /\ Len(s) \in Nat /\ t[Len(s) + 1] = frame
        /\ \A i \in 1..Len(s) : t[i] = s[i]
    OBVIOUS
  <1>. HIDE DEF t
  <1>2. ASSUME NEW i \in 1..(Len(s) + 1), HasView(n, s, i) PROVE HasView(n, t, i)
    <2>1. \A j \in 1..(i - 1) : t[j] = s[j]
      BY <1>1
    <2>. QED BY <1>2, <2>1 DEF HasView
  <1>3. ASSUME NEW i \in 1..Len(t), t[i] = "leave" PROVE HasView(n, t, i)
    <2>1. CASE i = Len(s) + 1
      BY <1>1, <1>2, <1>3, <2>1 DEF Asks
    <2>2. CASE i # Len(s) + 1
      <3>1. i \in 1..Len(s) /\ s[i] = "leave"
        BY <1>1, <1>3, <2>2
      <3>. QED BY <1>2, <3>1 DEF Asks
    <2>. QED BY <2>1, <2>2
  <1>4. ASSUME after PROVE HasView(n, t, Len(t) + 1)
    <2>1. CASE frame = "view"
      <3>1. Len(t) \in 1..(Len(t) + 1 - 1) /\ t[Len(t)] = "view"
        BY <1>1, <2>1
      <3>2. \A k \in 1..(Len(t) + 1 - 1) : ~(Len(t) < k)
        BY <1>1
      <3>. QED BY <3>1, <3>2 DEF HasView
    <2>2. CASE in /\ frame \notin Leaving
      <3>1. HasView(n, t, Len(s) + 1)
        BY <1>1, <1>2, <2>2 DEF Asks
      <3>2. \A k \in 1..(Len(t) + 1 - 1) : k \in 1..(Len(s) + 1 - 1) \/ t[k] \notin Leaving
        BY <1>1, <2>2
      <3>3. \A k \in 1..(Len(s) + 1 - 1) : k \in 1..(Len(t) + 1 - 1)
        BY <1>1
      <3>. QED BY <3>1, <3>2, <3>3 DEF HasView
    <2>. QED BY <1>4, <2>1, <2>2
  <1>. QED BY <1>3, <1>4 DEF Asks, t

\* The next is handled: a view is counted, a leave had one.
LEMMA AskTail ==
  ASSUME NEW n \in Nat, NEW m \in Nat, NEW s \in Seq(Frame), NEW in, Asks(n, s, in), s # <<>>,
         Head(s) = "view" => m > 0, Head(s) \notin Leaving => m >= n
  PROVE  Asks(m, Tail(s), in) /\ (Head(s) = "leave" => n > 0)
  <1>. DEFINE t == Tail(s)
  <1>1. /\ Len(t) = Len(s) - 1 /\ Len(s) \in Nat \ {0} /\ Head(s) = s[1] /\ 1 \in 1..Len(s)
        /\ \A i \in 1..Len(t) : t[i] = s[i + 1]
    OBVIOUS
  <1>. HIDE DEF t
  <1>2. ASSUME NEW i \in 1..(Len(t) + 1), HasView(n, s, i + 1) PROVE HasView(m, t, i)
    <2>1. \A j \in 1..(i - 1) : t[j] = s[j + 1] /\ j + 1 \in 1..(i + 1 - 1)
      BY <1>1
    <2>2. ASSUME n > 0, \A j \in 1..(i + 1 - 1) : s[j] \notin Leaving PROVE HasView(m, t, i)
      <3>1. 1 \in 1..(i + 1 - 1)
        OBVIOUS
      <3>2. m > 0
        BY <1>1, <2>2, <3>1
      <3>. QED BY <2>1, <2>2, <3>2 DEF HasView
    <2>3. ASSUME NEW j \in 1..(i + 1 - 1), s[j] = "view", \A k \in 1..(i + 1 - 1) : j < k => s[k] \notin Leaving
          PROVE  HasView(m, t, i)
      <3>1. CASE j = 1
        <4>1. m > 0
          BY <1>1, <2>3, <3>1
        <4>2. \A k \in 1..(i - 1) : t[k] \notin Leaving
          BY <2>1, <2>3, <3>1
        <4>. QED BY <4>1, <4>2 DEF HasView
      <3>2. CASE j # 1
        <4>1. j - 1 \in 1..(i - 1) /\ t[j - 1] = s[j - 1 + 1] /\ j - 1 + 1 = j
          BY <2>1, <3>2
        <4>2. \A k \in 1..(i - 1) : j - 1 < k => t[k] \notin Leaving
          BY <2>1, <2>3
        <4>. QED BY <2>3, <4>1, <4>2 DEF HasView
      <3>. QED BY <3>1, <3>2
    <2>. QED BY <1>2, <2>2, <2>3 DEF HasView
  <1>3. ASSUME NEW i \in 1..Len(t), t[i] = "leave" PROVE HasView(m, t, i)
    <2>1. i + 1 \in 1..Len(s) /\ s[i + 1] = "leave"
      BY <1>1, <1>3
    <2>2. HasView(n, s, i + 1)
      BY <2>1 DEF Asks
    <2>3. i \in 1..(Len(t) + 1)
      BY <1>1
    <2>. QED BY <1>2, <2>2, <2>3
  <1>4. ASSUME in PROVE HasView(m, t, Len(t) + 1)
    <2>1. HasView(n, s, Len(t) + 1 + 1) /\ Len(t) + 1 \in 1..(Len(t) + 1)
      BY <1>1, <1>4 DEF Asks
    <2>. QED BY <1>2, <2>1
  <1>5. Head(s) = "leave" => n > 0
    <2>1. Head(s) = "leave" => HasView(n, s, 1)
      BY <1>1 DEF Asks
    <2>. QED BY <2>1 DEF HasView
  <1>. QED BY <1>3, <1>4, <1>5 DEF Asks, t

\* Each leave on its way has a view before it, counted or on its way too.
LEMMA AskKept ==
  ASSUME ConnTypes, AskInv, [ConnNext]_connVars
  PROVE  AskInv'
  <1>1. SentInv /\ ReaderTypes /\ CountTypes /\ EngineTypes
    BY DEF ConnTypes
  <1>. USE <1>1
  <1>2. /\ \A d \in Conn : Counted(d) \in Nat /\ frames[d] \in Seq(Frame) /\ views[d] \in Nat
        /\ fails \in Nat
    BY ConnAssumption DEF Counted, CountTypes, SentInv, EngineTypes
  <1>3. ASSUME fails' = fails, UNCHANGED <<frames, scope>>,
               \A d \in Conn : conn'[d] \in {"open", "done"} =>
                 /\ conn[d] \in {"open", "done"} /\ Counted(d)' = Counted(d)
                 /\ reader'[d] = "leave" => reader[d] = "leave" /\ views'[d] = views[d]
        PROVE  AskInv'
    BY <1>3 DEF AskInv
  <1>4. CASE EngineStarts \/ EngineEnds \/ AgentCmd \/ UNCHANGED connVars
    <2>1. UNCHANGED <<fails, frames, scope, conn, reader, views>>
      BY <1>4 DEF EngineStarts, EngineEnds, Stopped, AgentCmd, connVars, session, closing, client
    <2>. QED BY <1>3, <2>1 DEF Counted
  <1>5. ASSUME NEW c \in Conn, Client(c) PROVE AskInv'
    <2>1. UNCHANGED <<reader, views, conn, fails>>
      BY <1>5, ClientSends DEF closing, session
    <2>2. \A d \in Conn : Counted(d)' = Counted(d)
      BY <2>1 DEF Counted
    <2>3. PICK frame \in Frame : /\ Sends(c, frame)
                                 /\ frame = "leave" => c \in scope
                                 /\ c \in scope' => frame = "view" \/ (c \in scope /\ frame \notin Leaving)
                                 /\ \A d \in Conn : d # c => (d \in scope' <=> d \in scope)
      BY <1>5 DEF Client, Enters, LeavesView, AsksAgain, Exits, Follows, Frame, Leaving
    <2>4. /\ frames'[c] = Append(frames[c], frame) /\ conn[c] = "open"
          /\ \A d \in Conn : d # c => frames'[d] = frames[d]
      BY <2>3, SendsOne
    <2>5. ASSUME fails' = 0, NEW d \in Conn, conn'[d] \in {"open", "done"}
          PROVE  Asks(Counted(d)', frames'[d], d \in scope') /\ (reader'[d] = "leave" => views'[d] > 0)
      <3>1. Asks(Counted(d), frames[d], d \in scope) /\ (reader[d] = "leave" => views[d] > 0)
        BY <2>1, <2>5 DEF AskInv
      <3>2. CASE d = c
        <4>1. Asks(Counted(d), Append(frames[d], frame), d \in scope')
          BY <1>2, <2>3, <3>1, <3>2, AskAppend
        <4>. QED BY <2>1, <2>2, <2>4, <3>1, <3>2, <4>1
      <3>3. CASE d # c
        BY <2>1, <2>2, <2>3, <2>4, <3>1, <3>3 DEF Asks
      <3>. QED BY <3>2, <3>3
    <2>. QED BY <2>5 DEF AskInv
  <1>6. ASSUME NEW c \in Conn, Serves(c) PROVE AskInv'
    <2>1. ASSUME NEW frame, NEW to, Handles(c, frame, to), fails' = fails, conn' = conn,
                 \A d \in Conn : d # c => views'[d] = views[d],
                 frame = "view" => Counted(c)' > 0, frame \notin Leaving => Counted(c)' >= Counted(c),
                 Counted(c)' \in Nat, to = "leave" => frame = "leave" /\ views'[c] = views[c]
          PROVE  AskInv'
      <3>1. /\ frames[c] # <<>> /\ Head(frames[c]) = frame /\ frames'[c] = Tail(frames[c])
            /\ reader[c] = "read" /\ reader'[c] = to /\ scope' = scope
            /\ \A d \in Conn : d # c => frames'[d] = frames[d] /\ reader'[d] = reader[d]
        BY <2>1, HandlesOne
      <3>2. \A d \in Conn : d # c => Counted(d)' = Counted(d)
        BY <2>1, <3>1 DEF Counted
      <3>3. ASSUME fails' = 0, NEW d \in Conn, conn'[d] \in {"open", "done"}
            PROVE  Asks(Counted(d)', frames'[d], d \in scope') /\ (reader'[d] = "leave" => views'[d] > 0)
        <4>1. Asks(Counted(d), frames[d], d \in scope) /\ (reader[d] = "leave" => views[d] > 0)
          BY <2>1, <3>3 DEF AskInv
        <4>2. CASE d = c
          <5>1. Asks(Counted(c)', Tail(frames[c]), c \in scope) /\ (frame = "leave" => Counted(c) > 0)
            BY <1>2, <2>1, <3>1, <4>1, <4>2, AskTail
          <5>2. Counted(c) = views[c]
            BY <3>1 DEF Counted
          <5>. QED BY <2>1, <3>1, <4>2, <5>1, <5>2
        <4>3. CASE d # c
          BY <2>1, <3>1, <3>2, <4>1, <4>3
        <4>. QED BY <4>2, <4>3
      <3>. QED BY <3>3 DEF AskInv
    <2>2. ASSUME NEW frame \in {"view", "leave"}, Forwards(c, frame) PROVE AskInv'
      <3>1. Handles(c, frame, frame) /\ fails' = fails /\ conn' = conn /\ views' = views
        BY <2>2 DEF Forwards, closing
      <3>2. reader'[c] = frame
        BY <3>1, HandlesOne
      <3>3. views[c] \in Nat /\ views'[c] = views[c]
        BY <3>1 DEF CountTypes
      <3>4. Counted(c)' \in Nat /\ (frame = "view" => Counted(c)' > 0) /\ (frame \notin Leaving => frame = "view")
        BY <2>2, <3>2, <3>3 DEF Counted, Leaving
      <3>5. frame = "view" => Counted(c)' >= Counted(c)
        <4>1. reader[c] = "read"
          BY <3>1, HandlesOne
        <4>. QED BY <3>2, <3>3, <4>1 DEF Counted
      <3>. QED BY <2>1, <3>1, <3>3, <3>4, <3>5
    <2>3. CASE ForwardFails(c)
      <3>1. fails' # 0
        BY <1>2, <2>3 DEF ForwardFails, CannotRun
      <3>. QED BY <3>1 DEF AskInv
    <2>4. ASSUME NEW frame, NEW to, to \notin {"view", "leave"}, frame # "view", Handles(c, frame, to),
                 UNCHANGED <<views, conn, fails>>
          PROVE  AskInv'
      <3>1. reader[c] = "read" /\ reader'[c] = to
        BY <2>4, HandlesOne
      <3>2. Counted(c)' = Counted(c)
        BY <2>4, <3>1 DEF Counted
      <3>. QED BY <1>2, <2>1, <2>4, <3>2
    <2>5. CASE Subscribe(c) \/ Detach(c)
      BY <2>4, <2>5 DEF Subscribe, Detach, closing, session
    <2>6. CASE Leave(c)
      <3>1. Handles(c, "exit", "leaves") /\ views' = [views EXCEPT ![c] = 0] /\ fails' = fails /\ conn' = conn
        BY <2>6 DEF Leave, closing, session
      <3>2. views'[c] = 0 /\ \A d \in Conn : d # c => views'[d] = views[d]
        BY <3>1 DEF CountTypes
      <3>3. reader'[c] = "leaves"
        BY <3>1, HandlesOne
      <3>4. Counted(c)' = 0 /\ "exit" \in Leaving
        BY <3>2, <3>3 DEF Counted, Leaving
      <3>. QED BY <2>1, <3>1, <3>2, <3>4
    <2>7. CASE CountView(c)
      <3>1. UNCHANGED <<frames, scope, conn, fails>>
        BY <2>7 DEF CountView, client, closing
      <3>2. reader'[c] = "read" /\ \A d \in Conn : d # c => reader'[d] = reader[d] /\ views'[d] = views[d]
        BY <2>7, StepsOne DEF CountView, CountTypes
      <3>3. Counted(c)' = Counted(c)
        <4>1. CASE Steps(c, "view", "read") /\ views' = [views EXCEPT ![c] = views[c] + 1]
          <5>1. reader[c] = "view" /\ views'[c] = views[c] + 1
            BY <4>1, StepsOne DEF CountTypes
          <5>. QED BY <3>2, <5>1 DEF Counted
        <4>2. CASE Steps(c, "leave", "read") /\ views' = [views EXCEPT ![c] = IF views[c] > 0 THEN views[c] - 1 ELSE 0]
          <5>1. reader[c] = "leave" /\ views'[c] = IF views[c] > 0 THEN views[c] - 1 ELSE 0
            BY <4>2, StepsOne DEF CountTypes
          <5>. QED BY <1>2, <3>2, <5>1 DEF Counted
        <4>. QED BY <2>7, <4>1, <4>2 DEF CountView
      <3>4. \A d \in Conn : Counted(d)' = Counted(d)
        BY <3>2, <3>3 DEF Counted
      <3>. QED BY <1>3, <3>1, <3>2, <3>4
    <2>8. CASE EnsureRunning(c) /\ CannotRun
      <3>1. fails' # 0
        BY <1>2, <2>8 DEF CannotRun
      <3>. QED BY <3>1 DEF AskInv
    <2>9. CASE Register(c) \/ (EnsureRunning(c) /\ fails' = fails) \/ LeaveGoes(c)
      <3>1. UNCHANGED <<frames, scope, conn, fails, views>>
        BY <2>9 DEF Register, EnsureRunning, LeaveGoes, client, closing, session
      <3>2. /\ \A d \in Conn : d # c => reader'[d] = reader[d]
            /\ reader[c] \in {"register", "run", "leaves"} /\ reader'[c] \in {"run", "read"}
        BY <2>9, StepsOne DEF Register, EnsureRunning, LeaveGoes
      <3>3. \A d \in Conn : Counted(d)' = Counted(d)
        BY <3>1, <3>2 DEF Counted
      <3>. QED BY <1>3, <3>1, <3>2, <3>3
    <2>10. CASE LeaveSends(c) \/ LeaveAsks(c) \/ LeaveStops(c) \/ FallsBehind(c) \/ CloseSends(c)
      <3>1. UNCHANGED <<frames, scope, conn, fails, views, reader>>
        BY <2>10 DEF LeaveSends, SendLeave, LeaveAsks, LeaveStops, Stopped, FallsBehind,
           CloseSends, client,
             closing, session
      <3>. QED BY <1>3, <3>1 DEF Counted
    <2>11. CASE ReaderEnds(c)
      <3>1. UNCHANGED <<frames, scope, fails, views>> /\ Steps(c, "read", "over")
            /\ conn' = [conn EXCEPT ![c] = IF conn[c] = "open" THEN "done" ELSE conn[c]]
        BY <2>11 DEF ReaderEnds, client, session
      <3>2. /\ \A d \in Conn : d # c => reader'[d] = reader[d] /\ conn'[d] = conn[d]
            /\ reader[c] = "read" /\ reader'[c] = "over"
            /\ conn'[c] = IF conn[c] = "open" THEN "done" ELSE conn[c]
        BY <3>1, StepsOne DEF CountTypes
      <3>3. \A d \in Conn : Counted(d)' = Counted(d)
        BY <3>1, <3>2 DEF Counted
      <3>. QED BY <1>3, <3>1, <3>2, <3>3
    <2>12. CASE Closes(c) \/ CloseEnds(c)
      <3>1. UNCHANGED <<frames, scope, fails, views, reader>>
        BY <2>12 DEF Closes, CloseEnds, client, session
      <3>2. \A d \in Conn : conn'[d] \in {"open", "done"} => conn[d] \in {"open", "done"}
        BY <2>12 DEF Closes, CloseEnds, CountTypes
      <3>. QED BY <1>3, <3>1, <3>2 DEF Counted
    <2>13. CASE Sweeps(c)
      <3>1. UNCHANGED <<frames, scope, fails, reader>> /\ views' = [views EXCEPT ![c] = 0]
            /\ conn' = [conn EXCEPT ![c] = "swept"]
        BY <2>13 DEF Sweeps, client, session
      <3>2. conn'[c] = "swept" /\ \A d \in Conn : d # c => views'[d] = views[d] /\ conn'[d] = conn[d]
        BY <3>1 DEF CountTypes
      <3>. QED BY <1>3, <3>1, <3>2 DEF Counted
    <2>14. EnsureRunning(c) => CannotRun \/ fails' = fails
      BY DEF EnsureRunning
    <2>. QED BY <1>6, <2>2, <2>3, <2>5, <2>6, <2>7, <2>8, <2>9, <2>10, <2>11, <2>12, <2>13, <2>14 DEF Serves
  <1>. QED BY <1>4, <1>5, <1>6 DEF ConnNext

-----------------------------------------------------------------------------
(* Sums *)

\* Induction: of natural numbers that a statement fails for there is a smallest.
LEMMA Smallest ==
  ASSUME NEW T, T \subseteq Nat, T # {}
  PROVE  \E n \in T : \A k \in T : n <= k
  <1>. DEFINE R == OpToRel(<, Nat)
  <1>1. IsWellFoundedOn(R, Nat)
    BY NatLessThanWellFounded
  <1>2. \A i, j \in Nat : i < j => <<i, j>> \in R
    BY DEF OpToRel
  <1>. HIDE DEF R
  <1>3. PICK n \in T : \A y \in T : ~(<<y, n>> \in R)
    BY <1>1, WFMin
  <1>4. ASSUME NEW k \in T PROVE n <= k
    <2>1. n \in Nat /\ k \in Nat
      OBVIOUS
    <2>2. ~(k < n)
      BY <1>2, <1>3, <2>1
    <2>. QED BY <2>1, <2>2
  <1>. QED BY <1>4

\* The sum of a function's values, as the library defines it: a recursive function
\* on the subsets of its domain.
Pick(s) == CHOOSE x \in s : TRUE
Adds(f, g, s) == IF s = {} THEN 0 ELSE f[Pick(s)] + g[s \ {Pick(s)}]
SumRec(f, g) == g = [s \in SUBSET DOMAIN f |-> Adds(f, g, s)]

\* The library's sum is that function, of the whole domain.
LEMMA SumIs == ASSUME NEW f PROVE SumFunction(f) = (CHOOSE g : SumRec(f, g))[DOMAIN f]
  BY Zenon DEF SumFunction, SumFunctionOnSet, FoldFunctionOnSet, MapThenFoldSet, SumRec, Adds, Pick

\* What is left when one is taken out.
LEMMA Less ==
  ASSUME NEW D, IsFiniteSet(D), NEW s \in SUBSET D, s # {}
  PROVE  /\ Pick(s) \in s /\ Pick(s) \in D /\ s \ {Pick(s)} \in SUBSET D
         /\ Cardinality(s) \in Nat /\ Cardinality(s \ {Pick(s)}) = Cardinality(s) - 1
         /\ Cardinality(s) # 0 /\ Cardinality(s \ {Pick(s)}) \in Nat
  <1>1. Pick(s) \in s
    BY Zenon DEF Pick
  <1>2. IsFiniteSet(s)
    BY FS_Subset
  <1>3. Cardinality(s) \in Nat /\ Cardinality(s \ {Pick(s)}) = Cardinality(s) - 1
    BY <1>1, <1>2, FS_RemoveElement, FS_CardinalityType
  <1>4. Cardinality(s) # 0
    BY <1>1, <1>2, FS_EmptySet
  <1>5. Cardinality(s \ {Pick(s)}) \in Nat
    BY <1>2, FS_Difference, FS_CardinalityType
  <1>. QED BY <1>1, <1>3, <1>4, <1>5

\* There is such a function: no smallest size of subsets is beyond it.
LEMMA SumExists ==
  ASSUME NEW f, IsFiniteSet(DOMAIN f)
  PROVE  \E g : SumRec(f, g)
  <1>. DEFINE D == DOMAIN f
              Upto(n, g) == g = [s \in SUBSET D |-> g[s]] /\ \A s \in SUBSET D : Cardinality(s) <= n => g[s] = Adds(f, g, s)
              T == {n \in Nat : ~\E g : Upto(n, g)}
  <1>1. Upto(0, [s \in SUBSET D |-> 0])
    <2>1. ASSUME NEW s \in SUBSET D, Cardinality(s) <= 0 PROVE s = {}
      <3>1. s # {} => Cardinality(s) \in Nat /\ Cardinality(s) # 0
        BY Less
      <3>. QED BY <2>1, <3>1
    <2>. QED BY <2>1 DEF Adds
  <1>2. ASSUME NEW n \in Nat, NEW g, Upto(n, g)
        PROVE  Upto(n + 1, [s \in SUBSET D |-> Adds(f, g, s)])
    <2>. DEFINE h == [s \in SUBSET D |-> Adds(f, g, s)]
    <2>1. ASSUME NEW s \in SUBSET D, Cardinality(s) <= n + 1 PROVE h[s] = Adds(f, h, s)
      <3>1. CASE s = {}
        BY <3>1 DEF Adds
      <3>2. CASE s # {}
        <4>. DEFINE t == s \ {Pick(s)}
        <4>1. t \in SUBSET D /\ Cardinality(t) <= n
          BY <2>1, <3>2, Less
        <4>2. g[t] = Adds(f, g, t) /\ h[t] = Adds(f, g, t)
          BY <1>2, <4>1
        <4>. HIDE DEF h
        <4>3. g[t] = h[t]
          BY <4>2
        <4>4. h[s] = Adds(f, g, s)
          BY DEF h
        <4>. QED BY <3>2, <4>3, <4>4 DEF Adds
      <3>. QED BY <3>1, <3>2
    <2>2. h = [s \in SUBSET D |-> h[s]]
      OBVIOUS
    <2>. HIDE DEF h
    <2>3. Upto(n + 1, h)
      BY <2>1, <2>2
    <2>. QED BY <2>3 DEF h
  <1>. HIDE DEF Upto
  <1>3. T = {}
    <2>. SUFFICES ASSUME T # {} PROVE FALSE
      OBVIOUS
    <2>1. PICK n \in T : \A k \in T : n <= k
      BY Smallest
    <2>2. n # 0
      BY <1>1
    <2>3. n - 1 \in Nat /\ n - 1 \notin T
      BY <2>1, <2>2
    <2>4. PICK g : Upto(n - 1, g)
      BY <2>3
    <2>5. Upto(n - 1 + 1, [s \in SUBSET D |-> Adds(f, g, s)])
      BY <1>2, <2>3, <2>4
    <2>. QED BY <2>1, <2>5
  <1>4. Cardinality(D) \in Nat
    BY FS_CardinalityType
  <1>5. PICK g : Upto(Cardinality(D), g)
    BY <1>3, <1>4
  <1>6. \A s \in SUBSET D : Cardinality(s) <= Cardinality(D)
    BY FS_Subset
  <1>7. SumRec(f, g)
    <2>1. g = [s \in SUBSET D |-> g[s]] /\ \A s \in SUBSET D : g[s] = Adds(f, g, s)
      BY <1>5, <1>6 DEF Upto
    <2>2. [s \in SUBSET D |-> g[s]] = [s \in SUBSET D |-> Adds(f, g, s)]
      BY <2>1
    <2>. QED BY <2>1, <2>2 DEF SumRec
  <1>. QED BY <1>7

\* A sum, with one of its numbers changed.
LEMMA SumExcept ==
  ASSUME NEW S, IsFiniteSet(S), NEW f \in [S -> Nat], NEW c \in S, NEW v \in Nat
  PROVE  /\ SumFunction(f) \in Nat
         /\ SumFunction([f EXCEPT ![c] = v]) + f[c] = SumFunction(f) + v
  <1>. DEFINE h == [f EXCEPT ![c] = v]
              F == CHOOSE g : SumRec(f, g)
              H == CHOOSE g : SumRec(h, g)
              Same(s) == /\ F[s] \in Nat /\ H[s] \in Nat
                         /\ IF c \in s THEN H[s] + f[c] = F[s] + v ELSE H[s] = F[s]
  <1>1. DOMAIN f = S /\ DOMAIN h = S /\ h[c] = v /\ \A i \in S : f[i] \in Nat /\ (i # c => h[i] = f[i])
    OBVIOUS
  <1>. HIDE DEF h
  <1>2. SumRec(f, F)
    <2>1. \E g : SumRec(f, g)
      BY <1>1, SumExists
    <2>. QED BY <2>1, Zenon
  <1>3. SumRec(h, H)
    <2>1. \E g : SumRec(h, g)
      BY <1>1, SumExists
    <2>. QED BY <2>1, Zenon
  <1>. HIDE DEF F, H
  <1>4. \A s \in SUBSET S : F[s] = Adds(f, F, s) /\ H[s] = Adds(h, H, s)
    BY <1>1, <1>2, <1>3 DEF SumRec
  <1>5. ASSUME NEW s \in SUBSET S, s # {} => Same(s \ {Pick(s)}) PROVE Same(s)
    <2>1. CASE s = {}
      <3>1. F[s] = 0 /\ H[s] = 0
        BY <1>4, <2>1 DEF Adds
      <3>2. c \notin s
        BY <2>1
      <3>. QED BY <3>1, <3>2
    <2>2. CASE s # {}
      <3>. DEFINE x == Pick(s)
                  t == s \ {x}
      <3>1. x \in s /\ x \in S
        BY <2>2, Less
      <3>2. F[s] = f[x] + F[t] /\ H[s] = h[x] + H[t]
        BY <1>4, <2>2 DEF Adds
      <3>3. f[x] \in Nat /\ (x # c => h[x] = f[x])
        BY <1>1, <3>1
      <3>4. Same(t) /\ (c \in t <=> c \in s /\ x # c)
        BY <1>5, <2>2
      <3>. HIDE DEF x, t
      <3>5. CASE x = c
        BY <1>1, <3>1, <3>2, <3>3, <3>4, <3>5
      <3>6. CASE x # c
        BY <1>1, <3>1, <3>2, <3>3, <3>4, <3>6
      <3>. QED BY <3>5, <3>6
    <2>. QED BY <2>1, <2>2
  <1>. HIDE DEF Same
  <1>6. \A s \in SUBSET S : Same(s)
    <2>. DEFINE T == {n \in Nat : \E s \in SUBSET S : Cardinality(s) = n /\ ~Same(s)}
    <2>. SUFFICES ASSUME NEW s \in SUBSET S, ~Same(s) PROVE FALSE
      OBVIOUS
    <2>1. Cardinality(s) \in Nat
      BY FS_Subset, FS_CardinalityType
    <2>2. T # {}
      BY <2>1
    <2>3. PICK n \in T : \A k \in T : n <= k
      BY <2>2, Smallest
    <2>4. PICK r \in SUBSET S : Cardinality(r) = n /\ ~Same(r)
      BY <2>3
    <2>5. r # {} /\ ~Same(r \ {Pick(r)})
      BY <1>5, <2>4
    <2>6. /\ r \ {Pick(r)} \in SUBSET S /\ Cardinality(r \ {Pick(r)}) \in Nat
          /\ Cardinality(r \ {Pick(r)}) = n - 1
      BY <2>4, <2>5, Less
    <2>7. n - 1 \in T
      BY <2>5, <2>6
    <2>. QED BY <2>3, <2>7
  <1>7. SumFunction(f) = F[S] /\ SumFunction(h) = H[S]
    BY <1>1, SumIs DEF F, H
  <1>8. Same(S)
    BY <1>6
  <1>. QED BY <1>7, <1>8 DEF Same, h

\* Nothing adds up to nothing.
LEMMA SumZero ==
  ASSUME NEW S, IsFiniteSet(S)
  PROVE  SumFunction([c \in S |-> 0]) = 0
  <1>. DEFINE f == [c \in S |-> 0]
              F == CHOOSE g : SumRec(f, g)
  <1>1. DOMAIN f = S /\ \A i \in S : f[i] = 0
    OBVIOUS
  <1>. HIDE DEF f
  <1>2. SumRec(f, F)
    <2>1. \E g : SumRec(f, g)
      BY <1>1, SumExists
    <2>. QED BY <2>1, Zenon
  <1>. HIDE DEF F
  <1>3. \A s \in SUBSET S : F[s] = Adds(f, F, s)
    BY <1>1, <1>2 DEF SumRec
  <1>4. \A s \in SUBSET S : F[s] = 0
    <2>. DEFINE T == {n \in Nat : \E s \in SUBSET S : Cardinality(s) = n /\ F[s] # 0}
    <2>. SUFFICES ASSUME NEW s \in SUBSET S, F[s] # 0 PROVE FALSE
      OBVIOUS
    <2>1. Cardinality(s) \in Nat
      BY FS_Subset, FS_CardinalityType
    <2>2. T # {}
      BY <2>1
    <2>3. PICK n \in T : \A k \in T : n <= k
      BY <2>2, Smallest
    <2>4. PICK r \in SUBSET S : Cardinality(r) = n /\ F[r] # 0
      BY <2>3
    <2>5. r # {}
      BY <1>3, <2>4 DEF Adds
    <2>6. /\ r \ {Pick(r)} \in SUBSET S /\ Cardinality(r \ {Pick(r)}) \in Nat
          /\ Cardinality(r \ {Pick(r)}) = n - 1 /\ Pick(r) \in S
      BY <2>4, <2>5, Less
    <2>7. F[r] = f[Pick(r)] + F[r \ {Pick(r)}]
      BY <1>3, <2>5 DEF Adds
    <2>8. F[r \ {Pick(r)}] # 0
      BY <1>1, <2>4, <2>6, <2>7
    <2>9. n - 1 \in T
      BY <2>6, <2>8
    <2>. QED BY <2>3, <2>9
  <1>5. SumFunction(f) = F[S]
    BY <1>1, SumIs DEF F
  <1>. QED BY <1>4, <1>5 DEF f

-----------------------------------------------------------------------------
(* What the connections stand for *)

\* What a connection stands for is a number.
LEMMA StandType ==
  ASSUME CountTypes
  PROVE  /\ Stand \in [Conn -> Nat]
         /\ \A d \in Conn : /\ Counted(d) \in Nat /\ views[d] \in Nat /\ owed[d] \in Nat /\ left[d] \in Nat
                            /\ Stand[d] = Counted(d) + owed[d] + left[d]
  <1>1. ASSUME NEW d \in Conn PROVE Counted(d) \in Nat /\ views[d] \in Nat /\ owed[d] \in Nat /\ left[d] \in Nat
    BY DEF CountTypes, Counted
  <1>. QED BY <1>1 DEF Stand

\* The sum, when what one connection stands for changes.
LEMMA StandSum ==
  ASSUME CountTypes, NEW c \in Conn, NEW v \in Nat
  PROVE  /\ SumFunction(Stand) \in Nat /\ SumFunction(Stand) >= Stand[c]
         /\ SumFunction([Stand EXCEPT ![c] = v]) \in Nat
         /\ SumFunction([Stand EXCEPT ![c] = v]) + Stand[c] = SumFunction(Stand) + v
  <1>. DEFINE f == Stand
  <1>1. f \in [Conn -> Nat] /\ f[c] \in Nat /\ IsFiniteSet(Conn)
    BY StandType, ConnAssumption
  <1>. HIDE DEF f
  <1>2. \A x \in Nat : [f EXCEPT ![c] = x] \in [Conn -> Nat]
    BY <1>1
  <1>3. \A x \in Nat : /\ SumFunction(f) \in Nat
                       /\ SumFunction([f EXCEPT ![c] = x]) + f[c] = SumFunction(f) + x
    BY <1>1, SumExcept
  <1>4. \A x \in Nat : SumFunction([f EXCEPT ![c] = x]) \in Nat
    BY <1>1, <1>2, SumExcept
  <1>5. SumFunction([f EXCEPT ![c] = 0]) \in Nat
        /\ SumFunction([f EXCEPT ![c] = 0]) + f[c] = SumFunction(f) + 0
    BY <1>3, <1>4
  <1>6. SumFunction(f) >= f[c]
    BY <1>1, <1>3, <1>5
  <1>. QED BY <1>3, <1>4, <1>6 DEF f

\* A sum of numbers is one.
LEMMA NatSum == ASSUME NEW f \in [Conn -> Nat] PROVE SumFunction(f) \in Nat
  <1>1. CASE Conn = {}
    <2>1. f = [c \in Conn |-> 0]
      BY <1>1
    <2>. QED BY <2>1, SumZero, ConnAssumption
  <1>2. CASE Conn # {}
    <2>1. PICK c \in Conn : TRUE
      BY <1>2
    <2>. QED BY SumExcept, ConnAssumption
  <1>. QED BY <1>1, <1>2

\* At first nobody watches, nothing is counted, and no leave is on its way.
LEMMA ConnInvInit == ConnInit => ConnInv
  <1>. SUFFICES ASSUME ConnInit PROVE ConnInv
    OBVIOUS
  <1>1. ConnTypes
    BY ConnTypesInit
  <1>2. AskInv
    <2>1. ASSUME NEW c \in Conn PROVE Asks(Counted(c), frames[c], c \in scope) /\ (reader[c] = "leave" => views[c] > 0)
      <3>1. frames[c] = <<>> /\ ~(c \in scope) /\ reader[c] = "read"
        BY DEF ConnInit
      <3>. QED BY <3>1 DEF Asks
    <2>. QED BY <2>1 DEF AskInv
  <1>3. WatchInv
    <2>1. Stand = [c \in Conn |-> 0]
      BY DEF ConnInit, Stand, Counted, Zero
    <2>2. SumFunction(Stand) = 0
      BY <2>1, SumZero, ConnAssumption
    <2>3. pipe = <<>> /\ watchers = 0 /\ Len(pipe) = 0
      BY DEF ConnInit
    <2>. DEFINE w == [k \in 0..0 |-> 0]
    <2>4. w \in [0..Len(pipe) -> Nat] /\ Drains(w) /\ w[Len(pipe)] = 0
      BY <2>3 DEF Drains
    <2>. HIDE DEF w
    <2>. QED BY <2>2, <2>4 DEF WatchInv
  <1>. QED BY <1>1, <1>2, <1>3 DEF ConnInv

\* Neither the pipe nor what is stood for changes.
LEMMA SameWatch ==
  ASSUME WatchInv, pipe' = pipe, watchers' = watchers, Undisturbed' => Undisturbed,
         \A d \in Conn : (Counted(d) + owed[d] + left[d])' = Counted(d) + owed[d] + left[d]
  PROVE  WatchInv'
  <1>1. Stand' = Stand
    BY DEF Stand
  <1>2. PICK w \in [0..Len(pipe) -> Nat] :
          /\ Drains(w) /\ w[Len(pipe)] <= SumFunction(Stand)
          /\ Undisturbed => w[Len(pipe)] = SumFunction(Stand)
    BY DEF WatchInv
  <1>3. Drains(w)'
    BY <1>2 DEF Drains
  <1>. QED BY <1>1, <1>2, <1>3 DEF WatchInv

\* What is stood for grows when a close takes a view that a leave takes too.
LEMMA GrowWatch ==
  ASSUME CountTypes, WatchInv, pipe' = pipe, watchers' = watchers, ~Undisturbed',
         EngineTypes, NEW c \in Conn, NEW v \in Nat, v >= Stand[c], Stand' = [Stand EXCEPT ![c] = v]
  PROVE  WatchInv'
  <1>1. PICK w \in [0..Len(pipe) -> Nat] : Drains(w) /\ w[Len(pipe)] <= SumFunction(Stand)
    BY DEF WatchInv
  <1>2. Drains(w)'
    BY <1>1 DEF Drains
  <1>3. Len(pipe) \in 0..Len(pipe) /\ w[Len(pipe)] \in Nat /\ Stand[c] \in Nat
    <2>1. Len(pipe) \in Nat
      BY DEF EngineTypes
    <2>. QED BY <2>1, StandType
  <1>4. w[Len(pipe)] <= SumFunction(Stand')
    <2>1. SumFunction(Stand) \in Nat /\ SumFunction(Stand') \in Nat
          /\ SumFunction(Stand') + Stand[c] = SumFunction(Stand) + v
      BY StandSum
    <2>. QED BY <1>1, <1>3, <2>1
  <1>. QED BY <1>1, <1>2, <1>4 DEF WatchInv

\* A command more on the pipe.
LEMMA MoreWatch ==
  ASSUME CountTypes, EngineTypes, WatchInv, NEW c \in Conn, NEW v \in Nat, NEW frame \in {"view", "leave"},
         pipe' = Append(pipe, frame), watchers' = watchers, Stand' = [Stand EXCEPT ![c] = v],
         frame = "view" => v = Stand[c] + 1,
         frame = "leave" => v <= Stand[c] /\ v + 1 >= Stand[c],
         Undisturbed' => Undisturbed /\ (frame = "leave" => v + 1 = Stand[c])
  PROVE  WatchInv'
  <1>1. PICK w \in [0..Len(pipe) -> Nat] :
          /\ Drains(w) /\ w[Len(pipe)] <= SumFunction(Stand)
          /\ Undisturbed => w[Len(pipe)] = SumFunction(Stand)
    BY DEF WatchInv
  <1>20. Len(pipe) \in Nat
    BY DEF EngineTypes
  <1>21. PICK L \in Nat : L = Len(pipe)
    BY <1>20
  <1>22. PICK S : S = SumFunction(Stand)
    OBVIOUS
  <1>23. PICK S2 : S2 = SumFunction(Stand')
    OBVIOUS
  <1>. DEFINE x == [k \in 0..(L + 1) |-> IF k <= L THEN w[k] ELSE Watches(w[L], frame)]
  <1>2. L \in Nat /\ pipe' = Append(pipe, frame) /\ Len(pipe') = L + 1 /\ pipe'[L + 1] = frame
        /\ \A k \in 1..L : pipe'[k] = pipe[k]
    BY <1>21 DEF EngineTypes
  <1>3. w[L] \in Nat /\ L \in 0..L
    BY <1>21
  <1>4. Stand[c] \in Nat /\ S \in Nat /\ S >= Stand[c] /\ S2 \in Nat /\ S2 + Stand[c] = S + v
    BY <1>22, <1>23, StandSum, StandType
  <1>5. Watches(w[L], frame) \in Nat
    BY <1>3 DEF Watches
  <1>6. x \in [0..Len(pipe') -> Nat]
    <2>1. ASSUME NEW k \in 0..(L + 1) PROVE (IF k <= L THEN w[k] ELSE Watches(w[L], frame)) \in Nat
      BY <1>2, <1>5
    <2>. QED BY <1>2, <2>1
  <1>7. /\ x[L + 1] = Watches(w[L], frame) /\ x[0] = w[0]
        /\ \A k \in 0..L : x[k] = w[k]
    BY <1>2
  <1>. HIDE DEF x
  <1>8. Drains(x)'
    <2>1. x[0] = watchers'
      BY <1>1, <1>7 DEF Drains
    <2>2. ASSUME NEW k \in 1..(L + 1) PROVE x[k] = Watches(x[k - 1], pipe'[k])
      <3>1. CASE k = L + 1
        <4>1. k - 1 = L /\ x[L] = w[L]
          BY <1>2, <1>3, <1>7, <3>1
        <4>. QED BY <1>2, <1>7, <3>1, <4>1
      <3>2. CASE k # L + 1
        <4>1. k \in 1..L /\ k \in 0..L /\ k - 1 \in 0..L
          BY <1>2, <3>2
        <4>2. w[k] = Watches(w[k - 1], pipe[k])
          BY <1>1, <1>21, <4>1 DEF Drains
        <4>. QED BY <1>2, <1>7, <4>1, <4>2
      <3>. QED BY <3>1, <3>2
    <2>. QED BY <1>2, <2>1, <2>2 DEF Drains
  <1>9. x[L + 1] <= S2 /\ (Undisturbed' => x[L + 1] = S2)
    <2>1. w[L] <= S /\ (Undisturbed => w[L] = S)
      BY <1>1, <1>21, <1>22
    <2>2. CASE frame = "view"
      <3>1. x[L + 1] = w[L] + 1
        BY <1>7, <2>2 DEF Watches
      <3>2. v = Stand[c] + 1
        BY <2>2
      <3>3. S2 = S + 1
        BY <1>4, <3>2
      <3>4. x[L + 1] <= S2 /\ (w[L] = S => x[L + 1] = S2)
        BY <1>3, <1>4, <2>1, <3>1, <3>3
      <3>. QED BY <2>1, <3>4
    <2>3. CASE frame = "leave"
      <3>1. x[L + 1] = IF w[L] > 0 THEN w[L] - 1 ELSE 0
        BY <1>7, <2>3 DEF Watches
      <3>2. v <= Stand[c] /\ v + 1 >= Stand[c] /\ (Undisturbed' => Undisturbed /\ v + 1 = Stand[c])
        BY <2>3
      <3>3. S2 <= S /\ S2 + 1 >= S /\ (v + 1 = Stand[c] => S2 + 1 = S /\ S > 0)
        BY <1>4, <3>2
      <3>4. x[L + 1] <= S2 /\ (w[L] = S /\ v + 1 = Stand[c] => x[L + 1] = S2)
        BY <1>3, <1>4, <2>1, <3>1, <3>3
      <3>. QED BY <2>1, <3>2, <3>4
    <2>. QED BY <2>2, <2>3
  <1>. QED BY <1>2, <1>6, <1>8, <1>9, <1>23 DEF WatchInv

\* The engine is down: nothing is on its pipe.
LEMMA DownWatch ==
  ASSUME CountTypes', pipe' = <<>>, watchers' = 0, ~Undisturbed'
  PROVE  WatchInv'
  <1>. DEFINE w == [k \in 0..0 |-> 0]
  <1>1. w \in [0..Len(pipe') -> Nat] /\ Drains(w)' /\ w[Len(pipe')] = 0
    BY DEF Drains
  <1>. HIDE DEF w
  <1>2. Stand' \in [Conn -> Nat]
    <2>1. ASSUME NEW d \in Conn PROVE (Counted(d) + owed[d] + left[d])' \in Nat
      BY DEF CountTypes, Counted
    <2>. QED BY <2>1 DEF Stand
  <1>4. SumFunction(Stand') \in Nat
    BY <1>2, NatSum
  <1>3. w[Len(pipe')] <= SumFunction(Stand')
    BY <1>1, <1>4
  <1>. QED BY <1>1, <1>3 DEF WatchInv

\* The engine reads a command.
LEMMA CmdWatch ==
  ASSUME CountTypes, EngineTypes, WatchInv, AgentCmd
  PROVE  WatchInv'
  <1>1. PICK w \in [0..Len(pipe) -> Nat] :
          /\ Drains(w) /\ w[Len(pipe)] <= SumFunction(Stand)
          /\ Undisturbed => w[Len(pipe)] = SumFunction(Stand)
    BY DEF WatchInv
  <1>2. Len(pipe) \in Nat \ {0} /\ pipe' = Tail(pipe)
    BY DEF AgentCmd, EngineTypes
  <1>3. PICK L \in Nat : Len(pipe) = L + 1
    <2>1. Len(pipe) - 1 \in Nat /\ Len(pipe) = (Len(pipe) - 1) + 1
      BY <1>2
    <2>. QED BY <2>1
  <1>4. Len(pipe') = L /\ Head(pipe) = pipe[1] /\ \A k \in 1..L : pipe'[k] = pipe[k + 1]
    BY <1>2, <1>3 DEF EngineTypes
  <1>. DEFINE x == [k \in 0..L |-> w[k + 1]]
  <1>5. x \in [0..L -> Nat] /\ x[L] = w[L + 1] /\ \A k \in 0..L : x[k] = w[k + 1]
    BY <1>3
  <1>. HIDE DEF x
  <1>6. Drains(x)'
    <2>1. x[0] = watchers'
      <3>1. w[0] = watchers /\ w[1] = Watches(w[0], pipe[1])
        <4>1. 1 \in 1..Len(pipe) /\ 1 - 1 = 0
          BY <1>3
        <4>. QED BY <1>1, <4>1 DEF Drains
      <3>2. watchers' = Watches(watchers, Head(pipe))
        BY DEF AgentCmd, Watches
      <3>3. x[0] = w[0 + 1] /\ 0 + 1 = 1
        BY <1>5
      <3>. QED BY <1>4, <3>1, <3>2, <3>3
    <2>2. ASSUME NEW k \in 1..L PROVE x[k] = Watches(x[k - 1], pipe'[k])
      <3>1. k + 1 \in 1..Len(pipe) /\ k \in 0..L /\ k - 1 \in 0..L /\ (k - 1) + 1 = k /\ (k + 1) - 1 = k
        BY <1>3
      <3>2. w[k + 1] = Watches(w[k], pipe[k + 1])
        BY <1>1, <3>1 DEF Drains
      <3>. QED BY <1>4, <1>5, <3>1, <3>2
    <2>. QED BY <1>4, <2>1, <2>2 DEF Drains
  <1>7. Stand' = Stand /\ (Undisturbed' => Undisturbed)
    BY DEF AgentCmd, Stand, Counted, Undisturbed, closing
  <1>. QED BY <1>1, <1>3, <1>4, <1>5, <1>6, <1>7 DEF WatchInv

\* What came to pass stays so.
LEMMA CalmBefore ==
  ASSUME EngineTypes, engine' = engine \/ Starts, fails' = fails \/ fails' # 0, late => late',
         \A d \in Conn : reader[d] = "leave" =>
            \/ conn[d] \in {"open", "done"}
            \/ reader'[d] = "leave" /\ conn'[d] \notin {"open", "done"}
            \/ late'
  PROVE  Undisturbed' /\ fails' = fails => Undisturbed
  <1>. SUFFICES ASSUME Undisturbed', fails' = fails PROVE Undisturbed
    OBVIOUS
  <1>1. engine.n \in Nat /\ (engine.up => engine.n > 0)
    BY ConnAssumption DEF EngineTypes
  <1>2. engine.n = 0 \/ (engine.n = 1 /\ engine.up)
    <2>1. CASE engine' = engine
      BY <2>1 DEF Undisturbed
    <2>2. CASE Starts
      BY <1>1, <2>2 DEF Undisturbed, Starts
    <2>. QED BY <2>1, <2>2
  <1>. QED BY <1>2 DEF Undisturbed

\* No view is counted, and nothing is sent.
LEMMA QuietWatch ==
  ASSUME EngineTypes, WatchInv, UNCHANGED <<pipe, watchers, views, owed, left, late>>,
         engine' = engine \/ Starts, fails' = fails \/ (fails' # 0 /\ engine' = engine),
         \A d \in Conn : \/ reader'[d] = reader[d]
                         \/ {reader[d], reader'[d]} \intersect {"view", "leave"} = {},
         \A d \in Conn : conn'[d] \in {"open", "done"} => conn[d] \in {"open", "done"}
  PROVE  WatchInv'
  <1>1. \A d \in Conn : (Counted(d) + owed[d] + left[d])' = Counted(d) + owed[d] + left[d]
    BY DEF Counted
  <1>2. Undisturbed' => fails' = fails \/ fails = 0
    BY DEF Undisturbed
  <1>3. Undisturbed' => fails' = fails
    BY DEF Undisturbed
  <1>4. \A d \in Conn : reader[d] = "leave" =>
            \/ conn[d] \in {"open", "done"}
            \/ reader'[d] = "leave" /\ conn'[d] \notin {"open", "done"}
            \/ late'
    OBVIOUS
  <1>5. Undisturbed' => Undisturbed
    BY <1>3, <1>4, CalmBefore
  <1>. QED BY <1>1, <1>5, SameWatch

\* The engine stops.
LEMMA StoppedWatch ==
  ASSUME EngineTypes, CountTypes', WatchInv, Stopped, UNCHANGED <<reader, views, closing, left>>
  PROVE  WatchInv'
  <1>1. engine' = [engine EXCEPT !.up = FALSE] /\ pipe' = <<>> /\ watchers' = 0 /\ fails' = fails /\ late' = late
        /\ engine \in [n : 0..MaxEngines, up : BOOLEAN]
    BY DEF Stopped, EngineTypes
  <1>2. engine'.n = engine.n /\ engine'.up = FALSE
    BY <1>1
  <1>3. CASE engine.n = 0
    <2>1. pipe = <<>> /\ watchers = 0 /\ engine.up = FALSE
      BY <1>3 DEF EngineTypes
    <2>2. Undisturbed' => Undisturbed
      BY <1>1, <1>2, <2>1 DEF Undisturbed, closing
    <2>. QED BY <1>1, <2>1, <2>2, SameWatch DEF Counted, closing
  <1>4. CASE engine.n # 0
    <2>1. ~Undisturbed'
      BY <1>2, <1>4 DEF Undisturbed
    <2>. QED BY <1>1, <2>1, DownWatch
  <1>. QED BY <1>3, <1>4

\* A leave is sent, if the engine runs, by one who owes it.
LEMMA LeaveWatch ==
  ASSUME CountTypes, EngineTypes, CountTypes', WatchInv, SendLeave, NEW c \in Conn,
         UNCHANGED <<reader, views, conn>>,
         \/ owed[c] > 0 /\ owed' = [owed EXCEPT ![c] = owed[c] - 1] /\ left' = left
         \/ left[c] > 0 /\ left' = [left EXCEPT ![c] = left[c] - 1] /\ owed' = owed
  PROVE  WatchInv'
  <1>1. Stand[c] \in Nat /\ Stand[c] > 0 /\ Stand[c] - 1 \in Nat
    BY StandType
  <1>2. Stand' = [Stand EXCEPT ![c] = Stand[c] - 1]
    <2>1. \A d \in Conn : Counted(d)' = Counted(d) /\ Counted(d) \in Nat
      BY StandType DEF Counted
    <2>2. /\ \/ owed[c] > 0 /\ owed'[c] = owed[c] - 1 /\ left'[c] = left[c]
             \/ left[c] > 0 /\ left'[c] = left[c] - 1 /\ owed'[c] = owed[c]
          /\ \A d \in Conn : d # c => owed'[d] = owed[d] /\ left'[d] = left[d]
      BY DEF CountTypes
    <2>3. Counted(c)' + owed'[c] + left'[c] = Stand[c] - 1
      BY <2>1, <2>2, StandType
    <2>4. \A d \in Conn : d # c => Counted(d)' + owed'[d] + left'[d] = Stand[d]
      BY <2>1, <2>2, StandType
    <2>5. Stand' = [d \in Conn |-> Counted(d)' + owed'[d] + left'[d]]
      BY DEF Stand
    <2>6. [Stand EXCEPT ![c] = Stand[c] - 1] = [d \in Conn |-> IF d = c THEN Stand[c] - 1 ELSE Stand[d]]
      BY StandType
    <2>. QED BY <2>3, <2>4, <2>5, <2>6
  <1>3. engine' = engine /\ watchers' = watchers /\ fails' = fails /\ late' = late
    BY DEF SendLeave
  <1>4. Undisturbed' => Undisturbed
    BY <1>3 DEF Undisturbed
  <1>5. CASE engine.up
    <2>1. pipe' = Append(pipe, "leave")
      BY <1>5 DEF SendLeave
    <2>2. Stand[c] - 1 <= Stand[c] /\ (Stand[c] - 1) + 1 = Stand[c] /\ (Stand[c] - 1) + 1 >= Stand[c]
      BY <1>1
    <2>. QED BY <1>1, <1>2, <1>3, <1>4, <2>1, <2>2, MoreWatch
  <1>6. CASE ~engine.up
    <2>1. pipe' = <<>> /\ pipe = <<>> /\ watchers' = 0 /\ watchers = 0
      BY <1>3, <1>6 DEF SendLeave, EngineTypes
    <2>2. PICK w \in [0..Len(pipe) -> Nat] :
            /\ Drains(w) /\ (Undisturbed => w[Len(pipe)] = SumFunction(Stand))
      BY DEF WatchInv
    <2>3. w[Len(pipe)] = 0
      BY <2>1, <2>2 DEF Drains
    <2>4. SumFunction(Stand) \in Nat /\ SumFunction(Stand) >= Stand[c]
      BY StandSum, <1>1
    <2>5. ~Undisturbed'
      BY <1>1, <1>4, <2>2, <2>3, <2>4
    <2>. QED BY <2>1, <2>5, DownWatch
  <1>. QED BY <1>5, <1>6

\* What one connection stands for.
LEMMA StandOne ==
  ASSUME CountTypes, NEW c \in Conn, NEW v \in Nat, Counted(c)' + owed'[c] + left'[c] = v,
         \A d \in Conn : d # c => /\ reader'[d] = reader[d] /\ views'[d] = views[d]
                                  /\ owed'[d] = owed[d] /\ left'[d] = left[d]
  PROVE  Stand' = [Stand EXCEPT ![c] = v]
  <1>1. \A d \in Conn : d # c => Counted(d)' + owed'[d] + left'[d] = Stand[d]
    BY StandType DEF Counted
  <1>2. Stand' = [d \in Conn |-> Counted(d)' + owed'[d] + left'[d]]
    BY DEF Stand
  <1>3. [Stand EXCEPT ![c] = v] = [d \in Conn |-> IF d = c THEN v ELSE Stand[d]]
    BY StandType
  <1>. QED BY <1>1, <1>2, <1>3

\* A view or a leave is forwarded, and stood for before it is counted.
LEMMA ForwardsWatch ==
  ASSUME ConnTypes, AskInv', WatchInv, NEW c \in Conn, NEW frame \in {"view", "leave"}, Forwards(c, frame)
  PROVE  WatchInv'
  <1>. USE DEF ConnTypes
  <1>1. /\ Handles(c, frame, frame) /\ pipe' = Append(pipe, frame) /\ (engine' = engine \/ Starts)
        /\ UNCHANGED <<watchers, fails, late, views, conn, owed, left>>
    BY DEF Forwards, Runs, closing
  <1>2. reader[c] = "read" /\ reader'[c] = frame /\ \A d \in Conn : d # c => reader'[d] = reader[d]
    BY <1>1, HandlesOne
  <1>3. Counted(c) = views[c] /\ views[c] \in Nat /\ owed[c] \in Nat /\ left[c] \in Nat
        /\ Stand[c] = views[c] + owed[c] + left[c]
    BY <1>2, StandType DEF Counted
  <1>4. Undisturbed' => Undisturbed
    BY <1>1, <1>2, CalmBefore
  <1>5. CASE frame = "view"
    <2>1. Counted(c)' + owed'[c] + left'[c] = Stand[c] + 1 /\ Stand[c] + 1 \in Nat
      BY <1>1, <1>2, <1>3, <1>5 DEF Counted
    <2>2. Stand' = [Stand EXCEPT ![c] = Stand[c] + 1]
      BY <1>1, <1>2, <2>1, StandOne
    <2>. QED BY <1>1, <1>4, <1>5, <2>1, <2>2, MoreWatch
  <1>6. CASE frame = "leave"
    <2>. DEFINE v == IF views[c] > 0 THEN Stand[c] - 1 ELSE Stand[c]
    <2>1. Counted(c)' + owed'[c] + left'[c] = v /\ v \in Nat
      BY <1>1, <1>2, <1>3, <1>6 DEF Counted
    <2>2. v <= Stand[c] /\ v + 1 >= Stand[c]
      BY <1>3
    <2>3. Undisturbed' => v + 1 = Stand[c]
      <3>1. Undisturbed' => fails' = 0 /\ conn'[c] \in {"open", "done"}
        BY <1>2, <1>6 DEF Undisturbed
      <3>2. Undisturbed' => views'[c] > 0
        BY <1>2, <1>6, <3>1 DEF AskInv
      <3>. QED BY <1>1, <1>3, <3>2
    <2>. HIDE DEF v
    <2>4. Stand' = [Stand EXCEPT ![c] = v]
      BY <1>1, <1>2, <2>1, StandOne
    <2>. QED BY <1>1, <1>4, <1>6, <2>1, <2>2, <2>3, <2>4, MoreWatch
  <1>. QED BY <1>5, <1>6

\* The count that follows changes nothing that is stood for.
LEMMA CountWatch ==
  ASSUME ConnTypes, WatchInv, NEW c \in Conn, CountView(c)
  PROVE  WatchInv'
  <1>. USE DEF ConnTypes
  <1>1. UNCHANGED <<conn, owed, left, engine, pipe, watchers, fails>> /\ views[c] \in Nat
    BY DEF CountView, closing, CountTypes
  <1>2. CASE Steps(c, "view", "read") /\ views' = [views EXCEPT ![c] = views[c] + 1] /\ late' = late
    <2>1. /\ reader[c] = "view" /\ reader'[c] = "read" /\ views'[c] = views[c] + 1
          /\ \A d \in Conn : d # c => reader'[d] = reader[d] /\ views'[d] = views[d]
      BY <1>2, StepsOne DEF CountTypes
    <2>2. \A d \in Conn : Counted(d)' = Counted(d)
      BY <2>1 DEF Counted
    <2>3. Undisturbed' => Undisturbed
      BY <1>1, <1>2, <2>1, CalmBefore
    <2>. QED BY <1>1, <2>2, <2>3, SameWatch
  <1>3. CASE /\ Steps(c, "leave", "read")
             /\ views' = [views EXCEPT ![c] = IF views[c] > 0 THEN views[c] - 1 ELSE 0]
             /\ late' = (late \/ conn[c] \in {"swept", "gone"})
    <2>1. /\ reader[c] = "leave" /\ reader'[c] = "read"
          /\ views'[c] = IF views[c] > 0 THEN views[c] - 1 ELSE 0
          /\ \A d \in Conn : d # c => reader'[d] = reader[d] /\ views'[d] = views[d]
      BY <1>3, StepsOne DEF CountTypes
    <2>2. \A d \in Conn : Counted(d)' = Counted(d)
      BY <1>1, <2>1 DEF Counted
    <2>3. conn[c] \in {"open", "done"} \/ late'
      BY <1>3 DEF CountTypes
    <2>4. Undisturbed' => Undisturbed
      BY <1>1, <1>3, <2>1, <2>3, CalmBefore
    <2>. QED BY <1>1, <2>2, <2>4, SameWatch
  <1>. QED BY <1>2, <1>3 DEF CountView

\* A client that leaves owes the leaves of all its views.
LEMMA LeaveTakesWatch ==
  ASSUME ConnTypes, WatchInv, NEW c \in Conn, Leave(c)
  PROVE  WatchInv'
  <1>. USE DEF ConnTypes
  <1>1. /\ Handles(c, "exit", "leaves") /\ UNCHANGED <<conn, owed, engine, pipe, watchers, fails, late>>
        /\ left' = [left EXCEPT ![c] = views[c]] /\ views' = [views EXCEPT ![c] = 0]
    BY DEF Leave, closing, session
  <1>2. reader[c] = "read" /\ reader'[c] = "leaves" /\ \A d \in Conn : d # c => reader'[d] = reader[d]
    BY <1>1, HandlesOne
  <1>3. /\ left'[c] = views[c] /\ views'[c] = 0
        /\ \A d \in Conn : d # c => left'[d] = left[d] /\ views'[d] = views[d]
    BY <1>1 DEF CountTypes
  <1>4. left[c] = 0 /\ views[c] \in Nat /\ owed[c] \in Nat
    BY <1>2 DEF OwesInv, CountTypes
  <1>5. (Counted(c) + owed[c] + left[c])' = Counted(c) + owed[c] + left[c]
    <2>1. Counted(c) = views[c] /\ Counted(c)' = 0
      BY <1>2, <1>3 DEF Counted
    <2>. QED BY <1>1, <1>3, <1>4, <2>1
  <1>6. \A d \in Conn : (Counted(d) + owed[d] + left[d])' = Counted(d) + owed[d] + left[d]
    BY <1>1, <1>2, <1>3, <1>5 DEF Counted
  <1>7. Undisturbed' => Undisturbed
    BY <1>1, <1>2, CalmBefore
  <1>. QED BY <1>1, <1>6, <1>7, SameWatch

\* A close owes them; one in the midst of a leave owes that one twice.
LEMMA SweepsWatch ==
  ASSUME ConnTypes, WatchInv, NEW c \in Conn, Sweeps(c)
  PROVE  WatchInv'
  <1>. USE DEF ConnTypes
  <1>1. /\ conn[c] = "done" /\ conn' = [conn EXCEPT ![c] = "swept"]
        /\ UNCHANGED <<reader, left, engine, pipe, watchers, fails, late>>
        /\ owed' = [owed EXCEPT ![c] = views[c]] /\ views' = [views EXCEPT ![c] = 0]
    BY DEF Sweeps, session
  <1>2. /\ owed'[c] = views[c] /\ views'[c] = 0 /\ conn'[c] = "swept"
        /\ \A d \in Conn : d # c => owed'[d] = owed[d] /\ views'[d] = views[d] /\ conn'[d] = conn[d]
    BY <1>1 DEF CountTypes
  <1>3. owed[c] = 0 /\ views[c] \in Nat /\ left[c] \in Nat
    BY <1>1 DEF OwesInv, CountTypes
  <1>4. CASE reader[c] = "leave" /\ views[c] > 0
    <2>1. Stand[c] = views[c] - 1 + left[c] /\ Stand[c] \in Nat
      BY <1>3, <1>4, StandType DEF Counted
    <2>2. Counted(c)' + owed'[c] + left'[c] = Stand[c] + 1 /\ Stand[c] + 1 \in Nat /\ Stand[c] + 1 >= Stand[c]
      BY <1>1, <1>2, <1>3, <1>4, <2>1 DEF Counted
    <2>3. Stand' = [Stand EXCEPT ![c] = Stand[c] + 1]
      BY <1>1, <1>2, <2>2, StandOne
    <2>4. ~Undisturbed'
      BY <1>1, <1>2, <1>4 DEF Undisturbed
    <2>. QED BY <1>1, <2>2, <2>3, <2>4, GrowWatch
  <1>5. CASE ~(reader[c] = "leave" /\ views[c] > 0)
    <2>1. (Counted(c) + owed[c] + left[c])' = Counted(c) + owed[c] + left[c]
      <3>1. reader[c] = "view" => Counted(c) = views[c] + 1 /\ Counted(c)' = 1
        BY <1>1, <1>2 DEF Counted
      <3>2. reader[c] # "view" => Counted(c) = views[c] /\ Counted(c)' = 0
        BY <1>1, <1>2, <1>5 DEF Counted
      <3>. QED BY <1>1, <1>2, <1>3, <3>1, <3>2
    <2>2. \A d \in Conn : (Counted(d) + owed[d] + left[d])' = Counted(d) + owed[d] + left[d]
      BY <1>1, <1>2, <2>1 DEF Counted
    <2>3. Undisturbed' => Undisturbed
      BY <1>1, <1>2, CalmBefore
    <2>. QED BY <1>1, <2>2, <2>3, SameWatch
  <1>. QED BY <1>4, <1>5

\* Every step keeps the watchers within what is stood for.
LEMMA WatchKept ==
  ASSUME ConnTypes, ConnTypes', AskInv', WatchInv, [ConnNext]_connVars
  PROVE  WatchInv'
  <1>. USE DEF ConnTypes
  <1>1. CASE UNCHANGED connVars \/ EngineStarts \/ \E c \in Conn : Client(c)
    <2>1. UNCHANGED <<reader, views, closing, left, pipe, watchers, fails, late>>
          /\ (engine' = engine \/ Starts)
      BY <1>1, ClientSends DEF connVars, EngineStarts, session
    <2>2. UNCHANGED <<reader, views, conn, owed, left, pipe, watchers, fails, late>>
      BY <2>1 DEF closing
    <2>. QED BY <2>1, <2>2, QuietWatch
  <1>2. CASE EngineEnds
    BY <1>2, StoppedWatch DEF EngineEnds
  <1>3. CASE AgentCmd
    BY <1>3, CmdWatch
  <1>4. ASSUME NEW c \in Conn, Serves(c) PROVE WatchInv'
    <2>1. CASE LeaveStops(c)
      BY <2>1, StoppedWatch DEF LeaveStops
    <2>2. CASE LeaveSends(c)
      BY <2>2, LeaveWatch DEF LeaveSends, closing
    <2>3. CASE CloseSends(c)
      BY <2>3, LeaveWatch DEF CloseSends
    <2>4. CASE LeaveAsks(c) \/ FallsBehind(c) \/ Closes(c) \/ CloseEnds(c)
      <3>1. UNCHANGED <<reader, views, owed, left, engine, pipe, watchers, fails, late>>
        BY <2>4 DEF LeaveAsks, FallsBehind, Closes, CloseEnds, closing, session
      <3>2. \A d \in Conn : conn'[d] \in {"open", "done"} => conn[d] \in {"open", "done"}
        BY <2>4 DEF LeaveAsks, FallsBehind, Closes, CloseEnds, closing, CountTypes
      <3>. QED BY <3>1, <3>2, QuietWatch
    <2>5. CASE ReaderEnds(c)
      <3>1. UNCHANGED <<views, owed, left, engine, pipe, watchers, fails, late>> /\ Steps(c, "read", "over")
        BY <2>5 DEF ReaderEnds, session
      <3>2. \A d \in Conn : \/ reader'[d] = reader[d]
                            \/ {reader[d], reader'[d]} \intersect {"view", "leave"} = {}
        BY <3>1, StepsOne
      <3>3. \A d \in Conn : conn'[d] \in {"open", "done"} => conn[d] \in {"open", "done"}
        BY <2>5 DEF ReaderEnds, CountTypes
      <3>. QED BY <3>1, <3>2, <3>3, QuietWatch
    <2>6. CASE Subscribe(c) \/ Detach(c) \/ ForwardFails(c)
      <3>1. UNCHANGED <<views, conn, owed, left, pipe, watchers, late, engine>>
            /\ (fails' = fails \/ fails' # 0)
        BY <2>6 DEF Subscribe, Detach, ForwardFails, CannotRun, closing, session, EngineTypes
      <3>2. \E to \in {"read", "register"}, frame \in Frame : Handles(c, frame, to)
        BY <2>6 DEF Subscribe, Detach, ForwardFails, Frame
      <3>3. \A d \in Conn : \/ reader'[d] = reader[d]
                            \/ {reader[d], reader'[d]} \intersect {"view", "leave"} = {}
        BY <3>2, HandlesOne
      <3>. QED BY <3>1, <3>3, QuietWatch
    <2>7. CASE Register(c) \/ EnsureRunning(c) \/ LeaveGoes(c)
      <3>1. UNCHANGED <<views, conn, owed, left, pipe, watchers, late>>
            /\ (engine' = engine \/ Starts) /\ (fails' = fails \/ (fails' # 0 /\ engine' = engine))
        BY <2>7 DEF Register, EnsureRunning, LeaveGoes, Runs, CannotRun, closing, session,
           EngineTypes
      <3>2. \E from \in {"register", "run", "leaves"}, to \in {"run", "read"} : Steps(c, from, to)
        BY <2>7 DEF Register, EnsureRunning, LeaveGoes
      <3>3. \A d \in Conn : \/ reader'[d] = reader[d]
                            \/ {reader[d], reader'[d]} \intersect {"view", "leave"} = {}
        BY <3>2, StepsOne
      <3>. QED BY <3>1, <3>3, QuietWatch
    <2>. QED BY <1>4, <2>1, <2>2, <2>3, <2>4, <2>5, <2>6, <2>7, ForwardsWatch, CountWatch, LeaveTakesWatch,
             SweepsWatch DEF Serves
  <1>. QED BY <1>1, <1>2, <1>3, <1>4 DEF ConnNext

\* The invariant is inductive.
LEMMA ConnInductive == ConnInv /\ [ConnNext]_connVars => ConnInv'
  BY ConnTypesKept, AskKept, WatchKept DEF ConnInv

\* Types, and with them that a leave is owed only by a connection that was swept, or a
\* reader that sends it, and that no subscription outlives its connection's close,
\* except one in its reader's hand (server.go 172-196, 487-492).
THEOREM ConnTypeCorrect == ConnSpec => []TypeOK
  <1>1. ConnInv => TypeOK
    BY ConnTypeOK DEF ConnInv
  <1>. QED BY <1>1, ConnInvInit, ConnInductive, PTL DEF ConnSpec

\* When all is settled the sum is that of the counts.
LEMMA SettledWatch ==
  ASSUME ConnInv, Settled
  PROVE  /\ watchers \in Nat /\ SumFunction(views) \in Nat /\ watchers <= SumFunction(views)
         /\ Undisturbed => watchers = SumFunction(views)
  <1>1. CountTypes /\ EngineTypes
    BY DEF ConnInv, ConnTypes
  <1>2. \A d \in Conn : Counted(d) + owed[d] + left[d] = views[d]
    BY <1>1 DEF Settled, Counted, CountTypes
  <1>3. Stand = views
    BY <1>1, <1>2 DEF Stand, CountTypes
  <1>4. PICK w \in [0..Len(pipe) -> Nat] :
          /\ Drains(w) /\ w[Len(pipe)] <= SumFunction(Stand)
          /\ Undisturbed => w[Len(pipe)] = SumFunction(Stand)
    BY DEF ConnInv, WatchInv
  <1>5. Len(pipe) = 0 /\ w[0] = watchers
    BY <1>4 DEF Settled, Drains
  <1>6. SumFunction(views) \in Nat
    BY <1>1, NatSum DEF CountTypes
  <1>. QED BY <1>1, <1>3, <1>4, <1>5, <1>6 DEF EngineTypes

\* Whatever the connections, their frames, closes and leaves: when all is settled the
\* engine streams a child's entries only to viewers that are counted (server.go 172-175).
THEOREM NobodyWatchesAlone == ConnSpec => []NoOneWatches
  <1>1. ConnInv => NoOneWatches
    BY SettledWatch DEF NoOneWatches
  <1>. QED BY <1>1, ConnInvInit, ConnInductive, PTL DEF ConnSpec

\* While the first engine lives, and no connection was closed in the midst of a leave,
\* each view counted is one watcher: "two viewers do not end each other's"
\* (subagent.go 1492-1493).
THEOREM ViewersCounted == ConnSpec => []ViewersAreWatched
  <1>1. ASSUME ConnInv PROVE ViewersAreWatched
    <2>. SUFFICES ASSUME Settled, engine = [n |-> 1, up |-> TRUE], fails = 0, ~late
                  PROVE watchers = SumFunction(views)
      BY DEF ViewersAreWatched
    <2>1. Undisturbed
      BY DEF Settled, Undisturbed
    <2>. QED BY <1>1, <2>1, SettledWatch
  <1>. QED BY <1>1, ConnInvInit, ConnInductive, PTL DEF ConnSpec
=============================================================================

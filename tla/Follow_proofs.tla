--------------------------- MODULE Follow_proofs ---------------------------
(***************************************************************************)
(* That EventLog keeps its promises for every capacity, buffer, set of     *)
(* subscribers and set of types, and that Follow, which goes on with the   *)
(* log of EventLog, implements Feed for any log, any replay bound and any  *)
(* clients.                                                                *)
(*                                                                         *)
(* The log's promises rest on LogInv, what its ring holds of what was      *)
(* appended.  A client sees each event once and in order because what is   *)
(* on its way to it always begins where its cursor stands: either the      *)
(* replay and then the channel continue the cursor, or a snapshot goes     *)
(* first, at a place not before the cursor, with state at least as new as  *)
(* that place.                                                             *)
(***************************************************************************)
EXTENDS Follow, Integers, SequenceTheorems, WellFoundedInduction, TLAPS

-----------------------------------------------------------------------------
(* The ring's index arithmetic.                                             *)

LEMMA ModRange ==
  ASSUME NEW c \in Nat \ {0}, NEW a \in Nat
  PROVE  a % c \in 0..(c - 1)
OBVIOUS

LEMMA DivMod ==
  ASSUME NEW c \in Nat \ {0}, NEW a \in Nat
  PROVE  a \div c \in Int /\ a = c * (a \div c) + (a % c)
OBVIOUS

\* Two numbers less than c apart have different remainders.
LEMMA ModDiff ==
  ASSUME NEW c \in Nat \ {0}, NEW a \in Nat, NEW b \in Nat, a < b, b < a + c
  PROVE  a % c # b % c
<1> DEFINE qa == a \div c
           qb == b \div c
<1>1. qa \in Int /\ a = c * qa + (a % c)
  BY DivMod
<1>2. qb \in Int /\ b = c * qb + (b % c)
  BY DivMod
<1>3. a % c \in Int
  BY ModRange
<1> HIDE DEF qa, qb
<1>4. SUFFICES ASSUME a % c = b % c PROVE FALSE
  OBVIOUS
<1>5. b - a = c * (qb - qa)
  <2>1. c * (qb - qa) = c * qb - c * qa
    BY <1>1, <1>2
  <2>2. QED
    BY <2>1, <1>1, <1>2, <1>3, <1>4
<1>6. CASE qb - qa <= 0
  <2>1. c * (qb - qa) <= 0
    BY <1>1, <1>2, <1>6
  <2>2. QED
    BY <2>1, <1>5
<1>7. CASE qb - qa >= 1
  <2>1. c * (qb - qa) >= c
    BY <1>1, <1>2, <1>7
  <2>2. QED
    BY <2>1, <1>5
<1>8. QED
  BY <1>1, <1>2, <1>6, <1>7

\* Numbers exactly c apart have the same remainder.
LEMMA ModPeriod ==
  ASSUME NEW c \in Nat \ {0}, NEW a \in Nat
  PROVE  (a + c) % c = a % c
<1> DEFINE qa == a \div c
           qb == (a + c) \div c
<1>1. qa \in Int /\ a = c * qa + (a % c)
  BY DivMod
<1>2. qb \in Int /\ a + c = c * qb + ((a + c) % c)
  BY DivMod
<1>3. a % c \in 0..(c - 1) /\ (a + c) % c \in 0..(c - 1)
  BY ModRange
<1> HIDE DEF qa, qb
<1>4. c * (qb - qa - 1) = (a % c) - ((a + c) % c)
  <2>1. c * (qb - qa - 1) = c * qb - c * qa - c
    BY <1>1, <1>2
  <2>2. QED
    BY <2>1, <1>1, <1>2, <1>3
<1>5. CASE qb - qa - 1 = 0
  BY <1>1, <1>2, <1>3, <1>4, <1>5
<1>6. CASE qb - qa - 1 >= 1
  <2>1. c * (qb - qa - 1) >= c
    BY <1>1, <1>2, <1>6
  <2>2. QED
    BY <2>1, <1>3, <1>4
<1>7. CASE qb - qa - 1 <= -1
  <2>1. c * (qb - qa - 1) <= -c
    BY <1>1, <1>2, <1>7
  <2>2. QED
    BY <2>1, <1>3, <1>4
<1>8. QED
  BY <1>1, <1>2, <1>5, <1>6, <1>7

LEMMA SlotRange ==
  ASSUME NEW q \in Nat \ {0}
  PROVE  Slot(q) \in 0..(Cap - 1)
BY CapAssumption, ModRange DEF Slot

LEMMA SlotDiff ==
  ASSUME NEW q \in Nat \ {0}, NEW r \in Nat, q < r, r < q + Cap
  PROVE  Slot(q) # Slot(r)
<1>1. q - 1 \in Nat /\ r - 1 \in Nat /\ q - 1 < r - 1 /\ r - 1 < (q - 1) + Cap
  BY CapAssumption
<1>2. QED
  BY <1>1, CapAssumption, ModDiff DEF Slot

LEMMA SlotPeriod ==
  ASSUME NEW q \in Nat \ {0}
  PROVE  Slot(q + Cap) = Slot(q)
<1>1. q - 1 \in Nat /\ (q + Cap) - 1 = (q - 1) + Cap
  BY CapAssumption
<1>2. QED
  BY <1>1, CapAssumption, ModPeriod DEF Slot

-----------------------------------------------------------------------------
(* Type correctness.                                                        *)

LEMMA InitTypeOK == Init => TypeOK
<1> USE CapAssumption DEF TypeOK, Last
<1>1. <<>> \in Seq(Event) /\ Len(<<>>) = 0
  OBVIOUS
<1>2. Init => hist \in Seq(Event) /\ Len(hist) = Last
  BY <1>1 DEF Init, LogInit
<1>3. Init => chan \in [Subscriber -> Seq(Event)]
  BY <1>1 DEF Init
<1>4. Init => /\ ring \in [0..(Cap - 1) -> Event \union {NoEvent}]
              /\ latest \in [StateType -> Event \union {NoEvent}]
  BY DEF Init, LogInit
<1>5. Init => next \in Nat \ {0} /\ at \in [Subscriber -> Nat]
  BY DEF Init, LogInit
<1>6. Init => closed \in BOOLEAN /\ live \subseteq Subscriber
  BY DEF Init, LogInit
<1>7. Init => err \in [Subscriber -> {"nil", "slow", "closed"}]
  BY DEF Init
<1>8. QED
  BY <1>2, <1>3, <1>4, <1>5, <1>6, <1>7

\* The log's operations, for any place a subscription is asked from: what follows
\* holds of them however Follow or another caller chooses it.
LogStep ==
  \/ \E type \in Type : AppendEvent(type)
  \/ \E s \in Subscriber : \/ \E after \in Nat : Subscribed(s, after)
                         \/ Receive(s) \/ Unsubscribe(s)
  \/ Close

LEMMA NextIsLogStep == TypeOK /\ Next => LogStep
BY DEF TypeOK, Next, LogStep, Subscribe, Last

LEMMA LogStepTypeOK ==
  ASSUME TypeOK, LogStep
  PROVE  TypeOK'
<1> USE CapAssumption DEF TypeOK, Last, logVars, subVars
<1>1. ASSUME NEW type \in Type, AppendEvent(type)
      PROVE  TypeOK'
  <2> DEFINE ev == [seq |-> next, type |-> type]
  <2>1. ev \in Event
    BY DEF Event
  <2>2. Offer(ev)
    BY <1>1 DEF AppendEvent
  <2>3. /\ live' \subseteq Subscriber
        /\ chan' \in [Subscriber -> Seq(Event)]
        /\ err' \in [Subscriber -> {"nil", "slow", "closed"}]
    BY <2>1, <2>2, AppendProperties DEF Offer
  <2>4. latest' \in [StateType -> Event \union {NoEvent}]
    BY <1>1, <2>1 DEF AppendEvent
  <2>5. ring' \in [0..(Cap - 1) -> Event \union {NoEvent}]
    BY <1>1, <2>1 DEF AppendEvent
  <2>6. hist' \in Seq(Event) /\ Len(hist') = next' - 1 /\ next' \in Nat \ {0}
    BY <1>1, <2>1, AppendProperties DEF AppendEvent
  <2>7. QED
    BY <1>1, <2>3, <2>4, <2>5, <2>6 DEF AppendEvent
<1>2. ASSUME NEW s \in Subscriber, NEW after, Subscribed(s, after)
      PROVE  TypeOK'
  BY <1>2 DEF Subscribed
<1>3. ASSUME NEW s \in Subscriber, Receive(s)
      PROVE  TypeOK'
  <2>1. Tail(chan[s]) \in Seq(Event) /\ Head(chan[s]) \in Event
    BY <1>3, HeadTailProperties DEF Receive
  <2>2. QED
    BY <1>3, <2>1 DEF Receive, Event
<1>4. ASSUME NEW s \in Subscriber, Unsubscribe(s)
      PROVE  TypeOK'
  BY <1>4 DEF Unsubscribe
<1>5. ASSUME Close
      PROVE  TypeOK'
  BY <1>5 DEF Close
<1>6. QED
  BY <1>1, <1>2, <1>3, <1>4, <1>5 DEF LogStep

LEMMA NextTypeOK == TypeOK /\ [Next]_vars => TypeOK'
<1>1. TypeOK /\ UNCHANGED vars => TypeOK'
  BY DEF TypeOK, Last, vars, logVars, subVars
<1>2. QED
  BY <1>1, NextIsLogStep, LogStepTypeOK

\* The type invariant holds in every behaviour, and the auxiliary history has
\* exactly the events numbered so far.
THEOREM TypeCorrect == Spec => []TypeOK
<1>1. QED
  BY InitTypeOK, NextTypeOK, PTL DEF Spec

-----------------------------------------------------------------------------
(* The inductive invariant. A replay reads the ring through Slot, so it is  *)
(* right only if each of the last Cap seqs sits in its own slot, and a gap  *)
(* is real only if the ring holds nothing older.                            *)

HistNumbered == \A q \in 1..Last : hist[q].seq = q

RingKeepsNewest == \A q \in Oldest..Last : ring[Slot(q)] = hist[q]

RingOnlyNewest ==
  \A i \in 0..(Cap - 1) :
    ring[i].seq # 0 => ring[i].seq \in Oldest..Last /\ Slot(ring[i].seq) = i

LogInv == HistNumbered /\ RingKeepsNewest /\ RingOnlyNewest

IInv == TypeOK /\ LogInv /\ NoGapNoRepeat /\ LatestIsCurrent

\* Facts about the step every part of the invariant needs.
LEMMA AppendFacts ==
  ASSUME TypeOK, NEW type \in Type, AppendEvent(type)
  PROVE  LET ev == [seq |-> next, type |-> type] IN
         /\ ev \in Event /\ ev.seq = next
         /\ next \in Nat \ {0} /\ next' = next + 1 /\ Last = next - 1 /\ Last' = next
         /\ hist'[next] = ev
         /\ \A q \in 1..Last : hist'[q] = hist[q]
<1> DEFINE ev == [seq |-> next, type |-> type]
<1>1. ev \in Event
  BY DEF TypeOK, Event
<1>2. /\ \A i \in 1..Len(hist) : Append(hist, ev)[i] = hist[i]
      /\ Append(hist, ev)[Len(hist) + 1] = ev
  BY <1>1, AppendProperties DEF TypeOK
<1>3. QED
  BY <1>1, <1>2 DEF AppendEvent, TypeOK, Last

LEMMA OldestFacts ==
  ASSUME TypeOK
  PROVE  /\ Oldest \in Nat \ {0}
         /\ Last < Oldest + Cap
         /\ Last > Cap => Oldest + Cap = next
         /\ Last = Cap => Oldest + Cap = next
BY CapAssumption DEF TypeOK, Oldest, Last

LEMMA LogInvStep ==
  ASSUME TypeOK, LogInv, NEW type \in Type, AppendEvent(type)
  PROVE  LogInv'
<1> DEFINE ev == [seq |-> next, type |-> type]
<1>1. /\ ev \in Event /\ ev.seq = next
      /\ next \in Nat \ {0} /\ next' = next + 1 /\ Last = next - 1 /\ Last' = next
      /\ hist'[next] = ev
      /\ \A q \in 1..Last : hist'[q] = hist[q]
  BY AppendFacts
<1>2. Slot(next) \in 0..(Cap - 1)
  BY <1>1, SlotRange
<1>3. /\ ring'[Slot(next)] = ev
      /\ \A i \in 0..(Cap - 1) : i # Slot(next) => ring'[i] = ring[i]
  BY <1>2 DEF AppendEvent, TypeOK
<1>4. /\ Oldest \in Nat \ {0} /\ Oldest' \in Nat \ {0}
      /\ Oldest' = IF next > Cap THEN next - Cap + 1 ELSE 1
      /\ Oldest <= Oldest'
      /\ Oldest' <= Oldest + 1
      /\ Oldest' # Oldest => Oldest = next - Cap
  BY <1>1, CapAssumption DEF Oldest
<1>5. HistNumbered'
  BY <1>1 DEF LogInv, HistNumbered
<1>6. RingKeepsNewest'
  <2> SUFFICES ASSUME NEW q \in Oldest'..Last' PROVE ring'[Slot(q)] = hist'[q]
    BY DEF RingKeepsNewest, Slot
  <2>1. CASE q = next
    BY <1>1, <1>3, <2>1
  <2>2. CASE q # next
    <3>1. q \in Nat \ {0} /\ q \in Oldest..Last /\ q < next /\ next < q + Cap
      BY <1>1, <1>4, <2>2, CapAssumption
    <3>2. Slot(q) # Slot(next) /\ Slot(q) \in 0..(Cap - 1)
      BY <1>1, <3>1, SlotDiff, SlotRange
    <3>3. QED
      BY <1>1, <1>3, <1>4, <3>1, <3>2 DEF LogInv, RingKeepsNewest
  <2>3. QED
    BY <2>1, <2>2
<1>7. RingOnlyNewest'
  <2> SUFFICES ASSUME NEW i \in 0..(Cap - 1), ring'[i].seq # 0
               PROVE  ring'[i].seq \in Oldest'..Last' /\ Slot(ring'[i].seq) = i
    BY DEF RingOnlyNewest, Slot
  <2>1. CASE i = Slot(next)
    BY <1>1, <1>3, <1>4, <2>1, CapAssumption
  <2>2. CASE i # Slot(next)
    <3>1. ring'[i] = ring[i]
      BY <1>3, <2>2
    <3>2. ring[i].seq \in Oldest..Last /\ Slot(ring[i].seq) = i
      BY <3>1 DEF LogInv, RingOnlyNewest
    <3>3. ASSUME Oldest' # Oldest PROVE ring[i].seq # Oldest
      <4>1. Oldest + Cap = next
        BY <1>1, <1>4, <3>3, CapAssumption
      <4>2. Slot(Oldest) = Slot(next)
        BY <1>4, <4>1, SlotPeriod
      <4>3. QED
        BY <2>2, <3>2, <4>2
    <3>4. QED
      BY <1>1, <1>4, <3>1, <3>2, <3>3
  <2>3. QED
    BY <2>1, <2>2
<1>8. QED
  BY <1>5, <1>6, <1>7 DEF LogInv

LEMMA StreamStep ==
  ASSUME TypeOK, HistNumbered, NoGapNoRepeat, LogStep
  PROVE  NoGapNoRepeat'
<1>1. ASSUME NEW type \in Type, AppendEvent(type)
      PROVE  NoGapNoRepeat'
  <2> DEFINE ev == [seq |-> next, type |-> type]
             slow == {s \in live : Len(chan[s]) >= Buffer}
  <2>1. /\ ev \in Event
        /\ next \in Nat \ {0} /\ Last = next - 1 /\ Last' = next
        /\ hist'[next] = ev
        /\ \A q \in 1..Last : hist'[q] = hist[q]
    BY <1>1, AppendFacts
  <2>2. /\ at' = at
        /\ live' = live \ slow
        /\ \A s \in Subscriber :
             chan'[s] = IF s \in live \ slow THEN Append(chan[s], ev) ELSE chan[s]
    BY <1>1 DEF AppendEvent, Offer
  <2> SUFFICES ASSUME NEW s \in Subscriber
               PROVE  /\ at'[s] + Len(chan'[s]) <= Last'
                      /\ \A i \in 1..Len(chan'[s]) : chan'[s][i] = hist'[at'[s] + i]
                      /\ s \in live' => at'[s] + Len(chan'[s]) = Last'
    BY DEF NoGapNoRepeat
  <2>3. /\ at[s] \in Nat /\ chan[s] \in Seq(Event) /\ Len(chan[s]) \in Nat
        /\ at[s] + Len(chan[s]) <= Last
        /\ \A i \in 1..Len(chan[s]) : chan[s][i] = hist[at[s] + i]
        /\ s \in live => at[s] + Len(chan[s]) = Last
    BY DEF TypeOK, NoGapNoRepeat
  <2>4. \A i \in 1..Len(chan[s]) : at[s] + i \in 1..Last
    BY <2>1, <2>3
  <2>5. CASE s \in live \ slow
    <3>0. /\ Len(Append(chan[s], ev)) = Len(chan[s]) + 1
          /\ \A i \in 1..Len(chan[s]) : Append(chan[s], ev)[i] = chan[s][i]
          /\ Append(chan[s], ev)[Len(chan[s]) + 1] = ev
      BY <2>1, <2>3, AppendProperties
    <3> HIDE DEF ev, slow
    <3>1. /\ Len(chan'[s]) = Len(chan[s]) + 1
          /\ \A i \in 1..Len(chan[s]) : chan'[s][i] = chan[s][i]
          /\ chan'[s][Len(chan[s]) + 1] = ev
      <4>1. chan'[s] = Append(chan[s], ev)
        BY <2>2, <2>5
      <4>2. QED
        BY <3>0, <4>1
    <3>2. at[s] + Len(chan'[s]) = Last'
      <4>1. at[s] + Len(chan[s]) = Last
        BY <2>3, <2>5
      <4>2. Len(chan'[s]) = Len(chan[s]) + 1
        BY <3>1
      <4>3. Last' = Last + 1 /\ at[s] \in Nat /\ Len(chan[s]) \in Nat /\ Last \in Int
        BY <2>1, <2>3
      <4>4. QED
        BY <4>1, <4>2, <4>3
    <3>3. ASSUME NEW i \in 1..Len(chan'[s]) PROVE chan'[s][i] = hist'[at[s] + i]
      <4>1. CASE i \in 1..Len(chan[s])
        BY <2>1, <2>3, <2>4, <3>1, <4>1
      <4>2. CASE i = Len(chan[s]) + 1
        BY <2>1, <2>3, <3>1, <3>2, <4>2
      <4>3. QED
        BY <2>3, <3>1, <3>3, <4>1, <4>2
    <3>4. QED
      BY <2>1, <2>2, <3>2, <3>3
  <2>6. CASE s \notin live \ slow
    <3>1. chan'[s] = chan[s] /\ at'[s] = at[s] /\ s \notin live'
      BY <2>2, <2>6
    <3>2. \A i \in 1..Len(chan[s]) : chan[s][i] = hist'[at[s] + i]
      BY <2>1, <2>3, <2>4
    <3>3. at[s] + Len(chan[s]) <= Last'
      BY <2>1, <2>3
    <3>4. QED
      BY <3>1, <3>2, <3>3
  <2>7. QED
    BY <2>5, <2>6
<1>2. ASSUME NEW s \in Subscriber, NEW after, Subscribed(s, after)
      PROVE  NoGapNoRepeat'
  <2>1. /\ chan' = [chan EXCEPT ![s] = <<>>] /\ at' = [at EXCEPT ![s] = Last]
        /\ live' = live \union {s} /\ Last' = Last /\ hist' = hist
    BY <1>2 DEF Subscribed, logVars, Last
  <2>2. Last \in Nat /\ Len(<<>>) = 0
    BY DEF TypeOK, Last
  <2>3. QED
    BY <2>1, <2>2 DEF TypeOK, NoGapNoRepeat
<1>3. ASSUME NEW s \in Subscriber, Receive(s)
      PROVE  NoGapNoRepeat'
  <2>1. /\ chan[s] # <<>> /\ chan[s] \in Seq(Event) /\ at[s] \in Nat /\ Last \in Nat
        /\ chan' = [chan EXCEPT ![s] = Tail(chan[s])]
        /\ at' = [at EXCEPT ![s] = Head(chan[s]).seq]
        /\ live' = live /\ Last' = Last /\ hist' = hist
    BY <1>3 DEF Receive, logVars, TypeOK, Last
  <2>2. /\ Len(chan[s]) \in Nat \ {0}
        /\ Len(Tail(chan[s])) = Len(chan[s]) - 1
        /\ \A i \in 1..(Len(chan[s]) - 1) : Tail(chan[s])[i] = chan[s][i + 1]
        /\ Head(chan[s]) = chan[s][1]
    BY <2>1, HeadTailProperties, LenProperties
  <2>3. /\ at[s] + Len(chan[s]) <= Last
        /\ \A i \in 1..Len(chan[s]) : chan[s][i] = hist[at[s] + i]
        /\ s \in live => at[s] + Len(chan[s]) = Last
    BY DEF NoGapNoRepeat
  <2>4. Head(chan[s]).seq = at[s] + 1
    <3>1. chan[s][1] = hist[at[s] + 1] /\ at[s] + 1 \in 1..Last
      BY <2>1, <2>2, <2>3
    <3>2. QED
      BY <2>2, <3>1 DEF HistNumbered
  <2>5. /\ at'[s] = at[s] + 1
        /\ Len(chan'[s]) = Len(chan[s]) - 1
        /\ \A i \in 1..Len(chan'[s]) : chan'[s][i] = hist[at'[s] + i]
    <3>1. at'[s] = at[s] + 1 /\ chan'[s] = Tail(chan[s])
      BY <2>1, <2>4 DEF TypeOK
    <3>2. ASSUME NEW i \in 1..Len(Tail(chan[s]))
          PROVE  Tail(chan[s])[i] = hist[(at[s] + 1) + i]
      <4>1. i + 1 \in 1..Len(chan[s]) /\ Tail(chan[s])[i] = chan[s][i + 1]
        BY <2>2
      <4>2. at[s] + (i + 1) = (at[s] + 1) + i
        <5>1. i \in Nat /\ at[s] \in Nat
          BY <2>1, <2>2
        <5>2. QED
          BY <5>1
      <4>3. \A j \in 1..Len(chan[s]) : chan[s][j] = hist[at[s] + j]
        BY <2>3
      <4>4. QED
        BY <4>1, <4>2, <4>3
    <3>3. QED
      BY <2>2, <3>1, <3>2
  <2>6. ASSUME NEW t \in Subscriber, t # s
        PROVE  at'[t] = at[t] /\ chan'[t] = chan[t]
    BY <2>1, <2>6 DEF TypeOK
  <2>7. ASSUME NEW t \in Subscriber
        PROVE  /\ at'[t] + Len(chan'[t]) <= Last
               /\ \A i \in 1..Len(chan'[t]) : chan'[t][i] = hist[at'[t] + i]
               /\ t \in live => at'[t] + Len(chan'[t]) = Last
    <3>1. CASE t = s
      BY <2>1, <2>2, <2>3, <2>5, <3>1
    <3>2. CASE t # s
      BY <2>6, <3>2 DEF NoGapNoRepeat
    <3>3. QED
      BY <3>1, <3>2
  <2>8. QED
    BY <2>1, <2>7 DEF NoGapNoRepeat
<1>4. ASSUME NEW s \in Subscriber, Unsubscribe(s)
      PROVE  NoGapNoRepeat'
  BY <1>4 DEF Unsubscribe, logVars, NoGapNoRepeat, Last
<1>5. ASSUME Close
      PROVE  NoGapNoRepeat'
  BY <1>5 DEF Close, NoGapNoRepeat, Last
<1>6. QED
  BY <1>1, <1>2, <1>3, <1>4, <1>5 DEF LogStep

LEMMA LatestStep ==
  ASSUME TypeOK, LatestIsCurrent, NEW type \in Type, AppendEvent(type)
  PROVE  LatestIsCurrent'
<1> DEFINE ev == [seq |-> next, type |-> type]
<1>1. /\ ev \in Event /\ ev.seq = next /\ ev.type = type
      /\ next \in Nat \ {0} /\ Last = next - 1 /\ Last' = next
      /\ hist'[next] = ev
      /\ \A q \in 1..Last : hist'[q] = hist[q]
  BY AppendFacts
<1> SUFFICES ASSUME NEW t \in StateType
             PROVE  /\ latest'[t].seq # 0 =>
                         /\ latest'[t].seq \in 1..Last' /\ hist'[latest'[t].seq] = latest'[t]
                         /\ latest'[t].type = t
                    /\ \A q \in 1..Last' : hist'[q].type = t => q <= latest'[t].seq
  BY DEF LatestIsCurrent
<1>2. /\ latest[t].seq # 0 => /\ latest[t].seq \in 1..Last /\ hist[latest[t].seq] = latest[t]
                               /\ latest[t].type = t
      /\ \A q \in 1..Last : hist[q].type = t => q <= latest[t].seq
  BY DEF LatestIsCurrent
<1>3. CASE t = type
  <2>1. latest'[t] = ev
    BY <1>3 DEF AppendEvent, TypeOK
  <2> HIDE DEF ev
  <2>2. latest'[t].seq = next /\ latest'[t].type = t /\ hist'[latest'[t].seq] = latest'[t]
    BY <1>1, <1>3, <2>1
  <2>3. QED
    BY <1>1, <2>2
<1>4. CASE t # type
  <2>1. latest'[t] = latest[t]
    BY <1>4 DEF AppendEvent, TypeOK
  <2>2. QED
    BY <1>1, <1>2, <1>4, <2>1
<1>5. QED
  BY <1>3, <1>4

-----------------------------------------------------------------------------
(* The theorems of the log                                                   *)

LEMMA InitIInv == Init => IInv
<1> SUFFICES ASSUME Init PROVE IInv
  OBVIOUS
<1>1. TypeOK
  BY InitTypeOK
<1>2. next = 1 /\ Last = 0 /\ Oldest = 1
  BY CapAssumption DEF Init, LogInit, Last, Oldest
<1>3. LogInv
  BY <1>2 DEF LogInv, HistNumbered, RingKeepsNewest, RingOnlyNewest, Init, LogInit, NoEvent
<1>4. NoGapNoRepeat /\ LatestIsCurrent
  BY <1>2 DEF NoGapNoRepeat, LatestIsCurrent, Init, LogInit, NoEvent
<1>5. QED
  BY <1>1, <1>3, <1>4 DEF IInv

\* What the invariant says of the log itself depends on nothing but the log.
LEMMA SameLogSameInv ==
  ASSUME LogInv, LatestIsCurrent, UNCHANGED <<next, ring, latest, hist>>
  PROVE  LogInv' /\ LatestIsCurrent'
BY DEF LogInv, HistNumbered, RingKeepsNewest, RingOnlyNewest, LatestIsCurrent, Oldest, Last, Slot

LEMMA LogStepIInv ==
  ASSUME IInv, LogStep
  PROVE  IInv'
<1> USE DEF IInv
<1>1. TypeOK' /\ NoGapNoRepeat'
  BY LogStepTypeOK, StreamStep DEF LogInv
<1>2. ASSUME NEW type \in Type, AppendEvent(type)
      PROVE  IInv'
  BY <1>1, <1>2, LogInvStep, LatestStep
<1>3. ASSUME UNCHANGED <<next, ring, latest, hist>>
      PROVE  IInv'
  BY <1>1, <1>3, SameLogSameInv
<1>4. QED
  BY <1>2, <1>3 DEF LogStep, Subscribed, Receive, Unsubscribe, Close, logVars

LEMMA StutterIInv ==
  ASSUME IInv, UNCHANGED vars
  PROVE  IInv'
<1>1. TypeOK' /\ NoGapNoRepeat'
  BY NextTypeOK DEF IInv, NoGapNoRepeat, Last, vars, logVars, subVars
<1>2. QED
  BY <1>1, SameLogSameInv DEF IInv, vars, logVars

THEOREM InductiveInvariant == Spec => []IInv
<1>1. IInv /\ [Next]_vars => IInv'
  BY StutterIInv, NextIsLogStep, LogStepIInv DEF IInv
<1>2. QED
  BY <1>1, InitIInv, PTL DEF Spec

\* "With no gap and no repeat between the two" (log.go 15-17), for every
\* capacity, buffer, and number of subscribers: what a subscription still has
\* to deliver continues exactly where its holder stopped.
THEOREM StreamExact == Spec => []NoGapNoRepeat
<1>1. IInv => NoGapNoRepeat
  BY DEF IInv
<1>2. QED
  BY <1>1, InductiveInvariant, PTL

\* The state a late client is given (Log.State) is the newest of each type.
THEOREM StateExact == Spec => []LatestIsCurrent
<1>1. IInv => LatestIsCurrent
  BY DEF IInv
<1>2. QED
  BY <1>1, InductiveInvariant, PTL

LEMMA InvReplay == IInv => ReplayFaithful
<1> SUFFICES ASSUME IInv, NEW after \in 0..Last
             PROVE  /\ Verdict(after) = "ok" =>
                         \A i \in 1..(Last - after) : Replay(after)[i] = hist[after + i]
                    /\ Verdict(after) = "gap" => \A i \in DOMAIN ring : ring[i].seq # after + 1
  BY DEF ReplayFaithful
<1>1. Last \in Nat /\ Oldest \in Nat /\ after \in Nat
  BY CapAssumption DEF IInv, TypeOK, Oldest, Last
<1>2. ASSUME Verdict(after) = "ok", NEW i \in 1..(Last - after)
      PROVE  Replay(after)[i] = hist[after + i]
  <2>1. after + i \in Oldest..Last
    BY <1>1, <1>2 DEF Verdict
  <2>2. QED
    BY <2>1 DEF Replay, IInv, LogInv, RingKeepsNewest
<1>3. ASSUME Verdict(after) = "gap"
      PROVE  \A i \in DOMAIN ring : ring[i].seq # after + 1
  <2>1. after + 1 < Oldest
    BY <1>3 DEF Verdict
  <2>2. DOMAIN ring = 0..(Cap - 1)
    BY DEF IInv, TypeOK
  <2>3. QED
    BY <1>1, <2>1, <2>2 DEF IInv, LogInv, RingOnlyNewest
<1>4. QED
  BY <1>2, <1>3

\* Log.Subscribe replays exactly the events asked for, and reports a gap only
\* for an event the ring really lost.
THEOREM ReplayExact == Spec => []ReplayFaithful
<1>1. QED
  BY InvReplay, InductiveInvariant, PTL

-----------------------------------------------------------------------------
(* Following the log                                                         *)

Snapshot == [after : Nat, state : [StateType -> Nat]]
Cursor == [epoch : Nat, after : Nat]

FollowTypes ==
  /\ epoch \in Nat \ {0}
  /\ pc \in [Subscriber -> {"off", "asked", "last", "state", "resub", "on"}]
  /\ cur \in [Subscriber -> Cursor]
  /\ shown \in [Subscriber -> [StateType -> Nat]]
  /\ snap \in [Subscriber -> Snapshot]
  /\ out \in [Subscriber -> Seq(Event \union Snapshot)]

\* A cursor is empty, of an epoch before, or on an event of this one.
CursorInv(c) ==
  /\ cur[c].epoch <= epoch
  /\ cur[c].epoch = 0 => cur[c].after = 0
  /\ cur[c].epoch = epoch => cur[c].after <= Last

\* A snapshot at n does not take client c back, and its state is as new as n.
NotBack(c, n) == cur[c].epoch = epoch => cur[c].after <= n

Covers(h, state, n) ==
  \A t \in StateType :
    /\ \A q \in 1..n : h[q].type = t => q <= state[t]
    /\ state[t] # 0 => state[t] \in 1..Len(h) /\ h[state[t]].type = t

\* What subscribe has read so far for a snapshot.
SnapInv(c) ==
  /\ pc[c] \in {"state", "resub"} => snap[c].after <= Last /\ NotBack(c, snap[c].after)
  /\ pc[c] = "resub" => Covers(hist, snap[c].state, snap[c].after)

\* The frames are the events of h after n, up to m.
Continues(h, frames, n, m) ==
  /\ n + Len(frames) = m
  /\ \A i \in 1..Len(frames) : frames[i] = h[n + i]

SnapshotFirst(c) ==
  /\ out[c] # <<>> /\ Head(out[c]) \in Snapshot
  /\ NotBack(c, Head(out[c]).after) /\ Covers(hist, Head(out[c]).state, Head(out[c]).after)
  /\ Continues(hist, Tail(out[c]), Head(out[c]).after, at[c])

CursorFirst(c) ==
  /\ cur[c].epoch \in {0, epoch}
  /\ Continues(hist, out[c], cur[c].after, at[c])

OutInv(c) == pc[c] = "on" => SnapshotFirst(c) \/ CursorFirst(c)

ClientInv(c) == CursorInv(c) /\ SnapInv(c) /\ OutInv(c)

\* The inductive invariant.
FollowInv == IInv /\ FollowTypes /\ \A c \in Subscriber : ClientInv(c)

-----------------------------------------------------------------------------
(* Events, snapshots and replays                                            *)

\* A frame is a snapshot or an event, and its reader can tell.
LEMMA FrameKinds ==
  /\ \A f \in Snapshot : "after" \in DOMAIN f /\ "seq" \notin DOMAIN f
  /\ \A f \in Event : "seq" \in DOMAIN f /\ "after" \notin DOMAIN f
BY DEF Snapshot, Event

LEMMA LogTypes ==
  ASSUME IInv
  PROVE  /\ TypeOK /\ Last \in Nat /\ Len(hist) = Last /\ hist \in Seq(Event)
         /\ \A q \in 1..Last : hist[q] \in Event /\ hist[q].seq = q
         /\ \A c \in Subscriber : at[c] \in 0..Last
<1>1. TypeOK /\ HistNumbered /\ NoGapNoRepeat
  BY DEF IInv, LogInv
<1>2. Last \in Nat /\ Len(hist) = Last /\ hist \in Seq(Event)
  BY <1>1 DEF TypeOK, Last
<1>3. \A q \in 1..Last : hist[q] \in Event /\ hist[q].seq = q
  BY <1>1, <1>2, ElementOfSeq DEF HistNumbered
<1>4. ASSUME NEW c \in Subscriber PROVE at[c] \in 0..Last
  <2>1. at[c] \in Nat /\ Len(chan[c]) \in Nat /\ at[c] + Len(chan[c]) <= Last
    BY <1>1 DEF TypeOK, NoGapNoRepeat
  <2> QED
    BY <2>1, <1>2
<1> QED
  BY <1>1, <1>2, <1>3, <1>4

\* What Subscribe answers "ok" for is replayed from the ring as it was written.
LEMMA ReplayFacts ==
  ASSUME IInv, NEW after \in Nat, Verdict(after) = "ok"
  PROVE  /\ after \in 0..Last
         /\ Replay(after) \in Seq(Event) /\ Len(Replay(after)) = Last - after
         /\ \A i \in 1..(Last - after) : Replay(after)[i] = hist[after + i]
<1>1. Last \in Nat /\ \A q \in 1..Last : hist[q] \in Event
  BY LogTypes
<1>2. after \in 0..Last
  BY <1>1 DEF Verdict
<1>3. \A i \in 1..(Last - after) : Replay(after)[i] = hist[after + i]
  BY <1>2, InvReplay DEF ReplayFaithful
<1>4. Replay(after) \in [1..(Last - after) -> Event]
  <2>1. \A i \in 1..(Last - after) : Replay(after)[i] \in Event
    BY <1>1, <1>2, <1>3
  <2>2. Replay(after) = [i \in 1..(Last - after) |-> Replay(after)[i]]
    BY DEF Replay
  <2> QED
    BY <2>1, <2>2
<1>5. Last - after \in Nat
  BY <1>1, <1>2
<1>6. Replay(after) \in Seq(Event)
  BY <1>4, <1>5, SeqDef
<1>7. Len(Replay(after)) = Last - after
  BY <1>4, <1>5, <1>6, LenProperties
<1> QED
  BY <1>2, <1>3, <1>6, <1>7

\* A nonempty set of numbers up to n has a greatest.
LEMMA Greatest ==
  ASSUME NEW n \in Nat, NEW Q \in SUBSET (1..n), Q # {}
  PROVE  \E q \in Q : \A r \in Q : r <= q
<1> DEFINE below == {n - q : q \in Q}
           less == OpToRel(<, Nat)
<1>1. below \subseteq Nat /\ below # {}
  <2>1. PICK p \in Q : TRUE
    OBVIOUS
  <2>2. n - p \in below
    BY <2>1
  <2>3. \A q \in Q : n - q \in Nat
    OBVIOUS
  <2> QED
    BY <2>2, <2>3
<1>2. \E x \in below : \A y \in below : ~ (<<y, x>> \in less)
  <2> HIDE DEF below, less
  <2>1. IsWellFoundedOn(less, Nat)
    BY NatLessThanWellFounded DEF less
  <2> QED
    BY <1>1, <2>1, WFMin
<1>3. PICK q \in Q : \A y \in below : ~ (<<y, n - q>> \in less)
  BY <1>2
<1>4. ASSUME NEW r \in Q PROVE r <= q
  <2>1. ~(n - r < n - q)
    BY <1>1, <1>3, <1>4 DEF OpToRel
  <2> QED
    BY <2>1
<1> QED
  BY <1>3, <1>4

\* A bound on every event of a type bounds the last of them.
LEMMA LastOfBound ==
  ASSUME NEW t, NEW n \in Nat, NEW m \in Nat,
         \A q \in 1..n : hist[q].type = t => q <= m
  PROVE  m >= Promise!LastOf(t, n)
<1> DEFINE qs == {q \in 1..n : hist[q].type = t}
<1>1. CASE qs = {}
  BY <1>1 DEF Promise!LastOf
<1>2. CASE qs # {}
  <2> DEFINE last == CHOOSE q \in qs : \A r \in qs : r <= q
  <2>1. \E q \in qs : \A r \in qs : r <= q
    BY <1>2, Greatest
  <2>2. last \in qs
    <3> HIDE DEF qs
    <3> QED
      BY <2>1
  <2>3. Promise!LastOf(t, n) = last
    BY <1>2 DEF Promise!LastOf
  <2>4. last <= m
    <3>1. last \in 1..n /\ hist[last].type = t
      BY <2>2
    <3> HIDE DEF last
    <3> QED
      BY <3>1
  <2> QED
    BY <2>2, <2>3, <2>4
<1> QED
  BY <1>1, <1>2

-----------------------------------------------------------------------------
(* The log's side: the steps of Follow do to the log what EventLog allows   *)

LEMMA InitIInvThen == Init' => IInv'
BY InitIInv, PTL

LEMMA CutIInv ==
  ASSUME IInv, NEW c \in Subscriber, Cut(c)
  PROVE  IInv'
<1>1. /\ UNCHANGED <<logVars, err, at>>
      /\ live' = live \ {c} /\ chan' = [chan EXCEPT ![c] = <<>>]
  BY DEF Cut
<1>2. TypeOK'
  BY <1>1 DEF IInv, TypeOK, logVars, Last
<1>3. NoGapNoRepeat'
  <2>1. /\ Last' = Last /\ hist' = hist /\ at' = at
        /\ chan'[c] = <<>> /\ c \notin live'
        /\ \A d \in Subscriber \ {c} : chan'[d] = chan[d] /\ (d \in live' => d \in live)
    BY <1>1 DEF IInv, TypeOK, logVars, Last
  <2>2. at[c] <= Last /\ at[c] \in Nat
    BY LogTypes
  <2> QED
    BY <2>1, <2>2 DEF IInv, NoGapNoRepeat
<1>4. LogInv' /\ LatestIsCurrent'
  BY <1>1, SameLogSameInv DEF IInv, logVars
<1> QED
  BY <1>2, <1>3, <1>4 DEF IInv

LEMMA RestartIInv ==
  ASSUME IInv, Restart
  PROVE  IInv'
<1>1. closed' = FALSE
  BY DEF Restart, IInv, TypeOK
<1>2. Init'
  BY <1>1 DEF Init, LogInit, Restart
<1> QED
  BY <1>2, InitIInvThen

LEMMA FollowIInv ==
  ASSUME FollowInv, FollowNext
  PROVE  IInv'
<1> USE DEF FollowInv
<1>1. ASSUME NEW type \in Type, Emit(type) PROVE IInv'
  BY <1>1, LogStepIInv DEF Emit, LogStep
<1>2. ASSUME NEW c \in Subscriber, Resume(c) \/ Resubscribe(c) PROVE IInv'
  <2>1. cur[c].after \in Nat /\ snap[c].after \in Nat
    BY DEF FollowTypes, Cursor, Snapshot
  <2>2. \E after \in Nat : Subscribed(c, after)
    BY <1>2, <2>1 DEF Resume, Resubscribe
  <2> QED
    BY <2>2, LogStepIInv DEF LogStep
<1>3. ASSUME NEW c \in Subscriber, TakeLive(c) PROVE IInv'
  BY <1>3, LogStepIInv DEF TakeLive, LogStep
<1>4. CASE Forget
  BY <1>4, LogStepIInv DEF Forget, LogStep
<1>5. ASSUME NEW c \in Subscriber,
             \/ Ask(c) \/ NeedSnapshot(c) \/ ReadLast(c) \/ ReadState(c) \/ ResubscribeFails(c)
             \/ TakeSnapshot(c) \/ TakeReplayed(c) \/ Dropped(c)
      PROVE  IInv'
  BY <1>5, StutterIInv DEF Ask, NeedSnapshot, ReadLast, ReadState, ResubscribeFails, TakeSnapshot,
     TakeReplayed, Dropped
<1> QED
  BY <1>1, <1>2, <1>3, <1>4, <1>5, CutIInv, RestartIInv DEF FollowNext, ClientStep

-----------------------------------------------------------------------------
(* A client that a step leaves alone, while the log at most grows           *)

Grown ==
  /\ epoch' = epoch /\ Last' \in Nat /\ Last <= Last' /\ Len(hist') = Last'
  /\ \A q \in 1..Last : hist'[q] = hist[q]

LEMMA ContinuesKept ==
  ASSUME NEW h, NEW h2, NEW last \in Nat, \A q \in 1..last : h2[q] = h[q],
         NEW frames \in Seq(Event \union Snapshot), NEW n \in Nat, NEW m \in 0..last,
         Continues(h, frames, n, m)
  PROVE  Continues(h2, frames, n, m)
<1>1. Len(frames) \in Nat /\ n + Len(frames) = m
  BY DEF Continues
<1>2. ASSUME NEW i \in 1..Len(frames) PROVE frames[i] = h2[n + i]
  <2>1. n + i \in 1..last
    BY <1>1
  <2> QED
    BY <2>1 DEF Continues
<1> QED
  BY <1>1, <1>2 DEF Continues

LEMMA CoversKept ==
  ASSUME NEW h, NEW h2, NEW last \in Nat, Len(h) = last, Len(h2) \in Nat, last <= Len(h2),
         \A q \in 1..last : h2[q] = h[q],
         NEW state, NEW n \in 0..last, Covers(h, state, n)
  PROVE  Covers(h2, state, n)
<1> SUFFICES ASSUME NEW t \in StateType
             PROVE  /\ \A q \in 1..n : h2[q].type = t => q <= state[t]
                    /\ state[t] # 0 => state[t] \in 1..Len(h2) /\ h2[state[t]].type = t
  BY DEF Covers
<1>1. ASSUME NEW q \in 1..n, h2[q].type = t PROVE q <= state[t]
  <2>1. q \in 1..last
    OBVIOUS
  <2> QED
    BY <1>1, <2>1 DEF Covers
<1>2. ASSUME state[t] # 0 PROVE state[t] \in 1..Len(h2) /\ h2[state[t]].type = t
  <2>1. state[t] \in 1..last /\ h[state[t]].type = t
    BY <1>2 DEF Covers
  <2> QED
    BY <2>1
<1> QED
  BY <1>1, <1>2

LEMMA ClientKept ==
  ASSUME FollowInv, IInv', Grown, NEW c \in Subscriber,
         /\ pc'[c] = pc[c] /\ cur'[c] = cur[c] /\ snap'[c] = snap[c]
         /\ out'[c] = out[c] /\ at'[c] = at[c]
  PROVE  ClientInv(c)'
<1>1. /\ Last \in Nat /\ Len(hist) = Last /\ at[c] \in 0..Last
      /\ cur[c] \in Cursor /\ snap[c] \in Snapshot /\ out[c] \in Seq(Event \union Snapshot)
      /\ ClientInv(c)
  BY LogTypes DEF FollowInv, FollowTypes
<1>2. CursorInv(c)'
  BY <1>1 DEF ClientInv, CursorInv, Cursor, Grown
<1>3. SnapInv(c)'
  <2>1. ASSUME pc[c] \in {"state", "resub"} PROVE snap[c].after <= Last' /\ NotBack(c, snap[c].after)'
    BY <1>1, <2>1 DEF ClientInv, SnapInv, NotBack, Grown, Snapshot
  <2>2. ASSUME pc[c] = "resub" PROVE Covers(hist', snap[c].state, snap[c].after)
    <3>1. snap[c].after \in 0..Last /\ Covers(hist, snap[c].state, snap[c].after)
      BY <1>1, <2>2 DEF ClientInv, SnapInv, Snapshot
    <3> QED
      BY <1>1, <3>1, CoversKept DEF Grown
  <2> QED
    BY <2>1, <2>2 DEF SnapInv
<1>4. CASE pc[c] = "on" /\ SnapshotFirst(c)
  <2>1. /\ out[c] # <<>> /\ Head(out[c]) \in Snapshot
        /\ Tail(out[c]) \in Seq(Event \union Snapshot) /\ Len(Tail(out[c])) \in Nat
        /\ Head(out[c]).after + Len(Tail(out[c])) = at[c] /\ Head(out[c]).after \in Nat
    BY <1>1, <1>4, HeadTailProperties, LenProperties DEF SnapshotFirst, Continues, Snapshot
  <2>2. Head(out[c]).after \in 0..Last
    BY <1>1, <2>1
  <2>3. Covers(hist', Head(out[c]).state, Head(out[c]).after)
    BY <1>1, <1>4, <2>2, CoversKept DEF SnapshotFirst, Grown
  <2>4. Continues(hist', Tail(out[c]), Head(out[c]).after, at[c])
    <3>1. /\ Continues(hist, Tail(out[c]), Head(out[c]).after, at[c])
          /\ \A q \in 1..Last : hist'[q] = hist[q]
      BY <1>4 DEF SnapshotFirst, Grown
    <3>2. \A frames \in Seq(Event \union Snapshot), n \in Nat :
            Continues(hist, frames, n, at[c]) => Continues(hist', frames, n, at[c])
      BY <1>1, <3>1, ContinuesKept
    <3> QED
      BY <2>1, <3>1, <3>2
  <2>5. NotBack(c, Head(out[c]).after)'
    BY <1>4 DEF SnapshotFirst, NotBack, Grown
  <2>6. SnapshotFirst(c)'
    BY <2>1, <2>3, <2>4, <2>5 DEF SnapshotFirst
  <2> QED
    BY <1>2, <1>3, <2>6 DEF ClientInv, OutInv
<1>5. CASE pc[c] = "on" /\ CursorFirst(c)
  <2>1. Continues(hist', out[c], cur[c].after, at[c])
    BY <1>1, <1>5, ContinuesKept DEF CursorFirst, Grown, Cursor
  <2>2. CursorFirst(c)'
    BY <1>5, <2>1 DEF CursorFirst, Grown
  <2> QED
    BY <1>2, <1>3, <2>2 DEF ClientInv, OutInv
<1>6. CASE pc[c] # "on"
  BY <1>2, <1>3, <1>6 DEF ClientInv, OutInv
<1> QED
  BY <1>1, <1>4, <1>5, <1>6 DEF ClientInv, OutInv

-----------------------------------------------------------------------------
(* What each step does to its client, and to what the client is promised    *)

\* The other clients are left alone.
Alone(c) ==
  \A d \in Subscriber \ {c} :
    /\ pc'[d] = pc[d] /\ cur'[d] = cur[d] /\ snap'[d] = snap[d]
    /\ out'[d] = out[d] /\ at'[d] = at[d] /\ shown'[d] = shown[d]

\* The log stays.
Still == epoch' = epoch /\ next' = next /\ hist' = hist

LEMMA StillGrows ==
  ASSUME IInv, Still
  PROVE  Grown /\ Last' = Last
BY LogTypes DEF Still, Grown, Last

\* Steps after which the client has no frame on its way and no snapshot begun.
LEMMA PausesInv ==
  ASSUME FollowInv, NEW c \in Subscriber,
         Ask(c) \/ NeedSnapshot(c) \/ ResubscribeFails(c) \/ Dropped(c) \/ Cut(c)
  PROVE  Still /\ FollowTypes' /\ ClientInv(c)' /\ Alone(c) /\ UNCHANGED <<cur, shown>>
<1>1. /\ UNCHANGED <<epoch, logVars, cur, shown, snap, at>>
      /\ \E step \in {"asked", "last", "off"} : pc' = [pc EXCEPT ![c] = step]
      /\ out' = out \/ out' = [out EXCEPT ![c] = <<>>]
  BY DEF Ask, NeedSnapshot, ResubscribeFails, Dropped, Cut, Go, vars, subVars
<1>2. Still /\ Last' = Last
  BY <1>1 DEF Still, logVars, Last
<1>3. FollowTypes' /\ pc'[c] \in {"asked", "last", "off"} /\ Alone(c)
  <2>1. <<>> \in Seq(Event \union Snapshot)
    OBVIOUS
  <2> QED
    BY <1>1, <2>1 DEF FollowInv, FollowTypes, Alone
<1>4. ClientInv(c)'
  BY <1>1, <1>2, <1>3 DEF FollowInv, ClientInv, CursorInv, SnapInv, OutInv
<1> QED
  BY <1>1, <1>2, <1>3, <1>4

LEMMA ReadLastInv ==
  ASSUME FollowInv, NEW c \in Subscriber, ReadLast(c)
  PROVE  Still /\ FollowTypes' /\ ClientInv(c)' /\ Alone(c) /\ UNCHANGED <<cur, shown>>
<1>1. /\ UNCHANGED <<epoch, logVars, cur, shown, out, at>>
      /\ pc' = [pc EXCEPT ![c] = "state"] /\ snap' = [snap EXCEPT ![c].after = Last]
  BY DEF ReadLast, Go, vars, subVars
<1>2. Still /\ Last' = Last /\ Last \in Nat
  BY <1>1, LogTypes DEF Still, logVars, Last, FollowInv
<1>3. FollowTypes' /\ pc'[c] = "state" /\ snap'[c].after = Last /\ Alone(c)
  BY <1>1, <1>2 DEF FollowInv, FollowTypes, Alone, Snapshot
<1>4. NotBack(c, snap[c].after)'
  BY <1>1, <1>2, <1>3 DEF NotBack, FollowInv, ClientInv, CursorInv
<1>5. ClientInv(c)'
  BY <1>1, <1>2, <1>3, <1>4 DEF FollowInv, ClientInv, CursorInv, SnapInv, OutInv
<1> QED
  BY <1>1, <1>2, <1>3, <1>5

\* State is read after Last: it knows every event up to it.
LEMMA ReadStateInv ==
  ASSUME FollowInv, NEW c \in Subscriber, ReadState(c)
  PROVE  Still /\ FollowTypes' /\ ClientInv(c)' /\ Alone(c) /\ UNCHANGED <<cur, shown>>
<1>1. /\ UNCHANGED <<epoch, logVars, cur, shown, out, at>> /\ pc[c] = "state"
      /\ pc' = [pc EXCEPT ![c] = "resub"] /\ snap' = [snap EXCEPT ![c].state = StateNow]
  BY DEF ReadState, Go, At, vars, subVars
<1>2. Still /\ Last' = Last /\ Last \in Nat /\ Len(hist) = Last
  BY <1>1, LogTypes DEF Still, logVars, Last, FollowInv
<1>3. StateNow \in [StateType -> Nat] /\ \A t \in StateType : StateNow[t] = latest[t].seq
  BY DEF StateNow, FollowInv, IInv, TypeOK, Event, NoEvent
<1>4. /\ FollowTypes' /\ pc'[c] = "resub" /\ Alone(c)
      /\ snap'[c].state = StateNow /\ snap'[c].after = snap[c].after
  BY <1>1, <1>3 DEF FollowInv, FollowTypes, Alone, Snapshot
<1>5. snap[c].after <= Last /\ NotBack(c, snap[c].after) /\ snap[c].after \in Nat
  BY <1>1 DEF FollowInv, FollowTypes, ClientInv, SnapInv, Snapshot
<1>6. Covers(hist, StateNow, snap[c].after)
  <2> SUFFICES ASSUME NEW t \in StateType
               PROVE  /\ \A q \in 1..snap[c].after : hist[q].type = t => q <= latest[t].seq
                      /\ latest[t].seq # 0 => /\ latest[t].seq \in 1..Len(hist)
                                             /\ hist[latest[t].seq].type = t
    BY <1>3 DEF Covers
  <2>1. \A q \in 1..snap[c].after : q \in 1..Last
    BY <1>2, <1>5
  <2> QED
    BY <1>2, <2>1 DEF FollowInv, IInv, LatestIsCurrent
<1>7. ClientInv(c)'
  BY <1>1, <1>2, <1>4, <1>5, <1>6 DEF FollowInv, ClientInv, CursorInv, SnapInv, OutInv, NotBack,
     Still
<1> QED
  BY <1>1, <1>2, <1>4, <1>7

\* A short backlog that is kept is replayed from the cursor on.
LEMMA ResumeInv ==
  ASSUME FollowInv, NEW c \in Subscriber, Resume(c)
  PROVE  Still /\ FollowTypes' /\ ClientInv(c)' /\ Alone(c) /\ UNCHANGED <<cur, shown>>
<1>1. /\ UNCHANGED <<epoch, logVars, cur, shown, snap>>
      /\ pc' = [pc EXCEPT ![c] = "on"] /\ at' = [at EXCEPT ![c] = Last]
      /\ out' = [out EXCEPT ![c] = Replay(cur[c].after)]
      /\ cur[c].epoch \in {0, epoch} /\ Verdict(cur[c].after) = "ok"
  BY DEF Resume, Subscribed, Resumable, SameLog, Go
<1>2. Still /\ Last' = Last
  BY <1>1 DEF Still, logVars, Last
<1>3. /\ cur[c].after \in 0..Last /\ Last \in Nat
      /\ Replay(cur[c].after) \in Seq(Event \union Snapshot)
      /\ Continues(hist, Replay(cur[c].after), cur[c].after, Last)
  <2>1. cur[c].after \in Nat
    BY DEF FollowInv, FollowTypes, Cursor
  <2>2. /\ cur[c].after \in 0..Last /\ Last \in Nat
        /\ Replay(cur[c].after) \in Seq(Event) /\ Len(Replay(cur[c].after)) = Last - cur[c].after
        /\ \A i \in 1..(Last - cur[c].after) : Replay(cur[c].after)[i] = hist[cur[c].after + i]
    BY <1>1, <2>1, ReplayFacts, LogTypes DEF FollowInv
  <2>3. Replay(cur[c].after) \in Seq(Event \union Snapshot)
    BY <2>2, SeqMonotonic
  <2> QED
    BY <2>2, <2>3 DEF Continues
<1>4. /\ FollowTypes' /\ pc'[c] = "on" /\ Alone(c)
      /\ at'[c] = Last /\ out'[c] = Replay(cur[c].after)
  <2>1. at \in [Subscriber -> Nat]
    BY DEF FollowInv, IInv, TypeOK
  <2> QED
    BY <1>1, <1>3, <2>1 DEF FollowInv, FollowTypes, Alone
<1>5. CursorFirst(c)'
  BY <1>1, <1>2, <1>3, <1>4 DEF CursorFirst, Still
<1>6. ClientInv(c)'
  BY <1>1, <1>2, <1>4, <1>5 DEF FollowInv, ClientInv, CursorInv, SnapInv, OutInv
<1> QED
  BY <1>1, <1>2, <1>4, <1>6

\* One frame before the others.
LEMMA FirstFrame ==
  ASSUME NEW S, NEW f \in S, NEW rest \in Seq(S)
  PROVE  /\ <<f>> \o rest \in Seq(S) /\ <<f>> \o rest # <<>>
         /\ Head(<<f>> \o rest) = f /\ Tail(<<f>> \o rest) = rest
<1> DEFINE all == <<f>> \o rest
<1>1. <<f>> \in Seq(S) /\ Len(<<f>>) = 1 /\ <<f>>[1] = f /\ Len(rest) \in Nat
  OBVIOUS
<1>2. /\ all \in Seq(S) /\ Len(all) = 1 + Len(rest)
      /\ \A i \in 1..(1 + Len(rest)) : all[i] = IF i <= 1 THEN <<f>>[i] ELSE rest[i - 1]
  BY <1>1, ConcatProperties
<1> HIDE DEF all
<1>3. all # <<>>
  BY <1>1, <1>2, EmptySeq
<1>4. Head(all) = f
  BY <1>1, <1>2, <1>3
<1>5. /\ Tail(all) \in Seq(S) /\ Len(Tail(all)) = Len(rest)
      /\ \A i \in 1..Len(rest) : Tail(all)[i] = rest[i]
  <2>1. /\ Tail(all) \in Seq(S) /\ Len(Tail(all)) = Len(all) - 1
        /\ \A i \in 1..Len(Tail(all)) : Tail(all)[i] = all[i + 1]
    BY <1>2, <1>3, HeadTailProperties
  <2>2. Len(Tail(all)) = Len(rest)
    BY <1>1, <1>2, <2>1
  <2>3. ASSUME NEW i \in 1..Len(rest) PROVE Tail(all)[i] = rest[i]
    <3>1. Tail(all)[i] = all[i + 1]
      BY <2>1, <2>2
    <3>2. i + 1 \in 1..(1 + Len(rest)) /\ ~(i + 1 <= 1) /\ (i + 1) - 1 = i
      BY <1>1
    <3> QED
      BY <1>2, <3>1, <3>2
  <2> QED
    BY <2>1, <2>2, <2>3
<1>6. Tail(all) = rest
  BY <1>5, SeqEqual
<1> QED
  BY <1>2, <1>3, <1>4, <1>6 DEF all

\* The snapshot, and then what was written after it.
LEMMA ResubscribeInv ==
  ASSUME FollowInv, NEW c \in Subscriber, Resubscribe(c)
  PROVE  Still /\ FollowTypes' /\ ClientInv(c)' /\ Alone(c) /\ UNCHANGED <<cur, shown>>
<1> DEFINE n == snap[c].after
           frames == <<snap[c]>> \o Replay(n)
<1>1. /\ UNCHANGED <<epoch, logVars, cur, shown, snap>> /\ pc[c] = "resub"
      /\ pc' = [pc EXCEPT ![c] = "on"] /\ at' = [at EXCEPT ![c] = Last]
      /\ out' = [out EXCEPT ![c] = frames] /\ Verdict(n) = "ok"
  BY DEF Resubscribe, Subscribed, At, Go
<1>2. Still /\ Last' = Last
  BY <1>1 DEF Still, logVars, Last
<1>3. snap[c] \in Snapshot /\ n \in Nat
  BY DEF FollowInv, FollowTypes, Snapshot
<1>4. /\ Last \in Nat /\ Replay(n) \in Seq(Event \union Snapshot)
      /\ Continues(hist, Replay(n), n, Last)
  <2>1. /\ n \in 0..Last /\ Last \in Nat
        /\ Replay(n) \in Seq(Event) /\ Len(Replay(n)) = Last - n
        /\ \A i \in 1..(Last - n) : Replay(n)[i] = hist[n + i]
    BY <1>1, <1>3, ReplayFacts, LogTypes DEF FollowInv
  <2>2. Replay(n) \in Seq(Event \union Snapshot)
    BY <2>1, SeqMonotonic
  <2> QED
    BY <2>1, <2>2 DEF Continues
<1>5. /\ frames \in Seq(Event \union Snapshot) /\ frames # <<>>
      /\ Head(frames) = snap[c] /\ Tail(frames) = Replay(n)
  BY <1>3, <1>4, FirstFrame
<1>6. NotBack(c, n) /\ Covers(hist, snap[c].state, n)
  BY <1>1 DEF FollowInv, ClientInv, SnapInv
<1> HIDE DEF frames
<1>7. FollowTypes' /\ pc'[c] = "on" /\ Alone(c) /\ at'[c] = Last /\ out'[c] = frames
  <2>1. at \in [Subscriber -> Nat]
    BY DEF FollowInv, IInv, TypeOK
  <2> QED
    BY <1>1, <1>5, <2>1 DEF FollowInv, FollowTypes, Alone
<1>8. SnapshotFirst(c)'
  <2>1. Head(out'[c]) = snap[c] /\ Tail(out'[c]) = Replay(n) /\ out'[c] # <<>>
    BY <1>5, <1>7
  <2>2. NotBack(c, n)'
    BY <1>1, <1>6 DEF NotBack
  <2> QED
    BY <1>1, <1>2, <1>3, <1>4, <1>6, <1>7, <2>1, <2>2 DEF SnapshotFirst, Still, NotBack
<1>9. ClientInv(c)'
  BY <1>1, <1>2, <1>7, <1>8 DEF FollowInv, ClientInv, CursorInv, SnapInv, OutInv
<1> QED
  BY <1>1, <1>2, <1>7, <1>9

\* A snapshot moves the client forward, with state as new: Feed's Jump.
LEMMA TakeSnapshotInv ==
  ASSUME FollowInv, NEW c \in Subscriber, TakeSnapshot(c)
  PROVE  Still /\ FollowTypes' /\ ClientInv(c)' /\ Alone(c) /\ Promise!Jump(c)
<1> DEFINE f == Head(out[c])
           rest == Tail(out[c])
<1>1. /\ UNCHANGED <<epoch, logVars, at, pc, snap>> /\ pc[c] = "on"
      /\ out[c] # <<>> /\ "after" \in DOMAIN f
      /\ out' = [out EXCEPT ![c] = rest]
      /\ cur' = [cur EXCEPT ![c] = [epoch |-> epoch, after |-> f.after]]
      /\ shown' = [shown EXCEPT ![c] = f.state]
  BY DEF TakeSnapshot, At, vars, subVars
<1>2. Still /\ Last' = Last /\ Last \in Nat /\ Len(hist) = Last /\ at[c] \in 0..Last
  BY <1>1, LogTypes DEF Still, logVars, Last, FollowInv
<1>3. f \in Event \union Snapshot /\ rest \in Seq(Event \union Snapshot)
  BY <1>1, HeadTailProperties DEF FollowInv, FollowTypes
<1> HIDE DEF f, rest
<1>4. f \in Snapshot /\ f.after \in Nat /\ f.state \in [StateType -> Nat]
  BY <1>1, <1>3, FrameKinds DEF Snapshot
<1>5. SnapshotFirst(c)
  <2>1. ASSUME CursorFirst(c) PROVE FALSE
    <3>1. /\ cur[c].after + Len(out[c]) = at[c] /\ cur[c].after \in Nat
          /\ Len(out[c]) \in Nat \ {0} /\ f = out[c][1] /\ out[c][1] = hist[cur[c].after + 1]
      <4>1. Len(out[c]) \in Nat \ {0} /\ f = out[c][1]
        BY <1>1, EmptySeq DEF FollowInv, FollowTypes, f
      <4> QED
        BY <2>1, <4>1 DEF CursorFirst, Continues, FollowInv, FollowTypes, Cursor
    <3>2. cur[c].after + 1 \in 1..Last
      BY <1>2, <3>1
    <3>3. f \in Event
      BY <3>1, <3>2, LogTypes DEF FollowInv
    <3> QED
      BY <1>1, <3>3, FrameKinds
  <2> QED
    BY <1>1, <2>1 DEF FollowInv, ClientInv, OutInv
<1>6. /\ NotBack(c, f.after) /\ Covers(hist, f.state, f.after)
      /\ Continues(hist, rest, f.after, at[c]) /\ f.after \in 0..Last
  <2>1. /\ NotBack(c, f.after) /\ Covers(hist, f.state, f.after)
        /\ Continues(hist, rest, f.after, at[c])
    BY <1>5 DEF SnapshotFirst, f, rest
  <2>2. Len(rest) \in Nat
    BY <1>3
  <2> QED
    BY <1>2, <1>4, <2>1, <2>2 DEF Continues
<1>7. /\ FollowTypes' /\ Alone(c) /\ pc'[c] = "on" /\ at'[c] = at[c] /\ out'[c] = rest
      /\ cur'[c] = [epoch |-> epoch, after |-> f.after] /\ shown'[c] = f.state
  BY <1>1, <1>3, <1>4 DEF FollowInv, FollowTypes, Alone, Cursor
<1>8. ClientInv(c)'
  <2>1. CursorFirst(c)'
    BY <1>1, <1>2, <1>6, <1>7 DEF CursorFirst, Still
  <2>2. CursorInv(c)' /\ SnapInv(c)'
    BY <1>1, <1>2, <1>6, <1>7 DEF CursorInv, SnapInv, FollowInv, FollowTypes
  <2> QED
    BY <2>1, <2>2 DEF ClientInv, OutInv
<1>9. Promise!Jump(c)
  <2>1. ASSUME NEW t \in StateType
        PROVE  /\ f.state[t] >= Promise!LastOf(t, f.after)
               /\ f.state[t] # 0 => hist[f.state[t]].type = t
    <3>1. f.state[t] \in Nat /\ f.after \in Nat
      BY <1>4
    <3> QED
      BY <1>6, <3>1, LastOfBound DEF Covers
  <2>2. cur[c].epoch = epoch => f.after >= cur[c].after
    BY <1>4, <1>6 DEF NotBack, FollowInv, FollowTypes, Cursor
  <2>3. \A d \in Subscriber \ {c} : shown'[d] = shown[d]
    BY <1>7 DEF Alone
  <2> QED
    <3>1. cur'[c].after = f.after /\ shown'[c] = f.state
      BY <1>7
    <3>2. cur' = [cur EXCEPT ![c] = [epoch |-> epoch, after |-> cur'[c].after]]
      BY <1>1, <3>1
    <3>3. \A t \in StateType :
            /\ shown'[c][t] >= Promise!LastOf(t, cur'[c].after)
            /\ shown'[c][t] # 0 => hist[shown'[c][t]].type = t
      BY <2>1, <3>1
    <3>4. cur'[c].after \in 0..Len(hist) /\ (cur[c].epoch = epoch => cur'[c].after >= cur[c].after)
      BY <1>2, <1>6, <2>2, <3>1
    <3>5. UNCHANGED <<epoch, hist>>
      BY <1>1 DEF logVars
    <3> QED
      BY <2>3, <3>2, <3>3, <3>4, <3>5 DEF Promise!Jump
<1> QED
  BY <1>2, <1>7, <1>8, <1>9

\* What applying an event does to a client whose cursor stands before it.
LEMMA AppliedTakes ==
  ASSUME FollowInv, NEW c \in Subscriber, NEW ev, Applied(c, ev), Still,
         cur[c].epoch \in {0, epoch}, cur[c].after + 1 \in 1..Last, ev = hist[cur[c].after + 1]
  PROVE  /\ Promise!Take(c)
         /\ cur' \in [Subscriber -> Cursor] /\ shown' \in [Subscriber -> [StateType -> Nat]]
         /\ cur'[c] = [epoch |-> epoch, after |-> cur[c].after + 1]
         /\ \A d \in Subscriber \ {c} : cur'[d] = cur[d] /\ shown'[d] = shown[d]
<1> DEFINE q == cur[c].after + 1
<1>1. ev \in Event /\ ev.seq = q /\ Len(hist) = Last /\ Last \in Nat
  BY LogTypes DEF FollowInv
<1>2. /\ cur' = [cur EXCEPT ![c] = [epoch |-> epoch, after |-> q]]
      /\ shown' = [shown EXCEPT ![c] = Promise!Apply(shown[c], ev)]
  BY <1>1 DEF Applied
<1>3. Promise!Apply(shown[c], ev) \in [StateType -> Nat]
  BY <1>1 DEF Promise!Apply, FollowInv, FollowTypes, Event
<1>4. cur[c].epoch = epoch \/ cur[c] = Promise!NoCursor
  BY DEF FollowInv, FollowTypes, Cursor, ClientInv, CursorInv, Promise!NoCursor
<1>5. Promise!Take(c)
  BY <1>1, <1>2, <1>4 DEF Promise!Take, Still
<1>6. [epoch |-> epoch, after |-> q] \in Cursor
  BY DEF FollowInv, FollowTypes, Cursor
<1> HIDE DEF q
<1>7. /\ cur' \in [Subscriber -> Cursor] /\ shown' \in [Subscriber -> [StateType -> Nat]]
      /\ cur'[c] = [epoch |-> epoch, after |-> q]
      /\ \A d \in Subscriber \ {c} : cur'[d] = cur[d] /\ shown'[d] = shown[d]
  BY <1>2, <1>3, <1>6 DEF FollowInv, FollowTypes
<1> QED
  BY <1>5, <1>7 DEF q

\* A replayed event is the one after the cursor: Feed's Take.
LEMMA TakeReplayedInv ==
  ASSUME FollowInv, NEW c \in Subscriber, TakeReplayed(c)
  PROVE  Still /\ FollowTypes' /\ ClientInv(c)' /\ Alone(c) /\ Promise!Take(c)
<1> DEFINE ev == Head(out[c])
           rest == Tail(out[c])
<1>1. /\ UNCHANGED <<epoch, logVars, at, pc, snap>> /\ pc[c] = "on"
      /\ out[c] # <<>> /\ "seq" \in DOMAIN ev
      /\ out' = [out EXCEPT ![c] = rest] /\ Applied(c, ev)
  BY DEF TakeReplayed, At, vars, subVars
<1>2. Still /\ Last' = Last /\ Last \in Nat /\ Len(hist) = Last /\ at[c] \in 0..Last
  BY <1>1, LogTypes DEF Still, logVars, Last, FollowInv
<1>3. /\ ev = out[c][1] /\ rest \in Seq(Event \union Snapshot) /\ Len(out[c]) \in Nat \ {0}
      /\ Len(rest) = Len(out[c]) - 1 /\ \A i \in 1..Len(rest) : rest[i] = out[c][i + 1]
  BY <1>1, HeadTailProperties, EmptySeq DEF FollowInv, FollowTypes
<1>4. CursorFirst(c)
  BY <1>1, FrameKinds DEF SnapshotFirst, FollowInv, ClientInv, OutInv
<1> HIDE DEF ev, rest
<1>5. /\ cur[c].after \in Nat /\ cur[c].epoch \in {0, epoch}
      /\ cur[c].after + Len(out[c]) = at[c]
      /\ \A i \in 1..Len(out[c]) : out[c][i] = hist[cur[c].after + i]
  BY <1>4 DEF CursorFirst, Continues, FollowInv, FollowTypes, Cursor
<1> DEFINE n == cur[c].after
           m == Len(out[c])
<1>. /\ n \in Nat /\ m \in Nat \ {0} /\ n + m = at[c] /\ at[c] \in 0..Last /\ Last \in Nat
  BY <1>2, <1>3, <1>5
<1>6. cur[c].after + 1 \in 1..Last /\ ev = hist[cur[c].after + 1]
  <2>1. n + 1 \in 1..Last /\ 1 \in 1..m
    <3> HIDE DEF n, m
    <3> QED
      OBVIOUS
  <2> QED
    BY <1>3, <1>5, <2>1
<1>7. /\ Promise!Take(c)
      /\ cur' \in [Subscriber -> Cursor] /\ shown' \in [Subscriber -> [StateType -> Nat]]
      /\ cur'[c] = [epoch |-> epoch, after |-> cur[c].after + 1]
      /\ \A d \in Subscriber \ {c} : cur'[d] = cur[d] /\ shown'[d] = shown[d]
  BY <1>1, <1>2, <1>5, <1>6, AppliedTakes
<1>8. FollowTypes' /\ Alone(c) /\ pc'[c] = "on" /\ at'[c] = at[c] /\ out'[c] = rest
  BY <1>1, <1>3, <1>7 DEF FollowInv, FollowTypes, Alone
<1>9. Continues(hist, rest, cur[c].after + 1, at[c])
  <2> DEFINE k == Len(rest)
             a == at[c]
  <2>3. k \in Nat /\ k = m - 1 /\ n + m = a
    BY <1>3, <1>5
  <2>1. (n + 1) + k = a
    <3> HIDE DEF n, m, k, a
    <3> QED
      BY <2>3
  <2>2. ASSUME NEW i \in 1..Len(rest) PROVE rest[i] = hist[(cur[c].after + 1) + i]
    <3>1. i + 1 \in 1..m /\ n + (i + 1) = (n + 1) + i
      <4>1. i \in 1..k
        OBVIOUS
      <4> HIDE DEF n, m, k
      <4> QED
        BY <2>3, <4>1
    <3> QED
      BY <1>3, <1>5, <3>1
  <2> QED
    BY <2>1, <2>2 DEF Continues
<1>10. ClientInv(c)'
  <2>1. CursorFirst(c)'
    BY <1>1, <1>2, <1>7, <1>8, <1>9 DEF CursorFirst, Still
  <2>2. CursorInv(c)' /\ SnapInv(c)'
    BY <1>1, <1>2, <1>5, <1>6, <1>7, <1>8 DEF CursorInv, SnapInv, FollowInv, FollowTypes
  <2> QED
    BY <2>1, <2>2 DEF ClientInv, OutInv
<1> QED
  BY <1>2, <1>7, <1>8, <1>10

\* When no frame is on its way, the channel continues the cursor.
LEMMA TakeLiveInv ==
  ASSUME FollowInv, NEW c \in Subscriber, TakeLive(c)
  PROVE  Still /\ FollowTypes' /\ ClientInv(c)' /\ Alone(c) /\ Promise!Take(c)
<1> DEFINE ev == Head(chan[c])
<1>1. /\ UNCHANGED <<epoch, logVars, pc, snap, out>> /\ pc[c] = "on" /\ out[c] = <<>>
      /\ chan[c] # <<>> /\ at' = [at EXCEPT ![c] = ev.seq] /\ Applied(c, ev)
  BY DEF TakeLive, Receive, At
<1>2. Still /\ Last' = Last /\ Last \in Nat /\ at[c] \in 0..Last
  BY <1>1, LogTypes DEF Still, logVars, Last, FollowInv
<1>3. at[c] + 1 \in 1..Last /\ ev = hist[at[c] + 1]
  <2>1. /\ Len(chan[c]) \in Nat \ {0} /\ ev = chan[c][1]
        /\ at[c] + Len(chan[c]) <= Last /\ at[c] \in Nat
        /\ \A i \in 1..Len(chan[c]) : chan[c][i] = hist[at[c] + i]
    BY <1>1, EmptySeq DEF FollowInv, IInv, TypeOK, NoGapNoRepeat
  <2> HIDE DEF ev
  <2> QED
    BY <1>2, <2>1
<1> HIDE DEF ev
<1>4. cur[c].after = at[c] /\ cur[c].epoch \in {0, epoch} /\ cur[c].after \in Nat
  <2>1. CursorFirst(c) /\ cur[c].after \in Nat /\ Len(out[c]) = 0
    BY <1>1, EmptySeq DEF SnapshotFirst, FollowInv, ClientInv, OutInv, FollowTypes, Cursor
  <2> QED
    BY <2>1 DEF CursorFirst, Continues
<1>5. /\ Promise!Take(c)
      /\ cur' \in [Subscriber -> Cursor] /\ shown' \in [Subscriber -> [StateType -> Nat]]
      /\ cur'[c] = [epoch |-> epoch, after |-> cur[c].after + 1]
      /\ \A d \in Subscriber \ {c} : cur'[d] = cur[d] /\ shown'[d] = shown[d]
  BY <1>1, <1>2, <1>3, <1>4, AppliedTakes
<1>6. at'[c] = at[c] + 1 /\ \A d \in Subscriber \ {c} : at'[d] = at[d]
  <2>1. ev.seq = at[c] + 1 /\ at \in [Subscriber -> Nat]
    BY <1>3, LogTypes DEF FollowInv, TypeOK
  <2> QED
    BY <1>1, <2>1
<1>7. FollowTypes' /\ Alone(c)
  BY <1>1, <1>5, <1>6 DEF FollowInv, FollowTypes, Alone
<1>8. ClientInv(c)'
  <2>1. Continues(hist, <<>>, cur[c].after + 1, at[c] + 1)
    BY <1>4 DEF Continues
  <2>2. CursorFirst(c)'
    BY <1>1, <1>2, <1>5, <1>6, <2>1 DEF CursorFirst, Still
  <2>3. CursorInv(c)' /\ SnapInv(c)'
    BY <1>1, <1>2, <1>3, <1>4, <1>5 DEF CursorInv, SnapInv, FollowInv, FollowTypes
  <2> QED
    BY <2>2, <2>3 DEF ClientInv, OutInv
<1> QED
  BY <1>2, <1>5, <1>7, <1>8

-----------------------------------------------------------------------------
(* The theorems of its clients                                               *)

LEMMA InitFollowInv == FollowInit => FollowInv
<1> SUFFICES ASSUME FollowInit PROVE FollowInv
  OBVIOUS
<1>1. IInv
  BY InitIInv DEF FollowInit
<1>2. FollowTypes
  BY DEF FollowInit, FollowTypes, NoCursor, Promise!NoCursor, NoSnap, Cursor, Snapshot
<1>3. \A c \in Subscriber : ClientInv(c)
  BY DEF FollowInit, ClientInv, CursorInv, SnapInv, OutInv, NoCursor, Promise!NoCursor
<1> QED
  BY <1>1, <1>2, <1>3 DEF FollowInv

\* One step of a client is one of Feed's, or none that a client could see.
LEMMA ClientStepInv ==
  ASSUME FollowInv, NEW c \in Subscriber, ClientStep(c) \/ Cut(c)
  PROVE  /\ Still /\ FollowTypes' /\ ClientInv(c)' /\ Alone(c)
         /\ Promise!Take(c) \/ Promise!Jump(c) \/ UNCHANGED <<cur, shown>>
BY PausesInv, ReadLastInv, ReadStateInv, ResumeInv, ResubscribeInv, TakeSnapshotInv,
   TakeReplayedInv,
   TakeLiveInv DEF ClientStep

\* An event is published with the next number.
LEMMA EmitInv ==
  ASSUME FollowInv, NEW type \in Type, Emit(type)
  PROVE  Grown /\ FollowTypes' /\ UNCHANGED <<clientVars, at>> /\ Promise!Publish
<1>1. AppendEvent(type) /\ UNCHANGED <<epoch, clientVars>>
  BY DEF Emit
<1>2. /\ next \in Nat /\ next' = next + 1 /\ Last' = next /\ Last = next - 1
      /\ \A q \in 1..Last : hist'[q] = hist[q]
  BY <1>1, AppendFacts DEF FollowInv, IInv
<1>3. TypeOK' /\ Len(hist') = Last' /\ Len(hist) = Last
  BY <1>1, LogStepTypeOK DEF FollowInv, IInv, LogStep, TypeOK
<1>4. Grown
  BY <1>1, <1>2, <1>3 DEF Grown
<1>5. FollowTypes' /\ UNCHANGED at
  BY <1>1 DEF FollowInv, FollowTypes, clientVars, AppendEvent
<1>6. Promise!Publish
  <2>1. hist' = Append(hist, [seq |-> Len(hist) + 1, type |-> type])
    BY <1>1, <1>2, <1>3 DEF AppendEvent
  <2> QED
    BY <1>1, <2>1 DEF Promise!Publish, clientVars, Type
<1> QED
  BY <1>1, <1>4, <1>5, <1>6

\* The next epoch: nothing is on its way, and no cursor is of it.
LEMMA RestartInv ==
  ASSUME FollowInv, Restart
  PROVE  FollowTypes' /\ (\A c \in Subscriber : ClientInv(c)') /\ Promise!NewEpoch
<1>1. FollowTypes'
  BY DEF FollowInv, FollowTypes, Restart, NoSnap, Snapshot
<1>2. \A c \in Subscriber : ClientInv(c)'
  <2> SUFFICES ASSUME NEW c \in Subscriber PROVE ClientInv(c)'
    OBVIOUS
  <2>1. cur[c].epoch \in Nat /\ cur[c].epoch <= epoch /\ epoch \in Nat \ {0}
        /\ (cur[c].epoch = 0 => cur[c].after = 0)
    BY DEF FollowInv, FollowTypes, ClientInv, CursorInv, Cursor
  <2>2. epoch' = epoch + 1 /\ cur' = cur /\ pc'[c] = "off"
    BY DEF Restart
  <2> QED
    BY <2>1, <2>2 DEF ClientInv, CursorInv, SnapInv, OutInv
<1>3. Promise!NewEpoch
  BY DEF Restart, Promise!NewEpoch
<1> QED
  BY <1>1, <1>2, <1>3

\* The invariant is kept, and every step is one of Feed's or none.
LEMMA FollowStep ==
  ASSUME FollowInv, [FollowNext]_followVars
  PROVE  FollowInv' /\ [Promise!FeedNext]_(Promise!feedVars)
<1>1. CASE UNCHANGED followVars
  <2>1. IInv' /\ Grown
    BY <1>1, StutterIInv, LogTypes DEF FollowInv, followVars, Grown, vars, logVars, Last
  <2>2. FollowTypes' /\ \A c \in Subscriber : ClientInv(c)'
    BY <1>1, <2>1, ClientKept DEF FollowInv, FollowTypes, followVars, clientVars, vars, subVars
  <2> QED
    BY <1>1, <2>1, <2>2 DEF FollowInv, followVars, clientVars, vars, logVars, Promise!feedVars
<1>2. ASSUME NEW type \in Type, Emit(type)
      PROVE  FollowInv' /\ [Promise!FeedNext]_(Promise!feedVars)
  <2>1. IInv' /\ Grown /\ FollowTypes' /\ UNCHANGED <<clientVars, at>> /\ Promise!Publish
    BY <1>2, EmitInv, FollowIInv DEF FollowNext
  <2>2. \A c \in Subscriber : ClientInv(c)'
    BY <2>1, ClientKept DEF clientVars
  <2> QED
    BY <2>1, <2>2 DEF FollowInv, Promise!FeedNext
<1>3. ASSUME NEW c \in Subscriber, ClientStep(c) \/ Cut(c)
      PROVE  FollowInv' /\ [Promise!FeedNext]_(Promise!feedVars)
  <2>1. IInv'
    BY <1>3, FollowIInv DEF FollowNext
  <2>2. /\ Still /\ FollowTypes' /\ ClientInv(c)' /\ Alone(c)
        /\ Promise!Take(c) \/ Promise!Jump(c) \/ UNCHANGED <<cur, shown>>
    BY <1>3, ClientStepInv
  <2>3. Grown
    BY <2>2, StillGrows DEF FollowInv
  <2>4. \A d \in Subscriber \ {c} : ClientInv(d)'
    BY <2>1, <2>2, <2>3, ClientKept DEF Alone
  <2>5. [Promise!FeedNext]_(Promise!feedVars)
    BY <2>2 DEF Promise!FeedNext, Promise!feedVars, Still
  <2> QED
    BY <2>1, <2>2, <2>4, <2>5 DEF FollowInv
<1>4. CASE Forget
  <2>1. IInv' /\ UNCHANGED <<epoch, clientVars, next, hist, at>>
    BY <1>4, FollowIInv DEF FollowNext, Forget, Close
  <2>2. Grown
    BY <2>1, StillGrows DEF Still, FollowInv
  <2>3. FollowTypes' /\ \A c \in Subscriber : ClientInv(c)'
    BY <2>1, <2>2, ClientKept DEF FollowInv, FollowTypes, clientVars
  <2> QED
    BY <2>1, <2>3 DEF FollowInv, clientVars, Promise!feedVars
<1>5. CASE Restart
  BY <1>5, RestartInv, FollowIInv DEF FollowInv, FollowNext, Promise!FeedNext
<1> QED
  BY <1>1, <1>2, <1>3, <1>4, <1>5 DEF FollowNext

\* The inductive invariant holds in every reachable state.
THEOREM FollowInvariant == FollowSpec => []FollowInv
BY InitFollowInv, FollowStep, PTL DEF FollowSpec

\* A client never skips or repeats an event across drops, lost connections,
\* snapshots and service restarts, except by a snapshot that moves it forward
\* with state at least as new (proto/log.go 13-27, session.go 456-458).
THEOREM FollowImplementsFeed == FollowSpec => FeedPromise
<1>1. FollowInit => Promise!FeedInit
  BY DEF FollowInit, Init, LogInit, NoCursor, NoSnap, Promise!FeedInit, Promise!NoCursor
<1>2. FollowInv /\ [FollowNext]_followVars => [Promise!FeedNext]_(Promise!feedVars)
  BY FollowStep
<1> QED
  BY <1>1, <1>2, FollowInvariant, PTL DEF FollowSpec, FeedPromise, Promise!FeedSpec

\* What the log promises, it promises to these clients too: lost connections and
\* restarts of the service included (log.go 15-17, 119-128, 141-155).
THEOREM FollowedLogIsExact ==
  FollowSpec => [](NoGapNoRepeat /\ ReplayFaithful /\ LatestIsCurrent)
<1>1. FollowInv => NoGapNoRepeat /\ ReplayFaithful /\ LatestIsCurrent
  BY InvReplay DEF FollowInv, IInv
<1> QED
  BY <1>1, FollowInvariant, PTL
=============================================================================

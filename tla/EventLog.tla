------------------------------ MODULE EventLog ------------------------------
(***************************************************************************)
(* proto.Log (src/proto/log.go): the numbered event log of one session.    *)
(* The service appends what the engine writes; subscribers get a replay of *)
(* what is still kept, then the live stream on a bounded channel.          *)
(*                                                                         *)
(* Every method of Log holds l.mu from its first line to its last, so each *)
(* is one action; only receiving from the channel happens outside it.      *)
(* An event is its number and its type: nothing else of it matters here.   *)
(***************************************************************************)
EXTENDS Naturals, Sequences

CONSTANTS
  Cap,          \* NewLog's capacity: how many events the ring keeps
  Buffer,       \* Subscribe's buffer: events that may wait unread
  Subscriber,   \* who may subscribe; each has one subscription at a time
  StateType,    \* stateTypes: types whose latest event is the current state
  OtherType,    \* every other event type
  MaxSeq        \* bound: how many events are appended

\* NewLog and Subscribe raise a smaller capacity or buffer to 1.
ASSUME CapAssumption == Cap \in Nat \ {0}
ASSUME BufferAssumption == Buffer \in Nat \ {0}
ASSUME MaxSeqAssumption == MaxSeq \in Nat

Type == StateType \union OtherType
Event == [seq : Nat, type : Type]

\* No event yet: an empty ring slot, or a state type nobody reported.
NoEvent == [seq |-> 0]

VARIABLES
  next,     \* the seq the next Append gets
  ring,     \* ring[(seq-1) % Cap] holds event seq, for the last Cap seqs
  latest,   \* the last event of each state type
  closed,   \* Close was called: l.subs is nil
  live,     \* l.subs: the subscribers whose subscription is registered
  chan,     \* each subscriber's channel; it drains after the subscription ends
  err,      \* why the subscription ended
  at,       \* the last seq the subscriber took (a replay is handed over by the
            \* call itself, so it counts as taken)
  hist      \* auxiliary: every event appended, never forgotten

logVars == <<next, ring, latest, closed, hist>>
subVars == <<live, chan, err, at>>
vars == <<logVars, subVars>>

Last == next - 1
Slot(seq) == (seq - 1) % Cap

LogInit ==
  /\ next = 1
  /\ ring = [i \in 0..(Cap - 1) |-> NoEvent]
  /\ latest = [t \in StateType |-> NoEvent]
  /\ closed = FALSE
  /\ hist = <<>>

Init ==
  /\ LogInit
  /\ live = {}
  /\ chan = [s \in Subscriber |-> <<>>]
  /\ err = [s \in Subscriber |-> "nil"]
  /\ at = [s \in Subscriber |-> 0]

-----------------------------------------------------------------------------
(* Append: number the event, keep it, offer it to every live subscription. *)
(* A subscription whose channel is full is ended, never waited for.        *)

\* Mutant: a full channel loses the event and stays subscribed.
OfferOrLose(ev) ==
  /\ chan' = [s \in Subscriber |->
                IF s \in live /\ Len(chan[s]) < Buffer THEN Append(chan[s], ev) ELSE chan[s]]
  /\ UNCHANGED <<live, err>>

Offer(ev) ==
  LET slow == {s \in live : Len(chan[s]) >= Buffer} IN
  /\ live' = live \ slow
  /\ err' = [s \in Subscriber |-> IF s \in slow THEN "slow" ELSE err[s]]
  /\ chan' = [s \in Subscriber |->
                IF s \in live \ slow THEN Append(chan[s], ev) ELSE chan[s]]

\* Mutant: the number is reused.
AppendUnnumbered(type) ==
  LET ev == [seq |-> next, type |-> type] IN
  /\ Len(hist) <= MaxSeq
  /\ ring' = [ring EXCEPT ![Slot(next)] = ev]
  /\ hist' = Append(hist, ev)
  /\ Offer(ev)
  /\ UNCHANGED <<next, latest, closed, at>>

\* Mutant: the first event of a state type stays its state.
AppendKeepsFirst(type) ==
  LET ev == [seq |-> next, type |-> type] IN
  /\ next <= MaxSeq
  /\ next' = next + 1
  /\ ring' = [ring EXCEPT ![Slot(next)] = ev]
  /\ latest' = IF type \in StateType /\ latest[type] = NoEvent
               THEN [latest EXCEPT ![type] = ev] ELSE latest
  /\ hist' = Append(hist, ev)
  /\ Offer(ev)
  /\ UNCHANGED <<closed, at>>

AppendEvent(type) ==
  LET ev == [seq |-> next, type |-> type] IN
  /\ next <= MaxSeq
  /\ next' = next + 1
  /\ ring' = [ring EXCEPT ![Slot(next)] = ev]
  /\ latest' = IF type \in StateType THEN [latest EXCEPT ![type] = ev] ELSE latest
  /\ hist' = Append(hist, ev)
  /\ Offer(ev)
  /\ UNCHANGED <<closed, at>>

-----------------------------------------------------------------------------
(* Subscribe: the answer to "everything after seq after", and the replay.  *)

\* Mutant: the oldest kept event is taken to be the one overwritten last.
OldestOffByOne == IF Last > Cap THEN Last - Cap ELSE 1

Oldest == IF Last > Cap THEN Last - Cap + 1 ELSE 1

Verdict(after) ==
  IF closed THEN "closed"
  ELSE IF after > Last THEN "future"
  ELSE IF after + 1 < Oldest THEN "gap"
  ELSE "ok"

Replay(after) == [i \in 1..(Last - after) |-> ring[Slot(after + i)]]

Subscribed(s, after) ==
  /\ Verdict(after) = "ok"
  /\ live' = live \union {s}
  /\ chan' = [chan EXCEPT ![s] = <<>>]
  /\ err' = [err EXCEPT ![s] = "nil"]
  /\ at' = [at EXCEPT ![s] = Last]
  /\ UNCHANGED logVars

\* A subscriber whose subscription ended, and which drained it, asks for what
\* follows the last seq it took; after a gap it starts over from the current
\* end (session.subscribe does that with a snapshot: module Follow).
Subscribe(s) ==
  /\ s \notin live /\ chan[s] = <<>>
  /\ Subscribed(s, IF Verdict(at[s]) = "gap" THEN Last ELSE at[s])

\* Taking one event off the channel; a closed channel still drains.
Receive(s) ==
  /\ chan[s] # <<>>
  /\ chan' = [chan EXCEPT ![s] = Tail(chan[s])]
  /\ at' = [at EXCEPT ![s] = Head(chan[s]).seq]
  /\ UNCHANGED <<logVars, live, err>>

\* Subscription.Close: ends it without an error; what waits can be drained.
Unsubscribe(s) ==
  /\ s \in live
  /\ live' = live \ {s}
  /\ UNCHANGED <<logVars, chan, err, at>>

\* Log.Close: ends every subscription. Appends still number and keep events.
Close ==
  /\ ~closed
  /\ closed' = TRUE
  /\ live' = {}
  /\ err' = [s \in Subscriber |-> IF s \in live THEN "closed" ELSE err[s]]
  /\ UNCHANGED <<next, ring, latest, hist, chan, at>>

Next ==
  \/ \E type \in Type : AppendEvent(type)
  \/ \E s \in Subscriber : Subscribe(s) \/ Receive(s) \/ Unsubscribe(s)
  \/ Close

Spec == Init /\ [][Next]_vars

-----------------------------------------------------------------------------
(* Properties *)

\* Types of the state, with hist numbered up to the last seq given out.
TypeOK ==
  /\ next \in Nat \ {0}
  /\ ring \in [0..(Cap - 1) -> Event \union {NoEvent}]
  /\ latest \in [StateType -> Event \union {NoEvent}]
  /\ closed \in BOOLEAN
  /\ live \subseteq Subscriber
  /\ chan \in [Subscriber -> Seq(Event)]
  /\ err \in [Subscriber -> {"nil", "slow", "closed"}]
  /\ at \in [Subscriber -> Nat]
  /\ hist \in Seq(Event)
  /\ Len(hist) = Last

\* Subscribe never hands out an overwritten slot and never reports a gap it
\* could have filled: it answers "ok" only when every event after `after` is
\* still in the ring, and then replays exactly those (log.go 141-155).
ReplayFaithful ==
  \A after \in 0..Last :
    /\ Verdict(after) = "ok" =>
         \A i \in 1..(Last - after) : Replay(after)[i] = hist[after + i]
    /\ Verdict(after) = "gap" => \A i \in DOMAIN ring : ring[i].seq # after + 1

\* "everything after it, then the live stream, with no gap and no repeat"
\* (log.go 15-17): what waits on a channel continues exactly where its holder
\* stopped, and on a live subscription it reaches the newest event. A dropped
\* one still drains a contiguous run, so resuming after its last seq is exact.
NoGapNoRepeat ==
  \A s \in Subscriber :
    /\ at[s] + Len(chan[s]) <= Last
    /\ \A i \in 1..Len(chan[s]) : chan[s][i] = hist[at[s] + i]
    /\ s \in live => at[s] + Len(chan[s]) = Last

\* State (log.go 119-128) is current however much the ring has forgotten:
\* latest[t] is the last event of type t ever appended.
LatestIsCurrent ==
  \A t \in StateType :
    /\ latest[t].seq # 0 =>
         /\ latest[t].seq \in 1..Last /\ hist[latest[t].seq] = latest[t]
         /\ latest[t].type = t
    /\ \A q \in 1..Last : hist[q].type = t => q <= latest[t].seq
=============================================================================

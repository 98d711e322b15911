-------------------------------- MODULE Feed --------------------------------
(***************************************************************************)
(* What a client following a session is promised, without rings, channels  *)
(* or connections: it sees every event in order, except that it may be     *)
(* moved forward by a snapshot, whose state is at least as new as the      *)
(* place it is moved to. Follow implements this.                           *)
(***************************************************************************)
EXTENDS Naturals, Sequences

CONSTANTS
  Client,       \* the clients following the session
  StateType,    \* event types whose latest one is the session's state
  OtherType     \* the other event types

VARIABLES
  epoch,    \* which log the service numbers with now
  hist,     \* the events of this epoch
  cur,      \* cur[c]: the epoch and seq of the last event c applied
  shown     \* shown[c][t]: the seq of the state of type t that c shows

feedVars == <<epoch, hist, cur, shown>>

NoCursor == [epoch |-> 0, after |-> 0]   \* a client that saw nothing yet

\* The seq of the last event of type t among the first n, 0 when there is none.
LastOf(t, n) ==
  LET qs == {q \in 1..n : hist[q].type = t} IN
  IF qs = {} THEN 0 ELSE CHOOSE q \in qs : \A r \in qs : r <= q

Apply(old, ev) ==
  IF ev.type \in StateType THEN [old EXCEPT ![ev.type] = ev.seq] ELSE old

FeedInit ==
  /\ epoch = 1
  /\ hist = <<>>
  /\ cur = [c \in Client |-> NoCursor]
  /\ shown = [c \in Client |-> [t \in StateType |-> 0]]

Publish ==
  /\ \E t \in StateType \union OtherType :
       hist' = Append(hist, [seq |-> Len(hist) + 1, type |-> t])
  /\ UNCHANGED <<epoch, cur, shown>>

\* The service restarts and numbers from 1 again.
NewEpoch ==
  /\ epoch' = epoch + 1
  /\ hist' = <<>>
  /\ UNCHANGED <<cur, shown>>

Take(c) ==
  LET q == cur[c].after + 1 IN
  /\ cur[c].epoch = epoch \/ cur[c] = NoCursor
  /\ q <= Len(hist)
  /\ cur' = [cur EXCEPT ![c] = [epoch |-> epoch, after |-> q]]
  /\ shown' = [shown EXCEPT ![c] = Apply(shown[c], hist[q])]
  /\ UNCHANGED <<epoch, hist>>

Jump(c) ==
  LET to == cur'[c].after IN
  /\ cur' = [cur EXCEPT ![c] = [epoch |-> epoch, after |-> to]]
  /\ to \in 0..Len(hist)
  /\ cur[c].epoch = epoch => to >= cur[c].after
  /\ \A t \in StateType :
       /\ shown'[c][t] >= LastOf(t, to)
       /\ shown'[c][t] # 0 => hist[shown'[c][t]].type = t
  /\ \A d \in Client \ {c} : shown'[d] = shown[d]
  /\ UNCHANGED <<epoch, hist>>

FeedNext == Publish \/ NewEpoch \/ \E c \in Client : Take(c) \/ Jump(c)

FeedSpec == FeedInit /\ [][FeedNext]_feedVars
=============================================================================

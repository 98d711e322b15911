------------------------------- MODULE Follow -------------------------------
(***************************************************************************)
(* Clients following one session across lost connections, snapshots and    *)
(* service restarts: session.subscribe (internal/dund/session.go), the     *)
(* streams that deliver it (Service.Stream, conn.subscribe), and the       *)
(* client's cursor (mobile/src/api/live.ts, internal/tui/attach.go).       *)
(*                                                                         *)
(* subscribe takes the log's lock four times; between two of them the      *)
(* engine may append, so each is an action of its own.                     *)
(***************************************************************************)
EXTENDS EventLog

CONSTANTS
  MaxReplay,    \* maxReplay: a longer backlog goes as a snapshot
  MaxEpoch,     \* bound: how many times the service starts
  MaxCuts       \* bound: how many connections are lost

ASSUME FollowAssumption == MaxReplay \in Nat /\ MaxEpoch \in Nat \ {0} /\ MaxCuts \in Nat

VARIABLES
  epoch,    \* the log's epoch
  pc,       \* where each client's subscribe is
  cur,      \* the client's cursor: what it resumes from
  shown,    \* the client's state: the seq of the event of each type it shows
  snap,     \* subscribe's locals last and state
  out,      \* frames on their way: a snapshot, then the replay
  cuts      \* connections lost so far

clientVars == <<pc, cur, shown, snap, out, cuts>>
followVars == <<vars, epoch, clientVars>>

Promise == INSTANCE Feed WITH Client <- Subscriber
NoCursor == Promise!NoCursor
NoSnap == [after |-> 0, state |-> [t \in StateType |-> 0]]

FollowInit ==
  /\ Init
  /\ epoch = 1
  /\ pc = [c \in Subscriber |-> "off"]
  /\ cur = [c \in Subscriber |-> NoCursor]
  /\ shown = [c \in Subscriber |-> NoSnap.state]
  /\ snap = [c \in Subscriber |-> NoSnap]
  /\ out = [c \in Subscriber |-> <<>>]
  /\ cuts = 0

At(c, step) == pc[c] = step
Go(c, step) == pc' = [pc EXCEPT ![c] = step]

-----------------------------------------------------------------------------
(* session.subscribe                                                        *)

\* The client asks for what follows its cursor.
Ask(c) ==
  /\ At(c, "off") /\ Go(c, "asked")
  /\ UNCHANGED <<vars, epoch, cur, shown, snap, out, cuts>>

\* Mutant: the seq is compared although it is another log's.
SameLogAnyEpoch(c) == TRUE

\* "An empty epoch is this log's"; another epoch's seq means nothing here.
SameLog(c) == cur[c].epoch \in {0, epoch}

ShortEnough(c) == Last - cur[c].after <= MaxReplay

Resumable(c) == SameLog(c) /\ Verdict(cur[c].after) = "ok" /\ ShortEnough(c)

\* The events after the cursor are kept and few: replay, then live.
Resume(c) ==
  /\ At(c, "asked") /\ Resumable(c)
  /\ Subscribed(c, cur[c].after)
  /\ out' = [out EXCEPT ![c] = Replay(cur[c].after)]
  /\ Go(c, "on")
  /\ UNCHANGED <<epoch, cur, shown, snap, cuts>>

\* Otherwise a snapshot (a subscription taken for too long a backlog is closed
\* again at once, unread).
NeedSnapshot(c) ==
  /\ At(c, "asked") /\ ~Resumable(c)
  /\ Go(c, "last")
  /\ UNCHANGED <<vars, epoch, cur, shown, snap, out, cuts>>

StateNow == [t \in StateType |-> latest[t].seq]

\* "Last before State": last := s.log.Last()
ReadLast(c) ==
  /\ At(c, "last") /\ Go(c, "state")
  /\ snap' = [snap EXCEPT ![c].after = Last]
  /\ UNCHANGED <<vars, epoch, cur, shown, out, cuts>>

\* state := s.log.State()
ReadState(c) ==
  /\ At(c, "state") /\ Go(c, "resub")
  /\ snap' = [snap EXCEPT ![c].state = StateNow]
  /\ UNCHANGED <<vars, epoch, cur, shown, out, cuts>>

\* Subscribe again, after last; the snapshot goes first.
Resubscribe(c) ==
  /\ At(c, "resub")
  /\ Subscribed(c, snap[c].after)
  /\ out' = [out EXCEPT ![c] = <<snap[c]>> \o Replay(snap[c].after)]
  /\ Go(c, "on")
  /\ UNCHANGED <<epoch, cur, shown, snap, cuts>>

\* The log has moved on by more than it keeps meanwhile: the client gets the
\* error and tries again.
ResubscribeFails(c) ==
  /\ At(c, "resub") /\ Verdict(snap[c].after) # "ok"
  /\ Go(c, "off")
  /\ UNCHANGED <<vars, epoch, cur, shown, snap, out, cuts>>

-----------------------------------------------------------------------------
(* The stream                                                               *)

\* The client applies a snapshot: it replaces what is shown (live.ts advance,
\* attach.go's reader).
TakeSnapshot(c) ==
  /\ At(c, "on") /\ out[c] # <<>> /\ "after" \in DOMAIN Head(out[c])
  /\ out' = [out EXCEPT ![c] = Tail(@)]
  /\ cur' = [cur EXCEPT ![c] = [epoch |-> epoch, after |-> Head(out[c]).after]]
  /\ shown' = [shown EXCEPT ![c] = Head(out[c]).state]
  /\ UNCHANGED <<vars, epoch, pc, snap, cuts>>

Applied(c, ev) ==
  /\ cur' = [cur EXCEPT ![c] = [epoch |-> epoch, after |-> ev.seq]]
  /\ shown' = [shown EXCEPT ![c] = Promise!Apply(@, ev)]

\* The replay is sent before the live events.
TakeReplayed(c) ==
  /\ At(c, "on") /\ out[c] # <<>> /\ "seq" \in DOMAIN Head(out[c])
  /\ out' = [out EXCEPT ![c] = Tail(@)]
  /\ Applied(c, Head(out[c]))
  /\ UNCHANGED <<vars, epoch, pc, snap, cuts>>

TakeLive(c) ==
  /\ At(c, "on") /\ out[c] = <<>>
  /\ Receive(c)
  /\ Applied(c, Head(chan[c]))
  /\ UNCHANGED <<epoch, pc, snap, out, cuts>>

\* Mutant: a client dropped for falling behind is never told.
DroppedSilently(c) == FALSE /\ UNCHANGED followVars

\* The subscription ended and is drained: the stream ends ("dropped: fell
\* behind" on a connection, a closed channel in Stream) and the client resumes.
Dropped(c) ==
  /\ At(c, "on") /\ c \notin live /\ chan[c] = <<>> /\ out[c] = <<>>
  /\ Go(c, "off")
  /\ UNCHANGED <<vars, epoch, cur, shown, snap, out, cuts>>

\* The connection is lost, with whatever was on its way; the service closes
\* the subscription.
Cut(c) ==
  /\ cuts < MaxCuts /\ At(c, "on")
  /\ cuts' = cuts + 1
  /\ live' = live \ {c}
  /\ chan' = [chan EXCEPT ![c] = <<>>]
  /\ out' = [out EXCEPT ![c] = <<>>]
  /\ Go(c, "off")
  /\ UNCHANGED <<logVars, err, at, epoch, cur, shown, snap>>

\* The engine writes an event.
Emit(type) == AppendEvent(type) /\ UNCHANGED <<epoch, clientVars>>

\* Service.Forget, or a session dropped as empty: its log ends.
Forget == Close /\ UNCHANGED <<epoch, clientVars>>

\* The service restarts: a new log, and every connection is gone.
Restart ==
  /\ epoch < MaxEpoch /\ ~closed
  /\ epoch' = epoch + 1
  /\ next' = 1
  /\ ring' = [i \in 0..(Cap - 1) |-> NoEvent]
  /\ latest' = [t \in StateType |-> NoEvent]
  /\ hist' = <<>>
  /\ live' = {}
  /\ chan' = [c \in Subscriber |-> <<>>]
  /\ err' = [c \in Subscriber |-> "nil"]
  /\ at' = [c \in Subscriber |-> 0]
  /\ pc' = [c \in Subscriber |-> "off"]
  /\ out' = [c \in Subscriber |-> <<>>]
  /\ snap' = [c \in Subscriber |-> NoSnap]
  /\ UNCHANGED <<closed, cur, shown, cuts>>

ClientStep(c) ==
  \/ Ask(c) \/ Resume(c) \/ NeedSnapshot(c) \/ ReadLast(c) \/ ReadState(c)
  \/ Resubscribe(c) \/ ResubscribeFails(c)
  \/ TakeSnapshot(c) \/ TakeReplayed(c) \/ TakeLive(c) \/ Dropped(c)

FollowNext ==
  \/ \E type \in Type : Emit(type)
  \/ \E c \in Subscriber : ClientStep(c) \/ Cut(c)
  \/ Forget \/ Restart

\* The goroutine serving a client and the client's reader run on; engines,
\* networks and restarts owe nothing.
FollowFairness == \A c \in Subscriber : WF_followVars(ClientStep(c))

FollowSpec == FollowInit /\ [][FollowNext]_followVars /\ FollowFairness

-----------------------------------------------------------------------------
(* Properties *)

\* A client never skips or repeats an event across drops, lost connections,
\* snapshots and service restarts, except by a snapshot that moves it forward
\* with state at least as new (proto/log.go 13-27, session.go 456-458).
FeedPromise == Promise!FeedSpec

CaughtUp(c) == cur[c] = [epoch |-> epoch, after |-> Last]

\* Every client catches up with what was written and stays there once the
\* engine, the network and the service are quiet, unless the session is
\* forgotten.
EventuallyCaughtUp == \A c \in Subscriber : <>[](closed \/ Last = 0 \/ CaughtUp(c))
=============================================================================

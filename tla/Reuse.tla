------------------------------- MODULE Reuse -------------------------------
(***************************************************************************)
(* Handing sessions out to clients that start: CreateOrReuse of            *)
(* internal/dund/service.go against session.subscribe, both of             *)
(* internal/dund/session.go's claim. One principal, workspace and set of   *)
(* flags: the sessions that qualify. Ids grow with the creation time.      *)
(***************************************************************************)
EXTENDS Naturals

CONSTANTS
  Client,
  MaxSession   \* bound: sessions ever created

ASSUME ReuseAssumption == MaxSession \in Nat

Session == 1..MaxSession
NoSession == 0

VARIABLES
  sessions,   \* s.sessions
  claimed,    \* handed out less than reuseHold ago, and not subscribed to since
  subs,       \* per session: the clients its log has as subscribers
  at,         \* per client: "idle"; "look", "create", "given" a session by
              \* CreateOrReuse; "comes" to one it knows; "cleared", "snap", "on"
  of,         \* per client: the session it was given or comes to
  exposed,    \* clients given a session whose claim ended before they came
  free        \* what the CreateOrReuse under way found without a subscriber

reuseVars == <<sessions, claimed, subs, at, of, exposed, free>>

ReuseInit ==
  /\ sessions = {} /\ claimed = {} /\ exposed = {} /\ free = {}
  /\ subs = [s \in Session |-> {}]
  /\ at = [c \in Client |-> "idle"] /\ of = [c \in Client |-> NoSession]

Goes(c, step) == at' = [at EXCEPT ![c] = step]
Given(c, s, step) == Goes(c, step) /\ of' = [of EXCEPT ![c] = s]

\* Who was given s and has not come yet.
Awaited(s) == {c \in Client : at[c] = "given" /\ of[c] = s}

\* CreateOrReuse holds s.mu from its look to its choice.
MuIsFree == \A d \in Client : at[d] # "look"

\* reusable asks each log for its subscribers first...
Looks(c) ==
  /\ at[c] = "idle" /\ MuIsFree
  /\ Goes(c, "look")
  /\ free' = {s \in sessions : subs[s] = {}}
  /\ UNCHANGED <<sessions, claimed, subs, of, exposed>>

\* ...and then, under its own lock, for its claim. The most recent one left is
\* claimed; without one, a new session is made.
Chooses(c) ==
  LET left == free \ claimed IN
  /\ at[c] = "look" /\ free' = {}
  /\ IF left = {}
     THEN Goes(c, "create") /\ UNCHANGED <<claimed, of>>
     ELSE \E s \in left :
            /\ \A r \in left : r <= s
            /\ claimed' = claimed \union {s}
            /\ Given(c, s, "given")
  /\ UNCHANGED <<sessions, subs, exposed>>

\* A new session goes into s.sessions, and to c.
Lists(c, s, step) ==
  /\ MuIsFree /\ sessions = 1..(s - 1) /\ sessions' = 1..s
  /\ Given(c, s, step)
  /\ UNCHANGED <<subs, free, exposed>>

\* Mutant: the new session can be looked at before it is claimed.
CreatesUnclaimed(c) ==
  /\ at[c] = "create" /\ UNCHANGED claimed
  /\ \E s \in Session : Lists(c, s, "given")

\* create, the session claimed before it is in s.sessions.
Creates(c) ==
  /\ at[c] = "create"
  /\ \E s \in Session : Lists(c, s, "given") /\ claimed' = claimed \union {s}

\* Create: a session somebody wants for himself is not claimed.
CreatesOwn(c) ==
  /\ at[c] = "idle" /\ UNCHANGED claimed
  /\ \E s \in Session : Lists(c, s, "comes")

\* Any member subscribes to a session he knows: a device that picks it from the
\* list, a client that lost its connection, a Poll.
Comes(c) ==
  /\ at[c] = "idle"
  /\ \E s \in sessions : Given(c, s, "comes")
  /\ UNCHANGED <<sessions, claimed, subs, free, exposed>>

\* session.subscribe: the claim ends, whoever it was made for...
SubscribeClears(c) ==
  /\ at[c] \in {"given", "comes"}
  /\ claimed' = claimed \ {of[c]}
  /\ exposed' = (exposed \union Awaited(of[c])) \ {c}
  /\ Goes(c, "cleared")
  /\ UNCHANGED <<sessions, subs, of, free>>

\* ...and the log has the subscriber; behind a long backlog or another epoch,
\* a snapshot is made while it has none.
SubscribeAttaches(c) ==
  /\ at[c] \in {"cleared", "snap"}
  /\ subs' = [subs EXCEPT ![of[c]] = @ \union {c}]
  /\ Goes(c, "on")
  /\ UNCHANGED <<sessions, claimed, of, free, exposed>>

SubscribeSnapshots(c) ==
  /\ at[c] = "cleared" /\ Goes(c, "snap")
  /\ UNCHANGED <<sessions, claimed, subs, of, free, exposed>>

\* Detach, Leave, the end of a Poll, a dropped stream or a lost connection; a
\* client may also never subscribe.
Departs(c) ==
  /\ at[c] \in {"given", "comes", "on"}
  /\ Given(c, NoSession, "idle")
  /\ subs' = [s \in Session |-> subs[s] \ {c}]
  /\ exposed' = exposed \ {c}
  /\ UNCHANGED <<sessions, claimed, free>>

\* reuseHold after it was handed out.
HoldPasses(s) ==
  /\ s \in claimed
  /\ claimed' = claimed \ {s}
  /\ exposed' = exposed \union Awaited(s)
  /\ UNCHANGED <<sessions, subs, at, of, free>>

ReuseNext ==
  \/ \E c \in Client :
       \/ Looks(c) \/ Chooses(c) \/ Creates(c) \/ CreatesOwn(c) \/ Comes(c)
       \/ SubscribeClears(c) \/ SubscribeAttaches(c) \/ SubscribeSnapshots(c) \/ Departs(c)
  \/ \E s \in Session : HoldPasses(s)

ReuseSpec == ReuseInit /\ [][ReuseNext]_reuseVars

-----------------------------------------------------------------------------
\* Types; a log's subscribers are the clients that follow it.
TypeOK ==
  /\ sessions \subseteq Session
  /\ claimed \subseteq sessions /\ free \subseteq sessions
  /\ at \in [Client -> {"idle", "look", "create", "given", "comes", "cleared", "snap", "on"}]
  /\ of \in [Client -> sessions \union {NoSession}]
  /\ subs \in [Session -> SUBSET Client]
  /\ \A s \in Session : subs[s] = {c \in Client : at[c] = "on" /\ of[c] = s}
  /\ \A c \in Client :
       of[c] \in IF at[c] \in {"idle", "look", "create"} THEN {NoSession} ELSE sessions
  /\ exposed \subseteq {c \in Client : at[c] = "given"}

\* Two clients that were handed a session and have not subscribed yet have
\* different ones (service.go 190-192, 288-292), as long as nothing else ended
\* the claim of either: a claim is ended by the hold's passing and by every
\* member's subscribe (session.go 437), not only by that of the client it is for.
TwoStartsDiffer ==
  \A c, d \in Client : c # d /\ at[c] = "given" /\ at[d] = "given" /\ of[c] = of[d]
                         => c \in exposed \/ d \in exposed
=============================================================================

------------------------------ MODULE Upgrade ------------------------------
(***************************************************************************)
(* The coordinated upgrade of dund (internal/dund/upgrade.go), with the    *)
(* planned stop, the resume notes in the registry (service.go) and what    *)
(* main does with them (dundcli/cli.go): an upgrade waits for the sessions *)
(* that work, tells them, installs, cuts what is left, records it and      *)
(* restarts, and the next dund wakes those it cut or told.                 *)
(*                                                                         *)
(* What a session is told is kept as what it is owed: "wake" after "wrap   *)
(* up for the upgrade", "resume" after work of it was cut.                 *)
(***************************************************************************)
EXTENDS Naturals

CONSTANTS
  Sess,
  MaxRequest,  \* bound: upgrades asked for
  MaxWork,     \* bound: turns and jobs that people start
  MaxStart     \* bound: starts of dund

ASSUME UpgradeAssumption ==
  /\ MaxRequest \in Nat /\ MaxWork \in Nat /\ MaxStart \in Nat \ {0}

Loop == {"loop1", "loop2"}     \* upgradeLoop goroutines: an old one may be failing still
Worker == Loop \union {"main"} \* those that may prepare a stop
Note == {"", "done", "cut", "crash"}

VARIABLES
  handover,  \* a service manager's dund: it installs, and the manager starts it
  state,     \* up.st.State, "none" for nil
  at,        \* per worker: where it is
  todo,      \* per worker: the sessions its for loop has still to do
  found,     \* per worker: the sessions it found working
  cur,       \* per loop: the sessions it is at now (none or one)
  prep,      \* per worker and session: its prepareStop goroutine
  work,      \* per session: "idle", "turn", "job" (jobs or sub-agents)
  live,      \* the sessions with an engine
  noticed,   \* ses.noticed
  resume,    \* ses.resume: the note that wakes it after the next start
  disk,      \* the notes in sessions.json
  midturn,   \* sessions whose transcript ends in the middle of a turn
  wake,      \* resumeFlagged: the sessions left, the one it is at, and how far
  phase,     \* "up", "down" after a stop, "crashed"
  upgraded,  \* an upgrade ends this dund, not a signal
  owed,      \* per session: "nothing", "wake", "resume"
  sent,      \* sessions that got the note that is on disk
  overlap,   \* sessions two of these activities were at, at the same time
  asked, begun, starts   \* what the bounds count

up == <<handover, state>>
loops == <<at, todo, found, cur, prep>>
sessions == <<work, live, noticed, resume, owed, midturn>>
file == <<disk, sent>>
life == <<phase, upgraded, starts>>
vars == <<up, loops, sessions, file, wake, life, overlap, asked, begun>>

WakeDone == [left |-> {}, at |-> {}, step |-> "done"]
NoPrep == [w \in Worker |-> [s \in Sess |-> "none"]]
Nobody == [w \in Worker |-> {}]

Init ==
  /\ handover \in BOOLEAN /\ state = "none"
  /\ at = [w \in Worker |-> "off"] /\ todo = Nobody /\ found = Nobody
  /\ cur = Nobody
  /\ prep = NoPrep
  /\ work = [s \in Sess |-> "idle"] /\ live = Sess /\ noticed = {}
  /\ resume = [s \in Sess |-> ""] /\ disk = [s \in Sess |-> ""]
  /\ midturn = {} /\ wake = WakeDone
  /\ phase = "up" /\ upgraded = FALSE
  /\ owed = [s \in Sess |-> "nothing"] /\ sent = {} /\ overlap = {}
  /\ asked = 0 /\ begun = 0 /\ starts = 1

Working == {s \in Sess : s \in live /\ work[s] # "idle"}   \* session.waiting
Goes(w, step) == at' = [at EXCEPT ![w] = step]
Scans(w, step) == Goes(w, step) /\ todo' = [todo EXCEPT ![w] = Sess]
Drop(w, s) == todo' = [todo EXCEPT ![w] = @ \ {s}]

\* Who else is at s: the wake-up of the last stop, another stop, or a failed
\* upgrade that has still to go over it.
Busied(w, s) ==
  \/ s \in wake.left \union wake.at
  \/ \E v \in Worker \ {w} : at[v] \in {"prepare", "save", "ready", "close"}
  \/ \E l \in Loop \ {w} : at[l] \in {"failing", "carry"} /\ s \in todo[l] \union cur[l]
PastLooking(w, s) == at[w] \in {"prepare", "save", "ready", "close"} /\ s \notin todo[w] \union found[w]
Touches(w, S) == overlap' = overlap \union {s \in S : Busied(w, s)}

-----------------------------------------------------------------------------
\* The people and the engines.
BeginWork(s) ==
  /\ phase = "up" /\ begun < MaxWork /\ begun' = begun + 1
  /\ work' = [work EXCEPT ![s] = "turn"] /\ live' = live \union {s}
  /\ overlap' = overlap \union (IF \E w \in Worker : PastLooking(w, s) THEN {s} ELSE {})
  /\ UNCHANGED <<up, loops, noticed, resume, owed, midturn, file, wake, life, asked>>

\* A turn may leave jobs or sub-agents running.
EndWork(s) ==
  /\ phase = "up" /\ s \in Working
  /\ \/ work' = [work EXCEPT ![s] = "idle"]
     \/ work[s] = "turn" /\ work' = [work EXCEPT ![s] = "job"]
  /\ UNCHANGED <<up, loops, live, noticed, resume, owed, midturn, file, wake, life, overlap, asked, begun>>

\* RequestUpgrade, none pending (one that is pending only gets another target,
\* a restarting one refuses).
RequestUpgrade ==
  /\ phase = "up" /\ asked < MaxRequest /\ asked' = asked + 1
  /\ state = "none" /\ state' = "pending"
  /\ \E l \in Loop : at[l] = "off" /\ Scans(l, "look") /\ found' = [found EXCEPT ![l] = {}]
  /\ UNCHANGED <<handover, cur, prep, sessions, file, wake, life, overlap, begun>>

-----------------------------------------------------------------------------
\* upgradeLoop. Service.Waiting asks the sessions one after another.
LoopLooks(l, s) ==
  /\ phase = "up" /\ at[l] = "look" /\ s \in todo[l] /\ Drop(l, s)
  /\ found' = [found EXCEPT ![l] = @ \union ({s} \cap Working)]
  /\ UNCHANGED <<up, at, cur, prep, sessions, file, wake, life, overlap, asked, begun>>

\* Mutant: those who were told and wrapped up are not woken.
WrappedUpForgets == [s \in Sess |-> resume[s]]

\* Under up.mu: the noticed ones get the note of their waking.
WrappedUp == [s \in Sess |-> IF s \in noticed /\ resume[s] = "" THEN "done" ELSE resume[s]]

\* None works, or UpgradeNow was called, or upgradeGrace is over, which may be
\* at any time.
LoopGoesOn(l) ==
  /\ phase = "up" /\ at[l] = "look" /\ todo[l] = {}
  /\ resume' = WrappedUp /\ Touches(l, noticed)
  /\ IF handover
     THEN Goes(l, "install") /\ UNCHANGED <<state, todo, found>>
     ELSE state' = "restarting" /\ Scans(l, "prepare") /\ found' = [found EXCEPT ![l] = {}]
  /\ UNCHANGED <<handover, cur, prep, work, live, noticed, owed, midturn, file, wake, life, asked, begun>>

LoopWaits(l) ==
  /\ phase = "up" /\ at[l] = "look" /\ todo[l] = {} /\ found[l] # {}
  /\ Scans(l, "notice")
  /\ UNCHANGED <<up, found, cur, prep, sessions, file, wake, life, overlap, asked, begun>>

\* noticeBusy: a session that works is marked, once...
NoticeMarks(l, s) ==
  /\ phase = "up" /\ at[l] = "notice" /\ s \in todo[l] /\ Drop(l, s)
  /\ IF s \in Working \ noticed
     THEN /\ noticed' = noticed \union {s} /\ cur' = [cur EXCEPT ![l] = {s}]
          /\ Goes(l, "tell") /\ Touches(l, {s})
     ELSE UNCHANGED <<at, cur, noticed, overlap>>
  /\ UNCHANGED <<up, found, prep, work, live, resume, owed, midturn, file, wake, life, asked, begun>>

\* ...and told: an idle engine begins a turn for it, one that stopped hears nothing.
NoticeTells(l, s) ==
  /\ phase = "up" /\ at[l] = "tell" /\ s \in cur[l]
  /\ Goes(l, "notice") /\ cur' = [cur EXCEPT ![l] = {}]
  /\ IF s \in live
     THEN /\ owed' = [owed EXCEPT ![s] = IF @ = "nothing" THEN "wake" ELSE @]
          /\ work' = [work EXCEPT ![s] = IF @ = "idle" THEN "turn" ELSE @]
     ELSE UNCHANGED <<owed, work>>
  /\ Touches(l, {s})
  /\ UNCHANGED <<up, todo, found, prep, live, noticed, resume, midturn, file, wake, life, asked, begun>>

\* The poll's timer, or a kick.
LoopSleeps(l) ==
  /\ phase = "up" /\ at[l] = "notice" /\ todo[l] = {}
  /\ Scans(l, "look") /\ found' = [found EXCEPT ![l] = {}]
  /\ UNCHANGED <<up, cur, prep, sessions, file, wake, life, overlap, asked, begun>>

\* installHandover, all or nothing.
LoopInstalls(l) ==
  /\ phase = "up" /\ at[l] = "install"
  /\ state' = "restarting"
  /\ Scans(l, "prepare") /\ found' = [found EXCEPT ![l] = {}]
  /\ UNCHANGED <<handover, cur, prep, sessions, file, wake, life, overlap, asked, begun>>

\* failUpgrade: nothing pending any more; then over the sessions.
LoopFails(l) ==
  /\ phase = "up" /\ at[l] = "install"
  /\ state' = "none" /\ Scans(l, "failing")
  /\ UNCHANGED <<handover, found, cur, prep, sessions, file, wake, life, overlap, asked, begun>>

\* A note of the last stop that has not been sent is forgotten with the others.
Unsent(s) == owed[s] = "resume" \/ (owed[s] = "wake" /\ s \notin noticed)

FailForgets(l, s) ==
  /\ phase = "up" /\ at[l] = "failing" /\ s \in todo[l] /\ Drop(l, s)
  /\ noticed' = noticed \ {s} /\ resume' = [resume EXCEPT ![s] = ""]
  /\ IF s \in noticed
     THEN Goes(l, "carry") /\ cur' = [cur EXCEPT ![l] = {s}]
     ELSE UNCHANGED <<at, cur>>
  /\ overlap' = overlap \union IF Busied(l, s) \/ Unsent(s) THEN {s} ELSE {}
  /\ UNCHANGED <<up, found, prep, work, live, owed, midturn, file, wake, life, asked, begun>>

\* Mutant: the ones that were told to wrap up are not told it is off.
FailTellsNobody(l, s) ==
  /\ phase = "up" /\ at[l] = "carry" /\ s \in cur[l]
  /\ Goes(l, "failing") /\ cur' = [cur EXCEPT ![l] = {}]
  /\ UNCHANGED <<up, todo, found, prep, sessions, file, wake, life, overlap, asked, begun>>

FailTells(l, s) ==
  /\ phase = "up" /\ at[l] = "carry" /\ s \in cur[l]
  /\ Goes(l, "failing") /\ cur' = [cur EXCEPT ![l] = {}]
  /\ IF s \in live
     THEN /\ owed' = [owed EXCEPT ![s] = IF @ = "wake" THEN "nothing" ELSE @]
          /\ work' = [work EXCEPT ![s] = IF @ = "idle" THEN "turn" ELSE @]
     ELSE UNCHANGED <<owed, work>>
  /\ UNCHANGED <<up, todo, found, prep, live, noticed, resume, midturn, file, wake, life, overlap, asked, begun>>

FailEnds(l) ==
  /\ phase = "up" /\ at[l] = "failing" /\ todo[l] = {}
  /\ Goes(l, "off")
  /\ UNCHANGED <<up, todo, found, cur, prep, sessions, file, wake, life, overlap, asked, begun>>

-----------------------------------------------------------------------------
\* PrepareStop, by a loop or by main for a signal: over the sessions, a
\* goroutine for each that works...
PrepareLooks(w, s) ==
  /\ phase = "up" /\ at[w] = "prepare" /\ s \in todo[w] /\ Drop(w, s)
  /\ IF s \in Working
     THEN /\ found' = [found EXCEPT ![w] = @ \union {s}]
          /\ prep' = [prep EXCEPT ![w][s] = "begin"]
          /\ owed' = [owed EXCEPT ![s] = "resume"]
     ELSE UNCHANGED <<found, prep, owed>>
  /\ Touches(w, {s})
  /\ UNCHANGED <<up, at, cur, work, live, noticed, resume, midturn, file, wake, life, asked, begun>>

\* ...which interrupts the turn, waits at most interruptWait for its end
\* (EndWork, or not), and leaves the note of what was cut.
PrepareSets(w, s) ==
  /\ phase = "up" /\ prep[w][s] = "begin"
  /\ prep' = [prep EXCEPT ![w][s] = "done"]
  /\ resume' = [resume EXCEPT ![s] = "cut"] /\ Touches(w, {s})
  /\ UNCHANGED <<up, at, todo, found, cur, work, live, noticed, owed, midturn, file, wake, life, asked, begun>>

\* All done: anything to record?
Flagged(w) == found[w] # {} \/ \E s \in Sess \ Working : resume[s] # ""

Prepared(w) == Goes(w, IF w = "main" THEN "close" ELSE "ready")

PrepareJoins(w) ==
  /\ phase = "up" /\ at[w] = "prepare" /\ todo[w] = {}
  /\ \A s \in found[w] : prep[w][s] = "done"
  /\ IF Flagged(w) THEN Goes(w, "save") ELSE Prepared(w)
  /\ UNCHANGED <<up, todo, found, cur, prep, sessions, file, wake, life, overlap, asked, begun>>

\* saveRegistry. A note that is sent and not cleared yet is written again.
SaveRegistry ==
  /\ disk' = resume
  /\ sent' = sent \intersect (IF wake.step = "clear" THEN wake.at ELSE {})

PrepareSaves(w) ==
  /\ phase = "up" /\ at[w] = "save" /\ SaveRegistry /\ Prepared(w)
  /\ UNCHANGED <<up, todo, found, cur, prep, sessions, wake, life, overlap, asked, begun>>

\* Anything else that saves the registry meanwhile.
OtherSave ==
  /\ phase = "up" /\ disk # resume /\ SaveRegistry
  /\ UNCHANGED <<up, loops, sessions, wake, life, overlap, asked, begun>>

\* main: a signal, or UpgradeReady.
Terminate ==
  /\ phase = "up" /\ at["main"] = "off" /\ starts < MaxStart
  /\ Scans("main", "prepare") /\ found' = [found EXCEPT !["main"] = {}]
  /\ Touches("main", Sess)
  /\ UNCHANGED <<up, cur, prep, sessions, file, wake, life, asked, begun>>

TakesReady(l) ==
  /\ phase = "up" /\ at[l] = "ready" /\ at["main"] = "off"
  /\ at' = [at EXCEPT ![l] = "off", !["main"] = "close"]
  /\ upgraded' = TRUE
  /\ UNCHANGED <<up, todo, found, cur, prep, sessions, file, wake, phase, starts, overlap, asked, begun>>

\* Service.Close and the end of the process; what a turn was at stays in its
\* transcript. After a signal nobody promised the ones that were told anything.
EndsHow(how) ==
  /\ phase' = how
  /\ midturn' = {s \in Working : work[s] = "turn"} \union (midturn \ live)
  /\ work' = [s \in Sess |-> "idle"] /\ live' = {}
  /\ at' = [w \in Worker |-> "off"] /\ todo' = Nobody /\ found' = Nobody /\ cur' = Nobody
  /\ prep' = NoPrep
  /\ UNCHANGED <<up, noticed, resume, file, wake, upgraded, starts, asked, begun>>

Stops ==
  /\ phase = "up" /\ at["main"] = "close" /\ EndsHow("down")
  /\ owed' = [s \in Sess |-> IF owed[s] = "wake" /\ ~upgraded THEN "nothing" ELSE owed[s]]
  /\ UNCHANGED overlap

Crash ==
  /\ phase = "up" /\ starts < MaxStart /\ EndsHow("crashed")
  /\ owed' = [s \in Sess |-> "nothing"]
  /\ UNCHANGED overlap

\* New, in the next process: the notes of the file, and one for a transcript
\* that ends in a turn, if it is recent. The wake-up begins.
New ==
  /\ phase # "up" /\ starts < MaxStart /\ starts' = starts + 1
  /\ phase' = "up" /\ state' = "none"
  /\ noticed' = {} /\ overlap' = {} /\ upgraded' = FALSE
  /\ \E recent \in SUBSET midturn :
       resume' = [s \in Sess |-> IF disk[s] = "" /\ s \in recent THEN "crash" ELSE disk[s]]
  /\ wake' = [left |-> Sess, at |-> {}, step |-> "read"]
  /\ owed' = [s \in Sess |-> IF s \in overlap THEN "nothing" ELSE owed[s]]
  /\ UNCHANGED <<handover, at, todo, found, cur, prep, work, live, midturn, file, asked, begun>>

-----------------------------------------------------------------------------
\* resumeFlagged: read the note, send it (its engine starts), clear it...
WakeReads(s) ==
  /\ phase = "up" /\ wake.step = "read" /\ s \in wake.left
  /\ wake' = IF resume[s] = "" THEN [wake EXCEPT !.left = @ \ {s}]
             ELSE [left |-> wake.left \ {s}, at |-> {s}, step |-> "send"]
  /\ UNCHANGED <<up, loops, sessions, file, life, overlap, asked, begun>>

WakeSends(s) ==
  /\ phase = "up" /\ wake.step = "send" /\ s \in wake.at
  /\ wake' = [wake EXCEPT !.step = "clear"]
  /\ live' = live \union {s} /\ work' = [work EXCEPT ![s] = "turn"]
  /\ owed' = [owed EXCEPT ![s] = "nothing"]
  /\ sent' = sent \union {s}
  /\ overlap' = overlap \union (IF \E w \in Worker : PastLooking(w, s) THEN {s} ELSE {})
  /\ UNCHANGED <<up, loops, noticed, resume, midturn, disk, life, asked, begun>>

\* The engine does not start: the note waits for the next start of dund.
WakeFails(s) ==
  /\ phase = "up" /\ wake.step = "send" /\ s \in wake.at
  /\ wake' = [wake EXCEPT !.step = "read", !.at = {}]
  /\ UNCHANGED <<up, loops, sessions, file, life, overlap, asked, begun>>

WakeClears(s) ==
  /\ phase = "up" /\ wake.step = "clear" /\ s \in wake.at
  /\ wake' = [wake EXCEPT !.step = "read", !.at = {}]
  /\ resume' = [resume EXCEPT ![s] = ""]
  /\ UNCHANGED <<up, loops, work, live, noticed, owed, midturn, file, life, overlap, asked, begun>>

\* Mutant: what was sent is not saved.
WakeEndsUnsaved ==
  /\ phase = "up" /\ wake.step = "read" /\ wake.left = {}
  /\ wake' = WakeDone
  /\ UNCHANGED <<up, loops, sessions, file, life, overlap, asked, begun>>

\* ...and when all were gone over, save if any was sent.
WakeEnds ==
  /\ phase = "up" /\ wake.step = "read" /\ wake.left = {}
  /\ wake' = WakeDone
  /\ IF sent # {} THEN disk' = resume /\ sent' = {} ELSE UNCHANGED file
  /\ UNCHANGED <<up, loops, sessions, life, overlap, asked, begun>>

-----------------------------------------------------------------------------
LoopStep(l) ==
  \/ LoopGoesOn(l) \/ LoopWaits(l) \/ LoopSleeps(l) \/ LoopInstalls(l) \/ LoopFails(l) \/ FailEnds(l)
  \/ TakesReady(l)
  \/ \E s \in Sess : \/ LoopLooks(l, s) \/ NoticeMarks(l, s)
                      \/ NoticeTells(l, s) \/ FailForgets(l, s) \/ FailTells(l, s)

PrepareStep(w) ==
  \/ PrepareJoins(w) \/ PrepareSaves(w)
  \/ \E s \in Sess : PrepareLooks(w, s) \/ PrepareSets(w, s)

WakeStep ==
  WakeEnds \/ \E s \in Sess : WakeReads(s) \/ WakeSends(s) \/ WakeFails(s) \/ WakeClears(s)

Next ==
  \/ \E s \in Sess : BeginWork(s) \/ EndWork(s)
  \/ RequestUpgrade \/ OtherSave \/ Terminate \/ Stops \/ Crash \/ New
  \/ \E l \in Loop : LoopStep(l)
  \/ \E w \in Worker : PrepareStep(w)
  \/ WakeStep

Spec == Init /\ [][Next]_vars

-----------------------------------------------------------------------------
\* A planned stop leaves in the file the note that wakes each session it found
\* working, and an upgrade's also one for each it told to wrap up (upgrade.go
\* 22-29, 296-300), unless another activity was at the session at that time or
\* its work began behind the stop's back.
StopRecorded ==
  phase = "down" => \A s \in Sess \ overlap : owed[s] = "nothing" \/ disk[s] # ""

\* After a failed upgrade no session that was told to wrap up is left so
\* (upgrade.go 237-247).
FailureFreesAll ==
  phase = "up" /\ state = "none" /\ wake.step = "done" /\ (\A w \in Worker : at[w] = "off")
    => \A s \in live \ overlap : resume[s] = "" => owed[s] # "wake"

\* A note that was sent is off the file once all were (upgrade.go 399-401); only
\* a dund that ends before may send it again.
SentOnce == wake.step = "done" => sent = {}
=============================================================================

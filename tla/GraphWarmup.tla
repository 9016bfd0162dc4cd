----------------------------- MODULE GraphWarmup -----------------------------
(***************************************************************************)
(* codenib/mcp/graph_warmup.py: the one background thread that prepares    *)
(* the symbol graph for a server connection.  Calls start it and wait for  *)
(* it; closing the connection cancels it, joins it and lets no other one   *)
(* start.  A "with self._condition" block is one step; a build runs        *)
(* outside it, as do wait's sleep and close's join.                        *)
(*                                                                         *)
(* _closed and _stop are set together and are one variable.  A worker is   *)
(* one Thread object; its report under the condition is its last step.     *)
(***************************************************************************)
CONSTANTS
  Caller,          \* threads that use the warmup: calls, lifespan, init_server
  Worker,          \* Thread objects; as many bound how often a build starts
  Fingerprint,     \* source fingerprints of the targets
  NoTarget, NoWorker,
  MayFailToStart   \* whether Thread.start may raise (no thread is available)

ASSUME WarmupAssumption ==
  NoWorker \notin Worker /\ NoTarget \notin Fingerprint /\ MayFailToStart \in BOOLEAN

VARIABLES
  state, target, thread,  \* _state, _target's fingerprint, _thread
  closed,                 \* _closed and _stop
  stage,                  \* how far each Thread object is
  call, joins             \* what each caller is inside, and what it joins

vars == <<state, target, thread, closed, stage, call, joins>>

Outcome == {"ready", "failed", "cancelled"}

\* Threads whose target is being prepared, or whose outcome is not yet known.
Active == {w \in Worker : stage[w] \in {"started", "preparing"} \cup Outcome}

\* Types; the first start ends idleness, and its target and thread are remembered.
TypeOK ==
  /\ state \in {"idle", "running"} \cup Outcome
  /\ target \in Fingerprint \cup {NoTarget}
  /\ thread \in Worker \cup {NoWorker}
  /\ closed \in BOOLEAN
  /\ stage \in [Worker -> {"new", "unstarted", "started", "preparing", "ended"}
                          \cup Outcome]
  /\ call \in [Caller -> {"free", "waiting", "polling", "joining", "closed"}]
  /\ joins \in [Caller -> Worker \cup {NoWorker}]
  /\ thread = NoWorker => \A w \in Worker : stage[w] = "new"
  /\ state = "idle" <=> thread = NoWorker
  /\ state = "idle" <=> target = NoTarget

Init ==
  /\ state = "idle" /\ target = NoTarget /\ thread = NoWorker
  /\ closed = FALSE
  /\ stage = [w \in Worker |-> "new"]
  /\ call = [c \in Caller |-> "free"]
  /\ joins = [c \in Caller |-> NoWorker]
-----------------------------------------------------------------------------
Goto(c, where) == call' = [call EXCEPT ![c] = where]
Reaches(w, where) == stage' = [stage EXCEPT ![w] = where]

\* Broken on purpose: a running build is replaced when the source changed.
MayBeginAnyway(t, force) ==
  ~closed /\ (t = target /\ ~force => state = "idle")

\* Broken on purpose: closing is not looked at.
MayBeginClosed(t, force) ==
  /\ state # "running"
  /\ ~(t = target /\ ~force /\ state \in {"ready", "failed"})

\* start goes on to build: not closed, nothing running, and the target is new
\* or forced.  In every other case it raises or returns, and changes nothing.
MayBegin(t, force) ==
  /\ ~closed
  /\ state # "running"
  /\ ~(t = target /\ ~force /\ state \in {"ready", "failed"})

\* start: the state is set before the thread is started.
Start(c, w, t, force) ==
  /\ call[c] = "free" /\ stage[w] = "new"
  /\ MayBegin(t, force)
  /\ state' = "running" /\ target' = t /\ thread' = w
  /\ \/ Reaches(w, "started")
     \/ MayFailToStart /\ Reaches(w, "unstarted")
  /\ UNCHANGED <<closed, call, joins>>

\* wait sleeps only while a build runs, for ever or for a time.
Wait(c) ==
  /\ call[c] = "free" /\ state = "running"
  /\ Goto(c, "waiting") \/ Goto(c, "polling")
  /\ UNCHANGED <<state, target, thread, closed, stage, joins>>

Wake(c) ==
  /\ call[c] \in {"waiting", "polling"} /\ state # "running"
  /\ Goto(c, "free")
  /\ UNCHANGED <<state, target, thread, closed, stage, joins>>

TimeOut(c) ==
  /\ call[c] = "polling"
  /\ Goto(c, "free")
  /\ UNCHANGED <<state, target, thread, closed, stage, joins>>

Close(c) ==
  /\ call[c] = "free"
  /\ closed' = TRUE
  /\ joins' = [joins EXCEPT ![c] = thread]
  /\ Goto(c, "joining")
  /\ UNCHANGED <<state, target, thread, stage>>

\* join returns when the thread is over; it raises if it was never started.
Join(c) ==
  /\ call[c] = "joining"
  /\ joins[c] # NoWorker => stage[joins[c]] \in {"ended", "unstarted"}
  /\ Goto(c, "closed")
  /\ UNCHANGED <<state, target, thread, closed, stage, joins>>
-----------------------------------------------------------------------------
\* compilation_cancellation looks at _stop before it runs the build...
Enter(w) ==
  /\ stage[w] = "started"
  /\ Reaches(w, IF closed THEN "cancelled" ELSE "preparing")
  /\ UNCHANGED <<state, target, thread, closed, call, joins>>

\* ... and once more when the build has returned.
PrepareEnds(w) ==
  /\ stage[w] = "preparing"
  /\ \/ Reaches(w, "failed")
     \/ Reaches(w, IF closed THEN "cancelled" ELSE "ready")
  /\ UNCHANGED <<state, target, thread, closed, call, joins>>

\* Broken on purpose: a provider's fallback swallows the cancellation and builds on.
PrepareIsCancelledAndRetried(w) ==
  stage[w] = "preparing" /\ closed /\ UNCHANGED vars

\* The build polls _stop between its steps and while it waits for subprocesses.
PrepareIsCancelled(w) ==
  /\ stage[w] = "preparing" /\ closed
  /\ Reaches(w, "cancelled")
  /\ UNCHANGED <<state, target, thread, closed, call, joins>>

\* Broken on purpose: a cancellation, no Exception, ends the thread unreported.
ReportExceptions(w) ==
  /\ stage[w] \in Outcome
  /\ state' = IF stage[w] = "cancelled" THEN state ELSE stage[w]
  /\ Reaches(w, "ended")
  /\ UNCHANGED <<target, thread, closed, call, joins>>

Report(w) ==
  /\ stage[w] \in Outcome
  /\ state' = stage[w]
  /\ Reaches(w, "ended")
  /\ UNCHANGED <<target, thread, closed, call, joins>>

Next ==
  \/ \E c \in Caller :
       \/ \E w \in Worker, t \in Fingerprint, force \in BOOLEAN : Start(c, w, t, force)
       \/ Wait(c) \/ Wake(c) \/ TimeOut(c) \/ Close(c) \/ Join(c)
  \/ \E w \in Worker :
       Enter(w) \/ PrepareEnds(w) \/ PrepareIsCancelled(w) \/ Report(w)

Spec == Init /\ [][Next]_vars

\* Threads run; how long a build takes by itself is anybody's guess, but it does
\* poll for its cancellation.
FairSpec ==
  /\ Spec
  /\ \A c \in Caller : WF_vars(Wake(c)) /\ WF_vars(Join(c))
  /\ \A w \in Worker :
       WF_vars(Enter(w)) /\ WF_vars(PrepareIsCancelled(w)) /\ WF_vars(Report(w))
-----------------------------------------------------------------------------
\* "running" is said exactly while the remembered thread, and no other, is at
\* work: nobody waits for a build that is over, or starts a second one.
RunningIsTheThread ==
  Active = IF state = "running" THEN {thread} ELSE {}

\* Once any close has returned, no build runs or ever starts again: whoever
\* owned the connection may release the source and the cache.
ClosedIsQuiet == (\E c \in Caller : call[c] = "closed") => Active = {}

\* One build at a time: for the builds the warmup is a lock.
Builds == INSTANCE AbstractLock WITH Task <- Worker, inside <- Active
OneBuildAtATime == Builds!Spec

\* close returns although no build ever finishes by itself.
CloseReturns == \A c \in Caller : call[c] = "joining" ~> call[c] = "closed"

\* A call that waits without a limit, holding the server's context lock, comes
\* back once the connection is closed.
NoWaitOutlivesClose ==
  \A c \in Caller : closed /\ call[c] = "waiting" ~> call[c] = "free"
=============================================================================

-------------------------- MODULE GraphWarmup_proofs --------------------------
(***************************************************************************)
(* Theorems about GraphWarmup for any callers, threads and fingerprints.   *)
(***************************************************************************)
EXTENDS GraphWarmup, TLAPS

\* A close joins the last thread there will ever be.
JoinsTheLast ==
  \A c \in Caller : call[c] \in {"joining", "closed"} => closed /\ joins[c] = thread

\* A close that has returned found that thread at an end.
Joined ==
  \A c \in Caller : call[c] = "closed" /\ thread # NoWorker =>
    stage[thread] \in {"ended", "unstarted"}

\* Whether a start has set "running" and then failed to start its thread.
NeverStarted == thread # NoWorker /\ stage[thread] = "unstarted"

\* At most the remembered thread is at work, and it is exactly while "running"
\* is said of a thread that has started.
OnlyTheThread ==
  Active = IF state = "running" /\ ~NeverStarted THEN {thread} ELSE {}

IInv == TypeOK /\ OnlyTheThread /\ JoinsTheLast /\ Joined

\* As long as threads start, every one of them does.
AllStart == MayFailToStart = FALSE => \A w \in Worker : stage[w] # "unstarted"

\* The steps of the callers, and of the threads, apart from start's.
Calls(c) == Wait(c) \/ Wake(c) \/ TimeOut(c) \/ Close(c) \/ Join(c)
Works(w) == Enter(w) \/ PrepareEnds(w) \/ PrepareIsCancelled(w) \/ Report(w)

LEMMA InitIInv == Init => IInv
  BY WarmupAssumption
     DEF Init, IInv, TypeOK, OnlyTheThread, NeverStarted, Active, Outcome, JoinsTheLast,
         Joined

LEMMA StepType == ASSUME TypeOK, [Next]_vars PROVE TypeOK'
<1>1. CASE UNCHANGED vars
  BY <1>1 DEF TypeOK, vars
<1>2. ASSUME NEW c \in Caller, NEW w \in Worker, NEW t \in Fingerprint,
             NEW force \in BOOLEAN, Start(c, w, t, force)
      PROVE  TypeOK'
  BY <1>2, WarmupAssumption DEF Start, TypeOK, Reaches
<1>3. ASSUME NEW c \in Caller, Calls(c) PROVE TypeOK'
  BY <1>3 DEF Calls, Wait, Wake, TimeOut, Close, Join, Goto, TypeOK
<1>4. ASSUME NEW w \in Worker, Works(w) PROVE TypeOK'
  <2>1. CASE Enter(w) \/ PrepareEnds(w) \/ PrepareIsCancelled(w)
    BY <2>1 DEF Enter, PrepareEnds, PrepareIsCancelled, Reaches, TypeOK, Outcome
  <2>2. CASE Report(w)
    BY <2>2 DEF Report, Reaches, TypeOK, Outcome
  <2> QED
    BY <1>4, <2>1, <2>2 DEF Works
<1> QED
  BY <1>1, <1>2, <1>3, <1>4 DEF Next, Calls, Works

\* The steps that change who is at work: a start that succeeds begins it, and
\* only the report of the thread ends it.
LEMMA StepActive ==
  ASSUME IInv, [Next]_vars
  PROVE  /\ OnlyTheThread'
         /\ \/ Active' = Active
            \/ Active = {} /\ \E w \in Worker : Active' = {w}
            \/ Active' = {} /\ \E w \in Worker : Active = {w}
<1> DEFINE Lock == \/ Active' = Active
                   \/ Active = {} /\ \E w \in Worker : Active' = {w}
                   \/ Active' = {} /\ \E w \in Worker : Active = {w}
<1>1. CASE UNCHANGED vars
  BY <1>1 DEF IInv, OnlyTheThread, NeverStarted, Active, vars
<1>2. ASSUME NEW c \in Caller, NEW w \in Worker, NEW t \in Fingerprint,
             NEW force \in BOOLEAN, Start(c, w, t, force)
      PROVE  OnlyTheThread' /\ Lock
  <2>1. Active = {} /\ w # NoWorker
    BY <1>2, WarmupAssumption DEF IInv, OnlyTheThread, Start, MayBegin
  <2>2. state' = "running" /\ thread' = w /\ stage = [v \in Worker |-> stage[v]]
    BY <1>2 DEF Start, IInv, TypeOK, Outcome
  <2>3. CASE stage' = [stage EXCEPT ![w] = "started"]
    <3>1. Active' = {w} /\ stage'[w] = "started"
      BY <2>1, <2>2, <2>3 DEF Active
    <3> QED
      BY <2>1, <2>2, <3>1 DEF OnlyTheThread, NeverStarted
  <2>4. CASE stage' = [stage EXCEPT ![w] = "unstarted"]
    <3>1. Active' = {} /\ stage'[w] = "unstarted"
      BY <2>1, <2>2, <2>4 DEF Active, Outcome
    <3> QED
      BY <2>1, <2>2, <3>1 DEF OnlyTheThread, NeverStarted
  <2> QED
    BY <1>2, <2>3, <2>4 DEF Start, Reaches
<1>3. ASSUME NEW c \in Caller, Calls(c) PROVE OnlyTheThread' /\ Lock
  BY <1>3 DEF Calls, Wait, Wake, TimeOut, Close, Join, IInv, OnlyTheThread, NeverStarted,
              Active
<1>4. ASSUME NEW w \in Worker, Enter(w) \/ PrepareEnds(w) \/ PrepareIsCancelled(w)
      PROVE  OnlyTheThread' /\ Lock
  <2>1. Active' = Active
    BY <1>4 DEF Enter, PrepareEnds, PrepareIsCancelled, Reaches, Active, Outcome, IInv, TypeOK
  <2>2. UNCHANGED <<state, thread>> /\ (NeverStarted' <=> NeverStarted)
    BY <1>4 DEF Enter, PrepareEnds, PrepareIsCancelled, Reaches, NeverStarted, IInv, TypeOK,
                Outcome
  <2> QED
    BY <2>1, <2>2 DEF IInv, OnlyTheThread
<1>5. ASSUME NEW w \in Worker, Report(w) PROVE OnlyTheThread' /\ Lock
  <2>1. w \in Active /\ Active = {w}
    BY <1>5 DEF Report, IInv, OnlyTheThread, Active
  <2>2. Active' = {}
    BY <1>5, <2>1 DEF Report, Reaches, Active, IInv, TypeOK, Outcome
  <2>3. state' # "running"
    BY <1>5 DEF Report, Outcome
  <2> QED
    BY <2>1, <2>2, <2>3 DEF OnlyTheThread
<1> QED
  BY <1>1, <1>2, <1>3, <1>4, <1>5 DEF Next, Calls

LEMMA StepJoins ==
  ASSUME IInv, [Next]_vars PROVE JoinsTheLast' /\ Joined'
<1> USE DEF JoinsTheLast, Joined
<1>1. CASE UNCHANGED vars
  BY <1>1 DEF IInv, vars
<1>2. ASSUME NEW c \in Caller, NEW w \in Worker, NEW t \in Fingerprint,
             NEW force \in BOOLEAN, Start(c, w, t, force)
      PROVE  JoinsTheLast' /\ Joined'
  BY <1>2 DEF IInv, Start, MayBegin
<1>3. ASSUME NEW c \in Caller, Wait(c) \/ Wake(c) \/ TimeOut(c)
      PROVE  JoinsTheLast' /\ Joined'
  BY <1>3 DEF Wait, Wake, TimeOut, Goto, IInv, TypeOK
<1>4. ASSUME NEW c \in Caller, Close(c) PROVE JoinsTheLast' /\ Joined'
  BY <1>4 DEF Close, Goto, IInv, TypeOK
<1>5. ASSUME NEW c \in Caller, Join(c) PROVE JoinsTheLast' /\ Joined'
  BY <1>5 DEF Join, Goto, IInv, TypeOK
<1>6. ASSUME NEW w \in Worker, Works(w) PROVE JoinsTheLast' /\ Joined'
  BY <1>6 DEF Works, Enter, PrepareEnds, PrepareIsCancelled, Report, Reaches, Outcome,
              IInv, TypeOK
<1> QED
  BY <1>1, <1>2, <1>3, <1>4, <1>5, <1>6 DEF Next, Works

LEMMA StepAllStart == ASSUME TypeOK, AllStart, [Next]_vars PROVE AllStart'
<1>1. CASE UNCHANGED vars
  BY <1>1 DEF AllStart, vars
<1>2. ASSUME NEW c \in Caller, NEW w \in Worker, NEW t \in Fingerprint,
             NEW force \in BOOLEAN, Start(c, w, t, force)
      PROVE  AllStart'
  BY <1>2 DEF Start, Reaches, TypeOK, AllStart
<1>3. ASSUME NEW c \in Caller, Calls(c) PROVE AllStart'
  BY <1>3 DEF Calls, Wait, Wake, TimeOut, Close, Join, AllStart
<1>4. ASSUME NEW w \in Worker, Works(w) PROVE AllStart'
  BY <1>4 DEF Works, Enter, PrepareEnds, PrepareIsCancelled, Report, Reaches, TypeOK, AllStart
<1> QED
  BY <1>1, <1>2, <1>3, <1>4 DEF Next, Calls, Works

LEMMA Invariance == Spec => []IInv
<1>1. IInv /\ [Next]_vars => IInv'
  BY StepType, StepActive, StepJoins DEF IInv
<1> QED
  BY <1>1, InitIInv, PTL DEF Spec
-----------------------------------------------------------------------------
\* Types hold, whether or not threads start.
THEOREM TypeCorrect == Spec => []TypeOK
<1>1. Init => TypeOK
  BY InitIInv DEF IInv
<1>2. TypeOK /\ [Next]_vars => TypeOK'
  BY StepType
<1> QED
  BY <1>1, <1>2, PTL DEF Spec

\* As long as threads start, "running" means that the remembered one is at work.
THEOREM RunningMeansAThread == MayFailToStart = FALSE => (Spec => []RunningIsTheThread)
<1> SUFFICES ASSUME MayFailToStart = FALSE PROVE Spec => []RunningIsTheThread
  OBVIOUS
<1>1. Init => AllStart
  BY DEF Init, AllStart
<1>2. TypeOK /\ AllStart /\ [Next]_vars => AllStart'
  BY StepAllStart
<1>3. IInv /\ AllStart => RunningIsTheThread
  BY DEF IInv, TypeOK, AllStart, OnlyTheThread, NeverStarted, RunningIsTheThread
<1> QED
  BY <1>1, <1>2, <1>3, Invariance, TypeCorrect, PTL DEF Spec

\* When a close has returned no build runs, and none runs later, whether or not
\* every thread could be started.
THEOREM ClosedForGood == Spec => []ClosedIsQuiet
<1>1. IInv => ClosedIsQuiet
  BY DEF IInv, TypeOK, OnlyTheThread, NeverStarted, Joined, ClosedIsQuiet, Active, Outcome
<1> QED
  BY <1>1, Invariance, PTL

\* The warmup is a lock for its builds: they enter and leave one at a time, also
\* when a start has failed.
THEOREM Refinement == Spec => OneBuildAtATime
<1>1. Init => Builds!Init
  BY DEF Init, Builds!Init, Active, Outcome
<1>2. IInv /\ [Next]_vars => [Builds!Next]_Active
  BY StepActive DEF Builds!Next, Builds!Enter, Builds!Leave
<1> QED
  BY <1>1, <1>2, Invariance, PTL DEF Spec, OneBuildAtATime, Builds!Spec
-----------------------------------------------------------------------------
\* What a Thread.start that raises leaves behind: "running" of a thread that
\* will never report.
Stuck == state = "running" /\ NeverStarted

\* It stays so for good: no later start builds anything, forced or not, and a
\* call that waits without a limit, also one that begins to wait later, never
\* comes back, not even when the connection is closed (graph_warmup.py:135).
StuckForGood ==
  [][Stuck => /\ Stuck'
              /\ UNCHANGED <<target, thread, stage>>
              /\ \A c \in Caller : call[c] = "waiting" => call'[c] = "waiting"]_vars

\* A thread that could not be started leaves the warmup stuck, whatever is asked of it.
THEOREM FailedStartIsFinal == Spec => StuckForGood
<1> DEFINE Goal == /\ Stuck'
                   /\ UNCHANGED <<target, thread, stage>>
                   /\ \A c \in Caller : call[c] = "waiting" => call'[c] = "waiting"
<1>1. ASSUME IInv, Stuck, [Next]_vars PROVE Goal
  <2> USE <1>1 DEF Stuck, NeverStarted
  <2>1. Active = {} /\ call = [c \in Caller |-> call[c]]
    BY DEF IInv, TypeOK, OnlyTheThread
  <2>2. CASE UNCHANGED vars
    BY <2>2 DEF vars
  <2>3. ASSUME NEW c \in Caller, NEW w \in Worker, NEW t \in Fingerprint,
               NEW force \in BOOLEAN, Start(c, w, t, force)
        PROVE  FALSE
    BY <2>3 DEF Start, MayBegin
  <2>4. ASSUME NEW c \in Caller, Calls(c) PROVE Goal
    BY <2>1, <2>4 DEF Calls, Wait, Wake, TimeOut, Close, Join, Goto
  <2>5. ASSUME NEW w \in Worker, Works(w) PROVE FALSE
    BY <2>1, <2>5 DEF Works, Enter, PrepareEnds, PrepareIsCancelled, Report, Active
  <2> QED
    BY <2>2, <2>3, <2>4, <2>5 DEF Next, Calls, Works
<1>2. IInv /\ [Next]_vars =>
        [Stuck => /\ Stuck'
                  /\ UNCHANGED <<target, thread, stage>>
                  /\ \A c \in Caller : call[c] = "waiting" => call'[c] = "waiting"]_vars
  BY <1>1
<1> QED
  BY <1>2, Invariance, PTL DEF Spec, StuckForGood
=============================================================================

-------------------------- MODULE SingleFlight_proofs --------------------------
(***************************************************************************)
(* Theorems about SingleFlight for any requests, queue sizes and deltas.   *)
(***************************************************************************)
EXTENDS SingleFlight, TLAPS

\* Where a request itself owes the release of a lock.
Holds(r, s) ==
  IF s = "prompt" THEN pc[r] = "tokenizing"
  ELSE pc[r] \in {"generating", "reading", "joining", "dropped"} \cup Yielding

\* A future that is not done is awaited by its request or releases the lock
\* itself; whoever owes a release has the lock.
LockOK(r, s) ==
  /\ <<r, s>> \in pending => Holds(r, s) \/ <<r, s>> \in deferred
  /\ Holds(r, s) \/ <<r, s>> \in deferred => lock[s] = r
  /\ <<r, s>> \in deferred => <<r, s>> \in pending /\ pc[r] = "left"
  /\ s = "generate" /\ pc[r] \in {"opening", "closing"} => <<r, s>> \notin pending

\* A thread's job has a future that is not done.
LockInv == busy \subseteq pending /\ \A r \in Request, s \in Stage : LockOK(r, s)

\* The stages of a stream and of a full generation, and when the event is set.
StageInv ==
  \A r \in Request :
    /\ pc[r] \in {"reading", "joining", "dropped"} \cup Yielding => r \in Streaming
    /\ pc[r] = "generating" => r \notin Streaming
    /\ r \in stop => pc[r] \in {"answered", "failed", "left"}

\* Items are numbered through: taken, then queued, then on their way.
Numbered(g, q, f) ==
  /\ \A k \in 1..Len(g) : g[k] = k
  /\ \A k \in 1..Len(q) : q[k].n = Len(g) + k
  /\ \A k \in 1..Len(f) : f[k].n = Len(g) + Len(q) + k

Total(r) == Len(got[r]) + Len(queue[r]) + Len(flight[r])
Last(i, m, over) == i.kind = "done" => i.n = m /\ over

\* The producer has handed over all it made but the item in hand; the end marker
\* is the last thing it makes.
BridgeOK(r) ==
  /\ Numbered(got[r], queue[r], flight[r])
  /\ free[r] = Slots - Len(queue[r]) - Len(flight[r])
  /\ Producing(r) =>
       IF item[r] = NoItem THEN made[r] = Total(r)
       ELSE made[r] = Total(r) + 1 /\ item[r].n = made[r]
  /\ ~Producing(r) => item[r] = NoItem /\ (r \notin stop => made[r] = Total(r))
  /\ \A k \in 1..Len(queue[r]) : Last(queue[r][k], made[r], ~Producing(r))
  /\ \A k \in 1..Len(flight[r]) : Last(flight[r][k], made[r], ~Producing(r))
  /\ pc[r] \in {"new", "atPrompt", "tokenizing", "atLock", "opening"} => made[r] = 0

BridgeInv == \A r \in Request : BridgeOK(r)

\* After the end marker nothing is produced and nothing is missing.
EndInv ==
  \A r \in Streaming :
    pc[r] \in {"joining", "closing", "answered", "failed"} =>
      Len(got[r]) = made[r] /\ ~Producing(r)

IInv == TypeOK /\ LockInv /\ StageInv /\ BridgeInv /\ EndInv

LEMMA InitIInv == Init => IInv
<1> SUFFICES ASSUME Init PROVE IInv
  OBVIOUS
<1>1. TypeOK
  BY ServingAssumption DEF Init, TypeOK, Stage
<1>2. LockInv /\ StageInv
  BY ServingAssumption DEF Init, LockInv, LockOK, StageInv, Holds, Yielding, Stage
<1>3. ASSUME NEW r \in Request
      PROVE  /\ got[r] = <<>> /\ queue[r] = <<>> /\ flight[r] = <<>> /\ made[r] = 0
             /\ free[r] = Slots /\ item[r] = NoItem /\ ~Producing(r) /\ pc[r] = "new"
  BY DEF Init, Producing
<1>4. BridgeInv
  <2> SUFFICES ASSUME NEW r \in Request
               PROVE  /\ Numbered(got[r], queue[r], flight[r])
                      /\ free[r] = Slots - Len(queue[r]) - Len(flight[r])
                      /\ made[r] = Total(r)
                      /\ \A k \in 1..Len(queue[r]) : Last(queue[r][k], made[r], ~Producing(r))
                      /\ \A k \in 1..Len(flight[r]) : Last(flight[r][k], made[r], ~Producing(r))
    BY <1>3 DEF BridgeInv, BridgeOK
  <2>1. Len(got[r]) = 0 /\ Len(queue[r]) = 0 /\ Len(flight[r]) = 0
    BY <1>3
  <2> QED
    BY <1>3, <2>1, ServingAssumption DEF Numbered, Total
<1>5. EndInv
  BY <1>3, ServingAssumption DEF EndInv
<1> QED
  BY <1>1, <1>2, <1>4, <1>5 DEF IInv
-----------------------------------------------------------------------------
(* The locks. *)

LEMMA Domains ==
  ASSUME TypeOK
  PROVE  /\ pc = [r \in Request |-> pc[r]] /\ lock = [s \in Stage |-> lock[s]]
         /\ \A s \in Stage : lock[s] \in Request \cup {NoRequest}
         /\ pending \subseteq Job /\ deferred \subseteq Job /\ busy \subseteq Job
  BY DEF TypeOK

\* A request moves on and nobody's lock or job changes.
LEMMA MoveLock ==
  ASSUME TypeOK, LockInv, NEW r \in Request, NEW where, Goto(r, where),
         UNCHANGED <<lock, threads>>,
         \A s \in Stage : Holds(r, s)' <=> Holds(r, s),
         where \in {"opening", "closing"} => <<r, "generate">> \notin pending,
         pc[r] # "left"
  PROVE  LockInv'
<1> USE DEF LockOK, Goto, threads
<1>1. pc' = [pc EXCEPT ![r] = where] /\ UNCHANGED <<lock, busy, pending, deferred>>
  BY DEF Goto, threads
<1>2. ASSUME NEW q \in Request, NEW s \in Stage PROVE LockOK(q, s)'
  <2>1. CASE q = r
    BY <1>1, <2>1, Domains DEF LockInv
  <2>2. CASE q # r
    <3>1. pc'[q] = pc[q] /\ (Holds(q, s)' <=> Holds(q, s))
      BY <1>1, <2>2, Domains DEF Holds
    <3> QED
      BY <1>1, <3>1 DEF LockInv
  <2> QED
    BY <2>1, <2>2
<1> QED
  BY <1>1, <1>2 DEF LockInv

\* A request takes a free lock, with or without a job.
LEMMA TakeLock ==
  ASSUME TypeOK, LockInv, NEW r \in Request, NEW s \in Stage, NEW where,
         Goto(r, where), Take(r, s), UNCHANGED deferred,
         \/ where = "opening" /\ UNCHANGED <<busy, pending>>
         \/ where # "opening" /\ Submit(<<r, s>>),
         pc[r] = (IF s = "prompt" THEN "atPrompt" ELSE "atLock"),
         IF s = "prompt" THEN where = "tokenizing" ELSE where \in {"generating", "opening"}
  PROVE  LockInv'
<1>1. /\ pc' = [pc EXCEPT ![r] = where] /\ lock' = [lock EXCEPT ![s] = r]
      /\ lock[s] = NoRequest /\ UNCHANGED deferred
      /\ \/ UNCHANGED <<busy, pending>>
         \/ busy' = busy \cup {<<r, s>>} /\ pending' = pending \cup {<<r, s>>}
  BY DEF Goto, Take, Submit
<1>2. \A q \in Request : ~Holds(q, s) /\ <<q, s>> \notin deferred /\ <<q, s>> \notin pending
  BY <1>1, ServingAssumption DEF LockInv, LockOK
<1>3. ASSUME NEW q \in Request, NEW t \in Stage PROVE LockOK(q, t)'
  <2>1. CASE q = r /\ t = s
    BY <1>1, <1>2, <2>1, Domains DEF LockOK, Holds, Yielding, Submit, Stage
  <2>2. CASE q = r /\ t # s
    <3>1. ~Holds(q, t)' /\ ~Holds(q, t) /\ pc[r] # "left" /\ lock'[t] = lock[t]
      BY <1>1, <2>2, Domains DEF Holds, Yielding, Stage
    <3>2. <<q, t>> \notin pending /\ <<q, t>> \notin deferred
      BY <2>2, <3>1 DEF LockInv, LockOK
    <3> QED
      BY <1>1, <2>2, <3>1, <3>2 DEF LockOK
  <2>3. CASE q # r
    <3>1. pc'[q] = pc[q] /\ (Holds(q, t)' <=> Holds(q, t))
      BY <1>1, <2>3, Domains DEF Holds
    <3>2. /\ <<q, t>> \in pending' <=> <<q, t>> \in pending
          /\ t # s => lock'[t] = lock[t]
      BY <1>1, <2>3, Domains
    <3> QED
      BY <1>1, <1>2, <3>1, <3>2 DEF LockInv, LockOK
  <2> QED
    BY <2>1, <2>2, <2>3
<1> QED
  BY <1>1, <1>3 DEF LockInv

\* The owner of a lock releases it, without a job of its own left.
LEMMA ReleaseLock ==
  ASSUME TypeOK, LockInv, NEW r \in Request, NEW s \in Stage, NEW where,
         Goto(r, where), Release(s), UNCHANGED <<busy, deferred>>,
         pending' = pending \ {<<r, s>>}, <<r, s>> \notin busy,
         Holds(r, s), \A t \in Stage : ~Holds(r, t)', pc[r] # "left",
         where \notin {"opening", "closing"}
  PROVE  LockInv'
<1>1. /\ pc' = [pc EXCEPT ![r] = where] /\ lock' = [lock EXCEPT ![s] = NoRequest]
      /\ UNCHANGED <<busy, deferred>> /\ pending' = pending \ {<<r, s>>}
  BY DEF Goto, Release
<1>2. /\ lock[s] = r /\ <<r, s>> \notin deferred
      /\ \A q \in Request \ {r} : ~Holds(q, s) /\ <<q, s>> \notin deferred
  BY DEF LockInv, LockOK
<1>3. ASSUME NEW q \in Request, NEW t \in Stage PROVE LockOK(q, t)'
  <2>1. CASE q = r
    <3>1. pc'[q] = where /\ ~Holds(q, t)' /\ <<q, t>> \notin deferred
      BY <1>1, <2>1, Domains DEF LockInv, LockOK
    <3>2. <<q, t>> \notin pending'
      <4>1. CASE t = s
        BY <1>1, <2>1, <4>1
      <4>2. CASE t # s
        BY <1>1, <2>1, <3>1, <4>2 DEF LockInv, LockOK, Holds, Yielding, Stage
      <4> QED
        BY <4>1, <4>2
    <3> QED
      BY <1>1, <3>1, <3>2 DEF LockOK
  <2>2. CASE q # r
    <3>1. pc'[q] = pc[q] /\ (Holds(q, t)' <=> Holds(q, t))
      BY <1>1, <2>2, Domains DEF Holds
    <3>2. /\ <<q, t>> \in pending' <=> <<q, t>> \in pending
          /\ t # s => lock'[t] = lock[t]
      BY <1>1, <2>2, Domains
    <3> QED
      BY <1>1, <1>2, <2>2, <3>1, <3>2 DEF LockInv, LockOK
  <2> QED
    BY <2>1, <2>2
<1> QED
  BY <1>1, <1>3 DEF LockInv

\* A request is cancelled: Unwind.
LEMMA UnwindLock ==
  ASSUME TypeOK, LockInv, NEW r \in Request, NEW s \in Stage,
         Goto(r, "left"), Unwind(r, s), UNCHANGED <<busy, pending>>, Holds(r, s)
  PROVE  LockInv'
<1>0. pc[r] # "left" /\ \A t \in Stage : ~Holds(r, t)'
  BY Domains DEF Goto, Holds, Yielding
<1>1. CASE <<r, s>> \notin pending
  <2>1. pending' = pending \ {<<r, s>>} /\ <<r, s>> \notin busy
    BY <1>1 DEF LockInv
  <2>2. Release(s) /\ UNCHANGED <<busy, deferred>>
    BY <1>1 DEF Unwind
  <2> QED
    BY <1>0, <2>1, <2>2, ReleaseLock
<1>2. CASE <<r, s>> \in pending
  <2>1. /\ pc' = [pc EXCEPT ![r] = "left"] /\ deferred' = deferred \cup {<<r, s>>}
        /\ UNCHANGED <<lock, busy, pending>>
    BY <1>2 DEF Unwind, Goto
  <2>2. ASSUME NEW q \in Request, NEW t \in Stage PROVE LockOK(q, t)'
    <3>1. CASE q = r /\ t = s
      BY <1>2, <2>1, <3>1, Domains DEF LockInv, LockOK
    <3>2. CASE q = r /\ t # s
      <4>1. ~Holds(q, t)
        BY <3>2 DEF Holds, Yielding, Stage
      <4>2. <<q, t>> \notin pending /\ <<q, t>> \notin deferred
        BY <1>0, <3>2, <4>1 DEF LockInv, LockOK
      <4> QED
        BY <1>0, <2>1, <3>2, <4>1, <4>2 DEF LockOK
    <3>3. CASE q # r
      <4>1. pc'[q] = pc[q] /\ (Holds(q, t)' <=> Holds(q, t))
        BY <2>1, <3>3, Domains DEF Holds
      <4> QED
        BY <2>1, <3>3, <4>1 DEF LockInv, LockOK
    <3> QED
      BY <3>1, <3>2, <3>3
  <2> QED
    BY <2>1, <2>2 DEF LockInv
<1> QED
  BY <1>1, <1>2

\* A future is done: it releases the lock if its request has left it to it.
LEMMA FutureLock ==
  ASSUME TypeOK, LockInv, NEW r \in Request, NEW s \in Stage, FutureDone(r, s)
  PROVE  LockInv'
<1>1. /\ <<r, s>> \in pending /\ <<r, s>> \notin busy /\ UNCHANGED <<pc, busy>>
      /\ pending' = pending \ {<<r, s>>}
  BY DEF FutureDone
<1>2. CASE <<r, s>> \in deferred
  <2>1. /\ lock' = [lock EXCEPT ![s] = NoRequest] /\ deferred' = deferred \ {<<r, s>>}
        /\ lock[s] = r /\ pc[r] = "left"
    BY <1>2 DEF FutureDone, Release, LockInv, LockOK
  <2>2. ASSUME NEW q \in Request, NEW t \in Stage PROVE LockOK(q, t)'
    <3>1. Holds(q, t)' <=> Holds(q, t)
      BY <1>1 DEF Holds
    <3>2. CASE t # s
      BY <1>1, <2>1, <3>1, <3>2, Domains DEF LockInv, LockOK
    <3>3. CASE t = s /\ q = r
      <4>1. ~Holds(q, t)
        BY <2>1, <3>3 DEF Holds, Yielding
      <4> QED
        BY <1>1, <2>1, <3>1, <3>3, <4>1 DEF LockOK
    <3>4. CASE t = s /\ q # r
      <4>1. ~Holds(q, t) /\ <<q, t>> \notin deferred /\ <<q, t>> \notin pending
        BY <2>1, <3>4 DEF LockInv, LockOK
      <4> QED
        BY <1>1, <2>1, <3>1, <4>1 DEF LockOK
    <3> QED
      BY <3>2, <3>3, <3>4
  <2> QED
    BY <1>1, <2>2 DEF LockInv
<1>3. CASE <<r, s>> \notin deferred
  <2>1. UNCHANGED <<lock, deferred>>
    BY <1>3 DEF FutureDone
  <2>2. ASSUME NEW q \in Request, NEW t \in Stage PROVE LockOK(q, t)'
    <3>1. Holds(q, t)' <=> Holds(q, t)
      BY <1>1 DEF Holds
    <3> QED
      BY <1>1, <1>3, <2>1, <3>1 DEF LockInv, LockOK
  <2> QED
    BY <1>1, <2>2 DEF LockInv
<1> QED
  BY <1>2, <1>3

\* The thread of a stream is started under the lock taken for it.
LEMMA OpenedLock ==
  ASSUME TypeOK, LockInv, NEW r \in Request, Opened(r) PROVE LockInv'
<1>1. /\ pc' = [pc EXCEPT ![r] = "reading"] /\ UNCHANGED <<lock, deferred>>
      /\ busy' = busy \cup {<<r, "generate">>}
      /\ pending' = pending \cup {<<r, "generate">>} /\ pc[r] = "opening"
  BY DEF Opened, Goto, Submit
<1>2. ASSUME NEW q \in Request, NEW t \in Stage PROVE LockOK(q, t)'
  <2>1. Holds(q, t)' <=> Holds(q, t)
    BY <1>1, Domains DEF Holds, Yielding
  <2>2. q # r => pc'[q] = pc[q]
    BY <1>1, Domains
  <2>3. CASE q = r
    BY <1>1, <2>1, <2>3, Domains DEF LockInv, LockOK, Holds, Yielding, Stage
  <2>4. CASE q # r
    BY <1>1, <2>1, <2>2, <2>4 DEF LockInv, LockOK
  <2> QED
    BY <2>3, <2>4
<1> QED
  BY <1>1, <1>2 DEF LockInv

LEMMA StepLock == ASSUME IInv, [Next]_vars PROVE LockInv'
<1> USE DEF IInv
<1>1. CASE UNCHANGED vars
  BY <1>1 DEF vars, threads, LockInv, LockOK, Holds
<1>2. ASSUME NEW r \in Request, Client(r) PROVE LockInv'
  <2>1. CASE Arrive(r)
    BY <2>1, MoveLock, Domains DEF Arrive, Goto, Holds, Yielding
  <2>2. CASE Sent(r)
    BY <2>2, MoveLock, Domains DEF Sent, Goto, Holds, Yielding
  <2>3. CASE LeaveQueue(r)
    BY <2>3, MoveLock, Domains DEF LeaveQueue, Goto, Holds, Yielding
  <2>4. CASE Drop(r)
    BY <2>4, MoveLock, Domains DEF Drop, Goto, Holds, Yielding
  <2>5. CASE Opened(r)
    BY <2>5, OpenedLock
  <2>6. CASE Close(r)
    <3>1. <<r, "generate">> \notin pending /\ <<r, "generate">> \notin busy
      BY <2>6 DEF Close, LockInv, LockOK, Stage
    <3>2. Holds(r, "generate") /\ (\A t \in Stage : ~Holds(r, t)') /\ pc[r] # "left"
      BY <2>6, Domains DEF Close, Goto, Holds, Yielding
    <3>3. Goto(r, "answered") /\ Release("generate") /\ UNCHANGED threads
      BY <2>6 DEF Close
    <3> QED
      BY <3>1, <3>2, <3>3, ReleaseLock DEF threads, Stage
  <2>7. CASE LeaveTokenizing(r)
    BY <2>7, UnwindLock DEF LeaveTokenizing, Holds, Stage
  <2>8. CASE LeaveGeneration(r)
    BY <2>8, UnwindLock DEF LeaveGeneration, Holds, Stage
  <2>9. CASE LeaveJoin(r)
    <3>1. <<r, "generate">> \notin busy
      BY <2>9 DEF LeaveJoin, EndInv, Producing, StageInv
    <3>2. Holds(r, "generate") /\ (\A t \in Stage : ~Holds(r, t)') /\ pc[r] # "left"
      BY <2>9, Domains DEF LeaveJoin, Goto, Holds, Yielding
    <3>3. /\ Goto(r, "left") /\ Release("generate") /\ UNCHANGED <<busy, deferred>>
          /\ pending' = pending \ {<<r, "generate">>}
      BY <2>9 DEF LeaveJoin
    <3> QED
      BY <3>1, <3>2, <3>3, ReleaseLock DEF Stage
  <2> QED
    BY <1>2, <2>1, <2>2, <2>3, <2>4, <2>5, <2>6, <2>7, <2>8, <2>9 DEF Client
<1>3. ASSUME NEW r \in Request, Loop(r) PROVE LockInv'
  <2>1. CASE Tokenized(r)
    <3>1. PICK where \in {"atLock", "refused"} : Goto(r, where)
      BY <2>1 DEF Tokenized
    <3>2. <<r, "prompt">> \notin pending /\ <<r, "prompt">> \notin busy
      BY <2>1 DEF Tokenized, LockInv
    <3>3. Holds(r, "prompt") /\ (\A t \in Stage : ~Holds(r, t)') /\ pc[r] # "left"
      BY <2>1, <3>1, Domains DEF Tokenized, Goto, Holds, Yielding
    <3>4. Release("prompt") /\ UNCHANGED threads
      BY <2>1 DEF Tokenized
    <3> QED
      BY <3>1, <3>2, <3>3, <3>4, ReleaseLock DEF threads, Stage
  <2>2. CASE Answer(r)
    <3>1. PICK where \in {"answered", "failed"} : Goto(r, where)
      BY <2>2 DEF Answer
    <3>2. <<r, "generate">> \notin pending /\ <<r, "generate">> \notin busy
      BY <2>2 DEF Answer, LockInv
    <3>3. Holds(r, "generate") /\ (\A t \in Stage : ~Holds(r, t)') /\ pc[r] # "left"
      BY <2>2, <3>1, Domains DEF Answer, Goto, Holds, Yielding
    <3>4. Release("generate") /\ UNCHANGED threads
      BY <2>2 DEF Answer
    <3> QED
      BY <3>1, <3>2, <3>3, <3>4, ReleaseLock DEF threads, Stage
  <2>3. CASE Get(r)
    <3>1. CASE UNCHANGED pc
      BY <2>3, <3>1 DEF Get, threads, LockInv, LockOK, Holds
    <3>2. CASE \E where \in {"sending", "joining"} : Goto(r, where)
      BY <2>3, <3>2, MoveLock, Domains DEF Get, Goto, Holds, Yielding
    <3> QED
      BY <2>3, <3>1, <3>2 DEF Get
  <2>4. CASE Join(r)
    <3>1. CASE r \in errors
      <4>1. <<r, "generate">> \notin pending /\ <<r, "generate">> \notin busy
        BY <2>4 DEF Join, LockInv
      <4>2. Goto(r, "failed") /\ Release("generate") /\ UNCHANGED threads
        BY <2>4, <3>1 DEF Join
      <4>3. Holds(r, "generate") /\ (\A t \in Stage : ~Holds(r, t)') /\ pc[r] # "left"
        BY <2>4, <4>2, Domains DEF Join, Goto, Holds, Yielding
      <4> QED
        BY <4>1, <4>2, <4>3, ReleaseLock DEF threads, Stage
    <3>2. CASE r \notin errors
      BY <2>4, <3>2, MoveLock, Domains DEF Join, Goto, Holds, Yielding
    <3> QED
      BY <3>1, <3>2
  <2>5. CASE Finalize(r)
    BY <2>5, UnwindLock DEF Finalize, Holds, Stage
  <2>6. CASE Land(r)
    BY <2>6 DEF Land, threads, LockInv, LockOK, Holds
  <2>7. ASSUME NEW s \in Stage, FutureDone(r, s) PROVE LockInv'
    BY <2>7, FutureLock
  <2> QED
    BY <1>3, <2>1, <2>2, <2>3, <2>4, <2>5, <2>6, <2>7 DEF Loop
<1>4. ASSUME NEW r \in Request, Thread(r) PROVE LockInv'
  <2>1. busy' \subseteq busy /\ UNCHANGED <<pc, lock, pending, deferred>>
    BY <1>4 DEF Thread, Produce, Enqueue, Stop, WorkEnds, threads
  <2> QED
    BY <2>1 DEF LockInv, LockOK, Holds
<1>5. ASSUME NEW r \in Request, Acquire(r) PROVE LockInv'
  <2>1. CASE Tokenize(r)
    BY <2>1, TakeLock DEF Tokenize, Stage, Submit
  <2>2. CASE Generate(r)
    BY <2>2, TakeLock DEF Generate, Stage, Submit
  <2>3. CASE Open(r)
    BY <2>3, TakeLock DEF Open, Stage, threads
  <2> QED
    BY <1>5, <2>1, <2>2, <2>3 DEF Acquire
<1> QED
  BY <1>1, <1>2, <1>3, <1>4, <1>5 DEF Next
-----------------------------------------------------------------------------
(* The stages of a request. *)

LEMMA StepStage == ASSUME IInv, [Next]_vars PROVE StageInv'
<1> USE DEF IInv, StageInv, Goto, Yielding
<1>1. CASE UNCHANGED vars
  BY <1>1 DEF vars
<1>2. ASSUME NEW r \in Request, Client(r) PROVE StageInv'
  <2>1. CASE Arrive(r) \/ Opened(r) \/ Sent(r) \/ LeaveQueue(r) \/ Drop(r)
    BY <2>1, Domains DEF Arrive, Opened, Sent, LeaveQueue, Drop
  <2>2. CASE Close(r) \/ LeaveTokenizing(r)
    BY <2>2, Domains DEF Close, LeaveTokenizing
  <2>3. CASE LeaveGeneration(r) \/ LeaveJoin(r)
    BY <2>3, Domains DEF LeaveGeneration, LeaveJoin
  <2> QED
    BY <1>2, <2>1, <2>2, <2>3 DEF Client
<1>3. ASSUME NEW r \in Request, Loop(r) PROVE StageInv'
  <2>1. CASE Tokenized(r) \/ Answer(r)
    BY <2>1, Domains DEF Tokenized, Answer
  <2>2. CASE Get(r)
    BY <2>2, Domains DEF Get
  <2>3. CASE Join(r)
    BY <2>3, Domains DEF Join
  <2>4. CASE Finalize(r)
    BY <2>4, Domains DEF Finalize
  <2>5. CASE Land(r) \/ \E s \in Stage : FutureDone(r, s)
    BY <2>5 DEF Land, FutureDone
  <2> QED
    BY <1>3, <2>1, <2>2, <2>3, <2>4, <2>5 DEF Loop
<1>4. ASSUME NEW r \in Request, Thread(r) PROVE StageInv'
  BY <1>4 DEF Thread, Produce, Enqueue, Stop, WorkEnds
<1>5. ASSUME NEW r \in Request, Acquire(r) PROVE StageInv'
  BY <1>5, Domains DEF Acquire, Tokenize, Generate, Open
<1> QED
  BY <1>1, <1>2, <1>3, <1>4, <1>5 DEF Next
-----------------------------------------------------------------------------
(* The bridge. *)

\* Numbered, when an item is taken, handed over, or put in the queue.
LEMMA Tails ==
  ASSUME NEW q \in Seq(Item), q # <<>>
  PROVE  /\ Head(q) = q[1] /\ Head(q) \in Item /\ Len(q) \in Nat \ {0}
         /\ Tail(q) \in Seq(Item) /\ Len(Tail(q)) = Len(q) - 1
         /\ \A k \in 1..(Len(q) - 1) : Tail(q)[k] = q[k + 1]
  OBVIOUS

LEMMA NumberedGet ==
  ASSUME NEW g \in Seq(Nat), NEW q \in Seq(Item), NEW f \in Seq(Item),
         Numbered(g, q, f), q # <<>>
  PROVE  Numbered(Append(g, Head(q).n), Tail(q), f)
<1>1. Head(q).n = Len(g) + 1
  BY Tails DEF Numbered
<1>2. /\ Len(Append(g, Head(q).n)) = Len(g) + 1
      /\ \A k \in 1..(Len(g) + 1) :
           Append(g, Head(q).n)[k] = IF k = Len(g) + 1 THEN Head(q).n ELSE g[k]
  BY <1>1
<1>3. \A k \in 1..(Len(q) - 1) : Tail(q)[k].n = Len(g) + 1 + k
  BY Tails DEF Numbered
<1> QED
  BY <1>1, <1>2, <1>3, Tails DEF Numbered

LEMMA NumberedEnqueue ==
  ASSUME NEW g \in Seq(Nat), NEW q \in Seq(Item), NEW f \in Seq(Item), NEW i \in Item,
         Numbered(g, q, f), i.n = Len(g) + Len(q) + Len(f) + 1
  PROVE  Numbered(g, q, Append(f, i))
<1>1. /\ Len(Append(f, i)) = Len(f) + 1 /\ Len(f) \in Nat
      /\ \A k \in 1..(Len(f) + 1) :
           Append(f, i)[k] = IF k = Len(f) + 1 THEN i ELSE f[k]
  OBVIOUS
<1>2. Len(g) \in Nat /\ Len(q) \in Nat
  OBVIOUS
<1>3. \A k \in 1..Len(Append(f, i)) : Append(f, i)[k].n = Len(g) + Len(q) + k
  <2> SUFFICES ASSUME NEW k \in 1..(Len(f) + 1)
               PROVE  Append(f, i)[k].n = Len(g) + Len(q) + k
    BY <1>1
  <2>1. CASE k = Len(f) + 1
    BY <1>1, <1>2, <2>1
  <2>2. CASE k \in 1..Len(f)
    BY <1>1, <1>2, <2>2 DEF Numbered
  <2> QED
    BY <1>1, <2>1, <2>2
<1> QED
  BY <1>3 DEF Numbered

LEMMA NumberedLand ==
  ASSUME NEW g \in Seq(Nat), NEW q \in Seq(Item), NEW f \in Seq(Item),
         Numbered(g, q, f), f # <<>>
  PROVE  Numbered(g, Append(q, Head(f)), Tail(f))
<1>0. Len(g) \in Nat /\ Len(q) \in Nat /\ Len(f) \in Nat \ {0}
  BY Tails
<1>1. Head(f) = f[1] /\ Head(f).n = Len(g) + Len(q) + 1 /\ Head(f) \in Item
  BY <1>0, Tails DEF Numbered
<1>2. /\ Len(Append(q, Head(f))) = Len(q) + 1
      /\ \A k \in 1..(Len(q) + 1) :
           Append(q, Head(f))[k] = IF k = Len(q) + 1 THEN Head(f) ELSE q[k]
  BY <1>1
<1>3. Len(Tail(f)) = Len(f) - 1
  BY Tails
<1>4. \A k \in 1..Len(Tail(f)) : Tail(f)[k].n = Len(g) + (Len(q) + 1) + k
  BY <1>0, <1>3, Tails DEF Numbered
<1>5. \A k \in 1..Len(Append(q, Head(f))) : Append(q, Head(f))[k].n = Len(g) + k
  <2> SUFFICES ASSUME NEW k \in 1..(Len(q) + 1)
               PROVE  Append(q, Head(f))[k].n = Len(g) + k
    BY <1>2
  <2>1. CASE k = Len(q) + 1
    BY <1>0, <1>1, <1>2, <2>1
  <2>2. CASE k \in 1..Len(q)
    BY <1>0, <1>2, <2>2 DEF Numbered
  <2> QED
    BY <1>0, <2>1, <2>2
<1>6. \A k \in 1..Len(g) : g[k] = k
  BY DEF Numbered
<1> QED
  BY <1>2, <1>4, <1>5, <1>6 DEF Numbered

\* What the bridge of a stream consists of.
Bridge(r) == <<free[r], item[r], made[r], flight[r], queue[r], got[r]>>

LEMMA BridgeTypes ==
  ASSUME TypeOK, NEW r \in Request
  PROVE  /\ got[r] \in Seq(Nat) /\ queue[r] \in Seq(Item) /\ flight[r] \in Seq(Item)
         /\ Len(got[r]) \in Nat /\ Len(queue[r]) \in Nat /\ Len(flight[r]) \in Nat
         /\ free[r] \in 0..Slots /\ made[r] \in Nat /\ item[r] \in Item \cup {NoItem}
  BY DEF TypeOK

LEMMA StillBridge ==
  ASSUME NEW r \in Request, BridgeOK(r), UNCHANGED Bridge(r),
         Producing(r)' <=> Producing(r), r \in stop => r \in stop',
         pc'[r] \in {"new", "atPrompt", "tokenizing", "atLock", "opening"} =>
           pc[r] \in {"new", "atPrompt", "tokenizing", "atLock", "opening"}
  PROVE  BridgeOK(r)'
<1>1. /\ got'[r] = got[r] /\ queue'[r] = queue[r] /\ flight'[r] = flight[r]
      /\ free'[r] = free[r] /\ made'[r] = made[r] /\ item'[r] = item[r]
  BY DEF Bridge
<1> QED
  BY <1>1 DEF BridgeOK, Total, Last

LEMMA Moved ==
  ASSUME NEW g \in Nat, NEW q \in Nat, NEW f \in Nat
  PROVE  (g + 1) + (q - 1) + f = g + q + f /\ g + (q + 1) + (f - 1) = g + q + f
  OBVIOUS

LEMMA OneLess ==
  ASSUME NEW n \in Nat, NEW q \in Nat, NEW f \in Nat
  PROVE  n - q - (f + 1) = (n - q - f) - 1
  OBVIOUS

LEMMA RoomForOne ==
  ASSUME NEW n \in Nat, NEW q \in Nat \ {0}, NEW f \in Nat, NEW x \in 0..n, x = n - q - f
  PROVE  x + 1 \in 0..n
  OBVIOUS

LEMMA SumIsZero ==
  ASSUME NEW g \in Nat, NEW q \in Nat, NEW f \in Nat, g + q + f = 0
  PROVE  q = 0 /\ f = 0
  OBVIOUS

LEMMA GetBridge ==
  ASSUME IInv, NEW r \in Request, Get(r) PROVE BridgeOK(r)'
<1>1. /\ queue[r] # <<>> /\ queue'[r] = Tail(queue[r]) /\ free'[r] = free[r] + 1
      /\ got'[r] = Append(got[r], Head(queue[r]).n) /\ flight'[r] = flight[r]
      /\ made'[r] = made[r] /\ item'[r] = item[r] /\ stop' = stop
      /\ Producing(r)' <=> Producing(r)
      /\ pc'[r] \in {"reading", "sending", "joining"}
  BY Domains DEF Get, IInv, TypeOK, threads, Producing, Goto
<1>2. BridgeOK(r) /\ TypeOK
  BY DEF IInv, BridgeInv
<1>3. /\ got[r] \in Seq(Nat) /\ queue[r] \in Seq(Item) /\ flight[r] \in Seq(Item)
      /\ Len(got[r]) \in Nat /\ Len(queue[r]) \in Nat \ {0} /\ Len(flight[r]) \in Nat
      /\ Slots \in Nat /\ free[r] \in Nat
  BY <1>1, <1>2, BridgeTypes, Tails, ServingAssumption
<1>4. Numbered(got[r], queue[r], flight[r])'
  BY <1>1, <1>2, <1>3, NumberedGet DEF BridgeOK
<1>5. Len(got'[r]) = Len(got[r]) + 1 /\ Len(queue'[r]) = Len(queue[r]) - 1
  <2>1. Head(queue[r]).n \in Nat
    BY <1>1, <1>3, Tails DEF Item
  <2> QED
    BY <1>1, <1>3, <2>1, Tails
<1>6. Total(r)' = Total(r) /\ free'[r] = Slots - Len(queue'[r]) - Len(flight'[r])
  <2>1. free[r] = Slots - Len(queue[r]) - Len(flight[r]) /\ free'[r] = free[r] + 1
    BY <1>1, <1>2 DEF BridgeOK
  <2>2. /\ Len(got[r]) \in Nat /\ Len(queue[r]) \in Nat /\ Len(flight[r]) \in Nat
        /\ Slots \in Nat
    BY <1>3
  <2>3. Len(flight'[r]) = Len(flight[r])
    BY <1>1
  <2>4. Total(r) = Len(got[r]) + Len(queue[r]) + Len(flight[r])
    BY DEF Total
  <2>5. Total(r)' = (Len(got[r]) + 1) + (Len(queue[r]) - 1) + Len(flight[r])
    BY <1>5, <2>3 DEF Total
  <2>6. free'[r] = Slots - (Len(queue[r]) - 1) - Len(flight[r])
    BY <2>1, <2>2
  <2>7. free'[r] = Slots - Len(queue'[r]) - Len(flight'[r])
    BY <1>5, <2>3, <2>6
  <2>8. (Len(got[r]) + 1) + (Len(queue[r]) - 1) + Len(flight[r])
          = Len(got[r]) + Len(queue[r]) + Len(flight[r])
    BY <2>2, Moved, ZenonT(60)
  <2> QED
    BY <2>4, <2>5, <2>7, <2>8
<1>8. ASSUME NEW k \in 1..Len(queue'[r])
      PROVE  Last(queue'[r][k], made'[r], ~Producing(r)')
  <2>1. queue'[r][k] = queue[r][k + 1] /\ k + 1 \in 1..Len(queue[r])
    BY <1>1, <1>3, <1>5, Tails
  <2>2. Last(queue[r][k + 1], made[r], ~Producing(r))
    BY <1>2, <2>1 DEF BridgeOK
  <2> QED
    BY <1>1, <2>1, <2>2 DEF Last
<1>9. \A k \in 1..Len(flight'[r]) : Last(flight'[r][k], made'[r], ~Producing(r)')
  BY <1>1, <1>2 DEF Last, BridgeOK
<1> QED
  BY <1>1, <1>2, <1>4, <1>6, <1>8, <1>9 DEF BridgeOK

LEMMA LandBridge ==
  ASSUME IInv, NEW r \in Request, Land(r) PROVE BridgeOK(r)'
<1>1. BridgeOK(r) /\ TypeOK /\ flight[r] # <<>>
  BY DEF IInv, BridgeInv, Land
<1>2. /\ got[r] \in Seq(Nat) /\ queue[r] \in Seq(Item) /\ flight[r] \in Seq(Item)
      /\ Len(got[r]) \in Nat /\ Len(queue[r]) \in Nat /\ Len(flight[r]) \in Nat \ {0}
      /\ Slots \in Nat /\ free[r] \in Nat
  BY <1>1, BridgeTypes, Tails, ServingAssumption
<1>3. Len(queue[r]) < Slots
  <2>1. free[r] = Slots - Len(queue[r]) - Len(flight[r])
    BY <1>1 DEF BridgeOK
  <2> QED
    BY <1>2, <2>1
<1>4. /\ queue'[r] = Append(queue[r], Head(flight[r])) /\ flight'[r] = Tail(flight[r])
      /\ free'[r] = free[r] /\ got'[r] = got[r]
      /\ made'[r] = made[r] /\ item'[r] = item[r] /\ stop' = stop /\ pc' = pc
      /\ Producing(r)' <=> Producing(r)
  BY <1>1, <1>3 DEF Land, TypeOK, threads, Producing
<1>5. Numbered(got[r], queue[r], flight[r])'
  BY <1>1, <1>2, <1>4, NumberedLand DEF BridgeOK
<1>6. Head(flight[r]) \in Item /\ Head(flight[r]) = flight[r][1]
  BY <1>1, <1>2, Tails
<1>7. Len(queue'[r]) = Len(queue[r]) + 1 /\ Len(flight'[r]) = Len(flight[r]) - 1
  BY <1>1, <1>2, <1>4, <1>6, Tails
<1>8. Total(r)' = Total(r) /\ free'[r] = Slots - Len(queue'[r]) - Len(flight'[r])
  <2>1. free'[r] = Slots - Len(queue[r]) - Len(flight[r])
    BY <1>1, <1>4 DEF BridgeOK
  <2>2. /\ Len(got[r]) \in Nat /\ Len(queue[r]) \in Nat /\ Len(flight[r]) \in Nat
        /\ Slots \in Nat
    BY <1>2
  <2>3. Len(got'[r]) = Len(got[r])
    BY <1>4
  <2>4. Total(r) = Len(got[r]) + Len(queue[r]) + Len(flight[r])
    BY DEF Total
  <2>5. Total(r)' = Len(got[r]) + (Len(queue[r]) + 1) + (Len(flight[r]) - 1)
    BY <1>7, <2>3 DEF Total
  <2>6. free'[r] = Slots - (Len(queue[r]) + 1) - (Len(flight[r]) - 1)
    BY <2>1, <2>2
  <2>7. free'[r] = Slots - Len(queue'[r]) - Len(flight'[r])
    BY <1>7, <2>6
  <2>8. Len(got[r]) + (Len(queue[r]) + 1) + (Len(flight[r]) - 1)
          = Len(got[r]) + Len(queue[r]) + Len(flight[r])
    BY <2>2, Moved, ZenonT(60)
  <2> QED
    BY <2>4, <2>5, <2>7, <2>8
<1>10. ASSUME NEW k \in 1..Len(flight[r])
       PROVE  Last(flight[r][k], made'[r], ~Producing(r)')
  BY <1>1, <1>4 DEF Last, BridgeOK
<1>11. ASSUME NEW k \in 1..Len(flight'[r])
       PROVE  Last(flight'[r][k], made'[r], ~Producing(r)')
  <2>1. flight'[r][k] = flight[r][k + 1] /\ k + 1 \in 1..Len(flight[r])
    BY <1>1, <1>2, <1>4, <1>7, Tails
  <2> QED
    BY <1>10, <2>1
<1>12. ASSUME NEW k \in 1..Len(queue'[r])
       PROVE  Last(queue'[r][k], made'[r], ~Producing(r)')
  <2>1. CASE k = Len(queue[r]) + 1
    <3>1. queue'[r][k] = flight[r][1] /\ 1 \in 1..Len(flight[r])
      BY <1>2, <1>4, <1>6, <2>1
    <3> QED
      BY <1>10, <3>1
  <2>2. CASE k # Len(queue[r]) + 1
    <3>1. queue'[r][k] = queue[r][k] /\ k \in 1..Len(queue[r])
      BY <1>2, <1>4, <1>6, <1>7, <2>2
    <3> QED
      BY <1>1, <1>4, <3>1 DEF Last, BridgeOK
  <2> QED
    BY <2>1, <2>2
<1> QED
  BY <1>1, <1>4, <1>5, <1>8, <1>11, <1>12 DEF BridgeOK

\* A producing stream is beyond its opening.
LEMMA ProducingStage ==
  ASSUME IInv, NEW r \in Request, Producing(r)
  PROVE  pc[r] \in {"reading", "joining", "dropped", "sending", "left"}
BY DEF IInv, LockInv, LockOK, StageInv, Producing, Holds, Yielding, Stage

LEMMA ProduceBridge ==
  ASSUME IInv, NEW r \in Request, Produce(r) PROVE BridgeOK(r)'
<1>1. BridgeOK(r) /\ TypeOK /\ Producing(r) /\ item[r] = NoItem
  BY DEF IInv, BridgeInv, Produce
<1>2. PICK k \in {"error", "finish", "delta"} :
        item' = [item EXCEPT ![r] = [kind |-> k, n |-> made[r] + 1]]
  BY DEF Produce
<1>3. /\ item'[r] = [kind |-> k, n |-> made[r] + 1] /\ made'[r] = made[r] + 1
      /\ free'[r] = free[r] /\ got'[r] = got[r] /\ queue'[r] = queue[r]
      /\ flight'[r] = flight[r] /\ stop' = stop /\ pc' = pc
      /\ Producing(r)' <=> Producing(r)
  BY <1>1, <1>2 DEF Produce, TypeOK, threads, Producing
<1>4. Total(r)' = Total(r) /\ made[r] = Total(r)
  BY <1>1, <1>3 DEF Total, BridgeOK
<1>5. item'[r] # NoItem /\ item'[r].n = made'[r]
  BY <1>3 DEF NoItem
<1>6. /\ \A j \in 1..Len(queue[r]) : queue[r][j].kind # "done"
      /\ \A j \in 1..Len(flight[r]) : flight[r][j].kind # "done"
  BY <1>1 DEF BridgeOK, Last
<1>7. Numbered(got[r], queue[r], flight[r]) /\ free[r] = Slots - Len(queue[r]) - Len(flight[r])
  BY <1>1 DEF BridgeOK
<1>8. Numbered(got[r], queue[r], flight[r])'
      /\ free'[r] = Slots - Len(queue'[r]) - Len(flight'[r])
  BY <1>3, <1>7
<1>9. /\ \A j \in 1..Len(queue'[r]) : Last(queue'[r][j], made'[r], ~Producing(r)')
      /\ \A j \in 1..Len(flight'[r]) : Last(flight'[r][j], made'[r], ~Producing(r)')
  BY <1>3, <1>6 DEF Last
<1>10. pc'[r] \notin {"new", "atPrompt", "tokenizing", "atLock", "opening"}
  BY <1>1, <1>3, ProducingStage
<1> QED
  BY <1>1, <1>3, <1>4, <1>5, <1>8, <1>9, <1>10 DEF BridgeOK

LEMMA EnqueueBridge ==
  ASSUME IInv, NEW r \in Request, Enqueue(r) PROVE BridgeOK(r)'
<1> DEFINE i == item[r]
<1>1. BridgeOK(r) /\ TypeOK /\ Producing(r) /\ i # NoItem
  BY DEF IInv, BridgeInv, Enqueue
<1>2. /\ flight'[r] = Append(flight[r], i) /\ free'[r] = free[r] - 1
      /\ item'[r] = Following(i) /\ got'[r] = got[r] /\ queue'[r] = queue[r]
      /\ made'[r] = IF item'[r] = NoItem THEN made[r] ELSE made[r] + 1
      /\ stop' = stop /\ pc' = pc
      /\ Producing(r)' <=> i.kind # "done"
  BY <1>1 DEF Enqueue, TypeOK, threads, Producing
<1>3. /\ got[r] \in Seq(Nat) /\ queue[r] \in Seq(Item) /\ flight[r] \in Seq(Item)
      /\ i \in Item
  BY <1>1, BridgeTypes
<1>4. /\ Len(got[r]) \in Nat /\ Len(queue[r]) \in Nat /\ Len(flight[r]) \in Nat
      /\ Slots \in Nat /\ free[r] \in Nat /\ made[r] \in Nat /\ i.n \in Nat /\ i.kind \in Kind
  BY <1>1, <1>3, BridgeTypes, ServingAssumption DEF Item
<1>5. made[r] = Total(r) + 1 /\ i.n = made[r]
  BY <1>1 DEF BridgeOK
<1>6. i.n = Len(got[r]) + Len(queue[r]) + Len(flight[r]) + 1
  BY <1>5 DEF Total
<1>7. Numbered(got[r], queue[r], flight[r])'
  BY <1>1, <1>2, <1>3, <1>6, NumberedEnqueue DEF BridgeOK
<1>8. Len(flight'[r]) = Len(flight[r]) + 1
  BY <1>2, <1>3
<1>9. Total(r)' = made[r] /\ free'[r] = Slots - Len(queue'[r]) - Len(flight'[r])
  <2>1. Len(got'[r]) = Len(got[r]) /\ Len(queue'[r]) = Len(queue[r])
    BY <1>2
  <2>2. free'[r] = (Slots - Len(queue[r]) - Len(flight[r])) - 1
    BY <1>1, <1>2 DEF BridgeOK
  <2>3. Slots - Len(queue[r]) - (Len(flight[r]) + 1)
          = (Slots - Len(queue[r]) - Len(flight[r])) - 1
    <3> DEFINE q == Len(queue[r])
               f == Len(flight[r])
    <3>1. q \in Nat /\ f \in Nat /\ Slots \in Nat
      BY <1>4
    <3> HIDE DEF q, f
    <3>2. Slots - q - (f + 1) = (Slots - q - f) - 1
      BY <3>1, OneLess
    <3> QED
      BY <3>2 DEF q, f
  <2>4. Total(r)' = Len(got[r]) + Len(queue[r]) + (Len(flight[r]) + 1)
    BY <1>8, <2>1 DEF Total
  <2>5. Total(r) = Len(got[r]) + Len(queue[r]) + Len(flight[r])
    BY DEF Total
  <2>6. Total(r)' = made[r]
    <3> DEFINE g == Len(got[r])
               q == Len(queue[r])
               f == Len(flight[r])
               total == Total(r)
               next == Total(r)'
    <3>1. g \in Nat /\ q \in Nat /\ f \in Nat
      BY <1>4
    <3>2. total = g + q + f /\ next = g + q + (f + 1) /\ made[r] = total + 1
      BY <1>5, <2>4, <2>5
    <3> HIDE DEF g, q, f, total, next
    <3>3. next = made[r]
      BY <3>1, <3>2
    <3> QED
      BY <3>3 DEF next
  <2>7. free'[r] = Slots - Len(queue'[r]) - Len(flight'[r])
    BY <1>8, <2>1, <2>2, <2>3
  <2> QED
    BY <2>6, <2>7
<1>10. /\ \A j \in 1..Len(queue[r]) : queue[r][j].kind # "done"
       /\ \A j \in 1..Len(flight[r]) : flight[r][j].kind # "done"
  BY <1>1 DEF BridgeOK, Last
<1>11. \A j \in 1..Len(queue'[r]) : Last(queue'[r][j], made'[r], ~Producing(r)')
  BY <1>2, <1>10 DEF Last
<1>12. i.kind = "done" => made'[r] = made[r] /\ ~Producing(r)'
  BY <1>2 DEF Following
<1>13. ASSUME NEW j \in 1..Len(flight'[r])
       PROVE  Last(flight'[r][j], made'[r], ~Producing(r)')
  <2>1. CASE j = Len(flight[r]) + 1
    <3>1. flight'[r][j] = i
      BY <1>2, <1>3, <2>1
    <3> QED
      BY <1>5, <1>12, <3>1 DEF Last
  <2>2. CASE j # Len(flight[r]) + 1
    <3>1. j \in 1..Len(flight[r]) /\ flight'[r][j] = flight[r][j]
      BY <1>2, <1>3, <1>4, <1>8, <2>2
    <3> QED
      BY <1>10, <3>1 DEF Last
  <2> QED
    BY <2>1, <2>2
<1>14. Producing(r)' => IF item'[r] = NoItem THEN made'[r] = Total(r)'
                        ELSE made'[r] = Total(r)' + 1 /\ item'[r].n = made'[r]
  BY <1>2, <1>5, <1>9 DEF Following
<1>15. ~Producing(r)' => item'[r] = NoItem /\ made'[r] = Total(r)'
  BY <1>2, <1>9 DEF Following
<1>16. pc'[r] \notin {"new", "atPrompt", "tokenizing", "atLock", "opening"}
  BY <1>1, <1>2, ProducingStage
<1> QED
  BY <1>7, <1>9, <1>11, <1>13, <1>14, <1>15, <1>16 DEF BridgeOK

LEMMA StopBridge ==
  ASSUME IInv, NEW r \in Request, Stop(r) PROVE BridgeOK(r)'
<1>1. BridgeOK(r) /\ TypeOK /\ Producing(r) /\ r \in stop
  BY DEF IInv, BridgeInv, Stop
<1>2. /\ item'[r] = NoItem /\ made'[r] = made[r] /\ free'[r] = free[r] /\ got'[r] = got[r]
      /\ queue'[r] = queue[r] /\ flight'[r] = flight[r] /\ stop' = stop /\ pc' = pc
      /\ ~Producing(r)'
  BY <1>1 DEF Stop, TypeOK, Producing
<1>3. /\ \A j \in 1..Len(queue[r]) : queue[r][j].kind # "done"
      /\ \A j \in 1..Len(flight[r]) : flight[r][j].kind # "done"
  BY <1>1 DEF BridgeOK, Last
<1>4. /\ \A j \in 1..Len(queue'[r]) : Last(queue'[r][j], made'[r], ~Producing(r)')
      /\ \A j \in 1..Len(flight'[r]) : Last(flight'[r][j], made'[r], ~Producing(r)')
  BY <1>2, <1>3 DEF Last
<1>5. pc'[r] \notin {"new", "atPrompt", "tokenizing", "atLock", "opening"}
  BY <1>1, <1>2, ProducingStage
<1>6. Numbered(got[r], queue[r], flight[r]) /\ free[r] = Slots - Len(queue[r]) - Len(flight[r])
  BY <1>1 DEF BridgeOK
<1> QED
  BY <1>1, <1>2, <1>4, <1>5, <1>6 DEF BridgeOK

LEMMA OpenedBridge ==
  ASSUME IInv, NEW r \in Request, Opened(r) PROVE BridgeOK(r)'
<1>1. BridgeOK(r) /\ TypeOK /\ pc[r] = "opening" /\ r \notin stop /\ ~Producing(r)
  BY DEF IInv, BridgeInv, StageInv, LockInv, LockOK, Opened, Producing, Stage, Yielding
<1>2. /\ item'[r] = item[r] /\ made'[r] = made[r] /\ free'[r] = free[r] /\ got'[r] = got[r]
      /\ queue'[r] = queue[r] /\ flight'[r] = flight[r] /\ stop' = stop
      /\ pc'[r] = "reading"
  BY <1>1, Domains DEF Opened, Goto, bridge
<1>3. item[r] = NoItem /\ made[r] = Total(r) /\ made[r] = 0
  BY <1>1 DEF BridgeOK
<1>4. Len(queue[r]) = 0 /\ Len(flight[r]) = 0
  <2>1. Len(got[r]) + Len(queue[r]) + Len(flight[r]) = 0
    BY <1>3 DEF Total
  <2> QED
    BY <1>1, <2>1, BridgeTypes, SumIsZero, ZenonT(60)
<1>5. Total(r)' = Total(r)
  BY <1>2 DEF Total
<1>6. Numbered(got[r], queue[r], flight[r]) /\ free[r] = Slots - Len(queue[r]) - Len(flight[r])
  BY <1>1 DEF BridgeOK
<1>7. /\ Numbered(got[r], queue[r], flight[r])'
      /\ free'[r] = Slots - Len(queue'[r]) - Len(flight'[r])
  BY <1>2, <1>6
<1>8. 1..Len(queue'[r]) = {} /\ 1..Len(flight'[r]) = {}
  BY <1>2, <1>4
<1>9. item'[r] = NoItem /\ made'[r] = Total(r)'
  BY <1>2, <1>3, <1>5
<1> QED
  BY <1>2, <1>7, <1>8, <1>9 DEF BridgeOK

\* Of the jobs that produce, only the actions of the bridge start or end one.
LEMMA OthersBridge ==
  ASSUME IInv, NEW r \in Request, NEW q \in Request, q # r,
         Client(r) \/ Loop(r) \/ Thread(r) \/ Acquire(r)
  PROVE  BridgeOK(q)'
<1>1. TypeOK /\ BridgeOK(q)
  BY DEF IInv, BridgeInv
<1>2. pc'[q] = pc[q] /\ (q \in stop => q \in stop') /\ (Producing(q)' <=> Producing(q))
  <2>1. CASE Client(r)
    BY <1>1, <2>1, Domains
       DEF Client, Arrive, Opened, Sent, Close, LeaveQueue, LeaveTokenizing, LeaveGeneration,
           LeaveJoin, Drop, Goto, Submit, threads, Producing
  <2>2. CASE Loop(r)
    BY <1>1, <2>2, Domains
       DEF Loop, Tokenized, Answer, Get, Join, Finalize, Land, FutureDone, Goto, threads,
           Producing
  <2>3. CASE Thread(r)
    BY <1>1, <2>3, Domains DEF Thread, Produce, Enqueue, Stop, WorkEnds, threads, Producing
  <2>4. CASE Acquire(r)
    BY <1>1, <2>4, Domains
       DEF Acquire, Tokenize, Generate, Open, Goto, Submit, threads, Producing
  <2> QED
    BY <2>1, <2>2, <2>3, <2>4
<1>3. UNCHANGED Bridge(q)
  <2> USE DEF Bridge, bridge
  <2>1. CASE Client(r)
    BY <1>1, <2>1
       DEF Client, Arrive, Opened, Sent, Close, LeaveQueue, LeaveTokenizing, LeaveGeneration,
           LeaveJoin, Drop
  <2>2. CASE Get(r) \/ Land(r)
    BY <1>1, <2>2 DEF Get, Land, TypeOK
  <2>3. CASE Tokenized(r) \/ Answer(r) \/ Join(r) \/ Finalize(r)
                 \/ \E s \in Stage : FutureDone(r, s)
    BY <1>1, <2>3 DEF Tokenized, Answer, Join, Finalize, FutureDone
  <2>4. CASE Thread(r)
    BY <1>1, <2>4 DEF Thread, Produce, Enqueue, Stop, WorkEnds, TypeOK
  <2>5. CASE Acquire(r)
    BY <1>1, <2>5 DEF Acquire, Tokenize, Generate, Open
  <2> QED
    BY <2>1, <2>2, <2>3, <2>4, <2>5 DEF Loop
<1> QED
  BY <1>1, <1>2, <1>3, StillBridge

\* What the other actions of a request leave of its own bridge.
LEMMA OwnBridge ==
  ASSUME IInv, NEW r \in Request, Client(r) \/ Loop(r) \/ Thread(r) \/ Acquire(r)
  PROVE  BridgeOK(r)'
<1> DEFINE Early == {"new", "atPrompt", "tokenizing", "atLock", "opening"}
<1>1. TypeOK /\ BridgeOK(r)
  BY DEF IInv, BridgeInv
<1>2. SUFFICES ASSUME UNCHANGED bridge,
                      Producing(r)' <=> Producing(r), r \in stop => r \in stop',
                      pc'[r] \in Early => pc[r] \in Early
               PROVE  BridgeOK(r)'
  <2>1. CASE Get(r) \/ Land(r) \/ Produce(r) \/ Enqueue(r) \/ Stop(r) \/ Opened(r)
    BY <2>1, GetBridge, LandBridge, ProduceBridge, EnqueueBridge, StopBridge, OpenedBridge
  <2>2. CASE Arrive(r) \/ Sent(r) \/ Close(r) \/ LeaveQueue(r) \/ Drop(r)
    BY <1>1, <1>2, <2>2, Domains
       DEF Arrive, Sent, Close, LeaveQueue, Drop, Goto, threads, Producing
  <2>3. CASE LeaveTokenizing(r) \/ LeaveGeneration(r) \/ LeaveJoin(r) \/ Finalize(r)
    BY <1>1, <1>2, <2>3, Domains
       DEF LeaveTokenizing, LeaveGeneration, LeaveJoin, Finalize, Goto, threads, Producing
  <2>4. CASE Tokenized(r) \/ Answer(r) \/ Join(r)
    BY <1>1, <1>2, <2>4, Domains DEF Tokenized, Answer, Join, Goto, threads, Producing
  <2>5. ASSUME NEW s \in Stage, FutureDone(r, s) \/ WorkEnds(r, s) PROVE BridgeOK(r)'
    BY <1>2, <2>5 DEF FutureDone, WorkEnds, Producing
  <2>6. CASE Acquire(r)
    BY <1>1, <1>2, <2>6, Domains
       DEF Acquire, Tokenize, Generate, Open, Goto, Submit, threads, Producing
  <2> QED
    BY <2>1, <2>2, <2>3, <2>4, <2>5, <2>6 DEF Client, Loop, Thread
<1>3. UNCHANGED Bridge(r)
  BY <1>2 DEF bridge, Bridge
<1> QED
  BY <1>1, <1>2, <1>3, StillBridge

LEMMA StepBridge == ASSUME IInv, [Next]_vars PROVE BridgeInv'
<1>1. CASE UNCHANGED vars
  BY <1>1 DEF IInv, BridgeInv, BridgeOK, Total, Last, Producing, vars, threads, bridge
<1>2. ASSUME NEW r \in Request, Client(r) \/ Loop(r) \/ Thread(r) \/ Acquire(r)
      PROVE  BridgeInv'
  BY <1>2, OthersBridge, OwnBridge DEF BridgeInv
<1> QED
  BY <1>1, <1>2 DEF Next

\* The end marker is the last item, and it is taken when all the others are.
LEMMA TakenToTheEnd ==
  ASSUME IInv, NEW r \in Request, Get(r), Head(queue[r]).kind = "done"
  PROVE  Len(got'[r]) = made'[r] /\ ~Producing(r)'
<1>1. /\ queue[r] # <<>> /\ got'[r] = Append(got[r], Head(queue[r]).n)
      /\ made'[r] = made[r] /\ (Producing(r)' <=> Producing(r))
  BY DEF Get, IInv, TypeOK, threads, Producing
<1>2. BridgeOK(r) /\ got[r] \in Seq(Nat) /\ queue[r] \in Seq(Item)
  BY BridgeTypes DEF IInv, BridgeInv
<1>3. Head(queue[r]) = queue[r][1] /\ 1 \in 1..Len(queue[r])
  BY <1>1, <1>2, Tails
<1>4. Head(queue[r]).n = Len(got[r]) + 1
  BY <1>2, <1>3 DEF BridgeOK, Numbered
<1>5. Head(queue[r]).n = made[r] /\ ~Producing(r)
  BY <1>2, <1>3 DEF BridgeOK, Last
<1>6. Len(got'[r]) = Len(got[r]) + 1
  BY <1>1, <1>2, <1>4
<1> QED
  BY <1>1, <1>4, <1>5, <1>6

LEMMA StepEnd == ASSUME IInv, [Next]_vars PROVE EndInv'
<1> DEFINE Late == {"joining", "closing", "answered", "failed"}
<1> DEFINE Whole(r) == Len(got[r]) = made[r] /\ ~Producing(r)
<1>1. \A r \in Streaming : pc[r] \in Late => Whole(r)
  BY DEF IInv, EndInv
<1>2. TypeOK /\ Streaming \subseteq Request
  BY ServingAssumption DEF IInv
<1>3. SUFFICES ASSUME NEW q \in Streaming, pc'[q] \in Late, ~Whole(q)' PROVE FALSE
  BY DEF EndInv
<1>4. CASE UNCHANGED vars
  BY <1>1, <1>3, <1>4 DEF vars, threads, bridge, Producing
<1>5. ASSUME NEW r \in Request, Client(r) \/ Loop(r) \/ Thread(r) \/ Acquire(r)
      PROVE  FALSE
  <2>1. CASE pc[q] \notin Late
    <3>1. r = q
      BY <1>2, <1>3, <1>5, <2>1, Domains
         DEF Client, Arrive, Opened, Sent, Close, LeaveQueue, LeaveTokenizing, LeaveGeneration,
             LeaveJoin, Drop, Loop, Tokenized, Answer, Get, Join, Finalize, Land, FutureDone,
             Thread, Produce, Enqueue, Stop, WorkEnds, Acquire, Tokenize, Generate, Open, Goto
    <3>2. Answer(q) \/ Get(q)
      BY <1>2, <1>3, <1>5, <2>1, <3>1, Domains
         DEF Client, Arrive, Opened, Sent, Close, LeaveQueue, LeaveTokenizing, LeaveGeneration,
             LeaveJoin, Drop, Loop, Tokenized, Answer, Get, Join, Finalize, Land, FutureDone,
             Thread, Produce, Enqueue, Stop, WorkEnds, Acquire, Tokenize, Generate, Open, Goto
    <3>3. ~Answer(q)
      BY <1>2, <1>3 DEF IInv, StageInv, Answer
    <3>4. Get(q) /\ Head(queue[q]).kind = "done"
      BY <1>2, <1>3, <2>1, <3>2, <3>3, Domains DEF Get, Goto
    <3> QED
      BY <1>2, <1>3, <3>4, TakenToTheEnd
  <2>2. CASE pc[q] \in Late
    <3>1. Whole(q) /\ ~Producing(q)
      BY <1>1, <2>2
    <3>2. ~Get(q) /\ ~Opened(q) /\ ~Enqueue(q) /\ ~Produce(q) /\ ~Stop(q)
      BY <2>2, <3>1 DEF Get, Opened, Enqueue, Produce, Stop
    <3>3. got'[q] = got[q] /\ made'[q] = made[q]
      <4>1. CASE Client(r)
        BY <4>1
           DEF Client, Arrive, Opened, Sent, Close, LeaveQueue, LeaveTokenizing,
               LeaveGeneration, LeaveJoin, Drop, bridge
      <4>2. CASE Loop(r)
        BY <1>2, <3>2, <4>2
           DEF Loop, Tokenized, Answer, Get, Join, Finalize, Land, FutureDone, bridge, TypeOK
      <4>3. CASE Thread(r)
        BY <1>2, <3>2, <4>3 DEF Thread, Produce, Enqueue, Stop, WorkEnds, bridge, TypeOK
      <4>4. CASE Acquire(r)
        BY <4>4 DEF Acquire, Tokenize, Generate, Open, bridge
      <4> QED
        BY <1>5, <4>1, <4>2, <4>3, <4>4
    <3>4. ~Producing(q)'
      <4>1. CASE Client(r)
        BY <3>1, <3>2, <4>1
           DEF Client, Arrive, Opened, Sent, Close, LeaveQueue, LeaveTokenizing,
               LeaveGeneration, LeaveJoin, Drop, Submit, threads, Producing
      <4>2. CASE Loop(r)
        BY <3>1, <4>2
           DEF Loop, Tokenized, Answer, Get, Join, Finalize, Land, FutureDone, threads,
               Producing
      <4>3. CASE Thread(r)
        BY <3>1, <4>3 DEF Thread, Produce, Enqueue, Stop, WorkEnds, threads, Producing
      <4>4. CASE Acquire(r)
        BY <3>1, <4>4 DEF Acquire, Tokenize, Generate, Open, Submit, threads, Producing
      <4> QED
        BY <1>5, <4>1, <4>2, <4>3, <4>4
    <3> QED
      BY <1>3, <3>1, <3>3, <3>4
  <2> QED
    BY <2>1, <2>2
<1> QED
  BY <1>4, <1>5 DEF Next
-----------------------------------------------------------------------------
(* Types. *)

ControlType ==
  /\ pc \in [Request -> {"new", "atPrompt", "tokenizing", "atLock", "generating",
                         "reading", "joining", "dropped"} \cup Yielding \cup Ended]
  /\ lock \in [Stage -> Request \cup {NoRequest}]
  /\ busy \subseteq Job /\ pending \subseteq Job /\ deferred \subseteq Job
  /\ stop \subseteq Request /\ errors \subseteq Request

LEMMA StepControlType == ASSUME TypeOK, [Next]_vars PROVE ControlType'
<1>0. ControlType
  BY DEF TypeOK, ControlType
<1> USE DEF ControlType, Goto, Take, Release, Submit, threads, bridge
<1>1. CASE UNCHANGED vars
  BY <1>0, <1>1 DEF vars
<1>2. ASSUME NEW r \in Request, Client(r) PROVE ControlType'
  <2>1. CASE Arrive(r) \/ Sent(r) \/ LeaveQueue(r) \/ Drop(r)
    BY <1>0, <2>1 DEF Arrive, Sent, LeaveQueue, Drop, Yielding, Ended
  <2>2. CASE Opened(r)
    BY <1>0, <2>2 DEF Opened, Job, Stage
  <2>3. CASE Close(r)
    BY <1>0, <2>3 DEF Close, Ended
  <2>4. CASE LeaveTokenizing(r)
    BY <1>0, <2>4 DEF LeaveTokenizing, Unwind, Ended, Job, Stage
  <2>5. CASE LeaveGeneration(r)
    <3>1. pc' = [pc EXCEPT ![r] = "left"] /\ stop' = stop \cup {r}
            /\ UNCHANGED <<busy, pending, errors>>
      BY <2>5 DEF LeaveGeneration
    <3>2. lock' \in [Stage -> Request \cup {NoRequest}] /\ deferred' \subseteq Job
      BY <1>0, <2>5 DEF LeaveGeneration, Unwind, Job, Stage
    <3> QED
      BY <1>0, <3>1, <3>2 DEF Ended
  <2>6. CASE LeaveJoin(r)
    BY <1>0, <2>6 DEF LeaveJoin, Ended
  <2> QED
    BY <1>2, <2>1, <2>2, <2>3, <2>4, <2>5, <2>6 DEF Client
<1>3. ASSUME NEW r \in Request, Loop(r) PROVE ControlType'
  <2>1. CASE Tokenized(r) \/ Answer(r)
    BY <1>0, <2>1 DEF Tokenized, Answer, Ended
  <2>2. CASE Get(r)
    BY <1>0, <2>2 DEF Get, Yielding
  <2>3. CASE Join(r)
    BY <1>0, <2>3 DEF Join, Yielding, Ended
  <2>4. CASE Finalize(r)
    <3>1. pc' = [pc EXCEPT ![r] = "left"] /\ stop' = stop \cup {r}
            /\ UNCHANGED <<busy, pending, errors>>
      BY <2>4 DEF Finalize
    <3>2. lock' \in [Stage -> Request \cup {NoRequest}] /\ deferred' \subseteq Job
      BY <1>0, <2>4 DEF Finalize, Unwind, Job, Stage
    <3> QED
      BY <1>0, <3>1, <3>2 DEF Ended
  <2>5. CASE Land(r)
    BY <1>0, <2>5 DEF Land
  <2>6. ASSUME NEW s \in Stage, FutureDone(r, s) PROVE ControlType'
    <3>1. UNCHANGED <<pc, busy, stop, errors>> /\ pending' \subseteq pending
            /\ deferred' \subseteq deferred
      BY <2>6 DEF FutureDone
    <3>2. lock' \in [Stage -> Request \cup {NoRequest}]
      BY <1>0, <2>6 DEF FutureDone
    <3> QED
      BY <1>0, <3>1, <3>2
  <2> QED
    BY <1>3, <2>1, <2>2, <2>3, <2>4, <2>5, <2>6 DEF Loop
<1>4. ASSUME NEW r \in Request, Thread(r) PROVE ControlType'
  <2>1. busy' \subseteq busy /\ UNCHANGED <<pc, lock, pending, deferred, stop, errors>>
    BY <1>4 DEF Thread, Produce, Enqueue, Stop, WorkEnds
  <2> QED
    BY <1>0, <2>1
<1>5. ASSUME NEW r \in Request, Acquire(r) PROVE ControlType'
  BY <1>0, <1>5 DEF Acquire, Tokenize, Generate, Open, Yielding, Job, Stage
<1> QED
  BY <1>1, <1>2, <1>3, <1>4, <1>5 DEF Next

BridgeType ==
  /\ free \in [Request -> 0..Slots]
  /\ item \in [Request -> Item \cup {NoItem}]
  /\ made \in [Request -> Nat]
  /\ flight \in [Request -> Seq(Item)] /\ queue \in [Request -> Seq(Item)]
  /\ got \in [Request -> Seq(Nat)]

LEMMA StepBridgeType == ASSUME IInv, [Next]_vars PROVE BridgeType'
<1>0. TypeOK /\ BridgeType
  BY DEF IInv, TypeOK, BridgeType
<1>1. CASE UNCHANGED bridge
  BY <1>0, <1>1 DEF BridgeType, bridge
<1>2. ASSUME NEW r \in Request, Get(r) PROVE BridgeType'
  <2>1. queue[r] \in Seq(Item) /\ queue[r] # <<>> /\ got[r] \in Seq(Nat)
    BY <1>0, <1>2, BridgeTypes DEF Get
  <2>2. Head(queue[r]).n \in Nat /\ Tail(queue[r]) \in Seq(Item) /\ Len(queue[r]) \in Nat \ {0}
    BY <2>1, Tails DEF Item
  <2>3. free[r] + 1 \in 0..Slots
    <3>1. free[r] = Slots - Len(queue[r]) - Len(flight[r])
      BY DEF IInv, BridgeInv, BridgeOK
    <3>2. Len(flight[r]) \in Nat /\ free[r] \in 0..Slots /\ Slots \in Nat
      BY <1>0, BridgeTypes, ServingAssumption
    <3> QED
      BY <2>2, <3>1, <3>2, RoomForOne, ZenonT(60)
  <2>4. Append(got[r], Head(queue[r]).n) \in Seq(Nat)
    BY <2>1, <2>2
  <2> QED
    BY <1>0, <1>2, <2>2, <2>3, <2>4 DEF Get, BridgeType
<1>3. ASSUME NEW r \in Request, Land(r) PROVE BridgeType'
  <2>1. queue[r] \in Seq(Item) /\ flight[r] \in Seq(Item) /\ flight[r] # <<>>
    BY <1>0, <1>3, BridgeTypes DEF Land
  <2>2. Head(flight[r]) \in Item /\ Tail(flight[r]) \in Seq(Item)
    BY <2>1, Tails
  <2>3. Append(queue[r], Head(flight[r])) \in Seq(Item)
    BY <2>1, <2>2
  <2> QED
    BY <1>0, <1>3, <2>2, <2>3 DEF Land, BridgeType
<1>4. ASSUME NEW r \in Request, Produce(r) PROVE BridgeType'
  <2>1. made[r] \in Nat
    BY <1>0, BridgeTypes
  <2> QED
    BY <1>0, <1>4, <2>1 DEF Produce, BridgeType, Item, Kind
<1>5. ASSUME NEW r \in Request, Enqueue(r) PROVE BridgeType'
  <2>1. item[r] \in Item /\ flight[r] \in Seq(Item) /\ made[r] \in Nat /\ free[r] \in 0..Slots
    BY <1>0, <1>5, BridgeTypes DEF Enqueue
  <2>2. Following(item[r]) \in Item \cup {NoItem}
    BY <2>1 DEF Following, Item, Kind
  <2>3. Append(flight[r], item[r]) \in Seq(Item) /\ free[r] > 0 => free[r] - 1 \in 0..Slots
    BY <2>1, ServingAssumption
  <2>4. Append(flight[r], item[r]) \in Seq(Item)
    BY <2>1
  <2> QED
    BY <1>0, <1>5, <2>1, <2>2, <2>3, <2>4 DEF Enqueue, BridgeType
<1>6. ASSUME NEW r \in Request, Stop(r) PROVE BridgeType'
  BY <1>0, <1>6 DEF Stop, BridgeType
<1>7. ASSUME NEW r \in Request, Client(r) \/ Loop(r) \/ Thread(r) \/ Acquire(r),
             ~Get(r), ~Land(r), ~Produce(r), ~Enqueue(r), ~Stop(r)
      PROVE  UNCHANGED bridge
  BY <1>7
     DEF Client, Arrive, Opened, Sent, Close, LeaveQueue, LeaveTokenizing, LeaveGeneration,
         LeaveJoin, Drop, Loop, Tokenized, Answer, Join, Finalize, FutureDone, Thread,
         WorkEnds, Acquire, Tokenize, Generate, Open
<1> QED
  BY <1>1, <1>2, <1>3, <1>4, <1>5, <1>6, <1>7 DEF Next, vars

LEMMA StepType == ASSUME IInv, [Next]_vars PROVE TypeOK'
<1>1. TypeOK
  BY DEF IInv
<1> QED
  BY <1>1, StepControlType, StepBridgeType DEF TypeOK, ControlType, BridgeType

LEMMA Invariance == Spec => []IInv
<1>1. IInv /\ [Next]_vars => IInv'
  BY StepType, StepLock, StepStage, StepBridge, StepEnd DEF IInv
<1> QED
  BY InitIInv, <1>1, PTL DEF Spec
-----------------------------------------------------------------------------
\* The variables of the serving process keep their types; the bridge's slots stay
\* between none and all.
THEOREM TypeCorrect == Spec => []TypeOK
  BY Invariance, PTL DEF IInv

\* A consumer takes a stream's items in order and without a gap, and the closing events
\* are sent when everything the thread made has been taken.
THEOREM StreamsAreWhole == Spec => []StreamIsWhole
<1>1. IInv => StreamIsWhole
  BY ServingAssumption DEF IInv, BridgeInv, BridgeOK, Numbered, EndInv, StreamIsWhole
<1> QED
  BY <1>1, Invariance, PTL

\* Who works owns the lock of the stage.
LEMMA WorkersOwn ==
  ASSUME IInv, NEW s \in Stage, NEW r \in Working(s) PROVE lock[s] = r /\ r \in Request
  BY DEF IInv, LockInv, LockOK, Working

\* A step starts one job in an idle stage, ends the one of a busy stage, or neither.
LEMMA StepWorking ==
  ASSUME IInv, [Next]_vars, NEW s \in Stage
  PROVE  \/ Working(s)' = Working(s)
         \/ \E r \in Request : Working(s) = {} /\ Working(s)' = {r}
         \/ \E r \in Request : Working(s) = {r} /\ Working(s)' = {}
<1>1. CASE busy' = busy
  BY <1>1 DEF Working
<1>2. ASSUME NEW r \in Request, NEW t \in Stage,
             busy' = busy \cup {<<r, t>>}, lock[t] = NoRequest \/ (Opened(r) /\ t = "generate")
      PROVE  Working(s)' = Working(s) \/ (Working(s) = {} /\ Working(s)' = {r})
  <2>1. CASE t # s
    <3>1. \A q \in Request : <<q, s>> \in busy' <=> <<q, s>> \in busy
      BY <1>2, <2>1
    <3>2. Working(s)' = Working(s)
      BY <3>1 DEF Working
    <3> QED
      BY <3>2
  <2>2. CASE t = s
    <3>1. Working(s) = {}
      <4>1. CASE lock[t] = NoRequest
        BY <2>2, <4>1, WorkersOwn, ServingAssumption
      <4>2. CASE Opened(r) /\ t = "generate"
        <5>1. <<r, t>> \notin busy /\ lock[t] = r
          BY <4>2 DEF Opened, IInv, LockInv, LockOK, Holds, Yielding
        <5> QED
          BY <2>2, <5>1, WorkersOwn DEF Working
      <4> QED
        BY <1>2, <4>1, <4>2
    <3> QED
      BY <1>2, <2>2, <3>1 DEF Working
  <2> QED
    BY <2>1, <2>2
<1>3. ASSUME NEW r \in Request, NEW t \in Stage, busy' = busy \ {<<r, t>>}
      PROVE  Working(s)' = Working(s) \/ (Working(s) = {r} /\ Working(s)' = {})
  <2>1. CASE t # s \/ <<r, s>> \notin busy
    <3>1. \A q \in Request : <<q, s>> \in busy' <=> <<q, s>> \in busy
      BY <1>3, <2>1
    <3>2. Working(s)' = Working(s)
      BY <3>1 DEF Working
    <3> QED
      BY <3>2
  <2>2. CASE t = s /\ <<r, s>> \in busy
    <3>1. Working(s) = {r}
      BY <2>2, WorkersOwn DEF Working
    <3> QED
      BY <1>3, <2>2, <3>1 DEF Working
  <2> QED
    BY <2>1, <2>2
<1>4. ASSUME NEW r \in Request, Client(r) \/ Loop(r) \/ Thread(r) \/ Acquire(r)
      PROVE  \/ busy' = busy
             \/ \E t \in Stage : busy' = busy \ {<<r, t>>}
             \/ \E t \in Stage : /\ busy' = busy \cup {<<r, t>>}
                                 /\ lock[t] = NoRequest \/ (Opened(r) /\ t = "generate")
  <2> USE DEF threads, Submit, Stage, Take
  <2>1. CASE Client(r)
    BY <2>1 DEF Client, Arrive, Opened, Sent, Close, LeaveQueue, LeaveTokenizing,
                LeaveGeneration, LeaveJoin, Drop
  <2>2. CASE Loop(r)
    BY <2>2 DEF Loop, Tokenized, Answer, Get, Join, Finalize, Land, FutureDone
  <2>3. CASE Thread(r)
    BY <2>3 DEF Thread, Produce, Enqueue, Stop, WorkEnds
  <2>4. CASE Tokenize(r)
    <3>1. /\ busy' = busy \cup {<<r, "prompt">>} /\ lock["prompt"] = NoRequest
          /\ "prompt" \in Stage
      BY <2>4 DEF Tokenize
    <3> QED
      BY <3>1
  <2>5. CASE Generate(r)
    <3>1. /\ busy' = busy \cup {<<r, "generate">>} /\ lock["generate"] = NoRequest
          /\ "generate" \in Stage
      BY <2>5 DEF Generate
    <3> QED
      BY <3>1
  <2>6. CASE Open(r)
    BY <2>6 DEF Open
  <2> QED
    BY <1>4, <2>1, <2>2, <2>3, <2>4, <2>5, <2>6 DEF Acquire
<1> QED
  BY <1>1, <1>2, <1>3, <1>4 DEF Next, vars, threads

\* However requests are cancelled, one tokenizer and one generation run at a time: the
\* threads of each kind implement the abstract lock.
THEOREM Refinement == Spec => OneAtATime
<1>1. Init => Tokenizer!Init /\ Model!Init
  BY DEF Init, Tokenizer!Init, Model!Init, Working
<1>2. IInv /\ [Next]_vars => [Tokenizer!Next]_(Working("prompt"))
  BY StepWorking DEF Stage, Tokenizer!Next, Tokenizer!Enter, Tokenizer!Leave
<1>3. IInv /\ [Next]_vars => [Model!Next]_(Working("generate"))
  BY StepWorking DEF Stage, Model!Next, Model!Enter, Model!Leave
<1> QED
  BY <1>1, <1>2, <1>3, Invariance, PTL DEF Spec, OneAtATime, Tokenizer!Spec, Model!Spec
-----------------------------------------------------------------------------
(* Who will release a lock.                                                 *)

\* Every lock that is taken is released by the coroutine that took it, which is at a
\* stage from which it will unwind, or by the future of its thread.
Owed ==
  \A r \in Request, s \in Stage :
    lock[s] = r => Holds(r, s) \/ <<r, s>> \in deferred

LEMMA OwedStep ==
  ASSUME Owed,
         \A s \in Stage :
           \/ lock'[s] = NoRequest
           \/ \E r \in Request : lock'[s] = r /\ (Holds(r, s)' \/ <<r, s>> \in deferred')
           \/ /\ lock'[s] = lock[s]
              /\ \A r \in Request : Holds(r, s) => Holds(r, s)'
              /\ \A r \in Request : <<r, s>> \in deferred => <<r, s>> \in deferred'
  PROVE  Owed'
<1> SUFFICES ASSUME NEW r \in Request, NEW s \in Stage, lock'[s] = r
             PROVE  Holds(r, s)' \/ <<r, s>> \in deferred'
  BY DEF Owed
<1> QED
  BY ServingAssumption DEF Owed

\* A request takes a lock, or releases it, and is where it owes it, or no longer.
LEMMA OwedMove ==
  ASSUME IInv, Owed, NEW r \in Request, NEW s \in Stage, NEW where, Goto(r, where),
         UNCHANGED deferred,
         \/ Take(r, s) /\ Holds(r, s)'
         \/ Release(s),
         \A t \in Stage \ {s} : Holds(r, t) => Holds(r, t)'
  PROVE  Owed'
<1>1. /\ \A q \in Request \ {r} : pc'[q] = pc[q]
      /\ \A t \in Stage \ {s} : lock'[t] = lock[t]
      /\ lock'[s] = NoRequest \/ (lock'[s] = r /\ Holds(r, s)')
  BY Domains DEF IInv, Goto, Take, Release
<1>2. \A q \in Request \ {r}, t \in Stage : Holds(q, t)' <=> Holds(q, t)
  BY <1>1 DEF Holds
<1> QED
  BY <1>1, <1>2, OwedStep

\* A request moves on with what it owes.
LEMMA OwedStay ==
  ASSUME IInv, Owed, NEW r \in Request, NEW where, Goto(r, where), UNCHANGED <<lock, deferred>>,
         \A t \in Stage : Holds(r, t) => Holds(r, t)'
  PROVE  Owed'
<1>1. \A q \in Request \ {r} : pc'[q] = pc[q]
  BY Domains DEF IInv, Goto
<1>2. \A q \in Request, t \in Stage : Holds(q, t) => Holds(q, t)'
  BY <1>1 DEF Holds
<1> QED
  BY <1>2, OwedStep

\* A cancelled request hands what it owes to the future, or releases.
LEMMA OwedUnwind ==
  ASSUME IInv, Owed, NEW r \in Request, NEW s \in Stage, Goto(r, "left"), Holds(r, s),
         Unwind(r, s)
  PROVE  Owed'
<1>1. lock[s] = r /\ (\A t \in Stage \ {s} : ~Holds(r, t))
  BY DEF IInv, LockInv, LockOK, Holds, Stage, Yielding
<1>2. \A q \in Request \ {r}, t \in Stage : Holds(q, t)' <=> Holds(q, t)
  BY Domains DEF IInv, Goto, Holds
<1>3. CASE <<r, s>> \in pending
  <2>1. deferred' = deferred \cup {<<r, s>>} /\ UNCHANGED lock
    BY <1>3 DEF Unwind
  <2> QED
    BY <1>1, <1>2, <2>1, OwedStep
<1>4. CASE <<r, s>> \notin pending
  <2>1. UNCHANGED deferred /\ lock'[s] = NoRequest /\ \A t \in Stage \ {s} : lock'[t] = lock[t]
    BY <1>4, Domains DEF IInv, Unwind, Release
  <2> QED
    BY <1>1, <1>2, <2>1, OwedStep
<1> QED
  BY <1>3, <1>4

LEMMA OwedHolds == Spec => []Owed
<1>1. Init => Owed
  BY ServingAssumption DEF Init, Owed
<1>2. ASSUME IInv, Owed, [Next]_vars PROVE Owed'
  <2> USE <1>2 DEF threads, Stage
  <2>1. CASE UNCHANGED vars
    BY <2>1 DEF vars, Owed, Holds
  <2>2. ASSUME NEW r \in Request, Client(r) PROVE Owed'
    <3>1. CASE Arrive(r) \/ Opened(r) \/ Sent(r) \/ LeaveQueue(r) \/ Drop(r)
      <4>1. PICK where : Goto(r, where) /\ UNCHANGED <<lock, deferred>>
        BY <3>1 DEF Arrive, Opened, Sent, LeaveQueue, Drop, Submit
      <4>2. \A t \in Stage : Holds(r, t) => Holds(r, t)'
        BY <3>1, Domains DEF IInv, Arrive, Opened, Sent, LeaveQueue, Drop, Goto, Holds, Yielding
      <4> QED
        BY <4>1, <4>2, OwedStay
    <3>2. CASE Close(r) \/ LeaveJoin(r)
      <4>1. PICK where : Goto(r, where) /\ UNCHANGED deferred /\ Release("generate")
        BY <3>2 DEF Close, LeaveJoin
      <4>2. ~Holds(r, "prompt")
        BY <3>2 DEF Close, LeaveJoin, Holds
      <4> QED
        BY <4>1, <4>2, OwedMove
    <3>3. CASE LeaveTokenizing(r)
      BY <3>3, OwedUnwind DEF LeaveTokenizing, Holds
    <3>4. CASE LeaveGeneration(r)
      BY <3>4, OwedUnwind DEF LeaveGeneration, Holds
    <3> QED
      BY <2>2, <3>1, <3>2, <3>3, <3>4 DEF Client
  <2>3. ASSUME NEW r \in Request, Loop(r) PROVE Owed'
    <3>1. CASE Tokenized(r)
      <4>1. PICK where : Goto(r, where) /\ UNCHANGED deferred /\ Release("prompt")
        BY <3>1 DEF Tokenized
      <4>2. ~Holds(r, "generate")
        BY <3>1 DEF Tokenized, Holds, Yielding
      <4> QED
        BY <4>1, <4>2, OwedMove
    <3>2. CASE Answer(r) \/ (Join(r) /\ r \in errors)
      <4>1. PICK where : Goto(r, where) /\ UNCHANGED deferred /\ Release("generate")
        BY <3>2 DEF Answer, Join
      <4>2. ~Holds(r, "prompt")
        BY <3>2 DEF Answer, Join, Holds
      <4> QED
        BY <4>1, <4>2, OwedMove
    <3>3. CASE Get(r) \/ (Join(r) /\ r \notin errors)
      <4>1. UNCHANGED <<lock, deferred>> /\ (UNCHANGED pc \/ \E where : Goto(r, where))
        BY <3>3 DEF Get, Join
      <4>2. \A t \in Stage : Holds(r, t) => Holds(r, t)'
        BY <3>3, Domains DEF IInv, Get, Join, Goto, Holds, Yielding
      <4>3. CASE UNCHANGED pc
        BY <4>1, <4>3 DEF Owed, Holds
      <4> QED
        BY <4>1, <4>2, <4>3, OwedStay
    <3>4. CASE Finalize(r)
      BY <3>4, OwedUnwind DEF Finalize, Holds
    <3>5. CASE Land(r)
      BY <3>5 DEF Land, Owed, Holds
    <3>6. ASSUME NEW s \in Stage, FutureDone(r, s) PROVE Owed'
      <4>1. CASE <<r, s>> \in deferred
        <5>1. /\ deferred' = deferred \ {<<r, s>>} /\ UNCHANGED pc
              /\ lock'[s] = NoRequest /\ \A t \in Stage \ {s} : lock'[t] = lock[t]
          BY <3>6, <4>1, Domains DEF IInv, FutureDone, Release
        <5>2. \A q \in Request, t \in Stage : Holds(q, t)' <=> Holds(q, t)
          BY <5>1 DEF Holds
        <5> QED
          BY <5>1, <5>2, OwedStep
      <4>2. CASE <<r, s>> \notin deferred
        BY <3>6, <4>2 DEF FutureDone, Owed, Holds
      <4> QED
        BY <4>1, <4>2
    <3> QED
      BY <2>3, <3>1, <3>2, <3>3, <3>4, <3>5, <3>6 DEF Loop
  <2>4. ASSUME NEW r \in Request, Thread(r) PROVE Owed'
    <3>1. UNCHANGED <<pc, lock, deferred>>
      BY <2>4 DEF Thread, Produce, Enqueue, Stop, WorkEnds
    <3> QED
      BY <3>1 DEF Owed, Holds
  <2>5. ASSUME NEW r \in Request, Acquire(r) PROVE Owed'
    <3>1. CASE Tokenize(r)
      <4>1. Goto(r, "tokenizing") /\ UNCHANGED deferred /\ Take(r, "prompt")
        BY <3>1 DEF Tokenize, Submit
      <4>2. Holds(r, "prompt")' /\ ~Holds(r, "generate")
        BY <3>1, <4>1, Domains DEF IInv, Goto, Tokenize, Holds, Yielding
      <4> QED
        BY <4>1, <4>2, OwedMove
    <3>2. CASE Generate(r) \/ Open(r)
      <4>1. PICK where \in {"generating", "opening"} :
              Goto(r, where) /\ UNCHANGED deferred /\ Take(r, "generate")
        BY <3>2 DEF Generate, Open, Submit
      <4>2. Holds(r, "generate")' /\ ~Holds(r, "prompt")
        BY <3>2, <4>1, Domains DEF IInv, Goto, Generate, Open, Holds, Yielding
      <4> QED
        BY <4>1, <4>2, OwedMove
    <3> QED
      BY <2>5, <3>1, <3>2 DEF Acquire
  <2> QED
    BY <2>1, <2>2, <2>3, <2>4, <2>5 DEF Next
<1>3. IInv /\ Owed /\ [Next]_vars => Owed'
  BY <1>2
<1> QED
  BY <1>1, <1>3, Invariance, PTL DEF Spec

\* A lock is never left behind by a request that is gone or was dropped: the generator
\* that is still to be finalized has it, or a future that is not done and will release
\* it when it is.  It is the part of DepartedFreesTheLocks that no schedule can break.
DepartedIsOwed ==
  \A r \in Request, s \in Stage :
    lock[s] = r /\ pc[r] \notin {"tokenizing", "generating", "reading", "joining"} \cup Yielding =>
      \/ pc[r] = "dropped" /\ s = "generate"
      \/ pc[r] = "left" /\ <<r, s>> \in pending \cap deferred

\* However a request goes, its lock is somebody's to release (_run_sync_with_deferred_cancel,
\* _make_lock_deferred_release): the safety part of the promise to those who wait.
THEOREM DepartedIsOwedAlways == Spec => []DepartedIsOwed
<1>1. IInv /\ Owed => DepartedIsOwed
  BY DEF IInv, LockInv, LockOK, Owed, Holds, DepartedIsOwed, Stage
<1> QED
  BY <1>1, Invariance, OwedHolds, PTL

\* Nobody waits for one lock with the other: a request that queues for the tokenizer or
\* for the model has neither, and a lock that a cancelled request left to its thread is
\* waited for by others only.
NoHoldAndWait ==
  \A r \in Request : pc[r] \in {"atPrompt", "atLock"} => \A s \in Stage : lock[s] # r

\* The tokenizer's and the model's lock are never waited for in a circle.
THEOREM NoHoldAndWaitAlways == Spec => []NoHoldAndWait
<1>1. IInv /\ Owed => NoHoldAndWait
  BY DEF IInv, LockInv, LockOK, Owed, Holds, NoHoldAndWait, Yielding, Stage
<1> QED
  BY <1>1, Invariance, OwedHolds, PTL

\* put_nowait never finds the queue full: while an item is on its way to the loop a
\* place in the queue is kept for it, whoever has stopped reading.
RoomToLand == \A r \in Request : flight[r] # <<>> => Len(queue[r]) < Slots

\* The generation thread's items never meet a full queue on the loop, after a departure
\* included.
THEOREM RoomToLandAlways == Spec => []RoomToLand
<1>1. ASSUME IInv, NEW r \in Request, flight[r] # <<>> PROVE Len(queue[r]) < Slots
  <2>1. /\ flight[r] \in Seq(Item) /\ queue[r] \in Seq(Item) /\ free[r] \in 0..Slots
        /\ free[r] = Slots - Len(queue[r]) - Len(flight[r])
    BY <1>1 DEF IInv, TypeOK, BridgeInv, BridgeOK
  <2>2. Len(flight[r]) \in Nat \ {0} /\ Len(queue[r]) \in Nat
    BY <1>1, <2>1, Tails
  <2> QED
    BY <2>1, <2>2, ServingAssumption
<1>2. IInv => RoomToLand
  BY <1>1 DEF RoomToLand
<1> QED
  BY <1>2, Invariance, PTL
=============================================================================

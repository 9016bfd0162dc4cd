---------------------------- MODULE SingleFlight ----------------------------
(***************************************************************************)
(* codenib/serving/server/api.py: chat completions over one shared model.  *)
(* A request is a coroutine of the event loop; its tokenizing and its      *)
(* generation run in executor threads, each kind behind an asyncio.Lock.   *)
(* A request may be cancelled at any await, and a client may stop reading  *)
(* or leave; the thread goes on until it looks at its stop event, so the   *)
(* lock is released by whoever comes last: the request or, by a callback,  *)
(* the future of its thread.  Streams pass deltas from the thread to the   *)
(* loop through a bounded queue, whose slots the thread takes beforehand.  *)
(*                                                                         *)
(* Steps of the loop between two awaits are one action.  asyncio, the      *)
(* executor and the SSE response are modelled by how api.py uses them.     *)
(***************************************************************************)
EXTENDS Naturals, Sequences

CONSTANTS
  Request, NoRequest,
  Streaming,        \* the requests with "stream": true
  Slots,            \* stream_queue_items
  MaxDeltas         \* bound: deltas one generation may produce

ASSUME ServingAssumption ==
  /\ NoRequest \notin Request /\ Streaming \subseteq Request
  /\ Slots \in Nat \ {0} /\ MaxDeltas \in Nat

VARIABLES
  pc,               \* where each request's coroutine is
  lock,             \* who acquired prompt_lock and lock
  busy, pending,    \* jobs whose thread works, whose future is not done
  deferred,         \* jobs whose future will release the lock
  stop,             \* requests whose stop event is set
  free,             \* queue_slots of each stream
  item, made,       \* what each producer has in hand; how many items it made
  flight, queue,    \* items handed to the loop; items in the queue
  got,              \* items the stream's consumer took (their numbers)
  errors            \* streams that were handed an exception

threads == <<busy, pending, deferred>>
bridge == <<free, item, made, flight, queue, got, errors>>
vars == <<pc, lock, threads, stop, bridge>>

Stage == {"prompt", "generate"}
Job == Request \X Stage
Kind == {"delta", "finish", "error", "done"}
NoItem == [kind |-> "none", n |-> 0]
Item == [kind : Kind, n : Nat]

\* Suspended in a yield: the client has not read the last event.
Yielding == {"opening", "sending", "closing"}
Ended == {"answered", "refused", "failed", "left"}

\* Types, and the bounds of the bridge.
TypeOK ==
  /\ pc \in [Request -> {"new", "atPrompt", "tokenizing", "atLock", "generating",
                         "reading", "joining", "dropped"} \cup Yielding \cup Ended]
  /\ lock \in [Stage -> Request \cup {NoRequest}]
  /\ busy \subseteq Job /\ pending \subseteq Job /\ deferred \subseteq Job
  /\ stop \subseteq Request /\ errors \subseteq Request
  /\ free \in [Request -> 0..Slots]
  /\ item \in [Request -> Item \cup {NoItem}]
  /\ made \in [Request -> Nat]
  /\ flight \in [Request -> Seq(Item)] /\ queue \in [Request -> Seq(Item)]
  /\ got \in [Request -> Seq(Nat)]

Init ==
  /\ pc = [r \in Request |-> "new"]
  /\ lock = [s \in Stage |-> NoRequest]
  /\ busy = {} /\ pending = {} /\ deferred = {} /\ stop = {}
  /\ free = [r \in Request |-> Slots]
  /\ item = [r \in Request |-> NoItem]
  /\ made = [r \in Request |-> 0]
  /\ flight = [r \in Request |-> <<>>] /\ queue = [r \in Request |-> <<>>]
  /\ got = [r \in Request |-> <<>>]
  /\ errors = {}
-----------------------------------------------------------------------------
Goto(r, where) == pc' = [pc EXCEPT ![r] = where]
Take(r, s) == lock[s] = NoRequest /\ lock' = [lock EXCEPT ![s] = r]
Release(s) == lock' = [lock EXCEPT ![s] = NoRequest]

Submit(job) ==
  /\ busy' = busy \cup {job} /\ pending' = pending \cup {job}
  /\ UNCHANGED deferred

\* Broken on purpose: the lock is released when the request unwinds.
UnwindAtOnce(r, s) == Release(s) /\ UNCHANGED deferred

\* The "finally" blocks: a future that is done, or was never made, leaves the
\* release to the request; else the future releases when it is done.
Unwind(r, s) ==
  IF <<r, s>> \in pending
  THEN deferred' = deferred \cup {<<r, s>>} /\ UNCHANGED lock
  ELSE Release(s) /\ UNCHANGED deferred

Arrive(r) ==
  /\ pc[r] = "new"
  /\ Goto(r, "atPrompt")
  /\ UNCHANGED <<lock, threads, stop, bridge>>

Tokenize(r) ==
  /\ pc[r] = "atPrompt" /\ Take(r, "prompt")
  /\ Submit(<<r, "prompt">>)
  /\ Goto(r, "tokenizing")
  /\ UNCHANGED <<stop, bridge>>

\* The prompt may be empty, too long, or make the tokenizer raise.
Tokenized(r) ==
  /\ pc[r] = "tokenizing" /\ <<r, "prompt">> \notin pending
  /\ Release("prompt")
  /\ Goto(r, "atLock") \/ Goto(r, "refused")
  /\ UNCHANGED <<threads, stop, bridge>>

\* _run_full_single_flight
Generate(r) ==
  /\ pc[r] = "atLock" /\ r \notin Streaming /\ Take(r, "generate")
  /\ Submit(<<r, "generate">>)
  /\ Goto(r, "generating")
  /\ UNCHANGED <<stop, bridge>>

Answer(r) ==
  /\ pc[r] = "generating" /\ <<r, "generate">> \notin pending
  /\ stop' = stop \cup {r} /\ Release("generate")
  /\ Goto(r, "answered") \/ Goto(r, "failed")
  /\ UNCHANGED <<threads, bridge>>

\* _stream: the role chunk is yielded before the thread is started.
Open(r) ==
  /\ pc[r] = "atLock" /\ r \in Streaming /\ Take(r, "generate")
  /\ Goto(r, "opening")
  /\ UNCHANGED <<threads, stop, bridge>>

Opened(r) ==
  /\ pc[r] = "opening"
  /\ Submit(<<r, "generate">>)
  /\ Goto(r, "reading")
  /\ UNCHANGED <<lock, stop, bridge>>

\* Broken on purpose: the slot of an item that was taken is not given back.
GetKeepsSlot(r) ==
  /\ pc[r] = "reading" /\ queue[r] # <<>>
  /\ queue' = [queue EXCEPT ![r] = Tail(@)]
  /\ got' = [got EXCEPT ![r] = Append(@, Head(queue[r]).n)]
  /\ errors' = IF Head(queue[r]).kind = "error" THEN errors \cup {r} ELSE errors
  /\ CASE Head(queue[r]).kind = "delta" -> Goto(r, "sending")
       [] Head(queue[r]).kind = "done" -> Goto(r, "joining")
       [] OTHER -> UNCHANGED pc
  /\ UNCHANGED <<lock, threads, stop, free, item, made, flight>>

Get(r) ==
  /\ pc[r] = "reading" /\ queue[r] # <<>>
  /\ queue' = [queue EXCEPT ![r] = Tail(@)]
  /\ free' = [free EXCEPT ![r] = @ + 1]
  /\ got' = [got EXCEPT ![r] = Append(@, Head(queue[r]).n)]
  /\ errors' = IF Head(queue[r]).kind = "error" THEN errors \cup {r} ELSE errors
  /\ CASE Head(queue[r]).kind = "delta" -> Goto(r, "sending")
       [] Head(queue[r]).kind = "done" -> Goto(r, "joining")
       [] OTHER -> UNCHANGED pc
  /\ UNCHANGED <<lock, threads, stop, item, made, flight>>

Sent(r) ==
  /\ pc[r] = "sending"
  /\ Goto(r, "reading")
  /\ UNCHANGED <<lock, threads, stop, bridge>>

\* "await fut": the error is raised, or the last two events are yielded.
Join(r) ==
  /\ pc[r] = "joining" /\ <<r, "generate">> \notin pending
  /\ IF r \in errors
     THEN Goto(r, "failed") /\ stop' = stop \cup {r} /\ Release("generate")
     ELSE Goto(r, "closing") /\ UNCHANGED <<stop, lock>>
  /\ UNCHANGED <<threads, bridge>>

Close(r) ==
  /\ pc[r] = "closing"
  /\ stop' = stop \cup {r} /\ Release("generate")
  /\ Goto(r, "answered")
  /\ UNCHANGED <<threads, bridge>>
-----------------------------------------------------------------------------
\* A cancelled acquire has not acquired.
LeaveQueue(r) ==
  /\ pc[r] \in {"atPrompt", "atLock"}
  /\ Goto(r, "left")
  /\ UNCHANGED <<lock, threads, stop, bridge>>

LeaveTokenizing(r) ==
  /\ pc[r] = "tokenizing" /\ Unwind(r, "prompt")
  /\ Goto(r, "left")
  /\ UNCHANGED <<busy, pending, stop, bridge>>

\* Cancelled in the shielded future of a full generation, or in queue.get.
LeaveGeneration(r) ==
  /\ pc[r] \in {"generating", "reading"} /\ Unwind(r, "generate")
  /\ stop' = stop \cup {r}
  /\ Goto(r, "left")
  /\ UNCHANGED <<busy, pending, bridge>>

\* "await fut" is not shielded: the cancellation makes the future done, although
\* its thread may still be on its way out.
LeaveJoin(r) ==
  /\ pc[r] = "joining"
  /\ pending' = pending \ {<<r, "generate">>}
  /\ stop' = stop \cup {r} /\ Release("generate")
  /\ Goto(r, "left")
  /\ UNCHANGED <<busy, deferred, bridge>>

\* A generator suspended in a yield is closed when its response is dropped.
Drop(r) ==
  /\ pc[r] \in Yielding
  /\ Goto(r, "dropped")
  /\ UNCHANGED <<lock, threads, stop, bridge>>

Finalize(r) ==
  /\ pc[r] = "dropped" /\ Unwind(r, "generate")
  /\ stop' = stop \cup {r}
  /\ Goto(r, "left")
  /\ UNCHANGED <<busy, pending, bridge>>
-----------------------------------------------------------------------------
\* The threads.  A tokenizer and a full generation only come to an end.
WorkEnds(r, s) ==
  /\ <<r, s>> \in busy /\ (s = "prompt" \/ r \notin Streaming)
  /\ busy' = busy \ {<<r, s>>}
  /\ UNCHANGED <<pc, lock, pending, deferred, stop, bridge>>

Producing(r) == <<r, "generate">> \in busy /\ r \in Streaming

\* A step of the decode loop: the stop event, an exception, the end, a delta.
Produce(r) ==
  /\ Producing(r) /\ item[r] = NoItem /\ r \notin stop
  /\ \E k \in {"error", "finish", "delta"} :
       /\ k = "delta" => made[r] < MaxDeltas
       /\ item' = [item EXCEPT ![r] = [kind |-> k, n |-> made[r] + 1]]
  /\ made' = [made EXCEPT ![r] = @ + 1]
  /\ UNCHANGED <<pc, lock, threads, stop, free, flight, queue, got, errors>>

\* The next item: the end marker follows "finish" and "error".
Following(i) ==
  IF i.kind \in {"finish", "error"} THEN [kind |-> "done", n |-> i.n + 1] ELSE NoItem

\* Broken on purpose: an item is handed over without a slot.
EnqueueAnyway(r) ==
  /\ Producing(r) /\ item[r] # NoItem
  /\ flight' = [flight EXCEPT ![r] = Append(@, item[r])]
  /\ item' = [item EXCEPT ![r] = Following(item[r])]
  /\ made' = [made EXCEPT ![r] = IF item'[r] = NoItem THEN @ ELSE @ + 1]
  /\ busy' = IF item[r].kind = "done" THEN busy \ {<<r, "generate">>} ELSE busy
  /\ UNCHANGED <<pc, lock, pending, deferred, stop, free, queue, got, errors>>

\* enqueue with a slot, having looked at the stop event some time before; produce
\* returns when the end marker is on its way.
Enqueue(r) ==
  /\ Producing(r) /\ item[r] # NoItem
  /\ free[r] > 0 /\ free' = [free EXCEPT ![r] = @ - 1]
  /\ flight' = [flight EXCEPT ![r] = Append(@, item[r])]
  /\ item' = [item EXCEPT ![r] = Following(item[r])]
  /\ made' = [made EXCEPT ![r] = IF item'[r] = NoItem THEN @ ELSE @ + 1]
  /\ busy' = IF item[r].kind = "done" THEN busy \ {<<r, "generate">>} ELSE busy
  /\ UNCHANGED <<pc, lock, pending, deferred, stop, queue, got, errors>>

\* Broken on purpose: enqueue waits for a slot and never looks at the event.
WaitForSlot(r) == Producing(r) /\ r \in stop /\ free[r] > 0 /\ UNCHANGED vars

\* Both loops look at the stop event; so does the enqueue of the end marker.
Stop(r) ==
  /\ Producing(r) /\ r \in stop
  /\ busy' = busy \ {<<r, "generate">>}
  /\ item' = [item EXCEPT ![r] = NoItem]
  /\ UNCHANGED <<pc, lock, pending, deferred, stop, free, made, flight, queue, got, errors>>

\* put_nowait on the loop; in a full queue it would raise, and the item be lost.
Land(r) ==
  /\ flight[r] # <<>>
  /\ flight' = [flight EXCEPT ![r] = Tail(@)]
  /\ queue' = [queue EXCEPT ![r] =
       IF Len(@) < Slots THEN Append(@, Head(flight[r])) ELSE @]
  /\ UNCHANGED <<pc, lock, threads, stop, free, item, made, got, errors>>

\* The thread's result reaches the loop, and with it a deferred release.
FutureDone(r, s) ==
  /\ <<r, s>> \in pending \ busy
  /\ pending' = pending \ {<<r, s>>}
  /\ IF <<r, s>> \in deferred
     THEN Release(s) /\ deferred' = deferred \ {<<r, s>>}
     ELSE UNCHANGED <<lock, deferred>>
  /\ UNCHANGED <<pc, busy, stop, bridge>>

\* What the client does: it comes, reads an event, or leaves.
Client(r) ==
  \/ Arrive(r) \/ Opened(r) \/ Sent(r) \/ Close(r)
  \/ LeaveQueue(r) \/ LeaveTokenizing(r) \/ LeaveGeneration(r) \/ LeaveJoin(r) \/ Drop(r)

Loop(r) ==
  \/ Tokenized(r) \/ Answer(r) \/ Get(r) \/ Join(r) \/ Finalize(r) \/ Land(r)
  \/ \E s \in Stage : FutureDone(r, s)

Thread(r) ==
  Produce(r) \/ Enqueue(r) \/ Stop(r) \/ \E s \in Stage : WorkEnds(r, s)

Acquire(r) == Tokenize(r) \/ Generate(r) \/ Open(r)

Next == \E r \in Request : Client(r) \/ Loop(r) \/ Thread(r) \/ Acquire(r)

Spec == Init /\ [][Next]_vars

\* The loop and the threads run (max_new_tokens bounds a generation), and
\* asyncio.Lock serves its waiters in turn.  Clients owe nothing.
FairSpec ==
  /\ Spec
  /\ \A r \in Request :
       /\ WF_vars(Tokenized(r)) /\ WF_vars(Answer(r)) /\ WF_vars(Get(r))
       /\ WF_vars(Join(r)) /\ WF_vars(Finalize(r)) /\ WF_vars(Land(r))
       /\ WF_vars(Thread(r)) /\ SF_vars(Acquire(r))
       /\ \A s \in Stage : WF_vars(FutureDone(r, s))
-----------------------------------------------------------------------------
\* One tokenizer and one generation at a time, whoever has been cancelled:
\* the threads of each kind implement the abstract lock.
Working(s) == {r \in Request : <<r, s>> \in busy}
Tokenizer == INSTANCE AbstractLock WITH Task <- Request, inside <- Working("prompt")
Model == INSTANCE AbstractLock WITH Task <- Request, inside <- Working("generate")
OneAtATime == Tokenizer!Spec /\ Model!Spec

\* A consumer takes the items in the order they were made, none is lost in the
\* queue, and the closing events follow the last one.
StreamIsWhole ==
  \A r \in Streaming :
    /\ \A k \in 1..Len(got[r]) : got[r][k] = k
    /\ pc[r] \in {"joining", "closing", "answered", "failed"} => Len(got[r]) = made[r]

\* A request that is cancelled, or whose client is gone, gives up its locks
\* although nobody reads its queue any more.
DepartedFreesTheLocks ==
  \A r \in Request :
    pc[r] \in {"dropped", "left"} ~> \A s \in Stage : lock[s] # r

\* If clients read on or leave, every request that has come is answered,
\* refused, failed or gone: a cancelled one never blocks those behind it.
AttentiveAreServed ==
  (\A r \in Request : []<>(pc[r] \notin Yielding)) =>
    \A r \in Request : pc[r] = "atPrompt" ~> pc[r] \in Ended
=============================================================================

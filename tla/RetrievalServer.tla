--------------------------- MODULE RetrievalServer ---------------------------
(***************************************************************************)
(* codenib/mcp/server.py with ServerContext.indexed_query: one connection  *)
(* of the MCP server, from init_server to the end of its lifespan.  Tool   *)
(* calls run in threads and share the context lock; the published context  *)
(* follows the manifest; in deferred mode a call on edited source indexes  *)
(* it again, and a background thread (GraphWarmup) prepares the graph.     *)
(* Meanwhile the repository is edited and committed to and another process *)
(* (codenib codegraph init) updates the same cache.                        *)
(*                                                                         *)
(* The compiler and its lock are AbstractIndex; the source of a manifest   *)
(* is [text, commit], its fingerprint is the text.  version stands for the *)
(* inodes and times that a source binding compares: it changes with every  *)
(* write and never comes back, although the text may.  news says that the  *)
(* manifest on disk is not equal to the loaded one (each carries the time  *)
(* of its build).  A call holds the context lock to its end, so the loaded *)
(* context is always the one the call works with.                          *)
(***************************************************************************)
EXTENDS Naturals

CONSTANTS
  Call,              \* threads of tool calls
  Life,              \* the thread that opens and ends the connection
  Other,             \* another process that updates the index
  Worker,            \* Thread objects of the warmup: bounds the builds
  Mode,              \* modes to consider, of the three below
  Kind,              \* kinds of calls to consider, of the four below
  Text,              \* contents of the selected source
  NoCall, NoWorker, NoTarget, NoJob,
  MaxEdits, MaxCommits, MaxFaults

\* "prebuilt": without --defer-graph; "deferred": with it, for Python;
\* "blocking": with it, for languages whose build writes to the checkout.
ASSUME ModeAssumption == Mode \subseteq {"prebuilt", "deferred", "blocking"}

\* "search": tools that need BM25 only; "explore": explore_context when asked
\* for relations; "graph": tools that need the graph; "status": get_manifest.
ASSUME KindAssumption == Kind \subseteq {"search", "explore", "graph", "status"}
ASSUME NameAssumption ==
  /\ NoCall \notin Call /\ Life \notin Call /\ NoTarget \notin Text /\ NoWorker \notin Worker
  /\ Call \cap Worker = {} /\ Other \notin Call \cup Worker
ASSUME BoundAssumption ==
  MaxEdits \in Nat /\ MaxCommits \in Nat /\ MaxFaults \in Nat

VARIABLES
  source, version,             \* the repository
  published, inside, job,      \* the cache directory (AbstractIndex)
  mode, ctx, news,             \* _ctx, and whether the manifest differs from it
  holder,                      \* who owns _context_lock
  at, local,                   \* each call's next step and locals
  phase, guard,                \* checkout_guard and update_repo of each task
  state, target, thread, closed, stage, call, joins,    \* GraphWarmup
  life, faults

index == <<source, published, inside, job>>
warmup == <<state, target, thread, closed, stage, call, joins>>
updates == <<phase, guard>>
vars == <<index, version, mode, ctx, news, holder, at, local, updates, warmup,
          life, faults>>

View == {"bm25", "graph"}
Source == [text : Text, commit : 0 .. MaxCommits]
Task == Call \cup Worker \cup {Other}

Index == INSTANCE AbstractIndex
Warmup == INSTANCE GraphWarmup
            WITH Caller <- Call \cup {Life}, Fingerprint <- Text, MayFailToStart <- FALSE

NoLocal == [kind |-> "none", next |-> "none", again |-> FALSE, since |-> 0]

Local == [kind : Kind \cup {"none"}, again : BOOLEAN, since : Nat,
          next : {"none", "route", "check", "retry", "report"}]

\* Where a call owns the context lock, and everywhere.
Busy == {"refresh", "reload", "load", "warm", "prepare", "await", "check", "verify",
         "query", "report", "repair", "reindex"}
Label == Busy \cup {"idle", "queued", "answered"}

IndexTypes ==
  /\ source \in Source
  /\ published \in Index!Manifest
  /\ inside \subseteq Task
  /\ job \in [Task -> [source : Source, fresh : SUBSET View, looked : BOOLEAN] \cup {NoJob}]

ContextTypes ==
  /\ version \in Nat
  /\ mode \in Mode
  /\ ctx \in [source : Source, fresh : SUBSET View, version : Nat, revoked : BOOLEAN]
  /\ news \in BOOLEAN
  /\ life \in {"loading", "open", "ending", "draining", "ended"}
  /\ faults \in 0 .. MaxFaults

CallTypes ==
  /\ holder \in Call \cup {NoCall}
  /\ at \in [Call -> Label]
  /\ local \in [Call -> Local]

UpdateTypes ==
  /\ phase \in [Task -> {"none", "guarded", "indexing", "current", "missing"}]
  /\ guard \in [Task -> Source \cup {NoJob}]

\* Whoever is past the queue, and nobody else, owns the context lock.
HolderWorks == \A c \in Call : at[c] \in Busy <=> holder = c

\* Types; who owns the context lock is at work, and who has something to publish
\* owns the compiler's lock.
TypeOK ==
  /\ IndexTypes /\ ContextTypes /\ CallTypes /\ UpdateTypes /\ Warmup!TypeOK
  /\ HolderWorks
  /\ \A t \in Task : job[t] # NoJob => inside = {t}
-----------------------------------------------------------------------------
Deferred == mode # "prebuilt"

\* _has_complete_graph
HasGraph == "graph" \in ctx.fresh

\* The binding's retained inventory is that of the checkout (_verify_inventory).
Intact == ~ctx.revoked /\ ctx.version = version

Fault == faults < MaxFaults /\ faults' = faults + 1

Accepted == Intact /\ UNCHANGED <<ctx, faults>>

\* verify_snapshot poisons the binding, also for an error that would pass.
Rejected ==
  /\ (~Intact /\ UNCHANGED faults) \/ (Intact /\ Fault)
  /\ ctx' = [ctx EXCEPT !.revoked = TRUE]

Go(c, l) == at' = [at EXCEPT ![c] = l] /\ UNCHANGED <<holder, local>>

\* Whether the call needs a graph that the loaded context has not got.
Route(c) ==
  Go(c, IF Deferred /\ local[c].kind \in {"explore", "graph"} /\ ~HasGraph
        THEN "prepare" ELSE "verify")

\* Once the manifest is followed.  A second attempt follows it again.
Continue(c) ==
  \/ local[c].next = "route" /\ Route(c)
  \/ local[c].next \in {"check", "report"} /\ Go(c, local[c].next)
  \/ /\ local[c].next = "retry"
     /\ at' = [at EXCEPT ![c] = "refresh"]
     /\ local' = [local EXCEPT ![c].next = "route", ![c].again = TRUE]
     /\ UNCHANGED holder

\* The call's thread leaves the context lock, with an error or with its result.
Leave(c) ==
  /\ at' = [at EXCEPT ![c] = "idle"]
  /\ holder' = NoCall
  /\ local' = [local EXCEPT ![c] = NoLocal]

Fail(c) == Leave(c)

Succeed(c) ==
  /\ at' = [at EXCEPT ![c] = "answered"]
  /\ holder' = NoCall
  /\ UNCHANGED local

\* StaleSourceError: in deferred mode the first attempt is repaired.
Stale(c) ==
  IF Deferred /\ ~local[c].again /\ local[c].kind # "status"
  THEN Go(c, "repair") ELSE Fail(c)

\* The call needs the graph and waits for it without a limit.
Insists(c) == local[c].kind = "graph" \/ mode = "blocking"

GraphTarget == ctx.source.text

\* The bound on builds is reached.
Spent == \A w \in Worker : stage[w] # "new"
-----------------------------------------------------------------------------
Arrive(c, k) ==
  /\ at[c] = "idle" /\ life = "open"
  /\ k # "status"
  /\ at' = [at EXCEPT ![c] = "queued"]
  /\ local' = [local EXCEPT ![c] = [NoLocal EXCEPT !.kind = k]]
  /\ UNCHANGED <<index, version, mode, ctx, news, holder, updates, warmup, life, faults>>

\* _manifest_response does not wait for the lock; without it, it only verifies.
AskStatus(c) ==
  /\ at[c] = "idle" /\ life = "open" /\ "status" \in Kind
  /\ \/ /\ holder = NoCall
        /\ holder' = c
        /\ at' = [at EXCEPT ![c] = "refresh"]
        /\ local' = [local EXCEPT ![c] = [NoLocal EXCEPT !.kind = "status",
                                                         !.next = "report"]]
        /\ UNCHANGED <<ctx, faults>>
     \/ /\ holder # NoCall
        /\ Accepted \/ Rejected
        /\ UNCHANGED <<holder, at, local>>
  /\ UNCHANGED <<index, version, mode, news, updates, warmup, life>>

Report(c) ==
  /\ at[c] = "report"
  /\ Accepted \/ Rejected
  /\ Leave(c)
  /\ UNCHANGED <<index, version, mode, news, updates, warmup, life>>

Return(c) ==
  /\ at[c] = "answered"
  /\ at' = [at EXCEPT ![c] = "idle"]
  /\ local' = [local EXCEPT ![c] = NoLocal]
  /\ UNCHANGED <<index, version, mode, ctx, news, holder, updates, warmup, life, faults>>

Acquire(c) ==
  /\ at[c] = "queued" /\ holder = NoCall
  /\ holder' = c
  /\ at' = [at EXCEPT ![c] = "refresh"]
  /\ local' = [local EXCEPT ![c].next = "route"]
  /\ UNCHANGED <<index, version, mode, ctx, news, updates, warmup, life, faults>>
-----------------------------------------------------------------------------
\* _refresh_local_context: a running build, or an unchanged manifest, leaves
\* the loaded context; otherwise it is reloaded.
Refresh(c) ==
  /\ at[c] = "refresh"
  /\ IF state = "running" \/ ~news THEN Continue(c) ELSE Go(c, "reload")
  /\ UNCHANGED <<index, version, mode, ctx, news, updates, warmup, life, faults>>

\* A reload does not wait for the compiler's lock.
Reload(c) ==
  /\ at[c] = "reload"
  /\ \/ Index!Begin(c, {}) /\ Go(c, "load")
     \/ inside # {} /\ Fail(c) /\ UNCHANGED index
  /\ UNCHANGED <<version, mode, ctx, news, updates, warmup, life, faults>>

\* _init_server(_reload=True): the manifest is read and the source captured
\* under the lock; they must agree.  Otherwise, or if the old context cannot be
\* cleaned up, the old context stays (in the second case without its source).
Load(c) ==
  /\ at[c] = "load"
  /\ Index!Quit(c)
  /\ \/ /\ source.text = published.source.text
        /\ ctx' = [source |-> published.source, fresh |-> published.fresh,
                   version |-> version, revoked |-> FALSE]
        /\ news' = FALSE
        /\ Go(c, "warm")
        /\ UNCHANGED faults
     \/ /\ \/ source.text # published.source.text /\ UNCHANGED faults
           \/ Fault
        /\ IF local[c].next = "retry" \/ (local[c].next = "check" /\ Insists(c))
           THEN Fail(c) ELSE Stale(c)
        /\ UNCHANGED <<ctx, news>>
     \/ /\ source.text = published.source.text
        /\ Fault
        /\ ctx' = [ctx EXCEPT !.revoked = TRUE]
        /\ Fail(c)
        /\ UNCHANGED news
  /\ UNCHANGED <<version, mode, updates, warmup, life>>

\* _warm_loaded_graph, after a reload; starting on a closed warmup raises.
Warm(c) ==
  /\ at[c] = "warm"
  /\ \/ /\ mode # "deferred" \/ HasGraph
        /\ Continue(c)
        /\ UNCHANGED <<ctx, warmup, faults>>
     \/ /\ mode = "deferred" /\ ~HasGraph
        /\ Rejected
        /\ Continue(c)
        /\ UNCHANGED warmup
     \/ /\ mode = "deferred" /\ ~HasGraph
        /\ Accepted
        /\ IF closed THEN Fail(c) ELSE Continue(c)
        /\ \/ \E w \in Worker : Warmup!Start(c, w, GraphTarget, FALSE)
           \/ (~Warmup!MayBegin(GraphTarget, FALSE) \/ Spent) /\ UNCHANGED warmup
  /\ UNCHANGED <<index, version, mode, news, updates, life>>
-----------------------------------------------------------------------------
\* _start_graph_warmup: only for verified source; explicit tools force it.
Prepare(c) ==
  /\ at[c] = "prepare"
  /\ \/ Rejected /\ Stale(c) /\ UNCHANGED warmup
     \/ /\ Accepted
        /\ \/ /\ \E w \in Worker : Warmup!Start(c, w, GraphTarget, Insists(c))
              /\ Go(c, "await")
           \/ /\ ~closed /\ ~Warmup!MayBegin(GraphTarget, Insists(c))
              /\ Go(c, "await") /\ UNCHANGED warmup
           \/ /\ closed \/ (Warmup!MayBegin(GraphTarget, Insists(c)) /\ Spent)
              /\ Fail(c) /\ UNCHANGED warmup
  /\ UNCHANGED <<index, version, mode, news, updates, life>>

\* wait(None), wait(_EXPLORE_GRAPH_WAIT_SECONDS) or, before a repair,
\* wait(_REFRESH_WAIT_FOR_GRAPH_SECONDS), all with the context lock held.
Sleep(c) ==
  /\ at[c] \in {"await", "repair"}
  /\ Warmup!Wait(c)
  /\ call'[c] = IF at[c] = "await" /\ Insists(c) THEN "waiting" ELSE "polling"
  /\ UNCHANGED <<index, version, mode, ctx, news, holder, at, local, updates, life,
                 faults>>

Wake(c) ==
  /\ Warmup!Wake(c)
  /\ UNCHANGED <<index, version, mode, ctx, news, holder, at, local, updates, life,
                 faults>>

\* The limit is reached: explore answers without the graph, a repair gives up.
GiveUp(c) ==
  /\ at[c] \in {"await", "repair"}
  /\ state = "running" /\ Warmup!TimeOut(c)
  /\ IF at[c] = "await" THEN Go(c, "verify") ELSE Fail(c)
  /\ UNCHANGED <<index, version, mode, ctx, news, updates, life, faults>>

\* Broken on purpose: only a build that succeeds ends the wait.
AwaitedWhenReady(c) ==
  /\ at[c] = "await" /\ call[c] = "free" /\ state = "ready"
  /\ at' = [at EXCEPT ![c] = "refresh"]
  /\ local' = [local EXCEPT ![c].next = "check"]
  /\ UNCHANGED <<index, version, mode, ctx, news, holder, updates, warmup, life, faults>>

\* A build is over: its graph is followed to the manifest that publishes it.
Awaited(c) ==
  /\ at[c] = "await" /\ call[c] = "free" /\ state # "running"
  /\ \/ /\ state = "ready"
        /\ at' = [at EXCEPT ![c] = "refresh"]
        /\ local' = [local EXCEPT ![c].next = "check"]
        /\ UNCHANGED holder
     \/ state # "ready" /\ Insists(c) /\ Fail(c)
     \/ state # "ready" /\ ~Insists(c) /\ Go(c, "verify")
  /\ UNCHANGED <<index, version, mode, ctx, news, updates, warmup, life, faults>>

Check(c) ==
  /\ at[c] = "check"
  /\ \/ Rejected /\ IF Insists(c) THEN Fail(c) ELSE Stale(c)
     \/ /\ Accepted
        /\ IF Insists(c) /\ ~HasGraph THEN Fail(c) ELSE Go(c, "verify")
  /\ UNCHANGED <<index, version, mode, news, updates, warmup, life>>
-----------------------------------------------------------------------------
\* indexed_query: the source is verified, the tool runs, it is verified again.
Verify(c) ==
  /\ at[c] = "verify"
  /\ \/ Rejected /\ Stale(c)
     \/ /\ Accepted
        /\ at' = [at EXCEPT ![c] = "query"]
        /\ local' = [local EXCEPT ![c].since = version]
        /\ UNCHANGED holder
  /\ UNCHANGED <<index, version, mode, news, updates, warmup, life>>

\* The tool raises if the view it is about is not loaded.
Serves(k) ==
  /\ k = "search" => "bm25" \in ctx.fresh
  /\ k = "graph" => HasGraph

\* Broken on purpose: the result is delivered without a second look.
DeliverAtOnce(c) ==
  /\ at[c] = "query"
  /\ IF Serves(local[c].kind) THEN Succeed(c) ELSE Fail(c)
  /\ UNCHANGED <<index, version, mode, ctx, news, updates, warmup, life, faults>>

Deliver(c) ==
  /\ at[c] = "query"
  /\ \/ Rejected /\ Stale(c)
     \/ Accepted /\ IF Serves(local[c].kind) THEN Succeed(c) ELSE Fail(c)
  /\ UNCHANGED <<index, version, mode, news, updates, warmup, life>>
-----------------------------------------------------------------------------
\* checkout_guard remembers contents and commit; its check compares them.
GuardCheckout(t) ==
  /\ phase' = [phase EXCEPT ![t] = "guarded"]
  /\ guard' = [guard EXCEPT ![t] = source]

CheckoutHeld(t) == guard[t] = source

\* What the caller finds in the manifest that update_repo returns.
Returns(t, manifest, views, texts) ==
  /\ phase' = [phase EXCEPT ![t] =
                 IF manifest.source.text \in texts /\ views \subseteq manifest.fresh
                 THEN "current" ELSE "missing"]
  /\ UNCHANGED guard

\* update_repo, once it has the compiler's lock: nothing to do, ...
FindsUpToDate(t, views, texts) ==
  /\ phase[t] = "guarded" /\ inside = {}
  /\ Index!UpToDate(views)
  /\ Returns(t, published, views, texts)
  /\ UNCHANGED <<index, news, faults>>

\* ... or, from the views that are fresh here already and those asked for, ...
Begins(t, views) ==
  /\ phase[t] = "guarded"
  /\ ~Index!UpToDate(views) /\ Index!Begin(t, Index!Kept \cup views)
  /\ phase' = [phase EXCEPT ![t] = "indexing"]
  /\ UNCHANGED <<guard, news, faults>>

\* ... of which some fail, ...
Drops(t, views) ==
  /\ phase[t] = "indexing"
  /\ Index!Drop(t, views) /\ Fault
  /\ UNCHANGED <<updates, news>>

Looks(t) ==
  /\ phase[t] = "indexing"
  /\ Index!Look(t, source = job[t].source)
  /\ UNCHANGED <<updates, news, faults>>

\* ... a new manifest, ...
Saves(t, views, texts) ==
  /\ phase[t] = "indexing"
  /\ Index!Save(t)
  /\ news' = TRUE
  /\ Returns(t, published', views, texts)
  /\ UNCHANGED faults

\* ... or an exception, and the manifest stays.
Raises(t) ==
  /\ phase[t] = "indexing"
  /\ Index!Quit(t) /\ Fault
  /\ phase' = [phase EXCEPT ![t] = "missing"]
  /\ UNCHANGED <<guard, news>>

Forget(t) ==
  /\ phase' = [phase EXCEPT ![t] = "none"]
  /\ guard' = [guard EXCEPT ![t] = NoJob]

\* _refresh_edited_source, once no build runs: refresh_retrieval, then a reload
\* even if the manifest is unchanged, because the binding was poisoned.
Repair(c) ==
  /\ at[c] = "repair" /\ call[c] = "free" /\ state # "running"
  /\ GuardCheckout(c)
  /\ Go(c, "reindex")
  /\ UNCHANGED <<index, version, mode, ctx, news, warmup, life, faults>>

Reindex(c) ==
  /\ at[c] = "reindex"
  /\ \/ FindsUpToDate(c, {"bm25"}, Text)
     \/ Begins(c, {"bm25"}) \/ Drops(c, {"bm25"}) \/ Looks(c)
     \/ Saves(c, {"bm25"}, Text) \/ Raises(c)
  /\ UNCHANGED <<version, mode, ctx, holder, at, local, warmup, life>>

\* Broken on purpose: an unchanged manifest is not loaded again.
ReindexedAndRefreshed(c) ==
  /\ at[c] = "reindex" /\ phase[c] \in {"current", "missing"}
  /\ IF CheckoutHeld(c) /\ phase[c] = "current"
     THEN /\ at' = [at EXCEPT ![c] = "refresh"]
          /\ local' = [local EXCEPT ![c].next = "route", ![c].again = TRUE]
          /\ UNCHANGED holder
     ELSE Fail(c)
  /\ Forget(c)
  /\ UNCHANGED <<index, version, mode, ctx, news, warmup, life, faults>>

Reindexed(c) ==
  /\ at[c] = "reindex" /\ phase[c] \in {"current", "missing"}
  /\ IF CheckoutHeld(c) /\ phase[c] = "current"
     THEN /\ at' = [at EXCEPT ![c] = "reload"]
          /\ local' = [local EXCEPT ![c].next = "retry"]
          /\ UNCHANGED holder
     ELSE Fail(c)
  /\ Forget(c)
  /\ UNCHANGED <<index, version, mode, ctx, news, warmup, life, faults>>
-----------------------------------------------------------------------------
\* The warmup's thread: prepare_graph under compilation_cancellation.
Enter(w) ==
  /\ Warmup!Enter(w)
  /\ UNCHANGED <<index, version, mode, ctx, news, holder, at, local, updates, life,
                 faults>>

\* Only the source that was asked for is prepared; or providers are missing.
Guard(w) ==
  /\ stage[w] = "preparing" /\ phase[w] = "none"
  /\ \/ source.text = target /\ GuardCheckout(w) /\ UNCHANGED <<warmup, faults>>
     \/ /\ (source.text # target /\ UNCHANGED faults) \/ Fault
        /\ Warmup!PrepareEnds(w) /\ stage'[w] = "failed"
        /\ UNCHANGED updates
  /\ UNCHANGED <<index, version, mode, ctx, news, holder, at, local, life>>

\* A provider that was configured inside the checkout leaves its times changed.
Touched(w) ==
  version' = IF mode = "blocking" /\ job[w] # NoJob /\ ~job[w].looked
             THEN version + 1 ELSE version

PrepareGraph(w) ==
  /\ stage[w] = "preparing"
  /\ \/ /\ \/ FindsUpToDate(w, {"graph"}, {target})
           \/ Begins(w, {"graph"}) \/ Drops(w, {"graph"})
           \/ Saves(w, {"graph"}, {target})
        /\ UNCHANGED version
     \/ (Looks(w) \/ Raises(w)) /\ Touched(w)
  /\ UNCHANGED <<mode, ctx, holder, at, local, warmup, life>>

Prepared(w) ==
  /\ phase[w] \in {"current", "missing"}
  /\ Warmup!PrepareEnds(w)
  /\ stage'[w] = "failed" <=> ~(CheckoutHeld(w) /\ phase[w] = "current")
  /\ Forget(w)
  /\ UNCHANGED <<index, version, mode, ctx, news, holder, at, local, life, faults>>

\* Also while it waits for the compiler's lock, or holds it.
Cancelled(w) ==
  /\ Warmup!PrepareIsCancelled(w)
  /\ IF w \in inside THEN Index!Quit(w) ELSE UNCHANGED index
  /\ Touched(w)
  /\ Forget(w)
  /\ UNCHANGED <<mode, ctx, news, holder, at, local, life, faults>>

Reported(w) ==
  /\ Warmup!Report(w)
  /\ UNCHANGED <<index, version, mode, ctx, news, holder, at, local, updates, life,
                 faults>>
-----------------------------------------------------------------------------
\* init_server, up to its _warm_loaded_graph.
Open ==
  /\ life = "loading"
  /\ life' = "open"
  /\ \/ mode # "deferred" /\ UNCHANGED <<ctx, faults, warmup>>
     \/ mode = "deferred" /\ Rejected /\ UNCHANGED warmup
     \/ /\ mode = "deferred" /\ Accepted
        /\ \E w \in Worker : Warmup!Start(Life, w, GraphTarget, FALSE)
  /\ UNCHANGED <<index, version, mode, news, holder, at, local, updates>>

\* Broken on purpose: the calls are drained before the build is cancelled.
EndByDraining ==
  /\ life = "open"
  /\ life' = "draining"
  /\ UNCHANGED <<index, version, mode, ctx, news, holder, at, local, updates, warmup,
                 faults>>

\* The end of the lifespan cancels the build without the context lock, joins it,
\* and takes the lock to close what the calls used.
End ==
  /\ life = "open"
  /\ life' = "ending"
  /\ Warmup!Close(Life)
  /\ UNCHANGED <<index, version, mode, ctx, news, holder, at, local, updates, faults>>

Joined ==
  /\ life = "ending"
  /\ life' = "draining"
  /\ Warmup!Join(Life)
  /\ UNCHANGED <<index, version, mode, ctx, news, holder, at, local, updates, faults>>

Drain ==
  /\ life = "draining" /\ holder = NoCall
  /\ life' = "ended"
  /\ UNCHANGED <<index, version, mode, ctx, news, holder, at, local, updates, warmup,
                 faults>>
-----------------------------------------------------------------------------
environment == <<mode, ctx, holder, at, local, updates, warmup, life>>

\* The file system: an edit may restore an earlier text, but not its times.
Edit ==
  /\ version < MaxEdits
  /\ version' = version + 1
  /\ \E t \in Text : Index!Change([source EXCEPT !.text = t])
  /\ UNCHANGED <<environment, news, faults>>

Commit ==
  /\ source.commit < MaxCommits
  /\ Index!Change([source EXCEPT !.commit = @ + 1])
  /\ UNCHANGED <<environment, version, news, faults>>

Wanted == IF mode = "prebuilt" THEN View ELSE {"bm25"}

OtherBegins ==
  /\ ~Index!UpToDate(Wanted) /\ Index!Begin(Other, Index!Kept \cup Wanted)
  /\ UNCHANGED <<environment, version, news, faults>>

OtherLooks ==
  /\ \/ Index!Look(Other, source = job[Other].source) /\ UNCHANGED faults
     \/ Index!Drop(Other, Wanted) /\ Fault
  /\ UNCHANGED <<environment, version, news>>

OtherEnds ==
  /\ \/ Index!Save(Other) /\ news' = TRUE /\ UNCHANGED faults
     \/ Index!Quit(Other) /\ Fault /\ UNCHANGED news
  /\ UNCHANGED <<environment, version>>

\* init_server has loaded an index of the present source.
Init ==
  /\ source \in [text : Text, commit : {0}] /\ version = 0
  /\ mode \in Mode
  /\ published = [source |-> source, fresh |-> Wanted]
  /\ ctx = [source |-> source, fresh |-> Wanted, version |-> 0, revoked |-> FALSE]
  /\ news = FALSE
  /\ inside = {} /\ job = [t \in Task |-> NoJob]
  /\ holder = NoCall
  /\ at = [c \in Call |-> "idle"] /\ local = [c \in Call |-> NoLocal]
  /\ phase = [t \in Task |-> "none"]
  /\ guard = [t \in Task |-> NoJob]
  /\ Warmup!Init
  /\ life = "loading" /\ faults = 0

CallStep(c) ==
  \/ Report(c) \/ Return(c) \/ Refresh(c) \/ Reload(c) \/ Load(c) \/ Warm(c)
  \/ Prepare(c) \/ Sleep(c) \/ Wake(c) \/ GiveUp(c) \/ Awaited(c)
  \/ Check(c) \/ Verify(c) \/ Deliver(c) \/ Repair(c) \/ Reindex(c) \/ Reindexed(c)

BuildStep(w) ==
  Enter(w) \/ Guard(w) \/ PrepareGraph(w) \/ Prepared(w) \/ Cancelled(w) \/ Reported(w)

Next ==
  \/ \E c \in Call :
       \/ \E k \in Kind : Arrive(c, k)
       \/ AskStatus(c) \/ Acquire(c) \/ CallStep(c)
  \/ \E w \in Worker : BuildStep(w)
  \/ Open \/ End \/ Joined \/ Drain
  \/ Edit \/ Commit \/ OtherBegins \/ OtherLooks \/ OtherEnds

Spec == Init /\ [][Next]_vars

\* Threads run and locks are handed on; an update that another process or a
\* call has begun ends.  A build is free to go on for ever until it is cancelled.
FairSpec ==
  /\ Spec
  /\ \A c \in Call : WF_vars(CallStep(c)) /\ SF_vars(Acquire(c))
  /\ \A w \in Worker :
       WF_vars(Enter(w)) /\ WF_vars(Cancelled(w)) /\ WF_vars(Reported(w))
  /\ WF_vars(Open) /\ WF_vars(Joined) /\ SF_vars(Drain)
  /\ WF_vars(OtherLooks \/ OtherEnds)
-----------------------------------------------------------------------------
\* What a call delivers comes from an index of exactly the contents that are in
\* the checkout then, and nothing was written since its first verification.
AnswersAreCurrent ==
  [][\A c \in Call : at[c] = "query" /\ at'[c] = "answered" =>
       /\ ctx.source.text = source.text
       /\ local[c].since = version
       /\ UNCHANGED <<ctx, source>>]_vars

Closing == life \in {"ending", "draining", "ended"}

\* Once the end of the connection has joined the warmup's thread, no build runs
\* and none owns the compiler's lock: the cache and the source may be released.
EndLeavesNothingRunning ==
  life \in {"draining", "ended"} => Warmup!Active = {} /\ inside \cap Worker = {}

\* The end of the connection completes although a call may hold the context lock
\* while it waits for a build that never ends by itself (_mcp_lifespan).
ConnectionEnds == Closing ~> life = "ended"

\* Every call that is under way when the connection ends comes back.
CallsEnd == \A c \in Call : Closing /\ at[c] # "idle" ~> at[c] = "idle"

Asked == \E c \in Call : at[c] = "queued" /\ local[c].kind = "search"
Answered == \E c \in Call : at[c] = "answered" /\ local[c].kind = "search"
Indexed == published.source = source /\ "bm25" \in published.fresh

\* Whatever failed or was poisoned before: if clients go on searching, the index
\* on disk is current in the end and no build is endless, they are answered.
AnswersResume(modes) ==
  mode \in modes /\ []<>Asked /\ <>[]Indexed /\ <>[](state # "running") => []<>Answered

\* Calls that may repair (_refresh_edited_source) recover from every poisoned binding.
DeferredAnswersResume == AnswersResume({"deferred", "blocking"})

\* indexed_query's message (mcp/context.py:463): "Run `codenib codegraph init` for
\* this repository and retry; this MCP connection reloads rebuilt indexes."
PrebuiltAnswersResume == AnswersResume({"prebuilt"})

\* docs/codegraph.md:126: "Edits do not stop the server. When source has changed,
\* the next query re-indexes retrieval for the current checkout".
EditsDoNotStop ==
  mode = "deferred" /\ []<>Asked /\ <>[](state # "running") => []<>Answered
=============================================================================

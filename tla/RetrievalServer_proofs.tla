------------------------ MODULE RetrievalServer_proofs ------------------------
(***************************************************************************)
(* Theorems about RetrievalServer for any calls, threads, contents, modes, *)
(* kinds of calls and bounds.                                              *)
(***************************************************************************)
EXTENDS RetrievalServer, TLAPS

JobOwnsLock == \A t \in Task : job[t] # NoJob => inside = {t}

\* A binding that has not been overtaken by a write describes the contents, and
\* the call that is at its query was verified against this very binding.
Binding ==
  /\ ctx.version <= version
  /\ ctx.version = version => ctx.source.text = source.text
  /\ \A c \in Call : at[c] = "query" => local[c].since = ctx.version

IndexInv == IndexTypes /\ JobOwnsLock
CallInv == CallTypes /\ HolderWorks
-----------------------------------------------------------------------------
(* The context lock: what the helpers do to the calls' bookkeeping.         *)

LEMMA Going ==
  ASSUME CallInv, NEW c \in Call, at[c] \in Busy, NEW l \in Busy, Go(c, l)
  PROVE  CallInv'
BY DEF CallInv, CallTypes, HolderWorks, Go, Label, Busy

LEMMA Steering ==
  ASSUME CallInv, NEW c \in Call, at[c] \in Busy, NEW l \in Busy, NEW r \in Local,
         at' = [at EXCEPT ![c] = l], local' = [local EXCEPT ![c] = r],
         UNCHANGED holder
  PROVE  CallInv'
BY DEF CallInv, CallTypes, HolderWorks, Label, Busy

LEMMA Leaving ==
  ASSUME CallInv, NEW c \in Call, at[c] \in Busy, Leave(c)
  PROVE  CallInv'
<1>1. NoLocal \in Local
  BY DEF NoLocal, Local
<1> QED
  BY <1>1, NameAssumption DEF CallInv, CallTypes, HolderWorks, Leave, Label, Busy

LEMMA Succeeding ==
  ASSUME CallInv, NEW c \in Call, at[c] \in Busy, Succeed(c)
  PROVE  CallInv'
BY NameAssumption DEF CallInv, CallTypes, HolderWorks, Succeed, Label, Busy

LEMMA GoingStale ==
  ASSUME CallInv, NEW c \in Call, at[c] \in Busy, Stale(c)
  PROVE  CallInv'
<1>1. "repair" \in Busy
  BY DEF Busy
<1> QED
  BY <1>1, Going, Leaving DEF Stale, Fail

LEMMA Continuing ==
  ASSUME CallInv, NEW c \in Call, at[c] \in Busy, Continue(c)
  PROVE  CallInv'
<1>1. CASE local[c].next = "route" /\ Route(c)
  BY <1>1, Going DEF Route, Busy
<1>2. CASE local[c].next \in {"check", "report"} /\ Go(c, local[c].next)
  BY <1>2, Going DEF Busy
<1>3. CASE /\ at' = [at EXCEPT ![c] = "refresh"]
           /\ local' = [local EXCEPT ![c].next = "route", ![c].again = TRUE]
           /\ UNCHANGED holder
  <2> DEFINE r == [local[c] EXCEPT !.next = "route", !.again = TRUE]
  <2>1. r \in Local
    BY DEF CallInv, CallTypes, Local
  <2>2. local' = [local EXCEPT ![c] = r]
    BY <1>3 DEF CallInv, CallTypes, Local
  <2> QED
    BY <1>3, <2>1, <2>2, Steering DEF Busy
<1> QED
  BY <1>1, <1>2, <1>3 DEF Continue

\* Steps that leave the calls where they are.
LEMMA Standing ==
  ASSUME CallInv, UNCHANGED <<holder, at, local>> PROVE CallInv'
BY DEF CallInv, CallTypes, HolderWorks

\* A call enters and leaves the queue.
LEMMA CallQueues ==
  ASSUME CallInv, NEW c \in Call,
         (\E k \in Kind : Arrive(c, k)) \/ AskStatus(c) \/ Acquire(c) \/ Return(c)
  PROVE  CallInv'
<1>1. /\ NoLocal \in Local
      /\ \A k \in Kind : [NoLocal EXCEPT !.kind = k] \in Local
      /\ "status" \in Kind =>
           [NoLocal EXCEPT !.kind = "status", !.next = "report"] \in Local
  BY DEF NoLocal, Local
<1>2. ASSUME NEW k \in Kind, Arrive(c, k) PROVE CallInv'
  BY <1>1, <1>2 DEF Arrive, CallInv, CallTypes, HolderWorks, Label, Busy
<1>3. CASE AskStatus(c)
  <2>1. CASE holder # NoCall
    BY <1>3, <2>1, Standing DEF AskStatus
  <2>2. CASE holder = NoCall
    <3>1. /\ at[c] = "idle" /\ "status" \in Kind /\ holder' = c
          /\ at' = [at EXCEPT ![c] = "refresh"]
          /\ local' = [local EXCEPT ![c] = [NoLocal EXCEPT !.kind = "status",
                                                           !.next = "report"]]
      BY <1>3, <2>2 DEF AskStatus
    <3> QED
      BY <1>1, <2>2, <3>1, NameAssumption DEF CallInv, CallTypes, HolderWorks, Label, Busy
  <2> QED
    BY <2>1, <2>2
<1>4. CASE Acquire(c)
  <2> DEFINE r == [local[c] EXCEPT !.next = "route"]
  <2>1. r \in Local
    BY DEF CallInv, CallTypes, Local
  <2>2. local' = [local EXCEPT ![c] = r]
    BY <1>4 DEF Acquire, CallInv, CallTypes, Local
  <2>3. at[c] = "queued" /\ holder = NoCall /\ holder' = c /\ at' = [at EXCEPT ![c] = "refresh"]
    BY <1>4 DEF Acquire
  <2> HIDE DEF r
  <2> QED
    BY <2>1, <2>2, <2>3, NameAssumption DEF CallInv, CallTypes, HolderWorks, Label, Busy
<1>5. CASE Return(c)
  BY <1>1, <1>5 DEF Return, CallInv, CallTypes, HolderWorks, Label, Busy
<1> QED
  BY <1>2, <1>3, <1>4, <1>5

\* A call that follows the manifest.
LEMMA CallFollows ==
  ASSUME CallInv, NEW c \in Call, Refresh(c) \/ Reload(c) \/ Load(c) \/ Warm(c)
  PROVE  CallInv'
<1>1. at[c] \in Busy
  BY DEF Refresh, Reload, Load, Warm, Busy
<1>2. {"reload", "load", "warm"} \subseteq Busy
  BY DEF Busy
<1>3. CASE Refresh(c)
  BY <1>1, <1>2, <1>3, Going, Continuing DEF Refresh
<1>4. CASE Reload(c)
  BY <1>1, <1>2, <1>4, Going, Leaving DEF Reload, Fail
<1>5. CASE Load(c)
  BY <1>1, <1>2, <1>5, Going, Leaving, GoingStale DEF Load, Fail
<1>6. CASE Warm(c)
  BY <1>1, <1>6, Continuing, Leaving DEF Warm, Fail
<1> QED
  BY <1>3, <1>4, <1>5, <1>6

\* A call that needs the graph.
LEMMA CallAwaits ==
  ASSUME CallInv, NEW c \in Call,
         Prepare(c) \/ Sleep(c) \/ Wake(c) \/ GiveUp(c) \/ Awaited(c) \/ Check(c)
  PROVE  CallInv'
<1>1. {"await", "verify"} \subseteq Busy
  BY DEF Busy
<1>2. CASE Prepare(c)
  <2>1. at[c] \in Busy
    BY <1>2 DEF Prepare, Busy
  <2> QED
    BY <1>1, <1>2, <2>1, Going, Leaving, GoingStale DEF Prepare, Fail
<1>3. CASE Sleep(c) \/ Wake(c)
  BY <1>3, Standing DEF Sleep, Wake
<1>4. CASE GiveUp(c)
  <2>1. at[c] \in Busy
    BY <1>4 DEF GiveUp, Busy
  <2> QED
    BY <1>1, <1>4, <2>1, Going, Leaving DEF GiveUp, Fail
<1>5. CASE Awaited(c)
  <2>1. at[c] \in Busy
    BY <1>5 DEF Awaited, Busy
  <2>2. CASE /\ at' = [at EXCEPT ![c] = "refresh"]
             /\ local' = [local EXCEPT ![c].next = "check"]
             /\ UNCHANGED holder
    <3> DEFINE r == [local[c] EXCEPT !.next = "check"]
    <3>1. r \in Local
      BY DEF CallInv, CallTypes, Local
    <3>2. local' = [local EXCEPT ![c] = r]
      BY <2>2 DEF CallInv, CallTypes, Local
    <3> QED
      BY <2>1, <2>2, <3>1, <3>2, Steering DEF Busy
  <2>3. CASE Fail(c) \/ Go(c, "verify")
    BY <1>1, <2>1, <2>3, Going, Leaving DEF Fail
  <2> QED
    BY <1>5, <2>2, <2>3 DEF Awaited
<1>6. CASE Check(c)
  <2>1. at[c] \in Busy
    BY <1>6 DEF Check, Busy
  <2> QED
    BY <1>1, <1>6, <2>1, Going, Leaving, GoingStale DEF Check, Fail
<1> QED
  BY <1>2, <1>3, <1>4, <1>5, <1>6

\* A call that runs its tool, or indexes the edited source again.
LEMMA CallQueries ==
  ASSUME CallInv, ContextTypes, NEW c \in Call,
         \/ Report(c) \/ Verify(c) \/ Deliver(c)
         \/ Repair(c) \/ Reindex(c) \/ Reindexed(c)
  PROVE  CallInv'
<1>1. CASE Report(c)
  <2>1. at[c] \in Busy
    BY <1>1 DEF Report, Busy
  <2> QED
    BY <1>1, <2>1, Leaving DEF Report
<1>2. CASE Verify(c)
  <2>1. at[c] \in Busy
    BY <1>2 DEF Verify, Busy
  <2>2. CASE Stale(c)
    BY <2>1, <2>2, GoingStale
  <2>3. CASE /\ at' = [at EXCEPT ![c] = "query"]
             /\ local' = [local EXCEPT ![c].since = version]
             /\ UNCHANGED holder
    <3> DEFINE r == [local[c] EXCEPT !.since = version]
    <3>1. r \in Local
      BY DEF CallInv, CallTypes, ContextTypes, Local
    <3>2. local' = [local EXCEPT ![c] = r]
      BY <2>3 DEF CallInv, CallTypes, Local
    <3> QED
      BY <2>1, <2>3, <3>1, <3>2, Steering DEF Busy
  <2> QED
    BY <1>2, <2>2, <2>3 DEF Verify
<1>3. CASE Deliver(c)
  <2>1. at[c] \in Busy
    BY <1>3 DEF Deliver, Busy
  <2> QED
    BY <1>3, <2>1, GoingStale, Leaving, Succeeding DEF Deliver, Fail
<1>4. CASE Repair(c)
  <2>1. at[c] \in Busy /\ "reindex" \in Busy
    BY <1>4 DEF Repair, Busy
  <2> QED
    BY <1>4, <2>1, Going DEF Repair
<1>5. CASE Reindex(c)
  BY <1>5, Standing DEF Reindex
<1>6. CASE Reindexed(c)
  <2>1. at[c] \in Busy
    BY <1>6 DEF Reindexed, Busy
  <2>2. CASE Fail(c)
    BY <2>1, <2>2, Leaving DEF Fail
  <2>3. CASE /\ at' = [at EXCEPT ![c] = "reload"]
             /\ local' = [local EXCEPT ![c].next = "retry"]
             /\ UNCHANGED holder
    <3> DEFINE r == [local[c] EXCEPT !.next = "retry"]
    <3>1. r \in Local
      BY DEF CallInv, CallTypes, Local
    <3>2. local' = [local EXCEPT ![c] = r]
      BY <2>3 DEF CallInv, CallTypes, Local
    <3> QED
      BY <2>1, <2>3, <3>1, <3>2, Steering DEF Busy
  <2> QED
    BY <1>6, <2>2, <2>3 DEF Reindexed
<1> QED
  BY <1>1, <1>2, <1>3, <1>4, <1>5, <1>6
-----------------------------------------------------------------------------
(* The compiler's cache directory and the updates of it.                    *)

\* A step of AbstractIndex, but for its source.
Indexes(t, views) ==
  \/ Index!Begin(t, views) \/ Index!Drop(t, views)
  \/ \E same \in BOOLEAN : Index!Look(t, same)
  \/ Index!Save(t) \/ Index!Quit(t) \/ UNCHANGED index

LEMMA Indexing ==
  ASSUME IndexInv, NEW t \in Task, NEW views \in SUBSET View, Indexes(t, views)
  PROVE  IndexInv' /\ UNCHANGED source
<1> USE DEF IndexInv, IndexTypes, JobOwnsLock
<1>1. CASE UNCHANGED index
  BY <1>1 DEF index, Index!Manifest
<1>2. CASE Index!Begin(t, views)
  BY <1>2 DEF Index!Begin, Index!Lock!Enter, Index!Manifest
<1>3. CASE Index!Drop(t, views)
  <2> DEFINE j == [source |-> job[t].source, fresh |-> job[t].fresh \ views,
                   looked |-> FALSE]
  <2>1. /\ job[t] # NoJob /\ UNCHANGED <<source, published, inside>>
        /\ job' = [job EXCEPT ![t] = j]
    BY <1>3 DEF Index!Drop
  <2>2. j \in [source : Source, fresh : SUBSET View, looked : BOOLEAN]
    BY <2>1
  <2> HIDE DEF j
  <2> QED
    BY <2>1, <2>2 DEF Index!Manifest
<1>4. ASSUME NEW same \in BOOLEAN, Index!Look(t, same)
      PROVE  IndexInv' /\ UNCHANGED source
  <2> DEFINE j == [source |-> job[t].source, fresh |-> IF same THEN job[t].fresh ELSE {},
                   looked |-> TRUE]
  <2>1. /\ job[t] # NoJob /\ UNCHANGED <<source, published, inside>>
        /\ job' = [job EXCEPT ![t] = j]
    BY <1>4 DEF Index!Look
  <2>2. j \in [source : Source, fresh : SUBSET View, looked : BOOLEAN]
    BY <2>1
  <2> HIDE DEF j
  <2> QED
    BY <2>1, <2>2 DEF Index!Manifest
<1>5. CASE Index!Save(t)
  <2>1. job[t] \in [source : Source, fresh : SUBSET View, looked : BOOLEAN]
    BY <1>5 DEF Index!Save
  <2>2. published' \in Index!Manifest
    BY <1>5, <2>1 DEF Index!Save, Index!Manifest
  <2> QED
    BY <1>5, <2>2 DEF Index!Save, Index!Lock!Leave
<1>6. CASE Index!Quit(t)
  BY <1>6 DEF Index!Quit, Index!Lock!Leave, Index!Manifest
<1> QED
  BY <1>1, <1>2, <1>3, <1>4, <1>5, <1>6 DEF Indexes

LEMMA IndexStands == ASSUME IndexInv, UNCHANGED index PROVE IndexInv'
BY DEF IndexInv, IndexTypes, JobOwnsLock, index, Index!Manifest

LEMMA Updating ==
  ASSUME UpdateTypes, IndexInv, NEW t \in Task, NEW views, NEW texts,
         \/ GuardCheckout(t) \/ Forget(t) \/ FindsUpToDate(t, views, texts)
         \/ Begins(t, views) \/ Drops(t, views) \/ Looks(t) \/ Saves(t, views, texts)
         \/ Raises(t) \/ UNCHANGED updates
  PROVE  UpdateTypes'
BY DEF UpdateTypes, IndexInv, IndexTypes, GuardCheckout, Forget, FindsUpToDate, Begins,
       Drops, Looks, Saves, Raises, Returns, updates

\* update_repo as the server calls it.
Builds(t, views, texts) ==
  \/ FindsUpToDate(t, views, texts) \/ Begins(t, views) \/ Drops(t, views) \/ Looks(t)
  \/ Saves(t, views, texts) \/ Raises(t)

LEMMA Building ==
  ASSUME IndexInv, UpdateTypes, ContextTypes, NEW t \in Task,
         NEW views \in SUBSET View, NEW texts, Builds(t, views, texts)
  PROVE  /\ IndexInv' /\ UpdateTypes' /\ UNCHANGED source
         /\ news' \in BOOLEAN /\ faults' \in 0 .. MaxFaults
<1>1. UpdateTypes'
  BY Updating DEF Builds
<1>2. \E some \in SUBSET View : Indexes(t, some)
  <2>1. Index!Kept \cup views \in SUBSET View
    BY DEF Index!Kept, Index!Manifest, IndexInv, IndexTypes
  <2>2. (source = job[t].source) \in BOOLEAN
    OBVIOUS
  <2>3. CASE Begins(t, views)
    BY <2>1, <2>3 DEF Begins, Indexes
  <2>4. CASE Looks(t)
    BY <2>2, <2>4 DEF Looks, Indexes
  <2> QED
    BY <2>3, <2>4 DEF Builds, FindsUpToDate, Drops, Saves, Raises, Indexes
<1>3. news' \in BOOLEAN /\ (UNCHANGED faults \/ Fault)
  BY DEF Builds, FindsUpToDate, Begins, Drops, Looks, Saves, Raises, ContextTypes
<1>4. faults' \in 0 .. MaxFaults
  BY <1>3, BoundAssumption DEF Fault, ContextTypes
<1> QED
  BY <1>1, <1>2, <1>3, <1>4, Indexing

LEMMA Views == {"bm25"} \in SUBSET View /\ {"graph"} \in SUBSET View
               /\ {} \in SUBSET View /\ Wanted \in SUBSET View
BY DEF View, Wanted
-----------------------------------------------------------------------------
(* The loaded context.                                                      *)

LEMMA Verifying ==
  ASSUME ContextTypes, Binding, Accepted \/ Rejected,
         UNCHANGED <<source, version, mode, news, life>>
  PROVE  /\ ContextTypes'
         /\ ctx'.version <= version' 
         /\ ctx'.version = version' => ctx'.source.text = source'.text
         /\ ctx'.version = ctx.version
<1>1. /\ ctx' \in [source : Source, fresh : SUBSET View, version : Nat, revoked : BOOLEAN]
      /\ ctx'.source = ctx.source /\ ctx'.version = ctx.version
  BY DEF Accepted, Rejected, ContextTypes
<1>2. faults' \in 0 .. MaxFaults
  BY BoundAssumption DEF Accepted, Rejected, Fault, ContextTypes
<1> QED
  BY <1>1, <1>2 DEF ContextTypes, Binding

\* No call arrives at its query.
NoneVerified ==
  \A c \in Call : at'[c] = "query" => at[c] = "query" /\ local'[c].since = local[c].since

LEMMA Elsewhere ==
  ASSUME CallInv, NEW c \in Call,
         \/ \E k \in Kind : Arrive(c, k)
         \/ AskStatus(c) \/ Acquire(c) \/ Report(c) \/ Return(c) \/ Refresh(c)
         \/ Reload(c) \/ Load(c) \/ Warm(c) \/ Prepare(c) \/ Sleep(c) \/ Wake(c)
         \/ GiveUp(c) \/ Awaited(c) \/ Check(c) \/ Deliver(c) \/ Repair(c)
         \/ Reindex(c) \/ Reindexed(c)
  PROVE  NoneVerified
<1> USE DEF NoneVerified, CallInv, CallTypes
<1>1. CASE \E k \in Kind : Arrive(c, k)
  BY <1>1 DEF Arrive
<1>2. CASE AskStatus(c) \/ Acquire(c) \/ Return(c)
  BY <1>2 DEF AskStatus, Acquire, Return
<1>3. ASSUME NEW l, l # "query", Go(c, l) PROVE NoneVerified
  BY <1>3 DEF Go
<1>4. ASSUME Leave(c) \/ Succeed(c) \/ Fail(c) PROVE NoneVerified
  BY <1>4 DEF Leave, Succeed, Fail
<1>5. ASSUME Stale(c) PROVE NoneVerified
  BY <1>3, <1>4, <1>5 DEF Stale
<1>6. ASSUME Continue(c) PROVE NoneVerified
  BY <1>6 DEF Continue, Route, Go
<1>7. CASE Report(c) \/ Deliver(c)
  BY <1>4, <1>5, <1>7 DEF Report, Deliver
<1>8. CASE Refresh(c) \/ Reload(c) \/ Load(c) \/ Warm(c)
  BY <1>3, <1>4, <1>5, <1>6, <1>8 DEF Refresh, Reload, Load, Warm
<1>9. CASE Prepare(c) \/ Check(c) \/ GiveUp(c) \/ Repair(c)
  BY <1>3, <1>4, <1>5, <1>9 DEF Prepare, Check, GiveUp, Repair
<1>10. CASE Sleep(c) \/ Wake(c) \/ Reindex(c)
  BY <1>10 DEF Sleep, Wake, Reindex
<1>11. CASE Awaited(c)
  BY <1>3, <1>4, <1>11 DEF Awaited
<1>12. CASE Reindexed(c)
  BY <1>4, <1>12 DEF Reindexed
<1> QED
  BY <1>1, <1>2, <1>7, <1>8, <1>9, <1>10, <1>11, <1>12

Core == IndexInv /\ ContextTypes /\ CallInv /\ UpdateTypes /\ Binding

LEMMA CoreQueues ==
  ASSUME Core, NEW c \in Call,
         (\E k \in Kind : Arrive(c, k)) \/ AskStatus(c) \/ Acquire(c) \/ Return(c)
  PROVE  Core'
<1>1. CallInv' /\ NoneVerified
  BY CallQueues, Elsewhere DEF Core
<1>2. IndexInv' /\ UpdateTypes'
  BY NameAssumption
     DEF Core, Arrive, AskStatus, Acquire, Return, IndexInv, IndexTypes, JobOwnsLock,
         UpdateTypes, Index!Manifest, index, updates
<1>3. UNCHANGED <<source, version, mode, news, life>>
  BY DEF Arrive, AskStatus, Acquire, Return, index
<1>4. UNCHANGED <<ctx, faults>> \/ Accepted \/ Rejected
  BY DEF Arrive, AskStatus, Acquire, Return
<1>5. ContextTypes' /\ Binding'
  <2>1. CASE UNCHANGED <<ctx, faults>>
    BY <1>1, <1>3, <2>1 DEF Core, ContextTypes, Binding, NoneVerified
  <2>2. CASE Accepted \/ Rejected
    BY <1>1, <1>3, <2>2, Verifying DEF Core, Binding, NoneVerified
  <2> QED
    BY <1>4, <2>1, <2>2
<1> QED
  BY <1>1, <1>2, <1>5 DEF Core

LEMMA CoreFollows ==
  ASSUME Core, NEW c \in Call, Refresh(c) \/ Reload(c) \/ Load(c) \/ Warm(c)
  PROVE  Core'
<1>1. CallInv' /\ NoneVerified /\ c \in Task
  BY CallFollows, Elsewhere DEF Core, Task
<1>2. IndexInv' /\ UpdateTypes' /\ UNCHANGED <<source, published>>
  <2>1. \/ \E views \in SUBSET View : Index!Begin(c, views)
        \/ Index!Quit(c)
        \/ UNCHANGED index
    BY Views DEF Refresh, Reload, Load, Warm
  <2>2. UNCHANGED updates
    BY DEF Refresh, Reload, Load, Warm
  <2>3. UNCHANGED <<source, published>>
    BY <2>1 DEF Index!Begin, Index!Quit, index
  <2> QED
    BY <1>1, <2>1, <2>2, <2>3, Views, Indexing DEF Core, UpdateTypes, updates, Indexes
<1>3. CASE Refresh(c) \/ Reload(c)
  <2>1. UNCHANGED <<version, mode, ctx, news, life, faults>>
    BY <1>3 DEF Refresh, Reload
  <2> QED
    BY <1>1, <1>2, <2>1 DEF Core, ContextTypes, Binding, NoneVerified
<1>4. CASE Warm(c)
  <2>1. UNCHANGED <<version, mode, news, life>>
    BY <1>4 DEF Warm
  <2>2. UNCHANGED <<ctx, faults>> \/ Accepted \/ Rejected
    BY <1>4 DEF Warm
  <2>3. CASE UNCHANGED <<ctx, faults>>
    BY <1>1, <1>2, <2>1, <2>3 DEF Core, ContextTypes, Binding, NoneVerified
  <2>4. CASE Accepted \/ Rejected
    BY <1>1, <1>2, <2>1, <2>4, Verifying DEF Core, Binding, NoneVerified
  <2> QED
    BY <2>2, <2>3, <2>4
<1>5. CASE Load(c)
  <2>1. UNCHANGED <<version, mode, life>>
    BY <1>5 DEF Load
  <2>2. \A d \in Call : at'[d] # "query"
    BY <1>1, <1>5 DEF Core, CallInv, HolderWorks, NoneVerified, Load, Busy
  <2> DEFINE Loaded == /\ source.text = published.source.text
                       /\ ctx' = [source |-> published.source, fresh |-> published.fresh,
                                  version |-> version, revoked |-> FALSE]
  <2>3. /\ Loaded \/ UNCHANGED ctx \/ ctx' = [ctx EXCEPT !.revoked = TRUE]
        /\ news' = FALSE \/ UNCHANGED news
        /\ UNCHANGED faults \/ Fault
    BY <1>5 DEF Load
  <2>4. news' \in BOOLEAN /\ faults' \in 0 .. MaxFaults
    <3>1. news' \in BOOLEAN
      BY <2>3 DEF Core, ContextTypes
    <3>2. faults' \in 0 .. MaxFaults
      BY <2>3, BoundAssumption DEF Fault, Core, ContextTypes
    <3> QED
      BY <3>1, <3>2
  <2>5. /\ ctx' \in [source : Source, fresh : SUBSET View, version : Nat, revoked : BOOLEAN]
        /\ ctx'.version <= version
        /\ ctx'.version = version => ctx'.source.text = source.text
    <3>1. published.source \in Source /\ published.fresh \in SUBSET View
      BY DEF Core, IndexInv, IndexTypes, Index!Manifest
    <3>2. CASE Loaded
      BY <3>1, <3>2 DEF Core, ContextTypes
    <3>3. CASE UNCHANGED ctx
      BY <3>3 DEF Core, ContextTypes, Binding
    <3>4. CASE ctx' = [ctx EXCEPT !.revoked = TRUE]
      BY <3>4 DEF Core, ContextTypes, Binding
    <3> QED
      BY <2>3, <3>2, <3>3, <3>4
  <2> QED
    BY <1>1, <1>2, <2>1, <2>2, <2>4, <2>5 DEF Core, ContextTypes, Binding
<1> QED
  BY <1>3, <1>4, <1>5

LEMMA CoreAwaits ==
  ASSUME Core, NEW c \in Call,
         Prepare(c) \/ Sleep(c) \/ Wake(c) \/ GiveUp(c) \/ Awaited(c) \/ Check(c)
  PROVE  Core'
<1>1. CallInv' /\ NoneVerified
  BY CallAwaits, Elsewhere DEF Core
<1>2. UNCHANGED <<index, version, mode, news, updates, life>>
  BY DEF Prepare, Sleep, Wake, GiveUp, Awaited, Check
<1>3. IndexInv' /\ UpdateTypes'
  BY <1>2 DEF Core, IndexInv, IndexTypes, JobOwnsLock, UpdateTypes, Index!Manifest, index, updates
<1>4. UNCHANGED <<ctx, faults>> \/ Accepted \/ Rejected
  BY DEF Prepare, Sleep, Wake, GiveUp, Awaited, Check
<1>5. CASE UNCHANGED <<ctx, faults>>
  BY <1>1, <1>2, <1>3, <1>5 DEF Core, ContextTypes, Binding, NoneVerified, index
<1>6. CASE Accepted \/ Rejected
  BY <1>1, <1>2, <1>3, <1>6, Verifying DEF Core, Binding, NoneVerified, index
<1> QED
  BY <1>4, <1>5, <1>6

LEMMA CoreQueries ==
  ASSUME Core, NEW c \in Call, Report(c) \/ Verify(c) \/ Deliver(c)
  PROVE  Core'
<1>1. CallInv'
  BY CallQueries DEF Core
<1>2. UNCHANGED <<index, version, mode, news, updates, life>>
  BY DEF Report, Verify, Deliver
<1>3. IndexInv' /\ UpdateTypes'
  BY <1>2 DEF Core, IndexInv, IndexTypes, JobOwnsLock, UpdateTypes, Index!Manifest, index, updates
<1>4. Accepted \/ Rejected
  BY DEF Report, Verify, Deliver
<1>5. CASE NoneVerified
  BY <1>1, <1>2, <1>3, <1>4, <1>5, Verifying DEF Core, Binding, NoneVerified, index
<1>6. CASE Verify(c)
  <2>1. CASE Stale(c)
    <3>1. NoneVerified
      BY <2>1 DEF NoneVerified, Stale, Go, Fail, Leave, Core, CallInv, CallTypes
    <3> QED
      BY <1>5, <3>1
  <2>2. CASE /\ Accepted
             /\ at' = [at EXCEPT ![c] = "query"]
             /\ local' = [local EXCEPT ![c].since = version]
    <3>1. ctx.version = version /\ UNCHANGED ctx
      BY <2>2 DEF Accepted, Intact
    <3>2. \A d \in Call : at'[d] = "query" => local'[d].since = ctx.version
      BY <2>2, <3>1 DEF Core, CallInv, CallTypes, Local, Binding
    <3> QED
      BY <1>1, <1>2, <1>3, <1>4, <3>1, <3>2, Verifying DEF Core, Binding, index
  <2> QED
    BY <1>6, <2>1, <2>2 DEF Verify
<1> QED
  BY <1>5, <1>6, Elsewhere DEF Core

LEMMA CoreRepairs ==
  ASSUME Core, NEW c \in Call, Repair(c) \/ Reindex(c) \/ Reindexed(c)
  PROVE  Core'
<1>1. CallInv' /\ NoneVerified /\ c \in Task
  BY CallQueries, Elsewhere DEF Core, Task
<1>2. UNCHANGED <<version, mode, ctx, life>>
  BY DEF Repair, Reindex, Reindexed
<1>3. /\ IndexInv' /\ UpdateTypes' /\ news' \in BOOLEAN /\ faults' \in 0 .. MaxFaults
      /\ UNCHANGED source
  <2>1. CASE Repair(c)
    BY <1>1, <2>1, IndexStands, Updating DEF Repair, Core, ContextTypes, index
  <2>2. CASE Reindexed(c)
    BY <1>1, <2>2, IndexStands, Updating DEF Reindexed, Core, ContextTypes, index
  <2>3. CASE Reindex(c)
    <3>1. Builds(c, {"bm25"}, Text)
      BY <2>3 DEF Reindex, Builds
    <3> QED
      BY <1>1, <3>1, Building, Views DEF Core
  <2> QED
    BY <2>1, <2>2, <2>3
<1> QED
  BY <1>1, <1>2, <1>3 DEF Core, ContextTypes, Binding, NoneVerified

\* Steps that leave the calls alone cannot break what is said of them.
LEMMA CoreApart ==
  ASSUME Core, IndexInv', UpdateTypes', UNCHANGED <<mode, holder, at, local>>,
         news' \in BOOLEAN, faults' \in 0 .. MaxFaults, UNCHANGED ctx,
         life' \in {"loading", "open", "ending", "draining", "ended"},
         \/ version' = version /\ source'.text = source.text
         \/ version' = version + 1
  PROVE  Core'
<1>1. CallInv'
  BY Standing DEF Core
<1> QED
  BY <1>1 DEF Core, ContextTypes, Binding

LEMMA CoreBuilds == ASSUME Core, NEW w \in Worker, BuildStep(w) PROVE Core'
<1> w \in Task
  BY DEF Task
<1>1. CASE Enter(w) \/ Reported(w)
  <2>1. UNCHANGED <<index, version, mode, ctx, news, holder, at, local, updates, life,
                    faults>>
    BY <1>1 DEF Enter, Reported
  <2>2. IndexInv' /\ UpdateTypes'
    BY <2>1, IndexStands, Updating DEF Core
  <2> QED
    BY <2>1, <2>2, CoreApart DEF Core, ContextTypes, index
<1>2. CASE Guard(w)
  <2>1. /\ UNCHANGED <<index, version, mode, ctx, news, holder, at, local, life>>
        /\ GuardCheckout(w) \/ UNCHANGED updates
        /\ UNCHANGED faults \/ Fault
    BY <1>2 DEF Guard
  <2>2. IndexInv' /\ UpdateTypes'
    BY <2>1, IndexStands, Updating DEF Core
  <2>3. faults' \in 0 .. MaxFaults
    BY <2>1, BoundAssumption DEF Fault, Core, ContextTypes
  <2> QED
    BY <2>1, <2>2, <2>3, CoreApart DEF Core, ContextTypes, index
<1>3. CASE PrepareGraph(w)
  <2>1. Builds(w, {"graph"}, {target})
    BY <1>3 DEF PrepareGraph, Builds
  <2>2. /\ IndexInv' /\ UpdateTypes' /\ UNCHANGED source
        /\ news' \in BOOLEAN /\ faults' \in 0 .. MaxFaults
    BY <2>1, Building, Views DEF Core
  <2>3. /\ UNCHANGED <<mode, ctx, holder, at, local, life>>
        /\ version' = version \/ version' = version + 1
    BY <1>3 DEF PrepareGraph, Touched
  <2> QED
    BY <2>2, <2>3, CoreApart DEF Core, ContextTypes
<1>4. CASE Prepared(w)
  <2>1. /\ UNCHANGED <<index, version, mode, ctx, news, holder, at, local, life, faults>>
        /\ Forget(w)
    BY <1>4 DEF Prepared
  <2>2. IndexInv' /\ UpdateTypes'
    BY <2>1, IndexStands, Updating DEF Core
  <2> QED
    BY <2>1, <2>2, CoreApart DEF Core, ContextTypes, index
<1>5. CASE Cancelled(w)
  <2>1. /\ UNCHANGED <<mode, ctx, news, holder, at, local, life, faults>>
        /\ version' = version \/ version' = version + 1
        /\ Index!Quit(w) \/ UNCHANGED index
        /\ Forget(w)
    BY <1>5 DEF Cancelled, Touched
  <2>2. IndexInv' /\ UpdateTypes' /\ UNCHANGED source
    BY <2>1, Views, Indexing, Updating DEF Core, Indexes
  <2> QED
    BY <2>1, <2>2, CoreApart DEF Core, ContextTypes
<1> QED
  BY <1>1, <1>2, <1>3, <1>4, <1>5 DEF BuildStep

LEMMA CoreLives == ASSUME Core, Open \/ End \/ Joined \/ Drain PROVE Core'
<1>1. CASE End \/ Joined \/ Drain
  <2>1. /\ UNCHANGED <<index, version, mode, ctx, news, holder, at, local, updates, faults>>
        /\ life' \in {"ending", "draining", "ended"}
    BY <1>1 DEF End, Joined, Drain
  <2>2. IndexInv' /\ UpdateTypes'
    BY <2>1, IndexStands, Updating DEF Core, Task
  <2> QED
    BY <2>1, <2>2, CoreApart DEF Core, ContextTypes, index
<1>2. CASE Open
  <2>1. /\ UNCHANGED <<index, version, mode, news, holder, at, local, updates>>
        /\ life' = "open"
        /\ UNCHANGED <<ctx, faults>> \/ Accepted \/ Rejected
    BY <1>2 DEF Open
  <2>2. IndexInv' /\ UpdateTypes' /\ CallInv'
    BY <2>1, IndexStands, Updating, Standing DEF Core, Task
  <2>3. CASE UNCHANGED <<ctx, faults>>
    BY <2>1, <2>2, <2>3, CoreApart DEF Core, ContextTypes, index
  <2>4. CASE Accepted \/ Rejected
    <3>1. /\ ctx' \in [source : Source, fresh : SUBSET View, version : Nat, revoked : BOOLEAN]
          /\ ctx'.source = ctx.source /\ ctx'.version = ctx.version
      BY <2>4 DEF Accepted, Rejected, Core, ContextTypes
    <3>2. faults' \in 0 .. MaxFaults
      BY <2>4, BoundAssumption DEF Accepted, Rejected, Fault, Core, ContextTypes
    <3> QED
      BY <2>1, <2>2, <3>1, <3>2 DEF Core, ContextTypes, Binding, index
  <2> QED
    BY <2>1, <2>3, <2>4
<1> QED
  BY <1>1, <1>2

LEMMA CoreOutside ==
  ASSUME Core, Edit \/ Commit \/ OtherBegins \/ OtherLooks \/ OtherEnds PROVE Core'
<1> Other \in Task
  BY DEF Task
<1>1. /\ UNCHANGED <<mode, ctx, holder, at, local, updates, life>>
  BY DEF Edit, Commit, OtherBegins, OtherLooks, OtherEnds, environment
<1>2. UpdateTypes'
  BY <1>1 DEF Core, UpdateTypes, updates
<1>3. CASE Edit
  <2>1. PICK t \in Text : Index!Change([source EXCEPT !.text = t])
    BY <1>3 DEF Edit
  <2>2. source' \in Source
    BY <2>1 DEF Index!Change, Core, IndexInv, IndexTypes, Source
  <2>3. IndexInv'
    BY <2>1, <2>2 DEF Index!Change, Core, IndexInv, IndexTypes, JobOwnsLock, Index!Manifest
  <2>4. version' = version + 1 /\ UNCHANGED <<news, faults>>
    BY <1>3 DEF Edit
  <2> QED
    BY <1>1, <1>2, <2>3, <2>4, CoreApart DEF Core, ContextTypes
<1>4. CASE Commit
  <2>1. Index!Change([source EXCEPT !.commit = @ + 1]) /\ source.commit < MaxCommits
    BY <1>4 DEF Commit
  <2>2. source' \in Source /\ source'.text = source.text
    BY <2>1, BoundAssumption DEF Index!Change, Core, IndexInv, IndexTypes, Source
  <2>3. IndexInv'
    BY <2>1, <2>2 DEF Index!Change, Core, IndexInv, IndexTypes, JobOwnsLock, Index!Manifest
  <2>4. UNCHANGED <<version, news, faults>>
    BY <1>4 DEF Commit
  <2> QED
    BY <1>1, <1>2, <2>2, <2>3, <2>4, CoreApart DEF Core, ContextTypes
<1>5. CASE OtherBegins
  <2>1. Index!Kept \cup Wanted \in SUBSET View
    BY Views DEF Index!Kept, Index!Manifest, Core, IndexInv, IndexTypes
  <2>2. /\ Indexes(Other, Index!Kept \cup Wanted)
        /\ UNCHANGED <<version, news, faults>>
    BY <1>5 DEF OtherBegins, Indexes
  <2>3. IndexInv' /\ UNCHANGED source
    BY <2>1, <2>2, Indexing DEF Core
  <2> QED
    BY <1>1, <1>2, <2>2, <2>3, CoreApart DEF Core, ContextTypes
<1>6. CASE OtherLooks \/ OtherEnds
  <2>1. (source = job[Other].source) \in BOOLEAN
    OBVIOUS
  <2>2. /\ Indexes(Other, Wanted)
        /\ news' = TRUE \/ UNCHANGED news
        /\ UNCHANGED faults \/ Fault
        /\ UNCHANGED version
    BY <1>6, <2>1 DEF OtherLooks, OtherEnds, Indexes
  <2>3. IndexInv' /\ UNCHANGED source
    BY <2>2, Views, Indexing DEF Core
  <2>4. faults' \in 0 .. MaxFaults
    BY <2>2, BoundAssumption DEF Fault, Core, ContextTypes
  <2>5. news' \in BOOLEAN
    BY <2>2 DEF Core, ContextTypes
  <2> QED
    BY <1>1, <1>2, <2>2, <2>3, <2>4, <2>5, CoreApart DEF Core, ContextTypes
<1> QED
  BY <1>3, <1>4, <1>5, <1>6

LEMMA CoreInit == Init => Core
<1> SUFFICES ASSUME Init PROVE Core
  OBVIOUS
<1>1. source \in Source
  BY BoundAssumption DEF Init, Source
<1>2. IndexInv
  BY <1>1, Views DEF Init, IndexInv, IndexTypes, JobOwnsLock, Index!Manifest
<1>3. ContextTypes
  <2>1. ctx \in [source : Source, fresh : SUBSET View, version : Nat, revoked : BOOLEAN]
    BY <1>1, Views DEF Init
  <2>2. faults \in 0 .. MaxFaults /\ version \in Nat
    BY BoundAssumption DEF Init
  <2> QED
    BY <2>1, <2>2 DEF Init, ContextTypes
<1>4. NoLocal \in Local
  BY DEF NoLocal, Local
<1>5. CallInv
  BY <1>4, NameAssumption DEF Init, CallInv, CallTypes, HolderWorks, Label, Busy
<1>6. UpdateTypes
  BY DEF Init, UpdateTypes
<1>7. Binding
  BY DEF Init, Binding
<1> QED
  BY <1>2, <1>3, <1>5, <1>6, <1>7 DEF Core


LEMMA CoreStep == ASSUME Core, [Next]_vars PROVE Core'
<1>1. CASE UNCHANGED vars
  BY <1>1 DEF vars, index, updates, Core, IndexInv, IndexTypes, JobOwnsLock, Index!Manifest,
              ContextTypes, CallInv, CallTypes, HolderWorks, UpdateTypes, Binding
<1>2. ASSUME NEW c \in Call,
             \/ \E k \in Kind : Arrive(c, k)
             \/ AskStatus(c) \/ Acquire(c) \/ CallStep(c)
      PROVE  Core'
  BY <1>2, CoreQueues, CoreFollows, CoreAwaits, CoreQueries, CoreRepairs DEF CallStep
<1>3. ASSUME NEW w \in Worker, BuildStep(w) PROVE Core'
  BY <1>3, CoreBuilds
<1>4. CASE Open \/ End \/ Joined \/ Drain
  BY <1>4, CoreLives
<1>5. CASE Edit \/ Commit \/ OtherBegins \/ OtherLooks \/ OtherEnds
  BY <1>5, CoreOutside
<1> QED
  BY <1>1, <1>2, <1>3, <1>4, <1>5 DEF Next

LEMMA CoreHolds == Spec => []Core
BY CoreInit, CoreStep, PTL DEF Spec
-----------------------------------------------------------------------------
-----------------------------------------------------------------------------
\* While a call is at its query, the steps of calls that move it are its own.
LEMMA OnlyDelivers ==
  ASSUME Core, NEW c \in Call, at[c] = "query", at'[c] = "answered",
         NEW d \in Call,
         \/ \E k \in Kind : Arrive(d, k)
         \/ AskStatus(d) \/ Acquire(d) \/ CallStep(d)
  PROVE  Deliver(c)
<1>1. holder = c /\ c # NoCall
  BY NameAssumption DEF Core, CallInv, HolderWorks, Busy
<1>2. at[d] \in Busy => d = c
  BY <1>1 DEF Core, CallInv, HolderWorks
<1>3. CASE \E k \in Kind : Arrive(d, k)
  BY <1>3 DEF Arrive, Core, CallInv, CallTypes
<1>4. CASE AskStatus(d) \/ Acquire(d)
  BY <1>1, <1>4 DEF AskStatus, Acquire
<1>5. CASE Return(d)
  BY <1>5 DEF Return, Core, CallInv, CallTypes
<1>6. CASE Sleep(d) \/ Wake(d) \/ Reindex(d)
  BY <1>6 DEF Sleep, Wake, Reindex
<1>7. CASE \/ Report(d) \/ Refresh(d) \/ Reload(d) \/ Load(d) \/ Warm(d) \/ Prepare(d)
           \/ GiveUp(d) \/ Awaited(d) \/ Check(d) \/ Verify(d) \/ Repair(d) \/ Reindexed(d)
  <2>1. at[d] \in Busy \ {"query"}
    BY <1>7 DEF Report, Refresh, Reload, Load, Warm, Prepare, GiveUp, Awaited, Check,
                Verify, Repair, Reindexed, Busy
  <2> QED
    BY <1>2, <2>1
<1>8. CASE Deliver(d)
  <2>1. at[d] \in Busy
    BY <1>8 DEF Deliver, Busy
  <2> QED
    BY <1>2, <1>8, <2>1
<1> QED
  BY <1>3, <1>4, <1>5, <1>6, <1>7, <1>8 DEF CallStep

\* What a call delivers comes from an index of the contents that are in the
\* checkout when its source is verified for the second time, and nothing was
\* written since the first verification (ServerContext.indexed_query).
THEOREM DeliveredIsCurrent == Spec => AnswersAreCurrent
<1> DEFINE P == \A c \in Call : at[c] = "query" /\ at'[c] = "answered" =>
                  /\ ctx.source.text = source.text
                  /\ local[c].since = version
                  /\ UNCHANGED <<ctx, source>>
<1>1. ASSUME Core, [Next]_vars PROVE [P]_vars
  <2> SUFFICES ASSUME Next, NEW c \in Call, at[c] = "query", at'[c] = "answered"
               PROVE  /\ ctx.source.text = source.text
                      /\ local[c].since = version
                      /\ UNCHANGED <<ctx, source>>
    BY <1>1
  <2>1. CASE Deliver(c)
    <3>1. Accepted
      BY <1>1, <2>1 DEF Deliver, Stale, Go, Fail, Leave, Core, CallInv, CallTypes
    <3>2. UNCHANGED source
      BY <2>1 DEF Deliver, index
    <3> QED
      BY <3>1, <3>2, <1>1 DEF Accepted, Intact, Core, Binding
  <2>2. ASSUME NEW w \in Worker, BuildStep(w) PROVE FALSE
    BY <2>2 DEF BuildStep, Enter, Guard, PrepareGraph, Prepared, Cancelled, Reported
  <2>3. CASE Open \/ End \/ Joined \/ Drain
    BY <2>3 DEF Open, End, Joined, Drain
  <2>4. CASE Edit \/ Commit \/ OtherBegins \/ OtherLooks \/ OtherEnds
    BY <2>4 DEF Edit, Commit, OtherBegins, OtherLooks, OtherEnds, environment
  <2> QED
    BY <1>1, <2>1, <2>2, <2>3, <2>4, OnlyDelivers DEF Next
<1> QED
  BY <1>1, CoreHolds, PTL DEF AnswersAreCurrent, Spec
-----------------------------------------------------------------------------
(* The warmup inside the server.  Facts about GraphWarmup are proved again  *)
(* for its instance, with the steps that the server takes.                  *)

Uses(c) ==
  \/ \E w \in Worker, t \in Text, force \in BOOLEAN : Warmup!Start(c, w, t, force)
  \/ Warmup!Wait(c) \/ Warmup!Wake(c) \/ Warmup!TimeOut(c)

Works(w) ==
  \/ Warmup!Enter(w) \/ Warmup!PrepareEnds(w) \/ Warmup!PrepareIsCancelled(w)
  \/ Warmup!Report(w)

LifeUses ==
  \/ /\ life = "loading" /\ life' = "open"
     /\ \E w \in Worker, t \in Text : Warmup!Start(Life, w, t, FALSE)
  \/ life = "loading" /\ life' = "open" /\ UNCHANGED warmup
  \/ life = "open" /\ life' = "ending" /\ Warmup!Close(Life)
  \/ life = "ending" /\ life' = "draining" /\ Warmup!Join(Life)
  \/ life = "draining" /\ life' = "ended" /\ UNCHANGED warmup

\* Every step of the server is a step of the warmup, or none.
LEMMA ServerUsesWarmup ==
  ASSUME Core, [Next]_vars
  PROVE  \/ UNCHANGED <<warmup, life>>
         \/ UNCHANGED life /\ \E c \in Call : Uses(c)
         \/ UNCHANGED life /\ \E w \in Worker : Works(w)
         \/ LifeUses
<1>1. GraphTarget \in Text /\ \A c \in Call : Insists(c) \in BOOLEAN
  BY DEF Core, ContextTypes, Source, GraphTarget, Insists
<1>2. CASE UNCHANGED vars
  BY <1>2 DEF vars, warmup
<1>3. ASSUME NEW c \in Call,
             \/ \E k \in Kind : Arrive(c, k)
             \/ AskStatus(c) \/ Acquire(c) \/ Report(c) \/ Return(c) \/ Refresh(c)
             \/ Reload(c) \/ Load(c) \/ Awaited(c) \/ Check(c) \/ Verify(c)
             \/ Deliver(c) \/ Repair(c) \/ Reindex(c) \/ Reindexed(c)
      PROVE  UNCHANGED <<warmup, life>>
  BY <1>3 DEF Arrive, AskStatus, Acquire, Report, Return, Refresh, Reload, Load, Awaited,
              Check, Verify, Deliver, Repair, Reindex, Reindexed
<1>4. ASSUME NEW c \in Call, Warm(c)
      PROVE  UNCHANGED life /\ (UNCHANGED warmup \/ Uses(c))
  BY <1>1, <1>4 DEF Warm, Uses
<1>5. ASSUME NEW c \in Call, Prepare(c)
      PROVE  UNCHANGED life /\ (UNCHANGED warmup \/ Uses(c))
  BY <1>1, <1>5 DEF Prepare, Uses
<1>6. ASSUME NEW c \in Call, Sleep(c) \/ Wake(c) \/ GiveUp(c)
      PROVE  UNCHANGED life /\ Uses(c)
  BY <1>6 DEF Sleep, Wake, GiveUp, Uses
<1>7. ASSUME NEW w \in Worker, BuildStep(w)
      PROVE  UNCHANGED life /\ (UNCHANGED warmup \/ Works(w))
  BY <1>7 DEF BuildStep, Enter, Guard, PrepareGraph, Prepared, Cancelled, Reported, Works
<1>8. CASE Open
  BY <1>1, <1>8 DEF Open, Uses, LifeUses
<1>9. CASE End \/ Joined \/ Drain
  BY <1>9 DEF End, Joined, Drain, LifeUses
<1>10. CASE Edit \/ Commit \/ OtherBegins \/ OtherLooks \/ OtherEnds
  BY <1>10 DEF Edit, Commit, OtherBegins, OtherLooks, OtherEnds, environment
<1> QED
  BY <1>2, <1>3, <1>4, <1>5, <1>6, <1>7, <1>8, <1>9, <1>10 DEF Next, CallStep

WarmupStep ==
  \/ UNCHANGED warmup
  \/ \E c \in Call \cup {Life} : Uses(c) \/ Warmup!Close(c) \/ Warmup!Join(c)
  \/ \E w \in Worker : Works(w)

LEMMA WarmupTypes ==
  ASSUME Warmup!TypeOK, WarmupStep
  PROVE  Warmup!TypeOK'
<1> USE DEF Warmup!TypeOK, Warmup!Goto, Warmup!Reaches, Warmup!Outcome
<1>1. ASSUME NEW c \in Call \cup {Life}, NEW v \in Worker, NEW t \in Text,
             NEW force \in BOOLEAN, Warmup!Start(c, v, t, force)
      PROVE  Warmup!TypeOK'
  BY <1>1, NameAssumption DEF Warmup!Start
<1>2. ASSUME NEW c \in Call \cup {Life}, Warmup!Wait(c) \/ Warmup!Wake(c) \/ Warmup!TimeOut(c)
      PROVE  Warmup!TypeOK'
  BY <1>2 DEF Warmup!Wait, Warmup!Wake, Warmup!TimeOut
<1>3. ASSUME NEW c \in Call \cup {Life}, Warmup!Close(c) \/ Warmup!Join(c)
      PROVE  Warmup!TypeOK'
  <2>1. CASE Warmup!Close(c)
    BY <2>1 DEF Warmup!Close
  <2>2. CASE Warmup!Join(c)
    BY <2>2 DEF Warmup!Join
  <2> QED
    BY <1>3, <2>1, <2>2
<1>4. ASSUME NEW w \in Worker,
             Warmup!Enter(w) \/ Warmup!PrepareEnds(w) \/ Warmup!PrepareIsCancelled(w)
      PROVE  Warmup!TypeOK'
  BY <1>4 DEF Warmup!Enter, Warmup!PrepareEnds, Warmup!PrepareIsCancelled
<1>5. ASSUME NEW w \in Worker, Warmup!Report(w) PROVE Warmup!TypeOK'
  BY <1>5 DEF Warmup!Report
<1>6. CASE UNCHANGED warmup
  BY <1>6 DEF warmup
<1> HIDE DEF Warmup!TypeOK
<1> QED
  BY <1>1, <1>2, <1>3, <1>4, <1>5, <1>6 DEF WarmupStep, Uses, Works

LEMMA WarmupRuns ==
  ASSUME Warmup!TypeOK, Warmup!RunningIsTheThread, WarmupStep
  PROVE  Warmup!RunningIsTheThread'
<1> USE DEF Warmup!TypeOK, Warmup!RunningIsTheThread, Warmup!Active, Warmup!Goto,
            Warmup!Reaches, Warmup!Outcome
<1>1. ASSUME NEW c \in Call \cup {Life}, NEW v \in Worker, NEW t \in Text,
             NEW force \in BOOLEAN, Warmup!Start(c, v, t, force)
      PROVE  Warmup!RunningIsTheThread'
  <2>1. Warmup!Active = {} /\ stage' = [stage EXCEPT ![v] = "started"]
        /\ state' = "running" /\ thread' = v
    BY <1>1 DEF Warmup!Start, Warmup!MayBegin
  <2>2. Warmup!Active' = {v}
    BY <2>1
  <2> QED
    BY <2>1, <2>2
<1>2. ASSUME NEW c \in Call \cup {Life}, Warmup!Wait(c) \/ Warmup!Wake(c) \/ Warmup!TimeOut(c)
      PROVE  Warmup!RunningIsTheThread'
  BY <1>2 DEF Warmup!Wait, Warmup!Wake, Warmup!TimeOut
<1>3. ASSUME NEW c \in Call \cup {Life}, Warmup!Close(c) \/ Warmup!Join(c)
      PROVE  Warmup!RunningIsTheThread'
  BY <1>3 DEF Warmup!Close, Warmup!Join
<1>4. ASSUME NEW w \in Worker,
             Warmup!Enter(w) \/ Warmup!PrepareEnds(w) \/ Warmup!PrepareIsCancelled(w)
      PROVE  Warmup!RunningIsTheThread'
  <2>1. Warmup!Active' = Warmup!Active /\ UNCHANGED <<state, thread>>
    BY <1>4 DEF Warmup!Enter, Warmup!PrepareEnds, Warmup!PrepareIsCancelled
  <2> QED
    BY <2>1
<1>5. ASSUME NEW w \in Worker, Warmup!Report(w) PROVE Warmup!RunningIsTheThread'
  <2>1. Warmup!Active = {w} /\ stage' = [stage EXCEPT ![w] = "ended"] /\ state' # "running"
    BY <1>5 DEF Warmup!Report
  <2>2. Warmup!Active' = {}
    BY <2>1
  <2> QED
    BY <2>1, <2>2
<1>6. CASE UNCHANGED warmup
  BY <1>6 DEF warmup
<1> HIDE DEF Warmup!TypeOK, Warmup!RunningIsTheThread, Warmup!Active
<1> QED
  BY <1>1, <1>2, <1>3, <1>4, <1>5, <1>6 DEF WarmupStep, Uses, Works

\* The connection's end closes the warmup and joins the last thread there will
\* be, and the join finds that thread at an end.
EndJoins ==
  /\ life \in {"loading", "open"} => call[Life] = "free"
  /\ life = "ending" => call[Life] = "joining"
  /\ life \in {"ending", "draining", "ended"} => closed /\ joins[Life] = thread
  /\ life \in {"draining", "ended"} /\ thread # NoWorker =>
       stage[thread] \in {"ended", "unstarted"}

LEMMA EndJoinsStep ==
  ASSUME Core, Warmup!TypeOK, EndJoins, [Next]_vars
  PROVE  EndJoins'
<1> USE DEF EndJoins
<1>1. CASE UNCHANGED <<warmup, life>>
  BY <1>1 DEF warmup
<1>2. ASSUME NEW c \in Call, Uses(c), UNCHANGED life PROVE EndJoins'
  <2>1. c # Life
    BY NameAssumption
  <2>2. CASE Warmup!Wait(c) \/ Warmup!Wake(c) \/ Warmup!TimeOut(c)
    BY <1>2, <2>1, <2>2
       DEF Warmup!Wait, Warmup!Wake, Warmup!TimeOut, Warmup!Goto, Warmup!TypeOK
  <2>3. ASSUME NEW w \in Worker, NEW t \in Text, NEW force \in BOOLEAN,
               Warmup!Start(c, w, t, force)
        PROVE  EndJoins'
    <3>1. ~closed /\ UNCHANGED <<call, closed>>
      BY <2>3 DEF Warmup!Start, Warmup!MayBegin
    <3> QED
      BY <1>2, <3>1
  <2> QED
    BY <1>2, <2>2, <2>3 DEF Uses
<1>3. ASSUME NEW w \in Worker, Works(w), UNCHANGED life PROVE EndJoins'
  <2>1. /\ UNCHANGED <<call, closed, joins, thread>>
        /\ stage[w] \notin {"ended", "unstarted"}
        /\ \E where : stage' = [stage EXCEPT ![w] = where]
    BY <1>3 DEF Works, Warmup!Enter, Warmup!PrepareEnds, Warmup!PrepareIsCancelled,
                Warmup!Report, Warmup!Reaches, Warmup!Outcome
  <2> QED
    BY <1>3, <2>1 DEF Warmup!TypeOK
<1>4. CASE LifeUses
  <2>1. CASE life = "loading" /\ life' = "open" /\ UNCHANGED warmup
    BY <2>1 DEF warmup
  <2>2. ASSUME life = "loading", life' = "open", NEW w \in Worker, NEW t \in Text,
               Warmup!Start(Life, w, t, FALSE)
        PROVE  EndJoins'
    BY <2>2 DEF Warmup!Start
  <2>3. CASE life = "open" /\ life' = "ending" /\ Warmup!Close(Life)
    BY <2>3 DEF Warmup!Close, Warmup!Goto, Warmup!TypeOK
  <2>4. CASE life = "ending" /\ life' = "draining" /\ Warmup!Join(Life)
    BY <2>4 DEF Warmup!Join, Warmup!Goto, Warmup!TypeOK
  <2>5. CASE life = "draining" /\ life' = "ended" /\ UNCHANGED warmup
    BY <2>5 DEF warmup
  <2> QED
    BY <1>4, <2>1, <2>2, <2>3, <2>4, <2>5 DEF LifeUses
<1> QED
  BY <1>1, <1>2, <1>3, <1>4, ServerUsesWarmup

\* A thread's update lies within its build, and only there it owns the lock.
BuildInv ==
  \A w \in Worker :
    /\ phase[w] # "none" => stage[w] = "preparing"
    /\ w \in inside => phase[w] = "indexing"

\* What the steps of others leave a build.
Spared(w) ==
  /\ phase'[w] = phase[w]
  /\ w \in inside' => w \in inside
  /\ stage[w] = "preparing" => stage'[w] = "preparing"

LEMMA OthersIndex ==
  ASSUME NEW t \in Call \cup {Other}, NEW w \in Worker, NEW views,
         Indexes(t, views)
  PROVE  w \in inside' => w \in inside
BY NameAssumption DEF Indexes, Index!Begin, Index!Drop, Index!Look, Index!Save, Index!Quit,
                      Index!Lock!Enter, Index!Lock!Leave, index

LEMMA CallsSpare ==
  ASSUME Core, Warmup!TypeOK, NEW c \in Call, NEW w \in Worker,
         \/ \E k \in Kind : Arrive(c, k)
         \/ AskStatus(c) \/ Acquire(c) \/ CallStep(c)
  PROVE  Spared(w)
<1>1. c # w /\ c \in Call \cup {Other}
  BY NameAssumption
<1>2. ASSUME UNCHANGED <<phase, inside, stage>> PROVE Spared(w)
  BY <1>2 DEF Spared
<1>3. ASSUME UNCHANGED <<phase, inside>>, Uses(c) \/ UNCHANGED warmup PROVE Spared(w)
  BY <1>3 DEF Spared, Uses, Warmup!Start, Warmup!Reaches, Warmup!Wait, Warmup!Wake,
              Warmup!TimeOut, Warmup!TypeOK, warmup
<1>4. CASE \/ \E k \in Kind : Arrive(c, k)
           \/ AskStatus(c) \/ Acquire(c) \/ Report(c) \/ Return(c) \/ Refresh(c)
           \/ Awaited(c) \/ Check(c) \/ Verify(c) \/ Deliver(c)
  BY <1>2, <1>4 DEF Arrive, AskStatus, Acquire, Report, Return, Refresh, Awaited, Check,
                    Verify, Deliver, index, updates, warmup
<1>5. CASE Warm(c) \/ Prepare(c) \/ Sleep(c) \/ Wake(c) \/ GiveUp(c)
  <2>1. GraphTarget \in Text /\ Insists(c) \in BOOLEAN
    BY DEF Core, ContextTypes, Source, GraphTarget, Insists
  <2>2. UNCHANGED <<index, updates>> /\ (Uses(c) \/ UNCHANGED warmup)
    BY <1>5, <2>1 DEF Warm, Prepare, Sleep, Wake, GiveUp, Uses
  <2> QED
    BY <1>3, <2>2 DEF index, updates
<1>6. CASE Reload(c) \/ Load(c)
  <2>1. UNCHANGED <<updates, warmup>> /\ (w \in inside' => w \in inside)
    BY <1>1, <1>6, OthersIndex DEF Reload, Load, Indexes
  <2> QED
    BY <2>1 DEF Spared, updates, warmup
<1>7. CASE Repair(c) \/ Reindex(c) \/ Reindexed(c)
  <2>1. UNCHANGED warmup
    BY <1>7 DEF Repair, Reindex, Reindexed
  <2>2. phase'[w] = phase[w]
    BY <1>1, <1>7 DEF Repair, Reindex, Reindexed, GuardCheckout, Forget, FindsUpToDate,
                      Begins, Drops, Looks, Saves, Raises, Returns, updates, Core,
                      UpdateTypes, Task
  <2>3. (source = job[c].source) \in BOOLEAN
    OBVIOUS
  <2>4. \E views : Indexes(c, views)
    BY <1>7, <2>3
       DEF Repair, Reindex, Reindexed, FindsUpToDate, Begins, Drops, Looks, Saves, Raises,
           Indexes
  <2>5. w \in inside' => w \in inside
    BY <1>1, <2>4, OthersIndex
  <2> QED
    BY <2>1, <2>2, <2>5 DEF Spared, warmup
<1> QED
  BY <1>4, <1>5, <1>6, <1>7 DEF CallStep

LEMMA LifeSpares ==
  ASSUME Core, Warmup!TypeOK, NEW w \in Worker,
         \/ Open \/ End \/ Joined \/ Drain
         \/ Edit \/ Commit \/ OtherBegins \/ OtherLooks \/ OtherEnds
  PROVE  Spared(w)
<1>1. CASE Open
  <2>1. UNCHANGED <<index, updates>>
    BY <1>1 DEF Open
  <2>2. \/ UNCHANGED warmup
        \/ \E v \in Worker : Warmup!Start(Life, v, GraphTarget, FALSE)
    BY <1>1 DEF Open
  <2> QED
    BY <2>1, <2>2 DEF Spared, index, updates, warmup, Warmup!Start, Warmup!Reaches, Warmup!TypeOK
<1>2. CASE End \/ Joined \/ Drain
  BY <1>2 DEF End, Joined, Drain, index, updates, warmup, Warmup!Close, Warmup!Join, Spared
<1>3. CASE Edit \/ Commit
  BY <1>3 DEF Edit, Commit, Index!Change, environment, updates, warmup, Spared
<1>4. CASE OtherBegins \/ OtherLooks \/ OtherEnds
  <2>1. (source = job[Other].source) \in BOOLEAN
    OBVIOUS
  <2>2. \E views : Indexes(Other, views)
    BY <1>4, <2>1 DEF OtherBegins, OtherLooks, OtherEnds, Indexes
  <2>3. w \in inside' => w \in inside
    BY <2>2, OthersIndex
  <2> QED
    BY <1>4, <2>3 DEF OtherBegins, OtherLooks, OtherEnds, environment, updates, warmup, Spared
<1> QED
  BY <1>1, <1>2, <1>3, <1>4

LEMMA BuildsKeepInv ==
  ASSUME Core, Warmup!TypeOK, BuildInv, NEW w \in Worker, BuildStep(w)
  PROVE  BuildInv'
<1> USE DEF BuildInv
<1>1. w \in Task /\ \A v \in Worker : v \in Task
  BY DEF Task
<1>2. CASE Enter(w) \/ Reported(w)
  <2>1. stage[w] # "preparing" /\ UNCHANGED <<index, updates>>
    BY <1>2 DEF Enter, Reported, Warmup!Enter, Warmup!Report, Warmup!Outcome
  <2>2. \E where : stage' = [stage EXCEPT ![w] = where]
    BY <1>2 DEF Enter, Reported, Warmup!Enter, Warmup!Report, Warmup!Reaches
  <2> QED
    BY <2>1, <2>2 DEF index, updates, Warmup!TypeOK
<1>3. CASE Guard(w)
  <2>1. /\ stage[w] = "preparing" /\ phase[w] = "none" /\ UNCHANGED index
        /\ \/ GuardCheckout(w) /\ UNCHANGED warmup
           \/ UNCHANGED updates /\ \E where : stage' = [stage EXCEPT ![w] = where]
    BY <1>3 DEF Guard, Warmup!PrepareEnds, Warmup!Reaches
  <2>2. \A v \in Worker : v # w => phase'[v] = phase[v] /\ stage'[v] = stage[v]
    BY <1>1, <2>1 DEF GuardCheckout, Core, UpdateTypes, Warmup!TypeOK, warmup, updates
  <2>3. w \notin inside /\ UNCHANGED inside
    BY <2>1 DEF index
  <2>4. phase'[w] # "none" => stage'[w] = "preparing"
    BY <1>1, <2>1 DEF updates, warmup
  <2> QED
    BY <2>2, <2>3, <2>4
<1>4. CASE PrepareGraph(w)
  <2>1. stage[w] = "preparing" /\ UNCHANGED stage
    BY <1>4 DEF PrepareGraph, warmup
  <2>2. \A v \in Worker : v # w => phase'[v] = phase[v]
    BY <1>1, <1>4
       DEF PrepareGraph, FindsUpToDate, Begins, Drops, Looks, Saves, Raises, Returns,
           updates, Core, UpdateTypes
  <2>3. CASE FindsUpToDate(w, {"graph"}, {target})
    <3>1. phase[w] = "guarded" /\ UNCHANGED inside
      BY <2>3 DEF FindsUpToDate, index
    <3> QED
      BY <2>1, <2>2, <3>1
  <2>4. CASE Begins(w, {"graph"})
    <3>1. inside' = {w} /\ phase'[w] = "indexing"
      BY <1>1, <2>4 DEF Begins, Index!Begin, Index!Lock!Enter, Core, UpdateTypes
    <3> QED
      BY <2>1, <2>2, <3>1
  <2>5. CASE Saves(w, {"graph"}, {target}) \/ Raises(w)
    <3>1. w \notin inside' /\ inside' \subseteq inside
      BY <2>5 DEF Saves, Raises, Index!Save, Index!Quit, Index!Lock!Leave
    <3> QED
      BY <2>1, <2>2, <3>1
  <2>6. CASE Drops(w, {"graph"}) \/ Looks(w)
    <3>1. UNCHANGED <<phase, inside>>
      BY <2>6 DEF Drops, Looks, Index!Drop, Index!Look, updates
    <3> QED
      BY <2>1, <3>1
  <2> QED
    BY <1>4, <2>3, <2>4, <2>5, <2>6 DEF PrepareGraph
<1>5. CASE Prepared(w) \/ Cancelled(w)
  <2>1. /\ phase' = [phase EXCEPT ![w] = "none"]
        /\ \E where : stage' = [stage EXCEPT ![w] = where]
    BY <1>5 DEF Prepared, Cancelled, Forget, Warmup!PrepareEnds, Warmup!PrepareIsCancelled,
                Warmup!Reaches
  <2>2. w \notin inside' /\ inside' \subseteq inside
    BY <1>5 DEF Prepared, Cancelled, Index!Quit, Index!Lock!Leave, index
  <2> QED
    BY <1>1, <2>1, <2>2 DEF Core, UpdateTypes, Warmup!TypeOK
<1> QED
  BY <1>2, <1>3, <1>4, <1>5 DEF BuildStep

Whole == Core /\ Warmup!TypeOK /\ Warmup!RunningIsTheThread /\ EndJoins /\ BuildInv

LEMMA WholeInit == Init => Whole
<1> SUFFICES ASSUME Init PROVE Whole
  OBVIOUS
<1>1. Warmup!TypeOK /\ Warmup!RunningIsTheThread
  BY NameAssumption DEF Init, Warmup!Init, Warmup!TypeOK, Warmup!RunningIsTheThread,
                        Warmup!Active, Warmup!Outcome
<1>2. EndJoins
  BY DEF Init, Warmup!Init, EndJoins
<1>3. BuildInv
  BY DEF Init, BuildInv, Task
<1> QED
  BY <1>1, <1>2, <1>3, CoreInit DEF Whole

LEMMA WholeStep == ASSUME Whole, [Next]_vars PROVE Whole'
<1>1. Core' /\ EndJoins'
  BY CoreStep, EndJoinsStep DEF Whole
<1>2. WarmupStep
  BY ServerUsesWarmup DEF Whole, WarmupStep, LifeUses, Uses, warmup
<1>3. Warmup!TypeOK' /\ Warmup!RunningIsTheThread'
  BY <1>2, WarmupTypes, WarmupRuns DEF Whole
<1>4. BuildInv'
  <2>1. CASE UNCHANGED vars
    BY <2>1 DEF Whole, BuildInv, vars, index, updates, warmup
  <2>2. CASE \E w \in Worker : BuildStep(w)
    BY <2>2, BuildsKeepInv DEF Whole
  <2>3. CASE \A w \in Worker : Spared(w)
    BY <2>3 DEF Spared, Whole, BuildInv
  <2> QED
    BY <2>1, <2>2, <2>3, CallsSpare, LifeSpares DEF Next, Whole
<1> QED
  BY <1>1, <1>3, <1>4 DEF Whole

\* Types; who owns the context lock is at work, and who has something to publish
\* owns the compiler's lock.
THEOREM TypeCorrect == Spec => []TypeOK
<1>1. Whole => TypeOK
  BY DEF Whole, Core, TypeOK, IndexInv, JobOwnsLock, CallInv
<1> QED
  BY <1>1, WholeInit, WholeStep, PTL DEF Spec

\* Once the connection's end has joined the warmup's thread, no build runs or
\* owns the compiler's lock (_mcp_lifespan, GraphWarmup.close).
THEOREM EndIsQuiet == Spec => []EndLeavesNothingRunning
<1>1. Whole => EndLeavesNothingRunning
  <2> SUFFICES ASSUME Whole, life \in {"draining", "ended"}
               PROVE  Warmup!Active = {} /\ inside \cap Worker = {}
    BY DEF EndLeavesNothingRunning
  <2>1. Warmup!Active = {}
    BY DEF Whole, EndJoins, Warmup!RunningIsTheThread, Warmup!TypeOK, Warmup!Active,
           Warmup!Outcome
  <2>2. ASSUME NEW w \in Worker, w \in inside PROVE FALSE
    <3>1. stage[w] = "preparing"
      BY <2>2 DEF Whole, BuildInv
    <3> QED
      BY <2>1, <3>1 DEF Warmup!Active
  <2> QED
    BY <2>1, <2>2
<1> QED
  BY <1>1, WholeInit, WholeStep, PTL DEF Spec
-----------------------------------------------------------------------------
(* The parts that the server is composed of follow their own protocols: what *)
(* is promised by each of them alone holds of it inside the server.          *)

LEMMA ServerUsesIndex ==
  ASSUME Core, [Next]_vars
  PROVE  \/ \E t \in Task, views \in SUBSET View : Indexes(t, views)
         \/ \E s \in Source : Index!Change(s)
         \/ UNCHANGED index
<1> DEFINE Goal == \/ \E t \in Task, views \in SUBSET View : Indexes(t, views)
                   \/ \E s \in Source : Index!Change(s)
                   \/ UNCHANGED index
<1>1. ASSUME NEW t \in Task, NEW views \in SUBSET View, Builds(t, views, Text)
      PROVE  Goal
  <2>1. Index!Kept \cup views \in SUBSET View
    BY DEF Index!Kept, Index!Manifest, Core, IndexInv, IndexTypes
  <2>2. (source = job[t].source) \in BOOLEAN
    OBVIOUS
  <2> QED
    BY <1>1, <2>1, <2>2
       DEF Builds, FindsUpToDate, Begins, Drops, Looks, Saves, Raises, Indexes
<1>2. ASSUME NEW c \in Call,
             \/ \E k \in Kind : Arrive(c, k)
             \/ AskStatus(c) \/ Acquire(c) \/ Report(c) \/ Return(c) \/ Refresh(c)
             \/ Warm(c) \/ Prepare(c) \/ Sleep(c) \/ Wake(c) \/ GiveUp(c) \/ Awaited(c)
             \/ Check(c) \/ Verify(c) \/ Deliver(c) \/ Repair(c) \/ Reindexed(c)
      PROVE  UNCHANGED index
  BY <1>2 DEF Arrive, AskStatus, Acquire, Report, Return, Refresh, Warm, Prepare, Sleep,
              Wake, GiveUp, Awaited, Check, Verify, Deliver, Repair, Reindexed
<1>3. ASSUME NEW c \in Call, Reload(c) \/ Load(c) PROVE Goal
  BY <1>3, Views DEF Reload, Load, Indexes, Task
<1>4. ASSUME NEW c \in Call, Reindex(c) PROVE Goal
  BY <1>1, <1>4, Views DEF Reindex, Builds, Task
<1>5. ASSUME NEW w \in Worker, PrepareGraph(w) PROVE Goal
  <2>1. Index!Kept \cup {"graph"} \in SUBSET View /\ w \in Task
    BY Views DEF Index!Kept, Index!Manifest, Core, IndexInv, IndexTypes, Task
  <2>2. (source = job[w].source) \in BOOLEAN
    OBVIOUS
  <2> QED
    BY <1>5, <2>1, <2>2, Views
       DEF PrepareGraph, FindsUpToDate, Begins, Drops, Looks, Saves, Raises, Indexes
<1>6. ASSUME NEW w \in Worker, Enter(w) \/ Guard(w) \/ Prepared(w) \/ Reported(w)
      PROVE  UNCHANGED index
  BY <1>6 DEF Enter, Guard, Prepared, Reported
<1>7. ASSUME NEW w \in Worker, Cancelled(w) PROVE Goal
  BY <1>7, Views DEF Cancelled, Indexes, Task
<1>8. CASE Open \/ End \/ Joined \/ Drain
  BY <1>8 DEF Open, End, Joined, Drain
<1>9. CASE Edit
  <2>1. \A t \in Text : [source EXCEPT !.text = t] \in Source
    BY DEF Source, Core, IndexInv, IndexTypes
  <2> QED
    BY <1>9, <2>1 DEF Edit
<1>10. CASE Commit
  <2>1. source.commit < MaxCommits => [source EXCEPT !.commit = @ + 1] \in Source
    BY BoundAssumption DEF Source, Core, IndexInv, IndexTypes
  <2> QED
    BY <1>10, <2>1 DEF Commit
<1>11. CASE OtherBegins \/ OtherLooks \/ OtherEnds
  <2>1. Index!Kept \cup Wanted \in SUBSET View /\ Other \in Task
    BY Views DEF Index!Kept, Index!Manifest, Core, IndexInv, IndexTypes, Task
  <2>2. (source = job[Other].source) \in BOOLEAN
    OBVIOUS
  <2> QED
    BY <1>11, <2>1, <2>2, Views DEF OtherBegins, OtherLooks, OtherEnds, Indexes
<1>12. CASE UNCHANGED vars
  BY <1>12 DEF vars, index
<1> HIDE DEF Goal
<1>13. Goal
  BY <1>2, <1>3, <1>4, <1>5, <1>6, <1>7, <1>8, <1>9, <1>10, <1>11, <1>12
     DEF Next, CallStep, BuildStep, Goal
<1> QED
  BY <1>13 DEF Goal

\* Whatever calls, builds, reloads and another process do to the cache directory,
\* and whenever the source is edited, they follow AbstractIndex: one of them at a
\* time reads the source, looks at it again and replaces the manifest in one step.
THEOREM UsesTheIndex == Spec => Index!Spec
<1>1. Init => Index!Init
  <2> SUFFICES ASSUME Init PROVE Index!Init
    OBVIOUS
  <2>1. source \in Source /\ published \in Index!Manifest
    BY CoreInit DEF Core, IndexInv, IndexTypes
  <2> QED
    BY <2>1 DEF Init, Index!Init
<1>2. Core /\ [Next]_vars => [Index!Next]_index
  <2> SUFFICES ASSUME Core, [Next]_vars PROVE [Index!Next]_index
    OBVIOUS
  <2> QED
    BY ServerUsesIndex DEF Indexes, Index!Next
<1> QED
  BY <1>1, <1>2, CoreHolds, PTL DEF Spec, Index!Spec, Index!vars, index

\* Calls and the two ends of the connection use the warmup as it is meant to be
\* used: every step of the server is one of GraphWarmup's, or none.
THEOREM UsesTheWarmup == Spec => Warmup!Spec
<1>1. Init => Warmup!Init
  BY DEF Init
<1>2. Core /\ [Next]_vars => [Warmup!Next]_warmup
  <2> SUFFICES ASSUME Core, [Next]_vars PROVE [Warmup!Next]_warmup
    OBVIOUS
  <2>1. CASE UNCHANGED <<warmup, life>>
    BY <2>1
  <2>2. CASE \E c \in Call : Uses(c)
    BY <2>2 DEF Uses, Warmup!Next
  <2>3. CASE \E w \in Worker : Works(w)
    BY <2>3 DEF Works, Warmup!Next
  <2>4. CASE LifeUses
    BY <2>4 DEF LifeUses, Warmup!Next
  <2> QED
    BY <2>1, <2>2, <2>3, <2>4, ServerUsesWarmup
<1> QED
  BY <1>1, <1>2, CoreHolds, PTL DEF Spec, Warmup!Spec, Warmup!vars, warmup
-----------------------------------------------------------------------------
(* The locks: one call works at a time, and no one waits in a circle.       *)

\* The calls that work with the loaded context.
Working == {c \in Call : at[c] \in Busy}

ContextLock == INSTANCE AbstractLock WITH Task <- Call, inside <- Working

LEMMA HolderSteps ==
  ASSUME Core, [Next]_vars
  PROVE  \/ UNCHANGED holder
         \/ holder = NoCall
         \/ holder' = NoCall
<1> USE DEF Go, Continue, Route, Fail, Leave, Succeed, Stale
<1>1. CASE UNCHANGED vars
  BY <1>1 DEF vars
<1>2. ASSUME NEW c \in Call,
             \/ \E k \in Kind : Arrive(c, k)
             \/ AskStatus(c) \/ Acquire(c) \/ Report(c) \/ Return(c) \/ Sleep(c) \/ Wake(c)
      PROVE  UNCHANGED holder \/ holder = NoCall \/ holder' = NoCall
  BY <1>2 DEF Arrive, AskStatus, Acquire, Report, Return, Sleep, Wake
<1>3. ASSUME NEW c \in Call, Refresh(c) \/ Reload(c) \/ Load(c) \/ Warm(c)
      PROVE  UNCHANGED holder \/ holder' = NoCall
  BY <1>3 DEF Refresh, Reload, Load, Warm
<1>4. ASSUME NEW c \in Call,
             Prepare(c) \/ GiveUp(c) \/ Awaited(c) \/ Check(c) \/ Verify(c) \/ Deliver(c)
      PROVE  UNCHANGED holder \/ holder' = NoCall
  BY <1>4 DEF Prepare, GiveUp, Awaited, Check, Verify, Deliver
<1>5. ASSUME NEW c \in Call, Repair(c) \/ Reindex(c) \/ Reindexed(c)
      PROVE  UNCHANGED holder \/ holder' = NoCall
  BY <1>5 DEF Repair, Reindex, Reindexed
<1>6. ASSUME NEW w \in Worker, BuildStep(w) PROVE UNCHANGED holder
  BY <1>6 DEF BuildStep, Enter, Guard, PrepareGraph, Prepared, Cancelled, Reported
<1>7. CASE Open \/ End \/ Joined \/ Drain
  BY <1>7 DEF Open, End, Joined, Drain
<1>8. CASE Edit \/ Commit \/ OtherBegins \/ OtherLooks \/ OtherEnds
  BY <1>8 DEF Edit, Commit, OtherBegins, OtherLooks, OtherEnds, environment
<1> QED
  BY <1>1, <1>2, <1>3, <1>4, <1>5, <1>6, <1>7, <1>8 DEF Next, CallStep

\* From the moment it leaves the queue until it has its result or its error, a
\* call works alone: the loaded context is not replaced under another's hands.
THEOREM CallsWorkAlone == Spec => ContextLock!Spec
<1>1. Init => ContextLock!Init
  BY DEF Init, ContextLock!Init, Working, Busy
<1>2. Core /\ [Next]_vars => [ContextLock!Next]_Working
  <2> SUFFICES ASSUME Core, [Next]_vars PROVE [ContextLock!Next]_Working
    OBVIOUS
  <2>1. Core'
    BY CoreStep
  <2>2. Working = {holder} \ {NoCall} /\ Working' = {holder'} \ {NoCall}
    BY <2>1, NameAssumption DEF Core, CallInv, CallTypes, HolderWorks, Working
  <2>3. holder \in Call \cup {NoCall} /\ holder' \in Call \cup {NoCall}
    BY <2>1 DEF Core, CallInv, CallTypes
  <2> QED
    BY <2>2, <2>3, HolderSteps, NameAssumption
       DEF ContextLock!Next, ContextLock!Enter, ContextLock!Leave
<1> QED
  BY <1>1, <1>2, CoreHolds, PTL DEF Spec, ContextLock!Spec

\* What a call owns, and what it waits for, at each of its steps: it sleeps on
\* the warmup only in its two waits, and owns the compiler's lock only while it
\* loads a manifest or updates the index.
Locks(c) ==
  /\ call[c] # "free" => at[c] \in {"await", "repair"}
  /\ c \in inside <=> at[c] = "load" \/ phase[c] = "indexing"
  /\ phase[c] # "none" <=> at[c] = "reindex"

CallLocks == \A c \in Call : Locks(c)

\* What the steps of others leave a call.
Apart(c) ==
  /\ UNCHANGED <<at[c], call[c], phase[c]>>
  /\ c \in inside' <=> c \in inside

LEMMA ApartHolds == ASSUME NEW c, Locks(c), Apart(c) PROVE Locks(c)'
BY DEF Locks, Apart

LEMMA IndexApart ==
  ASSUME NEW t, NEW u, t # u, NEW views, Indexes(t, views)
  PROVE  u \in inside' <=> u \in inside
BY DEF Indexes, Index!Begin, Index!Drop, Index!Look, Index!Save, Index!Quit,
       Index!Lock!Enter, Index!Lock!Leave, index

\* The types of the functions these steps change.
LEMMA CallDomains ==
  ASSUME Core, Warmup!TypeOK
  PROVE  /\ at = [c \in Call |-> at[c]]
         /\ local = [c \in Call |-> local[c]]
         /\ call = [c \in Call \cup {Life} |-> call[c]]
         /\ phase = [t \in Task |-> phase[t]]
         /\ \A c \in Call : local[c].next \in {"none", "route", "check", "retry", "report"}
BY DEF Core, CallInv, CallTypes, UpdateTypes, Warmup!TypeOK, Local

\* A call only ever changes its own place and its own wait.
LEMMA CallsApart ==
  ASSUME Core, Warmup!TypeOK, NEW d \in Call, NEW c \in Call, c # d,
         \/ \E k \in Kind : Arrive(d, k)
         \/ AskStatus(d) \/ Acquire(d) \/ CallStep(d)
  PROVE  Apart(c)
<1> USE CallDomains
<1>1. c \in Task /\ d \in Task
  BY DEF Task
<1>2. at'[c] = at[c]
  <2> USE DEF Go, Continue, Route, Fail, Leave, Succeed, Stale
  <2>1. CASE \/ \E k \in Kind : Arrive(d, k)
             \/ AskStatus(d) \/ Acquire(d) \/ Report(d) \/ Return(d) \/ Sleep(d) \/ Wake(d)
    BY <2>1 DEF Arrive, AskStatus, Acquire, Report, Return, Sleep, Wake
  <2>2. CASE Refresh(d) \/ Reload(d) \/ Load(d) \/ Warm(d)
    BY <2>2 DEF Refresh, Reload, Load, Warm
  <2>3. CASE Prepare(d) \/ GiveUp(d) \/ Awaited(d) \/ Check(d) \/ Verify(d) \/ Deliver(d)
    BY <2>3 DEF Prepare, GiveUp, Awaited, Check, Verify, Deliver
  <2>4. CASE Repair(d) \/ Reindex(d) \/ Reindexed(d)
    BY <2>4 DEF Repair, Reindex, Reindexed
  <2> QED
    BY <2>1, <2>2, <2>3, <2>4 DEF CallStep
<1>3. call'[c] = call[c]
  <2>1. CASE Uses(d)
    BY <2>1 DEF Uses, Warmup!Start, Warmup!Wait, Warmup!Wake, Warmup!TimeOut, Warmup!Goto
  <2>2. CASE UNCHANGED warmup
    BY <2>2 DEF warmup
  <2>3. GraphTarget \in Text /\ Insists(d) \in BOOLEAN
    BY DEF Core, ContextTypes, Source, GraphTarget, Insists
  <2>4. UNCHANGED warmup \/ Uses(d)
    <3>1. CASE Warm(d) \/ Prepare(d) \/ Sleep(d) \/ Wake(d) \/ GiveUp(d)
      BY <2>3, <3>1 DEF Warm, Prepare, Sleep, Wake, GiveUp, Uses
    <3>2. CASE \/ \E k \in Kind : Arrive(d, k)
               \/ AskStatus(d) \/ Acquire(d) \/ Report(d) \/ Return(d) \/ Refresh(d)
               \/ Reload(d) \/ Load(d) \/ Awaited(d) \/ Check(d) \/ Verify(d)
               \/ Deliver(d) \/ Repair(d) \/ Reindex(d) \/ Reindexed(d)
      BY <3>2 DEF Arrive, AskStatus, Acquire, Report, Return, Refresh, Reload, Load,
                  Awaited, Check, Verify, Deliver, Repair, Reindex, Reindexed
    <3> QED
      BY <3>1, <3>2 DEF CallStep
  <2> QED
    BY <2>1, <2>2, <2>4
<1>4. phase'[c] = phase[c] /\ (c \in inside' <=> c \in inside)
  <2>1. CASE \/ \E k \in Kind : Arrive(d, k)
             \/ AskStatus(d) \/ Acquire(d) \/ Report(d) \/ Return(d) \/ Refresh(d)
             \/ Warm(d) \/ Prepare(d) \/ Sleep(d) \/ Wake(d) \/ GiveUp(d) \/ Awaited(d)
             \/ Check(d) \/ Verify(d) \/ Deliver(d)
    BY <2>1 DEF Arrive, AskStatus, Acquire, Report, Return, Refresh, Warm, Prepare, Sleep,
                Wake, GiveUp, Awaited, Check, Verify, Deliver, index, updates
  <2>2. CASE Reload(d) \/ Load(d)
    <3>1. UNCHANGED phase /\ \E views : Indexes(d, views)
      BY <2>2 DEF Reload, Load, Indexes, updates
    <3> QED
      BY <3>1, IndexApart
  <2>3. CASE Repair(d) \/ Reindex(d) \/ Reindexed(d)
    <3>1. phase'[c] = phase[c]
      BY <1>1, <2>3 DEF Repair, Reindex, Reindexed, GuardCheckout, Forget, FindsUpToDate,
                        Begins, Drops, Looks, Saves, Raises, Returns, updates
    <3>2. (source = job[d].source) \in BOOLEAN
      OBVIOUS
    <3>3. \E views : Indexes(d, views)
      BY <2>3, <3>2
         DEF Repair, Reindex, Reindexed, FindsUpToDate, Begins, Drops, Looks, Saves, Raises,
             Indexes
    <3> QED
      BY <3>1, <3>3, IndexApart
  <2> QED
    BY <2>1, <2>2, <2>3 DEF CallStep
<1> QED
  BY <1>2, <1>3, <1>4 DEF Apart

\* Nobody else moves a call.
LEMMA RestApart ==
  ASSUME Core, Warmup!TypeOK, NEW c \in Call,
         \/ \E w \in Worker : BuildStep(w)
         \/ Open \/ End \/ Joined \/ Drain
         \/ Edit \/ Commit \/ OtherBegins \/ OtherLooks \/ OtherEnds
  PROVE  Apart(c)
<1> USE CallDomains
<1>1. c # Life /\ c # Other /\ c \notin Worker /\ c \in Task
  BY NameAssumption DEF Task
<1>2. ASSUME NEW w \in Worker, BuildStep(w) PROVE Apart(c)
  <2>1. at'[c] = at[c] /\ call'[c] = call[c]
    BY <1>2 DEF BuildStep, Enter, Guard, PrepareGraph, Prepared, Cancelled, Reported,
                Warmup!Enter, Warmup!PrepareEnds, Warmup!PrepareIsCancelled, Warmup!Report,
                warmup
  <2>2. w \in Task /\ c # w
    BY <1>1 DEF Task
  <2>3. phase'[c] = phase[c]
    BY <1>1, <1>2, <2>2
       DEF BuildStep, Enter, Guard, PrepareGraph, Prepared, Cancelled, Reported,
           GuardCheckout, Forget, FindsUpToDate, Begins, Drops, Looks, Saves, Raises,
           Returns, updates
  <2>4. (source = job[w].source) \in BOOLEAN
    OBVIOUS
  <2>5. \E views : Indexes(w, views)
    BY <1>2, <2>4
       DEF BuildStep, Enter, Guard, PrepareGraph, Prepared, Cancelled, Reported,
           FindsUpToDate, Begins, Drops, Looks, Saves, Raises, Indexes
  <2>6. c \in inside' <=> c \in inside
    BY <2>2, <2>5, IndexApart
  <2> QED
    BY <2>1, <2>3, <2>6 DEF Apart
<1>3. CASE Open \/ End \/ Joined \/ Drain
  <2>1. UNCHANGED <<at, phase, inside>>
    BY <1>3 DEF Open, End, Joined, Drain, index, updates
  <2>2. call'[c] = call[c]
    BY <1>1, <1>3 DEF Open, End, Joined, Drain, Warmup!Start, Warmup!Close, Warmup!Join,
                      Warmup!Goto, warmup
  <2> QED
    BY <2>1, <2>2 DEF Apart
<1>4. CASE Edit \/ Commit \/ OtherBegins \/ OtherLooks \/ OtherEnds
  <2>1. UNCHANGED <<at, call, phase>>
    BY <1>4 DEF Edit, Commit, OtherBegins, OtherLooks, OtherEnds, environment, updates, warmup
  <2>2. (source = job[Other].source) \in BOOLEAN
    OBVIOUS
  <2>3. UNCHANGED inside \/ \E views : Indexes(Other, views)
    BY <1>4, <2>2 DEF Edit, Commit, OtherBegins, OtherLooks, OtherEnds, Index!Change, Indexes
  <2>4. c \in inside' <=> c \in inside
    BY <1>1, <2>3, IndexApart
  <2> QED
    BY <2>1, <2>4 DEF Apart
<1> QED
  BY <1>2, <1>3, <1>4

LEMMA CallsKeepLocks ==
  ASSUME Core, Warmup!TypeOK, NEW c \in Call, Locks(c),
         \/ \E k \in Kind : Arrive(c, k)
         \/ AskStatus(c) \/ Acquire(c) \/ CallStep(c)
  PROVE  Locks(c)'
<1> USE CallDomains DEF Locks
<1>0. c \in Task
  BY DEF Task
<1>1. ASSUME at[c] \notin {"load", "reindex"}, at'[c] \notin {"load", "reindex"},
             call'[c] = "free", UNCHANGED <<phase, inside>>
      PROVE  Locks(c)'
  BY <1>1
<1>2. CASE \/ \E k \in Kind : Arrive(c, k)
           \/ AskStatus(c) \/ Acquire(c) \/ Report(c) \/ Return(c) \/ Refresh(c)
  <2>1. at[c] \in {"idle", "queued", "report", "answered", "refresh"}
        /\ at'[c] \notin {"load", "reindex"}
    BY <1>2 DEF Arrive, AskStatus, Acquire, Report, Return, Refresh, Go, Continue, Route,
                Leave
  <2>2. UNCHANGED <<call, phase, inside>>
    BY <1>2 DEF Arrive, AskStatus, Acquire, Report, Return, Refresh, index, updates, warmup
  <2> QED
    BY <1>1, <2>1, <2>2
<1>3. CASE Warm(c) \/ Prepare(c)
  <2>1. at[c] \in {"warm", "prepare"} /\ at'[c] \notin {"load", "reindex"}
    BY <1>3 DEF Warm, Prepare, Go, Continue, Route, Stale, Fail, Leave
  <2>2. UNCHANGED <<call, phase, inside>>
    BY <1>3 DEF Warm, Prepare, Warmup!Start, index, updates, warmup
  <2> QED
    BY <1>1, <2>1, <2>2
<1>4. CASE Check(c) \/ Verify(c) \/ Deliver(c)
  <2>1. at[c] \in {"check", "verify", "query"} /\ at'[c] \notin {"load", "reindex"}
    BY <1>4 DEF Check, Verify, Deliver, Go, Stale, Fail, Leave, Succeed
  <2>2. UNCHANGED <<call, phase, inside>>
    BY <1>4 DEF Check, Verify, Deliver, index, updates, warmup
  <2> QED
    BY <1>1, <2>1, <2>2
<1>5. CASE GiveUp(c) \/ Awaited(c)
  <2>1. at[c] \in {"await", "repair"} /\ at'[c] \notin {"load", "reindex"}
    BY <1>5 DEF GiveUp, Awaited, Go, Fail, Leave
  <2>2. call'[c] = "free" /\ UNCHANGED <<phase, inside>>
    BY <1>5 DEF GiveUp, Awaited, Warmup!TimeOut, Warmup!Goto, index, updates, warmup
  <2> QED
    BY <1>1, <2>1, <2>2
<1>6. CASE Sleep(c) \/ Wake(c)
  <2>1. UNCHANGED <<at, phase, inside>> /\ (at[c] \in {"await", "repair"} \/ call'[c] = "free")
    BY <1>6 DEF Sleep, Wake, Warmup!Wake, Warmup!Goto, index, updates
  <2> QED
    BY <2>1
<1>7. CASE Reload(c)
  <2>1. at[c] = "reload" /\ UNCHANGED <<call, phase>>
    BY <1>7 DEF Reload, updates, warmup
  <2>2. CASE Index!Begin(c, {}) /\ Go(c, "load")
    <3>1. inside' = {c} /\ at'[c] = "load"
      BY <2>2 DEF Index!Begin, Index!Lock!Enter, Go
    <3> QED
      BY <2>1, <3>1
  <2>3. CASE Fail(c) /\ UNCHANGED index
    BY <2>1, <2>3 DEF Fail, Leave, index
  <2> QED
    BY <1>7, <2>2, <2>3 DEF Reload
<1>8. CASE Load(c)
  <2>1. at[c] = "load" /\ UNCHANGED <<call, phase>> /\ inside' = {}
    BY <1>8 DEF Load, Index!Quit, Index!Lock!Leave, updates, warmup
  <2>2. at'[c] \notin {"load", "reindex"}
    BY <1>8 DEF Load, Go, Stale, Fail, Leave
  <2> QED
    BY <2>1, <2>2
<1>9. CASE Repair(c)
  <2>1. /\ at[c] = "repair" /\ at'[c] = "reindex" /\ call'[c] = "free"
        /\ phase'[c] = "guarded" /\ UNCHANGED inside
    BY <1>0, <1>9 DEF Repair, GuardCheckout, Go, index, warmup
  <2> QED
    BY <2>1
<1>10. CASE Reindex(c)
  <2>1. at[c] = "reindex" /\ UNCHANGED <<at, call>>
    BY <1>10 DEF Reindex, warmup
  <2>2. CASE FindsUpToDate(c, {"bm25"}, Text)
    <3>1. phase[c] = "guarded" /\ phase'[c] \in {"current", "missing"} /\ UNCHANGED inside
      BY <1>0, <2>2 DEF FindsUpToDate, Returns, index
    <3> QED
      BY <2>1, <3>1
  <2>3. CASE Begins(c, {"bm25"})
    <3>1. phase'[c] = "indexing" /\ inside' = {c}
      BY <1>0, <2>3 DEF Begins, Index!Begin, Index!Lock!Enter
    <3> QED
      BY <2>1, <3>1
  <2>4. CASE Drops(c, {"bm25"}) \/ Looks(c)
    <3>1. UNCHANGED <<phase, inside>>
      BY <2>4 DEF Drops, Looks, Index!Drop, Index!Look, updates
    <3> QED
      BY <2>1, <3>1
  <2>5. CASE Saves(c, {"bm25"}, Text) \/ Raises(c)
    <3>1. phase'[c] \in {"current", "missing"} /\ inside' = {}
      BY <1>0, <2>5 DEF Saves, Raises, Returns, Index!Save, Index!Quit, Index!Lock!Leave
    <3> QED
      BY <2>1, <3>1
  <2> QED
    BY <1>10, <2>2, <2>3, <2>4, <2>5 DEF Reindex
<1>11. CASE Reindexed(c)
  <2>1. /\ at[c] = "reindex" /\ phase[c] \in {"current", "missing"}
        /\ phase'[c] = "none" /\ at'[c] \in {"reload", "idle"}
        /\ UNCHANGED <<call, inside>>
    BY <1>0, <1>11 DEF Reindexed, Forget, Fail, Leave, index, warmup
  <2> QED
    BY <2>1
<1> QED
  BY <1>2, <1>3, <1>4, <1>5, <1>6, <1>7, <1>8, <1>9, <1>10, <1>11 DEF CallStep

LEMMA CallLocksStep ==
  ASSUME Whole, CallLocks, [Next]_vars PROVE CallLocks'
<1> SUFFICES ASSUME NEW c \in Call PROVE Locks(c)'
  BY DEF CallLocks
<1>1. Core /\ Warmup!TypeOK /\ Locks(c)
  BY DEF Whole, CallLocks
<1>2. CASE UNCHANGED vars
  <2>1. Apart(c)
    BY <1>2 DEF vars, Apart, index, updates, warmup
  <2> QED
    BY <1>1, <2>1, ApartHolds
<1>3. ASSUME NEW d \in Call,
             \/ \E k \in Kind : Arrive(d, k)
             \/ AskStatus(d) \/ Acquire(d) \/ CallStep(d)
      PROVE  Locks(c)'
  <2>1. CASE c = d
    BY <1>1, <1>3, <2>1, CallsKeepLocks
  <2>2. CASE c # d
    BY <1>1, <1>3, <2>2, CallsApart, ApartHolds
  <2> QED
    BY <2>1, <2>2
<1>4. CASE \/ \E w \in Worker : BuildStep(w)
           \/ Open \/ End \/ Joined \/ Drain
           \/ Edit \/ Commit \/ OtherBegins \/ OtherLooks \/ OtherEnds
  BY <1>1, <1>4, RestApart, ApartHolds
<1> QED
  BY <1>2, <1>3, <1>4 DEF Next

\* Who waits for whom: a call that sleeps on the warmup holds the context lock
\* and not the compiler's, which the build it waits for may itself be waiting
\* for; a build holds the compiler's lock only while it is at work on the index,
\* and never the context lock; a call that holds the compiler's lock holds the
\* context lock already, and sleeps on nothing.  So the three waits (for the
\* context lock, for the warmup, for the compiler's lock) never form a circle.
NoCircularWait ==
  /\ \A c \in Call : call[c] # "free" => holder = c /\ c \notin inside
  /\ \A c \in Call : c \in inside => holder = c /\ call[c] = "free"
  /\ \A w \in Worker : w \in inside => stage[w] = "preparing" /\ phase[w] = "indexing"

\* Calls and builds cannot wait for each other in a circle, whatever is forced,
\* edited or closed meanwhile (server.py, graph_warmup.py, cache_lock.py).
THEOREM WaitsAreOrdered == Spec => []NoCircularWait
<1>1. Init => CallLocks
  BY DEF Init, Warmup!Init, CallLocks, Locks, Task
<1>2. Whole /\ CallLocks /\ [Next]_vars => CallLocks'
  BY CallLocksStep
<1>3. Whole /\ CallLocks => NoCircularWait
  <2> SUFFICES ASSUME Whole, CallLocks PROVE NoCircularWait
    OBVIOUS
  <2>1. ASSUME NEW c \in Call, at[c] \in {"await", "repair", "load", "reindex"}
        PROVE  holder = c
    BY <2>1 DEF Whole, Core, CallInv, HolderWorks, Busy
  <2> QED
    BY <2>1 DEF CallLocks, Locks, Whole, BuildInv, NoCircularWait
<1> QED
  BY <1>1, <1>2, <1>3, WholeInit, WholeStep, PTL DEF Spec
-----------------------------------------------------------------------------
(* What a call may take for the manifest.                                    *)

\* A context that _refresh_local_context would keep (no manifest was saved since
\* it was loaded, by this server, by its builds or by another process) has the
\* source and the views of the manifest on disk; a poisoned binding, a failed
\* reload or an edit takes nothing of that away.
LoadedIsPublished ==
  ~news => ctx.source = published.source /\ ctx.fresh = published.fresh

LEMMA RejectedKeeps ==
  ASSUME Core, Accepted \/ Rejected
  PROVE  ctx'.source = ctx.source /\ ctx'.fresh = ctx.fresh
BY DEF Core, ContextTypes, Accepted, Rejected

\* A call never takes an old index for the one on disk: either a manifest was saved
\* that its next look will find, or the loaded context is the manifest's.
THEOREM ContextFollowsManifest == Spec => []LoadedIsPublished
<1>1. Init => LoadedIsPublished
  BY DEF Init, LoadedIsPublished
<1>2. ASSUME Core, LoadedIsPublished, [Next]_vars PROVE LoadedIsPublished'
  <2> USE <1>2 DEF LoadedIsPublished
  <2>1. ASSUME published' = published, news' = news,
               ctx' = ctx \/ Accepted \/ Rejected
        PROVE  LoadedIsPublished'
    BY <2>1, RejectedKeeps
  <2>2. ASSUME NEW t \in Task, NEW views, NEW texts, Builds(t, views, texts), UNCHANGED ctx
        PROVE  LoadedIsPublished'
    BY <2>2 DEF Builds, FindsUpToDate, Begins, Drops, Looks, Saves, Raises, Index!Begin,
                Index!Drop, Index!Look, Index!Quit, index
  <2>3. CASE UNCHANGED vars
    BY <2>1, <2>3 DEF vars, index
  <2>4. ASSUME NEW c \in Call,
               \/ \E k \in Kind : Arrive(c, k)
               \/ AskStatus(c) \/ Acquire(c) \/ Report(c) \/ Return(c) \/ Refresh(c)
        PROVE  LoadedIsPublished'
    BY <2>1, <2>4 DEF Arrive, AskStatus, Acquire, Report, Return, Refresh, index
  <2>5. ASSUME NEW c \in Call,
               Warm(c) \/ Prepare(c) \/ Sleep(c) \/ Wake(c) \/ GiveUp(c) \/ Awaited(c)
        PROVE  LoadedIsPublished'
    BY <2>1, <2>5 DEF Warm, Prepare, Sleep, Wake, GiveUp, Awaited, index
  <2>6. ASSUME NEW c \in Call,
               Check(c) \/ Verify(c) \/ Deliver(c) \/ Repair(c) \/ Reindexed(c)
        PROVE  LoadedIsPublished'
    BY <2>1, <2>6 DEF Check, Verify, Deliver, Repair, Reindexed, index
  <2>7. ASSUME NEW c \in Call, Reload(c) PROVE LoadedIsPublished'
    BY <2>1, <2>7 DEF Reload, Index!Begin, index
  <2>8. ASSUME NEW c \in Call, Load(c) PROVE LoadedIsPublished'
    <3>1. UNCHANGED published
      BY <2>8 DEF Load, Index!Quit
    <3>2. CASE ctx' = [source |-> published.source, fresh |-> published.fresh,
                       version |-> version, revoked |-> FALSE]
      BY <3>1, <3>2
    <3>3. CASE UNCHANGED <<ctx, news>>
      BY <3>1, <3>3
    <3>4. CASE ctx' = [ctx EXCEPT !.revoked = TRUE] /\ UNCHANGED news
      BY <3>1, <3>4 DEF Core, ContextTypes
    <3> QED
      BY <2>8, <3>2, <3>3, <3>4 DEF Load
  <2>9. ASSUME NEW c \in Call, Reindex(c) PROVE LoadedIsPublished'
    BY <2>2, <2>9 DEF Reindex, Builds, Task
  <2>10. ASSUME NEW w \in Worker, PrepareGraph(w) PROVE LoadedIsPublished'
    <3>1. w \in Task /\ Builds(w, {"graph"}, {target}) /\ UNCHANGED ctx
      BY <2>10 DEF PrepareGraph, Builds, Task
    <3> QED
      BY <2>2, <3>1
  <2>11. ASSUME NEW w \in Worker,
                Enter(w) \/ Guard(w) \/ Prepared(w) \/ Cancelled(w) \/ Reported(w)
         PROVE  LoadedIsPublished'
    BY <2>1, <2>11 DEF Enter, Guard, Prepared, Cancelled, Reported, Index!Quit, index
  <2>12. CASE Open \/ End \/ Joined \/ Drain
    BY <2>1, <2>12 DEF Open, End, Joined, Drain, index
  <2>13. CASE Edit \/ Commit \/ OtherBegins \/ OtherLooks
    BY <2>1, <2>13 DEF Edit, Commit, OtherBegins, OtherLooks, Index!Change, Index!Begin,
                       Index!Look, Index!Drop, environment
  <2>14. CASE OtherEnds
    BY <2>1, <2>14 DEF OtherEnds, Index!Quit, environment
  <2> QED
    BY <2>3, <2>4, <2>5, <2>6, <2>7, <2>8, <2>9, <2>10, <2>11, <2>12, <2>13, <2>14
       DEF Next, CallStep, BuildStep
<1>3. Core /\ LoadedIsPublished /\ [Next]_vars => LoadedIsPublished'
  BY <1>2
<1> QED
  BY <1>1, <1>3, CoreHolds, PTL DEF Spec
=============================================================================

# A TLA+ model of CodeNib

CodeNib builds several *views* of a repository (BM25, vectors, a symbol graph, a
trigram index), records in a manifest which source each of them was built from, and
serves them over MCP while the repository is being edited and rebuilt. The modules
here model the code that keeps this truthful: the lock of the cache directory, the
compiler and its manifest, the server's background graph preparation, and the server's
calls that answer from what was indexed. Four more model the protocols around the index:
how a directory is replaced, how agents are registered, how one model serves many
requests, and how visitors' Wikis survive several processes. Paths are relative to `src/codenib/` unless they
begin with `src/`.

| module | what it is | code |
| --- | --- | --- |
| `AbstractLock` | the promise: at most one task is inside | `compiler_cache_lock`'s contract |
| `CacheLock` | flock on a named file, one system call a step | `compiler/cache_lock.py`, POSIX path |
| `IndexCompiler` | `compile_repo`, `update_repo`, the manifest, the builders' outcomes | `compiler/index_compiler.py`, `compiler/manifest.py` |
| `GraphWarmup` | the thread that prepares a graph for a connection | `mcp/graph_warmup.py`, `_compilation_process.py` |
| `AbstractIndex` | what users of a cache directory may rely on: a view is published as fresh only if the source was looked at again and had not moved | the contract of `compile_repo` and `update_repo` |
| `RetrievalServer` | one connection of the MCP server over `AbstractIndex` and `GraphWarmup` | `mcp/server.py`, `mcp/context.py`, `codegraph_preparation.py` |
| `DirectoryPublication` | a staged tree takes the place of a destination, one rename a step | `_atomic_directory.py` |
| `Registration` | init and uninstall over a receipt and the agents' own registrations | `codegraph_onboarding.py`, `cli.py` |
| `SingleFlight` | chat completions over one model: locks, cancelled requests, the bounded stream | `serving/server/api.py` |
| `VisitorWiki` | submit, run, stop and publish a visitor's Wiki in several processes | `wiki/visitor_wiki.py` |
| `MCIndexCompiler`, `MCRetrievalServer`, `MCDirectoryPublication` | values and symmetries for TLC; the other modules run directly | |
| `*_proofs` of the eight modules other than `AbstractLock` and `AbstractIndex` | theorems checked by TLAPS | |

`CacheLock` implements `AbstractLock`, `IndexCompiler` uses `AbstractLock` as its lock
(`Lock!Enter`, `Lock!Leave`), as does `Registration`; `GraphWarmup` implements it once more
for its builds, `SingleFlight` twice, for tokenizers and generations, `VisitorWiki` twice, for
its two guards, and `RetrievalServer` for the context lock: what the proofs
say of the lock is what its users rely on, and that they use it by its rules is proved too
(`CompilersLock`, `LockIsALock`). `RetrievalServer` takes
`GraphWarmup`'s actions as they are (`Warmup == INSTANCE GraphWarmup`) and the compiler as
`AbstractIndex`, which `IndexCompiler` is proved to implement; that all its steps are steps
of these two is proved as `UsesTheWarmup` and `UsesTheIndex`.

## The system

| part | state it keeps | operations | hard part |
| --- | --- | --- | --- |
| Cache lock | a lock file found by name, a directory found by name, descriptors, flock | acquire (create or borrow, block or poll), release, inherit by fork | names move between system calls; every error path must close what it opened |
| Index compiler | manifest, artifact directories | `compile_repo`, `update_repo` | the repository changes during a build, some builders overwrite the published artifact, processes die |
| Source binding (`source_fingerprint.py`) | a retained inventory of a checkout | capture, verify, poison, close | a capture is not atomic; a failed verification is final |
| MCP server (`mcp/server.py`, `mcp/context.py`) | the published context, the context lock | tool call, reload, refresh after an edit, lifespan | a call spans verification, query, verification; a reload replaces what a queued call captured |
| Graph warmup | state, target, thread, closed flag | start, wait, close | start races close; an unlimited wait under the server's lock |
| Explore ledger (`mcp/explore_session.py`) | ranges delivered on this connection | project, reset | pointers must name a call that delivered the text |
| Readers (`compiler/skill_context.py`, `web/repo_registry.py`) | none | verify, then load | no lock between the two |
| Onboarding (`codegraph_onboarding.py`) | a receipt per repository, the clients' own configuration | init, uninstall | two stores, no transaction |
| Serving (`serving/server/api.py`) | one generation lock, a bounded queue | full and streamed completion | a cancelled request does not stop its thread |
| Visitor Wikis (`wiki/visitor_wiki.py`) | saved attempts, requests, cancellations, two guards | submit, run, cancel, publish | several processes, dead owners, revisions |
| Clients (`clients/`) | message inbox, child processes | append, read, run | torn lines, pipes that outlive a child |
| Publication (`_atomic_directory.py`, `_owned_file_publication.py`) | directories being replaced | exchange, roll back, clean up | a failure after every system call |
| Everything else | indexes, decoders, prompts, evaluation, user interface | sequential transformations | not protocols |

The compiler is called by the command line and by the MCP server (`refresh_retrieval`,
`prepare_graph` in `codegraph_preparation.py`); both go through `compiler_cache_lock`.
The server loads under the same lock file, taken with `filelock` (`mcp/server.py:1348`).
The warmup's thread compiles without any lock of the server; it publishes through the
manifest, and the next call reloads. `PROJECT.json` lists every part with its status and
every hazard with its line.

What makes each part correct:

- *Lock*: one task inside, whatever happens to names while the lock is free; whoever is
  inside guards what a newcomer would open; nothing stays open; waiters get through.
- *Compiler*: a view called fresh was built from exactly the source the manifest names;
  a manifest always loads; `last_indexed` means every view; failures and second
  compilers neither lose nor misdescribe a view; updates converge.
- *Warmup*: one build at a time; nothing runs after close; close and waiters come back.
- *Publication*: no rename destroys a tree; undisturbed, all or nothing with one failure
  anywhere; what a success says of the previous tree stays true.
- *Registration*: what CodeNib registered is in the receipt after any interruption; what a
  user registered is the user's.
- *Serving*: one tokenizer and one generation at a time although requests are cancelled
  while their threads go on; a stream is whole; who leaves frees the locks.
- *Visitor Wikis*: what is saved is true after deaths and resumes; a complete Wiki is
  final; a stop reaches what was submitted before it, and nothing else.
- *Server*: no answer from a source that is not the indexed one at the end of the call;
  no call stuck behind another's build once the connection ends, and no build left behind;
  searches are answered again after an edit.

## CacheLock

A task is a thread of any process. One action is one system call with the tests that
follow it: `MakeDirectory`, `OpenDirectory`, `CheckDirectory`, then the open loop
(`StatEntry`, `CreateEntry` or `OpenEntry`, `NextRound`, at most `MaxOpens` rounds),
`CheckEntry`, the wait (`FlockBlocking`, or `FlockPolling` with `GiveUpPolling` and
`CheckGranted` when the caller passes `check_cancelled`), the second look at both names
(`RecheckEntry`, `RecheckDirectory`), the body, and the `finally` block (`Leave`, `Unlock`,
`Close`). `Crash` is the death of a process. `ReplaceEntry` and `ReplaceDirectory` are
other programs: they may move a name at any time while the lock of the file it leads to
is free, which is exactly what the docstring leaves them. The descriptor of a task is
named by the task because nested use by one thread is refused.

Run `lock`: a creating, blocking task and a borrowing, polling one, two directories, two
inodes and two rounds of the open loop, so that a file and its directory can each be
replaced under a waiter, and the number of a file that is gone can be handed out again.
The code has 8 rounds (`_LOCK_OPEN_RETRIES`) instead of two; the loop's body is the same
in each. No symmetry is used, because the run checks liveness too. A task may always try
again, so deadlock is checked. `ExistingOnlyCreatesNothing` (a caller with `create=False`
leaves no new file or directory) is proved only, as `BorrowersCreateNothing`.

Fairness: a started attempt keeps running (WF), and a blocking `flock` is queued by the
kernel and granted if the lock is free again and again (SF; a poller has no queue and no
such guarantee, so nothing is claimed for it). That bodies end is a premise of
`EveryWaiterIsServed`, and no premise of `CancelledWaiterReturns`.

Proved for any number of tasks, directories and inodes (`CacheLock_proofs`): types,
mutual exclusion, `InsideGuardsTheName`, `NothingLeaks`, `ExistingOnlyCreatesNothing`,
the refinement of `AbstractLock`, and `WaitsForAWorker`: a task at the flock owns none, and the
owner it waits for is past it and has only checks, its body and its cleanup before it. This
is the part of `EveryWaiterIsServed` that needs no fairness. The inductive invariant adds to the properties which
descriptors are open at each label (`DescriptorInv`, `RoundInv`, `CreateInv`), that a lock is owned only through an open
descriptor at a label after `flock` (`OwnerInv`), and the state between the two second looks (`NameInv`): the
entry is rechecked first and stays the right one while the lock is owned, because names
of held files do not move, and only then the directory.

## IndexCompiler

A source is `[head, tree, sel]`: the commit git reports, the selected contents, the
selection policy. An artifact is what went into it: the set of trees its builder read
(more than one if the tree changed underneath), the policy and the builder's identity.
The manifest maps every view to an entry (fresh, stale, failed or absent) with the source
it claims and the artifact it describes. A compile is `Start` (takes the lock), `Load`,
`PeekHead`/`PeekTree` (only an update; may end here), `ReadHead`/`ReadTree` (the draft is
made: carried entries are demoted unless they match), per view `SkipView`, `ReuseView` or
`BeginBuild`, `ReadSource`, `StartWriting`, `MoveAside`, `BuildSucceeds` or `BuildFails`, then
`FinalHead`/`FinalTree`, `Save` and `Unlock`. `Abandon` is a death or an exception that is
not a builder's. `Edit` and `Commit` change the repository at any step. An in-place
builder destroys the published artifact in `StartWriting`; the others fill a stage and
publish it with the two renames of `DirectoryPublication`: `MoveAside` takes the previous
artifact out of the way (`aside`), `BuildSucceeds` puts the stage in its place. A failure
between the two may put the previous artifact back, or not; a death leaves none.

Abstractions: a fingerprint is one atomic reading of the tree and includes the policy's
digest (`source_fingerprint.py:2068`); the order in which requested views are built is
arbitrary; languages, capabilities, timestamps and the JSON form are left out; the
incremental path is left out because the compiler switches it off
(`index_compiler.py:412`); HEAD 0 is the empty string git leaves on a time-out. One budget,
`MaxFaults`, bounds failed builds, git time-outs and deaths together.

Runs: `compiler_one` is one compiler with two views, one written in place, an edit, a
commit and a fault at any points; `compiler_two` is the onboarding command (own policy,
both builders) and a server's refresh (inherited policy, an older builder of one view)
with an edit and a fault. Both start from no manifest, an unreadable one and a v1.1 one.
One edit suffices to separate a read before it from one after it, and one commit
separates HEAD from contents; a fault and its recovery need one fault. Both systems go
idle between compiles and may compile for ever, so deadlock is checked.

Fairness (`EventuallyCurrent`): a compile that runs keeps running, and somebody asks for an
update of all views again and again (SF, because a compile may be under way whenever
they ask). Edits, commits and faults end by their bounds.

Refinement (`ImplementsAbstractIndex`, `Promise`): a compile is an abstract job from the
fingerprint it builds for (`PeekTree` or `ReadTree` is `Begin`) to `Save`; the job's `fresh`
are the views that are still to be built or are fresh in the draft, which only shrinks
(`Drop`) until `FinalTree` (`Look`). The mapping sees of a source its contents only, and
nothing of a manifest before v1.2.

Proved for any compilers, views, policies, edits, commits and faults
(`IndexCompiler_proofs`): the types, every safety property of the two runs and the
refinement; `FreshIsHonest` assumes `Reverts = FALSE`. The inductive
invariant `IInv` consists of the types, `Shape` (what a job's locals are at each label),
`Alone` (only one compiler is past `Start`, from `AbstractLock`), `Kept` (the manifest is
still the one the compile loaded, which needs `Alone`), `DraftsOK` (what each label knows
of the draft: closed, complete, describing artifacts on disk or those the manifest
described), `Closed(manifest)` and `NothingRead`. For `FreshIsWhatItSays` a second
invariant `Honest` says that a draft's fresh entry either was taken from an honest
manifest or was built from trees read since the first fingerprint. If contents never
come back, an unchanged second fingerprint means that only one tree was read.

Three more theorems relate the manifest to the files. `CompilersLock`: the lock as the
module uses it is an `AbstractLock` over the compilers. `ArtifactsAreLostWhenCutOff`:
what the manifest describes is on disk or being replaced, and the one way out of this is
a death, or a failure that undoes nothing, in the middle of a replacement; a staged view
is in the middle only between the two renames, one written in place from its first write
to its last. `ManifestMatchesTheDisk`: until the first fault (a failed build, a death, git that does not
answer) the manifest describes exactly the artifacts on disk whenever nobody builds, and
the draft of a compile describes all but the one that is being replaced. On its own this
is not inductive, since a compile carries entries over from the manifest it loaded:
`Kept` says that this is still the one on disk, and `NothingRead` that a manifest that cannot be
read describes no artifact. The proofs assume only that no artifact a builder can make is
the value that stands for none (`NoArtifactAssumption`).

## GraphWarmup

A `with self._condition` block is one step (`Start`, `Wait`'s test, `Close`, `Report`); the
build (`Enter`, `PrepareEnds`, `PrepareIsCancelled`), `wait`'s sleep and `close`'s join are
outside. `_closed` and `_stop` are set together and are one variable. Worker names are
Thread objects; their number bounds how often a build starts. The build is only its
outcome and the promise of `run_compilation_process` that it polls its cancellation.

Run `warmup`: three callers, three threads, two fingerprints. Three threads allow two
restarts, which is what it takes to see a forced and an unforced one. Every caller may
have closed and nothing may be left to do, so deadlock is not checked.

Fairness: threads run, and a build reaches its next poll of the cancellation. No
fairness makes a build end by itself, which is the point of `CloseReturns` and
`NoWaitOutlivesClose`.

Proved for any callers, threads and fingerprints (`GraphWarmup_proofs`): types,
`RunningIsTheThread`, `ClosedIsQuiet` and the refinement of `AbstractLock`. Only the first of
the three assumes that `Thread.start` does not raise (`MayFailToStart = FALSE`). If it does,
`FailedStartIsFinal` says what follows: the warmup is `Stuck`, it stays so, no start builds
again and no unlimited wait returns; `ClosedIsQuiet` still holds.
The inductive invariant adds that a caller joins the thread that was remembered when it
closed, that no thread starts after that, and that no thread but the remembered one works
(`OnlyTheThread`).

## AbstractIndex and RetrievalServer

The state of a cache directory is the manifest (`published`: a source and the views fresh
there), who owns the compiler's lock (`inside`) and each owner's `job`: the source it read,
the views it hopes to publish as fresh, and whether it has looked at the source again.
`Begin` is an update's reading of the source, `Drop` a view that fails, `Look` the second
reading, after which nothing is fresh if the source moved (`index_compiler.py:497`), `Save`
the new manifest and `Quit` an end without one; the source may change between any two. The lock of a reload is the same lock (`Index!Begin(c, {})`).

A call runs in a thread and owns the context lock from `Acquire` to its end:

| step | code |
| --- | --- |
| `Refresh`, `Reload`, `Load`, `Warm` | `_refresh_local_context`: follow a manifest that differs from the loaded one, unless a build runs; the lock is tried once |
| `Prepare`, `Sleep`, `Wake`, `GiveUp`, `Awaited`, `Check` | `_prepare_explore_graph`, `_prepare_graph_for_call`: start a build for verified source, wait 5 s or without a limit, follow its manifest, verify again |
| `Verify`, `Deliver` | `indexed_query` around the tool |
| `Repair`, `Reindex`, `Reindexed` | `_refresh_edited_source`: wait up to 30 s for a build, update BM25 under `checkout_guard`, reload unconditionally, second attempt |
| `AskStatus`, `Report` | `get_manifest`, which does not wait for the lock |
| `Enter`, `Guard`, `PrepareGraph`, `Prepared`, `Cancelled`, `Reported` | the warmup's thread in `prepare_graph` |
| `Open`, `End`, `Joined`, `Drain` | `init_server` and the lifespan |
| `Edit`, `Commit`, `OtherBegins`, `OtherLooks`, `OtherEnds` | the file system, git, `codenib codegraph init` in another process |

Abstractions. A source is a text and a commit, a fingerprint is the text. `version` stands
for the inodes and times a source binding compares: every write changes it, also one that
restores the text (`_contained_source.py:491`). One comparison of the whole inventory is
one step; a failed one poisons the binding (`ctx.revoked`) for good. `news` says that the
manifest on disk differs from the loaded one. Two views stand for all: BM25 and the
symbol graph. A build in a language whose provider writes into the checkout (`blocking`)
leaves times changed. Time-outs may expire at any moment a build runs. The
number of Thread objects bounds the builds; a start past it is an error of the call.

Runs. `server_safe` has two calls (one may hold the lock while the other queues, or asks
for the status), two builds (a forced one after a failed one), all modes and kinds, an edit
and a commit. One edit can fall between any two readings; two texts let it be a rewrite
of the same one. `server_live` has one call and one build, which the liveness properties
are about, an edit and a fault: a failing builder, an update that raises, an I/O error in
a verification or in a load. Nothing is left to do after a connection has ended, so
deadlock is not checked. Texts, calls and builds are interchangeable in `server_safe`
(`Alike`); no symmetry is used for liveness.

Fairness: threads take their next step (WF of `CallStep`, of a build's entry, cancellation
and report, and of the lifespan); the context lock goes to each waiter that finds it free
again and again (SF of `Acquire` and `Drain`); another process's update ends. A build
is not fair: it may run for ever, and only its poll of the cancellation is promised
(`run_compilation_process`). So `ConnectionEnds` and `CallsEnd` rest on the order in
`_mcp_lifespan`: the warmup is closed before the context lock is taken.

Proved for any calls, builds, contents, modes and bounds (`RetrievalServer_proofs`):
`TypeOK`, `AnswersAreCurrent`, `EndLeavesNothingRunning`. The inductive invariant `Whole`
consists of the types, who owns which lock (`CallInv`, `JobOwnsLock`), `Binding` (a binding
that no write has overtaken describes the checkout's contents, and the call at its query
was verified against this very binding), the warmup's own `TypeOK` and
`RunningIsTheThread`, proved again for this instance, `EndJoins` (the end joins the thread
that was remembered when it closed) and `BuildInv` (a build past its guard is at work, and
owns the compiler's lock only while it indexes). `AnswersAreCurrent` then needs only that
the second verification compares versions: equal versions mean the same binding and the
same contents as at the first one.

Five theorems are about the composition. `UsesTheIndex` and `UsesTheWarmup`: every step of
the server, of its builds and of another process is a step of `AbstractIndex` or none, and of
`GraphWarmup` or none, so that what is proved of the two holds inside the server.
`CallsWorkAlone`: the context lock is an `AbstractLock` over the calls. `WaitsAreOrdered`
(`NoCircularWait`): a call that waits for the warmup owns the context lock and not the
compiler's, a call that owns the compiler's lock has the context lock already and sleeps on
nothing, and a build owns the compiler's lock only while it indexes; so the waits of
`ConnectionEnds` and `CallsEnd` always lead to somebody who can go on. `ContextFollowsManifest`: unless
there is `news`, the loaded context has the source and views of the manifest on disk, so a
call that finds no news does not work with an old index.

## DirectoryPublication

`_publish_staged_directory_with_authority` on the portable POSIX backend. Names are the
destination and each publisher's stage and hidden names; a tree is an inode and a
version, which is what an ownership token compares. A publisher captures its stage and
the destination, looks at both again (`Recheck`, `Refuse`), renames the destination to a
hidden name (`Claim`, `Unclaim` in its handler), authenticates it there (`CheckClaim`,
`RestoreClaim`), renames the stage into place (`PutInPlace`, `Probe` in its handler), checks
the new and the old tree and seals both. The handlers that undo are `Withdraw`,
`Quarantine`, `Unquarantine`, `Restore`, `Return`, `VerifyReturn` and `MoveSuspect`. A rename
succeeds, is refused because a name is free or taken, fails, or fails after the kernel has
moved the tree. `Edit`, `Put` and `TakeAway` are other programs, `Die` ends a process at any
step. A validator that raises, or a cancellation, is a failure of the step that calls it.

Run `publish`: two interchangeable publishers, one foreign tree, a destination that exists
or not, three acts of others and two failures or deaths. Two failures are a failing step
and a failing undo; three acts are a tree taken away, another put in its place and one of
them changed. A publication may end for good, so deadlock is not checked.

Proved for any publishers, trees and bounds: `NothingIsDestroyed`, `AllOrNothing`,
`ReceiptsAreTrue`, the types and `NothingStaysHidden`. The inductive invariant has four parts: every tree is under
at most one name (`Unique`); every change of a tree is an act, and a token without a tree is
that of a missing destination (`TokenInv`); from its last authentication on, the previous
tree stays under its hidden name (`KeptInv`); and, for a publisher that nobody has
disturbed, where each tree is at each step, and at which steps a failure must have
happened (`Where`, `AloneInv`). TLC checked it before it was proved.

`NothingStaysHidden` is about what is left behind, whatever others do and whatever failed: a
publication that was refused has moved nothing, and one that returned leaves of
its stage and hidden names only the previous tree, under the name it returned. Its
invariant (`LeftInv`) says for each step which of a publisher's own names may be taken; it is
inductive because only the publisher moves what is under these names.

The model also shows what the code does not promise. Two unlocked publishers can leave
the destination missing with every tree kept under a hidden name (each claims, each fails
to restore), and so does a death between the claim and the second rename; the callers
serialise publications with their own locks, and a reader finds no directory rather than
a wrong one. Left out: a second failure inside the handler of `CheckOld`'s own look, how a
tree is walked and hashed, the native owner and the Windows backend, the durable commit
callback and the erasing of owned directories.

## Registration

A command of a terminal is `init` (`Preflight`, then under the lock `EnterInit`, `Examine` for
each agent, `Pend`, and for each agent `Look`, `Add`, `Verify`, `Confirm`) or `uninstall`
(`EnterUninstall`, and for each agent `Review`, `Remove`, `Recheck`, `Forget`). `native` is what
each agent has under the server's name, changed through the agent's own program; `receipt`
says which agents CodeNib manages. `Abandon` is a death, or a call of another program that
fails or times out, at any step; since the child of a timed-out call is killed
(`subprocess.run`), a call that took effect and then failed is `Add` followed by `Abandon`.
`Edit` is a user. `made` and `theirs` are history: whose registration it is. A registration is the user's if it
appears while no command is at work and the receipt does not claim just this one;
CodeNib cannot know more either. One made while a command is at work belongs to nobody.

Run `registration`: two terminals, two agents, one server specification, one edit and one
fault. Two inits with different agents meet at the receipt; the edit falls between
`Preflight` and `EnterInit`, or between any two calls; the fault leaves a pending receipt with or without
its registration. A second specification would only be refused at `EnterInit`, which the
proof covers. Commands may always be given, so deadlock is checked.

Fairness: a command that was given runs to its end. `ReceiptsAreCleared` has the premise
that forced uninstalls get the lock again and again: with a bounded wait of 30 seconds
the code cannot promise that, and it need not. It has another, that from some time on no
`Review` finds an agent's program missing: that refusal (`cli.py:3220`) is not a fault of the
budget, `--force` does not help against it, and the receipt stays for as long as it lasts. An
init's agents were found by its preflight; one whose program goes away while it runs is an
`Abandon`.

Proved for any terminals, agents, servers, edits and faults: types, `OwnIsRecorded`,
`TheirsIsKept`, that the lock is an `AbstractLock` over whole commands (`LockIsALock`), that a
receipt names a server exactly as long as it names an agent (`ReceiptIsWhole`), that an `init`
that has visited its agents has configured each of them in the receipt, for its server
(`InitFinished`), and that an `uninstall` with all managed agents before it returns only
without a receipt, unless it dies, refuses or misses a program (`UninstallClears`). The inductive invariant says what the holder of the lock knows (`Holds`): its
copy of the receipt is the receipt; agents that were examined are not the user's; after
the pending receipt every chosen agent is in it; an agent is forgotten only when nothing
of CodeNib's is there. It is inductive because only the holder of the lock writes the
receipt, and edits during a command make no registration the user's.

## SingleFlight

A request is a coroutine: `Arrive`, `Tokenize`, `Tokenized`, then `Generate` and `Answer`, or for
a stream `Open`, `Opened`, `Get`, `Sent`, `Join`, `Close`. Steps between two awaits are one action.
Its tokenizing and its generation run in executor threads (`busy`) whose futures are done
later (`pending`, `FutureDone`). A request may be cancelled at every await (`LeaveQueue`,
`LeaveTokenizing`, `LeaveGeneration`, `LeaveJoin`) and a client may stop reading or leave while
the generator is suspended in a yield (`Drop`, `Finalize`); then the thread goes on until it
looks at its stop event, and `Unwind` leaves the release of the lock to the future.
`Produce`, `Enqueue` and `Stop` are the thread of a stream, which takes a slot of the queue
before it hands an item to the loop; `Land` is the loop's `put_nowait`.

Run `serving`: a stream of up to two deltas with the end markers through a queue of two
slots (three or four items, so that the queue fills), and two full completions, one of
which waits for the lock while another is cancelled. All requests may be over, so deadlock
is not checked. The module's types are proved only.

Fairness: the loop and the threads run, `max_new_tokens` ends a generation, `asyncio.Lock`
serves its waiters in turn (SF of `Acquire`). Clients owe nothing: `DepartedFreesTheLocks`
has no premise, and `AttentiveAreServed` only that nobody stays in a yield for ever.

Proved for any requests, slots and deltas: types, `StreamIsWhole` and `OneAtATime`, which is
two refinements of `AbstractLock`; further `DepartedIsOwed` (a lock whose request is gone will
be released by a pending future or by a generator that is still to be finalized),
`NoHoldAndWait` (who queues for a lock holds none) and `RoomToLand` (an item in flight never
meets a full queue). The inductive invariant says that a future that is not done
is awaited by its request or will release the lock itself, and that whoever owes a
release has the lock (`LockInv`), what each stage implies (`StageInv`), that taken, queued, flying and produced items are numbered in one
sequence, so that slots, items and queue never exceed the bound and `put_nowait` never
meets a full queue (`BridgeInv`), and that after the end marker nothing is produced
(`EndInv`).

## VisitorWiki

A submission (`Admit`, `Refuse`, `Create`, `Enqueue` and its failures) saves a request and starts
a thread; the thread's run takes GENERATION and, briefly, ADMISSION (`Begin`, `Skip`, `GiveUp`,
`MarkBusy`), goes over the pages (`Check`, `Generate`, `Publish`, `Note`, `Conclude`) and saves its
end (`Halt`, `Finish`). A stop reads the state and writes its cancel envelopes later
(`CancelRead`, `CancelWrite`), because runs save their progress under GENERATION alone.
`PublishWiki` and `UnpublishWiki` are the reader's page, `Close` and `Die` the end of a process,
which releases its file locks. Revisions tie a request to the state it was submitted
against. `recalled` is history: the submissions an accepted stop found, and those whose
envelope a stop wrote before it failed (`CancelFails` leaves any subset of them written).
`Check` is `check()` and the save of "running" in one step: a stop that comes between the two
does no more than one after the save, and "begins a page" means passing `check()`.
`cached` is what AgentWiki keeps. A page that is valid need not be kept: `_write_cache` logs
a failure of its store and the page is published all the same (`Generate`). The outline,
once made, is taken to be kept.

Run `wiki`: two processes, one Wiki of one page, two submissions in the same or in
different processes, any number of stops and publications, one death or failure of the
store anywhere. Two submissions are what it takes for one to be overtaken by the other,
resumed by it or stopped in its place. Submissions are finite, so deadlock is not checked.

Fairness: threads run, and lock waits and network calls are bounded; nobody has to come.

Proved for any processes, Wikis, submissions and pages: types, `StoredStateIsTrue`,
`NoStopIsInherited`, `CompleteIsFinal`, `StopIsHeeded`; that the runs, and the submissions and
stops, of all processes implement `AbstractLock` (`OneRunAtATime`, `OneAdmissionAtATime`); that a
Wiki a process calls active is being submitted or run there, in no more than `SourceSlots`
slots (`NoSlotIsLost`); and that a ready page stays ready over resumes, stops and deaths,
unless AgentWiki did not keep it: then a run that comes to this page sets it to "running" to
generate it again, and its readers have the saved page meanwhile (`ReadyIsKept`). The inductive invariant says who holds
which guard and what a run knows at each stage (`RunInv`), that a saved "running", "ready" or
published state has its cause (`DocInv`), that a waiting request knows the revision of its
Wiki or an older one, and never the one at which the Wiki is complete (`PendInv`), and that
what a stop has read covers the run in progress and the current request (`StopInv`).

One thing the model shows: the provider is made, and the first progress saved, outside
the inner `try`; a failure there leaves "running" saved with no run (`ConnectFails`). Status,
resume and stop cope with it, since the next submission gets GENERATION and overwrites it.

## What the code does differently from what it says

| run | statement | what happens |
| --- | --- | --- |
| `server_prebuilt` | "Run `codenib codegraph init` for this repository and retry; this MCP connection reloads rebuilt indexes." (`mcp/context.py:463`) | a file saved again with its old contents poisons the source binding; `codegraph init` finds the contents unchanged and writes no manifest; without `--defer-graph` the connection reloads only a changed manifest, so every later query fails |
| `server_edits` | "Edits do not stop the server. When source has changed, the next query re-indexes retrieval for the current checkout" (`src/docs/codegraph.md:126`) | an edit after `prepare_graph` has compared the source and before `update_repo` reads it: the build publishes the new source with a graph and a stale BM25 and fails only then; the server reloads this manifest, finds its source current, and search stays unavailable |

More differences are not runs of their own:

- "*force* rebuilds whenever nothing is running" (`graph_warmup.py:110`): if `Thread.start` raises,
  the state stays `running` with no thread, no later start builds, and an unlimited wait
  never returns. With `MayFailToStart = TRUE` the run `warmup` violates `RunningIsTheThread`, and
  `FailedStartIsFinal` proves that nothing gets the warmup out of this state.
- "affected requested views rebuild atomically" (`src/docs/codegraph.md:270`): BM25 and the
  symbol graph are overwritten in place; a process that dies there leaves a manifest that
  calls the torn artifact fresh, and after a forced compile the next update reports
  nothing to do. Readers that check the recorded fingerprints refuse it. The views that
  are built in a stage have a smaller window of the same kind: a death, or an undo that
  fails, between the two renames of the publication leaves no artifact where the manifest
  describes one (the previous tree is kept under its hidden name, see
  `DirectoryPublication`). It takes a fault (`ManifestMatchesTheDisk`), in just these places
  (`ArtifactsAreLostWhenCutOff`).
- `_entry_matches_source`, "built from the exact current repository source"
  (`index_compiler.py:616`): an edit that is undone before the second fingerprint is not
  noticed, although a builder may have read it (`Reverts = TRUE`).

Two smaller ones: `update_repo` "returns the existing
manifest untouched when HEAD has not moved" (`index_compiler.py:158`) but also compares
contents, policy and builder; `graph_warmup.py:18` says that a failure stays recorded until
the source changes, but a forced start, which every explicit graph tool uses, builds again.
`src/docs/mcp.md:238` ("Changed source is never silently rebuilt by a query") and
`src/docs/codegraph.md:126` contradict each other for deferred connections.

## Proved, model-checked, left out

Proofs cover every value of the constants within each specification, bounds included.
Only model-checked: the liveness properties, since fairness and `ENABLED` are out of the prover's
reach. What no schedule can make up for is proved of some of them:

| model-checked | proved of it |
| --- | --- |
| `EveryWaiterIsServed` | `WaitsForAWorker`: the owner of the lock does not wait |
| `ConnectionEnds`, `CallsEnd` | `NoCircularWait` |
| `NoWaitOutlivesClose` | `FailedStartIsFinal`: its one exception |
| `DepartedFreesTheLocks` | `DepartedIsOwed`: somebody will release |
| `ReceiptsAreCleared` | `UninstallClears`: what a run to the end leaves |

Only proved: the type invariants that no run lists, `ExistingOnlyCreatesNothing`, and the
properties that stand in the `*_proofs` modules next to their theorems, such as
`WaitsForAWorker` or `ReadyIsKept`. `LostWhenCutOff`, `ReadyIsKept`,
`OnDiskUntilAFault` and `NothingStaysHidden`, with the invariants they needed, were tried with TLC
on the constants of the runs (`ReadyIsKept` with two pages) before they were proved. A definition
marked "Broken on purpose" is a plausible bug, used to confirm that a property would
notice it; no specification uses it.

## Not modelled

`PROJECT.json` names every part with its status. The reasons, by group:

- *Bytes and text*: indexes, decoders, chunkers, archive formats, prompts, rankers and the
  wiki's outline are functions of their input without steps in between; a model would
  repeat them. They are most of the code.
- *External programs*: language servers, SCIP indexers, models, GitHub and the agents decide
  what comes back; the modules take their answers as arbitrary.
- *Platforms*: the Windows paths of the lock and of the publication, and the native
  workspace owner, use other primitives under the same interfaces.
- *User interface, evaluation, deployment*: no protocol of their own.

Hazards without a property are listed with a note in `PROJECT.json`. They need state none of
the modules has: descriptor tables and fork for the lock (`cache_lock.py:374`), several
connections over one warmup (`mcp/server.py:158`), readers that verify and then load without
the lock (`compiler/skill_context.py:857`), the commit window's cache, the message inbox, the
explore ledger and the process runner.

## Plan

In this order: `UnlockedReader` (verify, then load, against `IndexCompiler`'s writers);
`CacheLockFork`; overlapping connections in `RetrievalServer`; `ExploreLedger` (pointers
are to delivered text, under the response budget and LRU eviction); `MessageInbox` (a torn
line and the next writer); leases of the repository registry and the commit window.
Theorems worth proving there: a reader never loads what it has not verified, or the
exact premise under which it does; a ledger's pointers are to delivered text.

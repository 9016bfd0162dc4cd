---------------------------- MODULE IndexCompiler ----------------------------
(***************************************************************************)
(* codenib/compiler/index_compiler.py: compile_repo and update_repo turn a *)
(* repository into a cache directory of views (bm25, vector, symbol_graph, *)
(* zoekt) and a manifest that says which source every view was built from. *)
(* The repository is edited and committed to while a compile runs, builds  *)
(* fail, processes die, and some builders write over the artifact the      *)
(* manifest on disk still describes.  The others publish a stage, by the   *)
(* two renames of DirectoryPublication.                                    *)
(*                                                                         *)
(* A source is named by [head, tree, sel]: the commit git reports, the     *)
(* selected contents and the selection policy (source_fingerprint and      *)
(* source_selection_digest are functions of tree and sel).  An artifact is *)
(* what went into it: the trees its builder read, the policy, and the      *)
(* builder's artifact_identity; its file fingerprints, recorded in the     *)
(* entry's config, are a digest of that, so an entry's "made" stands for   *)
(* both.  HEAD 0 is the empty string: no commit yet, or git did not answer *)
(* in time.  compiler_cache_lock is AbstractLock, which CacheLock          *)
(* implements; a fingerprint is one atomic reading of the tree.            *)
(***************************************************************************)
EXTENDS Naturals

CONSTANTS
  View,         \* index types
  InPlace,      \* those whose builder writes over the previous artifact
  Compiler,     \* processes that compile this cache
  Selection,    \* repository source selections
  Default,      \* DEFAULT_REPOSITORY_SOURCE_SELECTION
  Inherit,      \* config.source_selection is None
  Registered,   \* views each compiler has a builder for
  Chosen,       \* each compiler's config.source_selection
  Identity,     \* artifact_identity() of each compiler's builders
  NoSource, NoArtifact, NoView,
  Reverts,      \* whether an edit may bring earlier contents back
  MaxEdits, MaxCommits, MaxFaults

ASSUME ViewAssumption == InPlace \subseteq View /\ NoView \notin View
ASSUME SelectionAssumption == Default \in Selection /\ Inherit \notin Selection
ASSUME ConfigAssumption ==
  /\ Registered \in [Compiler -> SUBSET View]
  /\ Chosen \in [Compiler -> Selection \cup {Inherit}]
  /\ Identity = [c \in Compiler |-> Identity[c]]
ASSUME RevertAssumption == Reverts \in BOOLEAN
ASSUME BoundAssumption ==
  MaxEdits \in Nat /\ MaxCommits \in Nat /\ MaxFaults \in Nat

VARIABLES
  head, tree, edits,    \* the repository, and how often it was edited
  manifest, artifact,   \* the cache directory
  holders,              \* who is inside compiler_cache_lock
  pc, job,              \* each compiler's next step and local variables
  faults                \* failed builds and deaths so far

repository == <<head, tree, edits>>
cache == <<manifest, artifact>>
vars == <<head, tree, edits, manifest, artifact, holders, pc, job, faults>>

Lock == INSTANCE AbstractLock WITH Task <- Compiler, inside <- holders

NoHead == 0
Tree == 0 .. MaxEdits
Source == [head : 0 .. MaxCommits, tree : Tree, sel : Selection]
LegacySource == [head : 0 .. MaxCommits, tree : Tree, sel : {Inherit}]
Made == [reads : SUBSET Tree, sel : Selection, by : {Identity[c] : c \in Compiler}]
ASSUME NoArtifactAssumption == NoArtifact \notin Made

\* IndexEntry; "absent" stands for a key missing from manifest.indexes.
Entry ==
  [status : {"fresh", "stale"}, source : Source \cup LegacySource, made : Made]
  \cup
  [status : {"absent", "failed"}, source : Source \cup LegacySource \cup {NoSource},
   made : Made \cup {NoArtifact}]
NoEntry == [status |-> "absent", source |-> NoSource, made |-> NoArtifact]

\* RepoManifest; v1.1 has no source selection, written Inherit.
Manifest ==
  [format : {"v1.2"}, source : Source, last : Source \cup {NoSource},
   entries : [View -> Entry]]
  \cup
  [format : {"absent", "unreadable", "v1.1"}, source : LegacySource \cup {NoSource},
   last : LegacySource \cup {NoSource}, entries : [View -> Entry]]
NoManifest == [format |-> "absent", source |-> NoSource, last |-> NoSource,
               entries |-> [v \in View |-> NoEntry]]

Label == {"idle", "load", "peekHead", "peekTree", "readHead", "readTree", "build",
          "reading", "writing", "publishing", "finalTree", "save", "unlock"}

\* The stages of a builder: it reads, writes the artifact in place or in a stage, and
\* has moved the previous artifact aside to publish the stage.
Building == {"reading", "writing", "publishing"}

\* The locals of compile_repo / update_repo, _compile and a publication.
Job == [force : BOOLEAN, update : BOOLEAN, todo : SUBSET View,
        existing : Manifest, sel : Selection, head : 0 .. MaxCommits, tree : Tree,
        draft : Manifest, building : View \cup {NoView}, reads : SUBSET Tree,
        aside : Made \cup {NoArtifact},
        moved : BOOLEAN, succeeded : BOOLEAN]
NoJob == [force |-> FALSE, update |-> FALSE, todo |-> {},
          existing |-> NoManifest, sel |-> Default, head |-> 0, tree |-> 0,
          draft |-> NoManifest, building |-> NoView, reads |-> {}, aside |-> NoArtifact,
          moved |-> FALSE, succeeded |-> TRUE]

\* Types; whoever is past the lock's acquisition holds it; a build has a view.
TypeOK ==
  /\ head \in 0 .. MaxCommits /\ tree \in Tree /\ edits \in 0 .. MaxEdits
  /\ manifest \in Manifest
  /\ artifact \in [View -> Made \cup {NoArtifact}]
  /\ holders = {c \in Compiler : pc[c] # "idle"}
  /\ pc \in [Compiler -> Label]
  /\ job \in [Compiler -> Job]
  /\ \A c \in Compiler : pc[c] \in Building => job[c].building \in View
  /\ faults \in 0 .. MaxFaults
-----------------------------------------------------------------------------
Readable(m) == m.format \in {"v1.1", "v1.2"}

\* existing_has_current_selection_identity
HasSelection(m) == m.format = "v1.2"

SelectionFor(c, m) ==
  IF Chosen[c] # Inherit THEN Chosen[c]
  ELSE IF HasSelection(m) THEN m.source.sel ELSE Default

MatchesSource(entry, source) == entry.status = "fresh" /\ entry.source = source

MatchesBuilder(c, v, entry) ==
  v \in Registered[c] => entry.made.by = Identity[c]

LastIndexed(m) == IF HasSelection(m) THEN m.last ELSE NoSource

Demoted(entry) ==
  IF entry.status = "fresh" THEN [entry EXCEPT !.status = "stale"] ELSE entry

Present(m) == {v \in View : m.entries[v].status # "absent"}

\* RepoManifest.__post_init__: a fresh view without a commit takes the manifest's.
Filled(entry, source) ==
  IF entry.status = "fresh" /\ entry.source.head = NoHead /\ source.sel = Default
  THEN [entry EXCEPT !.source.head = source.head] ELSE entry

\* Broken on purpose: carry every entry as it was.
CarriedAsItWas(entry, source) == Filled(entry, source)

CarriedEntry(entry, source) ==
  IF MatchesSource(Filled(entry, source), source) THEN Filled(entry, source)
  ELSE Demoted(Filled(entry, source))

\* The entries a compile starts from: nothing stays fresh that was built from
\* another source, or under a manifest that did not record its selection.
Carried(m, source) ==
  [v \in View |-> IF HasSelection(m) THEN CarriedEntry(m.entries[v], source)
                  ELSE Demoted(m.entries[v])]

Draft(m, source) ==
  [format |-> "v1.2", source |-> source, last |-> LastIndexed(m),
   entries |-> Carried(m, source)]

\* _validate_v12_source_closure, run by save and by load (a fingerprint covers
\* its selection, so last indexed at the same fingerprint is the same source).
Closed(m) ==
  HasSelection(m) =>
    \A v \in View : m.entries[v].status = "fresh" => m.entries[v].source = m.source
-----------------------------------------------------------------------------
Go(c, l) == pc' = [pc EXCEPT ![c] = l]
At(c, l) == pc[c] = l
Locals(c, j) == job' = [job EXCEPT ![c] = j]

JobSource(c) == [head |-> job[c].head, tree |-> job[c].tree, sel |-> job[c].sel]

\* Broken on purpose: the lock is not waited for.
StartAnyway(c) ==
  /\ At(c, "idle")
  /\ holders' = {c}
  /\ \E update \in BOOLEAN, wanted \in SUBSET View \ {{}} :
       Locals(c, [NoJob EXCEPT !.update = update, !.todo = wanted])
  /\ Go(c, "load")
  /\ UNCHANGED <<repository, cache, faults>>

\* compile_repo or update_repo is called and takes the cache lock.
Start(c) ==
  /\ At(c, "idle")
  /\ Lock!Enter(c)
  /\ \E update \in BOOLEAN, wanted \in SUBSET View \ {{}} :
       Locals(c, [NoJob EXCEPT !.update = update, !.todo = wanted])
  /\ Go(c, "load")
  /\ UNCHANGED <<repository, cache, faults>>

\* Broken on purpose: a forced compile starts from nothing.
ExistingForUpdate(c) ==
  IF job[c].update /\ Readable(manifest) THEN manifest ELSE NoManifest

\* _load_existing_manifest: one that cannot be read counts as none.
Existing(c) == IF Readable(manifest) THEN manifest ELSE NoManifest

Load(c) ==
  LET found == Existing(c)
      force == ~job[c].update \/ ~Readable(manifest) IN
  /\ At(c, "load")
  /\ Locals(c, [job[c] EXCEPT !.existing = found, !.sel = SelectionFor(c, found),
                              !.force = force])
  /\ Go(c, IF force THEN "readHead" ELSE "peekHead")
  /\ UNCHANGED <<repository, cache, holders, faults>>

\* git rev-parse HEAD, with a timeout of five seconds.
GitSays(h) ==
  \/ h = head /\ faults' = faults
  \/ h = NoHead /\ head # NoHead /\ faults < MaxFaults /\ faults' = faults + 1

\* _update_repo_locked reads HEAD and the fingerprint to see what is missing.
PeekHead(c) ==
  /\ At(c, "peekHead")
  /\ \E h \in 0 .. MaxCommits :
       GitSays(h) /\ Locals(c, [job[c] EXCEPT !.head = h])
  /\ Go(c, "peekTree")
  /\ UNCHANGED <<repository, cache, holders>>

\* Broken on purpose: compare the commit only.
UpToDateAtHead(c, v, source) ==
  LET entry == job[c].existing.entries[v] IN
  entry.status = "fresh" /\ entry.source.head = source.head

UpToDate(c, v, source) ==
  LET entry == job[c].existing.entries[v] IN
  MatchesSource(entry, source) /\ MatchesBuilder(c, v, entry)

PeekTree(c) ==
  LET source == [JobSource(c) EXCEPT !.tree = tree] IN
  /\ At(c, "peekTree")
  /\ Locals(c, [job[c] EXCEPT !.tree = tree])
  /\ Go(c, IF \A v \in job[c].todo : UpToDate(c, v, source)
           THEN "unlock" ELSE "readHead")
  /\ UNCHANGED <<repository, cache, holders, faults>>

\* _compile reads HEAD again; an update hands it the fingerprint it has.
ReadHead(c) ==
  /\ At(c, "readHead")
  /\ \E h \in 0 .. MaxCommits :
       LET source == [JobSource(c) EXCEPT !.head = h] IN
       /\ GitSays(h)
       /\ Locals(c, [job[c] EXCEPT !.head = h,
                                   !.draft = Draft(job[c].existing, source)])
  /\ Go(c, IF job[c].force THEN "readTree" ELSE "build")
  /\ UNCHANGED <<repository, cache, holders>>

ReadTree(c) ==
  LET source == [JobSource(c) EXCEPT !.tree = tree] IN
  /\ At(c, "readTree")
  /\ Locals(c, [job[c] EXCEPT !.tree = tree,
                              !.draft = Draft(job[c].existing, source)])
  /\ Go(c, "build")
  /\ UNCHANGED <<repository, cache, holders, faults>>
-----------------------------------------------------------------------------
Drafted(c, v) == job[c].draft.entries[v]
Redrafted(c, v, entry) ==
  [job[c].draft EXCEPT !.entries = [@ EXCEPT ![v] = entry]]

Reusable(c, v) ==
  /\ ~job[c].force
  /\ MatchesSource(Drafted(c, v), JobSource(c))
  /\ MatchesBuilder(c, v, Drafted(c, v))

\* No builder is registered: a forced compile gives the old entry up.
SkipView(c, v) ==
  LET entry == Drafted(c, v)
      given == IF job[c].force /\ entry.status # "absent"
               THEN [entry EXCEPT !.status = "failed"] ELSE entry IN
  /\ At(c, "build") /\ v \in job[c].todo \ Registered[c]
  /\ Locals(c, [job[c] EXCEPT !.todo = @ \ {v}, !.succeeded = FALSE,
                              !.draft = Redrafted(c, v, given)])
  /\ UNCHANGED <<repository, cache, holders, pc, faults>>

ReuseView(c, v) ==
  /\ At(c, "build") /\ v \in job[c].todo \cap Registered[c]
  /\ Reusable(c, v)
  /\ Locals(c, [job[c] EXCEPT !.todo = @ \ {v}])
  /\ UNCHANGED <<repository, cache, holders, pc, faults>>

\* _build_one: the builder reads the repository while it may change.
BeginBuild(c, v) ==
  /\ At(c, "build") /\ v \in job[c].todo \cap Registered[c]
  /\ ~Reusable(c, v)
  /\ Locals(c, [job[c] EXCEPT !.building = v, !.reads = {tree}])
  /\ Go(c, "reading")
  /\ UNCHANGED <<repository, cache, holders, faults>>

ReadSource(c) ==
  /\ pc[c] \in {"reading", "writing"} /\ tree \notin job[c].reads
  /\ Locals(c, [job[c] EXCEPT !.reads = @ \cup {tree}])
  /\ UNCHANGED <<repository, cache, holders, pc, faults>>

\* An in-place builder opens the artifact's files for writing; the others
\* fill a stage directory.
StartWriting(c) ==
  /\ At(c, "reading")
  /\ artifact' = [v \in View |-> IF v = job[c].building /\ v \in InPlace
                                 THEN NoArtifact ELSE artifact[v]]
  /\ Go(c, "writing")
  /\ UNCHANGED <<repository, manifest, holders, job, faults>>

\* OwnedDirectoryStage.publish takes an artifact that is in the way out of it first.
MoveAside(c) ==
  LET v == job[c].building IN
  /\ At(c, "writing") /\ v \notin InPlace /\ artifact[v] # NoArtifact
  /\ artifact' = [artifact EXCEPT ![v] = NoArtifact]
  /\ Locals(c, [job[c] EXCEPT !.aside = artifact[v]])
  /\ Go(c, "publishing")
  /\ UNCHANGED <<repository, manifest, holders, faults>>

Built(c) == [reads |-> job[c].reads, sel |-> job[c].sel, by |-> Identity[c]]

\* The last write, or the rename of the stage, puts the artifact in its place.
InPosition(c, v) ==
  \/ At(c, "publishing")
  \/ At(c, "writing") /\ (v \in InPlace \/ artifact[v] = NoArtifact)

\* The view is written, or its stage published, and is fresh in the draft.
BuildSucceeds(c) ==
  LET v == job[c].building
      entry == [status |-> "fresh", source |-> JobSource(c), made |-> Built(c)] IN
  /\ InPosition(c, v)
  /\ artifact' = [artifact EXCEPT ![v] = Built(c)]
  /\ Locals(c, [job[c] EXCEPT !.todo = @ \ {v}, !.building = NoView, !.reads = {},
                              !.aside = NoArtifact, !.draft = Redrafted(c, v, entry)])
  /\ Go(c, "build")
  /\ UNCHANGED <<repository, manifest, holders, faults>>

\* Broken on purpose: a failed attempt reports the generation it tried to build.
FailedAsTried(c, entry) ==
  [status |-> "failed", source |-> JobSource(c), made |-> Built(c)]

\* A failed attempt keeps what describes the last produced artifact.
Failed(c, entry) == [entry EXCEPT !.status = "failed"]

\* The builder raises, possibly after the artifact is complete
\* (_validate_build_selection).  A publication that fails puts the previous artifact
\* back, if that does not fail as well.
BuildFails(c) ==
  LET v == job[c].building
      entry == Failed(c, job[c].existing.entries[v]) IN
  /\ pc[c] \in Building /\ faults < MaxFaults
  /\ faults' = faults + 1
  /\ \/ artifact' = artifact
     \/ InPosition(c, v) /\ artifact' = [artifact EXCEPT ![v] = Built(c)]
     \/ At(c, "publishing") /\ artifact' = [artifact EXCEPT ![v] = job[c].aside]
  /\ Locals(c, [job[c] EXCEPT !.todo = @ \ {v}, !.building = NoView, !.reads = {},
                              !.aside = NoArtifact, !.succeeded = FALSE,
                              !.draft = Redrafted(c, v, entry)])
  /\ Go(c, "build")
  /\ UNCHANGED <<repository, manifest, holders>>
-----------------------------------------------------------------------------
FinalHead(c) ==
  /\ At(c, "build") /\ job[c].todo = {}
  /\ \E h \in 0 .. MaxCommits :
       GitSays(h) /\ Locals(c, [job[c] EXCEPT !.moved = h # job[c].head])
  /\ Go(c, "finalTree")
  /\ UNCHANGED <<repository, cache, holders>>

\* Broken on purpose: only HEAD is read again.
MovedByHead(c) == job[c].moved

\* source_changed_during_build
Moved(c) == job[c].moved \/ tree # job[c].tree

\* Broken on purpose: unrequested views are forgotten.
AllAtHeadOfRequested(entries, source) ==
  \E v \in View : MatchesSource(entries[v], source)

\* all_views_at_head
AllAtHead(entries, source) ==
  LET present == {v \in View : entries[v].status # "absent"} IN
  present # {} /\ \A v \in present : MatchesSource(entries[v], source)

\* The source is read again; only if nothing moved may a view be published as
\* fresh, and only if every view got there is the source last_indexed.
FinalTree(c) ==
  LET entries == [v \in View |-> IF Moved(c) THEN Demoted(Drafted(c, v))
                                 ELSE Drafted(c, v)]
      last == IF job[c].succeeded /\ ~Moved(c) /\ AllAtHead(entries, JobSource(c))
              THEN JobSource(c) ELSE LastIndexed(job[c].existing) IN
  /\ At(c, "finalTree")
  /\ Locals(c, [job[c] EXCEPT
       !.draft = [@ EXCEPT !.entries = entries, !.last = last]])
  /\ Go(c, "save")
  /\ UNCHANGED <<repository, cache, holders, faults>>

\* One os.replace; to_dict raises on a manifest that is not closed.
Save(c) ==
  /\ At(c, "save")
  /\ manifest' = IF Closed(job[c].draft) THEN job[c].draft ELSE manifest
  /\ Go(c, "unlock")
  /\ UNCHANGED <<repository, artifact, holders, job, faults>>

Unlock(c) ==
  /\ At(c, "unlock")
  /\ Lock!Leave(c)
  /\ Locals(c, NoJob)
  /\ Go(c, "idle")
  /\ UNCHANGED <<repository, cache, faults>>

\* The process dies, or what it calls raises past _compile (CompilationCancelled,
\* an unreadable source): nothing is saved and the kernel or the "with" unlocks.
Abandon(c) ==
  /\ ~At(c, "idle") /\ faults < MaxFaults
  /\ faults' = faults + 1
  /\ Lock!Leave(c)
  /\ Locals(c, NoJob)
  /\ Go(c, "idle")
  /\ UNCHANGED <<repository, cache>>
-----------------------------------------------------------------------------
\* The working tree is edited: to contents never seen before, unless Reverts.
Edit ==
  /\ edits < MaxEdits
  /\ edits' = edits + 1
  /\ tree' \in IF Reverts THEN 0 .. edits + 1 ELSE {edits + 1}
  /\ tree' # tree
  /\ UNCHANGED <<head, cache, holders, pc, job, faults>>

Commit ==
  /\ head < MaxCommits
  /\ head' = head + 1
  /\ UNCHANGED <<tree, edits, cache, holders, pc, job, faults>>

\* A first index; a manifest nobody can read; a v1.1 one that is up to date.
Legacy(made) ==
  LET source == [head |-> 0, tree |-> 0, sel |-> Inherit] IN
  [format |-> "v1.1", source |-> source, last |-> source,
   entries |-> [v \in View |-> [status |-> "fresh", source |-> source,
                                made |-> made]]]

Init ==
  /\ head = 0 /\ tree = 0 /\ edits = 0
  /\ \/ /\ manifest \in {NoManifest, [NoManifest EXCEPT !.format = "unreadable"]}
        /\ artifact = [v \in View |-> NoArtifact]
     \/ \E c \in Compiler :
          LET made == [reads |-> {0}, sel |-> Default, by |-> Identity[c]] IN
          manifest = Legacy(made) /\ artifact = [v \in View |-> made]
  /\ holders = {}
  /\ pc = [c \in Compiler |-> "idle"]
  /\ job = [c \in Compiler |-> NoJob]
  /\ faults = 0

Step(c) ==
  \/ Load(c) \/ PeekHead(c) \/ PeekTree(c) \/ ReadHead(c) \/ ReadTree(c)
  \/ \E v \in View : SkipView(c, v) \/ ReuseView(c, v) \/ BeginBuild(c, v)
  \/ StartWriting(c) \/ MoveAside(c) \/ BuildSucceeds(c)
  \/ FinalHead(c) \/ FinalTree(c) \/ Save(c) \/ Unlock(c)

Next ==
  \/ \E c \in Compiler :
       Start(c) \/ Step(c) \/ ReadSource(c) \/ BuildFails(c) \/ Abandon(c)
  \/ Edit \/ Commit

Spec == Init /\ [][Next]_vars

-----------------------------------------------------------------------------
\* The compile knows what to build and has not saved or given up.
Compiling(c) ==
  \/ At(c, "readHead") /\ ~job[c].force
  \/ pc[c] \in {"build", "finalTree", "save"} \cup Building

FreshIn(m) == {v \in View : m.entries[v].status = "fresh"}

\* Views that are fresh in the draft, or may be when their turn comes.
Hoped(c) == IF At(c, "readHead") THEN View ELSE job[c].todo \cup FreshIn(job[c].draft)

\* What AbstractIndex sees of a compile, and of the manifest: of a source its
\* contents, and of a manifest that names no selection nothing.
Aim(c) ==
  IF Compiling(c)
  THEN [source |-> job[c].tree, fresh |-> Hoped(c), looked |-> At(c, "save")]
  ELSE NoJob

Published ==
  IF HasSelection(manifest)
  THEN [source |-> manifest.source.tree, fresh |-> FreshIn(manifest)]
  ELSE [source |-> NoSource, fresh |-> {}]

Promise ==
  INSTANCE AbstractIndex
    WITH Task <- Compiler, Source <- Tree \cup {NoSource}, source <- tree,
         published <- Published, inside <- {c \in Compiler : Compiling(c)},
         job <- [c \in Compiler |-> Aim(c)]
-----------------------------------------------------------------------------
\* Whoever works on the index asks for an update of every view again and again,
\* and a compile that has the lock keeps running.
AsksForAll(c) == Start(c) /\ job'[c].update /\ job'[c].todo = View

FairSpec ==
  /\ Spec
  /\ \A c \in Compiler : WF_vars(Step(c)) /\ SF_vars(AsksForAll(c))
-----------------------------------------------------------------------------
\* A view published as fresh was built from the named contents, all of it and
\* nothing else, under the named policy, however the repository was edited
\* while it was built (if earlier contents never come back: Reverts).
FreshIsWhatItSays ==
  \A v \in View : LET entry == manifest.entries[v] IN
    HasSelection(manifest) /\ entry.status = "fresh" =>
      entry.made.reads = {entry.source.tree} /\ entry.made.sel = entry.source.sel

\* No compile ends in a manifest that save refuses or the next load rejects.
ManifestsLoad ==
  /\ Closed(manifest)
  /\ \A c \in Compiler : pc[c] = "save" => Closed(job[c].draft)

\* last_indexed moves only to a source that every view of the manifest reached,
\* requested or not.
LastIndexedIsWhole ==
  [][manifest'.last \notin {manifest.last, NoSource} =>
       /\ manifest'.last = manifest'.source
       /\ \A v \in Present(manifest') :
            MatchesSource(manifest'.entries[v], manifest'.last)]_vars

\* When an entry starts to describe another artifact, that artifact is on disk:
\* no second compile has overwritten it in between.
PublishedViewsAreOnDisk ==
  [][\A v \in View : manifest'.entries[v].made # manifest.entries[v].made =>
       manifest'.entries[v].made = artifact[v]]_vars

\* A failed view goes on describing the artifact it described before.
FailureKeepsTheEntry ==
  [][\A v \in View :
       Readable(manifest) /\ manifest'.entries[v].status = "failed" =>
         manifest'.entries[v].made = manifest.entries[v].made]_vars

\* Views nobody asked for stay in the manifest, whatever is built beside them.
NoViewIsForgotten ==
  [][Readable(manifest) => Present(manifest) \subseteq Present(manifest')]_vars

\* Once edits, commits and faults end, every view is fresh at the source.
EventuallyCurrent ==
  <>[](\A v \in View : \E sel \in Selection :
         MatchesSource(manifest.entries[v],
                       [head |-> head, tree |-> tree, sel |-> sel]))

\* A compile does what the users of a cache directory rely on: it publishes views
\* as fresh only if it looked at the source again and found it unchanged, and
\* only those it set out with and did not lose on the way.
ImplementsAbstractIndex == Promise!Spec
=============================================================================

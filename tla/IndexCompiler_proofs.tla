------------------------ MODULE IndexCompiler_proofs ------------------------
(***************************************************************************)
(* Theorems about IndexCompiler for any views, compilers, configurations   *)
(* and bounds.                                                             *)
(***************************************************************************)
EXTENDS IndexCompiler, TLAPS

Drafting == {"build", "reading", "writing", "publishing", "finalTree", "save"}

\* A draft in the making has the current format and names the job's source.
Shape ==
  \A c \in Compiler : pc[c] \in Drafting =>
    job[c].draft.format = "v1.2" /\ job[c].draft.source = JobSource(c)

\* The lock is held by one compiler.
Alone == \A c, d \in Compiler : pc[c] # "idle" /\ pc[d] # "idle" => c = d

USE DEF NoHead, Building

\* A new cache, a broken manifest and a v1.1 one are of the right types.
THEOREM InitTypeOK == Init => TypeOK
<1> SUFFICES ASSUME Init PROVE TypeOK
  OBVIOUS
<1> USE ViewAssumption, SelectionAssumption, ConfigAssumption, RevertAssumption, BoundAssumption
<1>1. NoManifest \in Manifest
  BY DEF NoManifest, Manifest, NoEntry, Entry
<1>2. NoJob \in Job
  BY <1>1 DEF NoJob, Job, Tree
<1>3. manifest \in Manifest /\ artifact \in [View -> Made \cup {NoArtifact}]
  <2>1. CASE /\ manifest \in {NoManifest, [NoManifest EXCEPT !.format = "unreadable"]}
             /\ artifact = [v \in View |-> NoArtifact]
    BY <2>1, <1>1 DEF Manifest, NoManifest
  <2>2. ASSUME NEW c \in Compiler, NEW made,
               made = [reads |-> {0}, sel |-> Default, by |-> Identity[c]],
               manifest = Legacy(made), artifact = [v \in View |-> made]
        PROVE  manifest \in Manifest /\ artifact \in [View -> Made \cup {NoArtifact}]
    <3>1. made \in Made
      BY <2>2 DEF Made, Tree
    <3>2. [head |-> 0, tree |-> 0, sel |-> Inherit] \in LegacySource
      BY DEF LegacySource, Tree
    <3> QED
      BY <2>2, <3>1, <3>2 DEF Legacy, Manifest, Entry
  <2> QED
    BY <2>1, <2>2 DEF Init
<1> QED
  BY <1>2, <1>3 DEF Init, TypeOK, Tree, Label

LEMMA EntryTypes ==
  ASSUME NEW entry \in Entry, NEW source \in Source
  PROVE  /\ Demoted(entry) \in Entry
         /\ Filled(entry, source) \in Entry
         /\ CarriedEntry(entry, source) \in Entry
<1>1. Demoted(entry) \in Entry
  BY DEF Demoted, Entry
<1>2. Filled(entry, source) \in Entry
  <2>1. CASE entry.status = "fresh"
    <3>1. [entry.source EXCEPT !.head = source.head] \in Source \cup LegacySource
      BY <2>1 DEF Entry, Source, LegacySource
    <3> QED
      BY <2>1, <3>1 DEF Filled, Entry
  <2>2. CASE entry.status # "fresh"
    BY <2>2 DEF Filled
  <2> QED
    BY <2>1, <2>2
<1>3. Demoted(Filled(entry, source)) \in Entry
  BY <1>2 DEF Demoted, Entry
<1> QED
  BY <1>1, <1>2, <1>3 DEF CarriedEntry

LEMMA DraftType ==
  ASSUME NEW m \in Manifest, NEW source \in Source
  PROVE  Draft(m, source) \in Manifest
<1>1. Carried(m, source) \in [View -> Entry]
  BY EntryTypes DEF Carried, Manifest
<1>2. LastIndexed(m) \in Source \cup {NoSource}
  BY DEF LastIndexed, HasSelection, Manifest
<1> QED
  BY <1>1, <1>2 DEF Draft, Manifest

LEMMA NoJobType == NoJob \in Job
  BY BoundAssumption, SelectionAssumption
     DEF NoJob, Job, NoManifest, Manifest, NoEntry, Entry, Tree

\* What a step of one compiler that stays inside the lock has in common.
LEMMA Steps ==
  ASSUME TypeOK, NEW c \in Compiler, NEW l \in Label, pc[c] # "idle", l # "idle",
         l \notin Building, Go(c, l), NEW j \in Job, Locals(c, j)
  PROVE  /\ job' \in [Compiler -> Job] /\ pc' \in [Compiler -> Label]
         /\ holders = {d \in Compiler : pc'[d] # "idle"}
         /\ \A d \in Compiler : pc'[d] \in Building => job'[d].building \in View
  BY DEF TypeOK, Go, Locals

LEMMA StepsOff ==
  ASSUME TypeOK, NEW c \in Compiler, Lock!Leave(c), Go(c, "idle"), Locals(c, NoJob)
  PROVE  /\ job' \in [Compiler -> Job] /\ pc' \in [Compiler -> Label]
         /\ holders' = {d \in Compiler : pc'[d] # "idle"}
         /\ \A d \in Compiler : pc'[d] \in Building => job'[d].building \in View
  BY NoJobType DEF TypeOK, Go, Lock!Leave, Label, Locals

LEMMA StartType == ASSUME TypeOK, NEW c \in Compiler, Start(c) PROVE TypeOK'
<1>1. PICK update \in BOOLEAN, wanted \in SUBSET View \ {{}} :
        Locals(c, [NoJob EXCEPT !.update = update, !.todo = wanted])
  BY DEF Start
<1>2. [NoJob EXCEPT !.update = update, !.todo = wanted] \in Job
  BY NoJobType DEF Job
<1>3. job' \in [Compiler -> Job]
  BY <1>1, <1>2 DEF TypeOK, Locals
<1>4. pc' \in [Compiler -> Label] /\ holders' = {d \in Compiler : pc'[d] # "idle"}
  BY DEF TypeOK, Start, At, Go, Lock!Enter, Label
<1>5. \A d \in Compiler : pc'[d] \in Building => job'[d].building \in View
  BY <1>1 DEF TypeOK, Start, At, Go, Locals
<1> QED
  BY <1>3, <1>4, <1>5 DEF TypeOK, Start, repository, cache

LEMMA SelectionType ==
  ASSUME NEW c \in Compiler, NEW m \in Manifest
  PROVE  SelectionFor(c, m) \in Selection
  BY ConfigAssumption, SelectionAssumption DEF SelectionFor, HasSelection, Source, Manifest

LEMMA LoadType == ASSUME TypeOK, NEW c \in Compiler, Load(c) PROVE TypeOK'
<1> DEFINE force == ~job[c].update \/ ~Readable(manifest)
           j == [job[c] EXCEPT !.existing = Existing(c),
                               !.sel = SelectionFor(c, Existing(c)), !.force = force]
<1>1. Existing(c) \in Manifest
  BY DEF Existing, TypeOK, NoManifest, Manifest, NoEntry, Entry
<1>2. j \in Job
  <2>1. job[c] \in Job /\ force \in BOOLEAN
    BY DEF TypeOK, Job
  <2>2. SelectionFor(c, Existing(c)) \in Selection
    BY <1>1, SelectionType
  <2> HIDE DEF force
  <2> QED
    BY <1>1, <2>1, <2>2 DEF Job
<1> QED
  BY <1>2, Steps DEF Load, TypeOK, At, Label, repository, cache

LEMMA PeekHeadType == ASSUME TypeOK, NEW c \in Compiler, PeekHead(c) PROVE TypeOK'
<1>1. PICK h \in 0 .. MaxCommits : GitSays(h) /\ Locals(c, [job[c] EXCEPT !.head = h])
  BY DEF PeekHead
<1>2. [job[c] EXCEPT !.head = h] \in Job
  BY DEF TypeOK, Job
<1>3. faults' \in 0 .. MaxFaults
  BY <1>1, BoundAssumption DEF GitSays, TypeOK
<1> QED
  BY <1>1, <1>2, <1>3, Steps DEF PeekHead, TypeOK, At, Label, repository, cache

LEMMA PeekTreeType == ASSUME TypeOK, NEW c \in Compiler, PeekTree(c) PROVE TypeOK'
<1>1. [job[c] EXCEPT !.tree = tree] \in Job
  BY DEF TypeOK, Job
<1> QED
  BY <1>1, Steps DEF PeekTree, TypeOK, At, Label, repository, cache

LEMMA ReadHeadType == ASSUME TypeOK, NEW c \in Compiler, ReadHead(c) PROVE TypeOK'
<1> DEFINE j(h) == [job[c] EXCEPT
             !.head = h,
             !.draft = Draft(job[c].existing, [JobSource(c) EXCEPT !.head = h])]
<1>1. PICK h \in 0 .. MaxCommits : GitSays(h) /\ Locals(c, j(h))
  BY DEF ReadHead
<1>2. [JobSource(c) EXCEPT !.head = h] \in Source
  BY DEF JobSource, Source, TypeOK, Job
<1>3. Draft(job[c].existing, [JobSource(c) EXCEPT !.head = h]) \in Manifest
  BY <1>2, DraftType DEF TypeOK, Job
<1>4. j(h) \in Job
  BY <1>3 DEF TypeOK, Job
<1>5. faults' \in 0 .. MaxFaults
  BY <1>1, BoundAssumption DEF GitSays, TypeOK
<1> QED
  BY <1>1, <1>4, <1>5, Steps DEF ReadHead, TypeOK, At, Label, repository, cache

LEMMA ReadTreeType == ASSUME TypeOK, NEW c \in Compiler, ReadTree(c) PROVE TypeOK'
<1> DEFINE source == [JobSource(c) EXCEPT !.tree = tree]
           j == [job[c] EXCEPT !.tree = tree, !.draft = Draft(job[c].existing, source)]
<1>1. source \in Source
  BY DEF JobSource, Source, TypeOK, Job
<1>2. Draft(job[c].existing, source) \in Manifest
  BY <1>1, DraftType DEF TypeOK, Job
<1>3. j \in Job
  BY <1>2 DEF TypeOK, Job
<1> QED
  BY <1>3, Steps DEF ReadTree, TypeOK, At, Label, repository, cache
-----------------------------------------------------------------------------
LEMMA RedraftedType ==
  ASSUME TypeOK, NEW c \in Compiler, NEW v \in View, NEW entry \in Entry
  PROVE  Redrafted(c, v, entry) \in Manifest
<1>1. job[c].draft \in Manifest
  BY DEF TypeOK, Job
<1> QED
  BY <1>1 DEF Redrafted, Manifest

LEMMA BuiltType ==
  ASSUME TypeOK, NEW c \in Compiler
  PROVE  Built(c) \in Made /\ JobSource(c) \in Source
  BY DEF TypeOK, Job, Built, Made, JobSource, Source

LEMMA SkipViewType ==
  ASSUME TypeOK, NEW c \in Compiler, NEW v \in View, SkipView(c, v) PROVE TypeOK'
<1> DEFINE entry == Drafted(c, v)
           given == IF job[c].force /\ entry.status # "absent"
                    THEN [entry EXCEPT !.status = "failed"] ELSE entry
           j == [job[c] EXCEPT !.todo = @ \ {v}, !.succeeded = FALSE,
                               !.draft = Redrafted(c, v, given)]
<1>1. entry \in Entry
  BY DEF TypeOK, Job, Manifest, Drafted
<1>2. given \in Entry
  BY <1>1 DEF Entry
<1>3. j \in Job
  <2> HIDE DEF given
  <2> QED
    BY <1>2, RedraftedType DEF TypeOK, Job
<1>4. Locals(c, j) /\ Go(c, "build") /\ pc[c] = "build"
  BY DEF SkipView, At, Go, TypeOK
<1> QED
  BY <1>3, <1>4, Steps DEF SkipView, TypeOK, Label, repository, cache

LEMMA ReuseViewType ==
  ASSUME TypeOK, NEW c \in Compiler, NEW v \in View, ReuseView(c, v) PROVE TypeOK'
<1>1. [job[c] EXCEPT !.todo = @ \ {v}] \in Job
  BY DEF TypeOK, Job
<1>2. Go(c, "build") /\ pc[c] = "build"
  BY DEF ReuseView, At, Go, TypeOK
<1> QED
  BY <1>1, <1>2, Steps DEF ReuseView, TypeOK, Label, repository, cache

LEMMA BeginBuildType ==
  ASSUME TypeOK, NEW c \in Compiler, NEW v \in View, BeginBuild(c, v) PROVE TypeOK'
<1> DEFINE j == [job[c] EXCEPT !.building = v, !.reads = {tree}]
<1>1. j \in Job /\ j.building \in View
  BY DEF TypeOK, Job
<1>2. job' \in [Compiler -> Job] /\ job'[c].building \in View
  BY <1>1 DEF BeginBuild, Locals, TypeOK
<1> QED
  BY <1>2 DEF BeginBuild, Locals, TypeOK, At, Go, Label, repository, cache

LEMMA ReadSourceType == ASSUME TypeOK, NEW c \in Compiler, ReadSource(c) PROVE TypeOK'
<1> DEFINE j == [job[c] EXCEPT !.reads = @ \cup {tree}]
<1>1. j \in Job /\ j.building = job[c].building
  BY DEF TypeOK, Job
<1>2. job' \in [Compiler -> Job] /\ job'[c].building = job[c].building
  BY <1>1 DEF ReadSource, Locals, TypeOK
<1> QED
  BY <1>2 DEF ReadSource, Locals, TypeOK, repository, cache

LEMMA StartWritingType == ASSUME TypeOK, NEW c \in Compiler, StartWriting(c) PROVE TypeOK'
<1>1. artifact' \in [View -> Made \cup {NoArtifact}]
  BY DEF StartWriting, TypeOK
<1> QED
  BY <1>1 DEF TypeOK, StartWriting, At, Go, Label, repository

LEMMA MoveAsideType == ASSUME TypeOK, NEW c \in Compiler, MoveAside(c) PROVE TypeOK'
<1> DEFINE v == job[c].building
           j == [job[c] EXCEPT !.aside = artifact[v]]
<1>1. pc[c] = "writing" /\ v \in View
  BY DEF MoveAside, At, TypeOK
<1>2. j \in Job /\ j.building = v
  BY <1>1 DEF TypeOK, Job
<1>3. job' \in [Compiler -> Job] /\ job'[c].building = v
  BY <1>2 DEF MoveAside, Locals, TypeOK
<1>4. artifact' \in [View -> Made \cup {NoArtifact}]
  BY DEF MoveAside, TypeOK
<1> QED
  BY <1>1, <1>3, <1>4 DEF MoveAside, Locals, TypeOK, Go, Label, repository

LEMMA BuildSucceedsType == ASSUME TypeOK, NEW c \in Compiler, BuildSucceeds(c) PROVE TypeOK'
<1> DEFINE v == job[c].building
           entry == [status |-> "fresh", source |-> JobSource(c), made |-> Built(c)]
           j == [job[c] EXCEPT !.todo = @ \ {v}, !.building = NoView, !.reads = {},
                               !.aside = NoArtifact, !.draft = Redrafted(c, v, entry)]
<1>1. v \in View
  BY DEF BuildSucceeds, InPosition, At, TypeOK
<1>2. entry \in Entry
  BY BuiltType DEF Entry
<1>3. j \in Job
  <2> HIDE DEF entry
  <2> QED
    BY <1>1, <1>2, RedraftedType DEF TypeOK, Job
<1>4. artifact' \in [View -> Made \cup {NoArtifact}]
  BY BuiltType DEF BuildSucceeds, TypeOK
<1>5. Locals(c, j) /\ Go(c, "build") /\ pc[c] \in Building
      /\ UNCHANGED <<head, tree, edits, manifest, holders, faults>>
  BY DEF BuildSucceeds, InPosition, At, repository
<1> HIDE DEF j
<1> QED
  BY <1>3, <1>4, <1>5, Steps DEF TypeOK, Label

LEMMA BuildFailsType == ASSUME TypeOK, NEW c \in Compiler, BuildFails(c) PROVE TypeOK'
<1> DEFINE v == job[c].building
           entry == Failed(c, job[c].existing.entries[v])
           j == [job[c] EXCEPT !.todo = @ \ {v}, !.building = NoView, !.reads = {},
                               !.aside = NoArtifact, !.succeeded = FALSE,
                               !.draft = Redrafted(c, v, entry)]
<1>1. v \in View
  BY DEF BuildFails, TypeOK
<1>2. job[c].existing.entries[v] \in Entry
  BY <1>1 DEF TypeOK, Job, Manifest
<1>3. entry \in Entry
  BY <1>2 DEF Entry, Failed
<1>4. j \in Job
  <2> HIDE DEF entry
  <2> QED
    BY <1>1, <1>3, RedraftedType DEF TypeOK, Job
<1>5. artifact' \in [View -> Made \cup {NoArtifact}]
  BY BuiltType DEF BuildFails, TypeOK, Job
<1>6. faults' \in 0 .. MaxFaults
  BY BoundAssumption DEF BuildFails, TypeOK
<1>7. Locals(c, j) /\ Go(c, "build") /\ pc[c] \in Building
      /\ UNCHANGED <<head, tree, edits, manifest, holders>>
  BY DEF BuildFails, repository
<1> HIDE DEF j
<1> QED
  BY <1>4, <1>5, <1>6, <1>7, Steps DEF TypeOK, Label

LEMMA FinalHeadType == ASSUME TypeOK, NEW c \in Compiler, FinalHead(c) PROVE TypeOK'
<1>1. PICK h \in 0 .. MaxCommits :
        GitSays(h) /\ Locals(c, [job[c] EXCEPT !.moved = h # job[c].head])
  BY DEF FinalHead
<1>2. [job[c] EXCEPT !.moved = h # job[c].head] \in Job
  BY DEF TypeOK, Job
<1>3. faults' \in 0 .. MaxFaults
  BY <1>1, BoundAssumption DEF GitSays, TypeOK
<1> QED
  BY <1>1, <1>2, <1>3, Steps DEF FinalHead, TypeOK, At, Label, repository, cache

LEMMA FinalTreeType ==
  ASSUME TypeOK, Shape, NEW c \in Compiler, FinalTree(c) PROVE TypeOK'
<1> DEFINE entries == [v \in View |-> IF Moved(c) THEN Demoted(Drafted(c, v))
                                      ELSE Drafted(c, v)]
           last == IF job[c].succeeded /\ ~Moved(c) /\ AllAtHead(entries, JobSource(c))
                   THEN JobSource(c) ELSE LastIndexed(job[c].existing)
           draft == [job[c].draft EXCEPT !.entries = entries, !.last = last]
           j == [job[c] EXCEPT !.draft = draft]
<1>1. entries \in [View -> Entry]
  <2>1. \A v \in View : Drafted(c, v) \in Entry
    BY DEF TypeOK, Job, Manifest, Drafted
  <2> QED
    BY <2>1, EntryTypes, BuiltType
<1>2. last \in Source \cup {NoSource}
  <2>1. LastIndexed(job[c].existing) \in Source \cup {NoSource}
    BY DEF LastIndexed, HasSelection, Manifest, TypeOK, Job
  <2> QED
    BY <2>1, BuiltType
<1>3. job[c].draft \in Manifest /\ job[c].draft.format = "v1.2"
  BY DEF FinalTree, At, Shape, Drafting, TypeOK, Job
<1>4. draft \in Manifest
  <2> HIDE DEF entries, last
  <2> QED
    BY <1>1, <1>2, <1>3 DEF Manifest
<1>5. j \in Job
  <2> HIDE DEF draft
  <2> QED
    BY <1>4 DEF TypeOK, Job
<1>6. Locals(c, j)
  BY DEF FinalTree
<1> QED
  <2> HIDE DEF j
  <2> QED
    BY <1>5, <1>6, Steps DEF FinalTree, TypeOK, At, Label, repository, cache

LEMMA SaveType == ASSUME TypeOK, NEW c \in Compiler, Save(c) PROVE TypeOK'
<1>1. manifest' \in Manifest
  BY DEF Save, TypeOK, Job
<1>2. Go(c, "unlock") /\ pc[c] = "save"
  BY DEF Save, At
<1>3. pc' \in [Compiler -> Label] /\ holders = {d \in Compiler : pc'[d] # "idle"}
      /\ \A d \in Compiler : pc'[d] \in Building => job[d].building \in View
  BY <1>2 DEF TypeOK, Go, Label
<1> QED
  BY <1>1, <1>3 DEF Save, TypeOK, repository

LEMMA UnlockType == ASSUME TypeOK, NEW c \in Compiler, Unlock(c) PROVE TypeOK'
  BY StepsOff DEF Unlock, TypeOK, repository, cache

LEMMA AbandonType == ASSUME TypeOK, NEW c \in Compiler, Abandon(c) PROVE TypeOK'
<1>1. faults' \in 0 .. MaxFaults
  BY BoundAssumption DEF Abandon, TypeOK
<1> QED
  BY <1>1, StepsOff DEF Abandon, TypeOK, repository, cache

LEMMA EditType == ASSUME TypeOK, Edit PROVE TypeOK'
  BY BoundAssumption, RevertAssumption DEF Edit, TypeOK, Tree, cache

LEMMA CommitType == ASSUME TypeOK, Commit PROVE TypeOK'
  BY BoundAssumption DEF Commit, TypeOK, cache

LEMMA StepType == ASSUME TypeOK, Shape, [Next]_vars PROVE TypeOK'
<1>1. CASE UNCHANGED vars
  BY <1>1 DEF vars, TypeOK
<1>2. CASE Edit \/ Commit
  BY <1>2, EditType, CommitType
<1>3. ASSUME NEW c \in Compiler,
             Start(c) \/ Step(c) \/ ReadSource(c) \/ BuildFails(c) \/ Abandon(c)
      PROVE  TypeOK'
  <2>1. CASE Start(c) \/ ReadSource(c) \/ BuildFails(c) \/ Abandon(c)
    BY <2>1, StartType, ReadSourceType, BuildFailsType, AbandonType
  <2>2. CASE Step(c)
    <3>1. ASSUME NEW v \in View, SkipView(c, v) \/ ReuseView(c, v) \/ BeginBuild(c, v)
          PROVE  TypeOK'
      BY <3>1, SkipViewType, ReuseViewType, BeginBuildType
    <3> QED
      BY <2>2, <3>1, LoadType, PeekHeadType, PeekTreeType, ReadHeadType, ReadTreeType,
         StartWritingType, MoveAsideType, BuildSucceedsType, FinalHeadType, FinalTreeType, SaveType,
         UnlockType DEF Step
  <2> QED
    BY <1>3, <2>1, <2>2
<1> QED
  BY <1>1, <1>2, <1>3 DEF Next
-----------------------------------------------------------------------------
LEMMA StepAlone == ASSUME TypeOK, Alone, [Next]_vars PROVE Alone'
<1>1. CASE UNCHANGED vars
  BY <1>1 DEF vars, Alone
<1>2. CASE Edit \/ Commit
  BY <1>2 DEF Edit, Commit, Alone
<1>3. ASSUME NEW c \in Compiler, Start(c) PROVE Alone'
  BY <1>3 DEF Start, Lock!Enter, Go, At, TypeOK, Alone
<1>4. ASSUME NEW c \in Compiler, pc[c] # "idle",
             UNCHANGED pc \/ \E l \in Label : Go(c, l)
      PROVE  Alone'
  BY <1>4 DEF Go, TypeOK, Alone
<1>5. ASSUME NEW c \in Compiler, Step(c) \/ ReadSource(c) \/ BuildFails(c) \/ Abandon(c)
      PROVE  pc[c] # "idle" /\ (UNCHANGED pc \/ \E l \in Label : Go(c, l))
  <2>1. CASE ReadSource(c) \/ BuildFails(c) \/ Abandon(c)
    BY <2>1 DEF ReadSource, BuildFails, Abandon, At, Label
  <2>2. CASE Step(c)
    <3>1. ASSUME NEW v \in View, SkipView(c, v) \/ ReuseView(c, v) \/ BeginBuild(c, v)
          PROVE  pc[c] # "idle" /\ (UNCHANGED pc \/ \E l \in Label : Go(c, l))
      BY <3>1 DEF SkipView, ReuseView, BeginBuild, At, Label
    <3>2. CASE Load(c) \/ PeekHead(c) \/ PeekTree(c) \/ ReadHead(c) \/ ReadTree(c)
      BY <3>2 DEF Load, PeekHead, PeekTree, ReadHead, ReadTree, At, Label
    <3>3. CASE StartWriting(c) \/ MoveAside(c) \/ BuildSucceeds(c) \/ FinalHead(c)
               \/ FinalTree(c) \/ Save(c) \/ Unlock(c)
      BY <3>3 DEF StartWriting, MoveAside, BuildSucceeds, InPosition, FinalHead, FinalTree,
                  Save, Unlock, At, Label
    <3> QED
      BY <2>2, <3>1, <3>2, <3>3 DEF Step
  <2> QED
    BY <1>5, <2>1, <2>2
<1> QED
  BY <1>1, <1>2, <1>3, <1>4, <1>5 DEF Next

\* The manifest a compile loaded is still the one on disk when it saves.
Loaded == Label \ {"idle", "load", "unlock"}
Kept == \A c \in Compiler : pc[c] \in Loaded => job[c].existing = Existing(c)

\* What holds of one view of a draft on its way to be published.
ViewOK(c, v) ==
  LET entry == job[c].draft.entries[v]
      old == job[c].existing.entries[v] IN
  /\ entry.status = "fresh" => entry.source = JobSource(c)
  /\ old.status # "absent" => entry.status # "absent"
  /\ v \in job[c].todo => entry.made = old.made
  /\ entry.made # old.made =>
       entry.made = artifact[v] /\ entry.status \in {"fresh", "stale"}

DraftsOK ==
  \A c \in Compiler :
    /\ pc[c] \in Drafting => \A v \in View : ViewOK(c, v)
    /\ pc[c] \in Building => job[c].building \in job[c].todo
    /\ pc[c] \in {"finalTree", "save"} => job[c].todo = {}
    /\ pc[c] = "save" /\ job[c].draft.last # LastIndexed(job[c].existing) =>
         /\ job[c].draft.last = JobSource(c)
         /\ \A v \in Present(job[c].draft) :
              MatchesSource(job[c].draft.entries[v], JobSource(c))

\* A manifest nobody can read describes nothing.
NothingRead == ~Readable(manifest) => manifest.entries = NoManifest.entries

IInv ==
  TypeOK /\ Shape /\ Alone /\ Kept /\ DraftsOK /\ Closed(manifest) /\ NothingRead

\* Where the inductive invariant starts: nobody compiles.
THEOREM InitIInv == Init => IInv
<1> SUFFICES ASSUME Init PROVE IInv
  OBVIOUS
<1>1. Shape /\ Alone /\ Kept /\ DraftsOK
  BY DEF Init, Shape, Alone, Kept, DraftsOK, Drafting, Loaded
<1>2. Closed(manifest)
  BY DEF Init, Closed, HasSelection, Legacy, NoManifest
<1>3. NothingRead
  BY DEF Init, NothingRead, Readable, NoManifest, Legacy
<1> QED
  BY <1>1, <1>2, <1>3, InitTypeOK DEF IInv

\* Only the compiler that steps can be inside the lock afterwards.
LEMMA Others ==
  ASSUME TypeOK, Alone, NEW c \in Compiler, pc[c] # "idle", NEW l \in Label, Go(c, l)
  PROVE  \A d \in Compiler : pc'[d] # "idle" => d = c
  BY DEF Go, TypeOK, Alone

\* A new draft: what Carried does to each view.
LEMMA CarriedView ==
  ASSUME NEW m \in Manifest, NEW source \in Source, NEW v \in View
  PROVE  LET entry == Draft(m, source).entries[v] IN
         /\ entry.status = "fresh" => entry.source = source
         /\ m.entries[v].status # "absent" => entry.status # "absent"
         /\ entry.made = m.entries[v].made
         /\ Draft(m, source).format = "v1.2" /\ Draft(m, source).source = source
<1>1. m.entries[v] \in Entry
  BY DEF Manifest
<1> QED
  BY <1>1 DEF Draft, Carried, CarriedEntry, Filled, Demoted, MatchesSource, Entry,
              Source, LegacySource

Rest == Shape /\ Kept /\ DraftsOK /\ Closed(manifest)

\* It is enough to look at the compiler that steps.
LEMMA RestOfOne ==
  ASSUME NEW c \in Compiler, \A d \in Compiler : pc'[d] # "idle" => d = c,
         pc'[c] \in Drafting =>
           /\ job'[c].draft.format = "v1.2" /\ job'[c].draft.source = JobSource(c)'
           /\ \A v \in View : ViewOK(c, v)',
         pc'[c] \in Loaded => job'[c].existing = Existing(c)',
         pc'[c] \in Building => job'[c].building \in job'[c].todo,
         pc'[c] \in {"finalTree", "save"} => job'[c].todo = {},
         pc'[c] = "save" /\ job'[c].draft.last # LastIndexed(job'[c].existing) =>
           /\ job'[c].draft.last = JobSource(c)'
           /\ \A v \in Present(job'[c].draft) :
                MatchesSource(job'[c].draft.entries[v], JobSource(c)'),
         Closed(manifest')
  PROVE  Rest'
  BY DEF Rest, Shape, Kept, DraftsOK, Drafting, Loaded, Existing, JobSource, ViewOK

\* A step after which nobody is drafting or has loaded anything.
LEMMA RestOfNone ==
  ASSUME IInv, UNCHANGED manifest,
         \A d \in Compiler : pc'[d] \in {"idle", "load", "unlock"}
  PROVE  Rest'
  BY DEF IInv, Rest, Shape, Kept, DraftsOK, Drafting, Loaded, Closed, HasSelection

LEMMA StartRest == ASSUME IInv, NEW c \in Compiler, Start(c) PROVE Rest'
<1>1. \A d \in Compiler : pc'[d] \in {"idle", "load", "unlock"}
  BY DEF Start, IInv, TypeOK, Lock!Enter, Go, At
<1> QED
  BY <1>1, RestOfNone DEF Start, cache

LEMMA LoadRest == ASSUME IInv, NEW c \in Compiler, Load(c) PROVE Rest'
<1>1. \A d \in Compiler : pc'[d] # "idle" => d = c
  BY Others DEF Load, IInv, At, Label
<1>2. job'[c].existing = Existing(c) /\ Existing(c)' = Existing(c)
  BY DEF Load, Locals, IInv, TypeOK, Job, cache, Existing
<1>3. pc'[c] \in {"readHead", "peekHead"}
  BY DEF Load, Go, IInv, TypeOK
<1> QED
  BY <1>1, <1>2, <1>3, RestOfOne DEF Load, IInv, cache, Drafting

LEMMA PeekRest ==
  ASSUME IInv, NEW c \in Compiler, PeekHead(c) \/ PeekTree(c) PROVE Rest'
<1>1. \A d \in Compiler : pc'[d] # "idle" => d = c
  BY Others DEF PeekHead, PeekTree, IInv, At, Label
<1>2. job'[c].existing = job[c].existing
  BY DEF PeekHead, PeekTree, Locals, IInv, TypeOK, Job
<1>3. pc'[c] \in {"peekTree", "readHead", "unlock"}
  BY DEF PeekHead, PeekTree, Go, IInv, TypeOK
<1>4. UNCHANGED manifest /\ job[c].existing = Existing(c)
  BY DEF PeekHead, PeekTree, IInv, cache, Kept, Loaded, Label, At
<1>5. Existing(c)' = Existing(c)
  BY <1>4 DEF Existing
<1> QED
  BY <1>1, <1>2, <1>3, <1>4, <1>5, RestOfOne DEF IInv, Drafting

LEMMA ReadRest ==
  ASSUME IInv, NEW c \in Compiler, ReadHead(c) \/ ReadTree(c) PROVE Rest'
<1>1. \A d \in Compiler : pc'[d] # "idle" => d = c
  BY Others DEF ReadHead, ReadTree, IInv, At, Label
<1>2. PICK source \in Source :
        /\ JobSource(c)' = source
        /\ job'[c].draft = Draft(job[c].existing, source)
        /\ job'[c].existing = job[c].existing /\ job'[c].todo = job[c].todo
  <2>1. CASE ReadHead(c)
    <3>1. PICK h \in 0 .. MaxCommits : Locals(c,
            [job[c] EXCEPT
             !.head = h,
             !.draft = Draft(job[c].existing, [JobSource(c) EXCEPT !.head = h])])
      BY <2>1 DEF ReadHead
    <3>2. [JobSource(c) EXCEPT !.head = h] \in Source
      BY DEF JobSource, Source, IInv, TypeOK, Job
    <3>3. /\ JobSource(c)' = [JobSource(c) EXCEPT !.head = h]
          /\ job'[c].draft = Draft(job[c].existing, [JobSource(c) EXCEPT !.head = h])
          /\ job'[c].existing = job[c].existing /\ job'[c].todo = job[c].todo
      BY <3>1 DEF JobSource, Locals, IInv, TypeOK, Job
    <3> QED
      BY <3>2, <3>3
  <2>2. CASE ReadTree(c)
    <3>1. [JobSource(c) EXCEPT !.tree = tree] \in Source
      BY DEF JobSource, Source, IInv, TypeOK, Job
    <3>2. /\ JobSource(c)' = [JobSource(c) EXCEPT !.tree = tree]
          /\ job'[c].draft = Draft(job[c].existing, [JobSource(c) EXCEPT !.tree = tree])
          /\ job'[c].existing = job[c].existing /\ job'[c].todo = job[c].todo
      BY <2>2 DEF ReadTree, JobSource, Locals, IInv, TypeOK, Job
    <3> QED
      BY <3>1, <3>2
  <2> QED
    BY <2>1, <2>2
<1>3. job[c].existing \in Manifest
  BY DEF IInv, TypeOK, Job
<1>4. \A v \in View : ViewOK(c, v)'
  BY <1>2, <1>3, CarriedView DEF ViewOK
<1>5. job'[c].draft.format = "v1.2" /\ job'[c].draft.source = JobSource(c)'
  BY <1>2 DEF Draft
<1>6. job[c].existing = Existing(c) /\ Existing(c)' = Existing(c) /\ UNCHANGED manifest
  BY DEF ReadHead, ReadTree, IInv, Kept, Loaded, Label, At, Existing, cache
<1>7. pc'[c] \in {"readTree", "build"}
  BY DEF ReadHead, ReadTree, Go, IInv, TypeOK
<1> QED
  BY <1>1, <1>2, <1>4, <1>5, <1>6, <1>7, RestOfOne DEF IInv

\* Steps that leave the head of the draft, the rest of the job and the lock alone.
Same(c) ==
  /\ JobSource(c)' = JobSource(c) /\ UNCHANGED manifest
  /\ job'[c].existing = job[c].existing
  /\ job'[c].draft.format = job[c].draft.format
  /\ job'[c].draft.source = job[c].draft.source

LEMMA SameRest ==
  ASSUME IInv, NEW c \in Compiler, \A d \in Compiler : pc'[d] # "idle" => d = c,
         pc[c] \in Drafting, pc'[c] \in {"build", "reading", "writing", "publishing", "finalTree"},
         Same(c), \A v \in View : ViewOK(c, v)',
         pc'[c] \in Building => job'[c].building \in job'[c].todo,
         pc'[c] = "finalTree" => job'[c].todo = {}
  PROVE  Rest'
<1>1. job'[c].draft.format = "v1.2" /\ job'[c].draft.source = JobSource(c)'
  BY DEF Same, IInv, Shape
<1>2. job'[c].existing = Existing(c)' /\ Closed(manifest')
  BY DEF Same, IInv, Kept, Loaded, Drafting, Label, Existing
<1> QED
  BY <1>1, <1>2, RestOfOne

\* Replacing one view's entry in the draft.
LEMMA RedraftedView ==
  ASSUME TypeOK, NEW c \in Compiler, NEW v \in View, NEW entry
  PROVE  /\ Redrafted(c, v, entry).format = job[c].draft.format
         /\ Redrafted(c, v, entry).source = job[c].draft.source
         /\ \A w \in View : Redrafted(c, v, entry).entries[w]
                            = IF w = v THEN entry ELSE job[c].draft.entries[w]
<1>1. job[c].draft \in Manifest
  BY DEF TypeOK, Job
<1> QED
  BY <1>1 DEF Redrafted, Manifest

LEMMA SkipViewRest ==
  ASSUME IInv, NEW c \in Compiler, NEW v \in View, SkipView(c, v) PROVE Rest'
<1> DEFINE entry == Drafted(c, v)
           given == IF job[c].force /\ entry.status # "absent"
                    THEN [entry EXCEPT !.status = "failed"] ELSE entry
<1>1. pc[c] = "build" /\ pc'[c] = "build" /\ Go(c, "build") /\ v \in job[c].todo
  BY DEF SkipView, At, Go, IInv, TypeOK
<1>2. \A d \in Compiler : pc'[d] # "idle" => d = c
  BY <1>1, Others DEF IInv, Label
<1>3. ViewOK(c, v) /\ entry \in Entry
  BY <1>1 DEF IInv, DraftsOK, Drafting, TypeOK, Job, Manifest, Drafted
<1>4. /\ given.made = entry.made /\ given.source = entry.source
      /\ given.status = "fresh" => entry.status = "fresh"
      /\ entry.status # "absent" => given.status # "absent"
  BY <1>3 DEF Entry
<1>5. /\ job'[c].draft = Redrafted(c, v, given) /\ job'[c].todo = job[c].todo \ {v}
      /\ job'[c].existing = job[c].existing /\ JobSource(c)' = JobSource(c)
      /\ UNCHANGED <<manifest, artifact>>
  <2>1. /\ Locals(c, [job[c] EXCEPT !.todo = @ \ {v}, !.succeeded = FALSE,
                              !.draft = Redrafted(c, v, given)])
        /\ UNCHANGED <<manifest, artifact>>
    BY DEF SkipView, cache
  <2> HIDE DEF given
  <2> QED
    BY <2>1 DEF Locals, IInv, TypeOK, Job, JobSource
<1> HIDE DEF given
<1>6. Same(c)
  BY <1>5, RedraftedView DEF Same, IInv
<1>7. ASSUME NEW w \in View PROVE ViewOK(c, w)'
  <2>1. ViewOK(c, w)
    BY <1>1 DEF IInv, DraftsOK, Drafting
  <2>2. job'[c].draft.entries[w] = IF w = v THEN given ELSE job[c].draft.entries[w]
    BY <1>5, RedraftedView DEF IInv
  <2>3. CASE w = v
    BY <2>1, <2>2, <2>3, <1>1, <1>4, <1>5 DEF ViewOK, Drafted
  <2>4. CASE w # v
    BY <2>1, <2>2, <2>4, <1>5 DEF ViewOK
  <2> QED
    BY <2>3, <2>4
<1> QED
  BY <1>1, <1>2, <1>6, <1>7, SameRest DEF Drafting

\* Steps that leave the draft alone and ask for no other view.
LEMMA QuietRest ==
  ASSUME IInv, NEW c \in Compiler, pc[c] \in Drafting,
         pc'[c] \in {"build", "reading", "writing", "publishing", "finalTree"},
         \A d \in Compiler : pc'[d] # "idle" => d = c,
         JobSource(c)' = JobSource(c), UNCHANGED manifest,
         job'[c].existing = job[c].existing, job'[c].draft = job[c].draft,
         job'[c].todo \subseteq job[c].todo,
         \A v \in View : artifact'[v] = artifact[v] \/ v \in job[c].todo,
         pc'[c] \in Building => job'[c].building \in job'[c].todo,
         pc'[c] = "finalTree" => job'[c].todo = {}
  PROVE  Rest'
<1>1. Same(c)
  BY DEF Same
<1>2. ASSUME NEW v \in View PROVE ViewOK(c, v)'
  <2>1. ViewOK(c, v)
    BY DEF IInv, DraftsOK
  <2> QED
    BY <2>1 DEF ViewOK
<1> QED
  BY <1>1, <1>2, SameRest

LEMMA ReuseViewRest ==
  ASSUME IInv, NEW c \in Compiler, NEW v \in View, ReuseView(c, v) PROVE Rest'
<1>1. pc[c] = "build" /\ pc'[c] = "build" /\ \A d \in Compiler : pc'[d] # "idle" => d = c
  BY DEF ReuseView, At, IInv, Alone
<1>2. /\ JobSource(c)' = JobSource(c) /\ job'[c].existing = job[c].existing
      /\ job'[c].draft = job[c].draft /\ job'[c].todo = job[c].todo \ {v}
  BY DEF ReuseView, Locals, IInv, TypeOK, Job, JobSource
<1> QED
  BY <1>1, <1>2, QuietRest DEF ReuseView, cache, Drafting

LEMMA BeginBuildRest ==
  ASSUME IInv, NEW c \in Compiler, NEW v \in View, BeginBuild(c, v) PROVE Rest'
<1>1. pc[c] = "build" /\ pc'[c] = "reading" /\ \A d \in Compiler : pc'[d] # "idle" => d = c
  BY Others DEF BeginBuild, At, Go, IInv, TypeOK, Label
<1>2. /\ JobSource(c)' = JobSource(c) /\ job'[c].existing = job[c].existing
      /\ job'[c].draft = job[c].draft /\ job'[c].todo = job[c].todo
      /\ job'[c].building = v
  BY DEF BeginBuild, Locals, IInv, TypeOK, Job, JobSource
<1> QED
  BY <1>1, <1>2, QuietRest DEF BeginBuild, cache, Drafting

LEMMA ReadSourceRest == ASSUME IInv, NEW c \in Compiler, ReadSource(c) PROVE Rest'
<1>1. /\ pc[c] \in {"reading", "writing"} /\ UNCHANGED pc
      /\ \A d \in Compiler : pc'[d] # "idle" => d = c
  BY DEF ReadSource, IInv, Alone
<1>2. /\ JobSource(c)' = JobSource(c) /\ job'[c].existing = job[c].existing
      /\ job'[c].draft = job[c].draft /\ job'[c].todo = job[c].todo
      /\ job'[c].building = job[c].building
  BY DEF ReadSource, Locals, IInv, TypeOK, Job, JobSource
<1>3. job[c].building \in job[c].todo
  BY <1>1 DEF IInv, DraftsOK
<1> QED
  BY <1>1, <1>2, <1>3, QuietRest DEF ReadSource, cache, Drafting

LEMMA StartWritingRest == ASSUME IInv, NEW c \in Compiler, StartWriting(c) PROVE Rest'
<1>1. pc[c] = "reading" /\ pc'[c] = "writing" /\ \A d \in Compiler : pc'[d] # "idle" => d = c
  BY Others DEF StartWriting, At, Go, IInv, TypeOK, Label
<1>2. job[c].building \in job[c].todo
  BY <1>1 DEF IInv, DraftsOK
<1>3. \A v \in View : artifact'[v] = artifact[v] \/ v \in job[c].todo
  BY <1>2 DEF StartWriting
<1> QED
  BY <1>1, <1>2, <1>3, QuietRest DEF StartWriting, JobSource, Drafting

LEMMA MoveAsideRest == ASSUME IInv, NEW c \in Compiler, MoveAside(c) PROVE Rest'
<1> DEFINE v == job[c].building
<1>1. /\ pc[c] = "writing" /\ pc'[c] = "publishing"
      /\ \A d \in Compiler : pc'[d] # "idle" => d = c
  BY Others DEF MoveAside, At, Go, IInv, TypeOK, Label
<1>2. v \in job[c].todo
  BY <1>1 DEF IInv, DraftsOK
<1>3. /\ JobSource(c)' = JobSource(c) /\ job'[c].existing = job[c].existing
      /\ job'[c].draft = job[c].draft /\ job'[c].todo = job[c].todo
      /\ job'[c].building = v
  BY DEF MoveAside, Locals, IInv, TypeOK, Job, JobSource
<1>4. \A w \in View : artifact'[w] = artifact[w] \/ w \in job[c].todo
  BY <1>2 DEF MoveAside, IInv, TypeOK
<1> QED
  BY <1>1, <1>2, <1>3, <1>4, QuietRest DEF MoveAside, Drafting

\* The end of an attempt: the view's entry and, maybe, its artifact.
LEMMA AttemptRest ==
  ASSUME IInv, NEW c \in Compiler, NEW entry,
         pc[c] \in Building, Go(c, "build"), UNCHANGED manifest,
         JobSource(c)' = JobSource(c), job'[c].existing = job[c].existing,
         job'[c].draft = Redrafted(c, job[c].building, entry),
         job'[c].todo = job[c].todo \ {job[c].building},
         entry.status = "fresh" => entry.source = JobSource(c),
         entry.status # "absent",
         entry.made # job[c].existing.entries[job[c].building].made =>
           entry.made = artifact'[job[c].building] /\ entry.status = "fresh",
         \A w \in View \ {job[c].building} : artifact'[w] = artifact[w]
  PROVE  Rest'
<1> DEFINE v == job[c].building
<1>1. v \in View
  BY DEF IInv, TypeOK
<1>2. pc'[c] = "build"
  BY DEF Go, IInv, TypeOK
<1>3. \A d \in Compiler : pc'[d] # "idle" => d = c
  BY Others DEF IInv, Label
<1>4. Same(c)
  BY <1>1, RedraftedView DEF Same, IInv
<1>5. ASSUME NEW w \in View PROVE ViewOK(c, w)'
  <2>1. ViewOK(c, w)
    BY DEF IInv, DraftsOK, Drafting
  <2>2. job'[c].draft.entries[w] = IF w = v THEN entry ELSE job[c].draft.entries[w]
    BY <1>1, RedraftedView DEF IInv
  <2>3. CASE w = v
    BY <2>2, <2>3 DEF ViewOK
  <2>4. CASE w # v
    BY <2>1, <2>2, <2>4 DEF ViewOK
  <2> QED
    BY <2>3, <2>4
<1> QED
  BY <1>2, <1>3, <1>4, <1>5, SameRest DEF Drafting

LEMMA BuildSucceedsRest == ASSUME IInv, NEW c \in Compiler, BuildSucceeds(c) PROVE Rest'
<1> DEFINE v == job[c].building
           entry == [status |-> "fresh", source |-> JobSource(c), made |-> Built(c)]
           j == [job[c] EXCEPT !.todo = @ \ {v}, !.building = NoView, !.reads = {},
                               !.aside = NoArtifact, !.draft = Redrafted(c, v, entry)]
<1>1. pc[c] \in Building /\ v \in View
  BY DEF BuildSucceeds, InPosition, At, IInv, TypeOK
<1>2. entry.status = "fresh" /\ entry.source = JobSource(c) /\ entry.made = Built(c)
  OBVIOUS
<1>3. artifact'[v] = Built(c) /\ \A w \in View \ {v} : artifact'[w] = artifact[w]
  BY <1>1 DEF BuildSucceeds, IInv, TypeOK
<1>4. Locals(c, j) /\ Go(c, "build") /\ UNCHANGED manifest
  BY DEF BuildSucceeds
<1>5. /\ JobSource(c)' = JobSource(c) /\ job'[c].existing = job[c].existing
      /\ job'[c].draft = Redrafted(c, v, entry) /\ job'[c].todo = job[c].todo \ {v}
  <2> HIDE DEF entry
  <2> QED
    BY <1>4 DEF Locals, IInv, TypeOK, Job, JobSource
<1> HIDE DEF entry
<1> QED
  BY <1>1, <1>2, <1>3, <1>4, <1>5, AttemptRest

LEMMA BuildFailsRest == ASSUME IInv, NEW c \in Compiler, BuildFails(c) PROVE Rest'
<1> DEFINE v == job[c].building
           old == job[c].existing.entries[v]
           entry == Failed(c, old)
           j == [job[c] EXCEPT !.todo = @ \ {v}, !.building = NoView, !.reads = {},
                               !.aside = NoArtifact, !.succeeded = FALSE,
                               !.draft = Redrafted(c, v, entry)]
<1>1. pc[c] \in Building /\ v \in View
  BY DEF BuildFails, At, IInv, TypeOK
<1>2. old \in Entry
  BY <1>1 DEF IInv, TypeOK, Job, Manifest
<1>3. entry.status = "failed" /\ entry.made = old.made
  BY <1>2 DEF Failed, Entry
<1>4. \A w \in View \ {v} : artifact'[w] = artifact[w]
  BY <1>1 DEF BuildFails, IInv, TypeOK
<1>5. Locals(c, j) /\ Go(c, "build") /\ UNCHANGED manifest
  BY DEF BuildFails
<1>6. /\ JobSource(c)' = JobSource(c) /\ job'[c].existing = job[c].existing
      /\ job'[c].draft = Redrafted(c, v, entry) /\ job'[c].todo = job[c].todo \ {v}
  <2> HIDE DEF entry
  <2> QED
    BY <1>5 DEF Locals, IInv, TypeOK, Job, JobSource
<1> HIDE DEF entry
<1> QED
  BY <1>1, <1>3, <1>4, <1>5, <1>6, AttemptRest

LEMMA FinalHeadRest == ASSUME IInv, NEW c \in Compiler, FinalHead(c) PROVE Rest'
<1>1. /\ pc[c] = "build" /\ pc'[c] = "finalTree" /\ job[c].todo = {}
      /\ \A d \in Compiler : pc'[d] # "idle" => d = c
  BY Others DEF FinalHead, At, Go, IInv, TypeOK, Label
<1>2. /\ JobSource(c)' = JobSource(c) /\ job'[c].existing = job[c].existing
      /\ job'[c].draft = job[c].draft /\ job'[c].todo = job[c].todo
  BY DEF FinalHead, Locals, IInv, TypeOK, Job, JobSource
<1> QED
  BY <1>1, <1>2, QuietRest DEF FinalHead, cache, Drafting

LEMMA FinalTreeRest == ASSUME IInv, NEW c \in Compiler, FinalTree(c) PROVE Rest'
<1> DEFINE entries == [v \in View |-> IF Moved(c) THEN Demoted(Drafted(c, v))
                                      ELSE Drafted(c, v)]
           last == IF job[c].succeeded /\ ~Moved(c) /\ AllAtHead(entries, JobSource(c))
                   THEN JobSource(c) ELSE LastIndexed(job[c].existing)
           draft == [job[c].draft EXCEPT !.entries = entries, !.last = last]
           j == [job[c] EXCEPT !.draft = draft]
<1>1. /\ pc[c] = "finalTree" /\ pc'[c] = "save" /\ job[c].todo = {}
      /\ \A d \in Compiler : pc'[d] # "idle" => d = c
  BY Others DEF FinalTree, At, Go, IInv, TypeOK, Label, DraftsOK
<1>2. Locals(c, j) /\ UNCHANGED <<manifest, artifact>>
  BY DEF FinalTree, cache
<1>3. job[c].draft \in Manifest /\ job[c] \in Job
  BY DEF IInv, TypeOK, Job
<1>4. draft.entries = entries /\ draft.last = last /\ draft.format = job[c].draft.format
      /\ draft.source = job[c].draft.source
  <2> HIDE DEF entries, last
  <2> QED
    BY <1>3 DEF Manifest
<1>5. /\ JobSource(c)' = JobSource(c) /\ job'[c].existing = job[c].existing
      /\ job'[c].draft = draft /\ job'[c].todo = {}
  <2> HIDE DEF draft
  <2> QED
    BY <1>1, <1>2, <1>3 DEF Locals, IInv, TypeOK, Job, JobSource
<1>6. ASSUME NEW v \in View PROVE ViewOK(c, v)'
  <2>1. ViewOK(c, v) /\ Drafted(c, v) \in Entry
    BY <1>1, <1>3 DEF IInv, DraftsOK, Drafting, Drafted, Manifest
  <2>2. entries[v] \in {Drafted(c, v), Demoted(Drafted(c, v))}
    OBVIOUS
  <2>3. /\ entries[v].made = Drafted(c, v).made
        /\ entries[v].status = "fresh" => entries[v] = Drafted(c, v)
        /\ Drafted(c, v).status # "absent" => entries[v].status # "absent"
        /\ Drafted(c, v).status \in {"fresh", "stale"} => entries[v].status \in {"fresh", "stale"}
    BY <2>1, <2>2 DEF Demoted, Entry
  <2> HIDE DEF entries, draft
  <2> QED
    BY <1>1, <1>2, <1>4, <1>5, <2>1, <2>3 DEF ViewOK, Drafted
<1>7. last # LastIndexed(job[c].existing) =>
        /\ last = JobSource(c)
        /\ \A v \in View : entries[v].status # "absent" =>
             MatchesSource(entries[v], JobSource(c))
  <2> HIDE DEF entries
  <2> QED
    BY DEF AllAtHead
<1>8. job'[c].draft.format = "v1.2" /\ job'[c].draft.source = JobSource(c)'
  <2> HIDE DEF draft
  <2> QED
    BY <1>1, <1>4, <1>5 DEF IInv, Shape, Drafting
<1>9. job'[c].existing = Existing(c)' /\ Closed(manifest')
  BY <1>1, <1>2, <1>5 DEF IInv, Kept, Loaded, Label, Existing
<1>10. job'[c].draft.last # LastIndexed(job'[c].existing) =>
         /\ job'[c].draft.last = JobSource(c)'
         /\ \A v \in Present(job'[c].draft) :
              MatchesSource(job'[c].draft.entries[v], JobSource(c)')
  <2> HIDE DEF draft, entries, last
  <2> QED
    BY <1>4, <1>5, <1>7 DEF Present
<1> HIDE DEF draft, entries, last, j
<1> QED
  BY <1>1, <1>5, <1>6, <1>8, <1>9, <1>10, RestOfOne

\* What save is given is closed.
LEMMA DraftClosed ==
  ASSUME IInv, NEW c \in Compiler, pc[c] = "save" PROVE Closed(job[c].draft)
<1>1. job[c].draft.source = JobSource(c) /\ \A v \in View : ViewOK(c, v)
  BY DEF IInv, Shape, DraftsOK, Drafting
<1> QED
  BY <1>1 DEF Closed, ViewOK

LEMMA EndRest ==
  ASSUME IInv, NEW c \in Compiler, Save(c) \/ Unlock(c) \/ Abandon(c) PROVE Rest'
<1>1. \A d \in Compiler : pc'[d] \in {"idle", "load", "unlock"}
  BY DEF Save, Unlock, Abandon, At, Go, IInv, TypeOK, Alone
<1>2. Closed(manifest')
  BY DraftClosed DEF Save, Unlock, Abandon, IInv, cache, At
<1> QED
  BY <1>1, <1>2 DEF Rest, Shape, Kept, DraftsOK, Drafting, Loaded

LEMMA RepositoryRest == ASSUME IInv, Edit \/ Commit \/ UNCHANGED vars PROVE Rest'
<1>1. UNCHANGED <<manifest, artifact, pc, job>>
  BY DEF Edit, Commit, vars, cache
<1>2. \A c \in Compiler : JobSource(c)' = JobSource(c) /\ Existing(c)' = Existing(c)
  BY <1>1 DEF JobSource, Existing
<1>3. \A c \in Compiler, v \in View : ViewOK(c, v)' = ViewOK(c, v)
  BY <1>1, <1>2 DEF ViewOK
<1> QED
  BY <1>1, <1>2, <1>3 DEF IInv, Rest, Shape, Kept, DraftsOK

\* The manifest changes only when a compile that holds the lock saves its draft.
LEMMA OnlySavesChange ==
  ASSUME IInv, [Next]_vars
  PROVE  UNCHANGED manifest \/
         \E c \in Compiler : Save(c) /\ manifest' = job[c].draft
<1>1. ASSUME NEW c \in Compiler, Save(c) PROVE manifest' = job[c].draft
  BY <1>1, DraftClosed DEF Save, At
<1>2. ASSUME NEW c \in Compiler, Step(c), ~Save(c) PROVE UNCHANGED manifest
  BY <1>2 DEF Step, Load, PeekHead, PeekTree, ReadHead, ReadTree, SkipView, ReuseView,
             BeginBuild, StartWriting, MoveAside, BuildSucceeds, FinalHead, FinalTree,
             Unlock, cache
<1>3. ASSUME NEW c \in Compiler, Start(c) \/ ReadSource(c) \/ BuildFails(c) \/ Abandon(c)
      PROVE  UNCHANGED manifest
  BY <1>3 DEF Start, ReadSource, BuildFails, Abandon, cache
<1>4. CASE Edit \/ Commit \/ UNCHANGED vars
  BY <1>4 DEF Edit, Commit, vars, cache
<1> QED
  BY <1>1, <1>2, <1>3, <1>4 DEF Next

\* No step of a compiler or of the repository's users breaks the invariant.
THEOREM StepIInv == IInv /\ [Next]_vars => IInv'
<1> SUFFICES ASSUME IInv, [Next]_vars PROVE IInv'
  OBVIOUS
<1>1. TypeOK' /\ Alone'
  BY StepType, StepAlone DEF IInv
<1>2. Rest'
  <2>1. CASE Edit \/ Commit \/ UNCHANGED vars
    BY <2>1, RepositoryRest
  <2>2. ASSUME NEW c \in Compiler, Step(c) PROVE Rest'
    <3>1. ASSUME NEW v \in View, SkipView(c, v) \/ ReuseView(c, v) \/ BeginBuild(c, v)
          PROVE  Rest'
      BY <3>1, SkipViewRest, ReuseViewRest, BeginBuildRest
    <3> QED
      BY <2>2, <3>1, LoadRest, PeekRest, ReadRest, StartWritingRest, MoveAsideRest,
         BuildSucceedsRest,
         FinalHeadRest, FinalTreeRest, EndRest DEF Step
  <2>3. ASSUME NEW c \in Compiler, Start(c) \/ ReadSource(c) \/ BuildFails(c) \/ Abandon(c)
        PROVE  Rest'
    BY <2>3, StartRest, ReadSourceRest, BuildFailsRest, EndRest
  <2> QED
    BY <2>1, <2>2, <2>3 DEF Next
<1>3. NothingRead'
  <2>1. CASE UNCHANGED manifest
    BY <2>1 DEF IInv, NothingRead
  <2>2. ASSUME NEW c \in Compiler, Save(c), manifest' = job[c].draft PROVE NothingRead'
    BY <2>2 DEF Save, At, IInv, Shape, Drafting, NothingRead, Readable
  <2> QED
    BY <2>1, <2>2, OnlySavesChange
<1> QED
  BY <1>1, <1>2, <1>3 DEF IInv, Rest

\* The invariant holds throughout.
THEOREM Invariance == Spec => []IInv
  BY InitIInv, StepIInv, PTL DEF Spec

-----------------------------------------------------------------------------
\* Types hold, and whoever is past the lock's acquisition is its holder.
THEOREM TypeCorrect == Spec => []TypeOK
<1>1. IInv => TypeOK
  BY DEF IInv
<1> QED
  BY <1>1, Invariance, PTL

\* Every manifest a compile saves, or is about to save, passes the validation
\* that save and load run.
THEOREM EveryManifestLoads == Spec => []ManifestsLoad
<1>1. IInv => ManifestsLoad
  BY DraftClosed DEF IInv, ManifestsLoad
<1> QED
  BY <1>1, Invariance, PTL

\* What is known when a draft is saved.
LEMMA AtSave ==
  ASSUME IInv, NEW c \in Compiler, Save(c), manifest' = job[c].draft
  PROVE  /\ manifest'.source = JobSource(c)
         /\ job[c].existing = Existing(c) /\ job[c].existing \in Manifest
         /\ \A v \in View : ViewOK(c, v)
         /\ job[c].todo = {}
         /\ UNCHANGED artifact
         /\ manifest'.last # LastIndexed(job[c].existing) =>
              /\ manifest'.last = JobSource(c)
              /\ \A v \in Present(manifest') :
                   MatchesSource(manifest'.entries[v], JobSource(c))
<1>1. pc[c] = "save" /\ UNCHANGED artifact
  BY DEF Save, At
<1> QED
  BY <1>1 DEF IInv, TypeOK, Job, Shape, Kept, DraftsOK, Drafting, Loaded, Label

\* The source the manifest calls last indexed is one that every view reached.
THEOREM LastIndexedMeansWhole == Spec => LastIndexedIsWhole
<1> DEFINE Good == manifest'.last \notin {manifest.last, NoSource} =>
             /\ manifest'.last = manifest'.source
             /\ \A v \in Present(manifest') :
                  MatchesSource(manifest'.entries[v], manifest'.last)
<1>1. ASSUME IInv, [Next]_vars PROVE Good
  <2>1. CASE UNCHANGED manifest
    BY <2>1
  <2>2. ASSUME NEW c \in Compiler, Save(c), manifest' = job[c].draft PROVE Good
    <3>1. LastIndexed(job[c].existing) \in {manifest.last, NoSource}
      BY <1>1, <2>2, AtSave DEF LastIndexed, Existing, NoManifest, HasSelection
    <3> QED
      BY <1>1, <2>2, <3>1, AtSave
  <2> QED
    BY <1>1, <2>1, <2>2, OnlySavesChange
<1> QED
  BY <1>1, Invariance, PTL DEF Spec, LastIndexedIsWhole

\* An entry that starts to describe another artifact describes the one on disk.
THEOREM PublishedMeansOnDisk == Spec => PublishedViewsAreOnDisk
<1> DEFINE Good == \A v \in View : manifest'.entries[v].made # manifest.entries[v].made =>
             manifest'.entries[v].made = artifact[v]
<1>1. ASSUME IInv, [Next]_vars PROVE Good
  <2>1. CASE UNCHANGED manifest
    BY <2>1
  <2>2. ASSUME NEW c \in Compiler, Save(c), manifest' = job[c].draft PROVE Good
    BY <1>1, <2>2, AtSave DEF ViewOK, Existing, IInv, NothingRead
  <2> QED
    BY <1>1, <2>1, <2>2, OnlySavesChange
<1> QED
  BY <1>1, Invariance, PTL DEF Spec, PublishedViewsAreOnDisk

\* A build that fails leaves the entry describing what it described.
THEOREM FailureKeeps == Spec => FailureKeepsTheEntry
<1> DEFINE Good == \A v \in View :
             Readable(manifest) /\ manifest'.entries[v].status = "failed" =>
               manifest'.entries[v].made = manifest.entries[v].made
<1>1. ASSUME IInv, [Next]_vars PROVE Good
  <2>1. CASE UNCHANGED manifest
    BY <2>1
  <2>2. ASSUME NEW c \in Compiler, Save(c), manifest' = job[c].draft PROVE Good
    BY <1>1, <2>2, AtSave DEF ViewOK, Existing
  <2> QED
    BY <1>1, <2>1, <2>2, OnlySavesChange
<1> QED
  BY <1>1, Invariance, PTL DEF Spec, FailureKeepsTheEntry

\* A view of a readable manifest never drops out of it.
THEOREM NoViewForgotten == Spec => NoViewIsForgotten
<1> DEFINE Good == Readable(manifest) => Present(manifest) \subseteq Present(manifest')
<1>1. ASSUME IInv, [Next]_vars PROVE Good
  <2>1. CASE UNCHANGED manifest
    BY <2>1
  <2>2. ASSUME NEW c \in Compiler, Save(c), manifest' = job[c].draft PROVE Good
    BY <1>1, <2>2, AtSave DEF ViewOK, Existing, Present
  <2> QED
    BY <1>1, <2>1, <2>2, OnlySavesChange
<1> QED
  BY <1>1, Invariance, PTL DEF Spec, NoViewIsForgotten
-----------------------------------------------------------------------------
\* A draft's fresh entry: the builder read nothing older than the tree the
\* compile started from, and, once the tree was read again, nothing younger.
Sound(c, v) ==
  LET entry == job[c].draft.entries[v]
      last == IF pc[c] = "save" THEN job[c].tree ELSE tree IN
  entry.status = "fresh" =>
    /\ entry.made.sel = job[c].sel
    /\ entry.made.reads # {} /\ entry.made.reads \subseteq job[c].tree .. last

Honest ==
  /\ tree = edits
  /\ \A c \in Compiler : job[c].tree <= tree
  /\ \A c \in Compiler : pc[c] \in Building =>
       job[c].reads # {} /\ job[c].reads \subseteq job[c].tree .. tree
  /\ \A c \in Compiler : pc[c] \in Drafting => \A v \in View : Sound(c, v)
  /\ FreshIsWhatItSays

LEMMA InitHonest == Init => Honest
<1> SUFFICES ASSUME Init PROVE Honest
  OBVIOUS
<1>1. FreshIsWhatItSays
  BY DEF Init, FreshIsWhatItSays, HasSelection, Legacy, NoManifest
<1> QED
  BY <1>1 DEF Init, Honest, Drafting, NoJob

\* A step of a compiler that leaves the repository and the manifest alone.
LEMMA HonestOfOne ==
  ASSUME IInv, Honest, NEW c \in Compiler, UNCHANGED <<tree, edits, manifest>>,
         \A d \in Compiler : pc'[d] # "idle" => d = c,
         \A d \in Compiler : d # c => job'[d] = job[d],
         job'[c].tree <= tree,
         pc'[c] \in Building =>
           job'[c].reads # {} /\ job'[c].reads \subseteq job'[c].tree .. tree,
         pc'[c] \in Drafting => \A v \in View : Sound(c, v)'
  PROVE  Honest'
<1>1. FreshIsWhatItSays'
  BY DEF Honest, FreshIsWhatItSays, HasSelection
<1>2. \A d \in Compiler : job'[d].tree <= tree'
  BY DEF Honest
<1>3. \A d \in Compiler : pc'[d] \in Drafting \/ pc'[d] \in Building => d = c
  BY DEF Drafting
<1> QED
  BY <1>1, <1>2, <1>3 DEF Honest

\* Before there is a draft, and after it.
LEMMA UndraftedHonest ==
  ASSUME IInv, Honest, NEW c \in Compiler,
         Start(c) \/ Load(c) \/ PeekHead(c) \/ PeekTree(c) \/ Unlock(c) \/ Abandon(c)
  PROVE  Honest'
<1>1. /\ \A d \in Compiler : pc'[d] # "idle" => d = c
      /\ pc'[c] \in {"load", "readHead", "peekHead", "peekTree", "unlock", "idle"}
  BY DEF Start, Load, PeekHead, PeekTree, Unlock, Abandon, At, Go, IInv, TypeOK, Alone,
         Lock!Enter
<1>2. UNCHANGED <<tree, edits, manifest>>
  BY DEF Start, Load, PeekHead, PeekTree, Unlock, Abandon, cache, repository
<1>3. (\A d \in Compiler : d # c => job'[d] = job[d]) /\ job'[c].tree <= tree
  <2>1. tree \in Nat
    BY BoundAssumption DEF IInv, TypeOK, Tree
  <2>2. job[c] \in Job /\ job[c].tree <= tree
    BY DEF IInv, TypeOK, Honest
  <2>3. CASE Start(c) \/ Unlock(c) \/ Abandon(c)
    <3>1. PICK update \in BOOLEAN, wanted \in SUBSET View :
            Locals(c, [NoJob EXCEPT !.update = update, !.todo = wanted]) \/ Locals(c, NoJob)
      BY <2>3 DEF Start, Unlock, Abandon
    <3> DEFINE j == [NoJob EXCEPT !.update = update, !.todo = wanted]
    <3>2. j.tree = 0 /\ NoJob.tree = 0 /\ (Locals(c, j) \/ Locals(c, NoJob))
      BY <3>1 DEF NoJob
    <3> HIDE DEF j
    <3> QED
      BY <2>1, <3>2 DEF Locals, IInv, TypeOK
  <2>4. CASE Load(c) \/ PeekHead(c) \/ PeekTree(c)
    <3>1. job'[c].tree \in {job[c].tree, tree} /\ \A d \in Compiler : d # c => job'[d] = job[d]
      <4>1. CASE Load(c)
        <5> DEFINE j == [job[c] EXCEPT
                         !.existing = Existing(c), !.sel = SelectionFor(c, Existing(c)),
                         !.force = ~job[c].update \/ ~Readable(manifest)]
        <5>1. Locals(c, j)
          BY <4>1 DEF Load
        <5>2. j.tree = job[c].tree
          BY <2>2 DEF Job
        <5> HIDE DEF j
        <5> QED
          BY <5>1, <5>2 DEF Locals, IInv, TypeOK
      <4>2. CASE PeekHead(c)
        BY <2>2, <4>2 DEF PeekHead, Job, Locals, IInv, TypeOK
      <4>3. CASE PeekTree(c)
        BY <2>2, <4>3 DEF PeekTree, Job, Locals, IInv, TypeOK
      <4> QED
        BY <2>4, <4>1, <4>2, <4>3
    <3>2. tree <= tree
      BY <2>1
    <3> QED
      BY <2>2, <3>1, <3>2
  <2> QED
    BY <2>3, <2>4
<1> QED
  BY <1>1, <1>2, <1>3, HonestOfOne DEF Drafting

\* What a new draft calls fresh was fresh before, at the same source.
LEMMA CarriedSound ==
  ASSUME NEW m \in Manifest, NEW source \in Source, NEW v \in View,
         Draft(m, source).entries[v].status = "fresh"
  PROVE  /\ HasSelection(m) /\ m.entries[v].status = "fresh"
         /\ Draft(m, source).entries[v].made = m.entries[v].made
         /\ m.entries[v].source.tree = source.tree /\ m.entries[v].source.sel = source.sel
<1>1. m.entries[v] \in Entry
  BY DEF Manifest
<1> QED
  BY <1>1 DEF Draft, Carried, CarriedEntry, Filled, Demoted, MatchesSource, Entry,
              Source, LegacySource

LEMMA ReadHonest ==
  ASSUME IInv, Honest, NEW c \in Compiler, ReadHead(c) \/ ReadTree(c) PROVE Honest'
<1>1. PICK source \in Source :
        /\ source.tree = job'[c].tree /\ source.sel = job'[c].sel
        /\ job'[c].draft = Draft(job[c].existing, source)
        /\ job'[c].tree \in {job[c].tree, tree}
  <2>1. CASE ReadHead(c)
    <3>1. PICK h \in 0 .. MaxCommits : Locals(c,
            [job[c] EXCEPT
             !.head = h,
             !.draft = Draft(job[c].existing, [JobSource(c) EXCEPT !.head = h])])
      BY <2>1 DEF ReadHead
    <3>2. [JobSource(c) EXCEPT !.head = h] \in Source
      BY DEF JobSource, Source, IInv, TypeOK, Job
    <3>3. /\ job'[c].draft = Draft(job[c].existing, [JobSource(c) EXCEPT !.head = h])
          /\ job'[c].tree = job[c].tree /\ job'[c].sel = job[c].sel
      BY <3>1 DEF Locals, IInv, TypeOK, Job
    <3> QED
      BY <3>2, <3>3 DEF JobSource
  <2>2. CASE ReadTree(c)
    <3>1. [JobSource(c) EXCEPT !.tree = tree] \in Source
      BY DEF JobSource, Source, IInv, TypeOK, Job
    <3>2. /\ job'[c].draft = Draft(job[c].existing, [JobSource(c) EXCEPT !.tree = tree])
          /\ job'[c].tree = tree /\ job'[c].sel = job[c].sel
      BY <2>2 DEF ReadTree, Locals, IInv, TypeOK, Job
    <3> QED
      BY <3>1, <3>2 DEF JobSource
  <2> QED
    BY <2>1, <2>2
<1>2. tree \in Nat /\ job'[c].tree \in Nat /\ job'[c].tree <= tree
  BY <1>1, BoundAssumption DEF IInv, TypeOK, Tree, Job, Honest
<1>3. pc'[c] \in {"readTree", "build"} /\ \A d \in Compiler : pc'[d] # "idle" => d = c
  BY Others DEF ReadHead, ReadTree, At, Go, IInv, TypeOK, Label
<1>4. /\ UNCHANGED <<tree, edits, manifest>>
      /\ \A d \in Compiler : d # c => job'[d] = job[d]
  BY DEF ReadHead, ReadTree, repository, cache, Locals, IInv, TypeOK
<1>5. job[c].existing = Existing(c) /\ job[c].existing \in Manifest
  BY DEF ReadHead, ReadTree, At, IInv, Kept, Loaded, Label, TypeOK, Job
<1>6. ASSUME NEW v \in View PROVE Sound(c, v)'
  <2>1. SUFFICES ASSUME job'[c].draft.entries[v].status = "fresh"
                 PROVE  /\ job'[c].draft.entries[v].made.sel = job'[c].sel
                        /\ job'[c].draft.entries[v].made.reads = {job'[c].tree}
    BY <1>2, <1>3, <1>4 DEF Sound
  <2>2. HasSelection(job[c].existing) => job[c].existing = manifest
    BY <1>5 DEF Existing, HasSelection, NoManifest
  <2> QED
    BY <1>1, <1>5, <2>1, <2>2, CarriedSound DEF Honest, FreshIsWhatItSays
<1> QED
  BY <1>2, <1>3, <1>4, <1>6, HonestOfOne

\* A step that keeps the job's source and gives the draft no new fresh entry.
LEMMA QuietHonest ==
  ASSUME IInv, Honest, NEW c \in Compiler, UNCHANGED <<tree, edits, manifest>>,
         \A d \in Compiler : pc'[d] # "idle" => d = c, pc[c] \in Drafting \ {"save"},
         pc'[c] \in {"build", "reading", "writing", "publishing", "finalTree"},
         NEW j, Locals(c, j), j.tree = job[c].tree, j.sel = job[c].sel,
         \A v \in View : j.draft.entries[v].status = "fresh" =>
           \/ j.draft.entries[v] = job[c].draft.entries[v]
           \/ /\ j.draft.entries[v].made.sel = job[c].sel
              /\ j.draft.entries[v].made.reads # {}
              /\ j.draft.entries[v].made.reads \subseteq job[c].tree .. tree,
         pc'[c] \in Building =>
           j.reads # {} /\ j.reads \subseteq job[c].tree .. tree
  PROVE  Honest'
<1>1. job'[c] = j /\ \A d \in Compiler : d # c => job'[d] = job[d]
  BY DEF Locals, IInv, TypeOK
<1>2. \A v \in View : Sound(c, v)
  BY DEF Honest
<1>3. \A v \in View : Sound(c, v)'
  BY <1>1, <1>2 DEF Sound
<1>4. job'[c].tree <= tree
  BY <1>1 DEF Honest
<1> QED
  BY <1>1, <1>3, <1>4, HonestOfOne

LEMMA Between == ASSUME IInv, Honest, NEW c \in Compiler PROVE tree \in job[c].tree .. tree
  BY BoundAssumption DEF IInv, TypeOK, Tree, Job, Honest

LEMMA ReuseHonest ==
  ASSUME IInv, Honest, NEW c \in Compiler,
         FinalHead(c) \/ ReadSource(c) \/
         \E v \in View : ReuseView(c, v) \/ BeginBuild(c, v)
  PROVE  Honest'
<1>1. /\ pc[c] \in Drafting \ {"save"}
      /\ pc'[c] \in {"build", "reading", "writing", "publishing", "finalTree"}
      /\ \A d \in Compiler : pc'[d] # "idle" => d = c
  <2>1. CASE FinalHead(c)
    BY <2>1 DEF FinalHead, At, Go, IInv, TypeOK, Alone, Drafting
  <2>2. CASE ReadSource(c)
    BY <2>2 DEF ReadSource, IInv, Alone, Drafting
  <2>3. CASE \E v \in View : ReuseView(c, v) \/ BeginBuild(c, v)
    <3>1. /\ pc[c] = "build" /\ pc \in [Compiler -> Label]
          /\ UNCHANGED pc \/ pc' = [pc EXCEPT ![c] = "reading"]
      BY <2>3 DEF ReuseView, BeginBuild, At, Go, IInv, TypeOK
    <3> QED
      BY <3>1 DEF IInv, Alone, Drafting
  <2> QED
    BY <2>1, <2>2, <2>3
<1>2. UNCHANGED <<tree, edits, manifest>>
  BY DEF FinalHead, ReadSource, ReuseView, BeginBuild, repository, cache
<1>3. job[c] \in Job
  BY DEF IInv, TypeOK
<1>4. PICK j : /\ Locals(c, j) /\ j.tree = job[c].tree /\ j.sel = job[c].sel
               /\ j.draft = job[c].draft
               /\ pc'[c] \in Building =>
                    j.reads # {} /\ j.reads \subseteq job[c].tree .. tree
  <2>1. CASE FinalHead(c)
    <3>1. PICK h \in 0 .. MaxCommits : Locals(c, [job[c] EXCEPT !.moved = h # job[c].head])
      BY <2>1 DEF FinalHead
    <3> DEFINE j == [job[c] EXCEPT !.moved = h # job[c].head]
    <3>2. j.tree = job[c].tree /\ j.sel = job[c].sel /\ j.draft = job[c].draft
      BY <1>3 DEF Job
    <3>3. pc'[c] = "finalTree" /\ Locals(c, j)
      BY <2>1, <3>1 DEF FinalHead, Go, IInv, TypeOK
    <3> HIDE DEF j
    <3> QED
      BY <3>2, <3>3
  <2>2. CASE ReadSource(c)
    <3> DEFINE j == [job[c] EXCEPT !.reads = @ \cup {tree}]
    <3>1. /\ j.tree = job[c].tree /\ j.sel = job[c].sel /\ j.draft = job[c].draft
          /\ j.reads = job[c].reads \cup {tree} /\ Locals(c, j)
      BY <1>3, <2>2 DEF Job, ReadSource
    <3>2. job[c].reads \subseteq job[c].tree .. tree
      BY <2>2 DEF ReadSource, Honest
    <3> HIDE DEF j
    <3> QED
      BY <3>1, <3>2, Between
  <2>3. ASSUME NEW v \in View, ReuseView(c, v)
        PROVE  \E j : /\ Locals(c, j) /\ j.tree = job[c].tree /\ j.sel = job[c].sel
                      /\ j.draft = job[c].draft
                      /\ pc'[c] \in Building =>
                           j.reads # {} /\ j.reads \subseteq job[c].tree .. tree
    BY <1>3, <2>3 DEF ReuseView, At, Job
  <2>4. ASSUME NEW v \in View, BeginBuild(c, v)
        PROVE  \E j : /\ Locals(c, j) /\ j.tree = job[c].tree /\ j.sel = job[c].sel
                      /\ j.draft = job[c].draft
                      /\ j.reads # {} /\ j.reads \subseteq job[c].tree .. tree
    <3> DEFINE j == [job[c] EXCEPT !.building = v, !.reads = {tree}]
    <3>1. /\ j.tree = job[c].tree /\ j.sel = job[c].sel /\ j.draft = job[c].draft
          /\ j.reads = {tree} /\ Locals(c, j)
      BY <1>3, <2>4 DEF Job, BeginBuild
    <3> HIDE DEF j
    <3> QED
      BY <3>1, Between
  <2> QED
    BY <2>1, <2>2, <2>3, <2>4
<1> QED
  BY <1>1, <1>2, <1>4, QuietHonest

LEMMA WritingHonest ==
  ASSUME IInv, Honest, NEW c \in Compiler, StartWriting(c) PROVE Honest'
<1>1. /\ pc[c] = "reading" /\ pc'[c] = "writing" /\ job' = job
      /\ \A d \in Compiler : pc'[d] # "idle" => d = c
  BY DEF StartWriting, At, Go, IInv, TypeOK, Alone
<1>2. UNCHANGED <<tree, edits, manifest>>
  BY DEF StartWriting, repository
<1>3. \A v \in View : Sound(c, v)'
  BY <1>1, <1>2 DEF Sound, Honest, Drafting
<1> QED
  BY <1>1, <1>2, <1>3, HonestOfOne DEF Honest

LEMMA AsideHonest ==
  ASSUME IInv, Honest, NEW c \in Compiler, MoveAside(c) PROVE Honest'
<1> DEFINE j == [job[c] EXCEPT !.aside = artifact[job[c].building]]
<1>1. /\ pc[c] = "writing" /\ pc'[c] = "publishing"
      /\ \A d \in Compiler : pc'[d] # "idle" => d = c
  BY DEF MoveAside, At, Go, IInv, TypeOK, Alone
<1>2. UNCHANGED <<tree, edits, manifest>>
  BY DEF MoveAside, repository
<1>3. /\ j.tree = job[c].tree /\ j.sel = job[c].sel /\ j.draft = job[c].draft
      /\ j.reads = job[c].reads /\ Locals(c, j)
  BY DEF MoveAside, IInv, TypeOK, Job
<1>4. job[c].reads # {} /\ job[c].reads \subseteq job[c].tree .. tree
  BY <1>1 DEF Honest
<1> HIDE DEF j
<1> QED
  BY <1>1, <1>2, <1>3, <1>4, QuietHonest DEF Drafting

LEMMA RedraftHonest ==
  ASSUME IInv, Honest, NEW c \in Compiler,
         BuildSucceeds(c) \/ BuildFails(c) \/ \E v \in View : SkipView(c, v)
  PROVE  Honest'
<1>1. /\ pc[c] \in Drafting \ {"save"} /\ pc'[c] = "build"
      /\ \A d \in Compiler : pc'[d] # "idle" => d = c
  BY DEF BuildSucceeds, InPosition, BuildFails, SkipView, At, Go, IInv, TypeOK, Alone,
         Drafting
<1>2. UNCHANGED <<tree, edits, manifest>>
  BY DEF BuildSucceeds, BuildFails, SkipView, repository, cache
<1>3. job[c] \in Job
  BY DEF IInv, TypeOK
<1> DEFINE Redraft(v, entry, j) ==
             /\ Locals(c, j) /\ j.tree = job[c].tree /\ j.sel = job[c].sel
             /\ j.draft = Redrafted(c, v, entry)
             /\ entry.status = "fresh" =>
                  \/ entry = job[c].draft.entries[v]
                  \/ /\ entry.made.sel = job[c].sel /\ entry.made.reads # {}
                     /\ entry.made.reads \subseteq job[c].tree .. tree
<1>4. \E v \in View : \E entry, j : Redraft(v, entry, j)
  <2>1. CASE BuildSucceeds(c)
    <3> DEFINE v == job[c].building
               entry == [status |-> "fresh", source |-> JobSource(c), made |-> Built(c)]
               j == [job[c] EXCEPT !.todo = @ \ {v}, !.building = NoView, !.reads = {},
                                   !.aside = NoArtifact, !.draft = Redrafted(c, v, entry)]
    <3>1. v \in View /\ job[c].reads # {} /\ job[c].reads \subseteq job[c].tree .. tree
      BY <2>1 DEF BuildSucceeds, InPosition, At, IInv, TypeOK, Honest
    <3>2. entry.made.sel = job[c].sel /\ entry.made.reads = job[c].reads
      BY DEF Built
    <3>3. Locals(c, j)
      BY <2>1 DEF BuildSucceeds
    <3> HIDE DEF entry
    <3>4. j.tree = job[c].tree /\ j.sel = job[c].sel /\ j.draft = Redrafted(c, v, entry)
      BY <1>3 DEF Job
    <3> HIDE DEF j
    <3> QED
      BY <3>1, <3>2, <3>3, <3>4
  <2>2. CASE BuildFails(c)
    <3> DEFINE v == job[c].building
               entry == Failed(c, job[c].existing.entries[v])
               j == [job[c] EXCEPT !.todo = @ \ {v}, !.building = NoView, !.reads = {},
                                   !.aside = NoArtifact, !.succeeded = FALSE,
                                   !.draft = Redrafted(c, v, entry)]
    <3>1. v \in View
      BY <2>2 DEF BuildFails, IInv, TypeOK
    <3>2. entry.status = "failed"
      BY <1>3, <3>1 DEF Failed, Job, Manifest, Entry
    <3>3. Locals(c, j)
      BY <2>2 DEF BuildFails
    <3> HIDE DEF entry
    <3>4. j.tree = job[c].tree /\ j.sel = job[c].sel /\ j.draft = Redrafted(c, v, entry)
      BY <1>3 DEF Job
    <3> HIDE DEF j
    <3> QED
      BY <3>1, <3>2, <3>3, <3>4
  <2>3. ASSUME NEW v \in View, SkipView(c, v) PROVE \E entry, j : Redraft(v, entry, j)
    <3> DEFINE old == Drafted(c, v)
               entry == IF job[c].force /\ old.status # "absent"
                        THEN [old EXCEPT !.status = "failed"] ELSE old
               j == [job[c] EXCEPT !.todo = @ \ {v}, !.succeeded = FALSE,
                                   !.draft = Redrafted(c, v, entry)]
    <3>1. entry.status = "fresh" => entry = job[c].draft.entries[v]
      BY <1>3 DEF Job, Manifest, Entry, Drafted
    <3>2. Locals(c, j)
      BY <2>3 DEF SkipView
    <3> HIDE DEF entry
    <3>3. j.tree = job[c].tree /\ j.sel = job[c].sel /\ j.draft = Redrafted(c, v, entry)
      BY <1>3 DEF Job
    <3> HIDE DEF j
    <3> QED
      BY <3>1, <3>2, <3>3
  <2> QED
    BY <2>1, <2>2, <2>3
<1>5. PICK v \in View : \E entry, j : Redraft(v, entry, j)
  BY <1>4
<1>6. PICK entry, j : Redraft(v, entry, j)
  BY <1>5
<1>7. \A w \in View : j.draft.entries[w] = IF w = v THEN entry ELSE job[c].draft.entries[w]
  BY <1>6, RedraftedView DEF IInv
<1> QED
  BY <1>1, <1>2, <1>6, <1>7, QuietHonest

\* The tree is read again: if nothing moved, the builders read that tree only.
LEMMA FinalTreeHonest ==
  ASSUME IInv, Honest, NEW c \in Compiler, FinalTree(c) PROVE Honest'
<1> DEFINE entries == [v \in View |-> IF Moved(c) THEN Demoted(Drafted(c, v))
                                      ELSE Drafted(c, v)]
           last == IF job[c].succeeded /\ ~Moved(c) /\ AllAtHead(entries, JobSource(c))
                   THEN JobSource(c) ELSE LastIndexed(job[c].existing)
           draft == [job[c].draft EXCEPT !.entries = entries, !.last = last]
           j == [job[c] EXCEPT !.draft = draft]
<1>1. /\ pc[c] = "finalTree" /\ pc'[c] = "save" /\ UNCHANGED <<tree, edits, manifest>>
      /\ \A d \in Compiler : pc'[d] # "idle" => d = c
  BY Others DEF FinalTree, At, Go, IInv, TypeOK, Label, repository, cache
<1>2. Locals(c, j)
  BY DEF FinalTree
<1>3. job[c] \in Job /\ job[c].draft \in Manifest /\ job[c].tree \in Nat
  BY BoundAssumption DEF IInv, TypeOK, Job, Tree
<1>4. draft.entries = entries
  <2> HIDE DEF entries, last
  <2> QED
    BY <1>3 DEF Manifest
<1>5. /\ job'[c].tree = job[c].tree /\ job'[c].sel = job[c].sel /\ job'[c].draft = draft
      /\ \A d \in Compiler : d # c => job'[d] = job[d]
  <2> HIDE DEF draft
  <2> QED
    BY <1>2, <1>3 DEF Locals, IInv, TypeOK, Job
<1>6. ASSUME NEW v \in View PROVE Sound(c, v)'
  <2>1. SUFFICES ASSUME entries[v].status = "fresh"
                 PROVE  /\ entries[v].made.sel = job[c].sel /\ entries[v].made.reads # {}
                        /\ entries[v].made.reads \subseteq job[c].tree .. job[c].tree
    <3> HIDE DEF entries, draft
    <3> QED
      BY <1>1, <1>4, <1>5 DEF Sound
  <2>2. Drafted(c, v) \in Entry
    BY <1>3 DEF Manifest, Drafted
  <2>3. ~Moved(c) /\ entries[v] = Drafted(c, v)
    BY <2>1, <2>2 DEF Demoted, Entry
  <2>4. tree = job[c].tree
    BY <2>3 DEF Moved
  <2>5. Sound(c, v) /\ job[c].draft.entries[v].status = "fresh"
    BY <1>1, <2>1, <2>3 DEF Honest, Drafting, Drafted
  <2> HIDE DEF entries
  <2> QED
    BY <1>1, <2>3, <2>4, <2>5 DEF Sound, Drafted
<1>7. job'[c].tree <= tree
  BY <1>5 DEF Honest
<1> HIDE DEF draft, j
<1> QED
  BY <1>1, <1>5, <1>6, <1>7, HonestOfOne

LEMMA SaveHonest ==
  ASSUME IInv, Honest, NEW c \in Compiler, Save(c) PROVE Honest'
<1>1. manifest' = job[c].draft /\ pc[c] = "save"
  BY DraftClosed DEF Save, At
<1>2. UNCHANGED <<tree, edits, job>> /\ \A d \in Compiler : pc'[d] \in {"idle", "unlock"}
  BY <1>1 DEF Save, Go, IInv, TypeOK, Alone, repository
<1>3. ASSUME NEW v \in View, manifest'.entries[v].status = "fresh"
      PROVE  /\ manifest'.entries[v].made.reads = {manifest'.entries[v].source.tree}
             /\ manifest'.entries[v].made.sel = manifest'.entries[v].source.sel
  <2>1. Sound(c, v) /\ ViewOK(c, v)
    BY <1>1 DEF Honest, IInv, DraftsOK, Drafting
  <2>2. manifest'.entries[v].source = JobSource(c)
    BY <1>1, <1>3, <2>1 DEF ViewOK
  <2>3. /\ manifest'.entries[v].made.sel = job[c].sel
        /\ manifest'.entries[v].made.reads # {}
        /\ manifest'.entries[v].made.reads \subseteq job[c].tree .. job[c].tree
    BY <1>1, <1>3, <2>1 DEF Sound
  <2>4. job[c].tree \in Nat
    BY BoundAssumption DEF IInv, TypeOK, Job, Tree
  <2> QED
    BY <2>2, <2>3, <2>4 DEF JobSource
<1>4. FreshIsWhatItSays'
  BY <1>3 DEF FreshIsWhatItSays
<1> QED
  BY <1>2, <1>4 DEF Honest, Drafting

LEMMA RepositoryHonest ==
  ASSUME IInv, Honest, Edit \/ Commit \/ UNCHANGED vars, Reverts = FALSE PROVE Honest'
<1>1. UNCHANGED <<manifest, pc, job>>
  BY DEF Edit, Commit, vars, cache
<1>2. tree' = edits' /\ tree \in Nat /\ tree' \in Nat /\ tree <= tree'
  BY BoundAssumption DEF Edit, Commit, vars, Honest, IInv, TypeOK, Tree
<1>3. \A c \in Compiler : job[c].tree \in Nat /\ job[c].reads \subseteq Nat
  BY BoundAssumption DEF IInv, TypeOK, Job, Tree
<1>4. FreshIsWhatItSays'
  BY <1>1 DEF Honest, FreshIsWhatItSays
<1>5. ASSUME NEW c \in Compiler, NEW v \in View, pc[c] \in Drafting PROVE Sound(c, v)'
  <2>1. Sound(c, v)
    BY <1>5 DEF Honest
  <2> QED
    BY <1>1, <1>2, <1>3, <2>1 DEF Sound
<1>6. \A c \in Compiler : job[c].tree .. tree \subseteq job[c].tree .. tree'
  BY <1>2, <1>3
<1>7. \A c \in Compiler : job[c].tree <= tree'
  BY <1>2, <1>3 DEF Honest
<1> QED
  BY <1>1, <1>2, <1>4, <1>5, <1>6, <1>7 DEF Honest

\* Fresh drafts read nothing older than the first look, or younger than the second.
THEOREM StepHonest == Reverts = FALSE /\ IInv /\ Honest /\ [Next]_vars => Honest'
<1> SUFFICES ASSUME Reverts = FALSE, IInv, Honest, [Next]_vars PROVE Honest'
  OBVIOUS
<1>1. ASSUME NEW c \in Compiler, Step(c) PROVE Honest'
  <2>1. CASE \E v \in View : SkipView(c, v) \/ ReuseView(c, v) \/ BeginBuild(c, v)
    BY <2>1, RedraftHonest, ReuseHonest
  <2> QED
    BY <1>1, <2>1, UndraftedHonest, ReadHonest, ReuseHonest, RedraftHonest,
       WritingHonest, AsideHonest, FinalTreeHonest, SaveHonest DEF Step
<1>2. ASSUME NEW c \in Compiler, Start(c) \/ ReadSource(c) \/ BuildFails(c) \/ Abandon(c)
      PROVE  Honest'
  BY <1>2, UndraftedHonest, ReuseHonest, RedraftHonest
<1> QED
  BY <1>1, <1>2, RepositoryHonest DEF Next

\* If edits never bring earlier contents back, a view published as fresh was
\* built from the named source only, however often the source changed meanwhile.
THEOREM FreshIsHonest == Reverts = FALSE => (Spec => []FreshIsWhatItSays)
<1> SUFFICES ASSUME Reverts = FALSE PROVE Spec => []FreshIsWhatItSays
  OBVIOUS
<1>1. IInv /\ Honest /\ [Next]_vars => (IInv /\ Honest)'
  BY StepIInv, StepHonest
<1>2. Init => IInv /\ Honest
  BY InitIInv, InitHonest
<1>3. IInv /\ Honest => FreshIsWhatItSays
  BY DEF Honest
<1> QED
  BY <1>1, <1>2, <1>3, PTL DEF Spec
-----------------------------------------------------------------------------
(* The refinement of AbstractIndex.                                         *)

\* Only c is at work, before and after its step.
Solo(c) == \A d \in Compiler : d # c => pc[d] = "idle" /\ pc'[d] = "idle"

LEMMA StepsAreSolo ==
  ASSUME IInv, NEW c \in Compiler,
         Start(c) \/ Step(c) \/ ReadSource(c) \/ BuildFails(c) \/ Abandon(c)
  PROVE  Solo(c)
<1>1. pc[c] # "idle" \/ Start(c)
  BY DEF Step, Load, PeekHead, PeekTree, ReadHead, ReadTree, SkipView, ReuseView,
         BeginBuild, StartWriting, MoveAside, BuildSucceeds, InPosition, FinalHead, FinalTree,
         Save, Unlock, ReadSource, BuildFails, Abandon, At
<1>2. \A d \in Compiler : d # c => pc[d] = "idle"
  BY <1>1 DEF IInv, Alone, TypeOK, Start, Lock!Enter
<1>3. UNCHANGED pc \/ \E l : Go(c, l)
  BY DEF Start, Step, Load, PeekHead, PeekTree, ReadHead, ReadTree, SkipView, ReuseView,
         BeginBuild, StartWriting, MoveAside, BuildSucceeds, FinalHead, FinalTree, Save,
         Unlock, ReadSource, BuildFails, Abandon
<1> QED
  BY <1>2, <1>3 DEF Solo, Go, IInv, TypeOK

\* What the abstract index sees of the compiler that is at work.
LEMMA SoloAims ==
  ASSUME NEW c \in Compiler, Solo(c)
  PROVE  /\ {d \in Compiler : Compiling(d)} = IF Compiling(c) THEN {c} ELSE {}
         /\ {d \in Compiler : Compiling(d)}' = IF Compiling(c)' THEN {c} ELSE {}
         /\ [d \in Compiler |-> Aim(d)]'
              = [[d \in Compiler |-> Aim(d)] EXCEPT ![c] = Aim(c)']
<1>1. \A d \in Compiler : d # c => ~Compiling(d) /\ ~Compiling(d)'
  BY DEF Solo, Compiling, At
<1>2. \A d \in Compiler : d # c => Aim(d)' = Aim(d)
  BY <1>1 DEF Aim
<1> QED
  BY <1>1, <1>2

LEMMA AimIsNotNoJob ==
  ASSUME NEW s, NEW fresh, NEW looked
  PROVE  [source |-> s, fresh |-> fresh, looked |-> looked] # NoJob
<1>1. "looked" \in DOMAIN [source |-> s, fresh |-> fresh, looked |-> looked]
  OBVIOUS
<1>2. "looked" \notin DOMAIN NoJob
  BY DEF NoJob
<1> QED
  BY <1>1, <1>2

\* Nothing the abstract index sees changes.
LEMMA Stutters ==
  ASSUME NEW c \in Compiler, Solo(c), UNCHANGED <<tree, manifest>>,
         Compiling(c)' <=> Compiling(c), Aim(c)' = Aim(c)
  PROVE  UNCHANGED Promise!vars
<1>1. UNCHANGED Published
  BY DEF Published, HasSelection, FreshIn
<1> QED
  BY <1>1, SoloAims DEF Promise!vars

\* Views are given up, or nothing changes.
LEMMA Drops ==
  ASSUME NEW c \in Compiler, Solo(c), UNCHANGED <<tree, manifest>>,
         Compiling(c), Compiling(c)', pc[c] # "save", pc'[c] # "save",
         job'[c].tree = job[c].tree, Hoped(c)' \subseteq Hoped(c), Hoped(c) \subseteq View
  PROVE  \E views \in SUBSET View : Promise!Drop(c, views)
<1> DEFINE views == Hoped(c) \ Hoped(c)'
           aims == [d \in Compiler |-> Aim(d)]
<1>1. UNCHANGED Published
  BY DEF Published, HasSelection, FreshIn
<1>2. aims[c] = [source |-> job[c].tree, fresh |-> Hoped(c), looked |-> FALSE]
  BY DEF Aim, At
<1>3. Aim(c)' = [source |-> job[c].tree, fresh |-> Hoped(c) \ views, looked |-> FALSE]
  BY DEF Aim, At
<1>4. aims[c] # NoJob /\ ~aims[c].looked
  BY <1>2, AimIsNotNoJob
<1>5. aims' = [aims EXCEPT ![c] = [source |-> aims[c].source,
                                   fresh |-> aims[c].fresh \ views, looked |-> FALSE]]
  <2> HIDE DEF views, aims
  <2>1. aims[c].source = job[c].tree /\ aims[c].fresh = Hoped(c)
    BY <1>2
  <2>2. Aim(c)' = [source |-> aims[c].source, fresh |-> aims[c].fresh \ views,
                   looked |-> FALSE]
    BY <1>3, <2>1
  <2> QED
    BY <2>2, SoloAims DEF aims
<1>6. UNCHANGED {d \in Compiler : Compiling(d)}
  BY SoloAims
<1>7. views \in SUBSET View
  OBVIOUS
<1> HIDE DEF views
<1> QED
  BY <1>1, <1>4, <1>5, <1>6, <1>7 DEF Promise!Drop

\* Before a compile knows what to build, and after it has saved.
LEMMA OutsideStutters ==
  ASSUME IInv, NEW c \in Compiler, Solo(c), UNCHANGED <<tree, manifest>>,
         ~Compiling(c), ~Compiling(c)'
  PROVE  UNCHANGED Promise!vars
<1>1. Aim(c) = NoJob /\ Aim(c)' = NoJob
  BY DEF Aim, NoJob
<1> QED
  BY <1>1, Stutters

LEMMA Begins ==
  ASSUME NEW c \in Compiler, Solo(c), UNCHANGED <<tree, manifest>>,
         ~Compiling(c), Compiling(c)', pc'[c] # "save", job'[c].tree = tree,
         Hoped(c)' \subseteq View
  PROVE  \E views \in SUBSET View : Promise!Begin(c, views)
<1> DEFINE aims == [d \in Compiler |-> Aim(d)]
<1>1. UNCHANGED Published
  BY DEF Published, HasSelection, FreshIn
<1>2. Aim(c)' = [source |-> tree, fresh |-> Hoped(c)', looked |-> FALSE]
  BY DEF Aim, At
<1>3. aims' = [aims EXCEPT ![c] = [source |-> tree, fresh |-> Hoped(c)', looked |-> FALSE]]
  BY <1>2, SoloAims
<1>4. Promise!Lock!Enter(c)
  BY SoloAims DEF Promise!Lock!Enter
<1> QED
  BY <1>1, <1>3, <1>4 DEF Promise!Begin

LEMMA EarlySteps ==
  ASSUME IInv, NEW c \in Compiler, Solo(c),
         \/ Start(c) \/ Load(c) \/ PeekHead(c) \/ PeekTree(c) \/ ReadHead(c) \/ ReadTree(c)
         \/ Unlock(c)
  PROVE  \/ UNCHANGED Promise!vars
         \/ \E views \in SUBSET View : Promise!Begin(c, views) \/ Promise!Drop(c, views)
<1>1. UNCHANGED <<tree, manifest>>
  BY DEF Start, Load, PeekHead, PeekTree, ReadHead, ReadTree, Unlock, repository, cache
<1>2. job[c] \in Job
  BY DEF IInv, TypeOK
<1>3. CASE Start(c) \/ PeekHead(c) \/ Unlock(c)
  <2>1. ~Compiling(c) /\ ~Compiling(c)'
    BY <1>3 DEF Start, PeekHead, Unlock, Compiling, At, Go, IInv, TypeOK
  <2> QED
    BY <1>1, <2>1, OutsideStutters
<1>4. CASE Load(c)
  <2>1. /\ pc[c] = "load"
        /\ job'[c].force = (~job[c].update \/ ~Readable(manifest))
        /\ pc'[c] = IF ~job[c].update \/ ~Readable(manifest) THEN "readHead" ELSE "peekHead"
    BY <1>2, <1>4 DEF Load, At, Go, Locals, IInv, TypeOK, Job
  <2>2. ~Compiling(c) /\ ~Compiling(c)'
    BY <2>1 DEF Compiling, At
  <2> QED
    BY <1>1, <2>2, OutsideStutters
<1>5. CASE PeekTree(c)
  <2>1. pc[c] = "peekTree" /\ pc'[c] \in {"unlock", "readHead"} /\ job'[c].tree = tree
    BY <1>2, <1>5 DEF PeekTree, At, Go, Locals, IInv, TypeOK, Job
  <2>2. ~Compiling(c)
    BY <2>1 DEF Compiling, At
  <2>3. CASE Compiling(c)'
    <3>1. Hoped(c)' \subseteq View /\ pc'[c] # "save"
      BY <2>1, <2>3 DEF Hoped, Compiling, At
    <3> QED
      BY <1>1, <2>1, <2>2, <2>3, <3>1, Begins
  <2> QED
    BY <1>1, <2>2, <2>3, OutsideStutters
<1>6. CASE ReadTree(c)
  <2>1. /\ pc[c] = "readTree" /\ pc'[c] = "build" /\ job'[c].tree = tree
        /\ job'[c].todo = job[c].todo
    BY <1>2, <1>6 DEF ReadTree, At, Go, Locals, IInv, TypeOK, Job
  <2>2. ~Compiling(c) /\ Compiling(c)'
    BY <2>1 DEF Compiling, At
  <2>3. Hoped(c)' \subseteq View
    BY <1>2, <2>1 DEF Hoped, At, FreshIn, Job
  <2> QED
    BY <1>1, <2>1, <2>2, <2>3, Begins
<1>7. CASE ReadHead(c)
  <2>1. PICK h \in 0 .. MaxCommits :
          Locals(c, [job[c] EXCEPT
                     !.head = h,
                     !.draft = Draft(job[c].existing, [JobSource(c) EXCEPT !.head = h])])
    BY <1>7 DEF ReadHead
  <2>2. /\ pc[c] = "readHead" /\ pc'[c] = IF job[c].force THEN "readTree" ELSE "build"
        /\ job'[c].tree = job[c].tree /\ job'[c].todo = job[c].todo
    BY <1>2, <1>7, <2>1 DEF ReadHead, At, Go, Locals, IInv, TypeOK, Job
  <2>3. CASE job[c].force
    <3>1. ~Compiling(c) /\ ~Compiling(c)'
      BY <2>2, <2>3 DEF Compiling, At
    <3> QED
      BY <1>1, <3>1, OutsideStutters
  <2>4. CASE ~job[c].force
    <3>1. Compiling(c) /\ Compiling(c)'
      BY <2>2, <2>4 DEF Compiling, At
    <3>2. Hoped(c) = View /\ Hoped(c)' \subseteq View
      BY <1>2, <2>2, <2>4 DEF Hoped, At, FreshIn, Job
    <3> QED
      BY <1>1, <2>2, <2>4, <3>1, <3>2, Drops
  <2> QED
    BY <2>3, <2>4
<1> QED
  BY <1>3, <1>4, <1>5, <1>6, <1>7

\* While the views are built, what may still become fresh only shrinks.
LEMMA BuildingSteps ==
  ASSUME IInv, NEW c \in Compiler, Solo(c),
         \/ \E v \in View : SkipView(c, v) \/ ReuseView(c, v) \/ BeginBuild(c, v)
         \/ ReadSource(c) \/ StartWriting(c) \/ MoveAside(c) \/ BuildSucceeds(c)
         \/ BuildFails(c) \/ FinalHead(c)
  PROVE  \E views \in SUBSET View : Promise!Drop(c, views)
<1>1. UNCHANGED <<tree, manifest>>
  BY DEF SkipView, ReuseView, BeginBuild, ReadSource, StartWriting, MoveAside,
         BuildSucceeds, BuildFails, FinalHead, repository, cache
<1>2. job[c] \in Job
  BY DEF IInv, TypeOK
<1>3. /\ pc[c] \in {"build", "reading", "writing", "publishing"}
      /\ pc'[c] \in {"build", "reading", "writing", "publishing", "finalTree"}
  BY DEF SkipView, ReuseView, BeginBuild, ReadSource, StartWriting, MoveAside,
         BuildSucceeds, InPosition, BuildFails, FinalHead, At, Go, IInv, TypeOK
<1>4. Compiling(c) /\ Compiling(c)'
  BY <1>3 DEF Compiling
<1>5. Hoped(c) = job[c].todo \cup FreshIn(job[c].draft)
      /\ Hoped(c)' = job'[c].todo \cup FreshIn(job[c].draft)'
  BY <1>3 DEF Hoped, At
<1>6. Hoped(c) \subseteq View
  BY <1>2, <1>5 DEF FreshIn, Job
<1>7. SUFFICES job'[c].tree = job[c].tree /\ Hoped(c)' \subseteq Hoped(c)
  BY <1>1, <1>3, <1>4, <1>6, Drops
\* The draft gets one entry, which is fresh only if its view was to be built or fresh.
<1>8. ASSUME NEW v \in View, NEW entry, NEW j, Locals(c, j),
             j.tree = job[c].tree, j.todo = job[c].todo \ {v},
             j.draft = Redrafted(c, v, entry),
             entry.status = "fresh" => v \in Hoped(c)
      PROVE  job'[c].tree = job[c].tree /\ Hoped(c)' \subseteq Hoped(c)
  <2>1. job'[c] = j
    BY <1>8 DEF Locals, IInv, TypeOK
  <2>2. \A w \in View : j.draft.entries[w] = IF w = v THEN entry ELSE job[c].draft.entries[w]
    BY <1>8, RedraftedView DEF IInv
  <2> QED
    BY <1>5, <1>8, <2>1, <2>2 DEF FreshIn
<1>9. ASSUME NEW v \in View, SkipView(c, v) PROVE Hoped(c)' \subseteq Hoped(c)
                                                   /\ job'[c].tree = job[c].tree
  <2> DEFINE old == Drafted(c, v)
             entry == IF job[c].force /\ old.status # "absent"
                      THEN [old EXCEPT !.status = "failed"] ELSE old
             j == [job[c] EXCEPT !.todo = @ \ {v}, !.succeeded = FALSE,
                                 !.draft = Redrafted(c, v, entry)]
  <2>1. entry.status = "fresh" => v \in Hoped(c)
    BY <1>2, <1>5 DEF Drafted, FreshIn, Job, Manifest, Entry
  <2>2. Locals(c, j)
    BY <1>9 DEF SkipView
  <2> HIDE DEF entry
  <2>3. j.tree = job[c].tree /\ j.todo = job[c].todo \ {v} /\ j.draft = Redrafted(c, v, entry)
    BY <1>2 DEF Job
  <2> HIDE DEF j
  <2> QED
    BY <1>8, <2>1, <2>2, <2>3
<1>10. CASE BuildSucceeds(c)
  <2> DEFINE v == job[c].building
             entry == [status |-> "fresh", source |-> JobSource(c), made |-> Built(c)]
             j == [job[c] EXCEPT !.todo = @ \ {v}, !.building = NoView, !.reads = {},
                                 !.aside = NoArtifact, !.draft = Redrafted(c, v, entry)]
  <2>1. v \in View /\ v \in Hoped(c)
    BY <1>5, <1>10 DEF BuildSucceeds, InPosition, At, IInv, DraftsOK, TypeOK
  <2>2. Locals(c, j)
    BY <1>10 DEF BuildSucceeds
  <2> HIDE DEF entry, v
  <2>3. j.tree = job[c].tree /\ j.todo = job[c].todo \ {v} /\ j.draft = Redrafted(c, v, entry)
    BY <1>2 DEF Job
  <2> HIDE DEF j
  <2> QED
    BY <1>8, <2>1, <2>2, <2>3
<1>11. CASE BuildFails(c)
  <2> DEFINE v == job[c].building
             entry == Failed(c, job[c].existing.entries[v])
             j == [job[c] EXCEPT !.todo = @ \ {v}, !.building = NoView, !.reads = {},
                                 !.aside = NoArtifact, !.succeeded = FALSE,
                                 !.draft = Redrafted(c, v, entry)]
  <2>1. v \in View /\ v \in Hoped(c)
    BY <1>5, <1>11 DEF BuildFails, IInv, DraftsOK, TypeOK
  <2>2. Locals(c, j)
    BY <1>11 DEF BuildFails
  <2> HIDE DEF entry, v
  <2>3. j.tree = job[c].tree /\ j.todo = job[c].todo \ {v} /\ j.draft = Redrafted(c, v, entry)
    BY <1>2 DEF Job
  <2> HIDE DEF j
  <2> QED
    BY <1>8, <2>1, <2>2, <2>3
<1>12. ASSUME \/ \E v \in View : ReuseView(c, v) \/ BeginBuild(c, v)
              \/ ReadSource(c) \/ StartWriting(c) \/ MoveAside(c) \/ FinalHead(c)
       PROVE  job'[c].tree = job[c].tree /\ Hoped(c)' \subseteq Hoped(c)
  <2> DEFINE Left(j) == j.tree = job[c].tree /\ j.draft = job[c].draft
                        /\ j.todo \subseteq job[c].todo \cup FreshIn(job[c].draft)
  <2>1. Left(job'[c])
    <3>1. ASSUME NEW v \in View, ReuseView(c, v) \/ BeginBuild(c, v) PROVE Left(job'[c])
      <4>1. CASE ReuseView(c, v)
        BY <1>2, <4>1 DEF ReuseView, Locals, IInv, TypeOK, Job
      <4>2. CASE BeginBuild(c, v)
        BY <1>2, <4>2 DEF BeginBuild, Locals, IInv, TypeOK, Job
      <4> QED
        BY <3>1, <4>1, <4>2
    <3>2. CASE ReadSource(c)
      BY <1>2, <3>2 DEF ReadSource, Locals, IInv, TypeOK, Job
    <3>3. CASE StartWriting(c)
      BY <3>3 DEF StartWriting
    <3>4. CASE FinalHead(c)
      BY <1>2, <3>4 DEF FinalHead, Locals, IInv, TypeOK, Job
    <3>5. CASE MoveAside(c)
      BY <1>2, <3>5 DEF MoveAside, Locals, IInv, TypeOK, Job
    <3> QED
      BY <1>12, <3>1, <3>2, <3>3, <3>4, <3>5
  <2>2. FreshIn(job[c].draft)' = FreshIn(job[c].draft)
    BY <2>1 DEF FreshIn
  <2> QED
    BY <1>5, <2>1, <2>2
<1> QED
  BY <1>9, <1>10, <1>11, <1>12

\* The second look: it finds the source unchanged, or nothing stays fresh.
LEMMA Looks ==
  ASSUME IInv, NEW c \in Compiler, Solo(c), FinalTree(c)
  PROVE  \E same \in BOOLEAN : Promise!Look(c, same)
<1> DEFINE entries == [v \in View |-> IF Moved(c) THEN Demoted(Drafted(c, v))
                                      ELSE Drafted(c, v)]
           last == IF job[c].succeeded /\ ~Moved(c) /\ AllAtHead(entries, JobSource(c))
                   THEN JobSource(c) ELSE LastIndexed(job[c].existing)
           draft == [job[c].draft EXCEPT !.entries = entries, !.last = last]
           aims == [d \in Compiler |-> Aim(d)]
           same == ~Moved(c)
<1>1. job[c] \in Job /\ job[c].draft \in Manifest
  BY DEF IInv, TypeOK, Job
<1>2. draft.entries = entries
  <2> HIDE DEF entries, last
  <2> QED
    BY <1>1 DEF Manifest
<1>3. job' = [job EXCEPT ![c] = [job[c] EXCEPT !.draft = draft]]
  BY DEF FinalTree, Locals
<1>4. /\ pc[c] = "finalTree" /\ pc'[c] = "save" /\ UNCHANGED <<tree, manifest>>
      /\ job[c].todo = {}
  BY DEF FinalTree, At, Go, IInv, TypeOK, DraftsOK, repository, cache
<1>5. job'[c].tree = job[c].tree /\ job'[c].todo = {} /\ job'[c].draft = draft
  <2> HIDE DEF draft
  <2> QED
    BY <1>1, <1>3, <1>4 DEF IInv, TypeOK, Job
<1>6. Hoped(c) = FreshIn(job[c].draft) /\ Hoped(c)' = FreshIn(draft)
  <2> HIDE DEF draft
  <2> QED
    BY <1>4, <1>5 DEF Hoped, At, FreshIn
<1>7. Hoped(c)' = IF same THEN Hoped(c) ELSE {}
  <2>1. \A v \in View : entries[v].status = "fresh" <=>
                        same /\ job[c].draft.entries[v].status = "fresh"
    BY <1>1 DEF Demoted, Drafted, Manifest, Entry
  <2>2. Hoped(c)' = {v \in View : entries[v].status = "fresh"}
    <3> HIDE DEF entries, draft
    <3> QED
      BY <1>2, <1>6 DEF FreshIn
  <2> HIDE DEF entries, same
  <2> QED
    BY <1>6, <2>1, <2>2 DEF FreshIn
<1>8. same => tree = job[c].tree
  BY DEF Moved
<1>9. /\ Compiling(c) /\ Compiling(c)'
      /\ aims[c] = [source |-> job[c].tree, fresh |-> Hoped(c), looked |-> FALSE]
      /\ Aim(c)' = [source |-> job[c].tree, fresh |-> Hoped(c)', looked |-> TRUE]
  BY <1>4, <1>5 DEF Aim, Compiling, At
<1>10. aims[c] # NoJob /\ ~aims[c].looked /\ aims[c].source = job[c].tree
  BY <1>9, AimIsNotNoJob
<1>11. aims' = [aims EXCEPT ![c] = [source |-> aims[c].source,
                                    fresh |-> IF same THEN aims[c].fresh ELSE {},
                                    looked |-> TRUE]]
  <2> HIDE DEF same, aims
  <2>1. aims[c].source = job[c].tree /\ aims[c].fresh = Hoped(c)
    BY <1>9
  <2>2. Aim(c)' = [source |-> aims[c].source,
                   fresh |-> IF same THEN aims[c].fresh ELSE {}, looked |-> TRUE]
    BY <1>7, <1>9, <2>1
  <2> QED
    BY <2>2, SoloAims DEF aims
<1>12. UNCHANGED Published /\ UNCHANGED {d \in Compiler : Compiling(d)}
  BY <1>4, <1>9, SoloAims DEF Published, HasSelection, FreshIn
<1>13. same \in BOOLEAN
  BY <1>1 DEF Moved, Job
<1> HIDE DEF same
<1> QED
  BY <1>4, <1>8, <1>10, <1>11, <1>12, <1>13 DEF Promise!Look

\* The draft replaces the manifest with what is known to be fresh in it.
LEMMA Saves ==
  ASSUME IInv, NEW c \in Compiler, Solo(c), Save(c)
  PROVE  Promise!Save(c)
<1> DEFINE aims == [d \in Compiler |-> Aim(d)]
<1>1. /\ pc[c] = "save" /\ pc'[c] = "unlock" /\ UNCHANGED tree /\ manifest' = job[c].draft
      /\ job[c].todo = {}
  BY DraftClosed DEF Save, At, Go, IInv, TypeOK, DraftsOK, repository
<1>2. Compiling(c) /\ ~Compiling(c)'
  BY <1>1 DEF Compiling, At
<1>3. aims[c] = [source |-> job[c].tree, fresh |-> FreshIn(job[c].draft), looked |-> TRUE]
  BY <1>1, <1>2 DEF Aim, Hoped, At
<1>4. Published' = [source |-> job[c].tree, fresh |-> FreshIn(job[c].draft)]
  <2>1. manifest'.format = "v1.2" /\ manifest'.source.tree = job[c].tree
    <3>1. job[c].draft.format = "v1.2" /\ job[c].draft.source = JobSource(c)
      BY <1>1 DEF IInv, Shape, Drafting
    <3>2. JobSource(c).tree = job[c].tree
      BY DEF JobSource
    <3> QED
      BY <1>1, <3>1, <3>2
  <2>2. FreshIn(manifest)' = FreshIn(job[c].draft)
    BY <1>1 DEF FreshIn
  <2> QED
    BY <2>1, <2>2 DEF Published, HasSelection
<1>5. aims[c] # NoJob /\ aims[c].looked
  BY <1>3, AimIsNotNoJob
<1>6. Published' = [source |-> aims[c].source, fresh |-> aims[c].fresh]
  BY <1>3, <1>4
<1>7. aims' = [aims EXCEPT ![c] = NoJob]
  BY <1>2, SoloAims DEF Aim, NoJob
<1>8. Promise!Lock!Leave(c)
  BY <1>2, SoloAims DEF Promise!Lock!Leave
<1> QED
  BY <1>1, <1>5, <1>6, <1>7, <1>8 DEF Promise!Save

LEMMA Quits ==
  ASSUME IInv, NEW c \in Compiler, Solo(c), Abandon(c)
  PROVE  UNCHANGED Promise!vars \/ Promise!Quit(c)
<1> DEFINE aims == [d \in Compiler |-> Aim(d)]
<1>1. pc'[c] = "idle" /\ UNCHANGED <<tree, manifest>>
  BY DEF Abandon, Go, IInv, TypeOK, repository, cache
<1>2. ~Compiling(c)'
  BY <1>1 DEF Compiling, At
<1>3. CASE Compiling(c)
  <2>1. Promise!Lock!Leave(c)
    BY <1>2, <1>3, SoloAims DEF Promise!Lock!Leave
  <2>2. aims' = [aims EXCEPT ![c] = NoJob]
    BY <1>2, SoloAims DEF Aim, NoJob
  <2>3. UNCHANGED Published
    BY <1>1 DEF Published, HasSelection, FreshIn
  <2> QED
    BY <1>1, <2>1, <2>2, <2>3 DEF Promise!Quit
<1> QED
  BY <1>1, <1>2, <1>3, OutsideStutters

LEMMA RepositorySteps ==
  ASSUME IInv, IInv', Edit \/ Commit \/ UNCHANGED vars
  PROVE  UNCHANGED Promise!vars \/ \E s \in Tree : Promise!Change(s)
<1>1. UNCHANGED <<manifest, pc, job>>
  BY DEF Edit, Commit, vars, cache
<1>2. \A c \in Compiler : Compiling(c)' = Compiling(c) /\ Aim(c)' = Aim(c)
  BY <1>1 DEF Compiling, Aim, Hoped, FreshIn, At, NoJob
<1>3. /\ UNCHANGED Published
      /\ {c \in Compiler : Compiling(c)}' = {c \in Compiler : Compiling(c)}
      /\ [c \in Compiler |-> Aim(c)]' = [c \in Compiler |-> Aim(c)]
  BY <1>1, <1>2 DEF Published, HasSelection, FreshIn
<1>4. tree' \in Tree
  BY DEF IInv, TypeOK
<1> QED
  BY <1>3, <1>4 DEF Promise!Change

LEMMA PromiseInit == Init => Promise!Init
<1> SUFFICES ASSUME Init PROVE Promise!Init
  OBVIOUS
<1>1. TypeOK
  BY InitTypeOK
<1>2. \A c \in Compiler : ~Compiling(c) /\ Aim(c) = NoJob
  BY DEF Init, Compiling, Aim, At
<1>3. ~HasSelection(manifest)
  BY DEF Init, HasSelection, NoManifest, Legacy
<1>4. Published \in Promise!Manifest
  BY <1>3 DEF Published, Promise!Manifest
<1> QED
  BY <1>1, <1>2, <1>4 DEF Promise!Init, TypeOK

\* A compile keeps the promise of AbstractIndex: whatever it publishes as fresh
\* was found unchanged by its second look at the source, and every other step
\* changes nothing that the users of the cache directory see.
THEOREM CompilerImplementsIndex == Spec => ImplementsAbstractIndex
<1>1. ASSUME IInv, IInv', [Next]_vars PROVE [Promise!Next]_Promise!vars
  <2>1. ASSUME NEW c \in Compiler,
               Start(c) \/ Step(c) \/ ReadSource(c) \/ BuildFails(c) \/ Abandon(c)
        PROVE  \/ UNCHANGED Promise!vars
               \/ \E views \in SUBSET View : Promise!Begin(c, views) \/ Promise!Drop(c, views)
               \/ \E same \in BOOLEAN : Promise!Look(c, same)
               \/ Promise!Save(c) \/ Promise!Quit(c)
    <3>1. Solo(c)
      BY <1>1, <2>1, StepsAreSolo
    <3>2. \/ \/ Start(c) \/ Load(c) \/ PeekHead(c) \/ PeekTree(c) \/ ReadHead(c)
             \/ ReadTree(c) \/ Unlock(c)
          \/ \/ \E v \in View : SkipView(c, v) \/ ReuseView(c, v) \/ BeginBuild(c, v)
             \/ ReadSource(c) \/ StartWriting(c) \/ MoveAside(c) \/ BuildSucceeds(c)
             \/ BuildFails(c) \/ FinalHead(c)
          \/ FinalTree(c) \/ Save(c) \/ Abandon(c)
      BY <2>1 DEF Step
    <3> QED
      BY <1>1, <3>1, <3>2, EarlySteps, BuildingSteps, Looks, Saves, Quits
  <2>2. CASE Edit \/ Commit \/ UNCHANGED vars
    BY <1>1, <2>2, RepositorySteps DEF Promise!Next
  <2> QED
    BY <1>1, <2>1, <2>2 DEF Next, Promise!Next
<1> QED
  BY <1>1, PromiseInit, Invariance, PTL DEF Spec, ImplementsAbstractIndex, Promise!Spec
-----------------------------------------------------------------------------
(* The manifest and the files it describes.                                 *)

\* The compilers' lock is the lock that CacheLock implements: one compiler is
\* past its acquisition at a time, and only its own step takes it out again.
THEOREM CompilersLock == Spec => Lock!Spec
<1>1. Init => Lock!Init
  BY DEF Init, Lock!Init
<1>2. ASSUME IInv, [Next]_vars PROVE [Lock!Next]_holders
  <2>1. CASE Edit \/ Commit \/ UNCHANGED vars
    BY <2>1 DEF Edit, Commit, vars
  <2>2. ASSUME NEW c \in Compiler, Start(c) \/ Unlock(c) \/ Abandon(c)
        PROVE  Lock!Next
    BY <2>2 DEF Start, Unlock, Abandon, Lock!Next
  <2>3. ASSUME NEW c \in Compiler, Step(c), ~Unlock(c) PROVE UNCHANGED holders
    BY <2>3 DEF Step, Load, PeekHead, PeekTree, ReadHead, ReadTree, SkipView, ReuseView,
               BeginBuild, StartWriting, MoveAside, BuildSucceeds, FinalHead, FinalTree,
               Save
  <2>4. ASSUME NEW c \in Compiler, ReadSource(c) \/ BuildFails(c) PROVE UNCHANGED holders
    BY <2>4 DEF ReadSource, BuildFails
  <2> QED
    BY <1>2, <2>1, <2>2, <2>3, <2>4 DEF Next
<1> QED
  BY <1>1, <1>2, Invariance, PTL DEF Spec, Lock!Spec

\* The compile is replacing the view's artifact, and there is none on disk: an in-place
\* builder writes over it, or a publication is between its two renames.
HalfWritten(c, v) ==
  /\ v = job[c].building
  /\ \/ pc[c] = "publishing"
     \/ pc[c] = "writing" /\ v \in InPlace

\* What the manifest describes is there, or about to be replaced.
Whole(v) ==
  manifest.entries[v].made # NoArtifact =>
    artifact[v] # NoArtifact \/ \E c \in Compiler : HalfWritten(c, v)

\* A death, or a build or publication that fails and undoes nothing, in the middle of
\* the replacement.
CutOff(c, v) ==
  /\ HalfWritten(c, v) /\ ~HalfWritten(c, v)'
  /\ artifact'[v] = NoArtifact /\ faults' = faults + 1

LostWhenCutOff ==
  /\ \A v \in View : Whole(v)
  /\ [][\A v \in View : Whole(v) => Whole(v)' \/ \E c \in Compiler : CutOff(c, v)]_vars

LEMMA MovesAside ==
  ASSUME IInv, NEW c \in Compiler, MoveAside(c), NEW v \in View
  PROVE  artifact'[v] = artifact[v] \/ HalfWritten(c, v)'
<1>1. job'[c].building = job[c].building /\ pc'[c] = "publishing"
  BY DEF MoveAside, Locals, Go, IInv, TypeOK, Job
<1> QED
  BY <1>1 DEF MoveAside, HalfWritten, IInv, TypeOK

\* Whoever is replacing an artifact goes on with it, ends with one in place, or is cut off.
LEMMA ReplacementEnds ==
  ASSUME IInv, [Next]_vars, NEW c \in Compiler, NEW v \in View, HalfWritten(c, v)
  PROVE  HalfWritten(c, v)' \/ artifact'[v] # NoArtifact \/ CutOff(c, v)
<1>1. pc[c] \in {"writing", "publishing"}
  BY DEF HalfWritten
<1>2. Built(c) # NoArtifact /\ job[c] \in Job
  BY BuiltType, NoArtifactAssumption DEF IInv, TypeOK
<1>3. CASE ReadSource(c) \/ MoveAside(c)
  BY <1>3 DEF HalfWritten, ReadSource, MoveAside, At, Locals, IInv, TypeOK, Job
<1>4. CASE BuildSucceeds(c)
  BY <1>2, <1>4 DEF BuildSucceeds, HalfWritten, IInv, TypeOK
<1>5. CASE BuildFails(c) \/ Abandon(c)
  BY <1>1, <1>5 DEF BuildFails, Abandon, HalfWritten, CutOff, Go, IInv, TypeOK
<1>6. CASE UNCHANGED <<pc, job>>
  BY <1>6 DEF HalfWritten
<1>7. ASSUME NEW d \in Compiler,
             Start(d) \/ Step(d) \/ ReadSource(d) \/ BuildFails(d) \/ Abandon(d)
      PROVE  d = c
  BY <1>1, <1>7, StepsAreSolo DEF Solo
<1>8. ASSUME Step(c) PROVE MoveAside(c) \/ BuildSucceeds(c)
  BY <1>1, <1>8 DEF Step, Load, PeekHead, PeekTree, ReadHead, ReadTree, SkipView, ReuseView,
             BeginBuild, StartWriting, FinalHead, FinalTree, Save, Unlock, At
<1>9. ~Start(c)
  BY <1>1 DEF Start, At
<1>10. Edit \/ Commit \/ UNCHANGED vars => UNCHANGED <<pc, job>>
  BY DEF Edit, Commit, vars
<1> QED
  BY <1>3, <1>4, <1>5, <1>6, <1>7, <1>8, <1>9, <1>10 DEF Next

\* An artifact is taken away only to be replaced.
LEMMA ArtifactStays ==
  ASSUME IInv, [Next]_vars, NEW v \in View, artifact[v] # NoArtifact
  PROVE  artifact'[v] # NoArtifact \/ \E c \in Compiler : HalfWritten(c, v)' \/ CutOff(c, v)
<1>1. ASSUME NEW c \in Compiler, StartWriting(c)
      PROVE  artifact'[v] # NoArtifact \/ HalfWritten(c, v)'
  BY <1>1 DEF StartWriting, HalfWritten, Go, IInv, TypeOK
<1>2. ASSUME NEW c \in Compiler, MoveAside(c)
      PROVE  artifact'[v] # NoArtifact \/ HalfWritten(c, v)'
  BY <1>2, MovesAside
<1>3. ASSUME NEW c \in Compiler, BuildSucceeds(c)
      PROVE  artifact'[v] # NoArtifact
  BY <1>3, BuiltType, NoArtifactAssumption DEF BuildSucceeds, IInv, TypeOK
<1>4. ASSUME NEW c \in Compiler, BuildFails(c)
      PROVE  artifact'[v] # NoArtifact \/ CutOff(c, v)
  <2>1. Built(c) # NoArtifact
    BY BuiltType, NoArtifactAssumption DEF IInv
  <2>2. CASE pc[c] = "publishing" /\ v = job[c].building
    BY <2>2, <1>4, ReplacementEnds DEF BuildFails, HalfWritten, Go, IInv, TypeOK
  <2> QED
    BY <1>4, <2>1, <2>2 DEF BuildFails, At, IInv, TypeOK
<1>5. ASSUME NEW c \in Compiler, Step(c), ~StartWriting(c), ~MoveAside(c), ~BuildSucceeds(c)
      PROVE  UNCHANGED artifact
  BY <1>5 DEF Step, Load, PeekHead, PeekTree, ReadHead, ReadTree, SkipView, ReuseView,
             BeginBuild, FinalHead, FinalTree, Save, Unlock, cache
<1>6. ASSUME NEW c \in Compiler, Start(c) \/ ReadSource(c) \/ Abandon(c)
      PROVE  UNCHANGED artifact
  BY <1>6 DEF Start, ReadSource, Abandon, cache
<1>7. CASE Edit \/ Commit \/ UNCHANGED vars
  BY <1>7 DEF Edit, Commit, vars, cache
<1> QED
  BY <1>1, <1>2, <1>3, <1>4, <1>5, <1>6, <1>7 DEF Next

\* What the manifest describes is on disk or being replaced, until a death or a failure
\* in the middle of a replacement; a staged view runs that risk only between the two
\* renames of its publication, an in-place one while it is written.
THEOREM ArtifactsAreLostWhenCutOff == Spec => LostWhenCutOff
<1>1. Init => \A v \in View : Whole(v)
  <2> SUFFICES ASSUME Init, NEW v \in View PROVE Whole(v)
    OBVIOUS
  <2>1. CASE /\ manifest \in {NoManifest, [NoManifest EXCEPT !.format = "unreadable"]}
             /\ artifact = [w \in View |-> NoArtifact]
    BY <2>1 DEF Whole, NoManifest, NoEntry
  <2>2. ASSUME NEW made, manifest = Legacy(made), artifact = [w \in View |-> made]
        PROVE  Whole(v)
    BY <2>2 DEF Whole, Legacy
  <2> QED
    BY <2>1, <2>2 DEF Init
<1>2. ASSUME IInv, [Next]_vars, NEW v \in View, Whole(v)
      PROVE  Whole(v)' \/ \E c \in Compiler : CutOff(c, v)
  <2>1. SUFFICES ASSUME manifest'.entries[v].made # NoArtifact, artifact'[v] = NoArtifact
                 PROVE  \E c \in Compiler : HalfWritten(c, v)' \/ CutOff(c, v)
    BY DEF Whole
  <2>2. CASE UNCHANGED manifest
    BY <1>2, <2>1, <2>2, ArtifactStays, ReplacementEnds DEF Whole
  <2>3. ASSUME NEW c \in Compiler, Save(c), manifest' = job[c].draft PROVE FALSE
    <3>1. /\ \/ manifest'.entries[v].made = artifact[v]
             \/ manifest'.entries[v].made = job[c].existing.entries[v].made
          /\ UNCHANGED artifact
      BY <1>2, <2>3, AtSave DEF ViewOK, Save
    <3>2. job[c].existing.entries[v].made \in {manifest.entries[v].made, NoArtifact}
      BY <1>2, <2>3, AtSave DEF Existing, NoManifest, NoEntry
    <3>3. \A d \in Compiler : ~HalfWritten(d, v)
      BY <1>2, <2>3 DEF Save, At, HalfWritten, IInv, Alone
    <3> QED
      BY <1>2, <2>1, <3>1, <3>2, <3>3 DEF Whole
  <2> QED
    BY <1>2, <2>2, <2>3, OnlySavesChange
<1>3. IInv /\ [Next]_vars =>
        [\A v \in View : Whole(v) => Whole(v)' \/ \E c \in Compiler : CutOff(c, v)]_vars
  BY <1>2
<1> QED
  BY <1>1, <1>3, Invariance, PTL DEF Spec, LostWhenCutOff

\* Until a build fails, a process dies or git does not answer, the manifest
\* describes the artifacts on disk whenever no compile is building, and a draft
\* describes all of them but the one that is being replaced.
DraftOnDisk ==
  \A c \in Compiler : pc[c] \in Drafting =>
    \A v \in View : job[c].draft.entries[v].made = artifact[v] \/ HalfWritten(c, v)

ManifestOnDisk ==
  (\A c \in Compiler : pc[c] \notin Drafting) =>
    \A v \in View : manifest.entries[v].made = artifact[v]

OnDiskUntilAFault == faults = 0 => DraftOnDisk /\ ManifestOnDisk

\* A compile that is drafting, looked at alone.
LEMMA DraftingOnDisk ==
  ASSUME NEW c \in Compiler, \A d \in Compiler : pc'[d] # "idle" => d = c,
         pc'[c] \in Drafting,
         \A v \in View : job'[c].draft.entries[v].made = artifact'[v] \/ HalfWritten(c, v)'
  PROVE  OnDiskUntilAFault'
<1>1. \A d \in Compiler : pc'[d] \in Drafting => d = c
  BY DEF Drafting
<1> QED
  BY <1>1 DEF OnDiskUntilAFault, DraftOnDisk, ManifestOnDisk

\* Nobody is drafting, before or after.
LEMMA QuietOnDisk ==
  ASSUME OnDiskUntilAFault, faults' = 0 => faults = 0, UNCHANGED <<manifest, artifact>>,
         \A d \in Compiler : pc[d] \notin Drafting /\ pc'[d] \notin Drafting
  PROVE  OnDiskUntilAFault'
  BY DEF OnDiskUntilAFault, DraftOnDisk, ManifestOnDisk

LEMMA FaultsStay == ASSUME IInv, [Next]_vars, faults' = 0 PROVE faults = 0
<1>1. faults \in Nat
  BY BoundAssumption DEF IInv, TypeOK
<1>2. \A h : GitSays(h) => faults = 0
  BY <1>1 DEF GitSays
<1>3. ASSUME NEW c \in Compiler, Step(c) PROVE faults = 0
  BY <1>2, <1>3 DEF Step, Load, PeekHead, PeekTree, ReadHead, ReadTree, SkipView, ReuseView,
             BeginBuild, StartWriting, MoveAside, BuildSucceeds, FinalHead, FinalTree,
             Save, Unlock
<1>4. ASSUME NEW c \in Compiler, Start(c) \/ ReadSource(c) \/ BuildFails(c) \/ Abandon(c)
      PROVE  faults = 0
  <2>1. UNCHANGED faults \/ faults' = faults + 1
    BY <1>4 DEF Start, ReadSource, BuildFails, Abandon
  <2> QED
    BY <1>1, <2>1
<1>5. CASE Edit \/ Commit \/ UNCHANGED vars
  BY <1>5 DEF Edit, Commit, vars
<1> QED
  BY <1>3, <1>4, <1>5 DEF Next

LEMMA UndraftedOnDisk ==
  ASSUME IInv, OnDiskUntilAFault, [Next]_vars, NEW c \in Compiler,
         Start(c) \/ Load(c) \/ PeekHead(c) \/ PeekTree(c) \/ Unlock(c)
  PROVE  OnDiskUntilAFault'
<1>1. Solo(c)
  BY StepsAreSolo DEF Step
<1>2. /\ pc[c] \in {"idle", "load", "peekHead", "peekTree", "unlock"}
      /\ pc'[c] \in {"load", "readHead", "peekHead", "peekTree", "unlock", "idle"}
  BY DEF Start, Load, PeekHead, PeekTree, Unlock, At, Go, IInv, TypeOK
<1>3. \A d \in Compiler : pc[d] \notin Drafting /\ pc'[d] \notin Drafting
  BY <1>1, <1>2 DEF Solo, Drafting
<1>4. UNCHANGED <<manifest, artifact>>
  BY DEF Start, Load, PeekHead, PeekTree, Unlock, cache
<1> QED
  BY <1>3, <1>4, FaultsStay, QuietOnDisk

\* A new draft describes what the manifest describes.
LEMMA ReadOnDisk ==
  ASSUME IInv, OnDiskUntilAFault, [Next]_vars, NEW c \in Compiler,
         ReadHead(c) \/ ReadTree(c)
  PROVE  OnDiskUntilAFault'
<1>1. Solo(c)
  BY StepsAreSolo DEF Step
<1>2. /\ pc[c] \in {"readHead", "readTree"} /\ pc'[c] \in {"readTree", "build"}
      /\ UNCHANGED <<manifest, artifact>>
  BY DEF ReadHead, ReadTree, At, Go, IInv, TypeOK, cache
<1>3. \A d \in Compiler : pc[d] \notin Drafting
  BY <1>1, <1>2 DEF Solo, Drafting
<1>4. CASE pc'[c] = "readTree"
  <2>1. \A d \in Compiler : pc'[d] \notin Drafting
    BY <1>1, <1>4 DEF Solo, Drafting
  <2> QED
    BY <1>2, <1>3, <2>1, FaultsStay, QuietOnDisk
<1>5. CASE pc'[c] = "build" /\ faults' = 0
  <2>1. \A v \in View : manifest.entries[v].made = artifact[v]
    BY <1>3, <1>5, FaultsStay DEF OnDiskUntilAFault, ManifestOnDisk
  <2>2. \A v \in View : job[c].existing.entries[v].made = manifest.entries[v].made
    BY <1>2 DEF IInv, Kept, Loaded, Label, Existing, NothingRead
  <2>3. PICK source \in Source : job'[c].draft = Draft(job[c].existing, source)
    <3>1. ASSUME NEW h \in 0 .. MaxCommits, Locals(c,
            [job[c] EXCEPT
             !.head = h,
             !.draft = Draft(job[c].existing, [JobSource(c) EXCEPT !.head = h])])
          PROVE  \E source \in Source : job'[c].draft = Draft(job[c].existing, source)
      <4>1. [JobSource(c) EXCEPT !.head = h] \in Source
        BY DEF JobSource, Source, IInv, TypeOK, Job
      <4>2. job'[c].draft = Draft(job[c].existing, [JobSource(c) EXCEPT !.head = h])
        BY <3>1 DEF Locals, IInv, TypeOK, Job
      <4> QED
        BY <4>1, <4>2
    <3>2. ASSUME ReadTree(c)
          PROVE  \E source \in Source : job'[c].draft = Draft(job[c].existing, source)
      <4>1. [JobSource(c) EXCEPT !.tree = tree] \in Source
        BY DEF JobSource, Source, IInv, TypeOK, Job
      <4>2. job'[c].draft = Draft(job[c].existing, [JobSource(c) EXCEPT !.tree = tree])
        BY <3>2 DEF ReadTree, Locals, IInv, TypeOK, Job
      <4> QED
        BY <4>1, <4>2
    <3> QED
      BY <3>1, <3>2 DEF ReadHead
  <2>4. job[c].existing \in Manifest
    BY DEF IInv, TypeOK, Job
  <2>5. \A v \in View : job'[c].draft.entries[v].made = artifact'[v]
    BY <1>2, <2>1, <2>2, <2>3, <2>4, CarriedView
  <2> QED
    BY <1>1, <1>5, <2>5, DraftingOnDisk DEF Solo, Drafting
<1> QED
  BY <1>2, <1>4, <1>5 DEF OnDiskUntilAFault

\* What the compile that drafts knows before its step.
LEMMA DraftKnown ==
  ASSUME OnDiskUntilAFault, faults = 0, NEW c \in Compiler, pc[c] \in Drafting, NEW v \in View
  PROVE  job[c].draft.entries[v].made = artifact[v] \/ HalfWritten(c, v)
  BY DEF OnDiskUntilAFault, DraftOnDisk

\* Steps that change neither what a draft describes nor a finished artifact.
LEMMA KeepsOnDisk ==
  ASSUME IInv, OnDiskUntilAFault, [Next]_vars, NEW c \in Compiler, Solo(c),
         pc[c] \in Drafting, pc'[c] \in Drafting,
         \A v \in View :
           /\ job'[c].draft.entries[v].made = job[c].draft.entries[v].made
           /\ artifact'[v] = artifact[v] \/ HalfWritten(c, v)'
           /\ HalfWritten(c, v) => HalfWritten(c, v)'
  PROVE  OnDiskUntilAFault'
<1>1. CASE faults' = 0
  <2>1. faults = 0
    BY <1>1, FaultsStay
  <2>2. \A v \in View : job'[c].draft.entries[v].made = artifact'[v] \/ HalfWritten(c, v)'
    BY <2>1, DraftKnown
  <2> QED
    BY <2>2, DraftingOnDisk DEF Solo
<1> QED
  BY <1>1 DEF OnDiskUntilAFault

LEMMA ReaderOnDisk ==
  ASSUME IInv, OnDiskUntilAFault, [Next]_vars, NEW c \in Compiler,
         \/ \E v \in View : ReuseView(c, v) \/ BeginBuild(c, v)
         \/ ReadSource(c) \/ StartWriting(c) \/ MoveAside(c) \/ FinalHead(c)
  PROVE  OnDiskUntilAFault'
<1>1. Solo(c)
  BY StepsAreSolo DEF Step
<1>2. pc[c] \in Drafting /\ pc'[c] \in Drafting
  BY DEF ReuseView, BeginBuild, ReadSource, StartWriting, MoveAside, FinalHead, At, Go, IInv,
         TypeOK, Drafting
<1>3. job'[c].draft = job[c].draft
  <2>1. ASSUME NEW v \in View, ReuseView(c, v) \/ BeginBuild(c, v)
        PROVE  job'[c].draft = job[c].draft
    <3>1. CASE ReuseView(c, v)
      BY <3>1 DEF ReuseView, Locals, IInv, TypeOK, Job
    <3>2. CASE BeginBuild(c, v)
      BY <3>2 DEF BeginBuild, Locals, IInv, TypeOK, Job
    <3> QED
      BY <2>1, <3>1, <3>2
  <2>2. CASE ReadSource(c)
    BY <2>2 DEF ReadSource, Locals, IInv, TypeOK, Job
  <2>3. CASE FinalHead(c)
    BY <2>3 DEF FinalHead, Locals, IInv, TypeOK, Job
  <2>4. CASE StartWriting(c)
    BY <2>4 DEF StartWriting
  <2>5. CASE MoveAside(c)
    BY <2>5 DEF MoveAside, Locals, IInv, TypeOK, Job
  <2> QED
    BY <2>1, <2>2, <2>3, <2>4, <2>5
<1>4. ASSUME NEW v \in View
      PROVE  artifact'[v] = artifact[v] \/ HalfWritten(c, v)'
  <2>1. CASE MoveAside(c)
    BY <2>1, MovesAside
  <2> QED
    BY <2>1 DEF ReuseView, BeginBuild, ReadSource, StartWriting, FinalHead, cache,
                HalfWritten, At, Go, IInv, TypeOK
<1>5. ASSUME NEW v \in View, HalfWritten(c, v) PROVE HalfWritten(c, v)'
  <2>1. pc[c] \in {"writing", "publishing"}
    BY <1>5 DEF HalfWritten
  <2>2. CASE ReadSource(c)
    BY <1>5, <2>2 DEF HalfWritten, ReadSource, Locals, IInv, TypeOK, Job
  <2>3. CASE MoveAside(c)
    BY <1>5, <2>3 DEF HalfWritten, MoveAside, At
  <2> QED
    BY <2>1, <2>2, <2>3 DEF ReuseView, BeginBuild, StartWriting, FinalHead, At
<1> QED
  BY <1>1, <1>2, <1>3, <1>4, <1>5, KeepsOnDisk

LEMMA SkipOnDisk ==
  ASSUME IInv, OnDiskUntilAFault, [Next]_vars, NEW c \in Compiler, NEW v \in View,
         SkipView(c, v)
  PROVE  OnDiskUntilAFault'
<1> DEFINE entry == Drafted(c, v)
           given == IF job[c].force /\ entry.status # "absent"
                    THEN [entry EXCEPT !.status = "failed"] ELSE entry
<1>1. Solo(c)
  BY StepsAreSolo DEF Step
<1>2. pc[c] = "build" /\ pc'[c] = "build" /\ UNCHANGED artifact
  BY DEF SkipView, At, cache
<1>3. entry \in Entry
  BY DEF IInv, TypeOK, Job, Manifest, Drafted
<1>4. given.made = entry.made
  BY <1>3 DEF Entry
<1>5. job'[c].draft = Redrafted(c, v, given)
  <2>1. Locals(c, [job[c] EXCEPT !.todo = @ \ {v}, !.succeeded = FALSE,
                              !.draft = Redrafted(c, v, given)])
    BY DEF SkipView
  <2> HIDE DEF given
  <2> QED
    BY <2>1 DEF Locals, IInv, TypeOK, Job
<1>6. ASSUME NEW w \in View
      PROVE  job'[c].draft.entries[w].made = job[c].draft.entries[w].made
  <2> HIDE DEF given
  <2> QED
    BY <1>4, <1>5, RedraftedView DEF IInv, Drafted
<1>7. \A w \in View : ~HalfWritten(c, w)
  BY <1>2 DEF HalfWritten
<1> QED
  BY <1>1, <1>2, <1>6, <1>7, KeepsOnDisk DEF Drafting

LEMMA FinalTreeOnDisk ==
  ASSUME IInv, OnDiskUntilAFault, [Next]_vars, NEW c \in Compiler, FinalTree(c)
  PROVE  OnDiskUntilAFault'
<1> DEFINE entries == [v \in View |-> IF Moved(c) THEN Demoted(Drafted(c, v))
                                      ELSE Drafted(c, v)]
           last == IF job[c].succeeded /\ ~Moved(c) /\ AllAtHead(entries, JobSource(c))
                   THEN JobSource(c) ELSE LastIndexed(job[c].existing)
           draft == [job[c].draft EXCEPT !.entries = entries, !.last = last]
<1>1. Solo(c)
  BY StepsAreSolo DEF Step
<1>2. pc[c] = "finalTree" /\ pc'[c] = "save" /\ UNCHANGED artifact
  BY DEF FinalTree, At, Go, IInv, TypeOK, cache
<1>3. job[c].draft \in Manifest
  BY DEF IInv, TypeOK, Job
<1>4. job'[c].draft.entries = entries
  <2>1. Locals(c, [job[c] EXCEPT !.draft = draft])
    BY DEF FinalTree
  <2> HIDE DEF entries, last
  <2> QED
    BY <1>3, <2>1 DEF Locals, IInv, TypeOK, Job, Manifest
<1>5. ASSUME NEW v \in View
      PROVE  job'[c].draft.entries[v].made = job[c].draft.entries[v].made
  <2>1. Drafted(c, v) \in Entry
    BY <1>3 DEF Drafted, Manifest
  <2>2. Demoted(Drafted(c, v)).made = Drafted(c, v).made
    BY <2>1 DEF Demoted, Entry
  <2> QED
    BY <1>4, <2>2 DEF Drafted
<1>6. \A w \in View : ~HalfWritten(c, w)
  BY <1>2 DEF HalfWritten
<1> QED
  BY <1>1, <1>2, <1>5, <1>6, KeepsOnDisk DEF Drafting

\* The artifact is complete and the draft describes it.
LEMMA BuiltOnDisk ==
  ASSUME IInv, OnDiskUntilAFault, [Next]_vars, NEW c \in Compiler, BuildSucceeds(c)
  PROVE  OnDiskUntilAFault'
<1> DEFINE v == job[c].building
           entry == [status |-> "fresh", source |-> JobSource(c), made |-> Built(c)]
           j == [job[c] EXCEPT !.todo = @ \ {v}, !.building = NoView, !.reads = {},
                               !.aside = NoArtifact, !.draft = Redrafted(c, v, entry)]
<1>1. Solo(c)
  BY StepsAreSolo DEF Step
<1>2. pc[c] \in Building /\ pc'[c] = "build" /\ v \in View
  BY DEF BuildSucceeds, InPosition, At, Go, IInv, TypeOK
<1>3. artifact'[v] = Built(c) /\ \A w \in View \ {v} : artifact'[w] = artifact[w]
  BY <1>2 DEF BuildSucceeds, IInv, TypeOK
<1>4. entry.made = Built(c)
  OBVIOUS
<1>5. job'[c].draft = Redrafted(c, v, entry)
  <2>1. Locals(c, j)
    BY DEF BuildSucceeds
  <2> HIDE DEF entry
  <2> QED
    BY <2>1 DEF Locals, IInv, TypeOK, Job
<1> HIDE DEF entry, j
<1>6. CASE faults' = 0
  <2>1. ASSUME NEW w \in View PROVE job'[c].draft.entries[w].made = artifact'[w]
    <3>1. faults = 0
      BY <1>6, FaultsStay
    <3>2. w # v => job[c].draft.entries[w].made = artifact[w]
      BY <1>2, <3>1, DraftKnown DEF HalfWritten, Drafting
    <3>3. job'[c].draft.entries[w] = IF w = v THEN entry ELSE job[c].draft.entries[w]
      BY <1>2, <1>5, RedraftedView DEF IInv
    <3> QED
      BY <1>3, <1>4, <3>2, <3>3
  <2> QED
    BY <1>1, <1>2, <2>1, DraftingOnDisk DEF Solo, Drafting
<1> QED
  BY <1>6 DEF OnDiskUntilAFault

LEMMA SaveOnDisk ==
  ASSUME IInv, OnDiskUntilAFault, [Next]_vars, NEW c \in Compiler, Save(c)
  PROVE  OnDiskUntilAFault'
<1>1. Solo(c)
  BY StepsAreSolo DEF Step
<1>2. /\ pc[c] = "save" /\ pc'[c] = "unlock" /\ UNCHANGED artifact
      /\ manifest' = job[c].draft
  BY DraftClosed DEF Save, At, Go, IInv, TypeOK
<1>3. \A d \in Compiler : pc'[d] \notin Drafting
  BY <1>1, <1>2 DEF Solo, Drafting
<1>4. CASE faults' = 0
  <2>1. \A v \in View : job[c].draft.entries[v].made = artifact[v]
    BY <1>2, <1>4, FaultsStay, DraftKnown DEF HalfWritten, Drafting
  <2> QED
    BY <1>2, <1>3, <2>1 DEF OnDiskUntilAFault, DraftOnDisk, ManifestOnDisk
<1> QED
  BY <1>4 DEF OnDiskUntilAFault

\* Without faults the manifest and the artifacts never disagree for longer than
\* a build: a manifest that describes a half-written or replaced artifact takes
\* a failed build, a death or a git that does not answer.
THEOREM ManifestMatchesTheDisk == Spec => []OnDiskUntilAFault
<1>1. Init => OnDiskUntilAFault
  <2> SUFFICES ASSUME Init PROVE OnDiskUntilAFault
    OBVIOUS
  <2>1. \A v \in View : manifest.entries[v].made = artifact[v]
    <3>1. CASE /\ manifest \in {NoManifest, [NoManifest EXCEPT !.format = "unreadable"]}
               /\ artifact = [v \in View |-> NoArtifact]
      <4>1. manifest.format \in {"absent", "unreadable"}
        BY <3>1 DEF NoManifest
      <4>2. manifest.entries = NoManifest.entries
        BY <4>1, InitIInv DEF IInv, NothingRead, Readable
      <4>3. artifact = [v \in View |-> NoArtifact]
        BY <3>1
      <4>4. NoManifest.entries = [v \in View |-> NoEntry] /\ NoEntry.made = NoArtifact
        BY DEF NoManifest, NoEntry
      <4> QED
        BY <4>2, <4>3, <4>4
    <3>2. ASSUME NEW made, manifest = Legacy(made), artifact = [v \in View |-> made]
          PROVE  \A v \in View : manifest.entries[v].made = artifact[v]
      BY <3>2 DEF Legacy
    <3> QED
      BY <3>1, <3>2 DEF Init
  <2> QED
    BY <2>1 DEF Init, OnDiskUntilAFault, DraftOnDisk, ManifestOnDisk, Drafting
<1>2. ASSUME IInv, OnDiskUntilAFault, [Next]_vars PROVE OnDiskUntilAFault'
  <2>1. CASE Edit \/ Commit \/ UNCHANGED vars
    <3>1. UNCHANGED <<manifest, artifact, pc, job, faults>>
      BY <2>1 DEF Edit, Commit, vars, cache
    <3> QED
      BY <1>2, <3>1 DEF OnDiskUntilAFault, DraftOnDisk, ManifestOnDisk, HalfWritten
  <2>2. ASSUME NEW c \in Compiler, BuildFails(c) \/ Abandon(c) PROVE OnDiskUntilAFault'
    <3>1. faults' # 0
      BY <1>2, <2>2, BoundAssumption DEF BuildFails, Abandon, IInv, TypeOK
    <3> QED
      BY <3>1 DEF OnDiskUntilAFault
  <2>3. ASSUME NEW c \in Compiler, Start(c) \/ Step(c) \/ ReadSource(c)
        PROVE  OnDiskUntilAFault'
    <3>1. ASSUME NEW v \in View, SkipView(c, v) \/ ReuseView(c, v) \/ BeginBuild(c, v)
          PROVE  OnDiskUntilAFault'
      BY <1>2, <3>1, SkipOnDisk, ReaderOnDisk
    <3> QED
      BY <1>2, <2>3, <3>1, UndraftedOnDisk, ReadOnDisk, ReaderOnDisk, BuiltOnDisk,
         FinalTreeOnDisk, SaveOnDisk DEF Step
  <2> QED
    BY <1>2, <2>1, <2>2, <2>3 DEF Next
<1> QED
  BY <1>1, <1>2, Invariance, PTL DEF Spec
=============================================================================

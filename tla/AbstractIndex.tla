---------------------------- MODULE AbstractIndex ----------------------------
(***************************************************************************)
(* What compile_repo and update_repo promise the users of a cache          *)
(* directory: one task at a time reads the source, builds views of it,     *)
(* looks at the source again and replaces the manifest in one step; a view *)
(* is called fresh only if that second look found the source the manifest  *)
(* names.  A source is anything that can be compared.                      *)
(***************************************************************************)
CONSTANTS Task, Source, View, NoJob

VARIABLES
  source,      \* the repository as it is
  published,   \* the manifest: the source it names and the views fresh there
  inside,      \* who is in compiler_cache_lock
  job          \* the source a task has read, the views that are or will be
               \* fresh there, and whether it has looked again

vars == <<source, published, inside, job>>

Lock == INSTANCE AbstractLock

Manifest == [source : Source, fresh : SUBSET View]

\* Views of the manifest that an update may carry over as fresh.
Kept == IF published.source = source THEN published.fresh ELSE {}

UpToDate(views) == views \subseteq Kept

Init ==
  /\ source \in Source /\ published \in Manifest
  /\ inside = {}
  /\ job = [t \in Task |-> NoJob]

Change(s) == source' = s /\ UNCHANGED <<published, inside, job>>

Begin(t, views) ==
  /\ Lock!Enter(t)
  /\ job' = [job EXCEPT ![t] = [source |-> source, fresh |-> views, looked |-> FALSE]]
  /\ UNCHANGED <<source, published>>

\* Some views are given up: their builds failed, or they were built differently.
Drop(t, views) ==
  /\ job[t] # NoJob /\ ~job[t].looked
  /\ job' = [job EXCEPT ![t] = [source |-> @.source, fresh |-> @.fresh \ views,
                                looked |-> FALSE]]
  /\ UNCHANGED <<source, published, inside>>

\* The second look may fail for reasons of its own.
Look(t, same) ==
  /\ job[t] # NoJob /\ ~job[t].looked
  /\ same => source = job[t].source
  /\ job' = [job EXCEPT ![t] = [source |-> @.source, fresh |-> IF same THEN @.fresh ELSE {},
                                looked |-> TRUE]]
  /\ UNCHANGED <<source, published, inside>>

Save(t) ==
  /\ job[t] # NoJob /\ job[t].looked
  /\ published' = [source |-> job[t].source, fresh |-> job[t].fresh]
  /\ Lock!Leave(t)
  /\ job' = [job EXCEPT ![t] = NoJob]
  /\ UNCHANGED source

\* A task ends without a manifest, or only read one.
Quit(t) ==
  /\ Lock!Leave(t)
  /\ job' = [job EXCEPT ![t] = NoJob]
  /\ UNCHANGED <<source, published>>

Next ==
  \/ \E s \in Source : Change(s)
  \/ \E t \in Task :
       \/ \E views \in SUBSET View : Begin(t, views) \/ Drop(t, views)
       \/ \E same \in BOOLEAN : Look(t, same)
       \/ Save(t) \/ Quit(t)

Spec == Init /\ [][Next]_vars
=============================================================================

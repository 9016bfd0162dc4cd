------------------------------ MODULE CacheLock ------------------------------
(***************************************************************************)
(* The POSIX path of codenib/compiler/cache_lock.py: tasks (threads of any *)
(* processes) that serialise on the file .index-compiler.lock of a private *)
(* cache directory.  The lock is flock on an inode, the inode is found     *)
(* through a name, and both the name of the file and the name of the       *)
(* directory can be made to mean something else while a task is between    *)
(* two system calls.  The code therefore validates the names again after   *)
(* it owns the lock ("the identity sandwich").                             *)
(*                                                                         *)
(* One action is one system call with the tests that follow it.  A task    *)
(* has at most one open description of the lock file at a time (nested use *)
(* by one thread is refused: _claim_thread_cache_lock), so a description   *)
(* is named by its task.                                                   *)
(***************************************************************************)
EXTENDS Naturals

CONSTANTS
  Task,        \* threads, of whatever process
  Dir,         \* directory inodes
  Inode,       \* inodes of lock files
  NoTask, NoDir, NoInode,
  Creators,    \* tasks calling with create=True; the others borrow
  Pollers,     \* tasks that pass check_cancelled
  MaxOpens     \* _LOCK_OPEN_RETRIES

ASSUME MaxOpensAssumption == MaxOpens \in Nat \ {0}
ASSUME NullAssumption ==
  /\ NoTask \notin Task
  /\ NoDir \notin Dir
  /\ NoInode \notin Inode
ASSUME RoleAssumption == Creators \subseteq Task /\ Pollers \subseteq Task

VARIABLES
  pc,         \* the next system call of each task
  dirfd,      \* the directory its descriptor is open on
  expected,   \* the identity seen by stat before the open, if any
  lockfd,     \* the inode its lock descriptor is open on
  opens,      \* failed rounds of the open loop
  cancelled,  \* whether its check_cancelled now raises
  cachePath,  \* the directory the cache path names
  entry,      \* the inode each directory holds under the lock's name
  owner       \* flock: the task whose description owns each inode's lock

taskVars == <<pc, dirfd, expected, lockfd, opens, cancelled>>
fileVars == <<cachePath, entry, owner>>
vars == <<pc, dirfd, expected, lockfd, opens, cancelled, cachePath, entry, owner>>

Label == {"idle", "openDir", "checkDir", "stat", "create", "open", "checkEntry",
          "flock", "poll", "granted", "recheckEntry", "recheckDir", "body",
          "unlock", "close"}

TypeOK ==
  /\ pc \in [Task -> Label]
  /\ dirfd \in [Task -> Dir \cup {NoDir}]
  /\ expected \in [Task -> Inode \cup {NoInode}]
  /\ lockfd \in [Task -> Inode \cup {NoInode}]
  /\ opens \in [Task -> 0 .. MaxOpens]
  /\ cancelled \in [Task -> BOOLEAN]
  /\ cachePath \in Dir \cup {NoDir}
  /\ entry \in [Dir -> Inode \cup {NoInode}]
  /\ owner \in [Inode -> Task \cup {NoTask}]

Init ==
  /\ pc = [t \in Task |-> "idle"]
  /\ dirfd = [t \in Task |-> NoDir]
  /\ expected = [t \in Task |-> NoInode]
  /\ lockfd = [t \in Task |-> NoInode]
  /\ opens = [t \in Task |-> 0]
  /\ cancelled = [t \in Task |-> FALSE]
  /\ cachePath = NoDir
  /\ entry = [d \in Dir |-> NoInode]
  /\ owner = [i \in Inode |-> NoTask]

Goto(t, label) == pc' = [pc EXCEPT ![t] = label]

\* An inode number the file system may hand out: nothing names it, nobody has it open.
FreshInode(i) == /\ \A d \in Dir : entry[d] # i
                 /\ \A u \in Task : lockfd[u] # i

FreshDir(d) == d # cachePath /\ \A u \in Task : dirfd[u] # d

-----------------------------------------------------------------------------
(* Opening and checking the cache directory *)

\* _make_bounded_cache_directories: mkdir what is missing; a concurrent creator may win.
MakeDirectory(t) ==
  /\ pc[t] = "idle"
  /\ Goto(t, "openDir")
  /\ IF cachePath = NoDir /\ t \in Creators
     THEN \E d \in Dir : /\ FreshDir(d)
                         /\ cachePath' = d
                         /\ entry' = [entry EXCEPT ![d] = NoInode]
     ELSE UNCHANGED <<cachePath, entry>>
  /\ UNCHANGED <<dirfd, expected, lockfd, opens, cancelled, owner>>

\* os.open of the directory; a missing path is "could not open compiler cache directory".
OpenDirectory(t) ==
  /\ pc[t] = "openDir"
  /\ dirfd' = [dirfd EXCEPT ![t] = cachePath]
  /\ Goto(t, IF cachePath = NoDir THEN "close" ELSE "checkDir")
  /\ UNCHANGED <<expected, lockfd, opens, cancelled, fileVars>>

\* _validate_posix_cache_entry before anything is opened in the directory.
CheckDirectory(t) ==
  /\ pc[t] = "checkDir"
  /\ Goto(t, IF dirfd[t] = cachePath THEN "stat" ELSE "close")
  /\ UNCHANGED <<dirfd, expected, lockfd, opens, cancelled, fileVars>>

-----------------------------------------------------------------------------
(* _open_posix_lock_file: at most MaxOpens rounds of stat, then create or open *)

StatEntry(t) ==
  /\ pc[t] = "stat"
  /\ expected' = [expected EXCEPT ![t] = entry[dirfd[t]]]
  /\ \/ entry[dirfd[t]] # NoInode /\ Goto(t, "open")
     \/ entry[dirfd[t]] = NoInode /\ t \in Creators /\ Goto(t, "create")
     \/ entry[dirfd[t]] = NoInode /\ t \notin Creators /\ Goto(t, "close")
  /\ UNCHANGED <<dirfd, lockfd, opens, cancelled, fileVars>>

\* Broken on purpose: the loop runs one round too many.
NextRoundOnceMore(t) ==
  /\ opens' = [opens EXCEPT ![t] = @ + 1]
  /\ Goto(t, IF opens[t] < MaxOpens THEN "stat" ELSE "close")
  /\ UNCHANGED <<dirfd, expected, lockfd, cancelled, fileVars>>

\* FileExistsError or FileNotFoundError: another round, or "changed repeatedly".
NextRound(t) ==
  /\ opens' = [opens EXCEPT ![t] = @ + 1]
  /\ Goto(t, IF opens[t] + 1 < MaxOpens THEN "stat" ELSE "close")
  /\ UNCHANGED <<dirfd, expected, lockfd, cancelled, fileVars>>

\* open with O_CREAT | O_EXCL.
CreateEntry(t) ==
  /\ pc[t] = "create"
  /\ \/ entry[dirfd[t]] # NoInode /\ NextRound(t)
     \/ /\ entry[dirfd[t]] = NoInode
        /\ \E i \in Inode : /\ FreshInode(i)
                            /\ entry' = [entry EXCEPT ![dirfd[t]] = i]
                            /\ lockfd' = [lockfd EXCEPT ![t] = i]
        /\ Goto(t, "checkEntry")
        /\ UNCHANGED <<dirfd, expected, opens, cancelled, cachePath, owner>>

\* open of the entry that stat saw, which may have gone or changed since.
OpenEntry(t) ==
  /\ pc[t] = "open"
  /\ \/ entry[dirfd[t]] = NoInode /\ NextRound(t)
     \/ /\ entry[dirfd[t]] # NoInode
        /\ lockfd' = [lockfd EXCEPT ![t] = entry[dirfd[t]]]
        /\ Goto(t, "checkEntry")
        /\ UNCHANGED <<dirfd, expected, opens, cancelled, fileVars>>

\* _validate_posix_lock_entry: what is open is what the name means and what stat saw.
\* The locals of _open_posix_lock_file end here.
CheckEntry(t) ==
  /\ pc[t] = "checkEntry"
  /\ IF /\ entry[dirfd[t]] = lockfd[t]
        /\ expected[t] \in {NoInode, lockfd[t]}
     THEN Goto(t, IF t \in Pollers THEN "poll" ELSE "flock")
     ELSE Goto(t, "close")
  /\ expected' = [expected EXCEPT ![t] = NoInode] /\ opens' = [opens EXCEPT ![t] = 0]
  /\ UNCHANGED <<dirfd, lockfd, cancelled, fileVars>>

-----------------------------------------------------------------------------
(* Waiting for flock, and the second half of the identity sandwich *)

Flock(t) ==
  /\ owner[lockfd[t]] = NoTask
  /\ owner' = [owner EXCEPT ![lockfd[t]] = t]
  /\ UNCHANGED <<dirfd, expected, lockfd, opens, cancelled, cachePath, entry>>

\* fcntl.flock(descriptor, LOCK_EX): the kernel lets the task wait.
FlockBlocking(t) ==
  /\ pc[t] = "flock"
  /\ Flock(t)
  /\ Goto(t, "recheckEntry")

\* Broken on purpose: the error of LOCK_NB is swallowed.
FlockPollingUnheeded(t) ==
  /\ pc[t] = "poll"
  /\ ~cancelled[t]
  /\ owner' = [owner EXCEPT ![lockfd[t]] = t]
  /\ Goto(t, "granted")
  /\ UNCHANGED <<dirfd, expected, lockfd, opens, cancelled, cachePath, entry>>

\* check_cancelled, then LOCK_EX | LOCK_NB; EAGAIN sleeps and comes back here.
FlockPolling(t) ==
  /\ pc[t] = "poll"
  /\ ~cancelled[t]
  /\ Flock(t)
  /\ Goto(t, "granted")

\* Broken on purpose: the callback is asked only when the lock could be had.
GiveUpPollingWhenFree(t) ==
  /\ pc[t] = "poll"
  /\ cancelled[t]
  /\ owner[lockfd[t]] = NoTask
  /\ Goto(t, "close")
  /\ UNCHANGED <<dirfd, expected, lockfd, opens, cancelled, fileVars>>

\* Broken on purpose: the cancellation passes the cleanup by.
GiveUpPollingUnclosed(t) ==
  /\ pc[t] = "poll"
  /\ cancelled[t]
  /\ Goto(t, "idle")
  /\ UNCHANGED <<dirfd, expected, lockfd, opens, cancelled, fileVars>>

GiveUpPolling(t) ==
  /\ pc[t] = "poll"
  /\ cancelled[t]
  /\ Goto(t, "close")
  /\ UNCHANGED <<dirfd, expected, lockfd, opens, cancelled, fileVars>>

\* check_cancelled once more, now owning the lock.
CheckGranted(t) ==
  /\ pc[t] = "granted"
  /\ Goto(t, IF cancelled[t] THEN "unlock" ELSE "recheckEntry")
  /\ UNCHANGED <<dirfd, expected, lockfd, opens, cancelled, fileVars>>

\* Broken on purpose: no look at the name once the lock is owned.
RecheckEntrySkipped(t) ==
  /\ pc[t] = "recheckEntry"
  /\ Goto(t, "recheckDir")
  /\ UNCHANGED <<dirfd, expected, lockfd, opens, cancelled, fileVars>>

RecheckEntry(t) ==
  /\ pc[t] = "recheckEntry"
  /\ Goto(t, IF entry[dirfd[t]] = lockfd[t] THEN "recheckDir" ELSE "unlock")
  /\ UNCHANGED <<dirfd, expected, lockfd, opens, cancelled, fileVars>>

\* Broken on purpose: the directory is not looked at again.
RecheckDirectorySkipped(t) ==
  /\ pc[t] = "recheckDir"
  /\ Goto(t, "body")
  /\ UNCHANGED <<dirfd, expected, lockfd, opens, cancelled, fileVars>>

RecheckDirectory(t) ==
  /\ pc[t] = "recheckDir"
  /\ Goto(t, IF dirfd[t] = cachePath THEN "body" ELSE "unlock")
  /\ UNCHANGED <<dirfd, expected, lockfd, opens, cancelled, fileVars>>

-----------------------------------------------------------------------------
(* Leaving *)

\* Broken on purpose: no finally block.
LeaveWithoutCleanup(t) ==
  /\ pc[t] = "body"
  /\ Goto(t, "idle")
  /\ UNCHANGED <<dirfd, expected, lockfd, opens, cancelled, fileVars>>

\* The body returns or raises: the finally block starts.
Leave(t) ==
  /\ pc[t] = "body"
  /\ Goto(t, "unlock")
  /\ UNCHANGED <<dirfd, expected, lockfd, opens, cancelled, fileVars>>

ReleaseFlock(t) == owner' = [i \in Inode |-> IF owner[i] = t THEN NoTask ELSE owner[i]]

Unlock(t) ==
  /\ pc[t] = "unlock"
  /\ ReleaseFlock(t)
  /\ Goto(t, "close")
  /\ UNCHANGED <<dirfd, expected, lockfd, opens, cancelled, cachePath, entry>>

\* Every descriptor of the attempt goes, and with the last one any lock it still owns.
Drop(t) ==
  /\ pc' = [pc EXCEPT ![t] = "idle"]
  /\ dirfd' = [dirfd EXCEPT ![t] = NoDir]
  /\ lockfd' = [lockfd EXCEPT ![t] = NoInode]
  /\ expected' = [expected EXCEPT ![t] = NoInode]
  /\ opens' = [opens EXCEPT ![t] = 0]
  /\ cancelled' = [cancelled EXCEPT ![t] = FALSE]
  /\ ReleaseFlock(t)
  /\ UNCHANGED <<cachePath, entry>>

Close(t) == pc[t] = "close" /\ Drop(t)

\* The task's process is killed; the kernel closes what it had open.
Crash(t) == pc[t] \notin {"idle", "close"} /\ Drop(t)

-----------------------------------------------------------------------------
(* The caller's cancellation, and other programs that move files about.      *)
(* The docstring excludes a user "who actively replaces paths while the lock *)
(* is held", and nothing else: a name may be moved whenever the lock of the  *)
(* file it leads to is free, also while tasks wait or are half way through.  *)

Cancel(t) ==
  /\ t \in Pollers
  /\ pc[t] # "idle"
  /\ ~cancelled[t]
  /\ cancelled' = [cancelled EXCEPT ![t] = TRUE]
  /\ UNCHANGED <<pc, dirfd, expected, lockfd, opens, fileVars>>

Unheld(d) == IF entry[d] = NoInode THEN TRUE ELSE owner[entry[d]] = NoTask

\* The lock file is removed, or another inode (a single-link one) takes its name.
ReplaceEntry ==
  \E d \in Dir, i \in Inode \cup {NoInode} :
    /\ Unheld(d)
    /\ entry[d] # i
    /\ i # NoInode => \A e \in Dir : entry[e] # i
    /\ entry' = [entry EXCEPT ![d] = i]
    /\ UNCHANGED <<taskVars, cachePath, owner>>

\* The cache directory is renamed away, removed, or another takes its place.
ReplaceDirectory ==
  \E d \in Dir \cup {NoDir} :
    /\ d # cachePath
    /\ cachePath # NoDir => Unheld(cachePath)
    /\ cachePath' = d
    /\ UNCHANGED <<taskVars, entry, owner>>

-----------------------------------------------------------------------------
Step(t) ==
  \/ OpenDirectory(t) \/ CheckDirectory(t)
  \/ StatEntry(t) \/ CreateEntry(t) \/ OpenEntry(t) \/ CheckEntry(t)
  \/ FlockPolling(t) \/ GiveUpPolling(t) \/ CheckGranted(t)
  \/ RecheckEntry(t) \/ RecheckDirectory(t)
  \/ Unlock(t) \/ Close(t)

Next ==
  \/ \E t \in Task :
       \/ MakeDirectory(t) \/ Step(t) \/ FlockBlocking(t) \/ Leave(t)
       \/ Crash(t) \/ Cancel(t)
  \/ ReplaceEntry \/ ReplaceDirectory

Spec == Init /\ [][Next]_vars

\* A started attempt keeps running, and a blocking flock is queued by the kernel, so it is
\* granted if the lock is free again and again; a body need not end.
FairSpec ==
  Spec /\ \A t \in Task : WF_vars(Step(t)) /\ SF_vars(FlockBlocking(t))

-----------------------------------------------------------------------------
(* Properties *)

inside == {t \in Task : pc[t] = "body"}

\* Two cooperating tasks are never inside the lock of one cache at the same time, whatever
\* happened to the lock file or to the directory while they were on their way in.
MutualExclusion == \A t, u \in inside : t = u

\* A task that is inside owns the lock of the very file that a newcomer would open now, so
\* that the newcomer must wait: the locked inode and the two names never drift apart.
InsideGuardsTheName ==
  \A t \in inside :
    /\ dirfd[t] = cachePath
    /\ entry[cachePath] = lockfd[t]
    /\ owner[lockfd[t]] = t

\* However an attempt ends, it leaves no descriptor and no lock behind, and a lock is
\* only ever owned through a descriptor that is still open.
NothingLeaks ==
  /\ \A t \in Task : pc[t] = "idle" => dirfd[t] = NoDir /\ lockfd[t] = NoInode
  /\ \A i \in Inode : owner[i] # NoTask => lockfd[owner[i]] = i

\* "neither is created while acquiring the lease": an existing-only attempt changes
\* neither the cache path nor any lock entry.
ExistingOnlyCreatesNothing ==
  [][\A t \in Task \ Creators : pc'[t] # pc[t] => UNCHANGED <<cachePath, entry>>]_vars

\* What the module promises its callers.
Abstract == INSTANCE AbstractLock
ImplementsAbstractLock == Abstract!Spec

\* A task blocked in flock is let through or fails, if bodies end.
EveryWaiterIsServed ==
  (\A t \in Task : []<>(pc[t] # "body")) =>
    \A t \in Task \ Pollers : pc[t] = "flock" ~> pc[t] # "flock"

\* "bounded lock-wait cancellation": a polling task whose caller cancels gives up even if
\* the holder never leaves.
CancelledWaiterReturns == \A t \in Pollers : (pc[t] = "poll" /\ cancelled[t]) ~> pc[t] = "idle"
=============================================================================

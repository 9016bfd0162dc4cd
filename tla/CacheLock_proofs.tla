--------------------------- MODULE CacheLock_proofs ---------------------------
(***************************************************************************)
(* Safety of CacheLock for any set of tasks, directories and inodes.       *)
(***************************************************************************)
EXTENDS CacheLock, TLAPS

\* The labels at which a task has its cache directory open.
InDirectory == Label \ {"idle", "openDir", "close"}

\* The labels at which a task has a lock file open.
Opened == {"checkEntry", "flock", "poll", "granted", "recheckEntry", "recheckDir",
           "body", "unlock"}

\* The labels at which a task owns the flock of the file it has open.
Owning == {"granted", "recheckEntry", "recheckDir", "body", "unlock"}

\* The inductive invariant: what each label says of the descriptors, of the lock, of the
\* entry and, inside, of the directory.  MutualExclusion alone is not inductive: it needs
\* that the files of two tasks that passed both checks carry the same name.
DescriptorInv ==
  \A t \in Task :
    /\ pc[t] \in InDirectory => dirfd[t] \in Dir
    /\ pc[t] \in Opened => lockfd[t] \in Inode
    /\ pc[t] = "idle" => dirfd[t] = NoDir /\ lockfd[t] = NoInode

\* Only an attempt that is already giving up has used all its rounds.
RoundInv == \A t \in Task : pc[t] # "close" => opens[t] < MaxOpens

\* Only create=True attempts come to the exclusive create.
CreateInv == \A t \in Task : pc[t] = "create" => t \in Creators

OwnerInv ==
  /\ \A t \in Task : pc[t] \in Owning => owner[lockfd[t]] = t
  /\ \A i \in Inode : owner[i] # NoTask => /\ pc[owner[i]] \in Owning
                                           /\ lockfd[owner[i]] = i

NameInv ==
  \A t \in Task :
    /\ pc[t] \in {"recheckDir", "body"} => entry[dirfd[t]] = lockfd[t]
    /\ pc[t] = "body" => dirfd[t] = cachePath

IInv == TypeOK /\ DescriptorInv /\ RoundInv /\ CreateInv /\ OwnerInv /\ NameInv

LEMMA InitIInv == Init => IInv
  BY NullAssumption, MaxOpensAssumption
  DEF Init, IInv, TypeOK, DescriptorInv, RoundInv, CreateInv, OwnerInv, NameInv, Label, InDirectory, Opened, Owning

LEMMA StepIInv == IInv /\ [Next]_vars => IInv'
<1> SUFFICES ASSUME IInv, [Next]_vars PROVE IInv'
  OBVIOUS
<1> USE NullAssumption, MaxOpensAssumption DEF IInv, TypeOK, DescriptorInv, RoundInv, CreateInv, OwnerInv, NameInv, Label, InDirectory, Opened, Owning
<1> USE DEF taskVars, fileVars, vars, Goto
<1>0. ASSUME NEW t \in Task, pc[t] \in {"create", "open"}, NextRound(t) PROVE IInv'
  BY <1>0 DEF NextRound
<1>1. ASSUME NEW t \in Task, MakeDirectory(t) PROVE IInv'
  BY <1>1 DEF MakeDirectory, FreshDir
<1>2. ASSUME NEW t \in Task, OpenDirectory(t) PROVE IInv'
  BY <1>2 DEF OpenDirectory
<1>3. ASSUME NEW t \in Task, CheckDirectory(t) PROVE IInv'
  BY <1>3 DEF CheckDirectory
<1>4. ASSUME NEW t \in Task, StatEntry(t) PROVE IInv'
  BY <1>4 DEF StatEntry
<1>5. ASSUME NEW t \in Task, CreateEntry(t) PROVE IInv'
  <2>1. CASE entry[dirfd[t]] # NoInode /\ NextRound(t)
    BY <1>5, <2>1, <1>0 DEF CreateEntry
  <2>2. CASE entry[dirfd[t]] = NoInode
    <3>1. PICK i \in Inode : /\ FreshInode(i)
                             /\ entry' = [entry EXCEPT ![dirfd[t]] = i]
                             /\ lockfd' = [lockfd EXCEPT ![t] = i]
      BY <1>5, <2>2 DEF CreateEntry, NextRound
    <3>2. /\ pc[t] = "create" /\ dirfd[t] \in Dir
          /\ pc' = [pc EXCEPT ![t] = "checkEntry"]
          /\ UNCHANGED <<dirfd, expected, opens, cancelled, cachePath, owner>>
      BY <1>5, <2>2 DEF CreateEntry
    <3>3. TypeOK' /\ DescriptorInv' /\ RoundInv' /\ CreateInv'
      BY <3>1, <3>2
    <3>4. OwnerInv'
      BY <3>1, <3>2
    <3>5. NameInv'
      BY <2>2, <3>1, <3>2
    <3>. QED
      BY <3>3, <3>4, <3>5
  <2>. QED
    BY <1>5, <2>1, <2>2 DEF CreateEntry
<1>6. ASSUME NEW t \in Task, OpenEntry(t) PROVE IInv'
  BY <1>6, <1>0 DEF OpenEntry
<1>7. ASSUME NEW t \in Task, CheckEntry(t) PROVE IInv'
  BY <1>7 DEF CheckEntry
<1>8. ASSUME NEW t \in Task, FlockBlocking(t) PROVE IInv'
  BY <1>8 DEF FlockBlocking, Flock
<1>9. ASSUME NEW t \in Task, FlockPolling(t) PROVE IInv'
  BY <1>9 DEF FlockPolling, Flock
<1>10. ASSUME NEW t \in Task, GiveUpPolling(t) PROVE IInv'
  BY <1>10 DEF GiveUpPolling
<1>11. ASSUME NEW t \in Task, CheckGranted(t) PROVE IInv'
  BY <1>11 DEF CheckGranted
<1>12. ASSUME NEW t \in Task, RecheckEntry(t) PROVE IInv'
  BY <1>12 DEF RecheckEntry
<1>13. ASSUME NEW t \in Task, RecheckDirectory(t) PROVE IInv'
  BY <1>13 DEF RecheckDirectory
<1>14. ASSUME NEW t \in Task, Leave(t) PROVE IInv'
  BY <1>14 DEF Leave
<1>15. ASSUME NEW t \in Task, Unlock(t) PROVE IInv'
  BY <1>15 DEF Unlock, ReleaseFlock
<1>16. ASSUME NEW t \in Task, Close(t) PROVE IInv'
  BY <1>16 DEF Close, Drop, ReleaseFlock
<1>17. ASSUME NEW t \in Task, Crash(t) PROVE IInv'
  BY <1>17 DEF Crash, Drop, ReleaseFlock
<1>18. ASSUME NEW t \in Task, Cancel(t) PROVE IInv'
  BY <1>18 DEF Cancel
<1>19. CASE ReplaceEntry
  BY <1>19 DEF ReplaceEntry, Unheld
<1>20. CASE ReplaceDirectory
  BY <1>20 DEF ReplaceDirectory, Unheld
<1>21. CASE UNCHANGED vars
  BY <1>21
<1>. QED
  BY <1>1, <1>2, <1>3, <1>4, <1>5, <1>6, <1>7, <1>8, <1>9, <1>10, <1>11, <1>12, <1>13, <1>14, <1>15, <1>16, <1>17, <1>18, <1>19, <1>20, <1>21 DEF Next, Step

LEMMA Invariance == Spec => []IInv
  BY InitIInv, StepIInv, PTL DEF Spec

-----------------------------------------------------------------------------
\* Every variable keeps its type: the open loop of cache_lock.py never runs more than
\* MaxOpens rounds, and descriptors only ever name directories and lock files.
THEOREM TypeCorrect == Spec => []TypeOK
  BY Invariance, PTL DEF IInv

LEMMA InsideOwns == IInv => InsideGuardsTheName
  BY DEF IInv, TypeOK, DescriptorInv, OwnerInv, NameInv, InsideGuardsTheName, inside,
         InDirectory, Opened, Owning, Label

\* The body of compiler_cache_lock runs only while the caller owns the flock of the file
\* that the two names lead to now.
THEOREM InsideGuardsTheNameAlways == Spec => []InsideGuardsTheName
  BY Invariance, InsideOwns, PTL

\* Two tasks inside would own the lock of the same inode.
LEMMA OneInside == IInv => MutualExclusion
  BY InsideOwns DEF InsideGuardsTheName, MutualExclusion

\* compiler_cache_lock serialises any number of tasks, although the lock file and the
\* directory may be replaced while nobody owns them.
THEOREM LockIsExclusive == Spec => []MutualExclusion
  BY Invariance, OneInside, PTL

\* Every way out of an attempt closes its descriptors and gives the lock back.
THEOREM NothingLeaksEver == Spec => []NothingLeaks
<1>1. IInv => NothingLeaks
  BY DEF IInv, DescriptorInv, OwnerInv, NothingLeaks
<1>. QED
  BY <1>1, Invariance, PTL

\* Whoever waits for the flock owns none, and if it has to wait, it is for a task that has
\* the lock, waits for nothing and has only its checks, its body and its cleanup to go.
WaitsForAWorker ==
  \A t \in Task : pc[t] \in {"flock", "poll"} =>
    /\ \A i \in Inode : owner[i] # t
    /\ owner[lockfd[t]] # NoTask => pc[owner[lockfd[t]]] \in Owning

\* Waiting for the cache lock is never circular and never for a task that has left or died.
THEOREM WaitsForAWorkerAlways == Spec => []WaitsForAWorker
<1>1. IInv => WaitsForAWorker
  BY NullAssumption DEF IInv, TypeOK, DescriptorInv, OwnerInv, WaitsForAWorker, Owning, Opened
<1>. QED
  BY <1>1, Invariance, PTL

-----------------------------------------------------------------------------
\* create=False creates neither the directory nor the lock file.
THEOREM BorrowersCreateNothing == Spec => ExistingOnlyCreatesNothing
<1> DEFINE Quiet == \A t \in Task \ Creators : pc'[t] # pc[t] => UNCHANGED <<cachePath, entry>>
<1>1. ASSUME IInv, Next PROVE Quiet
  <2> SUFFICES ASSUME NEW t \in Task \ Creators, pc'[t] # pc[t]
               PROVE  UNCHANGED <<cachePath, entry>>
    OBVIOUS
  <2>1. ASSUME NEW u \in Task, MakeDirectory(u) PROVE UNCHANGED <<cachePath, entry>>
    BY <1>1, <2>1 DEF MakeDirectory, IInv, TypeOK, Goto
  <2>2. ASSUME NEW u \in Task, CreateEntry(u) PROVE UNCHANGED <<cachePath, entry>>
    BY <1>1, <2>2 DEF CreateEntry, NextRound, IInv, TypeOK, CreateInv, Goto, fileVars
  <2>. QED
    BY <1>1, <2>1, <2>2
    DEF Next, Step, OpenDirectory, CheckDirectory, StatEntry, OpenEntry, CheckEntry,
        FlockPolling, FlockBlocking, GiveUpPolling, CheckGranted, RecheckEntry,
        RecheckDirectory, Leave, Unlock, Close, Crash, Drop, Cancel, Flock, NextRound,
        ReplaceEntry, ReplaceDirectory, fileVars, taskVars
<1>2. IInv /\ [Next]_vars => [Quiet]_vars
  BY <1>1
<1>. QED
  BY <1>2, Invariance, PTL DEF Spec, ExistingOnlyCreatesNothing

-----------------------------------------------------------------------------
\* The whole protocol behaves, for its callers, like one abstract lock: passing the last
\* check is entering it, leaving the body (or dying there) is leaving it, and every other
\* step is invisible.
THEOREM Refinement == Spec => ImplementsAbstractLock
<1>1. Init => Abstract!Init
  BY DEF Init, Abstract!Init, inside
<1>2. ASSUME IInv, IInv', [Next]_vars PROVE [Abstract!Next]_inside
  <2>1. MutualExclusion /\ MutualExclusion'
    <3>1. MutualExclusion
      BY <1>2, OneInside
    <3>2. IInv' => MutualExclusion'
      BY OneInside, PTL
    <3>. QED
      BY <1>2, <3>1, <3>2
  <2>2. ASSUME NEW t \in Task, \A u \in Task \ {t} : pc'[u] = pc[u]
        PROVE  [Abstract!Next]_inside
    <3>1. CASE pc[t] # "body" /\ pc'[t] = "body"
      <4>1. inside = {} /\ inside' = {t}
        BY <2>1, <2>2, <3>1 DEF inside, MutualExclusion
      <4>. QED
        BY <4>1 DEF Abstract!Next, Abstract!Enter
    <3>2. CASE pc[t] = "body" /\ pc'[t] # "body"
      <4>1. inside = {t} /\ inside' = {}
        BY <2>1, <2>2, <3>2 DEF inside, MutualExclusion
      <4>. QED
        BY <4>1 DEF Abstract!Next, Abstract!Leave
    <3>3. CASE pc[t] = "body" <=> pc'[t] = "body"
      BY <2>2, <3>3 DEF inside
    <3>. QED
      BY <3>1, <3>2, <3>3
  <2>3. ASSUME NEW t \in Task, MakeDirectory(t) \/ Step(t) \/ FlockBlocking(t) \/ Leave(t)
                               \/ Crash(t) \/ Cancel(t)
        PROVE  \A u \in Task \ {t} : pc'[u] = pc[u]
    BY <1>2, <2>3
    DEF IInv, TypeOK, MakeDirectory, Step, OpenDirectory, CheckDirectory, StatEntry,
        CreateEntry, OpenEntry, CheckEntry, FlockPolling, FlockBlocking, GiveUpPolling,
        CheckGranted, RecheckEntry, RecheckDirectory, Leave, Unlock, Close, Crash, Drop,
        Cancel, NextRound, Goto
  <2>4. CASE ReplaceEntry \/ ReplaceDirectory \/ UNCHANGED vars
    BY <2>4 DEF ReplaceEntry, ReplaceDirectory, taskVars, vars, inside
  <2>. QED
    BY <1>2, <2>2, <2>3, <2>4 DEF Next
<1>. QED
  BY <1>1, <1>2, Invariance, PTL DEF Spec, ImplementsAbstractLock, Abstract!Spec

=============================================================================

------------------------ MODULE DirectoryPublication ------------------------
(***************************************************************************)
(* codenib/_atomic_directory.py, _publish_staged_directory_with_authority: *)
(* a staged tree takes the place of a destination in the same directory.   *)
(* Every move is one rename that replaces nothing.  The previous tree is   *)
(* claimed under a hidden name, authenticated there, and kept; a failure   *)
(* at any step puts back what can be put back.  Nothing locks the          *)
(* directory: other publishers and other programs act between any two      *)
(* steps, and an error may arrive after the kernel has moved a tree.       *)
(*                                                                         *)
(* A tree is an inode and a version, which is all an ownership token tells *)
(* apart.  Validators and cancellation are failures that may come where    *)
(* they are called.  Hidden names are random and never meet.               *)
(***************************************************************************)
EXTENDS Naturals

CONSTANTS
  Publisher,        \* also the tree a publisher has staged
  Foreign,          \* trees that other programs put at the destination
  Old,              \* the tree that is there at first, if any
  Dest,             \* the destination's name
  None,
  MaxActs, MaxFaults    \* bounds: acts of other programs; failures and deaths

ASSUME PublicationAssumption ==
  /\ None \notin Publisher \cup Foreign \cup {Old}
  /\ Publisher \cap (Foreign \cup {Old}) = {} /\ Old \notin Foreign
  /\ Dest \notin Publisher \X {"stage", "previous", "quarantine", "suspect"}
  /\ MaxActs \in Nat /\ MaxFaults \in Nat

VARIABLES
  dir,              \* the tree under each name of the parent directory
  ver,              \* how often a tree has been changed
  away,             \* trees other programs have taken elsewhere
  pc,
  stage, prev,      \* ownership tokens of the stage and of the destination
  faults, acts      \* failures, and acts of other programs, so far

vars == <<dir, ver, away, pc, stage, prev, faults, acts>>

Tree == Publisher \cup Foreign \cup {Old}
Stage(p) == <<p, "stage">>
Previous(p) == <<p, "previous">>      \* hidden, as are the next two
Suspect(p) == <<p, "suspect">>
Quarantined(p) == <<p, "quarantine">>
Name == {Dest} \cup Publisher \X {"stage", "previous", "quarantine", "suspect"}
NoToken == [tree |-> None, ver |-> 0]
Tokens == [tree : Tree \cup {None}, ver : 0..MaxActs]

Before == {"start", "captured", "ready"}
After == {"claiming", "unclaiming", "checking", "unchecking", "renaming", "probing",
          "withdrawing", "quarantining", "unquarantining", "restoring", "returning",
          "verifying", "suspecting",
          "checkingNew", "checkingOld", "sealingOld", "sealingNew"}
\* Returned; raised before or after a move; previous tree left hidden or lost;
\* published but not sealed; dead.
Ended == {"done", "refused", "failed", "isolated", "lost", "unsealed", "dead"}

\* The types.
TypeOK ==
  /\ dir \in [Name -> Tree \cup {None}] /\ ver \in [Tree -> 0..MaxActs]
  /\ away \subseteq Tree
  /\ pc \in [Publisher -> Before \cup After \cup Ended]
  /\ stage \in [Publisher -> Tokens] /\ prev \in [Publisher -> Tokens]
  /\ faults \in 0..MaxFaults /\ acts \in 0..MaxActs

Init ==
  /\ \E first \in {Old, None} :
       dir = [n \in Name |-> IF n = Dest THEN first
                             ELSE IF n = Stage(n[1]) THEN n[1] ELSE None]
  /\ ver = [t \in Tree |-> 0] /\ away = {}
  /\ pc = [p \in Publisher |-> "start"]
  /\ stage = [p \in Publisher |-> NoToken] /\ prev = [p \in Publisher |-> NoToken]
  /\ faults = 0 /\ acts = 0
-----------------------------------------------------------------------------
Token(n) == IF dir[n] = None THEN NoToken ELSE [tree |-> dir[n], ver |-> ver[dir[n]]]
Goto(p, where) == pc' = [pc EXCEPT ![p] = where]
Fault == faults < MaxFaults /\ faults' = faults + 1
Still == UNCHANGED <<ver, away, stage, prev, acts>>

\* Broken on purpose: a rename like os.replace.
Replace(from, to) ==
  /\ dir[from] # None
  /\ dir' = [dir EXCEPT ![from] = None, ![to] = dir[from]]

\* rename_noreplace
Rename(from, to) ==
  /\ dir[from] # None /\ dir[to] = None
  /\ dir' = [dir EXCEPT ![from] = None, ![to] = dir[from]]

\* What a rename may end in: it succeeds, is refused, fails in the kernel, or
\* fails after the kernel has done it.
Succeeds(from, to) == Rename(from, to) /\ UNCHANGED faults
IsRefused(from, to) ==
  (dir[from] = None \/ dir[to] # None) /\ UNCHANGED <<dir, faults>>
Breaks == Fault /\ UNCHANGED dir
IsInterrupted(from, to) == Rename(from, to) /\ Fault
Raises(from, to) == IsRefused(from, to) \/ Breaks \/ IsInterrupted(from, to)

CaptureStage(p) ==
  /\ pc[p] = "start" /\ Goto(p, "captured")
  /\ dir[Stage(p)] # None /\ stage' = [stage EXCEPT ![p] = Token(Stage(p))]
  /\ UNCHANGED <<dir, ver, away, prev, faults, acts>>

CaptureDestination(p) ==
  /\ pc[p] = "captured" /\ Goto(p, "ready")
  /\ prev' = [prev EXCEPT ![p] = Token(Dest)]
  /\ UNCHANGED <<dir, ver, away, stage, faults, acts>>

\* The last looks before anything moves.
Recheck(p) ==
  /\ pc[p] = "ready" /\ Token(Stage(p)) = stage[p]
  /\ IF prev[p] = NoToken THEN Goto(p, "renaming")
     ELSE Token(Dest) = prev[p] /\ Goto(p, "claiming")
  /\ Still /\ UNCHANGED <<dir, faults>>

\* A look differs, the caller expects another destination, cancels, or a
\* validator raises.
Refuse(p) ==
  /\ pc[p] \in Before /\ Goto(p, "refused")
  /\ Still /\ UNCHANGED <<dir, faults>>

\* _claim_child_as_orphan, and its handler.
Claim(p) ==
  /\ pc[p] = "claiming"
  /\ \/ Succeeds(Dest, Previous(p)) /\ Goto(p, "checking")
     \/ Raises(Dest, Previous(p)) /\ Goto(p, "unclaiming")
  /\ Still

Unclaim(p) ==
  /\ pc[p] = "unclaiming" /\ Goto(p, "failed")
  /\ Succeeds(Previous(p), Dest) \/ Raises(Previous(p), Dest)
  /\ Still

\* Broken on purpose: only the contents are compared.
SameContents(p) == Token(Previous(p)).ver = prev[p].ver

\* _require_tree_ownership_at, of the claimed tree.
Authentic(p) == Token(Previous(p)) = prev[p]

\* The claimed tree is the captured one, and the stage has not changed.
CheckClaim(p) ==
  /\ pc[p] = "checking"
  /\ \/ /\ Authentic(p) /\ Token(Stage(p)) = stage[p]
        /\ Goto(p, "renaming") /\ UNCHANGED faults
     \/ /\ ~Authentic(p) \/ Token(Stage(p)) # stage[p]
        /\ Goto(p, "unchecking") /\ UNCHANGED faults
     \/ Fault /\ Goto(p, "unchecking")
  /\ Still /\ UNCHANGED dir

\* _restore_claimed_directory
RestoreClaim(p) ==
  /\ pc[p] = "unchecking"
  /\ \/ Succeeds(Previous(p), Dest) /\ Goto(p, "failed")
     \/ Raises(Previous(p), Dest) /\ Goto(p, "isolated")
  /\ Still

PutInPlace(p) ==
  /\ pc[p] = "renaming"
  /\ \/ Succeeds(Stage(p), Dest) /\ Goto(p, "checkingNew")
     \/ Raises(Stage(p), Dest) /\ Goto(p, "probing")
  /\ Still

\* Broken on purpose: the handler takes the error for a rename that did nothing.
Trust(p) ==
  /\ pc[p] = "probing" /\ Goto(p, "restoring")
  /\ Still /\ UNCHANGED <<dir, faults>>

\* The handler: has the stage been moved all the same?
Probe(p) ==
  /\ pc[p] = "probing"
  /\ \/ /\ Goto(p, IF Token(Dest) = stage[p] THEN "withdrawing" ELSE "restoring")
        /\ UNCHANGED faults
     \/ Fault /\ Goto(p, "restoring")
  /\ Still /\ UNCHANGED dir

CheckNew(p) ==
  /\ pc[p] = "checkingNew"
  /\ \/ /\ Token(Dest) = stage[p] /\ UNCHANGED faults
        /\ Goto(p, IF prev[p] = NoToken THEN "sealingNew" ELSE "checkingOld")
     \/ Token(Dest) # stage[p] /\ Goto(p, "withdrawing") /\ UNCHANGED faults
     \/ Fault /\ Goto(p, "withdrawing")
  /\ Still /\ UNCHANGED dir

\* A previous tree that has changed is not put back; one that a validator
\* rejects is.
CheckOld(p) ==
  /\ pc[p] = "checkingOld"
  /\ \/ Authentic(p) /\ Goto(p, "sealingOld") /\ UNCHANGED faults
     \/ ~Authentic(p) /\ Goto(p, "lost") /\ UNCHANGED faults
     \/ Authentic(p) /\ Fault /\ Goto(p, "withdrawing")
  /\ Still /\ UNCHANGED dir

\* _quarantine_destination: look, then claim.
Withdraw(p) ==
  /\ pc[p] = "withdrawing"
  /\ \/ /\ Goto(p, IF dir[Dest] = None THEN "restoring" ELSE "quarantining")
        /\ UNCHANGED faults
     \/ Fault /\ Goto(p, "failed")
  /\ Still /\ UNCHANGED dir

\* If that raises, the previous tree stays hidden.
Quarantine(p) ==
  /\ pc[p] = "quarantining"
  /\ \/ Succeeds(Dest, Quarantined(p)) /\ Goto(p, "restoring")
     \/ Raises(Dest, Quarantined(p)) /\ Goto(p, "unquarantining")
  /\ Still

Unquarantine(p) ==
  /\ pc[p] = "unquarantining" /\ Goto(p, "failed")
  /\ Succeeds(Quarantined(p), Dest) \/ Raises(Quarantined(p), Dest)
  /\ Still

\* _restore_exact_previous_directory: authenticate, rename, authenticate.
Restore(p) ==
  /\ pc[p] = "restoring"
  /\ \/ prev[p] = NoToken /\ Goto(p, "failed") /\ UNCHANGED faults
     \/ /\ prev[p] # NoToken /\ Authentic(p)
        /\ Goto(p, "returning") /\ UNCHANGED faults
     \/ /\ prev[p] # NoToken /\ ~Authentic(p)
        /\ Goto(p, "isolated") /\ UNCHANGED faults
     \/ prev[p] # NoToken /\ Fault /\ Goto(p, "isolated")
  /\ Still /\ UNCHANGED dir

Return(p) ==
  /\ pc[p] = "returning"
  /\ \/ Succeeds(Previous(p), Dest) /\ Goto(p, "verifying")
     \/ Raises(Previous(p), Dest) /\ Goto(p, "isolated")
  /\ Still

VerifyReturn(p) ==
  /\ pc[p] = "verifying"
  /\ \/ Token(Dest) = prev[p] /\ Goto(p, "failed") /\ UNCHANGED faults
     \/ Token(Dest) # prev[p] /\ Goto(p, "suspecting") /\ UNCHANGED faults
     \/ Fault /\ Goto(p, "suspecting")
  /\ Still /\ UNCHANGED dir

\* What was put back is not the previous tree: out of the way, if that works.
MoveSuspect(p) ==
  /\ pc[p] = "suspecting" /\ Goto(p, "isolated")
  /\ Succeeds(Dest, Suspect(p)) \/ Raises(Dest, Suspect(p))
  /\ Still

\* _orphan_metadata and the last capture: a failure is raised, nothing undone.
SealOld(p) ==
  /\ pc[p] = "sealingOld"
  /\ \/ Authentic(p) /\ Goto(p, "sealingNew") /\ UNCHANGED faults
     \/ ~Authentic(p) /\ Goto(p, "unsealed") /\ UNCHANGED faults
     \/ Fault /\ Goto(p, "unsealed")
  /\ Still /\ UNCHANGED dir

SealNew(p) ==
  /\ pc[p] = "sealingNew"
  /\ \/ Token(Dest) = stage[p] /\ Goto(p, "done") /\ UNCHANGED faults
     \/ Token(Dest) # stage[p] /\ Goto(p, "unsealed") /\ UNCHANGED faults
     \/ Fault /\ Goto(p, "unsealed")
  /\ Still /\ UNCHANGED dir

Die(p) ==
  /\ pc[p] \notin Ended /\ Goto(p, "dead") /\ Fault
  /\ Still /\ UNCHANGED dir
-----------------------------------------------------------------------------
\* Other programs: a tree is changed wherever it is; one is put at the free
\* destination; the one there is taken away.
Act == acts < MaxActs /\ acts' = acts + 1

Edit(t) ==
  /\ Act /\ ver' = [ver EXCEPT ![t] = @ + 1]
  /\ UNCHANGED <<dir, away, pc, stage, prev, faults>>

Put(t) ==
  /\ t \notin away /\ \A n \in Name : dir[n] # t
  /\ Act /\ dir[Dest] = None /\ dir' = [dir EXCEPT ![Dest] = t]
  /\ UNCHANGED <<ver, away, pc, stage, prev, faults>>

TakeAway ==
  /\ Act /\ dir[Dest] # None /\ away' = away \cup {dir[Dest]}
  /\ dir' = [dir EXCEPT ![Dest] = None]
  /\ UNCHANGED <<ver, pc, stage, prev, faults>>

Next ==
  \/ \E p \in Publisher :
       \/ CaptureStage(p) \/ CaptureDestination(p) \/ Recheck(p) \/ Refuse(p)
       \/ Claim(p) \/ Unclaim(p) \/ CheckClaim(p) \/ RestoreClaim(p)
       \/ PutInPlace(p) \/ Probe(p) \/ CheckNew(p) \/ CheckOld(p)
       \/ Withdraw(p) \/ Quarantine(p) \/ Unquarantine(p)
       \/ Restore(p) \/ Return(p) \/ VerifyReturn(p) \/ MoveSuspect(p)
       \/ SealOld(p) \/ SealNew(p) \/ Die(p)
  \/ \E t \in Tree : Edit(t)
  \/ \E t \in Foreign : Put(t)
  \/ TakeAway

Spec == Init /\ [][Next]_vars
-----------------------------------------------------------------------------
\* No rename destroys a tree: what was ever in the directory is under some name,
\* or was taken away by another program, at every moment and after any failure.
NothingIsDestroyed ==
  [][\A t \in Tree : (\E n \in Name : dir[n] = t)
       => (\E n \in Name : dir'[n] = t) \/ t \in away']_dir

\* Alone and with at most one failure, wherever it comes (short of a death), a
\* publication is all or nothing: it raises and the destination is as before, or
\* the new tree is there and the previous one is kept.
AllOrNothing ==
  \A p \in Publisher :
    /\ acts = 0 /\ faults <= 1 /\ pc[p] \in Ended \ {"refused", "dead"}
    /\ \A q \in Publisher \ {p} : pc[q] \in Before
    => IF pc[p] \in {"done", "unsealed"}
       THEN dir[Dest] = p /\ (prev[p] # NoToken => dir[Previous(p)] = prev[p].tree)
       ELSE pc[p] = "failed" /\ dir[Dest] = prev[p].tree

\* What a successful publication says of the previous tree stays true, and no
\* two of them replaced the same tree.
ReceiptsAreTrue ==
  \A p \in Publisher :
    pc[p] = "done" /\ prev[p] # NoToken =>
      /\ dir[Previous(p)] = prev[p].tree
      /\ \A q \in Publisher \ {p} : pc[q] = "done" => prev[q].tree # prev[p].tree
=============================================================================

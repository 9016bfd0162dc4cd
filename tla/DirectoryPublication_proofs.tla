--------------------- MODULE DirectoryPublication_proofs ---------------------
(***************************************************************************)
(* Theorems about DirectoryPublication for any publishers and trees, any   *)
(* acts of other programs, any failures and deaths.                        *)
(***************************************************************************)
EXTENDS DirectoryPublication, TLAPS

\* A tree is under one name.
Unique == \A n, m \in Name : dir[n] # None /\ dir[n] = dir[m] => n = m

\* A token without a tree is that of a missing directory; every change of a tree
\* is an act.
TokenInv ==
  /\ \A p \in Publisher :
       /\ prev[p].tree = None => prev[p] = NoToken
       /\ stage[p].ver <= acts /\ prev[p].ver <= acts
  /\ \A t \in Tree : ver[t] <= acts

\* From the last authentication on, nobody but the publisher could move it.
KeptInv ==
  \A p \in Publisher :
    pc[p] \in {"sealingNew", "done"} /\ prev[p] # NoToken => dir[Previous(p)] = prev[p].tree

\* A publisher that nobody else has disturbed.
Alone(p) ==
  acts = 0 /\ faults <= 1 /\ \A q \in Publisher \ {p} : pc[q] \in Before

\* Where the trees are then: at the destination, under the publisher's names for the
\* stage, the previous tree and the quarantined one; the trees of the tokens.
Where(w, d, s, v, x, o, g, p, f) ==
  /\ w \notin {"start", "refused", "dead"} => g = p
  /\ w \in Before \cup {"claiming"} => s = p /\ v = None /\ x = None
  /\ w \in {"ready", "claiming"} => d = o
  /\ w = "unclaiming" => s = p /\ x = None /\ <<d, v>> \in {<<o, None>>, <<None, o>>}
  /\ w \in {"checking", "unchecking", "renaming"} => s = p /\ x = None /\ d = None /\ v = o
  /\ w = "probing" => x = None /\ v = o /\ <<s, d>> \in {<<p, None>>, <<None, p>>}
  /\ w \in {"checkingNew", "checkingOld", "withdrawing", "quarantining", "sealingOld",
            "sealingNew"} => s = None /\ x = None /\ d = p /\ v = o
  /\ w \in {"restoring", "returning"} => d = None /\ v = o
  /\ w \in {"verifying", "failed"} => d = o
  /\ w \in {"done", "unsealed"} => d = p /\ v = o
  /\ w \in {"unclaiming", "unchecking", "probing", "withdrawing", "quarantining",
            "restoring", "returning", "verifying"} => f = 1
  /\ w \in {"claiming", "unclaiming", "checking", "unchecking", "checkingOld", "sealingOld",
            "returning", "verifying"} => o # None
  /\ w \notin {"unquarantining", "suspecting", "isolated", "lost"}

Place(p) ==
  Where(pc[p], dir[Dest], dir[Stage(p)], dir[Previous(p)], dir[Quarantined(p)],
        prev[p].tree, stage[p].tree, p, faults)

AloneInv == \A p \in Publisher : Alone(p) => Place(p)

IInv == TypeOK /\ Unique /\ TokenInv /\ KeptInv /\ AloneInv

LEMMA Names ==
  ASSUME NEW p \in Publisher
  PROVE  /\ Dest \in Name /\ Stage(p) \in Name /\ Previous(p) \in Name
         /\ Suspect(p) \in Name /\ Quarantined(p) \in Name
         /\ Dest \notin {Stage(p), Previous(p), Suspect(p), Quarantined(p)}
         /\ Previous(p) \notin {Stage(p), Suspect(p), Quarantined(p)}
         /\ Quarantined(p) \notin {Stage(p), Suspect(p)} /\ Suspect(p) # Stage(p)
  BY PublicationAssumption DEF Name, Stage, Previous, Suspect, Quarantined

\* The names of different publishers.
LEMMA OtherNames ==
  ASSUME NEW p \in Publisher, NEW q \in Publisher, p # q
  PROVE  {Stage(p), Previous(p), Suspect(p), Quarantined(p)}
           \cap {Stage(q), Previous(q), Suspect(q), Quarantined(q)} = {}
  BY DEF Stage, Previous, Suspect, Quarantined

\* The renames a publisher asks for.
Moves(p) ==
  {<<Dest, Previous(p)>>, <<Previous(p), Dest>>, <<Stage(p), Dest>>,
   <<Dest, Quarantined(p)>>, <<Quarantined(p), Dest>>, <<Dest, Suspect(p)>>}

LEMMA MoveNames ==
  ASSUME NEW p \in Publisher, NEW m \in Moves(p)
  PROVE  m[1] \in Name /\ m[2] \in Name /\ m[1] # m[2]
  BY Names DEF Moves

\* Whatever a rename ends in, the directory is as it was or one tree has moved.
LEMMA Attempt ==
  ASSUME NEW from, NEW to, Succeeds(from, to) \/ Raises(from, to)
  PROVE  UNCHANGED dir \/ Rename(from, to)
  BY DEF Succeeds, Raises, IsRefused, Breaks, IsInterrupted

\* Every step of a publisher.
PublisherStep(p) ==
  \/ CaptureStage(p) \/ CaptureDestination(p) \/ Recheck(p) \/ Refuse(p)
  \/ Claim(p) \/ Unclaim(p) \/ CheckClaim(p) \/ RestoreClaim(p)
  \/ PutInPlace(p) \/ Probe(p) \/ CheckNew(p) \/ CheckOld(p)
  \/ Withdraw(p) \/ Quarantine(p) \/ Unquarantine(p)
  \/ Restore(p) \/ Return(p) \/ VerifyReturn(p) \/ MoveSuspect(p)
  \/ SealOld(p) \/ SealNew(p) \/ Die(p)

LEMMA PublisherMoves ==
  ASSUME NEW p \in Publisher, PublisherStep(p)
  PROVE  UNCHANGED dir \/ \E m \in Moves(p) : Rename(m[1], m[2])
<1>1. ASSUME NEW from, NEW to, <<from, to>> \in Moves(p), Succeeds(from, to) \/ Raises(from, to)
      PROVE  UNCHANGED dir \/ \E m \in Moves(p) : Rename(m[1], m[2])
  BY <1>1, Attempt
<1>2. CASE Claim(p)
  BY <1>1, <1>2 DEF Claim, Moves
<1>3. CASE Unclaim(p)
  BY <1>1, <1>3 DEF Unclaim, Moves
<1>4. CASE RestoreClaim(p)
  BY <1>1, <1>4 DEF RestoreClaim, Moves
<1>5. CASE PutInPlace(p)
  BY <1>1, <1>5 DEF PutInPlace, Moves
<1>6. CASE Quarantine(p)
  BY <1>1, <1>6 DEF Quarantine, Moves
<1>7. CASE Unquarantine(p)
  BY <1>1, <1>7 DEF Unquarantine, Moves
<1>8. CASE Return(p)
  BY <1>1, <1>8 DEF Return, Moves
<1>9. CASE MoveSuspect(p)
  BY <1>1, <1>9 DEF MoveSuspect, Moves
<1> QED
  BY <1>2, <1>3, <1>4, <1>5, <1>6, <1>7, <1>8, <1>9
     DEF PublisherStep, CaptureStage, CaptureDestination, Recheck, Refuse, CheckClaim, Probe,
         CheckNew, CheckOld, Withdraw, Restore, VerifyReturn, SealOld, SealNew, Die

LEMMA NextSteps ==
  ASSUME Next
  PROVE  \/ \E p \in Publisher : PublisherStep(p)
         \/ \E t \in Tree : Edit(t)
         \/ \E t \in Foreign : Put(t)
         \/ TakeAway
  BY DEF Next, PublisherStep
-----------------------------------------------------------------------------
(* Types and names. *)

LEMMA TokenType == ASSUME TypeOK, NEW n \in Name PROVE Token(n) \in Tokens
  BY PublicationAssumption DEF TypeOK, Token, Tokens, NoToken

LEMMA RenameType ==
  ASSUME dir \in [Name -> Tree \cup {None}], NEW from \in Name, NEW to \in Name,
         Rename(from, to)
  PROVE  dir' \in [Name -> Tree \cup {None}]
  BY DEF Rename

LEMMA FaultType ==
  ASSUME faults \in 0..MaxFaults, UNCHANGED faults \/ Fault
  PROVE  faults' \in 0..MaxFaults
  BY PublicationAssumption DEF Fault

LEMMA StepType == ASSUME TypeOK, TokenInv, [Next]_vars PROVE TypeOK'
<1>1. CASE UNCHANGED vars
  BY <1>1 DEF vars, TypeOK
<1>2. ASSUME NEW p \in Publisher, PublisherStep(p) PROVE TypeOK'
  <2>1. dir' \in [Name -> Tree \cup {None}]
    BY <1>2, PublisherMoves, MoveNames, RenameType DEF TypeOK
  <2>2. UNCHANGED <<ver, away, acts>>
    BY <1>2
       DEF PublisherStep, CaptureStage, CaptureDestination, Recheck, Refuse, Claim, Unclaim,
           CheckClaim, RestoreClaim, PutInPlace, Probe, CheckNew, CheckOld, Withdraw,
           Quarantine, Unquarantine, Restore, Return, VerifyReturn, MoveSuspect, SealOld,
           SealNew, Die, Still
  <2>3. stage' \in [Publisher -> Tokens] /\ prev' \in [Publisher -> Tokens]
    <3>1. CASE CaptureStage(p)
      BY <3>1, Names, TokenType DEF CaptureStage, TypeOK
    <3>2. CASE CaptureDestination(p)
      BY <3>2, Names, TokenType DEF CaptureDestination, TypeOK
    <3>3. CASE ~CaptureStage(p) /\ ~CaptureDestination(p)
      BY <1>2, <3>3
         DEF PublisherStep, Recheck, Refuse, Claim, Unclaim,
             CheckClaim, RestoreClaim, PutInPlace, Probe, CheckNew, CheckOld, Withdraw,
             Quarantine, Unquarantine, Restore, Return, VerifyReturn, MoveSuspect, SealOld,
             SealNew, Die, Still, TypeOK
    <3> QED
      BY <3>1, <3>2, <3>3
  <2>4. pc' \in [Publisher -> Before \cup After \cup Ended]
    <3> SUFFICES \E where \in Before \cup After \cup Ended : Goto(p, where)
      BY DEF Goto, TypeOK
    <3> QED
      BY <1>2
         DEF PublisherStep, CaptureStage, CaptureDestination, Recheck, Refuse, Claim, Unclaim,
             CheckClaim, RestoreClaim, PutInPlace, Probe, CheckNew, CheckOld, Withdraw,
             Quarantine, Unquarantine, Restore, Return, VerifyReturn, MoveSuspect, SealOld,
             SealNew, Die, Before, After, Ended
  <2>5. UNCHANGED faults \/ Fault
    BY <1>2
       DEF PublisherStep, CaptureStage, CaptureDestination, Recheck, Refuse, Claim, Unclaim,
           CheckClaim, RestoreClaim, PutInPlace, Probe, CheckNew, CheckOld, Withdraw,
           Quarantine, Unquarantine, Restore, Return, VerifyReturn, MoveSuspect, SealOld,
           SealNew, Die, Succeeds, Raises, IsRefused, Breaks, IsInterrupted
  <2> QED
    BY <2>1, <2>2, <2>3, <2>4, <2>5, FaultType DEF TypeOK
<1>3. ASSUME NEW t \in Tree, Edit(t) PROVE TypeOK'
  <2>1. acts' \in 0..MaxActs /\ ver[t] + 1 \in 0..MaxActs
    BY <1>3, PublicationAssumption DEF Edit, Act, TypeOK, TokenInv
  <2> QED
    BY <1>3, <2>1 DEF Edit, TypeOK
<1>4. ASSUME NEW t \in Foreign, Put(t) PROVE TypeOK'
  <2>1. t \in Tree
    BY DEF Tree
  <2>2. acts' \in 0..MaxActs
    BY <1>4, PublicationAssumption DEF Put, Act, TypeOK
  <2>3. dir' \in [Name -> Tree \cup {None}]
    BY <1>4, <2>1 DEF Put, TypeOK
  <2> QED
    BY <1>4, <2>2, <2>3 DEF Put, TypeOK
<1>5. CASE TakeAway
  <2>1. acts' \in 0..MaxActs
    BY <1>5, PublicationAssumption DEF TakeAway, Act, TypeOK
  <2>2. dir[Dest] \in Tree /\ dir' \in [Name -> Tree \cup {None}]
    BY <1>5 DEF TakeAway, TypeOK, Name
  <2> QED
    BY <1>5, <2>1, <2>2 DEF TakeAway, TypeOK
<1> QED
  BY <1>1, <1>2, <1>3, <1>4, <1>5, NextSteps

LEMMA RenameUnique ==
  ASSUME TypeOK, Unique, NEW from \in Name, NEW to \in Name, from # to, Rename(from, to)
  PROVE  Unique'
  BY DEF TypeOK, Unique, Rename

LEMMA StepUnique == ASSUME TypeOK, Unique, [Next]_vars PROVE Unique'
<1>1. CASE UNCHANGED dir
  BY <1>1 DEF Unique
<1>2. ASSUME NEW p \in Publisher, PublisherStep(p) PROVE Unique'
  BY <1>1, <1>2, PublisherMoves, MoveNames, RenameUnique
<1>3. ASSUME NEW t \in Foreign, Put(t) PROVE Unique'
  BY <1>3 DEF Put, Unique, TypeOK
<1>4. CASE TakeAway
  BY <1>4 DEF TakeAway, Unique, TypeOK
<1> QED
  BY <1>1, <1>2, <1>3, <1>4, NextSteps DEF Edit, vars

\* What the steps of a publisher leave alone.
LEMMA PublisherFrame ==
  ASSUME NEW p \in Publisher, PublisherStep(p)
  PROVE  /\ UNCHANGED <<ver, away, acts>>
         /\ \E where : pc' = [pc EXCEPT ![p] = where]
         /\ stage' = stage \/ (stage' = [stage EXCEPT ![p] = Token(Stage(p))] /\ UNCHANGED prev)
         /\ prev' = prev
              \/ (prev' = [prev EXCEPT ![p] = Token(Dest)] /\ CaptureDestination(p))
  BY DEF PublisherStep, CaptureStage, CaptureDestination, Recheck, Refuse, Claim, Unclaim,
         CheckClaim, RestoreClaim, PutInPlace, Probe, CheckNew, CheckOld, Withdraw,
         Quarantine, Unquarantine, Restore, Return, VerifyReturn, MoveSuspect, SealOld,
         SealNew, Die, Still, Goto

LEMMA StepToken == ASSUME TypeOK, TokenInv, [Next]_vars PROVE TokenInv'
<1>1. CASE UNCHANGED <<ver, stage, prev, acts>>
  BY <1>1 DEF TokenInv
<1>2. ASSUME NEW p \in Publisher, PublisherStep(p) PROVE TokenInv'
  <2>1. ASSUME NEW n \in Name
        PROVE  (Token(n).tree = None => Token(n) = NoToken) /\ Token(n).ver <= acts
    BY <2>1, PublicationAssumption DEF TypeOK, TokenInv, Token, NoToken, Tree
  <2> QED
    BY <1>2, <2>1, PublisherFrame, Names DEF TokenInv, TypeOK
<1>3. ASSUME UNCHANGED <<stage, prev>>, acts' = acts + 1,
             UNCHANGED ver \/ \E t \in Tree : ver' = [ver EXCEPT ![t] = @ + 1]
      PROVE  TokenInv'
  <2>1. \A q \in Publisher : stage[q].ver \in Nat /\ prev[q].ver \in Nat
    BY PublicationAssumption DEF TypeOK, Tokens
  <2> QED
    BY <1>3, <2>1, PublicationAssumption DEF TokenInv, TypeOK
<1>4. ASSUME NEW t \in Tree, Edit(t) PROVE TokenInv'
  BY <1>3, <1>4 DEF Edit, Act
<1>5. ASSUME NEW t \in Foreign, Put(t) PROVE TokenInv'
  BY <1>3, <1>5 DEF Put, Act
<1>6. CASE TakeAway
  BY <1>3, <1>6 DEF TakeAway, Act
<1> QED
  BY <1>1, <1>2, <1>4, <1>5, <1>6, NextSteps DEF vars
-----------------------------------------------------------------------------
(* Nothing is destroyed, and receipts stay true. *)

\* Of the names, a step of a publisher touches its own and the destination.
LEMMA OthersKept ==
  ASSUME TypeOK, [Next]_vars, NEW p \in Publisher, ~PublisherStep(p)
  PROVE  dir'[Previous(p)] = dir[Previous(p)] /\ pc'[p] = pc[p] /\ prev'[p] = prev[p]
<1>1. ASSUME NEW q \in Publisher, PublisherStep(q)
      PROVE  dir'[Previous(p)] = dir[Previous(p)] /\ pc'[p] = pc[p] /\ prev'[p] = prev[p]
  <2>1. p # q
    BY <1>1
  <2>2. ASSUME NEW m \in Moves(q) PROVE Previous(p) # m[1] /\ Previous(p) # m[2]
    <3>1. Previous(p) \notin {Stage(q), Previous(q), Suspect(q), Quarantined(q)}
      BY <2>1, OtherNames
    <3>2. Previous(p) # Dest
      BY Names
    <3> QED
      BY <3>1, <3>2 DEF Moves
  <2>3. dir'[Previous(p)] = dir[Previous(p)]
    BY <1>1, <2>2, PublisherMoves, Names DEF Rename, TypeOK
  <2> QED
    BY <1>1, <2>1, <2>3, PublisherFrame DEF TypeOK
<1> QED
  BY <1>1, NextSteps, Names DEF vars, Edit, Put, TakeAway, TypeOK

LEMMA StepKept == ASSUME TypeOK, TokenInv, KeptInv, [Next]_vars PROVE KeptInv'
<1> SUFFICES ASSUME NEW p \in Publisher, pc'[p] \in {"sealingNew", "done"},
                    prev'[p] # NoToken
             PROVE  dir'[Previous(p)] = prev'[p].tree
  BY DEF KeptInv
<1>1. CASE ~PublisherStep(p)
  BY <1>1, OthersKept DEF KeptInv
<1>2. CASE PublisherStep(p)
  <2>1. (CheckNew(p) /\ prev[p] = NoToken) \/ (SealOld(p) /\ Authentic(p)) \/ SealNew(p)
    BY <1>2
       DEF PublisherStep, CaptureStage, CaptureDestination, Recheck, Refuse, Claim, Unclaim,
           CheckClaim, RestoreClaim, PutInPlace, Probe, CheckNew, CheckOld, Withdraw,
           Quarantine, Unquarantine, Restore, Return, VerifyReturn, MoveSuspect, SealOld,
           SealNew, Die, Goto, TypeOK
  <2>2. prev' = prev /\ dir' = dir
    BY <2>1 DEF CheckNew, SealOld, SealNew, Still
  <2>3. CASE SealOld(p) /\ Authentic(p)
    BY <2>2, <2>3 DEF Authentic, Token, NoToken
  <2>4. CASE SealNew(p)
    BY <2>2, <2>4 DEF SealNew, KeptInv
  <2> QED
    BY <2>1, <2>2, <2>3, <2>4
<1> QED
  BY <1>1, <1>2
-----------------------------------------------------------------------------
(* A publisher that nobody disturbs. *)

LEMMA TokenMeans ==
  ASSUME TypeOK, TokenInv, acts = 0, NEW n \in Name, NEW p \in Publisher
  PROVE  /\ Token(n) = prev[p] <=> dir[n] = prev[p].tree
         /\ Token(n) = stage[p] <=> dir[n] = stage[p].tree
         /\ Token(n).tree = dir[n]
         /\ prev[p] = NoToken <=> prev[p].tree = None
<1>1. stage[p] \in Tokens /\ prev[p] \in Tokens /\ dir[n] \in Tree \cup {None}
  BY DEF TypeOK
<1>2. stage[p].ver = 0 /\ prev[p].ver = 0 /\ (dir[n] \in Tree => ver[dir[n]] = 0)
  BY <1>1, PublicationAssumption DEF TokenInv, TypeOK, Tokens
<1>3. None \notin Tree
  BY PublicationAssumption DEF Tree
<1>4. /\ prev[p] = [tree |-> prev[p].tree, ver |-> 0]
      /\ stage[p] = [tree |-> stage[p].tree, ver |-> 0]
  BY <1>1, <1>2 DEF Tokens
<1>5. Token(n) = [tree |-> dir[n], ver |-> 0]
  BY <1>1, <1>2, <1>3 DEF Token, NoToken
<1>6. ASSUME NEW a, NEW b, NEW c, c = [tree |-> b, ver |-> 0]
      PROVE  [tree |-> a, ver |-> 0] = c <=> a = b
  BY <1>6
<1>7. Token(n) = prev[p] <=> dir[n] = prev[p].tree
  BY <1>4, <1>5, <1>6, ZenonT(60)
<1>8. Token(n) = stage[p] <=> dir[n] = stage[p].tree
  BY <1>4, <1>5, <1>6, ZenonT(60)
<1>9. prev[p] = NoToken <=> prev[p].tree = None
  BY <1>4 DEF NoToken
<1> QED
  BY <1>5, <1>7, <1>8, <1>9

LEMMA Moved ==
  ASSUME TypeOK, NEW from \in Name, NEW to \in Name, Rename(from, to)
  PROVE  \A n \in Name : dir'[n] = IF n = to THEN dir[from] ELSE IF n = from THEN None ELSE dir[n]
  BY DEF Rename, TypeOK

\* A rename as the publisher's names show it.
LEMMA ShownMoves ==
  ASSUME TypeOK, NEW p \in Publisher
  PROVE  /\ Rename(Dest, Previous(p)) =>
              /\ dir'[Dest] = None /\ dir'[Previous(p)] = dir[Dest]
              /\ dir'[Stage(p)] = dir[Stage(p)] /\ dir'[Quarantined(p)] = dir[Quarantined(p)]
         /\ Rename(Previous(p), Dest) =>
              /\ dir'[Dest] = dir[Previous(p)] /\ dir'[Previous(p)] = None
              /\ dir'[Stage(p)] = dir[Stage(p)] /\ dir'[Quarantined(p)] = dir[Quarantined(p)]
         /\ Rename(Stage(p), Dest) =>
              /\ dir'[Dest] = dir[Stage(p)] /\ dir'[Stage(p)] = None
              /\ dir'[Previous(p)] = dir[Previous(p)]
              /\ dir'[Quarantined(p)] = dir[Quarantined(p)]
         /\ Rename(Dest, Quarantined(p)) =>
              /\ dir'[Dest] = None /\ dir'[Quarantined(p)] = dir[Dest]
              /\ dir'[Previous(p)] = dir[Previous(p)] /\ dir'[Stage(p)] = dir[Stage(p)]
<1>2. /\ Dest \notin {Stage(p), Previous(p), Quarantined(p)}
      /\ Previous(p) \notin {Stage(p), Quarantined(p)} /\ Quarantined(p) # Stage(p)
  BY Names
<1>3. ASSUME Rename(Dest, Previous(p))
      PROVE  /\ dir'[Dest] = None /\ dir'[Previous(p)] = dir[Dest]
             /\ dir'[Stage(p)] = dir[Stage(p)] /\ dir'[Quarantined(p)] = dir[Quarantined(p)]
  BY <1>2, <1>3, Names, Moved
<1>4. ASSUME Rename(Previous(p), Dest)
      PROVE  /\ dir'[Dest] = dir[Previous(p)] /\ dir'[Previous(p)] = None
             /\ dir'[Stage(p)] = dir[Stage(p)] /\ dir'[Quarantined(p)] = dir[Quarantined(p)]
  BY <1>2, <1>4, Names, Moved
<1>5. ASSUME Rename(Stage(p), Dest)
      PROVE  /\ dir'[Dest] = dir[Stage(p)] /\ dir'[Stage(p)] = None
             /\ dir'[Previous(p)] = dir[Previous(p)]
             /\ dir'[Quarantined(p)] = dir[Quarantined(p)]
  BY <1>2, <1>5, Names, Moved
<1>6. ASSUME Rename(Dest, Quarantined(p))
      PROVE  /\ dir'[Dest] = None /\ dir'[Quarantined(p)] = dir[Dest]
             /\ dir'[Previous(p)] = dir[Previous(p)] /\ dir'[Stage(p)] = dir[Stage(p)]
  BY <1>2, <1>6, Names, Moved
<1> QED
  BY <1>3, <1>4, <1>5, <1>6

\* An attempt of an undisturbed publisher, with what it ends in.
LEMMA Attempted ==
  ASSUME TypeOK, NEW from, NEW to, faults' <= 1
  PROVE  /\ Succeeds(from, to) => Rename(from, to) /\ faults' = faults
         /\ Raises(from, to) =>
              \/ (dir[from] = None \/ dir[to] # None) /\ UNCHANGED <<dir, faults>>
              \/ faults = 0 /\ faults' = 1 /\ (UNCHANGED dir \/ Rename(from, to))
  BY PublicationAssumption DEF TypeOK, Succeeds, Raises, IsRefused, Breaks, IsInterrupted, Fault

LEMMA StepPlace ==
  ASSUME TypeOK, TokenInv, NEW p \in Publisher, acts = 0, Place(p), PublisherStep(p),
         faults' <= 1
  PROVE  Place(p)'
<1> DEFINE d == dir[Dest]
           s == dir[Stage(p)]
           v == dir[Previous(p)]
           x == dir[Quarantined(p)]
           o == prev[p].tree
           g == stage[p].tree
<1>1. p \in Tree /\ p # None /\ Dest \in Name /\ Stage(p) \in Name /\ Previous(p) \in Name
  BY Names, PublicationAssumption DEF Tree
<1>2. Where(pc[p], d, s, v, x, o, g, p, faults)
  BY DEF Place
<1>3. ASSUME NEW where, Goto(p, where) PROVE pc'[p] = where
  BY <1>3 DEF Goto, TypeOK
<1>4. /\ \A n \in Name : Token(n).tree = dir[n] /\ (Token(n) = prev[p] <=> dir[n] = o)
      /\ \A n \in Name : Token(n) = stage[p] <=> dir[n] = g
      /\ prev[p] = NoToken <=> o = None
  <2>1. ASSUME NEW n \in Name
        PROVE  /\ Token(n).tree = dir[n] /\ (Token(n) = prev[p] <=> dir[n] = o)
               /\ Token(n) = stage[p] <=> dir[n] = g
               /\ prev[p] = NoToken <=> o = None
    BY <2>1, TokenMeans
  <2> QED
    BY <1>1, <2>1
<1>5. Fault => faults = 0 /\ faults' = 1
  BY PublicationAssumption DEF Fault, TypeOK
<1>6. CASE Claim(p)
  <2>1. pc[p] = "claiming" /\ UNCHANGED <<prev, stage>>
    BY <1>6 DEF Claim, Still
  <2>2. s = p /\ v = None /\ x = None /\ d = o /\ o # None /\ g = p
    BY <1>2, <2>1 DEF Where, Before
  <2>3. \/ pc'[p] = "checking" /\ Rename(Dest, Previous(p)) /\ faults' = faults
        \/ pc'[p] = "unclaiming" /\ faults' = 1 /\ (UNCHANGED dir \/ Rename(Dest, Previous(p)))
    BY <1>3, <1>6, <2>2, Attempted DEF Claim
  <2> QED
    BY <2>1, <2>2, <2>3, ShownMoves DEF Place, Where, Before
<1>7. CASE Unclaim(p)
  <2>1. pc[p] = "unclaiming" /\ UNCHANGED <<prev, stage>>
    BY <1>7 DEF Unclaim, Still
  <2>2. x = None /\ faults = 1 /\ o # None /\ g = p /\ <<d, v>> \in {<<o, None>>, <<None, o>>}
    BY <1>2, <2>1 DEF Where, Before
  <2>3. \/ pc'[p] = "failed" /\ v = o /\ Rename(Previous(p), Dest) /\ faults' = faults
        \/ pc'[p] = "failed" /\ d = o /\ UNCHANGED dir /\ faults' = faults
    BY <1>1, <1>3, <1>4, <1>5, <1>7, <2>2, Attempted DEF Unclaim, Rename
  <2> QED
    BY <1>1, <2>1, <2>2, <2>3, ShownMoves DEF Place, Where, Before
<1>8. CASE CheckClaim(p)
  <2>1. pc[p] = "checking" /\ UNCHANGED <<prev, stage>>
    BY <1>8 DEF CheckClaim, Still
  <2>2. s = p /\ x = None /\ d = None /\ v = o /\ o # None /\ g = p
    BY <1>2, <2>1 DEF Where, Before
  <2>3. \/ pc'[p] = "renaming" /\ UNCHANGED <<dir, faults>>
        \/ pc'[p] = "unchecking" /\ UNCHANGED dir /\ faults' = 1
    BY <1>1, <1>3, <1>4, <1>5, <1>8, <2>2, Attempted DEF CheckClaim, Authentic, Still
  <2> QED
    BY <1>1, <2>1, <2>2, <2>3, ShownMoves DEF Place, Where, Before
<1>9. CASE RestoreClaim(p)
  <2>1. pc[p] = "unchecking" /\ UNCHANGED <<prev, stage>>
    BY <1>9 DEF RestoreClaim, Still
  <2>2. d = None /\ v = o /\ faults = 1 /\ o # None /\ g = p
    BY <1>2, <2>1 DEF Where, Before
  <2>3. \/ pc'[p] = "failed" /\ Rename(Previous(p), Dest)
    BY <1>1, <1>3, <1>4, <1>5, <1>9, <2>2, Attempted DEF RestoreClaim
  <2> QED
    BY <1>1, <2>1, <2>2, <2>3, ShownMoves DEF Place, Where, Before
<1>10. CASE PutInPlace(p)
  <2>1. pc[p] = "renaming" /\ UNCHANGED <<prev, stage>>
    BY <1>10 DEF PutInPlace, Still
  <2>2. s = p /\ x = None /\ d = None /\ v = o /\ g = p
    BY <1>2, <2>1 DEF Where, Before
  <2>3. \/ pc'[p] = "checkingNew" /\ Rename(Stage(p), Dest) /\ faults' = faults
        \/ pc'[p] = "probing" /\ faults' = 1 /\ (UNCHANGED dir \/ Rename(Stage(p), Dest))
    BY <1>1, <1>3, <1>4, <1>5, <1>10, <2>2, Attempted DEF PutInPlace
  <2> QED
    BY <1>1, <2>1, <2>2, <2>3, ShownMoves DEF Place, Where, Before
<1>11. CASE Probe(p)
  <2>1. pc[p] = "probing" /\ UNCHANGED <<prev, stage>>
    BY <1>11 DEF Probe, Still
  <2>2. x = None /\ v = o /\ <<s, d>> \in {<<p, None>>, <<None, p>>} /\ faults = 1 /\ g = p
    BY <1>2, <2>1 DEF Where, Before
  <2>3. \/ pc'[p] = "withdrawing" /\ UNCHANGED <<dir, faults>> /\ d = p /\ s = None
        \/ pc'[p] = "restoring" /\ UNCHANGED <<dir, faults>> /\ d = None
    BY <1>1, <1>3, <1>4, <1>5, <1>11, <2>2, Attempted DEF Probe, Still
  <2> QED
    BY <1>1, <2>1, <2>2, <2>3, ShownMoves DEF Place, Where, Before
<1>12. CASE CheckNew(p)
  <2>1. pc[p] = "checkingNew" /\ UNCHANGED <<prev, stage>>
    BY <1>12 DEF CheckNew, Still
  <2>2. s = None /\ x = None /\ d = p /\ v = o /\ g = p
    BY <1>2, <2>1 DEF Where, Before
  <2>3. \/ pc'[p] = "sealingNew" /\ UNCHANGED <<dir, faults>>
        \/ pc'[p] = "checkingOld" /\ UNCHANGED <<dir, faults>> /\ o # None
        \/ pc'[p] = "withdrawing" /\ UNCHANGED dir /\ faults' = 1
    BY <1>1, <1>3, <1>4, <1>5, <1>12, <2>2, Attempted DEF CheckNew, Still
  <2> QED
    BY <1>1, <2>1, <2>2, <2>3, ShownMoves DEF Place, Where, Before
<1>13. CASE CheckOld(p)
  <2>1. pc[p] = "checkingOld" /\ UNCHANGED <<prev, stage>>
    BY <1>13 DEF CheckOld, Still
  <2>2. s = None /\ x = None /\ d = p /\ v = o /\ g = p /\ o # None
    BY <1>2, <2>1 DEF Where, Before
  <2>3. \/ pc'[p] = "sealingOld" /\ UNCHANGED <<dir, faults>>
        \/ pc'[p] = "withdrawing" /\ UNCHANGED dir /\ faults' = 1
    BY <1>1, <1>3, <1>4, <1>5, <1>13, <2>2, Attempted DEF CheckOld, Still, Authentic
  <2> QED
    BY <1>1, <2>1, <2>2, <2>3, ShownMoves DEF Place, Where, Before
<1>14. CASE Withdraw(p)
  <2>1. pc[p] = "withdrawing" /\ UNCHANGED <<prev, stage>>
    BY <1>14 DEF Withdraw, Still
  <2>2. s = None /\ x = None /\ d = p /\ v = o /\ g = p /\ faults = 1
    BY <1>2, <2>1 DEF Where, Before
  <2>3. \/ pc'[p] = "quarantining" /\ UNCHANGED <<dir, faults>>
    BY <1>1, <1>3, <1>4, <1>5, <1>14, <2>2, Attempted DEF Withdraw, Still
  <2> QED
    BY <1>1, <2>1, <2>2, <2>3, ShownMoves DEF Place, Where, Before
<1>15. CASE Quarantine(p)
  <2>1. pc[p] = "quarantining" /\ UNCHANGED <<prev, stage>>
    BY <1>15 DEF Quarantine, Still
  <2>2. s = None /\ x = None /\ d = p /\ v = o /\ g = p /\ faults = 1
    BY <1>2, <2>1 DEF Where, Before
  <2>3. \/ pc'[p] = "restoring" /\ Rename(Dest, Quarantined(p)) /\ faults' = 1
    BY <1>1, <1>3, <1>4, <1>5, <1>15, <2>2, Attempted DEF Quarantine
  <2> QED
    BY <1>1, <2>1, <2>2, <2>3, ShownMoves DEF Place, Where, Before
<1>16. CASE Restore(p)
  <2>1. pc[p] = "restoring" /\ UNCHANGED <<prev, stage>>
    BY <1>16 DEF Restore, Still
  <2>2. d = None /\ v = o /\ g = p /\ faults = 1
    BY <1>2, <2>1 DEF Where, Before
  <2>3. \/ pc'[p] = "failed" /\ UNCHANGED dir /\ o = None
        \/ pc'[p] = "returning" /\ UNCHANGED <<dir, faults>> /\ o # None
    BY <1>1, <1>3, <1>4, <1>5, <1>16, <2>2, Attempted DEF Restore, Still, Authentic
  <2> QED
    BY <1>1, <2>1, <2>2, <2>3, ShownMoves DEF Place, Where, Before
<1>17. CASE Return(p)
  <2>1. pc[p] = "returning" /\ UNCHANGED <<prev, stage>>
    BY <1>17 DEF Return, Still
  <2>2. d = None /\ v = o /\ g = p /\ faults = 1 /\ o # None
    BY <1>2, <2>1 DEF Where, Before
  <2>3. \/ pc'[p] = "verifying" /\ Rename(Previous(p), Dest) /\ faults' = 1
    BY <1>1, <1>3, <1>4, <1>5, <1>17, <2>2, Attempted DEF Return
  <2> QED
    BY <1>1, <2>1, <2>2, <2>3, ShownMoves DEF Place, Where, Before
<1>18. CASE VerifyReturn(p)
  <2>1. pc[p] = "verifying" /\ UNCHANGED <<prev, stage>>
    BY <1>18 DEF VerifyReturn, Still
  <2>2. d = o /\ g = p /\ faults = 1 /\ o # None
    BY <1>2, <2>1 DEF Where, Before
  <2>3. \/ pc'[p] = "failed" /\ UNCHANGED dir
    BY <1>1, <1>3, <1>4, <1>5, <1>18, <2>2, Attempted DEF VerifyReturn, Still
  <2> QED
    BY <1>1, <2>1, <2>2, <2>3, ShownMoves DEF Place, Where, Before
<1>19. CASE SealOld(p)
  <2>1. pc[p] = "sealingOld" /\ UNCHANGED <<prev, stage>>
    BY <1>19 DEF SealOld, Still
  <2>2. s = None /\ x = None /\ d = p /\ v = o /\ g = p
    BY <1>2, <2>1 DEF Where, Before
  <2>3. \/ pc'[p] = "sealingNew" /\ UNCHANGED dir
        \/ pc'[p] = "unsealed" /\ UNCHANGED dir
    BY <1>1, <1>3, <1>4, <1>5, <1>19, <2>2, Attempted DEF SealOld, Still
  <2> QED
    BY <1>1, <2>1, <2>2, <2>3, ShownMoves DEF Place, Where, Before
<1>20. CASE SealNew(p)
  <2>1. pc[p] = "sealingNew" /\ UNCHANGED <<prev, stage>>
    BY <1>20 DEF SealNew, Still
  <2>2. s = None /\ x = None /\ d = p /\ v = o /\ g = p
    BY <1>2, <2>1 DEF Where, Before
  <2>3. \/ pc'[p] = "done" /\ UNCHANGED dir
        \/ pc'[p] = "unsealed" /\ UNCHANGED dir
    BY <1>1, <1>3, <1>4, <1>5, <1>20, <2>2, Attempted DEF SealNew, Still
  <2> QED
    BY <1>1, <2>1, <2>2, <2>3, ShownMoves DEF Place, Where, Before
<1>21. CASE CaptureStage(p)
  <2>1. /\ pc[p] = "start" /\ pc'[p] = "captured" /\ UNCHANGED <<dir, prev, faults>>
        /\ stage'[p].tree = s
    BY <1>1, <1>3, <1>4, <1>21 DEF CaptureStage, TypeOK
  <2> QED
    BY <1>2, <2>1 DEF Place, Where, Before
<1>22. CASE CaptureDestination(p)
  <2>1. /\ pc[p] = "captured" /\ pc'[p] = "ready" /\ UNCHANGED <<dir, stage, faults>>
        /\ prev'[p].tree = d
    BY <1>1, <1>3, <1>4, <1>22 DEF CaptureDestination, TypeOK
  <2> QED
    BY <1>2, <2>1 DEF Place, Where, Before
<1>23. CASE Recheck(p)
  <2>1. /\ pc[p] = "ready" /\ UNCHANGED <<dir, stage, prev, faults>>
        /\ \/ pc'[p] = "renaming" /\ o = None
           \/ pc'[p] = "claiming" /\ o # None
    BY <1>3, <1>4, <1>23 DEF Recheck, Still
  <2> QED
    BY <1>2, <2>1 DEF Place, Where, Before
<1>24. CASE Refuse(p) \/ Die(p)
  <2>1. pc'[p] \in {"refused", "dead"}
    BY <1>3, <1>24 DEF Refuse, Die
  <2> QED
    BY <2>1 DEF Place, Where, Before
<1>25. ~Unquarantine(p) /\ ~MoveSuspect(p)
  BY <1>2 DEF Unquarantine, MoveSuspect, Where
<1> QED
  BY <1>6, <1>7, <1>8, <1>9, <1>10, <1>11, <1>12, <1>13, <1>14, <1>15, <1>16, <1>17, <1>18, <1>19, <1>20, <1>21, <1>22, <1>23, <1>24, <1>25 DEF PublisherStep

\* Before anything moves, the step of another publisher changes nothing of this one's.
LEMMA OthersWait ==
  ASSUME TypeOK, NEW p \in Publisher, NEW q \in Publisher, p # q, PublisherStep(q),
         pc[q] \in Before, pc'[q] \in Before
  PROVE  UNCHANGED <<dir, faults>> /\ stage'[p] = stage[p] /\ prev'[p] = prev[p]
           /\ pc'[p] = pc[p]
<1>1. CaptureStage(q) \/ CaptureDestination(q)
  BY DEF PublisherStep, Recheck, Refuse, Claim, Unclaim, CheckClaim, RestoreClaim, PutInPlace,
         Probe, CheckNew, CheckOld, Withdraw, Quarantine, Unquarantine, Restore, Return,
         VerifyReturn, MoveSuspect, SealOld, SealNew, Die, Goto, Before, TypeOK
<1> QED
  BY <1>1 DEF CaptureStage, CaptureDestination, Goto, TypeOK

\* A publisher that is undisturbed after a step was so before.
LEMMA StillAlone ==
  ASSUME TypeOK, NEW p \in Publisher, NEW q \in Publisher, PublisherStep(q), Alone(p)'
  PROVE  Alone(p) /\ (q # p => pc[q] \in Before /\ pc'[q] \in Before)
<1>1. acts' = acts /\ (UNCHANGED faults \/ Fault)
  BY DEF PublisherStep, CaptureStage, CaptureDestination, Recheck, Refuse, Claim, Unclaim,
         CheckClaim, RestoreClaim, PutInPlace, Probe, CheckNew, CheckOld, Withdraw,
         Quarantine, Unquarantine, Restore, Return, VerifyReturn, MoveSuspect, SealOld,
         SealNew, Die, Succeeds, Raises, IsRefused, Breaks, IsInterrupted, Still
<1>2. acts = 0 /\ faults <= 1
  BY <1>1, PublicationAssumption DEF Alone, Fault, TypeOK
<1>3. pc'[q] \in Before => pc[q] \in Before
  BY DEF PublisherStep, CaptureStage, CaptureDestination, Recheck, Refuse, Claim, Unclaim,
         CheckClaim, RestoreClaim, PutInPlace, Probe, CheckNew, CheckOld, Withdraw,
         Quarantine, Unquarantine, Restore, Return, VerifyReturn, MoveSuspect, SealOld,
         SealNew, Die, Goto, Before, TypeOK
<1>4. \A r \in Publisher \ {q} : pc'[r] = pc[r]
  BY PublisherFrame DEF TypeOK
<1> QED
  BY <1>2, <1>3, <1>4 DEF Alone

LEMMA StepAlone == ASSUME IInv, [Next]_vars PROVE AloneInv'
<1> SUFFICES ASSUME NEW p \in Publisher, Alone(p)' PROVE Place(p)'
  BY DEF AloneInv
<1>1. TypeOK /\ TokenInv /\ (Alone(p) => Place(p))
  BY DEF IInv, AloneInv
<1>2. CASE UNCHANGED vars
  BY <1>1, <1>2 DEF vars, Alone, Place
<1>3. ASSUME PublisherStep(p) PROVE Place(p)'
  <2>1. Alone(p) /\ faults' <= 1
    BY <1>1, <1>3, StillAlone DEF Alone
  <2> QED
    BY <1>1, <1>3, <2>1, StepPlace DEF Alone
<1>4. ASSUME NEW q \in Publisher, q # p, PublisherStep(q) PROVE Place(p)'
  <2>1. Alone(p) /\ pc[q] \in Before /\ pc'[q] \in Before
    BY <1>1, <1>4, StillAlone
  <2>2. UNCHANGED <<dir, faults>> /\ stage'[p] = stage[p] /\ prev'[p] = prev[p]
          /\ pc'[p] = pc[p]
    BY <1>1, <1>4, <2>1, OthersWait
  <2> QED
    BY <1>1, <2>1, <2>2 DEF Place
<1>5. ~\E t \in Tree : Edit(t)
  BY <1>1 DEF Edit, Act, Alone, TypeOK
<1>6. ~\E t \in Foreign : Put(t)
  BY <1>1 DEF Put, Act, Alone, TypeOK
<1>7. ~TakeAway
  BY <1>1 DEF TakeAway, Act, Alone, TypeOK
<1> QED
  BY <1>2, <1>3, <1>4, <1>5, <1>6, <1>7, NextSteps
-----------------------------------------------------------------------------
LEMMA InitIInv == Init => IInv
<1> SUFFICES ASSUME Init PROVE IInv
  OBVIOUS
<1>1. PICK first \in {Old, None} :
        dir = [n \in Name |-> IF n = Dest THEN first
                              ELSE IF n = Stage(n[1]) THEN n[1] ELSE None]
  BY DEF Init
<1>2. \A n \in Name : n # Dest => n[1] \in Publisher
  BY DEF Name
<1>3. dir \in [Name -> Tree \cup {None}]
  BY <1>1, <1>2 DEF Tree
<1>4. TypeOK
  BY <1>3, PublicationAssumption DEF Init, TypeOK, Before, Tokens, NoToken
<1>5. Unique
  <2> SUFFICES ASSUME NEW n \in Name, NEW m \in Name, dir[n] # None, dir[n] = dir[m]
               PROVE  n = m
    BY DEF Unique
  <2>1. CASE n = Dest
    BY <1>1, <1>2, <2>1, PublicationAssumption
  <2>2. CASE m = Dest
    BY <1>1, <1>2, <2>2, PublicationAssumption
  <2>3. CASE n # Dest /\ m # Dest
    <3>1. n = Stage(n[1]) /\ m = Stage(m[1]) /\ n[1] = m[1]
      BY <1>1, <2>3
    <3> QED
      BY <3>1
  <2> QED
    BY <2>1, <2>2, <2>3
<1>6. TokenInv
  BY PublicationAssumption DEF Init, TokenInv, NoToken
<1>7. KeptInv
  BY DEF Init, KeptInv
<1>8. AloneInv
  <2> SUFFICES ASSUME NEW p \in Publisher PROVE Place(p)
    BY DEF AloneInv
  <2>1. dir[Stage(p)] = p
    <3>1. Stage(p)[1] = p
      BY DEF Stage
    <3> QED
      BY <1>1, <3>1, Names
  <2>2. dir[Previous(p)] = None /\ dir[Quarantined(p)] = None
    <3>1. /\ Previous(p)[1] = p /\ Quarantined(p)[1] = p
          /\ Previous(p) # Stage(p) /\ Quarantined(p) # Stage(p)
      BY DEF Previous, Quarantined, Stage
    <3> QED
      BY <1>1, <3>1, Names
  <2>3. pc[p] = "start"
    BY DEF Init
  <2> QED
    BY <2>1, <2>2, <2>3 DEF Place, Where, Before
<1> QED
  BY <1>4, <1>5, <1>6, <1>7, <1>8 DEF IInv

LEMMA Invariance == Spec => []IInv
<1>1. IInv /\ [Next]_vars => IInv'
  BY StepType, StepUnique, StepToken, StepKept, StepAlone DEF IInv
<1> QED
  BY InitIInv, <1>1, PTL DEF Spec

\* The variables of the directory and of its publishers keep their types.
THEOREM TypeCorrect == Spec => []TypeOK
  BY Invariance, PTL DEF IInv

\* No step of a publisher, successful or not, and no death destroys a tree: none of the
\* renames has a tree at its target.
THEOREM NothingIsDestroyedEver == Spec => NothingIsDestroyed
<1> DEFINE Safe == \A t \in Tree : (\E n \in Name : dir[n] = t)
                     => (\E n \in Name : dir'[n] = t) \/ t \in away'
<1>1. ASSUME TypeOK, [Next]_vars PROVE [Safe]_dir
  <2> SUFFICES ASSUME NEW t \in Tree, NEW n \in Name, dir[n] = t
               PROVE  (\E l \in Name : dir'[l] = t) \/ t \in away'
    OBVIOUS
  <2>0. t # None
    BY PublicationAssumption DEF Tree
  <2>1. CASE UNCHANGED dir
    BY <2>1
  <2>2. ASSUME NEW p \in Publisher, NEW m \in Moves(p), Rename(m[1], m[2])
        PROVE  \E l \in Name : dir'[l] = t
    <3>1. m[1] \in Name /\ m[2] \in Name /\ dir[m[2]] = None
      BY <2>2, MoveNames DEF Rename
    <3>2. dir'[IF n = m[1] THEN m[2] ELSE n] = t
      BY <1>1, <2>0, <2>2, <3>1, Moved
    <3> QED
      BY <3>1, <3>2
  <2>3. ASSUME NEW u \in Foreign, Put(u) PROVE dir'[n] = t
    BY <1>1, <2>0, <2>3 DEF Put, TypeOK
  <2>4. CASE TakeAway
    BY <1>1, <2>4 DEF TakeAway, TypeOK
  <2> QED
    BY <1>1, <2>1, <2>2, <2>3, <2>4, PublisherMoves, NextSteps DEF vars, Edit
<1>2. Spec => []TypeOK
  BY TypeCorrect
<1> QED
  BY <1>1, <1>2, PTL DEF Spec, NothingIsDestroyed

\* An undisturbed publication that meets at most one failure is all or nothing.
THEOREM AllOrNothingAlways == Spec => []AllOrNothing
<1>1. IInv => AllOrNothing
  <2> SUFFICES ASSUME IInv, NEW p \in Publisher,
                      Alone(p), pc[p] \in Ended \ {"refused", "dead"}
               PROVE  IF pc[p] \in {"done", "unsealed"}
                      THEN /\ dir[Dest] = p
                           /\ prev[p] # NoToken => dir[Previous(p)] = prev[p].tree
                      ELSE pc[p] = "failed" /\ dir[Dest] = prev[p].tree
    BY DEF AllOrNothing, Alone
  <2> QED
    BY DEF IInv, AloneInv, Place, Where, Ended
<1> QED
  BY <1>1, Invariance, PTL

\* Whatever others do, the tree a successful publication has replaced stays under the
\* name it returned, and no two replaced the same one.
THEOREM ReceiptsAreTrueAlways == Spec => []ReceiptsAreTrue
<1>1. IInv => ReceiptsAreTrue
  <2> SUFFICES ASSUME IInv, NEW p \in Publisher, pc[p] = "done", prev[p] # NoToken
               PROVE  /\ dir[Previous(p)] = prev[p].tree
                      /\ \A q \in Publisher \ {p} :
                           pc[q] = "done" => prev[q].tree # prev[p].tree
    BY DEF ReceiptsAreTrue
  <2>1. dir[Previous(p)] = prev[p].tree /\ prev[p].tree # None
    BY DEF IInv, KeptInv, TokenInv
  <2>2. ASSUME NEW q \in Publisher \ {p}, pc[q] = "done", prev[q].tree = prev[p].tree
        PROVE  FALSE
    <3>1. prev[q] # NoToken
      BY <2>1, <2>2 DEF NoToken
    <3>2. dir[Previous(q)] = dir[Previous(p)] /\ dir[Previous(p)] # None
      BY <2>1, <2>2, <3>1 DEF IInv, KeptInv
    <3>3. Previous(p) = Previous(q)
      BY <3>2, Names DEF IInv, Unique
    <3> QED
      BY <3>3 DEF Previous
  <2> QED
    BY <2>1, <2>2
<1> QED
  BY <1>1, Invariance, PTL
-----------------------------------------------------------------------------
(* What a publication leaves behind under hidden names.                     *)

\* A refused publication has moved nothing: its stage is where it was.  One that
\* has returned leaves no stage and, of hidden trees, only the one it replaced.
NothingStaysHidden ==
  \A p \in Publisher :
    /\ pc[p] = "refused" =>
         /\ dir[Stage(p)] = p
         /\ \A n \in {Previous(p), Quarantined(p), Suspect(p)} : dir[n] = None
    /\ pc[p] = "done" =>
         /\ dir[Previous(p)] = prev[p].tree
         /\ \A n \in {Stage(p), Quarantined(p), Suspect(p)} : dir[n] = None

\* The trees under a publisher's own names at each label: the stage, the previous
\* tree, the quarantined and the suspect one; whether there was a previous tree.
Left(w, s, v, x, u, first, p) ==
  /\ w \in Before \cup {"refused", "claiming"} => s = p /\ v = None
  /\ w \in {"unclaiming", "checking", "unchecking", "renaming"} => s = p
  /\ w \in {"checkingNew", "checkingOld", "sealingOld", "sealingNew", "done", "unsealed",
            "lost"} => s = None
  /\ w \notin {"restoring", "returning", "verifying", "unquarantining", "suspecting",
               "failed", "isolated", "dead"} => x = None
  /\ w \notin {"isolated", "dead"} => u = None
  /\ first => v = None
  /\ w \in {"claiming", "unclaiming", "checking", "unchecking"} => ~first

Leftover(p) ==
  Left(pc[p], dir[Stage(p)], dir[Previous(p)], dir[Quarantined(p)], dir[Suspect(p)],
       prev[p] = NoToken, p)

LeftInv == \A p \in Publisher : Leftover(p)

Own(p) == {Stage(p), Previous(p), Quarantined(p), Suspect(p)}

\* Nobody else touches a publisher's own names.
LEMMA OwnKept ==
  ASSUME TypeOK, [Next]_vars, NEW p \in Publisher, ~PublisherStep(p), NEW n \in Own(p)
  PROVE  dir'[n] = dir[n] /\ pc'[p] = pc[p] /\ prev'[p] = prev[p]
<1>0. n \in Name /\ n # Dest
  BY Names DEF Own
<1>1. ASSUME NEW q \in Publisher, PublisherStep(q)
      PROVE  dir'[n] = dir[n]
  <2>1. n \notin {Stage(q), Previous(q), Suspect(q), Quarantined(q)}
    BY <1>1, OtherNames DEF Own
  <2>2. ASSUME NEW m \in Moves(q) PROVE n # m[1] /\ n # m[2]
    BY <1>0, <2>1 DEF Moves
  <2> QED
    BY <1>0, <1>1, <2>2, PublisherMoves DEF Rename, TypeOK
<1>2. dir'[n] = dir[n]
  BY <1>0, <1>1, NextSteps DEF vars, Edit, Put, TakeAway, TypeOK
<1> QED
  BY <1>2, OthersKept


\* A publisher's own names after one of its renames, however it ends.
LEMMA OwnMoves ==
  ASSUME TypeOK, NEW p \in Publisher
  PROVE  /\ Succeeds(Dest, Previous(p)) \/ Raises(Dest, Previous(p)) =>
              \A n \in {Stage(p), Quarantined(p), Suspect(p)} : dir'[n] = dir[n]
         /\ Succeeds(Previous(p), Dest) \/ Raises(Previous(p), Dest) =>
              /\ dir'[Previous(p)] \in {dir[Previous(p)], None}
              /\ \A n \in {Stage(p), Quarantined(p), Suspect(p)} : dir'[n] = dir[n]
         /\ Succeeds(Stage(p), Dest) \/ Raises(Stage(p), Dest) =>
              \A n \in {Previous(p), Quarantined(p), Suspect(p)} : dir'[n] = dir[n]
         /\ Succeeds(Stage(p), Dest) => dir'[Stage(p)] = None
         /\ Succeeds(Dest, Quarantined(p)) \/ Raises(Dest, Quarantined(p)) =>
              \A n \in {Stage(p), Previous(p), Suspect(p)} : dir'[n] = dir[n]
         /\ Succeeds(Quarantined(p), Dest) \/ Raises(Quarantined(p), Dest) =>
              \A n \in {Stage(p), Previous(p), Suspect(p)} : dir'[n] = dir[n]
         /\ Succeeds(Dest, Suspect(p)) \/ Raises(Dest, Suspect(p)) =>
              \A n \in {Stage(p), Previous(p), Quarantined(p)} : dir'[n] = dir[n]
<1> DEFINE MovesOne(from, to) == \A n \in Name :
             dir'[n] = dir[n] \/ n = to \/ (n = from /\ dir'[n] = None)
<1>1. ASSUME NEW from \in Name, NEW to \in Name, from # to,
             Succeeds(from, to) \/ Raises(from, to)
      PROVE  MovesOne(from, to)
  <2>1. CASE UNCHANGED dir
    BY <2>1
  <2>2. CASE Rename(from, to)
    <3>1. \A n \in Name : dir'[n] = IF n = to THEN dir[from] ELSE IF n = from THEN None ELSE dir[n]
      BY <1>1, <2>2, Moved
    <3> QED
      BY <3>1
  <2> QED
    BY <1>1, <2>1, <2>2, Attempt
<1>2. Succeeds(Stage(p), Dest) => dir'[Stage(p)] = None
  BY Names, Moved DEF Succeeds
<1> HIDE DEF MovesOne
<1>3. \A from \in Name, to \in Name :
        from # to /\ (Succeeds(from, to) \/ Raises(from, to)) => MovesOne(from, to)
  BY <1>1
<1> QED
  BY <1>2, <1>3, Names DEF MovesOne

\* The steps that rename nothing.
LEMMA QuietLeft ==
  ASSUME TypeOK, NEW p \in Publisher, Leftover(p), UNCHANGED dir,
         \/ CaptureStage(p) \/ CaptureDestination(p) \/ Recheck(p) \/ Refuse(p)
         \/ CheckClaim(p) \/ Probe(p) \/ CheckNew(p) \/ CheckOld(p) \/ Withdraw(p)
         \/ Restore(p) \/ VerifyReturn(p) \/ SealOld(p) \/ SealNew(p) \/ Die(p)
  PROVE  Leftover(p)'
<1> USE DEF Leftover, Left, Goto, Before, Ended, TypeOK
<1>1. CASE CaptureStage(p) \/ Refuse(p)
  BY <1>1 DEF CaptureStage, Refuse, Still
<1>2. CASE CaptureDestination(p)
  <2>1. dir'[Previous(p)] = None
    BY <1>2 DEF CaptureDestination
  <2> QED
    BY <1>2, <2>1 DEF CaptureDestination
<1>3. CASE Recheck(p)
  BY <1>3 DEF Recheck, Still
<1>4. CASE CheckClaim(p) \/ Probe(p)
  BY <1>4 DEF CheckClaim, Probe, Still
<1>5. CASE CheckNew(p) \/ CheckOld(p)
  BY <1>5 DEF CheckNew, CheckOld, Still
<1>6. CASE Withdraw(p) \/ Restore(p) \/ VerifyReturn(p)
  BY <1>6 DEF Withdraw, Restore, VerifyReturn, Still
<1>7. CASE SealOld(p) \/ SealNew(p) \/ Die(p)
  BY <1>7 DEF SealOld, SealNew, Die, Still
<1> QED
  BY <1>1, <1>2, <1>3, <1>4, <1>5, <1>6, <1>7

LEMMA StepLeft == ASSUME TypeOK, LeftInv, [Next]_vars PROVE LeftInv'
<1> SUFFICES ASSUME NEW p \in Publisher PROVE Leftover(p)'
  BY DEF LeftInv
<1>1. Leftover(p)
  BY DEF LeftInv
<1>2. CASE ~PublisherStep(p)
  <2>1. /\ \A n \in Own(p) : dir'[n] = dir[n]
        /\ pc'[p] = pc[p] /\ prev'[p] = prev[p]
    BY <1>2, OwnKept DEF Own
  <2> QED
    BY <1>1, <2>1 DEF Leftover, Own
<1>3. CASE PublisherStep(p)
  <2> USE DEF Leftover, Left, Goto, Still, Before, TypeOK
  <2>1. CASE Claim(p)
    BY <1>1, <2>1, OwnMoves DEF Claim
  <2>2. CASE Unclaim(p)
    BY <1>1, <2>2, OwnMoves DEF Unclaim
  <2>3. CASE RestoreClaim(p)
    BY <1>1, <2>3, OwnMoves DEF RestoreClaim
  <2>4. CASE PutInPlace(p)
    BY <1>1, <2>4, OwnMoves DEF PutInPlace
  <2>5. CASE Quarantine(p)
    BY <1>1, <2>5, OwnMoves DEF Quarantine
  <2>6. CASE Unquarantine(p)
    BY <1>1, <2>6, OwnMoves DEF Unquarantine
  <2>7. CASE Return(p)
    BY <1>1, <2>7, OwnMoves DEF Return
  <2>8. CASE MoveSuspect(p)
    BY <1>1, <2>8, OwnMoves DEF MoveSuspect
  <2>9. \/ Claim(p) \/ Unclaim(p) \/ RestoreClaim(p) \/ PutInPlace(p) \/ Quarantine(p)
        \/ Unquarantine(p) \/ Return(p) \/ MoveSuspect(p) \/ Leftover(p)'
    <3>1. CASE \/ CaptureStage(p) \/ CaptureDestination(p) \/ Recheck(p) \/ Refuse(p)
               \/ CheckClaim(p) \/ Probe(p) \/ CheckNew(p) \/ CheckOld(p) \/ Withdraw(p)
               \/ Restore(p) \/ VerifyReturn(p) \/ SealOld(p) \/ SealNew(p) \/ Die(p)
      <4>1. UNCHANGED dir
        BY <3>1 DEF CaptureStage, CaptureDestination, Recheck, Refuse, CheckClaim, Probe,
                    CheckNew, CheckOld, Withdraw, Restore, VerifyReturn, SealOld, SealNew, Die
      <4> QED
        BY <1>1, <3>1, <4>1, QuietLeft
    <3> QED
      BY <1>3, <3>1 DEF PublisherStep
  <2> QED
    BY <2>1, <2>2, <2>3, <2>4, <2>5, <2>6, <2>7, <2>8, <2>9
<1> QED
  BY <1>2, <1>3

\* Whatever other publishers and programs do and whatever fails, a publication that was
\* refused has left no trace, and one that returned has left only the previous tree, under
\* the name it returned, or nothing if there was none.
THEOREM NothingStaysHiddenEver == Spec => []NothingStaysHidden
<1>1. Init => LeftInv
  <2> SUFFICES ASSUME Init, NEW p \in Publisher PROVE Leftover(p)
    BY DEF LeftInv
  <2>1. PICK first \in {Old, None} :
          dir = [n \in Name |-> IF n = Dest THEN first
                                ELSE IF n = Stage(n[1]) THEN n[1] ELSE None]
    BY DEF Init
  <2>2. /\ \A n \in Own(p) : n[1] = p
        /\ Stage(p) \notin {Previous(p), Quarantined(p), Suspect(p)}
    BY DEF Own, Stage, Previous, Quarantined, Suspect
  <2>3. /\ dir[Stage(p)] = p
        /\ \A n \in {Previous(p), Quarantined(p), Suspect(p)} : dir[n] = None
    BY <2>1, <2>2, Names DEF Own
  <2>4. pc[p] = "start"
    BY DEF Init
  <2> QED
    BY <2>3, <2>4 DEF Leftover, Left, Before
<1>2. TypeOK /\ LeftInv /\ [Next]_vars => LeftInv'
  BY StepLeft
<1>3. IInv /\ LeftInv => NothingStaysHidden
  <2> SUFFICES ASSUME IInv, LeftInv, NEW p \in Publisher
               PROVE  /\ pc[p] = "refused" =>
                           /\ dir[Stage(p)] = p
                           /\ \A n \in {Previous(p), Quarantined(p), Suspect(p)} :
                                dir[n] = None
                      /\ pc[p] = "done" =>
                           /\ dir[Previous(p)] = prev[p].tree
                           /\ \A n \in {Stage(p), Quarantined(p), Suspect(p)} :
                                dir[n] = None
    BY DEF NothingStaysHidden
  <2>1. Leftover(p)
    BY DEF LeftInv
  <2>2. NoToken.tree = None
    BY DEF NoToken
  <2> QED
    BY <2>1, <2>2 DEF Leftover, Left, IInv, KeptInv
<1> QED
  BY <1>1, <1>2, <1>3, Invariance, TypeCorrect, PTL DEF Spec
=============================================================================

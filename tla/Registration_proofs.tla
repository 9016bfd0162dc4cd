------------------------ MODULE Registration_proofs ------------------------
(***************************************************************************)
(* Theorems about Registration for any terminals, agents, servers, edits   *)
(* and faults.                                                             *)
(***************************************************************************)
EXTENDS Registration, TLAPS

State == {"no", "pending", "configured"}

\* The stages of init after the pending receipt; those of uninstall at one client.
Registering == {"look", "add", "verify", "confirm"}
Removing == {"remove", "recheck", "forget"}

\* The lock is held by the one command that is at work.
LockHeld ==
  /\ inside = {t \in Task : pc[t] \in Locked}
  /\ \A t, u \in inside : t = u

\* What CodeNib made is there, and recorded.
MadeIsRecorded == \A c \in made : native[c] # None /\ Manages(receipt, c)

\* What is the user's is there, and the receipt does not say that it is CodeNib's.
TheirsIsNotOurs ==
  \A c \in theirs : native[c] # None /\ ~(Manages(receipt, c) /\ native[c] = receipt.server)

NoServerNoClient == receipt.server = None => \A c \in Client : ~Manages(receipt, c)

\* What a command holds about the receipt and the registrations it has looked at.
Holds(t) ==
  /\ pc[t] \in {"waits"} \cup InitStage => server[t] \in Server
  /\ pc[t] \in Locked \ {"leave"} =>
       \A c \in Client : Manages(managed[t], c) <=> Manages(receipt, c)
  /\ pc[t] = "waits" => todo[t] = clients[t]
  /\ pc[t] \in InitStage => managed[t].server = server[t] /\ todo[t] \subseteq clients[t]
  /\ pc[t] = "examine" => /\ receipt.server \in {None, server[t]}
                          /\ (clients[t] \ todo[t]) \cap theirs = {}
  /\ pc[t] \in Registering => /\ receipt.server = server[t]
                              /\ clients[t] \cap theirs = {}
                              /\ \A c \in clients[t] : Manages(receipt, c)
  /\ pc[t] \in Registering \ {"look"} => at[t] \in clients[t]
  /\ pc[t] \in UninstallStage =>
       /\ \A c \in todo[t] : Manages(receipt, c)
       /\ \A c \in Client : Manages(receipt, c) => managed[t].server = receipt.server
  /\ pc[t] \in Removing => at[t] \in todo[t]
  /\ pc[t] = "remove" => (at[t] \in theirs => force[t])
  /\ pc[t] = "forget" => at[t] \notin made

Shared == LockHeld /\ MadeIsRecorded /\ TheirsIsNotOurs /\ NoServerNoClient

IInv == TypeOK /\ Shared /\ \A t \in Task : Holds(t)
-----------------------------------------------------------------------------
(* The operations on a receipt. *)

\* with_client and without_client change the entry of one client and keep the server.
LEMMA MarkedFact ==
  ASSUME NEW r \in Receipt, NEW c \in Client, NEW s \in State
  PROVE  /\ Marked(r, c, s) \in Receipt /\ Marked(r, c, s).server = r.server
         /\ Manages(Marked(r, c, s), c) <=> s # "no"
         /\ \A d \in Client \ {c} : Manages(Marked(r, c, s), d) <=> Manages(r, d)
  BY DEF Receipt, State, Marked, Manages

\* The pending entries are those of the chosen clients that had none.
LEMMA PendingFact ==
  ASSUME NEW r \in Receipt, NEW S \in SUBSET Client
  PROVE  /\ Pending(r, S) \in Receipt /\ Pending(r, S).server = r.server
         /\ \A c \in Client : Manages(Pending(r, S), c) <=> c \in S \/ Manages(r, c)
  BY DEF Receipt, Pending, Manages

\* A new receipt names the server, and an old one keeps its own.
LEMMA OrNewFact ==
  ASSUME NEW r \in Receipt, NEW s \in Server
  PROVE  /\ OrNew(r, s) \in Receipt
         /\ OrNew(r, s).server = IF r.server = None THEN s ELSE r.server
         /\ \A c \in Client : Manages(OrNew(r, s), c) <=> Manages(r, c)
  BY DEF Receipt, OrNew, Manages

LEMMA NoReceiptFact ==
  NoReceipt \in Receipt /\ NoReceipt.server = None /\ \A c \in Client : ~Manages(NoReceipt, c)
  BY DEF Receipt, NoReceipt, Manages

LEMMA InitIInv == Init => IInv
<1> SUFFICES ASSUME Init PROVE IInv
  OBVIOUS
<1>1. TypeOK
  BY NoReceiptFact, RegistrationAssumption DEF Init, TypeOK, Stage
<1>2. Shared
  BY NoReceiptFact
     DEF Init, Shared, LockHeld, MadeIsRecorded, TheirsIsNotOurs, NoServerNoClient, Locked,
         InitStage, UninstallStage
<1>3. \A t \in Task : Holds(t)
  BY DEF Init, Holds, Locked, InitStage, UninstallStage, Registering, Removing
<1> QED
  BY <1>1, <1>2, <1>3 DEF IInv
-----------------------------------------------------------------------------
(* Types *)

LEMMA StepType == ASSUME IInv, [Next]_vars PROVE TypeOK'
<1> USE RegistrationAssumption
<1>0. TypeOK
  BY DEF IInv
<1>1. CASE UNCHANGED vars
  BY <1>0, <1>1 DEF TypeOK, vars, local, command
<1>2. ASSUME NEW t \in Task, NEW s \in Server, NEW S \in SUBSET Client, Preflight(t, s, S)
      PROVE  TypeOK'
  BY <1>0, <1>2 DEF TypeOK, Preflight, Goto, Stage
<1>3. ASSUME NEW t \in Task, EnterInit(t) PROVE TypeOK'
  <2>1. server[t] \in Server
    BY <1>3 DEF IInv, Holds, EnterInit
  <2>2. OrNew(receipt, server[t]) \in Receipt
    BY <1>0, <2>1, OrNewFact DEF TypeOK
  <2> QED
    BY <1>0, <1>3, <2>2 DEF TypeOK, EnterInit, Goto, Stage, Locked, InitStage, Lock!Enter, command
<1>4. ASSUME NEW t \in Task, NEW c \in Client, Examine(t, c) PROVE TypeOK'
  BY <1>0, <1>4 DEF TypeOK, Examine, Goto, Stage, Locked, InitStage, command
<1>5. ASSUME NEW t \in Task, Pend(t) PROVE TypeOK'
  <2>1. Pending(managed[t], clients[t]) \in Receipt
    BY <1>0, PendingFact DEF TypeOK
  <2> QED
    BY <1>0, <1>5, <2>1 DEF TypeOK, Pend, Goto, Stage, Locked, InitStage, command
<1>6. ASSUME NEW t \in Task, NEW c \in Client, Look(t, c) PROVE TypeOK'
  BY <1>0, <1>6 DEF TypeOK, Look, Goto, Stage, Locked, InitStage, command
<1>7. ASSUME NEW t \in Task, Add(t) PROVE TypeOK'
  <2>1. server[t] \in Server /\ at[t] \in Client
    BY <1>0, <1>7 DEF IInv, Holds, Add, InitStage, Registering, TypeOK
  <2> QED
    BY <1>0, <1>7, <2>1 DEF TypeOK, Add, Goto, Stage, Locked, InitStage, command
<1>8. ASSUME NEW t \in Task, Verify(t) PROVE TypeOK'
  BY <1>0, <1>8 DEF TypeOK, Verify, Goto, Stage, Locked, InitStage, command
<1>9. ASSUME NEW t \in Task, Confirm(t) PROVE TypeOK'
  <2>1. at[t] \in Client
    BY <1>0, <1>9 DEF IInv, Holds, Confirm, Registering, TypeOK
  <2>2. Marked(managed[t], at[t], "configured") \in Receipt
    BY <1>0, <2>1, MarkedFact DEF TypeOK, State
  <2> QED
    BY <1>0, <1>9, <2>2 DEF TypeOK, Confirm, Visited, Goto, Stage, Locked, InitStage, command
<1>10. ASSUME NEW t \in Task, NEW S \in SUBSET Client, NEW b \in BOOLEAN, EnterUninstall(t, S, b)
       PROVE  TypeOK'
  BY <1>0, <1>10 DEF TypeOK, EnterUninstall, Goto, Stage, Locked, UninstallStage, Lock!Enter
<1>11. ASSUME NEW t \in Task, NEW c \in Client, Review(t, c) PROVE TypeOK'
  BY <1>0, <1>11 DEF TypeOK, Review, Goto, Stage, Locked, UninstallStage, command
<1>12. ASSUME NEW t \in Task, Remove(t) PROVE TypeOK'
  BY <1>0, <1>12 DEF TypeOK, Remove, Goto, Stage, Locked, UninstallStage, command
<1>13. ASSUME NEW t \in Task, Recheck(t) PROVE TypeOK'
  BY <1>0, <1>13 DEF TypeOK, Recheck, Goto, Stage, Locked, UninstallStage, command
<1>14. ASSUME NEW t \in Task, Forget(t) PROVE TypeOK'
  <2>1. at[t] \in Client
    BY <1>0, <1>14 DEF IInv, Holds, Forget, Removing, TypeOK
  <2>2. Marked(managed[t], at[t], "no") \in Receipt
    BY <1>0, <2>1, MarkedFact DEF TypeOK, State
  <2> QED
    BY <1>0, <1>14, <2>2, NoReceiptFact
       DEF TypeOK, Forget, Visited, Goto, Stage, Locked, UninstallStage, command
<1>15. ASSUME NEW t \in Task, Leave(t) \/ GiveUp(t) \/ Abandon(t) PROVE TypeOK'
  <2>1. /\ Over(t) /\ inside' \subseteq inside /\ faults' \in 0..MaxFaults
        /\ UNCHANGED <<receipt, native, made, theirs, edits>>
    <3>1. CASE Leave(t)
      BY <1>0, <3>1 DEF Leave, Lock!Leave, TypeOK
    <3>2. CASE GiveUp(t)
      BY <1>0, <3>2 DEF GiveUp, TypeOK
    <3>3. CASE Abandon(t)
      BY <1>0, <3>3 DEF Abandon, TypeOK
    <3> QED
      BY <1>15, <3>1, <3>2, <3>3
  <2>2. /\ pc' \in [Task -> Stage] /\ at' \in [Task -> Client \cup {None}]
        /\ server' \in [Task -> Server \cup {None}] /\ clients' \in [Task -> SUBSET Client]
        /\ force' \in [Task -> BOOLEAN]
        /\ todo' \in [Task -> SUBSET Client] /\ managed' \in [Task -> Receipt]
    BY <1>0, <2>1, NoReceiptFact DEF TypeOK, Over, Goto, Stage
  <2> QED
    BY <1>0, <2>1, <2>2 DEF TypeOK
<1>16. ASSUME NEW c \in Client, NEW v \in Server \cup {Other, None}, Edit(c, v) PROVE TypeOK'
  BY <1>0, <1>16 DEF TypeOK, Edit, local, command
<1>17. ASSUME NEW t \in Task, Work(t) PROVE TypeOK'
  BY <1>3, <1>4, <1>5, <1>6, <1>7, <1>8, <1>9, <1>11, <1>12, <1>13, <1>14, <1>15, <1>17 DEF Work
<1>18. ASSUME NEW t \in Task, Ask(t) PROVE TypeOK'
  BY <1>2, <1>10, <1>18 DEF Ask
<1> QED
  BY <1>1, <1>15, <1>16, <1>17, <1>18 DEF Next
-----------------------------------------------------------------------------
(* Steps *)

\* The parts of a command that are functions.
LEMMA Functions ==
  ASSUME TypeOK
  PROVE  /\ pc = [t \in Task |-> pc[t]] /\ at = [t \in Task |-> at[t]]
         /\ server = [t \in Task |-> server[t]] /\ clients = [t \in Task |-> clients[t]]
         /\ force = [t \in Task |-> force[t]] /\ todo = [t \in Task |-> todo[t]]
         /\ managed = [t \in Task |-> managed[t]] /\ native = [c \in Client |-> native[c]]
  BY DEF TypeOK

\* While one command has the lock, or takes it, the others have nothing to hold but
\* the server they were asked for.
LEMMA OthersHold ==
  ASSUME IInv, NEW t \in Task, t \in inside \/ inside = {},
         \A u \in Task \ {t} :
           /\ pc'[u] = pc[u] /\ server'[u] = server[u]
           /\ todo'[u] = todo[u] /\ clients'[u] = clients[u]
  PROVE  \A u \in Task \ {t} : Holds(u)'
<1> SUFFICES ASSUME NEW u \in Task \ {t} PROVE Holds(u)'
  OBVIOUS
<1>1. pc[u] \notin Locked
  BY DEF IInv, Shared, LockHeld
<1>2. pc[u] = "waits" => server[u] \in Server /\ todo[u] = clients[u]
  BY DEF IInv, Holds
<1> QED
  BY <1>1, <1>2 DEF Holds, Locked, InitStage, UninstallStage, Registering, Removing

\* A step of the command that has the lock, and keeps it.
LEMMA KeepsLock ==
  ASSUME IInv, NEW t \in Task, NEW s \in Locked, pc[t] \in Locked, Goto(t, s), inside' = inside
  PROVE  t \in inside /\ LockHeld' /\ pc'[t] = s /\ \A u \in Task \ {t} : pc'[u] = pc[u]
<1>1. pc = [u \in Task |-> pc[u]]
  BY DEF IInv, TypeOK
<1> QED
  BY <1>1 DEF IInv, Shared, LockHeld, Goto

\* The lock is taken.
LEMMA TakesLock ==
  ASSUME IInv, NEW t \in Task, NEW s \in Locked, Goto(t, s), Lock!Enter(t)
  PROVE  /\ inside = {} /\ LockHeld' /\ pc'[t] = s
         /\ \A u \in Task \ {t} : pc'[u] = pc[u]
<1>1. pc = [u \in Task |-> pc[u]]
  BY DEF IInv, TypeOK
<1> QED
  BY <1>1 DEF IInv, Shared, LockHeld, Goto, Lock!Enter

\* The parts of the invariant that a step of init or uninstall may disturb.
Claims == MadeIsRecorded /\ TheirsIsNotOurs /\ NoServerNoClient

LEMMA EnterInitStep ==
  ASSUME IInv, NEW t \in Task, EnterInit(t)
  PROVE  Shared' /\ \A u \in Task : Holds(u)'
<1>1. server[t] \in Server /\ receipt \in Receipt /\ None \notin Server
  BY RegistrationAssumption DEF IInv, TypeOK, Holds, EnterInit
<1> DEFINE r == OrNew(receipt, server[t])
           s == IF r.server = server[t] THEN "examine" ELSE "leave"
<1>2. /\ r.server = IF receipt.server = None THEN server[t] ELSE receipt.server
      /\ \A c \in Client : Manages(r, c) <=> Manages(receipt, c)
  BY <1>1, OrNewFact
<1>3. managed' = [managed EXCEPT ![t] = r] /\ managed'[t] = r
  BY Functions DEF EnterInit, IInv
<1>4. Goto(t, s) /\ s \in Locked /\ Lock!Enter(t) /\ pc[t] = "waits"
  BY <1>3 DEF EnterInit, Locked, InitStage
<1>5. UNCHANGED <<at, server, clients, todo, receipt, native, made, theirs>>
  BY DEF EnterInit, command
<1> HIDE DEF r
<1>6. inside = {} /\ LockHeld' /\ pc'[t] = s /\ \A u \in Task \ {t} : pc'[u] = pc[u]
  BY <1>4, TakesLock
<1>7. Claims'
  BY <1>5 DEF IInv, Shared, Claims, MadeIsRecorded, TheirsIsNotOurs, NoServerNoClient
<1>8. todo[t] = clients[t]
  BY <1>4 DEF IInv, Holds
<1>9. Holds(t)'
  BY <1>1, <1>2, <1>3, <1>5, <1>6, <1>8
     DEF Holds, Locked, InitStage, UninstallStage, Registering, Removing
<1> QED
  BY <1>5, <1>6, <1>7, <1>9, OthersHold DEF Shared, Claims

LEMMA ExamineStep ==
  ASSUME IInv, NEW t \in Task, NEW c \in Client, Examine(t, c)
  PROVE  Shared' /\ \A u \in Task : Holds(u)'
<1> DEFINE good == native[c] = None \/ (native[c] = server[t] /\ Manages(managed[t], c))
           s == IF good THEN "examine" ELSE "leave"
<1>1. /\ pc[t] = "examine" /\ c \in todo[t] /\ Goto(t, s) /\ s \in Locked
      /\ pc[t] \in Locked
      /\ todo' = [todo EXCEPT ![t] = todo[t] \ {c}]
      /\ UNCHANGED <<at, server, clients, managed, receipt, native, inside, made, theirs>>
  BY DEF Examine, command, Locked, InitStage
<1>2. todo'[t] = todo[t] \ {c}
  BY <1>1, Functions DEF IInv
<1>3. t \in inside /\ LockHeld' /\ pc'[t] = s /\ \A u \in Task \ {t} : pc'[u] = pc[u]
  BY <1>1, KeepsLock
<1>4. Claims'
  BY <1>1 DEF IInv, Shared, Claims, MadeIsRecorded, TheirsIsNotOurs, NoServerNoClient
<1>5. Holds(t)
  BY DEF IInv
<1>6. good => c \notin theirs
  BY <1>1, <1>5 DEF Holds, IInv, Shared, TheirsIsNotOurs, NoServerNoClient, Locked, InitStage
<1>7. Holds(t)'
  BY <1>1, <1>2, <1>3, <1>5, <1>6
     DEF Holds, Locked, InitStage, UninstallStage, Registering, Removing
<1> QED
  BY <1>1, <1>3, <1>4, <1>7, OthersHold DEF Shared, Claims

LEMMA PendStep ==
  ASSUME IInv, NEW t \in Task, Pend(t)
  PROVE  Shared' /\ \A u \in Task : Holds(u)'
<1> DEFINE r == Pending(managed[t], clients[t])
<1>1. /\ pc[t] = "examine" /\ todo[t] = {} /\ Goto(t, "look") /\ "look" \in Locked
      /\ pc[t] \in Locked
      /\ managed' = [managed EXCEPT ![t] = r] /\ todo' = [todo EXCEPT ![t] = clients[t]]
      /\ receipt' = managed'[t]
      /\ UNCHANGED <<at, server, clients, native, inside, made, theirs>>
  BY DEF Pend, command, Locked, InitStage
<1>2. managed'[t] = r /\ receipt' = r /\ todo'[t] = clients[t]
  BY <1>1, Functions DEF IInv
<1>3. managed[t] \in Receipt /\ clients[t] \in SUBSET Client /\ None \notin Server
  BY RegistrationAssumption DEF IInv, TypeOK
<1>4. /\ r.server = managed[t].server
      /\ \A c \in Client : Manages(r, c) <=> c \in clients[t] \/ Manages(managed[t], c)
  BY <1>3, PendingFact
<1> HIDE DEF r
<1>5. t \in inside /\ LockHeld' /\ pc'[t] = "look" /\ \A u \in Task \ {t} : pc'[u] = pc[u]
  BY <1>1, KeepsLock
<1>6. /\ server[t] \in Server /\ managed[t].server = server[t]
      /\ \A c \in Client : Manages(managed[t], c) <=> Manages(receipt, c)
      /\ receipt.server \in {None, server[t]} /\ clients[t] \cap theirs = {}
  BY <1>1 DEF IInv, Holds, Locked, InitStage
<1>7. made \subseteq Client /\ theirs \subseteq Client
  BY DEF IInv, TypeOK
<1>8. Claims'
  BY <1>1, <1>2, <1>3, <1>4, <1>6, <1>7
     DEF IInv, Shared, Claims, MadeIsRecorded, TheirsIsNotOurs, NoServerNoClient
<1>9. Holds(t)'
  BY <1>1, <1>2, <1>3, <1>4, <1>5, <1>6
     DEF Holds, Locked, InitStage, UninstallStage, Registering, Removing
<1> QED
  BY <1>1, <1>5, <1>8, <1>9, OthersHold DEF Shared, Claims

LEMMA LookStep ==
  ASSUME IInv, NEW t \in Task, NEW c \in Client, Look(t, c)
  PROVE  Shared' /\ \A u \in Task : Holds(u)'
<1> DEFINE s == CASE native[c] = None -> "add"
                  [] native[c] = server[t] -> "confirm"
                  [] OTHER -> "leave"
<1>1. /\ pc[t] = "look" /\ c \in todo[t] /\ Goto(t, s) /\ s \in {"add", "confirm", "leave"}
      /\ at' = [at EXCEPT ![t] = c]
      /\ UNCHANGED <<server, clients, todo, managed, receipt, native, inside, made, theirs>>
  BY DEF Look, command
<1> HIDE DEF s
<1>2. s \in Locked /\ pc[t] \in Locked /\ at'[t] = c
  BY <1>1, Functions DEF IInv, Locked, InitStage
<1>3. t \in inside /\ LockHeld' /\ pc'[t] = s /\ \A u \in Task \ {t} : pc'[u] = pc[u]
  BY <1>1, <1>2, KeepsLock
<1>4. Claims'
  BY <1>1 DEF IInv, Shared, Claims, MadeIsRecorded, TheirsIsNotOurs, NoServerNoClient
<1>5. Holds(t)
  BY DEF IInv
<1>6. Holds(t)'
  BY <1>1, <1>2, <1>3, <1>5
     DEF Holds, Locked, InitStage, UninstallStage, Registering, Removing
<1> QED
  BY <1>1, <1>3, <1>4, <1>6, OthersHold DEF Shared, Claims

LEMMA AddStep ==
  ASSUME IInv, NEW t \in Task, Add(t)
  PROVE  Shared' /\ \A u \in Task : Holds(u)'
<1>1. /\ pc[t] = "add" /\ "verify" \in Locked /\ "leave" \in Locked /\ pc[t] \in Locked
      /\ UNCHANGED <<at, server, clients, todo, managed, receipt, inside, theirs>>
  BY DEF Add, command, Locked, InitStage
<1>2. \/ /\ Goto(t, "verify") /\ native' = [native EXCEPT ![at[t]] = server[t]]
         /\ made' = made \cup {at[t]}
      \/ Goto(t, "leave") /\ native' = native /\ made' = made
  BY DEF Add
<1>3. /\ t \in inside /\ LockHeld' /\ pc'[t] \in {"verify", "leave"}
      /\ \A u \in Task \ {t} : pc'[u] = pc[u]
  <2>1. CASE Goto(t, "verify")
    BY <1>1, <2>1, KeepsLock
  <2>2. CASE Goto(t, "leave")
    BY <1>1, <2>2, KeepsLock
  <2> QED
    BY <1>2, <2>1, <2>2
<1>4. Holds(t)
  BY DEF IInv
<1>5. /\ at[t] \in clients[t] /\ server[t] \in Server /\ None \notin Server
      /\ Manages(receipt, at[t]) /\ at[t] \notin theirs
      /\ clients[t] \subseteq Client /\ theirs \subseteq Client /\ made \subseteq Client
  BY <1>1, <1>4, RegistrationAssumption
     DEF Holds, Registering, InitStage, IInv, TypeOK
<1>6. Claims'
  <2>1. CASE native' = native /\ made' = made
    BY <1>1, <2>1 DEF IInv, Shared, Claims, MadeIsRecorded, TheirsIsNotOurs, NoServerNoClient
  <2>2. CASE native' = [native EXCEPT ![at[t]] = server[t]] /\ made' = made \cup {at[t]}
    <3>1. native'[at[t]] = server[t] /\ \A c \in Client \ {at[t]} : native'[c] = native[c]
      BY <1>5, <2>2, Functions DEF IInv
    <3> QED
      BY <1>1, <1>5, <2>2, <3>1
         DEF IInv, Shared, Claims, MadeIsRecorded, TheirsIsNotOurs, NoServerNoClient
  <2> QED
    BY <1>2, <2>1, <2>2
<1>7. Holds(t)'
  BY <1>1, <1>3, <1>4
     DEF Holds, Locked, InitStage, UninstallStage, Registering, Removing
<1> QED
  BY <1>1, <1>3, <1>6, <1>7, OthersHold DEF Shared, Claims

LEMMA VerifyStep ==
  ASSUME IInv, NEW t \in Task, Verify(t)
  PROVE  Shared' /\ \A u \in Task : Holds(u)'
<1> DEFINE s == IF native[at[t]] = server[t] THEN "confirm" ELSE "leave"
<1>1. /\ pc[t] = "verify" /\ Goto(t, s) /\ s \in {"confirm", "leave"}
      /\ UNCHANGED <<at, server, clients, todo, managed, receipt, native, inside, made, theirs>>
  BY DEF Verify, command
<1> HIDE DEF s
<1>2. s \in Locked /\ pc[t] \in Locked
  BY <1>1 DEF Locked, InitStage
<1>3. t \in inside /\ LockHeld' /\ pc'[t] = s /\ \A u \in Task \ {t} : pc'[u] = pc[u]
  BY <1>1, <1>2, KeepsLock
<1>4. Claims'
  BY <1>1 DEF IInv, Shared, Claims, MadeIsRecorded, TheirsIsNotOurs, NoServerNoClient
<1>5. Holds(t)
  BY DEF IInv
<1>6. Holds(t)'
  BY <1>1, <1>2, <1>3, <1>5
     DEF Holds, Locked, InitStage, UninstallStage, Registering, Removing
<1> QED
  BY <1>1, <1>3, <1>4, <1>6, OthersHold DEF Shared, Claims

LEMMA ConfirmStep ==
  ASSUME IInv, NEW t \in Task, Confirm(t)
  PROVE  Shared' /\ \A u \in Task : Holds(u)'
<1> DEFINE r == Marked(managed[t], at[t], "configured")
<1>1. /\ pc[t] = "confirm" /\ Goto(t, "look") /\ "look" \in Locked /\ pc[t] \in Locked
      /\ todo' = [todo EXCEPT ![t] = todo[t] \ {at[t]}]
      /\ managed' = [managed EXCEPT ![t] = r] /\ receipt' = managed'[t]
      /\ UNCHANGED <<server, clients, native, inside, made, theirs>>
  BY DEF Confirm, Visited, command, Locked, InitStage
<1>2. managed'[t] = r /\ receipt' = r /\ todo'[t] = todo[t] \ {at[t]}
  BY <1>1, Functions DEF IInv
<1>3. /\ managed[t] \in Receipt /\ clients[t] \subseteq Client /\ at[t] \in clients[t]
      /\ made \subseteq Client /\ theirs \subseteq Client
  BY <1>1 DEF IInv, TypeOK, Holds, Registering
<1>4. /\ server[t] \in Server /\ managed[t].server = server[t] /\ receipt.server = server[t]
      /\ \A c \in Client : Manages(managed[t], c) <=> Manages(receipt, c)
      /\ Manages(receipt, at[t])
  BY <1>1, <1>3 DEF IInv, Holds, Registering, Locked, InitStage
<1>5. /\ r.server = managed[t].server
      /\ \A c \in Client : Manages(r, c) <=> Manages(receipt, c)
  BY <1>3, <1>4, MarkedFact DEF State
<1> HIDE DEF r
<1>6. t \in inside /\ LockHeld' /\ pc'[t] = "look" /\ \A u \in Task \ {t} : pc'[u] = pc[u]
  BY <1>1, KeepsLock
<1>7. Claims'
  BY <1>1, <1>2, <1>3, <1>4, <1>5
     DEF IInv, Shared, Claims, MadeIsRecorded, TheirsIsNotOurs, NoServerNoClient
<1>8. Holds(t)
  BY DEF IInv
<1>9. Holds(t)'
  BY <1>1, <1>2, <1>3, <1>4, <1>5, <1>6, <1>8
     DEF Holds, Locked, InitStage, UninstallStage, Registering, Removing
<1> QED
  BY <1>1, <1>6, <1>7, <1>9, OthersHold DEF Shared, Claims

LEMMA EnterUninstallStep ==
  ASSUME IInv, NEW t \in Task, NEW S \in SUBSET Client, NEW b \in BOOLEAN,
         EnterUninstall(t, S, b)
  PROVE  Shared' /\ \A u \in Task : Holds(u)'
<1>1. /\ Lock!Enter(t) /\ Goto(t, "review") /\ "review" \in Locked
      /\ managed' = [managed EXCEPT ![t] = receipt]
      /\ todo' = [todo EXCEPT ![t] = {c \in S : Manages(receipt, c)}]
      /\ UNCHANGED <<server, clients, receipt, native, made, theirs>>
  BY DEF EnterUninstall, Locked, UninstallStage
<1>2. managed'[t] = receipt /\ todo'[t] = {c \in S : Manages(receipt, c)}
  BY <1>1, Functions DEF IInv
<1>3. inside = {} /\ LockHeld' /\ pc'[t] = "review" /\ \A u \in Task \ {t} : pc'[u] = pc[u]
  BY <1>1, TakesLock
<1>4. Claims'
  BY <1>1 DEF IInv, Shared, Claims, MadeIsRecorded, TheirsIsNotOurs, NoServerNoClient
<1>5. Holds(t)'
  BY <1>1, <1>2, <1>3
     DEF Holds, Locked, InitStage, UninstallStage, Registering, Removing
<1> QED
  BY <1>1, <1>3, <1>4, <1>5, OthersHold DEF Shared, Claims

LEMMA ReviewStep ==
  ASSUME IInv, NEW t \in Task, NEW c \in Client, Review(t, c)
  PROVE  Shared' /\ \A u \in Task : Holds(u)'
<1>1. /\ pc[t] = "review" /\ c \in todo[t] /\ at' = [at EXCEPT ![t] = c]
      /\ UNCHANGED <<server, clients, force, todo, managed, receipt, native, inside, made,
                     theirs>>
  BY DEF Review, command
<1>2. PICK s \in {"forget", "remove", "leave", "missing"} :
        /\ Goto(t, s)
        /\ s = "forget" => native[c] = None
        /\ s = "remove" => force[t] \/ native[c] = managed[t].server
  BY DEF Review
<1>3. s \in Locked /\ pc[t] \in Locked /\ at'[t] = c
  BY <1>1, <1>2, Functions DEF IInv, Locked, UninstallStage
<1>4. t \in inside /\ LockHeld' /\ pc'[t] = s /\ \A u \in Task \ {t} : pc'[u] = pc[u]
  BY <1>1, <1>2, <1>3, KeepsLock
<1>5. Claims'
  BY <1>1 DEF IInv, Shared, Claims, MadeIsRecorded, TheirsIsNotOurs, NoServerNoClient
<1>6. Holds(t)
  BY DEF IInv
<1>7. s = "forget" => c \notin made
  BY <1>2 DEF IInv, Shared, MadeIsRecorded
<1>8. s = "remove" => (c \in theirs => force[t])
  BY <1>1, <1>2, <1>6 DEF Holds, UninstallStage, IInv, Shared, TheirsIsNotOurs
<1>9. Holds(t)'
  BY <1>1, <1>2, <1>3, <1>4, <1>6, <1>7, <1>8
     DEF Holds, Locked, InitStage, UninstallStage, Registering, Removing
<1> QED
  BY <1>1, <1>4, <1>5, <1>9, OthersHold DEF Shared, Claims

LEMMA RemoveStep ==
  ASSUME IInv, NEW t \in Task, Remove(t)
  PROVE  Shared' /\ \A u \in Task : Holds(u)'
<1>1. /\ pc[t] = "remove" /\ "recheck" \in Locked /\ "leave" \in Locked /\ pc[t] \in Locked
      /\ UNCHANGED <<at, server, clients, todo, managed, receipt, inside>>
  BY DEF Remove, command, Locked, UninstallStage
<1>2. \/ /\ Goto(t, "recheck") /\ native' = [native EXCEPT ![at[t]] = None]
         /\ made' = made \ {at[t]} /\ theirs' = theirs \ {at[t]}
      \/ Goto(t, "leave") /\ native' = native /\ made' = made /\ theirs' = theirs
  BY DEF Remove
<1>3. /\ t \in inside /\ LockHeld' /\ pc'[t] \in {"recheck", "leave"}
      /\ \A u \in Task \ {t} : pc'[u] = pc[u]
  <2>1. CASE Goto(t, "recheck")
    BY <1>1, <2>1, KeepsLock
  <2>2. CASE Goto(t, "leave")
    BY <1>1, <2>2, KeepsLock
  <2> QED
    BY <1>2, <2>1, <2>2
<1>4. Holds(t) /\ theirs \subseteq Client /\ made \subseteq Client
  BY DEF IInv, TypeOK
<1>5. Claims'
  <2>1. CASE native' = native /\ made' = made /\ theirs' = theirs
    BY <1>1, <2>1 DEF IInv, Shared, Claims, MadeIsRecorded, TheirsIsNotOurs, NoServerNoClient
  <2>2. CASE /\ native' = [native EXCEPT ![at[t]] = None]
             /\ made' = made \ {at[t]} /\ theirs' = theirs \ {at[t]}
    <3>1. \A c \in Client \ {at[t]} : native'[c] = native[c]
      BY <2>2, Functions DEF IInv
    <3> QED
      BY <1>1, <1>4, <2>2, <3>1
         DEF IInv, Shared, Claims, MadeIsRecorded, TheirsIsNotOurs, NoServerNoClient
  <2> QED
    BY <1>2, <2>1, <2>2
<1>6. Holds(t)'
  BY <1>1, <1>3, <1>4
     DEF Holds, Locked, InitStage, UninstallStage, Registering, Removing
<1> QED
  BY <1>1, <1>3, <1>5, <1>6, OthersHold DEF Shared, Claims

LEMMA RecheckStep ==
  ASSUME IInv, NEW t \in Task, Recheck(t)
  PROVE  Shared' /\ \A u \in Task : Holds(u)'
<1> DEFINE s == IF native[at[t]] = None THEN "forget" ELSE "leave"
<1>1. /\ pc[t] = "recheck" /\ Goto(t, s) /\ s \in {"forget", "leave"}
      /\ s = "forget" => native[at[t]] = None
      /\ UNCHANGED <<at, server, clients, todo, managed, receipt, native, inside, made, theirs>>
  BY DEF Recheck, command
<1> HIDE DEF s
<1>2. s \in Locked /\ pc[t] \in Locked
  BY <1>1 DEF Locked, UninstallStage
<1>3. t \in inside /\ LockHeld' /\ pc'[t] = s /\ \A u \in Task \ {t} : pc'[u] = pc[u]
  BY <1>1, <1>2, KeepsLock
<1>4. Claims'
  BY <1>1 DEF IInv, Shared, Claims, MadeIsRecorded, TheirsIsNotOurs, NoServerNoClient
<1>5. Holds(t) /\ (s = "forget" => at[t] \notin made)
  BY <1>1 DEF IInv, Shared, MadeIsRecorded
<1>6. Holds(t)'
  BY <1>1, <1>2, <1>3, <1>5
     DEF Holds, Locked, InitStage, UninstallStage, Registering, Removing
<1> QED
  BY <1>1, <1>3, <1>4, <1>6, OthersHold DEF Shared, Claims

LEMMA ForgetStep ==
  ASSUME IInv, NEW t \in Task, Forget(t)
  PROVE  Shared' /\ \A u \in Task : Holds(u)'
<1> DEFINE r == Marked(managed[t], at[t], "no")
<1>1. /\ pc[t] = "forget" /\ Goto(t, "review") /\ "review" \in Locked /\ pc[t] \in Locked
      /\ todo' = [todo EXCEPT ![t] = todo[t] \ {at[t]}]
      /\ managed' = [managed EXCEPT ![t] = r]
      /\ receipt' = IF \A c \in Client : ~Manages(managed'[t], c) THEN NoReceipt ELSE managed'[t]
      /\ UNCHANGED <<server, clients, native, inside, made, theirs>>
  BY DEF Forget, Visited, command, Locked, UninstallStage
<1>2. managed'[t] = r /\ todo'[t] = todo[t] \ {at[t]}
  BY <1>1, Functions DEF IInv
<1>3. /\ managed[t] \in Receipt /\ todo[t] \subseteq Client /\ at[t] \in todo[t]
      /\ made \subseteq Client /\ theirs \subseteq Client /\ at[t] \notin made
  BY <1>1 DEF IInv, TypeOK, Holds, Removing
<1>4. /\ \A c \in Client : Manages(managed[t], c) <=> Manages(receipt, c)
      /\ \A c \in Client : Manages(receipt, c) => managed[t].server = receipt.server
      /\ \A c \in todo[t] : Manages(receipt, c)
  BY <1>1 DEF IInv, Holds, Locked, UninstallStage
<1>5. /\ r.server = managed[t].server /\ ~Manages(r, at[t])
      /\ \A c \in Client \ {at[t]} : Manages(r, c) <=> Manages(receipt, c)
  BY <1>3, <1>4, MarkedFact DEF State
<1> HIDE DEF r
<1>6. /\ \A c \in Client : Manages(receipt', c) <=> Manages(r, c)
      /\ receipt'.server = IF \A c \in Client : ~Manages(r, c) THEN None ELSE r.server
  BY <1>1, <1>2, NoReceiptFact
<1>7. t \in inside /\ LockHeld' /\ pc'[t] = "review" /\ \A u \in Task \ {t} : pc'[u] = pc[u]
  BY <1>1, KeepsLock
<1>8. \A c \in Client : Manages(r, c) => r.server = receipt.server /\ receipt'.server = r.server
  BY <1>3, <1>4, <1>5, <1>6
<1>9. Claims'
  <2>1. MadeIsRecorded'
    BY <1>1, <1>3, <1>5, <1>6 DEF IInv, Shared, MadeIsRecorded
  <2>2. TheirsIsNotOurs'
    BY <1>1, <1>3, <1>5, <1>6, <1>8 DEF IInv, Shared, TheirsIsNotOurs
  <2>3. NoServerNoClient'
    BY <1>5, <1>6, <1>8 DEF IInv, Shared, NoServerNoClient
  <2> QED
    BY <2>1, <2>2, <2>3 DEF Claims
<1>10. Holds(t)'
  BY <1>1, <1>2, <1>3, <1>4, <1>5, <1>6, <1>7, <1>8
     DEF Holds, Locked, InitStage, UninstallStage, Registering, Removing
<1> QED
  BY <1>1, <1>7, <1>9, <1>10, OthersHold DEF Shared, Claims

LEMMA OverStep ==
  ASSUME IInv, NEW t \in Task, Leave(t) \/ GiveUp(t) \/ Abandon(t)
  PROVE  Shared' /\ \A u \in Task : Holds(u)'
<1>1. Over(t) /\ UNCHANGED <<receipt, native, made, theirs>>
  BY DEF Leave, GiveUp, Abandon
<1>2. inside' = inside \ {t}
  <2>1. CASE GiveUp(t)
    BY <2>1 DEF GiveUp, IInv, Shared, LockHeld, Locked, InitStage, UninstallStage
  <2>2. CASE Leave(t)
    BY <2>2 DEF Leave, Lock!Leave
  <2> QED
    BY <2>1, <2>2 DEF Abandon
<1>3. pc'[t] = "idle" /\ \A u \in Task \ {t} : pc'[u] = pc[u]
  BY <1>1, Functions DEF IInv, Over, Goto
<1>4. LockHeld'
  BY <1>2, <1>3 DEF IInv, Shared, LockHeld, Locked, InitStage, UninstallStage
<1>5. Claims'
  BY <1>1 DEF IInv, Shared, Claims, MadeIsRecorded, TheirsIsNotOurs, NoServerNoClient
<1>6. Holds(t)'
  BY <1>3 DEF Holds, Locked, InitStage, UninstallStage, Registering, Removing
<1>7. ASSUME NEW u \in Task \ {t} PROVE Holds(u)'
  <2>1. /\ at'[u] = at[u] /\ server'[u] = server[u] /\ clients'[u] = clients[u]
        /\ force'[u] = force[u] /\ todo'[u] = todo[u] /\ managed'[u] = managed[u]
    BY <1>1, Functions DEF IInv, Over
  <2> QED
    BY <1>1, <1>3, <2>1
       DEF IInv, Holds, Locked, InitStage, UninstallStage, Registering, Removing
<1> QED
  BY <1>4, <1>5, <1>6, <1>7 DEF Shared, Claims

LEMMA PreflightStep ==
  ASSUME IInv, NEW t \in Task, NEW s \in Server, NEW S \in SUBSET Client, Preflight(t, s, S)
  PROVE  Shared' /\ \A u \in Task : Holds(u)'
<1>1. /\ pc[t] = "idle" /\ UNCHANGED <<at, receipt, native, inside, made, theirs>>
      /\ pc'[t] = "waits" /\ server'[t] = s /\ clients'[t] = S /\ todo'[t] = S
      /\ \A u \in Task \ {t} :
           /\ pc'[u] = pc[u] /\ server'[u] = server[u] /\ clients'[u] = clients[u]
           /\ force'[u] = force[u] /\ todo'[u] = todo[u] /\ managed'[u] = managed[u]
  BY Functions DEF IInv, Preflight, Goto
<1>2. LockHeld'
  BY <1>1 DEF IInv, Shared, LockHeld, Locked, InitStage, UninstallStage
<1>3. Claims'
  BY <1>1 DEF IInv, Shared, Claims, MadeIsRecorded, TheirsIsNotOurs, NoServerNoClient
<1>4. Holds(t)'
  BY <1>1 DEF Holds, Locked, InitStage, UninstallStage, Registering, Removing
<1>5. ASSUME NEW u \in Task \ {t} PROVE Holds(u)'
  BY <1>1 DEF IInv, Holds, Locked, InitStage, UninstallStage, Registering, Removing
<1> QED
  BY <1>2, <1>3, <1>4, <1>5 DEF Shared, Claims

LEMMA EditStep ==
  ASSUME IInv, NEW c \in Client, NEW v \in Server \cup {Other, None}, Edit(c, v)
  PROVE  Shared' /\ \A u \in Task : Holds(u)'
<1>1. /\ native' = [native EXCEPT ![c] = v] /\ made' = made \ {c}
      /\ UNCHANGED <<pc, at, server, clients, force, todo, managed, receipt, inside>>
  BY DEF Edit, local, command
<1>2. \/ /\ theirs' = theirs \cup {c} /\ v # None /\ inside = {}
         /\ ~(Manages(receipt, c) /\ v = receipt.server)
      \/ theirs' = theirs \ {c}
  BY DEF Edit
<1>3. native'[c] = v /\ \A d \in Client \ {c} : native'[d] = native[d]
  BY <1>1, Functions DEF IInv
<1>4. LockHeld'
  BY <1>1 DEF IInv, Shared, LockHeld
<1>5. made \subseteq Client /\ theirs \subseteq Client
  BY DEF IInv, TypeOK
<1>6. Claims'
  BY <1>1, <1>2, <1>3, <1>5
     DEF IInv, Shared, Claims, MadeIsRecorded, TheirsIsNotOurs, NoServerNoClient
<1>7. ASSUME NEW u \in Task PROVE Holds(u)'
  <2>1. Holds(u)
    BY DEF IInv
  <2>2. CASE inside = {}
    <3>1. pc[u] \notin Locked
      BY <2>2 DEF IInv, Shared, LockHeld
    <3> QED
      BY <1>1, <2>1, <3>1 DEF Holds, Locked, InitStage, UninstallStage, Registering, Removing
  <2>3. CASE theirs' = theirs \ {c}
    BY <1>1, <2>1, <2>3 DEF Holds, Locked, InitStage, UninstallStage, Registering, Removing
  <2> QED
    BY <1>2, <2>2, <2>3
<1> QED
  BY <1>4, <1>6, <1>7 DEF Shared, Claims
-----------------------------------------------------------------------------
LEMMA Invariance == Spec => []IInv
<1>1. IInv /\ [Next]_vars => IInv'
  <2> SUFFICES ASSUME IInv, [Next]_vars PROVE IInv'
    OBVIOUS
  <2>1. TypeOK'
    BY StepType
  <2> DEFINE Goal == Shared' /\ \A u \in Task : Holds(u)'
  <2>2. ASSUME NEW t \in Task, Work(t) PROVE Goal
    BY <2>2, EnterInitStep, ExamineStep, PendStep, LookStep, AddStep, VerifyStep, ConfirmStep,
       ReviewStep, RemoveStep, RecheckStep, ForgetStep, OverStep DEF Work
  <2>3. ASSUME NEW t \in Task, Ask(t) PROVE Goal
    BY <2>3, PreflightStep, EnterUninstallStep DEF Ask
  <2>4. ASSUME NEW t \in Task, Abandon(t) PROVE Goal
    BY <2>4, OverStep
  <2>5. ASSUME NEW c \in Client, NEW v \in Server \cup {Other, None}, Edit(c, v) PROVE Goal
    BY <2>5, EditStep
  <2>6. ASSUME UNCHANGED vars PROVE Goal
    <3>1. Shared'
      BY <2>6 DEF IInv, vars, local, command, Shared, LockHeld, MadeIsRecorded,
                  TheirsIsNotOurs, NoServerNoClient
    <3>2. ASSUME NEW u \in Task PROVE Holds(u)'
      BY <2>6 DEF IInv, vars, local, command, Holds
    <3> QED
      BY <3>1, <3>2
  <2> HIDE DEF Goal
  <2>7. Goal
    BY <2>2, <2>3, <2>4, <2>5, <2>6 DEF Next
  <2> QED
    BY <2>1, <2>7 DEF IInv, Goal
<1> QED
  BY <1>1, InitIInv, PTL DEF Spec

\* Every variable keeps to the values the source gives it.
THEOREM TypeCorrect == Spec => []TypeOK
<1>1. IInv => TypeOK
  BY DEF IInv
<1> QED
  BY <1>1, Invariance, PTL

\* Whatever CodeNib has registered is named in the receipt, after any interruption.
THEOREM OwnIsRecordedAlways == Spec => []OwnIsRecorded
<1>1. IInv => OwnIsRecorded
  BY DEF IInv, Shared, MadeIsRecorded, OwnIsRecorded
<1> QED
  BY <1>1, Invariance, PTL

\* What a user registered is CodeNib's to remove only if the receipt names the
\* client and the user says --force.
THEOREM TheirsIsKeptAlways == Spec => TheirsIsKept
<1> DEFINE A == \A c \in theirs : native'[c] # native[c] =>
                  \/ edits' # edits
                  \/ /\ Manages(receipt, c)
                     /\ \E t \in Task : pc[t] = "remove" /\ at[t] = c /\ force[t]
<1>1. IInv /\ [Next]_vars => [A]_native
  <2> SUFFICES ASSUME IInv, Next, native' # native PROVE A
    BY DEF vars
  <2>1. CASE \E c \in Client, v \in Server \cup {Other, None} : Edit(c, v)
    BY <2>1 DEF Edit, IInv, TypeOK
  <2>2. ASSUME NEW t \in Task, Add(t) PROVE A
    <3>1. at[t] \notin theirs /\ native = [c \in Client |-> native[c]] /\ theirs \subseteq Client
      BY <2>2 DEF Add, IInv, Holds, Registering, TypeOK
    <3> QED
      BY <2>2, <3>1 DEF Add
  <2>3. ASSUME NEW t \in Task, Remove(t) PROVE A
    <3>1. /\ pc[t] = "remove" /\ (at[t] \in theirs => force[t]) /\ Manages(receipt, at[t])
          /\ native = [c \in Client |-> native[c]] /\ theirs \subseteq Client
      BY <2>3 DEF Remove, IInv, Holds, Removing, UninstallStage, TypeOK
    <3> QED
      BY <2>3, <3>1 DEF Remove
  <2>4. ASSUME NEW t \in Task, Work(t) PROVE Add(t) \/ Remove(t)
    <3>1. ASSUME NEW c \in Client, Examine(t, c) \/ Look(t, c) \/ Review(t, c) PROVE FALSE
      BY <3>1 DEF Examine, Look, Review
    <3>2. CASE EnterInit(t) \/ GiveUp(t) \/ Leave(t)
      BY <3>2 DEF EnterInit, GiveUp, Leave
    <3>3. CASE Pend(t) \/ Verify(t) \/ Confirm(t) \/ Recheck(t) \/ Forget(t)
      BY <3>3 DEF Pend, Verify, Confirm, Recheck, Forget
    <3> QED
      BY <2>4, <3>1, <3>2, <3>3 DEF Work
  <2>5. ASSUME NEW t \in Task, Ask(t) \/ Abandon(t) PROVE FALSE
    <3>1. ASSUME NEW S \in SUBSET Client, NEW s \in Server, Preflight(t, s, S) PROVE FALSE
      BY <3>1 DEF Preflight
    <3>2. ASSUME NEW S \in SUBSET Client, NEW b \in BOOLEAN, EnterUninstall(t, S, b) PROVE FALSE
      BY <3>2 DEF EnterUninstall
    <3>3. CASE Abandon(t)
      BY <3>3 DEF Abandon
    <3> QED
      BY <2>5, <3>1, <3>2, <3>3 DEF Ask
  <2> QED
    BY <2>1, <2>2, <2>3, <2>4, <2>5 DEF Next
<1> QED
  BY <1>1, Invariance, PTL DEF Spec, TheirsIsKept
-----------------------------------------------------------------------------
(* What a command that has run to its end leaves in the receipt.            *)

\* A receipt that names a server names one of its clients.
NamesSomeone == receipt.server # None => \E c \in Client : Manages(receipt, c)

\* An init was asked for some client; once it has written the pending receipt its
\* copy is the receipt, and every client it has visited is configured there.
Knows(t) ==
  /\ pc[t] \in {"waits"} \cup InitStage => clients[t] # {}
  /\ pc[t] \in Registering =>
       /\ managed[t] = receipt
       /\ \A c \in clients[t] \ todo[t] : receipt.state[c] = "configured"

Known == NamesSomeone /\ \A t \in Task : Knows(t)

\* What a command knows is not disturbed by another one's step.
LEMMA OthersKnow ==
  ASSUME IInv, Known, NEW t \in Task, t \in inside \/ UNCHANGED receipt,
         \A u \in Task \ {t} :
           /\ pc'[u] = pc[u] /\ clients'[u] = clients[u]
           /\ todo'[u] = todo[u] /\ managed'[u] = managed[u]
  PROVE  \A u \in Task \ {t} : Knows(u)'
<1> SUFFICES ASSUME NEW u \in Task \ {t} PROVE Knows(u)'
  OBVIOUS
<1>1. t \in inside => pc[u] \notin Locked
  BY DEF IInv, Shared, LockHeld
<1>2. Knows(u)
  BY DEF Known
<1> QED
  BY <1>1, <1>2 DEF Knows, Locked, InitStage, Registering

\* The steps that leave the receipt as it is.
LEMMA KnowsStill ==
  ASSUME IInv, Known, NEW t \in Task, UNCHANGED receipt,
         pc'[t] \in Registering => /\ pc[t] \in Registering
                                   /\ UNCHANGED <<clients[t], todo[t], managed[t]>>,
         pc'[t] \in {"waits"} \cup InitStage => clients'[t] # {},
         \A u \in Task \ {t} :
           /\ pc'[u] = pc[u] /\ clients'[u] = clients[u]
           /\ todo'[u] = todo[u] /\ managed'[u] = managed[u]
  PROVE  Known'
<1>1. Knows(t)'
  BY DEF Known, Knows, Registering
<1>2. NamesSomeone'
  BY DEF Known, NamesSomeone
<1> QED
  BY <1>1, <1>2, OthersKnow DEF Known

LEMMA InitKnows ==
  ASSUME IInv, Known, NEW t \in Task,
         \/ EnterInit(t) \/ \E c \in Client : Examine(t, c) \/ Look(t, c)
         \/ Add(t) \/ Verify(t)
  PROVE  Known'
<1> USE Functions DEF IInv, Goto
<1>1. pc[t] \in {"waits"} \cup InitStage /\ UNCHANGED <<receipt, clients>>
  BY DEF EnterInit, Examine, Look, Add, Verify, command, InitStage
<1>2. clients[t] # {}
  BY <1>1 DEF Known, Knows
<1>3. CASE EnterInit(t)
  <2>1. pc'[t] \notin Registering
    BY <1>3 DEF EnterInit, Registering
  <2>2. \A u \in Task \ {t} :
          /\ pc'[u] = pc[u] /\ clients'[u] = clients[u]
          /\ todo'[u] = todo[u] /\ managed'[u] = managed[u]
    BY <1>3 DEF EnterInit, command
  <2> QED
    BY <1>1, <1>2, <2>1, <2>2, KnowsStill
<1>4. ASSUME NEW c \in Client, Examine(t, c) PROVE Known'
  <2>1. pc'[t] \notin Registering
    BY <1>4 DEF Examine, Registering
  <2>2. \A u \in Task \ {t} :
          /\ pc'[u] = pc[u] /\ clients'[u] = clients[u]
          /\ todo'[u] = todo[u] /\ managed'[u] = managed[u]
    BY <1>4 DEF Examine, command
  <2> QED
    BY <1>1, <1>2, <2>1, <2>2, KnowsStill
<1>5. CASE (\E c \in Client : Look(t, c)) \/ Add(t) \/ Verify(t)
  <2>1. pc[t] \in Registering /\ UNCHANGED <<clients, todo, managed>>
    BY <1>5 DEF Look, Add, Verify, Registering, command
  <2>2. \A u \in Task \ {t} : pc'[u] = pc[u]
    BY <1>5 DEF Look, Add, Verify
  <2> QED
    BY <1>1, <1>2, <2>1, <2>2, KnowsStill
<1> QED
  BY <1>3, <1>4, <1>5

LEMMA PendKnows == ASSUME IInv, Known, NEW t \in Task, Pend(t) PROVE Known'
<1> DEFINE r == Pending(managed[t], clients[t])
<1>1. /\ pc[t] = "examine" /\ Goto(t, "look") /\ "look" \in Locked /\ pc[t] \in Locked
      /\ managed' = [managed EXCEPT ![t] = r] /\ todo' = [todo EXCEPT ![t] = clients[t]]
      /\ receipt' = managed'[t] /\ UNCHANGED <<clients, inside>>
  BY DEF Pend, command, Locked, InitStage
<1>2. managed'[t] = r /\ receipt' = r /\ todo'[t] = clients[t]
  BY <1>1, Functions DEF IInv
<1>3. managed[t] \in Receipt /\ clients[t] \in SUBSET Client /\ clients[t] # {}
  BY <1>1 DEF IInv, TypeOK, Known, Knows, InitStage
<1>4. \A c \in Client : Manages(r, c) <=> c \in clients[t] \/ Manages(managed[t], c)
  BY <1>3, PendingFact
<1> HIDE DEF r
<1>5. t \in inside /\ pc'[t] = "look" /\ \A u \in Task \ {t} : pc'[u] = pc[u]
  BY <1>1, KeepsLock
<1>6. NamesSomeone'
  BY <1>2, <1>3, <1>4 DEF NamesSomeone
<1>7. Knows(t)'
  BY <1>1, <1>2, <1>3, <1>5 DEF Knows, Registering
<1>8. \A u \in Task \ {t} : /\ clients'[u] = clients[u]
                            /\ todo'[u] = todo[u] /\ managed'[u] = managed[u]
  BY <1>1, Functions DEF IInv
<1> QED
  BY <1>5, <1>6, <1>7, <1>8, OthersKnow DEF Known

LEMMA ConfirmKnows == ASSUME IInv, Known, NEW t \in Task, Confirm(t) PROVE Known'
<1> DEFINE r == Marked(managed[t], at[t], "configured")
<1>1. /\ pc[t] = "confirm" /\ Goto(t, "look") /\ "look" \in Locked /\ pc[t] \in Locked
      /\ todo' = [todo EXCEPT ![t] = todo[t] \ {at[t]}]
      /\ managed' = [managed EXCEPT ![t] = r] /\ receipt' = managed'[t]
      /\ UNCHANGED <<clients, inside>>
  BY DEF Confirm, Visited, command, Locked, InitStage
<1>2. managed'[t] = r /\ receipt' = r /\ todo'[t] = todo[t] \ {at[t]}
  BY <1>1, Functions DEF IInv
<1>3. /\ managed[t] = receipt /\ receipt \in Receipt /\ clients[t] # {}
      /\ clients[t] \subseteq Client /\ at[t] \in clients[t]
      /\ \A c \in clients[t] \ todo[t] : receipt.state[c] = "configured"
  BY <1>1 DEF IInv, TypeOK, Holds, Known, Knows, Registering, InitStage
<1>4. /\ r.state[at[t]] = "configured" /\ r.server = receipt.server
      /\ \A c \in Client \ {at[t]} : r.state[c] = receipt.state[c]
  BY <1>3 DEF Marked, Receipt
<1> HIDE DEF r
<1>5. t \in inside /\ pc'[t] = "look" /\ \A u \in Task \ {t} : pc'[u] = pc[u]
  BY <1>1, KeepsLock
<1>6. NamesSomeone'
  BY <1>2, <1>3, <1>4 DEF NamesSomeone, Manages
<1>7. Knows(t)'
  BY <1>1, <1>2, <1>3, <1>4, <1>5 DEF Knows
<1>8. \A u \in Task \ {t} : /\ clients'[u] = clients[u]
                            /\ todo'[u] = todo[u] /\ managed'[u] = managed[u]
  BY <1>1, Functions DEF IInv
<1> QED
  BY <1>5, <1>6, <1>7, <1>8, OthersKnow DEF Known

LEMMA UninstallKnows ==
  ASSUME IInv, Known, NEW t \in Task,
         \/ \E S \in SUBSET Client, b \in BOOLEAN : EnterUninstall(t, S, b)
         \/ \E c \in Client : Review(t, c)
         \/ Remove(t) \/ Recheck(t)
  PROVE  Known'
<1> USE Functions DEF IInv, Goto
<1>1. pc'[t] \in UninstallStage \cup {"leave", "missing"} /\ UNCHANGED receipt
  BY DEF EnterUninstall, Review, Remove, Recheck, UninstallStage
<1>2. \A u \in Task \ {t} :
        /\ pc'[u] = pc[u] /\ clients'[u] = clients[u]
        /\ todo'[u] = todo[u] /\ managed'[u] = managed[u]
  BY DEF EnterUninstall, Review, Remove, Recheck, command
<1>3. pc'[t] \notin Registering \cup {"waits"} \cup InitStage
  BY <1>1 DEF Registering, UninstallStage, InitStage
<1> QED
  BY <1>1, <1>2, <1>3, KnowsStill

LEMMA ForgetKnows == ASSUME IInv, Known, NEW t \in Task, Forget(t) PROVE Known'
<1>1. /\ pc[t] = "forget" /\ Goto(t, "review") /\ "review" \in Locked /\ pc[t] \in Locked
      /\ receipt' = IF \A c \in Client : ~Manages(managed'[t], c) THEN NoReceipt
                                                                  ELSE managed'[t]
      /\ UNCHANGED <<clients, inside>>
  BY DEF Forget, command, Locked, UninstallStage
<1>2. t \in inside /\ pc'[t] = "review" /\ \A u \in Task \ {t} : pc'[u] = pc[u]
  BY <1>1, KeepsLock
<1>3. NamesSomeone'
  BY <1>1, NoReceiptFact DEF NamesSomeone
<1>4. \A u \in Task \ {t} : /\ clients'[u] = clients[u]
                            /\ todo'[u] = todo[u] /\ managed'[u] = managed[u]
  BY <1>1, Functions DEF IInv, Forget, Visited
<1>5. Knows(t)'
  BY <1>2 DEF Knows, Registering, InitStage
<1> QED
  BY <1>2, <1>3, <1>4, <1>5, OthersKnow DEF Known

LEMMA AskKnows ==
  ASSUME IInv, Known, NEW t \in Task, NEW s \in Server, NEW S \in SUBSET Client,
         Preflight(t, s, S)
  PROVE  Known'
<1> USE Functions DEF IInv, Goto
<1>1. pc'[t] = "waits" /\ clients'[t] # {} /\ UNCHANGED receipt
  BY DEF Preflight
<1>2. \A u \in Task \ {t} :
        /\ pc'[u] = pc[u] /\ clients'[u] = clients[u]
        /\ todo'[u] = todo[u] /\ managed'[u] = managed[u]
  BY DEF Preflight
<1> QED
  BY <1>1, <1>2, KnowsStill DEF Registering

LEMMA OverKnows ==
  ASSUME IInv, Known, NEW t \in Task, Leave(t) \/ GiveUp(t) \/ Abandon(t)
  PROVE  Known'
<1> USE Functions DEF IInv, Goto
<1>1. Over(t) /\ UNCHANGED receipt
  BY DEF Leave, GiveUp, Abandon
<1>2. /\ pc'[t] = "idle"
      /\ \A u \in Task \ {t} :
           /\ pc'[u] = pc[u] /\ clients'[u] = clients[u]
           /\ todo'[u] = todo[u] /\ managed'[u] = managed[u]
  BY <1>1 DEF Over
<1> QED
  BY <1>1, <1>2, KnowsStill DEF Registering, InitStage

LEMMA KnownHolds == Spec => []Known
<1>1. Init => Known
  BY DEF Init, Known, NamesSomeone, Knows, NoReceipt, InitStage, Registering
<1>2. ASSUME IInv, Known, [Next]_vars PROVE Known'
  <2>1. ASSUME NEW t \in Task, Work(t) PROVE Known'
    BY <1>2, <2>1, InitKnows, PendKnows, ConfirmKnows, UninstallKnows, ForgetKnows, OverKnows
       DEF Work
  <2>2. ASSUME NEW t \in Task, Ask(t) PROVE Known'
    BY <1>2, <2>2, AskKnows, UninstallKnows DEF Ask
  <2>3. ASSUME NEW t \in Task, Abandon(t) PROVE Known'
    BY <1>2, <2>3, OverKnows
  <2>4. ASSUME NEW c \in Client, NEW v \in Server \cup {Other, None}, Edit(c, v) PROVE Known'
    BY <1>2, <2>4 DEF Edit, local, command, Known, NamesSomeone, Knows
  <2>5. CASE UNCHANGED vars
    BY <1>2, <2>5 DEF vars, local, command, Known, NamesSomeone, Knows
  <2> QED
    BY <1>2, <2>1, <2>2, <2>3, <2>4, <2>5 DEF Next
<1>3. IInv /\ Known /\ [Next]_vars => Known'
  BY <1>2
<1> QED
  BY <1>1, <1>3, Invariance, PTL DEF Spec
-----------------------------------------------------------------------------
(* The lock over a whole command, and what its end leaves behind.           *)

\* registration_lock is a lock over the commands: from the reading of the receipt
\* to the end of the command, whether it returns or dies, nobody else is inside.
THEOREM LockIsALock == Spec => Lock!Spec
<1>1. Init => Lock!Init
  BY DEF Init, Lock!Init
<1>2. ASSUME IInv, [Next]_vars PROVE [Lock!Next]_inside
  <2> SUFFICES ASSUME inside' # inside PROVE Lock!Next
    OBVIOUS
  <2>1. ASSUME NEW t \in Task, Leave(t) \/ Abandon(t) PROVE Lock!Leave(t)
    <3>1. inside' = inside \ {t}
      BY <2>1 DEF Leave, Abandon, Lock!Leave
    <3>2. inside = {t}
      BY <1>2, <3>1 DEF IInv, Shared, LockHeld
    <3> QED
      BY <3>1, <3>2 DEF Lock!Leave
  <2>2. ASSUME NEW t \in Task, Work(t) PROVE Lock!Next
    <3>1. CASE EnterInit(t)
      BY <3>1 DEF EnterInit, Lock!Next
    <3>2. CASE GiveUp(t) \/ Pend(t) \/ Add(t) \/ Verify(t) \/ Confirm(t)
      BY <3>2 DEF GiveUp, Pend, Add, Verify, Confirm
    <3>3. CASE Remove(t) \/ Recheck(t) \/ Forget(t)
      BY <3>3 DEF Remove, Recheck, Forget
    <3>4. CASE \E c \in Client : Examine(t, c) \/ Look(t, c) \/ Review(t, c)
      BY <3>4 DEF Examine, Look, Review
    <3> QED
      BY <2>1, <2>2, <3>1, <3>2, <3>3, <3>4 DEF Work, Lock!Next
  <2>3. ASSUME NEW t \in Task, Ask(t) PROVE Lock!Next
    BY <2>3 DEF Ask, Preflight, EnterUninstall, Lock!Next
  <2>4. ASSUME NEW c \in Client, NEW v \in Server \cup {Other, None}, Edit(c, v) PROVE FALSE
    BY <2>4 DEF Edit
  <2>5. ~UNCHANGED vars
    BY DEF vars
  <2> QED
    BY <1>2, <2>1, <2>2, <2>3, <2>4, <2>5 DEF Next, Lock!Next
<1>3. IInv /\ [Next]_vars => [Lock!Next]_inside
  BY <1>2
<1> QED
  BY <1>1, <1>3, Invariance, PTL DEF Spec, Lock!Spec

\* The receipt of a repository names a server exactly as long as it names a client:
\* no interruption leaves a receipt behind that uninstall would have nothing to do
\* for, or an entry without a server to compare the registration with.
ReceiptIsWhole == receipt.server # None <=> \E c \in Client : Manages(receipt, c)

\* A receipt is whole after every step of every command, also one that dies.
THEOREM ReceiptIsWholeAlways == Spec => []ReceiptIsWhole
<1>1. IInv /\ Known => ReceiptIsWhole
  BY DEF IInv, Shared, NoServerNoClient, Known, NamesSomeone, ReceiptIsWhole
<1> QED
  BY <1>1, Invariance, KnownHolds, PTL

\* An init that has visited its clients and returns has said in the receipt that each
\* of them is configured, for the server it was asked for: whoever worked, died or
\* edited a registration before it had the lock.
InitFinished ==
  \A t \in Task : pc[t] = "look" /\ todo[t] = {} =>
    /\ receipt.server = server[t]
    /\ \A c \in clients[t] : receipt.state[c] = "configured"

\* What init reports as registered is what the receipt says.
THEOREM InitFinishedAlways == Spec => []InitFinished
<1>1. IInv /\ Known => InitFinished
  BY DEF IInv, Holds, Known, Knows, Registering, InitFinished
<1> QED
  BY <1>1, Invariance, KnownHolds, PTL

\* Everything the receipt names is still before the uninstall t.
AllAhead(t) == \A c \in Client : Manages(receipt, c) => c \in todo[t]

\* An uninstall that has all managed clients before it, whatever the others do
\* meanwhile, keeps them before it or takes them from the receipt, goes to its end or
\* refuses, and returns, unless it dies, only without a receipt or refusing: the part
\* of ReceiptsAreCleared that is about what may happen.
Clears ==
  [][\A t \in Task : pc[t] \in UninstallStage /\ AllAhead(t) =>
       \/ pc'[t] \in UninstallStage \cup {"leave", "missing"} /\ AllAhead(t)'
       \/ pc'[t] = "idle" /\ (faults' # faults \/ receipt'.server = None)]_vars

\* Review, Remove and Recheck leave the receipt and the clients to visit.
LEMMA AheadStill ==
  ASSUME IInv, NEW t \in Task, NEW u \in Task, pc[t] \in UninstallStage, AllAhead(t),
         \/ \E c \in Client : Review(u, c)
         \/ Remove(u) \/ Recheck(u)
  PROVE  u = t /\ pc'[t] \in UninstallStage \cup {"leave", "missing"} /\ AllAhead(t)'
<1>1. t \in inside /\ u \in inside
  BY DEF IInv, Shared, LockHeld, Locked, Review, Remove, Recheck, UninstallStage
<1>2. u = t
  BY <1>1 DEF IInv, Shared, LockHeld
<1>3. UNCHANGED <<receipt, todo>>
  BY DEF Review, Remove, Recheck
<1>4. pc'[t] \in UninstallStage \cup {"leave", "missing"}
  BY <1>2, Functions DEF IInv, Goto, Review, Remove, Recheck, UninstallStage
<1> QED
  BY <1>2, <1>3, <1>4 DEF AllAhead

LEMMA AheadForget ==
  ASSUME IInv, NEW t \in Task, AllAhead(t), Forget(t)
  PROVE  pc'[t] \in UninstallStage /\ AllAhead(t)'
<1> DEFINE r == Marked(managed[t], at[t], "no")
<1>1. /\ pc[t] = "forget" /\ Goto(t, "review")
      /\ todo' = [todo EXCEPT ![t] = todo[t] \ {at[t]}]
      /\ managed' = [managed EXCEPT ![t] = r]
      /\ receipt' = IF \A c \in Client : ~Manages(managed'[t], c) THEN NoReceipt ELSE managed'[t]
  BY DEF Forget, Visited
<1>2. managed'[t] = r /\ todo'[t] = todo[t] \ {at[t]} /\ pc'[t] = "review"
  BY <1>1, Functions DEF IInv, Goto
<1>3. /\ managed[t] \in Receipt /\ at[t] \in Client
      /\ \A c \in Client : Manages(managed[t], c) <=> Manages(receipt, c)
  BY <1>1 DEF IInv, TypeOK, Holds, Removing, Locked, UninstallStage
<1>4. \A c \in Client : Manages(r, c) <=> c # at[t] /\ Manages(receipt, c)
  BY <1>3, MarkedFact DEF State
<1> HIDE DEF r
<1>5. \A c \in Client : Manages(receipt', c) <=> Manages(r, c)
  BY <1>1, <1>2, NoReceiptFact
<1> QED
  BY <1>2, <1>4, <1>5 DEF AllAhead, UninstallStage

\* An uninstall that set out to visit every managed client cannot return with a receipt
\* unless it met a registration it must leave alone or an agent without its program, or
\* died.
THEOREM UninstallClears == Spec => Clears
<1> DEFINE Cleared(t) == pc[t] \in UninstallStage /\ AllAhead(t) =>
             \/ pc'[t] \in UninstallStage \cup {"leave", "missing"} /\ AllAhead(t)'
             \/ pc'[t] = "idle" /\ (faults' # faults \/ receipt'.server = None)
<1>1. ASSUME IInv, Known, Next, NEW t \in Task, pc[t] \in UninstallStage, AllAhead(t)
      PROVE  Cleared(t)
  <2> USE <1>1
  <2>1. inside = {t} /\ pc[t] \in Locked
    BY DEF IInv, Shared, LockHeld, Locked
  <2>2. ASSUME NEW u \in Task, u # t PROVE pc[u] \notin Locked
    BY <2>1, <2>2 DEF IInv, Shared, LockHeld
  <2>3. ASSUME NEW u \in Task, Over(u), UNCHANGED receipt, u # t PROVE Cleared(t)
    <3>1. pc'[t] = pc[t] /\ todo'[t] = todo[t]
      BY <2>3, Functions DEF IInv, Over, Goto
    <3> QED
      BY <2>3, <3>1 DEF AllAhead
  <2>4. ASSUME NEW u \in Task, Abandon(u) PROVE Cleared(t)
    <3>1. CASE u = t
      <4>1. pc'[t] = "idle" /\ faults \in Nat /\ faults' = faults + 1
        BY <2>4, <3>1, Functions, RegistrationAssumption DEF IInv, TypeOK, Abandon, Over, Goto
      <4> QED
        BY <4>1
    <3>2. CASE u # t
      BY <2>3, <2>4, <3>2 DEF Abandon
    <3> QED
      BY <3>1, <3>2
  <2>5. ASSUME NEW u \in Task, Leave(u) PROVE Cleared(t)
    <3>1. u = t
      BY <2>1, <2>5 DEF Leave, Lock!Leave
    <3>2. pc'[t] = "idle" /\ receipt' = receipt
      BY <2>5, <3>1, Functions DEF IInv, Leave, Over, Goto
    <3>3. todo[t] = {}
      BY <2>5, <3>1 DEF Leave, UninstallStage
    <3>4. receipt.server = None
      BY <3>3 DEF Known, NamesSomeone, AllAhead
    <3> QED
      BY <3>2, <3>4
  <2>6. ASSUME NEW u \in Task, GiveUp(u) PROVE Cleared(t)
    <3>1. u # t
      BY <2>6 DEF GiveUp, UninstallStage
    <3> QED
      BY <2>3, <2>6, <3>1 DEF GiveUp
  <2>7. ASSUME NEW u \in Task,
               \/ EnterInit(u) \/ \E c \in Client : Examine(u, c) \/ Look(u, c)
               \/ Pend(u) \/ Add(u) \/ Verify(u) \/ Confirm(u)
        PROVE  FALSE
    <3>1. CASE EnterInit(u)
      BY <2>1, <3>1 DEF EnterInit, Lock!Enter
    <3>2. CASE ~EnterInit(u)
      <4>1. pc[u] \in InitStage
        BY <2>7, <3>2 DEF Examine, Look, Pend, Add, Verify, Confirm, InitStage
      <4>2. u # t
        BY <4>1 DEF InitStage, UninstallStage
      <4> QED
        BY <2>2, <4>1, <4>2 DEF Locked
    <3> QED
      BY <3>1, <3>2
  <2>8. ASSUME NEW u \in Task, Forget(u) PROVE Cleared(t)
    <3>1. u = t
      BY <2>2, <2>8 DEF Forget, Locked, UninstallStage
    <3> QED
      BY <2>8, <3>1, AheadForget
  <2>9. ASSUME NEW u \in Task, (\E c \in Client : Review(u, c)) \/ Remove(u) \/ Recheck(u)
        PROVE  Cleared(t)
    BY <2>9, AheadStill
  <2>10. ASSUME NEW u \in Task, Ask(u) PROVE Cleared(t)
    <3>1. ASSUME NEW S \in SUBSET Client, NEW s \in Server, Preflight(u, s, S) PROVE Cleared(t)
      <4>1. u # t
        BY <3>1 DEF Preflight, UninstallStage
      <4>2. pc'[t] = pc[t] /\ todo'[t] = todo[t] /\ receipt' = receipt
        BY <3>1, <4>1, Functions DEF IInv, Preflight, Goto
      <4> QED
        BY <4>2 DEF AllAhead
    <3>2. ASSUME NEW S \in SUBSET Client, NEW b \in BOOLEAN, EnterUninstall(u, S, b) PROVE FALSE
      BY <2>1, <3>2 DEF EnterUninstall, Lock!Enter
    <3> QED
      BY <2>10, <3>1, <3>2 DEF Ask
  <2>11. ASSUME NEW c \in Client, NEW v \in Server \cup {Other, None}, Edit(c, v)
         PROVE  Cleared(t)
    BY <2>11 DEF Edit, local, AllAhead
  <2> HIDE DEF Cleared
  <2>12. ASSUME NEW u \in Task, Work(u) PROVE Cleared(t)
    BY <2>5, <2>6, <2>7, <2>8, <2>9, <2>12 DEF Work
  <2> QED
    BY <2>4, <2>10, <2>11, <2>12 DEF Next
<1>2. IInv /\ Known /\ [Next]_vars =>
        [\A t \in Task : pc[t] \in UninstallStage /\ AllAhead(t) =>
           \/ pc'[t] \in UninstallStage \cup {"leave", "missing"} /\ AllAhead(t)'
           \/ pc'[t] = "idle" /\ (faults' # faults \/ receipt'.server = None)]_vars
  BY <1>1
<1> QED
  BY <1>2, Invariance, KnownHolds, PTL DEF Spec, Clears
=============================================================================

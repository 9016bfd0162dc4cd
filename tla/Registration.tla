---------------------------- MODULE Registration ----------------------------
(***************************************************************************)
(* codenib/codegraph_onboarding.py with the commands init and uninstall of *)
(* codenib/cli.py: the registration of one repository's MCP server with    *)
(* several agents.  What each agent has registered under the server's name *)
(* is kept by the agent (native) and changed through its own program; a    *)
(* receipt says which of them CodeNib manages.  There is no transaction    *)
(* over the two: a command may die, or a program it calls may fail, at any *)
(* step, and users edit registrations whenever they like.  The receipt is  *)
(* changed under registration_lock only.                                   *)
(*                                                                         *)
(* What init builds before it registers, the reports of status and         *)
(* --dry-run, which change nothing, the form of the receipt and the scopes *)
(* within one agent are left out.  The two routes have a name, a receipt   *)
(* and a lock each.  init's agents are chosen because their programs were  *)
(* found (resolve_requested_clients) and stay installed while it runs; an  *)
(* uninstall may meet an agent whose program is gone for good.             *)
(***************************************************************************)
EXTENDS Naturals

CONSTANTS
  Task,             \* terminals that run one command after the other
  Client,           \* agents: CODEGRAPH_CLIENTS
  Server,           \* MCPServerSpec values a user may ask for
  Other,            \* a registration under the same name that is none of these
  None,
  MaxEdits,         \* bound: edits by users
  MaxFaults         \* bound: deaths, failed calls of other programs, failed writes

ASSUME RegistrationAssumption ==
  /\ None \notin Server \cup {Other} /\ Other \notin Server
  /\ MaxEdits \in Nat /\ MaxFaults \in Nat

VARIABLES
  pc, at,           \* the stage of each command; the client it is at
  server, clients, force,       \* its arguments
  todo, managed,    \* clients it has still to visit; its copy of the receipt
  receipt, native,  \* the receipt; each client's registration
  inside,           \* registration_lock
  made,             \* history: clients whose registration CodeNib made
  theirs,           \* history: clients whose registration is the user's
  edits, faults

command == <<server, clients, force>>
local == <<pc, at, command, todo, managed>>
vars == <<local, receipt, native, inside, made, theirs, edits, faults>>

Lock == INSTANCE AbstractLock WITH Task <- Task, inside <- inside

InitStage == {"examine", "look", "add", "verify", "confirm"}
UninstallStage == {"review", "remove", "recheck", "forget"}
Locked == InitStage \cup UninstallStage \cup {"leave", "missing"}
Stage == {"idle", "waits"} \cup Locked

\* No receipt is a receipt that names no server and no client.
Receipt == [server : Server \cup {None}, state : [Client -> {"no", "pending", "configured"}]]
NoReceipt == [server |-> None, state |-> [c \in Client |-> "no"]]
Manages(r, c) == r.state[c] # "no"

\* with_client and without_client; the first for several clients.
Marked(r, c, state) == [r EXCEPT !.state[c] = state]
Pending(r, chosen) ==
  [r EXCEPT !.state = [c \in Client |->
     IF c \in chosen /\ ~Manages(r, c) THEN "pending" ELSE r.state[c]]]

\* The types.
TypeOK ==
  /\ pc \in [Task -> Stage] /\ at \in [Task -> Client \cup {None}]
  /\ server \in [Task -> Server \cup {None}] /\ clients \in [Task -> SUBSET Client]
  /\ force \in [Task -> BOOLEAN]
  /\ todo \in [Task -> SUBSET Client] /\ managed \in [Task -> Receipt]
  /\ receipt \in Receipt /\ native \in [Client -> Server \cup {Other, None}]
  /\ inside \subseteq Task
  /\ made \subseteq Client /\ theirs \subseteq Client
  /\ edits \in 0..MaxEdits /\ faults \in 0..MaxFaults

Init ==
  /\ pc = [t \in Task |-> "idle"] /\ at = [t \in Task |-> None]
  /\ server = [t \in Task |-> None] /\ clients = [t \in Task |-> {}]
  /\ force = [t \in Task |-> FALSE]
  /\ todo = [t \in Task |-> {}] /\ managed = [t \in Task |-> NoReceipt]
  /\ receipt = NoReceipt /\ native = [c \in Client |-> None]
  /\ inside = {} /\ made = {} /\ theirs = {} /\ edits = 0 /\ faults = 0

Goto(t, stage) == pc' = [pc EXCEPT ![t] = stage]
Visited(t) == todo' = [todo EXCEPT ![t] = @ \ {at[t]}] /\ at' = [at EXCEPT ![t] = None]

\* The command is over, and what it kept with it.
Over(t) ==
  /\ Goto(t, "idle") /\ at' = [at EXCEPT ![t] = None]
  /\ server' = [server EXCEPT ![t] = None] /\ clients' = [clients EXCEPT ![t] = {}]
  /\ force' = [force EXCEPT ![t] = FALSE]
  /\ todo' = [todo EXCEPT ![t] = {}] /\ managed' = [managed EXCEPT ![t] = NoReceipt]
-----------------------------------------------------------------------------
(* init *)

\* _codegraph_spec_for_args and _codegraph_preflight_clients, without the lock:
\* a snapshot, after which init builds the indexes and a user may take minutes.
\* It is taken at once here: whatever rests on it is looked at again under the lock.
Preflight(t, s, chosen) ==
  /\ pc[t] = "idle" /\ chosen # {}
  /\ receipt.server \in {None, s}
  /\ \A c \in chosen : native[c] = None \/ (native[c] = s /\ Manages(receipt, c))
  /\ Goto(t, "waits")
  /\ server' = [server EXCEPT ![t] = s] /\ clients' = [clients EXCEPT ![t] = chosen]
  /\ force' = [force EXCEPT ![t] = FALSE]
  /\ todo' = [todo EXCEPT ![t] = chosen] /\ managed' = [managed EXCEPT ![t] = receipt]
  /\ UNCHANGED <<at, receipt, native, inside, made, theirs, edits, faults>>

OrNew(r, s) == IF r.server = None THEN [r EXCEPT !.server = s] ELSE r

\* Broken on purpose: the snapshot of the preflight is used.
EnterInitUnread(t) ==
  /\ pc[t] = "waits" /\ Lock!Enter(t)
  /\ managed' = [managed EXCEPT ![t] = OrNew(managed[t], server[t])]
  /\ Goto(t, IF managed'[t].server = server[t] THEN "examine" ELSE "leave")
  /\ UNCHANGED <<at, command, todo, receipt, native, made, theirs, edits, faults>>

\* registration_lock, then the receipt is read again.
EnterInit(t) ==
  /\ pc[t] = "waits" /\ Lock!Enter(t)
  /\ managed' = [managed EXCEPT ![t] = OrNew(receipt, server[t])]
  /\ Goto(t, IF managed'[t].server = server[t] THEN "examine" ELSE "leave")
  /\ UNCHANGED <<at, command, todo, receipt, native, made, theirs, edits, faults>>

\* Broken on purpose: a registration that matches is taken over, managed or not.
ExamineMatch(t, c) ==
  /\ pc[t] = "examine" /\ c \in todo[t]
  /\ todo' = [todo EXCEPT ![t] = @ \ {c}]
  /\ Goto(t, IF native[c] \in {None, server[t]} THEN "examine" ELSE "leave")
  /\ UNCHANGED <<at, command, managed, receipt, native, inside, made, theirs, edits, faults>>

\* The first loop: what exists must match and be managed.
Examine(t, c) ==
  /\ pc[t] = "examine" /\ c \in todo[t]
  /\ todo' = [todo EXCEPT ![t] = @ \ {c}]
  /\ Goto(t, IF native[c] = None \/ (native[c] = server[t] /\ Manages(managed[t], c))
             THEN "examine" ELSE "leave")
  /\ UNCHANGED <<at, command, managed, receipt, native, inside, made, theirs, edits, faults>>

\* The pending receipt, before any registration is made.
Pend(t) ==
  /\ pc[t] = "examine" /\ todo[t] = {} /\ Goto(t, "look")
  /\ managed' = [managed EXCEPT ![t] = Pending(managed[t], clients[t])]
  /\ receipt' = managed'[t] /\ todo' = [todo EXCEPT ![t] = clients[t]]
  /\ UNCHANGED <<at, command, native, inside, made, theirs, edits, faults>>

\* The second loop.
Look(t, c) ==
  /\ pc[t] = "look" /\ c \in todo[t] /\ at' = [at EXCEPT ![t] = c]
  /\ Goto(t, CASE native[c] = None -> "add"
               [] native[c] = server[t] -> "confirm"
               [] OTHER -> "leave")
  /\ UNCHANGED <<command, todo, managed, receipt, native, inside, made, theirs, edits, faults>>

\* The agent's "mcp add", which may refuse or replace what appeared meanwhile.
Add(t) ==
  /\ pc[t] = "add"
  /\ \/ /\ native' = [native EXCEPT ![at[t]] = server[t]]
        /\ made' = made \cup {at[t]} /\ Goto(t, "verify")
     \/ native[at[t]] # None /\ Goto(t, "leave") /\ UNCHANGED <<native, made>>
  /\ UNCHANGED <<at, command, todo, managed, receipt, inside, theirs, edits, faults>>

Verify(t) ==
  /\ pc[t] = "verify"
  /\ Goto(t, IF native[at[t]] = server[t] THEN "confirm" ELSE "leave")
  /\ UNCHANGED <<at, command, todo, managed, receipt, native, inside, made, theirs, edits,
                 faults>>

Confirm(t) ==
  /\ pc[t] = "confirm" /\ Goto(t, "look") /\ Visited(t)
  /\ managed' = [managed EXCEPT ![t] = Marked(managed[t], at[t], "configured")]
  /\ receipt' = managed'[t]
  /\ UNCHANGED <<command, native, inside, made, theirs, edits, faults>>
-----------------------------------------------------------------------------
(* uninstall *)

\* The command waits for the lock before it reads anything.  Clients that the
\* receipt does not name are passed over.
EnterUninstall(t, chosen, forced) ==
  /\ pc[t] = "idle" /\ Lock!Enter(t) /\ Goto(t, "review")
  /\ force' = [force EXCEPT ![t] = forced] /\ managed' = [managed EXCEPT ![t] = receipt]
  /\ todo' = [todo EXCEPT ![t] = {c \in chosen : Manages(receipt, c)}]
  /\ UNCHANGED <<at, server, clients, receipt, native, made, theirs, edits, faults>>

\* Broken on purpose: a registration that is missing is an error.
ReviewStrict(t, c) ==
  /\ pc[t] = "review" /\ c \in todo[t] /\ at' = [at EXCEPT ![t] = c]
  /\ Goto(t, IF native[c] # None /\ (native[c] = managed[t].server \/ force[t])
             THEN "remove" ELSE "leave")
  /\ UNCHANGED <<command, todo, managed, receipt, native, inside, made, theirs, edits, faults>>

\* "client command not found" is an error, --force or not, for as long as the agent's
\* program is missing.
Review(t, c) ==
  /\ pc[t] = "review" /\ c \in todo[t] /\ at' = [at EXCEPT ![t] = c]
  /\ \/ Goto(t, CASE native[c] = None -> "forget"
                  [] native[c] = managed[t].server -> "remove"
                  [] OTHER -> IF force[t] THEN "remove" ELSE "leave")
     \/ Goto(t, "missing")
  /\ UNCHANGED <<command, todo, managed, receipt, native, inside, made, theirs, edits, faults>>

\* The agent's "mcp remove".
Remove(t) ==
  /\ pc[t] = "remove"
  /\ \/ /\ native' = [native EXCEPT ![at[t]] = None] /\ Goto(t, "recheck")
        /\ made' = made \ {at[t]} /\ theirs' = theirs \ {at[t]}
     \/ native[at[t]] = None /\ Goto(t, "leave") /\ UNCHANGED <<native, made, theirs>>
  /\ UNCHANGED <<at, command, todo, managed, receipt, inside, edits, faults>>

Recheck(t) ==
  /\ pc[t] = "recheck" /\ Goto(t, IF native[at[t]] = None THEN "forget" ELSE "leave")
  /\ UNCHANGED <<at, command, todo, managed, receipt, native, inside, made, theirs, edits,
                 faults>>

\* The receipt goes with the last client.
Forget(t) ==
  /\ pc[t] = "forget" /\ Goto(t, "review") /\ Visited(t)
  /\ managed' = [managed EXCEPT ![t] = Marked(managed[t], at[t], "no")]
  /\ receipt' = IF \A c \in Client : ~Manages(managed'[t], c) THEN NoReceipt ELSE managed'[t]
  /\ UNCHANGED <<command, native, inside, made, theirs, edits, faults>>
-----------------------------------------------------------------------------
\* A command ends: all clients have been visited, or it has refused.
Leave(t) ==
  /\ (pc[t] \in {"look", "review"} /\ todo[t] = {}) \/ pc[t] \in {"leave", "missing"}
  /\ Over(t) /\ Lock!Leave(t)
  /\ UNCHANGED <<receipt, native, made, theirs, edits, faults>>

\* 30 seconds of waiting for the lock are over.
GiveUp(t) ==
  /\ pc[t] = "waits" /\ inside # {} /\ Over(t)
  /\ UNCHANGED <<receipt, native, inside, made, theirs, edits, faults>>

\* The command dies, or a call or a write of its last step fails.
Abandon(t) ==
  /\ pc[t] # "idle" /\ faults < MaxFaults /\ faults' = faults + 1
  /\ Over(t) /\ inside' = inside \ {t}
  /\ UNCHANGED <<receipt, native, made, theirs, edits>>

\* A user registers something under the server's name, or removes it.  It is the
\* user's from then on if no command is at work and nothing says it is CodeNib's.
Edit(c, value) ==
  /\ native[c] # value /\ edits < MaxEdits /\ edits' = edits + 1
  /\ native' = [native EXCEPT ![c] = value] /\ made' = made \ {c}
  /\ theirs' = IF /\ value # None /\ inside = {}
                  /\ ~(Manages(receipt, c) /\ value = receipt.server)
               THEN theirs \cup {c} ELSE theirs \ {c}
  /\ UNCHANGED <<local, receipt, inside, faults>>

Work(t) ==
  \/ EnterInit(t) \/ GiveUp(t) \/ Leave(t)
  \/ \E c \in Client : Examine(t, c) \/ Look(t, c) \/ Review(t, c)
  \/ Pend(t) \/ Add(t) \/ Verify(t) \/ Confirm(t)
  \/ Remove(t) \/ Recheck(t) \/ Forget(t)

Ask(t) ==
  \E chosen \in SUBSET Client :
    \/ \E s \in Server : Preflight(t, s, chosen)
    \/ \E forced \in BOOLEAN : EnterUninstall(t, chosen, forced)

Next ==
  \/ \E t \in Task : Ask(t) \/ Work(t) \/ Abandon(t)
  \/ \E c \in Client, value \in Server \cup {Other, None} : Edit(c, value)

Spec == Init /\ [][Next]_vars

\* A command that was given runs to its end.
FairSpec == Spec /\ \A t \in Task : WF_vars(Work(t))
-----------------------------------------------------------------------------
\* Whatever CodeNib has registered with an agent is named in the receipt, also
\* after a death at any step and with several commands at work: uninstall will
\* find it.
OwnIsRecorded == \A c \in made : Manages(receipt, c)

\* A registration that a user made is never replaced or removed by CodeNib: not
\* when an interrupted init is repeated, and by an uninstall only with --force
\* and only if the receipt names the client.
TheirsIsKept ==
  [][\A c \in theirs : native'[c] # native[c] =>
       \/ edits' # edits
       \/ /\ Manages(receipt, c)
          /\ \E t \in Task : pc[t] = "remove" /\ at[t] = c /\ force[t]]_native

\* An uninstall with --force has all managed clients before it.
ForcedOnAll(t) ==
  /\ pc[t] = "review" /\ force[t]
  /\ \A c \in Client : Manages(receipt, c) => c \in todo[t]

\* Whatever an interrupted init or uninstall has left, a user who repeats an
\* uninstall of everything with --force, gets the lock and has the agents' programs
\* installed from some time on, ends with no receipt.  While a program is missing the
\* receipt stays (cli.py:3220).
ReceiptsAreCleared ==
  []<>(\E t \in Task : ForcedOnAll(t)) /\ <>[](\A t \in Task : pc[t] # "missing")
    => (receipt.server # None ~> receipt.server = None)
=============================================================================

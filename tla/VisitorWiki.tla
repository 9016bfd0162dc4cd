---------------------------- MODULE VisitorWiki ----------------------------
(***************************************************************************)
(* codenib/wiki/visitor_wiki.py: Wikis that visitors generate, resume and  *)
(* stop, in several processes over one store.  Two file locks order them:  *)
(* GENERATION is held by the one run that generates, ADMISSION by short    *)
(* sections that submit, begin, stop or publish.  A run's own progress is  *)
(* saved under GENERATION alone.  Waiting for either lock is bounded, and  *)
(* the death of a process releases what it held.                           *)
(*                                                                         *)
(* A save of the store is atomic (one SQLite transaction).  The clock, the *)
(* rate limit, costs and the graph views are left out, and the outline     *)
(* once it is made: AgentWiki keeps it.                                    *)
(***************************************************************************)
EXTENDS Naturals, FiniteSets

CONSTANTS
  Process, Wiki, None,
  Request,          \* identities of submissions (token_hex)
  Pages,            \* a Wiki has the pages 1..Pages
  SourceSlots,      \* submissions a process serves at a time
  MaxFaults         \* bound: deaths and failures of the store

ASSUME WikiAssumption ==
  /\ None \notin Request \cup Process \cup Wiki /\ "stop" \notin Request \cup {None}
  /\ Pages \in Nat \ {0} /\ SourceSlots \in Nat \ {0} /\ MaxFaults \in Nat

VARIABLES
  pc,               \* where each submission, then its run, is
  wiki, by, seen,   \* its Wiki, its process, the revision it was saved with
  active,           \* _active of each process
  doc,              \* the saved state of each Wiki
  pend,             \* its saved request
  cancelled,        \* requests with a cancel envelope
  cached, saved,    \* pages AgentWiki has kept; pages the visitor can read
  published,
  gen, adm,         \* who holds GENERATION; ADMISSION
  page,             \* the page the run is at
  stopping,         \* the stop in progress: what it read of the Wiki's state
  closing,          \* processes that are shutting down
  recalled,         \* history: requests an accepted stop found submitted, or one
                    \* that failed had reached
  faults

request == <<pc, wiki, by, seen>>
store == <<doc, pend, cancelled, cached, saved, published>>
vars == <<request, active, store, gen, adm, page, stopping, closing,
          recalled, faults>>

Page == 1..Pages
\* Stages of a submission, of a run that holds GENERATION, and of one that is over.
Submitting == {"admitted", "created"}
Waiting == {"queued", "late"}
Running == {"begun", "generating", "valid", "invalid", "published", "halting", "completing"}
Over == {"refused", "done", "lost", "dead"}

Stop == "stop"      \* the holder of ADMISSION that is no submission
Doc == [status : {"absent", "queued", "running", "partial", "complete"},
        rev : Nat, request : Request \cup {None},
        pages : [Page -> {"unknown", "pending", "running", "ready", "review"}]]
Pend == [id : Request \cup {None}, rev : Nat, busy : BOOLEAN]

\* The types.
TypeOK ==
  /\ pc \in [Request -> {"new"} \cup Submitting \cup Waiting \cup Running \cup Over]
  /\ wiki \in [Request -> Wiki \cup {None}] /\ by \in [Request -> Process \cup {None}]
  /\ seen \in [Request -> Nat]
  /\ active \in [Process -> SUBSET Wiki]
  /\ doc \in [Wiki -> Doc] /\ pend \in [Wiki -> Pend]
  /\ cancelled \subseteq Request
  /\ cached \in [Wiki -> SUBSET Page] /\ saved \in [Wiki -> SUBSET Page]
  /\ published \subseteq Wiki
  /\ gen \in Request \cup {None} /\ adm \in Request \cup {Stop, None}
  /\ page \in 1..(Pages + 1)
  /\ stopping \in [wiki : Wiki \cup {None}, request : Request \cup {None}, rev : Nat]
  /\ closing \subseteq Process /\ recalled \subseteq Request
  /\ faults \in 0..MaxFaults

NoStop == [wiki |-> None, request |-> None, rev |-> 0]

Init ==
  /\ pc = [i \in Request |-> "new"]
  /\ wiki = [i \in Request |-> None] /\ by = [i \in Request |-> None]
  /\ seen = [i \in Request |-> 0]
  /\ active = [p \in Process |-> {}]
  /\ doc = [w \in Wiki |-> [status |-> "absent", rev |-> 0, request |-> None,
                            pages |-> [k \in Page |-> "unknown"]]]
  /\ pend = [w \in Wiki |-> [id |-> None, rev |-> 0, busy |-> FALSE]]
  /\ cancelled = {} /\ published = {}
  /\ cached = [w \in Wiki |-> {}] /\ saved = [w \in Wiki |-> {}]
  /\ gen = None /\ adm = None /\ page = 1
  /\ stopping = NoStop /\ closing = {} /\ recalled = {} /\ faults = 0
-----------------------------------------------------------------------------
Goto(i, where) == pc' = [pc EXCEPT ![i] = where]
Discard(i) == active' = [active EXCEPT ![by[i]] = @ \ {wiki[i]}]
Fault == faults < MaxFaults /\ faults' = faults + 1

\* _admit_source
Admit(i, p, w) ==
  /\ pc[i] = "new" /\ Goto(i, "admitted")
  /\ p \notin closing /\ w \notin active[p] /\ Cardinality(active[p]) < SourceSlots
  /\ wiki' = [wiki EXCEPT ![i] = w] /\ by' = [by EXCEPT ![i] = p]
  /\ active' = [active EXCEPT ![p] = @ \cup {w}]
  /\ UNCHANGED <<seen, store, gen, adm, page, stopping, closing, recalled, faults>>

\* Broken on purpose: a submission that ends early keeps its slot.
RefuseWithSlot(i) ==
  /\ pc[i] = "admitted" /\ Goto(i, "refused")
  /\ UNCHANGED <<wiki, by, seen, active, store, gen, adm, page, stopping, closing,
                 recalled, faults>>

\* The key, the repository, the closing server, ADMISSION's bounded wait or the
\* capacity refuses it, or the Wiki is complete already.
Refuse(i) ==
  /\ pc[i] = "admitted" /\ Goto(i, "refused") /\ Discard(i)
  /\ UNCHANGED <<wiki, by, seen, store, gen, adm, page, stopping, closing,
                 recalled, faults>>

Create(i) ==
  /\ pc[i] = "admitted" /\ adm = None /\ doc[wiki[i]].status = "absent"
  /\ Goto(i, "created") /\ adm' = i
  /\ doc' = [doc EXCEPT ![wiki[i]].status = "queued"]
  /\ UNCHANGED <<wiki, by, seen, active, pend, cancelled, cached, saved,
                 published, gen, page, stopping, closing, recalled, faults>>

\* _save_pending and _dispatch.
Enqueued(i, where) ==
  /\ \/ pc[i] = "created"
     \/ pc[i] = "admitted" /\ adm = None /\ doc[wiki[i]].status \notin {"absent", "complete"}
  /\ Goto(i, where) /\ adm' = None
  /\ seen' = [seen EXCEPT ![i] = doc[wiki[i]].rev]
  /\ pend' = [pend EXCEPT ![wiki[i]] = [id |-> i, rev |-> doc[wiki[i]].rev, busy |-> FALSE]]
  /\ UNCHANGED <<wiki, by, doc, cancelled, cached, saved, published, gen, page, stopping,
                 closing, recalled>>

Enqueue(i) == Enqueued(i, "queued") /\ UNCHANGED <<active, faults>>

\* The status that submit returns cannot be read: the handler discards a slot
\* that is its run's by now.
EnqueueUnanswered(i) == Enqueued(i, "queued") /\ Fault /\ Discard(i)

\* No thread can be started for a request that is saved.
DispatchFails(i) == Enqueued(i, "refused") /\ Fault /\ Discard(i)

\* The store fails on the new request.
EnqueueFails(i) ==
  /\ pc[i] = "created" /\ Fault
  /\ Goto(i, "refused") /\ Discard(i) /\ adm' = None
  /\ UNCHANGED <<wiki, by, seen, store, gen, page, stopping, closing, recalled>>
-----------------------------------------------------------------------------
Current(i) == seen[i] = doc[wiki[i]].rev /\ pend[wiki[i]].id = i

\* Broken on purpose: the state keeps the identity of an earlier request.
BeginAsBefore(i) ==
  /\ pc[i] = "queued" /\ gen = None /\ adm = None /\ Current(i)
  /\ Goto(i, "begun") /\ gen' = i /\ page' = 1
  /\ doc' = [doc EXCEPT ![wiki[i]].rev = @ + 1, ![wiki[i]].status = "running",
                        ![wiki[i]].request = IF @ = None THEN i ELSE @]
  /\ UNCHANGED <<wiki, by, seen, active, pend, cancelled, cached, saved,
                 published, adm, stopping, closing, recalled, faults>>

\* _run: GENERATION, and inside it ADMISSION.
Begin(i) ==
  /\ pc[i] = "queued" /\ gen = None /\ adm = None /\ Current(i)
  /\ Goto(i, "begun") /\ gen' = i /\ page' = 1
  /\ doc' = [doc EXCEPT ![wiki[i]].rev = @ + 1, ![wiki[i]].status = "running",
                        ![wiki[i]].request = i]
  /\ UNCHANGED <<wiki, by, seen, active, pend, cancelled, cached, saved,
                 published, adm, stopping, closing, recalled, faults>>

\* Another run has been there since, or another request has taken its place.
Skip(i) ==
  /\ pc[i] = "queued" /\ gen = None /\ adm = None /\ ~Current(i)
  /\ Goto(i, "done") /\ Discard(i)
  /\ UNCHANGED <<wiki, by, seen, store, gen, adm, page, stopping, closing,
                 recalled, faults>>

\* The bounded wait for a lock somebody holds is over.
GiveUp(i) ==
  /\ pc[i] = "queued" /\ (gen # None \/ adm # None)
  /\ Goto(i, "late")
  /\ UNCHANGED <<wiki, by, seen, active, store, gen, adm, page, stopping,
                 closing, recalled, faults>>

MarkBusy(i) ==
  /\ pc[i] = "late" /\ Goto(i, "done") /\ Discard(i)
  /\ pend' = IF adm = None /\ Current(i)
             THEN [pend EXCEPT ![wiki[i]].busy = TRUE] ELSE pend
  /\ UNCHANGED <<wiki, by, seen, doc, cancelled, cached, saved, published, gen,
                 adm, page, stopping, closing, recalled, faults>>

\* check() raises.
Stopped(i) == doc[wiki[i]].request \in cancelled \/ by[i] \in closing

\* The head of the loop over the pages: check(), then the page that is cached or the
\* save of "running", in one step: a stop accepted between check() and that save is seen
\* at the next check(), as one accepted after the save is.
Check(i) ==
  /\ pc[i] = "begun" /\ page \in Page /\ ~Stopped(i)
  /\ IF page \in cached[wiki[i]] THEN Goto(i, "valid") /\ UNCHANGED doc
     ELSE Goto(i, "generating") /\ doc' = [doc EXCEPT ![wiki[i]].pages[page] = "running"]
  /\ UNCHANGED <<wiki, by, seen, active, pend, cancelled, cached, saved, published, gen,
                 adm, page, stopping, closing, recalled, faults>>

\* The graph views, where a stop may pass unseen: without views (the projection
\* failed) nothing looks for one.
Conclude(i) ==
  /\ pc[i] = "begun" /\ page \notin Page
  /\ Goto(i, "completing")
  /\ UNCHANGED <<wiki, by, seen, active, store, gen, adm, page, stopping, closing,
                 recalled, faults>>

\* AgentWiki returns a page that passes its checks whether its store could keep it or
\* not (_write_cache logs the failure), or one that does not pass.
Generate(i) ==
  /\ pc[i] = "generating"
  /\ \/ Goto(i, "valid") /\ cached' = [cached EXCEPT ![wiki[i]] = @ \cup {page}]
     \/ \E where \in {"valid", "invalid"} : Goto(i, where) /\ UNCHANGED cached
  /\ UNCHANGED <<wiki, by, seen, active, doc, pend, cancelled, saved, published,
                 gen, adm, page, stopping, closing, recalled, faults>>

Publish(i) ==
  /\ pc[i] = "valid" /\ ~Stopped(i) /\ Goto(i, "published")
  /\ saved' = [saved EXCEPT ![wiki[i]] = @ \cup {page}]
  /\ UNCHANGED <<wiki, by, seen, active, doc, pend, cancelled, cached, published,
                 gen, adm, page, stopping, closing, recalled, faults>>

\* Broken on purpose: a page that passed is called ready, saved or not.
NoteFirst(i) ==
  /\ pc[i] \in {"published", "valid", "invalid"}
  /\ pc[i] # "published" => ~Stopped(i)
  /\ Goto(i, "begun") /\ page' = page + 1
  /\ doc' = [doc EXCEPT ![wiki[i]].pages[page] =
               IF pc[i] = "invalid" THEN "review" ELSE "ready"]
  /\ UNCHANGED <<wiki, by, seen, active, pend, cancelled, cached, saved,
                 published, gen, adm, stopping, closing, recalled, faults>>

Note(i) ==
  /\ pc[i] \in {"published", "invalid"}
  /\ pc[i] = "invalid" => ~Stopped(i)
  /\ Goto(i, "begun") /\ page' = page + 1
  /\ doc' = [doc EXCEPT ![wiki[i]].pages[page] =
               IF pc[i] = "published" THEN "ready" ELSE "review"]
  /\ UNCHANGED <<wiki, by, seen, active, pend, cancelled, cached, saved,
                 published, gen, adm, stopping, closing, recalled, faults>>

\* A stop is seen, the deadline has passed, or anything raises.
Halt(i) ==
  /\ pc[i] \in Running \ {"halting"} /\ Goto(i, "halting")
  /\ UNCHANGED <<wiki, by, seen, active, store, gen, adm, page, stopping,
                 closing, recalled, faults>>

Settled(pages) == [k \in Page |-> IF pages[k] = "running" THEN "pending" ELSE pages[k]]
Outcome(i) ==
  IF pc[i] = "completing" /\ \A k \in Page : doc[wiki[i]].pages[k] = "ready"
  THEN "complete" ELSE "partial"

\* Broken on purpose: what was submitted meanwhile stays valid.
FinishQuietly(i) ==
  /\ pc[i] \in {"halting", "completing"}
  /\ Goto(i, "done") /\ gen' = None /\ Discard(i)
  /\ doc' = [doc EXCEPT ![wiki[i]].status = Outcome(i), ![wiki[i]].pages = Settled(@)]
  /\ UNCHANGED <<wiki, by, seen, pend, cancelled, cached, saved, published, adm,
                 page, stopping, closing, recalled, faults>>

\* The "finally" blocks.
Finish(i) ==
  /\ pc[i] \in {"halting", "completing"}
  /\ Goto(i, "done") /\ gen' = None /\ Discard(i)
  /\ doc' = [doc EXCEPT ![wiki[i]].rev = @ + 1, ![wiki[i]].status = Outcome(i),
                        ![wiki[i]].pages = Settled(@)]
  /\ UNCHANGED <<wiki, by, seen, pend, cancelled, cached, saved, published, adm,
                 page, stopping, closing, recalled, faults>>

\* The provider is made, and the first progress saved, where nothing catches a
\* failure: the saved state keeps saying "running".
ConnectFails(i) ==
  /\ pc[i] = "begun" /\ page = 1 /\ Fault
  /\ Goto(i, "lost") /\ gen' = None /\ Discard(i)
  /\ UNCHANGED <<wiki, by, seen, store, adm, page, stopping, closing, recalled>>

\* The store fails on the last save.
FinishFails(i) ==
  /\ pc[i] \in {"halting", "completing"} /\ Fault
  /\ Goto(i, "lost") /\ gen' = None /\ Discard(i)
  /\ UNCHANGED <<wiki, by, seen, store, adm, page, stopping, closing, recalled>>
-----------------------------------------------------------------------------
\* cancel reads the state, and writes later: a run may have saved in between.
CancelRead(w) ==
  /\ adm = None /\ doc[w].status \notin {"absent", "complete"}
  /\ adm' = Stop
  /\ stopping' = [wiki |-> w, request |-> doc[w].request, rev |-> doc[w].rev]
  /\ UNCHANGED <<request, active, store, gen, page, closing, recalled, faults>>

Submitted(w) == {i \in Request : wiki[i] = w /\ pc[i] \notin Submitting \cup {"refused"}}

\* Broken on purpose: only the run that is known is stopped, no waiting request.
TargetsRun(w) == {stopping.request} \ {None}

Targets(w) ==
  ({stopping.request} \ {None})
    \cup {i \in Request : pend[w].id = i /\ pend[w].rev = stopping.rev}

CancelWrite ==
  /\ adm = Stop /\ adm' = None /\ stopping' = NoStop
  /\ cancelled' = cancelled \cup Targets(stopping.wiki)
  /\ recalled' = recalled \cup Submitted(stopping.wiki)
  /\ UNCHANGED <<request, active, doc, pend, cached, saved, published, gen, page,
                 closing, faults>>

\* Its process dies, or the store fails, before, between or after the envelopes.
CancelFails ==
  /\ adm = Stop /\ adm' = None /\ stopping' = NoStop /\ Fault
  /\ \E written \in SUBSET Targets(stopping.wiki) :
       cancelled' = cancelled \cup written /\ recalled' = recalled \cup written
  /\ UNCHANGED <<request, active, doc, pend, cached, saved, published, gen, page, closing>>

\* publish_wiki
PublishWiki(w) ==
  /\ adm = None /\ doc[w].status = "complete"
  /\ \A k \in Page : doc[w].pages[k] = "ready" /\ k \in saved[w]
  /\ published' = published \cup {w}
  /\ UNCHANGED <<request, active, doc, pend, cancelled, cached, saved, gen, adm,
                 page, stopping, closing, recalled, faults>>

UnpublishWiki(w) ==
  /\ adm = None /\ doc[w].status # "absent"
  /\ published' = published \ {w}
  /\ UNCHANGED <<request, active, doc, pend, cancelled, cached, saved, gen, adm,
                 page, stopping, closing, recalled, faults>>

Close(p) ==
  /\ closing' = closing \cup {p}
  /\ UNCHANGED <<request, active, store, gen, adm, page, stopping, recalled, faults>>

\* The process ends, at a bad moment or after closing, and is started again.
Die(p) ==
  LET mine == {i \in Request : by[i] = p /\ pc[i] \notin Over}
  IN /\ Fault
     /\ pc' = [i \in Request |-> IF i \in mine THEN "dead" ELSE pc[i]]
     /\ active' = [active EXCEPT ![p] = {}]
     /\ gen' = IF gen \in mine THEN None ELSE gen
     /\ adm' = IF adm \in mine THEN None ELSE adm
     /\ closing' = closing \ {p}
     /\ UNCHANGED <<wiki, by, seen, store, page, stopping, recalled>>

Submission(i) ==
  \/ Refuse(i) \/ Create(i) \/ Enqueue(i) \/ EnqueueFails(i)
  \/ EnqueueUnanswered(i) \/ DispatchFails(i)
Run(i) ==
  \/ Begin(i) \/ Skip(i) \/ GiveUp(i) \/ MarkBusy(i) \/ Check(i) \/ Generate(i)
  \/ Conclude(i) \/ Publish(i) \/ Note(i) \/ Halt(i) \/ Finish(i)
  \/ ConnectFails(i) \/ FinishFails(i)

Next ==
  \/ \E i \in Request :
       \/ Submission(i) \/ Run(i)
       \/ \E p \in Process, w \in Wiki : Admit(i, p, w)
  \/ CancelWrite \/ CancelFails
  \/ \E w \in Wiki : CancelRead(w) \/ PublishWiki(w) \/ UnpublishWiki(w)
  \/ \E p \in Process : Close(p) \/ Die(p)

Spec == Init /\ [][Next]_vars

\* Threads run, every step of theirs ends (network calls and lock waits are
\* bounded), and nobody has to come or to stop anything.
FairSpec ==
  /\ Spec
  /\ \A i \in Request : WF_vars(Submission(i)) /\ WF_vars(Run(i))
  /\ WF_vars(CancelWrite \/ CancelFails)
-----------------------------------------------------------------------------
\* What is saved is true of what happened: "running" names a run that holds
\* GENERATION or died without a last save, a ready page can be read, and a
\* published Wiki is complete, whatever was resumed or failed meanwhile.
StoredStateIsTrue ==
  \A w \in Wiki :
    /\ doc[w].status = "running" =>
         \E i \in Request : doc[w].request = i /\ (gen = i \/ pc[i] \in {"lost", "dead"})
    /\ \A k \in Page : doc[w].pages[k] = "ready" => k \in saved[w]
    /\ w \in published => doc[w].status = "complete"
                           /\ \A k \in Page : doc[w].pages[k] = "ready"

\* A complete Wiki is never touched again, not by a run that was submitted while
\* another process was completing it.
CompleteIsFinal ==
  [][\A w \in Wiki : doc[w].status = "complete" => doc'[w] = doc[w]]_doc

\* A stop reaches the run in progress and every request already submitted: none
\* of them begins another page, which is to say passes the check() before it.
StopIsHeeded ==
  [][\A i \in Request : pc[i] = "begun" /\ pc'[i] = "generating" => i \notin recalled]_pc

\* A run is not stopped by a stop that came before it was submitted, not even by one
\* that failed between its envelopes.
NoStopIsInherited ==
  \A i \in Request :
    pc[i] \in Running /\ doc[wiki[i]].request \in cancelled => i \in recalled

\* Every submission comes to an end and its process serves others again.
EveryRequestEnds ==
  /\ \A i \in Request : pc[i] # "new" ~> pc[i] \in Over
  /\ \A p \in Process, w \in Wiki : w \in active[p] ~> w \notin active[p]
=============================================================================

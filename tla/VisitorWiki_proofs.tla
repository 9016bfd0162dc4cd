-------------------------- MODULE VisitorWiki_proofs --------------------------
(***************************************************************************)
(* Theorems about VisitorWiki for any processes, Wikis, pages, submissions *)
(* and failures.                                                           *)
(***************************************************************************)
EXTENDS VisitorWiki, TLAPS, FiniteSetTheorems

\* Where a request has begun, and where it cannot begin any more without it.
Begun == Running \cup {"done", "lost", "dead"}
Early == {"new"} \cup Submitting

\* GENERATION belongs to the run, ADMISSION to the submission that creates a Wiki.
RunOK(i) ==
  /\ pc[i] \in Running <=> gen = i
  /\ pc[i] = "created" <=> adm = i
  /\ IF pc[i] = "new" THEN wiki[i] = None /\ by[i] = None
     ELSE wiki[i] \in Wiki /\ by[i] \in Process
  /\ pc[i] \in Running => doc[wiki[i]].status = "running" /\ doc[wiki[i]].request = i
  /\ pc[i] = "created" => doc[wiki[i]].status = "queued"
  /\ pc[i] \in {"generating", "valid", "invalid", "published"} => page \in Page
  /\ pc[i] = "published" => page \in saved[wiki[i]]

RunInv == \A i \in Request : RunOK(i)

\* The saved state names a run of its Wiki.
DocOK(w) ==
  /\ \A i \in Request : doc[w].request = i => wiki[i] = w /\ pc[i] \in Begun
  /\ doc[w].status = "running" =>
       \E i \in Request : doc[w].request = i /\ (gen = i \/ pc[i] \in {"lost", "dead"})
  /\ \A k \in Page : doc[w].pages[k] = "ready" => k \in saved[w]
  /\ w \in published => doc[w].status = "complete" /\ \A k \in Page : doc[w].pages[k] = "ready"

DocInv == \A w \in Wiki : DocOK(w)

\* A waiting request knows the revision of its Wiki or an older one; the revision
\* at which a Wiki is complete is new to all of them.
PendOK(i) ==
  /\ \A w \in Wiki : pend[w].id = i =>
       wiki[i] = w /\ pend[w].rev = seen[i] /\ pc[i] \notin Early
  /\ pc[i] \in Waiting =>
       /\ seen[i] <= doc[wiki[i]].rev
       /\ seen[i] = doc[wiki[i]].rev => doc[wiki[i]].status # "complete"

PendInv == \A i \in Request : PendOK(i)

\* What a stop has read covers the run in progress and the current request.
StopOK(i) ==
  /\ i \in cancelled => i \in recalled \/ pc[i] = "refused"
  /\ i \in recalled =>
       /\ pc[i] \notin Early
       /\ pc[i] \in Running => i \in cancelled
       /\ pc[i] = "queued" /\ Current(i) => i \in cancelled
  /\ adm = Stop =>
       /\ stopping.wiki \in Wiki
       /\ stopping.request = i => wiki[i] = stopping.wiki /\ pc[i] \in Begun
       /\ wiki[i] = stopping.wiki /\ pc[i] \in Running => stopping.request = i
       /\ wiki[i] = stopping.wiki /\ pc[i] = "queued" =>
            seen[i] <= stopping.rev /\ stopping.rev <= doc[wiki[i]].rev

StopInv == \A i \in Request : StopOK(i)

IInv == TypeOK /\ RunInv /\ DocInv /\ PendInv /\ StopInv

LEMMA Domains ==
  ASSUME TypeOK
  PROVE  /\ pc = [i \in Request |-> pc[i]] /\ wiki = [i \in Request |-> wiki[i]]
         /\ by = [i \in Request |-> by[i]] /\ seen = [i \in Request |-> seen[i]]
         /\ doc = [w \in Wiki |-> doc[w]] /\ pend = [w \in Wiki |-> pend[w]]
         /\ saved = [w \in Wiki |-> saved[w]]
         /\ \A i \in Request : seen[i] \in Nat
         /\ \A w \in Wiki : doc[w] \in Doc /\ doc[w].rev \in Nat /\ pend[w] \in Pend
  BY DEF TypeOK, Doc

LEMMA Distinct ==
  /\ None \notin Request /\ None \notin Wiki /\ None \notin Process /\ None # Stop /\ Stop \notin Request
  BY WikiAssumption DEF Stop

\* Only the stage of one request changes, and what it has begun stays begun.
LEMMA QuietStep ==
  ASSUME IInv, NEW i \in Request, NEW where, Goto(i, where),
         UNCHANGED <<wiki, by, seen, doc, cancelled, saved, published, gen, page, stopping,
                     recalled>>,
         \A w \in Wiki : pend'[w].id = pend[w].id /\ pend'[w].rev = pend[w].rev,
         \/ UNCHANGED adm /\ pc[i] # "created"
         \/ pc[i] = "created" /\ adm' = None,
         pc[i] \notin Over \cup {"new"}, where \notin Early \cup {"queued", "published"},
         where \in Running <=> pc[i] \in Running,
         pc[i] \in Begun => where \in Begun,
         where \in Waiting => pc[i] \in Waiting,
         where \in {"generating", "valid", "invalid"} =>
           pc[i] \in {"generating", "valid", "invalid", "published"}
  PROVE  RunInv' /\ DocInv' /\ PendInv' /\ StopInv'
<1>1. /\ \A j \in Request : pc'[j] = IF j = i THEN where ELSE pc[j]
      /\ UNCHANGED <<wiki, by, seen, doc, cancelled, saved, published, gen, page, stopping,
                     recalled>>
  BY Domains DEF IInv, Goto
<1>2. adm' = adm \/ (adm = i /\ adm' = None)
  BY DEF IInv, RunInv, RunOK
<1>3. ASSUME NEW j \in Request PROVE RunOK(j)'
  <2>1. RunOK(j)
    BY DEF IInv, RunInv
  <2>2. pc'[j] = "created" <=> adm' = j
    BY <1>1, <1>2, <2>1, Distinct DEF RunOK, Early, Submitting
  <2>3. CASE j = i
    BY <1>1, <2>1, <2>2, <2>3 DEF RunOK, Early
  <2>4. CASE j # i
    BY <1>1, <2>1, <2>2, <2>4 DEF RunOK
  <2> QED
    BY <2>3, <2>4
<1>4. ASSUME NEW w \in Wiki PROVE DocOK(w)'
  <2>1. DocOK(w)
    BY DEF IInv, DocInv
  <2>2. \A j \in Request : doc'[w].request = j => wiki'[j] = w /\ pc'[j] \in Begun
    BY <1>1, <2>1 DEF DocOK
  <2>3. doc'[w].status = "running" =>
          \E j \in Request : doc'[w].request = j /\ (gen' = j \/ pc'[j] \in {"lost", "dead"})
    BY <1>1, <2>1 DEF DocOK, Over
  <2> QED
    BY <1>1, <2>1, <2>2, <2>3 DEF DocOK
<1>5. ASSUME NEW j \in Request PROVE PendOK(j)'
  BY <1>1 DEF IInv, PendInv, PendOK
<1>6. ASSUME NEW j \in Request PROVE StopOK(j)'
  <2>1. StopOK(j) /\ (adm' = Stop => adm = Stop)
    BY <1>2, Distinct DEF IInv, StopInv
  <2>2. pc[j] = "queued" => (Current(j)' <=> Current(j))
    <3>1. pc[j] = "queued" => wiki[j] \in Wiki
      BY DEF IInv, RunInv, RunOK
    <3> QED
      BY <1>1, <3>1 DEF Current
  <2> QED
    BY <1>1, <2>1, <2>2 DEF StopOK, Over
<1> QED
  BY <1>3, <1>4, <1>5, <1>6 DEF RunInv, DocInv, PendInv, StopInv

LEMMA QuietActions ==
  ASSUME IInv, NEW i \in Request,
         \/ Refuse(i) \/ EnqueueFails(i) \/ Skip(i) \/ GiveUp(i) \/ MarkBusy(i)
         \/ Conclude(i) \/ Generate(i) \/ Halt(i)
  PROVE  RunInv' /\ DocInv' /\ PendInv' /\ StopInv'
<1> USE DEF store, Over, Early, Submitting, Running, Waiting, Begun
<1>1. CASE Refuse(i)
  BY <1>1, QuietStep DEF Refuse
<1>2. CASE EnqueueFails(i)
  BY <1>2, QuietStep DEF EnqueueFails
<1>3. CASE Skip(i)
  BY <1>3, QuietStep DEF Skip
<1>4. CASE GiveUp(i)
  BY <1>4, QuietStep DEF GiveUp
<1>5. CASE MarkBusy(i)
  <2>1. \A w \in Wiki : pend'[w].id = pend[w].id /\ pend'[w].rev = pend[w].rev
    BY <1>5 DEF MarkBusy, IInv, TypeOK, Pend
  <2> QED
    BY <1>5, <2>1, QuietStep DEF MarkBusy
<1>6. CASE Conclude(i)
  BY <1>6, QuietStep DEF Conclude
<1>7. CASE Generate(i)
  <2>1. PICK where \in {"valid", "invalid"} : Goto(i, where)
    BY <1>7 DEF Generate
  <2> QED
    BY <1>7, <2>1, QuietStep DEF Generate
<1>8. CASE Halt(i)
  BY <1>8, QuietStep DEF Halt
<1> QED
  BY <1>1, <1>2, <1>3, <1>4, <1>5, <1>6, <1>7, <1>8
-----------------------------------------------------------------------------
(* Submissions. *)

LEMMA AdmitStep ==
  ASSUME IInv, NEW i \in Request, NEW p \in Process, NEW w \in Wiki, Admit(i, p, w)
  PROVE  RunInv' /\ DocInv' /\ PendInv' /\ StopInv'
<1>1. /\ pc[i] = "new" /\ pc'[i] = "admitted" /\ wiki'[i] = w /\ by'[i] = p
      /\ \A j \in Request \ {i} : pc'[j] = pc[j] /\ wiki'[j] = wiki[j] /\ by'[j] = by[j]
      /\ UNCHANGED <<seen, doc, pend, cancelled, saved, published, gen, adm, page, stopping,
                     recalled>>
  BY Domains DEF Admit, Goto, store, IInv
<1>2. /\ i \notin recalled /\ gen # i /\ adm # i
      /\ \A v \in Wiki : doc[v].request # i /\ pend[v].id # i
      /\ i \notin cancelled
  BY <1>1 DEF IInv, RunInv, RunOK, StopInv, StopOK, DocInv, DocOK, PendInv, PendOK,
              Early, Begun, Running
<1>3. ASSUME NEW j \in Request PROVE RunOK(j)'
  BY <1>1, <1>2 DEF IInv, RunInv, RunOK, Running
<1>4. ASSUME NEW v \in Wiki PROVE DocOK(v)'
  BY <1>1, <1>2 DEF IInv, DocInv, DocOK
<1>5. ASSUME NEW j \in Request PROVE PendOK(j)'
  BY <1>1, <1>2 DEF IInv, PendInv, PendOK, Waiting
<1>6. ASSUME NEW j \in Request PROVE StopOK(j)'
  <2>1. CASE j = i
    <3>1. adm = Stop => stopping.wiki \in Wiki /\ stopping.request # i
      BY <1>1 DEF IInv, StopInv, StopOK, Begun, Running
    <3> QED
      BY <1>1, <1>2, <2>1, <3>1 DEF StopOK, Running
  <2>2. CASE j # i
    <3>1. Current(j)' <=> Current(j)
      BY <1>1, <2>2 DEF Current
    <3> QED
      BY <1>1, <2>2, <3>1 DEF IInv, StopInv, StopOK
  <2> QED
    BY <2>1, <2>2
<1> QED
  BY <1>3, <1>4, <1>5, <1>6 DEF RunInv, DocInv, PendInv, StopInv

LEMMA CreateStep ==
  ASSUME IInv, NEW i \in Request, Create(i)
  PROVE  RunInv' /\ DocInv' /\ PendInv' /\ StopInv'
<1> DEFINE w == wiki[i]
<1>1. w \in Wiki /\ pc[i] = "admitted" /\ adm = None /\ doc[w].status = "absent"
  BY DEF Create, IInv, RunInv, RunOK
<1>2. /\ \A j \in Request : pc'[j] = IF j = i THEN "created" ELSE pc[j]
      /\ adm' = i /\ doc'[w] = [doc[w] EXCEPT !.status = "queued"]
      /\ \A v \in Wiki \ {w} : doc'[v] = doc[v]
      /\ UNCHANGED <<wiki, by, seen, pend, cancelled, saved, published, gen, page, stopping,
                     recalled>>
  BY <1>1, Domains DEF Create, Goto, IInv
<1>3. /\ doc'[w].status = "queued" /\ doc'[w].rev = doc[w].rev
      /\ doc'[w].request = doc[w].request /\ doc'[w].pages = doc[w].pages
  BY <1>1, <1>2, Domains DEF IInv, Doc
<1>4. \A j \in Request : adm # j /\ adm' # Stop
  BY <1>1, <1>2, Distinct
<1>5. \A j \in Request : pc[j] \in Running => wiki[j] # w
  BY <1>1 DEF IInv, RunInv, RunOK
<1>6. ASSUME NEW j \in Request PROVE RunOK(j)'
  <2>1. RunOK(j)
    BY DEF IInv, RunInv
  <2>2. CASE j = i
    BY <1>1, <1>2, <1>3, <2>1, <2>2 DEF RunOK, Running
  <2>3. CASE j # i
    BY <1>2, <1>4, <1>5, <2>1, <2>3 DEF RunOK, Running
  <2> QED
    BY <2>2, <2>3
<1>7. ASSUME NEW v \in Wiki PROVE DocOK(v)'
  <2>1. DocOK(v)
    BY DEF IInv, DocInv
  <2>2. \A j \in Request : doc[v].request = j => j # i
    BY <1>1, <2>1 DEF DocOK, Begun, Running
  <2>3. CASE v = w
    BY <1>1, <1>2, <1>3, <2>1, <2>2, <2>3 DEF DocOK
  <2>4. CASE v # w
    BY <1>1, <1>2, <2>1, <2>2, <2>4 DEF DocOK
  <2> QED
    BY <2>3, <2>4
<1>8. ASSUME NEW j \in Request PROVE PendOK(j)'
  <2>1. PendOK(j) /\ (pc[j] \in Waiting => wiki[j] \in Wiki)
    BY DEF IInv, PendInv, RunInv, RunOK, Waiting
  <2>2. j = i => \A v \in Wiki : pend[v].id # j
    BY <1>1, <2>1 DEF PendOK, Early, Submitting
  <2> QED
    BY <1>2, <1>3, <2>1, <2>2 DEF PendOK, Waiting
<1>9. ASSUME NEW j \in Request PROVE StopOK(j)'
  <2>1. StopOK(j) /\ (pc[j] = "queued" => wiki[j] \in Wiki)
    BY DEF IInv, StopInv, RunInv, RunOK
  <2>2. pc[j] = "queued" => (Current(j)' <=> Current(j))
    BY <1>2, <1>3, <2>1 DEF Current
  <2>3. j = i => j \notin cancelled /\ j \notin recalled
    BY <1>1, <2>1 DEF StopOK, Early, Submitting
  <2> QED
    BY <1>2, <1>4, <2>1, <2>2, <2>3 DEF StopOK
<1> QED
  BY <1>6, <1>7, <1>8, <1>9 DEF RunInv, DocInv, PendInv, StopInv

LEMMA EnqueuedStep ==
  ASSUME IInv, NEW i \in Request, NEW where \in {"queued", "refused"}, Enqueued(i, where)
  PROVE  RunInv' /\ DocInv' /\ PendInv' /\ StopInv'
<1> DEFINE w == wiki[i]
<1>1. w \in Wiki /\ pc[i] \in Submitting /\ doc[w].status # "complete"
  BY DEF Enqueued, IInv, RunInv, RunOK, Submitting
<1>2. /\ \A j \in Request : pc'[j] = IF j = i THEN where ELSE pc[j]
      /\ adm' = None /\ pend'[w].id = i /\ pend'[w].rev = doc[w].rev
      /\ \A v \in Wiki \ {w} : pend'[v] = pend[v]
      /\ \A j \in Request : seen'[j] = IF j = i THEN doc[w].rev ELSE seen[j]
      /\ UNCHANGED <<wiki, by, doc, cancelled, saved, published, gen, page, stopping, recalled>>
  BY <1>1, Domains DEF Enqueued, Goto, IInv
<1>3. \A j \in Request \ {i} : pc[j] # "created"
  BY Distinct DEF Enqueued, IInv, RunInv, RunOK
<1>4. i \notin cancelled /\ i \notin recalled /\ \A v \in Wiki : doc[v].request # i
  BY <1>1 DEF IInv, StopInv, StopOK, DocInv, DocOK, Begun, Early, Submitting, Running
<1>5. adm' # Stop /\ \A j \in Request : adm' # j
  BY <1>2, Distinct
<1>6. ASSUME NEW j \in Request PROVE RunOK(j)'
  <2>1. RunOK(j)
    BY DEF IInv, RunInv
  <2>2. CASE j = i
    BY <1>1, <1>2, <1>5, <2>1, <2>2 DEF RunOK, Running, Submitting
  <2>3. CASE j # i
    BY <1>2, <1>3, <1>5, <2>1, <2>3 DEF RunOK
  <2> QED
    BY <2>2, <2>3
<1>7. ASSUME NEW v \in Wiki PROVE DocOK(v)'
  BY <1>2, <1>4 DEF IInv, DocInv, DocOK
<1>8. ASSUME NEW j \in Request PROVE PendOK(j)'
  <2>1. PendOK(j) /\ doc[w].rev \in Nat
    BY <1>1, Domains DEF IInv, PendInv
  <2>2. CASE j = i
    <3>1. \A v \in Wiki : pend[v].id # i
      BY <1>1, <2>1, <2>2 DEF PendOK, Early
    <3> QED
      BY <1>1, <1>2, <2>1, <2>2, <3>1 DEF PendOK, Early, Submitting, Waiting
  <2>3. CASE j # i
    BY <1>2, <2>1, <2>3 DEF PendOK
  <2> QED
    BY <2>2, <2>3
<1>9. ASSUME NEW j \in Request PROVE StopOK(j)'
  <2>1. StopOK(j) /\ (pc[j] = "queued" => wiki[j] \in Wiki)
    BY DEF IInv, StopInv, RunInv, RunOK
  <2>2. CASE j = i
    BY <1>2, <1>4, <1>5, <2>2 DEF StopOK
  <2>3. CASE j # i
    <3>1. pc[j] = "queued" /\ Current(j)' => Current(j)
      BY <1>2, <2>1, <2>3 DEF Current
    <3> QED
      BY <1>2, <1>5, <2>1, <2>3, <3>1 DEF StopOK
  <2> QED
    BY <2>2, <2>3
<1> QED
  BY <1>6, <1>7, <1>8, <1>9 DEF RunInv, DocInv, PendInv, StopInv
-----------------------------------------------------------------------------
(* Runs. *)

LEMMA BeginStep ==
  ASSUME IInv, NEW i \in Request, Begin(i)
  PROVE  RunInv' /\ DocInv' /\ PendInv' /\ StopInv'
<1> DEFINE w == wiki[i]
<1>1. /\ w \in Wiki /\ pc[i] = "queued" /\ gen = None /\ adm = None /\ Current(i)
      /\ doc[w].status # "complete"
  BY DEF Begin, IInv, RunInv, RunOK, PendInv, PendOK, Current, Waiting
<1>2. /\ \A j \in Request : pc'[j] = IF j = i THEN "begun" ELSE pc[j]
      /\ gen' = i /\ page' = 1
      /\ doc'[w].status = "running" /\ doc'[w].rev = doc[w].rev + 1
      /\ doc'[w].request = i /\ doc'[w].pages = doc[w].pages
      /\ \A v \in Wiki \ {w} : doc'[v] = doc[v]
      /\ UNCHANGED <<wiki, by, seen, pend, cancelled, saved, published, adm, stopping, recalled>>
  <2>1. /\ doc' = [doc EXCEPT ![w].rev = @ + 1, ![w].status = "running", ![w].request = i]
        /\ pc' = [pc EXCEPT ![i] = "begun"] /\ gen' = i /\ page' = 1
        /\ UNCHANGED <<wiki, by, seen, pend, cancelled, saved, published, adm, stopping,
                       recalled>>
    BY DEF Begin, Goto
  <2>2. \A j \in Request : pc'[j] = IF j = i THEN "begun" ELSE pc[j]
    BY <2>1, Domains DEF IInv
  <2>3. /\ doc'[w].status = "running" /\ doc'[w].rev = doc[w].rev + 1
        /\ doc'[w].request = i /\ doc'[w].pages = doc[w].pages
    BY <1>1, <2>1, Domains DEF IInv, Doc
  <2>4. \A v \in Wiki \ {w} : doc'[v] = doc[v]
    BY <1>1, <2>1, Domains DEF IInv
  <2> QED
    BY <2>1, <2>2, <2>3, <2>4
<1>3. doc[w].rev \in Nat /\ doc'[w].rev = doc[w].rev + 1
  BY <1>1, <1>2, Domains DEF IInv
<1>4. \A j \in Request : pc[j] \notin Running /\ pc[j] # "created"
  BY <1>1, Distinct DEF IInv, RunInv, RunOK
<1>5. ASSUME NEW j \in Request PROVE RunOK(j)'
  <2>1. RunOK(j)
    BY DEF IInv, RunInv
  <2>2. CASE j = i
    BY <1>1, <1>2, <1>3, <1>4, <2>1, <2>2, Distinct DEF RunOK, Running
  <2>3. CASE j # i
    BY <1>1, <1>2, <1>4, <2>1, <2>3, Distinct DEF RunOK, Running
  <2> QED
    BY <2>2, <2>3
<1>6. ASSUME NEW v \in Wiki PROVE DocOK(v)'
  <2>1. DocOK(v)
    BY DEF IInv, DocInv
  <2>2. CASE v = w
    BY <1>1, <1>2, <1>3, <2>1, <2>2 DEF DocOK, Begun, Running
  <2>3. CASE v # w
    <3>1. \A j \in Request : doc[v].request = j => j # i
      BY <1>1, <2>1, <2>3 DEF DocOK
    <3>2. \A j \in Request : gen # j
      BY <1>1, Distinct
    <3> QED
      BY <1>2, <2>1, <2>3, <3>1, <3>2 DEF DocOK
  <2> QED
    BY <2>2, <2>3
<1>7. ASSUME NEW j \in Request PROVE PendOK(j)'
  <2>1. PendOK(j) /\ seen[j] \in Nat
    BY Domains DEF IInv, PendInv
  <2>2. pc'[j] \in Waiting => wiki[j] \in Wiki /\ pc[j] \in Waiting
    BY <1>2 DEF IInv, RunInv, RunOK, Waiting
  <2>3. pc'[j] \in Waiting => /\ seen'[j] <= doc'[wiki[j]].rev
                              /\ wiki[j] = w => seen'[j] # doc'[w].rev
    <3>1. pc'[j] \in Waiting => seen[j] <= doc[wiki[j]].rev /\ seen'[j] = seen[j]
      BY <1>2, <2>1, <2>2 DEF PendOK
    <3>2. pc'[j] \in Waiting /\ wiki[j] = w => seen[j] < doc'[w].rev
      BY <1>3, <2>1, <3>1
    <3>3. pc'[j] \in Waiting /\ wiki[j] # w => doc'[wiki[j]] = doc[wiki[j]]
      BY <1>2, <2>2
    <3> QED
      BY <1>3, <2>1, <3>1, <3>2, <3>3
  <2>4. \A v \in Wiki : pend'[v].id = j =>
          wiki'[j] = v /\ pend'[v].rev = seen'[j] /\ pc'[j] \notin Early
    BY <1>2, <2>1 DEF PendOK, Early, Submitting
  <2> QED
    <3>1. pc'[j] \in Waiting /\ wiki[j] # w => doc'[wiki[j]] = doc[wiki[j]]
      BY <1>2, <2>2
    <3>2. wiki'[j] = wiki[j] /\ seen'[j] = seen[j]
      BY <1>2
    <3>3. pc[j] \in Waiting /\ seen[j] = doc[wiki[j]].rev => doc[wiki[j]].status # "complete"
      BY <2>1 DEF PendOK
    <3>4. ASSUME pc'[j] \in Waiting, seen'[j] = doc'[wiki[j]].rev
          PROVE  doc'[wiki[j]].status # "complete"
      <4>1. wiki[j] # w
        BY <2>3, <3>4
      <4> QED
        BY <2>2, <3>1, <3>2, <3>3, <3>4, <4>1
    <3>5. pc'[j] \in Waiting => seen'[j] <= doc'[wiki'[j]].rev
      BY <2>3, <3>2
    <3> HIDE DEF w
    <3> QED
      BY <2>4, <3>2, <3>4, <3>5 DEF PendOK
<1>8. ASSUME NEW j \in Request PROVE StopOK(j)'
  <2>1. StopOK(j) /\ (pc[j] = "queued" => wiki[j] \in Wiki) /\ adm' # Stop
    BY <1>1, <1>2, Distinct DEF IInv, StopInv, RunInv, RunOK
  <2>2. CASE j = i
    BY <1>1, <1>2, <2>1, <2>2 DEF StopOK, Early, Submitting
  <2>3. CASE j # i
    <3>1. pc[j] = "queued" /\ Current(j)' => Current(j)
      BY <1>1, <1>2, <2>1, <2>3 DEF Current
    <3> QED
      BY <1>2, <2>1, <2>3, <3>1 DEF StopOK
  <2> QED
    BY <2>2, <2>3
<1> QED
  BY <1>5, <1>6, <1>7, <1>8 DEF RunInv, DocInv, PendInv, StopInv

\* A run is at work on its Wiki's pages.
LEMMA WorkStep ==
  ASSUME IInv, NEW i \in Request, NEW where \in Running, Goto(i, where), pc[i] \in Running,
         UNCHANGED <<wiki, by, seen, pend, cancelled, published, gen, adm, stopping, recalled>>,
         \A v \in Wiki : /\ doc'[v].status = doc[v].status /\ doc'[v].rev = doc[v].rev
                         /\ doc'[v].request = doc[v].request
                         /\ saved[v] \subseteq saved'[v]
                         /\ v # wiki[i] => doc'[v].pages = doc[v].pages,
         \A k \in Page : doc'[wiki[i]].pages[k] = "ready" => k \in saved'[wiki[i]],
         where \in {"generating", "valid", "invalid", "published"} => page' \in Page,
         where = "published" => page' \in saved'[wiki[i]]
  PROVE  RunInv' /\ DocInv' /\ PendInv' /\ StopInv'
<1>1. \A j \in Request : pc'[j] = IF j = i THEN where ELSE pc[j]
  BY Domains DEF Goto, IInv
<1>2. /\ \A j \in Request \ {i} : pc[j] \notin Running
      /\ wiki[i] \in Wiki /\ doc[wiki[i]].status = "running" /\ wiki[i] \notin published
  BY DEF IInv, RunInv, RunOK, DocInv, DocOK, Running
<1>3. ASSUME NEW j \in Request PROVE RunOK(j)'
  <2>1. RunOK(j)
    BY DEF IInv, RunInv
  <2>2. CASE j = i
    BY <1>1, <1>2, <2>1, <2>2 DEF RunOK, Running
  <2>3. CASE j # i
    BY <1>1, <1>2, <2>1, <2>3 DEF RunOK, Running
  <2> QED
    BY <2>2, <2>3
<1>4. ASSUME NEW v \in Wiki PROVE DocOK(v)'
  <2>1. DocOK(v)
    BY DEF IInv, DocInv
  <2>2. \A j \in Request : doc'[v].request = j => wiki'[j] = v /\ pc'[j] \in Begun
    BY <1>1, <2>1 DEF DocOK, Begun
  <2>3. doc'[v].status = "running" =>
          \E j \in Request : doc'[v].request = j /\ (gen' = j \/ pc'[j] \in {"lost", "dead"})
    BY <1>1, <2>1 DEF DocOK, Running
  <2>4. \A k \in Page : doc'[v].pages[k] = "ready" => k \in saved'[v]
    BY <2>1 DEF DocOK
  <2>5. v \in published' => doc'[v].status = "complete"
                             /\ \A k \in Page : doc'[v].pages[k] = "ready"
    BY <1>2, <2>1 DEF DocOK
  <2> QED
    BY <2>2, <2>3, <2>4, <2>5 DEF DocOK
<1>5. ASSUME NEW j \in Request PROVE PendOK(j)'
  <2>1. PendOK(j) /\ (pc[j] \in Waiting => wiki[j] \in Wiki)
    BY DEF IInv, PendInv, RunInv, RunOK, Waiting
  <2> QED
    BY <1>1, <2>1 DEF PendOK, Waiting, Early, Submitting, Running
<1>6. ASSUME NEW j \in Request PROVE StopOK(j)'
  <2>1. StopOK(j) /\ (pc[j] = "queued" => wiki[j] \in Wiki)
    BY DEF IInv, StopInv, RunInv, RunOK
  <2>2. pc[j] = "queued" => (Current(j)' <=> Current(j))
    BY <2>1 DEF Current
  <2>3. CASE j = i
    BY <1>1, <1>2, <2>1, <2>3 DEF StopOK, Running, Begun, Early, Submitting
  <2>4. CASE j # i
    BY <1>1, <2>1, <2>2, <2>4 DEF StopOK
  <2> QED
    BY <2>3, <2>4
<1> QED
  BY <1>3, <1>4, <1>5, <1>6 DEF RunInv, DocInv, PendInv, StopInv

LEMMA WorkActions ==
  ASSUME IInv, NEW i \in Request, Check(i) \/ Publish(i) \/ Note(i)
  PROVE  RunInv' /\ DocInv' /\ PendInv' /\ StopInv'
<1> DEFINE w == wiki[i]
<1>1. /\ RunOK(i) /\ pc[i] \in Running /\ w \in Wiki /\ DocOK(w)
  <2>1. pc[i] \in Running /\ RunOK(i)
    BY DEF Check, Publish, Note, Running, IInv, RunInv
  <2> QED
    BY <2>1 DEF RunOK, Running, IInv, DocInv
<1>2. /\ doc[w] \in Doc /\ doc[w].pages = [k \in Page |-> doc[w].pages[k]]
  BY <1>1, Domains DEF IInv, Doc
<1>3. CASE Check(i)
  <2>1. PICK where \in {"valid", "generating"} :
          /\ Goto(i, where)
          /\ UNCHANGED doc \/ doc' = [doc EXCEPT ![w].pages[page] = "running"]
    BY <1>3 DEF Check
  <2>2. /\ UNCHANGED <<wiki, by, seen, pend, cancelled, published, gen, adm, stopping, recalled,
                       saved, page>>
        /\ page \in Page
    BY <1>3 DEF Check
  <2>3. /\ \A v \in Wiki : /\ doc'[v].status = doc[v].status /\ doc'[v].rev = doc[v].rev
                           /\ doc'[v].request = doc[v].request
                           /\ v # w => doc'[v].pages = doc[v].pages
        /\ \A k \in Page : doc'[w].pages[k] = "ready" => doc[w].pages[k] = "ready"
    BY <1>1, <1>2, <2>1, <2>2, Domains DEF IInv, Doc
  <2>4. \A k \in Page : doc'[w].pages[k] = "ready" => k \in saved'[w]
    BY <1>1, <2>2, <2>3 DEF DocOK
  <2>5. where \in Running /\ where # "published"
    BY DEF Running
  <2> QED
    BY <1>1, <2>1, <2>2, <2>3, <2>4, <2>5, WorkStep
<1>4. CASE Publish(i)
  <2>1. /\ Goto(i, "published") /\ saved' = [saved EXCEPT ![w] = @ \cup {page}]
        /\ UNCHANGED <<wiki, by, seen, pend, cancelled, published, gen, adm, stopping, recalled,
                       doc, page>>
        /\ page \in Page
    BY <1>1, <1>4 DEF Publish, RunOK
  <2>2. /\ \A v \in Wiki : saved[v] \subseteq saved'[v]
        /\ page \in saved'[w]
    BY <1>1, <2>1, Domains DEF IInv
  <2>3. \A k \in Page : doc'[w].pages[k] = "ready" => k \in saved'[w]
    BY <1>1, <2>1, <2>2 DEF DocOK
  <2>4. "published" \in Running
    BY DEF Running
  <2> QED
    BY <1>1, <2>1, <2>2, <2>3, <2>4, WorkStep
<1>5. CASE Note(i)
  <2>1. PICK mark \in {"ready", "review"} :
          /\ doc' = [doc EXCEPT ![w].pages[page] = mark]
          /\ mark = "ready" => pc[i] = "published"
    BY <1>5 DEF Note
  <2>2. /\ Goto(i, "begun")
        /\ UNCHANGED <<wiki, by, seen, pend, cancelled, published, gen, adm, stopping, recalled,
                       saved>>
        /\ page \in Page
    BY <1>1, <1>5 DEF Note, RunOK
  <2>3. /\ \A v \in Wiki : /\ doc'[v].status = doc[v].status /\ doc'[v].rev = doc[v].rev
                           /\ doc'[v].request = doc[v].request
                           /\ v # w => doc'[v].pages = doc[v].pages
        /\ \A k \in Page : doc'[w].pages[k] = IF k = page THEN mark ELSE doc[w].pages[k]
    BY <1>1, <1>2, <2>1, <2>2, Domains DEF IInv, Doc
  <2>4. \A k \in Page : doc'[w].pages[k] = "ready" => k \in saved'[w]
    BY <1>1, <2>1, <2>2, <2>3 DEF DocOK, RunOK
  <2>5. "begun" \in Running
    BY DEF Running
  <2> QED
    BY <1>1, <2>2, <2>3, <2>4, <2>5, WorkStep
<1> QED
  BY <1>3, <1>4, <1>5

LEMMA FinishStep ==
  ASSUME IInv, NEW i \in Request, Finish(i)
  PROVE  RunInv' /\ DocInv' /\ PendInv' /\ StopInv'
<1> DEFINE w == wiki[i]
<1>1. /\ pc[i] \in Running /\ w \in Wiki /\ gen = i /\ doc[w].status = "running"
      /\ doc[w].request = i /\ w \notin published /\ doc[w].rev \in Nat
  <2>1. pc[i] \in Running
    BY DEF Finish, Running
  <2>2. /\ w \in Wiki /\ gen = i /\ doc[w].status = "running" /\ doc[w].request = i
    BY <2>1 DEF IInv, RunInv, RunOK, Running
  <2>3. w \notin published
    BY <2>2 DEF IInv, DocInv, DocOK
  <2> QED
    BY <2>1, <2>2, <2>3, Domains DEF IInv
<1>2. /\ \A j \in Request : pc'[j] = IF j = i THEN "done" ELSE pc[j]
      /\ gen' = None /\ \A v \in Wiki \ {w} : doc'[v] = doc[v]
      /\ UNCHANGED <<wiki, by, seen, pend, cancelled, saved, published, adm, page, stopping,
                     recalled>>
  BY <1>1, Domains DEF Finish, Goto, IInv
<1>3. /\ doc'[w].status \in {"complete", "partial"} /\ doc'[w].rev = doc[w].rev + 1
      /\ doc'[w].request = i
      /\ \A k \in Page : doc'[w].pages[k] = "ready" => doc[w].pages[k] = "ready"
  <2>1. /\ doc' = [doc EXCEPT ![w].rev = @ + 1, ![w].status = Outcome(i),
                              ![w].pages = Settled(@)]
        /\ doc[w] \in Doc
    BY <1>1, Domains DEF Finish, IInv
  <2>2. /\ doc'[w].status = Outcome(i) /\ doc'[w].rev = doc[w].rev + 1
        /\ doc'[w].request = doc[w].request /\ doc'[w].pages = Settled(doc[w].pages)
    BY <1>1, <2>1, Domains DEF IInv, Doc
  <2> QED
    BY <1>1, <2>2 DEF Outcome, Settled
<1>4. \A j \in Request \ {i} : pc[j] \notin Running
  BY <1>1 DEF IInv, RunInv, RunOK
<1>5. ASSUME NEW j \in Request PROVE RunOK(j)'
  <2>1. RunOK(j)
    BY DEF IInv, RunInv
  <2>2. CASE j = i
    BY <1>1, <1>2, <2>1, <2>2, Distinct DEF RunOK, Running
  <2>3. CASE j # i
    BY <1>1, <1>2, <1>4, <2>1, <2>3, Distinct DEF RunOK, Running
  <2> QED
    BY <2>2, <2>3
<1>6. ASSUME NEW v \in Wiki PROVE DocOK(v)'
  <2>1. DocOK(v) /\ DocOK(w)
    BY <1>1 DEF IInv, DocInv
  <2>2. CASE v = w
    BY <1>1, <1>2, <1>3, <2>1, <2>2 DEF DocOK, Begun
  <2>3. CASE v # w
    <3>1. \A j \in Request : doc[v].request = j => j # i
      BY <2>1, <2>3 DEF DocOK
    <3> QED
      BY <1>1, <1>2, <2>1, <2>3, <3>1 DEF DocOK
  <2> QED
    BY <2>2, <2>3
<1>7. ASSUME NEW j \in Request PROVE seen[j] \in Nat /\ PendOK(j) /\ RunOK(j)
  BY Domains DEF IInv, PendInv, RunInv
<1>8. ASSUME NEW j \in Request, pc'[j] \in Waiting
      PROVE  /\ wiki[j] \in Wiki /\ pc[j] \in Waiting /\ seen[j] <= doc'[wiki[j]].rev
             /\ wiki[j] = w => seen[j] < doc'[w].rev
  <2>1. pc[j] \in Waiting /\ wiki[j] \in Wiki /\ seen[j] <= doc[wiki[j]].rev
    BY <1>2, <1>7, <1>8 DEF Waiting, RunOK, PendOK
  <2>2. wiki[j] = w => seen[j] < doc'[w].rev
    BY <1>1, <1>3, <1>7, <2>1
  <2>3. wiki[j] # w => doc'[wiki[j]] = doc[wiki[j]]
    BY <1>2, <2>1
  <2> QED
    BY <1>1, <1>3, <1>7, <2>1, <2>2, <2>3
<1>9. ASSUME NEW j \in Request PROVE PendOK(j)'
  <2>1. \A v \in Wiki : pend'[v].id = j =>
          wiki'[j] = v /\ pend'[v].rev = seen'[j] /\ pc'[j] \notin Early
    BY <1>2, <1>7 DEF PendOK, Early, Submitting
  <2>2. pc'[j] \in Waiting => /\ seen'[j] <= doc'[wiki'[j]].rev
                              /\ seen'[j] = doc'[wiki'[j]].rev => doc'[wiki'[j]].status # "complete"
    <3> SUFFICES ASSUME pc'[j] \in Waiting
                 PROVE  /\ seen[j] <= doc'[wiki[j]].rev
                        /\ seen[j] = doc'[wiki[j]].rev => doc'[wiki[j]].status # "complete"
      BY <1>2
    <3>1. CASE wiki[j] = w
      BY <1>1, <1>3, <1>7, <1>8, <3>1
    <3>2. CASE wiki[j] # w
      BY <1>2, <1>7, <1>8, <3>2 DEF PendOK
    <3> QED
      BY <3>1, <3>2
  <2> QED
    BY <2>1, <2>2 DEF PendOK
<1>10. ASSUME NEW j \in Request PROVE StopOK(j)'
  <2>1. StopOK(j) /\ stopping.rev \in Nat
    BY DEF IInv, StopInv, TypeOK
  <2>2. CASE j = i
    BY <1>1, <1>2, <2>1, <2>2 DEF StopOK, Running, Begun, Early, Submitting
  <2>3. CASE j # i
    <3>1. pc[j] = "queued" => wiki[j] \in Wiki /\ pc'[j] \in Waiting
      BY <1>2, <1>7, <2>3 DEF RunOK, Waiting
    <3>2. pc[j] = "queued" /\ wiki[j] = w => seen[j] < doc'[w].rev
      BY <1>8, <3>1
    <3>3. pc[j] = "queued" /\ Current(j)' => Current(j)
      <4>1. pc[j] = "queued" /\ seen[j] = doc'[wiki[j]].rev => wiki[j] # w
        BY <1>1, <1>3, <1>7, <3>2
      <4> QED
        BY <1>2, <3>1, <4>1 DEF Current
    <3>4. pc[j] = "queued" /\ stopping.rev <= doc[wiki[j]].rev => stopping.rev <= doc'[wiki[j]].rev
      BY <1>1, <1>2, <1>3, <2>1, <3>1
    <3> QED
      BY <1>2, <2>1, <2>3, <3>3, <3>4 DEF StopOK
  <2> QED
    BY <2>2, <2>3
<1> QED
  BY <1>5, <1>6, <1>9, <1>10 DEF RunInv, DocInv, PendInv, StopInv

LEMMA LostStep ==
  ASSUME IInv, NEW i \in Request, ConnectFails(i) \/ FinishFails(i)
  PROVE  RunInv' /\ DocInv' /\ PendInv' /\ StopInv'
<1>1. pc[i] \in Running /\ gen = i
  <2>1. pc[i] \in Running
    BY DEF ConnectFails, FinishFails, Running
  <2> QED
    BY <2>1 DEF IInv, RunInv, RunOK
<1>2. /\ \A j \in Request : pc'[j] = IF j = i THEN "lost" ELSE pc[j]
      /\ gen' = None
      /\ UNCHANGED <<wiki, by, seen, doc, pend, cancelled, saved, published, adm, page, stopping,
                     recalled>>
  BY Domains DEF ConnectFails, FinishFails, Goto, store, IInv
<1>3. ASSUME NEW j \in Request PROVE RunOK(j)'
  <2>1. RunOK(j)
    BY DEF IInv, RunInv
  <2>2. CASE j = i
    BY <1>1, <1>2, <2>1, <2>2, Distinct DEF RunOK, Running
  <2>3. CASE j # i
    BY <1>1, <1>2, <2>1, <2>3, Distinct DEF RunOK
  <2> QED
    BY <2>2, <2>3
<1>4. ASSUME NEW v \in Wiki PROVE DocOK(v)'
  BY <1>1, <1>2 DEF IInv, DocInv, DocOK, Begun
<1>5. ASSUME NEW j \in Request PROVE PendOK(j)'
  BY <1>1, <1>2 DEF IInv, PendInv, PendOK, Waiting, Early, Submitting
<1>6. ASSUME NEW j \in Request PROVE StopOK(j)'
  <2>1. StopOK(j) /\ (Current(j)' <=> Current(j))
    BY <1>2 DEF IInv, StopInv, Current
  <2>2. CASE j = i
    BY <1>1, <1>2, <2>1, <2>2 DEF StopOK, Running, Begun, Early, Submitting
  <2>3. CASE j # i
    BY <1>2, <2>1, <2>3 DEF StopOK
  <2> QED
    BY <2>2, <2>3
<1> QED
  BY <1>3, <1>4, <1>5, <1>6 DEF RunInv, DocInv, PendInv, StopInv
-----------------------------------------------------------------------------
(* Stops, publication, the end of a process. *)

LEMMA CancelReadStep ==
  ASSUME IInv, NEW w \in Wiki, CancelRead(w)
  PROVE  RunInv' /\ DocInv' /\ PendInv' /\ StopInv'
<1>1. /\ adm = None /\ adm' = Stop
      /\ stopping'.wiki = w /\ stopping'.request = doc[w].request /\ stopping'.rev = doc[w].rev
      /\ UNCHANGED <<pc, wiki, by, seen, doc, pend, cancelled, saved, published, gen, page,
                     recalled>>
  BY DEF CancelRead, request, store
<1>2. doc[w].rev \in Nat /\ \A j \in Request : adm # j /\ adm' # j
  BY <1>1, Domains, Distinct DEF IInv
<1>3. ASSUME NEW j \in Request PROVE RunOK(j)'
  BY <1>1, <1>2 DEF IInv, RunInv, RunOK
<1>4. DocInv' /\ PendInv'
  BY <1>1 DEF IInv, DocInv, DocOK, PendInv, PendOK
<1>5. ASSUME NEW j \in Request PROVE StopOK(j)'
  <2>1. StopOK(j) /\ PendOK(j) /\ RunOK(j) /\ DocOK(w) /\ (Current(j)' <=> Current(j))
    BY <1>1 DEF IInv, StopInv, PendInv, RunInv, DocInv, Current
  <2>2. doc[w].request = j => wiki[j] = w /\ pc[j] \in Begun
    BY <2>1 DEF DocOK
  <2>3. wiki[j] = w /\ pc[j] \in Running => doc[w].request = j
    BY <2>1 DEF RunOK
  <2>4. wiki[j] = w /\ pc[j] = "queued" => seen[j] <= doc[w].rev /\ doc[w].rev <= doc[w].rev
    BY <1>2, <2>1 DEF PendOK, Waiting
  <2> QED
    BY <1>1, <2>1, <2>2, <2>3, <2>4 DEF StopOK
<1> QED
  BY <1>3, <1>4, <1>5 DEF RunInv, StopInv

LEMMA CancelWriteStep ==
  ASSUME IInv, CancelWrite
  PROVE  RunInv' /\ DocInv' /\ PendInv' /\ StopInv'
<1> DEFINE w == stopping.wiki
<1>1. /\ adm = Stop /\ adm' = None
      /\ cancelled' = cancelled \cup Targets(w) /\ recalled' = recalled \cup Submitted(w)
      /\ UNCHANGED <<pc, wiki, by, seen, doc, pend, saved, published, gen, page>>
  BY DEF CancelWrite, request
<1>2. \A j \in Request : adm # j /\ adm' # j /\ adm' # Stop
  BY <1>1, Distinct
<1>3. ASSUME NEW j \in Request PROVE RunOK(j)'
  BY <1>1, <1>2 DEF IInv, RunInv, RunOK
<1>4. DocInv' /\ PendInv'
  BY <1>1 DEF IInv, DocInv, DocOK, PendInv, PendOK
<1>5. ASSUME NEW j \in Request PROVE StopOK(j)'
  <2>1. /\ StopOK(j) /\ PendOK(j) /\ RunOK(j) /\ (Current(j)' <=> Current(j))
        /\ w \in Wiki /\ seen[j] \in Nat /\ stopping.rev \in Nat
    BY <1>1, Domains DEF IInv, StopInv, StopOK, PendInv, RunInv, Current, TypeOK
  <2>2. j \in Targets(w) => j \in Submitted(w) \/ pc[j] = "refused"
    <3>1. stopping.request = j => wiki[j] = w /\ pc[j] \in Begun
      BY <1>1, <2>1 DEF StopOK
    <3>2. pend[w].id = j => wiki[j] = w /\ pc[j] \notin Early
      BY <2>1 DEF PendOK
    <3> QED
      BY <3>1, <3>2 DEF Targets, Submitted, Begun, Running, Early, Submitting
  <2>3. ASSUME j \in Submitted(w)
        PROVE  /\ pc[j] \notin Early
               /\ pc[j] \in Running => j \in Targets(w)
               /\ pc[j] = "queued" /\ Current(j) => j \in Targets(w)
    <3>1. wiki[j] = w /\ pc[j] \notin Submitting
      BY <2>3 DEF Submitted
    <3>2. pc[j] # "new"
      BY <2>1, <3>1, Distinct DEF RunOK
    <3>3. pc[j] \in Running => stopping.request = j
      BY <1>1, <2>1, <3>1 DEF StopOK
    <3>4. pc[j] = "queued" /\ Current(j) => pend[w].id = j /\ pend[w].rev = stopping.rev
      <4> SUFFICES ASSUME pc[j] = "queued", Current(j)
                   PROVE  pend[w].id = j /\ pend[w].rev = stopping.rev
        OBVIOUS
      <4>1. pend[w].id = j /\ seen[j] = doc[w].rev
        BY <3>1 DEF Current
      <4>2. pend[w].rev = seen[j]
        BY <2>1, <4>1 DEF PendOK
      <4>3. seen[j] <= stopping.rev /\ stopping.rev <= doc[w].rev
        BY <1>1, <2>1, <3>1 DEF StopOK
      <4> QED
        BY <2>1, <4>1, <4>2, <4>3
    <3> QED
      BY <3>1, <3>2, <3>3, <3>4, Distinct DEF Early, Targets
  <2> QED
    BY <1>1, <1>2, <2>1, <2>2, <2>3 DEF StopOK
<1> QED
  BY <1>3, <1>4, <1>5 DEF RunInv, StopInv

\* A stop that fails has reached some of the requests an accepted one reaches.
LEMMA CancelFailsStep ==
  ASSUME IInv, CancelFails
  PROVE  RunInv' /\ DocInv' /\ PendInv' /\ StopInv'
<1> DEFINE w == stopping.wiki
<1>1. PICK written \in SUBSET Targets(w) :
        cancelled' = cancelled \cup written /\ recalled' = recalled \cup written
  BY DEF CancelFails
<1>2. /\ adm = Stop /\ adm' = None
      /\ UNCHANGED <<pc, wiki, by, seen, doc, pend, saved, published, gen, page>>
  BY DEF CancelFails, request
<1>3. \A j \in Request : adm # j /\ adm' # j /\ adm' # Stop
  BY <1>2, Distinct
<1>4. ASSUME NEW j \in Request PROVE RunOK(j)'
  BY <1>2, <1>3 DEF IInv, RunInv, RunOK
<1>5. DocInv' /\ PendInv'
  BY <1>2 DEF IInv, DocInv, DocOK, PendInv, PendOK
<1>6. ASSUME NEW j \in Request PROVE StopOK(j)'
  <2>1. StopOK(j) /\ PendOK(j) /\ w \in Wiki /\ (Current(j)' <=> Current(j))
    BY <1>2 DEF IInv, StopInv, StopOK, PendInv, Current
  <2>2. j \in Targets(w) => pc[j] \notin Early
    <3>1. stopping.request = j => pc[j] \in Begun
      BY <1>2, <2>1 DEF StopOK
    <3>2. pend[w].id = j => pc[j] \notin Early
      BY <2>1 DEF PendOK
    <3> QED
      BY <3>1, <3>2 DEF Targets, Begun, Running, Early, Submitting
  <2> QED
    BY <1>1, <1>2, <1>3, <2>1, <2>2 DEF StopOK
<1> QED
  BY <1>4, <1>5, <1>6 DEF RunInv, StopInv

\* A Wiki is published or withdrawn, a server starts to shut down.
LEMMA FrameStep ==
  ASSUME IInv,
         UNCHANGED <<pc, wiki, by, seen, doc, pend, cancelled, saved, gen, page, recalled>>,
         \/ UNCHANGED <<adm, stopping>>
         \/ adm = Stop /\ adm' = None,
         \A w \in Wiki : w \in published' =>
           \/ w \in published
           \/ doc[w].status = "complete" /\ \A k \in Page : doc[w].pages[k] = "ready"
  PROVE  RunInv' /\ DocInv' /\ PendInv' /\ StopInv'
<1>1. \A j \in Request : adm' = j <=> adm = j
  BY Distinct
<1>2. ASSUME NEW j \in Request PROVE RunOK(j)'
  BY <1>1 DEF IInv, RunInv, RunOK
<1>3. ASSUME NEW w \in Wiki PROVE DocOK(w)'
  BY DEF IInv, DocInv, DocOK
<1>4. PendInv'
  BY DEF IInv, PendInv, PendOK
<1>5. ASSUME NEW j \in Request PROVE StopOK(j)'
  <2>1. StopOK(j) /\ (Current(j)' <=> Current(j))
    BY DEF IInv, StopInv, Current
  <2>2. adm' = Stop => UNCHANGED <<adm, stopping>>
    BY Distinct
  <2> QED
    BY <2>1, <2>2 DEF StopOK
<1> QED
  BY <1>2, <1>3, <1>4, <1>5 DEF RunInv, DocInv, StopInv

LEMMA DieStep ==
  ASSUME IInv, NEW p \in Process, Die(p)
  PROVE  RunInv' /\ DocInv' /\ PendInv' /\ StopInv'
<1> DEFINE mine == {i \in Request : by[i] = p /\ pc[i] \notin Over}
<1>1. /\ \A j \in Request : pc'[j] = IF j \in mine THEN "dead" ELSE pc[j]
      /\ gen' = IF gen \in mine THEN None ELSE gen
      /\ adm' = IF adm \in mine THEN None ELSE adm
      /\ UNCHANGED <<wiki, by, seen, doc, pend, cancelled, saved, published, page, stopping,
                     recalled>>
  BY DEF Die, store
<1>2. \A j \in mine : pc[j] \notin Over \cup {"new"}
  BY Distinct DEF IInv, RunInv, RunOK
<1> HIDE DEF mine
<1>3. ASSUME NEW j \in Request
      PROVE  /\ gen' = j <=> (gen = j /\ j \notin mine)
             /\ adm' = j <=> (adm = j /\ j \notin mine)
  BY <1>1, Distinct
<1>4. ASSUME NEW j \in Request PROVE RunOK(j)'
  <2>1. RunOK(j)
    BY DEF IInv, RunInv
  <2>2. CASE j \in mine
    BY <1>1, <1>2, <1>3, <2>1, <2>2 DEF RunOK, Running
  <2>3. CASE j \notin mine
    BY <1>1, <1>3, <2>1, <2>3 DEF RunOK
  <2> QED
    BY <2>2, <2>3
<1>5. ASSUME NEW w \in Wiki PROVE DocOK(w)'
  <2>1. DocOK(w)
    BY DEF IInv, DocInv
  <2>2. \A j \in Request : doc'[w].request = j => wiki'[j] = w /\ pc'[j] \in Begun
    BY <1>1, <2>1 DEF DocOK, Begun
  <2>3. doc'[w].status = "running" =>
          \E j \in Request : doc'[w].request = j /\ (gen' = j \/ pc'[j] \in {"lost", "dead"})
    <3> SUFFICES ASSUME doc[w].status = "running"
                 PROVE  \E j \in Request : doc[w].request = j
                                            /\ (gen' = j \/ pc'[j] \in {"lost", "dead"})
      BY <1>1
    <3>1. PICK j \in Request : doc[w].request = j /\ (gen = j \/ pc[j] \in {"lost", "dead"})
      BY <2>1 DEF DocOK
    <3> QED
      BY <1>1, <1>3, <3>1
  <2> QED
    BY <1>1, <2>1, <2>2, <2>3 DEF DocOK
<1>6. ASSUME NEW j \in Request PROVE PendOK(j)'
  BY <1>1 DEF IInv, PendInv, PendOK, Waiting, Early, Submitting
<1>7. ASSUME NEW j \in Request PROVE StopOK(j)'
  <2>1. StopOK(j) /\ (Current(j)' <=> Current(j))
    BY <1>1 DEF IInv, StopInv, Current
  <2>2. adm' = Stop => adm = Stop
    BY <1>1, Distinct
  <2>3. CASE j \in mine
    BY <1>1, <1>2, <2>1, <2>2, <2>3 DEF StopOK, Running, Begun, Early, Submitting, Over
  <2>4. CASE j \notin mine
    BY <1>1, <2>1, <2>2, <2>4 DEF StopOK
  <2> QED
    BY <2>3, <2>4
<1> QED
  BY <1>4, <1>5, <1>6, <1>7 DEF RunInv, DocInv, PendInv, StopInv

LEMMA StepIInv ==
  ASSUME IInv, Next
  PROVE  RunInv' /\ DocInv' /\ PendInv' /\ StopInv'
<1>1. CASE \E i \in Request : Submission(i)
  <2>1. PICK i \in Request : Submission(i)
    BY <1>1
  <2>2. CASE Enqueue(i) \/ EnqueueUnanswered(i)
    BY <2>2, EnqueuedStep DEF Enqueue, EnqueueUnanswered
  <2>3. CASE DispatchFails(i)
    BY <2>3, EnqueuedStep DEF DispatchFails
  <2> QED
    BY <2>1, <2>2, <2>3, QuietActions, CreateStep DEF Submission
<1>2. CASE \E i \in Request : Run(i)
  BY <1>2, QuietActions, BeginStep, WorkActions, FinishStep, LostStep DEF Run
<1>3. CASE \E i \in Request, p \in Process, w \in Wiki : Admit(i, p, w)
  BY <1>3, AdmitStep
<1>4. CASE CancelWrite \/ \E w \in Wiki : CancelRead(w)
  BY <1>4, CancelWriteStep, CancelReadStep
<1>5. CASE CancelFails
  BY <1>5, CancelFailsStep
<1>6. CASE \E w \in Wiki : PublishWiki(w)
  BY <1>6, FrameStep DEF PublishWiki, request
<1>7. CASE \E w \in Wiki : UnpublishWiki(w)
  BY <1>7, FrameStep DEF UnpublishWiki, request
<1>8. CASE \E p \in Process : Close(p)
  BY <1>8, FrameStep DEF Close, request, store
<1>9. CASE \E p \in Process : Die(p)
  BY <1>9, DieStep
<1> QED
  BY <1>1, <1>2, <1>3, <1>4, <1>5, <1>6, <1>7, <1>8, <1>9 DEF Next
-----------------------------------------------------------------------------
(* The types. *)

LEMMA RequestTypes ==
  ASSUME IInv, NEW i \in Request, Submission(i) \/ Run(i)
  PROVE  /\ pc' \in [Request -> {"new"} \cup Submitting \cup Waiting \cup Running \cup Over]
         /\ UNCHANGED <<wiki, by, stopping, closing, recalled, cancelled, published>>
         /\ seen' \in [Request -> Nat] /\ active' \in [Process -> SUBSET Wiki]
         /\ gen' \in Request \cup {None} /\ adm' \in Request \cup {Stop, None}
         /\ faults' \in 0..MaxFaults
<1> DEFINE stages == {"new"} \cup Submitting \cup Waiting \cup Running \cup Over
<1>1. \A w \in Wiki : doc[w].rev \in Nat
  BY Domains DEF IInv
<1>2. pc[i] # "new" => wiki[i] \in Wiki
  BY DEF IInv, RunInv, RunOK
<1>3. pc[i] # "new"
  BY DEF Submission, Run, Refuse, Create, Enqueue, EnqueueFails, EnqueueUnanswered, DispatchFails,
         Enqueued, Begin, Skip, GiveUp, MarkBusy, Check, Generate, Conclude, Publish, Note, Halt,
         Finish, ConnectFails, FinishFails, Running
<1>4. UNCHANGED <<wiki, by, stopping, closing, recalled, cancelled, published>>
  BY DEF Submission, Run, Refuse, Create, Enqueue, EnqueueFails, EnqueueUnanswered, DispatchFails,
         Enqueued, Begin, Skip, GiveUp, MarkBusy, Check, Generate, Conclude, Publish, Note, Halt,
         Finish, ConnectFails, FinishFails, store
<1>5. \E where \in stages : Goto(i, where)
  BY DEF Submission, Run, Refuse, Create, Enqueue, EnqueueFails, EnqueueUnanswered, DispatchFails,
         Enqueued, Begin, Skip, GiveUp, MarkBusy, Check, Generate, Conclude, Publish, Note, Halt,
         Finish, ConnectFails, FinishFails, Submitting, Waiting, Running, Over
<1>6. pc' \in [Request -> stages]
  BY <1>5 DEF Goto, IInv, TypeOK
<1>7. UNCHANGED seen \/ seen' = [seen EXCEPT ![i] = doc[wiki[i]].rev]
  BY DEF Submission, Run, Refuse, Create, Enqueue, EnqueueFails, EnqueueUnanswered, DispatchFails,
         Enqueued, Begin, Skip, GiveUp, MarkBusy, Check, Generate, Conclude, Publish, Note, Halt,
         Finish, ConnectFails, FinishFails
<1>8. UNCHANGED active \/ Discard(i)
  BY DEF Submission, Run, Refuse, Create, Enqueue, EnqueueFails, EnqueueUnanswered, DispatchFails,
         Enqueued, Begin, Skip, GiveUp, MarkBusy, Check, Generate, Conclude, Publish, Note, Halt,
         Finish, ConnectFails, FinishFails
<1>9. gen' \in {gen, i, None} /\ adm' \in {adm, i, None}
  BY DEF Submission, Run, Refuse, Create, Enqueue, EnqueueFails, EnqueueUnanswered, DispatchFails,
         Enqueued, Begin, Skip, GiveUp, MarkBusy, Check, Generate, Conclude, Publish, Note, Halt,
         Finish, ConnectFails, FinishFails
<1>10. UNCHANGED faults \/ Fault
  BY DEF Submission, Run, Refuse, Create, Enqueue, EnqueueFails, EnqueueUnanswered, DispatchFails,
         Enqueued, Begin, Skip, GiveUp, MarkBusy, Check, Generate, Conclude, Publish, Note, Halt,
         Finish, ConnectFails, FinishFails
<1>11. seen' \in [Request -> Nat]
  BY <1>1, <1>2, <1>3, <1>7 DEF IInv, TypeOK
<1>12. active' \in [Process -> SUBSET Wiki]
  BY <1>8 DEF Discard, IInv, TypeOK
<1>13. gen' \in Request \cup {None} /\ adm' \in Request \cup {Stop, None}
  BY <1>9 DEF IInv, TypeOK
<1>14. faults' \in 0..MaxFaults
  BY <1>10, WikiAssumption DEF Fault, IInv, TypeOK
<1> QED
  BY <1>4, <1>6, <1>11, <1>12, <1>13, <1>14

LEMMA DataTypes ==
  ASSUME IInv, NEW i \in Request, Submission(i) \/ Run(i)
  PROVE  /\ doc' \in [Wiki -> Doc] /\ pend' \in [Wiki -> Pend]
         /\ cached' \in [Wiki -> SUBSET Page] /\ saved' \in [Wiki -> SUBSET Page]
         /\ page' \in 1..(Pages + 1)
<1> DEFINE Types ==
      /\ doc' \in [Wiki -> Doc] /\ pend' \in [Wiki -> Pend]
      /\ cached' \in [Wiki -> SUBSET Page] /\ saved' \in [Wiki -> SUBSET Page]
      /\ page' \in 1..(Pages + 1)
<1>1. /\ doc \in [Wiki -> Doc] /\ pend \in [Wiki -> Pend]
      /\ cached \in [Wiki -> SUBSET Page] /\ saved \in [Wiki -> SUBSET Page]
      /\ page \in 1..(Pages + 1)
  BY DEF IInv, TypeOK
<1>2. pc[i] # "new" => wiki[i] \in Wiki /\ doc[wiki[i]] \in Doc
  BY <1>1 DEF IInv, RunInv, RunOK
<1>3. pc[i] \in {"valid", "generating", "invalid", "published"} => page \in Page
  BY DEF IInv, RunInv, RunOK
<1>4. CASE UNCHANGED <<doc, pend, cached, saved, page>>
  BY <1>1, <1>4
<1>5. CASE Create(i)
  BY <1>1, <1>2, <1>5 DEF Create, Doc
<1>6. CASE Enqueue(i) \/ EnqueueUnanswered(i) \/ DispatchFails(i)
  <2>1. /\ pc[i] # "new" /\ UNCHANGED <<doc, cached, saved, page>>
        /\ pend' = [pend EXCEPT ![wiki[i]] = [id |-> i, rev |-> doc[wiki[i]].rev, busy |-> FALSE]]
    BY <1>6 DEF Enqueue, EnqueueUnanswered, DispatchFails, Enqueued
  <2>2. [id |-> i, rev |-> doc[wiki[i]].rev, busy |-> FALSE] \in Pend
    BY <1>2, <2>1 DEF Pend, Doc
  <2> QED
    BY <1>1, <2>1, <2>2
<1>7. CASE Begin(i)
  <2>1. /\ doc' = [doc EXCEPT ![wiki[i]].rev = @ + 1, ![wiki[i]].status = "running",
                              ![wiki[i]].request = i]
        /\ UNCHANGED <<pend, cached, saved>> /\ page' = 1 /\ pc[i] # "new"
    BY <1>7 DEF Begin
  <2>2. doc'[wiki[i]] = [status |-> "running", rev |-> doc[wiki[i]].rev + 1, request |-> i,
                         pages |-> doc[wiki[i]].pages]
    BY <1>1, <1>2, <2>1 DEF Doc
  <2>3. doc'[wiki[i]] \in Doc
    <3>1. /\ doc[wiki[i]].rev + 1 \in Nat
          /\ doc[wiki[i]].pages \in [Page -> {"unknown", "pending", "running", "ready", "review"}]
      BY <1>2, <2>1 DEF Doc
    <3> QED
      BY <2>2, <3>1 DEF Doc
  <2>4. doc' \in [Wiki -> Doc]
    BY <1>1, <1>2, <2>1, <2>3
  <2> QED
    BY <1>1, <2>1, <2>4, WikiAssumption
<1>8. CASE MarkBusy(i)
  <2>1. UNCHANGED <<doc, cached, saved, page>> /\ pc[i] # "new"
    BY <1>8 DEF MarkBusy
  <2>2. UNCHANGED pend \/ pend' = [pend EXCEPT ![wiki[i]].busy = TRUE]
    BY <1>8 DEF MarkBusy
  <2>3. CASE UNCHANGED pend
    BY <1>1, <2>1, <2>3
  <2>4. CASE pend' = [pend EXCEPT ![wiki[i]].busy = TRUE]
    <3>1. pend'[wiki[i]] = [id |-> pend[wiki[i]].id, rev |-> pend[wiki[i]].rev, busy |-> TRUE]
      BY <1>1, <1>2, <2>1, <2>4 DEF Pend
    <3>2. pend'[wiki[i]] \in Pend
      BY <1>1, <1>2, <2>1, <3>1 DEF Pend
    <3>3. pend' \in [Wiki -> Pend]
      BY <1>1, <1>2, <2>1, <2>4, <3>2
    <3> QED
      BY <1>1, <2>1, <3>3
  <2> QED
    BY <2>2, <2>3, <2>4
<1>9. CASE Check(i)
  <2>1. /\ UNCHANGED doc \/ doc' = [doc EXCEPT ![wiki[i]].pages[page] = "running"]
        /\ UNCHANGED <<pend, cached, saved, page>> /\ pc[i] # "new" /\ page \in Page
    BY <1>9 DEF Check
  <2>2. CASE UNCHANGED doc
    BY <1>1, <2>1, <2>2
  <2>3. CASE doc' = [doc EXCEPT ![wiki[i]].pages[page] = "running"]
    <3>1. doc' \in [Wiki -> Doc]
      BY <1>1, <1>2, <2>1, <2>3 DEF Doc
    <3> QED
      BY <1>1, <2>1, <3>1
  <2> QED
    BY <2>1, <2>2, <2>3
<1>10. CASE Generate(i)
  <2>1. UNCHANGED cached \/ cached' = [cached EXCEPT ![wiki[i]] = @ \cup {page}]
    BY <1>10 DEF Generate
  <2>2. UNCHANGED <<doc, pend, saved, page>> /\ pc[i] = "generating"
    BY <1>10 DEF Generate
  <2>3. cached' \in [Wiki -> SUBSET Page]
    BY <1>1, <1>2, <1>3, <2>1, <2>2
  <2> QED
    BY <1>1, <2>2, <2>3
<1>11. CASE Publish(i)
  <2>1. /\ saved' = [saved EXCEPT ![wiki[i]] = @ \cup {page}]
        /\ UNCHANGED <<doc, pend, cached, page>> /\ pc[i] = "valid"
    BY <1>11 DEF Publish
  <2>2. saved' \in [Wiki -> SUBSET Page]
    BY <1>1, <1>2, <1>3, <2>1
  <2> QED
    BY <1>1, <2>1, <2>2
<1>12. CASE Note(i)
  <2>1. PICK mark \in {"ready", "review"} : doc' = [doc EXCEPT ![wiki[i]].pages[page] = mark]
    BY <1>12 DEF Note
  <2>2. UNCHANGED <<pend, cached, saved>> /\ page' = page + 1 /\ page \in Page /\ pc[i] # "new"
    BY <1>3, <1>12 DEF Note
  <2>3. doc' \in [Wiki -> Doc]
    BY <1>1, <1>2, <2>1, <2>2 DEF Doc
  <2>4. page' \in 1..(Pages + 1)
    BY <2>2, WikiAssumption DEF Page
  <2> QED
    BY <1>1, <2>2, <2>3, <2>4
<1>13. CASE Finish(i)
  <2>1. /\ doc' = [doc EXCEPT ![wiki[i]].rev = @ + 1, ![wiki[i]].status = Outcome(i),
                              ![wiki[i]].pages = Settled(@)]
        /\ UNCHANGED <<pend, cached, saved, page>> /\ pc[i] # "new"
    BY <1>13 DEF Finish
  <2>2. Outcome(i) \in {"complete", "partial"}
    BY DEF Outcome
  <2>3. \A pages \in [Page -> {"unknown", "pending", "running", "ready", "review"}] :
          Settled(pages) \in [Page -> {"unknown", "pending", "running", "ready", "review"}]
    BY DEF Settled
  <2>4. doc'[wiki[i]] = [status |-> Outcome(i), rev |-> doc[wiki[i]].rev + 1,
                         request |-> doc[wiki[i]].request, pages |-> Settled(doc[wiki[i]].pages)]
    BY <1>1, <1>2, <2>1 DEF Doc
  <2>5. doc'[wiki[i]] \in Doc
    <3>1. /\ doc[wiki[i]].rev + 1 \in Nat /\ doc[wiki[i]].request \in Request \cup {None}
          /\ doc[wiki[i]].pages \in [Page -> {"unknown", "pending", "running", "ready", "review"}]
      BY <1>2, <2>1 DEF Doc
    <3>2. Settled(doc[wiki[i]].pages) \in [Page -> {"unknown", "pending", "running", "ready", "review"}]
      BY <2>3, <3>1
    <3> QED
      BY <2>2, <2>4, <3>1, <3>2 DEF Doc
  <2>6. doc' \in [Wiki -> Doc]
    BY <1>1, <1>2, <2>1, <2>5
  <2> QED
    BY <1>1, <2>1, <2>6
<1>14. CASE \/ Refuse(i) \/ EnqueueFails(i) \/ Skip(i) \/ GiveUp(i) \/ Conclude(i) \/ Halt(i)
            \/ ConnectFails(i) \/ FinishFails(i)
  BY <1>4, <1>14 DEF Refuse, EnqueueFails, Skip, GiveUp, Conclude, Halt, ConnectFails, FinishFails,
                     store
<1> QED
  BY <1>5, <1>6, <1>7, <1>8, <1>9, <1>10, <1>11, <1>12, <1>13, <1>14 DEF Submission, Run

LEMMA StepType ==
  ASSUME IInv, Next
  PROVE  TypeOK'
<1>1. CASE \E i \in Request : Submission(i) \/ Run(i)
  BY <1>1, RequestTypes, DataTypes DEF IInv, TypeOK
<1>2. CASE \E i \in Request, p \in Process, w \in Wiki : Admit(i, p, w)
  BY <1>2 DEF IInv, TypeOK, Admit, Goto, store, Submitting
<1>3. CASE CancelWrite
  BY <1>3 DEF IInv, TypeOK, CancelWrite, Targets, Submitted, NoStop, request
<1>4. CASE CancelFails
  <2>1. PICK written \in SUBSET Targets(stopping.wiki) :
          cancelled' = cancelled \cup written /\ recalled' = recalled \cup written
    BY <1>4 DEF CancelFails
  <2>2. Targets(stopping.wiki) \subseteq Request
    BY <1>1, <1>4 DEF IInv, TypeOK, Targets
  <2>3. cancelled' \subseteq Request /\ recalled' \subseteq Request
    BY <2>1, <2>2 DEF IInv, TypeOK
  <2> QED
    BY <1>4, <2>3, WikiAssumption DEF IInv, TypeOK, CancelFails, Fault, NoStop, request
<1>5. CASE \E w \in Wiki : CancelRead(w)
  BY <1>5 DEF IInv, TypeOK, CancelRead, Doc, request, store
<1>6. CASE \E w \in Wiki : PublishWiki(w) \/ UnpublishWiki(w)
  BY <1>6 DEF IInv, TypeOK, PublishWiki, UnpublishWiki, request
<1>7. CASE \E p \in Process : Close(p)
  BY <1>7 DEF IInv, TypeOK, Close, request, store
<1>8. CASE \E p \in Process : Die(p)
  BY <1>8, WikiAssumption DEF IInv, TypeOK, Die, Fault, store, Over
<1> QED
  BY <1>1, <1>2, <1>3, <1>4, <1>5, <1>6, <1>7, <1>8 DEF Next

LEMMA InitIInv ==
  ASSUME Init
  PROVE  IInv
<1>1. TypeOK
  BY WikiAssumption DEF Init, TypeOK, Doc, Pend, NoStop
<1>2. RunInv
  BY Distinct DEF Init, RunInv, RunOK, Running
<1>3. DocInv
  BY Distinct DEF Init, DocInv, DocOK
<1>4. PendInv
  BY Distinct DEF Init, PendInv, PendOK, Waiting
<1>5. StopInv
  BY Distinct DEF Init, StopInv, StopOK, Stop
<1> QED
  BY <1>1, <1>2, <1>3, <1>4, <1>5 DEF IInv

LEMMA StutterIInv ==
  ASSUME IInv, UNCHANGED vars
  PROVE  IInv'
<1>1. UNCHANGED <<pc, wiki, by, seen, doc, pend, cancelled, cached, saved, published>>
  BY DEF vars, request, store
<1>2. UNCHANGED <<active, gen, adm, page, stopping, closing, recalled, faults>>
  BY DEF vars
<1>3. TypeOK'
  BY <1>1, <1>2 DEF IInv, TypeOK
<1> QED
  BY <1>1, <1>2, <1>3, FrameStep DEF IInv

LEMMA Invariance == Spec => []IInv
<1>1. IInv /\ [Next]_vars => IInv'
  BY StepIInv, StepType, StutterIInv DEF IInv
<1> QED
  BY InitIInv, <1>1, PTL DEF Spec
-----------------------------------------------------------------------------
\* The types of VisitorWiki: no operation puts a value out of place.
THEOREM TypeCorrect == Spec => []TypeOK
<1>1. IInv => TypeOK
  BY DEF IInv
<1> QED
  BY <1>1, Invariance, PTL

\* The saved state of every Wiki is true, whatever was resumed, stopped, failed
\* or died: "running" names a run that works or died, ready pages can be read,
\* published Wikis are complete.
THEOREM StoredStateIsTrueAlways == Spec => []StoredStateIsTrue
<1>1. IInv => StoredStateIsTrue
  BY DEF IInv, DocInv, DocOK, StoredStateIsTrue
<1> QED
  BY <1>1, Invariance, PTL

\* A run is never stopped by a stop that came before it was submitted, accepted or
\* failed between its envelopes.
THEOREM NoStopIsInheritedAlways == Spec => []NoStopIsInherited
<1>1. ASSUME IInv PROVE NoStopIsInherited
  <2> SUFFICES ASSUME NEW i \in Request, pc[i] \in Running, doc[wiki[i]].request \in cancelled
               PROVE  i \in recalled
    BY DEF NoStopIsInherited
  <2>1. doc[wiki[i]].request = i /\ StopOK(i)
    BY <1>1 DEF IInv, RunInv, RunOK, StopInv
  <2> QED
    BY <2>1 DEF StopOK, Running
<1> QED
  BY <1>1, Invariance, PTL

\* A complete Wiki stays as it is: a request that was saved before it was
\* completed does not begin, and no run is at work on it.
THEOREM CompleteIsFinalAlways == Spec => CompleteIsFinal
<1>1. ASSUME IInv, Next, NEW w \in Wiki, doc[w].status = "complete"
      PROVE  doc'[w] = doc[w]
  <2>1. ASSUME NEW i \in Request, pc[i] \in Running
        PROVE  wiki[i] # w
    BY <1>1, <2>1 DEF IInv, RunInv, RunOK
  <2>2. ASSUME NEW i \in Request, Begin(i)
        PROVE  wiki[i] # w
    <3>1. pc[i] = "queued" /\ Current(i)
      BY <2>2 DEF Begin
    <3> QED
      BY <1>1, <3>1 DEF IInv, PendInv, PendOK, Current, Waiting
  <2>3. CASE UNCHANGED doc
    BY <2>3
  <2>5. doc = [v \in Wiki |-> doc[v]]
    BY <1>1, Domains DEF IInv
  <2>6. ASSUME NEW i \in Request, Create(i) PROVE doc'[w] = doc[w]
    <3>1. wiki[i] # w
      BY <1>1, <2>6 DEF Create
    <3> QED
      BY <2>5, <2>6, <3>1 DEF Create
  <2>7. ASSUME NEW i \in Request, Begin(i) PROVE doc'[w] = doc[w]
    BY <2>2, <2>5, <2>7 DEF Begin
  <2>8. ASSUME NEW i \in Request, Check(i) \/ Note(i) \/ Finish(i) PROVE doc'[w] = doc[w]
    <3>1. pc[i] \in Running
      BY <2>8 DEF Check, Note, Finish, Running
    <3>2. wiki[i] # w
      BY <2>1, <3>1
    <3> QED
      BY <2>5, <2>8, <3>2 DEF Check, Note, Finish
  <2>9. ASSUME NEW i \in Request, Submission(i), ~Create(i) PROVE UNCHANGED doc
    BY <2>9 DEF Submission, Refuse, Enqueue, EnqueueFails, EnqueueUnanswered, DispatchFails,
                Enqueued, store
  <2>10. ASSUME NEW i \in Request, Run(i), ~Begin(i), ~Check(i), ~Note(i), ~Finish(i)
         PROVE  UNCHANGED doc
    BY <2>10 DEF Run, Skip, GiveUp, MarkBusy, Generate, Conclude, Publish, Halt, ConnectFails,
                 FinishFails, store
  <2>11. CASE \/ \E i \in Request, p \in Process, v \in Wiki : Admit(i, p, v)
              \/ CancelWrite \/ CancelFails
              \/ \E v \in Wiki : CancelRead(v) \/ PublishWiki(v) \/ UnpublishWiki(v)
              \/ \E p \in Process : Close(p) \/ Die(p)
    BY <2>3, <2>11 DEF Admit, CancelWrite, CancelFails, CancelRead, PublishWiki, UnpublishWiki,
                       Close, Die, store
  <2> QED
    BY <1>1, <2>3, <2>6, <2>7, <2>8, <2>9, <2>10, <2>11 DEF Next
<1>2. IInv /\ [Next]_vars =>
        [\A w \in Wiki : doc[w].status = "complete" => doc'[w] = doc[w]]_doc
  <2>1. UNCHANGED vars => UNCHANGED doc
    BY DEF vars, store
  <2> QED
    BY <1>1, <2>1
<1> QED
  BY <1>2, Invariance, PTL DEF Spec, CompleteIsFinal

\* No run begins a page once a stop was accepted that came after its submission:
\* the stop wrote an envelope for it, and check() finds it.
THEOREM StopIsHeededAlways == Spec => StopIsHeeded
<1>1. ASSUME IInv, Next, NEW i \in Request, pc[i] = "begun", pc'[i] = "generating"
      PROVE  i \notin recalled
  <2>1. ASSUME Check(i) PROVE i \notin recalled
    <3>1. doc[wiki[i]].request = i /\ StopOK(i) /\ pc[i] \in Running
      BY <1>1 DEF IInv, RunInv, RunOK, StopInv, Running
    <3>2. i \notin cancelled
      BY <2>1, <3>1 DEF Check, Stopped
    <3> QED
      BY <3>1, <3>2 DEF StopOK
  <2>2. pc = [j \in Request |-> pc[j]]
    BY <1>1, Domains DEF IInv
  <2>3. ASSUME NEW j \in Request, Submission(j)
        PROVE  FALSE
    BY <1>1, <2>2, <2>3 DEF Submission, Refuse, Create, Enqueue, EnqueueFails, EnqueueUnanswered,
         DispatchFails, Enqueued, Goto
  <2>4. ASSUME NEW j \in Request, Run(j), ~Check(j)
        PROVE  FALSE
    BY <1>1, <2>2, <2>4 DEF Run, Begin, Skip, GiveUp, MarkBusy, Generate, Conclude, Publish, Note,
         Halt, Finish, ConnectFails, FinishFails, Goto
  <2>5. ASSUME NEW j \in Request, Check(j)
        PROVE  j = i
    BY <1>1, <2>2, <2>5 DEF Check, Goto
  <2>6. CASE \/ \E j \in Request, p \in Process, v \in Wiki : Admit(j, p, v)
             \/ CancelWrite \/ CancelFails
             \/ \E v \in Wiki : CancelRead(v) \/ PublishWiki(v) \/ UnpublishWiki(v)
             \/ \E p \in Process : Close(p) \/ Die(p)
    BY <1>1, <2>2, <2>6 DEF Admit, Goto, CancelWrite, CancelFails, CancelRead, PublishWiki,
         UnpublishWiki, Close, Die, request
  <2> QED
    BY <1>1, <2>1, <2>3, <2>4, <2>5, <2>6 DEF Next
<1>2. IInv /\ [Next]_vars =>
        [\A i \in Request : pc[i] = "begun" /\ pc'[i] = "generating" => i \notin recalled]_pc
  <2>1. UNCHANGED vars => UNCHANGED pc
    BY DEF vars, request
  <2> QED
    BY <1>1, <2>1
<1> QED
  BY <1>2, Invariance, PTL DEF Spec, StopIsHeeded
-----------------------------------------------------------------------------
(* The two locks, over what the runs and the submissions do.                *)

Runs == {i \in Request : pc[i] \in Running}
Creating == {i \in Request : pc[i] = "created"}
StopReading == IF stopping.wiki = None THEN {} ELSE {Stop}

\* The runs are the tasks of one lock; the sections that create a Wiki or stop one,
\* which take two steps, are those of the other.
Generation == INSTANCE AbstractLock WITH Task <- Request, inside <- Runs
Admission == INSTANCE AbstractLock WITH Task <- Request \cup {Stop},
                                        inside <- Creating \cup StopReading

\* A stop has read something exactly while it has ADMISSION.
StopHolds == IF adm = Stop THEN stopping.wiki \in Wiki ELSE stopping = NoStop

LEMMA StopHoldsAlways == Spec => []StopHolds
<1>1. Init => StopHolds
  BY Distinct DEF Init, StopHolds
<1>2. ASSUME IInv, StopHolds, [Next]_vars PROVE StopHolds'
  <2> USE <1>2, Distinct
  <2>1. ASSUME NEW i \in Request, Submission(i) \/ Run(i) PROVE StopHolds'
    <3>1. UNCHANGED stopping
      BY <2>1 DEF Submission, Refuse, Create, Enqueue, EnqueueFails, EnqueueUnanswered,
           DispatchFails, Enqueued, Run, Begin, Skip, GiveUp, MarkBusy, Check, Generate, Conclude,
           Publish, Note, Halt, Finish, ConnectFails, FinishFails
    <3>2. CASE adm = Stop
      <4>1. pc[i] # "created"
        BY <3>2 DEF IInv, RunInv, RunOK
      <4>2. UNCHANGED adm
        BY <2>1, <3>2, <4>1 DEF Submission, Refuse, Create, Enqueue, EnqueueFails,
             EnqueueUnanswered, DispatchFails, Enqueued, Run, Begin, Skip, GiveUp, MarkBusy, Check,
             Generate, Conclude, Publish, Note, Halt, Finish, ConnectFails, FinishFails
      <4> QED
        BY <3>1, <3>2, <4>2 DEF StopHolds
    <3>3. CASE adm # Stop
      <4>1. adm' \in {adm, None, i}
        BY <2>1 DEF Submission, Refuse, Create, Enqueue, EnqueueFails, EnqueueUnanswered,
             DispatchFails, Enqueued, Run, Begin, Skip, GiveUp, MarkBusy, Check, Generate, Conclude,
             Publish, Note, Halt, Finish, ConnectFails, FinishFails
      <4> QED
        BY <3>1, <3>3, <4>1 DEF StopHolds
    <3> QED
      BY <3>2, <3>3
  <2>2. ASSUME NEW i \in Request, NEW p \in Process, NEW w \in Wiki, Admit(i, p, w)
        PROVE  StopHolds'
    BY <2>2 DEF Admit, StopHolds
  <2>3. CASE CancelWrite \/ CancelFails \/ \E w \in Wiki : CancelRead(w)
    BY <2>3 DEF CancelWrite, CancelFails, CancelRead, StopHolds
  <2>4. CASE \E w \in Wiki : PublishWiki(w) \/ UnpublishWiki(w)
    BY <2>4 DEF PublishWiki, UnpublishWiki, StopHolds
  <2>5. ASSUME NEW p \in Process, Close(p) \/ Die(p) PROVE StopHolds'
    <3>1. UNCHANGED stopping /\ (adm = Stop <=> adm' = Stop)
      BY <2>5 DEF Close, Die
    <3> QED
      BY <3>1 DEF StopHolds
  <2>6. CASE UNCHANGED vars
    BY <2>6 DEF vars, StopHolds
  <2> QED
    BY <2>1, <2>2, <2>3, <2>4, <2>5, <2>6 DEF Next
<1>3. IInv /\ StopHolds /\ [Next]_vars => StopHolds'
  BY <1>2
<1> QED
  BY <1>1, <1>3, Invariance, PTL DEF Spec

\* GENERATION and ADMISSION pass from nobody to one holder and back.
LEMMA LockStep ==
  ASSUME IInv, [Next]_vars
  PROVE  /\ \/ UNCHANGED gen
            \/ gen = None /\ gen' \in Request
            \/ gen \in Request /\ gen' = None
         /\ \/ UNCHANGED adm
            \/ adm = None /\ adm' \in Request \cup {Stop}
            \/ adm \in Request \cup {Stop} /\ adm' = None
<1> DEFINE Passes == /\ \/ UNCHANGED gen
                        \/ gen = None /\ gen' \in Request
                        \/ gen \in Request /\ gen' = None
                     /\ \/ UNCHANGED adm
                        \/ adm = None /\ adm' \in Request \cup {Stop}
                        \/ adm \in Request \cup {Stop} /\ adm' = None
<1>1. gen \in Request \cup {None} /\ adm \in Request \cup {Stop, None}
  BY DEF IInv, TypeOK
<1>2. ASSUME NEW i \in Request, Submission(i) PROVE Passes
  <2>1. UNCHANGED gen
    BY <1>2 DEF Submission, Refuse, Create, Enqueue, EnqueueFails, EnqueueUnanswered,
         DispatchFails, Enqueued, store
  <2>2. UNCHANGED adm \/ adm' = None \/ (adm = None /\ adm' = i)
    BY <1>2 DEF Submission, Refuse, Create, Enqueue, EnqueueFails, EnqueueUnanswered,
         DispatchFails, Enqueued, store
  <2> QED
    BY <1>1, <2>1, <2>2
<1>3. ASSUME NEW i \in Request, Run(i) PROVE Passes
  <2>1. UNCHANGED adm
    BY <1>3 DEF Run, Begin, Skip, GiveUp, MarkBusy, Check, Generate, Conclude, Publish, Note, Halt,
         Finish, ConnectFails, FinishFails, store
  <2>2. UNCHANGED gen \/ gen' = None \/ (gen = None /\ gen' = i)
    BY <1>3 DEF Run, Begin, Skip, GiveUp, MarkBusy, Check, Generate, Conclude, Publish, Note, Halt,
         Finish, ConnectFails, FinishFails, store
  <2> QED
    BY <1>1, <2>1, <2>2
<1>4. CASE \/ \E i \in Request, p \in Process, w \in Wiki : Admit(i, p, w)
           \/ CancelWrite \/ CancelFails
           \/ \E w \in Wiki : CancelRead(w) \/ PublishWiki(w) \/ UnpublishWiki(w)
  BY <1>4 DEF Admit, CancelWrite, CancelFails, CancelRead, PublishWiki, UnpublishWiki
<1>5. ASSUME NEW p \in Process, Close(p) \/ Die(p) PROVE Passes
  <2>1. (UNCHANGED gen \/ gen' = None) /\ (UNCHANGED adm \/ adm' = None)
    BY <1>5 DEF Close, Die
  <2> QED
    BY <1>1, <2>1
<1>6. CASE UNCHANGED vars
  BY <1>6 DEF vars
<1> HIDE DEF Passes
<1>7. Passes
  BY <1>2, <1>3, <1>4, <1>5, <1>6 DEF Next, Passes
<1> QED
  BY <1>7 DEF Passes

\* Who is at work, and who holds the locks.
HoldersWork == Runs = {gen} \ {None} /\ Creating \cup StopReading = {adm} \ {None}

LEMMA HoldersWorkAlways == Spec => []HoldersWork
<1>1. ASSUME IInv, StopHolds PROVE HoldersWork
  <2> USE <1>1
  <2>1. gen \in Request \cup {None} /\ adm \in Request \cup {Stop, None}
    BY DEF IInv, TypeOK
  <2>2. Runs = {gen} \ {None}
    BY <2>1, Distinct DEF IInv, RunInv, RunOK, Runs
  <2>3. Creating = {adm} \ {None, Stop}
    BY <2>1, Distinct DEF IInv, RunInv, RunOK, Creating
  <2>4. CASE adm = Stop
    <3>1. StopReading = {Stop}
      BY <2>4, Distinct DEF StopHolds, StopReading
    <3> QED
      BY <2>2, <2>3, <2>4, <3>1, Distinct DEF HoldersWork
  <2>5. CASE adm # Stop
    <3>1. StopReading = {}
      BY <2>5 DEF StopHolds, NoStop, StopReading
    <3> QED
      BY <2>2, <2>3, <2>5, <3>1 DEF HoldersWork
  <2> QED
    BY <2>4, <2>5
<1>2. IInv /\ StopHolds => HoldersWork
  BY <1>1
<1> QED
  BY <1>2, Invariance, StopHoldsAlways, PTL

\* At most one run is at work at a time, in whichever process and on whichever Wiki;
\* it stops being at work by a step of its own or when its process dies.
THEOREM OneRunAtATime == Spec => Generation!Spec
<1>1. Init => Generation!Init
  BY DEF Init, Generation!Init, Runs, Running
<1>2. ASSUME IInv, HoldersWork, HoldersWork', [Next]_vars
      PROVE  [Generation!Next]_Runs
  <2>1. Runs = {gen} \ {None}
    BY <1>2 DEF HoldersWork
  <2>2. Runs' = {gen'} \ {None}
    BY <1>2 DEF HoldersWork
  <2>3. \/ UNCHANGED gen
        \/ gen = None /\ gen' \in Request
        \/ gen \in Request /\ gen' = None
    BY <1>2, LockStep
  <2>4. ASSUME gen = None, gen' \in Request PROVE Generation!Enter(gen')
    BY <2>1, <2>2, <2>4, Distinct DEF Generation!Enter
  <2>5. ASSUME gen \in Request, gen' = None PROVE Generation!Leave(gen)
    BY <2>1, <2>2, <2>5, Distinct DEF Generation!Leave
  <2> QED
    BY <2>1, <2>2, <2>3, <2>4, <2>5 DEF Generation!Next
<1>3. IInv /\ HoldersWork /\ HoldersWork' /\ [Next]_vars => [Generation!Next]_Runs
  BY <1>2
<1> QED
  BY <1>1, <1>3, Invariance, HoldersWorkAlways, PTL DEF Spec, Generation!Spec

\* A submission that creates a Wiki and a stop that has read one exclude each other,
\* in all processes; a death at work lets the next one in.
THEOREM OneAdmissionAtATime == Spec => Admission!Spec
<1> DEFINE inside == Creating \cup StopReading
<1>1. Init => Admission!Init
  BY DEF Init, Admission!Init, Creating, StopReading, NoStop
<1>2. ASSUME IInv, HoldersWork, HoldersWork', [Next]_vars
      PROVE  [Admission!Next]_inside
  <2>1. inside = {adm} \ {None}
    BY <1>2 DEF HoldersWork
  <2>2. inside' = {adm'} \ {None}
    BY <1>2 DEF HoldersWork
  <2>3. \/ UNCHANGED adm
        \/ adm = None /\ adm' \in Request \cup {Stop}
        \/ adm \in Request \cup {Stop} /\ adm' = None
    BY <1>2, LockStep
  <2>4. ASSUME adm = None, adm' \in Request \cup {Stop} PROVE Admission!Enter(adm')
    BY <2>1, <2>2, <2>4, Distinct DEF Admission!Enter
  <2>5. ASSUME adm \in Request \cup {Stop}, adm' = None PROVE Admission!Leave(adm)
    BY <2>1, <2>2, <2>5, Distinct DEF Admission!Leave
  <2> HIDE DEF inside
  <2> QED
    BY <2>1, <2>2, <2>3, <2>4, <2>5 DEF Admission!Next
<1>3. IInv /\ HoldersWork /\ HoldersWork' /\ [Next]_vars
        => [Admission!Next]_(Creating \cup StopReading)
  BY <1>2
<1> QED
  BY <1>1, <1>3, Invariance, HoldersWorkAlways, PTL DEF Spec, Admission!Spec
-----------------------------------------------------------------------------
(* The slots of a process. *)

Alive(i) == pc[i] \notin Over \cup {"new"}

\* A Wiki that a process counts as active belongs to a submission, or a run, of that
\* process that is not over; and a process serves no more than its slots.
SlotsAreInUse ==
  \A p \in Process :
    /\ Cardinality(active[p]) <= SourceSlots
    /\ \A w \in active[p] : \E i \in Request : by[i] = p /\ wiki[i] = w /\ Alive(i)

SlotInv == SlotsAreInUse /\ \A p \in Process : IsFiniteSet(active[p])

\* A slot is discarded, by what is over or by a handler that answers for its run.
LEMMA DiscardSlots ==
  ASSUME IInv, SlotInv, NEW i \in Request, NEW where, Goto(i, where), Discard(i),
         pc[i] \notin Over \cup {"new"}, UNCHANGED <<wiki, by>>
  PROVE  SlotInv'
<1> USE DEF Alive
<1>1. /\ pc = [j \in Request |-> pc[j]] /\ active = [p \in Process |-> active[p]]
      /\ wiki[i] \in Wiki /\ by[i] \in Process
  BY DEF IInv, TypeOK, RunInv, RunOK
<1>2. /\ \A j \in Request \ {i} : pc'[j] = pc[j]
      /\ active'[by[i]] = active[by[i]] \ {wiki[i]}
      /\ \A p \in Process \ {by[i]} : active'[p] = active[p]
  BY <1>1 DEF Goto, Discard
<1>3. ASSUME NEW p \in Process
      PROVE  IsFiniteSet(active'[p]) /\ Cardinality(active'[p]) <= SourceSlots
  <2>1. /\ IsFiniteSet(active[p]) /\ Cardinality(active[p]) \in Nat
        /\ Cardinality(active[p]) <= SourceSlots /\ SourceSlots \in Nat
    BY FS_CardinalityType, WikiAssumption DEF SlotInv, SlotsAreInUse
  <2>2. CASE p = by[i]
    <3>1. /\ IsFiniteSet(active[p] \ {wiki[i]})
          /\ Cardinality(active[p] \ {wiki[i]}) =
               IF wiki[i] \in active[p] THEN Cardinality(active[p]) - 1 ELSE Cardinality(active[p])
      BY <2>1, FS_RemoveElement
    <3>2. active'[p] = active[p] \ {wiki[i]}
      BY <1>2, <2>2
    <3> QED
      BY <2>1, <3>1, <3>2
  <2>3. CASE p # by[i]
    BY <1>2, <2>1, <2>3
  <2> QED
    BY <2>2, <2>3
<1>4. ASSUME NEW p \in Process, NEW w \in active'[p]
      PROVE  \E j \in Request : by'[j] = p /\ wiki'[j] = w /\ Alive(j)'
  <2>1. w \in active[p] /\ ~(p = by[i] /\ w = wiki[i])
    BY <1>2
  <2>2. PICK j \in Request : by[j] = p /\ wiki[j] = w /\ Alive(j)
    BY <2>1 DEF SlotInv, SlotsAreInUse
  <2> QED
    BY <1>2, <2>1, <2>2
<1> QED
  BY <1>3, <1>4 DEF SlotInv, SlotsAreInUse

\* What goes on keeps its slot.
LEMMA KeepSlots ==
  ASSUME IInv, SlotInv, NEW i \in Request, NEW where, Goto(i, where),
         where \notin Over \cup {"new"}, UNCHANGED <<wiki, by, active>>
  PROVE  SlotInv'
<1>1. pc'[i] = where /\ \A j \in Request \ {i} : pc'[j] = pc[j]
  BY Domains DEF IInv, Goto
<1>2. \A j \in Request : Alive(j) => Alive(j)'
  BY <1>1 DEF Alive
<1> QED
  BY <1>2 DEF SlotInv, SlotsAreInUse

LEMMA AdmitSlots ==
  ASSUME IInv, SlotInv, NEW i \in Request, NEW p \in Process, NEW w \in Wiki, Admit(i, p, w)
  PROVE  SlotInv'
<1>1. /\ pc[i] = "new" /\ pc'[i] = "admitted" /\ wiki'[i] = w /\ by'[i] = p
      /\ \A j \in Request \ {i} : pc'[j] = pc[j] /\ wiki'[j] = wiki[j] /\ by'[j] = by[j]
      /\ active'[p] = active[p] \cup {w} /\ \A q \in Process \ {p} : active'[q] = active[q]
      /\ w \notin active[p] /\ Cardinality(active[p]) < SourceSlots
  <2>1. active = [q \in Process |-> active[q]]
    BY DEF IInv, TypeOK
  <2> QED
    BY <2>1, Domains DEF IInv, Admit, Goto
<1>2. ASSUME NEW q \in Process
      PROVE  IsFiniteSet(active'[q]) /\ Cardinality(active'[q]) <= SourceSlots
  <2>1. /\ IsFiniteSet(active[q]) /\ Cardinality(active[q]) \in Nat
        /\ Cardinality(active[q]) <= SourceSlots /\ SourceSlots \in Nat
    BY FS_CardinalityType, WikiAssumption DEF SlotInv, SlotsAreInUse
  <2>2. CASE q = p
    <3>1. /\ IsFiniteSet(active[q] \cup {w})
          /\ Cardinality(active[q] \cup {w}) =
               IF w \in active[q] THEN Cardinality(active[q]) ELSE Cardinality(active[q]) + 1
      BY <2>1, FS_AddElement
    <3>2. /\ active'[q] = active[q] \cup {w} /\ w \notin active[q]
          /\ Cardinality(active[q]) < SourceSlots
      BY <1>1, <2>2
    <3> QED
      BY <2>1, <3>1, <3>2
  <2>3. CASE q # p
    BY <1>1, <2>1, <2>3
  <2> QED
    BY <2>2, <2>3
<1>3. ASSUME NEW q \in Process, NEW v \in active'[q]
      PROVE  \E j \in Request : by'[j] = q /\ wiki'[j] = v /\ Alive(j)'
  <2>1. Alive(i)'
    BY <1>1 DEF Alive, Over
  <2>2. CASE q = p /\ v = w
    BY <1>1, <2>1, <2>2
  <2>3. CASE v \in active[q]
    <3>1. PICK j \in Request : by[j] = q /\ wiki[j] = v /\ Alive(j)
      BY <2>3 DEF SlotInv, SlotsAreInUse
    <3>2. j # i
      BY <1>1, <3>1 DEF Alive
    <3> QED
      BY <1>1, <3>1, <3>2 DEF Alive
  <2> QED
    BY <1>1, <2>2, <2>3
<1> QED
  BY <1>2, <1>3 DEF SlotInv, SlotsAreInUse

LEMMA DieSlots == ASSUME IInv, SlotInv, NEW p \in Process, Die(p) PROVE SlotInv'
<1>1. active = [q \in Process |-> active[q]]
  BY DEF IInv, TypeOK
<1>2. /\ active'[p] = {} /\ \A q \in Process \ {p} : active'[q] = active[q]
      /\ \A j \in Request : by[j] # p => pc'[j] = pc[j]
      /\ UNCHANGED <<wiki, by>>
  BY <1>1 DEF Die
<1>3. ASSUME NEW q \in Process
      PROVE  IsFiniteSet(active'[q]) /\ Cardinality(active'[q]) <= SourceSlots
  <2>1. CASE q = p
    <3>1. active'[q] = {} /\ IsFiniteSet({}) /\ Cardinality({}) = 0
      BY <1>2, <2>1, FS_EmptySet
    <3> QED
      BY <3>1, WikiAssumption
  <2>2. CASE q # p
    BY <1>2, <2>2 DEF SlotInv, SlotsAreInUse
  <2> QED
    BY <2>1, <2>2
<1>4. ASSUME NEW q \in Process, NEW v \in active'[q]
      PROVE  \E j \in Request : by'[j] = q /\ wiki'[j] = v /\ Alive(j)'
  <2>1. q # p /\ v \in active[q]
    BY <1>2
  <2>2. PICK j \in Request : by[j] = q /\ wiki[j] = v /\ Alive(j)
    BY <2>1 DEF SlotInv, SlotsAreInUse
  <2> QED
    BY <1>2, <2>1, <2>2 DEF Alive
<1> QED
  BY <1>3, <1>4 DEF SlotInv, SlotsAreInUse

\* No slot is lost: a Wiki that a process calls active, and refuses to others, is
\* being submitted or run there.  Every way out of a submission and of a run, a
\* failure of the store, a missing thread or a death included, gives the slot back.
THEOREM NoSlotIsLost == Spec => []SlotsAreInUse
<1>1. Init => SlotInv
  BY FS_EmptySet, WikiAssumption DEF Init, SlotInv, SlotsAreInUse
<1>2. ASSUME IInv, SlotInv, [Next]_vars PROVE SlotInv'
  <2> USE <1>2
  <2>1. ASSUME NEW i \in Request,
               \/ Refuse(i) \/ EnqueueFails(i) \/ EnqueueUnanswered(i) \/ DispatchFails(i)
               \/ Skip(i) \/ MarkBusy(i) \/ Finish(i) \/ ConnectFails(i) \/ FinishFails(i)
        PROVE  SlotInv'
    <3>1. /\ Discard(i) /\ UNCHANGED <<wiki, by>> /\ \E where : Goto(i, where)
          /\ pc[i] \notin Over \cup {"new"}
      BY <2>1 DEF Refuse, EnqueueFails, EnqueueUnanswered, DispatchFails, Enqueued, Skip, MarkBusy,
           Finish, ConnectFails, FinishFails, Over
    <3> QED
      BY <3>1, DiscardSlots
  <2>2. ASSUME NEW i \in Request,
               \/ Create(i) \/ Enqueue(i) \/ Begin(i) \/ GiveUp(i) \/ Check(i) \/ Generate(i)
               \/ Conclude(i) \/ Publish(i) \/ Note(i) \/ Halt(i)
        PROVE  SlotInv'
    <3>1. /\ UNCHANGED <<wiki, by, active>>
          /\ \E where : Goto(i, where) /\ where \notin Over \cup {"new"}
      BY <2>2 DEF Create, Enqueue, Enqueued, Begin, GiveUp, Check, Generate, Conclude, Publish,
           Note, Halt, Over
    <3> QED
      BY <3>1, KeepSlots
  <2>3. ASSUME NEW i \in Request, Submission(i) \/ Run(i) PROVE SlotInv'
    BY <2>1, <2>2, <2>3 DEF Submission, Run
  <2>4. CASE \/ CancelWrite \/ CancelFails \/ UNCHANGED vars
             \/ \E w \in Wiki : CancelRead(w) \/ PublishWiki(w) \/ UnpublishWiki(w)
             \/ \E p \in Process : Close(p)
    <3>1. UNCHANGED <<pc, wiki, by, active>>
      BY <2>4 DEF CancelWrite, CancelFails, CancelRead, PublishWiki, UnpublishWiki, Close, vars,
           request
    <3> QED
      BY <3>1 DEF SlotInv, SlotsAreInUse, Alive
  <2> QED
    BY <2>3, <2>4, AdmitSlots, DieSlots DEF Next
<1>3. IInv /\ SlotInv /\ [Next]_vars => SlotInv'
  BY <1>2
<1>4. SlotInv => SlotsAreInUse
  BY DEF SlotInv
<1> QED
  BY <1>1, <1>3, <1>4, Invariance, PTL DEF Spec
-----------------------------------------------------------------------------
(* What a resumed run keeps. *)

\* A run that generates a page, or passes over it, has set it to "running".
KeptOK(i) ==
  pc[i] \in {"generating", "invalid"} => doc[wiki[i]].pages[page] = "running"

KeptInv == \A i \in Request : KeptOK(i)

\* Steps that keep the pages' states and let no run reach another page.
LEMMA KeptStill ==
  ASSUME KeptInv, \A w : doc'[w].pages = doc[w].pages,
         \A j \in Request :
           \/ pc'[j] = pc[j] /\ wiki'[j] = wiki[j] /\ page' = page
           \/ pc'[j] \notin {"generating", "invalid"}
  PROVE  KeptInv'
  BY DEF KeptInv, KeptOK

\* The others are not at a page while one run is.
LEMMA OthersKept ==
  ASSUME IInv, NEW i \in Request, pc[i] \in Running, Goto(i, pc'[i])
  PROVE  \A j \in Request \ {i} : pc'[j] = pc[j] /\ pc'[j] \notin Running
<1>1. pc = [j \in Request |-> pc[j]] /\ gen = i
  BY Domains DEF IInv, RunInv, RunOK
<1> QED
  BY <1>1 DEF IInv, RunInv, RunOK, Goto

LEMMA CheckKept == ASSUME IInv, NEW i \in Request, Check(i) PROVE KeptInv'
<1>1. /\ pc[i] = "begun" /\ page \in Page /\ UNCHANGED <<wiki, page>>
      /\ \/ Goto(i, "valid")
         \/ Goto(i, "generating") /\ doc' = [doc EXCEPT ![wiki[i]].pages[page] = "running"]
  BY DEF Check
<1>2. /\ pc[i] \in Running /\ pc = [j \in Request |-> pc[j]] /\ wiki[i] \in Wiki
      /\ doc = [w \in Wiki |-> doc[w]] /\ doc[wiki[i]] \in Doc
  BY <1>1, Domains DEF IInv, Running, RunInv, RunOK
<1>3. /\ pc'[i] = "valid" \/ (pc'[i] = "generating" /\ doc'[wiki[i]].pages[page] = "running")
      /\ Goto(i, pc'[i])
  BY <1>1, <1>2 DEF Goto, Doc
<1>4. \A j \in Request \ {i} : pc'[j] \notin Running
  BY <1>2, <1>3, OthersKept
<1> QED
  BY <1>1, <1>3, <1>4 DEF KeptInv, KeptOK, Running

LEMMA GenerateKept == ASSUME IInv, KeptInv, NEW i \in Request, Generate(i) PROVE KeptInv'
<1>1. pc[i] = "generating" /\ UNCHANGED <<wiki, doc, page>> /\ \E where : Goto(i, where)
  BY DEF Generate
<1>2. pc[i] \in Running /\ Goto(i, pc'[i])
  BY <1>1, Domains DEF IInv, Running, Goto
<1>3. \A j \in Request \ {i} : pc'[j] \notin Running
  BY <1>2, OthersKept
<1> QED
  BY <1>1, <1>3 DEF KeptInv, KeptOK, Running

\* The steps of one request that begin and fail no page.
LEMMA ElsewhereKept ==
  ASSUME IInv, KeptInv, NEW i \in Request, NEW where, Goto(i, where), UNCHANGED wiki,
         \/ UNCHANGED page /\ \A w : doc'[w].pages = doc[w].pages
         \/ pc[i] \in Running
         \/ gen = None,
         where \notin {"generating", "invalid"}
  PROVE  KeptInv'
<1>1. pc = [j \in Request |-> pc[j]]
  BY Domains DEF IInv
<1>2. pc'[i] = where /\ Goto(i, pc'[i]) /\ \A j \in Request \ {i} : pc'[j] = pc[j]
  BY <1>1 DEF Goto
<1>3. CASE UNCHANGED page /\ \A w : doc'[w].pages = doc[w].pages
  BY <1>2, <1>3, KeptStill
<1>4. CASE pc[i] \in Running
  <2>1. \A j \in Request \ {i} : pc'[j] \notin Running
    BY <1>2, <1>4, OthersKept
  <2> QED
    BY <1>2, <2>1 DEF KeptInv, KeptOK, Running
<1>5. CASE gen = None
  <2>1. \A j \in Request : pc[j] \notin Running
    BY <1>5, Distinct DEF IInv, RunInv, RunOK
  <2> QED
    BY <1>2, <2>1 DEF KeptInv, KeptOK, Running
<1> QED
  BY <1>3, <1>4, <1>5

LEMMA KeptHolds == Spec => []KeptInv
<1>1. Init => KeptInv
  BY DEF Init, KeptInv, KeptOK
<1>2. ASSUME IInv, KeptInv, [Next]_vars PROVE KeptInv'
  <2> USE <1>2
  <2>1. ASSUME NEW i \in Request, Submission(i) \/ Skip(i) \/ GiveUp(i) \/ MarkBusy(i)
        PROVE  KeptInv'
    <3>1. /\ UNCHANGED <<wiki, page>>
          /\ \E where : Goto(i, where) /\ where \notin {"generating", "invalid"}
      BY <2>1 DEF Submission, Refuse, Create, Enqueue, EnqueueFails, EnqueueUnanswered,
           DispatchFails, Enqueued, Skip, GiveUp, MarkBusy, store
    <3>2. CASE Create(i)
      <4>1. doc' = [doc EXCEPT ![wiki[i]] = [doc[wiki[i]] EXCEPT !.status = "queued"]]
            /\ pc[i] = "admitted"
        BY <3>2 DEF Create
      <4>2. wiki[i] \in Wiki
        BY <4>1 DEF IInv, RunInv, RunOK
      <4>3. doc = [v \in Wiki |-> doc[v]] /\ doc[wiki[i]] \in Doc
        BY <4>2, Domains DEF IInv
      <4>4. \A w \in Wiki : doc'[w].pages = doc[w].pages
        BY <4>1, <4>3 DEF Doc
      <4>5. \A j \in Request : pc[j] # "new" => wiki[j] \in Wiki
        BY DEF IInv, RunInv, RunOK
      <4>6. pc'[i] = "created" /\ \A j \in Request \ {i} : pc'[j] = pc[j]
        BY <3>2, Domains DEF IInv, Create, Goto
      <4> QED
        BY <3>1, <4>4, <4>5, <4>6 DEF KeptInv, KeptOK
    <3>3. CASE ~Create(i)
      <4>1. UNCHANGED doc
        BY <2>1, <3>3 DEF Submission, Refuse, Enqueue, EnqueueFails, EnqueueUnanswered,
             DispatchFails, Enqueued, Skip, GiveUp, MarkBusy, store
      <4> QED
        BY <3>1, <4>1, ElsewhereKept
    <3> QED
      BY <3>2, <3>3
  <2>2. ASSUME NEW i \in Request,
               \/ Conclude(i) \/ Publish(i) \/ Note(i) \/ Halt(i) \/ Finish(i)
               \/ ConnectFails(i) \/ FinishFails(i)
        PROVE  KeptInv'
    <3>1. /\ UNCHANGED wiki /\ pc[i] \in Running
          /\ \E where : Goto(i, where) /\ where \notin {"generating", "invalid"}
      BY <2>2 DEF Conclude, Publish, Note, Halt, Finish, ConnectFails, FinishFails, store, Running
    <3> QED
      BY <3>1, ElsewhereKept
  <2>3. ASSUME NEW i \in Request, Begin(i) PROVE KeptInv'
    <3>1. UNCHANGED wiki /\ gen = None /\ Goto(i, "begun")
      BY <2>3 DEF Begin
    <3> QED
      BY <3>1, ElsewhereKept
  <2>4. ASSUME NEW i \in Request, Run(i) PROVE KeptInv'
    BY <2>1, <2>2, <2>3, <2>4, CheckKept, GenerateKept DEF Run
  <2>5. ASSUME NEW i \in Request, NEW p \in Process, NEW w \in Wiki, Admit(i, p, w)
        PROVE  KeptInv'
    <3>1. \A j \in Request : \/ pc'[j] = pc[j] /\ wiki'[j] = wiki[j]
                             \/ pc'[j] = "admitted"
      BY <2>5, Domains DEF IInv, Admit, Goto
    <3>2. UNCHANGED <<doc, page>>
      BY <2>5 DEF Admit, store
    <3> QED
      BY <3>1, <3>2, KeptStill
  <2>6. CASE \/ CancelWrite \/ CancelFails \/ UNCHANGED vars
             \/ \E w \in Wiki : CancelRead(w) \/ PublishWiki(w) \/ UnpublishWiki(w)
             \/ \E p \in Process : Close(p)
    <3>1. UNCHANGED <<pc, wiki, doc, page>>
      BY <2>6 DEF CancelWrite, CancelFails, CancelRead, PublishWiki, UnpublishWiki, Close, vars,
           request, store
    <3> QED
      BY <3>1, KeptStill
  <2>7. ASSUME NEW p \in Process, Die(p) PROVE KeptInv'
    <3>1. UNCHANGED <<wiki, doc, page>>
      BY <2>7 DEF Die, store
    <3>2. \A j \in Request : pc'[j] = pc[j] \/ pc'[j] = "dead"
      BY <2>7 DEF Die
    <3> QED
      BY <3>1, <3>2, KeptStill
  <2> QED
    BY <2>1, <2>4, <2>5, <2>6, <2>7 DEF Next
<1>3. IInv /\ KeptInv /\ [Next]_vars => KeptInv'
  BY <1>2
<1> QED
  BY <1>1, <1>3, Invariance, PTL DEF Spec

\* A page that is ready stays ready, whichever runs are stopped, fail, die or are
\* begun anew, unless AgentWiki did not keep it: then a later run may set it to "running"
\* and generate it again, and its readers have the saved one meanwhile.
ReadyIsKept ==
  [][\A w \in Wiki : \A k \in Page :
       doc[w].pages[k] = "ready" /\ doc'[w].pages[k] # "ready" =>
         /\ k \notin cached[w] /\ k \in saved'[w] /\ doc'[w].pages[k] = "running"
         /\ page = k /\ \E i \in Request : wiki[i] = w /\ pc'[i] = "generating"]_doc

\* No resumed run calls a ready page anything else, or generates it again if AgentWiki
\* kept it, and no ready page is taken away from its readers.
THEOREM ReadyIsKeptAlways == Spec => ReadyIsKept
<1> DEFINE Again(w, k) ==
             /\ k \notin cached[w] /\ k \in saved'[w] /\ doc'[w].pages[k] = "running"
             /\ page = k /\ \E i \in Request : wiki[i] = w /\ pc'[i] = "generating"
           Kept(w) == \A k \in Page :
             doc[w].pages[k] = "ready" /\ doc'[w].pages[k] # "ready" => Again(w, k)
<1>1. ASSUME IInv, KeptInv, Next, NEW w \in Wiki PROVE Kept(w)
  <2> USE <1>1
  <2>1. /\ doc = [v \in Wiki |-> doc[v]] /\ doc[w] \in Doc
        /\ \A k \in Page : doc[w].pages[k] = "ready" => k \in saved[w]
    BY Domains DEF IInv, DocInv, DocOK
  <2>2. doc[w].pages = [k \in Page |-> doc[w].pages[k]]
    BY <2>1 DEF Doc
  <2>3. ASSUME NEW i \in Request, Check(i) PROVE Kept(w)
    <3>1. CASE page \in cached[wiki[i]]
      BY <2>3, <3>1 DEF Check
    <3>2. CASE page \notin cached[wiki[i]]
      <4>1. /\ doc' = [doc EXCEPT ![wiki[i]].pages[page] = "running"]
            /\ Goto(i, "generating") /\ UNCHANGED saved
        BY <2>3, <3>2 DEF Check
      <4>2. pc'[i] = "generating"
        BY <4>1, Domains DEF IInv, Goto
      <4>3. ASSUME NEW k \in Page, doc[w].pages[k] = "ready", doc'[w].pages[k] # "ready"
            PROVE  Again(w, k)
        <5>1. w = wiki[i] /\ k = page /\ doc'[w].pages[k] = "running"
          BY <2>1, <2>2, <4>1, <4>3 DEF Doc
        <5> QED
          BY <2>1, <3>2, <4>1, <4>2, <4>3, <5>1
      <4> QED
        BY <4>3
    <3> QED
      BY <3>1, <3>2
  <2>4. ASSUME NEW i \in Request, Note(i) PROVE Kept(w)
    <3> DEFINE mark == IF pc[i] = "published" THEN "ready" ELSE "review"
    <3>1. doc' = [doc EXCEPT ![wiki[i]].pages[page] = mark]
      BY <2>4 DEF Note
    <3>2. \A k \in Page : w = wiki[i] /\ k = page /\ doc[w].pages[k] = "ready" => mark = "ready"
      BY <2>4 DEF Note, KeptInv, KeptOK
    <3> HIDE DEF mark
    <3>3. \A k \in Page : doc[w].pages[k] = "ready" => doc'[w].pages[k] = "ready"
      BY <2>1, <2>2, <3>1, <3>2 DEF Doc
    <3> QED
      BY <3>3
  <2>5. ASSUME NEW i \in Request, Finish(i) PROVE Kept(w)
    <3>1. doc'[w] = doc[w] \/ doc'[w].pages = Settled(doc[w].pages)
      BY <2>1, <2>5 DEF Finish, Doc
    <3> QED
      BY <2>2, <3>1 DEF Settled
  <2>6. ASSUME NEW i \in Request, Begin(i) \/ Create(i) PROVE Kept(w)
    <3>1. CASE w # wiki[i]
      <4>1. doc'[w] = doc[w]
        BY <2>1, <2>6, <3>1 DEF Begin, Create
      <4> QED
        BY <4>1
    <3>2. CASE w = wiki[i] /\ Begin(i)
      <4>1. doc'[w] = [doc[w] EXCEPT !.rev = doc[w].rev + 1, !.status = "running", !.request = i]
        BY <2>1, <3>2 DEF Begin
      <4>2. doc'[w].pages = doc[w].pages
        BY <2>1, <4>1 DEF Doc
      <4> QED
        BY <4>2
    <3>3. CASE w = wiki[i] /\ Create(i)
      <4>1. doc'[w] = [doc[w] EXCEPT !.status = "queued"]
        BY <2>1, <3>3 DEF Create
      <4>2. doc'[w].pages = doc[w].pages
        BY <2>1, <4>1 DEF Doc
      <4> QED
        BY <4>2
    <3> QED
      BY <2>6, <3>1, <3>2, <3>3
  <2>7. ASSUME NEW i \in Request, Submission(i), ~Create(i) PROVE UNCHANGED doc
    BY <2>7 DEF Submission, Refuse, Enqueue, EnqueueFails, EnqueueUnanswered, DispatchFails,
                Enqueued, store
  <2>8. ASSUME NEW i \in Request, Run(i), ~Begin(i), ~Check(i), ~Note(i), ~Finish(i)
        PROVE  UNCHANGED doc
    BY <2>8 DEF Run, Skip, GiveUp, MarkBusy, Generate, Conclude, Publish, Halt, ConnectFails,
                FinishFails, store
  <2>9. CASE \/ \E i \in Request, p \in Process, v \in Wiki : Admit(i, p, v)
             \/ CancelWrite \/ CancelFails
             \/ \E v \in Wiki : CancelRead(v) \/ PublishWiki(v) \/ UnpublishWiki(v)
             \/ \E p \in Process : Close(p) \/ Die(p)
    BY <2>9 DEF Admit, CancelWrite, CancelFails, CancelRead, PublishWiki, UnpublishWiki,
                Close, Die, store
  <2>10. UNCHANGED doc => Kept(w)
    OBVIOUS
  <2> HIDE DEF Kept
  <2> QED
    BY <2>3, <2>4, <2>5, <2>6, <2>7, <2>8, <2>9, <2>10 DEF Next
<1>2. IInv /\ KeptInv /\ [Next]_vars =>
        [\A w \in Wiki : \A k \in Page :
           doc[w].pages[k] = "ready" /\ doc'[w].pages[k] # "ready" =>
             /\ k \notin cached[w] /\ k \in saved'[w] /\ doc'[w].pages[k] = "running"
             /\ page = k /\ \E i \in Request : wiki[i] = w /\ pc'[i] = "generating"]_doc
  <2>1. UNCHANGED vars => UNCHANGED doc
    BY DEF vars, store
  <2> QED
    BY <1>1, <2>1
<1> QED
  BY <1>2, Invariance, KeptHolds, PTL DEF Spec, ReadyIsKept
=============================================================================

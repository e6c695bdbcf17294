-------------------------- MODULE AiServer_proofs ---------------------------
(***************************************************************************)
(* Proofs about the derived data of the server, for every value of the     *)
(* constants: the embedding index (AiIndex) and the graph of entities      *)
(* (AiExtract).  Both compare a position with the notes, read them and act *)
(* later on what they read; the notes, the settings and the process change *)
(* in between.                                                             *)
(***************************************************************************)
EXTENDS AiIndex, AiExtract, FiniteSetTheorems, TLAPS

-----------------------------------------------------------------------------
(***************************************************************************)
(* The index: any documents, configurations, attempts, edits and resets.   *)
(*                                                                         *)
(* NothingMissed is not inductive.  The invariant says what a position     *)
(* means: one that has caught up with the notes, in a worker's hands or in *)
(* a generation, stands for the documents as they are, because it is read  *)
(* before them.  Of a generation's rows it says that jobs are for the text *)
(* seen last, so that an answer is written only where it is wanted.        *)
(***************************************************************************)

Texts == [Documents -> Nat]
IndexJob == [text : Nat, tries : Nat, terminal : BOOLEAN]
IndexJobs == [Documents -> IndexJob]
Generation == [status : {"unused", "building", "active", "retired"}, cursor : Int, count : Nat,
               vectors : Texts, jobs : IndexJobs, seen : Texts]
Tick == [stage : {"off", "cursor", "scan", "commit", "take", "embed", "write", "sleep"},
         gen : Generations, token : Int, docs : Texts, taken : Texts, count : Nat,
         writing : BOOLEAN]

IndexTyped ==
    /\ corpus \in [text : Texts, token : Nat]
    /\ gens \in [Generations -> Generation]
    /\ tick \in [Workers -> Tick]
    /\ serving \in Generations
    /\ config \in Workers

\* A worker's position is never ahead of the notes, and one that has caught up
\* with them stands for the documents as they are.
TickTrue(t) ==
    /\ t.token <= corpus.token
    /\ t.stage = "commit" /\ t.token = corpus.token => t.docs = corpus.text

\* The same of a generation and the documents it has seen.
CursorTrue(g) ==
    /\ g.cursor <= corpus.token
    /\ g.cursor = corpus.token => g.seen = corpus.text

\* Jobs are for the text that was seen last, what is gone has no vectors, and
\* vectors of another text are being replaced.
RowsFollow(g) ==
    \A d \in Documents :
      /\ g.jobs[d].text # 0 => g.jobs[d].text = g.seen[d]
      /\ g.seen[d] = 0 => g.vectors[d] = 0
      /\ g.vectors[d] # g.seen[d] => g.jobs[d].text = g.seen[d]

\* Two generations in service are one.
ActiveUnique(all) ==
    \A g, h \in Generations :
      all[g].status = "active" /\ all[h].status = "active" => g = h

\* The inductive invariant of notes, generations and workers.
IndexInv ==
    /\ IndexTyped
    /\ \A w \in Workers : TickTrue(tick[w])
    /\ \A g \in Generations : CursorTrue(gens[g]) /\ RowsFollow(gens[g])
    /\ ActiveUnique(gens)

\* What goes into service has no job left.
Activations ==
    \A g \in Generations :
      gens'[g].status = "active" /\ gens[g].status # "active" => gens'[g].jobs = NoJobs
-----------------------------------------------------------------------------
\* The rows a generation and a worker start with.
LEMMA NewRows ==
  /\ NoText \in Texts /\ NoJob \in IndexJob /\ NoJobs \in IndexJobs
  /\ NoJob.text = 0
  /\ NewGeneration \in Generation /\ NewGeneration.cursor = -1
  /\ NewGeneration.status = "building" /\ RowsFollow(NewGeneration)
<1>1. /\ NoText \in Texts /\ NoJob \in IndexJob
      /\ NoJob.text = 0 /\ \A d \in Documents : NoText[d] = 0 /\ NoJobs[d] = NoJob
  BY DEF NoText, Texts, NoJob, IndexJob, NoJobs
<1>2. NoJobs \in IndexJobs
  BY <1>1 DEF NoJobs, IndexJobs
<1>3. /\ NewGeneration \in Generation /\ NewGeneration.cursor = -1
      /\ NewGeneration.status = "building"
  BY <1>1, <1>2 DEF NewGeneration, Generation
<1>4. RowsFollow(NewGeneration)
  BY <1>1 DEF NewGeneration, RowsFollow
<1> QED
  BY <1>1, <1>2, <1>3, <1>4

LEMMA UnusedRows ==
  /\ Unused \in Generation /\ Unused.cursor = -1 /\ Unused.status = "unused"
  /\ RowsFollow(Unused)
<1>1. /\ Unused \in Generation /\ Unused.cursor = -1 /\ Unused.status = "unused"
      /\ Unused.jobs = NewGeneration.jobs /\ Unused.seen = NewGeneration.seen
      /\ Unused.vectors = NewGeneration.vectors
  BY NewRows DEF Unused, Generation
<1> QED
  BY <1>1, NewRows DEF RowsFollow

\* A worker that starts or starts over has read nothing.
LEMMA IdleTick ==
  /\ Idle \in Tick /\ Idle.stage = "off" /\ Idle.token = 0
  /\ [Idle EXCEPT !.stage = "cursor"] \in Tick
  /\ [Idle EXCEPT !.stage = "cursor"].stage = "cursor"
  /\ [Idle EXCEPT !.stage = "cursor"].token = 0
<1>0. 1 \in Generations
  BY ConfigsAssumption DEF Generations
<1>1. Idle \in Tick /\ Idle.stage = "off" /\ Idle.token = 0
  BY <1>0, NewRows DEF Idle, Tick
<1> QED
  BY <1>1 DEF Tick

LEMMA FreshTick ==
  ASSUME NEW g \in Generations
  PROVE  LET t == [Idle EXCEPT !.stage = "cursor", !.gen = g]
         IN t \in Tick /\ t.stage = "cursor" /\ t.token = 0
<1> DEFINE s == [Idle EXCEPT !.stage = "cursor"]
           t == [Idle EXCEPT !.stage = "cursor", !.gen = g]
<1>1. s \in Tick /\ s.stage = "cursor" /\ s.token = 0
  BY IdleTick
<1>2. t = [s EXCEPT !.gen = g]
  OBVIOUS
<1> HIDE DEF s
<1>3. t \in Tick /\ t.stage = "cursor" /\ t.token = 0
  BY <1>1, <1>2 DEF Tick
<1> QED
  BY <1>3

\* What a reconciliation leaves in a generation.
LEMMA ReconciledRows ==
  ASSUME NEW g \in Generation, NEW docs \in Texts
  PROVE  /\ Reconciled(g, docs) \in Generation
         /\ Reconciled(g, docs).seen = docs
         /\ Reconciled(g, docs).status = g.status
         /\ RowsFollow(Reconciled(g, docs))
<1> DEFINE jobs == [d \in Documents |->
                      IF docs[d] = 0 \/ g.vectors[d] = docs[d] THEN NoJob
                      ELSE IF g.jobs[d].text = docs[d] THEN g.jobs[d]
                      ELSE [NoJob EXCEPT !.text = docs[d]]]
           vectors == [d \in Documents |-> IF docs[d] = 0 THEN 0 ELSE g.vectors[d]]
           r == Reconciled(g, docs)
<1>1. ASSUME NEW d \in Documents
      PROVE  /\ jobs[d] \in IndexJob /\ vectors[d] \in Nat
             /\ jobs[d].text # 0 => jobs[d].text = docs[d]
             /\ docs[d] = 0 => vectors[d] = 0
             /\ vectors[d] # docs[d] => jobs[d].text = docs[d]
  <2>1. docs[d] \in Nat /\ g.vectors[d] \in Nat /\ g.jobs[d] \in IndexJob
    BY DEF Texts, Generation, IndexJobs
  <2>2. /\ [NoJob EXCEPT !.text = docs[d]] \in IndexJob
        /\ [NoJob EXCEPT !.text = docs[d]].text = docs[d]
    BY <2>1, NewRows DEF IndexJob
  <2> QED
    BY <2>1, <2>2, NewRows
<1>2. jobs \in IndexJobs /\ vectors \in Texts
  BY <1>1 DEF IndexJobs, Texts
<1> HIDE DEF jobs, vectors
<1>3. r = [[[g EXCEPT !.jobs = jobs] EXCEPT !.vectors = vectors] EXCEPT !.seen = docs]
  BY DEF Reconciled, jobs, vectors, Generation
<1> DEFINE a == [g EXCEPT !.jobs = jobs]
           b == [a EXCEPT !.vectors = vectors]
<1>4. a \in Generation /\ a.jobs = jobs /\ a.status = g.status
  BY <1>2 DEF Generation
<1>4a. r = [b EXCEPT !.seen = docs]
  BY <1>3
<1> HIDE DEF a
<1>5. b \in Generation /\ b.jobs = jobs /\ b.vectors = vectors /\ b.status = g.status
  BY <1>2, <1>4 DEF Generation
<1> HIDE DEF b, r
<1>6. /\ r \in Generation /\ r.jobs = jobs /\ r.vectors = vectors /\ r.seen = docs
      /\ r.status = g.status
  BY <1>4a, <1>5 DEF Generation
<1>7. RowsFollow(r)
  BY <1>1, <1>6 DEF RowsFollow
<1> QED
  BY <1>6, <1>7 DEF r

\* Activation changes the status alone: of the complete generation, and of the one
\* in service before.
LEMMA ActivatedRows ==
  ASSUME NEW all \in [Generations -> Generation], NEW i \in Generations, NEW count,
         ActiveUnique(all), NEW now, now = Activated(all, i, count)
  PROVE  /\ now \in [Generations -> Generation]
         /\ ActiveUnique(now)
         /\ \A g \in Generations :
              /\ now[g].cursor = all[g].cursor /\ now[g].jobs = all[g].jobs
              /\ now[g].vectors = all[g].vectors /\ now[g].seen = all[g].seen
              /\ now[g].status = "active" /\ all[g].status # "active" => now[g].jobs = NoJobs
<1>1. CASE ~Complete(all[i], count)
  BY <1>1 DEF Activated
<1>2. CASE Complete(all[i], count)
  <2> DEFINE new(j) == IF j = i THEN [all[j] EXCEPT !.status = "active"]
                       ELSE IF all[j].status = "active" THEN [all[j] EXCEPT !.status = "retired"]
                       ELSE all[j]
  <2>1. Activated(all, i, count) = [j \in Generations |-> new(j)]
    BY <1>2 DEF Activated
  <2>2. ASSUME NEW j \in Generations
        PROVE  /\ new(j) \in Generation
               /\ new(j).cursor = all[j].cursor /\ new(j).jobs = all[j].jobs
               /\ new(j).vectors = all[j].vectors /\ new(j).seen = all[j].seen
               /\ new(j).status = "active" => j = i
    BY DEF Generation
  <2>3. all[i].jobs = NoJobs
    BY <1>2 DEF Complete
  <2> HIDE DEF new
  <2> QED
    BY <2>1, <2>2, <2>3 DEF ActiveUnique
<1> QED
  BY <1>1, <1>2

\* One generation is rewritten and perhaps activated.
LEMMA GensStep ==
  ASSUME IndexInv, UNCHANGED <<corpus, serving, config>>,
         NEW i \in Generations, NEW new \in Generation, NEW count,
         CursorTrue(new), RowsFollow(new), new.status = gens[i].status,
         gens' = Activated([gens EXCEPT ![i] = new], i, count)
  PROVE  /\ gens' \in [Generations -> Generation] /\ ActiveUnique(gens') /\ Activations
         /\ \A g \in Generations : CursorTrue(gens[g])' /\ RowsFollow(gens[g])'
<1> DEFINE all == [gens EXCEPT ![i] = new]
<1>1. /\ all \in [Generations -> Generation]
      /\ \A g \in Generations : all[g] = IF g = i THEN new ELSE gens[g]
  BY DEF IndexInv, IndexTyped
<1>2. ActiveUnique(all) /\ \A g \in Generations : all[g].status = gens[g].status
  BY <1>1 DEF IndexInv, ActiveUnique
<1>3. gens' = Activated(all, i, count)
  OBVIOUS
<1> HIDE DEF all
<1>4. /\ gens' \in [Generations -> Generation] /\ ActiveUnique(gens')
      /\ \A g \in Generations :
              /\ gens'[g].cursor = all[g].cursor /\ gens'[g].jobs = all[g].jobs
              /\ gens'[g].vectors = all[g].vectors /\ gens'[g].seen = all[g].seen
              /\ gens'[g].status = "active" /\ all[g].status # "active" =>
                   gens'[g].jobs = NoJobs
  <2>1. ASSUME NEW now, now = Activated(all, i, count)
        PROVE  /\ now \in [Generations -> Generation] /\ ActiveUnique(now)
               /\ \A g \in Generations :
                    /\ now[g].cursor = all[g].cursor /\ now[g].jobs = all[g].jobs
                    /\ now[g].vectors = all[g].vectors /\ now[g].seen = all[g].seen
                    /\ now[g].status = "active" /\ all[g].status # "active" =>
                         now[g].jobs = NoJobs
    BY <1>1, <1>2, <2>1, ActivatedRows
  <2> QED
    BY <1>3, <2>1
<1>5. Activations
  BY <1>2, <1>4 DEF Activations
<1>6. ASSUME NEW g \in Generations PROVE CursorTrue(all[g]) /\ RowsFollow(all[g])
  BY <1>1 DEF IndexInv
<1>7. ASSUME NEW g \in Generations PROVE CursorTrue(gens[g])' /\ RowsFollow(gens[g])'
  <2>1. /\ gens'[g].cursor = all[g].cursor /\ gens'[g].jobs = all[g].jobs
        /\ gens'[g].vectors = all[g].vectors /\ gens'[g].seen = all[g].seen
    BY <1>4
  <2>2. CursorTrue(gens[g])'
    BY <1>6, <2>1 DEF CursorTrue
  <2>3. RowsFollow(gens[g])'
    BY <1>6, <2>1 DEF RowsFollow
  <2> QED
    BY <2>2, <2>3
<1> QED
  BY <1>4, <1>5, <1>7

\* One generation is rewritten and not activated.
LEMMA GensRewritten ==
  ASSUME IndexInv, UNCHANGED corpus,
         NEW i \in Generations, NEW new \in Generation,
         CursorTrue(new), RowsFollow(new),
         new.status = "active" => gens[i].status = "active",
         gens' = [gens EXCEPT ![i] = new]
  PROVE  /\ gens' \in [Generations -> Generation] /\ ActiveUnique(gens') /\ Activations
         /\ \A g \in Generations : CursorTrue(gens[g])' /\ RowsFollow(gens[g])'
<1>1. /\ gens' \in [Generations -> Generation]
      /\ \A g \in Generations : gens'[g] = IF g = i THEN new ELSE gens[g]
  BY DEF IndexInv, IndexTyped
<1>2. ActiveUnique(gens') /\ Activations
  BY <1>1 DEF IndexInv, ActiveUnique, Activations
<1>3. ASSUME NEW g \in Generations PROVE CursorTrue(gens[g])' /\ RowsFollow(gens[g])'
  <2>1. CursorTrue(gens'[g]) /\ RowsFollow(gens'[g])
    BY <1>1 DEF IndexInv
  <2> QED
    BY <2>1 DEF CursorTrue, RowsFollow
<1> QED
  BY <1>1, <1>2, <1>3

\* One worker takes a step.
LEMMA TickStep ==
  ASSUME IndexInv, UNCHANGED corpus, NEW w \in Workers, NEW new \in Tick, TickTrue(new),
         tick' = [tick EXCEPT ![w] = new]
  PROVE  /\ tick' \in [Workers -> Tick]
         /\ \A v \in Workers : TickTrue(tick[v])'
<1>1. /\ tick' \in [Workers -> Tick]
      /\ \A v \in Workers : tick'[v] = IF v = w THEN new ELSE tick[v]
  BY DEF IndexInv, IndexTyped
<1>2. ASSUME NEW v \in Workers PROVE TickTrue(tick[v])'
  <2>1. TickTrue(tick'[v])
    BY <1>1 DEF IndexInv
  <2> QED
    BY <2>1 DEF TickTrue
<1> QED
  BY <1>1, <1>2

\* The generations are left alone.
LEMMA GensRest ==
  ASSUME IndexInv, UNCHANGED <<corpus, gens, serving, config>>,
         tick' \in [Workers -> Tick], \A v \in Workers : TickTrue(tick[v])'
  PROVE  IndexInv' /\ Activations
<1>1. ASSUME NEW g \in Generations PROVE CursorTrue(gens[g])' /\ RowsFollow(gens[g])'
  BY DEF IndexInv, CursorTrue, RowsFollow
<1>2. ActiveUnique(gens')
  BY DEF IndexInv
<1> QED
  BY <1>1, <1>2 DEF IndexInv, IndexTyped, Activations
-----------------------------------------------------------------------------
(* The fields of a worker's record that its steps rewrite.                 *)

Scanned(t, stage, count) ==
    [t EXCEPT !.stage = stage, !.count = count, !.docs = NoText, !.token = 0]
Behind(t, token) == [t EXCEPT !.stage = "scan", !.token = token]
HasRead(t, docs) == [t EXCEPT !.stage = "commit", !.docs = docs]

LEMMA TickScanned ==
  ASSUME NEW t \in Tick, NEW stage \in {"write", "take"}, NEW count \in Nat
  PROVE  /\ Scanned(t, stage, count) \in Tick
         /\ Scanned(t, stage, count).stage = stage
         /\ Scanned(t, stage, count).token = 0
<1> DEFINE a == [t EXCEPT !.stage = stage]
           b == [a EXCEPT !.count = count]
           c == [b EXCEPT !.docs = NoText]
<1>1. a \in Tick /\ a.stage = stage
  BY DEF Tick
<1>2. Scanned(t, stage, count) = [c EXCEPT !.token = 0]
  BY DEF Scanned
<1> HIDE DEF a
<1>3. b \in Tick /\ b.stage = stage
  BY <1>1 DEF Tick
<1> HIDE DEF b
<1>4. c \in Tick /\ c.stage = stage
  BY <1>3, NewRows DEF Tick
<1> HIDE DEF c
<1> QED
  BY <1>2, <1>4 DEF Tick

LEMMA TickRead ==
  ASSUME NEW t \in Tick, NEW docs \in Texts, NEW token \in Int
  PROVE  /\ Behind(t, token) \in Tick
         /\ Behind(t, token).stage = "scan" /\ Behind(t, token).token = token
         /\ HasRead(t, docs) \in Tick
         /\ HasRead(t, docs).docs = docs /\ HasRead(t, docs).token = t.token
<1> DEFINE a == [t EXCEPT !.stage = "scan"]
           b == [t EXCEPT !.stage = "commit"]
<1>1. a \in Tick /\ a.stage = "scan" /\ b \in Tick /\ b.token = t.token
  BY DEF Tick
<1>2. Behind(t, token) = [a EXCEPT !.token = token] /\ HasRead(t, docs) = [b EXCEPT !.docs = docs]
  BY DEF Behind, HasRead
<1> HIDE DEF a, b
<1>3. /\ Behind(t, token) \in Tick
      /\ Behind(t, token).stage = "scan" /\ Behind(t, token).token = token
  BY <1>1, <1>2 DEF Tick
<1>4. /\ HasRead(t, docs) \in Tick
      /\ HasRead(t, docs).docs = docs /\ HasRead(t, docs).token = t.token
  BY <1>1, <1>2 DEF Tick
<1> QED
  BY <1>3, <1>4

LEMMA TickAsked ==
  ASSUME NEW t \in Tick, NEW taken \in Texts
  PROVE  /\ [t EXCEPT !.stage = "sleep", !.writing = FALSE, !.count = 0] \in Tick
         /\ [t EXCEPT !.stage = "sleep", !.writing = FALSE, !.count = 0].stage = "sleep"
         /\ [t EXCEPT !.stage = "sleep", !.writing = FALSE, !.count = 0].token = t.token
         /\ [t EXCEPT !.stage = "embed", !.taken = taken] \in Tick
         /\ [t EXCEPT !.stage = "embed", !.taken = taken].stage = "embed"
         /\ [t EXCEPT !.stage = "embed", !.taken = taken].token = t.token
         /\ [t EXCEPT !.stage = "cursor", !.writing = TRUE, !.taken = taken] \in Tick
         /\ [t EXCEPT !.stage = "cursor", !.writing = TRUE, !.taken = taken].stage = "cursor"
         /\ [t EXCEPT !.stage = "cursor", !.writing = TRUE, !.taken = taken].token = t.token
<1> DEFINE a == [t EXCEPT !.stage = "sleep"]
           b == [a EXCEPT !.writing = FALSE]
           c == [t EXCEPT !.stage = "embed"]
           d == [t EXCEPT !.stage = "cursor"]
           e == [d EXCEPT !.writing = TRUE]
           r == [t EXCEPT !.stage = "sleep", !.writing = FALSE, !.count = 0]
           s == [t EXCEPT !.stage = "embed", !.taken = taken]
           u == [t EXCEPT !.stage = "cursor", !.writing = TRUE, !.taken = taken]
<1>1. /\ a \in Tick /\ a.stage = "sleep" /\ a.token = t.token
      /\ c \in Tick /\ c.stage = "embed" /\ c.token = t.token
      /\ d \in Tick /\ d.stage = "cursor" /\ d.token = t.token
  BY DEF Tick
<1>2. r = [b EXCEPT !.count = 0] /\ s = [c EXCEPT !.taken = taken]
      /\ u = [e EXCEPT !.taken = taken]
  OBVIOUS
<1> HIDE DEF a, c, d
<1>3. /\ b \in Tick /\ b.stage = "sleep" /\ b.token = t.token
      /\ e \in Tick /\ e.stage = "cursor" /\ e.token = t.token
  BY <1>1 DEF Tick
<1> HIDE DEF b, e
<1>4. r \in Tick /\ r.stage = "sleep" /\ r.token = t.token
  BY <1>2, <1>3 DEF Tick
<1>5. s \in Tick /\ s.stage = "embed" /\ s.token = t.token
  BY <1>1, <1>2 DEF Tick
<1>6. u \in Tick /\ u.stage = "cursor" /\ u.token = t.token
  BY <1>2, <1>3 DEF Tick
<1> QED
  BY <1>4, <1>5, <1>6
-----------------------------------------------------------------------------
(* The transactions of a worker, live or outlived.                         *)

LEMMA CommitStep ==
  ASSUME IndexInv, NEW w \in Workers, CommitReconcile(w)
  PROVE  IndexInv' /\ Activations
<1> DEFINE t == tick[w]
           i == t.gen
           count == Cardinality(Present(t.docs))
           r == Reconciled(gens[i], t.docs)
           g == [r EXCEPT !.cursor = t.token, !.count = count]
           stage == IF t.writing THEN "write" ELSE "take"
           new == Scanned(t, stage, count)
<1>1. /\ t \in Tick /\ t.docs \in Texts /\ i \in Generations /\ t.token \in Int
      /\ gens[i] \in Generation /\ TickTrue(t) /\ t.stage = "commit"
  BY DEF IndexInv, IndexTyped, Tick, CommitReconcile
<1>2. count \in Nat
  BY DocumentsAssumption, FS_Subset, FS_CardinalityType DEF Present
<1>3. /\ gens' = Activated([gens EXCEPT ![i] = g], i, count)
      /\ tick' = [tick EXCEPT ![w] = new]
      /\ UNCHANGED <<corpus, serving, config>>
  BY DEF CommitReconcile, Scanned
<1>4. /\ r \in Generation /\ r.seen = t.docs /\ r.status = gens[i].status /\ RowsFollow(r)
  BY <1>1, ReconciledRows
<1>5. stage \in {"write", "take"}
  OBVIOUS
<1> HIDE DEF t, i, count, r, stage
<1>6. new \in Tick /\ new.stage = stage /\ new.token = 0
  BY <1>1, <1>2, <1>5, TickScanned
<1>7. /\ g \in Generation /\ g.seen = r.seen /\ g.status = r.status /\ g.jobs = r.jobs
      /\ g.vectors = r.vectors /\ g.cursor = t.token
  <2> DEFINE c == [r EXCEPT !.cursor = t.token]
  <2>1. /\ c \in Generation /\ c.seen = r.seen /\ c.status = r.status /\ c.jobs = r.jobs
        /\ c.vectors = r.vectors /\ c.cursor = t.token
    BY <1>1, <1>4 DEF Generation
  <2>2. g = [c EXCEPT !.count = count]
    OBVIOUS
  <2> HIDE DEF c, g
  <2> QED
    BY <1>2, <2>1, <2>2 DEF Generation
<1> HIDE DEF new, g
<1>8. RowsFollow(g)
  BY <1>4, <1>7 DEF RowsFollow
<1>9. CursorTrue(g)
  BY <1>1, <1>4, <1>7 DEF CursorTrue, TickTrue
<1>10. TickTrue(new)
  BY <1>5, <1>6 DEF TickTrue, IndexInv, IndexTyped
<1>11. /\ gens' \in [Generations -> Generation] /\ ActiveUnique(gens') /\ Activations
       /\ \A h \in Generations : CursorTrue(gens[h])' /\ RowsFollow(gens[h])'
  BY <1>1, <1>3, <1>4, <1>7, <1>8, <1>9, GensStep
<1>12. tick' \in [Workers -> Tick] /\ \A v \in Workers : TickTrue(tick[v])'
  BY <1>3, <1>6, <1>10, TickStep
<1> QED
  BY <1>3, <1>11, <1>12 DEF IndexInv, IndexTyped

LEMMA WriteStep ==
  ASSUME IndexInv, NEW w \in Workers, WriteEmbeddings(w)
  PROVE  IndexInv' /\ Activations
<1> DEFINE t == tick[w]
           i == t.gen
           g == gens[i]
           wanted == {d \in Present(t.taken) : StillCurrent(g, d, t.taken[d])}
           vectors == [d \in Documents |-> IF d \in wanted THEN t.taken[d] ELSE g.vectors[d]]
           jobs == [d \in Documents |-> IF d \in wanted THEN NoJob ELSE g.jobs[d]]
           after == [g EXCEPT !.vectors = vectors, !.jobs = jobs]
           new == [Idle EXCEPT !.stage = "cursor", !.gen = i]
<1>1. t \in Tick /\ t.taken \in Texts /\ i \in Generations
  BY DEF IndexInv, IndexTyped, Tick
<1>2. g \in Generation /\ CursorTrue(g) /\ RowsFollow(g)
  BY <1>1 DEF IndexInv, IndexTyped
<1>3. /\ gens' = Activated([gens EXCEPT ![i] = after], i, t.count)
      /\ tick' = [tick EXCEPT ![w] = new]
      /\ UNCHANGED <<corpus, serving, config>>
  BY DEF WriteEmbeddings
<1> HIDE DEF t, i, g
<1>4. ASSUME NEW d \in Documents
      PROVE  /\ vectors[d] \in Nat /\ jobs[d] \in IndexJob
             /\ jobs[d].text # 0 => jobs[d].text = g.seen[d]
             /\ g.seen[d] = 0 => vectors[d] = 0
             /\ vectors[d] # g.seen[d] => jobs[d].text = g.seen[d]
  <2>1. /\ g.vectors[d] \in Nat /\ g.jobs[d] \in IndexJob /\ t.taken[d] \in Nat
    BY <1>1, <1>2 DEF Generation, Texts, IndexJobs
  <2>2. /\ g.jobs[d].text # 0 => g.jobs[d].text = g.seen[d]
        /\ g.seen[d] = 0 => g.vectors[d] = 0
        /\ g.vectors[d] # g.seen[d] => g.jobs[d].text = g.seen[d]
    BY <1>2 DEF RowsFollow
  <2>3. CASE d \in wanted
    <3>1. t.taken[d] # 0 /\ g.jobs[d].text = t.taken[d]
      BY <2>3 DEF Present, StillCurrent
    <3>2. vectors[d] = t.taken[d] /\ jobs[d] = NoJob
      BY <2>3
    <3> QED
      BY <2>1, <2>2, <3>1, <3>2, NewRows
  <2>4. CASE d \notin wanted
    <3>1. vectors[d] = g.vectors[d] /\ jobs[d] = g.jobs[d]
      BY <2>4
    <3> QED
      BY <2>1, <2>2, <3>1
  <2> QED
    BY <2>3, <2>4
<1>5. vectors \in Texts /\ jobs \in IndexJobs
  BY <1>4 DEF Texts, IndexJobs
<1> HIDE DEF vectors, jobs
<1>6. /\ after \in Generation /\ after.seen = g.seen /\ after.status = g.status
      /\ after.jobs = jobs /\ after.vectors = vectors /\ after.cursor = g.cursor
  <2> DEFINE c == [g EXCEPT !.vectors = vectors]
  <2>1. /\ c \in Generation /\ c.seen = g.seen /\ c.status = g.status
        /\ c.vectors = vectors /\ c.cursor = g.cursor
    BY <1>2, <1>5 DEF Generation
  <2>2. after = [c EXCEPT !.jobs = jobs]
    OBVIOUS
  <2> HIDE DEF c, after
  <2> QED
    BY <1>5, <2>1, <2>2 DEF Generation
<1>7. new \in Tick /\ new.stage = "cursor" /\ new.token = 0
  BY <1>1, FreshTick
<1> HIDE DEF after, new
<1>8. RowsFollow(after)
  BY <1>4, <1>6 DEF RowsFollow
<1>9. CursorTrue(after)
  BY <1>2, <1>6 DEF CursorTrue
<1>10. TickTrue(new)
  BY <1>7 DEF TickTrue, IndexInv, IndexTyped
<1>11. /\ gens' \in [Generations -> Generation] /\ ActiveUnique(gens') /\ Activations
       /\ \A h \in Generations : CursorTrue(gens[h])' /\ RowsFollow(gens[h])'
  BY <1>1, <1>3, <1>6, <1>8, <1>9, GensStep DEF g
<1>12. tick' \in [Workers -> Tick] /\ \A v \in Workers : TickTrue(tick[v])'
  BY <1>3, <1>7, <1>10, TickStep
<1> QED
  BY <1>3, <1>11, <1>12 DEF IndexInv, IndexTyped
-----------------------------------------------------------------------------
(* Every step.                                                             *)

\* An index that is opened for the first time.
LEMMA IndexInitial == IndexInit => IndexInv
<1> SUFFICES ASSUME IndexInit PROVE IndexInv
    OBVIOUS
<1>0. 1 \in Generations /\ 1 \in Workers
  BY ConfigsAssumption DEF Generations, Workers
<1>1. corpus \in [text : Texts, token : Nat] /\ corpus.token = 0
  BY NewRows DEF IndexInit
<1>2. /\ gens \in [Generations -> Generation]
      /\ \A g \in Generations : gens[g].cursor = -1 /\ RowsFollow(gens[g])
                                /\ gens[g].status # "active"
  BY NewRows, UnusedRows DEF IndexInit
<1>3. /\ tick \in [Workers -> Tick]
      /\ \A w \in Workers : tick[w].token = 0 /\ tick[w].stage # "commit"
  BY IdleTick DEF IndexInit
<1>4. serving \in Generations /\ config \in Workers
  BY <1>0 DEF IndexInit
<1> QED
  BY <1>1, <1>2, <1>3, <1>4 DEF IndexInv, IndexTyped, TickTrue, CursorTrue, ActiveUnique

\* One step of the user, of a worker or of the provider.
LEMMA IndexStep == IndexInv /\ [IndexNext]_aiIndexVars => IndexInv' /\ Activations
<1> SUFFICES ASSUME IndexInv, [IndexNext]_aiIndexVars PROVE IndexInv' /\ Activations
    OBVIOUS
<1>t. /\ IndexTyped /\ corpus.token \in Nat /\ corpus.text \in Texts
      /\ \A w \in Workers : tick[w] \in Tick /\ TickTrue(tick[w]) /\ tick[w].gen \in Generations
                           /\ tick[w].token \in Int
      /\ \A g \in Generations : gens[g] \in Generation /\ CursorTrue(gens[g]) /\ RowsFollow(gens[g])
                               /\ gens[g].cursor \in Int
  BY DEF IndexInv, IndexTyped, Tick, Generation
<1>1. ASSUME NEW d \in Documents, Edit(d) PROVE IndexInv' /\ Activations
  <2>1. /\ corpus' \in [text : Texts, token : Nat] /\ corpus'.token = corpus.token + 1
    BY <1>1, <1>t DEF Edit, Texts
  <2>2. UNCHANGED <<gens, tick, serving, config>>
    BY <1>1 DEF Edit
  <2>3. ASSUME NEW w \in Workers PROVE TickTrue(tick[w])'
    BY <1>t, <2>1, <2>2 DEF TickTrue
  <2>4. ASSUME NEW g \in Generations PROVE CursorTrue(gens[g])' /\ RowsFollow(gens[g])'
    <3>1. CursorTrue(gens[g])'
      BY <1>t, <2>1, <2>2 DEF CursorTrue
    <3>2. RowsFollow(gens[g])'
      BY <1>t, <2>2 DEF RowsFollow
    <3> QED
      BY <3>1, <3>2
  <2>5. ActiveUnique(gens)' /\ Activations
    BY <2>2 DEF IndexInv, ActiveUnique, Activations
  <2> QED
    BY <2>1, <2>2, <2>3, <2>4, <2>5 DEF IndexInv, IndexTyped
<1>2. ASSUME NEW w \in Workers, ReadCursor(w) PROVE IndexInv' /\ Activations
  <2> DEFINE t == tick[w]
             g == gens[t.gen]
             stage == IF t.writing THEN "write" ELSE "take"
             known == Scanned(t, stage, g.count)
             behind == Behind(t, corpus.token)
  <2>1. UNCHANGED <<corpus, gens, serving, config>>
    BY <1>2 DEF ReadCursor
  <2>2. tick' = [tick EXCEPT ![w] = IF g.cursor = corpus.token THEN known ELSE behind]
    BY <1>2 DEF ReadCursor, AfterScan, ScanOrder, Scanned, Behind
  <2>3. /\ t \in Tick /\ g.count \in Nat /\ stage \in {"write", "take"} /\ corpus.token \in Int
    BY <1>t DEF Generation
  <2> HIDE DEF t, g, stage
  <2>4. known \in Tick /\ known.stage = stage /\ known.token = 0
    BY <2>3, TickScanned
  <2>5. behind \in Tick /\ behind.stage = "scan" /\ behind.token = corpus.token
    BY <1>t, <2>3, TickRead
  <2> HIDE DEF known, behind
  <2>6. TickTrue(known) /\ TickTrue(behind)
    BY <1>t, <2>3, <2>4, <2>5 DEF TickTrue
  <2>7. tick' \in [Workers -> Tick] /\ \A v \in Workers : TickTrue(tick[v])'
    <3>1. CASE g.cursor = corpus.token
      BY <2>1, <2>2, <2>4, <2>6, <3>1, TickStep
    <3>2. CASE g.cursor # corpus.token
      BY <2>1, <2>2, <2>5, <2>6, <3>2, TickStep
    <3> QED
      BY <3>1, <3>2
  <2> QED
    BY <2>1, <2>7, GensRest
<1>3. ASSUME NEW w \in Workers, ReadDocuments(w) PROVE IndexInv' /\ Activations
  <2> DEFINE t == tick[w]
             read == HasRead(t, corpus.text)
  <2>1. UNCHANGED <<corpus, gens, serving, config>> /\ tick' = [tick EXCEPT ![w] = read]
    BY <1>3 DEF ReadDocuments, AfterScan, ScanOrder, HasRead
  <2>2. t \in Tick /\ corpus.text \in Texts /\ 0 \in Int
    BY <1>t
  <2>3. t.token <= corpus.token
    BY <1>t DEF TickTrue
  <2> HIDE DEF t
  <2>4. read \in Tick /\ read.docs = corpus.text /\ read.token = t.token
    BY <2>2, TickRead
  <2> HIDE DEF read
  <2>5. TickTrue(read)
    BY <2>3, <2>4 DEF TickTrue
  <2> QED
    BY <2>1, <2>4, <2>5, TickStep, GensRest
<1>4. ASSUME NEW w \in Workers, TakeJobs(w) PROVE IndexInv' /\ Activations
  <2> DEFINE t == tick[w]
             due == {d \in Documents : Retryable(gens[t.gen].jobs[d])}
             taken == [d \in Documents |-> IF d \in due THEN gens[t.gen].jobs[d].text ELSE 0]
             rest == [t EXCEPT !.stage = "sleep", !.writing = FALSE, !.count = 0]
             ask == [t EXCEPT !.stage = "embed", !.taken = taken]
  <2>1. UNCHANGED <<corpus, gens, serving, config>>
    BY <1>4 DEF TakeJobs
  <2>2. tick' = [tick EXCEPT ![w] = IF due = {} THEN rest ELSE ask]
    BY <1>4 DEF TakeJobs
  <2>3. taken \in Texts
    <3>1. \A d \in Documents : gens[t.gen].jobs[d].text \in Nat
      BY <1>t DEF Generation, IndexJobs, IndexJob
    <3> QED
      BY <3>1 DEF Texts
  <2>4. t \in Tick /\ TickTrue(t)
    BY <1>t
  <2> HIDE DEF t, due, taken
  <2>5. /\ rest \in Tick /\ rest.stage = "sleep" /\ rest.token = t.token
        /\ ask \in Tick /\ ask.stage = "embed" /\ ask.token = t.token
    BY <2>3, <2>4, TickAsked, Zenon
  <2> HIDE DEF rest, ask
  <2>6. TickTrue(rest) /\ TickTrue(ask)
    BY <2>4, <2>5 DEF TickTrue
  <2>7. tick' \in [Workers -> Tick] /\ \A v \in Workers : TickTrue(tick[v])'
    <3>1. CASE due = {}
      BY <2>1, <2>2, <2>5, <2>6, <3>1, TickStep
    <3>2. CASE due # {}
      BY <2>1, <2>2, <2>5, <2>6, <3>2, TickStep
    <3> QED
      BY <3>1, <3>2
  <2> QED
    BY <2>1, <2>7, GensRest
<1>5. ASSUME NEW w \in Workers, NEW failed \in SUBSET Documents, NEW terminal \in BOOLEAN,
             Embed(w, failed, terminal)
      PROVE  IndexInv' /\ Activations
  <2> DEFINE t == tick[w]
             i == t.gen
             g == gens[i]
             jobs == [d \in Documents |->
                        IF d \in failed /\ g.jobs[d].text = t.taken[d]
                          THEN Failed(g.jobs[d], terminal) ELSE g.jobs[d]]
             after == [g EXCEPT !.jobs = jobs]
             taken == [d \in Documents |-> IF d \in failed THEN 0 ELSE t.taken[d]]
             new == [t EXCEPT !.stage = "cursor", !.writing = TRUE, !.taken = taken]
  <2>1. /\ UNCHANGED <<corpus, serving, config>> /\ tick' = [tick EXCEPT ![w] = new]
        /\ gens' = [gens EXCEPT ![i] = after]
    BY <1>5 DEF Embed
  <2>2. /\ t \in Tick /\ TickTrue(t) /\ i \in Generations /\ g \in Generation
        /\ CursorTrue(g) /\ RowsFollow(g)
    BY <1>t
  <2>3. taken \in Texts
    BY <2>2 DEF Texts, Tick
  <2> HIDE DEF t, taken, g
  <2>4. ASSUME NEW d \in Documents PROVE jobs[d] \in IndexJob /\ jobs[d].text = g.jobs[d].text
    <3> DEFINE q == g.jobs[d]
               tried == [q EXCEPT !.tries = q.tries + 1]
    <3>1. q \in IndexJob
      BY <2>2 DEF Generation, IndexJobs
    <3>2. jobs[d] = q \/ jobs[d] = [tried EXCEPT !.terminal = terminal]
      BY DEF Failed
    <3> HIDE DEF q
    <3>3. tried \in IndexJob /\ tried.text = q.text
      BY <3>1 DEF IndexJob
    <3> HIDE DEF tried
    <3>4. jobs[d] \in IndexJob /\ jobs[d].text = q.text
      <4> HIDE DEF jobs
      <4> QED
        BY <3>1, <3>2, <3>3 DEF IndexJob
    <3> QED
      BY <3>4 DEF q
  <2>5. jobs \in IndexJobs
    BY <2>4 DEF IndexJobs
  <2> HIDE DEF jobs
  <2>6. /\ after \in Generation /\ after.seen = g.seen /\ after.status = g.status
        /\ after.jobs = jobs /\ after.vectors = g.vectors /\ after.cursor = g.cursor
    BY <2>2, <2>5 DEF Generation
  <2>7. new \in Tick /\ new.stage = "cursor" /\ new.token = t.token
    BY <2>2, <2>3, TickAsked, Zenon
  <2> HIDE DEF after, new
  <2>8. RowsFollow(after)
    BY <2>2, <2>4, <2>6 DEF RowsFollow
  <2>9. CursorTrue(after)
    BY <2>2, <2>6 DEF CursorTrue
  <2>10. TickTrue(new)
    BY <2>2, <2>7 DEF TickTrue
  <2>11. /\ gens' \in [Generations -> Generation] /\ ActiveUnique(gens') /\ Activations
         /\ \A h \in Generations : CursorTrue(gens[h])' /\ RowsFollow(gens[h])'
    BY <2>1, <2>2, <2>6, <2>8, <2>9, GensRewritten DEF g
  <2>12. tick' \in [Workers -> Tick] /\ \A v \in Workers : TickTrue(tick[v])'
    BY <2>1, <2>7, <2>10, TickStep
  <2> QED
    BY <2>1, <2>11, <2>12 DEF IndexInv, IndexTyped
<1>6. ASSUME NEW w \in Workers, Wake(w) PROVE IndexInv' /\ Activations
  <2> DEFINE t == tick[w]
             new == [t EXCEPT !.stage = "cursor"]
  <2>1. UNCHANGED <<corpus, gens, serving, config>> /\ tick' = [tick EXCEPT ![w] = new]
    BY <1>6 DEF Wake
  <2>2. new \in Tick /\ new.stage = "cursor" /\ new.token = t.token
    BY <1>t DEF Tick
  <2>3. t.token <= corpus.token
    BY <1>t DEF TickTrue
  <2> HIDE DEF new
  <2>4. TickTrue(new)
    BY <2>2, <2>3 DEF TickTrue
  <2> QED
    BY <2>1, <2>2, <2>4, TickStep, GensRest
<1>7. ASSUME NEW w \in Workers, Reap(w) PROVE IndexInv' /\ Activations
  <2>1. UNCHANGED <<corpus, gens, serving, config>> /\ tick' = [tick EXCEPT ![w] = Idle]
    BY <1>7 DEF Reap
  <2>2. TickTrue(Idle)
    BY <1>t, IdleTick DEF TickTrue
  <2> QED
    BY <2>1, <2>2, IdleTick, TickStep, GensRest
<1>8. ASSUME NEW g \in Generations, UpdateProvider(g) PROVE IndexInv' /\ Activations
  <2> DEFINE new == IF Reopens(g) THEN gens[g] ELSE NewGeneration
             old == IF Submitted(tick[config]) THEN tick[config] ELSE Idle
             next == [Idle EXCEPT !.stage = "cursor", !.gen = g]
  <2>1. /\ gens' = [gens EXCEPT ![g] = new]
        /\ tick' = [tick EXCEPT ![config] = old, ![config + 1] = next]
        /\ serving' = g /\ config' = config + 1 /\ corpus' = corpus /\ config < MaxConfigs
    BY <1>8 DEF UpdateProvider
  <2>2. config \in Workers /\ config + 1 \in Workers
    BY <1>t, <2>1, ConfigsAssumption DEF IndexTyped, Workers
  <2>3. next \in Tick /\ TickTrue(next)
    <3>1. next \in Tick /\ next.stage = "cursor" /\ next.token = 0
      BY FreshTick
    <3> HIDE DEF next
    <3> QED
      BY <1>t, <3>1 DEF TickTrue
  <2>4. old \in Tick /\ TickTrue(old)
    <3>1. TickTrue(Idle)
      BY <1>t, IdleTick DEF TickTrue
    <3> QED
      BY <1>t, <2>2, <3>1, IdleTick
  <2>5. /\ new \in Generation /\ CursorTrue(new) /\ RowsFollow(new)
        /\ new.status = "active" => gens[g].status = "active"
    <3>1. CursorTrue(NewGeneration)
      BY <1>t, NewRows DEF CursorTrue
    <3> QED
      BY <1>t, <3>1, NewRows
  <2> HIDE DEF new, old, next
  <2>6. /\ gens' \in [Generations -> Generation] /\ ActiveUnique(gens') /\ Activations
        /\ \A h \in Generations : CursorTrue(gens[h])' /\ RowsFollow(gens[h])'
    BY <2>1, <2>5, GensRewritten
  <2>7. /\ tick' \in [Workers -> Tick]
        /\ \A v \in Workers : tick'[v] \in {next, old, tick[v]}
    BY <1>t, <2>1, <2>2, <2>3, <2>4 DEF IndexTyped
  <2>8. ASSUME NEW v \in Workers PROVE TickTrue(tick[v])'
    <3>1. TickTrue(tick'[v])
      BY <1>t, <2>3, <2>4, <2>7
    <3> QED
      BY <2>1, <3>1 DEF TickTrue
  <2> QED
    BY <1>t, <2>1, <2>2, <2>6, <2>7, <2>8 DEF IndexInv, IndexTyped
<1>9. CASE Reindex
  <2>1. /\ UNCHANGED <<corpus, tick, serving, config>>
        /\ gens' = [gens EXCEPT ![serving] = NewGeneration] /\ serving \in Generations
    BY <1>9, <1>t DEF Reindex, IndexTyped
  <2>2. CursorTrue(NewGeneration)
    BY <1>t, NewRows DEF CursorTrue
  <2>3. /\ gens' \in [Generations -> Generation] /\ ActiveUnique(gens') /\ Activations
        /\ \A h \in Generations : CursorTrue(gens[h])' /\ RowsFollow(gens[h])'
    BY <2>1, <2>2, NewRows, GensRewritten
  <2>4. \A v \in Workers : TickTrue(tick[v])'
    BY <1>t, <2>1 DEF TickTrue
  <2> QED
    BY <1>t, <2>1, <2>3, <2>4 DEF IndexInv, IndexTyped
<1>10. CASE UNCHANGED aiIndexVars
  <2>1. \A v \in Workers : TickTrue(tick[v])'
    BY <1>t, <1>10 DEF TickTrue, aiIndexVars
  <2> QED
    BY <1>t, <1>10, <2>1, GensRest DEF aiIndexVars, IndexTyped
<1> QED
  BY <1>1, <1>2, <1>3, <1>4, <1>5, <1>6, <1>7, <1>8, <1>9, <1>10, CommitStep, WriteStep
     DEF IndexNext, Work, Outlived

\* The inductive invariant of the index: every position that has caught up with
\* the notes stands for the documents as they are, rows follow what was seen, one
\* generation is in service.
THEOREM IndexInvariant == IndexSpec => []IndexInv
BY IndexInitial, IndexStep, PTL DEF IndexSpec

\* The index never forgets a text, outdated vectors are being replaced, and the one
\* generation in service went there complete, for any documents, configurations,
\* attempts and resets (reconcile, write_embeddings,
\* activate_generation_if_complete).
THEOREM IndexHonestTheorem == IndexSpec => IndexHonest
<1>1. IndexInv => NothingMissed /\ VectorsWanted
  <2> SUFFICES ASSUME IndexInv PROVE NothingMissed /\ VectorsWanted
      OBVIOUS
  <2>1. VectorsWanted
    BY DEF IndexInv, RowsFollow, VectorsWanted
  <2>2. \A g \in Generations : gens[g].cursor = corpus.token => gens[g].seen = corpus.text
    BY DEF IndexInv, CursorTrue
  <2> QED
    BY <2>1, <2>2 DEF NothingMissed, VectorsWanted
<1>2. IndexInv => OneActive
  <2> DEFINE active == {g \in Generations : gens[g].status = "active"}
  <2> SUFFICES ASSUME IndexInv PROVE Cardinality(active) <= 1
      BY DEF OneActive
  <2>1. CASE active = {}
    BY <2>1, FS_EmptySet
  <2>2. ASSUME NEW g \in active PROVE Cardinality(active) <= 1
    <3>1. active = {g}
      BY <2>2 DEF IndexInv, ActiveUnique
    <3>2. Cardinality({g}) = 1
      BY FS_Singleton
    <3> HIDE DEF active
    <3> QED
      BY <3>1, <3>2
  <2> QED
    BY <2>1, <2>2
<1>3. IndexInv' /\ Activations => ActiveComplete
  <2> SUFFICES ASSUME IndexInv', Activations, NEW g \in Generations,
                      gens'[g].status = "active", gens[g].status # "active"
               PROVE  gens'[g].vectors = gens'[g].seen
      BY DEF ActiveComplete
  <2>1. gens'[g].jobs = NoJobs
    BY DEF Activations
  <2>2. gens'[g].vectors \in Texts /\ gens'[g].seen \in Texts /\ RowsFollow(gens'[g])
    BY DEF IndexInv, IndexTyped, Generation
  <2>3. ASSUME NEW d \in Documents PROVE gens'[g].vectors[d] = gens'[g].seen[d]
    <3>1. gens'[g].jobs[d].text = 0
      BY <2>1, NewRows DEF NoJobs
    <3> QED
      BY <2>2, <3>1 DEF RowsFollow
  <2> QED
    BY <2>2, <2>3 DEF Texts
<1>4. IndexInv /\ [IndexNext]_aiIndexVars =>
        [NothingMissed' /\ VectorsWanted' /\ OneActive' /\ ActiveComplete]_aiIndexVars
  <2>1. IndexInv' => NothingMissed' /\ VectorsWanted' /\ OneActive'
    BY <1>1, <1>2, PTL
  <2> QED
    BY <2>1, <1>3, IndexStep
<1> QED
  BY <1>4, IndexInvariant, PTL DEF IndexSpec, IndexHonest
-----------------------------------------------------------------------------
(***************************************************************************)
(* Extraction: the graph follows the texts for any sources, names,         *)
(* attempts, edits and restarts.  What the worker read before an await may *)
(* be old when it is used; the invariant says for which of its reads that  *)
(* matters, and that the stored position tells when it does.               *)
(***************************************************************************)

Entry == [text : Nat, tries : Nat, terminal : BOOLEAN]
Jobs == {<<>>} \cup (Sources \X Nat)
Extractor == [stage : {"cursor", "scan", "commit", "forget", "take", "ask", "check", "finish",
                       "sleep"},
              token : Int, docs : [Sources -> Nat], stale : SUBSET Sources, job : Jobs,
              found : SUBSET Names]

ExtractTyped ==
    /\ texts \in [text : [Sources -> Nat], token : Nat]
    /\ extracted \in [Sources -> Nat]
    /\ edges \in [Sources -> SUBSET Names]
    /\ queue \in [Sources -> Entry]
    /\ position \in Int
    /\ extractor \in Extractor
    /\ extractor.stage \in {"ask", "check", "finish"} => extractor.job \in Sources \X Nat

\* Positions are read before the texts they stand for, so neither the stored nor
\* the worker's own is ever ahead of the notes.
PositionsBehind == position <= texts.token /\ extractor.token <= texts.token

\* What the worker read holds as long as nothing was edited since: the texts of
\* its scan, the sources it is to forget, the text its answer is about.
ReadsValid ==
    /\ extractor.stage = "commit" /\ extractor.token = texts.token =>
         extractor.docs = texts.text
    /\ extractor.stage = "forget" /\ position = texts.token =>
         \A d \in extractor.stale : texts.text[d] = 0
    /\ extractor.stage = "finish" /\ position = texts.token =>
         texts.text[extractor.job[1]] = extractor.job[2]

\* The inductive invariant of notes, graph and worker.
ExtractInv ==
    ExtractTyped /\ PositionsBehind /\ ReadsValid /\ EntitiesReferenced /\ SourcesCovered
-----------------------------------------------------------------------------
\* A worker that starts over has read nothing.
LEMMA StartingOK ==
  /\ Starting \in Extractor /\ Starting.stage = "cursor" /\ Starting.token = 0
  /\ NoEntry \in Entry /\ NoEntry.text = 0 /\ NoEntry.tries = 0 /\ ~NoEntry.terminal
BY DEF Starting, Extractor, Jobs, NoEntry, Entry

\* Taking an edge set away, or replacing it, leaves exactly the entities the other
\* edges name when the unnamed candidates go with it.
LEMMA OrphansGone ==
  ASSUME NEW d \in Sources, NEW new \in SUBSET Names, edges \in [Sources -> SUBSET Names],
         EntitiesReferenced, edges' = [edges EXCEPT ![d] = new],
         entities' = (entities \cup new) \ Orphaned(edges[d] \cup new, edges')
  PROVE  EntitiesReferenced'
<1> DEFINE named == UNION {edges'[x] : x \in Sources}
<1>1. ASSUME NEW e PROVE e \in entities' <=> e \in named
  <2>1. e \in entities <=> \E x \in Sources : e \in edges[x]
    BY DEF EntitiesReferenced
  <2>2. e \in named <=> \E x \in Sources : e \in edges'[x]
    OBVIOUS
  <2>3. e \in Orphaned(edges[d] \cup new, edges') <=> e \in edges[d] \cup new /\ e \notin named
    BY DEF Orphaned
  <2>4. edges'[d] = new /\ \A x \in Sources \ {d} : edges'[x] = edges[x]
    OBVIOUS
  <2> HIDE DEF named
  <2> QED
    BY <2>1, <2>2, <2>3, <2>4
<1>2. entities' = named
  <2> HIDE DEF named
  <2> QED
    BY <1>1
<1> QED
  BY <1>2 DEF EntitiesReferenced

\* The invariant holds on an empty server.
LEMMA ExtractInitial == ExtractInit => ExtractInv
<1> SUFFICES ASSUME ExtractInit PROVE ExtractInv
    OBVIOUS
<1>1. ExtractTyped /\ extractor.stage = "cursor" /\ extractor.token = 0
  BY StartingOK DEF ExtractInit, ExtractTyped
<1>2. position = -1 /\ texts.token = 0
  BY DEF ExtractInit
<1>3. EntitiesReferenced
  BY DEF EntitiesReferenced, ExtractInit
<1> QED
  BY <1>1, <1>2, <1>3 DEF ExtractInv, PositionsBehind, ReadsValid, SourcesCovered

LEMMA ExtractStep == ExtractInv /\ [ExtractNext]_extractVars => ExtractInv' /\ FreshAttempts
<1> SUFFICES ASSUME ExtractInv, [ExtractNext]_extractVars PROVE ExtractInv' /\ FreshAttempts
    OBVIOUS
<1> USE DEF ExtractInv
<1>t. ExtractTyped
  OBVIOUS
<1>1. ASSUME NEW d \in Sources, EditSource(d) PROVE ExtractInv' /\ FreshAttempts
  <2>1. /\ texts' \in [text : [Sources -> Nat], token : Nat]
        /\ texts'.token = texts.token + 1
    BY <1>1 DEF EditSource, ExtractTyped
  <2>2. UNCHANGED <<extracted, edges, entities, queue, position, extractor, aiRestarts>>
    BY <1>1 DEF EditSource
  <2>3. ExtractTyped' /\ PositionsBehind'
    BY <2>1, <2>2 DEF ExtractTyped, PositionsBehind, Extractor
  <2>4. position # texts'.token /\ extractor.token # texts'.token
    BY <2>1 DEF ExtractTyped, PositionsBehind, Extractor
  <2>5. ReadsValid' /\ EntitiesReferenced' /\ SourcesCovered'
    BY <2>2, <2>4 DEF ReadsValid, EntitiesReferenced, SourcesCovered
  <2> QED
    BY <2>2, <2>3, <2>5 DEF FreshAttempts
<1>2. CASE ReadPosition
  <2>1. UNCHANGED <<texts, extracted, edges, entities, queue, position, aiRestarts>>
    BY <1>2 DEF ReadPosition
  <2>2. /\ extractor' \in Extractor /\ extractor'.stage \in {"take", "scan"}
        /\ extractor'.token \in {extractor.token, texts.token}
    <3>1. CASE position = texts.token
      BY <1>2, <3>1 DEF ReadPosition, ExtractTyped, Extractor
    <3>2. CASE position # texts.token
      <4> DEFINE scan == [extractor EXCEPT !.stage = "scan"]
      <4>1. scan \in Extractor /\ scan.stage = "scan"
        BY DEF ExtractTyped, Extractor
      <4>2. extractor' = [scan EXCEPT !.token = texts.token]
        BY <1>2, <3>2 DEF ReadPosition
      <4> HIDE DEF scan
      <4> QED
        BY <4>1, <4>2 DEF ExtractTyped, Extractor
    <3> QED
      BY <3>1, <3>2
  <2> QED
    BY <2>1, <2>2 DEF ExtractTyped, PositionsBehind, ReadsValid, EntitiesReferenced,
                      SourcesCovered, FreshAttempts
<1>3. CASE ReadSources
  <2>1. UNCHANGED <<texts, extracted, edges, entities, queue, position, aiRestarts>>
    BY <1>3 DEF ReadSources
  <2>2. /\ extractor' \in Extractor /\ extractor'.stage = "commit"
        /\ extractor'.token = extractor.token /\ extractor'.docs = texts.text
    <3> DEFINE read == [extractor EXCEPT !.stage = "commit"]
    <3>1. read \in Extractor /\ read.stage = "commit" /\ read.token = extractor.token
      BY DEF ExtractTyped, Extractor
    <3>2. extractor' = [read EXCEPT !.docs = texts.text]
      BY <1>3 DEF ReadSources
    <3> HIDE DEF read
    <3> QED
      BY <3>1, <3>2 DEF ExtractTyped, Extractor
  <2> QED
    BY <2>1, <2>2 DEF ExtractTyped, PositionsBehind, ReadsValid, EntitiesReferenced,
                      SourcesCovered, FreshAttempts
<1>4. CASE CommitSources
  <2> DEFINE docs == extractor.docs
             gone == {d \in Sources : docs[d] = 0 /\ (extracted[d] # 0 \/ edges[d] # {})}
  <2>1. /\ UNCHANGED <<texts, extracted, edges, entities, aiRestarts>>
        /\ position' = extractor.token /\ extractor.stage = "commit"
        /\ queue' = [d \in Sources |-> IF docs[d] = 0 \/ Done(d, docs[d]) THEN NoEntry
                                       ELSE Enqueued(queue[d], docs[d])]
    BY <1>4 DEF CommitSources
  <2>2. /\ extractor' \in Extractor /\ extractor'.stage = "forget"
        /\ extractor'.token = 0 /\ extractor'.stale = gone
    <3> DEFINE next == [Starting EXCEPT !.stage = "forget"]
    <3>1. next \in Extractor /\ next.stage = "forget" /\ next.token = 0
      BY StartingOK DEF Extractor
    <3>2. extractor' = [next EXCEPT !.stale = gone]
      BY <1>4 DEF CommitSources
    <3> HIDE DEF next
    <3> QED
      BY <3>1, <3>2 DEF Extractor
  <2>3. ASSUME NEW d \in Sources
        PROVE  /\ queue'[d] \in Entry
               /\ docs[d] # 0 => docs[d] \in {extracted[d], queue'[d].text}
               /\ queue'[d].text # queue[d].text => queue'[d].tries = 0 /\ ~queue'[d].terminal
    <3>1. queue[d] \in Entry /\ docs[d] \in Nat
      BY DEF ExtractTyped, Extractor
    <3>2. /\ Enqueued(queue[d], docs[d]) \in Entry
          /\ Enqueued(queue[d], docs[d]).text = docs[d]
          /\ \/ Enqueued(queue[d], docs[d]) = queue[d]
             \/ /\ Enqueued(queue[d], docs[d]).tries = 0
                /\ ~Enqueued(queue[d], docs[d]).terminal
      BY <3>1, StartingOK DEF Enqueued, Entry
    <3>3. queue'[d] = IF docs[d] = 0 \/ Done(d, docs[d]) THEN NoEntry
                      ELSE Enqueued(queue[d], docs[d])
      BY <2>1
    <3> QED
      BY <3>1, <3>2, <3>3, StartingOK DEF Done
  <2>4. queue' \in [Sources -> Entry]
    BY <2>1, <2>3
  <2>5. ExtractTyped' /\ PositionsBehind'
    BY <2>1, <2>2, <2>4 DEF ExtractTyped, PositionsBehind, Extractor
  <2>6. position' = texts'.token => docs = texts.text
    BY <2>1 DEF ReadsValid
  <2>7. ReadsValid' /\ SourcesCovered'
    BY <2>1, <2>2, <2>3, <2>6 DEF ReadsValid, SourcesCovered
  <2> QED
    BY <2>1, <2>3, <2>5, <2>7 DEF EntitiesReferenced, FreshAttempts
<1>5. CASE Forget
  <2>0. UNCHANGED <<texts, position, aiRestarts>> /\ extractor.stage = "forget"
    BY <1>5 DEF Forget
  <2>1. CASE extractor.stale = {}
    <3>1. UNCHANGED <<extracted, edges, entities, queue>>
      BY <1>5, <2>1 DEF Forget
    <3>2. extractor' \in Extractor /\ extractor'.stage = "take"
          /\ extractor'.token = extractor.token
      BY <1>5, <2>1 DEF Forget, ExtractTyped, Extractor
    <3> QED
      BY <2>0, <3>1, <3>2 DEF ExtractTyped, PositionsBehind, ReadsValid, EntitiesReferenced,
                              SourcesCovered, FreshAttempts
  <2>2. CASE extractor.stale # {}
    <3>1. PICK d \in extractor.stale :
            /\ edges' = [edges EXCEPT ![d] = {}]
            /\ entities' = entities \ Orphaned(edges[d], [edges EXCEPT ![d] = {}])
            /\ extracted' = [extracted EXCEPT ![d] = 0]
            /\ queue' = [queue EXCEPT ![d] = NoEntry]
            /\ extractor' = [extractor EXCEPT !.stale = @ \ {d}]
      BY <1>5, <2>2 DEF Forget
    <3>2. d \in Sources
      BY DEF ExtractTyped, Extractor
    <3>3. /\ extractor' \in Extractor /\ extractor'.stage = "forget"
          /\ extractor'.token = extractor.token /\ extractor'.stale \subseteq extractor.stale
      BY <2>0, <3>1 DEF ExtractTyped, Extractor
    <3>4. EntitiesReferenced'
      <4> DEFINE nothing == {}
      <4>1. /\ nothing \in SUBSET Names /\ edges' = [edges EXCEPT ![d] = nothing]
            /\ entities \cup nothing = entities /\ edges[d] \cup nothing = edges[d]
        BY <3>1
      <4>2. entities' = entities \ Orphaned(edges[d], edges')
        BY <3>1
      <4> HIDE DEF nothing
      <4>3. entities' = (entities \cup nothing) \ Orphaned(edges[d] \cup nothing, edges')
        BY <4>1, <4>2
      <4> QED
        BY <3>2, <4>1, <4>3, OrphansGone DEF ExtractTyped
    <3>5. /\ queue' \in [Sources -> Entry] /\ queue'[d] = NoEntry
          /\ \A x \in Sources \ {d} : queue'[x] = queue[x] /\ extracted'[x] = extracted[x]
      BY <3>1, <3>2, StartingOK DEF ExtractTyped
    <3>6. ExtractTyped' /\ PositionsBehind'
      BY <2>0, <3>1, <3>3, <3>5 DEF ExtractTyped, PositionsBehind
    <3>7. ReadsValid'
      BY <2>0, <3>3 DEF ReadsValid
    <3>8. SourcesCovered'
      BY <2>0, <3>2, <3>5 DEF SourcesCovered, ReadsValid
    <3>9. FreshAttempts
      BY <3>5, StartingOK DEF FreshAttempts
    <3> QED
      BY <3>4, <3>6, <3>7, <3>8, <3>9
  <2> QED
    BY <2>1, <2>2
<1>6. CASE TakeExtraction
  <2>1. UNCHANGED <<texts, extracted, edges, entities, queue, position, aiRestarts>>
    BY <1>6 DEF TakeExtraction
  <2>2. /\ extractor' \in Extractor /\ extractor'.token = extractor.token
        /\ \/ extractor'.stage = "sleep"
           \/ extractor'.stage = "ask" /\ extractor'.job \in Sources \X Nat
    <3>1. CASE \E d \in Sources : Due(queue[d])
      <4>1. PICK d \in Sources :
              extractor' = [extractor EXCEPT !.stage = "ask", !.job = <<d, queue[d].text>>]
        BY <1>6, <3>1 DEF TakeExtraction
      <4>2. <<d, queue[d].text>> \in Sources \X Nat
        BY DEF ExtractTyped, Entry
      <4>3. <<d, queue[d].text>> \in Jobs
        BY <4>2 DEF Jobs
      <4> DEFINE ask == [extractor EXCEPT !.stage = "ask"]
                 job == <<d, queue[d].text>>
      <4>4. ask \in Extractor /\ ask.stage = "ask" /\ ask.token = extractor.token
        BY DEF ExtractTyped, Extractor
      <4>5. extractor' = [ask EXCEPT !.job = job]
        BY <4>1
      <4> HIDE DEF ask, job
      <4>6. job \in Jobs /\ job \in Sources \X Nat
        BY <4>2, <4>3 DEF job
      <4> QED
        BY <4>4, <4>5, <4>6 DEF Extractor
    <3>2. CASE ~\E d \in Sources : Due(queue[d])
      BY <1>6, <3>2 DEF TakeExtraction, ExtractTyped, Extractor
    <3> QED
      BY <3>1, <3>2
  <2> QED
    BY <2>1, <2>2 DEF ExtractTyped, PositionsBehind, ReadsValid, EntitiesReferenced,
                      SourcesCovered, FreshAttempts
<1>7. ASSUME NEW found \in SUBSET Names, Answer(found) PROVE ExtractInv' /\ FreshAttempts
  <2>1. UNCHANGED <<texts, extracted, edges, entities, queue, position, aiRestarts>>
    BY <1>7 DEF Answer
  <2>2. /\ extractor' \in Extractor /\ extractor'.stage = "check"
        /\ extractor'.token = extractor.token /\ extractor'.job = extractor.job
        /\ extractor.stage = "ask"
    <3> DEFINE check == [extractor EXCEPT !.stage = "check"]
    <3>1. /\ check \in Extractor /\ check.stage = "check" /\ check.token = extractor.token
          /\ check.job = extractor.job
      BY DEF ExtractTyped, Extractor
    <3>2. extractor' = [check EXCEPT !.found = found] /\ extractor.stage = "ask"
      BY <1>7 DEF Answer
    <3> HIDE DEF check
    <3> QED
      BY <3>1, <3>2 DEF Extractor
  <2> QED
    BY <2>1, <2>2 DEF ExtractTyped, PositionsBehind, ReadsValid, EntitiesReferenced,
                      SourcesCovered, FreshAttempts
<1>8. ASSUME NEW terminal \in BOOLEAN, AnswerFails(terminal) PROVE ExtractInv' /\ FreshAttempts
  <2> DEFINE d == extractor.job[1]
             q == queue[d]
  <2>1. /\ UNCHANGED <<texts, extracted, edges, entities, position, aiRestarts>>
        /\ extractor' = Starting /\ extractor.stage = "ask"
    BY <1>8 DEF AnswerFails
  <2>2. d \in Sources /\ q \in Entry
    BY <2>1 DEF ExtractTyped
  <2>3. PICK new \in {q, [q EXCEPT !.tries = @ + 1,
                                 !.terminal = terminal \/ q.tries + 1 >= MaxTries]} :
          queue' = [queue EXCEPT ![d] = new]
    BY <1>8 DEF AnswerFails
  <2> HIDE DEF d, q
  <2>4. new \in Entry /\ new.text = q.text
    <3> DEFINE tried == [q EXCEPT !.tries = @ + 1]
               given == terminal \/ q.tries + 1 >= MaxTries
    <3>1. tried \in Entry /\ tried.text = q.text /\ given \in BOOLEAN
      BY <2>2 DEF Entry
    <3>2. new = q \/ new = [tried EXCEPT !.terminal = given]
      BY <2>3
    <3> HIDE DEF tried, given
    <3> QED
      BY <2>2, <3>1, <3>2 DEF Entry
  <2>5. /\ queue' \in [Sources -> Entry]
        /\ \A x \in Sources : queue'[x].text = queue[x].text
    BY <2>2, <2>3, <2>4 DEF ExtractTyped, q
  <2> QED
    BY <2>1, <2>5, StartingOK DEF ExtractTyped, PositionsBehind, ReadsValid,
                                  EntitiesReferenced, SourcesCovered, FreshAttempts
<1>9. CASE CheckCurrent
  <2>1. /\ UNCHANGED <<texts, extracted, edges, entities, queue, position, aiRestarts>>
        /\ extractor.stage = "check"
    BY <1>9 DEF CheckCurrent
  <2>2. CASE texts.text[extractor.job[1]] = extractor.job[2]
    <3>1. /\ extractor' \in Extractor /\ extractor'.stage = "finish"
          /\ extractor'.token = extractor.token /\ extractor'.job = extractor.job
      BY <1>9, <2>2 DEF CheckCurrent, ExtractTyped, Extractor
    <3> QED
      BY <2>1, <2>2, <3>1 DEF ExtractTyped, PositionsBehind, ReadsValid, EntitiesReferenced,
                              SourcesCovered, FreshAttempts
  <2>3. CASE texts.text[extractor.job[1]] # extractor.job[2]
    <3>1. extractor' = Starting
      BY <1>9, <2>3 DEF CheckCurrent
    <3> QED
      BY <2>1, <3>1, StartingOK DEF ExtractTyped, PositionsBehind, ReadsValid,
                                    EntitiesReferenced, SourcesCovered, FreshAttempts
  <2> QED
    BY <2>2, <2>3
<1>10. CASE FinishExtraction
  <2> DEFINE d == extractor.job[1]
             text == extractor.job[2]
             found == extractor.found
  <2>1. UNCHANGED <<texts, position, aiRestarts>> /\ extractor' = Starting
        /\ extractor.stage = "finish"
    BY <1>10 DEF FinishExtraction
  <2>2. d \in Sources /\ text \in Nat /\ found \in SUBSET Names
    BY <2>1 DEF ExtractTyped, Extractor
  <2>3. CASE queue[d].text = text
    <3>1. /\ edges' = [edges EXCEPT ![d] = found]
          /\ entities' = (entities \cup found) \ Orphaned(edges[d] \cup found, edges')
          /\ extracted' = [extracted EXCEPT ![d] = text]
          /\ queue' = [queue EXCEPT ![d] = NoEntry]
      BY <1>10, <2>3 DEF FinishExtraction
    <3>2. position = texts.token => texts.text[d] = text
      BY <2>1 DEF ReadsValid
    <3> HIDE DEF d, text, found
    <3>3. EntitiesReferenced'
      BY <2>2, <3>1, OrphansGone DEF ExtractTyped
    <3>4. /\ queue' \in [Sources -> Entry] /\ queue'[d] = NoEntry /\ extracted'[d] = text
          /\ \A x \in Sources \ {d} : queue'[x] = queue[x] /\ extracted'[x] = extracted[x]
      BY <2>2, <3>1, StartingOK DEF ExtractTyped
    <3>5. ExtractTyped' /\ PositionsBehind' /\ ReadsValid'
      BY <2>1, <2>2, <3>1, <3>4, StartingOK DEF ExtractTyped, PositionsBehind, ReadsValid
    <3>6. SourcesCovered'
      BY <2>1, <2>2, <3>2, <3>4 DEF SourcesCovered
    <3>7. FreshAttempts
      BY <3>4, StartingOK DEF FreshAttempts
    <3> QED
      BY <3>3, <3>5, <3>6, <3>7
  <2>4. CASE queue[d].text # text
    <3>1. UNCHANGED <<edges, entities, extracted, queue>>
      BY <1>10, <2>4 DEF FinishExtraction
    <3> QED
      BY <2>1, <3>1, StartingOK DEF ExtractTyped, PositionsBehind, ReadsValid,
                                    EntitiesReferenced, SourcesCovered, FreshAttempts
  <2> QED
    BY <2>3, <2>4
<1>11. CASE WakeExtractor \/ RestartExtractor
  <2>1. /\ UNCHANGED <<texts, extracted, edges, entities, queue, position>>
        /\ extractor' = Starting
    BY <1>11 DEF WakeExtractor, RestartExtractor
  <2> QED
    BY <2>1, StartingOK DEF ExtractTyped, PositionsBehind, ReadsValid, EntitiesReferenced,
                            SourcesCovered, FreshAttempts
<1>12. CASE UNCHANGED extractVars
  BY <1>12 DEF extractVars, ExtractTyped, PositionsBehind, ReadsValid, EntitiesReferenced,
               SourcesCovered, FreshAttempts
<1> QED
  BY <1>1, <1>2, <1>3, <1>4, <1>5, <1>6, <1>7, <1>8, <1>9, <1>10, <1>11, <1>12 DEF ExtractNext

\* The inductive invariant of the extraction.
THEOREM ExtractInvariant == ExtractSpec => []ExtractInv
BY ExtractInitial, ExtractStep, PTL DEF ExtractSpec

\* After every step each present text is extracted, queued or given up for
\* failures of its own, and the stored entities are the ones some edge names, for
\* any sources, names, attempts and edits (reconcile_extractions,
\* delete_orphan_entities).
THEOREM GraphHonestTheorem == ExtractSpec => GraphHonest
<1>1. ExtractInv /\ [ExtractNext]_extractVars =>
        [EntitiesReferenced' /\ SourcesCovered' /\ FreshAttempts]_extractVars
  BY ExtractStep DEF ExtractInv
<1> QED
  BY <1>1, ExtractInvariant, PTL DEF ExtractSpec, GraphHonest
=============================================================================

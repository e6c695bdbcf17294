------------------------------ MODULE AiIndex ------------------------------
(***************************************************************************)
(* The embedding index of one user on the server (notes-ai store.rs and    *)
(* embed.rs, started and replaced by server/src/ai.rs).                    *)
(*                                                                         *)
(* Derived data is kept per generation, one for every embedding model:     *)
(* vectors of documents, a queue of documents still to embed, and the      *)
(* position of the notes the queue was last compared with.  A worker       *)
(* compares, takes jobs, asks the provider, compares again and writes what *)
(* is still wanted.  The notes change at any time, the provider fails, the *)
(* user asks for a new index, and a change of the provider settings starts *)
(* another worker while the one before, already told to stop, still has a  *)
(* transaction under way.                                                  *)
(***************************************************************************)
EXTENDS Integers, FiniteSets

CONSTANTS
    Documents,    \* pages and blocks with indexable text
    MaxAiEdits,   \* bound on changes of the notes
    MaxAttempts,  \* attempts before a job is given up (MAX_ATTEMPTS)
    MaxConfigs,   \* bound on provider settings, the first included
    MaxResets     \* bound on requests for a new index

ASSUME ConfigsAssumption == MaxConfigs \in Nat \ {0}
ASSUME DocumentsAssumption == IsFiniteSet(Documents)

VARIABLES
    corpus,       \* corpus: the text of every document (0: none) and the notes' position
    gens,         \* gens[g]: the rows of a generation
    tick,         \* tick[w]: what worker w is doing
    serving,      \* the generation the running configuration uses
    config,       \* number of configurations so far; worker `config` is the live one
    resets        \* number of requests for a new index

aiIndexVars == <<corpus, gens, tick, serving, config, resets>>

Workers == 1..MaxConfigs
Generations == 1..MaxConfigs

NoText == [d \in Documents |-> 0]
NoJob == [text |-> 0, tries |-> 0, terminal |-> FALSE]
NoJobs == [d \in Documents |-> NoJob]
NewGeneration == [status |-> "building", cursor |-> -1, count |-> 0,
                  vectors |-> NoText, jobs |-> NoJobs, seen |-> NoText]
Unused == [NewGeneration EXCEPT !.status = "unused"]
Idle == [stage |-> "off", gen |-> 1, token |-> 0, docs |-> NoText, taken |-> NoText,
         count |-> 0, writing |-> FALSE]

IndexInit ==
    /\ corpus = [text |-> NoText, token |-> 0]
    /\ gens = [g \in Generations |-> IF g = 1 THEN NewGeneration ELSE Unused]
    /\ tick = [w \in Workers |-> IF w = 1 THEN [Idle EXCEPT !.stage = "cursor"] ELSE Idle]
    /\ serving = 1
    /\ config = 1
    /\ resets = 0

Present(text) == {d \in Documents : text[d] # 0}
Queued(g) == {d \in Documents : gens[g].jobs[d] # NoJob}

\* The cursor pairs the server position with the clock: every edit moves it.
Edit(d) ==
    /\ corpus.token < MaxAiEdits
    /\ \E t \in {0, corpus.token + 1} :
         /\ t # corpus.text[d]
         /\ corpus' = [text |-> [corpus.text EXCEPT ![d] = t], token |-> corpus.token + 1]
    /\ UNCHANGED <<gens, tick, serving, config, resets>>
-----------------------------------------------------------------------------
(* Activation.                                                             *)

\* Mutant of Complete: documents whose new text is still queued count.
Complete_Indexed(g, count) == Cardinality(Present(g.vectors)) = count

Complete(g, count) ==
    g.jobs = NoJobs /\ Cardinality(Present(g.vectors)) = count

\* Mutant of Activated: the generation in use before stays active.
Activated_Beside(all, i, count) ==
    IF Complete(all[i], count) THEN [all EXCEPT ![i].status = "active"] ELSE all

\* activate_generation_if_complete: the complete generation replaces the
\* active one in the same transaction.
Activated(all, i, count) ==
    IF ~Complete(all[i], count) THEN all
    ELSE [j \in Generations |->
            IF j = i THEN [all[j] EXCEPT !.status = "active"]
            ELSE IF all[j].status = "active" THEN [all[j] EXCEPT !.status = "retired"]
            ELSE all[j]]
-----------------------------------------------------------------------------
(* reconcile, before the provider is asked and again before its answer is  *)
(* written.                                                                *)

\* Mutant of ScanOrder: the documents are read before the position.
ScanOrder_DocsFirst == <<"docs", "cursor">>

\* The position is read first, so that it is never ahead of the documents.
ScanOrder == <<"cursor", "docs">>

\* The step after the first or the second half of a scan.
AfterScan(w, half) == IF half = ScanOrder[1] THEN "scan" ELSE "commit"

\* Reading the position; an index that has seen it is up to date.
ReadCursor(w) ==
    LET t == tick[w]
        g == gens[t.gen]
    IN /\ \/ t.stage = "cursor" /\ ScanOrder[1] = "cursor"
          \/ t.stage = "scan" /\ ScanOrder[2] = "cursor"
       /\ tick' = [tick EXCEPT ![w] =
            IF g.cursor = corpus.token
              THEN [t EXCEPT !.stage = IF t.writing THEN "write" ELSE "take", !.count = g.count,
                             !.docs = NoText, !.token = 0]
              ELSE [t EXCEPT !.stage = AfterScan(w, "cursor"), !.token = corpus.token]]
       /\ UNCHANGED <<corpus, gens, serving, config, resets>>

\* index_documents: pages, blocks with their ancestors and journals become
\* texts; documents without meaningful content are left out.
ReadDocuments(w) ==
    LET t == tick[w]
    IN /\ \/ t.stage = "cursor" /\ ScanOrder[1] = "docs"
          \/ t.stage = "scan" /\ ScanOrder[2] = "docs"
       /\ tick' = [tick EXCEPT ![w] = [t EXCEPT !.stage = AfterScan(w, "docs"),
                                                !.docs = corpus.text]]
       /\ UNCHANGED <<corpus, gens, serving, config, resets>>

\* One job per document whose vectors are missing or of another text; a job
\* for the same text keeps its attempts.
Reconciled(g, docs) ==
    [g EXCEPT
       !.jobs = [d \in Documents |->
                   IF docs[d] = 0 \/ g.vectors[d] = docs[d] THEN NoJob
                   ELSE IF g.jobs[d].text = docs[d] THEN g.jobs[d]
                   ELSE [NoJob EXCEPT !.text = docs[d]]],
       !.vectors = [d \in Documents |-> IF docs[d] = 0 THEN 0 ELSE @[d]],
       !.seen = docs]

CommitReconcile(w) ==
    LET t == tick[w]
        count == Cardinality(Present(t.docs))
        g == [Reconciled(gens[t.gen], t.docs) EXCEPT !.cursor = t.token, !.count = count]
    IN /\ t.stage = "commit"
       /\ gens' = Activated([gens EXCEPT ![t.gen] = g], t.gen, count)
       /\ tick' = [tick EXCEPT ![w] = [t EXCEPT !.stage = IF t.writing THEN "write" ELSE "take",
                                                !.count = count, !.docs = NoText, !.token = 0]]
       /\ UNCHANGED <<corpus, serving, config, resets>>
-----------------------------------------------------------------------------
(* Jobs and the provider.                                                  *)

Retryable(job) == job # NoJob /\ ~job.terminal /\ job.tries < MaxAttempts

\* take_jobs: what is not given up (and whose back-off is over).
TakeJobs(w) ==
    LET t == tick[w]
        due == {d \in Documents : Retryable(gens[t.gen].jobs[d])}
    IN /\ t.stage = "take"
       /\ tick' = [tick EXCEPT ![w] =
            IF due = {} THEN [t EXCEPT !.stage = "sleep", !.writing = FALSE, !.count = 0]
            ELSE [t EXCEPT !.stage = "embed",
                           !.taken = [d \in Documents |->
                                        IF d \in due THEN gens[t.gen].jobs[d].text ELSE 0]]]
       /\ UNCHANGED <<corpus, gens, serving, config, resets>>

\* Mutant of Failed: attempts are not counted.
Failed_Uncounted(job, terminal) == [job EXCEPT !.terminal = terminal]

\* record_failure.
Failed(job, terminal) == [job EXCEPT !.tries = @ + 1, !.terminal = terminal]

\* The provider answers for some documents; the failures of the others are
\* recorded unless their text has changed since.  A refused batch is repeated
\* document by document when the refusal is final.
Embed(w, failed, terminal) ==
    LET t == tick[w]
        g == gens[t.gen]
    IN /\ t.stage = "embed"
       /\ failed \subseteq Present(t.taken)
       /\ gens' = [gens EXCEPT ![t.gen].jobs = [d \in Documents |->
                     IF d \in failed /\ g.jobs[d].text = t.taken[d]
                       THEN Failed(g.jobs[d], terminal) ELSE g.jobs[d]]]
       /\ tick' = [tick EXCEPT ![w] = [t EXCEPT !.stage = "cursor", !.writing = TRUE,
                     !.taken = [d \in Documents |-> IF d \in failed THEN 0 ELSE t.taken[d]]]]
       /\ UNCHANGED <<corpus, serving, config, resets>>

\* Mutant of StillCurrent: an answer is written although the text changed.
StillCurrent_Any(g, d, text) == g.jobs[d] # NoJob

StillCurrent(g, d, text) == g.jobs[d].text = text

\* write_embeddings: answers no job asks for any more are dropped.
WriteEmbeddings(w) ==
    LET t == tick[w]
        g == gens[t.gen]
        wanted == {d \in Present(t.taken) : StillCurrent(g, d, t.taken[d])}
        after == [g EXCEPT
                    !.vectors = [d \in Documents |-> IF d \in wanted THEN t.taken[d] ELSE @[d]],
                    !.jobs = [d \in Documents |-> IF d \in wanted THEN NoJob ELSE @[d]]]
    IN /\ t.stage = "write"
       /\ gens' = Activated([gens EXCEPT ![t.gen] = after], t.gen, t.count)
       /\ tick' = [tick EXCEPT ![w] = [Idle EXCEPT !.stage = "cursor", !.gen = t.gen]]
       /\ UNCHANGED <<corpus, serving, config, resets>>

\* After thirty seconds, or woken by a change of the notes or the settings.
Wake(w) ==
    /\ tick[w].stage = "sleep"
    /\ \/ gens[tick[w].gen].cursor # corpus.token
       \/ \E d \in Documents : Retryable(gens[tick[w].gen].jobs[d])
    /\ tick' = [tick EXCEPT ![w].stage = "cursor"]
    /\ UNCHANGED <<corpus, gens, serving, config, resets>>
-----------------------------------------------------------------------------
(* Settings.                                                               *)

\* open_with_control: the generation of the configured model is taken up
\* where it was left; a retired one is built anew.
Reopens(g) == gens[g].status \in {"building", "active"}

\* A worker that was told to stop ends at its next await, except that a
\* transaction its database thread has accepted is still carried out.
Submitted(t) == t.stage \in {"commit", "write"}

\* update_provider: the new runtime is built and started, the old cancelled.
UpdateProvider(g) ==
    /\ config < MaxConfigs
    /\ \/ Reopens(g)
       \/ gens[g].status = "unused" /\ \A h \in Generations : h < g => gens[h].status # "unused"
    /\ gens' = [gens EXCEPT ![g] = IF Reopens(g) THEN @ ELSE NewGeneration]
    /\ tick' = [tick EXCEPT ![config] = IF Submitted(@) THEN @ ELSE Idle,
                            ![config + 1] = [Idle EXCEPT !.stage = "cursor", !.gen = g]]
    /\ serving' = g
    /\ config' = config + 1
    /\ UNCHANGED <<corpus, resets>>

\* The last transaction of a cancelled worker.
Outlived(w) ==
    /\ w < config
    /\ \/ CommitReconcile(w)
       \/ WriteEmbeddings(w)

\* A cancelled worker that has nothing submitted ends.
Reap(w) ==
    /\ w < config
    /\ tick[w].stage \notin {"off", "commit", "write"}
    /\ tick' = [tick EXCEPT ![w] = Idle]
    /\ UNCHANGED <<corpus, gens, serving, config, resets>>

\* reset_index of the serving generation.
Reindex ==
    /\ resets < MaxResets
    /\ gens' = [gens EXCEPT ![serving] = NewGeneration]
    /\ resets' = resets + 1
    /\ UNCHANGED <<corpus, tick, serving, config>>

Work(w) ==
    /\ w = config
    /\ \/ ReadCursor(w)
       \/ ReadDocuments(w)
       \/ CommitReconcile(w)
       \/ TakeJobs(w)
       \/ \E failed \in SUBSET Documents, terminal \in BOOLEAN : Embed(w, failed, terminal)
       \/ WriteEmbeddings(w)
       \/ Wake(w)

IndexNext ==
    \/ \E d \in Documents : Edit(d)
    \/ \E w \in Workers : Work(w)
    \/ \E w \in Workers : Outlived(w)
    \/ \E w \in Workers : Reap(w)
    \/ \E g \in Generations : UpdateProvider(g)
    \/ Reindex

\* A worker's task is scheduled and the provider answers or times out.
IndexFairness == \A w \in Workers : WF_aiIndexVars(Work(w))

IndexSpec == IndexInit /\ [][IndexNext]_aiIndexVars

IndexFairSpec == IndexSpec /\ IndexFairness
-----------------------------------------------------------------------------
\* An index that believes to have seen the notes as they are now has, for
\* every document, the vectors of its present text or a job for them,
\* although edits, retries, resets and an outlived worker came in between
\* (reconcile, store.rs:427).
NothingMissed ==
    \A g \in Generations :
      (gens[g].status \in {"building", "active"} /\ gens[g].cursor = corpus.token) =>
        \A d \in Documents :
          corpus.text[d] \in {gens[g].vectors[d], gens[g].jobs[d].text}

\* Vectors of another text than the one the last reconciliation saw are always
\* being replaced: an answer for an old text never cancels the newer job
\* (write_embeddings, store.rs:952).
VectorsWanted ==
    \A g \in Generations : \A d \in Documents :
      gens[g].vectors[d] # gens[g].seen[d] =>
        gens[g].jobs[d].text = gens[g].seen[d]

\* A generation goes into service only with the vectors of every document
\* its last reconciliation saw (activate_generation_if_complete).
ActiveComplete ==
    \A g \in Generations :
      gens'[g].status = "active" /\ gens[g].status # "active" =>
        gens'[g].vectors = gens'[g].seen

\* Never two generations in service.
OneActive ==
    Cardinality({g \in Generations : gens[g].status = "active"}) <= 1

\* Every job of the serving generation is done or given up in the end, however
\* often the provider fails.
JobsSettle ==
    \A d \in Documents :
      (Retryable(gens[serving].jobs[d])) ~> ~Retryable(gens[serving].jobs[d])

\* The index never forgets a text: it has its vectors or a job for them, outdated
\* vectors are being replaced, and the one generation in service went there
\* complete.
IndexHonest ==
    [][NothingMissed' /\ VectorsWanted' /\ OneActive' /\ ActiveComplete]_aiIndexVars
=============================================================================

----------------------------- MODULE AiExtract -----------------------------
(***************************************************************************)
(* Entity extraction on the server (notes-ai extract.rs and the extraction *)
(* tables of store.rs).  A worker compares the notes with what was already *)
(* extracted, forgets the sources that are gone one transaction at a time, *)
(* takes a job, asks the model, checks that the text is still the same and *)
(* stores entities and edges.  Entities live as long as an edge names      *)
(* them.  The notes change and the server restarts at any point.           *)
(***************************************************************************)
EXTENDS Integers, FiniteSets

CONSTANTS
    Sources,        \* documents entities are extracted from
    Names,          \* normalised entity names
    MaxSourceEdits, \* bound on changes of the notes
    MaxTries,       \* attempts before a job is given up (5)
    MaxAiRestarts   \* bound on restarts of the server

VARIABLES
    texts,          \* texts: the text of every source (0: none) and the position
    extracted,      \* extracted[d]: extraction_state, the text last extracted
    edges,          \* edges[d]: entities the edges of source d name
    entities,       \* stored entities
    queue,          \* queue[d]: extraction_jobs
    position,       \* last_extraction_reconciled_cursor
    extractor,      \* what the worker is doing
    aiRestarts      \* restarts so far

extractVars == <<texts, extracted, edges, entities, queue, position, extractor, aiRestarts>>

NoEntry == [text |-> 0, tries |-> 0, terminal |-> FALSE]
Starting == [stage |-> "cursor", token |-> 0, docs |-> [d \in Sources |-> 0], stale |-> {},
             job |-> <<>>, found |-> {}]

ExtractInit ==
    /\ texts = [text |-> [d \in Sources |-> 0], token |-> 0]
    /\ extracted = [d \in Sources |-> 0]
    /\ edges = [d \in Sources |-> {}]
    /\ entities = {}
    /\ queue = [d \in Sources |-> NoEntry]
    /\ position = -1
    /\ extractor = Starting
    /\ aiRestarts = 0

EditSource(d) ==
    /\ texts.token < MaxSourceEdits
    /\ \E t \in {0, texts.token + 1} :
         /\ t # texts.text[d]
         /\ texts' = [text |-> [texts.text EXCEPT ![d] = t], token |-> texts.token + 1]
    /\ UNCHANGED <<extracted, edges, entities, queue, position, extractor, aiRestarts>>
-----------------------------------------------------------------------------
(* reconcile_extractions and forget_extraction_source.                     *)

ReadPosition ==
    /\ extractor.stage = "cursor"
    /\ extractor' = IF position = texts.token THEN [extractor EXCEPT !.stage = "take"]
                    ELSE [extractor EXCEPT !.stage = "scan", !.token = texts.token]
    /\ UNCHANGED <<texts, extracted, edges, entities, queue, position, aiRestarts>>

\* extraction_documents: title and content of every page and block.
ReadSources ==
    /\ extractor.stage = "scan"
    /\ extractor' = [extractor EXCEPT !.stage = "commit", !.docs = texts.text]
    /\ UNCHANGED <<texts, extracted, edges, entities, queue, position, aiRestarts>>

\* Mutant of Enqueued: a job for the new text inherits that the old failed.
Enqueued_Kept(q, text) == [q EXCEPT !.text = text]

\* A job for another text starts afresh, one for the same text goes on.
Enqueued(q, text) == IF q.text = text THEN q ELSE [NoEntry EXCEPT !.text = text]

\* Mutant of Done: a source is extracted only once.
Done_Once(d, text) == extracted[d] # 0

\* Nothing is queued for a source that is gone or whose text was extracted.
Done(d, text) == extracted[d] = text

\* The jobs are brought up to date; sources that are gone are returned to the
\* caller, which forgets them afterwards.
CommitSources ==
    LET docs == extractor.docs
    IN /\ extractor.stage = "commit"
       /\ queue' = [d \in Sources |-> IF docs[d] = 0 \/ Done(d, docs[d]) THEN NoEntry
                                      ELSE Enqueued(queue[d], docs[d])]
       /\ position' = extractor.token
       /\ extractor' = [Starting EXCEPT !.stage = "forget",
            !.stale = {d \in Sources : docs[d] = 0 /\ (extracted[d] # 0 \/ edges[d] # {})}]
       /\ UNCHANGED <<texts, extracted, edges, entities, aiRestarts>>

\* Mutant of Orphaned: entities stay after the last edge.
Orphaned_Never(names, left) == {}

\* delete_orphan_entities: the candidates no edge names any more.
Orphaned(names, left) == names \ UNION {left[d] : d \in Sources}

Forget ==
    /\ extractor.stage = "forget"
    /\ IF extractor.stale = {}
         THEN /\ extractor' = [extractor EXCEPT !.stage = "take"]
              /\ UNCHANGED <<extracted, edges, entities, queue>>
         ELSE \E d \in extractor.stale :
                LET left == [edges EXCEPT ![d] = {}]
                IN /\ edges' = left
                   /\ entities' = entities \ Orphaned(edges[d], left)
                   /\ extracted' = [extracted EXCEPT ![d] = 0]
                   /\ queue' = [queue EXCEPT ![d] = NoEntry]
                   /\ extractor' = [extractor EXCEPT !.stale = @ \ {d}]
    /\ UNCHANGED <<texts, position, aiRestarts>>
-----------------------------------------------------------------------------
(* One job.                                                                *)

Due(q) == q # NoEntry /\ ~q.terminal /\ q.tries < MaxTries

\* take_extraction_jobs(1), once the back-off is over.
TakeExtraction ==
    /\ extractor.stage = "take"
    /\ IF \E d \in Sources : Due(queue[d])
         THEN \E d \in Sources :
                /\ Due(queue[d])
                /\ extractor' = [extractor EXCEPT !.stage = "ask", !.job = <<d, queue[d].text>>]
         ELSE extractor' = [extractor EXCEPT !.stage = "sleep"]
    /\ UNCHANGED <<texts, extracted, edges, entities, queue, position, aiRestarts>>

\* The model names entities.
Answer(found) ==
    /\ extractor.stage = "ask"
    /\ extractor' = [extractor EXCEPT !.stage = "check", !.found = found]
    /\ UNCHANGED <<texts, extracted, edges, entities, queue, position, aiRestarts>>

\* record_extraction_failure: counted, and final after MaxTries.
AnswerFails(terminal) ==
    LET d == extractor.job[1]
        q == queue[d]
    IN /\ extractor.stage = "ask"
       /\ queue' = [queue EXCEPT ![d] =
            IF q.text # extractor.job[2] THEN q
            ELSE [q EXCEPT !.tries = @ + 1, !.terminal = terminal \/ q.tries + 1 >= MaxTries]]
       /\ extractor' = Starting
       /\ UNCHANGED <<texts, extracted, edges, entities, position, aiRestarts>>

\* extraction_job_is_current: an answer for an old text is dropped.
CheckCurrent ==
    /\ extractor.stage = "check"
    /\ extractor' = IF texts.text[extractor.job[1]] = extractor.job[2]
                      THEN [extractor EXCEPT !.stage = "finish"] ELSE Starting
    /\ UNCHANGED <<texts, extracted, edges, entities, queue, position, aiRestarts>>

\* apply_extraction and finish_extraction, if the job is still queued for
\* this text.
FinishExtraction ==
    LET d == extractor.job[1]
        text == extractor.job[2]
        left == [edges EXCEPT ![d] = extractor.found]
        candidates == edges[d] \cup extractor.found
    IN /\ extractor.stage = "finish"
       /\ IF queue[d].text = text
            THEN /\ edges' = left
                 /\ entities' = (entities \cup extractor.found) \ Orphaned(candidates, left)
                 /\ extracted' = [extracted EXCEPT ![d] = text]
                 /\ queue' = [queue EXCEPT ![d] = NoEntry]
            ELSE UNCHANGED <<edges, entities, extracted, queue>>
       /\ extractor' = Starting
       /\ UNCHANGED <<texts, position, aiRestarts>>

WakeExtractor ==
    /\ extractor.stage = "sleep"
    /\ position # texts.token \/ \E d \in Sources : Due(queue[d])
    /\ extractor' = Starting
    /\ UNCHANGED <<texts, extracted, edges, entities, queue, position, aiRestarts>>

\* The server restarts: rows stay, the worker starts over.
RestartExtractor ==
    /\ aiRestarts < MaxAiRestarts
    /\ aiRestarts' = aiRestarts + 1
    /\ extractor' = Starting
    /\ UNCHANGED <<texts, extracted, edges, entities, queue, position>>

ExtractNext ==
    \/ \E d \in Sources : EditSource(d)
    \/ ReadPosition
    \/ ReadSources
    \/ CommitSources
    \/ Forget
    \/ TakeExtraction
    \/ \E found \in SUBSET Names : Answer(found)
    \/ \E terminal \in BOOLEAN : AnswerFails(terminal)
    \/ CheckCurrent
    \/ FinishExtraction
    \/ WakeExtractor
    \/ RestartExtractor

ExtractSpec == ExtractInit /\ [][ExtractNext]_extractVars
-----------------------------------------------------------------------------
\* The stored entities are exactly the ones some edge names, whatever was
\* extracted again, forgotten or interrupted (delete_orphan_entities).
EntitiesReferenced == entities = UNION {edges[d] : d \in Sources}

\* While the worker believes to be up to date, every source has been extracted
\* from its present text or is queued for it (reconcile_extractions).
SourcesCovered ==
    position = texts.token =>
      \A d \in Sources : texts.text[d] # 0 => texts.text[d] \in {extracted[d], queue[d].text}

\* A text is given up only for failures of its own: editing a note that could
\* not be extracted tries again (ON CONFLICT of reconcile_extractions).
FreshAttempts ==
    \A d \in Sources :
      queue'[d].text # queue[d].text => queue'[d].tries = 0 /\ ~queue'[d].terminal

\* The extracted graph follows the texts: each is in it, queued or given up for
\* failures of its own, and no entity is left that no edge names.
GraphHonest == [][EntitiesReferenced' /\ SourcesCovered' /\ FreshAttempts]_extractVars
=============================================================================

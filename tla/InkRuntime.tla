----------------------------- MODULE InkRuntime -----------------------------
(***************************************************************************)
(* The scheduling of handwriting work in one process (notes-core           *)
(* ink/runtime.rs and ink/runtime/lifecycle.rs, with the session cache of  *)
(* src-tauri commands/handwriting/maintenance.rs).                         *)
(*                                                                         *)
(* Every note that was opened has a session.  Three kinds of work touch    *)
(* its database from blocking jobs: the pen's writes, the completion that  *)
(* records the intent to publish and later publishes, and one maintenance  *)
(* loop that compacts in the background and repeats a failed publication.  *)
(* Compaction and publication of all notes share one lane.  Shutdown       *)
(* closes admission, lets everything that was admitted end, completes what *)
(* still needs it and only then reports the workspace closed.              *)
(***************************************************************************)
EXTENDS Integers, FiniteSets

CONSTANTS
    InkNotes,      \* handwritten notes
    PennedNotes,   \* those that are written to; the others are only opened
    MaxInkWrites,  \* bound on the writes of the pen
    MaxInkFaults   \* bound on database jobs that fail and on deletions

ASSUME PennedAssumption == PennedNotes \subseteq InkNotes

VARIABLES
    store,         \* store[n]: durable: alive, unpublished, requested, fresh chunks
    flags,         \* flags[n]: the session's modified and editing
    pending,       \* pending[n]: the session's dirty and running
    writes,        \* writes[n]: the command that writes to n
    completion,    \* completion[n]: the owned completion of n
    loop,          \* loop[n]: the maintenance task of n
    lane,          \* who holds the lane
    runtime,       \* phase of the runtime and steps of the shutdown
    cache,         \* notes with a cached session
    spent          \* writes and faults so far

drainVars == <<store, flags, pending, writes, completion, loop, lane, runtime, cache, spent>>

Free == <<"free">>

InkInit ==
    /\ store = [n \in InkNotes |-> [alive |-> TRUE, unpublished |-> FALSE,
                                    requested |-> FALSE, fresh |-> 0]]
    /\ flags = [n \in InkNotes |-> [modified |-> FALSE, editing |-> FALSE]]
    /\ pending = [n \in InkNotes |-> [dirty |-> FALSE, running |-> FALSE]]
    /\ writes = [n \in InkNotes |-> "none"]
    /\ completion = [n \in InkNotes |-> "none"]
    /\ loop = [n \in InkNotes |-> "off"]
    /\ lane = Free
    /\ runtime = [phase |-> "open", step |-> "none", todo |-> {}, failed |-> FALSE]
    /\ cache = {}
    /\ spent = [writes |-> 0, faults |-> 0]

Accepting == runtime.phase = "open"

\* admit.
Admits(finishing) ==
    runtime.phase = "open" \/ (finishing /\ runtime.phase = "stopping")
-----------------------------------------------------------------------------
(* What a blocking job does to the note.                                   *)

\* compact merges fresh chunks and says whether there is more to do.
CompactOnce(s) == [s EXCEPT !.fresh = IF @ = 0 THEN 0 ELSE @ - 1]

\* compact until done, publish, close_editor.
PublishedStore(s) == [s EXCEPT !.fresh = 0, !.unpublished = FALSE, !.requested = FALSE]

Faulty == spent.faults < MaxInkFaults /\ spent' = [spent EXCEPT !.faults = @ + 1]

\* Mutant of Scheduled: a running loop is taken to have seen the new work.
Scheduled_Lost(p) == IF p.running THEN p ELSE [dirty |-> TRUE, running |-> TRUE]

\* schedule: marks the work, also when a loop is running already.
Scheduled(p) == [dirty |-> TRUE, running |-> TRUE]

\* The loop that schedule starts.
LoopAfter(n) == IF pending[n].running THEN loop[n] ELSE "check"

Schedule(n) ==
    IF Accepting
      THEN /\ pending' = [pending EXCEPT ![n] = Scheduled(@)]
           /\ loop' = [loop EXCEPT ![n] = LoopAfter(n)]
      ELSE UNCHANGED <<pending, loop>>
-----------------------------------------------------------------------------
(* Commands of the pen.                                                    *)

\* open(editing): the session is cached.
Open(n) ==
    /\ Accepting /\ store[n].alive /\ writes[n] = "none"
    /\ flags[n].editing = FALSE
    /\ flags' = [flags EXCEPT ![n].editing = TRUE]
    /\ cache' = cache \cup {n}
    /\ UNCHANGED <<store, pending, writes, completion, loop, lane, runtime, spent>>

\* start_access of patch or history: the job is admitted, its caller waits.
Write(n) ==
    /\ n \in cache /\ writes[n] = "none"
    /\ Admits(FALSE)
    /\ spent.writes < MaxInkWrites
    /\ spent' = [spent EXCEPT !.writes = @ + 1]
    /\ writes' = [writes EXCEPT ![n] = "job"]
    /\ UNCHANGED <<store, flags, pending, completion, loop, lane, runtime, cache>>

\* The job stores the strokes and marks the session; a deleted note refuses.
RunWrite(n) ==
    /\ writes[n] = "job"
    /\ \/ /\ store[n].alive
          /\ store' = [store EXCEPT ![n].unpublished = TRUE,
                                    ![n].fresh = IF @ = 2 THEN 2 ELSE @ + 1]
          /\ flags' = [flags EXCEPT ![n].modified = TRUE]
          /\ writes' = [writes EXCEPT ![n] = "stored"]
       \/ /\ ~store[n].alive
          /\ writes' = [writes EXCEPT ![n] = "none"]
          /\ UNCHANGED <<store, flags>>
    /\ UNCHANGED <<pending, completion, loop, lane, runtime, cache, spent>>

\* patch continues: new geometry is scheduled for compaction.
WriteReturns(n) ==
    /\ writes[n] = "stored"
    /\ writes' = [writes EXCEPT ![n] = "none"]
    /\ Schedule(n)
    /\ UNCHANGED <<store, flags, completion, lane, runtime, cache, spent>>

\* The note is deleted by a command or by synchronisation.
DeleteInkNote(n) ==
    /\ store[n].alive
    /\ Faulty
    /\ store' = [store EXCEPT ![n] = [alive |-> FALSE, unpublished |-> FALSE,
                                      requested |-> FALSE, fresh |-> 0]]
    /\ UNCHANGED <<flags, pending, writes, completion, loop, lane, runtime, cache>>
-----------------------------------------------------------------------------
(* Completion.                                                             *)

\* Mutant of NeedsCompletion: strokes written after the editor was closed by
\* a background publication are forgotten.
NeedsCompletion_Editing(n) == flags[n].editing

NeedsCompletion(n) == flags[n].modified \/ flags[n].editing

\* start_completion: leaving the note, the app going to the background,
\* complete_all and recover.  Task and intent job are admitted together.
StartCompletion(n) ==
    /\ n \in cache /\ completion[n] = "none"
    /\ Admits(FALSE)
    /\ NeedsCompletion(n) \/ store[n].requested
    /\ completion' = [completion EXCEPT ![n] = "intent"]
    /\ UNCHANGED <<store, flags, pending, writes, loop, lane, runtime, cache, spent>>

\* A completion that ends; for a note that is gone the session is forgotten.
Ended(n, outcome) ==
    /\ completion' = [completion EXCEPT ![n] = "none"]
    /\ cache' = IF outcome = "gone" /\ runtime.step = "none" THEN cache \ {n} ELSE cache
    /\ runtime' = IF completion[n] \in {"intent", "lane", "job"} THEN runtime
                  ELSE [runtime EXCEPT !.todo = @ \ {n}, !.failed = @ \/ outcome = "failed"]

\* The intent becomes durable before anything is packed.
RecordIntent(n) ==
    LET next == IF completion[n] = "intent" THEN "lane" ELSE "last lane"
    IN /\ completion[n] \in {"intent", "last intent"}
       /\ \/ /\ store[n].alive
             /\ store' = [store EXCEPT ![n].requested = store[n].unpublished]
             /\ completion' = [completion EXCEPT ![n] = next]
             /\ UNCHANGED <<runtime, cache, spent>>
          \/ /\ ~store[n].alive
             /\ Ended(n, "gone")
             /\ UNCHANGED <<store, spent>>
          \/ /\ Faulty
             /\ Ended(n, "failed")
             /\ UNCHANGED store
       /\ flags' = [flags EXCEPT ![n].modified = TRUE]
       /\ UNCHANGED <<pending, writes, loop, lane>>

\* finish_publication takes the lane and the pending work; its job is refused
\* once the runtime is stopping, unless the shutdown itself runs it.
TakeLane(n) ==
    LET final == completion[n] = "last lane"
    IN /\ completion[n] \in {"lane", "last lane"}
       /\ lane = Free
       /\ IF Admits(final)
            THEN /\ lane' = <<"completion", n>>
                 /\ completion' = [completion EXCEPT ![n] = IF final THEN "last job" ELSE "job"]
                 /\ pending' = [pending EXCEPT ![n].dirty = FALSE]
                 /\ UNCHANGED <<runtime, cache>>
            ELSE /\ Ended(n, "failed")
                 /\ pending' = [pending EXCEPT ![n].dirty = FALSE]
                 /\ UNCHANGED lane
       /\ UNCHANGED <<store, flags, writes, loop, spent>>

\* Mutant of AfterFailure: a failed publication is left to the next boundary.
AfterFailure_Drop(n) == UNCHANGED <<pending, loop>>

\* finish_publication schedules the loop again after an error.
AfterFailure(n) == Schedule(n)

RunCompletion(n) ==
    /\ completion[n] \in {"job", "last job"}
    /\ lane = <<"completion", n>>
    /\ lane' = Free
    /\ \/ /\ store[n].alive
          /\ store' = [store EXCEPT ![n] = PublishedStore(@)]
          /\ flags' = [flags EXCEPT ![n] = [modified |-> FALSE, editing |-> FALSE]]
          /\ Ended(n, "ok")
          /\ UNCHANGED <<pending, loop, spent>>
       \/ /\ ~store[n].alive
          /\ Ended(n, "gone")
          /\ AfterFailure(n)
          /\ UNCHANGED <<store, flags, spent>>
       \/ /\ Faulty
          /\ Ended(n, "failed")
          /\ AfterFailure(n)
          /\ UNCHANGED <<store, flags>>
    /\ UNCHANGED writes
-----------------------------------------------------------------------------
(* The maintenance loop.                                                   *)

\* The head of the loop: without work the loop ends, marked under the mutex.
LoopCheck(n) ==
    /\ loop[n] = "check"
    /\ loop' = [loop EXCEPT ![n] = IF pending[n].dirty THEN "wait" ELSE "off"]
    /\ pending' = [pending EXCEPT ![n].running = pending[n].dirty]
    /\ UNCHANGED <<store, flags, writes, completion, lane, runtime, cache, spent>>

\* After a minute, or woken by a publication of the same note.
LoopWakes(n) ==
    /\ loop[n] = "wait"
    /\ loop' = [loop EXCEPT ![n] = "lane"]
    /\ UNCHANGED <<store, flags, pending, writes, completion, lane, runtime, cache, spent>>

\* The loop notices the stop while it sleeps or waits for the lane.
LoopStops(n) ==
    /\ loop[n] \in {"wait", "lane"} /\ ~Accepting
    /\ loop' = [loop EXCEPT ![n] = "off"]
    /\ pending' = [pending EXCEPT ![n].running = FALSE]
    /\ UNCHANGED <<store, flags, writes, completion, lane, runtime, cache, spent>>

\* Mutant of LaneAfterRefusal: the guard outlives the refused job.
LaneAfterRefusal_Held(n) == <<"loop", n>>

\* The lane guard of a refused job is dropped with it.
LaneAfterRefusal(n) == Free

\* The lane is won; the work may have been done by a completion meanwhile,
\* and the job may be refused.
LoopLane(n) ==
    /\ loop[n] = "lane" /\ lane = Free
    /\ IF ~pending[n].dirty
         THEN /\ loop' = [loop EXCEPT ![n] = "off"]
              /\ pending' = [pending EXCEPT ![n].running = FALSE]
              /\ UNCHANGED lane
         ELSE IF Admits(FALSE)
         THEN /\ loop' = [loop EXCEPT ![n] = "job"]
              /\ pending' = [pending EXCEPT ![n].dirty = FALSE]
              /\ lane' = <<"loop", n>>
         ELSE /\ loop' = [loop EXCEPT ![n] = "off"]
              /\ pending' = [pending EXCEPT ![n] = [dirty |-> FALSE, running |-> FALSE]]
              /\ lane' = LaneAfterRefusal(n)
    /\ UNCHANGED <<store, flags, writes, completion, runtime, cache, spent>>

\* The end of a job: more work repeats the loop.
LoopGoesOn(n, more) ==
    LET dirty == pending[n].dirty \/ more
    IN /\ pending' = [pending EXCEPT ![n] = [dirty |-> dirty, running |-> dirty]]
       /\ loop' = [loop EXCEPT ![n] = IF dirty THEN "check" ELSE "off"]

\* A requested publication is repeated; otherwise one compaction.
LoopJob(n) ==
    /\ loop[n] = "job" /\ lane = <<"loop", n>>
    /\ lane' = Free
    /\ \/ /\ store[n].alive /\ store[n].requested
          /\ store' = [store EXCEPT ![n] = PublishedStore(@)]
          /\ flags' = [flags EXCEPT ![n] = [modified |-> FALSE, editing |-> FALSE]]
          /\ LoopGoesOn(n, FALSE)
          /\ UNCHANGED spent
       \/ /\ store[n].alive /\ ~store[n].requested
          /\ store' = [store EXCEPT ![n] = CompactOnce(@)]
          /\ LoopGoesOn(n, CompactOnce(store[n]).fresh > 0)
          /\ UNCHANGED <<flags, spent>>
       \/ /\ ~store[n].alive
          /\ LoopGoesOn(n, FALSE)
          /\ UNCHANGED <<store, flags, spent>>
       \/ /\ Faulty
          /\ LoopGoesOn(n, TRUE)
          /\ UNCHANGED <<store, flags>>
    /\ UNCHANGED <<writes, completion, runtime, cache>>
-----------------------------------------------------------------------------
(* Shutdown.                                                               *)

\* Admission closes and the sessions to complete are taken under one lock.
StopRuntime ==
    /\ runtime.step = "none"
    /\ runtime' = [runtime EXCEPT !.phase = "stopping", !.step = "drain", !.todo = cache]
    /\ UNCHANGED <<store, flags, pending, writes, completion, loop, lane, cache, spent>>

\* Mutant of Drained: only database jobs are waited for, not their tasks.
Drained_Jobs ==
    \A n \in InkNotes : /\ writes[n] # "job" /\ loop[n] # "job"
                        /\ completion[n] \notin {"intent", "job", "last intent", "last job"}

\* drain: no admitted job and no task is left.
Drained ==
    \A n \in InkNotes : writes[n] # "job" /\ loop[n] = "off" /\ completion[n] = "none"

FirstDrain ==
    /\ runtime.step = "drain" /\ Drained
    /\ runtime' = [runtime EXCEPT !.step = "finish"]
    /\ UNCHANGED <<store, flags, pending, writes, completion, loop, lane, cache, spent>>

\* complete_inner(true) for the next session, one at a time.
FinishNext(n) ==
    /\ runtime.step = "finish" /\ n \in runtime.todo
    /\ \A m \in InkNotes : completion[m] = "none"
    /\ IF NeedsCompletion(n)
         THEN completion' = [completion EXCEPT ![n] = "last intent"] /\ UNCHANGED runtime
         ELSE runtime' = [runtime EXCEPT !.todo = @ \ {n}] /\ UNCHANGED completion
    /\ UNCHANGED <<store, flags, pending, writes, loop, lane, cache, spent>>

\* The second drain, then Closed and the answer to every waiter.
CloseRuntime ==
    /\ runtime.step = "finish" /\ runtime.todo = {} /\ Drained
    /\ runtime' = [runtime EXCEPT !.phase = "closed", !.step = "done"]
    /\ cache' = {}
    /\ UNCHANGED <<store, flags, pending, writes, completion, loop, lane, spent>>

Progress(n) ==
    \/ RunWrite(n) \/ WriteReturns(n)
    \/ RecordIntent(n) \/ TakeLane(n) \/ RunCompletion(n)
    \/ LoopCheck(n) \/ LoopWakes(n) \/ LoopStops(n) \/ LoopLane(n) \/ LoopJob(n)

InkNext ==
    \/ \E n \in InkNotes : Open(n)
    \/ \E n \in PennedNotes : Write(n)
    \/ \E n \in PennedNotes : DeleteInkNote(n)
    \/ \E n \in InkNotes : StartCompletion(n)
    \/ \E n \in InkNotes : Progress(n)
    \/ StopRuntime
    \/ FirstDrain
    \/ \E n \in InkNotes : FinishNext(n)
    \/ CloseRuntime

\* Threads and tasks that are ready run; the lane is a fair queue.
InkFairness ==
    /\ \A n \in InkNotes :
         /\ WF_drainVars(RunWrite(n)) /\ WF_drainVars(WriteReturns(n))
         /\ WF_drainVars(RecordIntent(n)) /\ SF_drainVars(TakeLane(n))
         /\ WF_drainVars(RunCompletion(n)) /\ WF_drainVars(LoopCheck(n))
         /\ WF_drainVars(LoopWakes(n)) /\ WF_drainVars(LoopStops(n))
         /\ SF_drainVars(LoopLane(n)) /\ WF_drainVars(LoopJob(n))
         /\ WF_drainVars(FinishNext(n))
    /\ WF_drainVars(FirstDrain) /\ WF_drainVars(CloseRuntime)

InkSpec == InkInit /\ [][InkNext]_drainVars

InkFairSpec == InkSpec /\ InkFairness
-----------------------------------------------------------------------------
\* Once the runtime reports closed, no admitted job, task or lane holder is
\* left that could still touch the database file (shutdown, lifecycle.rs:222).
ClosedQuiet ==
    runtime.phase = "closed" =>
      /\ lane = Free
      /\ \A n \in InkNotes : writes[n] # "job" /\ loop[n] = "off" /\ completion[n] = "none"

\* A shutdown that reports success has published every stroke of every note
\* that still exists, in whatever order writes, background publications and
\* the stop came.
ShutdownPublishes ==
    (runtime.phase = "closed" /\ ~runtime.failed) =>
      \A n \in InkNotes : ~store[n].unpublished

\* A recorded intent to publish is carried out, although jobs fail, unless
\* the app closes (it is then completed at the next start).
IntentServed ==
    \A n \in InkNotes : store[n].requested ~> (~store[n].requested \/ ~Accepting)

\* New geometry is packed in the end, although a completion and the loop take
\* the pending work from each other.
FreshPacked ==
    \A n \in InkNotes : (store[n].fresh > 0) ~> (store[n].fresh = 0 \/ ~Accepting)

\* A shutdown ends.
ShutdownEnds == (runtime.phase = "stopping") ~> (runtime.phase = "closed")

\* Every intent, every stroke and every shutdown is served in the end.
InkServed == IntentServed /\ FreshPacked /\ ShutdownEnds

\* What shutdown reports is true: nothing runs on, and nothing stays
\* unpublished behind a success.
ShutdownTruthful == ClosedQuiet /\ ShutdownPublishes
=============================================================================

------------------------- MODULE InkRuntime_proofs -------------------------
(***************************************************************************)
(* Proof that the shutdown of the handwriting runtime tells the truth      *)
(* (notes-core ink/runtime.rs, ink/runtime/lifecycle.rs, src-tauri         *)
(* commands/handwriting/maintenance.rs), for every set of notes and any    *)
(* number of writes and faults; and, in the second half, that the drawings *)
(* those jobs publish lose no stroke.                                      *)
(*                                                                         *)
(* ShutdownTruthful speaks of the closed runtime only.  What makes it true *)
(* is kept from the first stroke on: whoever holds the lane is a running   *)
(* job, a loop that was not marked running has ended, unpublished strokes  *)
(* leave the session marked, and every note that has some, or a write      *)
(* under way, is charged to somebody: to the cache while the runtime is    *)
(* open, then to the list the shutdown works through, or to its error.     *)
(***************************************************************************)
EXTENDS InkRuntime, InkVersions, FiniteSetTheorems, TLAPS

StoreRows == [alive : BOOLEAN, unpublished : BOOLEAN, requested : BOOLEAN, fresh : Nat]
Owned == {"intent", "lane", "job"}
Final == {"last intent", "last lane", "last job"}
RuntimeStates == [phase : {"open", "stopping", "closed"}, step : {"none", "drain", "finish", "done"},
                  todo : SUBSET InkNotes, failed : BOOLEAN]

InkTyped ==
    /\ store \in [InkNotes -> StoreRows]
    /\ flags \in [InkNotes -> [modified : BOOLEAN, editing : BOOLEAN]]
    /\ pending \in [InkNotes -> [dirty : BOOLEAN, running : BOOLEAN]]
    /\ writes \in [InkNotes -> {"none", "job", "stored"}]
    /\ completion \in [InkNotes -> {"none"} \cup Owned \cup Final]
    /\ loop \in [InkNotes -> {"off", "check", "wait", "lane", "job"}]
    /\ runtime \in RuntimeStates
    /\ cache \in SUBSET InkNotes

\* The phase follows the steps of the shutdown.
PhaseFollows ==
    /\ runtime.phase = "open" <=> runtime.step = "none"
    /\ runtime.phase = "closed" <=> runtime.step = "done"

\* The lane is free or held by a job that runs.
LaneHeld ==
    \/ lane = Free
    \/ \E n \in InkNotes : lane = <<"completion", n>> /\ completion[n] \in {"job", "last job"}
    \/ \E n \in InkNotes : lane = <<"loop", n>> /\ loop[n] = "job"

\* The mutex's flag says whether a loop lives.
LoopsCounted == \A n \in InkNotes : pending[n].running <=> loop[n] # "off"

\* Unpublished strokes leave the session marked, and go with their note.
MarksKept == \A n \in InkNotes : store[n].unpublished => flags[n].modified /\ store[n].alive

\* The shutdown's own completions run after the first drain, when no write does
\* any more; once it is done nothing runs.
StopsKept ==
    /\ \A n \in InkNotes : completion[n] \in Final => runtime.step = "finish"
    /\ runtime.step \in {"finish", "done"} => \A n \in InkNotes : writes[n] # "job"
    /\ runtime.step = "done" => \A n \in InkNotes : loop[n] = "off" /\ completion[n] = "none"

\* The note has strokes to publish, or may get some.
Unsettled(n) == store[n].unpublished \/ (store[n].alive /\ writes[n] = "job")

\* Somebody will see to the note, or the shutdown reports a failure.
Charged(n) ==
    \/ runtime.step = "none" /\ n \in cache
    \/ runtime.step \in {"drain", "finish"} /\ n \in runtime.todo
    \/ runtime.failed

Owed == \A n \in InkNotes : Unsettled(n) => Charged(n)

InkInv == /\ InkTyped
          /\ PhaseFollows
          /\ LaneHeld
          /\ LoopsCounted
          /\ MarksKept
          /\ StopsKept
          /\ Owed
-----------------------------------------------------------------------------
LEMMA InkInitially == InkInit => InkInv
  <1> SUFFICES ASSUME InkInit PROVE InkInv
    OBVIOUS
  <1>1. InkTyped
    BY DEF InkInit, InkTyped, StoreRows, RuntimeStates
  <1>2. PhaseFollows /\ LaneHeld /\ LoopsCounted /\ MarksKept
    BY DEF InkInit, PhaseFollows, LaneHeld, LoopsCounted, MarksKept
  <1>3. StopsKept
    BY DEF InkInit, StopsKept, Final
  <1>4. Owed
    BY DEF InkInit, Owed, Unsettled
  <1> QED
    BY <1>1, <1>2, <1>3, <1>4 DEF InkInv

(* The holder of the lane keeps it while its job runs. *)
LEMMA LaneKept ==
  ASSUME LaneHeld, lane' = lane,
         \A m \in InkNotes : completion[m] \in {"job", "last job"}
                               => completion'[m] \in {"job", "last job"},
         \A m \in InkNotes : loop[m] = "job" => loop'[m] = "job"
  PROVE  LaneHeld'
  BY DEF LaneHeld

(* Notes stay charged while shutdown and cache stay as they are. *)
LEMMA OwedKept ==
  ASSUME Owed, UNCHANGED <<runtime, cache>>, \A m \in InkNotes : Unsettled(m)' => Unsettled(m)
  PROVE  Owed'
  BY DEF Owed, Charged

(* schedule starts a loop only where none lives, and none once the runtime stops. *)
LEMMA ScheduleSafe ==
  ASSUME InkTyped, LoopsCounted, NEW n \in InkNotes, Schedule(n)
  PROVE  /\ pending' \in [InkNotes -> [dirty : BOOLEAN, running : BOOLEAN]]
         /\ loop' \in [InkNotes -> {"off", "check", "wait", "lane", "job"}]
         /\ LoopsCounted'
         /\ \A m \in InkNotes : loop[m] = "job" => loop'[m] = "job"
         /\ runtime.phase # "open" => loop' = loop
  <1>1. CASE ~ Accepting
    BY <1>1 DEF Schedule, InkTyped, LoopsCounted
  <1>2. CASE Accepting
    <2>1. /\ pending' = [pending EXCEPT ![n] = [dirty |-> TRUE, running |-> TRUE]]
          /\ loop' = [loop EXCEPT ![n] = IF pending[n].running THEN loop[n] ELSE "check"]
          /\ runtime.phase = "open"
      BY <1>2 DEF Schedule, Scheduled, LoopAfter, Accepting
    <2>2. /\ pending' \in [InkNotes -> [dirty : BOOLEAN, running : BOOLEAN]]
          /\ loop' \in [InkNotes -> {"off", "check", "wait", "lane", "job"}]
      BY <2>1 DEF InkTyped
    <2>3. /\ pending'[n].running /\ loop'[n] # "off" /\ (loop[n] = "job" => loop'[n] = "job")
          /\ \A m \in InkNotes \ {n} : pending'[m] = pending[m] /\ loop'[m] = loop[m]
      BY <2>1 DEF InkTyped, LoopsCounted
    <2> QED
      BY <2>1, <2>2, <2>3 DEF LoopsCounted
  <1> QED
    BY <1>1, <1>2

(* The end of a maintenance job marks what it leaves. *)
LEMMA LoopGoesOnSafe ==
  ASSUME InkTyped, LoopsCounted, NEW n \in InkNotes, NEW more \in BOOLEAN, LoopGoesOn(n, more)
  PROVE  /\ pending' \in [InkNotes -> [dirty : BOOLEAN, running : BOOLEAN]]
         /\ loop' \in [InkNotes -> {"off", "check", "wait", "lane", "job"}]
         /\ LoopsCounted'
  <1> DEFINE dirty == pending[n].dirty \/ more
  <1>1. dirty \in BOOLEAN
    BY DEF InkTyped
  <1>2. /\ pending' = [pending EXCEPT ![n] = [dirty |-> dirty, running |-> dirty]]
        /\ loop' = [loop EXCEPT ![n] = IF dirty THEN "check" ELSE "off"]
    BY DEF LoopGoesOn
  <1> HIDE DEF dirty
  <1>3. /\ pending' \in [InkNotes -> [dirty : BOOLEAN, running : BOOLEAN]]
        /\ loop' \in [InkNotes -> {"off", "check", "wait", "lane", "job"}]
    BY <1>1, <1>2 DEF InkTyped
  <1>4. /\ pending'[n].running = dirty /\ (loop'[n] = IF dirty THEN "check" ELSE "off")
        /\ \A m \in InkNotes \ {n} : pending'[m] = pending[m] /\ loop'[m] = loop[m]
    BY <1>2 DEF InkTyped
  <1> QED
    BY <1>1, <1>3, <1>4 DEF LoopsCounted

(* A completion that ends takes only its own note from the list, and a failed one
   of the shutdown leaves its error. *)
LEMMA EndedSafe ==
  ASSUME InkInv, NEW n \in InkNotes, NEW outcome \in {"ok", "gone", "failed"},
         completion[n] # "none", Ended(n, outcome)
  PROVE  /\ completion' = [completion EXCEPT ![n] = "none"]
         /\ completion' \in [InkNotes -> {"none"} \cup Owned \cup Final]
         /\ runtime' \in RuntimeStates /\ cache' \in SUBSET InkNotes
         /\ runtime'.phase = runtime.phase /\ runtime'.step = runtime.step
         /\ runtime.failed => runtime'.failed
         /\ \A m \in InkNotes \ {n} : Charged(m) => Charged(m)'
         /\ completion[n] \in Owned /\ outcome # "gone" => UNCHANGED <<runtime, cache>>
         /\ completion[n] \in Final /\ outcome = "failed" => runtime'.failed
  <1>1. /\ completion' = [completion EXCEPT ![n] = "none"]
        /\ cache' \in {cache, cache \ {n}} /\ (outcome # "gone" => cache' = cache)
        /\ completion' \in [InkNotes -> {"none"} \cup Owned \cup Final]
        /\ completion[n] \in Owned \cup Final
    BY DEF Ended, InkInv, InkTyped
  <1>2. CASE completion[n] \in Owned
    <2>1. runtime' = runtime /\ completion[n] \notin Final
      BY <1>2 DEF Ended, Owned, Final
    <2> QED
      BY <1>1, <1>2, <2>1 DEF InkInv, InkTyped, Charged
  <1>3. CASE completion[n] \in Final
    <2>1. completion[n] \notin Owned
          /\ runtime' = [runtime EXCEPT !.todo = runtime.todo \ {n},
                                        !.failed = runtime.failed \/ outcome = "failed"]
      BY <1>3 DEF Ended, Owned, Final
    <2>2. (runtime.failed \/ outcome = "failed") \in BOOLEAN
      BY DEF InkInv, InkTyped, RuntimeStates
    <2>3. /\ runtime' \in RuntimeStates
          /\ runtime'.phase = runtime.phase /\ runtime'.step = runtime.step
          /\ runtime'.todo = runtime.todo \ {n}
          /\ runtime'.failed = (runtime.failed \/ outcome = "failed")
      BY <2>1, <2>2 DEF InkInv, InkTyped, RuntimeStates
    <2> QED
      BY <1>1, <1>3, <2>1, <2>3 DEF InkInv, InkTyped, Charged
  <1> QED
    BY <1>1, <1>2, <1>3
-----------------------------------------------------------------------------
(* Commands of the pen. *)

(* What a write stores and marks. *)
LEMMA WrittenRow ==
  ASSUME NEW r \in StoreRows, NEW c \in Nat
  PROVE  /\ [r EXCEPT !.unpublished = TRUE, !.fresh = c] \in StoreRows
         /\ [r EXCEPT !.unpublished = TRUE, !.fresh = c].alive = r.alive
         /\ [r EXCEPT !.unpublished = TRUE, !.fresh = c].unpublished = TRUE
  BY DEF StoreRows

LEMMA MarkedFlags ==
  ASSUME NEW f \in [modified : BOOLEAN, editing : BOOLEAN]
  PROVE  /\ [f EXCEPT !.modified = TRUE] \in [modified : BOOLEAN, editing : BOOLEAN]
         /\ [f EXCEPT !.modified = TRUE].modified
  OBVIOUS

LEMMA OpenSafe ==
  ASSUME InkInv, NEW n \in InkNotes, Open(n)
  PROVE  InkInv'
  <1> USE DEF InkInv
  <1>1. /\ flags' = [flags EXCEPT ![n] = [flags[n] EXCEPT !.editing = TRUE]]
        /\ cache' = cache \cup {n}
        /\ UNCHANGED <<store, pending, writes, completion, loop, lane, runtime>>
    BY DEF Open
  <1>2. flags' \in [InkNotes -> [modified : BOOLEAN, editing : BOOLEAN]]
        /\ \A m \in InkNotes : flags'[m].modified = flags[m].modified
    BY <1>1 DEF InkTyped
  <1>3. InkTyped'
    BY <1>1, <1>2 DEF InkTyped
  <1>4. PhaseFollows' /\ LaneHeld' /\ LoopsCounted' /\ StopsKept' /\ MarksKept'
    BY <1>1, <1>2, LaneKept DEF PhaseFollows, LoopsCounted, StopsKept, MarksKept
  <1>5. Owed'
    BY <1>1 DEF Owed, Unsettled, Charged
  <1> QED
    BY <1>3, <1>4, <1>5

LEMMA WriteSafe ==
  ASSUME InkInv, NEW n \in InkNotes, Write(n)
  PROVE  InkInv'
  <1> USE DEF InkInv
  <1>1. /\ writes' = [writes EXCEPT ![n] = "job"]
        /\ n \in cache /\ runtime.phase = "open" /\ runtime.step = "none"
        /\ UNCHANGED <<store, flags, pending, completion, loop, lane, runtime, cache>>
    BY DEF Write, Admits, PhaseFollows
  <1>2. InkTyped' /\ \A m \in InkNotes \ {n} : writes'[m] = writes[m]
    BY <1>1 DEF InkTyped
  <1>3. PhaseFollows' /\ LaneHeld' /\ LoopsCounted' /\ StopsKept' /\ MarksKept'
    BY <1>1, LaneKept DEF PhaseFollows, LoopsCounted, StopsKept, MarksKept
  <1>4. Owed'
    BY <1>1, <1>2 DEF Owed, Unsettled, Charged
  <1> QED
    BY <1>2, <1>3, <1>4

LEMMA RunWriteSafe ==
  ASSUME InkInv, NEW n \in InkNotes, RunWrite(n)
  PROVE  InkInv'
  <1> USE DEF InkInv
  <1>1. /\ writes[n] = "job"
        /\ UNCHANGED <<pending, completion, loop, lane, runtime, cache>>
    BY DEF RunWrite
  <1>2. runtime.step \notin {"finish", "done"}
    BY <1>1 DEF StopsKept
  <1>3. PhaseFollows' /\ LaneHeld' /\ LoopsCounted'
    BY <1>1, LaneKept DEF PhaseFollows, LoopsCounted
  <1>4. StopsKept'
    BY <1>1, <1>2 DEF StopsKept
  <1>5. CASE ~ store[n].alive
    <2>1. writes' = [writes EXCEPT ![n] = "none"] /\ UNCHANGED <<store, flags>>
      BY <1>5 DEF RunWrite
    <2>2. InkTyped' /\ MarksKept'
      BY <1>1, <2>1 DEF InkTyped, MarksKept
    <2>3. \A m \in InkNotes : Unsettled(m)' => Unsettled(m)
      BY <2>1 DEF Unsettled, InkTyped
    <2> QED
      BY <1>1, <1>3, <1>4, <2>2, <2>3, OwedKept
  <1>6. CASE store[n].alive
    <2> DEFINE chunks == IF store[n].fresh = 2 THEN 2 ELSE store[n].fresh + 1
               row == [store[n] EXCEPT !.unpublished = TRUE, !.fresh = chunks]
               mark == [flags[n] EXCEPT !.modified = TRUE]
    <2>1. store[n] \in StoreRows /\ flags[n] \in [modified : BOOLEAN, editing : BOOLEAN]
      BY DEF InkTyped
    <2>2. /\ store' = [store EXCEPT ![n] = row]
          /\ flags' = [flags EXCEPT ![n] = mark]
          /\ writes' = [writes EXCEPT ![n] = "stored"]
      BY <1>6 DEF RunWrite
    <2>3. /\ row \in StoreRows /\ row.alive /\ row.unpublished
          /\ mark \in [modified : BOOLEAN, editing : BOOLEAN] /\ mark.modified
      <3>1. chunks \in Nat
        BY <2>1 DEF StoreRows
      <3> HIDE DEF chunks
      <3> QED
        BY <1>6, <2>1, <3>1, WrittenRow, MarkedFlags, ZenonT(60)
    <2> HIDE DEF row, mark
    <2>4. InkTyped'
      BY <1>1, <2>2, <2>3 DEF InkTyped
    <2>5. /\ store'[n] = row /\ flags'[n] = mark
          /\ \A m \in InkNotes \ {n} : /\ store'[m] = store[m] /\ flags'[m] = flags[m]
                                       /\ writes'[m] = writes[m]
      BY <2>2 DEF InkTyped
    <2>6. MarksKept'
      BY <2>3, <2>5 DEF MarksKept
    <2>7. Unsettled(n) /\ \A m \in InkNotes \ {n} : Unsettled(m)' => Unsettled(m)
      BY <1>1, <1>6, <2>5 DEF Unsettled
    <2>8. \A m \in InkNotes : Unsettled(m)' => Unsettled(m)
      BY <2>7
    <2> QED
      BY <1>1, <1>3, <1>4, <2>4, <2>6, <2>8, OwedKept
  <1> QED
    BY <1>5, <1>6

LEMMA WriteReturnsSafe ==
  ASSUME InkInv, NEW n \in InkNotes, WriteReturns(n)
  PROVE  InkInv'
  <1> USE DEF InkInv
  <1>1. /\ writes[n] = "stored" /\ writes' = [writes EXCEPT ![n] = "none"] /\ Schedule(n)
        /\ UNCHANGED <<store, flags, completion, lane, runtime, cache>>
    BY DEF WriteReturns
  <1>2. /\ pending' \in [InkNotes -> [dirty : BOOLEAN, running : BOOLEAN]]
        /\ loop' \in [InkNotes -> {"off", "check", "wait", "lane", "job"}]
        /\ LoopsCounted'
        /\ \A m \in InkNotes : loop[m] = "job" => loop'[m] = "job"
        /\ runtime.phase # "open" => loop' = loop
    BY <1>1, ScheduleSafe
  <1>3. InkTyped' /\ \A m \in InkNotes : writes'[m] = "job" => writes[m] = "job"
    BY <1>1, <1>2 DEF InkTyped
  <1>4. PhaseFollows' /\ LaneHeld' /\ MarksKept'
    BY <1>1, <1>2, LaneKept DEF PhaseFollows, MarksKept
  <1>5. StopsKept'
    BY <1>1, <1>2, <1>3 DEF StopsKept, PhaseFollows
  <1>6. \A m \in InkNotes : Unsettled(m)' => Unsettled(m)
    BY <1>1, <1>3 DEF Unsettled
  <1> QED
    BY <1>1, <1>2, <1>3, <1>4, <1>5, <1>6, OwedKept

LEMMA DeleteInkNoteSafe ==
  ASSUME InkInv, NEW n \in InkNotes, DeleteInkNote(n)
  PROVE  InkInv'
  <1> USE DEF InkInv
  <1>1. /\ store' = [store EXCEPT ![n] = [alive |-> FALSE, unpublished |-> FALSE,
                                          requested |-> FALSE, fresh |-> 0]]
        /\ UNCHANGED <<flags, pending, writes, completion, loop, lane, runtime, cache>>
    BY DEF DeleteInkNote
  <1>2. InkTyped' /\ ~ store'[n].alive /\ ~ store'[n].unpublished
        /\ \A m \in InkNotes \ {n} : store'[m] = store[m]
    BY <1>1 DEF InkTyped, StoreRows
  <1>3. PhaseFollows' /\ LaneHeld' /\ LoopsCounted' /\ StopsKept'
    BY <1>1, LaneKept DEF PhaseFollows, LoopsCounted, StopsKept
  <1>4. MarksKept'
    BY <1>1, <1>2 DEF MarksKept
  <1>5. \A m \in InkNotes : Unsettled(m)' => Unsettled(m)
    BY <1>1, <1>2 DEF Unsettled
  <1> QED
    BY <1>1, <1>2, <1>3, <1>4, <1>5, OwedKept
-----------------------------------------------------------------------------
(* Completion. *)

(* The rows that the jobs leave, and the flags of the mutex. *)
LEMMA PublishedRow ==
  ASSUME NEW r \in StoreRows
  PROVE  /\ PublishedStore(r) \in StoreRows
         /\ PublishedStore(r).alive = r.alive
         /\ ~ PublishedStore(r).unpublished
  BY DEF StoreRows, PublishedStore

LEMMA CompactedRow ==
  ASSUME NEW r \in StoreRows
  PROVE  /\ CompactOnce(r) \in StoreRows
         /\ CompactOnce(r).alive = r.alive
         /\ CompactOnce(r).unpublished = r.unpublished
  BY DEF StoreRows, CompactOnce

LEMMA RequestedRow ==
  ASSUME NEW r \in StoreRows, NEW b \in BOOLEAN
  PROVE  /\ [r EXCEPT !.requested = b] \in StoreRows
         /\ [r EXCEPT !.requested = b].alive = r.alive
         /\ [r EXCEPT !.requested = b].unpublished = r.unpublished
  BY DEF StoreRows

LEMMA PendingFlags ==
  ASSUME NEW p \in [dirty : BOOLEAN, running : BOOLEAN], NEW b \in BOOLEAN
  PROVE  /\ [p EXCEPT !.dirty = b] \in [dirty : BOOLEAN, running : BOOLEAN]
         /\ [p EXCEPT !.dirty = b].running = p.running
         /\ [p EXCEPT !.running = b] \in [dirty : BOOLEAN, running : BOOLEAN]
         /\ [p EXCEPT !.running = b].running = b
  OBVIOUS

(* What the end of a completion leaves of the shutdown's bookkeeping: if the note
   is gone it needs nobody, if it was published only a write under way can need
   somebody, and a failure of the shutdown's own completion is reported. *)
LEMMA EndedKeeps ==
  ASSUME InkInv, NEW n \in InkNotes, NEW outcome \in {"ok", "gone", "failed"},
         completion[n] # "none", Ended(n, outcome), writes' = writes,
         \A m \in InkNotes \ {n} : store'[m] = store[m],
         Unsettled(n)' => Unsettled(n),
         outcome = "gone" => ~ Unsettled(n)',
         outcome = "ok" => ~ store'[n].unpublished
  PROVE  PhaseFollows' /\ StopsKept' /\ Owed'
  <1> USE DEF InkInv
  <1>1. /\ completion' = [completion EXCEPT ![n] = "none"]
        /\ runtime'.phase = runtime.phase /\ runtime'.step = runtime.step
        /\ \A m \in InkNotes \ {n} : Charged(m) => Charged(m)'
        /\ completion[n] \in Owned /\ outcome # "gone" => UNCHANGED <<runtime, cache>>
        /\ completion[n] \in Final /\ outcome = "failed" => runtime'.failed
    BY EndedSafe
  <1>2. PhaseFollows'
    BY <1>1 DEF PhaseFollows
  <1>3. StopsKept'
    <2>1. runtime.step # "done"
      BY DEF StopsKept
    <2>2. \A m \in InkNotes : completion'[m] \in Final => completion[m] \in Final
      BY <1>1 DEF InkTyped, Final
    <2> QED
      BY <1>1, <2>1, <2>2 DEF StopsKept
  <1>4. \A m \in InkNotes \ {n} : Unsettled(m)' => Charged(m)'
    BY <1>1 DEF Owed, Unsettled
  <1>5. Unsettled(n)' => Charged(n)'
    <2>1. SUFFICES ASSUME Unsettled(n)' PROVE Charged(n)'
      OBVIOUS
    <2>2. Charged(n) /\ outcome \in {"ok", "failed"}
      BY <2>1 DEF Owed
    <2>3. CASE completion[n] \in Owned
      BY <1>1, <2>2, <2>3 DEF Charged
    <2>4. CASE completion[n] \in Final
      <3>1. writes[n] # "job"
        BY <2>4 DEF StopsKept
      <3>2. outcome = "failed"
        BY <2>1, <2>2, <3>1 DEF Unsettled
      <3> QED
        BY <1>1, <2>4, <3>2 DEF Charged
    <2> QED
      BY <2>3, <2>4 DEF InkTyped
  <1> QED
    BY <1>2, <1>3, <1>4, <1>5 DEF Owed

LEMMA StartCompletionSafe ==
  ASSUME InkInv, NEW n \in InkNotes, StartCompletion(n)
  PROVE  InkInv'
  <1> USE DEF InkInv
  <1>1. /\ completion[n] = "none" /\ completion' = [completion EXCEPT ![n] = "intent"]
        /\ runtime.step = "none"
        /\ UNCHANGED <<store, flags, pending, writes, loop, lane, runtime, cache>>
    BY DEF StartCompletion, Admits, PhaseFollows
  <1>2. InkTyped'
    BY <1>1 DEF InkTyped, Owned
  <1>3. LaneHeld'
    <2>1. \A m \in InkNotes : completion[m] \in {"job", "last job"} => completion'[m] = completion[m]
      BY <1>1 DEF InkTyped
    <2> QED
      BY <1>1, <2>1, LaneKept
  <1>4. StopsKept'
    BY <1>1 DEF StopsKept, InkTyped, Final
  <1>5. PhaseFollows' /\ LoopsCounted' /\ MarksKept' /\ Owed'
    BY <1>1 DEF PhaseFollows, LoopsCounted, MarksKept, Owed, Unsettled, Charged
  <1> QED
    BY <1>2, <1>3, <1>4, <1>5

LEMMA RecordIntentSafe ==
  ASSUME InkInv, NEW n \in InkNotes, RecordIntent(n)
  PROVE  InkInv'
  <1> USE DEF InkInv
  <1> DEFINE next == IF completion[n] = "intent" THEN "lane" ELSE "last lane"
             mark == [flags[n] EXCEPT !.modified = TRUE]
             row == [store[n] EXCEPT !.requested = store[n].unpublished]
  <1>1. /\ completion[n] \in {"intent", "last intent"} /\ completion[n] # "none"
        /\ flags' = [flags EXCEPT ![n] = mark]
        /\ UNCHANGED <<pending, writes, loop, lane>>
    BY DEF RecordIntent
  <1>2. store[n] \in StoreRows /\ flags[n] \in [modified : BOOLEAN, editing : BOOLEAN]
    BY DEF InkTyped
  <1>3. mark \in [modified : BOOLEAN, editing : BOOLEAN] /\ mark.modified
    BY <1>2, MarkedFlags
  <1>4. row \in StoreRows /\ row.alive = store[n].alive /\ row.unpublished = store[n].unpublished
    <2>1. store[n].unpublished \in BOOLEAN
      BY <1>2 DEF StoreRows
    <2> QED
      BY <1>2, <2>1, RequestedRow
  <1>5. \/ store[n].alive /\ store' = [store EXCEPT ![n] = row]
           /\ completion' = [completion EXCEPT ![n] = next] /\ UNCHANGED <<runtime, cache>>
        \/ ~ store[n].alive /\ Ended(n, "gone") /\ UNCHANGED store
        \/ Ended(n, "failed") /\ UNCHANGED store
    BY DEF RecordIntent
  <1> HIDE DEF mark, row
  <1>6. /\ flags' \in [InkNotes -> [modified : BOOLEAN, editing : BOOLEAN]]
        /\ \A m \in InkNotes : flags[m].modified => flags'[m].modified
    BY <1>1, <1>3 DEF InkTyped
  <1>7. LoopsCounted'
    BY <1>1 DEF LoopsCounted
  <1>8. CASE store' = [store EXCEPT ![n] = row] /\ completion' = [completion EXCEPT ![n] = next]
             /\ UNCHANGED <<runtime, cache>>
    <2>1. next \in {"lane", "last lane"} /\ (next \in Final => completion[n] \in Final)
      BY <1>1 DEF Final
    <2> HIDE DEF next
    <2>2. InkTyped'
      BY <1>1, <1>4, <1>6, <1>8, <2>1 DEF InkTyped, Owned, Final
    <2>3. \A m \in InkNotes : store'[m].alive = store[m].alive
                              /\ store'[m].unpublished = store[m].unpublished
      BY <1>4, <1>8 DEF InkTyped
    <2>4. /\ \A m \in InkNotes : completion[m] \in {"job", "last job"} => completion'[m] = completion[m]
          /\ \A m \in InkNotes : completion'[m] \in Final => completion[m] \in Final
      BY <1>1, <1>8, <2>1 DEF InkTyped
    <2>5. LaneHeld'
      BY <1>1, <2>4, LaneKept
    <2>6. MarksKept'
      BY <1>6, <2>3 DEF MarksKept
    <2>7. runtime.step # "done"
      BY <1>1 DEF StopsKept
    <2>8. PhaseFollows' /\ StopsKept'
      BY <1>1, <1>8, <2>4, <2>7 DEF PhaseFollows, StopsKept
    <2>9. Owed'
      BY <1>1, <1>8, <2>3, OwedKept DEF Unsettled
    <2> QED
      BY <1>7, <2>2, <2>5, <2>6, <2>8, <2>9
  <1>9. ASSUME NEW outcome \in {"gone", "failed"}, Ended(n, outcome), UNCHANGED store,
               outcome = "gone" => ~ store[n].alive
        PROVE  InkInv'
    <2>1. /\ Unsettled(n)' <=> Unsettled(n)
          /\ outcome = "gone" => ~ Unsettled(n)'
      BY <1>1, <1>9 DEF Unsettled, MarksKept
    <2>2. PhaseFollows' /\ StopsKept' /\ Owed'
      BY <1>1, <1>9, <2>1, EndedKeeps
    <2>3. /\ completion' = [completion EXCEPT ![n] = "none"]
          /\ completion' \in [InkNotes -> {"none"} \cup Owned \cup Final]
          /\ runtime' \in RuntimeStates /\ cache' \in SUBSET InkNotes
      BY <1>1, <1>9, EndedSafe
    <2>4. InkTyped'
      BY <1>1, <1>6, <1>9, <2>3 DEF InkTyped
    <2>5. \A m \in InkNotes : completion[m] \in {"job", "last job"} => completion'[m] = completion[m]
      BY <1>1, <2>3 DEF InkTyped
    <2>6. LaneHeld'
      BY <1>1, <2>5, LaneKept
    <2>7. MarksKept'
      BY <1>6, <1>9 DEF MarksKept
    <2> QED
      BY <1>7, <2>2, <2>4, <2>6, <2>7
  <1> QED
    BY <1>5, <1>8, <1>9

LEMMA TakeLaneSafe ==
  ASSUME InkInv, NEW n \in InkNotes, TakeLane(n)
  PROVE  InkInv'
  <1> USE DEF InkInv
  <1> DEFINE final == completion[n] = "last lane"
             next == IF final THEN "last job" ELSE "job"
             new == [pending[n] EXCEPT !.dirty = FALSE]
  <1>1. /\ completion[n] \in {"lane", "last lane"} /\ completion[n] # "none" /\ lane = Free
        /\ pending' = [pending EXCEPT ![n] = new]
        /\ UNCHANGED <<store, flags, writes, loop>>
    BY DEF TakeLane
  <1>2. \/ lane' = <<"completion", n>> /\ completion' = [completion EXCEPT ![n] = next]
           /\ UNCHANGED <<runtime, cache>>
        \/ Ended(n, "failed") /\ UNCHANGED lane
    BY DEF TakeLane
  <1>3. new \in [dirty : BOOLEAN, running : BOOLEAN] /\ new.running = pending[n].running
    <2>1. pending[n] \in [dirty : BOOLEAN, running : BOOLEAN] /\ FALSE \in BOOLEAN
      BY DEF InkTyped
    <2> QED
      BY <2>1, PendingFlags
  <1> HIDE DEF new
  <1>4. /\ pending' \in [InkNotes -> [dirty : BOOLEAN, running : BOOLEAN]]
        /\ \A m \in InkNotes : pending'[m].running = pending[m].running
    BY <1>1, <1>3 DEF InkTyped
  <1>5. LoopsCounted' /\ MarksKept'
    BY <1>1, <1>4 DEF LoopsCounted, MarksKept
  <1>6. CASE lane' = <<"completion", n>> /\ completion' = [completion EXCEPT ![n] = next]
             /\ UNCHANGED <<runtime, cache>>
    <2>1. next \in {"job", "last job"} /\ (next \in Final => completion[n] \in Final)
      BY <1>1 DEF Final
    <2> HIDE DEF next
    <2>2. InkTyped'
      BY <1>1, <1>4, <1>6, <2>1 DEF InkTyped, Owned, Final
    <2>3. completion'[n] = next /\ \A m \in InkNotes : completion'[m] \in Final => completion[m] \in Final
      BY <1>6, <2>1 DEF InkTyped
    <2>4. LaneHeld'
      BY <1>6, <2>1, <2>3 DEF LaneHeld
    <2>5. runtime.step # "done"
      BY <1>1 DEF StopsKept
    <2>6. PhaseFollows' /\ StopsKept'
      BY <1>1, <1>6, <2>3, <2>5 DEF PhaseFollows, StopsKept
    <2>7. Owed'
      BY <1>1, <1>6, OwedKept DEF Unsettled
    <2> QED
      BY <1>5, <2>2, <2>4, <2>6, <2>7
  <1>7. CASE Ended(n, "failed") /\ UNCHANGED lane
    <2>1. Unsettled(n)' <=> Unsettled(n)
      BY <1>1 DEF Unsettled
    <2>2. PhaseFollows' /\ StopsKept' /\ Owed'
      BY <1>1, <1>7, <2>1, EndedKeeps
    <2>3. /\ completion' \in [InkNotes -> {"none"} \cup Owned \cup Final]
          /\ runtime' \in RuntimeStates /\ cache' \in SUBSET InkNotes
      BY <1>1, <1>7, EndedSafe
    <2>4. InkTyped' /\ LaneHeld'
      BY <1>1, <1>4, <1>7, <2>3 DEF InkTyped, LaneHeld
    <2> QED
      BY <1>5, <2>2, <2>4
  <1> QED
    BY <1>2, <1>6, <1>7

LEMMA RunCompletionSafe ==
  ASSUME InkInv, NEW n \in InkNotes, RunCompletion(n)
  PROVE  InkInv'
  <1> USE DEF InkInv
  <1>1. completion[n] # "none" /\ lane' = Free /\ UNCHANGED writes
    BY DEF RunCompletion
  <1>2. LaneHeld'
    BY <1>1 DEF LaneHeld
  <1>3. CASE /\ store' = [store EXCEPT ![n] = PublishedStore(store[n])]
             /\ flags' = [flags EXCEPT ![n] = [modified |-> FALSE, editing |-> FALSE]]
             /\ Ended(n, "ok")
             /\ UNCHANGED <<pending, loop>>
    <2>1. /\ store' \in [InkNotes -> StoreRows]
          /\ store'[n].alive = store[n].alive /\ ~ store'[n].unpublished
          /\ \A m \in InkNotes \ {n} : store'[m] = store[m] /\ flags'[m] = flags[m]
      BY <1>3, PublishedRow DEF InkTyped
    <2>2. flags' \in [InkNotes -> [modified : BOOLEAN, editing : BOOLEAN]]
      BY <1>3 DEF InkTyped
    <2>3. Unsettled(n)' => Unsettled(n)
      BY <1>1, <2>1 DEF Unsettled
    <2>4. PhaseFollows' /\ StopsKept' /\ Owed'
      BY <1>1, <1>3, <2>1, <2>3, EndedKeeps
    <2>5. /\ completion' \in [InkNotes -> {"none"} \cup Owned \cup Final]
          /\ runtime' \in RuntimeStates /\ cache' \in SUBSET InkNotes
      BY <1>1, <1>3, EndedSafe
    <2>6. InkTyped' /\ MarksKept' /\ LoopsCounted'
      BY <1>1, <1>3, <2>1, <2>2, <2>5 DEF InkTyped, MarksKept, LoopsCounted
    <2> QED
      BY <1>2, <2>4, <2>6
  <1>4. ASSUME NEW outcome \in {"gone", "failed"}, Ended(n, outcome), Schedule(n),
               UNCHANGED <<store, flags>>, outcome = "gone" => ~ store[n].alive
        PROVE  InkInv'
    <2>1. /\ Unsettled(n)' <=> Unsettled(n)
          /\ outcome = "gone" => ~ Unsettled(n)'
      BY <1>1, <1>4 DEF Unsettled, MarksKept
    <2>2. PhaseFollows' /\ StopsKept' /\ Owed'
      BY <1>1, <1>4, <2>1, EndedKeeps
    <2>3. /\ completion' \in [InkNotes -> {"none"} \cup Owned \cup Final]
          /\ runtime' \in RuntimeStates /\ cache' \in SUBSET InkNotes
      BY <1>1, <1>4, EndedSafe
    <2>4. /\ pending' \in [InkNotes -> [dirty : BOOLEAN, running : BOOLEAN]]
          /\ loop' \in [InkNotes -> {"off", "check", "wait", "lane", "job"}]
          /\ LoopsCounted'
      BY <1>4, ScheduleSafe
    <2>5. InkTyped' /\ MarksKept'
      BY <1>1, <1>4, <2>3, <2>4 DEF InkTyped, MarksKept
    <2> QED
      BY <1>2, <2>2, <2>4, <2>5
  <1> QED
    BY <1>3, <1>4 DEF RunCompletion, AfterFailure
-----------------------------------------------------------------------------
(* The maintenance loop. *)

(* The steps of a loop outside its job: what they leave alone, and the flag of
   the mutex they keep true. *)
LEMMA LoopMoves ==
  ASSUME InkInv, NEW n \in InkNotes, NEW p \in [dirty : BOOLEAN, running : BOOLEAN],
         NEW l \in {"off", "check", "wait", "lane", "job"}, p.running <=> l # "off",
         loop[n] # "off",
         pending' = [pending EXCEPT ![n] = p], loop' = [loop EXCEPT ![n] = l],
         UNCHANGED <<store, flags, writes, completion, runtime, cache>>
  PROVE  InkTyped' /\ PhaseFollows' /\ LoopsCounted' /\ MarksKept' /\ StopsKept' /\ Owed'
  <1> USE DEF InkInv
  <1>1. InkTyped'
    BY DEF InkTyped
  <1>2. LoopsCounted'
    BY DEF InkTyped, LoopsCounted
  <1>3. runtime.step # "done"
    BY DEF StopsKept
  <1>4. PhaseFollows' /\ MarksKept' /\ StopsKept'
    BY <1>3 DEF PhaseFollows, MarksKept, StopsKept
  <1>5. Owed'
    BY OwedKept DEF Unsettled
  <1> QED
    BY <1>1, <1>2, <1>4, <1>5

LEMMA LoopRestsSafe ==
  ASSUME InkInv, NEW n \in InkNotes, LoopCheck(n) \/ LoopWakes(n) \/ LoopStops(n)
  PROVE  InkInv'
  <1> USE DEF InkInv
  <1>1. /\ loop[n] \in {"check", "wait", "lane"} /\ UNCHANGED lane
        /\ UNCHANGED <<store, flags, writes, completion, runtime, cache>>
    BY DEF LoopCheck, LoopWakes, LoopStops
  <1>2. pending[n] \in [dirty : BOOLEAN, running : BOOLEAN] /\ pending[n].dirty \in BOOLEAN
    BY DEF InkTyped
  <1>3. PICK p \in [dirty : BOOLEAN, running : BOOLEAN], l \in {"off", "check", "wait", "lane"} :
          /\ p.running <=> l # "off"
          /\ pending' = [pending EXCEPT ![n] = p] /\ loop' = [loop EXCEPT ![n] = l]
    <2>1. CASE LoopCheck(n)
      <3> DEFINE p == [pending[n] EXCEPT !.running = pending[n].dirty]
                 l == IF pending[n].dirty THEN "wait" ELSE "off"
      <3>1. p \in [dirty : BOOLEAN, running : BOOLEAN] /\ p.running = pending[n].dirty
        BY <1>2, PendingFlags
      <3>2. pending' = [pending EXCEPT ![n] = p] /\ loop' = [loop EXCEPT ![n] = l]
        BY <2>1 DEF LoopCheck
      <3> HIDE DEF p
      <3> QED
        BY <1>2, <3>1, <3>2
    <2>2. CASE LoopWakes(n)
      <3>1. /\ pending' = [pending EXCEPT ![n] = pending[n]]
            /\ loop' = [loop EXCEPT ![n] = "lane"]
            /\ pending[n].running
        BY <2>2, <1>1 DEF LoopWakes, InkTyped, LoopsCounted
      <3> QED
        BY <1>2, <3>1
    <2>3. CASE LoopStops(n)
      <3> DEFINE p == [pending[n] EXCEPT !.running = FALSE]
      <3>1. p \in [dirty : BOOLEAN, running : BOOLEAN] /\ p.running = FALSE
        BY <1>2, PendingFlags
      <3>2. pending' = [pending EXCEPT ![n] = p] /\ loop' = [loop EXCEPT ![n] = "off"]
        BY <2>3 DEF LoopStops
      <3> HIDE DEF p
      <3> QED
        BY <3>1, <3>2
    <2> QED
      BY <2>1, <2>2, <2>3
  <1>4. InkTyped' /\ PhaseFollows' /\ LoopsCounted' /\ MarksKept' /\ StopsKept' /\ Owed'
    BY <1>1, <1>3, LoopMoves
  <1>5. \A m \in InkNotes : loop[m] = "job" => loop'[m] = "job"
    BY <1>1, <1>3 DEF InkTyped
  <1>6. LaneHeld'
    BY <1>1, <1>5, LaneKept
  <1> QED
    BY <1>4, <1>6

LEMMA LoopLaneSafe ==
  ASSUME InkInv, NEW n \in InkNotes, LoopLane(n)
  PROVE  InkInv'
  <1> USE DEF InkInv
  <1>1. /\ loop[n] = "lane" /\ lane = Free
        /\ UNCHANGED <<store, flags, writes, completion, runtime, cache>>
    BY DEF LoopLane
  <1>2. pending[n] \in [dirty : BOOLEAN, running : BOOLEAN] /\ pending[n].running
    BY <1>1 DEF InkTyped, LoopsCounted
  <1>3. PICK p \in [dirty : BOOLEAN, running : BOOLEAN], l \in {"off", "job"} :
          /\ p.running <=> l # "off"
          /\ pending' = [pending EXCEPT ![n] = p] /\ loop' = [loop EXCEPT ![n] = l]
          /\ lane' = IF l = "job" THEN <<"loop", n>> ELSE Free
    <2> DEFINE idle == [pending[n] EXCEPT !.running = FALSE]
               taken == [pending[n] EXCEPT !.dirty = FALSE]
               none == [dirty |-> FALSE, running |-> FALSE]
    <2>1. /\ {idle, taken, none} \subseteq [dirty : BOOLEAN, running : BOOLEAN]
          /\ ~ idle.running /\ taken.running /\ ~ none.running
      <3>1. none \in [dirty : BOOLEAN, running : BOOLEAN] /\ ~ none.running
        OBVIOUS
      <3>2. idle \in [dirty : BOOLEAN, running : BOOLEAN] /\ idle.running = FALSE
        BY <1>2, PendingFlags
      <3>3. taken \in [dirty : BOOLEAN, running : BOOLEAN] /\ taken.running = pending[n].running
        BY <1>2, PendingFlags
      <3> HIDE DEF idle, taken, none
      <3> QED
        BY <1>2, <3>1, <3>2, <3>3
    <2>2. \/ /\ pending' = [pending EXCEPT ![n] = idle] /\ loop' = [loop EXCEPT ![n] = "off"]
             /\ lane' = Free
          \/ /\ pending' = [pending EXCEPT ![n] = taken] /\ loop' = [loop EXCEPT ![n] = "job"]
             /\ lane' = <<"loop", n>>
          \/ /\ pending' = [pending EXCEPT ![n] = none] /\ loop' = [loop EXCEPT ![n] = "off"]
             /\ lane' = Free
      BY <1>1 DEF LoopLane, LaneAfterRefusal
    <2> HIDE DEF idle, taken, none
    <2> QED
      BY <2>1, <2>2
  <1>4. InkTyped' /\ PhaseFollows' /\ LoopsCounted' /\ MarksKept' /\ StopsKept' /\ Owed'
    BY <1>1, <1>3, LoopMoves
  <1>5. LaneHeld'
    BY <1>3 DEF InkTyped, LaneHeld
  <1> QED
    BY <1>4, <1>5

LEMMA LoopJobSafe ==
  ASSUME InkInv, NEW n \in InkNotes, LoopJob(n)
  PROVE  InkInv'
  <1> USE DEF InkInv
  <1>1. loop[n] = "job" /\ lane' = Free /\ UNCHANGED <<writes, completion, runtime, cache>>
    BY DEF LoopJob
  <1>2. LaneHeld' /\ runtime.step # "done"
    BY <1>1 DEF LaneHeld, StopsKept
  <1>3. PhaseFollows' /\ StopsKept'
    BY <1>1, <1>2 DEF PhaseFollows, StopsKept
  <1>4. ASSUME NEW more \in BOOLEAN, LoopGoesOn(n, more)
        PROVE  /\ pending' \in [InkNotes -> [dirty : BOOLEAN, running : BOOLEAN]]
               /\ loop' \in [InkNotes -> {"off", "check", "wait", "lane", "job"}]
               /\ LoopsCounted'
    BY <1>4, LoopGoesOnSafe
  <1>5. ASSUME NEW row \in StoreRows, NEW mark \in [modified : BOOLEAN, editing : BOOLEAN],
               store' = [store EXCEPT ![n] = row], flags' = [flags EXCEPT ![n] = mark],
               row.alive = store[n].alive, row.unpublished => store[n].unpublished,
               row.unpublished => mark.modified,
               NEW more \in BOOLEAN, LoopGoesOn(n, more)
        PROVE  InkInv'
    <2>1. /\ store' \in [InkNotes -> StoreRows]
          /\ flags' \in [InkNotes -> [modified : BOOLEAN, editing : BOOLEAN]]
          /\ store'[n] = row /\ flags'[n] = mark
          /\ \A m \in InkNotes \ {n} : store'[m] = store[m] /\ flags'[m] = flags[m]
      BY <1>5 DEF InkTyped
    <2>2. InkTyped' /\ LoopsCounted'
      BY <1>1, <1>4, <1>5, <2>1 DEF InkTyped
    <2>3. MarksKept'
      BY <1>5, <2>1 DEF MarksKept
    <2>4. \A m \in InkNotes : Unsettled(m)' => Unsettled(m)
      BY <1>1, <1>5, <2>1 DEF Unsettled
    <2>5. Owed'
      BY <1>1, <2>4, OwedKept
    <2> QED
      BY <1>2, <1>3, <2>2, <2>3, <2>5
  <1>6. /\ store[n] \in StoreRows /\ store = [store EXCEPT ![n] = store[n]]
        /\ flags[n] \in [modified : BOOLEAN, editing : BOOLEAN]
        /\ flags = [flags EXCEPT ![n] = flags[n]]
        /\ store[n].unpublished => flags[n].modified
    BY DEF InkTyped, MarksKept
  <1>7. CASE /\ store' = [store EXCEPT ![n] = PublishedStore(store[n])]
             /\ flags' = [flags EXCEPT ![n] = [modified |-> FALSE, editing |-> FALSE]]
             /\ LoopGoesOn(n, FALSE)
    <2>1. [modified |-> FALSE, editing |-> FALSE] \in [modified : BOOLEAN, editing : BOOLEAN]
      OBVIOUS
    <2> QED
      BY <1>5, <1>6, <1>7, <2>1, PublishedRow
  <1>8. CASE /\ store' = [store EXCEPT ![n] = CompactOnce(store[n])] /\ UNCHANGED flags
             /\ LoopGoesOn(n, CompactOnce(store[n]).fresh > 0)
    <2>1. (CompactOnce(store[n]).fresh > 0) \in BOOLEAN
      OBVIOUS
    <2> QED
      BY <1>5, <1>6, <1>8, <2>1, CompactedRow
  <1>9. ASSUME UNCHANGED <<store, flags>>, NEW more \in BOOLEAN, LoopGoesOn(n, more)
        PROVE  InkInv'
    BY <1>5, <1>6, <1>9
  <1> QED
    BY <1>7, <1>8, <1>9 DEF LoopJob
-----------------------------------------------------------------------------
(* Shutdown. *)

(* What the stop makes of the runtime's record. *)
LEMMA StoppedRuntime ==
  ASSUME NEW r \in RuntimeStates, NEW t \in SUBSET InkNotes
  PROVE  /\ [r EXCEPT !.phase = "stopping", !.step = "drain", !.todo = t] \in RuntimeStates
         /\ [r EXCEPT !.phase = "stopping", !.step = "drain", !.todo = t].phase = "stopping"
         /\ [r EXCEPT !.phase = "stopping", !.step = "drain", !.todo = t].step = "drain"
         /\ [r EXCEPT !.phase = "stopping", !.step = "drain", !.todo = t].todo = t
         /\ [r EXCEPT !.phase = "stopping", !.step = "drain", !.todo = t].failed = r.failed
  BY DEF RuntimeStates

LEMMA StopRuntimeSafe ==
  ASSUME InkInv, StopRuntime
  PROVE  InkInv'
  <1> USE DEF InkInv
  <1>1. /\ runtime.step = "none"
        /\ runtime' = [runtime EXCEPT !.phase = "stopping", !.step = "drain", !.todo = cache]
        /\ UNCHANGED <<store, flags, pending, writes, completion, loop, lane, cache>>
    BY DEF StopRuntime
  <1>2. /\ runtime' \in RuntimeStates /\ runtime'.phase = "stopping" /\ runtime'.step = "drain"
        /\ runtime'.todo = cache /\ runtime'.failed = runtime.failed
    <2>1. runtime \in RuntimeStates /\ cache \in SUBSET InkNotes
      BY DEF InkTyped
    <2> QED
      BY <1>1, <2>1, StoppedRuntime
  <1>3. InkTyped'
    BY <1>1, <1>2 DEF InkTyped
  <1>4. PhaseFollows' /\ LaneHeld' /\ LoopsCounted' /\ MarksKept' /\ StopsKept'
    BY <1>1, <1>2, LaneKept DEF PhaseFollows, LoopsCounted, MarksKept, StopsKept
  <1>5. Owed'
    BY <1>1, <1>2 DEF Owed, Unsettled, Charged
  <1> QED
    BY <1>3, <1>4, <1>5

LEMMA FirstDrainSafe ==
  ASSUME InkInv, FirstDrain
  PROVE  InkInv'
  <1> USE DEF InkInv
  <1>1. /\ runtime.step = "drain" /\ Drained
        /\ runtime' = [runtime EXCEPT !.step = "finish"]
        /\ UNCHANGED <<store, flags, pending, writes, completion, loop, lane, cache>>
    BY DEF FirstDrain
  <1>2. /\ runtime' \in RuntimeStates /\ runtime'.phase = runtime.phase
        /\ runtime'.step = "finish"
        /\ runtime'.todo = runtime.todo /\ runtime'.failed = runtime.failed
    BY <1>1 DEF InkTyped, RuntimeStates
  <1>3. InkTyped'
    BY <1>1, <1>2 DEF InkTyped
  <1>4. PhaseFollows' /\ LaneHeld' /\ LoopsCounted' /\ MarksKept'
    BY <1>1, <1>2, LaneKept DEF PhaseFollows, LoopsCounted, MarksKept
  <1>5. StopsKept'
    BY <1>1, <1>2 DEF StopsKept, Drained
  <1>6. Owed'
    BY <1>1, <1>2 DEF Owed, Unsettled, Charged
  <1> QED
    BY <1>3, <1>4, <1>5, <1>6

LEMMA FinishNextSafe ==
  ASSUME InkInv, NEW n \in InkNotes, FinishNext(n)
  PROVE  InkInv'
  <1> USE DEF InkInv
  <1>1. /\ runtime.step = "finish" /\ completion[n] = "none"
        /\ UNCHANGED <<store, flags, pending, writes, loop, lane, cache>>
    BY DEF FinishNext
  <1>2. LoopsCounted' /\ MarksKept'
    BY <1>1 DEF LoopsCounted, MarksKept
  <1>3. CASE NeedsCompletion(n)
    <2>1. completion' = [completion EXCEPT ![n] = "last intent"] /\ UNCHANGED runtime
      BY <1>3 DEF FinishNext
    <2>2. InkTyped' /\ \A m \in InkNotes : completion[m] \in {"job", "last job"}
                                             => completion'[m] \in {"job", "last job"}
      BY <1>1, <2>1 DEF InkTyped, Final
    <2>3. PhaseFollows' /\ LaneHeld' /\ StopsKept'
      BY <1>1, <2>1, <2>2, LaneKept DEF PhaseFollows, StopsKept
    <2>4. Owed'
      BY <1>1, <2>1, OwedKept DEF Unsettled
    <2> QED
      BY <1>2, <2>2, <2>3, <2>4
  <1>4. CASE ~ NeedsCompletion(n)
    <2>1. runtime' = [runtime EXCEPT !.todo = runtime.todo \ {n}] /\ UNCHANGED completion
      BY <1>4 DEF FinishNext
    <2>2. /\ runtime' \in RuntimeStates /\ runtime'.phase = runtime.phase
          /\ runtime'.step = runtime.step
          /\ runtime'.todo = runtime.todo \ {n} /\ runtime'.failed = runtime.failed
      BY <2>1 DEF InkTyped, RuntimeStates
    <2>3. InkTyped'
      BY <1>1, <2>1, <2>2 DEF InkTyped
    <2>4. PhaseFollows' /\ LaneHeld' /\ StopsKept'
      BY <1>1, <2>1, <2>2, LaneKept DEF PhaseFollows, StopsKept
    <2>5. ~ Unsettled(n)
      BY <1>1, <1>4 DEF Unsettled, NeedsCompletion, MarksKept, StopsKept
    <2>6. Owed'
      BY <1>1, <2>1, <2>2, <2>5 DEF Owed, Unsettled, Charged
    <2> QED
      BY <1>2, <2>3, <2>4, <2>6
  <1> QED
    BY <1>3, <1>4

LEMMA CloseRuntimeSafe ==
  ASSUME InkInv, CloseRuntime
  PROVE  InkInv'
  <1> USE DEF InkInv
  <1>1. /\ runtime.step = "finish" /\ runtime.todo = {} /\ Drained
        /\ runtime' = [runtime EXCEPT !.phase = "closed", !.step = "done"]
        /\ cache' = {}
        /\ UNCHANGED <<store, flags, pending, writes, completion, loop, lane>>
    BY DEF CloseRuntime
  <1>2. /\ runtime' \in RuntimeStates /\ runtime'.phase = "closed" /\ runtime'.step = "done"
        /\ runtime'.failed = runtime.failed
    BY <1>1 DEF InkTyped, RuntimeStates
  <1>3. InkTyped'
    BY <1>1, <1>2 DEF InkTyped
  <1>4. PhaseFollows' /\ LaneHeld' /\ LoopsCounted' /\ MarksKept'
    BY <1>1, <1>2, LaneKept DEF PhaseFollows, LoopsCounted, MarksKept
  <1>5. StopsKept'
    BY <1>1, <1>2 DEF StopsKept, Drained, Final
  <1>6. Owed'
    BY <1>1, <1>2 DEF Owed, Unsettled, Charged
  <1> QED
    BY <1>3, <1>4, <1>5, <1>6

LEMMA InkStep == InkInv /\ [InkNext]_drainVars => InkInv'
  <1> SUFFICES ASSUME InkInv, [InkNext]_drainVars PROVE InkInv'
    OBVIOUS
  <1>1. ASSUME NEW n \in InkNotes, Progress(n) PROVE InkInv'
    BY <1>1, RunWriteSafe, WriteReturnsSafe, RecordIntentSafe, TakeLaneSafe, RunCompletionSafe,
       LoopRestsSafe, LoopLaneSafe, LoopJobSafe DEF Progress
  <1>2. ASSUME NEW n \in PennedNotes, Write(n) \/ DeleteInkNote(n) PROVE InkInv'
    BY <1>2, PennedAssumption, WriteSafe, DeleteInkNoteSafe
  <1>3. CASE UNCHANGED drainVars
    <2>1. UNCHANGED <<store, flags, pending, writes, completion, loop, lane, runtime, cache>>
      BY <1>3 DEF drainVars
    <2>2. InkTyped' /\ PhaseFollows' /\ LoopsCounted' /\ MarksKept' /\ StopsKept'
      BY <2>1 DEF InkInv, InkTyped, PhaseFollows, LoopsCounted, MarksKept, StopsKept
    <2>3. LaneHeld' /\ Owed'
      BY <2>1, LaneKept, OwedKept DEF InkInv, Unsettled
    <2> QED
      BY <2>2, <2>3 DEF InkInv
  <1> QED
    BY <1>1, <1>2, <1>3, OpenSafe, StartCompletionSafe, StopRuntimeSafe, FirstDrainSafe,
       FinishNextSafe, CloseRuntimeSafe DEF InkNext
-----------------------------------------------------------------------------
(* What a shutdown reports is true, however writes, background publications,
   failures, deletions and the stop interleave: once the runtime is closed no job,
   task or lane holder is left, and behind a success every stroke of every note
   that still exists is published (lifecycle.rs drain, maintenance.rs shutdown). *)
THEOREM ShutdownTruthfulTheorem == InkSpec => []ShutdownTruthful
  <1>1. InkInv => ShutdownTruthful
    <2> SUFFICES ASSUME InkInv, runtime.phase = "closed" PROVE ShutdownTruthful
      BY DEF ShutdownTruthful, ClosedQuiet, ShutdownPublishes
    <2>1. runtime.step = "done"
      BY DEF InkInv, PhaseFollows
    <2>2. \A n \in InkNotes : writes[n] # "job" /\ loop[n] = "off" /\ completion[n] = "none"
      BY <2>1 DEF InkInv, StopsKept
    <2>3. lane = Free
      BY <2>2 DEF InkInv, LaneHeld
    <2>4. ~ runtime.failed => \A n \in InkNotes : ~ store[n].unpublished
      BY <2>1 DEF InkInv, Owed, Unsettled, Charged
    <2> QED
      BY <2>2, <2>3, <2>4 DEF ShutdownTruthful, ClosedQuiet, ShutdownPublishes
  <1> QED
    BY InkInitially, InkStep, <1>1, PTL DEF InkSpec
-----------------------------------------------------------------------------
(***************************************************************************)
(* Proof that no stroke is lost and that heads are adopted exactly when    *)
(* nobody is at work (ink/storage/history.rs, ink/versions.rs), for any    *)
(* number of devices, strokes, publications, deletions and crashes.        *)
(*                                                                         *)
(* What the collector spares is what rows pin, so the invariant follows    *)
(* the rows: the draft is the undo state at the cursor, a version's row is *)
(* an operation somebody made, and no two operations share a number.  What *)
(* a draft may not lose is what its base shows: the base's strokes are in  *)
(* the draft or were wiped by the user, and a clean draft is its base.     *)
(***************************************************************************)
InkRoot == {r \in [ink : SUBSET Marks, chunks : SUBSET SUBSET Marks] : {} \notin r.chunks}
RootOrNone == InkRoot \cup {NoRoot}
PenStates == UNION {[S -> InkRoot] : S \in SUBSET Nat}

VersionRow == [id : Nat, root : InkRoot, parents : SUBSET Nat, have : BOOLEAN,
               by : InkDevices, draft : BOOLEAN]
PublishOp == [kind : {"publish"}, id : Nat, root : InkRoot, parents : SUBSET Nat,
              by : InkDevices, draft : BOOLEAN]
InkOp == PublishOp \cup [kind : {"delete"}, id : Nat, by : InkDevices]
           \cup [kind : {"create"}, id : Nat, by : InkDevices, behind : BOOLEAN]

DraftRow == [root : RootOrNone, seen : BOOLEAN, cursor : Nat, dirty : BOOLEAN,
             editing : BOOLEAN, requested : BOOLEAN, base : Nat]
PinRow == [kept : BOOLEAN, root : RootOrNone, cursor : Nat, hist : PenStates,
           heads : SUBSET Nat, variants : Seq(InkRoot)]
PageRow == [alive : BOOLEAN, doc : DraftRow, hist : PenStates, versions : SUBSET VersionRow,
            staged : SUBSET InkRoot, sealed : SUBSET SUBSET Marks, pins : PinRow]
Geometry == [roots : SUBSET InkRoot, chunks : SUBSET SUBSET Marks]
PenState == [open : BOOLEAN, view : SUBSET Marks, plan : SUBSET SUBSET Marks,
             finish : {"no", "wanted", "published"}]

(* Every operation made so far, and the publication a version stands for. *)
AllInkOps == Range(serverOps) \cup UNION {Range(unsent[d]) : d \in InkDevices}
OpOf(v) == Publication(v.by, v.root, v.parents, v.id, v.draft)
(* The row that versions::apply adds. *)
NewVersion(n, op) ==
    [id |-> op.id, root |-> op.root, parents |-> op.parents,
     have |-> op.root \in n.staged \/ \E v \in n.versions : v.root = op.root /\ v.have,
     by |-> op.by, draft |-> op.draft]
LinkedRow(v) == [v EXCEPT !.have = TRUE]

(* The publications whose strokes device d's drafts account for. *)
Bases(d) == {x \in AllInkOps : x.kind = "publish" /\ ~Behind(d, x)}

DrawingTyped ==
    /\ inkPages \in [InkDevices -> PageRow] /\ sheet \in [InkDevices -> Geometry]
    /\ pen \in [InkDevices -> PenState] /\ unsent \in [InkDevices -> Seq(InkOp)]
    /\ serverOps \in Seq(InkOp) /\ pulled \in [InkDevices -> Nat]
    /\ wiped \in [InkDevices -> SUBSET Marks] /\ inkOps \in Nat /\ scope \in InkScopes

(* No two operations share a number, and parents are older. *)
Ledger(ops, last) ==
    /\ ops \subseteq InkOp
    /\ \A x \in ops : x.id \in 1 .. last
    /\ \A x \in ops : x.kind = "publish" => x.parents \subseteq 0 .. last
    /\ \A x \in ops : \A y \in ops : x.id = y.id => x = y

(* NoSilentDrop of the operations, wherever their versions are. *)
NoOpDrops ==
    \A v \in AllInkOps : \A w \in AllInkOps :
      (v.kind = "publish" /\ w.kind = "publish" /\ v.draft /\ w.id \in v.parents /\ ~Behind(v.by, w))
        => w.root.ink \ v.root.ink \subseteq wiped[v.by]

(* The rows of a note fit one another. *)
RowsFit(n) ==
    /\ n.doc.root # NoRoot => n.doc.cursor \in DOMAIN n.hist /\ n.hist[n.doc.cursor] = n.doc.root
    /\ n.doc.dirty => n.doc.root # NoRoot
    /\ IsFiniteSet(n.versions)
    /\ ~n.pins.kept => n.pins = NoPins
    /\ n.pins.root # NoRoot =>
         n.pins.cursor \in DOMAIN n.pins.hist /\ n.pins.hist[n.pins.cursor] = n.pins.root

NeededBy(n, queue) ==
    ({n.doc.root} \ {NoRoot}) \cup Range(n.hist) \cup n.staged
      \cup {v.root : v \in {w \in n.versions : w.have}}
      \cup InkPublications(queue)
      \cup Range(n.pins.hist) \cup Range(n.pins.variants)
IntactIn(s, roots) == \A r \in roots : r \in s.roots /\ r.chunks \subseteq s.chunks

(* Rows come from operations, and name no number that was not given yet. *)
RowsPosted(n, ops) == \A v \in n.versions : OpOf(v) \in ops
RowsNumbered(n, last) == n.doc.base \in 0 .. last /\ n.pins.heads \subseteq 0 .. last

(* An editor that is up to date shows the draft. *)
ViewTrue(n, p) == p.open /\ n.doc.seen => p.view = Ink(n)

(* A draft accounts for its base; a clean one is its base. *)
BaseShown(n, gone, xs) ==
    \A x \in xs : x.id = n.doc.base =>
      /\ x.root.ink \ Ink(n) \subseteq gone
      /\ ~n.doc.dirty => x.root.ink = Ink(n)

HeadShown(n, xs) ==
    \A v \in Heads(n) : (Heads(n) = {v} /\ v.have /\ OpOf(v) \in xs) => Ink(n) = v.root.ink

(* A note that is deleted here is at rest. *)
DeadAtRest(n, xs) == ~n.alive => ~n.doc.dirty /\ ~n.doc.editing /\ HeadShown(n, xs)

NoteFits(n, ops, last, gone, xs) ==
    RowsFit(n) /\ RowsPosted(n, ops) /\ RowsNumbered(n, last) /\ BaseShown(n, gone, xs)

PageInv(d) ==
    /\ NoteFits(inkPages[d], AllInkOps, inkOps, wiped[d], Bases(d))
    /\ IntactIn(sheet[d], NeededBy(inkPages[d], unsent[d]))
    /\ ViewTrue(inkPages[d], pen[d])
    /\ DeadAtRest(inkPages[d], Bases(d))

DrawingInv ==
    DrawingTyped /\ Ledger(AllInkOps, inkOps) /\ NoOpDrops /\ \A d \in InkDevices : PageInv(d)

----------------------------------------------------------------------------
(* Queues and partial functions. *)
LEMMA QueueAppend ==
  ASSUME NEW S, NEW s \in Seq(S), NEW x \in S
  PROVE  Append(s, x) \in Seq(S) /\ Range(Append(s, x)) = Range(s) \cup {x}
<1>1. /\ Append(s, x) \in Seq(S) /\ Len(Append(s, x)) = Len(s) + 1
      /\ Append(s, x)[Len(s) + 1] = x /\ \A i \in 1 .. Len(s) : Append(s, x)[i] = s[i]
      /\ DOMAIN s = 1 .. Len(s) /\ DOMAIN Append(s, x) = 1 .. Len(s) + 1 /\ Len(s) \in Nat
  OBVIOUS
<1>2. \A i \in 1 .. Len(s) + 1 : i \in 1 .. Len(s) \/ i = Len(s) + 1
  BY <1>1
<1> QED BY <1>1, <1>2 DEF Range

LEMMA QueueTail ==
  ASSUME NEW S, NEW s \in Seq(S), s # <<>>
  PROVE  Head(s) \in S /\ Tail(s) \in Seq(S) /\ Range(s) = {Head(s)} \cup Range(Tail(s))
<1>1. /\ Len(s) \in Nat /\ Len(s) > 0 /\ Head(s) = s[1] /\ Tail(s) \in Seq(S) /\ Head(s) \in S
      /\ Len(Tail(s)) = Len(s) - 1 /\ \A i \in 1 .. Len(s) - 1 : Tail(s)[i] = s[i + 1]
      /\ DOMAIN s = 1 .. Len(s) /\ DOMAIN Tail(s) = 1 .. Len(s) - 1
  OBVIOUS
<1>2. ASSUME NEW x \in Range(s) PROVE x \in {Head(s)} \cup Range(Tail(s))
  <2>1. PICK i \in 1 .. Len(s) : x = s[i]
    BY <1>1 DEF Range
  <2>2. CASE i = 1
    BY <1>1, <2>1, <2>2
  <2>3. CASE i # 1
    <3>1. i - 1 \in 1 .. Len(s) - 1 /\ (i - 1) + 1 = i
      BY <1>1, <2>1, <2>3
    <3> QED BY <1>1, <2>1, <3>1 DEF Range
  <2> QED BY <2>2, <2>3
<1>3. ASSUME NEW x \in Range(Tail(s)) PROVE x \in Range(s)
  <2>1. PICK i \in 1 .. Len(s) - 1 : x = s[i + 1]
    BY <1>1 DEF Range
  <2>2. i + 1 \in 1 .. Len(s)
    BY <1>1, <2>1
  <2> QED BY <1>1, <2>1, <2>2 DEF Range
<1>4. Head(s) \in Range(s)
  BY <1>1 DEF Range
<1> QED BY <1>1, <1>2, <1>3, <1>4

LEMMA QueueConcat ==
  ASSUME NEW S, NEW s \in Seq(S), NEW t \in Seq(S)
  PROVE  s \o t \in Seq(S) /\ Range(s \o t) = Range(s) \cup Range(t)
<1>1. /\ s \o t \in Seq(S) /\ Len(s) \in Nat /\ Len(t) \in Nat /\ Len(s \o t) = Len(s) + Len(t)
      /\ DOMAIN s = 1 .. Len(s) /\ DOMAIN t = 1 .. Len(t) /\ DOMAIN (s \o t) = 1 .. Len(s) + Len(t)
      /\ \A i \in 1 .. Len(s) + Len(t) : (s \o t)[i] = IF i <= Len(s) THEN s[i] ELSE t[i - Len(s)]
  OBVIOUS
<1>2. ASSUME NEW x \in Range(s \o t) PROVE x \in Range(s) \cup Range(t)
  <2>1. PICK i \in 1 .. Len(s) + Len(t) : x = (s \o t)[i]
    BY <1>1 DEF Range
  <2>2. CASE i <= Len(s)
    BY <1>1, <2>1, <2>2 DEF Range
  <2>3. CASE i > Len(s)
    <3>1. i - Len(s) \in 1 .. Len(t) /\ x = t[i - Len(s)]
      BY <1>1, <2>1, <2>3
    <3> QED BY <1>1, <3>1 DEF Range
  <2> QED BY <1>1, <2>1, <2>2, <2>3
<1>3. ASSUME NEW x \in Range(s) PROVE x \in Range(s \o t)
  BY <1>1 DEF Range
<1>4. ASSUME NEW x \in Range(t) PROVE x \in Range(s \o t)
  <2>1. PICK i \in 1 .. Len(t) : x = t[i]
    BY <1>1 DEF Range
  <2>2. Len(s) + i \in 1 .. Len(s) + Len(t) /\ (s \o t)[Len(s) + i] = t[i]
    BY <1>1, <2>1
  <2> QED BY <1>1, <2>1, <2>2 DEF Range
<1> QED BY <1>1, <1>2, <1>3, <1>4

LEMMA QueueRange ==
  ASSUME NEW S, NEW s \in Seq(S)
  PROVE  Range(s) \subseteq S /\ \A i \in 1 .. Len(s) : s[i] \in Range(s)
BY DEF Range

LEMMA PenStatesAre ==
  ASSUME NEW h
  PROVE  h \in PenStates <=> (DOMAIN h \in SUBSET Nat /\ h \in [DOMAIN h -> InkRoot])
BY DEF PenStates

LEMMA PenStateRange ==
  ASSUME NEW h \in PenStates
  PROVE  Range(h) \subseteq InkRoot /\ \A i \in DOMAIN h : i \in Nat /\ h[i] \in InkRoot
BY PenStatesAre DEF Range

----------------------------------------------------------------------------
(* Drawings. *)
LEMMA Drawings ==
  /\ Blank \in InkRoot /\ NoRoot \notin InkRoot /\ NoRoot \in RootOrNone
  /\ InkRoot \subseteq RootOrNone
  /\ \A r \in InkRoot : r.ink \subseteq Marks /\ r.chunks \subseteq SUBSET Marks
<1>1. Blank \in InkRoot
  BY DEF Blank, InkRoot
<1>2. NoRoot \notin InkRoot
  BY DEF NoRoot, InkRoot
<1> QED BY <1>1, <1>2 DEF InkRoot, RootOrNone

LEMMA BuildDrawing ==
  ASSUME NEW r \in InkRoot, NEW ink \in SUBSET Marks
  PROVE  Build(r, ink) \in InkRoot /\ Build(r, ink).ink = ink
<1> DEFINE kept == {c \in r.chunks : c \cap ink # {}}
           fresh == {{m} : m \in ink \ r.ink}
<1>1. kept \subseteq SUBSET Marks /\ {} \notin kept
  BY DEF InkRoot
<1>2. fresh \subseteq SUBSET Marks /\ {} \notin fresh
  OBVIOUS
<1>3. Build(r, ink) = [ink |-> ink, chunks |-> kept \cup fresh]
  BY DEF Build
<1> HIDE DEF kept, fresh
<1> QED BY <1>1, <1>2, <1>3 DEF InkRoot

LEMMA InkIs ==
  ASSUME NEW n \in PageRow
  PROVE  /\ Ink(n) \subseteq Marks
         /\ n.doc.root # NoRoot => n.doc.root \in InkRoot /\ Ink(n) = n.doc.root.ink
BY Drawings DEF Ink, PageRow, DraftRow, RootOrNone

(* NoPins is a row of its own kind, with empty sequences. *)
LEMMA NoPinsRow == NoPins \in PinRow /\ Range(NoPins.hist) = {} /\ Range(NoPins.variants) = {}
<1>1. <<>> \in Seq(InkRoot) /\ DOMAIN <<>> = {}
  OBVIOUS
<1>2. <<>> \in [DOMAIN <<>> -> InkRoot]
  BY <1>1
<1>3. <<>> \in PenStates
  BY <1>1, <1>2, PenStatesAre
<1>4. Range(<<>>) = {}
  BY <1>1 DEF Range
<1> QED BY <1>1, <1>3, <1>4, Drawings DEF NoPins, PinRow

LEMMA EmptyDocRow ==
  /\ EmptyDoc \in DraftRow /\ EmptyDoc.root = NoRoot /\ EmptyDoc.base = 0
  /\ ~EmptyDoc.dirty /\ ~EmptyDoc.editing /\ ~EmptyDoc.seen
BY Drawings DEF EmptyDoc, DraftRow

LEMMA OneState ==
  ASSUME NEW r \in InkRoot
  PROVE  LET h == [i \in {0} |-> r]
         IN h \in PenStates /\ 0 \in DOMAIN h /\ h[0] = r /\ Range(h) = {r}
<1> DEFINE h == [i \in {0} |-> r]
<1>1. DOMAIN h = {0} /\ h \in [{0} -> InkRoot] /\ h[0] = r /\ {0} \in SUBSET Nat
  OBVIOUS
<1>2. h \in PenStates
  BY <1>1, PenStatesAre
<1>3. Range(h) = {r}
  BY <1>1 DEF Range
<1> QED BY <1>1, <1>2, <1>3

(* adopt_single_head, field by field. *)
LEMMA AdoptedIs ==
  ASSUME NEW n \in PageRow
  PROVE  LET m == Adopted(n) IN
         /\ m \in PageRow
         /\ m.alive = n.alive /\ m.versions = n.versions /\ m.staged = n.staged /\ m.pins = n.pins
         /\ m.doc.dirty = n.doc.dirty /\ m.doc.editing = n.doc.editing
         /\ \/ /\ m = n
               /\ \A v \in Heads(n) : Heads(n) = {v} => ~MayAdopt(n.doc, v)
            \/ \E h \in n.versions :
                 /\ Heads(n) = {h} /\ ~n.doc.dirty /\ ~n.doc.editing /\ h.have
                 /\ m.doc.root = h.root /\ ~m.doc.seen /\ m.doc.cursor = 0 /\ m.doc.base = h.id
                 /\ m.hist = [i \in {0} |-> h.root]
<1>1. CASE ~\E v \in Heads(n) : Heads(n) = {v} /\ MayAdopt(n.doc, v)
  BY <1>1 DEF Adopted
<1>2. CASE \E v \in Heads(n) : Heads(n) = {v} /\ MayAdopt(n.doc, v)
  <2>1. PICK h \in Heads(n) : Heads(n) = {h} /\ MayAdopt(n.doc, h)
    BY <1>2
  <2>2. (CHOOSE v \in Heads(n) : TRUE) = h
    BY <2>1
  <2>3. h \in n.versions /\ h \in VersionRow
    BY <2>1 DEF Heads, PageRow
  <2> DEFINE doc == [n.doc EXCEPT !.root = h.root, !.seen = FALSE, !.cursor = 0, !.base = h.id]
             hist == [i \in {0} |-> h.root]
  <2>4. Adopted(n) = [n EXCEPT !.hist = hist, !.doc = doc]
    BY <1>2, <2>2 DEF Adopted
  <2>5. /\ doc \in DraftRow /\ doc.root = h.root /\ ~doc.seen /\ doc.cursor = 0 /\ doc.base = h.id
        /\ doc.dirty = n.doc.dirty /\ doc.editing = n.doc.editing
    BY <2>3, Drawings DEF PageRow, DraftRow, VersionRow
  <2>6. hist \in PenStates
    BY <2>3, OneState DEF VersionRow
  <2>7. hist = [i \in {0} |-> h.root]
    OBVIOUS
  <2> HIDE DEF doc, hist
  <2>8. /\ Adopted(n) \in PageRow /\ Adopted(n).hist = hist /\ Adopted(n).doc = doc
        /\ Adopted(n).alive = n.alive /\ Adopted(n).versions = n.versions
        /\ Adopted(n).staged = n.staged /\ Adopted(n).pins = n.pins
    BY <2>4, <2>5, <2>6 DEF PageRow
  <2> QED BY <2>1, <2>3, <2>5, <2>7, <2>8 DEF MayAdopt
<1> QED BY <1>1, <1>2

LEMMA OpOfIs ==
  ASSUME NEW v \in VersionRow
  PROVE  /\ OpOf(v).kind = "publish" /\ OpOf(v).id = v.id /\ OpOf(v).root = v.root
         /\ OpOf(v).parents = v.parents /\ OpOf(v).by = v.by /\ OpOf(v).draft = v.draft
BY DEF OpOf, Publication

(* After adopt_single_head the note fits, and shows its single head when nobody works on it. *)
LEMMA AdoptKeeps ==
  ASSUME NEW n \in PageRow, NEW ops, NEW last \in Nat, NEW gone, NEW xs, NEW q,
         Ledger(ops, last), xs \subseteq ops, NoteFits(n, ops, last, gone, xs)
  PROVE  LET m == Adopted(n) IN
         /\ NoteFits(m, ops, last, gone, xs)
         /\ NeededBy(m, q) \subseteq NeededBy(n, q)
         /\ ~n.doc.dirty /\ ~n.doc.editing => HeadShown(m, xs)
<1> DEFINE m == Adopted(n)
<1>1. n.versions \subseteq VersionRow
  BY DEF PageRow
<1>2. CASE m = n /\ \A v \in Heads(n) : Heads(n) = {v} => ~MayAdopt(n.doc, v)
  <2>1. ASSUME ~n.doc.dirty, ~n.doc.editing, NEW v \in Heads(n),
               Heads(n) = {v}, v.have, OpOf(v) \in xs
        PROVE  Ink(n) = v.root.ink
    <3>1. v \in VersionRow
      BY <1>1 DEF Heads
    <3>2. n.doc.base = v.id
      BY <1>2, <2>1 DEF MayAdopt
    <3> QED BY <2>1, <3>1, <3>2, OpOfIs DEF NoteFits, BaseShown
  <2> QED BY <1>2, <2>1 DEF HeadShown
<1>3. ASSUME NEW h \in n.versions,
             Heads(n) = {h}, ~n.doc.dirty, ~n.doc.editing, h.have,
             m.doc.root = h.root, ~m.doc.seen, m.doc.cursor = 0, m.doc.base = h.id,
             m.hist = [i \in {0} |-> h.root]
      PROVE  /\ NoteFits(m, ops, last, gone, xs)
             /\ NeededBy(m, q) \subseteq NeededBy(n, q)
             /\ HeadShown(m, xs)
  <2> HIDE DEF m
  <2>0. /\ m \in PageRow /\ m.versions = n.versions /\ m.pins = n.pins /\ m.staged = n.staged
        /\ m.doc.dirty = n.doc.dirty /\ h \in VersionRow /\ h.root \in InkRoot /\ h.id \in Nat
    BY <1>1, AdoptedIs DEF m, VersionRow
  <2>1. OpOf(h) \in ops /\ OpOf(h).id = h.id /\ OpOf(h).root = h.root
    BY <2>0, OpOfIs DEF NoteFits, RowsPosted
  <2>2. 0 \in DOMAIN m.hist /\ m.hist[0] = h.root /\ Range(m.hist) = {h.root}
    BY <1>3, <2>0, OneState
  <2>3. Ink(m) = h.root.ink
    BY <1>3, <2>0, InkIs, Drawings
  <2>4. RowsFit(m)
    BY <1>3, <2>0, <2>2 DEF RowsFit, NoteFits
  <2>5. RowsPosted(m, ops) /\ RowsNumbered(m, last)
    BY <1>3, <2>0, <2>1 DEF NoteFits, RowsPosted, RowsNumbered, Ledger
  <2>6. BaseShown(m, gone, xs)
    <3> SUFFICES ASSUME NEW x \in xs, x.id = m.doc.base
                 PROVE  x.root.ink = Ink(m)
      BY DEF BaseShown
    <3>1. x = OpOf(h)
      BY <1>3, <2>1 DEF Ledger
    <3> QED BY <2>1, <2>3, <3>1
  <2>7. HeadShown(m, xs)
    BY <1>3, <2>0, <2>3 DEF HeadShown, Heads
  <2>8. h.root \in {v.root : v \in {w \in n.versions : w.have}}
    BY <1>3
  <2>9. NeededBy(m, q) \subseteq NeededBy(n, q)
    BY <1>3, <2>0, <2>2, <2>8 DEF NeededBy
  <2> QED BY <2>4, <2>5, <2>6, <2>7, <2>9 DEF NoteFits
<1> QED BY <1>2, <1>3, AdoptedIs

LEMMA NewVersionIs ==
  ASSUME NEW n, NEW op \in PublishOp
  PROVE  /\ NewVersion(n, op) \in VersionRow /\ OpOf(NewVersion(n, op)) = op
         /\ NewVersion(n, op).id = op.id /\ NewVersion(n, op).root = op.root
         /\ NewVersion(n, op).have =>
              op.root \in n.staged \/ \E v \in n.versions : v.root = op.root /\ v.have
BY DEF NewVersion, VersionRow, PublishOp, OpOf, Publication

LEMMA LinkedRowIs ==
  ASSUME NEW v \in VersionRow
  PROVE  /\ LinkedRow(v) \in VersionRow /\ OpOf(LinkedRow(v)) = OpOf(v)
         /\ LinkedRow(v).id = v.id /\ LinkedRow(v).root = v.root /\ LinkedRow(v).have
BY DEF LinkedRow, VersionRow, OpOf

(* versions::apply: nothing, or the new row and then adopt_single_head. *)
LEMMA WithVersionIs ==
  ASSUME NEW n \in PageRow, NEW op \in PublishOp
  PROVE  LET m == WithVersion(n, op)
             new == [n EXCEPT !.versions = n.versions \cup {NewVersion(n, op)},
                              !.staged = n.staged \ {op.root}]
         IN
         /\ m \in PageRow /\ m.alive = n.alive /\ m.pins = n.pins
         /\ m.doc.dirty = n.doc.dirty /\ m.doc.editing = n.doc.editing
         /\ m.doc = n.doc \/ ~m.doc.seen
         /\ n.doc.dirty \/ n.doc.editing => m.doc = n.doc /\ m.hist = n.hist
         /\ \/ m = n /\ \E v \in n.versions : v.id = op.id
            \/ /\ \A v \in n.versions : v.id # op.id
               /\ m = Adopted(new) /\ m.versions = n.versions \cup {NewVersion(n, op)}
<1> DEFINE m == WithVersion(n, op)
           row == NewVersion(n, op)
           versions == n.versions \cup {row}
           staged == n.staged \ {op.root}
           new == [n EXCEPT !.versions = versions, !.staged = staged]
<1>1. CASE \E v \in n.versions : v.id = op.id
  BY <1>1 DEF WithVersion
<1>2. CASE ~\E v \in n.versions : v.id = op.id
  <2>1. m = Adopted(new)
    BY <1>2 DEF WithVersion, NewVersion
  <2>2. row \in VersionRow
    BY NewVersionIs
  <2> HIDE DEF row
  <2>3. /\ new \in PageRow /\ new.alive = n.alive /\ new.doc = n.doc /\ new.hist = n.hist
        /\ new.pins = n.pins /\ new.versions = versions
    BY <2>2 DEF PageRow
  <2> HIDE DEF new, m
  <2>4. /\ m \in PageRow /\ m.alive = n.alive /\ m.versions = versions /\ m.pins = n.pins
        /\ m.doc.dirty = n.doc.dirty /\ m.doc.editing = n.doc.editing
        /\ m = new \/ (~m.doc.seen /\ ~n.doc.dirty /\ ~n.doc.editing)
    BY <2>1, <2>3, AdoptedIs
  <2>5. m.doc = n.doc \/ ~m.doc.seen
    BY <2>3, <2>4
  <2>6. n.doc.dirty \/ n.doc.editing => m.doc = n.doc /\ m.hist = n.hist
    BY <2>3, <2>4
  <2>7. \A v \in n.versions : v.id # op.id
    BY <1>2
  <2> QED BY <2>1, <2>4, <2>5, <2>6, <2>7 DEF m, new, row
<1> QED BY <1>1, <1>2

LEMMA VersionAdded ==
  ASSUME NEW n \in PageRow, NEW op \in PublishOp
  PROVE  \E v \in WithVersion(n, op).versions : v.id = op.id
<1> DEFINE m == WithVersion(n, op)
           new == [n EXCEPT !.versions = n.versions \cup {NewVersion(n, op)},
                            !.staged = n.staged \ {op.root}]
<1>1. \/ m = n /\ \E v \in n.versions : v.id = op.id
      \/ m = Adopted(new) /\ m.versions = n.versions \cup {NewVersion(n, op)}
  BY WithVersionIs, ZenonT(60)
<1> HIDE DEF m
<1>2. NewVersion(n, op).id = op.id
  BY NewVersionIs
<1> QED BY <1>1, <1>2 DEF m

LEMMA WithVersionKeeps ==
  ASSUME NEW n \in PageRow, NEW ops, NEW last \in Nat, NEW gone, NEW xs, NEW q, NEW op \in PublishOp,
         Ledger(ops, last), xs \subseteq ops, op \in ops, NoteFits(n, ops, last, gone, xs)
  PROVE  LET m == WithVersion(n, op) IN
         /\ NoteFits(m, ops, last, gone, xs)
         /\ NeededBy(m, q) \subseteq NeededBy(n, q)
         /\ m = n \/ (~n.doc.dirty /\ ~n.doc.editing => HeadShown(m, xs))
<1> DEFINE m == WithVersion(n, op)
           row == NewVersion(n, op)
           versions == n.versions \cup {row}
           staged == n.staged \ {op.root}
           new == [n EXCEPT !.versions = versions, !.staged = staged]
<1>1. CASE \E v \in n.versions : v.id = op.id
  BY <1>1 DEF WithVersion
<1>2. CASE ~\E v \in n.versions : v.id = op.id
  <2>1. m = Adopted(new)
    BY <1>2, WithVersionIs, ZenonT(60)
  <2>2. row \in VersionRow /\ OpOf(row) = op
    BY NewVersionIs
  <2>3. row.have => \/ row.root \in n.staged
                    \/ \E v \in n.versions : v.root = row.root /\ v.have
    BY NewVersionIs
  <2> HIDE DEF row
  <2>4. /\ new \in PageRow /\ new.alive = n.alive /\ new.doc = n.doc /\ new.hist = n.hist
        /\ new.pins = n.pins /\ new.versions = versions /\ new.staged = staged
    BY <2>2 DEF PageRow
  <2> HIDE DEF new
  <2>5. Ink(new) = Ink(n)
    BY <2>4 DEF Ink
  <2>6. NoteFits(new, ops, last, gone, xs)
    <3>1. IsFiniteSet(n.versions) => IsFiniteSet(versions)
      BY FS_AddElement
    <3> QED BY <2>2, <2>4, <2>5, <3>1 DEF NoteFits, RowsFit, RowsPosted, RowsNumbered, BaseShown
  <2>7. NeededBy(new, q) \subseteq NeededBy(n, q)
    <3>1. {v.root : v \in {w \in versions : w.have}} \subseteq
             {v.root : v \in {w \in n.versions : w.have}} \cup n.staged
      BY <2>3
    <3>2. staged \subseteq n.staged
      OBVIOUS
    <3> HIDE DEF versions, staged
    <3> QED BY <2>4, <3>1, <3>2 DEF NeededBy
  <2> HIDE DEF m
  <2>8. /\ NoteFits(m, ops, last, gone, xs) /\ NeededBy(m, q) \subseteq NeededBy(new, q)
        /\ ~n.doc.dirty /\ ~n.doc.editing => HeadShown(m, xs)
    BY <2>1, <2>4, <2>6, AdoptKeeps
  <2> QED BY <2>7, <2>8 DEF m
<1> QED BY <1>1, <1>2

----------------------------------------------------------------------------
(* What the collector spares. *)
LEMMA NeededPinned ==
  ASSUME NEW n \in PageRow, RowsFit(n), NEW q
  PROVE  NeededBy(n, q) \subseteq Pinned(n, q)
<1>1. CASE n.pins.kept
  BY <1>1 DEF NeededBy, Pinned
<1>2. CASE ~n.pins.kept
  <2>1. Range(n.pins.hist) = {} /\ Range(n.pins.variants) = {}
    BY <1>2, NoPinsRow DEF RowsFit
  <2> QED BY <2>1 DEF NeededBy, Pinned
<1> QED BY <1>1, <1>2

LEMMA CollectedIs ==
  ASSUME NEW s \in Geometry, NEW new \in SUBSET InkRoot, NEW n \in PageRow, NEW q, RowsFit(n),
         IntactIn(s, NeededBy(n, q) \ new)
  PROVE  Collected(s, new, n, q) \in Geometry /\ IntactIn(Collected(s, new, n, q), NeededBy(n, q))
<1> DEFINE roots == (s.roots \cup new) \cap Pinned(n, q)
           all == s.chunks \cup UNION {r.chunks : r \in new}
           chunks == all \cap UNION {r.chunks : r \in roots}
<1>1. Collected(s, new, n, q) = [roots |-> roots, chunks |-> chunks]
  BY DEF Collected
<1>2. s.roots \subseteq InkRoot /\ s.chunks \subseteq SUBSET Marks
  BY DEF Geometry
<1>3. \A r \in InkRoot : r.chunks \subseteq SUBSET Marks
  BY Drawings
<1>4. roots \subseteq InkRoot /\ chunks \subseteq SUBSET Marks
  BY <1>2, <1>3
<1>5. NeededBy(n, q) \subseteq Pinned(n, q)
  BY NeededPinned
<1>6. ASSUME NEW r \in NeededBy(n, q)
      PROVE  r \in roots /\ r.chunks \subseteq chunks
  <2>1. r \in new \/ (r \in s.roots /\ r.chunks \subseteq s.chunks)
    BY <1>6 DEF IntactIn
  <2>2. r \in roots
    BY <1>5, <1>6, <2>1
  <2>3. r.chunks \subseteq all
    BY <2>1
  <2> QED BY <2>2, <2>3
<1> HIDE DEF roots, chunks
<1>7. [roots |-> roots, chunks |-> chunks].roots = roots
      /\ [roots |-> roots, chunks |-> chunks].chunks = chunks
  OBVIOUS
<1> QED BY <1>1, <1>4, <1>6, <1>7 DEF Geometry, IntactIn

LEMMA PersistedIs ==
  ASSUME NEW s \in Geometry, NEW r \in InkRoot
  PROVE  /\ Persisted(s, {r}) \in Geometry
         /\ \A roots : IntactIn(s, roots) => IntactIn(Persisted(s, {r}), roots \cup {r})
<1> DEFINE more == s.roots \cup {r}
           chunks == s.chunks \cup UNION {x.chunks : x \in {r}}
<1>1. Persisted(s, {r}) = [roots |-> more, chunks |-> chunks]
  BY DEF Persisted
<1>2. more \subseteq InkRoot /\ chunks \subseteq SUBSET Marks
  BY Drawings DEF Geometry
<1>3. r \in more /\ r.chunks \subseteq chunks /\ s.roots \subseteq more /\ s.chunks \subseteq chunks
  OBVIOUS
<1> HIDE DEF more, chunks
<1>4. [roots |-> more, chunks |-> chunks].roots = more /\ [roots |-> more, chunks |-> chunks].chunks = chunks
  OBVIOUS
<1> QED BY <1>1, <1>2, <1>3, <1>4 DEF Geometry, IntactIn

LEMMA IntactLess ==
  ASSUME NEW s, NEW roots, NEW fewer \in SUBSET roots, IntactIn(s, roots)
  PROVE  IntactIn(s, fewer)
BY DEF IntactIn

----------------------------------------------------------------------------
(* Operations made elsewhere leave a note as it was. *)
LEMMA NoteStays ==
  ASSUME NEW n \in PageRow, NEW ops, NEW last \in Nat, NEW gone, NEW xs,
         NEW ops2, NEW last2 \in Nat, NEW gone2, NEW xs2,
         Ledger(ops, last), NoteFits(n, ops, last, gone, xs),
         ops \subseteq ops2, last <= last2, gone \subseteq gone2,
         \A x \in xs2 : x \in xs \/ x.id > last
  PROVE  /\ NoteFits(n, ops2, last2, gone2, xs2)
         /\ HeadShown(n, xs) => HeadShown(n, xs2)
         /\ DeadAtRest(n, xs) => DeadAtRest(n, xs2)
<1>1. RowsPosted(n, ops2)
  BY DEF NoteFits, RowsPosted
<1>2. RowsNumbered(n, last2)
  BY DEF NoteFits, RowsNumbered
<1>3. BaseShown(n, gone2, xs2)
  <2> SUFFICES ASSUME NEW x \in xs2, x.id = n.doc.base
               PROVE  x \in xs
    BY DEF BaseShown, NoteFits
  <2> QED BY DEF NoteFits, RowsNumbered
<1>4. HeadShown(n, xs) => HeadShown(n, xs2)
  <2>1. \A v \in Heads(n) : OpOf(v) \in ops
    BY DEF Heads, NoteFits, RowsPosted
  <2>2. \A v \in Heads(n) : OpOf(v) \in xs2 => OpOf(v) \in xs
    BY <2>1 DEF Ledger
  <2> QED BY <2>2 DEF HeadShown
<1> QED BY <1>1, <1>2, <1>3, <1>4 DEF NoteFits, DeadAtRest

(* What device d has posted stays posted, and numbers stay given. *)
LEMMA OpsTyped ==
  ASSUME DrawingTyped
  PROVE  /\ AllInkOps \subseteq InkOp
         /\ \A d \in InkDevices : Range(unsent[d]) \subseteq AllInkOps /\ Bases(d) \subseteq AllInkOps
         /\ Range(serverOps) \subseteq AllInkOps
         /\ \A d \in InkDevices : \A x \in Bases(d) : x \in PublishOp
<1>1. Range(serverOps) \subseteq InkOp /\ \A d \in InkDevices : Range(unsent[d]) \subseteq InkOp
  BY QueueRange DEF DrawingTyped
<1>2. AllInkOps \subseteq InkOp
  BY <1>1 DEF AllInkOps
<1>3. \A x \in InkOp : x.kind = "publish" => x \in PublishOp
  BY DEF InkOp, PublishOp
<1> QED BY <1>2, <1>3 DEF AllInkOps, Bases

LEMMA OthersStay ==
  ASSUME DrawingInv, NEW d \in InkDevices,
         AllInkOps \subseteq AllInkOps',
         \A e \in InkDevices : \A x \in Bases(e)' : x \in Bases(e) \/ x.id > inkOps,
         inkOps' \in Nat, inkOps <= inkOps',
         \A e \in InkDevices \ {d} :
            /\ inkPages'[e] = inkPages[e] /\ sheet'[e] = sheet[e] /\ unsent'[e] = unsent[e]
            /\ pen'[e] = pen[e] /\ wiped'[e] = wiped[e]
  PROVE  \A e \in InkDevices \ {d} : PageInv(e)'
<1> SUFFICES ASSUME NEW e \in InkDevices \ {d} PROVE PageInv(e)'
  OBVIOUS
<1>1. PageInv(e) /\ inkPages[e] \in PageRow /\ inkOps \in Nat /\ Ledger(AllInkOps, inkOps)
  BY DEF DrawingInv, DrawingTyped
<1> DEFINE n == inkPages[e]
           ops == AllInkOps
           ops2 == AllInkOps'
           xs == Bases(e)
           xs2 == Bases(e)'
<1>2. NoteFits(n, ops, inkOps, wiped[e], xs) /\ DeadAtRest(n, xs)
  BY <1>1 DEF PageInv
<1>3. ops \subseteq ops2 /\ \A x \in xs2 : x \in xs \/ x.id > inkOps
  OBVIOUS
<1> HIDE DEF ops, ops2, xs, xs2
<1>4. NoteFits(n, ops2, inkOps', wiped[e], xs2) /\ DeadAtRest(n, xs2)
  <2> DEFINE last == inkOps
             last2 == inkOps'
             gone == wiped[e]
  <2>1. n \in PageRow /\ Ledger(ops, last) /\ NoteFits(n, ops, last, gone, xs) /\ DeadAtRest(n, xs)
    BY <1>1, <1>2 DEF ops
  <2>2. last \in Nat /\ last2 \in Nat /\ last <= last2 /\ gone \subseteq gone
    BY <1>1
  <2>3. ops \subseteq ops2 /\ \A x \in xs2 : x \in xs \/ x.id > last
    BY <1>3
  <2> HIDE DEF n, last, last2, gone
  <2>4. NoteFits(n, ops2, last2, gone, xs2) /\ DeadAtRest(n, xs2)
    BY <2>1, <2>2, <2>3, NoteStays
  <2> QED BY <2>4 DEF last, last2, gone
<1>5. NoteFits(inkPages'[e], AllInkOps', inkOps', wiped'[e], Bases(e)')
      /\ DeadAtRest(inkPages'[e], Bases(e)')
  BY <1>4 DEF ops2, xs2
<1>6. /\ IntactIn(sheet'[e], NeededBy(inkPages'[e], unsent'[e]))
      /\ ViewTrue(inkPages'[e], pen'[e])
  BY <1>1 DEF PageInv
<1> QED BY <1>5, <1>6 DEF PageInv

(* One device changes its note, and nothing is posted. *)
LEMMA OneNote ==
  ASSUME DrawingInv, NEW d \in InkDevices, NEW n2 \in PageRow, NEW s2 \in Geometry,
         NEW p2 \in PenState, NEW gone2 \in SUBSET Marks, wiped[d] \subseteq gone2,
         inkPages' = [inkPages EXCEPT ![d] = n2], sheet' = [sheet EXCEPT ![d] = s2],
         pen' = [pen EXCEPT ![d] = p2], wiped' = [wiped EXCEPT ![d] = gone2],
         UNCHANGED <<unsent, serverOps, inkOps, scope>>, pulled' \in [InkDevices -> Nat],
         NoteFits(n2, AllInkOps, inkOps, gone2, Bases(d)),
         IntactIn(s2, NeededBy(n2, unsent[d])), ViewTrue(n2, p2), DeadAtRest(n2, Bases(d))
  PROVE  DrawingInv'
<1>1. DrawingTyped'
  BY DEF DrawingInv, DrawingTyped
<1>2. AllInkOps' = AllInkOps
  BY DEF AllInkOps
<1>3. \A e : \A x : Behind(e, x)' <=> Behind(e, x)
  BY DEF Behind
<1>4. \A e \in InkDevices : Bases(e)' = Bases(e)
  BY <1>2, <1>3 DEF Bases
<1>5. \A e \in InkDevices \ {d} :
            /\ inkPages'[e] = inkPages[e] /\ sheet'[e] = sheet[e] /\ unsent'[e] = unsent[e]
            /\ pen'[e] = pen[e] /\ wiped'[e] = wiped[e]
  BY DEF DrawingInv, DrawingTyped
<1>6. inkPages'[d] = n2 /\ sheet'[d] = s2 /\ unsent'[d] = unsent[d] /\ pen'[d] = p2 /\ wiped'[d] = gone2
  BY DEF DrawingInv, DrawingTyped
<1>7. PageInv(d)'
  BY <1>2, <1>4, <1>6 DEF PageInv
<1>8. \A e \in InkDevices \ {d} : PageInv(e)'
  <2>1. inkOps' \in Nat /\ inkOps <= inkOps' /\ AllInkOps \subseteq AllInkOps'
    BY <1>2 DEF DrawingInv, DrawingTyped
  <2>2. \A e \in InkDevices : \A x \in Bases(e)' : x \in Bases(e) \/ x.id > inkOps
    BY <1>4
  <2> QED BY <1>5, <2>1, <2>2, OthersStay
<1>9. Ledger(AllInkOps, inkOps)'
  BY <1>2 DEF DrawingInv
<1>10. NoOpDrops'
  <2>1. \A e \in InkDevices : wiped[e] \subseteq wiped'[e]
    BY <1>5, <1>6
  <2>2. ASSUME NEW v \in AllInkOps, NEW w \in AllInkOps, v.kind = "publish", w.kind = "publish",
               v.draft, w.id \in v.parents, ~Behind(v.by, w)
        PROVE  w.root.ink \ v.root.ink \subseteq wiped'[v.by]
    <3>1. v.by \in InkDevices
      BY <2>2, OpsTyped DEF DrawingInv, InkOp, PublishOp
    <3> QED BY <2>1, <2>2, <3>1 DEF DrawingInv, NoOpDrops
  <2> QED BY <1>2, <1>3, <2>2 DEF NoOpDrops
<1> QED BY <1>1, <1>7, <1>8, <1>9, <1>10 DEF DrawingInv

(* The operations afterwards, when device d has put more of them into its outbox. *)
LEMMA Posted ==
  ASSUME DrawingInv, NEW d \in InkDevices, NEW q2 \in Seq(InkOp), NEW more \in SUBSET InkOp,
         NEW last2 \in Nat, inkOps <= last2,
         Range(q2) = Range(unsent[d]) \cup more,
         unsent' = [unsent EXCEPT ![d] = q2], UNCHANGED <<serverOps, wiped>>,
         \A x \in more : x.id \in inkOps + 1 .. last2,
         \A x \in more : \A y \in more : x.id = y.id => x = y,
         \A x \in more : x.kind = "publish" =>
            /\ x.parents \subseteq 0 .. inkOps
            /\ x.draft => /\ x.by = d
                          /\ \A w \in Bases(d) : w.id \in x.parents =>
                               w.root.ink \ x.root.ink \subseteq wiped[d]
  PROVE  /\ AllInkOps' = AllInkOps \cup more
         /\ Ledger(AllInkOps \cup more, last2)
         /\ \A e \in InkDevices : \A x \in Bases(e)' : x \in Bases(e) \/ x \in more
         /\ \A e \in InkDevices : Bases(e)' \subseteq AllInkOps \cup more
         /\ NoOpDrops'
<1>0. /\ unsent \in [InkDevices -> Seq(InkOp)] /\ inkOps \in Nat /\ DrawingTyped
      /\ Ledger(AllInkOps, inkOps) /\ NoOpDrops
  BY DEF DrawingInv, DrawingTyped
<1>1. AllInkOps' = AllInkOps \cup more
  <2>1. \A e \in InkDevices : unsent'[e] = IF e = d THEN q2 ELSE unsent[e]
    BY <1>0
  <2>2. AllInkOps' = Range(serverOps) \cup UNION {Range(unsent'[e]) : e \in InkDevices}
    BY DEF AllInkOps
  <2>3. UNION {Range(unsent'[e]) : e \in InkDevices} = more \cup UNION {Range(unsent[e]) : e \in InkDevices}
    <3>1. ASSUME NEW e \in InkDevices PROVE Range(unsent'[e]) \subseteq Range(unsent[e]) \cup more
      BY <2>1
    <3>2. ASSUME NEW e \in InkDevices PROVE Range(unsent[e]) \subseteq Range(unsent'[e])
      BY <2>1
    <3>3. more \subseteq Range(unsent'[d])
      BY <2>1
    <3>4. ASSUME NEW x PROVE x \in UNION {Range(unsent'[e]) : e \in InkDevices} <=>
                             \E e \in InkDevices : x \in Range(unsent'[e])
      OBVIOUS
    <3>5. ASSUME NEW x PROVE x \in UNION {Range(unsent[e]) : e \in InkDevices} <=>
                             \E e \in InkDevices : x \in Range(unsent[e])
      OBVIOUS
    <3> QED BY <3>1, <3>2, <3>3, <3>4, <3>5
  <2> QED BY <2>2, <2>3 DEF AllInkOps
<1>2. Ledger(AllInkOps \cup more, last2)
  <2>1. \A x \in AllInkOps \cup more : x.id \in 1 .. last2
    BY <1>0 DEF Ledger
  <2>2. \A x \in AllInkOps \cup more : x.kind = "publish" => x.parents \subseteq 0 .. last2
    <3>1. 0 .. inkOps \subseteq 0 .. last2
      BY <1>0
    <3> QED BY <1>0, <3>1 DEF Ledger
  <2>3. \A x \in AllInkOps \cup more : \A y \in AllInkOps \cup more : x.id = y.id => x = y
    <3>1. \A x \in AllInkOps : \A y \in more : x.id # y.id
      BY <1>0 DEF Ledger
    <3> QED BY <1>0, <3>1 DEF Ledger
  <2> QED BY <1>0, <2>1, <2>2, <2>3 DEF Ledger
<1>3. \A e : \A x : Behind(e, x) => Behind(e, x)'
  <2>1. ASSUME NEW e PROVE unsent'[e] = unsent[e] \/ (e = d /\ unsent'[e] = q2)
    BY <1>0
  <2>2. ASSUME NEW e PROVE Range(unsent[e]) \subseteq Range(unsent'[e])
    BY <2>1
  <2> QED BY <2>2 DEF Behind
<1>4. \A e \in InkDevices : \A x \in Bases(e)' : x \in Bases(e) \/ x \in more
  <2> SUFFICES ASSUME NEW e \in InkDevices, NEW x \in Bases(e)', x \notin more PROVE x \in Bases(e)
    OBVIOUS
  <2>1. x \in AllInkOps' /\ x.kind = "publish" /\ ~Behind(e, x)'
    BY DEF Bases
  <2> QED BY <1>1, <1>3, <2>1 DEF Bases
<1>5. \A e \in InkDevices : Bases(e)' \subseteq AllInkOps \cup more
  BY <1>1 DEF Bases
<1>6. NoOpDrops'
  <2> SUFFICES ASSUME NEW v \in AllInkOps', NEW w \in AllInkOps', v.kind = "publish", w.kind = "publish",
               v.draft, w.id \in v.parents, ~Behind(v.by, w)'
               PROVE  w.root.ink \ v.root.ink \subseteq wiped[v.by]
    BY DEF NoOpDrops
  <2>1. ~Behind(v.by, w)
    BY <1>3
  <2>2. w \in AllInkOps
    <3>1. v.parents \subseteq 0 .. inkOps
      BY <1>0, <1>1 DEF Ledger
    <3> QED BY <1>0, <1>1, <3>1
  <2>3. CASE v \in AllInkOps
    BY <1>0, <2>1, <2>2, <2>3 DEF NoOpDrops
  <2>4. CASE v \in more
    <3>1. v.by = d
      BY <2>4
    <3>2. w \in Bases(d)
      BY <2>1, <2>2, <3>1 DEF Bases
    <3> QED BY <2>4, <3>1, <3>2
  <2> QED BY <1>1, <2>3, <2>4
<1> QED BY <1>1, <1>2, <1>4, <1>5, <1>6

LEMMA NoteOf ==
  ASSUME DrawingInv, NEW d \in InkDevices
  PROVE  /\ inkPages[d] \in PageRow /\ sheet[d] \in Geometry /\ pen[d] \in PenState
         /\ wiped[d] \in SUBSET Marks /\ unsent[d] \in Seq(InkOp) /\ inkOps \in Nat
         /\ pulled \in [InkDevices -> Nat] /\ pulled[d] \in Nat
         /\ inkPages = [inkPages EXCEPT ![d] = inkPages[d]] /\ sheet = [sheet EXCEPT ![d] = sheet[d]]
         /\ pen = [pen EXCEPT ![d] = pen[d]] /\ wiped = [wiped EXCEPT ![d] = wiped[d]]
         /\ unsent = [unsent EXCEPT ![d] = unsent[d]]
         /\ Ledger(AllInkOps, inkOps) /\ Bases(d) \subseteq AllInkOps
         /\ NoteFits(inkPages[d], AllInkOps, inkOps, wiped[d], Bases(d))
         /\ IntactIn(sheet[d], NeededBy(inkPages[d], unsent[d]))
         /\ ViewTrue(inkPages[d], pen[d]) /\ DeadAtRest(inkPages[d], Bases(d))
<1>1. PageInv(d) /\ DrawingTyped /\ Ledger(AllInkOps, inkOps)
  BY DEF DrawingInv
<1>2. Bases(d) \subseteq AllInkOps
  BY DEF Bases
<1>3. /\ inkPages[d] \in PageRow /\ sheet[d] \in Geometry /\ pen[d] \in PenState
      /\ wiped[d] \in SUBSET Marks /\ unsent[d] \in Seq(InkOp) /\ inkOps \in Nat
      /\ pulled \in [InkDevices -> Nat] /\ pulled[d] \in Nat
  BY <1>1 DEF DrawingTyped
<1>4. /\ inkPages = [inkPages EXCEPT ![d] = inkPages[d]] /\ sheet = [sheet EXCEPT ![d] = sheet[d]]
      /\ pen = [pen EXCEPT ![d] = pen[d]] /\ wiped = [wiped EXCEPT ![d] = wiped[d]]
      /\ unsent = [unsent EXCEPT ![d] = unsent[d]]
  BY <1>1 DEF DrawingTyped
<1> QED BY <1>1, <1>2, <1>3, <1>4 DEF PageInv

LEMMA PageDoc ==
  ASSUME NEW n \in PageRow, NEW doc \in DraftRow
  PROVE  LET m == [n EXCEPT !.doc = doc] IN
         /\ m \in PageRow /\ m.doc = doc /\ m.alive = n.alive /\ m.hist = n.hist
         /\ m.versions = n.versions /\ m.staged = n.staged /\ m.pins = n.pins
BY DEF PageRow

(* A note whose draft and rows stay the same. *)
LEMMA SameDrawing ==
  ASSUME NEW n \in PageRow, NEW m \in PageRow, NEW ops, NEW last, NEW gone, NEW xs, NEW q,
         NoteFits(n, ops, last, gone, xs),
         m.doc.root = n.doc.root, m.doc.cursor = n.doc.cursor, m.doc.dirty = n.doc.dirty,
         m.doc.base = n.doc.base, m.hist = n.hist, m.versions = n.versions, m.pins = n.pins
  PROVE  /\ NoteFits(m, ops, last, gone, xs) /\ Ink(m) = Ink(n) /\ Heads(m) = Heads(n)
         /\ HeadShown(n, xs) <=> HeadShown(m, xs)
         /\ NeededBy(m, q) \subseteq NeededBy(n, q) \cup m.staged
<1>1. Ink(m) = Ink(n)
  BY DEF Ink
<1>2. NoteFits(m, ops, last, gone, xs)
  BY <1>1 DEF NoteFits, RowsFit, RowsPosted, RowsNumbered, BaseShown
<1>3. Heads(m) = Heads(n)
  BY DEF Heads
<1>4. HeadShown(n, xs) <=> HeadShown(m, xs)
  BY <1>1, <1>3 DEF HeadShown
<1>5. NeededBy(m, q) \subseteq NeededBy(n, q) \cup m.staged
  BY DEF NeededBy
<1> QED BY <1>1, <1>2, <1>3, <1>4, <1>5

----------------------------------------------------------------------------
(* The steps of the editor that leave the drawing alone. *)
LEMMA OpenEditorKeeps ==
  ASSUME DrawingInv, NEW d \in InkDevices, OpenEditor(d)
  PROVE  DrawingInv'
<1> DEFINE n == inkPages[d]
           doc == [n.doc EXCEPT !.editing = TRUE, !.seen = TRUE]
           m == [n EXCEPT !.doc = doc]
           p2 == [pen[d] EXCEPT !.open = TRUE, !.view = Ink(n)]
<1>1. n \in PageRow /\ n.doc \in DraftRow /\ pen[d] \in PenState /\ n.alive
  BY NoteOf DEF PageRow, OpenEditor, Loadable
<1>2. /\ doc \in DraftRow /\ doc.root = n.doc.root /\ doc.cursor = n.doc.cursor
      /\ doc.dirty = n.doc.dirty /\ doc.base = n.doc.base
  BY <1>1 DEF DraftRow
<1>3. p2 \in PenState /\ p2.view = Ink(n)
  BY <1>1, InkIs DEF PenState
<1>4. inkPages' = [inkPages EXCEPT ![d] = m]
  BY DEF OpenEditor
<1>5. pen' = [pen EXCEPT ![d] = p2]
  BY DEF OpenEditor
<1> HIDE DEF doc, p2
<1>6. /\ m \in PageRow /\ m.doc = doc /\ m.alive = n.alive /\ m.hist = n.hist
      /\ m.versions = n.versions /\ m.staged = n.staged /\ m.pins = n.pins
  BY <1>1, <1>2, PageDoc
<1> HIDE DEF m
<1>7. /\ NoteFits(m, AllInkOps, inkOps, wiped[d], Bases(d)) /\ Ink(m) = Ink(n)
      /\ NeededBy(m, unsent[d]) \subseteq NeededBy(n, unsent[d]) \cup m.staged
  BY <1>1, <1>2, <1>6, SameDrawing, NoteOf
<1>8. NeededBy(m, unsent[d]) \subseteq NeededBy(n, unsent[d])
  BY <1>6, <1>7 DEF NeededBy
<1>9. IntactIn(sheet[d], NeededBy(m, unsent[d]))
  BY <1>8, NoteOf DEF IntactIn
<1>10. ViewTrue(m, p2) /\ DeadAtRest(m, Bases(d))
  BY <1>1, <1>3, <1>6, <1>7 DEF ViewTrue, DeadAtRest
<1>11. /\ UNCHANGED <<unsent, serverOps, inkOps, scope, pulled, sheet, wiped>>
  BY DEF OpenEditor
<1> HIDE DEF n
<1>12. n \in PageRow /\ sheet' = [sheet EXCEPT ![d] = sheet[d]] /\ wiped' = [wiped EXCEPT ![d] = wiped[d]]
       /\ pulled' \in [InkDevices -> Nat] /\ sheet[d] \in Geometry /\ wiped[d] \in SUBSET Marks
  BY <1>1, <1>11, NoteOf
<1> QED BY <1>3, <1>4, <1>5, <1>6, <1>7, <1>9, <1>10, <1>11, <1>12, OneNote

(* Only the session of the editor changes; a view that is still open is the same. *)
LEMMA PenOnlyKeeps ==
  ASSUME DrawingInv, NEW d \in InkDevices, NEW p2 \in PenState,
         p2.open => pen[d].open /\ p2.view = pen[d].view,
         pen' = [pen EXCEPT ![d] = p2],
         UNCHANGED <<inkPages, sheet, unsent, serverOps, pulled, wiped, inkOps, scope>>
  PROVE  DrawingInv'
<1>1. ViewTrue(inkPages[d], p2)
  <2>1. ViewTrue(inkPages[d], pen[d])
    BY NoteOf
  <2> QED BY <2>1 DEF ViewTrue
<1>2. /\ inkPages' = [inkPages EXCEPT ![d] = inkPages[d]] /\ sheet' = [sheet EXCEPT ![d] = sheet[d]]
      /\ wiped' = [wiped EXCEPT ![d] = wiped[d]] /\ pulled' \in [InkDevices -> Nat]
  BY NoteOf
<1>3. /\ inkPages[d] \in PageRow /\ sheet[d] \in Geometry /\ wiped[d] \in SUBSET Marks
      /\ NoteFits(inkPages[d], AllInkOps, inkOps, wiped[d], Bases(d))
      /\ IntactIn(sheet[d], NeededBy(inkPages[d], unsent[d])) /\ DeadAtRest(inkPages[d], Bases(d))
  BY NoteOf
<1> QED BY <1>1, <1>2, <1>3, OneNote

LEMMA ReloadKeeps ==
  ASSUME DrawingInv, NEW d \in InkDevices, Reload(d)
  PROVE  DrawingInv'
<1> DEFINE p2 == [pen[d] EXCEPT !.open = FALSE, !.view = {}]
<1>1. p2 \in PenState /\ ~p2.open
  BY NoteOf DEF PenState
<1>2. pen' = [pen EXCEPT ![d] = p2]
  BY DEF Reload
<1> HIDE DEF p2
<1> QED BY <1>1, <1>2, PenOnlyKeeps DEF Reload

LEMMA CrashPenKeeps ==
  ASSUME DrawingInv, NEW d \in InkDevices, CrashPen(d)
  PROVE  DrawingInv'
<1>1. NoPen \in PenState /\ ~NoPen.open
  BY DEF NoPen, PenState
<1> QED BY <1>1, PenOnlyKeeps DEF CrashPen

LEMMA PreparePackKeeps ==
  ASSUME DrawingInv, NEW d \in InkDevices, PreparePack(d)
  PROVE  DrawingInv'
<1> DEFINE plan == FreshChunks(inkPages[d])
           p2 == [pen[d] EXCEPT !.plan = plan]
<1>1. plan \subseteq SUBSET Marks
  <2>1. inkPages[d].hist \in PenStates
    BY NoteOf DEF PageRow
  <2>2. Range(inkPages[d].hist) \subseteq InkRoot
    BY <2>1, PenStateRange
  <2> QED BY <2>2, Drawings DEF FreshChunks
<1>2. pen' = [pen EXCEPT ![d] = p2]
  BY DEF PreparePack
<1> HIDE DEF plan
<1>3. p2 \in PenState /\ p2.open = pen[d].open /\ p2.view = pen[d].view
  BY <1>1, NoteOf, ZenonT(60) DEF PenState
<1> HIDE DEF p2
<1> QED BY <1>2, <1>3, PenOnlyKeeps DEF PreparePack

LEMMA RequestPublicationKeeps ==
  ASSUME DrawingInv, NEW d \in InkDevices, RequestPublication(d)
  PROVE  DrawingInv'
<1> DEFINE n == inkPages[d]
           doc == [n.doc EXCEPT !.requested = n.doc.requested \/ n.doc.dirty]
           m == [n EXCEPT !.doc = doc]
           p2 == [pen[d] EXCEPT !.open = FALSE, !.view = {},
                                !.finish = IF n.alive THEN "wanted" ELSE pen[d].finish]
<1>1. n \in PageRow /\ n.doc \in DraftRow /\ pen[d] \in PenState
  BY NoteOf DEF PageRow
<1>2. /\ doc \in DraftRow /\ doc.root = n.doc.root /\ doc.cursor = n.doc.cursor
      /\ doc.dirty = n.doc.dirty /\ doc.base = n.doc.base /\ doc.editing = n.doc.editing
  BY <1>1 DEF DraftRow
<1>3. p2 \in PenState /\ ~p2.open
  BY <1>1 DEF PenState
<1>4. inkPages' = [inkPages EXCEPT ![d] = m]
  BY DEF RequestPublication
<1>5. pen' = [pen EXCEPT ![d] = p2]
  BY DEF RequestPublication
<1> HIDE DEF doc, p2
<1>6. /\ m \in PageRow /\ m.doc = doc /\ m.alive = n.alive /\ m.hist = n.hist
      /\ m.versions = n.versions /\ m.staged = n.staged /\ m.pins = n.pins
  BY <1>1, <1>2, PageDoc
<1> HIDE DEF m
<1>7. /\ NoteFits(m, AllInkOps, inkOps, wiped[d], Bases(d))
      /\ HeadShown(n, Bases(d)) => HeadShown(m, Bases(d))
  BY <1>1, <1>2, <1>6, SameDrawing, NoteOf
<1>8. NeededBy(m, unsent[d]) \subseteq NeededBy(n, unsent[d])
  BY <1>2, <1>6 DEF NeededBy
<1>9. IntactIn(sheet[d], NeededBy(m, unsent[d]))
  BY <1>8, NoteOf DEF IntactIn
<1>10. ViewTrue(m, p2)
  BY <1>3 DEF ViewTrue
<1>11. DeadAtRest(m, Bases(d))
  <2>1. DeadAtRest(n, Bases(d))
    BY NoteOf
  <2> QED BY <1>2, <1>6, <1>7, <2>1 DEF DeadAtRest
<1>12. UNCHANGED <<unsent, serverOps, inkOps, scope, pulled, sheet, wiped>>
  BY DEF RequestPublication
<1> HIDE DEF n
<1>13. n \in PageRow /\ sheet' = [sheet EXCEPT ![d] = sheet[d]] /\ wiped' = [wiped EXCEPT ![d] = wiped[d]]
       /\ pulled' \in [InkDevices -> Nat] /\ sheet[d] \in Geometry /\ wiped[d] \in SUBSET Marks
  BY <1>1, <1>12, NoteOf
<1> QED BY <1>3, <1>4, <1>5, <1>6, <1>7, <1>9, <1>10, <1>11, <1>12, <1>13, OneNote

----------------------------------------------------------------------------
(* Drawing, erasing, undo and redo. *)
LEMMA Redrawn ==
  ASSUME NEW n \in PageRow, NEW m \in PageRow, NEW ops, NEW last, NEW gone, NEW xs, NEW r \in InkRoot,
         NoteFits(n, ops, last, gone, xs),
         m.doc.root = r, m.doc.dirty, m.doc.base = n.doc.base, m.doc.cursor \in DOMAIN m.hist,
         m.hist[m.doc.cursor] = r, m.versions = n.versions, m.pins = n.pins
  PROVE  NoteFits(m, ops, last, gone \cup (Ink(n) \ r.ink), xs) /\ Ink(m) = r.ink
<1>1. Ink(m) = r.ink /\ m.doc.root # NoRoot
  BY InkIs, Drawings
<1>2. RowsFit(m) /\ RowsPosted(m, ops) /\ RowsNumbered(m, last)
  BY <1>1 DEF NoteFits, RowsFit, RowsPosted, RowsNumbered
<1>3. BaseShown(m, gone \cup (Ink(n) \ r.ink), xs)
  BY <1>1 DEF NoteFits, BaseShown
<1> QED BY <1>1, <1>2, <1>3 DEF NoteFits

LEMMA PatchKeeps ==
  ASSUME DrawingInv, NEW d \in InkDevices, NEW ink \in SUBSET Marks, Patch(d, ink)
  PROVE  DrawingInv'
<1> DEFINE n == inkPages[d]
           old == IF n.doc.root = NoRoot THEN Blank ELSE n.doc.root
           new == Build(old, ink)
           first == IF n.doc.root = NoRoot THEN {Blank} ELSE {}
           seq == n.doc.cursor + 1
           dom == {j \in (DOMAIN n.hist) \cup {0, seq} :
                          /\ j <= seq /\ j >= seq - PenHistory
                          /\ (j = 0 => n.doc.root = NoRoot \/ 0 \in DOMAIN n.hist)}
           hist == [i \in dom |->
                   IF i = seq THEN new ELSE IF i \in DOMAIN n.hist THEN n.hist[i] ELSE Blank]
           doc == [n.doc EXCEPT !.root = new, !.cursor = seq, !.dirty = TRUE]
           after == [n EXCEPT !.hist = hist, !.doc = doc]
           s2 == Collected(sheet[d], first \cup {new}, after, unsent[d])
           p2 == [pen[d] EXCEPT !.view = ink]
           gone2 == wiped[d] \cup (pen[d].view \ ink)
<1>1. n \in PageRow /\ n.doc \in DraftRow /\ n.hist \in PenStates /\ n.doc.cursor \in Nat
  BY NoteOf DEF PageRow, DraftRow
<1>2. /\ pen[d].open /\ n.alive /\ n.doc.seen
      /\ inkPages' = [inkPages EXCEPT ![d] = after]
      /\ pen' = [pen EXCEPT ![d] = p2]
      /\ UNCHANGED <<unsent, serverOps, pulled, inkOps, scope>>
  BY DEF Patch, Loadable, RevisionMatches
<1>3. sheet' = [sheet EXCEPT ![d] = s2]
  BY DEF Patch
<1>4. wiped' = [wiped EXCEPT ![d] = gone2]
  BY DEF Patch
<1>5. pen[d].view = Ink(n)
  BY <1>2, NoteOf DEF ViewTrue
<1>6. old \in InkRoot
  BY <1>1, InkIs, Drawings
<1>7. new \in InkRoot /\ new.ink = ink
  BY <1>6, BuildDrawing
<1>8. first \subseteq {Blank} /\ (n.doc.root = NoRoot => first = {Blank})
  OBVIOUS
<1>9. PenHistory \in Nat
  BY DrawingAssumption
<1> HIDE DEF old, new, first
<1>10. hist \in PenStates /\ seq \in DOMAIN hist /\ hist[seq] = new /\ seq \in Nat
       /\ Range(hist) \subseteq Range(n.hist) \cup first \cup {new}
  <2>1. \A i \in DOMAIN n.hist : i \in Nat /\ n.hist[i] \in InkRoot
    BY <1>1, PenStateRange
  <2>2. dom \in SUBSET Nat /\ seq \in dom
    BY <1>1, <1>9, <2>1
  <2>3. DOMAIN hist = dom
    OBVIOUS
  <2>4. \A i \in dom : i # seq /\ i \notin DOMAIN n.hist => i = 0 /\ n.doc.root = NoRoot
    OBVIOUS
  <2>5. \A i \in dom : hist[i] = IF i = seq THEN new ELSE IF i \in DOMAIN n.hist THEN n.hist[i] ELSE Blank
    OBVIOUS
  <2> HIDE DEF dom, seq
  <2>6. hist \in [dom -> InkRoot]
    BY <1>7, <2>1, Drawings
  <2> HIDE DEF hist
  <2>7. hist \in PenStates
    BY <2>2, <2>3, <2>6, PenStatesAre
  <2>8. \A i \in dom : hist[i] \in Range(n.hist) \cup first \cup {new}
    BY <1>8, <2>4, <2>5 DEF Range
  <2>9. Range(hist) \subseteq Range(n.hist) \cup first \cup {new}
    BY <2>3, <2>8 DEF Range
  <2>10. seq \in Nat
    BY <2>2
  <2> QED BY <2>2, <2>3, <2>5, <2>7, <2>9, <2>10
<1> HIDE DEF hist, seq
<1>11. /\ doc \in DraftRow /\ doc.root = new /\ doc.cursor = seq /\ doc.dirty /\ doc.base = n.doc.base
       /\ doc.seen = n.doc.seen
  <2>1. new \in RootOrNone
    BY <1>7, Drawings
  <2> QED BY <1>1, <1>10, <2>1 DEF DraftRow
<1>12. p2 \in PenState /\ p2.view = ink
  BY NoteOf DEF PenState
<1>13. gone2 \in SUBSET Marks /\ wiped[d] \subseteq gone2
  BY NoteOf DEF PenState
<1> HIDE DEF doc, p2
<1>14. /\ after \in PageRow /\ after.doc = doc /\ after.hist = hist /\ after.versions = n.versions
       /\ after.pins = n.pins /\ after.staged = n.staged /\ after.alive = n.alive
  BY <1>1, <1>10, <1>11 DEF PageRow
<1> HIDE DEF after
<1>15. NoteFits(after, AllInkOps, inkOps, gone2, Bases(d)) /\ Ink(after) = ink
  <2>1. NoteFits(n, AllInkOps, inkOps, wiped[d], Bases(d))
    BY NoteOf
  <2>2. /\ after.doc.root = new /\ after.doc.dirty /\ after.doc.base = n.doc.base
        /\ after.doc.cursor \in DOMAIN after.hist /\ after.hist[after.doc.cursor] = new
    BY <1>10, <1>11, <1>14
  <2>3. gone2 = wiped[d] \cup (Ink(n) \ new.ink)
    BY <1>5, <1>7
  <2> HIDE DEF gone2, n
  <2> QED BY <1>1, <1>7, <1>14, <2>1, <2>2, <2>3, Redrawn, SMTT(40)
<1>16. new \in first \cup {new} /\ first \cup {new} \in SUBSET InkRoot
  BY <1>7, <1>8, Drawings
<1>17. NeededBy(after, unsent[d]) \subseteq NeededBy(n, unsent[d]) \cup first \cup {new}
  BY <1>10, <1>11, <1>14 DEF NeededBy
<1>18. IntactIn(sheet[d], NeededBy(after, unsent[d]) \ (first \cup {new}))
  BY <1>17, NoteOf DEF IntactIn
<1>19. s2 \in Geometry /\ IntactIn(s2, NeededBy(after, unsent[d]))
  <2>1. RowsFit(after)
    BY <1>15 DEF NoteFits
  <2> QED BY <1>14, <1>16, <1>18, <2>1, CollectedIs, NoteOf
<1>20. ViewTrue(after, p2) /\ DeadAtRest(after, Bases(d))
  BY <1>2, <1>12, <1>14, <1>15 DEF ViewTrue, DeadAtRest
<1>21. pulled' \in [InkDevices -> Nat]
  BY <1>2, NoteOf
<1> HIDE DEF s2, gone2, n
<1> QED BY <1>2, <1>3, <1>4, <1>12, <1>13, <1>14, <1>15, <1>19, <1>20, <1>21, OneNote

LEMMA NavigateKeeps ==
  ASSUME DrawingInv, NEW d \in InkDevices, NEW step \in {-1, 1}, Navigate(d, step)
  PROVE  DrawingInv'
<1> DEFINE n == inkPages[d]
           target == n.doc.cursor + step
           r == n.hist[target]
           doc == [n.doc EXCEPT !.root = r, !.cursor = target, !.dirty = TRUE]
           after == [n EXCEPT !.doc = doc]
           p2 == [pen[d] EXCEPT !.view = r.ink]
           gone2 == wiped[d] \cup (pen[d].view \ r.ink)
<1>1. n \in PageRow /\ n.doc \in DraftRow /\ n.hist \in PenStates
  BY NoteOf DEF PageRow
<1>2. /\ pen[d].open /\ n.alive /\ n.doc.seen /\ target \in DOMAIN n.hist
      /\ inkPages' = [inkPages EXCEPT ![d] = after]
      /\ pen' = [pen EXCEPT ![d] = p2]
      /\ UNCHANGED <<sheet, unsent, serverOps, pulled, inkOps, scope>>
  BY DEF Navigate, RevisionMatches
<1>3. wiped' = [wiped EXCEPT ![d] = gone2]
  BY DEF Navigate
<1>4. pen[d].view = Ink(n)
  BY <1>2, NoteOf DEF ViewTrue
<1>5. target \in Nat /\ r \in InkRoot /\ r \in Range(n.hist)
  BY <1>1, <1>2, PenStateRange DEF Range
<1> HIDE DEF target
<1>6. r = n.hist[target]
  OBVIOUS
<1> HIDE DEF r
<1>7. /\ doc \in DraftRow /\ doc.root = r /\ doc.cursor = target /\ doc.dirty /\ doc.base = n.doc.base
  BY <1>1, <1>5, Drawings DEF DraftRow
<1>8. p2 \in PenState /\ p2.view = r.ink
  <2>1. r.ink \in SUBSET Marks
    BY <1>5, Drawings
  <2> QED BY <2>1, NoteOf DEF PenState
<1>9. gone2 \in SUBSET Marks /\ wiped[d] \subseteq gone2
  BY NoteOf DEF PenState
<1> HIDE DEF doc, p2
<1>10. /\ after \in PageRow /\ after.doc = doc /\ after.hist = n.hist /\ after.versions = n.versions
       /\ after.pins = n.pins /\ after.staged = n.staged /\ after.alive = n.alive
  BY <1>1, <1>7, PageDoc
<1> HIDE DEF after
<1>11. NoteFits(after, AllInkOps, inkOps, gone2, Bases(d)) /\ Ink(after) = r.ink
  <2>1. NoteFits(n, AllInkOps, inkOps, wiped[d], Bases(d))
    BY NoteOf
  <2>2. /\ after.doc.root = r /\ after.doc.dirty /\ after.doc.base = n.doc.base
        /\ after.doc.cursor \in DOMAIN after.hist /\ after.hist[after.doc.cursor] = r
    BY <1>2, <1>6, <1>7, <1>10
  <2>3. gone2 = wiped[d] \cup (Ink(n) \ r.ink)
    BY <1>4
  <2> HIDE DEF gone2, n
  <2> QED BY <1>1, <1>5, <1>10, <2>1, <2>2, <2>3, Redrawn
<1>12. NeededBy(after, unsent[d]) \subseteq NeededBy(n, unsent[d])
  BY <1>5, <1>7, <1>10 DEF NeededBy
<1>13. IntactIn(sheet[d], NeededBy(after, unsent[d]))
  BY <1>12, NoteOf DEF IntactIn
<1>14. ViewTrue(after, p2) /\ DeadAtRest(after, Bases(d))
  BY <1>2, <1>8, <1>10, <1>11 DEF ViewTrue, DeadAtRest
<1>15. pulled' \in [InkDevices -> Nat] /\ sheet' = [sheet EXCEPT ![d] = sheet[d]] /\ sheet[d] \in Geometry
  BY <1>2, NoteOf
<1> HIDE DEF gone2, n
<1> QED BY <1>2, <1>3, <1>8, <1>9, <1>10, <1>11, <1>13, <1>14, <1>15, OneNote

----------------------------------------------------------------------------
(* Compaction: the chunks change, the strokes do not. *)
LEMMA RepackedIs ==
  ASSUME NEW r \in InkRoot, NEW plan \in SUBSET SUBSET Marks
  PROVE  Repacked(r, plan) \in InkRoot /\ Repacked(r, plan).ink = r.ink
<1>1. CASE r.ink \cap UNION plan = {}
  BY <1>1 DEF Repacked
<1>2. CASE r.ink \cap UNION plan # {}
  <2> DEFINE merged == UNION plan
  <2>1. merged \in SUBSET Marks /\ merged # {}
    BY <1>2
  <2>2. Repacked(r, plan) = [r EXCEPT !.chunks = (r.chunks \ plan) \cup {merged}]
    BY <1>2 DEF Repacked
  <2> HIDE DEF merged
  <2> QED BY <2>1, <2>2 DEF InkRoot
<1> QED BY <1>1, <1>2

LEMMA PackedIs ==
  ASSUME NEW n \in PageRow, RowsFit(n), NEW plan \in SUBSET SUBSET Marks
  PROVE  LET m == Packed(n, plan) IN
         /\ m \in PageRow /\ RowsFit(m) /\ Ink(m) = Ink(n)
         /\ m.alive = n.alive /\ m.versions = n.versions /\ m.staged = n.staged /\ m.pins = n.pins
         /\ m.doc.dirty = n.doc.dirty /\ m.doc.base = n.doc.base /\ m.doc.seen = n.doc.seen
         /\ Range(m.hist) \in SUBSET InkRoot
         /\ m.doc.root # NoRoot => m.doc.root \in Range(m.hist)
<1> DEFINE hist == RepackedHistory(n, plan)
           root == IF n.doc.root = NoRoot THEN NoRoot ELSE hist[n.doc.cursor]
           sealed == n.sealed \cup {UNION plan}
           doc == [n.doc EXCEPT !.root = root]
           m == Packed(n, plan)
<1>1. n.doc \in DraftRow /\ n.hist \in PenStates /\ n.sealed \subseteq SUBSET Marks
  BY DEF PageRow
<1>2. m = [n EXCEPT !.hist = hist, !.sealed = sealed, !.doc = doc]
  BY DEF Packed
<1>3. DOMAIN hist = DOMAIN n.hist /\ \A i \in DOMAIN n.hist : hist[i] = Repacked(n.hist[i], plan)
  BY DEF RepackedHistory
<1>4. \A i \in DOMAIN n.hist : i \in Nat /\ n.hist[i] \in InkRoot
  BY <1>1, PenStateRange
<1>5. hist \in PenStates
  <2>1. hist \in [DOMAIN n.hist -> InkRoot]
    BY <1>4, RepackedIs DEF RepackedHistory
  <2> HIDE DEF hist
  <2> QED BY <1>3, <1>4, <2>1, PenStatesAre
<1> HIDE DEF hist
<1>6. n.doc.root # NoRoot =>
        /\ n.doc.cursor \in DOMAIN n.hist /\ root = hist[n.doc.cursor]
        /\ root \in InkRoot /\ root.ink = n.doc.root.ink /\ root \in Range(hist)
        /\ root # NoRoot
  BY <1>3, <1>4, RepackedIs, Drawings DEF RowsFit, Range
<1>7. n.doc.root = NoRoot => root = NoRoot
  OBVIOUS
<1>8. root \in RootOrNone
  BY <1>6, <1>7, Drawings
<1> HIDE DEF root
<1>9. /\ doc \in DraftRow /\ doc.root = root /\ doc.cursor = n.doc.cursor /\ doc.dirty = n.doc.dirty
      /\ doc.base = n.doc.base /\ doc.seen = n.doc.seen
  BY <1>1, <1>8 DEF DraftRow
<1>10. sealed \subseteq SUBSET Marks
  BY <1>1
<1> HIDE DEF doc, sealed, m
<1>11. /\ m \in PageRow /\ m.doc = doc /\ m.hist = hist /\ m.versions = n.versions
       /\ m.pins = n.pins /\ m.staged = n.staged /\ m.alive = n.alive
  BY <1>2, <1>5, <1>9, <1>10 DEF PageRow
<1>12. Ink(m) = Ink(n)
  BY <1>6, <1>7, <1>9, <1>11, Drawings DEF Ink
<1>13. RowsFit(m)
  BY <1>3, <1>6, <1>7, <1>9, <1>11 DEF RowsFit
<1>14. Range(hist) \in SUBSET InkRoot
  BY <1>5, PenStateRange
<1>15. m.doc.root # NoRoot => m.doc.root \in Range(m.hist)
  BY <1>6, <1>7, <1>9, <1>11
<1> QED BY <1>9, <1>11, <1>12, <1>13, <1>14, <1>15 DEF m

LEMMA PackKeeps ==
  ASSUME DrawingInv, NEW d \in InkDevices, Pack(d)
  PROVE  DrawingInv'
<1> DEFINE n == inkPages[d]
           plan == pen[d].plan
           after == Packed(n, plan)
           skip == PackSkipped(n, plan)
           s2 == Collected(sheet[d], Range(after.hist), after, unsent[d])
           p2 == [pen[d] EXCEPT !.plan = {}]
<1>1. n \in PageRow /\ plan \in SUBSET SUBSET Marks
  BY NoteOf DEF PenState
<1>2. p2 \in PenState /\ p2.open = pen[d].open /\ p2.view = pen[d].view
  BY NoteOf DEF PenState
<1>3. /\ inkPages' = [inkPages EXCEPT ![d] = IF skip THEN n ELSE after]
      /\ pen' = [pen EXCEPT ![d] = p2]
      /\ UNCHANGED <<unsent, serverOps, pulled, wiped, inkOps, scope>>
  BY DEF Pack
<1>4. sheet' = [sheet EXCEPT ![d] = IF skip THEN sheet[d] ELSE s2]
  BY DEF Pack
<1>5. CASE skip
  <2>1. inkPages' = inkPages /\ sheet' = sheet
    BY <1>3, <1>4, <1>5, NoteOf
  <2> HIDE DEF p2
  <2> QED BY <1>2, <1>3, <2>1, PenOnlyKeeps
<1>6. CASE ~skip
  <2>1. n.alive
    BY <1>6 DEF PackSkipped
  <2>2. inkPages' = [inkPages EXCEPT ![d] = after] /\ sheet' = [sheet EXCEPT ![d] = s2]
    BY <1>3, <1>4, <1>6
  <2> HIDE DEF skip, p2
  <2>3. RowsFit(n) /\ NoteFits(n, AllInkOps, inkOps, wiped[d], Bases(d)) /\ ViewTrue(n, pen[d])
    BY NoteOf DEF NoteFits
  <2> HIDE DEF plan
  <2>4. /\ after \in PageRow /\ RowsFit(after) /\ Ink(after) = Ink(n)
        /\ after.alive = n.alive /\ after.versions = n.versions /\ after.staged = n.staged
        /\ after.pins = n.pins /\ after.doc.dirty = n.doc.dirty /\ after.doc.base = n.doc.base
        /\ after.doc.seen = n.doc.seen /\ Range(after.hist) \in SUBSET InkRoot
        /\ after.doc.root # NoRoot => after.doc.root \in Range(after.hist)
    BY <1>1, <2>3, PackedIs
  <2> HIDE DEF after
  <2>5. NoteFits(after, AllInkOps, inkOps, wiped[d], Bases(d))
    BY <2>3, <2>4 DEF NoteFits, RowsPosted, RowsNumbered, BaseShown
  <2>6. NeededBy(after, unsent[d]) \subseteq NeededBy(n, unsent[d]) \cup Range(after.hist)
    BY <2>4 DEF NeededBy
  <2>7. IntactIn(sheet[d], NeededBy(after, unsent[d]) \ Range(after.hist))
    BY <2>6, NoteOf DEF IntactIn
  <2>8. s2 \in Geometry /\ IntactIn(s2, NeededBy(after, unsent[d]))
    BY <2>4, <2>7, CollectedIs, NoteOf
  <2>9. ViewTrue(after, p2) /\ DeadAtRest(after, Bases(d))
    BY <1>2, <2>1, <2>3, <2>4 DEF ViewTrue, DeadAtRest
  <2>10. /\ pulled' \in [InkDevices -> Nat] /\ wiped' = [wiped EXCEPT ![d] = wiped[d]]
         /\ wiped[d] \in SUBSET Marks
    BY <1>3, NoteOf
  <2> HIDE DEF s2, n
  <2> QED BY <1>2, <1>3, <2>2, <2>4, <2>5, <2>8, <2>9, <2>10, OneNote
<1> QED BY <1>5, <1>6

----------------------------------------------------------------------------
(* Synchronisation and the end of an editor session. *)
LEMMA NextOpIs ==
  ASSUME DrawingInv, NEW d \in InkDevices, pulled[d] < Len(serverOps)
  PROVE  /\ NextOp(d) \in AllInkOps /\ NextOp(d) \in InkOp
         /\ NextOp(d).kind = "publish" => NextOp(d) \in PublishOp
         /\ NextOp(d).kind \in {"publish", "delete", "create"}
<1>1. serverOps \in Seq(InkOp) /\ pulled[d] \in Nat /\ DrawingTyped
  BY DEF DrawingInv, DrawingTyped
<1>2. pulled[d] + 1 \in 1 .. Len(serverOps)
  BY <1>1
<1>3. NextOp(d) \in Range(serverOps)
  BY <1>1, <1>2, QueueRange DEF NextOp
<1>4. NextOp(d) \in AllInkOps /\ NextOp(d) \in InkOp
  BY <1>1, <1>3, OpsTyped
<1> QED BY <1>4 DEF InkOp, PublishOp

LEMMA CloseEditorKeeps ==
  ASSUME DrawingInv, NEW d \in InkDevices, CloseEditor(d)
  PROVE  DrawingInv'
<1> DEFINE n == inkPages[d]
           doc == [n.doc EXCEPT !.editing = FALSE]
           idle == [n EXCEPT !.doc = doc]
           m == Adopted(idle)
           p2 == [pen[d] EXCEPT !.finish = "no"]
<1>1. n \in PageRow /\ n.doc \in DraftRow /\ inkPages \in [InkDevices -> PageRow]
  BY NoteOf DEF PageRow, DrawingInv, DrawingTyped
<1>2. p2 \in PenState /\ p2.open = pen[d].open /\ p2.view = pen[d].view
  BY NoteOf DEF PenState
<1>3. pen' = [pen EXCEPT ![d] = p2] /\ UNCHANGED <<sheet, unsent, serverOps, pulled, wiped, inkOps, scope>>
  BY DEF CloseEditor
<1> HIDE DEF p2
<1>4. CASE ~n.alive
  <2>1. inkPages' = inkPages
    BY <1>1, <1>4 DEF CloseEditor
  <2> QED BY <1>2, <1>3, <2>1, PenOnlyKeeps
<1>5. CASE n.alive
  <2>1. inkPages' = [inkPages EXCEPT ![d] = Closed(n)]
    BY <1>1, <1>5 DEF CloseEditor
  <2>2. inkPages' = [inkPages EXCEPT ![d] = m]
    BY <2>1 DEF Closed
  <2>3. /\ doc \in DraftRow /\ doc.root = n.doc.root /\ doc.cursor = n.doc.cursor /\ doc.seen = n.doc.seen
        /\ doc.dirty = n.doc.dirty /\ doc.base = n.doc.base
    BY <1>1 DEF DraftRow
  <2> HIDE DEF doc
  <2>4. /\ idle \in PageRow /\ idle.doc = doc /\ idle.alive = n.alive /\ idle.hist = n.hist
        /\ idle.versions = n.versions /\ idle.staged = n.staged /\ idle.pins = n.pins
    BY <1>1, <2>3, PageDoc
  <2> HIDE DEF idle
  <2>5. NoteFits(n, AllInkOps, inkOps, wiped[d], Bases(d)) /\ ViewTrue(n, pen[d])
    BY NoteOf
  <2>6. /\ NoteFits(idle, AllInkOps, inkOps, wiped[d], Bases(d)) /\ Ink(idle) = Ink(n)
    BY <1>1, <2>3, <2>4, <2>5, SameDrawing
  <2>7. NeededBy(idle, unsent[d]) \subseteq NeededBy(n, unsent[d])
    BY <2>3, <2>4 DEF NeededBy
  <2>8. /\ m \in PageRow /\ m.alive = n.alive
        /\ m = idle \/ ~m.doc.seen
    BY <2>4, AdoptedIs
  <2>9. /\ NoteFits(m, AllInkOps, inkOps, wiped[d], Bases(d))
        /\ NeededBy(m, unsent[d]) \subseteq NeededBy(idle, unsent[d])
    BY <2>4, <2>6, AdoptKeeps, NoteOf
  <2> HIDE DEF m
  <2>10. IntactIn(sheet[d], NeededBy(m, unsent[d]))
    BY <2>7, <2>9, NoteOf DEF IntactIn
  <2>11. ViewTrue(m, p2)
    BY <1>2, <2>3, <2>4, <2>5, <2>6, <2>8 DEF ViewTrue
  <2>12. DeadAtRest(m, Bases(d))
    BY <1>5, <2>8 DEF DeadAtRest
  <2>13. /\ pulled' \in [InkDevices -> Nat] /\ wiped' = [wiped EXCEPT ![d] = wiped[d]]
         /\ wiped[d] \in SUBSET Marks /\ sheet[d] \in Geometry /\ sheet' = [sheet EXCEPT ![d] = sheet[d]]
    BY <1>3, NoteOf
  <2> HIDE DEF n
  <2> QED BY <1>2, <1>3, <2>2, <2>8, <2>9, <2>10, <2>11, <2>12, <2>13, OneNote
<1> QED BY <1>4, <1>5

LEMMA FetchKeeps ==
  ASSUME DrawingInv, NEW d \in InkDevices, Fetch(d)
  PROVE  DrawingInv'
<1> DEFINE n == inkPages[d]
           root == NextOp(d).root
           staged == n.staged \cup {root}
           sealed == n.sealed \cup root.chunks
           m == [n EXCEPT !.staged = staged, !.sealed = sealed]
           s2 == Persisted(sheet[d], {root})
<1>1. n \in PageRow /\ n.staged \subseteq InkRoot /\ n.sealed \subseteq SUBSET Marks
  BY NoteOf DEF PageRow
<1>2. root \in InkRoot
  BY NextOpIs DEF Fetch, PublishOp
<1>3. /\ inkPages' = [inkPages EXCEPT ![d] = m] /\ sheet' = [sheet EXCEPT ![d] = s2]
      /\ UNCHANGED <<pen, unsent, serverOps, pulled, wiped, inkOps, scope>>
  BY DEF Fetch
<1>4. s2 \in Geometry /\ IntactIn(s2, NeededBy(n, unsent[d]) \cup {root})
  BY <1>2, PersistedIs, NoteOf
<1>5. staged \subseteq InkRoot /\ sealed \subseteq SUBSET Marks
  BY <1>1, <1>2, Drawings
<1> HIDE DEF root, sealed
<1>6. /\ m \in PageRow /\ m.doc = n.doc /\ m.alive = n.alive /\ m.hist = n.hist
      /\ m.versions = n.versions /\ m.staged = staged /\ m.pins = n.pins
  BY <1>1, <1>5 DEF PageRow
<1> HIDE DEF m
<1>7. /\ NoteFits(n, AllInkOps, inkOps, wiped[d], Bases(d)) /\ ViewTrue(n, pen[d])
      /\ DeadAtRest(n, Bases(d))
  BY NoteOf
<1>8. /\ NoteFits(m, AllInkOps, inkOps, wiped[d], Bases(d)) /\ Ink(m) = Ink(n)
      /\ HeadShown(n, Bases(d)) => HeadShown(m, Bases(d))
  BY <1>1, <1>6, <1>7, SameDrawing
<1>9. NeededBy(m, unsent[d]) \subseteq NeededBy(n, unsent[d]) \cup {root}
  BY <1>6 DEF NeededBy
<1>10. IntactIn(s2, NeededBy(m, unsent[d]))
  BY <1>4, <1>9 DEF IntactIn
<1>11. ViewTrue(m, pen[d]) /\ DeadAtRest(m, Bases(d))
  BY <1>6, <1>7, <1>8 DEF ViewTrue, DeadAtRest
<1>12. /\ pulled' \in [InkDevices -> Nat] /\ wiped' = [wiped EXCEPT ![d] = wiped[d]]
       /\ wiped[d] \in SUBSET Marks /\ pen[d] \in PenState /\ pen' = [pen EXCEPT ![d] = pen[d]]
  BY <1>3, NoteOf
<1> HIDE DEF s2, n
<1> QED BY <1>3, <1>4, <1>6, <1>8, <1>10, <1>11, <1>12, OneNote

LEMMA PushKeeps ==
  ASSUME DrawingInv, NEW d \in InkDevices, Push(d)
  PROVE  DrawingInv'
<1> DEFINE n == inkPages[d]
           op == Head(unsent[d])
           rest == Tail(unsent[d])
           s2 == IF op.kind = "publish" THEN Collected(sheet[d], {}, n, rest) ELSE sheet[d]
<1>1. /\ DrawingTyped /\ Ledger(AllInkOps, inkOps) /\ NoOpDrops /\ n \in PageRow
      /\ unsent[d] \in Seq(InkOp) /\ unsent[d] # <<>> /\ serverOps \in Seq(InkOp)
      /\ unsent \in [InkDevices -> Seq(InkOp)] /\ inkOps \in Nat
  BY DEF DrawingInv, DrawingTyped, Push
<1>2. /\ serverOps' = Append(serverOps, op) /\ unsent' = [unsent EXCEPT ![d] = rest]
      /\ sheet' = [sheet EXCEPT ![d] = s2]
      /\ UNCHANGED <<inkPages, pen, pulled, wiped, inkOps, scope>>
  BY DEF Push
<1>3. op \in InkOp /\ rest \in Seq(InkOp) /\ Range(unsent[d]) = {op} \cup Range(rest)
  BY <1>1, QueueTail
<1>4. serverOps' \in Seq(InkOp) /\ Range(serverOps') = Range(serverOps) \cup {op}
  BY <1>1, <1>2, <1>3, QueueAppend
<1>5. \A e \in InkDevices : unsent'[e] = IF e = d THEN rest ELSE unsent[e]
  BY <1>1, <1>2
<1> HIDE DEF op, rest
<1>6. AllInkOps' = AllInkOps
  <2>1. ASSUME NEW x PROVE x \in AllInkOps <=>
                x \in Range(serverOps) \/ \E e \in InkDevices : x \in Range(unsent[e])
    BY DEF AllInkOps
  <2>2. ASSUME NEW x PROVE x \in AllInkOps' <=>
                x \in Range(serverOps') \/ \E e \in InkDevices : x \in Range(unsent'[e])
    BY DEF AllInkOps
  <2>3. ASSUME NEW x \in AllInkOps PROVE x \in AllInkOps'
    BY <1>3, <1>4, <1>5, <2>1, <2>2
  <2>4. ASSUME NEW x \in AllInkOps' PROVE x \in AllInkOps
    BY <1>3, <1>4, <1>5, <2>1, <2>2
  <2> QED BY <2>3, <2>4
<1>7. \A e : \A x : Behind(e, x) => Behind(e, x)'
  <2>1. ASSUME NEW e PROVE unsent'[e] = unsent[e] \/ (e = d /\ unsent'[e] = rest)
    BY <1>1, <1>2
  <2>2. ASSUME NEW e PROVE Range(unsent[e]) \cup Range(serverOps) \subseteq Range(unsent'[e]) \cup Range(serverOps')
    BY <1>3, <1>4, <2>1
  <2> QED BY <2>2 DEF Behind
<1>8. \A e \in InkDevices : Bases(e)' \subseteq Bases(e)
  BY <1>6, <1>7 DEF Bases
<1>9. Ledger(AllInkOps, inkOps)'
  BY <1>1, <1>2, <1>6
<1>10. NoOpDrops'
  BY <1>1, <1>2, <1>6, <1>7 DEF NoOpDrops
<1>11. NeededBy(n, rest) \subseteq NeededBy(n, unsent[d])
  BY <1>3 DEF NeededBy, InkPublications
<1>12. s2 \in Geometry /\ IntactIn(s2, NeededBy(n, rest))
  <2>1. IntactIn(sheet[d], NeededBy(n, rest)) /\ sheet[d] \in Geometry /\ RowsFit(n)
    BY <1>11, NoteOf DEF IntactIn, NoteFits
  <2>2. IntactIn(sheet[d], NeededBy(n, rest) \ {})
    BY <2>1
  <2>3. CASE op.kind = "publish"
    BY <1>1, <2>1, <2>2, <2>3, CollectedIs
  <2>4. CASE op.kind # "publish"
    BY <2>1, <2>4
  <2> QED BY <2>3, <2>4
<1> HIDE DEF s2
<1>13. DrawingTyped'
  BY <1>1, <1>2, <1>3, <1>4, <1>12 DEF DrawingTyped
<1>14. \A e \in InkDevices \ {d} :
            /\ inkPages'[e] = inkPages[e] /\ sheet'[e] = sheet[e] /\ unsent'[e] = unsent[e]
            /\ pen'[e] = pen[e] /\ wiped'[e] = wiped[e]
  BY <1>1, <1>2 DEF DrawingTyped
<1>15. \A e \in InkDevices \ {d} : PageInv(e)'
  <2>1. inkOps' \in Nat /\ inkOps <= inkOps' /\ AllInkOps \subseteq AllInkOps'
    BY <1>1, <1>2, <1>6
  <2>2. \A e \in InkDevices : \A x \in Bases(e)' : x \in Bases(e) \/ x.id > inkOps
    BY <1>8
  <2> QED BY <1>14, <2>1, <2>2, OthersStay
<1>16. PageInv(d)'
  <2>1. /\ NoteFits(n, AllInkOps, inkOps, wiped[d], Bases(d)) /\ DeadAtRest(n, Bases(d))
        /\ ViewTrue(n, pen[d])
    BY NoteOf
  <2> DEFINE ops == AllInkOps
             xs == Bases(d)
             xs2 == Bases(d)'
             gone == wiped[d]
             last == inkOps
  <2>2. /\ \A x \in xs2 : x \in xs \/ x.id > last
        /\ ops \subseteq ops /\ gone \subseteq gone /\ last <= last /\ last \in Nat
    BY <1>1, <1>8
  <2>3. /\ NoteFits(n, ops, last, gone, xs) /\ DeadAtRest(n, xs) /\ Ledger(ops, last)
        /\ n \in PageRow
    BY <1>1, <2>1
  <2> HIDE DEF ops, xs, xs2, gone, last, n
  <2>4. NoteFits(n, ops, last, gone, xs2) /\ DeadAtRest(n, xs2)
    BY <2>2, <2>3, NoteStays
  <2>5. inkPages'[d] = n /\ inkOps' = inkOps /\ wiped'[d] = wiped[d] /\ pen'[d] = pen[d]
        /\ sheet'[d] = s2 /\ unsent'[d] = rest
    BY <1>1, <1>2 DEF DrawingTyped, n
  <2> QED BY <1>6, <1>12, <2>1, <2>4, <2>5 DEF PageInv, ops, xs2, gone, last
<1> QED BY <1>9, <1>10, <1>13, <1>15, <1>16 DEF DrawingInv

LEMMA PurgedIs ==
  ASSUME NEW n \in PageRow, NEW ops, NEW last \in Nat, NEW gone, NEW xs,
         Ledger(ops, last), xs \subseteq ops, n.pins.heads \subseteq 0 .. last,
         n.pins.root # NoRoot =>
           n.pins.cursor \in DOMAIN n.pins.hist /\ n.pins.hist[n.pins.cursor] = n.pins.root,
         ~n.pins.kept => n.pins = NoPins
  PROVE  LET m == Purged(n) IN
         /\ m \in PageRow /\ ~m.alive /\ m.doc = EmptyDoc /\ m.pins = n.pins /\ m.versions = {}
         /\ NoteFits(m, ops, last, gone, xs) /\ DeadAtRest(m, xs)
         /\ \A q : NeededBy(m, q) \subseteq n.staged \cup InkPublications(q)
                                              \cup Range(n.pins.hist) \cup Range(n.pins.variants)
<1> DEFINE m == Purged(n)
           hist == [i \in {} |-> Blank]
           staged == n.staged \ {v.root : v \in n.versions}
<1>1. m = [n EXCEPT !.alive = FALSE, !.versions = {}, !.hist = hist, !.staged = staged,
                    !.doc = EmptyDoc]
  BY DEF Purged
<1>2. DOMAIN hist = {} /\ hist \in [{} -> InkRoot] /\ {} \in SUBSET Nat
  OBVIOUS
<1>3. hist \in PenStates /\ Range(hist) = {}
  <2> HIDE DEF hist
  <2>1. hist \in PenStates
    BY <1>2, PenStatesAre
  <2>2. Range(hist) = {}
    BY <1>2 DEF Range
  <2> QED BY <2>1, <2>2
<1>4. staged \subseteq InkRoot /\ staged \subseteq n.staged
  BY DEF PageRow
<1> HIDE DEF hist, staged, m
<1>5. /\ m \in PageRow /\ ~m.alive /\ m.doc = EmptyDoc /\ m.pins = n.pins /\ m.versions = {}
      /\ m.staged = staged /\ m.hist = hist
  BY <1>1, <1>3, <1>4, EmptyDocRow DEF PageRow
<1>6. RowsFit(m) /\ RowsPosted(m, ops) /\ RowsNumbered(m, last)
  BY <1>5, EmptyDocRow, FS_EmptySet DEF RowsFit, RowsPosted, RowsNumbered
<1>7. BaseShown(m, gone, xs)
  <2>1. \A x \in xs : x.id # 0
    BY DEF Ledger
  <2> QED BY <1>5, <2>1, EmptyDocRow DEF BaseShown
<1>8. HeadShown(m, xs)
  BY <1>5 DEF HeadShown, Heads
<1>9. DeadAtRest(m, xs)
  BY <1>5, <1>8, EmptyDocRow DEF DeadAtRest
<1>10. \A q : NeededBy(m, q) \subseteq n.staged \cup InkPublications(q)
                                         \cup Range(n.pins.hist) \cup Range(n.pins.variants)
  BY <1>3, <1>4, <1>5, EmptyDocRow DEF NeededBy
<1> QED BY <1>5, <1>6, <1>7, <1>9, <1>10 DEF NoteFits, m

LEMMA ApplyNextKeeps ==
  ASSUME DrawingInv, NEW d \in InkDevices, ApplyNext(d)
  PROVE  DrawingInv'
<1> DEFINE n == inkPages[d]
           op == NextOp(d)
           after == CASE op.by = d -> n
                   [] op.by # d /\ op.kind = "publish" -> WithVersion(n, op)
                   [] op.by # d /\ op.kind = "delete" -> Purged(n)
                   [] op.by # d /\ op.kind = "create" -> [n EXCEPT !.alive = TRUE]
           s2 == IF op.by # d /\ op.kind = "delete" THEN Collected(sheet[d], {}, after, unsent[d])
                 ELSE sheet[d]
           ops == AllInkOps
           xs == Bases(d)
           q == unsent[d]
           gone == wiped[d]
           last == inkOps
<1>1. /\ inkPages' = [inkPages EXCEPT ![d] = after]
      /\ pulled' = [pulled EXCEPT ![d] = @ + 1]
      /\ UNCHANGED <<pen, unsent, serverOps, wiped, inkOps, scope>>
      /\ pulled[d] < Len(serverOps)
  BY DEF ApplyNext
<1>2. sheet' = [sheet EXCEPT ![d] = s2]
  BY DEF ApplyNext
<1>3. op \in ops /\ op \in InkOp /\ (op.kind = "publish" => op \in PublishOp)
      /\ op.kind \in {"publish", "delete", "create"}
  BY <1>1, NextOpIs
<1>4. /\ pulled' \in [InkDevices -> Nat] /\ wiped' = [wiped EXCEPT ![d] = gone] /\ gone \in SUBSET Marks
      /\ pen[d] \in PenState /\ pen' = [pen EXCEPT ![d] = pen[d]]
  BY <1>1, NoteOf
<1>5. /\ n \in PageRow /\ sheet[d] \in Geometry /\ last \in Nat /\ Ledger(ops, last) /\ xs \subseteq ops
      /\ NoteFits(n, ops, last, gone, xs) /\ IntactIn(sheet[d], NeededBy(n, q))
      /\ ViewTrue(n, pen[d]) /\ DeadAtRest(n, xs)
  BY NoteOf
<1>6. /\ op.by = d => after = n
      /\ op.by # d /\ op.kind = "publish" => after = WithVersion(n, op)
      /\ op.by # d /\ op.kind = "delete" => after = Purged(n)
      /\ op.by # d /\ op.kind = "create" => after = [n EXCEPT !.alive = TRUE]
  OBVIOUS
<1>7. /\ op.by # d /\ op.kind = "delete" => s2 = Collected(sheet[d], {}, after, q)
      /\ ~(op.by # d /\ op.kind = "delete") => s2 = sheet[d]
  OBVIOUS
<1> HIDE DEF n, op, after, s2, ops, xs, q, gone, last
<1>8. /\ after \in PageRow /\ s2 \in Geometry /\ NoteFits(after, ops, last, gone, xs)
      /\ IntactIn(s2, NeededBy(after, q)) /\ ViewTrue(after, pen[d]) /\ DeadAtRest(after, xs)
  <2>1. CASE op.by = d
    BY <1>5, <1>6, <1>7, <2>1
  <2>2. CASE op.by # d /\ op.kind = "publish"
    <3>1. after = WithVersion(n, op) /\ s2 = sheet[d] /\ op \in PublishOp
      BY <1>3, <1>6, <1>7, <2>2
    <3>2. /\ after \in PageRow /\ after.alive = n.alive
          /\ after.doc.dirty = n.doc.dirty /\ after.doc.editing = n.doc.editing
          /\ NoteFits(after, ops, last, gone, xs) /\ NeededBy(after, q) \subseteq NeededBy(n, q)
          /\ after.doc = n.doc \/ ~after.doc.seen
          /\ after = n \/ (~n.doc.dirty /\ ~n.doc.editing => HeadShown(after, xs))
      <4>1. /\ n \in PageRow /\ last \in Nat /\ op \in PublishOp /\ op \in ops
            /\ Ledger(ops, last) /\ xs \subseteq ops /\ NoteFits(n, ops, last, gone, xs)
        BY <1>3, <1>5, <3>1
      <4> QED BY <4>1, <3>1, WithVersionIs, WithVersionKeeps
    <3>3. IntactIn(s2, NeededBy(after, q))
      BY <1>5, <3>1, <3>2 DEF IntactIn
    <3>4. ViewTrue(after, pen[d])
      BY <1>5, <3>2 DEF ViewTrue, Ink
    <3>5. DeadAtRest(after, xs)
      BY <1>5, <3>2 DEF DeadAtRest
    <3> QED BY <1>5, <3>1, <3>2, <3>3, <3>4, <3>5
  <2>3. CASE op.by # d /\ op.kind = "delete"
    <3>1. after = Purged(n) /\ s2 = Collected(sheet[d], {}, after, q)
      BY <1>6, <1>7, <2>3
    <3>2. /\ n.pins.heads \subseteq 0 .. last
          /\ ~n.pins.kept => n.pins = NoPins
          /\ n.pins.root # NoRoot =>
               n.pins.cursor \in DOMAIN n.pins.hist /\ n.pins.hist[n.pins.cursor] = n.pins.root
      BY <1>5 DEF NoteFits, RowsFit, RowsNumbered
    <3>3. /\ after \in PageRow /\ after.doc = EmptyDoc
          /\ NoteFits(after, ops, last, gone, xs) /\ DeadAtRest(after, xs)
          /\ NeededBy(after, q) \subseteq n.staged \cup InkPublications(q)
                                       \cup Range(n.pins.hist) \cup Range(n.pins.variants)
      <4>1. n \in PageRow /\ last \in Nat /\ Ledger(ops, last) /\ xs \subseteq ops
        BY <1>5
      <4> QED BY <4>1, <3>1, <3>2, PurgedIs
    <3>4. NeededBy(after, q) \subseteq NeededBy(n, q)
      BY <3>3 DEF NeededBy
    <3>5. IntactIn(sheet[d], NeededBy(after, q) \ {}) /\ RowsFit(after)
      BY <1>5, <3>3, <3>4 DEF IntactIn, NoteFits
    <3>6. s2 \in Geometry /\ IntactIn(s2, NeededBy(after, q))
      BY <1>5, <3>1, <3>3, <3>5, CollectedIs
    <3>7. ViewTrue(after, pen[d])
      BY <3>3, EmptyDocRow DEF ViewTrue
    <3> QED BY <3>3, <3>6, <3>7
  <2>4. CASE op.by # d /\ op.kind = "create"
    <3>1. after = [n EXCEPT !.alive = TRUE] /\ s2 = sheet[d]
      BY <1>6, <1>7, <2>4
    <3>2. /\ after \in PageRow /\ after.alive /\ after.doc = n.doc /\ after.hist = n.hist
          /\ after.versions = n.versions /\ after.staged = n.staged /\ after.pins = n.pins
      BY <1>5, <3>1 DEF PageRow
    <3>3. NoteFits(after, ops, last, gone, xs) /\ Ink(after) = Ink(n)
      BY <1>5, <3>2, SameDrawing
    <3>4. NeededBy(after, q) = NeededBy(n, q)
      BY <3>2 DEF NeededBy
    <3>5. ViewTrue(after, pen[d]) /\ DeadAtRest(after, xs)
      BY <1>5, <3>2, <3>3 DEF ViewTrue, DeadAtRest
    <3> QED BY <1>5, <3>1, <3>2, <3>3, <3>4, <3>5
  <2> QED BY <1>3, <2>1, <2>2, <2>3, <2>4
<1> QED BY <1>1, <1>2, <1>4, <1>8, OneNote DEF ops, xs, q, gone, last

----------------------------------------------------------------------------
(* Publications. *)
LEMMA OnePost ==
  ASSUME DrawingInv, NEW d \in InkDevices, NEW n2 \in PageRow, NEW s2 \in Geometry, NEW p2 \in PenState,
         NEW q2 \in Seq(InkOp), NEW more \in SUBSET InkOp, NEW last2 \in Nat, inkOps <= last2,
         inkPages' = [inkPages EXCEPT ![d] = n2], sheet' = [sheet EXCEPT ![d] = s2],
         pen' = [pen EXCEPT ![d] = p2], unsent' = [unsent EXCEPT ![d] = q2], inkOps' = last2,
         UNCHANGED <<serverOps, pulled, wiped, scope>>,
         AllInkOps' = AllInkOps \cup more, Ledger(AllInkOps \cup more, last2), NoOpDrops',
         \A x \in more : x.id \in inkOps + 1 .. last2,
         \A e \in InkDevices : \A x \in Bases(e)' : x \in Bases(e) \/ x \in more,
         NoteFits(n2, AllInkOps \cup more, last2, wiped[d], Bases(d)'),
         IntactIn(s2, NeededBy(n2, q2)), ViewTrue(n2, p2), DeadAtRest(n2, Bases(d)')
  PROVE  DrawingInv'
<1>1. DrawingTyped'
  BY DEF DrawingInv, DrawingTyped
<1>2. \A e \in InkDevices \ {d} :
            /\ inkPages'[e] = inkPages[e] /\ sheet'[e] = sheet[e] /\ unsent'[e] = unsent[e]
            /\ pen'[e] = pen[e] /\ wiped'[e] = wiped[e]
  BY DEF DrawingInv, DrawingTyped
<1>3. inkPages'[d] = n2 /\ sheet'[d] = s2 /\ unsent'[d] = q2 /\ pen'[d] = p2 /\ wiped'[d] = wiped[d]
  BY DEF DrawingInv, DrawingTyped
<1>4. PageInv(d)'
  BY <1>3 DEF PageInv
<1>5. \A e \in InkDevices \ {d} : PageInv(e)'
  <2>1. inkOps' \in Nat /\ inkOps <= inkOps' /\ AllInkOps \subseteq AllInkOps' /\ inkOps \in Nat
    BY DEF DrawingInv, DrawingTyped
  <2>2. \A x \in more : x.id > inkOps
    BY <2>1
  <2>3. \A e \in InkDevices : \A x \in Bases(e)' : x \in Bases(e) \/ x.id > inkOps
    BY <2>2
  <2> QED BY <1>2, <2>1, <2>3, OthersStay
<1>6. Ledger(AllInkOps, inkOps)'
  OBVIOUS
<1> QED BY <1>1, <1>4, <1>5, <1>6 DEF DrawingInv

(* A single publication in the outbox of d. *)
LEMMA PostOne ==
  ASSUME DrawingInv, NEW d \in InkDevices, NEW op \in InkOp, op.id = inkOps + 1,
         unsent' = [unsent EXCEPT ![d] = Append(unsent[d], op)], UNCHANGED <<serverOps, wiped>>,
         op.kind = "publish" =>
            /\ op.parents \subseteq 0 .. inkOps
            /\ op.draft => /\ op.by = d
                           /\ \A w \in Bases(d) : w.id \in op.parents =>
                                w.root.ink \ op.root.ink \subseteq wiped[d]
  PROVE  /\ Append(unsent[d], op) \in Seq(InkOp)
         /\ Range(Append(unsent[d], op)) = Range(unsent[d]) \cup {op}
         /\ inkOps + 1 \in Nat /\ inkOps <= inkOps + 1
         /\ \A x \in {op} : x.id \in inkOps + 1 .. inkOps + 1
         /\ AllInkOps' = AllInkOps \cup {op}
         /\ Ledger(AllInkOps \cup {op}, inkOps + 1)
         /\ \A e \in InkDevices : \A x \in Bases(e)' : x \in Bases(e) \/ x \in {op}
         /\ \A e \in InkDevices : Bases(e)' \subseteq AllInkOps \cup {op}
         /\ NoOpDrops'
         /\ NoteFits(inkPages[d], AllInkOps \cup {op}, inkOps + 1, wiped[d], Bases(d)')
         /\ DeadAtRest(inkPages[d], Bases(d)')
<1> DEFINE q2 == Append(unsent[d], op)
           more == {op}
           last2 == inkOps + 1
<1>1. inkOps \in Nat /\ unsent[d] \in Seq(InkOp)
  BY NoteOf
<1>2. q2 \in Seq(InkOp) /\ Range(q2) = Range(unsent[d]) \cup more
  BY <1>1, QueueAppend
<1>3. last2 \in Nat /\ inkOps <= last2 /\ \A x \in more : x.id \in inkOps + 1 .. last2
  BY <1>1
<1>4. /\ more \in SUBSET InkOp /\ unsent' = [unsent EXCEPT ![d] = q2]
      /\ \A x \in more : \A y \in more : x.id = y.id => x = y
      /\ \A x \in more : x.kind = "publish" =>
            /\ x.parents \subseteq 0 .. inkOps
            /\ x.draft => /\ x.by = d
                          /\ \A w \in Bases(d) : w.id \in x.parents =>
                               w.root.ink \ x.root.ink \subseteq wiped[d]
  OBVIOUS
<1> HIDE DEF q2, more, last2
<1>5. /\ AllInkOps' = AllInkOps \cup more
      /\ Ledger(AllInkOps \cup more, last2)
      /\ \A e \in InkDevices : \A x \in Bases(e)' : x \in Bases(e) \/ x \in more
      /\ \A e \in InkDevices : Bases(e)' \subseteq AllInkOps \cup more
      /\ NoOpDrops'
  BY <1>2, <1>3, <1>4, Posted
<1>6. NoteFits(inkPages[d], AllInkOps \cup more, last2, wiped[d], Bases(d)')
      /\ DeadAtRest(inkPages[d], Bases(d)')
  <2> DEFINE n == inkPages[d]
             ops == AllInkOps
             ops2 == AllInkOps \cup more
             last == inkOps
             gone == wiped[d]
             xs == Bases(d)
             xs2 == Bases(d)'
  <2>1. /\ n \in PageRow /\ last \in Nat /\ Ledger(ops, last) /\ NoteFits(n, ops, last, gone, xs)
        /\ DeadAtRest(n, xs)
    BY NoteOf
  <2>2. /\ ops \subseteq ops2 /\ last <= last2 /\ gone \subseteq gone /\ last2 \in Nat
        /\ \A x \in xs2 : x \in xs \/ x.id > last
    BY <1>1, <1>3, <1>5
  <2> HIDE DEF n, ops, ops2, last, gone, xs, xs2
  <2>3. NoteFits(n, ops2, last2, gone, xs2) /\ DeadAtRest(n, xs2)
    BY <2>1, <2>2, NoteStays
  <2> QED BY <2>3 DEF n, ops2, gone, xs2
<1> QED BY <1>2, <1>3, <1>5, <1>6 DEF q2, more, last2

LEMMA VersionNumbers ==
  ASSUME NEW n \in PageRow, NEW ops, NEW last \in Nat, Ledger(ops, last), RowsPosted(n, ops)
  PROVE  \A v \in n.versions : v \in VersionRow /\ v.id \in 1 .. last
BY OpOfIs DEF PageRow, RowsPosted, Ledger

LEMMA ResolveHeadsKeeps ==
  ASSUME DrawingInv, NEW d \in InkDevices, NEW keep \in inkPages[d].versions, ResolveHeads(d, keep)
  PROVE  DrawingInv' /\ HeadShown(inkPages'[d], Bases(d)')
<1> DEFINE n == inkPages[d]
           id == inkOps + 1
           parents == {v.id : v \in Heads(n)}
           op == Publication(d, keep.root, parents, id, FALSE)
           doc == [n.doc EXCEPT !.editing = FALSE]
           idle == [n EXCEPT !.doc = doc]
           m == WithVersion(idle, op)
           q2 == Append(unsent[d], op)
           ops2 == AllInkOps \cup {op}
           xs2 == Bases(d)'
           gone == wiped[d]
<1>1. /\ n.alive /\ ~n.doc.dirty /\ keep \in Heads(n) /\ keep.have
      /\ inkPages' = [inkPages EXCEPT ![d] = m] /\ unsent' = [unsent EXCEPT ![d] = q2]
      /\ inkOps' = id /\ UNCHANGED <<sheet, pen, serverOps, pulled, wiped, scope>>
  BY DEF ResolveHeads
<1>2. /\ n \in PageRow /\ n.doc \in DraftRow /\ n.versions \subseteq VersionRow /\ inkOps \in Nat
      /\ Ledger(AllInkOps, inkOps) /\ NoteFits(n, AllInkOps, inkOps, wiped[d], Bases(d))
      /\ ViewTrue(n, pen[d]) /\ RowsPosted(n, AllInkOps)
  BY NoteOf DEF PageRow, NoteFits
<1>3. keep.root \in InkRoot /\ keep.root \in NeededBy(n, unsent[d])
  BY <1>1, <1>2 DEF VersionRow, NeededBy
<1>4. \A v \in n.versions : v.id \in 1 .. inkOps
  <2> DEFINE last == inkOps
             ops == AllInkOps
  <2>1. n \in PageRow /\ last \in Nat /\ Ledger(ops, last) /\ RowsPosted(n, ops)
    BY <1>2
  <2> HIDE DEF last, ops, n
  <2>2. \A v \in n.versions : v.id \in 1 .. last
    BY <2>1, VersionNumbers
  <2> QED BY <2>2 DEF last
<1>5. parents \subseteq 0 .. inkOps /\ parents \in SUBSET Nat
  BY <1>2, <1>4 DEF Heads
<1>6. /\ op \in PublishOp /\ op \in InkOp /\ op.kind = "publish" /\ op.id = id /\ op.root = keep.root
      /\ op.parents = parents /\ op.by = d /\ ~op.draft
  <2>1. id \in Nat /\ keep.root \in InkRoot /\ parents \in SUBSET Nat /\ FALSE \in BOOLEAN
    BY <1>2, <1>3, <1>5
  <2> HIDE DEF id, parents
  <2> QED BY <2>1, NoteOf DEF Publication, PublishOp, InkOp
<1> HIDE DEF op, parents
<1>7. /\ q2 \in Seq(InkOp) /\ Range(q2) = Range(unsent[d]) \cup {op} /\ id \in Nat /\ inkOps <= id
      /\ \A x \in {op} : x.id \in inkOps + 1 .. id
      /\ AllInkOps' = ops2 /\ Ledger(ops2, id)
      /\ \A e \in InkDevices : \A x \in Bases(e)' : x \in Bases(e) \/ x \in {op}
      /\ xs2 \subseteq ops2 /\ NoOpDrops' /\ NoteFits(n, ops2, id, gone, xs2)
  BY <1>1, <1>5, <1>6, PostOne
<1>8. /\ doc \in DraftRow /\ doc.root = n.doc.root /\ doc.cursor = n.doc.cursor /\ doc.seen = n.doc.seen
      /\ doc.dirty = n.doc.dirty /\ doc.base = n.doc.base /\ ~doc.editing
  BY <1>2 DEF DraftRow
<1> HIDE DEF doc
<1>9. /\ idle \in PageRow /\ idle.doc = doc /\ idle.alive = n.alive /\ idle.hist = n.hist
      /\ idle.versions = n.versions /\ idle.staged = n.staged /\ idle.pins = n.pins
  BY <1>2, <1>8, PageDoc
<1> HIDE DEF idle, ops2, xs2, gone, id, q2
<1>10. NoteFits(idle, ops2, id, gone, xs2) /\ Ink(idle) = Ink(n)
  BY <1>2, <1>7, <1>8, <1>9, SameDrawing
<1>11. /\ m \in PageRow /\ m.alive = n.alive /\ NoteFits(m, ops2, id, gone, xs2)
       /\ NeededBy(m, q2) \subseteq NeededBy(idle, q2) /\ (m.doc = doc \/ ~m.doc.seen)
       /\ m = idle \/ HeadShown(m, xs2)
       /\ \E v \in m.versions : v.id = op.id
  <2>1. /\ op \in ops2 /\ op \in PublishOp /\ idle \in PageRow /\ id \in Nat /\ Ledger(ops2, id)
        /\ xs2 \subseteq ops2 /\ NoteFits(idle, ops2, id, gone, xs2)
    BY <1>6, <1>7, <1>9, <1>10 DEF ops2
  <2>2. /\ m \in PageRow /\ m.alive = idle.alive /\ NoteFits(m, ops2, id, gone, xs2)
        /\ NeededBy(m, q2) \subseteq NeededBy(idle, q2) /\ (m.doc = idle.doc \/ ~m.doc.seen)
    BY <2>1, WithVersionIs, WithVersionKeeps
  <2>3. m = idle \/ (~idle.doc.dirty /\ ~idle.doc.editing => HeadShown(m, xs2))
    BY <2>1, WithVersionKeeps
  <2>4. \E v \in m.versions : v.id = op.id
    BY <2>1, VersionAdded
  <2> QED BY <1>1, <1>8, <1>9, <2>2, <2>3, <2>4
<1> HIDE DEF m
<1>12. InkPublications(q2) \subseteq InkPublications(unsent[d]) \cup {keep.root}
  BY <1>6, <1>7 DEF InkPublications
<1>13. NeededBy(m, q2) \subseteq NeededBy(n, unsent[d])
  BY <1>3, <1>8, <1>9, <1>11, <1>12 DEF NeededBy
<1>14. IntactIn(sheet[d], NeededBy(m, q2))
  BY <1>13, NoteOf DEF IntactIn
<1>15. ViewTrue(m, pen[d])
  BY <1>2, <1>8, <1>9, <1>10, <1>11 DEF ViewTrue, Ink
<1>16. DeadAtRest(m, xs2)
  BY <1>1, <1>11 DEF DeadAtRest
<1>17. /\ sheet[d] \in Geometry /\ pen[d] \in PenState
       /\ sheet' = [sheet EXCEPT ![d] = sheet[d]] /\ pen' = [pen EXCEPT ![d] = pen[d]]
  BY <1>1, NoteOf
<1>18. HeadShown(m, xs2)
  BY <1>4, <1>6, <1>9, <1>11, <1>2 DEF id
<1>19. inkPages'[d] = m
  BY <1>1 DEF DrawingInv, DrawingTyped
<1> HIDE DEF n
<1>20. DrawingInv'
  BY <1>1, <1>6, <1>7, <1>11, <1>14, <1>15, <1>16, <1>17, OnePost, ZenonT(60) DEF ops2, xs2, gone, id
<1> QED BY <1>18, <1>19, <1>20 DEF xs2

LEMMA LinkedIs ==
  ASSUME NEW m \in PageRow, NEW old \in SUBSET VersionRow, NEW row \in VersionRow, NEW id \in Nat,
         row.id = id, \A v \in old : v.id # id, m.versions = old \cup {row}
  PROVE  /\ Linked(m, id) \in PageRow
         /\ Linked(m, id).versions = old \cup {LinkedRow(row)}
         /\ Linked(m, id).doc = m.doc /\ Linked(m, id).hist = m.hist
         /\ Linked(m, id).pins = m.pins /\ Linked(m, id).staged = m.staged
         /\ Linked(m, id).alive = m.alive /\ Linked(m, id).sealed = m.sealed
<1> DEFINE Link(v) == IF v.id = id THEN [v EXCEPT !.have = TRUE] ELSE v
           versions == {Link(v) : v \in m.versions}
<1>1. Linked(m, id) = [m EXCEPT !.versions = versions]
  BY DEF Linked
<1>2. Link(row) = LinkedRow(row)
  BY DEF LinkedRow
<1>3. \A v \in old : Link(v) = v
  OBVIOUS
<1> HIDE DEF Link
<1>4. versions = old \cup {LinkedRow(row)}
  BY <1>2, <1>3
<1>5. versions \subseteq VersionRow
  BY <1>4, LinkedRowIs
<1> HIDE DEF versions
<1> QED BY <1>1, <1>4, <1>5 DEF PageRow

LEMMA PublishInkKeeps ==
  ASSUME DrawingInv, NEW d \in InkDevices, PublishInk(d)
  PROVE  DrawingInv'
<1> DEFINE n == inkPages[d]
           id == inkOps + 1
           same == \E v \in n.versions : v.id = n.doc.base /\ v.root = n.doc.root
           parents == {n.doc.base} \ {0}
           op == Publication(d, n.doc.root, parents, id, TRUE)
           m == WithVersion(n, op)
           linked == Linked(m, id)
           p2 == [pen[d] EXCEPT !.finish = IF n.alive THEN "published" ELSE "no"]
           q2 == Append(unsent[d], op)
           ops == AllInkOps
           ops2 == AllInkOps \cup {op}
           xs == Bases(d)
           xs2 == Bases(d)'
           gone == wiped[d]
<1>1. /\ n \in PageRow /\ n.doc \in DraftRow /\ n.versions \subseteq VersionRow /\ inkOps \in Nat
      /\ n.sealed \subseteq SUBSET Marks
      /\ Ledger(AllInkOps, inkOps) /\ NoteFits(n, AllInkOps, inkOps, gone, xs) /\ xs \subseteq AllInkOps
      /\ ViewTrue(n, pen[d]) /\ RowsPosted(n, AllInkOps) /\ RowsFit(n) /\ n.doc.base \in 0 .. inkOps
      /\ BaseShown(n, gone, xs) /\ n.doc.base \in Nat
  BY NoteOf DEF PageRow, DraftRow, NoteFits, RowsNumbered
<1>2. p2 \in PenState /\ p2.open = pen[d].open /\ p2.view = pen[d].view
  BY NoteOf, ZenonT(60) DEF PenState
<1>3. pen' = [pen EXCEPT ![d] = p2] /\ UNCHANGED <<sheet, serverOps, pulled, wiped, scope>>
  BY DEF PublishInk
<1>4. /\ sheet[d] \in Geometry /\ sheet' = [sheet EXCEPT ![d] = sheet[d]]
      /\ pulled' \in [InkDevices -> Nat] /\ wiped' = [wiped EXCEPT ![d] = wiped[d]]
      /\ wiped[d] \in SUBSET Marks /\ IntactIn(sheet[d], NeededBy(n, unsent[d]))
  BY <1>3, NoteOf
<1>5. \/ ~n.alive /\ UNCHANGED <<inkPages, unsent, inkOps>>
      \/ /\ n.alive /\ (~n.doc.dirty \/ same)
         /\ inkPages' = [inkPages EXCEPT ![d] = [n EXCEPT !.doc.dirty = FALSE, !.doc.requested = FALSE]]
         /\ UNCHANGED <<unsent, inkOps>>
      \/ /\ n.alive /\ n.doc.dirty /\ ~same
         /\ inkPages' = [inkPages EXCEPT ![d] =
               [linked EXCEPT !.doc = [@ EXCEPT !.dirty = FALSE, !.requested = FALSE, !.base = id],
                              !.sealed = @ \cup n.doc.root.chunks]]
         /\ unsent' = [unsent EXCEPT ![d] = q2]
         /\ inkOps' = id
  BY DEF PublishInk
<1> HIDE DEF p2
<1>6. CASE ~n.alive /\ UNCHANGED <<inkPages, unsent, inkOps>>
  BY <1>2, <1>3, <1>6, PenOnlyKeeps
<1>7. ASSUME n.alive, ~n.doc.dirty \/ same,
             inkPages' = [inkPages EXCEPT ![d] = [n EXCEPT !.doc.dirty = FALSE, !.doc.requested = FALSE]],
             UNCHANGED <<unsent, inkOps>>
      PROVE  DrawingInv'
  <2> DEFINE doc == [n.doc EXCEPT !.dirty = FALSE, !.requested = FALSE]
             clean == [n EXCEPT !.doc = doc]
  <2>1. inkPages' = [inkPages EXCEPT ![d] = clean]
    BY <1>7
  <2>2. /\ doc \in DraftRow /\ doc.root = n.doc.root /\ doc.cursor = n.doc.cursor /\ doc.seen = n.doc.seen
        /\ ~doc.dirty /\ doc.base = n.doc.base
    BY <1>1 DEF DraftRow
  <2> HIDE DEF doc
  <2>3. /\ clean \in PageRow /\ clean.doc = doc /\ clean.alive = n.alive /\ clean.hist = n.hist
        /\ clean.versions = n.versions /\ clean.staged = n.staged /\ clean.pins = n.pins
    BY <1>1, <2>2, PageDoc
  <2> HIDE DEF clean
  <2>4. Ink(clean) = Ink(n)
    BY <2>2, <2>3 DEF Ink
  <2>5. ASSUME NEW x \in xs, x.id = clean.doc.base
        PROVE  x.root.ink = Ink(clean)
    <3>1. CASE ~n.doc.dirty
      BY <1>1, <2>2, <2>3, <2>4, <2>5, <3>1 DEF BaseShown
    <3>2. CASE same
      <4>1. PICK v \in n.versions : v.id = n.doc.base /\ v.root = n.doc.root
        BY <3>2
      <4>2. OpOf(v) \in AllInkOps /\ OpOf(v).id = v.id /\ OpOf(v).root = v.root /\ v.root \in InkRoot
        BY <1>1, OpOfIs DEF RowsPosted, VersionRow
      <4>3. x = OpOf(v)
        BY <1>1, <2>2, <2>3, <2>5, <4>1, <4>2 DEF Ledger
      <4>4. Ink(n) = v.root.ink
        BY <1>1, <4>1, <4>2, InkIs, Drawings
      <4> QED BY <2>4, <4>2, <4>3, <4>4
    <3> QED BY <1>7, <3>1, <3>2
  <2>6. NoteFits(clean, AllInkOps, inkOps, gone, xs)
    BY <1>1, <2>2, <2>3, <2>5 DEF NoteFits, RowsFit, RowsPosted, RowsNumbered, BaseShown
  <2>7. NeededBy(clean, unsent[d]) \subseteq NeededBy(n, unsent[d])
    BY <2>2, <2>3 DEF NeededBy
  <2>8. IntactIn(sheet[d], NeededBy(clean, unsent[d]))
    BY <1>4, <2>7 DEF IntactIn
  <2>9. ViewTrue(clean, p2) /\ DeadAtRest(clean, xs)
    BY <1>1, <1>2, <1>7, <2>2, <2>3, <2>4 DEF ViewTrue, DeadAtRest
  <2>10. UNCHANGED <<unsent, serverOps, inkOps, scope>>
    BY <1>3, <1>7
  <2> HIDE DEF n
  <2> QED BY <1>2, <1>3, <1>4, <2>1, <2>3, <2>6, <2>8, <2>9, <2>10, OneNote
<1>8. ASSUME n.alive, n.doc.dirty, ~same,
             inkPages' = [inkPages EXCEPT ![d] =
               [linked EXCEPT !.doc = [@ EXCEPT !.dirty = FALSE, !.requested = FALSE, !.base = id],
                              !.sealed = @ \cup n.doc.root.chunks]],
             unsent' = [unsent EXCEPT ![d] = q2], inkOps' = id
      PROVE  DrawingInv'
  <2> DEFINE row == LinkedRow(NewVersion(n, op))
             doc == [n.doc EXCEPT !.dirty = FALSE, !.requested = FALSE, !.base = id]
             sealed == linked.sealed \cup n.doc.root.chunks
             after == [linked EXCEPT !.doc = doc, !.sealed = sealed]
  <2>1. n.doc.root \in InkRoot /\ Ink(n) = n.doc.root.ink /\ n.doc.root \in NeededBy(n, unsent[d])
        /\ n.doc.root # NoRoot
    BY <1>1, <1>8, InkIs DEF RowsFit, NeededBy
  <2>2. parents \in SUBSET Nat /\ parents \subseteq 0 .. inkOps /\ parents \subseteq {n.doc.base} /\ id \in Nat
    BY <1>1
  <2> HIDE DEF parents
  <2>3. /\ op \in PublishOp /\ op \in InkOp /\ op.kind = "publish" /\ op.id = id /\ op.root = n.doc.root
        /\ op.parents = parents /\ op.by = d /\ op.draft
    <3> HIDE DEF id, n
    <3> QED BY <2>1, <2>2 DEF Publication, PublishOp, InkOp
  <2>4. \A w \in Bases(d) : w.id \in op.parents => w.root.ink \ op.root.ink \subseteq wiped[d]
    BY <1>1, <2>1, <2>2, <2>3 DEF BaseShown
  <2> HIDE DEF op
  <2>5. OpOf(row) = op /\ row \in VersionRow /\ row.id = op.id /\ row.root = op.root
    BY <2>3, NewVersionIs, LinkedRowIs
  <2>6. /\ q2 \in Seq(InkOp) /\ Range(q2) = Range(unsent[d]) \cup {op} /\ id \in Nat /\ inkOps <= id
        /\ \A x \in {op} : x.id \in inkOps + 1 .. id
        /\ AllInkOps' = ops2 /\ Ledger(ops2, id)
        /\ \A e \in InkDevices : \A x \in Bases(e)' : x \in Bases(e) \/ x \in {op}
        /\ xs2 \subseteq ops2 /\ NoOpDrops' /\ NoteFits(n, ops2, id, gone, xs2)
    BY <1>3, <1>8, <2>2, <2>3, <2>4, PostOne
  <2>7. \A v \in n.versions : v.id # id
    <3> DEFINE last == inkOps
    <3>1. n \in PageRow /\ last \in Nat /\ Ledger(ops, last) /\ RowsPosted(n, ops)
      BY <1>1
    <3> HIDE DEF last, ops, n
    <3>2. \A v \in n.versions : v.id \in 1 .. last
      BY <3>1, VersionNumbers
    <3> QED BY <1>1, <3>2 DEF last
  <2>8. op \in ops2
    OBVIOUS
  <2>9. /\ row \in VersionRow /\ row.id = id /\ row.root = n.doc.root
    BY <2>3, <2>5
  <2>10. doc \in DraftRow /\ doc.root = n.doc.root /\ doc.cursor = n.doc.cursor /\ doc.seen = n.doc.seen
         /\ ~doc.dirty /\ doc.base = id
    BY <1>1, <2>2 DEF DraftRow
  <2> HIDE DEF ops2, xs2, gone, id, q2
  <2>11. /\ m \in PageRow /\ m.alive = n.alive /\ m.pins = n.pins
         /\ NeededBy(m, q2) \subseteq NeededBy(n, q2)
         /\ m.doc = n.doc /\ m.hist = n.hist
         /\ m.versions = n.versions \cup {NewVersion(n, op)}
    <3>1. /\ n \in PageRow /\ id \in Nat /\ Ledger(ops2, id) /\ xs2 \subseteq ops2 /\ op \in ops2
          /\ op \in PublishOp /\ NoteFits(n, ops2, id, gone, xs2)
      BY <1>1, <2>3, <2>6, <2>8
    <3>2. /\ m \in PageRow /\ m.alive = n.alive /\ m.pins = n.pins
          /\ \/ m = n /\ \E v \in n.versions : v.id = op.id
             \/ m.versions = n.versions \cup {NewVersion(n, op)}
          /\ n.doc.dirty \/ n.doc.editing => m.doc = n.doc /\ m.hist = n.hist
      BY <3>1, WithVersionIs, ZenonT(60)
    <3>3. NeededBy(m, q2) \subseteq NeededBy(n, q2)
      BY <3>1, WithVersionKeeps
    <3> QED BY <1>8, <2>3, <2>7, <3>2, <3>3
  <2>12. /\ linked \in PageRow /\ linked.versions = n.versions \cup {row} /\ linked.doc = n.doc
         /\ linked.hist = n.hist /\ linked.pins = n.pins /\ linked.staged = m.staged
         /\ linked.alive = n.alive
    <3>1. /\ n.versions \in SUBSET VersionRow /\ \A v \in n.versions : v.id # id
          /\ NewVersion(n, op) \in VersionRow /\ NewVersion(n, op).id = id
      BY <1>1, <2>3, <2>7, NewVersionIs
    <3> DEFINE v == NewVersion(n, op)
               old == n.versions
    <3>2. /\ m \in PageRow /\ old \in SUBSET VersionRow /\ v \in VersionRow /\ id \in Nat /\ v.id = id
          /\ \A w \in old : w.id # id
          /\ m.versions = old \cup {v}
      BY <2>6, <2>11, <3>1
    <3>3. row = LinkedRow(v)
      OBVIOUS
    <3> HIDE DEF m, v, old, row
    <3>4. /\ linked \in PageRow /\ linked.versions = old \cup {row} /\ linked.doc = m.doc
          /\ linked.hist = m.hist /\ linked.pins = m.pins /\ linked.staged = m.staged
          /\ linked.alive = m.alive
      BY <3>2, <3>3, LinkedIs
    <3> QED BY <2>11, <3>4 DEF old
  <2>13. inkPages' = [inkPages EXCEPT ![d] = after]
    BY <1>8, <2>12
  <2>14. sealed \subseteq SUBSET Marks
    <3>1. linked.sealed \subseteq SUBSET Marks
      BY <2>12 DEF PageRow
    <3> QED BY <2>1, <3>1, Drawings
  <2> HIDE DEF row, doc, sealed, linked, m
  <2>15. /\ after \in PageRow /\ after.doc = doc /\ after.alive = n.alive /\ after.hist = n.hist
         /\ after.versions = n.versions \cup {row} /\ after.staged = m.staged /\ after.pins = n.pins
    BY <2>10, <2>12, <2>14 DEF PageRow
  <2> HIDE DEF after
  <2>16. Ink(after) = Ink(n)
    BY <2>10, <2>15 DEF Ink
  <2>17. BaseShown(after, gone, xs2)
    <3> SUFFICES ASSUME NEW x \in xs2, x.id = after.doc.base
                 PROVE  x.root.ink = Ink(after)
      BY DEF BaseShown
    <3>1. x = op
      BY <2>3, <2>6, <2>8, <2>10, <2>15 DEF Ledger
    <3> QED BY <2>1, <2>3, <2>16, <3>1
  <2>18. RowsFit(after)
    <3>1. IsFiniteSet(n.versions \cup {row})
      BY <1>1, FS_AddElement DEF RowsFit
    <3> QED BY <1>1, <2>10, <2>15, <3>1 DEF RowsFit
  <2>19. RowsPosted(after, ops2) /\ RowsNumbered(after, id)
    BY <2>5, <2>6, <2>8, <2>10, <2>15 DEF NoteFits, RowsPosted, RowsNumbered
  <2>20. NeededBy(after, q2) \subseteq NeededBy(n, unsent[d])
    <3>1. InkPublications(q2) \subseteq InkPublications(unsent[d]) \cup {n.doc.root}
      BY <2>3, <2>6 DEF InkPublications
    <3>2. InkPublications(unsent[d]) \subseteq NeededBy(n, unsent[d])
      BY DEF NeededBy
    <3>3. InkPublications(q2) \subseteq NeededBy(n, unsent[d])
      BY <2>1, <3>1, <3>2
    <3>4. NeededBy(n, q2) \subseteq NeededBy(n, unsent[d])
      BY <3>3 DEF NeededBy
    <3>5. m.staged \subseteq NeededBy(m, q2)
      BY DEF NeededBy
    <3>6. {v.root : v \in {w \in after.versions : w.have}} \subseteq
             {v.root : v \in {w \in n.versions : w.have}} \cup {n.doc.root}
      BY <2>9, <2>15
    <3>7. {v.root : v \in {w \in n.versions : w.have}} \subseteq NeededBy(n, unsent[d])
      BY DEF NeededBy
    <3> QED BY <2>1, <2>10, <2>11, <2>15, <3>3, <3>4, <3>5, <3>6, <3>7 DEF NeededBy
  <2>21. IntactIn(sheet[d], NeededBy(after, q2))
    BY <1>4, <2>20 DEF IntactIn
  <2>22. ViewTrue(after, p2) /\ DeadAtRest(after, xs2)
    BY <1>1, <1>2, <1>8, <2>10, <2>15, <2>16 DEF ViewTrue, DeadAtRest
  <2>23. NoteFits(after, ops2, id, gone, xs2)
    BY <2>17, <2>18, <2>19 DEF NoteFits
  <2>24. unsent' = [unsent EXCEPT ![d] = q2] /\ inkOps' = id /\ {op} \in SUBSET InkOp
    BY <1>8, <2>3
  <2> HIDE DEF n
  <2> QED BY <1>2, <1>3, <1>4, <2>6, <2>13, <2>15, <2>21, <2>22, <2>23, <2>24, OnePost
          DEF ops2, xs2, gone, id
<1> QED BY <1>5, <1>6, <1>7, <1>8

----------------------------------------------------------------------------
(* Deletion, and undoing it. *)
LEMMA RootsFinite ==
  ASSUME NEW W, IsFiniteSet(W)
  PROVE  IsFiniteSet({v.root : v \in W})
<1> DEFINE f == [v \in W |-> v.root]
           T == {v.root : v \in W}
<1>1. f \in [W -> T] /\ \A y \in T : \E v \in W : f[v] = y
  OBVIOUS
<1>2. f \in Surjection(W, T)
  BY <1>1 DEF Surjection
<1> HIDE DEF f, T
<1>3. IsFiniteSet(T)
  BY <1>2, FS_Surjection
<1> QED BY <1>3 DEF T

LEMMA VariantOrdersAre ==
  ASSUME NEW n \in PageRow, IsFiniteSet(n.versions), NEW s \in VariantOrders(n)
  PROVE  s \in Seq(InkRoot) /\ Range(s) = Variants(n)
<1> DEFINE own == IF n.doc.root # NoRoot /\ (n.doc.dirty \/ Heads(n) = {})
                    THEN {n.doc.root} ELSE {}
           others == {w \in Heads(n) : ~(n.doc.dirty /\ w.id = n.doc.base)}
           roots == {v.root : v \in others}
<1>1. Variants(n) = own \cup roots
  BY DEF Variants
<1>2. own \subseteq InkRoot /\ IsFiniteSet(own)
  <2>1. n.doc.root # NoRoot => n.doc.root \in InkRoot
    BY InkIs
  <2>2. IsFiniteSet({n.doc.root}) /\ IsFiniteSet({})
    BY FS_EmptySet, FS_Singleton
  <2> QED BY <2>1, <2>2
<1>3. others \in SUBSET n.versions /\ n.versions \subseteq VersionRow
  BY DEF Heads, PageRow
<1>4. IsFiniteSet(others)
  BY <1>3, FS_Subset
<1>5. roots \subseteq InkRoot
  BY <1>3 DEF VersionRow
<1>6. IsFiniteSet(roots)
  BY <1>4, RootsFinite
<1> HIDE DEF own, others, roots
<1>7. IsFiniteSet(Variants(n)) /\ Variants(n) \subseteq InkRoot
  BY <1>1, <1>2, <1>5, <1>6, FS_Union
<1>8. Cardinality(Variants(n)) \in Nat
  BY <1>7, FS_CardinalityType
<1>9. s \in [1 .. Cardinality(Variants(n)) -> Variants(n)] /\ Range(s) = Variants(n)
  BY DEF VariantOrders
<1> HIDE DEF VariantOrders
<1>10. s \in Seq(InkRoot)
  BY <1>7, <1>8, <1>9
<1> QED BY <1>9, <1>10

LEMMA DeleteDrawingKeeps ==
  ASSUME DrawingInv, NEW d \in InkDevices, DeleteDrawing(d)
  PROVE  DrawingInv'
<1> DEFINE n == inkPages[d]
           id == inkOps + 1
           delete == [kind |-> "delete", id |-> inkOps + 1, by |-> d]
           q2 == Append(unsent[d], delete)
           ops2 == AllInkOps \cup {delete}
           xs2 == Bases(d)'
           gone == wiped[d]
<1>1. /\ n.alive
      /\ \A v \in Heads(n) : v.have \/ (n.doc.dirty /\ v.id = n.doc.base)
      /\ unsent' = [unsent EXCEPT ![d] = q2] /\ inkOps' = id
      /\ UNCHANGED <<pen, serverOps, pulled, wiped, scope>>
  BY DEF DeleteDrawing
<1>2. PICK variants \in VariantOrders(n) :
        LET after == Purged([n EXCEPT !.pins = CapturedPage(n, variants)])
        IN /\ inkPages' = [inkPages EXCEPT ![d] = after]
           /\ sheet' = [sheet EXCEPT ![d] = Collected(sheet[d], {}, after, unsent[d])]
  BY DEF DeleteDrawing
<1> DEFINE pins == CapturedPage(n, variants)
           captured == [n EXCEPT !.pins = pins]
           after == Purged(captured)
           s2 == Collected(sheet[d], {}, after, unsent[d])
<1>3. inkPages' = [inkPages EXCEPT ![d] = after] /\ sheet' = [sheet EXCEPT ![d] = s2]
  BY <1>2
<1>4. /\ n \in PageRow /\ n.doc \in DraftRow /\ n.hist \in PenStates /\ n.versions \subseteq VersionRow
      /\ inkOps \in Nat /\ Ledger(AllInkOps, inkOps) /\ RowsPosted(n, AllInkOps) /\ RowsFit(n)
      /\ IntactIn(sheet[d], NeededBy(n, unsent[d])) /\ sheet[d] \in Geometry
      /\ pen[d] \in PenState /\ pen' = [pen EXCEPT ![d] = pen[d]]
  BY <1>1, NoteOf DEF PageRow, NoteFits
<1>5. delete \in InkOp /\ delete.id = inkOps + 1 /\ delete.kind = "delete"
  BY <1>4 DEF InkOp
<1>6. variants \in Seq(InkRoot) /\ Range(variants) = Variants(n)
  BY <1>4, VariantOrdersAre DEF RowsFit
<1>7. \A v \in n.versions : v.id \in 1 .. inkOps
  <2> DEFINE last == inkOps
             ops == AllInkOps
  <2>1. n \in PageRow /\ last \in Nat /\ Ledger(ops, last) /\ RowsPosted(n, ops)
    BY <1>4
  <2> HIDE DEF last, ops, n
  <2>2. \A v \in n.versions : v.id \in 1 .. last
    BY <2>1, VersionNumbers
  <2> QED BY <2>2 DEF last
<1> HIDE DEF delete
<1>8. /\ q2 \in Seq(InkOp) /\ Range(q2) = Range(unsent[d]) \cup {delete} /\ id \in Nat /\ inkOps <= id
      /\ \A x \in {delete} : x.id \in inkOps + 1 .. id
      /\ AllInkOps' = ops2 /\ Ledger(ops2, id)
      /\ \A e \in InkDevices : \A x \in Bases(e)' : x \in Bases(e) \/ x \in {delete}
      /\ xs2 \subseteq ops2 /\ NoOpDrops'
  <2>1. delete.kind # "publish"
    BY <1>5
  <2> QED BY <1>1, <1>5, <2>1, PostOne
<1>9. /\ pins \in PinRow /\ pins.kept /\ pins.root = n.doc.root /\ pins.cursor = n.doc.cursor
      /\ pins.hist = n.hist /\ pins.heads \subseteq 0 .. id /\ pins.variants = variants
  <2> DEFINE heads == {v.id : v \in Heads(n)}
  <2>1. heads \subseteq 0 .. id /\ heads \subseteq Nat
    BY <1>4, <1>7 DEF Heads
  <2>2. pins = [kept |-> TRUE, root |-> n.doc.root, cursor |-> n.doc.cursor, hist |-> n.hist,
                heads |-> heads, variants |-> variants]
    BY DEF CapturedPage
  <2>3. n.doc.root \in RootOrNone /\ n.doc.cursor \in Nat
    BY <1>4 DEF DraftRow
  <2> HIDE DEF heads, pins
  <2> QED BY <1>4, <1>6, <2>1, <2>2, <2>3 DEF PinRow
<1> HIDE DEF pins
<1>10. captured \in PageRow /\ captured.pins = pins /\ captured.staged = n.staged
  BY <1>4, <1>9 DEF PageRow
<1> HIDE DEF captured
<1>11. /\ after \in PageRow /\ ~after.alive /\ after.doc = EmptyDoc
       /\ NoteFits(after, ops2, id, gone, xs2) /\ DeadAtRest(after, xs2)
       /\ \A q : NeededBy(after, q) \subseteq n.staged \cup InkPublications(q)
                                              \cup Range(n.hist) \cup Range(variants)
  <2>1. /\ captured.pins.heads \subseteq 0 .. id
        /\ captured.pins.root # NoRoot => /\ captured.pins.cursor \in DOMAIN captured.pins.hist
                                          /\ captured.pins.hist[captured.pins.cursor] = captured.pins.root
        /\ ~captured.pins.kept => captured.pins = NoPins
    BY <1>4, <1>9, <1>10 DEF RowsFit
  <2>2. id \in Nat /\ Ledger(ops2, id) /\ xs2 \subseteq ops2
    BY <1>8
  <2> HIDE DEF id, ops2, xs2, gone
  <2>3. /\ after \in PageRow /\ ~after.alive /\ after.doc = EmptyDoc
        /\ NoteFits(after, ops2, id, gone, xs2) /\ DeadAtRest(after, xs2)
        /\ \A q : NeededBy(after, q) \subseteq captured.staged \cup InkPublications(q)
                      \cup Range(captured.pins.hist) \cup Range(captured.pins.variants)
    BY <1>10, <2>1, <2>2, PurgedIs
  <2> QED BY <1>9, <1>10, <2>3
<1> HIDE DEF after
<1>12. Variants(n) \subseteq NeededBy(n, unsent[d])
  <2>1. n.doc.root # NoRoot => n.doc.root \in NeededBy(n, unsent[d])
    BY DEF NeededBy
  <2>2. \A v \in Heads(n) : ~(n.doc.dirty /\ v.id = n.doc.base) => v.root \in NeededBy(n, unsent[d])
    BY <1>1 DEF NeededBy, Heads
  <2> QED BY <2>1, <2>2 DEF Variants
<1>13. /\ NeededBy(after, unsent[d]) \subseteq NeededBy(n, unsent[d])
       /\ NeededBy(after, q2) \subseteq NeededBy(after, unsent[d])
  <2>1. InkPublications(q2) = InkPublications(unsent[d])
    BY <1>5, <1>8 DEF InkPublications
  <2>2. NeededBy(after, unsent[d]) \subseteq NeededBy(n, unsent[d])
    BY <1>6, <1>11, <1>12 DEF NeededBy
  <2>3. NeededBy(after, q2) \subseteq NeededBy(after, unsent[d])
    BY <2>1 DEF NeededBy
  <2> QED BY <2>2, <2>3
<1>14. s2 \in Geometry /\ IntactIn(s2, NeededBy(after, q2))
  <2>1. IntactIn(sheet[d], NeededBy(after, unsent[d]) \ {}) /\ RowsFit(after)
    BY <1>4, <1>11, <1>13 DEF IntactIn, NoteFits
  <2>2. s2 \in Geometry /\ IntactIn(s2, NeededBy(after, unsent[d]))
    BY <1>4, <1>11, <2>1, CollectedIs
  <2> QED BY <1>13, <2>2 DEF IntactIn
<1>15. ViewTrue(after, pen[d])
  BY <1>11, EmptyDocRow DEF ViewTrue
<1>16. {delete} \in SUBSET InkOp
  BY <1>5
<1> HIDE DEF n, s2, q2
<1> QED BY <1>1, <1>3, <1>4, <1>8, <1>11, <1>14, <1>15, <1>16, OnePost

(* The note was touched since: what undoing would bring back is given up. *)
LEMMA ForgetDeletion ==
  ASSUME DrawingInv, NEW d \in InkDevices,
         LET gone == [inkPages[d] EXCEPT !.pins = NoPins]
         IN /\ inkPages' = [inkPages EXCEPT ![d] = gone]
            /\ sheet' = [sheet EXCEPT ![d] = Collected(sheet[d], {}, gone, unsent[d])],
         UNCHANGED <<unsent, inkOps, pen, serverOps, pulled, wiped, scope>>
  PROVE  DrawingInv'
<1> DEFINE n == inkPages[d]
           m == [n EXCEPT !.pins = NoPins]
           s2 == Collected(sheet[d], {}, m, unsent[d])
<1>1. inkPages' = [inkPages EXCEPT ![d] = m] /\ sheet' = [sheet EXCEPT ![d] = s2]
  OBVIOUS
<1>2. /\ n \in PageRow /\ NoteFits(n, AllInkOps, inkOps, wiped[d], Bases(d)) /\ inkOps \in Nat
      /\ IntactIn(sheet[d], NeededBy(n, unsent[d])) /\ sheet[d] \in Geometry
      /\ ViewTrue(n, pen[d]) /\ DeadAtRest(n, Bases(d))
      /\ pen[d] \in PenState /\ pen' = [pen EXCEPT ![d] = pen[d]]
      /\ pulled' \in [InkDevices -> Nat] /\ wiped' = [wiped EXCEPT ![d] = wiped[d]]
      /\ wiped[d] \in SUBSET Marks
  BY NoteOf
<1>3. /\ m \in PageRow /\ m.doc = n.doc /\ m.hist = n.hist /\ m.versions = n.versions
      /\ m.staged = n.staged /\ m.alive = n.alive /\ m.pins = NoPins
  BY <1>2, NoPinsRow DEF PageRow
<1> HIDE DEF m
<1>4. NoPins.root = NoRoot /\ NoPins.heads = {} /\ ~NoPins.kept
  BY DEF NoPins
<1>5. Ink(m) = Ink(n) /\ Heads(m) = Heads(n)
  BY <1>3 DEF Ink, Heads
<1>6. NoteFits(m, AllInkOps, inkOps, wiped[d], Bases(d))
  BY <1>2, <1>3, <1>4, <1>5 DEF NoteFits, RowsFit, RowsPosted, RowsNumbered, BaseShown
<1>7. NeededBy(m, unsent[d]) \subseteq NeededBy(n, unsent[d])
  BY <1>3, NoPinsRow DEF NeededBy
<1>8. s2 \in Geometry /\ IntactIn(s2, NeededBy(m, unsent[d]))
  <2>1. IntactIn(sheet[d], NeededBy(m, unsent[d]) \ {}) /\ RowsFit(m)
    BY <1>2, <1>6, <1>7 DEF IntactIn, NoteFits
  <2> QED BY <1>2, <1>3, <2>1, CollectedIs
<1>9. ViewTrue(m, pen[d]) /\ DeadAtRest(m, Bases(d))
  BY <1>2, <1>3, <1>5 DEF ViewTrue, DeadAtRest, HeadShown
<1> HIDE DEF n, s2
<1> QED BY <1>1, <1>2, <1>3, <1>6, <1>8, <1>9, OneNote

(* The page that undoing a deletion brings back, with the operations it makes. *)
BackOp(d, p, i) == Publication(d, p.variants[i], p.heads, inkOps + 1 + i, FALSE)
BackRow(d, p, i) == [id |-> BackOp(d, p, i).id, root |-> p.variants[i], parents |-> p.heads,
                     have |-> TRUE, by |-> d, draft |-> FALSE]
BackCreate(d, p) == [kind |-> "create", id |-> inkOps + 1, by |-> d,
                     behind |-> Len(p.variants) > 0 /\ p.root # p.variants[1]]

LEMMA BackIs ==
  ASSUME inkOps \in Nat, NEW d \in InkDevices, NEW p \in PinRow, p.heads \subseteq 0 .. inkOps,
         NEW i \in 1 .. Len(p.variants)
  PROVE  /\ BackOp(d, p, i) \in InkOp /\ BackOp(d, p, i).kind = "publish"
         /\ BackOp(d, p, i).id = inkOps + 1 + i /\ BackOp(d, p, i).root = p.variants[i]
         /\ BackOp(d, p, i).parents = p.heads /\ ~BackOp(d, p, i).draft /\ BackOp(d, p, i).by = d
         /\ BackRow(d, p, i) \in VersionRow /\ OpOf(BackRow(d, p, i)) = BackOp(d, p, i)
         /\ BackRow(d, p, i).root = p.variants[i]
         /\ p.variants[i] \in InkRoot /\ p.variants[i] \in Range(p.variants)
         /\ BackRow(d, p, i).id = inkOps + 1 + i
<1>1. p.variants \in Seq(InkRoot) /\ p.heads \in SUBSET Nat
  BY DEF PinRow
<1>2. p.variants[i] \in InkRoot /\ p.variants[i] \in Range(p.variants)
  BY <1>1, QueueRange
<1>3. inkOps + 1 + i \in Nat
  BY <1>1
<1> DEFINE id == inkOps + 1 + i
           root == p.variants[i]
<1>4. BackOp(d, p, i) = Publication(d, root, p.heads, id, FALSE)
  BY DEF BackOp
<1>5. BackRow(d, p, i) = [id |-> BackOp(d, p, i).id, root |-> root, parents |-> p.heads,
                          have |-> TRUE, by |-> d, draft |-> FALSE]
  BY DEF BackRow
<1>6. id \in Nat /\ root \in InkRoot
  BY <1>2, <1>3
<1> HIDE DEF id, root
<1>7. /\ BackOp(d, p, i) \in InkOp /\ BackOp(d, p, i).kind = "publish"
      /\ BackOp(d, p, i).id = id /\ BackOp(d, p, i).root = root
      /\ BackOp(d, p, i).parents = p.heads /\ ~BackOp(d, p, i).draft /\ BackOp(d, p, i).by = d
  BY <1>1, <1>4, <1>6 DEF Publication, InkOp, PublishOp
<1>8. /\ BackRow(d, p, i) \in VersionRow /\ OpOf(BackRow(d, p, i)) = BackOp(d, p, i)
      /\ BackRow(d, p, i).root = root /\ BackRow(d, p, i).id = id
  BY <1>1, <1>4, <1>5, <1>6, <1>7 DEF VersionRow, OpOf, Publication
<1> QED BY <1>2, <1>7, <1>8 DEF id, root

LEMMA ImageFinite ==
  ASSUME NEW S, IsFiniteSet(S), NEW f
  PROVE  IsFiniteSet({f[i] : i \in S})
<1> DEFINE T == {f[i] : i \in S}
           g == [i \in S |-> f[i]]
<1>1. g \in [S -> T] /\ \A y \in T : \E i \in S : g[i] = y
  OBVIOUS
<1>2. g \in Surjection(S, T)
  BY <1>1 DEF Surjection
<1> HIDE DEF g, T
<1>3. IsFiniteSet(T)
  BY <1>2, FS_Surjection
<1> QED BY <1>3 DEF T

LEMMA ListFinite ==
  ASSUME NEW k \in Nat, NEW f
  PROVE  IsFiniteSet({f[i] : i \in 1 .. k})
<1> DEFINE S == 1 .. k
<1>1. IsFiniteSet(S)
  BY FS_Interval
<1> HIDE DEF S
<1>2. IsFiniteSet({f[i] : i \in S})
  BY <1>1, ImageFinite
<1> QED BY <1>2 DEF S

LEMMA BringBack ==
  ASSUME DrawingInv, NEW d \in InkDevices,
         LET n == inkPages[d]
             p == n.pins
             k == Len(p.variants)
             doc == [EmptyDoc EXCEPT !.root = p.root, !.cursor = p.cursor,
                                     !.base = IF k = 0 THEN 0 ELSE inkOps + 2]
         IN /\ n.doc.root = NoRoot /\ n.versions = {}
            /\ inkPages' = [inkPages EXCEPT ![d] =
                 [n EXCEPT !.alive = TRUE, !.hist = p.hist, !.pins = NoPins,
                           !.versions = {BackRow(d, p, i) : i \in 1 .. k},
                           !.sealed = n.sealed \cup UNION {r.chunks : r \in Range(p.variants)},
                           !.doc = doc]]
            /\ unsent' = [unsent EXCEPT ![d] = (unsent[d] \o <<BackCreate(d, p)>>)
                                                  \o [i \in 1 .. k |-> BackOp(d, p, i)]]
            /\ inkOps' = inkOps + 1 + k,
         UNCHANGED <<sheet, pen, serverOps, pulled, wiped, scope>>
  PROVE  DrawingInv' /\ HeadShown(inkPages'[d], Bases(d)')
<1> DEFINE n == inkPages[d]
           p == n.pins
           k == Len(p.variants)
           last == inkOps
           last2 == inkOps + 1 + k
           base == IF k = 0 THEN 0 ELSE inkOps + 2
           create == BackCreate(d, p)
           tail == [i \in 1 .. k |-> BackOp(d, p, i)]
           ops == {BackOp(d, p, i) : i \in 1 .. k}
           more == {create} \cup ops
           q2 == (unsent[d] \o <<create>>) \o tail
           versions == {BackRow(d, p, i) : i \in 1 .. k}
           sealed == n.sealed \cup UNION {r.chunks : r \in Range(p.variants)}
           doc == [EmptyDoc EXCEPT !.root = p.root, !.cursor = p.cursor, !.base = base]
           back == [n EXCEPT !.alive = TRUE, !.hist = p.hist, !.pins = NoPins,
                             !.versions = versions, !.sealed = sealed, !.doc = doc]
           ops2 == AllInkOps \cup more
           xs2 == Bases(d)'
           gone == wiped[d]
<1>1. /\ n.doc.root = NoRoot /\ n.versions = {}
      /\ inkPages' = [inkPages EXCEPT ![d] = back]
      /\ unsent' = [unsent EXCEPT ![d] = q2] /\ inkOps' = last2
  OBVIOUS
<1>2. /\ n \in PageRow /\ p \in PinRow /\ inkOps \in Nat /\ Ledger(AllInkOps, inkOps)
      /\ unsent[d] \in Seq(InkOp) /\ NoteFits(n, AllInkOps, inkOps, wiped[d], Bases(d))
      /\ IntactIn(sheet[d], NeededBy(n, unsent[d])) /\ sheet[d] \in Geometry
      /\ pen[d] \in PenState /\ pen' = [pen EXCEPT ![d] = pen[d]] /\ sheet' = [sheet EXCEPT ![d] = sheet[d]]
      /\ n.sealed \subseteq SUBSET Marks
  BY NoteOf DEF PageRow
<1>3. /\ p.heads \subseteq 0 .. inkOps
      /\ p.root # NoRoot => p.cursor \in DOMAIN p.hist /\ p.hist[p.cursor] = p.root
  BY <1>2 DEF NoteFits, RowsFit, RowsNumbered
<1>4. /\ p.hist \in PenStates /\ p.variants \in Seq(InkRoot) /\ k \in Nat /\ p.root \in RootOrNone
      /\ p.cursor \in Nat /\ Range(p.variants) \subseteq InkRoot
  BY <1>2, QueueRange DEF PinRow
<1>5. create \in InkOp /\ create.kind = "create" /\ create.id = inkOps + 1
      /\ (create.behind <=> Len(p.variants) > 0 /\ p.root # p.variants[1])
  <2> DEFINE behind == Len(p.variants) > 0 /\ p.root # p.variants[1]
             id == inkOps + 1
  <2>1. create = [kind |-> "create", id |-> id, by |-> d, behind |-> behind]
    BY DEF BackCreate
  <2>2. behind \in BOOLEAN /\ id \in Nat /\ (behind <=> Len(p.variants) > 0 /\ p.root # p.variants[1])
    BY <1>2
  <2> HIDE DEF behind, id, create
  <2>3. create \in InkOp
    BY <2>1, <2>2 DEF InkOp
  <2>4. create.kind = "create" /\ create.id = id /\ create.behind = behind
    BY <2>1
  <2> QED BY <2>2, <2>3, <2>4 DEF id
<1>6. \A i \in 1 .. k :
         /\ BackOp(d, p, i) \in InkOp /\ BackOp(d, p, i).kind = "publish"
         /\ BackOp(d, p, i).id = inkOps + 1 + i /\ BackOp(d, p, i).root = p.variants[i]
         /\ BackOp(d, p, i).parents = p.heads /\ ~BackOp(d, p, i).draft /\ BackOp(d, p, i).by = d
         /\ BackRow(d, p, i) \in VersionRow /\ OpOf(BackRow(d, p, i)) = BackOp(d, p, i)
         /\ BackRow(d, p, i).root = p.variants[i]
         /\ p.variants[i] \in InkRoot /\ p.variants[i] \in Range(p.variants)
  BY <1>2, <1>3, BackIs, SMTT(40)
<1>7. /\ last2 \in Nat /\ inkOps <= last2 /\ base \in 0 .. last2
  BY <1>2, <1>4
<1> HIDE DEF create, k
<1>8. q2 \in Seq(InkOp) /\ Range(q2) = Range(unsent[d]) \cup more
  <2> DEFINE one == <<create>>
             start == unsent[d] \o one
  <2>1. one \in Seq(InkOp) /\ Range(one) = {create}
    <3>1. one \in Seq(InkOp) /\ DOMAIN one = {1} /\ one[1] = create
      BY <1>5
    <3> QED BY <3>1 DEF Range
  <2>2. tail \in Seq(InkOp)
    BY <1>4, <1>6
  <2>3. Range(tail) = ops
    BY DEF Range
  <2>4. q2 = start \o tail
    OBVIOUS
  <2> HIDE DEF one, tail
  <2>5. start \in Seq(InkOp) /\ Range(start) = Range(unsent[d]) \cup {create}
    BY <1>2, <2>1, QueueConcat
  <2> HIDE DEF start, q2
  <2>6. q2 \in Seq(InkOp) /\ Range(q2) = Range(start) \cup Range(tail)
    BY <2>2, <2>4, <2>5, QueueConcat
  <2> QED BY <2>3, <2>5, <2>6
<1>9. /\ more \in SUBSET InkOp
      /\ \A x \in more : x.id \in inkOps + 1 .. last2
      /\ \A x \in more : \A y \in more : x.id = y.id => x = y
      /\ \A x \in more : x.kind = "publish" => x.parents \subseteq 0 .. inkOps /\ ~x.draft
  <2>1. \A x \in more : x = create \/ \E i \in 1 .. k : x = BackOp(d, p, i)
    OBVIOUS
  <2>2. ASSUME NEW x \in more, NEW y \in more, x.id = y.id PROVE x = y
    BY <1>2, <1>4, <1>5, <1>6, <2>1, <2>2
  <2>3. \A x \in more : x.id \in inkOps + 1 .. last2
    BY <1>2, <1>4, <1>5, <1>6, <2>1
  <2> QED BY <1>3, <1>5, <1>6, <2>1, <2>2, <2>3
<1> HIDE DEF more, q2
<1>10. /\ AllInkOps' = ops2 /\ Ledger(ops2, last2)
       /\ \A e \in InkDevices : \A x \in Bases(e)' : x \in Bases(e) \/ x \in more
       /\ xs2 \subseteq ops2 /\ NoOpDrops'
  <2>1. \A x \in more : x.kind = "publish" =>
            /\ x.parents \subseteq 0 .. inkOps
            /\ x.draft => /\ x.by = d
                          /\ \A w \in Bases(d) : w.id \in x.parents =>
                               w.root.ink \ x.root.ink \subseteq wiped[d]
    BY <1>9
  <2>2. UNCHANGED <<serverOps, wiped>>
    OBVIOUS
  <2> HIDE DEF last2
  <2> QED BY <1>1, <1>7, <1>8, <1>9, <2>1, <2>2, Posted, ZenonT(60)
<1>11. versions \subseteq VersionRow /\ IsFiniteSet(versions)
  <2> DEFINE f == [i \in 1 .. k |-> BackRow(d, p, i)]
  <2>1. {f[i] : i \in 1 .. k} = versions
    OBVIOUS
  <2>2. k \in Nat
    BY <1>4
  <2>3. IsFiniteSet({f[i] : i \in 1 .. k})
    <3> HIDE DEF f
    <3> QED BY <2>2, ListFinite
  <2>4. versions \subseteq VersionRow
    BY <1>6
  <2> QED BY <2>1, <2>3, <2>4
<1>12. \A v \in versions : OpOf(v) \in more /\ v.root \in Range(p.variants)
  BY <1>6 DEF more
<1>13. sealed \subseteq SUBSET Marks
  BY <1>2, <1>4, Drawings
<1>14. /\ doc \in DraftRow /\ doc.root = p.root /\ doc.cursor = p.cursor /\ doc.base = base
       /\ ~doc.dirty /\ ~doc.seen
  <2>1. base \in Nat
    BY <1>2
  <2> HIDE DEF base
  <2> QED BY <1>4, <2>1, EmptyDocRow DEF DraftRow
<1> HIDE DEF doc, versions, sealed
<1>15. /\ back \in PageRow /\ back.alive /\ back.hist = p.hist /\ back.pins = NoPins
       /\ back.versions = versions /\ back.doc = doc /\ back.staged = n.staged
  BY <1>2, <1>4, <1>11, <1>13, <1>14, NoPinsRow DEF PageRow
<1> HIDE DEF back
<1>16. NoPins.root = NoRoot /\ NoPins.heads = {} /\ ~NoPins.kept
  BY DEF NoPins
<1>17. BaseShown(back, gone, xs2)
  <2> SUFFICES ASSUME NEW x \in xs2, x.id = back.doc.base
               PROVE  x.root.ink = Ink(back)
    BY DEF BaseShown
  <2>1. k # 0 /\ base = inkOps + 2
    BY <1>10, <1>14, <1>15 DEF Ledger
  <2>2. 1 \in 1 .. k /\ BackOp(d, p, 1) \in more /\ BackOp(d, p, 1).id = base
    BY <1>2, <1>4, <1>6, <2>1, SMTT(40) DEF more
  <2>3. x = BackOp(d, p, 1)
    BY <1>10, <1>14, <1>15, <2>2 DEF Ledger
  <2>4. ~create.behind
    <3>1. ~Behind(d, x)'
      BY DEF Bases
    <3>2. create \in Range(unsent'[d])
      <4>1. unsent'[d] = q2
        BY <1>1 DEF DrawingInv, DrawingTyped
      <4> QED BY <1>8, <4>1 DEF more
    <3>3. x.by = d /\ create.id = x.id - 1
      BY <1>2, <1>5, <1>6, <2>1, <2>2, <2>3
    <3> QED BY <1>5, <3>1, <3>2, <3>3 DEF Behind
  <2>5. p.root = p.variants[1]
    BY <1>4, <1>5, <2>1, <2>4 DEF k
  <2>6. p.root \in InkRoot /\ p.root # NoRoot
    BY <1>6, <2>2, <2>5, Drawings
  <2> QED BY <1>6, <1>14, <1>15, <2>2, <2>3, <2>5, <2>6 DEF Ink
<1>18. RowsFit(back) /\ RowsPosted(back, ops2) /\ RowsNumbered(back, last2)
  BY <1>3, <1>7, <1>11, <1>12, <1>14, <1>15, <1>16 DEF RowsFit, RowsPosted, RowsNumbered
<1>19. NoteFits(back, ops2, last2, gone, xs2)
  BY <1>17, <1>18 DEF NoteFits
<1>20. NeededBy(back, q2) \subseteq NeededBy(n, unsent[d])
  <2>1. InkPublications(q2) \subseteq InkPublications(unsent[d]) \cup Range(p.variants)
    BY <1>5, <1>6, <1>8 DEF InkPublications, more
  <2>2. Range(p.variants) \cup Range(p.hist) \cup n.staged \cup InkPublications(unsent[d])
          \subseteq NeededBy(n, unsent[d])
    BY DEF NeededBy
  <2>3. {v.root : v \in {w \in versions : w.have}} \subseteq Range(p.variants)
    BY <1>12
  <2>4. p.root # NoRoot => p.root \in Range(p.hist)
    BY <1>3 DEF Range
  <2>5. NeededBy(back, q2) \subseteq Range(p.variants) \cup Range(p.hist) \cup n.staged
                                       \cup InkPublications(unsent[d])
    BY <1>14, <1>15, <2>1, <2>3, <2>4, NoPinsRow DEF NeededBy
  <2> QED BY <2>2, <2>5
<1>21. IntactIn(sheet[d], NeededBy(back, q2))
  BY <1>2, <1>20 DEF IntactIn
<1>22. ViewTrue(back, pen[d]) /\ DeadAtRest(back, xs2)
  BY <1>14, <1>15 DEF ViewTrue, DeadAtRest
<1>23. /\ sheet[d] \in Geometry /\ pen[d] \in PenState /\ pen' = [pen EXCEPT ![d] = pen[d]]
       /\ sheet' = [sheet EXCEPT ![d] = sheet[d]] /\ back \in PageRow
       /\ \A x \in more : x.id \in inkOps + 1 .. last2
       /\ UNCHANGED <<serverOps, pulled, wiped, scope>>
  BY <1>2, <1>9, <1>15
<1>24. HeadShown(back, xs2)
  <2> SUFFICES ASSUME NEW v \in Heads(back), Heads(back) = {v}, OpOf(v) \in xs2
               PROVE  Ink(back) = v.root.ink
    BY DEF HeadShown
  <2>1. PICK i \in 1 .. k : v = BackRow(d, p, i)
    BY <1>15 DEF Heads, versions
  <2>2. \A j \in 1 .. k : BackRow(d, p, j).id = inkOps + 1 + j /\ BackRow(d, p, j).parents = p.heads
    <3>1. \A j \in 1 .. k : BackRow(d, p, j).id = inkOps + 1 + j
      BY <1>2, <1>3, BackIs, SMTT(40) DEF k
    <3>2. \A j : BackRow(d, p, j).parents = p.heads
      BY DEF BackRow
    <3> QED BY <3>1, <3>2
  <2>3. 1 \in 1 .. k /\ k \in Nat
    BY <1>4, <2>1
  <2>4. BackRow(d, p, 1) \in Heads(back)
    <3>1. BackRow(d, p, 1) \in back.versions
      BY <1>15, <2>3 DEF versions
    <3>2. \A w \in back.versions : w.parents = p.heads
      BY <1>15, <2>2 DEF versions
    <3>3. BackRow(d, p, 1).id = inkOps + 2 /\ inkOps + 2 \notin p.heads
      BY <1>2, <1>3, <2>2, <2>3, SMTT(40)
    <3> QED BY <3>1, <3>2, <3>3 DEF Heads
  <2>5. v = BackRow(d, p, 1) /\ v.id = inkOps + 2
    BY <1>2, <2>2, <2>3, <2>4, SMTT(40)
  <2>6. OpOf(v).id = back.doc.base /\ OpOf(v).root = v.root
    <3>1. k # 0
      BY <2>3
    <3>2. base = inkOps + 2
      BY <3>1
    <3>3. v \in VersionRow
      BY <1>6, <2>3, <2>5
    <3> QED BY <1>14, <1>15, <2>5, <3>2, <3>3, OpOfIs
  <2> QED BY <1>14, <1>15, <1>17, <2>6 DEF BaseShown
<1>25. inkPages'[d] = back
  BY <1>1 DEF DrawingInv, DrawingTyped
<1> HIDE DEF n, last2
<1>26. DrawingInv'
  BY <1>1, <1>7, <1>8, <1>9, <1>10, <1>19, <1>21, <1>22, <1>23, OnePost
<1> QED BY <1>24, <1>25, <1>26 DEF xs2

LEMMA RestoreDrawingKeeps ==
  ASSUME DrawingInv, NEW d \in InkDevices, RestoreDrawing(d)
  PROVE  DrawingInv'
<1> DEFINE n == inkPages[d]
           p == n.pins
           k == Len(p.variants)
           touched == n.alive \/ n.versions # {} \/ n.doc.root # NoRoot
<1>1. UNCHANGED <<pen, serverOps, pulled, wiped, scope>>
  BY DEF RestoreDrawing
<1>2. CASE touched
  BY <1>1, <1>2, ForgetDeletion DEF RestoreDrawing
<1>3. CASE ~touched
  BY <1>1, <1>3, BringBack DEF RestoreDrawing, BackRow, BackOp, BackCreate
<1> QED BY <1>2, <1>3

----------------------------------------------------------------------------
(* At first nothing is drawn and nothing posted. *)
LEMMA DrawingInitKeeps ==
  ASSUME DrawingInit
  PROVE  DrawingInv
<1> DEFINE none == [n \in {} |-> Blank]
           first == [alive |-> TRUE, doc |-> EmptyDoc, hist |-> none, versions |-> {},
                     staged |-> {}, sealed |-> {}, pins |-> NoPins]
           bare == [roots |-> {}, chunks |-> {}]
           empty == <<>>
<1>1. /\ inkPages = [d \in InkDevices |-> first] /\ sheet = [d \in InkDevices |-> bare]
      /\ pen = [d \in InkDevices |-> NoPen] /\ unsent = [d \in InkDevices |-> empty]
      /\ serverOps = empty /\ pulled = [d \in InkDevices |-> 0]
      /\ wiped = [d \in InkDevices |-> {}] /\ inkOps = 0 /\ scope \in InkScopes
  BY DEF DrawingInit
<1>2. none \in PenStates /\ Range(none) = {}
  <2>1. DOMAIN none = {} /\ none \in [{} -> InkRoot] /\ {} \in SUBSET Nat
    OBVIOUS
  <2> HIDE DEF none
  <2> QED BY <2>1, PenStatesAre DEF Range
<1>3. empty \in Seq(InkOp) /\ Range(empty) = {}
  <2>1. empty \in Seq(InkOp) /\ DOMAIN empty = {}
    OBVIOUS
  <2> HIDE DEF empty
  <2> QED BY <2>1 DEF Range
<1>4. bare \in Geometry /\ NoPen \in PenState /\ ~NoPen.open
  BY DEF Geometry, NoPen, PenState
<1> HIDE DEF none, empty, bare
<1>5. /\ first \in PageRow /\ first.alive /\ first.doc = EmptyDoc /\ first.hist = none
      /\ first.versions = {} /\ first.staged = {} /\ first.pins = NoPins
  BY <1>2, NoPinsRow, EmptyDocRow DEF PageRow
<1> HIDE DEF first
<1>6. DrawingTyped
  BY <1>1, <1>3, <1>4, <1>5 DEF DrawingTyped
<1>7. AllInkOps = {}
  BY <1>1, <1>3 DEF AllInkOps
<1>8. Ledger(AllInkOps, inkOps) /\ NoOpDrops
  BY <1>7 DEF Ledger, NoOpDrops
<1>9. ASSUME NEW d \in InkDevices PROVE PageInv(d)
  <2>1. /\ inkPages[d] = first /\ sheet[d] = bare /\ pen[d] = NoPen /\ unsent[d] = empty
        /\ Bases(d) = {}
    BY <1>1, <1>7 DEF Bases
  <2>2. IsFiniteSet({})
    BY FS_EmptySet
  <2>3. NoPins.root = NoRoot /\ NoPins.heads = {} /\ ~NoPins.kept
    BY DEF NoPins
  <2>4. RowsFit(first) /\ RowsPosted(first, AllInkOps) /\ RowsNumbered(first, inkOps)
    BY <1>1, <1>5, <2>2, <2>3, EmptyDocRow DEF RowsFit, RowsPosted, RowsNumbered
  <2>5. NoteFits(first, AllInkOps, inkOps, wiped[d], {})
    BY <2>4 DEF NoteFits, BaseShown
  <2>6. InkPublications(empty) = {}
    BY <1>3 DEF InkPublications
  <2>7. NeededBy(first, empty) = {}
    BY <1>2, <1>5, <2>6, EmptyDocRow, NoPinsRow DEF NeededBy
  <2>8. IntactIn(bare, NeededBy(first, empty)) /\ ViewTrue(first, NoPen) /\ DeadAtRest(first, {})
    BY <1>4, <1>5, <2>7 DEF IntactIn, ViewTrue, DeadAtRest
  <2> QED BY <2>1, <2>5, <2>8 DEF PageInv
<1> QED BY <1>6, <1>8, <1>9 DEF DrawingInv

LEMMA DrawKeeps ==
  ASSUME DrawingInv, NEW d \in InkDevices, NEW m \in scope.strokes, Draw(d, m)
  PROVE  DrawingInv'
<1>1. pen[d].view \in SUBSET Marks /\ m \in Marks
  BY DrawingAssumption DEF DrawingInv, DrawingTyped, PenState
<1>2. pen[d].view \cup {m} \in SUBSET Marks
  BY <1>1
<1> QED BY <1>2, PatchKeeps DEF Draw

LEMMA EraseKeeps ==
  ASSUME DrawingInv, NEW d \in InkDevices, NEW m \in Marks, Erase(d, m)
  PROVE  DrawingInv'
<1>1. pen[d].view \in SUBSET Marks
  BY DEF DrawingInv, DrawingTyped, PenState
<1>2. pen[d].view \ {m} \in SUBSET Marks
  BY <1>1
<1> QED BY <1>2, PatchKeeps DEF Erase

LEMMA ScopeDevices ==
  ASSUME DrawingInv
  PROVE  scope.pens \subseteq InkDevices /\ scope.erasers \subseteq InkDevices
BY DrawingAssumption DEF DrawingInv, DrawingTyped

LEMMA DrawingStep ==
  ASSUME DrawingInv, [DrawingNext]_drawingVars
  PROVE  DrawingInv'
<1>1. CASE \E d \in scope.pens : OpenEditor(d)
  BY <1>1, ScopeDevices, OpenEditorKeeps
<1>2. CASE \E d \in InkDevices, m \in scope.strokes : Draw(d, m)
  BY <1>2, DrawKeeps
<1>3. CASE \E d \in scope.erasers, m \in Marks : Erase(d, m)
  BY <1>3, ScopeDevices, EraseKeeps
<1>4. CASE \E d \in scope.erasers, step \in {-1, 1} : Navigate(d, step)
  BY <1>4, ScopeDevices, NavigateKeeps
<1>5. CASE \E d \in InkDevices : Reload(d)
  BY <1>5, ReloadKeeps
<1>6. CASE \E d \in scope.erasers : PreparePack(d)
  BY <1>6, ScopeDevices, PreparePackKeeps
<1>7. CASE \E d \in scope.erasers : Pack(d)
  BY <1>7, ScopeDevices, PackKeeps
<1>8. CASE \E d \in InkDevices : RequestPublication(d)
  BY <1>8, RequestPublicationKeeps
<1>9. CASE \E d \in InkDevices : PublishInk(d)
  BY <1>9, PublishInkKeeps
<1>10. CASE \E d \in InkDevices : CloseEditor(d)
  BY <1>10, CloseEditorKeeps
<1>11. CASE \E d \in scope.erasers : CrashPen(d)
  BY <1>11, ScopeDevices, CrashPenKeeps
<1>12. CASE \E d \in InkDevices : Push(d)
  BY <1>12, PushKeeps
<1>13. CASE \E d \in InkDevices : Fetch(d)
  BY <1>13, FetchKeeps
<1>14. CASE \E d \in InkDevices : ApplyNext(d)
  BY <1>14, ApplyNextKeeps
<1>15. CASE \E d \in InkDevices : \E keep \in inkPages[d].versions : ResolveHeads(d, keep)
  BY <1>15, ResolveHeadsKeeps
<1>16. CASE \E d \in InkDevices : DeleteDrawing(d)
  BY <1>16, DeleteDrawingKeeps
<1>17. CASE \E d \in InkDevices : RestoreDrawing(d)
  BY <1>17, RestoreDrawingKeeps
<1>18. CASE UNCHANGED drawingVars
  <2>1. /\ UNCHANGED <<inkPages, sheet, pen, unsent, serverOps>>
        /\ UNCHANGED <<pulled, wiped, inkOps, scope>>
    BY <1>18 DEF drawingVars
  <2>2. DrawingTyped'
    BY <2>1 DEF DrawingInv, DrawingTyped
  <2>3. AllInkOps' = AllInkOps
    BY <2>1 DEF AllInkOps
  <2>4. Ledger(AllInkOps, inkOps)'
    BY <2>1, <2>3 DEF DrawingInv
  <2>5. \A d, v : Behind(d, v)' = Behind(d, v)
    BY <2>1 DEF Behind
  <2>6. NoOpDrops' /\ \A d : Bases(d)' = Bases(d)
    BY <2>1, <2>3, <2>5 DEF DrawingInv, NoOpDrops, Bases
  <2>7. \A d \in InkDevices : PageInv(d)'
    BY <2>1, <2>3, <2>6 DEF DrawingInv, PageInv
  <2> QED BY <2>2, <2>4, <2>6, <2>7 DEF DrawingInv
<1> QED
  BY <1>1, <1>2, <1>3, <1>4, <1>5, <1>6, <1>7, <1>8, <1>9, <1>10, <1>11, <1>12, <1>13, <1>14,
     <1>15, <1>16, <1>17, <1>18 DEF DrawingNext

(* The invariant of the handwritten note: its rows, its stored geometry, the editor
   and the operations of every device fit one another, whatever is drawn, undone,
   compacted, published, deleted and restored (ink/storage.rs, ink/versions.rs,
   ink/history_retention.rs). *)
THEOREM DrawingInvTheorem == DrawingSpec => []DrawingInv
<1>1. DrawingInit => DrawingInv
  BY DrawingInitKeeps
<1>2. DrawingInv /\ [DrawingNext]_drawingVars => DrawingInv'
  BY DrawingStep
<1> QED BY <1>1, <1>2, PTL DEF DrawingSpec

LEMMA DrawingsKept ==
  ASSUME DrawingInv
  PROVE  StrokesKept
<1>1. Retained
  <2> SUFFICES ASSUME NEW d \in InkDevices, NEW r \in Needed(d) PROVE Intact(d, r)
    BY DEF Retained
  <2>1. Needed(d) = NeededBy(inkPages[d], unsent[d])
    BY DEF Needed, NeededBy
  <2>2. IntactIn(sheet[d], NeededBy(inkPages[d], unsent[d]))
    BY DEF DrawingInv, PageInv
  <2> QED BY <2>1, <2>2 DEF IntactIn, Intact
<1>2. NoSilentDrop
  <2> SUFFICES ASSUME NEW v \in AllVersions, NEW w \in AllVersions,
                      v.draft, w.id \in v.parents, ~Behind(v.by, w)
               PROVE  w.root.ink \ v.root.ink \subseteq wiped[v.by]
    BY DEF NoSilentDrop
  <2>1. \A u \in AllVersions : u \in VersionRow /\ OpOf(u) \in AllInkOps
    <3> SUFFICES ASSUME NEW d \in InkDevices, NEW u \in inkPages[d].versions
                 PROVE  u \in VersionRow /\ OpOf(u) \in AllInkOps
      BY DEF AllVersions
    <3>1. inkPages[d] \in PageRow /\ RowsPosted(inkPages[d], AllInkOps)
      BY DEF DrawingInv, DrawingTyped, PageInv, NoteFits
    <3> QED BY <3>1 DEF PageRow, RowsPosted
  <2> DEFINE x == OpOf(v)
             y == OpOf(w)
  <2>2. /\ x.kind = "publish" /\ x.root = v.root /\ x.parents = v.parents /\ x.by = v.by
        /\ x.draft = v.draft /\ x \in AllInkOps
        /\ y.kind = "publish" /\ y.root = w.root /\ y.id = w.id /\ y.by = w.by /\ y \in AllInkOps
    BY <2>1, OpOfIs
  <2> HIDE DEF x, y
  <2>3. ~Behind(x.by, y)
    BY <2>2 DEF Behind
  <2> QED BY <2>2, <2>3 DEF DrawingInv, NoOpDrops
<1> QED BY <1>1, <1>2 DEF StrokesKept

(* No stroke is lost: what the draft, the pen history, a version, a download, the
   outbox or an undoable deletion needs is never collected (collect,
   storage/history.rs:84), and a drawn version drops no stroke of its parent that its
   author did not erase (Store::publish, the expected revision of patch). *)
THEOREM StrokesKeptTheorem == DrawingSpec => []StrokesKept
<1>1. DrawingInv => StrokesKept
  BY DrawingsKept
<1> QED BY <1>1, DrawingInvTheorem, PTL

----------------------------------------------------------------------------
(* What a step of device d must do to a note for HeadAdoption to hold: leave *)
(* it in use, looking the same or showing its head; and what synchronisation  *)
(* takes from its log must leave a draft that is in use alone.               *)
Settled(d) ==
    \/ ~AtRest(inkPages'[d], pen'[d])
    \/ Visible(inkPages'[d]) = Visible(inkPages[d])
    \/ HeadShown(inkPages'[d], Bases(d)')
Undisturbed(d) ==
    \/ ~inkPages[d].doc.dirty /\ ~inkPages[d].doc.editing
    \/ pulled'[d] = pulled[d] /\ inkPages'[d].staged = inkPages[d].staged
    \/ pulled'[d] = pulled[d] /\ unsent'[d] # unsent[d]
    \/ ~inkPages'[d].alive
    \/ inkPages'[d].doc.base = inkPages[d].doc.base /\ Ink(inkPages'[d]) = Ink(inkPages[d])
Adopts(d) ==
    /\ \A e \in InkDevices \ {d} : inkPages'[e] = inkPages[e] /\ pulled'[e] = pulled[e]
    /\ Settled(d) /\ Undisturbed(d)

LEMMA AdoptsSo ==
  ASSUME DrawingInv', NEW d \in InkDevices, Adopts(d)
  PROVE  ShowsHead /\ DraftUndisturbed
<1>1. ShowsHead
  <2> SUFFICES ASSUME NEW e \in InkDevices, Visible(inkPages'[e]) # Visible(inkPages[e]),
                      AtRest(inkPages'[e], pen'[e]), NEW v \in Heads(inkPages'[e]),
                      Heads(inkPages'[e]) = {v}, v.have, ~Behind(e, v)'
               PROVE  Ink(inkPages'[e]) = v.root.ink
    BY DEF ShowsHead
  <2>1. e = d
    BY DEF Adopts
  <2>2. HeadShown(inkPages'[d], Bases(d)')
    BY <2>1 DEF Adopts, Settled
  <2>3. inkPages'[d] \in PageRow /\ RowsPosted(inkPages'[d], AllInkOps')
    BY DEF DrawingInv, DrawingTyped, PageInv, NoteFits
  <2>4. v \in inkPages'[d].versions
    BY <2>1 DEF Heads
  <2>5. v \in VersionRow /\ OpOf(v) \in AllInkOps'
    BY <2>3, <2>4 DEF PageRow, RowsPosted
  <2> DEFINE x == OpOf(v)
  <2>6. x \in AllInkOps' /\ x.kind = "publish" /\ x.id = v.id /\ x.by = v.by
    BY <2>5, OpOfIs
  <2> HIDE DEF x
  <2>7. ~Behind(d, x)'
    BY <2>1, <2>6 DEF Behind
  <2>8. x \in Bases(d)'
    BY <2>6, <2>7 DEF Bases
  <2> QED BY <2>1, <2>2, <2>8 DEF HeadShown, x
<1>2. DraftUndisturbed
  BY DEF DraftUndisturbed, Adopts, Undisturbed
<1> QED BY <1>1, <1>2

(* The editor is open afterwards. *)
LEMMA OpenStays ==
  ASSUME DrawingInv, NEW d \in InkDevices,
         \/ OpenEditor(d)
         \/ \E ink \in SUBSET Marks : Patch(d, ink)
         \/ \E step \in {-1, 1} : Navigate(d, step)
  PROVE  Adopts(d)
<1>1. inkPages \in [InkDevices -> PageRow] /\ pen \in [InkDevices -> PenState]
  BY DEF DrawingInv, DrawingTyped
<1>2. pulled' = pulled /\ \A e \in InkDevices \ {d} : inkPages'[e] = inkPages[e]
  BY <1>1 DEF OpenEditor, Patch, Navigate
<1>3. pen'[d].open
  <2>1. CASE OpenEditor(d)
    <3> DEFINE view == Ink(inkPages[d])
               p2 == [pen[d] EXCEPT !.open = TRUE, !.view = view]
    <3>1. pen' = [pen EXCEPT ![d] = p2]
      BY <2>1 DEF OpenEditor
    <3> HIDE DEF view
    <3>2. p2.open
      BY <1>1 DEF PenState
    <3> HIDE DEF p2
    <3> QED BY <1>1, <3>1, <3>2
  <2>2. CASE \E ink \in SUBSET Marks : Patch(d, ink)
    <3>1. PICK ink \in SUBSET Marks : Patch(d, ink)
      BY <2>2
    <3>2. pen[d].open /\ pen' = [pen EXCEPT ![d].view = ink]
      BY <3>1 DEF Patch
    <3> QED BY <1>1, <3>2 DEF PenState
  <2>3. CASE \E step \in {-1, 1} : Navigate(d, step)
    <3>1. PICK step \in {-1, 1} : Navigate(d, step)
      BY <2>3
    <3>2. PICK view : pen[d].open /\ pen' = [pen EXCEPT ![d].view = view]
      BY <3>1 DEF Navigate
    <3> QED BY <1>1, <3>2 DEF PenState
  <2> QED BY <2>1, <2>2, <2>3
<1>4. inkPages'[d].staged = inkPages[d].staged
  <2>1. CASE OpenEditor(d)
    <3> DEFINE doc == [inkPages[d].doc EXCEPT !.editing = TRUE, !.seen = TRUE]
    <3>1. inkPages' = [inkPages EXCEPT ![d] = [inkPages[d] EXCEPT !.doc = doc]]
      BY <2>1 DEF OpenEditor
    <3> HIDE DEF doc
    <3> QED BY <1>1, <3>1 DEF PageRow
  <2>2. CASE \E ink \in SUBSET Marks : Patch(d, ink)
    <3>1. PICK ink \in SUBSET Marks : Patch(d, ink)
      BY <2>2
    <3>2. PICK hist, doc : inkPages' = [inkPages EXCEPT ![d] =
             [inkPages[d] EXCEPT !.hist = hist, !.doc = doc]]
      BY <3>1 DEF Patch
    <3> QED BY <1>1, <3>2 DEF PageRow
  <2>3. CASE \E step \in {-1, 1} : Navigate(d, step)
    <3>1. PICK step \in {-1, 1} : Navigate(d, step)
      BY <2>3
    <3>2. PICK doc : inkPages' = [inkPages EXCEPT ![d].doc = doc]
      <4> DEFINE doc == [inkPages[d].doc EXCEPT !.root = inkPages[d].hist[inkPages[d].doc.cursor + step],
                                                !.cursor = inkPages[d].doc.cursor + step,
                                                !.dirty = TRUE]
      <4>1. inkPages' = [inkPages EXCEPT ![d].doc = doc]
        BY <1>1, <3>1 DEF Navigate
      <4> QED BY <4>1
    <3> QED BY <1>1, <3>2 DEF PageRow
  <2> QED BY <2>1, <2>2, <2>3
<1> QED BY <1>2, <1>3, <1>4 DEF Adopts, Settled, Undisturbed, AtRest

(* The note is not touched. *)
LEMMA RowsSame ==
  ASSUME NEW d \in InkDevices, UNCHANGED <<inkPages, pulled>>
  PROVE  Adopts(d)
BY DEF Adopts, Settled, Undisturbed

(* One note is rewritten, and looks the same. *)
LEMMA LooksSame ==
  ASSUME DrawingInv, NEW d \in InkDevices, NEW m,
         inkPages' = [inkPages EXCEPT ![d] = m], pulled' = pulled,
         m.alive = inkPages[d].alive, Ink(m) = Ink(inkPages[d]), m.versions = inkPages[d].versions,
         m.doc.editing = inkPages[d].doc.editing, m.doc.base = inkPages[d].doc.base
  PROVE  Adopts(d)
<1>1. inkPages'[d] = m /\ \A e \in InkDevices \ {d} : inkPages'[e] = inkPages[e]
  BY DEF DrawingInv, DrawingTyped
<1>2. Visible(m) = Visible(inkPages[d])
  BY DEF Visible
<1> QED BY <1>1, <1>2 DEF Adopts, Settled, Undisturbed

LEMMA PackAdopts ==
  ASSUME DrawingInv, NEW d \in InkDevices, Pack(d)
  PROVE  Adopts(d)
<1> DEFINE n == inkPages[d]
           plan == pen[d].plan
           m == Packed(n, plan)
<1>1. n \in PageRow /\ plan \in SUBSET SUBSET Marks /\ RowsFit(n) /\ inkPages \in [InkDevices -> PageRow]
  BY NoteOf DEF PenState, NoteFits, DrawingInv, DrawingTyped
<1>2. /\ pulled' = pulled
      /\ inkPages' = [inkPages EXCEPT ![d] = IF PackSkipped(n, plan) THEN n ELSE m]
  BY DEF Pack
<1>3. CASE PackSkipped(n, plan)
  <2>1. inkPages' = inkPages
    BY <1>1, <1>2, <1>3
  <2> QED BY <1>2, <2>1, RowsSame
<1>4. CASE ~PackSkipped(n, plan)
  <2>1. inkPages' = [inkPages EXCEPT ![d] = m]
    BY <1>2, <1>4
  <2>2. /\ Ink(m) = Ink(n) /\ m.alive = n.alive /\ m.versions = n.versions /\ m.doc.base = n.doc.base
    BY <1>1, PackedIs
  <2>3. m.doc.editing = n.doc.editing
    <3> DEFINE hist == RepackedHistory(n, plan)
               root == IF n.doc.root = NoRoot THEN NoRoot ELSE hist[n.doc.cursor]
               doc == [n.doc EXCEPT !.root = root]
    <3>1. m = [n EXCEPT !.hist = hist, !.sealed = n.sealed \cup {UNION plan}, !.doc = doc]
      BY DEF Packed
    <3>2. doc.editing = n.doc.editing
      BY <1>1 DEF PageRow, DraftRow
    <3> HIDE DEF hist, doc
    <3>3. m.doc = doc
      BY <1>1, <3>1 DEF PageRow
    <3> QED BY <3>2, <3>3
  <2> HIDE DEF m
  <2> QED BY <1>2, <2>1, <2>2, <2>3, LooksSame
<1> QED BY <1>3, <1>4

LEMMA RequestPublicationAdopts ==
  ASSUME DrawingInv, NEW d \in InkDevices, RequestPublication(d)
  PROVE  Adopts(d)
<1> DEFINE n == inkPages[d]
           doc == [n.doc EXCEPT !.requested = n.doc.requested \/ n.doc.dirty]
           m == [n EXCEPT !.doc = doc]
<1>1. n \in PageRow /\ n.doc \in DraftRow
  BY NoteOf DEF PageRow
<1>2. /\ doc \in DraftRow /\ doc.root = n.doc.root /\ doc.editing = n.doc.editing
      /\ doc.base = n.doc.base
  BY <1>1 DEF DraftRow
<1>3. inkPages' = [inkPages EXCEPT ![d] = m] /\ pulled' = pulled
  BY DEF RequestPublication
<1> HIDE DEF doc
<1>4. m.doc = doc /\ m.alive = n.alive /\ m.versions = n.versions
  BY <1>1, <1>2, PageDoc
<1> HIDE DEF m
<1>5. Ink(m) = Ink(n)
  BY <1>2, <1>4 DEF Ink
<1> QED BY <1>2, <1>3, <1>4, <1>5, LooksSame

LEMMA FetchAdopts ==
  ASSUME DrawingInv, NEW d \in InkDevices, Fetch(d)
  PROVE  Adopts(d)
<1> DEFINE n == inkPages[d]
           staged == n.staged \cup {NextOp(d).root}
           sealed == n.sealed \cup NextOp(d).root.chunks
           m == [n EXCEPT !.staged = staged, !.sealed = sealed]
<1>1. n \in PageRow
  BY NoteOf
<1>2. inkPages' = [inkPages EXCEPT ![d] = m] /\ pulled' = pulled
  BY DEF Fetch
<1> HIDE DEF staged, sealed
<1>3. m.doc = n.doc /\ m.alive = n.alive /\ m.versions = n.versions
  BY <1>1 DEF PageRow
<1> HIDE DEF m
<1>4. Ink(m) = Ink(n)
  BY <1>3 DEF Ink
<1> QED BY <1>2, <1>3, <1>4, LooksSame

LEMMA DeleteDrawingAdopts ==
  ASSUME DrawingInv, NEW d \in InkDevices, DeleteDrawing(d)
  PROVE  Adopts(d)
<1> DEFINE n == inkPages[d]
<1>1. n \in PageRow /\ inkPages \in [InkDevices -> PageRow] /\ pulled' = pulled
  BY NoteOf DEF DeleteDrawing, DrawingInv, DrawingTyped
<1>2. PICK variants \in VariantOrders(n) :
         inkPages' = [inkPages EXCEPT ![d] = Purged([n EXCEPT !.pins = CapturedPage(n, variants)])]
  BY DEF DeleteDrawing
<1> DEFINE pins == CapturedPage(n, variants)
           kept == [n EXCEPT !.pins = pins]
           hist == [i \in {} |-> Blank]
           staged == kept.staged \ {v.root : v \in kept.versions}
           m == [kept EXCEPT !.alive = FALSE, !.versions = {}, !.hist = hist, !.staged = staged,
                             !.doc = EmptyDoc]
<1>3. inkPages' = [inkPages EXCEPT ![d] = m]
  BY <1>2 DEF Purged
<1> HIDE DEF pins, hist, staged
<1>4. ~m.alive
  BY <1>1 DEF PageRow
<1> HIDE DEF m
<1>5. ~inkPages'[d].alive /\ \A e \in InkDevices \ {d} : inkPages'[e] = inkPages[e]
  BY <1>1, <1>3, <1>4
<1> QED BY <1>1, <1>5 DEF Adopts, Settled, Undisturbed, AtRest

LEMMA PublishInkAdopts ==
  ASSUME DrawingInv, NEW d \in InkDevices, PublishInk(d)
  PROVE  Adopts(d)
<1> DEFINE n == inkPages[d]
<1>1. /\ inkPages \in [InkDevices -> PageRow] /\ pen \in [InkDevices -> PenState] /\ n \in PageRow
      /\ unsent \in [InkDevices -> Seq(InkOp)]
  BY DEF DrawingInv, DrawingTyped
<1>2. pulled' = pulled /\ pen'[d].finish = IF n.alive THEN "published" ELSE "no"
  BY <1>1 DEF PublishInk, PenState
<1>3. CASE ~n.alive
  <2>1. UNCHANGED <<inkPages, pulled>>
    BY <1>3 DEF PublishInk
  <2> QED BY <2>1, RowsSame
<1>4. CASE n.alive
  <2>1. PICK m : inkPages' = [inkPages EXCEPT ![d] = m]
    BY <1>4 DEF PublishInk
  <2>2. ~AtRest(inkPages'[d], pen'[d])
    BY <1>2, <1>4 DEF AtRest
  <2>3. inkPages'[d].staged = n.staged \/ unsent'[d] # unsent[d]
    <3>1. CASE inkPages' = [inkPages EXCEPT ![d] = [n EXCEPT !.doc.dirty = FALSE, !.doc.requested = FALSE]]
      <4> DEFINE doc == [n.doc EXCEPT !.dirty = FALSE, !.requested = FALSE]
      <4>1. inkPages' = [inkPages EXCEPT ![d] = [n EXCEPT !.doc = doc]]
        BY <3>1
      <4> HIDE DEF doc
      <4> QED BY <1>1, <4>1 DEF PageRow
    <3>2. CASE \E op : unsent' = [unsent EXCEPT ![d] = Append(unsent[d], op)]
      <4>1. PICK op : unsent' = [unsent EXCEPT ![d] = Append(unsent[d], op)]
        BY <3>2
      <4>2. unsent'[d] = Append(unsent[d], op) /\ Len(unsent[d]) \in Nat
        BY <1>1, <4>1
      <4>3. Len(Append(unsent[d], op)) = Len(unsent[d]) + 1
        BY <1>1
      <4> QED BY <4>2, <4>3
    <3> QED BY <1>4, <3>1, <3>2 DEF PublishInk
  <2> QED BY <1>1, <1>2, <2>1, <2>2, <2>3 DEF Adopts, Settled, Undisturbed
<1> QED BY <1>3, <1>4

LEMMA CloseEditorAdopts ==
  ASSUME DrawingInv, NEW d \in InkDevices, CloseEditor(d)
  PROVE  Adopts(d)
<1> DEFINE n == inkPages[d]
           doc == [n.doc EXCEPT !.editing = FALSE]
           idle == [n EXCEPT !.doc = doc]
           m == Adopted(idle)
           ops == AllInkOps
           last == inkOps
           gone == wiped[d]
           xs == Bases(d)
<1>1. n \in PageRow /\ n.doc \in DraftRow /\ inkPages \in [InkDevices -> PageRow]
  BY NoteOf DEF PageRow, DrawingInv, DrawingTyped
<1>2. UNCHANGED <<unsent, serverOps, pulled>>
  BY DEF CloseEditor
<1>3. CASE ~n.alive
  <2>1. inkPages' = inkPages
    BY <1>1, <1>3 DEF CloseEditor
  <2> QED BY <1>2, <2>1, RowsSame
<1>4. CASE n.alive
  <2>1. inkPages' = [inkPages EXCEPT ![d] = Closed(n)]
    BY <1>1, <1>4 DEF CloseEditor
  <2>2. inkPages' = [inkPages EXCEPT ![d] = m]
    BY <2>1 DEF Closed
  <2>3. /\ doc \in DraftRow /\ doc.root = n.doc.root /\ doc.cursor = n.doc.cursor
        /\ doc.dirty = n.doc.dirty /\ doc.base = n.doc.base /\ ~doc.editing
    BY <1>1 DEF DraftRow
  <2> HIDE DEF doc
  <2>4. /\ idle \in PageRow /\ idle.doc = doc /\ idle.alive = n.alive /\ idle.hist = n.hist
        /\ idle.versions = n.versions /\ idle.staged = n.staged /\ idle.pins = n.pins
    BY <1>1, <2>3, PageDoc
  <2> HIDE DEF idle
  <2>5. NoteFits(n, ops, last, gone, xs) /\ last \in Nat /\ Ledger(ops, last) /\ xs \subseteq ops
    BY NoteOf
  <2>6. Bases(d)' = xs
    BY <1>2 DEF Bases, Behind, AllInkOps
  <2> HIDE DEF ops, last, gone, xs
  <2>7. NoteFits(idle, ops, last, gone, xs)
    BY <1>1, <2>3, <2>4, <2>5, SameDrawing
  <2>8. ~idle.doc.dirty => HeadShown(m, xs)
    BY <2>3, <2>4, <2>5, <2>7, AdoptKeeps
  <2>9. m.staged = n.staged /\ m.doc.dirty = idle.doc.dirty
    BY <2>4, AdoptedIs
  <2> HIDE DEF m
  <2>10. inkPages'[d] = m /\ \A e \in InkDevices \ {d} : inkPages'[e] = inkPages[e]
    BY <1>1, <2>2
  <2>11. Settled(d)
    BY <2>6, <2>8, <2>9, <2>10 DEF Settled, AtRest
  <2> QED BY <1>2, <2>9, <2>10, <2>11 DEF Adopts, Undisturbed
<1> QED BY <1>3, <1>4

LEMMA ApplyNextAdopts ==
  ASSUME DrawingInv, NEW d \in InkDevices, ApplyNext(d)
  PROVE  Adopts(d)
<1> DEFINE n == inkPages[d]
           op == NextOp(d)
           after == CASE op.by = d -> n
                   [] op.by # d /\ op.kind = "publish" -> WithVersion(n, op)
                   [] op.by # d /\ op.kind = "delete" -> Purged(n)
                   [] op.by # d /\ op.kind = "create" -> [n EXCEPT !.alive = TRUE]
           ops == AllInkOps
           xs == Bases(d)
           gone == wiped[d]
           last == inkOps
<1>1. /\ inkPages' = [inkPages EXCEPT ![d] = after] /\ pulled[d] < Len(serverOps)
      /\ UNCHANGED <<unsent, serverOps>> /\ pulled' = [pulled EXCEPT ![d] = @ + 1]
  BY DEF ApplyNext
<1>2. op \in ops /\ (op.kind = "publish" => op \in PublishOp)
      /\ op.kind \in {"publish", "delete", "create"}
  BY <1>1, NextOpIs
<1>3. /\ n \in PageRow /\ last \in Nat /\ Ledger(ops, last) /\ xs \subseteq ops
      /\ NoteFits(n, ops, last, gone, xs) /\ DeadAtRest(n, xs) /\ pulled \in [InkDevices -> Nat]
      /\ inkPages \in [InkDevices -> PageRow]
  BY NoteOf DEF DrawingInv, DrawingTyped
<1>4. /\ op.by = d => after = n
      /\ op.by # d /\ op.kind = "publish" => after = WithVersion(n, op)
      /\ op.by # d /\ op.kind = "delete" => after = Purged(n)
      /\ op.by # d /\ op.kind = "create" => after = [n EXCEPT !.alive = TRUE]
  OBVIOUS
<1>5. Bases(d)' = xs
  BY <1>1 DEF Bases, Behind, AllInkOps
<1>6. inkPages'[d] = after
  BY <1>1, <1>3
<1>7. \A e \in InkDevices \ {d} : inkPages'[e] = inkPages[e] /\ pulled'[e] = pulled[e]
  BY <1>1, <1>3
<1> HIDE DEF op, after, ops, xs, gone, last, n
<1>8. /\ after = n \/ HeadShown(after, xs) \/ ~after.alive \/ after.doc.dirty \/ after.doc.editing
      /\ (~n.doc.dirty /\ ~n.doc.editing) \/ ~after.alive \/ after.doc = n.doc
  <2>1. CASE op.by = d
    BY <1>4, <2>1
  <2>2. CASE op.by # d /\ op.kind = "publish"
    <3>1. after = WithVersion(n, op) /\ op \in PublishOp
      BY <1>2, <1>4, <2>2
    <3>2. /\ after.doc.dirty = n.doc.dirty /\ after.doc.editing = n.doc.editing
          /\ n.doc.dirty \/ n.doc.editing => after.doc = n.doc
      BY <1>3, <3>1, WithVersionIs
    <3>3. after = n \/ (~n.doc.dirty /\ ~n.doc.editing => HeadShown(after, xs))
      BY <1>2, <1>3, <3>1, WithVersionKeeps
    <3> QED BY <3>2, <3>3
  <2>3. CASE op.by # d /\ op.kind = "delete"
    <3>1. /\ n.pins.heads \subseteq 0 .. last
          /\ ~n.pins.kept => n.pins = NoPins
          /\ n.pins.root # NoRoot =>
               n.pins.cursor \in DOMAIN n.pins.hist /\ n.pins.hist[n.pins.cursor] = n.pins.root
      BY <1>3 DEF NoteFits, RowsFit, RowsNumbered
    <3>2. ~after.alive
      BY <1>3, <1>4, <2>3, <3>1, PurgedIs
    <3> QED BY <3>2
  <2>4. CASE op.by # d /\ op.kind = "create"
    <3>1. after = [n EXCEPT !.alive = TRUE]
      BY <1>4, <2>4
    <3>2. after.doc = n.doc /\ after.hist = n.hist /\ after.versions = n.versions
          /\ after.pins = n.pins /\ after \in PageRow /\ (n.alive => after = n)
      BY <1>3, <3>1 DEF PageRow
    <3>3. HeadShown(n, xs) <=> HeadShown(after, xs)
      BY <1>3, <3>2, SameDrawing
    <3> QED BY <1>3, <3>2, <3>3 DEF DeadAtRest
  <2> QED BY <1>2, <2>1, <2>2, <2>3, <2>4
<1>9. Settled(d)
  BY <1>5, <1>6, <1>8 DEF Settled, AtRest, n
<1>10. Undisturbed(d)
  BY <1>6, <1>8 DEF Undisturbed, Ink, n
<1> QED BY <1>7, <1>9, <1>10 DEF Adopts

LEMMA ResolveHeadsAdopts ==
  ASSUME DrawingInv, NEW d \in InkDevices, NEW keep \in inkPages[d].versions, ResolveHeads(d, keep)
  PROVE  Adopts(d)
<1>1. /\ inkPages \in [InkDevices -> PageRow] /\ unsent[d] \in Seq(InkOp)
      /\ unsent \in [InkDevices -> Seq(InkOp)]
  BY DEF DrawingInv, DrawingTyped
<1>2. PICK m, op : /\ inkPages' = [inkPages EXCEPT ![d] = m]
                   /\ unsent' = [unsent EXCEPT ![d] = Append(unsent[d], op)] /\ pulled' = pulled
  BY DEF ResolveHeads
<1>3. unsent'[d] # unsent[d]
  <2>1. unsent'[d] = Append(unsent[d], op) /\ Len(unsent[d]) \in Nat
    BY <1>1, <1>2
  <2>2. Len(Append(unsent[d], op)) = Len(unsent[d]) + 1
    BY <1>1
  <2> QED BY <2>1, <2>2
<1>4. HeadShown(inkPages'[d], Bases(d)')
  BY ResolveHeadsKeeps
<1>5. \A e \in InkDevices \ {d} : inkPages'[e] = inkPages[e] /\ pulled'[e] = pulled[e]
  BY <1>1, <1>2
<1> QED BY <1>2, <1>3, <1>4, <1>5 DEF Adopts, Settled, Undisturbed

LEMMA RestoreDrawingAdopts ==
  ASSUME DrawingInv, NEW d \in InkDevices, RestoreDrawing(d)
  PROVE  Adopts(d)
<1> DEFINE n == inkPages[d]
           p == n.pins
           k == Len(p.variants)
           touched == n.alive \/ n.versions # {} \/ n.doc.root # NoRoot
           gone == [n EXCEPT !.pins = NoPins]
           doc == [EmptyDoc EXCEPT !.root = p.root, !.cursor = p.cursor,
                                   !.base = IF k = 0 THEN 0 ELSE inkOps + 2]
           versions == {BackRow(d, p, i) : i \in 1 .. k}
           sealed == n.sealed \cup UNION {r.chunks : r \in Range(p.variants)}
           back == [n EXCEPT !.alive = TRUE, !.hist = p.hist, !.pins = NoPins,
                             !.versions = versions, !.sealed = sealed, !.doc = doc]
<1>1. n \in PageRow /\ inkPages \in [InkDevices -> PageRow]
  BY DEF DrawingInv, DrawingTyped
<1>2. UNCHANGED <<pen, serverOps, pulled, wiped, scope>>
  BY DEF RestoreDrawing
<1>3. CASE touched
  <2>1. inkPages' = [inkPages EXCEPT ![d] = gone]
    BY <1>3 DEF RestoreDrawing
  <2>2. gone.alive = n.alive /\ gone.doc = n.doc /\ gone.versions = n.versions
    BY <1>1 DEF PageRow
  <2> HIDE DEF gone
  <2>3. Ink(gone) = Ink(n)
    BY <2>2 DEF Ink
  <2> QED BY <1>2, <2>1, <2>2, <2>3, LooksSame
<1>4. CASE ~touched
  <2>1. HeadShown(inkPages'[d], Bases(d)')
    BY <1>2, <1>4, BringBack DEF RestoreDrawing, BackRow, BackOp, BackCreate
  <2>2. inkPages' = [inkPages EXCEPT ![d] = back]
    BY <1>4 DEF RestoreDrawing, BackRow, BackOp
  <2> HIDE DEF doc, versions, sealed
  <2>3. back.staged = n.staged
    BY <1>1 DEF PageRow
  <2> HIDE DEF back
  <2>4. inkPages'[d] = back /\ \A e \in InkDevices \ {d} : inkPages'[e] = inkPages[e]
    BY <1>1, <2>2
  <2> QED BY <1>2, <2>1, <2>3, <2>4 DEF Adopts, Settled, Undisturbed
<1> QED BY <1>3, <1>4

LEMMA DrawingStepAdopts ==
  ASSUME DrawingInv, DrawingNext
  PROVE  \E d \in InkDevices : Adopts(d)
<1>1. CASE \E d \in scope.pens : OpenEditor(d)
  BY <1>1, ScopeDevices, OpenStays
<1>2. CASE \E d \in InkDevices, m \in scope.strokes : Draw(d, m)
  <2>1. PICK d \in InkDevices, m \in scope.strokes : Draw(d, m)
    BY <1>2
  <2>2. pen[d].view \cup {m} \in SUBSET Marks
    BY DrawingAssumption DEF DrawingInv, DrawingTyped, PenState
  <2> QED BY <2>1, <2>2, OpenStays DEF Draw
<1>3. CASE \E d \in scope.erasers, m \in Marks : Erase(d, m)
  <2>1. PICK d \in scope.erasers, m \in Marks : Erase(d, m)
    BY <1>3
  <2>2. d \in InkDevices
    BY ScopeDevices
  <2>3. pen[d].view \ {m} \in SUBSET Marks
    BY <2>2 DEF DrawingInv, DrawingTyped, PenState
  <2> QED BY <2>1, <2>2, <2>3, OpenStays DEF Erase
<1>4. CASE \E d \in scope.erasers, step \in {-1, 1} : Navigate(d, step)
  BY <1>4, ScopeDevices, OpenStays
<1>5. CASE \E d \in InkDevices : Reload(d)
  BY <1>5, RowsSame DEF Reload
<1>6. CASE \E d \in scope.erasers : PreparePack(d)
  BY <1>6, ScopeDevices, RowsSame DEF PreparePack
<1>7. CASE \E d \in scope.erasers : Pack(d)
  BY <1>7, ScopeDevices, PackAdopts
<1>8. CASE \E d \in InkDevices : RequestPublication(d)
  BY <1>8, RequestPublicationAdopts
<1>9. CASE \E d \in InkDevices : PublishInk(d)
  BY <1>9, PublishInkAdopts
<1>10. CASE \E d \in InkDevices : CloseEditor(d)
  BY <1>10, CloseEditorAdopts
<1>11. CASE \E d \in scope.erasers : CrashPen(d)
  BY <1>11, ScopeDevices, RowsSame DEF CrashPen
<1>12. CASE \E d \in InkDevices : Push(d)
  BY <1>12, RowsSame DEF Push
<1>13. CASE \E d \in InkDevices : Fetch(d)
  BY <1>13, FetchAdopts
<1>14. CASE \E d \in InkDevices : ApplyNext(d)
  BY <1>14, ApplyNextAdopts
<1>15. CASE \E d \in InkDevices : \E keep \in inkPages[d].versions : ResolveHeads(d, keep)
  BY <1>15, ResolveHeadsAdopts
<1>16. CASE \E d \in InkDevices : DeleteDrawing(d)
  BY <1>16, DeleteDrawingAdopts
<1>17. CASE \E d \in InkDevices : RestoreDrawing(d)
  BY <1>17, RestoreDrawingAdopts
<1> QED
  BY <1>1, <1>2, <1>3, <1>4, <1>5, <1>6, <1>7, <1>8, <1>9, <1>10, <1>11, <1>12, <1>13, <1>14,
     <1>15, <1>16, <1>17 DEF DrawingNext

(* A single head replaces a drawing exactly when nobody is at work on it: a note that
   visibly changes and is at rest shows its head, and synchronisation leaves a dirty or
   open draft and its base alone (adopt_single_head, close_editor, resolve). *)
THEOREM HeadAdoptionTheorem == DrawingSpec => HeadAdoption
<1>1. DrawingInv /\ DrawingInv' /\ [DrawingNext]_drawingVars
        => [ShowsHead /\ DraftUndisturbed]_drawingVars
  BY DrawingStepAdopts, AdoptsSo
<1> QED BY <1>1, DrawingInvTheorem, PTL DEF DrawingSpec, HeadAdoption
=============================================================================

---------------------------- MODULE SqliteWorker ----------------------------
(***************************************************************************)
(* The SQLite connection of notes-core (sqlite.rs): a cloneable handle     *)
(* backed by one dedicated thread.  A call first waits for one of Capacity *)
(* permits, then sends its job through a gate, and the permit travels with *)
(* the job until the job has run.  Closing stops admission, puts Close     *)
(* behind the last accepted job, and a reaper thread joins the worker and  *)
(* publishes the outcome every close waiter sees.  A caller may drop its   *)
(* future at any await point; an accepted job runs all the same.           *)
(***************************************************************************)
EXTENDS Integers, Sequences, FiniteSets

CONSTANTS
    Callers,    \* futures that call the connection, one call each
    Capacity    \* MAX_ACCEPTED_JOBS

VARIABLES
    callStage,   \* where each call is
    admitting,   \* the semaphore is not closed
    permits,     \* permits left in the semaphore
    sender,      \* the gate still holds the channel's sender
    inbox,       \* messages sent and not yet received
    worker,      \* state of the SQLite thread
    ran,         \* calls whose job has run
    closeStage   \* "no", "begun" (semaphore closed), "sent" (thread taken), "done"

CloseMessage == "Close"

Stages == {"idle", "waiting", "permitted", "accepted", "answered", "refused",
           "dropped", "unheard"}

sqliteVars == <<callStage, admitting, permits, sender, inbox, worker, ran, closeStage>>

\* Close is none of the calls.
ASSUME CallersAssumption ==
    /\ IsFiniteSet(Callers)
    /\ CloseMessage \notin Callers
    /\ Capacity \in Nat \ {0}

\* Calls accepted and not yet run; "unheard" is an accepted call whose caller
\* dropped the future.
Accepted == {c \in Callers : callStage[c] \in {"accepted", "unheard"}}

\* Calls that hold a permit and have not reached the gate.
Permitted == {c \in Callers : callStage[c] = "permitted"}

SqliteInit ==
    /\ callStage = [c \in Callers |-> "idle"]
    /\ admitting = TRUE
    /\ permits = Capacity
    /\ sender = TRUE
    /\ inbox = <<>>
    /\ worker = "opening"
    /\ ran = {}
    /\ closeStage = "no"

\* The opener ran: the thread starts receiving, or ends when it failed or when
\* nobody waits for the connection any more.
Opened(ok) ==
    /\ worker = "opening"
    /\ worker' = IF ok THEN "running" ELSE "ended"
    /\ UNCHANGED <<callStage, admitting, permits, sender, inbox, ran, closeStage>>

Call(c) ==
    /\ callStage[c] = "idle"
    /\ worker # "opening"
    /\ callStage' = [callStage EXCEPT ![c] = "waiting"]
    /\ UNCHANGED <<admitting, permits, sender, inbox, worker, ran, closeStage>>

AcquirePermit(c) ==
    /\ callStage[c] = "waiting"
    /\ admitting
    /\ permits > 0
    /\ permits' = permits - 1
    /\ callStage' = [callStage EXCEPT ![c] = "permitted"]
    /\ UNCHANGED <<admitting, sender, inbox, worker, ran, closeStage>>

\* Closing the semaphore wakes every caller that waits for a permit.
RefusedAdmission(c) ==
    /\ callStage[c] = "waiting"
    /\ ~admitting
    /\ callStage' = [callStage EXCEPT ![c] = "refused"]
    /\ UNCHANGED <<admitting, permits, sender, inbox, worker, ran, closeStage>>

(* Mutant of GateOpen: the sender is cloned before the gate is checked. *)
GateOpen_Cloned == worker # "ended"

\* The gate decides under its lock: with the sender gone, or the receiving end
\* dropped with the thread, the call fails and its permit is returned.
GateOpen == sender /\ worker # "ended"

Submit(c) ==
    /\ callStage[c] = "permitted"
    /\ IF GateOpen
         THEN /\ inbox' = Append(inbox, c)
              /\ callStage' = [callStage EXCEPT ![c] = "accepted"]
              /\ permits' = permits
         ELSE /\ inbox' = inbox
              /\ callStage' = [callStage EXCEPT ![c] = "refused"]
              /\ permits' = permits + 1
    /\ UNCHANGED <<admitting, sender, worker, ran, closeStage>>

\* The caller drops its future while it waits, or after its job was accepted.
DropFuture(c) ==
    /\ callStage[c] \in {"waiting", "accepted"}
    /\ callStage' = [callStage EXCEPT
           ![c] = IF @ = "waiting" THEN "dropped" ELSE "unheard"]
    /\ UNCHANGED <<admitting, permits, sender, inbox, worker, ran, closeStage>>

(* Mutant of PermitsAfterJob: the permit stays with the dead job. *)
PermitsAfterJob_Leak == permits

\* What an executed (or panicked) job gives back.
PermitsAfterJob == permits + 1

RunJob ==
    /\ worker = "running"
    /\ inbox # <<>>
    /\ Head(inbox) # CloseMessage
    /\ LET c == Head(inbox)
       IN  /\ ran' = ran \cup {c}
           /\ callStage' = [callStage EXCEPT
                  ![c] = IF @ = "unheard" THEN "dropped" ELSE "answered"]
    /\ inbox' = Tail(inbox)
    /\ permits' = PermitsAfterJob
    /\ UNCHANGED <<admitting, sender, worker, closeStage>>

\* The loop ends at Close; whatever is still in the channel is lost with it.
ReceiveClose ==
    /\ worker = "running"
    /\ inbox # <<>>
    /\ Head(inbox) = CloseMessage
    /\ worker' = "ended"
    /\ inbox' = <<>>
    /\ UNCHANGED <<callStage, admitting, permits, sender, ran, closeStage>>

\* begin_close: the semaphore first, the gate afterwards.
CloseAdmission ==
    /\ closeStage = "no"
    /\ worker # "opening"
    /\ closeStage' = "begun"
    /\ admitting' = FALSE
    /\ UNCHANGED <<callStage, permits, sender, inbox, worker, ran>>

CloseGate ==
    /\ closeStage = "begun"
    /\ closeStage' = "sent"
    /\ sender' = FALSE
    /\ inbox' = IF worker = "ended" THEN inbox ELSE Append(inbox, CloseMessage)
    /\ UNCHANGED <<callStage, admitting, permits, worker, ran>>

\* The reaper joins the thread and publishes the outcome.
Reap ==
    /\ closeStage = "sent"
    /\ worker = "ended"
    /\ closeStage' = "done"
    /\ UNCHANGED <<callStage, admitting, permits, sender, inbox, worker, ran>>

SqliteNext ==
    \/ \E ok \in BOOLEAN : Opened(ok)
    \/ \E c \in Callers :
          \/ Call(c)
          \/ AcquirePermit(c)
          \/ RefusedAdmission(c)
          \/ Submit(c)
          \/ DropFuture(c)
    \/ RunJob
    \/ ReceiveClose
    \/ CloseAdmission
    \/ CloseGate
    \/ Reap

SqliteSpec == SqliteInit /\ [][SqliteNext]_sqliteVars

\* The executor polls every woken future, the semaphore serves its waiters in
\* order (so a permit that keeps coming back reaches each of them), and the
\* worker thread and the reaper run.
SqliteFairness ==
    /\ \A c \in Callers :
          /\ SF_sqliteVars(AcquirePermit(c))
          /\ WF_sqliteVars(RefusedAdmission(c))
          /\ WF_sqliteVars(Submit(c))
    /\ WF_sqliteVars(RunJob)
    /\ WF_sqliteVars(ReceiveClose)
    /\ WF_sqliteVars(CloseGate)
    /\ WF_sqliteVars(Reap)

SqliteFairSpec == SqliteSpec /\ SqliteFairness
-----------------------------------------------------------------------------
\* Every job the gate accepted has run before a close waiter is told that the
\* connection is closed, whether or not its caller still listens
\* (sqlite.rs:240 close).
AcceptedRun == closeStage = "done" => Accepted = {}

\* The accepted work, running job included, never exceeds the admission limit,
\* and no permit is lost or invented on a refusal, a dropped future or a close
\* (sqlite.rs:18 MAX_ACCEPTED_JOBS).
AdmissionBound == permits + Cardinality(Accepted) + Cardinality(Permitted) = Capacity

\* A call that was made is answered, refused or dropped, also while the
\* connection closes underneath it (sqlite.rs:276 call_at).
CallSettles ==
    \A c \in Callers : callStage[c] = "waiting" ~>
        callStage[c] \in {"answered", "refused", "dropped"}

\* Close never drops an accepted job, and admission neither leaks nor invents
\* permits.
JobsKept == AcceptedRun /\ AdmissionBound
=============================================================================

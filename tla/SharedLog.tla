----------------------------- MODULE SharedLog -----------------------------
(***************************************************************************)
(* What sync promises, without batches, requests or retries: one log that  *)
(* only grows, that lists an operation at most once, and of which every    *)
(* replica knows a prefix next to what it wrote itself.                    *)
(***************************************************************************)
EXTENDS Naturals, Sequences

CONSTANTS Peer, OpId

VARIABLES
  log,      \* the operations in sequence order
  known,    \* [Peer -> SUBSET OpId], what a replica has applied
  pos,      \* [Peer -> Nat], the prefix it has applied
  written   \* every operation written so far

vars == <<log, known, pos, written>>

Init ==
  /\ log = <<>>
  /\ known = [p \in Peer |-> {}]
  /\ pos = [p \in Peer |-> 0]
  /\ written = {}

(* A replica writes offline. *)
Write(p, o) ==
  /\ o \notin written
  /\ written' = written \cup {o}
  /\ known' = [known EXCEPT ![p] = @ \cup {o}]
  /\ UNCHANGED <<log, pos>>

(* A written operation gets the next sequence number. *)
Sequence(o) ==
  /\ o \in written
  /\ \A i \in 1 .. Len(log) : log[i] # o
  /\ log' = Append(log, o)
  /\ UNCHANGED <<known, pos, written>>

(* A replica applies the log up to n. *)
Learn(p, n) ==
  /\ pos[p] <= n
  /\ pos' = [pos EXCEPT ![p] = n]
  /\ known' = [known EXCEPT ![p] = @ \cup {log[i] : i \in 1 .. n}]
  /\ UNCHANGED <<log, written>>

Next ==
  \/ \E p \in Peer, o \in OpId : Write(p, o)
  \/ \E o \in OpId : Sequence(o)
  \/ \E p \in Peer : \E n \in 1 .. Len(log) : Learn(p, n)

Spec == Init /\ [][Next]_vars
============================================================================

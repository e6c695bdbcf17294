---------------------------- MODULE HlcReplicas ----------------------------
(***************************************************************************)
(* Replicas that stamp their operations with Hlc!send and fold every       *)
(* applied remote stamp into `sync_meta.last_hlc` with Hlc!receive         *)
(* (crates/notes-core/src/operation.rs).  The wall clock a replica reads   *)
(* is arbitrary at every step: devices disagree, drift and step backwards. *)
(***************************************************************************)
EXTENDS Hlc

CONSTANTS
  StampedOp,      \* operations that may be authored
  MaxWall    \* bound: largest wall_ms a device reads

ASSUME MaxWallAssumption == MaxWall \in Nat

VARIABLES
  lastHlc,   \* [Device -> Clock or NoClock], the row sync_meta.last_hlc
  stamp,     \* [StampedOp -> Clock or NoClock], envelope.hlc, NoClock: not authored
  applied,   \* [Device -> SUBSET StampedOp], the rows of applied_ops
  saw        \* history: what the author had applied when it stamped the op

vars == <<lastHlc, stamp, applied, saw>>

Init ==
  /\ lastHlc = [d \in Device |-> NoClock]
  /\ stamp = [o \in StampedOp |-> NoClock]
  /\ applied = [d \in Device |-> {}]
  /\ saw = [o \in StampedOp |-> {}]

(* One operation of apply_local_kinds: a batch is this step repeated with the
   same `now`, hidden in one transaction. *)
Author(d, o, now) ==
  /\ stamp[o] = NoClock
  /\ stamp' = [stamp EXCEPT ![o] = Send(lastHlc[d], now, d)]
  /\ lastHlc' = [lastHlc EXCEPT ![d] = Send(lastHlc[d], now, d)]
  /\ saw' = [saw EXCEPT ![o] = applied[d]]
  /\ applied' = [applied EXCEPT ![d] = @ \cup {o}]

(* A remote operation that applied_ops does not hold yet: apply_one, then
   observe_hlc.  A known op_id changes neither row. *)
Observe(d, o, now) ==
  /\ stamp[o] # NoClock
  /\ o \notin applied[d]
  /\ lastHlc' = [lastHlc EXCEPT ![d] = Receive(lastHlc[d], stamp[o], now, d)]
  /\ applied' = [applied EXCEPT ![d] = @ \cup {o}]
  /\ UNCHANGED <<stamp, saw>>

Next ==
  \E d \in Device, o \in StampedOp, now \in 0 .. MaxWall :
    Author(d, o, now) \/ Observe(d, o, now)

Spec == Init /\ [][Next]_vars

----------------------------------------------------------------------------
(* Type invariant of the clock rows and the stamped envelopes. *)
TypeOK ==
  /\ lastHlc \in [Device -> Clock \cup {NoClock}]
  /\ stamp \in [StampedOp -> Clock \cup {NoClock}]
  /\ applied \in [Device -> SUBSET StampedOp]
  /\ saw \in [StampedOp -> SUBSET StampedOp]

Stamped(o) == stamp[o] # NoClock
Unsaturated(o) == stamp[o].counter < MaxCounter

(* An operation authored after its author applied another one is stamped
   later, whatever the wall clocks did in between: last-writer-wins never lets
   the edit a user was looking at beat the edit made on top of it. *)
Causal ==
  \A o \in StampedOp : Stamped(o) /\ Unsaturated(o) =>
    \A p \in saw[o] : Less(stamp[p], stamp[o])

(* No two operations carry the same stamp, so last-writer-wins always has one
   winner (hlc_wins breaks no ties). *)
UniqueStamps ==
  \A o, p \in StampedOp :
    /\ Stamped(o) /\ Stamped(p) /\ o # p
    /\ Unsaturated(o) /\ Unsaturated(p)
    => stamp[o] # stamp[p]

(* (wall, counter) of a covers that of b; the device suffix does not count,
   because the stored clock always ends in the local device. *)
Covers(a, b) == b.wall < a.wall \/ (b.wall = a.wall /\ b.counter <= a.counter)

(* What makes the two properties inductive: the stored clock covers every
   applied operation, and a device has applied whatever carries its suffix. *)
ClockCovers ==
  \A d \in Device : \A o \in applied[d] :
    Stamped(o) /\ lastHlc[d] # NoClock /\ Covers(lastHlc[d], stamp[o])

OwnApplied ==
  \A o \in StampedOp : Stamped(o) => o \in applied[stamp[o].device]

(* Of two stamped operations of one device, the later one saw the earlier. *)
OwnOrdered ==
  \A o, p \in StampedOp :
    /\ Stamped(o) /\ Stamped(p) /\ o # p /\ stamp[o].device = stamp[p].device
    => o \in saw[p] \/ p \in saw[o]

(* Only stamped operations are ever seen. *)
SawStamped == \A o \in StampedOp : \A p \in saw[o] : Stamped(p)

(* The inductive invariant of the clock rows: what send and receive maintain
   together, and Causal and UniqueStamps follow from. *)
ClockInv ==
  /\ TypeOK
  /\ ClockCovers
  /\ OwnApplied
  /\ OwnOrdered
  /\ SawStamped
  /\ Causal

(* The stored clock never goes backwards, not even when the wall clock does
   or a stamp from a device with a fast clock is folded in. *)
ClockMonotone ==
  [][\A d \in Device : lastHlc[d] # NoClock =>
       lastHlc'[d] # NoClock /\ Covers(lastHlc'[d], lastHlc[d])]_vars
============================================================================

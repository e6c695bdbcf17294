-------------------------------- MODULE Hlc --------------------------------
(***************************************************************************)
(* The hybrid logical clock of crates/notes-core/src/hlc.rs: a timestamp   *)
(* is (wall_ms, counter, device_id), ordered lexicographically, and the    *)
(* counter is a 32-bit integer that saturates.                             *)
(***************************************************************************)
EXTENDS Integers

CONSTANTS
  Device,       \* device ids; a UUID is compared as a 128-bit number
  MaxCounter,   \* u32::MAX, the value saturating_add(1) stops at
  NoClock       \* Option::None, a replica that never stored `last_hlc`

Clock == [wall : Nat, counter : 0 .. MaxCounter, device : Device]

ASSUME DeviceAssumption == Device \subseteq Nat
ASSUME MaxCounterAssumption == MaxCounter \in Nat
ASSUME NoClockAssumption == NoClock \notin Clock

(* #[derive(Ord)] on the struct: fields compared in declaration order. *)
Less(a, b) ==
  \/ a.wall < b.wall
  \/ a.wall = b.wall /\ a.counter < b.counter
  \/ a.wall = b.wall /\ a.counter = b.counter /\ a.device < b.device

SaturatingInc(n) == IF n < MaxCounter THEN n + 1 ELSE MaxCounter

MaxOf(a, b) == IF a < b THEN b ELSE a

(* Hlc::send: the stamp of a newly authored operation. *)
Send(previous, now, device) ==
  IF previous # NoClock /\ previous.wall >= now
    THEN [wall |-> previous.wall, counter |-> SaturatingInc(previous.counter),
          device |-> device]
    ELSE [wall |-> now, counter |-> 0, device |-> device]

(* Mutant of Receive: equal walls keep the local counter. *)
Receive_LocalCounter(local, remote, now, device) ==
  LET wall == MaxOf(MaxOf(now, IF local = NoClock THEN 0 ELSE local.wall), remote.wall)
  IN [wall |-> wall, device |-> device,
      counter |-> IF local # NoClock /\ local.wall = wall
                    THEN SaturatingInc(local.counter) ELSE 0]

(* Hlc::receive: the clock a replica stores after it applied a remote op. *)
Receive(local, remote, now, device) ==
  LET localWall == IF local = NoClock THEN 0 ELSE local.wall
      wall == MaxOf(MaxOf(now, localWall), remote.wall)
      atLocal == local # NoClock /\ localWall = wall
      atRemote == remote.wall = wall
      counter ==
        CASE atLocal /\ atRemote  -> SaturatingInc(MaxOf(local.counter, remote.counter))
          [] atLocal /\ ~atRemote -> SaturatingInc(local.counter)
          [] ~atLocal /\ atRemote -> SaturatingInc(remote.counter)
          [] OTHER                -> 0
  IN [wall |-> wall, counter |-> counter, device |-> device]
============================================================================

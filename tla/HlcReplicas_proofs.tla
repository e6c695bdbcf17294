------------------------- MODULE HlcReplicas_proofs -------------------------
(***************************************************************************)
(* Proofs about the clocks of HlcReplicas, for every set of devices and    *)
(* operations, every clock reading and every width of the counter.         *)
(***************************************************************************)
EXTENDS HlcReplicas, TLAPS

(* Hlc::send returns a clock that covers the previous one, and that lies
   strictly above everything the previous one covered while the counter has
   not saturated. *)
LEMMA SendLemma ==
  ASSUME NEW p \in Clock \cup {NoClock}, NEW now \in Nat, NEW d \in Device
  PROVE  /\ Send(p, now, d) \in Clock
         /\ Send(p, now, d) # NoClock
         /\ Send(p, now, d).device = d
         /\ p # NoClock => Covers(Send(p, now, d), p)
         /\ \A q \in Clock :
              p # NoClock /\ Covers(p, q) /\ Send(p, now, d).counter < MaxCounter
                => Less(q, Send(p, now, d))
  BY MaxCounterAssumption, NoClockAssumption, DeviceAssumption, SMTT(30)
  DEF Send, Clock, Covers, Less, SaturatingInc

(* Hlc::receive returns a clock that covers both of its inputs. *)
LEMMA ReceiveLemma ==
  ASSUME NEW p \in Clock \cup {NoClock}, NEW r \in Clock, NEW now \in Nat,
         NEW d \in Device
  PROVE  /\ Receive(p, r, now, d) \in Clock
         /\ Receive(p, r, now, d) # NoClock
         /\ Covers(Receive(p, r, now, d), r)
         /\ p # NoClock => Covers(Receive(p, r, now, d), p)
  BY MaxCounterAssumption, NoClockAssumption, DeviceAssumption, SMTT(60)
  DEF Receive, Clock, Covers, SaturatingInc, MaxOf

(* Covering is transitive. *)
LEMMA CoversTransitive ==
  ASSUME NEW a \in Clock, NEW b \in Clock, NEW c \in Clock,
         Covers(a, b), Covers(b, c)
  PROVE  Covers(a, c)
  BY MaxCounterAssumption DEF Covers, Clock

(* The order on stamps is irreflexive. *)
LEMMA LessIrreflexive ==
  ASSUME NEW a \in Clock
  PROVE  ~ Less(a, a)
<1>1. a.wall \in Nat /\ a.counter \in 0 .. MaxCounter /\ a.device \in Device
  BY DEF Clock
<1>2. a.device \in Nat
  BY <1>1, DeviceAssumption, Zenon
<1>3. a.counter \in Nat
  BY <1>1, MaxCounterAssumption
<1> QED BY <1>1, <1>2, <1>3 DEF Less

(* Authoring an operation keeps the clock invariant. *)
LEMMA AuthorPreserves ==
  ASSUME ClockInv, NEW d \in Device, NEW o \in StampedOp, NEW now \in 0 .. MaxWall,
         Author(d, o, now)
  PROVE  ClockInv'
<1> DEFINE s == Send(lastHlc[d], now, d)
<1> USE DEF Stamped
<1>1. /\ lastHlc[d] \in Clock \cup {NoClock}
      /\ now \in Nat
  BY MaxWallAssumption DEF ClockInv, TypeOK
<1>2. /\ s \in Clock
      /\ s # NoClock
      /\ s.device = d
      /\ lastHlc[d] # NoClock => Covers(s, lastHlc[d])
      /\ \A q \in Clock :
           lastHlc[d] # NoClock /\ Covers(lastHlc[d], q) /\ s.counter < MaxCounter
             => Less(q, s)
  BY <1>1, SendLemma
<1>3. /\ stamp[o] = NoClock
      /\ stamp' = [stamp EXCEPT ![o] = s]
      /\ lastHlc' = [lastHlc EXCEPT ![d] = s]
      /\ saw' = [saw EXCEPT ![o] = applied[d]]
      /\ applied' = [applied EXCEPT ![d] = @ \cup {o}]
  BY DEF Author
<1> HIDE DEF s
<1>4. TypeOK'
  BY <1>2, <1>3 DEF ClockInv, TypeOK
<1>5. \A e \in Device : o \notin applied[e]
  BY <1>3 DEF ClockInv, ClockCovers, TypeOK
<1>6. SawStamped'
  <2> SUFFICES ASSUME NEW q \in StampedOp, NEW p \in saw'[q]
               PROVE  stamp'[p] # NoClock
    BY DEF SawStamped
  <2>1. p \in StampedOp /\ stamp[p] # NoClock
    BY <1>3 DEF ClockInv, TypeOK, SawStamped, ClockCovers
  <2> QED BY <2>1, <1>2, <1>3 DEF ClockInv, TypeOK
<1>7. ClockCovers'
  <2> SUFFICES ASSUME NEW e \in Device, NEW p \in applied'[e]
               PROVE  /\ stamp'[p] # NoClock /\ lastHlc'[e] # NoClock
                      /\ Covers(lastHlc'[e], stamp'[p])
    BY DEF ClockCovers
  <2>1. CASE e # d
    <3>1. p \in applied[e] /\ p # o /\ p \in StampedOp
      BY <2>1, <1>3, <1>5 DEF ClockInv, TypeOK
    <3> QED BY <2>1, <3>1, <1>3 DEF ClockInv, ClockCovers, TypeOK
  <2>2. CASE e = d /\ p = o
    <3>1. stamp'[p] = s /\ lastHlc'[e] = s
      BY <2>2, <1>3 DEF ClockInv, TypeOK
    <3>2. Covers(s, s)
      BY <1>2, MaxCounterAssumption DEF Covers, Clock
    <3> QED BY <3>1, <3>2, <1>2
  <2>3. CASE e = d /\ p # o
    <3>1. p \in applied[d] /\ p \in StampedOp
      BY <2>3, <1>3 DEF ClockInv, TypeOK
    <3>2. /\ stamp[p] # NoClock /\ lastHlc[d] # NoClock
          /\ Covers(lastHlc[d], stamp[p])
      BY <3>1 DEF ClockInv, ClockCovers
    <3>3. stamp[p] \in Clock /\ lastHlc[d] \in Clock
      BY <3>1, <3>2 DEF ClockInv, TypeOK
    <3>4. Covers(s, stamp[p])
      BY <3>2, <3>3, <1>2, CoversTransitive
    <3>5. stamp'[p] = stamp[p] /\ lastHlc'[e] = s
      BY <2>3, <3>1, <1>3 DEF ClockInv, TypeOK
    <3> QED BY <3>2, <3>4, <3>5, <1>2
  <2> QED BY <2>1, <2>2, <2>3
<1>8. OwnApplied'
  BY <1>2, <1>3 DEF ClockInv, TypeOK, OwnApplied, Clock
<1>9. OwnOrdered'
  <2> SUFFICES ASSUME NEW p \in StampedOp, NEW q \in StampedOp,
                      stamp'[p] # NoClock, stamp'[q] # NoClock, p # q,
                      stamp'[p].device = stamp'[q].device
               PROVE  p \in saw'[q] \/ q \in saw'[p]
    BY DEF OwnOrdered
  <2>1. CASE p # o /\ q # o
    BY <2>1, <1>3 DEF ClockInv, TypeOK, OwnOrdered
  <2>2. CASE q = o
    <3>1. stamp[p] # NoClock /\ stamp[p].device = d /\ saw'[q] = applied[d]
      BY <2>2, <1>2, <1>3 DEF ClockInv, TypeOK
    <3> QED BY <3>1 DEF ClockInv, OwnApplied
  <2>3. CASE p = o
    <3>1. stamp[q] # NoClock /\ stamp[q].device = d /\ saw'[p] = applied[d]
      BY <2>3, <1>2, <1>3 DEF ClockInv, TypeOK
    <3> QED BY <3>1 DEF ClockInv, OwnApplied
  <2> QED BY <2>1, <2>2, <2>3
<1>10. Causal'
  <2> SUFFICES ASSUME NEW q \in StampedOp, stamp'[q] # NoClock,
                      stamp'[q].counter < MaxCounter, NEW p \in saw'[q]
               PROVE  Less(stamp'[p], stamp'[q])
    BY DEF Causal, Unsaturated
  <2>1. CASE q = o
    <3>1. p \in applied[d] /\ p \in StampedOp /\ p # o /\ stamp'[q] = s
      BY <2>1, <1>3, <1>5 DEF ClockInv, TypeOK
    <3>2. /\ stamp[p] # NoClock /\ lastHlc[d] # NoClock
          /\ Covers(lastHlc[d], stamp[p])
      BY <3>1 DEF ClockInv, ClockCovers
    <3>3. stamp[p] \in Clock
      BY <3>1, <3>2 DEF ClockInv, TypeOK
    <3>4. stamp'[p] = stamp[p]
      BY <3>1, <1>3 DEF ClockInv, TypeOK
    <3> QED BY <3>1, <3>2, <3>3, <3>4, <1>2
  <2>2. CASE q # o
    <3>1. stamp'[q] = stamp[q] /\ saw'[q] = saw[q] /\ p \in StampedOp
      BY <2>2, <1>3 DEF ClockInv, TypeOK
    <3>2. Less(stamp[p], stamp[q])
      BY <3>1 DEF ClockInv, Causal, Unsaturated
    <3>3. p # o
      BY <3>1, <1>3 DEF ClockInv, SawStamped
    <3> QED BY <3>1, <3>2, <3>3, <1>3 DEF ClockInv, TypeOK
  <2> QED BY <2>1, <2>2
<1> QED BY <1>4, <1>6, <1>7, <1>8, <1>9, <1>10 DEF ClockInv

(* Folding a remote stamp into the stored clock keeps the clock invariant. *)
LEMMA ObservePreserves ==
  ASSUME ClockInv, NEW d \in Device, NEW o \in StampedOp, NEW now \in 0 .. MaxWall,
         Observe(d, o, now)
  PROVE  ClockInv'
<1> DEFINE r == Receive(lastHlc[d], stamp[o], now, d)
<1> USE DEF Stamped
<1>1. /\ lastHlc[d] \in Clock \cup {NoClock}
      /\ stamp[o] \in Clock
      /\ now \in Nat
  BY MaxWallAssumption DEF ClockInv, TypeOK, Observe
<1>2. /\ r \in Clock
      /\ r # NoClock
      /\ Covers(r, stamp[o])
      /\ lastHlc[d] # NoClock => Covers(r, lastHlc[d])
  BY <1>1, ReceiveLemma
<1>3. /\ lastHlc' = [lastHlc EXCEPT ![d] = r]
      /\ applied' = [applied EXCEPT ![d] = @ \cup {o}]
      /\ stamp' = stamp
      /\ saw' = saw
  BY DEF Observe
<1> HIDE DEF r
<1>4. TypeOK'
  BY <1>2, <1>3 DEF ClockInv, TypeOK
<1>5. ClockCovers'
  <2> SUFFICES ASSUME NEW e \in Device, NEW p \in applied'[e]
               PROVE  /\ stamp[p] # NoClock /\ lastHlc'[e] # NoClock
                      /\ Covers(lastHlc'[e], stamp[p])
    BY <1>3 DEF ClockCovers
  <2>1. CASE e # d
    <3>1. p \in applied[e] /\ lastHlc'[e] = lastHlc[e]
      BY <2>1, <1>3 DEF ClockInv, TypeOK
    <3> QED BY <3>1 DEF ClockInv, ClockCovers
  <2>2. CASE e = d /\ p = o
    <3>1. lastHlc'[e] = r
      BY <2>2, <1>3 DEF ClockInv, TypeOK
    <3>2. stamp[p] # NoClock
      BY <2>2 DEF Observe
    <3> QED BY <3>1, <3>2, <2>2, <1>2
  <2>3. CASE e = d /\ p # o
    <3>1. p \in applied[d] /\ p \in StampedOp /\ lastHlc'[e] = r
      BY <2>3, <1>3 DEF ClockInv, TypeOK
    <3>2. /\ stamp[p] # NoClock /\ lastHlc[d] # NoClock
          /\ Covers(lastHlc[d], stamp[p])
      BY <3>1 DEF ClockInv, ClockCovers
    <3>3. stamp[p] \in Clock /\ lastHlc[d] \in Clock
      BY <3>1, <3>2 DEF ClockInv, TypeOK
    <3>4. Covers(r, stamp[p])
      BY <3>2, <3>3, <1>2, CoversTransitive
    <3> QED BY <3>1, <3>2, <3>4, <1>2
  <2> QED BY <2>1, <2>2, <2>3
<1>6. OwnApplied'
  BY <1>1, <1>3 DEF ClockInv, TypeOK, OwnApplied, Clock
<1>7. OwnOrdered' /\ SawStamped' /\ Causal'
  BY <1>3 DEF ClockInv, OwnOrdered, SawStamped, Causal, Unsaturated
<1> QED BY <1>4, <1>5, <1>6, <1>7 DEF ClockInv

(* The clock invariant holds in every reachable state: the stored clock of a
   replica covers everything it applied, and Causal with it. *)
THEOREM ClockInvariant == Spec => []ClockInv
<1>1. Init => ClockInv
  BY NoClockAssumption
  DEF Init, ClockInv, TypeOK, ClockCovers, OwnApplied, OwnOrdered, SawStamped,
      Causal, Stamped
<1>2. ClockInv /\ [Next]_vars => ClockInv'
  <2> SUFFICES ASSUME ClockInv, [Next]_vars PROVE ClockInv'
    OBVIOUS
  <2>1. CASE Next
    BY <2>1, AuthorPreserves, ObservePreserves DEF Next
  <2>2. CASE UNCHANGED vars
    BY <2>2
    DEF vars, ClockInv, TypeOK, ClockCovers, OwnApplied, OwnOrdered, SawStamped,
        Causal, Stamped, Unsaturated
  <2> QED BY <2>1, <2>2
<1> QED BY <1>1, <1>2, PTL DEF Spec

(* For any number of devices, whatever their clocks read: an operation stamped
   after its author had applied another one is ordered after it. *)
THEOREM CausalTheorem == Spec => []Causal
<1>1. ClockInv => Causal
  BY DEF ClockInv
<1> QED BY <1>1, ClockInvariant, PTL

(* Two operations never share a stamp, so last-writer-wins has one winner. *)
THEOREM UniqueStampsTheorem == Spec => []UniqueStamps
<1>1. ClockInv => UniqueStamps
  <2> SUFFICES ASSUME ClockInv, NEW o \in StampedOp, NEW p \in StampedOp,
                      Stamped(o), Stamped(p), o # p,
                      Unsaturated(o), Unsaturated(p), stamp[o] = stamp[p]
               PROVE  FALSE
    BY DEF UniqueStamps
  <2>1. stamp[o] \in Clock
    BY DEF ClockInv, TypeOK, Stamped
  <2>2. o \in saw[p] \/ p \in saw[o]
    BY DEF ClockInv, OwnOrdered
  <2>3. Less(stamp[o], stamp[o])
    BY <2>2 DEF ClockInv, Causal
  <2> QED BY <2>1, <2>3, LessIrreflexive
<1> QED BY <1>1, ClockInvariant, PTL

(* The stored clock never moves backwards, whatever the wall clock does. *)
THEOREM ClockMonotoneTheorem == Spec => ClockMonotone
<1>1. ClockInv /\ [Next]_vars =>
        [\A d \in Device : lastHlc[d] # NoClock =>
           lastHlc'[d] # NoClock /\ Covers(lastHlc'[d], lastHlc[d])]_vars
  <2> SUFFICES ASSUME ClockInv, Next, NEW e \in Device, lastHlc[e] # NoClock
               PROVE  lastHlc'[e] # NoClock /\ Covers(lastHlc'[e], lastHlc[e])
    OBVIOUS
  <2>1. lastHlc[e] \in Clock
    BY DEF ClockInv, TypeOK
  <2>2. Covers(lastHlc[e], lastHlc[e])
    BY <2>1, MaxCounterAssumption DEF Covers, Clock
  <2>3. ASSUME NEW d \in Device, NEW o \in StampedOp, NEW now \in 0 .. MaxWall,
               Author(d, o, now)
        PROVE  lastHlc'[e] # NoClock /\ Covers(lastHlc'[e], lastHlc[e])
    <3>1. now \in Nat
      BY MaxWallAssumption
    <3>2. CASE e = d
      <4>1. lastHlc'[e] = Send(lastHlc[e], now, e)
        BY <2>3, <3>2 DEF Author, ClockInv, TypeOK
      <4> QED BY <4>1, <2>1, <3>1, SendLemma
    <3>3. CASE e # d
      BY <2>3, <3>3, <2>2 DEF Author, ClockInv, TypeOK
    <3> QED BY <3>2, <3>3
  <2>4. ASSUME NEW d \in Device, NEW o \in StampedOp, NEW now \in 0 .. MaxWall,
               Observe(d, o, now)
        PROVE  lastHlc'[e] # NoClock /\ Covers(lastHlc'[e], lastHlc[e])
    <3>1. now \in Nat /\ stamp[o] \in Clock
      BY <2>4, MaxWallAssumption DEF Observe, ClockInv, TypeOK
    <3>2. CASE e = d
      <4>1. lastHlc'[e] = Receive(lastHlc[e], stamp[o], now, e)
        BY <2>4, <3>2 DEF Observe, ClockInv, TypeOK
      <4> QED BY <4>1, <2>1, <3>1, ReceiveLemma
    <3>3. CASE e # d
      BY <2>4, <3>3, <2>2 DEF Observe, ClockInv, TypeOK
    <3> QED BY <3>2, <3>3
  <2> QED BY <2>3, <2>4 DEF Next
<1> QED BY <1>1, ClockInvariant, PTL DEF Spec, ClockMonotone
============================================================================

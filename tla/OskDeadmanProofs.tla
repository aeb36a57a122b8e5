-------------------------- MODULE OskDeadmanProofs --------------------------
(***************************************************************************)
(* Proofs about OskDeadman for every set of keys, capacity, timeout and    *)
(* duration of broker calls: type correctness, the bound on a key's        *)
(* lifetime, erasure on shutdown, no early erasure, and the refinement of  *)
(* ExpiringSlot.                                                           *)
(***************************************************************************)
EXTENDS OskDeadman, TLAPS

-----------------------------------------------------------------------------
(* Type correctness.                                                       *)

\* Every step of the daemon keeps the type invariant: in particular the channel
\* never holds more than its capacity and no counter leaves its range.
LEMMA TypePreserved == TypeOK /\ [Next]_vars => TypeOK'
<1> SUFFICES ASSUME TypeOK, [Next]_vars PROVE TypeOK'
  OBVIOUS
<1> USE DeadmanAssumption DEF TypeOK, NotAKey, AgeCap, Lifetime
<1>1. ASSUME NEW k \in Keys, SetOsk(k) PROVE TypeOK'
  BY <1>1 DEF SetOsk
<1>2. CASE CloneHandle
  BY <1>2 DEF CloneHandle
<1>3. CASE DropHandle
  BY <1>3 DEF DropHandle
<1>4. CASE WorkerStart
  BY <1>4 DEF WorkerStart, CallBroker
<1>5. CASE BrokerEffect
  BY <1>5 DEF BrokerEffect
<1>6. CASE BrokerReturn
  <2>1. CASE site = "closed"
    BY <1>6, <2>1 DEF BrokerReturn
  <2>2. CASE site # "closed"
    BY <1>6, <2>2 DEF BrokerReturn
  <2> QED
    BY <2>1, <2>2
<1>7. CASE WorkerPanic
  BY <1>7 DEF WorkerPanic, CutShort, InCall
<1>8. CASE RecvRequest
  BY <1>8 DEF RecvRequest, CallBroker
<1>9. CASE RecvClosed
  BY <1>9 DEF RecvClosed, CallBroker
<1>10. CASE EraseTimeout
  BY <1>10 DEF EraseTimeout, CallBroker
<1>11. CASE Tick
  BY <1>11 DEF Tick, InCall, Blocked, ReceiverGone
<1>12. CASE ProcessExit
  BY <1>12 DEF ProcessExit, CutShort
<1>13. CASE ProcessStart
  BY <1>13 DEF ProcessStart
<1>14. CASE UNCHANGED vars
  BY <1>14 DEF vars
<1> QED
  BY <1>1, <1>2, <1>3, <1>4, <1>5, <1>6, <1>7, <1>8, <1>9, <1>10, <1>11,
     <1>12, <1>13, <1>14 DEF Next

\* The initial states have the types.
LEMMA TypeInitially == Init => TypeOK
BY DeadmanAssumption DEF Init, TypeOK, NotAKey, AgeCap, Lifetime

\* Type correctness of the output-key worker and its channel.
THEOREM TypeCorrect == Spec => []TypeOK
BY TypeInitially, TypePreserved, PTL DEF Spec

-----------------------------------------------------------------------------
(* The inductive invariant.                                                *)

\* The inductive form of BoundedLifetime, ShutdownErases and KeptUntilDue: how the
\* age of the slot's content, the deadline and the duration of the call under
\* way are related at every place of event_loop.
AgeWithinDeadline ==
  /\ worker = "starting" => age = 0
  /\ worker = "waiting" => /\ age + timer <= EraseAfter + MaxWrite
                           /\ osk \in Keys => age + timer >= EraseAfter
  /\ worker = "calling" => /\ age <= EraseAfter + MaxWrite + busy
                           /\ (site = "timeout" /\ osk \in Keys)
                                => age >= EraseAfter
  /\ worker = "returning" => age <= busy /\ osk = job
  /\ worker = "done" => age <= MaxWrite /\ osk = Random
  /\ InCall => (job = Random <=> site # "request")

IInv == TypeOK /\ AgeWithinDeadline

\* The inductive invariant holds initially.
LEMMA InvInitially == Init => IInv
BY TypeInitially, DeadmanAssumption DEF IInv, Init, AgeWithinDeadline, InCall

\* AgeWithinDeadline is inductive together with the types.
LEMMA InvPreserved == IInv /\ [Next]_vars => IInv'
<1> SUFFICES ASSUME IInv, [Next]_vars PROVE AgeWithinDeadline'
  BY TypePreserved DEF IInv
<1> USE DeadmanAssumption
     DEF IInv, TypeOK, AgeWithinDeadline, NotAKey, InCall, AgeCap, Lifetime
<1>1. ASSUME NEW k \in Keys, SetOsk(k) PROVE AgeWithinDeadline'
  BY <1>1 DEF SetOsk
<1>2. CASE CloneHandle
  BY <1>2 DEF CloneHandle
<1>3. CASE DropHandle
  BY <1>3 DEF DropHandle
<1>4. CASE WorkerStart
  BY <1>4 DEF WorkerStart, CallBroker
<1>5. CASE BrokerEffect
  BY <1>5 DEF BrokerEffect
<1>6. CASE BrokerReturn
  BY <1>6 DEF BrokerReturn
<1>7. CASE WorkerPanic
  BY <1>7 DEF WorkerPanic, CutShort
<1>8. CASE RecvRequest
  <2>1. Head(requests) \in Keys
    BY <1>8 DEF RecvRequest
  <2> QED
    BY <1>8, <2>1 DEF RecvRequest, CallBroker
<1>9. CASE RecvClosed
  BY <1>9 DEF RecvClosed, CallBroker
<1>10. CASE EraseTimeout
  BY <1>10 DEF EraseTimeout, CallBroker
<1>11. CASE Tick
  <2>1. CASE InCall
    BY <1>11, <2>1 DEF Tick, Blocked, ReceiverGone
  <2>2. CASE Blocked
    BY <1>11, <2>2 DEF Tick, Blocked, ReceiverGone
  <2>3. CASE ReceiverGone
    BY <1>11, <2>3 DEF Tick, Blocked, ReceiverGone
  <2> QED
    BY <1>11, <2>1, <2>2, <2>3 DEF Tick
<1>12. CASE ProcessExit
  BY <1>12 DEF ProcessExit, CutShort
<1>13. CASE ProcessStart
  BY <1>13 DEF ProcessStart
<1>14. CASE UNCHANGED vars
  BY <1>14 DEF vars
<1> QED
  BY <1>1, <1>2, <1>3, <1>4, <1>5, <1>6, <1>7, <1>8, <1>9, <1>10, <1>11,
     <1>12, <1>13, <1>14 DEF Next

\* The inductive invariant holds in every reachable state.
LEMMA Invariance == Spec => []IInv
BY InvInitially, InvPreserved, PTL DEF Spec

-----------------------------------------------------------------------------
(* What follows from it.                                                   *)

\* The dead man's switch: while the worker lives, no key stays in the slot for
\* more than erase_after and two broker calls (deadman.rs:97-121).
THEOREM LifetimeBounded == Spec => []BoundedLifetime
<1>1. IInv => BoundedLifetime
  BY DeadmanAssumption
  DEF IInv, TypeOK, AgeWithinDeadline, BoundedLifetime, Guarded, Lifetime, InCall
<1> QED
  BY <1>1, Invariance, PTL

\* A worker that has returned from event_loop leaves a random key behind
\* (deadman.rs:110-114).
THEOREM ShutdownLeavesNoKey == Spec => []ShutdownErases
<1>1. IInv => ShutdownErases
  BY DEF IInv, AgeWithinDeadline, ShutdownErases
<1> QED
  BY <1>1, Invariance, PTL

\* A request restarts the deadline: the timeout never erases a key that has been
\* in the slot for less than erase_after (deadman.rs:101-104).
THEOREM NotErasedEarly == Spec => KeptUntilDue
<1>1. IInv /\ [Next]_vars
        => [(osk \in Keys /\ osk' = Random)
              => (site \in {"start", "closed"} \/ age >= EraseAfter)]_vars
  <2> SUFFICES ASSUME IInv, Next, osk \in Keys, osk' = Random
               PROVE  site \in {"start", "closed"} \/ age >= EraseAfter
    OBVIOUS
  <2>1. osk' # osk
    BY DeadmanAssumption
  <2>2. ~CutShort
    BY <2>1, DeadmanAssumption DEF CutShort
  <2>3. BrokerEffect
    BY <2>1, <2>2 DEF Next, SetOsk, CloneHandle, DropHandle, WorkerStart,
                      BrokerReturn, WorkerPanic, RecvRequest, RecvClosed,
                      EraseTimeout, Tick, ProcessExit, ProcessStart
  <2> QED
    BY <2>3, DeadmanAssumption
    DEF BrokerEffect, IInv, TypeOK, AgeWithinDeadline, InCall
<1> QED
  BY <1>1, Invariance, PTL DEF Spec, KeptUntilDue

-----------------------------------------------------------------------------
(* The refinement.                                                         *)

\* Every step of the daemon is a step of the expiring slot or leaves it alone.
LEMMA StepSimulation == IInv /\ [Next]_vars => [Slot!Next]_(Slot!slotVars)
<1> SUFFICES ASSUME IInv, [Next]_vars PROVE [Slot!Next]_(Slot!slotVars)
  OBVIOUS
<1> USE DeadmanAssumption
     DEF IInv, TypeOK, AgeWithinDeadline, NotAKey, InCall, Guarded, Lifetime,
         AgeCap, Slot!slotVars
<1>1. ASSUME NEW k \in Keys, SetOsk(k) PROVE UNCHANGED Slot!slotVars
  BY <1>1 DEF SetOsk
<1>2. CASE CloneHandle
  BY <1>2 DEF CloneHandle
<1>3. CASE DropHandle
  BY <1>3 DEF DropHandle
<1>4. CASE WorkerStart
  BY <1>4 DEF WorkerStart, CallBroker
<1>5. CASE BrokerEffect
  <2>1. CASE job \in Keys
    <3>1. Slot!Install(job)
      BY <1>5 DEF BrokerEffect, Slot!Install
    <3> QED
      BY <2>1, <3>1 DEF Slot!Next
  <2>2. CASE job = Random
    <3>1. Slot!Erase
      BY <1>5, <2>2 DEF BrokerEffect, Slot!Erase
    <3> QED
      BY <3>1 DEF Slot!Next
  <2> QED
    BY <2>1, <2>2
<1>6. CASE BrokerReturn
  BY <1>6 DEF BrokerReturn
<1>7. CASE WorkerPanic
  <2>1. Slot!Abandon
    BY <1>7 DEF WorkerPanic, CutShort, Slot!Abandon
  <2> QED
    BY <2>1 DEF Slot!Next
<1>8. CASE RecvRequest
  BY <1>8 DEF RecvRequest, CallBroker
<1>9. CASE RecvClosed
  BY <1>9 DEF RecvClosed, CallBroker
<1>10. CASE EraseTimeout
  BY <1>10 DEF EraseTimeout, CallBroker
<1>11. CASE Tick
  <2>1. CASE worker = "panicked"
    BY <1>11, <2>1 DEF Tick
  <2>2. CASE worker # "panicked"
    <3>1. osk \in Keys => age < Lifetime
      BY <1>11, <2>2 DEF Tick, Blocked, ReceiverGone
    <3>2. Slot!Pass
      BY <1>11, <2>2, <3>1 DEF Tick, Slot!Pass
    <3> QED
      BY <3>2 DEF Slot!Next
  <2> QED
    BY <2>1, <2>2
<1>12. CASE ProcessExit
  <2>1. CASE worker = "panicked"
    BY <1>12, <2>1 DEF ProcessExit, CutShort
  <2>2. CASE worker # "panicked"
    <3>1. Slot!Abandon
      BY <1>12, <2>2 DEF ProcessExit, CutShort, Slot!Abandon
    <3> QED
      BY <3>1 DEF Slot!Next
  <2> QED
    BY <2>1, <2>2
<1>13. CASE ProcessStart
  <2>1. Slot!TakeOver
    BY <1>13 DEF ProcessStart, Slot!TakeOver
  <2> QED
    BY <2>1 DEF Slot!Next
<1>14. CASE UNCHANGED vars
  BY <1>14 DEF vars
<1> QED
  BY <1>1, <1>2, <1>3, <1>4, <1>5, <1>6, <1>7, <1>8, <1>9, <1>10, <1>11,
     <1>12, <1>13, <1>14 DEF Next

\* The worker implements the expiring slot across broker failures, process exits
\* and restarts: the slot changes only by installing, erasing, or being
\* abandoned and taken over, and time passes while it is guarded only as long
\* as no key in it is past its lifetime (deadman.rs:97-121).
THEOREM DeadmanImplementsSlot == Spec => ImplementsExpiringSlot
<1>1. Init => Slot!Init
  BY DEF Init, Slot!Init, Guarded
<1> QED
  BY <1>1, Invariance, StepSimulation, PTL
  DEF Spec, ImplementsExpiringSlot, Slot!Spec

=============================================================================

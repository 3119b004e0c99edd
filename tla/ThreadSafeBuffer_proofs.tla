----------------------- MODULE ThreadSafeBuffer_proofs -----------------------
(***************************************************************************)
(* Theorems about ThreadSafeBuffer for any number of producers, consumers, *)
(* values and items, and their proofs.  The inductive invariant adds to    *)
(* the type invariant who holds the mutex and who is in the wait set.      *)
(***************************************************************************)
EXTENDS ThreadSafeBuffer, TLAPS

(* Labels of the steps a thread takes while it holds m_isBusy. *)
Locked == {"put.push", "put.notify", "put.unlock",
           "get.wait", "get.take", "get.unlock"}

(* A thread is at a locked label exactly when the mutex is its own. *)
LockDiscipline == \A t \in Threads : pc[t] \in Locked <=> m_isBusy = t

(* The wait set is the set of the threads blocked in wait(). *)
SleepersWait == \A c \in Consumers : c \in m_notEmpty <=> pc[c] = "get.sleep"

IInv ==
    /\ TypeOK
    /\ LockDiscipline
    /\ SleepersWait
    /\ NeverPopsEmpty
    /\ NoLostWakeup

USE DEF Threads, PutLabels, GetLabels, Locked

(* The initial states satisfy the inductive invariant. *)
LEMMA InitIInv == Init => IInv
  BY ThreadAssumption
  DEF Init, IInv, TypeOK, LockDiscipline, SleepersWait, NeverPopsEmpty,
      NoLostWakeup

(***************************************************************************)
(* Every step preserves the type invariant.                                *)
(***************************************************************************)
LEMMA TypeStep == IInv /\ [Next]_vars => TypeOK'
<1> SUFFICES ASSUME IInv, [Next]_vars PROVE TypeOK'
  OBVIOUS
<1> USE ThreadAssumption DEF IInv, TypeOK, Goto, Acquire, Release
<1>1. ASSUME NEW p \in Producers, CallPut(p) PROVE TypeOK'
  BY <1>1 DEF CallPut
<1>2. ASSUME NEW p \in Producers, LockPut(p) PROVE TypeOK'
  BY <1>2 DEF LockPut
<1>3. ASSUME NEW p \in Producers, PushBack(p) PROVE TypeOK'
  BY <1>3 DEF PushBack
<1>4. ASSUME NEW p \in Producers, NotifyAll(p) PROVE TypeOK'
  BY <1>4 DEF NotifyAll
<1>5. ASSUME NEW p \in Producers, ReturnPut(p) PROVE TypeOK'
  BY <1>5 DEF ReturnPut
<1>6. ASSUME NEW c \in Consumers, CallGet(c) PROVE TypeOK'
  BY <1>6 DEF CallGet
<1>7. ASSUME NEW c \in Consumers, LockGet(c) PROVE TypeOK'
  BY <1>7 DEF LockGet
<1>8. ASSUME NEW c \in Consumers, WaitDone(c) PROVE TypeOK'
  BY <1>8 DEF WaitDone
<1>9. ASSUME NEW c \in Consumers, Sleep(c) PROVE TypeOK'
  BY <1>9 DEF Sleep
<1>10. ASSUME NEW c \in Consumers, TakeLocked(c) PROVE TypeOK'
  BY <1>10 DEF TakeLocked, NeverPopsEmpty
<1>11. ASSUME NEW c \in Consumers, ReturnGet(c) PROVE TypeOK'
  BY <1>11 DEF ReturnGet
<1>12. ASSUME NEW c \in Consumers, SpuriousWakeup(c) PROVE TypeOK'
  BY <1>12 DEF SpuriousWakeup
<1>13. CASE UNCHANGED vars
  BY <1>13 DEF vars
<1>14. QED
  BY <1>1, <1>2, <1>3, <1>4, <1>5, <1>6, <1>7, <1>8, <1>9, <1>10, <1>11,
     <1>12, <1>13
  DEF Next, PutStep, GetStep

(***************************************************************************)
(* Every step preserves the rest of the invariant.                         *)
(***************************************************************************)
LEMMA InvStep == IInv /\ TypeOK' /\ [Next]_vars => IInv'
<1> SUFFICES ASSUME IInv, TypeOK', [Next]_vars PROVE IInv'
  OBVIOUS
<1> USE ThreadAssumption DEF Goto, Acquire, Release
<1> DEFINE Goal == LockDiscipline' /\ SleepersWait' /\ NeverPopsEmpty' /\ NoLostWakeup'
<1> USE DEF IInv, TypeOK, LockDiscipline, SleepersWait, NeverPopsEmpty,
            NoLostWakeup
<1>1. ASSUME NEW p \in Producers, CallPut(p) PROVE Goal
  BY <1>1 DEF CallPut
<1>2. ASSUME NEW p \in Producers, LockPut(p) PROVE Goal
  BY <1>2 DEF LockPut
<1>3. ASSUME NEW p \in Producers, PushBack(p) PROVE Goal
  BY <1>3 DEF PushBack
<1>4. ASSUME NEW p \in Producers, NotifyAll(p) PROVE Goal
  BY <1>4 DEF NotifyAll
<1>5. ASSUME NEW p \in Producers, ReturnPut(p) PROVE Goal
  BY <1>5 DEF ReturnPut
<1>6. ASSUME NEW c \in Consumers, CallGet(c) PROVE Goal
  BY <1>6 DEF CallGet
<1>7. ASSUME NEW c \in Consumers, LockGet(c) PROVE Goal
  BY <1>7 DEF LockGet
<1>8. ASSUME NEW c \in Consumers, WaitDone(c) PROVE Goal
  BY <1>8 DEF WaitDone
<1>9. ASSUME NEW c \in Consumers, Sleep(c) PROVE Goal
  BY <1>9 DEF Sleep
<1>10. ASSUME NEW c \in Consumers, TakeLocked(c) PROVE Goal
  BY <1>10 DEF TakeLocked
<1>11. ASSUME NEW c \in Consumers, ReturnGet(c) PROVE Goal
  BY <1>11 DEF ReturnGet
<1>12. ASSUME NEW c \in Consumers, SpuriousWakeup(c) PROVE Goal
  BY <1>12 DEF SpuriousWakeup
<1>13. CASE UNCHANGED vars
  BY <1>13 DEF vars
<1>14. QED
  BY <1>1, <1>2, <1>3, <1>4, <1>5, <1>6, <1>7, <1>8, <1>9, <1>10, <1>11,
     <1>12, <1>13
  DEF Next, PutStep, GetStep

(* The inductive invariant holds in every reachable state. *)
LEMMA SpecIInv == Spec => []IInv
<1>1. IInv /\ [Next]_vars => IInv'
  BY TypeStep, InvStep
<1>2. QED
  BY InitIInv, <1>1, PTL DEF Spec

(* The variables keep their types: the invariant of the runs. *)
THEOREM TypeCorrect == Spec => []TypeOK
<1>1. IInv => TypeOK
  BY DEF IInv
<1>2. QED
  BY SpecIInv, <1>1, PTL

(* take_locked() never meets an empty deque. *)
THEOREM NeverPopsEmptyAlways == Spec => []NeverPopsEmpty
<1>1. IInv => NeverPopsEmpty
  BY DEF IInv
<1>2. QED
  BY SpecIInv, <1>1, PTL

(* No consumer sleeps through an item. *)
THEOREM NoLostWakeupAlways == Spec => []NoLostWakeup
<1>1. IInv => NoLostWakeup
  BY DEF IInv
<1>2. QED
  BY SpecIInv, <1>1, PTL

(***************************************************************************)
(* The buffer implements the channel: push_back is Put, pop_front is Get,  *)
(* every other step leaves the channel as it is.                           *)
(***************************************************************************)
THEOREM BufferImplementsChannel == Spec => ImplementsChannel
<1>1. Init => Ch!ChannelInit
  BY DEF Init, Ch!ChannelInit
<1>2. IInv /\ [Next]_vars => [Ch!ChannelNext]_(Ch!chanVars)
  <2> SUFFICES ASSUME IInv, [Next]_vars
               PROVE  [Ch!ChannelNext]_(Ch!chanVars)
    OBVIOUS
  <2> USE DEF Ch!chanVars
  <2>1. ASSUME NEW p \in Producers, PushBack(p) PROVE Ch!ChannelNext
    <3>1. data[p] \in Data /\ Ch!Put(data[p])
      BY <2>1 DEF PushBack, Ch!Put, IInv, TypeOK
    <3>2. QED
      BY <3>1 DEF Ch!ChannelNext
  <2>2. ASSUME NEW c \in Consumers, TakeLocked(c) PROVE Ch!ChannelNext
    <3>1. Ch!Get(c)
      BY <2>2 DEF TakeLocked, Ch!Get, IInv, NeverPopsEmpty
    <3>2. QED
      BY <3>1 DEF Ch!ChannelNext
  <2>3. CASE UNCHANGED vars
    BY <2>3 DEF vars
  <2>4. QED
    BY <2>1, <2>2, <2>3
    DEF Next, PutStep, GetStep, CallPut, LockPut, NotifyAll, ReturnPut,
        CallGet, LockGet, WaitDone, Sleep, ReturnGet, SpuriousWakeup
<1>3. QED
  BY <1>1, <1>2, SpecIInv, PTL DEF Spec, ImplementsChannel, Ch!ChannelSpec
=============================================================================

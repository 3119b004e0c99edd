-------------------------- MODULE ThreadSafeBuffer --------------------------
(***************************************************************************)
(* ThreadSafeBuffer<T> of hawkbit-cpp/interop/src/main.cpp: a std::deque   *)
(* guarded by a std::mutex, with a std::condition_variable on which get()  *)
(* waits for the deque to become non-empty.  Each step below is one call   *)
(* the methods make that another thread can observe: taking the mutex,     *)
(* push_back, notify_all, the test of wait()'s predicate, falling asleep,  *)
(* a wake-up (notified or spurious), taking the mutex again, pop_front and *)
(* the release of the mutex by unique_lock's destructor.                   *)
(***************************************************************************)
EXTENDS Naturals, Sequences, FiniteSets

CONSTANTS Producers,   \* threads that call put()
          Consumers,   \* threads that call get()
          Data,        \* the values put() is called with
          NoData,      \* "no value": not a member of Data
          NoThread,    \* owner of a free mutex: not a thread
          MaxLength    \* bound: put() is called only below this many items

Threads == Producers \cup Consumers

ASSUME ThreadAssumption ==
    /\ Producers \cap Consumers = {}
    /\ NoThread \notin Threads

ASSUME DataAssumption == NoData \notin Data

ASSUME BoundAssumption == MaxLength \in Nat

VARIABLES m_buffer,    \* the deque, front first
          m_isBusy,    \* the mutex: the thread that holds it, or NoThread
          m_notEmpty,  \* the condition variable: the threads asleep on it
          pc,          \* what each thread does next
          data,        \* data[p]: the argument of p's put()
          front        \* front[c]: the value c's latest get() returned

vars == <<m_buffer, m_isBusy, m_notEmpty, pc, data, front>>

PutLabels == {"put.lock", "put.push", "put.notify", "put.unlock"}
GetLabels == {"get.lock", "get.wait", "get.sleep", "get.relock", "get.take",
              "get.unlock"}

(* Items in the deque or on their way into it: the bound's measure. *)
Pending == Len(m_buffer)
           + Cardinality({p \in Producers : pc[p] \in {"put.lock", "put.push"}})

Init ==
    /\ m_buffer = <<>>
    /\ m_isBusy = NoThread
    /\ m_notEmpty = {}
    /\ pc = [t \in Threads |-> "idle"]
    /\ data = [p \in Producers |-> NoData]
    /\ front = [c \in Consumers |-> NoData]

Goto(t, label) == pc' = [pc EXCEPT ![t] = label]

(***************************************************************************)
(* std::mutex.                                                             *)
(***************************************************************************)
Acquire(t) == m_isBusy = NoThread /\ m_isBusy' = t
Release(t) == m_isBusy = t /\ m_isBusy' = NoThread

(***************************************************************************)
(* Plausible errors in the methods below, for the mutation of the runs.    *)
(***************************************************************************)
(* if (m_buffer.empty()) wait(lock): the predicate is not tested again. *)
LockGetNoRecheck(c) ==
    /\ pc[c] \in {"get.lock", "get.relock"}
    /\ Acquire(c)
    /\ Goto(c, IF pc[c] = "get.relock" THEN "get.take" ELSE "get.wait")
    /\ UNCHANGED <<m_buffer, m_notEmpty, data, front>>

(* notify_one() in place of notify_all(). *)
NotifyOne(p) ==
    /\ pc[p] = "put.notify"
    /\ \/ m_notEmpty = {} /\ UNCHANGED m_notEmpty /\ Goto(p, "put.unlock")
       \/ \E c \in m_notEmpty :
            /\ m_notEmpty' = m_notEmpty \ {c}
            /\ pc' = [pc EXCEPT ![p] = "put.unlock", ![c] = "get.relock"]
    /\ UNCHANGED <<m_buffer, m_isBusy, data, front>>

(* The notification is forgotten. *)
NotifyNobody(p) ==
    /\ pc[p] = "put.notify"
    /\ Goto(p, "put.unlock")
    /\ UNCHANGED <<m_buffer, m_isBusy, m_notEmpty, data, front>>

(* m_buffer.back() / pop_back(): last in, first out. *)
TakeLockedBack(c) ==
    /\ pc[c] = "get.take"
    /\ front' = [front EXCEPT ![c] = m_buffer[Len(m_buffer)]]
    /\ m_buffer' = SubSeq(m_buffer, 1, Len(m_buffer) - 1)
    /\ Goto(c, "get.unlock")
    /\ UNCHANGED <<m_isBusy, m_notEmpty, data>>

(* push_back of a value that was already moved from. *)
PushBackMoved(p) ==
    /\ pc[p] = "put.push"
    /\ m_buffer' = Append(m_buffer, NoData)
    /\ Goto(p, "put.notify")
    /\ UNCHANGED <<m_isBusy, m_notEmpty, data, front>>

(***************************************************************************)
(* put(T data).                                                            *)
(***************************************************************************)
CallPut(p) ==
    /\ pc[p] = "idle"
    /\ Pending < MaxLength
    /\ \E d \in Data : data' = [data EXCEPT ![p] = d]
    /\ Goto(p, "put.lock")
    /\ UNCHANGED <<m_buffer, m_isBusy, m_notEmpty, front>>

LockPut(p) ==
    /\ pc[p] = "put.lock"
    /\ Acquire(p)
    /\ Goto(p, "put.push")
    /\ UNCHANGED <<m_buffer, m_notEmpty, data, front>>

PushBack(p) ==
    /\ pc[p] = "put.push"
    /\ m_buffer' = Append(m_buffer, data[p])
    /\ Goto(p, "put.notify")
    /\ UNCHANGED <<m_isBusy, m_notEmpty, data, front>>

(* notify_all: every sleeper leaves the wait set and contends for the mutex. *)
NotifyAll(p) ==
    /\ pc[p] = "put.notify"
    /\ m_notEmpty' = {}
    /\ pc' = [t \in Threads |-> IF t = p THEN "put.unlock"
                             ELSE IF t \in m_notEmpty THEN "get.relock"
                             ELSE pc[t]]
    /\ UNCHANGED <<m_buffer, m_isBusy, data, front>>

ReturnPut(p) ==
    /\ pc[p] = "put.unlock"
    /\ Release(p)
    /\ Goto(p, "idle")
    /\ UNCHANGED <<m_buffer, m_notEmpty, data, front>>

(***************************************************************************)
(* T get(), with condition_variable::wait(lock, predicate) unfolded.       *)
(***************************************************************************)
CallGet(c) ==
    /\ pc[c] = "idle"
    /\ Goto(c, "get.lock")
    /\ UNCHANGED <<m_buffer, m_isBusy, m_notEmpty, data, front>>

LockGet(c) ==
    /\ pc[c] \in {"get.lock", "get.relock"}
    /\ Acquire(c)
    /\ Goto(c, "get.wait")
    /\ UNCHANGED <<m_buffer, m_notEmpty, data, front>>

(* The predicate holds: wait() returns with the mutex still held. *)
WaitDone(c) ==
    /\ pc[c] = "get.wait"
    /\ m_buffer # <<>>
    /\ Goto(c, "get.take")
    /\ UNCHANGED <<m_buffer, m_isBusy, m_notEmpty, data, front>>

(* It does not: releasing the mutex and falling asleep are one atomic step. *)
Sleep(c) ==
    /\ pc[c] = "get.wait"
    /\ m_buffer = <<>>
    /\ Release(c)
    /\ m_notEmpty' = m_notEmpty \cup {c}
    /\ Goto(c, "get.sleep")
    /\ UNCHANGED <<m_buffer, data, front>>

SpuriousWakeup(c) ==
    /\ pc[c] = "get.sleep"
    /\ m_notEmpty' = m_notEmpty \ {c}
    /\ Goto(c, "get.relock")
    /\ UNCHANGED <<m_buffer, m_isBusy, data, front>>

(* take_locked(): pop_front of an empty deque is undefined, see NeverPopsEmpty. *)
TakeLocked(c) ==
    /\ pc[c] = "get.take"
    /\ front' = [front EXCEPT ![c] = Head(m_buffer)]
    /\ m_buffer' = Tail(m_buffer)
    /\ Goto(c, "get.unlock")
    /\ UNCHANGED <<m_isBusy, m_notEmpty, data>>

ReturnGet(c) ==
    /\ pc[c] = "get.unlock"
    /\ Release(c)
    /\ Goto(c, "idle")
    /\ UNCHANGED <<m_buffer, m_notEmpty, data, front>>

PutStep(p) ==
    \/ LockPut(p) \/ PushBack(p) \/ NotifyAll(p) \/ ReturnPut(p)

GetStep(c) ==
    \/ CallGet(c) \/ LockGet(c) \/ WaitDone(c) \/ Sleep(c)
    \/ TakeLocked(c) \/ ReturnGet(c)

Next ==
    \/ \E p \in Producers : CallPut(p) \/ PutStep(p)
    \/ \E c \in Consumers : GetStep(c) \/ SpuriousWakeup(c)

Spec == Init /\ [][Next]_vars

(***************************************************************************)
(* A put() that was called runs to its end and the consumers call get() in *)
(* a loop (DataConsumer does); nobody is obliged to call put() or to wake  *)
(* spuriously.  Taking the mutex is strongly fair: a thread that finds it  *)
(* free again and again does get it, which is what the scheduler of a      *)
(* preemptive system provides in practice; std::mutex itself promises no   *)
(* order.                                                                  *)
(***************************************************************************)
Fairness ==
    /\ \A p \in Producers : WF_vars(PutStep(p)) /\ SF_vars(LockPut(p))
    /\ \A c \in Consumers : WF_vars(GetStep(c)) /\ SF_vars(LockGet(c))

FairSpec == Spec /\ Fairness

-----------------------------------------------------------------------------
TypeOK ==
    /\ m_buffer \in Seq(Data)
    /\ m_isBusy \in Threads \cup {NoThread}
    /\ m_notEmpty \in SUBSET Consumers
    /\ pc \in [Threads -> {"idle"} \cup PutLabels \cup GetLabels]
    /\ \A p \in Producers : pc[p] \in {"idle"} \cup PutLabels
    /\ \A c \in Consumers : pc[c] \in {"idle"} \cup GetLabels
    /\ data \in [Producers -> Data \cup {NoData}]
    /\ \A p \in Producers : pc[p] # "idle" => data[p] \in Data
    /\ front \in [Consumers -> Data \cup {NoData}]

(***************************************************************************)
(* take_locked() never runs on an empty deque (which would be undefined    *)
(* behaviour), although several consumers are woken for one item, wake     *)
(* spuriously, and a consumer that never slept can take the item first:    *)
(* wait() tests its predicate after every wake-up, under the mutex.        *)
(***************************************************************************)
NeverPopsEmpty == \A c \in Consumers : pc[c] = "get.take" => m_buffer # <<>>

(***************************************************************************)
(* No wake-up is lost: a consumer is asleep while the deque holds an item  *)
(* only in the window in which the put() that pushed it still holds the    *)
(* mutex and is about to call notify_all.                                  *)
(***************************************************************************)
NoLostWakeup ==
    (m_notEmpty # {} /\ m_buffer # <<>>) =>
        \E p \in Producers : m_isBusy = p /\ pc[p] = "put.notify"

(***************************************************************************)
(* The buffer is a channel: put() takes effect at push_back and get() at   *)
(* take_locked(), each exactly once and in order, whatever the threads'    *)
(* interleaving.                                                           *)
(***************************************************************************)
Ch == INSTANCE Channel WITH channel <- m_buffer, taken <- front

ImplementsChannel == Ch!ChannelSpec

(***************************************************************************)
(* And it is a live channel: while there is an item, a consumer that calls *)
(* get() eventually returns with one.                                      *)
(***************************************************************************)
ImplementsLiveChannel == Ch!LiveChannelSpec

=============================================================================

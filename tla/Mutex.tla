------------------------------- MODULE Mutex -------------------------------
(***************************************************************************)
(* Mutexes (core/mutex.c).  A mutex is the pointer queue.next: NULL (free, *)
(* here the empty sequence), MUTEX_LOCKED (locked, nobody waits) or the    *)
(* first of the threads that wait, most important first.  The mutex does   *)
(* not record its owner: holds, what each thread knows it has locked, is   *)
(* here to state the properties.                                           *)
(*                                                                         *)
(* Programs use a mutex in one of two ways.  An ordinary mutex is unlocked *)
(* by the thread that locked it.  A signal (Signals) is locked by any      *)
(* thread that wants to wait and unlocked by whoever has the news, often   *)
(* an interrupt handler.                                                   *)
(***************************************************************************)
EXTENDS Cpu

CONSTANTS Mutexes, Signals, MUTEX_LOCKED, NoMutex

VARIABLES queue,              \* queue[m]: MUTEX_LOCKED or the waiters
          locking,            \* locking[t]: the mutex t blocked on in _mutex_lock
          holds               \* holds[t]: the ordinary mutexes t has locked

mutexVars == <<queue, locking, holds>>

vars == <<k, queue, locking, holds>>

ASSUME MutexAssumption ==
  /\ Signals \subseteq Mutexes
  /\ NoMutex \notin Mutexes
  /\ MUTEX_LOCKED \notin Seq(Threads)

MutexInit ==
  /\ queue = [m \in Mutexes |-> IF m \in Signals THEN MUTEX_LOCKED ELSE <<>>]
  /\ locking = [t \in Threads |-> NoMutex]
  /\ holds = [t \in Threads |-> {}]

Init == k = Started /\ MutexInit

Waiters(q) == IF q = MUTEX_LOCKED THEN <<>> ELSE q

(* Mutation: the caller blocks behind the others without looking at their  *)
(* priorities.                                                             *)
Enqueue_Fifo(q, t) == Append(Waiters(q), t)

(* The queue after a thread found the mutex locked and blocks. *)
Enqueue(q, t) == IF q = MUTEX_LOCKED THEN <<t>> ELSE thread_add_to_list(q, t)

(* Mutation: the mutex is free once the last waiter has been woken. *)
UnlockQueue_Freed(q) == IF Waiters(q) = <<>> THEN <<>> ELSE Tail(q)

(* The queue after an unlock: list_remove_head, and MUTEX_LOCKED again     *)
(* when that was the last waiter.                                          *)
UnlockQueue(q) ==
  IF Waiters(q) = <<>> THEN <<>>
  ELSE IF Tail(q) = <<>> THEN MUTEX_LOCKED ELSE Tail(q)

(* The kernel part of an unlock: the first waiter becomes PENDING. *)
WakeFirst(kk, q) ==
  IF Waiters(q) = <<>> THEN kk ELSE sched_set_status(kk, Head(q), "PENDING")

(* ... and sched_switch compares it with the active thread. *)
Unlock(kk, q) ==
  IF Waiters(q) = <<>> THEN kk
  ELSE sched_switch(WakeFirst(kk, q), Prio[Head(q)])

Took(t, m) == holds' = [holds EXCEPT ![t] = IF m \in Signals THEN @ ELSE @ \cup {m}]

(***************************************************************************)
(* _mutex_lock.  mutex_trylock is its first branch, or changes nothing.    *)
(***************************************************************************)
mutex_trylock(t, m) ==
  /\ queue[m] = <<>>
  /\ queue' = [queue EXCEPT ![m] = MUTEX_LOCKED]
  /\ Took(t, m)
  /\ UNCHANGED <<k, locking>>

mutex_block(t, m) ==
  /\ queue[m] # <<>>
  /\ k' = thread_yield_higher(sched_set_status(k, t, "MUTEX_BLOCKED"))
  /\ queue' = [queue EXCEPT ![m] = Enqueue(@, t)]
  /\ locking' = [locking EXCEPT ![t] = m]
  /\ UNCHANGED holds

mutex_lock(t, m) == mutex_trylock(t, m) \/ mutex_block(t, m)

(* "We were woken up by scheduler. [...] We have the mutex now." *)
mutex_lock_return(t) ==
  /\ locking[t] # NoMutex
  /\ Took(t, locking[t])
  /\ locking' = [locking EXCEPT ![t] = NoMutex]
  /\ UNCHANGED <<k, queue>>

(* Called by thread t, or by an interrupt handler on a signal. *)
mutex_unlock(t, m) ==
  /\ k' = Unlock(k, queue[m])
  /\ queue' = [queue EXCEPT ![m] = UnlockQueue(@)]
  /\ holds' = [holds EXCEPT ![t] = @ \ {m}]
  /\ UNCHANGED locking

(* Mutation: the caller goes to sleep without waking a waiter. *)
mutex_unlock_and_sleep_NoWake(t, m) ==
  /\ k' = thread_yield_higher(sched_set_status(k, t, "SLEEPING"))
  /\ queue' = [queue EXCEPT ![m] = UnlockQueue(@)]
  /\ holds' = [holds EXCEPT ![t] = @ \ {m}]
  /\ UNCHANGED locking

mutex_unlock_and_sleep(t, m) ==
  /\ k' = thread_yield_higher(
            sched_set_status(WakeFirst(k, queue[m]), t, "SLEEPING"))
  /\ queue' = [queue EXCEPT ![m] = UnlockQueue(@)]
  /\ holds' = [holds EXCEPT ![t] = @ \ {m}]
  /\ UNCHANGED locking

(***************************************************************************)
(* The calls a program may make: a thread does not lock an ordinary mutex  *)
(* twice and unlocks only what it holds.                                   *)
(***************************************************************************)
Free(t) == Executing(k, t) /\ t # Idle /\ locking[t] = NoMutex

MayUnlock(t) == holds[t] \cup Signals

ThreadCall(t) ==
  /\ Free(t)
  /\ \/ \E m \in Mutexes \ holds[t] : mutex_lock(t, m)
     \/ \E m \in MayUnlock(t) : mutex_unlock(t, m) \/ mutex_unlock_and_sleep(t, m)
     \/ (Sleep(t) \/ Yield(t)) /\ UNCHANGED mutexVars

LockReturns(t) == Executing(k, t) /\ mutex_lock_return(t)

Isr ==
  /\ InIsr(k)
  /\ \/ \E m \in Signals : mutex_unlock(k.active, m)
     \/ \E t \in Threads : Wakeup(t) /\ UNCHANGED mutexVars

Next ==
  \/ \E t \in Threads : ThreadCall(t) \/ LockReturns(t)
  \/ Isr
  \/ Trap /\ UNCHANGED mutexVars

(***************************************************************************)
(* Fairness.  Of the machine, CpuFairness, and a thread that gets the CPU  *)
(* again and again returns from mutex_lock.  Of the program: a thread      *)
(* unlocks what it holds, and is woken when it sleeps, or waits for a      *)
(* signal, with a mutex held.                                              *)
(***************************************************************************)
HolderIsWoken ==
  InIsr(k) /\ \E t \in Threads : holds[t] # {} /\ Wakeup(t) /\ UNCHANGED mutexVars

HolderIsSignalled(m) ==
  /\ InIsr(k) /\ \E t \in Threads : holds[t] # {} /\ locking[t] = m
  /\ mutex_unlock(k.active, m)

Releases(t) == Free(t) /\ \E m \in holds[t] : mutex_unlock(t, m)

Fairness ==
  /\ CpuFairness
  /\ SF_vars(HolderIsWoken)
  /\ \A m \in Signals : SF_vars(HolderIsSignalled(m))
  /\ \A t \in Threads \ {Idle} : SF_vars(LockReturns(t)) /\ SF_vars(Releases(t))

Spec == Init /\ [][Next]_vars

FairSpec == Spec /\ Fairness

-----------------------------------------------------------------------------
(* Every variable has its type. *)
TypeOK ==
  /\ k \in Kernel
  /\ queue \in [Mutexes -> Seq(Threads) \cup {MUTEX_LOCKED}]
  /\ locking \in [Threads -> Mutexes \cup {NoMutex}]
  /\ holds \in [Threads -> SUBSET (Mutexes \ Signals)]

(* The threads that own m: those that returned from mutex_lock(m), and one *)
(* that mutex_unlock woke and that has not run since.                      *)
Owners(m) ==
  {t \in Threads : \/ m \in holds[t]
                   \/ locking[t] = m /\ k.status[t] # "MUTEX_BLOCKED"}

(* Mutual exclusion, and no lock is lost: a mutex whose pointer says       *)
(* locked has exactly one owner, which will unlock it, and a free one has  *)
(* none, although the owner is recorded nowhere (core/mutex.c).            *)
OneOwner ==
  \A m \in Mutexes \ Signals :
    Cardinality(Owners(m)) = IF queue[m] = <<>> THEN 0 ELSE 1

(* No lost wake-up: a thread is MUTEX_BLOCKED exactly while it is in the   *)
(* queue of the mutex it called mutex_lock on, once, and in no other: the  *)
(* list node it waits with is the one run queues use.                      *)
BlockedIffQueued ==
  /\ TypeOK
  /\ \A m \in Mutexes : IsInjective(Waiters(queue[m]))
  /\ \A m \in Mutexes, t \in Threads :
       t \in Range(Waiters(queue[m])) <=>
         k.status[t] = "MUTEX_BLOCKED" /\ locking[t] = m

Before(q, t, u) == \E i, j \in DOMAIN q : i < j /\ q[i] = t /\ q[j] = u

(* Nobody overtakes: a thread that waits stays before every thread it was  *)
(* before, and before every thread of its own or of a lower priority that  *)
(* starts waiting later, until it gets the mutex.                          *)
NoOvertaking ==
  [][\A m \in Mutexes : \A t, u \in Range(Waiters(queue'[m])) :
       LET q == Waiters(queue[m])
       IN (\/ Before(q, t, u)
           \/ t \in Range(q) /\ u \notin Range(q) /\ Prio[t] <= Prio[u])
            => Before(Waiters(queue'[m]), t, u)]_vars

(* core/mutex.c implements module Lock: mutex_unlock passes an ordinary    *)
(* mutex with waiters directly to the most important one.                  *)
Ordinary == Mutexes \ Signals

owner == [m \in Ordinary |->
            IF Owners(m) = {} THEN NoThread ELSE CHOOSE t \in Owners(m) : TRUE]

PriorityLock ==
  INSTANCE Lock WITH Clients <- Threads, Locks <- Ordinary, Priority <- Prio,
    None <- NoThread, owner <- owner,
    waiting <- [m \in Ordinary |-> Range(Waiters(queue[m]))]

ImplementsLock == PriorityLock!LockSpec

(* A thread more important than t, or than an owner of m, executes.        *)
Preempted(t, m) ==
  \E u \in Threads : /\ Executing(k, u)
                     /\ \E v \in {t} \cup Owners(m) : Prio[u] < Prio[v]

(* A thread that waits for an ordinary mutex gets it, if threads unlock    *)
(* what they lock, unless a thread more important than it, or than an      *)
(* owner of the mutex (mutexes do not inherit priorities), executes again  *)
(* and again.                                                              *)
EveryWaiterGetsIt ==
  \A t \in Threads, m \in Ordinary :
    []<>Preempted(t, m) \/ (locking[t] = m ~> m \in holds[t])
=============================================================================

------------------------------- MODULE RMutex -------------------------------
(***************************************************************************)
(* Recursive mutexes (core/rmutex.c): a mutex of module Mutex, the pid of  *)
(* its owner and a count of its locks.  Unlike the mutex itself, _lock and *)
(* rmutex_unlock do not disable interrupts: each access to a field is a    *)
(* step, and the owner field is read without the mutex.                    *)
(***************************************************************************)
EXTENDS Mutex

CONSTANTS mutex,              \* rmutex->mutex
          RefcountBits,       \* the width of refcount (16 in rmutex.h)
          MaxDepth            \* how deep the program nests its locks

VARIABLES owner_pid,          \* rmutex->owner: a thread, or NoThread (UNDEF)
          refcount,
          pc,                 \* pc[t]: where t is in _lock or rmutex_unlock
          trylock,            \* trylock[t]: the argument of _lock
          depth               \* depth[t]: the locks t has taken and not released

rmutexVars == <<owner_pid, refcount, pc, trylock, depth>>

allVars == <<k, queue, locking, holds, owner_pid, refcount, pc, trylock, depth>>

ASSUME RMutexAssumption ==
  /\ mutex \in Mutexes \ Signals
  /\ RefcountBits \in Nat
  /\ MaxDepth \in 1 .. 2^RefcountBits - 1

RStart ==
  /\ owner_pid = NoThread
  /\ refcount = 0
  /\ pc = [t \in Threads |-> "out"]
  /\ trylock = [t \in Threads |-> FALSE]
  /\ depth = [t \in Threads |-> 0]

RInit == Init /\ RStart

Goto(t, label) == pc' = [pc EXCEPT ![t] = label]

(***************************************************************************)
(* _lock                                                                   *)
(***************************************************************************)
TryMutex(t, try) ==
  /\ pc[t] = "out" /\ depth[t] < MaxDepth
  /\ trylock' = [trylock EXCEPT ![t] = try]
  /\ \/ mutex_trylock(t, mutex) /\ Goto(t, "set_owner")
     \/ queue[mutex] # <<>> /\ Goto(t, "load_owner") /\ UNCHANGED <<k, mutexVars>>
  /\ UNCHANGED <<owner_pid, refcount, depth>>

(* Mutation: any owner counts as oneself. *)
LoadOwner_Any(t) ==
  /\ pc[t] = "load_owner"
  /\ Goto(t, IF owner_pid # NoThread THEN "set_owner"
             ELSE IF trylock[t] THEN "out" ELSE "lock")
  /\ UNCHANGED <<k, mutexVars, owner_pid, refcount, trylock, depth>>

(* Mutation: the case of a relock is forgotten. *)
LoadOwner_NoRelock(t) ==
  /\ pc[t] = "load_owner"
  /\ Goto(t, IF trylock[t] THEN "out" ELSE "lock")
  /\ UNCHANGED <<k, mutexVars, owner_pid, refcount, trylock, depth>>

LoadOwner(t) ==
  /\ pc[t] = "load_owner"
  /\ Goto(t, IF owner_pid = t THEN "set_owner"
             ELSE IF trylock[t] THEN "out" ELSE "lock")
  /\ UNCHANGED <<k, mutexVars, owner_pid, refcount, trylock, depth>>

LockMutex(t) ==
  /\ pc[t] = "lock"
  /\ mutex_lock(t, mutex)
  /\ Goto(t, "set_owner")
  /\ UNCHANGED <<owner_pid, refcount, trylock, depth>>

SetOwner(t) ==
  /\ pc[t] = "set_owner"
  /\ owner_pid' = t
  /\ Goto(t, "count")
  /\ UNCHANGED <<k, mutexVars, refcount, trylock, depth>>

Count(t) ==
  /\ pc[t] = "count"
  /\ refcount' = (refcount + 1) % 2^RefcountBits
  /\ depth' = [depth EXCEPT ![t] = @ + 1]
  /\ Goto(t, "out")
  /\ UNCHANGED <<k, mutexVars, owner_pid, trylock>>

(***************************************************************************)
(* rmutex_unlock                                                           *)
(***************************************************************************)
Uncount(t) ==
  /\ pc[t] = "out" /\ depth[t] > 0
  /\ refcount' = (refcount - 1) % 2^RefcountBits
  /\ depth' = [depth EXCEPT ![t] = @ - 1]
  /\ Goto(t, "test")
  /\ UNCHANGED <<k, mutexVars, owner_pid, trylock>>

Test(t) ==
  /\ pc[t] = "test"
  /\ Goto(t, IF refcount = 0 THEN "reset_owner" ELSE "out")
  /\ UNCHANGED <<k, mutexVars, owner_pid, refcount, trylock, depth>>

(* Mutation: the owner field is left as it is. *)
ResetOwner_Left(t) ==
  /\ pc[t] = "reset_owner"
  /\ Goto(t, "unlock")
  /\ UNCHANGED <<k, mutexVars, owner_pid, refcount, trylock, depth>>

ResetOwner(t) ==
  /\ pc[t] = "reset_owner"
  /\ owner_pid' = NoThread
  /\ Goto(t, "unlock")
  /\ UNCHANGED <<k, mutexVars, refcount, trylock, depth>>

UnlockMutex(t) ==
  /\ pc[t] = "unlock"
  /\ mutex_unlock(t, mutex)
  /\ Goto(t, "out")
  /\ UNCHANGED <<owner_pid, refcount, trylock, depth>>

(* The next step of a call t has started. *)
Continue(t) ==
  \/ LockReturns(t) /\ UNCHANGED rmutexVars
  \/ /\ Free(t)
     /\ \/ LoadOwner(t) \/ LockMutex(t) \/ SetOwner(t) \/ Count(t)
        \/ Test(t) \/ ResetOwner(t) \/ UnlockMutex(t)

ThreadStep(t) ==
  \/ Continue(t)
  \/ Free(t) /\ (Uncount(t) \/ \E try \in BOOLEAN : TryMutex(t, try))
  \/ Free(t) /\ pc[t] = "out" /\ (Sleep(t) \/ Yield(t)) /\ UNCHANGED <<mutexVars, rmutexVars>>

RIsr ==
  /\ InIsr(k)
  /\ \E t \in Threads : Wakeup(t)
  /\ UNCHANGED <<mutexVars, rmutexVars>>

RNext ==
  \/ \E t \in Threads : ThreadStep(t)
  \/ RIsr
  \/ Trap /\ UNCHANGED <<mutexVars, rmutexVars>>

(***************************************************************************)
(* Fairness: as in module Mutex; a thread goes on with the call it is in,  *)
(* releases what it locked, however deep, and is woken when it sleeps with *)
(* the mutex held.                                                         *)
(***************************************************************************)
OwnerIsWoken == RIsr /\ \E t \in Threads : depth[t] > 0 /\ Wakeup(t)

ReleasesAt(t, d) == Free(t) /\ depth[t] = d /\ Uncount(t)

GoesOn(t) == Continue(t) \/ ReleasesAt(t, MaxDepth)

RFairness ==
  /\ CpuFairness
  /\ SF_allVars(OwnerIsWoken)
  /\ \A t \in Threads \ {Idle} :
       /\ SF_allVars(GoesOn(t))
       /\ \A d \in 1 .. MaxDepth - 1 : SF_allVars(ReleasesAt(t, d))

RSpec == RInit /\ [][RNext]_allVars

RFairSpec == RSpec /\ RFairness

-----------------------------------------------------------------------------
(* The variables of this module have their types. *)
RTypeOK ==
  /\ owner_pid \in Threads \cup {NoThread}
  /\ refcount \in 0 .. 2^RefcountBits - 1
  /\ pc \in [Threads -> {"out", "load_owner", "lock", "set_owner", "count",
                         "test", "reset_owner", "unlock"}]
  /\ trylock \in [Threads -> BOOLEAN]
  /\ depth \in [Threads -> 0 .. MaxDepth]

(* A thread that reads its own pid in the owner field owns the mutex:      *)
(* "Other threads never set rmutex->owner to the pid of the current        *)
(* thread", and the owner resets it before it gives up the mutex.          *)
OwnerTruthful ==
  owner_pid # NoThread => Owners(mutex) = {owner_pid}

(* Between its calls, a thread that has locked the mutex finds what        *)
(* rmutex_unlock asserts: it is the owner, and refcount is exactly the     *)
(* number of its locks; nobody else has any.                               *)
CountsNesting ==
  /\ RTypeOK
  /\ \A t \in Threads : depth[t] > 0 =>
       /\ Owners(mutex) = {t}
       /\ pc[t] = "out" => owner_pid = t /\ refcount = depth[t]

(* Every rmutex_lock returns, unless a thread more important than the      *)
(* caller, or than an owner of the mutex, executes again and again.        *)
LockCompletes ==
  \A t \in Threads :
    []<>Preempted(t, mutex) \/ (pc[t] = "lock" ~> depth[t] > 0)
=============================================================================

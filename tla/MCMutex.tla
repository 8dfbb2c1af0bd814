------------------------------ MODULE MCMutex ------------------------------
(***************************************************************************)
(* Three threads on two priorities share an ordinary mutex m and a signal  *)
(* s, or nest locks of a recursive mutex that m is the mutex of: subject   *)
(* says which.                                                             *)
(***************************************************************************)
EXTENDS RMutex

CONSTANTS idle, a, b, c, m, s, Subjects

VARIABLE subject

MCThreadSet == {idle, a, b, c}

MCPrio == [t \in MCThreadSet |-> CASE t = idle -> 2 [] t = a -> 0 [] OTHER -> 1]

LocksInit == subject \in Subjects /\ RInit

MutexStep == subject = "mutex" /\ Next /\ UNCHANGED <<rmutexVars, subject>>

RMutexStep == subject = "rmutex" /\ RNext /\ UNCHANGED subject

LocksNext == MutexStep \/ RMutexStep

(* The fairness of modules Mutex and RMutex; MaxDepth is 2. *)
Either(mutexAction, rmutexAction) ==
  \/ subject = "mutex" /\ mutexAction /\ UNCHANGED <<rmutexVars, subject>>
  \/ subject = "rmutex" /\ rmutexAction /\ UNCHANGED subject

LocksFairness ==
  /\ CpuFairness
  /\ SF_<<allVars, subject>>(Either(HolderIsWoken, OwnerIsWoken))
  /\ \A x \in Signals : SF_<<allVars, subject>>(Either(HolderIsSignalled(x), FALSE))
  /\ \A t \in Threads \ {Idle} :
       /\ SF_<<allVars, subject>>(Either(LockReturns(t), GoesOn(t)))
       /\ SF_<<allVars, subject>>(Either(Releases(t), ReleasesAt(t, 1)))

LocksSpec == LocksInit /\ [][LocksNext]_<<allVars, subject>> /\ LocksFairness
=============================================================================

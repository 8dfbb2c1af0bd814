-------------------------------- MODULE Cond --------------------------------
(***************************************************************************)
(* Condition variables (core/cond.c) on the mutexes of module Mutex, under *)
(* the program that core/include/cond.h gives as their use: a bounded pipe *)
(* with a mutex and two condition variables, read, written and closed by   *)
(* any thread.                                                             *)
(*                                                                         *)
(* cond_wait calls mutex_unlock with interrupts disabled.  Where           *)
(* thread_yield_higher only raises an interrupt (RISC-V, Cortex-M), the    *)
(* switch mutex_unlock asks for waits until the caller is in the queue of  *)
(* the condition variable.  Where it switches at once (immediate:          *)
(* cpu/native), the mutex is free before the caller is in that queue.      *)
(***************************************************************************)
EXTENDS Mutex

CONSTANTS lock, read_cond, write_cond,
          MAX_QUEUE_LENGTH,
          Calls               \* the pipe calls the threads make

VARIABLES cond_queue,         \* cond_queue[c]: the threads that wait on c
          waits,              \* waits[t]: the condition variable t waits on
          op,                 \* op[t]: the pipe call t is in
          stage,              \* stage[t]: how far it is
          length,             \* how many bytes are in the pipe
          closed,
          immediate           \* what the port's thread_yield_higher does

condVars == <<cond_queue, waits>>

pipeVars == <<op, stage, length, closed>>

allVars == <<k, queue, locking, holds, cond_queue, waits, op, stage, length, closed>>

ASSUME CondAssumption ==
  /\ Mutexes = {lock} /\ Signals = {}
  /\ NoMutex \notin {read_cond, write_cond} /\ read_cond # write_cond
  /\ MAX_QUEUE_LENGTH \in Nat \ {0}
  /\ Calls \subseteq {"write", "read", "close"}

CondStart ==
  /\ cond_queue = [c \in {read_cond, write_cond} |-> <<>>]
  /\ waits = [t \in Threads |-> NoMutex]
  /\ op = [t \in Threads |-> "none"]
  /\ stage = [t \in Threads |-> "none"]
  /\ length = 0
  /\ closed = FALSE
  /\ immediate \in BOOLEAN

CondInit == Init /\ CondStart

(***************************************************************************)
(* cond_wait.  cond_block is its second half: it enters the queue, and the *)
(* thread goes on with mutex_lock (cond_relock) when it runs again.        *)
(***************************************************************************)
Block(kk, t) == thread_yield_higher(sched_set_status(kk, t, "COND_BLOCKED"))

(* Mutation: the mutex is given up before interrupts are disabled. *)
cond_wait_NotAtomic(t, c) ==
  /\ mutex_unlock(t, lock)
  /\ waits' = [waits EXCEPT ![t] = c]
  /\ stage' = [stage EXCEPT ![t] = "cond_block"]
  /\ UNCHANGED <<cond_queue, op, length, closed>>

cond_wait(t, c) ==
  LET unlocked == Unlock(k, queue[lock])
      switches == immediate /\ unlocked.msip
  IN /\ queue' = [queue EXCEPT ![lock] = UnlockQueue(@)]
     /\ holds' = [holds EXCEPT ![t] = {}]
     /\ waits' = [waits EXCEPT ![t] = c]
     /\ k' = IF switches THEN unlocked ELSE Block(unlocked, t)
     /\ cond_queue' = IF switches THEN cond_queue
                      ELSE [cond_queue EXCEPT ![c] = thread_add_to_list(@, t)]
     /\ stage' = [stage EXCEPT ![t] = IF switches THEN "cond_block" ELSE "relock"]
     /\ UNCHANGED <<locking, op, length, closed>>

cond_block(t) ==
  /\ stage[t] = "cond_block"
  /\ k' = Block(k, t)
  /\ cond_queue' = [cond_queue EXCEPT ![waits[t]] = thread_add_to_list(@, t)]
  /\ stage' = [stage EXCEPT ![t] = "relock"]
  /\ UNCHANGED <<queue, locking, holds, waits, op, length, closed>>

cond_relock(t) ==
  /\ stage[t] = "relock"
  /\ mutex_lock(t, lock)
  /\ waits' = [waits EXCEPT ![t] = NoMutex]
  /\ stage' = [stage EXCEPT ![t] = "check"]
  /\ UNCHANGED <<cond_queue, op, length, closed>>

(* The threads _cond_signal takes out of the queue, and those it leaves. *)
Woken(c, broadcast) ==
  IF broadcast \/ cond_queue[c] = <<>> THEN cond_queue[c] ELSE <<Head(cond_queue[c])>>

Left(c, broadcast) ==
  IF broadcast \/ cond_queue[c] = <<>> THEN <<>> ELSE Tail(cond_queue[c])

MakeReady(kk, list) == FoldLeft(LAMBDA n, t : sched_set_status(n, t, "PENDING"), kk, list)

(* Mutation: the woken threads are not compared with the active one. *)
CondSignal_NoSwitch(c, broadcast) ==
  /\ cond_queue' = [cond_queue EXCEPT ![c] = Left(c, broadcast)]
  /\ k' = MakeReady(k, Woken(c, broadcast))

(* Mutation: a broadcast empties the queue but wakes its head only. *)
CondSignal_HeadOnly(c, broadcast) ==
  /\ cond_queue' = [cond_queue EXCEPT ![c] = Left(c, broadcast)]
  /\ k' = MakeReady(k, Woken(c, FALSE))

(* Mutation: a broadcast is a signal. *)
CondSignal_One(c, broadcast) ==
  /\ cond_queue' = [cond_queue EXCEPT ![c] = Left(c, FALSE)]
  /\ k' = IF Woken(c, FALSE) = <<>> THEN k
          ELSE sched_switch(MakeReady(k, Woken(c, FALSE)), Prio[Head(cond_queue[c])])

(* _cond_signal wakes the first thread of the queue, or all in turn, and   *)
(* calls sched_switch with the best of their priorities, if any.           *)
CondSignal(c, broadcast) ==
  LET woken == Woken(c, broadcast)
  IN /\ cond_queue' = [cond_queue EXCEPT ![c] = Left(c, broadcast)]
     /\ k' = IF woken = <<>> THEN k
             ELSE sched_switch(MakeReady(k, woken), Min({Prio[t] : t \in Range(woken)}))

(***************************************************************************)
(* The program: pipe_write, pipe_read and pipe_close.                      *)
(***************************************************************************)
pipe_call(t, which) ==
  /\ op[t] = "none"
  /\ mutex_lock(t, lock)
  /\ op' = [op EXCEPT ![t] = which]
  /\ stage' = [stage EXCEPT ![t] = "check"]
  /\ UNCHANGED <<cond_queue, waits, length, closed>>

(* The while loop around cond_wait, and what follows it. *)
MustWait(which) ==
  /\ ~closed
  /\ length = CASE which = "write" -> MAX_QUEUE_LENGTH [] which = "read" -> 0
                [] which = "close" -> -1

pipe_wait(t) ==
  /\ stage[t] = "check" /\ MustWait(op[t])
  /\ cond_wait(t, IF op[t] = "write" THEN write_cond ELSE read_cond)

pipe_do(t) ==
  /\ stage[t] = "check" /\ ~MustWait(op[t])
  /\ closed' = (closed \/ op[t] = "close")
  /\ length' = CASE closed \/ op[t] = "close" -> length
                 [] op[t] = "write" -> length + 1
                 [] op[t] = "read" -> length - 1
  /\ stage' = [stage EXCEPT ![t] = IF closed THEN "unlock" ELSE "signal"]
  /\ UNCHANGED <<k, queue, locking, holds, cond_queue, waits, op>>

pipe_signal(t) ==
  /\ \/ /\ stage[t] = "signal" /\ op[t] # "close"
        /\ CondSignal(IF op[t] = "write" THEN read_cond ELSE write_cond, FALSE)
        /\ stage' = [stage EXCEPT ![t] = "unlock"]
     \/ /\ stage[t] = "signal" /\ op[t] = "close"
        /\ CondSignal(read_cond, TRUE)
        /\ stage' = [stage EXCEPT ![t] = "signal2"]
     \/ /\ stage[t] = "signal2"
        /\ CondSignal(write_cond, TRUE)
        /\ stage' = [stage EXCEPT ![t] = "unlock"]
  /\ UNCHANGED <<queue, locking, holds, waits, op, length, closed>>

pipe_unlock(t) ==
  /\ stage[t] = "unlock"
  /\ mutex_unlock(t, lock)
  /\ op' = [op EXCEPT ![t] = "none"]
  /\ stage' = [stage EXCEPT ![t] = "none"]
  /\ UNCHANGED <<cond_queue, waits, length, closed>>

(* What t does next when it runs; the only choice is the next pipe call. *)
PipeStep(t) ==
  \/ LockReturns(t) /\ UNCHANGED <<condVars, pipeVars>>
  \/ /\ Free(t)
     /\ \/ pipe_wait(t)
        \/ pipe_do(t)
        \/ pipe_signal(t)
        \/ pipe_unlock(t)
        \/ cond_block(t)
        \/ cond_relock(t)

(* Between two steps a thread may yield, with the mutex held or not, and   *)
(* between two pipe calls it may sleep.                                    *)
Rest(t) ==
  /\ Free(t)
  /\ Yield(t) \/ (op[t] = "none" /\ Sleep(t))
  /\ UNCHANGED <<mutexVars, condVars, pipeVars>>

(* "It is safe to call cond_signal or cond_broadcast in interrupt context" *)
(* (cond.h), also when there is nothing to tell.                           *)
CondIsr ==
  /\ InIsr(k)
  /\ \/ (\E t \in Threads : Wakeup(t)) /\ UNCHANGED cond_queue
     \/ \E c \in {read_cond, write_cond}, broadcast \in BOOLEAN : CondSignal(c, broadcast)
  /\ UNCHANGED <<mutexVars, waits, pipeVars>>

CondTrap == Trap /\ UNCHANGED <<mutexVars, condVars, pipeVars>>

CondNext ==
  /\ \/ \E t \in Threads : \/ PipeStep(t) \/ Rest(t)
                           \/ \E c \in Calls : Free(t) /\ pipe_call(t, c)
     \/ CondIsr
     \/ CondTrap
  /\ UNCHANGED immediate

(***************************************************************************)
(* Fairness: CpuFairness, and a thread in a pipe call goes on with it when *)
(* it gets the CPU again and again.                                        *)
(***************************************************************************)
CondFairness == CpuFairness /\ \A t \in Threads \ {Idle} : SF_allVars(PipeStep(t))

CondSpec == CondInit /\ [][CondNext]_<<allVars, immediate>>

CondFairSpec == CondSpec /\ CondFairness

-----------------------------------------------------------------------------
(* The variables of this module have their types. *)
CondTypeOK ==
  /\ cond_queue \in [{read_cond, write_cond} -> Seq(Threads)]
  /\ waits \in [Threads -> {read_cond, write_cond, NoMutex}]
  /\ op \in [Threads -> {"none", "read", "write", "close"}]
  /\ stage \in [Threads -> {"none", "check", "cond_block", "relock", "signal",
                            "signal2", "unlock"}]
  /\ length \in 0 .. MAX_QUEUE_LENGTH
  /\ closed \in BOOLEAN /\ immediate \in BOOLEAN

(* A thread is COND_BLOCKED exactly while it is in the queue of the        *)
(* condition variable it waits on, once, neither in that of the other nor  *)
(* in the mutex's, most important threads first (cond_wait, _cond_signal). *)
CondBlockedIffQueued ==
  /\ CondTypeOK
  /\ \A c \in {read_cond, write_cond} :
       /\ IsInjective(cond_queue[c])
       /\ \A t \in Threads :
            t \in Range(cond_queue[c]) <=>
              k.status[t] = "COND_BLOCKED" /\ waits[t] = c
       /\ Range(cond_queue[c]) \cap Range(Waiters(queue[lock])) = {}
       /\ \A i, j \in DOMAIN cond_queue[c] :
            i < j => Prio[cond_queue[c][i]] <= Prio[cond_queue[c][j]]

(* No signal is lost: cond_wait "atomically unlocks the provided mutex and *)
(* then goes to sleep", so while a reader (writer) sleeps on an open pipe, *)
(* for every byte (free place) there is a thread that has not slept since  *)
(* it came, or one that is about to signal it; and nobody sleeps on a      *)
(* closed pipe.  This needs a port that defers the switch.                 *)
Awake(which) == {t \in Threads : op[t] = which /\ k.status[t] # "COND_BLOCKED"
                                 /\ stage[t] \in {"check", "relock"}}

AboutTo(which) == {t \in Threads : op[t] = which /\ stage[t] = "signal"}

NoLostSignal ==
  /\ ~immediate /\ cond_queue[read_cond] # <<>> =>
       \/ closed /\ AboutTo("close") # {}
       \/ ~closed /\ length <= Cardinality(Awake("read") \cup AboutTo("write"))
  /\ ~immediate /\ cond_queue[write_cond] # <<>> =>
       \/ closed /\ \E t \in Threads : stage[t] = "signal2" \/ t \in AboutTo("close")
       \/ ~closed /\ MAX_QUEUE_LENGTH - length <= Cardinality(Awake("write") \cup AboutTo("read"))

(* Once the pipe is closed every call returns, unless a thread more        *)
(* important than the caller, or than an owner of the mutex, executes      *)
(* again and again.                                                        *)
CloseReleasesAll ==
  \A t \in Threads \ {Idle} :
    immediate \/ []<>Preempted(t, lock) \/ (closed ~> (op[t] = "none"))
=============================================================================

------------------------------ MODULE Threads ------------------------------
(***************************************************************************)
(* Threads: creation, sleep, wake-up, yield and exit (core/thread.c,       *)
(* core/sched.c, core/kernel_init.c), called by the threads themselves and *)
(* by interrupt handlers, on the scheduler of module Sched.                *)
(*                                                                         *)
(* Every call is one step: its body runs with interrupts disabled, and     *)
(* what follows irq_restore is a thread_yield_higher or sched_switch whose *)
(* effect is the pending software interrupt.  Interrupts come between any  *)
(* two steps, in particular before that software interrupt is taken.       *)
(***************************************************************************)
EXTENDS Sched

CONSTANTS Main,               \* the main thread, created by kernel_init
          MAXTHREADS,         \* KERNEL_PID_LAST; KERNEL_PID_FIRST is 1
          CreateFlags         \* the flags programs pass to thread_create

VARIABLES k,                  \* the kernel record of module Sched
          sched_threads,      \* pid -> TCB or NULL
          pid,                \* TCB -> its pid field
          sched_num_threads,
          sched_active_pid

vars == <<k, sched_threads, pid, sched_num_threads, sched_active_pid>>

Pids == 1 .. MAXTHREADS

KERNEL_PID_UNDEF == 0

ASSUME ThreadsAssumption ==
  /\ Main \in Threads \ {Idle}
  /\ MAXTHREADS \in Nat /\ MAXTHREADS >= 2
  /\ CreateFlags \subseteq {"NONE", "SLEEPING", "WOUT_YIELD"}

Live(t) == \E i \in Pids : sched_threads[i] = t

(***************************************************************************)
(* kernel_init: idle and main are created with THREAD_CREATE_WOUT_YIELD,   *)
(* then cpu_switch_context_exit enables interrupts and raises the software *)
(* interrupt while no thread is active yet.                                *)
(***************************************************************************)
Boot == [status   |-> [t \in Threads |-> "STOPPED"],
         rq       |-> [p \in Prios |-> <<>>],
         bitcache |-> {},
         active   |-> NoThread,
         request  |-> FALSE,
         in_isr   |-> FALSE,
         msip     |-> FALSE,
         fault    |-> FALSE]

Init ==
  /\ k = thread_yield_higher(
           sched_set_status(sched_set_status(Boot, Idle, "PENDING"),
                            Main, "PENDING"))
  /\ sched_threads = [i \in Pids |-> IF i = 1 THEN Idle
                                     ELSE IF i = 2 THEN Main ELSE NoThread]
  /\ pid = [t \in Threads |-> IF t = Idle THEN 1
                              ELSE IF t = Main THEN 2 ELSE KERNEL_PID_UNDEF]
  /\ sched_num_threads = 2
  /\ sched_active_pid = KERNEL_PID_UNDEF

(* sched_run also sets sched_active_pid, when it changes the thread. *)
Dispatch(next) ==
  /\ k' = next
  /\ sched_active_pid' = IF next.active = k.active THEN sched_active_pid
                         ELSE pid[next.active]

(***************************************************************************)
(* thread_create: a TCB no live thread uses takes the lowest free pid; the *)
(* call changes nothing when the table is full (-EOVERFLOW), nor for a     *)
(* priority that is out of range (-EINVAL, before anything is looked at):  *)
(* Prio has priorities in range only.                                      *)
(***************************************************************************)
FreePids == {i \in Pids : sched_threads[i] = NoThread}

thread_create(t, flags) ==
  LET new == Min(FreePids)
      k1  == sched_set_status([k EXCEPT !.status[t] = "STOPPED"], t,
                              IF flags = "SLEEPING" THEN "SLEEPING" ELSE "PENDING")
  IN /\ FreePids # {}
     /\ sched_threads' = [sched_threads EXCEPT ![new] = t]
     /\ pid' = [pid EXCEPT ![t] = new]
     /\ sched_num_threads' = sched_num_threads + 1
     /\ k' = IF flags = "NONE" THEN sched_switch(k1, Prio[t]) ELSE k1
     /\ UNCHANGED sched_active_pid

(* Mutation: the thread is counted although the table is full. *)
thread_create_overflow_Counted ==
  /\ FreePids = {}
  /\ sched_num_threads' = sched_num_threads + 1
  /\ UNCHANGED <<k, sched_threads, pid, sched_active_pid>>

thread_create_overflow ==
  /\ FreePids = {}
  /\ UNCHANGED vars

(* Mutation: the table entry of the thread that ends is not cleared. *)
sched_task_exit_EntryLeft(t) ==
  /\ sched_num_threads' = sched_num_threads - 1
  /\ k' = thread_yield_higher([sched_set_status(k, t, "STOPPED")
                                 EXCEPT !.active = NoThread])
  /\ UNCHANGED <<sched_threads, pid, sched_active_pid>>

(***************************************************************************)
(* sched_task_exit ends in cpu_switch_context_exit, which enables          *)
(* interrupts and calls thread_yield with sched_active_thread NULL.        *)
(***************************************************************************)
sched_task_exit(t) ==
  /\ sched_threads' = [sched_threads EXCEPT ![sched_active_pid] = NoThread]
  /\ sched_num_threads' = sched_num_threads - 1
  /\ k' = thread_yield_higher([sched_set_status(k, t, "STOPPED")
                                 EXCEPT !.active = NoThread])
  /\ UNCHANGED <<pid, sched_active_pid>>

thread_sleep(t) ==
  /\ k' = thread_yield_higher(sched_set_status(k, t, "SLEEPING"))
  /\ UNCHANGED <<sched_threads, pid, sched_num_threads, sched_active_pid>>

(* In a thread or in an interrupt handler; nothing happens when the pid    *)
(* names no sleeping thread.                                               *)
thread_wakeup(i) ==
  LET t == sched_threads[i]
  IN /\ t # NoThread
     /\ k.status[t] = "SLEEPING"
     /\ k' = sched_switch(sched_set_status(k, t, "RUNNING"), Prio[t])
     /\ UNCHANGED <<sched_threads, pid, sched_num_threads, sched_active_pid>>

(* Mutation: the caller stays at the head of its run queue. *)
thread_yield_NoRotation(t) ==
  /\ k' = thread_yield_higher(k)
  /\ UNCHANGED <<sched_threads, pid, sched_num_threads, sched_active_pid>>

(* The caller's run queue is rotated, then the software interrupt raised. *)
thread_yield(t) ==
  LET rotated == [k EXCEPT !.rq[Prio[t]] = Append(Tail(@), Head(@))]
  IN /\ k' = thread_yield_higher(IF OnRunqueue(k, t) THEN rotated ELSE k)
     /\ UNCHANGED <<sched_threads, pid, sched_num_threads, sched_active_pid>>

(***************************************************************************)
(* The steps of the system: the executing thread's calls (the idle thread  *)
(* makes none), the software interrupt, other interrupts.                  *)
(***************************************************************************)
ThreadStep(t) ==
  /\ Executing(k, t)
  /\ t # Idle
  /\ \/ thread_sleep(t)
     \/ thread_yield(t)
     \/ sched_task_exit(t)
     \/ \E i \in Pids : thread_wakeup(i)
     \/ \E u \in Threads, f \in CreateFlags : ~Live(u) /\ thread_create(u, f)
     \/ (\E u \in Threads : ~Live(u)) /\ thread_create_overflow

SoftwareInterrupt ==
  /\ k.msip /\ ~k.in_isr /\ ~k.fault
  /\ Dispatch(context_switch(k))
  /\ UNCHANGED <<sched_threads, pid, sched_num_threads>>

InterruptEntry ==
  /\ ~k.in_isr /\ ~k.fault
  /\ k' = trap_entry(k)
  /\ UNCHANGED <<sched_threads, pid, sched_num_threads, sched_active_pid>>

(* "Creating threads from within an ISR is currently supported" (thread.h). *)
Isr ==
  /\ InIsr(k)
  /\ \/ \E i \in Pids : thread_wakeup(i)
     \/ \E u \in Threads, f \in CreateFlags : ~Live(u) /\ thread_create(u, f)
     \/ (\E u \in Threads : ~Live(u)) /\ thread_create_overflow

InterruptReturn ==
  /\ InIsr(k)
  /\ Dispatch(trap_return(k))
  /\ UNCHANGED <<sched_threads, pid, sched_num_threads>>

(* The CPU faulted on the NULL pointer; nothing more is modelled. *)
Faulted == k.fault /\ UNCHANGED vars

Next ==
  \/ \E t \in Threads : ThreadStep(t)
  \/ SoftwareInterrupt
  \/ InterruptEntry
  \/ Isr
  \/ InterruptReturn
  \/ Faulted

(***************************************************************************)
(* Fairness: the hardware takes a pending software interrupt although      *)
(* other interrupts keep coming (strong fairness), and a handler returns.  *)
(* A thread that runs long enough yields: what thread_yield is for.        *)
(***************************************************************************)
Fairness ==
  /\ SF_vars(SoftwareInterrupt)
  /\ WF_vars(InterruptReturn)
  /\ \A t \in Threads \ {Idle} : SF_vars(Executing(k, t) /\ thread_yield(t))

Spec == Init /\ [][Next]_vars

FairSpec == Spec /\ Fairness

-----------------------------------------------------------------------------
(* Every variable has its type. *)
TypeOK ==
  /\ k \in Kernel
  /\ sched_threads \in [Pids -> Threads \cup {NoThread}]
  /\ pid \in [Threads -> Pids \cup {KERNEL_PID_UNDEF}]
  /\ sched_num_threads \in 0 .. MAXTHREADS
  /\ sched_active_pid \in Pids \cup {KERNEL_PID_UNDEF}

(* Run queues, statuses and the bit cache never disagree, whatever order   *)
(* threads and interrupts change them in (core/sched.c).                   *)
RunqueuesAgree == RunqueueConsistent(k)

(* clist_lpop in sched_set_status always removes the thread that blocks:   *)
(* the thread that executes heads its run queue.                           *)
LpopRemovesCaller == ActiveIsHead(k)

(* The pid table, the pids in the TCBs, sched_active_pid and               *)
(* sched_num_threads describe the same set of threads; a thread in it is   *)
(* not STOPPED and one outside it is.                                      *)
TableConsistent ==
  /\ \A i \in Pids : sched_threads[i] # NoThread => pid[sched_threads[i]] = i
  /\ \A t \in Threads : Live(t) <=> k.status[t] # "STOPPED"
  /\ sched_num_threads = Cardinality({i \in Pids : sched_threads[i] # NoThread})
  /\ k.active # NoThread => /\ sched_active_pid = pid[k.active]
                            /\ sched_threads[sched_active_pid] = k.active

(* Priority scheduling: a thread executes only while no thread of higher   *)
(* priority could (CreateFlags without WOUT_YIELD, which asks not to).     *)
HighestPriorityRuns ==
  \A t \in Threads : Executing(k, t) =>
    \A u \in Threads : OnRunqueue(k, u) => Prio[t] <= Prio[u]

(* Within a priority a thread that is preempted keeps its turn: a step     *)
(* other than the active thread giving up its place at the head only adds  *)
(* threads behind the others.                                              *)
KeepsTurn ==
  [][\A p \in Prios :
       \/ IsPrefix(k.rq[p], k'.rq[p])
       \/ /\ k.active # NoThread /\ Prio[k.active] = p
          /\ k.rq[p] # <<>> /\ Head(k.rq[p]) = k.active
          /\ IsPrefix(Tail(k.rq[p]), k'.rq[p])]_vars

(* A ready thread of the highest priority gets the CPU although others of  *)
(* the same priority are ready too, as long as those call thread_yield and *)
(* the scheduler has not read through the NULL sched_active_thread.        *)
RoundRobin ==
  \A t \in Threads :
    (OnRunqueue(k, t) /\ ~k.fault) ~>
      \/ k.active = t
      \/ ~OnRunqueue(k, t)
      \/ k.fault
      \/ \E u \in Threads : OnRunqueue(k, u) /\ Prio[u] < Prio[t]
=============================================================================

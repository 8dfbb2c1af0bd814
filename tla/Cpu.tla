-------------------------------- MODULE Cpu --------------------------------
(***************************************************************************)
(* The CPU under the synchronisation primitives: one core that executes    *)
(* the active thread, takes the software interrupt that switches threads,  *)
(* and takes other interrupts between any two steps of a thread.           *)
(*                                                                         *)
(* A primitive's module EXTENDS this one, adds its own state, and gives    *)
(* each call of a thread or of an interrupt handler as one step.  That is  *)
(* what the code makes atomic: the body of each call runs with interrupts  *)
(* disabled, and the thread_yield_higher or sched_switch after irq_restore *)
(* only raises the software interrupt, from priorities read before.        *)
(***************************************************************************)
EXTENDS Sched

VARIABLE k                    \* the kernel record of module Sched

(***************************************************************************)
(* The threads have been created with THREAD_CREATE_SLEEPING, and only the *)
(* idle thread runs: interrupts wake the others, in any order.             *)
(***************************************************************************)
Started ==
  [status   |-> [t \in Threads |-> IF t = Idle THEN "RUNNING" ELSE "SLEEPING"],
   rq       |-> [p \in Prios |-> IF p = Prio[Idle] THEN <<Idle>> ELSE <<>>],
   bitcache |-> {Prio[Idle]},
   active   |-> Idle,
   request  |-> FALSE,
   in_isr   |-> FALSE,
   msip     |-> FALSE,
   fault    |-> FALSE]

(* thread_sleep and thread_yield, called by t; thread_wakeup, called by a  *)
(* thread or by an interrupt handler, acts on a sleeping thread only.      *)
(* clist_lpoprpush in thread_yield moves the head of the run queue to its  *)
(* tail, whichever thread that is.                                         *)
Sleep(t) == k' = thread_yield_higher(sched_set_status(k, t, "SLEEPING"))

Yield(t) ==
  k' = thread_yield_higher(IF OnRunqueue(k, t)
                           THEN [k EXCEPT !.rq[Prio[t]] = Append(Tail(@), Head(@))]
                           ELSE k)

Wakeup(t) ==
  /\ k.status[t] = "SLEEPING"
  /\ k' = sched_switch(sched_set_status(k, t, "RUNNING"), Prio[t])

SoftwareInterrupt ==
  /\ k.msip /\ ~k.in_isr
  /\ k' = context_switch(k)

InterruptEntry ==
  /\ ~k.in_isr
  /\ k' = trap_entry(k)

InterruptReturn ==
  /\ k.in_isr
  /\ k' = trap_return(k)

Trap == SoftwareInterrupt \/ InterruptEntry \/ InterruptReturn

(***************************************************************************)
(* Fairness of the machine and of the programs on it: interrupts come and  *)
(* end, leave the software interrupt its chance, and no thread keeps the   *)
(* CPU for ever while another of its priority is ready.                    *)
(***************************************************************************)
CpuFairness ==
  /\ []<>InIsr(k) /\ []<>~InIsr(k)
  /\ []<>~k.msip
  /\ \A t \in Threads : []<>~(k.active = t /\ Len(k.rq[Prio[t]]) > 1)

-----------------------------------------------------------------------------
(* Whatever a primitive does to the threads, run queues, statuses and bit  *)
(* cache agree, and the thread that executes heads its run queue: the one  *)
(* that sched_set_status removes when it blocks (core/sched.c).            *)
KernelConsistent ==
  /\ k \in Kernel
  /\ RunqueueConsistent(k)
  /\ ActiveIsHead(k)

(* No thread executes while a thread of higher priority is ready.          *)
PriorityRespected ==
  \A t \in Threads : Executing(k, t) =>
    \A u \in Threads : OnRunqueue(k, u) => Prio[t] <= Prio[u]
=============================================================================

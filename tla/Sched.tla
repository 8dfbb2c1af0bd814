------------------------------- MODULE Sched -------------------------------
(***************************************************************************)
(* The scheduler of the RIOT kernel (core/sched.c), the part of            *)
(* core/thread.c every blocking primitive is built from, and the context   *)
(* switch of the RISC-V port (cpu/riscv_common), as operators on a kernel  *)
(* record k.  Each operator is one C function: it takes the kernel state   *)
(* before the call and returns the state after it, so that a handler that  *)
(* calls several of them is the composition of their operators.            *)
(*                                                                         *)
(* A thread is its thread control block (TCB).  Its priority is written    *)
(* once, by thread_create, and is the constant Prio[t]; a smaller number   *)
(* is a higher priority.                                                   *)
(***************************************************************************)
EXTENDS Integers, SequencesExt

CONSTANTS Threads,            \* thread control blocks
          Idle,               \* the idle thread, created by kernel_init
          NoThread,           \* the NULL pointer
          SCHED_PRIO_LEVELS,
          Prio                \* Prio[t] is t->priority

Prios == 0 .. SCHED_PRIO_LEVELS - 1

ASSUME SchedAssumption ==
  /\ Idle \in Threads
  /\ NoThread \notin Threads
  /\ SCHED_PRIO_LEVELS \in Nat \ {0}
  /\ Prio \in [Threads -> Prios]

(***************************************************************************)
(* thread_status_t, in its order; the two last are "on the run queue".     *)
(***************************************************************************)
STATUS_ON_RUNQUEUE == {"RUNNING", "PENDING"}

Blocked == {"STOPPED", "SLEEPING", "MUTEX_BLOCKED", "RECEIVE_BLOCKED",
            "SEND_BLOCKED", "REPLY_BLOCKED", "FLAG_BLOCKED_ANY",
            "FLAG_BLOCKED_ALL", "MBOX_BLOCKED", "COND_BLOCKED"}

Status == Blocked \cup STATUS_ON_RUNQUEUE

(***************************************************************************)
(* The kernel state.  rq[p] is the circular list sched_runqueues[p], head  *)
(* first; bitcache is the set of bits of runqueue_bitcache; request is     *)
(* sched_context_switch_request; in_isr is __in_isr; msip is the pending   *)
(* software interrupt thread_yield_higher raises; fault is set by a read   *)
(* through a NULL sched_active_thread, after which nothing is modelled.    *)
(***************************************************************************)
Kernel == [status   : [Threads -> Status],
           rq       : [Prios -> Seq(Threads)],
           bitcache : SUBSET Prios,
           active   : Threads \cup {NoThread},
           request  : BOOLEAN,
           in_isr   : BOOLEAN,
           msip     : BOOLEAN,
           fault    : BOOLEAN]

OnRunqueue(k, t) == k.status[t] \in STATUS_ON_RUNQUEUE

(* Mutation: the bit of a run queue that empties stays set. *)
sched_set_status_BitLeft(k, t, status) ==
  LET p     == Prio[t]
      joins == status \in STATUS_ON_RUNQUEUE /\ ~OnRunqueue(k, t)
      quits == status \notin STATUS_ON_RUNQUEUE /\ OnRunqueue(k, t)
  IN [k EXCEPT !.status[t] = status,
               !.rq[p]     = IF joins THEN Append(@, t) ELSE IF quits THEN Tail(@) ELSE @,
               !.bitcache  = IF joins THEN @ \cup {p} ELSE @]

(* Mutation: clist_lpush, a woken thread goes to the head of its queue. *)
sched_set_status_Lpush(k, t, status) ==
  LET p     == Prio[t]
      joins == status \in STATUS_ON_RUNQUEUE /\ ~OnRunqueue(k, t)
      quits == status \notin STATUS_ON_RUNQUEUE /\ OnRunqueue(k, t)
      queue == IF joins THEN <<t>> \o k.rq[p] ELSE IF quits THEN Tail(k.rq[p]) ELSE k.rq[p]
  IN [k EXCEPT !.status[t] = status,
               !.rq[p]     = queue,
               !.bitcache  = IF queue = <<>> THEN @ \ {p} ELSE @ \cup {p}]

(***************************************************************************)
(* sched_set_status.  A thread that joins its run queue goes to the tail   *)
(* (clist_rpush).  When one leaves, clist_lpop removes whatever is at the  *)
(* HEAD of that queue; nothing checks that it is the thread meant.         *)
(***************************************************************************)
sched_set_status(k, t, status) ==
  LET p     == Prio[t]
      joins == status \in STATUS_ON_RUNQUEUE /\ ~OnRunqueue(k, t)
      quits == status \notin STATUS_ON_RUNQUEUE /\ OnRunqueue(k, t)
      queue == IF joins THEN Append(k.rq[p], t)
               ELSE IF quits /\ k.rq[p] # <<>> THEN Tail(k.rq[p])
               ELSE k.rq[p]
  IN [k EXCEPT !.status[t] = status,
               !.rq[p]     = queue,
               !.bitcache  = IF joins THEN @ \cup {p}
                             ELSE IF quits /\ queue = <<>> THEN @ \ {p}
                             ELSE @]

(***************************************************************************)
(* sched_run picks the head of the run queue of the lowest set bit.  When  *)
(* that is the active thread it returns early and leaves every status as   *)
(* it is.                                                                  *)
(***************************************************************************)
NextThread(k) == Head(k.rq[Min(k.bitcache)])

(* Mutation: a preempted thread loses its turn to the others of its        *)
(* priority.                                                               *)
sched_run_Rotate(k) ==
  LET next == NextThread(k)
      p    == Prio[k.active]
  IN IF k.active = next
     THEN [k EXCEPT !.request = FALSE]
     ELSE IF k.active = NoThread \/ ~OnRunqueue(k, k.active)
     THEN [k EXCEPT !.request = FALSE, !.active = next, !.status[next] = "RUNNING"]
     ELSE [k EXCEPT !.request = FALSE, !.active = next, !.status[next] = "RUNNING",
                    !.rq[p] = Append(Tail(@), Head(@))]

sched_run(k) ==
  LET next   == NextThread(k)
      paused == k.active # NoThread /\ k.status[k.active] = "RUNNING"
  IN IF k.active = next
     THEN [k EXCEPT !.request = FALSE]
     ELSE [k EXCEPT !.request = FALSE,
                    !.active  = next,
                    !.status  = [u \in Threads |->
                                   IF u = next THEN "RUNNING"
                                   ELSE IF paused /\ u = k.active THEN "PENDING"
                                   ELSE k.status[u]]]

(***************************************************************************)
(* The RISC-V port.  thread_yield_higher raises the machine software       *)
(* interrupt; it is taken as soon as interrupts are enabled, so a handler  *)
(* ends in "...; irq_restore(); thread_yield_higher()" with msip set and   *)
(* its thread executes nothing more before context_switch, or before the   *)
(* other interrupts that come first.                                       *)
(***************************************************************************)
thread_yield_higher(k) == [k EXCEPT !.msip = TRUE]

context_switch(k) == sched_run([k EXCEPT !.msip = FALSE])

trap_entry(k) == [k EXCEPT !.in_isr = TRUE]

(* The end of handle_trap and the way back through trap_entry's tail. *)
trap_return(k) ==
  LET done == [k EXCEPT !.in_isr = FALSE]
  IN IF k.request THEN context_switch(done) ELSE done

(* Mutation: an interrupt handler's wake-up asks for no switch. *)
sched_switch_NoRequest(k, other_prio) ==
  IF k.active = NoThread
  THEN [k EXCEPT !.fault = TRUE]
  ELSE IF ~k.in_isr /\ (~OnRunqueue(k, k.active) \/ Prio[k.active] > other_prio)
       THEN thread_yield_higher(k)
       ELSE k

(***************************************************************************)
(* sched_switch reads sched_active_thread->priority unconditionally.       *)
(***************************************************************************)
sched_switch(k, other_prio) ==
  IF k.active = NoThread
  THEN [k EXCEPT !.fault = TRUE]
  ELSE IF ~OnRunqueue(k, k.active) \/ Prio[k.active] > other_prio
       THEN IF k.in_isr THEN [k EXCEPT !.request = TRUE]
                        ELSE thread_yield_higher(k)
       ELSE k

(* Mutation: in front of the waiters of the same priority too. *)
thread_add_to_list_Lifo(list, t) ==
  LET pos == SelectInSeq(list, LAMBDA u : Prio[u] >= Prio[t])
  IN IF pos = 0 THEN Append(list, t) ELSE InsertAt(list, pos, t)

(***************************************************************************)
(* thread_add_to_list inserts t behind every waiter that is at least as    *)
(* important, in front of the first one that is less important.            *)
(***************************************************************************)
thread_add_to_list(list, t) ==
  LET pos == SelectInSeq(list, LAMBDA u : Prio[u] > Prio[t])
  IN IF pos = 0 THEN Append(list, t) ELSE InsertAt(list, pos, t)

(***************************************************************************)
(* The contexts code runs in: thread t executes when it is active and no   *)
(* interrupt is being or about to be served.                               *)
(***************************************************************************)
Executing(k, t) == k.active = t /\ ~k.in_isr /\ ~k.msip /\ ~k.fault

InIsr(k) == k.in_isr /\ ~k.fault

(***************************************************************************)
(* What the scheduler's callers rely on, as predicates on a kernel state.  *)
(***************************************************************************)

(* A thread is in the run queue of its priority, once, exactly when its    *)
(* status says so, and a bit is set exactly when that queue is not empty.  *)
RunqueueConsistent(k) ==
  /\ \A p \in Prios : IsInjective(k.rq[p])
  /\ \A p \in Prios, t \in Threads :
       t \in Range(k.rq[p]) <=> p = Prio[t] /\ OnRunqueue(k, t)
  /\ k.bitcache = {p \in Prios : k.rq[p] # <<>>}

(* The active thread heads its run queue unless a switch is pending, so    *)
(* that sched_set_status, called by the active thread on itself, removes   *)
(* the thread it means.                                                    *)
ActiveIsHead(k) ==
  ~k.msip => /\ k.active # NoThread
             /\ k.rq[Prio[k.active]] # <<>>
             /\ Head(k.rq[Prio[k.active]]) = k.active
=============================================================================

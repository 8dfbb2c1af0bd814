--------------------------- MODULE ThreadsProofs ---------------------------
(***************************************************************************)
(* The safety of module Threads, for every set of threads, every number of *)
(* priority levels and every size of the thread table.                     *)
(*                                                                         *)
(* Inv is inductive.  RunqueuesAgree alone is not: that clist_lpop removes *)
(* the right thread needs LpopRemovesCaller, that thread_create does not   *)
(* overwrite the status of a queued thread needs TableConsistent, and that *)
(* sched_run finds a thread at all needs the idle thread to be ready.  An  *)
(* interrupt handler may create a thread while the active one is blocked   *)
(* and about to be switched from: that one still is in the table.          *)
(***************************************************************************)
EXTENDS Threads, SchedProofs, FiniteSetTheorems

Inv ==
  /\ TypeOK
  /\ RunqueuesAgree
  /\ LpopRemovesCaller
  /\ TableConsistent
  /\ OnRunqueue(k, Idle)
  /\ ~k.in_isr => ~k.request
  /\ k.active # NoThread => sched_active_pid \in Pids

Used(table) == {i \in Pids : table[i] # NoThread}

Table == <<sched_threads, pid, sched_num_threads>>

(* The number of used table entries is at most the size of the table. *)
LEMMA UsedFinite ==
  ASSUME NEW table
  PROVE  IsFiniteSet(Used(table)) /\ Cardinality(Used(table)) \in 0 .. MAXTHREADS
<1>1. IsFiniteSet(Pids) /\ Cardinality(Pids) = MAXTHREADS
  BY FS_Interval, ThreadsAssumption DEF Pids
<1>2. Used(table) \in SUBSET Pids
  BY DEF Used
<1> QED
  BY <1>1, <1>2, FS_Subset, FS_CardinalityType, ThreadsAssumption

(* A ready thread is in the table, under the pid in its TCB. *)
LEMMA ReadyIsLive ==
  ASSUME Inv, NEW t \in Threads, OnRunqueue(k, t)
  PROVE  pid[t] \in Pids /\ sched_threads[pid[t]] = t
<1>1. PICK i \in Pids : sched_threads[i] = t
  BY DEF Inv, TableConsistent, Live, OnRunqueue, STATUS_ON_RUNQUEUE
<1> QED
  BY <1>1, SchedAssumption DEF Inv, TableConsistent

(* The kernel record of a state of Inv. *)
LEMMA InvKernel ==
  ASSUME Inv
  PROVE  KInv(k) /\ k \in Kernel /\ OnRunqueue(k, Idle)
  BY DEF Inv, KInv, TypeOK, RunqueuesAgree

(* The thread that executes is ready, in the table and heads its queue. *)
LEMMA ExecutingIsHead ==
  ASSUME Inv, NEW t \in Threads, Executing(k, t)
  PROVE  /\ k.active = t /\ k.msip = FALSE /\ k.in_isr = FALSE /\ k.request = FALSE
         /\ k.rq[Prio[t]] # <<>> /\ Head(k.rq[Prio[t]]) = t
         /\ OnRunqueue(k, t)
         /\ sched_active_pid \in Pids /\ sched_active_pid = pid[t] /\ sched_threads[pid[t]] = t
<1>1. k.active = t /\ k.msip = FALSE /\ k.in_isr = FALSE /\ k.request = FALSE
  BY InvKernel DEF Executing, Inv, Kernel
<1>2. k.rq[Prio[t]] # <<>> /\ Head(k.rq[Prio[t]]) = t
  BY <1>1 DEF Inv, LpopRemovesCaller, ActiveIsHead
<1>5. OnRunqueue(k, t)
  BY <1>2, InvKernel, HeadIsReady
<1>6. pid[t] \in Pids /\ sched_threads[pid[t]] = t
  BY <1>5, ReadyIsLive
<1>7. sched_active_pid = pid[t]
  BY <1>1, SchedAssumption DEF Inv, TableConsistent
<1> QED
  BY <1>1, <1>2, <1>5, <1>6, <1>7

(* A step that leaves the table alone and neither stops a thread nor       *)
(* starts one preserves Inv if it preserves the kernel's part of it.       *)
LEMMA KernelStep ==
  ASSUME Inv, UNCHANGED Table,
         KInv(k'), ActiveIsHead(k'), OnRunqueue(k', Idle), ~k'.in_isr => ~k'.request,
         \A t \in Threads : k'.status[t] = "STOPPED" <=> k.status[t] = "STOPPED",
         sched_active_pid' \in Pids \cup {KERNEL_PID_UNDEF},
         k'.active # NoThread => /\ sched_active_pid' \in Pids
                                 /\ sched_active_pid' = pid[k'.active]
                                 /\ sched_threads[sched_active_pid'] = k'.active
  PROVE  Inv'
<1>1. sched_threads' = sched_threads /\ pid' = pid /\ sched_num_threads' = sched_num_threads
  BY DEF Table
<1>2. TypeOK'
  BY <1>1 DEF Inv, TypeOK, KInv
<1>3. RunqueuesAgree' /\ LpopRemovesCaller'
  BY DEF RunqueuesAgree, LpopRemovesCaller, KInv
<1>4. \A t \in Threads : Live(t)' <=> Live(t)
  BY <1>1 DEF Live
<1>5. TableConsistent'
  BY <1>1, <1>4 DEF Inv, TableConsistent
<1> QED
  BY <1>2, <1>3, <1>5 DEF Inv

(* A step that makes the scheduler run keeps Inv: the dispatched thread is *)
(* ready, so it is in the table.                                           *)
LEMMA DispatchStep ==
  ASSUME Inv, UNCHANGED Table, NEW m, Ran(m, k'), SameThreads(k, m),
         m.msip = FALSE, m.in_isr = FALSE,
         sched_active_pid' = IF k'.active = k.active THEN sched_active_pid ELSE pid[k'.active]
  PROVE  Inv'
<1>1. /\ m.status = k.status
      /\ m.rq = k.rq
      /\ m.active = k.active
      /\ \A u \in Threads : OnRunqueue(m, u) <=> OnRunqueue(k, u)
  BY DEF SameThreads, OnRunqueue
<1>2. /\ KInv(k')
      /\ k'.active \in Threads
      /\ k'.rq[Prio[k'.active]] # <<>>
      /\ Head(k'.rq[Prio[k'.active]]) = k'.active
      /\ \A u \in Threads : OnRunqueue(k', u) <=> OnRunqueue(k, u)
      /\ \A u \in Threads : ~OnRunqueue(k, u) => k'.status[u] = k.status[u]
      /\ k'.request = FALSE /\ k'.in_isr = FALSE /\ k'.msip = FALSE
  BY <1>1 DEF Ran
<1>3. k'.active # NoThread
  BY <1>2, SchedAssumption
<1>4. ActiveIsHead(k')
  BY <1>2, <1>3 DEF ActiveIsHead
<1>5. OnRunqueue(k', Idle)
  BY <1>2, InvKernel, SchedAssumption
<1>6. \A t \in Threads : k'.status[t] = "STOPPED" <=> k.status[t] = "STOPPED"
  BY <1>2 DEF OnRunqueue, STATUS_ON_RUNQUEUE
<1>7. OnRunqueue(k', k'.active)
  BY <1>2, HeadIsReady
<1>8. OnRunqueue(k, k'.active)
  BY <1>2, <1>7
<1>9. pid[k'.active] \in Pids /\ sched_threads[pid[k'.active]] = k'.active
  BY <1>2, <1>8, ReadyIsLive
<1>10. sched_active_pid' = pid[k'.active]
  BY <1>2, <1>3 DEF Inv, TableConsistent
<1> QED
  BY <1>2, <1>4, <1>5, <1>6, <1>9, <1>10, KernelStep

(* thread_sleep. *)
LEMMA SleepStep ==
  ASSUME Inv, NEW t \in Threads, Executing(k, t), t # Idle, thread_sleep(t)
  PROVE  Inv'
<1> DEFINE b == sched_set_status(k, t, "SLEEPING")
<1>1. /\ k.active = t /\ k.msip = FALSE /\ k.in_isr = FALSE /\ k.request = FALSE
      /\ k.rq[Prio[t]] # <<>> /\ Head(k.rq[Prio[t]]) = t
      /\ OnRunqueue(k, t)
      /\ sched_active_pid \in Pids /\ sched_active_pid = pid[t] /\ sched_threads[pid[t]] = t
  BY ExecutingIsHead, Zenon
<1>a. b = sched_set_status(k, t, "SLEEPING") /\ k' = thread_yield_higher(b)
  BY DEF thread_sleep
<1> HIDE DEF b
<1>b. "SLEEPING" \in Blocked
  BY DEF Blocked
<1>2. KInv(b) /\ StatusSet(k, b, t, "SLEEPING") /\ SameContext(k, b)
  BY <1>1, <1>a, <1>b, InvKernel, SetStatusBlock
<1>4. SameThreads(b, k') /\ k'.msip = TRUE /\ k'.request = b.request
  BY <1>2, <1>a, YieldHigher, Zenon
<1>5. /\ KInv(k') /\ k'.status = b.status
      /\ k'.active = t /\ k'.request = FALSE /\ k'.msip = TRUE
  BY <1>1, <1>2, <1>4 DEF SameThreads, SameContext
<1>6. \A u \in Threads : k'.status[u] = IF u = t THEN "SLEEPING" ELSE k.status[u]
  BY <1>2, <1>5 DEF StatusSet
<1>7. OnRunqueue(k', Idle)
  BY <1>6, InvKernel, SchedAssumption DEF OnRunqueue
<1>8. \A u \in Threads : k'.status[u] = "STOPPED" <=> k.status[u] = "STOPPED"
  BY <1>1, <1>6 DEF OnRunqueue, STATUS_ON_RUNQUEUE
<1>9. UNCHANGED Table /\ sched_active_pid' = sched_active_pid
  BY DEF thread_sleep, Table
<1> QED
  BY <1>1, <1>5, <1>7, <1>8, <1>9, KernelStep DEF ActiveIsHead

(* thread_yield: the rotated run queue holds the same threads. *)
LEMMA YieldStep ==
  ASSUME Inv, NEW t \in Threads, Executing(k, t), thread_yield(t)
  PROVE  Inv'
<1>1. /\ k.active = t /\ k.msip = FALSE /\ k.in_isr = FALSE /\ k.request = FALSE
      /\ k.rq[Prio[t]] # <<>> /\ Head(k.rq[Prio[t]]) = t
      /\ OnRunqueue(k, t)
      /\ sched_active_pid \in Pids /\ sched_active_pid = pid[t] /\ sched_threads[pid[t]] = t
  BY ExecutingIsHead, Zenon
<1> DEFINE r == [k EXCEPT !.rq[Prio[t]] = Append(Tail(@), Head(@))]
<1>2. k' = thread_yield_higher(r)
  BY <1>1 DEF thread_yield
<1>3. KInv(r) /\ r.status = k.status /\ SameContext(k, r)
  BY InvKernel, <1>1, RotateQueue, Zenon
<1> HIDE DEF r
<1>4. SameThreads(r, k') /\ k'.msip = TRUE /\ k'.request = r.request
  BY <1>2, <1>3, YieldHigher, Zenon
<1>5. /\ KInv(k') /\ k'.status = k.status
      /\ k'.active = t /\ k'.request = FALSE /\ k'.msip = TRUE
  BY <1>1, <1>3, <1>4 DEF SameThreads, SameContext
<1>6. OnRunqueue(k', Idle)
  BY <1>5, InvKernel DEF OnRunqueue
<1>7. UNCHANGED Table /\ sched_active_pid' = sched_active_pid
  BY DEF thread_yield, Table
<1> QED
  BY <1>1, <1>5, <1>6, <1>7, KernelStep DEF ActiveIsHead

(* thread_wakeup, in a thread or in an interrupt handler.  When no thread  *)
(* is active yet sched_switch faults, and the software interrupt of        *)
(* cpu_switch_context_exit is still pending.                               *)
LEMMA WakeupStep ==
  ASSUME Inv, NEW i \in Pids, thread_wakeup(i)
  PROVE  Inv'
<1> DEFINE t == sched_threads[i]
           b == sched_set_status(k, t, "RUNNING")
<1>1. t \in Threads /\ k.status[t] = "SLEEPING" /\ k \in Kernel
  BY InvKernel DEF thread_wakeup, Inv, TypeOK
<1>2. b = sched_set_status(k, t, "RUNNING") /\ k' = sched_switch(b, Prio[t])
  BY DEF thread_wakeup
<1>3. UNCHANGED Table /\ sched_active_pid' = sched_active_pid
  BY DEF thread_wakeup, Table
<1> HIDE DEF t, b
<1>4. "RUNNING" \in STATUS_ON_RUNQUEUE
  BY DEF STATUS_ON_RUNQUEUE
<1>5. /\ KInv(b) /\ StatusSet(k, b, t, "RUNNING") /\ SameContext(k, b)
      /\ \A p \in Prios : k.rq[p] # <<>> => b.rq[p] # <<>> /\ Head(b.rq[p]) = Head(k.rq[p])
  BY <1>1, <1>2, <1>4, InvKernel, SetStatusReady
<1>6. \A u \in Threads : b.status[u] = IF u = t THEN "RUNNING" ELSE k.status[u]
  BY <1>5 DEF StatusSet
<1>7. OnRunqueue(b, Idle)
  BY <1>6, InvKernel, SchedAssumption DEF OnRunqueue, STATUS_ON_RUNQUEUE
<1>8. \A u \in Threads : b.status[u] = "STOPPED" <=> k.status[u] = "STOPPED"
  BY <1>1, <1>6
<1>9. ActiveIsHead(b)
  BY <1>5, SchedAssumption DEF Inv, LpopRemovesCaller, ActiveIsHead, SameContext, KInv, Kernel
<1>10. SameThreads(b, k') /\ k'.in_isr = b.in_isr
       /\ (k'.msip = b.msip \/ k'.msip = TRUE)
       /\ (k'.request = b.request \/ b.in_isr)
  <2>1. CASE b.active = NoThread
    BY <2>1, <1>2, <1>5, SchedSwitchFault
  <2>2. CASE b.active # NoThread
    <3>1. b.active \in Threads
      BY <2>2, <1>5 DEF KInv, Kernel
    <3>2. Switched(b, k', Prio[t])
      BY <3>1, <1>2, <1>5, SchedSwitch
    <3> QED
      BY <3>2 DEF Switched
  <2> QED
    BY <2>1, <2>2, Zenon
<1>11. /\ KInv(k') /\ k'.status = b.status /\ k'.rq = b.rq /\ k'.active = b.active
       /\ k'.in_isr = k.in_isr /\ k'.active = k.active
       /\ (k'.request = k.request \/ k.in_isr)
  BY <1>5, <1>10 DEF SameThreads, SameContext
<1>12. ActiveIsHead(k')
  BY <1>9, <1>10, <1>11 DEF ActiveIsHead
<1>13. OnRunqueue(k', Idle) /\ (~k'.in_isr => ~k'.request)
  BY <1>7, <1>11 DEF OnRunqueue, Inv
<1>14. k'.active # NoThread => /\ sched_active_pid' \in Pids
                               /\ sched_active_pid' = pid[k'.active]
                               /\ sched_threads[sched_active_pid'] = k'.active
  BY <1>3, <1>11 DEF Inv, TableConsistent
<1>15. sched_active_pid' \in Pids \cup {KERNEL_PID_UNDEF}
  BY <1>3 DEF Inv, TypeOK
<1> QED
  BY <1>3, <1>8, <1>11, <1>12, <1>13, <1>14, <1>15, KernelStep

(* thread_create, in a thread or in an interrupt handler: the kernel's     *)
(* part.  The TCB is in no run queue, since a thread outside the table is  *)
(* STOPPED.                                                                *)
LEMMA CreateKernel ==
  ASSUME Inv, NEW u \in Threads, ~Live(u), NEW f \in CreateFlags, thread_create(u, f)
  PROVE  /\ KInv(k') /\ ActiveIsHead(k') /\ OnRunqueue(k', Idle)
         /\ k'.active = k.active /\ (~k'.in_isr => ~k'.request)
         /\ k'.status[u] # "STOPPED"
         /\ \A v \in Threads \ {u} : k'.status[v] = k.status[v]
<1> DEFINE s == IF f = "SLEEPING" THEN "SLEEPING" ELSE "PENDING"
           b == sched_set_status(k, u, s)
<1>2. k.status[u] = "STOPPED" /\ k \in Kernel
  BY InvKernel DEF Inv, TableConsistent
<1>3. [k EXCEPT !.status[u] = "STOPPED"] = k
  BY <1>2 DEF Kernel
<1>4. k' = IF f = "NONE" THEN sched_switch(b, Prio[u]) ELSE b
  BY <1>3 DEF thread_create
<1>5. b = sched_set_status(k, u, s) /\ s # "STOPPED"
  OBVIOUS
<1>6. s \in STATUS_ON_RUNQUEUE \/ s \in Blocked
  BY DEF STATUS_ON_RUNQUEUE, Blocked
<1> HIDE DEF s, b
<1>7. /\ KInv(b) /\ StatusSet(k, b, u, s) /\ SameContext(k, b)
      /\ \A p \in Prios : k.rq[p] # <<>> => b.rq[p] # <<>> /\ Head(b.rq[p]) = Head(k.rq[p])
  <2>1. CASE s \in STATUS_ON_RUNQUEUE
    BY <2>1, <1>5, InvKernel, SetStatusReady
  <2>2. CASE s \in Blocked
    <3>1. ~OnRunqueue(k, u)
      BY <1>2 DEF OnRunqueue, STATUS_ON_RUNQUEUE
    <3> QED
      BY <2>2, <3>1, <1>5, InvKernel, SetStatusOff
  <2> QED
    BY <2>1, <2>2, <1>6
<1>8. \A v \in Threads : b.status[v] = IF v = u THEN s ELSE k.status[v]
  BY <1>7 DEF StatusSet
<1>9. ActiveIsHead(b)
  BY <1>7, SchedAssumption DEF Inv, LpopRemovesCaller, ActiveIsHead, SameContext, KInv, Kernel
<1>10. SameThreads(b, k') /\ k'.in_isr = b.in_isr
       /\ (k'.msip = b.msip \/ k'.msip = TRUE)
       /\ (k'.request = b.request \/ b.in_isr)
  <2>1. CASE f = "NONE" /\ b.active = NoThread
    BY <2>1, <1>4, <1>7, SchedSwitchFault
  <2>2. CASE f = "NONE" /\ b.active # NoThread
    <3>1. b.active \in Threads
      BY <2>2, <1>7 DEF KInv, Kernel
    <3>2. Switched(b, k', Prio[u])
      BY <2>2, <3>1, <1>4, <1>7, SchedSwitch
    <3> QED
      BY <3>2 DEF Switched
  <2>3. CASE f # "NONE"
    BY <2>3, <1>4, <1>7 DEF SameThreads
  <2> QED
    BY <2>1, <2>2, <2>3, Zenon
<1>11. /\ KInv(k') /\ k'.status = b.status /\ k'.rq = b.rq /\ k'.active = b.active
       /\ k'.in_isr = k.in_isr /\ k'.active = k.active
       /\ (k'.request = k.request \/ k.in_isr)
  BY <1>7, <1>10 DEF SameThreads, SameContext
<1>12. ActiveIsHead(k')
  BY <1>9, <1>10, <1>11 DEF ActiveIsHead
<1>13. Idle # u
  BY <1>2, InvKernel DEF OnRunqueue, STATUS_ON_RUNQUEUE
<1>14. OnRunqueue(k', Idle) /\ (~k'.in_isr => ~k'.request)
  BY <1>8, <1>11, <1>13, InvKernel, SchedAssumption DEF OnRunqueue, Inv
<1> QED
  BY <1>5, <1>8, <1>11, <1>12, <1>14

(* thread_create: the table's part. *)
LEMMA CreateStep ==
  ASSUME Inv, NEW u \in Threads, ~Live(u), NEW f \in CreateFlags, thread_create(u, f)
  PROVE  Inv'
<1> DEFINE new == Min(FreePids)
<1>1. /\ KInv(k') /\ ActiveIsHead(k') /\ OnRunqueue(k', Idle)
      /\ k'.active = k.active /\ (~k'.in_isr => ~k'.request)
      /\ k'.status[u] # "STOPPED"
      /\ \A v \in Threads \ {u} : k'.status[v] = k.status[v]
  BY CreateKernel, Zenon
<1>2. new \in Pids /\ sched_threads[new] = NoThread
  <2>1. FreePids \in SUBSET Nat /\ FreePids # {}
    BY ThreadsAssumption DEF thread_create, FreePids, Pids
  <2>2. new \in FreePids
    BY <2>1, LowestBit
  <2> QED
    BY <2>2 DEF FreePids
<1>3. /\ sched_threads' = [sched_threads EXCEPT ![new] = u]
      /\ pid' = [pid EXCEPT ![u] = new]
      /\ sched_num_threads' = sched_num_threads + 1
      /\ sched_active_pid' = sched_active_pid
  BY DEF thread_create
<1> HIDE DEF new
<1>4. /\ sched_threads \in [Pids -> Threads \cup {NoThread}]
      /\ pid \in [Threads -> Pids \cup {KERNEL_PID_UNDEF}]
      /\ \A i \in Pids : sched_threads[i] # u
  BY DEF Inv, TypeOK, Live
<1>5. /\ sched_threads' \in [Pids -> Threads \cup {NoThread}]
      /\ pid' \in [Threads -> Pids \cup {KERNEL_PID_UNDEF}]
      /\ \A i \in Pids : sched_threads'[i] = IF i = new THEN u ELSE sched_threads[i]
      /\ \A v \in Threads : pid'[v] = IF v = u THEN new ELSE pid[v]
  BY <1>2, <1>3, <1>4
<1>6. sched_num_threads' = Cardinality(Used(sched_threads')) /\ sched_num_threads' \in 0 .. MAXTHREADS
  <2>1. Used(sched_threads') = Used(sched_threads) \cup {new} /\ new \notin Used(sched_threads)
    BY <1>2, <1>5, SchedAssumption DEF Used
  <2>2. sched_num_threads = Cardinality(Used(sched_threads))
    BY DEF Inv, TableConsistent, Used
  <2>3. IsFiniteSet(Used(sched_threads))
    BY UsedFinite
  <2>4. Cardinality(Used(sched_threads) \cup {new}) = Cardinality(Used(sched_threads)) + 1
    BY <2>1, <2>3, FS_AddElement
  <2>5. Cardinality(Used(sched_threads')) \in 0 .. MAXTHREADS
    BY UsedFinite
  <2> QED
    BY <2>1, <2>2, <2>4, <2>5, <1>3
<1>7. TypeOK'
  BY <1>1, <1>3, <1>5, <1>6 DEF Inv, TypeOK, KInv
<1>8. k.active # NoThread => /\ k.active \in Threads
                             /\ sched_active_pid = pid[k.active]
                             /\ sched_threads[sched_active_pid] = k.active
                             /\ sched_active_pid \in Pids
                             /\ k.active # u
  BY <1>4, InvKernel DEF Inv, TableConsistent, Kernel
<1>9. \A i \in Pids : sched_threads'[i] # NoThread => pid'[sched_threads'[i]] = i
  BY <1>4, <1>5 DEF Inv, TableConsistent
<1>10. \A v \in Threads : Live(v)' <=> k'.status[v] # "STOPPED"
  <2>1. \A v \in Threads : Live(v)' <=> (Live(v) \/ v = u)
    BY <1>2, <1>5, SchedAssumption DEF Live
  <2> QED
    BY <2>1, <1>1 DEF Inv, TableConsistent
<1>11. k'.active # NoThread => /\ sched_active_pid' \in Pids
                              /\ sched_active_pid' = pid'[k'.active]
                              /\ sched_threads'[sched_active_pid'] = k'.active
  BY <1>1, <1>2, <1>3, <1>5, <1>8, SchedAssumption
<1>12. TableConsistent'
  BY <1>6, <1>9, <1>10, <1>11 DEF TableConsistent, Used
<1>13. RunqueuesAgree' /\ LpopRemovesCaller'
  BY <1>1 DEF RunqueuesAgree, LpopRemovesCaller, KInv
<1> QED
  BY <1>1, <1>7, <1>11, <1>12, <1>13 DEF Inv

(* sched_task_exit: the exiting thread heads its run queue, and            *)
(* sched_active_pid is its entry of the table.                             *)
LEMMA ExitStep ==
  ASSUME Inv, NEW t \in Threads, Executing(k, t), t # Idle, sched_task_exit(t)
  PROVE  Inv'
<1> DEFINE b == sched_set_status(k, t, "STOPPED")
           d == [b EXCEPT !.active = NoThread]
<1>1. /\ k.active = t /\ k.msip = FALSE /\ k.in_isr = FALSE /\ k.request = FALSE
      /\ k.rq[Prio[t]] # <<>> /\ Head(k.rq[Prio[t]]) = t
      /\ sched_active_pid \in Pids /\ sched_active_pid = pid[t] /\ sched_threads[pid[t]] = t
  BY ExecutingIsHead, Zenon
<1>a. b = sched_set_status(k, t, "STOPPED") /\ d = [b EXCEPT !.active = NoThread]
  OBVIOUS
<1>b. /\ k' = thread_yield_higher(d)
      /\ sched_threads' = [sched_threads EXCEPT ![sched_active_pid] = NoThread]
      /\ sched_num_threads' = sched_num_threads - 1
      /\ pid' = pid /\ sched_active_pid' = sched_active_pid
  BY DEF sched_task_exit
<1> HIDE DEF b, d
<1>2. KInv(b) /\ StatusSet(k, b, t, "STOPPED") /\ SameContext(k, b)
  <2>1. "STOPPED" \in Blocked
    BY DEF Blocked
  <2> QED
    BY <2>1, <1>1, <1>a, InvKernel, SetStatusBlock
<1>3. KInv(d) /\ d.status = b.status /\ d.active = NoThread /\ d.request = b.request
  <2>1. b \in Kernel
    BY <1>2 DEF KInv
  <2>2. d \in Kernel /\ d.active = NoThread /\ d.request = b.request
    BY <2>1, <1>a DEF Kernel
  <2>3. d.status = b.status /\ d.rq = b.rq /\ d.bitcache = b.bitcache
    BY <2>1, <1>a DEF Kernel
  <2> QED
    BY <2>2, <2>3, <1>2 DEF KInv, RunqueueConsistent, OnRunqueue
<1>4. SameThreads(d, k') /\ k'.msip = TRUE /\ k'.request = d.request
  BY <1>3, <1>b, YieldHigher, Zenon
<1>5. /\ KInv(k') /\ k'.msip = TRUE /\ k'.request = FALSE /\ k'.active = NoThread
      /\ \A u \in Threads : k'.status[u] = IF u = t THEN "STOPPED" ELSE k.status[u]
  BY <1>1, <1>2, <1>3, <1>4 DEF SameThreads, SameContext, StatusSet
<1>6. OnRunqueue(k', Idle)
  BY <1>5, InvKernel, SchedAssumption DEF OnRunqueue
<1>7. /\ sched_threads \in [Pids -> Threads \cup {NoThread}]
      /\ \A i \in Pids : sched_threads[i] # NoThread => pid[sched_threads[i]] = i
  BY DEF Inv, TypeOK, TableConsistent
<1>8. /\ sched_threads' \in [Pids -> Threads \cup {NoThread}]
      /\ \A i \in Pids : sched_threads'[i] = IF i = pid[t] THEN NoThread ELSE sched_threads[i]
  BY <1>1, <1>7, <1>b
<1>9. sched_num_threads' = Cardinality(Used(sched_threads')) /\ sched_num_threads' \in 0 .. MAXTHREADS
  <2>1. Used(sched_threads') = Used(sched_threads) \ {pid[t]} /\ pid[t] \in Used(sched_threads)
    BY <1>1, <1>8, SchedAssumption DEF Used
  <2>2. sched_num_threads = Cardinality(Used(sched_threads))
    BY DEF Inv, TableConsistent, Used
  <2>3. IsFiniteSet(Used(sched_threads))
    BY UsedFinite
  <2>4. Cardinality(Used(sched_threads) \ {pid[t]}) = Cardinality(Used(sched_threads)) - 1
    BY <2>1, <2>3, FS_RemoveElement, Zenon
  <2>5. Cardinality(Used(sched_threads')) \in 0 .. MAXTHREADS
    BY UsedFinite
  <2> QED
    BY <2>1, <2>2, <2>4, <2>5, <1>b
<1>10. TypeOK'
  BY <1>5, <1>8, <1>9, <1>b DEF Inv, TypeOK, KInv
<1>11. \A u \in Threads : Live(u)' <=> k'.status[u] # "STOPPED"
  <2>1. \A u \in Threads : Live(u)' <=> (Live(u) /\ u # t)
    BY <1>1, <1>7, <1>8, SchedAssumption DEF Live
  <2> QED
    BY <2>1, <1>5 DEF Inv, TableConsistent
<1>12. \A i \in Pids : sched_threads'[i] # NoThread => pid'[sched_threads'[i]] = i
  BY <1>7, <1>8, <1>b
<1>13. TableConsistent'
  BY <1>5, <1>9, <1>11, <1>12 DEF TableConsistent, Used
<1>14. RunqueuesAgree' /\ LpopRemovesCaller'
  BY <1>5 DEF RunqueuesAgree, LpopRemovesCaller, ActiveIsHead, KInv
<1> QED
  BY <1>5, <1>6, <1>10, <1>13, <1>14 DEF Inv

(* thread_create when the table is full. *)
LEMMA OverflowStep ==
  ASSUME Inv, thread_create_overflow
  PROVE  Inv'
  BY DEF thread_create_overflow, vars, Inv, TypeOK, RunqueuesAgree, LpopRemovesCaller,
         TableConsistent, Live

(* The calls of the executing thread. *)
LEMMA ThreadStepInv ==
  ASSUME Inv, NEW t \in Threads, ThreadStep(t)
  PROVE  Inv'
<1>1. Executing(k, t) /\ t # Idle
  BY DEF ThreadStep
<1>2. CASE thread_sleep(t)
  BY <1>1, <1>2, SleepStep
<1>3. CASE thread_yield(t)
  BY <1>1, <1>3, YieldStep
<1>4. CASE sched_task_exit(t)
  BY <1>1, <1>4, ExitStep
<1>5. CASE \E i \in Pids : thread_wakeup(i)
  BY <1>5, WakeupStep
<1>6. CASE \E u \in Threads, f \in CreateFlags : ~Live(u) /\ thread_create(u, f)
  BY <1>6, CreateStep
<1>7. CASE thread_create_overflow
  BY <1>7, OverflowStep
<1> QED
  BY <1>2, <1>3, <1>4, <1>5, <1>6, <1>7 DEF ThreadStep

(* The software interrupt and the other interrupts. *)
LEMMA InterruptStepInv ==
  ASSUME Inv, SoftwareInterrupt \/ InterruptEntry \/ Isr \/ InterruptReturn
  PROVE  Inv'
<1>0. KInv(k) /\ OnRunqueue(k, Idle) /\ k \in Kernel
  BY InvKernel
<1>1. CASE SoftwareInterrupt
  <2>1. k' = context_switch(k) /\ k.in_isr = FALSE
    BY <1>0, <1>1 DEF SoftwareInterrupt, Dispatch, Kernel
  <2>2. PICK m : /\ Ran(m, k') /\ SameThreads(k, m)
                 /\ m.msip = FALSE /\ m.in_isr = k.in_isr /\ m.fault = k.fault
    BY <2>1, <1>0, ContextSwitch, Zenon
  <2>3. UNCHANGED Table
    BY <1>1 DEF SoftwareInterrupt, Table
  <2>4. sched_active_pid' = IF k'.active = k.active THEN sched_active_pid ELSE pid[k'.active]
    BY <1>1 DEF SoftwareInterrupt, Dispatch
  <2> QED
    BY <2>1, <2>2, <2>3, <2>4, DispatchStep, Zenon
<1>2. CASE InterruptEntry
  <2>1. k' = trap_entry(k) /\ UNCHANGED Table /\ sched_active_pid' = sched_active_pid
    BY <1>2 DEF InterruptEntry, Table
  <2>2. /\ SameThreads(k, k')
        /\ k'.in_isr = TRUE
        /\ k'.request = k.request /\ k'.msip = k.msip /\ k'.fault = k.fault
    BY <2>1, <1>0, TrapEntry, Zenon
  <2>3. KInv(k') /\ k'.status = k.status /\ k'.rq = k.rq /\ k'.active = k.active
    BY <2>2 DEF SameThreads
  <2>4. ActiveIsHead(k') /\ OnRunqueue(k', Idle)
    BY <2>2, <2>3, <1>0 DEF Inv, LpopRemovesCaller, ActiveIsHead, OnRunqueue
  <2>5. /\ sched_active_pid' \in Pids \cup {KERNEL_PID_UNDEF}
        /\ k'.active # NoThread => /\ sched_active_pid' \in Pids
                                  /\ sched_active_pid' = pid[k'.active]
                                  /\ sched_threads[sched_active_pid'] = k'.active
    BY <2>1, <2>3 DEF Inv, TypeOK, TableConsistent
  <2> QED
    BY <2>1, <2>2, <2>3, <2>4, <2>5, KernelStep
<1>3. CASE Isr
  BY <1>3, WakeupStep, CreateStep, OverflowStep DEF Isr
<1>4. CASE InterruptReturn
  <2>1. k' = trap_return(k)
    BY <1>4 DEF InterruptReturn, Dispatch
  <2>2. UNCHANGED Table
    BY <1>4 DEF InterruptReturn, Table
  <2>3. sched_active_pid' = IF k'.active = k.active THEN sched_active_pid ELSE pid[k'.active]
    BY <1>4 DEF InterruptReturn, Dispatch
  <2>4. CASE \E m : /\ Ran(m, k') /\ SameThreads(k, m)
                    /\ m.msip = FALSE /\ m.in_isr = FALSE /\ m.fault = k.fault
    BY <2>2, <2>3, <2>4, DispatchStep, Zenon
  <2>5. CASE /\ k.request = FALSE
             /\ SameThreads(k, k')
             /\ k'.request = FALSE /\ k'.in_isr = FALSE
             /\ k'.msip = k.msip /\ k'.fault = k.fault
    <3>1. KInv(k') /\ k'.status = k.status /\ k'.rq = k.rq /\ k'.active = k.active
      BY <2>5 DEF SameThreads
    <3>2. ActiveIsHead(k') /\ OnRunqueue(k', Idle)
      BY <2>5, <3>1, <1>0 DEF Inv, LpopRemovesCaller, ActiveIsHead, OnRunqueue
    <3>3. /\ sched_active_pid' \in Pids \cup {KERNEL_PID_UNDEF}
          /\ k'.active # NoThread => /\ sched_active_pid' \in Pids
                                    /\ sched_active_pid' = pid[k'.active]
                                    /\ sched_threads[sched_active_pid'] = k'.active
      BY <2>3, <3>1 DEF Inv, TypeOK, TableConsistent
    <3> QED
      BY <2>2, <2>5, <3>1, <3>2, <3>3, KernelStep
  <2> QED
    BY <2>1, <2>4, <2>5, <1>0, TrapReturn, Zenon
<1> QED
  BY <1>1, <1>2, <1>3, <1>4

(* kernel_init leaves the system in a state of Inv. *)
LEMMA InitInv == Init => Inv /\ k.msip = TRUE
<1> SUFFICES ASSUME Init PROVE Inv /\ k.msip = TRUE
  BY Zenon
<1> DEFINE i == sched_set_status(Boot, Idle, "PENDING")
           m == sched_set_status(i, Main, "PENDING")
<1>a. /\ i = sched_set_status(Boot, Idle, "PENDING")
      /\ m = sched_set_status(i, Main, "PENDING")
      /\ k = thread_yield_higher(m)
  BY DEF Init
<1> HIDE DEF i, m
<1>b. Idle \in Threads /\ Main \in Threads /\ Idle # Main /\ "PENDING" \in STATUS_ON_RUNQUEUE
  BY SchedAssumption, ThreadsAssumption DEF STATUS_ON_RUNQUEUE
<1>1. KInv(Boot)
  <2>1. Boot \in Kernel
    BY DEF Boot, Kernel, Status, Blocked
  <2>2. \A t \in Threads : ~OnRunqueue(Boot, t)
    BY DEF Boot, OnRunqueue, STATUS_ON_RUNQUEUE
  <2>3. \A p \in Prios : Boot.rq[p] = <<>>
    BY DEF Boot
  <2>4. Boot.bitcache = {}
    BY DEF Boot
  <2> QED
    BY <2>1, <2>2, <2>3, <2>4 DEF KInv, RunqueueConsistent, IsInjective, Range
<1>2. KInv(i) /\ StatusSet(Boot, i, Idle, "PENDING") /\ SameContext(Boot, i)
  BY <1>1, <1>a, <1>b, SetStatusReady
<1>3. KInv(m) /\ StatusSet(i, m, Main, "PENDING") /\ SameContext(i, m)
  BY <1>2, <1>a, <1>b, SetStatusReady
<1>4. SameThreads(m, k) /\ k.msip = TRUE /\ k.request = m.request
  BY <1>3, <1>a, YieldHigher, Zenon
<1>5. /\ KInv(k) /\ k.msip = TRUE /\ k.request = FALSE /\ k.active = NoThread
      /\ \A t \in Threads : k.status[t] = IF t \in {Idle, Main} THEN "PENDING" ELSE "STOPPED"
  BY <1>2, <1>3, <1>4 DEF SameThreads, SameContext, StatusSet, Boot
<1>6. /\ sched_threads = [j \in Pids |-> IF j = 1 THEN Idle
                                         ELSE IF j = 2 THEN Main ELSE NoThread]
      /\ pid = [t \in Threads |-> IF t = Idle THEN 1
                                  ELSE IF t = Main THEN 2 ELSE KERNEL_PID_UNDEF]
      /\ sched_num_threads = 2 /\ sched_active_pid = KERNEL_PID_UNDEF
  BY DEF Init
<1>7. 1 \in Pids /\ 2 \in Pids /\ 1 # 2
  BY ThreadsAssumption DEF Pids
<1>8. Used(sched_threads) = {1, 2}
  BY <1>6, <1>7, <1>b, SchedAssumption DEF Used
<1>9. Cardinality({1, 2}) = 2
  <2>1. IsFiniteSet({1}) /\ Cardinality({1}) = 1
    BY FS_Singleton
  <2>2. Cardinality({1} \cup {2}) = 2
    BY <2>1, FS_AddElement
  <2>3. {1} \cup {2} = {1, 2}
    OBVIOUS
  <2> QED
    BY <2>2, <2>3
<1>10. TypeOK
  BY <1>5, <1>6, <1>7, <1>b, ThreadsAssumption DEF TypeOK, KInv
<1>11. \A t \in Threads : Live(t) <=> t \in {Idle, Main}
  BY <1>6, <1>7, <1>b, SchedAssumption DEF Live
<1>12. \A j \in Pids : sched_threads[j] # NoThread => pid[sched_threads[j]] = j
  BY <1>6, <1>7, <1>b
<1>13. TableConsistent
  BY <1>5, <1>6, <1>8, <1>9, <1>11, <1>12 DEF TableConsistent, Used
<1> QED
  BY <1>5, <1>10, <1>13, <1>b
     DEF Inv, RunqueuesAgree, LpopRemovesCaller, ActiveIsHead, OnRunqueue, KInv

(* Every step preserves Inv. *)
LEMMA NextInv == Inv /\ [Next]_vars => Inv'
<1> SUFFICES ASSUME Inv, [Next]_vars PROVE Inv'
  OBVIOUS
<1>1. CASE \E t \in Threads : ThreadStep(t)
  BY <1>1, ThreadStepInv
<1>2. CASE SoftwareInterrupt \/ InterruptEntry \/ Isr \/ InterruptReturn
  BY <1>2, InterruptStepInv
<1>3. CASE Faulted \/ UNCHANGED vars
  BY <1>3 DEF Faulted, vars, Inv, TypeOK, RunqueuesAgree, LpopRemovesCaller,
             TableConsistent, Live
<1> QED
  BY <1>1, <1>2, <1>3 DEF Next

(* Inv, and with it each of its conjuncts, holds in every reachable state  *)
(* of the threads' calls of thread.c and sched.c.                          *)
THEOREM InvHolds == Spec => []Inv
  BY InitInv, NextInv, PTL DEF Spec

(* Every variable of thread.c and sched.c keeps its type.                  *)
THEOREM TypesHold == Spec => []TypeOK
<1>1. Inv => TypeOK
  BY DEF Inv
<1> QED
  BY <1>1, InvHolds, PTL

(* The scheduler's queues, statuses and bit cache agree in every reachable *)
(* state (RunqueuesAgree), whatever the interrupts do.                     *)
THEOREM RunqueuesAlwaysAgree == Spec => []RunqueuesAgree
<1>1. Inv => RunqueuesAgree
  BY DEF Inv
<1> QED
  BY <1>1, InvHolds, PTL

(* The clist_lpop of sched_set_status always removes the thread that gives *)
(* up its place, although nothing in sched.c checks it.                    *)
THEOREM LpopAlwaysRemovesCaller == Spec => []LpopRemovesCaller
<1>1. Inv => LpopRemovesCaller
  BY DEF Inv
<1> QED
  BY <1>1, InvHolds, PTL

(* sched_threads, the pids in the TCBs, sched_active_pid and               *)
(* sched_num_threads never contradict each other.                          *)
THEOREM TableAlwaysConsistent == Spec => []TableConsistent
<1>1. Inv => TableConsistent
  BY DEF Inv
<1> QED
  BY <1>1, InvHolds, PTL

-----------------------------------------------------------------------------
(* Priority scheduling.  HighestPriorityRuns is not inductive: an          *)
(* interrupt handler makes a thread ready while a lower one is active.     *)
(* SwitchAsked says that the switch is then already asked for.             *)
SwitchAsked(x) ==
  ~x.msip => \A u \in Threads :
               OnRunqueue(x, u) /\ Prio[u] < Prio[x.active] => x.in_isr /\ x.request

(* Making t ready and then calling sched_switch with t's priority.         *)
LEMMA SwitchAskedFor ==
  ASSUME NEW x, SwitchAsked(x), NEW t \in Threads, NEW s, NEW b, NEW n,
         x.active \in Threads,
         StatusSet(x, b, t, s), SameContext(x, b), Switched(b, n, Prio[t])
  PROVE  SwitchAsked(n)
<1> SUFFICES ASSUME ~n.msip, NEW u \in Threads, OnRunqueue(n, u), Prio[u] < Prio[n.active]
             PROVE  n.in_isr /\ n.request
  BY DEF SwitchAsked
<1>1. /\ n.status = b.status /\ n.active = b.active /\ n.in_isr = b.in_isr
      /\ b.active = x.active /\ b.in_isr = x.in_isr /\ b.request = x.request /\ b.msip = x.msip
  BY DEF Switched, SameThreads, SameContext
<1>2. CASE /\ OnRunqueue(b, b.active) /\ ~(Prio[b.active] > Prio[t])
           /\ n.request = b.request /\ n.msip = b.msip
  <2>1. Prio[u] \in Int /\ Prio[t] \in Int /\ Prio[x.active] \in Int
    BY SchedAssumption DEF Prios
  <2>2. u # t
    BY <1>1, <1>2, <2>1
  <2>3. OnRunqueue(x, u)
    BY <1>1, <2>2 DEF OnRunqueue, StatusSet
  <2> QED
    BY <1>1, <1>2, <2>3 DEF SwitchAsked
<1>3. CASE b.in_isr /\ n.request = TRUE /\ n.msip = b.msip
  BY <1>1, <1>3
<1>4. CASE ~b.in_isr /\ n.request = b.request /\ n.msip = TRUE
  BY <1>4
<1> QED
  BY <1>2, <1>3, <1>4 DEF Switched

(* A dispatched thread has the highest ready priority.                     *)
LEMMA SwitchAskedRan ==
  ASSUME NEW x, NEW n, Ran(x, n)
  PROVE  SwitchAsked(n)
<1>1. /\ n.active \in Threads
      /\ \A u \in Threads : OnRunqueue(n, u) => Prio[n.active] <= Prio[u]
  BY DEF Ran
<1>2. \A u \in Threads : Prio[u] \in Int
  BY SchedAssumption DEF Prios
<1> QED
  BY <1>1, <1>2 DEF SwitchAsked

(* thread_create keeps SwitchAsked, unless it is told not to switch.       *)
LEMMA SwitchAskedCreate ==
  ASSUME "WOUT_YIELD" \notin CreateFlags, Inv, SwitchAsked(k),
         NEW u \in Threads, ~Live(u), NEW f \in CreateFlags, thread_create(u, f)
  PROVE  SwitchAsked(k')
<1> DEFINE s == IF f = "SLEEPING" THEN "SLEEPING" ELSE "PENDING"
           b == sched_set_status(k, u, s)
<1>1. KInv(k) /\ k \in Kernel
  BY InvKernel
<1>2. k.status[u] = "STOPPED"
  BY DEF Inv, TableConsistent
<1>3. [k EXCEPT !.status[u] = "STOPPED"] = k
  BY <1>1, <1>2 DEF Kernel
<1>4. k' = IF f = "NONE" THEN sched_switch(b, Prio[u]) ELSE b
  BY <1>3 DEF thread_create
<1>5. b = sched_set_status(k, u, s)
  OBVIOUS
<1>6. f = "NONE" \/ f = "SLEEPING"
  BY ThreadsAssumption
<1>7. CASE f = "NONE"
  <2>1. s = "PENDING" /\ s \in STATUS_ON_RUNQUEUE
    BY <1>7 DEF STATUS_ON_RUNQUEUE
  <2> HIDE DEF s, b
  <2>2. KInv(b) /\ StatusSet(k, b, u, s) /\ SameContext(k, b)
    BY <1>1, <1>5, <2>1, SetStatusReady
  <2>3. CASE k.active = NoThread
    <3>1. k.msip = TRUE
      BY <2>3, <1>1 DEF Inv, LpopRemovesCaller, ActiveIsHead, Kernel
    <3>2. k'.msip = TRUE
      BY <1>4, <1>7, <2>2, <2>3, <3>1, SchedSwitchFault DEF SameContext
    <3> QED
      BY <3>2 DEF SwitchAsked
  <2>4. CASE k.active # NoThread
    <3>1. k.active \in Threads /\ b.active \in Threads
      BY <1>1, <2>2, <2>4 DEF SameContext, Kernel
    <3>2. Switched(b, k', Prio[u])
      BY <1>4, <1>7, <2>2, <3>1, SchedSwitch
    <3> QED
      BY <2>2, <3>1, <3>2, SwitchAskedFor
  <2> QED
    BY <2>3, <2>4
<1>8. CASE f = "SLEEPING"
  <2>1. s = "SLEEPING" /\ s \in Blocked /\ ~OnRunqueue(k, u)
    BY <1>2, <1>8 DEF Blocked, OnRunqueue, STATUS_ON_RUNQUEUE
  <2>2. k' = b
    BY <1>4, <1>8
  <2> HIDE DEF s, b
  <2>3. StatusSet(k, b, u, s) /\ SameContext(k, b)
    BY <1>1, <1>5, <2>1, SetStatusOff
  <2>4. \A v \in Threads : OnRunqueue(k', v) => OnRunqueue(k, v)
    BY <2>1, <2>2, <2>3 DEF StatusSet, OnRunqueue, STATUS_ON_RUNQUEUE
  <2> QED
    BY <2>2, <2>3, <2>4 DEF SwitchAsked, SameContext
<1> QED
  BY <1>6, <1>7, <1>8

(* Every step keeps SwitchAsked, if threads are not created without the    *)
(* switch.                                                                 *)
LEMMA SwitchAskedStep ==
  ASSUME "WOUT_YIELD" \notin CreateFlags, Inv, SwitchAsked(k), [Next]_vars
  PROVE  SwitchAsked(k')
<1>0. KInv(k) /\ k \in Kernel /\ OnRunqueue(k, Idle)
  BY InvKernel
<1>1. ASSUME NEW n, n.msip = TRUE PROVE SwitchAsked(n)
  BY <1>1 DEF SwitchAsked
<1>2. ASSUME NEW i \in Pids, thread_wakeup(i) PROVE SwitchAsked(k')
  <2> DEFINE t == sched_threads[i]
             b == sched_set_status(k, t, "RUNNING")
  <2>1. t \in Threads
    BY <1>2 DEF thread_wakeup, Inv, TypeOK
  <2>2. b = sched_set_status(k, t, "RUNNING") /\ k' = sched_switch(b, Prio[t])
    BY <1>2 DEF thread_wakeup
  <2> HIDE DEF t, b
  <2>3. KInv(b) /\ StatusSet(k, b, t, "RUNNING") /\ SameContext(k, b)
    BY <2>1, <2>2, <1>0, SetStatusReady DEF STATUS_ON_RUNQUEUE
  <2>4. CASE k.active = NoThread
    <3>1. k.msip = TRUE
      BY <2>4, <1>0 DEF Inv, LpopRemovesCaller, ActiveIsHead, Kernel
    <3>2. k'.msip = TRUE
      BY <2>2, <2>3, <2>4, <3>1, SchedSwitchFault DEF SameContext
    <3> QED
      BY <3>2, <1>1, Zenon
  <2>5. CASE k.active # NoThread
    <3>1. k.active \in Threads /\ b.active \in Threads
      BY <2>3, <2>5, <1>0 DEF SameContext, Kernel
    <3>2. Switched(b, k', Prio[t])
      BY <2>2, <2>3, <3>1, SchedSwitch
    <3> QED
      BY <2>1, <2>3, <3>1, <3>2, SwitchAskedFor
  <2> QED
    BY <2>4, <2>5
<1>3. ASSUME NEW t \in Threads, ThreadStep(t) PROVE SwitchAsked(k')
  <2>0. Executing(k, t) /\ k.active = t /\ OnRunqueue(k, t)
    BY <1>3, ExecutingIsHead, Zenon DEF ThreadStep
  <2>1. CASE thread_sleep(t)
    <3>1. KInv(sched_set_status(k, t, "SLEEPING"))
      BY <2>0, <1>0, ExecutingIsHead, SetStatusBlock, Zenon DEF Blocked
    <3> QED
      BY <2>1, <3>1, <1>1, YieldHigher, Zenon DEF thread_sleep
  <2>2. CASE thread_yield(t)
    <3>1. k.rq[Prio[t]] # <<>>
      BY <2>0, ExecutingIsHead, Zenon
    <3>2. KInv([k EXCEPT !.rq[Prio[t]] = Append(Tail(@), Head(@))])
      BY <3>1, <1>0, RotateQueue
    <3> QED
      BY <2>0, <2>2, <3>2, <1>1, YieldHigher, Zenon DEF thread_yield
  <2>3. CASE sched_task_exit(t)
    <3> DEFINE b == sched_set_status(k, t, "STOPPED")
    <3>1. KInv(b)
      BY <2>0, <1>0, ExecutingIsHead, SetStatusBlock, Zenon DEF Blocked
    <3> HIDE DEF b
    <3> DEFINE c == [b EXCEPT !.active = NoThread]
    <3>2. k' = [c EXCEPT !.msip = TRUE] /\ c \in Kernel
      BY <2>3, <3>1, Zenon DEF sched_task_exit, thread_yield_higher, b, KInv, Kernel
    <3> HIDE DEF c
    <3>3. k'.msip = TRUE
      BY <3>2 DEF Kernel
    <3> QED
      BY <3>3, <1>1, Zenon
  <2>4. CASE \E i \in Pids : thread_wakeup(i)
    BY <2>4, <1>2
  <2>5. CASE \E u \in Threads, f \in CreateFlags : ~Live(u) /\ thread_create(u, f)
    BY <2>5, SwitchAskedCreate
  <2>6. CASE thread_create_overflow
    BY <2>6 DEF thread_create_overflow, vars, SwitchAsked
  <2> QED
    BY <1>3, <2>1, <2>2, <2>3, <2>4, <2>5, <2>6 DEF ThreadStep
<1>4. CASE SoftwareInterrupt
  <2>1. k' = context_switch(k)
    BY <1>4 DEF SoftwareInterrupt, Dispatch
  <2>2. \E m : Ran(m, k')
    BY <2>1, <1>0, ContextSwitch, Zenon
  <2> QED
    BY <2>2, SwitchAskedRan
<1>5. CASE InterruptEntry
  <2>1. k' = trap_entry(k) /\ ~k.in_isr
    BY <1>5 DEF InterruptEntry
  <2>2. k'.status = k.status /\ k'.active = k.active /\ k'.msip = k.msip
    BY <2>1, <1>0, TrapEntry, Zenon DEF SameThreads
  <2> QED
    BY <2>1, <2>2 DEF SwitchAsked, OnRunqueue
<1>6. CASE Isr
  <2>1. CASE thread_create_overflow
    BY <2>1 DEF thread_create_overflow, vars, SwitchAsked
  <2> QED
    BY <1>6, <1>2, <2>1, SwitchAskedCreate DEF Isr
<1>7. CASE InterruptReturn
  <2>1. k' = trap_return(k)
    BY <1>7 DEF InterruptReturn, Dispatch
  <2>2. CASE \E m : Ran(m, k')
    BY <2>2, SwitchAskedRan
  <2>3. CASE k.request = FALSE /\ SameThreads(k, k') /\ k'.msip = k.msip
    BY <2>3 DEF SwitchAsked, OnRunqueue, SameThreads
  <2> QED
    BY <2>1, <2>2, <2>3, <1>0, TrapReturn, Zenon
<1>8. CASE Faulted \/ UNCHANGED vars
  BY <1>8 DEF Faulted, vars, SwitchAsked
<1> QED
  BY <1>3, <1>4, <1>5, <1>6, <1>7, <1>8 DEF Next

(* The thread that executes has the highest priority of all ready threads  *)
(* (sched_run, sched_switch and the switch at the end of an interrupt), as *)
(* long as no thread is created with THREAD_CREATE_WOUT_YIELD.             *)
THEOREM HighestPriorityAlwaysRuns ==
  ASSUME "WOUT_YIELD" \notin CreateFlags
  PROVE  Spec => []HighestPriorityRuns
<1>1. Init => SwitchAsked(k)
  BY InitInv DEF SwitchAsked
<1>2. Inv /\ SwitchAsked(k) /\ [Next]_vars => SwitchAsked(k)'
  BY SwitchAskedStep
<1>3. Inv /\ SwitchAsked(k) => HighestPriorityRuns
  <2> SUFFICES ASSUME Inv, SwitchAsked(k), NEW t \in Threads, Executing(k, t),
                      NEW u \in Threads, OnRunqueue(k, u)
               PROVE  Prio[t] <= Prio[u]
    BY DEF HighestPriorityRuns
  <2>1. k.active = t /\ ~k.msip /\ ~k.in_isr
    BY DEF Executing
  <2>2. ~(Prio[u] < Prio[t])
    BY <2>1 DEF SwitchAsked
  <2>3. Prio[u] \in Int /\ Prio[t] \in Int
    BY SchedAssumption DEF Prios
  <2> QED
    BY <2>2, <2>3
<1> QED
  BY <1>1, <1>2, <1>3, InvHolds, PTL DEF Spec
=============================================================================

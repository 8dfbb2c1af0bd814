------------------------------ MODULE LazyFpu ------------------------------
(***************************************************************************)
(* Lazy switching of the floating-point unit (cpu/riscv_common).  The      *)
(* context switch does not save the FPU's registers: it switches the FPU   *)
(* off unless the next thread owns them.  The first FPU instruction of any *)
(* other thread traps, and the trap handler saves the registers for their  *)
(* owner, loads those of the running thread and makes it the owner.        *)
(*                                                                         *)
(* Threads come and go as in module Threads.  The 32 data registers are    *)
(* one value, the status register fcsr is another.  Only threads that were *)
(* given an FPU context use the FPU, and interrupt handlers do not: the    *)
(* kernel panics otherwise.                                                *)
(***************************************************************************)
EXTENDS Threads

CONSTANTS Contexts,           \* struct fpu_context objects
          NoContext,          \* the NULL pointer
          MayUse,             \* MayUse[t]: the contexts t is created with
          Values,             \* contents of the data registers, 0 among them
          StatusValues        \* contents of fcsr, 0 among them

VARIABLES fpu_on,             \* mstatus.FS: FPU instructions do not trap
          fpuStat,            \* fpu_on when the running handler was entered
          fregs, fcsr,        \* the FPU's registers
          fpu_owner_thread,
          fpucontext,         \* fpucontext[t]: t->fpucontext
          saved,              \* saved[c]: what context c holds
          mine                \* mine[t]: what t last wrote, for the properties

fpuVars == <<fpu_on, fpuStat, fregs, fcsr, fpu_owner_thread, fpucontext, saved, mine>>

allVars == <<k, sched_threads, pid, sched_num_threads, sched_active_pid,
             fpu_on, fpuStat, fregs, fcsr, fpu_owner_thread, fpucontext, saved, mine>>

Zero == [regs |-> 0, fcsr |-> 0]

ASSUME LazyFpuAssumption ==
  /\ NoContext \notin Contexts
  /\ MayUse \in [Threads -> SUBSET (Contexts \cup {NoContext})]
  /\ MayUse[Main] \cap Contexts # {}
  /\ 0 \in Values \cap StatusValues

(* fpu_init, then kernel_init, which gives main a context. *)
FpuInit ==
  /\ Init
  /\ fpu_on = FALSE /\ fpuStat = FALSE
  /\ fregs = 0 /\ fcsr = 0
  /\ fpu_owner_thread = NoThread
  /\ \E c \in MayUse[Main] \cap Contexts :
       fpucontext = [t \in Threads |-> IF t = Main THEN c ELSE NoContext]
  /\ saved = [c \in Contexts |-> Zero]
  /\ mine = [t \in Threads |-> Zero]

(* A thread uses the FPU while it is on. *)
Uses(t) == Executing(k, t) /\ fpu_on /\ fpucontext[t] # NoContext

Compute(t, v) ==
  /\ Uses(t)
  /\ fregs' = v
  /\ mine' = [mine EXCEPT ![t].regs = v]
  /\ UNCHANGED <<vars, fpu_on, fpuStat, fcsr, fpu_owner_thread, fpucontext, saved>>

SetStatus(t, v) ==
  /\ Uses(t)
  /\ fcsr' = v
  /\ mine' = [mine EXCEPT ![t].fcsr = v]
  /\ UNCHANGED <<vars, fpu_on, fpuStat, fregs, fpu_owner_thread, fpucontext, saved>>

(* The stores for the old owner.  fcsr is read (frcsr) into a scratch      *)
(* register and not stored.                                                *)
Save ==
  IF fpu_owner_thread = NoThread THEN saved
  ELSE [saved EXCEPT ![fpucontext[fpu_owner_thread]].regs = fregs]

(* An FPU instruction while the FPU is off: fpu_insn_trap. *)
fpu_insn_trap(t) ==
  /\ Executing(k, t) /\ ~k.request
  /\ ~fpu_on
  /\ fpucontext[t] # NoContext
  /\ fpu_on' = TRUE
  /\ saved' = Save
  /\ fpu_owner_thread' = t
  /\ fregs' = saved'[fpucontext[t]].regs
  /\ fcsr' = saved'[fpucontext[t]].fcsr
  /\ UNCHANGED <<vars, fpuStat, fpucontext, mine>>

(* Mutation: the owner stays when its pid is given away. *)
thread_fpu_context_init_Kept(c, newPid) ==
  /\ UNCHANGED fpu_owner_thread
  /\ saved' = IF c = NoContext THEN saved ELSE [saved EXCEPT ![c] = Zero]

(* Ownership is taken from a thread whose pid is given to a new one. *)
thread_fpu_context_init(c, newPid) ==
  /\ fpu_owner_thread' =
       IF fpu_owner_thread # NoThread /\ pid'[fpu_owner_thread] = newPid
       THEN NoThread ELSE fpu_owner_thread
  /\ saved' = IF c = NoContext THEN saved ELSE [saved EXCEPT ![c] = Zero]

(* Contexts that live threads were given. *)
Taken == {fpucontext[t] : t \in {u \in Threads : Live(u)}}

thread_create_with_fp(t, c, flags) ==
  /\ ~Live(t)
  /\ c = NoContext \/ c \notin Taken
  /\ thread_create(t, flags)
  /\ thread_fpu_context_init(c, pid'[t])
  /\ fpucontext' = [fpucontext EXCEPT ![t] = c]
  /\ mine' = [mine EXCEPT ![t] = Zero]
  /\ UNCHANGED <<fpu_on, fpuStat, fregs, fcsr>>

Creates == \E u \in Threads, f \in CreateFlags : \E c \in MayUse[u] : thread_create_with_fp(u, c, f)

ThreadCall(t) ==
  /\ Executing(k, t)
  /\ t # Idle
  /\ \/ Creates
     \/ /\ \/ thread_sleep(t)
           \/ thread_yield(t)
           \/ sched_task_exit(t)
           \/ \E i \in Pids : thread_wakeup(i)
        /\ UNCHANGED fpuVars

(* Mutation: the FPU stays as it is across a context switch. *)
FpuAfterSwitch_Unchanged(next) == fpu_on

(* context_switch: off, and on again if the next thread owns the FPU. *)
FpuAfterSwitch(next) == fpu_owner_thread # NoThread /\ next = fpu_owner_thread

Switch ==
  /\ SoftwareInterrupt
  /\ fpu_on' = FpuAfterSwitch(k'.active)
  /\ UNCHANGED <<fpuStat, fregs, fcsr, fpu_owner_thread, fpucontext, saved, mine>>

(* handle_trap switches the FPU off for the handler... *)
Enter ==
  /\ InterruptEntry
  /\ fpuStat' = fpu_on
  /\ fpu_on' = FALSE
  /\ UNCHANGED <<fregs, fcsr, fpu_owner_thread, fpucontext, saved, mine>>

FpuIsr ==
  /\ InIsr(k)
  /\ \/ Creates
     \/ (\E i \in Pids : thread_wakeup(i)) /\ UNCHANGED fpuVars

(* ... and back to what it was; then there may be a context switch. *)
Return ==
  /\ InterruptReturn
  /\ fpu_on' = IF k.request THEN FpuAfterSwitch(k'.active) ELSE fpuStat
  /\ fpuStat' = FALSE
  /\ UNCHANGED <<fregs, fcsr, fpu_owner_thread, fpucontext, saved, mine>>

FpuNext ==
  \/ \E t \in Threads, v \in Values : Compute(t, v)
  \/ \E t \in Threads, v \in StatusValues : SetStatus(t, v)
  \/ \E t \in Threads : fpu_insn_trap(t) \/ ThreadCall(t)
  \/ Switch
  \/ Enter
  \/ FpuIsr
  \/ Return
  \/ Faulted /\ UNCHANGED fpuVars

FpuSpec == FpuInit /\ [][FpuNext]_allVars

-----------------------------------------------------------------------------
(* Every variable has its type. *)
FpuTypeOK ==
  /\ fpu_on \in BOOLEAN /\ fpuStat \in BOOLEAN
  /\ fregs \in Values /\ fcsr \in StatusValues
  /\ fpu_owner_thread \in Threads \cup {NoThread}
  /\ fpucontext \in [Threads -> Contexts \cup {NoContext}]
  /\ saved \in [Contexts -> [regs : Values, fcsr : StatusValues]]
  /\ mine \in [Threads -> [regs : Values, fcsr : StatusValues]]

(* What t will find in the FPU when it uses it next. *)
Finds(t) ==
  IF fpu_owner_thread = t THEN [regs |-> fregs, fcsr |-> fcsr] ELSE saved[fpucontext[t]]

Users == {t \in Threads : Live(t) /\ fpucontext[t] # NoContext}

(* Every thread finds in the data registers what it last wrote there, zero *)
(* if it is new, through any sequence of switches, traps, interrupts,      *)
(* exits and creations (fpu_insn_trap, context_switch in intr.S).          *)
RegistersPreserved ==
  /\ FpuTypeOK
  /\ \A t \in Users : Finds(t).regs = mine[t].regs

(* "Save context of old owner" (fpu_insn_trap), of which fcsr is a part.   *)
StatusPreserved == \A t \in Users : Finds(t).fcsr = mine[t].fcsr

(* The FPU is on only for its owner, and off in interrupt handlers, so     *)
(* that nobody else's instruction changes the owner's registers; and the   *)
(* owner has a context to save them to (the assert in fpu_insn_trap).      *)
OnForOwnerOnly ==
  /\ k.in_isr => ~fpu_on
  /\ \A t \in Threads : Executing(k, t) /\ fpu_on => fpu_owner_thread = t
  /\ fpu_owner_thread # NoThread => fpucontext[fpu_owner_thread] # NoContext
=============================================================================

---------------------------- MODULE ThreadFlags ----------------------------
(***************************************************************************)
(* Thread flags (core/thread_flags.c).  Every thread has a set of flags    *)
(* that threads and interrupt handlers set and that only it clears, by     *)
(* waiting for any, one or all flags of a mask.                            *)
(*                                                                         *)
(* A wait is two critical sections with interrupts enabled between them:   *)
(* the test that may block, and _thread_flags_clear_atomic.                *)
(***************************************************************************)
EXTENDS Cpu

CONSTANTS Flags,              \* the bits of thread_flags_t, as numbers
          Masks               \* the sets of flags programs wait for and clear

VARIABLES flags,              \* flags[t]: t->flags
          wait_data,          \* wait_data[t]: t->wait_data
          call                \* call[t]: the wait that t is in; seen is, for the
                              \* properties, what wait_one found set of its mask

flagVars == <<flags, wait_data, call>>

allFlagVars == <<k, flags, wait_data, call>>

ASSUME FlagsAssumption == Flags \subseteq Nat /\ Masks \subseteq SUBSET Flags

NoCall == [op |-> "out", mask |-> {}, seen |-> {}]

Ops == {"any", "one", "all"}

(***************************************************************************)
(* thread_create does not initialise t->flags: it holds what the stack     *)
(* memory the thread control block lies in held before.  The idle thread's *)
(* flags are never looked at.                                              *)
(***************************************************************************)
FlagsStart ==
  /\ flags \in {f \in [Threads -> SUBSET Flags] : f[Idle] = {}}
  /\ wait_data = [t \in Threads |-> {}]
  /\ call = [t \in Threads |-> NoCall]

FlagsInit == k = Started /\ FlagsStart

(* The switch in thread_flags_wake. *)
Satisfied(status, set, mask) ==
  \/ status = "FLAG_BLOCKED_ANY" /\ set \cap mask # {}
  \/ status = "FLAG_BLOCKED_ALL" /\ mask \subseteq set

(* thread_flags_wake, after set became t's flags.  It asks for a switch    *)
(* but makes none.                                                         *)
thread_flags_wake(kk, t, set) ==
  IF Satisfied(kk.status[t], set, wait_data[t])
  THEN [sched_set_status(kk, t, "PENDING") EXCEPT !.request = TRUE]
  ELSE kk

(* Mutation: the flags are set after the waiting thread was looked at. *)
thread_flags_set_Late(t, mask) ==
  LET woken == thread_flags_wake(k, t, flags[t])
  IN /\ flags' = [flags EXCEPT ![t] = @ \cup mask]
     /\ k' = IF woken = k THEN k ELSE thread_yield_higher(woken)
     /\ UNCHANGED <<wait_data, call>>

thread_flags_set(t, mask) ==
  LET woken == thread_flags_wake(k, t, flags'[t])
  IN /\ flags' = [flags EXCEPT ![t] = @ \cup mask]
     /\ k' = IF Satisfied(k.status[t], flags'[t], wait_data[t])
             THEN thread_yield_higher(woken) ELSE k
     /\ UNCHANGED <<wait_data, call>>

(* _thread_flags_clear_atomic, all that is left of thread_flags_clear. *)
thread_flags_clear(t, mask) ==
  /\ flags' = [flags EXCEPT ![t] = @ \ mask]
  /\ UNCHANGED <<k, wait_data, call>>

(***************************************************************************)
(* thread_flags_wait_any, _one and _all up to the point where t goes on,   *)
(* at once or when it is woken.                                            *)
(***************************************************************************)
BlocksAs(way) == IF way = "all" THEN "FLAG_BLOCKED_ALL" ELSE "FLAG_BLOCKED_ANY"

thread_flags_wait(t, way, mask) ==
  /\ call' = [call EXCEPT ![t] = [op |-> way, mask |-> mask, seen |-> {}]]
  /\ IF Satisfied(BlocksAs(way), flags[t], mask)
     THEN UNCHANGED <<k, wait_data>>
     ELSE /\ wait_data' = [wait_data EXCEPT ![t] = mask]
          /\ k' = thread_yield_higher(sched_set_status(k, t, BlocksAs(way)))
  /\ UNCHANGED flags

(* Mutation: the most significant flag is kept. *)
wait_one_pick_Most(t) ==
  /\ call[t].op = "one"
  /\ LET tmp == flags[t] \cap call[t].mask
         one == IF tmp = {} THEN {} ELSE {Max(tmp)}
     IN call' = [call EXCEPT ![t] = [op |-> "clear", mask |-> one, seen |-> tmp]]
  /\ UNCHANGED <<k, flags, wait_data>>

(* wait_one reads the flags and keeps the least significant that is set... *)
wait_one_pick(t) ==
  /\ call[t].op = "one"
  /\ LET tmp == flags[t] \cap call[t].mask
         one == IF tmp = {} THEN {} ELSE {Min(tmp)}
     IN call' = [call EXCEPT ![t] = [op |-> "clear", mask |-> one, seen |-> tmp]]
  /\ UNCHANGED <<k, flags, wait_data>>

(* ... and the wait returns the flags it finds set, and clears them. *)
wait_return(t) ==
  /\ call[t].op \in {"any", "all", "clear"}
  /\ flags' = [flags EXCEPT ![t] = @ \ call[t].mask]
  /\ call' = [call EXCEPT ![t] = NoCall]
  /\ UNCHANGED <<k, wait_data>>

Resumes(t) == Executing(k, t) /\ (wait_one_pick(t) \/ wait_return(t))

FlagsFree(t) == Executing(k, t) /\ t # Idle /\ call[t] = NoCall

FlagsCall(t) ==
  /\ FlagsFree(t)
  /\ \/ \E way \in Ops, mask \in Masks : thread_flags_wait(t, way, mask)
     \/ \E u \in Threads \ {Idle}, mask \in Masks : thread_flags_set(u, mask)
     \/ \E mask \in Masks : thread_flags_clear(t, mask)
     \/ (Sleep(t) \/ Yield(t)) /\ UNCHANGED flagVars

FlagsIsr ==
  /\ InIsr(k)
  /\ \/ \E t \in Threads \ {Idle}, mask \in Masks : thread_flags_set(t, mask)
     \/ \E t \in Threads : Wakeup(t) /\ UNCHANGED flagVars

FlagsNext ==
  \/ \E t \in Threads : FlagsCall(t) \/ Resumes(t)
  \/ FlagsIsr
  \/ Trap /\ UNCHANGED flagVars

FlagsSpec == FlagsInit /\ [][FlagsNext]_allFlagVars

(***************************************************************************)
(* Fairness: CpuFairness, and a thread that gets the CPU again and again   *)
(* goes on with its wait.                                                  *)
(***************************************************************************)
FlagsFairness == CpuFairness /\ \A t \in Threads \ {Idle} : SF_allFlagVars(Resumes(t))

FlagsFairSpec == FlagsSpec /\ FlagsFairness

-----------------------------------------------------------------------------
(* Every variable has its type. *)
FlagsTypeOK ==
  /\ k \in Kernel
  /\ flags \in [Threads -> SUBSET Flags]
  /\ wait_data \in [Threads -> SUBSET Flags]
  /\ call \in [Threads -> [op : Ops \cup {"clear", "out"}, mask : SUBSET Flags,
                           seen : SUBSET Flags]]

(* No lost wake-up: no thread is blocked in a wait whose condition holds,  *)
(* whoever set the flags and whenever, and the mask that                   *)
(* thread_flags_wake will look at is the one the thread waits for.         *)
NoLostFlag ==
  /\ FlagsTypeOK
  /\ \A t \in Threads : k.status[t] \in {"FLAG_BLOCKED_ANY", "FLAG_BLOCKED_ALL"} =>
       /\ wait_data[t] = call[t].mask
       /\ BlocksAs(call[t].op) = k.status[t]
       /\ ~Satisfied(k.status[t], flags[t], wait_data[t])

(* thread_flags_wait_any returns a flag of its mask, wait_all its whole    *)
(* mask, wait_one exactly one flag, the least significant of those of its  *)
(* mask that were set when it looked, even if a less significant one has   *)
(* been set since: no wake-up is spurious, and nothing that happens        *)
(* between the two critical sections takes a flag away.                    *)
WaitReturnsItsFlags ==
  \A t \in Threads : Executing(k, t) =>
    /\ call[t].op = "any" => call[t].mask \cap flags[t] # {}
    /\ call[t].op = "all" => call[t].mask \subseteq flags[t]
    /\ call[t].op = "clear" =>
         \E f \in flags[t] \cap call[t].seen :
           call[t].mask = {f} /\ \A g \in call[t].seen : f <= g

(* A thread in a wait for any of its flags gets the flag it was sent,      *)
(* whether it was set before the wait, while the thread was blocked or     *)
(* after it was woken for another flag, unless a more important thread     *)
(* executes again and again.                                               *)
EveryFlagIsSeen ==
  \A t \in Threads \ {Idle}, f \in Flags :
    \/ []<>(\E u \in Threads : Prio[u] < Prio[t] /\ Executing(k, u))
    \/ (call[t].op = "any" /\ f \in call[t].mask \cap flags[t]) ~> f \notin flags[t]
=============================================================================

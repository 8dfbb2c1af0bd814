----------------------------- MODULE MCWaiting -----------------------------
(***************************************************************************)
(* Three threads on two priorities use one pipe ("cond"), or two of them   *)
(* wait for thread flags ("flags"): subject says which.  The third thread  *)
(* sleeps in the second case.                                              *)
(***************************************************************************)
EXTENDS Cond, ThreadFlags

CONSTANTS idle, a, b, c, Subjects

VARIABLE subject

MCThreadSet == {idle, a, b, c}

MCPrio == [t \in MCThreadSet |-> CASE t = idle -> 2 [] t = a -> 0 [] OTHER -> 1]

WaitingVars == <<allVars, flagVars, immediate, subject>>

WaitingInit ==
  /\ subject \in Subjects
  /\ CondInit /\ FlagsStart
  /\ subject = "cond" => flags = [t \in Threads |-> {}]
  /\ subject = "flags" => flags[c] = {} /\ ~immediate

CondOnly(action) == subject = "cond" /\ action /\ UNCHANGED <<flagVars, subject>>

FlagsOnly(action) ==
  /\ subject = "flags" /\ action
  /\ UNCHANGED <<mutexVars, condVars, pipeVars, immediate, subject>>
  /\ flags'[c] = {} /\ k'.status[c] = "SLEEPING"

WaitingNext == CondOnly(CondNext) \/ FlagsOnly(FlagsNext)

(* The fairness of modules Cond and ThreadFlags. *)
WaitingFairness ==
  /\ CpuFairness
  /\ \A t \in Threads \ {Idle} :
       SF_WaitingVars(CondOnly(PipeStep(t) /\ UNCHANGED immediate) \/ FlagsOnly(Resumes(t)))

WaitingSpec == WaitingInit /\ [][WaitingNext]_WaitingVars /\ WaitingFairness
=============================================================================

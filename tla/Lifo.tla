-------------------------------- MODULE Lifo --------------------------------
(***************************************************************************)
(* core/lifo.c: a stack of the integers 0 .. N - 1 in an array of N + 1    *)
(* places: lifo[0] is the top, lifo[i + 1] the integer below i, -1 none.   *)
(***************************************************************************)
EXTENDS Integers, Sequences

CONSTANT N      \* the integers are 0 .. N - 1

VARIABLES
    lifo,       \* the array
    develhelp,  \* whether the build defines DEVELHELP: lifo_get clears places
    got,        \* what lifo_get returned
    stored      \* the stored integers in the order of their insertion

lifoVars == <<lifo, develhelp, got, stored>>

lifo_init == [i \in 0 .. N |-> -1]

(* The integers from the top down. *)
Stack ==
    LET at[i \in 0 .. N] ==
          IF i = 0 THEN lifo[0] ELSE IF at[i - 1] = -1 THEN -1 ELSE lifo[at[i - 1] + 1]
    IN  SelectSeq([i \in 1 .. N + 1 |-> at[i - 1]], LAMBDA n : n # -1)

LifoInit == lifo = lifo_init /\ develhelp \in BOOLEAN /\ got = -1 /\ stored = <<>>

(* The caller inserts an integer that is not stored (lifo.h:58). *)
lifo_insert(i) ==
    /\ \A j \in DOMAIN stored : stored[j] # i
    /\ lifo' = [lifo EXCEPT ![i + 1] = lifo[0], ![0] = i]
    /\ stored' = Append(stored, i)
    /\ UNCHANGED <<develhelp, got>>

(* Mutation: DEVELHELP clears the place before its link is followed.       *)
AfterLifoGet_ClearFirst(head) ==
    LET cleared == IF develhelp THEN [lifo EXCEPT ![head + 1] = -1] ELSE lifo
    IN  IF head # -1 THEN [cleared EXCEPT ![0] = cleared[head + 1]] ELSE cleared

AfterLifoGet(head) ==
    LET popped == IF head # -1 THEN [lifo EXCEPT ![0] = lifo[head + 1]] ELSE lifo
    IN  IF develhelp THEN [popped EXCEPT ![head + 1] = -1] ELSE popped

lifo_get ==
    /\ got' = lifo[0]
    /\ lifo' = AfterLifoGet(lifo[0])
    /\ stored' = SelectSeq(stored, LAMBDA j : j # lifo[0])
    /\ UNCHANGED develhelp

LifoNext == lifo_get \/ \E i \in 0 .. N - 1 : lifo_insert(i)

LifoSpec == LifoInit /\ [][LifoNext]_lifoVars

-----------------------------------------------------------------------------
(* The chain through the array is the stack of what was inserted and not   *)
(* yet got, the last one on top, whatever the unused places hold: lifo_get *)
(* takes the integer inserted last, as the name says and lifo.h's comment  *)
(* on it does not.                                                         *)
ArrayIsStack ==
    /\ Len(Stack) = Len(stored)
    /\ \A i \in DOMAIN stored : Stack[i] = stored[Len(stored) + 1 - i]

(* "Extract the least recently inserted element from the lifo."            *)
(* (lifo_get, lifo.h:64)                                                   *)
GetsLeastRecent == [][lifo_get /\ stored # <<>> => got' = Head(stored)]_lifoVars
=============================================================================

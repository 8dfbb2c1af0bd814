------------------------------- MODULE MCData -------------------------------
(***************************************************************************)
(* The sequential data structures of core/, each under every mixture of    *)
(* its calls.  They share no state: subject says which one is used, the    *)
(* others stay as they were initialised.                                   *)
(*                                                                         *)
(* The list has four nodes in use (two more are only looked for) under any *)
(* mixture of calls, and up to six when it is only filled and sorted: then *)
(* the merge sort makes passes with sublists of 1, 2 and 4 nodes, the last *)
(* one short.                                                              *)
(***************************************************************************)
EXTENDS Ringbuffer, CibFifo, Clist, PriorityQueue, Lifo, Bitarithm, TLC

CONSTANTS n1, n2, n3, n4, n5, n6

VARIABLE subject

MCKey == n1 :> 1 @@ n2 :> 0 @@ n3 :> 1 @@ n4 :> 2 @@ n5 :> 0 @@ n6 :> 1

Subjects == {"ring", "cib", "list", "sort", "queue", "lifo", "word"}

DataInit ==
    /\ subject \in Subjects
    /\ RingInit /\ CibInit /\ ClistInit /\ PqInit /\ LifoInit /\ BitInit
    /\ subject # "ring" => rb.buf = [i \in 0 .. Size - 1 |-> 0]
    /\ subject # "cib" => size = 1
    /\ subject # "lifo" => ~develhelp

RingStep == /\ subject = "ring" /\ RingNext
            /\ UNCHANGED <<subject, cibVars, clistVars, pqVars, lifoVars, word>>
CibStep == /\ subject = "cib" /\ CibNext
           /\ UNCHANGED <<subject, ringVars, clistVars, pqVars, lifoVars, word>>
ListStep == /\ subject = "list" /\ ClistNext /\ ~InList(n5)' /\ ~InList(n6)'
            /\ UNCHANGED <<subject, ringVars, cibVars, pqVars, lifoVars, word>>
SortStep == /\ subject = "sort" /\ (Sort \/ \E n \in Node : Rpush(n))
            /\ UNCHANGED <<subject, ringVars, cibVars, pqVars, lifoVars, word>>
QueueStep == /\ subject = "queue" /\ PqNext
             /\ UNCHANGED <<subject, ringVars, cibVars, clistVars, lifoVars, word>>
LifoStep == /\ subject = "lifo" /\ LifoNext
            /\ UNCHANGED <<subject, ringVars, cibVars, clistVars, pqVars, word>>
WordStep == /\ subject = "word" /\ BitNext
            /\ UNCHANGED <<subject, ringVars, cibVars, clistVars, pqVars, lifoVars>>

DataNext ==
    RingStep \/ CibStep \/ ListStep \/ SortStep \/ QueueStep \/ LifoStep \/ WordStep

dataVars == <<subject, ringVars, cibVars, clistVars, pqVars, lifoVars, word>>

DataSpec == DataInit /\ [][DataNext]_dataVars
=============================================================================

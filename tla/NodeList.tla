------------------------------ MODULE NodeList ------------------------------
(***************************************************************************)
(* What core/include/clist.h promises: a list of nodes with operations at  *)
(* both ends, a search, a removal and a stable sort.                       *)
(***************************************************************************)
EXTENDS Integers, Sequences, FiniteSets

CONSTANTS
    Node,   \* the nodes
    NULL,   \* no node
    Key     \* [Node -> Int]: what the comparison function compares

VARIABLES
    seq,    \* the nodes of the list, first to last
    list_call,   \* the last call and the node it was given
    list_result  \* what the last call returned

vars == <<seq, list_call, list_result>>

Members == {seq[i] : i \in DOMAIN seq}
Position(n) == CHOOSE i \in DOMAIN seq : seq[i] = n
Without(n) == SelectSeq(seq, LAMBDA m : m # n)

(* m comes before n in a stable sort. *)
Before(m, n) == \/ Key[m] < Key[n]
                \/ Key[m] = Key[n] /\ Position(m) < Position(n)
Sorted == [i \in DOMAIN seq |->
              CHOOSE n \in Members : Cardinality({m \in Members : Before(m, n)}) = i - 1]

Init == seq = <<>> /\ list_call = <<>> /\ list_result = NULL

First == IF seq = <<>> THEN NULL ELSE seq[1]
Last == IF seq = <<>> THEN NULL ELSE seq[Len(seq)]

Rpush(n) == n \notin Members /\ seq' = Append(seq, n) /\ UNCHANGED list_result
Lpush(n) == n \notin Members /\ seq' = <<n>> \o seq /\ UNCHANGED list_result

(* Removal of n, the first or the last node or any; NULL: there is none. *)
Take(n) == /\ seq' = Without(n)
           /\ list_result' = IF n \in Members THEN n ELSE NULL

Rotate == /\ seq' = IF seq = <<>> THEN seq ELSE Append(Tail(seq), Head(seq))
          /\ UNCHANGED list_result

Sort == seq' = Sorted /\ UNCHANGED list_result

Return(r) == list_result' = r /\ UNCHANGED seq

(* The node before n, with the last node before the first. *)
Predecessor(n) ==
    IF n \notin Members THEN NULL
    ELSE IF n = seq[1] THEN Last
    ELSE seq[Position(n) - 1]

Next == \/ \E n \in Node : \/ list_call' = <<"rpush", n>> /\ Rpush(n)
                           \/ list_call' = <<"lpush", n>> /\ Lpush(n)
                           \/ list_call' = <<"remove", n>> /\ Take(n)
                           \/ list_call' = <<"find", n>> /\ Return(IF n \in Members THEN n ELSE NULL)
                           \/ list_call' = <<"find_before", n>> /\ Return(Predecessor(n))
        \/ list_call' = <<"lpop">> /\ Take(First)
        \/ list_call' = <<"rpop">> /\ Take(Last)
        \/ list_call' = <<"lpoprpush">> /\ Rotate
        \/ list_call' = <<"sort">> /\ Sort
        \/ list_call' = <<"lpeek">> /\ Return(First)
        \/ list_call' = <<"rpeek">> /\ Return(Last)
        \/ list_call' = <<"count">> /\ Return(Len(seq))

Spec == Init /\ [][Next]_vars
=============================================================================

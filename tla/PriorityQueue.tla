--------------------------- MODULE PriorityQueue ---------------------------
(***************************************************************************)
(* core/priority_queue.c: a singly linked list, kept in the order of the   *)
(* nodes' priorities.  root is the priority_queue_t, which the code casts  *)
(* to a node: its next pointer is the first node.                          *)
(***************************************************************************)
EXTENDS Integers, Sequences, FiniteSets

CONSTANTS
    PqNode,        \* the nodes
    PqNull,        \* the null pointer
    root,        \* the queue
    Priorities   \* the priorities

VARIABLES
    pq_next,    \* the next pointer of every node and of the queue
    priority,   \* the priority of every node
    pq_head,    \* what priority_queue_remove_head returned
    arrived     \* the queued nodes in the order they were added

pqVars == <<pq_next, priority, pq_head, arrived>>

(* The links from the root, root first. *)
Links(nx) ==
    LET at[i \in 0 .. Cardinality(PqNode)] ==
          IF i = 0 THEN root ELSE IF at[i - 1] = PqNull THEN PqNull ELSE nx[at[i - 1]]
    IN  SelectSeq([i \in 1 .. Cardinality(PqNode) + 1 |-> at[i - 1]], LAMBDA n : n # PqNull)

Queue == Tail(Links(pq_next))

Member(n) == \E i \in DOMAIN Queue : Queue[i] = n

(* Mutation: a node goes before those of its own priority.                 *)
InsertAfter_Equal(n) ==
    LET larger == SelectSeq(Links(pq_next), LAMBDA m :
                     IF pq_next[m] = PqNull THEN TRUE ELSE priority[pq_next[m]] >= priority'[n])
    IN  Head(larger)

(* Where the loop of priority_queue_add ends: at the first link whose next *)
(* node has a larger priority, or at the last one.                         *)
InsertAfter(n) ==
    LET larger == SelectSeq(Links(pq_next), LAMBDA m :
                     IF pq_next[m] = PqNull THEN TRUE ELSE priority[pq_next[m]] > priority'[n])
    IN  Head(larger)

PqInit ==
    /\ pq_next = [n \in PqNode \cup {root} |-> PqNull]
    /\ priority = [n \in PqNode |-> 0]
    /\ pq_head = PqNull
    /\ arrived = <<>>

(* The caller sets the priority and adds a node that is not queued (the    *)
(* assertion of priority_queue_add).                                       *)
priority_queue_add(n, p) ==
    /\ ~Member(n)
    /\ priority' = [priority EXCEPT ![n] = p]
    /\ pq_next' = [pq_next EXCEPT ![n] = pq_next[InsertAfter(n)], ![InsertAfter(n)] = n]
    /\ arrived' = Append(arrived, n)
    /\ UNCHANGED pq_head

priority_queue_remove_head ==
    /\ pq_head' = pq_next[root]
    /\ pq_next' = IF pq_next[root] = PqNull THEN pq_next
                  ELSE [pq_next EXCEPT ![root] = pq_next[pq_next[root]]]
    /\ arrived' = SelectSeq(arrived, LAMBDA m : m # pq_next[root])
    /\ UNCHANGED priority

priority_queue_remove(n) ==
    /\ LET before == SelectSeq(Links(pq_next), LAMBDA m : pq_next[m] = n) IN
       pq_next' = IF before = <<>> THEN pq_next
                  ELSE [pq_next EXCEPT ![Head(before)] = pq_next[n], ![n] = PqNull]
    /\ arrived' = SelectSeq(arrived, LAMBDA m : m # n)
    /\ UNCHANGED <<priority, pq_head>>

PqNext ==
    \/ \E n \in PqNode, p \in Priorities : priority_queue_add(n, p)
    \/ priority_queue_remove_head
    \/ \E n \in PqNode : priority_queue_remove(n)

PqSpec == PqInit /\ [][PqNext]_pqVars

-----------------------------------------------------------------------------
(* The queue holds exactly the nodes that were added and not removed, in   *)
(* the order of their priorities and, among equal ones, of their arrival,  *)
(* whatever nodes outside the queue point to.                              *)
PriorityThenArrival ==
    LET Place(s, n) == CHOOSE i \in DOMAIN s : s[i] = n
        First(m, n) == \/ priority[m] < priority[n]
                       \/ priority[m] = priority[n] /\ Place(arrived, m) < Place(arrived, n)
    IN  /\ Len(Queue) = Len(arrived)
        /\ \A i \in DOMAIN arrived : Member(arrived[i])
        /\ \A i, j \in DOMAIN Queue : i < j => First(Queue[i], Queue[j])
=============================================================================

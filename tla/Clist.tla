------------------------------- MODULE Clist -------------------------------
(***************************************************************************)
(* core/include/clist.h and core/clist.c: a circular list in the next      *)
(* pointers of its nodes.  The list itself is a node whose next pointer    *)
(* names the last node; the last node's next names the first.  A node that *)
(* is not in the list keeps whatever its next pointer held.                *)
(***************************************************************************)
EXTENDS Integers, Sequences, FiniteSets

CONSTANTS
    Node,   \* the nodes
    NULL,   \* the null pointer
    list,   \* the list's own node
    Key     \* [Node -> Int]: cmp(a, b) is the sign of Key[a] - Key[b]

VARIABLES
    next,    \* the next pointer of every node and of the list
    list_call,    \* the last call and the node it was given
    list_result   \* what the last call returned

clistVars == <<next, list_call, list_result>>

(* The nodes that the do-while loops of clist_foreach, clist_count and     *)
(* clist_find_before step through: from the first node to the last.        *)
Visited(nx) ==
    IF nx[list] = NULL THEN <<>>
    ELSE LET at[i \in 1 .. Cardinality(Node)] ==
               IF i = 1 THEN nx[nx[list]] ELSE nx[at[i - 1]]
             last == CHOOSE i \in DOMAIN at :
                        at[i] = nx[list] /\ \A j \in 1 .. i - 1 : at[j] # nx[list]
         IN  SubSeq(at, 1, last)

InList(n) == \E i \in DOMAIN Visited(next) : Visited(next)[i] = n

clist_rpush(nx, n) ==
    IF nx[list] # NULL
    THEN [nx EXCEPT ![n] = nx[nx[list]], ![nx[list]] = n, ![list] = n]
    ELSE [nx EXCEPT ![n] = n, ![list] = n]

(* Mutation: the new first node becomes the last one, as in clist_rpush.   *)
clist_lpush_MovesTail(nx, n) ==
    IF nx[list] # NULL
    THEN [nx EXCEPT ![n] = nx[nx[list]], ![nx[list]] = n, ![list] = n]
    ELSE [nx EXCEPT ![n] = n, ![list] = n]

clist_lpush(nx, n) ==
    IF nx[list] # NULL
    THEN [nx EXCEPT ![n] = nx[nx[list]], ![nx[list]] = n]
    ELSE [nx EXCEPT ![n] = n, ![list] = n]

clist_lpeek(nx) == IF nx[list] # NULL THEN nx[nx[list]] ELSE NULL

clist_lpop(nx) ==
    LET first == clist_lpeek(nx) IN
    IF first = NULL THEN nx
    ELSE IF nx[list] = first THEN [nx EXCEPT ![list] = NULL]
    ELSE [nx EXCEPT ![nx[list]] = nx[first]]

clist_lpoprpush(nx) ==
    IF nx[list] # NULL THEN [nx EXCEPT ![list] = nx[nx[list]]] ELSE nx

clist_find_before(nx, n) ==
    LET found == SelectSeq(Visited(nx), LAMBDA pos : nx[pos] = n) IN
    IF found = <<>> THEN NULL ELSE Head(found)

clist_find(nx, n) ==
    LET tmp == clist_find_before(nx, n) IN IF tmp # NULL THEN nx[tmp] ELSE NULL

(* The loop of clist_rpop turns the list until its last node is first.     *)
RECURSIVE TurnedTo(_, _)
TurnedTo(nx, last) ==
    IF nx[nx[list]] = last THEN nx ELSE TurnedTo(clist_lpoprpush(nx), last)

clist_rpop(nx) == IF nx[list] # NULL THEN clist_lpop(TurnedTo(nx, nx[list])) ELSE nx

clist_remove(nx, n) ==
    LET tmp == clist_find_before(nx, n) IN
    IF nx[list] = NULL THEN nx
    ELSE IF clist_lpeek(nx) = n THEN clist_lpop(nx)
    ELSE IF tmp = NULL THEN nx
    ELSE [nx EXCEPT ![tmp] = nx[n], ![list] = IF @ = n THEN tmp ELSE @]

-----------------------------------------------------------------------------
(* _clist_sort: a merge sort in place.  A merge's state m has the pointers *)
(* p and q into the two sublists, the nodes psize and qsize they still     *)
(* have, the sorted list built so far (list, tail) and the next pointers.  *)

(* The node behind n in a list that began at oldhead. *)
After(nx, oldhead, n) == IF nx[n] = oldhead THEN NULL ELSE nx[n]

(* Up to insize steps along from q; psize counts them. *)
RECURSIVE Along(_, _, _, _, _)
Along(nx, oldhead, q, psize, insize) ==
    IF psize = insize \/ q = NULL THEN [q |-> q, psize |-> psize]
    ELSE Along(nx, oldhead, After(nx, oldhead, q), psize + 1, insize)

(* Whether the next node comes from p: cmp(p, q) <= 0. *)
FromP(m) ==
    /\ m.psize > 0
    /\ m.qsize = 0 \/ m.q = NULL \/ Key[m.p] <= Key[m.q]

RECURSIVE Merge(_, _)
Merge(m, oldhead) ==
    IF m.psize = 0 /\ (m.qsize = 0 \/ m.q = NULL) THEN m
    ELSE LET e == IF FromP(m) THEN m.p ELSE m.q
             rest == After(m.next, oldhead, e)
             taken == IF FromP(m) THEN [m EXCEPT !.p = rest, !.psize = @ - 1]
                                  ELSE [m EXCEPT !.q = rest, !.qsize = @ - 1]
         IN  Merge(IF m.tail = NULL THEN [taken EXCEPT !.list = e, !.tail = e]
                   ELSE [taken EXCEPT !.next[m.tail] = e, !.tail = e], oldhead)

(* The merges of one pass over the list. *)
RECURSIVE Pass(_, _, _)
Pass(m, oldhead, insize) ==
    IF m.p = NULL THEN m
    ELSE LET a == Along(m.next, oldhead, m.p, 0, insize)
             merged == Merge([m EXCEPT !.psize = a.psize, !.q = a.q, !.qsize = insize,
                                       !.nmerges = @ + 1], oldhead)
         IN  Pass([merged EXCEPT !.p = merged.q], oldhead, insize)

(* The next pointers and the last node after sorting the list at head. *)
RECURSIVE SortFrom(_, _, _)
SortFrom(nx, head, insize) ==
    LET m == Pass([p |-> head, psize |-> 0, q |-> NULL, qsize |-> 0, list |-> NULL,
                   tail |-> NULL, nmerges |-> 0, next |-> nx], head, insize)
        closed == [m.next EXCEPT ![m.tail] = m.list]
    IN  IF m.nmerges <= 1 THEN [next |-> closed, tail |-> m.tail]
        ELSE SortFrom(closed, m.list, insize * 2)

clist_sort(nx) ==
    IF nx[list] = NULL THEN nx
    ELSE LET sorted == SortFrom(nx, nx[nx[list]], 1)
         IN  [sorted.next EXCEPT ![list] = sorted.tail]

-----------------------------------------------------------------------------
ClistInit ==
    /\ next = [n \in Node \cup {list} |-> NULL]
    /\ list_call = <<>>
    /\ list_result = NULL

(* A call that changes the list, one that also returns a node, and one     *)
(* that only looks.                                                        *)
Change(c, nx) == list_call' = c /\ next' = nx /\ UNCHANGED list_result
Take(c, nx, r) == list_call' = c /\ next' = nx /\ list_result' = r
Look(c, r) == list_call' = c /\ list_result' = r /\ UNCHANGED next

Rpush(n) == ~InList(n) /\ Change(<<"rpush", n>>, clist_rpush(next, n))
Lpush(n) == ~InList(n) /\ Change(<<"lpush", n>>, clist_lpush(next, n))
Lpop == Take(<<"lpop">>, clist_lpop(next), clist_lpeek(next))
Rpop == Take(<<"rpop">>, clist_rpop(next), next[list])
Lpoprpush == Change(<<"lpoprpush">>, clist_lpoprpush(next))
RemoveNode(n) == Take(<<"remove", n>>, clist_remove(next, n), clist_find(next, n))
Sort == Change(<<"sort">>, clist_sort(next))
Lpeek == Look(<<"lpeek">>, clist_lpeek(next))
Rpeek == Look(<<"rpeek">>, next[list])
Find(n) == Look(<<"find", n>>, clist_find(next, n))
FindBefore(n) == Look(<<"find_before", n>>, clist_find_before(next, n))
Count == Look(<<"count">>, Len(Visited(next)))

ClistNext ==
    \/ \E n \in Node : Rpush(n) \/ Lpush(n) \/ RemoveNode(n) \/ Find(n) \/ FindBefore(n)
    \/ Lpop \/ Rpop \/ Lpoprpush \/ Sort \/ Lpeek \/ Rpeek \/ Count

ClistSpec == ClistInit /\ [][ClistNext]_clistVars

-----------------------------------------------------------------------------
List == INSTANCE NodeList WITH seq <- Visited(next)

(* The next pointers are a list: under any mixture of the calls of clist.h *)
(* the nodes a traversal visits, and what every call returns, are those of *)
(* the abstract list, whatever the nodes outside the list point to; the    *)
(* sort is a stable sort.                                                  *)
RefinesList == List!Spec
=============================================================================

------------------------------ MODULE ByteFifo ------------------------------
(***************************************************************************)
(* What core/include/ringbuffer.h promises: a bounded queue of bytes,      *)
(* first in first out.  A single byte that does not fit pushes the oldest  *)
(* one out, a block of bytes is cut to what fits.                          *)
(***************************************************************************)
EXTENDS Integers, Sequences

CONSTANTS
    Capacity,   \* the bytes the queue holds
    Byte,       \* the bytes
    MaxCount    \* the longest block and the largest count of a call

VARIABLES
    queue,      \* the bytes, oldest first
    call,       \* the last call and what it was given
    result      \* what the last call returned: a count, and bytes

vars == <<queue, call, result>>

Smaller(i, j) == IF i < j THEN i ELSE j

Blocks == UNION {[1 .. n -> Byte] : n \in 0 .. MaxCount}

Init == /\ queue = <<>>
        /\ call = <<>>
        /\ result = [count |-> 0, bytes |-> <<>>]

PutOne(c) ==
    /\ call' = <<"add_one", c>>
    /\ IF Len(queue) = Capacity
       THEN /\ queue' = Append(Tail(queue), c)
            /\ result' = [count |-> 1, bytes |-> <<Head(queue)>>]
       ELSE /\ queue' = Append(queue, c)
            /\ result' = [count |-> 0, bytes |-> <<>>]

Put(block) ==
    LET n == Smaller(Len(block), Capacity - Len(queue)) IN
    /\ call' = <<"add", block>>
    /\ queue' = queue \o SubSeq(block, 1, n)
    /\ result' = [count |-> n, bytes |-> <<>>]

Get(count) ==
    LET n == Smaller(count, Len(queue)) IN
    /\ call' = <<"get", count>>
    /\ queue' = SubSeq(queue, n + 1, Len(queue))
    /\ result' = [count |-> n, bytes |-> SubSeq(queue, 1, n)]

Remove(count) ==
    LET n == Smaller(count, Len(queue)) IN
    /\ call' = <<"remove", count>>
    /\ queue' = SubSeq(queue, n + 1, Len(queue))
    /\ result' = [count |-> n, bytes |-> <<>>]

Peek(count) ==
    LET n == Smaller(count, Len(queue)) IN
    /\ call' = <<"peek", count>>
    /\ result' = [count |-> n, bytes |-> SubSeq(queue, 1, n)]
    /\ UNCHANGED queue

Next == \/ \E c \in Byte : PutOne(c)
        \/ \E block \in Blocks : Put(block)
        \/ \E count \in 0 .. MaxCount : Get(count) \/ Remove(count) \/ Peek(count)

Spec == Init /\ [][Next]_vars
=============================================================================

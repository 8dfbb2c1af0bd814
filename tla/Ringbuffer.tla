----------------------------- MODULE Ringbuffer -----------------------------
(***************************************************************************)
(* core/ringbuffer.c: the bytes of a queue in a circular array.  rb.start  *)
(* is the read position, rb.avail the number of stored bytes.  A call runs *)
(* to its end: the module is documented as not thread-safe, its callers    *)
(* serialise it.                                                           *)
(***************************************************************************)
EXTENDS Integers, Sequences

CONSTANTS
    Size,        \* rb->size
    Byte,        \* the bytes
    MaxCount,    \* the longest block and the largest count of a call
    Outside,     \* what memory behind the array holds
    RemoveToEnd  \* whether ringbuffer_remove is called with a count that
                 \* takes rb->start exactly to the end of the array

ASSUME SizeAssumption == Size \in Nat \ {0}
ASSUME CountAssumption == MaxCount \in Nat \ {0}
ASSUME OutsideAssumption == Outside \notin Byte

VARIABLES
    rb,       \* the ringbuffer_t: buf, start, avail
    call,     \* the last call and what it was given
    result    \* what the last call returned: a count, and bytes

ringVars == <<rb, call, result>>

Nothing == [count |-> 0, bytes |-> <<>>]
Blocks == UNION {[1 .. n -> Byte] : n \in 0 .. MaxCount}
Smaller(i, j) == IF i < j THEN i ELSE j

ringbuffer_empty(r) == r.avail = 0
ringbuffer_full(r) == r.avail = Size

(* The array read at an index, and the place of the i-th stored byte.      *)
At(r, i) == IF i < Size THEN r.buf[i] ELSE Outside
Wrap(i) == IF i >= Size THEN i - Size ELSE i
(* How far behind the read position the i-th place of the array is.        *)
Offset(r, i) == IF i < r.start THEN i + Size - r.start ELSE i - r.start

(* Mutation: the write position is not wrapped.                            *)
add_tail_NoWrap(r, c) ==
    [start |-> r.start, avail |-> r.avail + 1,
     buf |-> [i \in 0 .. Size - 1 |-> IF i = r.start + r.avail THEN c ELSE r.buf[i]]]

add_tail(r, c) ==
    LET pos == Wrap(r.start + r.avail) IN
    [start |-> r.start, avail |-> r.avail + 1,
     buf |-> [i \in 0 .. Size - 1 |-> IF i = pos THEN c ELSE r.buf[i]]]

get_head(r) ==
    [start |-> IF r.avail = 1 \/ r.start + 1 = Size THEN 0 ELSE r.start + 1,
     avail |-> r.avail - 1, buf |-> r.buf]

(* The loop of ringbuffer_add, which ends after n bytes: at the end of the *)
(* block or with a full array.                                             *)
ringbuffer_add(r, block, n) ==
    [start |-> r.start, avail |-> r.avail + n,
     buf |-> [i \in 0 .. Size - 1 |->
                 LET o == Offset(r, i) - r.avail IN
                 IF o \in 0 .. n - 1 THEN block[o + 1] ELSE r.buf[i]]]

(* The first n bytes from the read position on, in the one or two pieces   *)
(* the memcpy calls of ringbuffer_get copy.                                *)
Copied(r, n) ==
    LET till_end == Size - r.start IN
    [i \in 1 .. n |-> IF i <= till_end THEN At(r, r.start + i - 1)
                                       ELSE At(r, i - till_end - 1)]

(* rb after ringbuffer_get of n bytes, n already cut to rb->avail.         *)
ringbuffer_get(r, n) ==
    [start |-> IF n = 0 \/ Size - r.start > n THEN r.start + n ELSE n - (Size - r.start),
     avail |-> r.avail - n, buf |-> r.buf]

ringbuffer_remove(r, n) ==
    IF n > r.avail
    THEN [start |-> 0, avail |-> 0, buf |-> r.buf]
    ELSE [start |-> IF r.start + n > Size THEN r.start + n - Size ELSE r.start + n,
          avail |-> r.avail - n, buf |-> r.buf]

-----------------------------------------------------------------------------
RingInit ==
    /\ \E buf \in [0 .. Size - 1 -> Byte] :
          rb = [buf |-> buf, start |-> 0, avail |-> 0]
    /\ call = <<>>
    /\ result = Nothing

AddOne(c) ==
    /\ call' = <<"add_one", c>>
    /\ IF ringbuffer_full(rb)
       THEN /\ rb' = add_tail(get_head(rb), c)
            /\ result' = [count |-> 1, bytes |-> <<At(rb, rb.start)>>]
       ELSE /\ rb' = add_tail(rb, c)
            /\ result' = Nothing

Add(block) ==
    LET n == Smaller(Len(block), Size - rb.avail) IN
    /\ call' = <<"add", block>>
    /\ rb' = ringbuffer_add(rb, block, n)
    /\ result' = [count |-> n, bytes |-> <<>>]

GetOne ==
    /\ call' = <<"get", 1>>
    /\ rb' = IF ringbuffer_empty(rb) THEN rb ELSE get_head(rb)
    /\ result' = IF ringbuffer_empty(rb) THEN Nothing
                 ELSE [count |-> 1, bytes |-> <<At(rb, rb.start)>>]

Get(count) ==
    LET n == Smaller(count, rb.avail) IN
    /\ call' = <<"get", count>>
    /\ rb' = ringbuffer_get(rb, n)
    /\ result' = [count |-> n, bytes |-> Copied(rb, n)]

Remove(count) ==
    /\ RemoveToEnd \/ count > rb.avail \/ rb.start + count # Size
    /\ call' = <<"remove", count>>
    /\ rb' = ringbuffer_remove(rb, count)
    /\ result' = [count |-> Smaller(count, rb.avail), bytes |-> <<>>]

PeekOne ==
    /\ call' = <<"peek", 1>>
    /\ result' = IF ringbuffer_empty(rb) THEN Nothing
                 ELSE [count |-> 1, bytes |-> <<At(rb, rb.start)>>]
    /\ UNCHANGED rb

Peek(count) ==
    LET n == Smaller(count, rb.avail) IN
    /\ call' = <<"peek", count>>
    /\ result' = [count |-> n, bytes |-> Copied(rb, n)]
    /\ UNCHANGED rb

RingNext ==
    \/ \E c \in Byte : AddOne(c)
    \/ \E block \in Blocks : Add(block)
    \/ GetOne
    \/ PeekOne
    \/ \E count \in 0 .. MaxCount : Get(count)
    \/ \E count \in 0 .. MaxCount : Remove(count)
    \/ \E count \in 0 .. MaxCount : Peek(count)

RingSpec == RingInit /\ [][RingNext]_ringVars

-----------------------------------------------------------------------------
(* Every read and write of ringbuffer.c stays in the array: the read       *)
(* position is an index of it and no more bytes are counted than fit.      *)
RingTypeOK ==
    /\ rb \in [buf : [0 .. Size - 1 -> Byte], start : 0 .. Size - 1, avail : 0 .. Size]
    /\ result.count \in Nat
    /\ result.bytes \in Seq(Byte)

Contents(r) == [i \in 1 .. r.avail |-> At(r, Wrap(r.start + i - 1))]

Fifo == INSTANCE ByteFifo WITH Capacity <- Size, queue <- Contents(rb)

(* The circular array is a bounded first in first out queue: under any     *)
(* mixture of the calls of ringbuffer.h, each call returns the bytes and   *)
(* the count the queue of ByteFifo would, and leaves its bytes.            *)
RefinesFifo == Fifo!Spec
=============================================================================

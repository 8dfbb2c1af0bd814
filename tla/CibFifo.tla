------------------------------ MODULE CibFifo ------------------------------
(***************************************************************************)
(* A buffer of Size places indexed by a cib, as msg.c and mbox.c use it,   *)
(* beside the queue it stands for.                                         *)
(***************************************************************************)
EXTENDS Cib, Sequences

CONSTANTS Sizes, Values

VARIABLES size, cib, places,  \* the buffer
          fifo,               \* the queue
          index               \* what the last call returned

cibVars == <<size, cib, places, fifo, index>>

ASSUME CibAssumption ==
  /\ UINT_BITS \in Nat \ {0}
  /\ \A s \in Sizes : s = 0 \/ \E n \in 0 .. UINT_BITS - 2 : s = 2^n

CibInit ==
  /\ size \in Sizes
  /\ cib = cib_init(size)
  /\ places = [i \in 0 .. size - 1 |-> CHOOSE v \in Values : TRUE]
  /\ fifo = <<>>
  /\ index = -1

(* cib_put, then the store into the place it names; -1 when full. *)
put(v) ==
  IF cib_full(cib)
  THEN index' = -1 /\ UNCHANGED <<cib, places, fifo>>
  ELSE /\ index' = PutIndex(cib)
       /\ places' = [places EXCEPT ![PutIndex(cib)] = v]
       /\ cib' = AfterPut(cib)
       /\ fifo' = Append(fifo, v)

(* The load from the place cib_get names; -1 when empty. *)
get ==
  IF cib_avail(cib) = 0
  THEN index' = -1 /\ UNCHANGED <<cib, places, fifo>>
  ELSE /\ index' = GetIndex(cib)
       /\ cib' = AfterGet(cib)
       /\ fifo' = Tail(fifo)
       /\ UNCHANGED places

CibNext == (get \/ \E v \in Values : put(v)) /\ UNCHANGED size

CibSpec == CibInit /\ [][CibNext]_cibVars

-----------------------------------------------------------------------------
(* The buffer holds exactly what the queue holds, in its order, however    *)
(* often the counters have wrapped: nothing is overwritten before it was   *)
(* read (cib_put), nothing is read twice (cib_get).  The whole buffer is   *)
(* used and never more: a put fails exactly when size elements are queued, *)
(* a get exactly when none is, and a buffer of size 0 is always full.      *)
BufferIsFifo ==
  /\ cib_avail(cib) = Len(fifo)
  /\ \A i \in 1 .. Len(fifo) : places[Index(cib.read_count + i - 1, cib)] = fifo[i]
  /\ Len(fifo) <= size
  /\ cib_full(cib) <=> Len(fifo) = size
=============================================================================

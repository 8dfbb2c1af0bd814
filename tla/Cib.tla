-------------------------------- MODULE Cib --------------------------------
(***************************************************************************)
(* The circular integer buffer (core/include/cib.h): two counters that run *)
(* freely and wrap at the width of unsigned int, and a mask that turns one *)
(* into an index.  The size is 0 or a power of two.                        *)
(***************************************************************************)
EXTENDS Integers

CONSTANT UINT_BITS            \* the width of unsigned int

UINT == 0 .. 2^UINT_BITS - 1

(* (int) of an unsigned int. *)
Signed(u) == IF u >= 2^(UINT_BITS - 1) THEN u - 2^UINT_BITS ELSE u

cib_init(size) ==
  [read_count |-> 0, write_count |-> 0, mask |-> (size - 1) % 2^UINT_BITS]

(* Mutation: the counters are subtracted without wrapping. *)
cib_avail_NoWrap(cib) ==
  IF cib.write_count >= cib.read_count THEN cib.write_count - cib.read_count ELSE 0

cib_avail(cib) == (cib.write_count - cib.read_count) % 2^UINT_BITS

(* Signed, "because the mask is -1u for an empty CIB". *)
cib_full(cib) == Signed(cib_avail(cib)) > Signed(cib.mask)

(* count & mask, for a mask of ones; 2^UINT_BITS - 1 is the mask of size 0. *)
Index(count, cib) == count % (cib.mask + 1)

(* The index cib_get and cib_put return, and the buffer after them. *)
GetIndex(cib) == Index(cib.read_count, cib)

PutIndex(cib) == Index(cib.write_count, cib)

AfterGet(cib) == [cib EXCEPT !.read_count = (@ + 1) % 2^UINT_BITS]

AfterPut(cib) == [cib EXCEPT !.write_count = (@ + 1) % 2^UINT_BITS]
=============================================================================

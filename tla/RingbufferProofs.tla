-------------------------- MODULE RingbufferProofs --------------------------
(***************************************************************************)
(* The ring buffer is a first in first out queue for every array size,     *)
(* every set of bytes and every longest block, as long as                  *)
(* ringbuffer_remove does not stop exactly at the end of the array.        *)
(***************************************************************************)
EXTENDS Ringbuffer, TLAPS

(* A record of the type of rb whose indices are in range.                  *)
Ring == [buf : [0 .. Size - 1 -> Byte], start : 0 .. Size - 1, avail : 0 .. Size]

(* Two sequences are equal when they agree on their length and elements.   *)
LEMMA SequencesEqual ==
    ASSUME NEW S, NEW s \in Seq(S), NEW t \in Seq(S), Len(s) = Len(t),
           \A i \in 1 .. Len(s) : s[i] = t[i]
    PROVE  s = t
OBVIOUS

(* The elements of a concatenation.                                        *)
LEMMA Concatenated ==
    ASSUME NEW S, NEW s \in Seq(S), NEW t \in Seq(S)
    PROVE  /\ s \o t \in Seq(S)
           /\ Len(s \o t) = Len(s) + Len(t)
           /\ \A i \in 1 .. Len(s) + Len(t) :
                 (s \o t)[i] = IF i <= Len(s) THEN s[i] ELSE t[i - Len(s)]
OBVIOUS

(* The stored bytes are read at start and the places after it, around the  *)
(* end of the array.                                                       *)
LEMMA ContentsOfRing ==
    ASSUME NEW r \in Ring
    PROVE  /\ Contents(r) \in Seq(Byte)
           /\ Len(Contents(r)) = r.avail
           /\ \A i \in 1 .. r.avail :
                 /\ Wrap(r.start + i - 1) \in 0 .. Size - 1
                 /\ Contents(r)[i] = r.buf[Wrap(r.start + i - 1)]
<1>1. r.start \in 0 .. Size - 1 /\ r.avail \in 0 .. Size /\ r.buf \in [0 .. Size - 1 -> Byte]
  BY DEF Ring
<1>2. \A i \in 1 .. r.avail : Wrap(r.start + i - 1) \in 0 .. Size - 1
  BY <1>1, SizeAssumption DEF Wrap
<1>3. \A i \in 1 .. r.avail : At(r, Wrap(r.start + i - 1)) = r.buf[Wrap(r.start + i - 1)]
  BY <1>1, <1>2, SizeAssumption DEF At
<1>4. \A i \in 1 .. r.avail : At(r, Wrap(r.start + i - 1)) \in Byte
  BY <1>1, <1>2, <1>3
<1>5. Contents(r) \in [1 .. r.avail -> Byte]
  BY <1>4 DEF Contents
<1>6. \A i \in 1 .. r.avail : Contents(r)[i] = r.buf[Wrap(r.start + i - 1)]
  BY <1>3 DEF Contents
<1>7. Contents(r) \in Seq(Byte) /\ Len(Contents(r)) = r.avail
  BY <1>1, <1>5
<1> QED BY <1>2, <1>6, <1>7

(* get_head on a buffer that is not empty takes the oldest byte off.       *)
LEMMA HeadTaken ==
    ASSUME NEW r \in Ring, r.avail # 0
    PROVE  /\ get_head(r) \in Ring
           /\ Contents(r) # <<>>
           /\ At(r, r.start) = Head(Contents(r))
           /\ At(r, r.start) \in Byte
           /\ Contents(get_head(r)) = Tail(Contents(r))
<1> DEFINE g == get_head(r)
<1>1. r.start \in 0 .. Size - 1 /\ r.avail \in 1 .. Size /\ r.buf \in [0 .. Size - 1 -> Byte]
  BY SizeAssumption DEF Ring
<1>2. /\ g.buf = r.buf
      /\ g.avail = r.avail - 1
      /\ g.start = IF r.avail = 1 \/ r.start + 1 = Size THEN 0 ELSE r.start + 1
      /\ g = [buf |-> g.buf, start |-> g.start, avail |-> g.avail]
  BY DEF get_head, Ring
<1>3. g \in Ring
  BY <1>1, <1>2, SizeAssumption DEF Ring
<1> HIDE DEF g
<1>4. /\ Contents(r) \in Seq(Byte) /\ Len(Contents(r)) = r.avail
      /\ Contents(g) \in Seq(Byte) /\ Len(Contents(g)) = r.avail - 1
  BY <1>2, <1>3, ContentsOfRing
<1>5. Contents(r) # <<>> /\ Len(Tail(Contents(r))) = r.avail - 1 /\ Tail(Contents(r)) \in Seq(Byte)
  BY <1>1, <1>4
<1>6. At(r, r.start) = Head(Contents(r)) /\ At(r, r.start) \in Byte
  <2>1. Contents(r)[1] = r.buf[Wrap(r.start + 1 - 1)]
    BY <1>1, ContentsOfRing
  <2>2. Wrap(r.start + 1 - 1) = r.start
    BY <1>1, SizeAssumption DEF Wrap
  <2>3. At(r, r.start) = r.buf[r.start]
    BY <1>1, SizeAssumption DEF At
  <2> QED BY <1>1, <1>4, <2>1, <2>2, <2>3
<1>7. ASSUME NEW i \in 1 .. r.avail - 1
      PROVE  Contents(g)[i] = Tail(Contents(r))[i]
  <2>1. Tail(Contents(r))[i] = Contents(r)[i + 1]
    BY <1>1, <1>4
  <2>2. Contents(r)[i + 1] = r.buf[Wrap(r.start + (i + 1) - 1)]
    BY <1>1, ContentsOfRing
  <2>3. Contents(g)[i] = r.buf[Wrap(g.start + i - 1)]
    BY <1>1, <1>2, <1>3, ContentsOfRing
  <2>4. Wrap(r.start + (i + 1) - 1) = Wrap(g.start + i - 1)
    BY <1>1, <1>2, SizeAssumption DEF Wrap
  <2> QED BY <2>1, <2>2, <2>3, <2>4
<1>8. Contents(g) = Tail(Contents(r))
  BY <1>1, <1>4, <1>5, <1>7, SequencesEqual
<1> QED BY <1>3, <1>5, <1>6, <1>8 DEF g

(* add_tail on a buffer that is not full appends a byte.                   *)
LEMMA TailAdded ==
    ASSUME NEW r \in Ring, r.avail # Size, NEW c \in Byte
    PROVE  /\ add_tail(r, c) \in Ring
           /\ Contents(add_tail(r, c)) = Append(Contents(r), c)
<1> DEFINE a == add_tail(r, c)
           pos == Wrap(r.start + r.avail)
<1>1. r.start \in 0 .. Size - 1 /\ r.avail \in 0 .. Size - 1 /\ r.buf \in [0 .. Size - 1 -> Byte]
  BY SizeAssumption DEF Ring
<1>2. /\ a.buf = [i \in 0 .. Size - 1 |-> IF i = pos THEN c ELSE r.buf[i]]
      /\ a.avail = r.avail + 1
      /\ a.start = r.start
      /\ a = [buf |-> a.buf, start |-> a.start, avail |-> a.avail]
  BY DEF add_tail, Ring
<1>3. a \in Ring
  <2>1. a.buf \in [0 .. Size - 1 -> Byte]
    BY <1>1, <1>2
  <2> QED BY <1>1, <1>2, <2>1, SizeAssumption DEF Ring
<1>4. pos \in 0 .. Size - 1
  BY <1>1, SizeAssumption DEF Wrap
<1> HIDE DEF a
<1>5. /\ Contents(r) \in Seq(Byte) /\ Len(Contents(r)) = r.avail
      /\ Contents(a) \in Seq(Byte) /\ Len(Contents(a)) = r.avail + 1
  BY <1>2, <1>3, ContentsOfRing
<1>6. ASSUME NEW i \in 1 .. r.avail + 1
      PROVE  Contents(a)[i] = Append(Contents(r), c)[i]
  <2>1. Wrap(r.start + i - 1) \in 0 .. Size - 1 /\ Contents(a)[i] = a.buf[Wrap(r.start + i - 1)]
    BY <1>1, <1>2, <1>3, ContentsOfRing
  <2>2. CASE i = r.avail + 1
    <3>1. Wrap(r.start + i - 1) = pos
      BY <1>1, <2>2 DEF Wrap
    <3>2. Append(Contents(r), c)[i] = c
      BY <1>5, <2>2
    <3> QED BY <1>2, <1>4, <2>1, <3>1, <3>2
  <2>3. CASE i # r.avail + 1
    <3>1. Wrap(r.start + i - 1) # pos
      BY <1>1, <2>3, SizeAssumption DEF Wrap
    <3>2. Append(Contents(r), c)[i] = Contents(r)[i]
      BY <1>1, <1>5, <2>3
    <3>3. Contents(r)[i] = r.buf[Wrap(r.start + i - 1)]
      BY <1>1, <2>3, ContentsOfRing
    <3> QED BY <1>2, <2>1, <3>1, <3>2, <3>3
  <2> QED BY <2>2, <2>3
<1>7. Append(Contents(r), c) \in Seq(Byte) /\ Len(Append(Contents(r), c)) = r.avail + 1
  BY <1>5
<1>8. Contents(a) = Append(Contents(r), c)
  BY <1>1, <1>5, <1>6, <1>7, SequencesEqual
<1> QED BY <1>3, <1>8 DEF a

(* Moving the read position over n bytes drops the n oldest ones.          *)
LEMMA OldestDropped ==
    ASSUME NEW r \in Ring, NEW g \in Ring, NEW n \in 0 .. r.avail,
           g.buf = r.buf, g.avail = r.avail - n,
           n < r.avail => g.start = Wrap(r.start + n)
    PROVE  Contents(g) = SubSeq(Contents(r), n + 1, Len(Contents(r)))
<1>1. r.start \in 0 .. Size - 1 /\ r.avail \in 0 .. Size
  BY DEF Ring
<1>2. /\ Contents(r) \in Seq(Byte) /\ Len(Contents(r)) = r.avail
      /\ Contents(g) \in Seq(Byte) /\ Len(Contents(g)) = r.avail - n
  BY ContentsOfRing
<1> DEFINE s == SubSeq(Contents(r), n + 1, r.avail)
<1>3. s \in Seq(Byte) /\ Len(s) = r.avail - n
  BY <1>1, <1>2
<1>4. ASSUME NEW i \in 1 .. r.avail - n
      PROVE  Contents(g)[i] = s[i]
  <2>1. s[i] = Contents(r)[n + i]
    BY <1>1, <1>2
  <2>0. n + i \in 1 .. r.avail
    BY <1>1
  <2>2. Contents(r)[n + i] = r.buf[Wrap(r.start + (n + i) - 1)]
    BY <2>0, ContentsOfRing
  <2>3. Contents(g)[i] = r.buf[Wrap(g.start + i - 1)]
    BY <1>1, ContentsOfRing
  <2>4. Wrap(r.start + (n + i) - 1) = Wrap(g.start + i - 1)
    BY <1>1, SizeAssumption DEF Wrap
  <2> QED BY <2>1, <2>2, <2>3, <2>4
<1> HIDE DEF s
<1>5. Contents(g) = s
  BY <1>1, <1>2, <1>3, <1>4, SequencesEqual
<1> QED BY <1>2, <1>5 DEF s

(* ringbuffer_get copies the n oldest bytes and drops them.                *)
LEMMA BytesTaken ==
    ASSUME NEW r \in Ring, NEW n \in 0 .. r.avail
    PROVE  /\ ringbuffer_get(r, n) \in Ring
           /\ Contents(ringbuffer_get(r, n)) = SubSeq(Contents(r), n + 1, Len(Contents(r)))
           /\ Copied(r, n) = SubSeq(Contents(r), 1, n)
<1> DEFINE g == ringbuffer_get(r, n)
           s == SubSeq(Contents(r), 1, n)
<1>1. r.start \in 0 .. Size - 1 /\ r.avail \in 0 .. Size /\ r.buf \in [0 .. Size - 1 -> Byte]
  BY DEF Ring
<1>2. /\ g.buf = r.buf
      /\ g.avail = r.avail - n
      /\ g.start = IF n = 0 \/ Size - r.start > n THEN r.start + n ELSE n - (Size - r.start)
      /\ g = [start |-> g.start, avail |-> g.avail, buf |-> g.buf]
  BY DEF ringbuffer_get
<1> HIDE DEF g
<1>3. g.start \in 0 .. Size - 1 /\ g.avail \in 0 .. Size
  BY <1>1, <1>2, SizeAssumption
<1>4. g \in Ring
  BY <1>1, <1>2, <1>3 DEF Ring
<1>5. g.start = Wrap(r.start + n)
  BY <1>1, <1>2, SizeAssumption DEF Wrap
<1>6. Contents(g) = SubSeq(Contents(r), n + 1, Len(Contents(r)))
  BY <1>2, <1>4, <1>5, OldestDropped
<1>7. Contents(r) \in Seq(Byte) /\ Len(Contents(r)) = r.avail
  BY ContentsOfRing
<1>8. s \in Seq(Byte) /\ Len(s) = n
  BY <1>1, <1>7
<1>9. ASSUME NEW i \in 1 .. n
      PROVE  Copied(r, n)[i] = s[i] /\ Copied(r, n)[i] \in Byte
  <2>1. s[i] = Contents(r)[i]
    BY <1>1, <1>7
  <2>0. i \in 1 .. r.avail
    BY <1>1
  <2>2. Wrap(r.start + i - 1) \in 0 .. Size - 1 /\ Contents(r)[i] = r.buf[Wrap(r.start + i - 1)]
    BY <2>0, ContentsOfRing
  <2>3. Copied(r, n)[i] = IF i <= Size - r.start THEN At(r, r.start + i - 1)
                                                 ELSE At(r, i - (Size - r.start) - 1)
    BY DEF Copied
  <2>4. Copied(r, n)[i] = At(r, Wrap(r.start + i - 1))
    <3>1. CASE i <= Size - r.start
      <4>1. Wrap(r.start + i - 1) = r.start + i - 1
        BY <1>1, <3>1, SizeAssumption DEF Wrap
      <4> QED BY <2>3, <3>1, <4>1
    <3>2. CASE ~(i <= Size - r.start)
      <4>1. Wrap(r.start + i - 1) = i - (Size - r.start) - 1
        BY <1>1, <3>2, SizeAssumption DEF Wrap
      <4> QED BY <2>3, <3>2, <4>1
    <3> QED BY <3>1, <3>2
  <2>5. At(r, Wrap(r.start + i - 1)) = r.buf[Wrap(r.start + i - 1)]
    BY <2>2, SizeAssumption DEF At
  <2> QED BY <1>1, <2>1, <2>2, <2>4, <2>5
<1>10. Copied(r, n) \in Seq(Byte) /\ Len(Copied(r, n)) = n
  <2>1. Copied(r, n) = [i \in 1 .. n |-> Copied(r, n)[i]]
    BY DEF Copied
  <2>2. Copied(r, n) \in [1 .. n -> Byte]
    BY <1>9, <2>1
  <2> QED BY <1>1, <2>2
<1> HIDE DEF s
<1>11. Copied(r, n) = s
  BY <1>8, <1>9, <1>10, SequencesEqual
<1> QED BY <1>4, <1>6, <1>11 DEF g, s

(* ringbuffer_add appends the first n bytes of the block.                  *)
LEMMA BlockAdded ==
    ASSUME NEW r \in Ring, NEW block \in Seq(Byte),
           NEW n \in 0 .. Len(block), n <= Size - r.avail
    PROVE  /\ ringbuffer_add(r, block, n) \in Ring
           /\ Contents(ringbuffer_add(r, block, n)) = Contents(r) \o SubSeq(block, 1, n)
<1> DEFINE a == ringbuffer_add(r, block, n)
           o(i) == Offset(r, i) - r.avail
           s == SubSeq(block, 1, n)
           t == Contents(r) \o s
<1>1. r.start \in 0 .. Size - 1 /\ r.avail \in 0 .. Size /\ r.buf \in [0 .. Size - 1 -> Byte]
  BY DEF Ring
<1>2. /\ a.buf = [i \in 0 .. Size - 1 |-> IF o(i) \in 0 .. n - 1 THEN block[o(i) + 1] ELSE r.buf[i]]
      /\ a.avail = r.avail + n
      /\ a.start = r.start
      /\ a = [start |-> a.start, avail |-> a.avail, buf |-> a.buf]
  BY DEF ringbuffer_add
<1> HIDE DEF a
<1>3. \A i \in 0 .. Size - 1 : o(i) \in Int
  BY <1>1, SizeAssumption DEF Offset
<1>4. a \in Ring
  <2>1. ASSUME NEW i \in 0 .. Size - 1, o(i) \in 0 .. n - 1 PROVE block[o(i) + 1] \in Byte
    BY <1>3, <2>1
  <2>2. a.buf \in [0 .. Size - 1 -> Byte]
    BY <1>1, <1>2, <2>1
  <2>3. a.avail \in 0 .. Size /\ a.start \in 0 .. Size - 1
    BY <1>1, <1>2, SizeAssumption
  <2> QED BY <1>2, <2>2, <2>3 DEF Ring
<1>5. /\ Contents(r) \in Seq(Byte) /\ Len(Contents(r)) = r.avail
      /\ Contents(a) \in Seq(Byte) /\ Len(Contents(a)) = r.avail + n
  BY <1>2, <1>4, ContentsOfRing
<1>6. s \in Seq(Byte) /\ Len(s) = n /\ \A i \in 1 .. n : s[i] = block[i]
  OBVIOUS
<1> HIDE DEF s
<1>7. /\ t \in Seq(Byte) /\ Len(t) = r.avail + n
      /\ \A i \in 1 .. r.avail + n : t[i] = IF i <= r.avail THEN Contents(r)[i] ELSE s[i - r.avail]
  <2>1. /\ t \in Seq(Byte)
        /\ Len(t) = Len(Contents(r)) + Len(s)
        /\ \A i \in 1 .. Len(Contents(r)) + Len(s) :
              t[i] = IF i <= Len(Contents(r)) THEN Contents(r)[i] ELSE s[i - Len(Contents(r))]
    BY <1>5, <1>6, Concatenated, Zenon
  <2> QED BY <1>5, <1>6, <2>1, Zenon
<1> HIDE DEF t
<1>8. ASSUME NEW i \in 1 .. r.avail + n
      PROVE  Contents(a)[i] = t[i]
  <2> DEFINE w == Wrap(r.start + i - 1)
  <2>1. w \in 0 .. Size - 1 /\ Contents(a)[i] = a.buf[w]
    BY <1>1, <1>2, <1>4, ContentsOfRing
  <2>2. o(w) = i - 1 - r.avail
    BY <1>1, SizeAssumption DEF Wrap, Offset
  <2>3. Contents(a)[i] = IF o(w) \in 0 .. n - 1 THEN block[o(w) + 1] ELSE r.buf[w]
    BY <1>2, <2>1
  <2>4. CASE i <= r.avail
    <3>1. t[i] = Contents(r)[i]
      BY <1>7, <2>4
    <3>2. Contents(r)[i] = r.buf[w]
      BY <1>1, <2>4, ContentsOfRing
    <3>3. o(w) \notin 0 .. n - 1
      BY <1>1, <2>2, <2>4
    <3> HIDE DEF o, w
    <3> QED BY <2>3, <3>1, <3>2, <3>3
  <2>5. CASE ~(i <= r.avail)
    <3>1. t[i] = s[i - r.avail]
      BY <1>7, <2>5
    <3>2. o(w) \in 0 .. n - 1 /\ o(w) + 1 = i - r.avail
      BY <1>1, <2>2, <2>5
    <3>3. s[i - r.avail] = block[i - r.avail]
      BY <1>1, <1>6, <2>5
    <3> HIDE DEF o, w
    <3> QED BY <2>3, <3>1, <3>2, <3>3
  <2> QED BY <2>4, <2>5
<1>9. Contents(a) = t
  BY <1>1, <1>5, <1>7, <1>8, SequencesEqual
<1> QED BY <1>4, <1>9 DEF a, s, t

-----------------------------------------------------------------------------
(* What ringbuffer_get_one and ringbuffer_peek_one return is what a read   *)
(* of one byte returns.                                                    *)
LEMMA OneByte ==
    ASSUME NEW q \in Seq(Byte)
    PROVE  /\ q = <<>> => /\ Smaller(1, Len(q)) = 0
                          /\ SubSeq(q, 1, 0) = <<>>
                          /\ SubSeq(q, 1, Len(q)) = q
           /\ q # <<>> => /\ Smaller(1, Len(q)) = 1
                          /\ SubSeq(q, 1, 1) = <<Head(q)>>
                          /\ SubSeq(q, 2, Len(q)) = Tail(q)
<1>1. CASE q = <<>>
  BY <1>1 DEF Smaller
<1>2. CASE q # <<>>
  <2>1. Len(q) \in Nat /\ Len(q) >= 1
    BY <1>2
  <2>2. Smaller(1, Len(q)) = 1
    BY <2>1 DEF Smaller
  <2>3. SubSeq(q, 1, 1) = <<Head(q)>>
    <3>1. SubSeq(q, 1, 1) \in Seq(Byte) /\ Len(SubSeq(q, 1, 1)) = 1 /\ SubSeq(q, 1, 1)[1] = q[1]
      BY <2>1
    <3>2. <<Head(q)>> \in Seq(Byte) /\ Len(<<Head(q)>>) = 1 /\ <<Head(q)>>[1] = q[1]
      BY <2>1
    <3>3. \A i \in 1 .. 1 : SubSeq(q, 1, 1)[i] = <<Head(q)>>[i]
      <4>1. \A i \in 1 .. 1 : i = 1
        OBVIOUS
      <4> QED BY <3>1, <3>2, <4>1, Zenon
    <3> DEFINE s == SubSeq(q, 1, 1)
               t == <<Head(q)>>
    <3>4. s \in Seq(Byte) /\ t \in Seq(Byte) /\ Len(s) = Len(t) /\ \A i \in 1 .. Len(s) : s[i] = t[i]
      BY <3>1, <3>2, <3>3, Zenon
    <3> HIDE DEF s, t
    <3>5. s = t
      BY <3>4, SequencesEqual
    <3> QED BY <3>5 DEF s, t
  <2>4. SubSeq(q, 2, Len(q)) = Tail(q)
    BY <2>1
  <2> QED BY <1>2, <2>2, <2>3, <2>4
<1> QED BY <1>1, <1>2

(* Every call keeps the indices in range and acts as the queue does.       *)
LEMMA EveryCall ==
    ASSUME ~RemoveToEnd, RingTypeOK, RingNext
    PROVE  RingTypeOK' /\ Fifo!Next
<1> DEFINE q == Contents(rb)
<1>1. /\ rb \in Ring /\ rb.avail \in 0 .. Size /\ rb.start \in 0 .. Size - 1
      /\ q \in Seq(Byte) /\ Len(q) = rb.avail /\ (q = <<>> <=> rb.avail = 0)
  <2>1. rb \in Ring
    BY DEF RingTypeOK, Ring
  <2>2. q \in Seq(Byte) /\ Len(q) = rb.avail
    BY <2>1, ContentsOfRing
  <2> QED BY <2>1, <2>2 DEF Ring
<1> HIDE DEF q
<1>2. ASSUME rb' \in Ring, result'.count \in Nat, result'.bytes \in Seq(Byte)
      PROVE  RingTypeOK'
  BY <1>2 DEF RingTypeOK, Ring
<1>3. ASSUME NEW c \in Byte, AddOne(c)
      PROVE  RingTypeOK' /\ Fifo!PutOne(c)
  <2>0. call' = <<"add_one", c>>
    BY <1>3 DEF AddOne
  <2>1. CASE ringbuffer_full(rb)
    <3>1. rb.avail = Size /\ rb.avail # 0
      BY <2>1, SizeAssumption DEF ringbuffer_full
    <3>2. /\ get_head(rb) \in Ring
          /\ At(rb, rb.start) = Head(q)
          /\ At(rb, rb.start) \in Byte
          /\ Contents(get_head(rb)) = Tail(q)
      BY <1>1, <3>1, HeadTaken DEF q
    <3>3. get_head(rb).avail # Size
      BY <1>1, <3>1 DEF get_head
    <3>4. rb' = add_tail(get_head(rb), c) /\ result' = [count |-> 1, bytes |-> <<At(rb, rb.start)>>]
      BY <1>3, <2>1 DEF AddOne
    <3>5. rb' \in Ring /\ Contents(rb') = Append(Tail(q), c)
      BY <3>2, <3>3, <3>4, TailAdded
    <3>6. result'.count \in Nat /\ result'.bytes \in Seq(Byte)
      BY <3>2, <3>4
    <3> QED BY <2>0, <1>1, <1>2, <3>1, <3>2, <3>4, <3>5, <3>6 DEF Fifo!PutOne, q
  <2>2. CASE ~ringbuffer_full(rb)
    <3>1. rb.avail # Size
      BY <2>2 DEF ringbuffer_full
    <3>2. rb' = add_tail(rb, c) /\ result' = [count |-> 0, bytes |-> <<>>]
      BY <1>3, <2>2 DEF AddOne, Nothing
    <3>3. rb' \in Ring /\ Contents(rb') = Append(q, c)
      BY <1>1, <3>1, <3>2, TailAdded DEF q
    <3>4. result'.count \in Nat /\ result'.bytes \in Seq(Byte)
      BY <3>2
    <3> QED BY <2>0, <1>1, <1>2, <3>1, <3>2, <3>3, <3>4 DEF Fifo!PutOne, q
  <2> QED BY <2>1, <2>2
<1>4. ASSUME NEW block \in Blocks, Add(block)
      PROVE  RingTypeOK' /\ Fifo!Put(block)
  <2>0. call' = <<"add", block>>
    BY <1>4 DEF Add
  <2> DEFINE n == Smaller(Len(block), Size - rb.avail)
  <2>1. block \in Seq(Byte)
    BY DEF Blocks
  <2>2. n \in 0 .. Len(block) /\ n <= Size - rb.avail /\ n \in Nat
    BY <1>1, <2>1, SizeAssumption DEF Smaller
  <2>3. n = Fifo!Smaller(Len(block), Size - Len(q))
    BY <1>1 DEF Smaller, Fifo!Smaller
  <2>4. rb' = ringbuffer_add(rb, block, n) /\ result' = [count |-> n, bytes |-> <<>>]
    BY <1>4 DEF Add
  <2> HIDE DEF n
  <2>5. rb' \in Ring /\ Contents(rb') = q \o SubSeq(block, 1, n)
    BY <1>1, <2>1, <2>2, <2>4, BlockAdded DEF q
  <2>6. result'.count \in Nat /\ result'.bytes \in Seq(Byte)
    BY <2>2, <2>4
  <2> QED BY <2>0, <1>2, <2>3, <2>4, <2>5, <2>6 DEF Fifo!Put, q
<1>5. ASSUME NEW count \in 0 .. MaxCount
      PROVE  /\ Smaller(count, rb.avail) \in 0 .. rb.avail
             /\ Smaller(count, rb.avail) \in Nat
             /\ Smaller(count, rb.avail) = Fifo!Smaller(count, Len(q))
  BY <1>1, CountAssumption DEF Smaller, Fifo!Smaller
<1>6. ASSUME NEW count \in 0 .. MaxCount, Get(count)
      PROVE  RingTypeOK' /\ Fifo!Get(count)
  <2>0. call' = <<"get", count>>
    BY <1>6 DEF Get
  <2> DEFINE n == Smaller(count, rb.avail)
  <2>1. rb' = ringbuffer_get(rb, n) /\ result' = [count |-> n, bytes |-> Copied(rb, n)]
    BY <1>6 DEF Get
  <2>2. n \in 0 .. rb.avail /\ n \in Nat /\ n = Fifo!Smaller(count, Len(q))
    BY <1>5
  <2> HIDE DEF n
  <2>3. /\ rb' \in Ring
        /\ Contents(rb') = SubSeq(q, n + 1, Len(q))
        /\ Copied(rb, n) = SubSeq(q, 1, n)
    BY <1>1, <2>1, <2>2, BytesTaken DEF q
  <2>4. SubSeq(q, 1, n) \in Seq(Byte)
    BY <1>1, <2>2
  <2>5. result'.count \in Nat /\ result'.bytes \in Seq(Byte)
    BY <2>1, <2>2, <2>3, <2>4
  <2> QED BY <2>0, <1>2, <2>1, <2>2, <2>3, <2>5 DEF Fifo!Get, q
<1>7. ASSUME NEW count \in 0 .. MaxCount, Peek(count)
      PROVE  RingTypeOK' /\ Fifo!Peek(count)
  <2>0. call' = <<"peek", count>>
    BY <1>7 DEF Peek
  <2> DEFINE n == Smaller(count, rb.avail)
  <2>1. rb' = rb /\ result' = [count |-> n, bytes |-> Copied(rb, n)]
    BY <1>7 DEF Peek
  <2>2. n \in 0 .. rb.avail /\ n \in Nat /\ n = Fifo!Smaller(count, Len(q))
    BY <1>5
  <2> HIDE DEF n
  <2>3. Copied(rb, n) = SubSeq(q, 1, n)
    BY <1>1, <2>1, <2>2, BytesTaken DEF q
  <2>4. SubSeq(q, 1, n) \in Seq(Byte)
    BY <1>1, <2>2
  <2>5. result'.count \in Nat /\ result'.bytes \in Seq(Byte)
    BY <2>1, <2>2, <2>3, <2>4
  <2> QED BY <2>0, <1>1, <1>2, <2>1, <2>2, <2>3, <2>5 DEF Fifo!Peek, q
<1>8. ASSUME NEW count \in 0 .. MaxCount, Remove(count)
      PROVE  RingTypeOK' /\ Fifo!Remove(count)
  <2>0. call' = <<"remove", count>>
    BY <1>8 DEF Remove
  <2> DEFINE n == Smaller(count, rb.avail)
  <2>1. rb' = ringbuffer_remove(rb, count) /\ result' = [count |-> n, bytes |-> <<>>]
    BY <1>8 DEF Remove
  <2>2. n \in 0 .. rb.avail /\ n \in Nat /\ n = Fifo!Smaller(count, Len(q))
    BY <1>5
  <2>3. rb.buf \in [0 .. Size - 1 -> Byte]
    BY <1>1 DEF Ring
  <2>4. CASE count > rb.avail
    <3>1. rb' = [start |-> 0, avail |-> 0, buf |-> rb.buf]
      BY <2>1, <2>4 DEF ringbuffer_remove
    <3>2. n = rb.avail
      BY <1>1, <2>4 DEF Smaller
    <3> HIDE DEF n
    <3>3. rb' \in Ring
      BY <2>3, <3>1, SizeAssumption DEF Ring
    <3>4. Contents(rb') = SubSeq(q, n + 1, Len(q))
      <4>1. rb'.buf = rb.buf /\ rb'.avail = rb.avail - n /\ ~(n < rb.avail)
        BY <1>1, <3>1, <3>2
      <4> QED BY <1>1, <2>2, <3>3, <4>1, OldestDropped DEF q
    <3>5. result'.count \in Nat /\ result'.bytes \in Seq(Byte)
      BY <2>1, <2>2
    <3> QED BY <2>0, <1>2, <2>1, <2>2, <3>3, <3>4, <3>5 DEF Fifo!Remove, q
  <2>5. CASE ~(count > rb.avail)
    <3>1. rb' = [start |-> IF rb.start + count > Size THEN rb.start + count - Size ELSE rb.start + count,
                 avail |-> rb.avail - count, buf |-> rb.buf]
      BY <2>1, <2>5 DEF ringbuffer_remove
    <3>2. n = count
      BY <1>1, <2>5 DEF Smaller
    <3> HIDE DEF n
    <3>3. rb.start + count # Size
      BY <1>8, <2>5 DEF Remove
    <3>4. rb'.start = Wrap(rb.start + n) /\ rb'.start \in 0 .. Size - 1
      BY <1>1, <2>2, <3>1, <3>2, <3>3, SizeAssumption DEF Wrap
    <3>5. rb'.avail = rb.avail - n /\ rb'.avail \in 0 .. Size /\ rb'.buf = rb.buf
      <4>1. rb'.avail = rb.avail - n /\ rb'.buf = rb.buf
        BY <3>1, <3>2
      <4>2. rb.avail - n \in 0 .. Size
        BY <1>1, <2>2, SizeAssumption
      <4> QED BY <4>1, <4>2
    <3>6. rb' \in Ring
      BY <2>3, <3>1, <3>4, <3>5 DEF Ring
    <3>7. Contents(rb') = SubSeq(q, n + 1, Len(q))
      BY <1>1, <2>2, <3>4, <3>5, <3>6, OldestDropped DEF q
    <3>8. result'.count \in Nat /\ result'.bytes \in Seq(Byte)
      BY <2>1, <2>2
    <3> QED BY <2>0, <1>2, <2>1, <2>2, <3>6, <3>7, <3>8 DEF Fifo!Remove, q
  <2> QED BY <2>4, <2>5
<1>9. 1 \in 0 .. MaxCount
  BY CountAssumption
<1>10. Fifo!Smaller(1, Len(q)) = Smaller(1, Len(q))
  BY DEF Smaller, Fifo!Smaller
<1>11. ASSUME GetOne
       PROVE  RingTypeOK' /\ Fifo!Get(1)
  <2>0. call' = <<"get", 1>>
    BY <1>11 DEF GetOne
  <2>1. CASE ringbuffer_empty(rb)
    <3>1. q = <<>>
      BY <1>1, <2>1 DEF ringbuffer_empty
    <3>2. rb' = rb /\ result' = [count |-> 0, bytes |-> <<>>]
      BY <1>11, <2>1 DEF GetOne, Nothing
    <3>3. Smaller(1, Len(q)) = 0 /\ SubSeq(q, 1, 0) = <<>> /\ SubSeq(q, 0 + 1, Len(q)) = q
      <4>1. Smaller(1, Len(q)) = 0 /\ SubSeq(q, 1, 0) = <<>> /\ SubSeq(q, 1, Len(q)) = q
        BY <1>1, <3>1, OneByte, Zenon
      <4>2. 0 + 1 = 1
        OBVIOUS
      <4> QED BY <4>1, <4>2, Zenon
    <3> QED BY <2>0, <1>1, <1>2, <1>10, <3>2, <3>3 DEF Fifo!Get, q
  <2>2. CASE ~ringbuffer_empty(rb)
    <3>1. rb.avail # 0 /\ q # <<>>
      BY <1>1, <2>2 DEF ringbuffer_empty
    <3>2. rb' = get_head(rb) /\ result' = [count |-> 1, bytes |-> <<At(rb, rb.start)>>]
      BY <1>11, <2>2 DEF GetOne
    <3>3. rb' \in Ring /\ At(rb, rb.start) = Head(q) /\ At(rb, rb.start) \in Byte /\ Contents(rb') = Tail(q)
      BY <1>1, <3>1, <3>2, HeadTaken DEF q
    <3>4. result'.count \in Nat /\ result'.bytes \in Seq(Byte)
      BY <3>2, <3>3
    <3>5. Smaller(1, Len(q)) = 1 /\ SubSeq(q, 1, 1) = <<Head(q)>> /\ SubSeq(q, 1 + 1, Len(q)) = Tail(q)
      BY <1>1, <3>1, OneByte
    <3> QED BY <2>0, <1>2, <1>10, <3>2, <3>3, <3>4, <3>5 DEF Fifo!Get, q
  <2> QED BY <2>1, <2>2
<1>12. ASSUME PeekOne
       PROVE  RingTypeOK' /\ Fifo!Peek(1)
  <2>0. call' = <<"peek", 1>>
    BY <1>12 DEF PeekOne
  <2>1. CASE ringbuffer_empty(rb)
    <3>1. q = <<>>
      BY <1>1, <2>1 DEF ringbuffer_empty
    <3>2. rb' = rb /\ result' = [count |-> 0, bytes |-> <<>>]
      BY <1>12, <2>1 DEF PeekOne, Nothing
    <3>3. Smaller(1, Len(q)) = 0 /\ SubSeq(q, 1, 0) = <<>>
      BY <1>1, <3>1, OneByte
    <3> QED BY <2>0, <1>1, <1>2, <1>10, <3>2, <3>3 DEF Fifo!Peek, q
  <2>2. CASE ~ringbuffer_empty(rb)
    <3>1. rb.avail # 0 /\ q # <<>>
      BY <1>1, <2>2 DEF ringbuffer_empty
    <3>2. rb' = rb /\ result' = [count |-> 1, bytes |-> <<At(rb, rb.start)>>]
      BY <1>12, <2>2 DEF PeekOne
    <3>3. At(rb, rb.start) = Head(q) /\ At(rb, rb.start) \in Byte
      BY <1>1, <3>1, HeadTaken DEF q
    <3>4. result'.count \in Nat /\ result'.bytes \in Seq(Byte)
      BY <3>2, <3>3
    <3>5. Smaller(1, Len(q)) = 1 /\ SubSeq(q, 1, 1) = <<Head(q)>>
      BY <1>1, <3>1, OneByte
    <3> QED BY <2>0, <1>1, <1>2, <1>10, <3>2, <3>3, <3>4, <3>5 DEF Fifo!Peek, q
  <2> QED BY <2>1, <2>2
<1>13. Blocks = Fifo!Blocks
  BY DEF Blocks, Fifo!Blocks
<1> QED BY <1>3, <1>4, <1>6, <1>7, <1>8, <1>9, <1>11, <1>12, <1>13 DEF RingNext, Fifo!Next

(* ringbuffer.c stays inside its array: the read position is one of its    *)
(* indices and never more than Size bytes are counted, for every size, if  *)
(* no ringbuffer_remove ends exactly at the end of the array.              *)
THEOREM StaysInArray ==
    ASSUME ~RemoveToEnd
    PROVE  RingSpec => []RingTypeOK
<1>1. RingInit => RingTypeOK
  BY SizeAssumption DEF RingInit, RingTypeOK, Nothing
<1>2. RingTypeOK /\ [RingNext]_ringVars => RingTypeOK'
  <2> SUFFICES ASSUME RingTypeOK, [RingNext]_ringVars PROVE RingTypeOK'
    OBVIOUS
  <2>1. CASE RingNext
    BY <2>1, EveryCall
  <2>2. CASE UNCHANGED ringVars
    BY <2>2 DEF ringVars, RingTypeOK
  <2> QED BY <2>1, <2>2
<1> QED BY <1>1, <1>2, PTL DEF RingSpec

(* The circular array of ringbuffer.c implements the bounded queue of      *)
(* ByteFifo, whatever the size of the array and the bytes, and for all     *)
(* calls but a ringbuffer_remove that ends exactly at the end of it.       *)
THEOREM ImplementsFifo ==
    ASSUME ~RemoveToEnd
    PROVE  RingSpec => RefinesFifo
<1>1. RingInit => Fifo!Init
  BY SizeAssumption DEF RingInit, Fifo!Init, Nothing, Contents
<1>2. RingTypeOK /\ [RingNext]_ringVars => [Fifo!Next]_(Fifo!vars)
  <2> SUFFICES ASSUME RingTypeOK, [RingNext]_ringVars PROVE [Fifo!Next]_(Fifo!vars)
    OBVIOUS
  <2>1. CASE RingNext
    BY <2>1, EveryCall
  <2>2. CASE UNCHANGED ringVars
    BY <2>2 DEF ringVars, Fifo!vars
  <2> QED BY <2>1, <2>2
<1>3. RingSpec => []RingTypeOK
  BY StaysInArray
<1> QED BY <1>1, <1>2, <1>3, PTL DEF RingSpec, RefinesFifo, Fifo!Spec
=============================================================================

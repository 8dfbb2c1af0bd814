---------------------------- MODULE SchedProofs ----------------------------
(***************************************************************************)
(* What the operators of module Sched preserve, for every set of threads   *)
(* and every number of priority levels.  The proofs of the components that *)
(* block and wake threads rest on these lemmas.                            *)
(***************************************************************************)
EXTENDS Sched, SequenceTheorems, WellFoundedInduction, TLAPS

KInv(k) == k \in Kernel /\ RunqueueConsistent(k)

NatLessThan == {ss \in Nat \X Nat : ss[1] < ss[2]}

(* The order of the priorities is well-founded. *)
LEMMA NatLessThanWF == IsWellFoundedOn(NatLessThan, Nat)
  BY NatLessThanWellFounded, Zenon DEF OpToRel, NatLessThan

(* The lowest set bit of a non-empty bit cache exists and is the minimum   *)
(* (bitarithm_lsb in sched_run).                                           *)
LEMMA LowestBit ==
  ASSUME NEW S \in SUBSET Nat, S # {}
  PROVE  Min(S) \in S /\ \A q \in S : Min(S) <= q
<1>1. PICK x \in S : \A y \in S : ~(<<y, x>> \in NatLessThan)
  BY NatLessThanWF, WFMin, Zenon
<1>2. ASSUME NEW y \in S
      PROVE  x <= y
  <2>1. x \in Nat /\ y \in Nat /\ <<y, x>> \in Nat \X Nat /\ <<y, x>>[1] = y /\ <<y, x>>[2] = x
    OBVIOUS
  <2>2. ~(y < x)
    BY <1>1, <2>1, Zenon DEF NatLessThan
  <2> QED
    BY <2>1, <2>2
<1>3. \E z \in S : \A y \in S : z <= y
  BY <1>2
<1> QED
  BY <1>3, Zenon DEF Min

(* clist_rpush of a thread that is not in the list. *)
LEMMA AppendInjective2 ==
  ASSUME NEW S, NEW s \in Seq(S), NEW e \in S, IsInjective(s), e \notin Range(s)
  PROVE  /\ Append(s, e) \in Seq(S)
         /\ IsInjective(Append(s, e))
         /\ Range(Append(s, e)) = Range(s) \cup {e}
         /\ Append(s, e) # <<>>
  BY DEF IsInjective, Range

(* clist_lpop. *)
LEMMA TailInjective ==
  ASSUME NEW S, NEW s \in Seq(S), s # <<>>, IsInjective(s)
  PROVE  /\ Tail(s) \in Seq(S)
         /\ IsInjective(Tail(s))
         /\ Range(Tail(s)) = Range(s) \ {Head(s)}
         /\ Head(s) \in Range(s)
<1>1. /\ Len(s) \in Nat \ {0}
      /\ DOMAIN s = 1 .. Len(s)
      /\ Head(s) = s[1]
  OBVIOUS
<1>2. /\ Tail(s) \in Seq(S)
      /\ Len(Tail(s)) = Len(s) - 1
      /\ DOMAIN Tail(s) = 1 .. Len(s) - 1
      /\ \A i \in 1 .. Len(s) - 1 : Tail(s)[i] = s[i + 1]
  BY HeadTailProperties, LenProperties
<1>3. IsInjective(Tail(s))
  BY <1>1, <1>2 DEF IsInjective
<1>4. ASSUME NEW i \in DOMAIN s, i # 1
      PROVE  s[i] \in Range(Tail(s))
  <2>1. i - 1 \in 1 .. Len(s) - 1 /\ Tail(s)[i - 1] = s[i]
    BY <1>1, <1>2, <1>4
  <2> QED
    BY <1>2, <2>1 DEF Range
<1>5. ASSUME NEW i \in DOMAIN Tail(s)
      PROVE  Tail(s)[i] \in Range(s) \ {Head(s)}
  <2>1. i + 1 \in DOMAIN s /\ i + 1 # 1 /\ 1 \in DOMAIN s /\ Tail(s)[i] = s[i + 1]
    BY <1>1, <1>2, <1>5
  <2> QED
    BY <1>1, <2>1 DEF Range, IsInjective
<1> QED
  BY <1>1, <1>2, <1>3, <1>4, <1>5 DEF Range

(* thread_yield's clist_lpoprpush rotates a run queue: same threads, no    *)
(* duplicates.                                                             *)
LEMMA RotateInjective ==
  ASSUME NEW S, NEW s \in Seq(S), s # <<>>, IsInjective(s)
  PROVE  /\ Append(Tail(s), Head(s)) \in Seq(S)
         /\ IsInjective(Append(Tail(s), Head(s)))
         /\ Range(Append(Tail(s), Head(s))) = Range(s)
         /\ Append(Tail(s), Head(s)) # <<>>
<1>1. /\ Tail(s) \in Seq(S)
      /\ IsInjective(Tail(s))
      /\ Range(Tail(s)) = Range(s) \ {Head(s)}
      /\ Head(s) \in Range(s)
  BY TailInjective
<1>2. Head(s) \in S /\ Head(s) \notin Range(Tail(s))
  BY <1>1, HeadTailProperties
<1>3. Range(s) = Range(Tail(s)) \cup {Head(s)}
  BY <1>1
<1> DEFINE r == Tail(s)
           h == Head(s)
<1>4. r \in Seq(S) /\ IsInjective(r) /\ h \in S /\ h \notin Range(r) /\ Range(s) = Range(r) \cup {h}
  BY <1>1, <1>2, <1>3
<1> HIDE DEF r, h
<1>5. /\ Append(r, h) \in Seq(S)
      /\ IsInjective(Append(r, h))
      /\ Range(Append(r, h)) = Range(s)
      /\ Append(r, h) # <<>>
  BY <1>4, AppendInjective2
<1> QED
  BY <1>5 DEF r, h

-----------------------------------------------------------------------------
Write(k, t, s, p, q, b) ==
  [k EXCEPT !.status[t] = s, !.rq[p] = q, !.bitcache = b]

SameContext(k, n) ==
  /\ n.active = k.active
  /\ n.request = k.request
  /\ n.in_isr = k.in_isr
  /\ n.msip = k.msip
  /\ n.fault = k.fault

StatusSet(k, n, t, s) ==
  \A u \in Threads : n.status[u] = IF u = t THEN s ELSE k.status[u]

Wrote(k, n, t, s, p, q, b) ==
  /\ n \in Kernel
  /\ n.bitcache = b
  /\ SameContext(k, n)
  /\ \A x \in Prios : n.rq[x] = IF x = p THEN q ELSE k.rq[x]
  /\ StatusSet(k, n, t, s)

(* Writing one status, one run queue and the bit cache leaves the rest of  *)
(* the kernel state alone.                                                 *)
LEMMA WriteQueue ==
  ASSUME NEW k \in Kernel, NEW t \in Threads, NEW s \in Status,
         NEW p \in Prios, NEW q \in Seq(Threads), NEW b \in SUBSET Prios
  PROVE  Wrote(k, Write(k, t, s, p, q, b), t, s, p, q, b)
<1> DEFINE n == Write(k, t, s, p, q, b)
<1>0. n = [k EXCEPT !.status[t] = s, !.rq[p] = q, !.bitcache = b]
  BY DEF Write
<1> HIDE DEF n
<1>1. n \in Kernel
  BY <1>0, Zenon DEF Kernel
<1>2. n.status = [k.status EXCEPT ![t] = s]
  BY <1>0 DEF Kernel
<1>3. n.rq = [k.rq EXCEPT ![p] = q] /\ n.bitcache = b
  BY <1>0 DEF Kernel
<1>4. n.active = k.active /\ n.request = k.request
  BY <1>0 DEF Kernel
<1>5. n.in_isr = k.in_isr /\ n.msip = k.msip /\ n.fault = k.fault
  BY <1>0 DEF Kernel
<1>6. \A x \in Prios : n.rq[x] = IF x = p THEN q ELSE k.rq[x]
  BY <1>3 DEF Kernel
<1>7. \A u \in Threads : n.status[u] = IF u = t THEN s ELSE k.status[u]
  BY <1>2 DEF Kernel
<1>8. Wrote(k, n, t, s, p, q, b)
  BY <1>1, <1>2, <1>3, <1>4, <1>5, <1>6, <1>7 DEF Wrote, SameContext, StatusSet
<1> QED
  BY <1>8 DEF n

(* sched_set_status to a status on the run queue: t joins the tail of its  *)
(* queue unless it is in it, and nothing but its status, its queue and its *)
(* bit change.                                                             *)
LEMMA SetStatusReady ==
  ASSUME NEW k, KInv(k), NEW t \in Threads, NEW s \in STATUS_ON_RUNQUEUE,
         NEW n, n = sched_set_status(k, t, s)
  PROVE  /\ KInv(n)
         /\ StatusSet(k, n, t, s)
         /\ \A p \in Prios : k.rq[p] # <<>> =>
               n.rq[p] # <<>> /\ Head(n.rq[p]) = Head(k.rq[p])
         /\ SameContext(k, n)
<1>0. Prio[t] \in Prios /\ s \in Status
  BY SchedAssumption DEF Status
<1>a. k \in Kernel /\ RunqueueConsistent(k)
  BY DEF KInv
<1>b. k.rq[Prio[t]] \in Seq(Threads) /\ k.bitcache \in SUBSET Prios /\ IsInjective(k.rq[Prio[t]])
  BY <1>0, <1>a DEF Kernel, RunqueueConsistent
<1>1. CASE OnRunqueue(k, t)
  <2>1. n = Write(k, t, s, Prio[t], k.rq[Prio[t]], k.bitcache)
    BY <1>1 DEF sched_set_status, Write
  <2>w. Wrote(k, n, t, s, Prio[t], k.rq[Prio[t]], k.bitcache)
    BY <2>1, <1>0, <1>a, <1>b, WriteQueue
  <2>2. /\ n \in Kernel /\ n.bitcache = k.bitcache
        /\ SameContext(k, n)
        /\ \A x \in Prios : n.rq[x] = k.rq[x]
        /\ StatusSet(k, n, t, s)
    BY <2>w DEF Wrote
  <2>3. \A u \in Threads : OnRunqueue(n, u) <=> OnRunqueue(k, u)
    BY <2>2, <1>1 DEF OnRunqueue, StatusSet
  <2>4. RunqueueConsistent(n)
    BY <2>2, <2>3, <1>a DEF RunqueueConsistent
  <2> QED
    BY <2>2, <2>4 DEF KInv
<1>2. CASE ~OnRunqueue(k, t)
  <2> DEFINE q == Append(k.rq[Prio[t]], t)
  <2>1. n = Write(k, t, s, Prio[t], q, k.bitcache \cup {Prio[t]})
    BY <1>2 DEF sched_set_status, Write
  <2>2. t \notin Range(k.rq[Prio[t]])
    BY <1>0, <1>2, <1>a DEF RunqueueConsistent
  <2>3. /\ q \in Seq(Threads)
        /\ IsInjective(q)
        /\ Range(q) = Range(k.rq[Prio[t]]) \cup {t}
        /\ q # <<>>
    BY <1>b, <2>2, AppendInjective2
  <2>4. k.rq[Prio[t]] # <<>> => Head(q) = Head(k.rq[Prio[t]])
    BY <1>b
  <2> HIDE DEF q
  <2>w. Wrote(k, n, t, s, Prio[t], q, k.bitcache \cup {Prio[t]})
    BY <2>1, <2>3, <1>0, <1>a, <1>b, WriteQueue
  <2>5. /\ n \in Kernel /\ n.bitcache = k.bitcache \cup {Prio[t]}
        /\ SameContext(k, n)
        /\ \A x \in Prios : n.rq[x] = IF x = Prio[t] THEN q ELSE k.rq[x]
        /\ StatusSet(k, n, t, s)
    BY <2>w DEF Wrote
  <2>6. \A u \in Threads : OnRunqueue(n, u) <=> (OnRunqueue(k, u) \/ u = t)
    BY <2>5 DEF OnRunqueue, StatusSet
  <2>7. \A x \in Prios : IsInjective(n.rq[x])
    BY <2>5, <2>3, <1>a DEF RunqueueConsistent
  <2>8. \A x \in Prios, u \in Threads :
          u \in Range(n.rq[x]) <=> x = Prio[u] /\ OnRunqueue(n, u)
    BY <2>5, <2>3, <2>6, <1>a DEF RunqueueConsistent
  <2>9. n.bitcache = {x \in Prios : n.rq[x] # <<>>}
    BY <2>5, <2>3, <1>0, <1>a DEF RunqueueConsistent
  <2>10. KInv(n)
    BY <2>5, <2>7, <2>8, <2>9 DEF RunqueueConsistent, KInv
  <2> QED
    BY <2>3, <2>4, <2>5, <2>10
<1> QED
  BY <1>1, <1>2

(* sched_set_status of a thread that heads its run queue to a status off   *)
(* the run queue: clist_lpop removes that thread and no other.             *)
LEMMA SetStatusBlock ==
  ASSUME NEW k, KInv(k), NEW t \in Threads, NEW s \in Blocked,
         k.rq[Prio[t]] # <<>>, Head(k.rq[Prio[t]]) = t,
         NEW n, n = sched_set_status(k, t, s)
  PROVE  /\ KInv(n)
         /\ StatusSet(k, n, t, s)
         /\ SameContext(k, n)
<1>0. Prio[t] \in Prios /\ s \in Status /\ s \notin STATUS_ON_RUNQUEUE
  BY SchedAssumption DEF Status, Blocked, STATUS_ON_RUNQUEUE
<1>a. k \in Kernel /\ RunqueueConsistent(k)
  BY DEF KInv
<1>b. k.rq[Prio[t]] \in Seq(Threads) /\ k.bitcache \in SUBSET Prios /\ IsInjective(k.rq[Prio[t]])
  BY <1>0, <1>a DEF Kernel, RunqueueConsistent
<1> DEFINE q == Tail(k.rq[Prio[t]])
           b == IF q = <<>> THEN k.bitcache \ {Prio[t]} ELSE k.bitcache
<1>1. /\ q \in Seq(Threads)
      /\ IsInjective(q)
      /\ Range(q) = Range(k.rq[Prio[t]]) \ {t}
      /\ t \in Range(k.rq[Prio[t]])
  BY <1>b, TailInjective
<1>2. OnRunqueue(k, t)
  BY <1>0, <1>1, <1>a DEF RunqueueConsistent
<1>3. n = Write(k, t, s, Prio[t], q, b)
  BY <1>0, <1>2 DEF sched_set_status, Write
<1>4. b \in SUBSET Prios
  BY <1>b
<1> HIDE DEF q
<1>5. Wrote(k, n, t, s, Prio[t], q, b)
  <2> HIDE DEF b
  <2> QED BY <1>0, <1>1, <1>3, <1>4, <1>a, <1>b, WriteQueue
<1>6. /\ n \in Kernel /\ n.bitcache = b
      /\ SameContext(k, n)
      /\ \A x \in Prios : n.rq[x] = IF x = Prio[t] THEN q ELSE k.rq[x]
      /\ StatusSet(k, n, t, s)
  BY <1>5 DEF Wrote
<1>7. \A u \in Threads : OnRunqueue(n, u) <=> (OnRunqueue(k, u) /\ u # t)
  BY <1>0, <1>6 DEF OnRunqueue, StatusSet
<1>8. \A x \in Prios : IsInjective(n.rq[x])
  BY <1>1, <1>6, <1>a DEF RunqueueConsistent
<1>9. \A x \in Prios, u \in Threads :
        u \in Range(n.rq[x]) <=> x = Prio[u] /\ OnRunqueue(n, u)
  BY <1>1, <1>6, <1>7, <1>a DEF RunqueueConsistent
<1>10. n.bitcache = {x \in Prios : n.rq[x] # <<>>}
  BY <1>0, <1>6, <1>a DEF RunqueueConsistent
<1> QED
  BY <1>6, <1>8, <1>9, <1>10 DEF RunqueueConsistent, KInv

(* A thread that heads the run queue of its priority is ready. *)
LEMMA HeadIsReady ==
  ASSUME NEW k, KInv(k), NEW t \in Threads,
         k.rq[Prio[t]] # <<>>, Head(k.rq[Prio[t]]) = t
  PROVE  OnRunqueue(k, t)
<1>1. /\ Prio[t] \in Prios
      /\ k.rq[Prio[t]] \in Seq(Threads)
      /\ IsInjective(k.rq[Prio[t]])
      /\ RunqueueConsistent(k)
  BY SchedAssumption DEF KInv, Kernel, RunqueueConsistent
<1>2. t \in Range(k.rq[Prio[t]])
  BY <1>1, TailInjective
<1> QED
  BY <1>1, <1>2 DEF RunqueueConsistent

(* sched_set_status between two statuses off the run queue leaves the run  *)
(* queues alone.                                                           *)
LEMMA SetStatusOff ==
  ASSUME NEW k, KInv(k), NEW t \in Threads, ~OnRunqueue(k, t), NEW s \in Blocked,
         NEW n, n = sched_set_status(k, t, s)
  PROVE  /\ KInv(n)
         /\ StatusSet(k, n, t, s)
         /\ SameContext(k, n)
         /\ \A p \in Prios : n.rq[p] = k.rq[p]
<1>0. Prio[t] \in Prios /\ s \in Status /\ s \notin STATUS_ON_RUNQUEUE
  BY SchedAssumption DEF Status, Blocked, STATUS_ON_RUNQUEUE
<1>a. k \in Kernel /\ RunqueueConsistent(k)
  BY DEF KInv
<1>b. k.rq[Prio[t]] \in Seq(Threads) /\ k.bitcache \in SUBSET Prios
  BY <1>0, <1>a DEF Kernel
<1>1. n = Write(k, t, s, Prio[t], k.rq[Prio[t]], k.bitcache)
  BY <1>0 DEF sched_set_status, Write
<1>2. Wrote(k, n, t, s, Prio[t], k.rq[Prio[t]], k.bitcache)
  BY <1>0, <1>1, <1>a, <1>b, WriteQueue
<1>3. /\ n \in Kernel /\ n.bitcache = k.bitcache
      /\ SameContext(k, n)
      /\ \A x \in Prios : n.rq[x] = k.rq[x]
      /\ StatusSet(k, n, t, s)
  BY <1>2 DEF Wrote
<1>4. \A u \in Threads : OnRunqueue(n, u) <=> OnRunqueue(k, u)
  BY <1>0, <1>3 DEF OnRunqueue, StatusSet
<1>5. RunqueueConsistent(n)
  BY <1>3, <1>4, <1>a DEF RunqueueConsistent
<1> QED
  BY <1>3, <1>5 DEF KInv

-----------------------------------------------------------------------------
(* What sched_run guarantees: it keeps the run queues and who is on them,  *)
(* and the thread it makes active heads its run queue and has the highest  *)
(* priority of all that are ready.                                         *)
Ran(k, n) ==
  /\ KInv(n)
  /\ n.active \in Threads
  /\ \A p \in Prios : n.rq[p] = k.rq[p]
  /\ n.rq[Prio[n.active]] # <<>>
  /\ Head(n.rq[Prio[n.active]]) = n.active
  /\ \A u \in Threads : OnRunqueue(n, u) <=> OnRunqueue(k, u)
  /\ \A u \in Threads : ~OnRunqueue(k, u) => n.status[u] = k.status[u]
  /\ \A u \in Threads : OnRunqueue(k, u) => Prio[n.active] <= Prio[u]
  /\ n.request = FALSE
  /\ n.in_isr = k.in_isr /\ n.msip = k.msip /\ n.fault = k.fault

(* sched_run finds a thread whenever the idle thread is ready: the bit     *)
(* cache is not empty and the queue of its lowest bit is not either.       *)
LEMMA NextThreadExists ==
  ASSUME NEW k, KInv(k), OnRunqueue(k, Idle)
  PROVE  /\ NextThread(k) \in Threads
         /\ OnRunqueue(k, NextThread(k))
         /\ k.rq[Prio[NextThread(k)]] # <<>>
         /\ Head(k.rq[Prio[NextThread(k)]]) = NextThread(k)
         /\ \A u \in Threads : OnRunqueue(k, u) => Prio[NextThread(k)] <= Prio[u]
<1>a. k \in Kernel /\ RunqueueConsistent(k) /\ Prios \subseteq Nat
  BY SchedAssumption DEF KInv, Prios
<1>0. \A u \in Threads : Prio[u] \in Prios
  BY SchedAssumption
<1>1. \A u \in Threads : OnRunqueue(k, u) => Prio[u] \in k.bitcache
  <2> SUFFICES ASSUME NEW u \in Threads, OnRunqueue(k, u)
               PROVE  Prio[u] \in k.bitcache
    OBVIOUS
  <2>1. u \in Range(k.rq[Prio[u]])
    BY <1>0, <1>a, Zenon DEF RunqueueConsistent
  <2>2. k.rq[Prio[u]] # <<>>
    BY <2>1 DEF Range
  <2> QED
    BY <1>0, <2>2, <1>a DEF RunqueueConsistent
<1>2. k.bitcache \in SUBSET Nat /\ k.bitcache # {} /\ k.bitcache \subseteq Prios
  BY <1>1, <1>a, SchedAssumption, Zenon DEF Kernel
<1> DEFINE p == Min(k.bitcache)
<1>3. p \in k.bitcache /\ \A q \in k.bitcache : p <= q
  BY <1>2, LowestBit
<1>4. p \in Prios /\ k.rq[p] # <<>> /\ k.rq[p] \in Seq(Threads) /\ IsInjective(k.rq[p])
  <2> HIDE DEF p
  <2> QED BY <1>2, <1>3, <1>a DEF RunqueueConsistent, Kernel
<1>5. Head(k.rq[p]) \in Threads /\ Head(k.rq[p]) \in Range(k.rq[p])
  BY <1>4, TailInjective, HeadTailProperties
<1>6. Prio[Head(k.rq[p])] = p /\ OnRunqueue(k, Head(k.rq[p]))
  BY <1>4, <1>5, <1>a, Zenon DEF RunqueueConsistent
<1> QED
  BY <1>1, <1>3, <1>4, <1>5, <1>6 DEF NextThread

(* sched_run, whether it changes the active thread or returns early. *)
LEMMA SchedRun ==
  ASSUME NEW k, KInv(k), OnRunqueue(k, Idle), NEW n, n = sched_run(k)
  PROVE  Ran(k, n)
<1> DEFINE next == NextThread(k)
<1>1. /\ next \in Threads
      /\ OnRunqueue(k, next)
      /\ k.rq[Prio[next]] # <<>>
      /\ Head(k.rq[Prio[next]]) = next
      /\ \A u \in Threads : OnRunqueue(k, u) => Prio[next] <= Prio[u]
  BY NextThreadExists
<1>a. k \in Kernel /\ RunqueueConsistent(k)
  BY DEF KInv
<1>0. \A u \in Threads : Prio[u] \in Prios
  BY SchedAssumption
<1>2. CASE k.active = next
  <2>1. n = [k EXCEPT !.request = FALSE]
    BY <1>2 DEF sched_run
  <2> HIDE DEF next
  <2>2. n \in Kernel /\ n.request = FALSE
    BY <2>1, <1>a, Zenon DEF Kernel
  <2>3. /\ n.status = k.status /\ n.rq = k.rq /\ n.bitcache = k.bitcache /\ n.active = k.active
        /\ n.in_isr = k.in_isr /\ n.msip = k.msip /\ n.fault = k.fault
    BY <2>1, <1>a DEF Kernel
  <2>4. KInv(n)
    BY <2>2, <2>3, <1>a DEF KInv, RunqueueConsistent, OnRunqueue
  <2> QED
    BY <2>2, <2>3, <2>4, <1>1, <1>2 DEF Ran, OnRunqueue
<1>3. CASE k.active # next
  <2> DEFINE paused == k.active # NoThread /\ k.status[k.active] = "RUNNING"
             st == [u \in Threads |-> IF u = next THEN "RUNNING"
                                      ELSE IF paused /\ u = k.active THEN "PENDING"
                                      ELSE k.status[u]]
  <2>1. n = [k EXCEPT !.request = FALSE, !.active = next, !.status = st]
    BY <1>3 DEF sched_run
  <2> HIDE DEF next
  <2>2. st \in [Threads -> Status]
    BY <1>a DEF Kernel, Status, STATUS_ON_RUNQUEUE
  <2>3. \A u \in Threads : st[u] \in STATUS_ON_RUNQUEUE <=> OnRunqueue(k, u)
    BY <1>1 DEF OnRunqueue, STATUS_ON_RUNQUEUE
  <2>4. \A u \in Threads : ~OnRunqueue(k, u) => st[u] = k.status[u]
    BY <1>1 DEF OnRunqueue, STATUS_ON_RUNQUEUE
  <2> HIDE DEF st
  <2>5. n \in Kernel /\ n.request = FALSE /\ n.active = next /\ n.status = st
    BY <2>1, <2>2, <1>1, <1>a, Zenon DEF Kernel
  <2>6. /\ n.rq = k.rq /\ n.bitcache = k.bitcache
        /\ n.in_isr = k.in_isr /\ n.msip = k.msip /\ n.fault = k.fault
    BY <2>1, <1>a DEF Kernel
  <2>7. \A u \in Threads : OnRunqueue(n, u) <=> OnRunqueue(k, u)
    BY <2>3, <2>5 DEF OnRunqueue, StatusSet
  <2>8. KInv(n)
    BY <2>5, <2>6, <2>7, <1>a DEF KInv, RunqueueConsistent
  <2> QED
    BY <2>4, <2>5, <2>6, <2>7, <2>8, <1>1 DEF Ran
<1> QED
  BY <1>2, <1>3

-----------------------------------------------------------------------------
(* Threads and run queues untouched. *)
SameThreads(k, n) ==
  /\ KInv(n)
  /\ n.status = k.status /\ n.rq = k.rq /\ n.active = k.active

(* thread_yield_higher only raises the software interrupt. *)
LEMMA YieldHigher ==
  ASSUME NEW k, KInv(k), NEW n, n = thread_yield_higher(k)
  PROVE  /\ SameThreads(k, n)
         /\ n.msip = TRUE
         /\ n.request = k.request /\ n.in_isr = k.in_isr /\ n.fault = k.fault
<1>1. n = [k EXCEPT !.msip = TRUE] /\ k \in Kernel
  BY DEF thread_yield_higher, KInv
<1>2. n \in Kernel /\ n.msip = TRUE
  BY <1>1, Zenon DEF Kernel
<1>3. /\ n.status = k.status /\ n.rq = k.rq /\ n.bitcache = k.bitcache /\ n.active = k.active
      /\ n.request = k.request /\ n.in_isr = k.in_isr /\ n.fault = k.fault
  BY <1>1 DEF Kernel
<1> QED
  BY <1>2, <1>3 DEF SameThreads, KInv, RunqueueConsistent, OnRunqueue

(* context_switch takes the software interrupt and runs the scheduler. *)
LEMMA ContextSwitch ==
  ASSUME NEW k, KInv(k), OnRunqueue(k, Idle), NEW n, n = context_switch(k)
  PROVE  \E m : /\ Ran(m, n) /\ SameThreads(k, m)
                /\ m.msip = FALSE /\ m.in_isr = k.in_isr /\ m.fault = k.fault
<1> DEFINE m == [k EXCEPT !.msip = FALSE]
<1>0. k \in Kernel
  BY DEF KInv
<1>1. m \in Kernel /\ m.msip = FALSE
  BY <1>0, Zenon DEF Kernel
<1>2. /\ m.status = k.status /\ m.rq = k.rq /\ m.bitcache = k.bitcache /\ m.active = k.active
      /\ m.request = k.request /\ m.in_isr = k.in_isr /\ m.fault = k.fault
  BY <1>0 DEF Kernel
<1>3. n = sched_run(m)
  BY DEF context_switch
<1> HIDE DEF m
<1>4. KInv(m) /\ OnRunqueue(m, Idle)
  BY <1>1, <1>2 DEF KInv, RunqueueConsistent, OnRunqueue
<1>5. Ran(m, n)
  BY <1>3, <1>4, SchedRun
<1> QED
  BY <1>1, <1>2, <1>4, <1>5 DEF SameThreads

(* Entering an interrupt handler. *)
LEMMA TrapEntry ==
  ASSUME NEW k, KInv(k), NEW n, n = trap_entry(k)
  PROVE  /\ SameThreads(k, n)
         /\ n.in_isr = TRUE
         /\ n.request = k.request /\ n.msip = k.msip /\ n.fault = k.fault
<1>1. n = [k EXCEPT !.in_isr = TRUE] /\ k \in Kernel
  BY DEF trap_entry, KInv
<1>2. n \in Kernel /\ n.in_isr = TRUE
  BY <1>1, Zenon DEF Kernel
<1>3. /\ n.status = k.status /\ n.rq = k.rq /\ n.bitcache = k.bitcache /\ n.active = k.active
      /\ n.request = k.request /\ n.msip = k.msip /\ n.fault = k.fault
  BY <1>1 DEF Kernel
<1> QED
  BY <1>2, <1>3 DEF SameThreads, KInv, RunqueueConsistent, OnRunqueue

(* Leaving it: the scheduler runs if the handler asked for it. *)
LEMMA TrapReturn ==
  ASSUME NEW k, KInv(k), OnRunqueue(k, Idle), NEW n, n = trap_return(k)
  PROVE  \/ /\ k.request = FALSE
            /\ SameThreads(k, n)
            /\ n.request = FALSE /\ n.in_isr = FALSE
            /\ n.msip = k.msip /\ n.fault = k.fault
         \/ \E m : /\ Ran(m, n) /\ SameThreads(k, m)
                   /\ m.msip = FALSE /\ m.in_isr = FALSE /\ m.fault = k.fault
<1> DEFINE d == [k EXCEPT !.in_isr = FALSE]
<1>0. k \in Kernel
  BY DEF KInv
<1>1. d \in Kernel /\ d.in_isr = FALSE
  BY <1>0, Zenon DEF Kernel
<1>2. /\ d.status = k.status /\ d.rq = k.rq /\ d.bitcache = k.bitcache /\ d.active = k.active
      /\ d.request = k.request /\ d.msip = k.msip /\ d.fault = k.fault
  BY <1>0 DEF Kernel
<1>3. n = IF k.request THEN context_switch(d) ELSE d
  BY DEF trap_return
<1> HIDE DEF d
<1>4. KInv(d) /\ OnRunqueue(d, Idle) /\ SameThreads(k, d)
  BY <1>1, <1>2 DEF KInv, RunqueueConsistent, OnRunqueue, SameThreads
<1>5. k.request \in BOOLEAN
  BY <1>0 DEF Kernel
<1>6. CASE k.request = TRUE
  <2>1. n = context_switch(d)
    BY <1>3, <1>6
  <2>2. PICK m : /\ Ran(m, n) /\ SameThreads(d, m)
                 /\ m.msip = FALSE /\ m.in_isr = d.in_isr /\ m.fault = d.fault
    BY <2>1, <1>4, ContextSwitch, Zenon
  <2>3. SameThreads(k, m)
    BY <2>2, <1>4 DEF SameThreads
  <2> QED
    BY <2>2, <2>3, <1>1, <1>2
<1>7. CASE k.request = FALSE
  BY <1>1, <1>2, <1>3, <1>4, <1>7
<1> QED
  BY <1>5, <1>6, <1>7, Zenon

(* What sched_switch does while a thread is active: a thread of strictly   *)
(* higher priority, or an active thread that is no longer ready, makes it  *)
(* ask for a switch; otherwise nothing changes.                            *)
Switched(k, n, q) ==
  /\ SameThreads(k, n)
  /\ n.in_isr = k.in_isr /\ n.fault = k.fault
  /\ \/ /\ OnRunqueue(k, k.active) /\ ~(Prio[k.active] > q)
        /\ n.request = k.request /\ n.msip = k.msip
     \/ k.in_isr /\ n.request = TRUE /\ n.msip = k.msip
     \/ ~k.in_isr /\ n.request = k.request /\ n.msip = TRUE

(* sched_switch, called while a thread is active. *)
LEMMA SchedSwitch ==
  ASSUME NEW k, KInv(k), NEW q, k.active \in Threads, NEW n, n = sched_switch(k, q)
  PROVE  Switched(k, n, q)
<1>0. k \in Kernel /\ k.active # NoThread
  BY SchedAssumption DEF KInv
<1>1. CASE OnRunqueue(k, k.active) /\ ~(Prio[k.active] > q)
  BY <1>0, <1>1, Zenon DEF sched_switch, SameThreads, Switched
<1>2. CASE ~(OnRunqueue(k, k.active) /\ ~(Prio[k.active] > q)) /\ k.in_isr
  <2>1. n = [k EXCEPT !.request = TRUE]
    BY <1>0, <1>2 DEF sched_switch
  <2>2. n \in Kernel /\ n.request = TRUE
    BY <2>1, <1>0, Zenon DEF Kernel
  <2>3. /\ n.status = k.status /\ n.rq = k.rq /\ n.bitcache = k.bitcache /\ n.active = k.active
        /\ n.in_isr = k.in_isr /\ n.msip = k.msip /\ n.fault = k.fault
    BY <2>1, <1>0 DEF Kernel
  <2> QED
    BY <2>2, <2>3, <1>2 DEF Switched, SameThreads, KInv, RunqueueConsistent, OnRunqueue
<1>3. CASE ~(OnRunqueue(k, k.active) /\ ~(Prio[k.active] > q)) /\ ~k.in_isr
  <2>1. n = thread_yield_higher(k)
    BY <1>0, <1>3 DEF sched_switch
  <2> QED
    BY <2>1, <1>3, YieldHigher, Zenon DEF Switched
<1> QED
  BY <1>1, <1>2, <1>3

(* sched_switch with no active thread only records the fault. *)
LEMMA SchedSwitchFault ==
  ASSUME NEW k, KInv(k), NEW q, k.active = NoThread, NEW n, n = sched_switch(k, q)
  PROVE  /\ SameThreads(k, n)
         /\ n.request = k.request /\ n.in_isr = k.in_isr /\ n.msip = k.msip
<1>1. n = [k EXCEPT !.fault = TRUE] /\ k \in Kernel
  BY DEF sched_switch, KInv
<1>2. n \in Kernel
  BY <1>1, Zenon DEF Kernel
<1>3. /\ n.status = k.status /\ n.rq = k.rq /\ n.bitcache = k.bitcache /\ n.active = k.active
      /\ n.request = k.request /\ n.in_isr = k.in_isr /\ n.msip = k.msip
  BY <1>1 DEF Kernel
<1> QED
  BY <1>2, <1>3 DEF SameThreads, KInv, RunqueueConsistent, OnRunqueue

(* clist_lpoprpush on the run queue of a ready thread. *)
LEMMA RotateQueue ==
  ASSUME NEW k, KInv(k), NEW t \in Threads, k.rq[Prio[t]] # <<>>
  PROVE  LET r == [k EXCEPT !.rq[Prio[t]] = Append(Tail(@), Head(@))]
         IN  KInv(r) /\ r.status = k.status /\ SameContext(k, r)
<1> DEFINE p == Prio[t]
           q == Append(Tail(k.rq[p]), Head(k.rq[p]))
           r == [k EXCEPT !.rq[p] = q]
<1>1. /\ p \in Prios
      /\ k \in Kernel
      /\ k.rq[p] \in Seq(Threads)
      /\ IsInjective(k.rq[p])
      /\ RunqueueConsistent(k)
  BY SchedAssumption DEF KInv, Kernel, RunqueueConsistent
<1>2. q \in Seq(Threads) /\ IsInjective(q) /\ Range(q) = Range(k.rq[p]) /\ q # <<>>
  BY <1>1, RotateInjective
<1> HIDE DEF q, p
<1>3. r \in Kernel /\ r.bitcache = k.bitcache
  BY <1>1, <1>2, Zenon DEF Kernel
<1>4. \A x \in Prios : r.rq[x] = IF x = p THEN q ELSE k.rq[x]
  BY <1>1, <1>2 DEF Kernel
<1>5. r.status = k.status /\ SameContext(k, r)
  BY <1>1 DEF Kernel, SameContext
<1> HIDE DEF r
<1>6. RunqueueConsistent(r)
  <2>1. \A x \in Prios : IsInjective(r.rq[x]) /\ Range(r.rq[x]) = Range(k.rq[x])
    BY <1>1, <1>2, <1>4 DEF RunqueueConsistent
  <2>2. \A x \in Prios : r.rq[x] # <<>> <=> k.rq[x] # <<>>
    BY <1>2, <1>4 DEF p
  <2> QED
    BY <2>1, <2>2, <1>1, <1>3, <1>5 DEF RunqueueConsistent, OnRunqueue
<1>7. KInv(r)
  BY <1>3, <1>6 DEF KInv
<1> QED
  BY <1>5, <1>7 DEF r, q, p
=============================================================================

-------------------------------- MODULE Lock --------------------------------
(***************************************************************************)
(* What a mutex promises (core/include/mutex.h): one owner at a time, and  *)
(* a release hands it to a waiting thread of the highest priority, without *)
(* ever being free in between.                                             *)
(***************************************************************************)
EXTENDS Naturals

CONSTANTS Clients, Locks, Priority, None

VARIABLES owner,              \* owner[m]: a client or None
          waiting             \* waiting[m]: the clients that wait for m

lockVars == <<owner, waiting>>

LockInit ==
  /\ owner = [m \in Locks |-> None]
  /\ waiting = [m \in Locks |-> {}]

Acquire(t, m) ==
  /\ owner[m] = None
  /\ owner' = [owner EXCEPT ![m] = t]
  /\ UNCHANGED waiting

Wait(t, m) ==
  /\ owner[m] \notin {None, t}
  /\ waiting' = [waiting EXCEPT ![m] = @ \cup {t}]
  /\ UNCHANGED owner

Release(m) ==
  /\ owner[m] # None
  /\ waiting[m] = {}
  /\ owner' = [owner EXCEPT ![m] = None]
  /\ UNCHANGED waiting

HandOver(m, u) ==
  /\ owner[m] # None
  /\ u \in waiting[m]
  /\ \A v \in waiting[m] : Priority[u] <= Priority[v]
  /\ owner' = [owner EXCEPT ![m] = u]
  /\ waiting' = [waiting EXCEPT ![m] = @ \ {u}]

LockNext ==
  \E m \in Locks :
    \/ Release(m)
    \/ \E t \in Clients : Acquire(t, m) \/ Wait(t, m) \/ HandOver(m, t)

LockSpec == LockInit /\ [][LockNext]_lockVars
=============================================================================

-------------------------------- MODULE Mbox --------------------------------
(***************************************************************************)
(* Mailboxes (core/mbox.c): a ring of messages, the threads that wait to   *)
(* read and those that wait to write.  Threads and interrupt handlers put  *)
(* messages, threads get them.                                             *)
(*                                                                         *)
(* A thread that waits calls thread_yield with interrupts enabled again,   *)
(* a step of its own: an interrupt handler may put or wake between it and  *)
(* the entry in the waiting list.                                          *)
(***************************************************************************)
EXTENDS Cpu, Cib

CONSTANTS Programs,           \* who uses the mailbox how, see ProgramType
          MaxMessages         \* bound on the messages that are put

VARIABLES cib, msg_array, readers, writers,
          wait_data,          \* wait_data[t]: the message t waits with or got
          pc,                 \* pc[t]: where t is in _mbox_put or _mbox_get
          calls,              \* messages handed to _mbox_put so far
          accepted,           \* messages in the order they were accepted
          taken,              \* messages in the order they were taken out
          late,               \* messages stored by a writer that had waited
          program             \* the program that runs

mboxVars == <<cib, msg_array, readers, writers, wait_data, pc, calls, accepted, taken, late>>

vars == <<k, cib, msg_array, readers, writers, wait_data, pc, calls, accepted, taken, late, program>>

(***************************************************************************)
(* A program: the size of msg_array, a power of two, the threads that call *)
(* mbox_put, mbox_try_put and mbox_get, and whether interrupt handlers     *)
(* call mbox_try_put.                                                      *)
(***************************************************************************)
ProgramType ==
  [size : {2^n : n \in 0 .. UINT_BITS - 2},
   writers : SUBSET (Threads \ {Idle}), try_writers : SUBSET (Threads \ {Idle}),
   readers : SUBSET (Threads \ {Idle}), isr_puts : BOOLEAN]

ASSUME MboxAssumption == Programs \subseteq ProgramType /\ MaxMessages \in Nat

Size == program.size

NoMsg == 0

Init ==
  /\ program \in Programs
  /\ k = Started
  /\ cib = cib_init(Size)
  /\ msg_array = [i \in 0 .. Size - 1 |-> NoMsg]
  /\ readers = <<>> /\ writers = <<>>
  /\ wait_data = [t \in Threads |-> NoMsg]
  /\ pc = [t \in Threads |-> "out"]
  /\ calls = 0
  /\ accepted = <<>> /\ taken = <<>> /\ late = {}

(* Mutation: the place of the message is computed after the increment. *)
Store_Late(msg) ==
  /\ msg_array' = [msg_array EXCEPT ![PutIndex(AfterPut(cib))] = msg]
  /\ cib' = AfterPut(cib)
  /\ accepted' = Append(accepted, msg)

(* _wake_waiter *)
Wake(t) == sched_switch(sched_set_status(k, t, "PENDING"), Prio[t])

(* mbox->msg_array[cib_put_unsafe(&mbox->cib)] = *msg *)
Store(msg) ==
  /\ msg_array' = [msg_array EXCEPT ![PutIndex(cib)] = msg]
  /\ cib' = AfterPut(cib)
  /\ accepted' = Append(accepted, msg)

(***************************************************************************)
(* _mbox_put: hand over to a reader, or store, or (a thread that may) wait *)
(* for a place, or return 0.                                               *)
(***************************************************************************)
NewMessage == calls < MaxMessages /\ calls' = calls + 1

(* Mutation: the reader that was served stays in the list. *)
HandOver_Kept(msg) ==
  /\ readers # <<>>
  /\ wait_data' = [wait_data EXCEPT ![Head(readers)] = msg]
  /\ k' = Wake(Head(readers))
  /\ accepted' = Append(accepted, msg)
  /\ taken' = Append(taken, msg)
  /\ UNCHANGED <<cib, msg_array, readers, writers, pc, late>>

HandOver(msg) ==
  /\ readers # <<>>
  /\ readers' = Tail(readers)
  /\ wait_data' = [wait_data EXCEPT ![Head(readers)] = msg]
  /\ k' = Wake(Head(readers))
  /\ accepted' = Append(accepted, msg)
  /\ taken' = Append(taken, msg)
  /\ UNCHANGED <<cib, msg_array, writers, pc, late>>

(* Mutation: the ring is tried before the readers. *)
PutFree_First(msg) ==
  /\ ~cib_full(cib)
  /\ Store(msg)
  /\ UNCHANGED <<k, readers, writers, wait_data, pc, taken, late>>

PutFree(msg) ==
  /\ readers = <<>> /\ ~cib_full(cib)
  /\ Store(msg)
  /\ UNCHANGED <<k, readers, writers, wait_data, pc, taken, late>>

PutFails ==
  /\ readers = <<>> /\ cib_full(cib)
  /\ UNCHANGED <<k, cib, msg_array, readers, writers, wait_data, pc, accepted, taken, late>>

mbox_try_put == NewMessage /\ (HandOver(calls') \/ PutFree(calls') \/ PutFails)

PutWaits(t, msg) ==
  /\ readers = <<>> /\ cib_full(cib)
  /\ k' = sched_set_status(k, t, "MBOX_BLOCKED")
  /\ writers' = thread_add_to_list(writers, t)
  /\ wait_data' = [wait_data EXCEPT ![t] = msg]
  /\ pc' = [pc EXCEPT ![t] = "put_yield"]
  /\ UNCHANGED <<cib, msg_array, readers, accepted, taken, late>>

mbox_put(t) == NewMessage /\ (HandOver(calls') \/ PutFree(calls') \/ PutWaits(t, calls'))

(* After _wait the message is stored without another look at the mailbox. *)
PutResumes(t) ==
  /\ pc[t] = "put_store"
  /\ Store(wait_data[t])
  /\ pc' = [pc EXCEPT ![t] = "out"]
  /\ wait_data' = [wait_data EXCEPT ![t] = NoMsg]
  /\ late' = late \cup {wait_data[t]}
  /\ UNCHANGED <<k, readers, writers, calls, taken>>

(***************************************************************************)
(* _mbox_get: take from the ring and wake a writer, or wait.               *)
(***************************************************************************)
(* Mutation: no writer is told of the place that became free. *)
GetStored_NoWake(t) ==
  /\ cib_avail(cib) # 0
  /\ taken' = Append(taken, msg_array[GetIndex(cib)])
  /\ cib' = AfterGet(cib)
  /\ UNCHANGED <<k, msg_array, readers, writers, wait_data, pc, calls, accepted, late>>

GetStored(t) ==
  /\ cib_avail(cib) # 0
  /\ taken' = Append(taken, msg_array[GetIndex(cib)])
  /\ cib' = AfterGet(cib)
  /\ IF writers # <<>>
     THEN writers' = Tail(writers) /\ k' = Wake(Head(writers))
     ELSE UNCHANGED <<writers, k>>
  /\ UNCHANGED <<msg_array, readers, wait_data, pc, calls, accepted, late>>

GetWaits(t) ==
  /\ cib_avail(cib) = 0
  /\ k' = sched_set_status(k, t, "MBOX_BLOCKED")
  /\ readers' = thread_add_to_list(readers, t)
  /\ wait_data' = [wait_data EXCEPT ![t] = NoMsg]
  /\ pc' = [pc EXCEPT ![t] = "get_yield"]
  /\ UNCHANGED <<cib, msg_array, writers, calls, accepted, taken, late>>

mbox_get(t) == GetStored(t) \/ GetWaits(t)

GetResumes(t) ==
  /\ pc[t] = "get_done"
  /\ pc' = [pc EXCEPT ![t] = "out"]
  /\ UNCHANGED <<k, cib, msg_array, readers, writers, wait_data, calls, accepted, taken, late>>

(* The thread_yield in _wait. *)
WaitYields(t) ==
  /\ pc[t] \in {"put_yield", "get_yield"}
  /\ Yield(t)
  /\ pc' = [pc EXCEPT ![t] = IF @ = "put_yield" THEN "put_store" ELSE "get_done"]
  /\ UNCHANGED <<cib, msg_array, readers, writers, wait_data, calls, accepted, taken, late>>

ThreadStep(t) ==
  /\ Executing(k, t)
  /\ \/ WaitYields(t) \/ PutResumes(t) \/ GetResumes(t)
     \/ /\ pc[t] = "out"
        /\ \/ t \in program.writers /\ mbox_put(t)
           \/ t \in program.try_writers /\ mbox_try_put
           \/ t \in program.readers /\ mbox_get(t)
           \/ t # Idle /\ (Sleep(t) \/ Yield(t)) /\ UNCHANGED mboxVars

Isr ==
  /\ InIsr(k)
  /\ \/ program.isr_puts /\ mbox_try_put
     \/ \E t \in Threads : Wakeup(t) /\ UNCHANGED mboxVars

Next ==
  /\ \/ \E t \in Threads : ThreadStep(t)
     \/ Isr
     \/ Trap /\ UNCHANGED mboxVars
  /\ UNCHANGED program

Spec == Init /\ [][Next]_vars

-----------------------------------------------------------------------------
(* Every variable has its type. *)
TypeOK ==
  /\ k \in Kernel /\ program \in Programs
  /\ cib \in [read_count : UINT, write_count : UINT, mask : {Size - 1}]
  /\ msg_array \in [0 .. Size - 1 -> 0 .. MaxMessages]
  /\ readers \in Seq(program.readers) /\ writers \in Seq(program.writers)
  /\ wait_data \in [Threads -> 0 .. MaxMessages]
  /\ pc \in [Threads -> {"out", "put_yield", "put_store", "get_yield", "get_done"}]
  /\ calls \in 0 .. MaxMessages /\ late \subseteq 1 .. MaxMessages

(* Statuses and waiting lists agree: a thread is MBOX_BLOCKED exactly      *)
(* while it is in one of the lists, once, and a list is ordered by         *)
(* priority; run queues stay consistent although a thread that waits       *)
(* executes on until its thread_yield.                                     *)
ListsAgree ==
  /\ TypeOK
  /\ RunqueueConsistent(k)
  /\ pc[k.active] \in {"put_yield", "get_yield"} \/ ActiveIsHead(k)
  /\ IsInjective(readers \o writers)
  /\ \A t \in Threads :
       k.status[t] = "MBOX_BLOCKED" <=> t \in Range(readers \o writers)
  /\ \A l \in {readers, writers} : \A i, j \in DOMAIN l :
       i < j => Prio[l[i]] <= Prio[l[j]]

(* What is in the ring, oldest first. *)
Stored == [i \in 1 .. cib_avail(cib) |-> msg_array[Index(cib.read_count + i - 1, cib)]]

(* The readers a message was handed to that have not left mbox_get yet.    *)
WokenReaders ==
  {t \in program.readers : pc[t] \in {"get_yield", "get_done"} /\ t \notin Range(readers)}

(* A writer that was woken stores its message without another look at the  *)
(* mailbox.  Nothing comes between the two where nobody waits to put, and  *)
(* where a single thread, more important than the readers, puts.           *)
Disciplined ==
  \/ program.writers = {}
  \/ /\ program.try_writers = {} /\ ~program.isr_puts
     /\ \E w \in Threads : program.writers = {w} /\ \A r \in program.readers : Prio[w] < Prio[r]

(* In such a program messages leave the mailbox in the order in which they *)
(* were accepted, each once, none is overwritten.  In every program a      *)
(* reader that was woken finds a message in its buffer, no two readers the *)
(* same: nobody writes into the buffer of a reader that is no longer in    *)
(* the list (_mbox_put, _mbox_get).                                        *)
FifoNothingLost ==
  /\ Disciplined => accepted = taken \o Stored
  /\ \A t, u \in WokenReaders :
       /\ wait_data[t] \in Range(taken)
       /\ t # u => wait_data[t] # wait_data[u]

(* "If the mailbox is empty, this function will block until a message      *)
(* becomes available" (mbox_get, mbox.h:131): no reader waits beside a     *)
(* stored message.                                                         *)
NoReaderWaitsForStored == readers # <<>> => cib_avail(cib) = 0

(* What of it holds whoever puts and gets: the only messages a reader is   *)
(* left waiting beside are those of writers that had waited themselves     *)
(* (mbox.c:88).  A message put while there is a reader or a place, by a    *)
(* thread or an interrupt handler, is never one, and a disciplined program *)
(* has none.                                                               *)
OnlyLateOverlooked ==
  /\ readers # <<>> => Range(Stored) \subseteq late
  /\ Disciplined => NoReaderWaitsForStored

(* "If the mailbox is full, this function will block until space becomes   *)
(* available" (mbox_put): there is space when a message is stored.         *)
NeverOverfull == cib_avail(cib) <= Size

(* The writers that were woken and have not stored their message yet.      *)
WokenWriters ==
  {t \in program.writers : pc[t] \in {"put_yield", "put_store"} /\ t \notin Range(writers)}

(* No place stays free while a writer waits: for each free place there is  *)
(* a writer that was woken to fill it and has not done so yet (_mbox_get). *)
NoWriterWaitsForFree ==
  writers # <<>> => Size - cib_avail(cib) <= Cardinality(WokenWriters)
=============================================================================

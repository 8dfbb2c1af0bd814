-------------------------------- MODULE Msg --------------------------------
(***************************************************************************)
(* Messages between threads (core/msg.c).  A message goes directly into    *)
(* the buffer of a thread that waits in msg_receive, else into the         *)
(* target's message queue, else its sender waits in the target's           *)
(* msg_waiters with the message in its own buffer.  msg_send_receive sends *)
(* and stays blocked until msg_reply writes into that same buffer.         *)
(*                                                                         *)
(* wait_data[t] is what t->wait_data points to: a message, or the mask of  *)
(* a wait for thread flags.  The message queue is the sequence that module *)
(* CibFifo shows a cib to be.                                              *)
(***************************************************************************)
EXTENDS ThreadFlags

CONSTANTS THREAD_FLAG_MSG_WAITING,
          Absent,             \* pids of no thread: sched_threads[pid] = NULL
          Programs,           \* what the threads do, see ProgramType
          MaxInFlight         \* bound on the messages not yet dealt with

VARIABLES msg_queue,          \* msg_queue[t]: the messages in t->msg_array
          queue_size,         \* queue_size[t]: 0 before msg_init_queue
          msg_waiters,        \* msg_waiters[t]: the threads that wait to send to t
          ipc,                \* ipc[t]: the call of this module that t is in
          owed,               \* owed[t]: messages accepted for t and not received
          unanswered,         \* unanswered[t]: requests t has received
          program             \* the program that runs

ipcVars == <<msg_queue, queue_size, msg_waiters, ipc, owed, unanswered>>

msgVars == <<wait_data, flags, call, msg_queue, queue_size, msg_waiters, ipc, owed, unanswered>>

allVars == <<k, wait_data, flags, call, msg_queue, queue_size, msg_waiters, ipc, owed, unanswered>>

KERNEL_PID_ISR == "isr"

NoMsg == [sender |-> NoThread, id |-> 0, kind |-> "none"]

Message == [sender : Threads \cup {NoThread, KERNEL_PID_ISR}, id : 0 .. MaxInFlight,
            kind : {"none", "plain", "request", "reply"}]

(***************************************************************************)
(* A program: the functions each thread calls, the pids it sends to, what  *)
(* it passes to msg_init_queue, the threads interrupt handlers send to,    *)
(* and whether the module core_thread_flags is built in.                   *)
(***************************************************************************)
ProgramType ==
  [calls : [Threads -> SUBSET {"init", "send", "try_send", "send_to_self", "send_receive",
                               "receive", "serve", "try_receive", "loop"}],
   targets : [Threads -> SUBSET (Threads \cup Absent)],
   queue_size : [Threads -> Nat],
   isr_targets : SUBSET Threads,
   thread_flags : BOOLEAN]

ASSUME MsgAssumption ==
  /\ THREAD_FLAG_MSG_WAITING \in Flags
  /\ Absent \cap Threads = {}
  /\ Programs \subseteq ProgramType
  /\ \A p \in Programs, t \in Threads : t \notin p.targets[t]
  /\ MaxInFlight \in Nat

Calls == program.calls

Targets == program.targets

MODULE_CORE_THREAD_FLAGS == program.thread_flags

MsgInit ==
  /\ program \in Programs
  /\ k = Started
  /\ wait_data = [t \in Threads |-> NoMsg]
  /\ flags = [t \in Threads |-> {}]
  /\ call = [t \in Threads |-> NoCall]
  /\ msg_queue = [t \in Threads |-> <<>>]
  /\ queue_size = [t \in Threads |-> 0]
  /\ msg_waiters = [t \in Threads |-> <<>>]
  /\ ipc = [t \in Threads |-> "out"]
  /\ owed = [t \in Threads |-> <<>>]
  /\ unanswered = [t \in Threads |-> {}]

(***************************************************************************)
(* Messages carry a number that no other message in flight carries.        *)
(***************************************************************************)
InFlight ==
  UNION {{m.id : m \in Range(owed[t]) \cup unanswered[t]} : t \in Threads}
    \cup {wait_data[t].id : t \in {u \in Threads : ipc[u] \in {"request", "receive"}}}

NewMessage(from, what) ==
  [sender |-> from, id |-> Min((1 .. MaxInFlight) \ InFlight), kind |-> what]

MayCreate == (1 .. MaxInFlight) \ InFlight # {}

Accepted(t, m) == owed' = [owed EXCEPT ![t] = Append(@, m)]

(* t has m in its hands.  What m's sender has sent and t not received is   *)
(* one message less, the oldest of them: m, if messages arrive in order.   *)
Received(t, m) ==
  /\ owed' = [owed EXCEPT ![t] = RemoveFirstMatch(@, LAMBDA x : x.sender = m.sender)]
  /\ unanswered' = [unanswered EXCEPT ![t] = IF m.kind = "request" THEN @ \cup {m} ELSE @]

(***************************************************************************)
(* queue_msg, and the flag it and a blocking sender set for the target.    *)
(***************************************************************************)
HasRoom(t) == Len(msg_queue[t]) < queue_size[t]

SetFlag(t) ==
  flags' = IF MODULE_CORE_THREAD_FLAGS
           THEN [flags EXCEPT ![t] = @ \cup {THREAD_FLAG_MSG_WAITING}] ELSE flags

FlagWake(kk, t) ==
  IF MODULE_CORE_THREAD_FLAGS THEN thread_flags_wake(kk, t, flags'[t]) ELSE kk

queue_msg(t, m) ==
  /\ HasRoom(t)
  /\ msg_queue' = [msg_queue EXCEPT ![t] = Append(@, m)]
  /\ SetFlag(t)
  /\ Accepted(t, m)

(* queue_msg returns 0; nothing has changed. *)
QueueFull(t) ==
  /\ ~HasRoom(t)
  /\ UNCHANGED <<msg_queue, flags, owed>>

(***************************************************************************)
(* _msg_send, called by thread t when the kernel is in state kk and        *)
(* wait_data is data: both are changed already when msg_send_receive is    *)
(* the caller, which is then REPLY_BLOCKED and stays so.                   *)
(***************************************************************************)
IsRequest(kk, t) == kk.status[t] = "REPLY_BLOCKED"

Enters(kk, t, block) == ipc' = [ipc EXCEPT ![t] = IF IsRequest(kk, t) THEN "request"
                                                  ELSE IF block THEN "send" ELSE @]

(* Mutation: the receiver stays marked as waiting. *)
SendDirect_NotWoken(kk, data, t, target, m) ==
  /\ kk.status[target] = "RECEIVE_BLOCKED"
  /\ wait_data' = [data EXCEPT ![target] = m]
  /\ k' = thread_yield_higher(kk)
  /\ Accepted(target, m)
  /\ Enters(kk, t, FALSE)
  /\ UNCHANGED <<flags, msg_queue, msg_waiters>>

SendDirect(kk, data, t, target, m) ==
  /\ kk.status[target] = "RECEIVE_BLOCKED"
  /\ wait_data' = [data EXCEPT ![target] = m]
  /\ k' = thread_yield_higher(sched_set_status(kk, target, "PENDING"))
  /\ Accepted(target, m)
  /\ Enters(kk, t, FALSE)
  /\ UNCHANGED <<flags, msg_queue, msg_waiters>>

(* Mutation: the requester returns without waiting for the reply. *)
SendQueued_NoYield(kk, data, t, target, m) ==
  /\ kk.status[target] # "RECEIVE_BLOCKED"
  /\ queue_msg(target, m)
  /\ k' = FlagWake(kk, target)
  /\ wait_data' = data
  /\ Enters(kk, t, FALSE)
  /\ UNCHANGED msg_waiters

SendQueued(kk, data, t, target, m) ==
  /\ kk.status[target] # "RECEIVE_BLOCKED"
  /\ queue_msg(target, m)
  /\ k' = IF IsRequest(kk, t) THEN thread_yield_higher(FlagWake(kk, target))
                              ELSE FlagWake(kk, target)
  /\ wait_data' = data
  /\ Enters(kk, t, FALSE)
  /\ UNCHANGED msg_waiters

(* Mutation: a waiting requester becomes an ordinary sender. *)
SendWaits_SendBlocked(kk, data, t, target, m) ==
  /\ kk.status[target] # "RECEIVE_BLOCKED"
  /\ ~HasRoom(target)
  /\ wait_data' = [data EXCEPT ![t] = m]
  /\ msg_waiters' = [msg_waiters EXCEPT ![target] = thread_add_to_list(@, t)]
  /\ SetFlag(target)
  /\ k' = thread_yield_higher(FlagWake(sched_set_status(kk, t, "SEND_BLOCKED"), target))
  /\ Accepted(target, m)
  /\ Enters(kk, t, TRUE)
  /\ UNCHANGED msg_queue

(* Mutation: only queued messages are announced by the flag. *)
SendWaits_NoFlag(kk, data, t, target, m) ==
  /\ kk.status[target] # "RECEIVE_BLOCKED"
  /\ ~HasRoom(target)
  /\ wait_data' = [data EXCEPT ![t] = m]
  /\ msg_waiters' = [msg_waiters EXCEPT ![target] = thread_add_to_list(@, t)]
  /\ k' = thread_yield_higher(
             sched_set_status(kk, t, IF IsRequest(kk, t) THEN "REPLY_BLOCKED"
                                                         ELSE "SEND_BLOCKED"))
  /\ Accepted(target, m)
  /\ Enters(kk, t, TRUE)
  /\ UNCHANGED <<flags, msg_queue>>

SendWaits(kk, data, t, target, m) ==
  /\ kk.status[target] # "RECEIVE_BLOCKED"
  /\ ~HasRoom(target)
  /\ wait_data' = [data EXCEPT ![t] = m]
  /\ msg_waiters' = [msg_waiters EXCEPT ![target] = thread_add_to_list(@, t)]
  /\ SetFlag(target)
  /\ k' = thread_yield_higher(FlagWake(
             sched_set_status(kk, t, IF IsRequest(kk, t) THEN "REPLY_BLOCKED"
                                                         ELSE "SEND_BLOCKED"), target))
  /\ Accepted(target, m)
  /\ Enters(kk, t, TRUE)
  /\ UNCHANGED msg_queue

(* return 0 without block, and return -1 for a pid of no thread. *)
SendFails(kk, data, target, block) ==
  /\ target \notin Absent =>
       ~block /\ kk.status[target] # "RECEIVE_BLOCKED" /\ ~HasRoom(target)
  /\ k' = kk
  /\ wait_data' = data
  /\ UNCHANGED <<flags, msg_queue, msg_waiters, ipc, owed>>

SendTo(kk, data, t, target, m, block) ==
  /\ \/ SendFails(kk, data, target, block)
     \/ /\ target \notin Absent
        /\ \/ SendDirect(kk, data, t, target, m)
           \/ SendQueued(kk, data, t, target, m)
           \/ block /\ SendWaits(kk, data, t, target, m)
  /\ UNCHANGED <<call, queue_size, unanswered>>

msg_send(t, target, block) ==
  MayCreate /\ SendTo(k, wait_data, t, target, NewMessage(t, "plain"), block)

msg_send_receive(t, target) ==
  /\ MayCreate
  /\ LET m == NewMessage(t, "request")
     IN SendTo(sched_set_status(k, t, "REPLY_BLOCKED"),
               [wait_data EXCEPT ![t] = m], t, target, m, TRUE)

msg_send_to_self(t) ==
  /\ MayCreate
  /\ \/ queue_msg(t, NewMessage(t, "plain")) /\ k' = FlagWake(k, t)
     \/ QueueFull(t) /\ UNCHANGED k
  /\ UNCHANGED <<wait_data, call, queue_size, msg_waiters, ipc, unanswered>>

(* Called by an interrupt handler. *)
msg_send_int(target) ==
  /\ MayCreate
  /\ LET m == NewMessage(KERNEL_PID_ISR, "plain")
     IN \/ /\ k.status[target] = "RECEIVE_BLOCKED"
           /\ wait_data' = [wait_data EXCEPT ![target] = m]
           /\ k' = [sched_set_status(k, target, "PENDING") EXCEPT !.request = TRUE]
           /\ Accepted(target, m)
           /\ UNCHANGED <<msg_queue, flags>>
        \/ /\ k.status[target] # "RECEIVE_BLOCKED"
           /\ \/ queue_msg(target, m) /\ k' = FlagWake(k, target)
              \/ QueueFull(target) /\ UNCHANGED k
           /\ UNCHANGED wait_data
  /\ UNCHANGED <<call, queue_size, msg_waiters, ipc, unanswered>>

(***************************************************************************)
(* _msg_receive.                                                           *)
(***************************************************************************)
(* The first waiter, whose message has been taken: a sender goes on, a     *)
(* requester stays REPLY_BLOCKED and keeps its buffer.  A sender of idle   *)
(* priority is not worth a switch.                                         *)
THREAD_PRIORITY_IDLE == SCHED_PRIO_LEVELS - 1

Release(sender) ==
  IF k.status[sender] = "REPLY_BLOCKED"
  THEN UNCHANGED <<k, wait_data>>
  ELSE LET woken == sched_set_status(k, sender, "PENDING")
       IN /\ wait_data' = [wait_data EXCEPT ![sender] = NoMsg]
          /\ k' = IF Prio[sender] < THREAD_PRIORITY_IDLE
                  THEN sched_switch(woken, Prio[sender]) ELSE woken

(* A message from the queue.  The place it leaves goes to the message of   *)
(* the first waiter.                                                       *)
ReceiveQueued(t) ==
  /\ msg_queue[t] # <<>>
  /\ Received(t, Head(msg_queue[t]))
  /\ LET w == msg_waiters[t]
     IN IF w = <<>>
        THEN /\ msg_queue' = [msg_queue EXCEPT ![t] = Tail(@)]
             /\ UNCHANGED <<k, wait_data, msg_waiters>>
        ELSE /\ msg_queue' = [msg_queue EXCEPT ![t] = Append(Tail(@), wait_data[Head(w)])]
             /\ msg_waiters' = [msg_waiters EXCEPT ![t] = Tail(@)]
             /\ Release(Head(w))
  /\ UNCHANGED ipc

(* Mutation: a waiter is looked for before the queue. *)
ReceiveFromWaiter_First(t) ==
  /\ msg_waiters[t] # <<>>
  /\ LET sender == Head(msg_waiters[t])
     IN /\ Received(t, wait_data[sender])
        /\ msg_waiters' = [msg_waiters EXCEPT ![t] = Tail(@)]
        /\ Release(sender)
  /\ UNCHANGED <<msg_queue, ipc>>

ReceiveFromWaiter(t) ==
  /\ msg_queue[t] = <<>> /\ msg_waiters[t] # <<>>
  /\ LET sender == Head(msg_waiters[t])
     IN /\ Received(t, wait_data[sender])
        /\ msg_waiters' = [msg_waiters EXCEPT ![t] = Tail(@)]
        /\ Release(sender)
  /\ UNCHANGED <<msg_queue, ipc>>

(* Mutation: the waiters are not looked at before blocking. *)
ReceiveBlocks_QueueOnly(t) ==
  /\ msg_queue[t] = <<>>
  /\ k' = thread_yield_higher(sched_set_status(k, t, "RECEIVE_BLOCKED"))
  /\ wait_data' = [wait_data EXCEPT ![t] = NoMsg]
  /\ ipc' = [ipc EXCEPT ![t] = "receive"]
  /\ UNCHANGED <<msg_queue, msg_waiters, owed, unanswered>>

ReceiveBlocks(t) ==
  /\ msg_queue[t] = <<>> /\ msg_waiters[t] = <<>>
  /\ k' = thread_yield_higher(sched_set_status(k, t, "RECEIVE_BLOCKED"))
  /\ wait_data' = [wait_data EXCEPT ![t] = NoMsg]
  /\ ipc' = [ipc EXCEPT ![t] = "receive"]
  /\ UNCHANGED <<msg_queue, msg_waiters, owed, unanswered>>

(* msg_try_receive returns -1, which ends the loop of thread_flags.h. *)
ReceiveFails(t) ==
  /\ msg_queue[t] = <<>> /\ msg_waiters[t] = <<>>
  /\ ipc' = [ipc EXCEPT ![t] = "out"]
  /\ UNCHANGED <<k, wait_data, msg_queue, msg_waiters, owed, unanswered>>

msg_receive(t, block) ==
  /\ \/ ReceiveQueued(t)
     \/ ReceiveFromWaiter(t)
     \/ block /\ ReceiveBlocks(t)
     \/ ~block /\ ReceiveFails(t)
  /\ UNCHANGED <<flags, call, queue_size>>

(***************************************************************************)
(* msg_reply by thread t, and msg_reply_int by an interrupt handler t has  *)
(* left the answer to.                                                     *)
(***************************************************************************)
ReplyTo(m) == [sender |-> NoThread, id |-> m.id, kind |-> "reply"]

Reply(t, m, switch(_)) ==
  /\ unanswered' = [unanswered EXCEPT ![t] = @ \ {m}]
  /\ IF k.status[m.sender] # "REPLY_BLOCKED"
     THEN UNCHANGED <<k, wait_data>>
     ELSE /\ wait_data' = [wait_data EXCEPT ![m.sender] = ReplyTo(m)]
          /\ k' = switch(sched_set_status(k, m.sender, "PENDING"))
  /\ UNCHANGED <<flags, call, msg_queue, queue_size, msg_waiters, ipc, owed>>

msg_reply(t, m) == Reply(t, m, LAMBDA kk : sched_switch(kk, Prio[m.sender]))

msg_reply_int(t, m) == Reply(t, m, LAMBDA kk : [kk EXCEPT !.request = TRUE])

msg_init_queue(t) ==
  /\ queue_size[t] = 0
  /\ queue_size' = [queue_size EXCEPT ![t] = program.queue_size[t]]
  /\ UNCHANGED <<k, wait_data, flags, call, msg_queue, msg_waiters, ipc, owed, unanswered>>

(***************************************************************************)
(* A thread goes on after it has blocked: from msg_send, from              *)
(* msg_send_receive with the reply, from msg_receive with a message.  Its  *)
(* buffer is then no longer wait_data's.                                   *)
(***************************************************************************)
MsgReturns(t) ==
  /\ Executing(k, t)
  /\ ipc[t] \in {"send", "request", "receive"}
  /\ ipc' = [ipc EXCEPT ![t] = "out"]
  /\ wait_data' = [wait_data EXCEPT ![t] = NoMsg]
  /\ IF ipc[t] = "receive" THEN Received(t, wait_data[t]) ELSE UNCHANGED <<owed, unanswered>>
  /\ UNCHANGED <<k, flags, call, msg_queue, queue_size, msg_waiters>>

(***************************************************************************)
(* The loop thread_flags.h shows for waiting for flags and messages: wait  *)
(* for any flag, and on THREAD_FLAG_MSG_WAITING receive until there is     *)
(* nothing left.                                                           *)
(***************************************************************************)
LoopWaits(t) ==
  /\ "loop" \in Calls[t] /\ ipc[t] = "out" /\ call[t] = NoCall
  /\ thread_flags_wait(t, "any", Flags)
  /\ UNCHANGED ipcVars

LoopReturns(t) ==
  /\ wait_return(t)
  /\ ipc' = [ipc EXCEPT ![t] = IF THREAD_FLAG_MSG_WAITING \in flags[t] THEN "drain" ELSE @]
  /\ UNCHANGED <<msg_queue, queue_size, msg_waiters, owed, unanswered>>

LoopStep(t) ==
  /\ Executing(k, t)
  /\ \/ LoopWaits(t)
     \/ LoopReturns(t)
     \/ ipc[t] = "drain" /\ msg_receive(t, FALSE)

Idles(t) == Executing(k, t) /\ t # Idle /\ ipc[t] = "out" /\ call[t] = NoCall

Calling(t, name) == Idles(t) /\ name \in Calls[t]

MsgCall(t) ==
  \/ Calling(t, "init") /\ msg_init_queue(t)
  \/ Calling(t, "send") /\ \E u \in Targets[t] : msg_send(t, u, TRUE)
  \/ Calling(t, "try_send") /\ \E u \in Targets[t] : msg_send(t, u, FALSE)
  \/ Calling(t, "send_to_self") /\ msg_send_to_self(t)
  \/ Calling(t, "send_receive") /\ \E u \in Targets[t] : msg_send_receive(t, u)
  \/ Calling(t, "receive") /\ msg_receive(t, TRUE)
  \/ Calling(t, "serve") /\ unanswered[t] = {} /\ msg_receive(t, TRUE)
  \/ Calling(t, "try_receive") /\ msg_receive(t, FALSE)
  \/ Idles(t) /\ \E m \in unanswered[t] : msg_reply(t, m)
  \/ Idles(t) /\ (Sleep(t) \/ Yield(t)) /\ UNCHANGED msgVars

MsgIsr ==
  /\ InIsr(k)
  /\ \/ \E t \in program.isr_targets : msg_send_int(t)
     \/ \E t \in Threads : \E m \in unanswered[t] : msg_reply_int(t, m)
     \/ \E t \in Threads : Wakeup(t) /\ UNCHANGED msgVars

MsgNext ==
  /\ \/ \E t \in Threads : MsgCall(t) \/ MsgReturns(t) \/ LoopStep(t)
     \/ MsgIsr
     \/ Trap /\ UNCHANGED msgVars
  /\ UNCHANGED program

MsgSpec == MsgInit /\ [][MsgNext]_<<allVars, program>>

(***************************************************************************)
(* Fairness: CpuFairness, and a thread that gets the CPU again and again   *)
(* returns from the call it is in, receives when it is a server ("serve":  *)
(* it answers before it receives again), answers the requests it has, and  *)
(* as a server is woken when it sleeps.                                    *)
(***************************************************************************)
Serves(t) ==
  IF unanswered[t] # {}
  THEN Idles(t) /\ \E m \in unanswered[t] : msg_reply(t, m)
  ELSE Calling(t, "serve") /\ msg_receive(t, TRUE)

MsgFairness ==
  /\ CpuFairness
  /\ SF_allVars(InIsr(k) /\ \E t \in Threads :
                  "serve" \in Calls[t] /\ Wakeup(t) /\ UNCHANGED msgVars)
  /\ \A t \in Threads \ {Idle} : SF_allVars(MsgReturns(t) \/ Serves(t))

MsgFairSpec == MsgSpec /\ MsgFairness

-----------------------------------------------------------------------------
(* Every variable has its type. *)
MsgTypeOK ==
  /\ k \in Kernel /\ program \in Programs
  /\ \A t \in Threads : IF k.status[t] \in {"FLAG_BLOCKED_ANY", "FLAG_BLOCKED_ALL"}
                       THEN wait_data[t] \in SUBSET Flags
                       ELSE ipc[t] \in {"send", "request", "receive"} => wait_data[t] \in Message
  /\ flags \in [Threads -> SUBSET Flags]
  /\ \A t \in Threads : Range(msg_queue[t]) \cup Range(owed[t]) \cup unanswered[t] \subseteq Message
  /\ msg_waiters \in [Threads -> Seq(Threads)]
  /\ queue_size \in [Threads -> Nat]
  /\ ipc \in [Threads -> {"out", "send", "request", "receive", "drain"}]

(* What has been accepted for t, where it is: in the buffer t was woken    *)
(* with, in its queue, in the buffers of the threads that wait.            *)
Holding(t) ==
  (IF ipc[t] = "receive" /\ k.status[t] # "RECEIVE_BLOCKED" THEN <<wait_data[t]>> ELSE <<>>)
    \o msg_queue[t]
    \o [i \in DOMAIN msg_waiters[t] |-> wait_data[msg_waiters[t][i]]]

From(s, msgs) == SelectSeq(msgs, LAMBDA m : m.sender = s)

(* A message that was accepted is received exactly once, and the messages  *)
(* of one sender in the order they were sent, whichever of the three ways  *)
(* each of them takes (core/msg.c): after every reception, what t still    *)
(* has to receive from a sender is what it holds from that sender, and in  *)
(* the same order.                                                         *)
DeliveredOnceInOrder ==
  \A t \in Threads, s \in Threads \cup {KERNEL_PID_ISR} :
    From(s, owed[t]) = From(s, Holding(t))

(* Nobody waits in msg_receive beside a message: the receiver is           *)
(* RECEIVE_BLOCKED only with an empty queue and no waiting sender, so that *)
(* a message handed over directly overtakes none.                          *)
NoStrandedMessage ==
  /\ MsgTypeOK
  /\ \A t \in Threads : k.status[t] = "RECEIVE_BLOCKED" =>
       msg_queue[t] = <<>> /\ msg_waiters[t] = <<>>

(* Requests and replies match: a REPLY_BLOCKED thread's request is in      *)
(* exactly one place, on its way or with the thread that has to answer it, *)
(* and a request that can still be answered is that of a thread that waits *)
(* for just this answer.  So no requester is forgotten, and none gets the  *)
(* reply to an older request; one that goes on has a reply in its buffer.  *)
RequestsAndRepliesMatch ==
  /\ \A t \in Threads : IsRequest(k, t) =>
       /\ wait_data[t].kind = "request"
       /\ Cardinality({u \in Threads : wait_data[t] \in Range(Holding(u))})
            + Cardinality({u \in Threads : wait_data[t] \in unanswered[u]}) = 1
  /\ \A u \in Threads : \A m \in Range(Holding(u)) \cup unanswered[u] :
       m.kind = "request" => IsRequest(k, m.sender) /\ wait_data[m.sender] = m
  /\ \A t \in Threads : Executing(k, t) /\ ipc[t] = "request" => wait_data[t].kind = "reply"

(* A thread in the loop of thread_flags.h never waits for flags while a    *)
(* message it could receive is there: THREAD_FLAG_MSG_WAITING is set for   *)
(* every message that does not find it in msg_receive.                     *)
LoopMissesNoMessage ==
  \A t \in Threads : k.status[t] = "FLAG_BLOCKED_ANY" => Holding(t) = <<>>

AsksServers(t) == \A u \in Targets[t] : u \in Threads /\ "serve" \in Calls[u]

HigherExecutes(t) ==
  \E u \in Threads : Executing(k, u) /\ \E v \in {t} \cup (Targets[t] \ Absent) : Prio[u] < Prio[v]

(* Every request is answered in the end, when its targets answer each      *)
(* before they receive the next, unless a thread more important than the   *)
(* requester or than a target executes again and again.                    *)
EveryRequestIsAnswered ==
  \A t \in Threads :
    \/ ~AsksServers(t)
    \/ []<>HigherExecutes(t)
    \/ ipc[t] = "request" ~> ipc[t] = "out"
=============================================================================

------------------------------- MODULE MCMsg -------------------------------
(* a above b and c, which share a priority.                                *)
EXTENDS Msg

CONSTANTS idle, a, b, c, ghost

MCThreadSet == {idle, a, b, c}

MCPrio == [t \in MCThreadSet |-> CASE t = idle -> 2 [] t = a -> 0 [] OTHER -> 1]

Only(t, n) == [u \in MCThreadSet |-> IF u = t THEN n ELSE 0]

ToServer == [t \in MCThreadSet |-> IF t \in {a, c} THEN {b} ELSE {}]

(* b serves with a queue of two, a and c use it, and so do interrupt       *)
(* handlers.                                                               *)
Server ==
  [calls |-> [t \in MCThreadSet |->
                CASE t = a -> {"send", "send_receive"}
                  [] t = b -> {"init", "receive", "try_receive", "send_to_self"}
                  [] t = c -> {"send", "try_send", "send_receive"}
                  [] OTHER -> {}],
   targets |-> ToServer, queue_size |-> Only(b, 2), isr_targets |-> {b},
   thread_flags |-> FALSE]

(* The three send to each other.                                           *)
Peers ==
  [calls |-> [t \in MCThreadSet |-> IF t = idle THEN {} ELSE {"send", "send_receive", "receive"}],
   targets |-> [t \in MCThreadSet |-> IF t = idle THEN {} ELSE {a, b, c} \ {t}],
   queue_size |-> Only(b, 1), isr_targets |-> {}, thread_flags |-> FALSE]

(* a runs the loop of thread_flags.h; b asks it, c sends to it and to a    *)
(* thread that does not exist.                                             *)
Loop ==
  [calls |-> [t \in MCThreadSet |->
                CASE t = a -> {"init", "loop"} [] t = b -> {"send_receive"}
                  [] t = c -> {"send", "try_send"} [] OTHER -> {}],
   targets |-> [t \in MCThreadSet |->
                  CASE t = b -> {a} [] t = c -> {a, ghost} [] OTHER -> {}],
   queue_size |-> Only(a, 1), isr_targets |-> {a}, thread_flags |-> TRUE]

(* Clients of b that only ask.                                             *)
Ask ==
  [calls |-> [t \in MCThreadSet |->
                CASE t \in {a, c} -> {"send_receive"} [] t = b -> {"serve", "init"}
                  [] OTHER -> {}],
   targets |-> ToServer, queue_size |-> Only(b, 1), isr_targets |-> {},
   thread_flags |-> FALSE]

MCPrograms == {Server, Peers, Loop, Ask}
=============================================================================

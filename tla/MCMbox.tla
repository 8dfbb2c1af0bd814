------------------------------- MODULE MCMbox -------------------------------
(* A thread a above two threads b and c.                                   *)
EXTENDS Mbox

CONSTANTS idle, a, b, c

MCThreadSet == {idle, a, b, c}

MCPrio == [t \in MCThreadSet |-> CASE t = idle -> 2 [] t = a -> 0 [] OTHER -> 1]

(* Nobody blocks to write: a thread and interrupt handlers try to put.     *)
Tries == [size |-> 2, writers |-> {}, try_writers |-> {b}, readers |-> {a, b, c},
          isr_puts |-> TRUE]

(* One blocking writer, more important than the readers, is the only one   *)
(* that puts.                                                              *)
OneWriter == [size |-> 1, writers |-> {a}, try_writers |-> {}, readers |-> {b, c},
              isr_puts |-> FALSE]

(* A blocking writer and interrupt handlers put.                           *)
Racing == [size |-> 1, writers |-> {b}, try_writers |-> {}, readers |-> {c},
           isr_puts |-> TRUE]

(* A blocking writer less important than the reader it writes to.          *)
Late == [size |-> 1, writers |-> {b}, try_writers |-> {}, readers |-> {a},
         isr_puts |-> FALSE]

(* Two blocking writers, one above the reader and one beside it.           *)
Rivals == [size |-> 1, writers |-> {a, b}, try_writers |-> {}, readers |-> {c},
           isr_puts |-> FALSE]

MCAll == {Tries, OneWriter, Racing, Late, Rivals}

MCRacing == {Racing}

MCLate == {Late}
=============================================================================

----------------------------- MODULE MCThreads -----------------------------
EXTENDS Threads

CONSTANTS idle, main, a, b, c

MCThreadSet == {idle, main, a, b, c}

(* Three workers of one priority below main, above idle. *)
MCPrio == idle :> 2 @@ main :> 0 @@ a :> 1 @@ b :> 1 @@ c :> 1
=============================================================================

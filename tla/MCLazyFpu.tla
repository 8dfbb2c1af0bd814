----------------------------- MODULE MCLazyFpu -----------------------------
EXTENDS LazyFpu

CONSTANTS idle, main, a, b, cm, ca, cb

MCThreadSet == {idle, main, a, b}
MCPrio == idle :> 1 @@ main :> 0 @@ a :> 0 @@ b :> 0

(* Each thread control block has its own context, or none is passed. *)
MCOwn == idle :> {} @@ main :> {cm} @@ a :> {ca, NoContext} @@ b :> {cb}
=============================================================================

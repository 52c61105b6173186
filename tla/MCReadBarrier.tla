--------------------------- MODULE MCReadBarrier ---------------------------
(* ReadBarrier on small instances: three calls of which two share a        *)
(* context, and two calls of one context (two Gets of one key).             *)
EXTENDS ReadBarrier, TLC

CONSTANTS r1, r2, r3, c1, c2

\* Three calls, the first two with the same context.
MCThree == {r1, r2, r3}
MCTwoContexts == {c1, c2}
MCMixedCtx == (r1 :> c1) @@ (r2 :> c1) @@ (r3 :> c2)

\* Two calls of one context.
MCPair == {r1, r2}
MCOneContext == {c1}
MCSameCtx == [r \in MCPair |-> c1]

=============================================================================

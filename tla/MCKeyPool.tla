------------------------------ MODULE MCKeyPool ------------------------------
(* Small instances of KeyPool for TLC. *)
EXTENDS KeyPool, TLC

CONSTANTS k1, k2

TwoKeys == << k1, k2 >>
ApiOnly == [ k \in Key |-> "api" ]

\* Unbound requests; one that changes keys still asks without the failed one.
AnyKey == { Key }

Symmetry == Permutations(Request)

\* coolingCount is compared for token_plan keys only (Escalates): in a pool without
\* any, states that differ in nothing else go on alike.
Uncounted == << [ k \in Key |-> [ key[k] EXCEPT !.coolingCount = 0 ] ], breaker, req, seen >>
=============================================================================

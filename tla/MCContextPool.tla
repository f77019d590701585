---------------------------- MODULE MCContextPool ----------------------------
(* A small instance of ContextPool for TLC: some counts start at 0, some above, *)
(* some below.                                                               *)
EXTENDS ContextPool, TLC

CONSTANTS Above, Below   \* contexts whose count starts at 1, at -1

MCInitialRefs ==
    [c \in Contexts |-> IF c \in Above THEN 1 ELSE IF c \in Below THEN -1 ELSE 0]

\* Bound: a context that is recycled while it is used may be in the free list, in the
\* queue and in the completion port any number of times; it goes so far here.
MaxUses == 1
BelowIsBounded ==
    \A c \in Below :
        /\ queued[c] + port[c] <= MaxUses
        /\ Cardinality({n \in DOMAIN freeList : freeList[n] = c}) <= MaxUses

PoolSymmetry == Permutations(Workers)

=============================================================================

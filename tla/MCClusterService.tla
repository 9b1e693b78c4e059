--------------------------- MODULE MCClusterService ---------------------------
(***************************************************************************)
(* ClusterService for TLC.                                                 *)
(***************************************************************************)
EXTENDS ClusterService

CONSTANTS a, b, c, d, k1, k2

\* One virtual node each, in the order a, b, c, d around the ring.
MCPlacement4 == (a :> {1}) @@ (b :> {2}) @@ (c :> {3}) @@ (d :> {4})

\* The keys look clockwise from before a, and from between b and c.
MCKeyHash2 == (k1 :> 0) @@ (k2 :> 2)
MCKeyHash1 == k1 :> 0

Nothing == [e \in Limited |-> 0]

MCPlacement3 == (a :> {1}) @@ (b :> {2}) @@ (c :> {3})

BudgetSettled ==
    [Nothing EXCEPT !["put"] = 2, !["get"] = 1, !["delete"] = 1, !["add"] = 1, !["remove"] = 2]
BudgetOverlap == [Nothing EXCEPT !["put"] = 3, !["add"] = 1, !["remove"] = 1]
BudgetFailover ==
    [Nothing EXCEPT !["put"] = 3, !["get"] = 1, !["ping"] = 2, !["expire"] = 2, !["crash"] = 1]
BudgetFaults ==
    [Nothing EXCEPT !["put"] = 1, !["get"] = 1, !["remove"] = 1, !["crash"] = 1,
                    !["fault"] = 1, !["evict"] = 1]

\* The counterexamples.
BudgetDelete    == [Nothing EXCEPT !["put"] = 1, !["get"] = 1, !["delete"] = 1]
BudgetOverwrite == [Nothing EXCEPT !["put"] = 2, !["add"] = 1]

=============================================================================

------------------------------- MODULE MCScripts -------------------------------
(***************************************************************************)
(* Scripts for TLC.                                                        *)
(***************************************************************************)
EXTENDS Scripts

CONSTANTS a, b, c, k1, k2, k3, v1, v2, v3, v4

\* One virtual node each (the scripts that verify use replicas=1), and a key to
\* look clockwise from each of the gaps: k1 before a, k2 before b, k3 before c.
MCPlacement == (a :> {1}) @@ (b :> {2}) @@ (c :> {3})
MCKeyHash   == (k1 :> 0) @@ (k2 :> 1) @@ (k3 :> 2)
MCData      == (k1 :> v1) @@ (k2 :> v2) @@ (k3 :> v3)

\* As often as the longest script needs each call.
BudgetScripts ==
    [[e \in Limited |-> 0] EXCEPT !["put"] = 3, !["get"] = 3, !["add"] = 1, !["remove"] = 1]

=============================================================================

----------------------------- MODULE MCPayments -----------------------------
(* An order with two shipments, the freight of one of them, one request and   *)
(* one batch over both shipments.                                             *)
EXTENDS Payments, TLC

CONSTANTS o, p, q, f, r, b, g, l1, l2, l3, l4, m1, x1, x2, unknown

MCOrderOf == (p :> o) @@ (q :> o)
MCCaseOf == (l1 :> r) @@ (l2 :> b) @@ (l3 :> b) @@ (l4 :> g)
MCSourceOf == (l1 :> p) @@ (l2 :> p) @@ (l3 :> q) @@ (l4 :> o)
MCFirstDue == (o :> {1}) @@ (p :> {2}) @@ (q :> {1}) @@ (f :> {0, 1, unknown})

Symmetric == Permutations({x1, x2})
=============================================================================

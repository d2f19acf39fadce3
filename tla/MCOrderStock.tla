---------------------------- MODULE MCOrderStock ----------------------------
(* Instances of OrderStock: three submissions, two of them the same        *)
(* checkout, over one or two products.                                     *)
EXTENDS OrderStock, TLC

CONSTANTS a1, a2, a3, p1, p2, k1

\* a2 is a retry of a1; a3 is somebody else after the same unit.
RetryKey == (a1 :> k1) @@ (a2 :> k1) @@ (a3 :> NoKey)
OneEach == [a \in Attempts |-> [p \in Products |-> 1]]
\* a3 wants only the first product.
Mixed == (a1 :> (p1 :> 1 @@ p2 :> 1)) @@ (a2 :> (p1 :> 1 @@ p2 :> 1))
           @@ (a3 :> (p1 :> 1 @@ p2 :> 0))
LastUnit == [p \in Products |-> 1]
=============================================================================

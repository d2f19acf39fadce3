----------------------------- MODULE MCReceiving -----------------------------
(* Instances of Receiving: orders of two positions.                         *)
EXTENDS Receiving, TLC

CONSTANTS i1, i2, shirt, mug, S, M

New(name, label) == [name |-> name, label |-> label, link |-> NoProduct]
Restock(name, label) == [name |-> name, label |-> label, link |-> 1]

\* One product bought on two lines, a product restocked in a variant the shop
\* has, and a line that makes the product and the variant.
Plain == (i1 :> New(shirt, NoLabel)) @@ (i2 :> New(shirt, NoLabel))
Known2 == (i1 :> Restock(shirt, S)) @@ (i2 :> New(mug, NoLabel))
Sized == (i1 :> New(shirt, S)) @@ (i2 :> New(mug, M))
\* The same shirt in two sizes.
Sizes2 == (i1 :> New(shirt, S)) @@ (i2 :> New(shirt, M))

Four == {Plain, Known2, Sized, Sizes2}
HasS == {<<1, S>>}

AnyRun == Permutations(Runs)
=============================================================================

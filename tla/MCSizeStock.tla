---------------------------- MODULE MCSizeStock ----------------------------
EXTENDS SizeStock, TLC

CONSTANTS o1, o2, o3, o4, small, large

Both == {small, large}
Four == {o1, o2, o3, o4}

Line(s, l, n) == (small :> s) @@ (large :> l) @@ (NoSize :> n)

\* Two orders of one size, one of the other and one of both that also names
\* no size.
FourOrders == (o1 :> Line(1, 0, 0)) @@ (o2 :> Line(2, 0, 0))
           @@ (o3 :> Line(0, 1, 0)) @@ (o4 :> Line(0, 1, 1))

Arrivals == {Line(2, 0, 0), Line(1, 1, 0), Line(0, 0, 2)}
=============================================================================

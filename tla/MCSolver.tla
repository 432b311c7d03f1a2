------------------------------ MODULE MCSolver ------------------------------
(* An instance of Solver: eight nodes on either side in two rows, and eight     *)
(* edges. In most graphs one or two of them end among the corners of a square, in  *)
(* one row or in both, and may make cycles of two and of four edges with the    *)
(* others; one graph has a cycle of six, for which there is no room.            *)
EXTENDS Solver

End(x, y) == [u |-> x, v |-> y]
Square(s, a, b) ==
  0 :> End(2, 2) @@ 1 :> End(a[1], a[2]) @@ 2 :> End(s, 1) @@ 3 :> End(b[1], b[2])
  @@ 4 :> End(s, s) @@ 5 :> End(2, s) @@ 6 :> End(1, 1) @@ 7 :> End(0, 5)
Squares ==
  {Square(7, a, b) : a \in {2, 7} \X {2, 7}, b \in {<<7, 7>>, <<0, 1>>}}
  \cup {Square(3, a, <<3, 2>>) : a \in {<<2, 3>>, <<3, 2>>}}
Hexagon ==
  0 :> End(0, 0) @@ 1 :> End(0, 4) @@ 2 :> End(4, 4) @@ 3 :> End(4, 1) @@ 4 :> End(1, 1)
  @@ 5 :> End(1, 0) @@ 6 :> End(5, 0) @@ 7 :> End(5, 6)
Family == Squares \cup {Hexagon}
=============================================================================

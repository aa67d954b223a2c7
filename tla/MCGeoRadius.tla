----------------------------- MODULE MCGeoRadius ------------------------------
(***************************************************************************)
(* An instance of GeoRadius on a grid: points at 0, 3, 4 and 5 units along *)
(* the axes and 3-4-5 triangles for the boundary, with and without a       *)
(* tolerance, and one location on a line among those of the plane.         *)
(***************************************************************************)
EXTENDS GeoRadius

At(x, y, tol) == [location |-> <<x, y>>, tol |-> tol]

MCEntries ==
  {At(0, 0, 0), At(5, 0, 0), At(5, 0, 1), At(3, 4, 0), At(-3, 4, 1), At(4, 4, 2), At(-4, -3, 0),
   At(6, 0, 2), [location |-> <<1>>, tol |-> 1]}

MCPoints == {<<0, 0>>, <<1, 0>>, <<0, -4>>}
=============================================================================

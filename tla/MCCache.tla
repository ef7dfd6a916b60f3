------------------------------ MODULE MCCache ------------------------------
(* The cache simulator on short traces, and on those of the transposes.    *)
EXTENDS Transpose

\* Two sets of two lines, and one set of three.
MCGeometries == {Geometry(2, 2, 2), Geometry(1, 3, 1)}
=============================================================================

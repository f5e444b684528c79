-------------------------- MODULE MCCosimEndpoint --------------------------
(***************************************************************************)
(* Model-checking instance of CosimEndpoint: two values for a half, the    *)
(* pattern made of ones, and the guest's accesses: those the endpoint      *)
(* serves as memory, or all that libvfio-user lets through.                *)
(***************************************************************************)
EXTENDS CosimEndpoint

MCVals    == {0, 1}
MCPattern == <<1, 1>>
AsMemory  == {a \in Access : Served(a)}
Anything  == Access
=============================================================================

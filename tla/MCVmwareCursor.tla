--------------------------- MODULE MCVmwareCursor ---------------------------
(* Values of the constants of VmwareCursor for TLC.                        *)
EXTENDS VmwareCursor

MCXs == {0, 1}
MCYs == {0, 1}

(* Nothing, a corner, an edge.                                             *)
MCRegions ==
  { [x |-> {}, y |-> {}], [x |-> {1}, y |-> {1}], [x |-> {0, 1}, y |-> {0}] }
=============================================================================

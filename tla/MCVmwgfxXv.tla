----------------------------- MODULE MCVmwgfxXv -----------------------------
(* A small and a high definition image, either of which may be cropped or  *)
(* read beyond.  The two adaptors share no state: a server has one or the  *)
(* other.                                                                  *)
EXTENDS VmwgfxXv

MCImages == { [format |-> "YV12", width |-> 5, height |-> 3],
              [format |-> "YUY2", width |-> 1280, height |-> 720] }

MCSources == { [width |-> 5, height |-> 3], [width |-> 1280, height |-> 720] }

MCHosts == { [accelerated |-> TRUE, hosted |-> TRUE],
             [accelerated |-> FALSE, hosted |-> FALSE] }
=============================================================================

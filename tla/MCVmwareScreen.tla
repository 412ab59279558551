--------------------------- MODULE MCVmwareScreen ---------------------------
(* Modes of one, two and three framebuffers of 64 bytes, in VRAM of four.  *)
(* A topology of two outputs is as large as the second; one is too large   *)
(* for the device.                                                         *)
EXTENDS VmwareScreen

MCCapabilities == { {"multimon"}, {"multimon", "topology"} }

MCMaxSize == <<8, 24>>
MCMinInitial == <<8, 8>>

MCFormats == { [depth |-> 32, bpp |-> 32], [depth |-> 16, bpp |-> 16] }
MCDepthOptions == { NoOption, [depth |-> 15, bpp |-> 16] }
MCDefaultModes == {}
MCRequested == {<<8, 24>>}

MCLayouts == { <<Rect(0, 0, 8, 8), Rect(0, 8, 8, 8)>>,
               <<Rect(0, 0, 8, 32)>> }

MCGuiLayouts == {NoOption, <<8, "x", 8, "+", 0, "+", 0, ";">>}

(* 48 and 140 bytes: the second fits beside the first mode only.           *)
MCImages == { [format |-> "YV12", width |-> 5, height |-> 3],
              [format |-> "UYVY", width |-> 10, height |-> 7] }
=============================================================================

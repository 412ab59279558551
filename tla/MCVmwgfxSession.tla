-------------------------- MODULE MCVmwgfxSession --------------------------
(* Three sizes, the last larger than display memory; every fault but a     *)
(* kernel that does not tell its version.                                  *)
EXTENDS VmwgfxSession

MCFaults == ({Steps[n] : n \in DOMAIN Steps} \ {"drm_get_version"})
              \cup {"update_layout", "set_master", "drop_master", "set_modes",
                    "modify_pixmap", "hosted_screen_init"}

MCFirstSize == <<2, 2>>
MCSizes == {<<2, 2>>, <<3, 2>>, <<3, 3>>}
=============================================================================

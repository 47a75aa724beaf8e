------------------------------- MODULE MCBoot -------------------------------
(* The two slots of the code, rolled back at the third failure. *)
EXTENDS Boot
CONSTANTS rootfs_a, rootfs_b
BothSlots == {rootfs_a, rootfs_b}
=============================================================================

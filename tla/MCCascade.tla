----------------------------- MODULE MCCascade ------------------------------
(* A small instance of Cascade: three cameras on a host for two, one zone.     *)
(* Cameras are interchangeable.                                                *)
EXTENDS Cascade, TLC
CONSTANTS cam1, cam2, cam3, hall
Cameras == {cam1, cam2, cam3}
AnyCamera == Permutations(Cameras)
OneZone == {hall}
MCFindings == {{"adult", "indeterminate"}}
MCOrigins == {0, 1}
=============================================================================

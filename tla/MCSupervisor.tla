---------------------------- MODULE MCSupervisor ----------------------------
(* The supervisor with the dependencies of the code, and a fifth unit above    *)
(* the bridge: losing the egress filter then takes two rounds of _stop_orphans. *)
EXTENDS Supervisor
CONSTANTS control_plane, egress_filter, bridge, sealed_pipeline, above_bridge

FiveUnits == {control_plane, egress_filter, bridge, sealed_pipeline, above_bridge}
CodeDependencies ==
  [u \in FiveUnits |->
     IF u = control_plane THEN {}
     ELSE IF u = bridge THEN {control_plane, egress_filter}
     ELSE IF u = above_bridge THEN {bridge}
     ELSE {control_plane}]
=============================================================================

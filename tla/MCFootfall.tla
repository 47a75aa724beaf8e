----------------------------- MODULE MCFootfall -----------------------------
(* A small instance of Footfall: two cameras, two people who stand so close    *)
(* that their boxes match, and one who stands apart.                           *)
EXTENDS Footfall, TLC
CONSTANTS cam1, cam2
Cameras == {cam1, cam2}
AnyCamera == Permutations(Cameras)
Left  == [x |-> 0, w |-> 5]
Right == [x |-> 2, w |-> 5]
Apart == [x |-> 9, w |-> 5]
MCBox == {Left, Right, Apart}
MCFrame == {<<>>, <<Left>>, <<Left, Right>>, <<Right, Left>>, <<Right, Apart>>}
MCCanonFloor == [footfall |-> 1, dwell_time |-> 2]
NoFloors == [footfall |-> 0, dwell_time |-> 0]
Lowered == [footfall |-> 2, dwell_time |-> 1]
MCPolicyFloor == {NoFloors, Lowered}
MCOrigins == {0, 2}
=============================================================================

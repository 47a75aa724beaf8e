------------------------------- MODULE Zones -------------------------------
(***************************************************************************)
(* The zone half of the zone service (t1/control/zones.py): which zones    *)
(* exist, which of them are prohibited, and the zone a stream is mapped    *)
(* to.  A zone may be registered again at any time, with another tag.      *)
(* A legal basis is a yes or a no; the log of refusals is left out.        *)
(* A definition named for a fault is the wrong form of the one after it.   *)
(***************************************************************************)
CONSTANTS
  Stream,   \* stream_ids
  Zone,     \* zone_ids
  NoZone    \* a stream that is not mapped

ASSUME ZonesAssumption == NoZone \notin Zone

VARIABLES
  zones,        \* zone_id -> how it is registered
  stream_zone   \* stream_id -> zone_id

zone_vars == <<zones, stream_zone>>

ZonesInit ==
  /\ zones = [z \in Zone |-> "unregistered"]
  /\ stream_zone = [s \in Stream |-> NoZone]

\* register_zone, past validate(): a zone that is not prohibited states its basis
RegisterZone(z, prohibited, basis) ==
  /\ prohibited \/ basis
  /\ zones' = [zones EXCEPT ![z] = IF prohibited THEN "prohibited" ELSE "permitted"]
  /\ UNCHANGED stream_zone

\* map_stream; an unknown or prohibited zone is refused and nothing changes
MapStream(s, z) ==
  /\ zones[z] = "permitted"
  /\ stream_zone' = [stream_zone EXCEPT ![s] = z]
  /\ UNCHANGED zones

ZoneStep ==
  \/ \E z \in Zone, prohibited, basis \in BOOLEAN : RegisterZone(z, prohibited, basis)
  \/ \E s \in Stream, z \in Zone : MapStream(s, z)

\* allows: asked for every frame, of the zone as it is registered now
AllowsAsMapped(s) == stream_zone[s] # NoZone
Allows(s) == stream_zone[s] # NoZone /\ zones[stream_zone[s]] # "prohibited"

ZonesTyped ==
  /\ zones \in [Zone -> {"unregistered", "prohibited", "permitted"}]
  /\ stream_zone \in [Stream -> Zone \cup {NoZone}]
  /\ \A s \in Stream : stream_zone[s] # NoZone => zones[stream_zone[s]] # "unregistered"

=============================================================================

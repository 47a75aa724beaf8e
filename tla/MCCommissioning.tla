--------------------------- MODULE MCCommissioning ---------------------------
(***************************************************************************)
(* A visit with the six items that have a check, at an L1 and at an L2   *)
(* site, with one exception at a time, one fault and two releases of the   *)
(* model.  What the engineer may find is chosen at the boundaries of the   *)
(* checks: one answer away from a host or a path that is fine, the least   *)
(* stream that misses a threshold and the best that does.                  *)
(***************************************************************************)
EXTENDS Commissioning

MCGateOrder == <<"preflight", "camera_assessment", "identity", "age_gate", "notice",
                 "credentials">>

OneOff(fine, questions, answers) ==
  {fine} \cup {[fine EXCEPT ![q] = a] : q \in questions, a \in answers}

Host0 == [usable_ram_mb |-> 3481, answers |-> [c \in HostCheck |-> "yes"]]
Hosts ==
  {[Host0 EXCEPT !.usable_ram_mb = ram] : ram \in {3337, 3338, 3480}}
  \cup {[Host0 EXCEPT !.answers = a] :
          a \in OneOff(Host0.answers, Measurable \cup {"uefi", "accelerator_present"}, {"no"})
               \cup {[c \in HostCheck |-> IF c \in blind THEN "none" ELSE "yes"] :
                       blind \in SUBSET Measurable}}

Site0 == [power_stable |-> TRUE, network_reachable |-> TRUE, expected |-> {"cam1"},
          reachable |-> {"cam1"}, mounting_suitable |-> TRUE, in_time |-> TRUE]
Sites ==
  OneOff(Site0, {"power_stable", "network_reachable", "mounting_suitable", "in_time"}, {FALSE})
  \cup {[Site0 EXCEPT !.expected = c] : c \in {{}, {"cam1", "cam2"}}}

Stream0 ==
  [depression_degrees |-> 45, height_px |-> 1080, achieved_fps |-> 10, occlusion |-> 0,
   lens_clarity |-> 100, backlit |-> FALSE, ir_glare |-> FALSE]
\* No issue can be named of it, and it scores 59
Nameless == [depression_degrees |-> 20, height_px |-> 720, achieved_fps |-> 5, occlusion |-> 30,
             lens_clarity |-> 70, backlit |-> FALSE, ir_glare |-> FALSE]
Streams ==
  {Nameless} \cup
  {s \in [depression_degrees : {19, 45}, height_px : {719, 1080}, achieved_fps : {4, 10},
          occlusion : {0, 31}, lens_clarity : {69, 100}, backlit : BOOLEAN, ir_glare : BOOLEAN] :
     \/ Cardinality(StreamIssues(s)) <= 1
     \/ StreamIssues(s) \subseteq {"backlit", "lens_dirty", "ir_glare"}}
Cameras ==
  [streams : [{"cam1"} -> Streams], excluded : {{}}]
  \cup [streams : [{"cam1"} -> {Stream0}], excluded : {{"cam2"}}]

Path0 ==
  [answers |-> [q \in PathQuestion |-> IF q = "proxy_requires_auth" THEN "no" ELSE "yes"],
   proxy_credentials |-> FALSE]
Paths(e) ==
  {[Path0 EXCEPT !.answers = a] :
     a \in OneOff(Path0.answers, IF e = MQTT THEN {"pinned_root", "alpn"} ELSE PathQuestion,
                  Answer)}
Networks ==
  {[paths |-> [e \in Endpoint |-> Path0], inbound_rule_offered |-> TRUE]}
  \cup UNION {{[paths |-> [e \in Endpoint |-> IF e = f THEN path ELSE Path0],
               inbound_rule_offered |-> FALSE] : path \in Paths(f)} : f \in Endpoint}

MCObservations(item, site_of) ==
  CASE item = "preflight" -> IF site_of = "L1" THEN Hosts ELSE Sites
    [] item = "camera_assessment" -> Cameras
    [] item = "identity" -> Networks
    [] item = "notice" -> {[photo |-> p] : p \in BOOLEAN}
    [] item = "credentials" -> {[capabilities |-> c] : c \in {{"read"}, {"read", "stream", "ptz"}}}
    [] OTHER -> {[verified |-> TRUE]}

=============================================================================

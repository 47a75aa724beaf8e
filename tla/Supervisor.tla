----------------------------- MODULE Supervisor -----------------------------
(***************************************************************************)
(* The unit supervisor (t1/platform/supervisor.py): which of the four      *)
(* D-010 units run, why the others do not, and what goes down with a unit  *)
(* that is lost.  A Supervisor is immutable and every transition returns a *)
(* new one; `units` is the latest.  What activate() is handed (artifact,   *)
(* bytes, scopes, sandbox) is an offer: the answer to each of its checks.  *)
(* Versions are left out: no decision depends on one but being empty.      *)
(* A definition named for a fault is the wrong form of the one after it.   *)
(***************************************************************************)
EXTENDS Naturals, FiniteSets

CONSTANTS
  Unit,             \* D-010's units
  DEPENDENCIES,     \* unit -> the units it may not run without
  SEALED_PIPELINE   \* the unit that needs a sealed environment

ASSUME SupervisorAssumption ==
  /\ IsFiniteSet(Unit)
  /\ DEPENDENCIES \in [Unit -> SUBSET Unit]
  /\ SEALED_PIPELINE \in Unit

None == "none"
ActivationFinding ==
  {"version_unknown", "signature_invalid", "content_mismatch", "scope_exceeded",
   "dependency_not_running", "sealed_environment_unsealed"}

Status == [state : {"stopped", "running", "refused", "failed"},
           finding : ActivationFinding \cup {None, "dependency_lost", "health_lost"}]
Offer == [versioned : BOOLEAN, signed : BOOLEAN, covers : BOOLEAN, scoped : BOOLEAN,
          sealed : BOOLEAN]

VARIABLE units

RunningIn(us) == {u \in Unit : us[u].state = "running"}
Running == RunningIn(units)

Closed(S) == \A u \in S : DEPENDENCIES[u] \subseteq S

\* _refusal: the first check that fails names the refusal
Refusal(u, offer) ==
  IF ~offer.versioned THEN "version_unknown"
  ELSE IF ~offer.signed THEN "signature_invalid"
  ELSE IF ~offer.covers THEN "content_mismatch"
  ELSE IF ~offer.scoped THEN "scope_exceeded"
  ELSE IF ~(DEPENDENCIES[u] \subseteq Running) THEN "dependency_not_running"
  ELSE IF u = SEALED_PIPELINE /\ ~offer.sealed THEN "sealed_environment_unsealed"
  ELSE None

\* What _stop_orphans leaves running: the units that need nothing outside S
AllOrNothing(R) == IF Closed(R) THEN R ELSE {}
Kept(R) == UNION {S \in SUBSET R : Closed(S)}

\* _stop_orphans as it runs: rounds that drop every orphan of the round before
Orphans(R) == {u \in R : ~(DEPENDENCIES[u] \subseteq R)}
Rounds[R \in SUBSET Unit] == IF Orphans(R) = {} THEN R ELSE Rounds[R \ Orphans(R)]
OneRound(R) == R \ Orphans(R)
AfterLoop(R) == Rounds[R]

NothingStopped(us) == us
StopOrphans(us) ==
  [u \in Unit |-> IF u \in RunningIn(us) \ Kept(RunningIn(us))
                  THEN [state |-> "stopped", finding |-> "dependency_lost"]
                  ELSE us[u]]

With(u, status) == units' = StopOrphans([units EXCEPT ![u] = status])

----------------------------------------------------------------------------
UnitsInit == units = [u \in Unit |-> [state |-> "stopped", finding |-> None]]

\* activate: a unit that was running is replaced, or refused and so taken down
Activate(u, offer) ==
  LET finding == Refusal(u, offer) IN
    With(u, [state |-> IF finding = None THEN "running" ELSE "refused", finding |-> finding])

\* report_health(unit, healthy=False)
LoseHealth(u) == With(u, [state |-> "failed", finding |-> "health_lost"])

UnitsNext == \E u \in Unit : \/ \E offer \in Offer : Activate(u, offer)
                        \/ LoseHealth(u)

UnitsSpec == UnitsInit /\ [][UnitsNext]_units

----------------------------------------------------------------------------
(***************************************************************************)
(* Properties                                                              *)
(***************************************************************************)

\* Every unit has a status, and every unit that is down says why: a running unit
\* has no finding, and only a unit that never ran is stopped without one.
UnitsTypeOK ==
  /\ units \in [Unit -> Status]
  /\ \A u \in Unit :
       /\ units[u].state = "running" => units[u].finding = None
       /\ units[u].state = "refused" <=> units[u].finding \in ActivationFinding
       /\ units[u].state = "failed" <=> units[u].finding = "health_lost"

\* Supervision never fails open (supervisor.py:247): whatever is activated,
\* replaced, refused or lost, a unit runs only while all it depends on runs.
\* The bridge never outlives the egress filter.
DependenciesRun == Closed(Running)

\* A transition touches one unit, and besides it stops only units that have lost
\* a dependency: the failure of a unit never takes down one that could go on
\* (the sealed pipeline keeps running without the bridge, F03 R4).
OnlyDependentsFollow ==
  [][\E u \in Unit : \A v \in Unit \ {u} :
        units'[v] # units[v] =>
          /\ units[v].state = "running"
          /\ units'[v] = [state |-> "stopped", finding |-> "dependency_lost"]
          /\ ~(DEPENDENCIES[v] \subseteq Running')]_units

\* Whichever running unit is lost, the loop of _stop_orphans ends, with the largest
\* set of the others that needs nothing outside it, however long the chain.
LoopKeepsTheMost == \A u \in Running : AfterLoop(Running \ {u}) = Kept(Running \ {u})

=============================================================================

SPECIFICATION UnitsSpec
CONSTANTS
  control_plane = control_plane
  egress_filter = egress_filter
  bridge = bridge
  sealed_pipeline = sealed_pipeline
  above_bridge = above_bridge
  Unit <- FiveUnits
  DEPENDENCIES <- CodeDependencies
  SEALED_PIPELINE = sealed_pipeline
INVARIANTS DependenciesRun LoopKeepsTheMost
PROPERTY OnlyDependentsFollow

SPECIFICATION Spec
CONSTANTS
  Handlers = {h1, h2}
  Loop = Loop
  Wrapper = Wrapper
  Worker = Worker
  Nobody = Nobody
  Limit = 2
  MaxGeneration = 2
  Kinds = {"lease", "reload", "plane", "restart", "relay", "cancel"}
  MaxEvents = 2
INVARIANTS TurnKept NoLostWakeup NoStaleRelay CancelTruth
PROPERTIES NoRevival
SYMMETRY Connections

SPECIFICATION Spec
CONSTANTS
  Handlers = {h1, h2}
  Loop = Loop
  Wrapper = Wrapper
  Worker = Worker
  Nobody = Nobody
  Limit = 2
  MaxGeneration = 2
  Kinds = {"reload"}
  MaxEvents = 1
INVARIANTS WireOrder

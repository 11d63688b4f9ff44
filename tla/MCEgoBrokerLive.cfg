SPECIFICATION Spec
CONSTANTS
  Handlers = {h1, h2}
  Loop = Loop
  Wrapper = Wrapper
  Worker = Worker
  Nobody = Nobody
  Limit = 2
  MaxGeneration = 1
  Kinds = {"disk", "permit", "outage", "session"}
  MaxEvents = 1
PROPERTIES ConnectionsEnd

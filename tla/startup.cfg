SPECIFICATION Spec
CONSTANTS
  Process = {api,worker1,worker2}
  ApiProcess = api
INVARIANTS
  ServesFullSchema
  ComposeStartsClean
  SchemaInv
PROPERTIES
  EveryoneServes

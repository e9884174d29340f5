SPECIFICATION Spec
CONSTANTS
  Receivers = {r1, r2}
  Consumer = consumer
  Nobody = nobody
  MaxMessages = 3
INVARIANTS TopicExact
PROPERTIES RacesOnlyAtFirst BurstsAreConsumed ShutdownCompletes

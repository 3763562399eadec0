CONSTANTS
  app = app
  o1 = o1
  o2 = o2
  Names <- MCNames
  App = app
  Objects <- MCObjects
  Behaviour <- MCBehaviour
  AppNames <- MCAppNames
  MayHide <- MCNames
  Calls <- MCCalls
  MaxCalls = 3
SPECIFICATION MCSpec
INVARIANTS TypeOK NoDanglingMethod LiveObjectServes MulticallEquivalent

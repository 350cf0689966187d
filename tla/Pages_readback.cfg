CONSTANTS
  Base = 16
  PAGE_SIZE = 56
  Nodes <- IndexNodes
  Tables <- SomeTables
SPECIFICATION Spec
INVARIANTS NodeSurvives SchemaReadBack OwnColumnsAccepted AcceptedMatch 
PROPERTY ReadEnds
CHECK_DEADLOCK FALSE

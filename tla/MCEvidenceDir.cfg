CONSTANTS
  Procs <- MCProcs
  MaxRuns <- MCMaxRuns
  Commands <- MCCommands
  Absent = Absent
  Torn = Torn
  NoDb2 = NoDb2
SPECIFICATION Spec
CHECK_DEADLOCK FALSE
INVARIANTS
  
  PacketIsOneWorkflow
PROPERTY ExitZeroPublishes

CONSTANTS
  boot = boot
  decide = decide
  fill = fill
  research = research
  live = live
  fileA = fileA
  fileB = fileB
  fileC = fileC
  NoFile = NoFile
  NoCommand = NoCommand
  Absent = Absent
  Report = Report
  Torn = Torn
  Nothing = Nothing
  Command = {boot, decide, fill, research, live}
  kindOf <- AllKinds
  File = {fileA, fileB, fileC}
  checkpointOf <- AllFiles
  runner1 = runner1
  Runner = {runner1}
  Production = {live}
  Faults = {"provider", "service", "write", "kill", "late"}
  MaxFaults = 2
  MaxCollects = 3
SPECIFICATION Spec
INVARIANTS
  TypeOK
  OutputsBacked
  CheckpointBacked
  OutputsMatchCheckpoint
  LossNeedsFault
PROPERTY CompletedWorkIsKept
CHECK_DEADLOCK FALSE

CONSTANTS
  boot = boot
  decide = decide
  fill = fill
  research = research
  live = live
  fileA = fileA
  fileB = fileB
  fileC = fileC
  NoFile = NoFile
  NoCommand = NoCommand
  Absent = Absent
  Report = Report
  Torn = Torn
  Nothing = Nothing
  Command = {research, decide}
  kindOf <- OwnKinds
  File = {fileA, fileC}
  checkpointOf <- OwnFiles
  runner1 = runner1
  Runner = {runner1}
  Production = {}
  Faults = {"kill"}
  MaxFaults = 1
  MaxCollects = 2
SPECIFICATION Spec
INVARIANT RowRecovered
CHECK_DEADLOCK FALSE

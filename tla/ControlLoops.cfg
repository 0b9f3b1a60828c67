CONSTANTS
  Specs <- EditedSpecs
  Schedule <- FirstOnly
  Grace = 1
  MaxCatchUp = 0
  Manuals = {m1}
  MaxMinute = 1
  MaxFaults = 1
  NoTask = NoTask
SPECIFICATION FairSpec
CHECK_DEADLOCK FALSE
INVARIANTS
  ForbidNeverStacks
  
PROPERTIES
  
  StrandedRunsRepaired

\* Two TUs of one component under every policy, one trial.
SPECIFICATION Spec
CONSTANTS
  Trials <- TrialsOfLuma
  Pictures <- SmallPictures
  MaxCalls = 1
CHECK_DEADLOCK FALSE
PROPERTIES
  StageByStage

CONSTANTS
  Videos = {1}
  Artifacts <- MCArtifacts
  Docs <- MCDocs
  StageNames = {"infer", "align"}
  Silent = 1
  None = None
  MaxLines = 2
  MaxClock = 1
INIT Init
NEXT Next
CHECK_DEADLOCK FALSE
INVARIANT TimingsAreFinal

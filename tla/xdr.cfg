CONSTANTS
  Scenarios <- ScenariosMain
  NoBreak = NoBreak
  SizeT <- MCSizeT
  Pid <- MCPid
SPECIFICATION Spec
INVARIANT ReadBack
INVARIANT NoStrayFiles

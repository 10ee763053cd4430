SPECIFICATION FairSpec
CONSTANTS
  Games = {g}
  NoGame = none
  MaxRows = 1
  MaxCommands = 1
  MaxFaults = 1
INVARIANTS PostedOnce AwakeWhileLive
PROPERTIES LaunchStands Ends
CHECK_DEADLOCK FALSE

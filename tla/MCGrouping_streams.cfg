SPECIFICATION Spec
CONSTANTS
  Traffics <- Ordinary
  Gap = 3
  LateWindow = 1
  MaxLines = 4
 
INVARIANT OneConversation
INVARIANT NoBridge
CHECK_DEADLOCK FALSE

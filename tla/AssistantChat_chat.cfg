SPECIFICATION FairSpec
CONSTANTS
  Modes = {"steer", "queue"}
  MaxMessages = 2
  MaxEvents = 3
  Env <- EnvChat
PROPERTIES ImplementsChannel ReceiptsHonest NothingLost ReadInTheEnd
CHECK_DEADLOCK FALSE

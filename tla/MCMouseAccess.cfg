CONSTANTS
  m1 = m1
  m2 = m2
  m3 = m3
  c1 = c1
  c2 = c2
  Devices <- MCDevices
  Callers <- MCCallers
  NoBinding = NoBinding
  MaxRev = 4
  Readers = {listen, status}
  Listener = listen
  Command = command
  None = None
  MaxReports = 2
  MaxAttempts = 3
  ResendDelay = 1
  SilenceDelay = 2
  ReadTimeout = 5
  MaxCommands = 2
  MaxRejections = 3
SPECIFICATION MCSpec
INVARIANTS TurnInv CallbacksSerialized WaitIsBounded ResendInv AcksNotShared
PROPERTIES StaleBindingStaysStale ImplementsSelection CommandProceeds ReadersReadmitted CommandReturns

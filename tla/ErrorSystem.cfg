\* Three calls on two registers in use, by every system and with registers of
\* either policy.  Each call is made once, so the instance stops: deadlock is
\* not an error.
SPECIFICATION FairSpec
CONSTANTS
  CallLimit = 3
  DirectLimit = 1
  Registers <- TheRegisters
  Requests <- TheRequests
  Workers = 2
  QueueCapacity = 2
INVARIANTS TypeOK AccessExclusive HandlerAlive OvertakesOnlyRunning
PROPERTIES ImplementsRegistry CallsEnd
CHECK_DEADLOCK FALSE

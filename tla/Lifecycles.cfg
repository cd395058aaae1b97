SPECIFICATION FairSpec
CONSTANTS
  U32Max = 63
  Attempts = 8
  Thread = {main, worker}
  LifeThread = {main}
  main = main
  worker = worker
  Configs <- MCConfigs
  QueueCap = 1
  MaxStarts = 2
  MaxConnects = 2
  MaxEvents = 1
  MaxRegisters = 2
INVARIANTS TypeOK GlobalsAgree ConfigSafe
PROPERTIES QuietAfterShutdown CallsReturn ConnectAnswered
CHECK_DEADLOCK FALSE

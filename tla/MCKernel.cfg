SPECIFICATION FairSpec
CONSTANTS
  Workers = {"h", "m", "l"}
  Idle = "idle"
  init_priority <- SomePriorities
  Booted = {"h", "l"}
  Nobody = "nobody"
  init_tick = 1
  TickMod = 8
  Times <- SomeTimes
  Uses <- SomeUses
  MaxHold = 2
  MaxNest = 2
  MaxSem = 1
INVARIANTS
  TypeOK
  ListsAgree
  RunsHighest
  SomeoneReady
  WokenOwns
  HeapExclusive
  InheritsPriority
  PriorityRestored
  TimersOnTime
PROPERTIES
  WaiterGetsMutex

SPECIFICATION FairSpec
CONSTANTS
  Threads = {t1, t2}
  Handlers = {h1}
  Slots = {s1, s2}
  Messages = {m1, m2}
  NoSlot = NoSlot
  NoMsg = NoMsg
INVARIANTS TypeOK SlotsConserved NoLostWakeup
PROPERTIES ImplementsQueue MessageReachesWaiter

SPECIFICATION Spec
CONSTANTS
  Mods = {"ctrl", "shift"}
  Keys = {1, 2}
  Caps <- SomeCaps
  key_changetable <- Swapped
  SmSize = 1
  MbAppSize = 1
PROPERTIES
  SendsToLiveMailbox

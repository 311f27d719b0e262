SPECIFICATION FairSpec
CONSTANTS
  Mods = {"ctrl", "shift"}
  Keys = {1, 2}
  Caps <- SomeCaps
  key_changetable <- Swapped
  SmSize = 1
  MbAppSize = 1
INVARIANTS
  TypeOK
  NothingStuck
  ReleasedMeansReset
  HotKeysAreHidden
  OnePassword
PROPERTIES
  HotKeyFires
  KeysAreReleased

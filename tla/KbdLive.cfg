SPECIFICATION FairSpec
CONSTANTS
  BUFFER_SIZE = 1
  Cpus = {c1, c2}
  Scancodes <- MCFewScancodes
  MaxRead = 1
  NoCpu = NoCpu
  Irq = Irq
PROPERTIES CallsReturn UnloadFinishes

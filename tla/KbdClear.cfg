SPECIFICATION Spec
CONSTANTS
  BUFFER_SIZE = 1
  Cpus = {c1}
  Scancodes <- MCFewScancodes
  MaxRead = 1
  NoCpu = NoCpu
  Irq = Irq
PROPERTY OnlyClearResets

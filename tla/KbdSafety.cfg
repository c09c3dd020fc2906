\* Two CPUs, a ring of two slots: full, empty and wrapped rings all occur.
SPECIFICATION Spec
CONSTANTS
  BUFFER_SIZE = 2
  Cpus = {c1, c2}
  Scancodes <- MCScancodes
  MaxRead = 2
  NoCpu = NoCpu
  Irq = Irq
SYMMETRY Symmetry
INVARIANTS TypeOK RingConsistent NoSelfDeadlock UnloadedIsClean
PROPERTY ImplementsLog

SPECIFICATION Spec
CONSTANTS
  Threads = {t1, t2}
  Items = {a, b}
  Default = Default
  Garbage = Garbage
  NoThread = NoThread
  Max = 3
INVARIANTS TypeOK
PROPERTIES ImplementsBoundedFifo

SPECIFICATION FairSpec
CONSTANTS
  Object = {o1}
  Thread = {t1, t2}
  Handle = {h1, h2, h3, h4}
  MaxConstructs = 2
  None = None
INVARIANTS
  IndInv
PROPERTIES
  ImplementsContract
  LockReleased
  CallReturns

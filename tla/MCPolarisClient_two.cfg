SPECIFICATION Spec
CONSTANTS
  Object = {o1, o2}
  Thread = {t1, t2}
  Handle = {h1, h2, h3, h4, h5}
  MaxConstructs = 1
  None = None
SYMMETRY Symmetry
INVARIANTS
  TypeOK
  OneApiPerContext
  NoUseAfterFree
  ContextOutlivesApis
  NothingLeaked
  NoDoubleFree
PROPERTIES
  PointerStable

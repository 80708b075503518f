SPECIFICATION Spec
CONSTANTS
  Object = {o1}
  Thread = {t1, t2}
  Handle = {h1, h2, h3, h4}
  MaxConstructs = 2
  None = None
SYMMETRY Symmetry
INVARIANT NothingLeaked

CONSTANTS
  t1 = t1
  t2 = t2
  t3 = t3
  NoThread = NoThread
  Nil = Nil
  Thread = {t1, t2, t3}
  object = object
  mirror = mirror
  int = int
  text = text
  seven = seven
  hashed = hashed
  Monitors = {object}
  Mirrors = {mirror}
  Primitives = {int}
  Literals = {text}
  SmallInts = {seven}
  Hashed = {hashed}
  HashNumbers = 16
  s1 = s1
  s2 = s2
  c1 = c1
  c2 = c2
  Site = {s1, s2}
  Class = {c1, c2}
  IcSlot <- MCIcSlot
  Method <- MCMethod
  Calls = 2
SPECIFICATION Spec
SYMMETRY Threads
INVARIANTS
  OneIdentity
  DispatchExact

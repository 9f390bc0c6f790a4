SPECIFICATION Spec
CONSTANTS
  old = old
  new = new
  link = link
  t1 = t1
  t2 = t2
  t3 = t3
  Files = {old, new}
  Aliases = {link}
  Target <- LinkToNew
  Words = {"x", "y"}
  Present = {old}
  Callers = {t1, t2}
  Readers = {}
  Requests <- AnyCalls
INVARIANT
  SameFileSerial
CHECK_DEADLOCK FALSE

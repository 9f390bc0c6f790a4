SPECIFICATION FairSpec
CONSTANTS
  old = old
  new = new
  link = link
  t1 = t1
  t2 = t2
  t3 = t3
  Files = {old, new}
  Aliases = {link}
  Target <- LinkToOld
  Words = {"x", "y"}
  Present = {old}
  Callers = {t1, t2, t3}
  Readers = {t1}
  Requests <- ThreeCallers
INVARIANTS
  SameFileSerial
PROPERTIES
  ImplementsAtomicFiles AnchorGuards CallsReturn
CHECK_DEADLOCK FALSE

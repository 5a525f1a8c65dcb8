SPECIFICATION Spec
CONSTANTS
  alice = alice
  bob = bob
  Users = {alice, bob}
  Dirs = {d1, d2, d3, d4}
  Files = {f1}
  Calls = {c1, c2}
  bobs = {d4}
  UserOf <- OwnerOf
  NameOf <- OneName
  Root = Root
  Nothing = Nothing
  Faults <- AllFaults
CONSTRAINT FewOverlaps
SYMMETRY AliceSymmetry
CHECK_DEADLOCK FALSE
INVARIANTS
  TypeOK
  TablesSound
  OneDeletionEvent
  ObjectForStream
  ContentsAreOwn
PROPERTIES
  ImplementsCatalog

CONSTANTS
  t1 = t1
  t2 = t2
  App <- MC_App
  GCThread = gcT
  NoOwner = NoOwner
SPECIFICATION Spec
INVARIANTS
  TypeOK
  MutualExclusion
PROPERTIES
  GCEnds

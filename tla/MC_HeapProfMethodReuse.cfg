CONSTANTS
  Ids <- MC_Ids
  Slots <- MC_Slots
  MethodIds <- MC_MethodIds
  Arenas <- MC_Arenas
  Threads <- MC_Threads
  ArrayKinds <- MC_ArrayKinds
  Names <- MC_Names
  MethodsOf <- MC_MethodsOf
  SizesOf <- MC_SizesOf
  PreObjs <- MC_PreObjs
  t1 = t1
  gcT = gcT
  cc = cc
  i1 = i1
  i2 = i2
  i3 = i3
  s1 = s1
  s2 = s2
  m0 = m0
  m1 = m1
  a1 = a1
  a2 = a2
  JClass = JClass
  Foo = Foo
  Bar = Bar
  INT = INT
  GCThread = gcT
  ClassClass = cc
  ClassName = JClass
  InitArena = a1
  NORMAL = NORMAL
  NoMethod = NoMethod
  NoCinfo = NoCinfo
  NoOwner = NoOwner
  NoReply = NoReply
  Unknown = Unknown
  Dangling = Dangling
  NoClassId = NoClassId
  MaxDepth = 1
  IntBits = 16
SYMMETRY MC_Symmetry
SPECIFICATION Spec
PROPERTIES
  ReportAccurate

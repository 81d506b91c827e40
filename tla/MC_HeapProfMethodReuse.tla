----------------------- MODULE MC_HeapProfMethodReuse -----------------------
(***************************************************************************)
(* HeapProfSystem with two application classes, Foo and Bar, whose         *)
(* CLASS_LOAD events carry the same method id m1: the JVM may hand the id  *)
(* of a method of an unloaded class to a method of a class loaded later.   *)
(***************************************************************************)
EXTENDS HeapProfSystem

CONSTANTS t1, gcT, cc, i1, i2, i3, s1, s2, m0, m1, a1, a2, JClass, Foo, Bar, INT

MC_Ids        == {cc, i1, i2, i3}
MC_Slots      == {s1, s2}
MC_MethodIds  == {m0, m1}
MC_Arenas     == {a1, a2}
MC_Threads    == {t1}
MC_ArrayKinds == {INT}
MC_Names      == {Foo, Bar}
MC_MethodsOf  == (JClass :> {}) @@ (Foo :> {m1}) @@ (Bar :> {m1})
MC_SizesOf    == (NORMAL :> {1}) @@ (INT :> {2})
MC_PreObjs    == {i1}

MC_Symmetry == Permutations(MC_Slots) \cup Permutations({i2, i3})
=============================================================================

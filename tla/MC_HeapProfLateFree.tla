------------------------- MODULE MC_HeapProfLateFree -------------------------
EXTENDS HeapProfLateFree

CONSTANTS t1, gcT, cc, i1, i2, i3, s1, s2, m0, m1, a1, a2, JClass, Foo, INT

MC_Ids == {cc, i1, i2, i3}
MC_Slots == {s1, s2}
MC_MethodIds == {m0, m1}
MC_Arenas == {a1, a2}
MC_Threads == {t1}
MC_ArrayKinds == {INT}
MC_Names == {Foo}
MC_MethodsOf == (JClass :> {}) @@ (Foo :> {m1})
MC_SizesOf == (NORMAL :> {1}) @@ (INT :> {2})
MC_PreObjs == {i1}
=============================================================================

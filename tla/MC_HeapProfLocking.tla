------------------------- MODULE MC_HeapProfLocking -------------------------
(***************************************************************************)
(* Two application threads and the GC thread.                              *)
(***************************************************************************)
EXTENDS HeapProfLocking

CONSTANTS t1, t2

MC_App == {t1, t2}
=============================================================================

-------------------------- MODULE HeapProfLateFree --------------------------
(***************************************************************************)
(* HeapProfSystem with the one ordering freedom JVMPI leaves the JVM that  *)
(* HeapProfSystem rules out: an object that dies in a collection need not  *)
(* be reported by OBJ_FREE before the collector moves another object into  *)
(* its id.  Die removes the object from the heap with no event; the        *)
(* OBJ_FREE for it comes later, within the same collection.  Move may then *)
(* target the id of an object that has died but is not yet reported.       *)
(***************************************************************************)
EXTENDS HeapProfSystem

VARIABLE dying   \* ids dead in the heap whose OBJ_FREE is still to come

lateVars == <<vars, dying>>

\* an object that is not a loaded class dies; its OBJ_FREE is delayed
Die(o) ==
  /\ gc
  /\ o \notin DOMAIN loaded
  /\ heap' = Drop(heap, o)
  /\ dying' = dying \cup {o}
  /\ UNCHANGED <<profVars, loaded, gc>>

\* the delayed OBJ_FREE of an id that died earlier in this collection
ReportFree(o) ==
  /\ o \in dying
  /\ o \notin Live
  /\ dying' = dying \ {o}
  /\ UNCHANGED jvmVars
  /\ ObjFree(o)

LateInit == Init /\ dying = {}

\* a collection does not finish while a free is still owed
LateNext ==
  \/ /\ Next
     /\ UNCHANGED dying
     /\ gc /\ ~gc' => dying = {}
  \/ \E o \in Live : Die(o)
  \/ \E o \in dying : ReportFree(o)

LateSpec == LateInit /\ [][LateNext]_lateVars

=============================================================================

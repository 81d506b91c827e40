--------------------------- MODULE HeapProfSystem ---------------------------
(***************************************************************************)
(* The profiler of HeapProf attached to a JVM that delivers the JVMPI      *)
(* events heapprof.c enables in JVM_OnLoad.                                *)
(*                                                                         *)
(* The JVM side is the contract the profiler relies on, not code of this   *)
(* repository: the live heap (object id -> kind, class, arena, size), the  *)
(* loaded classes (class object id -> name) and whether a collection is    *)
(* running.  Each JVM step changes the heap and delivers the event for it; *)
(* the handler runs to completion on the delivering thread in the same     *)
(* step, answering RequestEvent from the JVM's current state.  Application *)
(* threads allocate, load classes and enter or leave methods only while no *)
(* collection runs; OBJ_FREE, OBJ_MOVE, DELETE_ARENA and CLASS_UNLOAD come *)
(* from the GC thread between GC_START and GC_FINISH, every free reported  *)
(* as the object dies.                                                     *)
(*                                                                         *)
(* Objects live before the profiler attached were never announced          *)
(* (tracked = FALSE); the bootstrap class java.lang.Class, whose instances *)
(* the class objects are, is loaded before attach and never moves.         *)
(***************************************************************************)
EXTENDS HeapProf

CONSTANTS
  ClassClass,   \* id of the class object of java.lang.Class
  ClassName,    \* its name
  Names,        \* names of the classes application threads define
  MethodsOf,    \* class name -> the method ids a CLASS_LOAD of it carries
  SizesOf,      \* kind -> the sizes in bytes an object of that kind may have
  PreObjs,      \* ids of objects allocated before the profiler attached
  InitArena,    \* the arena holding the objects that exist at attach time
  NoClassId,    \* class_id of a primitive array
  MaxDepth      \* bound on the call depth of a thread

ASSUME ClassClass \in Ids /\ PreObjs \subseteq Ids \ {ClassClass}
ASSUME MethodsOf \in [Names \cup {ClassName} -> SUBSET MethodIds]
ASSUME MaxDepth \in Nat
ASSUME SizesOf \in [Kinds -> SUBSET (Nat \ {0})]

VARIABLES
  heap,     \* live object id -> [kind, cls, arena, size, label, tracked]
  loaded,   \* class object id -> class name, for every loaded class
  gc        \* a collection is running

jvmVars == <<heap, loaded, gc>>
vars == <<profVars, jvmVars>>

Live == DOMAIN heap
FreeIds == Ids \ Live
Tracked == {o \in Live : heap[o].tracked}
AppMethods == UNION {MethodsOf[loaded[c]] : c \in DOMAIN loaded}

\* the JVM's answer to RequestEvent(JVMPI_EVENT_CLASS_LOAD, c)
ClassReply(c) ==
  IF c \in DOMAIN loaded THEN [name |-> loaded[c], meths |-> MethodsOf[loaded[c]]]
  ELSE NoReply

\* the label of the method running in a frame: its current class and its
\* id, "???.???" outside any frame
TrueLabel(m) ==
  IF m = NoMethod THEN Unknown
  ELSE [cls |-> loaded[CHOOSE c \in DOMAIN loaded : m \in MethodsOf[loaded[c]]], name |-> m]

\* the name of the class an object belongs to, as the JVM knows it
TrueName(o) == IF heap[o].kind = NORMAL THEN loaded[heap[o].cls] ELSE heap[o].kind

(***************************************************************************)
(* Application-thread events, outside a collection.                        *)
(***************************************************************************)
\* OBJ_ALLOC for a new object of class c (NoClassId for an array)
Alloc(t, k, c, sz, o, a) ==
  /\ ~gc
  /\ heap' = Put(heap, o, [kind |-> k, cls |-> c, arena |-> a, size |-> sz,
                           label |-> TrueLabel(Top(t)), tracked |-> TRUE])
  /\ UNCHANGED <<loaded, gc>>
  /\ \E slot \in Slots : ObjAlloc(t, c, k, sz, o, a, FALSE, ClassReply(c), slot)

\* a new class object o for a class named n, then CLASS_LOAD with its methods
DefineClass(t, n, o, a) ==
  /\ ~gc
  /\ n \notin Range(loaded)
  /\ MethodsOf[n] \cap AppMethods = {}
  /\ heap' = Put(heap, o, [kind |-> NORMAL, cls |-> ClassClass, arena |-> a,
                           size |-> Min(SizesOf[NORMAL]), label |-> Unknown, tracked |-> FALSE])
  /\ loaded' = Put(loaded, o, n)
  /\ UNCHANGED gc
  /\ \E slot \in Slots : ClassLoad(t, o, n, MethodsOf[n], FALSE, slot)

Enter(t, m) ==
  /\ ~gc
  /\ Len(stacks[t]) < MaxDepth
  /\ MethodEntry(t, m)
  /\ UNCHANGED jvmVars

\* METHOD_EXIT, also for a frame entered before the profiler attached
Exit(t) ==
  /\ ~gc
  /\ MethodExit(t)
  /\ UNCHANGED jvmVars

(***************************************************************************)
(* The collection, on the GC thread.                                       *)
(***************************************************************************)
BeginGC ==
  /\ ~gc
  /\ gc' = TRUE
  /\ GCStart
  /\ UNCHANGED <<heap, loaded>>

\* an object that is not a loaded class dies and OBJ_FREE reports it
Free(o) ==
  /\ gc
  /\ o \notin DOMAIN loaded
  /\ heap' = Drop(heap, o)
  /\ UNCHANGED <<loaded, gc>>
  /\ ObjFree(o)

\* the heap after object o becomes n in arena a; an announced object keeps
\* its site, an unannounced one is announced by the replay from the GC thread
MovedHeap(o, n, a) ==
  LET r == heap[o]
      moved == [r EXCEPT !.arena = a, !.tracked = TRUE]
  IN  [x \in (Live \ {o}) \cup {n} |->
         LET y == IF x = n THEN moved ELSE heap[x]
         IN  IF y.cls = o THEN [y EXCEPT !.cls = n] ELSE y]

\* OBJ_MOVE of o to the free id n in arena a
Move(o, n, a) ==
  /\ gc
  /\ o # ClassClass
  /\ heap' = MovedHeap(o, n, a)
  /\ loaded' = IF o \in DOMAIN loaded THEN Put(Drop(loaded, o), n, loaded[o]) ELSE loaded
  /\ UNCHANGED gc
  /\ LET r == heap[o]
         areply == [cid |-> r.cls, kind |-> r.kind, size |-> r.size, arena |-> a]
     IN  \E slot \in Slots :
           ObjMove(o, r.arena, n, a, areply, ClassReply(r.cls), slot)

\* DELETE_ARENA: every object of the arena dies with it; class objects are
\* never in an arena that is deleted
DropArena(a) ==
  /\ gc
  /\ \A c \in DOMAIN loaded : heap[c].arena # a
  /\ heap' = Restrict(heap, {o \in Live : heap[o].arena # a})
  /\ UNCHANGED <<loaded, gc>>
  /\ DeleteArena(a)

\* CLASS_UNLOAD of a class without live instances; its class object stays
\* as garbage until freed
Unload(c) ==
  /\ gc
  /\ c \in DOMAIN loaded \ {ClassClass}
  /\ \A o \in Live : heap[o].kind = NORMAL => heap[o].cls # c
  /\ \A t \in Threads : \A i \in 1 .. Len(stacks[t]) : stacks[t][i] \notin MethodsOf[loaded[c]]
  /\ loaded' = Drop(loaded, c)
  /\ UNCHANGED <<heap, gc>>
  /\ ClassUnload(GCThread, c)

EndGC ==
  /\ gc
  /\ gc' = FALSE
  /\ GCFinish
  /\ UNCHANGED <<heap, loaded>>

(***************************************************************************)
(* Specification                                                           *)
(***************************************************************************)
Init ==
  /\ ProfInit
  /\ heap = [o \in {ClassClass} \cup PreObjs |->
               [kind |-> NORMAL, cls |-> ClassClass, arena |-> InitArena,
                size |-> Min(SizesOf[NORMAL]), label |-> Unknown, tracked |-> FALSE]]
  /\ loaded = ClassClass :> ClassName
  /\ gc = FALSE

Next ==
  \/ \E t \in Threads, k \in Kinds, o \in FreeIds, a \in Arenas :
       \E sz \in SizesOf[k] :
         \/ k = NORMAL /\ \E c \in DOMAIN loaded : Alloc(t, k, c, sz, o, a)
         \/ k # NORMAL /\ Alloc(t, k, NoClassId, sz, o, a)
  \/ \E t \in Threads, n \in Names, o \in FreeIds, a \in Arenas : DefineClass(t, n, o, a)
  \/ \E t \in Threads, m \in AppMethods : Enter(t, m)
  \/ \E t \in Threads : Exit(t)
  \/ BeginGC
  \/ \E o \in Live : Free(o)
  \/ \E o \in Live, n \in FreeIds, a \in Arenas : Move(o, n, a)
  \/ \E a \in Arenas : DropArena(a)
  \/ \E c \in DOMAIN loaded : Unload(c)
  \/ EndGC

Spec == Init /\ [][Next]_vars

(***************************************************************************)
(* Properties of the profiler against the JVM it observes.                 *)
(***************************************************************************)
TypeOK ==
  /\ ProfTypeOK
  /\ Live \subseteq Ids /\ DOMAIN loaded \subseteq Live
  /\ \A o \in Live :
       heap[o] \in [kind : Kinds, cls : DOMAIN loaded \cup {NoClassId} \cup Ids,
                    arena : Arenas, size : SizesOf[heap[o].kind],
                    label : {Unknown} \cup [cls : Range(loaded) \cup Names, name : MethodIds],
                    tracked : BOOLEAN]
  /\ gc \in BOOLEAN

\* While the profiler runs, its objects table holds exactly the live
\* objects the JVM has announced to it, each in its current arena with its
\* size, and named by its class: what obj_alloc, obj_free, obj_move (with
\* its replay request) and delete_arena do to objects, arenas and classes
\* keeps the profiler's view in step with the heap across moves, arena
\* deletions and class unloads.
TracksHeap ==
  ~aborted =>
    /\ DOMAIN objects = Tracked
    /\ \A o \in Tracked :
         /\ objects[o].arena = heap[o].arena
         /\ objects[o].size = heap[o].size
         /\ DescName(objects[o].cinfo) = TrueName(o)
    /\ \A c \in DOMAIN classes : c \in DOMAIN loaded /\ cinfo[classes[c]] = loaded[c]

\* the rows a correct snapshot has: the announced live objects grouped by
\* allocating method and class name
TrueRows ==
  LET Group(g) == {o \in Tracked : <<heap[o].label, TrueName(o)>> = g}
      groups   == {<<heap[o].label, TrueName(o)>> : o \in Tracked}
  IN  { [cls |-> g[2], site |-> g[1], cnt |-> Cardinality(Group(g)),
         bytes |-> MapThenSumSet(LAMBDA o : heap[o].size, Group(g))] : g \in groups }

\* The report gc_finish_event writes (print_counts under the monitor held
\* since gc_start_event) lists exactly the announced live objects per
\* allocating method and class, with no row for an emptied site.
ReportAccurate ==
  [][gc /\ ~gc' /\ ~aborted' => report' = TrueRows]_vars

=============================================================================

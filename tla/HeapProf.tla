------------------------------ MODULE HeapProf ------------------------------
(***************************************************************************)
(* The JVMPI heap profiler of src/heapprof/heapprof.c.                     *)
(*                                                                         *)
(* Its state is the set of glib hash tables kept in globals: classes       *)
(* (class id to cinfo_t), methods (method id to method_t), asites (method  *)
(* id and cinfo_t pointer to counters), objects (object id to oinfo_t),    *)
(* arenas (arena id -> set of object ids), the per-thread call stacks held *)
(* in JVMPI thread-local storage, the raw monitor `lock` and the report    *)
(* file.  Every event handler is one action whose inputs are the event's   *)
(* fields; where a handler calls back into the JVM (RequestEvent) the      *)
(* JVM's synchronous answer is an input too, supplied by the composing     *)
(* module that models the JVM.                                             *)
(*                                                                         *)
(* A cinfo_t is heap memory: a descriptor reference is a slot of Slots     *)
(* (malloc may hand a freed slot out again) or, for an array kind, the     *)
(* kind itself standing for the fixed CINFO_* descriptor.  A failed        *)
(* assert() or exit(1) ends the process: `aborted` becomes TRUE and no     *)
(* handler runs again.                                                     *)
(***************************************************************************)
EXTENDS Integers, Sequences, FiniteSets, FiniteSetsExt, Functions, TLC

CONSTANTS
  Ids,          \* jobjectID values: objects and the class objects naming classes
  Slots,        \* addresses calloc may return for a cinfo_t
  MethodIds,    \* jmethodID values
  Arenas,       \* jint arena ids
  Threads,      \* JNIEnv of the application threads
  GCThread,     \* JNIEnv of the thread that runs the collector
  NORMAL,       \* is_array == JVMPI_NORMAL_OBJECT
  ArrayKinds,   \* the other is_array values, each with a fixed CINFO_* descriptor
  NoMethod,     \* the jmethodID 0 used when the thread's stack is empty
  NoCinfo,      \* a NULL cinfo_t*
  NoOwner,      \* the raw monitor is not held
  NoReply,      \* RequestEvent did not deliver the requested event
  Unknown,      \* the "???.???" label of a site whose method is unknown
  Dangling,     \* the name read through a cinfo_t* that has been freed
  IntBits       \* the width of an int: object_cnt, total_object_bytes

Kinds == {NORMAL} \cup ArrayKinds
Envs  == Threads \cup {GCThread}
Descs == Slots \cup ArrayKinds
SiteKeys == (MethodIds \cup {NoMethod}) \X Descs

VARIABLES
  classes,   \* class id -> cinfo slot
  cinfo,     \* allocated cinfo slot -> class name
  methods,   \* method id -> printname, as [cls |-> class name, name |-> method id]
  stacks,    \* env -> sequence of method ids, innermost first
  asites,    \* site key -> [cnt, bytes]
  objects,   \* object id -> oinfo_t as [size, asite, cinfo, arena]
  arenas,    \* arena id -> set of object ids
  lock,      \* owner of the raw monitor
  report,    \* the rows written by the last print_counts
  aborted    \* an assertion failed or exit(1) was called

profVars == <<classes, cinfo, methods, stacks, asites, objects, arenas,
              lock, report, aborted>>

(***************************************************************************)
(* Table helpers                                                           *)
(***************************************************************************)
\* g_hash_table_insert: add or replace one entry
Put(f, k, v) == (k :> v) @@ f
\* g_hash_table_remove
Drop(f, k) == Restrict(f, DOMAIN f \ {k})
\* the member set of an arena, empty when g_hash_table_lookup(arenas) misses
Members(aid) == IF aid \in DOMAIN arenas THEN arenas[aid] ELSE {}

(***************************************************************************)
(* Classes: cinfo_new/cinfo_delete, find_cinfo, class load and unload.     *)
(***************************************************************************)
\* the name a report reads through a descriptor reference
DescName(d) == IF d \in ArrayKinds THEN d
               ELSE IF d \in DOMAIN cinfo THEN cinfo[d] ELSE Dangling

\* the slots calloc may return for a new cinfo_t
FreeSlots == Slots \ DOMAIN cinfo

\* class_load_event body on a classes table `cls`: register the class if
\* new, then every method not already known, labelled with the class name
\* held by the (possibly older) descriptor.
LoadedClasses(cls, cid, slot) == IF cid \in DOMAIN cls THEN cls ELSE Put(cls, cid, slot)
LoadedCinfo(cls, cid, name, slot) == IF cid \in DOMAIN cls THEN cinfo ELSE Put(cinfo, slot, name)
\* method_new: the printname is the class name the descriptor holds at
\* load time and the method name (their truncation to 45 and 15
\* characters left out)
NewMethod(cname, m) == [cls |-> cname, name |-> m]

LoadedMethods(cls, cid, name, meths, slot) ==
  LET cname == LoadedCinfo(cls, cid, name, slot)[LoadedClasses(cls, cid, slot)[cid]]
  IN  [m \in DOMAIN methods \cup meths |->
         IF m \in DOMAIN methods THEN methods[m] ELSE NewMethod(cname, m)]

LoadClass(cls, cid, name, meths, slot) ==
  /\ cid \in DOMAIN cls \/ slot \in FreeSlots
  /\ classes' = LoadedClasses(cls, cid, slot)
  /\ cinfo'   = LoadedCinfo(cls, cid, name, slot)
  /\ methods' = LoadedMethods(cls, cid, name, meths, slot)

\* RawMonitorEnter(lock) by env returns at once: free, or held by env itself
CanLock(env) == lock \in {NoOwner, env}

\* find_cinfo on a classes table `cls`: an array kind has its fixed
\* descriptor; an unknown normal class is requested from the JVM, whose
\* answer `creply` ([name, meths] or NoReply) is a nested class load.
ResolveClass(cls, kind, cid, creply, slot) ==
  IF kind = NORMAL /\ cid \notin DOMAIN cls /\ creply # NoReply
  THEN LoadClass(cls, cid, creply.name, creply.meths, slot)
  ELSE /\ classes' = cls
       /\ UNCHANGED <<cinfo, methods>>

\* Mutant: the class looked up before RequestEvent is used after it, the
\* lookup of line 113 left out.
ResolvedStale(kind, cid) ==
  IF kind # NORMAL THEN kind
  ELSE IF cid \in DOMAIN classes THEN classes[cid] ELSE NoCinfo

Resolved(kind, cid) ==
  IF kind # NORMAL THEN kind
  ELSE IF cid \in DOMAIN classes' THEN classes'[cid] ELSE NoCinfo

ClassLoad(env, cid, name, meths, requested, slot) ==
  /\ ~aborted
  /\ requested \/ CanLock(env)
  /\ LoadClass(classes, cid, name, meths, slot)
  /\ UNCHANGED <<stacks, asites, objects, arenas, lock, report, aborted>>

ClassUnload(env, cid) ==
  /\ ~aborted
  /\ CanLock(env)
  /\ IF cid \in DOMAIN classes
     THEN /\ cinfo'   = Drop(cinfo, classes[cid])
          /\ classes' = Drop(classes, cid)
          /\ UNCHANGED aborted
     ELSE /\ aborted' = TRUE
          /\ UNCHANGED <<classes, cinfo>>
  /\ UNCHANGED <<methods, stacks, asites, objects, arenas, lock, report>>

(***************************************************************************)
(* Call stacks: method entry and exit on the event's own thread.           *)
(***************************************************************************)
Top(env) == IF stacks[env] = <<>> THEN NoMethod ELSE Head(stacks[env])

\* stack_push and stack_pop on the linked list, innermost frame first
StackPush(s, m) == <<m>> \o s
StackPop(s) == Tail(s)

MethodEntry(env, m) ==
  /\ ~aborted
  /\ stacks' = [stacks EXCEPT ![env] = StackPush(@, m)]
  /\ UNCHANGED <<classes, cinfo, methods, asites, objects, arenas, lock, report, aborted>>

MethodExit(env) ==
  /\ ~aborted
  /\ stacks' = [stacks EXCEPT ![env] = IF @ = <<>> THEN @ ELSE StackPop(@)]
  /\ UNCHANGED <<classes, cinfo, methods, asites, objects, arenas, lock, report, aborted>>

\* an int counter after += or -=: two's complement wrap-around, what the
\* add instruction gcc emits for the signed overflow the C standard
\* leaves undefined
CInt(x) == LET m == 2^IntBits IN ((x + m \div 2) % m) - m \div 2

(***************************************************************************)
(* Allocation sites                                                        *)
(***************************************************************************)
\* asite_new: a site starts with no objects and no bytes
NewSite == [cnt |-> 0, bytes |-> 0]

\* the key of the site of an allocation by env of descriptor d: the
\* innermost method and the cinfo_t pointer, equal when both are
SiteKey(env, d) == <<Top(env), d>>

\* lookup_asite followed by the counter update: a missing site is created
\* with zero counters, then cnt and bytes move by dc and db.
\* Mutant: lookup_asite creates the site without inserting it into asites.
BumpNoInsert(as, key, dc, db) ==
  IF key \in DOMAIN as
  THEN Put(as, key, [cnt |-> as[key].cnt + dc, bytes |-> as[key].bytes + db])
  ELSE as

Bump(as, key, dc, db) ==
  LET old == IF key \in DOMAIN as THEN as[key] ELSE NewSite
  IN  Put(as, key, [cnt |-> CInt(old.cnt + dc), bytes |-> CInt(old.bytes + db)])

\* the objects of S attributed to site k, and their total size
ObjsAt(S, k) == {o \in S : objects[o].asite = k}
BytesOf(S) == MapThenSumSet(LAMBDA o : objects[o].size, S)

\* remove_object_cb applied to every object of S: each site loses the
\* objects of S it counted
\* Mutant: remove_object_cb decrements the count but not the byte total.
DiscountCountOnly(S) ==
  [k \in DOMAIN asites |->
     [asites[k] EXCEPT !.cnt = @ - Cardinality(ObjsAt(S, k))]]

Discount(S) ==
  [k \in DOMAIN asites |->
     [cnt   |-> CInt(asites[k].cnt - Cardinality(ObjsAt(S, k))),
      bytes |-> CInt(asites[k].bytes - BytesOf(ObjsAt(S, k)))]]

(***************************************************************************)
(* Objects and arenas: allocation, free, move and arena deletion.          *)
(***************************************************************************)
\* oinfo_new: what the objects table keeps of an object
OInfo(size, key, d, aid) == [size |-> size, asite |-> key, cinfo |-> d, arena |-> aid]

\* obj_alloc_event after the monitor is entered, on a classes table `cls`:
\* resolve the class, count the object at the site of env's innermost
\* frame, create the arena lazily and record the object in both tables.
\* The asserts on a duplicate object or arena member, and exit(1) on an
\* unresolved class, end the process.
ObjAllocWith(cls, env, cid, kind, size, oid, aid, creply, slot) ==
  /\ ResolveClass(cls, kind, cid, creply, slot)
  /\ LET d    == Resolved(kind, cid)
         key  == SiteKey(env, d)
     IN  IF d = NoCinfo \/ oid \in DOMAIN objects \/ oid \in Members(aid)
         THEN /\ aborted' = TRUE
              /\ UNCHANGED <<asites, objects, arenas>>
         ELSE /\ asites'  = Bump(asites, key, 1, size)
              /\ arenas'  = Put(arenas, aid, Members(aid) \cup {oid})
              /\ objects' = Put(objects, oid, OInfo(size, key, d, aid))
              /\ UNCHANGED aborted

\* A requested (replayed) event is delivered inside a handler that already
\* holds the monitor and does not enter it again.
ObjAlloc(env, cid, kind, size, oid, aid, requested, creply, slot) ==
  /\ ~aborted
  /\ requested \/ CanLock(env)
  /\ ObjAllocWith(classes, env, cid, kind, size, oid, aid, creply, slot)
  /\ UNCHANGED <<stacks, lock, report>>

\* obj_free_event: no lock; an unknown object is ignored.
\* Mutant: obj_free_event leaves the object in its arena's member set.
ObjFreeKeepArena(oid) ==
  /\ ~aborted
  /\ IF oid \in DOMAIN objects
     THEN /\ objects' = Drop(objects, oid)
          /\ asites'  = Bump(asites, objects[oid].asite, -1, -objects[oid].size)
     ELSE UNCHANGED <<objects, asites>>
  /\ UNCHANGED <<arenas, aborted, classes, cinfo, methods, stacks, lock, report>>

ObjFree(oid) ==
  /\ ~aborted
  /\ IF oid \in DOMAIN objects
     THEN LET o == objects[oid] IN
          /\ objects' = Drop(objects, oid)
          /\ asites'  = Bump(asites, o.asite, -1, -o.size)
          /\ IF oid \in Members(o.arena)
             THEN /\ arenas' = [arenas EXCEPT ![o.arena] = @ \ {oid}]
                  /\ UNCHANGED aborted
             ELSE /\ aborted' = TRUE
                  /\ UNCHANGED arenas
     ELSE UNCHANGED <<objects, asites, arenas, aborted>>
  /\ UNCHANGED <<classes, cinfo, methods, stacks, lock, report>>

\* the classes table after obj_move_event re-keys a moved class id
\* Mutant: obj_move_event does not re-key a moved class id.
MovedClassesKept(oid, newOid) == classes

MovedClasses(oid, newOid) ==
  IF oid \in DOMAIN classes THEN Put(Drop(classes, oid), newOid, classes[oid])
  ELSE classes

\* obj_move_event: no lock.  A class id is re-keyed; a known object is
\* re-keyed and moved to the (lazily created) new arena, keeping its site;
\* an unknown one is requested from the JVM as an allocation of newOid,
\* which the JVM answers (areply) inside the call on the GC thread.
ObjMove(oid, aid, newOid, newAid, areply, creply, slot) ==
  /\ ~aborted
  /\ LET clsFail == oid \in DOMAIN classes /\ newOid \in DOMAIN Drop(classes, oid)
         cls1    == MovedClasses(oid, newOid)
     IN  IF oid \in DOMAIN objects
         THEN LET o       == objects[oid]
                  arenas1 == [arenas EXCEPT ![o.arena] = @ \ {oid}]
                  into    == IF newAid \in DOMAIN arenas1 THEN arenas1[newAid] ELSE {}
              IN  IF clsFail \/ oid \notin Members(o.arena) \/ newOid \in into
                  THEN /\ aborted' = TRUE
                       /\ UNCHANGED <<classes, cinfo, methods, asites, objects, arenas>>
                  ELSE /\ classes' = cls1
                       /\ objects' = Put(Drop(objects, oid), newOid, [o EXCEPT !.arena = newAid])
                       /\ arenas'  = Put(arenas1, newAid, into \cup {newOid})
                       /\ UNCHANGED <<cinfo, methods, asites, aborted>>
         ELSE IF clsFail \/ areply = NoReply
              THEN /\ aborted' = TRUE
                   /\ UNCHANGED <<classes, cinfo, methods, asites, objects, arenas>>
              ELSE ObjAllocWith(cls1, GCThread, areply.cid, areply.kind, areply.size,
                                newOid, areply.arena, creply, slot)
  /\ UNCHANGED <<stacks, lock, report>>

\* delete_arena_event: no lock; every member is removed from objects and
\* discounted from its site (remove_object_cb asserts it is known), then
\* the arena itself is dropped.
DeleteArena(aid) ==
  /\ ~aborted
  /\ IF aid \in DOMAIN arenas
     THEN IF arenas[aid] \subseteq DOMAIN objects
          THEN /\ objects' = Restrict(objects, DOMAIN objects \ arenas[aid])
               /\ asites'  = Discount(arenas[aid])
               /\ arenas'  = Drop(arenas, aid)
               /\ UNCHANGED aborted
          ELSE /\ aborted' = TRUE
               /\ UNCHANGED <<objects, asites, arenas>>
     ELSE UNCHANGED <<objects, asites, arenas, aborted>>
  /\ UNCHANGED <<classes, cinfo, methods, stacks, lock, report>>

(***************************************************************************)
(* Garbage collection bracket and the report.                              *)
(***************************************************************************)
Label(m) == IF m \in DOMAIN methods THEN methods[m] ELSE Unknown

\* print_counts: the report file is truncated and one row is written for
\* every site with a positive count.
\* Mutant: print_counts_cb writes a row for every site, emptied ones too.
RowsAll ==
  { [cls   |-> DescName(k[2]), site |-> Label(k[1]),
     cnt   |-> asites[k].cnt,  bytes |-> asites[k].bytes] : k \in DOMAIN asites }

Rows ==
  { [cls   |-> DescName(k[2]), site |-> Label(k[1]),
     cnt   |-> asites[k].cnt,  bytes |-> asites[k].bytes] :
    k \in {k \in DOMAIN asites : asites[k].cnt > 0} }

\* gc_start_event: the GC thread enters the monitor and keeps it.
GCStart ==
  /\ ~aborted
  /\ CanLock(GCThread)
  /\ lock' = GCThread
  /\ UNCHANGED <<classes, cinfo, methods, stacks, asites, objects, arenas, report, aborted>>

\* Mutant: print_counts writes without rewinding and truncating the file,
\* so the rows of earlier reports stay in it.
GCFinishAppend ==
  /\ ~aborted
  /\ report' = report \cup Rows
  /\ lock' = NoOwner
  /\ UNCHANGED <<classes, cinfo, methods, stacks, asites, objects, arenas, aborted>>

\* gc_finish_event: print_counts, then leave the monitor.
GCFinish ==
  /\ ~aborted
  /\ report' = Rows
  /\ lock' = NoOwner
  /\ UNCHANGED <<classes, cinfo, methods, stacks, asites, objects, arenas, aborted>>

\* JVM_OnLoad: empty tables, empty stacks, the monitor released.
NoEntries == [x \in {} |-> NoOwner]
ProfInit ==
  /\ classes = NoEntries
  /\ cinfo   = NoEntries
  /\ methods = NoEntries
  /\ stacks  = [e \in Envs |-> <<>>]
  /\ asites  = NoEntries
  /\ objects = NoEntries
  /\ arenas  = NoEntries
  /\ lock    = NoOwner
  /\ report  = {}
  /\ aborted = FALSE

(***************************************************************************)
(* Properties of the profiler's own tables.                                *)
(***************************************************************************)
\* Type of every table, with the references between them resolving: a
\* class points at an allocated descriptor and an object at an existing
\* site (lookup_asite inserts what it creates).
ProfTypeOK ==
  /\ DOMAIN classes \subseteq Ids /\ Range(classes) \subseteq DOMAIN cinfo
  /\ DOMAIN cinfo \subseteq Slots
  /\ DOMAIN methods \subseteq MethodIds
  /\ stacks \in [Envs -> Seq(MethodIds)]
  /\ DOMAIN asites \subseteq SiteKeys
  /\ \A k \in DOMAIN asites : asites[k].cnt \in Int /\ asites[k].bytes \in Int
  /\ DOMAIN objects \subseteq Ids
  /\ \A o \in DOMAIN objects :
       /\ objects[o].asite \in DOMAIN asites
       /\ objects[o].cinfo \in Descs
       /\ objects[o].arena \in Arenas
  /\ DOMAIN arenas \subseteq Arenas /\ \A a \in DOMAIN arenas : arenas[a] \subseteq Ids
  /\ lock \in {NoOwner} \cup Envs
  /\ aborted \in BOOLEAN

\* Spec invariant 2, about the counter updates of obj_alloc_event,
\* obj_free_event and remove_object_cb: every site's count and byte total
\* equal the number and total size of the live objects attributed to it.
SiteLedger ==
  \A k \in DOMAIN asites :
    /\ asites[k].cnt   = Cardinality(ObjsAt(DOMAIN objects, k))
    /\ asites[k].bytes = BytesOf(ObjsAt(DOMAIN objects, k))

\* Spec invariants 1 and 3, about the arena bookkeeping of alloc, free,
\* move and delete_arena: an object is a member of its own arena and of no
\* other, and every arena member is a known object.
ArenaIndex ==
  /\ \A o \in DOMAIN objects :
       \A a \in DOMAIN arenas : (o \in arenas[a]) <=> (a = objects[o].arena)
  /\ \A o \in DOMAIN objects : objects[o].arena \in DOMAIN arenas
  /\ \A a \in DOMAIN arenas : arenas[a] \subseteq DOMAIN objects

\* No assert() or exit(1) of any handler fires.
NoAbort == ~aborted

=============================================================================

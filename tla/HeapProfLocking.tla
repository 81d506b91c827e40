-------------------------- MODULE HeapProfLocking --------------------------
(***************************************************************************)
(* The locking discipline of heapprof.c: which handler takes the raw       *)
(* monitor `lock`, where, and on which thread, with the handlers split     *)
(* into the steps between which another thread can run.  The tables are    *)
(* abstracted to the points at which a handler reads or writes them.       *)
(*                                                                         *)
(* A handler is a frame on the stack of the thread that runs it: the       *)
(* sequence of its points and the index of the next one.  A RequestEvent   *)
(* runs the requested handler on the same thread before it returns, so it  *)
(* pushes a frame (requested = TRUE).                                      *)
(*                                                                         *)
(* The JVM side is weaker than JVMPI promises: application threads start   *)
(* no new event while a collection runs, but a thread already inside a     *)
(* handler (in native code, so safe for the collector) keeps running it    *)
(* while the collection begins; every collection event comes from the GC   *)
(* thread, between GC_START and GC_FINISH.  Raw monitors are reentrant.    *)
(***************************************************************************)
EXTENDS Naturals, Sequences, SequencesExt

CONSTANTS
  App,        \* JNIEnv of the application threads
  GCThread,   \* JNIEnv of the thread that runs the collector
  NoOwner     \* owner of a free monitor

Envs == App \cup {GCThread}

VARIABLES
  owner,    \* the thread holding lock, or NoOwner
  depth,    \* how many times the owner has entered it
  frames,   \* env -> the handlers running on it, innermost last
  gc        \* "off", "on" (GC_START delivered), "ending" (GC_FINISH delivered)

vars == <<owner, depth, frames, gc>>

(***************************************************************************)
(* The points of each handler: "lock" and "unlock" are RawMonitorEnter and *)
(* RawMonitorExit, "find" is find_cinfo (a lookup in classes and maybe a  *)
(* requested CLASS_LOAD), "request" a requested OBJ_ALLOC, "table" a read  *)
(* or write of the tables, "own" a change of the thread's own stack.       *)
(***************************************************************************)
ObjAllocPoints(req) ==
  IF req THEN <<"find", "table">> ELSE <<"lock", "find", "table", "unlock">>

ClassLoadPoints(req) == IF req THEN <<"table">> ELSE <<"lock", "table", "unlock">>

\* Mutant: class_unload_event returns without RawMonitorExit.
ClassUnloadPointsNoUnlock == <<"lock", "table">>

ClassUnloadPoints == <<"lock", "table", "unlock">>

ObjFreePoints == <<"table">>

ObjMovePoints == <<"table", "request">>

DeleteArenaPoints == <<"table">>

\* Mutant: gc_start_event does not take the monitor.
GCStartPointsNoLock == <<>>

GCStartPoints == <<"lock">>

GCFinishPoints == <<"table", "unlock">>

MethodPoints == <<"own">>

\* notify_event: the handler an event type runs, requested or not
Handler(e, req) ==
  [pts |-> CASE e = "alloc"  -> ObjAllocPoints(req)
             [] e = "load"   -> ClassLoadPoints(req)
             [] e = "unload" -> ClassUnloadPoints
             [] e = "free"   -> ObjFreePoints
             [] e = "move"   -> ObjMovePoints
             [] e = "delete" -> DeleteArenaPoints
             [] e = "start"  -> GCStartPoints
             [] e = "finish" -> GCFinishPoints
             [] e \in {"entry", "exit"} -> MethodPoints,
   i |-> 1]

\* the point the innermost handler of env t has reached
Point(t) == LET f == Last(frames[t]) IN f.pts[f.i]

\* the stack of t once its innermost handler has passed its current point
\* (a handler past its last point has returned)
Advanced(t) ==
  LET f == Last(frames[t]) IN
  IF f.i = Len(f.pts) THEN Front(frames[t])
  ELSE [frames[t] EXCEPT ![Len(frames[t])].i = f.i + 1]

\* Push a frame and drop the empty ones: a handler with no points returns at once
Call(s, h) == IF h.pts = <<>> THEN s ELSE Append(s, h)

Running(t) == frames[t] # <<>>

Init ==
  /\ owner = NoOwner
  /\ depth = 0
  /\ frames = [t \in Envs |-> <<>>]
  /\ gc = "off"

(***************************************************************************)
(* Steps of the handlers.                                                  *)
(***************************************************************************)
\* RawMonitorEnter: returns when the monitor is free or already t's
Enter(t) ==
  /\ Running(t) /\ Point(t) = "lock"
  /\ owner \in {NoOwner, t}
  /\ owner' = t /\ depth' = depth + 1
  /\ frames' = [frames EXCEPT ![t] = Advanced(t)]
  /\ UNCHANGED gc

\* RawMonitorExit; the GC thread's exit in GC_FINISH ends the collection
\* once the handler returns
Exit(t) ==
  /\ Running(t) /\ Point(t) = "unlock"
  /\ IF owner = t
     THEN /\ depth' = depth - 1
          /\ owner' = IF depth = 1 THEN NoOwner ELSE t
     ELSE UNCHANGED <<owner, depth>>
  /\ frames' = [frames EXCEPT ![t] = Advanced(t)]
  /\ UNCHANGED gc

\* a read or write of the tables or of t's own stack
Access(t) ==
  /\ Running(t) /\ Point(t) \in {"table", "own"}
  /\ frames' = [frames EXCEPT ![t] = Advanced(t)]
  /\ UNCHANGED <<owner, depth, gc>>

\* find_cinfo: an unknown class is requested, and its CLASS_LOAD runs on t
\* before the lookup is repeated
FindCinfo(t) ==
  /\ Running(t) /\ Point(t) = "find"
  /\ \E known \in BOOLEAN :
       frames' = [frames EXCEPT ![t] =
                    IF known THEN Advanced(t) ELSE Call(Advanced(t), Handler("load", TRUE))]
  /\ UNCHANGED <<owner, depth, gc>>

\* obj_move_event of an object the profiler never saw requests its OBJ_ALLOC
RequestAlloc(t) ==
  /\ Running(t) /\ Point(t) = "request"
  /\ \E known \in BOOLEAN :
       frames' = [frames EXCEPT ![t] =
                    IF known THEN Advanced(t) ELSE Call(Advanced(t), Handler("alloc", TRUE))]
  /\ UNCHANGED <<owner, depth, gc>>

Step(t) == Enter(t) \/ Exit(t) \/ Access(t) \/ FindCinfo(t) \/ RequestAlloc(t)

(***************************************************************************)
(* The JVM delivering events.                                              *)
(***************************************************************************)
\* an application thread running Java code reaches an event
AppEvent(t, e) ==
  /\ ~Running(t) /\ gc = "off"
  /\ frames' = [frames EXCEPT ![t] = Call(<<>>, Handler(e, FALSE))]
  /\ UNCHANGED <<owner, depth, gc>>

\* the collector stops the threads running Java code and sends GC_START
BeginGC ==
  /\ gc = "off" /\ ~Running(GCThread)
  /\ gc' = "on"
  /\ frames' = [frames EXCEPT ![GCThread] = Call(<<>>, Handler("start", FALSE))]
  /\ UNCHANGED <<owner, depth>>

\* after GC_START has returned: OBJ_FREE, OBJ_MOVE, DELETE_ARENA, CLASS_UNLOAD
GCEvent(e) ==
  /\ gc = "on" /\ ~Running(GCThread)
  /\ frames' = [frames EXCEPT ![GCThread] = Call(<<>>, Handler(e, FALSE))]
  /\ UNCHANGED <<owner, depth, gc>>

EndGC ==
  /\ gc = "on" /\ ~Running(GCThread)
  /\ gc' = "ending"
  /\ frames' = [frames EXCEPT ![GCThread] = Call(<<>>, Handler("finish", FALSE))]
  /\ UNCHANGED <<owner, depth>>

\* GC_FINISH has returned: the threads run Java code again
Resume ==
  /\ gc = "ending" /\ ~Running(GCThread)
  /\ gc' = "off"
  /\ UNCHANGED <<owner, depth, frames>>

Next ==
  \/ \E t \in Envs : Step(t)
  \/ \E t \in App, e \in {"alloc", "load", "entry", "exit"} : AppEvent(t, e)
  \/ BeginGC
  \/ \E e \in {"free", "move", "delete", "unload"} : GCEvent(e)
  \/ EndGC
  \/ Resume

(***************************************************************************)
(* Each thread inside a handler runs native code the OS schedules: weak    *)
(* fairness per thread.  A collection handles a finite heap, so the JVM    *)
(* sends GC_FINISH after finitely many events: strong fairness, since the  *)
(* GC thread is busy with each of those events in between.  No fairness    *)
(* for the events of application threads or for starting a collection.    *)
(***************************************************************************)
Spec ==
  /\ Init /\ [][Next]_vars
  /\ \A t \in Envs : WF_vars(Step(t))
  /\ SF_vars(EndGC) /\ WF_vars(Resume)

TypeOK ==
  /\ owner \in Envs \cup {NoOwner}
  /\ depth \in 0 .. 3
  /\ (owner = NoOwner) <=> (depth = 0)
  /\ gc \in {"off", "on", "ending"}
  /\ \A t \in Envs : Len(frames[t]) <= 3

\* t is reading or writing the profiler's tables
InTables(t) == Running(t) /\ Point(t) \in {"find", "table"}

\* No two threads touch the tables at once.  Allocation, class load and
\* class unload take the monitor; OBJ_FREE, OBJ_MOVE and DELETE_ARENA take
\* none and rely on the monitor gc_start_event keeps until GC_FINISH,
\* also against a handler that was already running when the collection
\* began; a requested handler runs under its requester's hold.
MutualExclusion ==
  \A t, u \in Envs : t # u => ~(InTables(t) /\ InTables(u))

\* Every collection ends, and the GC thread then no longer holds the
\* monitor: gc_start_event waits only for handlers that finish, and every
\* RawMonitorEnter of the GC thread (GC_START, CLASS_UNLOAD) is matched by
\* a RawMonitorExit before the threads resume.
GCEnds ==
  gc # "off" ~> (gc = "off" /\ owner # GCThread)

====

--------------------------- MODULE HeapProfLedger ---------------------------
(***************************************************************************)
(* The profiler of HeapProfSystem implements the ledger of AllocLedger.    *)
(* The refinement mapping reads the ledger off the profiler's own tables:  *)
(* an object's record is its oinfo_t with the site's method id and the     *)
(* name read through its cinfo_t, and a report row's method label is       *)
(* mapped back to the method id it was made from.                          *)
(***************************************************************************)
EXTENDS HeapProfSystem

\* every record an object may have in these bounds
LedgerRecords ==
  [site  : MethodIds \cup {NoMethod},
   cls   : Names \cup {ClassName, Dangling} \cup ArrayKinds,
   size  : UNION {SizesOf[k] : k \in Kinds},
   arena : Arenas]

\* the ledger as the objects table holds it
LedgerLive ==
  [o \in DOMAIN objects |->
     [site  |-> objects[o].asite[1], cls  |-> DescName(objects[o].cinfo),
      size  |-> objects[o].size,     arena |-> objects[o].arena]]

\* the method id a printname (or "???.???") was made for
SiteOf(label) == IF label = Unknown THEN NoMethod ELSE label.name

\* the report print_counts wrote, with sites as method ids
LedgerReport == {[r EXCEPT !.site = SiteOf(r.site)] : r \in report}

Ledger == INSTANCE AllocLedger
            WITH Records <- LedgerRecords, live <- LedgerLive, report <- LedgerReport

\* The profiler's object table and report change only as the ledger allows:
\* obj_alloc_event and the move replay announce one object, obj_free_event
\* forgets one, obj_move_event relocates one keeping its site, class and
\* size, delete_arena_event forgets exactly the arena's members, and
\* print_counts writes the rows of the table as it stands.
LedgerRefinement == Ledger!Spec

=============================================================================

---------------------------- MODULE AllocLedger ----------------------------
(***************************************************************************)
(* What the heap profiler promises, independent of its tables (spec.md     *)
(* sections 1, 4.4 and 4.6): a ledger of the live objects it knows, each   *)
(* with the method that allocated it, its class name, size and region.     *)
(* The ledger changes one object at a time (announced, forgotten, or       *)
(* relocated with site, class and size kept) or one region at a time, and  *)
(* the report, whenever written, has one row per (site, class) with live   *)
(* objects, giving their number and total size.                            *)
(***************************************************************************)
EXTENDS Naturals, FiniteSets, FiniteSetsExt, Functions, TLC

CONSTANTS
  Ids,      \* object identities
  Arenas,   \* region identities
  Records   \* the [site, cls, size, arena] records an object may have

VARIABLES
  live,     \* object id -> record
  report    \* the rows of the last snapshot

vars == <<live, report>>

\* the rows a snapshot of ledger `l` has
RowsOf(l) ==
  LET Group(g) == {o \in DOMAIN l : <<l[o].site, l[o].cls>> = g}
  IN  { [site |-> g[1], cls |-> g[2], cnt |-> Cardinality(Group(g)),
         bytes |-> MapThenSumSet(LAMBDA o : l[o].size, Group(g))] :
        g \in {<<l[o].site, l[o].cls>> : o \in DOMAIN l} }

Init ==
  /\ live = [o \in {} |-> CHOOSE r \in Records : TRUE]
  /\ report = {}

\* one new object, with any record; the others are kept
Announce(o) ==
  /\ o \notin DOMAIN live
  /\ o \in DOMAIN live'
  /\ live'[o] \in Records
  /\ live' = (o :> live'[o]) @@ live
  /\ UNCHANGED report

Forget(o) ==
  /\ o \in DOMAIN live
  /\ live' = Restrict(live, DOMAIN live \ {o})
  /\ UNCHANGED report

\* an object moves to identity n (free, or its own) and region a
Relocate(o, n, a) ==
  /\ o \in DOMAIN live
  /\ n \notin DOMAIN live \ {o}
  /\ live' = (n :> [live[o] EXCEPT !.arena = a]) @@ Restrict(live, DOMAIN live \ {o})
  /\ UNCHANGED report

ForgetArena(a) ==
  /\ live' = Restrict(live, {o \in DOMAIN live : live[o].arena # a})
  /\ UNCHANGED report

Snapshot ==
  /\ report' = RowsOf(live)
  /\ UNCHANGED live

Next ==
  \/ \E o \in Ids : Announce(o) \/ Forget(o)
  \/ \E o, n \in Ids, a \in Arenas : Relocate(o, n, a)
  \/ \E a \in Arenas : ForgetArena(a)
  \/ Snapshot

Spec == Init /\ [][Next]_vars

=============================================================================

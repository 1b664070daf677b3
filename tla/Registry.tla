------------------------------ MODULE Registry ------------------------------
(***************************************************************************)
(* The connection's registries of prepared statements (TDSDYNAMIC, list    *)
(* conn->dyns, new entries at the head) and cursors (TDSCURSOR, list       *)
(* conn->cursors, new entries at the tail), with their reference counts    *)
(* (src/tds/mem.c).  An entry is counted once for the list and once for    *)
(* every pointer field that holds it (a facade statement, a session's      *)
(* cur_dyn / cur_cursor).                                                  *)
(*                                                                         *)
(* Functions of mem.c are transformers of the record `reg`.  The actions  *)
(* are those of their callers: a facade allocates into one of its handle   *)
(* fields, copies a handle (tds_set_cur_dyn and friends, ++ref_count),     *)
(* releases a handle, and the token layer reports the server dropped the   *)
(* entry a handle refers to; the connection is finally torn down.          *)
(*                                                                         *)
(* Generated dynamic ids are abstracted to the value of the global counter *)
(* inc_num that tds_get_dynid encodes (the encoding is injective in        *)
(* inc_num for one connection); IncNumSpace stands for the 0x10000 values  *)
(* `& 0xffff` keeps, MaxDynIdTries for the 256 tries of tds_alloc_dynamic. *)
(* strlcpy(dyn->id, id, TDS_MAX_DYNID_LEN) is TruncateId.                  *)
(***************************************************************************)
EXTENDS Naturals, Sequences, FiniteSets
LOCAL INSTANCE SequencesExt

CONSTANTS
  Dyns,           \* addresses a TDSDYNAMIC may be allocated at
  Cursors,        \* addresses a TDSCURSOR may be allocated at
  UserIds,        \* statement ids a caller may pass to tds_alloc_dynamic
  TruncateId,     \* id -> the id strlcpy stores in dyn->id
  CursorNames,    \* cursor names a caller may pass to tds_alloc_cursor
  IncNumSpace,    \* number of values of inc_num (0x10000 in the code)
  MaxDynIdTries,  \* tries of the id generation loop (256 in the code)
  DynHandles,     \* pointer fields owning a TDSDYNAMIC reference
  CursorHandles,  \* pointer fields owning a TDSCURSOR reference
  NoDyn, NoCursor, NoId

GenIds == 0 .. IncNumSpace - 1          \* ids tds_get_dynid can produce
Ids == GenIds \cup UserIds

ASSUME /\ IncNumSpace \in Nat \ {0} /\ MaxDynIdTries \in Nat \ {0}
       /\ TruncateId \in [Ids -> Ids]
       /\ NoId \notin Ids /\ NoDyn \notin Dyns /\ NoCursor \notin Cursors

VARIABLES
  reg,       \* registries, reference counts and the global inc_num
  dholds,    \* dholds[h]: the TDSDYNAMIC the field h points to
  cholds,    \* cholds[h]: the TDSCURSOR the field h points to
  conn_live  \* FALSE once tds_deinit_connection has run

vars == <<reg, dholds, cholds, conn_live>>

RegistryState ==
  [dyns: Seq(Dyns), dlive: SUBSET Dyns, dref: [Dyns -> Nat], did: [Dyns -> Ids \cup {NoId}],
   inc_num: GenIds,
   cursors: Seq(Cursors), clive: SUBSET Cursors, cref: [Cursors -> Nat],
   cname: [Cursors -> CursorNames \cup {NoId}]]

InitRegistryState ==
  [dyns |-> <<>>, dlive |-> {}, dref |-> [d \in Dyns |-> 0], did |-> [d \in Dyns |-> NoId],
   inc_num |-> 1 % IncNumSpace,
   cursors |-> <<>>, clive |-> {}, cref |-> [c \in Cursors |-> 0],
   cname |-> [c \in Cursors |-> NoId]]

(* tds_lookup_dynamic: is some listed statement called id? *)
tds_lookup_dynamic(st, id) == \E i \in 1 .. Len(st.dyns) : st.did[st.dyns[i]] = id

(***************************************************************************)
(* The id generation loop of tds_alloc_dynamic: each try advances inc_num  *)
(* (tds_get_dynid) and stops at the first id not in the list, or fails     *)
(* after MaxDynIdTries tries.  Returns the final inc_num and the id.       *)
(***************************************************************************)
RECURSIVE GenerateDynId(_, _, _)
GenerateDynId(st, inc, n) ==
  LET next == (inc + 1) % IncNumSpace
  IN IF ~tds_lookup_dynamic(st, next) THEN [inc_num |-> next, id |-> next]
     ELSE IF n + 1 = MaxDynIdTries THEN [inc_num |-> next, id |-> NoId]
     ELSE GenerateDynId(st, next, n + 1)

(* Defect variant: the caller's id is not looked up before it is used. *)
tds_alloc_dynamic_no_lookup(st, d, id, mem_ok) ==
  LET gen   == GenerateDynId(st, st.inc_num, 0)
      st1   == IF id = NoId THEN [st EXCEPT !.inc_num = gen.inc_num] ELSE st
      newid == IF id = NoId THEN gen.id ELSE id
      ok    == (id = NoId => gen.id # NoId) /\ mem_ok
  IN [ok |-> ok,
      st |-> IF ~ok THEN st1
             ELSE [st1 EXCEPT !.dlive = @ \cup {d}, !.dref[d] = 2,
                              !.dyns = <<d>> \o @, !.did[d] = TruncateId[newid]]]

(***************************************************************************)
(* tds_alloc_dynamic(conn, id) at address d; id = NoId asks for a          *)
(* generated one; mem_ok is whether TEST_MALLOC succeeds.  Returns the new *)
(* state and whether a statement was created.                             *)
(***************************************************************************)
tds_alloc_dynamic(st, d, id, mem_ok) ==
  LET gen   == GenerateDynId(st, st.inc_num, 0)
      st1   == IF id = NoId THEN [st EXCEPT !.inc_num = gen.inc_num] ELSE st
      newid == IF id = NoId THEN gen.id ELSE id
      ok    == /\ IF id = NoId THEN gen.id # NoId ELSE ~tds_lookup_dynamic(st, id)
               /\ mem_ok
  IN [ok |-> ok,
      st |-> IF ~ok THEN st1
             ELSE [st1 EXCEPT !.dlive = @ \cup {d}, !.dref[d] = 2,
                              !.dyns = <<d>> \o @, !.did[d] = TruncateId[newid]]]

(* tds_release_dynamic: drop one reference, free at zero. *)
tds_release_dynamic(st, d) ==
  IF d = NoDyn THEN st
  ELSE IF st.dref[d] - 1 > 0 THEN [st EXCEPT !.dref[d] = @ - 1]
  ELSE [st EXCEPT !.dref[d] = @ - 1, !.dlive = @ \ {d}, !.did[d] = NoId]

(* Defect variant: the list's reference is released even when d is no    *)
(* longer listed.                                                          *)
tds_dynamic_deallocated_unchecked(st, d) ==
  tds_release_dynamic([st EXCEPT !.dyns = RemoveFirst(@, d)], d)

(* tds_dynamic_deallocated: unlink from conn->dyns if listed, then release *)
(* the list's reference; an entry not in the list is left alone.          *)
tds_dynamic_deallocated(st, d) ==
  IF ~Contains(st.dyns, d) THEN st
  ELSE tds_release_dynamic([st EXCEPT !.dyns = RemoveFirst(@, d)], d)

tds_alloc_cursor(st, c, name, mem_ok) ==
  [ok |-> mem_ok,
   st |-> IF ~mem_ok THEN st
          ELSE [st EXCEPT !.clive = @ \cup {c}, !.cref[c] = 2,
                          !.cursors = Append(@, c), !.cname[c] = name]]

(* Defect variant: the cursor is freed when the count drops to one. *)
tds_release_cursor_early(st, c) ==
  IF c = NoCursor THEN st
  ELSE IF st.cref[c] - 1 > 1 THEN [st EXCEPT !.cref[c] = @ - 1]
  ELSE [st EXCEPT !.cref[c] = @ - 1, !.clive = @ \ {c}, !.cname[c] = NoId]

(* tds_release_cursor: drop one reference, free at zero. *)
tds_release_cursor(st, c) ==
  IF c = NoCursor THEN st
  ELSE IF st.cref[c] - 1 > 0 THEN [st EXCEPT !.cref[c] = @ - 1]
  ELSE [st EXCEPT !.cref[c] = @ - 1, !.clive = @ \ {c}, !.cname[c] = NoId]

tds_cursor_deallocated(st, c) ==
  IF ~Contains(st.cursors, c) THEN st
  ELSE tds_release_cursor([st EXCEPT !.cursors = RemoveFirst(@, c)], c)

(* The two drain loops of tds_deinit_connection. *)
RECURSIVE DrainDyns(_)
DrainDyns(st) == IF st.dyns = <<>> THEN st ELSE DrainDyns(tds_dynamic_deallocated(st, Head(st.dyns)))
RECURSIVE DrainCursors(_)
DrainCursors(st) == IF st.cursors = <<>> THEN st ELSE DrainCursors(tds_cursor_deallocated(st, Head(st.cursors)))

DeinitRegistries(st) == DrainCursors(DrainDyns(st))

-----------------------------------------------------------------------------
(* Actions of the callers. *)

Init ==
  /\ reg = InitRegistryState
  /\ dholds = [h \in DynHandles |-> NoDyn]
  /\ cholds = [h \in CursorHandles |-> NoCursor]
  /\ conn_live = TRUE

(* field = tds_alloc_dynamic(conn, id); id is NoId for a generated one. *)
AllocDynamic(h, d, id, mem_ok) ==
  LET out == tds_alloc_dynamic(reg, d, id, mem_ok)
  IN /\ conn_live
     /\ dholds[h] = NoDyn
     /\ d \notin reg.dlive
     /\ reg' = out.st
     /\ dholds' = IF out.ok THEN [dholds EXCEPT ![h] = d] ELSE dholds
     /\ UNCHANGED <<cholds, conn_live>>

(* dst = src; ++src->ref_count (e.g. tds_set_cur_dyn) *)
CopyDynHandle(src, dst) ==
  /\ dholds[src] # NoDyn
  /\ dholds[dst] = NoDyn
  /\ reg' = [reg EXCEPT !.dref[dholds[src]] = @ + 1]
  /\ dholds' = [dholds EXCEPT ![dst] = dholds[src]]
  /\ UNCHANGED <<cholds, conn_live>>

(* tds_release_dynamic(&field) *)
ReleaseDynHandle(h) ==
  /\ dholds[h] # NoDyn
  /\ reg' = tds_release_dynamic(reg, dholds[h])
  /\ dholds' = [dholds EXCEPT ![h] = NoDyn]
  /\ UNCHANGED <<cholds, conn_live>>

(* the server dropped the statement field h refers to *)
DynDeallocated(h) ==
  /\ conn_live
  /\ dholds[h] # NoDyn
  /\ reg' = tds_dynamic_deallocated(reg, dholds[h])
  /\ UNCHANGED <<dholds, cholds, conn_live>>

(* tds_get_dynid called for another connection: inc_num is a global *)
IncNumElsewhere ==
  /\ reg' = [reg EXCEPT !.inc_num = (@ + 1) % IncNumSpace]
  /\ UNCHANGED <<dholds, cholds, conn_live>>

AllocCursor(h, c, name, mem_ok) ==
  LET out == tds_alloc_cursor(reg, c, name, mem_ok)
  IN /\ conn_live
     /\ cholds[h] = NoCursor
     /\ c \notin reg.clive
     /\ reg' = out.st
     /\ cholds' = IF out.ok THEN [cholds EXCEPT ![h] = c] ELSE cholds
     /\ UNCHANGED <<dholds, conn_live>>

CopyCursorHandle(src, dst) ==
  /\ cholds[src] # NoCursor
  /\ cholds[dst] = NoCursor
  /\ reg' = [reg EXCEPT !.cref[cholds[src]] = @ + 1]
  /\ cholds' = [cholds EXCEPT ![dst] = cholds[src]]
  /\ UNCHANGED <<dholds, conn_live>>

ReleaseCursorHandle(h) ==
  /\ cholds[h] # NoCursor
  /\ reg' = tds_release_cursor(reg, cholds[h])
  /\ cholds' = [cholds EXCEPT ![h] = NoCursor]
  /\ UNCHANGED <<dholds, conn_live>>

CursorDeallocated(h) ==
  /\ conn_live
  /\ cholds[h] # NoCursor
  /\ reg' = tds_cursor_deallocated(reg, cholds[h])
  /\ UNCHANGED <<dholds, cholds, conn_live>>

(* tds_deinit_connection: drain both lists *)
DeinitConnection ==
  /\ conn_live
  /\ reg' = DeinitRegistries(reg)
  /\ conn_live' = FALSE
  /\ UNCHANGED <<dholds, cholds>>

Next ==
  \/ \E h \in DynHandles, d \in Dyns, id \in Ids \cup {NoId}, ok \in BOOLEAN : AllocDynamic(h, d, id, ok)
  \/ \E src, dst \in DynHandles : CopyDynHandle(src, dst)
  \/ \E h \in DynHandles : ReleaseDynHandle(h) \/ DynDeallocated(h)
  \/ IncNumElsewhere
  \/ \E h \in CursorHandles, c \in Cursors, n \in CursorNames, ok \in BOOLEAN : AllocCursor(h, c, n, ok)
  \/ \E src, dst \in CursorHandles : CopyCursorHandle(src, dst)
  \/ \E h \in CursorHandles : ReleaseCursorHandle(h) \/ CursorDeallocated(h)
  \/ DeinitConnection

Spec == Init /\ [][Next]_vars

-----------------------------------------------------------------------------
TypeOK ==
  /\ reg \in RegistryState
  /\ dholds \in [DynHandles -> Dyns \cup {NoDyn}]
  /\ cholds \in [CursorHandles -> Cursors \cup {NoCursor}]
  /\ conn_live \in BOOLEAN

(***************************************************************************)
(* Ownership of registry entries, whatever order the server, the facade   *)
(* and the teardown release them in: every listed entry is live and listed *)
(* once, no handle points to freed memory, ref_count is exactly one for    *)
(* the list plus one per handle (so an entry is freed exactly when the     *)
(* last of them lets go, never while listed), and once the connection is  *)
(* torn down nothing is left in either list.                               *)
(***************************************************************************)
OwnershipIn(list, live, ref, hmap, H, none) ==
  /\ IsInjective(list)
  /\ ToSet(list) \subseteq live
  /\ \A h \in H : hmap[h] # none => hmap[h] \in live
  /\ \A x \in live : ref[x] = (IF Contains(list, x) THEN 1 ELSE 0)
                              + Cardinality({h \in H : hmap[h] = x})

RegistryOwnership ==
  /\ OwnershipIn(reg.dyns, reg.dlive, reg.dref, dholds, DynHandles, NoDyn)
  /\ OwnershipIn(reg.cursors, reg.clive, reg.cref, cholds, CursorHandles, NoCursor)
  /\ ~conn_live => reg.dyns = <<>> /\ reg.cursors = <<>>

(***************************************************************************)
(* Refinement: who owns each entry (its handles, and "list" while it is   *)
(* linked), mapped onto the abstract owned objects.                        *)
(***************************************************************************)
DynOwnerSets ==
  [d \in Dyns |-> {h \in DynHandles : dholds[h] = d}
                  \cup (IF Contains(reg.dyns, d) THEN {"list"} ELSE {})]
CursorOwnerSets ==
  [c \in Cursors |-> {h \in CursorHandles : cholds[h] = c}
                     \cup (IF Contains(reg.cursors, c) THEN {"list"} ELSE {})]

DynObjects == INSTANCE OwnedObjects
  WITH Objs <- Dyns, Owners <- DynHandles \cup {"list"},
       live <- reg.dlive, owners <- DynOwnerSets
CursorObjects == INSTANCE OwnedObjects
  WITH Objs <- Cursors, Owners <- CursorHandles \cup {"list"},
       live <- reg.clive, owners <- CursorOwnerSets

(***************************************************************************)
(* Statements and cursors implement the abstract owned objects: through   *)
(* every allocation, handle copy, release, server deallocation and the    *)
(* teardown drain, an entry is created with its list and caller as owners, *)
(* gains owners only while allocated, and ref_count frees it exactly at    *)
(* the step its last owner lets go.                                        *)
(***************************************************************************)
RegistryRefinesOwnership == DynObjects!OSpec /\ CursorObjects!OSpec

(***************************************************************************)
(* No two prepared statements of a connection share an id (the server and *)
(* tds_lookup_dynamic tell them apart by it): a given id is refused when   *)
(* taken and a generated one is retried.                                   *)
(***************************************************************************)
DynIdsUnique ==
  \A i, j \in 1 .. Len(reg.dyns) : i # j => reg.did[reg.dyns[i]] # reg.did[reg.dyns[j]]

=============================================================================

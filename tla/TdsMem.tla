------------------------------- MODULE TdsMem -------------------------------
(***************************************************************************)
(* The object model of src/tds/mem.c put together: a MARS connection with *)
(* its sessions (Connection), the result infos they own and are attached   *)
(* to (ResultInfo), and the connection's prepared statements and cursors   *)
(* (Registry), each of which owns a result info of its own.                *)
(*                                                                         *)
(* The three components interact in the teardown handlers: releasing a   *)
(* statement or cursor frees its result info, tds_free_socket releases the *)
(* session's cur_dyn and cur_cursor, detaches and frees its results, and   *)
(* removing the last session frees the connection, whose deinit drains     *)
(* both registries.  Each handler is one action built from the component  *)
(* transformers in the order the code calls them.                          *)
(*                                                                         *)
(* The whole memory is the record `Mem`; composed transformers map one     *)
(* Mem to the next and Apply sets the variables from the result.           *)
(***************************************************************************)
EXTENDS Naturals, Sequences, FiniteSets
LOCAL INSTANCE SequencesExt

CONSTANTS
  Sockets, SlotChunk, FailingAllocs, NoSocket,          \* Connection
  Results, NoResult,                                    \* ResultInfo
  Dyns, Cursors, UserIds, TruncateId, CursorNames,      \* Registry
  IncNumSpace, MaxDynIdTries, DynHandles, CursorHandles,
  NoDyn, NoCursor, NoId,
  SessFields   \* the session's result fields a run includes (see below)

VARIABLES
  conn, sock, fault,   \* the connection, its session slots and the sessions
  res,                 \* the result infos and their attachment
  reg,                 \* conn->dyns, conn->cursors and their reference counts
  sfield,              \* sfield[s][f]: tds->res_info, param_info, comp_info[0]
  cur_dyn,             \* tds->cur_dyn
  cur_cursor,          \* tds->cur_cursor
  dres,                \* dyn->res_info
  cres,                \* cursor->res_info
  dholds,              \* facade fields holding a TDSDYNAMIC
  cholds               \* facade fields holding a TDSCURSOR

vars == <<conn, sock, fault, res, reg, sfield, cur_dyn, cur_cursor, dres, cres, dholds, cholds>>

(* tds->res_info, tds->param_info and tds->comp_info[0] are handled alike *)
(* by every function here; a run may leave some out to stay small.        *)
ASSUME SessFields \subseteq {"res", "param", "comp"} /\ "res" \in SessFields

(* every pointer field that owns a reference to a result info *)
ResultFields ==
  {<<"sess", s, f>> : s \in Sockets, f \in SessFields} \cup
  {<<"dyn", d>> : d \in Dyns} \cup {<<"cursor", c>> : c \in Cursors}

HoldsIn(w) ==
  [h \in ResultFields |->
     CASE h[1] = "sess" -> w.sfield[h[2]][h[3]]
       [] h[1] = "dyn"  -> w.dres[h[2]]
       [] OTHER         -> w.cres[h[2]]]

Mem == [conn |-> conn, sock |-> sock, fault |-> fault, res |-> res, reg |-> reg,
        sfield |-> sfield, cur_dyn |-> cur_dyn, cur_cursor |-> cur_cursor,
        dres |-> dres, cres |-> cres]

C  == INSTANCE Connection
RI == INSTANCE ResultInfo WITH Sessions <- Sockets, NoSession <- NoSocket,
                               Holders <- ResultFields, holds <- HoldsIn(Mem)
R  == INSTANCE Registry WITH conn_live <- (conn.state = "live")

Apply(w) ==
  /\ conn' = w.conn /\ sock' = w.sock /\ fault' = w.fault
  /\ res' = w.res /\ reg' = w.reg /\ sfield' = w.sfield
  /\ cur_dyn' = w.cur_dyn /\ cur_cursor' = w.cur_cursor
  /\ dres' = w.dres /\ cres' = w.cres

-----------------------------------------------------------------------------
(* detach the result info r and drop one reference to it *)
DetachAndFree(st, r) == RI!tds_free_results(RI!tds_detach_results(st, r), r)

(* Defect variant: the statement's result info is left allocated. *)
ReleaseDynamicKeepResults(w, d) ==
  IF d = NoDyn THEN w
  ELSE [w EXCEPT !.reg = R!tds_release_dynamic(w.reg, d)]

(***************************************************************************)
(* tds_release_dynamic: drop one reference; the last one detaches and     *)
(* frees dyn->res_info (dyn->params and the query text are abstracted).   *)
(***************************************************************************)
ReleaseDynamic(w, d) ==
  IF d = NoDyn THEN w
  ELSE LET r == R!tds_release_dynamic(w.reg, d)
       IN IF d \in r.dlive THEN [w EXCEPT !.reg = r]
          ELSE [w EXCEPT !.reg = r, !.res = DetachAndFree(w.res, w.dres[d]),
                         !.dres[d] = NoResult]

(* tds_release_cursor: the same for a cursor and cursor->res_info *)
ReleaseCursor(w, c) ==
  IF c = NoCursor THEN w
  ELSE LET r == R!tds_release_cursor(w.reg, c)
       IN IF c \in r.clive THEN [w EXCEPT !.reg = r]
          ELSE [w EXCEPT !.reg = r, !.res = DetachAndFree(w.res, w.cres[c]),
                         !.cres[c] = NoResult]

(* Defect variant: the list's reference is released even if d is unlisted. *)
DynamicDeallocatedUnchecked(w, d) ==
  ReleaseDynamic([w EXCEPT !.reg.dyns = RemoveFirst(@, d)], d)

(* tds_dynamic_deallocated / tds_cursor_deallocated: unlink, then release *)
DynamicDeallocated(w, d) ==
  IF ~Contains(w.reg.dyns, d) THEN w
  ELSE ReleaseDynamic([w EXCEPT !.reg.dyns = RemoveFirst(@, d)], d)

CursorDeallocated(w, c) ==
  IF ~Contains(w.reg.cursors, c) THEN w
  ELSE ReleaseCursor([w EXCEPT !.reg.cursors = RemoveFirst(@, c)], c)

(* tds_deinit_connection: drain conn->dyns, then conn->cursors *)
RECURSIVE DrainDyns(_), DrainCursors(_)
DrainDyns(w) ==
  IF w.reg.dyns = <<>> THEN w ELSE DrainDyns(DynamicDeallocated(w, Head(w.reg.dyns)))
DrainCursors(w) ==
  IF w.reg.cursors = <<>> THEN w ELSE DrainCursors(CursorDeallocated(w, Head(w.reg.cursors)))

DeinitConnection(w) == DrainCursors(DrainDyns(w))

(***************************************************************************)
(* tds_free_all_results: detach and free res_info, param_info and the     *)
(* compute results, clear in_row, and detach cur_dyn's result info.       *)
(***************************************************************************)
FreeAllResults(w, s) ==
  LET Field(st, g) == IF g \in SessFields THEN DetachAndFree(st, w.sfield[s][g]) ELSE st
      st == Field(Field(Field(w.res, "res"), "param"), "comp")
      st2 == [st EXCEPT !.in_row[s] = FALSE]
  IN [w EXCEPT !.sfield[s] = [g \in SessFields |-> NoResult],
               !.res = IF w.cur_dyn[s] # NoDyn
                       THEN RI!tds_detach_results(st2, w.dres[w.cur_dyn[s]])
                       ELSE st2]

(* Defect variant: tds->current_results is not detached first. *)
FreeSocketNoDetach(w, s) ==
  IF ~w.sock.attached[s] THEN [w EXCEPT !.fault = TRUE]
  ELSE LET w1 == ReleaseDynamic([w EXCEPT !.cur_dyn[s] = NoDyn], w.cur_dyn[s])
           w2 == ReleaseCursor([w1 EXCEPT !.cur_cursor[s] = NoCursor], w1.cur_cursor[s])
           w4 == FreeAllResults(w2, s)
           rm == C!tds_connection_remove_socket(w4.conn, w4.sock, s)
           w5 == [w4 EXCEPT !.conn = rm.conn, !.sock = [rm.sock EXCEPT !.live = @ \ {s}]]
       IN IF rm.conn.state = "freed" THEN DeinitConnection(w5) ELSE w5

(* Defect variant: tds->cur_dyn is not released. *)
FreeSocketKeepCurDyn(w, s) ==
  IF ~w.sock.attached[s] THEN [w EXCEPT !.fault = TRUE]
  ELSE LET w2 == ReleaseCursor([w EXCEPT !.cur_cursor[s] = NoCursor], w.cur_cursor[s])
           w3 == [w2 EXCEPT !.res = RI!tds_detach_results(@, @.current_results[s])]
           w4 == FreeAllResults(w3, s)
           rm == C!tds_connection_remove_socket(w4.conn, w4.sock, s)
           w5 == [w4 EXCEPT !.conn = rm.conn, !.sock = [rm.sock EXCEPT !.live = @ \ {s}]]
       IN IF rm.conn.state = "freed" THEN DeinitConnection(w5) ELSE w5

(***************************************************************************)
(* tds_free_socket: release cur_dyn (tds_release_cur_dyn) and cur_cursor, *)
(* detach the current result, free all results, remove the session from   *)
(* the connection (freeing and deinitialising the connection if it was    *)
(* the last), then free the session.  With tds->conn NULL the removal     *)
(* dereferences NULL.                                                      *)
(***************************************************************************)
FreeSocket(w, s) ==
  IF ~w.sock.attached[s] THEN [w EXCEPT !.fault = TRUE]
  ELSE LET w1 == ReleaseDynamic([w EXCEPT !.cur_dyn[s] = NoDyn], w.cur_dyn[s])
           w2 == ReleaseCursor([w1 EXCEPT !.cur_cursor[s] = NoCursor], w1.cur_cursor[s])
           w3 == [w2 EXCEPT !.res = RI!tds_detach_results(@, @.current_results[s])]
           w4 == FreeAllResults(w3, s)
           rm == C!tds_connection_remove_socket(w4.conn, w4.sock, s)
           w5 == [w4 EXCEPT !.conn = rm.conn, !.sock = [rm.sock EXCEPT !.live = @ \ {s}]]
       IN IF rm.conn.state = "freed" THEN DeinitConnection(w5) ELSE w5

-----------------------------------------------------------------------------
(* Callers: the facade and the token layer (outside src/, from the        *)
(* specification), and the session owner.                                 *)

Init ==
  /\ conn = C!InitConn /\ sock = C!InitSock /\ fault = FALSE
  /\ res = RI!InitResultState
  /\ reg = R!InitRegistryState
  /\ sfield = [s \in Sockets |-> [f \in SessFields |-> NoResult]]
  /\ cur_dyn = [s \in Sockets |-> NoDyn]
  /\ cur_cursor = [s \in Sockets |-> NoCursor]
  /\ dres = [d \in Dyns |-> NoResult]
  /\ cres = [c \in Cursors |-> NoResult]
  /\ dholds = [h \in DynHandles |-> NoDyn]
  /\ cholds = [h \in CursorHandles |-> NoCursor]

(* a session its owner can drive: live, on a live connection *)
Usable(s) == ~fault /\ s \in sock.live /\ sock.attached[s] /\ conn.state = "live"

(* the result info fields a session's token processing reaches *)
Reachable(s) ==
  {<<"sess", s, f>> : f \in SessFields}
  \cup (IF cur_dyn[s] # NoDyn THEN {<<"dyn", cur_dyn[s]>>} ELSE {})
  \cup (IF cur_cursor[s] # NoCursor THEN {<<"cursor", cur_cursor[s]>>} ELSE {})

SetField(w, h, r) ==
  CASE h[1] = "sess" -> [w EXCEPT !.sfield[h[2]][h[3]] = r]
    [] h[1] = "dyn"  -> [w EXCEPT !.dres[h[2]] = r]
    [] OTHER         -> [w EXCEPT !.cres[h[2]] = r]

(* tds_alloc_socket: a new connection and its primary session *)
AllocSocket(s) ==
  /\ C!AllocSocket(s)
  /\ UNCHANGED <<res, reg, sfield, cur_dyn, cur_cursor, dres, cres, dholds, cholds>>

(* tds_alloc_additional_socket: a failure after the base socket exists    *)
(* frees it with the whole of tds_free_socket                              *)
AllocAdditionalSocket(s) ==
  /\ ~fault
  /\ conn.state = "live"
  /\ \E t \in sock.live : sock.attached[t]
  /\ s \notin sock.live
  /\ \E sock_ok \in C!Outcomes("socket"), init_ok \in C!Outcomes("socket_init"),
        grow_ok \in C!Outcomes("sid_array"), syn_ok \in C!Outcomes("syn") :
       LET base == [Mem EXCEPT !.sock = [sock EXCEPT !.live = @ \cup {s}, !.sid[s] = 0,
                                                      !.attached[s] = TRUE]]
           sid  == C!tds_alloc_new_sid(conn, base.sock, s, grow_ok)
           got  == [base EXCEPT !.conn = sid.conn, !.sock = sid.sock]
       IN CASE ~sock_ok -> UNCHANGED vars
            [] ~init_ok -> /\ fault' = TRUE
                           /\ UNCHANGED <<conn, sock, res, reg, sfield, cur_dyn, cur_cursor, dres, cres, dholds, cholds>>
            [] ~sid.ok \/ ~syn_ok -> Apply(FreeSocket(got, s)) /\ UNCHANGED <<dholds, cholds>>
            [] OTHER -> Apply(got) /\ UNCHANGED <<dholds, cholds>>

(* the owner of session s calls tds_free_socket *)
CloseSession(s) ==
  /\ ~fault
  /\ s \in sock.live
  /\ Apply(FreeSocket(Mem, s))
  /\ UNCHANGED <<dholds, cholds>>

(* token layer: info = tds_alloc_results(); field = info; tds_set_current_results(tds, info) *)
NewResult(s, h, r) ==
  /\ Usable(s)
  /\ h \in Reachable(s)
  /\ HoldsIn(Mem)[h] = NoResult
  /\ r \notin res.live
  /\ Apply(SetField([Mem EXCEPT !.res = RI!tds_set_current_results(RI!tds_alloc_results(res, r), s, r)], h, r))
  /\ UNCHANGED <<dholds, cholds>>

(* token layer: dst = src; ++src->ref_count *)
ShareResult(s, src, dst) ==
  LET r == HoldsIn(Mem)[src]
  IN /\ Usable(s)
     /\ {src, dst} \subseteq Reachable(s)
     /\ r # NoResult
     /\ HoldsIn(Mem)[dst] = NoResult
     /\ Apply(SetField([Mem EXCEPT !.res.ref_count[r] = @ + 1], dst, r))
     /\ UNCHANGED <<dholds, cholds>>

(* token layer: tds_set_current_results(tds, field) *)
SetCurrent(s, h) ==
  /\ Usable(s)
  /\ h \in Reachable(s)
  /\ res' = RI!tds_set_current_results(res, s, HoldsIn(Mem)[h])
  /\ UNCHANGED <<conn, sock, fault, reg, sfield, cur_dyn, cur_cursor, dres, cres, dholds, cholds>>

(* token layer, at the start of a new response: tds_free_all_results(tds) *)
TokenFreeAllResults(s) ==
  /\ Usable(s)
  /\ Apply(FreeAllResults(Mem, s))
  /\ UNCHANGED <<dholds, cholds>>

(* facade: field = tds_alloc_dynamic(tds->conn, id) *)
AllocDynamic(s, h, d, id, mem_ok) ==
  LET out == R!tds_alloc_dynamic(reg, d, id, mem_ok)
  IN /\ Usable(s)
     /\ dholds[h] = NoDyn
     /\ d \notin reg.dlive
     /\ reg' = out.st
     /\ dholds' = IF out.ok THEN [dholds EXCEPT ![h] = d] ELSE dholds
     /\ UNCHANGED <<conn, sock, fault, res, sfield, cur_dyn, cur_cursor, dres, cres, cholds>>

(* facade: tds_set_cur_dyn(tds, field): ++ref_count, release the old one *)
SetCurDyn(s, h) ==
  LET d == dholds[h]
  IN /\ Usable(s)
     /\ d # NoDyn
     /\ Apply([ReleaseDynamic([Mem EXCEPT !.reg.dref[d] = @ + 1], cur_dyn[s])
                 EXCEPT !.cur_dyn[s] = d])
     /\ UNCHANGED <<dholds, cholds>>

(* facade: tds_release_dynamic(&field) *)
ReleaseDynHandle(h) ==
  /\ ~fault
  /\ dholds[h] # NoDyn
  /\ Apply(ReleaseDynamic(Mem, dholds[h]))
  /\ dholds' = [dholds EXCEPT ![h] = NoDyn]
  /\ UNCHANGED cholds

(* token layer: the server reports statement d dropped (perhaps again) *)
DynDropped(d) ==
  /\ ~fault
  /\ conn.state = "live"
  /\ d \in reg.dlive
  /\ Apply(DynamicDeallocated(Mem, d))
  /\ UNCHANGED <<dholds, cholds>>

(* facade: field = tds_alloc_cursor(tds, name, ...) *)
AllocCursor(s, h, c, name, mem_ok) ==
  LET out == R!tds_alloc_cursor(reg, c, name, mem_ok)
  IN /\ Usable(s)
     /\ cholds[h] = NoCursor
     /\ c \notin reg.clive
     /\ reg' = out.st
     /\ cholds' = IF out.ok THEN [cholds EXCEPT ![h] = c] ELSE cholds
     /\ UNCHANGED <<conn, sock, fault, res, sfield, cur_dyn, cur_cursor, dres, cres, dholds>>

(* facade: tds_set_cur_cursor(tds, field) *)
SetCurCursor(s, h) ==
  LET c == cholds[h]
  IN /\ Usable(s)
     /\ c # NoCursor
     /\ Apply([ReleaseCursor([Mem EXCEPT !.reg.cref[c] = @ + 1], cur_cursor[s])
                 EXCEPT !.cur_cursor[s] = c])
     /\ UNCHANGED <<dholds, cholds>>

ReleaseCursorHandle(h) ==
  /\ ~fault
  /\ cholds[h] # NoCursor
  /\ Apply(ReleaseCursor(Mem, cholds[h]))
  /\ cholds' = [cholds EXCEPT ![h] = NoCursor]
  /\ UNCHANGED dholds

CursorDropped(c) ==
  /\ ~fault
  /\ conn.state = "live"
  /\ c \in reg.clive
  /\ Apply(CursorDeallocated(Mem, c))
  /\ UNCHANGED <<dholds, cholds>>

Next ==
  \/ \E s \in Sockets : AllocSocket(s) \/ AllocAdditionalSocket(s) \/ CloseSession(s)
  \/ \E s \in Sockets, h \in ResultFields, r \in Results : NewResult(s, h, r)
  \/ \E s \in Sockets, src, dst \in ResultFields : ShareResult(s, src, dst)
  \/ \E s \in Sockets, h \in ResultFields : SetCurrent(s, h)
  \/ \E s \in Sockets : TokenFreeAllResults(s)
  \/ \E s \in Sockets, h \in DynHandles, d \in Dyns, id \in R!Ids \cup {NoId}, ok \in BOOLEAN :
       AllocDynamic(s, h, d, id, ok)
  \/ \E s \in Sockets, h \in DynHandles : SetCurDyn(s, h)
  \/ \E h \in DynHandles : ReleaseDynHandle(h)
  \/ \E d \in Dyns : DynDropped(d)
  \/ \E s \in Sockets, h \in CursorHandles, c \in Cursors, n \in CursorNames, ok \in BOOLEAN :
       AllocCursor(s, h, c, n, ok)
  \/ \E s \in Sockets, h \in CursorHandles : SetCurCursor(s, h)
  \/ \E h \in CursorHandles : ReleaseCursorHandle(h)
  \/ \E c \in Cursors : CursorDropped(c)

Spec == Init /\ [][Next]_vars

-----------------------------------------------------------------------------
TypeOK ==
  /\ conn \in C!ConnState /\ sock \in C!SockState /\ fault \in BOOLEAN
  /\ res \in RI!ResultState
  /\ reg \in R!RegistryState
  /\ sfield \in [Sockets -> [SessFields -> Results \cup {NoResult}]]
  /\ cur_dyn \in [Sockets -> Dyns \cup {NoDyn}]
  /\ cur_cursor \in [Sockets -> Cursors \cup {NoCursor}]
  /\ dres \in [Dyns -> Results \cup {NoResult}]
  /\ cres \in [Cursors -> Results \cup {NoResult}]
  /\ dholds \in [DynHandles -> Dyns \cup {NoDyn}]
  /\ cholds \in [CursorHandles -> Cursors \cup {NoCursor}]

(***************************************************************************)
(* No result info is left attached to a freed session, whichever owner    *)
(* (the session, a prepared statement, a cursor) holds it, and attachment *)
(* stays a consistent back-reference: the spec's rule that an object      *)
(* detaches from its session before the session is freed, which the       *)
(* ENABLE_EXTRA_CHECKS asserts of tds_free_socket test for statements and *)
(* cursors.                                                                *)
(***************************************************************************)
NoResultAttachedToFreedSession ==
  /\ RI!AttachmentConsistentIn(res)
  /\ \A r \in Results : res.attached_to[r] # NoSocket => res.attached_to[r] \in sock.live

(***************************************************************************)
(* Result infos are owned exactly by the fields that point to them, across *)
(* teardown: the fields of freed sessions, statements and cursors are     *)
(* NULL, no field points to a freed result, and ref_count equals the      *)
(* number of fields holding it (no leak, no premature free).               *)
(***************************************************************************)
ResultOwnership ==
  /\ RI!RefCountMatchesHoldersIn(res, HoldsIn(Mem), ResultFields)
  /\ \A s \in Sockets \ sock.live : \A f \in SessFields : sfield[s][f] = NoResult
  /\ \A d \in Dyns \ reg.dlive : dres[d] = NoResult
  /\ \A c \in Cursors \ reg.clive : cres[c] = NoResult

(* owners of statement and cursor references: facade fields and the       *)
(* cur_dyn / cur_cursor of live sessions                                  *)
DynOwners == [h \in DynHandles \cup Sockets |->
                IF h \in DynHandles THEN dholds[h]
                ELSE IF h \in sock.live THEN cur_dyn[h] ELSE NoDyn]
CursorOwners == [h \in CursorHandles \cup Sockets |->
                   IF h \in CursorHandles THEN cholds[h]
                   ELSE IF h \in sock.live THEN cur_cursor[h] ELSE NoCursor]

(***************************************************************************)
(* Statements and cursors are counted once for the connection's list and  *)
(* once per owner, including sessions' cur_dyn / cur_cursor, whatever the *)
(* order of session close, facade release, server drop and connection     *)
(* teardown; freed sessions hold none; after teardown the lists are empty. *)
(***************************************************************************)
RegistryOwnership ==
  /\ R!OwnershipIn(reg.dyns, reg.dlive, reg.dref, DynOwners, DynHandles \cup Sockets, NoDyn)
  /\ R!OwnershipIn(reg.cursors, reg.clive, reg.cref, CursorOwners, CursorHandles \cup Sockets, NoCursor)
  /\ \A s \in Sockets \ sock.live : cur_dyn[s] = NoDyn /\ cur_cursor[s] = NoCursor
  /\ conn.state # "live" => reg.dyns = <<>> /\ reg.cursors = <<>>

====

----------------------------- MODULE ResultInfo -----------------------------
(***************************************************************************)
(* The reference-counted result-set object (TDSRESULTINFO) and its         *)
(* attachment to a session (src/tds/mem.c).                                *)
(*                                                                         *)
(* A result info is owned through pointer fields ("holders": tds->res_info,*)
(* dyn->res_info, cursor->res_info, bcpinfo->bindinfo, ...) and counted in *)
(* ref_count.  Independently of ownership a result may be attached to one  *)
(* session: info->attached_to = tds and tds->current_results = info.       *)
(*                                                                         *)
(* The C functions are written as transformers of the state record `res`, *)
(* so that composed modules can apply them in the order the code calls     *)
(* them inside one handler.  The actions below are those of the token      *)
(* layer, the only caller of these functions; it is outside src/ and is    *)
(* modelled from the specification: it stores a fresh result in an empty  *)
(* holder field, shares a result between two fields (++ref_count), makes a *)
(* held result current, and drops a field with or without detaching.      *)
(***************************************************************************)
EXTENDS Naturals, FiniteSets

CONSTANTS
  Sessions,   \* TDSSOCKET objects
  Results,    \* addresses a TDSRESULTINFO may be allocated at (reused after free)
  Holders,    \* pointer fields that own a reference to a result info
  NoSession,  \* NULL TDSSOCKET *
  NoResult    \* NULL TDSRESULTINFO *

ASSUME NoSession \notin Sessions /\ NoResult \notin Results

VARIABLES
  res,    \* the result infos: live set, ref_count, attached_to; per session current_results, in_row
  holds   \* holds[h]: the result info pointer field h refers to

vars == <<res, holds>>

ResultState ==
  [live: SUBSET Results,
   ref_count: [Results -> Nat],
   attached_to: [Results -> Sessions \cup {NoSession}],
   current_results: [Sessions -> Results \cup {NoResult}],
   in_row: [Sessions -> BOOLEAN]]

InitResultState ==
  [live |-> {},
   ref_count |-> [r \in Results |-> 0],
   attached_to |-> [r \in Results |-> NoSession],
   current_results |-> [s \in Sessions |-> NoResult],
   in_row |-> [s \in Sessions |-> FALSE]]

(* Defect variant: res_info->ref_count is left at calloc's 0. *)
tds_alloc_results_no_ref(st, r) ==
  [st EXCEPT !.live = @ \cup {r}, !.attached_to[r] = NoSession]

(***************************************************************************)
(* tds_alloc_results: a fresh object with ref_count 1, attached nowhere    *)
(* (calloc).  Column allocation is abstracted: it either all succeeds or   *)
(* the object is freed again and NULL returned, leaving `st` as it was.    *)
(***************************************************************************)
tds_alloc_results(st, r) ==
  [st EXCEPT !.live = @ \cup {r},
             !.ref_count[r] = 1,
             !.attached_to[r] = NoSession]

(* tds_detach_results: clear both ends of info's attachment, if any. *)
tds_detach_results(st, r) ==
  IF r # NoResult /\ st.attached_to[r] # NoSession
  THEN LET s == st.attached_to[r]
       IN [st EXCEPT !.current_results[s] = NoResult,
                     !.in_row[s] = FALSE,
                     !.attached_to[r] = NoSession]
  ELSE st

(***************************************************************************)
(* tds_set_current_results: detach info from its old session, detach the   *)
(* session's old result, then link the two.                                *)
(***************************************************************************)
tds_set_current_results(st, s, r) ==
  LET d   == tds_detach_results(st, r)
      old == d.current_results[s]
      d2  == IF old # NoResult THEN [d EXCEPT !.attached_to[old] = NoSession] ELSE d
  IN [d2 EXCEPT !.attached_to = IF r # NoResult THEN [@ EXCEPT ![r] = s] ELSE @,
                !.in_row[s] = (r # NoResult),
                !.current_results[s] = r]

(* Defect variants of tds_free_results: the last reference frees the      *)
(* object without detaching it; every call frees regardless of ref_count. *)
tds_free_results_no_detach(st, r) ==
  IF r = NoResult THEN st
  ELSE IF st.ref_count[r] - 1 # 0
       THEN [st EXCEPT !.ref_count[r] = @ - 1]
       ELSE [st EXCEPT !.ref_count[r] = 0, !.live = @ \ {r}]

tds_free_results_ignore_count(st, r) ==
  IF r = NoResult THEN st
  ELSE [tds_detach_results(st, r) EXCEPT !.ref_count[r] = 0, !.live = @ \ {r}]

(***************************************************************************)
(* tds_free_results: drop one reference; the last one detaches the object  *)
(* and frees it (columns, row and bcp data are abstracted away).           *)
(***************************************************************************)
tds_free_results(st, r) ==
  IF r = NoResult THEN st
  ELSE IF st.ref_count[r] - 1 # 0
       THEN [st EXCEPT !.ref_count[r] = @ - 1]
       ELSE [tds_detach_results(st, r) EXCEPT !.ref_count[r] = 0,
                                              !.live = @ \ {r}]

-----------------------------------------------------------------------------
(* Actions of the token layer (the callers of the functions above). *)

Init ==
  /\ res = InitResultState
  /\ holds = [h \in Holders |-> NoResult]

(* info = tds_alloc_results(n); field = info; *)
AllocInto(h, r) ==
  /\ holds[h] = NoResult
  /\ r \notin res.live
  /\ res' = tds_alloc_results(res, r)
  /\ holds' = [holds EXCEPT ![h] = r]

(* dst = src; ++src->ref_count; *)
Share(src, dst) ==
  /\ holds[src] # NoResult
  /\ holds[dst] = NoResult
  /\ res' = [res EXCEPT !.ref_count[holds[src]] = @ + 1]
  /\ holds' = [holds EXCEPT ![dst] = holds[src]]

(* tds_set_current_results(tds, field) *)
SetCurrent(s, h) ==
  /\ res' = tds_set_current_results(res, s, holds[h])
  /\ UNCHANGED holds

(* tds_set_current_results(tds, NULL) *)
ClearCurrent(s) ==
  /\ res' = tds_set_current_results(res, s, NoResult)
  /\ UNCHANGED holds

(* tds_free_results(field); field = NULL; *)
Drop(h) ==
  /\ holds[h] # NoResult
  /\ res' = tds_free_results(res, holds[h])
  /\ holds' = [holds EXCEPT ![h] = NoResult]

(* tds_detach_results(field); tds_free_results(field); field = NULL; *)
DetachAndDrop(h) ==
  /\ holds[h] # NoResult
  /\ res' = tds_free_results(tds_detach_results(res, holds[h]), holds[h])
  /\ holds' = [holds EXCEPT ![h] = NoResult]

Next ==
  \/ \E h \in Holders, r \in Results : AllocInto(h, r)
  \/ \E src, dst \in Holders : Share(src, dst)
  \/ \E s \in Sessions, h \in Holders : SetCurrent(s, h)
  \/ \E s \in Sessions : ClearCurrent(s)
  \/ \E h \in Holders : Drop(h)
  \/ \E h \in Holders : DetachAndDrop(h)

Spec == Init /\ [][Next]_vars

-----------------------------------------------------------------------------
(* Properties, stated over a result state and a holder map so that        *)
(* composed modules can check them with their own holders.                *)

TypeOK ==
  /\ res \in ResultState
  /\ holds \in [Holders -> Results \cup {NoResult}]

(***************************************************************************)
(* Attachment is a consistent, one-to-one back-reference between live      *)
(* objects: tds->current_results and info->attached_to always name each    *)
(* other, never a freed result info, and in_row is set only while a result *)
(* is current.  Breaks if tds_set_current_results forgets to unlink either *)
(* old end, or tds_free_results frees an attached object (dangling         *)
(* tds->current_results).                                                  *)
(***************************************************************************)
AttachmentConsistentIn(st) ==
  /\ \A s \in Sessions :
       /\ st.current_results[s] # NoResult =>
            /\ st.current_results[s] \in st.live
            /\ st.attached_to[st.current_results[s]] = s
       /\ st.in_row[s] => st.current_results[s] # NoResult
  /\ \A r \in Results :
       st.attached_to[r] # NoSession =>
         /\ r \in st.live
         /\ st.current_results[st.attached_to[r]] = r

AttachmentConsistent == AttachmentConsistentIn(res)

(***************************************************************************)
(* ref_count of every live result info equals the number of pointer fields *)
(* that own it, and no field points to freed memory: the object is freed  *)
(* exactly when its last owner lets it go.                                 *)
(***************************************************************************)
RefCountMatchesHoldersIn(st, hmap, H) ==
  /\ \A h \in H : hmap[h] # NoResult => hmap[h] \in st.live
  /\ \A r \in st.live : st.ref_count[r] = Cardinality({h \in H : hmap[h] = r})

RefCountMatchesHolders == RefCountMatchesHoldersIn(res, holds, Holders)

=============================================================================

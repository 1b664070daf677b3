---------------------------- MODULE RegistryRace ----------------------------
(***************************************************************************)
(* The prepared-statement registry of one connection (conn->dyns, the     *)
(* global id counter inc_num and each TDSDYNAMIC's ref_count, in          *)
(* src/tds/mem.c) used by the threads driving the connection's sessions.  *)
(* Specification section 5 has list mutations take the connection mutex   *)
(* and reference counts change atomically; in the code tds_alloc_dynamic, *)
(* tds_get_dynid, tds_dynamic_deallocated and tds_release_dynamic take no *)
(* lock.  So each of them is split here at the loads and stores another   *)
(* thread can come between:                                                *)
(*   inc_num = (inc_num + 1) & 0xffff         load, then store            *)
(*   n += 3u * inc_num                        a second read of inc_num    *)
(*   lookup, calloc, dyn->next = conn->dyns   one step                    *)
(*   conn->dyns = dyn                         the store of the head       *)
(*   strlcpy(dyn->id, id, ...)                after the entry is linked   *)
(*   --dyn->ref_count > 0                     load, then store and test   *)
(* Unlinking in tds_dynamic_deallocated is kept one step.  A statement id *)
(* is the value of inc_num it was generated from (the encoding is         *)
(* injective in inc_num for one connection), NoId the empty id of a fresh *)
(* calloc.  Each thread keeps at most one handle (its *pdyn).             *)
(***************************************************************************)
EXTENDS Integers, Sequences, FiniteSets
LOCAL INSTANCE SequencesExt

CONSTANTS
  Threads,        \* the threads driving the connection's sessions
  Dyns,           \* addresses a TDSDYNAMIC may be allocated at
  IncNumSpace,    \* values of inc_num (0x10000 in the code)
  MaxDynIdTries,  \* tries of the id generation loop (256 in the code)
  NoDyn, NoId

Ids == 0 .. IncNumSpace - 1

ASSUME IncNumSpace \in Nat \ {0} /\ MaxDynIdTries \in Nat \ {0}
       /\ NoDyn \notin Dyns /\ NoId \notin Ids

VARIABLES
  inc_num,  \* the file-static counter of tds_get_dynid
  dyns,     \* conn->dyns, head first
  dlive,    \* the allocated TDSDYNAMICs
  dref,     \* dref[d]: d->ref_count
  did,      \* did[d]: d->id
  handle,   \* handle[t]: the statement thread t's handle points to
  pc,       \* pc[t]: where thread t is inside a registry function
  loaded,   \* loaded[t]: the inc_num or ref_count thread t loaded
  tries,    \* tries[t]: n of tds_alloc_dynamic's loop
  cur,      \* cur[t]: the statement thread t is linking or releasing
  head,     \* head[t]: the conn->dyns thread t stored in dyn->next
  gid       \* gid[t]: the id tds_get_dynid built for thread t

vars == <<inc_num, dyns, dlive, dref, did, handle, pc, loaded, tries, cur, head, gid>>

Init ==
  /\ inc_num = 1 % IncNumSpace
  /\ dyns = <<>>
  /\ dlive = {}
  /\ dref = [d \in Dyns |-> 0]
  /\ did = [d \in Dyns |-> NoId]
  /\ handle = [t \in Threads |-> NoDyn]
  /\ pc = [t \in Threads |-> "idle"]
  /\ loaded = [t \in Threads |-> 0]
  /\ tries = [t \in Threads |-> 0]
  /\ cur = [t \in Threads |-> NoDyn]
  /\ head = [t \in Threads |-> <<>>]
  /\ gid = [t \in Threads |-> NoId]

(* tds_lookup_dynamic: is some listed statement called id? *)
tds_lookup_dynamic(id) == \E i \in 1 .. Len(dyns) : did[dyns[i]] = id

Goto(t, l) == pc' = [pc EXCEPT ![t] = l]

(***************************************************************************)
(* tds_alloc_dynamic(conn, NULL) into thread t's handle, each try of its  *)
(* loop starting with tds_get_dynid's load of inc_num.                     *)
(***************************************************************************)
GetDynIdLoad(t) ==
  /\ \/ pc[t] = "idle" /\ handle[t] = NoDyn /\ tries' = [tries EXCEPT ![t] = 0]
     \/ pc[t] = "retry" /\ UNCHANGED tries
  /\ loaded' = [loaded EXCEPT ![t] = inc_num]
  /\ Goto(t, "inc_store")
  /\ UNCHANGED <<inc_num, dyns, dlive, dref, did, handle, cur, head, gid>>

(* inc_num = (inc_num + 1) & 0xffff: the store *)
GetDynIdStore(t) ==
  /\ pc[t] = "inc_store"
  /\ inc_num' = (loaded[t] + 1) % IncNumSpace
  /\ Goto(t, "lookup")
  /\ UNCHANGED <<dyns, dlive, dref, did, handle, loaded, tries, cur, head, gid>>

(***************************************************************************)
(* The id is encoded from inc_num as it is now; tds_lookup_dynamic finds   *)
(* it listed (another try, or NULL after MaxDynIdTries) or not: then the  *)
(* statement is calloc'ed with ref_count 2 and dyn->next = conn->dyns.    *)
(***************************************************************************)
LookupAndAlloc(t) ==
  /\ pc[t] = "lookup"
  /\ LET id == inc_num IN
     IF tds_lookup_dynamic(id)
     THEN /\ tries' = [tries EXCEPT ![t] = @ + 1]
          /\ Goto(t, IF tries[t] + 1 = MaxDynIdTries THEN "idle" ELSE "retry")
          /\ UNCHANGED <<dlive, dref, did, cur, head, gid>>
     ELSE \E d \in Dyns \ dlive :
          /\ dlive' = dlive \cup {d}
          /\ dref' = [dref EXCEPT ![d] = 2]
          /\ did' = [did EXCEPT ![d] = NoId]
          /\ cur' = [cur EXCEPT ![t] = d]
          /\ head' = [head EXCEPT ![t] = dyns]
          /\ gid' = [gid EXCEPT ![t] = id]
          /\ Goto(t, "link")
          /\ UNCHANGED tries
  /\ UNCHANGED <<inc_num, dyns, handle, loaded>>

(* conn->dyns = dyn *)
LinkStore(t) ==
  /\ pc[t] = "link"
  /\ dyns' = <<cur[t]>> \o head[t]
  /\ Goto(t, "set_id")
  /\ UNCHANGED <<inc_num, dlive, dref, did, handle, loaded, tries, cur, head, gid>>

(* strlcpy(dyn->id, id, TDS_MAX_DYNID_LEN); the caller keeps the handle *)
SetId(t) ==
  /\ pc[t] = "set_id"
  /\ did' = [did EXCEPT ![cur[t]] = gid[t]]
  /\ handle' = [handle EXCEPT ![t] = cur[t]]
  /\ cur' = [cur EXCEPT ![t] = NoDyn]
  /\ Goto(t, "idle")
  /\ UNCHANGED <<inc_num, dyns, dlive, dref, loaded, tries, head, gid>>

(***************************************************************************)
(* tds_release_dynamic(&handle): dyn = *pdyn; *pdyn = NULL; the load of   *)
(* ref_count.                                                               *)
(***************************************************************************)
ReleaseLoad(t) ==
  /\ pc[t] = "idle" /\ handle[t] # NoDyn
  /\ cur' = [cur EXCEPT ![t] = handle[t]]
  /\ handle' = [handle EXCEPT ![t] = NoDyn]
  /\ loaded' = [loaded EXCEPT ![t] = dref[handle[t]]]
  /\ Goto(t, "release_store")
  /\ UNCHANGED <<inc_num, dyns, dlive, dref, did, tries, head, gid>>

(***************************************************************************)
(* tds_dynamic_deallocated(conn, dyn) for a statement the server knows    *)
(* (its id was sent): unlink it, then tds_release_dynamic up to the load.  *)
(***************************************************************************)
DeallocatedLoad(t) ==
  /\ pc[t] = "idle"
  /\ \E d \in ToSet(dyns) :
       /\ did[d] # NoId
       /\ dyns' = RemoveFirst(dyns, d)
       /\ cur' = [cur EXCEPT ![t] = d]
       /\ loaded' = [loaded EXCEPT ![t] = dref[d]]
  /\ Goto(t, "release_store")
  /\ UNCHANGED <<inc_num, dlive, dref, did, handle, tries, head, gid>>

(***************************************************************************)
(* tds_release_dynamic, the store of the decremented count; at zero the   *)
(* results, params and query are freed and then the statement.            *)
(***************************************************************************)
ReleaseStore(t) ==
  /\ pc[t] = "release_store"
  /\ LET d == cur[t] IN
     /\ dref' = [dref EXCEPT ![d] = loaded[t] - 1]
     /\ dlive' = IF loaded[t] - 1 > 0 THEN dlive ELSE dlive \ {d}
     /\ did' = IF loaded[t] - 1 > 0 THEN did ELSE [did EXCEPT ![d] = NoId]
  /\ cur' = [cur EXCEPT ![t] = NoDyn]
  /\ Goto(t, "idle")
  /\ UNCHANGED <<inc_num, dyns, handle, loaded, tries, head, gid>>

Next ==
  \E t \in Threads :
    \/ GetDynIdLoad(t) \/ GetDynIdStore(t) \/ LookupAndAlloc(t)
    \/ LinkStore(t) \/ SetId(t)
    \/ ReleaseLoad(t) \/ DeallocatedLoad(t) \/ ReleaseStore(t)

Spec == Init /\ [][Next]_vars

-----------------------------------------------------------------------------
(* the references that ought to be counted: the list's and the handles *)
Owners(d) == {t \in Threads : handle[t] = d} \cup (IF Contains(dyns, d) THEN {"list"} ELSE {})

TypeOK ==
  /\ inc_num \in Ids
  /\ dyns \in Seq(Dyns)
  /\ dlive \subseteq Dyns
  /\ dref \in [Dyns -> Int]
  /\ did \in [Dyns -> Ids \cup {NoId}]
  /\ handle \in [Threads -> Dyns \cup {NoDyn}]
  /\ pc \in [Threads -> {"idle", "retry", "inc_store", "lookup", "link", "set_id",
                         "release_store"}]

(***************************************************************************)
(* Specification 5 (connection mutex around list changes, atomic-         *)
(* equivalent reference counts) and 8 (generated ids are distinct): once  *)
(* no thread is inside a registry function, every statement is allocated  *)
(* exactly while the list or a handle holds it, its ref_count is the      *)
(* number of holders, and no two listed statements share an id.  A lost   *)
(* decrement, a lost list insertion or two threads encoding the same      *)
(* inc_num each break it.                                                  *)
(***************************************************************************)
RegistryConsistent ==
  (\A t \in Threads : pc[t] = "idle") =>
    /\ \A d \in Dyns : /\ (d \in dlive) = (Owners(d) # {})
                       /\ d \in dlive => dref[d] = Cardinality(Owners(d))
    /\ \A i, j \in 1 .. Len(dyns) : i # j => did[dyns[i]] # did[dyns[j]]

====

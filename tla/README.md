# TLA+ models of FreeTDS memory and object lifecycle

These modules model the object model of `src/src/tds/mem.c` and the
CT-Library bulk-copy state machine of `src/src/ctlib/blk.c`, and check them
with TLC.

## The system

mem.c allocates and frees every object of the TDS protocol engine:

* **Result infos** (`TDSRESULTINFO`, also used for parameters and compute
  results). They are reference counted through the pointer fields that own
  them: `tds->res_info`, `tds->param_info`, `tds->comp_info[i]`,
  `dyn->res_info` and `cursor->res_info`. Separately, one session may be
  *attached*: `tds->current_results` and `info->attached_to` point at each
  other.
* **Prepared statements** (`TDSDYNAMIC`) and **cursors** (`TDSCURSOR`). Each
  is kept in a list on the connection (`conn->dyns` at the head,
  `conn->cursors` at the tail). Each is counted once for the list and once
  for every other owner: a facade handle, or a session's `cur_dyn` /
  `cur_cursor`. The server can report an entry dropped. Connection
  teardown drains both lists.
* **Connection and sessions** (MARS build). `conn->sessions` is an array of
  slots indexed by session id. It grows 64 slots at a time, slot 0 holds the
  primary session, and `list_mtx` guards it. A session points back through
  `tds->conn` and `tds->sid`. Removing the last session frees the
  connection.
* **Bulk copy.** A CT-Library `CS_BLKDESC` is a `TDSBCPINFO`. `blk_init`
  fetches the table's columns into `bindinfo` (via `tds_bcp_init`), and
  `blk_bind` binds user arrays to those columns. The first IN transfer
  starts the copy on the session (`tds_bcp_start_copy_in`) and sets
  `xfer_init`. `blk_done` ends a batch (and restarts the copy) or ends the
  whole transfer (and deinitialises the descriptor).
* **Packets.** Each session has a send packet (capacity, `data_start`) and
  writes into `out_buf` up to `out_buf_max`; `conn->env.block_size` is the
  negotiated size. `tds_realloc_socket` resizes the send packet when the
  server announces a new packet size, unless output is pending beyond the
  new size or the session is frozen (packets held back for a length
  prefix). With MARS (`conn->mars`) a secondary session's packet starts
  with an SMP header.
* **Row layout and compute results.** `tds_alloc_row` lays out a row over
  the columns; `tds->comp_info` is an array grown one compute info at a
  time.
* **Context, locale and login.** `tds_alloc_context` gets a `TDSLOCALE`
  from the configuration and owns it until `tds_free_context`.
  `tds_alloc_login` copies the server name, and `tds_init_login` copies
  the client charset, the locale's language and server charset, a default
  language and the host name. It sets `valid_configuration` only after the
  last copy. A CT-Library bulk copy sits at the end of this chain:
  context, login, connection, descriptor.

The components interact in the teardown paths.
`tds_free_socket` performs these steps, in this order:

1. Release the session's statement and cursor. A release may free the entry
   and, with it, its result info.
2. Detach the current result.
3. Free the session's own results.
4. Remove the session from the slot array. Removing the last one frees the
   connection, which drains both registries.

## Modules

| module | models | state | actions |
|---|---|---|---|
| `ResultInfo` | `tds_alloc_results`, `tds_set_current_results`, `tds_detach_results`, `tds_free_results` | `res` (live set, ref_count, attached_to, current_results, in_row); `holds` (owner fields) | the token layer's allocate / share / attach / clear / drop / detach-and-drop |
| `Registry` | `tds_alloc_dynamic` (with the id generation loop of `tds_get_dynid`), `tds_dynamic_deallocated`, `tds_release_dynamic`, the three cursor functions, the drain of `tds_deinit_connection` | `reg` (both lists, live sets, counts, ids, the global `inc_num`); facade handles | facade alloc / copy / release, server drop, id draws by other connections, teardown |
| `Connection` | `tds_alloc_socket`, `tds_alloc_additional_socket`, `tds_alloc_new_sid`, `tds_connection_remove_socket`, `tds_free_socket` | `conn` (state, slot array), `sock` (live, sid, tds->conn set), `fault` | allocate primary / secondary session (with allocation failures), free a session |
| `Blk` | `blk_alloc`, `blk_init`, `blk_bind`, `blk_describe`, `blk_props`, `blk_rowxfer`/`blk_rowxfer_mult` with `_blk_rowxfer_in`/`_blk_rowxfer_out`, `blk_done`, `blk_drop`, over `tds_alloc_bcpinfo`/`tds_deinit_bcpinfo`/`tds_free_bcpinfo` | `blk` (exists, direction, table, bindinfo, bound columns, bind_count, xfer_init, identity, hint); `server` (copy in progress, rows sent in the batch); `caller_ok`; `fault` | one action per CT-Library call |
| `RowStore` | `tds_alloc_row` (both loops as RECURSIVE operators), `tds_alloc_param_result`, `tds_free_param_result`, `tds_alloc_param_data`, the recursive free of parameter data (`tds_param_free`, `tds_deinit_tvp`, `tds_free_param_results` and the data loop of `tds_free_results`, as mutually RECURSIVE operators returning the blocks freed in order), `tds_alloc_compute_results`, `tds_free_all_results` (param and compute parts) | `param_info` (`tds->param_info` set); `store` (exists, columns' row_len, per-column data, row, row_free, row_size, offsets); `comp` (`tds->comp_info` set, its entries); `comp_live`; `heap` (the allocated blocks of parameter data, named by their path: a blob's textvalue, a TVP's schema, name, metadata, rows and their params); `double_free` (set when a free names a block twice or one not allocated) | the token layer's parameter token, parameter data, failed-read removal, parameter row, compute row format, free all results |
| `SessionPackets` | composes `Connection` with `tds_alloc_packet`, `tds_realloc_packet`, the buffers of `tds_init_socket` and `tds_alloc_additional_socket` (and its `conn->mars` check), `tds_realloc_socket`, the packet frees of `tds_free_socket` | Connection's state; `env` (block_size, mars); `bufs` (per session: packet capacity and data_start, out_buf_max, out_pos, frozen) | Connection's three actions with their buffers; MARS negotiation; a packet-size change; write, flush, freeze, unfreeze |
| `RegistryRace` | the statement registry of one connection used by several threads without a lock: `tds_get_dynid`'s `inc_num` update split into load and store, the lookup and calloc, the store of `conn->dyns`, the `strlcpy` of the id, `tds_release_dynamic`'s `--ref_count` split into load and store, and `tds_dynamic_deallocated` | `inc_num`, `conn->dyns`, live set, ref_count, ids, the threads' handles, pc and local values (loaded value, tries, entry, saved head, id) | each load and store of the functions, one action per thread |
| `LoginContext` | `tds_alloc_context`, `tds_free_context`, `tds_alloc_locale`, `tds_free_locale`, `tds_alloc_login`, `tds_init_login`, `tds_free_login` | `ctx` (live, locale's language and server charset set), `locales` (allocated count), `login` (live, valid_configuration, each string set or empty) | the facade's context alloc and drop, and its login alloc (with init) and drop, with every allocation and copy able to fail |
| `CtBulk` | composes `LoginContext` with `Blk`: `blk_alloc` only on a connection opened with a valid login | both modules' state and `connected` | the setup actions, connect, close, and Blk's actions |
| `OwnedObjects` | the abstract promise of reference counting (no code) | live, owners | create, share, release |
| `TdsMem` | the composition: `tds_release_dynamic`/`tds_release_cursor` freeing the entry's result info, `tds_free_all_results`, the whole of `tds_free_socket`, and the connection deinit it triggers | all of the above, plus the sessions' result fields, `cur_dyn`, `cur_cursor`, `dyn->res_info`, `cursor->res_info` | session life cycle, token layer result handling, facade statement and cursor handling |

Each C function is written as a *transformer*: an operator from a state
record to the next record. The composed module can then apply the functions
in the order the C code calls them, inside one action. Actions are the
callers. The token layer and the facades are outside `src/`, so their
actions are modelled from the specification (`spec_modelled` in
`PROJECT.json`). Allocation failure is an input: `FailingAllocs` names the
allocations that may fail in a run.

Each `MC*` module gives the constants model values.
Each `Defect variant` operator in a module is a plausible bug of the
definition after it. For each property, one of these variants must break the
property.

## Runs and what they show

| run | cfg | result | shows |
|---|---|---|---|
| result_info | `MCResultInfo.cfg` | pass, 1,966 states | attachment stays a one-to-one link between live objects; ref_count equals the number of owner fields |
| registry | `MCRegistry.cfg` | pass, 64k states | list + handle counting under every release order; generated ids never collide, including after `inc_num` wraps and when the retries run out; both registries refine `OwnedObjects` (property `RegistryRefinesOwnership`) |
| long_dyn_ids | `MCRegistryLongIds.cfg` | violation | two ids that differ only after `TDS_MAX_DYNID_LEN` both pass the lookup and are stored equal (spec 8) |
| registry_race | `MCRegistryRace.cfg` | violation, 368 states | `RegistryConsistent` breaks in 10 states: the caller's `tds_release_dynamic` and the token thread's `tds_dynamic_deallocated` both load `ref_count` 2 and store 1, so the statement is unlinked, owned by no one and never freed. The same property also catches two other races, each in 11 states when releases are left out. A lost `conn->dyns` store (mem.c:188) drops a statement from the list. Two threads encoding the same `inc_num` (mem.c:103), with the id copied only after linking (mem.c:190), list two statements with one id. Spec 5 requires a mutex and atomic-equivalent counting here |
| connection | `MCSessionPackets.cfg` | pass, 26,695 states (with symmetry) | with connection, socket, SYN and packet-realloc failures and packet-size changes: slots and sessions agree, the connection outlives its sessions, pending output always fits `out_buf_max` and `out_buf_max` fits the packet (`OutputFitsBuffer`) |
| sid_array_failure | `MCConnectionSidArray.cfg` | violation | **bug**: a failed grow of `conn->sessions` leaves sid 0, so the unwind clears the primary's slot, and the connection is later freed under the primary |
| socket_init_failure | `MCConnectionSocketInit.cfg` | violation | **bug**: a failed `tds_init_socket` is unwound with `tds->conn == NULL`, and `tds_connection_remove_socket` dereferences it |
| teardown | `MCTdsMem.cfg` | pass, 119k states | the composition: no result left attached to a freed session; no dangling or leaked result, statement or cursor reference; empty lists after teardown |
| row_store | `MCRowStore.cfg` | pass, 66,405 states | output parameters appended, dropped, given data and laid out in a row, with every allocation able to fail: `tds->param_info` never dangles or leaks; `tds_alloc_row`'s layout equals the closed form (which is aligned and non-overlapping by construction); `tds->comp_info` holds exactly the live compute infos, also after a failed grow (`CompInfoOwned`); every block of parameter data, down to a table-valued parameter's metadata columns and the parameters of each row, is owned by one column and freed exactly once, when the data is replaced, the parameter dropped or all results freed (`ParamDataOwned`) |
| bulk_copy | `MCCtBulk.cfg` | pass, 6,590 states | the chain context, login, connection, descriptor (`CtBulk`), with every setup allocation and copy able to fail, and every outside call except the batch restart: bindinfo is never read through NULL; bound columns always carry their row count; rows go only into a started copy; the only locale allocated is the live context's (`LocaleOwned`, spec 7); a login the facade keeps has valid_configuration and every string connect reads (`LoginReady`) |
| bulk_misuse | `MCBlkMisuse.cfg` | violation | `blk_bind` right after `blk_alloc` reads `bindinfo->num_cols` through NULL. Spec 7 says misuse fails with a return code and never aborts |
| bulk_batch_restart | `MCBlkRestart.cfg` | violation | **bug**: when `blk_done(CS_BLK_BATCH)` cannot restart the copy, `xfer_init` stays set, and the next `blk_rowxfer` sends rows with no copy in progress |

### Bounds

* **Sockets.** Two sockets with `SlotChunk = 1`. Adding a secondary session
  grows the slot array, and a freed primary's address can be reused as a
  secondary.
* **Connection run.** Three sockets with `SlotChunk = 2`. The array then
  grows exactly once, and both the reuse of a freed slot and the grow path
  are reached.
* **Ids.** `IncNumSpace = 3` and `MaxDynIdTries = 2` stand for 0x10000 and
  256. They are small enough that the counter wraps and that two listed
  statements exhaust the tries.
* **Teardown run.** One result address, one statement, one cursor, one
  facade handle of each kind, and the session fields `res_info` and
  `comp_info`. The id space is a single value, because the registry run
  covers id generation. Adding `param_info` or a second result address
  takes the run past 1.5M states.
* **Session packets.** Sessions are made with 512 or 1024 byte buffers;
  the server may announce 256 (raised to 512) or 1024; writes reach
  `out_pos` 512 or 1024. So a resize meets pending output above the new
  size, a shrink, a grow, and a grow after MARS moved `data_start`.
  `TDS_ADDITIONAL_SPACE`, the SMP header size and the start of the write
  buffer (8, the TDS header) are constants because their definitions are
  in headers outside `src/`. The sockets are symmetric model values.
* **Parameter values.** A parameter is given a blob with a textvalue or a
  table-valued parameter with schema, name, one metadata column and one
  row of one blob. That reaches every branch of `tds_param_free` and both
  loops of `tds_deinit_tvp`, each through `tds_free_param_results`. TVPs
  are not nested: the server refuses a TVP column inside a TVP, and a
  deeper tree repeats the same recursion. A third value took the run past
  150k states.
* **Registry race.** Two threads, two statement addresses,
  `IncNumSpace = 4` and `MaxDynIdTries = 2`. Both threads can then hold a
  statement at the same time, and the counter does not wrap before the
  races appear.
* **Setup.** One context and one login. The locale may or may not carry a
  language and a server charset, so every subsequence of
  `tds_init_login`'s copies occurs, and each copy can fail.
* **Compute results.** Two compute info addresses, so the array grows to
  two entries and every allocation and the resize can fail.
* **Row store.** `row_len` values are 0, 1, 4 and 5, with
  `TDS_ALIGN_SIZE = 4`, so there are empty columns, columns under, at
  and over the alignment, and rows of up to 3 columns. The repository
  does not define `TDS_ALIGN_SIZE` (it lives in a header outside
  `src/`), so it is a constant.

* **Bulk copy.** Two columns, array counts up to 2, and at most 2 rows
  per batch. With these, a count mismatch, a clear-one and a clear-all,
  an empty `bind_count` (CS_UNUSED), and two transfers inside one batch
  all occur. `FailingCalls` names the calls outside `src/` that may fail
  in a run. `ContractOnly` restricts `blk_bind`, `blk_describe` and
  `blk_rowxfer` to after a `blk_init` that returned `CS_SUCCEED`, which is
  the documented CT-Library order. The misuse run lifts that restriction.
  `tds_bcp_init`, `tds_bcp_start_copy_in`, `tds_bcp_send_record`,
  `tds_bcp_done`, `tds_bcp_start` and the bulk-out query are in bulk.c and
  the token layer, outside `src/`. They are modelled from the
  specification as calls that succeed or fail. A copy is in progress
  between a successful start and a `tds_bcp_done`.

## Fairness and liveness

No fairness is assumed and no liveness property is checked. Every
function modelled here runs to completion within one call: its loops run
over finite lists and arrays, and the one retry loop (`tds_get_dynid`) is
bounded by 256 tries. None of them waits. Whether anything happens next
(a release, a `blk_done`, a flush) is up to the caller, and the code
promises nothing about its callers. The only steps a scheduler must
complete are the halves of the split functions in `RegistryRace`. With weak
fairness on them, the leak the model shows is permanent, and the safety
violation already shows that.

## Refinement

`OwnedObjects` states what reference counting promises without a count:
an object is created with its first owners, gains owners only while it
exists, and is freed exactly when the last owner lets go. `Registry`
instantiates it twice, for statements and cursors, mapping each entry's
owners to its facade handles plus `"list"` while it is linked; the
registry run checks `RegistryRefinesOwnership`. A release that frees at
`ref_count` 1 instead of 0 breaks it.

## Plan (in order)

1. Done: ResultInfo, Registry, Connection and their composition TdsMem.
2. Done: `Blk`, the CT-Library bulk-copy descriptor.
3. Done: `SessionPackets`, the send buffers composed with the
   sessions.
4. Done: `RowStore`, the row layout checked against the closed form, and
   the param-info growth.
5. Done: `tds_alloc_compute_results`, in `RowStore`.
6. Done: `RegistryRace`, the unlocked registry under two threads.
7. Done: `OwnedObjects`, refined by `Registry`.
8. Done: `LoginContext`, composed with `Blk` in `CtBulk`.
9. Done: the recursive free of parameter data and TVPs, in `RowStore`.
10. The receive side and the packet chains of `net.c`/`packet.c` once
   they are in the repository; the result-info reference count under
   the same two-thread race.

## Observations not checked by a run

* `tds_alloc_cursor` never compares cursor names, while specification
  4.4 says an allocation whose id is already listed fails. The registry
  model keeps each cursor's name and reaches two cursors with one name,
  but no property states uniqueness, since the code does not try to
  ensure it.
* `tds_realloc_socket` sets `conn->env.block_size` before the packet
  realloc that may fail (mem.c:1369). In `src/` only
  `tds_alloc_additional_socket` reads it afterwards; `OutputFitsBuffer`
  shows the sessions it then makes still fit their packets.

## Not modelled

* The values of the login and locale strings, the login's capabilities
  and flags, the environment lookups (`DSQUERY`, `TDSQUERY`), and the
  non-`nl_langinfo` builds of `tds_init_login`. A string is only set or
  empty. `tds_get_locale` (in `locale.c`, outside `src/`) returns either a
  locale or NULL.
* The SQLSTATE tables. They are pure lookups.
* The contents of a TVP as the facades build them: a TVP is a value
  given to `tds_alloc_param_data`, and its blocks are named, not counted
  in bytes. `tds_row_free` and `tds_alloc_bcp_column_data` are not
  modelled.
* The unimplemented bulk functions (`blk_colval`, `blk_default`,
  `blk_getrow`, `blk_gettext`, `blk_rowalloc`, `blk_rowdrop`,
  `blk_sendrow`, `blk_sendtext`, `blk_srvinit`, `blk_textxfer`). They only
  return `CS_FAIL`.
* The values of bulk columns and their conversion in `_blk_get_col_data`.
  A row is sent only if every column is bound, and any number of rows may
  fail conversion.
* The non-MARS build of `tds_alloc_socket`.
* Packet contents, the receive packet, and packet chains: `tds_free_packets`
  walks a chain whose other members are made by `net.c` and `packet.c`,
  outside `src/`.
* Threads of different connections sharing the static `inc_num`. Their ids
  also encode the connection's address, so they cannot collide. The race
  between threads of one connection is `RegistryRace`.
* Character conversion and TLS: these are outside the specification's
  scope.
* The contents of columns and rows, and id formatting. The models tell ids
  apart only by the counter value they encode; the base-36 encoding of
  `tds_get_dynid` is injective in `inc_num` for a fixed connection.

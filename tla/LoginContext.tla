---------------------------- MODULE LoginContext ----------------------------
(***************************************************************************)
(* The client-side setup structures of src/tds/mem.c: the TDSCONTEXT with  *)
(* the TDSLOCALE it owns (tds_alloc_context, tds_free_context,             *)
(* tds_alloc_locale, tds_free_locale) and the TDSLOGIN (tds_alloc_login,   *)
(* tds_init_login, tds_free_login), for one context and one login.        *)
(*                                                                         *)
(* A string field of the login is TRUE when it holds a copied value and   *)
(* FALSE while it is the empty DSTR tds_dstr_init set; the values, the    *)
(* capabilities, the flags and the environment lookups are left out.       *)
(* tds_get_locale (locale.c) is outside src/: it returns a fresh locale   *)
(* (tds_alloc_locale) whose language and server charset the configuration *)
(* may or may not set, or NULL.  tds_init_login follows the nl_langinfo   *)
(* build: one copy of the client charset.                                 *)
(*                                                                         *)
(* The callers are the facades (cs_ctx_alloc / ct_con_alloc and their     *)
(* drops in CT-Library), modelled from the specification: a login is      *)
(* allocated and initialised from the context's locale in one call, and   *)
(* freed again when initialisation fails.                                  *)
(***************************************************************************)
EXTENDS Integers, Sequences

CONSTANTS
  SetupFailures   \* the steps that may fail in a run (see SetupSteps)

SetupSteps == {"winsock", "locale", "context", "login", "dstr"}

ASSUME SetupFailures \subseteq SetupSteps

Succeeds(step) == IF step \in SetupFailures THEN BOOLEAN ELSE {TRUE}

VARIABLES
  ctx,      \* [live, locale: [language, server_charset]]
  locales,  \* number of TDSLOCALE objects allocated
  login     \* the TDSLOGIN's fields, see LoginState

lvars == <<ctx, locales, login>>

LoginFields == {"server_name", "client_charset", "language", "server_charset",
                "client_host_name"}

LoginState == [live: BOOLEAN, valid: BOOLEAN, str: [LoginFields -> BOOLEAN]]

NoLogin == [live |-> FALSE, valid |-> FALSE, str |-> [f \in LoginFields |-> FALSE]]
NoLocale == [language |-> FALSE, server_charset |-> FALSE]
NoContext == [live |-> FALSE, locale |-> NoLocale]

(* tds_alloc_locale: TEST_MALLOC, every string NULL *)
tds_alloc_locale(ok) == [ok |-> ok, locale |-> NoLocale]

(***************************************************************************)
(* tds_get_locale: a locale from tds_alloc_locale, language and server     *)
(* charset filled in from the configuration; NULL on any failure, which   *)
(* frees what it allocated.                                                *)
(***************************************************************************)
tds_get_locale(ok, lang, charset) ==
  [ok |-> tds_alloc_locale(ok).ok,
   locale |-> [language |-> lang, server_charset |-> charset]]

(***************************************************************************)
(* tds_alloc_context: winsock_initialized (fails only on Windows), then   *)
(* tds_get_locale, then the calloc of the context, which on failure frees *)
(* the locale again; n is the number of locales allocated before.          *)
(***************************************************************************)
tds_alloc_context(n, winsock_ok, loc, ctx_ok) ==
  CASE ~winsock_ok -> [ctx |-> NoContext, locales |-> n]
    [] ~loc.ok     -> [ctx |-> NoContext, locales |-> n]
    [] ~ctx_ok     -> [ctx |-> NoContext, locales |-> n]
    [] OTHER       -> [ctx |-> [live |-> TRUE, locale |-> loc.locale], locales |-> n + 1]

(* tds_free_locale: its strings, then the locale; n locales were allocated *)
tds_free_locale(n) == n - 1

(* Defect variant: the context is freed without its locale. *)
tds_free_context_keep_locale(c, n) ==
  IF ~c.live THEN [ctx |-> c, locales |-> n] ELSE [ctx |-> NoContext, locales |-> n]

(* tds_free_context: tds_free_locale(context->locale), then the context *)
tds_free_context(c, n) ==
  IF ~c.live THEN [ctx |-> c, locales |-> n]
  ELSE [ctx |-> NoContext, locales |-> tds_free_locale(n)]

(***************************************************************************)
(* tds_alloc_login: TEST_MALLOC (NULL on failure), every DSTR empty, then  *)
(* the copy of the server name (DSQUERY / TDSQUERY or the default), whose *)
(* failure frees the login.                                                *)
(***************************************************************************)
tds_alloc_login(malloc_ok, copy_ok) ==
  IF malloc_ok /\ copy_ok
  THEN [NoLogin EXCEPT !.live = TRUE, !.str["server_name"] = TRUE]
  ELSE NoLogin

(***************************************************************************)
(* The tds_dstr_copy calls of tds_init_login in order: client charset,     *)
(* the locale's language and server charset when it has them, the default *)
(* language when the login still has none, the host name.                 *)
(***************************************************************************)
InitCopies(l, loc) ==
  <<"client_charset">>
  \o (IF loc.language THEN <<"language">> ELSE <<>>)
  \o (IF loc.server_charset THEN <<"server_charset">> ELSE <<>>)
  \o (IF l.str["language"] \/ loc.language THEN <<>> ELSE <<"language">>)
  \o <<"client_host_name">>

(* the copies before the failing one (fail = 0: none fails) took effect *)
Copied(l, copies, fail) ==
  LET done == IF fail = 0 THEN Len(copies) ELSE fail - 1
  IN [l EXCEPT !.str = [f \in LoginFields |->
                          @[f] \/ \E i \in 1 .. done : copies[i] = f]]

(* Defect variant: the result of the host name copy is not checked. *)
tds_init_login_unchecked_host(l, loc, fail) ==
  LET copies == InitCopies(l, loc)
      ok == fail = 0 \/ fail = Len(copies)
  IN [ok |-> ok,
      login |-> [Copied(l, copies, fail) EXCEPT !.valid = ok \/ @]]

(***************************************************************************)
(* tds_init_login(login, locale): the copies in order, returning NULL at   *)
(* the first that fails (fail is its position, 0 for none) with the       *)
(* earlier ones kept; valid_configuration is set only after the last.     *)
(***************************************************************************)
tds_init_login(l, loc, fail) ==
  LET copies == InitCopies(l, loc)
  IN [ok |-> fail = 0,
      login |-> [Copied(l, copies, fail) EXCEPT !.valid = (fail = 0) \/ @]]

(* tds_free_login: zero and free the passwords, free every string, free it *)
tds_free_login(l) == NoLogin

-----------------------------------------------------------------------------
(* Actions of the facade (CT-Library) on its context and login. *)

LInit ==
  /\ ctx = NoContext
  /\ locales = 0
  /\ login = NoLogin

(* cs_ctx_alloc: tds_alloc_context(ctx) *)
CsCtxAlloc ==
  /\ ~ctx.live
  /\ \E winsock_ok \in Succeeds("winsock"), loc_ok \in Succeeds("locale"),
        lang \in BOOLEAN, charset \in BOOLEAN, ctx_ok \in Succeeds("context") :
       LET r == tds_alloc_context(locales, winsock_ok,
                                  tds_get_locale(loc_ok, lang, charset), ctx_ok)
       IN ctx' = r.ctx /\ locales' = r.locales
  /\ UNCHANGED login

(* ct_con_alloc: tds_alloc_login(1), tds_init_login(login, ctx->locale),  *)
(* tds_free_login when the initialisation fails                            *)
CtConAlloc ==
  /\ ctx.live /\ ~login.live
  /\ \E malloc_ok \in Succeeds("login"), copy_ok \in Succeeds("dstr") :
       LET l == tds_alloc_login(malloc_ok, copy_ok)
           n == Len(InitCopies(l, ctx.locale))
       IN \E fail \in IF "dstr" \in SetupFailures THEN 0 .. n ELSE {0} :
            LET r == tds_init_login(l, ctx.locale, fail)
            IN login' = IF l.live /\ r.ok THEN r.login ELSE tds_free_login(l)
  /\ UNCHANGED <<ctx, locales>>

(* ct_con_drop: tds_free_login *)
CtConDrop ==
  /\ login.live
  /\ login' = tds_free_login(login)
  /\ UNCHANGED <<ctx, locales>>

(* cs_ctx_drop: tds_free_context, once the context's logins are gone *)
CsCtxDrop ==
  /\ ctx.live /\ ~login.live
  /\ LET r == tds_free_context(ctx, locales) IN ctx' = r.ctx /\ locales' = r.locales
  /\ UNCHANGED login

LNext == CsCtxAlloc \/ CtConAlloc \/ CtConDrop \/ CsCtxDrop

-----------------------------------------------------------------------------
(***************************************************************************)
(* Specification 7 (a failed multi-step initialiser leaves nothing        *)
(* allocated): the only TDSLOCALE allocated is the live context's, so     *)
(* tds_alloc_context frees the locale it got when the context calloc      *)
(* fails, and tds_free_context frees it with the context.                  *)
(***************************************************************************)
LocaleOwned == locales = IF ctx.live THEN 1 ELSE 0

(***************************************************************************)
(* A login the facade keeps (tds_init_login returned it) has every string *)
(* the connect path reads: server name, client charset, language and host *)
(* name; valid_configuration is never set on a half-copied login.         *)
(***************************************************************************)
LoginReady ==
  login.live => /\ login.valid
                /\ \A f \in LoginFields \ {"server_charset"} : login.str[f]
====

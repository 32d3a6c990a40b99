---------------------------- MODULE Credentials -----------------------------
(***************************************************************************)
(* What opens the API: the key of the runtime configuration, the named     *)
(* tokens and the identity providers.  Each is a table with an in-memory   *)
(* copy that the synchronous gates read, and every endpoint that writes    *)
(* the table reloads the copy in two steps: the read of the table, an      *)
(* await, and the swap.  Requests are cut at their awaits; any may be      *)
(* cancelled at one, and the process may restart.                          *)
(***************************************************************************)
EXTENDS Nothing, Naturals

CONSTANTS
    Tokens,     \* numbers of the tokens that may be issued
    Providers,  \* ids of identity providers
    Slots,      \* 1..n: requests in progress at the same time, lowest slot first
    MaxOps      \* bound on requests, cancellations and restarts

(* Credentials: keys, tokens, and what is left of a header of blanks.      *)
Key(n)   == <<"key", n>>
Token(n) == <<"token", n>>
Blank    == <<"blank", 0>>
Keys     == {Key(n) : n \in 0..MaxOps}
Headers  == {None, Blank} \union Keys \union {Token(t) : t \in Tokens}

VARIABLES
    env,        \* the key of the environment, or None
    row,        \* app_config: None or [key, secret]
    tokens,     \* api_tokens: token -> "none", "active" or "revoked"
    providers,  \* auth_providers: id -> None or [enabled, valid]
    live,       \* RuntimeConfig._row, TokenCache._hashes, OAuthRegistry._ids
    request,    \* slot -> None or a request
    stale,      \* history: copies left behind by overlap or cancellation
    handed,     \* history: the key last handed out, None when overlapped
    ops

tables         == <<row, tokens, providers>>
credentialVars == <<env, tables, live, request, stale, handed, ops>>

ConfigOps   == {"generate", "rotate", "secret"}
TokenOps    == {"issue", "revoke"}
ProviderOps == {"create", "update", "enable", "disable", "delete"}

CopyOf(op) == IF op \in ConfigOps THEN "config"
              ELSE IF op \in TokenOps THEN "tokens" ELSE "providers"

\* The row of the configuration, what a copy holds, and a request.
Config == [key : Keys \union {None}, secret : Keys \union {None}]
Reads  == Config \union {None} \union (SUBSET Tokens) \union (SUBSET Providers)
Request ==
    [op : ConfigOps \union TokenOps \union ProviderOps,
     target : Tokens \union Providers \union {None},
     pc : {"handler", "merge", "check", "write", "readback", "list", "swap"},
     proved : BOOLEAN, minted : Keys \union {None}, read : Reads, alone : BOOLEAN]

ASSUME CredentialsAssumption == MaxOps \in Nat /\ None \notin Keys \union Config \union Request

---------------------------------------------------------------------------
(* The gates.                                                              *)

McpApiKey(config) == IF config # None /\ config.key # None THEN config.key ELSE env

AuthIsConfigured == McpApiKey(live.config) # None \/ live.tokens # {}

CredentialAccepted(presented) ==
    /\ presented # None
    /\ \/ presented = McpApiKey(live.config)
       \/ presented \in {Token(t) : t \in live.tokens}

\* X-API-Key wins as soon as it is there, even when stripping empties it.
ExtractApiKey(x, bearer) == IF x # None THEN x ELSE bearer

RequireMcpApiKey(x, bearer) ==
    AuthIsConfigured => CredentialAccepted(ExtractApiKey(x, bearer))

\* The middleware falls back on the other header when stripping empties one.
ExtractHeaderKey(x, bearer) == IF x \notin {None, Blank} THEN x ELSE bearer

NativeMiddleware(x, bearer) ==
    AuthIsConfigured => CredentialAccepted(ExtractHeaderKey(x, bearer))

\* The configuration endpoints' own reading: never a 401 by itself.
ResolveApiKeySoft(presented) ==
    presented # None /\ (AuthIsConfigured => CredentialAccepted(presented))

Configured == McpApiKey(live.config) # None

BootstrapOrAuthed(r) == Configured => r.proved

---------------------------------------------------------------------------
(* The tables and their copies.                                            *)

ListActiveHashes == {t \in Tokens : tokens[t] = "active"}

ListEnabled == {p \in Providers : providers[p] # None /\ providers[p].enabled}

\* A provider whose configuration does not register is skipped.
Rebuilt == {p \in ListEnabled : providers[p].valid}

Stored == [config |-> row, tokens |-> ListActiveHashes, providers |-> Rebuilt]

SeededFromEnv == IF row = None /\ env # None THEN [key |-> env, secret |-> None] ELSE row

CredentialsInit ==
    /\ env \in {None, Key(0)}
    /\ row = IF env = None THEN None ELSE [key |-> env, secret |-> None]
    /\ \/ /\ tokens = [t \in Tokens |-> "none"]
          /\ providers = [p \in Providers |-> None]
       \/ /\ tokens = [t \in Tokens |-> "active"]
          /\ providers = [p \in Providers |-> [enabled |-> TRUE, valid |-> TRUE]]
    /\ live = Stored
    /\ request = [s \in Slots |-> None]
    /\ stale = {} /\ handed = None /\ ops = 0

Happens == ops < MaxOps /\ ops' = ops + 1

Goes(s, pc) == request' = [request EXCEPT ![s].pc = pc]

At(s, pc) == request[s] # None /\ request[s].pc = pc

Ends(s) == request' = [request EXCEPT ![s] = None]

---------------------------------------------------------------------------
(* A request arrives: the dependencies look at its credentials, and the    *)
(* handler runs only later.                                                *)

Targets(op) == IF op \in ConfigOps THEN {None} ELSE IF op \in TokenOps THEN Tokens ELSE Providers

Arrive(s, op, target, presented, session) ==
    /\ Happens /\ request[s] = None /\ \A o \in 1..(s - 1) : request[o] # None
    /\ op = "issue" => tokens[target] = "none"
    /\ op = "create" => providers[target] = None
    /\ request' = [request EXCEPT ![s] =
            [op |-> op, target |-> target, pc |-> "handler",
             proved |-> ResolveApiKeySoft(presented) \/ (session /\ op # "rotate"),
             minted |-> IF op \in ConfigOps THEN Key(ops') ELSE None,
             read |-> None, alone |-> TRUE]]
    /\ UNCHANGED <<env, tables, live, stale, handed>>

Admitted(r) ==
    IF r.op = "rotate" THEN Configured /\ r.proved ELSE BootstrapOrAuthed(r)

Refuse(s) ==
    /\ At(s, "handler") /\ ~Admitted(request[s])
    /\ Ends(s)
    /\ UNCHANGED <<env, tables, live, stale, handed, ops>>

\* From here on requests on the same copy overlap.
Shares(s, o) ==
    /\ o # s /\ request[o] # None /\ request[o].pc # "handler"
    /\ CopyOf(request[o].op) = CopyOf(request[s].op)

Admit(s) ==
    LET op == request[s].op
        first == IF op \in ConfigOps THEN "merge"
                 ELSE IF op \in ProviderOps \ {"create"} THEN "check" ELSE "write"
        others == {o \in Slots : Shares(s, o)} IN
    /\ At(s, "handler") /\ Admitted(request[s])
    /\ request' = [o \in Slots |->
            IF o = s THEN [request[s] EXCEPT !.pc = first, !.proved = FALSE, !.alone = others = {}]
            ELSE IF o \in others THEN [request[o] EXCEPT !.alone = FALSE] ELSE request[o]]
    /\ UNCHANGED <<env, tables, live, stale, handed, ops>>

---------------------------------------------------------------------------
(* The writes.                                                             *)

\* upsert reads the row, merges its field and writes the whole row back.
Merge(s) ==
    LET r == request[s]
        old == IF row = None THEN [key |-> None, secret |-> None] ELSE row IN
    /\ At(s, "merge")
    /\ request' = [request EXCEPT
            ![s].pc = "write",
            ![s].read = IF r.op = "secret" THEN [old EXCEPT !.secret = r.minted]
                        ELSE [old EXCEPT !.key = r.minted]]
    /\ UNCHANGED <<env, tables, live, stale, handed, ops>>

WriteConfig(s) ==
    /\ At(s, "write") /\ request[s].op \in ConfigOps
    /\ row' = request[s].read
    /\ request' = [request EXCEPT ![s].pc = "list", ![s].read = None]
    /\ UNCHANGED <<env, tokens, providers, live, stale, handed, ops>>

IssueToken(s) ==
    /\ At(s, "write") /\ request[s].op = "issue"
    /\ tokens' = [tokens EXCEPT ![request[s].target] = "active"]
    /\ Goes(s, "list")
    /\ UNCHANGED <<env, row, providers, live, stale, handed, ops>>

\* Mutant: a revocation leaves the copy to the next request.
RevokeTokenOnly(s) ==
    /\ At(s, "write") /\ request[s].op = "revoke"
    /\ tokens' = [tokens EXCEPT ![request[s].target] = "revoked"]
    /\ Ends(s)
    /\ UNCHANGED <<env, row, providers, live, stale, handed, ops>>

\* 404 for a token that is not active, without a reload.
RevokeToken(s) ==
    LET t == request[s].target
        active == tokens[t] = "active" IN
    /\ At(s, "write") /\ request[s].op = "revoke"
    /\ tokens' = IF active THEN [tokens EXCEPT ![t] = "revoked"] ELSE tokens
    /\ IF active THEN Goes(s, "list") ELSE Ends(s)
    /\ UNCHANGED <<env, row, providers, live, stale, handed, ops>>

\* 404 before anything is written.
CheckProvider(s) ==
    /\ At(s, "check")
    /\ IF providers[request[s].target] = None THEN Ends(s) ELSE Goes(s, "write")
    /\ UNCHANGED <<env, tables, live, stale, handed, ops>>

CreateProvider(s, valid) ==
    /\ At(s, "write") /\ request[s].op = "create"
    /\ providers' = [providers EXCEPT ![request[s].target] = [enabled |-> FALSE, valid |-> valid]]
    /\ Goes(s, "readback")
    /\ UNCHANGED <<env, row, tokens, live, stale, handed, ops>>

\* The updates touch a row only if it is still there.
UpdateProvider(s, valid) ==
    LET p == request[s].target IN
    /\ At(s, "write") /\ request[s].op = "update"
    /\ providers' = IF providers[p] = None THEN providers
                    ELSE [providers EXCEPT ![p].valid = valid]
    /\ Goes(s, "readback")
    /\ UNCHANGED <<env, row, tokens, live, stale, handed, ops>>

SetEnabled(s) ==
    LET p == request[s].target IN
    /\ At(s, "write") /\ request[s].op \in {"enable", "disable"}
    /\ providers' = IF providers[p] = None THEN providers
                    ELSE [providers EXCEPT ![p].enabled = request[s].op = "enable"]
    /\ Goes(s, "list")
    /\ UNCHANGED <<env, row, tokens, live, stale, handed, ops>>

DeleteProvider(s) ==
    /\ At(s, "write") /\ request[s].op = "delete"
    /\ providers' = [providers EXCEPT ![request[s].target] = None]
    /\ Goes(s, "list")
    /\ UNCHANGED <<env, row, tokens, live, stale, handed, ops>>

\* Left without its reload.
Abandoned(s) ==
    LET r == request[s]
        wrote == r.pc \in {"readback", "list", "swap"} IN
    /\ stale' = IF wrote THEN stale \union {CopyOf(r.op)} ELSE stale
    /\ handed' = IF wrote /\ r.op \in ConfigOps THEN None ELSE handed

\* create and update raise when their row has vanished.
ReadBack(s) ==
    /\ At(s, "readback")
    /\ IF providers[request[s].target] = None
       THEN Ends(s) /\ Abandoned(s)
       ELSE Goes(s, "list") /\ UNCHANGED <<stale, handed>>
    /\ UNCHANGED <<env, tables, live, ops>>

---------------------------------------------------------------------------
(* The reload, and the answer.                                             *)

ReadTable(s) ==
    /\ At(s, "list")
    /\ request' = [request EXCEPT ![s].pc = "swap",
                                  ![s].read = Stored[CopyOf(request[s].op)]]
    /\ UNCHANGED <<env, tables, live, stale, handed, ops>>

Swap(s) ==
    LET r == request[s]
        copy == CopyOf(r.op) IN
    /\ At(s, "swap")
    /\ live' = [live EXCEPT ![copy] = r.read]
    /\ stale' = IF r.alone THEN stale \ {copy} ELSE stale \union {copy}
    /\ handed' = IF r.op \notin {"generate", "rotate"} THEN handed
                 ELSE IF r.alone THEN r.minted ELSE None
    /\ Ends(s)
    /\ UNCHANGED <<env, tables, ops>>

\* The client goes away, or a call of the store fails.
Cancel(s) ==
    /\ Happens /\ request[s] # None /\ request[s].pc # "handler"
    /\ Ends(s) /\ Abandoned(s)
    /\ UNCHANGED <<env, tables, live>>

\* The boot seeds the row from the environment and loads the three copies.
RestartApi ==
    /\ Happens
    /\ row' = SeededFromEnv
    /\ live' = [Stored EXCEPT !.config = row']
    /\ request' = [s \in Slots |-> None]
    /\ stale' = {}
    /\ handed' = IF \E s \in Slots : request[s] # None /\ request[s].op \in ConfigOps
                 THEN None ELSE handed
    /\ UNCHANGED <<env, tokens, providers>>

CredentialsNext ==
    \/ \E s \in Slots, op \in ConfigOps \union TokenOps \union ProviderOps :
        \E target \in Targets(op), presented \in Headers, session \in BOOLEAN :
            Arrive(s, op, target, presented, session)
    \/ \E s \in Slots :
        \/ Refuse(s) \/ Admit(s) \/ Merge(s) \/ WriteConfig(s)
        \/ IssueToken(s) \/ RevokeToken(s) \/ CheckProvider(s)
        \/ \E valid \in BOOLEAN : CreateProvider(s, valid) \/ UpdateProvider(s, valid)
        \/ SetEnabled(s) \/ DeleteProvider(s) \/ ReadBack(s)
        \/ ReadTable(s) \/ Swap(s) \/ Cancel(s)
    \/ RestartApi

CredentialsSpec == CredentialsInit /\ [][CredentialsNext]_credentialVars

---------------------------------------------------------------------------
Settled(copy) ==
    /\ copy \notin stale
    /\ ~\E s \in Slots : /\ request[s] # None /\ request[s].pc # "handler"
                         /\ CopyOf(request[s].op) = copy

\* A copy that is out of step with its table after overlapping or cancelled
\* requests comes back into step with the next request that has it for
\* itself, whatever kind of request that is and whatever happens meanwhile
\* to the other two; the key last handed out then opens the gate; and the
\* two gates of the MCP surface agree on every pair of headers but one: an
\* X-API-Key of blanks hides the other header from the REST gate only.
GatesFollow ==
    /\ \A copy \in {"config", "tokens", "providers"} :
            Settled(copy) => live[copy] = Stored[copy]
    /\ Settled("config") /\ handed # None => RequireMcpApiKey(handed, None)
                                             /\ McpApiKey(row) = handed
    /\ \A x \in Headers \ {Blank}, bearer \in Headers :
            RequireMcpApiKey(x, bearer) <=> NativeMiddleware(x, bearer)
=============================================================================

----------------------------- MODULE Governance -----------------------------
(***************************************************************************)
(* Tenants, policies, access decisions and the audit log: AccessControl    *)
(* over TenantManager and PolicyEngine, whose decisions AuditLogger        *)
(* appends to a hash chain under its lock and then, outside the lock,      *)
(* writes to a sink, so that threads overtake each other between the two.  *)
(*                                                                         *)
(* A hash is the sequence of payloads it covers, which is what SHA-256     *)
(* stands for here: equal only for equal prefixes.                         *)
(***************************************************************************)
EXTENDS Nothing, Integers, Sequences, SequencesExt, FiniteSetsExt, Ordering

CONSTANTS
    Threads,
    Tenants, Repositories,
    Policies,       \* [name, rule, priority, rank, limit]; the rank is that of
                    \* the name in string order
    Requests,       \* [tenant, repo, action, role, tool, kind, bytes, age]
    MaxChain        \* bound on the entries of the chain

Decision == [allowed : BOOLEAN,
             by : {p.name : p \in Policies} \union {None, "tenant_ownership"}]
Payload  == [request : Requests, decision : Decision]
Line     == [seq : Nat, prev : Seq(Payload), hash : Seq(Payload), payload : Payload]

ASSUME GovernanceAssumption ==
    /\ \A p, q \in Policies : /\ p.priority \in Int /\ p.rank \in Int
                              /\ p.name = q.name <=> p.rank = q.rank
    /\ \A q \in Requests : q.repo \in Repositories
    /\ None \notin Line /\ MaxChain \in Nat

VARIABLES
    tenants,        \* TenantManager._tenants
    owner,          \* TenantManager._repo_to_tenant
    policies,       \* PolicyEngine._policies, a sequence
    chain,          \* ImmutableLogStore._entries
    writing,        \* thread -> entry it appended and has not yet written
    unwritten,      \* entries whose write failed
    file            \* lines of the JSONL sink in this process's life

govVars == <<tenants, owner, policies, chain, writing, unwritten, file>>

GovernanceInit ==
    /\ tenants = {} /\ owner = [r \in Repositories |-> None] /\ policies = <<>>
    /\ chain = <<>> /\ writing = [t \in Threads |-> None]
    /\ unwritten = {} /\ file = <<>>

---------------------------------------------------------------------------
(* Policies.                                                               *)

\* The built-in rules, as the effect they have on a request.
DenyExternal(q)        == IF q.action = "retrieve" /\ q.kind = "external" THEN "deny" ELSE "neutral"
LimitSize(max, q)      == IF q.action = "ingest" /\ q.bytes > max THEN "deny" ELSE "neutral"
EnforceRetention(max, q) == IF q.age # None /\ q.age > max THEN "deny" ELSE "neutral"
RestrictTool(allowed, q) ==
    IF q.action # "mcp_tool" THEN "neutral"
    ELSE IF q.tool \in allowed["*"] THEN "allow"
    ELSE IF q.role \in DOMAIN allowed /\ q.tool \in allowed[q.role] THEN "allow"
    ELSE "deny"

Effect(p, q) ==
    CASE p.rule = "external"  -> DenyExternal(q)
      [] p.rule = "size"      -> LimitSize(p.limit, q)
      [] p.rule = "retention" -> EnforceRetention(p.limit, q)
      [] p.rule = "tool"      -> RestrictTool(p.limit, q)

Earlier(p, q) == p.priority < q.priority \/ (p.priority = q.priority /\ p.rank < q.rank)

\* add: appended, then the list is sorted again.  One step: add takes no
\* lock, and the program calls it nowhere; policies come with the engine.
AddPolicy(p) ==
    /\ p.name \notin {policies[n].name : n \in DOMAIN policies}
    /\ policies' = Ordered(ToSet(policies) \union {p}, Earlier)
    /\ UNCHANGED <<tenants, owner, chain, writing, unwritten, file>>

\* The first policy with an opinion decides; with none, the request passes.
Evaluate(q) ==
    LET opinions == {n \in DOMAIN policies : Effect(policies[n], q) # "neutral"} IN
    IF opinions = {} THEN [allowed |-> TRUE, by |-> None]
    ELSE LET first == policies[Min(opinions)] IN
         [allowed |-> Effect(first, q) = "allow", by |-> first.name]

---------------------------------------------------------------------------
(* Tenants.                                                                *)

RegisterTenant(t) ==
    /\ t \notin tenants
    /\ tenants' = tenants \union {t}
    /\ UNCHANGED <<owner, policies, chain, writing, unwritten, file>>

\* Mutant: who else owns the repository is not asked.
AssignableToAny(t, r) == t \in tenants

Assignable(t, r) == t \in tenants /\ owner[r] \in {None, t}

AssignRepo(t, r) ==
    /\ Assignable(t, r)
    /\ owner' = [owner EXCEPT ![r] = t]
    /\ UNCHANGED <<tenants, policies, chain, writing, unwritten, file>>

Owns(t, r) == owner[r] # None /\ owner[r] = t

---------------------------------------------------------------------------
(* Decisions and their trail.                                              *)

Decide(q) ==
    IF Owns(q.tenant, q.repo) THEN Evaluate(q)
    ELSE [allowed |-> FALSE, by |-> "tenant_ownership"]

LastHash == IF chain = <<>> THEN <<>> ELSE Last(chain).hash

AuditEntry(payload) ==
    [seq |-> Len(chain), prev |-> LastHash, hash |-> Append(LastHash, payload), payload |-> payload]

\* check up to the end of the chain's lock: the decision is in the chain.
Check(t, q) ==
    /\ writing[t] = None /\ Len(chain) < MaxChain
    /\ LET entry == AuditEntry([request |-> q, decision |-> Decide(q)]) IN
       /\ chain' = Append(chain, entry)
       /\ writing' = [writing EXCEPT ![t] = entry]
    /\ UNCHANGED <<tenants, owner, policies, unwritten, file>>

\* The sink's own lock covers one line; then record returns.
SinkWrites(t) ==
    /\ writing[t] # None
    /\ file' = Append(file, writing[t])
    /\ writing' = [writing EXCEPT ![t] = None]
    /\ UNCHANGED <<tenants, owner, policies, chain, unwritten>>

\* The sink raises and the caller gets the error instead of a decision.
SinkFails(t) ==
    /\ writing[t] # None
    /\ unwritten' = unwritten \union {writing[t]}
    /\ writing' = [writing EXCEPT ![t] = None]
    /\ UNCHANGED <<tenants, owner, policies, chain, file>>

\* A new store built from a file: the payloads, chained anew.
Rechained(payloads) ==
    [n \in DOMAIN payloads |->
        [seq |-> n - 1, prev |-> SubSeq(payloads, 1, n - 1), hash |-> SubSeq(payloads, 1, n),
         payload |-> payloads[n]]]

Replayed(lines) == Rechained([n \in DOMAIN lines |-> lines[n].payload])

VerifyChain(entries) ==
    \A n \in DOMAIN entries :
        /\ entries[n].prev = (IF n = 1 THEN <<>> ELSE entries[n - 1].hash)
        /\ entries[n].hash = Append(entries[n].prev, entries[n].payload)

GovernanceNext ==
    \/ \E p \in Policies : AddPolicy(p)
    \/ \E t \in Tenants : RegisterTenant(t) \/ \E r \in Repositories : AssignRepo(t, r)
    \/ \E t \in Threads : SinkWrites(t) \/ SinkFails(t) \/ \E q \in Requests : Check(t, q)

GovernanceSpec == GovernanceInit /\ [][GovernanceNext]_govVars

---------------------------------------------------------------------------

\* Access across tenants is impossible: the log never grants two tenants
\* one repository, although repositories and tenants are registered while
\* decisions are made.  A decision follows the first policy with an opinion
\* whatever the order in which the policies came.  And the log is complete:
\* a replay of the file has every decision that was returned, once.
DecisionsHold ==
    /\ \A m, n \in DOMAIN chain :
         LET a == chain[m].payload  b == chain[n].payload IN
         (a.decision.allowed /\ b.decision.allowed /\ a.request.repo = b.request.repo) =>
            a.request.tenant = b.request.tenant
    /\ \A q \in Requests :
         LET with == {p \in ToSet(policies) : Effect(p, q) # "neutral"}
             got == Evaluate(q) IN
         IF with = {} THEN got.allowed
         ELSE \E p \in with : /\ \A o \in with \ {p} : Earlier(p, o)
                              /\ got = [allowed |-> Effect(p, q) = "allow", by |-> p.name]
    /\ VerifyChain(chain) /\ VerifyChain(Replayed(file))
    /\ IsInjective(file)
    /\ ToSet(chain) = ToSet(file) \union unwritten \union ({writing[t] : t \in Threads} \ {None})
=============================================================================

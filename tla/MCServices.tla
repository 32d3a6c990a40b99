----------------------------- MODULE MCServices -----------------------------
(* The services around the memory, one at a time: the part that runs is    *)
(* chosen at the start, and the others stay where they begin.              *)
EXTENDS RepoAccess, Governance, WorkPool, Answers, LocalFreshness, Lifecycle, TLC

MCTeamOrg == [t |-> "default"]

MCPrio == [a |-> 5, b |-> 10, c |-> 5]

---------------------------------------------------------------------------
(* Governance: two tenants, one of each built-in policy, a retention       *)
(* policy of the size policy's priority.                                   *)

Policy(name, rule, priority, rank, limit) ==
    [name |-> name, rule |-> rule, priority |-> priority, rank |-> rank, limit |-> limit]

MCPolicies ==
    {Policy("deny_external_retrieval", "external", 10, 1, None),
     Policy("restrict_mcp_tool_by_role", "tool", 20, 4,
            [r \in {"*", "dev"} |-> IF r = "*" THEN {"open"} ELSE {"edit"}]),
     Policy("limit_ingestion_size", "size", 30, 3, 5),
     Policy("enforce_retention", "retention", 30, 2, 9)}

Request(tenant, action, who, tool, kind, bytes, age) ==
    [tenant |-> tenant, repo |-> "r", action |-> action, role |-> who, tool |-> tool,
     kind |-> kind, bytes |-> bytes, age |-> age]

MCRequests ==
    {Request("t1", "retrieve", "dev", None, "external", 0, 10),
     Request("t2", "retrieve", "dev", None, "internal", 0, None),
     Request("t1", "mcp_tool", "dev", "edit", "internal", 0, 10),
     Request("t2", "mcp_tool", "guest", "open", "internal", 0, None),
     Request("t2", "ingest", "guest", None, "internal", 6, 10)}

---------------------------------------------------------------------------
(* Lifecycle: a module, its function and a method of its class, in two      *)
(* graphs; in one of them the function calls the method, in the other the  *)
(* method calls the function.                                               *)

MCKind == <<"m">> :> "Module" @@ <<"m", "f">> :> "Function" @@ <<"m", "C", "g">> :> "Method"

Edge(src, kind, dst) == [src |-> src, kind |-> kind, dst |-> dst]

MCUsed == {<<"m", "f">>}

MCGraphs ==
    {{Edge(<<"m">>, "DEFINES", <<"m", "f">>), Edge(<<"m", "f">>, "CALLS", <<"m", "C", "g">>)},
     {Edge(<<"m">>, "DEFINES", <<"m", "f">>), Edge(<<"m", "C", "g">>, "CALLS", <<"m", "f">>),
      Edge(<<"m", "f">>, "CALLS", <<"m">>)}}

---------------------------------------------------------------------------
(* Local repositories: one inside the tree of the other.                   *)

MCOrder == <<"outer", "inner">>
MCFiles == [outer |-> {"plain", "nested"}, inner |-> {"nested"}]
MCDepth == [outer |-> 1, inner |-> 2]

---------------------------------------------------------------------------
(* Embedders: nothing, or three texts with a cap and two to a batch.       *)

MCText(n) == [start |-> n, rest |-> 9]

MCTexts == {<<>>, <<MCText(1), MCText(2), MCText(3)>>}

---------------------------------------------------------------------------
VARIABLES
    part,
    buffer, timer, flushing, fut, processed

batchVars  == <<buffer, timer, flushing, fut, processed>>

BE == INSTANCE Batching WITH Callers <- {"a", "b", "c", "d"}, MaxSize <- 2

ServicesInit ==
    /\ part \in {"batching", "pool", "governance", "access", "lifecycle", "local", "embedders",
                "cache", "rate"}
    /\ BE!Init /\ PoolInit /\ GovernanceInit /\ Init /\ LifeInit /\ LocalInit
    /\ EmbedInit /\ CacheInit /\ RateInit

ServicesNext ==
    \/ /\ part = "batching" /\ BE!Next
       /\ UNCHANGED <<part, poolVars, govVars, accessVars, lifeVars, localVars, embedVars, cacheVars, rateVars>>
    \/ /\ part = "pool" /\ PoolNext
       /\ UNCHANGED <<part, batchVars, govVars, accessVars, lifeVars, localVars, embedVars, cacheVars, rateVars>>
    \/ /\ part = "governance" /\ GovernanceNext
       /\ UNCHANGED <<part, batchVars, poolVars, accessVars, lifeVars, localVars, embedVars, cacheVars, rateVars>>
    \/ /\ part = "access" /\ Next
       /\ UNCHANGED <<part, batchVars, poolVars, govVars, lifeVars, localVars, embedVars, cacheVars, rateVars>>
    \/ /\ part = "lifecycle" /\ LifeNext
       /\ UNCHANGED <<part, batchVars, poolVars, govVars, accessVars, localVars, embedVars, cacheVars, rateVars>>
    \/ /\ part = "local" /\ LocalNext
       /\ UNCHANGED <<part, batchVars, poolVars, govVars, accessVars, lifeVars, embedVars, cacheVars, rateVars>>
    \/ /\ part = "embedders" /\ EmbedNext
       /\ UNCHANGED <<part, batchVars, poolVars, govVars, accessVars, lifeVars, localVars, cacheVars, rateVars>>
    \/ /\ part = "cache" /\ CacheNext
       /\ UNCHANGED <<part, batchVars, poolVars, govVars, accessVars, lifeVars, localVars, embedVars, rateVars>>
    \/ /\ part = "rate" /\ RateNext
       /\ UNCHANGED <<part, batchVars, poolVars, govVars, accessVars, lifeVars, localVars, embedVars, cacheVars>>

vars == <<part, batchVars, poolVars, govVars, accessVars, lifeVars, localVars, embedVars, cacheVars, rateVars>>

ServicesSpec == ServicesInit /\ [][ServicesNext]_vars /\ BE!Fairness /\ LocalFairness

Settles      == BE!Settles
=============================================================================

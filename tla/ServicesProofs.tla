--------------------------- MODULE ServicesProofs ---------------------------
(***************************************************************************)
(* What TLAPS proves of the services around the memory: the access of      *)
(* users to repositories, the audited decisions, the worker pool, what the *)
(* embedders, the cache and the rate limiter answer, the commits of local  *)
(* repositories, and the lifecycle scanner.  The parts share no state;     *)
(* each has its inductive invariant and its theorem.                       *)
(***************************************************************************)
EXTENDS RepoAccess, Governance, WorkPool, Answers, LocalFreshness, Lifecycle,
        OrderingProofs, FiniteSetTheorems, SequenceTheorems, WellFoundedInduction, TLAPS

---------------------------------------------------------------------------
(* Access to repositories.  The access map reads the table of grants, the  *)
(* property speaks of what administrators gave: the inductive invariant    *)
(* says how a row and the gifts behind it hang together when a late write  *)
(* of a checked request meets an older row of another organisation.        *)

(* What a request in flight carries.                                       *)
TeamRequest   == [op : {"add", "remove", "delete"}, team : Teams, user : Users]
GrantRequest  == [op : {"grant"}, org : Orgs, repo : Repos, subject : Subjects, access : Access]
TeamsRequest  == [op : {"teams"}, user : Users, role : Roles, org : Orgs, repo : Repos,
                  orgRepos : SUBSET Repos]
GrantsRequest == [op : {"grants"}, user : Users, role : Roles, org : Orgs, repo : Repos,
                  orgRepos : SUBSET Repos, teams : SUBSET Teams]
LastRequest   == [op : {"hatch", "ingest"}, org : Orgs, repo : Repos]
AccessRequests == TeamRequest \union GrantRequest \union TeamsRequest \union GrantsRequest
            \union LastRequest

GrantRow == [org : Orgs, access : Access]
Gift     == [org : Orgs, repo : Repos, subject : Subjects, access : Access]

AccessType ==
    /\ role \in [Users -> [Orgs -> Roles \union {None}]]
    /\ registry \in [Repos -> Orgs \union {None}]
    /\ teams \in [Teams -> {"new", "live", "deleted"}]
    /\ teamMembers \subseteq Teams \X Users
    /\ grants \in [Repos \X Subjects -> GrantRow \union {None}]
    /\ given \subseteq Gift
    /\ req \in [Slots -> AccessRequests \union {None}]

Behind(g) == {x \in given : <<x.repo, x.subject>> = g}

\* Behind every row stand a gift of the row's organisation and one of its
\* level, not necessarily the same.
RowsGiven ==
    \A g \in Repos \X Subjects : grants[g] # None =>
        /\ \E x \in Behind(g) : x.org = grants[g].org
        /\ \E x \in Behind(g) : x.access = grants[g].access

AccessInv == AccessType /\ RowsGiven

---------------------------------------------------------------------------
(* The tables start empty.                                                 *)
LEMMA AccessStarts == Init => AccessInv
  BY DEF Init, AccessInv, AccessType, RowsGiven

(* Administrators other than of grants: the rows and the gifts stay.       *)
LEMMA AdministrationInv ==
    ASSUME AccessInv,
           \/ \E u \in Users, o \in Orgs, new \in Roles \union {None} : ChangeRole(u, o, new)
           \/ \E t \in Teams : CreateTeam(t)
           \/ \E r \in Repos : RemoveRepo(r)
    PROVE  AccessInv'
<1> USE DEF AccessInv, AccessType, RowsGiven, Behind
<1>1. CASE \E u \in Users, o \in Orgs, new \in Roles \union {None} : ChangeRole(u, o, new)
  BY <1>1 DEF ChangeRole
<1>2. CASE \E t \in Teams : CreateTeam(t)
  BY <1>2 DEF CreateTeam
<1>3. CASE \E r \in Repos : RemoveRepo(r)
  BY <1>3 DEF RemoveRepo
<1> QED
  BY <1>1, <1>2, <1>3

(* A revocation takes the row and every gift behind it.                    *)
LEMMA RevokeInv ==
    ASSUME AccessInv, NEW g \in DOMAIN grants, RevokeGrant(g)
    PROVE  AccessInv'
<1> USE DEF AccessInv, AccessType, RowsGiven, Behind, RevokeGrant
<1>1. AccessType'
  OBVIOUS
<1>2. RowsGiven'
  <2> SUFFICES ASSUME NEW h \in Repos \X Subjects, grants'[h] # None
               PROVE  /\ \E x \in Behind(h)' : x.org = grants'[h].org
                      /\ \E x \in Behind(h)' : x.access = grants'[h].access
    OBVIOUS
  <2>1. h # g /\ grants'[h] = grants[h]
    OBVIOUS
  <2>2. Behind(h) \subseteq Behind(h)'
    BY <2>1
  <2> QED
    BY <2>1, <2>2
<1> QED
  BY <1>1, <1>2

(* What a request carries while it is checked.                             *)
LEMMA ArrivalInv ==
    ASSUME AccessInv, NEW s \in Slots, Arrival(s)
    PROVE  AccessInv'
<1> USE DEF AccessInv, AccessType, Begin, tables
<1>1. ASSUME NEW op \in {"add", "remove", "delete"}, NEW t \in Teams, NEW u \in Users,
             CheckTeam(s, op, t, u)
      PROVE  AccessType' /\ UNCHANGED <<grants, given>>
  <2>1. [op |-> op, team |-> t, user |-> u] \in AccessRequests
    BY DEF AccessRequests, TeamRequest
  <2> QED
    BY <1>1, <2>1 DEF CheckTeam
<1>2. ASSUME NEW o \in Orgs, NEW r \in Repos, NEW x \in Subjects, NEW a \in Access,
             CheckGrant(s, o, r, x, a)
      PROVE  AccessType' /\ UNCHANGED <<grants, given>>
  <2>1. [op |-> "grant", org |-> o, repo |-> r, subject |-> x, access |-> a] \in AccessRequests
    BY DEF AccessRequests, GrantRequest
  <2> QED
    BY <1>2, <2>1 DEF CheckGrant
<1>3. ASSUME NEW u \in Users, NEW o \in Orgs, NEW r \in Repos, ReadRegistry(s, u, o, r)
      PROVE  AccessType' /\ UNCHANGED <<grants, given>>
  <2>1. [op |-> "teams", user |-> u, role |-> role[u][o], org |-> o, repo |-> r,
         orgRepos |-> OrgRepoIds(o)] \in AccessRequests
    BY <1>3 DEF AccessRequests, TeamsRequest, ReadRegistry, OrgRepoIds
  <2> QED
    BY <1>3, <2>1 DEF ReadRegistry
<1>4. AccessType' /\ UNCHANGED <<grants, given>>
  BY <1>1, <1>2, <1>3 DEF Arrival
<1> QED
  BY <1>4 DEF RowsGiven, Behind

(* The write of a grant: the first organisation stays in the row, and a    *)
(* gift of it with it.                                                     *)
LEMMA GrantInv ==
    ASSUME AccessInv, NEW s \in Slots, Grant(s), req[s] # None
    PROVE  AccessInv'
<1> USE DEF AccessInv, AccessType
<1> PICK q \in GrantRequest : q = req[s]
  BY DEF Grant, AccessRequests, TeamRequest, TeamsRequest, GrantsRequest, LastRequest
<1> DEFINE g == <<q.repo, q.subject>>
           org == IF grants[g] = None THEN q.org ELSE grants[g].org
           gift == [org |-> q.org, repo |-> q.repo, subject |-> q.subject, access |-> q.access]
<1>1. q.org \in Orgs /\ q.repo \in Repos /\ q.subject \in Subjects /\ q.access \in Access
  BY DEF GrantRequest
<1>2. g \in Repos \X Subjects /\ org \in Orgs /\ gift \in Gift
  BY <1>1 DEF GrantRow, Gift
<1>3. /\ grants' = [grants EXCEPT ![g] = [org |-> org, access |-> q.access]]
      /\ given' = given \union {gift}
      /\ UNCHANGED <<role, registry, teams, teamMembers>>
      /\ req' = [req EXCEPT ![s] = None]
  BY DEF Grant, End
<1>4. AccessType'
  BY <1>1, <1>2, <1>3 DEF GrantRow
<1>5. RowsGiven'
  <2> SUFFICES ASSUME NEW h \in Repos \X Subjects, grants'[h] # None
               PROVE  /\ \E x \in Behind(h)' : x.org = grants'[h].org
                      /\ \E x \in Behind(h)' : x.access = grants'[h].access
    BY DEF RowsGiven
  <2>1. Behind(h) \subseteq Behind(h)'
    BY <1>3 DEF Behind
  <2>2. CASE h # g
    BY <2>1, <2>2, <1>2, <1>3 DEF RowsGiven
  <2>3. CASE h = g
    <3>1. gift \in Behind(h)' /\ gift.org = q.org /\ gift.access = q.access
      BY <2>3, <1>3 DEF Behind
    <3>2. grants'[h].org = org /\ grants'[h].access = q.access
      BY <2>3, <1>2, <1>3
    <3>3. CASE grants[g] = None
      BY <3>1, <3>2, <3>3
    <3>4. CASE grants[g] # None
      <4>1. \E x \in Behind(h) : x.org = grants[g].org
        BY <3>4, <2>3, <1>2 DEF RowsGiven
      <4> QED
        BY <4>1, <3>1, <3>2, <3>4, <2>1
    <3> QED
      BY <3>3, <3>4
  <2> QED
    BY <2>2, <2>3
<1> QED
  BY <1>4, <1>5

(* The other steps of requests touch neither rows nor gifts.               *)
LEMMA RequestInv ==
    ASSUME AccessInv, NEW s \in Slots, Step(s)
    PROVE  AccessInv'
<1> USE DEF AccessInv, AccessType, End, tables
<1> PICK q \in AccessRequests : q = req[s]
  BY DEF Step
<1> DEFINE Rest == AccessType' /\ UNCHANGED <<grants, given>>
<1>1. CASE DeleteTeam(s)
  <2>1. q.op = "delete" /\ q.team \in Teams
    BY <1>1 DEF DeleteTeam, AccessRequests, TeamRequest, GrantRequest, TeamsRequest, GrantsRequest,
                LastRequest
  <2> QED
    BY <1>1, <2>1 DEF DeleteTeam, RowsGiven, Behind
<1>2. CASE AddTeamMember(s) \/ RemoveTeamMember(s)
  <2>1. q.team \in Teams /\ q.user \in Users
    BY <1>2 DEF AddTeamMember, RemoveTeamMember, AccessRequests, TeamRequest, GrantRequest,
                TeamsRequest, GrantsRequest, LastRequest
  <2>2. UNCHANGED <<role, registry, teams, grants, given>>
    BY <1>2 DEF AddTeamMember, RemoveTeamMember
  <2>3. teamMembers' \subseteq teamMembers \union {<<q.team, q.user>>}
    BY <1>2 DEF AddTeamMember, RemoveTeamMember
  <2>4. req' = [req EXCEPT ![s] = None]
    BY <1>2 DEF AddTeamMember, RemoveTeamMember
  <2>5. AccessType'
    BY <2>1, <2>2, <2>3, <2>4
  <2> QED
    BY <2>2, <2>5 DEF RowsGiven, Behind
<1>3. CASE Grant(s)
  BY <1>3, GrantInv DEF Step
<1>4. CASE ReadTeams(s)
  <2> DEFINE next == [op |-> "grants", user |-> q.user, role |-> q.role, org |-> q.org,
                      repo |-> q.repo, orgRepos |-> q.orgRepos,
                      teams |-> TeamIdsForUser(q.user, q.org)]
  <2>1. q \in TeamsRequest
    BY <1>4 DEF ReadTeams, AccessRequests, TeamRequest, GrantRequest, GrantsRequest, LastRequest
  <2>2. next \in AccessRequests
    BY <2>1 DEF TeamsRequest, AccessRequests, GrantsRequest, TeamIdsForUser
  <2>3. req' = [req EXCEPT ![s] = next]
    BY <1>4 DEF ReadTeams
  <2> QED
    BY <1>4, <2>2, <2>3 DEF ReadTeams, RowsGiven, Behind
<1>5. CASE ReadGrants(s)
  <2>1. q \in GrantsRequest
    BY <1>5 DEF ReadGrants, AccessRequests, TeamRequest, GrantRequest, TeamsRequest, LastRequest
  <2>2. \A op \in {"ingest", "hatch"} : [op |-> op, org |-> q.org, repo |-> q.repo] \in AccessRequests
    BY <2>1 DEF GrantsRequest, AccessRequests, LastRequest
  <2>3. \/ \E op \in {"ingest", "hatch"} :
               req' = [req EXCEPT ![s] = [op |-> op, org |-> q.org, repo |-> q.repo]]
        \/ req' = [req EXCEPT ![s] = None]
    BY <1>5 DEF ReadGrants
  <2> QED
    BY <1>5, <2>2, <2>3 DEF ReadGrants, RowsGiven, Behind
<1>6. CASE Hatch(s)
  <2>1. q \in LastRequest
    BY <1>6 DEF Hatch, AccessRequests, TeamRequest, GrantRequest, TeamsRequest, GrantsRequest
  <2>2. [q EXCEPT !.op = "ingest"] \in AccessRequests
    BY <2>1 DEF AccessRequests, LastRequest
  <2>3. \/ req' = [req EXCEPT ![s] = [q EXCEPT !.op = "ingest"]]
        \/ req' = [req EXCEPT ![s] = None]
    BY <1>6 DEF Hatch
  <2> QED
    BY <1>6, <2>2, <2>3 DEF Hatch, RowsGiven, Behind
<1>7. CASE UpsertLocal(s) \/ RunFails(s)
  <2>1. q \in LastRequest
    BY <1>7 DEF UpsertLocal, RunFails, AccessRequests, TeamRequest, GrantRequest, TeamsRequest,
                GrantsRequest
  <2> QED
    BY <1>7, <2>1 DEF UpsertLocal, RunFails, LastRequest, RowsGiven, Behind
<1> QED
  BY <1>1, <1>2, <1>3, <1>4, <1>5, <1>6, <1>7 DEF Step

(* Types, and rows that hang together with the gifts behind them, in every *)
(* reachable state.                                                        *)
THEOREM AccessInvariant == Spec => []AccessInv
<1>1. AccessInv /\ [Next]_accessVars => AccessInv'
  <2>1. CASE UNCHANGED accessVars
    BY <2>1 DEF accessVars, AccessInv, AccessType, RowsGiven, Behind
  <2>2. CASE Next
    BY <2>2, AdministrationInv, RevokeInv, ArrivalInv, RequestInv DEF Next
  <2> QED
    BY <2>1, <2>2
<1> QED
  BY <1>1, AccessStarts, PTL DEF Spec

---------------------------------------------------------------------------

(* The highest of some levels is one of them.                              *)
LEMMA MaxLevelIn ==
    ASSUME NEW levels \in SUBSET Access, levels # {}
    PROVE  MaxLevel(levels) \in levels
<1>1. \E a \in levels : \A b \in levels : Rank[a] >= Rank[b]
  <2>1. levels \subseteq {"read", "write", "admin"}
    BY AccessAssumption
  <2>2. Rank["read"] = 0 /\ Rank["write"] = 1 /\ Rank["admin"] = 2
    BY DEF Rank
  <2>3. CASE "admin" \in levels
    BY <2>1, <2>2, <2>3
  <2>4. CASE "admin" \notin levels /\ "write" \in levels
    BY <2>1, <2>2, <2>4
  <2>5. CASE "admin" \notin levels /\ "write" \notin levels
    <3>1. levels = {"read"}
      BY <2>1, <2>5
    <3> QED
      BY <2>2, <3>1
  <2> QED
    BY <2>3, <2>4, <2>5
<1> QED
  BY <1>1 DEF MaxLevel

\* The gift x of repository r reaches user u, by name or through a live team.
Reaches(x, u, r) ==
    /\ x.repo = r
    /\ \/ x.subject.kind = "user" /\ x.subject.id = u
       \/ /\ x.subject.kind = "team" /\ teams[x.subject.id] = "live"
          /\ <<x.subject.id, u>> \in teamMembers

(* Every level an organisation's member has in it is grounded: by the      *)
(* registry, and by his role or by a gift of that organisation to him or   *)
(* to a live team he is in, and nobody gave him less than he has.          *)
THEOREM AccessIsGrounded == Spec => []AccessGrounded
<1>1. AccessInv => AccessGrounded
  <2> SUFFICES ASSUME AccessInv, NEW u \in Users, NEW o \in Orgs, NEW r \in Repos,
                      LoadAccess(u, o, r) # None
               PROVE  LET mine == {x \in given : Reaches(x, u, r)} IN
                      /\ registry[r] = o
                      /\ \/ Privileged(role[u][o])
                         \/ /\ \E x \in mine : x.org = o
                            /\ \E x \in mine : LevelAtLeast(x.access, LoadAccess(u, o, r))
                            /\ role[u][o] = "viewer" => LoadAccess(u, o, r) = "read"
    BY DEF AccessGrounded, Reaches
  <2> DEFINE ts == TeamIdsForUser(u, o)
             rows == {g \in ListForSubjects(o, u, ts) : g[1] = r}
             levels == {grants[g].access : g \in rows}
             level == LoadAccess(u, o, r)
  <2>1. registry[r] = o
    BY DEF LoadAccess, ResolveRepoAccess, OrgRepoIds
  <2> SUFFICES ASSUME ~Privileged(role[u][o])
               PROVE  /\ \E x \in given : Reaches(x, u, r) /\ x.org = o
                      /\ \E x \in given : Reaches(x, u, r) /\ LevelAtLeast(x.access, level)
                      /\ role[u][o] = "viewer" => level = "read"
    BY <2>1
  <2>2. level = IF MaxLevel(levels) # None /\ role[u][o] = "viewer" THEN "read"
                ELSE MaxLevel(levels)
    BY <2>1 DEF LoadAccess, ResolveRepoAccess, OrgRepoIds
  <2>3. levels # {} /\ MaxLevel(levels) # None
    BY <2>2 DEF MaxLevel
  <2>4. \A g \in rows : g \in Repos \X Subjects /\ grants[g] # None /\ grants[g].org = o
                        /\ grants[g].access \in Access /\ g[1] = r
                        /\ (\/ g[2].kind = "user" /\ g[2].id = u
                            \/ g[2].kind = "team" /\ g[2].id \in ts)
    BY DEF ListForSubjects, AccessInv, AccessType, GrantRow
  <2>5. PICK g \in rows : grants[g].access = MaxLevel(levels)
    <3>1. levels \subseteq Access
      BY <2>4
    <3>2. MaxLevel(levels) \in levels
      BY <3>1, <2>3, MaxLevelIn
    <3> QED
      BY <3>2
  <2>6. \A x \in Behind(g) : x \in given /\ Reaches(x, u, r)
    <3> SUFFICES ASSUME NEW x \in Behind(g) PROVE x \in given /\ Reaches(x, u, r)  OBVIOUS
    <3>1. x \in given /\ x.repo = g[1] /\ x.subject = g[2]  BY DEF Behind
    <3> QED BY <2>4, <3>1 DEF Reaches, TeamIdsForUser
  <2>7. PICK x \in Behind(g) : x.org = grants[g].org
    BY <2>4 DEF AccessInv, RowsGiven
  <2>8. PICK y \in Behind(g) : y.access = grants[g].access
    BY <2>4 DEF AccessInv, RowsGiven
  <2>9. LevelAtLeast(y.access, level)
    <3>1. y.access \in {"read", "write", "admin"} /\ y.access # None
      BY <2>3, <2>4, <2>5, <2>8, AccessAssumption
    <3>2. level = "read" \/ level = y.access
      BY <2>2, <2>5, <2>8
    <3> QED
      BY <3>1, <3>2 DEF LevelAtLeast, Rank
  <2>10. role[u][o] = "viewer" => level = "read"
    BY <2>2, <2>3
  <2> QED
    BY <2>4, <2>6, <2>7, <2>8, <2>9, <2>10
<1> QED
  BY <1>1, AccessInvariant, PTL

---------------------------------------------------------------------------
(* Governance.                                                             *)

GovernanceType ==
    /\ owner \in [Repositories -> Tenants \union {None}]
    /\ policies \in Seq(Policies)
    /\ chain \in Seq(Line) /\ file \in Seq(Line)
    /\ writing \in [Threads -> Line \union {None}]
    /\ unwritten \subseteq Line

PoliciesSorted ==
    \A m, n \in DOMAIN policies :
        /\ m < n <=> Earlier(policies[m], policies[n])
        /\ policies[m].name = policies[n].name => m = n

\* What was granted in a repository was granted to the tenant that owns it
\* now: no assignment takes it away.
GrantsOwned ==
    \A n \in DOMAIN chain : chain[n].payload.decision.allowed =>
        Owns(chain[n].payload.request.tenant, chain[n].payload.request.repo)

Numbered == \A n \in DOMAIN chain : chain[n].seq = n - 1

OnTheWay == {writing[t] : t \in Threads} \ {None}

\* A line is in the file, on its way there in one thread, or lost.
WrittenOnce ==
    /\ IsInjective(file)
    /\ ToSet(chain) = ToSet(file) \union unwritten \union OnTheWay
    /\ \A s, t \in Threads : writing[s] # None /\ writing[s] = writing[t] => s = t
    /\ ToSet(file) \intersect OnTheWay = {}

GovernanceInv ==
    /\ GovernanceType /\ PoliciesSorted /\ GrantsOwned
    /\ Numbered /\ VerifyChain(chain) /\ WrittenOnce

LEMMA GovernanceStarts == GovernanceInit => GovernanceInv
  BY DEF GovernanceInit, GovernanceInv, GovernanceType, PoliciesSorted, GrantsOwned, Numbered,
         VerifyChain, WrittenOnce, OnTheWay, IsInjective, ToSet

(* The sorted list of policies, with a new one.                            *)
LEMMA AddPolicyKeeps ==
    ASSUME GovernanceInv, NEW p \in Policies, AddPolicy(p)
    PROVE  GovernanceInv'
<1> DEFINE S == ToSet(policies) \union {p}
           R == {e \in S \X S : Earlier(e[1], e[2])}
<1>1. /\ policies \in Seq(Policies) /\ DOMAIN policies = 1..Len(policies) /\ Len(policies) \in Nat
      /\ S \subseteq Policies /\ policies' = Ordered(S, Earlier)
  BY DEF GovernanceInv, GovernanceType, AddPolicy, ToSet
<1>2. IsFiniteSet(S)
  <2>1. IsFiniteSet(DOMAIN policies)  BY <1>1, FS_Interval
  <2>2. policies \in Surjection(DOMAIN policies, ToSet(policies))
    BY <1>1 DEF Surjection, ToSet
  <2>3. IsFiniteSet(ToSet(policies))  BY <2>1, <2>2, FS_Surjection
  <2> QED BY <2>3, FS_AddElement
<1>3. \A x, y \in S : x.name = y.name => x = y
  <2>1. \A x, y \in ToSet(policies) : x.name = y.name => x = y
    BY DEF GovernanceInv, PoliciesSorted, ToSet
  <2>2. \A x \in ToSet(policies) : x.name # p.name
    BY DEF AddPolicy, ToSet
  <2> QED BY <2>1, <2>2
<1>4. \A x, y \in S : <<x, y>> \in R <=> Earlier(x, y)  OBVIOUS
<1>5. \A x, y \in S : x.priority \in Int /\ x.rank \in Int /\ (x.rank = y.rank => x = y)
  BY <1>1, <1>3, GovernanceAssumption
<1> HIDE DEF R, S
<1>6. StrictTotal(S, R)
  BY <1>4, <1>5 DEF StrictTotal, Earlier
<1>7. policies' = Sorted(S, R)
  <2>1. \A x \in S : {y \in S : Earlier(y, x)} = Below(S, R, x)  BY <1>4 DEF Below
  <2>2. Ordered(S, Earlier)
           = [n \in 1..Cardinality(S) |-> CHOOSE x \in S : Cardinality({y \in S : Earlier(y, x)}) = n - 1]
    BY DEF Ordered
  <2> QED BY <1>1, <2>1, <2>2 DEF Sorted
<1>8. /\ Cardinality(S) \in Nat /\ policies' \in [1..Cardinality(S) -> S]
      /\ \A m, n \in 1..Cardinality(S) : /\ m < n <=> <<policies'[m], policies'[n]>> \in R
                                         /\ policies'[m] = policies'[n] => m = n
  BY <1>2, <1>6, <1>7, SortedInOrder, FS_CardinalityType
<1>9. policies' \in Seq(Policies)  BY <1>1, <1>8
<1>10. PoliciesSorted'  BY <1>3, <1>4, <1>8 DEF PoliciesSorted, Earlier
<1> QED BY <1>9, <1>10 DEF GovernanceInv, AddPolicy, GovernanceType, GrantsOwned, Numbered,
         VerifyChain, WrittenOnce, OnTheWay, Owns

(* An owner stays; what was granted stays granted to the owner.            *)
LEMMA TenantsKeep ==
    ASSUME GovernanceInv, NEW t \in Tenants,
           RegisterTenant(t) \/ \E r \in Repositories : AssignRepo(t, r)
    PROVE  GovernanceInv'
<1>1. CASE RegisterTenant(t)
  BY <1>1 DEF RegisterTenant, GovernanceInv, GovernanceType, PoliciesSorted, GrantsOwned, Numbered,
              VerifyChain, WrittenOnce, OnTheWay, Owns, Earlier
<1>2. ASSUME NEW r \in Repositories, AssignRepo(t, r) PROVE GovernanceInv'
  <2>1. GrantsOwned'
    BY <1>2 DEF AssignRepo, Assignable, GovernanceInv, GovernanceType, GrantsOwned, Owns
  <2> QED
    BY <1>2, <2>1 DEF AssignRepo, GovernanceInv, GovernanceType, PoliciesSorted, Numbered,
                  VerifyChain, WrittenOnce, OnTheWay, Earlier
<1> QED BY <1>1, <1>2

LEMMA DecisionRecord ==
    ASSUME NEW a \in BOOLEAN, NEW b \in {p.name : p \in Policies} \union {None, "tenant_ownership"}
    PROVE  [allowed |-> a, by |-> b] \in Decision
  BY DEF Decision

(* A decision that allows asked for a repository of its tenant.            *)
LEMMA DecideTyped ==
    ASSUME GovernanceInv, NEW q \in Requests
    PROVE  Decide(q) \in Decision /\ (Decide(q).allowed => Owns(q.tenant, q.repo))
<1>1. Evaluate(q) \in Decision
  <2> DEFINE opinions == {n \in DOMAIN policies : Effect(policies[n], q) # "neutral"}
  <2>1. CASE opinions = {}
    <3>1. Evaluate(q) = [allowed |-> TRUE, by |-> None]  BY <2>1 DEF Evaluate
    <3>2. None \in {p.name : p \in Policies} \union {None, "tenant_ownership"} /\ TRUE \in BOOLEAN
      OBVIOUS
    <3> QED BY <3>1, <3>2, DecisionRecord
  <2>2. CASE opinions # {}
    <3>1. policies \in Seq(Policies)  BY DEF GovernanceInv, GovernanceType
    <3>2. IsFiniteSet(opinions) /\ opinions \subseteq Int
      <4>1. IsFiniteSet(DOMAIN policies)  BY <3>1, FS_Interval
      <4> QED BY <3>1, <4>1, FS_Subset
    <3>3. PICK m \in opinions : \A k \in opinions : m <= k
      <4> HIDE DEF opinions
      <4> QED BY <2>2, <3>2, LeastElement
    <3>4. Min(opinions) \in opinions
      <4> HIDE DEF opinions
      <4> QED BY <3>3 DEF Min
    <3>5. policies[Min(opinions)] \in Policies  BY <3>1, <3>4
    <3>6. Evaluate(q) = [allowed |-> Effect(policies[Min(opinions)], q) = "allow",
                         by |-> policies[Min(opinions)].name]
      BY <2>2 DEF Evaluate
    <3> HIDE DEF opinions
    <3>7. PICK d : d = policies[Min(opinions)]  OBVIOUS
    <3>8. (Effect(d, q) = "allow") \in BOOLEAN  OBVIOUS
    <3> QED BY <3>5, <3>6, <3>7, <3>8 DEF Decision
  <2> QED BY <2>1, <2>2
<1>2. [allowed |-> FALSE, by |-> "tenant_ownership"] \in Decision  BY DEF Decision
<1> QED BY <1>1, <1>2 DEF Decide

(* A check appends one line, new to the chain.                             *)
LEMMA CheckKeeps ==
    ASSUME GovernanceInv, NEW t \in Threads, NEW q \in Requests, Check(t, q)
    PROVE  GovernanceInv'
<1> DEFINE payload == [request |-> q, decision |-> Decide(q)]
<1>1. PICK e : e = AuditEntry(payload)  OBVIOUS
<1>2. /\ chain' = Append(chain, e) /\ writing[t] = None
      /\ writing' = [writing EXCEPT ![t] = e]
      /\ UNCHANGED <<tenants, owner, policies, unwritten, file>>
  BY <1>1 DEF Check
<1>3. payload \in Payload  BY DecideTyped DEF Payload
<1>4. /\ chain \in Seq(Line) /\ Len(chain) \in Nat /\ DOMAIN chain = 1..Len(chain)
      /\ file \in Seq(Line) /\ unwritten \subseteq Line
      /\ writing \in [Threads -> Line \union {None}]
  BY DEF GovernanceInv, GovernanceType
<1>5. LastHash \in Seq(Payload) /\ LastHash = IF Len(chain) = 0 THEN <<>> ELSE chain[Len(chain)].hash
  <2>1. CASE chain = <<>>  BY <2>1 DEF LastHash
  <2>2. CASE chain # <<>>
    <3>1. Len(chain) \in DOMAIN chain /\ Last(chain) = chain[Len(chain)]  BY <1>4, <2>2 DEF Last
    <3>2. chain[Len(chain)] \in Line  BY <1>4, <3>1
    <3> QED BY <2>2, <3>1, <3>2, <1>4 DEF LastHash, Line
  <2> QED BY <2>1, <2>2
<1>6. e = [seq |-> Len(chain), prev |-> LastHash, hash |-> Append(LastHash, payload), payload |-> payload]
  BY <1>1 DEF AuditEntry
<1> HIDE DEF payload
<1>7. e \in Line /\ e # None
  <2>1. Append(LastHash, payload) \in Seq(Payload)  BY <1>3, <1>5
  <2>2. e \in Line  BY <1>3, <1>4, <1>5, <1>6, <2>1, Zenon DEF Line
  <2> QED BY <2>2, GovernanceAssumption
<1>8. /\ e.seq = Len(chain) /\ e.prev = LastHash /\ e.hash = Append(e.prev, e.payload)
      /\ e.payload = payload
  BY <1>6
<1>9. /\ DOMAIN chain' = 1..(Len(chain) + 1) /\ chain'[Len(chain) + 1] = e
      /\ \A n \in DOMAIN chain : chain'[n] = chain[n]
  BY <1>2, <1>4, <1>7
<1>10. GovernanceType'  BY <1>2, <1>4, <1>7 DEF GovernanceType, GovernanceInv
<1>11. PoliciesSorted'  BY <1>2 DEF GovernanceInv, PoliciesSorted, Earlier
<1>12. GrantsOwned'
  <2>1. e.payload.decision.allowed => Owns(e.payload.request.tenant, e.payload.request.repo)
    BY <1>8, DecideTyped DEF payload
  <2> QED BY <1>2, <1>4, <1>9, <2>1 DEF GovernanceInv, GrantsOwned, Owns
<1>13. Numbered'  BY <1>4, <1>8, <1>9 DEF GovernanceInv, Numbered
<1>14. VerifyChain(chain)'
  <2> SUFFICES ASSUME NEW n \in DOMAIN chain'
               PROVE  /\ chain'[n].prev = (IF n = 1 THEN <<>> ELSE chain'[n - 1].hash)
                      /\ chain'[n].hash = Append(chain'[n].prev, chain'[n].payload)
    BY DEF VerifyChain
  <2>1. CASE n \in DOMAIN chain
    <3>1. n # 1 => n - 1 \in DOMAIN chain  BY <1>4, <2>1
    <3> QED BY <1>9, <2>1, <3>1 DEF GovernanceInv, VerifyChain
  <2>2. CASE n = Len(chain) + 1
    <3>1. n # 1 => n - 1 = Len(chain) /\ n - 1 \in DOMAIN chain  BY <1>4, <2>2
    <3> QED BY <1>4, <1>5, <1>8, <1>9, <2>2, <3>1, SMTT(30)
  <2> QED BY <1>4, <1>9, <2>1, <2>2
<1>15. e \notin ToSet(chain)
  BY <1>4, <1>8 DEF GovernanceInv, Numbered, ToSet
<1>16. ToSet(chain') = ToSet(chain) \union {e}
  <2>1. \A l : l \in ToSet(chain') <=> \E n \in DOMAIN chain' : chain'[n] = l  BY DEF ToSet
  <2>2. \A l : l \in ToSet(chain) <=> \E n \in DOMAIN chain : chain[n] = l  BY DEF ToSet
  <2>3. DOMAIN chain = 1..Len(chain) /\ Len(chain) \in Nat  BY <1>4
  <2>4. \A n : n \in DOMAIN chain' <=> n \in DOMAIN chain \/ n = Len(chain) + 1  BY <1>9, <2>3
  <2>5. ASSUME NEW l \in ToSet(chain') PROVE l \in ToSet(chain) \union {e}
    BY <1>9, <2>1, <2>2, <2>4
  <2>6. ASSUME NEW l \in ToSet(chain) \union {e} PROVE l \in ToSet(chain')
    <3>1. CASE l = e  BY <1>9, <2>1, <2>4, <3>1
    <3>2. CASE l \in ToSet(chain)  BY <1>9, <2>1, <2>2, <2>4, <3>2
    <3> QED BY <3>1, <3>2
  <2> QED BY <2>5, <2>6
<1>17. OnTheWay' = OnTheWay \union {e}
  BY <1>2, <1>4, <1>7 DEF OnTheWay
<1>18. WrittenOnce'
  <2>1. /\ IsInjective(file) /\ ToSet(chain) = ToSet(file) \union unwritten \union OnTheWay
        /\ ToSet(file) \intersect OnTheWay = {}
        /\ \A s, u \in Threads : writing[s] # None /\ writing[s] = writing[u] => s = u
    BY DEF GovernanceInv, WrittenOnce
  <2>2. ToSet(chain)' = ToSet(chain') /\ ToSet(file)' = ToSet(file) /\ IsInjective(file)'
    BY <1>2, <2>1 DEF ToSet
  <2>3. \A s \in Threads : writing[s] # e  BY <1>7, <1>15, <2>1 DEF OnTheWay
  <2>4. \A s, u \in Threads : writing'[s] # None /\ writing'[s] = writing'[u] => s = u
    BY <1>2, <1>4, <2>1, <2>3
  <2> QED BY <1>2, <1>15, <1>16, <1>17, <2>1, <2>2, <2>4 DEF WrittenOnce
<1> QED BY <1>10, <1>11, <1>12, <1>13, <1>14, <1>18 DEF GovernanceInv

(* The sink takes the line of a thread, or loses it.                       *)
LEMMA SinkKeeps ==
    ASSUME GovernanceInv, NEW t \in Threads, SinkWrites(t) \/ SinkFails(t)
    PROVE  GovernanceInv'
<1>1. /\ chain \in Seq(Line) /\ file \in Seq(Line) /\ unwritten \subseteq Line
      /\ writing \in [Threads -> Line \union {None}]
  BY DEF GovernanceInv, GovernanceType
<1>2. /\ IsInjective(file) /\ ToSet(chain) = ToSet(file) \union unwritten \union OnTheWay
      /\ ToSet(file) \intersect OnTheWay = {}
      /\ \A s, u \in Threads : writing[s] # None /\ writing[s] = writing[u] => s = u
  BY DEF GovernanceInv, WrittenOnce
<1>3. PICK e : e = writing[t]  OBVIOUS
<1>4. /\ e # None /\ writing' = [writing EXCEPT ![t] = None]
      /\ UNCHANGED <<tenants, owner, policies, chain>>
  BY <1>3 DEF SinkWrites, SinkFails
<1>5. e \in Line /\ e \in OnTheWay  BY <1>1, <1>3, <1>4 DEF OnTheWay
<1>6. OnTheWay' = OnTheWay \ {e}
  BY <1>1, <1>2, <1>3, <1>4 DEF OnTheWay
<1>7. \A s, u \in Threads : writing'[s] # None /\ writing'[s] = writing'[u] => s = u
  BY <1>1, <1>2, <1>4
<1>8. ToSet(chain)' = ToSet(chain)  BY <1>4 DEF ToSet
<1>9. CASE SinkWrites(t)
  <2>1. file' = Append(file, e) /\ unwritten' = unwritten  BY <1>3, <1>9 DEF SinkWrites
  <2>2. /\ DOMAIN file = 1..Len(file) /\ Len(file) \in Nat
        /\ DOMAIN file' = 1..(Len(file) + 1) /\ file'[Len(file) + 1] = e
        /\ \A n \in DOMAIN file : file'[n] = file[n]
    BY <1>1, <1>5, <2>1
  <2>3. ToSet(file)' = ToSet(file) \union {e}  BY <2>2 DEF ToSet
  <2>4. e \notin ToSet(file)  BY <1>2, <1>5
  <2>5. IsInjective(file)'
    BY <1>2, <2>2, <2>4 DEF IsInjective, ToSet
  <2>6. WrittenOnce'  BY <1>2, <1>5, <1>6, <1>7, <1>8, <2>1, <2>3, <2>5 DEF WrittenOnce
  <2>7. GovernanceType'  BY <1>1, <1>4, <1>5, <2>1 DEF GovernanceType, GovernanceInv
  <2> QED BY <1>4, <2>6, <2>7 DEF GovernanceInv, PoliciesSorted, GrantsOwned, Numbered, VerifyChain,
              Owns, Earlier
<1>10. CASE SinkFails(t)
  <2>1. file' = file /\ unwritten' = unwritten \union {e}  BY <1>3, <1>10 DEF SinkFails
  <2>2. ToSet(file)' = ToSet(file) /\ IsInjective(file)'  BY <1>2, <2>1 DEF ToSet
  <2>3. WrittenOnce'  BY <1>2, <1>5, <1>6, <1>7, <1>8, <2>1, <2>2 DEF WrittenOnce
  <2>4. GovernanceType'  BY <1>1, <1>4, <1>5, <2>1 DEF GovernanceType, GovernanceInv
  <2> QED BY <1>4, <2>3, <2>4 DEF GovernanceInv, PoliciesSorted, GrantsOwned, Numbered, VerifyChain,
              Owns, Earlier
<1> QED BY <1>9, <1>10

LEMMA GovernanceKeeps == GovernanceInv /\ [GovernanceNext]_govVars => GovernanceInv'
<1> SUFFICES ASSUME GovernanceInv, [GovernanceNext]_govVars PROVE GovernanceInv'  OBVIOUS
<1>1. ASSUME NEW p \in Policies, AddPolicy(p) PROVE GovernanceInv'  BY <1>1, AddPolicyKeeps
<1>2. ASSUME NEW t \in Tenants, RegisterTenant(t) \/ \E r \in Repositories : AssignRepo(t, r)
      PROVE  GovernanceInv'
  BY <1>2, TenantsKeep
<1>3. ASSUME NEW t \in Threads, SinkWrites(t) \/ SinkFails(t) PROVE GovernanceInv'
  BY <1>3, SinkKeeps
<1>4. ASSUME NEW t \in Threads, NEW q \in Requests, Check(t, q) PROVE GovernanceInv'
  BY <1>4, CheckKeeps
<1>5. CASE UNCHANGED govVars
  <2>1. UNCHANGED <<tenants, owner, policies, chain, writing, unwritten, file>>  BY <1>5 DEF govVars
  <2> QED BY <2>1 DEF GovernanceInv, GovernanceType, PoliciesSorted, GrantsOwned, Numbered,
              VerifyChain, WrittenOnce, OnTheWay, Owns, Earlier
<1> QED BY <1>1, <1>2, <1>3, <1>4, <1>5 DEF GovernanceNext

(* The first policy with an opinion is the one at the least position.      *)
LEMMA FirstDecides ==
    ASSUME GovernanceInv, NEW q \in Requests
    PROVE  LET with == {p \in ToSet(policies) : Effect(p, q) # "neutral"}
               got == Evaluate(q) IN
           IF with = {} THEN got.allowed
           ELSE \E p \in with : /\ \A o \in with \ {p} : Earlier(p, o)
                                /\ got = [allowed |-> Effect(p, q) = "allow", by |-> p.name]
<1> DEFINE opinions == {n \in DOMAIN policies : Effect(policies[n], q) # "neutral"}
           with == {p \in ToSet(policies) : Effect(p, q) # "neutral"}
<1>1. with = {policies[n] : n \in opinions}  BY DEF ToSet
<1>2. CASE opinions = {}
  <2>1. with = {} /\ Evaluate(q).allowed  BY <1>1, <1>2 DEF Evaluate
  <2> QED BY <2>1
<1>3. CASE opinions # {}
  <2>1. policies \in Seq(Policies)  BY DEF GovernanceInv, GovernanceType
  <2>2. IsFiniteSet(opinions) /\ opinions \subseteq Int
    <3>1. IsFiniteSet(DOMAIN policies)  BY <2>1, FS_Interval
    <3> QED BY <2>1, <3>1, FS_Subset
  <2>3. \E m \in opinions : \A k \in opinions : m <= k
    <3> HIDE DEF opinions
    <3> QED BY <1>3, <2>2, LeastElement
  <2>4. Min(opinions) \in opinions /\ \A k \in opinions : Min(opinions) <= k
    <3> HIDE DEF opinions
    <3> QED BY <2>3 DEF Min
  <2>5. PICK m \in opinions : m = Min(opinions)  BY <2>4
  <2>6. \A k \in opinions \ {m} : m < k  BY <2>2, <2>4, <2>5
  <2>7. \A k \in opinions \ {m} : Earlier(policies[m], policies[k])
    BY <2>6 DEF GovernanceInv, PoliciesSorted
  <2>8. Evaluate(q) = [allowed |-> Effect(policies[m], q) = "allow", by |-> policies[m].name]
    BY <1>3, <2>5 DEF Evaluate
  <2>9. policies[m] \in with  BY <1>1
  <2>10. \A o \in with \ {policies[m]} : Earlier(policies[m], o)  BY <1>1, <2>7
  <2> HIDE DEF with
  <2> QED BY <2>8, <2>9, <2>10 DEF with
<1> QED BY <1>2, <1>3

(* A file read back into a new store gives a chain that verifies.          *)
LEMMA ReplayVerifies == ASSUME NEW D, NEW s \in Seq(D) PROVE VerifyChain(Rechained(s))
<1> SUFFICES ASSUME NEW n \in DOMAIN s
             PROVE  /\ Rechained(s)[n].prev = (IF n = 1 THEN <<>> ELSE Rechained(s)[n - 1].hash)
                    /\ Rechained(s)[n].hash = Append(Rechained(s)[n].prev, Rechained(s)[n].payload)
  BY DEF VerifyChain, Rechained
<1>1. n \in 1..Len(s) /\ Len(s) \in Nat  OBVIOUS
<1>2. /\ Rechained(s)[n].prev = SubSeq(s, 1, n - 1) /\ Rechained(s)[n].hash = SubSeq(s, 1, n)
      /\ Rechained(s)[n].payload = s[n]
  BY DEF Rechained
<1>3. n = 1 => SubSeq(s, 1, n - 1) = <<>>  OBVIOUS
<1>4. n # 1 => Rechained(s)[n - 1].hash = SubSeq(s, 1, n - 1)
  BY <1>1 DEF Rechained
<1>5. SubSeq(s, 1, n) = Append(SubSeq(s, 1, n - 1), s[n])  BY <1>1, SubSeqRecursiveSecond
<1> QED BY <1>2, <1>3, <1>4, <1>5

LEMMA GovernanceServes == GovernanceInv => DecisionsHold
<1> SUFFICES ASSUME GovernanceInv PROVE DecisionsHold  OBVIOUS
<1>1. \A m, n \in DOMAIN chain :
         LET a == chain[m].payload  b == chain[n].payload IN
         (a.decision.allowed /\ b.decision.allowed /\ a.request.repo = b.request.repo) =>
            a.request.tenant = b.request.tenant
  BY DEF GovernanceInv, GrantsOwned, Owns
<1>2. \A q \in Requests :
         LET with == {p \in ToSet(policies) : Effect(p, q) # "neutral"}
             got == Evaluate(q) IN
         IF with = {} THEN got.allowed
         ELSE \E p \in with : /\ \A o \in with \ {p} : Earlier(p, o)
                              /\ got = [allowed |-> Effect(p, q) = "allow", by |-> p.name]
  BY FirstDecides
<1>3. VerifyChain(Replayed(file))
  <2>1. file \in Seq(Line)  BY DEF GovernanceInv, GovernanceType
  <2>2. [n \in DOMAIN file |-> file[n].payload] \in Seq({file[n].payload : n \in DOMAIN file})
    BY <2>1
  <2> QED BY <2>2, ReplayVerifies DEF Replayed
<1> QED BY <1>1, <1>2, <1>3 DEF DecisionsHold, GovernanceInv, WrittenOnce, OnTheWay

\* No decision was ever granted to two tenants for one repository, the
\* first policy with an opinion decides, and the trail is complete: for any
\* policies, tenants and threads.
THEOREM DecisionsAlwaysHold == GovernanceSpec => []DecisionsHold
<1>1. GovernanceSpec => []GovernanceInv
  BY GovernanceStarts, GovernanceKeeps, PTL DEF GovernanceSpec
<1> QED BY <1>1, GovernanceServes, PTL

---------------------------------------------------------------------------
(* The worker pool.                                                        *)

PoolType ==
    /\ heap \subseteq Tasks /\ running \subseteq Tasks /\ backoff \subseteq Tasks
    /\ seq \in Seq(Tasks) /\ line \in Seq(Tasks) /\ begun \in Seq(Tasks)
    /\ attempt \in [Tasks -> Nat]
    /\ future \in [Tasks -> {None, "waiting", "result", "error", "cancelled"}]
    /\ stats \in [submitted : Int, completed : Int, failed : Int, retried : Int, inflight : Int]

\* A submitted task is in one place at a time, and has begun once it left
\* the line for the first time.
PoolPlaces ==
    /\ IsInjective(seq) /\ IsInjective(line) /\ IsInjective(begun)
    /\ \A t \in Tasks : future[t] = None <=> t \notin ToSet(seq)
    /\ heap \union ToSet(line) \union ToSet(begun) \subseteq ToSet(seq)
    /\ ToSet(seq) \subseteq heap \union ToSet(line) \union ToSet(begun)
    /\ running \union backoff \subseteq ToSet(begun)
    /\ heap \intersect (ToSet(line) \union ToSet(begun)) = {}
    /\ ToSet(line) \intersect (running \union backoff) = {} /\ running \intersect backoff = {}

\* Of two tasks, the one submitted first with no lower priority is first
\* out of the heap, first in the line, and first to begin.
PoolOrder ==
    \A i, j \in DOMAIN seq : (i < j /\ Prio[seq[i]] >= Prio[seq[j]]) =>
        /\ seq[i] \in heap => seq[j] \in heap
        /\ \A n \in DOMAIN line : (line[n] = seq[j] /\ seq[j] \notin ToSet(begun)) =>
              seq[i] \in ToSet(begun) \/ \E m \in DOMAIN line : m < n /\ line[m] = seq[i]
        /\ \A n \in DOMAIN begun : begun[n] = seq[j] =>
              \E m \in DOMAIN begun : m < n /\ begun[m] = seq[i]

PoolCounts ==
    /\ Cardinality(running) <= WorkerCount
    /\ stats.inflight = Cardinality(running)
    /\ stats.submitted = stats.completed + stats.failed + Len(line) + Cardinality(running \union backoff)

PoolInv == PoolType /\ PoolPlaces /\ PoolOrder /\ PoolCounts

Stats == [submitted : Int, completed : Int, failed : Int, retried : Int, inflight : Int]

Stat(s, c, f, r, i) == [submitted |-> s, completed |-> c, failed |-> f, retried |-> r, inflight |-> i]

LEMMA StatsRecord ==
    ASSUME NEW s \in Int, NEW c \in Int, NEW f \in Int, NEW r \in Int, NEW i \in Int
    PROVE  Stat(s, c, f, r, i) \in Stats
  BY DEF Stats, Stat

LEMMA StatsFields ==
    ASSUME NEW s \in Stats
    PROVE  /\ s.submitted \in Int /\ s.completed \in Int /\ s.failed \in Int /\ s.retried \in Int
           /\ s.inflight \in Int
  BY DEF Stats

LEMMA PoolStarts == PoolInit => PoolInv
<1> SUFFICES ASSUME PoolInit PROVE PoolInv  OBVIOUS
<1>1. PoolType
  <2>1. stats = Stat(0, 0, 0, 0, 0)  BY DEF PoolInit, Stat
  <2>2. stats \in Stats  BY <2>1, StatsRecord
  <2> QED BY <2>2 DEF PoolInit, PoolType, Stats
<1>2. PoolPlaces  BY PoolAssumption DEF PoolInit, PoolPlaces, IsInjective, ToSet
<1>3. PoolOrder  BY DEF PoolInit, PoolOrder
<1>4. PoolCounts
  <2>1. Cardinality({}) = 0  BY FS_EmptySet
  <2>2. running = {} /\ backoff = {} /\ running \union backoff = {} /\ Len(line) = 0  BY DEF PoolInit
  <2>3. stats.inflight = 0 /\ stats.submitted = 0 /\ stats.completed = 0 /\ stats.failed = 0
    BY DEF PoolInit
  <2> QED BY <2>1, <2>2, <2>3, PoolAssumption DEF PoolCounts
<1> QED BY <1>1, <1>2, <1>3, <1>4 DEF PoolInv

LEMMA PoolFacts ==
    ASSUME PoolInv
    PROVE  /\ seq \in Seq(Tasks) /\ Len(seq) \in Nat /\ DOMAIN seq = 1..Len(seq)
           /\ line \in Seq(Tasks) /\ Len(line) \in Nat /\ DOMAIN line = 1..Len(line)
           /\ begun \in Seq(Tasks) /\ Len(begun) \in Nat /\ DOMAIN begun = 1..Len(begun)
  BY DEF PoolInv, PoolType

LEMMA PoolSizes ==
    ASSUME PoolInv
    PROVE  /\ IsFiniteSet(heap) /\ IsFiniteSet(running) /\ IsFiniteSet(backoff)
           /\ IsFiniteSet(running \union backoff)
           /\ Cardinality(running) \in Nat /\ Cardinality(running \union backoff) \in Nat
           /\ Cardinality(heap) \in Nat
<1>1. PoolType  BY DEF PoolInv
<1>2. IsFiniteSet(heap) /\ IsFiniteSet(running) /\ IsFiniteSet(backoff)
      /\ IsFiniteSet(running \union backoff)
  <2>1. \A S \in SUBSET Tasks : IsFiniteSet(S)  BY PoolAssumption, FS_Subset
  <2> QED BY <1>1, <2>1 DEF PoolType
<1> QED BY <1>1, <1>2, FS_CardinalityType DEF PoolType

LEMMA PoolStats ==
    ASSUME PoolInv
    PROVE  /\ stats \in Stats
           /\ stats.submitted \in Int /\ stats.completed \in Int /\ stats.failed \in Int
           /\ stats.retried \in Int /\ stats.inflight \in Int
<1>1. stats \in Stats  BY DEF PoolInv, PoolType, Stats
<1> QED BY <1>1, StatsFields

(* A step that changes nothing the order or the places depend on.          *)
LEMMA SameOrder ==
    ASSUME PoolOrder, UNCHANGED <<heap, seq, line, begun>> PROVE PoolOrder'
  BY DEF PoolOrder

LEMMA SamePlaces ==
    ASSUME PoolPlaces, UNCHANGED <<heap, seq, line, begun, running, backoff>>,
           \A u \in Tasks : future'[u] = None <=> future[u] = None
    PROVE  PoolPlaces'
<1>1. heap' = heap /\ seq' = seq /\ line' = line /\ begun' = begun  OBVIOUS
<1>2. /\ ToSet(begun)' = ToSet(begun) /\ ToSet(seq)' = ToSet(seq) /\ ToSet(line)' = ToSet(line)
      /\ IsInjective(begun)' = IsInjective(begun) /\ IsInjective(seq)' = IsInjective(seq)
      /\ IsInjective(line)' = IsInjective(line)
  BY <1>1
<1> QED BY <1>1, <1>2 DEF PoolPlaces

(* The order after a step that adds nothing to the heap, pair by pair.     *)
LEMMA PoolOrderAgain ==
    ASSUME seq' = seq, heap' = heap,
           \A i, j \in DOMAIN seq : (i < j /\ Prio[seq[i]] >= Prio[seq[j]]) =>
              /\ seq[i] \in heap => seq[j] \in heap
              /\ \A n \in DOMAIN line' : (line'[n] = seq[j] /\ seq[j] \notin ToSet(begun')) =>
                    seq[i] \in ToSet(begun') \/ \E m \in DOMAIN line' : m < n /\ line'[m] = seq[i]
              /\ \A n \in DOMAIN begun' : begun'[n] = seq[j] =>
                    \E m \in DOMAIN begun' : m < n /\ begun'[m] = seq[i]
    PROVE  PoolOrder'
<1>1. ToSet(begun)' = ToSet(begun')  OBVIOUS
<1> QED BY <1>1 DEF PoolOrder

LEMMA SubmitKeeps == ASSUME PoolInv, NEW t \in Tasks, Submit(t) PROVE PoolInv'
<1> USE PoolFacts
<1>1. /\ future[t] = None /\ seq' = Append(seq, t) /\ heap' = heap \union {t}
      /\ future' = [future EXCEPT ![t] = "waiting"]
      /\ UNCHANGED <<line, running, backoff, attempt, begun, stats>>
  BY DEF Submit
<1>2. t \notin ToSet(seq)  BY <1>1 DEF PoolInv, PoolPlaces
<1>3. /\ seq' \in Seq(Tasks) /\ DOMAIN seq' = 1..(Len(seq) + 1)
      /\ \A n \in DOMAIN seq : seq'[n] = seq[n]
      /\ seq'[Len(seq) + 1] = t
      /\ ToSet(seq)' = ToSet(seq) \union {t}
      /\ IsInjective(seq')
  <2>1. IsInjective(seq)  BY DEF PoolInv, PoolPlaces
  <2> QED BY <1>1, <1>2, <2>1, AppendSet
<1>4. PoolType'  BY <1>1, <1>3 DEF PoolInv, PoolType
<1>5. ToSet(line)' = ToSet(line) /\ ToSet(begun)' = ToSet(begun)  BY <1>1 DEF ToSet
<1>6. PoolPlaces'
  <2> USE DEF PoolInv, PoolPlaces
  <2>1. \A u \in Tasks : future'[u] = None <=> u \notin ToSet(seq)'
    BY <1>1, <1>3, PoolAssumption DEF PoolType
  <2>2. /\ heap' \union ToSet(line)' \union ToSet(begun)' \subseteq ToSet(seq)'
        /\ ToSet(seq)' \subseteq heap' \union ToSet(line)' \union ToSet(begun)'
        /\ heap' \intersect (ToSet(line)' \union ToSet(begun)') = {}
    BY <1>1, <1>2, <1>3, <1>5
  <2> QED BY <1>1, <1>3, <1>5, <2>1, <2>2
<1>7. PoolOrder'
  <2> SUFFICES ASSUME NEW i \in DOMAIN seq', NEW j \in DOMAIN seq', i < j,
                      Prio[seq'[i]] >= Prio[seq'[j]]
               PROVE  /\ seq'[i] \in heap' => seq'[j] \in heap'
                      /\ \A n \in DOMAIN line : (line[n] = seq'[j] /\ seq'[j] \notin ToSet(begun)) =>
                            seq'[i] \in ToSet(begun) \/ \E m \in DOMAIN line : m < n /\ line[m] = seq'[i]
                      /\ \A n \in DOMAIN begun : begun[n] = seq'[j] =>
                            \E m \in DOMAIN begun : m < n /\ begun[m] = seq'[i]
    BY <1>1, <1>5 DEF PoolOrder
  <2>1. i \in DOMAIN seq /\ seq'[i] = seq[i]  BY <1>3
  <2>2. seq[i] # t  BY <1>2, <2>1 DEF ToSet
  <2>3. CASE j \in DOMAIN seq
    <3>1. seq'[j] = seq[j] /\ seq[j] # t  BY <1>2, <1>3, <2>3 DEF ToSet
    <3> QED BY <1>1, <2>1, <2>2, <2>3, <3>1 DEF PoolInv, PoolOrder
  <2>4. CASE j = Len(seq) + 1
    <3>1. seq'[j] = t /\ t \notin ToSet(line) /\ t \notin ToSet(begun)
      BY <1>2, <1>3, <2>4 DEF PoolInv, PoolPlaces
    <3> QED BY <1>1, <3>1 DEF ToSet
  <2> QED BY <1>3, <2>3, <2>4
<1>8. PoolCounts'  BY <1>1 DEF PoolInv, PoolCounts
<1> QED BY <1>4, <1>6, <1>7, <1>8 DEF PoolInv

(* The drain hands the heap to the line in the order of the sort key.      *)
LEMMA PlaceIs ==
    ASSUME PoolInv, NEW n \in DOMAIN seq PROVE Place(seq[n]) = n
  BY DEF PoolInv, PoolPlaces, IsInjective, Place

LEMMA DrainSorts ==
    ASSUME PoolInv
    PROVE  \E o \in Seq(Tasks) :
              /\ o = Ordered(heap, Before)
              /\ Len(o) = Cardinality(heap) /\ ToSet(o) = heap /\ IsInjective(o)
              /\ \A i, j \in DOMAIN seq, n \in DOMAIN o :
                    (i < j /\ Prio[seq[i]] >= Prio[seq[j]] /\ seq[i] \in heap /\ o[n] = seq[j])
                       => \E m \in DOMAIN o : m < n /\ o[m] = seq[i]
<1> USE PoolFacts
<1> DEFINE R == {e \in heap \X heap : Before(e[1], e[2])}
           o == Sorted(heap, R)
           N == Cardinality(heap)
<1>1. \A x, y \in heap : <<x, y>> \in R <=> Before(x, y)  OBVIOUS
<1>2. \A x \in heap : \E n \in DOMAIN seq : seq[n] = x /\ Place(x) = n
  <2> SUFFICES ASSUME NEW x \in heap PROVE \E n \in DOMAIN seq : seq[n] = x /\ Place(x) = n  OBVIOUS
  <2>1. x \in ToSet(seq)  BY DEF PoolInv, PoolPlaces
  <2>2. PICK n \in DOMAIN seq : seq[n] = x  BY <2>1 DEF ToSet
  <2> QED BY <2>2, PlaceIs
<1>3. \A x \in heap : Prio[x] \in Int  BY PoolAssumption DEF PoolInv, PoolType
<1> HIDE DEF R
<1>4. StrictTotal(heap, R)
  <2>1. \A x \in heap : <<x, x>> \notin R  BY <1>1, <1>2, <1>3 DEF Before
  <2>2. \A x, y, z \in heap : <<x, y>> \in R /\ <<y, z>> \in R => <<x, z>> \in R
    <3> SUFFICES ASSUME NEW x \in heap, NEW y \in heap, NEW z \in heap, Before(x, y), Before(y, z)
                 PROVE  Before(x, z)
      BY <1>1
    <3>1. Place(x) \in Nat /\ Place(y) \in Nat /\ Place(z) \in Nat  BY <1>2
    <3>2. PICK p \in Int, q \in Int, r \in Int : p = Prio[x] /\ q = Prio[y] /\ r = Prio[z]  BY <1>3
    <3>3. PICK i \in Int, j \in Int, k \in Int : i = Place(x) /\ j = Place(y) /\ k = Place(z)  BY <3>1
    <3>4. (0 - p < 0 - q \/ (p = q /\ i < j)) /\ (0 - q < 0 - r \/ (q = r /\ j < k))
      BY <3>2, <3>3 DEF Before
    <3>5. 0 - p < 0 - r \/ (p = r /\ i < k)  BY <3>4
    <3> QED BY <3>2, <3>3, <3>5 DEF Before
  <2>3. \A x, y \in heap : x = y \/ <<x, y>> \in R \/ <<y, x>> \in R
    <3> SUFFICES ASSUME NEW x \in heap, NEW y \in heap, x # y PROVE Before(x, y) \/ Before(y, x)
      BY <1>1
    <3>1. Place(x) \in Nat /\ Place(y) \in Nat /\ Place(x) # Place(y)  BY <1>2
    <3> QED BY <1>3, <3>1 DEF Before
  <2> QED BY <2>1, <2>2, <2>3 DEF StrictTotal
<1>5. o = Ordered(heap, Before)
  <2>1. \A x \in heap : {y \in heap : Before(y, x)} = Below(heap, R, x)  BY <1>1 DEF Below
  <2>2. Ordered(heap, Before)
           = [n \in 1..N |-> CHOOSE x \in heap : Cardinality({y \in heap : Before(y, x)}) = n - 1]
    BY DEF Ordered
  <2> QED BY <2>1, <2>2 DEF Sorted
<1> HIDE DEF o
<1>6. /\ o \in [1..N -> heap] /\ N \in Nat
      /\ \A x \in heap : \E n \in 1..N : o[n] = x
      /\ \A m, n \in 1..N : (m < n <=> <<o[m], o[n]>> \in R) /\ (o[m] = o[n] => m = n)
  BY <1>4, PoolSizes, SortedInOrder, FS_CardinalityType DEF o
<1>7. o \in Seq(Tasks) /\ Len(o) = N /\ DOMAIN o = 1..N
  <2>1. heap \subseteq Tasks  BY DEF PoolInv, PoolType
  <2>2. o \in [1..N -> Tasks]  BY <1>6, <2>1
  <2> HIDE DEF N
  <2> QED BY <1>6, <2>2
<1>8. ToSet(o) = heap /\ IsInjective(o)
  <2>1. ToSet(o) = heap  BY <1>6, <1>7 DEF ToSet
  <2>2. \A m, n \in DOMAIN o : o[m] = o[n] => m = n  BY <1>6, <1>7
  <2> QED BY <2>1, <2>2 DEF IsInjective
<1>9. ASSUME NEW i \in DOMAIN seq, NEW j \in DOMAIN seq, NEW n \in DOMAIN o,
             i < j, Prio[seq[i]] >= Prio[seq[j]], seq[i] \in heap, o[n] = seq[j]
      PROVE  \E m \in DOMAIN o : m < n /\ o[m] = seq[i]
  <2>1. seq[j] \in heap  BY <1>6, <1>7, <1>9
  <2>2. Before(seq[i], seq[j])  BY <1>3, <1>9, <2>1, PlaceIs DEF Before
  <2>3. PICK m \in 1..N : o[m] = seq[i]  BY <1>6, <1>9
  <2> QED BY <1>1, <1>6, <1>7, <1>9, <2>1, <2>2, <2>3
<1> QED BY <1>5, <1>7, <1>8, <1>9

LEMMA DrainKeeps == ASSUME PoolInv, Drain PROVE PoolInv'
<1> USE PoolFacts
<1>1. PICK o \in Seq(Tasks) :
         /\ o = Ordered(heap, Before)
         /\ Len(o) = Cardinality(heap) /\ ToSet(o) = heap /\ IsInjective(o)
         /\ \A i, j \in DOMAIN seq, n \in DOMAIN o :
               (i < j /\ Prio[seq[i]] >= Prio[seq[j]] /\ seq[i] \in heap /\ o[n] = seq[j])
                  => \E m \in DOMAIN o : m < n /\ o[m] = seq[i]
  BY DrainSorts
<1>2. /\ heap' = {} /\ line' = line \o o
      /\ stats' = [stats EXCEPT !.submitted = @ + Cardinality(heap)]
      /\ UNCHANGED <<seq, running, backoff, attempt, future, begun>>
  BY <1>1 DEF Drain
<1>3. /\ Len(o) \in Nat /\ DOMAIN o = 1..Len(o)
      /\ line' \in Seq(Tasks) /\ Len(line') = Len(line) + Len(o)
      /\ DOMAIN line' = 1..(Len(line) + Len(o))
      /\ \A n \in DOMAIN line : line'[n] = line[n]
      /\ \A n \in DOMAIN o : Len(line) + n \in DOMAIN line' /\ line'[Len(line) + n] = o[n]
      /\ \A n \in DOMAIN line' : n \in DOMAIN line
                                 \/ \E k \in DOMAIN o : n = Len(line) + k
  <2>1. Len(o) \in Nat /\ DOMAIN o = 1..Len(o)  OBVIOUS
  <2>2. line' \in Seq(Tasks) /\ Len(line') = Len(line) + Len(o)
        /\ DOMAIN line' = 1..(Len(line) + Len(o))  BY <1>2, <2>1
  <2>3. \A n \in DOMAIN line : line'[n] = line[n]  BY <1>2, <2>1
  <2>4. \A n \in DOMAIN o : Len(line) + n \in DOMAIN line' /\ line'[Len(line) + n] = o[n]
    BY <1>2, <2>1, <2>2
  <2>5. ASSUME NEW n \in DOMAIN line', n \notin DOMAIN line PROVE \E k \in DOMAIN o : n = Len(line) + k
    <3>1. n - Len(line) \in DOMAIN o  BY <2>1, <2>2, <2>5
    <3> QED BY <3>1, <2>2
  <2> QED BY <2>1, <2>2, <2>3, <2>4, <2>5
<1>4. ToSet(line') = ToSet(line) \union heap
  <2>1. \A n \in DOMAIN line' : line'[n] \in ToSet(line) \union ToSet(o)  BY <1>3 DEF ToSet
  <2>2. \A n \in DOMAIN line : line[n] \in ToSet(line')  BY <1>3 DEF ToSet
  <2>3. \A n \in DOMAIN o : o[n] \in ToSet(line')  BY <1>3 DEF ToSet
  <2> QED BY <1>1, <2>1, <2>2, <2>3 DEF ToSet
<1>5. IsInjective(line')
  <2>1. IsInjective(line) /\ ToSet(line) \intersect heap = {}  BY DEF PoolInv, PoolPlaces
  <2>2. \A n \in DOMAIN line : line[n] \notin heap  BY <2>1 DEF ToSet
  <2>3. \A n \in DOMAIN o : o[n] \in heap  BY <1>1 DEF ToSet
  <2>4. ASSUME NEW m \in DOMAIN line', NEW n \in DOMAIN line', line'[m] = line'[n] PROVE m = n
    <3>1. CASE m \in DOMAIN line /\ n \in DOMAIN line  BY <1>3, <2>1, <2>4, <3>1 DEF IsInjective
    <3>2. ASSUME NEW j \in DOMAIN o, NEW k \in DOMAIN o, m = Len(line) + j, n = Len(line) + k
          PROVE  m = n
      <4>1. o[j] = o[k]  BY <1>3, <2>4, <3>2
      <4> QED BY <1>1, <3>2, <4>1 DEF IsInjective
    <3>3. ~(m \in DOMAIN line /\ \E k \in DOMAIN o : n = Len(line) + k)  BY <1>3, <2>2, <2>3, <2>4
    <3>4. ~(n \in DOMAIN line /\ \E k \in DOMAIN o : m = Len(line) + k)  BY <1>3, <2>2, <2>3, <2>4
    <3> QED BY <1>3, <3>1, <3>2, <3>3, <3>4
  <2> QED BY <2>4 DEF IsInjective
<1>6. /\ stats' \in Stats /\ stats'.submitted = stats.submitted + Cardinality(heap)
      /\ stats'.completed = stats.completed /\ stats'.failed = stats.failed
      /\ stats'.inflight = stats.inflight
  <2>1. PICK n \in Int : n = stats.submitted + Cardinality(heap)  BY PoolSizes, PoolStats
  <2>2. stats' = Stat(n, stats.completed, stats.failed, stats.retried, stats.inflight)
    BY <1>2, <2>1, PoolStats DEF Stats, Stat
  <2>3. stats' \in Stats  BY <2>2, PoolStats, StatsRecord
  <2> QED BY <2>1, <2>2, <2>3 DEF Stat
<1>7. PoolType'  BY <1>2, <1>3, <1>6 DEF PoolInv, PoolType, Stats
<1>8. ToSet(seq)' = ToSet(seq) /\ ToSet(begun)' = ToSet(begun) /\ ToSet(line)' = ToSet(line')
  BY <1>2 DEF ToSet
<1>9. PoolPlaces'
  <2>1. heap \intersect (running \union backoff) = {}  BY DEF PoolInv, PoolPlaces
  <2> QED BY <1>2, <1>4, <1>5, <1>8, <2>1 DEF PoolInv, PoolPlaces
<1>10. PoolOrder'
  <2> SUFFICES ASSUME NEW i \in DOMAIN seq, NEW j \in DOMAIN seq, i < j, Prio[seq[i]] >= Prio[seq[j]],
                      NEW n \in DOMAIN line', line'[n] = seq[j], seq[j] \notin ToSet(begun),
                      seq[i] \notin ToSet(begun)
               PROVE  \E m \in DOMAIN line' : m < n /\ line'[m] = seq[i]
    BY <1>2, <1>8 DEF PoolInv, PoolOrder
  <2>1. CASE n \in DOMAIN line
    <3>1. PICK m \in DOMAIN line : m < n /\ line[m] = seq[i]
      BY <1>3, <2>1 DEF PoolInv, PoolOrder
    <3> QED BY <1>3, <3>1
  <2>2. ASSUME NEW k \in DOMAIN o, n = Len(line) + k
        PROVE  \E m \in DOMAIN line' : m < n /\ line'[m] = seq[i]
    <3>1. o[k] = seq[j]  BY <1>3, <2>2
    <3>2. CASE seq[i] \in heap
      <4>1. PICK m \in DOMAIN o : m < k /\ o[m] = seq[i]  BY <1>1, <3>1, <3>2
      <4>2. Len(line) + m \in DOMAIN line' /\ line'[Len(line) + m] = seq[i]  BY <1>3, <4>1
      <4>3. Len(line) + m < n  BY <1>3, <2>2, <4>1
      <4> QED BY <4>2, <4>3
    <3>3. CASE seq[i] \notin heap
      <4>1. seq[i] \in ToSet(line)  BY <3>3 DEF PoolInv, PoolPlaces, ToSet
      <4>2. PICK m \in DOMAIN line : line[m] = seq[i]  BY <4>1 DEF ToSet
      <4> QED BY <1>3, <2>2, <4>2
    <3> QED BY <3>2, <3>3
  <2> QED BY <1>3, <2>1, <2>2
<1>11. PoolCounts'
  <2>1. PoolCounts  BY DEF PoolInv
  <2>2. Len(line') = Len(line) + Cardinality(heap)  BY <1>1, <1>3
  <2> QED BY <1>2, <1>6, <2>1, <2>2, PoolSizes, PoolStats, SMTT(30) DEF PoolCounts
<1> QED BY <1>7, <1>9, <1>10, <1>11 DEF PoolInv

(* A slot of the semaphore goes to the head of the line.                   *)
LEMMA BeginKeeps == ASSUME PoolInv, BeginTask PROVE PoolInv'
<1> USE PoolFacts
<1>1. PICK t \in Tasks : t = Head(line)  BY DEF BeginTask
<1>2. /\ line # <<>> /\ Cardinality(running) < WorkerCount /\ running' = running \union {t}
      /\ begun' = (IF t \in ToSet(begun) THEN begun ELSE Append(begun, t))
      /\ line' = Tail(line) /\ stats' = [stats EXCEPT !.inflight = @ + 1]
      /\ UNCHANGED <<heap, seq, backoff, attempt, future>>
  BY <1>1 DEF BeginTask
<1>3. /\ line' \in Seq(Tasks) /\ Len(line') = Len(line) - 1 /\ DOMAIN line' = 1..(Len(line) - 1)
      /\ \A n \in DOMAIN line' : n + 1 \in DOMAIN line /\ line'[n] = line[n + 1]
      /\ line[1] = t /\ 1 \in DOMAIN line
  BY <1>1, <1>2
<1>4. IsInjective(line) /\ IsInjective(begun)  BY DEF PoolInv, PoolPlaces
<1>5. ToSet(line') = ToSet(line) \ {t} /\ t \in ToSet(line) /\ IsInjective(line')
  <2>1. \A n \in DOMAIN line : n # 1 => n - 1 \in DOMAIN line' /\ line'[n - 1] = line[n]
    <3> SUFFICES ASSUME NEW n \in DOMAIN line, n # 1
                 PROVE  n - 1 \in DOMAIN line' /\ line'[n - 1] = line[n]
      OBVIOUS
    <3>1. n - 1 \in DOMAIN line'  BY <1>3
    <3>2. (n - 1) + 1 = n  OBVIOUS
    <3> QED BY <1>3, <3>1, <3>2
  <2>2. \A n \in DOMAIN line' : line'[n] # t
    BY <1>3, <1>4 DEF IsInjective
  <2>3. \A n \in DOMAIN line' : line'[n] \in ToSet(line)  BY <1>3 DEF ToSet
  <2>4. \A n \in DOMAIN line : line[n] # t => line[n] \in ToSet(line')
    BY <1>3, <2>1 DEF ToSet
  <2>5. ToSet(line') = ToSet(line) \ {t}  BY <2>2, <2>3, <2>4 DEF ToSet
  <2>6. IsInjective(line')  BY <1>3, <1>4 DEF IsInjective
  <2> QED BY <1>3, <2>5, <2>6 DEF ToSet
<1>6. /\ begun' \in Seq(Tasks) /\ ToSet(begun') = ToSet(begun) \union {t} /\ IsInjective(begun')
      /\ \A n \in DOMAIN begun : n \in DOMAIN begun' /\ begun'[n] = begun[n]
      /\ \A n \in DOMAIN begun' :
            n \in DOMAIN begun \/ (n = Len(begun) + 1 /\ begun'[n] = t /\ t \notin ToSet(begun))
  <2>1. CASE t \in ToSet(begun)
    <3>1. begun' = begun  BY <1>2, <2>1
    <3> QED BY <1>4, <2>1, <3>1
  <2>2. CASE t \notin ToSet(begun)
    <3>1. begun' = Append(begun, t)  BY <1>2, <2>2
    <3> DEFINE b == Append(begun, t)
    <3>2. /\ b \in Seq(Tasks) /\ DOMAIN b = 1..(Len(begun) + 1)
          /\ \A n \in DOMAIN begun : b[n] = begun[n]
          /\ b[Len(begun) + 1] = t /\ ToSet(b) = ToSet(begun) \union {t} /\ IsInjective(b)
      BY <1>4, <2>2, AppendSet
    <3> HIDE DEF b
    <3>3. begun' = b  BY <3>1 DEF b
    <3>4. \A n \in DOMAIN begun : n \in DOMAIN b  BY <3>2
    <3>5. \A n \in DOMAIN b : n \in DOMAIN begun \/ n = Len(begun) + 1  BY <3>2
    <3> QED BY <2>2, <3>2, <3>3, <3>4, <3>5
  <2> QED BY <2>1, <2>2
<1>7. /\ ToSet(seq)' = ToSet(seq) /\ ToSet(begun)' = ToSet(begun') /\ ToSet(line)' = ToSet(line')
  BY <1>2 DEF ToSet
<1>8. t \notin running /\ t \notin backoff /\ t \notin heap /\ t \in ToSet(seq)
  BY <1>5 DEF PoolInv, PoolPlaces
<1>9. /\ stats' \in Stats /\ stats'.submitted = stats.submitted
      /\ stats'.completed = stats.completed /\ stats'.failed = stats.failed
      /\ stats'.inflight = stats.inflight + 1
  <2>1. PICK n \in Int : n = stats.inflight + 1  BY PoolStats
  <2>2. stats' = Stat(stats.submitted, stats.completed, stats.failed, stats.retried, n)
    BY <1>2, <2>1, PoolStats DEF Stats, Stat
  <2>3. stats' \in Stats  BY <2>2, PoolStats, StatsRecord
  <2> QED BY <2>1, <2>2, <2>3 DEF Stat
<1>10. PoolType'  BY <1>2, <1>3, <1>6, <1>9 DEF PoolInv, PoolType, Stats
<1>11. PoolPlaces'
  BY <1>2, <1>5, <1>6, <1>7, <1>8 DEF PoolInv, PoolPlaces
<1>12. PoolOrder'
  <2> SUFFICES ASSUME NEW i \in DOMAIN seq, NEW j \in DOMAIN seq, i < j, Prio[seq[i]] >= Prio[seq[j]]
               PROVE  /\ seq[i] \in heap => seq[j] \in heap
                      /\ \A n \in DOMAIN line' : (line'[n] = seq[j] /\ seq[j] \notin ToSet(begun')) =>
                            seq[i] \in ToSet(begun') \/ \E m \in DOMAIN line' : m < n /\ line'[m] = seq[i]
                      /\ \A n \in DOMAIN begun' : begun'[n] = seq[j] =>
                            \E m \in DOMAIN begun' : m < n /\ begun'[m] = seq[i]
    <3>1. seq' = seq /\ heap' = heap  BY <1>2
    <3> QED BY <3>1, <1>7, PoolOrderAgain
  <2>1. /\ seq[i] \in heap => seq[j] \in heap
        /\ \A n \in DOMAIN line : (line[n] = seq[j] /\ seq[j] \notin ToSet(begun)) =>
              seq[i] \in ToSet(begun) \/ \E m \in DOMAIN line : m < n /\ line[m] = seq[i]
        /\ \A n \in DOMAIN begun : begun[n] = seq[j] =>
              \E m \in DOMAIN begun : m < n /\ begun[m] = seq[i]
    BY DEF PoolInv, PoolOrder
  <2>2. ASSUME NEW n \in DOMAIN line', line'[n] = seq[j], seq[j] \notin ToSet(begun'),
               seq[i] \notin ToSet(begun')
        PROVE  \E m \in DOMAIN line' : m < n /\ line'[m] = seq[i]
    <3>1. n + 1 \in DOMAIN line /\ line[n + 1] = seq[j] /\ seq[j] \notin ToSet(begun)
          /\ seq[i] \notin ToSet(begun) /\ seq[i] # t
      BY <1>3, <1>6, <2>2
    <3>2. PICK m \in DOMAIN line : m < n + 1 /\ line[m] = seq[i]  BY <2>1, <3>1
    <3>3. m # 1  BY <1>3, <3>1, <3>2
    <3>4. m - 1 \in DOMAIN line' /\ (m - 1) + 1 = m /\ m - 1 < n  BY <1>3, <3>2, <3>3
    <3>5. line'[m - 1] = seq[i]  BY <1>3, <3>2, <3>4
    <3> QED BY <3>4, <3>5
  <2>3. ASSUME NEW n \in DOMAIN begun', begun'[n] = seq[j]
        PROVE  \E m \in DOMAIN begun' : m < n /\ begun'[m] = seq[i]
    <3>1. CASE n \in DOMAIN begun
      <4>1. PICK m \in DOMAIN begun : m < n /\ begun[m] = seq[i]  BY <1>6, <2>1, <2>3, <3>1
      <4> QED BY <1>6, <4>1
    <3>2. CASE n = Len(begun) + 1 /\ begun'[n] = t /\ t \notin ToSet(begun)
      <4>1. seq[i] \in ToSet(begun)  BY <1>3, <2>1, <2>3, <3>2
      <4>2. PICK m \in DOMAIN begun : begun[m] = seq[i]  BY <4>1 DEF ToSet
      <4> QED BY <1>6, <3>2, <4>2
    <3> QED BY <1>6, <3>1, <3>2
  <2> QED BY <2>1, <2>2, <2>3
<1>13. PoolCounts'
  <2>1. Cardinality(running') = Cardinality(running) + 1  BY <1>2, <1>8, PoolSizes, FS_AddElement
  <2>2. running' \union backoff' = (running \union backoff) \union {t}  BY <1>2
  <2>3. Cardinality(running' \union backoff') = Cardinality(running \union backoff) + 1
    BY <1>8, <2>2, PoolSizes, FS_AddElement
  <2>4. PoolCounts  BY DEF PoolInv
  <2>5. Cardinality(running) + 1 <= WorkerCount  BY <1>2, PoolSizes, PoolAssumption
  <2>6. stats'.submitted = stats'.completed + stats'.failed + Len(line') + Cardinality(running' \union backoff')
    <3>1. PICK c \in Int, f \in Int, l \in Int, k \in Int :
             /\ c = stats.completed /\ f = stats.failed /\ l = Len(line)
             /\ k = Cardinality(running \union backoff)
      <4>1. stats.completed \in Int /\ stats.failed \in Int  BY PoolStats
      <4>2. Len(line) \in Int /\ Cardinality(running \union backoff) \in Int  BY PoolSizes
      <4> QED BY <4>1, <4>2
    <3>2. stats.submitted = c + f + l + k  BY <2>4, <3>1 DEF PoolCounts
    <3>3. c + f + l + k = c + f + (l - 1) + (k + 1)  OBVIOUS
    <3> QED BY <1>3, <1>9, <2>3, <3>1, <3>2, <3>3
  <2>7. stats'.inflight = Cardinality(running') /\ Cardinality(running') <= WorkerCount
    BY <1>9, <2>1, <2>4, <2>5 DEF PoolCounts
  <2> QED BY <2>6, <2>7 DEF PoolCounts
<1> QED BY <1>10, <1>11, <1>12, <1>13 DEF PoolInv

(* An attempt ends: the slot is free, the task done, or waiting for its    *)
(* next attempt.                                                           *)
LEMMA AttemptEnds ==
    ASSUME PoolInv, NEW t \in running, Completes(t) \/ Fails(t)
    PROVE  PoolInv'
<1> USE PoolFacts
<1>1. /\ running' = running \ {t} /\ UNCHANGED <<heap, seq, line, begun>>
      /\ \A u \in Tasks : future'[u] = None <=> future[u] = None
      /\ future' \in [Tasks -> {None, "waiting", "result", "error", "cancelled"}]
      /\ attempt' \in [Tasks -> Nat]
  <2>1. future \in [Tasks -> {None, "waiting", "result", "error", "cancelled"}]
        /\ attempt \in [Tasks -> Nat] /\ t \in Tasks
    BY DEF PoolInv, PoolType
  <2>2. attempt' = attempt \/ attempt' = [attempt EXCEPT ![t] = attempt[t] + 1]
    BY <2>1 DEF Completes, Fails
  <2>3. \/ future' = future
        \/ future[t] = "waiting" /\ \E r \in {"result", "error"} : future' = [future EXCEPT ![t] = r]
    BY DEF Completes, Fails, Settled
  <2>4. attempt' \in [Tasks -> Nat]
    <3>1. attempt[t] + 1 \in Nat  BY <2>1
    <3> QED BY <2>1, <2>2, <3>1
  <2>5. running' = running \ {t} /\ UNCHANGED <<heap, seq, line, begun>>  BY DEF Completes, Fails
  <2> QED BY <2>1, <2>3, <2>4, <2>5, PoolAssumption
<1>2. t \in ToSet(begun) /\ t \notin ToSet(line) /\ t \notin backoff /\ t \in Tasks
  BY DEF PoolInv, PoolPlaces, PoolType
<1>3. /\ stats' \in Stats /\ stats'.inflight = stats.inflight - 1
      /\ stats'.submitted = stats.submitted
      /\ \/ backoff' = backoff /\ stats'.completed + stats'.failed = stats.completed + stats.failed + 1
         \/ /\ backoff' = backoff \union {t}
            /\ stats'.completed + stats'.failed = stats.completed + stats.failed
  <2>0. PICK i \in Int, c \in Int, f \in Int, r \in Int :
           /\ i = stats.inflight - 1 /\ c = stats.completed + 1
           /\ f = stats.failed + 1 /\ r = stats.retried + 1
    <3>1. /\ stats.inflight - 1 \in Int /\ stats.completed + 1 \in Int /\ stats.failed + 1 \in Int
          /\ stats.retried + 1 \in Int
      BY PoolStats
    <3> QED BY <3>1
  <2>1. CASE Completes(t)
    <3>1. backoff' = backoff /\ stats' = [stats EXCEPT !.completed = @ + 1, !.inflight = @ - 1]
      BY <2>1 DEF Completes
    <3>2. stats' = Stat(stats.submitted, c, stats.failed, stats.retried, i)
      BY <2>0, <3>1, PoolStats DEF Stats, Stat
    <3>3. stats' \in Stats  BY <3>2, PoolStats, StatsRecord
    <3>4. /\ stats'.inflight = i /\ stats'.submitted = stats.submitted
          /\ stats'.completed + stats'.failed = stats.completed + stats.failed + 1
      BY <2>0, <3>2, PoolStats DEF Stat
    <3> QED BY <2>0, <3>1, <3>3, <3>4
  <2>2. CASE Fails(t) /\ attempt[t] = MaxRetries
    <3>1. backoff' = backoff /\ stats' = [stats EXCEPT !.failed = @ + 1, !.inflight = @ - 1]
      BY <2>2 DEF Fails
    <3>2. stats' = Stat(stats.submitted, stats.completed, f, stats.retried, i)
      BY <2>0, <3>1, PoolStats DEF Stats, Stat
    <3>3. stats' \in Stats  BY <3>2, PoolStats, StatsRecord
    <3>4. /\ stats'.inflight = i /\ stats'.submitted = stats.submitted
          /\ stats'.completed + stats'.failed = stats.completed + stats.failed + 1
      <4>1. /\ stats'.inflight = i /\ stats'.submitted = stats.submitted
            /\ stats'.completed = stats.completed /\ stats'.failed = f
        BY <3>2 DEF Stat
      <4>2. PICK d \in Int, e \in Int : d = stats.completed /\ e = stats.failed  BY PoolStats
      <4>3. d + (e + 1) = d + e + 1  OBVIOUS
      <4> QED BY <2>0, <4>1, <4>2, <4>3
    <3> QED BY <2>0, <3>1, <3>3, <3>4
  <2>3. CASE Fails(t) /\ attempt[t] # MaxRetries
    <3>1. backoff' = backoff \union {t} /\ stats' = [stats EXCEPT !.retried = @ + 1, !.inflight = @ - 1]
      BY <2>3 DEF Fails
    <3>2. stats' = Stat(stats.submitted, stats.completed, stats.failed, r, i)
      BY <2>0, <3>1, PoolStats DEF Stats, Stat
    <3>3. stats' \in Stats  BY <3>2, PoolStats, StatsRecord
    <3>4. /\ stats'.inflight = i /\ stats'.submitted = stats.submitted
          /\ stats'.completed + stats'.failed = stats.completed + stats.failed
      BY <2>0, <3>2, PoolStats DEF Stat
    <3> QED BY <2>0, <3>1, <3>3, <3>4
  <2> QED BY <2>1, <2>2, <2>3
<1>4. PoolType'  BY <1>1, <1>2, <1>3 DEF PoolInv, PoolType, Stats
<1>5. /\ ToSet(seq)' = ToSet(seq) /\ ToSet(begun)' = ToSet(begun) /\ ToSet(line)' = ToSet(line)
  BY <1>1 DEF ToSet
<1>6. PoolPlaces'  BY <1>1, <1>2, <1>3, <1>5 DEF PoolInv, PoolPlaces
<1>7. PoolOrder'  BY <1>1, SameOrder DEF PoolInv
<1>8. Cardinality(running') = Cardinality(running) - 1  BY <1>1, PoolSizes, FS_RemoveElement
<1>9. PoolCounts'
  <2>0. PoolCounts  BY DEF PoolInv
  <2>1. CASE backoff' = backoff /\ stats'.completed + stats'.failed = stats.completed + stats.failed + 1
    <3>1. running' \union backoff' = (running \union backoff) \ {t}  BY <1>1, <1>2, <2>1
    <3>2. Cardinality(running' \union backoff') = Cardinality(running \union backoff) - 1
      BY <3>1, PoolSizes, FS_RemoveElement
    <3> QED BY <1>1, <1>3, <1>8, <2>1, <2>0, <3>2, PoolAssumption, PoolSizes, PoolStats, SMTT(30) DEF PoolCounts
  <2>2. CASE /\ backoff' = backoff \union {t}
             /\ stats'.completed + stats'.failed = stats.completed + stats.failed
    <3>1. running' \union backoff' = running \union backoff  BY <1>1, <2>2
    <3>2. stats'.submitted = stats'.completed + stats'.failed + Len(line') + Cardinality(running' \union backoff')
      BY <1>1, <1>3, <2>0, <2>2, <3>1 DEF PoolCounts
    <3>3. stats'.inflight = Cardinality(running') /\ Cardinality(running') <= WorkerCount
      BY <1>3, <1>8, <2>0, PoolSizes, PoolAssumption DEF PoolCounts
    <3> QED BY <3>2, <3>3 DEF PoolCounts
  <2> QED BY <1>3, <2>1, <2>2
<1> QED BY <1>4, <1>6, <1>7, <1>9 DEF PoolInv

LEMMA RequeueKeeps == ASSUME PoolInv, NEW t \in backoff, Requeues(t) PROVE PoolInv'
<1> USE PoolFacts
<1>1. /\ backoff' = backoff \ {t} /\ line' = Append(line, t)
      /\ UNCHANGED <<heap, seq, running, attempt, future, begun, stats>>
  BY DEF Requeues
<1>2. t \in ToSet(begun) /\ t \notin ToSet(line) /\ t \notin running /\ t \in Tasks
  BY DEF PoolInv, PoolPlaces, PoolType
<1>3. /\ line' \in Seq(Tasks) /\ Len(line') = Len(line) + 1 /\ DOMAIN line' = 1..(Len(line) + 1)
      /\ \A n \in DOMAIN line : line'[n] = line[n]
      /\ line'[Len(line) + 1] = t
      /\ ToSet(line') = ToSet(line) \union {t} /\ IsInjective(line')
  <2>1. IsInjective(line)  BY DEF PoolInv, PoolPlaces
  <2> QED BY <1>1, <1>2, <2>1, AppendSet
<1>4. PoolType'  BY <1>1, <1>3 DEF PoolInv, PoolType
<1>5. /\ ToSet(seq)' = ToSet(seq) /\ ToSet(begun)' = ToSet(begun) /\ ToSet(line)' = ToSet(line')
  BY <1>1 DEF ToSet
<1>6. PoolPlaces'  BY <1>1, <1>2, <1>3, <1>5 DEF PoolInv, PoolPlaces
<1>7. PoolOrder'
  <2> SUFFICES ASSUME NEW i \in DOMAIN seq, NEW j \in DOMAIN seq, i < j, Prio[seq[i]] >= Prio[seq[j]],
                      NEW n \in DOMAIN line', line'[n] = seq[j], seq[j] \notin ToSet(begun),
                      seq[i] \notin ToSet(begun)
               PROVE  \E m \in DOMAIN line' : m < n /\ line'[m] = seq[i]
    BY <1>1, <1>5 DEF PoolInv, PoolOrder
  <2>1. n \in DOMAIN line /\ line[n] = seq[j]  BY <1>2, <1>3
  <2>2. PICK m \in DOMAIN line : m < n /\ line[m] = seq[i]  BY <2>1 DEF PoolInv, PoolOrder
  <2> QED BY <1>3, <2>2
<1>8. PoolCounts'
  <2>1. running' \union backoff' = (running \union backoff) \ {t}  BY <1>1, <1>2
  <2>2. Cardinality(running' \union backoff') = Cardinality(running \union backoff) - 1
    BY <2>1, PoolSizes, FS_RemoveElement
  <2>3. stats'.submitted = stats'.completed + stats'.failed + Len(line') + Cardinality(running' \union backoff')
    <3>1. PICK c \in Int, f \in Int, l \in Int, k \in Int :
             /\ c = stats.completed /\ f = stats.failed /\ l = Len(line)
             /\ k = Cardinality(running \union backoff)
      <4>1. stats.completed \in Int /\ stats.failed \in Int  BY PoolStats
      <4>2. Len(line) \in Int /\ Cardinality(running \union backoff) \in Int  BY PoolSizes
      <4> QED BY <4>1, <4>2
    <3>2. stats.submitted = c + f + l + k  BY <3>1 DEF PoolInv, PoolCounts
    <3>3. c + f + l + k = c + f + (l + 1) + (k - 1)  OBVIOUS
    <3> QED BY <1>1, <1>3, <2>2, <3>1, <3>2, <3>3
  <2>4. stats'.inflight = Cardinality(running') /\ Cardinality(running') <= WorkerCount
    BY <1>1 DEF PoolInv, PoolCounts
  <2> QED BY <2>3, <2>4 DEF PoolCounts
<1> QED BY <1>4, <1>6, <1>7, <1>8 DEF PoolInv

LEMMA CancelTaskKeeps == ASSUME PoolInv, NEW t \in Tasks, CancelTask(t) PROVE PoolInv'
<1>1. /\ UNCHANGED <<heap, seq, line, running, backoff, attempt, begun, stats>>
      /\ \A u \in Tasks : future'[u] = None <=> future[u] = None
      /\ future' \in [Tasks -> {None, "waiting", "result", "error", "cancelled"}]
  BY PoolAssumption DEF CancelTask, PoolInv, PoolType
<1>2. PoolType'  BY <1>1 DEF PoolInv, PoolType
<1>3. PoolOrder'  BY <1>1, SameOrder DEF PoolInv
<1>4. PoolPlaces'  BY <1>1, SamePlaces DEF PoolInv
<1>5. PoolCounts'  BY <1>1 DEF PoolInv, PoolCounts
<1> QED BY <1>2, <1>3, <1>4, <1>5 DEF PoolInv

LEMMA PoolKeeps == PoolInv /\ [PoolNext]_poolVars => PoolInv'
<1> SUFFICES ASSUME PoolInv, [PoolNext]_poolVars PROVE PoolInv'  OBVIOUS
<1>1. ASSUME NEW t \in Tasks, Submit(t) PROVE PoolInv'  BY <1>1, SubmitKeeps
<1>2. ASSUME NEW t \in Tasks, Completes(t) \/ Fails(t) PROVE PoolInv'
  <2>1. t \in running  BY <1>2 DEF Completes, Fails
  <2> QED BY <1>2, <2>1, AttemptEnds
<1>3. ASSUME NEW t \in Tasks, Requeues(t) PROVE PoolInv'
  <2>1. t \in backoff  BY <1>3 DEF Requeues
  <2> QED BY <1>3, <2>1, RequeueKeeps
<1>4. ASSUME NEW t \in Tasks, CancelTask(t) PROVE PoolInv'  BY <1>4, CancelTaskKeeps
<1>5. CASE Drain  BY <1>5, DrainKeeps
<1>6. CASE BeginTask  BY <1>6, BeginKeeps
<1>7. CASE UNCHANGED poolVars
  <2>1. UNCHANGED <<heap, seq, line, running, backoff, attempt, future, begun, stats>>
    BY <1>7 DEF poolVars
  <2>2. PoolType'  BY <2>1 DEF PoolInv, PoolType
  <2>3. PoolOrder'  BY <2>1, SameOrder DEF PoolInv
  <2>4. PoolPlaces'  BY <2>1, SamePlaces DEF PoolInv
  <2>5. PoolCounts'  BY <2>1 DEF PoolInv, PoolCounts
  <2> QED BY <2>2, <2>3, <2>4, <2>5 DEF PoolInv
<1> QED BY <1>1, <1>2, <1>3, <1>4, <1>5, <1>6, <1>7 DEF PoolNext

LEMMA PoolServes == PoolInv => PriorityKept
<1> SUFFICES ASSUME PoolInv PROVE PriorityKept  OBVIOUS
<1>1. ASSUME NEW a \in ToSet(seq), NEW b \in ToSet(seq),
             Place(a) < Place(b), Prio[a] >= Prio[b], b \in ToSet(begun)
      PROVE  \E n, m \in DOMAIN begun : begun[n] = a /\ begun[m] = b /\ n < m
  <2>1. PICK i \in DOMAIN seq : seq[i] = a  BY DEF ToSet
  <2>2. PICK j \in DOMAIN seq : seq[j] = b  BY DEF ToSet
  <2>3. i < j  BY <1>1, <2>1, <2>2, PlaceIs
  <2>4. PICK m \in DOMAIN begun : begun[m] = b  BY <1>1 DEF ToSet
  <2>5. PICK n \in DOMAIN begun : n < m /\ begun[n] = a
    BY <1>1, <2>1, <2>2, <2>3, <2>4 DEF PoolInv, PoolOrder
  <2> QED BY <2>4, <2>5
<1> QED BY <1>1 DEF PriorityKept, PoolInv, PoolCounts

\* A task begins before every one submitted later with no higher priority,
\* and the pool's limit and statistics hold: for any tasks, priorities,
\* limits and numbers of retries.
THEOREM PriorityAlwaysKept == PoolSpec => []PriorityKept
<1>1. PoolSpec => []PoolInv  BY PoolStarts, PoolKeeps, PTL DEF PoolSpec
<1> QED BY <1>1, PoolServes, PTL

---------------------------------------------------------------------------
(* The rate limiter.                                                       *)

Granted == [at : Nat, cost : Nat, total : Nat]

\* What was let through since any grant, with what the bucket holds, is no
\* more than a full bucket and what accrued up to the last refill.
RateInv ==
    /\ tokens \in 0..Burst /\ latest \in Nat /\ (lastRefill = None \/ lastRefill = latest)
    /\ lastRefill = None => granted = <<>> /\ latest = 0
    /\ granted \in Seq(Granted)
    /\ \A i \in DOMAIN granted :
          /\ granted[i].at <= latest
          /\ Total - granted[i].total + granted[i].cost + tokens <= Burst + Rate * (latest - granted[i].at)
    /\ RateBounded

LEMMA RateSplits ==
    ASSUME NEW r \in Int, NEW x \in Int, NEW y \in Int, NEW a \in Int
    PROVE  /\ r * (x - a) = r * (x - y) + r * (y - a) /\ (x - y) * r = r * (x - y)
           /\ r * (x - y) \in Int /\ r * (y - a) \in Int
  OBVIOUS

LEMMA GrantRecord ==
    ASSUME NEW a \in Nat, NEW c \in Nat, NEW t \in Nat
    PROVE  [at |-> a, cost |-> c, total |-> t] \in Granted
  BY DEF Granted

LEMMA RateStarts == RateInit => RateInv
  BY RateAssumption DEF RateInit, RateInv, RateBounded

(* The bucket after a refill: no more than what accrued, and no more than  *)
(* full.                                                                   *)
LEMMA RefillBounded ==
    ASSUME RateInv, NEW time \in Nat
    PROVE  LET b == Refill(time) IN
           /\ b.tokens \in 0..Burst /\ b.at \in Nat /\ b.at = Max({latest, time})
           /\ latest <= b.at
           /\ b.tokens <= tokens + Rate * (b.at - latest)
<1> DEFINE b == Refill(time)
<1>1. /\ tokens \in 0..Burst /\ latest \in Nat /\ Rate \in Nat /\ Burst \in Nat
      /\ lastRefill = None \/ lastRefill = latest
      /\ lastRefill = None => latest = 0
      /\ None \notin Nat
  BY RateAssumption DEF RateInv
<1>2. Max({latest, time}) = IF time > latest THEN time ELSE latest  BY <1>1, GreaterOfTwo
<1>3. CASE lastRefill = None
  <2>1. b = [tokens |-> tokens, at |-> time]  BY <1>3 DEF Refill
  <2>2. Rate * (time - latest) \in Nat  BY <1>1, <1>3
  <2> QED BY <1>1, <1>2, <1>3, <2>1, <2>2
<1>4. CASE lastRefill # None /\ time > lastRefill
  <2>1. PICK d \in Nat : d = Rate * (time - latest)  BY <1>1, <1>4
  <2>2. (time - lastRefill) * Rate = d  BY <1>1, <1>4, <2>1
  <2>3. b = [tokens |-> Min({Burst, tokens + d}), at |-> time]
    BY <1>4, <2>2 DEF Refill, Accrued
  <2>4. Min({Burst, tokens + d}) \in 0..Burst /\ Min({Burst, tokens + d}) <= tokens + d
    <3>1. PICK e \in Nat : e = tokens + d  BY <1>1, <2>1
    <3>2. Min({Burst, e}) \in {Burst, e} /\ Min({Burst, e}) <= Burst /\ Min({Burst, e}) <= e
      BY <1>1, LesserOfTwo
    <3> QED BY <1>1, <3>1, <3>2
  <2> QED BY <1>1, <1>2, <1>4, <2>1, <2>3, <2>4
<1>5. CASE lastRefill # None /\ ~(time > lastRefill)
  <2>1. b = [tokens |-> tokens, at |-> latest]  BY <1>1, <1>5 DEF Refill
  <2>2. Rate * (latest - latest) = 0  BY <1>1
  <2> QED BY <1>1, <1>2, <1>5, <2>1, <2>2
<1> QED BY <1>3, <1>4, <1>5

LEMMA AcquireKeeps ==
    ASSUME RateInv, NEW time \in Nat, NEW cost \in Nat, Acquire(time, cost)
    PROVE  RateInv'
<1>1. PICK held \in Nat, at \in Nat :
         /\ held <= Burst /\ at = Max({latest, time}) /\ latest <= at
         /\ held <= tokens + Rate * (at - latest)
         /\ held = Refill(time).tokens /\ at = Refill(time).at
  BY RateAssumption, RefillBounded
<1>2. /\ lastRefill' = at /\ latest' = at
      /\ \/ /\ held >= cost /\ tokens' = held - cost
            /\ granted' = Append(granted, [at |-> at, cost |-> cost, total |-> Total + cost])
         \/ tokens' = held /\ granted' = granted
  BY <1>1 DEF Acquire
<1>3. /\ granted \in Seq(Granted) /\ Len(granted) \in Nat /\ DOMAIN granted = 1..Len(granted)
      /\ tokens \in Nat /\ latest \in Nat /\ Rate \in Nat /\ Burst \in Nat /\ None \notin Nat
      /\ \A i \in DOMAIN granted :
            /\ granted[i].at \in Nat /\ granted[i].cost \in Nat /\ granted[i].total \in Nat
            /\ granted[i].at <= latest
            /\ Total - granted[i].total + granted[i].cost + tokens
                  <= Burst + Rate * (latest - granted[i].at)
      /\ RateBounded
  <2>1. \A g \in Granted : g.at \in Nat /\ g.cost \in Nat /\ g.total \in Nat  BY DEF Granted
  <2>2. \A i \in DOMAIN granted : granted[i] \in Granted  BY DEF RateInv
  <2> QED BY <2>1, <2>2, RateAssumption DEF RateInv
<1>4. Total \in Nat  BY <1>3 DEF Total
<1>5. ASSUME NEW i \in DOMAIN granted
      PROVE  /\ granted[i].at <= at
             /\ Total - granted[i].total + granted[i].cost + held <= Burst + Rate * (at - granted[i].at)
  <2>1. PICK a \in Nat, c \in Nat, t \in Nat :
           a = granted[i].at /\ c = granted[i].cost /\ t = granted[i].total
    BY <1>3
  <2>2. PICK u \in Int, v \in Int : u = Rate * (at - latest) /\ v = Rate * (latest - a)  BY <1>3, <2>1
  <2>3. Rate * (at - a) = u + v
    <3>1. \A r, x, y, z \in Int : r * (x - z) = r * (x - y) + r * (y - z)  BY RateSplits
    <3>2. Rate \in Int /\ at \in Int /\ latest \in Int /\ a \in Int  BY <1>3
    <3>3. Rate * (at - a) = Rate * (at - latest) + Rate * (latest - a)  BY <3>1, <3>2
    <3> QED BY <2>2, <3>3
  <2>4. Total - t + c + tokens <= Burst + v /\ held <= tokens + u /\ a <= latest
    BY <1>1, <1>3, <2>1, <2>2
  <2>5. PICK all \in Int, B \in Int, p \in Int : all = Total /\ B = Burst /\ p = tokens  BY <1>3, <1>4
  <2>6. all - t + c + p <= B + v /\ held <= p + u  BY <2>4, <2>5
  <2>7. all - t + c + held <= B + (u + v)  BY <2>6
  <2>8. a <= at  BY <1>1, <1>3, <2>4
  <2> QED BY <2>1, <2>3, <2>5, <2>7, <2>8
<1>6. CASE tokens' = held /\ granted' = granted
  <2>1. Total' = Total /\ RateBounded'  BY <1>3, <1>6 DEF Total, RateBounded
  <2>2. \A i \in DOMAIN granted' :
          /\ granted'[i].at <= latest'
          /\ Total' - granted'[i].total + granted'[i].cost + tokens'
                <= Burst + Rate * (latest' - granted'[i].at)
    BY <1>2, <1>5, <1>6, <2>1
  <2>3. tokens' \in 0..Burst /\ latest' \in Nat /\ lastRefill' = latest' /\ lastRefill' # None
    <3>1. tokens' = held /\ latest' = at /\ lastRefill' = at  BY <1>2, <1>6
    <3>2. at # None  BY <1>3
    <3>3. held \in 0..Burst  BY <1>1, <1>3
    <3> QED BY <1>1, <3>1, <3>2, <3>3
  <2>4. granted' \in Seq(Granted)  BY <1>3, <1>6
  <2> QED BY <2>1, <2>2, <2>3, <2>4 DEF RateInv
<1>7. CASE /\ held >= cost /\ tokens' = held - cost
           /\ granted' = Append(granted, [at |-> at, cost |-> cost, total |-> Total + cost])
  <2>0. Total + cost \in Nat  BY <1>4
  <2>1. PICK g \in Granted : g = [at |-> at, cost |-> cost, total |-> Total + cost]
    BY <2>0, GrantRecord
  <2>2. g.at = at /\ g.cost = cost /\ g.total = Total + cost  BY <2>1
  <2>3. PICK n \in Nat : n = Len(granted) + 1  BY <1>3
  <2>4. /\ granted' \in Seq(Granted) /\ Len(granted') = n /\ DOMAIN granted' = 1..n
        /\ granted'[n] = g /\ \A i \in DOMAIN granted : granted'[i] = granted[i]
        /\ granted' # <<>>
    BY <1>3, <1>7, <2>1, <2>3
  <2>5. \A i \in DOMAIN granted' : i \in DOMAIN granted \/ i = n  BY <1>3, <2>3, <2>4
  <2>6. Total' = Total + cost  BY <2>2, <2>4 DEF Total
  <2>7. ASSUME NEW i \in DOMAIN granted'
        PROVE  /\ granted'[i].at <= latest'
               /\ Total' - granted'[i].total + granted'[i].cost + tokens'
                     <= Burst + Rate * (latest' - granted'[i].at)
               /\ Total' - granted'[i].total + granted'[i].cost
                     <= Burst + Rate * (latest' - granted'[i].at)
    <3>1. CASE i \in DOMAIN granted
      <4>1. PICK a \in Nat, c \in Nat, t \in Nat, r \in Int :
               /\ a = granted[i].at /\ c = granted[i].cost /\ t = granted[i].total
               /\ r = Rate * (at - a)
        <5>1. /\ granted[i].at \in Nat /\ granted[i].cost \in Nat /\ granted[i].total \in Nat
          BY <1>3, <3>1
        <5>2. Rate * (at - granted[i].at) \in Int
          <6>1. Rate \in Int /\ at \in Int /\ granted[i].at \in Int  BY <1>3, <5>1
          <6> QED BY <6>1, SMTT(30)
        <5> QED BY <5>1, <5>2
      <4>2. Total - t + c + held <= Burst + r /\ a <= at  BY <1>5, <3>1, <4>1
      <4>3. /\ (Total + cost) - t + c + (held - cost) <= Burst + r
            /\ (Total + cost) - t + c <= Burst + r
        <5>1. PICK all \in Int, B \in Int : all = Total /\ B = Burst  BY <1>3, <1>4
        <5>2. all - t + c + held <= B + r /\ cost <= held  BY <1>7, <4>2, <5>1
        <5>3. /\ (all + cost) - t + c + (held - cost) <= B + r
              /\ (all + cost) - t + c <= B + r
          BY <5>2
        <5> QED BY <5>1, <5>3
      <4> QED BY <1>2, <1>7, <2>4, <2>6, <3>1, <4>1, <4>2, <4>3
    <3>2. CASE i = n
      <4>1. granted'[i].at = at /\ granted'[i].cost = cost /\ granted'[i].total = Total + cost
        BY <2>2, <2>4, <3>2
      <4>2. Rate * (at - at) = 0  BY <1>3
      <4>3. /\ (Total + cost) - (Total + cost) + cost + (held - cost) <= Burst + 0
            /\ (Total + cost) - (Total + cost) + cost <= Burst + 0
        <5>1. PICK all \in Int, B \in Int : all = Total /\ B = Burst  BY <1>3, <1>4
        <5>2. cost <= held /\ held <= B  BY <1>1, <1>7, <5>1
        <5>3. /\ (all + cost) - (all + cost) + cost + (held - cost) <= B + 0
              /\ (all + cost) - (all + cost) + cost <= B + 0
          BY <5>2
        <5> QED BY <5>1, <5>3
      <4> QED BY <1>2, <1>7, <2>6, <4>1, <4>2, <4>3
    <3> QED BY <2>5, <3>1, <3>2
  <2>8. RateBounded'
    <3> SUFFICES ASSUME NEW i \in DOMAIN granted', NEW j \in DOMAIN granted', i <= j
                 PROVE  granted'[j].total - granted'[i].total + granted'[i].cost
                           <= Burst + Rate * (granted'[j].at - granted'[i].at)
      BY DEF RateBounded
    <3>1. CASE j \in DOMAIN granted
      <4>1. i \in DOMAIN granted  BY <1>3, <2>4, <3>1
      <4> QED BY <1>3, <2>4, <3>1, <4>1 DEF RateBounded
    <3>2. CASE j = n
      <4>1. granted'[j].total = Total' /\ granted'[j].at = latest'  BY <1>2, <2>2, <2>4, <2>6, <3>2
      <4> QED BY <2>7, <4>1
    <3> QED BY <2>5, <3>1, <3>2
  <2>9. tokens' \in 0..Burst /\ latest' \in Nat /\ lastRefill' = latest' /\ lastRefill' # None
    <3>1. held - cost \in 0..Burst
      <4>1. PICK B \in Nat : B = Burst  BY <1>3
      <4>2. held - cost \in 0..B  BY <1>1, <1>7, <4>1
      <4> QED BY <4>1, <4>2
    <3>2. at \in Nat /\ lastRefill' = at /\ latest' = at  BY <1>2
    <3> QED BY <1>3, <1>7, <3>1, <3>2
  <2> QED BY <2>4, <2>7, <2>8, <2>9 DEF RateInv
<1> QED BY <1>2, <1>6, <1>7

LEMMA RateKeeps == RateInv /\ [RateNext]_rateVars => RateInv'
<1> SUFFICES ASSUME RateInv, [RateNext]_rateVars PROVE RateInv'  OBVIOUS
<1>1. ASSUME NEW time \in 0..MaxStamp, NEW cost \in Costs, Acquire(time, cost) PROVE RateInv'
  <2>1. time \in Nat /\ cost \in Nat  BY RateAssumption
  <2> QED BY <1>1, <2>1, AcquireKeeps
<1>2. CASE UNCHANGED rateVars
  <2>1. UNCHANGED <<tokens, lastRefill, latest, granted>>  BY <1>2 DEF rateVars
  <2>2. Total' = Total /\ RateBounded' = RateBounded  BY <2>1 DEF Total, RateBounded
  <2> QED BY <2>1, <2>2 DEF RateInv
<1> QED BY <1>1, <1>2 DEF RateNext

---------------------------------------------------------------------------
(* The cache of results.                                                   *)

CacheEntry == [key : Keys, value : Nat, expires : Nat, version : Versions]

CachePut == [value : Nat, at : Nat, version : Versions]

\* Of two entries, the later was used since the last use of the earlier,
\* under another key; each entry is what its key was last put with.
LeastUsedFirst(es, p, s) ==
    /\ \A i, j \in DOMAIN es : i < j =>
          es[i].key # es[j].key /\ es[j].key \in s[es[i].key]
    /\ \A i \in DOMAIN es :
          LET put == p[es[i].key] IN
          /\ put # None /\ put.value = es[i].value /\ put.version = es[i].version
          /\ es[i].expires = put.at + Ttl

\* What should be there is there.
Covers(es, p, s) ==
    \A k \in Keys : (p[k] # None /\ Cardinality(s[k]) < MaxSize) => \E i \in DOMAIN es : es[i].key = k

CacheType ==
    /\ entries \in Seq(CacheEntry) /\ now \in Nat /\ calls \in Nat
    /\ puts \in [Keys -> CachePut \union {None}] /\ since \in [Keys -> SUBSET Keys]

ServedRight ==
    served # None =>
        LET put == puts[served.key] IN
        /\ put # None /\ put.value = served.value
        /\ put.version = served.version /\ now < put.at + Ttl

CacheInv ==
    /\ CacheType /\ LeastUsedFirst(entries, puts, since) /\ Covers(entries, puts, since) /\ ServedRight

LEMMA CacheRecords ==
    /\ \A k \in Keys, v \in Nat, x \in Nat, w \in Versions :
          [key |-> k, value |-> v, expires |-> x, version |-> w] \in CacheEntry
    /\ \A v \in Nat, t \in Nat, w \in Versions : [value |-> v, at |-> t, version |-> w] \in CachePut
    /\ \A e \in CacheEntry :
          e.key \in Keys /\ e.value \in Nat /\ e.expires \in Nat /\ e.version \in Versions /\ e # None
    /\ \A p \in CachePut : p.value \in Nat /\ p.at \in Nat /\ p.version \in Versions /\ p # None
  BY CacheAssumption DEF CacheEntry, CachePut

LEMMA CacheStarts == CacheInit => CacheInv
<1> SUFFICES ASSUME CacheInit PROVE CacheInv  OBVIOUS
<1>1. CacheType  BY DEF CacheInit, CacheType
<1> QED BY <1>1 DEF CacheInit, CacheInv, LeastUsedFirst, Covers, ServedRight

(* What is left of the entries when some are taken out: pairs in the order *)
(* they had.                                                               *)
LEMMA Remaining ==
    ASSUME CacheInv, NEW at \in SUBSET DOMAIN entries
    PROVE  LET w == Picked(entries, at) IN
           /\ w \in Seq(CacheEntry)
           /\ \A m \in DOMAIN w : \E i \in at : w[m] = entries[i]
           /\ \A m, n \in DOMAIN w : m < n => \E i, j \in at : i < j /\ w[m] = entries[i] /\ w[n] = entries[j]
           /\ \A i \in at : \E m \in DOMAIN w : w[m] = entries[i]
<1> DEFINE N == Cardinality(at)
           w == Picked(entries, at)
<1>1. entries \in Seq(CacheEntry)  BY DEF CacheInv, CacheType
<1>2. PICK f \in [1..N -> at] :
         /\ N \in Nat
         /\ w = [n \in 1..N |-> entries[f[n]]]
         /\ \A i \in at : \E n \in 1..N : f[n] = i
         /\ \A m, n \in 1..N : (m < n <=> f[m] < f[n]) /\ (f[m] = f[n] => m = n)
  BY <1>1, PickedSorts
<1> HIDE DEF w, N
<1>3. DOMAIN w = 1..N /\ \A n \in 1..N : w[n] = entries[f[n]] /\ f[n] \in at  BY <1>2
<1>4. w \in Seq(CacheEntry)
  <2>1. \A n \in 1..N : w[n] \in CacheEntry  BY <1>1, <1>3
  <2>2. w \in [1..N -> CacheEntry]  BY <1>2, <2>1
  <2> QED BY <1>2, <2>2
<1>5. \A m \in DOMAIN w : \E i \in at : w[m] = entries[i]  BY <1>3
<1>6. \A m, n \in DOMAIN w : m < n => \E i, j \in at : i < j /\ w[m] = entries[i] /\ w[n] = entries[j]
  BY <1>2, <1>3
<1>7. \A i \in at : \E m \in DOMAIN w : w[m] = entries[i]  BY <1>2, <1>3
<1> QED BY <1>4, <1>5, <1>6, <1>7 DEF w

LEMMA WithoutKey ==
    ASSUME CacheInv, NEW k \in Keys
    PROVE  /\ Without(k) \in Seq(CacheEntry) /\ LeastUsedFirst(Without(k), puts, since)
           /\ \A m \in DOMAIN Without(k) : Without(k)[m].key # k
           /\ \A i \in DOMAIN entries : entries[i].key # k =>
                 \E m \in DOMAIN Without(k) : Without(k)[m] = entries[i]
<1> DEFINE at == {n \in DOMAIN entries : entries[n].key # k}
<1>1. PICK w : w = Without(k)  OBVIOUS
<1>2. /\ w \in Seq(CacheEntry)
      /\ \A m \in DOMAIN w : \E i \in at : w[m] = entries[i]
      /\ \A m, n \in DOMAIN w : m < n => \E i, j \in at : i < j /\ w[m] = entries[i] /\ w[n] = entries[j]
      /\ \A i \in at : \E m \in DOMAIN w : w[m] = entries[i]
  <2>1. at \in SUBSET DOMAIN entries /\ w = Picked(entries, at)  BY <1>1 DEF Without
  <2> HIDE DEF at
  <2> QED BY <2>1, Remaining
<1>3. LeastUsedFirst(w, puts, since)
  <2>1. LeastUsedFirst(entries, puts, since)  BY DEF CacheInv
  <2> QED BY <1>2, <2>1 DEF LeastUsedFirst
<1>4. \A m \in DOMAIN w : w[m].key # k  BY <1>2
<1>5. \A i \in DOMAIN entries : entries[i].key # k => \E m \in DOMAIN w : w[m] = entries[i]  BY <1>2
<1> QED BY <1>1, <1>2, <1>3, <1>4, <1>5

LEMMA EntryIs ==
    ASSUME CacheInv, NEW k \in Keys
    PROVE  /\ Entry(k) = None <=> \A i \in DOMAIN entries : entries[i].key # k
           /\ Entry(k) # None => \E i \in DOMAIN entries : Entry(k) = entries[i] /\ entries[i].key = k
<1> DEFINE at == {e \in ToSet(entries) : e.key = k}
<1>1. \A e \in at : e # None /\ \E i \in DOMAIN entries : e = entries[i] /\ entries[i].key = k
  BY CacheRecords DEF ToSet, CacheInv, CacheType
<1>2. at = {} <=> \A i \in DOMAIN entries : entries[i].key # k  BY DEF ToSet
<1>3. at # {} => Entry(k) \in at  BY DEF Entry
<1>4. at = {} => Entry(k) = None  BY DEF Entry
<1> QED BY <1>1, <1>2, <1>3, <1>4

(* The entries after a use of k: those of the other keys, and then its own.*)
LEMMA UseKeeps ==
    ASSUME CacheInv, NEW k \in Keys, NEW e \in CacheEntry, e.key = k, NEW p, NEW all,
           all = Append(Without(k), e), Touched(k),
           \A o \in Keys \ {k} : p[o] = puts[o],
           p[k] # None /\ p[k].value = e.value /\ p[k].version = e.version /\ e.expires = p[k].at + Ttl
    PROVE  /\ since' \in [Keys -> SUBSET Keys]
           /\ all \in Seq(CacheEntry) /\ LeastUsedFirst(all, p, since') /\ Covers(all, p, since')
           /\ \E n \in DOMAIN all : n = Len(all) /\ all[n].key = k
<1>1. PICK w : w = Without(k)  OBVIOUS
<1>2. /\ w \in Seq(CacheEntry) /\ LeastUsedFirst(w, puts, since)
      /\ \A m \in DOMAIN w : w[m].key # k
      /\ \A i \in DOMAIN entries : entries[i].key # k => \E m \in DOMAIN w : w[m] = entries[i]
  BY <1>1, WithoutKey
<1>3. /\ all \in Seq(CacheEntry) /\ Len(w) \in Nat /\ Len(all) = Len(w) + 1
      /\ DOMAIN w = 1..Len(w) /\ DOMAIN all = 1..(Len(w) + 1)
      /\ \A n \in DOMAIN w : all[n] = w[n]
      /\ all[Len(w) + 1] = e
  BY <1>1, <1>2
<1>4. since \in [Keys -> SUBSET Keys]  BY DEF CacheInv, CacheType
<1>5. since' = [o \in Keys |-> IF o = k THEN {} ELSE since[o] \union {k}]  BY DEF Touched
<1>6. \A o \in Keys : since'[o] \in SUBSET Keys /\ (o # k => since'[o] = since[o] \union {k})
  BY <1>4, <1>5
<1>7. \A n \in DOMAIN w : w[n].key \in Keys \ {k}  BY <1>2, CacheRecords
<1>8. LeastUsedFirst(all, p, since')
  <2>1. ASSUME NEW i \in DOMAIN all, NEW j \in DOMAIN all, i < j
        PROVE  all[i].key # all[j].key /\ all[j].key \in since'[all[i].key]
    <3>1. i \in DOMAIN w /\ all[i] = w[i]  BY <1>3, <2>1
    <3>2. since'[w[i].key] = since[w[i].key] \union {k} /\ w[i].key # k  BY <1>6, <1>7, <3>1
    <3>3. CASE j \in DOMAIN w  BY <1>2, <1>3, <2>1, <3>1, <3>2, <3>3 DEF LeastUsedFirst
    <3>4. CASE j = Len(w) + 1  BY <1>3, <3>1, <3>2, <3>4
    <3> QED BY <1>3, <3>3, <3>4
  <2>2. ASSUME NEW i \in DOMAIN all
        PROVE  LET put == p[all[i].key] IN
               /\ put # None /\ put.value = all[i].value /\ put.version = all[i].version
               /\ all[i].expires = put.at + Ttl
    <3>1. CASE i \in DOMAIN w
      <4>1. all[i] = w[i] /\ p[w[i].key] = puts[w[i].key]  BY <1>3, <1>7, <3>1
      <4> QED BY <1>2, <3>1, <4>1 DEF LeastUsedFirst
    <3>2. CASE i = Len(w) + 1  BY <1>3, <3>2
    <3> QED BY <1>3, <3>1, <3>2
  <2> QED BY <2>1, <2>2 DEF LeastUsedFirst
<1>9. Covers(all, p, since')
  <2> SUFFICES ASSUME NEW o \in Keys, p[o] # None, Cardinality(since'[o]) < MaxSize, o # k
               PROVE  \E n \in DOMAIN all : all[n].key = o
    BY <1>3 DEF Covers
  <2>1. Cardinality(since[o]) < MaxSize
    <3>1. since[o] \subseteq since'[o] /\ IsFiniteSet(since'[o])
      BY <1>6, CacheAssumption, FS_Subset
    <3>2. /\ Cardinality(since[o]) <= Cardinality(since'[o]) /\ Cardinality(since[o]) \in Nat
          /\ Cardinality(since'[o]) \in Nat
      BY <3>1, FS_Subset, FS_CardinalityType
    <3> QED BY <3>2, CacheAssumption
  <2>2. PICK i \in DOMAIN entries : entries[i].key = o  BY <2>1 DEF CacheInv, Covers
  <2>3. PICK m \in DOMAIN w : w[m] = entries[i]  BY <1>2, <2>2
  <2> QED BY <1>3, <2>2, <2>3
<1> QED BY <1>3, <1>5, <1>6, <1>8, <1>9

LEMMA GetKeeps ==
    ASSUME CacheInv, NEW k \in Keys, NEW version \in Versions, Get(k, version) PROVE CacheInv'
<1> DEFINE e == Entry(k)
<1>1. now' = now /\ calls' \in Nat  BY DEF Get, Called, CacheInv, CacheType
<1>2. entries \in Seq(CacheEntry) /\ puts \in [Keys -> CachePut \union {None}]
      /\ since \in [Keys -> SUBSET Keys] /\ now \in Nat
  BY DEF CacheInv, CacheType
<1>3. CASE e = None
  <2>1. served' = None /\ UNCHANGED <<entries, puts, since>>  BY <1>3 DEF Get
  <2> QED BY <1>1, <2>1 DEF CacheInv, CacheType, ServedRight
<1>4. CASE e # None /\ Stale(e, version)
  <2>1. /\ entries' = Without(k) /\ served' = None
        /\ puts' = [puts EXCEPT ![k] = None] /\ since' = since
    BY <1>4 DEF Get
  <2>2. PICK w : w = Without(k)  OBVIOUS
  <2>3. /\ w \in Seq(CacheEntry) /\ LeastUsedFirst(w, puts, since)
        /\ \A m \in DOMAIN w : w[m].key # k
        /\ \A i \in DOMAIN entries : entries[i].key # k => \E m \in DOMAIN w : w[m] = entries[i]
    BY <2>2, WithoutKey
  <2>4. /\ puts' \in [Keys -> CachePut \union {None}]
        /\ \A o \in Keys : (o # k => puts'[o] = puts[o]) /\ (o = k => puts'[o] = None)
    BY <1>2, <2>1
  <2>5. \A m \in DOMAIN w : w[m].key \in Keys \ {k}  BY <2>3, CacheRecords
  <2>6. LeastUsedFirst(w, puts', since)  BY <2>3, <2>4, <2>5 DEF LeastUsedFirst
  <2>7. Covers(w, puts', since)
    <3> SUFFICES ASSUME NEW o \in Keys, puts'[o] # None, Cardinality(since[o]) < MaxSize
                 PROVE  \E m \in DOMAIN w : w[m].key = o
      BY DEF Covers
    <3>1. o # k /\ puts'[o] = puts[o]  BY <2>4
    <3>2. PICK i \in DOMAIN entries : entries[i].key = o  BY <3>1 DEF CacheInv, Covers
    <3> QED BY <2>3, <3>1, <3>2
  <2>8. entries' = w  BY <2>1, <2>2
  <2>9. CacheType'  BY <1>1, <1>2, <2>1, <2>3, <2>4, <2>8 DEF CacheType
  <2>10. LeastUsedFirst(entries', puts', since') /\ Covers(entries', puts', since')  BY <2>1, <2>6, <2>7, <2>8
  <2>11. ServedRight'  BY <2>1 DEF ServedRight
  <2> QED BY <2>9, <2>10, <2>11 DEF CacheInv
<1>5. CASE e # None /\ ~Stale(e, version)
  <2>1. /\ entries' = Append(Without(k), e)
        /\ served' = [key |-> k, value |-> e.value, version |-> version]
        /\ Touched(k) /\ puts' = puts
    BY <1>5 DEF Get
  <2>2. PICK i \in DOMAIN entries : e = entries[i] /\ entries[i].key = k  BY <1>5, EntryIs
  <2>3. /\ e \in CacheEntry /\ e.key = k /\ puts[k] # None /\ puts[k].value = e.value
        /\ puts[k].version = e.version /\ e.expires = puts[k].at + Ttl
    BY <1>2, <2>2 DEF CacheInv, LeastUsedFirst
  <2> HIDE DEF e
  <2>4. /\ since' \in [Keys -> SUBSET Keys] /\ entries' \in Seq(CacheEntry)
        /\ LeastUsedFirst(entries', puts, since') /\ Covers(entries', puts, since')
    BY <2>1, <2>3, UseKeeps
  <2>5. CacheType'  BY <1>1, <1>2, <2>1, <2>4 DEF CacheType
  <2>6. ServedRight'
    <3>1. served'.key = k /\ served'.value = e.value /\ served'.version = version  BY <2>1
    <3>2. e.version = version /\ now < e.expires
      BY <1>2, <1>5, <2>3, CacheRecords DEF Stale
    <3> QED BY <1>1, <2>1, <2>3, <3>1, <3>2 DEF ServedRight
  <2> QED BY <2>1, <2>4, <2>5, <2>6 DEF CacheInv
<1> QED BY <1>3, <1>4, <1>5

Excess(all) == IF Len(all) > MaxSize THEN Len(all) - MaxSize ELSE 0

LEMMA ExcessIs ==
    ASSUME NEW all \in Seq(CacheEntry)
    PROVE  /\ Excess(all) \in Nat /\ Excess(all) <= Len(all)
           /\ Excess(all) > 0 => Len(all) = Excess(all) + MaxSize
<1>1. PICK n \in Nat : n = Len(all)  OBVIOUS
<1>2. Excess(all) = IF n > MaxSize THEN n - MaxSize ELSE 0  BY <1>1 DEF Excess
<1>3. CASE n > MaxSize
  <2>1. Excess(all) = n - MaxSize /\ n - MaxSize \in Nat /\ n - MaxSize <= n
        /\ n = (n - MaxSize) + MaxSize
    BY <1>2, <1>3, CacheAssumption
  <2> QED BY <1>1, <2>1
<1>4. CASE ~(n > MaxSize)  BY <1>1, <1>2, <1>4
<1> QED BY <1>3, <1>4

(* Eviction takes the oldest: an evicted key has seen as many others used  *)
(* since as the cache holds.                                               *)
LEMMA EvictionKeeps ==
    ASSUME NEW all \in Seq(CacheEntry), NEW p, NEW s \in [Keys -> SUBSET Keys],
           LeastUsedFirst(all, p, s), Covers(all, p, s)
    PROVE  LET es == SubSeq(all, Excess(all) + 1, Len(all)) IN
           es \in Seq(CacheEntry) /\ LeastUsedFirst(es, p, s) /\ Covers(es, p, s)
<1> DEFINE es == SubSeq(all, Excess(all) + 1, Len(all))
<1>9. PICK over \in Nat : over = Excess(all)  BY ExcessIs
<1>0. es = SubSeq(all, over + 1, Len(all))  BY <1>9
<1> HIDE DEF es
<1>1. Len(all) \in Nat /\ DOMAIN all = 1..Len(all) /\ MaxSize \in Nat /\ over <= Len(all)
  BY <1>9, ExcessIs, CacheAssumption
<1>2. /\ es \in Seq(CacheEntry) /\ Len(es) = Len(all) - over /\ DOMAIN es = 1..(Len(all) - over)
      /\ \A n \in DOMAIN es : over + n \in DOMAIN all /\ es[n] = all[over + n]
  <2>1. \A n \in (over + 1)..Len(all) : all[n] \in CacheEntry  BY <1>1
  <2>2. over + 1 \in Int /\ Len(all) \in Int  BY <1>1
  <2>3. /\ es \in Seq(CacheEntry)
        /\ Len(es) = IF over + 1 <= Len(all) THEN Len(all) - (over + 1) + 1 ELSE 0
        /\ \A n \in 1..(Len(all) - (over + 1) + 1) : es[n] = all[over + 1 + n - 1]
    BY <1>0, <2>1, <2>2, SubSeqProperties
  <2>4. Len(es) = Len(all) - over /\ DOMAIN es = 1..(Len(all) - over)
    <3>1. Len(es) = Len(all) - over
      <4>0. PICK n \in Nat : n = Len(all)  OBVIOUS
      <4>1. over <= n  BY <1>1, <4>0
      <4>2. over + 1 <= n => n - (over + 1) + 1 = n - over  OBVIOUS
      <4>3. ~(over + 1 <= n) => n - over = 0  BY <4>1
      <4> QED BY <2>3, <4>0, <4>1, <4>2, <4>3
    <3>2. DOMAIN es = 1..Len(es)  BY <2>3
    <3> QED BY <3>1, <3>2
  <2>5. ASSUME NEW n \in DOMAIN es PROVE over + n \in DOMAIN all /\ es[n] = all[over + n]
    <3>1. n \in Nat /\ over + 1 + n - 1 = over + n /\ n \in 1..(Len(all) - (over + 1) + 1)
      BY <1>1, <2>4
    <3>2. es[n] = all[over + n]  BY <2>3, <3>1
    <3>3. over + n \in 1..Len(all)  BY <1>1, <2>4
    <3> QED BY <1>1, <3>2, <3>3
  <2> QED BY <2>3, <2>4, <2>5
<1>3. LeastUsedFirst(es, p, s)
  <2>1. \A i, j \in DOMAIN es : i < j => over + i < over + j  BY <1>2
  <2> QED BY <1>2, <2>1 DEF LeastUsedFirst
<1>4. Covers(es, p, s)
  <2> SUFFICES ASSUME NEW k \in Keys, p[k] # None, Cardinality(s[k]) < MaxSize
               PROVE  \E i \in DOMAIN es : es[i].key = k
    BY DEF Covers
  <2>1. PICK n \in DOMAIN all : all[n].key = k  BY DEF Covers
  <2>2. CASE n > over
    <3>1. n - over \in DOMAIN es /\ over + (n - over) = n  BY <1>1, <1>2, <2>2
    <3> QED BY <1>2, <2>1, <3>1
  <2>3. CASE ~(n > over)
    <3>1. n \in 1..over /\ Len(all) = over + MaxSize
      <4>1. n \in 1..over  BY <1>1, <2>3
      <4>2. over > 0  BY <4>1
      <4> QED BY <1>9, <4>1, <4>2, ExcessIs
    <3> DEFINE f == [j \in 1..MaxSize |-> all[over + j].key]
    <3>2. \A j \in 1..MaxSize : over + j \in DOMAIN all /\ n < over + j  BY <1>1, <3>1
    <3>3. f \in [1..MaxSize -> s[k]]
      <4>1. \A j \in 1..MaxSize : all[over + j].key \in s[k]  BY <2>1, <3>2 DEF LeastUsedFirst
      <4> QED BY <4>1
    <3>4. \A i, j \in 1..MaxSize : f[i] = f[j] => i = j
      <4> SUFFICES ASSUME NEW i \in 1..MaxSize, NEW j \in 1..MaxSize, i < j PROVE f[i] # f[j]
        BY <1>1
      <4>1. over + i < over + j  BY <1>1
      <4> QED BY <3>2, <4>1 DEF LeastUsedFirst
    <3> HIDE DEF f
    <3>5. f \in Injection(1..MaxSize, s[k])  BY <3>3, <3>4 DEF Injection, IsInjective
    <3>6. IsFiniteSet(s[k])  BY CacheAssumption, FS_Subset
    <3>7. Cardinality(1..MaxSize) <= Cardinality(s[k])  BY <3>5, <3>6, FS_Injection
    <3>8. Cardinality(1..MaxSize) = MaxSize  BY <1>1, FS_Interval
    <3> QED BY <1>1, <3>6, <3>7, <3>8, FS_CardinalityType
  <2> QED BY <1>1, <2>2, <2>3
<1> QED BY <1>2, <1>3, <1>4 DEF es

LEMMA PutKeeps ==
    ASSUME CacheInv, NEW k \in Keys, NEW version \in Versions, Put(k, version) PROVE CacheInv'
<1> DEFINE e == [key |-> k, value |-> calls, expires |-> now + Ttl, version |-> version]
           all == Append(Without(k), e)
           put == [value |-> calls, at |-> now, version |-> version]
<1>1. /\ calls' \in Nat /\ entries' = SubSeq(all, Excess(all) + 1, Len(all)) /\ served' = None
      /\ puts' = [puts EXCEPT ![k] = put] /\ Touched(k) /\ now' = now
  BY DEF Put, Called, CacheInv, CacheType, Excess
<1>2. puts \in [Keys -> CachePut \union {None}] /\ now \in Nat /\ calls \in Nat
  BY DEF CacheInv, CacheType
<1>3. now + Ttl \in Nat  BY <1>2, CacheAssumption
<1>4. e \in CacheEntry /\ put \in CachePut
  <2>1. \A v \in Nat, x \in Nat :
           /\ [key |-> k, value |-> v, expires |-> x, version |-> version] \in CacheEntry
           /\ [value |-> v, at |-> x, version |-> version] \in CachePut
    BY CacheRecords
  <2> QED BY <1>2, <1>3, <2>1
<1>5. /\ e.key = k /\ put # None /\ put.value = e.value /\ put.version = e.version
      /\ e.expires = put.at + Ttl
  BY <1>4, CacheRecords
<1>6. puts' \in [Keys -> CachePut \union {None}] /\ puts'[k] = put /\ \A o \in Keys \ {k} : puts'[o] = puts[o]
  BY <1>1, <1>2, <1>4
<1> HIDE DEF e, put
<1>7. /\ since' \in [Keys -> SUBSET Keys]
      /\ all \in Seq(CacheEntry) /\ LeastUsedFirst(all, puts', since') /\ Covers(all, puts', since')
  <2>1. Touched(k) /\ all = Append(Without(k), e) /\ e \in CacheEntry /\ e.key = k  BY <1>1, <1>4, <1>5
  <2>2. PICK p : p = puts'  OBVIOUS
  <2>3. /\ \A o \in Keys \ {k} : p[o] = puts[o]
        /\ p[k] # None /\ p[k].value = e.value /\ p[k].version = e.version /\ e.expires = p[k].at + Ttl
    BY <1>5, <1>6, <2>2
  <2> HIDE DEF all
  <2>4. /\ since' \in [Keys -> SUBSET Keys]
        /\ all \in Seq(CacheEntry) /\ LeastUsedFirst(all, p, since') /\ Covers(all, p, since')
    BY <2>1, <2>3, UseKeeps
  <2> QED BY <2>2, <2>4
<1> HIDE DEF all
<1>8. entries' \in Seq(CacheEntry) /\ LeastUsedFirst(entries', puts', since') /\ Covers(entries', puts', since')
  BY <1>1, <1>7, EvictionKeeps
<1>9. CacheType'  BY <1>1, <1>2, <1>6, <1>7, <1>8 DEF CacheType
<1>10. ServedRight'  BY <1>1 DEF ServedRight
<1> QED BY <1>8, <1>9, <1>10 DEF CacheInv

LEMMA InvalidateKeeps ==
    ASSUME CacheInv, NEW version \in Versions, InvalidateVersion(version) PROVE CacheInv'
<1> DEFINE at == {n \in DOMAIN entries : entries[n].version # version}
<1>1. PICK w : w = Picked(entries, at)  OBVIOUS
<1>2. /\ entries' = w /\ served' = None /\ UNCHANGED <<now, since>> /\ calls' \in Nat
      /\ puts' = [k \in Keys |-> IF puts[k] # None /\ puts[k].version = version THEN None ELSE puts[k]]
  BY <1>1 DEF InvalidateVersion, Called, CacheInv, CacheType
<1>3. /\ w \in Seq(CacheEntry)
      /\ \A m \in DOMAIN w : \E i \in at : w[m] = entries[i]
      /\ \A m, n \in DOMAIN w : m < n => \E i, j \in at : i < j /\ w[m] = entries[i] /\ w[n] = entries[j]
      /\ \A i \in at : \E m \in DOMAIN w : w[m] = entries[i]
  <2>1. at \in SUBSET DOMAIN entries  OBVIOUS
  <2> HIDE DEF at
  <2> QED BY <1>1, <2>1, Remaining
<1>4. /\ puts \in [Keys -> CachePut \union {None}] /\ since \in [Keys -> SUBSET Keys] /\ now \in Nat
      /\ \A i \in DOMAIN entries : entries[i].key \in Keys
      /\ LeastUsedFirst(entries, puts, since)
  BY CacheRecords DEF CacheInv, CacheType
<1>5. /\ puts' \in [Keys -> CachePut \union {None}]
      /\ \A k \in Keys : puts'[k] = IF puts[k] # None /\ puts[k].version = version THEN None ELSE puts[k]
  BY <1>2, <1>4
<1>6. \A i \in at : puts'[entries[i].key] = puts[entries[i].key]
  BY <1>4, <1>5 DEF LeastUsedFirst
<1>7. LeastUsedFirst(w, puts', since)
  <2>1. \A i, j \in DOMAIN w : i < j => w[i].key # w[j].key /\ w[j].key \in since[w[i].key]
    BY <1>3, <1>4 DEF LeastUsedFirst
  <2>2. ASSUME NEW m \in DOMAIN w
        PROVE  LET put == puts'[w[m].key] IN
               /\ put # None /\ put.value = w[m].value /\ put.version = w[m].version
               /\ w[m].expires = put.at + Ttl
    <3>1. PICK i \in at : w[m] = entries[i]  BY <1>3
    <3>2. puts'[w[m].key] = puts[entries[i].key] /\ i \in DOMAIN entries  BY <1>6, <3>1
    <3> QED BY <1>4, <3>1, <3>2 DEF LeastUsedFirst
  <2> QED BY <2>1, <2>2 DEF LeastUsedFirst
<1>8. Covers(w, puts', since)
  <2> SUFFICES ASSUME NEW k \in Keys, puts'[k] # None, Cardinality(since[k]) < MaxSize
               PROVE  \E m \in DOMAIN w : w[m].key = k
    BY DEF Covers
  <2>1. puts[k] # None /\ puts[k].version # version  BY <1>5
  <2>2. PICK i \in DOMAIN entries : entries[i].key = k  BY <2>1 DEF CacheInv, Covers
  <2>3. i \in at  BY <1>4, <2>1, <2>2 DEF LeastUsedFirst
  <2> QED BY <1>3, <2>2, <2>3
<1>9. CacheType'  BY <1>2, <1>3, <1>4, <1>5 DEF CacheType
<1>10. ServedRight'  BY <1>2 DEF ServedRight
<1> QED BY <1>2, <1>7, <1>8, <1>9, <1>10 DEF CacheInv

LEMMA CacheKeeps == CacheInv /\ [CacheNext]_cacheVars => CacheInv'
<1> SUFFICES ASSUME CacheInv, [CacheNext]_cacheVars PROVE CacheInv'  OBVIOUS
<1>1. ASSUME NEW k \in Keys, NEW version \in Versions, Get(k, version) PROVE CacheInv'
  BY <1>1, GetKeeps
<1>2. ASSUME NEW k \in Keys, NEW version \in Versions, Put(k, version) PROVE CacheInv'
  BY <1>2, PutKeeps
<1>3. ASSUME NEW version \in Versions, InvalidateVersion(version) PROVE CacheInv'
  BY <1>3, InvalidateKeeps
<1>4. CASE Clear
  <2>1. /\ entries' = <<>> /\ puts' = [k \in Keys |-> None] /\ served' = None /\ UNCHANGED <<now, since>>
        /\ calls' \in Nat
    BY <1>4 DEF Clear, Called, CacheInv, CacheType
  <2>2. CacheType'  BY <2>1 DEF CacheInv, CacheType
  <2> QED BY <2>1, <2>2 DEF CacheInv, LeastUsedFirst, Covers, ServedRight
<1>5. CASE Tick
  <2>1. now' = now + 1 /\ served' = None /\ UNCHANGED <<entries, puts, since, calls>>  BY <1>5 DEF Tick
  <2>2. CacheType'  BY <2>1 DEF CacheInv, CacheType
  <2> QED BY <2>1, <2>2 DEF CacheInv, ServedRight
<1>6. CASE UNCHANGED cacheVars
  <2>1. UNCHANGED <<entries, now, served, puts, since, calls>>  BY <1>6 DEF cacheVars
  <2>2. CacheType' /\ ServedRight'  BY <2>1 DEF CacheInv, CacheType, ServedRight
  <2> QED BY <2>1, <2>2 DEF CacheInv
<1> QED BY <1>1, <1>2, <1>3, <1>4, <1>5, <1>6 DEF CacheNext

LEMMA CacheHolds == CacheInv => CacheServes
<1> SUFFICES ASSUME CacheInv PROVE CacheServes  OBVIOUS
<1>1. ASSUME NEW k \in Keys, puts[k] # None, Cardinality(since[k]) < MaxSize
      PROVE  Entry(k) # None /\ Entry(k).value = puts[k].value
  <2>1. \E i \in DOMAIN entries : entries[i].key = k  BY <1>1 DEF CacheInv, Covers
  <2>2. Entry(k) # None  BY <2>1, EntryIs
  <2>3. PICK i \in DOMAIN entries : Entry(k) = entries[i] /\ entries[i].key = k  BY <2>2, EntryIs
  <2> QED BY <2>2, <2>3 DEF CacheInv, LeastUsedFirst
<1> QED BY <1>1 DEF CacheServes, CacheInv, ServedRight

---------------------------------------------------------------------------
(* The embedders: what a parsed answer is.                                 *)

Indexed(N, E, S) == S = {E[n] : n \in 1..N} /\ \A n \in 1..N : E[n].index = n

(* Elements that carry the indices 1..N, one each, are N, and n - 1 of     *)
(* them come before the one with index n.                                  *)
LEMMA IndexedCount ==
    ASSUME NEW N \in Nat, NEW E, NEW S, Indexed(N, E, S)
    PROVE  /\ IsFiniteSet(S) /\ Cardinality(S) = N
           /\ \A n \in 1..N : Cardinality({x \in S : x.index < n}) = n - 1
<1>0. S = {E[n] : n \in 1..N} /\ \A n \in 1..N : E[n].index = n  BY DEF Indexed
<1>1. ASSUME NEW M \in 0..N, NEW T, T = {E[m] : m \in 1..M}
      PROVE  IsFiniteSet(T) /\ Cardinality(T) = M
  <2> DEFINE g == [m \in 1..M |-> E[m]]
  <2>1. g \in [1..M -> T] /\ \A m \in 1..M : g[m] = E[m]  BY <1>1
  <2>2. 1..M \subseteq 1..N  OBVIOUS
  <2>3. \A i, j \in 1..M : g[i] = g[j] => i = j  BY <1>0, <2>1, <2>2
  <2>4. \A t \in T : \E m \in 1..M : g[m] = t  BY <1>1, <2>1
  <2> HIDE DEF g
  <2>5. g \in Bijection(1..M, T)
    BY <2>1, <2>3, <2>4 DEF Bijection, Injection, Surjection, IsInjective
  <2>6. ExistsBijection(1..M, T)  BY <2>5 DEF ExistsBijection
  <2>7. IsFiniteSet(1..M) /\ Cardinality(1..M) = M  BY FS_Interval
  <2> QED BY <2>6, <2>7, FS_Bijection
<1>2. IsFiniteSet(S) /\ Cardinality(S) = N  BY <1>0, <1>1
<1>3. ASSUME NEW n \in 1..N PROVE Cardinality({x \in S : x.index < n}) = n - 1
  <2>1. {x \in S : x.index < n} = {E[m] : m \in 1..(n - 1)}
    <3>1. \A m \in 1..N : E[m].index < n <=> m \in 1..(n - 1)  BY <1>0
    <3>2. 1..(n - 1) \subseteq 1..N  OBVIOUS
    <3> QED BY <1>0, <3>1, <3>2
  <2>2. n - 1 \in 0..N  OBVIOUS
  <2> QED BY <1>1, <2>1, <2>2
<1> QED BY <1>2, <1>3

LEMMA IndexedSorts ==
    ASSUME NEW N \in Nat, NEW E, NEW S, Indexed(N, E, S), NEW data, ToSet(data) = S
    PROVE  \A n \in 1..N : ByIndex(data)[n] = E[n]
<1>4. S = {E[n] : n \in 1..N} /\ \A n \in 1..N : E[n].index = n  BY DEF Indexed
<1>1. Cardinality(S) = N /\ \A n \in 1..N : Cardinality({x \in S : x.index < n}) = n - 1
  BY IndexedCount
<1>0. ToSet(data) = S  OBVIOUS
<1>2. ByIndex(data)
         = [n \in 1..Cardinality(S) |-> CHOOSE x \in S : Cardinality({y \in S : y.index < x.index}) = n - 1]
  <2>1. Ordered(S, LAMBDA x, y : x.index < y.index)
         = [n \in 1..Cardinality(S) |-> CHOOSE x \in S : Cardinality({y \in S : y.index < x.index}) = n - 1]
    BY DEF Ordered
  <2> QED BY <1>0, <2>1 DEF ByIndex
<1>3. ASSUME NEW n \in 1..N PROVE ByIndex(data)[n] = E[n]
  <2>1. \A m \in 1..N : Cardinality({y \in S : y.index < E[m].index}) = m - 1  BY <1>1, <1>4
  <2> DEFINE Right(x) == Cardinality({y \in S : y.index < x.index}) = n - 1
  <2>2. \A m \in 1..N : Right(E[m]) <=> m = n  BY <2>1
  <2>3. \A x \in S : \E m \in 1..N : x = E[m]  BY <1>4
  <2>4. ByIndex(data)[n] = CHOOSE x \in S : Right(x)  BY <1>1, <1>2
  <2>5. E[n] \in S  BY <1>4
  <2> HIDE DEF Right
  <2>6. \A x \in S : Right(x) <=> x = E[n]  BY <2>2, <2>3
  <2> QED BY <2>4, <2>5, <2>6
<1> QED BY <1>3

LEMMA ParseIs ==
    ASSUME NEW data, NEW N, NEW v, v = [n \in 1..N |-> ByIndex(data)[n].embedding]
    PROVE  /\ Len(data) # N => ParseResponse(data, N) = None
           /\ ParseResponse(data, N) = None
              \/ (ParseResponse(data, N) = v /\ \A n \in 1..N : v[n].size = Dimension)
  BY Zenon DEF ParseResponse

(* An answer that is not refused holds the vectors of its batch.           *)
LEMMA ParsedIs ==
    ASSUME NEW D, NEW batch \in Seq(D), Len(batch) # 0, NEW data \in Answers(batch)
    PROVE  LET parsed == ParseResponse(data, Len(batch)) IN
           parsed = None \/ parsed = [n \in 1..Len(batch) |-> Vector(batch[n], Dimension)]
<1>0. PICK N : N = Len(batch)  OBVIOUS
<1> DEFINE Item(n, size) == [index |-> n, embedding |-> Vector(batch[n], size)]
           right == Data(batch, Dimension)
           E == [n \in 1..N |-> Item(n, Dimension)]
<1>1. N \in Nat /\ N # 0 /\ Dimension \in Nat  BY <1>0, EmbedAssumption
<1>8. DOMAIN batch = 1..N  BY <1>0
<1>2. right = {E[n] : n \in 1..N} /\ \A n \in 1..N : E[n].index = n  BY <1>1, <1>8 DEF Data
<1>10. \A n \in 1..N : E[n].embedding = Vector(batch[n], Dimension)  OBVIOUS
<1> HIDE DEF E
<1>11. PICK v : v = [n \in 1..N |-> ByIndex(data)[n].embedding]  OBVIOUS
<1>12. /\ Len(data) # N => ParseResponse(data, N) = None
       /\ ParseResponse(data, N) = None
          \/ (ParseResponse(data, N) = v /\ \A n \in 1..N : v[n].size = Dimension)
  BY <1>11, ParseIs
<1>3. IsFiniteSet(right) /\ Cardinality(right) = N
  <2>1. Indexed(N, E, right)  BY <1>2 DEF Indexed
  <2> HIDE DEF right
  <2> QED BY <1>1, <2>1, IndexedCount
<1>4. CASE data \in SetToSeqs(right)
  <2>1. data \in [1..N -> right] /\ \A i, j \in 1..N : i # j => data[i] # data[j]
    BY <1>3, <1>4 DEF SetToSeqs
  <2>2. data \in Injection(1..N, right)  BY <2>1 DEF Injection, IsInjective
  <2>3. IsFiniteSet(1..N) /\ Cardinality(1..N) = N  BY <1>1, FS_Interval
  <2>4. data \in Surjection(1..N, right)  BY <1>3, <2>2, <2>3, FS_Injection
  <2>5. ToSet(data) = right  BY <2>1, <2>4 DEF Surjection, ToSet
  <2>6. \A n \in 1..N : ByIndex(data)[n] = E[n]
    <3> HIDE DEF right
    <3>1. Indexed(N, E, right)  BY <1>2 DEF Indexed
    <3> QED BY <1>1, <2>5, <3>1, IndexedSorts
  <2>7. \A n \in 1..N : ByIndex(data)[n].embedding = Vector(batch[n], Dimension)  BY <2>6, <1>10
  <2>8. v = [n \in 1..N |-> Vector(batch[n], Dimension)]  BY <1>11, <2>7
  <2> QED BY <1>0, <1>12, <2>8
<1>5. CASE \E x : data \in SetToSeqs(right \ {x}) /\ x \in right
  <2>1. PICK x \in right : data \in SetToSeqs(right \ {x})  BY <1>5
  <2>2. Cardinality(right \ {x}) = N - 1  BY <1>3, FS_RemoveElement
  <2>3. data \in [1..(N - 1) -> right \ {x}]  BY <2>1, <2>2 DEF SetToSeqs
  <2>4. Len(data) = N - 1
    <3>1. N - 1 \in Nat  BY <1>1
    <3> HIDE DEF right
    <3> QED BY <2>3, <3>1
  <2>5. Len(data) # N  BY <1>1, <2>4
  <2> QED BY <1>0, <1>12, <2>5
<1>6. CASE \E d \in right : data = Append(SetToSeq(right \ {d}), [d EXCEPT !.embedding.size = Dimension + 1])
  <2>1. PICK k \in 1..N : data = Append(SetToSeq(right \ {E[k]}), [E[k] EXCEPT !.embedding.size = Dimension + 1])
    BY <1>2, <1>6
  <2>2. [E[k] EXCEPT !.embedding.size = Dimension + 1] = Item(k, Dimension + 1)
    BY DEF E, Vector
  <2> DEFINE f == SetToSeq(right \ {E[k]})
             F == [n \in 1..N |-> IF n = k THEN Item(k, Dimension + 1) ELSE E[n]]
  <2>3. IsFiniteSet(right \ {E[k]}) /\ Cardinality(right \ {E[k]}) = N - 1
    <3>1. E[k] \in right  BY <1>2
    <3> HIDE DEF right
    <3> QED BY <1>3, <3>1, FS_RemoveElement
  <2>4. f \in [1..(N - 1) -> right \ {E[k]}] /\ IsInjective(f)
    <3>1. ExistsBijection(1..(N - 1), right \ {E[k]})  BY <2>3, FS_CardinalityType
    <3>2. \E g \in [1..(N - 1) -> right \ {E[k]}] : IsInjective(g)
      BY <3>1 DEF ExistsBijection, Bijection, Injection
    <3>3. f = CHOOSE g \in [1..(N - 1) -> right \ {E[k]}] : IsInjective(g)
      BY <2>3 DEF SetToSeq
    <3> HIDE DEF f
    <3> QED BY <3>2, <3>3
  <2> HIDE DEF f
  <2>5. f \in Surjection(1..(N - 1), right \ {E[k]})
    <3>1. f \in Injection(1..(N - 1), right \ {E[k]})  BY <2>4 DEF Injection
    <3>2. Cardinality(1..(N - 1)) = N - 1
      <4>1. PICK M \in Nat : M = N - 1  BY <1>1
      <4>2. Cardinality(1..M) = M  BY FS_Interval
      <4> QED BY <4>1, <4>2
    <3> QED BY <2>3, <3>1, <3>2, FS_Injection
  <2>6. ToSet(f) = right \ {E[k]} /\ f \in Seq(right)
    <3>1. ToSet(f) = right \ {E[k]}  BY <2>4, <2>5 DEF Surjection, ToSet
    <3>2. N - 1 \in Nat  BY <1>1
    <3> HIDE DEF right
    <3> QED BY <2>4, <3>1, <3>2
  <2>7. ToSet(data) = (right \ {E[k]}) \union {Item(k, Dimension + 1)}
    <3> HIDE DEF right, Item
    <3>1. PICK x : x = Item(k, Dimension + 1)  OBVIOUS
    <3>2. data = Append(f, x)  BY <2>1, <2>2, <3>1 DEF f
    <3>3. f \in Seq(right \union {x}) /\ x \in right \union {x}  BY <2>6
    <3>4. ToSet(Append(f, x)) = ToSet(f) \union {x}  BY <3>3, AppendSet
    <3> QED BY <2>6, <3>1, <3>2, <3>4
  <2>8. ToSet(data) = {F[n] : n \in 1..N} /\ \A n \in 1..N : F[n].index = n
    <3>1. \A n \in 1..N : E[n] = E[k] => n = k  BY <1>2
    <3>2. \A n \in 1..N : F[n].index = n  BY <1>2
    <3>3. \A n \in 1..N : F[n] \in ToSet(data)  BY <1>2, <2>7, <3>1
    <3>4. \A x \in ToSet(data) : \E n \in 1..N : x = F[n]  BY <1>2, <2>7
    <3> QED BY <3>2, <3>3, <3>4
  <2> HIDE DEF F
  <2>9. \A n \in 1..N : ByIndex(data)[n] = F[n]
    <3>1. PICK S : S = ToSet(data)  OBVIOUS
    <3>2. Indexed(N, F, S)  BY <2>8, <3>1 DEF Indexed
    <3> QED BY <1>1, <3>1, <3>2, IndexedSorts
  <2>10. ByIndex(data)[k].embedding.size = Dimension + 1  BY <2>9 DEF F, Vector
  <2>11. v[k].size = Dimension + 1  BY <1>11, <2>10
  <2>12. Dimension + 1 # Dimension  BY <1>1
  <2> QED BY <1>0, <1>12, <2>10, <2>11, <2>12
<1>7. right # {} => (CHOOSE d \in right : TRUE) \in right  OBVIOUS
<1>13. right # {}
  <2>1. 1 \in 1..N  BY <1>1
  <2>2. E[1] \in right  BY <1>2, <2>1
  <2> QED BY <2>2
<1>14. \/ data \in SetToSeqs(right)
       \/ \E x : data \in SetToSeqs(right \ {x}) /\ x \in right
       \/ \E d \in right : data = Append(SetToSeq(right \ {d}), [d EXCEPT !.embedding.size = Dimension + 1])
  <2>1. data \in Answers(batch)  OBVIOUS
  <2>2. right = Data(batch, Dimension)  OBVIOUS
  <2> HIDE DEF right
  <2> QED BY <1>7, <1>13, <2>1, <2>2 DEF Answers
<1> QED BY <1>4, <1>5, <1>6, <1>14

(* The embedders: every call by itself, and the model they share.          *)

Starts == {t.start : t \in Texts}

VectorsOf == [of : Starts, size : {Dimension}]

\* The vectors so far are those of the first texts, and there is no post
\* of a batch beyond the last attempt.
CallRight(r, n) ==
    /\ r \in Call
    /\ Len(r.vectors) <= Len(r.texts)
    /\ \A k \in DOMAIN r.vectors : r.vectors[k] = Vector(r.texts[k].start, Dimension)
    /\ (r.kind = "remote" /\ r.pc \in {"start", "backoff"}) =>
          Len(r.vectors) < Len(r.texts) /\ n = r.attempt

AnswerRight(a, r) ==
    a # None => r # None /\ a = [k \in DOMAIN r.texts |-> Vector(r.texts[k].start, Dimension)]

EmbedType ==
    /\ call \in [Callers -> Call \union {None}] /\ posts \in [Callers -> 0..MaxAttempts]
    /\ DOMAIN answer = Callers

CallsRight ==
    \A c \in Callers :
        /\ call[c] # None => CallRight(call[c], posts[c])
        /\ call[c] = None => posts[c] = 0
        /\ AnswerRight(answer[c], call[c])

\* Who loads holds the lock, and the model is loaded by nobody else.
ModelRight ==
    /\ model \in {"cold", "warm"} /\ loads = (IF model = "warm" THEN 1 ELSE 0)
    /\ lock # None => lock \in Callers /\ In(lock, "local", "load")
    /\ \A c \in Callers : In(c, "local", "load") => lock = c /\ model = "cold"

EmbedInv == EmbedType /\ CallsRight /\ ModelRight

CallOf(kind, texts, pc, vectors, tries) ==
    [kind |-> kind, texts |-> texts, pc |-> pc, vectors |-> vectors, attempt |-> tries]

Pcs == {"start", "backoff", "wait", "load", "encode", "done", "raised"}

LEMMA CallRecord ==
    /\ \A kind \in {"remote", "local"}, texts \in Inputs, pc \in Pcs, v \in Seq(VectorsOf),
          n \in 0..MaxAttempts - 1 :
             /\ CallOf(kind, texts, pc, v, n) \in Call /\ CallOf(kind, texts, pc, v, n) # None
    /\ \A r \in Call :
          /\ r.kind \in {"remote", "local"} /\ r.texts \in Inputs /\ r.pc \in Pcs
          /\ r.vectors \in Seq(VectorsOf) /\ r.attempt \in 0..MaxAttempts - 1
          /\ r.texts \in Seq(Texts) /\ Len(r.texts) \in Nat /\ DOMAIN r.texts = 1..Len(r.texts)
          /\ Len(r.vectors) \in Nat /\ DOMAIN r.vectors = 1..Len(r.vectors)
          /\ r # None
          /\ r = CallOf(r.kind, r.texts, r.pc, r.vectors, r.attempt)
<1>1. ASSUME NEW kind \in {"remote", "local"}, NEW texts \in Inputs, NEW pc \in Pcs,
             NEW v \in Seq(VectorsOf), NEW n \in 0..MaxAttempts - 1
      PROVE  CallOf(kind, texts, pc, v, n) \in Call
  BY DEF Call, CallOf, Pcs, VectorsOf, Starts
<1>2. ASSUME NEW r \in Call
      PROVE  /\ r.kind \in {"remote", "local"} /\ r.texts \in Inputs /\ r.pc \in Pcs
             /\ r.vectors \in Seq(VectorsOf) /\ r.attempt \in 0..MaxAttempts - 1
             /\ r = CallOf(r.kind, r.texts, r.pc, r.vectors, r.attempt)
  BY DEF Call, CallOf, Pcs, VectorsOf, Starts
<1>3. ASSUME NEW r \in Call
      PROVE  /\ r.texts \in Seq(Texts) /\ Len(r.texts) \in Nat /\ DOMAIN r.texts = 1..Len(r.texts)
             /\ Len(r.vectors) \in Nat /\ DOMAIN r.vectors = 1..Len(r.vectors)
  <2>1. r.texts \in Seq(Texts)  BY <1>2, EmbedAssumption
  <2>2. r.vectors \in Seq(VectorsOf)  BY <1>2
  <2> QED BY <2>1, <2>2
<1> QED BY <1>1, <1>2, <1>3, EmbedAssumption

LEMMA EmbedStarts == EmbedInit => EmbedInv
<1> SUFFICES ASSUME EmbedInit PROVE EmbedInv  OBVIOUS
<1>1. EmbedType  BY DEF EmbedInit, EmbedType, MaxAttempts
<1>2. \A c \in Callers : call[c] = None /\ answer[c] = None /\ posts[c] = 0  BY DEF EmbedInit
<1>3. CallsRight  BY <1>2 DEF CallsRight, AnswerRight
<1>4. ModelRight  BY <1>2 DEF EmbedInit, ModelRight, In
<1> QED BY <1>1, <1>3, <1>4 DEF EmbedInv

LEMMA VectorIn ==
    ASSUME NEW texts \in Seq(Texts), NEW n \in DOMAIN texts
    PROVE  Vector(texts[n].start, Dimension) \in VectorsOf /\ texts[n].start \in Starts
<1>1. texts[n] \in Texts  OBVIOUS
<1>2. texts[n].start \in Starts  BY <1>1 DEF Starts
<1> QED BY <1>2 DEF Vector, VectorsOf

(* The batch that is posted: the texts after those that have a vector.     *)
LEMMA BatchIs ==
    ASSUME NEW c \in Callers, call[c] \in Call, Len(call[c].vectors) < Len(call[c].texts)
    PROVE  /\ Batch(c) \in Seq(Starts) /\ Len(Batch(c)) \in Nat \ {0}
           /\ Len(call[c].vectors) + Len(Batch(c)) <= Len(call[c].texts)
           /\ \A n \in 1..Len(Batch(c)) :
                 /\ Len(call[c].vectors) + n \in DOMAIN call[c].texts
                 /\ Batch(c)[n] = call[c].texts[Len(call[c].vectors) + n].start
<1>1. PICK texts \in Seq(Texts) : texts = call[c].texts  BY CallRecord
<1>2. PICK done \in Nat, all \in Nat : done = Len(call[c].vectors) /\ all = Len(texts) /\ done < all
  <2>1. Len(call[c].vectors) \in Nat /\ Len(call[c].texts) \in Nat  BY CallRecord
  <2> QED BY <1>1, <2>1
<1>3. PICK till \in Nat : till = Min({done + BatchSize, all}) /\ done < till /\ till <= all
  <2>1. PICK e \in Nat : e = done + BatchSize /\ done < e  BY EmbedAssumption
  <2>2. Min({e, all}) \in {e, all} /\ Min({e, all}) <= e /\ Min({e, all}) <= all
    <3>1. e \in Int /\ all \in Int  OBVIOUS
    <3> QED BY <3>1, LesserOfTwo, Zenon
  <2> QED BY <1>2, <2>1, <2>2
<1>4. PICK m \in Nat : m = till - done /\ m # 0  BY <1>3
<1>5. PICK starts : starts = Truncated(texts)  OBVIOUS
<1>6. \A n \in 1..all : n \in DOMAIN texts /\ starts[n] = texts[n].start /\ starts[n] \in Starts
  BY <1>2, <1>5, VectorIn DEF Truncated
<1>7. PICK b : b = SubSeq(starts, done + 1, till)  OBVIOUS
<1>8. Batch(c) = b  BY <1>1, <1>2, <1>3, <1>5, <1>7 DEF Batch
<1>9. /\ b \in Seq(Starts) /\ Len(b) = m
      /\ \A n \in 1..m : done + n \in 1..all /\ b[n] = starts[done + n]
  <2>1. \A n \in (done + 1)..till : starts[n] \in Starts  BY <1>3, <1>6
  <2>2. done + 1 \in Int /\ till \in Int  OBVIOUS
  <2>3. /\ b \in Seq(Starts)
        /\ Len(b) = IF done + 1 <= till THEN till - (done + 1) + 1 ELSE 0
        /\ \A n \in 1..(till - (done + 1) + 1) : b[n] = starts[done + 1 + n - 1]
    BY <1>7, <2>1, <2>2, SubSeqProperties
  <2>4. till - (done + 1) + 1 = m /\ done + 1 <= till  BY <1>3, <1>4
  <2>5. \A n \in 1..m : done + 1 + n - 1 = done + n /\ done + n \in 1..all  BY <1>3, <1>4
  <2> QED BY <2>3, <2>4, <2>5
<1>10. done + m <= all  BY <1>3, <1>4
<1>11. \A n \in 1..m : done + n \in DOMAIN texts /\ b[n] = texts[done + n].start  BY <1>6, <1>9
<1>12. Len(Batch(c)) = m /\ Batch(c) \in Seq(Starts)  BY <1>8, <1>9
<1> QED BY <1>1, <1>2, <1>4, <1>8, <1>10, <1>11, <1>12

Joins(c, data, parsed, all) ==
    /\ parsed = ParseResponse(data, Len(Batch(c))) /\ parsed # None
    /\ all = call[c].vectors \o parsed

(* A parsed answer joins the vectors that came before it.                  *)
LEMMA JoinedRight ==
    ASSUME NEW c \in Callers, CallRight(call[c], posts[c]), Len(call[c].vectors) < Len(call[c].texts),
           NEW data \in Answers(Batch(c)), NEW parsed, NEW all, Joins(c, data, parsed, all)
    PROVE  /\ all \in Seq(VectorsOf) /\ Len(all) <= Len(call[c].texts)
           /\ \A k \in DOMAIN all : all[k] = Vector(call[c].texts[k].start, Dimension)
<1>1. call[c] \in Call  BY DEF CallRight
<1>2. PICK texts \in Seq(Texts), v \in Seq(VectorsOf) : texts = call[c].texts /\ v = call[c].vectors
  BY <1>1, CallRecord
<1>3. PICK b \in Seq(Starts) : b = Batch(c)  BY <1>1, BatchIs
<1>4. PICK m \in Nat, done \in Nat, full \in Nat : m = Len(b) /\ done = Len(v) /\ full = Len(texts)
  <2>1. Len(b) \in Nat /\ Len(v) \in Nat /\ Len(texts) \in Nat  OBVIOUS
  <2> QED BY <2>1
<1>5. /\ m # 0 /\ done + m <= full
      /\ \A n \in 1..m : done + n \in DOMAIN texts /\ b[n] = texts[done + n].start
  BY <1>1, <1>2, <1>3, <1>4, BatchIs
<1>6. parsed = [n \in 1..m |-> Vector(b[n], Dimension)]
  <2>1. Len(b) # 0 /\ data \in Answers(b) /\ parsed = ParseResponse(data, Len(b)) /\ parsed # None
    BY <1>3, <1>4, <1>5 DEF Joins
  <2>2. parsed = [n \in 1..Len(b) |-> Vector(b[n], Dimension)]  BY <2>1, ParsedIs
  <2> QED BY <1>4, <2>2
<1>7. \A n \in 1..m : parsed[n] = Vector(texts[done + n].start, Dimension) /\ parsed[n] \in VectorsOf
  BY <1>5, <1>6, VectorIn
<1>8. parsed \in Seq(VectorsOf) /\ Len(parsed) = m
  <2>1. parsed \in [1..m -> VectorsOf]  BY <1>6, <1>7
  <2>2. parsed \in Seq(VectorsOf)  BY <2>1, FunctionIsSequence
  <2>3. Len(parsed) = m  BY <2>1, FunctionIsSequence
  <2> QED BY <2>2, <2>3
<1>9. /\ all \in Seq(VectorsOf) /\ Len(all) = done + m /\ DOMAIN all = 1..(done + m)
      /\ \A k \in 1..done : all[k] = v[k]
      /\ \A n \in 1..m : all[done + n] = parsed[n]
  <2>1. all = v \o parsed  BY <1>2 DEF Joins
  <2>2. /\ all \in Seq(VectorsOf) /\ Len(all) = Len(v) + Len(parsed)
        /\ \A k \in 1..Len(v) : all[k] = v[k]
        /\ \A n \in 1..Len(parsed) : all[Len(v) + n] = parsed[n]
    <3>1. parsed \in Seq(VectorsOf) /\ v \in Seq(VectorsOf)  BY <1>8
    <3>2. PICK w \in Seq(VectorsOf) : w = parsed  BY <3>1
    <3>3. /\ v \o w \in Seq(VectorsOf) /\ Len(v \o w) = Len(v) + Len(w)
          /\ \A k \in 1..Len(v) : (v \o w)[k] = v[k]
          /\ \A n \in 1..Len(w) : (v \o w)[Len(v) + n] = w[n]
      OBVIOUS
    <3> QED BY <2>1, <3>2, <3>3
  <2>3. DOMAIN all = 1..Len(all)  BY <2>2
  <2> QED BY <1>4, <1>8, <2>2, <2>3
<1>10. ASSUME NEW k \in DOMAIN all PROVE all[k] = Vector(texts[k].start, Dimension)
  <2>1. CASE k \in 1..done  BY <1>2, <1>4, <1>9, <2>1 DEF CallRight
  <2>2. CASE k \notin 1..done
    <3>1. PICK n \in 1..m : k = done + n
      <4>1. k - done \in 1..m /\ k = done + (k - done)  BY <1>9, <2>2
      <4> QED BY <4>1
    <3> QED BY <1>7, <1>9, <3>1
  <2> QED BY <2>1, <2>2
<1>11. Len(all) <= Len(texts)  BY <1>4, <1>5, <1>9
<1> QED BY <1>2, <1>9, <1>10, <1>11

\* What a step makes of one call, of its posts and of its answer.
Moves(c, r, p, a) ==
    /\ call' = [call EXCEPT ![c] = r] /\ posts' = [posts EXCEPT ![c] = p]
    /\ DOMAIN answer' = Callers /\ \A o \in Callers : answer'[o] = IF o = c THEN a ELSE answer[o]

(* One call moves: what its step makes of it must be right, and the model  *)
(* with it.                                                                *)
LEMMA MoveKeeps ==
    ASSUME EmbedInv, NEW c \in Callers, call[c] \in Call, NEW r, NEW p \in 0..MaxAttempts, NEW a,
           Moves(c, r, p, a), CallRight(r, p), AnswerRight(a, r), ModelRight'
    PROVE  EmbedInv'
<1>1. EmbedType /\ CallsRight  BY DEF EmbedInv
<1>2. r \in Call /\ r # None  BY CallRecord DEF CallRight
<1>3. /\ call'[c] = r /\ posts'[c] = p /\ answer'[c] = a
      /\ \A o \in Callers \ {c} : call'[o] = call[o] /\ posts'[o] = posts[o] /\ answer'[o] = answer[o]
  BY <1>1 DEF EmbedType, Moves
<1>4. EmbedType'  BY <1>1, <1>2 DEF EmbedType, Moves
<1>5. CallsRight'
  <2> SUFFICES ASSUME NEW o \in Callers
               PROVE  /\ call'[o] # None => CallRight(call'[o], posts'[o])
                      /\ call'[o] = None => posts'[o] = 0
                      /\ AnswerRight(answer'[o], call'[o])
    BY DEF CallsRight
  <2>1. CASE o = c  BY <1>2, <1>3, <2>1
  <2>2. CASE o # c  BY <1>1, <1>3, <2>2 DEF CallsRight
  <2> QED BY <2>1, <2>2
<1> QED BY <1>4, <1>5 DEF EmbedInv

LEMMA GoesIs ==
    ASSUME EmbedType, NEW c \in Callers, call[c] \in Call, NEW pc
    PROVE  [call EXCEPT ![c].pc = pc]
              = [call EXCEPT ![c] = CallOf(call[c].kind, call[c].texts, pc, call[c].vectors, call[c].attempt)]
<1>1. [call[c] EXCEPT !.pc = pc] = CallOf(call[c].kind, call[c].texts, pc, call[c].vectors, call[c].attempt)
  BY DEF Call, CallOf
<1>2. [call EXCEPT ![c].pc = pc] = [call EXCEPT ![c] = [call[c] EXCEPT !.pc = pc]]  OBVIOUS
<1> QED BY <1>1, <1>2

(* A call that neither loads before nor after its step leaves the model    *)
(* right.                                                                  *)
LEMMA ModelAside ==
    ASSUME EmbedInv, NEW c \in Callers, UNCHANGED <<model, lock, loads>>,
           ~In(c, "local", "load"), NEW r, call' = [call EXCEPT ![c] = r],
           r.kind = "local" => r.pc # "load"
    PROVE  ModelRight'
<1>1. ModelRight /\ EmbedType  BY DEF EmbedInv
<1>2. call'[c] = r /\ \A o \in Callers \ {c} : call'[o] = call[o]  BY <1>1 DEF EmbedType
<1>3. \A o \in Callers : In(o, "local", "load")' = In(o, "local", "load")
  <2> SUFFICES ASSUME NEW o \in Callers PROVE In(o, "local", "load")' = In(o, "local", "load")  OBVIOUS
  <2>1. CASE o = c  BY <1>2, <2>1 DEF In
  <2>2. CASE o # c  BY <1>2, <2>2 DEF In
  <2> QED BY <2>1, <2>2
<1>4. lock # None => lock \in Callers /\ In(lock, "local", "load")  BY <1>1 DEF ModelRight
<1>5. lock' = lock /\ model' = model /\ loads' = loads  OBVIOUS
<1>6. lock' # None => lock' \in Callers /\ In(lock, "local", "load")'  BY <1>3, <1>4, <1>5
<1> QED BY <1>1, <1>3, <1>5, <1>6 DEF ModelRight

(* What a call that is not over looks like when it moves on with the same  *)
(* vectors and attempt, or ends.                                           *)
LEMMA CallFacts ==
    ASSUME EmbedInv, NEW c \in Callers, call[c] # None
    PROVE  /\ call[c] \in Call /\ CallRight(call[c], posts[c]) /\ AnswerRight(answer[c], call[c])
           /\ posts[c] \in 0..MaxAttempts /\ EmbedType
           /\ call[c].kind \in {"remote", "local"} /\ call[c].pc \in Pcs
           /\ call[c].attempt \in 0..MaxAttempts - 1
<1>1. EmbedType /\ CallsRight  BY DEF EmbedInv
<1>2. CallRight(call[c], posts[c]) /\ AnswerRight(answer[c], call[c])  BY <1>1 DEF CallsRight
<1>3. call[c] \in Call  BY <1>2 DEF CallRight
<1> QED BY <1>1, <1>2, <1>3, CallRecord DEF EmbedType

LEMMA SameVectors ==
    ASSUME EmbedInv, NEW c \in Callers, call[c] # None, NEW pc \in Pcs, NEW n \in 0..MaxAttempts - 1,
           NEW p \in 0..MaxAttempts, NEW r, r = CallOf(call[c].kind, call[c].texts, pc, call[c].vectors, n),
           (call[c].kind = "remote" /\ pc \in {"start", "backoff"}) =>
              (call[c].pc \in {"start", "backoff"} /\ p = n)
    PROVE  /\ CallRight(r, p) /\ AnswerRight(answer[c], r)
           /\ r.kind = call[c].kind /\ r.pc = pc /\ r.texts = call[c].texts
<1>1. /\ call[c] \in Call /\ CallRight(call[c], posts[c]) /\ AnswerRight(answer[c], call[c])  BY CallFacts
<1>2. r \in Call /\ r # None  BY <1>1, CallRecord
<1>3. r.kind = call[c].kind /\ r.pc = pc /\ r.texts = call[c].texts /\ r.vectors = call[c].vectors /\ r.attempt = n
  BY DEF CallOf
<1> QED BY <1>1, <1>2, <1>3 DEF CallRight, AnswerRight

LEMMA EmbedBatchKeeps ==
    ASSUME EmbedInv, NEW c \in Callers, NEW kind \in {"remote", "local"}, NEW texts \in Inputs,
           EmbedBatch(c, kind, texts)
    PROVE  EmbedInv'
<1> DEFINE pc == IF texts = <<>> THEN "done" ELSE "start"
           r == CallOf(kind, texts, pc, <<>>, 0)
           a == IF texts = <<>> THEN <<>> ELSE None
<1>1. /\ call[c] = None /\ call' = [call EXCEPT ![c] = r] /\ answer' = [answer EXCEPT ![c] = a]
      /\ UNCHANGED <<model, lock, loads, posts>>
  BY DEF EmbedBatch, CallOf
<1>2. EmbedType /\ CallsRight /\ posts[c] = 0  BY <1>1 DEF EmbedInv, CallsRight
<1>3. texts \in Seq(Texts)  BY EmbedAssumption
<1>4. /\ r.kind = kind /\ r.texts = texts /\ r.pc = pc /\ r.vectors = <<>> /\ r.attempt = 0
      /\ pc \in {"done", "start"}
  BY DEF CallOf
<1>5. r \in Call /\ r # None
  <2>1. <<>> \in Seq(VectorsOf) /\ 0 \in 0..MaxAttempts - 1 /\ pc \in Pcs  BY DEF MaxAttempts, Pcs
  <2> HIDE DEF pc
  <2> QED BY <2>1, CallRecord
<1>6. CallRight(r, posts[c])
  <2>1. Len(<<>>) = 0 /\ DOMAIN <<>> = {} /\ Len(texts) \in Nat /\ (texts # <<>> => Len(texts) > 0)
    BY <1>3
  <2>2. pc = "start" => texts # <<>>  OBVIOUS
  <2>3. r.pc \in {"start", "backoff"} => texts # <<>>  BY <1>4, <2>2
  <2> HIDE DEF r, pc
  <2> QED BY <1>2, <1>4, <1>5, <2>1, <2>3 DEF CallRight
<1>7. AnswerRight(a, r)
  <2>1. CASE texts = <<>>
    <3>1. <<>> = [k \in DOMAIN <<>> |-> Vector(<<>>[k].start, Dimension)]  OBVIOUS
    <3> QED BY <1>4, <1>5, <2>1, <3>1 DEF AnswerRight
  <2>2. CASE texts # <<>>  BY <2>2 DEF AnswerRight
  <2> QED BY <2>1, <2>2
<1> HIDE DEF r, a, pc
<1>8. ModelRight'
  <2>1. ~In(c, "local", "load")  BY <1>1 DEF In
  <2>2. r.pc # "load"  BY <1>4
  <2> QED BY <1>1, <2>1, <2>2, ModelAside
<1>9. /\ call'[c] = r /\ answer'[c] = a
      /\ \A o \in Callers \ {c} : call'[o] = call[o] /\ answer'[o] = answer[o]
  BY <1>1, <1>2 DEF EmbedType
<1>10. EmbedType'  BY <1>1, <1>2, <1>5 DEF EmbedType
<1>11. CallsRight'
  <2> SUFFICES ASSUME NEW o \in Callers
               PROVE  /\ call'[o] # None => CallRight(call'[o], posts'[o])
                      /\ call'[o] = None => posts'[o] = 0
                      /\ AnswerRight(answer'[o], call'[o])
    BY DEF CallsRight
  <2>1. CASE o = c  BY <1>1, <1>5, <1>6, <1>7, <1>9, <2>1
  <2>2. CASE o # c  BY <1>1, <1>2, <1>9, <2>2 DEF CallsRight
  <2> QED BY <2>1, <2>2
<1> QED BY <1>8, <1>10, <1>11 DEF EmbedInv

(* A call that keeps its vectors and its answer.                           *)
Kept(c, pc, n) == CallOf(call[c].kind, call[c].texts, pc, call[c].vectors, n)

Follows(c, pc, p, n) ==
    (call[c].kind = "remote" /\ pc \in {"start", "backoff"}) => call[c].pc \in {"start", "backoff"} /\ p = n

LEMMA KeepsOn ==
    ASSUME EmbedInv, NEW c \in Callers, call[c] # None, NEW pc \in Pcs, NEW n \in 0..MaxAttempts - 1,
           NEW p \in 0..MaxAttempts, call' = [call EXCEPT ![c] = Kept(c, pc, n)],
           posts' = [posts EXCEPT ![c] = p], UNCHANGED answer, Follows(c, pc, p, n), ModelRight'
    PROVE  EmbedInv'
<1>0. PICK r : r = Kept(c, pc, n)  OBVIOUS
<1>1. CallRight(r, p) /\ AnswerRight(answer[c], r)  BY <1>0, SameVectors DEF Kept, Follows
<1>2. EmbedType /\ call[c] \in Call  BY CallFacts
<1>3. PICK a : a = answer[c]  OBVIOUS
<1>4. Moves(c, r, p, a)  BY <1>0, <1>2, <1>3 DEF EmbedType, Moves
<1>5. AnswerRight(a, r)  BY <1>1, <1>3
<1> QED BY <1>1, <1>2, <1>4, <1>5, MoveKeeps

(* A call whose program counter alone moves.                               *)
LEMMA GoesKeeps ==
    ASSUME EmbedInv, NEW c \in Callers, call[c] # None, NEW pc \in Pcs,
           Goes(c, pc), UNCHANGED <<answer, posts>>,
           (call[c].kind = "remote" /\ pc \in {"start", "backoff"}) => call[c].pc \in {"start", "backoff"},
           ModelRight'
    PROVE  EmbedInv'
<1>1. EmbedType /\ call[c] \in Call /\ call[c].attempt \in 0..MaxAttempts - 1 /\ posts[c] \in 0..MaxAttempts
      /\ CallRight(call[c], posts[c])
  BY CallFacts
<1>2. PICK n, p : n = call[c].attempt /\ p = posts[c]  OBVIOUS
<1>3. call' = [call EXCEPT ![c] = Kept(c, pc, n)]  BY <1>1, <1>2, GoesIs DEF Goes, Kept
<1>4. posts' = [posts EXCEPT ![c] = p]  BY <1>1, <1>2 DEF EmbedType
<1>5. Follows(c, pc, p, n)  BY <1>1, <1>2 DEF CallRight, Follows
<1> QED BY <1>1, <1>2, <1>3, <1>4, <1>5, KeepsOn

(* A call that does not load and whose step leaves the model alone.        *)
LEMMA GoesAside ==
    ASSUME EmbedInv, NEW c \in Callers, call[c] # None, NEW pc \in Pcs \ {"load"},
           Goes(c, pc), UNCHANGED <<model, lock, loads>>, ~In(c, "local", "load")
    PROVE  ModelRight'
<1>1. EmbedType /\ call[c] \in Call  BY CallFacts
<1>2. PICK r : r = CallOf(call[c].kind, call[c].texts, pc, call[c].vectors, call[c].attempt)
  OBVIOUS
<1>3. call' = [call EXCEPT ![c] = r] /\ r.pc # "load"  BY <1>1, <1>2, GoesIs DEF Goes, CallOf
<1> QED BY <1>3, ModelAside

(* After a post that was not the last of its batch's three attempts.       *)
LEMMA PostCounts ==
    ASSUME EmbedInv, NEW c \in Callers, In(c, "remote", "start")
    PROVE  /\ posts[c] = call[c].attempt /\ posts[c] + 1 \in 0..MaxAttempts
           /\ (call[c].attempt < MaxAttempts - 1 => call[c].attempt + 1 \in 0..MaxAttempts - 1)
           /\ Len(call[c].vectors) < Len(call[c].texts)
<1>1. CallRight(call[c], posts[c]) /\ call[c].attempt \in 0..MaxAttempts - 1  BY CallFacts DEF In
<1>2. posts[c] = call[c].attempt /\ Len(call[c].vectors) < Len(call[c].texts)  BY <1>1 DEF CallRight, In
<1> QED BY <1>1, <1>2 DEF MaxAttempts

LEMMA PostRaises ==
    ASSUME EmbedInv, NEW c \in Callers, In(c, "remote", "start"), Posts(c), Raises(c),
           UNCHANGED <<model, lock, loads>>
    PROVE  EmbedInv'
<1>1. call[c] # None /\ ~In(c, "local", "load") /\ "raised" \in Pcs \ {"load"}  BY DEF In, Pcs
<1>2. ModelRight'  BY <1>1, GoesAside DEF Raises
<1>3. EmbedType /\ call[c] \in Call /\ call[c].attempt \in 0..MaxAttempts - 1  BY <1>1, CallFacts
<1>4. PICK p \in 0..MaxAttempts : p = posts[c] + 1  BY PostCounts
<1>5. PICK n : n = call[c].attempt  OBVIOUS
<1>6. call' = [call EXCEPT ![c] = Kept(c, "raised", n)] /\ UNCHANGED answer
  BY <1>3, <1>5, GoesIs DEF Raises, Goes, Kept
<1>7. posts' = [posts EXCEPT ![c] = p] /\ Follows(c, "raised", p, n)  BY <1>4 DEF Posts, Follows
<1> QED BY <1>1, <1>2, <1>3, <1>5, <1>6, <1>7, KeepsOn

LEMMA PostRejectedKeeps ==
    ASSUME EmbedInv, NEW c \in Callers, PostRejected(c)
    PROVE  EmbedInv'
  BY PostRaises DEF PostRejected

LEMMA PostFailsKeeps ==
    ASSUME EmbedInv, NEW c \in Callers, PostFails(c)
    PROVE  EmbedInv'
<1>1. CASE ~(call[c].attempt < MaxAttempts - 1)  BY <1>1, PostRaises DEF PostFails
<1>2. CASE call[c].attempt < MaxAttempts - 1
  <2>1. /\ In(c, "remote", "start") /\ Posts(c) /\ UNCHANGED <<answer, model, lock, loads>>
        /\ call' = [call EXCEPT ![c].attempt = @ + 1, ![c].pc = "backoff"]
    BY <1>2 DEF PostFails
  <2>2. call[c] # None /\ ~In(c, "local", "load") /\ "backoff" \in Pcs \ {"load"}
        /\ call[c].pc = "start"
    BY <2>1 DEF In, Pcs
  <2>3. EmbedType /\ call[c] \in Call  BY <2>2, CallFacts
  <2>4. PICK n \in 0..MaxAttempts - 1 : n = call[c].attempt + 1  BY <1>2, <2>1, PostCounts
  <2>5. PICK p \in 0..MaxAttempts : p = posts[c] + 1 /\ p = n  BY <2>1, <2>4, PostCounts
  <2>6. PICK r : r = Kept(c, "backoff", n)  OBVIOUS
  <2>7. call' = [call EXCEPT ![c] = r]
    <3>1. ASSUME NEW q \in Call
          PROVE [[q EXCEPT !.attempt = n] EXCEPT !.pc = "backoff"]
                   = CallOf(q.kind, q.texts, "backoff", q.vectors, n)
      <4>1. [q EXCEPT !.attempt = n] = CallOf(q.kind, q.texts, q.pc, q.vectors, n)
        BY DEF Call, CallOf
      <4>2. \A k, t, d, v : [CallOf(k, t, d, v, n) EXCEPT !.pc = "backoff"] = CallOf(k, t, "backoff", v, n)
        BY DEF CallOf
      <4>3. [CallOf(q.kind, q.texts, q.pc, q.vectors, n) EXCEPT !.pc = "backoff"]
              = CallOf(q.kind, q.texts, "backoff", q.vectors, n)
        BY <4>2
      <4> QED BY <4>1, <4>3, Zenon
    <3>2. call' = [call EXCEPT ![c] = [[call[c] EXCEPT !.attempt = n] EXCEPT !.pc = "backoff"]]
      BY <2>1, <2>3, <2>4 DEF EmbedType
    <3> QED BY <2>3, <2>6, <3>1, <3>2 DEF Kept
  <2>8. posts' = [posts EXCEPT ![c] = p] /\ Follows(c, "backoff", p, n)
    BY <2>1, <2>2, <2>5 DEF Posts, Follows
  <2>9. ModelRight'
    <3>1. r.pc # "load"  BY <2>6 DEF Kept, CallOf
    <3> QED BY <2>1, <2>2, <2>7, <3>1, ModelAside
  <2> QED BY <2>1, <2>2, <2>5, <2>6, <2>7, <2>8, <2>9, KeepsOn
<1> QED BY <1>1, <1>2

LEMMA BackoffEndsKeeps ==
    ASSUME EmbedInv, NEW c \in Callers, BackoffEnds(c)
    PROVE  EmbedInv'
<1>1. /\ call[c] # None /\ call[c].pc = "backoff" /\ ~In(c, "local", "load")
      /\ Goes(c, "start") /\ UNCHANGED <<answer, model, lock, loads, posts>>
      /\ "start" \in Pcs \ {"load"}
  BY DEF BackoffEnds, In, Pcs
<1>2. ModelRight'  BY <1>1, GoesAside
<1> QED BY <1>1, <1>2, GoesKeeps

LEMMA WhoLoads ==
    ASSUME EmbedInv, NEW c \in Callers, call[c] # None, NEW pc \in Pcs, Goes(c, pc)
    PROVE  /\ \A o \in Callers \ {c} : In(o, "local", "load")' = In(o, "local", "load")
           /\ In(c, "local", "load")' <=> call[c].kind = "local" /\ pc = "load"
<1>1. EmbedType /\ call[c] \in Call  BY CallFacts
<1>2. PICK r : r = CallOf(call[c].kind, call[c].texts, pc, call[c].vectors, call[c].attempt)  OBVIOUS
<1>3. r.kind = call[c].kind /\ r.pc = pc  BY <1>2 DEF CallOf
<1>4. r # None
  <2>1. /\ call[c].kind \in {"remote", "local"} /\ call[c].texts \in Inputs
        /\ call[c].vectors \in Seq(VectorsOf) /\ call[c].attempt \in 0..MaxAttempts - 1
    BY <1>1, CallRecord
  <2> QED BY <1>2, <2>1, CallRecord
<1>5. call'[c] = r /\ \A o \in Callers \ {c} : call'[o] = call[o]
  <2>1. call' = [call EXCEPT ![c] = r]  BY <1>1, <1>2, GoesIs DEF Goes
  <2> QED BY <1>1, <2>1 DEF EmbedType
<1>6. ASSUME NEW o \in Callers \ {c} PROVE In(o, "local", "load")' = In(o, "local", "load")
  BY <1>5 DEF In
<1>7. In(c, "local", "load")' <=> call[c].kind = "local" /\ pc = "load"  BY <1>3, <1>4, <1>5 DEF In
<1> QED BY <1>6, <1>7

(* Nobody loads after the step: whoever held the lock gave it back.        *)
LEMMA GivesBack ==
    ASSUME EmbedInv, NEW c \in Callers, call[c] # None, NEW pc \in Pcs \ {"load"}, Goes(c, pc),
           In(c, "local", "load"), lock' = None,
           \/ UNCHANGED <<model, loads>>
           \/ model' = "warm" /\ loads' = loads + 1
    PROVE  ModelRight'
<1>1. ModelRight  BY DEF EmbedInv
<1>2. lock = c /\ model = "cold" /\ loads = 0  BY <1>1 DEF ModelRight
<1>3. \A o \in Callers : ~In(o, "local", "load")'
  <2> SUFFICES ASSUME NEW o \in Callers PROVE ~In(o, "local", "load")'  OBVIOUS
  <2>1. CASE o = c  BY <2>1, WhoLoads
  <2>2. CASE o # c
    <3>1. ~In(o, "local", "load")  BY <1>1, <1>2, <2>2 DEF ModelRight
    <3> QED BY <2>2, <3>1, WhoLoads
  <2> QED BY <2>1, <2>2
<1>4. model' \in {"cold", "warm"} /\ loads' = (IF model' = "warm" THEN 1 ELSE 0)
  BY <1>2
<1> QED BY <1>3, <1>4 DEF ModelRight

LEMMA EnsureModelKeeps ==
    ASSUME EmbedInv, NEW c \in Callers, EnsureModel(c)
    PROVE  EmbedInv'
<1> DEFINE pc == IF model = "warm" THEN "encode" ELSE "wait"
<1>1. /\ call[c] # None /\ call[c].kind = "local" /\ call[c].pc = "start" /\ ~In(c, "local", "load")
      /\ Goes(c, pc) /\ UNCHANGED <<answer, model, lock, loads, posts>>
  BY DEF EnsureModel, In
<1>2. pc \in Pcs \ {"load"}  BY DEF Pcs
<1> HIDE DEF pc
<1>3. ModelRight'  BY <1>1, <1>2, GoesAside
<1> QED BY <1>1, <1>2, <1>3, GoesKeeps

LEMMA TakeLockKeeps ==
    ASSUME EmbedInv, NEW c \in Callers, TakeLock(c)
    PROVE  EmbedInv'
<1>1. /\ call[c] # None /\ call[c].kind = "local" /\ ~In(c, "local", "load") /\ lock = None
      /\ UNCHANGED <<answer, model, loads, posts>>
  BY DEF TakeLock, In
<1>0. ModelRight  BY DEF EmbedInv
<1>2. CASE model = "cold"
  <2>1. lock' = c /\ Goes(c, "load") /\ "load" \in Pcs  BY <1>2 DEF TakeLock, StillCold, Pcs
  <2>2. In(c, "local", "load")'  BY <1>1, <2>1, WhoLoads
  <2>3. \A o \in Callers \ {c} : ~In(o, "local", "load")'
    <3>1. \A o \in Callers : ~In(o, "local", "load")
      <4>1. None \notin Callers  BY EmbedAssumption
      <4> QED BY <1>0, <1>1, <4>1 DEF ModelRight
    <3> QED BY <1>1, <2>1, <3>1, WhoLoads
  <2>4. In(lock, "local", "load")'  BY <2>1, <2>2 DEF In
  <2>5. ModelRight'  BY <1>0, <1>1, <1>2, <2>1, <2>2, <2>3, <2>4 DEF ModelRight
  <2> QED BY <1>1, <2>1, <2>5, GoesKeeps
<1>3. CASE model # "cold"
  <2>1. UNCHANGED lock /\ Goes(c, "encode") /\ "encode" \in Pcs \ {"load"}
    BY <1>3 DEF TakeLock, StillCold, Pcs
  <2>2. ModelRight'  BY <1>1, <2>1, GoesAside
  <2> QED BY <1>1, <2>1, <2>2, GoesKeeps
<1> QED BY <1>2, <1>3

LEMMA LoadModelKeeps ==
    ASSUME EmbedInv, NEW c \in Callers, LoadModel(c)
    PROVE  EmbedInv'
<1>1. /\ call[c] # None /\ call[c].kind = "local" /\ In(c, "local", "load")
      /\ model' = "warm" /\ loads' = loads + 1 /\ lock' = None
      /\ Goes(c, "encode") /\ UNCHANGED <<answer, posts>> /\ "encode" \in Pcs \ {"load"}
  BY DEF LoadModel, In, Pcs
<1>2. ModelRight'  BY <1>1, GivesBack
<1> QED BY <1>1, <1>2, GoesKeeps

LEMMA LoadFailsKeeps ==
    ASSUME EmbedInv, NEW c \in Callers, LoadFails(c)
    PROVE  EmbedInv'
<1>1. /\ call[c] # None /\ call[c].kind = "local" /\ In(c, "local", "load")
      /\ UNCHANGED <<model, loads>> /\ lock' = None
      /\ Goes(c, "raised") /\ UNCHANGED <<answer, posts>> /\ "raised" \in Pcs \ {"load"}
  BY DEF LoadFails, Raises, In, Pcs
<1>2. ModelRight'  BY <1>1, GivesBack
<1> QED BY <1>1, <1>2, GoesKeeps

(* Whoever does not hold the lock leaves it to its holder.                 *)
LEMMA CancelKeeps ==
    ASSUME EmbedInv, NEW c \in Callers, Cancel(c)
    PROVE  EmbedInv'
<1>1. /\ call[c] # None /\ UNCHANGED <<answer, model, loads, posts>> /\ Goes(c, "raised")
      /\ lock' = (IF lock = c THEN None ELSE lock) /\ "raised" \in Pcs \ {"load"}
  BY DEF Cancel, Raises, Pcs
<1>2. ModelRight  BY DEF EmbedInv
<1>3. ModelRight'
  <2>1. CASE In(c, "local", "load")
    <3>1. lock = c  BY <1>2, <2>1 DEF ModelRight
    <3>2. lock' = None  BY <1>1, <3>1
    <3> QED BY <1>1, <2>1, <3>2, GivesBack
  <2>2. CASE ~In(c, "local", "load")
    <3>1. lock # c \/ lock = None  BY <1>2, <2>2 DEF ModelRight
    <3>2. lock' = lock  BY <1>1, <3>1
    <3> QED BY <1>1, <2>2, <3>2, GoesAside
  <2> QED BY <2>1, <2>2
<1> QED BY <1>1, <1>3, GoesKeeps

\* What a finished call answers with.
Full(texts) == [k \in DOMAIN texts |-> Vector(texts[k].start, Dimension)]

(* A call that returns answers with the vectors of all its texts.          *)
LEMMA ReturnsKeeps ==
    ASSUME EmbedInv, NEW c \in Callers, call[c] # None, Returns(c, Full(call[c].texts)),
           UNCHANGED <<model, lock, loads>>, ~In(c, "local", "load"),
           NEW p \in 0..MaxAttempts, posts' = [posts EXCEPT ![c] = p]
    PROVE  EmbedInv'
<1>1. EmbedType /\ call[c] \in Call /\ call[c].attempt \in 0..MaxAttempts - 1  BY CallFacts
<1>2. PICK r, n, texts : /\ r = CallOf(call[c].kind, texts, "done", call[c].vectors, n)
                         /\ n = call[c].attempt /\ texts = call[c].texts
  OBVIOUS
<1>3. PICK a : a = Full(texts)  OBVIOUS
<1>4. Goes(c, "done") /\ answer' = [answer EXCEPT ![c] = a]  BY <1>2, <1>3 DEF Returns
<1>5. call' = [call EXCEPT ![c] = r]  BY <1>1, <1>2, <1>4, GoesIs DEF Goes
<1>6. "done" \in Pcs \ {"load"}  BY DEF Pcs
<1>7. CallRight(r, p) /\ r.texts = texts  BY <1>1, <1>2, <1>6, SameVectors
<1>8. AnswerRight(a, r)
  <2>1. r # None  BY <1>7, CallRecord DEF CallRight
  <2> QED BY <1>3, <1>7, <2>1 DEF AnswerRight, Full
<1>9. Moves(c, r, p, a)  BY <1>1, <1>4, <1>5 DEF EmbedType, Moves
<1>10. ModelRight'  BY <1>4, <1>6, GoesAside
<1> QED BY <1>1, <1>7, <1>8, <1>9, <1>10, MoveKeeps

LEMMA EncodeKeeps ==
    ASSUME EmbedInv, NEW c \in Callers, NEW size, Encode(c, size)
    PROVE  EmbedInv'
<1>1. /\ call[c] # None /\ call[c].kind = "local" /\ ~In(c, "local", "load")
      /\ UNCHANGED <<model, lock, loads, posts>>
  BY DEF Encode, In
<1>2. EmbedType /\ call[c] \in Call  BY <1>1, CallFacts
<1>3. CASE size # Dimension
  <2>1. Goes(c, "raised") /\ UNCHANGED answer /\ "raised" \in Pcs \ {"load"}
    BY <1>3 DEF Encode, Raises, Pcs
  <2>2. ModelRight'  BY <1>1, <2>1, GoesAside
  <2> QED BY <1>1, <2>1, <2>2, GoesKeeps
<1>4. CASE size = Dimension
  <2>1. PICK texts : texts = call[c].texts  OBVIOUS
  <2>2. Full(texts) = [n \in DOMAIN Truncated(texts) |-> Vector(Truncated(texts)[n], size)]
    BY <1>4 DEF Full, Truncated
  <2>3. Returns(c, Full(call[c].texts))  BY <1>4, <2>1, <2>2 DEF Encode
  <2>4. PICK p \in 0..MaxAttempts : p = posts[c]  BY <1>1, CallFacts
  <2>5. posts' = [posts EXCEPT ![c] = p]  BY <1>1, <1>2, <2>4 DEF EmbedType
  <2> QED BY <1>1, <2>3, <2>5, ReturnsKeeps
<1> QED BY <1>3, <1>4

LEMMA PostSucceedsKeeps ==
    ASSUME EmbedInv, NEW c \in Callers, NEW data \in Answers(Batch(c)), PostSucceeds(c, data)
    PROVE  EmbedInv'
<1>1. PICK parsed, all : /\ parsed = ParseResponse(data, Len(Batch(c)))
                         /\ all = call[c].vectors \o parsed
  OBVIOUS
<1>2. /\ In(c, "remote", "start") /\ UNCHANGED <<model, lock, loads>>
      /\ IF parsed = None THEN Posts(c) /\ Raises(c)
         ELSE /\ posts' = [posts EXCEPT ![c] = 0]
              /\ IF Len(all) = Len(call[c].texts) THEN Returns(c, all)
                 ELSE /\ call' = [call EXCEPT ![c].vectors = all, ![c].attempt = 0]
                      /\ UNCHANGED answer
  BY <1>1 DEF PostSucceeds
<1>3. call[c] # None /\ ~In(c, "local", "load") /\ call[c].kind = "remote" /\ call[c].pc = "start"
  BY <1>2 DEF In
<1>4. EmbedType /\ call[c] \in Call /\ CallRight(call[c], posts[c])  BY <1>3, CallFacts
<1>5. CASE parsed = None  BY <1>2, <1>5, PostRaises
<1>6. CASE parsed # None
  <2>1. /\ all \in Seq(VectorsOf) /\ Len(all) <= Len(call[c].texts)
        /\ \A k \in DOMAIN all : all[k] = Vector(call[c].texts[k].start, Dimension)
    <3>1. Len(call[c].vectors) < Len(call[c].texts)  BY <1>2, PostCounts
    <3>2. Joins(c, data, parsed, all)  BY <1>1, <1>6 DEF Joins
    <3> QED BY <1>4, <3>1, <3>2, JoinedRight
  <2>2. PICK p \in 0..MaxAttempts : p = 0  BY DEF MaxAttempts
  <2>3. posts' = [posts EXCEPT ![c] = p]  BY <1>2, <1>6, <2>2
  <2>4. call[c].texts \in Seq(Texts)  BY <1>4, CallRecord
  <2>5. CASE Len(all) = Len(call[c].texts)
    <3>1. PICK texts \in Seq(Texts) : texts = call[c].texts  BY <2>4
    <3>2. all = Full(texts)
      <4>1. DOMAIN all = DOMAIN texts
        <5>1. DOMAIN all = 1..Len(all) /\ DOMAIN texts = 1..Len(texts)  BY <2>1
        <5> QED BY <2>5, <3>1, <5>1
      <4>2. all = [k \in DOMAIN all |-> all[k]]
        <5>1. \A s \in Seq(VectorsOf) : s = [k \in DOMAIN s |-> s[k]]  OBVIOUS
        <5> QED BY <2>1, <5>1
      <4> QED BY <2>1, <3>1, <4>1, <4>2 DEF Full
    <3>3. Returns(c, Full(call[c].texts))  BY <1>2, <1>6, <2>5, <3>1, <3>2
    <3> QED BY <1>2, <1>3, <2>3, <3>3, ReturnsKeeps
  <2>6. CASE Len(all) # Len(call[c].texts)
    <3>1. call' = [call EXCEPT ![c].vectors = all, ![c].attempt = 0] /\ UNCHANGED answer
      BY <1>2, <1>6, <2>6
    <3>2. PICK r : r = CallOf(call[c].kind, call[c].texts, call[c].pc, all, p)  OBVIOUS
    <3>3. call' = [call EXCEPT ![c] = r]
      <4>1. ASSUME NEW q \in Call
            PROVE  [[q EXCEPT !.vectors = all] EXCEPT !.attempt = p] = CallOf(q.kind, q.texts, q.pc, all, p)
        <5>1. [q EXCEPT !.vectors = all] = CallOf(q.kind, q.texts, q.pc, all, q.attempt)
          BY DEF Call, CallOf
        <5>2. \A k, t, d, m : [CallOf(k, t, d, all, m) EXCEPT !.attempt = p] = CallOf(k, t, d, all, p)
          BY DEF CallOf
        <5>3. [CallOf(q.kind, q.texts, q.pc, all, q.attempt) EXCEPT !.attempt = p]
                = CallOf(q.kind, q.texts, q.pc, all, p)
          BY <5>2
        <5> QED BY <5>1, <5>3, Zenon
      <4>2. call' = [call EXCEPT ![c] = [[call[c] EXCEPT !.vectors = all] EXCEPT !.attempt = p]]
        BY <1>4, <2>2, <3>1 DEF EmbedType
      <4> QED BY <1>4, <3>2, <4>1, <4>2
    <3>4. /\ r.kind = "remote" /\ r.texts = call[c].texts /\ r.pc = "start" /\ r.vectors = all /\ r.attempt = p
      BY <1>3, <3>2 DEF CallOf
    <3>5. r \in Call
      <4>1. p \in 0..MaxAttempts - 1  BY <2>2 DEF MaxAttempts
      <4> QED BY <1>4, <2>1, <3>2, <4>1, CallRecord
    <3>6. CallRight(r, p)
      <4>1. Len(all) < Len(call[c].texts)  
        <5>1. Len(all) \in Nat /\ Len(call[c].texts) \in Nat  BY <2>1, <2>4
        <5> QED BY <2>1, <2>6, <5>1
      <4> QED BY <2>1, <3>4, <3>5, <4>1 DEF CallRight
    <3>7. PICK a : a = answer[c]  OBVIOUS
    <3>8. AnswerRight(a, r)
      <4>1. AnswerRight(answer[c], call[c]) /\ r # None  BY <1>3, <3>5, CallFacts, CallRecord
      <4> QED BY <3>4, <3>7, <4>1 DEF AnswerRight
    <3>9. Moves(c, r, p, a)  BY <1>4, <2>3, <3>1, <3>3, <3>7 DEF EmbedType, Moves
    <3>10. ModelRight'
      <4>1. r.pc # "load"  BY <3>4
      <4> QED BY <1>2, <1>3, <3>3, <4>1, ModelAside
    <3> QED BY <1>4, <3>6, <3>8, <3>9, <3>10, MoveKeeps
  <2> QED BY <2>5, <2>6
<1> QED BY <1>5, <1>6

LEMMA EmbedKeeps == EmbedInv /\ [EmbedNext]_embedVars => EmbedInv'
<1> SUFFICES ASSUME EmbedInv, [EmbedNext]_embedVars PROVE EmbedInv'  OBVIOUS
<1>1. ASSUME NEW c \in Callers, EmbedStep(c) PROVE EmbedInv'
  <2>1. CASE \E data \in Answers(Batch(c)) : PostSucceeds(c, data)  BY <2>1, PostSucceedsKeeps
  <2>2. CASE PostRejected(c)  BY <2>2, PostRejectedKeeps
  <2>3. CASE PostFails(c)  BY <2>3, PostFailsKeeps
  <2>4. CASE BackoffEnds(c)  BY <2>4, BackoffEndsKeeps
  <2>5. CASE EnsureModel(c)  BY <2>5, EnsureModelKeeps
  <2>6. CASE TakeLock(c)  BY <2>6, TakeLockKeeps
  <2>7. CASE LoadModel(c)  BY <2>7, LoadModelKeeps
  <2>8. CASE LoadFails(c)  BY <2>8, LoadFailsKeeps
  <2>9. CASE \E size \in {Dimension, Dimension + 1} : Encode(c, size)  BY <2>9, EncodeKeeps
  <2> QED BY <1>1, <2>1, <2>2, <2>3, <2>4, <2>5, <2>6, <2>7, <2>8, <2>9 DEF EmbedStep
<1>2. CASE EmbedNext
  <2>1. PICK c \in Callers :
           \/ \E kind \in {"remote", "local"}, texts \in Inputs : EmbedBatch(c, kind, texts)
           \/ EmbedStep(c) \/ Cancel(c)
    BY <1>2 DEF EmbedNext
  <2> QED BY <1>1, <2>1, EmbedBatchKeeps, CancelKeeps
<1>3. CASE UNCHANGED embedVars
  <2>1. UNCHANGED <<call, answer, model, lock, loads, posts>>  BY <1>3 DEF embedVars
  <2>2. EmbedType'  BY <2>1 DEF EmbedInv, EmbedType
  <2>3. CallsRight'  BY <2>1 DEF EmbedInv, CallsRight
  <2>4. ModelRight'  BY <2>1 DEF EmbedInv, ModelRight, In
  <2> QED BY <2>2, <2>3, <2>4 DEF EmbedInv
<1> QED BY <1>2, <1>3

LEMMA EmbedHolds == EmbedInv => VectorsAligned
<1> SUFFICES ASSUME EmbedInv PROVE VectorsAligned  OBVIOUS
<1>1. EmbedType /\ CallsRight /\ ModelRight  BY DEF EmbedInv
<1>2. ASSUME NEW c \in Callers, answer[c] # None
      PROVE  answer[c] = [n \in DOMAIN call[c].texts |-> Vector(Truncated(call[c].texts)[n], Dimension)]
  BY <1>1, <1>2 DEF CallsRight, AnswerRight, Truncated
<1>3. ASSUME NEW c \in Callers PROVE posts[c] <= MaxAttempts
  <2>1. posts[c] \in 0..MaxAttempts  BY <1>1 DEF EmbedType
  <2> QED BY <2>1 DEF MaxAttempts
<1>4. loads <= 1 /\ (loads = 1 <=> model = "warm") /\ (lock # None => In(lock, "local", "load"))
  BY <1>1 DEF ModelRight
<1> QED BY <1>2, <1>3, <1>4 DEF VectorsAligned
---------------------------------------------------------------------------
(* The embedders, the cache and the rate limiter together.                 *)

\* The step of the three, each of which may stand still.
LEMMA AnswersKeep ==
    EmbedInv /\ CacheInv /\ RateInv
    /\ [EmbedNext]_embedVars /\ [CacheNext]_cacheVars /\ [RateNext]_rateVars
       => (EmbedInv /\ CacheInv /\ RateInv)'
  BY EmbedKeeps, CacheKeeps, RateKeeps

(* Whatever the calls of the embedders, the uses of the cache and the      *)
(* requests to the limiter: each text has its vector, each served result   *)
(* is the one put under its key for the version asked for and not out of   *)
(* date, and no burst exceeds the bucket.                                  *)
THEOREM AnswersAlwaysFit == EmbedSpec /\ CacheSpec /\ RateSpec => []AnswersFit
<1>1. EmbedSpec => []EmbedInv  BY EmbedStarts, EmbedKeeps, PTL DEF EmbedSpec
<1>2. CacheSpec => []CacheInv  BY CacheStarts, CacheKeeps, PTL DEF CacheSpec
<1>3. RateSpec => []RateInv  BY RateStarts, RateKeeps, PTL DEF RateSpec
<1>4. RateInv => RateBounded  BY DEF RateInv
<1>5. EmbedInv /\ CacheInv /\ RateInv => AnswersFit  BY <1>4, EmbedHolds, CacheHolds DEF AnswersFit
<1> QED BY <1>1, <1>2, <1>3, <1>5, PTL

---------------------------------------------------------------------------
(* Local repositories.  What the registry says of a commit is true of the  *)
(* memory, because a run reads the tree after it read the commit, and a    *)
(* run that has its repository for itself read the tree after every other  *)
(* run wrote what it may still claim.                                      *)

Version(r) == [Files[r] -> Nat]

\* A commit, if it is known, is no newer than a tree.
NoNewer(sha, tree, r) == sha = AutoSha \/ (sha \in Version(r) /\ \A f \in Files[r] : sha[f] <= tree[f])

\* The memory is no older than a commit, if it is known, but for torn files.
Held(sha, r, held, rent) == sha = AutoSha \/ \A f \in Files[r] \ rent[r] : sha[f] <= held[r][f]

\* The runs under way, the watcher's and those of the requests.
Actors == LocalSlots \union {None}
Runs   == [a \in Actors |-> IF a = None THEN watcher ELSE request[a]]

WatcherShape ==
    /\ watcher.pc \in {"next", "head", "locked", "walked", "written"} => watcher.todo \in Seq(LocalRepos)
    /\ watcher.pc = "head" => watcher.todo # <<>>
    /\ watcher.pc \in {"locked", "walked", "written"} => watcher.repo \in LocalRepos
    /\ watcher.pc = "walked" =>
          watcher = [pc |-> "walked", batch |-> watcher.batch, todo |-> watcher.todo,
                     repo |-> watcher.repo, sha |-> watcher.sha, tree |-> watcher.tree,
                     absent |-> watcher.absent, lone |-> watcher.lone]

RequestShape ==
    /\ request = [s \in LocalSlots |-> request[s]]
    /\ \A s \in LocalSlots :
          \/ request[s] = Idle
          \/ /\ request[s].pc \in {"walked", "written"} /\ request[s].repo \in LocalRepos
             /\ request[s] = [pc |-> request[s].pc, kind |-> request[s].kind, repo |-> request[s].repo,
                              sha |-> request[s].sha, tree |-> request[s].tree,
                              absent |-> request[s].absent,
                              lone |-> request[s].lone]

TreesInv ==
    /\ disk \in [AllFiles -> Nat]
    /\ head = [r \in LocalRepos |-> head[r]] /\ memory = [r \in LocalRepos |-> memory[r]]
    /\ torn = [r \in LocalRepos |-> torn[r]] /\ row = [r \in LocalRepos |-> row[r]]
    /\ \A r \in LocalRepos :
          /\ head[r] \in Version(r) /\ \A f \in Files[r] : head[r][f] <= disk[f]
          /\ memory[r] = [f \in Files[r] |-> memory[r][f]]
          /\ row[r] # None => row[r] = [watch |-> row[r].watch, sha |-> row[r].sha]

Begun(run) == run.pc \in {"locked", "walked", "written"}

\* What is claimed is no newer than the disk; what was written, or is in
\* the row, the memory has.
RowsTrue ==
    \A r \in LocalRepos : row[r] # None => NoNewer(row[r].sha, disk, r) /\ Held(row[r].sha, r, memory, torn)

RunsTrue ==
    \A a \in Actors :
        LET run == Runs[a] IN
        /\ Begun(run) => NoNewer(run.sha, disk, run.repo)
        /\ run.pc = "written" => Held(run.sha, run.repo, memory, torn)
        /\ run.pc = "walked" => /\ run.tree \in Version(run.repo)
                                /\ \A f \in Files[run.repo] : run.tree[f] <= disk[f]
                                /\ NoNewer(run.sha, run.tree, run.repo)

\* Two runs between walk and write are not alone; one that is alone walked
\* when all that was claimed was older.
LoneRuns ==
    \A a \in Actors : Runs[a].pc = "walked" /\ Runs[a].lone =>
        LET r == Runs[a].repo IN
        /\ row[r] # None => NoNewer(row[r].sha, Runs[a].tree, r)
        /\ \A b \in Actors : Runs[b].repo = r =>
              /\ Runs[b].pc = "walked" => b = a
              /\ Runs[b].pc = "written" => NoNewer(Runs[b].sha, Runs[a].tree, r)

ClaimsInv == RowsTrue /\ RunsTrue /\ LoneRuns

LocalInv == TreesInv /\ WatcherShape /\ RequestShape /\ ClaimsInv

---------------------------------------------------------------------------
(* The steps, by what they do to the claims.                               *)

\* A run that goes on as it is.
Stays(a) ==
    /\ Runs'[a].pc = Runs[a].pc /\ Runs'[a].repo = Runs[a].repo /\ Runs'[a].sha = Runs[a].sha
    /\ Runs[a].pc = "walked" => Runs'[a].tree = Runs[a].tree /\ (Runs'[a].lone => Runs[a].lone)

\* Files change, rows go, runs end or learn their commit.
Calm ==
    /\ disk' \in [AllFiles -> Nat] /\ \A f \in AllFiles : disk[f] <= disk'[f]
    /\ memory' = memory /\ torn' = torn
    /\ \A r \in LocalRepos : row'[r] # None => row[r] # None /\ row'[r].sha = row[r].sha
    /\ \A a \in Actors : Begun(Runs'[a]) =>
          \/ Stays(a)
          \/ Runs'[a].pc = "locked" /\ NoNewer(Runs'[a].sha, disk', Runs'[a].repo)

Walks(a, r) ==
    /\ UNCHANGED <<disk, row, memory, torn>>
    /\ Runs'[a].pc = "walked" /\ Runs'[a].repo = r /\ Runs'[a].tree = Tree(r)
    /\ NoNewer(Runs'[a].sha, disk, r)
    /\ Runs'[a].lone => \A b \in Actors \ {a} : ~(Runs[b].pc = "walked" /\ Runs[b].repo = r)
    /\ \A b \in Actors \ {a} : /\ Stays(b)
                               /\ Runs[b].pc = "walked" /\ Runs[b].repo = r => ~Runs'[b].lone

WritesRun(a, r, kept) ==
    /\ UNCHANGED <<disk, row>>
    /\ Runs[a].pc = "walked" /\ Runs[a].repo = r
    /\ \A o \in LocalRepos \ {r} : memory'[o] = memory[o] /\ torn'[o] = torn[o]
    /\ \A f \in Files[r] \ kept : memory'[r][f] = Runs[a].tree[f]
    /\ Runs[a].lone => torn'[r] = kept
    /\ ~Runs[a].lone => torn'[r] = Files[r]
    /\ Begun(Runs'[a]) => Runs'[a].pc = "written" /\ Runs'[a].repo = r /\ Runs'[a].sha = Runs[a].sha
    /\ \A b \in Actors \ {a} : Stays(b)

Claims(a, r) ==
    /\ UNCHANGED <<disk, memory, torn>>
    /\ Runs[a].pc = "written" /\ Runs[a].repo = r
    /\ row'[r] # None => row'[r].sha = Runs[a].sha
    /\ \A o \in LocalRepos \ {r} : row'[o] = row[o]
    /\ ~Begun(Runs'[a])
    /\ \A b \in Actors \ {a} : Stays(b)

LEMMA ReposOf ==
    ASSUME WatcherShape, RequestShape, NEW a \in Actors, Begun(Runs[a])
    PROVE  Runs[a].repo \in LocalRepos
<1>1. CASE a = None
  <2>1. Runs[a] = watcher  BY <1>1 DEF Runs
  <2> QED BY <2>1 DEF WatcherShape, Begun
<1>2. CASE a # None
  <2>1. a \in LocalSlots /\ Runs[a] = request[a]  BY <1>2 DEF Runs, Actors
  <2>2. Idle.pc = "idle"  BY DEF Idle
  <2> QED BY <2>1, <2>2 DEF RequestShape, Begun
<1> QED BY <1>1, <1>2

LEMMA FilesOnDisk == \A r \in LocalRepos : Files[r] \subseteq AllFiles
BY DEF AllFiles

(* Versions of a repository, one no newer than the other.                  *)
LEMMA NoNewerTrans ==
    ASSUME NEW r, NEW sha, NEW s, NEW t, NoNewer(sha, s, r),
           \A f \in Files[r] : s[f] \in Nat /\ t[f] \in Nat /\ s[f] <= t[f]
    PROVE  NoNewer(sha, t, r)
<1>1. CASE sha = AutoSha  BY <1>1 DEF NoNewer
<1>2. CASE sha \in Version(r) /\ \A f \in Files[r] : sha[f] <= s[f]
  <2>1. \A f \in Files[r] : sha[f] \in Nat  BY <1>2 DEF Version
  <2>2. \A f \in Files[r] : sha[f] <= t[f]  BY <1>2, <2>1
  <2> QED BY <1>2, <2>2 DEF NoNewer
<1> QED BY <1>1, <1>2 DEF NoNewer

LEMMA CalmKeeps ==
    ASSUME LocalInv, Calm
    PROVE  ClaimsInv'
<1>1. \A r \in LocalRepos : \A f \in Files[r] :
         disk[f] \in Nat /\ disk'[f] \in Nat /\ disk[f] <= disk'[f]
  BY FilesOnDisk DEF Calm, LocalInv, TreesInv
<1>2. \A r \in LocalRepos : \A sha : NoNewer(sha, disk, r) => NoNewer(sha, disk', r)
  BY <1>1, NoNewerTrans
<1>3. memory' = memory /\ torn' = torn  BY DEF Calm
<1>4. RowsTrue'  BY <1>2, <1>3 DEF RowsTrue, Calm, LocalInv, ClaimsInv
<1>5. RunsTrue'
  <2> SUFFICES ASSUME NEW a \in Actors
               PROVE  /\ Begun(Runs'[a]) => NoNewer(Runs'[a].sha, disk', Runs'[a].repo)
                      /\ Runs'[a].pc = "written" => Held(Runs'[a].sha, Runs'[a].repo, memory', torn')
                      /\ Runs'[a].pc = "walked" =>
                            /\ Runs'[a].tree \in Version(Runs'[a].repo)
                            /\ \A f \in Files[Runs'[a].repo] : Runs'[a].tree[f] <= disk'[f]
                            /\ NoNewer(Runs'[a].sha, Runs'[a].tree, Runs'[a].repo)
    BY DEF RunsTrue
  <2>1. CASE ~Begun(Runs'[a])  BY <2>1 DEF Begun
  <2>2. CASE Runs'[a].pc = "locked" /\ NoNewer(Runs'[a].sha, disk', Runs'[a].repo)  BY <2>2
  <2>3. CASE Begun(Runs'[a]) /\ Stays(a)
    <3>1. PICK run : run = Runs[a]  OBVIOUS
    <3>2. Begun(run)  BY <2>3, <3>1 DEF Stays, Begun
    <3>3. run.repo \in LocalRepos  BY <3>1, <3>2, ReposOf DEF LocalInv
    <3>4. /\ NoNewer(run.sha, disk, run.repo)
          /\ run.pc = "written" => Held(run.sha, run.repo, memory, torn)
          /\ run.pc = "walked" => /\ run.tree \in Version(run.repo)
                                  /\ \A f \in Files[run.repo] : run.tree[f] <= disk[f]
                                  /\ NoNewer(run.sha, run.tree, run.repo)
      BY <3>1, <3>2 DEF RunsTrue, LocalInv, ClaimsInv
    <3>5. run.pc = "walked" => \A f \in Files[run.repo] : run.tree[f] <= disk'[f]
      <4> SUFFICES ASSUME run.pc = "walked", NEW f \in Files[run.repo] PROVE run.tree[f] <= disk'[f]
        OBVIOUS
      <4>1. run.tree[f] \in Nat /\ run.tree[f] <= disk[f]  BY <3>4 DEF Version
      <4> QED BY <1>1, <3>3, <4>1
    <3>6. NoNewer(run.sha, disk', run.repo)  BY <1>2, <3>3, <3>4
    <3> QED BY <1>3, <2>3, <3>1, <3>4, <3>5, <3>6 DEF Stays
  <2> QED BY <2>1, <2>2, <2>3 DEF Calm
<1>6. LoneRuns'
  <2> SUFFICES ASSUME NEW a \in Actors, Runs'[a].pc = "walked", Runs'[a].lone,
                      NEW r, r = Runs'[a].repo
               PROVE  /\ row'[r] # None => NoNewer(row'[r].sha, Runs'[a].tree, r)
                      /\ \A b \in Actors : Runs'[b].repo = r =>
                            /\ Runs'[b].pc = "walked" => b = a
                            /\ Runs'[b].pc = "written" => NoNewer(Runs'[b].sha, Runs'[a].tree, r)
    BY DEF LoneRuns
  <2>1. Stays(a)  BY DEF Calm, Begun
  <2>2. Runs[a].pc = "walked" /\ Runs[a].lone /\ Runs[a].repo = r /\ Runs'[a].tree = Runs[a].tree
    BY <2>1 DEF Stays
  <2>3. r \in LocalRepos  BY <2>2, ReposOf DEF Begun, LocalInv
  <2>4. /\ row[r] # None => NoNewer(row[r].sha, Runs[a].tree, r)
        /\ \A b \in Actors : Runs[b].repo = r =>
              /\ Runs[b].pc = "walked" => b = a
              /\ Runs[b].pc = "written" => NoNewer(Runs[b].sha, Runs[a].tree, r)
    BY <2>2 DEF LocalInv, ClaimsInv, LoneRuns
  <2>5. row'[r] # None => NoNewer(row'[r].sha, Runs'[a].tree, r)  BY <2>2, <2>3, <2>4 DEF Calm
  <2>6. ASSUME NEW b \in Actors, Runs'[b].repo = r, Runs'[b].pc \in {"walked", "written"}
        PROVE  Runs[b].pc = Runs'[b].pc /\ Runs[b].repo = r /\ Runs[b].sha = Runs'[b].sha
    <3>1. Stays(b)  BY <2>6 DEF Calm, Begun
    <3> QED BY <2>6, <3>1 DEF Stays
  <2> QED BY <2>2, <2>4, <2>5, <2>6
<1> QED BY <1>4, <1>5, <1>6 DEF ClaimsInv

LEMMA WalkKeeps ==
    ASSUME LocalInv, NEW a \in Actors, NEW r \in LocalRepos, Walks(a, r)
    PROVE  ClaimsInv'
<1>0. /\ disk' = disk /\ row' = row /\ memory' = memory /\ torn' = torn
      /\ Runs'[a].pc = "walked" /\ Runs'[a].repo = r /\ Runs'[a].tree = Tree(r)
      /\ NoNewer(Runs'[a].sha, disk, r)
  BY DEF Walks
<1>1. \A o \in LocalRepos : \A f \in Files[o] : disk[f] \in Nat
  BY FilesOnDisk DEF LocalInv, TreesInv
<1>2. Tree(r) \in Version(r) /\ \A f \in Files[r] : Tree(r)[f] = disk[f]
  BY <1>1 DEF Tree, Version
<1>3. \A sha : NoNewer(sha, disk, r) => NoNewer(sha, Tree(r), r)  BY <1>2 DEF NoNewer
<1>4. RowsTrue'  BY <1>0 DEF RowsTrue, LocalInv, ClaimsInv
<1>5. ASSUME NEW b \in Actors \ {a}, Begun(Runs'[b])
      PROVE  /\ Begun(Runs[b]) /\ Runs[b].pc = Runs'[b].pc /\ Runs[b].repo = Runs'[b].repo
             /\ Runs[b].sha = Runs'[b].sha
             /\ Runs[b].pc = "walked" => Runs'[b].tree = Runs[b].tree /\ (Runs'[b].lone => Runs[b].lone)
  <2>1. Stays(b)  BY DEF Walks
  <2> QED BY <1>5, <2>1 DEF Stays, Begun
<1>6. RunsTrue'
  <2> SUFFICES ASSUME NEW b \in Actors
               PROVE  /\ Begun(Runs'[b]) => NoNewer(Runs'[b].sha, disk', Runs'[b].repo)
                      /\ Runs'[b].pc = "written" => Held(Runs'[b].sha, Runs'[b].repo, memory', torn')
                      /\ Runs'[b].pc = "walked" =>
                            /\ Runs'[b].tree \in Version(Runs'[b].repo)
                            /\ \A f \in Files[Runs'[b].repo] : Runs'[b].tree[f] <= disk'[f]
                            /\ NoNewer(Runs'[b].sha, Runs'[b].tree, Runs'[b].repo)
    BY DEF RunsTrue
  <2>1. CASE b = a
    <3>1. NoNewer(Runs'[a].sha, Tree(r), r)  BY <1>0, <1>3
    <3>2. \A f \in Files[r] : Tree(r)[f] <= disk[f]  BY <1>1, <1>2
    <3> QED BY <1>0, <1>2, <2>1, <3>1, <3>2
  <2>2. CASE b # a
    <3>1. /\ Begun(Runs[b]) => NoNewer(Runs[b].sha, disk, Runs[b].repo)
          /\ Runs[b].pc = "written" => Held(Runs[b].sha, Runs[b].repo, memory, torn)
          /\ Runs[b].pc = "walked" => /\ Runs[b].tree \in Version(Runs[b].repo)
                                      /\ \A f \in Files[Runs[b].repo] : Runs[b].tree[f] <= disk[f]
                                      /\ NoNewer(Runs[b].sha, Runs[b].tree, Runs[b].repo)
      BY DEF RunsTrue, LocalInv, ClaimsInv
    <3> QED BY <1>0, <1>5, <2>2, <3>1 DEF Begun
  <2> QED BY <2>1, <2>2
<1>7. LoneRuns'
  <2> SUFFICES ASSUME NEW c \in Actors, Runs'[c].pc = "walked", Runs'[c].lone,
                      NEW o, o = Runs'[c].repo
               PROVE  /\ row'[o] # None => NoNewer(row'[o].sha, Runs'[c].tree, o)
                      /\ \A b \in Actors : Runs'[b].repo = o =>
                            /\ Runs'[b].pc = "walked" => b = c
                            /\ Runs'[b].pc = "written" => NoNewer(Runs'[b].sha, Runs'[c].tree, o)
    BY DEF LoneRuns
  <2>1. CASE c = a
    <3>1. o = r  BY <1>0, <2>1
    <3>2. row[r] # None => NoNewer(row[r].sha, Tree(r), r)
      BY <1>3 DEF LocalInv, ClaimsInv, RowsTrue
    <3>3. ASSUME NEW b \in Actors \ {a}, Runs'[b].repo = r PROVE Runs'[b].pc # "walked"
      <4>1. ~(Runs[b].pc = "walked" /\ Runs[b].repo = r)  BY <2>1 DEF Walks
      <4> QED BY <1>5, <3>3, <4>1 DEF Begun
    <3>4. ASSUME NEW b \in Actors, Runs'[b].repo = r, Runs'[b].pc = "written"
          PROVE  NoNewer(Runs'[b].sha, Tree(r), r)
      <4>1. b # a  BY <1>0, <3>4
      <4>2. Begun(Runs[b]) /\ Runs[b].repo = r /\ Runs[b].sha = Runs'[b].sha
        BY <1>5, <3>4, <4>1 DEF Begun
      <4>3. NoNewer(Runs[b].sha, disk, r)  BY <4>2 DEF LocalInv, ClaimsInv, RunsTrue
      <4> QED BY <1>3, <4>2, <4>3
    <3> QED BY <1>0, <2>1, <3>1, <3>2, <3>3, <3>4
  <2>2. CASE c # a
    <3>1. /\ Runs[c].pc = "walked" /\ Runs[c].lone /\ Runs[c].repo = o /\ Runs'[c].tree = Runs[c].tree
      BY <1>5, <2>2 DEF Begun
    <3>2. o # r  BY <2>2, <3>1 DEF Walks
    <3>3. /\ row[o] # None => NoNewer(row[o].sha, Runs[c].tree, o)
          /\ \A b \in Actors : Runs[b].repo = o =>
                /\ Runs[b].pc = "walked" => b = c
                /\ Runs[b].pc = "written" => NoNewer(Runs[b].sha, Runs[c].tree, o)
      BY <3>1 DEF LocalInv, ClaimsInv, LoneRuns
    <3>4. ASSUME NEW b \in Actors, Runs'[b].repo = o, Runs'[b].pc \in {"walked", "written"}
          PROVE  Runs[b].repo = o /\ Runs[b].pc = Runs'[b].pc /\ Runs[b].sha = Runs'[b].sha
      <4>1. b # a  BY <1>0, <3>2, <3>4
      <4> QED BY <1>5, <3>4, <4>1 DEF Begun
    <3> QED BY <1>0, <3>1, <3>3, <3>4
  <2> QED BY <2>1, <2>2
<1> QED BY <1>4, <1>6, <1>7 DEF ClaimsInv

(* A write: of the run that has the repository for itself it is no older   *)
(* than whatever is claimed; after any other all files are torn.           *)
LEMMA WriteKeeps ==
    ASSUME LocalInv, NEW a \in Actors, NEW r \in LocalRepos, NEW kept, WritesRun(a, r, kept)
    PROVE  ClaimsInv'
<1>0. /\ disk' = disk /\ row' = row
      /\ Runs[a].pc = "walked" /\ Runs[a].repo = r
      /\ \A o \in LocalRepos \ {r} : memory'[o] = memory[o] /\ torn'[o] = torn[o]
      /\ \A f \in Files[r] \ kept : memory'[r][f] = Runs[a].tree[f]
      /\ Runs[a].lone => torn'[r] = kept
      /\ ~Runs[a].lone => torn'[r] = Files[r]
      /\ Begun(Runs'[a]) => Runs'[a].pc = "written" /\ Runs'[a].repo = r /\ Runs'[a].sha = Runs[a].sha
      /\ \A b \in Actors \ {a} : Stays(b)
  BY DEF WritesRun
<1>1. ASSUME NEW sha, NoNewer(sha, Runs[a].tree, r) \/ ~Runs[a].lone
      PROVE  Held(sha, r, memory', torn')
  <2>1. CASE ~Runs[a].lone
    <3>1. Files[r] \ torn'[r] = {}  BY <1>0, <2>1
    <3> QED BY <3>1 DEF Held
  <2>2. CASE Runs[a].lone /\ NoNewer(sha, Runs[a].tree, r)
    <3>1. \A f \in Files[r] \ torn'[r] : memory'[r][f] = Runs[a].tree[f]  BY <1>0, <2>2
    <3> QED BY <2>2, <3>1 DEF Held, NoNewer
  <2> QED BY <1>1, <2>1, <2>2
<1>2. ASSUME NEW o \in LocalRepos, o # r, NEW sha, Held(sha, o, memory, torn)
      PROVE  Held(sha, o, memory', torn')
  BY <1>0, <1>2 DEF Held
<1>3. /\ NoNewer(Runs[a].sha, disk, r) /\ NoNewer(Runs[a].sha, Runs[a].tree, r)
  BY <1>0 DEF LocalInv, ClaimsInv, RunsTrue, Begun
<1>4. Runs[a].lone =>
         /\ row[r] # None => NoNewer(row[r].sha, Runs[a].tree, r)
         /\ \A b \in Actors : Runs[b].repo = r =>
               /\ Runs[b].pc = "walked" => b = a
               /\ Runs[b].pc = "written" => NoNewer(Runs[b].sha, Runs[a].tree, r)
  BY <1>0 DEF LocalInv, ClaimsInv, LoneRuns
<1>5. RowsTrue'
  <2> SUFFICES ASSUME NEW o \in LocalRepos, row'[o] # None
               PROVE  NoNewer(row'[o].sha, disk', o) /\ Held(row'[o].sha, o, memory', torn')
    BY DEF RowsTrue
  <2>1. NoNewer(row[o].sha, disk, o) /\ Held(row[o].sha, o, memory, torn)
    BY <1>0 DEF LocalInv, ClaimsInv, RowsTrue
  <2>2. Held(row[o].sha, o, memory', torn')
    <3>1. CASE o = r  BY <1>0, <1>1, <1>4, <3>1
    <3>2. CASE o # r  BY <1>2, <2>1, <3>2
    <3> QED BY <3>1, <3>2
  <2> QED BY <1>0, <2>1, <2>2
<1>6. ASSUME NEW b \in Actors \ {a}, Begun(Runs'[b])
      PROVE  /\ Begun(Runs[b]) /\ Runs[b].pc = Runs'[b].pc /\ Runs[b].repo = Runs'[b].repo
             /\ Runs[b].sha = Runs'[b].sha /\ Runs[b].repo \in LocalRepos
             /\ Runs[b].pc = "walked" => Runs'[b].tree = Runs[b].tree /\ (Runs'[b].lone => Runs[b].lone)
  <2>1. Stays(b)  BY <1>0
  <2>2. Begun(Runs[b])  BY <1>6, <2>1 DEF Stays, Begun
  <2>3. Runs[b].repo \in LocalRepos  BY <2>2, ReposOf DEF LocalInv
  <2> QED BY <1>6, <2>1, <2>2, <2>3 DEF Stays
<1>7. RunsTrue'
  <2> SUFFICES ASSUME NEW b \in Actors
               PROVE  /\ Begun(Runs'[b]) => NoNewer(Runs'[b].sha, disk', Runs'[b].repo)
                      /\ Runs'[b].pc = "written" => Held(Runs'[b].sha, Runs'[b].repo, memory', torn')
                      /\ Runs'[b].pc = "walked" =>
                            /\ Runs'[b].tree \in Version(Runs'[b].repo)
                            /\ \A f \in Files[Runs'[b].repo] : Runs'[b].tree[f] <= disk'[f]
                            /\ NoNewer(Runs'[b].sha, Runs'[b].tree, Runs'[b].repo)
    BY DEF RunsTrue
  <2>1. CASE ~Begun(Runs'[b])  BY <2>1 DEF Begun
  <2>2. CASE b = a /\ Begun(Runs'[a])
    <3>1. Held(Runs[a].sha, r, memory', torn')  BY <1>1, <1>3
    <3> QED BY <1>0, <1>3, <2>2, <3>1
  <2>3. CASE b # a /\ Begun(Runs'[b])
    <3>1. /\ Begun(Runs[b]) => NoNewer(Runs[b].sha, disk, Runs[b].repo)
          /\ Runs[b].pc = "written" => Held(Runs[b].sha, Runs[b].repo, memory, torn)
          /\ Runs[b].pc = "walked" => /\ Runs[b].tree \in Version(Runs[b].repo)
                                      /\ \A f \in Files[Runs[b].repo] : Runs[b].tree[f] <= disk[f]
                                      /\ NoNewer(Runs[b].sha, Runs[b].tree, Runs[b].repo)
      BY DEF RunsTrue, LocalInv, ClaimsInv
    <3>2. Runs[b].pc = "written" => Held(Runs[b].sha, Runs[b].repo, memory', torn')
      <4>1. CASE Runs[b].repo = r  BY <1>1, <1>4, <4>1
      <4>2. CASE Runs[b].repo # r  BY <1>2, <1>6, <2>3, <3>1, <4>2
      <4> QED BY <4>1, <4>2
    <3> QED BY <1>0, <1>6, <2>3, <3>1, <3>2
  <2> QED BY <2>1, <2>2, <2>3
<1>8. LoneRuns'
  <2> SUFFICES ASSUME NEW c \in Actors, Runs'[c].pc = "walked", Runs'[c].lone,
                      NEW o, o = Runs'[c].repo
               PROVE  /\ row'[o] # None => NoNewer(row'[o].sha, Runs'[c].tree, o)
                      /\ \A b \in Actors : Runs'[b].repo = o =>
                            /\ Runs'[b].pc = "walked" => b = c
                            /\ Runs'[b].pc = "written" => NoNewer(Runs'[b].sha, Runs'[c].tree, o)
    BY DEF LoneRuns
  <2>1. c # a  BY <1>0 DEF Begun
  <2>2. /\ Runs[c].pc = "walked" /\ Runs[c].lone /\ Runs[c].repo = o /\ Runs'[c].tree = Runs[c].tree
    BY <1>6, <2>1 DEF Begun
  <2>3. /\ row[o] # None => NoNewer(row[o].sha, Runs[c].tree, o)
        /\ \A b \in Actors : Runs[b].repo = o =>
              /\ Runs[b].pc = "walked" => b = c
              /\ Runs[b].pc = "written" => NoNewer(Runs[b].sha, Runs[c].tree, o)
    BY <2>2 DEF LocalInv, ClaimsInv, LoneRuns
  <2>4. o # r  BY <1>0, <2>1, <2>3
  <2>5. ASSUME NEW b \in Actors, Runs'[b].repo = o, Runs'[b].pc \in {"walked", "written"}
        PROVE  Runs[b].repo = o /\ Runs[b].pc = Runs'[b].pc /\ Runs[b].sha = Runs'[b].sha
    <3>1. b # a  BY <1>0, <2>4, <2>5 DEF Begun
    <3> QED BY <1>6, <2>5, <3>1 DEF Begun
  <2> QED BY <1>0, <2>2, <2>3, <2>5
<1> QED BY <1>5, <1>7, <1>8 DEF ClaimsInv

LEMMA ClaimKeeps ==
    ASSUME LocalInv, NEW a \in Actors, NEW r \in LocalRepos, Claims(a, r)
    PROVE  ClaimsInv'
<1>0. /\ disk' = disk /\ memory' = memory /\ torn' = torn
      /\ Runs[a].pc = "written" /\ Runs[a].repo = r
      /\ row'[r] # None => row'[r].sha = Runs[a].sha
      /\ \A o \in LocalRepos \ {r} : row'[o] = row[o]
      /\ ~Begun(Runs'[a])
  BY DEF Claims
<1>1. NoNewer(Runs[a].sha, disk, r) /\ Held(Runs[a].sha, r, memory, torn)
  BY <1>0 DEF LocalInv, ClaimsInv, RunsTrue, Begun
<1>2. RowsTrue'
  <2> SUFFICES ASSUME NEW o \in LocalRepos, row'[o] # None
               PROVE  NoNewer(row'[o].sha, disk', o) /\ Held(row'[o].sha, o, memory', torn')
    BY DEF RowsTrue
  <2>1. CASE o = r  BY <1>0, <1>1, <2>1
  <2>2. CASE o # r
    <3>1. row'[o] = row[o]  BY <1>0, <2>2
    <3>2. NoNewer(row[o].sha, disk, o) /\ Held(row[o].sha, o, memory, torn)
      BY <3>1 DEF LocalInv, ClaimsInv, RowsTrue
    <3> QED BY <1>0, <3>1, <3>2
  <2> QED BY <2>1, <2>2
<1>3. ASSUME NEW b \in Actors, Begun(Runs'[b])
      PROVE  /\ Begun(Runs[b]) /\ Runs[b].pc = Runs'[b].pc /\ Runs[b].repo = Runs'[b].repo
             /\ Runs[b].sha = Runs'[b].sha /\ Runs[b].repo \in LocalRepos
             /\ Runs[b].pc = "walked" => Runs'[b].tree = Runs[b].tree /\ (Runs'[b].lone => Runs[b].lone)
  <2>1. Stays(b)  BY <1>0, <1>3 DEF Claims
  <2>2. Begun(Runs[b])  BY <1>3, <2>1 DEF Stays, Begun
  <2>3. Runs[b].repo \in LocalRepos  BY <2>2, ReposOf DEF LocalInv
  <2> QED BY <1>3, <2>1, <2>2, <2>3 DEF Stays
<1>4. RunsTrue'
  <2> SUFFICES ASSUME NEW b \in Actors, Begun(Runs'[b])
               PROVE  /\ NoNewer(Runs'[b].sha, disk', Runs'[b].repo)
                      /\ Runs'[b].pc = "written" => Held(Runs'[b].sha, Runs'[b].repo, memory', torn')
                      /\ Runs'[b].pc = "walked" =>
                            /\ Runs'[b].tree \in Version(Runs'[b].repo)
                            /\ \A f \in Files[Runs'[b].repo] : Runs'[b].tree[f] <= disk'[f]
                            /\ NoNewer(Runs'[b].sha, Runs'[b].tree, Runs'[b].repo)
    BY DEF RunsTrue, Begun
  <2>1. /\ NoNewer(Runs[b].sha, disk, Runs[b].repo)
        /\ Runs[b].pc = "written" => Held(Runs[b].sha, Runs[b].repo, memory, torn)
        /\ Runs[b].pc = "walked" => /\ Runs[b].tree \in Version(Runs[b].repo)
                                    /\ \A f \in Files[Runs[b].repo] : Runs[b].tree[f] <= disk[f]
                                    /\ NoNewer(Runs[b].sha, Runs[b].tree, Runs[b].repo)
    BY <1>3 DEF RunsTrue, LocalInv, ClaimsInv
  <2> QED BY <1>0, <1>3, <2>1
<1>5. LoneRuns'
  <2> SUFFICES ASSUME NEW c \in Actors, Runs'[c].pc = "walked", Runs'[c].lone,
                      NEW o, o = Runs'[c].repo
               PROVE  /\ row'[o] # None => NoNewer(row'[o].sha, Runs'[c].tree, o)
                      /\ \A b \in Actors : Runs'[b].repo = o =>
                            /\ Runs'[b].pc = "walked" => b = c
                            /\ Runs'[b].pc = "written" => NoNewer(Runs'[b].sha, Runs'[c].tree, o)
    BY DEF LoneRuns
  <2>1. /\ Runs[c].pc = "walked" /\ Runs[c].lone /\ Runs[c].repo = o /\ Runs'[c].tree = Runs[c].tree
        /\ o \in LocalRepos
    BY <1>3 DEF Begun
  <2>2. /\ row[o] # None => NoNewer(row[o].sha, Runs[c].tree, o)
        /\ \A b \in Actors : Runs[b].repo = o =>
              /\ Runs[b].pc = "walked" => b = c
              /\ Runs[b].pc = "written" => NoNewer(Runs[b].sha, Runs[c].tree, o)
    BY <2>1 DEF LocalInv, ClaimsInv, LoneRuns
  <2>3. row'[o] # None => NoNewer(row'[o].sha, Runs'[c].tree, o)
    <3>1. CASE o = r  BY <1>0, <2>1, <2>2, <3>1
    <3>2. CASE o # r  BY <1>0, <2>1, <2>2, <3>2
    <3> QED BY <3>1, <3>2
  <2> QED BY <1>3, <2>1, <2>2, <2>3 DEF Begun
<1> QED BY <1>2, <1>4, <1>5 DEF ClaimsInv

---------------------------------------------------------------------------
(* Which step each action is.                                              *)

LEMMA RunsAre ==
    /\ None \in Actors /\ Runs[None] = watcher /\ Runs'[None] = watcher'
    /\ \A s \in LocalSlots : s \in Actors \ {None} /\ Runs[s] = request[s] /\ Runs'[s] = request'[s]
    /\ \A a \in Actors : a = None \/ a \in LocalSlots
BY LocalAssumption DEF Runs, Actors

(* A step of the watcher outside a run, or one that ends it.               *)
LEMMA WatcherCalm ==
    ASSUME LocalInv, UNCHANGED <<disk, head, row, memory, torn, request>>, WatcherShape',
           watcher' = watcher \/ ~Begun(watcher')
    PROVE  LocalInv'
<1>1. TreesInv' /\ RequestShape'  BY DEF LocalInv, TreesInv, RequestShape
<1>2. \A s \in LocalSlots : Stays(s)  BY RunsAre DEF Stays
<1>3. Begun(Runs'[None]) => Stays(None)  BY RunsAre DEF Stays
<1>4. disk \in [AllFiles -> Nat] /\ \A f \in AllFiles : disk[f] <= disk[f]
  BY DEF LocalInv, TreesInv
<1>5. Calm  BY <1>2, <1>3, <1>4, RunsAre DEF Calm
<1>6. ClaimsInv'  BY <1>5, CalmKeeps
<1> QED BY <1>1, <1>6 DEF LocalInv

(* Repositories picked from the list of all.                               *)
LEMMA SomeRepos ==
    ASSUME NEW at \in SUBSET DOMAIN Order
    PROVE  Picked(Order, at) \in Seq(LocalRepos)
<1>1. Order \in Seq(LocalRepos)  BY LocalAssumption
<1>2. PICK f \in [1..Cardinality(at) -> at] :
         /\ Cardinality(at) \in Nat /\ IsFiniteSet(at)
         /\ Picked(Order, at) = [k \in 1..Cardinality(at) |-> Order[f[k]]]
         /\ \A i \in at : \E k \in 1..Cardinality(at) : f[k] = i
         /\ \A k, m \in 1..Cardinality(at) : (k < m <=> f[k] < f[m]) /\ (f[k] = f[m] => k = m)
  BY <1>1, PickedSorts
<1>3. PICK n \in Nat : n = Cardinality(at)  BY <1>2
<1>4. \A k \in 1..n : Order[f[k]] \in LocalRepos  BY <1>2, <1>3 DEF LocalRepos
<1>5. Picked(Order, at) \in [1..n -> LocalRepos]  BY <1>2, <1>3, <1>4
<1> QED BY <1>5, <1>3, FunctionIsSequence

LEMMA LocalStart == LocalInit => LocalInv
<1> SUFFICES ASSUME LocalInit PROVE LocalInv  OBVIOUS
<1>1. /\ disk = [f \in AllFiles |-> 0]
      /\ head = [r \in LocalRepos |-> Tree(r)] /\ memory = [r \in LocalRepos |-> Tree(r)]
      /\ row = [r \in LocalRepos |-> [watch |-> TRUE, sha |-> AutoSha]]
      /\ watcher = Idle /\ request = [s \in LocalSlots |-> Idle]
      /\ torn = [r \in LocalRepos |-> {}]
  BY DEF LocalInit
<1>2. \A r \in LocalRepos : Tree(r) \in Version(r) /\ \A f \in Files[r] : Tree(r)[f] = 0 /\ disk[f] = 0
  BY <1>1, FilesOnDisk DEF Tree, Version
<1>3. TreesInv
  <2>1. \A r \in LocalRepos :
           head[r] \in Version(r) /\ \A f \in Files[r] : head[r][f] <= disk[f]
    BY <1>1, <1>2
  <2>2. \A r \in LocalRepos : row[r] = [watch |-> row[r].watch, sha |-> row[r].sha]  BY <1>1
  <2>3. \A r \in LocalRepos : memory[r] = [f \in Files[r] |-> memory[r][f]]
    <3>1. \A r \in LocalRepos : Tree(r) = [f \in Files[r] |-> Tree(r)[f]]  BY DEF Tree
    <3>2. \A r \in LocalRepos : memory[r] = Tree(r)  BY <1>1
    <3> QED BY <3>1, <3>2
  <2> QED BY <1>1, <2>1, <2>2, <2>3 DEF TreesInv
<1>4. Idle.pc = "idle"  BY DEF Idle
<1>5. \A a \in Actors : Runs[a] = Idle  BY <1>1 DEF Runs, Actors
<1>6. WatcherShape /\ RequestShape  BY <1>1, <1>4 DEF WatcherShape, RequestShape
<1>7. RowsTrue  BY <1>1 DEF RowsTrue, NoNewer, Held
<1>8. RunsTrue /\ LoneRuns  BY <1>4, <1>5 DEF RunsTrue, LoneRuns, Begun
<1> QED BY <1>3, <1>6, <1>7, <1>8 DEF LocalInv, ClaimsInv

(* The files, and what does not touch a run.                               *)
LEMMA EditStep ==
    ASSUME LocalInv, NEW f \in AllFiles, Edit(f) \/ Delete(f)
    PROVE  LocalInv'
<1>1. /\ disk' = [disk EXCEPT ![f] = @ + 1] /\ head' = head /\ row' = row /\ memory' = memory
      /\ torn' = torn /\ watcher' = watcher /\ request' = request
  BY DEF Edit, Delete
<1>2. disk' \in [AllFiles -> Nat] /\ \A g \in AllFiles : disk[g] <= disk'[g]
  BY <1>1 DEF LocalInv, TreesInv
<1>3. \A a \in Actors : Stays(a)  BY <1>1, RunsAre DEF Stays
<1>4. Calm  BY <1>1, <1>2, <1>3 DEF Calm
<1>5. TreesInv'
  <2>1. \A r \in LocalRepos : \A g \in Files[r] : head[r][g] <= disk'[g]
    <3> SUFFICES ASSUME NEW r \in LocalRepos, NEW g \in Files[r] PROVE head[r][g] <= disk'[g]  OBVIOUS
    <3>1. g \in AllFiles /\ head[r][g] \in Nat /\ head[r][g] <= disk[g]
      BY FilesOnDisk DEF LocalInv, TreesInv, Version
    <3>2. disk[g] \in Nat /\ disk'[g] \in Nat /\ disk[g] <= disk'[g]
      BY <1>2, <3>1 DEF LocalInv, TreesInv
    <3> QED BY <3>1, <3>2
  <2> QED BY <1>1, <1>2, <2>1 DEF LocalInv, TreesInv
<1>6. WatcherShape' /\ RequestShape'  BY <1>1 DEF LocalInv, WatcherShape, RequestShape
<1> QED BY <1>4, <1>5, <1>6, CalmKeeps DEF LocalInv

LEMMA CommitStep ==
    ASSUME LocalInv, NEW r \in LocalRepos, Commit(r)
    PROVE  LocalInv'
<1>1. /\ head' = [head EXCEPT ![r] = Tree(r)] /\ disk' = disk /\ row' = row /\ memory' = memory
      /\ torn' = torn /\ watcher' = watcher /\ request' = request
  BY DEF Commit, ghosts
<1>2. disk \in [AllFiles -> Nat] /\ \A f \in AllFiles : disk[f] <= disk[f]
  BY DEF LocalInv, TreesInv
<1>3. \A a \in Actors : Stays(a)  BY <1>1, RunsAre DEF Stays
<1>4. Calm  BY <1>1, <1>2, <1>3 DEF Calm
<1>5. TreesInv'
  <2>1. Tree(r) \in Version(r) /\ \A f \in Files[r] : Tree(r)[f] <= disk[f]
    BY <1>2, FilesOnDisk DEF Tree, Version
  <2>2. head' = [o \in LocalRepos |-> head'[o]] /\ head'[r] = Tree(r)
        /\ \A o \in LocalRepos : o # r => head'[o] = head[o]
    BY <1>1 DEF LocalInv, TreesInv
  <2> QED BY <1>1, <2>1, <2>2 DEF LocalInv, TreesInv
<1>6. WatcherShape' /\ RequestShape'  BY <1>1 DEF LocalInv, WatcherShape, RequestShape
<1> QED BY <1>4, <1>5, <1>6, CalmKeeps DEF LocalInv

\* A row that is paused, resumed or removed.
LEMMA RowStep ==
    ASSUME LocalInv, NEW r \in LocalRepos, ToggleWatch(r) \/ RemoveLocal(r)
    PROVE  LocalInv'
<1>1. /\ head' = head /\ disk' = disk /\ memory' = memory
      /\ torn' = torn /\ watcher' = watcher /\ request' = request /\ row[r] # None
  BY DEF ToggleWatch, RemoveLocal, ghosts
<1>2. row[r] = [watch |-> row[r].watch, sha |-> row[r].sha]  BY <1>1 DEF LocalInv, TreesInv
<1>3. /\ row' = [o \in LocalRepos |-> row'[o]]
      /\ \A o \in LocalRepos : o # r => row'[o] = row[o]
      /\ row'[r] # None => row'[r] = [watch |-> row'[r].watch, sha |-> row[r].sha]
  <2>1. CASE ToggleWatch(r)
    <3>1. row' = [row EXCEPT ![r].watch = ~@]  BY <2>1 DEF ToggleWatch
    <3>2. row' = [row EXCEPT ![r] = [row[r] EXCEPT !.watch = ~row[r].watch]]  BY <3>1
    <3>3. [row[r] EXCEPT !.watch = ~row[r].watch] = [watch |-> ~row[r].watch, sha |-> row[r].sha]
      BY <1>2
    <3>4. row' = [row EXCEPT ![r] = [watch |-> ~row[r].watch, sha |-> row[r].sha]]  BY <3>2, <3>3
    <3> QED BY <3>4 DEF LocalInv, TreesInv
  <2>2. CASE RemoveLocal(r)
    <3>1. row' = [row EXCEPT ![r] = None]  BY <2>2 DEF RemoveLocal
    <3> QED BY <3>1 DEF LocalInv, TreesInv
  <2> QED BY <2>1, <2>2
<1>4. TreesInv'
  <2>1. \A o \in LocalRepos : row'[o] # None => row'[o] = [watch |-> row'[o].watch, sha |-> row'[o].sha]
    <3> SUFFICES ASSUME NEW o \in LocalRepos, row'[o] # None
                 PROVE  row'[o] = [watch |-> row'[o].watch, sha |-> row'[o].sha]
      OBVIOUS
    <3>1. CASE o = r  BY <1>3, <3>1
    <3>2. CASE o # r  BY <1>3, <3>2 DEF LocalInv, TreesInv
    <3> QED BY <3>1, <3>2
  <2> QED BY <1>1, <1>3, <2>1 DEF LocalInv, TreesInv
<1>5. \A o \in LocalRepos : row'[o] # None => row[o] # None /\ row'[o].sha = row[o].sha
  BY <1>1, <1>3
<1>6. disk \in [AllFiles -> Nat] /\ \A f \in AllFiles : disk[f] <= disk[f]
  BY DEF LocalInv, TreesInv
<1>7. \A a \in Actors : Stays(a)  BY <1>1, RunsAre DEF Stays
<1>8. Calm  BY <1>1, <1>5, <1>6, <1>7 DEF Calm
<1>9. WatcherShape' /\ RequestShape'  BY <1>1 DEF LocalInv, WatcherShape, RequestShape
<1> QED BY <1>4, <1>8, <1>9, CalmKeeps DEF LocalInv

(* A run that dies: what it wrote is no older than what is claimed if it    *)
(* had the repository for itself, and the rows it lost are torn.           *)
LEMMA CrashStep ==
    ASSUME LocalInv, Crash
    PROVE  LocalInv'
<1>1. /\ head' = head /\ disk' = disk /\ row' = row
      /\ watcher' = Idle /\ request' = [s \in LocalSlots |-> Idle]
  BY DEF Crash
<1>2. PICK left :
         /\ \A r \in LocalRepos : \A f \in Files[r] : left[<<r, f>>] \in Left(r, f)
         /\ memory' = [r \in LocalRepos |-> [f \in Files[r] |-> left[<<r, f>>]]]
         /\ torn' = [r \in LocalRepos |-> torn[r] \union Cut(r, left)]
  BY DEF Crash
<1>3. Idle.pc = "idle"  BY DEF Idle
<1>4. \A a \in Actors : ~Begun(Runs'[a])  BY <1>1, <1>3, RunsAre DEF Begun
<1>5. WatcherShape' /\ RequestShape'  BY <1>1, <1>3 DEF WatcherShape, RequestShape
<1>6. TreesInv'
  <2>1. /\ memory' = [r \in LocalRepos |-> memory'[r]] /\ torn' = [r \in LocalRepos |-> torn'[r]]
        /\ \A r \in LocalRepos : memory'[r] = [f \in Files[r] |-> memory'[r][f]]
    BY <1>2
  <2> QED BY <1>1, <2>1 DEF LocalInv, TreesInv
<1>7. RowsTrue'
  <2> SUFFICES ASSUME NEW r \in LocalRepos, row[r] # None
               PROVE  NoNewer(row[r].sha, disk, r) /\ Held(row[r].sha, r, memory', torn')
    BY <1>1 DEF RowsTrue
  <2>1. NoNewer(row[r].sha, disk, r) /\ Held(row[r].sha, r, memory, torn)
    BY DEF LocalInv, ClaimsInv, RowsTrue
  <2> SUFFICES ASSUME row[r].sha # AutoSha, NEW f \in Files[r], f \notin torn'[r]
               PROVE  row[r].sha[f] <= memory'[r][f]
    BY <2>1 DEF Held
  <2>2. f \notin torn[r] /\ f \notin Cut(r, left) /\ memory'[r][f] = left[<<r, f>>]  BY <1>2
  <2>3. left[<<r, f>>] \in Left(r, f)  BY <1>2
  <2>4. CASE left[<<r, f>>] = memory[r][f]  BY <2>1, <2>2, <2>4 DEF Held
  <2>5. CASE left[<<r, f>>] # memory[r][f]
    <3>1. /\ ~\E a \in Dying(r) : ~RunOf(a).lone
          /\ left[<<r, f>>] # None
      BY <2>2 DEF Cut
    <3>2. PICK a \in Dying(r) : left[<<r, f>>] = RunOf(a).tree[f]  BY <2>3, <2>5, <3>1 DEF Left
    <3>3. /\ a \in Actors /\ RunOf(a) = Runs[a] /\ RunOf(a).lone
          /\ RunOf(a).pc = "walked" /\ RunOf(a).repo = r
      BY <3>1, <3>2 DEF Dying, RunOf, Runs, Actors, Walking
    <3>4. NoNewer(row[r].sha, Runs[a].tree, r)  BY <3>3 DEF LocalInv, ClaimsInv, LoneRuns
    <3> QED BY <2>2, <3>2, <3>3, <3>4 DEF NoNewer
  <2> QED BY <2>4, <2>5
<1>8. RunsTrue' /\ LoneRuns'  BY <1>4 DEF RunsTrue, LoneRuns, Begun
<1> QED BY <1>5, <1>6, <1>7, <1>8 DEF LocalInv, ClaimsInv

---------------------------------------------------------------------------
(* The watcher.                                                            *)

LEMMA WatcherOutsideRun ==
    ASSUME LocalInv, TakeBatch \/ ResolveRepoIds \/ NextRepo \/ BatchFails
    PROVE  LocalInv'
<1>1. UNCHANGED <<disk, head, row, memory, torn, request>>
  BY DEF TakeBatch, ResolveRepoIds, NextRepo, BatchFails
<1>2. Idle.pc = "idle"  BY DEF Idle
<1>3. WatcherShape' /\ (watcher' = watcher \/ ~Begun(watcher'))
  <2>1. CASE watcher' = watcher  BY <2>1 DEF LocalInv, WatcherShape
  <2>2. CASE watcher' = Idle  BY <1>2, <2>2 DEF WatcherShape, Begun
  <2>3. CASE watcher' = [pc |-> "resolve", batch |-> pending]  BY <2>3 DEF WatcherShape, Begun
  <2>4. CASE ResolveRepoIds
    <3>1. PICK at \in SUBSET DOMAIN Order :
             watcher' = [pc |-> "next", batch |-> watcher.batch, todo |-> Picked(Order, at)]
      BY <2>4 DEF ResolveRepoIds
    <3>2. Picked(Order, at) \in Seq(LocalRepos)  BY SomeRepos
    <3> QED BY <3>1, <3>2 DEF WatcherShape, Begun
  <2>5. CASE NextRepo /\ watcher' # Idle
    <3>1. watcher.pc = "next" /\ watcher.todo # <<>> /\ watcher.todo \in Seq(LocalRepos)
      BY <2>5 DEF NextRepo, LocalInv, WatcherShape
    <3>2. \/ watcher' = [pc |-> "head", batch |-> watcher.batch, todo |-> watcher.todo]
          \/ watcher' = [pc |-> "next", batch |-> watcher.batch, todo |-> Tail(watcher.todo)]
      BY <2>5, <3>1 DEF NextRepo
    <3>3. Tail(watcher.todo) \in Seq(LocalRepos)  BY <3>1
    <3> QED BY <3>1, <3>2, <3>3 DEF WatcherShape, Begun
  <2> QED BY <2>1, <2>2, <2>3, <2>4, <2>5 DEF TakeBatch, BatchFails
<1> QED BY <1>1, <1>3, WatcherCalm

LEMMA CommitShaStep ==
    ASSUME LocalInv, CommitSha
    PROVE  LocalInv'
<1>1. /\ head' = head /\ disk' = disk /\ memory' = memory /\ row' = row /\ torn' = torn
      /\ request' = request /\ watcher.pc = "head"
  BY DEF CommitSha, ghosts
<1>2. PICK r : r = Head(watcher.todo)  OBVIOUS
<1>3. watcher.todo \in Seq(LocalRepos) /\ watcher.todo # <<>>  BY <1>1 DEF LocalInv, WatcherShape
<1>4. r \in LocalRepos /\ Tail(watcher.todo) \in Seq(LocalRepos)  BY <1>2, <1>3
<1>5. PICK sha \in {head[r], AutoSha} :
         watcher' = [pc |-> "locked", batch |-> watcher.batch, todo |-> Tail(watcher.todo),
                     repo |-> r, sha |-> sha]
  BY <1>2 DEF CommitSha
<1>6. NoNewer(sha, disk, r)  BY <1>4 DEF NoNewer, LocalInv, TreesInv
<1>7. WatcherShape'  BY <1>4, <1>5 DEF WatcherShape
<1>8. RequestShape' /\ TreesInv'  BY <1>1 DEF LocalInv, RequestShape, TreesInv
<1>9. Calm
  <2>1. disk \in [AllFiles -> Nat] /\ \A f \in AllFiles : disk[f] <= disk[f]
    BY DEF LocalInv, TreesInv
  <2>2. \A s \in LocalSlots : Stays(s)  BY <1>1, RunsAre DEF Stays
  <2>3. Runs'[None].pc = "locked" /\ NoNewer(Runs'[None].sha, disk', Runs'[None].repo)
    BY <1>1, <1>5, <1>6, RunsAre
  <2> QED BY <1>1, <2>1, <2>2, <2>3, RunsAre DEF Calm
<1> QED BY <1>7, <1>8, <1>9, CalmKeeps DEF LocalInv
(* What a walk does to the other runs.                                     *)
Marked(old, new, r) ==
    /\ new.pc = old.pc /\ new.repo = old.repo /\ new.sha = old.sha
    /\ old.pc = "walked" => new.tree = old.tree /\ (new.lone => old.lone)
    /\ old.pc = "walked" /\ old.repo = r => ~new.lone
    /\ old.pc # "walked" => new = old

MarksRequests(new, r, s) ==
    /\ new = [o \in LocalSlots |-> new[o]]
    /\ \A o \in LocalSlots : o # s => Marked(request[o], new[o], r)
    /\ \A o \in LocalSlots :
          \/ new[o] = request[o]
          \/ request[o].pc = "walked" /\ new[o] = [request[o] EXCEPT !.lone = FALSE]

LEMMA LoneFalls ==
    ASSUME NEW run, NEW r, run.pc = "walked", run.repo = r, NEW k, NEW b, NEW q,
           \/ run = [pc |-> run.pc, kind |-> k, repo |-> run.repo,
                     sha |-> run.sha, tree |-> run.tree, absent |-> run.absent, lone |-> run.lone]
           \/ run = [pc |-> run.pc, batch |-> b, todo |-> q, repo |-> run.repo,
                     sha |-> run.sha, tree |-> run.tree, absent |-> run.absent, lone |-> run.lone]
    PROVE  Marked(run, [run EXCEPT !.lone = FALSE], r)
<1> DEFINE new == [run EXCEPT !.lone = FALSE]
<1>1. "lone" \in DOMAIN run  OBVIOUS
<1>2. new.lone = FALSE  BY <1>1
<1>3. new.pc = run.pc /\ new.repo = run.repo /\ new.sha = run.sha /\ new.tree = run.tree  OBVIOUS
<1> QED BY <1>2, <1>3 DEF Marked

LEMMA MarkedStays ==
    ASSUME NEW a \in Actors, NEW r, Marked(Runs[a], Runs'[a], r)
    PROVE  Stays(a) /\ (Runs[a].pc = "walked" /\ Runs[a].repo = r => ~Runs'[a].lone)
BY DEF Marked, Stays

LEMMA RequestsMarked ==
    ASSUME LocalInv, NEW r \in LocalRepos, NEW s, NEW marks, marks = Overlaps(r, s)
    PROVE  MarksRequests(marks.request, r, s)
<1>1. marks.request = [o \in LocalSlots |-> IF o \in Others(r, s) THEN [request[o] EXCEPT !.lone = FALSE]
                                          ELSE request[o]]
  BY DEF Overlaps
<1>2. Idle.pc = "idle"  BY DEF Idle
<1>3. ASSUME NEW o \in LocalSlots, o \in Others(r, s)
      PROVE  /\ request[o].pc = "walked" /\ request[o].repo = r
             /\ Marked(request[o], [request[o] EXCEPT !.lone = FALSE], r)
  <2>1. request[o].pc = "walked" /\ request[o].repo = r  BY <1>3 DEF Others, Walking
  <2>2. request[o] = [pc |-> request[o].pc, kind |-> request[o].kind, repo |-> request[o].repo,
                      sha |-> request[o].sha, tree |-> request[o].tree, absent |-> request[o].absent,
                      lone |-> request[o].lone]
    BY <1>2, <2>1 DEF LocalInv, RequestShape
  <2> QED BY <2>1, <2>2, LoneFalls
<1>4. ASSUME NEW o \in LocalSlots, o # s, o \notin Others(r, s)
      PROVE  Marked(request[o], request[o], r)
  BY <1>4 DEF Marked, Others, Walking
<1> QED BY <1>1, <1>3, <1>4 DEF MarksRequests

LEMMA WatcherMarked ==
    ASSUME LocalInv, NEW r \in LocalRepos, NEW s \in LocalSlots, NEW marks, marks = Overlaps(r, s)
    PROVE  /\ Marked(watcher, marks.watcher, r)
           /\ \/ marks.watcher = watcher
              \/ watcher.pc = "walked" /\ marks.watcher = [watcher EXCEPT !.lone = FALSE]
<1>1. s # None  BY LocalAssumption
<1>2. CASE watcher.pc = "walked" /\ watcher.repo = r
  <2>1. marks.watcher = [watcher EXCEPT !.lone = FALSE]  BY <1>1, <1>2 DEF Overlaps, Walking
  <2>2. watcher = [pc |-> watcher.pc, batch |-> watcher.batch, todo |-> watcher.todo,
                   repo |-> watcher.repo, sha |-> watcher.sha, tree |-> watcher.tree,
                   absent |-> watcher.absent, lone |-> watcher.lone]
    BY <1>2 DEF LocalInv, WatcherShape
  <2>3. Marked(watcher, [watcher EXCEPT !.lone = FALSE], r)  BY <1>2, <2>2, LoneFalls
  <2> QED BY <1>2, <2>1, <2>3
<1>3. CASE ~(watcher.pc = "walked" /\ watcher.repo = r)
  <2>1. marks.watcher = watcher  BY <1>3 DEF Overlaps, Walking
  <2> QED BY <1>3, <2>1 DEF Marked
<1> QED BY <1>2, <1>3

LEMMA LoneAlone ==
    ASSUME NEW r, NEW s \in Actors, NEW marks, marks = Overlaps(r, s)
    PROVE  marks.lone => \A b \in Actors \ {s} : ~(Runs[b].pc = "walked" /\ Runs[b].repo = r)
<1>1. marks.lone = (Others(r, s) = {} /\ ~(s # None /\ Walking(watcher) /\ watcher.repo = r))
  BY DEF Overlaps
<1> SUFFICES ASSUME Others(r, s) = {}, ~(s # None /\ Walking(watcher) /\ watcher.repo = r),
                    NEW b \in Actors \ {s}, Runs[b].pc = "walked", Runs[b].repo = r
             PROVE  FALSE
  BY <1>1
<1>2. CASE b = None  BY <1>2, RunsAre DEF Walking
<1>3. CASE b \in LocalSlots  BY <1>3, RunsAre DEF Others, Walking
<1> QED BY <1>2, <1>3, RunsAre

(* Requests whose records keep their shape.                                *)
LEMMA RequestsKept ==
    ASSUME LocalInv, NEW r \in LocalRepos, NEW s, NEW marks, marks = Overlaps(r, s), NEW o \in LocalSlots
    PROVE  \/ marks.request[o] = Idle
           \/ /\ marks.request[o].pc \in {"walked", "written"} /\ marks.request[o].repo \in LocalRepos
              /\ marks.request[o] = [pc |-> marks.request[o].pc, kind |-> marks.request[o].kind,
                                   repo |-> marks.request[o].repo, sha |-> marks.request[o].sha,
                                   tree |-> marks.request[o].tree, absent |-> marks.request[o].absent,
                                   lone |-> marks.request[o].lone]
<1>0. MarksRequests(marks.request, r, s)  BY RequestsMarked
<1>1. \/ marks.request[o] = request[o]
      \/ /\ request[o].pc = "walked" /\ marks.request[o] = [request[o] EXCEPT !.lone = FALSE]
  BY <1>0 DEF MarksRequests
<1>2. CASE marks.request[o] = request[o]  BY <1>2 DEF LocalInv, RequestShape
<1>3. CASE request[o].pc = "walked" /\ marks.request[o] = [request[o] EXCEPT !.lone = FALSE]
  <2>1. Idle.pc = "idle"  BY DEF Idle
  <2>2. /\ request[o].repo \in LocalRepos
        /\ request[o] = [pc |-> request[o].pc, kind |-> request[o].kind, repo |-> request[o].repo,
                         sha |-> request[o].sha, tree |-> request[o].tree, absent |-> request[o].absent,
                         lone |-> request[o].lone]
    BY <1>3, <2>1 DEF LocalInv, RequestShape
  <2>3. marks.request[o] = [pc |-> request[o].pc, kind |-> request[o].kind, repo |-> request[o].repo,
                          sha |-> request[o].sha, tree |-> request[o].tree, absent |-> request[o].absent,
                          lone |-> FALSE]
    BY <1>3, <2>2
  <2> QED BY <1>3, <2>2, <2>3
<1> QED BY <1>1, <1>2, <1>3
LEMMA WatcherWalksStep ==
    ASSUME LocalInv, WatcherWalks
    PROVE  LocalInv'
<1>1. /\ disk' = disk /\ head' = head /\ row' = row /\ memory' = memory /\ torn' = torn
      /\ watcher.pc = "locked"
  BY DEF WatcherWalks, ghosts
<1>2. PICK r : r = watcher.repo  OBVIOUS
<1>3. r \in LocalRepos /\ watcher.todo \in Seq(LocalRepos)  BY <1>1, <1>2 DEF LocalInv, WatcherShape
<1>4. PICK marks : marks = Overlaps(r, None)  OBVIOUS
<1>5. /\ watcher' = [pc |-> "walked", batch |-> watcher.batch, todo |-> watcher.todo, repo |-> r,
                     sha |-> watcher.sha, tree |-> Tree(r),
                     absent |-> deleted \intersect Files[r], lone |-> marks.lone]
      /\ request' = marks.request
  BY <1>2, <1>4 DEF WatcherWalks
<1>6. MarksRequests(marks.request, r, None)  BY <1>3, <1>4, RequestsMarked
<1>7. None \in Actors  BY RunsAre
<1>8. marks.lone => \A b \in Actors \ {None} : ~(Runs[b].pc = "walked" /\ Runs[b].repo = r)
  BY <1>4, <1>7, LoneAlone
<1>9. Walks(None, r)
  <2>1. NoNewer(watcher.sha, disk, r)
    BY <1>1, <1>2, RunsAre DEF LocalInv, ClaimsInv, RunsTrue, Begun
  <2>2. /\ Runs'[None].pc = "walked" /\ Runs'[None].repo = r /\ Runs'[None].tree = Tree(r)
        /\ Runs'[None].sha = watcher.sha
    BY <1>5, RunsAre
  <2>3. Runs'[None].lone = marks.lone  BY <1>5, RunsAre
  <2>4. Runs'[None].lone => \A b \in Actors \ {None} : ~(Runs[b].pc = "walked" /\ Runs[b].repo = r)
    BY <1>8, <2>3
  <2>5. ASSUME NEW b \in Actors \ {None}
        PROVE  Stays(b) /\ (Runs[b].pc = "walked" /\ Runs[b].repo = r => ~Runs'[b].lone)
    <3>1. b \in LocalSlots /\ b # None  BY RunsAre
    <3>2. Marked(Runs[b], Runs'[b], r)  BY <1>5, <1>6, <3>1, RunsAre DEF MarksRequests
    <3> QED BY <3>2, MarkedStays
  <2> QED BY <1>1, <2>1, <2>2, <2>4, <2>5 DEF Walks
<1>10. ClaimsInv'  BY <1>3, <1>7, <1>9, WalkKeeps
<1>11. TreesInv'  BY <1>1 DEF LocalInv, TreesInv
<1>12. WatcherShape'  BY <1>3, <1>5 DEF WatcherShape
<1>13. RequestShape'
  <2>1. request' = [o \in LocalSlots |-> request'[o]]  BY <1>5, <1>6 DEF MarksRequests
  <2>2. \A o \in LocalSlots :
           \/ marks.request[o] = Idle
           \/ /\ marks.request[o].pc \in {"walked", "written"} /\ marks.request[o].repo \in LocalRepos
              /\ marks.request[o] = [pc |-> marks.request[o].pc, kind |-> marks.request[o].kind,
                                   repo |-> marks.request[o].repo, sha |-> marks.request[o].sha,
                                   tree |-> marks.request[o].tree, absent |-> marks.request[o].absent,
                                   lone |-> marks.request[o].lone]
    BY <1>3, <1>4, RequestsKept
  <2> QED BY <1>5, <2>1, <2>2 DEF RequestShape
<1> QED BY <1>10, <1>11, <1>12, <1>13 DEF LocalInv

---------------------------------------------------------------------------
(* Requests, and the writes.                                               *)

LEMMA StartsRunStep ==
    ASSUME LocalInv, NEW s \in LocalSlots, NEW kind, NEW r \in LocalRepos, NEW sha,
           NoNewer(sha, disk, r), StartsRun(s, kind, r, sha)
    PROVE  LocalInv'
<1>1. /\ disk' = disk /\ head' = head /\ row' = row /\ memory' = memory /\ torn' = torn
      /\ request[s] = Idle
  BY DEF StartsRun, ghosts
<1>2. PICK marks : marks = Overlaps(r, s)  OBVIOUS
<1>3. PICK run : run = [pc |-> "walked", kind |-> kind, repo |-> r, sha |-> sha, tree |-> Tree(r),
                        absent |-> deleted \intersect Files[r], lone |-> marks.lone]
  OBVIOUS
<1>4. request' = [marks.request EXCEPT ![s] = run] /\ watcher' = marks.watcher
  BY <1>2, <1>3 DEF StartsRun
<1>5. MarksRequests(marks.request, r, s)  BY <1>2, RequestsMarked
<1>6. /\ Marked(watcher, marks.watcher, r)
      /\ \/ marks.watcher = watcher
         \/ watcher.pc = "walked" /\ marks.watcher = [watcher EXCEPT !.lone = FALSE]
  BY <1>2, WatcherMarked
<1>7. s \in Actors \ {None}  BY RunsAre
<1>8. marks.lone => \A b \in Actors \ {s} : ~(Runs[b].pc = "walked" /\ Runs[b].repo = r)
  BY <1>2, <1>7, LoneAlone
<1>9. /\ request' = [o \in LocalSlots |-> request'[o]] /\ request'[s] = run
      /\ \A o \in LocalSlots : o # s => request'[o] = marks.request[o]
  BY <1>4, <1>5 DEF MarksRequests
<1>10. Walks(s, r)
  <2>1. /\ Runs'[s].pc = "walked" /\ Runs'[s].repo = r /\ Runs'[s].tree = Tree(r)
        /\ Runs'[s].sha = sha
    BY <1>3, <1>9, RunsAre
  <2>2. Runs'[s].lone = marks.lone  BY <1>3, <1>9, RunsAre
  <2>3. Runs'[s].lone => \A b \in Actors \ {s} : ~(Runs[b].pc = "walked" /\ Runs[b].repo = r)
    BY <1>8, <2>2
  <2>4. ASSUME NEW b \in Actors \ {s}
        PROVE  Stays(b) /\ (Runs[b].pc = "walked" /\ Runs[b].repo = r => ~Runs'[b].lone)
    <3>1. CASE b = None
      <4>1. Marked(Runs[b], Runs'[b], r)  BY <1>4, <1>6, <3>1, RunsAre
      <4> QED BY <4>1, MarkedStays
    <3>2. CASE b \in LocalSlots
      <4>1. Marked(Runs[b], Runs'[b], r)  BY <1>5, <1>9, <3>2, RunsAre DEF MarksRequests
      <4> QED BY <4>1, MarkedStays
    <3> QED BY <3>1, <3>2, RunsAre
  <2> QED BY <1>1, <2>1, <2>3, <2>4 DEF Walks
<1>11. ClaimsInv'  BY <1>7, <1>10, WalkKeeps
<1>12. TreesInv'  BY <1>1 DEF LocalInv, TreesInv
<1>13. WatcherShape'
  <2>1. CASE marks.watcher = watcher  BY <1>4, <2>1 DEF LocalInv, WatcherShape
  <2>2. CASE watcher.pc = "walked" /\ marks.watcher = [watcher EXCEPT !.lone = FALSE]
    <3>1. /\ watcher.todo \in Seq(LocalRepos) /\ watcher.repo \in LocalRepos
          /\ watcher = [pc |-> "walked", batch |-> watcher.batch, todo |-> watcher.todo,
                        repo |-> watcher.repo, sha |-> watcher.sha, tree |-> watcher.tree,
                        absent |-> watcher.absent, lone |-> watcher.lone]
      BY <2>2 DEF LocalInv, WatcherShape
    <3>2. watcher' = [pc |-> "walked", batch |-> watcher.batch, todo |-> watcher.todo,
                      repo |-> watcher.repo, sha |-> watcher.sha, tree |-> watcher.tree,
                      absent |-> watcher.absent, lone |-> FALSE]
      BY <1>4, <2>2, <3>1
    <3> QED BY <3>1, <3>2 DEF WatcherShape
  <2> QED BY <1>6, <2>1, <2>2
<1>14. RequestShape'
  <2>1. \A o \in LocalSlots :
           \/ marks.request[o] = Idle
           \/ /\ marks.request[o].pc \in {"walked", "written"} /\ marks.request[o].repo \in LocalRepos
              /\ marks.request[o] = [pc |-> marks.request[o].pc, kind |-> marks.request[o].kind,
                                   repo |-> marks.request[o].repo, sha |-> marks.request[o].sha,
                                   tree |-> marks.request[o].tree, absent |-> marks.request[o].absent,
                                   lone |-> marks.request[o].lone]
    BY <1>2, RequestsKept
  <2>2. run.pc \in {"walked", "written"} /\ run.repo \in LocalRepos
        /\ run = [pc |-> run.pc, kind |-> run.kind, repo |-> run.repo, sha |-> run.sha,
                  tree |-> run.tree, absent |-> run.absent, lone |-> run.lone]
    BY <1>3
  <2>3. \A o \in LocalSlots :
           \/ request'[o] = Idle
           \/ /\ request'[o].pc \in {"walked", "written"} /\ request'[o].repo \in LocalRepos
              /\ request'[o] = [pc |-> request'[o].pc, kind |-> request'[o].kind,
                                repo |-> request'[o].repo, sha |-> request'[o].sha,
                                tree |-> request'[o].tree, absent |-> request'[o].absent,
                                lone |-> request'[o].lone]
    BY <1>9, <2>1, <2>2
  <2> QED BY <1>9, <2>3 DEF RequestShape
<1> QED BY <1>11, <1>12, <1>13, <1>14 DEF LocalInv

LEMMA RequestStarts ==
    ASSUME LocalInv, NEW s \in LocalSlots, NEW r \in LocalRepos, IngestRepo(s, r) \/ SyncNow(s, r)
    PROVE  LocalInv'
<1>1. CASE IngestRepo(s, r)
  <2>1. NoNewer(head[r], disk, r)  BY DEF NoNewer, LocalInv, TreesInv
  <2> QED BY <1>1, <2>1, StartsRunStep DEF IngestRepo
<1>2. CASE SyncNow(s, r)
  <2>1. NoNewer(row[r].sha, disk, r)  BY <1>2 DEF SyncNow, LocalInv, ClaimsInv, RowsTrue
  <2> QED BY <1>2, <2>1, StartsRunStep DEF SyncNow
<1> QED BY <1>1, <1>2
(* A write, by whoever walked.                                             *)
LEMMA WritesDo ==
    ASSUME LocalInv, NEW a \in Actors, NEW run, run = Runs[a], run.pc = "walked",
           NEW failed, Writes(run, failed), UNCHANGED <<disk, head, row>>
    PROVE  /\ TreesInv' /\ failed \subseteq Files[run.repo]
           /\ \A o \in LocalRepos \ {run.repo} : memory'[o] = memory[o] /\ torn'[o] = torn[o]
           /\ \A f \in Files[run.repo] \ (failed \union run.absent) : memory'[run.repo][f] = run.tree[f]
           /\ run.lone => torn'[run.repo] = failed \union run.absent
           /\ ~run.lone => torn'[run.repo] = Files[run.repo]
<1> DEFINE r == run.repo
       kept == failed \union run.absent
<1>1. r \in LocalRepos  BY ReposOf DEF LocalInv, Begun
<1>2. PICK lost \in SUBSET failed :
         memory' = [memory EXCEPT ![r] = [f \in Files[r] |-> IF f \in lost THEN None
                                                            ELSE IF f \in kept THEN memory[r][f]
                                                            ELSE run.tree[f]]]
  BY DEF Writes
<1>3. PICK new : new = [f \in Files[r] |-> IF f \in lost THEN None
                                          ELSE IF f \in kept THEN memory[r][f] ELSE run.tree[f]]
  OBVIOUS
<1>4. PICK bad : bad = IF run.lone THEN kept ELSE Files[r]  OBVIOUS
<1>5. /\ failed \subseteq Files[r]
      /\ memory' = [memory EXCEPT ![r] = new] /\ torn' = [torn EXCEPT ![r] = bad]
  BY <1>2, <1>3, <1>4 DEF Writes
<1>6. /\ memory' = [o \in LocalRepos |-> memory'[o]] /\ memory'[r] = new
      /\ torn' = [o \in LocalRepos |-> torn'[o]] /\ torn'[r] = bad
      /\ \A o \in LocalRepos : o # r => memory'[o] = memory[o] /\ torn'[o] = torn[o]
  BY <1>1, <1>5 DEF LocalInv, TreesInv
<1>7. TreesInv'
  <2>1. \A o \in LocalRepos : memory'[o] = [f \in Files[o] |-> memory'[o][f]]
    <3> SUFFICES ASSUME NEW o \in LocalRepos PROVE memory'[o] = [f \in Files[o] |-> memory'[o][f]]
      OBVIOUS
    <3>1. CASE o = r  BY <1>3, <1>6, <3>1
    <3>2. CASE o # r  BY <1>6, <3>2 DEF LocalInv, TreesInv
    <3> QED BY <3>1, <3>2
  <2> QED BY <1>6, <2>1 DEF LocalInv, TreesInv
<1>8. \A f \in Files[r] \ kept : memory'[r][f] = run.tree[f]
  <2> SUFFICES ASSUME NEW f \in Files[r] \ kept PROVE new[f] = run.tree[f]  BY <1>6
  <2>1. f \notin lost  OBVIOUS
  <2> QED BY <1>3, <2>1
<1> QED BY <1>4, <1>5, <1>6, <1>7, <1>8

LEMMA WatcherWritesStep ==
    ASSUME LocalInv, NEW failed, NEW raises, WatcherWrites(failed, raises)
    PROVE  LocalInv'
<1>1. /\ disk' = disk /\ head' = head /\ row' = row /\ request' = request
      /\ watcher.pc = "walked" /\ Writes(watcher, failed)
  BY DEF WatcherWrites
<1>2. PICK r : r = watcher.repo  OBVIOUS
<1>3. r \in LocalRepos /\ watcher.todo \in Seq(LocalRepos)  BY <1>1, <1>2 DEF LocalInv, WatcherShape
<1>4. None \in Actors /\ Runs[None] = watcher /\ Runs'[None] = watcher'  BY RunsAre
<1>5. \/ watcher' = [pc |-> "next", batch |-> watcher.batch, todo |-> watcher.todo]
      \/ watcher' = [pc |-> "written", batch |-> watcher.batch, todo |-> watcher.todo,
                     repo |-> r, sha |-> watcher.sha]
  BY <1>2 DEF WatcherWrites
<1>6. /\ TreesInv' /\ failed \subseteq Files[r]
      /\ \A o \in LocalRepos \ {r} : memory'[o] = memory[o] /\ torn'[o] = torn[o]
      /\ \A f \in Files[r] \ (failed \union watcher.absent) : memory'[r][f] = watcher.tree[f]
      /\ watcher.lone => torn'[r] = failed \union watcher.absent
      /\ ~watcher.lone => torn'[r] = Files[r]
  BY <1>1, <1>2, <1>4, WritesDo
<1>7. WritesRun(None, r, failed \union watcher.absent)
  <2>1. Begun(Runs'[None]) => /\ Runs'[None].pc = "written" /\ Runs'[None].repo = r
                              /\ Runs'[None].sha = Runs[None].sha
    BY <1>4, <1>5 DEF Begun
  <2>2. \A b \in Actors \ {None} : Stays(b)  BY <1>1, RunsAre DEF Stays
  <2> QED BY <1>1, <1>2, <1>4, <1>6, <2>1, <2>2 DEF WritesRun
<1>8. ClaimsInv'  BY <1>3, <1>4, <1>7, WriteKeeps
<1>9. WatcherShape'  BY <1>3, <1>5 DEF WatcherShape
<1>10. RequestShape'  BY <1>1 DEF LocalInv, RequestShape
<1> QED BY <1>6, <1>8, <1>9, <1>10 DEF LocalInv

LEMMA RequestWritesStep ==
    ASSUME LocalInv, NEW s \in LocalSlots, NEW failed, RequestWrites(s, failed)
    PROVE  LocalInv'
<1>1. /\ disk' = disk /\ head' = head /\ row' = row /\ watcher' = watcher
      /\ request[s].pc = "walked" /\ Writes(request[s], failed)
      /\ request' = [request EXCEPT ![s].pc = "written"]
  BY DEF RequestWrites, Walking
<1>2. PICK run : run = request[s]  OBVIOUS
<1>3. PICK r : r = run.repo  OBVIOUS
<1>4. s \in Actors \ {None} /\ Runs[s] = run /\ Runs'[s] = request'[s]  BY <1>2, RunsAre
<1>5. Idle.pc = "idle"  BY DEF Idle
<1>6. /\ r \in LocalRepos
      /\ run = [pc |-> run.pc, kind |-> run.kind, repo |-> r, sha |-> run.sha,
                tree |-> run.tree, absent |-> run.absent, lone |-> run.lone]
  BY <1>1, <1>2, <1>3, <1>5 DEF LocalInv, RequestShape
<1>7. PICK new : new = [pc |-> "written", kind |-> run.kind, repo |-> r, sha |-> run.sha,
                        tree |-> run.tree, absent |-> run.absent, lone |-> run.lone]
  OBVIOUS
<1>8. /\ request' = [o \in LocalSlots |-> request'[o]] /\ request'[s] = new
      /\ \A o \in LocalSlots : o # s => request'[o] = request[o]
  <2>1. request' = [request EXCEPT ![s] = [request[s] EXCEPT !.pc = "written"]]  BY <1>1
  <2>2. [request[s] EXCEPT !.pc = "written"] = new  BY <1>2, <1>6, <1>7
  <2>3. request' = [request EXCEPT ![s] = new]  BY <2>1, <2>2
  <2> QED BY <2>3 DEF LocalInv, RequestShape
<1>9. /\ TreesInv' /\ failed \subseteq Files[r]
      /\ \A o \in LocalRepos \ {r} : memory'[o] = memory[o] /\ torn'[o] = torn[o]
      /\ \A f \in Files[r] \ (failed \union run.absent) : memory'[r][f] = run.tree[f]
      /\ run.lone => torn'[r] = failed \union run.absent
      /\ ~run.lone => torn'[r] = Files[r]
  <2>1. s \in Actors /\ run = Runs[s] /\ run.pc = "walked" /\ Writes(run, failed)
        /\ UNCHANGED <<disk, head, row>>
    BY <1>1, <1>2, <1>4
  <2>2. /\ TreesInv' /\ failed \subseteq Files[run.repo]
        /\ \A o \in LocalRepos \ {run.repo} : memory'[o] = memory[o] /\ torn'[o] = torn[o]
        /\ \A f \in Files[run.repo] \ (failed \union run.absent) : memory'[run.repo][f] = run.tree[f]
        /\ run.lone => torn'[run.repo] = failed \union run.absent
        /\ ~run.lone => torn'[run.repo] = Files[run.repo]
    BY <2>1, WritesDo
  <2> QED BY <1>3, <2>2
<1>10. WritesRun(s, r, failed \union run.absent)
  <2>1. Runs'[s].pc = "written" /\ Runs'[s].repo = r /\ Runs'[s].sha = Runs[s].sha
    BY <1>4, <1>7, <1>8
  <2>2. ASSUME NEW b \in Actors \ {s} PROVE Stays(b)
    <3>1. CASE b = None  BY <1>1, <3>1, RunsAre DEF Stays
    <3>2. CASE b \in LocalSlots  BY <1>8, <3>2, RunsAre DEF Stays
    <3> QED BY <3>1, <3>2, RunsAre
  <2> QED BY <1>1, <1>2, <1>3, <1>4, <1>9, <2>1, <2>2 DEF WritesRun
<1>11. ClaimsInv'  BY <1>4, <1>6, <1>10, WriteKeeps
<1>12. WatcherShape'  BY <1>1 DEF LocalInv, WatcherShape
<1>13. RequestShape'
  <2>1. \A o \in LocalSlots :
           \/ request'[o] = Idle
           \/ /\ request'[o].pc \in {"walked", "written"} /\ request'[o].repo \in LocalRepos
              /\ request'[o] = [pc |-> request'[o].pc, kind |-> request'[o].kind,
                                repo |-> request'[o].repo, sha |-> request'[o].sha,
                                tree |-> request'[o].tree, absent |-> request'[o].absent,
                                lone |-> request'[o].lone]
    <3> SUFFICES ASSUME NEW o \in LocalSlots
                 PROVE  \/ request'[o] = Idle
                        \/ /\ request'[o].pc \in {"walked", "written"} /\ request'[o].repo \in LocalRepos
                           /\ request'[o] = [pc |-> request'[o].pc, kind |-> request'[o].kind,
                                             repo |-> request'[o].repo, sha |-> request'[o].sha,
                                             tree |-> request'[o].tree, absent |-> request'[o].absent,
                                             lone |-> request'[o].lone]
      OBVIOUS
    <3>1. CASE o = s  BY <1>6, <1>7, <1>8, <3>1
    <3>2. CASE o # s  BY <1>8, <3>2 DEF LocalInv, RequestShape
    <3> QED BY <3>1, <3>2
  <2> QED BY <1>8, <2>1 DEF RequestShape
<1> QED BY <1>9, <1>11, <1>12, <1>13 DEF LocalInv

(* A row named after a run.                                                *)
LEMMA RowNamed ==
    ASSUME LocalInv, NEW r \in LocalRepos, NEW sha,
           \/ Synced(r, sha)
           \/ row[r] = None /\ row' = [row EXCEPT ![r] = [watch |-> TRUE, sha |-> sha]],
           UNCHANGED <<disk, head, memory, torn>>
    PROVE  /\ TreesInv'
           /\ row'[r] # None => row'[r].sha = sha
           /\ \A o \in LocalRepos \ {r} : row'[o] = row[o]
<1>1. /\ row' = [o \in LocalRepos |-> row'[o]]
      /\ \A o \in LocalRepos : o # r => row'[o] = row[o]
      /\ row'[r] # None => \E watch : row'[r] = [watch |-> watch, sha |-> sha]
  <2>1. CASE row' = row /\ row[r] = None  BY <2>1 DEF LocalInv, TreesInv
  <2>2. CASE row[r] # None /\ row' = [row EXCEPT ![r].sha = sha]
    <3>1. row[r] = [watch |-> row[r].watch, sha |-> row[r].sha]
      BY <2>2 DEF LocalInv, TreesInv
    <3>2. row' = [row EXCEPT ![r] = [row[r] EXCEPT !.sha = sha]]  BY <2>2
    <3>3. [row[r] EXCEPT !.sha = sha] = [watch |-> row[r].watch, sha |-> sha]  BY <3>1
    <3>4. row' = [row EXCEPT ![r] = [watch |-> row[r].watch, sha |-> sha]]  BY <3>2, <3>3
    <3> QED BY <3>4 DEF LocalInv, TreesInv
  <2>3. CASE row[r] = None /\ row' = [row EXCEPT ![r] = [watch |-> TRUE, sha |-> sha]]
    BY <2>3 DEF LocalInv, TreesInv
  <2> QED BY <2>1, <2>2, <2>3 DEF Synced
<1>2. \A o \in LocalRepos : row'[o] # None => row'[o] = [watch |-> row'[o].watch, sha |-> row'[o].sha]
  <2> SUFFICES ASSUME NEW o \in LocalRepos, row'[o] # None
               PROVE  row'[o] = [watch |-> row'[o].watch, sha |-> row'[o].sha]
    OBVIOUS
  <2>1. CASE o = r  BY <1>1, <2>1
  <2>2. CASE o # r  BY <1>1, <2>2 DEF LocalInv, TreesInv
  <2> QED BY <2>1, <2>2
<1>3. TreesInv'  BY <1>1, <1>2 DEF LocalInv, TreesInv
<1> QED BY <1>1, <1>3

LEMMA MarkSyncedStep ==
    ASSUME LocalInv, MarkSynced
    PROVE  LocalInv'
<1>1. /\ UNCHANGED <<disk, head, memory, torn>> /\ request' = request
      /\ watcher.pc = "written" /\ Synced(watcher.repo, watcher.sha)
      /\ watcher' = [pc |-> "next", batch |-> watcher.batch, todo |-> watcher.todo]
  BY DEF MarkSynced, ghosts
<1>2. PICK r : r = watcher.repo  OBVIOUS
<1>3. PICK sha : sha = watcher.sha  OBVIOUS
<1>4. r \in LocalRepos /\ watcher.todo \in Seq(LocalRepos)  BY <1>1, <1>2 DEF LocalInv, WatcherShape
<1>5. /\ TreesInv'
      /\ row'[r] # None => row'[r].sha = sha
      /\ \A o \in LocalRepos \ {r} : row'[o] = row[o]
  BY <1>1, <1>2, <1>3, <1>4, RowNamed
<1>6. None \in Actors /\ Runs[None] = watcher /\ Runs'[None] = watcher'  BY RunsAre
<1>7. ~Begun(Runs'[None])  BY <1>1, <1>6 DEF Begun
<1>8. \A b \in Actors \ {None} : Stays(b)  BY <1>1, RunsAre DEF Stays
<1>9. Claims(None, r)  BY <1>1, <1>2, <1>3, <1>5, <1>6, <1>7, <1>8 DEF Claims
<1>10. ClaimsInv'  BY <1>4, <1>6, <1>9, ClaimKeeps
<1>11. WatcherShape'  BY <1>1, <1>4 DEF WatcherShape
<1>12. RequestShape'  BY <1>1 DEF LocalInv, RequestShape
<1> QED BY <1>5, <1>10, <1>11, <1>12 DEF LocalInv

LEMMA AnswerStep ==
    ASSUME LocalInv, NEW s \in LocalSlots, Answer(s)
    PROVE  LocalInv'
<1>1. /\ UNCHANGED <<disk, head, memory, torn>> /\ watcher' = watcher
      /\ request[s].pc = "written" /\ request' = [request EXCEPT ![s] = Idle]
  BY DEF Answer, ghosts
<1>2. PICK r : r = request[s].repo  OBVIOUS
<1>3. PICK sha : sha = request[s].sha  OBVIOUS
<1>4. Idle.pc = "idle"  BY DEF Idle
<1>5. r \in LocalRepos  BY <1>1, <1>2, <1>4 DEF LocalInv, RequestShape
<1>6. \/ Synced(r, sha)
      \/ row[r] = None /\ row' = [row EXCEPT ![r] = [watch |-> TRUE, sha |-> sha]]
  BY <1>2, <1>3 DEF Answer
<1>7. /\ TreesInv'
      /\ row'[r] # None => row'[r].sha = sha
      /\ \A o \in LocalRepos \ {r} : row'[o] = row[o]
  BY <1>1, <1>5, <1>6, RowNamed
<1>8. s \in Actors \ {None} /\ Runs[s] = request[s] /\ Runs'[s] = request'[s]  BY RunsAre
<1>9. /\ request' = [o \in LocalSlots |-> request'[o]] /\ request'[s] = Idle
      /\ \A o \in LocalSlots : o # s => request'[o] = request[o]
  BY <1>1 DEF LocalInv, RequestShape
<1>10. ~Begun(Runs'[s])  BY <1>4, <1>8, <1>9 DEF Begun
<1>11. ASSUME NEW b \in Actors \ {s} PROVE Stays(b)
  <2>1. CASE b = None  BY <1>1, <2>1, RunsAre DEF Stays
  <2>2. CASE b \in LocalSlots  BY <1>9, <2>2, RunsAre DEF Stays
  <2> QED BY <2>1, <2>2, RunsAre
<1>12. Claims(s, r)  BY <1>1, <1>2, <1>3, <1>7, <1>8, <1>10, <1>11 DEF Claims
<1>13. ClaimsInv'  BY <1>5, <1>8, <1>12, ClaimKeeps
<1>14. WatcherShape'  BY <1>1 DEF LocalInv, WatcherShape
<1>15. RequestShape'
  <2>1. \A o \in LocalSlots :
           \/ request'[o] = Idle
           \/ /\ request'[o].pc \in {"walked", "written"} /\ request'[o].repo \in LocalRepos
              /\ request'[o] = [pc |-> request'[o].pc, kind |-> request'[o].kind,
                                repo |-> request'[o].repo, sha |-> request'[o].sha,
                                tree |-> request'[o].tree, absent |-> request'[o].absent,
                                lone |-> request'[o].lone]
    BY <1>9 DEF LocalInv, RequestShape
  <2> QED BY <1>9, <2>1 DEF RequestShape
<1> QED BY <1>7, <1>13, <1>14, <1>15 DEF LocalInv

---------------------------------------------------------------------------
LEMMA LocalUnchanged ==
    ASSUME LocalInv, UNCHANGED <<disk, head, row, memory, torn, watcher, request>>
    PROVE  LocalInv'
<1>1. WatcherShape'  BY DEF LocalInv, WatcherShape
<1> QED BY <1>1, WatcherCalm

LEMMA LocalStep == LocalInv /\ [LocalNext]_localVars => LocalInv'
<1> SUFFICES ASSUME LocalInv, [LocalNext]_localVars PROVE LocalInv'  OBVIOUS
<1>1. CASE UNCHANGED localVars  BY <1>1, LocalUnchanged DEF localVars
<1>2. CASE Boot  BY <1>2, LocalUnchanged DEF Boot, ghosts
<1>3. CASE Crash  BY <1>3, CrashStep
<1>4. CASE BatchFails \/ TakeBatch \/ ResolveRepoIds \/ NextRepo  BY <1>4, WatcherOutsideRun
<1>5. CASE CommitSha  BY <1>5, CommitShaStep
<1>6. CASE WatcherWalks  BY <1>6, WatcherWalksStep
<1>7. CASE MarkSynced  BY <1>7, MarkSyncedStep
<1>8. ASSUME NEW failed, NEW raises, WatcherWrites(failed, raises) PROVE LocalInv'
  BY <1>8, WatcherWritesStep
<1>9. ASSUME NEW f \in AllFiles, Edit(f) \/ Delete(f) PROVE LocalInv'  BY <1>9, EditStep
<1>10. ASSUME NEW r \in LocalRepos, Commit(r) PROVE LocalInv'  BY <1>10, CommitStep
<1>11. ASSUME NEW r \in LocalRepos, ToggleWatch(r) \/ RemoveLocal(r) PROVE LocalInv'
  BY <1>11, RowStep
<1>12. ASSUME NEW s \in LocalSlots, Answer(s) PROVE LocalInv'  BY <1>12, AnswerStep
<1>13. ASSUME NEW s \in LocalSlots, NEW r \in LocalRepos, IngestRepo(s, r) \/ SyncNow(s, r)
       PROVE  LocalInv'
  BY <1>13, RequestStarts
<1>14. ASSUME NEW s \in LocalSlots, NEW failed, RequestWrites(s, failed) PROVE LocalInv'
  BY <1>14, RequestWritesStep
<1> QED BY <1>1, <1>2, <1>3, <1>4, <1>5, <1>6, <1>7, <1>8, <1>9, <1>10, <1>11, <1>12, <1>13, <1>14
        DEF LocalNext, WatcherStep

\* What the registry says of a local repository's commit stays true of its
\* memory, but for files torn by a failed, an overlapping or a cut off write
\* or no longer there, however edits, deletions, commits, requests, pauses,
\* removals, crashes and boots follow each other: FreshnessWatcher._reingest
\* reads the commit before the tree.
THEOREM CommitsStayTrue == LocalSpec => []ClaimHolds
<1>1. LocalInv => ClaimHolds
  <2> SUFFICES ASSUME LocalInv, NEW r \in LocalRepos, row[r] # None, row[r].sha # AutoSha,
                      NEW f \in Files[r] \ torn[r]
               PROVE  memory[r][f] >= row[r].sha[f]
    BY DEF ClaimHolds
  <2>1. row[r].sha \in Version(r) /\ row[r].sha[f] <= memory[r][f]
    BY DEF LocalInv, ClaimsInv, RowsTrue, NoNewer, Held
  <2> QED BY <2>1
<1> QED BY <1>1, LocalStart, LocalStep, PTL DEF LocalSpec

---------------------------------------------------------------------------
(* The lifecycle scanner.                                                  *)

LEMMA SaturatingIn ==
    ASSUME NEW c \in Nat, NEW s \in Nat
    PROVE  Saturating(c, s) \in 0..100
<1>1. CASE s = 0  BY <1>1 DEF Saturating
<1>2. CASE s # 0 /\ c >= s  BY <1>2 DEF Saturating
<1>3. CASE s # 0 /\ ~(c >= s)
  <2>1. PICK K : K = {k \in 1..100 : k * k * s > c * 10000}  OBVIOUS
  <2>2. 100 \in K
    <3>1. 100 * 100 * s > c * 10000  BY <1>3
    <3> QED BY <2>1, <3>1
  <2>3. K \in SUBSET Int /\ IsFiniteSet(K)
    <3>1. PICK a \in Int, b \in Int : a = 1 /\ b = 100  OBVIOUS
    <3>2. IsFiniteSet(a..b)  BY FS_Interval
    <3> QED BY <2>1, <3>1, <3>2, FS_Subset
  <2>4. PICK m \in K : \A k \in K : m <= k  BY <2>2, <2>3, LeastElement
  <2>5. PICK r \in 0..99 : m = r + 1
    <3>1. m \in 1..100 /\ m - 1 \in 0..99 /\ m = (m - 1) + 1  BY <2>1, <2>4
    <3> QED BY <3>1
  <2>6. (r + 1) * (r + 1) * s > c * 10000  BY <2>1, <2>4, <2>5
  <2>7. r * r * s <= c * 10000
    <3>1. CASE r = 0
      <4>1. r * r * s = 0  BY <3>1
      <4> QED BY <4>1
    <3>2. CASE r # 0
      <4>1. r \in 1..100 /\ ~(m <= r)  BY <2>5, <3>2
      <4>2. r \notin K  BY <2>4, <4>1
      <4>3. ~(r * r * s > c * 10000)  BY <2>1, <4>1, <4>2
      <4>4. r * r * s \in Int /\ c * 10000 \in Int  BY <4>1
      <4> QED BY <4>3, <4>4
    <3> QED BY <3>1, <3>2
  <2>8. \E k \in 0..99 : k * k * s <= c * 10000 /\ (k + 1) * (k + 1) * s > c * 10000
    BY <2>6, <2>7
  <2>9. Saturating(c, s) = CHOOSE k \in 0..99 : k * k * s <= c * 10000 /\ (k + 1) * (k + 1) * s > c * 10000
    BY <1>3 DEF Saturating
  <2> DEFINE Root(k) == k * k * s <= c * 10000 /\ (k + 1) * (k + 1) * s > c * 10000
  <2>10. Saturating(c, s) = CHOOSE k \in 0..99 : Root(k)  BY <2>9
  <2>11. \E k \in 0..99 : Root(k)  BY <2>8
  <2> HIDE DEF Root
  <2>12. Saturating(c, s) \in 0..99  BY <2>10, <2>11, Zenon
  <2>13. Saturating(c, s) \in 0..100  BY <2>12
  <2> QED BY <2>13
<1> QED BY <1>1, <1>2, <1>3

LEMMA HalvedIn == \A n \in 0..MaxClock : Halved[n] \in Nat
<1>1. MaxClock \in Nat /\ 100 \in Nat  BY LifecycleAssumption
<1> DEFINE step == [n \in 1..MaxClock |-> [x \in Nat |-> x \div 2]]
<1>2. step \in [1..MaxClock -> [Nat -> Nat]]  OBVIOUS
<1>3. \A n \in 1..MaxClock : \A x \in Nat : step[n][x] = x \div 2  OBVIOUS
<1> HIDE DEF step
<1>4. PICK f \in [0..MaxClock -> Nat] : f[0] = 100 /\ \A n \in 1..MaxClock : f[n] = step[n][f[n - 1]]
  <2>1. Recurs(MaxClock, Nat, 100, step)  BY <1>1, <1>2, Recursion
  <2> QED BY <2>1 DEF Recurs
<1> DEFINE Halving(h) == [n \in 0..MaxClock |-> IF n = 0 THEN 100 ELSE h[n - 1] \div 2]
<1>5. f = Halving(f)
  <2>1. \A n \in 0..MaxClock : f[n] = IF n = 0 THEN 100 ELSE f[n - 1] \div 2
    <3> SUFFICES ASSUME NEW n \in 0..MaxClock, n # 0 PROVE f[n] = f[n - 1] \div 2  BY <1>4
    <3>1. n \in 1..MaxClock /\ n - 1 \in 0..MaxClock  BY <1>1
    <3>2. f[n - 1] \in Nat  BY <3>1
    <3>3. step[n][f[n - 1]] = f[n - 1] \div 2  BY <1>3, <3>1, <3>2
    <3> QED BY <1>4, <3>1, <3>3
  <2> QED BY <2>1
<1>6. Halved = CHOOSE h : h = Halving(h)  BY DEF Halved
<1> HIDE DEF Halving
<1>7. Halved = Halving(Halved)  BY <1>5, <1>6
<1> USE DEF Halving
<1>8. \A n \in 0..MaxClock : Halved[n] = IF n = 0 THEN 100 ELSE Halved[n - 1] \div 2  BY <1>7
<1> DEFINE C == {n \in 0..MaxClock : Halved[n] \in Nat}
<1>9. 0 \in C  BY <1>1, <1>8
<1>10. \A n \in 1..MaxClock : n - 1 \in C => n \in C
  <2> SUFFICES ASSUME NEW n \in 1..MaxClock, n - 1 \in C PROVE n \in C  OBVIOUS
  <2>1. n \in 0..MaxClock /\ n # 0  BY <1>1
  <2>2. Halved[n] = Halved[n - 1] \div 2  BY <1>8, <2>1
  <2>3. Halved[n - 1] \in Nat  OBVIOUS
  <2>4. Halved[n] \in Nat  BY <2>2, <2>3
  <2> QED BY <2>1, <2>4
<1> HIDE DEF C
<1>11. \A n \in 0..MaxClock : n \in C  BY <1>1, <1>9, <1>10, Upward
<1> QED BY <1>11 DEF C

(* What a scan read of an entity.                                          *)
SeenTyped(seen, e) ==
    /\ seen.usage[e] \in Nat /\ seen.last[e] \in (0..MaxClock) \union {None}
    /\ seen.attempts[e] \in Nat /\ seen.successes[e] \in Nat

LEMMA ScoreIn ==
    ASSUME NEW e, NEW seen, SeenTyped(seen, e), NEW edges, IsFiniteSet(edges),
           NEW at \in 0..MaxClock
    PROVE  /\ Score(e, seen, edges, at).score \in Int
           /\ Score(e, seen, edges, at).centrality = Saturating(InDegree(edges, e), CentralitySaturation)
           /\ Score(e, seen, edges, at).score < LowPriority =>
                 40 * Saturating(seen.usage[e], UsageSaturation)
                   + 20 * Saturating(InDegree(edges, e), CentralitySaturation) < 100 * LowPriority
<1>1. PICK used \in 0..100 : used = Saturating(seen.usage[e], UsageSaturation)
  BY SaturatingIn, LifecycleAssumption DEF SeenTyped
<1>2. PICK central \in 0..100 : central = Saturating(InDegree(edges, e), CentralitySaturation)
  <2>1. IsFiniteSet({x \in edges : x.dst = e})  BY FS_Subset
  <2>2. InDegree(edges, e) \in Nat  BY <2>1, FS_CardinalityType DEF InDegree
  <2> QED BY <2>2, SaturatingIn, LifecycleAssumption
<1>3. PICK recency \in Nat : recency = Recency(seen.last[e], at)
  <2>1. CASE seen.last[e] = None  BY <2>1 DEF Recency
  <2>2. CASE seen.last[e] # None /\ at <= seen.last[e]  BY <2>2 DEF Recency
  <2>3. CASE seen.last[e] # None /\ ~(at <= seen.last[e])
    <3>1. seen.last[e] \in 0..MaxClock /\ MaxClock \in Nat  BY <2>3, LifecycleAssumption DEF SeenTyped
    <3>2. at - seen.last[e] \in 0..MaxClock  BY <2>3, <3>1
    <3>3. Recency(seen.last[e], at) = Halved[at - seen.last[e]]  BY <2>3 DEF Recency
    <3> QED BY <3>2, <3>3, HalvedIn
  <2> QED BY <2>1, <2>2, <2>3
<1>4. PICK success \in Nat : success = SuccessRate(seen.attempts[e], seen.successes[e])
  <2>1. CASE seen.attempts[e] = 0  BY <2>1 DEF SuccessRate
  <2>2. CASE seen.attempts[e] # 0
    <3>1. PICK q \in Nat : q = (100 * seen.successes[e]) \div seen.attempts[e]
      <4>1. PICK a \in Nat, b \in Nat : a = seen.attempts[e] /\ b = 100 * seen.successes[e] /\ a > 0
        BY <2>2 DEF SeenTyped
      <4>2. b \div a \in Nat  BY <4>1
      <4> QED BY <4>1, <4>2
    <3>2. SuccessRate(seen.attempts[e], seen.successes[e]) = Min({100, q})
      BY <2>2, <3>1 DEF SuccessRate
    <3>3. Min({100, q}) \in {100, q}  BY LesserOfTwo, 100 \in Int, q \in Int
    <3> QED BY <3>2, <3>3
  <2> QED BY <2>1, <2>2
<1>5. PICK sum \in Nat : sum = 40 * used + 30 * recency + 20 * central + 10 * success  OBVIOUS
<1>6. /\ Score(e, seen, edges, at).score = sum \div 100
      /\ Score(e, seen, edges, at).centrality = central
  BY <1>1, <1>2, <1>3, <1>4, <1>5 DEF Score
<1>7. sum \div 100 \in Int  OBVIOUS
<1>8. sum \div 100 < LowPriority => sum < 100 * LowPriority  BY LifecycleAssumption
<1>9. 40 * used + 20 * central <= sum  BY <1>5
<1>10. sum \div 100 < LowPriority => 40 * used + 20 * central < 100 * LowPriority
  BY <1>8, <1>9, LifecycleAssumption
<1> QED BY <1>1, <1>2, <1>6, <1>7, <1>10
(* The ids a scan goes through: each entity once.                          *)
LEMMA IdsListed ==
    /\ DOMAIN EntityIds = 1..Cardinality(Entities) /\ Cardinality(Entities) \in Nat
    /\ Cardinality(Entities) > 0 /\ Len(EntityIds) = Cardinality(Entities)
    /\ \A n \in DOMAIN EntityIds : EntityIds[n] \in Entities
    /\ \A e \in Entities : \E n \in DOMAIN EntityIds : EntityIds[n] = e
    /\ \A m, n \in DOMAIN EntityIds : EntityIds[m] = EntityIds[n] => m = n
<1>1. IsFiniteSet(Entities) /\ Entities # {}  BY LifecycleAssumption
<1>2. PICK size \in Nat : size = Cardinality(Entities) /\ size > 0
  BY <1>1, FS_CardinalityType, FS_EmptySet
<1>3. PICK f : f = EntityIds  OBVIOUS
<1>4. f \in [1..size -> Entities] /\ IsInjective(f)
  <2>1. \E g \in [1..size -> Entities] : IsInjective(g)
    <3>1. ExistsBijection(1..size, Entities)  BY <1>1, <1>2, FS_CardinalityType
    <3> QED BY <3>1 DEF ExistsBijection, Bijection, Injection
  <2>2. f = CHOOSE g \in [1..size -> Entities] : IsInjective(g)
    BY <1>2, <1>3 DEF EntityIds, SetToSeq
  <2> QED BY <2>1, <2>2
<1>5. f \in Surjection(1..size, Entities)
  <2>1. f \in Injection(1..size, Entities)  BY <1>4 DEF Injection
  <2>2. Cardinality(1..size) = Cardinality(Entities)
    <3>1. Cardinality(1..size) = size  BY FS_Interval
    <3> QED BY <1>2, <3>1
  <2> QED BY <1>1, <2>1, <2>2, FS_Injection
<1>6. Len(f) = size  BY <1>4, FunctionIsSequence
<1>7. \A e \in Entities : \E n \in 1..size : f[n] = e  BY <1>5 DEF Surjection
<1>8. \A m, n \in 1..size : f[m] = f[n] => m = n  BY <1>4 DEF IsInjective
<1> QED BY <1>2, <1>3, <1>4, <1>6, <1>7, <1>8

(* What a pass of a scanner holds: the signals of the steps it is past,    *)
(* and in the end one status per id and the decisions still to apply.      *)
Counts == [Entities -> Nat]
Times  == [Entities -> (0..MaxClock) \union {None}]
Statuses == {"active", "low"}

Passes ==
    [pc : {"last", "attempts", "successes", "status", "apply"}, now : 0..MaxClock,
     edges : Graphs, before : Graphs \union {None},
     seen : [usage : Counts, last : Times \union {None},
             attempts : Counts \union {None}, successes : Counts \union {None}],
     current : Seq(Statuses), todo : SUBSET Int, applied : BOOLEAN,
     first : Counts, alone : BOOLEAN]

PassTyped(p) ==
    /\ p \in Passes
    /\ p.seen.usage = p.first
    /\ p.pc # "last" => p.seen.last \in Times
    /\ p.pc \in {"successes", "status", "apply"} => p.seen.attempts \in Counts
    /\ p.pc \in {"status", "apply"} => p.seen.successes \in Counts
    /\ p.pc \in {"last", "attempts", "successes"} => p.current = <<>>
    /\ p.pc = "status" => Len(p.current) < Cardinality(Entities)
    /\ p.pc = "apply" => Len(p.current) = Cardinality(Entities) /\ p.todo \subseteq DecayDue(p)

Writings == [op : {"access"}, entity : Entities, at : 0..MaxClock]
              \union [op : {"success"}, entity : Entities]

LifeType ==
    /\ clock \in 0..MaxClock
    /\ usage \in Counts /\ lastAccess \in Times /\ attempts \in Counts /\ successes \in Counts
    /\ status \in [Entities -> Statuses]
    /\ write \in [Writers -> Writings \union {None}]
    /\ known \in Graphs \union {None}
    /\ scan \in [Scanners -> Passes \union {None}]
    /\ \A s \in Scanners : scan[s] # None => PassTyped(scan[s])

(* What a scan decides of an entity depends on what it read alone.         *)
LEMMA SameDecisions ==
    ASSUME NEW p, NEW q, p.seen = q.seen, p.edges = q.edges, p.now = q.now, p.current = q.current
    PROVE  /\ \A n : DecayDecision(p, n) = DecayDecision(q, n)
           /\ DecayDue(p) = DecayDue(q)
<1>1. \A n : DecayDecision(p, n) = DecayDecision(q, n)  BY DEF DecayDecision
<1>2. DecayDue(p) = DecayDue(q)  BY <1>1 DEF DecayDue
<1> QED BY <1>1, <1>2

(* Being disturbed changes nothing else of a pass.                         *)
LEMMA PassDisturbed ==
    ASSUME NEW p, PassTyped(p), NEW q, q = [p EXCEPT !.alone = FALSE]
    PROVE  PassTyped(q) /\ ~q.alone
<1>1. /\ p \in Passes /\ q \in Passes /\ ~q.alone
      /\ q.pc = p.pc /\ q.now = p.now /\ q.edges = p.edges /\ q.seen = p.seen
      /\ q.current = p.current /\ q.todo = p.todo /\ q.first = p.first
  BY DEF PassTyped, Passes
<1>2. DecayDue(q) = DecayDue(p)  BY <1>1, SameDecisions
<1> QED BY <1>1, <1>2 DEF PassTyped

LEMMA DisturbedTyped ==
    ASSUME LifeType
    PROVE  /\ Disturbed \in [Scanners -> Passes \union {None}]
           /\ \A s \in Scanners : scan[s] = None => Disturbed[s] = None
           /\ \A s \in Scanners : Disturbed[s] # None => PassTyped(Disturbed[s]) /\ ~Disturbed[s].alone
<1>1. ASSUME NEW s \in Scanners
      PROVE  /\ Disturbed[s] \in Passes \union {None}
             /\ scan[s] = None => Disturbed[s] = None
             /\ Disturbed[s] # None => PassTyped(Disturbed[s]) /\ ~Disturbed[s].alone
  <2>1. CASE scan[s] = None  BY <2>1 DEF Disturbed
  <2>2. CASE scan[s] # None
    <3>1. Disturbed[s] = [scan[s] EXCEPT !.alone = FALSE]  BY <2>2 DEF Disturbed
    <3>2. PassTyped(scan[s])  BY <2>2 DEF LifeType
    <3>3. PassTyped(Disturbed[s]) /\ ~Disturbed[s].alone  BY <3>1, <3>2, PassDisturbed
    <3> QED BY <2>2, <3>3 DEF PassTyped
  <2> QED BY <2>1, <2>2
<1>2. Disturbed \in [Scanners -> Passes \union {None}]  BY <1>1 DEF Disturbed
<1> QED BY <1>1, <1>2
(* What each step of a pass makes of it.                                   *)
LEMMA ReadKeeps ==
    ASSUME NEW p, PassTyped(p), NEW q,
           \/ p.pc = "last" /\ \E l \in Times :
                 q = [p EXCEPT !.pc = "attempts", !.seen = [p.seen EXCEPT !.last = l]]
           \/ p.pc = "attempts" /\ \E c \in Counts :
                 q = [p EXCEPT !.pc = "successes", !.seen = [p.seen EXCEPT !.attempts = c]]
           \/ p.pc = "successes" /\ \E c \in Counts :
                 q = [p EXCEPT !.pc = "status", !.seen = [p.seen EXCEPT !.successes = c]]
    PROVE  PassTyped(q)
<1>1. p \in Passes /\ p.seen.usage = p.first  BY DEF PassTyped
<1>2. CASE p.pc = "last" /\ \E l \in Times :
              q = [p EXCEPT !.pc = "attempts", !.seen = [p.seen EXCEPT !.last = l]]
  <2>1. PICK l \in Times : q = [p EXCEPT !.pc = "attempts", !.seen = [p.seen EXCEPT !.last = l]]
    BY <1>2
  <2>2. q \in Passes /\ q.seen.usage = q.first /\ q.pc = "attempts" /\ q.seen.last \in Times
        /\ q.current = p.current
    BY <1>1, <2>1 DEF Passes
  <2> QED BY <1>2, <2>2 DEF PassTyped
<1>3. CASE p.pc = "attempts" /\ \E c \in Counts :
              q = [p EXCEPT !.pc = "successes", !.seen = [p.seen EXCEPT !.attempts = c]]
  <2>1. PICK c \in Counts : q = [p EXCEPT !.pc = "successes", !.seen = [p.seen EXCEPT !.attempts = c]]
    BY <1>3
  <2>2. q \in Passes /\ q.seen.usage = q.first /\ q.pc = "successes" /\ q.seen.attempts \in Counts
        /\ q.seen.last = p.seen.last /\ q.current = p.current
    BY <1>1, <2>1 DEF Passes
  <2>3. p.seen.last \in Times /\ p.current = <<>>  BY <1>3 DEF PassTyped
  <2> QED BY <2>2, <2>3 DEF PassTyped
<1>4. CASE p.pc = "successes" /\ \E c \in Counts :
              q = [p EXCEPT !.pc = "status", !.seen = [p.seen EXCEPT !.successes = c]]
  <2>1. PICK c \in Counts : q = [p EXCEPT !.pc = "status", !.seen = [p.seen EXCEPT !.successes = c]]
    BY <1>4
  <2>2. q \in Passes /\ q.seen.usage = q.first /\ q.pc = "status" /\ q.seen.successes \in Counts
        /\ q.seen.last = p.seen.last /\ q.seen.attempts = p.seen.attempts /\ q.current = p.current
    BY <1>1, <2>1 DEF Passes
  <2>3. p.seen.last \in Times /\ p.current = <<>> /\ p.seen.attempts \in Counts  BY <1>4 DEF PassTyped
  <2>4. Len(q.current) < Cardinality(Entities)
    <3>1. q.current = <<>>  BY <2>2, <2>3
    <3>2. Len(<<>>) = 0  OBVIOUS
    <3> QED BY <3>1, <3>2, IdsListed
  <2> QED BY <2>2, <2>3, <2>4 DEF PassTyped
<1> QED BY <1>2, <1>3, <1>4

(* A status is read, and after the last the decisions are due.             *)
Reading(p, st)     == [p EXCEPT !.current = Append(@, st)]
Deciding(p, apply) == [p EXCEPT !.pc = "apply", !.applied = apply,
                                !.todo = IF apply THEN DecayDue(p) ELSE {}]

LEMMA StatusKeeps ==
    ASSUME NEW p, PassTyped(p), p.pc = "status", NEW st \in Statuses,
           NEW q, q = Reading(p, st)
    PROVE  /\ q \in Passes /\ Len(q.current) = Len(p.current) + 1
           /\ \A n \in 1..Len(p.current) : q.current[n] = p.current[n]
           /\ q.current[Len(p.current) + 1] = st
           /\ Len(q.current) < Cardinality(Entities) => PassTyped(q)
           /\ ~(Len(q.current) < Cardinality(Entities)) =>
                 /\ Len(q.current) = Cardinality(Entities)
                 /\ \A apply \in BOOLEAN :
                       PassTyped(Deciding(q, apply))
<1>1. p \in Passes /\ p.current \in Seq(Statuses) /\ p.seen.usage = p.first
  BY DEF PassTyped, Passes
<1>2. PICK c : c = p.current  OBVIOUS
<1>3. /\ Append(c, st) \in Seq(Statuses) /\ Len(Append(c, st)) = Len(c) + 1 /\ Len(c) \in Nat
      /\ \A n \in 1..Len(c) : Append(c, st)[n] = c[n]
      /\ Append(c, st)[Len(c) + 1] = st
  BY <1>1, <1>2
<1>4. /\ q \in Passes /\ q.current = Append(c, st) /\ q.seen = p.seen /\ q.first = p.first
      /\ q.pc = "status"
  BY <1>1, <1>2, <1>3 DEF Passes, Reading
<1>5. /\ Len(q.current) = Len(p.current) + 1 /\ Len(p.current) \in Nat
      /\ \A n \in 1..Len(p.current) : q.current[n] = p.current[n]
      /\ q.current[Len(p.current) + 1] = st
  BY <1>2, <1>3, <1>4
<1>6. p.seen.last \in Times /\ p.seen.attempts \in Counts /\ p.seen.successes \in Counts
      /\ Len(p.current) < Cardinality(Entities)
  BY DEF PassTyped
<1>7. Len(q.current) < Cardinality(Entities) => PassTyped(q)
  BY <1>1, <1>4, <1>6 DEF PassTyped
<1>8. ASSUME ~(Len(q.current) < Cardinality(Entities))
      PROVE  /\ Len(q.current) = Cardinality(Entities)
             /\ \A apply \in BOOLEAN :
                   PassTyped(Deciding(q, apply))
  <2>1. Len(q.current) = Cardinality(Entities)  BY <1>5, <1>6, <1>8, IdsListed
  <2>2. ASSUME NEW apply \in BOOLEAN
        PROVE  PassTyped(Deciding(q, apply))
    <3>1. PICK due : due = DecayDue(q)  OBVIOUS
    <3>2. due \in SUBSET Int  BY <3>1, IdsListed DEF DecayDue
    <3>3. PICK r : r = Deciding(q, apply)  OBVIOUS
    <3>4. /\ r \in Passes /\ r.pc = "apply" /\ r.seen = q.seen /\ r.first = q.first
          /\ r.current = q.current /\ r.edges = q.edges /\ r.now = q.now
          /\ r.todo \subseteq due
      BY <1>4, <3>1, <3>2, <3>3 DEF Passes, Deciding
    <3>5. DecayDue(r) = due  BY <3>1, <3>4, SameDecisions
    <3>6. PassTyped(r)  BY <1>1, <1>4, <1>6, <2>1, <3>4, <3>5 DEF PassTyped
    <3> QED BY <3>1, <3>3, <3>6
  <2> QED BY <2>1, <2>2
<1> QED BY <1>4, <1>5, <1>7, <1>8

LEMMA ApplyKeeps ==
    ASSUME NEW p, PassTyped(p), p.pc = "apply", NEW n,
           NEW q, q = [p EXCEPT !.todo = @ \ {n}]
    PROVE  PassTyped(q)
<1>1. /\ p \in Passes /\ q \in Passes
      /\ q.pc = p.pc /\ q.now = p.now /\ q.edges = p.edges /\ q.seen = p.seen
      /\ q.current = p.current /\ q.todo \subseteq p.todo /\ q.first = p.first
  BY DEF PassTyped, Passes
<1>2. DecayDue(q) = DecayDue(p)  BY <1>1, SameDecisions
<1> QED BY <1>1, <1>2 DEF PassTyped
LEMMA LifeTypeInit == LifeInit => LifeType
<1> SUFFICES ASSUME LifeInit PROVE LifeType  OBVIOUS
<1>1. MaxClock \in Nat  BY LifecycleAssumption
<1> QED BY <1>1 DEF LifeInit, LifeType, Counts, Times, Statuses

(* A step of one pass replaces it, or ends it.                             *)
LEMMA OnePassTyped ==
    ASSUME LifeType, NEW s \in Scanners, NEW q, q = None \/ PassTyped(q),
           scan' = [scan EXCEPT ![s] = q]
    PROVE  /\ scan' \in [Scanners -> Passes \union {None}]
           /\ \A o \in Scanners : scan'[o] # None => PassTyped(scan'[o])
<1>1. q \in Passes \union {None}  BY DEF PassTyped
<1>2. scan \in [Scanners -> Passes \union {None}]
      /\ \A o \in Scanners : scan[o] # None => PassTyped(scan[o])
  BY DEF LifeType
<1>3. \A o \in Scanners : scan'[o] = IF o = s THEN q ELSE scan[o]  BY <1>2
<1>4. \A o \in Scanners : scan'[o] # None => PassTyped(scan'[o])  BY <1>2, <1>3
<1> QED BY <1>1, <1>2, <1>4

LEMMA WritersTyped ==
    ASSUME LifeType, NEW w \in Writers,
           \/ SetLastAccess(w) \/ CountSuccess(w) \/ WriterDies(w)
           \/ \E e \in Used : RecordAccess(w, e) \/ \E success \in BOOLEAN : RecordOutcome(w, e, success)
    PROVE  LifeType'
<1>1. /\ write \in [Writers -> Writings \union {None}]
      /\ usage \in Counts /\ lastAccess \in Times /\ attempts \in Counts /\ successes \in Counts
      /\ clock \in 0..MaxClock
  BY DEF LifeType
<1>2. write[w] # None => write[w] \in Writings  BY <1>1
<1>3. [write EXCEPT ![w] = None] \in [Writers -> Writings \union {None}]  BY <1>1
<1>4. Disturbed \in [Scanners -> Passes \union {None}]
      /\ \A s \in Scanners : Disturbed[s] # None => PassTyped(Disturbed[s])
  BY DisturbedTyped
<1>5. CASE SetLastAccess(w)
  <2>1. write[w].entity \in Entities /\ write[w].at \in 0..MaxClock
    BY <1>2, <1>5 DEF SetLastAccess, Writings
  <2>2. lastAccess' \in Times  BY <1>1, <1>5, <2>1 DEF SetLastAccess, Times
  <2> QED BY <1>3, <1>4, <1>5, <2>2 DEF SetLastAccess, LifeType
<1>6. CASE CountSuccess(w)
  <2>1. write[w].entity \in Entities  BY <1>2, <1>6 DEF CountSuccess, Writings
  <2>2. successes' \in Counts  BY <1>1, <1>6, <2>1 DEF CountSuccess, Counts
  <2> QED BY <1>3, <1>4, <1>6, <2>2 DEF CountSuccess, LifeType
<1>7. CASE WriterDies(w)
  BY <1>3, <1>7 DEF WriterDies, signals, LifeType
<1>8. ASSUME NEW e \in Used, RecordAccess(w, e) PROVE LifeType'
  <2>1. e \in Entities  BY LifecycleAssumption
  <2>2. usage' \in Counts  BY <1>1, <1>8, <2>1 DEF RecordAccess, Counts
  <2>3. [op |-> "access", entity |-> e, at |-> clock] \in Writings  BY <1>1, <2>1 DEF Writings
  <2>4. write' \in [Writers -> Writings \union {None}]  BY <1>1, <1>8, <2>3 DEF RecordAccess
  <2> QED BY <1>4, <1>8, <2>2, <2>4 DEF RecordAccess, LifeType
<1>9. ASSUME NEW e \in Used, NEW success \in BOOLEAN, RecordOutcome(w, e, success) PROVE LifeType'
  <2>1. e \in Entities  BY LifecycleAssumption
  <2>2. attempts' \in Counts  BY <1>1, <1>9, <2>1 DEF RecordOutcome, Counts
  <2>3. [op |-> "success", entity |-> e] \in Writings  BY <2>1 DEF Writings
  <2>4. write' \in [Writers -> Writings \union {None}]  BY <1>1, <1>9, <2>3 DEF RecordOutcome
  <2> QED BY <1>4, <1>9, <2>2, <2>4 DEF RecordOutcome, LifeType
<1> QED BY <1>5, <1>6, <1>7, <1>8, <1>9

LEMMA BeginTyped ==
    ASSUME LifeType, NEW s \in Scanners, NEW edges \in Graphs, BeginScan(s, edges)
    PROVE  LifeType'
<1>1. PICK p : p = [pc |-> "last", now |-> clock, edges |-> edges, before |-> known,
           seen |-> [usage |-> usage, last |-> None, attempts |-> None, successes |-> None],
           current |-> <<>>, todo |-> {}, applied |-> FALSE,
           first |-> usage, alone |-> \A o \in Scanners \ {s} : scan[o] = None]
  OBVIOUS
<1>2. scan' = [Disturbed EXCEPT ![s] = p]  BY <1>1 DEF BeginScan
<1>3. p.alone \in BOOLEAN
  <2>1. p.alone = (\A o \in Scanners \ {s} : scan[o] = None)  BY <1>1
  <2> QED BY <2>1
<1>4. PICK alone \in BOOLEAN : alone = p.alone  BY <1>3
<1>5. p = [pc |-> "last", now |-> clock, edges |-> edges, before |-> known,
           seen |-> [usage |-> usage, last |-> None, attempts |-> None, successes |-> None],
           current |-> <<>>, todo |-> {}, applied |-> FALSE,
           first |-> usage, alone |-> alone]
  <2>1. p.alone = (\A o \in Scanners \ {s} : scan[o] = None)  BY <1>1
  <2> QED BY <1>1, <1>4, <2>1
<1>6. clock \in 0..MaxClock /\ usage \in Counts /\ known \in Graphs \union {None}  BY DEF LifeType
<1>7. PassTyped(p)
  <2>1. <<>> \in Seq(Statuses) /\ {} \in SUBSET Int  OBVIOUS
  <2>2. p \in Passes  BY <1>5, <1>6, <2>1 DEF Passes
  <2> QED BY <1>5, <2>2 DEF PassTyped
<1>8. /\ Disturbed \in [Scanners -> Passes \union {None}]
      /\ \A o \in Scanners : Disturbed[o] # None => PassTyped(Disturbed[o])
  BY DisturbedTyped
<1>9. \A o \in Scanners : scan'[o] = IF o = s THEN p ELSE Disturbed[o]  BY <1>2, <1>8
<1>10. \A o \in Scanners : scan'[o] # None => PassTyped(scan'[o])  BY <1>7, <1>8, <1>9
<1>11. scan' \in [Scanners -> Passes \union {None}]  BY <1>2, <1>7, <1>8 DEF PassTyped
<1> QED BY <1>10, <1>11 DEF BeginScan, signals, LifeType

LEMMA PassStepTyped ==
    ASSUME LifeType, NEW s \in Scanners, scan[s] # None,
           \/ ReadLast(s) \/ ReadAttempts(s) \/ ReadSuccesses(s) \/ ReadStatus(s)
           \/ Apply(s) \/ Return(s) \/ ScanDies(s)
    PROVE  LifeType'
<1>1. PICK p : p = scan[s]  OBVIOUS
<1>2. PassTyped(p) /\ p \in Passes  BY <1>1 DEF LifeType, PassTyped
<1>3. /\ lastAccess \in Times /\ attempts \in Counts /\ successes \in Counts
      /\ status \in [Entities -> Statuses] /\ scan \in [Scanners -> Passes \union {None}]
      /\ known \in Graphs \union {None}
  BY DEF LifeType
<1> DEFINE Becomes(q) == scan' = [scan EXCEPT ![s] = q] /\ (q = None \/ PassTyped(q))
<1>4. ASSUME NEW q, Becomes(q), UNCHANGED <<clock, usage, lastAccess, attempts, successes, write>>,
             status' \in [Entities -> Statuses], known' \in Graphs \union {None}
      PROVE  LifeType'
  <2>1. /\ scan' \in [Scanners -> Passes \union {None}]
        /\ \A o \in Scanners : scan'[o] # None => PassTyped(scan'[o])
    BY <1>4, OnePassTyped
  <2> QED BY <1>4, <2>1 DEF LifeType
<1>5. CASE ReadLast(s)
  <2>1. PICK q : q = [p EXCEPT !.pc = "attempts", !.seen = [p.seen EXCEPT !.last = lastAccess]]
    OBVIOUS
  <2>2. PassTyped(q) /\ p.pc = "last"  BY <1>1, <1>2, <1>3, <1>5, <2>1, ReadKeeps DEF ReadLast, Reads
  <2>3. scan' = [scan EXCEPT ![s] = q]  BY <1>1, <1>3, <1>5, <2>1 DEF ReadLast, Reads
  <2> QED BY <1>3, <1>4, <1>5, <2>2, <2>3 DEF ReadLast, Reads, signals
<1>6. CASE ReadAttempts(s)
  <2>1. PICK q : q = [p EXCEPT !.pc = "successes", !.seen = [p.seen EXCEPT !.attempts = attempts]]
    OBVIOUS
  <2>2. PassTyped(q)  BY <1>1, <1>2, <1>3, <1>6, <2>1, ReadKeeps DEF ReadAttempts, Reads
  <2>3. scan' = [scan EXCEPT ![s] = q]  BY <1>1, <1>3, <1>6, <2>1 DEF ReadAttempts, Reads
  <2> QED BY <1>3, <1>4, <1>6, <2>2, <2>3 DEF ReadAttempts, Reads, signals
<1>7. CASE ReadSuccesses(s)
  <2>1. PICK q : q = [p EXCEPT !.pc = "status", !.seen = [p.seen EXCEPT !.successes = successes]]
    OBVIOUS
  <2>2. PassTyped(q)  BY <1>1, <1>2, <1>3, <1>7, <2>1, ReadKeeps DEF ReadSuccesses, Reads
  <2>3. scan' = [scan EXCEPT ![s] = q]  BY <1>1, <1>3, <1>7, <2>1 DEF ReadSuccesses, Reads
  <2> QED BY <1>3, <1>4, <1>7, <2>2, <2>3 DEF ReadSuccesses, Reads, signals
<1>8. CASE ReadStatus(s)
  <2>1. p.pc = "status"  BY <1>1, <1>8 DEF ReadStatus
  <2>2. PICK st \in Statuses : st = status[EntityIds[Len(p.current) + 1]]
    <3>1. Len(p.current) < Cardinality(Entities) /\ Len(p.current) \in Nat
      BY <1>2, <2>1 DEF PassTyped, Passes
    <3>2. Len(p.current) + 1 \in DOMAIN EntityIds  BY <3>1, IdsListed
    <3>3. EntityIds[Len(p.current) + 1] \in Entities  BY <3>2, IdsListed
    <3> QED BY <1>3, <3>3
  <2>3. PICK q : q = Reading(p, st)  OBVIOUS
  <2>4. IF Len(q.current) < Len(EntityIds) THEN scan' = [scan EXCEPT ![s] = q]
        ELSE \E apply \in BOOLEAN :
               scan' = [scan EXCEPT ![s] = Deciding(q, apply)]
    BY <1>1, <1>8, <2>2, <2>3 DEF ReadStatus, Reading, Deciding
  <2>5. \E r : Becomes(r)
    <3>1. CASE Len(q.current) < Cardinality(Entities)
      <4>1. PassTyped(q)  BY <1>2, <2>1, <2>3, <3>1, StatusKeeps
      <4>2. scan' = [scan EXCEPT ![s] = q]  BY <2>4, <3>1, IdsListed
      <4> QED BY <4>1, <4>2
    <3>2. CASE ~(Len(q.current) < Cardinality(Entities))
      <4>1. PICK apply \in BOOLEAN :
               scan' = [scan EXCEPT ![s] = Deciding(q, apply)]
        BY <2>4, <3>2, IdsListed
      <4>2. PassTyped(Deciding(q, apply))
        BY <1>2, <2>1, <2>3, <3>2, StatusKeeps
      <4> QED BY <4>1, <4>2
    <3> QED BY <3>1, <3>2
  <2>6. PICK r : Becomes(r)  BY <2>5
  <2> HIDE DEF Becomes
  <2> QED BY <1>3, <1>4, <1>8, <2>6 DEF ReadStatus, signals
<1>9. CASE Apply(s)
  <2>1. PICK n : n = Min(p.todo)  OBVIOUS
  <2>2. PICK q : q = [p EXCEPT !.todo = @ \ {n}]  OBVIOUS
  <2>3. PassTyped(q)  BY <1>1, <1>2, <1>9, <2>2, ApplyKeeps DEF Apply
  <2>4. scan' = [scan EXCEPT ![s] = q]  BY <1>1, <1>3, <1>9, <2>1, <2>2 DEF Apply
  <2>5. status' \in [Entities -> Statuses]
    <3>1. Applied(DecayDecision(scan[s], n)) \in Statuses  BY DEF Applied, Statuses
    <3>2. status' = [status EXCEPT ![EntityIds[n]] = Applied(DecayDecision(scan[s], n))]
      BY <1>1, <1>9, <2>1 DEF Apply
    <3> QED BY <1>3, <3>1, <3>2
  <2> QED BY <1>3, <1>4, <1>9, <2>3, <2>4, <2>5 DEF Apply, signals
<1>10. CASE Return(s)
  <2>1. p.edges \in Graphs  BY <1>2 DEF Passes
  <2>2. scan' = [scan EXCEPT ![s] = None]  BY <1>10 DEF Return
  <2> QED BY <1>1, <1>3, <1>4, <1>10, <2>1, <2>2 DEF Return, signals
<1>11. CASE ScanDies(s)
  BY <1>3, <1>4, <1>11 DEF ScanDies, signals
<1> QED BY <1>5, <1>6, <1>7, <1>8, <1>9, <1>10, <1>11

LEMMA TickTyped ==
    ASSUME LifeType, LifeTick
    PROVE  LifeType'
<1>1. clock' \in 0..MaxClock  BY LifecycleAssumption DEF LifeType, LifeTick
<1> QED BY <1>1 DEF LifeType, LifeTick, signals

LEMMA LifeTypeStep ==
    ASSUME LifeType, [LifeNext]_lifeVars
    PROVE  LifeType'
<1>1. CASE UNCHANGED lifeVars  BY <1>1 DEF LifeType, lifeVars
<1>2. CASE \E w \in Writers :
              \/ SetLastAccess(w) \/ CountSuccess(w) \/ WriterDies(w)
              \/ \E e \in Used : RecordAccess(w, e) \/ \E success \in BOOLEAN : RecordOutcome(w, e, success)
  BY <1>2, WritersTyped
<1>3. CASE \E s \in Scanners : \E edges \in Graphs : BeginScan(s, edges)
  BY <1>3, BeginTyped
<1>4. CASE \E s \in Scanners : /\ scan[s] # None
                               /\ \/ ReadLast(s) \/ ReadAttempts(s) \/ ReadSuccesses(s) \/ ReadStatus(s)
                                  \/ Apply(s) \/ Return(s) \/ ScanDies(s)
  BY <1>4, PassStepTyped
<1>5. CASE LifeTick  BY <1>5, TickTyped
<1> QED BY <1>1, <1>2, <1>3, <1>4, <1>5 DEF LifeNext
(* A scan that nobody disturbed knows how things are: the signals it has   *)
(* read, the statuses, and from then on those it changed itself.           *)
Knows(p, counts, times, tried, won, statuses) ==
    /\ p.seen.usage = counts
    /\ p.pc # "last" => p.seen.last = times
    /\ p.pc \in {"successes", "status", "apply"} => p.seen.attempts = tried
    /\ p.pc \in {"status", "apply"} => p.seen.successes = won
    /\ p.pc # "apply" => \A n \in 1..Len(p.current) : p.current[n] = statuses[EntityIds[n]]
    /\ (p.pc = "apply" /\ p.applied) =>
          \A n \in DOMAIN EntityIds :
             statuses[EntityIds[n]] = IF n \in DecayDue(p) /\ n \notin p.todo
                                      THEN Applied(DecayDecision(p, n)) ELSE p.current[n]

AloneInv ==
    \A s \in Scanners : (scan[s] # None /\ scan[s].alone) =>
        /\ \A o \in Scanners \ {s} : scan[o] = None
        /\ Knows(scan[s], usage, lastAccess, attempts, successes, status)

LEMMA DisturbedAlone ==
    ASSUME LifeType, scan' = Disturbed
    PROVE  AloneInv'
<1>1. \A s \in Scanners : scan'[s] # None => ~scan'[s].alone  BY DisturbedTyped
<1> QED BY <1>1 DEF AloneInv

LEMMA BeginAlone ==
    ASSUME LifeType, NEW s \in Scanners, NEW edges \in Graphs, BeginScan(s, edges)
    PROVE  AloneInv'
<1>1. PICK p : p = [pc |-> "last", now |-> clock, edges |-> edges, before |-> known,
           seen |-> [usage |-> usage, last |-> None, attempts |-> None, successes |-> None],
           current |-> <<>>, todo |-> {}, applied |-> FALSE,
           first |-> usage, alone |-> \A o \in Scanners \ {s} : scan[o] = None]
  OBVIOUS
<1>2. scan' = [Disturbed EXCEPT ![s] = p]  BY <1>1 DEF BeginScan
<1>3. p.alone = (\A o \in Scanners \ {s} : scan[o] = None)  BY <1>1
<1>4. /\ Disturbed \in [Scanners -> Passes \union {None}]
      /\ \A o \in Scanners : scan[o] = None => Disturbed[o] = None
      /\ \A o \in Scanners : Disturbed[o] # None => ~Disturbed[o].alone
  BY DisturbedTyped
<1>5. \A o \in Scanners : scan'[o] = IF o = s THEN p ELSE Disturbed[o]  BY <1>2, <1>4
<1>6. Knows(p, usage, lastAccess, attempts, successes, status)
  <2>1. p.pc = "last" /\ p.seen.usage = usage /\ p.current = <<>>  BY <1>1
  <2>2. 1..Len(<<>>) = {}  OBVIOUS
  <2> QED BY <2>1, <2>2 DEF Knows
<1>7. UNCHANGED <<usage, lastAccess, attempts, successes, status>>  BY DEF BeginScan, signals
<1>8. ASSUME NEW o \in Scanners, scan'[o] # None, scan'[o].alone
      PROVE  /\ \A r \in Scanners \ {o} : scan'[r] = None
             /\ Knows(scan'[o], usage', lastAccess', attempts', successes', status')
  <2>1. o = s  BY <1>4, <1>5, <1>8
  <2>2. \A r \in Scanners \ {s} : scan'[r] = None  BY <1>3, <1>4, <1>5, <1>8, <2>1
  <2> QED BY <1>5, <1>6, <1>7, <2>1, <2>2
<1> QED BY <1>8 DEF AloneInv

LEMMA ReadKnows ==
    ASSUME NEW p, PassTyped(p), NEW counts, NEW times, NEW tried, NEW won, NEW statuses,
           Knows(p, counts, times, tried, won, statuses), NEW q,
           \/ p.pc = "last" /\ q = [p EXCEPT !.pc = "attempts", !.seen = [p.seen EXCEPT !.last = times]]
           \/ p.pc = "attempts" /\ q = [p EXCEPT !.pc = "successes", !.seen = [p.seen EXCEPT !.attempts = tried]]
           \/ p.pc = "successes" /\ q = [p EXCEPT !.pc = "status", !.seen = [p.seen EXCEPT !.successes = won]]
    PROVE  Knows(q, counts, times, tried, won, statuses)
<1>1. p \in Passes  BY DEF PassTyped
<1>2. q.current = p.current  BY <1>1 DEF Passes
<1>3. p.seen.usage = counts /\ \A n \in 1..Len(q.current) : q.current[n] = statuses[EntityIds[n]]
  BY <1>2 DEF Knows
<1>4. CASE p.pc = "last" /\ q = [p EXCEPT !.pc = "attempts", !.seen = [p.seen EXCEPT !.last = times]]
  <2>1. q.pc = "attempts" /\ q.seen.last = times /\ q.seen.usage = p.seen.usage
    BY <1>1, <1>4 DEF Passes
  <2> QED BY <1>2, <1>3, <2>1 DEF Knows
<1>5. CASE p.pc = "attempts" /\ q = [p EXCEPT !.pc = "successes", !.seen = [p.seen EXCEPT !.attempts = tried]]
  <2>1. q.pc = "successes" /\ q.seen.last = p.seen.last /\ q.seen.attempts = tried
        /\ q.seen.usage = p.seen.usage
    BY <1>1, <1>5 DEF Passes
  <2>2. p.seen.last = times  BY <1>5 DEF Knows
  <2> QED BY <1>2, <1>3, <2>1, <2>2 DEF Knows
<1>6. CASE p.pc = "successes" /\ q = [p EXCEPT !.pc = "status", !.seen = [p.seen EXCEPT !.successes = won]]
  <2>1. q.pc = "status" /\ q.seen.last = p.seen.last /\ q.seen.attempts = p.seen.attempts
        /\ q.seen.successes = won /\ q.seen.usage = p.seen.usage
    BY <1>1, <1>6 DEF Passes
  <2>2. p.seen.last = times /\ p.seen.attempts = tried  BY <1>6 DEF Knows
  <2> QED BY <1>2, <1>3, <2>1, <2>2 DEF Knows
<1> QED BY <1>4, <1>5, <1>6

LEMMA StatusKnows ==
    ASSUME NEW p, PassTyped(p), p.pc = "status",
           NEW counts, NEW times, NEW tried, NEW won, NEW statuses,
           Knows(p, counts, times, tried, won, statuses),
           NEW st \in Statuses, st = statuses[EntityIds[Len(p.current) + 1]],
           NEW q, q = Reading(p, st)
    PROVE  /\ Knows(q, counts, times, tried, won, statuses)
           /\ ~(Len(q.current) < Cardinality(Entities)) =>
                 \A apply \in BOOLEAN :
                    Knows(Deciding(q, apply), counts, times, tried, won, statuses)
<1>1. /\ q \in Passes /\ Len(q.current) = Len(p.current) + 1
      /\ \A n \in 1..Len(p.current) : q.current[n] = p.current[n]
      /\ q.current[Len(p.current) + 1] = st
      /\ ~(Len(q.current) < Cardinality(Entities)) => Len(q.current) = Cardinality(Entities)
  BY StatusKeeps
<1>2. p \in Passes /\ Len(p.current) \in Nat  BY DEF PassTyped, Passes
<1>3. q.pc = "status" /\ q.seen = p.seen  BY <1>2 DEF Passes, Reading
<1>4. /\ p.seen.usage = counts /\ p.seen.last = times /\ p.seen.attempts = tried /\ p.seen.successes = won
      /\ \A n \in 1..Len(p.current) : p.current[n] = statuses[EntityIds[n]]
  BY DEF Knows
<1>5. \A n \in 1..Len(q.current) : q.current[n] = statuses[EntityIds[n]]
  <2> SUFFICES ASSUME NEW n \in 1..Len(q.current) PROVE q.current[n] = statuses[EntityIds[n]]
    OBVIOUS
  <2>1. n \in 1..Len(p.current) \/ n = Len(p.current) + 1  BY <1>1, <1>2
  <2> QED BY <1>1, <1>4, <2>1
<1>6. Knows(q, counts, times, tried, won, statuses)  BY <1>3, <1>4, <1>5 DEF Knows
<1>7. ASSUME ~(Len(q.current) < Cardinality(Entities)), NEW apply \in BOOLEAN
      PROVE  Knows(Deciding(q, apply),
                   counts, times, tried, won, statuses)
  <2>1. PICK due : due = DecayDue(q)  OBVIOUS
  <2>2. PICK r : r = Deciding(q, apply)  OBVIOUS
  <2>3. /\ r.pc = "apply" /\ r.seen = q.seen /\ r.current = q.current /\ r.edges = q.edges
        /\ r.now = q.now /\ r.applied = apply /\ (apply => r.todo = due)
    BY <1>1, <2>1, <2>2 DEF Passes, Deciding
  <2>4. DecayDue(r) = due  BY <2>1, <2>3, SameDecisions
  <2>5. DOMAIN EntityIds = 1..Len(q.current)  BY <1>1, <1>7, IdsListed
  <2>6. Knows(r, counts, times, tried, won, statuses)
    BY <1>3, <1>4, <1>5, <2>3, <2>4, <2>5 DEF Knows
  <2> QED BY <2>1, <2>2, <2>6
<1> QED BY <1>6, <1>7

LEMMA ApplyKnows ==
    ASSUME NEW p, PassTyped(p), p.pc = "apply", p.todo # {},
           NEW counts, NEW times, NEW tried, NEW won, NEW statuses \in [Entities -> Statuses],
           Knows(p, counts, times, tried, won, statuses),
           NEW n, n = Min(p.todo), NEW q, q = [p EXCEPT !.todo = @ \ {n}],
           NEW after, after = [statuses EXCEPT ![EntityIds[n]] = Applied(DecayDecision(p, n))]
    PROVE  Knows(q, counts, times, tried, won, after)
<1>1. p \in Passes /\ p.todo \subseteq DecayDue(p)  BY DEF PassTyped
<1>2. DecayDue(p) \subseteq DOMAIN EntityIds  BY DEF DecayDue
<1>3. n \in p.todo
  <2>1. IsFiniteSet(DOMAIN EntityIds)
    <3>1. PICK size \in Nat : size = Cardinality(Entities)  BY IdsListed
    <3>2. IsFiniteSet(1..size)  BY FS_Interval
    <3> QED BY <3>1, <3>2, IdsListed
  <2>2. IsFiniteSet(p.todo) /\ p.todo \in SUBSET Int  BY <1>1, <1>2, <2>1, FS_Subset, IdsListed
  <2> QED BY <2>2, LeastIn
<1>4. /\ q.pc = "apply" /\ q.seen = p.seen /\ q.current = p.current /\ q.edges = p.edges
      /\ q.now = p.now /\ q.applied = p.applied /\ q.todo = p.todo \ {n}
  BY <1>1 DEF Passes
<1>5. DecayDue(q) = DecayDue(p) /\ \A m : DecayDecision(q, m) = DecayDecision(p, m)
  BY <1>4, SameDecisions
<1>6. ASSUME p.applied, NEW m \in DOMAIN EntityIds
      PROVE  after[EntityIds[m]] = IF m \in DecayDue(q) /\ m \notin q.todo
                                   THEN Applied(DecayDecision(q, m)) ELSE q.current[m]
  <2>1. EntityIds[m] \in Entities  BY IdsListed
  <2>2. statuses[EntityIds[m]] = IF m \in DecayDue(p) /\ m \notin p.todo
                                 THEN Applied(DecayDecision(p, m)) ELSE p.current[m]
    BY <1>6 DEF Knows
  <2>3. CASE m = n
    <3>1. after[EntityIds[m]] = Applied(DecayDecision(p, n))  BY <2>1, <2>3
    <3> QED BY <1>1, <1>3, <1>4, <1>5, <2>3, <3>1
  <2>4. CASE m # n
    <3>1. EntityIds[m] # EntityIds[n]  BY <1>1, <1>2, <1>3, <2>4, IdsListed
    <3>2. after[EntityIds[m]] = statuses[EntityIds[m]]  BY <2>1, <3>1
    <3> QED BY <1>4, <1>5, <2>2, <2>4, <3>2
  <2> QED BY <2>3, <2>4
<1> QED BY <1>4, <1>6 DEF Knows
LEMMA PassStepAlone ==
    ASSUME LifeType, AloneInv, NEW s \in Scanners, scan[s] # None,
           \/ ReadLast(s) \/ ReadAttempts(s) \/ ReadSuccesses(s) \/ ReadStatus(s)
           \/ Apply(s) \/ Return(s) \/ ScanDies(s)
    PROVE  AloneInv'
<1>1. PICK p : p = scan[s]  OBVIOUS
<1>2. PassTyped(p) /\ p \in Passes  BY <1>1 DEF LifeType, PassTyped
<1>3. /\ status \in [Entities -> Statuses] /\ scan \in [Scanners -> Passes \union {None}]
  BY DEF LifeType
<1>4. p.alone => /\ \A o \in Scanners \ {s} : scan[o] = None
                 /\ Knows(p, usage, lastAccess, attempts, successes, status)
  BY <1>1 DEF AloneInv
<1>5. \A o \in Scanners \ {s} : scan[o] # None => ~scan[o].alone  BY DEF AloneInv
<1> DEFINE Becomes(q) ==
      /\ scan' = [scan EXCEPT ![s] = q]
      /\ q = None \/ /\ q.alone = p.alone
                     /\ p.alone => Knows(q, usage', lastAccess', attempts', successes', status')
<1>6. ASSUME NEW q, Becomes(q) PROVE AloneInv'
  <2>1. \A o \in Scanners : scan'[o] = IF o = s THEN q ELSE scan[o]  BY <1>3, <1>6
  <2>2. ASSUME NEW o \in Scanners, scan'[o] # None, scan'[o].alone
        PROVE  /\ \A r \in Scanners \ {o} : scan'[r] = None
               /\ Knows(scan'[o], usage', lastAccess', attempts', successes', status')
    <3>1. o = s  BY <1>5, <2>1, <2>2
    <3>2. q # None /\ q.alone /\ scan'[s] = q  BY <2>1, <2>2, <3>1
    <3>3. p.alone /\ Knows(q, usage', lastAccess', attempts', successes', status')
      BY <1>6, <3>2
    <3>4. \A r \in Scanners \ {s} : scan'[r] = None  BY <1>4, <2>1, <3>3
    <3> QED BY <3>1, <3>2, <3>3, <3>4
  <2> QED BY <2>2 DEF AloneInv
<1>7. CASE ReadLast(s)
  <2>1. PICK q : q = [p EXCEPT !.pc = "attempts", !.seen = [p.seen EXCEPT !.last = lastAccess]]
    OBVIOUS
  <2>2. p.pc = "last" /\ scan' = [scan EXCEPT ![s] = q]
    BY <1>1, <1>3, <1>7, <2>1 DEF ReadLast, Reads
  <2>3. q.alone = p.alone  BY <1>2, <2>1 DEF Passes
  <2>4. UNCHANGED <<usage, lastAccess, attempts, successes, status>>
    BY <1>7 DEF ReadLast, Reads, signals
  <2>5. p.alone => Knows(q, usage, lastAccess, attempts, successes, status)
    BY <1>2, <1>4, <2>1, <2>2, ReadKnows
  <2> QED BY <1>6, <2>2, <2>3, <2>4, <2>5
<1>8. CASE ReadAttempts(s)
  <2>1. PICK q : q = [p EXCEPT !.pc = "successes", !.seen = [p.seen EXCEPT !.attempts = attempts]]
    OBVIOUS
  <2>2. p.pc = "attempts" /\ scan' = [scan EXCEPT ![s] = q]
    BY <1>1, <1>3, <1>8, <2>1 DEF ReadAttempts, Reads
  <2>3. q.alone = p.alone  BY <1>2, <2>1 DEF Passes
  <2>4. UNCHANGED <<usage, lastAccess, attempts, successes, status>>
    BY <1>8 DEF ReadAttempts, Reads, signals
  <2>5. p.alone => Knows(q, usage, lastAccess, attempts, successes, status)
    BY <1>2, <1>4, <2>1, <2>2, ReadKnows
  <2> QED BY <1>6, <2>2, <2>3, <2>4, <2>5
<1>9. CASE ReadSuccesses(s)
  <2>1. PICK q : q = [p EXCEPT !.pc = "status", !.seen = [p.seen EXCEPT !.successes = successes]]
    OBVIOUS
  <2>2. p.pc = "successes" /\ scan' = [scan EXCEPT ![s] = q]
    BY <1>1, <1>3, <1>9, <2>1 DEF ReadSuccesses, Reads
  <2>3. q.alone = p.alone  BY <1>2, <2>1 DEF Passes
  <2>4. UNCHANGED <<usage, lastAccess, attempts, successes, status>>
    BY <1>9 DEF ReadSuccesses, Reads, signals
  <2>5. p.alone => Knows(q, usage, lastAccess, attempts, successes, status)
    BY <1>2, <1>4, <2>1, <2>2, ReadKnows
  <2> QED BY <1>6, <2>2, <2>3, <2>4, <2>5
<1>10. CASE ReadStatus(s)
  <2>1. p.pc = "status"  BY <1>1, <1>10 DEF ReadStatus
  <2>2. PICK st \in Statuses : st = status[EntityIds[Len(p.current) + 1]]
    <3>1. Len(p.current) < Cardinality(Entities) /\ Len(p.current) \in Nat
      BY <1>2, <2>1 DEF PassTyped, Passes
    <3>2. Len(p.current) + 1 \in DOMAIN EntityIds  BY <3>1, IdsListed
    <3>3. EntityIds[Len(p.current) + 1] \in Entities  BY <3>2, IdsListed
    <3> QED BY <1>3, <3>3
  <2>3. PICK q : q = Reading(p, st)  OBVIOUS
  <2>4. IF Len(q.current) < Len(EntityIds) THEN scan' = [scan EXCEPT ![s] = q]
        ELSE \E apply \in BOOLEAN : scan' = [scan EXCEPT ![s] = Deciding(q, apply)]
    BY <1>1, <1>10, <2>2, <2>3 DEF ReadStatus, Reading, Deciding
  <2>5. UNCHANGED <<usage, lastAccess, attempts, successes, status>>
    BY <1>10 DEF ReadStatus, signals
  <2>6. p.alone =>
           /\ Knows(q, usage, lastAccess, attempts, successes, status)
           /\ ~(Len(q.current) < Cardinality(Entities)) =>
                 \A apply \in BOOLEAN :
                    Knows(Deciding(q, apply), usage, lastAccess, attempts, successes, status)
    BY <1>2, <1>4, <2>1, <2>2, <2>3, StatusKnows
  <2>7. q.alone = p.alone /\ q \in Passes
    <3>1. q \in Passes  BY <1>2, <2>1, <2>3, StatusKeeps
    <3>2. q.alone = p.alone  BY <1>2, <2>3 DEF Passes, Reading
    <3> QED BY <3>1, <3>2
  <2>8. \A apply \in BOOLEAN : Deciding(q, apply).alone = q.alone
    BY <2>7 DEF Passes, Deciding
  <2>9. CASE Len(q.current) < Cardinality(Entities)
    <3>1. scan' = [scan EXCEPT ![s] = q]  BY <2>4, <2>9, IdsListed
    <3> QED BY <1>6, <2>5, <2>6, <2>7, <3>1
  <2>10. CASE ~(Len(q.current) < Cardinality(Entities))
    <3>1. PICK apply \in BOOLEAN : scan' = [scan EXCEPT ![s] = Deciding(q, apply)]
      BY <2>4, <2>10, IdsListed
    <3> QED BY <1>6, <2>5, <2>6, <2>7, <2>8, <2>10, <3>1
  <2> QED BY <2>9, <2>10
<1>11. CASE Apply(s)
  <2>1. PICK n : n = Min(p.todo)  OBVIOUS
  <2>2. PICK q : q = [p EXCEPT !.todo = @ \ {n}]  OBVIOUS
  <2>3. scan' = [scan EXCEPT ![s] = q]  BY <1>1, <1>3, <1>11, <2>1, <2>2 DEF Apply
  <2>4. q.alone = p.alone  BY <1>2, <2>2 DEF Passes
  <2>5. status' = [status EXCEPT ![EntityIds[n]] = Applied(DecayDecision(p, n))]
    BY <1>1, <1>11, <2>1 DEF Apply
  <2>6. p.pc = "apply" /\ p.todo # {}  BY <1>1, <1>11 DEF Apply
  <2>7. UNCHANGED <<usage, lastAccess, attempts, successes>>  BY <1>11 DEF Apply, signals
  <2>8. p.alone => Knows(q, usage, lastAccess, attempts, successes, status')
    BY <1>2, <1>3, <1>4, <2>1, <2>2, <2>5, <2>6, ApplyKnows
  <2> QED BY <1>6, <2>3, <2>4, <2>7, <2>8
<1>12. CASE Return(s)
  <2>1. scan' = [scan EXCEPT ![s] = None]  BY <1>12 DEF Return
  <2> QED BY <1>6, <2>1
<1>13. CASE ScanDies(s)
  <2>1. scan' = [scan EXCEPT ![s] = None]  BY <1>13 DEF ScanDies
  <2> QED BY <1>6, <2>1
<1> QED BY <1>7, <1>8, <1>9, <1>10, <1>11, <1>12, <1>13

LEMMA AloneStep ==
    ASSUME LifeType, AloneInv, [LifeNext]_lifeVars
    PROVE  AloneInv'
<1>1. CASE UNCHANGED lifeVars  BY <1>1 DEF AloneInv, lifeVars
<1>2. CASE \E w \in Writers :
              \/ SetLastAccess(w) \/ CountSuccess(w)
              \/ \E e \in Used : RecordAccess(w, e) \/ \E success \in BOOLEAN : RecordOutcome(w, e, success)
  <2>1. scan' = Disturbed  BY <1>2 DEF SetLastAccess, CountSuccess, RecordAccess, RecordOutcome
  <2> QED BY <2>1, DisturbedAlone
<1>3. CASE \E w \in Writers : WriterDies(w)
  <2>1. UNCHANGED <<usage, lastAccess, attempts, successes, status, scan>>
    BY <1>3 DEF WriterDies, signals
  <2> QED BY <2>1 DEF AloneInv
<1>4. CASE \E s \in Scanners : \E edges \in Graphs : BeginScan(s, edges)
  BY <1>4, BeginAlone
<1>5. CASE \E s \in Scanners : /\ scan[s] # None
                               /\ \/ ReadLast(s) \/ ReadAttempts(s) \/ ReadSuccesses(s) \/ ReadStatus(s)
                                  \/ Apply(s) \/ Return(s) \/ ScanDies(s)
  BY <1>5, PassStepAlone
<1>6. CASE LifeTick
  <2>1. UNCHANGED <<usage, lastAccess, attempts, successes, status, scan>>
    BY <1>6 DEF LifeTick, signals
  <2> QED BY <2>1 DEF AloneInv
<1> QED BY <1>1, <1>2, <1>3, <1>4, <1>5, <1>6 DEF LifeNext
(* The scores of a pass that has read everything.                          *)
LEMMA PassScores ==
    ASSUME NEW p, PassTyped(p), p.pc = "apply", NEW e \in Entities
    PROVE  /\ Score(e, p.seen, p.edges, p.now).score \in Int
           /\ Score(e, p.seen, p.edges, p.now).centrality
                 = Saturating(InDegree(p.edges, e), CentralitySaturation)
           /\ Score(e, p.seen, p.edges, p.now).score < LowPriority =>
                 40 * Saturating(p.first[e], UsageSaturation)
                   + 20 * Saturating(InDegree(p.edges, e), CentralitySaturation) < 100 * LowPriority
<1>1. /\ p \in Passes /\ p.seen.usage = p.first /\ p.seen.last \in Times
      /\ p.seen.attempts \in Counts /\ p.seen.successes \in Counts
  BY DEF PassTyped
<1>2. p.first \in Counts /\ p.edges \in Graphs /\ p.now \in 0..MaxClock  BY <1>1 DEF Passes
<1>3. SeenTyped(p.seen, e)  BY <1>1, <1>2 DEF SeenTyped, Counts, Times
<1>4. IsFiniteSet(p.edges)  BY <1>2, LifecycleAssumption
<1>5. PICK seen : seen = p.seen  OBVIOUS
<1>6. PICK edges : edges = p.edges  OBVIOUS
<1>7. PICK at \in 0..MaxClock : at = p.now  BY <1>2
<1>8. /\ Score(e, seen, edges, at).score \in Int
      /\ Score(e, seen, edges, at).centrality = Saturating(InDegree(edges, e), CentralitySaturation)
      /\ Score(e, seen, edges, at).score < LowPriority =>
            40 * Saturating(seen.usage[e], UsageSaturation)
              + 20 * Saturating(InDegree(edges, e), CentralitySaturation) < 100 * LowPriority
  BY <1>3, <1>4, <1>5, <1>6, ScoreIn
<1> QED BY <1>1, <1>5, <1>6, <1>7, <1>8

LEMMA DowngradesStep ==
    ASSUME LifeType, [LifeNext]_lifeVars
    PROVE  DowngradesEarned
<1> SUFFICES ASSUME NEW e \in Entities, status[e] = "active", status'[e] = "low"
             PROVE  \E s \in Scanners :
                      /\ scan[s] # None /\ scan[s].pc = "apply"
                      /\ LET central == Saturating(InDegree(scan[s].edges, e), CentralitySaturation) IN
                         /\ central < CentralityLow
                         /\ 40 * Saturating(scan[s].first[e], UsageSaturation) + 20 * central
                              < 100 * LowPriority
  BY DEF DowngradesEarned
<1>1. PICK s \in Scanners : scan[s] # None /\ Apply(s)
  <2>1. status' # status  OBVIOUS
  <2> QED BY <2>1 DEF LifeNext, lifeVars, SetLastAccess, CountSuccess, WriterDies, RecordAccess,
                RecordOutcome, BeginScan, ReadLast, ReadAttempts, ReadSuccesses, Reads, ReadStatus,
                Return, ScanDies, LifeTick
<1>2. PICK p : p = scan[s]  OBVIOUS
<1>3. PassTyped(p) /\ p.pc = "apply"  BY <1>1, <1>2 DEF LifeType, Apply
<1>4. PICK n : n = Min(p.todo)  OBVIOUS
<1>5. status' = [status EXCEPT ![EntityIds[n]] = Applied(DecayDecision(p, n))]
  BY <1>1, <1>2, <1>4 DEF Apply
<1>6. EntityIds[n] = e /\ Applied(DecayDecision(p, n)) = "low"
  <2>1. status \in [Entities -> Statuses]  BY DEF LifeType
  <2> QED BY <1>5, <2>1
<1>7. DecayDecision(p, n) = "downgrade"  BY <1>6 DEF Applied
<1>8. DowngradeDue(Score(e, p.seen, p.edges, p.now), p.seen.last[e], p.now)
  BY <1>6, <1>7 DEF DecayDecision, DecayAction
<1>9. /\ Score(e, p.seen, p.edges, p.now).centrality < CentralityLow
      /\ Score(e, p.seen, p.edges, p.now).score < LowPriority
  BY <1>8 DEF DowngradeDue
<1>10. /\ Score(e, p.seen, p.edges, p.now).centrality
             = Saturating(InDegree(p.edges, e), CentralitySaturation)
       /\ Score(e, p.seen, p.edges, p.now).score < LowPriority =>
             40 * Saturating(p.first[e], UsageSaturation)
               + 20 * Saturating(InDegree(p.edges, e), CentralitySaturation) < 100 * LowPriority
  BY <1>3, PassScores
<1> QED BY <1>1, <1>2, <1>3, <1>9, <1>10

(* A second scan right after one that was left alone has nothing to do.    *)
LEMMA IdleAgain ==
    ASSUME NEW score \in Int, NEW b, b.score = score, NEW last, NEW current \in Statuses, NEW at,
           NEW action, action = DecayAction(b, last, current, at),
           NEW after, after = IF action # "no_op" THEN Applied(action) ELSE current
    PROVE  DecayAction(b, last, after, at) = "no_op"
<1>1. LowPriority \in Int  BY LifecycleAssumption
<1>2. CASE current = "low" /\ score >= LowPriority
  <2>1. action = "promote" /\ after = "active"  BY <1>2 DEF DecayAction, Applied
  <2>2. ~DowngradeDue(b, last, at)  BY <1>1, <1>2 DEF DowngradeDue
  <2> QED BY <2>1, <2>2 DEF DecayAction
<1>3. CASE ~(current = "low" /\ score >= LowPriority) /\ current = "active" /\ DowngradeDue(b, last, at)
  <2>1. action = "downgrade" /\ after = "low"  BY <1>3 DEF DecayAction, Applied
  <2>2. ~(score >= LowPriority)  BY <1>1, <1>3 DEF DowngradeDue
  <2> QED BY <2>1, <2>2 DEF DecayAction
<1>4. CASE /\ ~(current = "low" /\ score >= LowPriority)
           /\ ~(current = "active" /\ DowngradeDue(b, last, at))
  <2>1. action = "no_op"  BY <1>4 DEF DecayAction
  <2> QED BY <2>1
<1> QED BY <1>2, <1>3, <1>4

LEMMA SecondScans ==
    ASSUME LifeType, AloneInv, NEW s \in Scanners, Finished(scan[s])
    PROVE  SecondScanIdle(scan[s])
<1>1. PICK p : p = scan[s]  OBVIOUS
<1>2. PassTyped(p) /\ p.pc = "apply" /\ p.todo = {}  BY <1>1 DEF LifeType, Finished
<1> SUFFICES ASSUME p.alone, p.applied, NEW e \in Entities
             PROVE  DecayAction(Score(e, [usage |-> usage, last |-> lastAccess,
                                          attempts |-> attempts, successes |-> successes],
                                      p.edges, p.now),
                                lastAccess[e], status[e], p.now) = "no_op"
  BY <1>1 DEF SecondScanIdle
<1>3. Knows(p, usage, lastAccess, attempts, successes, status)
  BY <1>1 DEF AloneInv, Finished
<1>4. /\ p.seen.usage = usage /\ p.seen.last = lastAccess
      /\ p.seen.attempts = attempts /\ p.seen.successes = successes
  BY <1>2, <1>3 DEF Knows
<1>5. PICK b : b = Score(e, p.seen, p.edges, p.now)  OBVIOUS
<1>6. Score(e, [usage |-> usage, last |-> lastAccess, attempts |-> attempts, successes |-> successes],
            p.edges, p.now) = b
  BY <1>4, <1>5 DEF Score
<1>7. PICK n \in DOMAIN EntityIds : EntityIds[n] = e  BY IdsListed
<1>8. p.current[n] \in Statuses
  <2>1. p.current \in Seq(Statuses) /\ Len(p.current) = Cardinality(Entities)
    BY <1>2 DEF PassTyped, Passes
  <2> QED BY <1>7, <2>1, IdsListed
<1>9. DecayDecision(p, n) = DecayAction(b, lastAccess[e], p.current[n], p.now)
  BY <1>4, <1>5, <1>7 DEF DecayDecision
<1>10. status[e] = IF DecayDecision(p, n) # "no_op" THEN Applied(DecayDecision(p, n)) ELSE p.current[n]
  BY <1>2, <1>3, <1>7 DEF Knows, DecayDue
<1>11. b.score \in Int  BY <1>2, <1>5, PassScores
<1> QED BY <1>6, <1>8, <1>9, <1>10, <1>11, IdleAgain

(* The compactors.                                                         *)
LEMMA MemoryMerges ==
    ASSUME NEW scores
    PROVE  /\ UNION {c.merged : c \in MemoryPlan(scores)} = MemoryVictims(scores)
           /\ \A c, d \in MemoryPlan(scores) : c # d => c.merged \intersect d.merged = {}
<1> DEFINE V == MemoryVictims(scores)
           Group(m) == [module  |-> m,
                        merged  |-> {e \in V : UnitModule[e] = m},
                        summary |-> IF m \in Modules THEN {e \in Units \ V : UnitModule[e] = m} ELSE {}]
<1>1. MemoryPlan(scores) = {Group(m) : m \in {UnitModule[e] : e \in V}}  BY DEF MemoryPlan
<1>2. \A m : Group(m).merged = {e \in V : UnitModule[e] = m}  OBVIOUS
<1> HIDE DEF Group, V
<1>3. ASSUME NEW e \in V PROVE \E c \in MemoryPlan(scores) : e \in c.merged
  <2>1. Group(UnitModule[e]) \in MemoryPlan(scores)  BY <1>1
  <2>2. e \in Group(UnitModule[e]).merged  BY <1>2
  <2> QED BY <2>1, <2>2
<1>4. ASSUME NEW c \in MemoryPlan(scores) PROVE c.merged \subseteq V  BY <1>1, <1>2
<1>5. ASSUME NEW c \in MemoryPlan(scores), NEW d \in MemoryPlan(scores),
             NEW e \in c.merged, e \in d.merged
      PROVE  c = d
  <2>1. PICK m : c = Group(m)  BY <1>1
  <2>2. PICK l : d = Group(l)  BY <1>1
  <2>3. UnitModule[e] = m /\ UnitModule[e] = l  BY <1>2, <1>5, <2>1, <2>2
  <2> QED BY <2>1, <2>2, <2>3
<1> QED BY <1>3, <1>4, <1>5 DEF V

LEMMA GraphMerges ==
    ASSUME NEW scores, NEW edges
    PROVE  /\ UNION {c.merged : c \in GraphPlan(edges, scores)} = Compactable(scores)
           /\ \A c, d \in GraphPlan(edges, scores) : c # d => c.merged \intersect d.merged = {}
           /\ \A c \in GraphPlan(edges, scores) : c.target \in Modules
<1> DEFINE V == Compactable(scores)
<1>1. GraphPlan(edges, scores) = {Merge(m, edges, scores) : m \in {NodeModule(e) : e \in V}}
  BY DEF GraphPlan
<1>2. \A m : /\ Merge(m, edges, scores).merged = {e \in V : NodeModule(e) = m}
             /\ Merge(m, edges, scores).target = m
  BY DEF Merge
<1>3. \A e \in V : e \in Entities /\ NodeModule(e) # None  BY DEF Compactable
<1> HIDE DEF V
<1>4. ASSUME NEW e \in V PROVE \E c \in GraphPlan(edges, scores) : e \in c.merged
  <2>1. Merge(NodeModule(e), edges, scores) \in GraphPlan(edges, scores)  BY <1>1
  <2>2. e \in Merge(NodeModule(e), edges, scores).merged  BY <1>2
  <2> QED BY <2>1, <2>2
<1>5. ASSUME NEW c \in GraphPlan(edges, scores) PROVE c.merged \subseteq V  BY <1>1, <1>2
<1>6. ASSUME NEW c \in GraphPlan(edges, scores), NEW d \in GraphPlan(edges, scores),
             NEW e \in c.merged, e \in d.merged
      PROVE  c = d
  <2>1. PICK m : c = Merge(m, edges, scores)  BY <1>1
  <2>2. PICK l : d = Merge(l, edges, scores)  BY <1>1
  <2>3. NodeModule(e) = m /\ NodeModule(e) = l  BY <1>2, <1>6, <2>1, <2>2
  <2> QED BY <2>1, <2>2, <2>3
<1>7. ASSUME NEW c \in GraphPlan(edges, scores) PROVE c.target \in Modules
  <2>1. PICK e \in V : c = Merge(NodeModule(e), edges, scores)  BY <1>1
  <2>2. c.target = NodeModule(e)  BY <1>2, <2>1
  <2>3. PICK cuts : cuts = {n \in 1..Len(e) - 1 : SubSeq(e, 1, n) \in Modules}  OBVIOUS
  <2>4. cuts # {} /\ NodeModule(e) = SubSeq(e, 1, Max(cuts))  BY <1>3, <2>3 DEF NodeModule
  <2>5. Max(cuts) \in cuts
    <3>1. PICK len \in Int : len = Len(e) - 1  BY <1>3, LifecycleAssumption
    <3>2. IsFiniteSet(1..len)  BY FS_Interval
    <3>3. cuts \subseteq 1..len  BY <2>3, <3>1
    <3>4. IsFiniteSet(cuts)  BY <3>2, <3>3, FS_Subset
    <3>5. cuts \in SUBSET Int  BY <3>3
    <3> QED BY <2>4, <3>4, <3>5, GreatestIn
  <2>6. SubSeq(e, 1, Max(cuts)) \in Modules  BY <2>3, <2>5
  <2> QED BY <2>2, <2>4, <2>6
<1> QED BY <1>4, <1>5, <1>6, <1>7 DEF V
LEMMA PlansOfPass ==
    ASSUME NEW p, PassTyped(p), p.pc = "apply"
    PROVE  PlansFit(Result(p)) /\ EdgesKept(p.edges, Result(p).graph)
<1>1. PICK scores : scores = Scores(p)  OBVIOUS
<1>2. \A e \in Entities : scores[e] = Score(e, p.seen, p.edges, p.now)  BY <1>1 DEF Scores
<1>3. \A e \in Entities : scores[e].score \in Int  BY <1>2, PassScores
<1>4. PICK result : result = Result(p)  OBVIOUS
<1>5. /\ result.memory = MemoryPlan(scores) /\ result.graph = GraphPlan(p.edges, scores)
      /\ result.refresh = RefreshPlan(scores, p.before, p.edges)
      /\ \A n \in DOMAIN EntityIds : result.decided[n] = DecayDecision(p, n)
  BY <1>1, <1>4 DEF Result
<1>6. PICK inMemory : inMemory = UNION {c.merged : c \in result.memory}  OBVIOUS
<1>7. PICK inGraph : inGraph = UNION {c.merged : c \in result.graph}  OBVIOUS
<1>8. inMemory = MemoryVictims(scores)  BY <1>5, <1>6, MemoryMerges
<1>9. inGraph = Compactable(scores)  BY <1>5, <1>7, GraphMerges
<1>10. {LowPriority, CentralityLow, RefreshBelow} \subseteq Int  BY LifecycleAssumption
<1>11. ASSUME NEW n \in DOMAIN EntityIds, NEW e, e = EntityIds[n]
       PROVE  /\ result.decided[n] = "promote" => e \notin inMemory
              /\ (/\ result.decided[n] = "downgrade"
                  /\ Kind[e] \in {"Function", "Method"} /\ NodeModule(e) # None) =>
                    e \in inMemory \intersect inGraph
  <2>1. e \in Entities  BY <1>11, IdsListed
  <2>2. PICK b : b = scores[e]  OBVIOUS
  <2>3. result.decided[n] = DecayAction(b, p.seen.last[e], p.current[n], p.now)
    BY <1>2, <1>5, <1>11, <2>1, <2>2 DEF DecayDecision
  <2>4. b.score \in Int  BY <1>3, <2>1, <2>2
  <2>5. ASSUME result.decided[n] = "promote" PROVE e \notin inMemory
    <3>1. b.score >= LowPriority  BY <2>3, <2>5 DEF DecayAction
    <3>2. ~(b.score < LowPriority)  BY <1>10, <2>4, <3>1
    <3> QED BY <1>8, <2>2, <3>2 DEF MemoryVictims
  <2>6. ASSUME result.decided[n] = "downgrade", Kind[e] \in {"Function", "Method"}, NodeModule(e) # None
        PROVE  e \in inMemory \intersect inGraph
    <3>1. b.centrality < CentralityLow /\ b.score < LowPriority
      BY <2>3, <2>6 DEF DecayAction, DowngradeDue
    <3>2. e \in MemoryVictims(scores)  BY <2>1, <2>2, <2>6, <3>1 DEF MemoryVictims, Units
    <3>3. e \in Compactable(scores)  BY <2>1, <2>2, <2>6, <3>1 DEF Compactable
    <3> QED BY <1>8, <1>9, <3>2, <3>3
  <2> QED BY <2>5, <2>6
<1>12. LowPriority <= RefreshBelow => inMemory \subseteq result.refresh
  <2> SUFFICES ASSUME LowPriority <= RefreshBelow, NEW e \in inMemory PROVE e \in result.refresh
    OBVIOUS
  <2>1. e \in Entities /\ scores[e].score < LowPriority  BY <1>8 DEF MemoryVictims, Units
  <2>2. scores[e].score < RefreshBelow  BY <1>3, <1>10, <2>1
  <2> QED BY <1>5, <2>1, <2>2 DEF RefreshPlan
<1>13. ASSUME NEW c \in result.graph PROVE c.target \notin inMemory \union inGraph
  <2>1. c.target \in Modules  BY <1>5, GraphMerges
  <2>2. Kind[c.target] = "Module"  BY <2>1 DEF Modules
  <2>3. c.target \notin inMemory  BY <1>8, <2>2 DEF MemoryVictims
  <2>4. c.target \notin inGraph  BY <1>9, <2>2 DEF Compactable
  <2> QED BY <2>3, <2>4
<1>14. /\ \A c, d \in result.memory : c # d => c.merged \intersect d.merged = {}
       /\ \A c, d \in result.graph : c # d => c.merged \intersect d.merged = {}
  BY <1>5, MemoryMerges, GraphMerges
<1>15. PlansFit(result)
  BY <1>6, <1>7, <1>11, <1>12, <1>13, <1>14 DEF PlansFit
<1>16. ASSUME NEW c \in result.graph, NEW x \in p.edges
       PROVE  /\ (x.src \in c.merged /\ x.dst \notin inGraph \union {c.target}) =>
                    [src |-> c.target, kind |-> x.kind, dst |-> x.dst] \in c.kept
              /\ (x.dst \in c.merged /\ x.src \notin inGraph \union {c.target}) =>
                    [src |-> x.src, kind |-> x.kind, dst |-> c.target] \in c.kept
  <2>1. PICK m : c = Merge(m, p.edges, scores)  BY <1>5 DEF GraphPlan
  <2>2. c.target = m /\ c.kept = PreservedEdges(p.edges, c.merged, m)  BY <2>1 DEF Merge
  <2>3. c.merged \subseteq inGraph  BY <1>7
  <2> DEFINE to(e) == IF e \in c.merged THEN m ELSE e
             moved == {[src |-> to(y.src), kind |-> y.kind, dst |-> to(y.dst)] :
                          y \in {z \in p.edges : z.src \in c.merged \/ z.dst \in c.merged}}
  <2>4. c.kept = {y \in moved : y.src # y.dst}  BY <2>2 DEF PreservedEdges
  <2>5. ASSUME x.src \in c.merged, x.dst \notin inGraph \union {c.target}
        PROVE  [src |-> c.target, kind |-> x.kind, dst |-> x.dst] \in c.kept
    <3>1. to(x.src) = m /\ to(x.dst) = x.dst  BY <2>3, <2>5
    <3>2. [src |-> to(x.src), kind |-> x.kind, dst |-> to(x.dst)] \in moved  BY <2>5
    <3>3. [src |-> m, kind |-> x.kind, dst |-> x.dst] \in moved  BY <3>1, <3>2
    <3>4. m # x.dst  BY <2>2, <2>5
    <3> HIDE DEF moved
    <3> QED BY <2>2, <2>4, <3>3, <3>4
  <2>6. ASSUME x.dst \in c.merged, x.src \notin inGraph \union {c.target}
        PROVE  [src |-> x.src, kind |-> x.kind, dst |-> c.target] \in c.kept
    <3>1. to(x.dst) = m /\ to(x.src) = x.src  BY <2>3, <2>6
    <3>2. [src |-> to(x.src), kind |-> x.kind, dst |-> to(x.dst)] \in moved  BY <2>6
    <3>3. [src |-> x.src, kind |-> x.kind, dst |-> m] \in moved  BY <3>1, <3>2
    <3>4. m # x.src  BY <2>2, <2>6
    <3> HIDE DEF moved
    <3> QED BY <2>2, <2>4, <3>3, <3>4
  <2> QED BY <2>5, <2>6
<1>17. EdgesKept(p.edges, result.graph)  BY <1>7, <1>16 DEF EdgesKept
<1> QED BY <1>4, <1>15, <1>17

(* Decay and plans stay sound for any entities, graphs, writers, scanners  *)
(* and thresholds: only a scan that began before an entity was used enough *)
(* downgrades it, a scan nobody disturbed leaves nothing for a second, and *)
(* the plans of one scan fit each other and keep the edges.                *)
THEOREM ScansAlwaysSound == LifeSpec => ScansSound
<1> DEFINE Sound == \A s \in Scanners : Finished(scan[s]) =>
                       LET result == Result(scan[s]) IN
                       /\ SecondScanIdle(scan[s])
                       /\ PlansFit(result)
                       /\ EdgesKept(scan[s].edges, result.graph)
<1>1. LifeInit => LifeType /\ AloneInv
  <2>1. LifeInit => AloneInv  BY DEF LifeInit, AloneInv
  <2> QED BY <2>1, LifeTypeInit
<1>2. LifeType /\ AloneInv /\ [LifeNext]_lifeVars => (LifeType /\ AloneInv)'
  BY LifeTypeStep, AloneStep
<1>3. LifeType /\ AloneInv => Sound
  <2> SUFFICES ASSUME LifeType, AloneInv, NEW s \in Scanners, Finished(scan[s])
               PROVE  /\ SecondScanIdle(scan[s]) /\ PlansFit(Result(scan[s]))
                      /\ EdgesKept(scan[s].edges, Result(scan[s]).graph)
    OBVIOUS
  <2>1. PassTyped(scan[s]) /\ scan[s].pc = "apply"  BY DEF LifeType, Finished
  <2> QED BY <2>1, SecondScans, PlansOfPass
<1>4. LifeType /\ [LifeNext]_lifeVars => [DowngradesEarned]_lifeVars
  BY DowngradesStep
<1> HIDE DEF Sound
<1>5. LifeSpec => []Sound /\ [][DowngradesEarned]_lifeVars
  BY <1>1, <1>2, <1>3, <1>4, PTL DEF LifeSpec
<1> QED BY <1>5 DEF ScansSound, Sound
=============================================================================

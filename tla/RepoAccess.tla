----------------------------- MODULE RepoAccess -----------------------------
(***************************************************************************)
(* Who may reach which repository: the registry's organisation of a        *)
(* repository, teams, grants and roles, as the access map combines them,   *)
(* and the first ingest that registers a repository.  Administrators       *)
(* check and then write, in two statements; a request reads the registry,  *)
(* the teams and the grants one after the other.                           *)
(***************************************************************************)
EXTENDS Nothing, Naturals

CONSTANTS
    Users, Orgs, Repos, Teams,
    TeamOrg,        \* the organisation each team is created in
    Roles,          \* of members: subset of {"owner", "admin", "member", "viewer"}
    Access,         \* of grants: subset of {"read", "write", "admin"}
    Slots,          \* requests in flight
    MaxOps          \* bound on requests begun

ASSUME AccessAssumption == Access \subseteq {"read", "write", "admin"}

Subjects == [kind : {"user"}, id : Users] \union [kind : {"team"}, id : Teams]

VARIABLES
    role,           \* user -> organisation -> role or None
    registry,       \* repository -> organisation or None
    teams,          \* team -> "new", "live", "deleted"; an id is used once
    teamMembers,    \* pairs of team_memberships
    grants,         \* <<repository, subject>> -> None or [org, access]
    given,          \* what administrators granted and did not revoke
    req,            \* slot -> None or a request
    ops

accessVars == <<role, registry, teams, teamMembers, grants, given, req, ops>>

Init ==
    /\ role = [u \in Users |-> [o \in Orgs |-> None]]
    /\ registry = [r \in Repos |-> None]
    /\ teams = [t \in Teams |-> "new"] /\ teamMembers = {}
    /\ grants = [g \in Repos \X Subjects |-> None] /\ given = {}
    /\ req = [s \in Slots |-> None] /\ ops = 0

---------------------------------------------------------------------------
(* The access map.                                                         *)

Rank == [read |-> 0, write |-> 1, admin |-> 2]
LevelAtLeast(have, need) == have # None /\ Rank[have] >= Rank[need]
MaxLevel(levels) ==
    IF levels = {} THEN None ELSE CHOOSE a \in levels : \A b \in levels : Rank[a] >= Rank[b]

Privileged(r) == r \in {"agent", "owner", "admin"}

OrgRepoIds(o) == {r \in Repos : registry[r] = o}
TeamIdsForUser(u, o) == {t \in Teams : teams[t] = "live" /\ TeamOrg[t] = o /\ <<t, u>> \in teamMembers}
ListForSubjects(o, u, ts) ==
    {g \in Repos \X Subjects :
        /\ grants[g] # None /\ grants[g].org = o
        /\ \/ g[2].kind = "user" /\ g[2].id = u
           \/ g[2].kind = "team" /\ g[2].id \in ts}

\* Mutant: a grant counts whatever organisation has the repository now.
ResolveAnywhere(rl, orgRepos, rows, r) ==
    IF Privileged(rl) THEN (IF r \in orgRepos THEN "admin" ELSE None)
    ELSE LET level == MaxLevel({grants[g].access : g \in {x \in rows : x[1] = r}}) IN
         IF level # None /\ rl = "viewer" THEN "read" ELSE level

ResolveRepoAccess(rl, orgRepos, rows, r) ==
    IF r \notin orgRepos THEN None
    ELSE IF Privileged(rl) THEN "admin"
    ELSE LET level == MaxLevel({grants[g].access : g \in {x \in rows : x[1] = r}}) IN
         IF level # None /\ rl = "viewer" THEN "read" ELSE level

\* The level a member of an organisation has, all reads at one instant.
LoadAccess(u, o, r) ==
    ResolveRepoAccess(role[u][o], OrgRepoIds(o), ListForSubjects(o, u, TeamIdsForUser(u, o)), r)

FilterRepos(u, o) == {r \in Repos : LevelAtLeast(LoadAccess(u, o, r), "read")}

---------------------------------------------------------------------------
(* Requests.                                                               *)

Begin(s, q) ==
    /\ req[s] = None /\ ops < MaxOps
    /\ ops' = ops + 1
    /\ req' = [req EXCEPT ![s] = q]

End(s) == req' = [req EXCEPT ![s] = None]

tables == <<role, registry, teams, teamMembers, grants, given>>

\* Members come and go (Accounts has the details); their teams and grants
\* are left as they are.
ChangeRole(u, o, new) ==
    /\ ops < MaxOps /\ role[u][o] # new
    /\ ops' = ops + 1
    /\ role' = [role EXCEPT ![u][o] = new]
    /\ UNCHANGED <<registry, teams, teamMembers, grants, given, req>>

CreateTeam(t) ==
    /\ teams[t] = "new"
    /\ teams' = [teams EXCEPT ![t] = "live"]
    /\ UNCHANGED <<role, registry, teamMembers, grants, given, req, ops>>

\* get_team, then the two deletes of one transaction.
CheckTeam(s, op, t, u) ==
    /\ teams[t] = "live"
    /\ op = "add" => role[u][TeamOrg[t]] # None
    /\ Begin(s, [op |-> op, team |-> t, user |-> u])
    /\ UNCHANGED tables

DeleteTeam(s) ==
    /\ req[s].op = "delete" /\ End(s)
    /\ teams' = [teams EXCEPT ![req[s].team] = "deleted"]
    /\ teamMembers' = {m \in teamMembers : m[1] # req[s].team}
    /\ UNCHANGED <<role, registry, grants, given, ops>>

AddTeamMember(s) ==
    /\ req[s].op = "add" /\ End(s)
    /\ teamMembers' = teamMembers \union {<<req[s].team, req[s].user>>}
    /\ UNCHANGED <<role, registry, teams, grants, given, ops>>

RemoveTeamMember(s) ==
    /\ req[s].op = "remove" /\ End(s)
    /\ teamMembers' = teamMembers \ {<<req[s].team, req[s].user>>}
    /\ UNCHANGED <<role, registry, teams, grants, given, ops>>

\* create_grant: a repository without a row is the default organisation's;
\* the subject is not looked up.
CheckGrant(s, o, r, subject, access) ==
    /\ (IF registry[r] = None THEN "default" ELSE registry[r]) = o
    /\ Begin(s, [op |-> "grant", org |-> o, repo |-> r, subject |-> subject, access |-> access])
    /\ UNCHANGED tables

\* On a conflict only the access is written: the row keeps the
\* organisation that granted first.
Grant(s) ==
    /\ req[s].op = "grant" /\ End(s)
    /\ LET q == req[s]
           g == <<q.repo, q.subject>>
           org == IF grants[g] = None THEN q.org ELSE grants[g].org IN
       /\ grants' = [grants EXCEPT ![g] = [org |-> org, access |-> q.access]]
       /\ given' = given \union {[org |-> q.org, repo |-> q.repo, subject |-> q.subject,
                                  access |-> q.access]}
    /\ UNCHANGED <<role, registry, teams, teamMembers, ops>>

RevokeGrant(g) ==
    /\ grants[g] # None
    /\ grants' = [grants EXCEPT ![g] = None]
    /\ given' = {x \in given : <<x.repo, x.subject>> # g}
    /\ UNCHANGED <<role, registry, teams, teamMembers, req, ops>>

\* remove_repo: the row goes, the grants stay.
RemoveRepo(r) ==
    /\ registry[r] # None
    /\ registry' = [registry EXCEPT ![r] = None]
    /\ UNCHANGED <<role, teams, teamMembers, grants, given, req, ops>>

\* An ingest: the principal's role and the organisation's repositories,
\* then the teams, the grants, and, for the privileged, the row again.
ReadRegistry(s, u, o, r) ==
    /\ role[u][o] # None
    /\ Begin(s, [op |-> "teams", user |-> u, role |-> role[u][o], org |-> o, repo |-> r,
                 orgRepos |-> OrgRepoIds(o)])
    /\ UNCHANGED tables

ReadTeams(s) ==
    /\ req[s].op = "teams"
    /\ req' = [req EXCEPT ![s] = [op |-> "grants", user |-> @.user, role |-> @.role, org |-> @.org,
                                  repo |-> @.repo, orgRepos |-> @.orgRepos,
                                  teams |-> TeamIdsForUser(@.user, @.org)]]
    /\ UNCHANGED <<tables, ops>>

\* Allowed on, or to the second look a privileged principal gets, or refused.
ReadGrants(s) ==
    /\ req[s].op = "grants"
    /\ LET q == req[s]
           level == ResolveRepoAccess(q.role, q.orgRepos, ListForSubjects(q.org, q.user, q.teams), q.repo)
           next(op) == req' = [req EXCEPT ![s] = [op |-> op, org |-> q.org, repo |-> q.repo]] IN
       IF LevelAtLeast(level, "write") THEN next("ingest")
       ELSE IF Privileged(q.role) THEN next("hatch") ELSE End(s)
    /\ UNCHANGED <<tables, ops>>

\* A repository of nobody, or of this organisation after all.
Hatch(s) ==
    /\ req[s].op = "hatch"
    /\ IF registry[req[s].repo] \in {None, req[s].org}
       THEN req' = [req EXCEPT ![s].op = "ingest"] ELSE End(s)
    /\ UNCHANGED <<tables, ops>>

\* The run is over: the row is written with the principal's organisation.
UpsertLocal(s) ==
    /\ req[s].op = "ingest" /\ End(s)
    /\ registry' = [registry EXCEPT ![req[s].repo] = req[s].org]
    /\ UNCHANGED <<role, teams, teamMembers, grants, given, ops>>

RunFails(s) ==
    /\ req[s].op = "ingest" /\ End(s)
    /\ UNCHANGED <<tables, ops>>

Arrival(s) ==
    \/ \E op \in {"add", "remove", "delete"}, t \in Teams, u \in Users : CheckTeam(s, op, t, u)
    \/ \E o \in Orgs, r \in Repos, x \in Subjects, a \in Access : CheckGrant(s, o, r, x, a)
    \/ \E u \in Users, o \in Orgs, r \in Repos : ReadRegistry(s, u, o, r)

Step(s) ==
    /\ req[s] # None
    /\ \/ DeleteTeam(s) \/ AddTeamMember(s) \/ RemoveTeamMember(s) \/ Grant(s)
       \/ ReadTeams(s) \/ ReadGrants(s) \/ Hatch(s) \/ UpsertLocal(s) \/ RunFails(s)

Next ==
    \/ \E u \in Users, o \in Orgs, new \in Roles \union {None} : ChangeRole(u, o, new)
    \/ \E t \in Teams : CreateTeam(t)
    \/ \E g \in DOMAIN grants : RevokeGrant(g)
    \/ \E r \in Repos : RemoveRepo(r)
    \/ \E s \in Slots : Arrival(s) \/ Step(s)

Spec == Init /\ [][Next]_accessVars

---------------------------------------------------------------------------

\* Whoever reaches a repository in an organisation reaches one that is
\* registered there; without a privileged role he holds a grant that the
\* organisation gave to him or to one of its teams he is in, was not
\* revoked, and nobody granted less than he has; a viewer only reads.
\* However removals, first ingests, deleted teams and late writes of checked
\* requests interleave.
AccessGrounded ==
    \A u \in Users, o \in Orgs, r \in Repos :
        LET level == LoadAccess(u, o, r)
            mine == {x \in given : /\ x.repo = r
                                   /\ \/ x.subject.kind = "user" /\ x.subject.id = u
                                      \/ /\ x.subject.kind = "team" /\ teams[x.subject.id] = "live"
                                         /\ <<x.subject.id, u>> \in teamMembers} IN
        level # None =>
            /\ registry[r] = o
            /\ \/ Privileged(role[u][o])
               \/ /\ \E x \in mine : x.org = o
                  /\ \E x \in mine : LevelAtLeast(x.access, level)
                  /\ role[u][o] = "viewer" => level = "read"
=============================================================================

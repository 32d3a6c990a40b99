------------------------------ MODULE Accounts ------------------------------
(***************************************************************************)
(* Accounts of one organization: users, credentials, memberships,          *)
(* invitations, federated identities and sessions, the request handlers    *)
(* that write them, and the in-memory session cache.  Every await of a     *)
(* handler is a point where another request may run; the statements below  *)
(* are transactions of their own, so a handler that stops half way leaves  *)
(* what it has written.                                                    *)
(*                                                                         *)
(* A user is named by its e-mail address, which is unique; the HTTP        *)
(* surface never leaves the default organization; a provider knows a user  *)
(* by one subject, whose e-mail address is verified.                       *)
(***************************************************************************)
EXTENDS Naturals, Sequences, FiniteSets, SequencesExt

CONSTANTS
    Users,       \* e-mail addresses
    Invites,     \* invitations that can be minted
    Sessions,    \* session ids that can be minted
    Slots,       \* requests in progress at the same time
    InviteRoles, \* roles that invitations are minted with
    NewRoles,    \* roles that set_member_role is called with
    None,        \* no user, role, invitation or session
    MaxRequests, \* bound: requests that arrive
    MaxFaults    \* bound: requests that die half way, and restarts

Roles == {"owner", "admin", "member", "viewer"}

ASSUME AccountsAssumption ==
    /\ InviteRoles \subseteq Roles /\ NewRoles \subseteq Roles
    /\ IsFiniteSet(Users)
    /\ None \notin Users \union Roles \union Invites \union Sessions
    /\ MaxRequests \in Nat /\ MaxFaults \in Nat

VARIABLES
    users,      \* table users
    creds,      \* table local_credentials: users with a password
    member,     \* table memberships: the role of each user in the organization
    inv,        \* table invitations
    bound,      \* table federated_identities: users with a provider subject
    sess,       \* table sessions
    cache,      \* SessionCache._active
    req,        \* the request each slot works on
    arrived, faults, \* bounded counters
    founder,    \* history: the first user ever created
    handed,     \* history: sessions whose cookie reached a client
    admitted,   \* history: users each invitation wrote a membership for
    shared,     \* history: invitations with overlapping or broken acceptances
    crossed     \* history: requests during which another wrote a membership

tables == <<users, creds, member, inv, bound, sess>>
ghosts == <<founder, handed, admitted, shared, crossed>>
vars   == <<tables, cache, req, arrived, faults, ghosts>>

Step == {"count", "dup", "role", "create", "password", "member", "session",
         "cache", "revoke", "uncache", "current", "setrole", "accepted",
         "email", "bind", "target", "owners", "delete"}

\* What a handler still has to do, and its local variables.
Request == [todo : Seq(Step), admin : BOOLEAN,
            user : Users \union {None}, role : Roles \union {None},
            inv : Invites \union {None}, sid : Sessions \union {None}]
Idle == [todo |-> <<>>, admin |-> FALSE, user |-> None, role |-> None,
         inv |-> None, sid |-> None]

Busy(s) == req[s].todo # <<>>
At(s, step) == Busy(s) /\ Head(req[s].todo) = step

\* The handler goes on with its next call, with other calls, or returns.
Follow(s, todo) == req' = [req EXCEPT ![s] = IF todo = <<>> THEN Idle
                                            ELSE [@ EXCEPT !.todo = todo]]
Advance(s) == Follow(s, Tail(req[s].todo))
Return(s)  == req' = [req EXCEPT ![s] = Idle]

---------------------------------------------------------------------------
(* The statements of the stores.                                           *)

\* UNIQUE (email): a second insert raises.
InsertUser(u) ==
    /\ u \notin users
    /\ users' = users \union {u}
    /\ founder' = IF users = {} THEN u ELSE founder

SetPassword(u) == creds' = creds \union {u}

\* UNIQUE (user_id, org_id): a second insert raises.
InsertMember(u, r) == member[u] = None /\ member' = [member EXCEPT ![u] = r]

\* An UPDATE: without a row it changes nothing.
SetRole(u, r) ==
    member' = [member EXCEPT ![u] = IF @ = None THEN None ELSE r]

DeleteMember(u) == member' = [member EXCEPT ![u] = None]

Owners == {u \in Users : member[u] = "owner"}

InsertInvite(i, r) == inv' = [inv EXCEPT ![i] = [status |-> "pending", role |-> r]]
\* Mutant: the lookup by token forgets the status.
MintedInvite(i)    == inv[i].status # "none"
PendingInvite(i)   == inv[i].status = "pending"
MarkAccepted(i)    == inv' = [inv EXCEPT ![i].status = "accepted"]
RevokeInvite(i)    == inv' = [inv EXCEPT ![i].status = "revoked"]

InsertSession(sid, u) == sess' = [sess EXCEPT ![sid] = [state |-> "active", user |-> u]]
RevokeSession(sid)    == sess' = [sess EXCEPT ![sid].state = "revoked"]
ActiveSession(sid)    == sess[sid].state = "active"
ActiveSessionIds      == {sid \in Sessions : ActiveSession(sid)}

\* UNIQUE (provider, subject): a second insert raises.
InsertIdentity(u) == u \notin bound /\ bound' = bound \union {u}

---------------------------------------------------------------------------
(* Who calls: a browser whose session is valid in the cache and in the     *)
(* table, an agent with an accepted API key, or nobody known.              *)

Agent == "agent"
Anonymous == "anonymous"

SignedIn == {sess[sid].user : sid \in {x \in cache : ActiveSession(x)}}
HasRole(c, roles) == c \in Users /\ member[c] \in roles
OrgAdmin(c) == c = Agent \/ HasRole(c, {"owner", "admin"})
Callers == SignedIn \union {Agent, Anonymous}

Init ==
    /\ \/ \* an empty instance
          /\ users = {} /\ founder = None
          /\ member = [u \in Users |-> None]
          /\ sess = [sid \in Sessions |-> [state |-> "none", user |-> None]]
       \/ \* an organization with an owner, everybody signed in once
          /\ users = Users /\ founder \in Users
          /\ member \in [Users -> {"owner", "member"}] /\ Owners # {}
          /\ \E f \in [Users -> Sessions] :
                /\ IsInjective(f)
                /\ sess = [sid \in Sessions |->
                      IF \E u \in Users : f[u] = sid
                      THEN [state |-> "active", user |-> CHOOSE u \in Users : f[u] = sid]
                      ELSE [state |-> "none", user |-> None]]
    /\ creds = users /\ bound = {}
    /\ inv = [i \in Invites |-> [status |-> "none", role |-> None]]
    /\ cache = ActiveSessionIds /\ handed = ActiveSessionIds
    /\ req = [s \in Slots |-> Idle]
    /\ arrived = 0 /\ faults = 0
    /\ admitted = [i \in Invites |-> {}] /\ shared = {} /\ crossed = {}

---------------------------------------------------------------------------
(* Arrivals.  Whatever FastAPI's dependencies resolve (the caller, its     *)
(* role, the gate of the endpoint) is decided here and not looked at again.*)

Arrive(s, request) ==
    /\ ~Busy(s) /\ arrived < MaxRequests
    /\ arrived' = arrived + 1
    /\ req' = [req EXCEPT ![s] = request]
    /\ crossed' = crossed \ {s}
    /\ UNCHANGED <<tables, cache, faults, founder, handed, admitted>>

Register(s, u) ==
    \E c \in Callers :
        /\ Arrive(s, [Idle EXCEPT !.todo = <<"count">>, !.user = u,
                                  !.admin = HasRole(c, {"owner", "admin"})])
        /\ UNCHANGED shared

\* A known address with a password; anything else is a 401.
Login(s, u) ==
    /\ u \in users /\ u \in creds
    /\ Arrive(s, [Idle EXCEPT !.todo = <<"session", "cache">>, !.user = u])
    /\ UNCHANGED shared

Logout(s, sid) ==
    /\ sid \in handed
    /\ Arrive(s, [Idle EXCEPT !.todo = <<"revoke", "uncache">>, !.sid = sid])
    /\ UNCHANGED shared

SharesInvite(s, i) ==
    shared' = IF \E t \in Slots \ {s} : req[t].inv = i THEN shared \union {i} ELSE shared

AcceptSignedIn(s, i, u) ==
    /\ PendingInvite(i) /\ u \in SignedIn
    /\ Arrive(s, [Idle EXCEPT !.todo = <<"current">>, !.user = u,
                              !.role = inv[i].role, !.inv = i])
    /\ SharesInvite(s, i)

\* Mutant: the membership is written before the user exists.
AcceptMemberFirst(s, i, u) ==
    /\ PendingInvite(i)
    /\ Arrive(s, [Idle EXCEPT !.user = u, !.role = inv[i].role, !.inv = i,
                     !.todo = <<"member", "create", "password", "accepted",
                                "session", "cache">>])
    /\ SharesInvite(s, i)

AcceptAnonymous(s, i, u) ==
    /\ PendingInvite(i)
    /\ Arrive(s, [Idle EXCEPT !.user = u, !.role = inv[i].role, !.inv = i,
                     !.todo = <<"create", "password", "member", "accepted",
                                "session", "cache">>])
    /\ SharesInvite(s, i)

OAuthCallback(s, u) ==
    /\ Arrive(s, [Idle EXCEPT !.user = u,
                     !.todo = IF u \in bound THEN <<"session", "cache">>
                                             ELSE <<"email">>])
    /\ UNCHANGED shared

SetMemberRole(s, u, r) ==
    /\ \E c \in Callers : OrgAdmin(c)
    /\ Arrive(s, [Idle EXCEPT !.todo = <<"target", "owners", "setrole">>, !.user = u, !.role = r])
    /\ UNCHANGED shared

RemoveMember(s, u) ==
    /\ \E c \in Callers : OrgAdmin(c)
    /\ Arrive(s, [Idle EXCEPT !.todo = <<"target", "owners", "delete">>, !.user = u])
    /\ UNCHANGED shared

\* One INSERT, of a token nobody has yet: it commutes with every other step.
CreateInvitation(i, r) ==
    /\ \E c \in Callers : OrgAdmin(c)
    /\ inv[i].status = "none" /\ arrived < MaxRequests
    /\ InsertInvite(i, r)
    /\ arrived' = arrived + 1
    /\ UNCHANGED <<users, creds, member, bound, sess, cache, req, faults, ghosts>>

\* One UPDATE, whatever the invitation's status is.
RevokeInvitation(i) ==
    /\ \E c \in Callers : OrgAdmin(c)
    /\ inv[i].status # "none" /\ arrived < MaxRequests
    /\ RevokeInvite(i)
    /\ arrived' = arrived + 1
    /\ UNCHANGED <<users, creds, member, bound, sess, cache, req, faults, ghosts>>

---------------------------------------------------------------------------
(* The calls of the handlers.                                              *)

Keep(x) == UNCHANGED <<x, arrived, faults>>

\* Mutant: the role is decided after the user exists.
CountRoleLate(s) ==
    /\ At(s, "count")
    /\ IF users # {} /\ ~req[s].admin
       THEN Return(s)
       ELSE Follow(s, IF users = {}
                      THEN <<"dup", "create", "role", "password", "member", "session", "cache">>
                      ELSE <<"dup", "create", "role", "password", "member">>)
    /\ Keep(<<tables, cache, ghosts>>)

\* register: only the first user may come without an admin.
Count(s) ==
    /\ At(s, "count")
    /\ IF users # {} /\ ~req[s].admin
       THEN Return(s)
       ELSE Follow(s, IF users = {}
                      THEN <<"dup", "role", "create", "password", "member", "session", "cache">>
                      ELSE <<"dup", "role", "create", "password", "member">>)
    /\ Keep(<<tables, cache, ghosts>>)

RejectDuplicate(s) ==
    /\ At(s, "dup")
    /\ IF req[s].user \in users THEN Return(s) ELSE Advance(s)
    /\ Keep(<<tables, cache, ghosts>>)

\* provision_user: the role is decided before the user is created.
DecideRole(s) ==
    /\ At(s, "role")
    /\ req' = [req EXCEPT ![s].todo = Tail(@),
                          ![s].role = IF users = {} THEN "owner" ELSE "member"]
    /\ Keep(<<tables, cache, ghosts>>)

CreateUser(s) ==
    /\ At(s, "create")
    /\ \/ InsertUser(req[s].user) /\ Advance(s)
       \/ req[s].user \in users /\ Return(s) /\ UNCHANGED <<users, founder>>
    /\ Keep(<<creds, member, inv, bound, sess, cache, handed, admitted, shared, crossed>>)

StorePassword(s) ==
    /\ At(s, "password")
    /\ SetPassword(req[s].user) /\ Advance(s)
    /\ Keep(<<users, member, inv, bound, sess, cache, ghosts>>)

\* A membership was written: who else is in progress, and by which invitation.
Crosses(s) == crossed' = crossed \union {t \in Slots \ {s} : Busy(t)}
Admits(s)  == admitted' = [i \in Invites |->
    IF i = req[s].inv THEN admitted[i] \union {req[s].user} ELSE admitted[i]]

AddMember(s) ==
    /\ At(s, "member")
    /\ \/ InsertMember(req[s].user, req[s].role) /\ Advance(s) /\ Crosses(s) /\ Admits(s)
       \/ /\ member[req[s].user] # None /\ Return(s)
          /\ UNCHANGED <<member, crossed, admitted>>
    /\ Keep(<<users, creds, inv, bound, sess, cache, founder, handed, shared>>)

ChangeRole(s) ==
    /\ At(s, "setrole")
    /\ SetRole(req[s].user, req[s].role) /\ Advance(s) /\ Crosses(s) /\ Admits(s)
    /\ Keep(<<users, creds, inv, bound, sess, cache, founder, handed, shared>>)

DropMember(s) ==
    /\ At(s, "delete")
    /\ DeleteMember(req[s].user) /\ Advance(s) /\ Crosses(s)
    /\ Keep(<<users, creds, inv, bound, sess, cache, founder, handed, admitted, shared>>)

\* set_member_role and remove_member (which asks for no role): an owner goes
\* only if the guard lets it.
ReadTarget(s) ==
    LET u == req[s].user
        guarded == Tail(req[s].todo)
        loses == member[u] = "owner" /\ req[s].role # "owner" IN
    /\ At(s, "target")
    /\ IF member[u] = None THEN Return(s)
       ELSE Follow(s, IF loses THEN guarded ELSE Tail(guarded))
    /\ Keep(<<tables, cache, ghosts>>)

\* Mutant: an off-by-one in the guard.
CountOwnersNone(s) ==
    /\ At(s, "owners")
    /\ IF Cardinality(Owners) < 1 THEN Return(s) ELSE Advance(s)
    /\ Keep(<<tables, cache, ghosts>>)

CountOwners(s) ==
    /\ At(s, "owners")
    /\ IF Cardinality(Owners) <= 1 THEN Return(s) ELSE Advance(s)
    /\ Keep(<<tables, cache, ghosts>>)

\* accept_invite of a signed-in user: change the membership or add one.
ReadCurrent(s) ==
    /\ At(s, "current")
    /\ Follow(s, <<IF member[req[s].user] # None THEN "setrole" ELSE "member", "accepted">>)
    /\ Keep(<<tables, cache, ghosts>>)

AcceptDone(s) ==
    /\ At(s, "accepted")
    /\ MarkAccepted(req[s].inv) /\ Advance(s)
    /\ Keep(<<users, creds, member, bound, sess, cache, ghosts>>)

\* oauth_callback: link by verified address, or create the account.
FindByEmail(s) ==
    /\ At(s, "email")
    /\ Follow(s, IF req[s].user \in users THEN <<"bind", "session", "cache">>
                 ELSE <<"role", "create", "member", "bind", "session", "cache">>)
    /\ Keep(<<tables, cache, ghosts>>)

BindIdentity(s) ==
    /\ At(s, "bind")
    /\ \/ InsertIdentity(req[s].user) /\ Advance(s)
       \/ req[s].user \in bound /\ Return(s) /\ UNCHANGED bound
    /\ Keep(<<users, creds, member, inv, sess, cache, ghosts>>)

OpenSession(s) ==
    /\ At(s, "session")
    /\ \E sid \in Sessions :
        /\ sess[sid].state = "none"
        /\ InsertSession(sid, req[s].user)
        /\ req' = [req EXCEPT ![s].todo = Tail(@), ![s].sid = sid]
    /\ Keep(<<users, creds, member, inv, bound, cache, ghosts>>)

CacheSession(s) ==
    /\ At(s, "cache")
    /\ cache' = cache \union {req[s].sid}
    /\ handed' = handed \union {req[s].sid}
    /\ Advance(s)
    /\ Keep(<<tables, founder, admitted, shared, crossed>>)

CloseSession(s) ==
    /\ At(s, "revoke")
    /\ RevokeSession(req[s].sid) /\ Advance(s)
    /\ Keep(<<users, creds, member, inv, bound, cache, ghosts>>)

UncacheSession(s) ==
    /\ At(s, "uncache")
    /\ cache' = cache \ {req[s].sid}
    /\ Advance(s)
    /\ Keep(<<tables, ghosts>>)

---------------------------------------------------------------------------
(* Time, failures and restarts.                                            *)

ExpireSession(sid) ==
    /\ ActiveSession(sid)
    /\ sess' = [sess EXCEPT ![sid].state = "expired"]
    /\ UNCHANGED <<users, creds, member, inv, bound, cache, req, arrived, faults, ghosts>>

ExpireInvite(i) ==
    /\ PendingInvite(i)
    /\ inv' = [inv EXCEPT ![i].status = "expired"]
    /\ UNCHANGED <<users, creds, member, bound, sess, cache, req, arrived, faults, ghosts>>

\* A call of the handler raises: the request ends, its statements stay.
Abort(s) ==
    /\ Busy(s) /\ faults < MaxFaults
    /\ Return(s)
    /\ faults' = faults + 1
    /\ shared' = shared \union ({req[s].inv} \ {None})
    /\ UNCHANGED <<tables, cache, arrived, founder, handed, admitted, crossed>>

\* Mutant: the cache is not loaded at startup.
RestartCold ==
    /\ faults < MaxFaults
    /\ req' = [s \in Slots |-> Idle]
    /\ cache' = {}
    /\ faults' = faults + 1
    /\ shared' = shared \union ({req[s].inv : s \in Slots} \ {None})
    /\ UNCHANGED <<tables, arrived, founder, handed, admitted, crossed>>

\* The process dies; at the next start the cache is loaded from the table.
Restart ==
    /\ faults < MaxFaults
    /\ req' = [s \in Slots |-> Idle]
    /\ cache' = ActiveSessionIds
    /\ faults' = faults + 1
    /\ shared' = shared \union ({req[s].inv : s \in Slots} \ {None})
    /\ UNCHANGED <<tables, arrived, founder, handed, admitted, crossed>>

Arrival(s) ==
    \/ \E u \in Users : \/ Register(s, u) \/ Login(s, u) \/ OAuthCallback(s, u)
                        \/ RemoveMember(s, u)
                        \/ \E r \in NewRoles : SetMemberRole(s, u, r)
                        \/ \E i \in Invites : AcceptSignedIn(s, i, u) \/ AcceptAnonymous(s, i, u)
    \/ \E sid \in Sessions : Logout(s, sid)

Call(s) ==
    \/ Count(s) \/ RejectDuplicate(s) \/ DecideRole(s) \/ CreateUser(s)
    \/ StorePassword(s) \/ AddMember(s) \/ ChangeRole(s) \/ DropMember(s)
    \/ ReadTarget(s) \/ CountOwners(s) \/ ReadCurrent(s) \/ AcceptDone(s)
    \/ FindByEmail(s) \/ BindIdentity(s) \/ OpenSession(s)
    \/ CacheSession(s) \/ CloseSession(s) \/ UncacheSession(s)

Next ==
    \/ \E s \in Slots : Arrival(s) \/ Call(s) \/ Abort(s)
    \/ \E i \in Invites, r \in InviteRoles : CreateInvitation(i, r)
    \/ \E sid \in Sessions : ExpireSession(sid)
    \/ \E i \in Invites : RevokeInvitation(i) \/ ExpireInvite(i)
    \/ Restart

Spec == Init /\ [][Next]_vars
---------------------------------------------------------------------------
(* Types.                                                                  *)

TypeOK ==
    /\ users \subseteq Users /\ creds \subseteq users /\ bound \subseteq users
    /\ member \in [Users -> Roles \union {None}]
    /\ inv \in [Invites -> [status : {"none", "pending", "accepted", "revoked", "expired"},
                            role : Roles \union {None}]]
    /\ sess \in [Sessions -> [state : {"none", "active", "revoked", "expired"},
                              user : Users \union {None}]]
    /\ cache \subseteq Sessions /\ handed \subseteq Sessions
    /\ req \in [Slots -> Request]
    /\ arrived \in 0 .. MaxRequests /\ faults \in 0 .. MaxFaults
    /\ founder \in Users \union {None} /\ (founder = None <=> users = {})
    /\ admitted \in [Invites -> SUBSET Users]
    /\ shared \subseteq Invites /\ crossed \subseteq Slots
    /\ \A u \in Users : member[u] # None => u \in users

(* Safety.                                                                 *)

\* set_member_role and remove_member never leave the organization without an
\* owner, unless another request wrote a membership between their count of
\* the owners and their write; what remains is accept_invite, which writes
\* the invited role over whatever the caller had.
OwnerGuarded ==
    [][Owners # {} /\ Owners' = {} =>
         \E s \in Slots : /\ (At(s, "setrole") \/ At(s, "delete"))
                         /\ (s \in crossed \/ req[s].inv # None)]_vars

\* orgs.py: the last owner can neither be demoted nor removed.
OwnerKept == [][Owners # {} => Owners' # {}]_vars

\* Of all the registrations and callbacks that find the instance empty, the
\* one whose user is created first carries the owner role to its membership.
FounderOwns ==
    \A s \in Slots : /\ Busy(s) /\ Head(req[s].todo) \in {"password", "member"}
                     /\ req[s].user = founder /\ req[s].inv = None
                     => req[s].role = "owner"

\* An invitation brings in one user: however its acceptance, its revocation,
\* its expiry and other requests are ordered, a second user gets in only when
\* two acceptances of it overlap or one of them broke off.
InviteOnce ==
    \A i \in Invites : Cardinality(admitted[i]) <= 1 \/ i \in shared

\* A cookie that reached a client works as long as its session is neither
\* revoked nor expired: the cache never lacks it, also after a restart and
\* whatever logouts and failed requests came between.
SessionUsable == handed \intersect ActiveSessionIds \subseteq cache
=============================================================================

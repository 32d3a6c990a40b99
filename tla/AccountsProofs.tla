--------------------------- MODULE AccountsProofs ---------------------------
(***************************************************************************)
(* What TLAPS proves of Accounts, for every number of users, invitations,  *)
(* sessions, requests in progress and faults.  One inductive invariant     *)
(* carries all of it:                                                      *)
(*                                                                         *)
(*   TypeInv    types; who has a credential, an identity or a membership   *)
(*              is a user                                                  *)
(*   CallInv    what each request in progress may rely on, by what it      *)
(*              still has to do: its user exists, its session is in the    *)
(*              table, the role it carries is the one the first user needs *)
(*   InviteInv  an invitation that no two acceptances share has let        *)
(*              nobody in before its one acceptance writes                 *)
(*   OwnerInv   a request that is about to take the owner role away has    *)
(*              seen another owner, who is still there if nobody crossed   *)
(*   UsableInv  what the cookies rest on                                   *)
(*                                                                         *)
(* The lists of calls a handler goes through are named, so that the        *)
(* provers meet them as names; they are opened in TodoHeads, TodoTails and *)
(* Kinds only.                                                             *)
(***************************************************************************)
EXTENDS Accounts, FiniteSetTheorems, TLAPS

(* What a handler still has to do: opening a session, closing one,         *)
(* registering beside others or first, accepting an invitation without and *)
(* with a session, linking a new account, changing and dropping a member.  *)
Open1 == <<"session", "cache">>
Open2 == <<"cache">>
Close1 == <<"revoke", "uncache">>
Close2 == <<"uncache">>
Provision1 == <<"dup", "role", "create", "password", "member">>
Provision2 == <<"role", "create", "password", "member">>
Provision3 == <<"create", "password", "member">>
Provision4 == <<"password", "member">>
Provision5 == <<"member">>
First1 == <<"dup", "role", "create", "password", "member", "session", "cache">>
First2 == <<"role", "create", "password", "member", "session", "cache">>
First3 == <<"create", "password", "member", "session", "cache">>
First4 == <<"password", "member", "session", "cache">>
First5 == <<"member", "session", "cache">>
Join1 == <<"create", "password", "member", "accepted", "session", "cache">>
Join2 == <<"password", "member", "accepted", "session", "cache">>
Join3 == <<"member", "accepted", "session", "cache">>
Join4 == <<"accepted", "session", "cache">>
Current1 == <<"current">>
Rewrite1 == <<"setrole", "accepted">>
Enter1 == <<"member", "accepted">>
Accepted1 == <<"accepted">>
Email1 == <<"email">>
Link1 == <<"role", "create", "member", "bind", "session", "cache">>
Link2 == <<"create", "member", "bind", "session", "cache">>
Link3 == <<"member", "bind", "session", "cache">>
Link4 == <<"bind", "session", "cache">>
Count1 == <<"count">>
Set1 == <<"target", "owners", "setrole">>
Set2 == <<"owners", "setrole">>
Set3 == <<"setrole">>
Drop1 == <<"target", "owners", "delete">>
Drop2 == <<"owners", "delete">>
Drop3 == <<"delete">>

Todos == {<<>>, Open1, Open2, Close1, Close2, Provision1, Provision2,
          Provision3, Provision4, Provision5, First1, First2, First3,
          First4, First5, Join1, Join2, Join3, Join4, Current1, Rewrite1,
          Enter1, Accepted1, Email1, Link1, Link2, Link3, Link4, Count1,
          Set1, Set2, Set3, Drop1, Drop2, Drop3}

\* The requests in progress, with their lists of calls as above.
Requests == [todo : Todos, admin : BOOLEAN,
             user : Users \union {None}, role : Roles \union {None},
             inv : Invites \union {None}, sid : Sessions \union {None}]

Opens     == {Open1, Open2}
Closes    == {Close1, Close2}
Drops     == {Drop1, Drop2, Drop3}
\* What is left once the owner role may be taken away.
Taking    == {Set3, Drop3}
\* Acceptances: before the membership is written, and after it.
Unwritten == {Current1, Rewrite1, Enter1, Join1, Join2, Join3}
Written   == {Accepted1, Join4}
Accepting == Unwritten \union Written
\* A role was decided: before the user is created, and after it.
Creating  == {Provision3, First3, Link2}
Created   == {Provision4, Provision5, First4, First5, Link3}
\* The user of the request is in the table.
Known     == Opens \union Created \union Written \union
             {Link4, Current1, Rewrite1, Enter1, Join2, Join3}

\* The user of the request is an address, whoever has it.
Plain     == {Provision1, Provision2, First1, First2, Email1, Link1, Count1,
              Set1, Set2, Set3, Drop1, Drop2, Drop3}

InviteStates  == {"none", "pending", "accepted", "revoked", "expired"}
SessionStates == {"none", "active", "revoked", "expired"}

TypeInv ==
    /\ users \subseteq Users /\ creds \subseteq users /\ bound \subseteq users
    /\ member \in [Users -> Roles \union {None}]
    /\ inv \in [Invites -> [status : InviteStates, role : Roles \union {None}]]
    /\ sess \in [Sessions -> [state : SessionStates, user : Users \union {None}]]
    /\ cache \subseteq Sessions /\ handed \subseteq Sessions
    /\ req \in [Slots -> Requests]
    /\ founder \in Users \union {None} /\ (users # {} => founder \in users)
    /\ admitted \in [Invites -> SUBSET Users]
    /\ shared \subseteq Invites /\ crossed \subseteq Slots
    /\ \A u \in Users : member[u] # None => u \in users
    /\ \A sid \in Sessions : sess[sid].state # "none" => sess[sid].user \in users
    /\ \A sid \in handed : sess[sid].state # "none"

\* What request q may rely on.
Fits(q) ==
    /\ q.todo # <<>> /\ q.todo \notin Closes => q.user \in Users
    /\ q.todo \in Known => q.user \in users
    /\ q.todo \in Accepting => q.inv \in Invites /\ inv[q.inv].status # "none"
    /\ q.inv # None => q.todo \in Accepting \union Opens /\ inv[q.inv].status # "none"
    /\ q.todo \in Closes => q.sid \in handed
    /\ q.todo = Close2 => sess[q.sid].state = "revoked"
    /\ q.todo = Open2 => q.sid \in Sessions /\ sess[q.sid].state # "none"
    /\ q.todo \in Drops => q.role = None
    /\ q.todo \in Creating => q.role = "owner" \/ users # {}
    /\ q.todo \in Created /\ q.user = founder => q.role = "owner"

CallInv == \A s \in Slots : Fits(req[s])

\* An invitation i that no two acceptances share.
Alone(i) ==
    /\ \A s, t \in Slots : req[s].inv = i /\ req[t].inv = i => s = t
    /\ \A u, v \in admitted[i] : u = v
    /\ \A s \in Slots : req[s].inv = i /\ req[s].todo \in Unwritten => admitted[i] = {}
    /\ admitted[i] # {} => \/ inv[i].status \notin {"none", "pending"}
                          \/ \E s \in Slots : req[s].inv = i /\ req[s].todo \in Written

InviteInv == \A i \in Invites \ shared : Alone(i)

\* Request q may take the owner role from its user.
Another(u) == \E v \in Users \ {u} : member[v] = "owner"
Guarded(q) ==
    /\ q.todo = Set3 => member[q.user] # "owner" \/ q.role = "owner" \/ Another(q.user)
    /\ q.todo = Drop3 => member[q.user] # "owner" \/ Another(q.user)

OwnerInv == \A s \in Slots \ crossed : Guarded(req[s])

UsableInv == SessionUsable

Inv == TypeInv /\ CallInv /\ InviteInv /\ OwnerInv /\ UsableInv

---------------------------------------------------------------------------
(* The lists of calls.                                                     *)

\* What each list begins with.
LEMMA TodoHeads ==
    /\ Open1 # <<>> /\ Head(Open1) = "session"
    /\ Open2 # <<>> /\ Head(Open2) = "cache"
    /\ Close1 # <<>> /\ Head(Close1) = "revoke"
    /\ Close2 # <<>> /\ Head(Close2) = "uncache"
    /\ Provision1 # <<>> /\ Head(Provision1) = "dup"
    /\ Provision2 # <<>> /\ Head(Provision2) = "role"
    /\ Provision3 # <<>> /\ Head(Provision3) = "create"
    /\ Provision4 # <<>> /\ Head(Provision4) = "password"
    /\ Provision5 # <<>> /\ Head(Provision5) = "member"
    /\ First1 # <<>> /\ Head(First1) = "dup"
    /\ First2 # <<>> /\ Head(First2) = "role"
    /\ First3 # <<>> /\ Head(First3) = "create"
    /\ First4 # <<>> /\ Head(First4) = "password"
    /\ First5 # <<>> /\ Head(First5) = "member"
    /\ Join1 # <<>> /\ Head(Join1) = "create"
    /\ Join2 # <<>> /\ Head(Join2) = "password"
    /\ Join3 # <<>> /\ Head(Join3) = "member"
    /\ Join4 # <<>> /\ Head(Join4) = "accepted"
    /\ Current1 # <<>> /\ Head(Current1) = "current"
    /\ Rewrite1 # <<>> /\ Head(Rewrite1) = "setrole"
    /\ Enter1 # <<>> /\ Head(Enter1) = "member"
    /\ Accepted1 # <<>> /\ Head(Accepted1) = "accepted"
    /\ Email1 # <<>> /\ Head(Email1) = "email"
    /\ Link1 # <<>> /\ Head(Link1) = "role"
    /\ Link2 # <<>> /\ Head(Link2) = "create"
    /\ Link3 # <<>> /\ Head(Link3) = "member"
    /\ Link4 # <<>> /\ Head(Link4) = "bind"
    /\ Count1 # <<>> /\ Head(Count1) = "count"
    /\ Set1 # <<>> /\ Head(Set1) = "target"
    /\ Set2 # <<>> /\ Head(Set2) = "owners"
    /\ Set3 # <<>> /\ Head(Set3) = "setrole"
    /\ Drop1 # <<>> /\ Head(Drop1) = "target"
    /\ Drop2 # <<>> /\ Head(Drop2) = "owners"
    /\ Drop3 # <<>> /\ Head(Drop3) = "delete"
  BY DEF Open1, Open2, Close1, Close2, Provision1, Provision2, Provision3,
         Provision4, Provision5, First1, First2, First3, First4, First5,
         Join1, Join2, Join3, Join4, Current1, Rewrite1, Enter1, Accepted1,
         Email1, Link1, Link2, Link3, Link4, Count1, Set1, Set2, Set3,
         Drop1, Drop2, Drop3

\* What is left of each list after its first call: every handler of the
\* routers goes through its calls in this order.
LEMMA TodoTails ==
    /\ Tail(Open1) = Open2
    /\ Tail(Open2) = <<>>
    /\ Tail(Close1) = Close2
    /\ Tail(Close2) = <<>>
    /\ Tail(Provision1) = Provision2
    /\ Tail(Provision2) = Provision3
    /\ Tail(Provision3) = Provision4
    /\ Tail(Provision4) = Provision5
    /\ Tail(Provision5) = <<>>
    /\ Tail(First1) = First2
    /\ Tail(First2) = First3
    /\ Tail(First3) = First4
    /\ Tail(First4) = First5
    /\ Tail(First5) = Open1
    /\ Tail(Join1) = Join2
    /\ Tail(Join2) = Join3
    /\ Tail(Join3) = Join4
    /\ Tail(Join4) = Open1
    /\ Tail(Current1) = <<>>
    /\ Tail(Rewrite1) = Accepted1
    /\ Tail(Enter1) = Accepted1
    /\ Tail(Accepted1) = <<>>
    /\ Tail(Email1) = <<>>
    /\ Tail(Link1) = Link2
    /\ Tail(Link2) = Link3
    /\ Tail(Link3) = Link4
    /\ Tail(Link4) = Open1
    /\ Tail(Count1) = <<>>
    /\ Tail(Set1) = Set2
    /\ Tail(Set2) = Set3
    /\ Tail(Set3) = <<>>
    /\ Tail(Drop1) = Drop2
    /\ Tail(Drop2) = Drop3
    /\ Tail(Drop3) = <<>>
  BY DEF Open1, Open2, Close1, Close2, Provision1, Provision2, Provision3,
         Provision4, Provision5, First1, First2, First3, First4, First5,
         Join1, Join2, Join3, Join4, Current1, Rewrite1, Enter1, Accepted1,
         Email1, Link1, Link2, Link3, Link4, Count1, Set1, Set2, Set3,
         Drop1, Drop2, Drop3

\* Which lists are of which kind.
LEMMA Kinds ==
    /\ Open1 \in Opens /\ Open1 \in Known /\ Open1 \notin Closes \union Drops
         \union Taking \union Unwritten \union Written \union Accepting
         \union Creating \union Created \union Plain
    /\ Open2 \in Opens /\ Open2 \in Known /\ Open2 \notin Closes \union Drops
         \union Taking \union Unwritten \union Written \union Accepting
         \union Creating \union Created \union Plain
    /\ Close1 \in Closes /\ Close1 \notin Opens \union Drops \union Taking
         \union Unwritten \union Written \union Accepting \union Creating
         \union Created \union Known \union Plain
    /\ Close2 \in Closes /\ Close2 \notin Opens \union Drops \union Taking
         \union Unwritten \union Written \union Accepting \union Creating
         \union Created \union Known \union Plain
    /\ Provision1 \in Plain /\ Provision1 \notin Opens \union Closes
         \union Drops \union Taking \union Unwritten \union Written
         \union Accepting \union Creating \union Created \union Known
    /\ Provision2 \in Plain /\ Provision2 \notin Opens \union Closes
         \union Drops \union Taking \union Unwritten \union Written
         \union Accepting \union Creating \union Created \union Known
    /\ Provision3 \in Creating /\ Provision3 \notin Opens \union Closes
         \union Drops \union Taking \union Unwritten \union Written
         \union Accepting \union Created \union Known \union Plain
    /\ Provision4 \in Created /\ Provision4 \in Known
         /\ Provision4 \notin Opens \union Closes \union Drops \union Taking
         \union Unwritten \union Written \union Accepting \union Creating
         \union Plain
    /\ Provision5 \in Created /\ Provision5 \in Known
         /\ Provision5 \notin Opens \union Closes \union Drops \union Taking
         \union Unwritten \union Written \union Accepting \union Creating
         \union Plain
    /\ First1 \in Plain /\ First1 \notin Opens \union Closes \union Drops
         \union Taking \union Unwritten \union Written \union Accepting
         \union Creating \union Created \union Known
    /\ First2 \in Plain /\ First2 \notin Opens \union Closes \union Drops
         \union Taking \union Unwritten \union Written \union Accepting
         \union Creating \union Created \union Known
    /\ First3 \in Creating /\ First3 \notin Opens \union Closes \union Drops
         \union Taking \union Unwritten \union Written \union Accepting
         \union Created \union Known \union Plain
    /\ First4 \in Created /\ First4 \in Known /\ First4 \notin Opens
         \union Closes \union Drops \union Taking \union Unwritten
         \union Written \union Accepting \union Creating \union Plain
    /\ First5 \in Created /\ First5 \in Known /\ First5 \notin Opens
         \union Closes \union Drops \union Taking \union Unwritten
         \union Written \union Accepting \union Creating \union Plain
    /\ Join1 \in Unwritten /\ Join1 \in Accepting /\ Join1 \notin Opens
         \union Closes \union Drops \union Taking \union Written
         \union Creating \union Created \union Known \union Plain
    /\ Join2 \in Unwritten /\ Join2 \in Accepting /\ Join2 \in Known
         /\ Join2 \notin Opens \union Closes \union Drops \union Taking
         \union Written \union Creating \union Created \union Plain
    /\ Join3 \in Unwritten /\ Join3 \in Accepting /\ Join3 \in Known
         /\ Join3 \notin Opens \union Closes \union Drops \union Taking
         \union Written \union Creating \union Created \union Plain
    /\ Join4 \in Written /\ Join4 \in Accepting /\ Join4 \in Known
         /\ Join4 \notin Opens \union Closes \union Drops \union Taking
         \union Unwritten \union Creating \union Created \union Plain
    /\ Current1 \in Unwritten /\ Current1 \in Accepting /\ Current1 \in Known
         /\ Current1 \notin Opens \union Closes \union Drops \union Taking
         \union Written \union Creating \union Created \union Plain
    /\ Rewrite1 \in Unwritten /\ Rewrite1 \in Accepting /\ Rewrite1 \in Known
         /\ Rewrite1 \notin Opens \union Closes \union Drops \union Taking
         \union Written \union Creating \union Created \union Plain
    /\ Enter1 \in Unwritten /\ Enter1 \in Accepting /\ Enter1 \in Known
         /\ Enter1 \notin Opens \union Closes \union Drops \union Taking
         \union Written \union Creating \union Created \union Plain
    /\ Accepted1 \in Written /\ Accepted1 \in Accepting
         /\ Accepted1 \in Known /\ Accepted1 \notin Opens \union Closes
         \union Drops \union Taking \union Unwritten \union Creating
         \union Created \union Plain
    /\ Email1 \in Plain /\ Email1 \notin Opens \union Closes \union Drops
         \union Taking \union Unwritten \union Written \union Accepting
         \union Creating \union Created \union Known
    /\ Link1 \in Plain /\ Link1 \notin Opens \union Closes \union Drops
         \union Taking \union Unwritten \union Written \union Accepting
         \union Creating \union Created \union Known
    /\ Link2 \in Creating /\ Link2 \notin Opens \union Closes \union Drops
         \union Taking \union Unwritten \union Written \union Accepting
         \union Created \union Known \union Plain
    /\ Link3 \in Created /\ Link3 \in Known /\ Link3 \notin Opens
         \union Closes \union Drops \union Taking \union Unwritten
         \union Written \union Accepting \union Creating \union Plain
    /\ Link4 \in Known /\ Link4 \notin Opens \union Closes \union Drops
         \union Taking \union Unwritten \union Written \union Accepting
         \union Creating \union Created \union Plain
    /\ Count1 \in Plain /\ Count1 \notin Opens \union Closes \union Drops
         \union Taking \union Unwritten \union Written \union Accepting
         \union Creating \union Created \union Known
    /\ Set1 \in Plain /\ Set1 \notin Opens \union Closes \union Drops
         \union Taking \union Unwritten \union Written \union Accepting
         \union Creating \union Created \union Known
    /\ Set2 \in Plain /\ Set2 \notin Opens \union Closes \union Drops
         \union Taking \union Unwritten \union Written \union Accepting
         \union Creating \union Created \union Known
    /\ Set3 \in Taking /\ Set3 \in Plain /\ Set3 \notin Opens \union Closes
         \union Drops \union Unwritten \union Written \union Accepting
         \union Creating \union Created \union Known
    /\ Drop1 \in Drops /\ Drop1 \in Plain /\ Drop1 \notin Opens \union Closes
         \union Taking \union Unwritten \union Written \union Accepting
         \union Creating \union Created \union Known
    /\ Drop2 \in Drops /\ Drop2 \in Plain /\ Drop2 \notin Opens \union Closes
         \union Taking \union Unwritten \union Written \union Accepting
         \union Creating \union Created \union Known
    /\ Drop3 \in Drops /\ Drop3 \in Taking /\ Drop3 \in Plain
         /\ Drop3 \notin Opens \union Closes \union Unwritten \union Written
         \union Accepting \union Creating \union Created \union Known
    /\ <<>> \notin Opens \union Closes \union Drops \union Taking
         \union Unwritten \union Written \union Accepting \union Creating
         \union Created \union Known \union Plain
  BY DEF Open1, Open2, Close1, Close2, Provision1, Provision2, Provision3,
         Provision4, Provision5, First1, First2, First3, First4, First5,
         Join1, Join2, Join3, Join4, Current1, Rewrite1, Enter1, Accepted1,
         Email1, Link1, Link2, Link3, Link4, Count1, Set1, Set2, Set3, Drop1,
         Drop2, Drop3, Opens, Closes, Drops, Unwritten, Written, Accepting,
         Creating, Created, Known, Plain, Taking

\* By the next call of a request, what it may still have to do.
LEMMA Heads ==
    ASSUME NEW x \in Todos, x # <<>>
    PROVE  /\ Head(x) = "session" => x \in {Open1}
           /\ Head(x) = "cache" => x \in {Open2}
           /\ Head(x) = "revoke" => x \in {Close1}
           /\ Head(x) = "uncache" => x \in {Close2}
           /\ Head(x) = "dup" => x \in {Provision1, First1}
           /\ Head(x) = "role" => x \in {Provision2, First2, Link1}
           /\ Head(x) = "create" => x \in {Provision3, First3, Join1, Link2}
           /\ Head(x) = "password" => x \in {Provision4, First4, Join2}
           /\ Head(x) = "member" => x \in {Provision5, First5, Join3, Enter1, Link3}
           /\ Head(x) = "accepted" => x \in {Join4, Accepted1}
           /\ Head(x) = "current" => x \in {Current1}
           /\ Head(x) = "setrole" => x \in {Rewrite1, Set3}
           /\ Head(x) = "email" => x \in {Email1}
           /\ Head(x) = "bind" => x \in {Link4}
           /\ Head(x) = "count" => x \in {Count1}
           /\ Head(x) = "target" => x \in {Set1, Drop1}
           /\ Head(x) = "owners" => x \in {Set2, Drop2}
           /\ Head(x) = "delete" => x \in {Drop3}
  BY TodoHeads DEF Todos

---------------------------------------------------------------------------
(* How a handler goes on.                                                  *)

\* A request that has ended is in no list of calls.
LEMMA IdleFits ==
    /\ Idle \in Requests /\ Idle.todo = <<>> /\ Idle.inv = None
    /\ Fits(Idle) /\ Guarded(Idle)
  <1>1. Idle \in Requests /\ Idle.todo = <<>> /\ Idle.inv = None
    BY DEF Idle, Requests, Todos
  <1> QED
    BY <1>1, TodoHeads, TodoTails
       DEF Fits, Guarded, Opens, Closes, Drops, Unwritten, Written, Accepting,
           Creating, Created, Known

\* Follow and Return change one request, and nothing of it but its calls.
LEMMA Follows ==
    ASSUME TypeInv, NEW s \in Slots, NEW todo \in Todos, Follow(s, todo)
    PROVE  /\ req' \in [Slots -> Requests]
           /\ \A t \in Slots \ {s} : req'[t] = req[t]
           /\ todo = <<>> => req'[s] = Idle
           /\ todo # <<>> => /\ req'[s].todo = todo
                             /\ req'[s].user = req[s].user /\ req'[s].role = req[s].role
                             /\ req'[s].inv = req[s].inv /\ req'[s].sid = req[s].sid
  <1>1. req \in [Slots -> Requests]
    BY DEF TypeInv
  <1>2. [req[s] EXCEPT !.todo = todo] \in Requests
    BY <1>1 DEF Requests
  <1>3. CASE todo = <<>>
    BY <1>1, <1>3, IdleFits DEF Follow
  <1>4. CASE todo # <<>>
    <2>1. req' = [req EXCEPT ![s] = [req[s] EXCEPT !.todo = todo]]
      BY <1>4 DEF Follow
    <2>2. req' \in [Slots -> Requests] /\ \A t \in Slots \ {s} : req'[t] = req[t]
      BY <1>1, <1>2, <2>1
    <2>3. req'[s] = [req[s] EXCEPT !.todo = todo]
      BY <1>1, <2>1
    <2>4. PICK q \in Requests : q = req[s]
      BY <1>1
    <2> QED
      BY <1>4, <2>2, <2>3, <2>4 DEF Requests
  <1> QED
    BY <1>3, <1>4

\* What is left of a list of calls is one of the lists.
LEMMA Tails ==
    ASSUME NEW x \in Todos, x # <<>>
    PROVE  Tail(x) \in Todos
  <1>1. x \in {Open1, Open2, Close1, Close2} => Tail(x) \in Todos
    BY TodoTails DEF Todos
  <1>2. x \in {Provision1, Provision2, Provision3, Provision4} => Tail(x) \in Todos
    BY TodoTails DEF Todos
  <1>3. x \in {Provision5, First1, First2, First3} => Tail(x) \in Todos
    BY TodoTails DEF Todos
  <1>4. x \in {First4, First5, Join1, Join2} => Tail(x) \in Todos
    BY TodoTails DEF Todos
  <1>5. x \in {Join3, Join4, Current1, Rewrite1} => Tail(x) \in Todos
    BY TodoTails DEF Todos
  <1>6. x \in {Enter1, Accepted1, Email1, Link1} => Tail(x) \in Todos
    BY TodoTails DEF Todos
  <1>7. x \in {Link2, Link3, Link4, Count1} => Tail(x) \in Todos
    BY TodoTails DEF Todos
  <1>8. x \in {Set1, Set2, Set3, Drop1} => Tail(x) \in Todos
    BY TodoTails DEF Todos
  <1>9. x \in {Drop2, Drop3} => Tail(x) \in Todos
    BY TodoTails DEF Todos
  <1> QED
    BY <1>1, <1>2, <1>3, <1>4, <1>5, <1>6, <1>7, <1>8, <1>9 DEF Todos

\* Return ends a request.
LEMMA Returns ==
    ASSUME TypeInv, NEW s \in Slots, Return(s)
    PROVE  /\ req' \in [Slots -> Requests]
           /\ \A t \in Slots \ {s} : req'[t] = req[t]
           /\ req'[s] = Idle
  BY IdleFits DEF TypeInv, Return

\* A step of one request that takes nothing away: the tables grow, no
\* session comes back, and the founder is only named while there is no user.
Growth ==
    /\ users \subseteq users' /\ handed \subseteq handed'
    /\ founder' = founder \/ users = {}
    /\ \A i \in Invites : inv[i].status # "none" => inv'[i].status # "none"
    /\ \A sid \in Sessions :
          /\ sess[sid].state # "none" => sess'[sid].state # "none"
          /\ sess[sid].state = "revoked" => sess'[sid].state = "revoked"

\* Under such a step a request that does not move keeps what it relies on.
LEMMA StillFits ==
    ASSUME TypeInv, Growth, NEW q \in Requests, Fits(q)
    PROVE  Fits(q)'
  <1>1. q.todo \in Known => q.user \in users'
    BY DEF Fits, Growth
  <1>2. q.todo \in Accepting => q.inv \in Invites /\ inv'[q.inv].status # "none"
    BY DEF Fits, Growth
  <1>3. q.inv # None => q.todo \in Accepting \union Opens /\ inv'[q.inv].status # "none"
    BY DEF Fits, Growth, Requests
  <1>4. q.todo \in Closes => q.sid \in handed'
    BY DEF Fits, Growth
  <1>5. q.todo = Close2 => sess'[q.sid].state = "revoked"
    BY DEF Fits, Growth, TypeInv, Closes
  <1>6. q.todo = Open2 => q.sid \in Sessions /\ sess'[q.sid].state # "none"
    BY DEF Fits, Growth
  <1>7. q.todo \in Creating => q.role = "owner" \/ users' # {}
    BY DEF Fits, Growth
  <1>8. q.todo \in Created /\ q.user = founder' => q.role = "owner"
    BY DEF Fits, Growth, Known
  <1> QED
    BY <1>1, <1>2, <1>3, <1>4, <1>5, <1>6, <1>7, <1>8 DEF Fits

\* So a step of request s is a matter of what request s relies on afterwards.
LEMMA CallsFit ==
    ASSUME TypeInv, CallInv, Growth, NEW s \in Slots, Fits(req[s])',
           \A t \in Slots \ {s} : req'[t] = req[t]
    PROVE  CallInv'
  <1> SUFFICES ASSUME NEW t \in Slots PROVE Fits(req[t])'
    BY DEF CallInv
  <1>1. CASE t # s
    <2>1. PICK q \in Requests : q = req[t] /\ q = req'[t] /\ Fits(q)
      BY <1>1 DEF TypeInv, CallInv
    <2> QED
      BY <2>1, StillFits DEF Fits
  <1> QED
    BY <1>1

---------------------------------------------------------------------------
(* Types and what the requests rely on: the calls.                         *)

\* What a step of request s has to show.
Moves(s) ==
    /\ TypeInv' /\ Growth /\ Fits(req[s])'
    /\ \A t \in Slots \ {s} : req'[t] = req[t]

\* A step that writes no table keeps the types.
LEMMA TablesStay ==
    ASSUME TypeInv, UNCHANGED <<tables, founder, admitted>>,
           cache' \subseteq Sessions, handed' = handed,
           shared' \subseteq Invites, crossed' \subseteq Slots,
           req' \in [Slots -> Requests]
    PROVE  TypeInv' /\ Growth
  BY DEF TypeInv, Growth, tables

\* A request of a plain list, without an invitation, needs a user only.
LEMMA PlainFits ==
    ASSUME NEW q \in Requests, q.todo \in Plain, q.inv = None, q.user \in Users,
           q.todo \in Drops => q.role = None
    PROVE  Fits(q) /\ Fits(q)'
  <1>1. q.todo \notin Closes \union Known \union Accepting \union Creating
                      \union Created \union Opens
    BY Kinds DEF Plain
  <1> QED
    BY <1>1, Kinds DEF Fits

\* register: the first request needs no admin, whatever came before it.
LEMMA CountMoves ==
    ASSUME TypeInv, CallInv, NEW s \in Slots, Count(s)
    PROVE  Moves(s)
  <1> PICK q \in Requests : q = req[s]
    BY DEF TypeInv
  <1>1. q.todo = Count1 /\ q.inv = None /\ q.user \in Users
    BY Heads, Kinds DEF Count, At, Busy, CallInv, Fits, Requests
  <1>2. \/ Return(s)
        \/ Follow(s, First1)
        \/ Follow(s, Provision1)
    BY DEF Count, First1, Provision1
  <1>3. /\ req' \in [Slots -> Requests]
        /\ \A t \in Slots \ {s} : req'[t] = req[t]
        /\ \/ req'[s] = Idle
           \/ /\ req'[s].todo \in {First1, Provision1}
              /\ req'[s].user = q.user /\ req'[s].inv = q.inv
    <2>1. First1 \in Todos /\ Provision1 \in Todos /\ First1 # <<>> /\ Provision1 # <<>>
      BY TodoHeads, TodoTails DEF Todos
    <2> QED
      BY <1>2, <2>1, Follows, Returns
  <1>4. TypeInv' /\ Growth
    BY <1>3, TablesStay DEF Count, Keep, ghosts, TypeInv
  <1>5. Fits(req[s])'
    <2> PICK p \in Requests : p = req'[s]
      BY <1>3
    <2>1. CASE p = Idle
      BY <2>1, IdleFits, <1>4, StillFits DEF Fits
    <2>2. CASE p.todo \in {First1, Provision1} /\ p.user = q.user /\ p.inv = q.inv
      <3>1. Fits(p)'
        BY <1>1, <2>2, PlainFits, Kinds
      <3> QED
        BY <3>1 DEF Fits
    <2> QED
      BY <1>3, <2>1, <2>2
  <1> QED
    BY <1>3, <1>4, <1>5 DEF Moves

\* A request that goes on has one of the lists left.
LEMMA Advances ==
    ASSUME TypeInv, NEW s \in Slots, Busy(s), Advance(s)
    PROVE  /\ req' \in [Slots -> Requests]
           /\ \A t \in Slots \ {s} : req'[t] = req[t]
           /\ \/ Tail(req[s].todo) = <<>> /\ req'[s] = Idle
              \/ /\ Tail(req[s].todo) # <<>>
                 /\ req'[s].todo = Tail(req[s].todo)
                 /\ req'[s].user = req[s].user /\ req'[s].role = req[s].role
                 /\ req'[s].inv = req[s].inv /\ req'[s].sid = req[s].sid
  <1>1. PICK x \in Todos : x = req[s].todo /\ x # <<>>
    BY DEF TypeInv, Requests, Busy
  <1>2. Tail(x) \in Todos /\ Follow(s, Tail(x))
    BY <1>1, Tails DEF Advance
  <1> QED
    BY <1>1, <1>2, Follows

\* What is left to show once the next request is known.
LEMMA MovesOn ==
    ASSUME NEW s \in Slots, TypeInv', Growth, TypeInv,
           NEW p \in Requests, p = req'[s], p = Idle \/ Fits(p)',
           \A t \in Slots \ {s} : req'[t] = req[t]
    PROVE  Moves(s)
  <1>1. CASE p = Idle
    BY <1>1, IdleFits, StillFits DEF Moves, Fits
  <1>2. CASE Fits(p)'
    BY <1>2 DEF Moves, Fits
  <1> QED
    BY <1>1, <1>2

\* register refuses an address that is taken.
LEMMA RejectDuplicateMoves ==
    ASSUME TypeInv, CallInv, NEW s \in Slots, RejectDuplicate(s)
    PROVE  Moves(s)
  <1> PICK q \in Requests : q = req[s]
    BY DEF TypeInv
  <1>1. q.todo \in {Provision1, First1} /\ q.inv = None /\ q.user \in Users /\ Busy(s)
    BY Heads, Kinds DEF RejectDuplicate, At, Busy, CallInv, Fits, Requests
  <1>2. /\ req' \in [Slots -> Requests]
        /\ \A t \in Slots \ {s} : req'[t] = req[t]
        /\ \/ req'[s] = Idle
           \/ /\ req'[s].todo \in {Provision2, First2}
              /\ req'[s].user = q.user /\ req'[s].inv = q.inv
    <2>1. /\ Tail(Provision1) = Provision2 /\ Provision2 # <<>>
          /\ Tail(First1) = First2 /\ First2 # <<>>
      BY TodoHeads, TodoTails
    <2> QED
      BY <1>1, <2>1, Advances, Returns DEF RejectDuplicate
  <1>3. TypeInv' /\ Growth
    BY <1>2, TablesStay DEF RejectDuplicate, Keep, ghosts, TypeInv
  <1> PICK p \in Requests : p = req'[s]
    BY <1>2
  <1>4. p = Idle \/ Fits(p)'
    BY <1>1, <1>2, PlainFits, Kinds
  <1> QED
    BY <1>2, <1>3, <1>4, MovesOn

\* provision_user decides the role: owner while there is no user.
LEMMA DecideRoleMoves ==
    ASSUME TypeInv, CallInv, NEW s \in Slots, DecideRole(s)
    PROVE  Moves(s)
  <1> PICK q \in Requests : q = req[s]
    BY DEF TypeInv
  <1>1. q.todo \in {Provision2, First2, Link1} /\ q.inv = None /\ q.user \in Users
    BY Heads, Kinds DEF DecideRole, At, Busy, CallInv, Fits, Requests
  <1>2. Tail(q.todo) \in {Provision3, First3, Link2} /\ Tail(q.todo) \in Todos
    BY <1>1, TodoHeads, TodoTails DEF Todos
  <1> DEFINE role == IF users = {} THEN "owner" ELSE "member"
             p == [q EXCEPT !.todo = Tail(q.todo), !.role = role]
  <1>3. p \in Requests
    BY <1>2 DEF Requests, Roles
  <1>4. req' = [req EXCEPT ![s] = p]
    BY DEF DecideRole, TypeInv, Requests
  <1>5. p.todo \in {Provision3, First3, Link2} /\ p.inv = None /\ p.user \in Users
        /\ p.role = role
    BY <1>1, <1>2 DEF Requests
  <1> HIDE DEF p
  <1>6. /\ req' \in [Slots -> Requests] /\ req'[s] = p
        /\ \A t \in Slots \ {s} : req'[t] = req[t]
    BY <1>3, <1>4 DEF TypeInv
  <1> PICK n \in Requests : n = p
    BY <1>3
  <1>7. TypeInv' /\ Growth
    BY <1>6, TablesStay DEF DecideRole, Keep, ghosts, TypeInv
  <1>8. users' = users
    BY DEF DecideRole, Keep, tables
  <1>9. n.todo \notin Closes \union Known \union Accepting \union Drops \union Created
                      \union Opens
    BY <1>5, Kinds
  <1>10. Fits(n)'
    BY <1>5, <1>8, <1>9, Kinds DEF Fits
  <1> QED
    BY <1>6, <1>7, <1>10, MovesOn

\* create_user: the first one is the founder, and came with the owner role.
LEMMA CreateUserMoves ==
    ASSUME TypeInv, CallInv, NEW s \in Slots, CreateUser(s)
    PROVE  Moves(s)
  <1> PICK q \in Requests : q = req[s]
    BY DEF TypeInv
  <1>0. Busy(s) /\ q.todo \in {Provision3, First3, Join1, Link2} /\ Fits(q)
    BY Heads DEF CreateUser, At, Busy, CallInv, Requests
  <1>1. Busy(s) /\ q.todo \in {Provision3, First3, Join1, Link2} /\ Fits(q) /\ q.user \in Users
    BY <1>0, Kinds DEF Fits, Busy
  <1>2. CASE Return(s) /\ UNCHANGED <<users, founder>>
    <2>1. req' \in [Slots -> Requests] /\ req'[s] = Idle
          /\ \A t \in Slots \ {s} : req'[t] = req[t]
      BY <1>2, Returns
    <2>2. TypeInv' /\ Growth
      BY <1>2, <2>1, TablesStay DEF CreateUser, Keep, tables, TypeInv
    <2> QED
      BY <2>1, <2>2, MovesOn
  <1>3. CASE InsertUser(q.user) /\ Advance(s)
    <2>1. /\ req' \in [Slots -> Requests]
          /\ \A t \in Slots \ {s} : req'[t] = req[t]
          /\ \/ q.todo = Provision3 /\ req'[s].todo = Provision4
             \/ q.todo = First3 /\ req'[s].todo = First4
             \/ q.todo = Link2 /\ req'[s].todo = Link3
             \/ q.todo = Join1 /\ req'[s].todo = Join2
          /\ req'[s].user = q.user /\ req'[s].inv = q.inv /\ req'[s].role = q.role
      <3>1. /\ Tail(Provision3) = Provision4 /\ Provision4 # <<>>
            /\ Tail(First3) = First4 /\ First4 # <<>>
            /\ Tail(Link2) = Link3 /\ Link3 # <<>>
            /\ Tail(Join1) = Join2 /\ Join2 # <<>>
        BY TodoHeads, TodoTails
      <3> QED
        BY <1>1, <1>3, <3>1, Advances
    <2>2. UNCHANGED <<creds, member, inv, bound, sess, cache, handed, admitted,
                      shared, crossed>>
      BY DEF CreateUser, Keep
    <2>3. /\ users' = users \union {q.user} /\ q.user \notin users
          /\ founder' = IF users = {} THEN q.user ELSE founder
      BY <1>3 DEF InsertUser
    <2>4. TypeInv'
      BY <1>1, <2>1, <2>2, <2>3 DEF TypeInv
    <2>5. Growth
      BY <2>2, <2>3 DEF Growth
    <2> PICK p \in Requests : p = req'[s]
      BY <2>1
    <2>6. p.todo = Join2 => Fits(p)'
      BY <1>1, <2>1, <2>2, <2>3, Kinds DEF Fits
    <2>7. p.todo \in {Provision4, First4, Link3} => Fits(p)'
      <3> SUFFICES ASSUME p.todo \in {Provision4, First4, Link3} PROVE Fits(p)'
        OBVIOUS
      <3>a. Join2 \notin {Provision4, First4, Link3}
        BY Kinds
      <3>1. q.todo \in {Provision3, First3, Link2} /\ q.inv = None
        BY <1>1, <2>1, <3>a, Kinds DEF Fits
      <3>2. q.user = founder' => q.role = "owner"
        BY <1>1, <2>3, <3>1, Kinds DEF Fits, TypeInv
      <3> QED
        BY <1>1, <2>1, <2>2, <2>3, <3>1, <3>2, Kinds DEF Fits
    <2> QED
      BY <2>1, <2>4, <2>5, <2>6, <2>7, MovesOn
  <1> QED
    BY <1>2, <1>3 DEF CreateUser

\* The password is stored for a user that exists.
LEMMA StorePasswordMoves ==
    ASSUME TypeInv, CallInv, NEW s \in Slots, StorePassword(s)
    PROVE  Moves(s)
  <1> PICK q \in Requests : q = req[s]
    BY DEF TypeInv
  <1>1. q.todo \in {Provision4, First4, Join2} /\ Busy(s) /\ Fits(q)
    BY Heads DEF StorePassword, At, Busy, CallInv, Requests
  <1>2. /\ req' \in [Slots -> Requests]
        /\ \A t \in Slots \ {s} : req'[t] = req[t]
        /\ \/ q.todo = Provision4 /\ req'[s].todo = Provision5
           \/ q.todo = First4 /\ req'[s].todo = First5
           \/ q.todo = Join2 /\ req'[s].todo = Join3
        /\ req'[s].user = q.user /\ req'[s].inv = q.inv /\ req'[s].role = q.role
    <2>1. /\ Tail(Provision4) = Provision5 /\ Provision5 # <<>>
          /\ Tail(First4) = First5 /\ First5 # <<>>
          /\ Tail(Join2) = Join3 /\ Join3 # <<>>
      BY TodoHeads, TodoTails
    <2> QED
      BY <1>1, <2>1, Advances DEF StorePassword
  <1>3. /\ UNCHANGED <<users, member, inv, bound, sess, cache, ghosts>>
        /\ creds' = creds \union {q.user}
    BY DEF StorePassword, Keep, SetPassword
  <1>4. q.user \in users /\ q.user \in Users
    BY <1>1, Kinds DEF Fits
  <1>5. TypeInv'
    BY <1>2, <1>3, <1>4 DEF TypeInv, ghosts
  <1>6. Growth
    BY <1>3 DEF Growth, ghosts
  <1> PICK p \in Requests : p = req'[s]
    BY <1>2
  <1>7. Fits(p)'
    BY <1>1, <1>2, <1>3, <1>4, Kinds DEF Fits, ghosts
  <1> QED
    BY <1>2, <1>5, <1>6, <1>7, MovesOn

\* No user, role or invitation is called None.
LEMMA NoneApart ==
    None \notin Users /\ None \notin Roles /\ None \notin Invites /\ None \notin Sessions
  BY AccountsAssumption

\* What a request relies on once its user is a member: nothing but the user,
\* and the invitation if it came with one.
LEMMA EnteredFits ==
    ASSUME NEW q \in Requests, q.user \in Users, q.user \in users',
           q.todo \in {Open1, Link4} \union Written,
           q.todo \in Written => q.inv \in Invites,
           q.todo = Link4 => q.inv = None,
           q.inv # None => inv'[q.inv].status # "none"
    PROVE  Fits(q)'
  <1>1. CASE q.todo = Open1
    <2>1. /\ q.todo \in Opens /\ q.todo \notin Closes \union Drops \union Accepting
                                   \union Creating \union Created
      BY <1>1, Kinds
    <2>2. q.todo # Open2
      BY <1>1, TodoHeads
    <2>3. q.todo # Close2
      BY <2>1, Kinds
    <2> QED
      BY <2>1, <2>2, <2>3 DEF Fits
  <1>2. CASE q.todo = Link4
    <2>1. q.todo \notin Closes \union Drops \union Accepting
                        \union Creating \union Created \union Opens
      BY <1>2, Kinds
    <2> QED
      BY <1>2, <2>1, Kinds DEF Fits
  <1>3. CASE q.todo \in Written
    <2>1. /\ q.todo \notin Closes \union Drops \union Creating \union Created \union Opens
          /\ q.todo \in Accepting
      BY <1>3, Kinds DEF Written
    <2> QED
      BY <1>3, <2>1, Kinds, NoneApart DEF Fits
  <1> QED
    BY <1>1, <1>2, <1>3

\* add_member: a membership of a user that exists, or a rollback.
LEMMA AddMemberMoves ==
    ASSUME TypeInv, CallInv, NEW s \in Slots, AddMember(s)
    PROVE  Moves(s)
  <1> PICK q \in Requests : q = req[s]
    BY DEF TypeInv
  <1>1. /\ q.todo \in {Provision5, First5, Join3, Enter1, Link3} /\ Busy(s) /\ Fits(q)
    BY Heads DEF AddMember, At, Busy, CallInv, Requests
  <1>2. q.user \in users /\ q.user \in Users
    BY <1>1, Kinds DEF Fits, TypeInv
  <1>3. CASE Return(s) /\ UNCHANGED <<member, crossed, admitted>>
    <2>1. req' \in [Slots -> Requests] /\ req'[s] = Idle
          /\ \A t \in Slots \ {s} : req'[t] = req[t]
      BY <1>3, Returns
    <2>2. TypeInv' /\ Growth
      BY <1>3, <2>1, TablesStay DEF AddMember, Keep, tables, TypeInv
    <2> QED
      BY <2>1, <2>2, MovesOn
  <1>4. CASE InsertMember(q.user, q.role) /\ Advance(s) /\ Crosses(s) /\ Admits(s)
    <2>1. /\ req' \in [Slots -> Requests]
          /\ \A t \in Slots \ {s} : req'[t] = req[t]
          /\ \/ q.todo = Provision5 /\ req'[s] = Idle
             \/ /\ \/ q.todo = First5 /\ req'[s].todo = Open1
                   \/ q.todo = Link3 /\ req'[s].todo = Link4
                   \/ q.todo = Join3 /\ req'[s].todo = Join4
                   \/ q.todo = Enter1 /\ req'[s].todo = Accepted1
                /\ req'[s].user = q.user /\ req'[s].inv = q.inv
      <3>1. /\ Tail(Provision5) = <<>>
            /\ Tail(First5) = Open1 /\ Open1 # <<>>
            /\ Tail(Link3) = Link4 /\ Link4 # <<>>
            /\ Tail(Join3) = Join4 /\ Join4 # <<>>
            /\ Tail(Enter1) = Accepted1 /\ Accepted1 # <<>>
        BY TodoHeads, TodoTails
      <3> QED
        BY <1>1, <1>4, <3>1, Advances
    <2>2. UNCHANGED <<users, creds, inv, bound, sess, cache, founder, handed, shared>>
      BY DEF AddMember, Keep
    <2>3. member' = [member EXCEPT ![q.user] = q.role]
      BY <1>4 DEF InsertMember
    <2>4. admitted' \in [Invites -> SUBSET Users] /\ crossed' \subseteq Slots
      BY <1>2, <1>4 DEF Admits, Crosses, TypeInv
    <2>5. member' \in [Users -> Roles \union {None}]
      BY <1>2, <2>3 DEF TypeInv, Requests
    <2>6. \A u \in Users : member'[u] # None => u \in users
      BY <1>2, <2>3 DEF TypeInv
    <2>7. TypeInv'
      BY <2>1, <2>2, <2>4, <2>5, <2>6 DEF TypeInv
    <2>8. Growth
      BY <2>2 DEF Growth
    <2> PICK p \in Requests : p = req'[s]
      BY <2>1
    <2>9. p = Idle \/ Fits(p)'
      <3>1. /\ {First5, Provision5, Link3} \intersect (Accepting \union Opens) = {}
            /\ {Join3, Enter1} \subseteq Accepting /\ {Join4, Accepted1} \subseteq Written
        BY Kinds
      <3>2. {Open1, Link4} \intersect Written = {} /\ Open1 # Link4
        BY Kinds
      <3> QED
        BY <1>1, <1>2, <2>1, <2>2, <3>1, <3>2, EnteredFits, NoneApart DEF Fits
    <2> QED
      BY <2>1, <2>7, <2>8, <2>9, MovesOn
  <1> QED
    BY <1>3, <1>4 DEF AddMember

\* set_role: an UPDATE of the row that is there.
LEMMA ChangeRoleMoves ==
    ASSUME TypeInv, CallInv, NEW s \in Slots, ChangeRole(s)
    PROVE  Moves(s)
  <1> PICK q \in Requests : q = req[s]
    BY DEF TypeInv
  <1>1. /\ q.todo \in {Rewrite1, Set3} /\ Busy(s) /\ Fits(q)
    BY Heads DEF ChangeRole, At, Busy, CallInv, Requests
  <1>2. q.user \in Users
    BY <1>1, Kinds DEF Fits, Busy
  <1>3. /\ req' \in [Slots -> Requests]
        /\ \A t \in Slots \ {s} : req'[t] = req[t]
        /\ \/ q.todo = Set3 /\ req'[s] = Idle
           \/ /\ q.todo = Rewrite1 /\ req'[s].todo = Accepted1
              /\ req'[s].user = q.user /\ req'[s].inv = q.inv
    <2>1. Tail(Set3) = <<>> /\ Tail(Rewrite1) = Accepted1 /\ Accepted1 # <<>>
      BY TodoHeads, TodoTails
    <2> QED
      BY <1>1, <2>1, Advances DEF ChangeRole
  <1>4. UNCHANGED <<users, creds, inv, bound, sess, cache, founder, handed, shared>>
    BY DEF ChangeRole, Keep
  <1>5. member' = [member EXCEPT ![q.user] = IF member[q.user] = None THEN None ELSE q.role]
    BY DEF ChangeRole, SetRole
  <1>6. admitted' \in [Invites -> SUBSET Users] /\ crossed' \subseteq Slots
    BY <1>2 DEF ChangeRole, Admits, Crosses, TypeInv
  <1>7. member' \in [Users -> Roles \union {None}]
    BY <1>2, <1>5 DEF TypeInv, Requests
  <1>8. \A u \in Users : member'[u] # None => u \in users
    BY <1>2, <1>5 DEF TypeInv
  <1>9. TypeInv' /\ Growth
    BY <1>3, <1>4, <1>6, <1>7, <1>8 DEF TypeInv, Growth
  <1> PICK p \in Requests : p = req'[s]
    BY <1>3
  <1>10. p = Idle \/ Fits(p)'
    BY <1>1, <1>2, <1>3, <1>4, Kinds DEF Fits
  <1> QED
    BY <1>3, <1>9, <1>10, MovesOn

\* remove: the row is gone.
LEMMA DropMemberMoves ==
    ASSUME TypeInv, CallInv, NEW s \in Slots, DropMember(s)
    PROVE  Moves(s)
  <1> PICK q \in Requests : q = req[s]
    BY DEF TypeInv
  <1>1. /\ q.todo = Drop3 /\ Busy(s) /\ Fits(q)
    BY Heads DEF DropMember, At, Busy, CallInv, Requests
  <1>2. /\ req' \in [Slots -> Requests] /\ req'[s] = Idle
        /\ \A t \in Slots \ {s} : req'[t] = req[t]
    <2>1. Tail(Drop3) = <<>>
      BY TodoTails
    <2> QED
      BY <1>1, <2>1, Advances DEF DropMember
  <1>3. UNCHANGED <<users, creds, inv, bound, sess, cache, founder, handed, admitted, shared>>
    BY DEF DropMember, Keep
  <1>4. member' = [member EXCEPT ![q.user] = None]
    BY DEF DropMember, DeleteMember
  <1>5. /\ crossed' \subseteq Slots /\ member' \in [Users -> Roles \union {None}]
        /\ \A u \in Users : member'[u] # None => u \in users
    BY <1>4 DEF DropMember, Crosses, TypeInv
  <1>6. TypeInv' /\ Growth
    BY <1>2, <1>3, <1>5 DEF TypeInv, Growth
  <1> QED
    BY <1>2, <1>6, MovesOn

\* The guard of set_member_role and remove_member reads the membership.
LEMMA ReadTargetMoves ==
    ASSUME TypeInv, CallInv, NEW s \in Slots, ReadTarget(s)
    PROVE  Moves(s)
  <1> PICK q \in Requests : q = req[s]
    BY DEF TypeInv
  <1>0. /\ q.todo \in {Set1, Drop1} /\ Busy(s) /\ Fits(q)
    BY Heads DEF ReadTarget, At, Busy, CallInv, Requests
  <1>1. q.user \in Users /\ q.inv = None /\ (q.todo = Drop1 => q.role = None)
    BY <1>0, Kinds DEF Fits, Busy
  <1>2. /\ req' \in [Slots -> Requests]
        /\ \A t \in Slots \ {s} : req'[t] = req[t]
        /\ \/ req'[s] = Idle
           \/ /\ \/ q.todo = Set1 /\ req'[s].todo \in {Set2, Set3}
                 \/ q.todo = Drop1 /\ req'[s].todo \in {Drop2, Drop3}
              /\ req'[s].user = q.user /\ req'[s].inv = q.inv /\ req'[s].role = q.role
    <2>1. /\ Tail(Set1) = Set2 /\ Set2 # <<>> /\ Tail(Set2) = Set3 /\ Set3 # <<>>
          /\ Tail(Drop1) = Drop2 /\ Drop2 # <<>> /\ Tail(Drop2) = Drop3 /\ Drop3 # <<>>
      BY TodoHeads, TodoTails
    <2>2. {Set2, Set3, Drop2, Drop3} \subseteq Todos
      BY DEF Todos
    <2>3. \/ Return(s)
          \/ q.todo = Set1 /\ (Follow(s, Set2) \/ Follow(s, Set3))
          \/ q.todo = Drop1 /\ (Follow(s, Drop2) \/ Follow(s, Drop3))
      BY <1>0, <2>1 DEF ReadTarget
    <2> QED
      BY <2>1, <2>2, <2>3, Follows, Returns
  <1>3. TypeInv' /\ Growth
    BY <1>2, TablesStay DEF ReadTarget, Keep, ghosts, TypeInv
  <1> PICK p \in Requests : p = req'[s]
    BY <1>2
  <1>4. p = Idle \/ Fits(p)'
    <2>1. {Set2, Set3, Drop2, Drop3} \subseteq Plain /\ {Set2, Set3} \intersect Drops = {}
      BY Kinds
    <2> QED
      BY <1>1, <1>2, <2>1, PlainFits
  <1> QED
    BY <1>2, <1>3, <1>4, MovesOn

\* The guard counts the owners.
LEMMA CountOwnersMoves ==
    ASSUME TypeInv, CallInv, NEW s \in Slots, CountOwners(s)
    PROVE  Moves(s)
  <1> PICK q \in Requests : q = req[s]
    BY DEF TypeInv
  <1>0. /\ q.todo \in {Set2, Drop2} /\ Busy(s) /\ Fits(q)
    BY Heads DEF CountOwners, At, Busy, CallInv, Requests
  <1>1. q.user \in Users /\ q.inv = None /\ (q.todo = Drop2 => q.role = None)
    BY <1>0, Kinds DEF Fits, Busy
  <1>2. /\ req' \in [Slots -> Requests]
        /\ \A t \in Slots \ {s} : req'[t] = req[t]
        /\ \/ req'[s] = Idle
           \/ /\ \/ q.todo = Set2 /\ req'[s].todo = Set3
                 \/ q.todo = Drop2 /\ req'[s].todo = Drop3
              /\ req'[s].user = q.user /\ req'[s].inv = q.inv /\ req'[s].role = q.role
    <2>1. Tail(Set2) = Set3 /\ Set3 # <<>> /\ Tail(Drop2) = Drop3 /\ Drop3 # <<>>
      BY TodoHeads, TodoTails
    <2> QED
      BY <1>0, <2>1, Advances, Returns DEF CountOwners
  <1>3. TypeInv' /\ Growth
    BY <1>2, TablesStay DEF CountOwners, Keep, ghosts, TypeInv
  <1> PICK p \in Requests : p = req'[s]
    BY <1>2
  <1>4. p = Idle \/ Fits(p)'
    <2>1. {Set3, Drop3} \subseteq Plain /\ Set3 \notin Drops
      BY Kinds
    <2> QED
      BY <1>1, <1>2, <2>1, PlainFits
  <1> QED
    BY <1>2, <1>3, <1>4, MovesOn

\* accept_invite of a signed-in user.
LEMMA ReadCurrentMoves ==
    ASSUME TypeInv, CallInv, NEW s \in Slots, ReadCurrent(s)
    PROVE  Moves(s)
  <1> PICK q \in Requests : q = req[s]
    BY DEF TypeInv
  <1>0. q.todo = Current1 /\ Busy(s) /\ Fits(q)
    BY Heads DEF ReadCurrent, At, Busy, CallInv, Requests
  <1>1. q.user \in Users /\ q.user \in users /\ q.inv \in Invites /\ inv[q.inv].status # "none"
    BY <1>0, Kinds DEF Fits, Busy
  <1>2. /\ req' \in [Slots -> Requests]
        /\ \A t \in Slots \ {s} : req'[t] = req[t]
        /\ req'[s].todo \in {Rewrite1, Enter1}
        /\ req'[s].user = q.user /\ req'[s].inv = q.inv
    <2>1. Follow(s, Rewrite1) \/ Follow(s, Enter1)
      BY DEF ReadCurrent, Rewrite1, Enter1
    <2>2. /\ Rewrite1 \in Todos /\ Enter1 \in Todos /\ Rewrite1 # <<>> /\ Enter1 # <<>>
      BY TodoHeads, TodoTails DEF Todos
    <2> QED
      BY <2>1, <2>2, Follows
  <1>3. TypeInv' /\ Growth
    BY <1>2, TablesStay DEF ReadCurrent, Keep, ghosts, TypeInv
  <1> PICK p \in Requests : p = req'[s]
    BY <1>2
  <1>4. UNCHANGED <<users, inv>>
    BY DEF ReadCurrent, Keep, tables
  <1>5. Fits(p)'
    BY <1>1, <1>2, <1>4, Kinds DEF Fits
  <1> QED
    BY <1>2, <1>3, <1>5, MovesOn

\* mark_accepted, then perhaps a session.
LEMMA AcceptDoneMoves ==
    ASSUME TypeInv, CallInv, NEW s \in Slots, AcceptDone(s)
    PROVE  Moves(s)
  <1> PICK q \in Requests : q = req[s]
    BY DEF TypeInv
  <1>0. q.todo \in {Accepted1, Join4} /\ Busy(s) /\ Fits(q)
    BY Heads DEF AcceptDone, At, Busy, CallInv, Requests
  <1>1. q.user \in Users /\ q.user \in users /\ q.inv \in Invites
    BY <1>0, Kinds DEF Fits, Busy
  <1>2. /\ req' \in [Slots -> Requests]
        /\ \A t \in Slots \ {s} : req'[t] = req[t]
        /\ \/ q.todo = Accepted1 /\ req'[s] = Idle
           \/ /\ q.todo = Join4 /\ req'[s].todo = Open1
              /\ req'[s].user = q.user /\ req'[s].inv = q.inv
    <2>1. Tail(Accepted1) = <<>> /\ Tail(Join4) = Open1 /\ Open1 # <<>>
      BY TodoHeads, TodoTails
    <2> QED
      BY <1>0, <2>1, Advances DEF AcceptDone
  <1>3. UNCHANGED <<users, creds, member, bound, sess, cache, ghosts>>
    BY DEF AcceptDone, Keep
  <1>4. inv' = [inv EXCEPT ![q.inv].status = "accepted"]
    BY DEF AcceptDone, MarkAccepted
  <1>5. inv' \in [Invites -> [status : InviteStates, role : Roles \union {None}]]
    BY <1>1, <1>4 DEF TypeInv, InviteStates
  <1>6. inv'[q.inv].status = "accepted"
    BY <1>1, <1>4 DEF TypeInv
  <1>7. \A i \in Invites : i # q.inv => inv'[i] = inv[i]
    BY <1>1, <1>4 DEF TypeInv
  <1>8. TypeInv'
    BY <1>2, <1>3, <1>5 DEF TypeInv, ghosts
  <1>9. Growth
    BY <1>3, <1>6, <1>7 DEF Growth, ghosts
  <1> PICK p \in Requests : p = req'[s]
    BY <1>2
  <1>10. p = Idle \/ Fits(p)'
    <2>1. Open1 \notin Written /\ Open1 # Link4
      BY Kinds
    <2> QED
      BY <1>1, <1>2, <1>3, <1>6, <2>1, EnteredFits
  <1> QED
    BY <1>2, <1>8, <1>9, <1>10, MovesOn

\* oauth_callback: the address is known, or becomes an account.
LEMMA FindByEmailMoves ==
    ASSUME TypeInv, CallInv, NEW s \in Slots, FindByEmail(s)
    PROVE  Moves(s)
  <1> PICK q \in Requests : q = req[s]
    BY DEF TypeInv
  <1>0. q.todo = Email1 /\ Busy(s) /\ Fits(q)
    BY Heads DEF FindByEmail, At, Busy, CallInv, Requests
  <1>1. q.user \in Users /\ q.inv = None
    BY <1>0, Kinds DEF Fits, Busy
  <1>2. /\ req' \in [Slots -> Requests]
        /\ \A t \in Slots \ {s} : req'[t] = req[t]
        /\ \/ q.user \in users /\ req'[s].todo = Link4
           \/ req'[s].todo = Link1
        /\ req'[s].user = q.user /\ req'[s].inv = q.inv
    <2>1. (q.user \in users /\ Follow(s, Link4)) \/ Follow(s, Link1)
      BY DEF FindByEmail, Link1, Link4
    <2>2. Link1 \in Todos /\ Link4 \in Todos /\ Link1 # <<>> /\ Link4 # <<>>
      BY TodoHeads, TodoTails DEF Todos
    <2> QED
      BY <2>1, <2>2, Follows
  <1>3. TypeInv' /\ Growth
    BY <1>2, TablesStay DEF FindByEmail, Keep, ghosts, TypeInv
  <1> PICK p \in Requests : p = req'[s]
    BY <1>2
  <1>4. UNCHANGED <<users, inv>>
    BY DEF FindByEmail, Keep, tables
  <1>5. p.todo = Link1 => Fits(p)'
    BY <1>1, <1>2, Kinds, PlainFits
  <1>6. p.todo = Link4 /\ p.user \in users => Fits(p)'
    BY <1>1, <1>2, <1>4, Kinds DEF Fits
  <1> QED
    BY <1>2, <1>3, <1>5, <1>6, MovesOn, Kinds

\* The identity is linked to a user that exists.
LEMMA BindIdentityMoves ==
    ASSUME TypeInv, CallInv, NEW s \in Slots, BindIdentity(s)
    PROVE  Moves(s)
  <1> PICK q \in Requests : q = req[s]
    BY DEF TypeInv
  <1>0. q.todo = Link4 /\ Busy(s) /\ Fits(q)
    BY Heads DEF BindIdentity, At, Busy, CallInv, Requests
  <1>1. q.user \in Users /\ q.user \in users /\ q.inv = None
    BY <1>0, Kinds DEF Fits, Busy
  <1>2. UNCHANGED <<users, creds, member, inv, sess, cache, ghosts>>
    BY DEF BindIdentity, Keep
  <1>3. CASE Return(s) /\ UNCHANGED bound
    <2>1. req' \in [Slots -> Requests] /\ req'[s] = Idle
          /\ \A t \in Slots \ {s} : req'[t] = req[t]
      BY <1>3, Returns
    <2>2. TypeInv' /\ Growth
      BY <1>2, <1>3, <2>1, TablesStay DEF ghosts, tables, TypeInv
    <2> QED
      BY <2>1, <2>2, MovesOn
  <1>4. CASE InsertIdentity(q.user) /\ Advance(s)
    <2>1. /\ req' \in [Slots -> Requests]
          /\ \A t \in Slots \ {s} : req'[t] = req[t]
          /\ req'[s].todo = Open1 /\ req'[s].user = q.user /\ req'[s].inv = q.inv
      <3>1. Tail(Link4) = Open1 /\ Open1 # <<>>
        BY TodoHeads, TodoTails
      <3> QED
        BY <1>0, <1>4, <3>1, Advances
    <2>2. bound' = bound \union {q.user}
      BY <1>4 DEF InsertIdentity
    <2>3. TypeInv' /\ Growth
      BY <1>1, <1>2, <2>1, <2>2 DEF TypeInv, Growth, ghosts
    <2> PICK p \in Requests : p = req'[s]
      BY <2>1
    <2>4. Fits(p)'
      BY <1>1, <1>2, <2>1, Kinds, EnteredFits
    <2> QED
      BY <2>1, <2>3, <2>4, MovesOn
  <1> QED
    BY <1>3, <1>4 DEF BindIdentity

\* The row of a session, for a user that exists.
LEMMA OpenSessionMoves ==
    ASSUME TypeInv, CallInv, NEW s \in Slots, OpenSession(s)
    PROVE  Moves(s)
  <1> PICK q \in Requests : q = req[s]
    BY DEF TypeInv
  <1>0. q.todo = Open1 /\ Busy(s) /\ Fits(q)
    BY Heads DEF OpenSession, At, Busy, CallInv, Requests
  <1>1. q.user \in Users /\ q.user \in users
    BY <1>0, Kinds DEF Fits, Busy
  <1>2. PICK sid \in Sessions :
            /\ sess[sid].state = "none" /\ InsertSession(sid, q.user)
            /\ req' = [req EXCEPT ![s].todo = Tail(@), ![s].sid = sid]
    BY DEF OpenSession
  <1> DEFINE p == [q EXCEPT !.todo = Open2, !.sid = sid]
  <1>3. p \in Requests /\ p.todo = Open2 /\ p.user = q.user /\ p.inv = q.inv /\ p.sid = sid
    BY DEF Requests, Todos
  <1>4. req' = [req EXCEPT ![s] = p]
    <2>1. Tail(Open1) = Open2
      BY TodoTails
    <2> QED
      BY <1>0, <1>2, <2>1 DEF TypeInv, Requests
  <1> HIDE DEF p
  <1>5. /\ req' \in [Slots -> Requests] /\ req'[s] = p
        /\ \A t \in Slots \ {s} : req'[t] = req[t]
    BY <1>3, <1>4 DEF TypeInv
  <1>6. sess' = [sess EXCEPT ![sid] = [state |-> "active", user |-> q.user]]
    BY <1>2 DEF InsertSession
  <1>7. /\ sess' \in [Sessions -> [state : SessionStates, user : Users \union {None}]]
        /\ sess'[sid].state = "active" /\ sess'[sid].user = q.user
        /\ \A x \in Sessions \ {sid} : sess'[x] = sess[x]
    BY <1>1, <1>6 DEF TypeInv, SessionStates
  <1>8. UNCHANGED <<users, creds, member, inv, bound, cache, ghosts>>
    BY DEF OpenSession, Keep
  <1>9. TypeInv'
    BY <1>1, <1>5, <1>7, <1>8 DEF TypeInv, ghosts
  <1>10. Growth
    BY <1>2, <1>7, <1>8 DEF Growth, ghosts
  <1> PICK n \in Requests : n = p
    BY <1>3
  <1>11. Open1 # Open2 /\ Open2 # Close2
    BY TodoHeads
  <1>12. Fits(n)'
    BY <1>0, <1>1, <1>3, <1>7, <1>8, <1>11, Kinds DEF Fits
  <1> QED
    BY <1>5, <1>9, <1>10, <1>12, MovesOn

\* The cookie: the session is in the cache and at the client.
LEMMA CacheSessionMoves ==
    ASSUME TypeInv, CallInv, NEW s \in Slots, CacheSession(s)
    PROVE  Moves(s)
  <1> PICK q \in Requests : q = req[s]
    BY DEF TypeInv
  <1>0. q.todo = Open2 /\ Busy(s) /\ Fits(q)
    BY Heads DEF CacheSession, At, Busy, CallInv, Requests
  <1>1. q.sid \in Sessions /\ sess[q.sid].state # "none"
    BY <1>0, Kinds DEF Fits
  <1>2. /\ req' \in [Slots -> Requests] /\ req'[s] = Idle
        /\ \A t \in Slots \ {s} : req'[t] = req[t]
    <2>1. Tail(Open2) = <<>>
      BY TodoTails
    <2> QED
      BY <1>0, <2>1, Advances DEF CacheSession
  <1>3. /\ cache' = cache \union {q.sid} /\ handed' = handed \union {q.sid}
        /\ UNCHANGED <<tables, founder, admitted, shared, crossed>>
    BY DEF CacheSession, Keep
  <1>4. TypeInv' /\ Growth
    BY <1>1, <1>2, <1>3 DEF TypeInv, Growth, tables
  <1> QED
    BY <1>2, <1>4, MovesOn

\* logout: first the row, then the cache.
LEMMA CloseSessionMoves ==
    ASSUME TypeInv, CallInv, NEW s \in Slots, CloseSession(s)
    PROVE  Moves(s)
  <1> PICK q \in Requests : q = req[s]
    BY DEF TypeInv
  <1>0. q.todo = Close1 /\ Busy(s) /\ Fits(q)
    BY Heads DEF CloseSession, At, Busy, CallInv, Requests
  <1>1. q.sid \in handed /\ q.sid \in Sessions /\ q.inv = None /\ sess[q.sid].state # "none"
    BY <1>0, Kinds DEF Fits, TypeInv
  <1>2. /\ req' \in [Slots -> Requests]
        /\ \A t \in Slots \ {s} : req'[t] = req[t]
        /\ req'[s].todo = Close2 /\ req'[s].inv = q.inv /\ req'[s].sid = q.sid
    <2>1. Tail(Close1) = Close2 /\ Close2 # <<>>
      BY TodoHeads, TodoTails
    <2> QED
      BY <1>0, <2>1, Advances DEF CloseSession
  <1>3. UNCHANGED <<users, creds, member, inv, bound, cache, ghosts>>
    BY DEF CloseSession, Keep
  <1>4. sess' = [sess EXCEPT ![q.sid].state = "revoked"]
    BY DEF CloseSession, RevokeSession
  <1>5. /\ sess' \in [Sessions -> [state : SessionStates, user : Users \union {None}]]
        /\ sess'[q.sid].state = "revoked" /\ sess'[q.sid].user = sess[q.sid].user
        /\ \A x \in Sessions \ {q.sid} : sess'[x] = sess[x]
    BY <1>1, <1>4 DEF TypeInv, SessionStates
  <1>6. TypeInv'
    BY <1>1, <1>2, <1>3, <1>5 DEF TypeInv, ghosts
  <1>7. Growth
    BY <1>3, <1>5 DEF Growth, ghosts
  <1> PICK p \in Requests : p = req'[s]
    BY <1>2
  <1>8. Fits(p)'
    BY <1>1, <1>2, <1>3, <1>5, Kinds DEF Fits, ghosts
  <1> QED
    BY <1>2, <1>6, <1>7, <1>8, MovesOn

\* The session leaves the cache.
LEMMA UncacheSessionMoves ==
    ASSUME TypeInv, CallInv, NEW s \in Slots, UncacheSession(s)
    PROVE  Moves(s)
  <1> PICK q \in Requests : q = req[s]
    BY DEF TypeInv
  <1>0. q.todo = Close2 /\ Busy(s) /\ Fits(q)
    BY Heads DEF UncacheSession, At, Busy, CallInv, Requests
  <1>2. /\ req' \in [Slots -> Requests] /\ req'[s] = Idle
        /\ \A t \in Slots \ {s} : req'[t] = req[t]
    <2>1. Tail(Close2) = <<>>
      BY TodoTails
    <2> QED
      BY <1>0, <2>1, Advances DEF UncacheSession
  <1>3. cache' = cache \ {q.sid} /\ UNCHANGED <<tables, ghosts>>
    BY DEF UncacheSession, Keep
  <1>4. TypeInv' /\ Growth
    BY <1>2, <1>3, TablesStay DEF ghosts, TypeInv
  <1> QED
    BY <1>2, <1>4, MovesOn

\* Every call of a handler.
LEMMA CallMoves ==
    ASSUME TypeInv, CallInv, NEW s \in Slots, Call(s)
    PROVE  Moves(s)
  BY CountMoves, RejectDuplicateMoves, DecideRoleMoves, CreateUserMoves,
     StorePasswordMoves, AddMemberMoves, ChangeRoleMoves, DropMemberMoves,
     ReadTargetMoves, CountOwnersMoves, ReadCurrentMoves, AcceptDoneMoves,
     FindByEmailMoves, BindIdentityMoves, OpenSessionMoves, CacheSessionMoves,
     CloseSessionMoves, UncacheSessionMoves
  DEF Call

---------------------------------------------------------------------------
(* Types and what the requests rely on: arrivals and the rest.             *)

\* A request r that arrives: by itself, or by an invitation that is pending
\* and that another request may be accepting too.
Arrives(s, r) ==
    /\ Arrive(s, r) /\ Fits(r)' /\ r.todo \notin Taking \union Written
    /\ \/ r.inv = None /\ shared' = shared
       \/ r.inv \in Invites /\ PendingInvite(r.inv) /\ SharesInvite(s, r.inv)

\* Every arrival is one of these.
LEMMA ArrivalForms ==
    ASSUME TypeInv, NEW s \in Slots, Arrival(s)
    PROVE  \E r \in Requests : Arrives(s, r)
  <1>1. ASSUME NEW u \in Users, Register(s, u)
        PROVE  \E r \in Requests : Arrives(s, r)
    <2>1. PICK b \in BOOLEAN : /\ Arrive(s, [Idle EXCEPT !.todo = Count1, !.user = u, !.admin = b])
                               /\ UNCHANGED shared
      BY <1>1 DEF Register, Count1, HasRole
    <2> DEFINE r == [Idle EXCEPT !.todo = Count1, !.user = u, !.admin = b]
    <2>2. r \in Requests /\ r.todo = Count1 /\ r.user = u /\ r.inv = None
      BY DEF Idle, Requests, Todos
    <2> HIDE DEF r
    <2>3. Fits(r)' /\ r.todo \notin Taking \union Written
      BY <2>2, PlainFits, Kinds
    <2> QED
      BY <2>1, <2>2, <2>3 DEF Arrives, r
  <1>2. ASSUME NEW u \in Users, Login(s, u)
        PROVE  \E r \in Requests : Arrives(s, r)
    <2> DEFINE r == [Idle EXCEPT !.todo = Open1, !.user = u]
    <2>1. Arrive(s, r) /\ UNCHANGED shared
      BY <1>2 DEF Login, Open1
    <2>2. r \in Requests /\ r.todo = Open1 /\ r.user = u /\ r.inv = None
      BY DEF Idle, Requests, Todos
    <2>3. u \in users'
      BY <1>2, <2>1 DEF Login, Arrive, tables
    <2> HIDE DEF r
    <2>4. Fits(r)' /\ r.todo \notin Taking \union Written
      BY <2>2, <2>3, EnteredFits, Kinds
    <2> QED
      BY <2>1, <2>2, <2>4 DEF Arrives
  <1>3. ASSUME NEW u \in Users, OAuthCallback(s, u)
        PROVE  \E r \in Requests : Arrives(s, r)
    <2> PICK todo \in {Open1, Email1} : todo = IF u \in bound THEN Open1 ELSE Email1
      OBVIOUS
    <2> DEFINE r == [Idle EXCEPT !.user = u, !.todo = todo]
    <2>1. Arrive(s, r) /\ UNCHANGED shared
      BY <1>3 DEF OAuthCallback, Open1, Email1
    <2>2. r \in Requests /\ r.todo = todo /\ r.user = u /\ r.inv = None
      BY DEF Idle, Requests, Todos
    <2>3. u \in bound => u \in users'
      BY <2>1 DEF Arrive, tables, TypeInv
    <2> HIDE DEF r
    <2>4. Fits(r)' /\ r.todo \notin Taking \union Written
      BY <2>2, <2>3, EnteredFits, PlainFits, Kinds
    <2> QED
      BY <2>1, <2>2, <2>4 DEF Arrives
  <1>4. ASSUME NEW u \in Users, RemoveMember(s, u)
        PROVE  \E r \in Requests : Arrives(s, r)
    <2> DEFINE r == [Idle EXCEPT !.todo = Drop1, !.user = u]
    <2>1. Arrive(s, r) /\ UNCHANGED shared
      BY <1>4 DEF RemoveMember, Drop1
    <2>2. r \in Requests /\ r.todo = Drop1 /\ r.user = u /\ r.inv = None /\ r.role = None
      BY DEF Idle, Requests, Todos
    <2> HIDE DEF r
    <2>4. Fits(r)' /\ r.todo \notin Taking \union Written
      BY <2>2, PlainFits, Kinds
    <2> QED
      BY <2>1, <2>2, <2>4 DEF Arrives
  <1>5. ASSUME NEW u \in Users, NEW x \in NewRoles, SetMemberRole(s, u, x)
        PROVE  \E r \in Requests : Arrives(s, r)
    <2> DEFINE r == [Idle EXCEPT !.todo = Set1, !.user = u, !.role = x]
    <2>1. Arrive(s, r) /\ UNCHANGED shared
      BY <1>5 DEF SetMemberRole, Set1
    <2>2. r \in Requests /\ r.todo = Set1 /\ r.user = u /\ r.inv = None
      BY AccountsAssumption DEF Idle, Requests, Todos
    <2> HIDE DEF r
    <2>4. Fits(r)' /\ r.todo \notin Taking \union Written
      BY <2>2, PlainFits, Kinds
    <2> QED
      BY <2>1, <2>2, <2>4 DEF Arrives
  <1>6. ASSUME NEW u \in Users, NEW i \in Invites, AcceptSignedIn(s, i, u)
        PROVE  \E r \in Requests : Arrives(s, r)
    <2> PICK role \in Roles \union {None} : role = inv[i].role
      BY DEF TypeInv
    <2> DEFINE r == [Idle EXCEPT !.todo = Current1, !.user = u, !.role = role, !.inv = i]
    <2>1. Arrive(s, r) /\ SharesInvite(s, i) /\ PendingInvite(i)
      BY <1>6 DEF AcceptSignedIn, Current1
    <2>2. r \in Requests /\ r.todo = Current1 /\ r.user = u /\ r.inv = i
      BY DEF Idle, Requests, Todos, TypeInv
    <2>3. u \in users'
      <3>1. u \in users
        BY <1>6 DEF AcceptSignedIn, SignedIn, ActiveSession, TypeInv
      <3> QED
        BY <2>1, <3>1 DEF Arrive, tables
    <2>4. inv'[i].status # "none"
      BY <2>1 DEF Arrive, tables, PendingInvite
    <2> HIDE DEF r
    <2>5. r.todo \notin Closes \union Drops \union Creating \union Created \union Opens
                        \union Taking \union Written
          /\ r.todo \in Accepting
      BY <2>2, Kinds
    <2>6. Fits(r)'
      BY <2>2, <2>3, <2>4, <2>5, Kinds DEF Fits
    <2> QED
      BY <2>1, <2>2, <2>5, <2>6 DEF Arrives
  <1>7. ASSUME NEW u \in Users, NEW i \in Invites, AcceptAnonymous(s, i, u)
        PROVE  \E r \in Requests : Arrives(s, r)
    <2> PICK role \in Roles \union {None} : role = inv[i].role
      BY DEF TypeInv
    <2> DEFINE r == [Idle EXCEPT !.user = u, !.role = role, !.inv = i, !.todo = Join1]
    <2>1. Arrive(s, r) /\ SharesInvite(s, i) /\ PendingInvite(i)
      BY <1>7 DEF AcceptAnonymous, Join1
    <2>2. r \in Requests /\ r.todo = Join1 /\ r.user = u /\ r.inv = i
      BY DEF Idle, Requests, Todos, TypeInv
    <2>4. inv'[i].status # "none"
      BY <2>1 DEF Arrive, tables, PendingInvite
    <2> HIDE DEF r
    <2>5. r.todo \notin Closes \union Drops \union Creating \union Created \union Opens
                        \union Taking \union Written \union Known
          /\ r.todo \in Accepting
      BY <2>2, Kinds
    <2>6. Fits(r)'
      BY <2>2, <2>4, <2>5, Kinds DEF Fits
    <2> QED
      BY <2>1, <2>2, <2>5, <2>6 DEF Arrives
  <1>8. ASSUME NEW sid \in Sessions, Logout(s, sid)
        PROVE  \E r \in Requests : Arrives(s, r)
    <2> DEFINE r == [Idle EXCEPT !.todo = Close1, !.sid = sid]
    <2>1. Arrive(s, r) /\ UNCHANGED shared /\ sid \in handed'
      BY <1>8 DEF Logout, Close1, Arrive
    <2>2. r \in Requests /\ r.todo = Close1 /\ r.sid = sid /\ r.inv = None
      BY DEF Idle, Requests, Todos
    <2> HIDE DEF r
    <2>5. r.todo \notin Drops \union Creating \union Created \union Opens \union Accepting
                        \union Taking \union Written \union Known
          /\ r.todo \in Closes /\ r.todo # Close2
      <3>1. Close1 # Close2
        BY TodoHeads
      <3> QED
        BY <2>2, <3>1, Kinds
    <2>6. Fits(r)'
      BY <2>1, <2>2, <2>5, Kinds DEF Fits
    <2> QED
      BY <2>1, <2>2, <2>5, <2>6 DEF Arrives
  <1> QED
    BY <1>1, <1>2, <1>3, <1>4, <1>5, <1>6, <1>7, <1>8 DEF Arrival

\* An arrival writes no table.
LEMMA ArrivalMoves ==
    ASSUME TypeInv, NEW s \in Slots, NEW r \in Requests, Arrives(s, r)
    PROVE  Moves(s) /\ req'[s] = r
  <1>1. /\ req' \in [Slots -> Requests] /\ req'[s] = r
        /\ \A t \in Slots \ {s} : req'[t] = req[t]
    BY DEF Arrives, Arrive, TypeInv
  <1>2. TypeInv' /\ Growth
    BY <1>1, TablesStay DEF Arrives, Arrive, SharesInvite, TypeInv
  <1> QED
    BY <1>1, <1>2, MovesOn DEF Arrives

\* The steps that no request takes, and the requests that break off.
LEMMA AbortMoves ==
    ASSUME TypeInv, NEW s \in Slots, Abort(s)
    PROVE  Moves(s) /\ req'[s] = Idle
  <1>1. /\ req' \in [Slots -> Requests] /\ req'[s] = Idle
        /\ \A t \in Slots \ {s} : req'[t] = req[t]
    BY Returns DEF Abort
  <1>2. shared' \subseteq Invites
    BY DEF Abort, TypeInv, Requests
  <1>3. TypeInv' /\ Growth
    BY <1>1, <1>2, TablesStay DEF Abort, TypeInv
  <1> QED
    BY <1>1, <1>3, MovesOn, IdleFits

\* What a step of the environment has to show: the requests stay.
Waits == TypeInv' /\ Growth /\ UNCHANGED req

\* Then they keep what they rely on.
LEMMA WaitsFit ==
    ASSUME TypeInv, CallInv, Waits
    PROVE  CallInv'
  <1> SUFFICES ASSUME NEW t \in Slots PROVE Fits(req[t])'
    BY DEF CallInv
  <1>1. PICK q \in Requests : q = req[t] /\ q = req'[t] /\ Fits(q)
    BY DEF TypeInv, CallInv, Waits
  <1> QED
    BY <1>1, StillFits DEF Fits, Waits

\* Invitations are minted, revoked and expire; sessions expire.
LEMMA InvitationsWait ==
    ASSUME TypeInv, NEW i \in Invites
    PROVE  /\ \A r \in InviteRoles : CreateInvitation(i, r) => Waits
           /\ RevokeInvitation(i) => Waits
           /\ ExpireInvite(i) => Waits
  <1>1. ASSUME NEW r \in InviteRoles, CreateInvitation(i, r) PROVE Waits
    <2>1. inv' = [inv EXCEPT ![i] = [status |-> "pending", role |-> r]]
          /\ UNCHANGED <<users, creds, member, bound, sess, cache, req, faults, ghosts>>
      BY <1>1 DEF CreateInvitation, InsertInvite
    <2>2. inv' \in [Invites -> [status : InviteStates, role : Roles \union {None}]]
      BY <2>1, AccountsAssumption DEF TypeInv, InviteStates
    <2>3. \A j \in Invites : inv[j].status # "none" => inv'[j].status # "none"
      BY <2>1 DEF TypeInv
    <2> QED
      BY <2>1, <2>2, <2>3 DEF Waits, TypeInv, Growth, ghosts
  <1>2. ASSUME RevokeInvitation(i) PROVE Waits
    <2>1. inv' = [inv EXCEPT ![i].status = "revoked"]
          /\ UNCHANGED <<users, creds, member, bound, sess, cache, req, faults, ghosts>>
      BY <1>2 DEF RevokeInvitation, RevokeInvite
    <2>2. inv' \in [Invites -> [status : InviteStates, role : Roles \union {None}]]
      BY <2>1 DEF TypeInv, InviteStates
    <2>3. \A j \in Invites : inv[j].status # "none" => inv'[j].status # "none"
      BY <2>1 DEF TypeInv
    <2> QED
      BY <2>1, <2>2, <2>3 DEF Waits, TypeInv, Growth, ghosts
  <1>3. ASSUME ExpireInvite(i) PROVE Waits
    <2>1. inv' = [inv EXCEPT ![i].status = "expired"]
          /\ UNCHANGED <<users, creds, member, bound, sess, cache, req, faults, ghosts>>
      BY <1>3 DEF ExpireInvite
    <2>2. inv' \in [Invites -> [status : InviteStates, role : Roles \union {None}]]
      BY <2>1 DEF TypeInv, InviteStates
    <2>3. \A j \in Invites : inv[j].status # "none" => inv'[j].status # "none"
      BY <2>1 DEF TypeInv
    <2> QED
      BY <2>1, <2>2, <2>3 DEF Waits, TypeInv, Growth, ghosts
  <1> QED
    BY <1>1, <1>2, <1>3

\* A session that expires is not in use again.
LEMMA SessionsWait ==
    ASSUME TypeInv, NEW sid \in Sessions, ExpireSession(sid)
    PROVE  Waits
  <1>1. /\ sess' = [sess EXCEPT ![sid].state = "expired"] /\ sess[sid].state = "active"
        /\ UNCHANGED <<users, creds, member, inv, bound, cache, req, faults, ghosts>>
    BY DEF ExpireSession, ActiveSession
  <1>2. /\ sess' \in [Sessions -> [state : SessionStates, user : Users \union {None}]]
        /\ sess'[sid].state = "expired" /\ sess'[sid].user = sess[sid].user
        /\ \A x \in Sessions \ {sid} : sess'[x] = sess[x]
    BY <1>1 DEF TypeInv, SessionStates
  <1>3. TypeInv'
    BY <1>1, <1>2 DEF TypeInv, ghosts
  <1> QED
    BY <1>1, <1>2, <1>3 DEF Waits, Growth, ghosts

\* After a restart nobody is in progress.
LEMMA RestartClears ==
    ASSUME TypeInv, Restart
    PROVE  /\ TypeInv' /\ Growth /\ CallInv'
           /\ \A s \in Slots : req'[s] = Idle
  <1>1. req' \in [Slots -> Requests] /\ \A s \in Slots : req'[s] = Idle
    BY IdleFits DEF Restart
  <1>2. shared' \subseteq Invites /\ cache' \subseteq Sessions
    BY DEF Restart, TypeInv, Requests, ActiveSessionIds
  <1>3. TypeInv' /\ Growth
    BY <1>1, <1>2, TablesStay DEF Restart, TypeInv
  <1>4. Fits(Idle)'
    BY <1>3, IdleFits, StillFits
  <1> QED
    BY <1>1, <1>3, <1>4 DEF CallInv, Fits

---------------------------------------------------------------------------
(* Invitations and owners: the calls that write neither a membership nor   *)
(* an invitation.                                                          *)

\* Where the next call is not a write of a membership or of an invitation,
\* what is left of an acceptance was an acceptance before.
LEMMA TailKinds ==
    ASSUME NEW x \in Todos, x # <<>>
    PROVE  /\ Head(x) \notin {"member", "setrole", "accepted"}
                 => x \notin Written /\ (Tail(x) \in Unwritten => x \in Unwritten)
           /\ Head(x) # "owners" => Tail(x) \notin Taking
  <1>1. x \in Written => Head(x) = "accepted"
    BY TodoHeads DEF Written
  <1> DEFINE Free(y) == y \notin Unwritten \union Taking
  <1>2. x \in {Open1, Open2, Close1, Close2} => Free(Tail(x))
    <2>1. x \in {Open1, Open2, Close1, Close2}
          => Tail(x) \in {Open2, Close2, <<>>}
      <3>1. /\ Tail(Open1) = Open2 /\ Tail(Open2) = <<>> /\ Tail(Close1) = Close2
            /\ Tail(Close2) = <<>>
        BY TodoTails
      <3> QED
        BY <3>1
    <2> QED
      BY <2>1, Kinds
  <1>3. x \in {Count1, Current1, Email1, Accepted1, Join4} => Free(Tail(x))
    <2>1. x \in {Count1, Current1, Email1, Accepted1, Join4}
          => Tail(x) \in {<<>>, Open1}
      <3>1. /\ Tail(Count1) = <<>> /\ Tail(Current1) = <<>> /\ Tail(Email1) = <<>>
            /\ Tail(Accepted1) = <<>> /\ Tail(Join4) = Open1
        BY TodoTails
      <3> QED
        BY <3>1
    <2> QED
      BY <2>1, Kinds
  <1>4. x \in {Provision1, Provision2, Provision3, Provision4, Provision5} => Free(Tail(x))
    <2>1. x \in {Provision1, Provision2, Provision3, Provision4, Provision5}
          => Tail(x) \in {Provision2, Provision3, Provision4, Provision5, <<>>}
      <3>1. /\ Tail(Provision1) = Provision2 /\ Tail(Provision2) = Provision3 /\ Tail(Provision3) = Provision4
            /\ Tail(Provision4) = Provision5 /\ Tail(Provision5) = <<>>
        BY TodoTails
      <3> QED
        BY <3>1
    <2> QED
      BY <2>1, Kinds
  <1>5. x \in {First1, First2, First3, First4, First5} => Free(Tail(x))
    <2>1. x \in {First1, First2, First3, First4, First5}
          => Tail(x) \in {First2, First3, First4, First5, Open1}
      <3>1. /\ Tail(First1) = First2 /\ Tail(First2) = First3 /\ Tail(First3) = First4
            /\ Tail(First4) = First5 /\ Tail(First5) = Open1
        BY TodoTails
      <3> QED
        BY <3>1
    <2> QED
      BY <2>1, Kinds
  <1>6. x \in {Link1, Link2, Link3, Link4} => Free(Tail(x))
    <2>1. x \in {Link1, Link2, Link3, Link4}
          => Tail(x) \in {Link2, Link3, Link4, Open1}
      <3>1. /\ Tail(Link1) = Link2 /\ Tail(Link2) = Link3 /\ Tail(Link3) = Link4
            /\ Tail(Link4) = Open1
        BY TodoTails
      <3> QED
        BY <3>1
    <2> QED
      BY <2>1, Kinds
  <1>7. x \in {Rewrite1, Enter1} => Free(Tail(x))
    <2>1. x \in {Rewrite1, Enter1}
          => Tail(x) \in {Accepted1}
      <3>1. /\ Tail(Rewrite1) = Accepted1 /\ Tail(Enter1) = Accepted1
        BY TodoTails
      <3> QED
        BY <3>1
    <2> QED
      BY <2>1, Kinds
  <1>8. x \in {Set1, Drop1, Set3, Drop3} => Free(Tail(x))
    <2>1. x \in {Set1, Drop1, Set3, Drop3}
          => Tail(x) \in {Set2, Drop2, <<>>}
      <3>1. /\ Tail(Set1) = Set2 /\ Tail(Drop1) = Drop2 /\ Tail(Set3) = <<>>
            /\ Tail(Drop3) = <<>>
        BY TodoTails
      <3> QED
        BY <3>1
    <2> QED
      BY <2>1, Kinds
  <1>9. x \in {Join1, Join2, Join3} => x \in Unwritten /\ Tail(x) \notin Taking
    <2>1. x \in {Join1, Join2, Join3}
          => Tail(x) \in {Join2, Join3, Join4}
      <3>1. /\ Tail(Join1) = Join2 /\ Tail(Join2) = Join3 /\ Tail(Join3) = Join4
        BY TodoTails
      <3> QED
        BY <3>1
    <2> QED
      BY <2>1, Kinds
  <1>10. x \in {Set2, Drop2} => Head(x) = "owners" /\ Tail(x) \notin Unwritten
    <2>1. x \in {Set2, Drop2}
          => Head(x) = "owners" /\ Tail(x) \in {Set3, Drop3}
      <3>1. /\ Tail(Set2) = Set3 /\ Tail(Drop2) = Drop3
        BY TodoTails
      <3> QED
        BY <3>1, TodoHeads
    <2> QED
      BY <2>1, Kinds
  <1> QED
    BY <1>1, <1>2, <1>3, <1>4, <1>5, <1>6, <1>7, <1>8, <1>9, <1>10 DEF Todos

\* A call of s that has nothing to do with invitations.
Passes(s) ==
    /\ UNCHANGED <<inv, admitted, shared>> /\ req[s].todo \notin Written
    /\ \/ req'[s] = Idle
       \/ /\ req'[s].inv = req[s].inv
          /\ req'[s].todo \in Unwritten => req[s].todo \in Unwritten \/ req[s].inv = None

\* A call of s that has nothing to do with owners.
Settles(s) ==
    UNCHANGED <<member, crossed>> /\ (req'[s] = Idle \/ req'[s].todo \notin Taking)

\* The ordinary call: it goes on with what is left.
LEMMA AdvancePasses ==
    ASSUME TypeInv, NEW s \in Slots, Busy(s), Advance(s) \/ Return(s),
           UNCHANGED <<inv, admitted, shared>>,
           Head(req[s].todo) \notin {"member", "setrole", "accepted"}
    PROVE  /\ Passes(s)
           /\ UNCHANGED <<member, crossed>> /\ Head(req[s].todo) # "owners" => Settles(s)
  <1> PICK x \in Todos : x = req[s].todo /\ x # <<>>
    BY DEF TypeInv, Requests, Busy
  <1>1. x \notin Written /\ (Tail(x) \in Unwritten => x \in Unwritten)
    BY TailKinds
  <1>2. Head(x) # "owners" => Tail(x) \notin Taking
    BY TailKinds
  <1>3. \/ req'[s] = Idle
        \/ req'[s].todo = Tail(x) /\ req'[s].inv = req[s].inv
    BY Advances, Returns
  <1> QED
    BY <1>1, <1>2, <1>3 DEF Passes, Settles

\* The calls before and after the writes of memberships and invitations.
QuietCall(s) ==
    \/ Count(s) \/ RejectDuplicate(s) \/ DecideRole(s) \/ CreateUser(s)
    \/ StorePassword(s) \/ ReadCurrent(s) \/ FindByEmail(s) \/ BindIdentity(s)
    \/ OpenSession(s) \/ CacheSession(s) \/ CloseSession(s) \/ UncacheSession(s)

\* They pass and settle.
LEMMA QuietCalls ==
    ASSUME TypeInv, CallInv, NEW s \in Slots, QuietCall(s)
    PROVE  Passes(s) /\ Settles(s)
  <1> USE DEF Keep, tables, ghosts
  <1>1. ASSUME RejectDuplicate(s) \/ CreateUser(s) \/ StorePassword(s) \/ BindIdentity(s)
               \/ CacheSession(s) \/ CloseSession(s) \/ UncacheSession(s)
        PROVE  Passes(s) /\ Settles(s)
    <2>1. UNCHANGED <<inv, admitted, shared, member, crossed>> /\ Busy(s)
      BY <1>1 DEF RejectDuplicate, CreateUser, StorePassword, BindIdentity, CacheSession,
                  CloseSession, UncacheSession, At
    <2>2. Head(req[s].todo) \notin {"member", "setrole", "accepted", "owners"}
      BY <1>1 DEF RejectDuplicate, CreateUser, StorePassword, BindIdentity, CacheSession,
                  CloseSession, UncacheSession, At
    <2>3. Advance(s) \/ Return(s)
      BY <1>1 DEF RejectDuplicate, CreateUser, StorePassword, BindIdentity, CacheSession,
                  CloseSession, UncacheSession
    <2> QED
      BY <2>1, <2>2, <2>3, AdvancePasses
  <1> PICK q \in Requests : q = req[s] /\ Fits(q)
    BY DEF TypeInv, CallInv
  <1>2. ASSUME Count(s) PROVE Passes(s) /\ Settles(s)
    <2>1. q.todo = Count1 /\ UNCHANGED <<inv, admitted, shared, member, crossed>>
      BY <1>2, Heads DEF Count, At, Busy, Requests
    <2>2. Return(s) \/ Follow(s, First1) \/ Follow(s, Provision1)
      BY <1>2 DEF Count, First1, Provision1
    <2>3. First1 \in Todos /\ Provision1 \in Todos /\ First1 # <<>> /\ Provision1 # <<>>
      BY TodoHeads, TodoTails DEF Todos
    <2>4. \/ req'[s] = Idle
          \/ req'[s].todo \in {First1, Provision1} /\ req'[s].inv = q.inv
      BY <2>2, <2>3, Follows, Returns
    <2>5. Count1 \notin Written /\ {First1, Provision1} \intersect (Unwritten \union Taking) = {}
      BY Kinds
    <2> QED
      BY <2>1, <2>4, <2>5 DEF Passes, Settles
  <1>3. ASSUME FindByEmail(s) PROVE Passes(s) /\ Settles(s)
    <2>1. q.todo = Email1 /\ UNCHANGED <<inv, admitted, shared, member, crossed>>
      BY <1>3, Heads DEF FindByEmail, At, Busy, Requests
    <2>2. Follow(s, Link1) \/ Follow(s, Link4)
      BY <1>3 DEF FindByEmail, Link1, Link4
    <2>3. Link1 \in Todos /\ Link4 \in Todos /\ Link1 # <<>> /\ Link4 # <<>>
      BY TodoHeads, TodoTails DEF Todos
    <2>4. req'[s].todo \in {Link1, Link4} /\ req'[s].inv = q.inv
      BY <2>2, <2>3, Follows
    <2>5. Email1 \notin Written /\ {Link1, Link4} \intersect (Unwritten \union Taking) = {}
      BY Kinds
    <2> QED
      BY <2>1, <2>4, <2>5 DEF Passes, Settles
  <1>4. ASSUME ReadCurrent(s) PROVE Passes(s) /\ Settles(s)
    <2>1. q.todo = Current1 /\ UNCHANGED <<inv, admitted, shared, member, crossed>>
      BY <1>4, Heads DEF ReadCurrent, At, Busy, Requests
    <2>2. Follow(s, Rewrite1) \/ Follow(s, Enter1)
      BY <1>4 DEF ReadCurrent, Rewrite1, Enter1
    <2>3. Rewrite1 \in Todos /\ Enter1 \in Todos /\ Rewrite1 # <<>> /\ Enter1 # <<>>
      BY TodoHeads, TodoTails DEF Todos
    <2>4. req'[s].todo \in {Rewrite1, Enter1} /\ req'[s].inv = q.inv
      BY <2>2, <2>3, Follows
    <2>5. Current1 \notin Written /\ Current1 \in Unwritten
          /\ {Rewrite1, Enter1} \intersect Taking = {}
      BY Kinds
    <2> QED
      BY <2>1, <2>4, <2>5 DEF Passes, Settles
  <1>5. ASSUME DecideRole(s) \/ OpenSession(s) PROVE Passes(s) /\ Settles(s)
    <2>1. q.todo \in Todos /\ q.todo # <<>> /\ Head(q.todo) \in {"role", "session"}
      BY <1>5 DEF DecideRole, OpenSession, At, Busy, Requests
    <2>2. UNCHANGED <<inv, admitted, shared, member, crossed>>
      BY <1>5 DEF DecideRole, OpenSession
    <2>3. req'[s].todo = Tail(q.todo) /\ req'[s].inv = q.inv
      BY <1>5 DEF DecideRole, OpenSession, TypeInv, Requests
    <2>4. q.todo \notin Written /\ (Tail(q.todo) \in Unwritten => q.todo \in Unwritten)
          /\ Tail(q.todo) \notin Taking
      BY <2>1, TailKinds
    <2> QED
      BY <2>2, <2>3, <2>4 DEF Passes, Settles
  <1> QED
    BY <1>1, <1>2, <1>3, <1>4, <1>5 DEF QuietCall

\* So do the guards of the members, as far as invitations go.
LEMMA GuardsPass ==
    ASSUME TypeInv, CallInv, NEW s \in Slots, ReadTarget(s) \/ CountOwners(s) \/ DropMember(s)
    PROVE  Passes(s)
  <1> USE DEF Keep, tables, ghosts
  <1>1. ASSUME CountOwners(s) \/ DropMember(s) PROVE Passes(s)
    BY <1>1, AdvancePasses DEF CountOwners, DropMember, At
  <1>2. ASSUME ReadTarget(s) PROVE Passes(s)
    <2> PICK q \in Requests : q = req[s] /\ Fits(q)
      BY DEF TypeInv, CallInv
    <2>1. q.todo \in {Set1, Drop1} /\ Busy(s)
      BY <1>2, Heads DEF ReadTarget, At, Busy, Requests
    <2>2. q.inv = None /\ q.todo \notin Written
      BY <2>1, Kinds DEF Fits
    <2>3. UNCHANGED <<inv, admitted, shared>>
      BY <1>2 DEF ReadTarget
    <2>a. Tail(q.todo) \in {Set2, Drop2} /\ Tail(Tail(q.todo)) \in {Set3, Drop3}
      BY <2>1, TodoHeads, TodoTails
    <2>4. PICK todo \in Todos : Return(s) \/ Follow(s, todo)
      BY <1>2, <2>a DEF ReadTarget, Todos
    <2>5. req'[s] = Idle \/ req'[s].inv = q.inv
      BY <2>4, Follows, Returns
    <2> QED
      BY <2>2, <2>3, <2>5 DEF Passes
  <1> QED
    BY <1>1, <1>2

---------------------------------------------------------------------------
(* Invitations.                                                            *)

\* A call that passes leaves every invitation as alone as it was.
LEMMA PassesKeep ==
    ASSUME TypeInv, InviteInv, NEW s \in Slots, Passes(s),
           req' \in [Slots -> Requests], \A t \in Slots \ {s} : req'[t] = req[t]
    PROVE  InviteInv'
  <1> SUFFICES ASSUME NEW i \in Invites \ shared' PROVE Alone(i)'
    BY DEF InviteInv
  <1>1. i \in Invites \ shared /\ Alone(i)
    BY DEF InviteInv, Passes
  <1>2. UNCHANGED <<inv, admitted>>
    BY DEF Passes
  <1>3. \A t \in Slots : req'[t].inv = i => req[t].inv = i
    BY <1>1, IdleFits, NoneApart DEF Passes
  <1>4. \A t \in Slots : req'[t].inv = i /\ req'[t].todo \in Unwritten => req[t].todo \in Unwritten
    BY <1>1, IdleFits, Kinds, NoneApart DEF Passes
  <1>5. \A t \in Slots : req[t].todo \in Written => req'[t] = req[t]
    BY DEF Passes
  <1>6. \A u, v \in Slots : req'[u].inv = i /\ req'[v].inv = i => u = v
    BY <1>1, <1>3 DEF Alone
  <1>7. \A t \in Slots : req'[t].inv = i /\ req'[t].todo \in Unwritten => admitted[i] = {}
    BY <1>1, <1>3, <1>4 DEF Alone
  <1>8. admitted[i] # {} => \/ inv[i].status \notin {"none", "pending"}
                           \/ \E t \in Slots : req'[t].inv = i /\ req'[t].todo \in Written
    BY <1>1, <1>5 DEF Alone
  <1> QED
    BY <1>1, <1>2, <1>6, <1>7, <1>8 DEF Alone

\* The write of a membership: an invitation that is alone has let in nobody,
\* and from here on its acceptance only marks it accepted.
LEMMA WritesKeep ==
    ASSUME TypeInv, CallInv, InviteInv, NEW s \in Slots,
           UNCHANGED <<inv, shared>>, Admits(s),
           req[s].todo \in Unwritten \/ req[s].inv = None,
           req'[s] = Idle \/ (req'[s].inv = req[s].inv /\ req'[s].todo \notin Unwritten),
           req[s].inv # None => req'[s].inv = req[s].inv /\ req'[s].todo \in Written,
           \A t \in Slots \ {s} : req'[t] = req[t]
    PROVE  InviteInv'
  <1> SUFFICES ASSUME NEW i \in Invites \ shared' PROVE Alone(i)'
    BY DEF InviteInv
  <1>1. i \in Invites \ shared /\ Alone(i)
    BY DEF InviteInv
  <1>2. admitted'[i] = IF i = req[s].inv THEN admitted[i] \union {req[s].user} ELSE admitted[i]
    BY DEF Admits
  <1>3. \A t \in Slots : req'[t].inv = i => req[t].inv = i
    BY <1>1, IdleFits, NoneApart
  <1>4. CASE i = req[s].inv
    <2>1. admitted[i] = {}
      BY <1>1, <1>4, NoneApart DEF Alone
    <2>2. \A u, v \in Slots : req'[u].inv = i /\ req'[v].inv = i => u = v
      BY <1>1, <1>3 DEF Alone
    <2>3. \A t \in Slots : req'[t].inv = i => t = s
      BY <1>1, <1>3, <1>4 DEF Alone
    <2>4. req'[s].inv = i /\ req'[s].todo \in Written
      BY <1>1, <1>4, NoneApart
    <2>5. req'[s].todo \notin Unwritten
      BY <2>4, Kinds DEF Written
    <2> QED
      BY <1>2, <1>4, <2>1, <2>2, <2>3, <2>4, <2>5 DEF Alone
  <1>5. CASE i # req[s].inv
    <2>1. \A t \in Slots : req'[t].inv = i => t # s /\ req'[t] = req[t]
      BY <1>3, <1>5
    <2>2. \A t \in Slots : req[t].inv = i => req'[t] = req[t]
      BY <1>5
    <2>3. \A u, v \in Slots : req'[u].inv = i /\ req'[v].inv = i => u = v
      BY <1>1, <1>3 DEF Alone
    <2>4. admitted'[i] = admitted[i]
      BY <1>2, <1>5
    <2>5. \A t \in Slots : req'[t].inv = i /\ req'[t].todo \in Unwritten => admitted[i] = {}
      BY <1>1, <2>1 DEF Alone
    <2>6. admitted[i] # {} => \/ inv[i].status \notin {"none", "pending"}
                             \/ \E t \in Slots : req'[t].inv = i /\ req'[t].todo \in Written
      BY <1>1, <2>2 DEF Alone
    <2> QED
      BY <1>1, <2>3, <2>4, <2>5, <2>6 DEF Alone
  <1> QED
    BY <1>4, <1>5

\* add_member and set_role of an acceptance, and of anybody else.
LEMMA MembersKeep ==
    ASSUME TypeInv, CallInv, InviteInv, NEW s \in Slots, AddMember(s) \/ ChangeRole(s)
    PROVE  InviteInv'
  <1> PICK q \in Requests : q = req[s] /\ Fits(q)
    BY DEF TypeInv, CallInv
  <1>1. Busy(s) /\ Head(q.todo) \in {"member", "setrole"}
    BY DEF AddMember, ChangeRole, At
  <1>2. UNCHANGED <<inv, shared>>
    BY DEF AddMember, ChangeRole, Keep
  <1>3. q.todo \in {Provision5, First5, Join3, Enter1, Link3, Rewrite1, Set3}
    BY <1>1, Heads DEF Busy, Requests
  <1>4. CASE Advance(s) /\ Admits(s)
    <2>1. /\ \A t \in Slots \ {s} : req'[t] = req[t]
          /\ \/ q.todo \in {Provision5, Set3} /\ req'[s] = Idle
             \/ /\ \/ q.todo = First5 /\ req'[s].todo = Open1
                   \/ q.todo = Link3 /\ req'[s].todo = Link4
                   \/ q.todo = Join3 /\ req'[s].todo = Join4
                   \/ q.todo = Enter1 /\ req'[s].todo = Accepted1
                   \/ q.todo = Rewrite1 /\ req'[s].todo = Accepted1
                /\ req'[s].inv = q.inv
      <3>1. /\ Tail(Provision5) = <<>> /\ Tail(Set3) = <<>>
            /\ Tail(First5) = Open1 /\ Open1 # <<>>
            /\ Tail(Link3) = Link4 /\ Link4 # <<>>
            /\ Tail(Join3) = Join4 /\ Join4 # <<>>
            /\ Tail(Enter1) = Accepted1 /\ Accepted1 # <<>>
            /\ Tail(Rewrite1) = Accepted1
        BY TodoHeads, TodoTails
      <3> QED
        BY <1>1, <1>3, <1>4, <3>1, Advances
    <2>2. /\ {Provision5, Set3, First5, Link3} \intersect (Accepting \union Opens) = {}
          /\ {Join3, Enter1, Rewrite1} \subseteq Unwritten
          /\ {Join4, Accepted1} \subseteq Written
          /\ {Open1, Link4, Join4, Accepted1} \intersect Unwritten = {}
      BY Kinds
    <2>3. q.todo \in {Provision5, Set3, First5, Link3} => q.inv = None
      BY <2>2 DEF Fits
    <2>4. q.todo \in Unwritten \/ q.inv = None
      BY <1>3, <2>2, <2>3
    <2>5. req'[s] = Idle \/ (req'[s].inv = q.inv /\ req'[s].todo \notin Unwritten)
      <3>1. /\ Open1 \notin Unwritten /\ Link4 \notin Unwritten
            /\ Join4 \notin Unwritten /\ Accepted1 \notin Unwritten
        BY <2>2
      <3> HIDE <2>2
      <3> QED
        BY <2>1, <3>1
    <2>6. q.inv # None => req'[s].inv = q.inv /\ req'[s].todo \in Written
      BY <2>1, <2>2, <2>3
    <2> QED
      BY <1>2, <1>4, <2>1, <2>4, <2>5, <2>6, WritesKeep
  <1>5. CASE Return(s) /\ UNCHANGED admitted
    <2>1. q.todo \notin Written
      BY <1>3, Kinds
    <2> QED
      BY <1>2, <1>5, <2>1, Returns, PassesKeep DEF Passes
  <1> QED
    BY <1>4, <1>5 DEF AddMember, ChangeRole

\* mark_accepted: from here on the status keeps others away.
LEMMA AcceptKeeps ==
    ASSUME TypeInv, CallInv, InviteInv, NEW s \in Slots, AcceptDone(s)
    PROVE  InviteInv'
  <1> SUFFICES ASSUME NEW i \in Invites \ shared' PROVE Alone(i)'
    BY DEF InviteInv
  <1> PICK q \in Requests : q = req[s] /\ Fits(q)
    BY DEF TypeInv, CallInv
  <1>1. UNCHANGED <<admitted, shared>> /\ Busy(s)
    BY DEF AcceptDone, Keep, ghosts, At
  <1>2. i \in Invites \ shared /\ Alone(i)
    BY <1>1 DEF InviteInv
  <1>3. q.todo \in {Accepted1, Join4} /\ q.inv \in Invites
    BY Heads, Kinds DEF AcceptDone, At, Busy, Requests, Fits
  <1>4. /\ \A t \in Slots \ {s} : req'[t] = req[t]
        /\ req'[s] = Idle \/ (req'[s].todo = Open1 /\ req'[s].inv = q.inv)
    <2>1. Tail(Accepted1) = <<>> /\ Tail(Join4) = Open1
      BY TodoHeads, TodoTails
    <2>2. Advance(s)
      BY DEF AcceptDone
    <2> QED
      BY <1>1, <1>3, <2>1, <2>2, Advances
  <1>5. /\ inv'[q.inv].status = "accepted"
        /\ i # q.inv => inv'[i] = inv[i]
    BY <1>3 DEF AcceptDone, MarkAccepted, TypeInv
  <1>6. \A t \in Slots : req'[t].inv = i => req[t].inv = i
    BY <1>2, <1>4, IdleFits, NoneApart
  <1>7. \A t \in Slots : req'[t].todo \in Unwritten => req'[t] = req[t]
    BY <1>4, Kinds, IdleFits
  <1>8. \A u, v \in Slots : req'[u].inv = i /\ req'[v].inv = i => u = v
    BY <1>2, <1>6 DEF Alone
  <1>9. \A t \in Slots : req'[t].inv = i /\ req'[t].todo \in Unwritten => admitted[i] = {}
    BY <1>2, <1>7 DEF Alone
  <1>10. admitted[i] # {} => \/ inv'[i].status \notin {"none", "pending"}
                            \/ \E t \in Slots : req'[t].inv = i /\ req'[t].todo \in Written
    <2>1. CASE i = q.inv
      BY <1>5, <2>1
    <2>2. CASE i # q.inv
      <3>1. \A t \in Slots : req[t].inv = i => req'[t] = req[t]
        BY <1>4, <2>2
      <3> QED
        BY <1>2, <1>5, <2>2, <3>1 DEF Alone
    <2> QED
      BY <2>1, <2>2
  <1> QED
    BY <1>1, <1>2, <1>8, <1>9, <1>10 DEF Alone

\* An acceptance that arrives while another is in progress is shared; alone,
\* it finds an invitation that is pending and has let in nobody.
LEMMA ArrivalKeeps ==
    ASSUME TypeInv, CallInv, InviteInv, NEW s \in Slots, NEW r \in Requests, Arrives(s, r)
    PROVE  InviteInv'
  <1> SUFFICES ASSUME NEW i \in Invites \ shared' PROVE Alone(i)'
    BY DEF InviteInv
  <1>1. i \in Invites \ shared /\ Alone(i)
    BY DEF InviteInv, Arrives, SharesInvite
  <1>2. UNCHANGED <<inv, admitted>> /\ ~Busy(s)
    BY DEF Arrives, Arrive, tables
  <1>3. req'[s] = r /\ \A t \in Slots \ {s} : req'[t] = req[t]
    BY ArrivalMoves DEF Moves
  <1>4. req[s].inv = None /\ req[s].todo = <<>>
    BY <1>2, Kinds DEF CallInv, Fits, Busy
  <1>5. CASE r.inv # i
    <2>1. \A t \in Slots : req'[t].inv = i => t # s /\ req'[t] = req[t]
      BY <1>3, <1>5
    <2>2. \A t \in Slots : req[t].inv = i => req'[t] = req[t]
      BY <1>1, <1>3, <1>4, NoneApart
    <2>3. \A u, v \in Slots : req'[u].inv = i /\ req'[v].inv = i => u = v
      BY <1>1, <2>1 DEF Alone
    <2>4. \A t \in Slots : req'[t].inv = i /\ req'[t].todo \in Unwritten => admitted[i] = {}
      BY <1>1, <2>1 DEF Alone
    <2>5. admitted[i] # {} => \/ inv[i].status \notin {"none", "pending"}
                             \/ \E t \in Slots : req'[t].inv = i /\ req'[t].todo \in Written
      BY <1>1, <2>2 DEF Alone
    <2> QED
      BY <1>1, <1>2, <2>3, <2>4, <2>5 DEF Alone
  <1>6. CASE r.inv = i
    <2>1. PendingInvite(i) /\ SharesInvite(s, i)
      BY <1>1, <1>6, NoneApart DEF Arrives
    <2>2. \A t \in Slots \ {s} : req[t].inv # i
      BY <1>1, <2>1 DEF SharesInvite
    <2>3. \A t \in Slots : req[t].inv # i
      BY <1>1, <1>4, <2>2, NoneApart
    <2>4. admitted[i] = {}
      BY <1>1, <2>1, <2>3 DEF Alone, PendingInvite
    <2>5. \A t \in Slots : req'[t].inv = i => t = s
      BY <1>3, <2>2
    <2> QED
      BY <1>2, <2>4, <2>5 DEF Alone
  <1> QED
    BY <1>5, <1>6

\* A request that breaks off takes its invitation among the shared ones.
LEMMA AbortKeeps ==
    ASSUME TypeInv, CallInv, InviteInv, NEW s \in Slots, Abort(s)
    PROVE  InviteInv'
  <1> SUFFICES ASSUME NEW i \in Invites \ shared' PROVE Alone(i)'
    BY DEF InviteInv
  <1>1. i \in Invites \ shared /\ Alone(i) /\ req[s].inv # i
    BY NoneApart DEF InviteInv, Abort
  <1>2. UNCHANGED <<inv, admitted>>
    BY DEF Abort, tables
  <1>3. req'[s] = Idle /\ \A t \in Slots \ {s} : req'[t] = req[t]
    BY AbortMoves DEF Moves
  <1>4. \A t \in Slots : req'[t].inv = i \/ req[t].inv = i => req'[t] = req[t]
    BY <1>1, <1>3, IdleFits, NoneApart
  <1>5. \A u, v \in Slots : req'[u].inv = i /\ req'[v].inv = i => u = v
    BY <1>1, <1>4 DEF Alone
  <1>6. \A t \in Slots : req'[t].inv = i /\ req'[t].todo \in Unwritten => admitted[i] = {}
    BY <1>1, <1>4 DEF Alone
  <1>7. admitted[i] # {} => \/ inv[i].status \notin {"none", "pending"}
                           \/ \E t \in Slots : req'[t].inv = i /\ req'[t].todo \in Written
    BY <1>1, <1>4 DEF Alone
  <1> QED
    BY <1>1, <1>2, <1>5, <1>6, <1>7 DEF Alone

\* So does a restart with all of them.
LEMMA RestartKeeps ==
    ASSUME TypeInv, CallInv, InviteInv, Restart
    PROVE  InviteInv'
  <1> SUFFICES ASSUME NEW i \in Invites \ shared' PROVE Alone(i)'
    BY DEF InviteInv
  <1>1. i \in Invites \ shared /\ Alone(i) /\ \A t \in Slots : req[t].inv # i
    BY NoneApart DEF InviteInv, Restart
  <1>2. UNCHANGED <<inv, admitted>>
    BY DEF Restart, tables
  <1>3. \A t \in Slots : req'[t].inv = None
    BY RestartClears, IdleFits
  <1> QED
    BY <1>1, <1>2, <1>3, NoneApart DEF Alone

\* Minting, revoking and expiring: a status only becomes pending from none,
\* and an invitation nobody minted has let in nobody.
LEMMA StatusKeeps ==
    ASSUME TypeInv, CallInv, InviteInv, NEW j \in Invites,
           (\E r \in InviteRoles : CreateInvitation(j, r)) \/ RevokeInvitation(j) \/ ExpireInvite(j)
    PROVE  InviteInv'
  <1> SUFFICES ASSUME NEW i \in Invites \ shared' PROVE Alone(i)'
    BY DEF InviteInv
  <1>1. UNCHANGED <<req, admitted, shared>>
    BY DEF CreateInvitation, RevokeInvitation, ExpireInvite, ghosts
  <1>2. i \in Invites \ shared /\ Alone(i)
    BY <1>1 DEF InviteInv
  <1>3. inv'[i].status = inv[i].status \/ inv[i].status = "none"
        \/ inv'[i].status \notin {"none", "pending"}
    BY DEF CreateInvitation, RevokeInvitation, ExpireInvite, InsertInvite, RevokeInvite, TypeInv
  <1>4. inv[i].status = "none" => admitted[i] = {}
    <2>1. \A t \in Slots : req[t].inv = i => inv[i].status # "none"
      BY NoneApart DEF CallInv, Fits
    <2> QED
      BY <1>2, <2>1 DEF Alone
  <1> QED
    BY <1>1, <1>2, <1>3, <1>4 DEF Alone

---------------------------------------------------------------------------
(* Owners.                                                                 *)

\* A request that is not about to write the membership needs no guard.
LEMMA Unguarded ==
    ASSUME NEW q, q.todo \notin Taking
    PROVE  Guarded(q) /\ Guarded(q)'
  BY DEF Guarded, Taking

\* A step that writes no membership is a matter of the request that moves.
LEMMA OwnersStay ==
    ASSUME TypeInv, OwnerInv, NEW s \in Slots, member' = member,
           crossed \subseteq crossed' \union {s},
           \A t \in Slots \ {s} : req'[t] = req[t], Guarded(req[s])'
    PROVE  OwnerInv'
  <1> SUFFICES ASSUME NEW t \in Slots \ crossed' PROVE Guarded(req[t])'
    BY DEF OwnerInv
  <1>1. CASE t # s
    BY <1>1 DEF OwnerInv, Guarded, Another
  <1> QED
    BY <1>1

\* A step that writes one crosses every other request in progress.
LEMMA OwnersCross ==
    ASSUME TypeInv, OwnerInv, NEW s \in Slots, Crosses(s),
           \A t \in Slots \ {s} : req'[t] = req[t],
           req'[s].todo \notin Taking
    PROVE  OwnerInv'
  <1> SUFFICES ASSUME NEW t \in Slots \ crossed' PROVE Guarded(req[t])'
    BY DEF OwnerInv
  <1>1. CASE t = s
    BY <1>1, Unguarded DEF Guarded, Taking
  <1>2. CASE t # s
    <2>1. req[t].todo = <<>>
      BY <1>2 DEF Crosses, Busy
    <2>2. req'[t].todo \notin Taking
      BY <1>2, <2>1, Kinds
    <2> QED
      BY <2>2 DEF Guarded, Taking
  <1> QED
    BY <1>1, <1>2

\* Two owners are more than one.
LEMMA AnotherOwner ==
    ASSUME Cardinality(Owners) > 1, NEW u \in Users
    PROVE  Another(u)
  <1>1. SUFFICES ASSUME ~Another(u) PROVE FALSE
    OBVIOUS
  <1>2. Owners \subseteq {u}
    BY <1>1 DEF Owners, Another
  <1>3. IsFiniteSet({u}) /\ Cardinality({u}) = 1
    BY FS_Singleton
  <1>4. Cardinality(Owners) <= 1 /\ IsFiniteSet(Owners)
    BY <1>2, <1>3, FS_Subset
  <1>5. Cardinality(Owners) \in Nat
    BY <1>4, FS_CardinalityType
  <1> QED
    BY <1>4, <1>5

\* The guards of set_member_role and remove_member do their work.
LEMMA GuardsGuard ==
    ASSUME TypeInv, CallInv, OwnerInv, NEW s \in Slots, ReadTarget(s) \/ CountOwners(s)
    PROVE  OwnerInv'
  <1> PICK q \in Requests : q = req[s] /\ Fits(q)
    BY DEF TypeInv, CallInv
  <1>1. UNCHANGED <<member, crossed>>
    BY DEF ReadTarget, CountOwners, Keep, tables, ghosts
  <1>2. \A t \in Slots \ {s} : req'[t] = req[t]
    BY ReadTargetMoves, CountOwnersMoves DEF Moves
  <1>3. q.todo \in {Set1, Set2, Drop1, Drop2} /\ Busy(s)
    BY Heads DEF ReadTarget, CountOwners, At, Busy, Requests
  <1>4. q.user \in Users
    BY <1>3, Kinds DEF Fits, Busy
  <1>5. \/ req'[s] = Idle
        \/ req'[s].todo \notin Taking
        \/ /\ req'[s].todo \in {Set3, Drop3}
           /\ req'[s].user = q.user /\ req'[s].role = q.role
           /\ \/ member[q.user] # "owner"
              \/ req'[s].todo = Set3 /\ q.role = "owner"
              \/ Another(q.user)
    <2>1. CASE ReadTarget(s)
      <3>1. q.todo \in {Set1, Drop1}
        BY <2>1, Heads DEF ReadTarget, At, Busy, Requests
      <3>2. q.todo = Drop1 => q.role # "owner"
        BY Kinds, NoneApart DEF Fits, Roles
      <3>3. /\ Tail(Set1) = Set2 /\ Tail(Set2) = Set3 /\ Tail(Drop1) = Drop2 /\ Tail(Drop2) = Drop3
            /\ Set2 # <<>> /\ Set3 # <<>> /\ Drop2 # <<>> /\ Drop3 # <<>> /\ Set3 # Drop3
        BY TodoHeads, TodoTails
      <3>4. {Set2, Set3, Drop2, Drop3} \subseteq Todos
        BY DEF Todos
      <3>5. {Set2, Drop2} \intersect Taking = {}
        BY Kinds
      <3>6. CASE Return(s)
        BY <3>6, Returns
      <3>7. CASE ~Return(s) /\ member[q.user] = "owner" /\ q.role # "owner"
        <4>1. Follow(s, Tail(q.todo)) /\ Tail(q.todo) \in {Set2, Drop2}
          BY <2>1, <3>1, <3>3, <3>7 DEF ReadTarget
        <4> QED
          BY <3>3, <3>4, <3>5, <4>1, Follows
      <3>8. CASE ~Return(s) /\ ~(member[q.user] = "owner" /\ q.role # "owner")
        <4>1. \/ q.todo = Set1 /\ Follow(s, Set3)
              \/ q.todo = Drop1 /\ Follow(s, Drop3)
          BY <2>1, <3>1, <3>3, <3>8 DEF ReadTarget
        <4>2. \/ q.todo = Set1 /\ req'[s].todo = Set3
              \/ q.todo = Drop1 /\ req'[s].todo = Drop3
          BY <3>3, <3>4, <4>1, Follows
        <4>3. req'[s].user = q.user /\ req'[s].role = q.role
          BY <3>3, <3>4, <4>1, Follows
        <4> QED
          BY <3>2, <3>8, <4>2, <4>3
      <3> QED
        BY <3>6, <3>7, <3>8
    <2>2. CASE CountOwners(s)
      <3>1. q.todo \in {Set2, Drop2}
        BY <2>2, Heads DEF CountOwners, At, Busy, Requests
      <3>2. CASE Return(s)
        BY <3>2, Returns
      <3>3. CASE ~Return(s)
        <4>1. Advance(s) /\ ~(Cardinality(Owners) <= 1)
          BY <2>2, <3>3 DEF CountOwners
        <4>2. IsFiniteSet(Owners) /\ Cardinality(Owners) \in Nat
          BY AccountsAssumption, FS_Subset, FS_CardinalityType DEF Owners
        <4>3. Another(q.user)
          BY <1>4, <4>1, <4>2, AnotherOwner
        <4>4. Tail(Set2) = Set3 /\ Tail(Drop2) = Drop3 /\ Set3 # <<>> /\ Drop3 # <<>>
          BY TodoHeads, TodoTails
        <4>5. /\ req'[s].todo \in {Set3, Drop3}
              /\ req'[s].user = q.user /\ req'[s].role = q.role
          BY <1>3, <3>1, <4>1, <4>4, Advances
        <4> QED
          BY <4>3, <4>5
      <3> QED
        BY <3>2, <3>3
    <2> QED
      BY <2>1, <2>2
  <1>6. Guarded(req[s])'
    <2>1. CASE req'[s] = Idle \/ req'[s].todo \notin Taking
      BY <2>1, IdleFits, Kinds DEF Guarded, Taking
    <2>2. CASE /\ req'[s].todo \in {Set3, Drop3}
               /\ req'[s].user = q.user /\ req'[s].role = q.role
               /\ \/ member[q.user] # "owner"
                  \/ req'[s].todo = Set3 /\ q.role = "owner"
                  \/ Another(q.user)
      <3>1. Set3 # Drop3
        BY TodoHeads, TodoTails
      <3> QED
        BY <1>1, <2>2, <3>1 DEF Guarded, Another
    <2> QED
      BY <1>5, <2>1, <2>2
  <1> QED
    BY <1>1, <1>2, <1>6, OwnersStay

\* The three writes of a membership.
LEMMA WritesCross ==
    ASSUME TypeInv, CallInv, OwnerInv, NEW s \in Slots,
           AddMember(s) \/ ChangeRole(s) \/ DropMember(s)
    PROVE  OwnerInv'
  <1> PICK x \in Todos : x = req[s].todo
    BY DEF TypeInv, Requests
  <1>1. x # <<>> /\ Head(x) # "owners" /\ Busy(s)
    BY DEF AddMember, ChangeRole, DropMember, At, Busy
  <1>2. Tail(x) \notin Taking
    BY <1>1, TailKinds
  <1>3. Advance(s) \/ Return(s)
    BY DEF AddMember, ChangeRole, DropMember
  <1>4. /\ \A t \in Slots \ {s} : req'[t] = req[t]
        /\ req'[s].todo \notin Taking
    BY <1>1, <1>2, <1>3, Advances, Returns, IdleFits, Kinds
  <1>5. Crosses(s) \/ UNCHANGED <<member, crossed>>
    BY DEF AddMember, ChangeRole, DropMember
  <1>6. CASE Crosses(s)
    BY <1>4, <1>6, OwnersCross
  <1>7. CASE UNCHANGED <<member, crossed>>
    <2>1. Guarded(req[s])'
      BY <1>4 DEF Guarded, Taking
    <2> QED
      BY <1>4, <1>7, <2>1, OwnersStay
  <1> QED
    BY <1>5, <1>6, <1>7

---------------------------------------------------------------------------
(* Sessions.                                                               *)

\* A session comes into use in the table, in the cache and at the client, in
\* this order, and goes out of the table before it goes out of the cache.
LEMMA CallsUsable ==
    ASSUME TypeInv, CallInv, UsableInv, NEW s \in Slots, Call(s)
    PROVE  UsableInv'
  <1> USE DEF UsableInv, SessionUsable, ActiveSessionIds, ActiveSession, Keep, tables, ghosts
  <1> PICK q \in Requests : q = req[s] /\ Fits(q)
    BY DEF TypeInv, CallInv
  <1>1. CASE UNCHANGED <<sess, cache, handed>>
    BY <1>1
  <1>2. CASE OpenSession(s)
    <2>1. PICK sid \in Sessions :
              /\ sess[sid].state = "none"
              /\ sess' = [sess EXCEPT ![sid] = [state |-> "active", user |-> q.user]]
      BY <1>2 DEF OpenSession, InsertSession
    <2>2. sid \notin handed /\ UNCHANGED <<cache, handed>>
      BY <1>2, <2>1 DEF OpenSession, TypeInv
    <2>3. \A x \in Sessions \ {sid} : sess'[x] = sess[x]
      BY <2>1 DEF TypeInv
    <2> QED
      BY <2>2, <2>3
  <1>3. CASE CacheSession(s)
    BY <1>3 DEF CacheSession
  <1>4. CASE CloseSession(s)
    <2>1. sess' = [sess EXCEPT ![q.sid].state = "revoked"] /\ UNCHANGED <<cache, handed>>
      BY <1>4 DEF CloseSession, RevokeSession
    <2>2. \A x \in Sessions : sess'[x].state = sess[x].state \/ sess'[x].state = "revoked"
      BY <2>1 DEF TypeInv
    <2> QED
      BY <2>1, <2>2
  <1>5. CASE UncacheSession(s)
    <2>1. q.todo = Close2
      BY <1>5, Heads DEF UncacheSession, At, Busy, Requests
    <2>2. sess[q.sid].state = "revoked"
      BY <2>1 DEF Fits
    <2>3. cache' = cache \ {q.sid} /\ UNCHANGED <<sess, handed>>
      BY <1>5 DEF UncacheSession
    <2> QED
      BY <2>2, <2>3
  <1> QED
    BY <1>1, <1>2, <1>3, <1>4, <1>5
       DEF Call, Count, RejectDuplicate, DecideRole, CreateUser, StorePassword, AddMember,
           ChangeRole, DropMember, ReadTarget, CountOwners, ReadCurrent, AcceptDone,
           FindByEmail, BindIdentity

---------------------------------------------------------------------------
(* The invariant.                                                          *)

\* An empty instance, and an organization with an owner and no request.
LEMMA InitInv ==
    Init => Inv
  <1> SUFFICES ASSUME Init PROVE Inv
    OBVIOUS
  <1>1. /\ users \subseteq Users /\ (users # {} => founder \in users)
        /\ founder \in Users \union {None}
        /\ member \in [Users -> Roles \union {None}]
        /\ \A u \in Users : member[u] # None => u \in users
    BY DEF Init, Roles
  <1>2. sess \in [Sessions -> [state : SessionStates, user : Users \union {None}]]
        /\ \A sid \in Sessions : sess[sid].state # "none" => sess[sid].user \in users
    <2>1. CASE sess = [sid \in Sessions |-> [state |-> "none", user |-> None]]
      BY <2>1 DEF SessionStates
    <2>2. CASE users = Users /\ \E f \in [Users -> Sessions] :
                  sess = [sid \in Sessions |->
                      IF \E u \in Users : f[u] = sid
                      THEN [state |-> "active", user |-> CHOOSE u \in Users : f[u] = sid]
                      ELSE [state |-> "none", user |-> None]]
      <3> PICK f \in [Users -> Sessions] :
                  sess = [sid \in Sessions |->
                      IF \E u \in Users : f[u] = sid
                      THEN [state |-> "active", user |-> CHOOSE u \in Users : f[u] = sid]
                      ELSE [state |-> "none", user |-> None]]
        BY <2>2
      <3> DEFINE who(sid) == CHOOSE u \in Users : f[u] = sid
      <3>1. \A sid \in Sessions : (\E u \in Users : f[u] = sid) => who(sid) \in Users
        OBVIOUS
      <3>2. \A sid \in Sessions :
                sess[sid] = IF \E u \in Users : f[u] = sid
                            THEN [state |-> "active", user |-> who(sid)]
                            ELSE [state |-> "none", user |-> None]
        OBVIOUS
      <3> HIDE DEF who
      <3>3. \A sid \in Sessions : sess[sid] \in [state : SessionStates, user : Users \union {None}]
        BY <3>1, <3>2 DEF SessionStates
      <3>4. \A sid \in Sessions : sess[sid].state # "none" => sess[sid].user \in users
        BY <2>2, <3>1, <3>2
      <3>5. sess = [sid \in Sessions |-> sess[sid]]
        OBVIOUS
      <3> QED
        BY <3>3, <3>4, <3>5
    <2> QED
      BY <2>1, <2>2 DEF Init
  <1>3. inv \in [Invites -> [status : InviteStates, role : Roles \union {None}]]
    BY DEF Init, InviteStates
  <1>4. req \in [Slots -> Requests] /\ \A s \in Slots : req[s] = Idle
    BY IdleFits DEF Init
  <1>5. /\ creds = users /\ bound = {} /\ shared = {} /\ crossed = {}
        /\ cache = ActiveSessionIds /\ handed = ActiveSessionIds
        /\ admitted = [i \in Invites |-> {}]
    BY DEF Init
  <1>6. cache \subseteq Sessions /\ \A sid \in handed : sess[sid].state # "none"
    BY <1>5 DEF ActiveSessionIds, ActiveSession
  <1>7. TypeInv
    BY <1>1, <1>2, <1>3, <1>4, <1>5, <1>6 DEF TypeInv
  <1>8. CallInv
    BY <1>4, IdleFits DEF CallInv
  <1>9. InviteInv
    BY <1>4, <1>5, IdleFits, NoneApart DEF InviteInv, Alone
  <1>10. OwnerInv
    BY <1>4, IdleFits DEF OwnerInv
  <1>11. UsableInv
    BY <1>5 DEF UsableInv, SessionUsable
  <1> QED
    BY <1>7, <1>8, <1>9, <1>10, <1>11 DEF Inv

\* Every step keeps the invariant.
LEMMA NextInv ==
    Inv /\ [Next]_vars => Inv'
  <1> SUFFICES ASSUME Inv, [Next]_vars PROVE Inv'
    OBVIOUS
  <1> USE DEF Inv
  <1>1. ASSUME NEW s \in Slots, Call(s) PROVE Inv'
    <2>1. Moves(s)
      BY <1>1, CallMoves
    <2>2. TypeInv' /\ req' \in [Slots -> Requests] /\ \A t \in Slots \ {s} : req'[t] = req[t]
      BY <2>1 DEF Moves, TypeInv
    <2>3. CallInv'
      BY <2>1, CallsFit DEF Moves
    <2>4. UsableInv'
      BY <1>1, CallsUsable
    <2>5. CASE QuietCall(s)
      <3>1. Passes(s) /\ Settles(s)
        BY <2>5, QuietCalls
      <3>2. Guarded(req[s])'
        BY <3>1, IdleFits, Kinds DEF Settles, Guarded, Taking
      <3> QED
        BY <2>2, <2>3, <2>4, <3>1, <3>2, PassesKeep, OwnersStay DEF Settles
    <2>6. CASE AddMember(s) \/ ChangeRole(s)
      BY <2>2, <2>3, <2>4, <2>6, MembersKeep, WritesCross
    <2>7. CASE AcceptDone(s)
      <3>1. UNCHANGED <<member, crossed>>
        BY <2>7 DEF AcceptDone, Keep, ghosts
      <3>2. req'[s].todo \notin Taking
        <4>1. PICK x \in Todos : x = req[s].todo
          BY DEF TypeInv, Requests
        <4>2. Busy(s) /\ x # <<>> /\ Head(x) = "accepted" /\ Advance(s)
          BY <2>7, <4>1 DEF AcceptDone, At, Busy
        <4> QED
          BY <4>1, <4>2, TailKinds, Advances, IdleFits, Kinds
      <3> QED
        BY <2>2, <2>3, <2>4, <2>7, <3>1, <3>2, AcceptKeeps, OwnersStay DEF Guarded, Taking
    <2>8. CASE ReadTarget(s) \/ CountOwners(s)
      BY <2>2, <2>3, <2>4, <2>8, GuardsPass, PassesKeep, GuardsGuard
    <2>9. CASE DropMember(s)
      BY <2>2, <2>3, <2>4, <2>9, GuardsPass, PassesKeep, WritesCross
    <2> QED
      BY <1>1, <2>5, <2>6, <2>7, <2>8, <2>9 DEF Call, QuietCall
  <1>2. ASSUME NEW s \in Slots, Arrival(s) PROVE Inv'
    <2>1. PICK r \in Requests : Arrives(s, r)
      BY <1>2, ArrivalForms
    <2>2. Moves(s) /\ req'[s] = r
      BY <2>1, ArrivalMoves
    <2>3. CallInv' /\ TypeInv'
      BY <2>2, CallsFit DEF Moves
    <2>4. UsableInv'
      BY <2>1 DEF Arrives, Arrive, tables, UsableInv, SessionUsable, ActiveSessionIds, ActiveSession
    <2>5. member' = member /\ crossed \subseteq crossed' \union {s}
      BY <2>1 DEF Arrives, Arrive, tables
    <2>6. Guarded(req[s])'
      BY <2>1, <2>2 DEF Arrives, Guarded, Taking
    <2> QED
      BY <2>1, <2>2, <2>3, <2>4, <2>5, <2>6, ArrivalKeeps, OwnersStay DEF Moves
  <1>3. ASSUME NEW s \in Slots, Abort(s) PROVE Inv'
    <2>1. Moves(s) /\ req'[s] = Idle
      BY <1>3, AbortMoves
    <2>2. CallInv' /\ TypeInv'
      BY <2>1, CallsFit DEF Moves
    <2>3. UsableInv'
      BY <1>3 DEF Abort, tables, UsableInv, SessionUsable, ActiveSessionIds, ActiveSession
    <2>4. member' = member /\ crossed' = crossed
      BY <1>3 DEF Abort, tables
    <2>5. Guarded(req[s])'
      BY <2>1, IdleFits, Kinds DEF Guarded, Taking
    <2> QED
      BY <1>3, <2>1, <2>2, <2>3, <2>4, <2>5, AbortKeeps, OwnersStay DEF Moves
  <1>4. ASSUME NEW i \in Invites,
               (\E r \in InviteRoles : CreateInvitation(i, r))
                  \/ RevokeInvitation(i) \/ ExpireInvite(i)
        PROVE  Inv'
    <2>1. Waits
      BY <1>4, InvitationsWait
    <2>2. UNCHANGED <<member, sess, cache, req, crossed, handed>>
      BY <1>4 DEF CreateInvitation, RevokeInvitation, ExpireInvite, ghosts
    <2>3. OwnerInv' /\ UsableInv'
      BY <2>2 DEF OwnerInv, Guarded, Another, UsableInv, SessionUsable, ActiveSessionIds,
                  ActiveSession
    <2> QED
      BY <1>4, <2>1, <2>3, WaitsFit, StatusKeeps DEF Waits
  <1>5. ASSUME NEW sid \in Sessions, ExpireSession(sid) PROVE Inv'
    <2>1. Waits
      BY <1>5, SessionsWait
    <2>2. UNCHANGED <<member, inv, cache, req, crossed, handed, admitted, shared>>
      BY <1>5 DEF ExpireSession, ghosts
    <2>3. \A x \in Sessions : sess'[x].state = "active" => sess[x].state = "active"
      BY <1>5 DEF ExpireSession, TypeInv
    <2>4. OwnerInv' /\ UsableInv' /\ InviteInv'
      BY <2>2, <2>3 DEF OwnerInv, Guarded, Another, UsableInv, SessionUsable,
                        ActiveSessionIds, ActiveSession, InviteInv, Alone
    <2> QED
      BY <2>1, <2>4, WaitsFit DEF Waits
  <1>6. ASSUME Restart PROVE Inv'
    <2>1. TypeInv' /\ CallInv' /\ \A s \in Slots : req'[s] = Idle
      BY <1>6, RestartClears
    <2>2. InviteInv'
      BY <1>6, RestartKeeps
    <2>3. OwnerInv'
      BY <2>1, IdleFits, Kinds DEF OwnerInv, Guarded, Taking
    <2>4. UsableInv'
      BY <1>6 DEF Restart, tables, UsableInv, SessionUsable, ActiveSessionIds, ActiveSession
    <2> QED
      BY <2>1, <2>2, <2>3, <2>4
  <1>7. ASSUME UNCHANGED vars PROVE Inv'
    <2> USE <1>7 DEF vars, tables, ghosts
    <2>1. TypeInv'
      BY DEF TypeInv
    <2>2. CallInv'
      BY DEF CallInv, Fits
    <2>3. InviteInv' /\ OwnerInv' /\ UsableInv'
      BY DEF InviteInv, Alone, OwnerInv, Guarded, Another, UsableInv, SessionUsable,
             ActiveSessionIds, ActiveSession
    <2> QED
      BY <2>1, <2>2, <2>3
  <1> QED
    BY <1>1, <1>2, <1>3, <1>4, <1>5, <1>6, <1>7 DEF Next

\* The inductive invariant holds of every behaviour of the accounts.
THEOREM AccountsInvariant ==
    Spec => []Inv
  <1> QED
    BY InitInv, NextInv, PTL DEF Spec

---------------------------------------------------------------------------
(* What follows.                                                           *)

\* provision_user: of all the registrations and callbacks that find the
\* instance empty, the one whose user is created first has decided on the
\* owner role before, and still carries it when the membership is written.
THEOREM FirstUserOwns ==
    Spec => []FounderOwns
  <1>1. Inv => FounderOwns
    <2> SUFFICES ASSUME Inv, NEW s \in Slots, Busy(s),
                        Head(req[s].todo) \in {"password", "member"},
                        req[s].user = founder, req[s].inv = None
                 PROVE  req[s].role = "owner"
      BY DEF FounderOwns
    <2> PICK q \in Requests : q = req[s] /\ Fits(q)
      BY DEF Inv, TypeInv, CallInv
    <2>1. q.todo \in {Provision4, First4, Join2, Provision5, First5, Join3, Enter1, Link3}
      BY Heads DEF Busy, Requests
    <2>2. q.todo \notin {Join2, Join3, Enter1}
      BY Kinds, NoneApart DEF Fits
    <2>3. q.todo \in Created
      BY <2>1, <2>2, Kinds
    <2> QED
      BY <2>3 DEF Fits
  <1> QED
    BY <1>1, AccountsInvariant, PTL

\* accept_invite: the token is looked up long before the membership is
\* written and marked accepted only afterwards; still an invitation brings in
\* one user, unless two acceptances of it overlapped or one broke off.
THEOREM InvitesLetInOne ==
    Spec => []InviteOnce
  <1>1. Inv => InviteOnce
    <2> SUFFICES ASSUME Inv, NEW i \in Invites, i \notin shared
                 PROVE  Cardinality(admitted[i]) <= 1
      BY DEF InviteOnce
    <2>1. \A u, v \in admitted[i] : u = v
      BY DEF Inv, InviteInv, Alone
    <2>2. CASE admitted[i] = {}
      <3>1. Cardinality(admitted[i]) = 0
        BY <2>2, FS_EmptySet
      <3> QED
        BY <3>1
    <2>3. CASE admitted[i] # {}
      <3>1. PICK u : admitted[i] = {u}
        BY <2>1, <2>3
      <3>2. Cardinality(admitted[i]) = 1
        BY <3>1, FS_Singleton
      <3> QED
        BY <3>2
    <2> QED
      BY <2>2, <2>3
  <1> QED
    BY <1>1, AccountsInvariant, PTL

\* SessionCache: between the rows of the sessions and the set in memory there
\* is always a call to come, and a restart may fall between any two; a cookie
\* that a client has still works as long as its row is active.
THEOREM CookiesWork ==
    Spec => []SessionUsable
  <1>1. Inv => SessionUsable
    BY DEF Inv, UsableInv
  <1> QED
    BY <1>1, AccountsInvariant, PTL

\* set_member_role and remove_member: the guard reads the role and counts the
\* owners in transactions of their own; unless another request writes a
\* membership in between, an owner is left.
THEOREM GuardsLeaveAnOwner ==
    Spec => OwnerGuarded
  <1> DEFINE Let == Owners # {} /\ Owners' = {} =>
         \E s \in Slots : /\ (At(s, "setrole") \/ At(s, "delete"))
                         /\ (s \in crossed \/ req[s].inv # None)
  <1>1. Inv /\ [Next]_vars => [Let]_vars
    <2> SUFFICES ASSUME Inv, Next, NEW v \in Users, member[v] = "owner", Owners' = {}
                 PROVE  \E s \in Slots : /\ (At(s, "setrole") \/ At(s, "delete"))
                                        /\ (s \in crossed \/ req[s].inv # None)
      BY DEF Owners
    <2>0. v \in Users /\ member \in [Users -> Roles \union {None}]
      BY DEF Inv, TypeInv
    <2>1. member' # member /\ member'[v] # "owner"
      BY DEF Owners
    <2>2. PICK s \in Slots : Call(s)
      <3>1. ASSUME NEW s \in Slots, Arrival(s) PROVE FALSE
        BY <2>1, <3>1, ArrivalForms DEF Arrives, Arrive, tables, Inv
      <3>2. ASSUME NEW s \in Slots, Abort(s) PROVE FALSE
        BY <2>1, <3>2 DEF Abort, tables
      <3>3. ASSUME Restart PROVE FALSE
        BY <2>1, <3>3 DEF Restart, tables
      <3> QED
        BY <2>1, <3>1, <3>2, <3>3
           DEF Next, CreateInvitation, ExpireSession, RevokeInvitation, ExpireInvite
    <2> PICK q \in Requests : q = req[s] /\ Fits(q)
      BY DEF Inv, TypeInv, CallInv
    <2>3. AddMember(s) \/ ChangeRole(s) \/ DropMember(s)
      <3>1. ~QuietCall(s)
        BY <2>1, QuietCalls DEF Settles, Inv
      <3>2. ~(ReadTarget(s) \/ CountOwners(s) \/ AcceptDone(s))
        BY <2>1 DEF ReadTarget, CountOwners, AcceptDone, Keep, tables
      <3> QED
        BY <2>2, <3>1, <3>2 DEF Call, QuietCall
    <2>4. ~AddMember(s)
      <3>1. ASSUME AddMember(s) PROVE FALSE
        <4>1. InsertMember(q.user, q.role)
          BY <2>1, <3>1 DEF AddMember
        <4> QED
          BY <2>0, <2>1, <4>1, NoneApart DEF InsertMember, Roles
      <3> QED
        BY <3>1
    <2>5. CASE ChangeRole(s)
      <3>1. At(s, "setrole") /\ q.todo \in {Rewrite1, Set3}
        BY <2>5, Heads DEF ChangeRole, At, Busy, Requests
      <3>2. member' = [member EXCEPT ![q.user] = IF member[q.user] = None THEN None ELSE q.role]
        BY <2>5 DEF ChangeRole, SetRole
      <3>3. SUFFICES ASSUME s \notin crossed, q.inv = None PROVE FALSE
        BY <3>1
      <3>4. q.todo = Set3
        BY <3>1, <3>3, Kinds, NoneApart DEF Fits
      <3>5. q.user = v
        BY <2>0, <2>1, <3>2
      <3>6. q.role # "owner"
        BY <2>0, <2>1, <3>2, <3>5, NoneApart DEF Roles
      <3>7. PICK w \in Users \ {v} : member[w] = "owner"
        BY <3>3, <3>4, <3>5, <3>6 DEF Inv, OwnerInv, Guarded, Another
      <3>8. member'[w] = "owner"
        BY <2>0, <3>2, <3>5, <3>7
      <3> QED
        BY <3>7, <3>8 DEF Owners
    <2>6. CASE DropMember(s)
      <3>1. At(s, "delete") /\ q.todo = Drop3
        BY <2>6, Heads DEF DropMember, At, Busy, Requests
      <3>2. member' = [member EXCEPT ![q.user] = None]
        BY <2>6 DEF DropMember, DeleteMember
      <3>3. SUFFICES ASSUME s \notin crossed PROVE FALSE
        BY <3>1
      <3>4. q.user = v
        BY <2>0, <2>1, <3>2
      <3>5. PICK w \in Users \ {v} : member[w] = "owner"
        BY <3>1, <3>3, <3>4 DEF Inv, OwnerInv, Guarded, Another
      <3>6. member'[w] = "owner"
        BY <2>0, <3>2, <3>4, <3>5
      <3> QED
        BY <3>5, <3>6 DEF Owners
    <2> QED
      BY <2>3, <2>4, <2>5, <2>6
  <1> HIDE DEF Let
  <1>2. Spec => [][Let]_vars
    BY <1>1, AccountsInvariant, PTL DEF Spec
  <1> QED
    BY <1>2 DEF OwnerGuarded, Let

=============================================================================

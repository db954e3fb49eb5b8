--------------------------- MODULE RoomMembership ---------------------------
(***************************************************************************)
(* Who is in a room, who owns it, and the requests that change that:       *)
(* src/internal/chat/members_core.go, room_members.go and permissions.go,  *)
(* the membership pages of src/internal/admin/accounts.go and the deletion *)
(* of an account (src/internal/auth/account.go).                           *)
(*                                                                         *)
(* A handler first reads, in queries of its own, whether the caller may,   *)
(* then what it needs of the room, and then writes in one transaction.     *)
(* Transactions take the write lock when they begin (BEGIN IMMEDIATE), so  *)
(* a write is one step; nothing keeps what was read true until then.  A    *)
(* request has a step for each of the three; one that is refused before it *)
(* has read the room changes nothing and has no step.                      *)
(***************************************************************************)
EXTENDS Integers, FiniteSets

CONSTANTS
    Users,
    Superusers,     \* the accounts with is_superuser
    Nobody,         \* rooms.created_by_user_id IS NULL
    Tasks,          \* bound: requests at the same time
    MaxRequests     \* bound: requests in all, and deleted accounts

ASSUME MembershipAssumption ==
    /\ IsFiniteSet(Users)
    /\ Superusers \subseteq Users
    /\ Nobody \notin Users
    /\ MaxRequests \in Nat

VARIABLES
    room,           \* the room's row exists
    role,           \* room_memberships: each user's role, "none" without a row
    creator,        \* rooms.created_by_user_id
    policy,         \* rooms.join_policy
    blocked,        \* room_blacklist
    request,        \* join_requests: no row, pending, or settled in any way
    invites,        \* room_invites that are pending, as <<inviter, target>>
    users,          \* accounts that have not been deleted
    task,           \* the requests under way
    left            \* what is left of MaxRequests

roomVars == <<room, role, creator, blocked, request>>
data == <<roomVars, policy, invites>>
vars == <<data, users, task, left>>

Ordinary == Users \ Superusers
Roles == {"none", "member", "admin", "owner"}
Policies == {"open", "approval_required", "closed"}
Steps == {"idle",
          "join", "admit", "apply",
          "leave", "depart",
          "remove", "expel",
          "role", "setRole",
          "transfer", "handOver",
          "invite", "sendInvite",
          "answer", "decline", "settleInvites", "settleBoth", "settleRequest",
          "applyInvited", "admitInvited",
          "block", "addBlock", "unblock",
          "withdraw",
          "review", "approve", "reject",
          "settings", "setPolicy", "reviewAll",
          "delete"}
Arguments == {"", "member", "admin", "confirm", "accept", "decline", "approve", "reject"}
             \cup Policies

\* needs: the accounts without which the transaction fails, because a message
\* names them or a foreign key points at them.  free: history, whether the user
\* whom the request lets in was off the blacklist at some time since it began.
Task == [pc : Steps, actor : Users \cup {Nobody}, target : Users \cup {Nobody},
         arg : Arguments, needs : SUBSET Users, free : BOOLEAN]
Idle == [pc |-> "idle", actor |-> Nobody, target |-> Nobody, arg |-> "", needs |-> {},
         free |-> FALSE]

\* The variables have their types, and nobody has invited themselves.
TypeOK ==
    /\ room \in BOOLEAN
    /\ role \in [Users -> Roles]
    /\ creator \in Users \cup {Nobody}
    /\ policy \in Policies
    /\ blocked \subseteq Users
    /\ request \in [Users -> {"none", "pending", "settled"}]
    /\ invites \subseteq {i \in Users \X Users : i[1] # i[2]}
    /\ users \subseteq Users
    /\ task \in [Tasks -> Task]
    /\ left \in 0 .. MaxRequests

Having(roles, r) == {u \in Users : roles[u] = r}
Members == {u \in Users : role[u] # "none"}
Owners == Having(role, "owner")

isAdmin(u) == IF u \in Superusers THEN room ELSE role[u] \in {"owner", "admin"}
canManageRoomRoles(u) == IF u \in Superusers THEN room ELSE role[u] = "owner"

\* A room as createRoom leaves it and joins and promotions since: with the one who
\* made it for its owner, or, where a superuser made it, without members.
Init ==
    /\ room = TRUE
    /\ role \in [Users -> Roles]
    /\ creator \in Users
    /\ IF creator \in Ordinary THEN Owners = {creator} ELSE Members = {}
    /\ Members \subseteq Ordinary
    /\ policy \in Policies
    /\ blocked = {}
    /\ request = [u \in Users |-> "none"]
    /\ invites = {}
    /\ users = Users
    /\ task = [t \in Tasks |-> Idle]
    /\ left = MaxRequests
-----------------------------------------------------------------------------
(* What the transactions share *)

\* addRoomMemberTx for the users of new who are not members: the first member
\* of a room without an owner becomes its owner.
Admit(new) ==
    LET added == new \ Members IN
    /\ \E owner \in IF Owners = {} /\ added # {} THEN added ELSE {Nobody} :
          /\ role' = [u \in Users |-> IF u = owner THEN "owner"
                                      ELSE IF u \in added THEN "member"
                                      ELSE role[u]]
          /\ creator' = IF owner = Nobody THEN creator ELSE owner
    /\ UNCHANGED <<room, blocked>>

\* DELETE FROM rooms takes every row with it but the invitations.
EndRoom ==
    /\ room' = FALSE
    /\ role' = [u \in Users |-> "none"]
    /\ creator' = Nobody
    /\ blocked' = {}
    /\ request' = [u \in Users |-> "none"]

\* pruneOrRepairRoomTx over the roles a transaction has written: an empty room
\* goes; a room without an owner gets an admin for one, or else any member.
PruneOrRepair(roles) ==
    IF \A u \in Users : roles[u] = "none" THEN EndRoom
    ELSE /\ IF Having(roles, "owner") # {}
            THEN role' = roles /\ creator' = creator
            ELSE \E next \in IF Having(roles, "admin") # {} THEN Having(roles, "admin")
                             ELSE Having(roles, "member") :
                    /\ role' = [roles EXCEPT ![next] = "owner"]
                    /\ creator' = next
         /\ UNCHANGED <<room, blocked, request>>

\* join_requests: a pending request is settled; a row is written or updated.
Settled(who) ==
    [u \in Users |-> IF u \in who /\ request[u] # "none" THEN "settled" ELSE request[u]]
Applied(u) == [request EXCEPT ![u] = "pending"]
Pending == {u \in Users : request[u] = "pending"}
WithoutInvitesOf(u) == {i \in invites : i[2] # u}
-----------------------------------------------------------------------------
(* The steps of a request *)

Spend == left > 0 /\ left' = left - 1

\* The user whom a request may let into the room.
Joiner(pc, actor, target) ==
    IF pc \in {"join", "admit", "answer", "admitInvited"} THEN actor
    ELSE IF pc \in {"review", "approve"} THEN target
    ELSE Nobody

\* An account in use makes a request, which has passed its first reads.
Begin(t, pc, u, v, arg, needs) ==
    /\ task[t].pc = "idle"
    /\ u \in users
    /\ Spend
    /\ task' = [task EXCEPT ![t] = [pc |-> pc, actor |-> u, target |-> v, arg |-> arg,
                                    needs |-> needs,
                                    free |-> Joiner(pc, u, v) \notin blocked \cup {Nobody}]]
    /\ UNCHANGED <<data, users>>

\* It has read the room and goes on to pc ...
GoOn(t, pc, needs) ==
    /\ task' = [task EXCEPT ![t] = [pc |-> pc, actor |-> task[t].actor,
                                    target |-> task[t].target, arg |-> task[t].arg,
                                    needs |-> needs, free |-> task[t].free]]
    /\ UNCHANGED <<data, users, left>>

\* ... or it ends.
End(t) == task' = [task EXCEPT ![t] = Idle]
Refuse(t) == End(t) /\ UNCHANGED <<data, users, left>>
Written(t) == End(t) /\ UNCHANGED <<users, left>>

\* The accounts and the room that the transaction needs are there: it commits.
Alive(t) == room /\ task[t].needs \subseteq users
-----------------------------------------------------------------------------
(* joinRoom: a superuser may open every room and never becomes a member. *)

Join(t, u) ==
    /\ room /\ u \in Ordinary \ blocked
    /\ Begin(t, "join", u, Nobody, "", {})

ReadPolicy(t) ==
    LET u == task[t].actor IN
    /\ task[t].pc = "join"
    /\ IF ~room \/ (role[u] = "none" /\ policy = "closed") THEN Refuse(t)
       ELSE IF role[u] = "none" /\ policy = "approval_required" THEN GoOn(t, "apply", {u})
       ELSE GoOn(t, "admit", {u})

AddJoiner(t) ==
    /\ task[t].pc = "admit"
    /\ IF Alive(t)
       THEN Admit({task[t].actor}) /\ UNCHANGED <<request, policy, invites>>
       ELSE UNCHANGED data
    /\ Written(t)

Apply(t) ==
    /\ task[t].pc = "apply"
    /\ request' = IF Alive(t) THEN Applied(task[t].actor) ELSE request
    /\ UNCHANGED <<room, role, creator, blocked, policy, invites>>
    /\ Written(t)
-----------------------------------------------------------------------------
(* leaveRoom *)

Leave(t, u, confirmed) ==
    /\ u \in Ordinary /\ role[u] # "none"
    /\ Begin(t, "leave", u, Nobody, confirmed, {})

\* The last member has to confirm that the room goes.
CountMembers(t) ==
    /\ task[t].pc = "leave"
    /\ IF task[t].arg = "confirm" \/ \E v, w \in Members : v # w
       THEN GoOn(t, "depart", {task[t].actor})
       ELSE Refuse(t)

\* An empty room is deleted even where the leaver's account is gone: only the
\* message that somebody left needs the account.
Depart(t) ==
    LET u == task[t].actor IN
    /\ task[t].pc = "depart"
    /\ IF Members \subseteq {u} \/ Alive(t)
       THEN /\ PruneOrRepair([role EXCEPT ![u] = "none"])
            /\ invites' = WithoutInvitesOf(u)
            /\ UNCHANGED policy
       ELSE UNCHANGED data
    /\ Written(t)
-----------------------------------------------------------------------------
(* removeMember *)

Remove(t, a, v) ==
    /\ isAdmin(a) /\ v \in Ordinary
    /\ Begin(t, "remove", a, v, "", {})

ReadRemoved(t) ==
    LET v == task[t].target IN
    /\ task[t].pc = "remove"
    /\ IF role[v] = "owner" \/ (role[v] = "admin" /\ ~canManageRoomRoles(task[t].actor))
       THEN Refuse(t)
       ELSE GoOn(t, "expel", {task[t].actor, v})

Expel(t) ==
    LET v == task[t].target IN
    /\ task[t].pc = "expel"
    /\ IF role[v] # "none" /\ (Members = {v} \/ Alive(t))
       THEN /\ PruneOrRepair([role EXCEPT ![v] = "none"])
            /\ invites' = WithoutInvitesOf(v)
            /\ UNCHANGED policy
       ELSE UNCHANGED data
    /\ Written(t)
-----------------------------------------------------------------------------
(* updateMemberRole and transferRoomCreator *)

\* The handler reads the target's role before it asks whether the caller may
\* change it.  A change of role is announced, and the message names them both.
UpdateRole(t, a, v, newRole) ==
    /\ role[v] \in {"member", "admin"}
    /\ Begin(t, "role", a, v, newRole, IF role[v] = newRole THEN {} ELSE {a, v})

AskOwner(t) ==
    /\ task[t].pc = "role"
    /\ IF canManageRoomRoles(task[t].actor)
       THEN GoOn(t, "setRole", task[t].needs)
       ELSE Refuse(t)

SetRole(t) ==
    LET v == task[t].target IN
    /\ task[t].pc = "setRole"
    /\ IF Alive(t) /\ role[v] # "none"
       THEN PruneOrRepair([role EXCEPT ![v] = task[t].arg]) /\ UNCHANGED <<policy, invites>>
       ELSE UNCHANGED data
    /\ Written(t)

Transfer(t, a, v) ==
    /\ canManageRoomRoles(a) /\ v \in Ordinary
    /\ Begin(t, "transfer", a, v, "", {})

ReadHeir(t) ==
    LET v == task[t].target IN
    /\ task[t].pc = "transfer"
    /\ IF role[v] = "none" THEN Refuse(t)
       ELSE GoOn(t, "handOver",
                 IF role[v] = "owner" THEN {v} ELSE {task[t].actor, v} \cup Owners)

\* Mutant: the owner before is not demoted.
HandOverTwoOwners(t) ==
    LET v == task[t].target IN
    /\ task[t].pc = "handOver"
    /\ IF Alive(t)
       THEN /\ role' = [role EXCEPT ![v] = IF role[v] = "none" THEN "none" ELSE "owner"]
            /\ creator' = v
            /\ UNCHANGED <<room, blocked, request, policy, invites>>
       ELSE UNCHANGED data
    /\ Written(t)

\* Nothing asks again whether the new owner is still a member.
HandOver(t) ==
    LET v == task[t].target IN
    /\ task[t].pc = "handOver"
    /\ IF Alive(t)
       THEN /\ role' = [u \in Users |-> IF u = v /\ role[u] # "none" THEN "owner"
                                        ELSE IF u # v /\ role[u] = "owner" THEN "admin"
                                        ELSE role[u]]
            /\ creator' = v
            /\ UNCHANGED <<room, blocked, request, policy, invites>>
       ELSE UNCHANGED data
    /\ Written(t)
-----------------------------------------------------------------------------
(* inviteMember and reviewRoomInvite *)

\* Mutant: a user may be invited by themselves.
InviteAnybody(t, a, v) ==
    /\ IF a \in Superusers THEN room ELSE role[a] # "none"
    /\ Begin(t, "invite", a, v, "", {})

Invite(t, a, v) ==
    /\ IF a \in Superusers THEN room ELSE role[a] # "none"
    /\ v # a
    /\ Begin(t, "invite", a, v, "", {})

ReadInvited(t) ==
    LET a == task[t].actor
        v == task[t].target
    IN  /\ task[t].pc = "invite"
        /\ IF room /\ policy # "closed" /\ v \in users /\ role[v] = "none"
              /\ v \notin blocked /\ <<a, v>> \notin invites
           THEN GoOn(t, "sendInvite", {v})
           ELSE Refuse(t)

SendInvite(t) ==
    /\ task[t].pc = "sendInvite"
    /\ invites' = IF Alive(t) THEN invites \cup {<<task[t].actor, task[t].target>>}
                  ELSE invites
    /\ UNCHANGED <<roomVars, policy>>
    /\ Written(t)

\* The invitation is pending and roomInviteInvalidReason finds none.
Answer(t, u, i, decision) ==
    /\ <<i, u>> \in invites
    /\ room /\ policy # "closed" /\ u \notin blocked
    /\ i \in Superusers \/ role[i] # "none"
    /\ Begin(t, "answer", u, i, decision, {})

hasPrivilegedInvite(u) ==
    /\ u \notin blocked /\ policy # "closed"
    /\ \E i \in Users : <<i, u>> \in invites /\ isAdmin(i)

\* A member's invitations are closed; a superuser needs none; an invitation by
\* an admin lets its target in, and any other only in an open room.
ReadAnswer(t) ==
    LET u == task[t].actor
        i == task[t].target
    IN  /\ task[t].pc = "answer"
        /\ IF task[t].arg = "decline" THEN GoOn(t, "decline", {})
           ELSE IF role[u] # "none" THEN GoOn(t, "settleBoth", {})
           ELSE IF u \in Superusers THEN GoOn(t, "settleInvites", {})
           ELSE IF ~room THEN Refuse(t)
           ELSE IF policy # "open" /\ ~isAdmin(i) /\ ~hasPrivilegedInvite(u)
                THEN GoOn(t, "applyInvited", {u})
           ELSE GoOn(t, "admitInvited", IF isAdmin(i) THEN {i} ELSE {})

Decline(t) ==
    /\ task[t].pc = "decline"
    /\ invites' = invites \ {<<task[t].target, task[t].actor>>}
    /\ UNCHANGED <<roomVars, policy>>
    /\ Written(t)

\* A member's join request is settled by a statement of its own.
SettleInvites(t) ==
    /\ task[t].pc \in {"settleInvites", "settleBoth"}
    /\ invites' = WithoutInvitesOf(task[t].actor)
    /\ UNCHANGED <<roomVars, policy, users, left>>
    /\ IF task[t].pc = "settleBoth"
       THEN task' = [task EXCEPT ![t] = [task[t] EXCEPT !.pc = "settleRequest"]]
       ELSE End(t)

SettleRequest(t) ==
    /\ task[t].pc = "settleRequest"
    /\ request' = Settled({task[t].actor})
    /\ UNCHANGED <<room, role, creator, blocked, policy, invites>>
    /\ Written(t)

ApplyInvited(t) ==
    LET u == task[t].actor IN
    /\ task[t].pc = "applyInvited"
    /\ IF Alive(t)
       THEN /\ request' = Applied(u)
            /\ invites' = WithoutInvitesOf(u)
            /\ UNCHANGED <<room, role, creator, blocked, policy>>
       ELSE UNCHANGED data
    /\ Written(t)

\* The admin who invited is the reviewer of a pending join request.
AdmitInvited(t) ==
    LET u == task[t].actor IN
    /\ task[t].pc = "admitInvited"
    /\ IF room /\ u \in users /\ (u \in Pending => task[t].needs \subseteq users)
       THEN /\ Admit({u})
            /\ request' = Settled({u})
            /\ invites' = WithoutInvitesOf(u)
            /\ UNCHANGED policy
       ELSE UNCHANGED data
    /\ Written(t)
-----------------------------------------------------------------------------
(* blockRoomUser and unblockRoomUser: members and superusers are not blocked. *)

Block(t, a, v) ==
    /\ isAdmin(a) /\ v \in Ordinary
    /\ Begin(t, "block", a, v, "", {})

ReadBlocked(t) ==
    LET v == task[t].target IN
    /\ task[t].pc = "block"
    /\ IF v \in users /\ role[v] = "none"
       THEN GoOn(t, "addBlock", {task[t].actor, v})
       ELSE Refuse(t)

AddBlock(t) ==
    /\ task[t].pc = "addBlock"
    /\ blocked' = IF Alive(t) THEN blocked \cup {task[t].target} ELSE blocked
    /\ UNCHANGED <<room, role, creator, request, policy, invites>>
    /\ Written(t)

Unblock(t, a, v) ==
    /\ isAdmin(a) /\ v \in Ordinary
    /\ Begin(t, "unblock", a, v, "", {})

RemoveBlock(t) ==
    LET v == task[t].target IN
    /\ task[t].pc = "unblock"
    /\ blocked' = blocked \ {v}
    /\ task' = [s \in Tasks |->
                  IF s = t THEN Idle
                  ELSE IF v = Joiner(task[s].pc, task[s].actor, task[s].target)
                       THEN [task[s] EXCEPT !.free = TRUE]
                  ELSE task[s]]
    /\ UNCHANGED <<room, role, creator, request, policy, invites, users, left>>
-----------------------------------------------------------------------------
(* withdrawRoomApplication and reviewJoinRequest *)

Withdraw(t, u) ==
    /\ u \in Pending
    /\ Begin(t, "withdraw", u, Nobody, "", {})

SaveWithdrawal(t) ==
    /\ task[t].pc = "withdraw"
    /\ request' = Settled({task[t].actor})
    /\ UNCHANGED <<room, role, creator, blocked, policy, invites>>
    /\ Written(t)

Review(t, a, v, decision) ==
    /\ isAdmin(a) /\ v \in Ordinary
    /\ Begin(t, "review", a, v, decision, {})

\* A request that was settled may be reviewed again: its status is not asked.
ReadRequest(t) ==
    LET a == task[t].actor
        v == task[t].target
    IN  /\ task[t].pc = "review"
        /\ IF request[v] = "none" \/ (task[t].arg = "approve" /\ v \in blocked)
           THEN Refuse(t)
           ELSE IF task[t].arg = "approve"
                THEN GoOn(t, "approve", {a, v})
                ELSE GoOn(t, "reject", {a})

Approve(t) ==
    LET v == task[t].target IN
    /\ task[t].pc = "approve"
    /\ IF Alive(t)
       THEN /\ Admit({v})
            /\ request' = Settled({v})
            /\ UNCHANGED <<policy, invites>>
       ELSE UNCHANGED data
    /\ Written(t)

Reject(t) ==
    /\ task[t].pc = "reject"
    /\ request' = IF Alive(t) THEN Settled({task[t].target}) ELSE request
    /\ UNCHANGED <<room, role, creator, blocked, policy, invites>>
    /\ Written(t)
-----------------------------------------------------------------------------
(* updateRoomSettings and deleteRoom *)

UpdateSettings(t, a, newPolicy) ==
    /\ isAdmin(a)
    /\ Begin(t, "settings", a, Nobody, newPolicy, {})

\* Pending requests are reviewed when a room that asks for approval no longer does.
ReadOldPolicy(t) ==
    LET new == task[t].arg IN
    /\ task[t].pc = "settings"
    /\ IF ~room THEN Refuse(t)
       ELSE IF policy = new THEN GoOn(t, "setPolicy", {})
       ELSE GoOn(t, IF policy = "approval_required" THEN "reviewAll" ELSE "setPolicy",
                 {task[t].actor})

SetPolicy(t) ==
    /\ task[t].pc = "setPolicy"
    /\ policy' = IF Alive(t) THEN task[t].arg ELSE policy
    /\ UNCHANGED <<roomVars, invites>>
    /\ Written(t)

\* An open room takes in who is pending and not blocked, in some order; a closed
\* one rejects everybody.
ReviewAll(t) ==
    /\ task[t].pc = "reviewAll"
    /\ IF Alive(t)
       THEN /\ policy' = task[t].arg
            /\ request' = Settled(Pending)
            /\ Admit(IF task[t].arg = "open" THEN Pending \ blocked ELSE {})
            /\ UNCHANGED invites
       ELSE UNCHANGED data
    /\ Written(t)

Delete(t, a) ==
    /\ room /\ (role[a] = "owner" \/ a \in Superusers)
    /\ Begin(t, "delete", a, Nobody, "", {})

DeleteRoom(t) ==
    /\ task[t].pc = "delete"
    /\ EndRoom
    /\ UNCHANGED <<policy, invites>>
    /\ Written(t)
-----------------------------------------------------------------------------
(* The admin console, whose checks are in the transaction, and accounts *)

\* Mutant: a blocked user may be added.
AddBlockedMembership(u, newRole) ==
    /\ Spend
    /\ room /\ u \in users \cap Ordinary /\ role[u] = "none"
    /\ role' = [role EXCEPT ![u] = IF Owners = {} THEN "owner" ELSE newRole]
    /\ creator' = IF Owners = {} THEN u ELSE creator
    /\ UNCHANGED <<room, blocked, request, policy, invites, users, task>>

\* The console adds nobody who is blocked.
AddMembership(u, newRole) ==
    /\ Spend
    /\ room /\ u \in users \cap Ordinary /\ u \notin blocked /\ role[u] = "none"
    /\ role' = [role EXCEPT ![u] = IF Owners = {} THEN "owner" ELSE newRole]
    /\ creator' = IF Owners = {} THEN u ELSE creator
    /\ UNCHANGED <<room, blocked, request, policy, invites, users, task>>

\* Mutant: the owner's role is not locked.
UpdateAnyMembership(u, newRole) ==
    /\ Spend
    /\ role[u] \notin {"none", newRole}
    /\ role' = [v \in Users |-> IF v = u THEN newRole
                                ELSE IF newRole = "owner" /\ role[v] = "owner" THEN "admin"
                                ELSE role[v]]
    /\ creator' = IF newRole = "owner" THEN u ELSE creator
    /\ UNCHANGED <<room, blocked, request, policy, invites, users, task>>

\* The owner keeps the role until another member is made the owner.
UpdateMembership(u, newRole) ==
    /\ Spend
    /\ role[u] \notin {"none", newRole} /\ (newRole = "owner" \/ role[u] # "owner")
    /\ role' = [v \in Users |-> IF v = u THEN newRole
                                ELSE IF newRole = "owner" /\ role[v] = "owner" THEN "admin"
                                ELSE role[v]]
    /\ creator' = IF newRole = "owner" THEN u ELSE creator
    /\ UNCHANGED <<room, blocked, request, policy, invites, users, task>>

RemoveMembership(u) ==
    /\ Spend
    /\ role[u] \in {"member", "admin"}
    /\ role' = [role EXCEPT ![u] = "none"]
    /\ UNCHANGED <<room, creator, blocked, request, policy, invites, users, task>>

\* DELETE FROM users: the account's rows go; a room it owned is not repaired.
DeleteAccount(u) ==
    /\ Spend
    /\ u \in users \cap Ordinary
    /\ users' = users \ {u}
    /\ role' = [role EXCEPT ![u] = "none"]
    /\ creator' = IF creator = u THEN Nobody ELSE creator
    /\ blocked' = blocked \ {u}
    /\ request' = [request EXCEPT ![u] = "none"]
    /\ invites' = WithoutInvitesOf(u)
    /\ UNCHANGED <<room, policy, task>>
-----------------------------------------------------------------------------
JoinOrLeave(t) ==
    \/ \E u \in Users : Join(t, u) \/ \E c \in {"", "confirm"} : Leave(t, u, c)
    \/ ReadPolicy(t) \/ AddJoiner(t) \/ Apply(t)
    \/ CountMembers(t) \/ Depart(t)

ManageMembers(t) ==
    \/ \E a, v \in Users : \/ Remove(t, a, v) \/ Transfer(t, a, v)
                           \/ \E r \in {"member", "admin"} : UpdateRole(t, a, v, r)
    \/ ReadRemoved(t) \/ Expel(t)
    \/ AskOwner(t) \/ SetRole(t)
    \/ ReadHeir(t) \/ HandOver(t)

Invitations(t) ==
    \/ \E a, v \in Users : \/ Invite(t, a, v)
                           \/ \E d \in {"accept", "decline"} : Answer(t, a, v, d)
    \/ ReadInvited(t) \/ SendInvite(t)
    \/ ReadAnswer(t) \/ Decline(t) \/ SettleInvites(t) \/ SettleRequest(t)
    \/ ApplyInvited(t) \/ AdmitInvited(t)

Gatekeeping(t) ==
    \/ \E a, v \in Users : \/ Block(t, a, v) \/ Unblock(t, a, v)
                           \/ \E d \in {"approve", "reject"} : Review(t, a, v, d)
    \/ \E u \in Users : Withdraw(t, u)
    \/ ReadBlocked(t) \/ AddBlock(t) \/ RemoveBlock(t)
    \/ SaveWithdrawal(t) \/ ReadRequest(t) \/ Approve(t) \/ Reject(t)

RunRoom(t) ==
    \/ \E a \in Users : Delete(t, a) \/ \E p \in Policies : UpdateSettings(t, a, p)
    \/ ReadOldPolicy(t) \/ SetPolicy(t) \/ ReviewAll(t)
    \/ DeleteRoom(t)

Console(u) ==
    \/ \E r \in {"member", "admin"} : AddMembership(u, r)
    \/ \E r \in {"member", "admin", "owner"} : UpdateMembership(u, r)
    \/ RemoveMembership(u)

Next ==
    \/ \E t \in Tasks : \/ JoinOrLeave(t) \/ ManageMembers(t) \/ Invitations(t)
                        \/ Gatekeeping(t) \/ RunRoom(t)
    \/ \E u \in Users : Console(u) \/ DeleteAccount(u)

Spec == Init /\ [][Next]_vars
-----------------------------------------------------------------------------
(* Properties *)

\* The user who has the role of owner is the one whom the room's row names as its
\* creator, so there is one owner at most.
OwnerIsCreator == \A u \in Users : role[u] = "owner" => creator = u

\* Whoever has a row in the room, as a member, on its blacklist or with a join
\* request, has an account, is no superuser, and the room still exists.
RowsBelong ==
    \A u \in Users : (role[u] # "none" \/ u \in blocked \/ request[u] # "none")
                      => room /\ u \in users \cap Ordinary

\* The rows of the room agree with each other: the two places that name the owner,
\* which every transfer, repair, first join and console change writes
\* (addRoomMemberTx, pruneOrRepairRoomTx, transferRoomCreator, updateMembership), and
\* the rows of users with those of their accounts and the room, whatever was deleted
\* since the request that wrote them looked.
RowsAgree == OwnerIsCreator /\ RowsBelong

\* A room with members loses its owner without getting another in two ways only:
\* the owner's account is deleted, or the room is handed over to a member who has
\* left since the handler looked (transferRoomCreator).
OwnershipIsHandedOver ==
    [][(Owners # {} /\ Members' # {} /\ Owners' = {}) =>
          \/ Owners \cap users' = {}
          \/ \E t \in Tasks : /\ task[t].pc = "handOver" /\ task'[t] = Idle
                             /\ role[task[t].target] = "none"
      ]_vars

\* A user who is let in while blocked was off the blacklist at some time since the
\* request that lets them in began: no invitation, approval, change of policy or
\* console command overrules a block that was there before (isRoomBlacklisted).
BlockedStayOut ==
    [][\A u \in (Members' \ Members) \cap blocked :
          \E t \in Tasks : /\ task[t].free /\ task'[t] = Idle
                           /\ u = Joiner(task[t].pc, task[t].actor, task[t].target)]_vars
=============================================================================

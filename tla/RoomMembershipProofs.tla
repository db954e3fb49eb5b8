------------------------ MODULE RoomMembershipProofs ------------------------
(***************************************************************************)
(* The safety properties of RoomMembership hold for every set of users and *)
(* superusers, every number of requests at a time and in all.              *)
(***************************************************************************)
EXTENDS RoomMembership, TLAPS

\* The rows of the room, and what they have to do with the accounts.
RoomOK ==
    /\ room \in BOOLEAN
    /\ role \in [Users -> Roles]
    /\ creator \in Users \cup {Nobody}
    /\ blocked \subseteq Users
    /\ request \in [Users -> {"none", "pending", "settled"}]
    /\ users \subseteq Users
    /\ OwnerIsCreator
    /\ RowsBelong

RestOK ==
    /\ policy \in Policies
    /\ invites \subseteq {i \in Users \X Users : i[1] # i[2]}

\* What a request has read of its arguments and of the accounts it will write to.
Proper(pc, actor, target, arg, needs) ==
    /\ pc # "idle" => actor \in Users
    /\ pc \in {"join", "admit", "apply", "applyInvited", "admitInvited"} => actor \in Ordinary
    /\ pc \in {"admit", "apply", "applyInvited"} => actor \in needs
    /\ pc \in {"remove", "expel", "role", "setRole", "transfer", "handOver", "reject",
             "answer"} => target \in Users
    /\ pc \in {"block", "addBlock", "unblock", "review", "approve"} => target \in Ordinary
    /\ pc \in {"addBlock", "approve"} => target \in needs
    /\ pc \in {"invite", "sendInvite"} => target \in Users /\ target # actor
    /\ pc \in {"role", "setRole"} => arg \in {"member", "admin"}
    /\ pc \in {"settings", "setPolicy", "reviewAll"} => arg \in Policies

TasksOK ==
    /\ task \in [Tasks -> Task]
    /\ \A t \in Tasks : Proper(task[t].pc, task[t].actor, task[t].target, task[t].arg,
                               task[t].needs)
    /\ left \in 0 .. MaxRequests

\* A request that would let in a user who has been blocked since before it began
\* fails, or is about to look at the blacklist.
Guarded(pc, actor, target, free) ==
    (Joiner(pc, actor, target) # Nobody /\ ~free)
       => \/ Joiner(pc, actor, target) \notin users
          \/ ~room
          \/ pc = "review" /\ target \in blocked

GuardOK ==
    \A t \in Tasks : Guarded(task[t].pc, task[t].actor, task[t].target, task[t].free)

IInv == RoomOK /\ RestOK /\ TasksOK /\ GuardOK

\* The invariant contains the types and the two state properties.
LEMMA Contents == IInv => TypeOK /\ OwnerIsCreator /\ RowsBelong
  BY DEF IInv, RoomOK, RestOK, TasksOK, TypeOK

\* The initial states satisfy the invariant.
LEMMA Start0 == Init => IInv
<1> SUFFICES ASSUME Init PROVE IInv
  OBVIOUS
<1>1. Idle \in Task
  BY DEF Idle, Task, Steps, Arguments
<1>2. \A t \in Tasks : task[t] = Idle
  BY DEF Init
<1>3. TasksOK
  <2>1. Proper(Idle.pc, Idle.actor, Idle.target, Idle.arg, Idle.needs)
    BY DEF Proper, Idle
  <2> QED BY <1>1, <1>2, <2>1, MembershipAssumption DEF Init, TasksOK
<1>4. GuardOK
  <2>1. Guarded(Idle.pc, Idle.actor, Idle.target, Idle.free)
    BY DEF Guarded, Idle, Joiner
  <2> QED BY <1>2, <2>1 DEF GuardOK
<1>5. RestOK
  BY DEF Init, RestOK
<1>6. \A u \in Users : role[u] # "none" => u \in Ordinary
  BY DEF Init, Members
<1>7. OwnerIsCreator
  BY DEF Init, OwnerIsCreator, Owners, Having, Members
<1>8. RowsBelong
  BY <1>6 DEF Init, RowsBelong
<1>9. RoomOK
  BY <1>7, <1>8 DEF Init, RoomOK
<1> QED BY <1>3, <1>4, <1>5, <1>9 DEF IInv
-----------------------------------------------------------------------------
(* What the transactions share *)

\* Who is let in belongs to the room.
LEMMA AdmitOK ==
    ASSUME RoomOK, NEW new \in SUBSET (users \cap Ordinary), new # {} => room,
           Admit(new), users' = users,
           request' \in [Users -> {"none", "pending", "settled"}],
           \A u \in Users : request'[u] # "none" => request[u] # "none"
    PROVE  RoomOK'
<1>1. PICK owner \in IF Owners = {} /\ new \ Members # {} THEN new \ Members ELSE {Nobody} :
           /\ role' = [u \in Users |-> IF u = owner THEN "owner"
                                       ELSE IF u \in new \ Members THEN "member"
                                       ELSE role[u]]
           /\ creator' = IF owner = Nobody THEN creator ELSE owner
  BY DEF Admit
<1>2. role' \in [Users -> Roles] /\ new \subseteq Users
  BY <1>1 DEF RoomOK, Roles
<1>3. creator' \in Users \cup {Nobody} /\ room' = room /\ blocked' = blocked
  BY <1>1, <1>2 DEF RoomOK, Admit
<1>4. \A u \in Users : role'[u] # "none" => role[u] # "none" \/ u \in new
  BY <1>1, MembershipAssumption DEF Members
<1>5. RowsBelong'
  BY <1>3, <1>4 DEF RoomOK, RowsBelong
<1>6. OwnerIsCreator'
  <2>1. CASE owner = Nobody
    BY <1>1, <2>1, MembershipAssumption DEF RoomOK, OwnerIsCreator
  <2>2. CASE owner # Nobody
    <3>1. Owners = {} /\ creator' = owner
      BY <1>1, <2>2
    <3> QED BY <1>1, <3>1 DEF OwnerIsCreator, Owners, Having
  <2> QED BY <2>1, <2>2
<1> QED BY <1>2, <1>3, <1>5, <1>6 DEF RoomOK

\* Nothing is left to belong to a room that is gone.
LEMMA EndRoomOK ==
    ASSUME RoomOK, EndRoom, users' = users
    PROVE  RoomOK'
  BY DEF RoomOK, EndRoom, Roles, OwnerIsCreator, RowsBelong

\* A repair may follow any transaction that takes roles away.
LEMMA RepairOK ==
    ASSUME RoomOK, NEW roles \in [Users -> Roles], PruneOrRepair(roles), users' = users,
           \A u \in Users : roles[u] = "owner" => role[u] = "owner",
           \A u \in Users : roles[u] # "none" => role[u] # "none"
    PROVE  RoomOK'
<1>1. CASE \A u \in Users : roles[u] = "none"
  BY <1>1, EndRoomOK DEF PruneOrRepair
<1>2. CASE (\E u \in Users : roles[u] # "none") /\ Having(roles, "owner") # {}
  <2>1. role' = roles /\ creator' = creator /\ UNCHANGED <<room, blocked, request>>
    BY <1>2 DEF PruneOrRepair
  <2> QED BY <2>1 DEF RoomOK, OwnerIsCreator, RowsBelong
<1>3. CASE (\E u \in Users : roles[u] # "none") /\ Having(roles, "owner") = {}
  <2>1. PICK next \in IF Having(roles, "admin") # {} THEN Having(roles, "admin")
                      ELSE Having(roles, "member") :
                /\ role' = [roles EXCEPT ![next] = "owner"]
                /\ creator' = next
    BY <1>3 DEF PruneOrRepair
  <2>2. UNCHANGED <<room, blocked, request>>
    BY <1>3 DEF PruneOrRepair
  <2>3. next \in Users /\ roles[next] # "none"
    BY <2>1 DEF Having
  <2> QED BY <1>3, <2>1, <2>2, <2>3 DEF RoomOK, OwnerIsCreator, RowsBelong, Having, Roles
<1> QED BY <1>1, <1>2, <1>3

\* What becomes of join requests.
LEMMA SettledOK ==
    ASSUME RoomOK, NEW who, request' = Settled(who)
    PROVE  /\ request' \in [Users -> {"none", "pending", "settled"}]
           /\ \A u \in Users : request'[u] # "none" => request[u] # "none"
  BY DEF Settled, RoomOK

\* Steps that write nothing else keep the rows right.
LEMMA UnchangedOK ==
    ASSUME RoomOK, UNCHANGED <<roomVars, users>>
    PROVE  RoomOK'
  BY DEF RoomOK, roomVars, OwnerIsCreator, RowsBelong
-----------------------------------------------------------------------------
(* The three kinds of steps of a request *)

Beginning(t) ==
    \E u, v \in Users :
       \/ Join(t, u) \/ Withdraw(t, u) \/ Delete(t, u)
       \/ \E c \in {"", "confirm"} : Leave(t, u, c)
       \/ \E p \in Policies : UpdateSettings(t, u, p)
       \/ Remove(t, u, v) \/ Transfer(t, u, v) \/ Invite(t, u, v)
       \/ Block(t, u, v) \/ Unblock(t, u, v)
       \/ \E r \in {"member", "admin"} : UpdateRole(t, u, v, r)
       \/ \E d \in {"accept", "decline"} : Answer(t, u, v, d)
       \/ \E d \in {"approve", "reject"} : Review(t, u, v, d)

Reading(t) ==
    \/ ReadPolicy(t) \/ CountMembers(t) \/ ReadRemoved(t) \/ AskOwner(t) \/ ReadHeir(t)
    \/ ReadInvited(t) \/ ReadAnswer(t) \/ ReadBlocked(t) \/ ReadRequest(t)
    \/ ReadOldPolicy(t)

Writing(t) ==
    \/ AddJoiner(t) \/ Apply(t) \/ Depart(t) \/ Expel(t) \/ SetRole(t) \/ HandOver(t)
    \/ SendInvite(t) \/ Decline(t) \/ SettleInvites(t) \/ SettleRequest(t)
    \/ ApplyInvited(t) \/ AdmitInvited(t) \/ AddBlock(t) \/ RemoveBlock(t)
    \/ SaveWithdrawal(t) \/ Approve(t) \/ Reject(t) \/ SetPolicy(t) \/ ReviewAll(t)
    \/ DeleteRoom(t)

\* A step is of one of the three kinds, or of the console, or deletes an account.
LEMMA Kinds ==
    Next => \/ \E t \in Tasks : Beginning(t) \/ Reading(t) \/ Writing(t)
            \/ \E u \in Users : Console(u) \/ DeleteAccount(u)
<1> SUFFICES ASSUME NEW t \in Tasks,
                    \/ JoinOrLeave(t) \/ ManageMembers(t) \/ Invitations(t)
                    \/ Gatekeeping(t) \/ RunRoom(t)
             PROVE  Beginning(t) \/ Reading(t) \/ Writing(t)
  BY DEF Next
<1>1. CASE JoinOrLeave(t)
  BY <1>1 DEF JoinOrLeave, Beginning, Reading, Writing
<1>2. CASE ManageMembers(t)
  BY <1>2 DEF ManageMembers, Beginning, Reading, Writing
<1>3. CASE Invitations(t)
  BY <1>3 DEF Invitations, Beginning, Reading, Writing
<1>4. CASE Gatekeeping(t)
  BY <1>4 DEF Gatekeeping, Beginning, Reading, Writing
<1>5. CASE RunRoom(t)
  BY <1>5 DEF RunRoom, Beginning, Reading, Writing
<1> QED BY <1>1, <1>2, <1>3, <1>4, <1>5

\* A request begins with arguments that are proper to its first step.
BeginsWith(t, pc, u, v, arg, needs) ==
    /\ Begin(t, pc, u, v, arg, needs)
    /\ pc \in Steps \ {"idle"} /\ u \in Users /\ v \in Users \cup {Nobody} /\ arg \in Arguments
    /\ needs \subseteq Users
    /\ Proper(pc, u, v, arg, needs)
    /\ Joiner(pc, u, v) \in blocked => pc = "review"

\* Every request that begins does.
LEMMA Beginnings ==
    ASSUME IInv, NEW t \in Tasks, Beginning(t)
    PROVE  \E pc, u, v, arg, needs : BeginsWith(t, pc, u, v, arg, needs)
<1>1. PICK u, v \in Users :
          \/ Join(t, u) \/ Withdraw(t, u) \/ Delete(t, u)
          \/ \E c \in {"", "confirm"} : Leave(t, u, c)
          \/ \E p \in Policies : UpdateSettings(t, u, p)
          \/ Remove(t, u, v) \/ Transfer(t, u, v) \/ Invite(t, u, v)
          \/ Block(t, u, v) \/ Unblock(t, u, v)
          \/ \E r \in {"member", "admin"} : UpdateRole(t, u, v, r)
          \/ \E d \in {"accept", "decline"} : Answer(t, u, v, d)
          \/ \E d \in {"approve", "reject"} : Review(t, u, v, d)
  BY DEF Beginning
<1>2. Ordinary \subseteq Users /\ Nobody \notin Users /\ blocked \subseteq Users
  BY MembershipAssumption DEF Ordinary, IInv, RoomOK
<1> USE <1>2 DEF Steps, Arguments, Proper, Joiner
<1>3. CASE Join(t, u)
  <2>1. BeginsWith(t, "join", u, Nobody, "", {})
    BY <1>3 DEF Join, BeginsWith
  <2> QED BY <2>1
<1>4. CASE Withdraw(t, u)
  <2>1. BeginsWith(t, "withdraw", u, Nobody, "", {})
    BY <1>4 DEF Withdraw, BeginsWith
  <2> QED BY <2>1
<1>5. CASE Delete(t, u)
  <2>1. BeginsWith(t, "delete", u, Nobody, "", {})
    BY <1>5 DEF Delete, BeginsWith
  <2> QED BY <2>1
<1>6. CASE \E c \in {"", "confirm"} : Leave(t, u, c)
  <2>1. PICK c \in {"", "confirm"} : Leave(t, u, c)
    BY <1>6
  <2>2. BeginsWith(t, "leave", u, Nobody, c, {})
    BY <2>1 DEF Leave, BeginsWith
  <2> QED BY <2>2
<1>7. CASE \E p \in Policies : UpdateSettings(t, u, p)
  <2>1. PICK p \in Policies : UpdateSettings(t, u, p)
    BY <1>7
  <2>2. BeginsWith(t, "settings", u, Nobody, p, {})
    BY <2>1 DEF UpdateSettings, BeginsWith
  <2> QED BY <2>2
<1>8. CASE Remove(t, u, v)
  <2>1. BeginsWith(t, "remove", u, v, "", {})
    BY <1>8 DEF Remove, BeginsWith
  <2> QED BY <2>1
<1>9. CASE Transfer(t, u, v)
  <2>1. BeginsWith(t, "transfer", u, v, "", {})
    BY <1>9 DEF Transfer, BeginsWith
  <2> QED BY <2>1
<1>10. CASE Invite(t, u, v)
  <2>1. BeginsWith(t, "invite", u, v, "", {})
    BY <1>10 DEF Invite, BeginsWith
  <2> QED BY <2>1
<1>11. CASE Block(t, u, v)
  <2>1. BeginsWith(t, "block", u, v, "", {})
    BY <1>11 DEF Block, BeginsWith
  <2> QED BY <2>1
<1>12. CASE Unblock(t, u, v)
  <2>1. BeginsWith(t, "unblock", u, v, "", {})
    BY <1>12 DEF Unblock, BeginsWith
  <2> QED BY <2>1
<1>13. CASE \E r \in {"member", "admin"} : UpdateRole(t, u, v, r)
  <2>1. PICK r \in {"member", "admin"} : UpdateRole(t, u, v, r)
    BY <1>13
  <2>2. BeginsWith(t, "role", u, v, r, IF role[v] = r THEN {} ELSE {u, v})
    BY <2>1 DEF UpdateRole, BeginsWith
  <2> QED BY <2>2
<1>14. CASE \E d \in {"accept", "decline"} : Answer(t, u, v, d)
  <2>1. PICK d \in {"accept", "decline"} : Answer(t, u, v, d)
    BY <1>14
  <2>2. BeginsWith(t, "answer", u, v, d, {})
    BY <2>1 DEF Answer, BeginsWith
  <2> QED BY <2>2
<1>15. CASE \E d \in {"approve", "reject"} : Review(t, u, v, d)
  <2>1. PICK d \in {"approve", "reject"} : Review(t, u, v, d)
    BY <1>15
  <2>2. BeginsWith(t, "review", u, v, d, {})
    BY <2>1 DEF Review, BeginsWith
  <2> QED BY <2>2
<1> QED BY <1>1, <1>3, <1>4, <1>5, <1>6, <1>7, <1>8, <1>9, <1>10, <1>11, <1>12, <1>13, <1>14, <1>15

\* It reads, and ends or goes on with what is proper to its next step.
GoesOnWith(t, pc, needs) ==
    /\ GoOn(t, pc, needs)
    /\ pc \in Steps \ {"idle"} /\ needs \subseteq Users
    /\ Proper(pc, task[t].actor, task[t].target, task[t].arg, needs)
    /\ Guarded(pc, task[t].actor, task[t].target, task[t].free)

\* Every step that reads does.
LEMMA Readings ==
    ASSUME IInv, NEW t \in Tasks, Reading(t)
    PROVE  Refuse(t) \/ \E pc, needs : GoesOnWith(t, pc, needs)
<1> DEFINE k == task[t]
<1>1. Proper(k.pc, k.actor, k.target, k.arg, k.needs)
  BY DEF IInv, TasksOK
<1>2. Guarded(k.pc, k.actor, k.target, k.free)
  BY DEF IInv, GuardOK
<1>3. Ordinary \subseteq Users /\ Nobody \notin Users /\ k.needs \subseteq Users
  BY MembershipAssumption DEF Ordinary, IInv, TasksOK, Task
<1> USE <1>3 DEF Steps, Proper, Guarded, Joiner, GoesOnWith
<1>4. CASE ReadPolicy(t)
  BY <1>1, <1>2, <1>4 DEF ReadPolicy
<1>5. CASE CountMembers(t)
  BY <1>1, <1>2, <1>5 DEF CountMembers
<1>6. CASE ReadRemoved(t)
  BY <1>1, <1>2, <1>6 DEF ReadRemoved
<1>7. CASE AskOwner(t)
  BY <1>1, <1>2, <1>7 DEF AskOwner
<1>8. CASE ReadHeir(t)
  <2>1. Refuse(t) \/ GoOn(t, "handOver", IF role[k.target] = "owner" THEN {k.target}
                                          ELSE {k.actor, k.target} \cup Owners)
    BY <1>8 DEF ReadHeir
  <2>2. k.target \in Users /\ k.actor \in Users /\ Owners \subseteq Users
    BY <1>1, <1>8 DEF ReadHeir, Owners, Having
  <2> QED BY <2>1, <2>2
<1>9. CASE ReadInvited(t)
  <2>1. Refuse(t) \/ GoOn(t, "sendInvite", {k.target})
    BY <1>9 DEF ReadInvited
  <2>2. k.target \in Users /\ k.actor \in Users /\ k.target # k.actor
    BY <1>1, <1>9 DEF ReadInvited
  <2> QED BY <2>1, <2>2
<1>10. CASE ReadAnswer(t)
  <2>1. k.actor \in Users /\ k.target \in Users
    BY <1>1, <1>10 DEF ReadAnswer
  <2>2. \/ Refuse(t) \/ GoOn(t, "decline", {}) \/ GoOn(t, "settleBoth", {})
        \/ GoOn(t, "settleInvites", {})
        \/ k.actor \in Ordinary /\ GoOn(t, "applyInvited", {k.actor})
        \/ k.actor \in Ordinary
           /\ GoOn(t, "admitInvited", IF isAdmin(k.target) THEN {k.target} ELSE {})
    BY <1>10, <2>1 DEF ReadAnswer, Ordinary
  <2> QED BY <1>2, <1>10, <2>1, <2>2 DEF ReadAnswer
<1>11. CASE ReadBlocked(t)
  <2>1. Refuse(t) \/ GoOn(t, "addBlock", {k.actor, k.target})
    BY <1>11 DEF ReadBlocked
  <2>2. k.target \in Ordinary /\ k.actor \in Users
    BY <1>1, <1>11 DEF ReadBlocked
  <2> QED BY <2>1, <2>2
<1>12. CASE ReadRequest(t)
  BY <1>1, <1>2, <1>12 DEF ReadRequest
<1>13. CASE ReadOldPolicy(t)
  BY <1>1, <1>2, <1>13 DEF ReadOldPolicy
<1> QED BY <1>4, <1>5, <1>6, <1>7, <1>8, <1>9, <1>10, <1>11, <1>12, <1>13 DEF Reading

-----------------------------------------------------------------------------
(* The rows of the room *)

\* A transaction keeps the rows of the room right.
LEMMA WritingOK ==
    ASSUME IInv, NEW t \in Tasks, Writing(t)
    PROVE  RoomOK' /\ RestOK'
<1> DEFINE k == task[t]
<1> USE DEF IInv, Written
<1>1. Proper(k.pc, k.actor, k.target, k.arg, k.needs)
  BY DEF TasksOK
<1>2. Ordinary \subseteq Users
  BY DEF Ordinary
<1>3. CASE AddJoiner(t)
  <2>1. CASE Alive(t)
    <3>1. Admit({k.actor}) /\ UNCHANGED <<request, policy, invites, users>>
      BY <1>3, <2>1 DEF AddJoiner
    <3>2. {k.actor} \in SUBSET (users \cap Ordinary) /\ room
      BY <1>1, <1>3, <2>1 DEF AddJoiner, Proper, Alive
    <3>3. request \in [Users -> {"none", "pending", "settled"}]
      BY DEF RoomOK
    <3> HIDE DEF k
    <3> QED BY <3>1, <3>2, <3>3, AdmitOK DEF RestOK
  <2>2. CASE ~Alive(t)
    BY <1>3, <2>2, UnchangedOK DEF AddJoiner, data, RestOK
  <2> QED BY <2>1, <2>2
<1>4. CASE Apply(t)
  <2>1. Alive(t) => k.actor \in users \cap Ordinary /\ room
    BY <1>1, <1>4 DEF Apply, Proper, Alive
  <2> QED BY <1>2, <1>4, <2>1
          DEF Apply, Applied, RoomOK, RestOK, OwnerIsCreator, RowsBelong
<1>5. CASE Depart(t)
  <2>1. CASE Members \subseteq {k.actor} \/ Alive(t)
    <3>1. PruneOrRepair([role EXCEPT ![k.actor] = "none"]) /\ UNCHANGED <<policy, users>>
          /\ invites' = WithoutInvitesOf(k.actor)
      BY <1>5, <2>1 DEF Depart
    <3>2. [role EXCEPT ![k.actor] = "none"] \in [Users -> Roles]
      BY DEF RoomOK, Roles
    <3>3. RoomOK'
      BY <3>1, <3>2, RepairOK DEF RoomOK
    <3> QED BY <3>1, <3>3 DEF RestOK, WithoutInvitesOf
  <2>2. CASE ~(Members \subseteq {k.actor} \/ Alive(t))
    BY <1>5, <2>2, UnchangedOK DEF Depart, data, RestOK
  <2> QED BY <2>1, <2>2
<1>6. CASE Expel(t)
  <2> DEFINE found == role[k.target] # "none" /\ (Members = {k.target} \/ Alive(t))
  <2>1. CASE found
    <3>1. PruneOrRepair([role EXCEPT ![k.target] = "none"]) /\ UNCHANGED <<policy, users>>
          /\ invites' = WithoutInvitesOf(k.target)
      BY <1>6, <2>1 DEF Expel
    <3>2. [role EXCEPT ![k.target] = "none"] \in [Users -> Roles]
      BY DEF RoomOK, Roles
    <3>3. RoomOK'
      BY <3>1, <3>2, RepairOK DEF RoomOK
    <3> QED BY <3>1, <3>3 DEF RestOK, WithoutInvitesOf
  <2>2. CASE ~found
    BY <1>6, <2>2, UnchangedOK DEF Expel, data, RestOK
  <2> QED BY <2>1, <2>2
<1>7. CASE SetRole(t)
  <2> DEFINE found == Alive(t) /\ role[k.target] # "none"
  <2>1. CASE found
    <3>1. PruneOrRepair([role EXCEPT ![k.target] = k.arg])
          /\ UNCHANGED <<policy, invites, users>>
      BY <1>7, <2>1 DEF SetRole
    <3>2. k.arg \in {"member", "admin"}
      BY <1>1, <1>7 DEF SetRole, Proper
    <3>3. [role EXCEPT ![k.target] = k.arg] \in [Users -> Roles]
      BY <3>2 DEF RoomOK, Roles
    <3>4. RoomOK'
      BY <2>1, <3>1, <3>2, <3>3, RepairOK DEF RoomOK
    <3> QED BY <3>1, <3>4 DEF RestOK
  <2>2. CASE ~found
    BY <1>7, <2>2, UnchangedOK DEF SetRole, data, RestOK
  <2> QED BY <2>1, <2>2
<1>8. CASE HandOver(t)
  <2>1. k.target \in Users
    BY <1>1, <1>8 DEF HandOver, Proper
  <2> QED BY <1>8, <2>1, UnchangedOK
          DEF HandOver, data, RoomOK, RestOK, OwnerIsCreator, RowsBelong, Roles
<1>9. CASE SendInvite(t)
  <2>1. k.actor \in Users /\ k.target \in Users /\ k.actor # k.target
    BY <1>1, <1>9 DEF SendInvite, Proper
  <2> QED BY <1>9, <2>1, UnchangedOK DEF SendInvite, RestOK
<1>10. CASE Decline(t)
  BY <1>10, UnchangedOK DEF Decline, RestOK
<1>11. CASE SettleInvites(t)
  BY <1>11, UnchangedOK DEF SettleInvites, RestOK, WithoutInvitesOf
<1>12. CASE SettleRequest(t)
  <2>1. UNCHANGED <<room, role, creator, blocked, users>>
    BY <1>12 DEF SettleRequest
  <2> QED BY <1>12, <2>1, SettledOK
          DEF SettleRequest, RoomOK, RestOK, OwnerIsCreator, RowsBelong
<1>13. CASE ApplyInvited(t)
  <2>1. Alive(t) => k.actor \in users \cap Ordinary /\ room
    BY <1>1, <1>13 DEF ApplyInvited, Proper, Alive
  <2>2. CASE Alive(t)
    BY <1>2, <1>13, <2>1, <2>2
       DEF ApplyInvited, Applied, WithoutInvitesOf, RoomOK, RestOK, OwnerIsCreator, RowsBelong
  <2>3. CASE ~Alive(t)
    BY <1>13, <2>3, UnchangedOK DEF ApplyInvited, data, RestOK
  <2> QED BY <2>2, <2>3
<1>14. CASE AdmitInvited(t)
  <2> DEFINE granted == room /\ k.actor \in users
                        /\ (k.actor \in Pending => k.needs \subseteq users)
  <2>1. CASE granted
    <3>1. /\ Admit({k.actor}) /\ UNCHANGED <<policy, users>>
          /\ request' = Settled({k.actor}) /\ invites' = WithoutInvitesOf(k.actor)
      BY <1>14, <2>1 DEF AdmitInvited
    <3>2. {k.actor} \in SUBSET (users \cap Ordinary) /\ room
      BY <1>1, <1>14, <2>1 DEF AdmitInvited, Proper
    <3> HIDE DEF k
    <3>3. RoomOK'
      BY <3>1, <3>2, SettledOK, AdmitOK
    <3> QED BY <3>1, <3>3 DEF RestOK, WithoutInvitesOf
  <2>2. CASE ~granted
    BY <1>14, <2>2, UnchangedOK DEF AdmitInvited, data, RestOK
  <2> QED BY <2>1, <2>2
<1>15. CASE AddBlock(t)
  <2>1. Alive(t) => k.target \in users \cap Ordinary /\ room
    BY <1>1, <1>15 DEF AddBlock, Proper, Alive
  <2> QED BY <1>2, <1>15, <2>1 DEF AddBlock, RoomOK, RestOK, OwnerIsCreator, RowsBelong
<1>16. CASE RemoveBlock(t)
  BY <1>16 DEF RemoveBlock, RoomOK, RestOK, OwnerIsCreator, RowsBelong
<1>17. CASE SaveWithdrawal(t)
  BY <1>17, SettledOK DEF SaveWithdrawal, RoomOK, RestOK, OwnerIsCreator, RowsBelong
<1>18. CASE Approve(t)
  <2>1. CASE Alive(t)
    <3>1. /\ Admit({k.target}) /\ UNCHANGED <<policy, invites, users>>
          /\ request' = Settled({k.target})
      BY <1>18, <2>1 DEF Approve
    <3>2. {k.target} \in SUBSET (users \cap Ordinary) /\ room
      BY <1>1, <1>18, <2>1 DEF Approve, Proper, Alive
    <3> HIDE DEF k
    <3> QED BY <3>1, <3>2, SettledOK, AdmitOK DEF RestOK
  <2>2. CASE ~Alive(t)
    BY <1>18, <2>2, UnchangedOK DEF Approve, data, RestOK
  <2> QED BY <2>1, <2>2
<1>19. CASE Reject(t)
  <2>1. CASE Alive(t)
    BY <1>19, <2>1, SettledOK DEF Reject, RoomOK, RestOK, OwnerIsCreator, RowsBelong
  <2>2. CASE ~Alive(t)
    BY <1>19, <2>2 DEF Reject, RoomOK, RestOK, OwnerIsCreator, RowsBelong
  <2> QED BY <2>1, <2>2
<1>20. CASE SetPolicy(t)
  <2>1. k.arg \in Policies
    BY <1>1, <1>20 DEF SetPolicy, Proper
  <2> QED BY <1>20, <2>1, UnchangedOK DEF SetPolicy, RestOK
<1>21. CASE ReviewAll(t)
  <2> DEFINE new == IF k.arg = "open" THEN Pending \ blocked ELSE {}
  <2>1. CASE Alive(t)
    <3>1. /\ Admit(new) /\ UNCHANGED <<invites, users>> /\ policy' = k.arg
          /\ request' = Settled(Pending)
      BY <1>21, <2>1 DEF ReviewAll
    <3>2. new \in SUBSET (users \cap Ordinary) /\ room
      BY <2>1 DEF Alive, Pending, RoomOK, RowsBelong
    <3>3. k.arg \in Policies
      BY <1>1, <1>21 DEF ReviewAll, Proper
    <3> HIDE DEF k, new
    <3> QED BY <3>1, <3>2, <3>3, SettledOK, AdmitOK DEF RestOK
  <2>2. CASE ~Alive(t)
    BY <1>21, <2>2, UnchangedOK DEF ReviewAll, data, RestOK
  <2> QED BY <2>1, <2>2
<1>22. CASE DeleteRoom(t)
  BY <1>22, EndRoomOK DEF DeleteRoom, RestOK
<1> QED BY <1>3, <1>4, <1>5, <1>6, <1>7, <1>8, <1>9, <1>10, <1>11, <1>12, <1>13, <1>14,
           <1>15, <1>16, <1>17, <1>18, <1>19, <1>20, <1>21, <1>22 DEF Writing

\* And so do the console and the deletion of an account.
LEMMA ConsoleOK ==
    ASSUME IInv, NEW u \in Users, Console(u) \/ DeleteAccount(u)
    PROVE  RoomOK' /\ RestOK' /\ UNCHANGED task /\ left' \in 0 .. MaxRequests
<1> USE DEF IInv
<1>1. left' \in 0 .. MaxRequests
  BY MembershipAssumption
     DEF Console, DeleteAccount, AddMembership, UpdateMembership, RemoveMembership, Spend, TasksOK
<1>2. CASE \E r \in {"member", "admin"} : AddMembership(u, r)
  BY <1>1, <1>2
     DEF AddMembership, RoomOK, RestOK, OwnerIsCreator, RowsBelong, Roles, Owners, Having
<1>3. CASE \E r \in {"member", "admin", "owner"} : UpdateMembership(u, r)
  BY <1>1, <1>3
     DEF UpdateMembership, RoomOK, RestOK, OwnerIsCreator, RowsBelong, Roles
<1>4. CASE RemoveMembership(u)
  BY <1>1, <1>4 DEF RemoveMembership, RoomOK, RestOK, OwnerIsCreator, RowsBelong, Roles
<1>5. CASE DeleteAccount(u)
  <2>1. UNCHANGED <<room, policy, task>>
    BY <1>5 DEF DeleteAccount
  <2>2. RestOK'
    BY <1>5 DEF DeleteAccount, RestOK, WithoutInvitesOf
  <2>3. RoomOK'
    BY <1>5 DEF DeleteAccount, RoomOK, OwnerIsCreator, RowsBelong, Roles
  <2> QED BY <1>1, <2>1, <2>2, <2>3
<1> QED BY <1>2, <1>3, <1>4, <1>5 DEF Console
-----------------------------------------------------------------------------
(* The requests *)

\* A request that ends leaves the others as they were.
LEMMA EndsOK ==
    ASSUME IInv, NEW t \in Tasks, End(t), UNCHANGED <<users, left>>,
           room' => room, blocked \subseteq blocked'  \/ ~room'
    PROVE  TasksOK' /\ GuardOK'
<1> USE DEF IInv
<1>1. Idle \in Task /\ Proper(Idle.pc, Idle.actor, Idle.target, Idle.arg, Idle.needs)
  BY DEF Idle, Task, Steps, Arguments, Proper
<1>2. Joiner(Idle.pc, Idle.actor, Idle.target) = Nobody
  BY DEF Idle, Joiner
<1>3. \A s \in Tasks : task'[s] = IF s = t THEN Idle ELSE task[s]
  BY DEF End, TasksOK
<1>4. TasksOK'
  <2>1. task' \in [Tasks -> Task]
    BY <1>1 DEF End, TasksOK
  <2> QED BY <1>1, <1>3, <2>1 DEF TasksOK
<1>5. GuardOK'
  BY <1>2, <1>3 DEF GuardOK, Guarded
<1> QED BY <1>4, <1>5

\* So does one that begins, ...
LEMMA BeginsOK ==
    ASSUME IInv, NEW t \in Tasks, NEW pc, NEW u, NEW v, NEW arg, NEW needs,
           BeginsWith(t, pc, u, v, arg, needs)
    PROVE  IInv'
<1> USE DEF IInv
<1> DEFINE new == [pc |-> pc, actor |-> u, target |-> v, arg |-> arg, needs |-> needs,
                   free |-> Joiner(pc, u, v) \notin blocked \cup {Nobody}]
<1>1. task' = [task EXCEPT ![t] = new] /\ UNCHANGED <<data, users>> /\ Spend
  BY DEF BeginsWith, Begin
<1>2. new \in Task
  BY DEF BeginsWith, Task
<1>3. Proper(new.pc, new.actor, new.target, new.arg, new.needs)
  BY DEF BeginsWith
<1>4. Guarded(new.pc, new.actor, new.target, new.free)
  BY DEF BeginsWith, Guarded, Joiner
<1> HIDE DEF new
<1>5. \A s \in Tasks : task'[s] = IF s = t THEN new ELSE task[s]
  BY <1>1 DEF TasksOK
<1>6. left' \in 0 .. MaxRequests
  BY <1>1, MembershipAssumption DEF Spend, TasksOK
<1>7. TasksOK'
  <2>1. task' \in [Tasks -> Task]
    BY <1>1, <1>2 DEF TasksOK
  <2> QED BY <1>3, <1>5, <1>6, <2>1 DEF TasksOK
<1>8. GuardOK'
  BY <1>1, <1>4, <1>5 DEF GuardOK, Guarded, data, roomVars
<1>9. RoomOK' /\ RestOK'
  BY <1>1, UnchangedOK DEF data, RestOK
<1> QED BY <1>7, <1>8, <1>9

\* ... and one that has read what it needs.
LEMMA GoesOnOK ==
    ASSUME IInv, NEW t \in Tasks, NEW pc, NEW needs, GoesOnWith(t, pc, needs)
    PROVE  IInv'
<1> USE DEF IInv
<1> DEFINE new == [pc |-> pc, actor |-> task[t].actor, target |-> task[t].target,
                   arg |-> task[t].arg, needs |-> needs, free |-> task[t].free]
<1>1. task' = [task EXCEPT ![t] = new] /\ UNCHANGED <<data, users, left>>
  BY DEF GoesOnWith, GoOn
<1>2. new \in Task
  BY DEF GoesOnWith, TasksOK, Task
<1>3. Proper(new.pc, new.actor, new.target, new.arg, new.needs)
  BY DEF GoesOnWith
<1>4. Guarded(new.pc, new.actor, new.target, new.free)
  BY DEF GoesOnWith
<1> HIDE DEF new
<1>5. \A s \in Tasks : task'[s] = IF s = t THEN new ELSE task[s]
  BY <1>1 DEF TasksOK
<1>6. TasksOK'
  <2>1. task' \in [Tasks -> Task]
    BY <1>1, <1>2 DEF TasksOK
  <2> QED BY <1>1, <1>3, <1>5, <2>1 DEF TasksOK
<1>7. GuardOK'
  BY <1>1, <1>4, <1>5 DEF GuardOK, Guarded, data, roomVars
<1>8. RoomOK' /\ RestOK'
  BY <1>1, UnchangedOK DEF data, RestOK
<1> QED BY <1>6, <1>7, <1>8

\* A transaction takes nobody's guard away: it lets a blacklist shrink only in
\* RemoveBlock, which records it for the requests that may profit.
LEMMA WritingEndsOK ==
    ASSUME IInv, NEW t \in Tasks, Writing(t)
    PROVE  TasksOK' /\ GuardOK'
<1> USE DEF IInv
<1>1. CASE SettleInvites(t)
  <2>1. UNCHANGED <<room, blocked, users, left>>
    BY <1>1 DEF SettleInvites, roomVars
  <2>2. CASE task[t].pc = "settleBoth"
    <3> DEFINE new == [task[t] EXCEPT !.pc = "settleRequest"]
    <3>1. task' = [task EXCEPT ![t] = new]
      BY <1>1, <2>2 DEF SettleInvites
    <3>2. task[t] \in Task
      BY DEF TasksOK
    <3>3. new \in Task /\ new.pc = "settleRequest" /\ new.actor = task[t].actor
      BY <3>2 DEF Task, Steps
    <3>4. Proper(new.pc, new.actor, new.target, new.arg, new.needs)
      BY <2>2, <3>3 DEF TasksOK, Proper
    <3>5. Joiner(new.pc, new.actor, new.target) = Nobody
      BY <3>3 DEF Joiner
    <3> HIDE DEF new
    <3>6. \A s \in Tasks : task'[s] = IF s = t THEN new ELSE task[s]
      BY <3>1 DEF TasksOK
    <3>7. task' \in [Tasks -> Task]
      BY <3>1, <3>3 DEF TasksOK
    <3> QED BY <2>1, <3>4, <3>5, <3>6, <3>7 DEF TasksOK, GuardOK, Guarded
  <2>3. CASE task[t].pc # "settleBoth"
    BY <1>1, <2>1, <2>3, EndsOK DEF SettleInvites
  <2> QED BY <2>2, <2>3
<1>2. CASE RemoveBlock(t)
  <2> DEFINE v == task[t].target
             freed(s) == IF s = t THEN Idle
                         ELSE IF v = Joiner(task[s].pc, task[s].actor, task[s].target)
                              THEN [task[s] EXCEPT !.free = TRUE]
                         ELSE task[s]
  <2>1. /\ task' = [s \in Tasks |-> freed(s)] /\ blocked' = blocked \ {v}
        /\ UNCHANGED <<room, users, left>>
    BY <1>2 DEF RemoveBlock
  <2>2. Idle \in Task /\ Proper(Idle.pc, Idle.actor, Idle.target, Idle.arg, Idle.needs)
        /\ Joiner(Idle.pc, Idle.actor, Idle.target) = Nobody
    BY DEF Idle, Task, Steps, Arguments, Proper, Joiner
  <2>3. \A s \in Tasks :
           /\ task[s] \in Task
           /\ Proper(task[s].pc, task[s].actor, task[s].target, task[s].arg, task[s].needs)
           /\ Guarded(task[s].pc, task[s].actor, task[s].target, task[s].free)
    BY DEF TasksOK, GuardOK
  <2>4. \A s \in Tasks : task'[s] = freed(s)
    BY <2>1
  <2>5. \A s \in Tasks :
           /\ freed(s) \in Task
           /\ Proper(freed(s).pc, freed(s).actor, freed(s).target, freed(s).arg, freed(s).needs)
    BY <2>2, <2>3 DEF Task
  <2>6. TasksOK'
    <3> HIDE DEF freed
    <3> QED BY <2>1, <2>4, <2>5 DEF TasksOK
  <2>7. ASSUME NEW s \in Tasks
        PROVE  Guarded(task[s].pc, task[s].actor, task[s].target, task[s].free)'
    <3>1. CASE s = t
      BY <2>2, <2>4, <3>1 DEF Guarded
    <3>2. CASE s # t /\ v = Joiner(task[s].pc, task[s].actor, task[s].target)
      <4>1. task'[s].free = TRUE
        BY <2>3, <2>4, <3>2 DEF Task
      <4> QED BY <4>1 DEF Guarded
    <3>3. CASE s # t /\ v # Joiner(task[s].pc, task[s].actor, task[s].target)
      <4>1. task'[s] = task[s]
        BY <2>4, <3>3
      <4> QED BY <2>1, <2>3, <3>3, <4>1 DEF Guarded, Joiner
    <3> QED BY <3>1, <3>2, <3>3
  <2> QED BY <2>6, <2>7 DEF GuardOK
<1>3. CASE ~SettleInvites(t) /\ ~RemoveBlock(t)
  <2>1. End(t) /\ UNCHANGED <<users, left>>
    BY <1>3 DEF Writing, Written, AddJoiner, Apply, Depart, Expel, SetRole, HandOver, SendInvite,
                Decline, SettleRequest, ApplyInvited, AdmitInvited, AddBlock, SaveWithdrawal,
                Approve, Reject, SetPolicy, ReviewAll, DeleteRoom
  <2>2. UNCHANGED <<room, blocked>> \/ ~room' \/ (room' = room /\ blocked \subseteq blocked')
    BY <1>3 DEF Writing, AddJoiner, Apply, Depart, Expel, SetRole, HandOver, SendInvite,
                Decline, SettleRequest, ApplyInvited, AdmitInvited, AddBlock, SaveWithdrawal,
                Approve, Reject, SetPolicy, ReviewAll, DeleteRoom,
                Admit, PruneOrRepair, EndRoom, data, roomVars
  <2> QED BY <2>1, <2>2, EndsOK
<1> QED BY <1>1, <1>2, <1>3

\* The console has no request, and an account's deletion fails its requests.
LEMMA ConsoleEndsOK ==
    ASSUME IInv, NEW u \in Users, Console(u) \/ DeleteAccount(u)
    PROVE  TasksOK' /\ GuardOK'
<1> USE DEF IInv
<1>1. UNCHANGED task /\ left' \in 0 .. MaxRequests
  BY ConsoleOK
<1>2. room' = room /\ users' \subseteq users /\ blocked \ blocked' \subseteq users \ users'
  BY DEF Console, AddMembership, UpdateMembership, RemoveMembership, DeleteAccount
<1>3. TasksOK'
  BY <1>1 DEF TasksOK
<1>4. GuardOK'
  BY <1>1, <1>2 DEF GuardOK, Guarded, Joiner
<1> QED BY <1>3, <1>4

\* Every step keeps the invariant.
LEMMA Steady == IInv /\ [Next]_vars => IInv'
<1> SUFFICES ASSUME IInv, [Next]_vars PROVE IInv'
  OBVIOUS
<1>1. ASSUME NEW t \in Tasks, Beginning(t) PROVE IInv'
  BY <1>1, Beginnings, BeginsOK
<1>2. ASSUME NEW t \in Tasks, Reading(t) PROVE IInv'
  <2>1. CASE Refuse(t)
    <3>1. End(t) /\ UNCHANGED <<data, users, left>>
      BY <2>1 DEF Refuse
    <3>2. TasksOK' /\ GuardOK'
      BY <3>1, EndsOK DEF data, roomVars
    <3>3. RoomOK' /\ RestOK'
      BY <3>1, UnchangedOK DEF data, RestOK, IInv
    <3> QED BY <3>2, <3>3 DEF IInv
  <2>2. CASE ~Refuse(t)
    BY <1>2, <2>2, Readings, GoesOnOK
  <2> QED BY <2>1, <2>2
<1>3. ASSUME NEW t \in Tasks, Writing(t) PROVE IInv'
  BY <1>3, WritingOK, WritingEndsOK DEF IInv
<1>4. ASSUME NEW u \in Users, Console(u) \/ DeleteAccount(u) PROVE IInv'
  BY <1>4, ConsoleOK, ConsoleEndsOK DEF IInv
<1>5. CASE UNCHANGED vars
  <2>1. RoomOK' /\ RestOK'
    BY <1>5, UnchangedOK DEF vars, data, RestOK, IInv
  <2>2. TasksOK'
    BY <1>5 DEF vars, TasksOK, IInv
  <2>3. GuardOK'
    BY <1>5 DEF vars, data, roomVars, GuardOK, Guarded, IInv
  <2> QED BY <2>1, <2>2, <2>3 DEF IInv
<1> QED BY <1>1, <1>2, <1>3, <1>4, <1>5, Kinds

\* What is reachable satisfies the invariant.
LEMMA Reachable == Spec => []IInv
  BY Start0, Steady, PTL DEF Spec

\* The variables keep their types.
THEOREM TypeCorrect == Spec => []TypeOK
<1>1. IInv => TypeOK
  BY Contents
<1> QED BY <1>1, Reachable, PTL

\* The room's row and the roles never disagree on who the owner is.
THEOREM OwnerRecorded == Spec => []OwnerIsCreator
<1>1. IInv => OwnerIsCreator
  BY Contents
<1> QED BY <1>1, Reachable, PTL

\* No row of the room outlives the room or the account, or names a superuser.
THEOREM NoOrphans == Spec => []RowsBelong
<1>1. IInv => RowsBelong
  BY Contents
<1> QED BY <1>1, Reachable, PTL

\* Both together, in every interleaving of joins, repairs, transfers, the console and
\* deletions.
THEOREM RowsInStep == Spec => []RowsAgree
<1>1. OwnerIsCreator /\ RowsBelong => RowsAgree
  BY DEF RowsAgree
<1> QED BY <1>1, OwnerRecorded, NoOrphans, PTL
-----------------------------------------------------------------------------
(* Who is let in, and who is the owner after a step *)

\* Requests that begin or read change no role.
LEMMA QuietOK ==
    ASSUME IInv, NEW t \in Tasks, Beginning(t) \/ Reading(t)
    PROVE  UNCHANGED <<role, users>>
<1>1. CASE Beginning(t)
  BY <1>1, Beginnings DEF BeginsWith, Begin, data, roomVars
<1>2. CASE Reading(t)
  BY <1>2, Readings DEF GoesOnWith, GoOn, Refuse, data, roomVars
<1> QED BY <1>1, <1>2

\* A repair adds no member, and leaves an owner in a room that has members.
LEMMA RepairsOwner ==
    ASSUME RoomOK, NEW roles \in [Users -> Roles], PruneOrRepair(roles)
    PROVE  /\ Members' = {} \/ Owners' # {}
           /\ \A u \in Users : role'[u] # "none" => roles[u] # "none"
<1>1. CASE \A u \in Users : roles[u] = "none"
  BY <1>1 DEF PruneOrRepair, EndRoom, Members
<1>2. CASE (\E u \in Users : roles[u] # "none") /\ Having(roles, "owner") # {}
  BY <1>2 DEF PruneOrRepair, Owners, Having
<1>3. CASE (\E u \in Users : roles[u] # "none") /\ Having(roles, "owner") = {}
  <2>1. PICK next \in IF Having(roles, "admin") # {} THEN Having(roles, "admin")
                      ELSE Having(roles, "member") :
                role' = [roles EXCEPT ![next] = "owner"]
    BY <1>3 DEF PruneOrRepair
  <2>2. next \in Users /\ roles[next] # "none"
    BY <2>1 DEF Having
  <2> QED BY <2>1, <2>2 DEF Owners, Having
<1> QED BY <1>1, <1>2, <1>3

\* Admitting keeps the owner, and lets in only those it was asked to.
LEMMA AdmitsOnly ==
    ASSUME RoomOK, NEW new \in SUBSET Users, Admit(new)
    PROVE  /\ Owners \subseteq Owners'
           /\ Members' \ Members \subseteq new
<1>1. PICK owner \in IF Owners = {} /\ new \ Members # {} THEN new \ Members ELSE {Nobody} :
           role' = [u \in Users |-> IF u = owner THEN "owner"
                                    ELSE IF u \in new \ Members THEN "member"
                                    ELSE role[u]]
  BY DEF Admit
<1>2. Owners \subseteq Owners'
  BY <1>1, MembershipAssumption DEF Owners, Having, Members
<1>3. \A u \in Users : role'[u] # "none" => role[u] # "none" \/ u \in new
  BY <1>1, MembershipAssumption DEF Members
<1> QED BY <1>2, <1>3 DEF Members

\* What the two action properties say of a transaction.
KeepsOwner(t) ==
    (Owners # {} /\ Members' # {} /\ Owners' = {})
       => task[t].pc = "handOver" /\ task'[t] = Idle /\ role[task[t].target] = "none"

LetsIn(t) ==
    \A u \in (Members' \ Members) \cap blocked :
       task[t].free /\ task'[t] = Idle /\ u = Joiner(task[t].pc, task[t].actor, task[t].target)

\* Most transactions write no role; the others keep the owner, hand over or repair,
\* and let nobody in but an unblocked user or the one whom the request is about.
LEMMA TransactionsOK ==
    ASSUME IInv, NEW t \in Tasks, Writing(t)
    PROVE  KeepsOwner(t) /\ LetsIn(t)
<1> DEFINE k == task[t]
<1> USE DEF IInv, Written
<1>1. /\ Proper(k.pc, k.actor, k.target, k.arg, k.needs)
      /\ Guarded(k.pc, k.actor, k.target, k.free)
      /\ k \in Task
  BY DEF TasksOK, GuardOK
<1>2. End(t) => task'[t] = Idle
  BY DEF End, TasksOK
<1>3. ASSUME UNCHANGED role PROVE KeepsOwner(t) /\ LetsIn(t)
  BY <1>3 DEF KeepsOwner, LetsIn, Owners, Members, Having
<1>4. ASSUME NEW u, Admit({u}), End(t), u \in users, room, u # Nobody,
             k.pc \in {"admit", "admitInvited", "approve"}, u = Joiner(k.pc, k.actor, k.target)
      PROVE  KeepsOwner(t) /\ LetsIn(t)
  <2>1. Owners \subseteq Owners' /\ Members' \ Members \subseteq {u}
    <3>1. {u} \in SUBSET Users
      BY <1>4 DEF RoomOK
    <3> QED BY <1>4, <3>1, AdmitsOnly
  <2>2. k.free
    BY <1>1, <1>4 DEF Guarded, Task
  <2> QED BY <1>2, <1>4, <2>1, <2>2 DEF KeepsOwner, LetsIn
<1>5. ASSUME NEW roles \in [Users -> Roles], PruneOrRepair(roles),
             \A u \in Users : roles[u] # "none" => role[u] # "none"
      PROVE  KeepsOwner(t) /\ LetsIn(t)
  BY <1>5, RepairsOwner DEF KeepsOwner, LetsIn, Members
<1>6. CASE AddJoiner(t)
  <2>1. k.pc = "admit" /\ End(t) /\ (Alive(t) => k.actor \in users /\ k.actor # Nobody /\ room)
    BY <1>1, <1>6, MembershipAssumption DEF AddJoiner, Proper, Alive, Ordinary
  <2>2. Joiner(k.pc, k.actor, k.target) = k.actor
    BY <2>1 DEF Joiner
  <2>3. CASE Alive(t)
    <3>1. Admit({k.actor})
      BY <1>6, <2>3 DEF AddJoiner
    <3> HIDE DEF k
    <3> QED BY <1>4, <2>1, <2>2, <2>3, <3>1
  <2>4. CASE ~Alive(t)
    BY <1>3, <1>6, <2>4 DEF AddJoiner, data, roomVars
  <2> QED BY <2>3, <2>4
<1>7. CASE Depart(t)
  <2>1. CASE UNCHANGED data
    BY <1>3, <2>1 DEF data, roomVars
  <2>2. CASE PruneOrRepair([role EXCEPT ![k.actor] = "none"])
    BY <1>5, <2>2 DEF RoomOK, Roles
  <2> QED BY <1>7, <2>1, <2>2 DEF Depart
<1>8. CASE Expel(t)
  <2>1. CASE UNCHANGED data
    BY <1>3, <2>1 DEF data, roomVars
  <2>2. CASE PruneOrRepair([role EXCEPT ![k.target] = "none"])
    BY <1>5, <2>2 DEF RoomOK, Roles
  <2> QED BY <1>8, <2>1, <2>2 DEF Expel
<1>9. CASE SetRole(t)
  <2>1. CASE UNCHANGED data
    BY <1>3, <2>1 DEF data, roomVars
  <2>2. CASE PruneOrRepair([role EXCEPT ![k.target] = k.arg]) /\ role[k.target] # "none"
    <3>1. k.arg \in {"member", "admin"}
      BY <1>1, <1>9 DEF SetRole, Proper
    <3> QED BY <1>5, <2>2, <3>1 DEF RoomOK, Roles
  <2> QED BY <1>9, <2>1, <2>2 DEF SetRole
<1>10. CASE HandOver(t)
  <2>1. CASE ~Alive(t)
    BY <1>3, <1>10, <2>1 DEF HandOver, data, roomVars
  <2>2. CASE Alive(t)
    <3>1. /\ role' = [u \in Users |-> IF u = k.target /\ role[u] # "none" THEN "owner"
                                     ELSE IF u # k.target /\ role[u] = "owner" THEN "admin"
                                     ELSE role[u]]
          /\ k.pc = "handOver" /\ k.target \in Users /\ task'[t] = Idle
      BY <1>1, <1>2, <1>10, <2>2 DEF HandOver, Proper
    <3> HIDE DEF k
    <3>2. LetsIn(t)
      BY <3>1 DEF LetsIn, Members
    <3>3. role[k.target] # "none" => k.target \in Owners'
      BY <3>1 DEF Owners, Having
    <3> QED BY <3>1, <3>2, <3>3 DEF KeepsOwner, k
  <2> QED BY <2>1, <2>2
<1>11. CASE AdmitInvited(t)
  <2>1. k.pc = "admitInvited" /\ End(t) /\ k.actor # Nobody
        /\ Joiner(k.pc, k.actor, k.target) = k.actor
    BY <1>1, <1>11, MembershipAssumption DEF AdmitInvited, Proper, Ordinary, Joiner
  <2>2. CASE UNCHANGED data
    BY <1>3, <2>2 DEF data, roomVars
  <2>3. CASE room /\ k.actor \in users /\ Admit({k.actor})
    <3> HIDE DEF k
    <3> QED BY <1>4, <2>1, <2>3
  <2> QED BY <1>11, <2>2, <2>3 DEF AdmitInvited
<1>12. CASE Approve(t)
  <2>1. k.pc = "approve" /\ End(t) /\ (Alive(t) => k.target \in users /\ k.target # Nobody /\ room)
        /\ Joiner(k.pc, k.actor, k.target) = k.target
    BY <1>1, <1>12, MembershipAssumption DEF Approve, Proper, Alive, Ordinary, Joiner
  <2>2. CASE UNCHANGED data
    BY <1>3, <2>2 DEF data, roomVars
  <2>3. CASE Alive(t) /\ Admit({k.target})
    <3> HIDE DEF k
    <3> QED BY <1>4, <2>1, <2>3
  <2> QED BY <1>12, <2>2, <2>3 DEF Approve
<1>13. CASE ReviewAll(t)
  <2> DEFINE new == IF k.arg = "open" THEN Pending \ blocked ELSE {}
  <2>1. CASE UNCHANGED data
    BY <1>3, <2>1 DEF data, roomVars
  <2>2. CASE Admit(new)
    <3>1. new \in SUBSET Users /\ new \cap blocked = {}
      BY DEF Pending
    <3> HIDE DEF new
    <3>2. Owners \subseteq Owners' /\ Members' \ Members \subseteq new
      BY <2>2, <3>1, AdmitsOnly
    <3> QED BY <3>1, <3>2 DEF KeepsOwner, LetsIn
  <2> QED BY <1>13, <2>1, <2>2 DEF ReviewAll
<1>14. CASE DeleteRoom(t)
  BY <1>14 DEF DeleteRoom, EndRoom, KeepsOwner, LetsIn, Members
<1>15. CASE Apply(t) \/ SendInvite(t) \/ Decline(t) \/ SettleInvites(t) \/ SettleRequest(t)
            \/ ApplyInvited(t) \/ AddBlock(t) \/ RemoveBlock(t) \/ SaveWithdrawal(t)
            \/ Reject(t) \/ SetPolicy(t)
  BY <1>3, <1>15
     DEF Apply, SendInvite, Decline, SettleInvites, SettleRequest, ApplyInvited, AddBlock,
         RemoveBlock, SaveWithdrawal, Reject, SetPolicy, data, roomVars
<1> QED BY <1>6, <1>7, <1>8, <1>9, <1>10, <1>11, <1>12, <1>13, <1>14, <1>15 DEF Writing

\* The console keeps the owner and adds nobody who is blocked; the room of an owner
\* whose account is deleted has no other owner.
LEMMA ConsoleKeeps ==
    ASSUME IInv, NEW u \in Users, Console(u) \/ DeleteAccount(u)
    PROVE  /\ Owners # {} /\ Owners' = {} => Owners \cap users' = {}
           /\ (Members' \ Members) \cap blocked = {}
<1> USE DEF IInv, Owners, Having, Members
<1>1. CASE \E r \in {"member", "admin"} : AddMembership(u, r)
  BY <1>1 DEF AddMembership, RoomOK
<1>2. CASE \E r \in {"member", "admin", "owner"} : UpdateMembership(u, r)
  BY <1>2 DEF UpdateMembership, RoomOK
<1>3. CASE RemoveMembership(u)
  BY <1>3 DEF RemoveMembership, RoomOK
<1>4. CASE DeleteAccount(u)
  BY <1>4 DEF DeleteAccount, RoomOK, OwnerIsCreator
<1> QED BY <1>1, <1>2, <1>3, <1>4 DEF Console
-----------------------------------------------------------------------------
\* A room with members loses its owner only with the owner's account or to a member
\* who left while it was being handed over to them.
THEOREM OwnershipKept == Spec => OwnershipIsHandedOver
<1> DEFINE Kept == (Owners # {} /\ Members' # {} /\ Owners' = {}) =>
                      \/ Owners \cap users' = {}
                      \/ \E t \in Tasks : /\ task[t].pc = "handOver" /\ task'[t] = Idle
                                         /\ role[task[t].target] = "none"
<1>1. IInv /\ [Next]_vars => [Kept]_vars
  <2> SUFFICES ASSUME IInv, Next PROVE Kept
    OBVIOUS
  <2>1. ASSUME NEW t \in Tasks, Beginning(t) \/ Reading(t) PROVE Kept
    BY <2>1, QuietOK DEF Owners, Having
  <2>2. ASSUME NEW t \in Tasks, Writing(t) PROVE Kept
    BY <2>2, TransactionsOK DEF KeepsOwner
  <2>3. ASSUME NEW u \in Users, Console(u) \/ DeleteAccount(u) PROVE Kept
    BY <2>3, ConsoleKeeps
  <2> QED BY <2>1, <2>2, <2>3, Kinds
<1> QED BY <1>1, Reachable, PTL DEF Spec, OwnershipIsHandedOver

\* Nobody is let in who has been blocked since before the request began.
THEOREM BlocksHold == Spec => BlockedStayOut
<1> DEFINE Out == \A u \in (Members' \ Members) \cap blocked :
                     \E t \in Tasks :
                        /\ task[t].free /\ task'[t] = Idle
                        /\ u = Joiner(task[t].pc, task[t].actor, task[t].target)
<1>1. IInv /\ [Next]_vars => [Out]_vars
  <2> SUFFICES ASSUME IInv, Next PROVE Out
    OBVIOUS
  <2>1. ASSUME NEW t \in Tasks, Beginning(t) \/ Reading(t) PROVE Out
    BY <2>1, QuietOK DEF Members
  <2>2. ASSUME NEW t \in Tasks, Writing(t) PROVE Out
    BY <2>2, TransactionsOK DEF LetsIn
  <2>3. ASSUME NEW u \in Users, Console(u) \/ DeleteAccount(u) PROVE Out
    BY <2>3, ConsoleKeeps
  <2> QED BY <2>1, <2>2, <2>3, Kinds
<1> QED BY <1>1, Reachable, PTL DEF Spec, BlockedStayOut
=============================================================================

-------------------------- MODULE MembershipProofs --------------------------
(* What holds of users, entities and the index for any number of requests   *)
(* that may fail anywhere.                                                   *)
EXTENDS Membership, TLAPS

-----------------------------------------------------------------------------
(* Deleted users.                                                           *)

\* The user table, as far as deletions depend on it.
UsersKeyed == /\ DOMAIN user = Users
              /\ DeletedUserActsForNone

LEMMA UsersStep == UsersKeyed /\ [Next]_vars => UsersKeyed'
<1> SUFFICES ASSUME UsersKeyed, [Next]_vars PROVE UsersKeyed'
  OBVIOUS
<1> USE DEF UsersKeyed, DeletedUserActsForNone, stores
<1>1. CASE UNCHANGED user
  BY <1>1
<1>2. ASSUME NEW w \in Workers, CreateUser(w) PROVE UsersKeyed'
  <2>1. PICK u \in Unused(user) :
          user' = [user EXCEPT ![u] = [life |-> "live", email |-> req[w].email, entities |-> {}]]
    BY <1>2 DEF CreateUser
  <2> QED
    BY <2>1
<1>3. ASSUME NEW w \in Workers, WriteUser(w) PROVE UsersKeyed'
  <2>1. CASE req[w].user \in Live(user)
    BY <1>3, <2>1 DEF WriteUser, Live
  <2>2. CASE req[w].user \notin Live(user)
    BY <1>3, <2>2 DEF WriteUser
  <2> QED
    BY <2>1, <2>2
<1>4. ASSUME NEW us, NEW n, AssociateEntity(us, n) PROVE UsersKeyed'
  BY <1>4 DEF AssociateEntity, Live
<1>5. ASSUME NEW us, NEW n, RemoveAssociatedEntity(us, n) PROVE UsersKeyed'
  BY <1>5 DEF RemoveAssociatedEntity, Live
<1>6. ASSUME NEW w \in Workers, DeleteUser(w) PROVE UsersKeyed'
  BY <1>6 DEF DeleteUser, Live
<1>7. ASSUME NEW w \in Workers, SubmitAny(w) PROVE UNCHANGED user
  BY <1>7 DEF SubmitAny, SubmitSignup, SubmitUserUpdate, SubmitEntityUpdate, SubmitProfile,
              SubmitUserDeletion, SubmitEntityDeletion, Submit
<1>8. ASSUME NEW w \in Workers, Work(w) PROVE UsersKeyed'
  <2>1. CASE LinkEntity(w)
    BY <2>1, <1>4 DEF LinkEntity
  <2>2. CASE AddEntity(w)
    BY <2>2, <1>4 DEF AddEntity
  <2>3. CASE DropEntity(w)
    BY <2>3, <1>5 DEF DropEntity
  <2>4. CASE CreateUser(w) \/ WriteUser(w) \/ DeleteUser(w)
    BY <2>4, <1>2, <1>3, <1>6
  <2>5. ASSUME ~LinkEntity(w), ~AddEntity(w), ~DropEntity(w),
               ~CreateUser(w), ~WriteUser(w), ~DeleteUser(w)
        PROVE  UNCHANGED user
    BY <1>8, <2>5
    DEF Work, OpenAccount, CreateEntity, IndexEntity, FindEmail, IndexUser, LinkUser,
        ReindexUser, AddUser, DropUser, BlankEmail, ReindexEntity, WriteEntity,
        UnindexUser, UnindexEntity, DeleteEntity, CloseAccount
  <2> QED
    BY <2>1, <2>2, <2>3, <2>4, <2>5, <1>1
<1> QED
  BY <1>1, <1>7, <1>8 DEF Next, Fail, vars

\* Whatever update or signup is under way when a user is deleted, none of its
\* later steps gives the deleted user an entity.
THEOREM DeletedUsers == Spec => []DeletedUserActsForNone
<1>1. Init => UsersKeyed
  BY DEF Init, UsersKeyed, DeletedUserActsForNone
<1>2. UsersKeyed => DeletedUserActsForNone
  BY DEF UsersKeyed
<1> QED
  BY <1>1, <1>2, UsersStep, PTL DEF Spec

-----------------------------------------------------------------------------
(* The entities in the index.                                               *)

Building(w) == pc[w] \in {"createEntity", "indexEntity"}

\* An entity that a signup is building is not indexed yet and is no other
\* signup's; until it exists nobody can be about to delete it, because deleting
\* begins with taking it from the index.
EntityRequests ==
    \A w \in Workers :
       LET n == req[w].entity
       IN  /\ pc[w] = "createEntity" => entity[n].life = "none"
           /\ pc[w] = "indexEntity" => entity[n].life = "live"
           /\ Building(w) \/ pc[w] = "deleteEntity" =>
                 n \in Entities /\ n \notin entityDoc /\ account[n] # "none"
           /\ Building(w) => \A v \in Workers \ {w} :
                 Building(v) \/ pc[v] = "deleteEntity" => req[v].entity # n

EntityInv == /\ DOMAIN entity = Entities /\ DOMAIN account = Entities
             /\ DOMAIN pc = Workers /\ DOMAIN req = Workers
             /\ \A n \in Entities : account[n] = "none" => entity[n].life = "none"
             /\ ListedEntitiesLive
             /\ EntityRequests

\* No entity appears, disappears or is indexed.
LivesKept == /\ DOMAIN entity' = Entities
             /\ \A n \in Entities : entity'[n].life = entity[n].life

\* A worker moves to a step that does not matter to EntityRequests.
LEMMA MoveAside ==
  ASSUME EntityInv, NEW w \in Workers, NEW step, NEW r, Move(w, step, r),
         step \notin {"createEntity", "indexEntity", "deleteEntity"},
         LivesKept, UNCHANGED <<account, entityDoc>>
  PROVE  EntityInv'
<1>1. \A v \in Workers \ {w} : pc'[v] = pc[v] /\ req'[v] = req[v]
  BY DEF Move, EntityInv
<1>2. pc'[w] = step /\ DOMAIN pc' = Workers /\ DOMAIN req' = Workers
  BY DEF Move, EntityInv
<1>3. ListedEntitiesLive'
  BY DEF EntityInv, ListedEntitiesLive, Live, LivesKept
<1>4. EntityRequests'
  BY <1>1, <1>2 DEF EntityInv, EntityRequests, Building, LivesKept
<1> QED
  BY <1>2, <1>3, <1>4 DEF EntityInv, LivesKept

LEMMA SameLives == EntityInv /\ UNCHANGED entity => LivesKept
  BY DEF EntityInv, LivesKept

LEMMA LinkKeepsLives ==
  ASSUME EntityInv, NEW ns, NEW u, AssociateUser(ns, u) \/ RemoveAssociatedUser(ns, u)
  PROVE  LivesKept
<1>1. CASE AssociateUser(ns, u)
  BY <1>1 DEF AssociateUser, EntityInv, LivesKept
<1>2. CASE RemoveAssociatedUser(ns, u)
  BY <1>2 DEF RemoveAssociatedUser, EntityInv, LivesKept
<1> QED
  BY <1>1, <1>2

MovesAside(w) == \E step, r : /\ Move(w, step, r)
                              /\ step \notin {"createEntity", "indexEntity", "deleteEntity"}

LEMMA GoAside ==
  ASSUME NEW w, NEW step, NEW r, Move(w, step, r),
         step \notin {"createEntity", "indexEntity", "deleteEntity"}
  PROVE  MovesAside(w)
  BY DEF MovesAside

LEMMA SubmitAside ==
  ASSUME NEW w \in Workers, SubmitAny(w)
  PROVE  MovesAside(w) /\ UNCHANGED <<account, entity, entityDoc>>
<1> USE DEF Submit, Go, GoAstray, stores
<1>1. CASE \E email \in Emails : SubmitSignup(w, email)
  BY <1>1, GoAside DEF SubmitSignup
<1>2. CASE \E u \in Users, email \in Emails \cup {Blank}, list \in SUBSET Entities :
             SubmitUserUpdate(w, u, email, list)
  BY <1>2, GoAside DEF SubmitUserUpdate
<1>3. CASE \E n \in Entities, list \in SUBSET Users : SubmitEntityUpdate(w, n, list)
  BY <1>3, GoAside DEF SubmitEntityUpdate
<1>4. CASE \E u \in Users : SubmitProfile(w, u) \/ SubmitUserDeletion(w, u)
  BY <1>4, GoAside DEF SubmitProfile, SubmitUserDeletion
<1>5. CASE \E n \in Entities : SubmitEntityDeletion(w, n)
  BY <1>5, GoAside DEF SubmitEntityDeletion
<1> QED
  BY <1>1, <1>2, <1>3, <1>4, <1>5 DEF SubmitAny

LEMMA UserStepAside ==
  ASSUME NEW w \in Workers,
         \/ Fail(w) \/ FindEmail(w) \/ CreateUser(w) \/ IndexUser(w) \/ LinkEntity(w)
         \/ ReindexUser(w) \/ WriteUser(w) \/ BlankEmail(w) \/ ReindexEntity(w)
         \/ AddEntity(w) \/ DropEntity(w) \/ UnindexUser(w) \/ DeleteUser(w)
  PROVE  MovesAside(w) /\ UNCHANGED <<account, entity, entityDoc>>
<1> USE DEF Step, Finish, Go, GoAstray, stores
<1>1. CASE Fail(w)
  BY <1>1, GoAside DEF Fail
<1>2. CASE FindEmail(w)
  BY <1>2, GoAside DEF FindEmail
<1>3. CASE CreateUser(w)
  BY <1>3, GoAside DEF CreateUser
<1>4. CASE IndexUser(w)
  BY <1>4, GoAside DEF IndexUser
<1>5. CASE LinkEntity(w)
  BY <1>5, GoAside DEF LinkEntity
<1>6. CASE ReindexUser(w)
  BY <1>6, GoAside DEF ReindexUser
<1>7. CASE WriteUser(w)
  BY <1>7, GoAside DEF WriteUser
<1>8. CASE BlankEmail(w)
  BY <1>8, GoAside DEF BlankEmail
<1>9. CASE ReindexEntity(w)
  BY <1>9, GoAside DEF ReindexEntity
<1>10. CASE AddEntity(w) \/ DropEntity(w)
  BY <1>10, GoAside DEF AddEntity, DropEntity
<1>11. CASE UnindexUser(w)
  BY <1>11, GoAside DEF UnindexUser
<1>12. CASE DeleteUser(w)
  BY <1>12, GoAside DEF DeleteUser
<1> QED
  BY <1>1, <1>2, <1>3, <1>4, <1>5, <1>6, <1>7, <1>8, <1>9, <1>10, <1>11, <1>12

LEMMA LinkStepAside ==
  ASSUME EntityInv, NEW w \in Workers,
         LinkUser(w) \/ AddUser(w) \/ DropUser(w) \/ WriteEntity(w)
  PROVE  MovesAside(w) /\ LivesKept /\ UNCHANGED <<account, entityDoc>>
<1> USE DEF Step, Finish, Go, GoAstray
<1>1. CASE LinkUser(w)
  BY <1>1, GoAside, LinkKeepsLives DEF LinkUser
<1>2. CASE AddUser(w)
  BY <1>2, GoAside, LinkKeepsLives DEF AddUser
<1>3. CASE DropUser(w)
  BY <1>3, GoAside, LinkKeepsLives DEF DropUser
<1>4. CASE WriteEntity(w)
  <2>1. LivesKept
    BY <1>4 DEF WriteEntity, EntityInv, LivesKept
  <2> QED
    BY <1>4, <2>1, GoAside DEF WriteEntity
<1> QED
  BY <1>1, <1>2, <1>3, <1>4

LEMMA EntityStep == EntityInv /\ [Next]_vars => EntityInv'
<1> SUFFICES ASSUME EntityInv, [Next]_vars PROVE EntityInv'
  OBVIOUS
<1>1. CASE UNCHANGED vars
  BY <1>1 DEF vars, stores, EntityInv, EntityRequests, Building, ListedEntitiesLive, Live
<1>2. ASSUME NEW w \in Workers, OpenAccount(w) PROVE EntityInv'
  <2>1. PICK n \in Entities :
          /\ account[n] = "none"
          /\ account' = [account EXCEPT ![n] = "open"]
          /\ Go(w, "createEntity", [req[w] EXCEPT !.entity = n])
    BY <1>2 DEF OpenAccount
  <2> DEFINE r == [req[w] EXCEPT !.entity = n]
  <2>2. Move(w, "createEntity", r) /\ UNCHANGED <<entity, entityDoc>>
    BY <1>2, <2>1 DEF OpenAccount, Go
  <2>3. CASE r.entity = n
    <3> HIDE DEF r
    <3>1. entity[n].life = "none" /\ n \notin entityDoc
      BY <2>1 DEF EntityInv, ListedEntitiesLive, Live
    <3>2. \A v \in Workers : Building(v) \/ pc[v] = "deleteEntity" => req[v].entity # n
      BY <2>1 DEF EntityInv, EntityRequests
    <3>3. EntityRequests'
      BY <2>1, <2>2, <2>3, <3>1, <3>2 DEF Move, EntityInv, EntityRequests, Building
    <3> QED
      BY <2>1, <2>2, <3>3 DEF Move, EntityInv, ListedEntitiesLive, Live
  <2>4. r.entity = n
    BY <2>1
  <2> QED
    BY <2>3, <2>4
<1>3. ASSUME NEW w \in Workers, CreateEntity(w) PROVE EntityInv'
  BY <1>3 DEF CreateEntity, Step, Go, Move, EntityInv, EntityRequests, Building, ListedEntitiesLive, Live
<1>4. ASSUME NEW w \in Workers, IndexEntity(w) PROVE EntityInv'
  BY <1>4 DEF IndexEntity, Step, Go, Move, EntityInv, EntityRequests, Building, ListedEntitiesLive, Live
<1>5. ASSUME NEW w \in Workers, UnindexEntity(w) PROVE EntityInv'
  BY <1>5 DEF UnindexEntity, Step, Finish, Go, Move, EntityInv, EntityRequests, Building, ListedEntitiesLive, Live
<1>6. ASSUME NEW w \in Workers, DeleteEntity(w) PROVE EntityInv'
  BY <1>6 DEF DeleteEntity, Step, Finish, Go, Move, EntityInv, EntityRequests, Building, ListedEntitiesLive, Live
<1>7. ASSUME NEW w \in Workers, CloseAccount(w) PROVE EntityInv'
  BY <1>7 DEF CloseAccount, Finish, Go, Move, EntityInv, EntityRequests, Building, ListedEntitiesLive, Live
<1>8. ASSUME NEW w \in Workers, MovesAside(w), LivesKept, UNCHANGED <<account, entityDoc>>
      PROVE  EntityInv'
  BY <1>8, MoveAside DEF MovesAside
<1>9. ASSUME NEW w \in Workers, SubmitAny(w) \/ Work(w) \/ Fail(w) PROVE EntityInv'
  BY <1>2, <1>3, <1>4, <1>5, <1>6, <1>7, <1>8, <1>9,
     SubmitAside, UserStepAside, LinkStepAside, SameLives DEF Work
<1> QED
  BY <1>1, <1>9 DEF Next

\* Whatever requests are under way and wherever they stop, the index lists no
\* entity that was deleted or never created.
THEOREM ListedLive == Spec => []ListedEntitiesLive
<1>1. Init => EntityInv
  BY DEF Init, EntityInv, EntityRequests, Building, ListedEntitiesLive, Live
<1>2. EntityInv => ListedEntitiesLive
  BY DEF EntityInv
<1> QED
  BY <1>1, <1>2, EntityStep, PTL DEF Spec
-----------------------------------------------------------------------------
(* Types.                                                                   *)

Requests == [user : Users \cup {NoUser}, entity : Entities \cup {NoEntity},
             email : Emails \cup {Blank}, relist : BOOLEAN, list : SUBSET (Users \cup Entities),
             added : SUBSET (Users \cup Entities), removed : SUBSET (Users \cup Entities)]

WithUser == {"indexUser", "linkUser", "linkEntity", "reindexUser", "writeUser", "addUser",
             "dropUser", "blankEmail", "unindexUser", "deleteUser"}
WithEntity == {"createEntity", "indexEntity", "findEmail", "createUser", "indexUser", "linkUser",
               "linkEntity", "reindexEntity", "writeEntity", "addEntity", "dropEntity",
               "unindexEntity", "deleteEntity", "closeAccount"}

\* What a worker has to hold when it comes to a step.
Fits(r, step) ==
    /\ step \in WithUser => r.user \in Users
    /\ step \in WithEntity => r.entity \in Entities
    /\ step \in {"reindexUser", "writeUser"} /\ r.relist => r.list \subseteq Entities
    /\ step \in {"reindexEntity", "writeEntity"} /\ r.relist => r.list \subseteq Users

RequestsOK == /\ orderly \in BOOLEAN
              /\ pc \in [Workers -> Steps]
              /\ req \in [Workers -> Requests]
              /\ \A w \in Workers : Fits(req[w], pc[w])

Accounts == [life : Life, email : Emails \cup {Blank}, entities : SUBSET Entities]
Companies == [life : Life, users : SUBSET Users]

TablesOK == /\ account \in [Entities -> {"none", "open", "closed"}]
            /\ user \in [Users -> Accounts]
            /\ entity \in [Entities -> Companies]
            /\ userDoc \in [Users -> Emails \cup {Blank, NoDoc}]
            /\ entityDoc \subseteq Entities

LEMMA NoReqFits == NoReq \in Requests /\ Fits(NoReq, "idle") /\ Fits(NoReq, "openAccount")
  BY DEF NoReq, Requests, Fits, WithUser, WithEntity

LEMMA MoveTypes ==
  ASSUME RequestsOK, NEW w \in Workers, NEW step \in Steps, NEW r \in Requests, Fits(r, step),
         Move(w, step, r), orderly' \in BOOLEAN
  PROVE  RequestsOK'
  BY DEF RequestsOK, Move

LEMMA GoTypes ==
  ASSUME RequestsOK, NEW w \in Workers, NEW step \in Steps, NEW r \in Requests, Fits(r, step),
         Go(w, step, r) \/ GoAstray(w, step, r)
  PROVE  RequestsOK'
<1>1. Move(w, step, r) /\ orderly' \in BOOLEAN
  BY DEF Go, GoAstray, RequestsOK
<1> QED
  BY <1>1, MoveTypes

LEMMA FinishTypes ==
  ASSUME RequestsOK, NEW w \in Workers, Finish(w) \/ GoAstray(w, "idle", NoReq)
  PROVE  RequestsOK'
  BY NoReqFits, GoTypes DEF Finish, Steps

\* On to a step that asks for nothing the one before did not have.
LEMMA StepTypes ==
  ASSUME RequestsOK, NEW w \in Workers, NEW step \in Steps,
         Step(w, step) \/ GoAstray(w, step, req[w]),
         step \in WithUser => pc[w] \in WithUser,
         step \in WithEntity => pc[w] \in WithEntity,
         step = "writeUser" => pc[w] = "reindexUser",
         step = "writeEntity" => pc[w] = "reindexEntity",
         step \notin {"reindexUser", "reindexEntity"}
  PROVE  RequestsOK'
<1>1. req[w] \in Requests /\ Fits(req[w], step)
  BY DEF RequestsOK, Fits
<1> QED
  BY <1>1, GoTypes DEF Step

-----------------------------------------------------------------------------
LEMMA SignupTypes ==
  ASSUME RequestsOK, NEW w \in Workers, NEW email \in Emails, SubmitSignup(w, email)
  PROVE  RequestsOK'
<1> DEFINE r == [NoReq EXCEPT !.email = email]
<1>1. r \in Requests /\ Fits(r, "openAccount")
  BY DEF NoReq, Requests, Fits, WithUser, WithEntity
<1> HIDE DEF r
<1>2. Go(w, "openAccount", r) \/ GoAstray(w, "openAccount", r)
  BY DEF SubmitSignup, r
<1> QED
  BY <1>1, <1>2, GoTypes DEF Steps

LEMMA UserUpdateTypes ==
  ASSUME TablesOK, RequestsOK, NEW w \in Workers, NEW u \in Users,
         NEW email \in Emails \cup {Blank}, NEW list \in SUBSET Entities,
         SubmitUserUpdate(w, u, email, list)
  PROVE  RequestsOK'
<1> DEFINE r == [NoReq EXCEPT !.user = u, !.email = email]
           s == Diff(r, list, user[u].entities)
<1>1. user[u].entities \subseteq Entities
  BY DEF TablesOK, Accounts
<1>2. r \in Requests /\ r.user = u /\ r.relist = FALSE
  BY DEF NoReq, Requests
<1>3. s \in Requests /\ s.user = u /\ s.list = list
  BY <1>1, <1>2 DEF Diff, Requests
<1>4. Go(w, "reindexUser", r) \/ Go(w, "reindexUser", s)
  BY DEF SubmitUserUpdate, Submit
<1> HIDE DEF r, s
<1>5. Fits(r, "reindexUser") /\ Fits(s, "reindexUser")
  BY <1>2, <1>3 DEF Fits, WithUser, WithEntity
<1> QED
  BY <1>2, <1>3, <1>4, <1>5, GoTypes DEF Steps

LEMMA EntityUpdateTypes ==
  ASSUME TablesOK, RequestsOK, NEW w \in Workers, NEW n \in Entities, NEW list \in SUBSET Users,
         SubmitEntityUpdate(w, n, list)
  PROVE  RequestsOK'
<1> DEFINE r == [NoReq EXCEPT !.entity = n]
           s == Diff(r, list, entity[n].users)
<1>1. entity[n].users \subseteq Users
  BY DEF TablesOK, Companies
<1>2. r \in Requests /\ r.entity = n /\ r.relist = FALSE
  BY DEF NoReq, Requests
<1>3. s \in Requests /\ s.entity = n /\ s.list = list
  BY <1>1, <1>2 DEF Diff, Requests
<1>4. Go(w, "reindexEntity", r) \/ Go(w, "reindexEntity", s)
  BY DEF SubmitEntityUpdate, Submit
<1> HIDE DEF r, s
<1>5. Fits(r, "reindexEntity") /\ Fits(s, "reindexEntity")
  BY <1>2, <1>3 DEF Fits, WithUser, WithEntity
<1> QED
  BY <1>2, <1>3, <1>4, <1>5, GoTypes DEF Steps

LEMMA PlainSubmitTypes ==
  ASSUME RequestsOK, NEW w \in Workers,
         \/ \E u \in Users : SubmitProfile(w, u) \/ SubmitUserDeletion(w, u)
         \/ \E n \in Entities : SubmitEntityDeletion(w, n)
  PROVE  RequestsOK'
<1>1. ASSUME NEW u \in Users, SubmitProfile(w, u) \/ SubmitUserDeletion(w, u) PROVE RequestsOK'
  <2> DEFINE r == [NoReq EXCEPT !.user = u]
  <2>1. r \in Requests /\ r.user = u
    BY DEF NoReq, Requests
  <2> HIDE DEF r
  <2>2. Go(w, "blankEmail", r) \/ Go(w, "unindexUser", r)
    BY <1>1 DEF SubmitProfile, SubmitUserDeletion, Submit, r
  <2>3. Fits(r, "blankEmail") /\ Fits(r, "unindexUser")
    BY <2>1 DEF Fits, WithUser, WithEntity
  <2> QED
    BY <2>1, <2>2, <2>3, GoTypes DEF Steps
<1>2. ASSUME NEW n \in Entities, SubmitEntityDeletion(w, n) PROVE RequestsOK'
  <2> DEFINE r == [NoReq EXCEPT !.entity = n]
  <2>1. r \in Requests /\ r.entity = n
    BY DEF NoReq, Requests
  <2> HIDE DEF r
  <2>2. Go(w, "unindexEntity", r)
    BY <1>2 DEF SubmitEntityDeletion, Submit, r
  <2>3. Fits(r, "unindexEntity")
    BY <2>1 DEF Fits, WithUser, WithEntity
  <2> QED
    BY <2>1, <2>2, <2>3, GoTypes DEF Steps
<1> QED
  BY <1>1, <1>2

LEMMA SubmitTypes ==
  ASSUME TablesOK, RequestsOK, NEW w \in Workers, SubmitAny(w)
  PROVE  RequestsOK' /\ UNCHANGED stores
<1>1. RequestsOK'
  BY SignupTypes, UserUpdateTypes, EntityUpdateTypes, PlainSubmitTypes DEF SubmitAny
<1>2. UNCHANGED stores
  BY DEF SubmitAny, SubmitSignup, SubmitUserUpdate, SubmitEntityUpdate, SubmitProfile,
         SubmitUserDeletion, SubmitEntityDeletion, Submit
<1> QED
  BY <1>1, <1>2

-----------------------------------------------------------------------------
LEMMA WorkRequests ==
  ASSUME TablesOK, RequestsOK, NEW w \in Workers, Work(w)
  PROVE  RequestsOK'
<1> USE DEF Steps, WithUser, WithEntity
<1>1. ASSUME OpenAccount(w) PROVE RequestsOK'
  <2>1. PICK n \in Entities : Go(w, "createEntity", [req[w] EXCEPT !.entity = n])
    BY <1>1 DEF OpenAccount
  <2> DEFINE r == [req[w] EXCEPT !.entity = n]
  <2>2. r \in Requests /\ r.entity = n
    BY DEF RequestsOK, Requests
  <2> HIDE DEF r
  <2>3. Fits(r, "createEntity")
    BY <2>2 DEF Fits
  <2> QED
    BY <2>1, <2>2, <2>3, GoTypes DEF r
<1>2. ASSUME CreateUser(w) PROVE RequestsOK'
  <2>1. PICK u \in Users : Go(w, "indexUser", [req[w] EXCEPT !.user = u])
    BY <1>2 DEF CreateUser, Unused, TablesOK
  <2> DEFINE r == [req[w] EXCEPT !.user = u]
  <2>2. r \in Requests /\ r.user = u /\ r.entity = req[w].entity
    BY DEF RequestsOK, Requests
  <2> HIDE DEF r
  <2>3. Fits(r, "indexUser")
    BY <1>2, <2>2 DEF Fits, CreateUser, RequestsOK
  <2> QED
    BY <2>1, <2>2, <2>3, GoTypes DEF r
<1>3. CASE CreateEntity(w) \/ IndexEntity(w) \/ IndexUser(w) \/ LinkUser(w)
  BY <1>3, StepTypes DEF CreateEntity, IndexEntity, IndexUser, LinkUser
<1>4. CASE FindEmail(w)
  BY <1>4, StepTypes, FinishTypes DEF FindEmail
<1>5. CASE LinkEntity(w) \/ DropUser(w) \/ BlankEmail(w) \/ DropEntity(w) \/ DeleteUser(w) \/ CloseAccount(w)
  BY <1>5, FinishTypes DEF LinkEntity, DropUser, BlankEmail, DropEntity, DeleteUser, CloseAccount
<1>6. CASE ReindexUser(w) \/ WriteUser(w) \/ AddUser(w)
  BY <1>6, StepTypes, FinishTypes DEF ReindexUser, WriteUser, AddUser
<1>7. CASE ReindexEntity(w) \/ WriteEntity(w) \/ AddEntity(w)
  BY <1>7, StepTypes, FinishTypes DEF ReindexEntity, WriteEntity, AddEntity
<1>8. CASE UnindexUser(w) \/ UnindexEntity(w) \/ DeleteEntity(w)
  BY <1>8, StepTypes, FinishTypes DEF UnindexUser, UnindexEntity, DeleteEntity
<1> QED
  BY <1>1, <1>2, <1>3, <1>4, <1>5, <1>6, <1>7, <1>8 DEF Work

\* Links leave well-typed tables.
LEMMA LinkTypes ==
  ASSUME TablesOK, NEW u, NEW n, NEW us, NEW ns
  PROVE  /\ u \in Users /\ AssociateUser(ns, u) => entity' \in [Entities -> Companies]
         /\ RemoveAssociatedUser(ns, u) => entity' \in [Entities -> Companies]
         /\ n \in Entities /\ AssociateEntity(us, n) => user' \in [Users -> Accounts]
         /\ RemoveAssociatedEntity(us, n) => user' \in [Users -> Accounts]
<1>1. ASSUME u \in Users, AssociateUser(ns, u) PROVE entity' \in [Entities -> Companies]
  BY <1>1 DEF TablesOK, Companies, AssociateUser
<1>2. ASSUME RemoveAssociatedUser(ns, u) PROVE entity' \in [Entities -> Companies]
  BY <1>2 DEF TablesOK, Companies, RemoveAssociatedUser
<1>3. ASSUME n \in Entities, AssociateEntity(us, n) PROVE user' \in [Users -> Accounts]
  BY <1>3 DEF TablesOK, Accounts, AssociateEntity
<1>4. ASSUME RemoveAssociatedEntity(us, n) PROVE user' \in [Users -> Accounts]
  BY <1>4 DEF TablesOK, Accounts, RemoveAssociatedEntity
<1> QED
  BY <1>1, <1>2, <1>3, <1>4

LEMMA WorkTables ==
  ASSUME TablesOK, RequestsOK, NEW w \in Workers, Work(w)
  PROVE  TablesOK'
<1> DEFINE r == req[w]
<1>1. r \in Requests /\ Fits(r, pc[w])
  BY DEF RequestsOK
<1>2. r.email \in Emails \cup {Blank} /\ r.relist \in BOOLEAN
  BY <1>1 DEF Requests
<1> HIDE DEF r
<1> USE DEF TablesOK, Life
<1>3. CASE OpenAccount(w) \/ CloseAccount(w)
  BY <1>3 DEF OpenAccount, CloseAccount
<1>4. CASE CreateEntity(w)
  BY <1>4 DEF CreateEntity, Companies
<1>5. CASE IndexEntity(w)
  <2>1. r.entity \in Entities
    BY <1>1, <1>5 DEF IndexEntity, Fits, WithEntity
  <2> QED
    BY <1>5, <2>1 DEF IndexEntity, r
<1>6. CASE CreateUser(w)
  <2>1. PICK u : user' = [user EXCEPT ![u] = [life |-> "live", email |-> r.email, entities |-> {}]]
    BY <1>6 DEF CreateUser, r
  <2>2. [life |-> "live", email |-> r.email, entities |-> {}] \in Accounts
    BY <1>2 DEF Accounts
  <2> QED
    BY <1>6, <2>1, <2>2 DEF CreateUser
<1>7. CASE IndexUser(w) \/ ReindexUser(w) \/ BlankEmail(w) \/ UnindexUser(w)
  BY <1>2, <1>7 DEF IndexUser, ReindexUser, BlankEmail, UnindexUser, r
<1>8. CASE LinkUser(w) \/ AddUser(w) \/ DropUser(w)
  <2>1. r.user \in Users
    BY <1>1, <1>8 DEF LinkUser, AddUser, DropUser, Fits, WithUser
  <2> QED
    BY <1>8, <2>1, LinkTypes DEF LinkUser, AddUser, DropUser, r
<1>9. CASE LinkEntity(w) \/ AddEntity(w) \/ DropEntity(w)
  <2>1. r.entity \in Entities
    BY <1>1, <1>9 DEF LinkEntity, AddEntity, DropEntity, Fits, WithEntity
  <2> QED
    BY <1>9, <2>1, LinkTypes DEF LinkEntity, AddEntity, DropEntity, r
<1>10. CASE WriteUser(w)
  <2>1. r.user \in Users /\ (r.relist => r.list \subseteq Entities)
    BY <1>1, <1>10 DEF WriteUser, Fits, WithUser
  <2> DEFINE new == [life |-> "live",
                     entities |-> IF r.relist THEN r.list ELSE user[r.user].entities,
                     email |-> IF r.email = Blank THEN user[r.user].email ELSE r.email]
  <2>2. new \in Accounts
    BY <1>2, <2>1 DEF Accounts
  <2>3. user' = user \/ user' = [user EXCEPT ![r.user] = new]
    BY <1>10, <2>1 DEF WriteUser, r
  <2> HIDE DEF new
  <2>4. user' \in [Users -> Accounts]
    BY <2>2, <2>3
  <2> QED
    BY <1>10, <2>4 DEF WriteUser
<1>11. CASE WriteEntity(w)
  <2>1. r.entity \in Entities /\ (r.relist => r.list \subseteq Users)
    BY <1>1, <1>11 DEF WriteEntity, Fits, WithEntity
  <2>2. entity' \in [Entities -> Companies]
    BY <1>11, <2>1 DEF WriteEntity, Companies, r
  <2> QED
    BY <1>11, <2>2 DEF WriteEntity
<1>12. CASE DeleteUser(w)
  <2>1. r.user \in Users
    BY <1>1, <1>12 DEF DeleteUser, Fits, WithUser
  <2>2. user' \in [Users -> Accounts]
    BY <1>12, <2>1 DEF DeleteUser, Accounts, r
  <2> QED
    BY <1>12, <2>2 DEF DeleteUser
<1>13. CASE DeleteEntity(w)
  BY <1>13 DEF DeleteEntity, Companies
<1>14. CASE FindEmail(w) \/ ReindexEntity(w) \/ UnindexEntity(w)
  BY <1>14 DEF FindEmail, ReindexEntity, UnindexEntity, stores
<1> QED
  BY <1>3, <1>4, <1>5, <1>6, <1>7, <1>8, <1>9, <1>10, <1>11, <1>12, <1>13, <1>14 DEF Work

LEMMA TypesHold == Spec => [](TablesOK /\ RequestsOK)
<1>1. Init => TablesOK /\ RequestsOK
  BY NoReqFits DEF Init, TablesOK, RequestsOK, Life, Accounts, Companies, Steps
<1>2. TablesOK /\ RequestsOK /\ [Next]_vars => (TablesOK /\ RequestsOK)'
  <2> SUFFICES ASSUME TablesOK, RequestsOK, [Next]_vars PROVE TablesOK' /\ RequestsOK'
    OBVIOUS
  <2>1. CASE UNCHANGED vars
    BY <2>1 DEF vars, stores, TablesOK, RequestsOK
  <2>2. ASSUME UNCHANGED stores PROVE TablesOK'
    BY <2>2 DEF stores, TablesOK
  <2>3. ASSUME NEW w \in Workers, Fail(w) PROVE TablesOK' /\ RequestsOK'
    BY <2>2, <2>3, FinishTypes DEF Fail
  <2>4. ASSUME NEW w \in Workers, SubmitAny(w) \/ Work(w) PROVE TablesOK' /\ RequestsOK'
    BY <2>2, <2>4, SubmitTypes, WorkRequests, WorkTables
  <2> QED
    BY <2>1, <2>3, <2>4 DEF Next
<1> QED
  BY <1>1, <1>2, PTL DEF Spec

\* Every reachable state is well typed: no request writes a link, an email or a
\* document of something it does not hold, wherever it stops.
THEOREM TypeCorrect == Spec => []TypeOK
<1>1. TablesOK /\ RequestsOK => TypeOK
  BY DEF TablesOK, RequestsOK, TypeOK, Accounts, Companies
<1> QED
  BY <1>1, TypesHold, PTL
-----------------------------------------------------------------------------
(* The two lists, as long as requests are orderly.  us, ns and ac are the   *)
(* tables of users, entities and accounts at some point.                    *)

\* Whoever is in a list has been created, and every entity has an account.
Known(us, ns, ac) ==
    /\ \A u \in Users : \A n \in us[u].entities : ns[n].life # "none"
    /\ \A n \in Entities : \A u \in ns[n].users : us[u].life # "none"
    /\ \A n \in Entities : ns[n].life # "none" => ac[n] # "none"

\* The links of which a request has written one side.
Pending(step, r, u, n) ==
    \/ u = r.user /\ \/ step = "linkEntity" /\ n = r.entity
                     \/ step = "addUser" /\ n \in r.added \cup r.removed
                     \/ step = "dropUser" /\ n \in r.removed
    \/ n = r.entity /\ \/ step = "addEntity" /\ u \in r.added \cup r.removed
                       \/ step = "dropEntity" /\ u \in r.removed

Agree(us, ns, step, r) ==
    \A u \in Live(us), n \in Live(ns) :
       Pending(step, r, u, n) \/ (n \in us[u].entities <=> u \in ns[n].users)

\* What a request that changes a list has read: the members as they are.
IsDiff(r, members) == IF r.relist THEN r.added = r.list \ members /\ r.removed = members \ r.list
                                  ELSE r.added = {} /\ r.removed = {}

\* What each step finds of its user and of its entity; at those after a list was
\* written, how the list compares with the links still to be written elsewhere.
UserReady(us, ns, step, r) ==
    /\ step \in {"indexUser", "linkUser", "reindexUser", "writeUser", "addUser"} =>
          us[r.user].life # "none"
    /\ step \in {"reindexUser", "writeUser"} =>
          /\ IsDiff(r, us[r.user].entities)
          /\ r.relist => \A n \in r.list : ns[n].life # "none"
    /\ step = "addUser" => r.added \subseteq us[r.user].entities
    /\ step \in {"addUser", "dropUser"} => r.removed \cap us[r.user].entities = {}

EntityReady(us, ns, step, r) ==
    /\ step = "createEntity" => ns[r.entity].life = "none" /\ r.entity \in Entities
    /\ step \in {"indexEntity", "findEmail", "createUser", "indexUser", "linkUser", "linkEntity",
                 "reindexEntity", "writeEntity", "addEntity"} => ns[r.entity].life # "none"
    /\ step = "linkEntity" => r.user \in ns[r.entity].users
    /\ step \in {"reindexEntity", "writeEntity"} =>
          /\ IsDiff(r, ns[r.entity].users)
          /\ r.relist => \A u \in r.list : us[u].life # "none"
    /\ step = "addEntity" /\ r.entity \in Live(ns) => r.added \subseteq ns[r.entity].users
    /\ step \in {"addEntity", "dropEntity"} /\ r.entity \in Live(ns) =>
          r.removed \cap ns[r.entity].users = {}

Holds(us, ns, ac, step, r) == /\ Known(us, ns, ac) /\ Agree(us, ns, step, r)
                              /\ UserReady(us, ns, step, r) /\ EntityReady(us, ns, step, r)
                              /\ step = "createEntity" => ac[r.entity] # "none"

Alone == \A v, w \in Workers : pc[v] # "idle" /\ pc[w] # "idle" => v = w

AgreeInv == orderly => /\ Alone
                       /\ \A w \in Workers : (\A v \in Workers \ {w} : pc[v] = "idle") =>
                             Holds(user, entity, account, pc[w], req[w])
                       /\ Quiet => Agree(user, entity, "idle", NoReq)

\* What a step of the only request leaves.
After(w) == \E step \in Steps, r \in Requests :
               Go(w, step, r) /\ Holds(user', entity', account', step, r)

Settled == Steps \ {"linkEntity", "addUser", "dropUser", "addEntity", "dropEntity"}

\* A request that has written both sides may end.
LEMMA MayEnd ==
  ASSUME NEW us, NEW ns, NEW ac, NEW step \in Settled, NEW r, NEW s, Holds(us, ns, ac, step, r)
  PROVE  Holds(us, ns, ac, "idle", s)
<1>1. Agree(us, ns, "idle", s)
  BY DEF Holds, Agree, Pending, Settled
<1>2. UserReady(us, ns, "idle", s) /\ EntityReady(us, ns, "idle", s)
  BY DEF UserReady, EntityReady
<1> QED
  BY <1>1, <1>2 DEF Holds

LEMMA EndAfter ==
  ASSUME NEW w \in Workers, NEW step \in Settled, NEW r,
         Holds(user', entity', account', step, r), Finish(w)
  PROVE  After(w)
<1>1. Holds(user', entity', account', "idle", NoReq)
  BY MayEnd
<1> QED
  BY <1>1, NoReqFits DEF After, Finish, Steps

\* The other workers are idle before and after a step of an orderly request.
LEMMA AfterInv ==
  ASSUME RequestsOK, AgreeInv, NEW w \in Workers, orderly', After(w)
  PROVE  AgreeInv'
<1>1. PICK step \in Steps, r \in Requests : Go(w, step, r) /\ Holds(user', entity', account', step, r)
  BY DEF After
<1>2. /\ orderly /\ (pc[w] = "idle" => \A v \in Workers : pc[v] = "idle")
      /\ pc' = [pc EXCEPT ![w] = step] /\ req' = [req EXCEPT ![w] = r]
  BY <1>1 DEF Go, Move
<1>3. \A v \in Workers : v # w => pc'[v] = "idle"
  BY <1>2 DEF AgreeInv, Alone, RequestsOK
<1>4. pc'[w] = step /\ req'[w] = r
  BY <1>2 DEF RequestsOK
<1>5. Alone'
  BY <1>3 DEF Alone
<1>6. ASSUME NEW v \in Workers, \A x \in Workers \ {v} : pc'[x] = "idle"
      PROVE  Holds(user', entity', account', pc'[v], req'[v])
  <2>1. CASE v = w
    BY <1>1, <1>4, <2>1
  <2>2. CASE v # w
    <3>1. step = "idle" /\ pc'[v] = "idle"
      BY <1>3, <1>4, <1>6, <2>2
    <3>2. Holds(user', entity', account', "idle", req'[v])
      BY <1>1, <3>1, MayEnd DEF Settled, Steps
    <3> QED
      BY <3>1, <3>2
  <2> QED
    BY <2>1, <2>2
<1>7. ASSUME Quiet' PROVE Agree(user', entity', "idle", NoReq)
  <2>1. Holds(user', entity', account', "idle", NoReq)
    BY <1>1, <1>4, <1>7, MayEnd DEF Quiet, Settled, Steps
  <2> QED
    BY <2>1 DEF Holds
<1> QED
  BY <1>5, <1>6, <1>7 DEF AgreeInv

\* An orderly step is one of a request that is alone.
LEMMA StepAlone ==
  ASSUME AgreeInv, NEW w \in Workers, NEW step, NEW r, Go(w, step, r), orderly'
  PROVE  Holds(user, entity, account, pc[w], req[w])
<1>1. orderly /\ (pc[w] = "idle" => \A v \in Workers : pc[v] = "idle")
  BY DEF Go
<1>2. \A v \in Workers \ {w} : pc[v] = "idle"
  BY <1>1 DEF AgreeInv, Alone
<1> QED
  BY <1>1, <1>2 DEF AgreeInv

-----------------------------------------------------------------------------
(* Steps that write no list.                                                *)

\* Nothing was created or linked.
LEMMA PlainHolds ==
  ASSUME NEW us, NEW ns, NEW ac, NEW old, NEW new, NEW r, Holds(us, ns, ac, old, r),
         <<old, new>> \in {<<"indexEntity", "findEmail">>, <<"findEmail", "createUser">>,
                           <<"indexUser", "linkUser">>, <<"reindexUser", "writeUser">>,
                           <<"reindexEntity", "writeEntity">>, <<"unindexUser", "deleteUser">>,
                           <<"unindexEntity", "deleteEntity">>}
  PROVE  Holds(us, ns, ac, new, r)
<1>1. Agree(us, ns, new, r)
  BY DEF Holds, Agree, Pending
<1>2. UserReady(us, ns, new, r) /\ EntityReady(us, ns, new, r)
  BY DEF Holds, UserReady, EntityReady
<1> QED
  BY <1>1, <1>2 DEF Holds

LEMMA PlainAfter ==
  ASSUME RequestsOK, NEW w \in Workers, Holds(user, entity, account, pc[w], req[w]), orderly',
         \/ IndexEntity(w) \/ FindEmail(w) \/ IndexUser(w) \/ ReindexUser(w) \/ BlankEmail(w)
         \/ ReindexEntity(w) \/ UnindexUser(w) \/ UnindexEntity(w)
  PROVE  After(w)
<1>1. UNCHANGED <<user, entity, account>>
  BY DEF IndexEntity, FindEmail, IndexUser, ReindexUser, BlankEmail, ReindexEntity, UnindexUser,
         UnindexEntity, stores
<1>2. req[w] \in Requests /\ Holds(user', entity', account', pc[w], req[w])
  BY <1>1 DEF RequestsOK
<1>3. CASE Finish(w)
  <2>1. pc[w] \in Settled
    BY DEF IndexEntity, FindEmail, IndexUser, ReindexUser, BlankEmail, ReindexEntity, UnindexUser,
           UnindexEntity, Settled, Steps
  <2> QED
    BY <1>2, <1>3, <2>1, EndAfter
<1>4. ASSUME NEW step \in Steps, Step(w, step),
             <<pc[w], step>> \in {<<"indexEntity", "findEmail">>, <<"findEmail", "createUser">>,
                           <<"indexUser", "linkUser">>, <<"reindexUser", "writeUser">>,
                           <<"reindexEntity", "writeEntity">>, <<"unindexUser", "deleteUser">>,
                           <<"unindexEntity", "deleteEntity">>}
      PROVE  After(w)
  <2>1. Holds(user', entity', account', step, req[w])
    BY <1>2, <1>4, PlainHolds
  <2> QED
    BY <1>2, <1>4, <2>1 DEF After, Step
<1>5. CASE IndexEntity(w) \/ FindEmail(w) \/ IndexUser(w)
  BY <1>3, <1>4, <1>5 DEF IndexEntity, FindEmail, IndexUser, GoAstray, Steps
<1>6. CASE ReindexUser(w) \/ BlankEmail(w) \/ ReindexEntity(w)
  BY <1>3, <1>4, <1>6 DEF ReindexUser, BlankEmail, ReindexEntity, Steps
<1>7. CASE UnindexUser(w) \/ UnindexEntity(w)
  BY <1>3, <1>4, <1>7 DEF UnindexUser, UnindexEntity, GoAstray, Steps
<1> QED
  BY <1>5, <1>6, <1>7

LEMMA AccountAfter ==
  ASSUME TablesOK, RequestsOK, NEW w \in Workers, Holds(user, entity, account, pc[w], req[w]),
         OpenAccount(w) \/ CloseAccount(w)
  PROVE  After(w)
<1>1. CASE OpenAccount(w)
  <2>1. PICK n \in Entities : /\ account[n] = "none" /\ account' = [account EXCEPT ![n] = "open"]
                              /\ Go(w, "createEntity", [req[w] EXCEPT !.entity = n])
    BY <1>1 DEF OpenAccount
  <2> DEFINE r == [req[w] EXCEPT !.entity = n]
  <2>2. r \in Requests /\ r.entity = n
    BY DEF RequestsOK, Requests
  <2> HIDE DEF r
  <2>3. UNCHANGED <<user, entity>> /\ pc[w] = "openAccount"
    BY <1>1 DEF OpenAccount
  <2>4. Known(user', entity', account')
    BY <2>1, <2>3 DEF Holds, Known, TablesOK
  <2>5. Agree(user', entity', "createEntity", r)
    BY <2>3 DEF Holds, Agree, Pending
  <2>6. entity[n].life = "none"
    BY <2>1 DEF Holds, Known
  <2>7. UserReady(user', entity', "createEntity", r) /\ EntityReady(user', entity', "createEntity", r)
    BY <2>2, <2>3, <2>6 DEF UserReady, EntityReady
  <2>8. account'[n] # "none"
    BY <2>1 DEF TablesOK
  <2> QED
    BY <2>1, <2>2, <2>4, <2>5, <2>7, <2>8 DEF After, Holds, Steps, r
<1>2. CASE CloseAccount(w)
  <2>1. /\ UNCHANGED <<user, entity>> /\ pc[w] = "closeAccount" /\ Finish(w)
        /\ account' = [account EXCEPT ![req[w].entity] = "closed"]
    BY <1>2 DEF CloseAccount
  <2>2. Known(user', entity', account')
    BY <2>1 DEF Holds, Known, TablesOK
  <2>3. Holds(user', entity', account', "closeAccount", req[w])
    BY <2>1, <2>2 DEF Holds, Agree, Pending, UserReady, EntityReady
  <2> QED
    BY <2>1, <2>3, EndAfter DEF Settled, Steps
<1> QED
  BY <1>1, <1>2

-----------------------------------------------------------------------------
(* Users and entities that come and go.                                     *)

LEMMA CreateEntityAfter ==
  ASSUME TablesOK, RequestsOK, NEW w \in Workers, Holds(user, entity, account, pc[w], req[w]),
         CreateEntity(w)
  PROVE  After(w)
<1> DEFINE r == req[w]
<1>1. /\ pc[w] = "createEntity" /\ Step(w, "indexEntity") /\ UNCHANGED <<user, account>>
      /\ entity' = [entity EXCEPT ![r.entity] = [life |-> "live", users |-> {}]]
  BY DEF CreateEntity
<1>2. r \in Requests /\ r.entity \in Entities /\ entity[r.entity].life = "none"
  BY <1>1 DEF RequestsOK, Holds, EntityReady
<1>3. /\ entity'[r.entity] = [life |-> "live", users |-> {}]
      /\ \A n \in Entities : n # r.entity => entity'[n] = entity[n]
      /\ DOMAIN entity' = Entities
  BY <1>1, <1>2 DEF TablesOK
<1>4. account[r.entity] # "none"
  BY <1>1 DEF Holds
<1> HIDE DEF r
<1>5. Known(user', entity', account')
  BY <1>1, <1>2, <1>3, <1>4 DEF Holds, Known
<1>6. \A u \in Users : r.entity \notin user[u].entities
  BY <1>2 DEF Holds, Known
<1>7. Agree(user', entity', "indexEntity", r)
  BY <1>1, <1>3, <1>6 DEF Holds, Agree, Pending, Live, TablesOK, r
<1>8. UserReady(user', entity', "indexEntity", r) /\ EntityReady(user', entity', "indexEntity", r)
  BY <1>3 DEF UserReady, EntityReady
<1> QED
  BY <1>1, <1>2, <1>5, <1>7, <1>8 DEF After, Holds, Step, Steps, r

LEMMA CreateUserAfter ==
  ASSUME TablesOK, RequestsOK, NEW w \in Workers, Holds(user, entity, account, pc[w], req[w]),
         CreateUser(w)
  PROVE  After(w)
<1>1. PICK u \in Unused(user) :
         /\ user' = [user EXCEPT ![u] = [life |-> "live", email |-> req[w].email, entities |-> {}]]
         /\ Go(w, "indexUser", [req[w] EXCEPT !.user = u])
  BY DEF CreateUser
<1> DEFINE r == [req[w] EXCEPT !.user = u]
<1>2. u \in Users /\ user[u].life = "none"
  BY <1>1 DEF Unused, TablesOK
<1>3. r \in Requests /\ r.user = u /\ r.entity = req[w].entity
  BY <1>2 DEF RequestsOK, Requests
<1>4. UNCHANGED <<entity, account>> /\ pc[w] = "createUser"
  BY DEF CreateUser
<1> HIDE DEF r
<1>5. /\ user'[u].life = "live" /\ user'[u].entities = {}
      /\ \A v \in Users : v # u => user'[v] = user[v]
      /\ DOMAIN user' = Users
  BY <1>1, <1>2 DEF TablesOK
<1>6. Known(user', entity', account')
  BY <1>2, <1>4, <1>5 DEF Holds, Known, TablesOK, Companies
<1>7. \A n \in Entities : u \notin entity[n].users
  BY <1>2 DEF Holds, Known
<1>8. Agree(user', entity', "indexUser", r)
  BY <1>4, <1>5, <1>7 DEF Holds, Agree, Pending, Live, TablesOK
<1>9. UserReady(user', entity', "indexUser", r) /\ EntityReady(user', entity', "indexUser", r)
  BY <1>3, <1>4, <1>5 DEF Holds, UserReady, EntityReady
<1> QED
  BY <1>1, <1>3, <1>6, <1>8, <1>9 DEF After, Holds, Steps, r

LEMMA DeleteUserAfter ==
  ASSUME TablesOK, RequestsOK, NEW w \in Workers, Holds(user, entity, account, pc[w], req[w]),
         DeleteUser(w)
  PROVE  After(w)
<1>1. pc[w] = "deleteUser" /\ Finish(w) /\ UNCHANGED <<entity, account>>
  BY DEF DeleteUser
<1>2. /\ DOMAIN user' = Users
      /\ \A u \in Users : \/ user'[u] = user[u]
                          \/ user'[u].life = "deleted" /\ user'[u].entities = {} /\ user[u].life = "live"
  BY DEF DeleteUser, Live, TablesOK, Accounts
<1>3. Known(user', entity', account')
  BY <1>1, <1>2 DEF Holds, Known, TablesOK, Companies
<1>4. Agree(user', entity', "deleteUser", req[w])
  BY <1>1, <1>2 DEF Holds, Agree, Pending, Live, TablesOK
<1>5. Holds(user', entity', account', "deleteUser", req[w])
  BY <1>3, <1>4 DEF Holds, UserReady, EntityReady
<1> QED
  BY <1>1, <1>5, EndAfter DEF Settled, Steps

LEMMA DeleteEntityAfter ==
  ASSUME TablesOK, RequestsOK, NEW w \in Workers, Holds(user, entity, account, pc[w], req[w]),
         DeleteEntity(w)
  PROVE  After(w)
<1>1. /\ pc[w] = "deleteEntity" /\ (Finish(w) \/ Step(w, "closeAccount"))
      /\ UNCHANGED <<user, account>> /\ req[w] \in Requests
  BY DEF DeleteEntity, RequestsOK
<1>2. /\ DOMAIN entity' = Entities
      /\ \A n \in Entities : \/ entity'[n] = entity[n]
                             \/ entity'[n].life = "deleted" /\ entity'[n].users = {} /\ entity[n].life = "live"
  BY DEF DeleteEntity, Live, TablesOK
<1>3. Known(user', entity', account')
  BY <1>1, <1>2 DEF Holds, Known, TablesOK, Accounts
<1>4. Agree(user', entity', "closeAccount", req[w])
  BY <1>1, <1>2 DEF Holds, Agree, Pending, Live, TablesOK
<1>5. Holds(user', entity', account', "closeAccount", req[w])
  BY <1>3, <1>4 DEF Holds, UserReady, EntityReady
<1> QED
  BY <1>1, <1>5, EndAfter DEF After, Settled, Steps, Step

-----------------------------------------------------------------------------
(* The two sides of a link.                                                 *)

LEMMA WriteUserAfter ==
  ASSUME TablesOK, RequestsOK, NEW w \in Workers, Holds(user, entity, account, pc[w], req[w]),
         WriteUser(w)
  PROVE  After(w)
<1> DEFINE r == req[w]
<1>1. pc[w] = "writeUser" /\ UNCHANGED <<entity, account>> /\ r \in Requests /\ r.user \in Users
  BY DEF WriteUser, RequestsOK, Fits, WithUser
<1>2. CASE r.user \notin Live(user)
  <2>1. UNCHANGED user /\ Finish(w)
    BY <1>2 DEF WriteUser
  <2> QED
    BY <1>1, <2>1, EndAfter DEF Settled, Steps
<1>3. CASE r.user \in Live(user)
  <2> DEFINE new == IF r.relist THEN r.list ELSE user[r.user].entities
  <2>1. /\ user' = [user EXCEPT ![r.user] =
                      [life |-> "live", entities |-> new,
                       email |-> IF r.email = Blank THEN @.email ELSE r.email]]
        /\ Step(w, "addUser")
    BY <1>3 DEF WriteUser
  <2>2. /\ user'[r.user].life = "live" /\ user'[r.user].entities = new
        /\ \A u \in Users : u # r.user => user'[u] = user[u]
        /\ DOMAIN user' = Users
    BY <1>1, <2>1 DEF TablesOK
  <2>3. user[r.user].life = "live"
    BY <1>3 DEF Live
  <2>4. /\ IsDiff(r, user[r.user].entities)
        /\ r.relist => \A n \in r.list : entity[n].life # "none"
    BY <1>1 DEF Holds, UserReady
  <2> HIDE DEF r
  <2>5. /\ r.added = new \ user[r.user].entities /\ r.removed = user[r.user].entities \ new
        /\ r.added \subseteq new /\ r.removed \cap new = {}
    BY <2>4 DEF IsDiff
  <2>6. \A n \in new : entity[n].life # "none"
    BY <1>1, <2>4 DEF Holds, Known
  <2> HIDE DEF new
  <2>7. Known(user', entity', account')
    <3>1. \A u \in Users : \A n \in user'[u].entities : entity'[n].life # "none"
      BY <1>1, <2>2, <2>6 DEF Holds, Known
    <3>2. \A n \in Entities : \A u \in entity'[n].users : user'[u].life # "none"
      BY <1>1, <2>2, <2>3 DEF Holds, Known, TablesOK, Companies
    <3> QED
      BY <1>1, <3>1, <3>2 DEF Holds, Known
  <2>8. Agree(user', entity', "addUser", r)
    <3>1. ASSUME NEW u \in Live(user'), NEW n \in Live(entity')
          PROVE  Pending("addUser", r, u, n) \/ (n \in user'[u].entities <=> u \in entity'[n].users)
      <4>1. u \in Live(user) /\ n \in Live(entity)
        BY <1>1, <2>2, <2>3, <3>1 DEF Live, TablesOK
      <4>2. n \in user[u].entities <=> u \in entity[n].users
        BY <1>1, <4>1 DEF Holds, Agree, Pending, r
      <4> QED
        BY <1>1, <2>2, <2>5, <4>1, <4>2 DEF Pending, Live, TablesOK
    <3> QED
      BY <3>1 DEF Agree
  <2>9. UserReady(user', entity', "addUser", r) /\ EntityReady(user', entity', "addUser", r)
    BY <2>2, <2>5 DEF UserReady, EntityReady
  <2> QED
    BY <1>1, <2>1, <2>7, <2>8, <2>9 DEF After, Holds, Step, Steps, r
<1> QED
  BY <1>2, <1>3

LEMMA WriteEntityAfter ==
  ASSUME TablesOK, RequestsOK, NEW w \in Workers, Holds(user, entity, account, pc[w], req[w]),
         WriteEntity(w)
  PROVE  After(w)
<1> DEFINE r == req[w]
           n == r.entity
           new == IF r.relist THEN r.list ELSE entity[n].users
<1>1. /\ pc[w] = "writeEntity" /\ UNCHANGED <<user, account>> /\ r \in Requests /\ n \in Entities
      /\ Step(w, "addEntity")
  BY DEF WriteEntity, RequestsOK, Fits, WithEntity
<1>2. /\ entity'[n].life = entity[n].life
      /\ n \in Live(entity) => entity'[n].users = new
      /\ n \notin Live(entity) => entity'[n].users = entity[n].users
      /\ \A m \in Entities : m # n => entity'[m] = entity[m]
      /\ DOMAIN entity' = Entities
  BY <1>1 DEF WriteEntity, TablesOK, Companies
<1>3. /\ IsDiff(r, entity[n].users) /\ entity[n].life # "none"
      /\ r.relist => \A u \in r.list : user[u].life # "none"
  BY <1>1 DEF Holds, EntityReady
<1> HIDE DEF r
<1>4. /\ r.added = new \ entity[n].users /\ r.removed = entity[n].users \ new
      /\ r.added \subseteq new /\ r.removed \cap new = {}
  BY <1>3 DEF IsDiff
<1>5. \A u \in new : user[u].life # "none"
  BY <1>1, <1>3 DEF Holds, Known
<1> HIDE DEF new, n
<1>6. Known(user', entity', account')
  <2>1. \A m \in Entities : entity'[m].life = entity[m].life
    BY <1>2
  <2>2. \A u \in Users : \A m \in user'[u].entities : entity'[m].life # "none"
    BY <1>1, <2>1 DEF Holds, Known, TablesOK, Accounts
  <2>3. \A m \in Entities : \A u \in entity'[m].users : user'[u].life # "none"
    BY <1>1, <1>2, <1>5 DEF Holds, Known
  <2> QED
    BY <1>1, <2>1, <2>2, <2>3 DEF Holds, Known
<1>7. Agree(user', entity', "addEntity", r)
  <2>1. ASSUME NEW u \in Live(user'), NEW m \in Live(entity')
        PROVE  Pending("addEntity", r, u, m) \/ (m \in user'[u].entities <=> u \in entity'[m].users)
    <3>1. u \in Live(user) /\ m \in Live(entity)
      BY <1>1, <1>2, <2>1 DEF Live, TablesOK
    <3>2. m \in user[u].entities <=> u \in entity[m].users
      BY <1>1, <3>1 DEF Holds, Agree, Pending, r
    <3> QED
      BY <1>1, <1>2, <1>4, <3>1, <3>2 DEF Pending, Live, TablesOK, n
  <2> QED
    BY <2>1 DEF Agree
<1>8. UserReady(user', entity', "addEntity", r)
  BY DEF UserReady
<1>9. EntityReady(user', entity', "addEntity", r)
  <2>1. n \in Live(entity') => n \in Live(entity)
    BY <1>1, <1>2 DEF Live, TablesOK
  <2> QED
    BY <1>2, <1>3, <1>4, <2>1 DEF EntityReady, n
<1> QED
  BY <1>1, <1>6, <1>7, <1>8, <1>9 DEF After, Holds, Step, Steps, r

LEMMA AssociateUserAfter ==
  ASSUME TablesOK, RequestsOK, NEW w \in Workers, Holds(user, entity, account, pc[w], req[w]),
         LinkUser(w) \/ AddUser(w)
  PROVE  After(w)
<1> DEFINE r == req[w]
           ns == IF pc[w] = "linkUser" THEN {r.entity} ELSE r.added
           next == IF pc[w] = "linkUser" THEN "linkEntity" ELSE "dropUser"
<1>1. /\ AssociateUser(ns, r.user) /\ Step(w, next) /\ UNCHANGED <<user, account>>
      /\ r \in Requests /\ r.user \in Users /\ pc[w] \in {"linkUser", "addUser"}
  BY DEF LinkUser, AddUser, RequestsOK, Fits, WithUser
<1>2. user[r.user].life # "none"
  BY <1>1 DEF Holds, UserReady
<1> HIDE DEF r
<1>3. /\ DOMAIN entity' = Entities
      /\ \A n \in Entities : /\ entity'[n].life = entity[n].life
                             /\ entity'[n].users = IF n \in ns /\ entity[n].life # "none"
                                                   THEN entity[n].users \cup {r.user} ELSE entity[n].users
  BY <1>1 DEF AssociateUser, TablesOK, Companies
<1>4. Known(user', entity', account')
  <2>1. \A u \in Users : \A n \in user'[u].entities : entity'[n].life # "none"
    BY <1>1, <1>3 DEF Holds, Known, TablesOK, Accounts
  <2>2. \A n \in Entities : \A u \in entity'[n].users : user'[u].life # "none"
    <3>1. \A n \in Entities : entity'[n].users \subseteq entity[n].users \cup {r.user}
      BY <1>3
    <3>2. \A n \in Entities : \A u \in entity[n].users : user[u].life # "none"
      BY DEF Holds, Known
    <3> QED
      BY <1>1, <1>2, <3>1, <3>2
  <2> QED
    BY <1>1, <1>3, <2>1, <2>2 DEF Holds, Known
<1>5. Agree(user', entity', next, r)
  <2>1. ASSUME NEW u \in Live(user'), NEW n \in Live(entity')
        PROVE  Pending(next, r, u, n) \/ (n \in user'[u].entities <=> u \in entity'[n].users)
    <3>1. u \in Live(user) /\ n \in Live(entity) /\ n \in Entities /\ entity[n].life # "none"
      BY <1>1, <1>3, <2>1 DEF Live, TablesOK
    <3>2. CASE pc[w] = "linkUser"
      <4>1. n \in user[u].entities <=> u \in entity[n].users
        BY <3>1, <3>2 DEF Holds, Agree, Pending
      <4> QED
        BY <1>1, <1>3, <3>1, <3>2, <4>1 DEF Pending
    <3>3. CASE pc[w] = "addUser"
      <4>1. \/ u = r.user /\ n \in r.added \cup r.removed
            \/ n \in user[u].entities <=> u \in entity[n].users
        BY <3>1, <3>3 DEF Holds, Agree, Pending, r
      <4>2. r.added \subseteq user[r.user].entities
        BY <3>3 DEF Holds, UserReady, r
      <4> QED
        BY <1>1, <1>3, <3>1, <3>3, <4>1, <4>2 DEF Pending
    <3> QED
      BY <1>1, <3>2, <3>3
  <2> QED
    BY <2>1 DEF Agree
<1>6. UserReady(user', entity', next, r)
  BY <1>1 DEF Holds, UserReady, r
<1>7. EntityReady(user', entity', next, r)
  <2>1. CASE pc[w] = "linkUser"
    <3>1. r.entity \in Entities /\ entity[r.entity].life # "none"
      BY <2>1 DEF RequestsOK, Fits, WithEntity, Holds, EntityReady, r
    <3> QED
      BY <1>3, <2>1, <3>1 DEF EntityReady
  <2>2. CASE pc[w] = "addUser"
    BY <2>2 DEF EntityReady
  <2> QED
    BY <1>1, <2>1, <2>2
<1> QED
  BY <1>1, <1>4, <1>5, <1>6, <1>7 DEF After, Holds, Step, Steps, r

LEMMA DropUserAfter ==
  ASSUME TablesOK, RequestsOK, NEW w \in Workers, Holds(user, entity, account, pc[w], req[w]),
         DropUser(w)
  PROVE  After(w)
<1> DEFINE r == req[w]
<1>1. /\ RemoveAssociatedUser(r.removed, r.user) /\ Finish(w) /\ UNCHANGED <<user, account>>
      /\ pc[w] = "dropUser"
  BY DEF DropUser
<1> HIDE DEF r
<1>2. /\ DOMAIN entity' = Entities
      /\ \A n \in Entities : /\ entity'[n].life = entity[n].life
                             /\ entity'[n].users = IF n \in r.removed
                                                   THEN entity[n].users \ {r.user} ELSE entity[n].users
  BY <1>1 DEF RemoveAssociatedUser, TablesOK, Companies
<1>3. Known(user', entity', account')
  BY <1>1, <1>2 DEF Holds, Known, TablesOK, Accounts
<1>4. Agree(user', entity', "idle", r)
  <2>1. ASSUME NEW u \in Live(user'), NEW n \in Live(entity')
        PROVE  n \in user'[u].entities <=> u \in entity'[n].users
    <3>1. u \in Live(user) /\ n \in Live(entity) /\ n \in Entities
      BY <1>1, <1>2, <2>1 DEF Live, TablesOK
    <3>2. \/ u = r.user /\ n \in r.removed
          \/ n \in user[u].entities <=> u \in entity[n].users
      BY <1>1, <3>1 DEF Holds, Agree, Pending, r
    <3>3. r.removed \cap user[r.user].entities = {}
      BY <1>1 DEF Holds, UserReady, r
    <3> QED
      BY <1>1, <1>2, <3>1, <3>2, <3>3
  <2> QED
    BY <2>1 DEF Agree
<1>5. Holds(user', entity', account', "idle", r)
  BY <1>3, <1>4 DEF Holds, UserReady, EntityReady
<1> QED
  BY <1>1, <1>5, EndAfter DEF Settled, Steps

LEMMA AssociateEntityAfter ==
  ASSUME TablesOK, RequestsOK, NEW w \in Workers, Holds(user, entity, account, pc[w], req[w]),
         LinkEntity(w) \/ AddEntity(w)
  PROVE  After(w)
<1> DEFINE r == req[w]
           us == IF pc[w] = "linkEntity" THEN {r.user} ELSE r.added
           next == IF pc[w] = "linkEntity" THEN "idle" ELSE "dropEntity"
<1>1. /\ AssociateEntity(us, r.entity) /\ UNCHANGED <<entity, account>>
      /\ pc[w] = "linkEntity" => Finish(w)
      /\ pc[w] = "addEntity" => Step(w, "dropEntity")
      /\ r \in Requests /\ r.entity \in Entities /\ pc[w] \in {"linkEntity", "addEntity"}
  BY DEF LinkEntity, AddEntity, RequestsOK, Fits, WithEntity
<1>2. entity[r.entity].life # "none"
  BY <1>1 DEF Holds, EntityReady
<1> HIDE DEF r
<1>3. /\ DOMAIN user' = Users
      /\ \A u \in Users : /\ user'[u].life = user[u].life
                          /\ user'[u].entities = IF u \in us /\ user[u].life = "live"
                                                 THEN user[u].entities \cup {r.entity} ELSE user[u].entities
  BY <1>1 DEF AssociateEntity, TablesOK, Accounts, Live
<1>4. Known(user', entity', account')
  <2>1. \A u \in Users : \A n \in user'[u].entities : entity'[n].life # "none"
    <3>1. \A u \in Users : user'[u].entities \subseteq user[u].entities \cup {r.entity}
      BY <1>3
    <3>2. \A u \in Users : \A n \in user[u].entities : entity[n].life # "none"
      BY DEF Holds, Known
    <3> QED
      BY <1>1, <1>2, <3>1, <3>2
  <2>2. \A n \in Entities : \A u \in entity'[n].users : user'[u].life # "none"
    BY <1>1, <1>3 DEF Holds, Known, TablesOK, Companies
  <2> QED
    BY <1>1, <2>1, <2>2 DEF Holds, Known
<1>5. Agree(user', entity', next, r)
  <2>1. ASSUME NEW u \in Live(user'), NEW n \in Live(entity')
        PROVE  Pending(next, r, u, n) \/ (n \in user'[u].entities <=> u \in entity'[n].users)
    <3>1. u \in Live(user) /\ n \in Live(entity) /\ u \in Users /\ user[u].life = "live"
      BY <1>1, <1>3, <2>1 DEF Live, TablesOK
    <3>2. CASE pc[w] = "linkEntity"
      <4>1. \/ u = r.user /\ n = r.entity
            \/ n \in user[u].entities <=> u \in entity[n].users
        BY <3>1, <3>2 DEF Holds, Agree, Pending, r
      <4>2. r.user \in entity[r.entity].users
        BY <3>2 DEF Holds, EntityReady, r
      <4> QED
        BY <1>1, <1>3, <3>1, <3>2, <4>1, <4>2
    <3>3. CASE pc[w] = "addEntity"
      <4>1. \/ n = r.entity /\ u \in r.added \cup r.removed
            \/ n \in user[u].entities <=> u \in entity[n].users
        BY <3>1, <3>3 DEF Holds, Agree, Pending, r
      <4>2. n = r.entity => r.added \subseteq entity[n].users
        BY <3>1, <3>3 DEF Holds, EntityReady, r
      <4> QED
        BY <1>1, <1>3, <3>1, <3>3, <4>1, <4>2 DEF Pending
    <3> QED
      BY <1>1, <3>2, <3>3
  <2> QED
    BY <2>1 DEF Agree
<1>6. UserReady(user', entity', next, r)
  BY <1>1 DEF UserReady
<1>7. EntityReady(user', entity', next, r)
  BY <1>1 DEF Holds, EntityReady, r
<1>8. Holds(user', entity', account', next, r)
  BY <1>4, <1>5, <1>6, <1>7 DEF Holds
<1>9. CASE pc[w] = "linkEntity"
  BY <1>1, <1>8, <1>9, EndAfter DEF Settled, Steps
<1>10. CASE pc[w] = "addEntity"
  BY <1>1, <1>8, <1>10 DEF After, Step, Steps, r
<1> QED
  BY <1>1, <1>9, <1>10

LEMMA DropEntityAfter ==
  ASSUME TablesOK, RequestsOK, NEW w \in Workers, Holds(user, entity, account, pc[w], req[w]),
         DropEntity(w)
  PROVE  After(w)
<1> DEFINE r == req[w]
<1>1. /\ RemoveAssociatedEntity(r.removed, r.entity) /\ Finish(w) /\ UNCHANGED <<entity, account>>
      /\ pc[w] = "dropEntity"
  BY DEF DropEntity
<1> HIDE DEF r
<1>2. /\ DOMAIN user' = Users
      /\ \A u \in Users : /\ user'[u].life = user[u].life
                          /\ user'[u].entities = IF u \in r.removed /\ user[u].life = "live"
                                                 THEN user[u].entities \ {r.entity} ELSE user[u].entities
  BY <1>1 DEF RemoveAssociatedEntity, TablesOK, Accounts, Live
<1>3. Known(user', entity', account')
  BY <1>1, <1>2 DEF Holds, Known, TablesOK, Companies
<1>4. Agree(user', entity', "idle", r)
  <2>1. ASSUME NEW u \in Live(user'), NEW n \in Live(entity')
        PROVE  n \in user'[u].entities <=> u \in entity'[n].users
    <3>1. u \in Live(user) /\ n \in Live(entity) /\ u \in Users /\ user[u].life = "live"
      BY <1>1, <1>2, <2>1 DEF Live, TablesOK
    <3>2. \/ n = r.entity /\ u \in r.removed
          \/ n \in user[u].entities <=> u \in entity[n].users
      BY <1>1, <3>1 DEF Holds, Agree, Pending, r
    <3>3. n = r.entity => r.removed \cap entity[n].users = {}
      BY <1>1, <3>1 DEF Holds, EntityReady, r
    <3> QED
      BY <1>1, <1>2, <3>1, <3>2, <3>3
  <2> QED
    BY <2>1 DEF Agree
<1>5. Holds(user', entity', account', "idle", r)
  BY <1>3, <1>4 DEF Holds, UserReady, EntityReady
<1> QED
  BY <1>1, <1>5, EndAfter DEF Settled, Steps

LEMMA WorkAfter ==
  ASSUME TablesOK, RequestsOK, NEW w \in Workers, Holds(user, entity, account, pc[w], req[w]),
         Work(w), orderly'
  PROVE  After(w)
  BY PlainAfter, AccountAfter, CreateEntityAfter, CreateUserAfter, DeleteUserAfter, DeleteEntityAfter,
     WriteUserAfter, WriteEntityAfter, AssociateUserAfter, DropUserAfter, AssociateEntityAfter,
     DropEntityAfter DEF Work

-----------------------------------------------------------------------------
(* New requests.                                                            *)

LEMMA SubmitAfter ==
  ASSUME TablesOK, RequestsOK, NEW w \in Workers, Holds(user, entity, account, pc[w], req[w]),
         SubmitAny(w), orderly'
  PROVE  After(w)
<1>1. pc[w] = "idle" /\ UNCHANGED <<user, entity, account>>
  BY DEF SubmitAny, SubmitSignup, SubmitUserUpdate, SubmitEntityUpdate, SubmitProfile,
         SubmitUserDeletion, SubmitEntityDeletion, Submit, stores
<1>2. ASSUME NEW step \in Settled, step # "createEntity", NEW r \in Requests, Go(w, step, r),
             UserReady(user, entity, step, r), EntityReady(user, entity, step, r)
      PROVE  After(w)
  <2>1. Agree(user, entity, step, r)
    BY <1>1 DEF Holds, Agree, Pending, Settled
  <2>2. Holds(user', entity', account', step, r)
    BY <1>1, <1>2, <2>1 DEF Holds
  <2> QED
    BY <1>2, <2>2 DEF After, Settled
<1>3. ASSUME NEW step \in {"openAccount", "blankEmail", "unindexUser", "unindexEntity"},
             NEW r \in Requests, Go(w, step, r)
      PROVE  After(w)
  <2>1. UserReady(user, entity, step, r) /\ EntityReady(user, entity, step, r)
    BY DEF UserReady, EntityReady
  <2> QED
    BY <1>2, <1>3, <2>1 DEF Settled, Steps
<1>4. ASSUME NEW email \in Emails, SubmitSignup(w, email) PROVE After(w)
  <2>1. [NoReq EXCEPT !.email = email] \in Requests
    BY DEF NoReq, Requests
  <2> QED
    BY <1>3, <1>4, <2>1 DEF SubmitSignup, GoAstray
<1>5. ASSUME NEW u \in Users, SubmitProfile(w, u) \/ SubmitUserDeletion(w, u) PROVE After(w)
  <2>1. [NoReq EXCEPT !.user = u] \in Requests
    BY DEF NoReq, Requests
  <2> QED
    BY <1>3, <1>5, <2>1 DEF SubmitProfile, SubmitUserDeletion, Submit
<1>6. ASSUME NEW n \in Entities, SubmitEntityDeletion(w, n) PROVE After(w)
  <2>1. [NoReq EXCEPT !.entity = n] \in Requests
    BY DEF NoReq, Requests
  <2> QED
    BY <1>3, <1>6, <2>1 DEF SubmitEntityDeletion, Submit
<1>7. ASSUME NEW u \in Users, NEW email \in Emails \cup {Blank}, NEW list \in SUBSET Entities,
             SubmitUserUpdate(w, u, email, list)
      PROVE  After(w)
  <2> DEFINE r == [NoReq EXCEPT !.user = u, !.email = email]
             s == Diff(r, list, user[u].entities)
  <2>1. user[u].entities \subseteq Entities
    BY DEF TablesOK, Accounts
  <2>2. r \in Requests /\ r.user = u /\ r.relist = FALSE /\ r.added = {} /\ r.removed = {}
    BY DEF NoReq, Requests
  <2>3. /\ s \in Requests /\ s.user = u /\ s.list = list /\ s.relist = TRUE
        /\ s.added = list \ user[u].entities /\ s.removed = user[u].entities \ list
    BY <2>1, <2>2 DEF Diff, Requests
  <2>4. Go(w, "reindexUser", r) \/ Go(w, "reindexUser", s)
    BY <1>7 DEF SubmitUserUpdate, Submit
  <2>5. user[u].life = "live" /\ \A n \in list : entity[n].life = "live"
    BY <1>7 DEF SubmitUserUpdate, Live
  <2> HIDE DEF r, s
  <2>6. UserReady(user, entity, "reindexUser", r) /\ EntityReady(user, entity, "reindexUser", r)
    BY <2>2, <2>5 DEF UserReady, EntityReady, IsDiff
  <2>7. UserReady(user, entity, "reindexUser", s) /\ EntityReady(user, entity, "reindexUser", s)
    BY <2>3, <2>5 DEF UserReady, EntityReady, IsDiff
  <2> QED
    BY <1>2, <2>2, <2>3, <2>4, <2>6, <2>7 DEF Settled, Steps
<1>8. ASSUME NEW n \in Entities, NEW list \in SUBSET Users, SubmitEntityUpdate(w, n, list)
      PROVE  After(w)
  <2> DEFINE r == [NoReq EXCEPT !.entity = n]
             s == Diff(r, list, entity[n].users)
  <2>1. entity[n].users \subseteq Users
    BY DEF TablesOK, Companies
  <2>2. r \in Requests /\ r.entity = n /\ r.relist = FALSE /\ r.added = {} /\ r.removed = {}
    BY DEF NoReq, Requests
  <2>3. /\ s \in Requests /\ s.entity = n /\ s.list = list /\ s.relist = TRUE
        /\ s.added = list \ entity[n].users /\ s.removed = entity[n].users \ list
    BY <2>1, <2>2 DEF Diff, Requests
  <2>4. Go(w, "reindexEntity", r) \/ Go(w, "reindexEntity", s)
    BY <1>8 DEF SubmitEntityUpdate, Submit
  <2>5. entity[n].life = "live" /\ \A u \in list : user[u].life = "live"
    BY <1>8 DEF SubmitEntityUpdate, Live
  <2> HIDE DEF r, s
  <2>6. UserReady(user, entity, "reindexEntity", r) /\ EntityReady(user, entity, "reindexEntity", r)
    BY <2>2, <2>5 DEF UserReady, EntityReady, IsDiff
  <2>7. UserReady(user, entity, "reindexEntity", s) /\ EntityReady(user, entity, "reindexEntity", s)
    BY <2>3, <2>5 DEF UserReady, EntityReady, IsDiff
  <2> QED
    BY <1>2, <2>2, <2>3, <2>4, <2>6, <2>7 DEF Settled, Steps
<1> QED
  BY <1>4, <1>5, <1>6, <1>7, <1>8 DEF SubmitAny

-----------------------------------------------------------------------------
\* A step either goes on or goes astray.
LEMMA StepGoes ==
  ASSUME NEW w \in Workers, SubmitAny(w) \/ Work(w) \/ Fail(w), orderly'
  PROVE  \E step, r : Go(w, step, r)
<1> USE DEF GoAstray, Step, Finish
<1>1. CASE SubmitAny(w)
  BY <1>1 DEF SubmitAny, SubmitSignup, SubmitUserUpdate, SubmitEntityUpdate, SubmitProfile,
         SubmitUserDeletion, SubmitEntityDeletion, Submit
<1>2. CASE OpenAccount(w) \/ CreateEntity(w) \/ IndexEntity(w) \/ FindEmail(w)
  BY <1>2 DEF OpenAccount, CreateEntity, IndexEntity, FindEmail
<1>3. CASE CreateUser(w) \/ IndexUser(w) \/ LinkUser(w) \/ LinkEntity(w)
  BY <1>3 DEF CreateUser, IndexUser, LinkUser, LinkEntity
<1>4. CASE ReindexUser(w) \/ WriteUser(w) \/ AddUser(w) \/ DropUser(w) \/ BlankEmail(w)
  BY <1>4 DEF ReindexUser, WriteUser, AddUser, DropUser, BlankEmail
<1>5. CASE ReindexEntity(w) \/ WriteEntity(w) \/ AddEntity(w) \/ DropEntity(w)
  BY <1>5 DEF ReindexEntity, WriteEntity, AddEntity, DropEntity
<1>6. CASE UnindexUser(w) \/ DeleteUser(w) \/ UnindexEntity(w) \/ DeleteEntity(w) \/ CloseAccount(w)
  BY <1>6 DEF UnindexUser, DeleteUser, UnindexEntity, DeleteEntity, CloseAccount
<1> QED
  BY <1>1, <1>2, <1>3, <1>4, <1>5, <1>6 DEF Work, Fail

LEMMA AgreeStep == TablesOK /\ RequestsOK /\ AgreeInv /\ [Next]_vars => AgreeInv'
<1> SUFFICES ASSUME TablesOK, RequestsOK, AgreeInv, [Next]_vars PROVE AgreeInv'
  OBVIOUS
<1>1. CASE UNCHANGED vars
  BY <1>1 DEF vars, stores, AgreeInv, Alone, Quiet
<1>2. CASE ~orderly'
  BY <1>2 DEF AgreeInv
<1>3. ASSUME NEW w \in Workers, SubmitAny(w) \/ Work(w) \/ Fail(w), orderly' PROVE AgreeInv'
  <2>1. Holds(user, entity, account, pc[w], req[w])
    BY <1>3, StepGoes, StepAlone
  <2>2. After(w)
    BY <1>3, <2>1, SubmitAfter, WorkAfter DEF Fail, GoAstray
  <2> QED
    BY <1>3, <2>2, AfterInv
<1> QED
  BY <1>1, <1>2, <1>3 DEF Next

\* Both lists agree at rest: of each link a request writes it writes both sides,
\* and in between it knows which are missing.
THEOREM AgreeAtRest == Spec => []ListsAgree
<1>1. Init => AgreeInv
  BY DEF Init, AgreeInv, Alone, Holds, Known, Agree, Live, UserReady, EntityReady
<1>2. TablesOK /\ RequestsOK /\ AgreeInv => ListsAgree
  BY DEF AgreeInv, ListsAgree, Agree, Pending
<1> QED
  BY <1>1, <1>2, TypesHold, AgreeStep, PTL DEF Spec
=============================================================================

----------------------------- MODULE Membership -----------------------------
(***************************************************************************)
(* Users, entities and the two lists that link them: an entity names its   *)
(* users and a user names its entities, in two collections without a       *)
(* transaction over both.  Signup, the updates and the deletions, one      *)
(* action per store call.  A worker is one request goroutine.              *)
(***************************************************************************)
EXTENDS Integers, FiniteSets

CONSTANTS Workers,
          Users, Entities, \* the object ids that may be drawn (bound)
          Emails,
          Lower,           \* strings.ToLower
          Blank,           \* the empty string
          NoUser, NoEntity,
          StoresFail       \* whether a store call may fail or the process stop

ASSUME MembershipAssumption ==
    /\ Lower \in [Emails -> Emails]
    /\ Blank \notin Emails /\ NoUser \notin Users /\ NoEntity \notin Entities
    /\ StoresFail \in BOOLEAN

VARIABLES account,   \* accounts table: one row per entity id
          user,      \* users collection
          entity,    \* entities collection
          userDoc,   \* users index: the email of each document
          entityDoc, \* entities index: the ids that have a document
          orderly,   \* history: whether requests came one at a time and no call failed
          pc,
          req        \* what each worker's handler holds

stores == <<account, user, entity, userDoc, entityDoc>>
vars == <<stores, orderly, pc, req>>

Life == {"none", "live", "deleted"}
NoDoc == "no document"

\* A request may have a list of entities or users (relist); added and removed
\* are its difference from the list that was read.
Steps == {"idle", "openAccount", "createEntity", "indexEntity", "findEmail",
          "createUser", "indexUser", "linkUser", "linkEntity",
          "reindexUser", "writeUser", "addUser", "dropUser", "blankEmail",
          "reindexEntity", "writeEntity", "addEntity", "dropEntity",
          "unindexUser", "deleteUser", "unindexEntity", "deleteEntity", "closeAccount"}
NoReq == [user |-> NoUser, entity |-> NoEntity, email |-> Blank,
          relist |-> FALSE, list |-> {}, added |-> {}, removed |-> {}]

Init == /\ account = [n \in Entities |-> "none"]
        /\ user = [u \in Users |-> [life |-> "none", email |-> Blank, entities |-> {}]]
        /\ entity = [n \in Entities |-> [life |-> "none", users |-> {}]]
        /\ userDoc = [u \in Users |-> NoDoc]
        /\ entityDoc = {}
        /\ orderly = TRUE
        /\ pc = [w \in Workers |-> "idle"]
        /\ req = [w \in Workers |-> NoReq]

-----------------------------------------------------------------------------
Live(table) == {x \in DOMAIN table : table[x].life = "live"}
Unused(table) == {x \in DOMAIN table : table[x].life = "none"}

\* Users found by an email: it is looked up in lower case, and stored as typed.
FindByEmail(email) == {u \in Live(user) : user[u].email = Lower[email]}

Move(w, step, r) == /\ pc' = [pc EXCEPT ![w] = step]
                    /\ req' = [req EXCEPT ![w] = r]

Go(w, step, r) ==
    /\ Move(w, step, r)
    /\ orderly' = (orderly /\ (pc[w] = "idle" => \A v \in Workers : pc[v] = "idle"))

\* The path a failed call opens.
GoAstray(w, step, r) == StoresFail /\ Move(w, step, r) /\ orderly' = FALSE

Step(w, step) == Go(w, step, req[w])
Finish(w) == Go(w, "idle", NoReq)

Submit(w, step, r) == /\ pc[w] = "idle"
                      /\ Go(w, step, r)
                      /\ UNCHANGED stores

\* What was written stays written and nothing is undone.
Fail(w) == /\ pc[w] # "idle"
           /\ GoAstray(w, "idle", NoReq)
           /\ UNCHANGED stores

\* StringDiff on lists without duplicates.
Diff(r, new, old) == [r EXCEPT !.relist = TRUE, !.list = new,
                               !.added = new \ old, !.removed = old \ new]

-----------------------------------------------------------------------------
(* The links, each written in one collection.                              *)

\* Entity.AssociateUser and removeAssociatedUser: deleted entities too.
AssociateUser(ns, u) ==
    entity' = [n \in Entities |-> IF n \in ns /\ entity[n].life # "none"
                                  THEN [entity[n] EXCEPT !.users = @ \cup {u}] ELSE entity[n]]

RemoveAssociatedUser(ns, u) ==
    entity' = [n \in Entities |-> IF n \in ns
                                  THEN [entity[n] EXCEPT !.users = @ \ {u}] ELSE entity[n]]

\* Mutant: deleted users too.
AssociateEntityAll(us, n) ==
    user' = [u \in Users |-> IF u \in us
                             THEN [user[u] EXCEPT !.entities = @ \cup {n}] ELSE user[u]]

\* User.AssociateEntity and removeAssociatedEntity: users that are not deleted.
AssociateEntity(us, n) ==
    user' = [u \in Users |-> IF u \in us \cap Live(user)
                             THEN [user[u] EXCEPT !.entities = @ \cup {n}] ELSE user[u]]

RemoveAssociatedEntity(us, n) ==
    user' = [u \in Users |-> IF u \in us \cap Live(user)
                             THEN [user[u] EXCEPT !.entities = @ \ {n}] ELSE user[u]]

-----------------------------------------------------------------------------
(* Signup: an entity, a user, and their two links.                         *)

\* A look-up that fails counts as not found, here and below.
SubmitSignup(w, email) ==
    LET r == [NoReq EXCEPT !.email = email]
    IN  /\ pc[w] = "idle"
        /\ \/ FindByEmail(email) = {} /\ Go(w, "openAccount", r)
           \/ GoAstray(w, "openAccount", r)
        /\ UNCHANGED stores

OpenAccount(w) ==
    /\ pc[w] = "openAccount"
    /\ \E n \in Entities : /\ account[n] = "none"
                           /\ account' = [account EXCEPT ![n] = "open"]
                           /\ Go(w, "createEntity", [req[w] EXCEPT !.entity = n])
    /\ UNCHANGED <<user, entity, userDoc, entityDoc>>

CreateEntity(w) ==
    /\ pc[w] = "createEntity"
    /\ entity' = [entity EXCEPT ![req[w].entity] = [life |-> "live", users |-> {}]]
    /\ Step(w, "indexEntity")
    /\ UNCHANGED <<account, user, userDoc, entityDoc>>

IndexEntity(w) ==
    /\ pc[w] = "indexEntity"
    /\ entityDoc' = entityDoc \cup {req[w].entity}
    /\ Step(w, "findEmail")
    /\ UNCHANGED <<account, user, entity, userDoc>>

\* The email is looked up again; if it is found now, Create returns neither a
\* user nor an error and the handler panics.
FindEmail(w) ==
    /\ pc[w] = "findEmail"
    /\ \/ FindByEmail(req[w].email) = {} /\ Step(w, "createUser")
       \/ FindByEmail(req[w].email) # {} /\ Finish(w)
       \/ GoAstray(w, "createUser", req[w])
    /\ UNCHANGED stores

CreateUser(w) ==
    /\ pc[w] = "createUser"
    /\ \E u \in Unused(user) :
          /\ user' = [user EXCEPT ![u] = [life |-> "live", email |-> req[w].email, entities |-> {}]]
          /\ Go(w, "indexUser", [req[w] EXCEPT !.user = u])
    /\ UNCHANGED <<account, entity, userDoc, entityDoc>>

IndexUser(w) ==
    /\ pc[w] = "indexUser"
    /\ userDoc' = [userDoc EXCEPT ![req[w].user] = req[w].email]
    /\ Step(w, "linkUser")
    /\ UNCHANGED <<account, user, entity, entityDoc>>

LinkUser(w) ==
    /\ pc[w] = "linkUser"
    /\ AssociateUser({req[w].entity}, req[w].user)
    /\ Step(w, "linkEntity")
    /\ UNCHANGED <<account, user, userDoc, entityDoc>>

LinkEntity(w) ==
    /\ pc[w] = "linkEntity"
    /\ AssociateEntity({req[w].user}, req[w].entity)
    /\ Finish(w)
    /\ UNCHANGED <<account, entity, userDoc, entityDoc>>

-----------------------------------------------------------------------------
(* An admin updates a user: a new email, a new list of entities, or neither. *)

SubmitUserUpdate(w, u, email, list) ==
    LET r == [NoReq EXCEPT !.user = u, !.email = email]
    IN  /\ u \in Live(user)
        /\ list \subseteq Live(entity)
        /\ \E change \in {r, Diff(r, list, user[u].entities)} :
              Submit(w, "reindexUser", change)

\* The index gets the email of the request, given or not.
ReindexUser(w) ==
    /\ pc[w] = "reindexUser"
    /\ LET u == req[w].user
       IN  IF userDoc[u] # NoDoc
           THEN userDoc' = [userDoc EXCEPT ![u] = req[w].email] /\ Step(w, "writeUser")
           ELSE UNCHANGED userDoc /\ Finish(w)
    /\ UNCHANGED <<account, user, entity, entityDoc>>

WriteUser(w) ==
    /\ pc[w] = "writeUser"
    /\ LET r == req[w]
       IN  IF r.user \in Live(user)
           THEN /\ user' = [user EXCEPT ![r.user] =
                              [life |-> "live",
                               entities |-> IF r.relist THEN r.list ELSE @.entities,
                               email |-> IF r.email = Blank THEN @.email ELSE r.email]]
                /\ Step(w, "addUser")
           ELSE UNCHANGED user /\ Finish(w)
    /\ UNCHANGED <<account, entity, userDoc, entityDoc>>

AddUser(w) == /\ pc[w] = "addUser"
              /\ AssociateUser(req[w].added, req[w].user)
              /\ Step(w, "dropUser")
              /\ UNCHANGED <<account, user, userDoc, entityDoc>>

\* Mutant: the entities that stay lose the user.
DropUserOfKept(w) == /\ pc[w] = "dropUser"
                     /\ RemoveAssociatedUser(req[w].list \ req[w].added, req[w].user)
                     /\ Finish(w)
                     /\ UNCHANGED <<account, user, userDoc, entityDoc>>

DropUser(w) == /\ pc[w] = "dropUser"
               /\ RemoveAssociatedUser(req[w].removed, req[w].user)
               /\ Finish(w)
               /\ UNCHANGED <<account, user, userDoc, entityDoc>>

-----------------------------------------------------------------------------
(* A user updates its own names; the request has no email.                 *)

SubmitProfile(w, u) == /\ u \in Live(user)
                       /\ Submit(w, "blankEmail", [NoReq EXCEPT !.user = u])

\* The document written to the index has an empty email.  The collection, which
\* is written next, keeps its own.
BlankEmail(w) ==
    /\ pc[w] = "blankEmail"
    /\ LET u == req[w].user
       IN  userDoc' = IF userDoc[u] = NoDoc THEN userDoc ELSE [userDoc EXCEPT ![u] = Blank]
    /\ Finish(w)
    /\ UNCHANGED <<account, user, entity, entityDoc>>

-----------------------------------------------------------------------------
(* An admin updates an entity: a new list of users, or none.               *)

SubmitEntityUpdate(w, n, list) ==
    LET r == [NoReq EXCEPT !.entity = n]
    IN  /\ n \in Live(entity)
        /\ list \subseteq Live(user)
        /\ \E change \in {r, Diff(r, list, entity[n].users)} :
              Submit(w, "reindexEntity", change)

ReindexEntity(w) ==
    /\ pc[w] = "reindexEntity"
    /\ IF req[w].entity \in entityDoc THEN Step(w, "writeEntity") ELSE Finish(w)
    /\ UNCHANGED stores

\* An entity that is gone is passed over, and the users are linked all the same.
WriteEntity(w) ==
    /\ pc[w] = "writeEntity"
    /\ LET n == req[w].entity
       IN  entity' = IF req[w].relist /\ n \in Live(entity)
                     THEN [entity EXCEPT ![n].users = req[w].list] ELSE entity
    /\ Step(w, "addEntity")
    /\ UNCHANGED <<account, user, userDoc, entityDoc>>

AddEntity(w) == /\ pc[w] = "addEntity"
                /\ AssociateEntity(req[w].added, req[w].entity)
                /\ Step(w, "dropEntity")
                /\ UNCHANGED <<account, entity, userDoc, entityDoc>>

DropEntity(w) == /\ pc[w] = "dropEntity"
                 /\ RemoveAssociatedEntity(req[w].removed, req[w].entity)
                 /\ Finish(w)
                 /\ UNCHANGED <<account, entity, userDoc, entityDoc>>

-----------------------------------------------------------------------------
(* Deletions.  The links to be removed on the other side are taken from    *)
(* the list after it was emptied: none is.                                 *)

SubmitUserDeletion(w, u) == Submit(w, "unindexUser", [NoReq EXCEPT !.user = u])

\* Only a missing document is an error.
UnindexUser(w) ==
    /\ pc[w] = "unindexUser"
    /\ LET u == req[w].user
       IN  \/ /\ userDoc[u] = NoDoc
              /\ Finish(w) /\ UNCHANGED userDoc
           \/ /\ userDoc[u] # NoDoc
              /\ userDoc' = [userDoc EXCEPT ![u] = NoDoc] /\ Step(w, "deleteUser")
           \/ GoAstray(w, "deleteUser", req[w]) /\ UNCHANGED userDoc
    /\ UNCHANGED <<account, user, entity, entityDoc>>

DeleteUser(w) ==
    /\ pc[w] = "deleteUser"
    /\ LET u == req[w].user
       IN  user' = IF u \in Live(user)
                   THEN [user EXCEPT ![u].life = "deleted", ![u].entities = {}] ELSE user
    /\ Finish(w)
    /\ UNCHANGED <<account, entity, userDoc, entityDoc>>

\* The zero balance, required here, belongs to Transfers.
SubmitEntityDeletion(w, n) ==
    /\ n \in Live(entity)
    /\ Submit(w, "unindexEntity", [NoReq EXCEPT !.entity = n])

\* Mutant: a document that is missing is no error, as with users that fail.
UnindexEntityAnyway(w) ==
    /\ pc[w] = "unindexEntity"
    /\ entityDoc' = entityDoc \ {req[w].entity}
    /\ Step(w, "deleteEntity")
    /\ UNCHANGED <<account, user, entity, userDoc>>

UnindexEntity(w) ==
    /\ pc[w] = "unindexEntity"
    /\ IF req[w].entity \in entityDoc
       THEN entityDoc' = entityDoc \ {req[w].entity} /\ Step(w, "deleteEntity")
       ELSE UNCHANGED entityDoc /\ Finish(w)
    /\ UNCHANGED <<account, user, entity, userDoc>>

DeleteEntity(w) ==
    /\ pc[w] = "deleteEntity"
    /\ LET n == req[w].entity
       IN  IF n \in Live(entity)
           THEN /\ entity' = [entity EXCEPT ![n] = [life |-> "deleted", users |-> {}]]
                /\ Step(w, "closeAccount")
           ELSE UNCHANGED entity /\ Finish(w)
    /\ UNCHANGED <<account, user, userDoc, entityDoc>>

CloseAccount(w) ==
    /\ pc[w] = "closeAccount"
    /\ account' = [account EXCEPT ![req[w].entity] = "closed"]
    /\ Finish(w)
    /\ UNCHANGED <<user, entity, userDoc, entityDoc>>

-----------------------------------------------------------------------------
SubmitAny(w) ==
    \/ \E email \in Emails : SubmitSignup(w, email)
    \/ \E u \in Users, email \in Emails \cup {Blank}, list \in SUBSET Entities :
          SubmitUserUpdate(w, u, email, list)
    \/ \E n \in Entities, list \in SUBSET Users : SubmitEntityUpdate(w, n, list)
    \/ \E u \in Users : SubmitProfile(w, u) \/ SubmitUserDeletion(w, u)
    \/ \E n \in Entities : SubmitEntityDeletion(w, n)

Work(w) ==
    \/ OpenAccount(w) \/ CreateEntity(w) \/ IndexEntity(w) \/ FindEmail(w)
    \/ CreateUser(w) \/ IndexUser(w) \/ LinkUser(w) \/ LinkEntity(w)
    \/ ReindexUser(w) \/ WriteUser(w) \/ AddUser(w) \/ DropUser(w) \/ BlankEmail(w)
    \/ ReindexEntity(w) \/ WriteEntity(w) \/ AddEntity(w) \/ DropEntity(w)
    \/ UnindexUser(w) \/ DeleteUser(w)
    \/ UnindexEntity(w) \/ DeleteEntity(w) \/ CloseAccount(w)

Next == \E w \in Workers : SubmitAny(w) \/ Work(w) \/ Fail(w)

Spec == Init /\ [][Next]_vars

-----------------------------------------------------------------------------
Quiet == \A w \in Workers : pc[w] = "idle"

\* Every variable stays within its type.
TypeOK ==
    /\ account \in [Entities -> {"none", "open", "closed"}]
    /\ user \in [Users -> [life : Life, email : Emails \cup {Blank}, entities : SUBSET Entities]]
    /\ entity \in [Entities -> [life : Life, users : SUBSET Users]]
    /\ userDoc \in [Users -> Emails \cup {Blank, NoDoc}]
    /\ entityDoc \subseteq Entities
    /\ orderly \in BOOLEAN
    /\ pc \in [Workers -> Steps]

\* The two lists say the same of every user and entity that are not deleted,
\* between requests, as long as they came one at a time and no call failed.
ListsAgree ==
    Quiet /\ orderly => \A u \in Live(user), n \in Live(entity) :
                           n \in user[u].entities <=> u \in entity[n].users

\* A user that was deleted acts for no entity, whatever update or signup was
\* under way when it was deleted.
DeletedUserActsForNone ==
    \A u \in Users : user[u].life = "deleted" => user[u].entities = {}

\* The index never lists an entity that does not exist or was deleted: it is
\* fed after the collection and cleared before it, also by requests that fail.
ListedEntitiesLive == entityDoc \subseteq Live(entity)
=============================================================================

----------------------------- MODULE Categories -----------------------------
(***************************************************************************)
(* Categories: the collection, the categories each entity is listed under, *)
(* and their copy in the entities index.  Admins assign categories to      *)
(* entities and create, rename and delete them; a rename or a deletion     *)
(* spreads to the entities in a goroutine.  The restore program fills the  *)
(* index from the collection.  One action per store call; a worker is a    *)
(* request goroutine with the goroutine it starts, or the restore program. *)
(***************************************************************************)
EXTENDS Integers, FiniteSets

CONSTANTS Workers, Entities,
          Names,
          Format,      \* FormatTags and InputToTag on one name
          Ids,         \* the object ids that may be drawn (bound)
          NoName, NoId, NoEntity,
          Copies,      \* how often an entity may be listed under one name (bound)
          StoresFail   \* whether a store call may fail or the process stop

ASSUME CategoriesAssumption ==
    /\ Format \in [Names -> Names]
    /\ NoName \notin Names /\ NoId \notin Ids /\ NoEntity \notin Entities
    /\ Copies \in Nat \ {0} /\ StoresFail \in BOOLEAN

VARIABLES category,  \* categories collection
          failed,    \* history: whether a store call has failed
          respelt,   \* history: the names each entity was assigned in a spelling
                     \* that formatting changed, and not as they are stored
          entity,    \* entities collection: how often each is listed under what
          entityDoc, \* the same in the entities index
          pc,
          req        \* what each worker holds

stores == <<category, entity, entityDoc>>
history == <<failed, respelt>>
vars == <<stores, history, pc, req>>

Steps == {"idle", "writeList", "createAll", "create", "find", "rename", "renameDocs",
          "pushNew", "pullOld", "delete", "pullDocs", "pull", "restoreDoc"}
Life == {"unused", "live", "deleted"}
Listing == [Names -> 0..Copies]
Unlisted == [x \in Names |-> 0]
NoReq == [entity |-> NoEntity, names |-> {}, id |-> NoId,
          old |-> NoName, new |-> NoName, listing |-> Unlisted]

\* A signup names no category.
Init == /\ category = [i \in Ids |-> [life |-> "unused", name |-> NoName]]
        /\ entity = [n \in Entities |-> Unlisted]
        /\ entityDoc = [n \in Entities |-> Unlisted]
        /\ failed = FALSE /\ respelt = [n \in Entities |-> {}]
        /\ pc = [w \in Workers |-> "idle"]
        /\ req = [w \in Workers |-> NoReq]

-----------------------------------------------------------------------------
Live == {i \in Ids : category[i].life = "live"}
FindByName(x) == {i \in Live : category[i].name = x}

\* Mutant: every creation inserts.
UpsertedNew(x) == {i \in Ids : category[i].life = "unused"}

\* The documents an upsert by name may hit: one that has the name, or else a new one.
Upserted(x) == IF FindByName(x) # {} THEN FindByName(x)
               ELSE {i \in Ids : category[i].life = "unused"}

Under(table, x) == {n \in Entities : table[n][x] > 0}

Move(w, step, r) == /\ pc' = [pc EXCEPT ![w] = step]
                    /\ req' = [req EXCEPT ![w] = r]
Go(w, step, r) == Move(w, step, r) /\ UNCHANGED history

\* The path a failed call opens.
GoAstray(w, step, r) == /\ StoresFail
                        /\ Move(w, step, r)
                        /\ failed' = TRUE /\ UNCHANGED respelt

Step(w, step) == Go(w, step, req[w])
Finish(w) == Go(w, "idle", NoReq)

Submit(w, step, r) == /\ pc[w] = "idle"
                      /\ Go(w, step, r)
                      /\ UNCHANGED stores

\* The name must be new; a look-up that fails finds none.
SubmitNew(w, x, step, r) ==
    /\ pc[w] = "idle"
    /\ \/ FindByName(x) = {} /\ Go(w, step, r)
       \/ GoAstray(w, step, r)
    /\ UNCHANGED stores

\* What was written stays written and nothing is undone.
Fail(w) == /\ pc[w] # "idle"
           /\ GoAstray(w, "idle", NoReq)
           /\ UNCHANGED stores

-----------------------------------------------------------------------------
(* An admin assigns categories to an entity.                               *)

SubmitAssign(w, n, names) ==
    Submit(w, "writeList", [NoReq EXCEPT !.entity = n, !.names = names])

\* The index, which is written first, is given no categories.  The collection
\* gets the names formatted, whichever it had before.
WriteList(w) ==
    /\ pc[w] = "writeList"
    /\ LET n == req[w].entity
           formatted == {Format[x] : x \in req[w].names}
       IN  /\ entity' = [entity EXCEPT ![n] = [x \in Names |-> IF x \in formatted THEN 1 ELSE 0]]
           /\ respelt' = [respelt EXCEPT ![n] = formatted \ req[w].names]
    /\ Move(w, "createAll", req[w])
    /\ UNCHANGED <<category, entityDoc, failed>>

\* The goroutine creates them as typed.
CreateAll(w) ==
    /\ pc[w] = "createAll"
    /\ \/ /\ req[w].names = {}
          /\ Finish(w) /\ UNCHANGED category
       \/ \E x \in req[w].names : \E i \in Upserted(x) :
             /\ category' = [category EXCEPT ![i] = [life |-> "live", name |-> x]]
             /\ Go(w, "createAll", [req[w] EXCEPT !.names = @ \ {x}])
    /\ UNCHANGED <<entity, entityDoc>>

-----------------------------------------------------------------------------
(* An admin creates a category.                                            *)

SubmitCreate(w, x) ==
    SubmitNew(w, Format[x], "create", [NoReq EXCEPT !.new = Format[x]])

Create(w) ==
    /\ pc[w] = "create"
    /\ \E i \in Upserted(req[w].new) :
          category' = [category EXCEPT ![i] = [life |-> "live", name |-> req[w].new]]
    /\ Finish(w)
    /\ UNCHANGED <<entity, entityDoc>>

-----------------------------------------------------------------------------
(* An admin renames a category.                                            *)

SubmitRename(w, i, x) ==
    SubmitNew(w, Format[x], "find", [NoReq EXCEPT !.id = i, !.new = Format[x]])

Find(w) ==
    /\ pc[w] = "find"
    /\ LET i == req[w].id
       IN  IF i \in Live THEN Go(w, "rename", [req[w] EXCEPT !.old = category[i].name])
           ELSE Finish(w)
    /\ UNCHANGED stores

Rename(w) ==
    /\ pc[w] = "rename"
    /\ LET i == req[w].id
       IN  IF i \in Live
           THEN /\ category' = [category EXCEPT ![i].name = req[w].new]
                /\ Step(w, "renameDocs")
           ELSE UNCHANGED category /\ Finish(w)
    /\ UNCHANGED <<entity, entityDoc>>

\* A listing in which one copy of a name is replaced.
RenamedOnce(listing, old, new) ==
    LET rest == [listing EXCEPT ![old] = @ - 1]
    IN  [rest EXCEPT ![new] = @ + 1]

\* The goroutine.  In the index one copy of the name is replaced.
RenameDocs(w) ==
    /\ pc[w] = "renameDocs"
    /\ LET r == req[w]
       IN  /\ \A n \in Under(entityDoc, r.old) : entityDoc[n][r.new] < Copies
           /\ entityDoc' = [n \in Entities |->
                              IF n \in Under(entityDoc, r.old)
                              THEN RenamedOnce(entityDoc[n], r.old, r.new)
                              ELSE entityDoc[n]]
    /\ Step(w, "pushNew")
    /\ UNCHANGED <<category, entity>>

\* Mutant: the new name is not pushed.
PushNewNot(w) == /\ pc[w] = "pushNew"
                 /\ Step(w, "pullOld")
                 /\ UNCHANGED stores

\* In the collection the new name is pushed, then the old one is pulled.
PushNew(w) ==
    /\ pc[w] = "pushNew"
    /\ LET r == req[w]
       IN  /\ \A n \in Under(entity, r.old) : entity[n][r.new] < Copies
           /\ entity' = [n \in Entities |->
                           IF n \in Under(entity, r.old)
                           THEN [entity[n] EXCEPT ![r.new] = @ + 1] ELSE entity[n]]
    /\ Step(w, "pullOld")
    /\ UNCHANGED <<category, entityDoc>>

PullOld(w) ==
    /\ pc[w] = "pullOld"
    /\ entity' = [n \in Entities |-> [entity[n] EXCEPT ![req[w].old] = 0]]
    /\ Finish(w)
    /\ UNCHANGED <<category, entityDoc>>

-----------------------------------------------------------------------------
(* An admin deletes a category.                                            *)

SubmitDelete(w, i) == Submit(w, "delete", [NoReq EXCEPT !.id = i])

Delete(w) ==
    /\ pc[w] = "delete"
    /\ LET i == req[w].id
       IN  IF i \in Live
           THEN /\ category' = [category EXCEPT ![i] = [life |-> "deleted", name |-> NoName]]
                /\ Go(w, "pullDocs", [req[w] EXCEPT !.old = category[i].name])
           ELSE UNCHANGED category /\ Finish(w)
    /\ UNCHANGED <<entity, entityDoc>>

\* Mutant: one copy is taken from every document, listed or not.
PullDocsAll(w) ==
    /\ pc[w] = "pullDocs"
    /\ entityDoc' = [n \in Entities |-> [entityDoc[n] EXCEPT ![req[w].old] = @ - 1]]
    /\ Step(w, "pull")
    /\ UNCHANGED <<category, entity>>

\* The goroutine.  In the index one copy of the name is removed.
PullDocs(w) ==
    /\ pc[w] = "pullDocs"
    /\ LET listed == Under(entityDoc, req[w].old)
       IN  entityDoc' = [n \in Entities |->
                           IF n \in listed THEN [entityDoc[n] EXCEPT ![req[w].old] = @ - 1]
                           ELSE entityDoc[n]]
    /\ Step(w, "pull")
    /\ UNCHANGED <<category, entity>>

\* Mutant: nothing is pulled.
PullNot(w) == /\ pc[w] = "pull"
              /\ Finish(w)
              /\ UNCHANGED stores

Pull(w) ==
    /\ pc[w] = "pull"
    /\ entity' = [n \in Entities |-> [entity[n] EXCEPT ![req[w].old] = 0]]
    /\ Finish(w)
    /\ UNCHANGED <<category, entityDoc>>

-----------------------------------------------------------------------------
(* The restore program reads an entity from its cursor and writes it to the *)
(* index, whatever happened to it in between.                               *)

SubmitRestore(w, n) ==
    Submit(w, "restoreDoc", [NoReq EXCEPT !.entity = n, !.listing = entity[n]])

RestoreDoc(w) ==
    /\ pc[w] = "restoreDoc"
    /\ entityDoc' = [entityDoc EXCEPT ![req[w].entity] = req[w].listing]
    /\ Finish(w)
    /\ UNCHANGED <<category, entity>>

-----------------------------------------------------------------------------
SubmitAny(w) ==
    \/ \E n \in Entities : SubmitRestore(w, n) \/ \E names \in SUBSET Names : SubmitAssign(w, n, names)
    \/ \E x \in Names : SubmitCreate(w, x) \/ \E i \in Ids : SubmitRename(w, i, x)
    \/ \E i \in Ids : SubmitDelete(w, i)

Work(w) ==
    \/ WriteList(w) \/ CreateAll(w) \/ Create(w)
    \/ Find(w) \/ Rename(w) \/ RenameDocs(w) \/ PushNew(w) \/ PullOld(w)
    \/ Delete(w) \/ PullDocs(w) \/ Pull(w) \/ RestoreDoc(w)

Next == \E w \in Workers : SubmitAny(w) \/ Work(w) \/ Fail(w)

Spec == Init /\ [][Next]_vars

-----------------------------------------------------------------------------
Quiet == \A w \in Workers : pc[w] = "idle"
NamesOf(listing) == {x \in Names : listing[x] > 0}

\* Every variable stays within its type.
TypeOK ==
    /\ category \in [Ids -> [life : Life, name : Names \cup {NoName}]]
    /\ entity \in [Entities -> Listing] /\ entityDoc \in [Entities -> Listing]
    /\ failed \in BOOLEAN /\ respelt \in [Entities -> SUBSET Names]
    /\ pc \in [Workers -> Steps]

\* No two categories have the same name, as long as no look-up fails.
NamesUnique ==
    ~failed => \A i, j \in Live : category[i].name = category[j].name => i = j

\* Entities are listed under categories that exist, as long as no call fails, but
\* for what they were assigned in a spelling that formatting changes: that category
\* gets the name as it was typed, and no deletion or rename of it reaches them.
ListedExist ==
    Quiet /\ ~failed => \A n \in Entities :
                          \A x \in NamesOf(entity[n]) \ respelt[n] : FindByName(x) # {}

KeepsListed(w, n) ==
    pc[w] \in {"renameDocs", "pushNew", "pullOld"} /\ pc'[w] # pc[w] /\ n \in Under(entity, req[w].old)
    => NamesOf(entity'[n]) # {}

\* A rename leaves an entity that was listed under the old name listed, also
\* when it is given up half-way, unless a look-up that failed let a category
\* be renamed to the name it has.
RenamesKeepListed ==
    [][\A w \in Workers, n \in Entities : req[w].old # req[w].new => KeepsListed(w, n)]_vars
=============================================================================

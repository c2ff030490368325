-------------------------------- MODULE Tags --------------------------------
(***************************************************************************)
(* Tags: the collection and its index, and the offers and wants that each  *)
(* entity lists in its own document and in the entities index.  Updates of *)
(* entities announce the names they add; admins create, rename and delete  *)
(* tags, which spreads to the entities.  One action per store call.  A     *)
(* worker is a request goroutine together with the goroutine it starts.    *)
(***************************************************************************)
EXTENDS Integers, FiniteSets, Sequences

CONSTANTS Workers, Entities,
          Names,
          Formatted,   \* the names FormatTags and InputToTag return
          TagIds,      \* the object ids that may be drawn (bound)
          NoName, NoTag, NoEntity,
          Signups,     \* the offers and wants entities may sign up with (bound)
          Copies,      \* how often an entity may list one name (bound)
          StoresFail   \* whether a store call may fail or the process stop

Kinds == {"offers", "wants"}
Lists == [Kinds -> [Names -> 0..Copies]]

ASSUME TagsAssumption ==
    /\ Formatted \subseteq Names /\ NoName \notin Names
    /\ NoTag \notin TagIds /\ NoEntity \notin Entities
    /\ Copies \in Nat /\ Signups \subseteq Lists /\ StoresFail \in BOOLEAN

VARIABLES tag,       \* tags collection; dates: the kinds whose "added at" is set
          tagDoc,    \* tags index
          entity,    \* entities collection: accepted or not, and how often it lists what
          entityDoc, \* entities index: the names in each list
          pc,
          req,       \* what each worker holds
          failed,    \* history: whether a store call has failed
          twice      \* history: whether an entity has listed a name twice

entities == <<entity, entityDoc, twice>>
stores == <<tag, tagDoc, entities>>
vars == <<stores, pc, req, failed>>

Steps == {"idle", "reindexLists", "writeLists", "reread", "announce", "seekDoc", "newDoc", "dateDoc",
          "createTag", "indexTag", "findTag", "renameDoc", "renameTag", "renameNested",
          "renameOffers", "renameWants", "deleteDoc", "deleteTag", "pullNested", "pullTag"}
Life == {"unused", "live", "deleted"}
NoKind == "no kind"
Nothing == [k \in Kinds |-> {}]
Statuses == {"keep", "accept", "refuse"}
NoReq == [entity |-> NoEntity, status |-> "keep", accepted |-> FALSE,
          added |-> Nothing, removed |-> Nothing, todo |-> <<>>,
          tag |-> NoTag, kind |-> NoKind, old |-> NoName, new |-> NoName]
NoTags == [i \in TagIds |-> [life |-> "unused", name |-> NoName, dates |-> {}]]

\* Whether an entity lists a name twice.
Doubled(e) == \E n \in Entities, k \in Kinds, x \in Names : e[n].lists[k][x] > 1

\* Entities as they signed up: the names are stored as typed, and not announced.
Init == /\ tag = NoTags
        /\ tagDoc = NoTags
        /\ \E lists \in [Entities -> Signups] :
              /\ entity = [n \in Entities |-> [accepted |-> FALSE, lists |-> lists[n]]]
              /\ entityDoc = [n \in Entities |->
                                [k \in Kinds |-> {x \in Names : lists[n][k][x] > 0}]]
        /\ pc = [w \in Workers |-> "idle"]
        /\ req = [w \in Workers |-> NoReq]
        /\ failed = FALSE
        /\ twice = Doubled(entity)

-----------------------------------------------------------------------------
Live(table) == {i \in TagIds : table[i].life = "live"}

\* Mutant: only tags with an offer are found.
FindByNameOffered(x) == {i \in Live(tag) : tag[i].name = x /\ "offers" \in tag[i].dates}

FindByName(x) == {i \in Live(tag) : tag[i].name = x}

\* The documents an upsert by name may hit: one that has the name, or else a new one.
Upserted(x) == IF FindByName(x) # {} THEN FindByName(x)
               ELSE {i \in TagIds : tag[i].life = "unused"}

NamesOf(list) == {x \in Names : list[x] > 0}

Move(w, step, r) == /\ pc' = [pc EXCEPT ![w] = step]
                    /\ req' = [req EXCEPT ![w] = r]
Go(w, step, r) == Move(w, step, r) /\ UNCHANGED failed
GoOnFailed(w, step, r) == StoresFail /\ Move(w, step, r) /\ failed' = TRUE
Step(w, step) == Go(w, step, req[w])
Finish(w) == Go(w, "idle", NoReq)

Submit(w, step, r) == /\ pc[w] = "idle"
                      /\ Go(w, step, r)
                      /\ UNCHANGED stores

\* A request is let in because nothing has the name, or the look-up failed, which
\* counts as not found.
SubmitNew(w, step, r) == /\ pc[w] = "idle"
                         /\ \/ FindByName(r.new) = {} /\ Go(w, step, r)
                            \/ GoOnFailed(w, step, r)
                         /\ UNCHANGED stores

\* What was written stays written and nothing is undone.
Fail(w) == /\ pc[w] # "idle"
           /\ GoOnFailed(w, "idle", NoReq)
           /\ UNCHANGED stores

-----------------------------------------------------------------------------
(* An update of an entity by its user or by an admin: new lists, and from   *)
(* an admin also a status.                                                  *)

\* StringDiff(FormatTags(list), old): what is listed twice counts once.
SubmitUpdate(w, n, change, status) ==
    LET old == [k \in Kinds |-> NamesOf(entity[n].lists[k])]
        new == [k \in Kinds |-> IF k \in DOMAIN change THEN change[k] ELSE old[k]]
    IN  Submit(w, "reindexLists",
               [NoReq EXCEPT !.entity = n, !.status = status, !.accepted = entity[n].accepted,
                             !.added = [k \in Kinds |-> new[k] \ old[k]],
                             !.removed = [k \in Kinds |-> old[k] \ new[k]]])

\* The lists of entities are written.
SetEntities(e) == /\ entity' = e
                  /\ twice' = (twice \/ Doubled(e))

Accepted(e, r) == IF r.status = "keep" THEN e.accepted ELSE r.status = "accept"

ReindexLists(w) ==
    /\ pc[w] = "reindexLists"
    /\ LET r == req[w]
       IN  entityDoc' = [entityDoc EXCEPT ![r.entity] =
                           [k \in Kinds |-> (@[k] \ r.removed[k]) \cup r.added[k]]]
    /\ Step(w, "writeLists")
    /\ UNCHANGED <<tag, tagDoc, entity, twice>>

\* One bulk write: the status, then $push, then $pull of every copy.
WriteLists(w) ==
    /\ pc[w] = "writeLists"
    /\ LET r == req[w]
       IN  /\ \A k \in Kinds : \A x \in r.added[k] : entity[r.entity].lists[k][x] < Copies
           /\ SetEntities([entity EXCEPT ![r.entity] =
                 [accepted |-> Accepted(@, r),
                  lists |-> [k \in Kinds |-> [x \in Names |->
                     IF x \in r.removed[k] THEN 0
                     ELSE @.lists[k][x] + IF x \in r.added[k] THEN 1 ELSE 0]]]])
          /\ Go(w, "reread", [NoReq EXCEPT !.entity = r.entity, !.accepted = r.accepted,
                                           !.added = IF r.accepted THEN r.added ELSE Nothing])
    /\ UNCHANGED <<tag, tagDoc, entityDoc>>

\* Mutant: an entity that has become accepted announces its names as wants.
RereadAsWants(w) ==
    /\ pc[w] = "reread"
    /\ LET r == req[w]
           now == entity[r.entity]
           batch(kind, names) == [kind |-> kind, names |-> names]
           todo == IF r.accepted
                   THEN <<batch("offers", r.added["offers"]), batch("wants", r.added["wants"])>>
                   ELSE <<batch("wants", NamesOf(now.lists["offers"])),
                          batch("wants", NamesOf(now.lists["wants"]))>>
       IN  IF now.accepted THEN Go(w, "announce", [NoReq EXCEPT !.todo = todo]) ELSE Finish(w)
    /\ UNCHANGED stores

\* UpdateOfferAndWants: an entity that has become accepted announces all its
\* names, its wants as offers too; one that was accepted what was added.
Reread(w) ==
    /\ pc[w] = "reread"
    /\ LET r == req[w]
           now == entity[r.entity]
           batch(kind, names) == [kind |-> kind, names |-> names]
           todo == IF r.accepted
                   THEN <<batch("offers", r.added["offers"]), batch("wants", r.added["wants"])>>
                   ELSE <<batch("offers", NamesOf(now.lists["offers"])),
                          batch("offers", NamesOf(now.lists["wants"]))>>
       IN  IF now.accepted THEN Go(w, "announce", [NoReq EXCEPT !.todo = todo]) ELSE Finish(w)
    /\ UNCHANGED stores

\* The names of a list are announced one after the other, an error ends the list.
NextList(w) == Go(w, "announce", [NoReq EXCEPT !.todo = Tail(req[w].todo)])
ListFails(w) == GoOnFailed(w, "announce", [NoReq EXCEPT !.todo = Tail(req[w].todo)])
Seek(w, i, x, kind) ==
    Go(w, "seekDoc", [NoReq EXCEPT !.tag = i, !.new = x, !.kind = kind,
                                   !.todo = [req[w].todo EXCEPT ![1].names = @ \ {x}]])

\* Mutant: the date of the other kind is set.
AnnounceSwapped(w) ==
    /\ pc[w] = "announce"
    /\ req[w].todo # <<>>
    /\ LET list == Head(req[w].todo)
           other == IF list.kind = "offers" THEN "wants" ELSE "offers"
       IN  \/ list.names = {} /\ NextList(w) /\ UNCHANGED tag
           \/ \E x \in list.names : \E i \in Upserted(x) :
                 /\ tag' = [tag EXCEPT ![i] = [life |-> "live", name |-> x,
                                               dates |-> @.dates \cup {other}]]
                 /\ Seek(w, i, x, list.kind)
    /\ UNCHANGED <<tagDoc, entities>>

\* mongo UpdateOffer and UpdateWant.
Announce(w) ==
    /\ pc[w] = "announce"
    /\ req[w].todo # <<>>
    /\ LET list == Head(req[w].todo)
       IN  \/ list.names = {} /\ NextList(w) /\ UNCHANGED tag
           \/ ListFails(w) /\ UNCHANGED tag
           \/ \E x \in list.names : \E i \in Upserted(x) :
                 /\ tag' = [tag EXCEPT ![i] = [life |-> "live", name |-> x,
                                               dates |-> @.dates \cup {list.kind}]]
                 /\ Seek(w, i, x, list.kind)
    /\ UNCHANGED <<tagDoc, entities>>

Announced(w) == /\ pc[w] = "announce"
                /\ req[w].todo = <<>>
                /\ Finish(w)
                /\ UNCHANGED stores

SeekDoc(w) ==
    /\ pc[w] = "seekDoc"
    /\ \/ Step(w, IF req[w].tag \in Live(tagDoc) THEN "dateDoc" ELSE "newDoc")
       \/ ListFails(w)
    /\ UNCHANGED stores

\* A document that was missing is written whole.
NewDoc(w) ==
    /\ pc[w] = "newDoc"
    /\ \/ /\ tagDoc' = [tagDoc EXCEPT ![req[w].tag] = [life |-> "live", name |-> req[w].new,
                                                       dates |-> {req[w].kind}]]
          /\ Step(w, "announce")
       \/ ListFails(w) /\ UNCHANGED tagDoc
    /\ UNCHANGED <<tag, entities>>

\* One that was there gets a date; if it is gone by now, that is an error.
DateDoc(w) ==
    /\ pc[w] = "dateDoc"
    /\ LET i == req[w].tag
       IN  \/ /\ i \in Live(tagDoc)
              /\ tagDoc' = [tagDoc EXCEPT ![i] = [life |-> "live", name |-> @.name,
                                                  dates |-> @.dates \cup {req[w].kind}]]
              /\ Step(w, "announce")
           \/ i \notin Live(tagDoc) /\ NextList(w) /\ UNCHANGED tagDoc
           \/ ListFails(w) /\ UNCHANGED tagDoc
    /\ UNCHANGED <<tag, entities>>

-----------------------------------------------------------------------------
(* An admin creates a tag.                                                 *)

SubmitCreate(w, x) == SubmitNew(w, "createTag", [NoReq EXCEPT !.new = x])

CreateTag(w) ==
    /\ pc[w] = "createTag"
    /\ \E i \in Upserted(req[w].new) :
          /\ tag' = [tag EXCEPT ![i] = [life |-> "live", name |-> req[w].new, dates |-> @.dates]]
          /\ Go(w, "indexTag", [req[w] EXCEPT !.tag = i])
    /\ UNCHANGED <<tagDoc, entities>>

\* The document is written whole, without dates.
IndexTag(w) ==
    /\ pc[w] = "indexTag"
    /\ tagDoc' = [tagDoc EXCEPT ![req[w].tag] = [life |-> "live", name |-> req[w].new, dates |-> {}]]
    /\ Finish(w)
    /\ UNCHANGED <<tag, entities>>

-----------------------------------------------------------------------------
(* An admin renames a tag.                                                 *)

SubmitRename(w, i, x) == SubmitNew(w, "findTag", [NoReq EXCEPT !.tag = i, !.new = x])

FindTag(w) ==
    /\ pc[w] = "findTag"
    /\ LET i == req[w].tag
       IN  IF i \in Live(tag) THEN Go(w, "renameDoc", [req[w] EXCEPT !.old = tag[i].name])
           ELSE Finish(w)
    /\ UNCHANGED stores

\* Mutant: the index keeps the old name.
RenameDocNot(w) == /\ pc[w] = "renameDoc"
                   /\ Step(w, "renameTag")
                   /\ UNCHANGED stores

RenameDoc(w) ==
    /\ pc[w] = "renameDoc"
    /\ LET i == req[w].tag
       IN  IF i \in Live(tagDoc)
           THEN /\ tagDoc' = [tagDoc EXCEPT ![i] = [life |-> "live", name |-> req[w].new,
                                                   dates |-> @.dates]]
                /\ Step(w, "renameTag")
           ELSE UNCHANGED tagDoc /\ Finish(w)
    /\ UNCHANGED <<tag, entities>>

RenameTag(w) ==
    /\ pc[w] = "renameTag"
    /\ LET i == req[w].tag
       IN  IF i \in Live(tag)
           THEN /\ tag' = [tag EXCEPT ![i] = [life |-> "live", name |-> req[w].new,
                                             dates |-> @.dates]]
                /\ Step(w, "renameNested")
           ELSE UNCHANGED tag /\ Finish(w)
    /\ UNCHANGED <<tagDoc, entities>>

\* The goroutine.  The entities index is searched by a plain query on fields that
\* are nested, which matches no document.
RenameNested(w) == /\ pc[w] = "renameNested"
                   /\ Step(w, "renameOffers")
                   /\ UNCHANGED stores

\* A list in which one copy of a name is renamed.
RenamedOnce(list, old, new) ==
    LET rest == [list EXCEPT ![old] = @ - 1]
    IN  [rest EXCEPT ![new] = @ + 1]

\* Mutant: entities that do not list the name are renamed, too.
RenameInAll(kind, old, new) ==
    /\ SetEntities([n \in Entities |->
          [entity[n] EXCEPT !.lists[kind] = RenamedOnce(@, old, new)]])
    /\ UNCHANGED <<tag, tagDoc, entityDoc>>

\* In the collection the first copy in each entity is renamed.
RenameIn(kind, old, new) ==
    LET listed == {n \in Entities : entity[n].lists[kind][old] > 0}
    IN  /\ \A n \in listed : entity[n].lists[kind][new] < Copies
        /\ SetEntities([n \in Entities |->
              IF n \in listed
              THEN [entity[n] EXCEPT !.lists[kind] = RenamedOnce(@, old, new)]
              ELSE entity[n]])
        /\ UNCHANGED <<tag, tagDoc, entityDoc>>

RenameOffers(w) == /\ pc[w] = "renameOffers"
                   /\ RenameIn("offers", req[w].old, req[w].new)
                   /\ Step(w, "renameWants")

RenameWants(w) == /\ pc[w] = "renameWants"
                  /\ RenameIn("wants", req[w].old, req[w].new)
                  /\ Finish(w)

-----------------------------------------------------------------------------
(* An admin deletes a tag.                                                 *)

SubmitDelete(w, i) == Submit(w, "deleteDoc", [NoReq EXCEPT !.tag = i])

\* A document that is missing is an error.
DeleteDoc(w) ==
    /\ pc[w] = "deleteDoc"
    /\ LET i == req[w].tag
       IN  IF i \in Live(tagDoc)
           THEN /\ tagDoc' = [tagDoc EXCEPT ![i] = [life |-> "deleted", name |-> NoName, dates |-> {}]]
                /\ Step(w, "deleteTag")
           ELSE UNCHANGED tagDoc /\ Finish(w)
    /\ UNCHANGED <<tag, entities>>

DeleteTag(w) ==
    /\ pc[w] = "deleteTag"
    /\ LET i == req[w].tag
       IN  IF i \in Live(tag)
           THEN /\ tag' = [tag EXCEPT ![i] = [life |-> "deleted", name |-> NoName, dates |-> {}]]
                /\ Go(w, "pullNested", [req[w] EXCEPT !.old = tag[i].name])
           ELSE UNCHANGED tag /\ Finish(w)
    /\ UNCHANGED <<tagDoc, entities>>

\* The goroutine.  Again no document is found.
PullNested(w) == /\ pc[w] = "pullNested"
                 /\ Step(w, "pullTag")
                 /\ UNCHANGED stores

\* Mutant: only the offers are pulled.
PullTagOffers(w) ==
    /\ pc[w] = "pullTag"
    /\ SetEntities([n \in Entities |-> [entity[n] EXCEPT !.lists["offers"][req[w].old] = 0]])
    /\ Finish(w)
    /\ UNCHANGED <<tag, tagDoc, entityDoc>>

\* In the collection every copy is pulled.
PullTag(w) ==
    /\ pc[w] = "pullTag"
    /\ SetEntities([n \in Entities |-> [entity[n] EXCEPT !.lists["offers"][req[w].old] = 0,
                                                         !.lists["wants"][req[w].old] = 0]])
    /\ Finish(w)
    /\ UNCHANGED <<tag, tagDoc, entityDoc>>

-----------------------------------------------------------------------------
Changes == UNION {[ks -> SUBSET Formatted] : ks \in SUBSET Kinds}

SubmitAny(w) ==
    \/ \E n \in Entities, change \in Changes, status \in Statuses :
          SubmitUpdate(w, n, change, status)
    \/ \E x \in Formatted : SubmitCreate(w, x) \/ \E i \in TagIds : SubmitRename(w, i, x)
    \/ \E i \in TagIds : SubmitDelete(w, i)

Work(w) ==
    \/ ReindexLists(w) \/ WriteLists(w) \/ Reread(w)
    \/ Announce(w) \/ Announced(w) \/ SeekDoc(w) \/ NewDoc(w) \/ DateDoc(w)
    \/ CreateTag(w) \/ IndexTag(w)
    \/ FindTag(w) \/ RenameDoc(w) \/ RenameTag(w)
    \/ RenameNested(w) \/ RenameOffers(w) \/ RenameWants(w)
    \/ DeleteDoc(w) \/ DeleteTag(w) \/ PullNested(w) \/ PullTag(w)

Next == \E w \in Workers : SubmitAny(w) \/ Work(w) \/ Fail(w)

Spec == Init /\ [][Next]_vars

-----------------------------------------------------------------------------
Quiet == \A w \in Workers : pc[w] = "idle"

Dated == [life : Life, name : Names \cup {NoName}, dates : SUBSET Kinds]

\* Every variable stays within its type.
TypeOK ==
    /\ tag \in [TagIds -> Dated] /\ tagDoc \in [TagIds -> Dated]
    /\ entity \in [Entities -> [accepted : BOOLEAN, lists : Lists]]
    /\ entityDoc \in [Entities -> [Kinds -> SUBSET Names]]
    /\ pc \in [Workers -> Steps]
    /\ failed \in BOOLEAN /\ twice \in BOOLEAN

\* Until a call fails, no two tags have the same name.
NamesUnique == failed \/ \A i, j \in Live(tag) : tag[i].name = tag[j].name => i = j

\* Wherever a request stops, the index has no tag that the collection has not; and
\* until a call fails it has all of them, with their names and dates.
TagsIndexed == /\ Live(tagDoc) \subseteq Live(tag)
               /\ Quiet => failed \/ tag = tagDoc

\* Until a call fails or a name is listed twice, of which a rename changes the first
\* copy only, what an accepted entity lists is a tag.
ListedNamesAreTags ==
    Quiet => failed \/ twice \/ \A n \in Entities, k \in Kinds : entity[n].accepted =>
                          \A x \in NamesOf(entity[n].lists[k]) : FindByName(x) # {}

\* Until a call fails or a name is listed twice, what accepted entities offer was
\* announced as an offer, so that the daily email of those who want it finds it.
OffersAnnounced ==
    Quiet => failed \/ twice \/ \A n \in Entities : entity[n].accepted =>
                          \A x \in NamesOf(entity[n].lists["offers"]) :
                             \E i \in FindByName(x) : "offers" \in tagDoc[i].dates

\* The index never announces an offer or a want that the collection does not,
\* unless the tag was deleted meanwhile.
DatesBacked == \A i \in TagIds : tag[i].life # "deleted" => tagDoc[i].dates \subseteq tag[i].dates
=============================================================================

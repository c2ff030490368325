----------------------------- MODULE TagsProofs -----------------------------
(* The tags, what their index announces and what entities list: types,      *)
(* dates and names for any number of requests that may fail anywhere, the   *)
(* rest for one at a time.                                                  *)
EXTENDS Tags, SequenceTheorems, TLAPS

USE DEF Go, GoOnFailed

Dating(w) == pc[w] \in {"seekDoc", "newDoc", "dateDoc"}

\* Whoever is about to date a document has dated the tag, or the tag is gone.
Backed(w) == Dating(w) => \/ tag[req[w].tag].life = "deleted"
                          \/ req[w].kind \in tag[req[w].tag].dates

BackedDates == /\ DOMAIN tag = TagIds /\ DOMAIN tagDoc = TagIds
               /\ DOMAIN pc = Workers /\ DOMAIN req = Workers
               /\ DatesBacked
               /\ \A w \in Workers : Dating(w) => req[w].tag \in TagIds
               /\ \A w \in Workers : Backed(w)

\* What tags may undergo: dates are only added, unless the tag is deleted, and
\* a deleted tag stays deleted.
TagsGrow == /\ DOMAIN tag' = TagIds
            /\ \A i \in TagIds : \/ tag'[i].life = "deleted"
                                 \/ tag[i].life # "deleted" /\ tag[i].dates \subseteq tag'[i].dates

LEMMA UpsertedAlive == ASSUME NEW x, NEW i \in Upserted(x)
                       PROVE  i \in TagIds /\ tag[i].life # "deleted"
BY DEF Upserted, FindByName, Live

\* A step in which a worker does not set out to date a document, tags only grow
\* and documents do not change, keeps the invariant.
LEMMA Aside ==
    ASSUME BackedDates, NEW w \in Workers, NEW step, NEW r, Move(w, step, r),
           TagsGrow, UNCHANGED tagDoc,
           \/ step \notin {"seekDoc", "newDoc", "dateDoc"}
           \/ Dating(w) /\ r = req[w]
    PROVE  BackedDates'
<1>1. DatesBacked'
  BY DEF BackedDates, DatesBacked, TagsGrow
<1>2. ASSUME NEW v \in Workers, Dating(v)' PROVE Dating(v) /\ req'[v] = req[v]
  BY <1>2 DEF BackedDates, Move, Dating
<1> QED
  BY <1>1, <1>2 DEF BackedDates, TagsGrow, Backed, Move

-----------------------------------------------------------------------------
(* The steps that change a tag or a document.                              *)

LEMMA AnnounceStep == ASSUME BackedDates, NEW w \in Workers, Announce(w) PROVE BackedDates'
<1> DEFINE list == Head(req[w].todo)
<1>1. CASE (NextList(w) \/ ListFails(w)) /\ UNCHANGED tag /\ UNCHANGED tagDoc
  <2>1. TagsGrow
    BY <1>1 DEF TagsGrow, BackedDates
  <2> QED
    BY <1>1, <2>1, Aside DEF NextList, ListFails
<1>2. ASSUME NEW x, NEW i \in Upserted(x), UNCHANGED tagDoc, Seek(w, i, x, list.kind),
             tag' = [tag EXCEPT ![i] = [life |-> "live", name |-> x,
                                        dates |-> @.dates \cup {list.kind}]]
      PROVE  BackedDates'
  <2> DEFINE kind == list.kind
             r == [NoReq EXCEPT !.tag = i, !.new = x, !.kind = kind,
                                !.todo = [req[w].todo EXCEPT ![1].names = @ \ {x}]]
  <2>1. r.tag = i /\ r.kind = kind
    BY DEF NoReq
  <2>2. i \in TagIds /\ tag[i].life # "deleted"
    BY <1>2, UpsertedAlive
  <2>3. pc' = [pc EXCEPT ![w] = "seekDoc"] /\ req' = [req EXCEPT ![w] = r]
    BY <1>2 DEF Seek, Move
  <2> HIDE DEF r, kind
  <2>4. /\ DOMAIN tag' = TagIds
        /\ tag'[i].dates = tag[i].dates \cup {kind}
        /\ \A j \in TagIds \ {i} : tag'[j] = tag[j]
        /\ tag[i].dates \subseteq tag'[i].dates
    BY <1>2, <2>2 DEF BackedDates, kind
  <2>5. DatesBacked'
    BY <1>2, <2>2, <2>4 DEF BackedDates, DatesBacked
  <2>6. ASSUME NEW v \in Workers, Dating(v)' PROVE req'[v].tag \in TagIds /\ Backed(v)'
    <3>1. CASE v = w
      BY <2>1, <2>2, <2>3, <2>4, <3>1 DEF BackedDates, Backed
    <3>2. CASE v # w
      BY <2>2, <2>3, <2>4, <2>6, <3>2 DEF BackedDates, Backed, Dating
    <3> QED
      BY <3>1, <3>2
  <2> QED
    BY <1>2, <2>3, <2>4, <2>5, <2>6 DEF BackedDates, Backed
<1> QED
  BY <1>1, <1>2 DEF Announce

\* Writing a document: its dates are ones the tag has, or the tag is gone.
LEMMA DocStep ==
    ASSUME BackedDates, NEW w \in Workers, NEW step, NEW r, Move(w, step, r), UNCHANGED tag,
           step \notin {"seekDoc", "newDoc", "dateDoc"},
           DOMAIN tagDoc' = TagIds,
           \A i \in TagIds : \/ tag[i].life = "deleted"
                             \/ tagDoc'[i].dates \subseteq tag[i].dates
    PROVE  BackedDates'
<1>1. DatesBacked'
  BY DEF DatesBacked
<1>2. ASSUME NEW v \in Workers, Dating(v)' PROVE Dating(v) /\ req'[v] = req[v]
  BY <1>2 DEF BackedDates, Move, Dating
<1> QED
  BY <1>1, <1>2 DEF BackedDates, Backed, Move

LEMMA NewDocStep == ASSUME BackedDates, NEW w \in Workers, NewDoc(w) PROVE BackedDates'
<1>1. CASE (NextList(w) \/ ListFails(w)) /\ UNCHANGED tagDoc
  BY <1>1, DocStep DEF NewDoc, NextList, ListFails, BackedDates, DatesBacked
<1>2. CASE /\ Step(w, "announce")
           /\ tagDoc' = [tagDoc EXCEPT ![req[w].tag] = [life |-> "live", name |-> req[w].new,
                                                        dates |-> {req[w].kind}]]
  <2>1. Dating(w)
    BY DEF NewDoc, Dating
  <2>2. \A i \in TagIds : \/ tag[i].life = "deleted"
                          \/ tagDoc'[i].dates \subseteq tag[i].dates
    BY <1>2, <2>1 DEF BackedDates, DatesBacked, Backed
  <2> QED
    BY <1>2, <2>2, DocStep DEF NewDoc, Step, BackedDates
<1> QED
  BY <1>1, <1>2 DEF NewDoc

LEMMA DateDocStep == ASSUME BackedDates, NEW w \in Workers, DateDoc(w) PROVE BackedDates'
<1>1. CASE (NextList(w) \/ ListFails(w)) /\ UNCHANGED tagDoc
  BY <1>1, DocStep DEF DateDoc, NextList, ListFails, BackedDates, DatesBacked
<1>2. CASE /\ Step(w, "announce")
           /\ tagDoc' = [tagDoc EXCEPT ![req[w].tag] = [life |-> "live", name |-> @.name,
                                                   dates |-> @.dates \cup {req[w].kind}]]
  <2>1. Dating(w)
    BY DEF DateDoc, Dating
  <2>2. \A i \in TagIds : \/ tag[i].life = "deleted"
                          \/ tagDoc'[i].dates \subseteq tag[i].dates
    BY <1>2, <2>1 DEF BackedDates, DatesBacked, Backed
  <2> QED
    BY <1>2, <2>2, DocStep DEF DateDoc, Step, BackedDates
<1> QED
  BY <1>1, <1>2 DEF DateDoc

\* A document written without dates, renamed or deleted.
LEMMA OtherDocStep ==
    ASSUME BackedDates, NEW w \in Workers, IndexTag(w) \/ RenameDoc(w) \/ DeleteDoc(w)
    PROVE  BackedDates'
<1> USE DEF BackedDates, DatesBacked
<1>1. CASE IndexTag(w)
  BY <1>1, DocStep DEF IndexTag, Finish
<1>2. CASE RenameDoc(w)
  <2>1. CASE req[w].tag \in Live(tagDoc)
    BY <1>2, <2>1, DocStep DEF RenameDoc, Step
  <2>2. CASE req[w].tag \notin Live(tagDoc)
    BY <1>2, <2>2, DocStep DEF RenameDoc, Finish
  <2> QED
    BY <2>1, <2>2
<1>3. CASE DeleteDoc(w)
  <2>1. CASE req[w].tag \in Live(tagDoc)
    BY <1>3, <2>1, DocStep DEF DeleteDoc, Step
  <2>2. CASE req[w].tag \notin Live(tagDoc)
    BY <1>3, <2>2, DocStep DEF DeleteDoc, Finish
  <2> QED
    BY <2>1, <2>2
<1> QED
  BY <1>1, <1>2, <1>3

\* A tag created, renamed or deleted.
LEMMA OtherTagStep ==
    ASSUME BackedDates, NEW w \in Workers, CreateTag(w) \/ RenameTag(w) \/ DeleteTag(w)
    PROVE  BackedDates'
<1>1. CASE CreateTag(w)
  <2>1. PICK i \in Upserted(req[w].new) :
           /\ tag' = [tag EXCEPT ![i] = [life |-> "live", name |-> req[w].new, dates |-> @.dates]]
           /\ Go(w, "indexTag", [req[w] EXCEPT !.tag = i])
    BY <1>1 DEF CreateTag
  <2>2. TagsGrow
    BY <2>1, UpsertedAlive DEF TagsGrow, BackedDates
  <2> QED
    BY <1>1, <2>1, <2>2, Aside DEF CreateTag
<1>2. CASE RenameTag(w)
  <2>1. TagsGrow
    BY <1>2 DEF RenameTag, TagsGrow, BackedDates, Live
  <2>2. CASE req[w].tag \in Live(tag)
    BY <1>2, <2>1, <2>2, Aside DEF RenameTag, Step
  <2>3. CASE req[w].tag \notin Live(tag)
    BY <1>2, <2>1, <2>3, Aside DEF RenameTag, Finish
  <2> QED
    BY <2>2, <2>3
<1>3. CASE DeleteTag(w)
  <2>1. TagsGrow
    BY <1>3 DEF DeleteTag, TagsGrow, BackedDates, Live
  <2>2. CASE req[w].tag \in Live(tag)
    BY <1>3, <2>1, <2>2, Aside DEF DeleteTag
  <2>3. CASE req[w].tag \notin Live(tag)
    BY <1>3, <2>1, <2>3, Aside DEF DeleteTag, Finish
  <2> QED
    BY <2>2, <2>3
<1> QED
  BY <1>1, <1>2, <1>3

-----------------------------------------------------------------------------
(* The steps that leave the tags and their documents alone.                *)

LEMMA QuietStep ==
    ASSUME BackedDates, NEW w \in Workers, NEW step, NEW r, Move(w, step, r), UNCHANGED <<tag, tagDoc>>,
           \/ step \notin {"seekDoc", "newDoc", "dateDoc"}
           \/ Dating(w) /\ r = req[w]
    PROVE  BackedDates'
<1>1. TagsGrow
  BY DEF TagsGrow, BackedDates
<1> QED
  BY <1>1, Aside

LEMMA SubmitStep == ASSUME BackedDates, NEW w \in Workers, SubmitAny(w) PROVE BackedDates'
<1>1. ASSUME NEW n, NEW change, NEW status, SubmitUpdate(w, n, change, status)
      PROVE  BackedDates'
  BY <1>1, QuietStep DEF SubmitUpdate, Submit, stores
<1>2. ASSUME NEW x, SubmitCreate(w, x) PROVE BackedDates'
  BY <1>2, QuietStep DEF SubmitCreate, SubmitNew, stores
<1>3. ASSUME NEW x, NEW i, SubmitRename(w, i, x) PROVE BackedDates'
  BY <1>3, QuietStep DEF SubmitRename, SubmitNew, stores
<1>4. ASSUME NEW i, SubmitDelete(w, i) PROVE BackedDates'
  BY <1>4, QuietStep DEF SubmitDelete, Submit, stores
<1> QED
  BY <1>1, <1>2, <1>3, <1>4 DEF SubmitAny

LEMMA UpdateSteps ==
    ASSUME BackedDates, NEW w \in Workers,
           ReindexLists(w) \/ WriteLists(w) \/ Reread(w) \/ Announced(w) \/ SeekDoc(w)
    PROVE  BackedDates'
<1>1. CASE ReindexLists(w)
  BY <1>1, QuietStep DEF ReindexLists, Step
<1>2. CASE WriteLists(w)
  BY <1>2, QuietStep DEF WriteLists
<1>3. CASE Reread(w)
  BY <1>3, QuietStep DEF Reread, Finish, stores
<1>4. CASE Announced(w)
  BY <1>4, QuietStep DEF Announced, Finish, stores
<1>5. CASE SeekDoc(w)
  <2>1. Dating(w)
    BY <1>5 DEF SeekDoc, Dating
  <2> QED
    BY <1>5, <2>1, QuietStep DEF SeekDoc, Step, NextList, ListFails, stores
<1> QED
  BY <1>1, <1>2, <1>3, <1>4, <1>5

LEMMA AdminSteps ==
    ASSUME BackedDates, NEW w \in Workers,
           FindTag(w) \/ RenameNested(w) \/ PullNested(w) \/ RenameOffers(w) \/ RenameWants(w) \/ PullTag(w)
    PROVE  BackedDates'
<1>1. CASE FindTag(w)
  BY <1>1, QuietStep DEF FindTag, Finish, stores
<1>2. CASE RenameOffers(w)
  BY <1>2, QuietStep DEF RenameOffers, RenameIn, Step
<1>3. CASE RenameWants(w)
  BY <1>3, QuietStep DEF RenameWants, RenameIn, Finish
<1>4. CASE PullTag(w)
  BY <1>4, QuietStep DEF PullTag, Finish
<1>5. CASE RenameNested(w) \/ PullNested(w)
  BY <1>5, QuietStep DEF RenameNested, PullNested, Step, stores
<1> QED
  BY <1>1, <1>2, <1>3, <1>4, <1>5

-----------------------------------------------------------------------------
LEMMA BackedDatesInit == Init => BackedDates
BY DEF Init, NoTags, BackedDates, DatesBacked, Backed, Dating

LEMMA BackedDatesStep == BackedDates /\ [Next]_vars => BackedDates'
<1> SUFFICES ASSUME BackedDates, [Next]_vars PROVE BackedDates'
  OBVIOUS
<1>1. CASE UNCHANGED vars
  BY <1>1 DEF vars, stores, BackedDates, DatesBacked, Backed, Dating
<1>2. ASSUME NEW w \in Workers, SubmitAny(w) PROVE BackedDates'
  BY <1>2, SubmitStep
<1>3. ASSUME NEW w \in Workers, Work(w) PROVE BackedDates'
  BY <1>3, AnnounceStep, NewDocStep, DateDocStep, OtherDocStep, OtherTagStep, UpdateSteps,
     AdminSteps
  DEF Work
<1>4. ASSUME NEW w \in Workers, Fail(w) PROVE BackedDates'
  BY <1>4, QuietStep DEF Fail, stores
<1> QED
  BY <1>1, <1>2, <1>3, <1>4 DEF Next

\* Whatever requests interleave, fail or stop, the index dates an offer or a want
\* of a tag only if the collection does, unless the tag was deleted.
THEOREM Backing == Spec => []DatesBacked
<1>1. BackedDates => DatesBacked
  BY DEF BackedDates
<1> QED
  BY <1>1, BackedDatesInit, BackedDatesStep, PTL DEF Spec

-----------------------------------------------------------------------------
(* One request at a time.                                                   *)

Serial == \A v, w \in Workers : v = w

TagSteps == {"seekDoc", "newDoc", "dateDoc", "indexTag", "renameTag", "deleteTag"}

\* Between which the collection and the index tell the same of every tag ...
Same(t, d, but) == \A i \in TagIds \ but : t[i] = d[i]

\* ... and what they tell of the one tag a request is about to write.
DatedFirst(t, d, r) ==
    LET i == r.tag
    IN  /\ t[i] = [life |-> "live", name |-> r.new, dates |-> d[i].dates \cup {r.kind}]
        /\ i \in Live(d) => d[i].name = r.new
        /\ i \notin Live(d) => d[i].dates = {}
CreatedFirst(t, r) == t[r.tag] = [life |-> "live", name |-> r.new, dates |-> {}]
RenamedLater(t, d, r) == /\ r.tag \in Live(t)
                         /\ d[r.tag] = [life |-> "live", name |-> r.new, dates |-> t[r.tag].dates]
DeletedLater(t, d, r) == /\ r.tag \in Live(t)
                         /\ d[r.tag] = [life |-> "deleted", name |-> NoName, dates |-> {}]

\* What the only request finds at a step in the collection t and the index d.
Finds(t, d, f, step, r) ==
    /\ step \in TagSteps => r.tag \in TagIds
    /\ step \in {"createTag", "findTag"} => {"tag", "old", "new"} \subseteq DOMAIN r
    /\ step \in {"seekDoc", "newDoc", "dateDoc", "indexTag"} => r.tag \in Live(t)
    /\ step = "deleteTag" => r.tag \notin Live(d)
    /\ \/ f
       \/ /\ step \in {"createTag", "findTag", "renameDoc", "renameTag"} =>
                 \A i \in Live(t) : t[i].name # r.new
          /\ Same(t, d, IF step \in TagSteps THEN {r.tag} ELSE {})
          /\ step \in {"seekDoc", "newDoc", "dateDoc"} => DatedFirst(t, d, r)
          /\ step = "newDoc" => r.tag \notin Live(d)
          /\ step = "dateDoc" => r.tag \in Live(d)
          /\ step = "indexTag" => CreatedFirst(t, r)
          /\ step = "renameTag" => RenamedLater(t, d, r)
          /\ step = "deleteTag" => DeletedLater(t, d, r)

\* The tables between any two steps.
Catalogue(t, d, f) ==
    /\ t = [i \in TagIds |-> t[i]] /\ d = [i \in TagIds |-> d[i]]
    /\ \A i \in TagIds : t[i].life # "live" => t[i].dates = {}
    /\ Live(d) \subseteq Live(t)
    /\ f \/ \A i, j \in Live(t) : t[i].name = t[j].name => i = j

CatalogueInv == /\ DOMAIN pc = Workers /\ DOMAIN req = Workers
                /\ Catalogue(tag, tagDoc, failed)
                /\ \A w \in Workers : Finds(tag, tagDoc, failed, pc[w], req[w])
                /\ Quiet => failed \/ Same(tag, tagDoc, {})

\* Where a step takes the only request.
LEMMA Arrives ==
    ASSUME Serial, CatalogueInv, NEW w \in Workers, NEW step, NEW r, Move(w, step, r),
           Catalogue(tag', tagDoc', failed'), Finds(tag', tagDoc', failed', step, r)
    PROVE  CatalogueInv'
<1>1. /\ DOMAIN pc' = Workers /\ DOMAIN req' = Workers
      /\ \A v \in Workers : pc'[v] = step /\ req'[v] = r
  BY DEF Serial, CatalogueInv, Move
<1>2. Quiet' => failed' \/ Same(tag', tagDoc', {})
  BY <1>1 DEF Quiet, Finds, TagSteps
<1> QED
  BY <1>1, <1>2 DEF CatalogueInv

\* A step that leaves the tables alone, to where nothing is needed of one tag.
LEMMA Ambles ==
    ASSUME Serial, CatalogueInv, NEW w \in Workers, NEW step, NEW r, Move(w, step, r),
           UNCHANGED <<tag, tagDoc>>, step \notin TagSteps,
           step \in {"createTag", "findTag"} => {"tag", "old", "new"} \subseteq DOMAIN r,
           \/ failed'
           \/ /\ UNCHANGED failed
              /\ pc[w] \notin TagSteps
              /\ step \in {"createTag", "findTag", "renameDoc"} => FindByName(r.new) = {}
    PROVE  CatalogueInv'
<1>1. Catalogue(tag', tagDoc', failed')
  BY DEF CatalogueInv, Catalogue
<1>2. Finds(tag', tagDoc', failed', step, r)
  BY DEF CatalogueInv, Finds, TagSteps, FindByName
<1> QED
  BY <1>1, <1>2, Arrives

\* A call that fails leaves the tables alone and ends the request or a list.
LEMMA Breaks ==
    ASSUME Serial, CatalogueInv, NEW w \in Workers, UNCHANGED <<tag, tagDoc>>,
           ListFails(w) \/ GoOnFailed(w, "idle", NoReq)
    PROVE  CatalogueInv'
BY Ambles DEF ListFails, TagSteps

-----------------------------------------------------------------------------
(* The announcement of a name.                                             *)

LEMMA AnnounceFinds == ASSUME Serial, CatalogueInv, NEW w \in Workers, Announce(w) PROVE CatalogueInv'
<1> DEFINE list == Head(req[w].todo)
<1>1. CASE (NextList(w) \/ ListFails(w)) /\ UNCHANGED tag
  BY <1>1, Ambles, Breaks DEF Announce, NextList, TagSteps
<1>2. ASSUME NEW x, NEW i \in Upserted(x), UNCHANGED tagDoc, pc[w] = "announce",
             Seek(w, i, x, list.kind),
             tag' = [tag EXCEPT ![i] = [life |-> "live", name |-> x,
                                        dates |-> @.dates \cup {list.kind}]]
      PROVE  CatalogueInv'
  <2> DEFINE kind == list.kind
             r == [NoReq EXCEPT !.tag = i, !.new = x, !.kind = kind,
                                !.todo = [req[w].todo EXCEPT ![1].names = @ \ {x}]]
  <2>1. r.tag = i /\ r.kind = kind /\ r.new = x
    BY DEF NoReq
  <2>2. Move(w, "seekDoc", r) /\ UNCHANGED failed
    BY <1>2 DEF Seek
  <2> HIDE DEF r, kind
  <2>3. i \in TagIds
    BY <1>2, UpsertedAlive
  <2>4. /\ tag'[i] = [life |-> "live", name |-> x, dates |-> tag[i].dates \cup {kind}]
        /\ \A j \in TagIds \ {i} : tag'[j] = tag[j]
    BY <1>2, <2>3 DEF CatalogueInv, Catalogue, kind
  <2>table. tag' = [j \in TagIds |-> tag'[j]]
    BY <1>2, <2>3 DEF CatalogueInv, Catalogue, kind
  <2>5. \A j \in Live(tag) : tag[j].name = x => i \in Live(tag) /\ tag[i].name = x
    BY <1>2 DEF Upserted, FindByName
  <2>6. Catalogue(tag', tagDoc', failed')
    <3>1. failed \/ \A j, k \in Live(tag') : tag'[j].name = tag'[k].name => j = k
      BY <2>4, <2>5 DEF CatalogueInv, Catalogue, Live
    <3> QED
      BY <2>table, <1>2, <2>2, <2>4, <3>1 DEF CatalogueInv, Catalogue, Live
  <2>7. ASSUME ~failed PROVE Same(tag', tagDoc, {i}) /\ DatedFirst(tag', tagDoc, r)
    <3>1. Same(tag, tagDoc, {})
      BY <1>2, <2>7 DEF CatalogueInv, Finds, TagSteps
    <3>2. i \in Live(tagDoc) => tag[i].name = x
      BY <1>2, <2>3, <3>1 DEF Upserted, FindByName, Live, Same
    <3> QED
      <4>1. Same(tag', tagDoc, {i}) /\ tag[i] = tagDoc[i]
        BY <2>3, <2>4, <3>1 DEF Same
      <4>2. i \notin Live(tagDoc) => tagDoc[i].dates = {}
        BY <2>3, <4>1 DEF CatalogueInv, Catalogue, Live
      <4> QED
        BY <2>1, <2>4, <3>2, <4>1, <4>2 DEF DatedFirst
  <2>8. Finds(tag', tagDoc', failed', "seekDoc", r)
    BY <1>2, <2>1, <2>2, <2>3, <2>4, <2>7 DEF Finds, TagSteps, Live
  <2> QED
    BY <2>2, <2>6, <2>8, Arrives
<1> QED
  BY <1>1, <1>2 DEF Announce

LEMMA SeekFinds == ASSUME Serial, CatalogueInv, NEW w \in Workers, SeekDoc(w) PROVE CatalogueInv'
<1> DEFINE step == IF req[w].tag \in Live(tagDoc) THEN "dateDoc" ELSE "newDoc"
<1>1. CASE Step(w, step)
  <2>1. UNCHANGED <<tag, tagDoc, failed>> /\ pc[w] = "seekDoc"
    BY <1>1 DEF SeekDoc, Step, stores
  <2>2. Catalogue(tag', tagDoc', failed')
    BY <2>1 DEF CatalogueInv
  <2>3. Finds(tag', tagDoc', failed', step, req[w])
    BY <2>1 DEF CatalogueInv, Finds, TagSteps
  <2> QED
    BY <1>1, <2>2, <2>3, Arrives DEF Step
<1>2. CASE ListFails(w)
  BY <1>2, Breaks DEF SeekDoc, stores
<1> QED
  BY <1>1, <1>2 DEF SeekDoc

\* A document that is written at last is what the collection has.
LEMMA Written ==
    ASSUME Serial, CatalogueInv, NEW w \in Workers, NEW step, NEW r, NEW doc, Move(w, step, r),
           UNCHANGED <<tag, failed>>, step \notin TagSteps \cup {"createTag", "findTag", "renameDoc"},
           pc[w] \in {"seekDoc", "newDoc", "dateDoc", "indexTag"},
           tagDoc' = [tagDoc EXCEPT ![req[w].tag] = doc],
           failed \/ doc = tag[req[w].tag]
    PROVE  CatalogueInv'
<1> DEFINE i == req[w].tag
<1>1. i \in Live(tag) /\ i \in TagIds
  BY DEF CatalogueInv, Finds, TagSteps
<1>2. /\ tagDoc'[i] = doc /\ \A j \in TagIds \ {i} : tagDoc'[j] = tagDoc[j]
  BY <1>1 DEF CatalogueInv, Catalogue
<1>table. tagDoc' = [j \in TagIds |-> tagDoc'[j]]
  BY <1>1 DEF CatalogueInv, Catalogue
<1>3. Catalogue(tag', tagDoc', failed')
  BY <1>table, <1>1, <1>2 DEF CatalogueInv, Catalogue, Live
<1>4. failed \/ Same(tag, tagDoc', {})
  BY <1>1, <1>2 DEF CatalogueInv, Finds, Same, TagSteps
<1>5. Finds(tag', tagDoc', failed', step, r)
  BY <1>4 DEF Finds, TagSteps
<1> QED
  BY <1>3, <1>5, Arrives

LEMMA NewFinds == ASSUME Serial, CatalogueInv, NEW w \in Workers, NewDoc(w) PROVE CatalogueInv'
<1>1. CASE Step(w, "announce") /\ tagDoc' = [tagDoc EXCEPT ![req[w].tag] =
              [life |-> "live", name |-> req[w].new, dates |-> {req[w].kind}]]
  <2>1. failed \/ [life |-> "live", name |-> req[w].new, dates |-> {req[w].kind}] = tag[req[w].tag]
    BY DEF NewDoc, CatalogueInv, Finds, DatedFirst
  <2> QED
    BY <1>1, <2>1, Written DEF NewDoc, Step, TagSteps
<1>2. CASE ListFails(w) /\ UNCHANGED tagDoc
  BY <1>2, Breaks DEF NewDoc
<1> QED
  BY <1>1, <1>2 DEF NewDoc

LEMMA DateFinds == ASSUME Serial, CatalogueInv, NEW w \in Workers, DateDoc(w) PROVE CatalogueInv'
<1> DEFINE i == req[w].tag
<1>1. CASE Step(w, "announce") /\ tagDoc' = [tagDoc EXCEPT ![i] =
              [life |-> "live", name |-> @.name, dates |-> @.dates \cup {req[w].kind}]]
  <2>1. i \in TagIds
    BY DEF DateDoc, CatalogueInv, Finds, TagSteps
  <2> DEFINE doc == [life |-> "live", name |-> tagDoc[i].name,
                     dates |-> tagDoc[i].dates \cup {req[w].kind}]
  <2>2. failed \/ doc = tag[i]
    BY DEF DateDoc, CatalogueInv, Finds, DatedFirst
  <2>3. tagDoc' = [tagDoc EXCEPT ![i] = doc]
    BY <1>1
  <2> HIDE DEF doc
  <2> QED
    BY <1>1, <2>2, <2>3, Written DEF DateDoc, Step, TagSteps
<1>2. CASE NextList(w) /\ i \notin Live(tagDoc) /\ UNCHANGED tagDoc
  <2>1. failed
    BY <1>2 DEF DateDoc, CatalogueInv, Finds
  <2> QED
    BY <1>2, <2>1, Ambles DEF DateDoc, NextList, TagSteps
<1>3. CASE ListFails(w) /\ UNCHANGED tagDoc
  BY <1>3, Breaks DEF DateDoc
<1> QED
  BY <1>1, <1>2, <1>3 DEF DateDoc

-----------------------------------------------------------------------------
(* The requests of admins.                                                 *)

LEMMA CreateFinds == ASSUME Serial, CatalogueInv, NEW w \in Workers, CreateTag(w) PROVE CatalogueInv'
<1> DEFINE x == req[w].new
<1>1. PICK i \in Upserted(x) :
         /\ tag' = [tag EXCEPT ![i] = [life |-> "live", name |-> x, dates |-> @.dates]]
         /\ Go(w, "indexTag", [req[w] EXCEPT !.tag = i])
  BY DEF CreateTag
<1> DEFINE r == [req[w] EXCEPT !.tag = i]
<1>2. Move(w, "indexTag", r) /\ UNCHANGED <<tagDoc, failed>> /\ pc[w] = "createTag"
  BY <1>1 DEF CreateTag
<1>3. r.tag = i /\ r.new = x
  BY <1>2 DEF CatalogueInv, Finds
<1> HIDE DEF r
<1>4. i \in TagIds /\ tag[i].life # "deleted"
  BY UpsertedAlive
<1>5. /\ tag'[i] = [life |-> "live", name |-> x, dates |-> tag[i].dates]
      /\ \A j \in TagIds \ {i} : tag'[j] = tag[j]
  BY <1>1, <1>4 DEF CatalogueInv, Catalogue
<1>table. tag' = [j \in TagIds |-> tag'[j]]
  BY <1>1, <1>4 DEF CatalogueInv, Catalogue
<1>6. failed \/ /\ i \notin Live(tag) /\ \A j \in Live(tag) : tag[j].name # x
                /\ Same(tag, tagDoc, {})
  BY <1>2 DEF CatalogueInv, Finds, Upserted, FindByName, TagSteps, Live
<1>7. failed \/ \A j, k \in Live(tag') : tag'[j].name = tag'[k].name => j = k
  BY <1>4, <1>5, <1>6 DEF CatalogueInv, Catalogue, Live
<1>8. Catalogue(tag', tagDoc', failed')
  BY <1>table, <1>2, <1>5, <1>7 DEF CatalogueInv, Catalogue, Live
<1>9. failed \/ (Same(tag', tagDoc, {i}) /\ CreatedFirst(tag', r))
  <2>1. failed \/ Same(tag', tagDoc, {i})
    BY <1>5, <1>6 DEF Same
  <2>2. failed \/ tag[i].dates = {}
    BY <1>4, <1>6 DEF CatalogueInv, Catalogue, Live
  <2> QED
    BY <1>3, <1>5, <2>1, <2>2 DEF CreatedFirst
<1>10. Finds(tag', tagDoc', failed', "indexTag", r)
  BY <1>2, <1>3, <1>4, <1>5, <1>9 DEF Finds, TagSteps, Live
<1> QED
  BY <1>2, <1>8, <1>10, Arrives

LEMMA IndexFinds == ASSUME Serial, CatalogueInv, NEW w \in Workers, IndexTag(w) PROVE CatalogueInv'
<1>1. failed \/ [life |-> "live", name |-> req[w].new, dates |-> {}] = tag[req[w].tag]
  BY DEF IndexTag, CatalogueInv, Finds, CreatedFirst
<1> QED
  BY <1>1, Written DEF IndexTag, Finish, TagSteps

LEMMA FindFinds == ASSUME Serial, CatalogueInv, NEW w \in Workers, FindTag(w) PROVE CatalogueInv'
<1>1. UNCHANGED <<tag, tagDoc, failed>> /\ pc[w] = "findTag"
  BY DEF FindTag, Finish, stores
<1>2. CASE Move(w, "renameDoc", [req[w] EXCEPT !.old = tag[req[w].tag].name])
  <2> DEFINE r == [req[w] EXCEPT !.old = tag[req[w].tag].name]
  <2>1. r.new = req[w].new
    BY <1>1 DEF CatalogueInv, Finds
  <2> HIDE DEF r
  <2>2. Catalogue(tag', tagDoc', failed') /\ Finds(tag', tagDoc', failed', "renameDoc", r)
    BY <1>1, <2>1 DEF CatalogueInv, Finds, TagSteps
  <2> QED
    BY <1>2, <2>2, Arrives DEF r
<1>3. CASE Finish(w)
  BY <1>1, <1>3, Ambles DEF Finish, TagSteps
<1> QED
  BY <1>2, <1>3 DEF FindTag

LEMMA RenameDocFinds ==
    ASSUME Serial, CatalogueInv, NEW w \in Workers, RenameDoc(w) PROVE CatalogueInv'
<1> DEFINE i == req[w].tag
           doc == [life |-> "live", name |-> req[w].new, dates |-> tagDoc[i].dates]
<1>1. CASE i \in Live(tagDoc)
  <2>1. /\ Move(w, "renameTag", req[w]) /\ UNCHANGED <<tag, failed>> /\ pc[w] = "renameDoc"
        /\ tagDoc' = [tagDoc EXCEPT ![i] = doc]
    BY <1>1 DEF RenameDoc, Step
  <2>2. /\ i \in TagIds
        /\ tagDoc'[i] = doc /\ \A j \in TagIds \ {i} : tagDoc'[j] = tagDoc[j]
    BY <1>1, <2>1 DEF CatalogueInv, Catalogue, Live
  <2>table. tagDoc' = [j \in TagIds |-> tagDoc'[j]]
    BY <1>1, <2>1 DEF CatalogueInv, Catalogue, Live
  <2> HIDE DEF doc
  <2>3. Catalogue(tag', tagDoc', failed')
    BY <2>table, <1>1, <2>1, <2>2 DEF CatalogueInv, Catalogue, Live
  <2>4. failed \/ (Same(tag, tagDoc', {i}) /\ RenamedLater(tag, tagDoc', req[w]))
    <3>1. failed \/ Same(tag, tagDoc, {})
      BY <2>1 DEF CatalogueInv, Finds, TagSteps
    <3>2. failed \/ Same(tag, tagDoc', {i})
      BY <2>2, <3>1 DEF Same
    <3>3. failed \/ tag[i] = tagDoc[i]
      BY <2>2, <3>1 DEF Same
    <3> QED
      <4>1. i \in Live(tag)
        BY <1>1 DEF CatalogueInv, Catalogue
      <4> QED
        BY <2>2, <3>2, <3>3, <4>1 DEF RenamedLater, doc
  <2>5. Finds(tag', tagDoc', failed', "renameTag", req[w])
    BY <2>1, <2>2, <2>4 DEF CatalogueInv, Finds, TagSteps
  <2> QED
    BY <2>1, <2>3, <2>5, Arrives
<1>2. CASE i \notin Live(tagDoc)
  BY <1>2, Ambles DEF RenameDoc, Finish, TagSteps
<1> QED
  BY <1>1, <1>2

LEMMA RenameTagFinds ==
    ASSUME Serial, CatalogueInv, NEW w \in Workers, RenameTag(w) PROVE CatalogueInv'
<1> DEFINE i == req[w].tag
           row == [life |-> "live", name |-> req[w].new, dates |-> tag[i].dates]
<1>1. CASE i \in Live(tag)
  <2>1. /\ Move(w, "renameNested", req[w]) /\ UNCHANGED <<tagDoc, failed>> /\ pc[w] = "renameTag"
        /\ tag' = [tag EXCEPT ![i] = row]
    BY <1>1 DEF RenameTag, Step
  <2>2. /\ i \in TagIds
        /\ tag'[i] = row /\ \A j \in TagIds \ {i} : tag'[j] = tag[j]
    BY <1>1, <2>1 DEF CatalogueInv, Catalogue, Live
  <2>table. tag' = [j \in TagIds |-> tag'[j]]
    BY <1>1, <2>1 DEF CatalogueInv, Catalogue, Live
  <2>3. failed \/ \A j \in Live(tag) : tag[j].name # req[w].new
    BY <2>1 DEF CatalogueInv, Finds
  <2>4. failed \/ Same(tag', tagDoc, {})
    BY <2>1, <2>2 DEF CatalogueInv, Finds, Same, RenamedLater, TagSteps
  <2>5. row.life = "live" /\ row.name = req[w].new
    OBVIOUS
  <2> HIDE DEF row
  <2>6. failed \/ \A j, k \in Live(tag') : tag'[j].name = tag'[k].name => j = k
    BY <2>2, <2>3, <2>5 DEF CatalogueInv, Catalogue, Live
  <2>7. Catalogue(tag', tagDoc', failed')
    BY <2>table, <1>1, <2>1, <2>2, <2>5, <2>6 DEF CatalogueInv, Catalogue, Live
  <2>8. Finds(tag', tagDoc', failed', "renameNested", req[w])
    BY <2>1, <2>4 DEF Finds, TagSteps
  <2> QED
    BY <2>1, <2>7, <2>8, Arrives
<1>2. CASE i \notin Live(tag)
  <2>1. failed
    BY <1>2 DEF RenameTag, CatalogueInv, Finds, RenamedLater
  <2> QED
    BY <1>2, <2>1, Ambles DEF RenameTag, Finish, TagSteps
<1> QED
  BY <1>1, <1>2

LEMMA DeleteDocFinds ==
    ASSUME Serial, CatalogueInv, NEW w \in Workers, DeleteDoc(w) PROVE CatalogueInv'
<1> DEFINE i == req[w].tag
           doc == [life |-> "deleted", name |-> NoName, dates |-> {}]
<1>1. CASE i \in Live(tagDoc)
  <2>1. /\ Move(w, "deleteTag", req[w]) /\ UNCHANGED <<tag, failed>> /\ pc[w] = "deleteDoc"
        /\ tagDoc' = [tagDoc EXCEPT ![i] = doc]
    BY <1>1 DEF DeleteDoc, Step
  <2>2. /\ i \in TagIds
        /\ tagDoc'[i] = doc /\ \A j \in TagIds \ {i} : tagDoc'[j] = tagDoc[j]
    BY <1>1, <2>1 DEF CatalogueInv, Catalogue, Live
  <2>table. tagDoc' = [j \in TagIds |-> tagDoc'[j]]
    BY <1>1, <2>1 DEF CatalogueInv, Catalogue, Live
  <2>3. i \in Live(tag) /\ doc.life = "deleted"
    BY <1>1 DEF CatalogueInv, Catalogue
  <2>4. failed \/ (Same(tag, tagDoc', {i}) /\ DeletedLater(tag, tagDoc', req[w]))
    <3>1. failed \/ Same(tag, tagDoc, {})
      BY <2>1 DEF CatalogueInv, Finds, TagSteps
    <3> QED
      BY <2>2, <2>3, <3>1 DEF Same, DeletedLater
  <2> HIDE DEF doc
  <2>5. Catalogue(tag', tagDoc', failed')
    BY <2>table, <2>1, <2>2, <2>3 DEF CatalogueInv, Catalogue, Live
  <2>6. Finds(tag', tagDoc', failed', "deleteTag", req[w])
    BY <2>1, <2>2, <2>3, <2>4 DEF Finds, TagSteps, Live
  <2> QED
    BY <2>1, <2>5, <2>6, Arrives
<1>2. CASE i \notin Live(tagDoc)
  BY <1>2, Ambles DEF DeleteDoc, Finish, TagSteps
<1> QED
  BY <1>1, <1>2

LEMMA DeleteTagFinds ==
    ASSUME Serial, CatalogueInv, NEW w \in Workers, DeleteTag(w) PROVE CatalogueInv'
<1> DEFINE i == req[w].tag
           row == [life |-> "deleted", name |-> NoName, dates |-> {}]
           r == [req[w] EXCEPT !.old = tag[i].name]
<1>1. CASE i \in Live(tag)
  <2>1. /\ Move(w, "pullNested", r) /\ UNCHANGED <<tagDoc, failed>> /\ pc[w] = "deleteTag"
        /\ tag' = [tag EXCEPT ![i] = row]
    BY <1>1 DEF DeleteTag
  <2> HIDE DEF r
  <2>2. /\ i \in TagIds
        /\ tag'[i] = row /\ \A j \in TagIds \ {i} : tag'[j] = tag[j]
    BY <1>1, <2>1 DEF CatalogueInv, Catalogue, Live
  <2>table. tag' = [j \in TagIds |-> tag'[j]]
    BY <1>1, <2>1 DEF CatalogueInv, Catalogue, Live
  <2>3. failed \/ Same(tag', tagDoc, {})
    BY <2>1, <2>2 DEF CatalogueInv, Finds, Same, DeletedLater, TagSteps
  <2>4. i \notin Live(tagDoc) /\ row.life = "deleted" /\ row.dates = {}
    BY <2>1 DEF CatalogueInv, Finds
  <2> HIDE DEF row
  <2>5. Catalogue(tag', tagDoc', failed')
    BY <2>table, <2>1, <2>2, <2>4 DEF CatalogueInv, Catalogue, Live
  <2>6. Finds(tag', tagDoc', failed', "pullNested", r)
    BY <2>1, <2>3 DEF Finds, TagSteps
  <2> QED
    BY <2>1, <2>5, <2>6, Arrives
<1>2. CASE i \notin Live(tag)
  <2>1. failed
    BY <1>2 DEF DeleteTag, CatalogueInv, Finds, DeletedLater
  <2> QED
    BY <1>2, <2>1, Ambles DEF DeleteTag, Finish, TagSteps
<1> QED
  BY <1>1, <1>2

-----------------------------------------------------------------------------
LEMMA SubmitFinds == ASSUME Serial, CatalogueInv, NEW w \in Workers, SubmitAny(w) PROVE CatalogueInv'
<1>1. ASSUME NEW n, NEW change, NEW status, SubmitUpdate(w, n, change, status)
      PROVE  CatalogueInv'
  BY <1>1, Ambles DEF SubmitUpdate, Submit, stores, TagSteps
<1>2. ASSUME NEW step \in {"createTag", "findTag"}, NEW r, SubmitNew(w, step, r),
             {"tag", "old", "new"} \subseteq DOMAIN r
      PROVE  CatalogueInv'
  BY <1>2, Ambles DEF SubmitNew, stores, TagSteps
<1>3. ASSUME NEW x, SubmitCreate(w, x) PROVE CatalogueInv'
  BY <1>2, <1>3 DEF SubmitCreate, NoReq
<1>4. ASSUME NEW x, NEW i, SubmitRename(w, i, x) PROVE CatalogueInv'
  BY <1>2, <1>4 DEF SubmitRename, NoReq
<1>5. ASSUME NEW i, SubmitDelete(w, i) PROVE CatalogueInv'
  BY <1>5, Ambles DEF SubmitDelete, Submit, stores, TagSteps
<1> QED
  BY <1>1, <1>3, <1>4, <1>5 DEF SubmitAny

\* The steps that write entities only, or nothing.
LEMMA EntitiesFind ==
    ASSUME Serial, CatalogueInv, NEW w \in Workers,
           \/ ReindexLists(w) \/ WriteLists(w) \/ Reread(w) \/ Announced(w)
           \/ RenameNested(w) \/ RenameOffers(w) \/ RenameWants(w) \/ PullNested(w) \/ PullTag(w)
    PROVE  CatalogueInv'
<1> USE DEF TagSteps
<1>1. CASE ReindexLists(w)
  BY <1>1, Ambles DEF ReindexLists, Step
<1>2. CASE WriteLists(w)
  <2>1. PICK r : Move(w, "reread", r)
    BY <1>2 DEF WriteLists
  <2>2. UNCHANGED <<tag, tagDoc, failed>> /\ pc[w] = "writeLists"
    BY <1>2 DEF WriteLists
  <2> QED
    BY <2>1, <2>2, Ambles
<1>3. CASE Reread(w)
  BY <1>3, Ambles DEF Reread, Finish, stores
<1>4. CASE Announced(w)
  BY <1>4, Ambles DEF Announced, Finish, stores
<1>5. CASE RenameNested(w) \/ PullNested(w)
  BY <1>5, Ambles DEF RenameNested, PullNested, Step, stores
<1>6. CASE RenameOffers(w)
  <2>1. /\ Move(w, "renameWants", req[w]) /\ UNCHANGED <<tag, tagDoc, failed>>
        /\ pc[w] = "renameOffers"
    BY <1>6 DEF RenameOffers, RenameIn, Step
  <2> QED
    BY <2>1, Ambles
<1>7. CASE RenameWants(w)
  <2>1. /\ Move(w, "idle", NoReq) /\ UNCHANGED <<tag, tagDoc, failed>>
        /\ pc[w] = "renameWants"
    BY <1>7 DEF RenameWants, RenameIn, Finish
  <2> QED
    BY <2>1, Ambles
<1>8. CASE PullTag(w)
  <2>1. /\ Move(w, "idle", NoReq) /\ UNCHANGED <<tag, tagDoc, failed>>
        /\ pc[w] = "pullTag"
    BY <1>8 DEF PullTag, Finish
  <2> QED
    BY <2>1, Ambles
<1> QED
  BY <1>1, <1>2, <1>3, <1>4, <1>5, <1>6, <1>7, <1>8

LEMMA CatalogueInit == Init => CatalogueInv
BY DEF Init, NoTags, CatalogueInv, Catalogue, Finds, Same, Live, TagSteps

LEMMA CatalogueStep == ASSUME Serial, CatalogueInv, [Next]_vars PROVE CatalogueInv'
<1>1. CASE UNCHANGED vars
  BY <1>1 DEF vars, stores, CatalogueInv, Quiet
<1>2. ASSUME NEW w \in Workers, SubmitAny(w) PROVE CatalogueInv'
  BY <1>2, SubmitFinds
<1>3. ASSUME NEW w \in Workers, Work(w) PROVE CatalogueInv'
  BY <1>3, AnnounceFinds, SeekFinds, NewFinds, DateFinds, CreateFinds, IndexFinds, FindFinds,
     RenameDocFinds, RenameTagFinds, DeleteDocFinds, DeleteTagFinds, EntitiesFind
  DEF Work
<1>4. ASSUME NEW w \in Workers, Fail(w) PROVE CatalogueInv'
  BY <1>4, Breaks DEF Fail, stores
<1> QED
  BY <1>1, <1>2, <1>3, <1>4 DEF Next

LEMMA CatalogueInvariance == ASSUME Serial PROVE Spec => []CatalogueInv
<1>1. CatalogueInv /\ [Next]_vars => CatalogueInv'
  BY CatalogueStep
<1> QED
  BY <1>1, CatalogueInit, PTL DEF Spec

\* Handled one at a time, requests leave no tag in the index that the collection
\* has not, wherever they stop, and equal tags in both if no call failed.
THEOREM IndexedTrue ==
    ASSUME Serial
    PROVE  Spec => []TagsIndexed
<1>1. CatalogueInv => TagsIndexed
  <2> SUFFICES ASSUME CatalogueInv, Quiet, ~failed PROVE tag = tagDoc
    BY DEF CatalogueInv, Catalogue, TagsIndexed
  <2>1. [i \in TagIds |-> tag[i]] = [i \in TagIds |-> tagDoc[i]]
    BY DEF CatalogueInv, Same
  <2> QED
    BY <2>1 DEF CatalogueInv, Catalogue
<1> QED
  BY <1>1, CatalogueInvariance, PTL

-----------------------------------------------------------------------------
(* Types.                                                                   *)

Batches == [kind : Kinds, names : SUBSET Names]
Requests == [entity : Entities \cup {NoEntity}, status : Statuses, accepted : BOOLEAN,
             added : [Kinds -> SUBSET Names], removed : [Kinds -> SUBSET Names],
             todo : Seq(Batches), tag : TagIds \cup {NoTag}, kind : Kinds \cup {NoKind},
             old : Names \cup {NoName}, new : Names \cup {NoName}]
Accounts == [accepted : BOOLEAN, lists : Lists]

DatingSteps == {"seekDoc", "newDoc", "dateDoc"}
SpreadSteps == {"renameNested", "renameOffers", "renameWants"}
RenameSteps == {"renameDoc", "renameTag"}

\* What a request has at hand at a step.
Knows(step, r) ==
    /\ step \in {"reindexLists", "writeLists", "reread"} => r.entity \in Entities
    /\ step \in DatingSteps => r.kind \in Kinds /\ r.todo # <<>>
    /\ step \in DatingSteps \cup RenameSteps \cup {"indexTag", "findTag", "deleteDoc", "deleteTag"} =>
          r.tag \in TagIds
    /\ step \in DatingSteps \cup RenameSteps \cup SpreadSteps \cup {"createTag", "indexTag", "findTag"} =>
          r.new \in Names
    /\ step \in RenameSteps \cup SpreadSteps => r.old \in Names

StoresTyped(t, d, e, doc) ==
    /\ t \in [TagIds -> Dated] /\ d \in [TagIds -> Dated]
    /\ e \in [Entities -> Accounts]
    /\ doc \in [Entities -> [Kinds -> SUBSET Names]]
    /\ \A i \in Live(t) : t[i].name \in Names

TagsTyped == /\ StoresTyped(tag, tagDoc, entity, entityDoc)
             /\ pc \in [Workers -> Steps] /\ DOMAIN req = Workers
             /\ \A w \in Workers : req[w] \in Requests /\ Knows(pc[w], req[w])
             /\ failed \in BOOLEAN /\ twice \in BOOLEAN

\* Where a step takes a request.
LEMMA Turns ==
    ASSUME TagsTyped, NEW w \in Workers, NEW step \in Steps, NEW r \in Requests,
           Knows(step, r), Move(w, step, r), failed' \in BOOLEAN, twice' \in BOOLEAN,
           StoresTyped(tag', tagDoc', entity', entityDoc')
    PROVE  TagsTyped'
<1>1. pc' \in [Workers -> Steps] /\ DOMAIN req' = Workers
  BY DEF TagsTyped, Move
<1>2. ASSUME NEW v \in Workers PROVE req'[v] \in Requests /\ Knows(pc'[v], req'[v])
  BY DEF TagsTyped, Move
<1> QED
  BY <1>1, <1>2 DEF TagsTyped

\* One that writes nothing.
LEMMA Strolls ==
    ASSUME TagsTyped, NEW w \in Workers, NEW step \in Steps, NEW r \in Requests,
           Knows(step, r), Move(w, step, r), failed' \in BOOLEAN, UNCHANGED stores
    PROVE  TagsTyped'
<1>1. StoresTyped(tag', tagDoc', entity', entityDoc') /\ twice' \in BOOLEAN
  BY DEF TagsTyped, stores, entities
<1> QED
  BY <1>1, Turns

LEMMA NothingKnown == TagsAssumption => NoReq \in Requests /\ Knows("idle", NoReq)
BY DEF TagsAssumption, NoReq, Requests, Knows, Nothing, Statuses, DatingSteps, SpreadSteps, RenameSteps

LEMMA TodoTyped ==
    ASSUME TagsAssumption, NEW todo \in Seq(Batches)
    PROVE  [NoReq EXCEPT !.todo = todo] \in Requests
BY NothingKnown DEF Requests, NoReq

\* A list of names that ends.
LEMMA ListEnds ==
    ASSUME TagsAssumption, TagsTyped, NEW w \in Workers, NextList(w) \/ ListFails(w),
           req[w].todo # <<>>, UNCHANGED stores
    PROVE  TagsTyped'
<1> DEFINE todo == Tail(req[w].todo)
           r == [NoReq EXCEPT !.todo = todo]
<1>1. todo \in Seq(Batches)
  BY HeadTailProperties DEF TagsTyped, Requests
<1>2. r \in Requests
  BY <1>1, TodoTyped
<1>3. Move(w, "announce", r) /\ failed' \in BOOLEAN
  BY DEF NextList, ListFails, TagsTyped
<1> HIDE DEF r
<1>4. Knows("announce", r) /\ "announce" \in Steps
  BY DEF Knows, DatingSteps, SpreadSteps, RenameSteps, Steps
<1> QED
  BY <1>2, <1>3, <1>4, Strolls

-----------------------------------------------------------------------------
(* The updates of entities.                                                 *)

LEMMA UpdateTyped ==
    ASSUME TagsAssumption, TagsTyped, NEW w \in Workers, NEW n \in Entities, NEW change \in Changes,
           NEW status \in Statuses, SubmitUpdate(w, n, change, status)
    PROVE  TagsTyped'
<1> DEFINE old == [k \in Kinds |-> NamesOf(entity[n].lists[k])]
           new == [k \in Kinds |-> IF k \in DOMAIN change THEN change[k] ELSE old[k]]
           r == [NoReq EXCEPT !.entity = n, !.status = status, !.accepted = entity[n].accepted,
                              !.added = [k \in Kinds |-> new[k] \ old[k]],
                              !.removed = [k \in Kinds |-> old[k] \ new[k]]]
<1>1. entity[n].accepted \in BOOLEAN
  BY DEF TagsTyped, StoresTyped, Accounts
<1>2. old \in [Kinds -> SUBSET Names]
  BY DEF NamesOf
<1>3. new \in [Kinds -> SUBSET Names]
  BY <1>2 DEF Changes, TagsAssumption
<1> HIDE DEF old, new
<1>4. r \in Requests /\ r.entity = n
  BY <1>1, <1>2, <1>3, NothingKnown DEF Requests, NoReq
<1>5. Move(w, "reindexLists", r) /\ UNCHANGED <<failed, stores>>
  BY DEF SubmitUpdate, Submit, old, new
<1> HIDE DEF r
<1>6. Knows("reindexLists", r) /\ "reindexLists" \in Steps
  BY <1>4 DEF Knows, DatingSteps, SpreadSteps, RenameSteps, Steps
<1> QED
  BY <1>4, <1>5, <1>6, Strolls DEF TagsTyped

LEMMA ReindexTyped == ASSUME TagsAssumption, TagsTyped, NEW w \in Workers, ReindexLists(w) PROVE TagsTyped'
<1> DEFINE r == req[w]
<1>1. /\ r \in Requests /\ r.entity \in Entities
      /\ entityDoc \in [Entities -> [Kinds -> SUBSET Names]]
  BY DEF ReindexLists, TagsTyped, StoresTyped, Knows
<1>2. r.added \in [Kinds -> SUBSET Names] /\ r.removed \in [Kinds -> SUBSET Names]
  BY <1>1 DEF Requests
<1>3. /\ entityDoc' = [entityDoc EXCEPT ![r.entity] =
                         [k \in Kinds |-> (@[k] \ r.removed[k]) \cup r.added[k]]]
      /\ Move(w, "writeLists", r) /\ UNCHANGED <<tag, tagDoc, entity, twice, failed>>
  BY DEF ReindexLists, Step
<1> HIDE DEF r
<1>4. [k \in Kinds |-> (entityDoc[r.entity][k] \ r.removed[k]) \cup r.added[k]]
         \in [Kinds -> SUBSET Names]
  BY <1>1, <1>2
<1>5. entityDoc' \in [Entities -> [Kinds -> SUBSET Names]]
  BY <1>1, <1>3, <1>4
<1>6. Knows("writeLists", r) /\ "writeLists" \in Steps
  BY <1>1 DEF Knows, DatingSteps, SpreadSteps, RenameSteps, Steps
<1> QED
  BY <1>1, <1>3, <1>5, <1>6, Turns DEF TagsTyped, StoresTyped

\* A step that writes entities only.
LEMMA Rewrites ==
    ASSUME TagsTyped, NEW w \in Workers, NEW step \in Steps, NEW r \in Requests,
           Knows(step, r), Move(w, step, r), UNCHANGED <<tag, tagDoc, entityDoc, failed>>,
           NEW e \in [Entities -> Accounts], SetEntities(e)
    PROVE  TagsTyped'
<1>1. twice' \in BOOLEAN /\ entity' = e
  BY DEF SetEntities, TagsTyped
<1>2. StoresTyped(tag', tagDoc', entity', entityDoc')
  BY <1>1 DEF TagsTyped, StoresTyped
<1> QED
  BY <1>1, <1>2, Turns DEF TagsTyped

LEMMA WriteTyped == ASSUME TagsAssumption, TagsTyped, NEW w \in Workers, WriteLists(w) PROVE TagsTyped'
<1> DEFINE r == req[w]
           lists == [k \in Kinds |-> [x \in Names |->
                       IF x \in r.removed[k] THEN 0
                       ELSE entity[r.entity].lists[k][x] + IF x \in r.added[k] THEN 1 ELSE 0]]
           account == [accepted |-> Accepted(entity[r.entity], r), lists |-> lists]
           e == [entity EXCEPT ![r.entity] = account]
           s == [NoReq EXCEPT !.entity = r.entity, !.accepted = r.accepted,
                              !.added = IF r.accepted THEN r.added ELSE Nothing]
<1>1. /\ r \in Requests /\ r.entity \in Entities /\ entity \in [Entities -> Accounts]
  BY DEF WriteLists, TagsTyped, StoresTyped, Knows
<1>2. /\ r.added \in [Kinds -> SUBSET Names] /\ r.removed \in [Kinds -> SUBSET Names]
      /\ r.accepted \in BOOLEAN /\ r.status \in Statuses
  BY <1>1 DEF Requests
<1>3. /\ \A k \in Kinds : \A x \in r.added[k] : entity[r.entity].lists[k][x] < Copies
      /\ SetEntities(e)
      /\ Move(w, "reread", s) /\ UNCHANGED <<tag, tagDoc, entityDoc, failed>>
  BY DEF WriteLists
<1> HIDE DEF r
<1>4. entity[r.entity].lists \in Lists /\ entity[r.entity].accepted \in BOOLEAN
  BY <1>1 DEF Accounts
<1>5. ASSUME NEW k \in Kinds, NEW x \in Names PROVE lists[k][x] \in 0..Copies
  <2>1. entity[r.entity].lists[k][x] \in 0..Copies
    BY <1>4 DEF Lists
  <2>2. x \in r.added[k] => entity[r.entity].lists[k][x] < Copies
    BY <1>3
  <2> QED
    BY <2>1, <2>2 DEF TagsAssumption
<1>6. lists \in Lists
  BY <1>5 DEF Lists
<1>7. Accepted(entity[r.entity], r) \in BOOLEAN
  BY <1>2, <1>4 DEF Accepted
<1> HIDE DEF lists
<1>8. e \in [Entities -> Accounts]
  BY <1>1, <1>6, <1>7 DEF Accounts
<1>9. s \in Requests /\ s.entity = r.entity
  BY <1>1, <1>2, NothingKnown DEF Requests, NoReq
<1> HIDE DEF e, s
<1>10. Knows("reread", s) /\ "reread" \in Steps
  BY <1>1, <1>9 DEF Knows, DatingSteps, SpreadSteps, RenameSteps, Steps
<1> QED
  BY <1>3, <1>8, <1>9, <1>10, Rewrites

LEMMA RereadTyped == ASSUME TagsAssumption, TagsTyped, NEW w \in Workers, Reread(w) PROVE TagsTyped'
<1> DEFINE r == req[w]
           now == entity[r.entity]
           batch(kind, names) == [kind |-> kind, names |-> names]
           todo == IF r.accepted
                   THEN <<batch("offers", r.added["offers"]), batch("wants", r.added["wants"])>>
                   ELSE <<batch("offers", NamesOf(now.lists["offers"])),
                          batch("offers", NamesOf(now.lists["wants"]))>>
<1>1. UNCHANGED <<stores, failed>>
  BY DEF Reread, Finish
<1>2. CASE Finish(w)
  <2>1. "idle" \in Steps
    BY DEF Steps
  <2> QED
    BY <1>1, <1>2, <2>1, NothingKnown, Strolls DEF Finish, TagsTyped
<1>3. CASE Move(w, "announce", [NoReq EXCEPT !.todo = todo])
  <2>1. r.added \in [Kinds -> SUBSET Names]
    BY DEF TagsTyped, Requests
  <2>2. \A list : NamesOf(list) \in SUBSET Names
    BY DEF NamesOf
  <2>3. ASSUME NEW kind \in Kinds, NEW names \in SUBSET Names PROVE batch(kind, names) \in Batches
    BY DEF Batches
  <2>4. r.added["offers"] \in SUBSET Names /\ r.added["wants"] \in SUBSET Names
    BY <2>1 DEF Kinds
  <2>5. /\ batch("offers", r.added["offers"]) \in Batches
        /\ batch("wants", r.added["wants"]) \in Batches
        /\ batch("offers", NamesOf(now.lists["offers"])) \in Batches
        /\ batch("offers", NamesOf(now.lists["wants"])) \in Batches
    BY <2>2, <2>3, <2>4 DEF Kinds
  <2> HIDE DEF batch
  <2>6. todo \in Seq(Batches)
    BY <2>5
  <2> HIDE DEF todo
  <2>7. [NoReq EXCEPT !.todo = todo] \in Requests
    BY <2>6, TodoTyped
  <2>8. Knows("announce", [NoReq EXCEPT !.todo = todo]) /\ "announce" \in Steps
    BY DEF Knows, DatingSteps, SpreadSteps, RenameSteps, Steps
  <2> QED
    BY <1>1, <1>3, <2>7, <2>8, Strolls DEF TagsTyped
<1> QED
  BY <1>2, <1>3 DEF Reread

-----------------------------------------------------------------------------
(* The announcement of a name, and the requests of admins.                  *)

\* A step that writes the collection only, or the index only.
LEMMA WritesTag ==
    ASSUME TagsTyped, NEW w \in Workers, NEW step \in Steps, NEW r \in Requests,
           Knows(step, r), Move(w, step, r), UNCHANGED <<tagDoc, entities, failed>>,
           NEW i \in TagIds, NEW row \in Dated, tag' = [tag EXCEPT ![i] = row],
           row.life = "live" => row.name \in Names
    PROVE  TagsTyped'
<1>1. tag' \in [TagIds -> Dated] /\ \A j \in Live(tag') : tag'[j].name \in Names
  BY DEF TagsTyped, StoresTyped, Live
<1>2. StoresTyped(tag', tagDoc', entity', entityDoc') /\ twice' \in BOOLEAN
  BY <1>1 DEF TagsTyped, StoresTyped, entities
<1> QED
  BY <1>2, Turns DEF TagsTyped

LEMMA WritesDoc ==
    ASSUME TagsTyped, NEW w \in Workers, NEW step \in Steps, NEW r \in Requests,
           Knows(step, r), Move(w, step, r), UNCHANGED <<tag, entities, failed>>,
           NEW i \in TagIds, NEW doc \in Dated, tagDoc' = [tagDoc EXCEPT ![i] = doc]
    PROVE  TagsTyped'
<1>1. tagDoc' \in [TagIds -> Dated]
  BY DEF TagsTyped, StoresTyped
<1>2. StoresTyped(tag', tagDoc', entity', entityDoc') /\ twice' \in BOOLEAN
  BY <1>1 DEF TagsTyped, StoresTyped, entities
<1> QED
  BY <1>2, Turns DEF TagsTyped

LEMMA RowTyped ==
    ASSUME TagsTyped, NEW i \in TagIds
    PROVE  tag[i] \in Dated /\ tagDoc[i] \in Dated
BY DEF TagsTyped, StoresTyped

\* A list of batches whose first has been replaced.
LEMMA HeadExchanged ==
    ASSUME NEW s \in Seq(Batches), 1 \in 1..Len(s), NEW b \in Batches
    PROVE  [s EXCEPT ![1] = b] \in Seq(Batches) /\ Len([s EXCEPT ![1] = b]) = Len(s)
BY ExceptSeq

LEMMA AnnounceTyped == ASSUME TagsAssumption, TagsTyped, NEW w \in Workers, Announce(w) PROVE TagsTyped'
<1> DEFINE list == Head(req[w].todo)
<1>1. CASE (NextList(w) \/ ListFails(w)) /\ UNCHANGED tag
  BY <1>1, ListEnds DEF Announce, stores
<1>2. ASSUME NEW x \in list.names, NEW i \in Upserted(x), UNCHANGED <<tagDoc, entities>>,
             Seek(w, i, x, list.kind), req[w].todo # <<>>,
             tag' = [tag EXCEPT ![i] = [life |-> "live", name |-> x,
                                        dates |-> @.dates \cup {list.kind}]]
      PROVE  TagsTyped'
  <2> DEFINE old == req[w].todo
             rest == [list EXCEPT !.names = @ \ {x}]
             todo == [old EXCEPT ![1].names = @ \ {x}]
             kind == list.kind
             r == [NoReq EXCEPT !.tag = i, !.new = x, !.kind = kind, !.todo = todo]
             row == [life |-> "live", name |-> x, dates |-> tag[i].dates \cup {kind}]
  <2>1. old \in Seq(Batches) /\ old # <<>> /\ list \in Batches
    BY <1>2, HeadTailProperties DEF TagsTyped, Requests
  <2>2. list = old[1] /\ 1 \in 1..Len(old)
    BY <2>1
  <2>3. todo = [old EXCEPT ![1] = rest] /\ rest \in Batches
    BY <2>1, <2>2 DEF Batches
  <2>4. x \in Names /\ kind \in Kinds
    BY <1>2, <2>1 DEF Batches
  <2> HIDE DEF rest
  <2> HIDE DEF old, todo
  <2>5. todo \in Seq(Batches) /\ Len(todo) = Len(old)
    BY <2>1, <2>2, <2>3, HeadExchanged
  <2>6. todo # <<>>
    BY <2>2, <2>5
  <2>7. Move(w, "seekDoc", r) /\ UNCHANGED failed
    BY <1>2 DEF Seek, todo, old
  <2> HIDE DEF kind
  <2>8. i \in TagIds
    BY <1>2, UpsertedAlive
  <2>9. r \in Requests /\ r.tag = i /\ r.new = x /\ r.kind = kind /\ r.todo = todo
    BY <2>4, <2>5, <2>8, NothingKnown DEF Requests, NoReq
  <2>10. row \in Dated /\ row.name = x
    BY <2>4, <2>8, RowTyped DEF Dated, Life
  <2>11. tag' = [tag EXCEPT ![i] = row]
    BY <1>2 DEF kind
  <2> HIDE DEF r, row
  <2>12. Knows("seekDoc", r) /\ "seekDoc" \in Steps
    BY <2>4, <2>6, <2>8, <2>9 DEF Knows, DatingSteps, SpreadSteps, RenameSteps, Steps
  <2>13. PICK step \in Steps : Knows(step, r) /\ Move(w, step, r)
    BY <2>7, <2>12
  <2>14. UNCHANGED <<tagDoc, entities, failed>>
    BY <1>2, <2>7
  <2> QED
    BY <2>4, <2>8, <2>9, <2>10, <2>11, <2>13, <2>14, WritesTag
<1> QED
  BY <1>1, <1>2 DEF Announce

LEMMA AnnouncedTyped == ASSUME TagsAssumption, TagsTyped, NEW w \in Workers, Announced(w) PROVE TagsTyped'
<1>1. "idle" \in Steps
  BY DEF Steps
<1> QED
  BY <1>1, NothingKnown, Strolls DEF Announced, Finish, TagsTyped

LEMMA SeekTyped == ASSUME TagsAssumption, TagsTyped, NEW w \in Workers, SeekDoc(w) PROVE TagsTyped'
<1> DEFINE step == IF req[w].tag \in Live(tagDoc) THEN "dateDoc" ELSE "newDoc"
<1>1. req[w] \in Requests /\ Knows("seekDoc", req[w])
  BY DEF SeekDoc, TagsTyped
<1>2. CASE Step(w, step)
  <2>1. Knows(step, req[w]) /\ step \in Steps
    BY <1>1 DEF Knows, DatingSteps, SpreadSteps, RenameSteps, Steps
  <2>2. Move(w, step, req[w]) /\ UNCHANGED <<failed, stores>>
    BY <1>2 DEF Step, SeekDoc
  <2> QED
    BY <1>1, <2>1, <2>2, Strolls DEF TagsTyped
<1>3. CASE ListFails(w)
  BY <1>1, <1>3, ListEnds DEF SeekDoc, Knows, DatingSteps
<1> QED
  BY <1>2, <1>3 DEF SeekDoc

\* After the document the next name is announced.
LEMMA DocTyped ==
    ASSUME TagsAssumption, TagsTyped, NEW w \in Workers, pc[w] \in DatingSteps, Step(w, "announce"),
           UNCHANGED <<tag, entities>>,
           NEW doc \in Dated, tagDoc' = [tagDoc EXCEPT ![req[w].tag] = doc]
    PROVE  TagsTyped'
<1>1. req[w] \in Requests /\ req[w].tag \in TagIds
  BY DEF TagsTyped, Knows
<1>2. Knows("announce", req[w]) /\ "announce" \in Steps
  BY DEF Knows, DatingSteps, SpreadSteps, RenameSteps, Steps
<1> QED
  BY <1>1, <1>2, WritesDoc DEF Step

LEMMA NewDocTyped == ASSUME TagsAssumption, TagsTyped, NEW w \in Workers, NewDoc(w) PROVE TagsTyped'
<1>1. req[w].new \in Names /\ req[w].kind \in Kinds /\ req[w].todo # <<>> /\ pc[w] \in DatingSteps
  BY DEF NewDoc, TagsTyped, Knows, DatingSteps
<1>2. CASE Step(w, "announce") /\ tagDoc' = [tagDoc EXCEPT ![req[w].tag] =
              [life |-> "live", name |-> req[w].new, dates |-> {req[w].kind}]]
  <2> DEFINE doc == [life |-> "live", name |-> req[w].new, dates |-> {req[w].kind}]
  <2>1. doc \in Dated
    BY <1>1 DEF Dated, Life
  <2>2. tagDoc' = [tagDoc EXCEPT ![req[w].tag] = doc] /\ Step(w, "announce")
    BY <1>2
  <2>3. UNCHANGED <<tag, entities>>
    BY DEF NewDoc
  <2> HIDE DEF doc
  <2> QED
    BY <1>1, <2>1, <2>2, <2>3, DocTyped
<1>3. CASE ListFails(w) /\ UNCHANGED tagDoc
  BY <1>1, <1>3, ListEnds DEF NewDoc, stores
<1> QED
  BY <1>2, <1>3 DEF NewDoc

LEMMA DateDocTyped == ASSUME TagsAssumption, TagsTyped, NEW w \in Workers, DateDoc(w) PROVE TagsTyped'
<1> DEFINE i == req[w].tag
           doc == [life |-> "live", name |-> tagDoc[i].name,
                   dates |-> tagDoc[i].dates \cup {req[w].kind}]
<1>1. i \in TagIds /\ req[w].kind \in Kinds /\ req[w].todo # <<>> /\ pc[w] \in DatingSteps
  BY DEF DateDoc, TagsTyped, Knows, DatingSteps
<1>2. CASE Step(w, "announce") /\ tagDoc' = [tagDoc EXCEPT ![i] =
              [life |-> "live", name |-> @.name, dates |-> @.dates \cup {req[w].kind}]]
  <2>1. doc \in Dated
    BY <1>1, RowTyped DEF Dated, Life
  <2>2. tagDoc' = [tagDoc EXCEPT ![i] = doc] /\ Step(w, "announce")
    BY <1>2
  <2>3. UNCHANGED <<tag, entities>>
    BY DEF DateDoc
  <2> HIDE DEF doc
  <2> QED
    BY <1>1, <2>1, <2>2, <2>3, DocTyped
<1>3. CASE (NextList(w) \/ ListFails(w)) /\ UNCHANGED tagDoc
  BY <1>1, <1>3, ListEnds DEF DateDoc, stores
<1> QED
  BY <1>2, <1>3 DEF DateDoc

LEMMA CreateTyped == ASSUME TagsAssumption, TagsTyped, NEW w \in Workers, CreateTag(w) PROVE TagsTyped'
<1>1. PICK i \in Upserted(req[w].new) :
         /\ tag' = [tag EXCEPT ![i] = [life |-> "live", name |-> req[w].new, dates |-> @.dates]]
         /\ Go(w, "indexTag", [req[w] EXCEPT !.tag = i])
  BY DEF CreateTag
<1> DEFINE row == [life |-> "live", name |-> req[w].new, dates |-> tag[i].dates]
           r == [req[w] EXCEPT !.tag = i]
<1>2. req[w] \in Requests /\ req[w].new \in Names
  BY DEF CreateTag, TagsTyped, Knows
<1>3. i \in TagIds
  BY UpsertedAlive
<1>4. r \in Requests /\ r.tag = i /\ r.new = req[w].new
  BY <1>2, <1>3 DEF Requests
<1>5. row \in Dated /\ row.name = req[w].new
  BY <1>2, <1>3, RowTyped DEF Dated, Life
<1>6. tag' = [tag EXCEPT ![i] = row] /\ UNCHANGED <<tagDoc, entities, failed>>
  BY <1>1 DEF CreateTag
<1>7. Move(w, "indexTag", r)
  BY <1>1
<1> HIDE DEF row, r
<1>8. Knows("indexTag", r) /\ "indexTag" \in Steps
  BY <1>2, <1>3, <1>4 DEF Knows, DatingSteps, SpreadSteps, RenameSteps, Steps
<1> QED
  BY <1>2, <1>3, <1>4, <1>5, <1>6, <1>7, <1>8, WritesTag

LEMMA IndexTyped == ASSUME TagsAssumption, TagsTyped, NEW w \in Workers, IndexTag(w) PROVE TagsTyped'
<1> DEFINE doc == [life |-> "live", name |-> req[w].new, dates |-> {}]
<1>1. req[w].tag \in TagIds /\ req[w].new \in Names
  BY DEF IndexTag, TagsTyped, Knows
<1>2. doc \in Dated
  BY <1>1 DEF Dated, Life
<1>3. /\ tagDoc' = [tagDoc EXCEPT ![req[w].tag] = doc]
      /\ Move(w, "idle", NoReq) /\ UNCHANGED <<tag, entities, failed>> /\ "idle" \in Steps
  BY DEF IndexTag, Finish, Steps
<1> HIDE DEF doc
<1> QED
  BY <1>1, <1>2, <1>3, NothingKnown, WritesDoc

\* A request that ends having written nothing more.
LEMMA Ends ==
    ASSUME TagsAssumption, TagsTyped, NEW w \in Workers, Finish(w), UNCHANGED stores
    PROVE  TagsTyped'
<1>1. "idle" \in Steps
  BY DEF Steps
<1> QED
  BY <1>1, NothingKnown, Strolls DEF Finish, TagsTyped

LEMMA FindTyped == ASSUME TagsAssumption, TagsTyped, NEW w \in Workers, FindTag(w) PROVE TagsTyped'
<1> DEFINE r == [req[w] EXCEPT !.old = tag[req[w].tag].name]
<1>1. req[w] \in Requests /\ req[w].tag \in TagIds /\ req[w].new \in Names
  BY DEF FindTag, TagsTyped, Knows
<1>2. CASE req[w].tag \in Live(tag) /\ Go(w, "renameDoc", r)
  <2>1. tag[req[w].tag].name \in Names
    BY <1>2 DEF TagsTyped, StoresTyped
  <2>2. r \in Requests /\ r.tag = req[w].tag /\ r.new = req[w].new /\ r.old \in Names
    BY <1>1, <2>1 DEF Requests
  <2>3. Move(w, "renameDoc", r) /\ UNCHANGED <<failed, stores>>
    BY <1>2 DEF FindTag
  <2> HIDE DEF r
  <2>4. Knows("renameDoc", r) /\ "renameDoc" \in Steps
    BY <1>1, <2>2 DEF Knows, DatingSteps, SpreadSteps, RenameSteps, Steps
  <2> QED
    BY <2>2, <2>3, <2>4, Strolls DEF TagsTyped
<1> QED
  BY <1>2, Ends DEF FindTag

LEMMA RenameDocTyped == ASSUME TagsAssumption, TagsTyped, NEW w \in Workers, RenameDoc(w) PROVE TagsTyped'
<1> DEFINE i == req[w].tag
           doc == [life |-> "live", name |-> req[w].new, dates |-> tagDoc[i].dates]
<1>1. req[w] \in Requests /\ i \in TagIds /\ req[w].new \in Names /\ req[w].old \in Names
  BY DEF RenameDoc, TagsTyped, Knows, RenameSteps
<1>2. CASE i \in Live(tagDoc)
  <2>1. doc \in Dated
    BY <1>1, RowTyped DEF Dated, Life
  <2>2. /\ tagDoc' = [tagDoc EXCEPT ![i] = doc]
        /\ Move(w, "renameTag", req[w]) /\ UNCHANGED <<tag, entities, failed>>
    BY <1>2 DEF RenameDoc, Step
  <2> HIDE DEF doc
  <2>3. Knows("renameTag", req[w]) /\ "renameTag" \in Steps
    BY <1>1 DEF Knows, DatingSteps, SpreadSteps, RenameSteps, Steps
  <2> QED
    BY <1>1, <2>1, <2>2, <2>3, WritesDoc
<1>3. CASE i \notin Live(tagDoc)
  BY <1>3, Ends DEF RenameDoc, stores
<1> QED
  BY <1>2, <1>3

LEMMA RenameTagTyped == ASSUME TagsAssumption, TagsTyped, NEW w \in Workers, RenameTag(w) PROVE TagsTyped'
<1> DEFINE i == req[w].tag
           row == [life |-> "live", name |-> req[w].new, dates |-> tag[i].dates]
<1>1. req[w] \in Requests /\ i \in TagIds /\ req[w].new \in Names /\ req[w].old \in Names
  BY DEF RenameTag, TagsTyped, Knows, RenameSteps
<1>2. CASE i \in Live(tag)
  <2>1. row \in Dated /\ row.name \in Names
    BY <1>1, RowTyped DEF Dated, Life
  <2>2. /\ tag' = [tag EXCEPT ![i] = row]
        /\ Move(w, "renameNested", req[w]) /\ UNCHANGED <<tagDoc, entities, failed>>
    BY <1>2 DEF RenameTag, Step
  <2> HIDE DEF row
  <2>3. Knows("renameNested", req[w]) /\ "renameNested" \in Steps
    BY <1>1 DEF Knows, DatingSteps, SpreadSteps, RenameSteps, Steps
  <2> QED
    BY <1>1, <2>1, <2>2, <2>3, WritesTag
<1>3. CASE i \notin Live(tag)
  BY <1>3, Ends DEF RenameTag, stores
<1> QED
  BY <1>2, <1>3

\* The first copy of a name is renamed.
LEMMA AccountRenamed ==
    ASSUME TagsAssumption, NEW a \in Accounts, NEW kind \in Kinds, NEW old \in Names, NEW new \in Names,
           a.lists[kind][old] > 0, a.lists[kind][new] < Copies
    PROVE  [a EXCEPT !.lists[kind] = RenamedOnce(@, old, new)] \in Accounts
<1> DEFINE list == a.lists[kind]
           rest == [list EXCEPT ![old] = @ - 1]
           both == [rest EXCEPT ![new] = @ + 1]
<1>1. a.lists \in Lists /\ list \in [Names -> 0..Copies]
  BY DEF Accounts, Lists
<1>2. rest \in [Names -> 0..Copies]
  BY <1>1 DEF TagsAssumption
<1>3. rest[new] < Copies
  BY <1>1 DEF TagsAssumption
<1>4. both \in [Names -> 0..Copies]
  BY <1>2, <1>3 DEF TagsAssumption
<1>5. RenamedOnce(list, old, new) = both
  BY DEF RenamedOnce
<1> HIDE DEF both
<1>6. [a EXCEPT !.lists[kind] = both] \in Accounts
  BY <1>1, <1>4 DEF Accounts, Lists
<1> QED
  BY <1>5, <1>6

LEMMA RenameInTyped ==
    ASSUME TagsAssumption, TagsTyped, NEW w \in Workers, NEW step \in Steps, NEW r \in Requests,
           Knows(step, r), Move(w, step, r), UNCHANGED failed,
           NEW kind \in Kinds, NEW old \in Names, NEW new \in Names, RenameIn(kind, old, new)
    PROVE  TagsTyped'
<1> DEFINE listed == {n \in Entities : entity[n].lists[kind][old] > 0}
           renamed(n) == [entity[n] EXCEPT !.lists[kind] = RenamedOnce(@, old, new)]
           e == [n \in Entities |-> IF n \in listed THEN renamed(n) ELSE entity[n]]
<1>1. SetEntities(e) /\ UNCHANGED <<tag, tagDoc, entityDoc, failed>>
  BY DEF RenameIn
<1>2. ASSUME NEW n \in Entities PROVE entity[n] \in Accounts
  BY DEF TagsTyped, StoresTyped
<1>3. ASSUME NEW n \in listed PROVE renamed(n) \in Accounts
  <2>1. entity[n].lists[kind][old] > 0 /\ entity[n].lists[kind][new] < Copies
    BY DEF RenameIn
  <2> QED
    BY <1>2, <2>1, AccountRenamed
<1> HIDE DEF renamed, listed
<1>4. e \in [Entities -> Accounts]
  BY <1>2, <1>3
<1> HIDE DEF e
<1> QED
  BY <1>1, <1>4, Rewrites

LEMMA SpreadTyped ==
    ASSUME TagsAssumption, TagsTyped, NEW w \in Workers,
           RenameNested(w) \/ RenameOffers(w) \/ RenameWants(w)
    PROVE  TagsTyped'
<1>1. /\ req[w] \in Requests /\ req[w].old \in Names /\ req[w].new \in Names
      /\ "offers" \in Kinds /\ "wants" \in Kinds
  BY DEF RenameNested, RenameOffers, RenameWants, TagsTyped, Knows, SpreadSteps, Kinds
<1>2. /\ Knows("renameOffers", req[w]) /\ "renameOffers" \in Steps
      /\ Knows("renameWants", req[w]) /\ "renameWants" \in Steps
      /\ "idle" \in Steps
  BY <1>1 DEF Knows, DatingSteps, SpreadSteps, RenameSteps, Steps
<1>3. CASE RenameNested(w)
  BY <1>1, <1>2, <1>3, Strolls DEF RenameNested, Step, TagsTyped
<1>4. CASE RenameOffers(w)
  BY <1>1, <1>2, <1>4, RenameInTyped DEF RenameOffers, Step
<1>5. CASE RenameWants(w)
  BY <1>1, <1>2, <1>5, RenameInTyped, NothingKnown DEF RenameWants, Finish
<1> QED
  BY <1>3, <1>4, <1>5

LEMMA DeleteDocTyped == ASSUME TagsAssumption, TagsTyped, NEW w \in Workers, DeleteDoc(w) PROVE TagsTyped'
<1> DEFINE i == req[w].tag
           doc == [life |-> "deleted", name |-> NoName, dates |-> {}]
<1>1. req[w] \in Requests /\ i \in TagIds
  BY DEF DeleteDoc, TagsTyped, Knows
<1>2. CASE i \in Live(tagDoc)
  <2>1. doc \in Dated
    BY DEF Dated, Life
  <2>2. /\ tagDoc' = [tagDoc EXCEPT ![i] = doc]
        /\ Move(w, "deleteTag", req[w]) /\ UNCHANGED <<tag, entities, failed>>
    BY <1>2 DEF DeleteDoc, Step
  <2> HIDE DEF doc
  <2>3. Knows("deleteTag", req[w]) /\ "deleteTag" \in Steps
    BY <1>1 DEF Knows, DatingSteps, SpreadSteps, RenameSteps, Steps
  <2> QED
    BY <1>1, <2>1, <2>2, <2>3, WritesDoc
<1>3. CASE i \notin Live(tagDoc)
  BY <1>3, Ends DEF DeleteDoc, stores
<1> QED
  BY <1>2, <1>3

LEMMA DeleteTagTyped == ASSUME TagsAssumption, TagsTyped, NEW w \in Workers, DeleteTag(w) PROVE TagsTyped'
<1> DEFINE i == req[w].tag
           row == [life |-> "deleted", name |-> NoName, dates |-> {}]
           r == [req[w] EXCEPT !.old = tag[i].name]
<1>1. req[w] \in Requests /\ i \in TagIds
  BY DEF DeleteTag, TagsTyped, Knows
<1>2. CASE i \in Live(tag)
  <2>1. row \in Dated /\ row.life # "live"
    BY DEF Dated, Life
  <2>2. tag[i].name \in Names
    BY <1>2 DEF TagsTyped, StoresTyped
  <2>3. r \in Requests
    BY <1>1, <2>2 DEF Requests
  <2>4. /\ tag' = [tag EXCEPT ![i] = row]
        /\ Move(w, "pullNested", r) /\ UNCHANGED <<tagDoc, entities, failed>>
    BY <1>2 DEF DeleteTag
  <2> HIDE DEF row, r
  <2>5. Knows("pullNested", r) /\ "pullNested" \in Steps
    BY DEF Knows, DatingSteps, SpreadSteps, RenameSteps, Steps
  <2> QED
    BY <1>1, <2>1, <2>3, <2>4, <2>5, WritesTag
<1>3. CASE i \notin Live(tag)
  BY <1>3, Ends DEF DeleteTag, stores
<1> QED
  BY <1>2, <1>3

LEMMA PullTyped ==
    ASSUME TagsAssumption, TagsTyped, NEW w \in Workers, PullNested(w) \/ PullTag(w)
    PROVE  TagsTyped'
<1>1. /\ req[w] \in Requests /\ Knows("pullTag", req[w]) /\ "pullTag" \in Steps /\ "idle" \in Steps
  BY DEF TagsTyped, Knows, DatingSteps, SpreadSteps, RenameSteps, Steps
<1>2. CASE PullNested(w)
  BY <1>1, <1>2, Strolls DEF PullNested, Step, TagsTyped
<1>3. CASE PullTag(w)
  <2> DEFINE x == req[w].old
             pulled(n) == [entity[n] EXCEPT !.lists["offers"][x] = 0, !.lists["wants"][x] = 0]
             e == [n \in Entities |-> pulled(n)]
  <2>1. ASSUME NEW a \in Accounts, NEW kind \in Kinds, NEW y
        PROVE  [a EXCEPT !.lists[kind][y] = 0] \in Accounts
    <3>1. 0 \in 0..Copies
      BY DEF TagsAssumption
    <3>2. a.lists \in [Kinds -> [Names -> 0..Copies]]
      BY DEF Accounts, Lists
    <3>3. [a.lists[kind] EXCEPT ![y] = 0] \in [Names -> 0..Copies]
      BY <3>1, <3>2
    <3> QED
      BY <3>2, <3>3 DEF Accounts, Lists
  <2>2. ASSUME NEW n \in Entities PROVE pulled(n) \in Accounts
    <3>1. entity[n] \in Accounts
      BY DEF TagsTyped, StoresTyped
    <3>2. [entity[n] EXCEPT !.lists["offers"][x] = 0] \in Accounts
      BY <2>1, <3>1 DEF Kinds
    <3>3. "wants" \in Kinds
      BY DEF Kinds
    <3> QED
      BY <2>1, <3>2, <3>3
  <2>3. SetEntities(e) /\ Move(w, "idle", NoReq) /\ UNCHANGED <<tag, tagDoc, entityDoc, failed>>
    BY <1>3 DEF PullTag, Finish
  <2> HIDE DEF pulled
  <2>4. e \in [Entities -> Accounts]
    BY <2>2
  <2> HIDE DEF e
  <2> QED
    BY <1>1, <2>3, <2>4, Rewrites, NothingKnown
<1> QED
  BY <1>2, <1>3

-----------------------------------------------------------------------------
LEMMA SubmitTyped == ASSUME TagsAssumption, TagsTyped, NEW w \in Workers, SubmitAny(w) PROVE TagsTyped'
<1>1. ASSUME NEW x \in Formatted PROVE x \in Names
  BY DEF TagsAssumption
<1>2. ASSUME NEW step \in Steps, NEW r \in Requests, Knows(step, r), SubmitNew(w, step, r)
      PROVE  TagsTyped'
  BY <1>2, Strolls DEF SubmitNew, TagsTyped
<1>3. ASSUME NEW x \in Formatted, SubmitCreate(w, x) PROVE TagsTyped'
  <2> DEFINE r == [NoReq EXCEPT !.new = x]
  <2>1. r \in Requests /\ r.new = x
    BY <1>1, NothingKnown DEF Requests, NoReq
  <2>2. SubmitNew(w, "createTag", r)
    BY <1>3 DEF SubmitCreate
  <2> HIDE DEF r
  <2>3. Knows("createTag", r) /\ "createTag" \in Steps
    BY <1>1, <2>1 DEF Knows, DatingSteps, SpreadSteps, RenameSteps, Steps
  <2> QED
    BY <1>2, <2>1, <2>2, <2>3
<1>4. ASSUME NEW x \in Formatted, NEW i \in TagIds, SubmitRename(w, i, x) PROVE TagsTyped'
  <2> DEFINE r == [NoReq EXCEPT !.tag = i, !.new = x]
  <2>1. r \in Requests /\ r.new = x /\ r.tag = i
    BY <1>1, NothingKnown DEF Requests, NoReq
  <2>2. SubmitNew(w, "findTag", r)
    BY <1>4 DEF SubmitRename
  <2> HIDE DEF r
  <2>3. Knows("findTag", r) /\ "findTag" \in Steps
    BY <1>1, <2>1 DEF Knows, DatingSteps, SpreadSteps, RenameSteps, Steps
  <2> QED
    BY <1>2, <2>1, <2>2, <2>3
<1>5. ASSUME NEW i \in TagIds, SubmitDelete(w, i) PROVE TagsTyped'
  <2> DEFINE r == [NoReq EXCEPT !.tag = i]
  <2>1. r \in Requests /\ r.tag = i
    BY NothingKnown DEF Requests, NoReq
  <2>2. Move(w, "deleteDoc", r) /\ UNCHANGED <<failed, stores>>
    BY <1>5 DEF SubmitDelete, Submit
  <2> HIDE DEF r
  <2>3. Knows("deleteDoc", r) /\ "deleteDoc" \in Steps
    BY <2>1 DEF Knows, DatingSteps, SpreadSteps, RenameSteps, Steps
  <2> QED
    BY <2>1, <2>2, <2>3, Strolls DEF TagsTyped
<1> QED
  BY <1>3, <1>4, <1>5, UpdateTyped DEF SubmitAny

LEMMA TagsTypedInit == TagsAssumption /\ Init => TagsTyped
<1> SUFFICES ASSUME TagsAssumption, Init PROVE TagsTyped
  OBVIOUS
<1>1. /\ tag \in [TagIds -> Dated] /\ tagDoc \in [TagIds -> Dated]
      /\ \A i \in TagIds : tag[i].life # "live"
  BY DEF Init, NoTags, Dated, Life
<1>2. PICK lists \in [Entities -> Signups] :
         /\ entity = [n \in Entities |-> [accepted |-> FALSE, lists |-> lists[n]]]
         /\ entityDoc = [n \in Entities |-> [k \in Kinds |-> {x \in Names : lists[n][k][x] > 0}]]
  BY DEF Init
<1>3. entity \in [Entities -> Accounts]
  BY <1>2 DEF Accounts, TagsAssumption
<1>4. entityDoc \in [Entities -> [Kinds -> SUBSET Names]]
  BY <1>2
<1>5. StoresTyped(tag, tagDoc, entity, entityDoc)
  BY <1>1, <1>3, <1>4 DEF StoresTyped, Live
<1>6. pc \in [Workers -> Steps] /\ failed \in BOOLEAN /\ twice \in BOOLEAN
  BY DEF Init, Steps, Doubled
<1>7. DOMAIN req = Workers /\ \A w \in Workers : req[w] \in Requests /\ Knows(pc[w], req[w])
  BY NothingKnown DEF Init
<1> QED
  BY <1>5, <1>6, <1>7 DEF TagsTyped

LEMMA TagsTypedStep == TagsAssumption /\ TagsTyped /\ [Next]_vars => TagsTyped'
<1> SUFFICES ASSUME TagsAssumption, TagsTyped, [Next]_vars PROVE TagsTyped'
  OBVIOUS
<1>1. CASE UNCHANGED vars
  BY <1>1 DEF vars, stores, entities, TagsTyped
<1>2. ASSUME NEW w \in Workers, SubmitAny(w) PROVE TagsTyped'
  BY <1>2, SubmitTyped
<1>3. ASSUME NEW w \in Workers, Work(w) PROVE TagsTyped'
  BY <1>3, ReindexTyped, WriteTyped, RereadTyped, AnnounceTyped, AnnouncedTyped, SeekTyped,
     NewDocTyped, DateDocTyped, CreateTyped, IndexTyped, FindTyped, RenameDocTyped, RenameTagTyped,
     SpreadTyped, DeleteDocTyped, DeleteTagTyped, PullTyped
  DEF Work
<1>4. ASSUME NEW w \in Workers, Fail(w) PROVE TagsTyped'
  <2>1. "idle" \in Steps
    BY DEF Steps
  <2> QED
    BY <1>4, <2>1, NothingKnown, Strolls DEF Fail
<1> QED
  BY <1>1, <1>2, <1>3, <1>4 DEF Next

LEMMA TagsTypedInvariance == ASSUME TagsAssumption PROVE Spec => []TagsTyped
<1>1. Init => TagsTyped
  BY TagsTypedInit
<1>2. TagsTyped /\ [Next]_vars => TagsTyped'
  BY TagsTypedStep
<1> QED
  BY <1>1, <1>2, PTL DEF Spec

\* Whatever requests interleave, fail or stop, the variables keep their types: a
\* tag that is written has a name, and a name listed is never counted below zero.
THEOREM TypeCorrect ==
    ASSUME TagsAssumption
    PROVE  Spec => []TypeOK
<1>1. TagsTyped => TypeOK
  BY DEF TagsTyped, StoresTyped, Accounts, TypeOK
<1> QED
  BY <1>1, TagsTypedInvariance, PTL

-----------------------------------------------------------------------------
(* The names of tags, however many requests are in flight.                  *)

Renaming == {"findTag", "renameDoc", "renameTag"}

\* The names that a request is about to give to a tag, once it was let in.
Gives(w) == IF pc[w] \in Renaming \cup {"createTag"} THEN {req[w].new}
            ELSE IF pc[w] = "announce" /\ req[w].todo # <<>> THEN Head(req[w].todo).names ELSE {}

\* Nobody else is about to give the name that a rename is about to give.
Apart == \A v, w \in Workers : v # w /\ pc[v] \in Renaming => req[v].new \notin Gives(w)

\* A rename is let in only if nothing has the name: its look-up does not fail.
LookedUp == \A w \in Workers : pc[w] = "idle" /\ pc'[w] = "findTag" => FindByName(req'[w].new) = {}

Named(t, x) == \E i \in TagIds : t[i].life = "live" /\ t[i].name = x

\* No two tags have the same name, whatever has failed.
Distinct(t) == \A i, j \in Live(t) : t[i].name = t[j].name => i = j

\* A new name is still new when it is written.
NewNames == \A w \in Workers : pc[w] \in Renaming => ~Named(tag, req[w].new)

NamesInv == Distinct(tag) /\ NewNames

\* What a request may do to the tags.
OnlyIn(i) == \A j \in TagIds : j # i => tag'[j] = tag[j]
Takes(w, i, x) == /\ tag'[i].life = "live" /\ tag'[i].name = x /\ OnlyIn(i)
                  /\ i \in Upserted(x) \/ pc[w] = "renameTag"
Drops(i) == tag'[i].life = "deleted" /\ OnlyIn(i)
NamesDone(w) == \/ UNCHANGED tag
                \/ \E i \in TagIds, x \in Gives(w) : Takes(w, i, x)
                \/ \E i \in TagIds : Drops(i)

LEMMA NameTaken ==
    ASSUME TagsTyped, NEW w \in Workers, NEW i \in TagIds, NEW x \in Gives(w), NEW dates,
           tag' = [tag EXCEPT ![i] = [life |-> "live", name |-> x, dates |-> dates]],
           i \in Upserted(x) \/ pc[w] = "renameTag"
    PROVE  NamesDone(w)
<1>1. Takes(w, i, x)
  BY DEF Takes, OnlyIn, TagsTyped, StoresTyped
<1> QED
  BY <1>1 DEF NamesDone

LEMMA NamesGiven ==
    ASSUME TagsTyped, NEW w \in Workers, SubmitAny(w) \/ Work(w) \/ Fail(w)
    PROVE  NamesDone(w)
<1>0. CASE UNCHANGED tag
  BY <1>0 DEF NamesDone
<1>1. CASE Announce(w)
  <2>1. CASE \E x \in Head(req[w].todo).names : \E i \in Upserted(x) :
                tag' = [tag EXCEPT ![i] = [life |-> "live", name |-> x,
                                           dates |-> @.dates \cup {Head(req[w].todo).kind}]]
    <3>1. PICK x \in Head(req[w].todo).names : \E i \in Upserted(x) :
                tag' = [tag EXCEPT ![i] = [life |-> "live", name |-> x,
                                           dates |-> @.dates \cup {Head(req[w].todo).kind}]]
      BY <2>1
    <3>2. PICK i \in Upserted(x) :
                tag' = [tag EXCEPT ![i] = [life |-> "live", name |-> x,
                                           dates |-> @.dates \cup {Head(req[w].todo).kind}]]
      BY <3>1
    <3>3. x \in Gives(w) /\ i \in TagIds
      BY <1>1, UpsertedAlive DEF Announce, Gives, Renaming
    <3>4. tag' = [tag EXCEPT ![i] = [life |-> "live", name |-> x,
                                     dates |-> tag[i].dates \cup {Head(req[w].todo).kind}]]
      BY <3>2
    <3> QED
      BY <3>3, <3>4, NameTaken
  <2> QED
    BY <1>0, <1>1, <2>1, Zenon DEF Announce
<1>2. CASE CreateTag(w)
  <2>1. PICK i \in Upserted(req[w].new) :
              tag' = [tag EXCEPT ![i] = [life |-> "live", name |-> req[w].new, dates |-> @.dates]]
    BY <1>2 DEF CreateTag
  <2>2. req[w].new \in Gives(w) /\ i \in TagIds
    BY <1>2, UpsertedAlive DEF CreateTag, Gives, Renaming
  <2>3. tag' = [tag EXCEPT ![i] = [life |-> "live", name |-> req[w].new, dates |-> tag[i].dates]]
    BY <2>1
  <2> QED
    BY <2>2, <2>3, NameTaken
<1>3. CASE RenameTag(w)
  <2>1. CASE req[w].tag \in Live(tag)
    <3> DEFINE i == req[w].tag
    <3>1. tag' = [tag EXCEPT ![i] = [life |-> "live", name |-> req[w].new, dates |-> tag[i].dates]]
      BY <1>3, <2>1 DEF RenameTag
    <3>2. req[w].new \in Gives(w) /\ i \in TagIds /\ pc[w] = "renameTag"
      BY <1>3, <2>1 DEF RenameTag, Gives, Renaming, Live
    <3> QED
      BY <3>1, <3>2, NameTaken
  <2> QED
    BY <1>0, <1>3, <2>1 DEF RenameTag
<1>4. CASE DeleteTag(w)
  <2>1. CASE req[w].tag \in Live(tag)
    <3>1. req[w].tag \in TagIds /\ Drops(req[w].tag)
      BY <1>4, <2>1 DEF DeleteTag, Live, Drops, OnlyIn, TagsTyped, StoresTyped
    <3> QED
      BY <3>1 DEF NamesDone
  <2> QED
    BY <1>0, <1>4, <2>1 DEF DeleteTag
<1>5. CASE SubmitAny(w) \/ Fail(w)
  BY <1>0, <1>5 DEF SubmitAny, SubmitUpdate, SubmitCreate, SubmitRename, SubmitDelete, Submit,
     SubmitNew, Fail, stores
<1>6. CASE Work(w) /\ ~Announce(w) /\ ~CreateTag(w) /\ ~RenameTag(w) /\ ~DeleteTag(w)
  <2>1. CASE ReindexLists(w) \/ WriteLists(w) \/ Reread(w) \/ Announced(w) \/ SeekDoc(w)
    BY <1>0, <2>1, Zenon DEF ReindexLists, WriteLists, Reread, Announced, SeekDoc, stores
  <2>2. CASE NewDoc(w) \/ DateDoc(w) \/ IndexTag(w) \/ FindTag(w) \/ RenameDoc(w) \/ DeleteDoc(w)
    BY <1>0, <2>2, Zenon DEF NewDoc, DateDoc, IndexTag, FindTag, RenameDoc, DeleteDoc, stores
  <2>3. CASE RenameNested(w) \/ RenameOffers(w) \/ RenameWants(w) \/ PullNested(w) \/ PullTag(w)
    BY <1>0, <2>3, Zenon DEF RenameNested, RenameOffers, RenameWants, RenameIn, PullNested, PullTag, stores
  <2> QED
    BY <1>6, <2>1, <2>2, <2>3 DEF Work
<1> QED
  BY <1>1, <1>2, <1>3, <1>4, <1>5, <1>6

\* Where a request goes that is about to rename.
LEMMA RenamesGo ==
    ASSUME TagsTyped, NEW w \in Workers, SubmitAny(w) \/ Work(w) \/ Fail(w)
    PROVE  /\ \E step, r : Move(w, step, r)
           /\ pc'[w] \in Renaming =>
                 /\ UNCHANGED tag
                 /\ \/ pc[w] = "idle" /\ pc'[w] = "findTag"
                    \/ pc[w] \in Renaming /\ req'[w].new = req[w].new
<1> DEFINE Way == /\ \E step, r : Move(w, step, r)
                  /\ pc'[w] \in Renaming =>
                        /\ UNCHANGED tag
                        /\ \/ pc[w] = "idle" /\ pc'[w] = "findTag"
                           \/ pc[w] \in Renaming /\ req'[w].new = req[w].new
<1> SUFFICES Way
  OBVIOUS
<1>0. \A step, r : Move(w, step, r) => pc'[w] = step /\ req'[w] = r
  BY DEF Move, TagsTyped
<1>1. ASSUME NEW step, NEW r, Move(w, step, r), step \notin Renaming PROVE Way
  BY <1>0, <1>1
<1>2. ASSUME NEW step, NEW r, Move(w, step, r), step \in Renaming, UNCHANGED tag,
             \/ pc[w] = "idle" /\ step = "findTag"
             \/ pc[w] \in Renaming /\ r.new = req[w].new
      PROVE  Way
  BY <1>0, <1>2
<1> HIDE DEF Way
<1>3. CASE SubmitAny(w)
  <2>1. ASSUME NEW x, NEW i, SubmitRename(w, i, x) PROVE Way
    <3> DEFINE r == [NoReq EXCEPT !.tag = i, !.new = x]
    <3>1. Move(w, "findTag", r) /\ UNCHANGED tag /\ pc[w] = "idle"
      BY <2>1 DEF SubmitRename, SubmitNew, stores
    <3> QED
      BY <1>2, <3>1 DEF Renaming
  <2>2. ASSUME NEW x, SubmitCreate(w, x) PROVE Way
    <3>1. Move(w, "createTag", [NoReq EXCEPT !.new = x])
      BY <2>2 DEF SubmitCreate, SubmitNew
    <3> QED
      BY <1>1, <3>1 DEF Renaming
  <2>3. ASSUME NEW i, SubmitDelete(w, i) PROVE Way
    BY <1>1, <2>3 DEF SubmitDelete, Submit, Renaming
  <2>4. ASSUME NEW n, NEW change, NEW status, SubmitUpdate(w, n, change, status) PROVE Way
    BY <1>1, <2>4 DEF SubmitUpdate, Submit, Renaming
  <2> QED
    BY <1>3, <2>1, <2>2, <2>3, <2>4, Zenon DEF SubmitAny
<1>4. CASE FindTag(w)
  <2>1. CASE req[w].tag \in Live(tag)
    <3> DEFINE r == [req[w] EXCEPT !.old = tag[req[w].tag].name]
    <3>1. Move(w, "renameDoc", r) /\ UNCHANGED tag /\ pc[w] = "findTag"
      BY <1>4, <2>1 DEF FindTag, stores
    <3>2. r.new = req[w].new
      BY DEF TagsTyped, Requests
    <3> QED
      BY <1>2, <3>1, <3>2 DEF Renaming
  <2>2. CASE req[w].tag \notin Live(tag)
    BY <1>1, <1>4, <2>2 DEF FindTag, Finish, Renaming
  <2> QED
    BY <2>1, <2>2
<1>5. CASE RenameDoc(w)
  <2>1. CASE req[w].tag \in Live(tagDoc)
    <3>1. Move(w, "renameTag", req[w]) /\ UNCHANGED tag /\ pc[w] = "renameDoc"
      BY <1>5, <2>1 DEF RenameDoc, Step
    <3> QED
      BY <1>2, <3>1 DEF Renaming
  <2>2. CASE req[w].tag \notin Live(tagDoc)
    BY <1>1, <1>5, <2>2 DEF RenameDoc, Finish, Renaming
  <2> QED
    BY <2>1, <2>2
<1>6. CASE RenameTag(w) \/ RenameNested(w) \/ RenameOffers(w) \/ RenameWants(w) \/ Fail(w)
  BY <1>1, <1>6 DEF RenameTag, RenameNested, RenameOffers, RenameWants, Fail, Step, Finish, Renaming
<1>7. CASE CreateTag(w)
  <2>1. PICK i : Move(w, "indexTag", [req[w] EXCEPT !.tag = i])
    BY <1>7, Zenon DEF CreateTag
  <2> QED
    BY <1>1, <2>1 DEF Renaming
<1>8. CASE Announce(w)
  <2>1. CASE NextList(w) \/ ListFails(w)
    BY <1>1, <2>1 DEF NextList, ListFails, Renaming
  <2>2. CASE \E i, x, kind : Seek(w, i, x, kind)
    BY <1>1, <2>2 DEF Seek, Renaming
  <2> QED
    BY <1>8, <2>1, <2>2, Zenon DEF Announce
<1>9. CASE IndexTag(w) \/ Announced(w) \/ ReindexLists(w)
  BY <1>1, <1>9 DEF IndexTag, Announced, ReindexLists, Step, Finish, Renaming
<1>14. CASE WriteLists(w)
  <2>1. PICK r : Move(w, "reread", r)
    BY <1>14, Zenon DEF WriteLists
  <2> QED
    BY <1>1, <2>1 DEF Renaming
<1>10. CASE Reread(w)
  BY <1>1, <1>10 DEF Reread, Finish, Renaming
<1>11. CASE SeekDoc(w) \/ NewDoc(w)
  BY <1>1, <1>11 DEF SeekDoc, NewDoc, ListFails, Step, Renaming
<1>12. CASE DateDoc(w)
  BY <1>1, <1>12 DEF DateDoc, ListFails, NextList, Step, Renaming
<1>13. CASE DeleteDoc(w)
  BY <1>1, <1>13 DEF DeleteDoc, Step, Finish, Renaming
<1>15. CASE DeleteTag(w)
  BY <1>1, <1>15 DEF DeleteTag, Finish, Renaming
<1>16. CASE PullNested(w) \/ PullTag(w)
  BY <1>1, <1>16 DEF PullNested, PullTag, Step, Finish, Renaming
<1> QED
  BY <1>3, <1>4, <1>5, <1>6, <1>7, <1>8, <1>9, <1>10, <1>11, <1>12, <1>13,
     <1>14, <1>15, <1>16, Zenon DEF Work

LEMMA NamesNext ==
    ASSUME TagsTyped, NamesInv, Apart, LookedUp, NEW w \in Workers,
           SubmitAny(w) \/ Work(w) \/ Fail(w)
    PROVE  NamesInv'
<1>0. NamesDone(w)
  BY NamesGiven
<1>1. Distinct(tag')
  <2>1. CASE UNCHANGED tag
    BY <2>1 DEF NamesInv
  <2>2. ASSUME NEW i \in TagIds, NEW x \in Gives(w), Takes(w, i, x) PROVE Distinct(tag')
    <3>1. ASSUME NEW j \in TagIds, j # i, tag[j].life = "live", tag[j].name = x PROVE FALSE
      <4>1. Named(tag, x) /\ j \in FindByName(x)
        BY <3>1 DEF Named, FindByName, Live
      <4>2. CASE i \in Upserted(x)
        BY <3>1, <4>1, <4>2 DEF Upserted, FindByName, NamesInv, Distinct, Live
      <4>3. CASE pc[w] = "renameTag"
        BY <4>1, <4>3 DEF NamesInv, NewNames, Gives, Renaming
      <4> QED
        BY <2>2, <4>2, <4>3 DEF Takes
    <3> QED
      BY <2>2, <3>1 DEF Takes, OnlyIn, NamesInv, Distinct, Live
  <2>3. ASSUME NEW i \in TagIds, Drops(i) PROVE Distinct(tag')
    BY <2>3 DEF Drops, OnlyIn, NamesInv, Distinct, Live
  <2> QED
    BY <1>0, <2>1, <2>2, <2>3 DEF NamesDone
<1>2. ASSUME NEW v \in Workers, pc'[v] \in Renaming PROVE ~Named(tag', req'[v].new)
  <2>1. CASE v = w
    <3>1. CASE pc[w] = "idle" /\ pc'[w] = "findTag"
      BY <1>2, <2>1, <3>1, RenamesGo DEF LookedUp, FindByName, Live, Named
    <3>2. CASE pc[w] \in Renaming /\ req'[w].new = req[w].new
      BY <1>2, <2>1, <3>2, RenamesGo DEF NamesInv, NewNames
    <3> QED
      BY <1>2, <2>1, <3>1, <3>2, RenamesGo
  <2>2. CASE v # w
    <3>1. pc'[v] = pc[v] /\ req'[v] = req[v]
      BY <2>2, RenamesGo DEF Move, TagsTyped
    <3>2. ~Named(tag, req[v].new) /\ req[v].new \notin Gives(w)
      BY <1>2, <2>2, <3>1 DEF NamesInv, NewNames, Apart
    <3>3. CASE UNCHANGED tag
      BY <3>1, <3>2, <3>3
    <3>4. ASSUME NEW i \in TagIds, NEW x \in Gives(w), Takes(w, i, x)
          PROVE  ~Named(tag', req'[v].new)
      BY <3>1, <3>2, <3>4 DEF Takes, OnlyIn, Named
    <3>5. ASSUME NEW i \in TagIds, Drops(i) PROVE ~Named(tag', req'[v].new)
      BY <3>1, <3>2, <3>5 DEF Drops, OnlyIn, Named
    <3> QED
      BY <1>0, <3>3, <3>4, <3>5 DEF NamesDone
  <2> QED
    BY <2>1, <2>2
<1> QED
  BY <1>1, <1>2 DEF NamesInv, NewNames

\* However many requests are in flight, and wherever they fail or stop, tags get the
\* same name only through a rename: one whose look-up failed, or one whose new name
\* another request is about to give as well.
THEOREM NamesApart ==
    ASSUME TagsAssumption
    PROVE  Spec /\ []Apart /\ [][LookedUp]_vars => []Distinct(tag)
<1>1. Init => NamesInv
  BY DEF Init, NamesInv, Distinct, NewNames, Renaming, Live, NoTags
<1>2. TagsTyped /\ NamesInv /\ Apart /\ [Next]_vars /\ [LookedUp]_vars => NamesInv'
  <2> SUFFICES ASSUME TagsTyped, NamesInv, Apart, [Next]_vars, [LookedUp]_vars PROVE NamesInv'
    OBVIOUS
  <2>1. CASE UNCHANGED vars
    BY <2>1 DEF vars, stores, NamesInv, Distinct, NewNames, Named, Live
  <2>2. CASE Next /\ LookedUp
    BY <2>2, NamesNext DEF Next
  <2> QED
    BY <2>1, <2>2
<1>3. NamesInv => Distinct(tag)
  BY DEF NamesInv
<1> QED
  BY <1>1, <1>2, <1>3, TagsTypedInvariance, PTL DEF Spec

-----------------------------------------------------------------------------
(* What entities list, with one request at a time.                          *)

\* A tag has the name, announced as an offer where it is offered.
Told(t, k, x) == \E i \in Live(t) : t[i].name = x /\ (k = "offers" => "offers" \in t[i].dates)

Listed(e, n, k, x) == e[n].accepted /\ e[n].lists[k][x] > 0

\* What the request still has to announce, to rename or to pull.
Pending(step, r, n, k, x) ==
    \/ step = "reread" /\ n = r.entity /\ (r.accepted => x \in r.added[k])
    \/ /\ step \in DatingSteps \cup {"announce"}
       /\ \E j \in 1..Len(r.todo) : x \in r.todo[j].names /\ (k = "offers" => r.todo[j].kind = "offers")
    \/ step \in {"renameNested", "renameOffers", "pullNested", "pullTag"} /\ x = r.old
    \/ step = "renameWants" /\ x = r.old /\ k = "wants"

Covered(t, e, step, r) ==
    \A n \in Entities, k \in Kinds, x \in Names :
       Listed(e, n, k, x) => Told(t, k, x) \/ Pending(step, r, n, k, x)

\* What the request has read is still so.
Remembers(t, e, step, r) ==
    /\ step \in {"reindexLists", "writeLists"} => r.accepted = e[r.entity].accepted
    /\ step \in RenameSteps => t[r.tag].name = r.old
    /\ step \in SpreadSteps => \A n \in Entities, k \in Kinds :
                                  Listed(e, n, k, r.old) => Told(t, k, r.new)

Listing == \/ failed \/ twice
           \/ /\ ~Doubled(entity)
              /\ \A w \in Workers : /\ Covered(tag, entity, pc[w], req[w])
                                    /\ Remembers(tag, entity, pc[w], req[w])
              /\ Quiet => Covered(tag, entity, "idle", NoReq)

ListingInv == TagsTyped /\ CatalogueInv /\ Listing

\* Where a step takes the only request.
LEMMA Leads ==
    ASSUME Serial, TagsTyped, NEW w \in Workers, NEW step, NEW r, Move(w, step, r),
           \/ failed' \/ twice'
           \/ /\ ~Doubled(entity')
              /\ Covered(tag', entity', step, r) /\ Remembers(tag', entity', step, r)
    PROVE  Listing'
<1>1. \A v \in Workers : pc'[v] = step /\ req'[v] = r
  BY DEF Serial, TagsTyped, Move
<1>2. Quiet' => step = "idle"
  BY <1>1 DEF Quiet
<1>3. Covered(tag', entity', "idle", r) => Covered(tag', entity', "idle", NoReq)
  BY DEF Covered, Pending, DatingSteps
<1> QED
  BY <1>1, <1>2, <1>3 DEF Listing

\* A step that leaves tags and lists alone.
LEMMA Passes ==
    ASSUME Serial, ListingInv, NEW w \in Workers, NEW step, NEW r, Move(w, step, r),
           UNCHANGED <<tag, entity, twice>>,
           \/ failed'
           \/ /\ UNCHANGED failed
              /\ failed \/ twice \/ Remembers(tag, entity, step, r)
              /\ \A n \in Entities, k \in Kinds, x \in Names :
                    Listed(entity, n, k, x) /\ Pending(pc[w], req[w], n, k, x)
                       => Pending(step, r, n, k, x)
    PROVE  Listing'
<1>1. CASE failed' \/ twice
  BY <1>1, Leads DEF ListingInv
<1>2. CASE ~failed' /\ ~twice
  <2>1. ~Doubled(entity) /\ Covered(tag, entity, pc[w], req[w])
    BY <1>2 DEF ListingInv, Listing
  <2>2. Covered(tag, entity, step, r) /\ Remembers(tag, entity, step, r)
    BY <1>2, <2>1 DEF Covered
  <2>3. ~Doubled(entity') /\ Covered(tag', entity', step, r) /\ Remembers(tag', entity', step, r)
    BY <2>1, <2>2
  <2> QED
    BY <2>3, Leads DEF ListingInv
<1> QED
  BY <1>1, <1>2

\* One after which nothing is to be remembered.
Carefree == Steps \ ({"reindexLists", "writeLists"} \cup RenameSteps \cup SpreadSteps)

LEMMA Forgets == ASSUME NEW t, NEW e, NEW step \in Carefree, NEW r PROVE Remembers(t, e, step, r)
BY DEF Carefree, Remembers

\* One that writes neither, before and after which nothing is pending.
Unburdened == {"idle", "reindexLists", "writeLists", "createTag", "indexTag", "findTag", "renameDoc",
               "renameTag", "deleteDoc", "deleteTag"}

LEMMA NothingPending == ASSUME NEW step \in Unburdened, NEW r, NEW n, NEW k, NEW x
                        PROVE  ~Pending(step, r, n, k, x)
BY DEF Unburdened, Pending, DatingSteps

LEMMA PassesBy ==
    ASSUME Serial, ListingInv, NEW w \in Workers, pc[w] \in Unburdened, NEW step, NEW r,
           Move(w, step, r), UNCHANGED <<tag, entity, twice>>,
           \/ failed'
           \/ UNCHANGED failed /\ (failed \/ twice \/ Remembers(tag, entity, step, r))
    PROVE  Listing'
BY NothingPending, Passes

LEMMA Reads ==
    ASSUME ListingInv, NEW w \in Workers, ~failed, ~twice
    PROVE  /\ ~Doubled(entity)
           /\ Covered(tag, entity, pc[w], req[w]) /\ Remembers(tag, entity, pc[w], req[w])
BY DEF ListingInv, Listing

-----------------------------------------------------------------------------
LEMMA SubmitLists == ASSUME Serial, ListingInv, NEW w \in Workers, SubmitAny(w) PROVE Listing'
<1>1. ASSUME NEW n, NEW change, NEW status, SubmitUpdate(w, n, change, status)
      PROVE  Listing'
  <2>1. PICK r : /\ r.accepted = entity[n].accepted /\ r.entity = n
                 /\ Submit(w, "reindexLists", r)
    BY <1>1 DEF SubmitUpdate, NoReq
  <2>2. Remembers(tag, entity, "reindexLists", r)
    BY <2>1 DEF Remembers, RenameSteps, SpreadSteps
  <2>3. pc[w] \in Unburdened /\ Move(w, "reindexLists", r) /\ UNCHANGED <<tag, entity, twice, failed>>
    BY <2>1 DEF Submit, Unburdened, stores, entities
  <2> QED
    BY <2>2, <2>3, PassesBy
<1>2. ASSUME NEW step \in Carefree, NEW r, Submit(w, step, r) \/ SubmitNew(w, step, r)
      PROVE  Listing'
  <2>1. /\ pc[w] \in Unburdened /\ Move(w, step, r) /\ UNCHANGED <<tag, entity, twice>>
        /\ failed' \/ UNCHANGED failed
    BY <1>2 DEF Submit, SubmitNew, Unburdened, stores, entities
  <2>2. Remembers(tag, entity, step, r)
    BY Forgets
  <2> QED
    BY <2>1, <2>2, PassesBy
<1>3. "createTag" \in Carefree /\ "findTag" \in Carefree /\ "deleteDoc" \in Carefree
  BY DEF Carefree, Steps, RenameSteps, SpreadSteps
<1> QED
  BY <1>1, <1>2, <1>3 DEF SubmitAny, SubmitCreate, SubmitRename, SubmitDelete

LEMMA ReindexListed == ASSUME Serial, ListingInv, NEW w \in Workers, ReindexLists(w) PROVE Listing'
<1>1. /\ Move(w, "writeLists", req[w]) /\ UNCHANGED <<tag, entity, twice, failed>>
      /\ pc[w] = "reindexLists" /\ pc[w] \in Unburdened
  BY DEF ReindexLists, Step, Unburdened
<1>2. failed \/ twice \/ Remembers(tag, entity, "writeLists", req[w])
  BY <1>1, Reads DEF Remembers, RenameSteps, SpreadSteps
<1> QED
  BY <1>1, <1>2, PassesBy

LEMMA WriteListed == ASSUME Serial, ListingInv, NEW w \in Workers, WriteLists(w) PROVE Listing'
<1> DEFINE r == req[w]
           account == [accepted |-> Accepted(entity[r.entity], r),
                       lists |-> [k \in Kinds |-> [x \in Names |->
                          IF x \in r.removed[k] THEN 0
                          ELSE entity[r.entity].lists[k][x] + IF x \in r.added[k] THEN 1 ELSE 0]]]
           e == [entity EXCEPT ![r.entity] = account]
           s == [NoReq EXCEPT !.entity = r.entity, !.accepted = r.accepted,
                              !.added = IF r.accepted THEN r.added ELSE Nothing]
<1>1. /\ SetEntities(e) /\ Move(w, "reread", s) /\ UNCHANGED <<tag, failed>>
      /\ pc[w] = "writeLists" /\ pc[w] \in Unburdened
  BY DEF WriteLists, Unburdened
<1>2. /\ s.entity = r.entity /\ s.accepted = r.accepted /\ (r.accepted => s.added = r.added)
  BY DEF NoReq
<1>3. /\ DOMAIN entity = Entities
      /\ \A k \in Kinds, x \in Names : entity[r.entity].lists[k][x] \in Nat
  <2>1. entity \in [Entities -> Accounts] /\ r.entity \in Entities
    BY <1>1 DEF ListingInv, TagsTyped, StoresTyped, Knows
  <2> QED
    BY <2>1 DEF Accounts, Lists
<1>4. \A k \in Kinds, x \in Names : account.lists[k][x] > 0 =>
         x \in r.added[k] \/ entity[r.entity].lists[k][x] > 0
  BY <1>3
<1> HIDE DEF s, account
<1>5. CASE failed \/ twice \/ Doubled(e)
  BY <1>1, <1>5, Leads DEF ListingInv, SetEntities
<1>6. CASE ~failed /\ ~twice /\ ~Doubled(e)
  <2>1. Covered(tag, entity, pc[w], r) /\ Remembers(tag, entity, pc[w], r)
    BY <1>6, Reads
  <2>2. ASSUME NEW n \in Entities, NEW k \in Kinds, NEW x \in Names, Listed(e, n, k, x)
        PROVE  Told(tag, k, x) \/ Pending("reread", s, n, k, x)
    <3>1. CASE Listed(entity, n, k, x)
      BY <1>1, <2>1, <3>1, NothingPending DEF Covered
    <3>2. CASE ~Listed(entity, n, k, x)
      <4>1. n = r.entity /\ account.lists[k][x] > 0
        BY <1>3, <2>2, <3>2 DEF Listed
      <4>2. r.accepted => x \in r.added[k]
        BY <1>1, <1>4, <2>1, <3>2, <4>1 DEF Listed, Remembers
      <4> QED
        BY <1>2, <4>1, <4>2 DEF Pending
    <3> QED
      BY <3>1, <3>2
  <2>3. Covered(tag, e, "reread", s)
    BY <2>2 DEF Covered
  <2>4. Remembers(tag, e, "reread", s)
    BY Forgets DEF Carefree, Steps, RenameSteps, SpreadSteps
  <2>5. entity' = e /\ tag' = tag
    BY <1>1 DEF SetEntities
  <2>6. ~Doubled(entity') /\ Covered(tag', entity', "reread", s) /\ Remembers(tag', entity', "reread", s)
    BY <1>6, <2>3, <2>4, <2>5
  <2> QED
    BY <1>1, <2>6, Leads DEF ListingInv
<1> QED
  BY <1>5, <1>6

LEMMA RereadListed == ASSUME Serial, ListingInv, NEW w \in Workers, Reread(w) PROVE Listing'
<1> DEFINE r == req[w]
           now == entity[r.entity]
           batch(kind, names) == [kind |-> kind, names |-> names]
           todo == IF r.accepted
                   THEN <<batch("offers", r.added["offers"]), batch("wants", r.added["wants"])>>
                   ELSE <<batch("offers", NamesOf(now.lists["offers"])),
                          batch("offers", NamesOf(now.lists["wants"]))>>
<1>1. UNCHANGED <<tag, entity, twice, failed>> /\ pc[w] = "reread"
  BY DEF Reread, Finish, stores, entities
<1>2. ASSUME NEW n, NEW k, NEW x, Pending(pc[w], r, n, k, x)
      PROVE  n = r.entity /\ (r.accepted => x \in r.added[k])
  BY <1>1, <1>2 DEF Pending, DatingSteps
<1>3. CASE ~now.accepted /\ Finish(w)
  <2>1. Remembers(tag, entity, "idle", NoReq)
    BY Forgets DEF Carefree, Steps, RenameSteps, SpreadSteps
  <2>2. \A n \in Entities, k \in Kinds, x \in Names :
           ~(Listed(entity, n, k, x) /\ Pending(pc[w], r, n, k, x))
    BY <1>2, <1>3 DEF Listed
  <2> QED
    BY <1>1, <1>3, <2>1, <2>2, Passes DEF Finish
<1>4. CASE Move(w, "announce", [NoReq EXCEPT !.todo = todo])
  <2> DEFINE s == [NoReq EXCEPT !.todo = todo]
  <2>1. s.todo = todo
    BY DEF NoReq
  <2>2. ASSUME NEW k \in Kinds, NEW x \in Names, Listed(entity, r.entity, k, x),
               r.accepted => x \in r.added[k]
        PROVE  \E j \in 1..Len(todo) : x \in todo[j].names /\ (k = "offers" => todo[j].kind = "offers")
    <3> DEFINE j == IF k = "offers" THEN 1 ELSE 2
    <3>1. k = "offers" \/ k = "wants"
      BY DEF Kinds
    <3>2. x \in NamesOf(now.lists[k])
      BY <2>2 DEF NamesOf, Listed
    <3>3. CASE r.accepted
      <4>1. todo = <<batch("offers", r.added["offers"]), batch("wants", r.added["wants"])>>
        BY <3>3
      <4>2. j \in 1..Len(todo) /\ x \in todo[j].names /\ (k = "offers" => todo[j].kind = "offers")
        BY <2>2, <3>1, <3>3, <4>1
      <4> QED
        BY <4>2
    <3>4. CASE ~r.accepted
      <4>1. todo = <<batch("offers", NamesOf(now.lists["offers"])),
                     batch("offers", NamesOf(now.lists["wants"]))>>
        BY <3>4
      <4>2. j \in 1..Len(todo) /\ x \in todo[j].names /\ (k = "offers" => todo[j].kind = "offers")
        BY <3>1, <3>2, <4>1
      <4> QED
        BY <4>2
    <3> QED
      BY <3>3, <3>4
  <2> HIDE DEF todo, s
  <2>3. ASSUME NEW n \in Entities, NEW k \in Kinds, NEW x \in Names,
               Listed(entity, n, k, x), Pending(pc[w], r, n, k, x)
        PROVE  Pending("announce", s, n, k, x)
    <3>1. n = r.entity /\ (r.accepted => x \in r.added[k])
      BY <1>2, <2>3
    <3> QED
      BY <2>1, <2>2, <2>3, <3>1 DEF Pending
  <2>4. Remembers(tag, entity, "announce", s)
    BY Forgets DEF Carefree, Steps, RenameSteps, SpreadSteps
  <2>5. Move(w, "announce", s)
    BY <1>4 DEF s
  <2> QED
    BY <1>1, <2>3, <2>4, <2>5, Passes
<1> QED
  BY <1>3, <1>4 DEF Reread

-----------------------------------------------------------------------------
(* A name is announced.                                                     *)

\* What is told stays told when tags grow, and the new name is told.
LEMMA Tells ==
    ASSUME ListingInv, NEW i \in TagIds, NEW row,
           tag' = [tag EXCEPT ![i] = row], row.life = "live", tag[i].dates \subseteq row.dates,
           i \in Live(tag) => tag[i].name = row.name
    PROVE  /\ \A k, x : Told(tag, k, x) => Told(tag', k, x)
           /\ \A k : (k = "offers" => "offers" \in row.dates) => Told(tag', k, row.name)
<1>1. /\ tag'[i] = row /\ i \in Live(tag')
      /\ \A j \in Live(tag) : j # i => j \in Live(tag') /\ tag'[j] = tag[j]
  BY DEF ListingInv, TagsTyped, StoresTyped, Live
<1>2. ASSUME NEW k, NEW x, Told(tag, k, x) PROVE Told(tag', k, x)
  <2>1. PICK j \in Live(tag) : tag[j].name = x /\ (k = "offers" => "offers" \in tag[j].dates)
    BY <1>2 DEF Told
  <2>2. j \in Live(tag') /\ tag'[j].name = x /\ (k = "offers" => "offers" \in tag'[j].dates)
    BY <1>1, <2>1
  <2> QED
    BY <2>2 DEF Told
<1> QED
  BY <1>1, <1>2 DEF Told

\* A step that writes a tag, after which all is told that was, or pending.
LEMMA WritesTold ==
    ASSUME Serial, ListingInv, NEW w \in Workers, NEW step \in Carefree, NEW r, Move(w, step, r),
           UNCHANGED <<entity, twice, failed>>,
           \A n \in Entities, k \in Kinds, x \in Names :
              Told(tag, k, x) \/ Pending(pc[w], req[w], n, k, x)
                 => Told(tag', k, x) \/ Pending(step, r, n, k, x)
    PROVE  Listing'
<1>1. CASE failed \/ twice
  BY <1>1, Leads DEF ListingInv
<1>2. CASE ~failed /\ ~twice
  <2>1. ~Doubled(entity) /\ Covered(tag, entity, pc[w], req[w])
    BY <1>2, Reads
  <2>2. Covered(tag', entity', step, r)
    BY <2>1 DEF Covered
  <2>3. Remembers(tag', entity', step, r) /\ ~Doubled(entity')
    BY <2>1, Forgets
  <2> QED
    BY <2>2, <2>3, Leads DEF ListingInv
<1> QED
  BY <1>1, <1>2

LEMMA ListFailsListed ==
    ASSUME Serial, ListingInv, NEW w \in Workers, ListFails(w), UNCHANGED <<tag, entity, twice>>
    PROVE  Listing'
BY Passes DEF ListFails

LEMMA AnnounceListed == ASSUME Serial, ListingInv, NEW w \in Workers, Announce(w) PROVE Listing'
<1> DEFINE list == Head(req[w].todo)
           old == req[w].todo
<1>1. /\ old \in Seq(Batches) /\ old # <<>> /\ pc[w] = "announce"
      /\ UNCHANGED <<tagDoc, entity, twice>>
  BY DEF Announce, ListingInv, TagsTyped, Requests, entities
<1>2. list = old[1] /\ 1 \in 1..Len(old) /\ list \in Batches
  BY <1>1, HeadTailProperties
<1>announce. "announce" \in Carefree /\ "seekDoc" \in Carefree
  BY DEF Carefree, Steps, RenameSteps, SpreadSteps
<1>3. CASE ListFails(w) /\ UNCHANGED tag
  BY <1>1, <1>3, ListFailsListed
<1>4. CASE list.names = {} /\ NextList(w) /\ UNCHANGED tag
  <2> DEFINE todo == Tail(old)
             r == [NoReq EXCEPT !.todo = todo]
  <2>1. /\ Len(todo) = Len(old) - 1 /\ Len(old) \in Nat
        /\ \A j \in 1..Len(todo) : todo[j] = old[j+1]
    BY <1>1, HeadTailProperties
  <2>2. r.todo = todo /\ Move(w, "announce", r) /\ UNCHANGED failed
    BY <1>4 DEF NoReq, NextList
  <2> HIDE DEF r, todo
  <2>3. ASSUME NEW n, NEW k, NEW x, Pending(pc[w], req[w], n, k, x)
        PROVE  Pending("announce", r, n, k, x)
    <3>1. PICK j \in 1..Len(old) : x \in old[j].names /\ (k = "offers" => old[j].kind = "offers")
      BY <1>1, <2>3 DEF Pending
    <3>2. j # 1
      BY <1>2, <1>4, <3>1
    <3>3. j - 1 \in 1..Len(todo) /\ todo[j - 1] = old[j]
      BY <2>1, <3>1, <3>2
    <3> QED
      BY <2>2, <3>1, <3>3 DEF Pending
  <2>4. Remembers(tag, entity, "announce", r)
    BY <1>announce, Forgets
  <2> QED
    BY <1>1, <1>4, <2>2, <2>3, <2>4, Passes
<1>5. ASSUME NEW x0 \in list.names, NEW i \in Upserted(x0), Seek(w, i, x0, list.kind),
             tag' = [tag EXCEPT ![i] = [life |-> "live", name |-> x0,
                                        dates |-> @.dates \cup {list.kind}]]
      PROVE  Listing'
  <2> DEFINE rest == [list EXCEPT !.names = @ \ {x0}]
             todo == [old EXCEPT ![1].names = @ \ {x0}]
             kind == list.kind
             r == [NoReq EXCEPT !.tag = i, !.new = x0, !.kind = kind, !.todo = todo]
             row == [life |-> "live", name |-> x0, dates |-> tag[i].dates \cup {kind}]
  <2>1. todo = [old EXCEPT ![1] = rest] /\ rest \in Batches
    BY <1>1, <1>2 DEF Batches
  <2>2. rest.names = list.names \ {x0} /\ rest.kind = kind
    BY <1>2 DEF Batches
  <2> HIDE DEF rest
  <2>3. /\ Len(todo) = Len(old)
        /\ \A j \in 1..Len(old) : todo[j] = IF j = 1 THEN rest ELSE old[j]
    <3> HIDE DEF old, todo
    <3>1. /\ Len([old EXCEPT ![1] = rest]) = Len(old)
          /\ \A j \in 1..Len(old) : [old EXCEPT ![1] = rest][j] = IF j = 1 THEN rest ELSE old[j]
      BY <1>1, <1>2, <2>1, ExceptSeq
    <3> QED
      BY <2>1, <3>1
  <2>4. r.todo = todo /\ Move(w, "seekDoc", r) /\ UNCHANGED failed
    BY <1>5 DEF NoReq, Seek
  <2>5. i \in TagIds /\ (i \in Live(tag) => tag[i].name = x0)
    BY <1>5, UpsertedAlive DEF Upserted, FindByName, Live
  <2>6. /\ tag' = [tag EXCEPT ![i] = row] /\ row.life = "live" /\ row.name = x0
        /\ tag[i].dates \subseteq row.dates /\ kind \in row.dates
    BY <1>5
  <2> HIDE DEF todo, r, row
  <2>7. /\ \A k, x : Told(tag, k, x) => Told(tag', k, x)
        /\ \A k : (k = "offers" => kind = "offers") => Told(tag', k, x0)
    BY <2>5, <2>6, Tells
  <2>8. ASSUME NEW n, NEW k, NEW x, Pending(pc[w], req[w], n, k, x)
        PROVE  Told(tag', k, x) \/ Pending("seekDoc", r, n, k, x)
    <3>1. PICK j \in 1..Len(old) : x \in old[j].names /\ (k = "offers" => old[j].kind = "offers")
      BY <1>1, <2>8 DEF Pending
    <3>2. CASE j = 1 /\ x = x0
      BY <1>2, <2>7, <3>1, <3>2
    <3>3. CASE ~(j = 1 /\ x = x0)
      <4>1. x \in todo[j].names /\ (k = "offers" => todo[j].kind = "offers") /\ j \in 1..Len(todo)
        BY <1>2, <2>2, <2>3, <3>1, <3>3
      <4> QED
        BY <2>4, <4>1 DEF Pending, DatingSteps
    <3> QED
      BY <3>2, <3>3
  <2>9. \A n \in Entities, k \in Kinds, x \in Names :
           Told(tag, k, x) \/ Pending(pc[w], req[w], n, k, x)
              => Told(tag', k, x) \/ Pending("seekDoc", r, n, k, x)
    BY <2>7, <2>8
  <2> QED
    BY <1>1, <1>announce, <2>4, <2>9, WritesTold
<1> QED
  BY <1>3, <1>4, <1>5 DEF Announce

LEMMA AnnouncedListed == ASSUME Serial, ListingInv, NEW w \in Workers, Announced(w) PROVE Listing'
<1>1. /\ Move(w, "idle", NoReq) /\ UNCHANGED <<tag, entity, twice, failed>>
      /\ pc[w] = "announce" /\ req[w].todo = <<>>
  BY DEF Announced, Finish, stores, entities
<1>2. \A n, k, x : ~Pending(pc[w], req[w], n, k, x)
  BY <1>1 DEF Pending
<1>3. Remembers(tag, entity, "idle", NoReq)
  BY Forgets DEF Carefree, Steps, RenameSteps, SpreadSteps
<1> QED
  BY <1>1, <1>2, <1>3, Passes

\* A document is sought or written: what is pending stays so.
LEMMA DocListed ==
    ASSUME Serial, ListingInv, NEW w \in Workers, SeekDoc(w) \/ NewDoc(w) \/ DateDoc(w)
    PROVE  Listing'
<1>1. UNCHANGED <<tag, entity, twice>> /\ pc[w] \in DatingSteps
  BY DEF SeekDoc, NewDoc, DateDoc, stores, entities, DatingSteps
<1>2. CASE ListFails(w)
  BY <1>1, <1>2, ListFailsListed
<1>3. ASSUME NEW step \in DatingSteps \cup {"announce"}, Step(w, step) PROVE Listing'
  <2>1. Move(w, step, req[w]) /\ UNCHANGED failed
    BY <1>3 DEF Step
  <2>2. Remembers(tag, entity, step, req[w])
    BY Forgets DEF Carefree, Steps, RenameSteps, SpreadSteps, DatingSteps
  <2>3. \A n, k, x : Pending(pc[w], req[w], n, k, x) => Pending(step, req[w], n, k, x)
    BY <1>1 DEF Pending, DatingSteps
  <2> QED
    BY <1>1, <2>1, <2>2, <2>3, Passes
<1>4. CASE DateDoc(w) /\ NextList(w) /\ req[w].tag \notin Live(tagDoc)
  <2>1. failed
    BY <1>4 DEF DateDoc, ListingInv, CatalogueInv, Finds
  <2>2. failed'
    BY <1>4, <2>1 DEF NextList
  <2> QED
    BY <1>1, <1>4, <2>2, Passes DEF NextList
<1> QED
  BY <1>2, <1>3, <1>4 DEF SeekDoc, NewDoc, DateDoc, DatingSteps

-----------------------------------------------------------------------------
(* The requests of admins.                                                  *)

LEMMA CreateListed == ASSUME Serial, ListingInv, NEW w \in Workers, CreateTag(w) PROVE Listing'
<1>1. PICK i \in Upserted(req[w].new) :
         /\ tag' = [tag EXCEPT ![i] = [life |-> "live", name |-> req[w].new, dates |-> @.dates]]
         /\ Go(w, "indexTag", [req[w] EXCEPT !.tag = i])
  BY DEF CreateTag
<1> DEFINE row == [life |-> "live", name |-> req[w].new, dates |-> tag[i].dates]
           r == [req[w] EXCEPT !.tag = i]
<1>2. /\ Move(w, "indexTag", r) /\ pc[w] \in Unburdened
      /\ UNCHANGED <<entity, twice, failed>>
  BY <1>1 DEF CreateTag, entities, Unburdened
<1>3. i \in TagIds /\ (i \in Live(tag) => tag[i].name = row.name)
  BY UpsertedAlive DEF Upserted, FindByName, Live
<1>4. /\ tag' = [tag EXCEPT ![i] = row] /\ row.life = "live" /\ tag[i].dates \subseteq row.dates
  BY <1>1
<1> HIDE DEF row, r
<1>5. \A k, x : Told(tag, k, x) => Told(tag', k, x)
  BY <1>3, <1>4, Tells
<1>6. "indexTag" \in Carefree
  BY DEF Carefree, Steps, RenameSteps, SpreadSteps
<1>7. \A n \in Entities, k \in Kinds, x \in Names :
         Told(tag, k, x) \/ Pending(pc[w], req[w], n, k, x)
            => Told(tag', k, x) \/ Pending("indexTag", r, n, k, x)
  BY <1>2, <1>5, NothingPending
<1> QED
  BY <1>2, <1>6, <1>7, WritesTold

\* Steps that only look, or write the index, and what follows is remembered.
LEMMA LooksListed ==
    ASSUME Serial, ListingInv, NEW w \in Workers,
           IndexTag(w) \/ FindTag(w) \/ RenameDoc(w) \/ DeleteDoc(w)
    PROVE  Listing'
<1>1. UNCHANGED <<tag, entity, twice, failed>> /\ pc[w] \in Unburdened
  BY DEF IndexTag, FindTag, RenameDoc, DeleteDoc, Finish, Step, stores, entities, Unburdened
<1>2. ASSUME NEW step \in Carefree, NEW r, Move(w, step, r) PROVE Listing'
  BY <1>1, <1>2, Forgets, PassesBy
<1>3. "idle" \in Carefree /\ "deleteTag" \in Carefree
  BY DEF Carefree, Steps, RenameSteps, SpreadSteps
<1>4. CASE Move(w, "idle", NoReq) \/ Move(w, "deleteTag", req[w])
  BY <1>2, <1>3, <1>4
<1>5. CASE FindTag(w) /\ Move(w, "renameDoc", [req[w] EXCEPT !.old = tag[req[w].tag].name])
  <2> DEFINE r == [req[w] EXCEPT !.old = tag[req[w].tag].name]
  <2>1. r.tag = req[w].tag /\ r.old = tag[req[w].tag].name
    BY DEF ListingInv, TagsTyped, Requests
  <2> HIDE DEF r
  <2>2. Remembers(tag, entity, "renameDoc", r)
    BY <2>1 DEF Remembers, SpreadSteps
  <2>3. Move(w, "renameDoc", r)
    BY <1>5 DEF r
  <2> QED
    BY <1>1, <2>2, <2>3, PassesBy
<1>6. CASE RenameDoc(w) /\ Move(w, "renameTag", req[w])
  <2>1. failed \/ twice \/ Remembers(tag, entity, "renameTag", req[w])
    BY <1>6, Reads DEF RenameDoc, Remembers, RenameSteps, SpreadSteps
  <2> QED
    BY <1>1, <1>6, <2>1, PassesBy
<1> QED
  BY <1>4, <1>5, <1>6 DEF IndexTag, FindTag, RenameDoc, DeleteDoc, Finish, Step

\* The tag has its new name: what listed the old one is to be renamed.
LEMMA RenameTagListed == ASSUME Serial, ListingInv, NEW w \in Workers, RenameTag(w) PROVE Listing'
<1> DEFINE r == req[w]
           i == r.tag
           row == [life |-> "live", name |-> r.new, dates |-> tag[i].dates]
<1>1. pc[w] = "renameTag" /\ pc[w] \in Unburdened /\ UNCHANGED <<entity, twice, failed>>
  BY DEF RenameTag, Finish, Step, entities, Unburdened
<1>idle. "idle" \in Carefree
  BY DEF Carefree, Steps, RenameSteps, SpreadSteps
<1>2. CASE i \notin Live(tag)
  BY <1>1, <1>2, <1>idle, Forgets, PassesBy DEF RenameTag, Finish
<1>3. CASE i \in Live(tag)
  <2>1. tag' = [tag EXCEPT ![i] = row] /\ Move(w, "renameNested", r)
    BY <1>3 DEF RenameTag, Step
  <2>2. CASE failed \/ twice
    BY <1>1, <2>1, <2>2, Leads DEF ListingInv
  <2>3. CASE ~failed /\ ~twice
    <3>1. ~Doubled(entity) /\ Covered(tag, entity, pc[w], r) /\ tag[i].name = r.old
      BY <1>1, <2>3, Reads DEF Remembers, RenameSteps
    <3>2. \A j \in Live(tag) : tag[j].name = r.old => j = i
      BY <1>3, <2>3, <3>1 DEF ListingInv, CatalogueInv, Catalogue
    <3>3. /\ i \in Live(tag') /\ tag'[i].name = r.new /\ tag'[i].dates = tag[i].dates
          /\ \A j \in Live(tag) : j # i => j \in Live(tag') /\ tag'[j] = tag[j]
      BY <1>3, <2>1 DEF ListingInv, TagsTyped, StoresTyped, Live
    <3>4. ASSUME NEW k, Told(tag, k, r.old) PROVE Told(tag', k, r.new)
      BY <3>2, <3>3, <3>4 DEF Told
    <3>5. ASSUME NEW k, NEW x, x # r.old, Told(tag, k, x) PROVE Told(tag', k, x)
      BY <3>1, <3>3, <3>5 DEF Told
    <3>6. ASSUME NEW n \in Entities, NEW k \in Kinds, NEW x \in Names, Listed(entity, n, k, x)
          PROVE  Told(tag, k, x)
      BY <1>1, <3>1, <3>6, NothingPending DEF Covered
    <3>7. Covered(tag', entity', "renameNested", r)
      <4> SUFFICES ASSUME NEW n \in Entities, NEW k \in Kinds, NEW x \in Names,
                          Listed(entity, n, k, x)
                   PROVE  Told(tag', k, x) \/ Pending("renameNested", r, n, k, x)
        BY <1>1 DEF Covered
      <4>1. CASE x = r.old
        BY <4>1 DEF Pending
      <4>2. CASE x # r.old
        BY <3>5, <3>6, <4>2
      <4> QED
        BY <4>1, <4>2
    <3>8. r.old \in Names
      BY <1>1 DEF ListingInv, TagsTyped, Knows, RenameSteps
    <3>9. Remembers(tag', entity', "renameNested", r)
      BY <1>1, <3>4, <3>6, <3>8 DEF Remembers, RenameSteps
    <3>10. ~Doubled(entity')
      BY <1>1, <3>1
    <3> QED
      BY <2>1, <3>7, <3>9, <3>10, Leads DEF ListingInv
  <2> QED
    BY <2>2, <2>3
<1> QED
  BY <1>2, <1>3

\* The tag is gone: what listed it is to be pulled.
LEMMA DeleteTagListed == ASSUME Serial, ListingInv, NEW w \in Workers, DeleteTag(w) PROVE Listing'
<1> DEFINE i == req[w].tag
           row == [life |-> "deleted", name |-> NoName, dates |-> {}]
           r == [req[w] EXCEPT !.old = tag[i].name]
<1>1. /\ pc[w] \in Unburdened /\ UNCHANGED <<entity, twice, failed>>
      /\ "idle" \in Carefree /\ "pullNested" \in Carefree
  BY DEF DeleteTag, Finish, entities, Unburdened, Carefree, Steps, RenameSteps, SpreadSteps
<1>2. CASE i \notin Live(tag)
  BY <1>1, <1>2, Forgets, PassesBy DEF DeleteTag, Finish
<1>3. CASE i \in Live(tag)
  <2>1. tag' = [tag EXCEPT ![i] = row] /\ Move(w, "pullNested", r)
    BY <1>3 DEF DeleteTag
  <2>2. r.old = tag[i].name
    BY DEF ListingInv, TagsTyped, Requests
  <2> HIDE DEF r
  <2>3. \A j \in Live(tag) : j # i => j \in Live(tag') /\ tag'[j] = tag[j]
    BY <1>3, <2>1 DEF ListingInv, TagsTyped, StoresTyped, Live
  <2>4. ASSUME NEW k, NEW x, Told(tag, k, x), x # r.old PROVE Told(tag', k, x)
    BY <2>2, <2>3, <2>4 DEF Told
  <2>5. \A n, k, x : x = r.old => Pending("pullNested", r, n, k, x)
    BY DEF Pending
  <2>6. \A n \in Entities, k \in Kinds, x \in Names :
           Told(tag, k, x) \/ Pending(pc[w], req[w], n, k, x)
              => Told(tag', k, x) \/ Pending("pullNested", r, n, k, x)
    BY <1>1, <2>4, <2>5, NothingPending
  <2> QED
    BY <1>1, <2>1, <2>6, WritesTold
<1> QED
  BY <1>2, <1>3

\* The goroutines: nothing is found in the entities index.
LEMMA NestedListed ==
    ASSUME Serial, ListingInv, NEW w \in Workers, RenameNested(w) \/ PullNested(w)
    PROVE  Listing'
<1>1. UNCHANGED <<tag, entity, twice, failed>>
  BY DEF RenameNested, PullNested, Step, stores, entities
<1>2. CASE RenameNested(w)
  <2>1. pc[w] = "renameNested" /\ Move(w, "renameOffers", req[w])
    BY <1>2 DEF RenameNested, Step
  <2>2. \A n, k, x : Pending(pc[w], req[w], n, k, x) => Pending("renameOffers", req[w], n, k, x)
    BY <2>1 DEF Pending, DatingSteps
  <2>3. failed \/ twice \/ Remembers(tag, entity, "renameOffers", req[w])
    BY <2>1, Reads DEF Remembers, RenameSteps, SpreadSteps
  <2> QED
    BY <1>1, <2>1, <2>2, <2>3, Passes
<1>3. CASE PullNested(w)
  <2>1. pc[w] = "pullNested" /\ Move(w, "pullTag", req[w])
    BY <1>3 DEF PullNested, Step
  <2>2. \A n, k, x : Pending(pc[w], req[w], n, k, x) => Pending("pullTag", req[w], n, k, x)
    BY <2>1 DEF Pending, DatingSteps
  <2>3. Remembers(tag, entity, "pullTag", req[w])
    BY Forgets DEF Carefree, Steps, RenameSteps, SpreadSteps
  <2> QED
    BY <1>1, <2>1, <2>2, <2>3, Passes
<1> QED
  BY <1>2, <1>3

-----------------------------------------------------------------------------
(* The names in the lists are renamed or pulled.                            *)

\* What a list holds in which a name that stood there once is renamed.
LEMMA RenamedHolds ==
    ASSUME NEW list \in [Names -> Nat], NEW old \in Names, NEW new \in Names, NEW x \in Names,
           list[old] = 1, RenamedOnce(list, old, new)[x] > 0
    PROVE  x = new \/ (x # old /\ list[x] > 0)
<1> DEFINE rest == [list EXCEPT ![old] = @ - 1]
<1>1. \A y \in Names : rest[y] = IF y = old THEN 0 ELSE list[y]
  OBVIOUS
<1>2. DOMAIN rest = Names
  OBVIOUS
<1>3. RenamedOnce(list, old, new) = [rest EXCEPT ![new] = @ + 1]
  BY DEF RenamedOnce
<1> HIDE DEF rest
<1>4. x # new => RenamedOnce(list, old, new)[x] = rest[x]
  BY <1>2, <1>3
<1> QED
  BY <1>1, <1>4

\* What entities list afterwards: the new name where the old one was, or what they
\* listed before.
LEMMA RenameInLists ==
    ASSUME TagsTyped, ~Doubled(entity), NEW kind \in Kinds, NEW old \in Names, NEW new \in Names,
           RenameIn(kind, old, new),
           NEW n \in Entities, NEW k \in Kinds, NEW x \in Names, Listed(entity', n, k, x)
    PROVE  \/ k = kind /\ x = new /\ Listed(entity, n, kind, old)
           \/ Listed(entity, n, k, x) /\ ~(k = kind /\ x = old)
<1> DEFINE listed == {m \in Entities : entity[m].lists[kind][old] > 0}
           renamed(m) == [entity[m] EXCEPT !.lists[kind] = RenamedOnce(@, old, new)]
           list == entity[n].lists[kind]
<1>1. entity' = [m \in Entities |-> IF m \in listed THEN renamed(m) ELSE entity[m]]
  BY DEF RenameIn, SetEntities
<1>2. entity[n] \in Accounts /\ list \in [Names -> Nat]
  BY DEF TagsTyped, StoresTyped, Accounts, Lists
<1>3. CASE n \notin listed
  <2>1. entity'[n] = entity[n] /\ ~(list[old] > 0)
    BY <1>1, <1>3
  <2> QED
    BY <2>1 DEF Listed
<1>4. CASE n \in listed
  <2>1. entity'[n] = renamed(n) /\ list[old] > 0
    BY <1>1, <1>4
  <2>2. list[old] = 1
    BY <1>2, <2>1 DEF Doubled
  <2>3. /\ renamed(n).accepted = entity[n].accepted
        /\ renamed(n).lists = [entity[n].lists EXCEPT ![kind] = RenamedOnce(list, old, new)]
    BY <1>2 DEF Accounts
  <2>4. entity[n].accepted /\ renamed(n).lists[k][x] > 0
    BY <2>1, <2>3 DEF Listed
  <2>5. CASE k # kind
    <3>1. renamed(n).lists[k] = entity[n].lists[k]
      BY <1>2, <2>3, <2>5 DEF Accounts, Lists
    <3> QED
      BY <2>4, <2>5, <3>1 DEF Listed
  <2>6. CASE k = kind
    <3>1. renamed(n).lists[k] = RenamedOnce(list, old, new)
      BY <1>2, <2>3, <2>6 DEF Accounts, Lists
    <3> HIDE DEF renamed
    <3>2. x = new \/ (x # old /\ list[x] > 0)
      BY <1>2, <2>2, <2>4, <3>1, RenamedHolds
    <3> QED
      BY <2>1, <2>4, <2>6, <3>2 DEF Listed
  <2> QED
    BY <2>5, <2>6
<1> QED
  BY <1>3, <1>4

LEMMA RenameInListed ==
    ASSUME Serial, ListingInv, NEW w \in Workers, NEW step, NEW r, Move(w, step, r), UNCHANGED failed,
           pc[w] \in SpreadSteps, NEW kind \in Kinds, RenameIn(kind, req[w].old, req[w].new),
           \A n \in Entities, k \in Kinds, x \in Names :
              Pending(pc[w], req[w], n, k, x) /\ ~(k = kind /\ x = req[w].old) => Pending(step, r, n, k, x),
           \/ step \in Carefree
           \/ step \in SpreadSteps /\ r = req[w]
    PROVE  Listing'
<1> DEFINE old == req[w].old
           new == req[w].new
<1>1. old \in Names /\ new \in Names /\ UNCHANGED tag
  BY DEF ListingInv, TagsTyped, Knows, RenameIn, SpreadSteps
<1>2. CASE failed \/ twice \/ twice'
  BY <1>2, Leads DEF ListingInv, RenameIn, SetEntities
<1>3. CASE ~failed /\ ~twice /\ ~twice'
  <2>1. ~Doubled(entity) /\ Covered(tag, entity, pc[w], req[w])
    BY <1>3, Reads
  <2>2. \A n \in Entities, k \in Kinds : Listed(entity, n, k, old) => Told(tag, k, new)
    BY <1>3, Reads DEF Remembers
  <2>3. ASSUME NEW n \in Entities, NEW k \in Kinds, NEW x \in Names, Listed(entity', n, k, x)
        PROVE  \/ k = kind /\ x = new /\ Listed(entity, n, kind, old)
               \/ Listed(entity, n, k, x) /\ ~(k = kind /\ x = old)
    BY <1>1, <2>1, <2>3, RenameInLists DEF ListingInv
  <2>4. Covered(tag', entity', step, r)
    <3> SUFFICES ASSUME NEW n \in Entities, NEW k \in Kinds, NEW x \in Names, Listed(entity', n, k, x)
                 PROVE  Told(tag, k, x) \/ Pending(step, r, n, k, x)
      BY <1>1 DEF Covered
    <3>1. CASE k = kind /\ x = new /\ Listed(entity, n, kind, old)
      BY <2>2, <3>1
    <3>2. CASE Listed(entity, n, k, x) /\ ~(k = kind /\ x = old)
      BY <2>1, <3>2 DEF Covered
    <3> QED
      BY <2>3, <3>1, <3>2
  <2>5. Remembers(tag', entity', step, r)
    <3>1. CASE step \in Carefree
      BY <3>1, Forgets
    <3>2. CASE step \in SpreadSteps /\ r = req[w]
      <4>1. ASSUME NEW n \in Entities, NEW k \in Kinds, Listed(entity', n, k, old)
            PROVE  Told(tag, k, new)
        BY <1>1, <2>2, <2>3, <4>1
      <4> QED
        BY <1>1, <3>2, <4>1 DEF Remembers, SpreadSteps, RenameSteps
    <3> QED
      BY <3>1, <3>2
  <2>6. ~Doubled(entity')
    BY <1>3 DEF RenameIn, SetEntities
  <2> QED
    BY <2>4, <2>5, <2>6, Leads DEF ListingInv
<1> QED
  BY <1>2, <1>3

LEMMA SpreadListed ==
    ASSUME Serial, ListingInv, NEW w \in Workers, RenameOffers(w) \/ RenameWants(w)
    PROVE  Listing'
<1>1. CASE RenameOffers(w)
  <2>1. /\ pc[w] = "renameOffers" /\ Move(w, "renameWants", req[w]) /\ UNCHANGED failed
        /\ RenameIn("offers", req[w].old, req[w].new)
        /\ "offers" \in Kinds /\ pc[w] \in SpreadSteps /\ "renameWants" \in SpreadSteps
    BY <1>1 DEF RenameOffers, Step, Kinds, SpreadSteps
  <2>2. ASSUME NEW n, NEW k \in Kinds, NEW x, Pending(pc[w], req[w], n, k, x),
               ~(k = "offers" /\ x = req[w].old)
        PROVE  Pending("renameWants", req[w], n, k, x)
    <3>1. x = req[w].old
      BY <2>1, <2>2 DEF Pending, DatingSteps
    <3> QED
      BY <2>2, <3>1 DEF Pending, Kinds
  <2> QED
    BY <2>1, <2>2, RenameInListed
<1>2. CASE RenameWants(w)
  <2>1. /\ pc[w] = "renameWants" /\ Move(w, "idle", NoReq) /\ UNCHANGED failed
        /\ RenameIn("wants", req[w].old, req[w].new)
        /\ "wants" \in Kinds /\ pc[w] \in SpreadSteps /\ "idle" \in Carefree
    BY <1>2 DEF RenameWants, Finish, Kinds, Carefree, Steps, RenameSteps, SpreadSteps
  <2>2. ASSUME NEW n, NEW k, NEW x, Pending(pc[w], req[w], n, k, x)
        PROVE  k = "wants" /\ x = req[w].old
    BY <2>1, <2>2 DEF Pending, DatingSteps
  <2> QED
    BY <2>1, <2>2, RenameInListed
<1> QED
  BY <1>1, <1>2

LEMMA PullListed == ASSUME Serial, ListingInv, NEW w \in Workers, PullTag(w) PROVE Listing'
<1> DEFINE old == req[w].old
           e == [n \in Entities |-> [entity[n] EXCEPT !.lists["offers"][old] = 0,
                                                      !.lists["wants"][old] = 0]]
<1>1. /\ SetEntities(e) /\ Move(w, "idle", NoReq) /\ UNCHANGED <<tag, failed>>
      /\ pc[w] = "pullTag" /\ "idle" \in Carefree
  BY DEF PullTag, Finish, Carefree, Steps, RenameSteps, SpreadSteps
<1>2. ASSUME NEW n \in Entities, NEW k \in Kinds, NEW x \in Names, Listed(e, n, k, x)
      PROVE  Listed(entity, n, k, x) /\ x # old
  <2>1. entity[n] \in Accounts
    BY DEF ListingInv, TagsTyped, StoresTyped
  <2>2. /\ e[n].accepted = entity[n].accepted
        /\ e[n].lists[k][x] = IF x = old THEN 0 ELSE entity[n].lists[k][x]
    BY <2>1 DEF Accounts, Lists, Kinds
  <2> HIDE DEF e
  <2> QED
    BY <1>2, <2>2 DEF Listed
<1> HIDE DEF e
<1>3. entity' = e /\ twice' = (twice \/ Doubled(e))
  BY <1>1 DEF SetEntities
<1>4. CASE failed \/ twice'
  BY <1>1, <1>4, Leads DEF ListingInv
<1>5. CASE ~failed /\ ~twice'
  <2>1. ~Doubled(entity') /\ Covered(tag, entity, pc[w], req[w])
    BY <1>3, <1>5, Reads
  <2>2. ASSUME NEW n, NEW k, NEW x, Pending(pc[w], req[w], n, k, x) PROVE x = old
    BY <1>1, <2>2 DEF Pending, DatingSteps
  <2>3. Covered(tag', entity', "idle", NoReq)
    BY <1>1, <1>2, <1>3, <2>1, <2>2 DEF Covered
  <2> QED
    BY <1>1, <2>1, <2>3, Forgets, Leads DEF ListingInv
<1> QED
  BY <1>4, <1>5

-----------------------------------------------------------------------------
LEMMA ListingInit == Init => Listing
BY DEF Init, Listing, Covered, Remembers, Listed, Pending, DatingSteps, RenameSteps, SpreadSteps

LEMMA ListingStep == ASSUME Serial, ListingInv, [Next]_vars PROVE Listing'
<1>1. CASE UNCHANGED vars
  BY <1>1 DEF vars, stores, entities, ListingInv, Listing, Quiet
<1>2. ASSUME NEW w \in Workers, SubmitAny(w) PROVE Listing'
  BY <1>2, SubmitLists
<1>3. ASSUME NEW w \in Workers, Work(w) PROVE Listing'
  BY <1>3, ReindexListed, WriteListed, RereadListed, AnnounceListed, AnnouncedListed, DocListed,
     CreateListed, LooksListed, RenameTagListed, DeleteTagListed, NestedListed, SpreadListed, PullListed
  DEF Work
<1>4. ASSUME NEW w \in Workers, Fail(w) PROVE Listing'
  BY <1>4, Passes DEF Fail, stores, entities
<1> QED
  BY <1>1, <1>2, <1>3, <1>4 DEF Next

LEMMA ListingInvariance == ASSUME TagsAssumption, Serial PROVE Spec => []ListingInv
<1>1. TagsTyped /\ CatalogueInv /\ Listing <=> ListingInv
  BY DEF ListingInv
<1>2. ListingInv /\ [Next]_vars => Listing'
  BY ListingStep
<1>3. Init => Listing
  BY ListingInit
<1> QED
  BY <1>1, <1>2, <1>3, TagsTypedInvariance, CatalogueInvariance, PTL DEF Spec

\* Handled one at a time, requests leave no accepted entity with a name that is not
\* a tag: whoever lists it announces it, and renames and deletions reach the lists.
THEOREM ListedAreTags ==
    ASSUME TagsAssumption, Serial
    PROVE  Spec => []ListedNamesAreTags
<1>1. ListingInv => ListedNamesAreTags
  <2> SUFFICES ASSUME ListingInv, Quiet, ~failed, ~twice, NEW n \in Entities, NEW k \in Kinds,
                      entity[n].accepted, NEW x \in NamesOf(entity[n].lists[k])
               PROVE  FindByName(x) # {}
    BY DEF ListedNamesAreTags
  <2>1. x \in Names /\ Listed(entity, n, k, x)
    BY DEF NamesOf, Listed
  <2>2. Covered(tag, entity, "idle", NoReq)
    BY DEF ListingInv, Listing
  <2>3. Told(tag, k, x)
    BY <2>1, <2>2 DEF Covered, Pending, DatingSteps
  <2> QED
    BY <2>3 DEF Told, FindByName
<1> QED
  BY <1>1, ListingInvariance, PTL

\* ... and what accepted entities offer is announced as an offer, also by entities
\* that were accepted after they had listed it and after the tag was renamed.
THEOREM OffersTold ==
    ASSUME TagsAssumption, Serial
    PROVE  Spec => []OffersAnnounced
<1>1. ListingInv => OffersAnnounced
  <2> SUFFICES ASSUME ListingInv, Quiet, ~failed, ~twice, NEW n \in Entities,
                      entity[n].accepted, NEW x \in NamesOf(entity[n].lists["offers"])
               PROVE  \E i \in FindByName(x) : "offers" \in tagDoc[i].dates
    BY DEF OffersAnnounced
  <2>1. x \in Names /\ Listed(entity, n, "offers", x) /\ "offers" \in Kinds
    BY DEF NamesOf, Listed, Kinds
  <2>2. Covered(tag, entity, "idle", NoReq) /\ Same(tag, tagDoc, {})
    BY DEF ListingInv, Listing, CatalogueInv
  <2>3. Told(tag, "offers", x)
    BY <2>1, <2>2 DEF Covered, Pending, DatingSteps
  <2> QED
    BY <2>2, <2>3 DEF Told, FindByName, Same, Live
<1> QED
  BY <1>1, ListingInvariance, PTL
=============================================================================

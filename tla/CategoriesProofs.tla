-------------------------- MODULE CategoriesProofs --------------------------
(***************************************************************************)
(* Categories and what entities are listed under: the types and the names  *)
(* for any number of requests that may fail anywhere, the rest for one at  *)
(* a time.                                                                 *)
(***************************************************************************)
EXTENDS Categories, TLAPS

\* The circumstances: requests come one at a time.
Serial == \A v, w \in Workers : v = w

CategoryRows == [life : Life, name : Names \cup {NoName}]
Listings == [Names -> 0..Copies]
Held == [entity : Entities \cup {NoEntity}, names : SUBSET Names, id : Ids \cup {NoId},
         old : Names \cup {NoName}, new : Names \cup {NoName}, listing : Listings]

Replacing == {"renameDocs", "pushNew", "pullOld"}
Pulling == {"pullDocs", "pull"}

\* What a request or the restore program holds fits the step it is at.
HeldFits(step, r) ==
    /\ step \in {"writeList", "restoreDoc"} => r.entity \in Entities
    /\ step \in {"create", "find", "rename"} \cup Replacing => r.new \in Names
    /\ step \in {"rename"} \cup Replacing \cup Pulling => r.old \in Names

CategoriesStored(c) == /\ c \in [Ids -> CategoryRows]
                       /\ \A i \in Ids : c[i].life = "live" => c[i].name \in Names

CategoriesTyped ==
    /\ CategoriesStored(category)
    /\ entity \in [Entities -> Listings] /\ entityDoc \in [Entities -> Listings]
    /\ failed \in BOOLEAN
    /\ pc \in [Workers -> Steps]
    /\ req \in [Workers -> Held] /\ \A w \in Workers : HeldFits(pc[w], req[w])

LEMMA CategoryMoves ==
    ASSUME CategoriesTyped, NEW w \in Workers, NEW step \in Steps, NEW r \in Held,
           HeldFits(step, r), Move(w, step, r), failed' \in BOOLEAN,
           CategoriesStored(category'), entity' \in [Entities -> Listings],
           entityDoc' \in [Entities -> Listings]
    PROVE  CategoriesTyped'
  BY DEF CategoriesTyped, Move

\* A step that writes nothing.
LEMMA CategoryStrolls ==
    ASSUME CategoriesTyped, NEW w \in Workers, NEW step \in Steps, NEW r \in Held,
           HeldFits(step, r), Move(w, step, r), failed' \in BOOLEAN, UNCHANGED stores
    PROVE  CategoriesTyped'
<1>1. /\ CategoriesStored(category') /\ entity' \in [Entities -> Listings]
      /\ entityDoc' \in [Entities -> Listings]
  BY DEF CategoriesTyped, stores
<1> QED
  BY <1>1, CategoryMoves

LEMMA NothingHeld == CategoriesAssumption => NoReq \in Held /\ HeldFits("idle", NoReq)
<1> SUFFICES ASSUME CategoriesAssumption PROVE NoReq \in Held /\ HeldFits("idle", NoReq)
  OBVIOUS
<1>1. Unlisted \in Listings
  BY DEF Unlisted, Listings, CategoriesAssumption
<1> QED
  BY <1>1 DEF NoReq, Held, HeldFits, Replacing, Pulling

\* What requests begin with.
LEMMA CategorySubmitted ==
    ASSUME CategoriesAssumption, CategoriesTyped, NEW w \in Workers, SubmitAny(w)
    PROVE  pc[w] = "idle" /\ \E step \in Steps, r \in Held :
              /\ HeldFits(step, r) /\ Move(w, step, r) /\ UNCHANGED stores
              /\ failed' \in BOOLEAN
              /\ \/ failed' 
                 \/ /\ UNCHANGED failed
                    /\ step \in {"writeList", "create", "find", "delete", "restoreDoc"}
                    /\ step = "find" => FindByName(r.new) = {}
<1> USE NothingHeld
<1>0. pc[w] = "idle"
  BY DEF SubmitAny, SubmitRestore, SubmitAssign, SubmitCreate, SubmitRename, SubmitDelete,
         Submit, SubmitNew
<1>1. CASE \E n \in Entities : SubmitRestore(w, n)
  <2>1. PICK n \in Entities : SubmitRestore(w, n)
    BY <1>1
  <2> DEFINE r == [NoReq EXCEPT !.entity = n, !.listing = entity[n]]
  <2>2. r \in Held /\ HeldFits("restoreDoc", r)
    BY DEF Held, HeldFits, NoReq, CategoriesTyped, Replacing, Pulling
  <2>3. Move(w, "restoreDoc", r) /\ UNCHANGED stores /\ UNCHANGED failed
    BY <2>1 DEF SubmitRestore, Submit, Go, history
  <2> QED
    BY <1>0, <2>2, <2>3 DEF Steps, CategoriesTyped
<1>2. CASE \E n \in Entities, names \in SUBSET Names : SubmitAssign(w, n, names)
  <2>1. PICK n \in Entities, names \in SUBSET Names : SubmitAssign(w, n, names)
    BY <1>2
  <2> DEFINE r == [NoReq EXCEPT !.entity = n, !.names = names]
  <2>2. r \in Held /\ HeldFits("writeList", r)
    BY DEF Held, HeldFits, NoReq, Replacing, Pulling
  <2>3. Move(w, "writeList", r) /\ UNCHANGED stores /\ UNCHANGED failed
    BY <2>1 DEF SubmitAssign, Submit, Go, history
  <2> QED
    BY <1>0, <2>2, <2>3 DEF Steps, CategoriesTyped
<1>3. CASE \E x \in Names : SubmitCreate(w, x)
  <2>1. PICK x \in Names : SubmitCreate(w, x)
    BY <1>3
  <2> DEFINE r == [NoReq EXCEPT !.new = Format[x]]
  <2>2. r \in Held /\ HeldFits("create", r)
    BY DEF Held, HeldFits, NoReq, Replacing, Pulling, CategoriesAssumption
  <2>3. Move(w, "create", r) /\ UNCHANGED stores /\ (failed' \/ UNCHANGED failed)
    BY <2>1 DEF SubmitCreate, SubmitNew, Go, history, GoAstray
  <2>4. failed' \in BOOLEAN
    BY <2>1 DEF SubmitCreate, SubmitNew, Go, history, GoAstray, CategoriesTyped
  <2> QED
    BY <1>0, <2>2, <2>3, <2>4 DEF Steps
<1>4. CASE \E x \in Names, i \in Ids : SubmitRename(w, i, x)
  <2>1. PICK x \in Names, i \in Ids : SubmitRename(w, i, x)
    BY <1>4
  <2> DEFINE r == [NoReq EXCEPT !.id = i, !.new = Format[x]]
  <2>2. r \in Held /\ HeldFits("find", r) /\ r.new = Format[x]
    BY DEF Held, HeldFits, NoReq, Replacing, Pulling, CategoriesAssumption
  <2>3. /\ Move(w, "find", r) /\ UNCHANGED stores
        /\ failed' \/ (UNCHANGED failed /\ FindByName(Format[x]) = {})
    BY <2>1 DEF SubmitRename, SubmitNew, Go, history, GoAstray
  <2>4. failed' \in BOOLEAN
    BY <2>1 DEF SubmitRename, SubmitNew, Go, history, GoAstray, CategoriesTyped
  <2> HIDE DEF r
  <2> QED
    BY <1>0, <2>2, <2>3, <2>4 DEF Steps
<1>5. CASE \E i \in Ids : SubmitDelete(w, i)
  <2>1. PICK i \in Ids : SubmitDelete(w, i)
    BY <1>5
  <2> DEFINE r == [NoReq EXCEPT !.id = i]
  <2>2. r \in Held /\ HeldFits("delete", r)
    BY DEF Held, HeldFits, NoReq, Replacing, Pulling
  <2>3. Move(w, "delete", r) /\ UNCHANGED stores /\ UNCHANGED failed
    BY <2>1 DEF SubmitDelete, Submit, Go, history
  <2> QED
    BY <1>0, <2>2, <2>3 DEF Steps, CategoriesTyped
<1> QED
  BY <1>0, <1>1, <1>2, <1>3, <1>4, <1>5 DEF SubmitAny

-----------------------------------------------------------------------------
(* What each step does.                                                     *)

Named(c, x) == \E i \in Ids : c[i].life = "live" /\ c[i].name = x

UniqueNames(c) == \A i, j \in Ids : /\ c[i].life = "live" /\ c[j].life = "live"
                                    /\ c[i].name = c[j].name
                                    => i = j

LEMMA FoundIsNamed == \A x : FindByName(x) # {} <=> Named(category, x)
  BY DEF FindByName, Live, Named

LEMMA UpsertKeeps ==
    ASSUME CategoriesStored(category), NEW x \in Names, NEW i \in Upserted(x),
           category' = [category EXCEPT ![i] = [life |-> "live", name |-> x]]
    PROVE  /\ CategoriesStored(category') /\ Named(category', x)
           /\ \A y : Named(category, y) => Named(category', y)
           /\ UniqueNames(category) => UniqueNames(category')
<1>1. i \in Ids /\ (category[i].life = "live" => category[i].name = x)
      /\ (category[i].life # "live" => ~Named(category, x))
  BY DEF Upserted, FindByName, Live, Named
<1>2. /\ category' \in [Ids -> CategoryRows]
      /\ category'[i].life = "live" /\ category'[i].name = x
      /\ \A j \in Ids \ {i} : category'[j] = category[j]
  BY <1>1 DEF CategoriesStored, CategoryRows, Life
<1>3. CategoriesStored(category')
  BY <1>2 DEF CategoriesStored
<1>4. Named(category', x) /\ \A y : Named(category, y) => Named(category', y)
  BY <1>1, <1>2 DEF Named
<1>5. UniqueNames(category) => UniqueNames(category')
  BY <1>1, <1>2 DEF UniqueNames, Named
<1> QED
  BY <1>3, <1>4, <1>5

LEMMA WriteListEffect ==
    ASSUME CategoriesAssumption, CategoriesTyped, NEW w \in Workers, WriteList(w)
    PROVE  /\ HeldFits("createAll", req[w]) /\ Move(w, "createAll", req[w])
           /\ UNCHANGED <<category, entityDoc, failed>> /\ entity' \in [Entities -> Listings]
           /\ \A n \in Entities, x \in Names :
                 entity'[n][x] > 0 => entity[n][x] > 0 \/ \E y \in req[w].names : x = Format[y]
<1> DEFINE n == req[w].entity
           formatted == {Format[x] : x \in req[w].names}
           new == [x \in Names |-> IF x \in formatted THEN 1 ELSE 0]
<1>1. n \in Entities
  BY DEF WriteList, CategoriesTyped, HeldFits
<1>2. /\ entity' = [entity EXCEPT ![n] = new] /\ Move(w, "createAll", req[w])
      /\ UNCHANGED <<category, entityDoc, failed>>
  BY DEF WriteList
<1>3. new \in Listings
  BY DEF Listings, CategoriesAssumption
<1>4. \A x \in Names : new[x] > 0 => \E y \in req[w].names : x = Format[y]
  OBVIOUS
<1> HIDE DEF new, n
<1>5. entity' \in [Entities -> Listings]
  BY <1>1, <1>2, <1>3 DEF CategoriesTyped
<1>6. \A m \in Entities : entity'[m] = IF m = n THEN new ELSE entity[m]
  BY <1>1, <1>2 DEF CategoriesTyped
<1>7. HeldFits("createAll", req[w])
  BY DEF HeldFits, Replacing, Pulling
<1> QED
  BY <1>2, <1>4, <1>5, <1>6, <1>7

\* The creation of what was assigned ends, ...
LEMMA CreateAllEnds ==
    ASSUME CategoriesAssumption, CategoriesTyped, NEW w \in Workers, CreateAll(w),
           req[w].names = {}
    PROVE  Move(w, "idle", NoReq) /\ UNCHANGED <<category, entity, entityDoc, failed>>
  BY DEF CreateAll, Finish, Go, history

\* ... or goes on.
LEMMA CreateAllEffect ==
    ASSUME CategoriesAssumption, CategoriesTyped, NEW w \in Workers, CreateAll(w),
           req[w].names # {}
    PROVE  \E x \in req[w].names, r \in Held :
              /\ x \in Names /\ r.names = req[w].names \ {x}
              /\ HeldFits("createAll", r) /\ Move(w, "createAll", r)
              /\ UNCHANGED <<entity, entityDoc, failed>>
              /\ CategoriesStored(category') /\ Named(category', x)
              /\ \A y : Named(category, y) => Named(category', y)
              /\ UniqueNames(category) => UniqueNames(category')
<1>1. PICK x \in req[w].names : \E i \in Upserted(x) :
             /\ category' = [category EXCEPT ![i] = [life |-> "live", name |-> x]]
             /\ Go(w, "createAll", [req[w] EXCEPT !.names = @ \ {x}])
  BY DEF CreateAll
<1> DEFINE r == [req[w] EXCEPT !.names = @ \ {x}]
<1>2. req[w] \in Held
  BY DEF CategoriesTyped
<1>3. r \in Held /\ r.names = req[w].names \ {x} /\ x \in Names
  BY <1>2 DEF Held
<1>4. /\ Move(w, "createAll", r) /\ UNCHANGED <<entity, entityDoc, failed>>
      /\ \E i \in Upserted(x) : category' = [category EXCEPT ![i] = [life |-> "live", name |-> x]]
  BY <1>1 DEF CreateAll, Go, history
<1> HIDE DEF r
<1>5. HeldFits("createAll", r)
  BY DEF HeldFits, Replacing, Pulling
<1> QED
  BY <1>3, <1>4, <1>5, UpsertKeeps DEF CategoriesTyped

LEMMA CreateEffect ==
    ASSUME CategoriesAssumption, CategoriesTyped, NEW w \in Workers, Create(w)
    PROVE  /\ Move(w, "idle", NoReq) /\ UNCHANGED <<entity, entityDoc, failed>>
           /\ CategoriesStored(category')
           /\ \A y : Named(category, y) => Named(category', y)
           /\ UniqueNames(category) => UniqueNames(category')
<1>1. PICK i \in Upserted(req[w].new) :
             category' = [category EXCEPT ![i] = [life |-> "live", name |-> req[w].new]]
  BY DEF Create
<1>2. req[w].new \in Names
  BY DEF Create, CategoriesTyped, HeldFits
<1>3. Move(w, "idle", NoReq) /\ UNCHANGED <<entity, entityDoc, failed>>
  BY DEF Create, Finish, Go, history
<1> QED
  BY <1>1, <1>2, <1>3, UpsertKeeps DEF CategoriesTyped

\* Where nothing is found, nothing happens.
LEMMA FindEffect ==
    ASSUME CategoriesAssumption, CategoriesTyped, NEW w \in Workers, Find(w)
    PROVE  /\ UNCHANGED <<category, entity, entityDoc, failed>>
           /\ \/ Move(w, "idle", NoReq)
              \/ \E r \in Held : /\ HeldFits("rename", r) /\ Move(w, "rename", r)
                                 /\ r.id = req[w].id /\ r.new = req[w].new
                                 /\ r.old = category[req[w].id].name
<1>1. UNCHANGED <<category, entity, entityDoc>>
  BY DEF Find, stores
<1>2. CASE req[w].id \in Live
  <2> DEFINE r == [req[w] EXCEPT !.old = category[req[w].id].name]
  <2>1. Move(w, "rename", r) /\ UNCHANGED failed
    BY <1>2 DEF Find, Go, history
  <2>2. /\ req[w] \in Held /\ req[w].new \in Names /\ category[req[w].id].name \in Names
    BY <1>2 DEF Find, CategoriesTyped, HeldFits, CategoriesStored, Live
  <2>3. /\ r \in Held /\ r.id = req[w].id /\ r.new = req[w].new
        /\ r.old = category[req[w].id].name
    BY <2>2 DEF Held
  <2> HIDE DEF r
  <2>4. HeldFits("rename", r)
    BY <2>2, <2>3 DEF HeldFits, Replacing, Pulling
  <2> QED
    BY <1>1, <2>1, <2>3, <2>4
<1>3. CASE req[w].id \notin Live
  BY <1>1, <1>3 DEF Find, Finish, Go, history
<1> QED
  BY <1>2, <1>3

LEMMA RenameEffect ==
    ASSUME CategoriesAssumption, CategoriesTyped, NEW w \in Workers, Rename(w)
    PROVE  /\ UNCHANGED <<entity, entityDoc, failed>>
           /\ \/ Move(w, "idle", NoReq) /\ UNCHANGED category
              \/ /\ HeldFits("renameDocs", req[w]) /\ Move(w, "renameDocs", req[w])
                 /\ CategoriesStored(category') /\ Named(category', req[w].new)
                 /\ category[req[w].id].life = "live" /\ req[w].id \in Ids
                 /\ \A y : Named(category, y) => Named(category', y) \/ y = category[req[w].id].name
                 /\ ~Named(category, req[w].new) /\ UniqueNames(category) => UniqueNames(category')
<1> DEFINE i == req[w].id
<1>1. UNCHANGED <<entity, entityDoc, failed>>
  BY DEF Rename, Step, Finish, Go, history
<1>2. CASE i \in Live
  <2>1. /\ category' = [category EXCEPT ![i].name = req[w].new]
        /\ Move(w, "renameDocs", req[w])
    BY <1>2 DEF Rename, Step, Go, history
  <2>2. i \in Ids /\ category[i].life = "live"
    BY <1>2 DEF Live
  <2>3. /\ HeldFits("renameDocs", req[w]) /\ req[w].new \in Names
        /\ category \in [Ids -> CategoryRows]
    BY DEF Rename, CategoriesTyped, CategoriesStored, HeldFits, Replacing, Pulling
  <2> HIDE DEF i
  <2>4. /\ category'[i] = [category[i] EXCEPT !.name = req[w].new]
        /\ \A j \in Ids \ {i} : category'[j] = category[j]
    BY <2>1, <2>2, <2>3
  <2>5. /\ category'[i] \in CategoryRows /\ category'[i].life = "live"
        /\ category'[i].name = req[w].new
    BY <2>2, <2>3, <2>4 DEF CategoryRows
  <2>6. category' \in [Ids -> CategoryRows]
    BY <2>1, <2>3, <2>4, <2>5
  <2>7. CategoriesStored(category')
    BY <2>3, <2>4, <2>5, <2>6 DEF CategoriesStored, CategoriesTyped
  <2>8. /\ Named(category', req[w].new)
        /\ \A y : Named(category, y) => Named(category', y) \/ y = category[i].name
    BY <2>2, <2>4, <2>5 DEF Named
  <2>9. ~Named(category, req[w].new) /\ UniqueNames(category) => UniqueNames(category')
    BY <2>2, <2>4, <2>5 DEF Named, UniqueNames
  <2> QED
    BY <1>1, <2>1, <2>2, <2>3, <2>7, <2>8, <2>9 DEF i
<1>3. CASE i \notin Live
  BY <1>1, <1>3 DEF Rename, Finish, Go, history
<1> QED
  BY <1>2, <1>3

LEMMA DeleteEffect ==
    ASSUME CategoriesAssumption, CategoriesTyped, NEW w \in Workers, Delete(w)
    PROVE  /\ UNCHANGED <<entity, entityDoc, failed>>
           /\ \/ Move(w, "idle", NoReq) /\ UNCHANGED category
              \/ \E r \in Held :
                    /\ HeldFits("pullDocs", r) /\ Move(w, "pullDocs", r)
                    /\ CategoriesStored(category')
                    /\ \A y : Named(category, y) => Named(category', y) \/ y = r.old
                    /\ UniqueNames(category) => UniqueNames(category')
<1> DEFINE i == req[w].id
           r == [req[w] EXCEPT !.old = category[i].name]
<1>1. UNCHANGED <<entity, entityDoc, failed>>
  BY DEF Delete, Finish, Go, history
<1>2. CASE i \in Live
  <2>1. /\ category' = [category EXCEPT ![i] = [life |-> "deleted", name |-> NoName]]
        /\ Move(w, "pullDocs", r)
    BY <1>2 DEF Delete, Go, history
  <2>2. i \in Ids /\ category[i].life = "live"
    BY <1>2 DEF Live
  <2>3. /\ category \in [Ids -> CategoryRows] /\ category[i].name \in Names /\ req[w] \in Held
    BY <2>2 DEF CategoriesTyped, CategoriesStored
  <2>4. r \in Held /\ r.old = category[i].name
    BY <2>3 DEF Held
  <2> HIDE DEF i, r
  <2>5. HeldFits("pullDocs", r)
    BY <2>3, <2>4 DEF HeldFits, Replacing, Pulling
  <2>6. /\ category' \in [Ids -> CategoryRows] /\ category'[i].life = "deleted"
        /\ \A j \in Ids \ {i} : category'[j] = category[j]
    BY <2>1, <2>2, <2>3 DEF CategoryRows, Life
  <2>7. CategoriesStored(category')
    BY <2>6 DEF CategoriesStored, CategoriesTyped
  <2>8. /\ \A y : Named(category, y) => Named(category', y) \/ y = r.old
        /\ UniqueNames(category) => UniqueNames(category')
    BY <2>4, <2>6 DEF Named, UniqueNames
  <2> QED
    BY <1>1, <2>1, <2>4, <2>5, <2>7, <2>8
<1>3. CASE i \notin Live
  BY <1>1, <1>3 DEF Delete, Finish, Go, history
<1> QED
  BY <1>2, <1>3

\* One copy of a name goes, one of another comes.
LEMMA RenamedOnceListed ==
    ASSUME CategoriesAssumption, NEW l \in Listings, NEW old \in Names, NEW new \in Names,
           l[old] > 0, l[new] < Copies
    PROVE  RenamedOnce(l, old, new) \in Listings
<1> DEFINE rest == [l EXCEPT ![old] = @ - 1]
<1>1. Copies \in Nat
  BY DEF CategoriesAssumption
<1>2. rest \in Listings /\ rest[new] + 1 \in 0..Copies
  BY <1>1 DEF Listings
<1> HIDE DEF rest
<1>3. [rest EXCEPT ![new] = rest[new] + 1] \in Listings
  BY <1>2 DEF Listings
<1> QED
  BY <1>3 DEF RenamedOnce, rest

LEMMA RenameDocsEffect ==
    ASSUME CategoriesAssumption, CategoriesTyped, NEW w \in Workers, RenameDocs(w)
    PROVE  /\ HeldFits("pushNew", req[w]) /\ Move(w, "pushNew", req[w])
           /\ UNCHANGED <<category, entity, failed>> /\ entityDoc' \in [Entities -> Listings]
<1> DEFINE r == req[w]
<1>1. Move(w, "pushNew", r) /\ UNCHANGED <<category, entity, failed>>
  BY DEF RenameDocs, Step, Go, history
<1>2. /\ \A n \in Under(entityDoc, r.old) : entityDoc[n][r.new] < Copies
      /\ entityDoc' = [n \in Entities |-> IF n \in Under(entityDoc, r.old)
                                          THEN RenamedOnce(entityDoc[n], r.old, r.new)
                                          ELSE entityDoc[n]]
  BY DEF RenameDocs
<1>3. r.old \in Names /\ r.new \in Names /\ entityDoc \in [Entities -> Listings]
      /\ HeldFits("pushNew", r)
  BY DEF RenameDocs, CategoriesTyped, HeldFits, Replacing, Pulling
<1> HIDE DEF r
<1>4. ASSUME NEW n \in Under(entityDoc, r.old)
      PROVE  RenamedOnce(entityDoc[n], r.old, r.new) \in Listings
  BY <1>2, <1>3, RenamedOnceListed DEF Under
<1>5. entityDoc' \in [Entities -> Listings]
  BY <1>2, <1>3, <1>4
<1> QED
  BY <1>1, <1>3, <1>5 DEF r

LEMMA PushNewEffect ==
    ASSUME CategoriesAssumption, CategoriesTyped, NEW w \in Workers, PushNew(w)
    PROVE  /\ HeldFits("pullOld", req[w]) /\ Move(w, "pullOld", req[w])
           /\ UNCHANGED <<category, entityDoc, failed>> /\ entity' \in [Entities -> Listings]
           /\ \A n \in Entities, x \in Names :
                 /\ entity[n][x] > 0 => entity'[n][x] > 0
                 /\ entity'[n][x] > 0 => entity[n][x] > 0 \/ x = req[w].new
           /\ \A n \in Entities :
                 entity'[n][req[w].old] > 0 /\ req[w].old # req[w].new => entity'[n][req[w].new] > 0
<1> DEFINE r == req[w]
<1>1. Move(w, "pullOld", r) /\ UNCHANGED <<category, entityDoc, failed>>
  BY DEF PushNew, Step, Go, history
<1>2. /\ \A n \in Under(entity, r.old) : entity[n][r.new] < Copies
      /\ entity' = [n \in Entities |-> IF n \in Under(entity, r.old)
                                       THEN [entity[n] EXCEPT ![r.new] = @ + 1] ELSE entity[n]]
  BY DEF PushNew
<1>3. r.old \in Names /\ r.new \in Names /\ entity \in [Entities -> Listings]
      /\ HeldFits("pullOld", r)
  BY DEF PushNew, CategoriesTyped, HeldFits, Replacing, Pulling
<1>4. Copies \in Nat
  BY DEF CategoriesAssumption
<1> HIDE DEF r
<1>5. ASSUME NEW n \in Entities
      PROVE  /\ entity'[n] \in Listings
             /\ \A x \in Names : /\ entity[n][x] > 0 => entity'[n][x] > 0
                                 /\ entity'[n][x] > 0 => entity[n][x] > 0 \/ x = r.new
             /\ entity'[n][r.old] > 0 /\ r.old # r.new => entity'[n][r.new] > 0
  <2>1. entity[n] \in Listings
    BY <1>3
  <2>2. CASE n \in Under(entity, r.old)
    <3>1. entity'[n] = [entity[n] EXCEPT ![r.new] = entity[n][r.new] + 1] /\ entity[n][r.new] < Copies
      BY <1>2, <2>2
    <3> QED
      BY <1>3, <1>4, <2>1, <3>1 DEF Listings
  <2>3. CASE n \notin Under(entity, r.old)
    <3>1. entity'[n] = entity[n] /\ ~(entity[n][r.old] > 0)
      BY <1>2, <2>3 DEF Under
    <3> QED
      BY <2>1, <3>1
  <2> QED
    BY <2>2, <2>3
<1>6. entity' \in [Entities -> Listings]
  BY <1>2, <1>5
<1> QED
  BY <1>1, <1>3, <1>5, <1>6 DEF r

\* Both ends of a rename and of a deletion pull every copy of the old name.
LEMMA PulledEffect ==
    ASSUME CategoriesAssumption, CategoriesTyped, NEW w \in Workers, PullOld(w) \/ Pull(w)
    PROVE  /\ Move(w, "idle", NoReq) /\ UNCHANGED <<category, entityDoc, failed>>
           /\ entity' \in [Entities -> Listings]
           /\ \A n \in Entities, x \in Names :
                 /\ entity'[n][x] > 0 => entity[n][x] > 0 /\ x # req[w].old
                 /\ x # req[w].old => entity'[n][x] = entity[n][x]
<1> DEFINE old == req[w].old
<1>1. Move(w, "idle", NoReq) /\ UNCHANGED <<category, entityDoc, failed>>
  BY DEF PullOld, Pull, Finish, Go, history
<1>2. entity' = [n \in Entities |-> [entity[n] EXCEPT ![old] = 0]]
  BY DEF PullOld, Pull
<1>3. entity \in [Entities -> Listings] /\ Copies \in Nat
  BY DEF CategoriesTyped, CategoriesAssumption
<1> HIDE DEF old
<1>4. ASSUME NEW n \in Entities
      PROVE  /\ entity'[n] \in Listings
             /\ \A x \in Names : /\ entity'[n][x] > 0 => entity[n][x] > 0 /\ x # old
                                 /\ x # old => entity'[n][x] = entity[n][x]
  <2>1. entity'[n] = [entity[n] EXCEPT ![old] = 0]
    BY <1>2
  <2>2. entity[n] \in Listings
    BY <1>3
  <2>3. \A x \in Names : entity'[n][x] = IF x = old THEN 0 ELSE entity[n][x]
    BY <2>1, <2>2 DEF Listings
  <2>4. 0 \in 0..Copies
    BY <1>3
  <2>5. entity'[n] \in Listings
    BY <2>1, <2>2, <2>4 DEF Listings
  <2> QED
    BY <2>3, <2>5
<1> QED
  BY <1>1, <1>2, <1>4 DEF old

LEMMA PullDocsEffect ==
    ASSUME CategoriesAssumption, CategoriesTyped, NEW w \in Workers, PullDocs(w)
    PROVE  /\ HeldFits("pull", req[w]) /\ Move(w, "pull", req[w])
           /\ UNCHANGED <<category, entity, failed>> /\ entityDoc' \in [Entities -> Listings]
<1> DEFINE old == req[w].old
<1>1. Move(w, "pull", req[w]) /\ UNCHANGED <<category, entity, failed>>
  BY DEF PullDocs, Step, Go, history
<1>2. entityDoc' = [n \in Entities |-> IF n \in Under(entityDoc, old)
                                       THEN [entityDoc[n] EXCEPT ![old] = @ - 1] ELSE entityDoc[n]]
  BY DEF PullDocs
<1>3. /\ old \in Names /\ HeldFits("pull", req[w])
      /\ entityDoc \in [Entities -> Listings] /\ Copies \in Nat
  BY DEF PullDocs, CategoriesTyped, HeldFits, Replacing, Pulling, CategoriesAssumption
<1> HIDE DEF old
<1>4. ASSUME NEW n \in Under(entityDoc, old)
      PROVE  [entityDoc[n] EXCEPT ![old] = entityDoc[n][old] - 1] \in Listings
  BY <1>3 DEF Under, Listings
<1>5. entityDoc' \in [Entities -> Listings]
  BY <1>2, <1>3, <1>4
<1> QED
  BY <1>1, <1>3, <1>5

LEMMA RestoreDocEffect ==
    ASSUME CategoriesAssumption, CategoriesTyped, NEW w \in Workers, RestoreDoc(w)
    PROVE  /\ Move(w, "idle", NoReq) /\ UNCHANGED <<category, entity, failed>>
           /\ entityDoc' \in [Entities -> Listings]
<1>1. req[w].listing \in Listings
  BY DEF CategoriesTyped, Held
<1> QED
  BY <1>1 DEF RestoreDoc, Finish, Go, history, CategoriesTyped

LEMMA CategoryFails ==
    ASSUME NEW w, Fail(w)
    PROVE  Move(w, "idle", NoReq) /\ UNCHANGED <<category, entity, entityDoc>> /\ failed' = TRUE
  BY DEF Fail, GoAstray, stores

-----------------------------------------------------------------------------
LEMMA CategoriesNextTyped ==
    ASSUME CategoriesAssumption, CategoriesTyped, NEW w \in Workers,
           SubmitAny(w) \/ Work(w) \/ Fail(w)
    PROVE  CategoriesTyped'
<1> USE NothingHeld
<1>1. /\ CategoriesStored(category) /\ entity \in [Entities -> Listings]
      /\ entityDoc \in [Entities -> Listings] /\ failed \in BOOLEAN /\ req[w] \in Held
  BY DEF CategoriesTyped
<1>2. \A step \in {"idle", "createAll", "renameDocs", "pushNew", "pullOld", "pull"} : step \in Steps
  BY DEF Steps
<1>3. CASE SubmitAny(w)
  BY <1>3, CategorySubmitted, CategoryStrolls
<1>4. CASE Fail(w)
  BY <1>1, <1>2, <1>4, CategoryFails, CategoryMoves
<1>5. CASE WriteList(w)
  BY <1>1, <1>2, <1>5, WriteListEffect, CategoryMoves
<1>6. CASE CreateAll(w)
  <2>1. CASE req[w].names = {}
    BY <1>1, <1>2, <1>6, <2>1, CreateAllEnds, CategoryMoves
  <2>2. CASE req[w].names # {}
    BY <1>1, <1>2, <1>6, <2>2, CreateAllEffect, CategoryMoves
  <2> QED
    BY <2>1, <2>2
<1>7. CASE Create(w)
  BY <1>1, <1>2, <1>7, CreateEffect, CategoryMoves
<1>8. CASE Find(w)
  <2>1. CASE Move(w, "idle", NoReq)
    BY <1>1, <1>2, <1>8, <2>1, FindEffect, CategoryMoves
  <2>2. CASE \E r \in Held : HeldFits("rename", r) /\ Move(w, "rename", r)
    BY <1>1, <1>8, <2>2, FindEffect, CategoryMoves DEF Steps
  <2> QED
    BY <1>8, <2>1, <2>2, FindEffect
<1>9. CASE Rename(w)
  BY <1>1, <1>2, <1>9, RenameEffect, CategoryMoves
<1>10. CASE RenameDocs(w)
  BY <1>1, <1>2, <1>10, RenameDocsEffect, CategoryMoves
<1>11. CASE PushNew(w)
  BY <1>1, <1>2, <1>11, PushNewEffect, CategoryMoves
<1>12. CASE PullOld(w) \/ Pull(w)
  BY <1>1, <1>2, <1>12, PulledEffect, CategoryMoves
<1>13. CASE Delete(w)
  <2>1. CASE Move(w, "idle", NoReq) /\ UNCHANGED category
    BY <1>1, <1>2, <1>13, <2>1, DeleteEffect, CategoryMoves
  <2>2. CASE \E r \in Held : /\ HeldFits("pullDocs", r) /\ Move(w, "pullDocs", r)
                             /\ CategoriesStored(category')
    BY <1>1, <1>13, <2>2, DeleteEffect, CategoryMoves DEF Steps
  <2> QED
    BY <1>13, <2>1, <2>2, DeleteEffect
<1>14. CASE PullDocs(w)
  BY <1>1, <1>2, <1>14, PullDocsEffect, CategoryMoves
<1>15. CASE RestoreDoc(w)
  BY <1>1, <1>2, <1>15, RestoreDocEffect, CategoryMoves
<1> QED
  BY <1>3, <1>4, <1>5, <1>6, <1>7, <1>8, <1>9, <1>10, <1>11, <1>12, <1>13, <1>14, <1>15 DEF Work

LEMMA CategoriesAlwaysTyped == CategoriesAssumption => (Spec => []CategoriesTyped)
<1> SUFFICES ASSUME CategoriesAssumption PROVE Spec => []CategoriesTyped
  OBVIOUS
<1>1. Init => CategoriesTyped
  <2> SUFFICES ASSUME Init PROVE CategoriesTyped
    OBVIOUS
  <2>1. Unlisted \in Listings
    BY DEF Unlisted, Listings, CategoriesAssumption
  <2>2. /\ CategoriesStored(category) /\ entity \in [Entities -> Listings]
        /\ entityDoc \in [Entities -> Listings] /\ failed \in BOOLEAN
    BY <2>1 DEF Init, CategoriesStored, CategoryRows, Life
  <2>3. /\ pc \in [Workers -> Steps] /\ req \in [Workers -> Held]
        /\ \A w \in Workers : HeldFits(pc[w], req[w])
    BY NothingHeld DEF Init, Steps
  <2> QED
    BY <2>2, <2>3 DEF CategoriesTyped
<1>2. CategoriesTyped /\ [Next]_vars => CategoriesTyped'
  <2> SUFFICES ASSUME CategoriesTyped, [Next]_vars PROVE CategoriesTyped'
    OBVIOUS
  <2>1. CASE UNCHANGED vars
    BY <2>1 DEF vars, stores, history, CategoriesTyped
  <2> QED
    BY <2>1, CategoriesNextTyped DEF Next
<1> QED
  BY <1>1, <1>2, PTL DEF Spec

RespeltTyped == respelt \in [Entities -> SUBSET Names]

\* Only an assignment changes what was assigned in which spelling.
LEMMA RespeltKept ==
    ASSUME NEW w \in Workers, SubmitAny(w) \/ Work(w) \/ Fail(w)
    PROVE  (pc[w] = "writeList" /\ WriteList(w)) \/ UNCHANGED respelt
<1>1. CASE SubmitAny(w) \/ Fail(w)
  BY <1>1 DEF SubmitAny, SubmitRestore, SubmitAssign, SubmitCreate, SubmitRename, SubmitDelete,
     Submit, SubmitNew, Fail, Go, GoAstray, history
<1>2. CASE WriteList(w)
  BY <1>2 DEF WriteList
<1>3. CASE CreateAll(w) \/ Create(w) \/ Find(w) \/ Rename(w)
  BY <1>3 DEF CreateAll, Create, Find, Rename, Step, Finish, Go, history
<1>4. CASE RenameDocs(w) \/ PushNew(w) \/ PullOld(w)
  BY <1>4 DEF RenameDocs, PushNew, PullOld, Step, Finish, Go, history
<1>5. CASE Delete(w) \/ PullDocs(w) \/ Pull(w) \/ RestoreDoc(w)
  BY <1>5 DEF Delete, PullDocs, Pull, RestoreDoc, Step, Finish, Go, history
<1> QED
  BY <1>1, <1>2, <1>3, <1>4, <1>5 DEF Work

\* What an assignment lists was assigned as it is stored, or is noted.
LEMMA RespeltEffect ==
    ASSUME CategoriesAssumption, CategoriesTyped, RespeltTyped, NEW w \in Workers, WriteList(w)
    PROVE  /\ RespeltTyped'
           /\ \A n \in Entities, x \in Names :
                 entity'[n][x] > 0 /\ x \notin respelt'[n]
                 => (entity[n][x] > 0 /\ x \notin respelt[n]) \/ x \in req[w].names
<1> DEFINE n == req[w].entity
           formatted == {Format[x] : x \in req[w].names}
           new == [x \in Names |-> IF x \in formatted THEN 1 ELSE 0]
<1>1. n \in Entities /\ req[w].names \subseteq Names
  BY DEF WriteList, CategoriesTyped, HeldFits, Held
<1>2. formatted \subseteq Names
  BY <1>1 DEF CategoriesAssumption
<1>3. /\ entity' = [entity EXCEPT ![n] = new]
      /\ respelt' = [respelt EXCEPT ![n] = formatted \ req[w].names]
  BY DEF WriteList
<1>4. \A x \in Names : new[x] > 0 => x \in formatted
  OBVIOUS
<1> HIDE DEF new, n, formatted
<1>5. /\ \A m \in Entities : entity'[m] = IF m = n THEN new ELSE entity[m]
      /\ \A m \in Entities : respelt'[m] = IF m = n THEN formatted \ req[w].names ELSE respelt[m]
      /\ RespeltTyped'
  BY <1>1, <1>2, <1>3 DEF CategoriesTyped, RespeltTyped
<1> QED
  BY <1>4, <1>5

LEMMA RespeltAlwaysTyped == CategoriesAssumption => (Spec => []RespeltTyped)
<1> SUFFICES ASSUME CategoriesAssumption PROVE Spec => []RespeltTyped
  OBVIOUS
<1>1. Init => RespeltTyped
  BY DEF Init, RespeltTyped
<1>2. CategoriesTyped /\ RespeltTyped /\ [Next]_vars => RespeltTyped'
  BY RespeltKept, RespeltEffect DEF Next, vars, history, RespeltTyped
<1> QED
  BY <1>1, <1>2, CategoriesAlwaysTyped, PTL DEF Spec

\* Every reachable state of categories, of what entities are listed under and of
\* its copy in the index is well typed, for any number of requests that may fail
\* anywhere: no list counts a name below zero.
THEOREM TypeCorrect ==
  ASSUME CategoriesAssumption
  PROVE  Spec => []TypeOK
<1>1. CategoriesTyped /\ RespeltTyped => TypeOK
  BY DEF CategoriesTyped, CategoriesStored, CategoryRows, TypeOK, Listing, Listings, RespeltTyped
<1> QED
  BY <1>1, CategoriesAlwaysTyped, RespeltAlwaysTyped, PTL

-----------------------------------------------------------------------------
(* The names of categories, however many requests are in flight.            *)

\* The names that a request is about to give to a category, once it was let in.
Gives(w) == IF pc[w] \in {"create", "find", "rename"} THEN {req[w].new}
            ELSE IF pc[w] = "createAll" THEN req[w].names ELSE {}

\* Nobody else is about to give the name that a rename is about to give.
Apart == \A v, w \in Workers : v # w /\ pc[v] \in {"find", "rename"} => req[v].new \notin Gives(w)

\* A rename is let in only if nothing has the name: its look-up does not fail.
LookedUp == \A w \in Workers : pc[w] = "idle" /\ pc'[w] = "find" => FindByName(req'[w].new) = {}

\* A new name is still new when it is written.
NewNames == \A w \in Workers : pc[w] \in {"find", "rename"} => ~Named(category, req[w].new)

NamesInv == UniqueNames(category) /\ NewNames

\* What a request does to the names.
LEMMA NamesGiven ==
    ASSUME CategoriesAssumption, CategoriesTyped, NEW w \in Workers,
           SubmitAny(w) \/ Work(w) \/ Fail(w)
    PROVE  \A y : Named(category', y) => Named(category, y) \/ y \in Gives(w)
<1>1. CASE CreateAll(w) /\ req[w].names # {}
  <2>0. PICK x \in req[w].names : \E i \in Upserted(x) :
               category' = [category EXCEPT ![i] = [life |-> "live", name |-> x]]
    BY <1>1 DEF CreateAll
  <2>1. PICK i \in Upserted(x) :
               category' = [category EXCEPT ![i] = [life |-> "live", name |-> x]]
    BY <2>0
  <2>2. pc[w] = "createAll" /\ i \in Ids /\ category \in [Ids -> CategoryRows]
    BY <1>1, <2>1 DEF CreateAll, Upserted, FindByName, Live, CategoriesTyped, CategoriesStored
  <2> QED
    BY <2>1, <2>2 DEF Named, Gives
<1>2. CASE Create(w)
  <2>1. PICK i \in Upserted(req[w].new) :
               category' = [category EXCEPT ![i] = [life |-> "live", name |-> req[w].new]]
    BY <1>2 DEF Create
  <2>2. pc[w] = "create" /\ i \in Ids /\ category \in [Ids -> CategoryRows]
    BY <1>2, <2>1 DEF Create, Upserted, FindByName, Live, CategoriesTyped, CategoriesStored
  <2> QED
    BY <2>1, <2>2 DEF Named, Gives
<1>3. CASE Rename(w) /\ req[w].id \in Live
  <2>1. /\ category' = [category EXCEPT ![req[w].id].name = req[w].new]
        /\ pc[w] = "rename" /\ req[w].id \in Ids /\ category \in [Ids -> CategoryRows]
    BY <1>3 DEF Rename, Live, CategoriesTyped, CategoriesStored
  <2>2. /\ category'[req[w].id].name = req[w].new
        /\ \A i \in Ids : i # req[w].id => category'[i] = category[i]
    BY <2>1 DEF CategoryRows
  <2> QED
    BY <2>1, <2>2 DEF Named, Gives
<1>4. CASE Delete(w) /\ req[w].id \in Live
  <2>1. /\ category' = [category EXCEPT ![req[w].id] = [life |-> "deleted", name |-> NoName]]
        /\ req[w].id \in Ids /\ category \in [Ids -> CategoryRows]
    BY <1>4 DEF Delete, Live, CategoriesTyped, CategoriesStored
  <2> QED
    BY <2>1 DEF Named
<1>5. CASE UNCHANGED category
  BY <1>5 DEF Named
<1>6. CASE SubmitAny(w) \/ Fail(w)
  BY <1>5, <1>6, CategorySubmitted, CategoryFails DEF stores
<1>7. CASE Work(w)
  <2>1. CASE WriteList(w) \/ (CreateAll(w) /\ req[w].names = {}) \/ Find(w)
    BY <1>5, <2>1, WriteListEffect, CreateAllEnds, FindEffect
  <2>2. CASE (Rename(w) \/ Delete(w)) /\ req[w].id \notin Live
    BY <1>5, <2>2 DEF Rename, Delete
  <2>3. CASE RenameDocs(w) \/ PushNew(w) \/ PullOld(w) \/ PullDocs(w) \/ Pull(w) \/ RestoreDoc(w)
    BY <1>5, <2>3, RenameDocsEffect, PushNewEffect, PulledEffect, PullDocsEffect, RestoreDocEffect
  <2> QED
    BY <1>1, <1>2, <1>3, <1>4, <1>7, <2>1, <2>2, <2>3 DEF Work
<1> QED
  BY <1>6, <1>7

\* A category that gets a name gets a new one, or has it.
LEMMA StaysUnique ==
    ASSUME CategoriesAssumption, CategoriesTyped, NamesInv, NEW w \in Workers,
           SubmitAny(w) \/ Work(w) \/ Fail(w)
    PROVE  UniqueNames(category')
<1>1. UniqueNames(category) /\ (pc[w] = "rename" => ~Named(category, req[w].new))
  BY DEF NamesInv, NewNames
<1>2. CASE SubmitAny(w) \/ Fail(w)
  BY <1>1, <1>2, CategorySubmitted, CategoryFails DEF stores, UniqueNames
<1>3. CASE CreateAll(w)
  <2>1. CASE req[w].names = {}
    BY <1>1, <1>3, <2>1, CreateAllEnds DEF UniqueNames
  <2>2. CASE req[w].names # {}
    BY <1>1, <1>3, <2>2, CreateAllEffect
  <2> QED
    BY <2>1, <2>2
<1>4. CASE Create(w)
  BY <1>1, <1>4, CreateEffect
<1>5. CASE Rename(w)
  <2>1. pc[w] = "rename"
    BY <1>5 DEF Rename
  <2> QED
    BY <1>1, <1>5, <2>1, RenameEffect DEF UniqueNames
<1>6. CASE Delete(w)
  BY <1>1, <1>6, DeleteEffect DEF UniqueNames
<1>7. CASE WriteList(w) \/ Find(w) \/ RestoreDoc(w)
  BY <1>1, <1>7, WriteListEffect, FindEffect, RestoreDocEffect DEF UniqueNames
<1>8. CASE RenameDocs(w) \/ PushNew(w) \/ PullOld(w) \/ PullDocs(w) \/ Pull(w)
  BY <1>1, <1>8, RenameDocsEffect, PushNewEffect, PulledEffect, PullDocsEffect DEF UniqueNames
<1> QED
  BY <1>2, <1>3, <1>4, <1>5, <1>6, <1>7, <1>8 DEF Work

\* Where a request goes from where.
LEMMA Ways ==
    ASSUME CategoriesAssumption, CategoriesTyped, NEW w \in Workers,
           SubmitAny(w) \/ Work(w) \/ Fail(w)
    PROVE  /\ \E step, r : Move(w, step, r)
           /\ pc'[w] = "find" => pc[w] = "idle"
           /\ pc'[w] = "rename" => pc[w] = "find" /\ req'[w].new = req[w].new
           /\ pc'[w] \in {"find", "rename"} => UNCHANGED category
<1> DEFINE Way == /\ \E step, r : Move(w, step, r)
                  /\ pc'[w] = "find" => pc[w] = "idle"
                  /\ pc'[w] = "rename" => pc[w] = "find" /\ req'[w].new = req[w].new
                  /\ pc'[w] \in {"find", "rename"} => UNCHANGED category
<1>0. \A step, r : Move(w, step, r) => pc'[w] = step /\ req'[w] = r
  BY DEF Move, CategoriesTyped
<1>1. ASSUME NEW step, NEW r, Move(w, step, r), step \notin {"find", "rename"}
      PROVE  Way
  BY <1>0, <1>1
<1>2. CASE SubmitAny(w)
  <2>1. PICK step \in Steps, r \in Held :
               /\ Move(w, step, r) /\ UNCHANGED stores
               /\ failed' \/ step \in {"writeList", "create", "find", "delete", "restoreDoc"}
    BY <1>2, CategorySubmitted
  <2>2. pc[w] = "idle" /\ UNCHANGED category
    BY <1>2, <2>1, CategorySubmitted DEF stores
  <2>3. pc'[w] # "rename"
    <3>0. CASE \E n \in Entities : SubmitRestore(w, n)
      BY <1>0, <3>0 DEF SubmitRestore, Submit, Go
    <3>1. CASE \E n \in Entities, names \in SUBSET Names : SubmitAssign(w, n, names)
      BY <1>0, <3>1 DEF SubmitAssign, Submit, Go
    <3>2. CASE \E x \in Names : SubmitCreate(w, x)
      BY <1>0, <3>2 DEF SubmitCreate, SubmitNew, Go, GoAstray
    <3>3. CASE \E x \in Names, i \in Ids : SubmitRename(w, i, x)
      BY <1>0, <3>3 DEF SubmitRename, SubmitNew, Go, GoAstray
    <3>4. CASE \E i \in Ids : SubmitDelete(w, i)
      BY <1>0, <3>4 DEF SubmitDelete, Submit, Go
    <3> QED
      BY <1>2, <3>0, <3>1, <3>2, <3>3, <3>4, Zenon DEF SubmitAny
  <2> QED
    BY <1>0, <2>1, <2>2, <2>3
<1>3. CASE Find(w)
  <2>1. pc[w] = "find" /\ UNCHANGED category
    BY <1>3, FindEffect DEF Find
  <2>2. PICK step, r : Move(w, step, r) /\ (step = "idle" \/ (step = "rename" /\ r.new = req[w].new))
    BY <1>3, FindEffect
  <2> QED
    BY <1>0, <2>1, <2>2
<1>4. CASE Fail(w)
  BY <1>1, <1>4, CategoryFails
<1>5. CASE WriteList(w) \/ Create(w) \/ Rename(w) \/ RestoreDoc(w)
  BY <1>1, <1>5, WriteListEffect, CreateEffect, RenameEffect, RestoreDocEffect
<1>6. CASE CreateAll(w)
  BY <1>1, <1>6, CreateAllEnds, CreateAllEffect
<1>7. CASE RenameDocs(w) \/ PushNew(w) \/ PullOld(w)
  BY <1>1, <1>7, RenameDocsEffect, PushNewEffect, PulledEffect
<1>8. CASE Delete(w) \/ PullDocs(w) \/ Pull(w)
  BY <1>1, <1>8, DeleteEffect, PullDocsEffect, PulledEffect
<1> QED
  BY <1>2, <1>3, <1>4, <1>5, <1>6, <1>7, <1>8 DEF Work

LEMMA NamesNext ==
    ASSUME CategoriesAssumption, CategoriesTyped, NamesInv, Apart, LookedUp, NEW w \in Workers,
           SubmitAny(w) \/ Work(w) \/ Fail(w)
    PROVE  NamesInv'
<1> SUFFICES ASSUME NEW v \in Workers, pc'[v] \in {"find", "rename"}
             PROVE  ~Named(category', req'[v].new)
  BY StaysUnique DEF NamesInv, NewNames
<1>1. CASE v = w
  <2>1. UNCHANGED category
    BY <1>1, Ways
  <2>2. CASE pc'[w] = "find"
    BY <1>1, <2>1, <2>2, Ways, FoundIsNamed DEF LookedUp
  <2>3. CASE pc'[w] = "rename"
    BY <1>1, <2>1, <2>3, Ways DEF NamesInv, NewNames
  <2> QED
    BY <1>1, <2>2, <2>3
<1>2. CASE v # w
  <2>1. pc'[v] = pc[v] /\ req'[v] = req[v]
    BY <1>2, Ways DEF Move, CategoriesTyped
  <2>2. ~Named(category, req[v].new)
    BY <2>1 DEF NamesInv, NewNames
  <2>3. req[v].new \notin Gives(w)
    BY <1>2, <2>1 DEF Apart
  <2> QED
    BY <2>1, <2>2, <2>3, NamesGiven
<1> QED
  BY <1>1, <1>2

-----------------------------------------------------------------------------
(* What entities are listed under, with one request at a time.              *)

\* A name that an entity is listed under before it has a category, or after.
Awaits(step, r, x) == \/ step = "createAll" /\ x \in r.names
                      \/ step \in Replacing \cup Pulling /\ x = r.old

CategoryListed(c, e, but, step, r) ==
    \A n \in Entities, x \in Names :
       e[n][x] > 0 /\ x \notin but[n] => Named(c, x) \/ Awaits(step, r, x)

\* What a rename has read is still so.
CategoryRemembered(c, step, r) ==
    /\ step = "rename" /\ c[r.id].life = "live" => c[r.id].name = r.old
    /\ step \in Replacing => Named(c, r.new)

ListedInv ==
    \/ failed
    \/ /\ \A n \in Entities, x \in Names :
             entity[n][x] > 0 /\ x \notin respelt[n]
             => Named(category, x) \/ \E w \in Workers : Awaits(pc[w], req[w], x)
       /\ \A w \in Workers : CategoryRemembered(category, pc[w], req[w])

LEMMA ListedMoves ==
    ASSUME Serial, CategoriesTyped, NEW w \in Workers, NEW step, NEW r, Move(w, step, r),
           failed' \/ (CategoryListed(category', entity', respelt', step, r) /\ CategoryRemembered(category', step, r))
    PROVE  ListedInv'
<1>1. \A v \in Workers : pc'[v] = step /\ req'[v] = r
  BY DEF Serial, CategoriesTyped, Move
<1> QED
  BY <1>1 DEF ListedInv, CategoryListed

LEMMA ListedLast ==
    ASSUME Serial, ListedInv, ~failed, NEW w \in Workers
    PROVE  /\ CategoryListed(category, entity, respelt, pc[w], req[w])
           /\ CategoryRemembered(category, pc[w], req[w])
<1>1. \A v \in Workers : v = w
  BY DEF Serial
<1> QED
  BY <1>1 DEF ListedInv, CategoryListed

LEMMA ListedNext ==
    ASSUME Serial, CategoriesAssumption, CategoriesTyped, RespeltTyped, ListedInv, NEW w \in Workers,
           SubmitAny(w) \/ Work(w) \/ Fail(w)
    PROVE  ListedInv'
<1> DEFINE before == /\ CategoryListed(category, entity, respelt, pc[w], req[w])
                     /\ CategoryRemembered(category, pc[w], req[w])
<1>0. (failed \/ before) /\ (pc[w] = "writeList" \/ UNCHANGED respelt)
  BY ListedLast, RespeltKept
<1> HIDE DEF before
<1> USE DEF before, CategoryListed, CategoryRemembered, Awaits, Replacing, Pulling
<1>1. CASE SubmitAny(w)
  <2>1. PICK step \in Steps, r \in Held :
               /\ Move(w, step, r) /\ UNCHANGED <<category, entity>>
               /\ \/ failed'
                  \/ /\ UNCHANGED failed
                     /\ step \in {"writeList", "create", "find", "delete", "restoreDoc"}
    BY <1>1, CategorySubmitted DEF stores
  <2>2. pc[w] = "idle"
    BY <1>1, CategorySubmitted
  <2>3. failed' \/ (CategoryListed(category', entity', respelt', step, r) /\ CategoryRemembered(category', step, r))
    BY <1>0, <2>1, <2>2
  <2> QED
    BY <2>1, <2>3, ListedMoves
<1>2. CASE Fail(w)
  BY <1>2, CategoryFails, ListedMoves
<1>3. CASE WriteList(w)
  <2>1. pc[w] = "writeList" /\ req[w].names \subseteq Names
    BY <1>3 DEF WriteList, CategoriesTyped, Held
  <2>2. \A n \in Entities, x \in Names :
           entity'[n][x] > 0 /\ x \notin respelt'[n]
           => (entity[n][x] > 0 /\ x \notin respelt[n]) \/ x \in req[w].names
    BY <1>3, <2>1, RespeltEffect
  <2>3. UNCHANGED <<category, failed>> /\ Move(w, "createAll", req[w])
    BY <1>3, WriteListEffect
  <2>4. failed' \/ (/\ CategoryListed(category', entity', respelt', "createAll", req[w])
                    /\ CategoryRemembered(category', "createAll", req[w]))
    BY <1>0, <2>1, <2>2, <2>3
  <2> QED
    BY <2>3, <2>4, ListedMoves
<1>4. CASE CreateAll(w)
  <2>1. pc[w] = "createAll"
    BY <1>4 DEF CreateAll
  <2>2. CASE req[w].names = {}
    <3>1. Move(w, "idle", NoReq) /\ UNCHANGED <<category, entity, failed>>
      BY <1>4, <2>2, CreateAllEnds
    <3>2. failed' \/ (/\ CategoryListed(category', entity', respelt', "idle", NoReq)
                      /\ CategoryRemembered(category', "idle", NoReq))
      BY <1>0, <2>1, <2>2, <3>1
    <3> QED
      BY <3>1, <3>2, ListedMoves
  <2>3. CASE req[w].names # {}
    <3>1. PICK x \in req[w].names, r \in Held :
                 /\ r.names = req[w].names \ {x} /\ Move(w, "createAll", r)
                 /\ UNCHANGED <<entity, failed>> /\ Named(category', x)
                 /\ \A y : Named(category, y) => Named(category', y)
      BY <1>4, <2>3, CreateAllEffect
    <3>2. failed' \/ (/\ CategoryListed(category', entity', respelt', "createAll", r)
                      /\ CategoryRemembered(category', "createAll", r))
      BY <1>0, <2>1, <3>1
    <3> QED
      BY <3>1, <3>2, ListedMoves
  <2> QED
    BY <2>2, <2>3
<1>5. CASE Create(w)
  <2>1. pc[w] = "create"
    BY <1>5 DEF Create
  <2>2. /\ Move(w, "idle", NoReq) /\ UNCHANGED <<entity, failed>>
        /\ \A y : Named(category, y) => Named(category', y)
    BY <1>5, CreateEffect
  <2>3. failed' \/ (/\ CategoryListed(category', entity', respelt', "idle", NoReq)
                    /\ CategoryRemembered(category', "idle", NoReq))
    BY <1>0, <2>1, <2>2
  <2> QED
    BY <2>2, <2>3, ListedMoves
<1>6. CASE Find(w)
  <2>1. pc[w] = "find" /\ UNCHANGED <<category, entity, failed>>
    BY <1>6, FindEffect DEF Find
  <2>2. PICK step, r : /\ Move(w, step, r)
                       /\ \/ step = "idle"
                          \/ step = "rename" /\ r.id = req[w].id /\ r.old = category[req[w].id].name
    BY <1>6, FindEffect
  <2>3. failed' \/ (CategoryListed(category', entity', respelt', step, r) /\ CategoryRemembered(category', step, r))
    BY <1>0, <2>1, <2>2
  <2> QED
    BY <2>2, <2>3, ListedMoves
<1>7. CASE Rename(w)
  <2>1. pc[w] = "rename" /\ UNCHANGED <<entity, failed>>
    BY <1>7, RenameEffect DEF Rename
  <2>2. CASE Move(w, "idle", NoReq) /\ UNCHANGED category
    <3>1. failed' \/ (/\ CategoryListed(category', entity', respelt', "idle", NoReq)
                      /\ CategoryRemembered(category', "idle", NoReq))
      BY <1>0, <2>1, <2>2
    <3> QED
      BY <2>2, <3>1, ListedMoves
  <2>3. CASE /\ Move(w, "renameDocs", req[w]) /\ Named(category', req[w].new)
             /\ category[req[w].id].life = "live"
             /\ \A y : Named(category, y) => Named(category', y) \/ y = category[req[w].id].name
    <3>1. failed' \/ (/\ CategoryListed(category', entity', respelt', "renameDocs", req[w])
                      /\ CategoryRemembered(category', "renameDocs", req[w]))
      BY <1>0, <2>1, <2>3
    <3> QED
      BY <2>3, <3>1, ListedMoves
  <2> QED
    BY <1>7, <2>2, <2>3, RenameEffect
<1>8. CASE RenameDocs(w)
  <2>1. /\ pc[w] = "renameDocs" /\ UNCHANGED <<category, entity, failed>>
        /\ Move(w, "pushNew", req[w])
    BY <1>8, RenameDocsEffect DEF RenameDocs
  <2>2. failed' \/ (/\ CategoryListed(category', entity', respelt', "pushNew", req[w])
                    /\ CategoryRemembered(category', "pushNew", req[w]))
    BY <1>0, <2>1
  <2> QED
    BY <2>1, <2>2, ListedMoves
<1>9. CASE PushNew(w)
  <2>1. /\ pc[w] = "pushNew" /\ UNCHANGED <<category, failed>> /\ Move(w, "pullOld", req[w])
        /\ \A n \in Entities, x \in Names : entity'[n][x] > 0 => entity[n][x] > 0 \/ x = req[w].new
    BY <1>9, PushNewEffect DEF PushNew
  <2>2. failed' \/ (/\ CategoryListed(category', entity', respelt', "pullOld", req[w])
                    /\ CategoryRemembered(category', "pullOld", req[w]))
    BY <1>0, <2>1
  <2> QED
    BY <2>1, <2>2, ListedMoves
<1>10. CASE PullOld(w) \/ Pull(w)
  <2>1. /\ pc[w] \in {"pullOld", "pull"} /\ UNCHANGED <<category, failed>>
        /\ Move(w, "idle", NoReq)
        /\ \A n \in Entities, x \in Names : entity'[n][x] > 0 => entity[n][x] > 0 /\ x # req[w].old
    BY <1>10, PulledEffect DEF PullOld, Pull
  <2>2. failed' \/ (/\ CategoryListed(category', entity', respelt', "idle", NoReq)
                    /\ CategoryRemembered(category', "idle", NoReq))
    BY <1>0, <2>1
  <2> QED
    BY <2>1, <2>2, ListedMoves
<1>11. CASE Delete(w)
  <2>1. pc[w] = "delete" /\ UNCHANGED <<entity, failed>>
    BY <1>11, DeleteEffect DEF Delete
  <2>2. PICK step, r : /\ Move(w, step, r)
                       /\ \/ step = "idle" /\ UNCHANGED category
                          \/ /\ step = "pullDocs"
                             /\ \A y : Named(category, y) => Named(category', y) \/ y = r.old
    BY <1>11, DeleteEffect
  <2>3. failed' \/ (CategoryListed(category', entity', respelt', step, r) /\ CategoryRemembered(category', step, r))
    BY <1>0, <2>1, <2>2
  <2> QED
    BY <2>2, <2>3, ListedMoves
<1>12. CASE PullDocs(w)
  <2>1. /\ pc[w] = "pullDocs" /\ UNCHANGED <<category, entity, failed>>
        /\ Move(w, "pull", req[w])
    BY <1>12, PullDocsEffect DEF PullDocs
  <2>2. failed' \/ (/\ CategoryListed(category', entity', respelt', "pull", req[w])
                    /\ CategoryRemembered(category', "pull", req[w]))
    BY <1>0, <2>1
  <2> QED
    BY <2>1, <2>2, ListedMoves
<1>13. CASE RestoreDoc(w)
  <2>1. /\ pc[w] = "restoreDoc" /\ UNCHANGED <<category, entity, failed>>
        /\ Move(w, "idle", NoReq)
    BY <1>13, RestoreDocEffect DEF RestoreDoc
  <2>2. failed' \/ (/\ CategoryListed(category', entity', respelt', "idle", NoReq)
                    /\ CategoryRemembered(category', "idle", NoReq))
    BY <1>0, <2>1
  <2> QED
    BY <2>1, <2>2, ListedMoves
<1> QED
  BY <1>1, <1>2, <1>3, <1>4, <1>5, <1>6, <1>7, <1>8, <1>9, <1>10, <1>11, <1>12, <1>13 DEF Work

\* Before the old name of a rename is pulled, its entities have the new one.
PushedInv ==
    \A w \in Workers : pc[w] = "pullOld" =>
       \A n \in Entities : entity[n][req[w].old] > 0 /\ req[w].old # req[w].new
                              => entity[n][req[w].new] > 0

LEMMA PushedMoves ==
    ASSUME Serial, CategoriesTyped, NEW w \in Workers, NEW step, step # "pullOld", NEW r,
           Move(w, step, r)
    PROVE  PushedInv'
<1>1. \A v \in Workers : pc'[v] = step
  BY DEF Serial, CategoriesTyped, Move
<1> QED
  BY <1>1 DEF PushedInv

LEMMA PushedNext ==
    ASSUME Serial, CategoriesAssumption, CategoriesTyped, NEW w \in Workers,
           SubmitAny(w) \/ Work(w) \/ Fail(w)
    PROVE  PushedInv'
<1>1. CASE SubmitAny(w) \/ Fail(w)
  <2>1. \E step, r : step # "pullOld" /\ Move(w, step, r)
    BY <1>1, CategoryFails DEF SubmitAny, SubmitRestore, SubmitAssign, SubmitCreate,
       SubmitRename, SubmitDelete, Submit, SubmitNew, Go, history, GoAstray
  <2> QED
    BY <2>1, PushedMoves
<1>2. CASE PushNew(w)
  <2>1. \A v \in Workers : pc'[v] = "pullOld" /\ req'[v] = req[w] /\ req[v] = req[w]
    BY <1>2, PushNewEffect DEF Serial, CategoriesTyped, Move
  <2> QED
    BY <1>2, <2>1, PushNewEffect DEF PushedInv
<1>3. CASE WriteList(w) \/ CreateAll(w) \/ Create(w)
  BY <1>3, PushedMoves, WriteListEffect, CreateAllEnds, CreateAllEffect, CreateEffect
<1>4. CASE Find(w) \/ Rename(w) \/ RenameDocs(w)
  BY <1>4, PushedMoves, FindEffect, RenameEffect, RenameDocsEffect
<1>5. CASE PullOld(w) \/ Delete(w) \/ PullDocs(w) \/ Pull(w) \/ RestoreDoc(w)
  BY <1>5, PushedMoves, PulledEffect, DeleteEffect, PullDocsEffect, RestoreDocEffect
<1> QED
  BY <1>1, <1>2, <1>3, <1>4, <1>5 DEF Work

\* The steps of a rename after which it may stop.
LEMMA RenameKeeps ==
    ASSUME Serial, CategoriesAssumption, CategoriesTyped, PushedInv, NEW v \in Workers,
           SubmitAny(v) \/ Work(v) \/ Fail(v),
           NEW w \in Workers, NEW n \in Entities, req[w].old # req[w].new
    PROVE  KeepsListed(w, n)
<1> SUFFICES ASSUME pc[w] \in Replacing, n \in Under(entity, req[w].old)
             PROVE  NamesOf(entity'[n]) # {}
  BY DEF KeepsListed, Replacing
<1>1. v = w
  BY DEF Serial
<1>2. /\ req[w].old \in Names /\ req[w].new \in Names
      /\ entity[n][req[w].old] > 0
  BY DEF CategoriesTyped, HeldFits, Replacing, Under
<1>3. CASE PushNew(w)
  BY <1>2, <1>3, PushNewEffect DEF NamesOf
<1>4. CASE PullOld(w)
  <2>1. entity[n][req[w].new] > 0
    BY <1>2, <1>4 DEF PushedInv, PullOld
  <2>2. entity'[n][req[w].new] > 0
    BY <1>2, <1>4, <2>1, PulledEffect
  <2> QED
    BY <1>2, <2>2 DEF NamesOf
<1>5. CASE RenameDocs(w) \/ Fail(w)
  BY <1>2, <1>5, RenameDocsEffect, CategoryFails DEF NamesOf
<1>6. CASE SubmitAny(w)
  BY <1>6, CategorySubmitted DEF Replacing
<1> QED
  BY <1>1, <1>3, <1>4, <1>5, <1>6 DEF Replacing, Work, WriteList, CreateAll, Create,
     Find, Rename, Delete, PullDocs, Pull, RestoreDoc

-----------------------------------------------------------------------------
\* What holds in the beginning, after every step, and with it.
LEMMA CategoriesStart ==
    ASSUME CategoriesAssumption, Init
    PROVE  ListedInv /\ PushedInv
<1>1. /\ \A i \in Ids : category[i].life = "unused"
      /\ \A n \in Entities, x \in Names : entity[n][x] = 0
      /\ \A w \in Workers : pc[w] = "idle"
  BY DEF Init, Unlisted
<1> QED
  BY <1>1 DEF ListedInv, CategoryRemembered, Replacing, PushedInv

LEMMA CategoriesStay ==
    ASSUME UNCHANGED vars
    PROVE  /\ ListedInv => ListedInv'
           /\ PushedInv => PushedInv'
  BY DEF vars, stores, history, ListedInv, PushedInv

\* However many requests are in flight, and wherever they fail or stop, categories
\* get the same name only through a rename: one whose look-up failed, or one whose
\* new name another request is about to give as well.
THEOREM NamesApart ==
  ASSUME CategoriesAssumption
  PROVE  Spec /\ []Apart /\ [][LookedUp]_vars => []UniqueNames(category)
<1>1. Init => NamesInv
  BY DEF Init, NamesInv, UniqueNames, NewNames
<1>2. CategoriesTyped /\ NamesInv /\ Apart /\ [Next]_vars /\ [LookedUp]_vars => NamesInv'
  <2> SUFFICES ASSUME CategoriesTyped, NamesInv, Apart, [Next]_vars, [LookedUp]_vars PROVE NamesInv'
    OBVIOUS
  <2>1. CASE UNCHANGED vars
    BY <2>1 DEF vars, stores, NamesInv, UniqueNames, NewNames, Named
  <2>2. CASE Next /\ LookedUp
    BY <2>2, NamesNext DEF Next
  <2> QED
    BY <2>1, <2>2
<1>3. NamesInv => UniqueNames(category)
  BY DEF NamesInv
<1> QED
  BY <1>1, <1>2, <1>3, CategoriesAlwaysTyped, PTL DEF Spec

\* With one request at a time, however names are typed: until a call fails,
\* entities are listed under categories that exist, through assignments, renames
\* and deletions, but for what was assigned in a spelling that formatting changes.
THEOREM ListedHaveCategories ==
  ASSUME Serial, CategoriesAssumption
  PROVE  Spec => []ListedExist
<1>1. Init => ListedInv
  BY CategoriesStart
<1>2. CategoriesTyped /\ RespeltTyped /\ ListedInv /\ [Next]_vars => ListedInv'
  BY CategoriesStay, ListedNext DEF Next
<1>3. ListedInv => ListedExist
  BY FoundIsNamed DEF ListedInv, Awaits, Replacing, Pulling, ListedExist, Quiet, NamesOf
<1> QED
  BY <1>1, <1>2, <1>3, CategoriesAlwaysTyped, RespeltAlwaysTyped, PTL DEF Spec

\* With one request at a time, wherever it stops: a rename leaves no entity that
\* was listed under the old name without a category.
THEOREM RenamesKeep ==
  ASSUME Serial, CategoriesAssumption
  PROVE  Spec => RenamesKeepListed
<1> DEFINE A == \A w \in Workers, n \in Entities : req[w].old # req[w].new => KeepsListed(w, n)
<1>1. Init => PushedInv
  BY CategoriesStart
<1>2. CategoriesTyped /\ PushedInv /\ [Next]_vars => PushedInv'
  BY CategoriesStay, PushedNext DEF Next
<1>3. CategoriesTyped /\ PushedInv /\ [Next]_vars => [A]_vars
  BY RenameKeeps DEF Next
<1> HIDE DEF A
<1>4. Spec => [][A]_vars
  BY <1>1, <1>2, <1>3, CategoriesAlwaysTyped, PTL DEF Spec
<1> QED
  BY <1>4 DEF A, RenamesKeepListed
=============================================================================

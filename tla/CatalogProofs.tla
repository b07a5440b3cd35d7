--------------------------- MODULE CatalogProofs ---------------------------
(***************************************************************************)
(* What the looks before the writes are worth, for any number of rows and  *)
(* of overlapping requests.  Each component has one invariant of the same  *)
(* shape: what a request has seen still holds unless it was overtaken.     *)
(***************************************************************************)
EXTENDS Category, Plan, Feature, OverlapProofs

-----------------------------------------------------------------------------
(* Categories.                                                             *)

\* What a request has seen: no sibling with the slug, unless overtaken.
CatCallSound(call) ==
    /\ call.at = "create" /\ ~call.raced => ~SiblingTaken(Root, call.slug, call.parent)
    /\ call.at = "update" /\ ~call.raced => ~SiblingTaken(call.id, call.slug, call.parent)

\* The foreign key of the parent.
ParentsExist == \A id \in Categories : category[id].parent \in Categories \cup {Root}

CategoryInv ==
    /\ CategoryTypeOK
    /\ ParentsExist
    /\ SiblingSlugsDiffer
    /\ \A c \in CategoryCalls : CatCallSound(catCall[c])

LEMMA CategoryInitInv == CategoryInit => CategoryInv
BY DEF CategoryInit, CategoryInv, CategoryTypeOK, ParentsExist, SiblingSlugsDiffer, CatCallSound,
       CatCall, NoCall, Categories

LEMMA CatEnded ==
  ASSUME catCall \in [CategoryCalls -> CatCall], NEW c \in CategoryCalls,
         NEW wrote \in BOOLEAN, CatEnd(c, wrote)
  PROVE  /\ catCall' \in [CategoryCalls -> CatCall]
         /\ \A d \in CategoryCalls :
                \/ catCall'[d] = NoCall
                \/ wrote /\ catCall'[d].raced
                \/ ~wrote /\ catCall'[d] = catCall[d]
<1>1. NoCall \in CatCall
  BY DEF CatCall
<1>2. \A k \in CatCall \ {NoCall} : Overtaken(k) \in CatCall /\ Overtaken(k).raced
  BY DEF CatCall, Overtaken
<1>3. catCall' = Ended(catCall, c, wrote)
  BY DEF CatEnd
<1> QED
  BY <1>1, <1>2, <1>3, EndedCalls

\* A request that only read.
LEMMA CatDecided ==
  ASSUME CategoryInv, NEW c \in CategoryCalls, NEW decision \in CatCall,
         CatDecide(c, decision), CatCallSound(decision)
  PROVE  CategoryInv'
BY DEF CategoryInv, CategoryTypeOK, ParentsExist, SiblingSlugsDiffer, CatCallSound,
       SiblingTaken, Categories, CatDecide, Decided

LEMMA CatCreateRead ==
  ASSUME CategoryInv, NEW c \in CategoryCalls,
         NEW slug \in Slugs, NEW parent \in Categories \cup {Root},
         CategoryCreateRead(c, slug, parent)
  PROVE  CategoryInv'
<1> DEFINE decision == [at |-> "create", slug |-> slug, parent |-> parent, raced |-> FALSE]
<1>1. decision \in CatCall /\ CatCallSound(decision)
  BY DEF CategoryCreateRead, CatCall, CatCallSound, CategoryInv, CategoryTypeOK
<1> QED
  BY <1>1, CatDecided DEF CategoryCreateRead

LEMMA CatUpdateRead ==
  ASSUME CategoryInv, NEW c \in CategoryCalls, NEW id \in CategoryIds,
         NEW slug \in Slugs, NEW parent \in Categories \cup {Root},
         CategoryUpdateRead(c, id, slug, parent)
  PROVE  CategoryInv'
<1> DEFINE decision == [at |-> "update", id |-> id, slug |-> slug, parent |-> parent,
                        raced |-> FALSE]
<1>1. decision \in CatCall /\ CatCallSound(decision)
  BY DEF CategoryUpdateRead, LookedUnder, CatCall, CatCallSound, CategoryInv, CategoryTypeOK
<1> QED
  BY <1>1, CatDecided DEF CategoryUpdateRead

LEMMA CatRemoveRead ==
  ASSUME CategoryInv, NEW c \in CategoryCalls, NEW id \in CategoryIds,
         CategoryRemoveRead(c, id)
  PROVE  CategoryInv'
<1> DEFINE decision == [at |-> "remove", id |-> id, raced |-> FALSE]
<1>1. decision \in CatCall /\ CatCallSound(decision)
  BY DEF CatCall, CatCallSound
<1> QED
  BY <1>1, CatDecided DEF CategoryRemoveRead

\* A row that is written next to its siblings of now is no twin of them, or is
\* a root written by a request that was overtaken.
LEMMA CatWrite ==
  ASSUME CategoryInv, NEW c \in CategoryCalls, NEW id \in CategoryIds,
         NEW row \in CategoryRow,
         row.parent \in Categories \cup {Root},
         row.parent # Root \/ ~row.raced => ~SiblingTaken(id, row.slug, row.parent),
         category' = With(category, id, row),
         catUsed' \subseteq CategoryIds, catUsed \cup {id} \subseteq catUsed',
         CatEnd(c, TRUE)
  PROVE  CategoryInv'
<1>1. /\ Categories' = Categories \cup {id}
      /\ category'[id] = row
      /\ \A k \in Categories \ {id} : category'[k] = category[k]
  BY DEF With, Categories
<1>2. /\ catCall' \in [CategoryCalls -> CatCall]
      /\ \A d \in CategoryCalls : catCall'[d] = NoCall \/ catCall'[d].raced
  BY CatEnded DEF CategoryInv, CategoryTypeOK
<1>3. CategoryTypeOK'
  BY <1>1, <1>2 DEF CategoryInv, CategoryTypeOK
<1>4. ParentsExist'
  BY <1>1 DEF CategoryInv, ParentsExist
<1>5. SiblingSlugsDiffer'
  <2>1. ASSUME NEW b \in Categories \ {id}, row.parent = category[b].parent,
               row.slug = category[b].slug
        PROVE  row.parent = Root /\ row.raced
    BY <2>1 DEF SiblingTaken, CategoryRow
  <2> QED
    BY <1>1, <2>1 DEF CategoryInv, SiblingSlugsDiffer
<1>6. \A d \in CategoryCalls : CatCallSound(catCall[d])'
  BY <1>2 DEF CatCallSound, NoCall
<1> QED
  BY <1>3, <1>4, <1>5, <1>6 DEF CategoryInv

LEMMA CatCreate ==
  ASSUME CategoryInv, NEW c \in CategoryCalls, CategoryCreate(c)
  PROVE  CategoryInv'
<1> DEFINE call == catCall[c]
<1>1. call \in CatCall /\ call.at = "create" /\ CatCallSound(call)
  BY DEF CategoryInv, CategoryTypeOK, CategoryCreate
<1>2. call.slug \in Slugs /\ call.parent \in CategoryIds \cup {Root} /\ call.raced \in BOOLEAN
  BY <1>1 DEF CatCall, NoCall
<1>3. PICK id \in CategoryIds \ catUsed : /\ catUsed' = catUsed \cup {id}
                                          /\ category' = With(category, id, CatRow(call))
  BY DEF CategoryCreate
<1>4. /\ CatRow(call) \in CategoryRow
      /\ CatRow(call).slug = call.slug
      /\ CatRow(call).parent = call.parent
      /\ CatRow(call).raced = call.raced
  BY <1>2 DEF CatRow, CategoryRow
<1>5. call.parent # Root \/ ~call.raced => ~SiblingTaken(Root, call.slug, call.parent)
  BY <1>1 DEF CategoryCreate, Storable, CatCallSound
<1>6. \A s, p : SiblingTaken(id, s, p) => SiblingTaken(Root, s, p)
  BY CategoryAssumptions DEF SiblingTaken, CategoryInv, CategoryTypeOK
<1>7. call.parent \in Categories \cup {Root}
  BY DEF CategoryCreate, Storable
<1>8. catUsed' \subseteq CategoryIds /\ catUsed \cup {id} \subseteq catUsed'
  BY <1>3 DEF CategoryInv, CategoryTypeOK
<1>9. CatEnd(c, TRUE)
  BY DEF CategoryCreate
<1> HIDE DEF call
<1> QED
  BY <1>3, <1>4, <1>5, <1>6, <1>7, <1>8, <1>9, CatWrite

LEMMA CatUpdate ==
  ASSUME CategoryInv, NEW c \in CategoryCalls, CategoryUpdate(c)
  PROVE  CategoryInv'
<1> DEFINE call == catCall[c]
<1>1. call \in CatCall /\ call.at = "update" /\ CatCallSound(call)
  BY DEF CategoryInv, CategoryTypeOK, CategoryUpdate
<1>2. /\ call.id \in CategoryIds
      /\ call.slug \in Slugs /\ call.parent \in CategoryIds \cup {Root} /\ call.raced \in BOOLEAN
  BY <1>1 DEF CatCall, NoCall
<1>4. /\ CatRow(call) \in CategoryRow
      /\ CatRow(call).slug = call.slug
      /\ CatRow(call).parent = call.parent
      /\ CatRow(call).raced = call.raced
  BY <1>2 DEF CatRow, CategoryRow
<1>5. call.parent # Root \/ ~call.raced => ~SiblingTaken(call.id, call.slug, call.parent)
  BY <1>1 DEF CategoryUpdate, Storable, CatCallSound
<1>7. call.parent \in Categories \cup {Root}
  BY DEF CategoryUpdate, Storable
<1>8. catUsed' \subseteq CategoryIds /\ catUsed \cup {call.id} \subseteq catUsed'
  BY DEF CategoryInv, CategoryTypeOK, CategoryUpdate
<1>9. category' = With(category, call.id, CatRow(call)) /\ CatEnd(c, TRUE)
  BY DEF CategoryUpdate
<1> HIDE DEF call
<1> QED
  BY <1>2, <1>4, <1>5, <1>7, <1>8, <1>9, CatWrite

LEMMA CatRemove ==
  ASSUME CategoryInv, NEW c \in CategoryCalls, CategoryRemove(c)
  PROVE  CategoryInv'
<1> DEFINE gone == catCall[c].id
<1>1. /\ Categories' = Categories \ {gone}
      /\ \A k \in Categories \ {gone} : category'[k] = category[k]
  BY DEF Without, Restrict, Categories, CategoryRemove
<1>2. /\ catCall' \in [CategoryCalls -> CatCall]
      /\ \A d \in CategoryCalls : catCall'[d] = NoCall \/ catCall'[d].raced
  BY CatEnded DEF CategoryInv, CategoryTypeOK, CategoryRemove
<1>3. CategoryTypeOK'
  BY <1>1, <1>2 DEF CategoryInv, CategoryTypeOK, CategoryRemove
<1>4. ParentsExist'
  BY <1>1 DEF CategoryInv, ParentsExist, CategoryRemove, Removable
<1>5. SiblingSlugsDiffer'
  BY <1>1 DEF CategoryInv, SiblingSlugsDiffer
<1>6. \A d \in CategoryCalls : CatCallSound(catCall[d])'
  BY <1>2 DEF CatCallSound, NoCall
<1> QED
  BY <1>3, <1>4, <1>5, <1>6 DEF CategoryInv

LEMMA CatFail ==
  ASSUME CategoryInv, NEW c \in CategoryCalls, CategoryFail(c)
  PROVE  CategoryInv'
<1>1. /\ catCall' \in [CategoryCalls -> CatCall]
      /\ \A d \in CategoryCalls : catCall'[d] = NoCall \/ catCall'[d] = catCall[d]
  BY CatEnded DEF CategoryInv, CategoryTypeOK, CategoryFail
<1>2. UNCHANGED <<category, catUsed>>
  BY DEF CategoryFail
<1> QED
  BY <1>1, <1>2
     DEF CategoryInv, CategoryTypeOK, ParentsExist, SiblingSlugsDiffer, CatCallSound,
         SiblingTaken, Categories, NoCall

LEMMA CategoryStep == CategoryInv /\ [CategoryNext]_categoryVars => CategoryInv'
<1> SUFFICES ASSUME CategoryInv, [CategoryNext]_categoryVars
             PROVE  CategoryInv'
  OBVIOUS
<1>1. CASE UNCHANGED categoryVars
  BY <1>1
     DEF categoryVars, CategoryInv, CategoryTypeOK, ParentsExist, SiblingSlugsDiffer, CatCallSound,
         SiblingTaken, Categories
<1> QED
  BY <1>1, CatCreateRead, CatUpdateRead, CatRemoveRead, CatCreate, CatUpdate, CatRemove, CatFail
     DEF CategoryNext

\* The types of the category tree, its foreign key, and what requests saw.
THEOREM CategoryInvariant == CategorySpec => []CategoryInv
BY CategoryInitInv, CategoryStep, PTL DEF CategorySpec

\* Siblings have different slugs, but for roots written by overlapping requests.
THEOREM SiblingSlugsDifferAlways == CategorySpec => []SiblingSlugsDiffer
<1>1. CategoryInv => SiblingSlugsDiffer
  BY DEF CategoryInv
<1> QED
  BY CategoryInvariant, <1>1, PTL

\* A set that keeps a category off the roots after a step kept it off before,
\* unless it holds a category that the step moved.
LEMMA CutOffOnlyByMoves ==
  ASSUME CategoryInv, CategoryInv', NEW id \in Categories, id \in DOMAIN category',
         Hangs(id), ~Hangs(id)'
  PROVE  \E k \in Moved, parent \in DOMAIN category' :
             category'[k].parent = parent /\ ~Hangs(parent)'
<1>1. PICK S \in SUBSET DOMAIN category' :
          /\ id \in S
          /\ \A k \in S : category'[k].parent \in DOMAIN category' => category'[k].parent \in S
          /\ \A k \in S : category'[k].parent # Root
  BY DEF Hangs, ClosedUnderParents, Categories
<1>2. \A k \in S : category'[k].parent \in S
  BY <1>1 DEF CategoryInv, ParentsExist, Categories
<1>3. \A k \in S : ~Hangs(k)'
  BY <1>1 DEF Hangs, ClosedUnderParents, Categories
<1>4. CASE \E k \in S : k \in Moved
  BY <1>1, <1>2, <1>3, <1>4
<1>5. CASE \A k \in S : k \notin Moved
  <2> DEFINE T == S \cap Categories
  <2>1. \A k \in T : category[k].parent = category'[k].parent
    BY <1>1, <1>5 DEF Moved
  <2>2. \A k \in T : category[k].parent \in S /\ category[k].parent # Root
    BY <1>1, <1>2, <2>1
  <2>3. T \in SUBSET Categories /\ id \in T /\ ClosedUnderParents(T)
    BY <1>1, <2>2 DEF ClosedUnderParents
  <2> QED
    BY <2>2, <2>3 DEF Hangs
<1> QED
  BY <1>4, <1>5

\* Only a move below itself or a descendant takes a category out of the tree.
THEOREM OnlyMovesCutOffAlways == CategorySpec => OnlyMovesCutOff
<1>1. CategoryInv /\ CategoryInv' =>
        [\A id \in Categories :
            Hangs(id) /\ id \in DOMAIN category' =>
                \/ Hangs(id)'
                \/ \E k \in Moved, parent \in DOMAIN category' :
                       category'[k].parent = parent /\ ~Hangs(parent)']_categoryVars
  BY CutOffOnlyByMoves
<1> QED
  BY CategoryInvariant, <1>1, PTL DEF OnlyMovesCutOff

-----------------------------------------------------------------------------
(* Plans.                                                                  *)

PlCall ==
    {NoCall}
    \cup [at : {"planCreate"}, name : PlanNames, raced : BOOLEAN]
    \cup [at : {"planUpdate"}, id : PlanIds, name : PlanNames, raced : BOOLEAN]
    \cup [at : {"planRemove"}, id : PlanIds, raced : BOOLEAN]
    \cup [at : {"linkCreate"}, shelf : Shelves, plan : PlanIds, raced : BOOLEAN]
    \cup [at : {"linkUpdate"}, id : LinkIds, shelf : Shelves \cup {Kept},
          plan : PlanIds \cup {Kept}, raced : BOOLEAN]
    \cup [at : {"linkRemove"}, id : LinkIds, raced : BOOLEAN]

PlanTypeOK ==
    /\ Plans \subseteq planUsed /\ planUsed \subseteq PlanIds
    /\ Links \subseteq linkUsed /\ linkUsed \subseteq LinkIds
    /\ \A p \in Plans : plan[p] \in PlanRow
    /\ \A l \in Links : link[l] \in LinkRow
    /\ shelf \subseteq Shelves
    /\ planCall \in [PlanCalls -> PlCall]

\* What a request has seen: no plan of that name, no twin, unless overtaken.
PlCallSound(call) ==
    /\ call.at = "planCreate" /\ ~call.raced => ~NameTaken(Kept, call.name)
    /\ call.at = "planUpdate" /\ ~call.raced => ~NameTaken(call.id, call.name)
    /\ call.at = "linkCreate" /\ ~call.raced => ~Twin(Kept, call.shelf, call.plan)
    /\ call.at = "linkUpdate" /\ ~call.raced => ~UpdateTwin(call.id, call.shelf, call.plan)

PlanInv ==
    /\ PlanTypeOK
    /\ PlanNamesDiffer
    /\ \A c \in PlanCalls : PlCallSound(planCall[c])

LEMMA PlanInitInv == PlanInit => PlanInv
BY DEF PlanInit, PlanInv, PlanTypeOK, PlanNamesDiffer, PlCallSound, PlCall, NoCall, Plans, Links

LEMMA PlEnded ==
  ASSUME planCall \in [PlanCalls -> PlCall], NEW c \in PlanCalls,
         NEW wrote \in BOOLEAN, PlanEnd(c, wrote)
  PROVE  /\ planCall' \in [PlanCalls -> PlCall]
         /\ \A d \in PlanCalls :
                \/ planCall'[d] = NoCall
                \/ wrote /\ planCall'[d].raced
                \/ ~wrote /\ planCall'[d] = planCall[d]
<1>1. NoCall \in PlCall
  BY DEF PlCall
<1>2. \A k \in PlCall \ {NoCall} : Overtaken(k) \in PlCall /\ Overtaken(k).raced
  BY DEF PlCall, Overtaken
<1>3. planCall' = Ended(planCall, c, wrote)
  BY DEF PlanEnd
<1> QED
  BY <1>1, <1>2, <1>3, EndedCalls

\* A step that writes no table and leaves every request, or ends it.
LEMMA PlUnchanged ==
  ASSUME PlanInv, UNCHANGED <<plan, link, planUsed, linkUsed>>, shelf' \subseteq shelf,
         planCall' \in [PlanCalls -> PlCall],
         \A d \in PlanCalls : \/ planCall'[d] \in {NoCall, planCall[d]}
                              \/ PlCallSound(planCall'[d])
  PROVE  PlanInv'
<1>1. PlanTypeOK' /\ PlanNamesDiffer'
  BY DEF PlanInv, PlanTypeOK, PlanNamesDiffer, Plans, Links
<1>2. \A d \in PlanCalls : PlCallSound(planCall[d])'
  BY DEF PlanInv, PlCallSound, NameTaken, Twin, UpdateTwin, Plans, Links, NoCall
<1> QED
  BY <1>1, <1>2 DEF PlanInv

LEMMA PlDecided ==
  ASSUME PlanInv, NEW c \in PlanCalls, NEW decision \in PlCall,
         PlanDecide(c, decision), PlCallSound(decision)
  PROVE  PlanInv'
<1>1. planCall' \in [PlanCalls -> PlCall]
  BY DEF PlanInv, PlanTypeOK, PlanDecide, Decided
<1>2. \A d \in PlanCalls : planCall'[d] \in {planCall[d], decision}
  BY DEF PlanInv, PlanTypeOK, PlanDecide, Decided
<1> QED
  BY <1>1, <1>2, PlUnchanged DEF PlanDecide

\* After a write no request that is under way claims anything.
LEMMA PlWritten ==
  ASSUME PlanInv, NEW c \in PlanCalls, PlanEnd(c, TRUE)
  PROVE  /\ planCall' \in [PlanCalls -> PlCall]
         /\ \A d \in PlanCalls : PlCallSound(planCall[d])'
<1>1. /\ planCall' \in [PlanCalls -> PlCall]
      /\ \A d \in PlanCalls : planCall'[d] = NoCall \/ planCall'[d].raced
  BY PlEnded DEF PlanInv, PlanTypeOK
<1> QED
  BY <1>1 DEF PlCallSound, NoCall

LEMMA PlWritePlan ==
  ASSUME PlanInv, NEW c \in PlanCalls, NEW id \in PlanIds, NEW row \in PlanRow,
         ~row.raced => ~NameTaken(id, row.name),
         plan' = With(plan, id, row),
         planUsed' \subseteq PlanIds, planUsed \cup {id} \subseteq planUsed',
         UNCHANGED <<link, shelf, linkUsed>>, PlanEnd(c, TRUE)
  PROVE  PlanInv'
<1>1. /\ Plans' = Plans \cup {id}
      /\ plan'[id] = row
      /\ \A k \in Plans \ {id} : plan'[k] = plan[k]
  BY DEF With, Plans
<1>2. PlanTypeOK'
  BY <1>1, PlWritten DEF PlanInv, PlanTypeOK, Links
<1>3. PlanNamesDiffer'
  BY <1>1 DEF PlanInv, PlanNamesDiffer, NameTaken
<1> QED
  BY <1>2, <1>3, PlWritten DEF PlanInv

LEMMA PlPlanCreate ==
  ASSUME PlanInv, NEW c \in PlanCalls, PlanCreate(c)
  PROVE  PlanInv'
<1> DEFINE call == planCall[c]
           row == [name |-> call.name, raced |-> call.raced]
<1>1. call \in PlCall /\ call.at = "planCreate" /\ PlCallSound(call)
  BY DEF PlanInv, PlanTypeOK, PlanCreate
<1>2. call.name \in PlanNames /\ call.raced \in BOOLEAN
  BY <1>1 DEF PlCall, NoCall
<1>3. PICK id \in PlanIds \ planUsed : planUsed' = planUsed \cup {id} /\ plan' = With(plan, id, row)
  BY DEF PlanCreate
<1>4. row \in PlanRow /\ row.name = call.name /\ row.raced = call.raced
  BY <1>2 DEF PlanRow
<1>5. ~row.raced => ~NameTaken(id, row.name)
  BY <1>1, <1>4, PlanAssumptions DEF PlCallSound, NameTaken, PlanInv, PlanTypeOK
<1>6. planUsed' \subseteq PlanIds /\ planUsed \cup {id} \subseteq planUsed'
  BY <1>3 DEF PlanInv, PlanTypeOK
<1>7. UNCHANGED <<link, shelf, linkUsed>> /\ PlanEnd(c, TRUE)
  BY DEF PlanCreate
<1> HIDE DEF row
<1> QED
  BY <1>3, <1>4, <1>5, <1>6, <1>7, PlWritePlan

LEMMA PlPlanUpdate ==
  ASSUME PlanInv, NEW c \in PlanCalls, PlanUpdate(c)
  PROVE  PlanInv'
<1> DEFINE call == planCall[c]
           row == [name |-> call.name, raced |-> call.raced]
<1>1. call \in PlCall /\ call.at = "planUpdate" /\ PlCallSound(call) /\ call.id \in Plans
  BY DEF PlanInv, PlanTypeOK, PlanUpdate
<1>2. call.id \in PlanIds /\ call.name \in PlanNames /\ call.raced \in BOOLEAN
  BY <1>1 DEF PlCall, NoCall
<1>4. row \in PlanRow /\ row.name = call.name /\ row.raced = call.raced
  BY <1>2 DEF PlanRow
<1>5. ~row.raced => ~NameTaken(call.id, row.name)
  BY <1>1, <1>4 DEF PlCallSound
<1>6. planUsed' \subseteq PlanIds /\ planUsed \cup {call.id} \subseteq planUsed'
  BY <1>1 DEF PlanInv, PlanTypeOK, PlanUpdate
<1>7. plan' = With(plan, call.id, row) /\ UNCHANGED <<link, shelf, linkUsed>> /\ PlanEnd(c, TRUE)
  BY DEF PlanUpdate
<1> HIDE DEF row, call
<1> QED
  BY <1>2, <1>4, <1>5, <1>6, <1>7, PlWritePlan

LEMMA PlPlanRemove ==
  ASSUME PlanInv, NEW c \in PlanCalls, PlanRemove(c)
  PROVE  PlanInv'
<1>1. /\ Plans' = Plans \ {planCall[c].id}
      /\ \A k \in Plans' : plan'[k] = plan[k]
  BY DEF Without, Restrict, Plans, PlanRemove
<1>2. PlanTypeOK' /\ PlanNamesDiffer'
  BY <1>1, PlWritten DEF PlanInv, PlanTypeOK, PlanNamesDiffer, Links, PlanRemove
<1> QED
  BY <1>2, PlWritten DEF PlanInv, PlanRemove

LEMMA PlWriteLink ==
  ASSUME PlanInv, NEW c \in PlanCalls, NEW id \in LinkIds, NEW row \in LinkRow,
         link' = With(link, id, row),
         linkUsed' \subseteq LinkIds, linkUsed \cup {id} \subseteq linkUsed',
         UNCHANGED <<plan, shelf, planUsed>>, PlanEnd(c, TRUE)
  PROVE  PlanInv'
<1>1. /\ Links' = Links \cup {id}
      /\ link'[id] = row
      /\ \A k \in Links \ {id} : link'[k] = link[k]
  BY DEF With, Links
<1>2. PlanTypeOK' /\ PlanNamesDiffer'
  BY <1>1, PlWritten DEF PlanInv, PlanTypeOK, PlanNamesDiffer, Plans
<1> QED
  BY <1>2, PlWritten DEF PlanInv

\* The new link has the pair of the request, and is no twin unless overtaken.
LEMMA CreatedLink ==
  ASSUME PlanInv, NEW c \in PlanCalls, LinkCreate(c)
  PROVE  \E id \in LinkIds \ Links, row \in LinkRow :
             /\ link' = With(link, id, row)
             /\ linkUsed' = linkUsed \cup {id}
             /\ ~row.raced => ~Twin(id, row.shelf, row.plan)
<1> DEFINE call == planCall[c]
           row == [shelf |-> call.shelf, plan |-> call.plan, raced |-> call.raced]
<1>1. call \in PlCall /\ call.at = "linkCreate" /\ PlCallSound(call)
  BY DEF PlanInv, PlanTypeOK, LinkCreate
<1>2. call.shelf \in Shelves /\ call.plan \in PlanIds /\ call.raced \in BOOLEAN
  BY <1>1 DEF PlCall, NoCall
<1>3. PICK id \in LinkIds \ linkUsed : linkUsed' = linkUsed \cup {id} /\ link' = With(link, id, row)
  BY DEF LinkCreate
<1>4. row \in LinkRow
  BY <1>2 DEF LinkRow
<1>5. ~row.raced => ~Twin(id, row.shelf, row.plan)
  BY <1>1, PlanAssumptions DEF PlCallSound, Twin, PlanInv, PlanTypeOK
<1>6. id \notin Links
  BY DEF PlanInv, PlanTypeOK
<1> QED
  BY <1>3, <1>4, <1>5, <1>6

LEMMA UpdatedLink ==
  ASSUME PlanInv, NEW c \in PlanCalls, LinkUpdate(c)
  PROVE  \E id \in Links, row \in LinkRow :
             /\ link' = With(link, id, row)
             /\ ~row.raced => ~Twin(id, row.shelf, row.plan)
<1> DEFINE call == planCall[c]
           row == Target(call)
<1>1. call \in PlCall /\ call.at = "linkUpdate" /\ PlCallSound(call) /\ call.id \in Links
  BY DEF PlanInv, PlanTypeOK, LinkUpdate
<1>2. call.raced \in BOOLEAN
  BY <1>1 DEF PlCall, NoCall
<1>3. link' = With(link, call.id, row) /\ LinkStorable(call.id, row.shelf, row.plan)
  BY DEF LinkUpdate
<1>4. /\ row.shelf = IF call.shelf = Kept THEN link[call.id].shelf ELSE call.shelf
      /\ row.plan = IF call.plan = Kept THEN link[call.id].plan ELSE call.plan
      /\ row.raced = call.raced
      /\ row = [shelf |-> row.shelf, plan |-> row.plan, raced |-> row.raced]
  BY DEF Target
<1>5. row.shelf \in Shelves /\ row.plan \in PlanIds
  BY <1>3 DEF LinkStorable, PlanInv, PlanTypeOK
<1>6. row \in LinkRow
  BY <1>2, <1>4, <1>5 DEF LinkRow
<1>7. ~row.raced => ~Twin(call.id, row.shelf, row.plan)
  BY <1>1, <1>4 DEF PlCallSound, UpdateTwin
<1> HIDE DEF row, call
<1> QED
  BY <1>1, <1>3, <1>6, <1>7

LEMMA PlLinkRemove ==
  ASSUME PlanInv, NEW c \in PlanCalls, LinkRemove(c)
  PROVE  /\ PlanInv'
         /\ Links' \subseteq Links
         /\ \A l \in Links' : link'[l] = link[l]
<1>1. /\ Links' = Links \ {planCall[c].id}
      /\ \A k \in Links' : link'[k] = link[k]
  BY DEF Without, Restrict, Links, LinkRemove
<1>2. PlanTypeOK' /\ PlanNamesDiffer'
  BY <1>1, PlWritten DEF PlanInv, PlanTypeOK, PlanNamesDiffer, Plans, LinkRemove
<1> QED
  BY <1>1, <1>2, PlWritten DEF PlanInv, LinkRemove

\* The requests that only read.
LEMMA PlReads ==
  ASSUME PlanInv, NEW c \in PlanCalls,
         \/ \E name \in PlanNames :
                \/ PlanCreateRead(c, name)
                \/ \E id \in PlanIds : PlanUpdateRead(c, id, name)
         \/ \E id \in PlanIds : PlanRemoveRead(c, id)
         \/ \E s \in Shelves, p \in PlanIds : LinkCreateRead(c, s, p)
         \/ \E id \in LinkIds, s \in Shelves \cup {Kept}, p \in PlanIds \cup {Kept} :
                LinkUpdateRead(c, id, s, p)
         \/ \E id \in LinkIds : LinkRemoveRead(c, id)
  PROVE  PlanInv' /\ link' = link
<1> DEFINE Sound(decision) ==
               decision \in PlCall /\ PlCallSound(decision) /\ PlanDecide(c, decision)
<1>0. \A decision : Sound(decision) => PlanInv' /\ link' = link
  BY PlDecided DEF PlanDecide
<1>1. ASSUME NEW name \in PlanNames, PlanCreateRead(c, name)
      PROVE  Sound([at |-> "planCreate", name |-> name, raced |-> FALSE])
  BY <1>1 DEF PlanCreateRead, PlCall, PlCallSound
<1>2. ASSUME NEW name \in PlanNames, NEW id \in PlanIds, PlanUpdateRead(c, id, name)
      PROVE  Sound([at |-> "planUpdate", id |-> id, name |-> name, raced |-> FALSE])
  BY <1>2 DEF PlanUpdateRead, PlCall, PlCallSound
<1>3. ASSUME NEW id \in PlanIds, PlanRemoveRead(c, id)
      PROVE  Sound([at |-> "planRemove", id |-> id, raced |-> FALSE])
  BY <1>3 DEF PlanRemoveRead, PlCall, PlCallSound
<1>4. ASSUME NEW s \in Shelves, NEW p \in PlanIds, LinkCreateRead(c, s, p)
      PROVE  Sound([at |-> "linkCreate", shelf |-> s, plan |-> p, raced |-> FALSE])
  BY <1>4 DEF LinkCreateRead, PlCall, PlCallSound
<1>5. ASSUME NEW id \in LinkIds, NEW s \in Shelves \cup {Kept}, NEW p \in PlanIds \cup {Kept},
             LinkUpdateRead(c, id, s, p)
      PROVE  Sound([at |-> "linkUpdate", id |-> id, shelf |-> s, plan |-> p, raced |-> FALSE])
  BY <1>5 DEF LinkUpdateRead, PlCall, PlCallSound
<1>6. ASSUME NEW id \in LinkIds, LinkRemoveRead(c, id)
      PROVE  Sound([at |-> "linkRemove", id |-> id, raced |-> FALSE])
  BY <1>6 DEF LinkRemoveRead, PlCall, PlCallSound
<1> HIDE DEF Sound
<1> QED
  BY <1>0, <1>1, <1>2, <1>3, <1>4, <1>5, <1>6

\* What a step leaves of the links: a link that is new or changed was written
\* by a request that was overtaken, or has no twin.
LinksStaySound ==
    \A l \in DOMAIN link' :
        \/ l \in Links /\ link'[l] = link[l]
        \/ link'[l].raced
        \/ ~Twin(l, link[l].shelf, link[l].plan)'

\* Writing one link.
LEMMA PlTwins ==
  ASSUME PlanInv, NEW id \in LinkIds, NEW row \in LinkRow,
         link' = With(link, id, row), UNCHANGED plan,
         ~row.raced => ~Twin(id, row.shelf, row.plan)
  PROVE  LinksStaySound
<1>1. /\ DOMAIN link' = Links \cup {id}
      /\ link'[id] = row
      /\ \A k \in Links \ {id} : link'[k] = link[k]
  BY DEF With, Links
<1>2. ASSUME ~row.raced
      PROVE  ~Twin(id, link[id].shelf, link[id].plan)'
  BY <1>1, <1>2 DEF Twin, Links
<1> QED
  BY <1>1, <1>2 DEF LinksStaySound

LEMMA PlanStep == PlanInv /\ [PlanNext]_planVars => PlanInv' /\ LinksStaySound
<1> SUFFICES ASSUME PlanInv, [PlanNext]_planVars
             PROVE  PlanInv' /\ LinksStaySound
  OBVIOUS
<1>0. link' = link => LinksStaySound
  BY DEF LinksStaySound, Links
<1>1. CASE UNCHANGED planVars
  BY <1>0, <1>1, PlUnchanged DEF planVars, PlanInv, PlanTypeOK
<1>2. ASSUME NEW c \in PlanCalls, PlanCreate(c) \/ PlanUpdate(c) \/ PlanRemove(c)
      PROVE  PlanInv' /\ LinksStaySound
  BY <1>0, <1>2, PlPlanCreate, PlPlanUpdate, PlPlanRemove DEF PlanCreate, PlanUpdate, PlanRemove
<1>3. ASSUME NEW c \in PlanCalls, LinkCreate(c)
      PROVE  PlanInv' /\ LinksStaySound
  <2>1. PICK id \in LinkIds \ Links, row \in LinkRow :
            /\ link' = With(link, id, row)
            /\ linkUsed' = linkUsed \cup {id}
            /\ ~row.raced => ~Twin(id, row.shelf, row.plan)
    BY <1>3, CreatedLink
  <2>2. linkUsed' \subseteq LinkIds /\ linkUsed \cup {id} \subseteq linkUsed'
    BY <2>1 DEF PlanInv, PlanTypeOK
  <2>3. UNCHANGED <<plan, shelf, planUsed>> /\ PlanEnd(c, TRUE)
    BY <1>3 DEF LinkCreate
  <2> QED
    BY <2>1, <2>2, <2>3, PlWriteLink, PlTwins
<1>4. ASSUME NEW c \in PlanCalls, LinkUpdate(c)
      PROVE  PlanInv' /\ LinksStaySound
  <2>1. PICK id \in Links, row \in LinkRow :
            /\ link' = With(link, id, row)
            /\ ~row.raced => ~Twin(id, row.shelf, row.plan)
    BY <1>4, UpdatedLink
  <2>2. id \in LinkIds /\ linkUsed' \subseteq LinkIds /\ linkUsed \cup {id} \subseteq linkUsed'
    BY <1>4 DEF PlanInv, PlanTypeOK, LinkUpdate
  <2>3. UNCHANGED <<plan, shelf, planUsed>> /\ PlanEnd(c, TRUE)
    BY <1>4 DEF LinkUpdate
  <2> QED
    BY <2>1, <2>2, <2>3, PlWriteLink, PlTwins
<1>5. ASSUME NEW c \in PlanCalls, LinkRemove(c)
      PROVE  PlanInv' /\ LinksStaySound
  BY <1>5, PlLinkRemove DEF LinksStaySound, Links
<1>6. ASSUME NEW c \in PlanCalls, PlanFail(c)
      PROVE  PlanInv' /\ LinksStaySound
  BY <1>0, <1>6, PlEnded, PlUnchanged DEF PlanFail, PlanInv, PlanTypeOK
<1>7. ASSUME NEW s \in Shelves, ShelfRemove(s)
      PROVE  PlanInv' /\ LinksStaySound
  BY <1>0, <1>7, PlUnchanged DEF ShelfRemove, PlanInv, PlanTypeOK
<1> QED
  BY <1>0, <1>1, <1>2, <1>3, <1>4, <1>5, <1>6, <1>7, PlReads DEF PlanNext

\* Two plans share a name, but for case, only after an overlap.
THEOREM PlanNamesDifferAlways == PlanSpec => []PlanNamesDiffer
<1>1. PlanInv => PlanNamesDiffer
  BY DEF PlanInv
<1> QED
  BY PlanInitInv, PlanStep, <1>1, PTL DEF PlanSpec

\* A link gets a twin only by an overlap or by the renaming of a plan.
THEOREM OnlyRacesMakeTwinsAlways == PlanSpec => OnlyRacesMakeTwins
<1>1. PlanInv /\ [PlanNext]_planVars => PlanInv' /\ [LinksStaySound]_planVars
  BY PlanStep
<1>2. PlanSpec => [][LinksStaySound]_planVars
  BY PlanInitInv, <1>1, PTL DEF PlanSpec
<1> QED
  BY <1>2 DEF OnlyRacesMakeTwins, LinksStaySound

-----------------------------------------------------------------------------
(* Features.                                                               *)

FeatCall ==
    {NoCall}
    \cup [at : {"create"}, name : FeatureNames, label : Labels, raced : BOOLEAN]
    \cup [at : {"update"}, id : FeatureIds, name : FeatureNames \cup {Unset},
          label : Labels \cup {Unset}, raced : BOOLEAN]
    \cup [at : {"remove"}, id : FeatureIds, raced : BOOLEAN]

FeatureTypeOK ==
    /\ Features \subseteq featureUsed /\ featureUsed \subseteq FeatureIds
    /\ \A id \in Features : feature[id] \in FeatureRow
    /\ featureCall \in [FeatureCalls -> FeatCall]

\* What a request has seen: no row of that name or label, unless overtaken.
FeatCallSound(call) ==
    /\ call.at = "create" /\ ~call.raced =>
           ~NameClash(Unset, call.name) /\ ~LabelClash(Unset, call.label)
    /\ call.at = "update" /\ ~call.raced => ~UpdateClashes(call.id, call.name, call.label)

FeatureInv ==
    /\ FeatureTypeOK
    /\ FeatureIsUnambiguous
    /\ \A c \in FeatureCalls : FeatCallSound(featureCall[c])

LEMMA FeatureInitInv == FeatureInit => FeatureInv
BY DEF FeatureInit, FeatureInv, FeatureTypeOK, FeatureIsUnambiguous, FeatCallSound, FeatCall,
       NoCall, Features

LEMMA FeatEnded ==
  ASSUME featureCall \in [FeatureCalls -> FeatCall], NEW c \in FeatureCalls,
         NEW wrote \in BOOLEAN, FeatureEnd(c, wrote)
  PROVE  /\ featureCall' \in [FeatureCalls -> FeatCall]
         /\ \A d \in FeatureCalls :
                \/ featureCall'[d] = NoCall
                \/ wrote /\ featureCall'[d].raced
                \/ ~wrote /\ featureCall'[d] = featureCall[d]
<1>1. NoCall \in FeatCall
  BY DEF FeatCall
<1>2. \A k \in FeatCall \ {NoCall} : Overtaken(k) \in FeatCall /\ Overtaken(k).raced
  BY DEF FeatCall, Overtaken
<1>3. featureCall' = Ended(featureCall, c, wrote)
  BY DEF FeatureEnd
<1> QED
  BY <1>1, <1>2, <1>3, EndedCalls

LEMMA FeatDecided ==
  ASSUME FeatureInv, NEW c \in FeatureCalls, NEW decision \in FeatCall,
         FeatureDecide(c, decision), FeatCallSound(decision)
  PROVE  FeatureInv'
<1>1. UNCHANGED <<feature, featureUsed>>
  BY DEF FeatureDecide
<1>2. FeatureTypeOK' /\ FeatureIsUnambiguous'
  BY <1>1 DEF FeatureInv, FeatureTypeOK, FeatureIsUnambiguous, Features, FeatureDecide, Decided
<1>3. \A d \in FeatureCalls : featureCall'[d] \in {featureCall[d], decision}
  BY DEF FeatureInv, FeatureTypeOK, FeatureDecide, Decided
<1>4. \A d \in FeatureCalls : FeatCallSound(featureCall[d])'
  BY <1>1, <1>3
     DEF FeatureInv, FeatCallSound, UpdateClashes, NameClash, LabelClash, Features
<1> QED
  BY <1>2, <1>4 DEF FeatureInv

\* A row that is new, or keeps its name and label but for what was looked up,
\* is no double of another one.
LEMMA FeatWrite ==
  ASSUME FeatureInv, NEW c \in FeatureCalls, NEW id \in FeatureIds, NEW row \in FeatureRow,
         \A g \in Features \ {id} :
             ~row.raced /\ ~feature[g].raced =>
                 /\ Lower(feature[g].name) # Lower(row.name)
                 /\ Lower(feature[g].label) # Lower(row.label),
         feature' = With(feature, id, row),
         featureUsed' \subseteq FeatureIds, featureUsed \cup {id} \subseteq featureUsed',
         FeatureEnd(c, TRUE)
  PROVE  FeatureInv'
<1>1. /\ Features' = Features \cup {id}
      /\ feature'[id] = row
      /\ \A k \in Features \ {id} : feature'[k] = feature[k]
  BY DEF With, Features
<1>2. /\ featureCall' \in [FeatureCalls -> FeatCall]
      /\ \A d \in FeatureCalls : featureCall'[d] = NoCall \/ featureCall'[d].raced
  BY FeatEnded DEF FeatureInv, FeatureTypeOK
<1>3. FeatureTypeOK'
  BY <1>1, <1>2 DEF FeatureInv, FeatureTypeOK
<1>4. FeatureIsUnambiguous'
  BY <1>1 DEF FeatureInv, FeatureIsUnambiguous
<1>5. \A d \in FeatureCalls : FeatCallSound(featureCall[d])'
  BY <1>2 DEF FeatCallSound, NoCall
<1> QED
  BY <1>3, <1>4, <1>5 DEF FeatureInv

LEMMA FeatCreate ==
  ASSUME FeatureInv, NEW c \in FeatureCalls, FeatureCreate(c)
  PROVE  FeatureInv'
<1> DEFINE call == featureCall[c]
           row == [name |-> call.name, label |-> call.label, raced |-> call.raced]
<1>1. call \in FeatCall /\ call.at = "create" /\ FeatCallSound(call)
  BY DEF FeatureInv, FeatureTypeOK, FeatureCreate
<1>2. call.name \in FeatureNames /\ call.label \in Labels /\ call.raced \in BOOLEAN
  BY <1>1 DEF FeatCall, NoCall
<1>3. PICK id \in FeatureIds \ featureUsed : /\ featureUsed' = featureUsed \cup {id}
                                             /\ feature' = With(feature, id, row)
  BY DEF FeatureCreate
<1>4. row \in FeatureRow
  BY <1>2 DEF FeatureRow
<1>5. \A g \in Features \ {id} :
          ~row.raced => /\ Lower(feature[g].name) # Lower(row.name)
                        /\ Lower(feature[g].label) # Lower(row.label)
  BY <1>1, <1>2, FeatureAssumptions
     DEF FeatCallSound, NameClash, LabelClash, FeatureInv, FeatureTypeOK
<1>6. featureUsed' \subseteq FeatureIds /\ featureUsed \cup {id} \subseteq featureUsed'
  BY <1>3 DEF FeatureInv, FeatureTypeOK
<1>7. FeatureEnd(c, TRUE)
  BY DEF FeatureCreate
<1> HIDE DEF row
<1> QED
  BY <1>3, <1>4, <1>5, <1>6, <1>7, FeatWrite

LEMMA FeatUpdate ==
  ASSUME FeatureInv, NEW c \in FeatureCalls, FeatureUpdate(c)
  PROVE  FeatureInv'
<1> DEFINE call == featureCall[c]
           old == feature[call.id]
           row == Updated(call)
<1>1. call \in FeatCall /\ call.at = "update" /\ call.id \in Features /\ FeatCallSound(call)
  BY DEF FeatureInv, FeatureTypeOK, FeatureUpdate
<1>2. /\ call.name \in FeatureNames \cup {Unset} /\ call.label \in Labels \cup {Unset}
      /\ call.raced \in BOOLEAN
  BY <1>1 DEF FeatCall, NoCall
<1>3. old \in FeatureRow /\ call.id \in FeatureIds
  BY <1>1 DEF FeatureInv, FeatureTypeOK
<1>4. /\ row.name = IF call.name = Unset THEN old.name ELSE call.name
      /\ row.label = IF call.label = Unset THEN old.label ELSE call.label
      /\ row.raced <=> old.raced \/ call.raced
      /\ row \in FeatureRow
  BY <1>2, <1>3 DEF Updated, FeatureRow
<1>5. ASSUME NEW g \in Features \ {call.id}, ~row.raced, ~feature[g].raced
      PROVE  /\ Lower(feature[g].name) # Lower(row.name)
             /\ Lower(feature[g].label) # Lower(row.label)
  <2>1. /\ Lower(feature[g].name) # Lower(old.name)
        /\ Lower(feature[g].label) # Lower(old.label)
    BY <1>1, <1>4, <1>5 DEF FeatureInv, FeatureIsUnambiguous
  <2>2. ~UpdateClashes(call.id, call.name, call.label)
    BY <1>1, <1>4, <1>5 DEF FeatCallSound
  <2> QED
    BY <1>4, <2>1, <2>2 DEF UpdateClashes, NameClash, LabelClash
<1>6. featureUsed' \subseteq FeatureIds /\ featureUsed \cup {call.id} \subseteq featureUsed'
  BY <1>1 DEF FeatureInv, FeatureTypeOK, FeatureUpdate
<1>7. feature' = With(feature, call.id, row) /\ FeatureEnd(c, TRUE)
  BY DEF FeatureUpdate
<1> HIDE DEF row, call
<1> QED
  BY <1>3, <1>4, <1>5, <1>6, <1>7, FeatWrite

LEMMA FeatRemove ==
  ASSUME FeatureInv, NEW c \in FeatureCalls, FeatureRemove(c)
  PROVE  FeatureInv'
<1>1. /\ Features' = Features \ {featureCall[c].id}
      /\ \A k \in Features' : feature'[k] = feature[k]
  BY DEF Without, Restrict, Features, FeatureRemove
<1>2. /\ featureCall' \in [FeatureCalls -> FeatCall]
      /\ \A d \in FeatureCalls : featureCall'[d] = NoCall \/ featureCall'[d].raced
  BY FeatEnded DEF FeatureInv, FeatureTypeOK, FeatureRemove
<1>3. FeatureTypeOK'
  BY <1>1, <1>2 DEF FeatureInv, FeatureTypeOK, FeatureRemove
<1>4. FeatureIsUnambiguous'
  BY <1>1 DEF FeatureInv, FeatureIsUnambiguous
<1>5. \A d \in FeatureCalls : FeatCallSound(featureCall[d])'
  BY <1>2 DEF FeatCallSound, NoCall
<1> QED
  BY <1>3, <1>4, <1>5 DEF FeatureInv

LEMMA FeatUnchanged ==
  ASSUME FeatureInv, UNCHANGED <<feature, featureUsed>>,
         featureCall' \in [FeatureCalls -> FeatCall],
         \A d \in FeatureCalls : featureCall'[d] = NoCall \/ featureCall'[d] = featureCall[d]
  PROVE  FeatureInv'
<1>1. FeatureTypeOK' /\ FeatureIsUnambiguous'
  BY DEF FeatureInv, FeatureTypeOK, FeatureIsUnambiguous, Features
<1>2. \A d \in FeatureCalls : FeatCallSound(featureCall[d])'
  BY DEF FeatureInv, FeatCallSound, UpdateClashes, NameClash, LabelClash, Features, NoCall
<1> QED
  BY <1>1, <1>2 DEF FeatureInv

LEMMA FeatureStep == FeatureInv /\ [FeatureNext]_featureVars => FeatureInv'
<1> SUFFICES ASSUME FeatureInv, [FeatureNext]_featureVars
             PROVE  FeatureInv'
  OBVIOUS
<1>1. CASE UNCHANGED featureVars
  BY <1>1, FeatUnchanged DEF featureVars, FeatureInv, FeatureTypeOK
<1>2. ASSUME NEW c \in FeatureCalls, NEW name \in FeatureNames, NEW label \in Labels,
             FeatureCreateRead(c, name, label)
      PROVE  FeatureInv'
  <2> DEFINE decision == [at |-> "create", name |-> name, label |-> label, raced |-> FALSE]
  <2>1. decision \in FeatCall /\ FeatCallSound(decision)
    BY <1>2 DEF FeatureCreateRead, FeatCall, FeatCallSound
  <2> QED
    BY <1>2, <2>1, FeatDecided DEF FeatureCreateRead
<1>3. ASSUME NEW c \in FeatureCalls, NEW id \in FeatureIds,
             NEW name \in FeatureNames \cup {Unset}, NEW label \in Labels \cup {Unset},
             FeatureUpdateRead(c, id, name, label)
      PROVE  FeatureInv'
  <2> DEFINE decision == [at |-> "update", id |-> id, name |-> name, label |-> label,
                          raced |-> FALSE]
  <2>1. decision \in FeatCall /\ FeatCallSound(decision)
    BY <1>3 DEF FeatureUpdateRead, FeatCall, FeatCallSound
  <2> QED
    BY <1>3, <2>1, FeatDecided DEF FeatureUpdateRead
<1>4. ASSUME NEW c \in FeatureCalls, NEW id \in FeatureIds, FeatureRemoveRead(c, id)
      PROVE  FeatureInv'
  <2> DEFINE decision == [at |-> "remove", id |-> id, raced |-> FALSE]
  <2>1. decision \in FeatCall /\ FeatCallSound(decision)
    BY DEF FeatCall, FeatCallSound
  <2> QED
    BY <1>4, <2>1, FeatDecided DEF FeatureRemoveRead
<1>5. ASSUME NEW c \in FeatureCalls, FeatureFail(c)
      PROVE  FeatureInv'
  BY <1>5, FeatEnded, FeatUnchanged DEF FeatureFail, FeatureInv, FeatureTypeOK
<1> QED
  BY <1>1, <1>2, <1>3, <1>4, <1>5, FeatCreate, FeatUpdate, FeatRemove DEF FeatureNext

\* Two features share a name or a label, but for case, only after an overlap.
THEOREM FeatureIsUnambiguousAlways == FeatureSpec => []FeatureIsUnambiguous
<1>1. FeatureInv => FeatureIsUnambiguous
  BY DEF FeatureInv
<1> QED
  BY FeatureInitInv, FeatureStep, <1>1, PTL DEF FeatureSpec
=============================================================================

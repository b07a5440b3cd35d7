------------------------------ MODULE Category ------------------------------
(***************************************************************************)
(* The tree of categories that students subscribe to.  Every handler reads *)
(* first, decides, and writes in a later statement without a transaction,  *)
(* so other handlers write in between.  A category's name is abstracted to *)
(* the slug computed from it: names that are equal but for case have one   *)
(* slug, and the handlers refuse an equal slug as they refuse an equal     *)
(* name.                                                                   *)
(***************************************************************************)
EXTENDS Overlap

CONSTANTS
    CategoryIds,   \* ids of rows; an id is never used twice
    Root,          \* parentId null
    Slugs,
    CategoryCalls  \* requests that may overlap

ASSUME CategoryAssumptions == Root \notin CategoryIds

VARIABLES
    category,  \* the Category rows, by id
    catUsed,   \* ids given out so far
    catCall    \* what each request has read and decided

categoryVars == <<category, catUsed, catCall>>

-----------------------------------------------------------------------------
\* raced is a history field: the table was written between the read and the
\* write of the request that wrote this row.
CategoryRow == [slug : Slugs, parent : CategoryIds \cup {Root}, raced : BOOLEAN]

Categories == DOMAIN category

\* What a request is about to do: create, update or remove.
CatCall ==
    {NoCall}
    \cup [at : {"create"}, slug : Slugs, parent : CategoryIds \cup {Root},
          raced : BOOLEAN]
    \cup [at : {"update"}, id : CategoryIds, slug : Slugs,
          parent : CategoryIds \cup {Root}, raced : BOOLEAN]
    \cup [at : {"remove"}, id : CategoryIds, raced : BOOLEAN]

CategoryInit ==
    /\ category = <<>>
    /\ catUsed = {}
    /\ catCall = [c \in CategoryCalls |-> NoCall]

\* The siblings below parent with this slug, other than id.
SiblingTaken(id, slug, parent) ==
    \E other \in Categories \ {id} :
        category[other].parent = parent /\ category[other].slug = slug

\* The index on (parentId, slug) and the foreign key: null is no duplicate of
\* null, so roots may share a slug.
Storable(id, slug, parent) ==
    parent # Root => parent \in Categories /\ ~SiblingTaken(id, slug, parent)

-----------------------------------------------------------------------------
CatDecide(c, decision) ==
    /\ catCall[c] = NoCall
    /\ catCall' = Decided(catCall, c, decision)
    /\ UNCHANGED <<category, catUsed>>

CatEnd(c, wrote) == catCall' = Ended(catCall, c, wrote)

\* The parent is not looked up: the foreign key refuses one that is gone.
CategoryCreateRead(c, slug, parent) ==
    /\ ~SiblingTaken(Root, slug, parent)
    /\ CatDecide(c, [at |-> "create", slug |-> slug, parent |-> parent, raced |-> FALSE])

\* The row a request writes.
CatRow(call) == [slug |-> call.slug, parent |-> call.parent, raced |-> call.raced]

CategoryCreate(c) ==
    /\ catCall[c].at = "create"
    /\ Storable(Root, catCall[c].slug, catCall[c].parent)
    /\ \E id \in CategoryIds \ catUsed :
           /\ catUsed' = catUsed \cup {id}
           /\ category' = With(category, id, CatRow(catCall[c]))
    /\ CatEnd(c, TRUE)

\* The parent the category has now.
LookedUnderOld(id, parent) == category[id].parent

\* Where update looks for a sibling with the same slug: below the new parent.
LookedUnder(id, parent) == parent

\* Without a name or a parent in the request the row's own are written back.
CategoryUpdateRead(c, id, slug, parent) ==
    /\ id \in Categories
    /\ ~SiblingTaken(id, slug, LookedUnder(id, parent))
    /\ CatDecide(c, [at |-> "update", id |-> id, slug |-> slug, parent |-> parent,
                     raced |-> FALSE])

CategoryUpdate(c) ==
    /\ catCall[c].at = "update"
    /\ catCall[c].id \in Categories
    /\ Storable(catCall[c].id, catCall[c].slug, catCall[c].parent)
    /\ category' = With(category, catCall[c].id, CatRow(catCall[c]))
    /\ CatEnd(c, TRUE)
    /\ UNCHANGED catUsed

CategoryRemoveRead(c, id) ==
    /\ id \in Categories
    /\ CatDecide(c, [at |-> "remove", id |-> id, raced |-> FALSE])

\* The foreign key cascades.
RemovableAlways(id) == TRUE

\* The foreign key of the children refuses the removal of their parent.
Removable(id) == \A child \in Categories \ {id} : category[child].parent # id

CategoryRemove(c) ==
    /\ catCall[c].at = "remove"
    /\ catCall[c].id \in Categories
    /\ Removable(catCall[c].id)
    /\ category' = Without(category, catCall[c].id)
    /\ CatEnd(c, TRUE)
    /\ UNCHANGED catUsed

\* The statement fails on a constraint or on a row that is gone.
CategoryFail(c) ==
    LET call == catCall[c]
    IN  /\ \/ call.at = "create" /\ ~Storable(Root, call.slug, call.parent)
           \/ /\ call.at = "update"
              /\ call.id \notin Categories \/ ~Storable(call.id, call.slug, call.parent)
           \/ call.at = "remove" /\ (call.id \notin Categories \/ ~Removable(call.id))
        /\ CatEnd(c, FALSE)
        /\ UNCHANGED <<category, catUsed>>

CategoryNext ==
    \E c \in CategoryCalls :
        \/ \E slug \in Slugs, parent \in Categories \cup {Root} :
               \/ CategoryCreateRead(c, slug, parent)
               \/ \E id \in CategoryIds : CategoryUpdateRead(c, id, slug, parent)
        \/ \E id \in CategoryIds : CategoryRemoveRead(c, id)
        \/ CategoryCreate(c)
        \/ CategoryUpdate(c)
        \/ CategoryRemove(c)
        \/ CategoryFail(c)

CategorySpec == CategoryInit /\ [][CategoryNext]_categoryVars

-----------------------------------------------------------------------------
(* Properties.                                                             *)

CategoryTypeOK ==
    /\ Categories \subseteq catUsed /\ catUsed \subseteq CategoryIds
    /\ \A id \in Categories : category[id] \in CategoryRow
    /\ catCall \in [CategoryCalls -> CatCall]

\* Siblings have different slugs.  Only two roots can share one, when one of
\* them was written while another request wrote the table: the unique index
\* does not see a null parent.
SiblingSlugsDiffer ==
    \A a, b \in Categories :
        a # b /\ category[a].parent = category[b].parent /\ category[a].slug = category[b].slug
            => category[a].parent = Root /\ (category[a].raced \/ category[b].raced)

ClosedUnderParents(S) ==
    \A k \in S : category[k].parent \in Categories => category[k].parent \in S

\* The category's chain of parents ends at a root.
Hangs(id) ==
    \A S \in SUBSET Categories :
        id \in S /\ ClosedUnderParents(S) => \E k \in S : category[k].parent = Root

Moved == {k \in Categories \cap DOMAIN category' :
              category'[k].parent # category[k].parent}

\* A category leaves the tree (getTree starts at the roots) only by a move
\* below a category that thereby, or already, hangs from no root: below itself
\* or one of its descendants, which update does not look for.  Creations,
\* removals and overlapping requests never cut a branch off.
OnlyMovesCutOff ==
    [][\A id \in Categories :
          Hangs(id) /\ id \in DOMAIN category' =>
              \/ Hangs(id)'
              \/ \E k \in Moved, parent \in DOMAIN category' :
                     category'[k].parent = parent /\ ~Hangs(parent)']_categoryVars
=============================================================================

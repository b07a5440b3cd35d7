-------------------------------- MODULE Plan --------------------------------
(***************************************************************************)
(* Subscription plans and the categories they are offered in.  A plan's    *)
(* name is unique but for case by a look before the write only; a link     *)
(* between a category and a plan is unique by an index, and by a look also *)
(* has no other plan of that name beside it.                               *)
(*                                                                         *)
(* remove counts the active subscriptions of a plan first; no subscription *)
(* can exist (Subscribe), so that count is always zero.                    *)
(***************************************************************************)
EXTENDS Overlap

CONSTANTS
    PlanIds, LinkIds, Shelves,  \* ids of plans, of links and of categories
    PlanNames,
    Fold(_),                    \* a name in lower case
    Kept,                       \* a field the request leaves out
    PlanCalls

ASSUME PlanAssumptions == Kept \notin PlanIds \cup LinkIds \cup Shelves

VARIABLES
    plan,      \* the SubscriptionPlan rows
    link,      \* the CategoryPlan rows
    shelf,     \* the categories there are
    planUsed,  \* ids of plans and links given out so far
    linkUsed,
    planCall

planVars == <<plan, link, shelf, planUsed, linkUsed, planCall>>

-----------------------------------------------------------------------------
\* raced: the request that wrote the row was overtaken by another write.
PlanRow == [name : PlanNames, raced : BOOLEAN]
LinkRow == [shelf : Shelves, plan : PlanIds, raced : BOOLEAN]

Plans == DOMAIN plan
Links == DOMAIN link

PlanInit ==
    /\ plan = <<>> /\ link = <<>> /\ shelf = Shelves
    /\ planUsed = {} /\ linkUsed = {}
    /\ planCall = [c \in PlanCalls |-> NoCall]

PlanDecide(c, decision) ==
    /\ planCall[c] = NoCall
    /\ planCall' = Decided(planCall, c, decision)
    /\ UNCHANGED <<plan, link, shelf, planUsed, linkUsed>>

PlanEnd(c, wrote) == planCall' = Ended(planCall, c, wrote)

-----------------------------------------------------------------------------
(* Plans.                                                                  *)

\* The look is for the exact name.
NameTakenExactly(id, name) == \E p \in Plans \ {id} : plan[p].name = name

\* Another plan has this name, whatever the case.
NameTaken(id, name) == \E p \in Plans \ {id} : Fold(plan[p].name) = Fold(name)

PlanCreateRead(c, name) ==
    /\ ~NameTaken(Kept, name)
    /\ PlanDecide(c, [at |-> "planCreate", name |-> name, raced |-> FALSE])

PlanCreate(c) ==
    /\ planCall[c].at = "planCreate"
    /\ \E id \in PlanIds \ planUsed :
           /\ planUsed' = planUsed \cup {id}
           /\ plan' = With(plan, id, [name |-> planCall[c].name, raced |-> planCall[c].raced])
    /\ PlanEnd(c, TRUE)
    /\ UNCHANGED <<link, shelf, linkUsed>>

PlanUpdateRead(c, id, name) ==
    /\ id \in Plans
    /\ ~NameTaken(id, name)
    /\ PlanDecide(c, [at |-> "planUpdate", id |-> id, name |-> name, raced |-> FALSE])

PlanUpdate(c) ==
    /\ planCall[c].at = "planUpdate"
    /\ planCall[c].id \in Plans
    /\ plan' = With(plan, planCall[c].id,
                    [name |-> planCall[c].name, raced |-> planCall[c].raced])
    /\ PlanEnd(c, TRUE)
    /\ UNCHANGED <<link, shelf, planUsed, linkUsed>>

PlanRemoveRead(c, id) ==
    /\ id \in Plans
    /\ PlanDecide(c, [at |-> "planRemove", id |-> id, raced |-> FALSE])

\* A foreign key keeps a plan or a category that is linked.
Unlinked(id) == \A l \in Links : link[l].plan # id

PlanRemove(c) ==
    /\ planCall[c].at = "planRemove"
    /\ planCall[c].id \in Plans
    /\ Unlinked(planCall[c].id)
    /\ plan' = Without(plan, planCall[c].id)
    /\ PlanEnd(c, TRUE)
    /\ UNCHANGED <<link, shelf, planUsed, linkUsed>>

\* StudentCategoryService.remove, of a category without children.
ShelfRemove(s) ==
    /\ s \in shelf
    /\ \A l \in Links : link[l].shelf # s
    /\ shelf' = shelf \ {s}
    /\ UNCHANGED <<plan, link, planUsed, linkUsed, planCall>>

-----------------------------------------------------------------------------
(* Links.  That the very pair is linked already is the case p = link[l].plan *)
(* of a twin.                                                              *)

\* Another link of category s leads to a plan with the name of plan p.
Twin(id, s, p) ==
    \E l \in Links \ {id} :
        link[l].shelf = s /\ Fold(plan[link[l].plan].name) = Fold(plan[p].name)

\* Only a new plan is looked at, in the category of now.
UpdateTwinOfPlan(id, s, p) == p # Kept /\ Twin(id, link[id].shelf, p)

\* What update compares: the pair the link will have.
UpdateTwin(id, s, p) ==
    Twin(id, IF s = Kept THEN link[id].shelf ELSE s, IF p = Kept THEN link[id].plan ELSE p)

\* The index on the pair and the foreign keys.
LinkStorable(id, s, p) ==
    /\ s \in shelf /\ p \in Plans
    /\ \A l \in Links \ {id} : <<link[l].shelf, link[l].plan>> # <<s, p>>

LinkCreateRead(c, s, p) ==
    /\ s \in shelf /\ p \in Plans
    /\ ~Twin(Kept, s, p)
    /\ PlanDecide(c, [at |-> "linkCreate", shelf |-> s, plan |-> p, raced |-> FALSE])

LinkCreate(c) ==
    /\ planCall[c].at = "linkCreate"
    /\ LinkStorable(Kept, planCall[c].shelf, planCall[c].plan)
    /\ \E id \in LinkIds \ linkUsed :
           /\ linkUsed' = linkUsed \cup {id}
           /\ link' = With(link, id, [shelf |-> planCall[c].shelf, plan |-> planCall[c].plan,
                                      raced |-> planCall[c].raced])
    /\ PlanEnd(c, TRUE)
    /\ UNCHANGED <<plan, shelf, planUsed>>

\* The new category is not looked up, the new plan is.
LinkUpdateRead(c, id, s, p) ==
    /\ id \in Links
    /\ <<s, p>> # <<Kept, Kept>>
    /\ p \in Plans \cup {Kept}
    /\ ~UpdateTwin(id, s, p)
    /\ PlanDecide(c, [at |-> "linkUpdate", id |-> id, shelf |-> s, plan |-> p, raced |-> FALSE])

\* Only the fields of the request are written; the others are as they are now.
Target(call) ==
    [shelf |-> IF call.shelf = Kept THEN link[call.id].shelf ELSE call.shelf,
     plan |-> IF call.plan = Kept THEN link[call.id].plan ELSE call.plan,
     raced |-> call.raced]

LinkUpdate(c) ==
    /\ planCall[c].at = "linkUpdate"
    /\ planCall[c].id \in Links
    /\ LET row == Target(planCall[c])
       IN  /\ LinkStorable(planCall[c].id, row.shelf, row.plan)
           /\ link' = With(link, planCall[c].id, row)
    /\ PlanEnd(c, TRUE)
    /\ UNCHANGED <<plan, shelf, planUsed, linkUsed>>

LinkRemoveRead(c, id) ==
    /\ id \in Links
    /\ PlanDecide(c, [at |-> "linkRemove", id |-> id, raced |-> FALSE])

LinkRemove(c) ==
    /\ planCall[c].at = "linkRemove"
    /\ planCall[c].id \in Links
    /\ link' = Without(link, planCall[c].id)
    /\ PlanEnd(c, TRUE)
    /\ UNCHANGED <<plan, shelf, planUsed, linkUsed>>

\* The statement fails on a constraint or on a row that is gone.
PlanFail(c) ==
    LET call == planCall[c]
    IN  /\ \/ call.at = "planUpdate" /\ call.id \notin Plans
           \/ call.at = "planRemove" /\ (call.id \notin Plans \/ ~Unlinked(call.id))
           \/ call.at = "linkCreate" /\ ~LinkStorable(Kept, call.shelf, call.plan)
           \/ call.at = "linkUpdate" /\ call.id \notin Links
           \/ /\ call.at = "linkUpdate" /\ call.id \in Links
              /\ ~LinkStorable(call.id, Target(call).shelf, Target(call).plan)
           \/ call.at = "linkRemove" /\ call.id \notin Links
        /\ PlanEnd(c, FALSE)
        /\ UNCHANGED <<plan, link, shelf, planUsed, linkUsed>>

PlanNext ==
    \/ \E c \in PlanCalls :
           \/ \E name \in PlanNames :
                  \/ PlanCreateRead(c, name)
                  \/ \E id \in PlanIds : PlanUpdateRead(c, id, name)
           \/ \E id \in PlanIds : PlanRemoveRead(c, id)
           \/ \E s \in Shelves, p \in PlanIds : LinkCreateRead(c, s, p)
           \/ \E id \in LinkIds, s \in Shelves \cup {Kept}, p \in PlanIds \cup {Kept} :
                  LinkUpdateRead(c, id, s, p)
           \/ \E id \in LinkIds : LinkRemoveRead(c, id)
           \/ PlanCreate(c) \/ PlanUpdate(c) \/ PlanRemove(c)
           \/ LinkCreate(c) \/ LinkUpdate(c) \/ LinkRemove(c)
           \/ PlanFail(c)
    \/ \E s \in Shelves : ShelfRemove(s)

PlanSpec == PlanInit /\ [][PlanNext]_planVars

-----------------------------------------------------------------------------
(* Properties.                                                             *)

\* Two plans have names that are equal but for case only when one of them was
\* named while another request wrote: no index stands behind the look.
PlanNamesDiffer ==
    \A p, q \in Plans :
        p # q /\ Fold(plan[p].name) = Fold(plan[q].name) => plan[p].raced \/ plan[q].raced

\* A link that is written without being overtaken has no twin afterwards, in
\* whichever of its two fields it was changed: only an overlap, or a plan
\* renamed later, puts two plans of one name into a category.
OnlyRacesMakeTwins ==
    [][\A l \in DOMAIN link' :
          \/ l \in Links /\ link'[l] = link[l]
          \/ link'[l].raced
          \/ ~Twin(l, link[l].shelf, link[l].plan)']_planVars
=============================================================================

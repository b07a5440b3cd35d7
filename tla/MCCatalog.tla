---------------------------- MODULE MCCatalog ----------------------------
(***************************************************************************)
(* Values for TLC.  Categories, plans and features share no row or lock:  *)
(* each is explored alone, and the initial state chooses which one runs    *)
(* while the others rest.                                                  *)
(***************************************************************************)
EXTENDS Category, Plan, Feature

CONSTANTS Requests, Values, Others  \* model values that the components share

VARIABLE running

MCFold(name) == IF name = "quiz" THEN "QUIZ" ELSE name

catalogVars == <<categoryVars, planVars, featureVars, running>>

CatalogInit ==
    /\ running \in {"category", "plan", "feature"}
    /\ CategoryInit
    /\ PlanInit
    /\ FeatureInit

CategoryRuns ==
    /\ running = "category" /\ CategoryNext
    /\ UNCHANGED <<running, planVars, featureVars>>

PlanRuns ==
    /\ running = "plan" /\ PlanNext
    /\ UNCHANGED <<running, categoryVars, featureVars>>

FeatureRuns ==
    /\ running = "feature" /\ FeatureNext
    /\ UNCHANGED <<running, categoryVars, planVars>>

CatalogNext ==
    \/ CategoryRuns
    \/ PlanRuns
    \/ FeatureRuns

CatalogSpec == CatalogInit /\ [][CatalogNext]_catalogVars

Symmetry == Permutations(Requests) \cup Permutations(Values) \cup Permutations(Others)
=============================================================================

SPECIFICATION CatalogSpec
CONSTANTS
    Requests = {c1, c2}
    Values = {v1, v2, v3}
    Others = {w1, w2}
    CategoryIds = {v1, v2, v3}
    Root = Root
    Slugs = {w1, w2}
    CategoryCalls = {c1, c2}
    PlanIds = {v1, v2}
    LinkIds = {w1, w2}
    Shelves = {w1, w2}
    PlanNames = {"QUIZ", "quiz", "EXAM"}
    Fold <- MCFold
    Kept = Kept
    PlanCalls = {c1, c2}
    FeatureIds = {v1, v2}
    FeatureNames = {"QUIZ", "quiz", "EXAM"}
    Labels = {"QUIZ", "quiz", "EXAM"}
    Lower <- MCFold
    Unset = Unset
    FeatureCalls = {c1, c2}
SYMMETRY Symmetry
INVARIANTS
    SiblingSlugsDiffer
    PlanNamesDiffer
    FeatureIsUnambiguous
PROPERTIES
    OnlyMovesCutOff
    OnlyRacesMakeTwins
CHECK_DEADLOCK FALSE

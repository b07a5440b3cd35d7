------------------------------ MODULE Feature ------------------------------
(***************************************************************************)
(* The features that plans switch on.  A feature has a name for the        *)
(* programs and a label for the students, and both are unique but for      *)
(* case by a look before the write; an index backs the exact name only.    *)
(***************************************************************************)
EXTENDS Overlap

CONSTANTS
    FeatureIds,
    FeatureNames, Labels,
    Lower(_),       \* a name or label in lower case
    Unset,          \* a field the request leaves out
    FeatureCalls

ASSUME FeatureAssumptions == Unset \notin FeatureIds \cup FeatureNames \cup Labels

VARIABLES
    feature,      \* the Feature rows
    featureUsed,  \* ids given out so far
    featureCall

featureVars == <<feature, featureUsed, featureCall>>

-----------------------------------------------------------------------------
\* raced: a request that wrote the row was overtaken by another write.
FeatureRow == [name : FeatureNames, label : Labels, raced : BOOLEAN]

Features == DOMAIN feature

FeatureInit ==
    /\ feature = <<>>
    /\ featureUsed = {}
    /\ featureCall = [c \in FeatureCalls |-> NoCall]

FeatureDecide(c, decision) ==
    /\ featureCall[c] = NoCall
    /\ featureCall' = Decided(featureCall, c, decision)
    /\ UNCHANGED <<feature, featureUsed>>

FeatureEnd(c, wrote) == featureCall' = Ended(featureCall, c, wrote)

NameClash(id, name) == \E f \in Features \ {id} : Lower(feature[f].name) = Lower(name)
LabelClash(id, label) == \E f \in Features \ {id} : Lower(feature[f].label) = Lower(label)

\* The unique index on the name is exact.
NameFree(id, name) == \A f \in Features \ {id} : feature[f].name # name

FeatureCreateRead(c, name, label) ==
    /\ ~NameClash(Unset, name)
    /\ ~LabelClash(Unset, label)
    /\ FeatureDecide(c, [at |-> "create", name |-> name, label |-> label, raced |-> FALSE])

FeatureCreate(c) ==
    LET call == featureCall[c]
    IN  /\ call.at = "create"
        /\ NameFree(Unset, call.name)
        /\ \E id \in FeatureIds \ featureUsed :
               /\ featureUsed' = featureUsed \cup {id}
               /\ feature' = With(feature, id, [name |-> call.name, label |-> call.label,
                                                raced |-> call.raced])
        /\ FeatureEnd(c, TRUE)

\* The label is looked up only with the name.
UpdateClashesOfName(id, name, label) ==
    /\ name # Unset /\ Lower(name) # Lower(feature[id].name)
    /\ NameClash(id, name) \/ (label # Unset /\ LabelClash(id, label))

\* A field is looked up only if it is given and differs from the row's by more
\* than case.
UpdateClashes(id, name, label) ==
    \/ /\ name # Unset /\ Lower(name) # Lower(feature[id].name)
       /\ NameClash(id, name)
    \/ /\ label # Unset /\ Lower(label) # Lower(feature[id].label)
       /\ LabelClash(id, label)

FeatureUpdateRead(c, id, name, label) ==
    /\ id \in Features
    /\ ~UpdateClashes(id, name, label)
    /\ FeatureDecide(c, [at |-> "update", id |-> id, name |-> name, label |-> label,
                         raced |-> FALSE])

\* The row after an update: the fields left out are as they are now.
Updated(call) ==
    [name |-> IF call.name = Unset THEN feature[call.id].name ELSE call.name,
     label |-> IF call.label = Unset THEN feature[call.id].label ELSE call.label,
     raced |-> feature[call.id].raced \/ call.raced]

FeatureUpdate(c) ==
    LET call == featureCall[c]
    IN  /\ call.at = "update"
        /\ call.id \in Features
        /\ NameFree(call.id, Updated(call).name)
        /\ feature' = With(feature, call.id, Updated(call))
        /\ FeatureEnd(c, TRUE)
        /\ UNCHANGED featureUsed

FeatureRemoveRead(c, id) ==
    /\ id \in Features
    /\ FeatureDecide(c, [at |-> "remove", id |-> id, raced |-> FALSE])

FeatureRemove(c) ==
    /\ featureCall[c].at = "remove"
    /\ featureCall[c].id \in Features
    /\ feature' = Without(feature, featureCall[c].id)
    /\ FeatureEnd(c, TRUE)
    /\ UNCHANGED featureUsed

\* The row is gone or the index refuses the name.
FeatureFail(c) ==
    LET call == featureCall[c]
    IN  /\ \/ call.at = "create" /\ ~NameFree(Unset, call.name)
           \/ call.at \in {"update", "remove"} /\ call.id \notin Features
           \/ /\ call.at = "update" /\ call.id \in Features
              /\ ~NameFree(call.id, Updated(call).name)
        /\ FeatureEnd(c, FALSE)
        /\ UNCHANGED <<feature, featureUsed>>

FeatureNext ==
    \E c \in FeatureCalls :
        \/ \E name \in FeatureNames, label \in Labels : FeatureCreateRead(c, name, label)
        \/ \E id \in FeatureIds, name \in FeatureNames \cup {Unset}, label \in Labels \cup {Unset} :
               FeatureUpdateRead(c, id, name, label)
        \/ \E id \in FeatureIds : FeatureRemoveRead(c, id)
        \/ FeatureCreate(c)
        \/ FeatureUpdate(c)
        \/ FeatureRemove(c)
        \/ FeatureFail(c)

FeatureSpec == FeatureInit /\ [][FeatureNext]_featureVars

-----------------------------------------------------------------------------
(* Properties.                                                             *)

\* Two features have names, or labels, that are equal but for case only when
\* one of them was once written by a request that another one overtook.
FeatureIsUnambiguous ==
    \A f, g \in Features :
        f # g /\ (\/ Lower(feature[f].name) = Lower(feature[g].name)
                  \/ Lower(feature[f].label) = Lower(feature[g].label))
            => feature[f].raced \/ feature[g].raced
=============================================================================

---------------------------- MODULE MCLearning ----------------------------
(***************************************************************************)
(* Values for TLC.  These components share no row and no lock: each is     *)
(* explored alone, and the initial state chooses which one runs while the  *)
(* others rest.                                                            *)
(***************************************************************************)
EXTENDS Books, Badges, Profile, CodeMail

CONSTANTS Requests, Values, Others, Marks  \* model values that the components share

VARIABLE running

MCEmails == Others \cup {SuperAdmin}

\* Two first names, "rahul" and "rahul1": a name is the number after "rahul".
MCNameOf(base, n) == IF base = "rahul" THEN n ELSE IF n = 0 THEN 1 ELSE 10 + n

learningVars == <<bookVars, badgeVars, profileVars, mailVars, running>>

LearningInit ==
    /\ running \in {"books", "badges", "profile", "codemail"}
    /\ BooksInit
    /\ BadgesInit
    /\ ProfileInit
    /\ CodeMailInit

BooksRuns ==
    /\ running = "books" /\ BooksNext
    /\ UNCHANGED <<running, badgeVars, profileVars, mailVars>>

BadgesRuns ==
    /\ running = "badges" /\ BadgesNext
    /\ UNCHANGED <<running, bookVars, profileVars, mailVars>>

ProfileRuns ==
    /\ running = "profile" /\ ProfileNext
    /\ UNCHANGED <<running, bookVars, badgeVars, mailVars>>

CodeMailRuns ==
    /\ running = "codemail" /\ CodeMailNext
    /\ UNCHANGED <<running, bookVars, badgeVars, profileVars>>

LearningNext ==
    \/ BooksRuns
    \/ BadgesRuns
    \/ ProfileRuns
    \/ CodeMailRuns

LearningSpec == LearningInit /\ [][LearningNext]_learningVars

Symmetry ==
    Permutations(Requests) \cup Permutations(Values) \cup Permutations(Others) \cup Permutations(Marks)
=============================================================================

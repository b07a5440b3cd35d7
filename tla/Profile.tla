------------------------------ MODULE Profile ------------------------------
(***************************************************************************)
(* Who an account is: the Profile row of a user and the row below it that  *)
(* says more, of a student, an administrator or another member of staff.   *)
(* A student gets both rows with the first update of the student profile,  *)
(* together with a profile name and a referral code no other student has;  *)
(* staff gets them with the account.  An account is named by its e-mail.   *)
(***************************************************************************)
EXTENDS Overlap, Integers, FiniteSets

CONSTANTS
    Emails,
    StaffKinds,     \* ADMIN, SUPPORTER, QUIZZER, DEVELOPER
    SuperAdmin,     \* the e-mail address the seeder uses
    Bases,          \* first names in lower case
    NameOf(_, _),   \* the name that a base and a number make, 0 for none
    MaxName,        \* bound: numbers appended to names and codes
    ProfileCalls

ASSUME ProfileAssumptions ==
    /\ SuperAdmin \in Emails
    /\ "STUDENT" \notin StaffKinds /\ "ADMIN" \in StaffKinds
    /\ MaxName \in Nat

VARIABLES
    user,     \* accounts: the kind each was created as
    profile,  \* the Profile rows: profileType
    detail,   \* rows of AdminProfile, SupporterProfile, ...: the kind
    student,  \* the StudentProfile rows: profileName, and referralCode without
              \* its prefix, which is the same for all.
    profCall  \* raced: a student was inserted since the request read

profileVars == <<user, profile, detail, student, profCall>>

-----------------------------------------------------------------------------
ProfileInit ==
    /\ user = <<>> /\ profile = <<>> /\ detail = <<>> /\ student = <<>>
    /\ profCall = [c \in ProfileCalls |-> NoCall]

ProfDecide(c, decision) ==
    /\ profCall[c] = NoCall
    /\ profCall' = Decided(profCall, c, decision)
    /\ UNCHANGED <<user, profile, detail, student>>

ProfEnd(c, inserted) == profCall' = Ended(profCall, c, inserted)

\* An account made by signup or by Google has no profile.
StudentJoins(e) ==
    /\ e \notin DOMAIN user
    /\ user' = With(user, e, "STUDENT")
    /\ UNCHANGED <<profile, detail, student, profCall>>

-----------------------------------------------------------------------------
(* Staff.  checkUserExists looks before the transaction that inserts.      *)

StaffCheck(c, e, kind) ==
    /\ e \notin DOMAIN user
    /\ ProfDecide(c, [at |-> "staff", email |-> e, kind |-> kind, raced |-> FALSE])

\* createAdmin, createSupporter, createMaker and createDeveloper.
StaffCreate(c) ==
    LET e == profCall[c].email
    IN  /\ profCall[c].at = "staff"
        /\ e \notin DOMAIN user
        /\ user' = With(user, e, profCall[c].kind)
        /\ profile' = With(profile, e, profCall[c].kind)
        /\ detail' = With(detail, e, profCall[c].kind)
        /\ ProfEnd(c, FALSE)
        /\ UNCHANGED student

StaffClash(c) ==
    /\ profCall[c].at = "staff"
    /\ profCall[c].email \in DOMAIN user
    /\ ProfEnd(c, FALSE)
    /\ UNCHANGED <<user, profile, detail, student>>

\* seedAdmin, at every start: an account that exists is left as it is.
SeedAdmin ==
    /\ SuperAdmin \notin DOMAIN user
    /\ user' = With(user, SuperAdmin, "ADMIN")
    /\ profile' = With(profile, SuperAdmin, "ADMIN")
    /\ detail' = With(detail, SuperAdmin, "ADMIN")
    /\ UNCHANGED <<student, profCall>>

-----------------------------------------------------------------------------
(* updateStudentProfile.  The account is read before the transaction.      *)

ProfileRead(c, e) ==
    /\ e \in DOMAIN user
    /\ ProfDecide(c, [at |-> "read", email |-> e, profile |-> e \in DOMAIN profile,
                      student |-> e \in DOMAIN student, raced |-> FALSE])

\* A student profile that exists is only given new texts.
ProfileTexts(c) ==
    /\ profCall[c].at = "read" /\ profCall[c].student
    /\ ProfEnd(c, FALSE)
    /\ UNCHANGED <<user, profile, detail, student>>

NamesTaken == {student[e].name : e \in DOMAIN student}
CodesTaken == {student[e].code : e \in DOMAIN student}

\* A number is free when the name it makes with the base is nobody's: another
\* base may have made it ("rahul1" and 0, "rahul" and 1).
IsFree(base, n, taken) == NameOf(base, n) \notin taken

\* The names of the base are counted instead of tried.
CountedFree(base, start, taken) ==
    start + Cardinality({n \in start .. MaxName : ~IsFree(base, n, taken)})

\* The first number from start on that is free.
FirstFree(base, start, taken) ==
    CHOOSE n \in start .. MaxName :
        IsFree(base, n, taken) /\ \A m \in start .. n - 1 : ~IsFree(base, m, taken)

HasFree(base, start, taken) == \E n \in start .. MaxName : IsFree(base, n, taken)

\* generateUniqueProfileName counts from the bare name, and
\* generateUniqueReferralCode from a random number.
ProfileNames(c) ==
    /\ profCall[c].at = "read" /\ ~profCall[c].student
    /\ \E base \in Bases, start \in 1 .. MaxName :
           /\ HasFree(base, 0, NamesTaken) /\ HasFree(base, start, CodesTaken)
           /\ profCall' = [profCall EXCEPT ![c] =
                  [at |-> "named", email |-> @.email, profile |-> @.profile, raced |-> @.raced,
                   name |-> NameOf(base, FirstFree(base, 0, NamesTaken)),
                   code |-> NameOf(base, FirstFree(base, start, CodesTaken))]]
    /\ UNCHANGED <<user, profile, detail, student>>

\* The unique indexes on Profile.userId, StudentProfile.profileId, profileName
\* and referralCode.
Insertable(call) ==
    /\ call.profile \/ call.email \notin DOMAIN profile
    /\ call.email \notin DOMAIN student
    /\ call.name \notin NamesTaken
    /\ call.code \notin CodesTaken

\* Both rows are inserted, or none.
ProfileCommit(c) ==
    LET call == profCall[c]
    IN  /\ call.at = "named"
        /\ Insertable(call)
        /\ profile' = IF call.profile THEN profile ELSE With(profile, call.email, "STUDENT")
        /\ student' = With(student, call.email, [name |-> call.name, code |-> call.code])
        /\ ProfEnd(c, TRUE)
        /\ UNCHANGED <<user, detail>>

\* Without a transaction.
AfterNoRollback(call) ==
    IF call.email \in DOMAIN profile THEN profile ELSE With(profile, call.email, "STUDENT")

\* What a transaction that fails on the student row leaves of the profile row.
AfterRollback(call) == profile

ProfileClash(c) ==
    /\ profCall[c].at = "named"
    /\ ~Insertable(profCall[c])
    /\ profile' = AfterRollback(profCall[c])
    /\ ProfEnd(c, FALSE)
    /\ UNCHANGED <<user, detail, student>>

ProfileNext ==
    \/ \E e \in Emails : StudentJoins(e)
    \/ SeedAdmin
    \/ \E c \in ProfileCalls :
           \/ \E e \in Emails :
                  \/ \E kind \in StaffKinds : StaffCheck(c, e, kind)
                  \/ ProfileRead(c, e)
           \/ StaffCreate(c) \/ StaffClash(c)
           \/ ProfileTexts(c) \/ ProfileNames(c) \/ ProfileCommit(c) \/ ProfileClash(c)

ProfileSpec == ProfileInit /\ [][ProfileNext]_profileVars

-----------------------------------------------------------------------------
(* Properties.                                                             *)

\* No account is left with half of its rows by an insert that fails or a
\* request that overlaps: a profile has the row its type calls for, staff is
\* created with both, and rows below a profile have one.
ProfilesAreWhole ==
    /\ \A e \in DOMAIN profile :
           IF profile[e] = "STUDENT" THEN e \in DOMAIN student
           ELSE e \in DOMAIN detail /\ detail[e] = profile[e]
    /\ \A e \in DOMAIN user :
           user[e] # "STUDENT" => e \in DOMAIN profile /\ profile[e] = user[e]
    /\ DOMAIN student \subseteq DOMAIN profile

\* A student whose request nobody overtook gets the profile: the name and the
\* code it found are free in all the names there are, those of other first
\* names too, and only an overlap makes it fail on a unique index.
OnlyRacesClash ==
    \A c \in ProfileCalls :
        profCall[c].at = "named" /\ ~profCall[c].raced => Insertable(profCall[c])
=============================================================================

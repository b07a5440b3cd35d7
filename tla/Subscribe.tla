----------------------------- MODULE Subscribe -----------------------------
(***************************************************************************)
(* Subscriptions and grants, from the access token to the row.  The guard  *)
(* puts a user into the request, the controller takes a field of it, and   *)
(* the service writes it into a row.  A column that must be set refuses a  *)
(* value that is undefined.                                                *)
(***************************************************************************)
EXTENDS Integers

CONSTANTS
    Accounts,          \* User.id
    Role(_),           \* User.role
    StudentOf(_),      \* StudentProfile.id of an account, Undefined without one
    Undefined,
    PlansOnOffer, CategoriesOnOffer,
    MaxRows            \* bound: subscriptions and grants ever created

VARIABLES
    plans,         \* the plans and categories there are
    categories,
    subscription,  \* the StudentSubscription rows
    grant,         \* the AdminGrant rows
    answer         \* the request answered last, and how

subscribeVars == <<plans, categories, subscription, grant, answer>>

-----------------------------------------------------------------------------
Fields == {"id", "sub", "version", "deviceId", "role"}

\* AtStrategy.validate: what request.user holds for the token of an account.
\* Version and device do not matter here.
RequestUser(a) ==
    [field \in Fields |->
        CASE field = "id" -> a
          [] field = "role" -> Role(a)
          [] field = "sub" -> Undefined
          [] OTHER -> "some"]

\* The decorator GetUser.
GetUser(a, field) == RequestUser(a)[field]

RolesGuard(a, roles) == GetUser(a, "role") \in roles

SubscribeInit ==
    /\ plans = PlansOnOffer
    /\ categories = CategoriesOnOffer
    /\ subscription = {} /\ grant = {}
    /\ answer = [to |-> "none", by |-> Undefined, status |-> 200]

Answer(request, a, status) == answer' = [to |-> request, by |-> a, status |-> status]

\* Students there are; a foreign key wants one of them.
Students == {StudentOf(a) : a \in Accounts} \ {Undefined}

\* The plan is looked up, then the row and one row per category are inserted.
SubscribeTo(a, p, cats) ==
    LET student == GetUser(a, "sub")
    IN  /\ RolesGuard(a, {"STUDENT"})
        /\ \/ /\ p \notin plans
              /\ Answer("subscribe", a, 404)
              /\ UNCHANGED subscription
           \/ /\ p \in plans
              /\ student \notin Students \/ ~(cats \subseteq categories)
              /\ Answer("subscribe", a, 500)
              /\ UNCHANGED subscription
           \/ /\ p \in plans /\ student \in Students /\ cats \subseteq categories
              /\ \E id \in 1 .. MaxRows :
                     /\ \A s \in subscription : s.id # id
                     /\ subscription' = subscription \cup
                            {[id |-> id, student |-> student, plan |-> p, status |-> "ACTIVE"]}
              /\ Answer("subscribe", a, 201)
        /\ UNCHANGED <<plans, categories, grant>>

\* The student comes from the body and grantedBy from the request's user.
GrantAccess(a, student) ==
    LET by == GetUser(a, "sub")
    IN  /\ RolesGuard(a, {"ADMIN", "SUPERADMIN"})
        /\ IF by = Undefined \/ student \notin Students
           THEN Answer("grant", a, 500) /\ UNCHANGED grant
           ELSE /\ Answer("grant", a, 201)
                /\ grant' = grant \cup {[student |-> student, by |-> by]}
        /\ UNCHANGED <<plans, categories, subscription>>

\* getStudentSubscriptions: a filter on an undefined field is no filter.
FindMySubscriptions(a) ==
    LET student == GetUser(a, "sub")
    IN  IF student = Undefined THEN subscription
        ELSE {s \in subscription : s.student = student}

\* Only the subscription's own row is changed.
CancelSubscription(a, id) ==
    /\ RolesGuard(a, {"ADMIN", "SUPERADMIN"})
    /\ IF \E s \in subscription : s.id = id
       THEN /\ subscription' = {IF s.id = id THEN [s EXCEPT !.status = "CANCELLED"] ELSE s :
                                   s \in subscription}
            /\ Answer("cancel", a, 200)
       ELSE Answer("cancel", a, 500) /\ UNCHANGED subscription
    /\ UNCHANGED <<plans, categories, grant>>

\* SubscriptionPlanService.remove: ACTIVE subscriptions keep the plan, and a
\* foreign key the others.
RemovePlan(p) ==
    /\ p \in plans
    /\ \A s \in subscription : s.plan # p
    /\ plans' = plans \ {p}
    /\ UNCHANGED <<categories, subscription, grant, answer>>

SubscribeNext ==
    \/ \E a \in Accounts :
           \/ \E p \in PlansOnOffer, cats \in SUBSET CategoriesOnOffer : SubscribeTo(a, p, cats)
           \/ \E student \in Students : GrantAccess(a, student)
           \/ \E id \in 1 .. MaxRows : CancelSubscription(a, id)
    \/ \E p \in PlansOnOffer : RemovePlan(p)

SubscribeSpec == SubscribeInit /\ [][SubscribeNext]_subscribeVars

-----------------------------------------------------------------------------
(* Properties.                                                             *)

\* "Subscribe to a plan (Student only)": a student with a profile that asks
\* for a plan and categories that exist is answered 201.  The controller reads
\* the field sub of the request's user, which AtStrategy calls id.
StudentsCanSubscribe ==
    [][\A a \in Accounts, p \in plans, cats \in SUBSET categories :
          SubscribeTo(a, p, cats) /\ StudentOf(a) # Undefined => answer'.status = 201]_subscribeVars
=============================================================================

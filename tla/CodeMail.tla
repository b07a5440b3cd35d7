------------------------------ MODULE CodeMail ------------------------------
(***************************************************************************)
(* The mail that carries a one-time code.  A request passes the limit on   *)
(* the address, stores a new code over the old one, and adds a mail job    *)
(* whose id is made from the address, the kind of code and the minute.  A  *)
(* job whose id is taken is dropped without an error, so a code is only    *)
(* mailed if its job falls into a minute of its own.  Limits, rows and     *)
(* jobs of different addresses and kinds do not meet: this is one of each. *)
(***************************************************************************)
EXTENDS Integers, FiniteSets

CONSTANTS
    MailCalls,  \* requests that may overlap
    Window,     \* seconds of the limit on the address: 120, 60 at signup
    Bucket,     \* seconds of the id's minute
    MaxDelay,   \* seconds a request takes from the limit to the queue, at most
    Horizon     \* bound: the clock stops here

\* A request for a password reset (Window = 120) that takes a minute at most.
ASSUME CodeMailAssumptions ==
    /\ Window \in Nat /\ Bucket \in Nat \ {0} /\ MaxDelay \in Nat /\ Horizon \in Nat
    /\ Window >= Bucket + MaxDelay

VARIABLES
    now,       \* the clock
    passed,    \* when the limit last let a request pass, -Window if never
    codeRow,   \* the code in the VerificationToken row, 0 if there is none
    mails,     \* the jobs of the queue
    finished,  \* history: codes whose request came to its end
    mailCall

mailVars == <<now, passed, codeRow, mails, finished, mailCall>>

-----------------------------------------------------------------------------
MailCall == [at : {"idle", "passed", "stored"}, code : Nat]

NoMailCall == [at |-> "idle", code |-> 0]

CodeMailInit ==
    /\ now = 0
    /\ passed = -Window
    /\ codeRow = 0
    /\ mails = {}
    /\ finished = {}
    /\ mailCall = [c \in MailCalls |-> NoMailCall]

\* Math.floor(Date.now() / 60000), as the moment the minute began.
Minute(t) == t - (t % Bucket)

Pending == {c \in MailCalls : mailCall[c].at # "idle"}

\* The limit counts half of its window.
InWindowOrJustAfter(t) == 2 * (t - passed) < Window

\* rateLimit(address, 1, Window): one request per window.
InWindow(t) == t - passed < Window

Pass(c) ==
    /\ mailCall[c].at = "idle"
    /\ ~InWindow(now)
    /\ passed' = now
    /\ mailCall' = [mailCall EXCEPT ![c].at = "passed"]
    /\ UNCHANGED <<now, codeRow, mails, finished>>

\* No ACTIVE account has the address, or a query fails: no code.
NoAccount(c) ==
    /\ mailCall[c].at = "passed"
    /\ mailCall' = [mailCall EXCEPT ![c] = NoMailCall]
    /\ UNCHANGED <<now, passed, codeRow, mails, finished>>

\* The upsert of the row; codes are numbered.
StoreCode(c) ==
    /\ mailCall[c].at = "passed"
    /\ codeRow' = codeRow + 1
    /\ mailCall' = [mailCall EXCEPT ![c] = [at |-> "stored", code |-> codeRow + 1]]
    /\ UNCHANGED <<now, passed, mails, finished>>

\* The queue after an add: a job whose id is taken stays as it is.
Added(id, code) ==
    IF \E m \in mails : m.id = id THEN mails ELSE mails \cup {[id |-> id, code |-> code]}

QueueMail(c) ==
    /\ mailCall[c].at = "stored"
    /\ mails' = Added(Minute(now), mailCall[c].code)
    /\ finished' = finished \cup {mailCall[c].code}
    /\ mailCall' = [mailCall EXCEPT ![c] = NoMailCall]
    /\ UNCHANGED <<now, passed, codeRow>>

\* Nobody awaits the add: when it fails, as when the process dies for another
\* reason, the rejection ends the process and every request in it.
MailCrash ==
    /\ Pending # {}
    /\ mailCall' = [c \in MailCalls |-> NoMailCall]
    /\ UNCHANGED <<now, passed, codeRow, mails, finished>>

\* A request takes MaxDelay at most.
MailTick ==
    /\ now < Horizon
    /\ Pending # {} => now < passed + MaxDelay
    /\ now' = now + 1
    /\ UNCHANGED <<passed, codeRow, mails, finished, mailCall>>

CodeMailNext ==
    \/ \E c \in MailCalls : Pass(c) \/ NoAccount(c) \/ StoreCode(c) \/ QueueMail(c)
    \/ MailCrash
    \/ MailTick

CodeMailSpec == CodeMailInit /\ [][CodeMailNext]_mailVars

-----------------------------------------------------------------------------
(* Properties.                                                             *)

CodeMailTypeOK ==
    /\ now \in Nat
    /\ passed \in Int
    /\ codeRow \in Nat
    /\ mails \subseteq [id : Int, code : Nat]
    /\ finished \subseteq Nat
    /\ mailCall \in [MailCalls -> MailCall]

\* The code of every request that came to its end is in a mail: its job never
\* meets a job of an earlier request.  It needs a limit longer than a minute
\* by the time a request takes, which the 60 seconds of signup are not.
EveryCodeIsMailed == \A k \in finished : \E m \in mails : m.code = k
=============================================================================

------------------------------ MODULE JobQueue ------------------------------
(***************************************************************************)
(* The background queues: a producer adds a job under an id of its own,    *)
(* the slots of one worker process run handlers, a job whose handler       *)
(* throws is retried, and a job whose attempts are used up is pushed to    *)
(* the dead-letter queue by the listener of the worker's "failed" event.   *)
(* The handlers of the auth and audit queues upsert a row whose jobId is   *)
(* unique: they look for it and insert it, and an insertion that finds it  *)
(* there after all is rejected.  Those of the e-mail queue send a mail.    *)
(* Between the steps of a handler the process may crash, or lose the lock  *)
(* of a job while the handler runs on; the library then gives the job to   *)
(* somebody else.                                                          *)
(* Fewer jobs fail than removeOnFail keeps (100 or more), so a failed job  *)
(* stays in the queue.                                                     *)
(***************************************************************************)
EXTENDS Naturals, FiniteSets

CONSTANTS
    Jobs,           \* job ids
    MailJobs,       \* those of the e-mail queue
    Slots,          \* concurrency of the worker process
    NoJob, NoSlot,
    Attempts,       \* opts.attempts
    MaxStalled,     \* maxStalledCount, which the code leaves at its default 1
    MaxAdds,        \* bound of the model: how often an id is added
    MaxCrashes,     \* bound of the model: crashes of the process
    MaxLockLosses   \* bound of the model: locks that lapse under a handler

ASSUME QueueAssumption ==
    /\ MailJobs \subseteq Jobs
    /\ NoJob \notin Jobs
    /\ NoSlot \notin Slots
    /\ IsFiniteSet(Slots)
    /\ Attempts \in Nat \ {0}
    /\ {MaxStalled, MaxAdds, MaxCrashes, MaxLockLosses} \subseteq Nat

VARIABLES
    job,        \* where the queue keeps each job
    made,       \* attemptsMade of each job
    stalls,     \* how often each job was found without a lock
    lock,       \* the slot that holds the lock of each job
    slot,       \* what each slot of the process is doing
    failing,    \* "failed" events whose listener has not pushed a letter yet
    effects,    \* rows written, or mails sent, for each id
    letter,     \* the dead letter of each job
    dead,       \* DeadLetterJob rows of each job
    adds, crashes, losses,
    lapsed      \* history: the jobs whose lock lapsed under a handler

queueVars == <<job, made, stalls, lock, adds>>
letterVars == <<failing, letter, dead>>
faultVars == <<crashes, losses, lapsed>>
vars == <<queueVars, letterVars, faultVars, slot, effects>>

JobStates == {"absent", "waiting", "active", "delayed", "completed", "failed"}
SlotSteps == {"idle", "running", "inserting", "done", "threw", "hung"}
LetterStates == {"none", "waiting", "stored", "handled"}

IdleSlot == [job |-> NoJob, at |-> "idle"]

Init ==
    /\ job = [j \in Jobs |-> "absent"]
    /\ made = [j \in Jobs |-> 0]
    /\ stalls = [j \in Jobs |-> 0]
    /\ lock = [j \in Jobs |-> NoSlot]
    /\ slot = [s \in Slots |-> IdleSlot]
    /\ failing = {}
    /\ effects = [j \in Jobs |-> 0]
    /\ letter = [j \in Jobs |-> "none"]
    /\ dead = [j \in Jobs |-> 0]
    /\ adds = [j \in Jobs |-> 0]
    /\ crashes = 0
    /\ losses = 0
    /\ lapsed = {}

-----------------------------------------------------------------------------
(* The producer and the queue.                                             *)

\* queue.add with the jobId: an id that the queue still knows is not added
\* again.
Add(j) ==
    /\ job[j] = "absent"
    /\ adds[j] < MaxAdds
    /\ job' = [job EXCEPT ![j] = "waiting"]
    /\ adds' = [adds EXCEPT ![j] = @ + 1]
    /\ made' = [made EXCEPT ![j] = 0]
    /\ stalls' = [stalls EXCEPT ![j] = 0]
    /\ UNCHANGED <<lock, letterVars, faultVars, slot, effects>>

\* removeOnComplete: completed jobs go by age and number, and their ids are
\* free again.
Remove(j) ==
    /\ job[j] = "completed"
    /\ job' = [job EXCEPT ![j] = "absent"]
    /\ UNCHANGED <<made, stalls, lock, adds, letterVars, faultVars, slot,
                   effects>>

\* The backoff of a retried job is over.
Promote(j) ==
    /\ job[j] = "delayed"
    /\ job' = [job EXCEPT ![j] = "waiting"]
    /\ UNCHANGED <<made, stalls, lock, adds, letterVars, faultVars, slot,
                   effects>>

Take(s, j) ==
    /\ slot[s] = IdleSlot
    /\ job[j] = "waiting"
    /\ job' = [job EXCEPT ![j] = "active"]
    /\ lock' = [lock EXCEPT ![j] = s]
    /\ slot' = [slot EXCEPT ![s] = [job |-> j, at |-> "running"]]
    /\ UNCHANGED <<made, stalls, adds, letterVars, faultVars, effects>>

-----------------------------------------------------------------------------
(* The handler: process, exec and the handle... methods.                   *)

\* The slot has passed an await of its handler.
GoOn(s, step) ==
    /\ slot' = [slot EXCEPT ![s].at = step]
    /\ UNCHANGED <<queueVars, letterVars, faultVars>>

NeverFound(j) == FALSE
\* where: { jobId }
Found(j) == effects[j] > 0

\* The upsert looks for the row: it updates nothing of the one it finds.
Look(s) ==
    /\ slot[s].at = "running"
    /\ slot[s].job \notin MailJobs
    /\ GoOn(s, IF Found(slot[s].job) THEN "done" ELSE "inserting")
    /\ UNCHANGED effects

\* It found none and creates it, as jobId @unique allows.
Insert(s) ==
    /\ slot[s].at = "inserting"
    /\ effects[slot[s].job] = 0
    /\ effects' = [effects EXCEPT ![slot[s].job] = 1]
    /\ GoOn(s, "done")

\* sendMail has no memory.
Send(s) ==
    /\ slot[s].at = "running"
    /\ slot[s].job \in MailJobs
    /\ effects' = [effects EXCEPT ![slot[s].job] = @ + 1]
    /\ GoOn(s, "done")

AfterThrowSwallowed == "done"
AfterThrowLost == "hung"
\* exec logs the error and throws it again.
AfterThrow == "threw"

\* The handler throws, before the effect or after it (the answer of the
\* database or of the mail server was lost), or because the row to insert is
\* there by now.
Throw(s) ==
    /\ slot[s].at \in {"running", "inserting", "done"}
    /\ GoOn(s, AfterThrow)
    /\ UNCHANGED effects

Owns(s) == lock[slot[s].job] = s

\* The handler returned: the library completes the job if the slot still has
\* its lock.
Complete(s) ==
    /\ slot[s].at = "done"
    /\ LET j == slot[s].job
       IN  IF Owns(s)
           THEN /\ job' = [job EXCEPT ![j] = "completed"]
                /\ lock' = [lock EXCEPT ![j] = NoSlot]
           ELSE UNCHANGED <<job, lock>>
    /\ slot' = [slot EXCEPT ![s] = IdleSlot]
    /\ UNCHANGED <<made, stalls, adds, letterVars, faultVars, effects>>

\* Another attempt is left.
Retries(n) == n < Attempts

ExhaustedEarly(n) == n + 1 >= Attempts
\* isExhausted of onFailed.
Exhausted(n) == n >= Attempts

\* The handler threw: the attempt is counted; the job is retried after a
\* backoff, or fails, and the listener of "failed" looks whether its attempts
\* are used up.
CountAttempt(s) ==
    /\ slot[s].at = "threw"
    /\ LET j == slot[s].job
           n == made[j] + 1
       IN  IF Owns(s)
           THEN /\ made' = [made EXCEPT ![j] = n]
                /\ job' = [job EXCEPT ![j] =
                             IF Retries(n) THEN "delayed" ELSE "failed"]
                /\ lock' = [lock EXCEPT ![j] = NoSlot]
                /\ failing' = IF Exhausted(n) THEN failing \cup {j}
                                              ELSE failing
           ELSE UNCHANGED <<made, job, lock, failing>>
    /\ slot' = [slot EXCEPT ![s] = IdleSlot]
    /\ UNCHANGED <<stalls, adds, letter, dead, faultVars, effects>>

-----------------------------------------------------------------------------
(* Faults, and what the library does about them.                           *)

\* The lock lapses under a handler that runs on: a blocked event loop, or a
\* store that could not be reached.
LoseLock(j) ==
    /\ job[j] = "active"
    /\ lock[j] # NoSlot
    /\ losses < MaxLockLosses
    /\ lock' = [lock EXCEPT ![j] = NoSlot]
    /\ losses' = losses + 1
    /\ lapsed' = lapsed \cup {j}
    /\ UNCHANGED <<job, made, stalls, adds, letterVars, crashes, slot,
                   effects>>

\* The process dies and is started again: handlers and listeners are gone,
\* and a letter that was being handled is delivered again.
Crash ==
    /\ crashes < MaxCrashes
    /\ crashes' = crashes + 1
    /\ slot' = [s \in Slots |-> IdleSlot]
    /\ lock' = [j \in Jobs |-> NoSlot]
    /\ failing' = {}
    /\ letter' = [j \in Jobs |->
                    IF letter[j] = "stored" THEN "waiting" ELSE letter[j]]
    /\ UNCHANGED <<job, made, stalls, adds, dead, losses, lapsed, effects>>

StallLimitLate(n) == n > MaxStalled + 1
StallLimit(n) == n > MaxStalled

\* An active job without a lock waits again, or fails when that happened too
\* often.  Whether that failure counts as an attempt is the library's affair;
\* the listener of "failed" acts if it uses up the last one.
Stall(j) ==
    /\ job[j] = "active"
    /\ lock[j] = NoSlot
    /\ stalls' = [stalls EXCEPT ![j] = @ + 1]
    /\ \/ /\ ~StallLimit(stalls[j] + 1)
          /\ job' = [job EXCEPT ![j] = "waiting"]
          /\ UNCHANGED <<made, failing>>
       \/ /\ StallLimit(stalls[j] + 1)
          /\ job' = [job EXCEPT ![j] = "failed"]
          /\ \E n \in {made[j], made[j] + 1} :
                /\ made' = [made EXCEPT ![j] = n]
                /\ failing' = IF Exhausted(n) THEN failing \cup {j}
                                              ELSE failing
    /\ UNCHANGED <<lock, adds, letter, dead, faultVars, slot, effects>>

-----------------------------------------------------------------------------
(* The dead-letter queue.                                                  *)

\* onFailed pushes the letter.
PushLetter(j) ==
    /\ j \in failing
    /\ letter' = [letter EXCEPT ![j] = "waiting"]
    /\ failing' = failing \ {j}
    /\ UNCHANGED <<queueVars, dead, faultVars, slot, effects>>

\* deadLetterQueue.add throws: it is logged, and the letter is not pushed.
PushFails(j) ==
    /\ j \in failing
    /\ failing' = failing \ {j}
    /\ UNCHANGED <<queueVars, letter, dead, faultVars, slot, effects>>

\* handleFailedJob writes the DeadLetterJob row.
StoreLetter(j) ==
    /\ letter[j] = "waiting"
    /\ dead' = [dead EXCEPT ![j] = @ + 1]
    /\ letter' = [letter EXCEPT ![j] = "stored"]
    /\ UNCHANGED <<queueVars, failing, faultVars, slot, effects>>

\* The row could not be written: it is logged, and the job of the letter
\* completes nevertheless.
DropLetter(j) ==
    /\ letter[j] = "waiting"
    /\ letter' = [letter EXCEPT ![j] = "handled"]
    /\ UNCHANGED <<queueVars, failing, dead, faultVars, slot, effects>>

CloseLetter(j) ==
    /\ letter[j] = "stored"
    /\ letter' = [letter EXCEPT ![j] = "handled"]
    /\ UNCHANGED <<queueVars, failing, dead, faultVars, slot, effects>>

-----------------------------------------------------------------------------
Handle(s) == Look(s) \/ Insert(s) \/ Send(s) \/ Throw(s)
Settle(s) == Complete(s) \/ CountAttempt(s)
HandleLetter(j) == StoreLetter(j) \/ DropLetter(j)
Push(j) == PushLetter(j) \/ PushFails(j)

Next ==
    \/ \E j \in Jobs : \/ Add(j) \/ Remove(j) \/ Promote(j)
                       \/ LoseLock(j) \/ Stall(j)
                       \/ Push(j) \/ HandleLetter(j) \/ CloseLetter(j)
    \/ \E s \in Slots : Handle(s) \/ Settle(s)
    \/ \E s \in Slots, j \in Jobs : Take(s, j)
    \/ Crash

\* The worker polls, promotes delayed jobs and looks for stalled ones; a
\* handler whose database and mail server answer returns or throws.  Nothing
\* makes callers add jobs, processes crash or locks lapse.
Fairness ==
    /\ WF_vars(\E s \in Slots, j \in Jobs : Take(s, j))
    /\ \A s \in Slots : WF_vars(Handle(s)) /\ WF_vars(Settle(s))
    /\ \A j \in Jobs : /\ WF_vars(Promote(j)) /\ WF_vars(Stall(j))
                       /\ WF_vars(Push(j)) /\ WF_vars(HandleLetter(j))
                       /\ WF_vars(CloseLetter(j))

Spec == Init /\ [][Next]_vars /\ Fairness

\* A handler that never settles: a database or mail connection that neither
\* answers nor breaks.  The event loop lives, so the lock is renewed.
Hang(s) ==
    /\ slot[s].at \in {"running", "inserting"}
    /\ GoOn(s, "hung")
    /\ UNCHANGED effects

HangSpec == Init /\ [][Next \/ \E s \in Slots : Hang(s)]_vars /\ Fairness

-----------------------------------------------------------------------------
\* Every variable has its type.
QueueTypeOK ==
    /\ job \in [Jobs -> JobStates]
    /\ made \in [Jobs -> 0 .. Attempts]
    /\ stalls \in [Jobs -> 0 .. MaxStalled + 1]
    /\ lock \in [Jobs -> Slots \cup {NoSlot}]
    /\ slot \in [Slots -> [job : Jobs \cup {NoJob}, at : SlotSteps]]
    /\ failing \subseteq Jobs
    /\ effects \in [Jobs -> Nat]
    /\ letter \in [Jobs -> LetterStates]
    /\ dead \in [Jobs -> Nat]
    /\ adds \in [Jobs -> 0 .. MaxAdds]
    /\ crashes \in 0 .. MaxCrashes
    /\ losses \in 0 .. MaxLockLosses
    /\ lapsed \subseteq Jobs

\* "On retry, the upsert finds the existing row and updates nothing": a handler
\* that runs again after a lost answer, a stall, a crash, or because its id was
\* added again, is rejected by the row of an earlier run only when the lock of
\* the job lapsed under a handler, so that two of them ran at once.
RerunsAreHarmless ==
    \A s \in Slots : slot[s].at = "inserting" /\ effects[slot[s].job] > 0 =>
        slot[s].job \in lapsed

\* A job the queue calls completed has had its effect.
CompletedIsDone == \A j \in Jobs : job[j] = "completed" => effects[j] > 0

\* However often it stalls and is retried, an id sends at most one mail for
\* each attempt and each tolerated stall of each time it is added.
MailsAreBounded ==
    \A j \in MailJobs : effects[j] <= adds[j] * (Attempts + MaxStalled)

\* A dead letter is only written for a job that has used up its attempts; no
\* job is retried while its letter waits for somebody to replay it.
LetterMeansFailed ==
    \A j \in Jobs : letter[j] # "none" => job[j] = "failed" /\ made[j] = Attempts

\* Every job leaves the live queue: it is completed, or it failed and its
\* listener is done.
JobsSettle ==
    \A j \in Jobs : job[j] = "waiting" ~>
        job[j] \in {"completed", "failed"} /\ j \notin failing

\* "Hard cap on handler runtime so workers cannot hang forever (frees
\* concurrency slots)".
HungSlotIsFreed == \A s \in Slots : slot[s].at = "hung" ~> slot[s].at # "hung"

\* "When all retry attempts are exhausted, push to the dead-letter queue
\* instead of silently discarding the job."
ExhaustedIsKept ==
    \A j \in Jobs : job[j] = "failed" /\ made[j] = Attempts =>
        j \in failing \/ letter[j] # "none"
=============================================================================

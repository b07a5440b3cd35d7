--------------------------- MODULE JobQueueProofs ---------------------------
(***************************************************************************)
(* For any number of jobs, slots, attempts and faults: only a lost lock    *)
(* makes a handler collide with the row of an earlier run, a completed job *)
(* has had its effect, a dead letter is only written for a job that failed *)
(* in every attempt, and the mails sent are bounded by the calls of add.   *)
(* Then, for the mails on that queue (CodeMail): every code that is stored *)
(* is mailed.                                                              *)
(***************************************************************************)
EXTENDS JobQueue, CodeMail, FiniteSetTheorems, TLAPS

\* A busy slot works on a job, and a handler that returned had its effect.
SlotInv ==
    \A s \in Slots :
        /\ slot[s].at # "idle" => slot[s].job \in Jobs
        /\ slot[s].at = "inserting" => slot[s].job \notin MailJobs
        /\ slot[s].at = "done" => effects[slot[s].job] > 0

\* A slot has the lock of its job, until it lapses.
OwnInv ==
    \A s \in Slots : slot[s].at # "idle" /\ slot[s].job \notin lapsed =>
        lock[slot[s].job] = s

\* A lock is held on an active job only.
LockInv == \A j \in Jobs : lock[j] # NoSlot => job[j] = "active"

\* A job that may still run has an attempt and a tolerated stall left.
LiveInv ==
    \A j \in Jobs : job[j] \in {"waiting", "active", "delayed"} =>
        made[j] < Attempts /\ stalls[j] <= MaxStalled

\* The listener acts for jobs whose attempts are used up.
FailingInv == \A j \in failing : job[j] = "failed" /\ made[j] = Attempts

IInv ==
    /\ QueueTypeOK /\ SlotInv /\ LockInv /\ LiveInv /\ FailingInv
    /\ OwnInv /\ RerunsAreHarmless /\ CompletedIsDone /\ LetterMeansFailed

USE DEF queueVars, letterVars, faultVars

-----------------------------------------------------------------------------
LEMMA InitInv == Init => IInv
BY QueueAssumption
   DEF Init, IInv, QueueTypeOK, SlotInv, LockInv, LiveInv, FailingInv,
       OwnInv, RerunsAreHarmless, CompletedIsDone, LetterMeansFailed, IdleSlot,
       JobStates, SlotSteps, LetterStates

\* Steps that change only where the queue keeps one job.
LEMMA QueueStep ==
    ASSUME IInv, NEW j \in Jobs, Add(j) \/ Remove(j) \/ Promote(j)
    PROVE  IInv'
<1> USE QueueAssumption DEF IInv
<1>1. CASE Add(j)
  <2>1. QueueTypeOK'
    BY <1>1 DEF Add, QueueTypeOK, JobStates
  <2>2. SlotInv' /\ LockInv' /\ LiveInv'
    BY <1>1 DEF Add, QueueTypeOK, SlotInv, LockInv, LiveInv
  <2>3. FailingInv' /\ OwnInv' /\ RerunsAreHarmless' /\ CompletedIsDone' /\ LetterMeansFailed'
    BY <1>1 DEF Add, QueueTypeOK, FailingInv, OwnInv, RerunsAreHarmless, CompletedIsDone,
                LetterMeansFailed
  <2> QED
    BY <2>1, <2>2, <2>3
<1>2. CASE Remove(j) \/ Promote(j)
  <2>1. QueueTypeOK'
    BY <1>2 DEF Remove, Promote, QueueTypeOK, JobStates
  <2>2. SlotInv' /\ LockInv' /\ LiveInv'
    BY <1>2 DEF Remove, Promote, QueueTypeOK, SlotInv, LockInv, LiveInv
  <2>3. FailingInv' /\ OwnInv' /\ RerunsAreHarmless' /\ CompletedIsDone' /\ LetterMeansFailed'
    BY <1>2 DEF Remove, Promote, QueueTypeOK, FailingInv, OwnInv, RerunsAreHarmless,
                CompletedIsDone, LetterMeansFailed
  <2> QED
    BY <2>1, <2>2, <2>3
<1> QED
  BY <1>1, <1>2

LEMMA TakeStep ==
    ASSUME IInv, NEW s \in Slots, NEW j \in Jobs, Take(s, j)
    PROVE  IInv'
<1> USE QueueAssumption DEF IInv
<1>1. QueueTypeOK'
  BY DEF Take, QueueTypeOK, JobStates, SlotSteps
<1>2. SlotInv' /\ LockInv' /\ LiveInv'
  BY DEF Take, QueueTypeOK, SlotInv, LockInv, LiveInv
<1>3. FailingInv' /\ CompletedIsDone' /\ LetterMeansFailed'
  BY DEF Take, QueueTypeOK, FailingInv, CompletedIsDone, LetterMeansFailed
<1>4. OwnInv' /\ RerunsAreHarmless'
  <2>1. \A t \in Slots : slot'[t] = IF t = s THEN [job |-> j, at |-> "running"] ELSE slot[t]
    BY DEF Take, QueueTypeOK
  <2>2. \A k \in Jobs : lock'[k] = IF k = j THEN s ELSE lock[k]
    BY DEF Take, QueueTypeOK
  <2>3. \A t \in Slots : slot[t].at # "idle" /\ slot[t].job = j => j \in lapsed
    BY DEF Take, OwnInv, LockInv
  <2>4. UNCHANGED <<effects, lapsed>>
    BY DEF Take
  <2>5. OwnInv'
    BY <2>1, <2>2, <2>3, <2>4 DEF OwnInv, SlotInv
  <2>6. RerunsAreHarmless'
    BY <2>1, <2>4 DEF RerunsAreHarmless
  <2>. QED
    BY <2>5, <2>6
<1> QED
  BY <1>1, <1>2, <1>3, <1>4

\* A handler passes an await: it finds the row, finds none, or has its effect.
LEMMA PerformStep ==
    ASSUME IInv, NEW s \in Slots, Look(s) \/ Insert(s) \/ Send(s)
    PROVE  IInv'
<1> USE QueueAssumption DEF IInv
<1> DEFINE j == slot[s].job
<1>1. j \in Jobs /\ effects[j] \in Nat /\ slot[s].at # "idle"
  BY DEF Look, Insert, Send, SlotInv, QueueTypeOK
<1> DEFINE n == effects'[j]
           step == slot'[s].at
<1>2. /\ effects' = [effects EXCEPT ![j] = n] /\ n \in Nat /\ n >= effects[j]
      /\ step \in {"inserting", "done"}
      /\ step = "done" => n > 0
      /\ step = "inserting" => n = 0 /\ j \notin MailJobs
      /\ n = effects[j] \/ j \in MailJobs \/ slot[s].at = "inserting"
      /\ slot' = [slot EXCEPT ![s].at = step]
  <2>1. effects \in [Jobs -> Nat] /\ slot \in [Slots -> [job : Jobs \cup {NoJob}, at : SlotSteps]]
    BY DEF QueueTypeOK
  <2> HIDE DEF IInv
  <2>2. CASE Look(s)
    <3>1. CASE effects[j] > 0
      BY <1>1, <2>1, <2>2, <3>1 DEF Look, Found, GoOn
    <3>2. CASE ~(effects[j] > 0)
      BY <1>1, <2>1, <2>2, <3>2 DEF Look, Found, GoOn
    <3>. QED
      BY <3>1, <3>2
  <2>3. CASE Insert(s)
    <3>1. /\ effects[j] = 0 /\ effects' = [effects EXCEPT ![j] = 1]
          /\ slot[s].at = "inserting" /\ slot' = [slot EXCEPT ![s].at = "done"]
      BY <2>3 DEF Insert, GoOn
    <3>2. n = 1 /\ step = "done"
      BY <1>1, <2>1, <3>1
    <3> HIDE DEF n, step
    <3>. QED
      BY <1>1, <3>1, <3>2
  <2>4. CASE Send(s)
    <3>1. /\ j \in MailJobs /\ effects' = [effects EXCEPT ![j] = effects[j] + 1]
          /\ slot' = [slot EXCEPT ![s].at = "done"]
      BY <2>4 DEF Send, GoOn
    <3>2. n = effects[j] + 1 /\ step = "done"
      BY <1>1, <2>1, <3>1
    <3> HIDE DEF j, n, step
    <3>. QED
      BY <1>1, <3>1, <3>2
  <2>. QED
    BY <2>2, <2>3, <2>4
<1>3. UNCHANGED <<queueVars, letterVars, faultVars>>
  BY DEF Look, Insert, Send, GoOn
<1> HIDE DEF j, n, step
<1>4. QueueTypeOK'
  BY <1>1, <1>2, <1>3 DEF QueueTypeOK, SlotSteps
<1>5. \A t \in Slots : /\ slot'[t].job = slot[t].job
                       /\ t # s => slot'[t] = slot[t]
                       /\ slot'[s].at = step
                       /\ slot[t].job = j => effects'[slot[t].job] = n
                       /\ slot[t].job # j => effects'[slot[t].job] = effects[slot[t].job]
  BY <1>1, <1>2 DEF QueueTypeOK
<1>6. SlotInv' /\ OwnInv'
  BY <1>1, <1>2, <1>3, <1>5 DEF SlotInv, OwnInv, j, QueueTypeOK
<1>7. RerunsAreHarmless'
  <2> SUFFICES ASSUME NEW t \in Slots, slot'[t].at = "inserting", effects'[slot'[t].job] > 0
               PROVE  slot'[t].job \in lapsed'
    BY DEF RerunsAreHarmless
  <2>1. t # s /\ slot[t].at = "inserting"
    BY <1>1, <1>2, <1>5 DEF j
  <2>2. CASE slot[t].job # j \/ n = effects[j]
    BY <1>2, <1>3, <1>5, <2>1, <2>2 DEF RerunsAreHarmless
  <2>3. CASE slot[t].job = j /\ n # effects[j]
    <3>1. j \notin MailJobs /\ slot[s].job = j
      BY <2>1, <2>3 DEF SlotInv, j
    <3>2. j \in lapsed
      BY <1>1, <2>1, <2>3, <3>1 DEF OwnInv
    <3>. QED
      BY <1>3, <1>5, <2>3, <3>2
  <2>. QED
    BY <2>2, <2>3
<1>8. CompletedIsDone'
  BY <1>1, <1>2, <1>3 DEF QueueTypeOK, CompletedIsDone
<1>9. LockInv' /\ LiveInv' /\ FailingInv' /\ LetterMeansFailed'
  BY <1>3 DEF LockInv, LiveInv, FailingInv, LetterMeansFailed
<1> QED
  BY <1>4, <1>6, <1>7, <1>8, <1>9

LEMMA ThrowStep ==
    ASSUME IInv, NEW s \in Slots, Throw(s)
    PROVE  IInv'
<1> USE DEF IInv
<1>1. QueueTypeOK'
  BY DEF Throw, GoOn, AfterThrow, QueueTypeOK, SlotSteps
<1>2. SlotInv'
  BY DEF Throw, GoOn, AfterThrow, QueueTypeOK, SlotInv
<1>3. LockInv' /\ LiveInv' /\ FailingInv' /\ CompletedIsDone' /\ LetterMeansFailed'
  BY DEF Throw, GoOn, LockInv, LiveInv, FailingInv, CompletedIsDone, LetterMeansFailed
<1>4. OwnInv' /\ RerunsAreHarmless'
  <2>1. /\ \A t \in Slots : slot'[t].job = slot[t].job /\ (t # s => slot'[t] = slot[t])
        /\ slot[s].at # "idle" /\ slot'[s].at = "threw"
        /\ UNCHANGED <<lock, effects, lapsed>>
    BY DEF Throw, GoOn, AfterThrow, QueueTypeOK
  <2>. QED
    BY <2>1 DEF OwnInv, RerunsAreHarmless
<1> QED
  BY <1>1, <1>2, <1>3, <1>4

\* A slot that is idle again leaves the locks of the others alone.
LEMMA LeaveStep ==
    ASSUME IInv, NEW s \in Slots, slot' = [slot EXCEPT ![s] = IdleSlot],
           UNCHANGED <<effects, lapsed>>,
           \/ lock' = lock
           \/ Owns(s) /\ lock' = [lock EXCEPT ![slot[s].job] = NoSlot]
    PROVE  OwnInv' /\ RerunsAreHarmless'
<1>1. slot'[s].at = "idle" /\ \A t \in Slots \ {s} : slot'[t] = slot[t]
  BY DEF IInv, QueueTypeOK, IdleSlot
<1>2. \A t \in Slots \ {s} :
          slot[t].at # "idle" /\ lock[slot[t].job] = t => lock'[slot[t].job] = t
  BY DEF Owns, IInv, QueueTypeOK, SlotInv
<1>. QED
  BY <1>1, <1>2 DEF IInv, OwnInv, RerunsAreHarmless

LEMMA CompleteStep ==
    ASSUME IInv, NEW s \in Slots, Complete(s)
    PROVE  IInv'
<1> USE QueueAssumption DEF IInv
<1> DEFINE j == slot[s].job
<1>1. j \in Jobs /\ effects[j] > 0 /\ slot' = [slot EXCEPT ![s] = IdleSlot]
  BY DEF Complete, SlotInv
<1>2. UNCHANGED <<made, stalls, adds, letterVars, faultVars, effects>>
  BY DEF Complete
<1>3. CASE UNCHANGED <<job, lock>>
  <2>1. QueueTypeOK' /\ SlotInv'
    BY <1>1, <1>2, <1>3 DEF QueueTypeOK, SlotInv, IdleSlot, SlotSteps
  <2>2. LockInv' /\ LiveInv' /\ FailingInv' /\ CompletedIsDone' /\ LetterMeansFailed'
    BY <1>2, <1>3 DEF LockInv, LiveInv, FailingInv, CompletedIsDone, LetterMeansFailed
  <2>3. OwnInv' /\ RerunsAreHarmless'
    BY <1>1, <1>2, <1>3, LeaveStep
  <2> QED
    BY <2>1, <2>2, <2>3
<1>4. CASE Owns(s)
  <2>1. /\ job' = [job EXCEPT ![j] = "completed"]
        /\ lock' = [lock EXCEPT ![j] = NoSlot]
        /\ job[j] = "active"
    BY <1>1, <1>4 DEF Complete, Owns, LockInv
  <2> HIDE DEF j
  <2>2. QueueTypeOK' /\ SlotInv'
    BY <1>1, <1>2, <2>1 DEF QueueTypeOK, SlotInv, IdleSlot, SlotSteps, JobStates
  <2>3. LockInv' /\ LiveInv'
    BY <1>1, <1>2, <2>1 DEF QueueTypeOK, LockInv, LiveInv
  <2>4. FailingInv' /\ CompletedIsDone' /\ LetterMeansFailed'
    BY <1>1, <1>2, <2>1 DEF QueueTypeOK, FailingInv, CompletedIsDone, LetterMeansFailed
  <2>5. OwnInv' /\ RerunsAreHarmless'
    BY <1>1, <1>2, <1>4, <2>1, LeaveStep DEF j
  <2> QED
    BY <2>2, <2>3, <2>4, <2>5
<1> QED
  BY <1>3, <1>4 DEF Complete

LEMMA CountAttemptStep ==
    ASSUME IInv, NEW s \in Slots, CountAttempt(s)
    PROVE  IInv'
<1> USE QueueAssumption DEF IInv
<1> DEFINE j == slot[s].job
           n == made[j] + 1
<1>1. j \in Jobs /\ slot' = [slot EXCEPT ![s] = IdleSlot]
  BY DEF CountAttempt, SlotInv
<1>2. UNCHANGED <<stalls, adds, letter, dead, faultVars, effects>>
  BY DEF CountAttempt
<1>3. CASE UNCHANGED <<made, job, lock, failing>>
  <2>1. QueueTypeOK' /\ SlotInv'
    BY <1>1, <1>2, <1>3 DEF QueueTypeOK, SlotInv, IdleSlot, SlotSteps
  <2>2. LockInv' /\ LiveInv' /\ FailingInv' /\ CompletedIsDone' /\ LetterMeansFailed'
    BY <1>2, <1>3 DEF LockInv, LiveInv, FailingInv, CompletedIsDone, LetterMeansFailed
  <2>3. OwnInv' /\ RerunsAreHarmless'
    BY <1>1, <1>2, <1>3, LeaveStep
  <2> QED
    BY <2>1, <2>2, <2>3
<1>4. CASE Owns(s)
  <2>1. job[j] = "active" /\ made[j] \in Nat /\ n <= Attempts
    <3>1. job[j] = "active"
      BY <1>1, <1>4 DEF Owns, LockInv
    <3>2. made[j] \in Nat /\ made[j] < Attempts
      BY <1>1, <3>1 DEF LiveInv, QueueTypeOK
    <3> HIDE DEF j
    <3> QED
      BY <3>1, <3>2
  <2>2. /\ made' = [made EXCEPT ![j] = n]
        /\ job' = [job EXCEPT ![j] = IF n < Attempts THEN "delayed" ELSE "failed"]
        /\ lock' = [lock EXCEPT ![j] = NoSlot]
        /\ failing' = IF n >= Attempts THEN failing \cup {j} ELSE failing
    <3> HIDE DEF IInv
    <3>1. Retries(n) = (n < Attempts) /\ Exhausted(n) = (n >= Attempts)
      BY DEF Retries, Exhausted
    <3> HIDE DEF n
    <3>2. /\ made' = [made EXCEPT ![j] = n]
          /\ job' = [job EXCEPT ![j] = IF Retries(n) THEN "delayed" ELSE "failed"]
          /\ lock' = [lock EXCEPT ![j] = NoSlot]
          /\ failing' = IF Exhausted(n) THEN failing \cup {j} ELSE failing
      BY <1>4, Zenon DEF CountAttempt, n
    <3> QED
      BY <3>1, <3>2
  <2>3. n \in 0 .. Attempts /\ (~(n < Attempts) => n = Attempts)
    BY <2>1
  <2> HIDE DEF j, n
  <2>4. QueueTypeOK' /\ SlotInv'
    BY <1>1, <1>2, <2>2, <2>3
       DEF QueueTypeOK, SlotInv, IdleSlot, SlotSteps, JobStates
  <2>5. LockInv' /\ LiveInv'
    <3>1. /\ lock'[j] = NoSlot /\ made'[j] = n
          /\ job'[j] = IF n < Attempts THEN "delayed" ELSE "failed"
          /\ \A k \in Jobs \ {j} : /\ lock'[k] = lock[k] /\ made'[k] = made[k]
                                  /\ job'[k] = job[k]
      BY <1>1, <2>2 DEF QueueTypeOK
    <3>2. stalls[j] <= MaxStalled /\ stalls' = stalls
      BY <1>1, <1>2, <2>1 DEF LiveInv
    <3>3. LockInv'
      BY <1>1, <3>1 DEF LockInv
    <3>4. LiveInv'
      BY <1>1, <2>3, <3>1, <3>2 DEF LiveInv
    <3> QED
      BY <3>3, <3>4
  <2>6. FailingInv'
    BY <1>1, <2>1, <2>2, <2>3 DEF QueueTypeOK, FailingInv
  <2>7. CompletedIsDone' /\ LetterMeansFailed'
    BY <1>1, <1>2, <2>1, <2>2 DEF QueueTypeOK, CompletedIsDone, LetterMeansFailed
  <2>8. OwnInv' /\ RerunsAreHarmless'
    BY <1>1, <1>2, <1>4, <2>2, LeaveStep DEF j
  <2> QED
    BY <2>4, <2>5, <2>6, <2>7, <2>8
<1> QED
  BY <1>3, <1>4 DEF CountAttempt

LEMMA FaultStep ==
    ASSUME IInv, Crash \/ \E j \in Jobs : LoseLock(j)
    PROVE  IInv'
<1> USE QueueAssumption DEF IInv
<1>1. CASE Crash
  <2>1. QueueTypeOK' /\ SlotInv'
    BY <1>1 DEF Crash, QueueTypeOK, SlotInv, IdleSlot, SlotSteps, LetterStates
  <2>2. LockInv' /\ LiveInv' /\ FailingInv' /\ OwnInv' /\ RerunsAreHarmless' /\ CompletedIsDone'
    BY <1>1
       DEF Crash, IdleSlot, LockInv, LiveInv, FailingInv, OwnInv, RerunsAreHarmless,
           CompletedIsDone
  <2>3. LetterMeansFailed'
    BY <1>1 DEF Crash, LetterMeansFailed
  <2> QED
    BY <2>1, <2>2, <2>3
<1>2. ASSUME NEW j \in Jobs, LoseLock(j)
      PROVE  IInv'
  <2>1. QueueTypeOK' /\ LockInv'
    BY <1>2 DEF LoseLock, QueueTypeOK, LockInv
  <2>2. SlotInv' /\ LiveInv' /\ FailingInv' /\ OwnInv' /\ RerunsAreHarmless' /\ CompletedIsDone' /\ LetterMeansFailed'
    BY <1>2 DEF LoseLock, SlotInv, LiveInv, FailingInv, OwnInv, RerunsAreHarmless,
                CompletedIsDone, LetterMeansFailed
  <2> QED
    BY <2>1, <2>2
<1> QED
  BY <1>1, <1>2

LEMMA StallStep ==
    ASSUME IInv, NEW j \in Jobs, Stall(j)
    PROVE  IInv'
<1> USE QueueAssumption DEF IInv
<1>1. /\ job[j] = "active" /\ made[j] < Attempts /\ made[j] \in Nat
      /\ stalls[j] \in Nat /\ stalls[j] <= MaxStalled
  BY DEF Stall, LiveInv, QueueTypeOK
<1>2. /\ stalls' = [stalls EXCEPT ![j] = stalls[j] + 1]
      /\ UNCHANGED <<lock, adds, letter, dead, faultVars, slot, effects>>
      /\ lock[j] = NoSlot
  BY <1>1 DEF Stall, QueueTypeOK
<1>3. CASE ~StallLimit(stalls[j] + 1)
  <2>1. /\ stalls[j] + 1 <= MaxStalled
        /\ job' = [job EXCEPT ![j] = "waiting"]
        /\ UNCHANGED <<made, failing>>
    BY <1>1, <1>3 DEF Stall, StallLimit
  <2>2. QueueTypeOK' /\ SlotInv'
    BY <1>1, <1>2, <2>1 DEF QueueTypeOK, SlotInv, JobStates
  <2>3. LockInv' /\ LiveInv'
    BY <1>1, <1>2, <2>1 DEF QueueTypeOK, LockInv, LiveInv
  <2>4. FailingInv' /\ OwnInv' /\ RerunsAreHarmless' /\ CompletedIsDone' /\ LetterMeansFailed'
    BY <1>1, <1>2, <2>1 DEF QueueTypeOK, FailingInv, OwnInv, RerunsAreHarmless,
                            CompletedIsDone, LetterMeansFailed
  <2> QED
    BY <2>2, <2>3, <2>4
<1>4. CASE StallLimit(stalls[j] + 1)
  <2>1. PICK n \in {made[j], made[j] + 1} :
          /\ made' = [made EXCEPT ![j] = n]
          /\ failing' = IF Exhausted(n) THEN failing \cup {j} ELSE failing
    BY <1>4 DEF Stall
  <2>2. job' = [job EXCEPT ![j] = "failed"]
    BY <1>4 DEF Stall
  <2>3. n \in 0 .. Attempts /\ (Exhausted(n) => n = Attempts)
    BY <1>1, <2>1 DEF Exhausted
  <2>4. failing' \subseteq failing \cup {j} /\ (j \in failing' => n = Attempts)
    <3>1. j \notin failing
      BY <1>1 DEF FailingInv
    <3> QED
      BY <2>1, <2>3, <3>1
  <2>5. QueueTypeOK' /\ SlotInv'
    BY <1>1, <1>2, <2>1, <2>2, <2>3, <2>4 DEF QueueTypeOK, SlotInv, JobStates
  <2>6. LockInv' /\ LiveInv'
    BY <1>1, <1>2, <2>1, <2>2 DEF QueueTypeOK, LockInv, LiveInv
  <2>7. OwnInv' /\ RerunsAreHarmless' /\ CompletedIsDone' /\ LetterMeansFailed'
    BY <1>1, <1>2, <2>1, <2>2 DEF QueueTypeOK, OwnInv, RerunsAreHarmless, CompletedIsDone,
                                  LetterMeansFailed
  <2>8. FailingInv'
    BY <1>2, <2>1, <2>2, <2>3, <2>4 DEF QueueTypeOK, FailingInv
  <2> QED
    BY <2>5, <2>6, <2>7, <2>8
<1> QED
  BY <1>3, <1>4

LEMMA LetterStep ==
    ASSUME IInv, NEW j \in Jobs,
           Push(j) \/ HandleLetter(j) \/ CloseLetter(j)
    PROVE  IInv'
<1> USE DEF IInv, Push, HandleLetter
<1>1. QueueTypeOK'
  BY DEF PushLetter, PushFails, StoreLetter, DropLetter, CloseLetter,
         QueueTypeOK, LetterStates
<1>2. LetterMeansFailed' /\ FailingInv'
  BY DEF PushLetter, PushFails, StoreLetter, DropLetter, CloseLetter,
         QueueTypeOK, LetterMeansFailed, FailingInv
<1>3. SlotInv' /\ LockInv' /\ LiveInv' /\ OwnInv' /\ RerunsAreHarmless' /\ CompletedIsDone'
  BY DEF PushLetter, PushFails, StoreLetter, DropLetter, CloseLetter,
         SlotInv, LockInv, LiveInv, OwnInv, RerunsAreHarmless, CompletedIsDone
<1> QED
  BY <1>1, <1>2, <1>3

LEMMA NextInv == IInv /\ [Next]_vars => IInv'
<1>1. IInv /\ UNCHANGED vars => IInv'
  BY DEF vars, IInv, QueueTypeOK, SlotInv, LockInv, LiveInv, FailingInv,
         OwnInv, RerunsAreHarmless, CompletedIsDone, LetterMeansFailed
<1> QED
  BY <1>1, QueueStep, TakeStep, PerformStep, ThrowStep, CompleteStep,
     CountAttemptStep, FaultStep, StallStep, LetterStep
     DEF Next, Handle, Settle

-----------------------------------------------------------------------------
\* The slots, locks, attempts and letters stay consistent: what the theorems
\* below rest on.
THEOREM QueueInvariant == Spec => []IInv
<1> QED
  BY InitInv, NextInv, PTL DEF Spec

\* Every variable keeps its type: no job is tried or stalls more than allowed.
THEOREM QueueTypeCorrect == Spec => []QueueTypeOK
<1>1. IInv => QueueTypeOK
  BY DEF IInv
<1> QED
  BY <1>1, QueueInvariant, PTL

\* Only after a lock lapsed does a handler collide with the row of an earlier
\* run, however many retries, stalls, crashes and additions of the id there are.
THEOREM RerunsAreHarmlessAlways == Spec => []RerunsAreHarmless
<1>1. IInv => RerunsAreHarmless
  BY DEF IInv
<1> QED
  BY <1>1, QueueInvariant, PTL

\* A completed job has had its effect, also when a handler that had lost its
\* lock finished first.
THEOREM CompletedIsDoneAlways == Spec => []CompletedIsDone
<1>1. IInv => CompletedIsDone
  BY DEF IInv
<1> QED
  BY <1>1, QueueInvariant, PTL

\* Only jobs that failed in every attempt have a dead letter.
THEOREM LetterMeansFailedAlways == Spec => []LetterMeansFailed
<1>1. IInv => LetterMeansFailed
  BY DEF IInv
<1> QED
  BY <1>1, QueueInvariant, PTL
-----------------------------------------------------------------------------
(* How often an id is mailed.                                              *)

\* How often a job may be taken each time it is added.
Tries == Attempts + MaxStalled

\* The slots whose handler of the job may still have its effect.
Runs(j) == {s \in Slots : slot[s].job = j /\ slot[s].at = "running"}

\* How often the job can be taken before it is added again.
Left(j) ==
    IF job[j] \in {"waiting", "delayed"} THEN Tries - (made[j] + stalls[j])
    ELSE IF job[j] = "active" THEN Tries - (made[j] + stalls[j] + 1)
    ELSE 0

\* What was sent, what may be sent and what may be taken stay within the
\* tries that all additions of the id have paid for.
Paid(j) == effects[j] + Cardinality(Runs(j)) + Left(j) <= adds[j] * Tries

SendsInv == \A j \in MailJobs : Paid(j)

LEMMA RunsType ==
    ASSUME NEW j
    PROVE  IsFiniteSet(Runs(j)) /\ Cardinality(Runs(j)) \in Nat
<1>1. IsFiniteSet(Runs(j))
  BY QueueAssumption, FS_Subset, Runs(j) \in SUBSET Slots DEF Runs
<1> QED
  BY <1>1, FS_CardinalityType

\* Fewer handlers than before: a step that starts none.
LEMMA RunsShrink ==
    ASSUME NEW j, Runs(j)' \subseteq Runs(j)
    PROVE  Cardinality(Runs(j)') \in Nat /\ Cardinality(Runs(j)') <= Cardinality(Runs(j))
<1>1. IsFiniteSet(Runs(j)) /\ IsFiniteSet(Runs(j)')
  BY RunsType, FS_Subset
<1> QED
  BY <1>1, FS_Subset, FS_CardinalityType

\* The numbers of a job in the invariant.
LEMMA SendsType ==
    ASSUME IInv, NEW j \in Jobs
    PROVE  /\ effects[j] \in Nat /\ adds[j] \in Nat /\ Tries \in Nat
           /\ made[j] \in Nat /\ stalls[j] \in Nat
           /\ Left(j) \in Nat
           /\ adds[j] * Tries \in Nat
<1>1. /\ effects[j] \in Nat /\ adds[j] \in Nat /\ Tries \in Nat
      /\ made[j] \in Nat /\ stalls[j] \in Nat
  BY QueueAssumption DEF IInv, QueueTypeOK, Tries
<1>2. job[j] \in {"waiting", "active", "delayed"} =>
        made[j] + stalls[j] + 1 <= Tries
  BY <1>1, QueueAssumption DEF IInv, LiveInv, Tries
<1>3. Left(j) \in Nat
  BY <1>1, <1>2 DEF Left
<1> QED
  BY <1>1, <1>3

LEMMA SendsInit == Init => SendsInv
<1> SUFFICES ASSUME Init, NEW j \in MailJobs
             PROVE  Paid(j)
  BY DEF SendsInv
<1>1. j \in Jobs
  BY QueueAssumption
<1>2. Runs(j) = {}
  BY DEF Init, Runs, IdleSlot
<1>3. Cardinality(Runs(j)) = 0
  BY <1>2, FS_EmptySet
<1>4. effects[j] = 0 /\ adds[j] = 0 /\ Left(j) = 0
  BY <1>1 DEF Init, Left
<1> QED
  BY <1>3, <1>4, QueueAssumption DEF Paid, Tries

\* A step of one job, or of the slot that has it, that starts no handler and
\* has no effect.
LEMMA SendsQuiet ==
    ASSUME IInv, IInv', NEW j \in Jobs, Paid(j),
           Runs(j)' \subseteq Runs(j),
           effects'[j] = effects[j],
           \/ adds'[j] = adds[j] /\ Left(j)' <= Left(j)
           \/ adds'[j] = adds[j] + 1 /\ Left(j) = 0 /\ Left(j)' <= Tries
    PROVE  Paid(j)'
<1> DEFINE n == Cardinality(Runs(j))
           m == Cardinality(Runs(j)')
<1>1. m \in Nat /\ m <= n /\ n \in Nat
  BY RunsShrink, RunsType
<1>2. /\ effects[j] \in Nat /\ adds[j] \in Nat /\ Tries \in Nat /\ Left(j) \in Nat
      /\ Left(j)' \in Nat
  <2>1. Left(j)' \in Nat
    <3>1. /\ Tries \in Nat /\ made'[j] \in Nat /\ stalls'[j] \in Nat
          /\ job'[j] \in {"waiting", "active", "delayed"} =>
                made'[j] + stalls'[j] + 1 <= Tries
      BY QueueAssumption DEF IInv, QueueTypeOK, LiveInv, Tries
    <3> QED
      BY <3>1 DEF Left
  <2> QED
    BY <2>1, SendsType
<1>3. effects[j] + n + Left(j) <= adds[j] * Tries
  BY DEF Paid
<1>4. CASE adds'[j] = adds[j] /\ Left(j)' <= Left(j)
  <2>1. effects'[j] + m + Left(j)' <= adds'[j] * Tries
    <3> HIDE DEF n, m, Left, Tries, IInv, Paid
    <3> QED
      BY <1>1, <1>2, <1>3, <1>4
  <2> QED
    BY <2>1 DEF Paid, Tries
<1>5. CASE adds'[j] = adds[j] + 1 /\ Left(j) = 0 /\ Left(j)' <= Tries
  <2>1. (adds[j] + 1) * Tries = adds[j] * Tries + Tries
    BY <1>2
  <2>2. adds[j] * Tries \in Nat
    BY <1>2
  <2>3. effects'[j] + m + Left(j)' <= adds'[j] * Tries
    <3> HIDE DEF n, m, Left, Tries, IInv, Paid
    <3> QED
      BY <1>1, <1>2, <1>3, <1>5, <2>1, <2>2
  <2> QED
    BY <2>3 DEF Paid, Tries
<1> QED
  BY <1>4, <1>5

\* Only a handler that has its effect spends what was paid for; taking a job,
\* retrying it, stalls and crashes only move it from one place to another.
LEMMA SendsStep == IInv /\ IInv' /\ SendsInv /\ [Next]_vars => SendsInv'
<1> SUFFICES ASSUME IInv, IInv', SendsInv, [Next]_vars, NEW j \in MailJobs
             PROVE  Paid(j)'
  BY DEF SendsInv
<1>1. j \in Jobs /\ Paid(j)
  BY QueueAssumption DEF SendsInv
<1>2. /\ effects[j] \in Nat /\ adds[j] \in Nat /\ Tries \in Nat /\ Left(j) \in Nat
      /\ made[j] \in Nat /\ stalls[j] \in Nat /\ adds[j] * Tries \in Nat
  BY <1>1, SendsType
<1>t. QueueTypeOK
  BY DEF IInv
<1>3. ASSUME NEW k \in Jobs, Add(k) \/ Remove(k) \/ Promote(k)
      PROVE  Paid(j)'
  <2>1. Runs(j)' = Runs(j) /\ effects'[j] = effects[j]
    BY <1>3 DEF Add, Remove, Promote, Runs
  <2>2. \/ adds'[j] = adds[j] /\ Left(j)' <= Left(j)
        \/ adds'[j] = adds[j] + 1 /\ Left(j) = 0 /\ Left(j)' <= Tries
    BY <1>1, <1>2, <1>t, <1>3
       DEF Add, Remove, Promote, Left, Tries, QueueTypeOK
  <2> QED
    BY <1>1, <2>1, <2>2, SendsQuiet
<1>4. ASSUME NEW k \in Jobs,
             \/ LoseLock(k) \/ Push(k) \/ HandleLetter(k) \/ CloseLetter(k)
      PROVE  Paid(j)'
  <2>1. UNCHANGED <<job, made, stalls, adds, slot, effects>>
    BY <1>4 DEF LoseLock, Push, PushLetter, PushFails, HandleLetter, StoreLetter,
                DropLetter, CloseLetter
  <2> QED
    BY <1>1, <2>1 DEF Paid, Runs, Left
<1>5. ASSUME NEW k \in Jobs, Stall(k)
      PROVE  Paid(j)'
  <2>1. /\ UNCHANGED <<adds, slot, effects>>
        /\ job[k] = "active"
        /\ stalls' = [stalls EXCEPT ![k] = stalls[k] + 1]
        /\ \/ job' = [job EXCEPT ![k] = "waiting"] /\ made' = made
           \/ /\ job' = [job EXCEPT ![k] = "failed"]
              /\ \E n : made' = [made EXCEPT ![k] = n]
    BY <1>5, <1>t DEF Stall, QueueTypeOK
  <2>2. Left(j)' <= Left(j)
    BY <1>1, <1>2, <1>t, <2>1 DEF Left, Tries, QueueTypeOK
  <2>3. Runs(j)' = Runs(j)
    BY <2>1 DEF Runs
  <2> QED
    BY <1>1, <2>1, <2>2, <2>3, SendsQuiet
<1>6. CASE Crash
  <2>1. Runs(j)' = {} /\ UNCHANGED <<job, made, stalls, adds, effects>>
    BY <1>6 DEF Crash, Runs, IdleSlot
  <2>2. Left(j)' = Left(j)
    BY <2>1 DEF Left
  <2> QED
    BY <1>1, <1>2, <2>1, <2>2, SendsQuiet
<1>7. ASSUME NEW s \in Slots, Throw(s) \/ Complete(s) \/ CountAttempt(s)
      PROVE  Paid(j)'
  <2>1. Runs(j)' \subseteq Runs(j) /\ UNCHANGED <<adds, effects, stalls>>
    BY <1>7, <1>t DEF Throw, GoOn, AfterThrow, Complete, CountAttempt, Runs, IdleSlot, QueueTypeOK
  <2>2. Left(j)' <= Left(j)
    <3>1. CASE UNCHANGED <<job, made>>
      BY <1>2, <2>1, <3>1 DEF Left
    <3> DEFINE k == slot[s].job
    <3>2. CASE Complete(s) /\ Owns(s)
      <4>1. job' = [job EXCEPT ![k] = "completed"] /\ made' = made
        BY <3>2 DEF Complete
      <4> HIDE DEF k
      <4> QED
        BY <1>1, <1>2, <1>t, <2>1, <4>1 DEF Left, QueueTypeOK
    <3>3. CASE CountAttempt(s) /\ Owns(s)
      <4>1. k \in Jobs /\ job[k] = "active"
        BY <3>3, QueueAssumption DEF CountAttempt, Owns, IInv, SlotInv, LockInv
      <4>2. PICK st \in {"delayed", "failed"} :
              /\ job' = [job EXCEPT ![k] = st]
              /\ made' = [made EXCEPT ![k] = made[k] + 1]
        BY <3>3, Zenon DEF CountAttempt
      <4> HIDE DEF k
      <4> QED
        BY <1>1, <1>2, <1>t, <2>1, <4>1, <4>2 DEF Left, Tries, QueueTypeOK
    <3> QED
      BY <1>7, <3>1, <3>2, <3>3 DEF Throw, GoOn, Complete, CountAttempt
  <2> QED
    BY <1>1, <2>1, <2>2, SendsQuiet
<1>8. ASSUME NEW s \in Slots, NEW k \in Jobs, Take(s, k)
      PROVE  Paid(j)'
  <2>1. /\ UNCHANGED <<made, stalls, adds, effects>>
        /\ job[k] = "waiting" /\ job' = [job EXCEPT ![k] = "active"]
        /\ slot[s] = IdleSlot /\ slot' = [slot EXCEPT ![s] = [job |-> k, at |-> "running"]]
    BY <1>8 DEF Take
  <2>2. CASE k # j
    <3>1. Runs(j)' \subseteq Runs(j)
      BY <1>t, <2>1, <2>2 DEF Runs, QueueTypeOK
    <3>2. Left(j)' = Left(j)
      BY <1>1, <1>t, <2>1, <2>2 DEF Left, QueueTypeOK
    <3> QED
      BY <1>1, <1>2, <2>1, <3>1, <3>2, SendsQuiet
  <2>3. CASE k = j
    <3>1. Runs(j)' = Runs(j) \cup {s} /\ s \notin Runs(j)
      BY <1>t, <2>1, <2>3 DEF Runs, QueueTypeOK, IdleSlot
    <3>2. Cardinality(Runs(j)') = Cardinality(Runs(j)) + 1
      BY <3>1, RunsType, FS_AddElement
    <3>3. Left(j) = Left(j)' + 1 /\ Left(j)' \in Int
      BY <1>1, <1>2, <1>t, <2>1, <2>3 DEF Left, QueueTypeOK
    <3>4. effects'[j] + Cardinality(Runs(j)') + Left(j)' <= adds'[j] * Tries
      <4>1. Cardinality(Runs(j)) \in Nat
        BY RunsType
      <4>2. effects[j] + Cardinality(Runs(j)) + Left(j) <= adds[j] * Tries
        BY <1>1 DEF Paid
      <4> QED
        BY <1>2, <2>1, <3>2, <3>3, <4>1, <4>2
    <3> QED
      BY <3>4 DEF Paid, Tries
  <2> QED
    BY <2>2, <2>3
<1>9. ASSUME NEW s \in Slots, Send(s)
      PROVE  Paid(j)'
  <2> DEFINE k == slot[s].job
  <2>1. /\ UNCHANGED <<job, made, stalls, adds>>
        /\ slot[s].at = "running"
        /\ slot' = [slot EXCEPT ![s].at = "done"]
        /\ effects' = [effects EXCEPT ![k] = effects[k] + 1]
    BY <1>9 DEF Send, GoOn
  <2>2. Left(j)' = Left(j)
    BY <2>1 DEF Left
  <2>3. Runs(j)' = Runs(j) \ {s}
    BY <1>t, <2>1 DEF Runs, QueueTypeOK
  <2>4. CASE k # j
    BY <1>1, <1>2, <1>t, <2>1, <2>2, <2>3, <2>4, SendsQuiet DEF QueueTypeOK
  <2>5. CASE k = j
    <3>1. effects'[j] = effects[j] + 1
      BY <1>1, <1>t, <2>1, <2>5 DEF QueueTypeOK
    <3>2. Cardinality(Runs(j)') = Cardinality(Runs(j)) - 1
      <4>1. s \in Runs(j) /\ IsFiniteSet(Runs(j))
        BY <2>1, <2>5, RunsType DEF Runs
      <4> HIDE DEF Runs
      <4> QED
        BY <2>3, <4>1, FS_RemoveElement
    <3>3. effects'[j] + Cardinality(Runs(j)') + Left(j)' <= adds'[j] * Tries
      <4>1. Cardinality(Runs(j)) \in Nat
        BY RunsType
      <4>2. effects[j] + Cardinality(Runs(j)) + Left(j) <= adds[j] * Tries
        BY <1>1 DEF Paid
      <4> QED
        BY <1>2, <2>1, <2>2, <3>1, <3>2, <4>1, <4>2
    <3> QED
      BY <3>3 DEF Paid, Tries
  <2> QED
    BY <2>4, <2>5
<1>11. ASSUME NEW s \in Slots, Look(s) \/ Insert(s)
       PROVE  Paid(j)'
  <2>1. slot[s].job # j /\ UNCHANGED <<job, made, stalls, adds>>
    BY <1>11 DEF Look, Insert, GoOn, IInv, SlotInv
  <2>2. Runs(j)' = Runs(j) /\ effects'[j] = effects[j]
    BY <1>1, <1>11, <1>t, <2>1 DEF Look, Insert, GoOn, Runs, QueueTypeOK
  <2>. QED
    BY <1>1, <2>1, <2>2 DEF Paid, Left
<1>10. CASE UNCHANGED vars
  BY <1>1, <1>10 DEF vars, Paid, Runs, Left
<1> QED
  BY <1>3, <1>4, <1>5, <1>6, <1>7, <1>8, <1>9, <1>10, <1>11 DEF Next, Handle, Settle

\* However crashes, lost locks, stalls and retries fall, an id sends at most
\* one mail for each attempt and each tolerated stall of each time it is added.
THEOREM MailsAreBoundedAlways == Spec => []MailsAreBounded
<1>1. IInv /\ SendsInv /\ [Next]_vars => (IInv /\ SendsInv)'
  BY NextInv, SendsStep
<1>2. IInv /\ SendsInv => MailsAreBounded
  <2> SUFFICES ASSUME IInv, SendsInv, NEW j \in MailJobs
               PROVE  effects[j] <= adds[j] * Tries
    BY DEF MailsAreBounded, Tries
  <2>1. Paid(j) /\ j \in Jobs
    BY QueueAssumption DEF SendsInv
  <2>2. /\ effects[j] \in Nat /\ Left(j) \in Nat /\ adds[j] * Tries \in Nat
        /\ Cardinality(Runs(j)) \in Nat
    BY <2>1, SendsType, RunsType
  <2> QED
    BY <2>1, <2>2 DEF Paid
<1> QED
  BY InitInv, SendsInit, <1>1, <1>2, PTL DEF Spec

-----------------------------------------------------------------------------
(* Every code that is stored is mailed (CodeMail), for every limit that is *)
(* longer than a minute by the time a request takes.                       *)

\* The limit lets nobody pass while a request is under way.
OnePending == \A c, d \in Pending : c = d

\* A request is never older than MaxDelay.
PendingIsYoung ==
    /\ passed <= now
    /\ Pending # {} => now <= passed + MaxDelay

\* No job is younger than the last request; while one is under way, all jobs
\* are from minutes before it passed.
JobsAreOld ==
    \A m \in mails :
        /\ m.id <= passed + MaxDelay
        /\ Pending # {} => m.id <= passed - Bucket

MailInv ==
    /\ CodeMailTypeOK
    /\ OnePending
    /\ PendingIsYoung
    /\ JobsAreOld
    /\ EveryCodeIsMailed

-----------------------------------------------------------------------------
\* A moment lies in its minute.
LEMMA MinuteOf ==
  ASSUME NEW t \in Int
  PROVE  Minute(t) \in Int /\ Minute(t) <= t /\ t < Minute(t) + Bucket
BY CodeMailAssumptions DEF Minute

LEMMA MailInit == CodeMailInit => MailInv
BY CodeMailAssumptions
   DEF CodeMailInit, MailInv, CodeMailTypeOK, OnePending, PendingIsYoung, JobsAreOld,
       EveryCodeIsMailed, Pending, MailCall, NoMailCall

\* A request that ends leaves nobody behind.
LEMMA EndsPending ==
  ASSUME MailInv, NEW c \in Pending,
         mailCall' = [mailCall EXCEPT ![c] = NoMailCall]
  PROVE  Pending' = {}
BY DEF MailInv, OnePending, Pending, CodeMailTypeOK, NoMailCall

LEMMA MailPass ==
  ASSUME MailInv, NEW c \in MailCalls, Pass(c)
  PROVE  MailInv'
<1>1. Pending = {}
  BY CodeMailAssumptions DEF MailInv, CodeMailTypeOK, PendingIsYoung, Pass, InWindow
<1>2. Pending' = {c}
  BY <1>1 DEF Pending, Pass, MailInv, CodeMailTypeOK
<1>3. CodeMailTypeOK'
  BY DEF MailInv, CodeMailTypeOK, Pass, MailCall
<1>4. \A m \in mails' : m.id <= passed' - Bucket /\ m.id <= passed' + MaxDelay
  BY CodeMailAssumptions DEF MailInv, CodeMailTypeOK, JobsAreOld, Pass, InWindow
<1> QED
  BY <1>2, <1>3, <1>4, CodeMailAssumptions
     DEF MailInv, CodeMailTypeOK, OnePending, PendingIsYoung, JobsAreOld, EveryCodeIsMailed, Pass

LEMMA MailNoAccount ==
  ASSUME MailInv, NEW c \in MailCalls, NoAccount(c)
  PROVE  MailInv'
<1>1. c \in Pending
  BY DEF Pending, NoAccount
<1>2. Pending' = {}
  BY <1>1, EndsPending DEF NoAccount
<1>3. CodeMailTypeOK'
  BY DEF MailInv, CodeMailTypeOK, NoAccount, MailCall, NoMailCall
<1> QED
  BY <1>2, <1>3
     DEF MailInv, CodeMailTypeOK, OnePending, PendingIsYoung, JobsAreOld, EveryCodeIsMailed, NoAccount

LEMMA MailStoreCode ==
  ASSUME MailInv, NEW c \in MailCalls, StoreCode(c)
  PROVE  MailInv'
<1>1. Pending' = Pending
  BY DEF Pending, StoreCode, MailInv, CodeMailTypeOK
<1>2. CodeMailTypeOK'
  BY DEF MailInv, CodeMailTypeOK, StoreCode, MailCall
<1> QED
  BY <1>1, <1>2
     DEF MailInv, CodeMailTypeOK, OnePending, PendingIsYoung, JobsAreOld, EveryCodeIsMailed, StoreCode

\* The job of the present minute is a new one: all jobs are older than the
\* moment the request passed, less a minute.
LEMMA MailQueueMail ==
  ASSUME MailInv, NEW c \in MailCalls, QueueMail(c)
  PROVE  MailInv'
<1> DEFINE code == mailCall[c].code
           mail == [id |-> Minute(now), code |-> code]
<1>1. c \in Pending
  BY DEF Pending, QueueMail
<1>2. Pending' = {}
  BY <1>1, EndsPending DEF QueueMail
<1>3. now \in Int /\ passed \in Int /\ code \in Nat
  BY DEF MailInv, CodeMailTypeOK, MailCall
<1>4. Minute(now) \in Int /\ Minute(now) <= now /\ now < Minute(now) + Bucket
  BY <1>3, MinuteOf
<1>5. \A m \in mails : m.id # Minute(now)
  <2>1. \A m \in mails : m.id \in Int /\ m.id <= passed - Bucket
    BY <1>1 DEF MailInv, CodeMailTypeOK, JobsAreOld
  <2> QED
    BY <2>1, <1>3, <1>4, CodeMailAssumptions DEF MailInv, PendingIsYoung
<1>6. mails' = mails \cup {mail}
  BY <1>5 DEF QueueMail, Added
<1>m. mail \in [id : Int, code : Nat] /\ mail.id = Minute(now) /\ mail.code = code
  BY <1>3, <1>4
<1>7. CodeMailTypeOK'
  <2> HIDE DEF mail
  <2>1. mails' \subseteq [id : Int, code : Nat]
    BY <1>m, <1>6 DEF MailInv, CodeMailTypeOK
  <2>2. mailCall' \in [MailCalls -> MailCall]
    BY DEF MailInv, CodeMailTypeOK, QueueMail, MailCall, NoMailCall
  <2>3. finished' \subseteq Nat
    BY <1>3 DEF MailInv, CodeMailTypeOK, QueueMail
  <2> QED
    BY <2>1, <2>2, <2>3 DEF MailInv, CodeMailTypeOK, QueueMail
<1>8. JobsAreOld'
  <2> HIDE DEF mail
  <2>1. Minute(now) <= passed + MaxDelay
    BY <1>1, <1>3, <1>4, CodeMailAssumptions DEF MailInv, PendingIsYoung
  <2> QED
    BY <1>2, <1>m, <1>6, <2>1 DEF MailInv, JobsAreOld, QueueMail
<1>9. EveryCodeIsMailed'
  BY <1>6 DEF MailInv, EveryCodeIsMailed, QueueMail
<1> QED
  BY <1>2, <1>7, <1>8, <1>9 DEF MailInv, OnePending, PendingIsYoung, QueueMail

LEMMA MailMailCrash ==
  ASSUME MailInv, MailCrash
  PROVE  MailInv'
<1>1. Pending' = {}
  BY DEF Pending, MailCrash, NoMailCall
<1>2. CodeMailTypeOK'
  BY DEF MailInv, CodeMailTypeOK, MailCrash, MailCall, NoMailCall
<1> QED
  BY <1>1, <1>2
     DEF MailInv, CodeMailTypeOK, OnePending, PendingIsYoung, JobsAreOld, EveryCodeIsMailed, MailCrash

LEMMA MailMailTick ==
  ASSUME MailInv, MailTick
  PROVE  MailInv'
<1>1. Pending' = Pending
  BY DEF Pending, MailTick
<1>2. CodeMailTypeOK'
  BY DEF MailInv, CodeMailTypeOK, MailTick
<1>3. PendingIsYoung'
  BY <1>1, CodeMailAssumptions DEF MailInv, CodeMailTypeOK, PendingIsYoung, MailTick
<1> QED
  BY <1>1, <1>2, <1>3
     DEF MailInv, CodeMailTypeOK, OnePending, JobsAreOld, EveryCodeIsMailed, MailTick

-----------------------------------------------------------------------------
\* The requests of one address never overlap, a request is at most MaxDelay
\* old, and the jobs are from minutes before it.
THEOREM MailInvariant == CodeMailSpec => []MailInv
<1>1. MailInv /\ [CodeMailNext]_mailVars => MailInv'
  <2> SUFFICES ASSUME MailInv, [CodeMailNext]_mailVars
               PROVE  MailInv'
    OBVIOUS
  <2>1. CASE UNCHANGED mailVars
    BY <2>1
       DEF mailVars, MailInv, CodeMailTypeOK, OnePending, PendingIsYoung, JobsAreOld,
           EveryCodeIsMailed, Pending
  <2>2. ASSUME NEW c \in MailCalls, Pass(c) \/ NoAccount(c) \/ StoreCode(c) \/ QueueMail(c)
        PROVE  MailInv'
    BY <2>2, MailPass, MailNoAccount, MailStoreCode, MailQueueMail
  <2> QED
    BY <2>1, <2>2, MailMailCrash, MailMailTick DEF CodeMailNext
<1> QED
  BY MailInit, <1>1, PTL DEF CodeMailSpec

\* The code of every reset request that came to its end is in a mail, although
\* the queue drops a job whose minute is taken.
THEOREM EveryCodeIsMailedAlways == CodeMailSpec => []EveryCodeIsMailed
<1>1. MailInv => EveryCodeIsMailed
  BY DEF MailInv
<1> QED
  BY MailInvariant, <1>1, PTL
=============================================================================

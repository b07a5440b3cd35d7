--------------------------- MODULE OverlapProofs ---------------------------
(***************************************************************************)
(* What a write does to the requests it overtakes.                         *)
(***************************************************************************)
EXTENDS Overlap, TLAPS

Overtaken(call) == [call EXCEPT !.raced = TRUE]

\* After a write every other request is overtaken; after none it is as before.
LEMMA EndedCalls ==
  ASSUME NEW Calls, NEW Call, NEW calls \in [Calls -> Call], NEW c \in Calls,
         NEW wrote \in BOOLEAN, NoCall \in Call,
         \A k \in Call \ {NoCall} : Overtaken(k) \in Call /\ Overtaken(k).raced
  PROVE  /\ Ended(calls, c, wrote) \in [Calls -> Call]
         /\ \A d \in Calls :
                \/ Ended(calls, c, wrote)[d] = NoCall
                \/ wrote /\ Ended(calls, c, wrote)[d].raced
                \/ ~wrote /\ Ended(calls, c, wrote)[d] = calls[d]
<1>1. Ended(calls, c, wrote) =
          [d \in Calls |-> IF d = c THEN NoCall
                           ELSE IF calls[d] = NoCall \/ ~wrote THEN calls[d]
                           ELSE Overtaken(calls[d])]
  BY DEF Ended, Overtaken
<1> QED
  BY <1>1
=============================================================================

------------------------------ MODULE Overlap ------------------------------
(***************************************************************************)
(* Requests of handlers that read and decide in one statement and write in *)
(* a later one.  What a request has decided is a record; raced says that   *)
(* another request wrote the table since.                                  *)
(***************************************************************************)
EXTENDS Functions, TLC

NoCall == [at |-> "idle"]

\* Request c takes a decision, which no write has overtaken yet.
Decided(calls, c, decision) == [calls EXCEPT ![c] = decision]

\* Request c ends; if it wrote, the requests that have decided are overtaken.
Ended(calls, c, wrote) ==
    [d \in DOMAIN calls |->
        IF d = c THEN NoCall
        ELSE IF calls[d] = NoCall \/ ~wrote THEN calls[d]
        ELSE [calls[d] EXCEPT !.raced = TRUE]]

\* Table t with a row added or replaced, and without one.
With(t, id, row) == [k \in DOMAIN t \cup {id} |-> IF k = id THEN row ELSE t[k]]
Without(t, id) == Restrict(t, DOMAIN t \ {id})
=============================================================================

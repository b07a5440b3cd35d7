------------------------------- MODULE Books -------------------------------
(***************************************************************************)
(* Books, their chapters, and the audit entry each change of them asks     *)
(* for.  A handler reads and checks, writes in a later statement, and then *)
(* adds an entry to the audit queue, of the success or, in its catch block,*)
(* of the failure; a queue that refuses the entry is only logged.  What    *)
(* the entry says, and what the queue does with it, is not modelled here.  *)
(***************************************************************************)
EXTENDS Overlap, Integers, FiniteSets

CONSTANTS
    BookIds, ChapterIds,
    CustomIds,           \* Book.customId, which administrators choose
    Orders,              \* Chapter.order
    Same,                \* a field the request leaves out
    BookCalls

ASSUME BookAssumptions ==
    /\ Same \notin BookIds \cup CustomIds \cup Orders
    /\ IsFiniteSet(BookCalls)

VARIABLES
    book,         \* the Book rows
    chapter,      \* the Chapter rows
    bookUsed,     \* ids of books and chapters given out so far
    chapterUsed,
    bookCall,
    owed,         \* history: changes made, less those whose entry was added,
                  \* refused by the queue, or lost in a crash
    forgotten     \* history: chapters removed by a statement whose answer was lost

bookVars == <<book, chapter, bookUsed, chapterUsed, bookCall, owed, forgotten>>

-----------------------------------------------------------------------------
\* History fields of a chapter: raced, as its order was checked and written
\* other requests wrote; moved, it came from another book since it was checked.
ChapterRow == [book : BookIds, order : Orders, raced : BOOLEAN, moved : BOOLEAN]

AllBooks == DOMAIN book
Chapters == DOMAIN chapter

BooksInit ==
    /\ book = <<>> /\ chapter = <<>>
    /\ bookUsed = {} /\ chapterUsed = {}
    /\ bookCall = [c \in BookCalls |-> NoCall]
    /\ owed = 0
    /\ forgotten = {}

\* The request is done but for its audit entry; did is history, and says
\* whether it wrote.
Logging(did) == [at |-> "log", did |-> did, raced |-> FALSE]

BookDecide(c, decision) ==
    /\ bookCall[c] = NoCall
    /\ bookCall' = Decided(bookCall, c, decision)
    /\ UNCHANGED <<book, chapter, bookUsed, chapterUsed, owed, forgotten>>

\* The statement succeeded and nothing enters it.
WroteUnlogged(c) ==
    /\ bookCall' = Ended(bookCall, c, TRUE)
    /\ owed' = owed + 1
    /\ UNCHANGED forgotten

\* The statement succeeded: an entry follows, of a failure when its answer was
\* lost and the handler sees an error.
Wrote(c) ==
    /\ bookCall' = [Ended(bookCall, c, TRUE) EXCEPT ![c] = Logging(TRUE)]
    /\ owed' = owed + 1
    /\ UNCHANGED forgotten

\* A check or the statement failed inside the try block.
Refused(c) ==
    /\ bookCall' = [bookCall EXCEPT ![c] = Logging(FALSE)]
    /\ UNCHANGED <<book, chapter, bookUsed, chapterUsed, owed, forgotten>>

-----------------------------------------------------------------------------
(* Books.                                                                  *)

CustomTaken(id, custom) == \E b \in AllBooks \ {id} : book[b] = custom

BookCreateRead(c, custom) ==
    \/ /\ ~CustomTaken(Same, custom)
       /\ BookDecide(c, [at |-> "bookCreate", custom |-> custom, raced |-> FALSE])
    \/ /\ CustomTaken(Same, custom) /\ bookCall[c] = NoCall
       /\ Refused(c)

BookCreate(c) ==
    /\ bookCall[c].at = "bookCreate"
    /\ ~CustomTaken(Same, bookCall[c].custom)
    /\ \E id \in BookIds \ bookUsed :
           /\ bookUsed' = bookUsed \cup {id}
           /\ book' = With(book, id, bookCall[c].custom)
    /\ Wrote(c)
    /\ UNCHANGED <<chapter, chapterUsed>>

\* A book that does not exist is answered before the try block: no entry.
BookUpdateRead(c, id, custom) ==
    /\ id \in AllBooks
    /\ \/ /\ custom = Same \/ ~CustomTaken(id, custom)
          /\ BookDecide(c, [at |-> "bookUpdate", id |-> id, custom |-> custom, raced |-> FALSE])
       \/ /\ custom # Same /\ CustomTaken(id, custom) /\ bookCall[c] = NoCall
          /\ Refused(c)

BookUpdate(c) ==
    LET call == bookCall[c]
    IN  /\ call.at = "bookUpdate"
        /\ call.id \in AllBooks
        /\ call.custom = Same \/ ~CustomTaken(call.id, call.custom)
        /\ book' = IF call.custom = Same THEN book ELSE With(book, call.id, call.custom)
        /\ Wrote(c)
        /\ UNCHANGED <<chapter, bookUsed, chapterUsed>>

BookRemoveRead(c, id) ==
    /\ id \in AllBooks
    /\ BookDecide(c, [at |-> "bookRemove", id |-> id, raced |-> FALSE])

\* A foreign key without cascade keeps a book that has chapters.
BookRemove(c) ==
    /\ bookCall[c].at = "bookRemove"
    /\ bookCall[c].id \in AllBooks
    /\ \A k \in Chapters : chapter[k].book # bookCall[c].id
    /\ book' = Without(book, bookCall[c].id)
    /\ Wrote(c)
    /\ UNCHANGED <<chapter, bookUsed, chapterUsed>>

-----------------------------------------------------------------------------
(* Chapters.                                                               *)

\* The order is not looked up.
OrderTakenByNone(b, order) == FALSE

OrderTaken(b, order) == \E k \in Chapters : chapter[k].book = b /\ chapter[k].order = order

ChapterCreateRead(c, b, order) ==
    \/ /\ b \in AllBooks /\ ~OrderTaken(b, order)
       /\ BookDecide(c, [at |-> "chapterCreate", book |-> b, order |-> order, raced |-> FALSE])
    \/ /\ b \notin AllBooks \/ OrderTaken(b, order)
       /\ bookCall[c] = NoCall
       /\ Refused(c)

ChapterCreate(c) ==
    LET call == bookCall[c]
    IN  /\ call.at = "chapterCreate"
        /\ call.book \in AllBooks
        /\ \E id \in ChapterIds \ chapterUsed :
               /\ chapterUsed' = chapterUsed \cup {id}
               /\ chapter' = With(chapter, id, [book |-> call.book, order |-> call.order,
                                                raced |-> call.raced, moved |-> FALSE])
        /\ Wrote(c)
        /\ UNCHANGED <<book, bookUsed>>

\* Only an order that changes is looked up, and in the book the chapter is in,
\* not the one it may be moved to.
ChapterUpdateRead(c, id, b, order) ==
    /\ id \in Chapters
    /\ LET checked == order # Same /\ order # chapter[id].order
       IN  \/ /\ ~checked \/ ~OrderTaken(chapter[id].book, order)
              /\ BookDecide(c, [at |-> "chapterUpdate", id |-> id, book |-> b,
                                order |-> order, checked |-> checked, raced |-> FALSE])
           \/ /\ checked /\ OrderTaken(chapter[id].book, order) /\ bookCall[c] = NoCall
              /\ Refused(c)

ChapterUpdate(c) ==
    LET call == bookCall[c]
        row == chapter[call.id]
        target == IF call.book = Same THEN row.book ELSE call.book
    IN  /\ call.at = "chapterUpdate"
        /\ call.id \in Chapters
        /\ target \in AllBooks
        /\ chapter' = With(chapter, call.id,
               [book |-> target,
                order |-> IF call.order = Same THEN row.order ELSE call.order,
                raced |-> call.raced \/ (~call.checked /\ row.raced),
                moved |-> target # row.book \/ (~call.checked /\ row.moved)])
        /\ Wrote(c)
        /\ UNCHANGED <<book, bookUsed, chapterUsed>>

ChapterRemoveRead(c, id) ==
    /\ id \in Chapters
    /\ BookDecide(c, [at |-> "chapterRemove", id |-> id, raced |-> FALSE])

\* The catch block of remove adds no entry: an answer that is lost leaves the
\* removal without one.
ChapterRemove(c) ==
    LET id == bookCall[c].id
    IN  /\ bookCall[c].at = "chapterRemove"
        /\ id \in Chapters
        /\ chapter' = Without(chapter, id)
        /\ \/ Wrote(c)
           \/ /\ bookCall' = Ended(bookCall, c, TRUE)
              /\ owed' = owed + 1
              /\ forgotten' = forgotten \cup {id}
        /\ UNCHANGED <<book, bookUsed, chapterUsed>>

-----------------------------------------------------------------------------
\* The statement fails on a constraint or on a row that is gone.
BookFail(c) ==
    LET call == bookCall[c]
    IN  /\ \/ call.at = "bookCreate" /\ CustomTaken(Same, call.custom)
           \/ call.at \in {"bookUpdate", "bookRemove"} /\ call.id \notin AllBooks
           \/ /\ call.at = "bookUpdate" /\ call.custom # Same
              /\ CustomTaken(call.id, call.custom)
           \/ call.at = "bookRemove" /\ \E k \in Chapters : chapter[k].book = call.id
           \/ call.at = "chapterCreate" /\ call.book \notin AllBooks
           \/ call.at = "chapterUpdate" /\ call.id \notin Chapters
           \/ call.at = "chapterUpdate" /\ call.book \notin AllBooks \cup {Same}
        /\ Refused(c)

\* A failed removal of a chapter is not entered.
ChapterRemoveFail(c) ==
    /\ bookCall[c].at = "chapterRemove"
    /\ bookCall[c].id \notin Chapters
    /\ bookCall' = Ended(bookCall, c, FALSE)
    /\ UNCHANGED <<book, chapter, bookUsed, chapterUsed, owed, forgotten>>

\* logAction
LogAction(c) ==
    /\ bookCall[c].at = "log"
    /\ owed' = IF bookCall[c].did THEN owed - 1 ELSE owed
    /\ bookCall' = Ended(bookCall, c, FALSE)
    /\ UNCHANGED <<book, chapter, bookUsed, chapterUsed, forgotten>>

\* An add that the queue refuses: logAction swallows the error.
LogRefused(c) ==
    /\ bookCall[c].at = "log"
    /\ bookCall' = Ended(bookCall, c, FALSE)
    /\ owed' = IF bookCall[c].did THEN owed - 1 ELSE owed
    /\ UNCHANGED <<book, chapter, bookUsed, chapterUsed, forgotten>>

\* The process dies: entries not added yet are lost.
BookCrash ==
    /\ \E c \in BookCalls : bookCall[c] # NoCall
    /\ bookCall' = [c \in BookCalls |-> NoCall]
    /\ owed' = Cardinality(forgotten)
    /\ UNCHANGED <<book, chapter, bookUsed, chapterUsed, forgotten>>

BooksNext ==
    \/ \E c \in BookCalls :
           \/ \E custom \in CustomIds : BookCreateRead(c, custom)
           \/ \E id \in BookIds, custom \in CustomIds \cup {Same} : BookUpdateRead(c, id, custom)
           \/ \E id \in BookIds : BookRemoveRead(c, id)
           \/ \E b \in bookUsed, order \in Orders : ChapterCreateRead(c, b, order)
           \/ \E id \in ChapterIds, b \in bookUsed \cup {Same},
                 order \in Orders \cup {Same} : ChapterUpdateRead(c, id, b, order)
           \/ \E id \in ChapterIds : ChapterRemoveRead(c, id)
           \/ BookCreate(c) \/ BookUpdate(c) \/ BookRemove(c)
           \/ ChapterCreate(c) \/ ChapterUpdate(c) \/ ChapterRemove(c)
           \/ BookFail(c) \/ ChapterRemoveFail(c)
           \/ LogAction(c) \/ LogRefused(c)
    \/ BookCrash

BooksSpec == BooksInit /\ [][BooksNext]_bookVars

-----------------------------------------------------------------------------
(* Properties.                                                             *)

\* A change that no entry tells of is still about to be entered by its request,
\* or was lost in one of three ways: a crash took the request, the queue refused
\* the entry, or the answer to the removal of a chapter was lost, which remove
\* does not enter as any other handler does.
ChangesAreAudited ==
    owed = Cardinality({c \in BookCalls : bookCall[c].at = "log" /\ bookCall[c].did})
           + Cardinality(forgotten)

\* Two chapters of a book have the same order only when one of them was
\* written by a request that was overtaken, or came from another book: the
\* order is checked in the book that a chapter leaves, and no index backs it.
ChapterOrdersDiffer ==
    \A k, l \in Chapters :
        k # l /\ chapter[k].book = chapter[l].book /\ chapter[k].order = chapter[l].order
            => \E m \in {k, l} : chapter[m].raced \/ chapter[m].moved
=============================================================================

------------------------------ MODULE Listing ------------------------------
(***************************************************************************)
(* A client that reads a table page by page, as the list commands of       *)
(* cmd/client do with --page and --size, and then row by row, while other  *)
(* calls insert and delete rows.  Nothing ties the pages of a reader to    *)
(* each other.  created_at is set by the API server before the row is      *)
(* inserted, so rows appear in any order near the newest end.              *)
(***************************************************************************)
EXTENDS Lists

CONSTANTS
    Kinds,         \* the lists that are read
    Sizes,         \* page sizes a client asks for
    MaxRows        \* bound: rows a behaviour inserts

\* What the constants are; a module that instantiates this one states it.
Assumptions ==
    /\ PageSizes
    /\ Kinds \subseteq DOMAIN ListOf
    /\ Sizes \subseteq Int
    /\ MaxRows \in Nat

-----------------------------------------------------------------------------
VARIABLES
    kind,       \* the list that is read
    row,        \* row[n]: what became of row n
    reader      \* the client that reads page after page

vars == <<kind, row, reader>>

Rows == 1..MaxRows

Live == {n \in Rows : row[n] = "live"}

\* throughout: rows that are there since the reading began; told: rows that were
\* on a page; deleted: history, rows deleted since; answers: what Get answered.
Reader == [pc : {"idle", "reading", "done"}, size : Sizes, page : 1..(MaxRows + 1),
           throughout : SUBSET Rows, told : SUBSET Rows, deleted : SUBSET Rows,
           answers : SUBSET {"OK", "NotFound", "Internal"}]

\* created_at is taken; the row is not there yet.
Stamp(n) ==
    /\ row[n] = "none"
    /\ \A m \in Rows : m < n => row[m] # "none"
    /\ row' = [row EXCEPT ![n] = "stamped"]
    /\ UNCHANGED <<kind, reader>>

Insert(n) ==
    /\ row[n] = "stamped"
    /\ row' = [row EXCEPT ![n] = "live"]
    /\ UNCHANGED <<kind, reader>>

Delete(n) ==
    /\ ListOf[kind].deletes
    /\ row[n] = "live"
    /\ row' = [row EXCEPT ![n] = "deleted"]
    /\ reader' = [reader EXCEPT !.throughout = @ \ {n},
                                !.deleted = IF reader.pc = "reading" THEN @ \cup {n} ELSE @]
    /\ UNCHANGED kind

StartReading(size) ==
    /\ reader.pc = "idle"
    /\ reader' = [reader EXCEPT !.pc = "reading", !.size = size, !.throughout = Live]
    /\ UNCHANGED <<kind, row>>

\* The page that was asked for; the reader stops at the first that is empty.
ReadPage ==
    LET page == Page(Live, kind, reader.page, reader.size) IN
    /\ reader.pc = "reading"
    /\ reader' = [reader EXCEPT !.pc = IF page = {} THEN "done" ELSE "reading",
                                !.page = IF page = {} THEN @ ELSE @ + 1,
                                !.told = @ \cup page]
    /\ UNCHANGED <<kind, row>>

\* Get, for a row the reader was told of.
ReadRow(n) ==
    /\ n \in reader.told
    /\ reader' = [reader EXCEPT !.answers =
                     @ \cup {IF row[n] = "live" THEN "OK" ELSE ListOf[kind].missing}]
    /\ UNCHANGED <<kind, row>>

-----------------------------------------------------------------------------
Init ==
    /\ kind \in Kinds
    /\ row = [n \in Rows |-> "none"]
    /\ reader \in {[pc |-> "idle", size |-> s, page |-> 1, throughout |-> {}, told |-> {},
                    deleted |-> {}, answers |-> {}] : s \in Sizes}

Next ==
    \/ \E n \in Rows : Stamp(n) \/ Insert(n) \/ Delete(n) \/ ReadRow(n)
    \/ \E s \in Sizes : StartReading(s)
    \/ ReadPage

Spec == Init /\ [][Next]_vars

-----------------------------------------------------------------------------
(* Properties *)

\* A client that reads page after page to the end gets every row that was there
\* all the time, however many rows are inserted meanwhile, and whatever size it
\* asks for: only the deletion of a newer row can shift a row over the end of a
\* page that was read (service/target.go:148-179 and the other services).  And
\* the internal error Release.Get answers with for a release that is not there
\* (service/release.go:75) is out of reach of who asks for releases it was told
\* of, since no call deletes a release.
ReaderIsServed ==
    /\ reader.pc = "done" =>
          \A n \in reader.throughout \ reader.told : \E m \in reader.deleted : m > n
    /\ "Internal" \notin reader.answers

=============================================================================

-------------------------------- MODULE Keyset --------------------------------
(***************************************************************************)
(* Keyset pagination as the readers of the chat and blog features write it *)
(* in SQL:                                                                 *)
(*                                                                         *)
(*     where (key, id) < (cursor.key, cursor.id)                           *)
(*     order by key desc, id desc  limit n                                 *)
(*                                                                         *)
(* A row is a record with a key and an id, both integers; an ascending     *)
(* listing is one of the negated keys and ids.  A cursor is optional: the  *)
(* empty set, or the set of the row it names.                              *)
(***************************************************************************)
EXTENDS Integers, FiniteSets

Row == [key : Int, id : Int]

(* Row p is listed before row q: (q.key, q.id) < (p.key, p.id). *)
Before(p, q) == p.key > q.key \/ (p.key = q.key /\ p.id > q.id)

(* The rows below the cursor, all of them if there is none. *)
Below(rows, cursor) == {p \in rows : \A c \in cursor : Before(c, p)}

(* The first n of the rows below the cursor. *)
Slice(rows, cursor, n) ==
    LET below == Below(rows, cursor)
    IN  {p \in below : Cardinality({q \in below : Before(q, p)}) < n}

(* Mutant: the first row of a page is taken for its last. *)
IsFirst(p, page) == p \in page /\ \A q \in page : q = p \/ Before(p, q)

(* items.at(-1) *)
IsLast(p, page) == p \in page /\ \A q \in page : q = p \/ Before(q, p)

(* XxxCursorPagination.from: limits from MIN_LIMIT to MAX_LIMIT. *)
ValidLimit(n) == n \in 1 .. 100
===============================================================================

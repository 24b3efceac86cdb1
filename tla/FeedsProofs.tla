----------------------------- MODULE FeedsProofs -----------------------------
(***************************************************************************)
(* Lemmas about keyset pagination, and theorems about Feeds, for any ids,  *)
(* names, times, page sizes and clock resolution.                          *)
(***************************************************************************)
EXTENDS Feeds, FiniteSetTheorems, FunctionTheorems, WellFoundedInduction, TLAPS

-----------------------------------------------------------------------------
(* Pages *)

LEMMA BeforeIsOrder ==
    ASSUME NEW p \in Row, NEW q \in Row
    PROVE  /\ ~Before(p, p)
           /\ ~(Before(p, q) /\ Before(q, p))
           /\ p = q \/ Before(p, q) \/ Before(q, p)
           /\ \A r \in Row : Before(p, q) /\ Before(q, r) => Before(p, r)
<1>1. /\ p.key \in Int /\ p.id \in Int /\ q.key \in Int /\ q.id \in Int
      /\ p.key = q.key /\ p.id = q.id => p = q
    BY DEF Row
<1>2. \A r \in Row : r.key \in Int /\ r.id \in Int
    BY DEF Row
<1> QED
    BY <1>1, <1>2 DEF Before

(* The rows below the cursor that are listed before p. *)
Preceding(rows, from, p) == {q \in Below(rows, from) : Before(q, p)}

LEMMA PrecedingCount ==
    ASSUME NEW rows, IsFiniteSet(rows), NEW from, NEW p
    PROVE  /\ IsFiniteSet(Preceding(rows, from, p))
           /\ Cardinality(Preceding(rows, from, p)) \in Nat
    BY FS_Subset, FS_CardinalityType DEF Preceding, Below

LEMMA SliceOfPreceding ==
    ASSUME NEW rows, NEW from, NEW n
    PROVE  Slice(rows, from, n) =
            {p \in Below(rows, from) : Cardinality(Preceding(rows, from, p)) < n}
    BY DEF Slice, Preceding

(* A page is the head of what is below the cursor: the rest comes after    *)
(* every row of it.                                                        *)
LEMMA SliceIsHead ==
    ASSUME NEW rows \in SUBSET Row, IsFiniteSet(rows), NEW from, NEW n \in Nat,
           NEW q \in Slice(rows, from, n),
           NEW p \in Below(rows, from) \ Slice(rows, from, n)
    PROVE  Before(q, p)
<1>1. /\ p \in Row /\ q \in Row /\ p # q
      /\ q \in Below(rows, from)
      /\ Cardinality(Preceding(rows, from, q)) < n
      /\ ~(Cardinality(Preceding(rows, from, p)) < n)
    BY SliceOfPreceding DEF Below
<1>2. SUFFICES ASSUME Before(p, q) PROVE FALSE
    BY <1>1, BeforeIsOrder
<1>3. Preceding(rows, from, p) \subseteq Preceding(rows, from, q)
    BY <1>1, <1>2, BeforeIsOrder DEF Preceding, Below
<1>4. Cardinality(Preceding(rows, from, p)) <= Cardinality(Preceding(rows, from, q))
    BY <1>3, PrecedingCount, FS_Subset
<1> QED
    BY <1>1, <1>4, PrecedingCount

(* Among some of finitely many rows one is listed before the others, and   *)
(* one after them.                                                         *)
LEMMA PrecedingGrows ==
    ASSUME NEW rows \in SUBSET Row, IsFiniteSet(rows), NEW from,
           NEW p \in Below(rows, from), NEW q \in Below(rows, from), Before(q, p)
    PROVE  Cardinality(Preceding(rows, from, q)) < Cardinality(Preceding(rows, from, p))
<1>1. p \in Row /\ q \in Row
    BY DEF Below
<1>2. Preceding(rows, from, q) \subseteq Preceding(rows, from, p)
    BY <1>1, BeforeIsOrder DEF Preceding, Below
<1>3. q \in Preceding(rows, from, p) /\ q \notin Preceding(rows, from, q)
    BY <1>1, BeforeIsOrder DEF Preceding
<1>4. /\ Cardinality(Preceding(rows, from, q)) <= Cardinality(Preceding(rows, from, p))
      /\ Cardinality(Preceding(rows, from, q)) # Cardinality(Preceding(rows, from, p))
    BY <1>2, <1>3, PrecedingCount, FS_Subset
<1> QED
    BY <1>4, PrecedingCount

LEMMA LeastOf ==
    ASSUME NEW S, S # {}, NEW f \in [S -> Nat]
    PROVE  \E p \in S : \A q \in S : f[p] <= f[q]
<1> DEFINE counts == {f[p] : p \in S}
<1>1. counts \subseteq Nat /\ counts # {}
    OBVIOUS
<1>2. PICK k \in counts : \A j \in counts : ~(<<j, k>> \in OpToRel(<, Nat))
    BY <1>1, NatLessThanWellFounded, WFMin
<1>3. PICK p \in S : k = f[p]
    OBVIOUS
<1>4. ASSUME NEW q \in S PROVE f[p] <= f[q]
  <2>1. SUFFICES ASSUME f[q] < f[p] PROVE FALSE
      OBVIOUS
  <2>2. <<f[q], k>> \in Nat \X Nat /\ <<f[q], k>>[1] < <<f[q], k>>[2]
      BY <1>3, <2>1
  <2>3. <<f[q], k>> \in OpToRel(<, Nat)
      BY <2>2, Zenon DEF OpToRel
  <2> QED
      BY <1>2, <2>3
<1> QED
    BY <1>4

ComesFirst(p, S) == p \in S /\ \A q \in S : q = p \/ Before(p, q)

LEMMA FirstRow ==
    ASSUME NEW rows \in SUBSET Row, IsFiniteSet(rows), NEW from,
           NEW S \in SUBSET Below(rows, from), S # {}
    PROVE  \E p \in S : ComesFirst(p, S)
<1> DEFINE count == [p \in S |-> Cardinality(Preceding(rows, from, p))]
<1>1. PICK p \in S : \A q \in S : count[p] <= count[q]
  <2>1. count \in [S -> Nat]
      BY PrecedingCount
  <2> HIDE DEF count
  <2> QED
      BY <2>1, LeastOf
<1>2. ASSUME NEW q \in S, q # p PROVE Before(p, q)
  <2>1. p \in Row /\ q \in Row /\ p \in Below(rows, from) /\ q \in Below(rows, from)
      BY DEF Below
  <2>2. ~Before(q, p)
      BY <1>1, <2>1, PrecedingGrows, PrecedingCount
  <2> QED
      BY <1>2, <2>1, <2>2, BeforeIsOrder
<1> QED
    BY <1>2 DEF ComesFirst

LEMMA LastRow ==
    ASSUME NEW rows \in SUBSET Row, IsFiniteSet(rows), NEW from, NEW n \in Nat,
           Slice(rows, from, n) # {}
    PROVE  \E p : IsLast(p, Slice(rows, from, n))
<1> DEFINE S == Slice(rows, from, n)
           count(p) == Cardinality(Preceding(rows, from, p))
           left == [p \in S |-> n - count(p)]
<1>1. \A p \in S : p \in Below(rows, from) /\ count(p) \in Nat /\ count(p) < n
    BY SliceOfPreceding, PrecedingCount
<1>2. left \in [S -> Nat] /\ \A p \in S : left[p] = n - count(p)
  <2> HIDE DEF count
  <2> QED
      BY <1>1
<1>3. PICK p \in S : \A q \in S : left[p] <= left[q]
  <2> HIDE DEF left
  <2> QED
      BY <1>2, LeastOf
<1>4. ASSUME NEW q \in S, q # p PROVE Before(q, p)
  <2>1. p \in Row /\ q \in Row /\ p \in Below(rows, from) /\ q \in Below(rows, from)
      BY <1>1 DEF Below
  <2>2. count(q) <= count(p)
    <3> HIDE DEF count, left
    <3> QED
        BY <1>1, <1>2, <1>3, <1>4
  <2>3. ~Before(p, q)
      BY <1>1, <2>1, <2>2, PrecedingGrows
  <2> QED
      BY <1>4, <2>1, <2>3, BeforeIsOrder
<1> QED
    BY <1>4 DEF IsLast

(* A page is empty only if nothing is left. *)
LEMMA EmptySliceIsEnd ==
    ASSUME NEW rows \in SUBSET Row, IsFiniteSet(rows), NEW from, NEW n \in Nat \ {0},
           Slice(rows, from, n) = {}
    PROVE  Below(rows, from) = {}
<1>1. SUFFICES ASSUME Below(rows, from) # {} PROVE FALSE
    OBVIOUS
<1>2. PICK p \in Below(rows, from) : ComesFirst(p, Below(rows, from))
    BY <1>1, FirstRow
<1>3. ASSUME NEW q \in Preceding(rows, from, p) PROVE FALSE
  <2>1. q \in Below(rows, from) /\ p \in Row /\ q \in Row /\ Before(q, p)
      BY DEF Preceding, Below
  <2> QED
      BY <1>2, <2>1, BeforeIsOrder DEF ComesFirst
<1>4. Cardinality(Preceding(rows, from, p)) = 0
    BY <1>3, FS_EmptySet
<1> QED
    BY <1>4, SliceOfPreceding

(* A page has no more rows than its limit, and fewer only if it is the     *)
(* last: "limit n" of the readers, which is counted here.                  *)
THEOREM PageSize ==
    ASSUME NEW rows \in SUBSET Row, IsFiniteSet(rows), NEW from, NEW n \in Nat
    PROVE  LET page == Slice(rows, from, n)
           IN  /\ Cardinality(page) <= n
               /\ page # Below(rows, from) => Cardinality(page) = n
<1> DEFINE page == Slice(rows, from, n)
           rest == Below(rows, from) \ page
           count(p) == Cardinality(Preceding(rows, from, p))
<1>1. /\ page \subseteq Below(rows, from) /\ Below(rows, from) \subseteq Row
      /\ IsFiniteSet(page) /\ Cardinality(page) \in Nat
    BY SliceOfPreceding, FS_Subset, FS_CardinalityType DEF Below
<1>2. Cardinality(page) <= n
  <2>1. CASE page = {}
      BY <2>1, FS_EmptySet
  <2>2. CASE page # {}
    <3>1. PICK p : IsLast(p, page)
        BY <2>2, LastRow
    <3>2. p \in Below(rows, from) /\ p \in Row /\ count(p) < n
        BY <3>1, SliceOfPreceding DEF IsLast, Below
    <3>3. page \subseteq Preceding(rows, from, p) \cup {p} /\ p \notin Preceding(rows, from, p)
        BY <1>1, <3>1, <3>2, BeforeIsOrder DEF IsLast, Preceding
    <3>4. /\ IsFiniteSet(Preceding(rows, from, p) \cup {p})
          /\ Cardinality(Preceding(rows, from, p) \cup {p}) = count(p) + 1
        BY <3>3, PrecedingCount, FS_AddElement
    <3>5. Cardinality(page) <= count(p) + 1
        BY <3>3, <3>4, FS_Subset
    <3>6. count(p) \in Nat
        BY PrecedingCount
    <3> HIDE DEF count, page
    <3> QED
        BY <1>1, <3>2, <3>5, <3>6
  <2> QED
      BY <2>1, <2>2
<1>3. ASSUME page # Below(rows, from) PROVE n <= Cardinality(page)
  <2>1. rest \subseteq Below(rows, from) /\ rest # {}
      BY <1>1, <1>3
  <2>2. PICK p \in rest : ComesFirst(p, rest)
      BY <2>1, FirstRow
  <2>3. p \in Row /\ ~(count(p) < n)
      BY <1>1, SliceOfPreceding
  <2>4. ASSUME NEW q \in Preceding(rows, from, p) PROVE q \in page
    <3>1. q \in Below(rows, from) /\ q \in Row /\ Before(q, p)
        BY <1>1 DEF Preceding
    <3>2. q \notin rest
        BY <2>2, <2>3, <3>1, BeforeIsOrder DEF ComesFirst
    <3> QED
        BY <3>1, <3>2
  <2>5. count(p) \in Nat /\ count(p) <= Cardinality(page)
      BY <1>1, <2>4, PrecedingCount, FS_Subset
  <2> HIDE DEF count, page
  <2> QED
      BY <1>1, <2>3, <2>5
<1> QED
    BY <1>1, <1>2, <1>3

(* If the cursor is the last row of a page, then the next pages have what  *)
(* this page left of its own, no less and no more: the row comparison of   *)
(* the readers fits their order.                                           *)
THEOREM PagesPartition ==
    ASSUME NEW rows \in SUBSET Row, IsFiniteSet(rows), NEW from \in SUBSET Row, NEW n \in Nat,
           NEW p, IsLast(p, Slice(rows, from, n))
    PROVE  Below(rows, {p}) = Below(rows, from) \ Slice(rows, from, n)
<1>1. p \in Slice(rows, from, n) /\ p \in Below(rows, from) /\ p \in Row
    BY SliceOfPreceding DEF IsLast, Below
<1>2. ASSUME NEW q \in Below(rows, from) \ Slice(rows, from, n) PROVE q \in Below(rows, {p})
    BY <1>1, <1>2, SliceIsHead DEF Below
<1>3. ASSUME NEW q \in Below(rows, {p})
      PROVE  q \in Below(rows, from) /\ q \notin Slice(rows, from, n)
  <2>1. q \in rows /\ q \in Row /\ Before(p, q)
      BY DEF Below
  <2>2. \A c \in from : Before(c, q)
      BY <1>1, <2>1, BeforeIsOrder DEF Below
  <2>3. q \notin Slice(rows, from, n)
      BY <1>1, <2>1, BeforeIsOrder DEF IsLast
  <2> QED
      BY <2>1, <2>2, <2>3 DEF Below
<1> QED
    BY <1>2, <1>3

LEMMA MultGap ==
    ASSUME NEW n \in Nat \ {0}, NEW a \in Int, NEW b \in Int, a < b
    PROVE  n * a + n <= n * b
<1>1. n * (b - a - 1) >= 0
    OBVIOUS
<1>2. n * (b - a - 1) = n * b - n * a - n
    OBVIOUS
<1> QED
    BY <1>1, <1>2

(* A Date holds a whole number of milliseconds. *)
LEMMA ToDateMultiple ==
    ASSUME NEW t \in Nat
    PROVE  /\ ToDate(t) \in Nat /\ ToDate(t) <= t /\ t < ToDate(t) + Millisecond
           /\ \E a \in Int : ToDate(t) = Millisecond * a
<1>1. Millisecond \in Nat \ {0}
    BY TimeAssumption
<1>2. PICK q \in Nat, r \in 0 .. Millisecond - 1 :
        t = Millisecond * q + r /\ t % Millisecond = r
    BY <1>1
<1>3. ToDate(t) = Millisecond * q
    BY <1>1, <1>2 DEF ToDate
<1>4. Millisecond * q \in Nat
    BY <1>1
<1> QED
    BY <1>1, <1>2, <1>3, <1>4

(* Times that a Date and its time have between them become that Date. *)
LEMMA ToDateBetween ==
    ASSUME NEW t \in Nat, NEW k \in Nat, ToDate(t) <= k, k <= t
    PROVE  ToDate(k) = ToDate(t)
<1>1. PICK a \in Int : ToDate(k) = Millisecond * a
    BY ToDateMultiple
<1>2. PICK b \in Int : ToDate(t) = Millisecond * b
    BY ToDateMultiple
<1>3. /\ ToDate(k) \in Nat /\ ToDate(t) \in Nat /\ Millisecond \in Nat \ {0}
      /\ ToDate(k) <= k /\ k < ToDate(k) + Millisecond /\ t < ToDate(t) + Millisecond
    BY ToDateMultiple, TimeAssumption
<1>4. ~(a < b)
  <2>1. SUFFICES ASSUME a < b PROVE FALSE
      OBVIOUS
  <2>2. ToDate(k) + Millisecond <= ToDate(t)
      BY <1>1, <1>2, <1>3, <2>1, MultGap
  <2> QED
      BY <1>3, <2>2
<1>5. ~(b < a)
  <2>1. SUFFICES ASSUME b < a PROVE FALSE
      OBVIOUS
  <2>2. ToDate(t) + Millisecond <= ToDate(k)
      BY <1>1, <1>2, <1>3, <2>1, MultGap
  <2> QED
      BY <1>3, <2>2
<1> QED
    BY <1>1, <1>2, <1>4, <1>5

-----------------------------------------------------------------------------
(* The inductive invariant *)

(* A client that looks at nothing has nothing. *)
Quiet == phase = "closed" => cursor = {} /\ seen = {} /\ lost = {} /\ chat = None

(* Chats, their newest messages and published events refer to one another. *)
Linked ==
    /\ \A c \in Chats : chats[c] # None =>
        /\ messages[chats[c].last] # None
        /\ chats[c].lastAt = ToDate(messages[chats[c].last].at)
    /\ \A m \in Messages : messages[m] # None => chats[messages[m].chat] # None
    /\ \A m \in published : messages[m] # None

CursorShape == cursor = {} \/ \E c \in Row : cursor = {c}

Covered(p) ==
    \/ IdOf(p) \in seen
    \/ phase = "paging" /\ p \in Below(Rows, cursor)
    \/ \E m \in EventsOf(p) : m \notin published \/ m \in backlog
    \/ Excused(p)

IInv ==
    /\ TypeOK
    /\ Quiet
    /\ Linked
    /\ CursorShape
    /\ OnlyMembersSee
    /\ NoRowTwice
    /\ NothingMissed

(* The cursor taken from row i makes the next page skip row p. *)
ImpreciseAfter(i, p) ==
    \/ feed = "chat messages" /\ ToDate(messages[i].at) = ToDate(p.key)
    \/ feed = "blogs" /\ ToDate(blogs[i]) = ToDate(p.key)
    \/ /\ feed = "candidates"
       /\ Lower[i] # ToLowerCase[i] /\ -p.key \in Lower[i] .. ToLowerCase[i]

LEMMA ImpreciseAfterPaged ==
    \A p : CursorImprecise(p) <=> \E i \in paged : ImpreciseAfter(i, p)
    BY DEF CursorImprecise, ImpreciseAfter

LEMMA CoveredSuffices == NothingMissed <=> (phase # "closed" => \A p \in Rows : Covered(p))
    BY DEF NothingMissed, Covered

-----------------------------------------------------------------------------
USE IdsAssumption, NoneAssumption

(* Rows of each feed. *)
LEMMA ChatTypes ==
    ASSUME TypeOK
    PROVE  /\ \A c \in Chats : chats[c] # None =>
                chats[c].last \in Messages /\ chats[c].lastAt \in Nat
           /\ \A m \in Messages : messages[m] # None =>
                messages[m].chat \in Chats /\ messages[m].at \in Times /\ messages[m].at \in Nat
           /\ \A b \in Blogs : blogs[b] # None => blogs[b] \in Nat
           /\ \A u \in Users : Lower[u] \in Int /\ ToLowerCase[u] \in Int /\ Lower[u] <= ToLowerCase[u]
<1>1. /\ chats \in [Chats -> ChatType \cup {None}]
      /\ messages \in [Messages -> MessageType \cup {None}]
      /\ blogs \in [Blogs -> Times \cup {None}]
    BY DEF TypeOK
<1>2. \A t \in Times : t \in Nat /\ ToDate(t) \in Nat
    BY TimeAssumption, ToDateMultiple
<1>3. ASSUME NEW c \in Chats, chats[c] # None
      PROVE  chats[c].last \in Messages /\ chats[c].lastAt \in Nat
  <2>1. chats[c] \in ChatType
      BY <1>1, <1>3
  <2> QED
      BY <1>2, <2>1 DEF ChatType
<1>4. ASSUME NEW m \in Messages, messages[m] # None
      PROVE  messages[m].chat \in Chats /\ messages[m].at \in Times /\ messages[m].at \in Nat
  <2>1. messages[m] \in MessageType
      BY <1>1, <1>4
  <2> QED
      BY <1>2, <2>1 DEF MessageType
<1> QED
    BY <1>1, <1>2, <1>3, <1>4

(* What the rows of each feed are made of. *)
LEMMA ChatRowForm ==
    ASSUME feed = "chat list"
    PROVE  \A p : p \in Rows <=>
            \E c \in Chats : Mine(c) /\ p = [key |-> chats[c].lastAt, id |-> c]
<1>1. Rows = {[key |-> chats[c].lastAt, id |-> c] : c \in {c \in Chats : Mine(c)}}
    BY DEF Rows, ChatRows
<1> QED
    BY <1>1

LEMMA MessageRowForm ==
    ASSUME feed = "chat messages"
    PROVE  \A p : p \in Rows <=>
            \E m \in Messages :
                /\ messages[m] # None /\ messages[m].chat = chat /\ Mine(chat)
                /\ p = [key |-> messages[m].at, id |-> m]
<1>1. Rows = {[key |-> messages[m].at, id |-> m] :
                m \in {m \in Messages : messages[m] # None /\ messages[m].chat = chat /\ Mine(chat)}}
    BY DEF Rows, MessageRows
<1> QED
    BY <1>1

LEMMA CandidateRowForm ==
    ASSUME feed = "candidates"
    PROVE  \A p : p \in Rows <=>
            \E u \in profiles \ {Me} : p = [key |-> -Lower[u], id |-> -u]
<1>1. Rows = {[key |-> -Lower[u], id |-> -u] : u \in profiles \ {Me}}
    BY DEF Rows, CandidateRows
<1> QED
    BY <1>1

LEMMA BlogRowForm ==
    ASSUME feed = "blogs"
    PROVE  \A p : p \in Rows <=>
            \E b \in Blogs : blogs[b] # None /\ p = [key |-> blogs[b], id |-> b]
<1>1. Rows = {[key |-> blogs[b], id |-> b] : b \in {b \in Blogs : blogs[b] # None}}
    BY DEF Rows, BlogRows
<1> QED
    BY <1>1

(* Each row is one of the feed, and its id is that of its item. *)
LEMMA RowsAreRows ==
    ASSUME TypeOK
    PROVE  /\ Rows \subseteq Row
           /\ \A p \in Rows : IdOf(p) \in Users \cup Chats \cup Messages \cup Blogs
           /\ \A p, q \in Rows : IdOf(p) = IdOf(q) => p = q
           /\ IsFiniteSet(Rows)
<1>1. ASSUME NEW ids, ids \in {Users, Chats, Messages, Blogs},
             \A p \in Rows : p \in Row /\ IdOf(p) \in ids,
             \A p, q \in Rows : IdOf(p) = IdOf(q) => p = q
      PROVE  /\ Rows \subseteq Row
             /\ \A p \in Rows : IdOf(p) \in Users \cup Chats \cup Messages \cup Blogs
             /\ \A p, q \in Rows : IdOf(p) = IdOf(q) => p = q
             /\ IsFiniteSet(Rows)
  <2>1. IsFiniteSet(ids)
      BY <1>1
  <2>2. [p \in Rows |-> IdOf(p)] \in Injection(Rows, ids)
      BY <1>1 DEF Injection, IsInjective
  <2>3. IsFiniteSet(Rows)
      BY <2>1, <2>2, FS_Injection
  <2> QED
      BY <1>1, <2>3
<1>2. CASE feed = "chat list"
  <2>1. ASSUME NEW p \in Rows
        PROVE  /\ p \in Row /\ IdOf(p) \in Chats
               /\ p = [key |-> chats[IdOf(p)].lastAt, id |-> IdOf(p)]
    <3>1. PICK c \in Chats : Mine(c) /\ p = [key |-> chats[c].lastAt, id |-> c]
        BY <1>2, ChatRowForm
    <3>2. chats[c].lastAt \in Int /\ c \in Int
        BY <3>1, ChatTypes DEF Mine
    <3>3. p \in Row
        BY <3>1, <3>2 DEF Row
    <3>4. IdOf(p) = c
        BY <1>2, <3>1 DEF IdOf
    <3> QED
        BY <3>1, <3>3, <3>4
  <2> QED
      BY <1>1, <2>1
<1>3. CASE feed = "chat messages"
  <2>1. ASSUME NEW p \in Rows
        PROVE  /\ p \in Row /\ IdOf(p) \in Messages
               /\ p = [key |-> messages[IdOf(p)].at, id |-> IdOf(p)]
    <3>1. PICK m \in Messages : messages[m] # None /\ p = [key |-> messages[m].at, id |-> m]
        BY <1>3, MessageRowForm
    <3>2. messages[m].at \in Nat
        BY <3>1, ChatTypes, Zenon
    <3>2a. messages[m].at \in Int /\ m \in Int
        BY <3>2
    <3>3. p \in Row
        BY <3>1, <3>2a DEF Row
    <3>4. IdOf(p) = m
        BY <1>3, <3>1 DEF IdOf
    <3> QED
        BY <3>1, <3>3, <3>4
  <2> QED
      BY <1>1, <2>1
<1>4. CASE feed = "candidates"
  <2>1. ASSUME NEW p \in Rows
        PROVE  /\ p \in Row /\ IdOf(p) \in Users
               /\ p = [key |-> -Lower[IdOf(p)], id |-> -IdOf(p)]
    <3>1. PICK u \in Users : p = [key |-> -Lower[u], id |-> -u]
        BY <1>4, CandidateRowForm DEF TypeOK
    <3>2. Lower[u] \in Int /\ u \in Int
        OBVIOUS
    <3>3. p \in Row
        BY <3>1, <3>2 DEF Row
    <3>4. IdOf(p) = u
        BY <1>4, <3>1, <3>2 DEF IdOf
    <3> QED
        BY <3>1, <3>3, <3>4
  <2> QED
      BY <1>1, <2>1
<1>5. CASE feed = "blogs"
  <2>1. ASSUME NEW p \in Rows
        PROVE  /\ p \in Row /\ IdOf(p) \in Blogs
               /\ p = [key |-> blogs[IdOf(p)], id |-> IdOf(p)]
    <3>1. PICK b \in Blogs : blogs[b] # None /\ p = [key |-> blogs[b], id |-> b]
        BY <1>5, BlogRowForm
    <3>2. blogs[b] \in Int /\ b \in Int
        BY <3>1, ChatTypes
    <3>3. p \in Row
        BY <3>1, <3>2 DEF Row
    <3>4. IdOf(p) = b
        BY <1>5, <3>1 DEF IdOf
    <3> QED
        BY <3>1, <3>3, <3>4
  <2> QED
      BY <1>1, <2>1
<1> QED
    BY <1>2, <1>3, <1>4, <1>5 DEF TypeOK

(* The cursor of a row has its id and is not before it; what it skips is    *)
(* known to be lost to its imprecision.                                     *)
LEMMA NextCursor ==
    ASSUME TypeOK, Linked, NEW p \in Rows
    PROVE  \E c \in Row :
            /\ nextCursor(p) = {c} /\ c.id = p.id /\ c.key <= p.key
            /\ feed = "chat list" => c = p
            /\ \A q \in Rows : Before(p, q) /\ ~Before(c, q) => ImpreciseAfter(IdOf(p), q)
<1>1. p \in Row /\ \A q \in Rows : q \in Row
    BY RowsAreRows
<1>2. \A q \in Rows : q.key \in Int /\ q.id \in Int
    BY <1>1 DEF Row
<1>3. CASE feed = "chat list"
  <2>1. PICK d \in Chats : Mine(d) /\ p = [key |-> chats[d].lastAt, id |-> d]
      BY <1>3, ChatRowForm
  <2>2. chats[d].lastAt = ToDate(messages[chats[d].last].at) /\ p.id = d
      BY <2>1 DEF Mine, Linked
  <2>3. nextCursor(p) = {[key |-> chats[d].lastAt, id |-> d]}
      BY <1>3, <2>2 DEF nextCursor, ChatListCursor
  <2>4. nextCursor(p) = {p} /\ p \in Row /\ p.key <= p.key
      BY <1>1, <1>2, <2>1, <2>3
  <2>5. \A q \in Rows : Before(p, q) /\ ~Before(p, q) => ImpreciseAfter(IdOf(p), q)
      OBVIOUS
  <2> QED
      BY <2>4, <2>5, Zenon
<1>4. ASSUME NEW at \in Nat, p.key = at, feed \in {"chat messages", "blogs"},
             \A q \in Rows : q.key \in Nat,
             \A q \in Rows : ToDate(q.key) = ToDate(at) => ImpreciseAfter(IdOf(p), q)
      PROVE  \E c \in Row :
                /\ nextCursor(p) = {c} /\ c.id = p.id /\ c.key <= p.key
                /\ feed = "chat list" => c = p
                /\ \A q \in Rows : Before(p, q) /\ ~Before(c, q) => ImpreciseAfter(IdOf(p), q)
  <2>1. PICK d \in Nat : d = ToDate(at) /\ d <= at
      BY ToDateMultiple
  <2>2. PICK c : c = [key |-> d, id |-> p.id]
      OBVIOUS
  <2>3. c \in Row /\ c.key = d /\ c.id = p.id
      BY <1>2, <2>1, <2>2 DEF Row
  <2>4. nextCursor(p) = {c}
      BY <1>4, <2>1, <2>2 DEF nextCursor, ChatMessageListCursor, BlogCursor
  <2>5. ASSUME NEW q \in Rows, Before(p, q), ~Before(c, q)
        PROVE  ImpreciseAfter(IdOf(p), q)
    <3>1. q.key \in Nat /\ q.id \in Int
        BY <1>2, <1>4
    <3>2. at >= q.key
      <4>1. p.key = at
          BY <1>4
      <4>2. p.key > q.key \/ p.key = q.key
          BY <2>5, Zenon DEF Before
      <4> QED
          BY <3>1, <4>1, <4>2
    <3>2a. ~(d > q.key)
        BY <2>3, <2>5, Zenon DEF Before
    <3>2b. d <= q.key /\ q.key <= at
        BY <2>1, <3>1, <3>2, <3>2a
    <3>3. ToDate(q.key) = ToDate(at)
        BY <2>1, <3>1, <3>2b, ToDateBetween
    <3> QED
        BY <1>4, <3>3
  <2> QED
      BY <1>4, <2>1, <2>3, <2>4, <2>5
<1>5. CASE feed = "chat messages"
  <2>1. ASSUME NEW q \in Rows
        PROVE  q.key \in Nat /\ q.key = messages[IdOf(q)].at
    <3>1. PICK m \in Messages : messages[m] # None /\ q = [key |-> messages[m].at, id |-> m]
        BY <1>5, MessageRowForm
    <3> QED
        BY <1>5, <3>1, ChatTypes DEF IdOf
  <2>2. \A q \in Rows : ToDate(q.key) = ToDate(p.key) => ImpreciseAfter(IdOf(p), q)
      BY <1>5, <2>1, Zenon DEF ImpreciseAfter
  <2> QED
      BY <1>4, <1>5, <2>1, <2>2
<1>6. CASE feed = "blogs"
  <2>1. ASSUME NEW q \in Rows
        PROVE  q.key \in Nat /\ q.key = blogs[IdOf(q)]
    <3>1. PICK b \in Blogs : blogs[b] # None /\ q = [key |-> blogs[b], id |-> b]
        BY <1>6, BlogRowForm
    <3> QED
        BY <1>6, <3>1, ChatTypes DEF IdOf
  <2>2. \A q \in Rows : ToDate(q.key) = ToDate(p.key) => ImpreciseAfter(IdOf(p), q)
      BY <1>6, <2>1, Zenon DEF ImpreciseAfter
  <2> QED
      BY <1>4, <1>6, <2>1, <2>2
<1>7. CASE feed = "candidates"
  <2>1. PICK u \in Users : p = [key |-> -Lower[u], id |-> -u]
      BY <1>7, CandidateRowForm DEF TypeOK
  <2>2. /\ u \in Int /\ Lower[u] \in Int /\ ToLowerCase[u] \in Int
        /\ Lower[u] <= ToLowerCase[u]
      BY ChatTypes
  <2>3. p.key = -Lower[u] /\ p.id = -u /\ IdOf(p) = u
      BY <1>7, <2>1, <2>2 DEF IdOf
  <2>4. PICK c : c = [key |-> -ToLowerCase[u], id |-> -u]
      OBVIOUS
  <2>5. nextCursor(p) = {c}
      BY <1>7, <2>3, <2>4 DEF nextCursor, ChatCandidateCursor
  <2>6. c \in Row /\ c.id = -u /\ c.key = -ToLowerCase[u]
      BY <2>2, <2>4 DEF Row
  <2>7. ASSUME NEW q \in Rows, Before(p, q), ~Before(c, q)
        PROVE  ImpreciseAfter(u, q)
    <3>1. q.key \in Int /\ q.id \in Int
        BY <1>2
    <3>2. -q.key \in Lower[u] .. ToLowerCase[u]
        BY <2>2, <2>3, <2>6, <2>7, <3>1 DEF Before
    <3>3. Lower[u] # ToLowerCase[u]
        BY <2>2, <2>3, <2>6, <2>7, <3>1 DEF Before
    <3> QED
        BY <1>7, <3>2, <3>3 DEF ImpreciseAfter
  <2>8. c.key <= p.key
      BY <2>2, <2>3, <2>6
  <2> QED
      BY <1>7, <2>3, <2>5, <2>6, <2>7, <2>8
<1> QED
    BY <1>3, <1>5, <1>6, <1>7 DEF TypeOK

-----------------------------------------------------------------------------
(* Steps of the stream *)

LEMMA BelowMember ==
    \A rows, below, p : p \in Below(rows, below) <=> p \in rows /\ \A c \in below : Before(c, p)
    BY DEF Below

(* What the client looks at is the same when the tables are. *)
LEMMA SameRows ==
    ASSUME UNCHANGED <<tables, feed, chat>>
    PROVE  /\ Rows' = Rows /\ HasStream' = HasStream
           /\ \A p : IdOf(p)' = IdOf(p) /\ EventsOf(p)' = EventsOf(p)
           /\ \A i, p : ImpreciseAfter(i, p)' = ImpreciseAfter(i, p)
<1>1. /\ profiles' = profiles /\ blogs' = blogs /\ chats' = chats /\ messages' = messages
      /\ feed' = feed /\ chat' = chat
    BY DEF tables
<1>2. Rows' = Rows
    BY <1>1 DEF Rows, ChatRows, MessageRows, CandidateRows, BlogRows, Mine
<1>3. HasStream' = HasStream
    BY <1>1 DEF HasStream
<1>4. \A m : ItemOf(m)' = ItemOf(m)
    BY <1>1 DEF ItemOf, ChatListEvent, ChatMessageListEvent,
       decodeChat, decodeChatMessage
<1>5. \A p : IdOf(p)' = IdOf(p) /\ EventsOf(p)' = EventsOf(p)
    BY <1>1, <1>3, <1>4 DEF IdOf, EventsOf
<1>6. \A i, p : ImpreciseAfter(i, p)' = ImpreciseAfter(i, p)
    BY <1>1 DEF ImpreciseAfter
<1> QED
    BY <1>2, <1>3, <1>5, <1>6

LEMMA SameLinks ==
    ASSUME Linked, UNCHANGED <<tables, published>>
    PROVE  Linked'
    BY DEF Linked, tables

(* The invariants that a step which touches neither the tables nor what    *)
(* the pages have shown keeps.                                             *)
LEMMA SamePages ==
    ASSUME IInv, UNCHANGED <<tables, feed, chat, cursor, paged>>
    PROVE  CursorShape' /\ NoRowTwice'
<1>1. Below(Rows, cursor)' = Below(Rows, cursor)
    BY SameRows DEF Below
<1>2. IdsOf(Below(Rows, cursor))' = IdsOf(Below(Rows, cursor))
    BY <1>1 DEF IdsOf, IdOf
<1> QED
    BY <1>2 DEF IInv, CursorShape, NoRowTwice

(* What reaches the client through the stream, or is lost to it, is what    *)
(* changes whether a row is covered.                                       *)
LEMMA StreamStep ==
    ASSUME IInv, UNCHANGED <<tables, feed, phase, chat, cursor, paged>>,
           phase # "closed" =>
               /\ seen \subseteq seen' /\ lost \subseteq lost'
               /\ \A p \in Rows : \A m \in EventsOf(p) :
                    m \notin published \/ m \in backlog =>
                        m \notin published' \/ m \in backlog' \/ m \in lost' \/ IdOf(p) \in seen'
    PROVE  NothingMissed'
<1>1. SUFFICES ASSUME phase # "closed", NEW p \in Rows PROVE Covered(p)'
    BY SameRows, CoveredSuffices DEF NothingMissed, Covered
<1>2. Covered(p)
    BY <1>1, CoveredSuffices DEF IInv
<1>3. Rows' = Rows /\ IdOf(p)' = IdOf(p) /\ EventsOf(p)' = EventsOf(p) /\ HasStream' = HasStream
    BY SameRows
<1>4. CASE IdOf(p) \in seen
    BY <1>1, <1>3, <1>4 DEF Covered
<1>5. CASE phase = "paging" /\ p \in Below(Rows, cursor)
    BY <1>3, <1>5, BelowMember DEF Covered, Below
<1>6. CASE \E m \in EventsOf(p) : m \notin published \/ m \in backlog
  <2>1. PICK m \in EventsOf(p) : m \notin published \/ m \in backlog
      BY <1>6
  <2>2. m \in EventsOf(p)' /\ (m \notin published' \/ m \in backlog' \/ m \in lost' \/ IdOf(p)' \in seen')
      BY <1>1, <1>3, <2>1
  <2> QED
      BY <2>2 DEF Covered, Excused
<1>7. CASE Excused(p)
  <2>1. CursorImprecise(p) => CursorImprecise(p)'
      BY DEF CursorImprecise, tables
  <2> QED
      BY <1>1, <1>3, <1>7, <2>1 DEF Covered, Excused
<1> QED
    BY <1>2, <1>4, <1>5, <1>6, <1>7 DEF Covered

LEMMA PublishKeeps ==
    ASSUME IInv, NEW m \in Messages, Publish(m)
    PROVE  IInv'
<1>1. /\ UNCHANGED <<tables, subscribed, feed, phase, chat, cursor, seen, paged>>
      /\ published' = published \cup {m} /\ messages[m] # None
      /\ \/ subscribed /\ backlog' = backlog \cup {m} /\ UNCHANGED lost
         \/ /\ ~subscribed /\ UNCHANGED backlog
            /\ lost' = IF Streaming THEN lost \cup {m} ELSE lost
    BY DEF Publish
<1>2. TypeOK'
    BY <1>1, SameRows DEF IInv, TypeOK, tables, Streaming
<1>3. Quiet'
    BY <1>1 DEF IInv, TypeOK, Quiet, Streaming
<1>4. Linked'
    BY <1>1 DEF IInv, Linked, tables
<1>5. OnlyMembersSee'
    BY <1>1, SameRows DEF IInv, OnlyMembersSee, IdsOf, IdOf
<1>6. ASSUME phase # "closed", NEW p \in Rows, NEW e \in EventsOf(p), e \notin published \/ e \in backlog
      PROVE  e \notin published' \/ e \in backlog' \/ e \in lost'
    BY <1>1, <1>6 DEF EventsOf, Streaming
<1>7. NothingMissed'
    BY <1>1, <1>6, StreamStep
<1> QED
    BY <1>1, <1>2, <1>3, <1>4, <1>5, <1>7, SamePages DEF IInv

(* An event that passes the filter is about a row of the feed, and the     *)
(* event of a row of the feed passes.                                      *)
LEMMA EventOfRow ==
    ASSUME TypeOK, Linked, HasStream, NEW m \in Messages, messages[m] # None
    PROVE  /\ Passes(m) => ItemOf(m) \in IdsOf(Rows)
           /\ \A p \in Rows : m \in EventsOf(p) => Passes(m) /\ ItemOf(m) = IdOf(p)
<1>1. /\ messages[m].chat \in Chats /\ chats[messages[m].chat] # None
    BY ChatTypes DEF Linked
<1>2. Passes(m) => Mine(messages[m].chat)
    BY <1>1 DEF Passes, InChatList, ChatListEvent, InMessageList,
            ChatMessageListEvent, decodeChat, decodeChatMessage, Mine
<1>3. CASE feed = "chat list"
  <2>1. ItemOf(m) = messages[m].chat
      BY <1>3 DEF ItemOf, ChatListEvent, ChatMessageListEvent,
         decodeChat, decodeChatMessage
  <2>2. ASSUME Passes(m) PROVE ItemOf(m) \in IdsOf(Rows)
    <3>1. PICK p : p = [key |-> chats[messages[m].chat].lastAt, id |-> messages[m].chat]
        OBVIOUS
    <3>2. p \in Rows
        BY <1>1, <1>2, <1>3, <2>2, <3>1, ChatRowForm
    <3>3. IdOf(p) = ItemOf(m)
        BY <1>3, <2>1, <3>1 DEF IdOf
    <3> QED
        BY <3>2, <3>3 DEF IdsOf
  <2>3. ASSUME NEW p \in Rows, m \in EventsOf(p) PROVE Passes(m) /\ ItemOf(m) = IdOf(p)
    <3>1. PICK c \in Chats : Mine(c) /\ p = [key |-> chats[c].lastAt, id |-> c]
        BY <1>3, ChatRowForm
    <3>2. ItemOf(m) = p.id
        BY <2>3 DEF EventsOf
    <3> QED
        BY <1>3, <2>1, <3>1, <3>2 DEF Passes, InChatList, ChatListEvent, InMessageList,
            ChatMessageListEvent, decodeChat, decodeChatMessage, Mine, IdOf
  <2> QED
      BY <2>2, <2>3
<1>4. CASE feed = "chat messages"
  <2>1. ItemOf(m) = m
      BY <1>4 DEF ItemOf, ChatListEvent, ChatMessageListEvent,
         decodeChat, decodeChatMessage
  <2>2. ASSUME Passes(m) PROVE ItemOf(m) \in IdsOf(Rows)
    <3>1. PICK p : p = [key |-> messages[m].at, id |-> m]
        OBVIOUS
    <3>2. messages[m].chat = chat
        BY <1>4, <2>2 DEF Passes, InChatList, ChatListEvent, InMessageList,
            ChatMessageListEvent, decodeChat, decodeChatMessage
    <3>3. p \in Rows
        BY <1>1, <1>2, <1>4, <2>2, <3>1, <3>2, MessageRowForm
    <3>4. IdOf(p) = ItemOf(m)
        BY <1>4, <2>1, <3>1 DEF IdOf
    <3> QED
        BY <3>3, <3>4 DEF IdsOf
  <2>3. ASSUME NEW p \in Rows, m \in EventsOf(p) PROVE Passes(m) /\ ItemOf(m) = IdOf(p)
    <3>1. PICK n \in Messages :
            /\ messages[n] # None /\ messages[n].chat = chat /\ Mine(chat)
            /\ p = [key |-> messages[n].at, id |-> n]
        BY <1>4, MessageRowForm
    <3>2. ItemOf(m) = p.id
        BY <2>3 DEF EventsOf
    <3> QED
        BY <1>4, <2>1, <3>1, <3>2 DEF Passes, InChatList, ChatListEvent, InMessageList,
            ChatMessageListEvent, decodeChat, decodeChatMessage, Mine, IdOf
  <2> QED
      BY <2>2, <2>3
<1> QED
    BY <1>3, <1>4 DEF HasStream

LEMMA DeliverKeeps ==
    ASSUME IInv, NEW m \in Messages, Deliver(m)
    PROVE  IInv'
<1>1. /\ UNCHANGED <<tables, published, subscribed, feed, phase, chat, cursor, paged, lost>>
      /\ m \in backlog /\ backlog' \in {backlog, backlog \ {m}}
      /\ seen' = IF Passes(m) THEN seen \cup {ItemOf(m)} ELSE seen
    BY DEF Deliver
<1>2. HasStream /\ phase # "closed" /\ messages[m] # None
    BY <1>1 DEF IInv, TypeOK, Linked, Streaming
<1>3. /\ Passes(m) => ItemOf(m) \in IdsOf(Rows)
      /\ \A p \in Rows : m \in EventsOf(p) => Passes(m) /\ ItemOf(m) = IdOf(p)
    BY <1>2, EventOfRow DEF IInv
<1>4. TypeOK'
  <2>1. messages[m].chat \in Chats
      BY <1>2, ChatTypes DEF IInv
  <2>2. seen' \subseteq Users \cup Chats \cup Messages \cup Blogs
      BY <1>1, <2>1 DEF IInv, TypeOK, ItemOf, ChatListEvent, ChatMessageListEvent,
         decodeChat, decodeChatMessage
  <2> QED
      BY <1>1, <2>2 DEF IInv, TypeOK, tables, Streaming, HasStream
<1>5. Quiet' /\ Linked'
    BY <1>1, <1>2, SameLinks DEF IInv, Quiet
<1>6. OnlyMembersSee'
    BY <1>1, <1>3, SameRows DEF IInv, OnlyMembersSee, IdsOf, IdOf
<1>7. ASSUME NEW p \in Rows, NEW e \in EventsOf(p), e \notin published \/ e \in backlog
      PROVE  e \notin published' \/ e \in backlog' \/ IdOf(p) \in seen'
    BY <1>1, <1>3, <1>7
<1>8. NothingMissed'
    BY <1>1, <1>7, StreamStep
<1> QED
    BY <1>1, <1>4, <1>5, <1>6, <1>8, SamePages DEF IInv

LEMMA ResubscribeKeeps ==
    ASSUME IInv, Resubscribe
    PROVE  IInv'
<1>1. /\ UNCHANGED <<tables, published, backlog, feed, phase, chat, cursor, seen, paged, lost>>
      /\ Streaming /\ subscribed' = TRUE
    BY DEF Resubscribe, client
<1>2. TypeOK'
    BY <1>1 DEF IInv, TypeOK, tables, Streaming, HasStream
<1>3. Quiet' /\ Linked'
    BY <1>1, SameLinks DEF IInv, Quiet
<1>4. OnlyMembersSee'
    BY <1>1, SameRows DEF IInv, OnlyMembersSee, IdsOf, IdOf
<1>5. NothingMissed'
    BY <1>1, StreamStep
<1> QED
    BY <1>1, <1>2, <1>3, <1>4, <1>5, SamePages DEF IInv

LEMMA SubscriptionGoneKeeps ==
    ASSUME IInv, SubscriptionGone
    PROVE  IInv'
<1>1. /\ UNCHANGED <<tables, published, feed, phase, chat, cursor, seen, paged>>
      /\ subscribed /\ subscribed' = FALSE
      /\ lost' = lost \cup backlog /\ backlog' = {}
    BY DEF SubscriptionGone
<1>2. phase # "closed"
    BY <1>1 DEF IInv, TypeOK, Streaming
<1>3. TypeOK'
    BY <1>1 DEF IInv, TypeOK, tables, Streaming, HasStream
<1>4. Quiet' /\ Linked'
    BY <1>1, <1>2, SameLinks DEF IInv, Quiet
<1>5. OnlyMembersSee'
    BY <1>1, SameRows DEF IInv, OnlyMembersSee, IdsOf, IdOf
<1>6. NothingMissed'
    BY <1>1, StreamStep
<1> QED
    BY <1>1, <1>3, <1>4, <1>5, <1>6, SamePages DEF IInv

-----------------------------------------------------------------------------
(* Steps of the client *)

LEMMA SubscribeKeeps ==
    ASSUME IInv, Subscribe
    PROVE  IInv'
<1>1. /\ UNCHANGED <<tables, published, feed, cursor, seen, paged, lost>>
      /\ phase = "closed" /\ phase' = "paging" /\ chat' \in Chats \cup {None}
      /\ \/ HasStream /\ subscribed' = TRUE /\ backlog' \in SUBSET published
         \/ UNCHANGED <<subscribed, backlog>>
    BY DEF Subscribe, subscribeToChatList, subscribeToChatMessageListChanges, OpenWithoutStream,
           Open, AttachStream, HasStream, stream
<1>2. cursor = {} /\ seen = {} /\ paged = {} /\ lost = {}
    BY <1>1 DEF IInv, Quiet, TypeOK
<1>3. TypeOK'
  <2>1. ~subscribed /\ backlog = {}
      BY <1>1 DEF IInv, TypeOK, Streaming
  <2>2. /\ subscribed' \in BOOLEAN /\ backlog' \subseteq published'
        /\ subscribed' => Streaming'
        /\ ~subscribed' => backlog' = {}
    <3>1. CASE HasStream /\ subscribed' = TRUE /\ backlog' \in SUBSET published
        BY <1>1, <3>1 DEF Streaming, HasStream
    <3>2. CASE UNCHANGED <<subscribed, backlog>>
        BY <2>1, <3>2 DEF IInv, TypeOK
    <3> QED
        BY <1>1, <3>1, <3>2
  <2>3. phase' \in {"closed", "paging", "complete"} /\ chat' \in Chats \cup {None}
      BY <1>1
  <2> QED
      BY <1>1, <2>2, <2>3 DEF IInv, TypeOK, tables
<1>4. Quiet' /\ Linked'
    BY <1>1, SameLinks DEF IInv, Quiet
<1>5. CursorShape' /\ OnlyMembersSee' /\ NoRowTwice'
    BY <1>1, <1>2 DEF CursorShape, OnlyMembersSee, NoRowTwice
<1>6. NothingMissed'
    BY <1>1, <1>2 DEF NothingMissed, Below
<1> QED
    BY <1>3, <1>4, <1>5, <1>6 DEF IInv

LEMMA CloseKeeps ==
    ASSUME IInv, Close
    PROVE  IInv'
<1>1. /\ UNCHANGED <<tables, published, feed>>
      /\ phase' = "closed" /\ chat' = None
      /\ cursor' = {} /\ seen' = {} /\ paged' = {} /\ lost' = {}
      /\ subscribed' = FALSE /\ backlog' = {}
    BY DEF Close
<1>2. TypeOK'
  <2>1. IsFiniteSet({}) /\ Cardinality({}) <= 1
      BY FS_EmptySet
  <2>2. cursor' \subseteq Row /\ IsFiniteSet(cursor') /\ Cardinality(cursor') <= 1
      BY <1>1, <2>1
  <2> QED
      BY <1>1, <2>2 DEF IInv, TypeOK, tables
<1>3. Quiet' /\ Linked'
    BY <1>1, SameLinks DEF IInv, Quiet
<1>4. CursorShape' /\ OnlyMembersSee' /\ NoRowTwice' /\ NothingMissed'
    BY <1>1 DEF CursorShape, OnlyMembersSee, NoRowTwice, NothingMissed
<1> QED
    BY <1>2, <1>3, <1>4 DEF IInv

LEMMA LimitType ==
    \A n \in Limits : n \in Nat \ {0}
    BY LimitsAssumption DEF ValidLimit

(* The page is empty: there is nothing below the cursor. *)
LEMMA LastPageKeeps ==
    ASSUME IInv, NEW n \in Limits, phase = "paging", Slice(Rows, cursor, n) = {},
           phase' = "complete",
           UNCHANGED <<tables, published, stream, feed, chat, cursor, seen, paged, lost>>
    PROVE  IInv'
<1>1. Below(Rows, cursor) = {}
    BY RowsAreRows, LimitType, EmptySliceIsEnd DEF IInv
<1>2. TypeOK'
    BY DEF IInv, TypeOK, tables, stream, Streaming, HasStream
<1>3. Quiet' /\ Linked'
    BY SameLinks DEF IInv, Quiet
<1>4. OnlyMembersSee'
    BY SameRows DEF IInv, OnlyMembersSee, IdsOf, IdOf
<1>5. NothingMissed'
  <2>1. SUFFICES ASSUME NEW p \in Rows PROVE Covered(p)'
      BY SameRows DEF NothingMissed, Covered
  <2>2. \/ IdOf(p) \in seen
        \/ \E m \in EventsOf(p) : m \notin published \/ m \in backlog
        \/ Excused(p)
      BY <1>1, CoveredSuffices DEF IInv, Covered
  <2>3. IdOf(p)' = IdOf(p) /\ EventsOf(p)' = EventsOf(p) /\ HasStream' = HasStream
      BY SameRows
  <2>4. CursorImprecise(p)' = CursorImprecise(p)
      BY DEF CursorImprecise, tables
  <2> QED
      BY <2>2, <2>3, <2>4 DEF Covered, Excused, stream
<1> QED
    BY <1>2, <1>3, <1>4, <1>5, SamePages DEF IInv

(* The page ends with row l, and what the next page leaves out after it is *)
(* lost to the imprecision of the cursor.                                  *)
LEMMA PageKeeps ==
    ASSUME IInv, NEW n \in Limits, phase = "paging",
           NEW page, page = Slice(Rows, cursor, n),
           NEW l \in page, IsLast(l, page), cursor' = nextCursor(l),
           seen' = seen \cup IdsOf(page), paged' = paged \cup IdsOf(page),
           UNCHANGED <<tables, published, stream, feed, chat, phase, lost>>
    PROVE  IInv'
<1>1. /\ Rows \subseteq Row /\ IsFiniteSet(Rows) /\ TypeOK /\ Linked
      /\ \A p, q \in Rows : IdOf(p) = IdOf(q) => p = q
    BY RowsAreRows DEF IInv
<1>2. \A p \in page : p \in Rows /\ p \in Below(Rows, cursor)
    BY DEF Slice, Below
<1>3. PICK c \in Row :
        /\ cursor' = {c} /\ c.id = l.id /\ c.key <= l.key
        /\ \A q \in Rows : Before(l, q) /\ ~Before(c, q) => ImpreciseAfter(IdOf(l), q)
    BY <1>1, <1>2, NextCursor
<1>4. ASSUME NEW p \in Rows, Before(c, p) PROVE Before(l, p)
  <2>1. /\ p.key \in Int /\ p.id \in Int /\ l.key \in Int /\ l.id \in Int
        /\ c.key \in Int /\ c.id \in Int
      BY <1>1, <1>2 DEF Row
  <2> QED
      BY <1>3, <1>4, <2>1 DEF Before
<1>5. CursorShape' /\ cursor' \subseteq Row /\ IsFiniteSet(cursor') /\ Cardinality(cursor') <= 1
  <2>1. IsFiniteSet({c}) /\ Cardinality({c}) = 1
      BY FS_Singleton
  <2> QED
      BY <1>3, <2>1 DEF CursorShape
<1>6. IdsOf(page) \subseteq IdsOf(Rows) /\ IdsOf(Rows) \subseteq Users \cup Chats \cup Messages \cup Blogs
    BY <1>1, <1>2, RowsAreRows DEF IdsOf
<1>7. TypeOK'
    BY <1>5, <1>6 DEF IInv, TypeOK, tables, stream, Streaming, HasStream
<1>8. Quiet' /\ Linked'
    BY SameLinks DEF IInv, Quiet
<1>9. OnlyMembersSee'
  <2>1. IdsOf(Rows)' = IdsOf(Rows)
      BY SameRows DEF IdsOf, IdOf
  <2> QED
      BY <1>6, <2>1 DEF IInv, OnlyMembersSee
<1>10. NoRowTwice'
  <2>1. SUFFICES ASSUME feed # "chat list", NEW p \in Rows, Before(c, p), IdOf(p) \in paged'
                 PROVE  FALSE
    <3>1. Rows' = Rows /\ feed' = feed /\ \A q : IdOf(q)' = IdOf(q)
        BY SameRows
    <3>2. \A q : q \in Below(Rows, cursor)' <=> q \in Rows /\ Before(c, q)
        BY <1>3, <3>1 DEF Below
    <3>3. ASSUME feed # "chat list", NEW i \in IdsOf(Below(Rows, cursor))' PROVE i \notin paged'
      <4>1. PICK q \in Rows : Before(c, q) /\ i = IdOf(q)
          BY <3>1, <3>2, <3>3 DEF IdsOf
      <4> QED
          BY <2>1, <3>3, <4>1
    <3> QED
        BY <3>1, <3>3 DEF NoRowTwice
  <2>2. Before(l, p)
      BY <1>4, <2>1
  <2>3. CASE IdOf(p) \in IdsOf(page)
    <3>1. p \in page
        BY <1>1, <1>2, <2>3 DEF IdsOf
    <3>2. p = l \/ Before(p, l)
        BY <3>1 DEF IsLast
    <3> QED
        BY <1>1, <1>2, <2>2, <3>2, BeforeIsOrder
  <2>4. CASE IdOf(p) \in paged
    <3>1. p \notin Below(Rows, cursor)
        BY <2>1, <2>4 DEF IInv, NoRowTwice, IdsOf
    <3>2. \A d \in cursor : d \in Row /\ Before(d, l)
        BY <1>1, <1>2, BelowMember DEF TypeOK
    <3>3. \A d \in cursor : Before(d, p)
        BY <1>1, <1>2, <2>2, <3>2, BeforeIsOrder
    <3> QED
        BY <3>1, <3>3, BelowMember
  <2> QED
      BY <2>1, <2>3, <2>4
<1>11. NothingMissed'
  <2>1. SUFFICES ASSUME NEW p \in Rows PROVE Covered(p)'
      BY SameRows DEF NothingMissed, Covered
  <2>2. /\ Rows' = Rows /\ IdOf(p)' = IdOf(p) /\ EventsOf(p)' = EventsOf(p)
        /\ HasStream' = HasStream
      BY SameRows
  <2>3. \A i \in paged' : ImpreciseAfter(i, p) => CursorImprecise(p)'
      BY DEF CursorImprecise, ImpreciseAfter, tables
  <2>4. CASE IdOf(p) \in seen \/ p \in page
      BY <2>2, <2>4 DEF Covered, IdsOf
  <2>5. CASE p \in Below(Rows, cursor) /\ p \notin page
    <3>1. Before(l, p)
        BY <1>1, <2>5, LimitType, SliceIsHead
    <3>2. CASE Before(c, p)
      <4>1. p \in Below(Rows, cursor)'
          BY <1>3, <2>2, <3>2 DEF Below
      <4> QED
          BY <4>1 DEF Covered
    <3>3. CASE ~Before(c, p)
      <4>1. ImpreciseAfter(IdOf(l), p) /\ IdOf(l) \in paged'
          BY <1>3, <3>1, <3>3 DEF IdsOf
      <4> QED
          BY <2>3, <4>1 DEF Covered, Excused
    <3> QED
        BY <3>2, <3>3
  <2>6. CASE \E m \in EventsOf(p) : m \notin published \/ m \in backlog
      BY <2>2, <2>6 DEF Covered, stream
  <2>7. CASE Excused(p)
    <3>1. CursorImprecise(p) => CursorImprecise(p)'
        BY <2>3, ImpreciseAfterPaged
    <3> QED
        BY <2>2, <2>7, <3>1 DEF Covered, Excused
  <2> QED
      BY <2>4, <2>5, <2>6, <2>7, CoveredSuffices DEF IInv, Covered
<1> QED
    BY <1>5, <1>7, <1>8, <1>9, <1>10, <1>11 DEF IInv

-----------------------------------------------------------------------------
(* Writes *)

(* What the client has is of the feed. *)
LEMMA PagedOfFeed ==
    ASSUME IInv
    PROVE  paged \subseteq seen /\ seen \subseteq IdsOf(Rows)
    BY DEF IInv, TypeOK, Quiet, OnlyMembersSee

(* A row that appears in a feed without a stream. *)
LEMMA AppearsKeeps ==
    ASSUME IInv, ~HasStream, NEW row \in Row, NEW i, i \notin IdsOf(Rows), i = IdOf(row),
           Appears(i, row),
           \A p : p \in Rows' => p \in Rows \/ p = row,
           \A p \in Rows : p \in Rows',
           \A j \in paged : \A p : ImpreciseAfter(j, p) => ImpreciseAfter(j, p)',
           UNCHANGED <<feed, phase, chat, cursor, seen, paged>>
    PROVE  OnlyMembersSee' /\ NoRowTwice' /\ NothingMissed'
<1>1. \A p : IdOf(p)' = IdOf(p)
    BY DEF IdOf
<1>2. HasStream' = HasStream /\ lost \subseteq lost'
    BY DEF HasStream, Appears
<1>3. OnlyMembersSee'
  <2>1. IdsOf(Rows) \subseteq IdsOf(Rows)'
      BY <1>1 DEF IdsOf
  <2> QED
      BY <2>1 DEF IInv, OnlyMembersSee
<1>4. NoRowTwice'
  <2>1. ASSUME feed # "chat list", NEW k \in IdsOf(Below(Rows, cursor))' PROVE k \notin paged
    <3>1. PICK p \in Rows' : (\A c \in cursor : Before(c, p)) /\ k = IdOf(p)
        BY <1>1 DEF IdsOf, Below
    <3>2. CASE p \in Rows
        BY <2>1, <3>1, <3>2 DEF IInv, NoRowTwice, IdsOf, Below
    <3>3. CASE p = row
        BY <3>1, <3>3, PagedOfFeed
    <3> QED
        BY <3>1, <3>2, <3>3
  <2> QED
      BY <2>1 DEF NoRowTwice
<1>5. NothingMissed'
  <2>1. SUFFICES ASSUME phase # "closed", NEW p \in Rows' PROVE Covered(p)'
      BY DEF NothingMissed, Covered
  <2>2. CASE p \in Rows
    <3>1. EventsOf(p) = {}
        BY DEF EventsOf
    <3>2. CASE IdOf(p) \in seen
        BY <1>1, <3>2 DEF Covered
    <3>3. CASE phase = "paging" /\ p \in Below(Rows, cursor)
        BY <2>1, <3>3, BelowMember DEF Covered, Below
    <3>4. CASE CursorImprecise(p)
      <4>1. PICK j \in paged : ImpreciseAfter(j, p)
          BY <3>4, ImpreciseAfterPaged
      <4>2. ImpreciseAfter(j, p)' /\ j \in paged'
          BY <4>1
      <4>3. CursorImprecise(p)'
          BY <4>2 DEF ImpreciseAfter, CursorImprecise
      <4> QED
          BY <4>3 DEF Covered, Excused
    <3>5. CASE IdOf(p) \in lost
        BY <1>1, <1>2, <3>5 DEF Covered, Excused
    <3> QED
        BY <2>1, <2>2, <3>1, <3>2, <3>3, <3>4, <3>5, CoveredSuffices DEF IInv, Covered, Excused
  <2>3. CASE p = row
    <3>1. CASE phase = "complete" \/ (phase = "paging" /\ Below({row}, cursor) = {})
      <4>1. IdOf(p)' \in lost'
          BY <1>1, <2>3, <3>1 DEF Appears
      <4> QED
          BY <1>2, <4>1 DEF Covered, Excused
    <3>2. CASE phase = "paging" /\ Below({row}, cursor) # {}
      <4>1. p \in Below(Rows, cursor)'
          BY <2>1, <2>3, <3>2 DEF Below
      <4> QED
          BY <3>2, <4>1 DEF Covered
    <3>3. phase \in {"closed", "paging", "complete"}
        BY DEF IInv, TypeOK
    <3> QED
        BY <2>1, <3>1, <3>2, <3>3
  <2> QED
      BY <2>1, <2>2, <2>3
<1> QED
    BY <1>3, <1>4, <1>5

LEMMA SignUpKeeps ==
    ASSUME IInv, feed = "candidates", NEW u \in Users, SignUp(u)
    PROVE  IInv'
<1>1. /\ u \notin profiles /\ profiles' = profiles \cup {u}
      /\ Appears(u, [key |-> -Lower[u], id |-> -u])
      /\ UNCHANGED <<blogs, chats, messages, published, subscribed, backlog,
                     feed, phase, chat, cursor, seen, paged>>
    BY DEF SignUp, stream
<1>2. Lower[u] \in Int /\ u \in Int /\ ~HasStream
    BY DEF HasStream
<1>3. PICK row : row = [key |-> -Lower[u], id |-> -u]
    OBVIOUS
<1>4. row \in Row /\ IdOf(row) = u
    BY <1>2, <1>3 DEF Row, IdOf
<1>5. lost' \subseteq lost \cup {u}
    BY <1>1 DEF Appears
<1>6. TypeOK'
    BY <1>1, <1>5 DEF IInv, TypeOK, Streaming, HasStream
<1>7. Quiet'
    BY <1>1 DEF IInv, Quiet, Appears
<1>8. Linked' /\ CursorShape'
    BY <1>1 DEF IInv, Linked, CursorShape
<1>9. /\ Rows = {[key |-> -Lower[v], id |-> -v] : v \in profiles \ {Me}}
      /\ Rows' = {[key |-> -Lower[v], id |-> -v] : v \in profiles' \ {Me}}
    BY <1>1 DEF Rows, CandidateRows
<1>10. u \notin IdsOf(Rows)
  <2>1. SUFFICES ASSUME NEW p \in Rows, u = IdOf(p) PROVE FALSE
      BY DEF IdsOf
  <2>2. PICK v \in profiles : p = [key |-> -Lower[v], id |-> -v]
      BY <1>9
  <2>3. v \in Int /\ p.id = -v /\ u = -p.id
      BY <2>1, <2>2 DEF IInv, TypeOK, IdOf
  <2> QED
      BY <1>1, <1>2, <2>2, <2>3
<1>11. CASE u = Me
  <2>1. Rows' = Rows
      BY <1>1, <1>9, <1>11
  <2>2. \A p : IdOf(p)' = IdOf(p) /\ EventsOf(p) = {} /\ EventsOf(p)' = {}
      BY <1>1, <1>2 DEF IdOf, EventsOf, HasStream
  <2>3. OnlyMembersSee'
      BY <1>1, <2>1, <2>2 DEF IInv, OnlyMembersSee, IdsOf
  <2>4. NoRowTwice'
    <3>1. IdsOf(Below(Rows, cursor))' = IdsOf(Below(Rows, cursor))
        BY <1>1, <2>1, <2>2 DEF IdsOf, Below
    <3> QED
        BY <1>1, <3>1 DEF IInv, NoRowTwice
  <2>5. NothingMissed'
    <3>1. SUFFICES ASSUME phase # "closed", NEW p \in Rows PROVE Covered(p)'
        BY <1>1, <2>1 DEF NothingMissed, Covered
    <3>2. Covered(p)
        BY <3>1, CoveredSuffices DEF IInv
    <3>3. CursorImprecise(p) => CursorImprecise(p)'
        BY <1>1 DEF CursorImprecise
    <3>4. Excused(p) => Excused(p)'
        BY <1>1, <2>2, <3>3 DEF Excused, Appears, HasStream
    <3> QED
        BY <1>1, <2>1, <2>2, <3>2, <3>4 DEF Covered, Below
  <2> QED
      BY <1>6, <1>7, <1>8, <2>3, <2>4, <2>5 DEF IInv
<1>12. CASE u # Me
  <2>1. \A p : p \in Rows' => p \in Rows \/ p = row
      BY <1>1, <1>3, <1>9
  <2>2. \A p \in Rows : p \in Rows'
      BY <1>1, <1>9
  <2>3. \A j \in paged : \A p : ImpreciseAfter(j, p) => ImpreciseAfter(j, p)'
      BY <1>1 DEF ImpreciseAfter
  <2>4. OnlyMembersSee' /\ NoRowTwice' /\ NothingMissed'
      BY <1>1, <1>2, <1>3, <1>4, <1>10, <2>1, <2>2, <2>3, AppearsKeeps
  <2> QED
      BY <1>6, <1>7, <1>8, <2>4 DEF IInv
<1> QED
    BY <1>11, <1>12

LEMMA CreateBlogKeeps ==
    ASSUME IInv, feed = "blogs", NEW b \in Blogs, NEW at \in Times, CreateBlog(b, at)
    PROVE  IInv'
<1>1. /\ blogs[b] = None /\ blogs' = [blogs EXCEPT ![b] = at]
      /\ Appears(b, [key |-> at, id |-> b])
      /\ UNCHANGED <<profiles, chats, messages, published, subscribed, backlog,
                     feed, phase, chat, cursor, seen, paged>>
    BY DEF CreateBlog, stream
<1>2. at \in Nat /\ b \in Int /\ ~HasStream /\ at # None
    BY TimeAssumption DEF HasStream
<1>3. PICK row : row = [key |-> at, id |-> b]
    OBVIOUS
<1>4. row \in Row /\ IdOf(row) = b
    BY <1>2, <1>3 DEF Row, IdOf
<1>5. lost' \subseteq lost \cup {b}
    BY <1>1 DEF Appears
<1>6. blogs \in [Blogs -> Times \cup {None}] /\ blogs' \in [Blogs -> Times \cup {None}]
    BY <1>1 DEF IInv, TypeOK
<1>7. TypeOK'
    BY <1>1, <1>5, <1>6 DEF IInv, TypeOK, Streaming, HasStream
<1>8. Quiet'
    BY <1>1 DEF IInv, Quiet, Appears
<1>9. Linked' /\ CursorShape'
    BY <1>1 DEF IInv, Linked, CursorShape
<1>10. /\ \A p : p \in Rows <=> \E c \in Blogs : blogs[c] # None /\ p = [key |-> blogs[c], id |-> c]
       /\ \A p : p \in Rows' <=> \E c \in Blogs : blogs'[c] # None /\ p = [key |-> blogs'[c], id |-> c]
  <2>1. /\ Rows = {[key |-> blogs[c], id |-> c] : c \in {c \in Blogs : blogs[c] # None}}
        /\ Rows' = {[key |-> blogs'[c], id |-> c] : c \in {c \in Blogs : blogs'[c] # None}}
      BY <1>1 DEF Rows, BlogRows
  <2> QED
      BY <2>1
<1>11. b \notin IdsOf(Rows)
  <2>1. SUFFICES ASSUME NEW p \in Rows, b = IdOf(p) PROVE FALSE
      BY DEF IdsOf
  <2>2. PICK c \in Blogs : blogs[c] # None /\ p = [key |-> blogs[c], id |-> c]
      BY <1>10
  <2> QED
      BY <1>1, <2>1, <2>2 DEF IdOf
<1>12. \A c \in Blogs : c # b => blogs'[c] = blogs[c]
    BY <1>1, <1>6
<1>13. blogs'[b] = at
    BY <1>1, <1>6
<1>14. \A p : p \in Rows' => p \in Rows \/ p = row
    BY <1>3, <1>10, <1>12, <1>13
<1>15. \A p \in Rows : p \in Rows'
    BY <1>1, <1>10, <1>12
<1>16. \A j \in paged : j \in Blogs /\ j # b
  <2>1. ASSUME NEW j \in paged PROVE j \in Blogs /\ j # b
    <3>1. PICK p \in Rows : j = IdOf(p)
        BY PagedOfFeed DEF IdsOf
    <3>2. PICK c \in Blogs : p = [key |-> blogs[c], id |-> c]
        BY <1>10
    <3> QED
        BY <1>11, <3>1, <3>2 DEF IdsOf, IdOf
  <2> QED
      BY <2>1
<1>17. \A j \in paged : \A p : ImpreciseAfter(j, p) => ImpreciseAfter(j, p)'
    BY <1>1, <1>12, <1>16 DEF ImpreciseAfter
<1>18. OnlyMembersSee' /\ NoRowTwice' /\ NothingMissed'
    BY <1>1, <1>2, <1>3, <1>4, <1>11, <1>14, <1>15, <1>17, AppearsKeeps
<1> QED
    BY <1>7, <1>8, <1>9, <1>18 DEF IInv

(* A message, with its chat moved to it, in a feed that has a stream: a row *)
(* that is new or has moved has the event of this message to come.         *)
LEMMA WriteKeeps ==
    ASSUME IInv, HasStream,
           NEW m \in Messages, NEW c \in Chats, NEW at \in Times, NEW members \in MemberSets,
           messages[m] = None, messages' = [messages EXCEPT ![m] = [chat |-> c, at |-> at]],
           chats' = [chats EXCEPT ![c] = [members |-> members, last |-> m, lastAt |-> ToDate(at)]],
           chats[c] = None \/ members = chats[c].members,
           UNCHANGED <<profiles, blogs, published, stream, feed, client>>
    PROVE  IInv'
<1>1. /\ UNCHANGED <<profiles, blogs, published, subscribed, backlog, feed, phase, chat,
                     cursor, seen, paged, lost>>
      /\ TypeOK /\ Linked
    BY DEF stream, client, IInv
<1>2. /\ chats \in [Chats -> ChatType \cup {None}]
      /\ messages \in [Messages -> MessageType \cup {None}]
    BY <1>1 DEF TypeOK
<1>3. /\ messages'[m] = [chat |-> c, at |-> at]
      /\ \A n \in Messages : n # m => messages'[n] = messages[n]
      /\ chats'[c] = [members |-> members, last |-> m, lastAt |-> ToDate(at)]
      /\ \A d \in Chats : d # c => chats'[d] = chats[d]
    BY <1>2
<1>4. [chat |-> c, at |-> at] \in MessageType
    BY DEF MessageType
<1>5. [members |-> members, last |-> m, lastAt |-> ToDate(at)] \in ChatType
    BY DEF ChatType
<1>6. /\ chats' \in [Chats -> ChatType \cup {None}]
      /\ messages' \in [Messages -> MessageType \cup {None}]
    BY <1>2, <1>4, <1>5
<1>7. messages'[m] # None /\ chats'[c] # None /\ m \notin published
    BY <1>1, <1>3, <1>4, <1>5 DEF Linked
<1>8. TypeOK'
    BY <1>1, <1>6 DEF TypeOK, Streaming, HasStream
<1>9. Quiet' /\ CursorShape'
    BY <1>1 DEF IInv, Quiet, CursorShape
<1>10. Linked'
  <2>1. ASSUME NEW d \in Chats, chats'[d] # None
        PROVE  /\ messages'[chats'[d].last] # None
               /\ chats'[d].lastAt = ToDate(messages'[chats'[d].last].at)
    <3>1. CASE d = c
        BY <1>3, <1>7, <3>1
    <3>2. CASE d # c
      <4>1. chats'[d] = chats[d] /\ chats[d].last \in Messages /\ chats[d].last # m
          BY <1>1, <1>3, <2>1, <3>2, ChatTypes DEF Linked
      <4> QED
          BY <1>1, <1>3, <2>1, <4>1 DEF Linked
    <3> QED
        BY <3>1, <3>2
  <2>2. ASSUME NEW n \in Messages, messages'[n] # None PROVE chats'[messages'[n].chat] # None
    <3>1. CASE n = m
        BY <1>3, <1>7, <3>1
    <3>2. CASE n # m
        BY <1>1, <1>3, <1>7, <2>2, <3>2, ChatTypes DEF Linked
    <3> QED
        BY <3>1, <3>2
  <2>3. \A n \in published' : messages'[n] # None
      BY <1>1, <1>3, <1>7 DEF Linked, TypeOK
  <2> QED
      BY <2>1, <2>2, <2>3 DEF Linked
<1>11. \A d \in Chats : Mine(d) => Mine(d)' /\ (d = c => members = chats[c].members)
    BY <1>3, <1>7 DEF Mine
<1>12. HasStream' /\ \A p : IdOf(p) = p.id /\ IdOf(p)' = p.id
    BY <1>1 DEF HasStream, IdOf
<1>13. ASSUME NEW p, NEW e \in EventsOf(p) PROVE e \in EventsOf(p)' /\ e # m
  <2>1. e \in Messages /\ messages[e] # None /\ ItemOf(e) = p.id /\ e # m
      BY DEF EventsOf
  <2>2. messages'[e] = messages[e]
      BY <1>3, <2>1
  <2> QED
      BY <1>1, <1>12, <2>1, <2>2 DEF EventsOf, ItemOf, ChatListEvent, ChatMessageListEvent,
         decodeChat, decodeChatMessage
<1>14. ASSUME NEW p, ItemOf(m)' = p.id PROVE Covered(p)'
  <2>1. m \in EventsOf(p)' /\ m \notin published'
      BY <1>1, <1>7, <1>12, <1>14 DEF EventsOf
  <2> QED
      BY <2>1 DEF Covered
<1>15. ASSUME NEW p \in Rows PROVE \E q \in Rows' : q.id = p.id
  <2>1. CASE feed = "chat list"
    <3>1. PICK d \in Chats : Mine(d) /\ p = [key |-> chats[d].lastAt, id |-> d]
        BY <2>1, ChatRowForm
    <3>2. Rows' = {[key |-> chats'[e].lastAt, id |-> e] : e \in {e \in Chats : Mine(e)'}}
        BY <1>1, <2>1 DEF Rows, ChatRows
    <3>3. [key |-> chats'[d].lastAt, id |-> d] \in Rows'
        BY <1>11, <3>1, <3>2
    <3> QED
        BY <3>1, <3>3
  <2>2. CASE feed = "chat messages"
    <3>1. PICK n \in Messages :
            /\ messages[n] # None /\ messages[n].chat = chat /\ Mine(chat)
            /\ p = [key |-> messages[n].at, id |-> n]
        BY <2>2, MessageRowForm
    <3>2. Rows' = {[key |-> messages'[e].at, id |-> e] :
            e \in {e \in Messages : messages'[e] # None /\ messages'[e].chat = chat /\ Mine(chat)'}}
        BY <1>1, <2>2 DEF Rows, MessageRows, Mine
    <3>3. messages'[n] = messages[n] /\ Mine(chat)'
        BY <1>1, <1>3, <1>11, <3>1, ChatTypes
    <3>4. [key |-> messages'[n].at, id |-> n] \in Rows'
        BY <3>1, <3>2, <3>3
    <3> QED
        BY <3>1, <3>4
  <2> QED
      BY <2>1, <2>2 DEF HasStream
<1>16. ASSUME NEW p \in Rows' PROVE p \in Rows \/ ItemOf(m)' = p.id
  <2>1. CASE feed = "chat list"
    <3>1. Rows' = {[key |-> chats'[e].lastAt, id |-> e] : e \in {e \in Chats : Mine(e)'}}
        BY <1>1, <2>1 DEF Rows, ChatRows
    <3>2. PICK d \in Chats : Mine(d)' /\ p = [key |-> chats'[d].lastAt, id |-> d]
        BY <3>1
    <3>3. CASE d = c
      <4>1. p.id = c
          BY <3>2, <3>3
      <4>2. messages'[m].chat = c
          BY <1>3
      <4>3. ItemOf(m)' = messages'[m].chat
          BY <1>1, <2>1 DEF ItemOf, ChatListEvent, ChatMessageListEvent,
             decodeChat, decodeChatMessage
      <4> QED
          BY <4>1, <4>2, <4>3
    <3>4. CASE d # c
      <4>1. chats'[d] = chats[d] /\ Mine(d)
          BY <1>3, <3>2, <3>4 DEF Mine
      <4> QED
          BY <2>1, <3>2, <4>1, ChatRowForm
    <3> QED
        BY <3>3, <3>4
  <2>2. CASE feed = "chat messages"
    <3>1. Rows' = {[key |-> messages'[e].at, id |-> e] :
            e \in {e \in Messages : messages'[e] # None /\ messages'[e].chat = chat /\ Mine(chat)'}}
        BY <1>1, <2>2 DEF Rows, MessageRows, Mine
    <3>2. PICK n \in Messages :
            /\ messages'[n] # None /\ messages'[n].chat = chat /\ Mine(chat)'
            /\ p = [key |-> messages'[n].at, id |-> n]
        BY <3>1
    <3>3. CASE n = m
        BY <1>1, <2>2, <3>2, <3>3 DEF ItemOf, ChatListEvent, ChatMessageListEvent,
           decodeChat, decodeChatMessage
    <3>4. CASE n # m
      <4>1. messages'[n] = messages[n] /\ chat \in Chats /\ chats[chat] # None
          BY <1>1, <1>3, <3>2, <3>4, ChatTypes DEF Linked
      <4>2. Mine(chat)
          BY <1>1, <1>3, <3>2, <4>1 DEF Mine
      <4> QED
          BY <2>2, <3>2, <4>1, <4>2, MessageRowForm
    <3> QED
        BY <3>3, <3>4
  <2> QED
      BY <2>1, <2>2 DEF HasStream
<1>17. OnlyMembersSee'
  <2>1. IdsOf(Rows) \subseteq IdsOf(Rows)'
      BY <1>12, <1>15 DEF IdsOf
  <2> QED
      BY <1>1, <2>1 DEF IInv, OnlyMembersSee
<1>18. NoRowTwice'
  <2>1. ASSUME feed # "chat list", NEW k \in IdsOf(Below(Rows, cursor))' PROVE k \notin paged
    <3>1. PICK p \in Rows' : (\A d \in cursor : Before(d, p)) /\ k = p.id
        BY <1>1, <1>12 DEF IdsOf, Below
    <3>2. CASE p \in Rows
        BY <1>12, <2>1, <3>1, <3>2 DEF IInv, NoRowTwice, IdsOf, Below
    <3>3. CASE ItemOf(m)' = p.id
      <4>1. k = m
          BY <1>1, <2>1, <3>1, <3>3 DEF ItemOf, ChatListEvent, ChatMessageListEvent,
             decodeChat, decodeChatMessage
      <4>2. ASSUME m \in paged PROVE FALSE
        <5>1. PICK q \in Rows : m = q.id
            BY <1>12, <4>2, PagedOfFeed DEF IdsOf
        <5>2. feed = "chat messages"
            BY <2>1 DEF HasStream
        <5>3. PICK n \in Messages : messages[n] # None /\ q = [key |-> messages[n].at, id |-> n]
            BY <5>2, MessageRowForm
        <5> QED
            BY <5>1, <5>3
      <4> QED
          BY <4>1, <4>2
    <3> QED
        BY <1>16, <3>2, <3>3
  <2> QED
      BY <1>1, <2>1 DEF NoRowTwice
<1>19. NothingMissed'
  <2>1. SUFFICES ASSUME phase # "closed", NEW p \in Rows' PROVE Covered(p)'
      BY <1>1 DEF NothingMissed, Covered
  <2>2. CASE ItemOf(m)' = p.id
      BY <1>14, <2>2
  <2>3. CASE p \in Rows
    <3>1. Covered(p)
        BY <2>1, <2>3, CoveredSuffices DEF IInv
    <3>2. CASE IdOf(p) \in seen
        BY <1>1, <1>12, <3>2 DEF Covered
    <3>3. CASE phase = "paging" /\ p \in Below(Rows, cursor)
        BY <1>1, <2>1, <3>3, BelowMember DEF Covered, Below
    <3>4. CASE \E e \in EventsOf(p) : e \notin published \/ e \in backlog
        BY <1>1, <1>13, <3>4 DEF Covered
    <3>5. CASE EventsOf(p) \cap lost # {}
        BY <1>1, <1>13, <3>5 DEF Covered, Excused
    <3>6. CASE CursorImprecise(p)
      <4>1. PICK i \in paged : ImpreciseAfter(i, p) /\ feed = "chat messages"
          BY <3>6, ImpreciseAfterPaged DEF ImpreciseAfter, HasStream
      <4>2. PICK q \in Rows : i = q.id
          BY <1>12, <4>1, PagedOfFeed DEF IdsOf
      <4>3. PICK n \in Messages : messages[n] # None /\ q = [key |-> messages[n].at, id |-> n]
          BY <4>1, MessageRowForm
      <4>4. messages'[i] = messages[i]
          BY <1>3, <4>2, <4>3
      <4>5. CursorImprecise(p)'
          BY <1>1, <4>1, <4>4 DEF ImpreciseAfter, CursorImprecise
      <4> QED
          BY <4>5 DEF Covered, Excused
    <3> QED
        BY <3>1, <3>2, <3>3, <3>4, <3>5, <3>6 DEF Covered, Excused
  <2> QED
      BY <1>16, <2>2, <2>3
<1> QED
    BY <1>8, <1>9, <1>10, <1>17, <1>18, <1>19 DEF IInv

-----------------------------------------------------------------------------
(* The theorems *)

LEMMA InitInv == Init => IInv
<1>1. SUFFICES ASSUME Init PROVE IInv
    OBVIOUS
<1>2. IsFiniteSet({}) /\ Cardinality({}) <= 1
    BY FS_EmptySet
<1>3. TypeOK
    BY <1>1, <1>2 DEF Init, TypeOK
<1>4. Linked
    BY <1>1 DEF Init, Linked
<1> QED
    BY <1>1, <1>3, <1>4
    DEF Init, IInv, Quiet, CursorShape, OnlyMembersSee, NoRowTwice, NothingMissed

LEMMA NextInv == IInv /\ [Next]_vars => IInv'
<1>1. SUFFICES ASSUME IInv, [Next]_vars PROVE IInv'
    OBVIOUS
<1>2. CASE UNCHANGED vars
  <2>1. UNCHANGED <<tables, published, subscribed, backlog, feed, phase, chat, cursor,
                    seen, paged, lost>>
      BY <1>2 DEF vars, tables
  <2>2. TypeOK' /\ Quiet' /\ Linked'
      BY <1>1, <2>1 DEF IInv, TypeOK, Quiet, Linked, tables, Streaming, HasStream
  <2>3. OnlyMembersSee'
      BY <1>1, <2>1, SameRows DEF IInv, OnlyMembersSee, IdsOf, IdOf
  <2>4. NothingMissed'
      BY <1>1, <2>1, StreamStep
  <2> QED
      BY <1>1, <2>1, <2>2, <2>3, <2>4, SamePages DEF IInv
<1>3. CASE feed = "candidates" /\ \E u \in Users : SignUp(u)
    BY <1>1, <1>3, SignUpKeeps
<1>4. CASE feed = "blogs" /\ \E b \in Blogs, at \in Times : CreateBlog(b, at)
    BY <1>1, <1>4, CreateBlogKeeps
<1>5. ASSUME HasStream, NEW m \in Messages, NEW c \in Chats, NEW at \in Times,
             NEW members \in MemberSets, CreateChat(c, members, m, at)
      PROVE  IInv'
    BY <1>1, <1>5, WriteKeeps DEF CreateChat, Insert, PointAt
<1>6. ASSUME HasStream, NEW m \in Messages, NEW c \in Chats, NEW at \in Times,
             CreateChatMessage(c, m, at)
      PROVE  IInv'
  <2>1. chats[c] # None /\ Insert(m, c, at) /\ PointAt(c, chats[c].members, m, at)
        /\ UNCHANGED <<profiles, blogs, published, stream, feed, client>>
      BY <1>6 DEF CreateChatMessage
  <2>2. chats[c] \in ChatType
      BY <1>1, <2>1 DEF IInv, TypeOK
  <2>3. chats[c].members \in MemberSets
      BY <2>2 DEF ChatType
  <2> QED
      BY <1>1, <1>6, <2>1, <2>3, WriteKeeps DEF Insert, PointAt
<1>7. ASSUME NEW m \in Messages, Publish(m) \/ Deliver(m) PROVE IInv'
    BY <1>1, <1>7, PublishKeeps, DeliverKeeps
<1>8. CASE Resubscribe \/ SubscriptionGone
    BY <1>1, <1>8, ResubscribeKeeps, SubscriptionGoneKeeps
<1>9. CASE Subscribe
    BY <1>1, <1>9, SubscribeKeeps
<1>10. ASSUME NEW n \in Limits, GetSlice(n) PROVE IInv'
  <2>1. PICK page : page = Slice(Rows, cursor, n)
      OBVIOUS
  <2>2. /\ phase = "paging"
        /\ \/ /\ page = {}
              /\ phase' = "complete"
              /\ UNCHANGED <<cursor, seen, paged>>
           \/ /\ \E p \in page : IsLast(p, page) /\ cursor' = nextCursor(p)
              /\ seen' = seen \cup IdsOf(page)
              /\ paged' = paged \cup IdsOf(page)
              /\ UNCHANGED phase
        /\ UNCHANGED <<tables, published, stream, feed, chat, lost>>
      BY <1>10, <2>1
      DEF GetSlice, getChatListSlice, getChatMessageListSlice, getChatCandidateListSlice,
          getBlogListSlice, Page
  <2>3. CASE page = {} /\ phase' = "complete" /\ UNCHANGED <<cursor, seen, paged>>
      BY <1>1, <2>1, <2>2, <2>3, LastPageKeeps
  <2>4. ASSUME NEW p \in page, IsLast(p, page), cursor' = nextCursor(p),
               seen' = seen \cup IdsOf(page), paged' = paged \cup IdsOf(page),
               UNCHANGED phase
        PROVE  IInv'
      BY <1>1, <2>1, <2>2, <2>4, PageKeeps
  <2> QED
      BY <2>2, <2>3, <2>4
<1>11. CASE Close
    BY <1>1, <1>11, CloseKeeps
<1> QED
    BY <1>1, <1>2, <1>3, <1>4, <1>5, <1>6, <1>7, <1>8, <1>9, <1>10, <1>11 DEF Next, Write

-----------------------------------------------------------------------------
(* The writers and the outbox of Feeds are those of the other modules *)

(* The messages in the table, and the outbox row of each on each topic: a  *)
(* message goes to those who are members of its chat.                      *)
Stored == {m \in Messages : messages[m] # None}

Topics == {"chat list", "chat messages"}

StoredEvents ==
    {[topic |-> t, message |-> m, to |-> chats[messages[m].chat].members] :
        t \in Topics, m \in Stored}

Store == INSTANCE ChatStore WITH events <- StoredEvents

(* A row of the outbox is published, and may be again. *)
Delivery == INSTANCE DurableDelivery WITH
    Events <- Messages, pending <- Stored, delivered <- published, settled <- {}

LEMMA NothingWritten == UNCHANGED <<chats, messages>> => UNCHANGED Store!store /\ UNCHANGED Stored
    BY DEF Store!store, StoredEvents, Stored

(* A message is stored: the events of the others go to whom they went, as  *)
(* the members of their chats have not changed.                            *)
LEMMA WriteSimulation ==
    ASSUME IInv, NEW m \in Messages, NEW c \in Chats, NEW at \in Times, NEW members,
           messages[m] = None, messages' = [messages EXCEPT ![m] = [chat |-> c, at |-> at]],
           chats' = [chats EXCEPT ![c] = [members |-> members, last |-> m, lastAt |-> ToDate(at)]],
           chats[c] = None \/ members = chats[c].members
    PROVE  Store!Write(c, members, m, at) /\ Stored' = Stored \cup {m}
<1> DEFINE to(n) == chats[messages[n].chat].members
           event(t, n, S) == [topic |-> t, message |-> n, to |-> S]
<1>1. [chat |-> c, at |-> at] # None
    BY DEF MessageType
<1>2. /\ messages'[m] = [chat |-> c, at |-> at] /\ chats'[c].members = members
      /\ \A n \in Messages \ {m} : messages'[n] = messages[n]
      /\ \A d \in Chats \ {c} : chats'[d] = chats[d]
    BY DEF IInv, TypeOK
<1>3. m \notin Stored /\ Stored' = Stored \cup {m}
    BY <1>1, <1>2 DEF Stored
<1>4. messages'[m].chat = c
    BY <1>2
<1>5. to(m)' = members
    BY <1>2, <1>4
<1>6. ASSUME NEW n \in Stored PROVE to(n)' = to(n)
  <2>1. messages'[n] = messages[n] /\ messages[n].chat \in Chats /\ chats[messages[n].chat] # None
      BY <1>2, <1>3, ChatTypes DEF IInv, Linked, Stored
  <2> QED
      BY <1>2, <2>1
<1>7. /\ StoredEvents = {event(t, n, to(n)) : t \in Topics, n \in Stored}
      /\ StoredEvents' = {event(t, n, to(n)') : t \in Topics, n \in Stored'}
    BY DEF StoredEvents, Topics
<1> HIDE DEF to, event
<1>8. StoredEvents' = StoredEvents \cup {event(t, m, members) : t \in Topics}
    BY <1>3, <1>5, <1>6, <1>7
<1> QED
    BY <1>3, <1>8 DEF Store!Write, Store!Topics, Topics, Store!ToDate, ToDate, event

(* Each write is one of the store; publishing is a delivery.               *)
LEMMA WriterSimulation ==
    IInv /\ [Next]_vars =>
        [Store!StoreNext]_Store!store /\ [Delivery!DNext]_Delivery!dvars
<1> SUFFICES ASSUME IInv, [Next]_vars
             PROVE  /\ Store!StoreNext \/ UNCHANGED Store!store
                    /\ Delivery!DNext \/ UNCHANGED Delivery!dvars
    OBVIOUS
<1>1. ASSUME NEW m \in Messages, NEW c \in Chats, NEW at \in Times, NEW members \in MemberSets,
             CreateChat(c, members, m, at)
      PROVE  Store!StoreNext /\ Delivery!DNext
  <2>1. /\ chats[c] = None /\ messages[m] = None /\ published' = published
        /\ Store!Write(c, members, m, at) /\ Stored' = Stored \cup {m}
      BY <1>1, WriteSimulation DEF CreateChat, Insert, PointAt
  <2> QED
      BY <2>1 DEF Store!StoreNext, Store!Create, Delivery!DNext, Delivery!Record, Stored
<1>2. ASSUME NEW m \in Messages, NEW c \in Chats, NEW at \in Times, CreateChatMessage(c, m, at)
      PROVE  Store!StoreNext /\ Delivery!DNext
  <2>1. /\ chats[c] # None /\ messages[m] = None /\ published' = published
        /\ Store!Write(c, chats[c].members, m, at) /\ Stored' = Stored \cup {m}
      BY <1>2, WriteSimulation DEF CreateChatMessage, Insert, PointAt
  <2> QED
      BY <2>1 DEF Store!StoreNext, Store!Send, Delivery!DNext, Delivery!Record, Stored
<1>3. ASSUME NEW m \in Messages, Publish(m)
      PROVE  UNCHANGED <<chats, messages>> /\ Delivery!DNext
  <2>1. UNCHANGED <<chats, messages>> /\ m \in Stored /\ published' = published \cup {m}
      BY <1>3 DEF Publish, tables, Stored
  <2> QED
      BY <2>1, NothingWritten DEF Delivery!DNext, Delivery!Deliver
<1>4. ASSUME UNCHANGED <<chats, messages, published>>
      PROVE  UNCHANGED Store!store /\ UNCHANGED Delivery!dvars
    BY <1>4, NothingWritten DEF Delivery!dvars
<1>5. ASSUME \/ \E u \in Users : SignUp(u)
             \/ \E b \in Blogs, at \in Times : CreateBlog(b, at)
             \/ \E m \in Messages : Deliver(m)
             \/ Resubscribe \/ SubscriptionGone \/ Subscribe
             \/ \E n \in Limits : GetSlice(n)
             \/ Close \/ UNCHANGED vars
      PROVE  UNCHANGED <<chats, messages, published>>
    BY <1>5 DEF SignUp, CreateBlog, Deliver, Resubscribe, SubscriptionGone, Subscribe,
       subscribeToChatList, subscribeToChatMessageListChanges, OpenWithoutStream, Open,
       GetSlice, getChatListSlice, getChatMessageListSlice, getChatCandidateListSlice,
       getBlogListSlice, Page, Close, tables, vars
<1> QED
    BY <1>1, <1>2, <1>3, <1>4, <1>5, NothingWritten DEF Next, Write

(* Everything the invariant says is so in every state of every run. *)
THEOREM Invariance == Spec => []IInv
    BY InitInv, NextInv, PTL DEF Spec

(* Tables, subscription and session of the client have their shapes: among *)
(* others, a replica without a subscription has no event to handle.        *)
THEOREM TypeCorrectness == Spec => []TypeOK
<1>1. IInv => TypeOK
    BY DEF IInv
<1> QED
    BY <1>1, Invariance, PTL

(* A client with an open stream that reads a feed page by page misses only *)
(* what an imprecise cursor skips and what was published while its replica *)
(* had no subscription (the readers, the event buses and the dispatch).    *)
THEOREM NothingIsMissed == Spec => []NothingMissed
<1>1. IInv => NothingMissed
    BY DEF IInv
<1> QED
    BY <1>1, Invariance, PTL

(* No page and no event shows a client what it is not a member of (the     *)
(* joins of the readers and the filters of the event buses).               *)
THEOREM MembersOnly == Spec => []OnlyMembersSee
<1>1. IInv => OnlyMembersSee
    BY DEF IInv
<1> QED
    BY <1>1, Invariance, PTL

(* But for chats that move, no row is on two pages (the keyset predicate). *)
THEOREM NoRepetition == Spec => []NoRowTwice
<1>1. IInv => NoRowTwice
    BY DEF IInv
<1> QED
    BY <1>1, Invariance, PTL

(* What a client of Feeds sees written is what ChatStore promises, and so  *)
(* what the transactions of ChatWrites do ...                              *)
THEOREM WritersFollowStore == Spec => Store!StoreSpec
<1>1. Init => Store!StoreInit
  <2>1. Stored = {} => StoredEvents = {}
      BY DEF StoredEvents
  <2>2. Init => Stored = {}
      BY DEF Init, Stored
  <2> QED
      BY <2>1, <2>2 DEF Init, Store!StoreInit
<1>2. IInv /\ [Next]_vars => [Store!StoreNext]_Store!store
    BY WriterSimulation
<1> QED
    BY <1>1, <1>2, Invariance, PTL DEF Spec, Store!StoreSpec

(* ... and nothing of it is left out: whichever write the store allows, a  *)
(* writer of Feeds can do, up to the bound of messages.                    *)
THEOREM EveryWriteIsModelled ==
    ASSUME HasStream, Cardinality(Stored) < MaxMessages[feed], Store!StoreNext,
           UNCHANGED <<profiles, blogs, published, stream, feed, client>>
    PROVE  Write
<1>1. ASSUME NEW c \in Chats, NEW m \in Messages, NEW at \in Times, NEW members,
             Store!Write(c, members, m, at)
      PROVE  Insert(m, c, at) /\ PointAt(c, members, m, at)
    BY <1>1 DEF Store!Write, Store!ToDate, Insert, PointAt, ToDate, Stored
<1>2. ASSUME NEW c \in Chats, NEW m \in Messages, NEW at \in Times, Store!Send(c, m, at)
      PROVE  CreateChatMessage(c, m, at)
    BY <1>1, <1>2 DEF Store!Send, CreateChatMessage
<1>3. ASSUME NEW c \in Chats, NEW m \in Messages, NEW at \in Times, NEW members \in MemberSets,
             Store!Create(c, members, m, at)
      PROVE  CreateChat(c, members, m, at)
    BY <1>1, <1>3 DEF Store!Create, CreateChat
<1> QED
    BY <1>2, <1>3 DEF Store!StoreNext, Write

(* The events a client of Feeds gets are published as DurableDelivery, and *)
(* so the outbox, delivers them: those of stored messages, in any order.   *)
THEOREM PublishingFollowsOutbox == Spec => Delivery!DSpec
<1>1. Init => Delivery!DInit
    BY DEF Init, Delivery!DInit, Stored
<1>2. IInv /\ [Next]_vars => [Delivery!DNext]_Delivery!dvars
    BY WriterSimulation
<1> QED
    BY <1>1, <1>2, Invariance, PTL DEF Spec, Delivery!DSpec

(* Where a cursor is as exact as the order: in the list of chats always,   *)
(* elsewhere if timestamps had no more than milliseconds and JavaScript    *)
(* and Postgres agreed on lower case.                                      *)
ExactCursors ==
    \/ feed = "chat list"
    \/ Millisecond = 1 /\ \A u \in Users : Lower[u] = ToLowerCase[u]

LEMMA ExactCursor ==
    ASSUME TypeOK, Linked, ExactCursors, NEW p \in Rows
    PROVE  nextCursor(p) = {p}
<1>1. CASE feed = "chat list"
    BY <1>1, NextCursor, Zenon
<1>2. ASSUME Millisecond = 1, NEW t \in Nat PROVE ToDate(t) = t
  <2>1. ToDate(t) \in Nat /\ ToDate(t) <= t /\ t < ToDate(t) + 1
      BY <1>2, ToDateMultiple
  <2> QED
      BY <2>1
<1>3. CASE feed = "chat messages" /\ Millisecond = 1
  <2>1. PICK m \in Messages : messages[m] # None /\ p = [key |-> messages[m].at, id |-> m]
      BY <1>3, MessageRowForm
  <2>2. messages[m].at \in Nat
      BY <2>1, ChatTypes, Zenon
  <2>3. ToDate(p.key) = p.key /\ p = [key |-> p.key, id |-> p.id]
      BY <1>2, <1>3, <2>1, <2>2
  <2> QED
      BY <1>3, <2>3 DEF nextCursor, ChatMessageListCursor
<1>4. CASE feed = "blogs" /\ Millisecond = 1
  <2>1. PICK b \in Blogs : blogs[b] # None /\ p = [key |-> blogs[b], id |-> b]
      BY <1>4, BlogRowForm
  <2>2. blogs[b] \in Nat
      BY <2>1, ChatTypes, Zenon
  <2>3. ToDate(p.key) = p.key /\ p = [key |-> p.key, id |-> p.id]
      BY <1>2, <1>4, <2>1, <2>2
  <2> QED
      BY <1>4, <2>3 DEF nextCursor, BlogCursor
<1>5. CASE feed = "candidates" /\ \A u \in Users : Lower[u] = ToLowerCase[u]
  <2>1. PICK u \in Users : p = [key |-> -Lower[u], id |-> -u]
      BY <1>5, CandidateRowForm DEF TypeOK
  <2>2. IdOf(p) = u /\ p.id = -u
      BY <1>5, <2>1 DEF IdOf
  <2> QED
      BY <1>5, <2>1, <2>2 DEF nextCursor, ChatCandidateCursor
<1> QED
    BY <1>1, <1>3, <1>4, <1>5 DEF ExactCursors, TypeOK

(* The pages of a feed with exact cursors tile it: each leaves to the next *)
(* ones all it did not show (the cursors of the lists).  The milliseconds  *)
(* and the lower case of the cursors are the only reason why another page  *)
(* skips a row.                                                            *)
THEOREM ExactPagesTile ==
    Spec => [][\A n \in Limits : ExactCursors /\ GetSlice(n) =>
                 Below(Rows, cursor)' = Below(Rows, cursor) \ Slice(Rows, cursor, n)]_vars
<1>1. ASSUME IInv, NEW n \in Limits, ExactCursors, GetSlice(n)
      PROVE  Below(Rows, cursor)' = Below(Rows, cursor) \ Slice(Rows, cursor, n)
  <2> DEFINE page == Slice(Rows, cursor, n)
  <2>1. Page(n) /\ UNCHANGED <<tables, feed, chat>>
      BY <1>1 DEF GetSlice, getChatListSlice, getChatMessageListSlice,
         getChatCandidateListSlice, getBlogListSlice, Page
  <2>2. Rows' = Rows
      BY <2>1, SameRows
  <2>3. CASE page = {} /\ cursor' = cursor
      BY <2>2, <2>3 DEF Below
  <2>4. ASSUME NEW p \in page, IsLast(p, page), cursor' = nextCursor(p)
        PROVE  Below(Rows, cursor)' = Below(Rows, cursor) \ page
    <3>1. Rows \subseteq Row /\ IsFiniteSet(Rows) /\ cursor \subseteq Row /\ n \in Nat
        BY <1>1, RowsAreRows, LimitType DEF IInv, TypeOK
    <3>2. p \in Rows
        BY DEF Slice, Below
    <3>3. cursor' = {p}
        BY <1>1, <2>4, <3>2, ExactCursor DEF IInv
    <3>4. Below(Rows, {p}) = Below(Rows, cursor) \ page
        BY <2>4, <3>1, PagesPartition
    <3>5. Below(Rows, cursor)' = Below(Rows, {p})
        BY <2>2, <3>3 DEF Below
    <3> QED
        BY <3>4, <3>5
  <2> QED
      BY <2>1, <2>3, <2>4 DEF Page
<1>2. ASSUME IInv, [Next]_vars
      PROVE  [\A n \in Limits : ExactCursors /\ GetSlice(n) =>
                Below(Rows, cursor)' = Below(Rows, cursor) \ Slice(Rows, cursor, n)]_vars
    BY <1>1, <1>2
<1> QED
    BY <1>2, Invariance, PTL DEF Spec
===============================================================================

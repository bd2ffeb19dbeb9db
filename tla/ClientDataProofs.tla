--------------------------- MODULE ClientDataProofs ---------------------------
(***************************************************************************)
(* Proofs about what the clients do with data, for listings of any length  *)
(* and chains and batches of any size: ListPaged and PayloadCodec, which   *)
(* share no state.                                                         *)
(***************************************************************************)
EXTENDS ListPaged, PayloadCodec, WellFoundedInduction, SequenceTheorems, TLAPS

-----------------------------------------------------------------------------
(* Least and greatest numbers.                                             *)

\* A set of numbers that is not empty has a least element, and Min is it.
LEMMA LeastOf ==
  ASSUME NEW S, S \subseteq Nat, S # {}
  PROVE  /\ Min(S) \in S
         /\ \A y \in S : Min(S) <= y
<1> DEFINE R == {ss \in Nat \X Nat : ss[1] < ss[2]}
<1>1. IsWellFoundedOn(R, Nat)
  BY NatLessThanWellFounded DEF OpToRel
<1>2. PICK x \in S : \A y \in S : ~(<<y, x>> \in R)
  <2> HIDE DEF R
  <2> QED BY <1>1, WFMin
<1>3. \A y \in S : x <= y
  <2> TAKE y \in S
  <2>1. <<y, x>> \notin R
    BY <1>2
  <2> QED BY <2>1
<1> QED BY <1>2, <1>3 DEF Min

\* An element that no other exceeds is the Max.
LEMMA GreatestIs ==
  ASSUME NEW S, S \subseteq Nat, NEW m \in S, \A y \in S : m >= y
  PROVE  Max(S) = m
<1>1. Max(S) \in S /\ \A y \in S : Max(S) >= y
  BY DEF Max
<1>2. Max(S) \in Nat /\ m \in Nat /\ Max(S) >= m /\ m >= Max(S)
  BY <1>1
<1> QED BY <1>2

-----------------------------------------------------------------------------
(* The sum of what the pages of a listing emitted: FoldLeft, by the        *)
(* recursion over sets of positions that defines it.                       *)

SumOf(q) == FoldLeft(LAMBDA s, r : s + r.emittedItems, 0, q)

\* f is that recursion on the sets of the first n positions.
Sums(q, n, f) ==
  f = [s \in SUBSET (1 .. n) |-> IF s = {} THEN 0 ELSE f[s \ {Max(s)}] + q[Max(s)].emittedItems]

\* There is a function that has the sum of every set of positions up to n: where
\* it did not exist there would be a first n.
LEMMA SumsExist ==
  ASSUME NEW q, NEW n \in Nat
  PROVE  \E f : Sums(q, n, f)
<1> DEFINE T == {m \in Nat : ~\E f : Sums(q, m, f)}
<1> SUFFICES ASSUME T # {} PROVE FALSE
  OBVIOUS
<1> DEFINE m == Min(T)
<1>1. m \in T /\ \A y \in T : m <= y
  <2>1. T \subseteq Nat
    OBVIOUS
  <2> HIDE DEF T
  <2> QED BY <2>1, LeastOf
<1> HIDE DEF m
<1>2. m \in Nat /\ ~\E f : Sums(q, m, f)
  BY <1>1
<1>3. CASE m = 0
  <2> DEFINE g == [s \in SUBSET (1 .. 0) |-> 0]
  <2>1. \A s \in SUBSET (1 .. 0) : s = {}
    OBVIOUS
  <2>2. g = [s \in SUBSET (1 .. 0) |-> IF s = {} THEN 0 ELSE g[s \ {Max(s)}] + q[Max(s)].emittedItems]
    BY <2>1
  <2> HIDE DEF g
  <2>3. Sums(q, 0, g)
    BY <2>2 DEF Sums
  <2> QED BY <1>2, <1>3, <2>3
<1>4. CASE m > 0
  <2>1. m - 1 \in Nat /\ m - 1 \notin T
    BY <1>1, <1>2, <1>4
  <2>2. PICK h : Sums(q, m - 1, h)
    BY <2>1
  <2> DEFINE g == [s \in SUBSET (1 .. m) |-> IF m \in s THEN h[s \ {m}] + q[m].emittedItems ELSE h[s]]
  <2>3. \A s \in SUBSET (1 .. m - 1) : g[s] = h[s]
    BY <1>2, <1>4
  <2>4. ASSUME NEW s \in SUBSET (1 .. m)
        PROVE  g[s] = IF s = {} THEN 0 ELSE g[s \ {Max(s)}] + q[Max(s)].emittedItems
    <3>1. CASE m \in s
      <4>1. Max(s) = m
        <5>1. s \subseteq Nat /\ \A y \in s : m >= y
          BY <1>2
        <5> QED BY <3>1, <5>1, GreatestIs
      <4>2. s \ {m} \in SUBSET (1 .. m - 1)
        BY <1>2
      <4>3. g[s] = h[s \ {m}] + q[m].emittedItems
        BY <3>1
      <4> HIDE DEF g
      <4> QED BY <2>3, <3>1, <4>1, <4>2, <4>3
    <3>2. CASE m \notin s
      <4>1. s \in SUBSET (1 .. m - 1) /\ s \ {Max(s)} \in SUBSET (1 .. m - 1)
        <5>1. \A i \in s : i \in 1 .. m - 1
          BY <1>2, <1>4, <3>2
        <5> QED BY <5>1
      <4>2. h[s] = IF s = {} THEN 0 ELSE h[s \ {Max(s)}] + q[Max(s)].emittedItems
        BY <2>2, <4>1 DEF Sums
      <4> HIDE DEF g
      <4> QED BY <2>3, <4>1, <4>2
    <3> QED BY <3>1, <3>2
  <2>5. g = [s \in SUBSET (1 .. m) |-> g[s]]
    OBVIOUS
  <2> HIDE DEF g
  <2>6. Sums(q, m, g)
    BY <2>4, <2>5 DEF Sums
  <2> QED BY <1>2, <2>6
<1> QED BY <1>2, <1>3, <1>4

\* What the recursion comes to for the first k positions.
LEMMA SumsOfFirst ==
  ASSUME NEW q, NEW n \in Nat, NEW f, Sums(q, n, f), NEW k \in 1 .. n
  PROVE  f[1 .. k] = f[1 .. k - 1] + q[k].emittedItems
<1>1. Max(1 .. k) = k
  <2>1. 1 .. k \subseteq Nat /\ k \in 1 .. k /\ \A y \in 1 .. k : k >= y
    OBVIOUS
  <2> QED BY <2>1, GreatestIs
<1>2. 1 .. k \in SUBSET (1 .. n) /\ 1 .. k # {} /\ (1 .. k) \ {k} = 1 .. k - 1
  OBVIOUS
<1>3. f[1 .. k] = IF 1 .. k = {} THEN 0 ELSE f[(1 .. k) \ {Max(1 .. k)}] + q[Max(1 .. k)].emittedItems
  BY <1>2 DEF Sums
<1> QED BY <1>1, <1>2, <1>3

\* No positions, no sum.
LEMMA SumsOfNone ==
  ASSUME NEW q, NEW n \in Nat, NEW f, Sums(q, n, f)
  PROVE  f[1 .. 0] = 0
<1>1. 1 .. 0 \in SUBSET (1 .. n) /\ 1 .. 0 = {}
  OBVIOUS
<1> QED BY <1>1 DEF Sums

\* Two sequences that agree on their first positions have the same sums there.
LEMMA SumsAgree ==
  ASSUME NEW q, NEW n \in Nat, NEW f, Sums(q, n, f),
         NEW p, NEW m \in Nat, NEW g, Sums(p, m, g), n <= m,
         \A i \in 1 .. n : q[i] = p[i],
         NEW k \in 0 .. n
  PROVE  f[1 .. k] = g[1 .. k]
<1> DEFINE T == {j \in 0 .. n : f[1 .. j] # g[1 .. j]}
<1> SUFFICES ASSUME T # {} PROVE FALSE
  OBVIOUS
<1> DEFINE j == Min(T)
<1>1. j \in T /\ \A y \in T : j <= y
  <2>1. T \subseteq Nat
    OBVIOUS
  <2> HIDE DEF T
  <2> QED BY <2>1, LeastOf
<1> HIDE DEF j
<1>2. j \in 0 .. n /\ f[1 .. j] # g[1 .. j]
  BY <1>1
<1>3. CASE j = 0
  <2>1. f[1 .. 0] = 0 /\ g[1 .. 0] = 0
    BY SumsOfNone
  <2> QED BY <1>2, <1>3, <2>1
<1>4. CASE j > 0
  <2>1. j - 1 \in 0 .. n /\ j - 1 \notin T
    BY <1>1, <1>2, <1>4
  <2>2. f[1 .. j - 1] = g[1 .. j - 1]
    BY <2>1
  <2>3. j \in 1 .. n /\ j \in 1 .. m
    BY <1>2, <1>4
  <2>4. f[1 .. j] = f[1 .. j - 1] + q[j].emittedItems /\ g[1 .. j] = g[1 .. j - 1] + p[j].emittedItems
    BY <2>3, SumsOfFirst
  <2>5. q[j] = p[j]
    BY <2>3
  <2> QED BY <1>2, <2>2, <2>4, <2>5
<1> QED BY <1>2, <1>3, <1>4

\* The total of the reports is the sum over all their positions.
LEMMA SumIs ==
  ASSUME NEW S, NEW q \in Seq(S)
  PROVE  \E f : Sums(q, Len(q), f) /\ SumOf(q) = f[1 .. Len(q)]
<1> DEFINE D == DOMAIN q
           f == CHOOSE f : f = [s \in SUBSET D |-> IF s = {} THEN 0 ELSE f[s \ {Max(s)}] + q[Max(s)].emittedItems]
<1>1. SumOf(q) = f[D]
  BY Zenon DEF SumOf, FoldLeft, MapThenFoldSet
<1>2. D = 1 .. Len(q) /\ Len(q) \in Nat
  OBVIOUS
<1>3. f = CHOOSE g : Sums(q, Len(q), g)
  BY <1>2, Zenon DEF Sums
<1> HIDE DEF f, D
<1>4. Sums(q, Len(q), f)
  <2>1. \E g : Sums(q, Len(q), g)
    BY <1>2, SumsExist
  <2> QED BY <1>3, <2>1, Zenon
<1> QED BY <1>1, <1>2, <1>4

\* Of no reports the total is 0.
LEMMA SumEmpty == SumOf(<<>>) = 0
<1>1. <<>> \in Seq({}) /\ Len(<<>>) = 0
  OBVIOUS
<1>2. PICK f : Sums(<<>>, 0, f) /\ SumOf(<<>>) = f[1 .. 0]
  BY <1>1, SumIs
<1> QED BY <1>2, SumsOfNone

\* One more report adds what its page emitted.
LEMMA SumAppend ==
  ASSUME NEW S, NEW q \in Seq(S), NEW r \in S
  PROVE  SumOf(Append(q, r)) = SumOf(q) + r.emittedItems
<1> DEFINE p == Append(q, r)
           n == Len(q)
<1>1. /\ p \in Seq(S) /\ Len(p) = n + 1 /\ n \in Nat
      /\ p[n + 1] = r /\ \A i \in 1 .. n : q[i] = p[i]
  OBVIOUS
<1> HIDE DEF p
<1>2. PICK f : Sums(q, n, f) /\ SumOf(q) = f[1 .. n]
  BY SumIs
<1>3. PICK g : Sums(p, n + 1, g) /\ SumOf(p) = g[1 .. n + 1]
  BY <1>1, SumIs
<1> HIDE DEF n
<1>4. g[1 .. n + 1] = g[1 .. n] + p[n + 1].emittedItems
  <2>1. n + 1 \in Nat /\ n + 1 \in 1 .. n + 1 /\ (n + 1) - 1 = n
    BY <1>1
  <2> QED BY <1>3, <2>1, SumsOfFirst
<1>5. f[1 .. n] = g[1 .. n]
  <2>1. n + 1 \in Nat /\ n <= n + 1 /\ n \in 0 .. n
    BY <1>1
  <2> QED BY <1>1, <1>2, <1>3, <2>1, SumsAgree
<1> QED BY <1>1, <1>2, <1>3, <1>4, <1>5 DEF p

-----------------------------------------------------------------------------
(* ListPaged.                                                              *)

Cursor == [token : Nat \cup {NoToken}, page : Nat, emitted : Nat, remaining : Nat \cup {Unlimited}]
Report == [page : Nat, requestedPageSize : Nat, receivedItems : Nat, emittedItems : Nat,
           totalEmittedItems : Nat, hasNextPage : BOOLEAN]
Upto(n) == [i \in 1 .. n |-> i]

ListType ==
  /\ total \in Nat /\ options \in [pageSize : Nat, limit : Nat]
  /\ cursor \in Cursor
  /\ pending \in Seq(Nat) /\ listed \in Seq(Nat) /\ reports \in Seq(Report)

\* A listing that goes on has passed on every item before its token and is
\* below its limit; one that is through has passed on what was asked for.
CursorOK(c) ==
  /\ c.emitted <= Wanted
  /\ c.remaining = IF options.limit > 0 THEN options.limit - c.emitted ELSE Unlimited
  /\ c.token = NoToken => c.emitted = Wanted
  /\ c.token # NoToken => c.token = c.emitted /\ (options.limit > 0 => c.emitted < options.limit)

CursorInv == CursorOK(cursor)

\* The items passed on are those the consumer has and the rest of the page.
ListedInv ==
  /\ Len(listed) + Len(pending) = cursor.emitted
  /\ \A n \in 1 .. Len(listed) : listed[n] = n
  /\ \A n \in 1 .. Len(pending) : pending[n] = Len(listed) + n
  /\ outcome = "ended" => pending = <<>> /\ cursor.token = NoToken

HistoryInv ==
  /\ history.result = "none" => history.token \in 0 .. total /\ history.events = Upto(history.token)
  /\ history.result = "events" => history.events = Upto(total)

ReportsInv ==
  /\ \A n \in 1 .. Len(reports) :
       /\ reports[n].page = n
       /\ reports[n].totalEmittedItems = SumOf(SubSeq(reports, 1, n))
       /\ n < Len(reports) => reports[n].hasNextPage
  /\ outcome # "failed" =>
       /\ cursor.page = Len(reports) + 1
       /\ cursor.emitted = SumOf(reports)
       /\ reports = <<>> => cursor.token # NoToken
       /\ reports # <<>> => (reports[Len(reports)].hasNextPage <=> cursor.token # NoToken)

ListInv == ListType /\ CursorInv /\ ListedInv /\ HistoryInv /\ ReportsInv

\* A listing starts before its first item, with the whole of its limit.
LEMMA ListInvHolds == ListInit => ListInv
<1> SUFFICES ASSUME ListInit PROVE ListInv
  OBVIOUS
<1> USE ListPagedAssumption DEF NoToken
<1>1. total \in Nat /\ options \in [pageSize : Nat, limit : Nat]
  <2>1. total \in 0 .. MaxTotal /\ MaxTotal \in Nat
    BY DEF ListInit
  <2>2. PICK o \in [pageSize : PageSizes, limit : Limits] : options = o
    BY DEF ListInit
  <2>3. o \in [pageSize : Nat, limit : Nat]
    OBVIOUS
  <2> QED BY <2>1, <2>2, <2>3
<1>2. /\ cursor.token = 0 /\ cursor.page = 1 /\ cursor.emitted = 0
      /\ cursor.remaining = IF options.limit > 0 THEN options.limit ELSE Unlimited
      /\ cursor \in Cursor
  BY <1>1 DEF ListInit, InitialState, Cursor
<1>3. ListType
  BY <1>1, <1>2 DEF ListInit, ListType
<1>4. CursorInv
  BY <1>1, <1>2 DEF CursorInv, CursorOK, Wanted, Least
<1>5. ListedInv
  BY <1>2 DEF ListInit, ListedInv
<1>6. HistoryInv
  BY <1>1 DEF ListInit, HistoryInv, Upto
<1>7. ReportsInv
  BY <1>2, SumEmpty DEF ListInit, ReportsInv
<1> QED BY <1>3, <1>4, <1>5, <1>6, <1>7 DEF ListInv

\* The items between two positions.
LEMMA ItemsBetween ==
  ASSUME NEW m \in Nat, NEW n \in Nat, m <= n
  PROVE  LET items == [i \in 1 .. n - m |-> m + i] IN
         /\ items \in Seq(Nat) /\ Len(items) = n - m
         /\ \A i \in 1 .. n - m : items[i] = m + i
<1> DEFINE k == n - m
<1>1. k \in Nat
  OBVIOUS
<1> HIDE DEF k
<1>2. [i \in 1 .. k |-> m + i] \in [1 .. k -> Nat]
  BY <1>1
<1>3. [i \in 1 .. k |-> m + i] \in Seq(Nat) /\ Len([i \in 1 .. k |-> m + i]) = k
  BY <1>1, <1>2
<1> QED BY <1>1, <1>3 DEF k

\* A record of numbers and a flag is a report.
LEMMA ReportIs ==
  ASSUME NEW a \in Nat, NEW b \in Nat, NEW c \in Nat, NEW d \in Nat, NEW e \in Nat, NEW next \in BOOLEAN
  PROVE  [page |-> a, requestedPageSize |-> b, receivedItems |-> c, emittedItems |-> d,
          totalEmittedItems |-> e, hasNextPage |-> next] \in Report
  BY DEF Report

\* What a page does to a listing that goes on: its items follow those that
\* were passed on, the report counts them, and the cursor is right after them.
LEMMA PageTurned ==
  ASSUME ListType, CursorInv, cursor.token # NoToken,
         NEW size, NEW p \in ServerPages(cursor.token, size)
  PROVE  LET t == Turned(p) IN
         /\ t.items \in Seq(Nat) /\ Len(t.items) = t.report.emittedItems
         /\ \A i \in 1 .. Len(t.items) : t.items[i] = cursor.emitted + i
         /\ t.report \in Report
         /\ t.report.page = cursor.page
         /\ t.report.totalEmittedItems = t.cursor.emitted
         /\ t.report.hasNextPage <=> t.cursor.token # NoToken
         /\ t.cursor \in Cursor
         /\ t.cursor.page = cursor.page + 1
         /\ t.cursor.emitted = cursor.emitted + t.report.emittedItems
         /\ CursorOK(t.cursor)
<1> USE ListPagedAssumption DEF NoToken
<1> DEFINE all     == cursor.remaining = Unlimited
           emitted == IF all THEN ItemsOf(p) ELSE SubSeq(ItemsOf(p), 1, Least(cursor.remaining, p.to - p.from))
           left    == IF all THEN Unlimited ELSE cursor.remaining - Len(emitted)
           sofar   == cursor.emitted + Len(emitted)
           more    == hasNextPageToken(p) /\ (all \/ left > 0)
           token   == IF more THEN p.to ELSE NoToken
<1>1. /\ total \in Nat /\ options.limit \in Nat /\ options.pageSize \in Nat
      /\ cursor.page \in Nat /\ cursor.emitted \in Nat /\ cursor.token = cursor.emitted
      /\ cursor.remaining \in Nat \cup {Unlimited}
  BY DEF ListType, Cursor, CursorInv, CursorOK
<1>2. /\ p.from = cursor.emitted /\ p.to \in cursor.emitted .. total /\ p.next \in BOOLEAN
      /\ p.to < total => p.next
  BY <1>1 DEF ServerPages
<1>3. /\ all <=> ~(options.limit > 0)
      /\ options.limit > 0 => cursor.remaining = options.limit - cursor.emitted /\ cursor.remaining \in Nat \ {0}
  BY <1>1 DEF CursorInv, CursorOK
<1>4. /\ ItemsOf(p) \in Seq(Nat) /\ Len(ItemsOf(p)) = p.to - cursor.emitted
      /\ \A i \in 1 .. p.to - cursor.emitted : ItemsOf(p)[i] = cursor.emitted + i
  <2>1. p.from \in Nat /\ p.to \in Nat /\ p.from <= p.to /\ p.from = cursor.emitted
    BY <1>1, <1>2
  <2> QED BY <2>1, ItemsBetween DEF ItemsOf
<1> DEFINE count == IF all THEN p.to - cursor.emitted ELSE Least(cursor.remaining, p.to - cursor.emitted)
<1>5. count \in Nat /\ count <= p.to - cursor.emitted
  BY <1>1, <1>2, <1>3 DEF Least
<1>6. /\ emitted \in Seq(Nat) /\ Len(emitted) = count
      /\ \A i \in 1 .. count : emitted[i] = cursor.emitted + i
  <2>1. CASE all
    BY <1>4, <2>1
  <2>2. CASE ~all
    <3> DEFINE n == Least(cursor.remaining, p.to - cursor.emitted)
    <3>1. emitted = SubSeq(ItemsOf(p), 1, n) /\ count = n
      BY <1>2, <2>2
    <3> HIDE DEF n, count, emitted, all
    <3>2. \A i \in 1 .. n : ItemsOf(p)[i] \in Nat /\ ItemsOf(p)[i] = cursor.emitted + i
      <4> TAKE i \in 1 .. n
      <4>1. i \in Nat /\ i \in 1 .. p.to - cursor.emitted
        BY <1>1, <1>2, <1>5, <3>1
      <4> QED BY <1>1, <1>4, <4>1
    <3>3. n \in Nat /\ 1 \in Int /\ n \in Int
      BY <1>5, <3>1
    <3>4. /\ SubSeq(ItemsOf(p), 1, n) \in Seq(Nat)
          /\ Len(SubSeq(ItemsOf(p), 1, n)) = IF 1 <= n THEN n - 1 + 1 ELSE 0
          /\ \A i \in 1 .. n - 1 + 1 : SubSeq(ItemsOf(p), 1, n)[i] = ItemsOf(p)[1 + i - 1]
      BY <3>2, <3>3, SubSeqProperties
    <3> QED BY <3>1, <3>2, <3>3, <3>4
  <2> QED BY <2>1, <2>2
<1>7. /\ Turned(p).items = emitted
      /\ Turned(p).cursor = [token |-> token, remaining |-> left, page |-> cursor.page + 1, emitted |-> sofar]
      /\ Turned(p).report = [page |-> cursor.page, requestedPageSize |-> requestedPageSize,
                             receivedItems |-> p.to - p.from, emittedItems |-> Len(emitted),
                             totalEmittedItems |-> sofar, hasNextPage |-> more]
  BY DEF Turned
<1>8. sofar = cursor.emitted + count /\ (~all => left = cursor.remaining - count) /\ (all => left = Unlimited)
  BY <1>6
<1>9. more <=> p.next /\ (all \/ left > 0)
  BY DEF hasNextPageToken
<1>10. more \in BOOLEAN
  BY <1>2, Zenon DEF hasNextPageToken
<1> HIDE DEF emitted, left, sofar, more, token
<1>11. requestedPageSize \in Nat
  BY <1>1, <1>3 DEF requestedPageSize, Least
<1>12. sofar \in Nat /\ sofar <= p.to /\ (left \in Nat \/ (all /\ left = Unlimited))
  BY <1>1, <1>2, <1>3, <1>5, <1>8 DEF Least
<1>13. token = (IF more THEN p.to ELSE NoToken) /\ (token # NoToken <=> more) /\ token \in Nat \cup {NoToken}
  BY <1>1, <1>2 DEF token
<1>14. more => p.to = sofar /\ (options.limit > 0 => sofar < options.limit)
  BY <1>1, <1>2, <1>3, <1>5, <1>8, <1>9 DEF Least
<1>15. ~more => sofar = Wanted
  BY <1>1, <1>2, <1>3, <1>5, <1>8, <1>9 DEF Least, Wanted
<1>16. sofar <= Wanted
  BY <1>1, <1>2, <1>3, <1>5, <1>8 DEF Least, Wanted
<1>17. left = IF options.limit > 0 THEN options.limit - sofar ELSE Unlimited
  BY <1>1, <1>3, <1>5, <1>8
<1>18. CursorOK(Turned(p).cursor)
  BY <1>7, <1>13, <1>14, <1>15, <1>16, <1>17 DEF CursorOK
<1>19. Turned(p).report \in Report /\ Turned(p).cursor \in Cursor
  <2>1. /\ cursor.page \in Nat /\ cursor.page + 1 \in Nat /\ p.to - p.from \in Nat
        /\ Len(emitted) \in Nat /\ left \in Nat \cup {Unlimited}
    BY <1>1, <1>2, <1>5, <1>6, <1>12
  <2> HIDE DEF count, all
  <2>2. Turned(p).cursor \in Cursor
    BY <1>7, <1>12, <1>13, <2>1 DEF Cursor
  <2>3. Turned(p).report \in Report
    <3> DEFINE r == [page |-> cursor.page, requestedPageSize |-> requestedPageSize,
                     receivedItems |-> p.to - p.from, emittedItems |-> Len(emitted),
                     totalEmittedItems |-> sofar, hasNextPage |-> more]
    <3>1. sofar \in Nat
      BY <1>12
    <3>2. r \in Report
      BY <1>10, <1>11, <2>1, <3>1, ReportIs
    <3>3. Turned(p).report = r
      BY <1>7, Zenon
    <3> HIDE DEF r
    <3> QED BY <3>2, <3>3
  <2> QED BY <2>2, <2>3
<1> HIDE DEF count, all
<1> QED BY <1>5, <1>6, <1>7, <1>8, <1>13, <1>18, <1>19

\* The reports after one more page of a listing that goes on.
LEMMA OneMoreReport ==
  ASSUME ListType, ReportsInv, outcome # "failed", cursor.token # NoToken,
         NEW r \in Report, r.page = cursor.page, r.totalEmittedItems = cursor.emitted + r.emittedItems
  PROVE  LET longer == Append(reports, r) IN
         /\ longer \in Seq(Report) /\ Len(longer) = Len(reports) + 1 /\ longer[Len(longer)] = r
         /\ SumOf(longer) = r.totalEmittedItems
         /\ \A n \in 1 .. Len(longer) :
              /\ longer[n].page = n
              /\ longer[n].totalEmittedItems = SumOf(SubSeq(longer, 1, n))
              /\ n < Len(longer) => longer[n].hasNextPage
<1> DEFINE longer == Append(reports, r)
<1>1. /\ reports \in Seq(Report) /\ Len(reports) \in Nat
      /\ longer \in Seq(Report) /\ Len(longer) = Len(reports) + 1 /\ longer[Len(longer)] = r
      /\ \A n \in 1 .. Len(reports) : longer[n] = reports[n]
  BY DEF ListType
<1> HIDE DEF longer
<1>2. /\ cursor.page = Len(reports) + 1 /\ cursor.emitted = SumOf(reports)
      /\ reports # <<>> => reports[Len(reports)].hasNextPage
  BY DEF ReportsInv
<1>3. SumOf(longer) = r.totalEmittedItems
  <2>1. SumOf(longer) = SumOf(reports) + r.emittedItems
    BY <1>1, SumAppend DEF longer
  <2> QED BY <1>2, <2>1
<1>4. ASSUME NEW n \in 1 .. Len(longer)
      PROVE  /\ longer[n].page = n
             /\ longer[n].totalEmittedItems = SumOf(SubSeq(longer, 1, n))
             /\ n < Len(longer) => longer[n].hasNextPage
  <2>1. CASE n = Len(longer)
    <3>1. SubSeq(longer, 1, n) = longer
      BY <1>1, <2>1, SubSeqFull
    <3>2. longer[n] = r /\ r.page = n /\ ~(n < Len(longer))
      BY <1>1, <1>2, <2>1
    <3>3. longer[n].totalEmittedItems = SumOf(SubSeq(longer, 1, n))
      BY <1>3, <3>1, <3>2
    <3> QED BY <3>2, <3>3
  <2>2. CASE n # Len(longer)
    <3>1. n \in 1 .. Len(reports)
      BY <1>1, <2>2
    <3>2. SubSeq(longer, 1, n) = SubSeq(reports, 1, n)
      <4>1. \A i \in 1 .. n : longer[i] \in Report /\ reports[i] \in Report /\ longer[i] = reports[i]
        BY <1>1, <3>1
      <4>2. 1 \in Int /\ n \in Int /\ n \in Nat
        BY <3>1
      <4>3. /\ SubSeq(longer, 1, n) \in Seq(Report)
            /\ Len(SubSeq(longer, 1, n)) = IF 1 <= n THEN n - 1 + 1 ELSE 0
            /\ \A i \in 1 .. n - 1 + 1 : SubSeq(longer, 1, n)[i] = longer[1 + i - 1]
        BY <4>1, <4>2, SubSeqProperties
      <4>4. /\ SubSeq(reports, 1, n) \in Seq(Report)
            /\ Len(SubSeq(reports, 1, n)) = IF 1 <= n THEN n - 1 + 1 ELSE 0
            /\ \A i \in 1 .. n - 1 + 1 : SubSeq(reports, 1, n)[i] = reports[1 + i - 1]
        BY <4>1, <4>2, SubSeqProperties
      <4>5. \A i \in 1 .. Len(SubSeq(longer, 1, n)) : SubSeq(longer, 1, n)[i] = SubSeq(reports, 1, n)[i]
        BY <4>1, <4>2, <4>3, <4>4
      <4> QED BY <4>3, <4>4, <4>5, SeqEqual
    <3>3. /\ reports[n].page = n
          /\ reports[n].totalEmittedItems = SumOf(SubSeq(reports, 1, n))
          /\ n < Len(reports) => reports[n].hasNextPage
      BY <3>1 DEF ReportsInv
    <3>4. reports # <<>>
      BY <1>1, <3>1
    <3>5. longer[n] = reports[n] /\ reports[n].hasNextPage
      BY <1>1, <1>2, <3>1, <3>3, <3>4
    <3> QED BY <3>2, <3>3, <3>5
  <2> QED BY <2>1, <2>2
<1> QED BY <1>1, <1>3, <1>4 DEF longer

\* The events up to a page's first item, and the items of the page.
LEMMA EventsGrow ==
  ASSUME NEW m \in Nat, NEW n \in Nat, m <= n
  PROVE  Upto(m) \o [i \in 1 .. n - m |-> m + i] = Upto(n)
<1> DEFINE items == [i \in 1 .. n - m |-> m + i]
<1>1. items \in Seq(Nat) /\ Len(items) = n - m /\ \A i \in 1 .. n - m : items[i] = m + i
  BY ItemsBetween
<1>2. /\ Upto(m) \in Seq(Nat) /\ Len(Upto(m)) = m /\ \A i \in 1 .. m : Upto(m)[i] = i
      /\ Upto(n) \in Seq(Nat) /\ Len(Upto(n)) = n /\ \A i \in 1 .. n : Upto(n)[i] = i
  <2>1. \A k \in Nat : Upto(k) \in [1 .. k -> Nat]
    BY DEF Upto
  <2> QED BY <2>1 DEF Upto
<1> HIDE DEF items
<1>3. /\ Upto(m) \o items \in Seq(Nat) /\ Len(Upto(m) \o items) = n
      /\ \A i \in 1 .. m + (n - m) : (Upto(m) \o items)[i] = IF i <= m THEN Upto(m)[i] ELSE items[i - m]
  <2>1. /\ Upto(m) \o items \in Seq(Nat) /\ Len(Upto(m) \o items) = Len(Upto(m)) + Len(items)
        /\ \A i \in 1 .. Len(Upto(m)) + Len(items) :
             (Upto(m) \o items)[i] = IF i <= Len(Upto(m)) THEN Upto(m)[i] ELSE items[i - Len(Upto(m))]
    BY <1>1, <1>2, ConcatProperties
  <2>2. Len(Upto(m)) = m /\ Len(items) = n - m /\ m + (n - m) = n
    BY <1>1, <1>2
  <2> QED BY <2>1, <2>2
<1>4. \A i \in 1 .. n : (Upto(m) \o items)[i] = Upto(n)[i]
  <2> SUFFICES ASSUME NEW i \in 1 .. n PROVE (Upto(m) \o items)[i] = i
    BY <1>2
  <2>1. i \in 1 .. m + (n - m)
    OBVIOUS
  <2>2. CASE i <= m
    BY <1>2, <1>3, <2>1, <2>2
  <2>3. CASE ~(i <= m)
    <3>1. i - m \in 1 .. n - m
      BY <2>3
    <3> QED BY <1>1, <1>3, <2>1, <2>3, <3>1
  <2> QED BY <2>2, <2>3
<1>5. Upto(m) \o items = Upto(n)
  BY <1>2, <1>3, <1>4, SeqEqual
<1> QED BY <1>5 DEF items

\* Pages, items, the consumer and the history steps keep the account.
LEMMA ListInvStep == ListInv /\ [ListNext]_listVars => ListInv'
<1> SUFFICES ASSUME ListInv, [ListNext]_listVars PROVE ListInv'
  OBVIOUS
<1> USE ListPagedAssumption DEF NoToken
<1>0. ListType /\ CursorInv /\ ListedInv /\ HistoryInv /\ ReportsInv
  BY DEF ListInv
<1>1. CASE FetchPage
  <2>1. outcome = "open" /\ pending = <<>> /\ cursor.token # NoToken /\ UNCHANGED <<total, options, listed, outcome, history>>
    BY <1>1 DEF FetchPage, Pulls
  <2>2. PICK p \in ServerPages(cursor.token, requestedPageSize) :
          /\ pending' = Turned(p).items /\ cursor' = Turned(p).cursor
          /\ reports' = Append(reports, Turned(p).report)
    BY <1>1 DEF FetchPage
  <2> DEFINE items == Turned(p).items
             c == Turned(p).cursor
             r == Turned(p).report
  <2>3. /\ items \in Seq(Nat) /\ Len(items) = r.emittedItems
        /\ \A i \in 1 .. Len(items) : items[i] = cursor.emitted + i
        /\ r \in Report /\ r.page = cursor.page /\ r.totalEmittedItems = c.emitted
        /\ r.hasNextPage <=> c.token # NoToken
        /\ c \in Cursor /\ c.page = cursor.page + 1 /\ c.emitted = cursor.emitted + r.emittedItems
        /\ CursorOK(c)
    BY <1>0, <2>1, PageTurned
  <2>4. pending' = items /\ cursor' = c /\ reports' = Append(reports, r)
    BY <2>2
  <2> HIDE DEF items, c, r
  <2>5. /\ reports' \in Seq(Report) /\ Len(reports') = Len(reports) + 1 /\ reports'[Len(reports')] = r
        /\ SumOf(reports') = r.totalEmittedItems
        /\ \A n \in 1 .. Len(reports') :
             /\ reports'[n].page = n
             /\ reports'[n].totalEmittedItems = SumOf(SubSeq(reports', 1, n))
             /\ n < Len(reports') => reports'[n].hasNextPage
    <3> DEFINE longer == Append(reports, r)
    <3>1. /\ longer \in Seq(Report) /\ Len(longer) = Len(reports) + 1 /\ longer[Len(longer)] = r
          /\ SumOf(longer) = r.totalEmittedItems
          /\ \A n \in 1 .. Len(longer) :
               /\ longer[n].page = n
               /\ longer[n].totalEmittedItems = SumOf(SubSeq(longer, 1, n))
               /\ n < Len(longer) => longer[n].hasNextPage
      <4>1. /\ ListType /\ ReportsInv /\ outcome # "failed" /\ cursor.token # NoToken
            /\ r \in Report /\ r.page = cursor.page
            /\ r.totalEmittedItems = cursor.emitted + r.emittedItems
        BY <1>0, <2>1, <2>3
      <4> QED BY <4>1, OneMoreReport
    <3> HIDE DEF longer
    <3>2. reports' = longer
      BY <2>4 DEF longer
    <3> QED BY <3>1, <3>2
  <2>6. ListType'
    BY <1>0, <2>1, <2>3, <2>4, <2>5 DEF ListType
  <2>7. CursorInv'
    BY <2>1, <2>3, <2>4 DEF CursorInv, CursorOK, Wanted
  <2>8. ListedInv'
    BY <1>0, <2>1, <2>3, <2>4 DEF ListedInv, ListType
  <2>9. HistoryInv'
    BY <1>0, <2>1 DEF HistoryInv
  <2>10. ReportsInv'
    <3>1. Len(reports) \in Nat /\ cursor.page = Len(reports) + 1 /\ reports' # <<>>
      BY <1>0, <2>1, <2>5 DEF ReportsInv, ListType
    <3> QED BY <2>3, <2>4, <2>5, <3>1 DEF ReportsInv
  <2> QED BY <2>6, <2>7, <2>8, <2>9, <2>10 DEF ListInv
<1>2. CASE FetchFails
  <2>1. /\ outcome = "open" /\ cursor.token # NoToken /\ outcome' = "failed"
        /\ UNCHANGED <<total, options, cursor, pending, listed, history>>
    BY <1>2 DEF FetchFails, Pulls
  <2>2. CursorInv' /\ ListedInv' /\ HistoryInv'
    BY <1>0, <2>1 DEF CursorInv, CursorOK, Wanted, ListedInv, HistoryInv
  <2>3. CASE reports' = reports
    BY <1>0, <2>1, <2>2, <2>3 DEF ListInv, ListType, ReportsInv
  <2>4. ASSUME NEW p \in ServerPages(cursor.token, requestedPageSize), reports' = Append(reports, Turned(p).report)
        PROVE  ListInv'
    <3> DEFINE r == Turned(p).report
    <3>1. r \in Report /\ r.page = cursor.page /\ r.totalEmittedItems = cursor.emitted + r.emittedItems
      BY <1>0, <2>1, PageTurned
    <3>2. reports' = Append(reports, r)
      BY <2>4
    <3> HIDE DEF r
    <3>3. /\ reports' \in Seq(Report)
          /\ \A n \in 1 .. Len(reports') :
               /\ reports'[n].page = n
               /\ reports'[n].totalEmittedItems = SumOf(SubSeq(reports', 1, n))
               /\ n < Len(reports') => reports'[n].hasNextPage
      <4> DEFINE longer == Append(reports, r)
      <4>1. /\ ListType /\ ReportsInv /\ outcome # "failed" /\ cursor.token # NoToken
            /\ r \in Report /\ r.page = cursor.page
            /\ r.totalEmittedItems = cursor.emitted + r.emittedItems
        BY <1>0, <2>1, <3>1
      <4>2. /\ longer \in Seq(Report)
            /\ \A n \in 1 .. Len(longer) :
                 /\ longer[n].page = n
                 /\ longer[n].totalEmittedItems = SumOf(SubSeq(longer, 1, n))
                 /\ n < Len(longer) => longer[n].hasNextPage
        BY <4>1, OneMoreReport
      <4> HIDE DEF longer
      <4>3. reports' = longer
        BY <3>2 DEF longer
      <4> QED BY <4>2, <4>3
    <3> QED BY <1>0, <2>1, <2>2, <3>3 DEF ListInv, ListType, ReportsInv
  <2> QED BY <1>2, <2>3, <2>4 DEF FetchFails
<1>3. CASE DecodeItem
  <2>1. /\ outcome = "open" /\ pending # <<>>
        /\ listed' = Append(listed, Head(pending)) /\ pending' = Tail(pending)
        /\ UNCHANGED <<total, options, cursor, reports, outcome, history>>
    BY <1>3 DEF DecodeItem
  <2>2. /\ pending \in Seq(Nat) /\ listed \in Seq(Nat) /\ Len(pending) \in Nat \ {0} /\ Len(listed) \in Nat
        /\ Head(pending) \in Nat /\ Head(pending) = pending[1]
        /\ Tail(pending) \in Seq(Nat) /\ Len(Tail(pending)) = Len(pending) - 1
        /\ \A i \in 1 .. Len(pending) - 1 : Tail(pending)[i] = pending[i + 1]
    BY <1>0, <2>1, HeadTailProperties DEF ListType
  <2>3. /\ listed' \in Seq(Nat) /\ Len(listed') = Len(listed) + 1
        /\ \A i \in 1 .. Len(listed) : listed'[i] = listed[i]
        /\ listed'[Len(listed) + 1] = pending[1]
    BY <2>1, <2>2
  <2>4. ListType'
    BY <1>0, <2>1, <2>2, <2>3 DEF ListType
  <2>5. ListedInv'
    <3>1. pending[1] = Len(listed) + 1
      BY <1>0, <2>2 DEF ListedInv
    <3>0. Len(listed) \in Nat
      BY <2>2
    <3>2. ASSUME NEW n \in 1 .. Len(listed) + 1 PROVE listed'[n] = n
      <4>1. n = Len(listed) + 1 \/ n <= Len(listed)
        BY <3>0
      <4>2. CASE n = Len(listed) + 1
        BY <2>3, <3>1, <4>2
      <4>3. CASE n <= Len(listed)
        <5>1. n \in 1 .. Len(listed)
          BY <2>2, <4>3
        <5> QED BY <1>0, <2>3, <5>1 DEF ListedInv
      <4> QED BY <4>1, <4>2, <4>3
    <3>3. ASSUME NEW n \in 1 .. Len(pending) - 1 PROVE pending'[n] = Len(listed) + 1 + n
      <4>1. n + 1 \in 1 .. Len(pending) /\ pending'[n] = pending[n + 1]
        BY <2>1, <2>2
      <4>2. pending[n + 1] = Len(listed) + (n + 1)
        BY <1>0, <4>1 DEF ListedInv
      <4> QED BY <2>2, <4>1, <4>2
    <3>4. Len(listed') + Len(pending') = cursor.emitted
      BY <1>0, <2>1, <2>2, <2>3 DEF ListedInv
    <3> QED BY <2>1, <2>2, <2>3, <3>2, <3>3, <3>4 DEF ListedInv
  <2>6. CursorInv' /\ HistoryInv' /\ ReportsInv'
    BY <1>0, <2>1 DEF CursorInv, CursorOK, Wanted, HistoryInv, ReportsInv
  <2> QED BY <2>4, <2>5, <2>6 DEF ListInv
<1>4. CASE DecodeFails
  <2>1. outcome' = "failed" /\ outcome = "open" /\ UNCHANGED <<total, options, cursor, pending, listed, reports, history>>
    BY <1>4 DEF DecodeFails
  <2> QED BY <1>0, <2>1 DEF ListInv, ListType, CursorInv, CursorOK, Wanted, ListedInv, HistoryInv, ReportsInv
<1>5. CASE StreamEnds
  <2>1. /\ outcome' = "ended" /\ outcome = "open" /\ pending = <<>> /\ cursor.token = NoToken
        /\ UNCHANGED <<total, options, cursor, pending, listed, reports, history>>
    BY <1>5 DEF StreamEnds
  <2> QED BY <1>0, <2>1 DEF ListInv, ListType, CursorInv, CursorOK, Wanted, ListedInv, HistoryInv, ReportsInv
<1>6. CASE ConsumerStops
  <2>1. outcome' = "stopped" /\ outcome = "open" /\ UNCHANGED <<total, options, cursor, pending, listed, reports, history>>
    BY <1>6 DEF ConsumerStops
  <2> QED BY <1>0, <2>1 DEF ListInv, ListType, CursorInv, CursorOK, Wanted, ListedInv, HistoryInv, ReportsInv
<1>7. ASSUME UNCHANGED <<total, options, cursor, pending, listed, reports, outcome>>, HistoryInv'
      PROVE  ListInv'
  BY <1>0, <1>7 DEF ListInv, ListType, CursorInv, CursorOK, Wanted, ListedInv, ReportsInv
<1>8. CASE FetchEvents
  <2>1. history.result = "none" /\ UNCHANGED <<total, options, cursor, pending, listed, reports, outcome>>
    BY <1>8 DEF FetchEvents, Reading
  <2>2. PICK p \in ServerPages(history.token, options.pageSize) :
          history' = [token  |-> IF hasNextPageToken(p) THEN p.to ELSE NoToken,
                      events |-> history.events \o ItemsOf(p),
                      result |-> IF hasNextPageToken(p) THEN "none" ELSE "events"]
    BY <1>8 DEF FetchEvents
  <2>3. history.token \in 0 .. total /\ history.events = Upto(history.token) /\ total \in Nat
    BY <1>0, <2>1 DEF HistoryInv, ListType
  <2>4. /\ p.from = history.token /\ p.to \in Nat /\ history.token <= p.to /\ p.to <= total
        /\ p.to < total => p.next
    BY <2>3 DEF ServerPages
  <2>5. history'.events = Upto(p.to)
    <3>1. history.events \o ItemsOf(p) = Upto(p.to)
      <4> DEFINE m == history.token
      <4>1. m \in Nat /\ m <= p.to /\ ItemsOf(p) = [i \in 1 .. p.to - m |-> m + i]
        BY <2>3, <2>4 DEF ItemsOf
      <4> HIDE DEF m
      <4>2. Upto(m) \o [i \in 1 .. p.to - m |-> m + i] = Upto(p.to)
        BY <2>4, <4>1, EventsGrow
      <4>3. history.events = Upto(m)
        BY <2>3 DEF m
      <4> QED BY <4>1, <4>2, <4>3
    <3> QED BY <2>2, <3>1
  <2>6. HistoryInv'
    <3>1. CASE p.next
      <4>1. history'.token = p.to /\ history'.result = "none"
        BY <2>2, <3>1 DEF hasNextPageToken
      <4> QED BY <2>1, <2>3, <2>4, <2>5, <4>1 DEF HistoryInv
    <3>2. CASE ~p.next
      <4>1. history'.result = "events" /\ p.to = total
        BY <2>2, <2>3, <2>4, <3>2 DEF hasNextPageToken
      <4> QED BY <2>1, <2>5, <4>1 DEF HistoryInv
    <3> QED BY <3>1, <3>2
  <2> QED BY <1>7, <2>1, <2>6
<1>9. CASE FetchEventsFails
  <2>1. HistoryInv'
    BY <1>9 DEF FetchEventsFails, HistoryInv
  <2> QED BY <1>7, <1>9, <2>1 DEF FetchEventsFails
<1>10. CASE ReadInput
  <2>1. PICK p \in ServerPages(0, 1) : history' = [token |-> NoToken, events |-> ItemsOf(p), result |-> startInput(p)]
    BY <1>10 DEF ReadInput
  <2>2. history'.result \in {"input", "error"}
    <3>1. startInput(p) \in {"input", "error"}
      BY DEF startInput
    <3> HIDE DEF startInput
    <3> QED BY <2>1, <3>1
  <2>3. HistoryInv'
    BY <2>2 DEF HistoryInv
  <2> QED BY <1>7, <1>10, <2>3 DEF ReadInput
<1>11. CASE UNCHANGED listVars
  <2>1. UNCHANGED <<total, options, cursor, pending, listed, reports, outcome, history>>
    BY <1>11 DEF listVars
  <2> QED BY <1>0, <1>7, <2>1 DEF HistoryInv
<1> QED BY <1>1, <1>2, <1>3, <1>4, <1>5, <1>6, <1>8, <1>9, <1>10, <1>11 DEF ListNext, PullNext, HistoryNext

\* From the account: a stream is a prefix of the items, and reports add up.
LEMMA ListInvTells == ListInv => ListsExactly /\ ReportsAddUp
<1> SUFFICES ASSUME ListInv PROVE ListsExactly /\ ReportsAddUp
  OBVIOUS
<1>0. ListType /\ CursorInv /\ ListedInv /\ HistoryInv /\ ReportsInv
  BY DEF ListInv
<1>1. ListsExactly
  <2>1. /\ Len(listed) \in Nat /\ Len(pending) \in Nat /\ cursor.emitted \in Nat
        /\ total \in Nat /\ options.limit \in Nat
    BY <1>0 DEF ListType, Cursor
  <2>2. Wanted \in Nat
    BY <2>1 DEF Wanted, Least
  <2>3. listed = [i \in 1 .. Len(listed) |-> i]
    BY <1>0, <2>1 DEF ListedInv, ListType
  <2>4. Len(listed) <= Wanted /\ (outcome = "ended" => Len(listed) = Wanted)
    BY <1>0, <2>1, <2>2 DEF ListedInv, CursorInv, CursorOK
  <2> QED BY <1>0, <2>3, <2>4 DEF ListsExactly, HistoryInv, Upto
<1>2. ReportsAddUp
  <2> SUFFICES ASSUME NEW n \in 1 .. Len(reports)
               PROVE  /\ reports[n].page = n
                      /\ reports[n].totalEmittedItems = SumOf(SubSeq(reports, 1, n))
                      /\ n < Len(reports) => reports[n].hasNextPage
                      /\ n = Len(reports) /\ outcome # "failed" =>
                           /\ reports[n].totalEmittedItems = Len(listed) + Len(pending)
                           /\ reports[n].hasNextPage <=> cursor.token # NoToken
    BY Zenon DEF ReportsAddUp, SumOf
  <2>1. reports \in Seq(Report) /\ Len(reports) \in Nat
    BY <1>0 DEF ListType
  <2>2. /\ reports[n].page = n
        /\ reports[n].totalEmittedItems = SumOf(SubSeq(reports, 1, n))
        /\ n < Len(reports) => reports[n].hasNextPage
    BY <1>0 DEF ReportsInv
  <2>3. ASSUME n = Len(reports), outcome # "failed"
        PROVE  /\ reports[n].totalEmittedItems = Len(listed) + Len(pending)
               /\ reports[n].hasNextPage <=> cursor.token # NoToken
    <3>1. SubSeq(reports, 1, n) = reports
      BY <2>1, <2>3, SubSeqFull
    <3>2. reports # <<>>
      BY <2>1, <2>3
    <3> QED BY <1>0, <2>2, <2>3, <3>1, <3>2 DEF ReportsInv, ListedInv
  <2> QED BY <2>2, <2>3
<1> QED BY <1>1, <1>2

\* However the server cuts a listing into pages, empty ones among them, and
\* whatever fails, the stream is a prefix of its items, never beyond the limit,
\* and complete if it ended; a history that was returned is complete.
THEOREM ListingsAreExact == ListSpec => []ListsExactly
<1>1. ListSpec => []ListInv
  BY ListInvHolds, ListInvStep, PTL DEF ListSpec
<1>2. ListInv => ListsExactly
  BY ListInvTells
<1> QED BY <1>1, <1>2, PTL

\* After any number of pages, what onPage is told is numbered from one, its
\* total is the sum of what the pages emitted and what the consumer has or will
\* have, and only the last page says that none follows (listPaged, onPage).
THEOREM ReportsAreExact == ListSpec => []ReportsAddUp
<1>1. ListSpec => []ListInv
  BY ListInvHolds, ListInvStep, PTL DEF ListSpec
<1>2. ListInv => ReportsAddUp
  BY ListInvTells
<1> QED BY <1>1, <1>2, PTL

-----------------------------------------------------------------------------
(* PayloadCodec.                                                           *)

\* The metadata that codec d of the chain c keeps of the key k.
Kept(c, d, k) == IF c[d] = "identified" THEN k ELSE Missing

\* p is o, sealed by the first d codecs of the chain c: q holds the payload as
\* each of them left it.
Layered(c, p, o, d) ==
  \E q : /\ q[0] = o /\ q[d] = p
         /\ \A j \in 1 .. d : \E k \in Keys : q[j] = Sealed(q[j - 1], k, Kept(c, j, k))

\* Without a layer a payload is the plain one.
LEMMA NoLayer ==
  ASSUME NEW c, NEW p, NEW o
  PROVE  Layered(c, p, o, 0) <=> p = o
<1>1. ASSUME p = o PROVE Layered(c, p, o, 0)
  <2> DEFINE q == [j \in {0} |-> o]
  <2>1. q[0] = o /\ q[0] = p
    BY <1>1
  <2> HIDE DEF q
  <2> QED BY <2>1 DEF Layered
<1>2. ASSUME Layered(c, p, o, 0) PROVE p = o
  BY <1>2 DEF Layered
<1> QED BY <1>1, <1>2

\* The codec after the first d adds the layer d + 1.
LEMMA OneMoreLayer ==
  ASSUME NEW c, NEW p, NEW o, NEW d \in Nat, Layered(c, p, o, d), NEW k \in Keys
  PROVE  Layered(c, Sealed(p, k, Kept(c, d + 1, k)), o, d + 1)
<1>1. PICK q : /\ q[0] = o /\ q[d] = p
               /\ \A j \in 1 .. d : \E l \in Keys : q[j] = Sealed(q[j - 1], l, Kept(c, j, l))
  BY DEF Layered
<1> DEFINE sealed == Sealed(p, k, Kept(c, d + 1, k))
           r == [j \in 0 .. d + 1 |-> IF j = d + 1 THEN sealed ELSE q[j]]
<1> HIDE DEF sealed
<1>2. r[0] = o /\ r[d + 1] = sealed /\ r[d] = p /\ \A j \in 0 .. d : r[j] = q[j]
  BY <1>1
<1> HIDE DEF r
<1>3. ASSUME NEW j \in 1 .. d + 1 PROVE \E l \in Keys : r[j] = Sealed(r[j - 1], l, Kept(c, j, l))
  <2>1. CASE j = d + 1
    <3>1. j - 1 = d
      BY <2>1
    <3> QED BY <1>2, <2>1, <3>1 DEF sealed
  <2>2. CASE j # d + 1
    <3>1. j \in 1 .. d /\ j \in 0 .. d /\ j - 1 \in 0 .. d
      BY <2>2
    <3>2. r[j] = q[j] /\ r[j - 1] = q[j - 1]
      BY <1>2, <3>1
    <3> QED BY <1>1, <3>1, <3>2
  <2> QED BY <2>1, <2>2
<1>4. Layered(c, sealed, o, d + 1)
  BY <1>2, <1>3 DEF Layered
<1> QED BY <1>4 DEF sealed

\* The outermost layer of d is that of the codec d, over d - 1 layers.
LEMMA TopLayer ==
  ASSUME NEW c, NEW p, NEW o, NEW d \in Nat \ {0}, Layered(c, p, o, d)
  PROVE  \E k \in Keys : \E r : p = Sealed(r, k, Kept(c, d, k)) /\ Layered(c, r, o, d - 1)
<1>1. PICK q : /\ q[0] = o /\ q[d] = p
               /\ \A j \in 1 .. d : \E k \in Keys : q[j] = Sealed(q[j - 1], k, Kept(c, j, k))
  BY DEF Layered
<1>2. PICK k \in Keys : q[d] = Sealed(q[d - 1], k, Kept(c, d, k))
  BY <1>1
<1>3. \A j \in 1 .. d - 1 : j \in 1 .. d
  OBVIOUS
<1>4. Layered(c, q[d - 1], o, d - 1)
  BY <1>1, <1>3 DEF Layered
<1> QED BY <1>1, <1>2, <1>4

-----------------------------------------------------------------------------
\* What a payload of a stored batch may be, when the codecs from d on are off:
\* the writer's, with the layers that are left, or a guest.
StoredAs(p, o, d) ==
  \/ Layered(codecs, p, o, d)
  \/ p = o
  \/ \E k \in Keys : p = Sealed(o, k, k)
  \/ foreign /\ p \in Unreadable

CodecType ==
  /\ codecs \in Seq({"identified", "anonymous"}) /\ Len(codecs) >= 1
  /\ current \in Keys
  /\ DOMAIN batch = DOMAIN original /\ DOMAIN out \subseteq DOMAIN batch
  /\ \E S : batch \in Seq(S)
  /\ original \in Seq({Plain(v) : v \in Values})

TaskInv ==
  /\ task \in {"key", "encoding"} =>
       /\ at \in 1 .. Len(codecs)
       /\ \A i \in DOMAIN batch : Layered(codecs, batch[i], original[i], at - 1)
       /\ \A i \in DOMAIN out : Layered(codecs, out[i], original[i], at)
  /\ task = "encoding" => key \in Keys
  /\ task = "idle" =>
       out = <<>> /\ (batch = <<>> \/ (at = Len(codecs) /\ \A i \in DOMAIN batch : Layered(codecs, batch[i], original[i], at)))
  /\ task = "decoding" =>
       /\ at \in 1 .. Len(codecs)
       /\ \A i \in DOMAIN batch : StoredAs(batch[i], original[i], at)
       /\ \A i \in DOMAIN out : out[i] = original[i] \/ Layered(codecs, out[i], original[i], at - 1)

CodecInv == CodecType /\ TaskInv /\ RoundTrips

\* A payload is not the mark of one that is missing.
LEMMA PayloadThere ==
  ASSUME NEW s, NEW e, NEW m, NEW d
  PROVE  [sealed |-> s, encoding |-> e, metadata |-> m, data |-> d] # Missing
<1> DEFINE p == [sealed |-> s, encoding |-> e, metadata |-> m, data |-> d]
<1>1. "data" \in DOMAIN p /\ DOMAIN Missing = {}
  BY DEF Missing
<1> HIDE DEF p
<1>2. p # Missing
  BY <1>1
<1> QED BY <1>2 DEF p

\* A sealed payload is there, under any number of layers.
LEMMA LayeredThere ==
  ASSUME NEW c, NEW p, NEW v, NEW d \in Nat, Layered(c, p, Plain(v), d)
  PROVE  p # Missing
<1>1. CASE d = 0
  <2>1. p = Plain(v)
    BY <1>1, NoLayer
  <2> QED BY <2>1, PayloadThere DEF Plain
<1>2. CASE d # 0
  <2>1. \E k \in Keys : \E r : p = Sealed(r, k, Kept(c, d, k))
    BY <1>2, TopLayer
  <2> QED BY <2>1, PayloadThere DEF Sealed
<1> QED BY <1>1, <1>2

\* A payload that opens has lost its layer; one that does not is a guest that
\* no codec wrote, or the key of its layer cannot be found again.
LEMMA Opening ==
  ASSUME CodecType, NEW d \in 1 .. Len(codecs), NEW v, NEW p, StoredAs(p, Plain(v), d)
  PROVE  LET o == Plain(v)
             r == decodeEncryptedPayload(p)
         IN /\ r # Missing => r = o \/ Layered(codecs, r, o, d - 1)
            /\ r = Missing => foreign \/ \E i \in DOMAIN codecs : codecs[i] = "anonymous"
<1> USE PayloadCodecAssumption
<1> DEFINE o == Plain(v)
           r == decodeEncryptedPayload(p)
           Opens == r # Missing /\ (r = o \/ Layered(codecs, r, o, d - 1))
           Lost == r = Missing /\ (foreign \/ \E i \in DOMAIN codecs : codecs[i] = "anonymous")
<1> SUFFICES Opens \/ Lost
  OBVIOUS
<1>1. o # Missing /\ ~isEncryptedPayload(o)
  BY PayloadThere DEF Plain, isEncryptedPayload
<1>2. StoredAs(p, o, d)
  OBVIOUS
<1> HIDE DEF o
<1>3. CASE p = o
  <2>1. r = o
    BY <1>1, <1>3 DEF decodeEncryptedPayload
  <2> HIDE DEF r
  <2> QED BY <1>1, <2>1
<1>4. ASSUME NEW k \in Keys, p = Sealed(o, k, k) PROVE Opens
  <2>1. p.sealed = k /\ p.encoding = k /\ p.metadata = k /\ p.data = o /\ k # Missing
    BY <1>4 DEF Sealed
  <2>2. isEncryptedPayload(p) /\ decryptDataKey(p.metadata) = k
    BY <2>1 DEF isEncryptedPayload, decryptDataKey
  <2>3. r = o
    BY <1>1, <2>1, <2>2 DEF decodeEncryptedPayload
  <2> HIDE DEF r
  <2> QED BY <1>1, <2>3
<1>5. CASE Layered(codecs, p, o, d)
  <2>0. PICK k \in Keys : \E q : p = Sealed(q, k, Kept(codecs, d, k)) /\ Layered(codecs, q, o, d - 1)
    BY <1>5, TopLayer
  <2>1. PICK q : p = Sealed(q, k, Kept(codecs, d, k)) /\ Layered(codecs, q, o, d - 1)
    BY <2>0
  <2>2. q # Missing
    <3>1. d - 1 \in Nat
      OBVIOUS
    <3> QED BY <2>1, <3>1, LayeredThere DEF o
  <2>3. p.sealed = k /\ p.encoding = k /\ p.metadata = Kept(codecs, d, k) /\ p.data = q /\ k # Missing
    BY <2>1 DEF Sealed
  <2>4. isEncryptedPayload(p)
    BY <2>3 DEF isEncryptedPayload
  <2>5. r = IF decryptDataKey(p.metadata) = k THEN q ELSE Missing
    BY <2>2, <2>3, <2>4 DEF decodeEncryptedPayload
  <2> HIDE DEF r
  <2>6. CASE codecs[d] = "identified"
    <3>1. decryptDataKey(p.metadata) = k
      BY <2>3, <2>6 DEF Kept, decryptDataKey
    <3> QED BY <2>1, <2>2, <2>5, <3>1
  <2>7. CASE codecs[d] # "identified"
    <3>1. d \in DOMAIN codecs /\ codecs[d] = "anonymous"
      BY <2>7 DEF CodecType
    <3> QED BY <2>1, <2>2, <2>5, <3>1
  <2> QED BY <2>6, <2>7
<1>6. CASE foreign /\ p \in Unreadable
  <2>1. PICK w \in Values, k \in Keys :
             \/ p = [Sealed(Plain(w), k, k) EXCEPT !.data = Missing]
             \/ p = [Sealed(Plain(w), k, k) EXCEPT !.encoding = Missing]
    BY <1>6 DEF Unreadable
  <2>2. p.sealed = k /\ (p.data = Missing \/ p.encoding = Missing) /\ k # Missing
    BY <2>1 DEF Sealed
  <2>3. r = Missing
    BY <2>2 DEF decodeEncryptedPayload, isEncryptedPayload
  <2> HIDE DEF r
  <2> QED BY <1>6, <2>3
<1> HIDE DEF r, Opens, Lost
<1> QED BY <1>2, <1>3, <1>4, <1>5, <1>6 DEF StoredAs

\* At first nothing is written, and no batch is at work.
LEMMA CodecInvHolds == CodecInit => CodecInv
<1> SUFFICES ASSUME CodecInit PROVE CodecInv
  OBVIOUS
<1> USE PayloadCodecAssumption
<1>1. /\ current \in Keys /\ task = "idle" /\ batch = <<>> /\ out = <<>> /\ original = <<>>
      /\ codecs \in UNION {[1 .. n -> {"identified", "anonymous"}] : n \in 1 .. MaxCodecs}
  BY DEF CodecInit
<1>2. codecs \in Seq({"identified", "anonymous"}) /\ Len(codecs) >= 1
  <2>1. PICK n \in 1 .. MaxCodecs : codecs \in [1 .. n -> {"identified", "anonymous"}]
    BY <1>1
  <2> QED BY <2>1
<1>3. batch \in Seq({})
  BY <1>1
<1> QED BY <1>1, <1>2, <1>3 DEF CodecInv, CodecType, TaskInv, RoundTrips

\* One payload of the batch is done.
LEMMA PutDone ==
  ASSUME NEW i, NEW p, Put(i, p)
  PROVE  /\ DOMAIN out' = DOMAIN out \cup {i}
         /\ out'[i] = p
         /\ \A j \in DOMAIN out \ {i} : out'[j] = out[j]
  BY DEF Put

\* The batch of the next stage is what became of the payloads.
LEMMA AllDone ==
  ASSUME CodecType, Todo = {}, batch' = [i \in DOMAIN batch |-> out[i]]
  PROVE  /\ DOMAIN batch' = DOMAIN batch /\ DOMAIN batch = DOMAIN out
         /\ \A i \in DOMAIN batch' : batch'[i] = out[i]
         /\ \E S : batch' \in Seq(S)
         /\ batch # <<>> => batch' # <<>>
<1>1. DOMAIN batch = 1 .. Len(original) /\ Len(original) \in Nat
  BY DEF CodecType
<1>2. DOMAIN batch = DOMAIN out
  BY DEF CodecType, Todo
<1> DEFINE S == {out[i] : i \in DOMAIN batch}
           next == [i \in DOMAIN batch |-> out[i]]
<1>3. next \in [1 .. Len(original) -> S]
  BY <1>1
<1>4. next \in Seq(S)
  <2> HIDE DEF next, S
  <2> QED BY <1>1, <1>3
<1>5. DOMAIN next = DOMAIN batch /\ \A i \in DOMAIN next : next[i] = out[i]
  OBVIOUS
<1>6. batch # <<>> => next # <<>>
  <2> SUFFICES ASSUME next = <<>> PROVE batch = <<>>
    OBVIOUS
  <2>1. DOMAIN batch = {}
    <3> HIDE DEF next
    <3> QED BY <1>5
  <2>2. PICK P : batch \in Seq(P)
    BY DEF CodecType
  <2>3. Len(batch) = 0
    BY <2>1, <2>2
  <2> QED BY <2>2, <2>3
<1> HIDE DEF next, S
<1>7. batch' = next
  BY DEF next
<1> QED BY <1>2, <1>4, <1>5, <1>6, <1>7

\* Taking a batch up, its data key, sealing one payload, and storing the batch.
LEMMA EncodingSteps ==
  ASSUME CodecInv, BeginEncode \/ generateDataKey \/ encrypt \/ EncodedAll
  PROVE  CodecInv'
<1> USE PayloadCodecAssumption
<1>0. CodecType /\ TaskInv /\ Len(codecs) \in Nat
  BY DEF CodecInv, CodecType
<1>1. CASE BeginEncode
  <2>1. PICK n \in 1 .. MaxBatch : batch' \in [1 .. n -> {Plain(v) : v \in Values}]
    BY <1>1 DEF BeginEncode
  <2>2. /\ original' = batch' /\ task' = "key" /\ at' = 1 /\ task = "idle"
        /\ UNCHANGED <<codecs, current, out>>
    BY <1>1 DEF BeginEncode
  <2>3. out = <<>> /\ DOMAIN out = {}
    BY <1>0, <2>2 DEF TaskInv
  <2>4. original' \in Seq({Plain(v) : v \in Values}) /\ batch' \in Seq({Plain(v) : v \in Values})
    BY <2>1, <2>2
  <2>5. CodecType'
    BY <1>0, <2>2, <2>3, <2>4 DEF CodecType
  <2>6. TaskInv'
    <3>1. \A i \in DOMAIN batch' : Layered(codecs, batch'[i], original'[i], 0)
      BY <2>2, NoLayer
    <3>2. at' \in 1 .. Len(codecs') /\ at' - 1 = 0
      BY <1>0, <2>2 DEF CodecType
    <3> QED BY <2>2, <2>3, <3>1, <3>2 DEF TaskInv
  <2> QED BY <2>2, <2>5, <2>6 DEF CodecInv, RoundTrips
<1>2. CASE generateDataKey
  <2>1. /\ task = "key" /\ (task' = "keyless" \/ (task' = "encoding" /\ key' = current))
        /\ UNCHANGED <<codecs, current, at, batch, out, original, foreign>>
    BY <1>2 DEF generateDataKey
  <2>2. CodecType'
    BY <1>0, <2>1 DEF CodecType
  <2>3. TaskInv'
    BY <1>0, <2>1 DEF TaskInv, CodecType
  <2> QED BY <2>1, <2>2, <2>3 DEF CodecInv, RoundTrips
<1>3. CASE encrypt
  <2>1. task = "encoding" /\ UNCHANGED <<codecs, current, task, at, key, batch, original, foreign>>
    BY <1>3 DEF encrypt
  <2>2. PICK i \in Todo : Put(i, Sealed(batch[i], key, Kept(codecs, at, key)))
    BY <1>3 DEF encrypt, Kept
  <2>3. /\ at \in 1 .. Len(codecs) /\ at - 1 \in Nat /\ key \in Keys
        /\ i \in DOMAIN batch /\ i \notin DOMAIN out
        /\ Layered(codecs, batch[i], original[i], at - 1)
    BY <1>0, <2>1, <2>2 DEF TaskInv, Todo
  <2> DEFINE p == Sealed(batch[i], key, Kept(codecs, at, key))
  <2>4. Layered(codecs, p, original[i], at)
    <3>1. at - 1 + 1 = at
      BY <2>3
    <3> QED BY <2>3, <3>1, OneMoreLayer
  <2>5. /\ DOMAIN out' = DOMAIN out \cup {i} /\ out'[i] = p
        /\ \A j \in DOMAIN out \ {i} : out'[j] = out[j]
    BY <2>2, PutDone
  <2> HIDE DEF p
  <2>6. \A j \in DOMAIN out' : Layered(codecs, out'[j], original[j], at)
    BY <1>0, <2>1, <2>4, <2>5 DEF TaskInv
  <2>7. CodecType'
    BY <1>0, <2>1, <2>3, <2>5 DEF CodecType
  <2>8. TaskInv'
    BY <1>0, <2>1, <2>6 DEF TaskInv
  <2> QED BY <2>1, <2>7, <2>8 DEF CodecInv, RoundTrips
<1>4. CASE EncodedAll
  <2>1. /\ task = "encoding" /\ Todo = {} /\ batch' = [i \in DOMAIN batch |-> out[i]] /\ out' = <<>>
        /\ IF at < Len(codecs) THEN task' = "key" /\ at' = at + 1 ELSE task' = "idle" /\ at' = at
        /\ UNCHANGED <<codecs, current, key, original, foreign>>
    BY <1>4 DEF EncodedAll
  <2>2. /\ DOMAIN batch' = DOMAIN batch /\ DOMAIN batch = DOMAIN out
        /\ \A i \in DOMAIN batch' : batch'[i] = out[i]
        /\ \E S : batch' \in Seq(S)
    BY <1>0, <2>1, AllDone
  <2>3. DOMAIN out' = {}
    BY <2>1
  <2>4. CodecType'
    BY <1>0, <2>1, <2>2, <2>3 DEF CodecType
  <2>5. at \in 1 .. Len(codecs) /\ \A i \in DOMAIN batch' : Layered(codecs, batch'[i], original[i], at)
    BY <1>0, <2>1, <2>2 DEF TaskInv
  <2>6. TaskInv'
    <3>1. CASE at < Len(codecs)
      <4>1. task' = "key" /\ at' = at + 1 /\ at' \in 1 .. Len(codecs) /\ at' - 1 = at
        BY <1>0, <2>1, <2>5, <3>1
      <4> QED BY <2>1, <2>3, <2>5, <4>1 DEF TaskInv
    <3>2. CASE ~(at < Len(codecs))
      <4>1. task' = "idle" /\ at' = at /\ at = Len(codecs)
        BY <1>0, <2>1, <2>5, <3>2
      <4> QED BY <2>1, <2>5, <4>1 DEF TaskInv
    <3> QED BY <3>1, <3>2
  <2> QED BY <2>1, <2>4, <2>6 DEF CodecInv, RoundTrips
<1> QED BY <1>1, <1>2, <1>3, <1>4

\* Taking a stored batch up, opening one payload, and handing the values out.
LEMMA DecodingSteps ==
  ASSUME CodecInv, BeginDecode \/ decode \/ DecodedAll
  PROVE  CodecInv'
<1> USE PayloadCodecAssumption
<1>0. CodecType /\ TaskInv /\ Len(codecs) \in Nat
  BY DEF CodecInv, CodecType
<1>1. CASE BeginDecode
  <2>1. /\ task = "idle" /\ batch # <<>> /\ task' = "decoding"
        /\ UNCHANGED <<codecs, current, at, key, out>>
    BY <1>1 DEF BeginDecode
  <2>2. /\ out = <<>> /\ DOMAIN out = {} /\ at = Len(codecs) /\ at \in 1 .. Len(codecs)
        /\ \A i \in DOMAIN batch : Layered(codecs, batch[i], original[i], at)
    BY <1>0, <2>1 DEF TaskInv, CodecType
  <2>3. CASE UNCHANGED <<batch, original, foreign>>
    <3>1. CodecType'
      BY <1>0, <2>1, <2>3 DEF CodecType
    <3>2. TaskInv'
      BY <1>0, <2>1, <2>2, <2>3 DEF TaskInv, StoredAs
    <3> QED BY <2>1, <3>1, <3>2 DEF CodecInv, RoundTrips
  <2>4. ASSUME NEW v \in Values, NEW k \in Keys,
               NEW p \in {Plain(v), Sealed(Plain(v), k, k)} \cup Unreadable,
               batch' = Append(batch, p), original' = Append(original, Plain(v)), foreign' = (p \in Unreadable)
        PROVE  CodecInv'
    <3> DEFINE P == {Plain(w) : w \in Values}
               n == Len(original)
    <3>1. original \in Seq(P) /\ Plain(v) \in P /\ n \in Nat /\ DOMAIN original = 1 .. n
      BY <1>0 DEF CodecType
    <3> HIDE DEF P
    <3>2. PICK S : batch \in Seq(S)
      BY <1>0 DEF CodecType
    <3>3. Len(batch) = n
      BY <1>0, <3>1, <3>2 DEF CodecType
    <3> HIDE DEF n
    <3>4. /\ original' \in Seq(P) /\ DOMAIN original' = 1 .. n + 1 /\ original'[n + 1] = Plain(v)
          /\ \A i \in 1 .. n : original'[i] = original[i]
      BY <2>4, <3>1 DEF n
    <3>5. /\ batch' \in Seq(S \cup {p}) /\ DOMAIN batch' = 1 .. n + 1 /\ batch'[n + 1] = p
          /\ \A i \in 1 .. n : batch'[i] = batch[i]
      <4>1. batch \in Seq(S \cup {p})
        BY <3>2
      <4> QED BY <2>4, <3>1, <3>3, <4>1
    <3>6. CodecType'
      BY <1>0, <2>1, <2>2, <3>4, <3>5 DEF CodecType, P
    <3>7. ASSUME NEW i \in DOMAIN batch'
          PROVE  \/ Layered(codecs, batch'[i], original'[i], at)
                 \/ batch'[i] = original'[i]
                 \/ \E l \in Keys : batch'[i] = Sealed(original'[i], l, l)
                 \/ foreign' /\ batch'[i] \in Unreadable
      <4>1. CASE i = n + 1
        <5>1. batch'[i] = p /\ original'[i] = Plain(v)
          BY <3>4, <3>5, <4>1
        <5>2. p = Plain(v) \/ p = Sealed(Plain(v), k, k) \/ (p \in Unreadable /\ foreign')
          BY <2>4
        <5> QED BY <5>1, <5>2
      <4>2. CASE i # n + 1
        <5>1. i \in 1 .. n /\ i \in DOMAIN batch
          <6>1. i \in 1 .. n + 1 /\ n \in Nat
            BY <3>1, <3>5
          <6> QED BY <1>0, <3>1, <4>2, <6>1 DEF CodecType
        <5>2. batch'[i] = batch[i] /\ original'[i] = original[i]
          BY <3>4, <3>5, <5>1
        <5> QED BY <2>2, <5>1, <5>2
      <4> QED BY <4>1, <4>2
    <3>8. TaskInv'
      BY <2>1, <2>2, <3>7 DEF TaskInv, StoredAs
    <3> QED BY <2>1, <3>6, <3>8 DEF CodecInv, RoundTrips
  <2> QED BY <1>1, <2>3, <2>4 DEF BeginDecode
<1>2. CASE decode
  <2>1. task = "decoding" /\ UNCHANGED <<codecs, current, at, key, batch, original, foreign>>
    BY <1>2 DEF decode
  <2>2. PICK i \in Todo :
          LET p == decodeEncryptedPayload(batch[i]) IN
          \/ p # Missing /\ Put(i, p) /\ task' = task
          \/ p = Missing /\ task' = "rejected" /\ out' = <<>>
          \/ isEncryptedPayload(batch[i]) /\ task' = "keyless" /\ out' = <<>>
    BY <1>2 DEF decode
  <2> DEFINE p == decodeEncryptedPayload(batch[i])
             o == original[i]
  <2>3. /\ at \in 1 .. Len(codecs) /\ i \in DOMAIN batch /\ i \notin DOMAIN out
        /\ StoredAs(batch[i], o, at)
    BY <1>0, <2>1, <2>2 DEF TaskInv, Todo
  <2>4. PICK v \in Values : o = Plain(v)
    BY <1>0, <2>3 DEF CodecType
  <2>5. /\ p # Missing => p = o \/ Layered(codecs, p, o, at - 1)
        /\ p = Missing => foreign \/ \E j \in DOMAIN codecs : codecs[j] = "anonymous"
    <3> HIDE DEF o
    <3> QED BY <1>0, <2>3, <2>4, Opening
  <2>6. CASE p # Missing /\ Put(i, p) /\ task' = task
    <3>1. /\ DOMAIN out' = DOMAIN out \cup {i} /\ out'[i] = p
          /\ \A j \in DOMAIN out \ {i} : out'[j] = out[j]
      BY <2>6, PutDone
    <3> HIDE DEF p
    <3>2. \A j \in DOMAIN out' : out'[j] = original[j] \/ Layered(codecs, out'[j], original[j], at - 1)
      BY <1>0, <2>1, <2>5, <2>6, <3>1 DEF TaskInv
    <3>3. CodecType'
      BY <1>0, <2>1, <2>3, <3>1 DEF CodecType
    <3>4. TaskInv'
      BY <1>0, <2>1, <2>6, <3>2 DEF TaskInv, StoredAs
    <3> QED BY <2>1, <2>6, <3>3, <3>4 DEF CodecInv, RoundTrips
  <2>7. CASE out' = <<>> /\ (task' = "keyless" \/ (p = Missing /\ task' = "rejected"))
    <3> HIDE DEF p
    <3>1. DOMAIN out' = {}
      BY <2>7
    <3>2. CodecType'
      BY <1>0, <2>1, <3>1 DEF CodecType
    <3>3. TaskInv'
      BY <2>7 DEF TaskInv
    <3>4. RoundTrips'
      BY <2>1, <2>5, <2>7 DEF RoundTrips
    <3> QED BY <3>2, <3>3, <3>4 DEF CodecInv
  <2> QED BY <2>2, <2>6, <2>7
<1>3. CASE DecodedAll
  <2>1. /\ task = "decoding" /\ Todo = {} /\ batch' = [i \in DOMAIN batch |-> out[i]] /\ out' = <<>>
        /\ IF at > 1 THEN task' = task /\ at' = at - 1 ELSE task' = "decoded" /\ at' = at
        /\ UNCHANGED <<codecs, current, key, original, foreign>>
    BY <1>3 DEF DecodedAll
  <2>2. /\ DOMAIN batch' = DOMAIN batch /\ DOMAIN batch = DOMAIN out
        /\ \A i \in DOMAIN batch' : batch'[i] = out[i]
        /\ \E S : batch' \in Seq(S)
    BY <1>0, <2>1, AllDone
  <2>3. DOMAIN out' = {}
    BY <2>1
  <2>4. CodecType'
    BY <1>0, <2>1, <2>2, <2>3 DEF CodecType
  <2>5. /\ at \in 1 .. Len(codecs)
        /\ \A i \in DOMAIN batch' : batch'[i] = original[i] \/ Layered(codecs, batch'[i], original[i], at - 1)
    BY <1>0, <2>1, <2>2 DEF TaskInv
  <2>6. CASE at > 1
    <3>1. task' = "decoding" /\ at' = at - 1 /\ at' \in 1 .. Len(codecs)
      BY <1>0, <2>1, <2>5, <2>6
    <3>2. TaskInv'
      BY <2>1, <2>3, <2>5, <3>1 DEF TaskInv, StoredAs
    <3> QED BY <2>4, <3>1, <3>2 DEF CodecInv, RoundTrips
  <2>7. CASE ~(at > 1)
    <3>1. task' = "decoded" /\ at - 1 = 0
      BY <2>1, <2>5, <2>7
    <3>2. \A i \in DOMAIN batch' : batch'[i] = original[i]
      BY <2>5, <3>1, NoLayer
    <3>3. batch' = original
      <4>1. PICK S : batch' \in Seq(S)
        BY <2>2
      <4>2. PICK P : original \in Seq(P)
        BY <1>0 DEF CodecType
      <4>3. DOMAIN batch' = DOMAIN original
        BY <1>0, <2>2 DEF CodecType
      <4> QED BY <3>2, <4>1, <4>2, <4>3
    <3>4. TaskInv'
      BY <3>1 DEF TaskInv
    <3> QED BY <2>1, <2>4, <3>1, <3>3, <3>4 DEF CodecInv, RoundTrips
  <2> QED BY <2>6, <2>7
<1> QED BY <1>1, <1>2, <1>3

\* A step rotates a key, encodes or decodes.
LEMMA CodecInvStep == CodecInv /\ [CodecNext]_codecVars => CodecInv'
<1> SUFFICES ASSUME CodecInv, [CodecNext]_codecVars PROVE CodecInv'
  OBVIOUS
<1>1. CASE Rotate
  <2>1. current' \in Keys /\ UNCHANGED <<codecs, task, at, key, batch, out, original, foreign>>
    BY <1>1 DEF Rotate
  <2> QED BY <2>1 DEF CodecInv, CodecType, TaskInv, StoredAs, RoundTrips
<1>2. CASE UNCHANGED codecVars
  <2>1. UNCHANGED <<codecs, current, task, at, key, batch, out, original, foreign>>
    BY <1>2 DEF codecVars
  <2> QED BY <2>1 DEF CodecInv, CodecType, TaskInv, StoredAs, RoundTrips
<1> QED BY <1>1, <1>2, EncodingSteps, DecodingSteps DEF CodecNext

\* What is decoded is what was written, for any chain of codecs and any batch,
\* in whatever order its payloads are sealed and opened and the keys rotate,
\* and a batch is rejected only for a payload no codec wrote or for an
\* anonymous provider.
THEOREM PayloadsRoundTrip == CodecSpec => []RoundTrips
<1>1. CodecSpec => []CodecInv
  BY CodecInvHolds, CodecInvStep, PTL DEF CodecSpec
<1>2. CodecInv => RoundTrips
  BY DEF CodecInv
<1> QED BY <1>1, <1>2, PTL
=============================================================================

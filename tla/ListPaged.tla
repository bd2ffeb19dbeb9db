------------------------------ MODULE ListPaged ------------------------------
(***************************************************************************)
(* listPaged and fetchHistoryEvents of the workflow client: a stream that  *)
(* follows page tokens until a limit, and a loop that follows them to the  *)
(* end.  The server keeps the items 1 .. total of one query; a token is    *)
(* the position after the last item it returned.                           *)
(***************************************************************************)
EXTENDS Integers, Sequences, SequencesExt

CONSTANTS
  MaxTotal,   \* bound: the items of the query
  PageSizes,  \* the pageSize options tried, zero included
  Limits,     \* the limit options tried, zero (no limit) included
  MaxEmpty,   \* bound: the pages of one listing that carry a token and no item
  Unlimited

ASSUME ListPagedAssumption ==
  /\ MaxTotal \in Nat /\ MaxEmpty \in Nat
  /\ PageSizes \subseteq Nat /\ Limits \subseteq Nat
  /\ Unlimited \notin Int

VARIABLES
  total,    \* how many items the server has
  options,  \* pageSize and limit of the call
  cursor,   \* ListPagedState: nextPageToken, remaining, page, emitted
  pending,  \* raw items of the page not decoded yet
  listed,   \* what the consumer of the stream was given
  reports,  \* what onPage was given
  outcome,  \* "open", "ended", "failed" or "stopped" (by the consumer)
  empty,    \* pages that carried a token and no item so far
  history   \* fetchHistoryEvents: the token, the events read, and the result

listVars == <<total, options, cursor, pending, listed, reports, outcome, empty, history>>

NoToken == -1
Least(m, n) == IF m < n THEN m ELSE n

\* The items the caller asks for: all of them, or the first options.limit.
Wanted == IF options.limit > 0 THEN Least(options.limit, total) ELSE total

\* A page of the server: some items after the token, at most size of them
\* (its own maximum when size is zero), and a token unless nothing is left.
ServerPages(token, size) ==
  {p \in [from : {token}, to : token .. total, next : BOOLEAN] :
    /\ size > 0 => p.to <= token + size
    /\ p.to < total => p.next
    /\ p.to = token /\ p.next => empty < MaxEmpty}

ItemsOf(p) == [i \in 1 .. p.to - p.from |-> p.from + i]
hasNextPageToken(p) == p.next

\* The limit is not kept.
UnlimitedBug == [token |-> 0, page |-> 1, emitted |-> 0, remaining |-> Unlimited]

\* Pages are counted from zero.
PageBug ==
  [token |-> 0, page |-> 0, emitted |-> 0,
   remaining |-> IF options.limit > 0 THEN options.limit ELSE Unlimited]

InitialState ==
  [token |-> 0, page |-> 1, emitted |-> 0,
   remaining |-> IF options.limit > 0 THEN options.limit ELSE Unlimited]

ListInit ==
  /\ total \in 0 .. MaxTotal
  /\ options \in [pageSize : PageSizes, limit : Limits]
  /\ cursor = InitialState
  /\ pending = <<>> /\ listed = <<>> /\ reports = <<>>
  /\ outcome = "open" /\ empty = 0
  /\ history = [token |-> 0, events |-> <<>>, result |-> "none"]

requestedPageSize ==
  IF cursor.remaining = Unlimited THEN options.pageSize ELSE Least(options.pageSize, cursor.remaining)

\* The stream asks for a page when the last one is used up.
Pulls == outcome = "open" /\ pending = <<>> /\ cursor.token # NoToken

\* The state after a page, and what onPage is told of it.
Turned(p) ==
  LET all     == cursor.remaining = Unlimited
      emitted == IF all THEN ItemsOf(p)
                 ELSE SubSeq(ItemsOf(p), 1, Least(cursor.remaining, p.to - p.from))
      left    == IF all THEN Unlimited ELSE cursor.remaining - Len(emitted)
      sofar   == cursor.emitted + Len(emitted)
      more    == hasNextPageToken(p) /\ (all \/ left > 0)
  IN [items  |-> emitted,
      cursor |-> [token |-> IF more THEN p.to ELSE NoToken, remaining |-> left,
                  page |-> cursor.page + 1, emitted |-> sofar],
      report |-> [page |-> cursor.page, requestedPageSize |-> requestedPageSize,
                  receivedItems |-> p.to - p.from, emittedItems |-> Len(emitted),
                  totalEmittedItems |-> sofar, hasNextPage |-> more]]

\* A page arrives and onPage succeeds: its items are decoded one by one.
FetchPage ==
  /\ Pulls
  /\ \E p \in ServerPages(cursor.token, requestedPageSize) :
       LET t == Turned(p) IN
       /\ pending' = t.items
       /\ cursor' = t.cursor
       /\ reports' = Append(reports, t.report)
       /\ empty' = IF p.to = p.from /\ p.next THEN empty + 1 ELSE empty
  /\ UNCHANGED <<total, options, listed, outcome, history>>

\* The request fails, or onPage does once the page is there: nothing of the
\* page is emitted.
FetchFails ==
  /\ Pulls
  /\ \/ reports' = reports
     \/ \E p \in ServerPages(cursor.token, requestedPageSize) :
          reports' = Append(reports, Turned(p).report)
  /\ outcome' = "failed"
  /\ UNCHANGED <<total, options, cursor, pending, listed, empty, history>>

DecodeItem ==
  /\ outcome = "open" /\ pending # <<>>
  /\ listed' = Append(listed, Head(pending))
  /\ pending' = Tail(pending)
  /\ UNCHANGED <<total, options, cursor, reports, outcome, empty, history>>

DecodeFails ==
  /\ outcome = "open" /\ pending # <<>>
  /\ outcome' = "failed"
  /\ UNCHANGED <<total, options, cursor, pending, listed, reports, empty, history>>

StreamEnds ==
  /\ outcome = "open" /\ pending = <<>> /\ cursor.token = NoToken
  /\ outcome' = "ended"
  /\ UNCHANGED <<total, options, cursor, pending, listed, reports, empty, history>>

ConsumerStops ==
  /\ outcome = "open"
  /\ outcome' = "stopped"
  /\ UNCHANGED <<total, options, cursor, pending, listed, reports, empty, history>>

-----------------------------------------------------------------------------
(* fetchHistoryEvents: the events of every page, or an error.              *)

Reading == outcome # "open" /\ history.result = "none"

FetchEvents ==
  /\ Reading
  /\ \E p \in ServerPages(history.token, options.pageSize) :
       /\ history' = [token  |-> IF hasNextPageToken(p) THEN p.to ELSE NoToken,
                      events |-> history.events \o ItemsOf(p),
                      result |-> IF hasNextPageToken(p) THEN "none" ELSE "events"]
       /\ empty' = IF p.to = p.from /\ p.next THEN empty + 1 ELSE empty
  /\ UNCHANGED <<total, options, cursor, pending, listed, reports, outcome>>

\* A request that fails loses the events of the earlier pages.
FetchEventsFails ==
  /\ Reading
  /\ history' = [token |-> NoToken, events |-> <<>>, result |-> "error"]
  /\ UNCHANGED <<total, options, cursor, pending, listed, reports, outcome, empty>>

\* startInput: one page of one event, the started event, or an error; an
\* empty page is an error.
startInput(p) == IF 1 \in ToSet(ItemsOf(p)) THEN "input" ELSE "error"

ReadInput ==
  /\ Reading /\ history.token = 0 /\ history.events = <<>>
  /\ \E p \in ServerPages(0, 1) :
       history' = [token |-> NoToken, events |-> ItemsOf(p), result |-> startInput(p)]
  /\ UNCHANGED <<total, options, cursor, pending, listed, reports, outcome, empty>>

PullNext == FetchPage \/ FetchFails \/ DecodeItem \/ DecodeFails \/ StreamEnds
HistoryNext == FetchEvents \/ FetchEventsFails \/ ReadInput
ListNext == PullNext \/ ConsumerStops \/ HistoryNext

ListSpec == ListInit /\ [][ListNext]_listVars

-----------------------------------------------------------------------------
(* Properties                                                              *)

\* A listing is a prefix of the server's items, without a gap or a repetition
\* and never beyond the limit; one that ended without an error, and a history
\* that was returned, is complete.
ListsExactly ==
  /\ listed = [i \in 1 .. Len(listed) |-> i]
  /\ Len(listed) <= Wanted
  /\ outcome = "ended" => Len(listed) = Wanted
  /\ history.result = "events" => history.events = [i \in 1 .. total |-> i]

\* The progress onPage reports: pages are counted from one, the total is the
\* sum of what the pages emitted and what the consumer has or will have, and
\* only the last page says that none follows.
ReportsAddUp ==
  \A n \in 1 .. Len(reports) :
    LET r == reports[n] IN
    /\ r.page = n
    /\ r.totalEmittedItems = FoldLeft(LAMBDA s, q : s + q.emittedItems, 0, SubSeq(reports, 1, n))
    /\ n < Len(reports) => r.hasNextPage
    /\ n = Len(reports) /\ outcome # "failed" =>
         /\ r.totalEmittedItems = Len(listed) + Len(pending)
         /\ r.hasNextPage <=> cursor.token # NoToken
=============================================================================

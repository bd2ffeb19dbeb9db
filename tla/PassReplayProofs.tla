--------------------------- MODULE PassReplayProofs ---------------------------
(***************************************************************************)
(* Proofs about PassReplay for every body and any number of passes: that   *)
(* the memo tables and cursors of the runtime state stay well formed, that *)
(* messages are taken in order, and that the calls of a name that only one *)
(* fiber uses replay.                                                      *)
(***************************************************************************)
EXTENDS PassReplay, FiniteSets, FiniteSetTheorems, SequenceTheorems, TLAPS

-----------------------------------------------------------------------------
(* The invariant.                                                          *)

\* What a blocked fiber waits for is the call it is at.
Waiting(f) ==
  /\ waits[f] \in {"command", "outbound"} =>
       at[f] \in DOMAIN body[f] /\ slot[f] \in Keys /\ slot[f][1] = Name(f)
  /\ waits[f] = "command" => Kind(f) = "call" /\ issued[Site(f)] >= 1
  /\ waits[f] = "outbound" => Kind(f) = "outbound"

\* Only the calls a fiber is past have returned in this pass.
Past == \A s \in Sites : returned[s] # Nothing => s[2] < at[s[1]]

\* The calls of a fiber before position i that take a position in the tables,
\* and those that take a message.
CallsOf(f, n) == {j \in DOMAIN body[f] : body[f][j][2] = n /\ body[f][j][1] \in {"call", "outbound"}}
TakesOf(f, m) == {j \in DOMAIN body[f] : body[f][j] = <<"take", m>>}
CallsBefore(f, n, i) == (1 .. i - 1) \cap CallsOf(f, n)
TakesBefore(f, m, i) == (1 .. i - 1) \cap TakesOf(f, m)

\* The memo key of a site, and its message, if only its fiber uses the name.
KeyOf(s) ==
  <<NameAt(s), IF NameAt(s) \in Sequenced THEN Cardinality(CallsBefore(s[1], NameAt(s), s[2])) ELSE 0>>
MessageOf(s) == Message(Cardinality(TakesBefore(s[1], NameAt(s), s[2])) + 1)

\* How far a fiber has counted its calls: also the one it waits for.
Counted(f) == IF waits[f] \in {"command", "outbound"} THEN at[f] + 1 ELSE at[f]

\* While a pass runs, the cursors are at what the fiber has called.
CursorsAgree(s) ==
  phase \in {"pass", "suspending"} =>
    /\ NameAt(s) \in Sequenced =>
         seqs[NameAt(s)] = Cardinality(CallsBefore(s[1], NameAt(s), Counted(s[1])))
    /\ NameAt(s) \in Mailboxes =>
         mailboxCursors[NameAt(s)] = Cardinality(TakesBefore(s[1], NameAt(s), at[s[1]]))

\* A fiber that waits at a site waits at its key, which holds no result yet.
WaitsAtKey(s) ==
  at[s[1]] = s[2] =>
    /\ waits[s[1]] \in {"command", "outbound"} => slot[s[1]] = KeyOf(s)
    /\ waits[s[1]] = "command" => KeyOf(s) \notin DOMAIN results

\* The tables hold at the key of a site a command of that site, and what it
\* returned first.
Memo(s) ==
  /\ KindAt(s) = "await" /\ first[s] # Nothing => first[s] = Done
  /\ KindAt(s) = "take" /\ first[s] # Nothing => first[s] = MessageOf(s)
  /\ KindAt(s) = "call" =>
       /\ KeyOf(s) \in DOMAIN results =>
            \E n \in 1 .. issued[s] : results[KeyOf(s)] = <<s[1], s[2], n>>
       /\ first[s] # Nothing => KeyOf(s) \in DOMAIN results /\ first[s] = results[KeyOf(s)]
  /\ KindAt(s) = "outbound" =>
       /\ KeyOf(s) \in DOMAIN outboundCalls =>
            \E n \in 1 .. issued[s] : outboundCalls[KeyOf(s)].command = <<s[1], s[2], n>>
       /\ first[s] # Nothing =>
            KeyOf(s) \in DOMAIN outboundCalls /\ first[s] = outboundCalls[KeyOf(s)].command
       /\ issued[s] # 0 => KeyOf(s) \in DOMAIN outboundCalls

Replays(s) ==
  /\ returned[s] # Nothing => returned[s] = first[s]
  /\ CursorsAgree(s) /\ WaitsAtKey(s) /\ Memo(s)

WellFormed == TypeOK /\ (\A f \in Fibers : Waiting(f)) /\ Past
ReplayInv == \A s \in Sites : Stable(s) => Replays(s)

-----------------------------------------------------------------------------
(* Bodies, sites and the ready fibers.                                     *)

\* The call at a position of a body: its kind says which names it may have.
LEMMA CallsOfBody ==
  ASSUME body \in Bodies, NEW f \in Fibers, NEW i \in DOMAIN body[f]
  PROVE  /\ i \in Nat \ {0}
         /\ body[f][i] = <<body[f][i][1], body[f][i][2]>>
         /\ body[f][i][1] \in CallKinds
         /\ body[f][i][1] = "call" => body[f][i][2] \in Memoized
         /\ body[f][i][1] = "outbound" => body[f][i][2] \in Outbound
         /\ body[f][i][1] \in {"take", "poll"} => body[f][i][2] \in Mailboxes
<1>1. body[f] \in Seq(Calls)
  BY BodiesAssumption
<1>2. i \in 1 .. Len(body[f]) /\ Len(body[f]) \in Nat
  BY <1>1
<1>3. body[f][i] \in Calls
  BY <1>1, <1>2
<1> QED
  BY <1>2, <1>3 DEF Calls, CallKinds

\* A site is a fiber and a position in its body.
LEMMA SitesAre ==
  ASSUME body \in Bodies
  PROVE  /\ \A f \in Fibers : \A i \in DOMAIN body[f] : <<f, i>> \in Sites
         /\ \A s \in Sites : /\ s[1] \in Fibers /\ s[2] \in DOMAIN body[s[1]]
                             /\ s[2] \in Nat \ {0} /\ s = <<s[1], s[2]>>
<1>1. \A f \in Fibers : \A i \in DOMAIN body[f] : i \in Nat \ {0}
  BY CallsOfBody
<1> QED
  BY <1>1 DEF Sites

\* While the body stays the same, so do its sites and what they may return.
LEMMA SameBody ==
  ASSUME body' = body
  PROVE  Sites' = Sites /\ Commands' = Commands /\ Results' = Results
BY DEF Sites, Commands, Results

\* What a call returns is a result.
LEMMA ResultsAre ==
  /\ Commands \subseteq Results /\ Done \in Results /\ Nothing \in Results
  /\ \A k \in 0 .. MaxMessages : Message(k) \in Results
BY DEF Results, Message

\* The head of the ready fibers leaves, or moves to their end.
LEMMA HeadLeaves ==
  ASSUME NEW S, NEW q \in Seq(S), q # <<>>,
         \A i, j \in DOMAIN q : q[i] = q[j] => i = j
  PROVE  /\ Head(q) \in S
         /\ Tail(q) \in Seq(S)
         /\ \A i, j \in DOMAIN Tail(q) : Tail(q)[i] = Tail(q)[j] => i = j
         /\ Append(Tail(q), Head(q)) \in Seq(S)
         /\ \A i, j \in DOMAIN Append(Tail(q), Head(q)) :
              Append(Tail(q), Head(q))[i] = Append(Tail(q), Head(q))[j] => i = j
<1>1. /\ Head(q) \in S /\ Tail(q) \in Seq(S) /\ Len(Tail(q)) = Len(q) - 1
      /\ \A i \in 1 .. Len(Tail(q)) : Tail(q)[i] = q[i + 1]
  BY HeadTailProperties
<1>2. Len(q) \in Nat /\ DOMAIN q = 1 .. Len(q) /\ Len(q) >= 1 /\ Head(q) = q[1]
  BY EmptySeq
<1>3. DOMAIN Tail(q) = 1 .. Len(q) - 1
  BY <1>1, LenProperties
<1>4. \A i, j \in DOMAIN Tail(q) : Tail(q)[i] = Tail(q)[j] => i = j
  BY <1>1, <1>2, <1>3
<1> DEFINE r == Append(Tail(q), Head(q))
<1>5. /\ r \in Seq(S) /\ Len(r) = Len(q) /\ r[Len(q)] = q[1]
      /\ \A i \in 1 .. Len(Tail(q)) : r[i] = Tail(q)[i]
  BY <1>1, <1>2, AppendProperties
<1>6. \A i, j \in DOMAIN r : r[i] = r[j] => i = j
  <2> DEFINE n == Len(q)
  <2>1. DOMAIN r = 1 .. n
    BY <1>5, LenProperties
  <2>2. \A i \in 1 .. n - 1 : r[i] = q[i + 1] /\ i + 1 \in DOMAIN q
    BY <1>1, <1>2, <1>5
  <2>3. r[n] = q[1] /\ 1 \in DOMAIN q /\ n \in Nat
    BY <1>2, <1>5
  <2> HIDE DEF r, n
  <2>4. \A i, j \in DOMAIN q : q[i] = q[j] => i = j
    OBVIOUS
  <2>5. \A i, j \in 1 .. n - 1 : r[i] = r[j] => i = j
    BY <2>2, <2>3, <2>4
  <2>6. \A i \in 1 .. n - 1 : r[i] # r[n]
    <3>1. \A i \in 1 .. n - 1 : i + 1 # 1
      BY <2>3
    <3> QED
      BY <2>2, <2>3, <2>4, <3>1
  <2>7. \A i \in 1 .. n : i = n \/ i \in 1 .. n - 1
    BY <2>3
  <2> QED
    BY <2>1, <2>5, <2>6, <2>7
<1> QED
  BY <1>1, <1>4, <1>5, <1>6

-----------------------------------------------------------------------------
(* What the parts of a step keep well formed.                              *)

\* A fiber that makes a call is at a site.
LEMMA MakesACall ==
  ASSUME TypeOK, NEW f, NEW kind, Makes(f, kind)
  PROVE  /\ f \in Fibers /\ f = Head(ready) /\ waits[f] = "run" /\ phase \in {"pass", "suspending"}
         /\ ready \in Seq(Fibers) /\ ready # <<>>
         /\ at[f] \in Nat \ {0} /\ at[f] \in DOMAIN body[f]
         /\ Site(f) \in Sites /\ Kind(f) = kind
<1>1. body \in Bodies /\ ready \in Seq(Fibers) /\ at \in [Fibers -> Nat \ {0}]
  BY DEF TypeOK, TypeControl
<1>2. ready # <<>> /\ f = Head(ready) /\ at[f] <= Len(body[f]) /\ Kind(f) = kind
  BY DEF Makes
<1>3. f \in Fibers
  BY <1>1, <1>2, HeadTailProperties
<1>4. body[f] \in Seq(Calls)
  BY <1>1, <1>3, BodiesAssumption
<1>5. at[f] \in DOMAIN body[f]
  BY <1>1, <1>2, <1>3, <1>4
<1>6. Site(f) \in Sites
  BY <1>1, <1>3, <1>5, SitesAre DEF Site
<1> QED
  BY <1>1, <1>2, <1>3, <1>5, <1>6 DEF Makes

\* A call that returns is in the past of its fiber.
LEMMA ReturnWellFormed ==
  ASSUME WellFormed, NEW f \in Fibers, NEW v \in Results, Return(f, v), body' = body
  PROVE  /\ at' \in [Fibers -> Nat \ {0}]
         /\ returned' \in [Sites -> Results] /\ first' \in [Sites -> Results]
         /\ Past'
<1>1. /\ at \in [Fibers -> Nat \ {0}] /\ returned \in [Sites -> Results]
      /\ first \in [Sites -> Results] /\ body \in Bodies
  BY DEF WellFormed, TypeOK, TypeControl
<1>2. /\ at' = [at EXCEPT ![f] = @ + 1]
      /\ returned' = [returned EXCEPT ![Site(f)] = v]
      /\ first' = first \/ first' = [first EXCEPT ![Site(f)] = v]
  BY DEF Return
<1>3. at' \in [Fibers -> Nat \ {0}]
  BY <1>1, <1>2
<1>4. returned' \in [Sites -> Results] /\ first' \in [Sites -> Results]
  BY <1>1, <1>2
<1>5. Past'
  <2> SUFFICES ASSUME NEW s \in Sites, returned'[s] # Nothing
               PROVE  s[2] < at'[s[1]]
    BY SameBody DEF Past
  <2>1. s[1] \in Fibers /\ s[2] \in Nat /\ at[s[1]] \in Nat
    BY <1>1, SitesAre
  <2>2. CASE s = Site(f)
    BY <1>1, <1>2, <2>1, <2>2 DEF Site
  <2>3. CASE s # Site(f)
    <3>1. s[2] < at[s[1]]
      BY <1>1, <1>2, <2>3 DEF WellFormed, Past
    <3> QED
      BY <1>1, <1>2, <2>1, <3>1
  <2> QED
    BY <2>2, <2>3
<1> QED
  BY <1>3, <1>4, <1>5

\* A fiber that goes on as it was still waits for its call.
LEMMA StillWaiting ==
  ASSUME NEW f, Waiting(f), body' = body,
         at'[f] = at[f], waits'[f] = waits[f], slot'[f] = slot[f],
         issued[Site(f)] \in Nat, issued'[Site(f)] \in Nat, issued'[Site(f)] >= issued[Site(f)]
  PROVE  Waiting(f)'
<1>1. Site(f)' = Site(f) /\ Kind(f)' = Kind(f) /\ Name(f)' = Name(f) /\ Keys' = Keys
  BY DEF Site, Kind, Name, CallOf, Keys
<1>2. issued'[Site(f)'] >= issued[Site(f)]
  BY <1>1
<1>3. waits[f] = "command" => issued'[Site(f)'] >= 1
  BY <1>1, <1>2 DEF Waiting
<1> QED
  BY <1>1, <1>3 DEF Waiting

\* A fiber that waits for no command has nothing to keep.
LEMMA NotWaiting ==
  ASSUME NEW f, waits'[f] \notin {"command", "outbound"}
  PROVE  Waiting(f)'
BY DEF Waiting

\* The memo key of a call.
LEMMA MemoKeyIsKey ==
  ASSUME TypeOK, NEW f \in Fibers, at[f] \in DOMAIN body[f], Kind(f) \in {"call", "outbound"}
  PROVE  MemoKey(f) \in Keys /\ MemoKey(f)[1] = Name(f)
<1>1. body \in Bodies /\ seqs \in [Sequenced -> Nat]
  BY DEF TypeOK, TypeControl, TypeStores
<1>2. Name(f) \in Memoized \/ Name(f) \in Outbound
  BY <1>1, CallsOfBody DEF Kind, Name, CallOf
<1>3. Name(f) \in Sequenced \/ Name(f) \in Activities
  BY <1>2 DEF Sequenced, Memoized
<1> QED
  BY <1>1, <1>3 DEF MemoKey, Keys

\* Counting a call.
LEMMA CountTyped ==
  ASSUME TypeOK, NEW f, CountCall(f)
  PROVE  seqs' \in [Sequenced -> Nat]
BY DEF TypeOK, TypeStores, CountCall

-----------------------------------------------------------------------------
(* The steps of a fiber keep the state well formed.                        *)

\* A call that returns at once.
LEMMA ReturnsAtOnce ==
  ASSUME WellFormed, NEW f, NEW kind, Makes(f, kind), NEW v \in Results, Return(f, v),
         UNCHANGED <<stores, control, ready, waits, slot, issued>>,
         seqs' \in [Sequenced -> Nat], mailboxCursors' \in [Mailboxes -> Nat],
         \A m \in Mailboxes : mailboxCursors'[m] <= mailboxLogs[m]
  PROVE  WellFormed'
<1>1. f \in Fibers /\ waits[f] = "run"
  BY MakesACall DEF WellFormed
<1>2. /\ body' = body /\ waits' = waits /\ slot' = slot /\ issued' = issued
      /\ \A g \in Fibers : g # f => at'[g] = at[g]
  BY <1>1 DEF control, Return, WellFormed, TypeOK, TypeControl
<1>3. TypeStores'
  BY <1>2, SameBody DEF stores, WellFormed, TypeOK, TypeStores, Keys
<1>4. Past' /\ TypeControl'
  <2>1. /\ at' \in [Fibers -> Nat \ {0}] /\ Past'
        /\ returned' \in [Sites -> Results] /\ first' \in [Sites -> Results]
    BY <1>1, <1>2, ReturnWellFormed
  <2> QED
    BY <1>2, <2>1, SameBody DEF stores, control, WellFormed, TypeOK, TypeControl
<1>5. ASSUME NEW g \in Fibers PROVE Waiting(g)'
  <2>1. CASE g = f
    BY <1>1, <1>2, <2>1, NotWaiting
  <2>2. CASE g # f
    BY <1>2, <2>2 DEF WellFormed, Waiting, Kind, Name, CallOf, Site, Keys
  <2> QED
    BY <2>1, <2>2
<1> QED
  BY <1>3, <1>4, <1>5 DEF WellFormed, TypeOK

\* The step CallMemoized keeps a run well formed.
LEMMA CallMemoizedWellFormed ==
  ASSUME WellFormed, NEW f \in Fibers, CallMemoized(f)
  PROVE  WellFormed'
<1>1. Makes(f, "call") /\ Return(f, results[MemoKey(f)])
  BY DEF CallMemoized
<1>2. results[MemoKey(f)] \in Results
  BY ResultsAre DEF CallMemoized, WellFormed, TypeOK, TypeStores
<1>3. seqs' \in [Sequenced -> Nat]
  BY CountTyped DEF CallMemoized, WellFormed
<1> QED
  BY <1>1, <1>2, <1>3, ReturnsAtOnce DEF CallMemoized, WellFormed, TypeOK, TypeStores

\* The step AwaitCompleted keeps a run well formed.
LEMMA AwaitCompletedWellFormed ==
  ASSUME WellFormed, NEW f \in Fibers, AwaitCompleted(f)
  PROVE  WellFormed'
<1>1. Done \in Results
  BY ResultsAre
<1> QED
  BY <1>1, ReturnsAtOnce DEF AwaitCompleted, cursors, WellFormed, TypeOK, TypeStores

\* The message at the cursor of a mailbox.
LEMMA NextMessageWellFormed ==
  ASSUME WellFormed, NEW f \in Fibers, NEW kind \in {"take", "poll"}, Makes(f, kind),
         HasMessage(f), NextMessage(f)
  PROVE  WellFormed'
<1>1. Name(f) \in Mailboxes
  BY MakesACall, CallsOfBody DEF WellFormed, TypeOK, TypeControl, Kind, Name, CallOf
<1>2. /\ mailboxLogs \in [Mailboxes -> 0 .. MaxMessages] /\ mailboxCursors \in [Mailboxes -> Nat]
      /\ \A m \in Mailboxes : mailboxCursors[m] <= mailboxLogs[m]
  BY DEF WellFormed, TypeOK, TypeStores
<1>3. mailboxCursors[Name(f)] < mailboxLogs[Name(f)]
  BY DEF HasMessage
<1>4. mailboxCursors[Name(f)] + 1 \in 0 .. MaxMessages
  BY <1>1, <1>2, <1>3, BoundsAssumption
<1>5. Message(mailboxCursors[Name(f)] + 1) \in Results
  BY <1>4, ResultsAre
<1>6. /\ mailboxCursors' \in [Mailboxes -> Nat]
      /\ \A m \in Mailboxes : mailboxCursors'[m] <= mailboxLogs[m]
  BY <1>1, <1>2, <1>3 DEF NextMessage
<1>7. seqs' \in [Sequenced -> Nat]
  BY DEF NextMessage, WellFormed, TypeOK, TypeStores
<1> QED
  BY <1>5, <1>6, <1>7, ReturnsAtOnce DEF NextMessage

\* The step Take keeps a run well formed.
LEMMA TakeWellFormed ==
  ASSUME WellFormed, NEW f \in Fibers, Take(f)
  PROVE  WellFormed'
BY NextMessageWellFormed DEF Take

\* The step Poll keeps a run well formed.
LEMMA PollWellFormed ==
  ASSUME WellFormed, NEW f \in Fibers, Poll(f)
  PROVE  WellFormed'
<1>1. CASE HasMessage(f) /\ NextMessage(f)
  BY <1>1, NextMessageWellFormed DEF Poll
<1>2. CASE ~HasMessage(f) /\ Return(f, NoMessage)
             /\ UNCHANGED <<stores, control, cursors, ready, waits, slot, issued>>
  <2>1. NoMessage \in Results
    BY ResultsAre, BoundsAssumption DEF NoMessage
  <2> QED
    BY <1>2, <2>1, ReturnsAtOnce DEF Poll, cursors, WellFormed, TypeOK, TypeStores
<1> QED
  BY <1>1, <1>2 DEF Poll

\* A call that blocks its fiber.
LEMMA BlocksWellFormed ==
  ASSUME WellFormed, NEW f, NEW kind, Makes(f, kind),
         NEW what \in States, NEW key, Block(f, what, key),
         UNCHANGED <<stores, body, resumed, cancels, resumesLeft>>, phase' \in {phase, "suspending"},
         seqs' \in [Sequenced -> Nat], mailboxCursors' = mailboxCursors,
         what # "outbound",
         what = "command" => key \in Keys /\ key[1] = Name(f) /\ kind = "call" /\ Issue(f),
         issued' = issued \/ Issue(f)
  PROVE  WellFormed'
<1>1. /\ f \in Fibers /\ f = Head(ready) /\ ready # <<>>
      /\ at[f] \in DOMAIN body[f] /\ Site(f) \in Sites /\ Kind(f) = kind
  BY MakesACall DEF WellFormed
<1>2. /\ ready' = Tail(ready) /\ waits' = [waits EXCEPT ![f] = what]
      /\ slot' = [slot EXCEPT ![f] = key]
      /\ at' = at /\ first' = first /\ returned' = returned /\ body' = body
  BY DEF Block
<1>3. /\ ready \in Seq(Fibers) /\ \A i, j \in DOMAIN ready : ready[i] = ready[j] => i = j
      /\ waits \in [Fibers -> States] /\ DOMAIN slot = Fibers /\ issued \in [Sites -> Nat]
      /\ phase \in {"pass", "suspending", "parked", "success", "failed"}
  BY DEF WellFormed, TypeOK, TypeControl
<1>4. /\ issued' \in [Sites -> Nat] /\ \A s \in Sites : issued'[s] >= issued[s]
      /\ what = "command" => issued'[Site(f)] >= 1
  <2>1. CASE Issue(f)
    BY <1>1, <1>3, <2>1 DEF Issue
  <2>2. CASE ~Issue(f)
    BY <1>3, <2>2
  <2> QED
    BY <2>1, <2>2
<1>5. TypeStores'
  BY <1>2, SameBody DEF stores, WellFormed, TypeOK, TypeStores, Keys
<1>6. TypeControl'
  <2>1. Tail(ready) \in Seq(Fibers) /\ \A i, j \in DOMAIN Tail(ready) : Tail(ready)[i] = Tail(ready)[j] => i = j
    BY <1>1, <1>3, HeadLeaves
  <2>2. waits' \in [Fibers -> States] /\ DOMAIN slot' = Fibers
    BY <1>2, <1>3
  <2>3. \A g \in Fibers : waits'[g] = "outbound" => slot'[g] \in DOMAIN outboundCalls
    BY <1>2, <1>3 DEF WellFormed, TypeOK, TypeControl
  <2> QED
    BY <1>2, <1>3, <1>4, <2>1, <2>2, <2>3, SameBody DEF stores, WellFormed, TypeOK, TypeControl
<1>7. ASSUME NEW g \in Fibers PROVE Waiting(g)'
  <2>1. CASE g = f
    <3>1. waits'[f] = what /\ slot'[f] = key
      BY <1>1, <1>2, <1>3
    <3>2. Site(f)' = Site(f) /\ Kind(f)' = Kind(f) /\ Name(f)' = Name(f) /\ Keys' = Keys
      BY <1>2 DEF Site, Kind, Name, CallOf, Keys
    <3> QED
      BY <1>1, <1>2, <1>4, <2>1, <3>1, <3>2 DEF Waiting
  <2>2. CASE g # f
    <3>1. waits'[g] = waits[g] /\ slot'[g] = slot[g]
      BY <1>2, <1>3, <2>2
    <3>2. CASE waits[g] \in {"command", "outbound"}
      <4>1. Site(g) \in Sites
        BY <3>2, SitesAre DEF WellFormed, TypeOK, TypeControl, Waiting, Site
      <4> QED
        BY <1>2, <1>3, <1>4, <3>1, <4>1, StillWaiting DEF WellFormed
    <3>3. CASE waits[g] \notin {"command", "outbound"}
      BY <3>1, <3>3, NotWaiting
    <3> QED
      BY <3>2, <3>3
  <2> QED
    BY <2>1, <2>2
<1>8. Past'
  BY <1>2, SameBody DEF WellFormed, Past
<1> QED
  BY <1>5, <1>6, <1>7, <1>8 DEF WellFormed, TypeOK

\* The step CallScheduled keeps a run well formed.
LEMMA CallScheduledWellFormed ==
  ASSUME WellFormed, NEW f \in Fibers, CallScheduled(f)
  PROVE  WellFormed'
<1>1. Makes(f, "call") /\ Block(f, "command", MemoKey(f)) /\ Issue(f)
  BY DEF CallScheduled
<1>2. MemoKey(f) \in Keys /\ MemoKey(f)[1] = Name(f)
  BY <1>1, MakesACall, MemoKeyIsKey DEF WellFormed
<1>3. seqs' \in [Sequenced -> Nat]
  BY CountTyped DEF CallScheduled, WellFormed
<1> QED
  BY <1>1, <1>2, <1>3, BlocksWellFormed DEF CallScheduled, control, States

\* The step TakeBlocks keeps a run well formed.
LEMMA TakeBlocksWellFormed ==
  ASSUME WellFormed, NEW f \in Fibers, TakeBlocks(f)
  PROVE  WellFormed'
<1>1. seqs' \in [Sequenced -> Nat]
  BY DEF TakeBlocks, cursors, WellFormed, TypeOK, TypeStores
<1> QED
  BY <1>1, BlocksWellFormed DEF TakeBlocks, control, cursors, States

\* The step AwaitSuspends keeps a run well formed.
LEMMA AwaitSuspendsWellFormed ==
  ASSUME WellFormed, NEW f \in Fibers, AwaitSuspends(f)
  PROVE  WellFormed'
<1>1. seqs' \in [Sequenced -> Nat]
  BY DEF AwaitSuspends, cursors, WellFormed, TypeOK, TypeStores
<1> QED
  BY <1>1, BlocksWellFormed DEF AwaitSuspends, cursors, States

\* A fiber that runs on, alone in the queue.
LEMMA OneReady ==
  ASSUME NEW f \in Fibers
  PROVE  <<f>> \in Seq(Fibers) /\ \A i, j \in DOMAIN <<f>> : <<f>>[i] = <<f>>[j] => i = j
OBVIOUS

\* The step CallResolves keeps a run well formed.
LEMMA CallResolvesWellFormed ==
  ASSUME WellFormed, NEW f \in Fibers, CallResolves(f)
  PROVE  WellFormed'
<1> DEFINE v == <<f, at[f], issued[Site(f)]>>
<1>1. /\ at[f] \in DOMAIN body[f] /\ slot[f] \in Keys /\ Site(f) \in Sites
      /\ body' = body /\ issued' = issued
  BY SitesAre DEF CallResolves, WellFormed, TypeOK, TypeControl, Waiting, Site
<1>2. v \in Commands
  BY <1>1 DEF WellFormed, TypeOK, TypeControl, Commands, Site
<1>3. CASE /\ results' = Put(results, slot[f], v)
           /\ Return(f, v)
           /\ waits' = [waits EXCEPT ![f] = "run"]
           /\ slot' = [slot EXCEPT ![f] = Nothing]
           /\ ready' = <<f>>
           /\ UNCHANGED phase
  <2>1. /\ DOMAIN results' \subseteq Keys
        /\ \A k \in DOMAIN results' : results'[k] \in Commands
    <3> HIDE DEF v
    <3> QED
      BY <1>1, <1>2, <1>3 DEF WellFormed, TypeOK, TypeStores, Put
  <2>2. TypeStores'
    BY <1>1, <2>1, SameBody DEF CallResolves, cursors, WellFormed, TypeOK, TypeStores, Keys
  <2>3. /\ at' \in [Fibers -> Nat \ {0}] /\ Past'
        /\ returned' \in [Sites -> Results] /\ first' \in [Sites -> Results]
    BY <1>1, <1>2, <1>3, ResultsAre, ReturnWellFormed
  <2>4. /\ waits' \in [Fibers -> States] /\ DOMAIN slot' = Fibers /\ waits'[f] = "run"
        /\ \A g \in Fibers : g # f => waits'[g] = waits[g] /\ slot'[g] = slot[g] /\ at'[g] = at[g]
    BY <1>3 DEF WellFormed, TypeOK, TypeControl, States, Return
  <2>5. TypeControl'
    <3>1. \A g \in Fibers : waits'[g] = "outbound" => slot'[g] \in DOMAIN outboundCalls
      BY <2>4 DEF WellFormed, TypeOK, TypeControl
    <3>2. /\ body' \in Bodies /\ resumed' \in BOOLEAN /\ resumesLeft' \in Nat
          /\ phase' \in {"pass", "suspending", "parked", "success", "failed"}
          /\ cancels' \subseteq DOMAIN outboundCalls' /\ issued' \in [Sites -> Nat]
          /\ outboundCalls' = outboundCalls
      BY <1>1, <1>3 DEF CallResolves, WellFormed, TypeOK, TypeControl
    <3> QED
      BY <1>1, <1>3, <2>3, <2>4, <3>1, <3>2, OneReady, SameBody DEF TypeControl
  <2>6. ASSUME NEW g \in Fibers PROVE Waiting(g)'
    <3>1. CASE g = f
      BY <2>4, <3>1, NotWaiting
    <3>2. CASE g # f
      BY <1>1, <2>4, <3>2 DEF WellFormed, Waiting, Kind, Name, CallOf, Site, Keys
    <3> QED
      BY <3>1, <3>2
  <2> QED
    BY <2>2, <2>3, <2>5, <2>6 DEF WellFormed, TypeOK
<1>4. CASE phase' = "failed" /\ UNCHANGED <<results, fibers, first, returned>>
  <2>1. TypeOK'
    BY <1>1, <1>4, SameBody DEF CallResolves, cursors, fibers, WellFormed, TypeOK, TypeStores, TypeControl, Keys
  <2>2. Past' /\ \A g \in Fibers : Waiting(g)'
    BY <1>1, <1>4, SameBody
    DEF CallResolves, fibers, WellFormed, Past, Waiting, Kind, Name, CallOf, Site, Keys
  <2> QED
    BY <2>1, <2>2 DEF WellFormed
<1> QED
  BY <1>3, <1>4 DEF CallResolves

\* The step OutboundReturns keeps a run well formed.
LEMMA OutboundReturnsWellFormed ==
  ASSUME WellFormed, NEW f \in Fibers, OutboundReturns(f)
  PROVE  WellFormed'
<1>1. /\ waits[f] = "outbound" /\ at[f] \in DOMAIN body[f] /\ slot[f] \in DOMAIN outboundCalls
      /\ body' = body /\ issued' = issued /\ outboundCalls' = outboundCalls
  BY DEF OutboundReturns, WellFormed, TypeOK, TypeControl, Waiting, stores
<1>2. outboundCalls[slot[f]].command \in Commands
  BY <1>1 DEF WellFormed, TypeOK, TypeStores
<1>3. TypeStores'
  BY <1>1, SameBody DEF OutboundReturns, stores, cursors, WellFormed, TypeOK, TypeStores, Keys
<1>4. CASE outboundCalls[slot[f]].state = "done"
  <2>1. /\ Return(f, outboundCalls[slot[f]].command)
        /\ waits' = [waits EXCEPT ![f] = "run"]
        /\ slot' = [slot EXCEPT ![f] = Nothing]
        /\ ready' = ready /\ phase' = phase
    BY <1>4 DEF OutboundReturns
  <2>2. /\ at' \in [Fibers -> Nat \ {0}] /\ Past'
        /\ returned' \in [Sites -> Results] /\ first' \in [Sites -> Results]
    BY <1>1, <1>2, <2>1, ResultsAre, ReturnWellFormed
  <2>3. /\ waits' \in [Fibers -> States] /\ DOMAIN slot' = Fibers /\ waits'[f] = "run"
        /\ \A g \in Fibers : g # f => waits'[g] = waits[g] /\ slot'[g] = slot[g] /\ at'[g] = at[g]
    BY <2>1 DEF WellFormed, TypeOK, TypeControl, States, Return
  <2>4. TypeControl'
    <3>1. \A g \in Fibers : waits'[g] = "outbound" => slot'[g] \in DOMAIN outboundCalls
      BY <2>3 DEF WellFormed, TypeOK, TypeControl
    <3> QED
      BY <1>1, <2>1, <2>2, <2>3, <3>1, SameBody DEF OutboundReturns, WellFormed, TypeOK, TypeControl
  <2>5. ASSUME NEW g \in Fibers PROVE Waiting(g)'
    <3>1. CASE g = f
      BY <2>3, <3>1, NotWaiting
    <3>2. CASE g # f
      BY <1>1, <2>3, <3>2 DEF WellFormed, Waiting, Kind, Name, CallOf, Site, Keys
    <3> QED
      BY <3>1, <3>2
  <2> QED
    BY <1>3, <2>2, <2>4, <2>5 DEF WellFormed, TypeOK
<1>5. CASE outboundCalls[slot[f]].state # "done"
  <2>1. phase' = "failed" /\ UNCHANGED <<fibers, first, returned>>
    BY <1>5 DEF OutboundReturns
  <2>2. TypeControl'
    BY <1>1, <2>1, SameBody DEF OutboundReturns, fibers, WellFormed, TypeOK, TypeControl
  <2>3. Past' /\ \A g \in Fibers : Waiting(g)'
    BY <1>1, <2>1, SameBody DEF fibers, WellFormed, Past, Waiting, Kind, Name, CallOf, Site, Keys
  <2> QED
    BY <1>3, <2>2, <2>3 DEF WellFormed, TypeOK
<1> QED
  BY <1>4, <1>5

\* The step TakeUnblocks keeps a run well formed.
LEMMA TakeUnblocksWellFormed ==
  ASSUME WellFormed, NEW f \in Fibers, TakeUnblocks(f)
  PROVE  WellFormed'
<1>1. body' = body /\ UNCHANGED <<stores, control, cursors, history, at>>
  BY DEF TakeUnblocks, control
<1>2. /\ waits' \in [Fibers -> States] /\ DOMAIN slot' = Fibers /\ waits'[f] = "run"
      /\ \A g \in Fibers : g # f => waits'[g] = waits[g] /\ slot'[g] = slot[g]
      /\ ready' = <<f>>
  BY DEF TakeUnblocks, WellFormed, TypeOK, TypeControl, States
<1>3. TypeStores'
  BY <1>1, SameBody DEF stores, cursors, WellFormed, TypeOK, TypeStores, Keys
<1>4. TypeControl'
  <2>1. \A g \in Fibers : waits'[g] = "outbound" => slot'[g] \in DOMAIN outboundCalls
    BY <1>2 DEF WellFormed, TypeOK, TypeControl
  <2> QED
    BY <1>1, <1>2, <2>1, OneReady, SameBody DEF stores, control, history, WellFormed, TypeOK, TypeControl
<1>5. ASSUME NEW g \in Fibers PROVE Waiting(g)'
  <2>1. CASE g = f
    BY <1>2, <2>1, NotWaiting
  <2>2. CASE g # f
    BY <1>1, <1>2, <2>2 DEF history, WellFormed, Waiting, Kind, Name, CallOf, Site, Keys
  <2> QED
    BY <2>1, <2>2
<1>6. Past'
  BY <1>1, SameBody DEF history, WellFormed, Past
<1> QED
  BY <1>3, <1>4, <1>5, <1>6 DEF WellFormed, TypeOK

\* The step FiberEnds keeps a run well formed.
LEMMA FiberEndsWellFormed ==
  ASSUME WellFormed, NEW f \in Fibers, FiberEnds(f)
  PROVE  WellFormed'
<1>1. body' = body /\ UNCHANGED <<stores, cursors, control, history, at, waits, slot>> /\ ready' = Tail(ready)
  BY DEF FiberEnds, control
<1>2. Tail(ready) \in Seq(Fibers) /\ \A i, j \in DOMAIN Tail(ready) : Tail(ready)[i] = Tail(ready)[j] => i = j
  BY HeadLeaves DEF FiberEnds, WellFormed, TypeOK, TypeControl
<1>3. TypeStores'
  BY <1>1, SameBody DEF stores, cursors, WellFormed, TypeOK, TypeStores, Keys
<1>4. TypeControl'
  BY <1>1, <1>2, SameBody DEF stores, control, history, WellFormed, TypeOK, TypeControl
<1>5. Past' /\ \A g \in Fibers : Waiting(g)'
  BY <1>1, SameBody DEF history, WellFormed, Past, Waiting, Kind, Name, CallOf, Site, Keys
<1> QED
  BY <1>3, <1>4, <1>5 DEF WellFormed, TypeOK

\* The step CallOutbound keeps a run well formed.
LEMMA CallOutboundWellFormed ==
  ASSUME WellFormed, NEW f \in Fibers, CallOutbound(f)
  PROVE  WellFormed'
<1> DEFINE k == MemoKey(f)
           p == [command |-> Command(f), state |-> "pending"]
<1>1. /\ f = Head(ready) /\ ready # <<>> /\ at[f] \in DOMAIN body[f]
      /\ Site(f) \in Sites /\ Kind(f) = "outbound" /\ body \in Bodies
  BY MakesACall DEF CallOutbound, WellFormed, TypeOK, TypeControl
<1>2. k \in Keys /\ k[1] = Name(f)
  BY <1>1, MemoKeyIsKey DEF WellFormed
<1>3. /\ seqs' \in [Sequenced -> Nat] /\ body' = body /\ phase' = phase
      /\ UNCHANGED <<deferreds, results, mailboxLogs, mailboxCursors, control, at, first, returned>>
  BY CountTyped DEF CallOutbound, control, WellFormed
<1>4. /\ waits' \in [Fibers -> States] /\ DOMAIN slot' = Fibers /\ waits'[f] = "outbound" /\ slot'[f] = k
      /\ \A g \in Fibers : g # f => waits'[g] = waits[g] /\ slot'[g] = slot[g]
  BY DEF CallOutbound, WellFormed, TypeOK, TypeControl, States
<1>5. Command(f) \in Commands
  <2>1. issued[Site(f)] + 1 \in Nat /\ at[f] \in Nat
    BY <1>1, CallsOfBody DEF WellFormed, TypeOK, TypeControl
  <2> QED
    BY <1>1, <2>1 DEF Commands, Command, Site
<1>6. /\ DOMAIN outboundCalls' \subseteq Keys /\ k \in DOMAIN outboundCalls'
      /\ DOMAIN outboundCalls \subseteq DOMAIN outboundCalls'
      /\ \A j \in DOMAIN outboundCalls' : outboundCalls'[j] \in
           [command : Commands, state : {"pending", "done", "failed", "cancelled"}]
      /\ issued' \in [Sites -> Nat] /\ \A s \in Sites : issued'[s] >= issued[s]
      /\ ready' \in {Tail(ready), Append(Tail(ready), f)}
  <2>1. CASE IsMemoized(k)
    BY <1>1, <2>1 DEF CallOutbound, IsMemoized, WellFormed, TypeOK, TypeStores, TypeControl
  <2>2. CASE ~IsMemoized(k)
    <3>1. p \in [command : Commands, state : {"pending", "done", "failed", "cancelled"}]
      BY <1>5
    <3>2. outboundCalls' = Put(outboundCalls, k, p) /\ Issue(f) /\ ready' = Tail(ready)
      BY <2>2 DEF CallOutbound
    <3>3. /\ DOMAIN outboundCalls' = DOMAIN outboundCalls \cup {k}
          /\ \A j \in DOMAIN outboundCalls' : outboundCalls'[j] = IF j = k THEN p ELSE outboundCalls[j]
      BY <3>2 DEF Put
    <3>4. issued' \in [Sites -> Nat] /\ \A s \in Sites : issued'[s] >= issued[s]
      BY <1>1, <3>2 DEF Issue, WellFormed, TypeOK, TypeControl
    <3> HIDE DEF k, p
    <3> QED
      BY <1>2, <3>1, <3>2, <3>3, <3>4 DEF WellFormed, TypeOK, TypeStores
  <2> QED
    BY <2>1, <2>2
<1>7. TypeStores'
  BY <1>3, <1>6, SameBody DEF WellFormed, TypeOK, TypeStores, Keys
<1>8. TypeControl'
  <2>1. ready' \in Seq(Fibers) /\ \A i, j \in DOMAIN ready' : ready'[i] = ready'[j] => i = j
    <3>1. ready \in Seq(Fibers) /\ \A i, j \in DOMAIN ready : ready[i] = ready[j] => i = j
      BY DEF WellFormed, TypeOK, TypeControl
    <3>2. CASE ready' = Tail(ready)
      BY <1>1, <3>1, <3>2, HeadLeaves
    <3>3. CASE ready' = Append(Tail(ready), f)
      <4>1. ready' = Append(Tail(ready), Head(ready))
        BY <1>1, <3>3
      <4> QED
        BY <1>1, <3>1, <4>1, HeadLeaves, Zenon
    <3> QED
      BY <1>6, <3>2, <3>3
  <2>2. \A g \in Fibers : waits'[g] = "outbound" => slot'[g] \in DOMAIN outboundCalls'
    BY <1>4, <1>6 DEF WellFormed, TypeOK, TypeControl
  <2> QED
    BY <1>3, <1>4, <1>6, <2>1, <2>2, SameBody DEF control, WellFormed, TypeOK, TypeControl
<1>9. ASSUME NEW g \in Fibers PROVE Waiting(g)'
  <2>1. CASE g = f
    <3>1. Site(f)' = Site(f) /\ Kind(f)' = Kind(f) /\ Name(f)' = Name(f) /\ Keys' = Keys
      BY <1>3 DEF Site, Kind, Name, CallOf, Keys
    <3> QED
      BY <1>1, <1>2, <1>3, <1>4, <2>1, <3>1 DEF Waiting
  <2>2. CASE g # f
    <3>1. CASE waits[g] \in {"command", "outbound"}
      <4>1. Site(g) \in Sites
        BY <1>1, <3>1, SitesAre DEF WellFormed, Waiting, Site
      <4>2. issued \in [Sites -> Nat]
        BY DEF WellFormed, TypeOK, TypeControl
      <4> QED
        BY <1>3, <1>4, <1>6, <2>2, <4>1, <4>2, StillWaiting DEF WellFormed
    <3>2. CASE waits[g] \notin {"command", "outbound"}
      BY <1>4, <2>2, <3>2, NotWaiting
    <3> QED
      BY <3>1, <3>2
  <2> QED
    BY <2>1, <2>2
<1>10. Past'
  BY <1>3, SameBody DEF WellFormed, Past
<1> QED
  BY <1>7, <1>8, <1>9, <1>10 DEF WellFormed, TypeOK

-----------------------------------------------------------------------------
(* The other steps keep the state well formed.                             *)

\* The step OutboundResolves keeps a run well formed.
LEMMA OutboundResolvesWellFormed ==
  ASSUME WellFormed, NEW k \in DOMAIN outboundCalls, OutboundResolves(k)
  PROVE  WellFormed'
<1>1. /\ body' = body
      /\ UNCHANGED <<deferreds, results, mailboxLogs, cursors, history, control, at, waits, slot>>
  BY DEF OutboundResolves, control
<1>2. PICK s \in {"done", "failed", "cancelled"} : outboundCalls' = [outboundCalls EXCEPT ![k].state = s]
  BY DEF OutboundResolves
<1>3. /\ DOMAIN outboundCalls' = DOMAIN outboundCalls
      /\ \A j \in DOMAIN outboundCalls' : outboundCalls'[j] \in
           [command : Commands, state : {"pending", "done", "failed", "cancelled"}]
  BY <1>2 DEF WellFormed, TypeOK, TypeStores
<1>4. ready' \in Seq(Fibers) /\ \A i, j \in DOMAIN ready' : ready'[i] = ready'[j] => i = j
  <2>1. CASE \E f \in Fibers : ready' = <<f>>
    BY <2>1, OneReady
  <2>2. CASE ready' = ready
    BY <2>2 DEF WellFormed, TypeOK, TypeControl
  <2> QED
    BY <2>1, <2>2 DEF OutboundResolves
<1>5. TypeStores'
  BY <1>1, <1>3, SameBody DEF cursors, WellFormed, TypeOK, TypeStores, Keys
<1>6. TypeControl'
  BY <1>1, <1>3, <1>4, SameBody DEF control, history, WellFormed, TypeOK, TypeControl
<1>7. Past' /\ \A g \in Fibers : Waiting(g)'
  BY <1>1, SameBody DEF history, WellFormed, Past, Waiting, Kind, Name, CallOf, Site, Keys
<1> QED
  BY <1>5, <1>6, <1>7 DEF WellFormed, TypeOK

\* The step EndPass keeps a run well formed.
LEMMA EndPassWellFormed ==
  ASSUME WellFormed, EndPass
  PROVE  WellFormed'
<1>1. body' = body /\ UNCHANGED <<stores, cursors, history, at, body, resumed, resumesLeft>>
  BY DEF EndPass
<1>2. cancels' \subseteq DOMAIN outboundCalls
  <2>1. Interrupted \subseteq DOMAIN outboundCalls
    BY DEF Interrupted, WellFormed, TypeOK, TypeControl
  <2> QED
    BY <2>1 DEF EndPass, WellFormed, TypeOK, TypeControl
<1>3. TypeStores'
  BY <1>1, SameBody DEF stores, cursors, WellFormed, TypeOK, TypeStores, Keys
<1>4. /\ waits' \in [Fibers -> States] /\ \A g \in Fibers : waits'[g] = "suspended"
      /\ ready' \in Seq(Fibers) /\ DOMAIN ready' = {} /\ DOMAIN slot' = Fibers /\ phase' = "parked"
  BY DEF EndPass, States
<1>5. TypeControl'
  BY <1>1, <1>2, <1>4, SameBody DEF stores, history, WellFormed, TypeOK, TypeControl
<1>6. \A g \in Fibers : Waiting(g)'
  BY <1>4, NotWaiting
<1>7. Past'
  BY <1>1, SameBody DEF history, WellFormed, Past
<1> QED
  BY <1>3, <1>5, <1>6, <1>7 DEF WellFormed, TypeOK

\* The step NextPass keeps a run well formed.
LEMMA NextPassWellFormed ==
  ASSUME WellFormed, NextPass
  PROVE  WellFormed'
<1>1. /\ body' = body /\ resumed' = FALSE /\ phase' = "pass"
      /\ UNCHANGED <<stores, cancels, resumesLeft, issued, first>>
      /\ mailboxCursors' = NoneTaken /\ seqs' = NoCalls
  BY DEF NextPass, ResetPass
<1>2. TypeStores'
  BY <1>1, SameBody, BoundsAssumption DEF stores, WellFormed, TypeOK, TypeStores, Keys, NoneTaken, NoCalls
<1>3. /\ waits' \in [Fibers -> States] /\ \A g \in Fibers : waits'[g] = "run"
      /\ at' \in [Fibers -> Nat \ {0}] /\ DOMAIN slot' = Fibers
  BY DEF NextPass, StartFibers, States
<1>4. ready' \in Seq(Fibers) /\ \A i, j \in DOMAIN ready' : ready'[i] = ready'[j] => i = j
  BY BoundsAssumption DEF NextPass, StartFibers, Fibers
<1>5. returned' = [s \in Sites |-> Nothing]
  BY DEF NextPass, StartFibers
<1>6. TypeControl'
  BY <1>1, <1>3, <1>4, <1>5, SameBody, ResultsAre DEF stores, WellFormed, TypeOK, TypeControl
<1>7. Past'
  BY <1>1, <1>5, SameBody DEF Past
<1> QED
  BY <1>2, <1>3, <1>6, <1>7, NotWaiting DEF WellFormed, TypeOK

\* What comes from outside, and the end of the body, leave the fibers alone.
LEMMA FibersAloneWellFormed ==
  ASSUME WellFormed, UNCHANGED <<results, outboundCalls, cursors, fibers, history, body, cancels>>,
         deferreds' \in SUBSET Deferreds, mailboxLogs' \in [Mailboxes -> 0 .. MaxMessages],
         \A m \in Mailboxes : mailboxLogs'[m] >= mailboxLogs[m],
         resumed' \in BOOLEAN, resumesLeft' \in Nat,
         phase' \in {"pass", "suspending", "parked", "success", "failed"}
  PROVE  WellFormed'
<1>1. TypeStores'
  <2>1. \A m \in Mailboxes : mailboxCursors[m] <= mailboxLogs'[m]
    BY BoundsAssumption DEF WellFormed, TypeOK, TypeStores
  <2> QED
    BY <2>1, SameBody DEF cursors, WellFormed, TypeOK, TypeStores, Keys
<1>2. TypeControl'
  BY SameBody DEF fibers, history, WellFormed, TypeOK, TypeControl
<1>3. Past' /\ \A g \in Fibers : Waiting(g)'
  BY SameBody DEF fibers, history, WellFormed, Past, Waiting, Kind, Name, CallOf, Site, Keys
<1> QED
  BY <1>1, <1>2, <1>3 DEF WellFormed, TypeOK

\* The step BodyEnds keeps a run well formed.
LEMMA BodyEndsWellFormed ==
  ASSUME WellFormed, BodyEnds
  PROVE  WellFormed'
BY FibersAloneWellFormed, BoundsAssumption DEF BodyEnds, stores, WellFormed, TypeOK, TypeStores, TypeControl

\* The step MessageArrives keeps a run well formed.
LEMMA MessageArrivesWellFormed ==
  ASSUME WellFormed, NEW m \in Mailboxes, MessageArrives(m)
  PROVE  WellFormed'
<1>1. /\ mailboxLogs' \in [Mailboxes -> 0 .. MaxMessages]
      /\ \A n \in Mailboxes : mailboxLogs'[n] >= mailboxLogs[n]
  <2>1. mailboxLogs \in [Mailboxes -> 0 .. MaxMessages] /\ mailboxLogs[m] < MaxMessages
    BY DEF MessageArrives, WellFormed, TypeOK, TypeStores
  <2>2. mailboxLogs' = [mailboxLogs EXCEPT ![m] = mailboxLogs[m] + 1]
    BY DEF MessageArrives
  <2>3. mailboxLogs[m] + 1 \in 0 .. MaxMessages
    BY <2>1, BoundsAssumption
  <2> QED
    BY <2>1, <2>2, <2>3, BoundsAssumption
<1> QED
  BY <1>1, FibersAloneWellFormed DEF MessageArrives, control, WellFormed, TypeOK, TypeStores, TypeControl

\* The step CompleteDeferred keeps a run well formed.
LEMMA CompleteDeferredWellFormed ==
  ASSUME WellFormed, NEW d \in Deferreds, CompleteDeferred(d)
  PROVE  WellFormed'
BY FibersAloneWellFormed, BoundsAssumption DEF CompleteDeferred, WellFormed, TypeOK, TypeStores, TypeControl

\* The step ResumeSignal keeps a run well formed.
LEMMA ResumeSignalWellFormed ==
  ASSUME WellFormed, ResumeSignal
  PROVE  WellFormed'
BY FibersAloneWellFormed, BoundsAssumption DEF ResumeSignal, stores, WellFormed, TypeOK, TypeStores, TypeControl

\* A step that changes nothing keeps a run well formed.
LEMMA StutterWellFormed ==
  ASSUME WellFormed, UNCHANGED vars
  PROVE  WellFormed'
BY FibersAloneWellFormed, BoundsAssumption
DEF vars, stores, control, WellFormed, TypeOK, TypeStores, TypeControl

\* A run starts well formed.
LEMMA InitWellFormed == Init => WellFormed
<1> SUFFICES ASSUME Init PROVE WellFormed
  OBVIOUS
<1>1. TypeStores
  BY BoundsAssumption DEF Init, TypeStores, NoneTaken, NoCalls
<1>2. ready \in Seq(Fibers) /\ \A i, j \in DOMAIN ready : ready[i] = ready[j] => i = j
  BY BoundsAssumption DEF Init, Fibers
<1>3. TypeControl
  <2>1. issued \in [Sites -> Nat] /\ first \in [Sites -> Results] /\ returned \in [Sites -> Results]
    BY ResultsAre DEF Init
  <2>2. at \in [Fibers -> Nat \ {0}] /\ waits \in [Fibers -> States] /\ DOMAIN slot = Fibers
    BY DEF Init, States
  <2>3. /\ body \in Bodies /\ resumed \in BOOLEAN /\ resumesLeft \in Nat /\ phase = "pass" /\ cancels = {}
        /\ \A f \in Fibers : waits[f] = "run"
    BY BoundsAssumption DEF Init
  <2> QED
    BY <1>2, <2>1, <2>2, <2>3 DEF TypeControl
<1>4. Past /\ \A g \in Fibers : Waiting(g)
  BY DEF Init, Past, Waiting
<1> QED
  BY <1>1, <1>3, <1>4 DEF WellFormed, TypeOK

\* Every step of every fiber, and of the pass and the server, keeps a run well
\* formed.
LEMMA NextWellFormed == WellFormed /\ [Next]_vars => WellFormed'
<1> SUFFICES ASSUME WellFormed, [Next]_vars PROVE WellFormed'
  OBVIOUS
<1>1. ASSUME NEW f \in Fibers, Fiber(f) PROVE WellFormed'
  BY <1>1, CallMemoizedWellFormed, CallScheduledWellFormed, CallResolvesWellFormed, CallOutboundWellFormed,
     OutboundReturnsWellFormed, TakeWellFormed, TakeBlocksWellFormed, TakeUnblocksWellFormed, PollWellFormed,
     AwaitCompletedWellFormed, AwaitSuspendsWellFormed, FiberEndsWellFormed DEF Fiber
<1>2. CASE Resolve
  BY <1>2, OutboundResolvesWellFormed DEF Resolve
<1>3. CASE EndPass
  BY <1>3, EndPassWellFormed
<1>4. CASE NextPass
  BY <1>4, NextPassWellFormed
<1>5. CASE BodyEnds
  BY <1>5, BodyEndsWellFormed
<1>6. ASSUME NEW m \in Mailboxes, MessageArrives(m) PROVE WellFormed'
  BY <1>6, MessageArrivesWellFormed
<1>7. ASSUME NEW d \in Deferreds, CompleteDeferred(d) PROVE WellFormed'
  BY <1>7, CompleteDeferredWellFormed
<1>8. CASE ResumeSignal
  BY <1>8, ResumeSignalWellFormed
<1>9. CASE UNCHANGED vars
  BY <1>9, StutterWellFormed
<1> QED
  BY <1>1, <1>2, <1>3, <1>4, <1>5, <1>6, <1>7, <1>8, <1>9 DEF Next

\* For every body and bounds the tables, cursors, queue and slots of the
\* runtime state stay well formed (TemporalWorkflowRuntime.ts: the memo tables,
\* mailboxLogs and mailboxCursors of the runtime state).
THEOREM TypesCorrect == Spec => []TypeOK
<1>1. WellFormed => TypeOK
  BY DEF WellFormed
<1> QED
  BY <1>1, InitWellFormed, NextWellFormed, PTL DEF Spec

-----------------------------------------------------------------------------
(* Messages are taken in order.                                            *)

\* The calls that took a message of a mailbox in this pass.
Takers(m) == {s \in Sites : KindAt(s) \in {"take", "poll"} /\ NameAt(s) = m
                            /\ returned[s] \notin {Nothing, NoMessage}}
TakenFrom(m) ==
  /\ \A s, t \in Takers(m) : returned[s] = returned[t] => s = t
  /\ {returned[s] : s \in Takers(m)} = {Message(k) : k \in 1 .. mailboxCursors[m]}

\* The property, mailbox by mailbox.
LEMMA TakenByMailbox ==
  /\ TakenInOrder <=> \A m \in Mailboxes : TakenFrom(m)
  /\ TakenInOrder' <=> \A m \in Mailboxes : TakenFrom(m)'
BY DEF TakenInOrder, TakenFrom, Takers

\* Messages are told apart, from each other and from no result or message.
LEMMA Messages ==
  /\ \A j, k : Message(j) = Message(k) => j = k
  /\ \A k : Message(k) # Nothing
  /\ \A k \in Nat \ {0} : Message(k) # NoMessage
BY DEF Message, Nothing, NoMessage

\* What else returns does not matter to a mailbox.
LEMMA TakersStay ==
  ASSUME NEW m \in Mailboxes, TakenFrom(m), body' = body, mailboxCursors'[m] = mailboxCursors[m],
         \A s \in Sites : KindAt(s) \in {"take", "poll"} =>
           \/ returned'[s] = returned[s]
           \/ returned[s] \in {Nothing, NoMessage} /\ returned'[s] \in {Nothing, NoMessage}
  PROVE  TakenFrom(m)'
<1>1. Sites' = Sites /\ \A s : KindAt(s)' = KindAt(s) /\ NameAt(s)' = NameAt(s)
  BY SameBody DEF KindAt, NameAt
<1>2. Takers(m)' = Takers(m) /\ \A s \in Takers(m) : returned'[s] = returned[s]
  BY <1>1 DEF Takers
<1> QED
  BY <1>2 DEF TakenFrom

\* A call of another kind.
LEMMA OthersReturn ==
  ASSUME WellFormed, TakenInOrder, NEW f \in Fibers, NEW v, Return(f, v),
         Kind(f) \notin {"take", "poll"}, body' = body, mailboxCursors' = mailboxCursors
  PROVE  TakenInOrder'
<1>1. \A s \in Sites : KindAt(s) \in {"take", "poll"} => returned'[s] = returned[s]
  <2>1. KindAt(Site(f)) = Kind(f)
    BY DEF KindAt, Kind, Site, CallOf
  <2>2. returned \in [Sites -> Results] /\ returned' = [returned EXCEPT ![Site(f)] = v]
    BY DEF WellFormed, TypeOK, TypeControl, Return
  <2> QED
    BY <2>1, <2>2
<1> QED
  BY <1>1, TakersStay, TakenByMailbox

\* The message at the cursor is the one after those that were taken.
LEMMA NextTaken ==
  ASSUME WellFormed, TakenInOrder, NEW f, NEW kind \in {"take", "poll"}, Makes(f, kind), NextMessage(f)
  PROVE  TakenInOrder'
<1>1. /\ f \in Fibers /\ at[f] \in DOMAIN body[f] /\ at[f] \in Nat /\ Site(f) \in Sites
      /\ Kind(f) \in {"take", "poll"}
  BY MakesACall DEF WellFormed
<1> PICK m \in Mailboxes : m = Name(f)
  BY <1>1, CallsOfBody DEF Kind, Name, CallOf, WellFormed, TypeOK, TypeControl
<1> PICK c \in Nat : c = mailboxCursors[m]
  BY DEF WellFormed, TypeOK, TypeStores
<1>2. KindAt(Site(f)) = Kind(f) /\ NameAt(Site(f)) = m
  BY DEF KindAt, NameAt, Kind, Name, Site, CallOf
<1>3. mailboxCursors \in [Mailboxes -> Nat] /\ returned \in [Sites -> Results]
  BY DEF WellFormed, TypeOK, TypeStores, TypeControl
<1>4. /\ body' = body /\ returned' = [returned EXCEPT ![Site(f)] = Message(c + 1)]
      /\ mailboxCursors' = [mailboxCursors EXCEPT ![m] = c + 1]
  BY DEF NextMessage, Return, control
<1>5. returned[Site(f)] = Nothing
  <2>1. ~(Site(f)[2] < at[Site(f)[1]])
    BY <1>1 DEF Site
  <2> QED
    BY <1>1, <2>1 DEF WellFormed, Past
<1>6. Sites' = Sites /\ \A s : KindAt(s)' = KindAt(s) /\ NameAt(s)' = NameAt(s)
  BY <1>4, SameBody DEF KindAt, NameAt
<1>7. ASSUME NEW n \in Mailboxes, n # m PROVE TakenFrom(n)'
  <2>1. Takers(n)' = Takers(n) /\ \A s \in Takers(n) : returned'[s] = returned[s]
    BY <1>1, <1>2, <1>3, <1>4, <1>6, <1>7 DEF Takers
  <2> QED
    BY <1>3, <1>4, <1>7, <2>1, TakenByMailbox DEF TakenFrom
<1>8. TakenFrom(m)'
  <2>1. Takers(m)' = Takers(m) \cup {Site(f)} /\ Site(f) \notin Takers(m)
    <3>1. Message(c + 1) \notin {Nothing, NoMessage}
      BY <1>3, Messages
    <3> QED
      BY <1>1, <1>2, <1>3, <1>4, <1>5, <1>6, <3>1 DEF Takers
  <2>2. returned'[Site(f)] = Message(c + 1) /\ \A s \in Takers(m) : returned'[s] = returned[s]
    BY <1>1, <1>3, <1>4, <2>1 DEF Takers
  <2>3. TakenFrom(m)
    BY <1>2, TakenByMailbox
  <2>4. \A s \in Takers(m) : \E k \in 1 .. c : returned[s] = Message(k)
    BY <2>3 DEF TakenFrom
  <2>5. \A s \in Takers(m) : returned[s] # Message(c + 1)
    BY <1>3, <2>4, Messages
  <2>6. \A s, t \in Takers(m)' : returned'[s] = returned'[t] => s = t
    BY <2>1, <2>2, <2>3, <2>5 DEF TakenFrom
  <2>7. {returned'[s] : s \in Takers(m)'} = {Message(k) : k \in 1 .. c + 1}
    <3>1. {returned'[s] : s \in Takers(m)'} = {returned[s] : s \in Takers(m)} \cup {Message(c + 1)}
      BY <2>1, <2>2
    <3>2. 1 .. c + 1 = (1 .. c) \cup {c + 1}
      BY <1>3
    <3>3. {Message(k) : k \in 1 .. c + 1} = {Message(k) : k \in 1 .. c} \cup {Message(c + 1)}
      BY <3>2
    <3> QED
      BY <2>3, <3>1, <3>3 DEF TakenFrom
  <2>8. mailboxCursors'[m] = c + 1
    BY <1>2, <1>3, <1>4
  <2> QED
    BY <2>6, <2>7, <2>8 DEF TakenFrom
<1> QED
  BY <1>7, <1>8, TakenByMailbox

\* The step Poll keeps the messages in order.
LEMMA PollTaken ==
  ASSUME WellFormed, TakenInOrder, NEW f \in Fibers, Poll(f)
  PROVE  TakenInOrder'
<1>1. CASE NextMessage(f)
  BY <1>1, NextTaken DEF Poll
<1>2. CASE Return(f, NoMessage) /\ UNCHANGED <<stores, control, cursors, ready, waits, slot, issued>>
  <2>1. f \in Fibers /\ Site(f) \in Sites /\ at[f] \in Nat
    BY MakesACall DEF Poll, WellFormed
  <2>2. returned[Site(f)] = Nothing
    <3>1. ~(Site(f)[2] < at[Site(f)[1]])
      BY <2>1 DEF Site
    <3> QED
      BY <2>1, <3>1 DEF WellFormed, Past
  <2>3. returned \in [Sites -> Results] /\ returned' = [returned EXCEPT ![Site(f)] = NoMessage]
    BY <1>2 DEF WellFormed, TypeOK, TypeControl, Return
  <2>4. \A s \in Sites : \/ returned'[s] = returned[s]
                         \/ returned[s] \in {Nothing, NoMessage} /\ returned'[s] \in {Nothing, NoMessage}
    BY <2>2, <2>3
  <2> QED
    BY <1>2, <2>4, TakersStay, TakenByMailbox DEF cursors, control
<1> QED
  BY <1>1, <1>2 DEF Poll

\* The step NextPass keeps the messages in order.
LEMMA NextPassTaken ==
  ASSUME TakenInOrder, NextPass
  PROVE  TakenInOrder'
<1>1. returned' = [s \in Sites |-> Nothing] /\ mailboxCursors' = NoneTaken /\ body' = body
  BY DEF NextPass, StartFibers, ResetPass
<1>2. ASSUME NEW m \in Mailboxes PROVE TakenFrom(m)'
  <2>1. Takers(m)' = {}
    BY <1>1, SameBody DEF Takers
  <2>2. mailboxCursors'[m] = 0
    BY <1>1 DEF NoneTaken
  <2> QED
    BY <2>1, <2>2 DEF TakenFrom
<1> QED
  BY <1>2, TakenByMailbox

\* At first nothing is taken.
LEMMA InitTaken == Init => TakenInOrder
<1> SUFFICES ASSUME Init, NEW m \in Mailboxes PROVE TakenFrom(m)
  BY TakenByMailbox
<1>1. Takers(m) = {} /\ mailboxCursors[m] = 0
  BY DEF Init, NoneTaken, Takers
<1> QED
  BY <1>1 DEF TakenFrom

\* Every step of a fiber keeps the messages in order.
LEMMA FiberTaken ==
  ASSUME WellFormed, TakenInOrder, NEW f \in Fibers, Fiber(f)
  PROVE  TakenInOrder'
<1>1. CASE CallMemoized(f)
  <2>1. Kind(f) = "call"
    BY <1>1 DEF CallMemoized, Makes
  <2> QED
    BY <1>1, <2>1, OthersReturn DEF CallMemoized, control
<1>2. CASE AwaitCompleted(f)
  <2>1. Kind(f) = "await"
    BY <1>2 DEF AwaitCompleted, Makes
  <2> QED
    BY <1>2, <2>1, OthersReturn DEF AwaitCompleted, control, cursors
<1>3. CASE CallResolves(f)
  <2>1. Kind(f) = "call" /\ body' = body /\ mailboxCursors' = mailboxCursors
    BY <1>3 DEF CallResolves, cursors, WellFormed, Waiting
  <2>2. CASE Return(f, <<f, at[f], issued[Site(f)]>>)
    BY <2>1, <2>2, OthersReturn
  <2>3. CASE returned' = returned
    BY <2>1, <2>3, TakersStay, TakenByMailbox
  <2> QED
    BY <1>3, <2>2, <2>3 DEF CallResolves
<1>4. CASE OutboundReturns(f)
  <2>1. Kind(f) = "outbound" /\ body' = body /\ mailboxCursors' = mailboxCursors
    BY <1>4 DEF OutboundReturns, cursors, WellFormed, Waiting
  <2>2. CASE Return(f, outboundCalls[slot[f]].command)
    BY <2>1, <2>2, OthersReturn
  <2>3. CASE returned' = returned
    BY <2>1, <2>3, TakersStay, TakenByMailbox
  <2> QED
    BY <1>4, <2>2, <2>3 DEF OutboundReturns
<1>5. CASE Take(f)
  BY <1>5, NextTaken DEF Take
<1>6. CASE Poll(f)
  BY <1>6, PollTaken
<1>7. CASE CallScheduled(f) \/ CallOutbound(f) \/ TakeBlocks(f) \/ TakeUnblocks(f) \/ AwaitSuspends(f) \/ FiberEnds(f)
  <2>1. UNCHANGED <<returned, mailboxCursors, body>>
    BY <1>7 DEF CallScheduled, CallOutbound, TakeBlocks, TakeUnblocks, AwaitSuspends, FiberEnds, Block,
                history, control, cursors
  <2> QED
    BY <2>1, TakersStay, TakenByMailbox
<1> QED
  BY <1>1, <1>2, <1>3, <1>4, <1>5, <1>6, <1>7 DEF Fiber

\* The messages stay in order in every step.
LEMMA NextTakenInOrder == WellFormed /\ TakenInOrder /\ [Next]_vars => TakenInOrder'
<1> SUFFICES ASSUME WellFormed, TakenInOrder, [Next]_vars PROVE TakenInOrder'
  OBVIOUS
<1>1. CASE \E f \in Fibers : Fiber(f)
  BY <1>1, FiberTaken
<1>2. CASE NextPass
  BY <1>2, NextPassTaken
<1>3. CASE \/ Resolve \/ EndPass \/ BodyEnds \/ ResumeSignal \/ UNCHANGED vars
           \/ \E m \in Mailboxes : MessageArrives(m)
           \/ \E d \in Deferreds : CompleteDeferred(d)
  <2>1. UNCHANGED <<returned, mailboxCursors, body>>
    BY <1>3 DEF Resolve, OutboundResolves, EndPass, BodyEnds, ResumeSignal, MessageArrives, CompleteDeferred,
                vars, history, control, cursors
  <2> QED
    BY <2>1, TakersStay, TakenByMailbox
<1> QED
  BY <1>1, <1>2, <1>3 DEF Next

\* Whatever fibers take from or poll a mailbox, and in any pass: the messages
\* taken are the first of the log, each by one call (take and poll of
\* TemporalDurableMailbox, nextMessage).
THEOREM MessagesInOrder == Spec => []TakenInOrder
BY InitWellFormed, NextWellFormed, InitTaken, NextTakenInOrder, PTL DEF Spec

-----------------------------------------------------------------------------
(* Counting the calls of a fiber.                                          *)

\* Of a set, what lies before i + 1 is what lies before i, and i if it is in it.
LEMMA PositionsBefore ==
  ASSUME NEW S, NEW i \in Nat \ {0}
  PROVE  /\ IsFiniteSet((1 .. i - 1) \cap S) /\ Cardinality((1 .. i - 1) \cap S) \in Nat
         /\ i \in S => Cardinality((1 .. (i + 1) - 1) \cap S) = Cardinality((1 .. i - 1) \cap S) + 1
         /\ i \notin S => (1 .. (i + 1) - 1) \cap S = (1 .. i - 1) \cap S
<1> DEFINE B == (1 .. i - 1) \cap S
           C == (1 .. (i + 1) - 1) \cap S
<1>1. IsFiniteSet(B) /\ Cardinality(B) \in Nat
  <2>1. IsFiniteSet(1 .. i - 1)
    BY FS_Interval
  <2>2. B \in SUBSET (1 .. i - 1)
    OBVIOUS
  <2> QED
    BY <2>1, <2>2, FS_Subset, FS_CardinalityType
<1>2. i \notin B /\ \A j : j \in 1 .. (i + 1) - 1 <=> j = i \/ j \in 1 .. i - 1
  OBVIOUS
<1>3. i \in S => C = B \cup {i}
  BY <1>2
<1>4. i \notin S => C = B
  BY <1>2
<1>5. i \in S => Cardinality(C) = Cardinality(B) + 1
  BY <1>1, <1>2, <1>3, FS_AddElement
<1> QED
  BY <1>1, <1>4, <1>5

\* Earlier positions are counted by the later ones of the set.
LEMMA PositionsApart ==
  ASSUME NEW S, NEW i \in S, NEW j \in S, i \in Nat \ {0}, j \in Nat \ {0},
         Cardinality((1 .. i - 1) \cap S) = Cardinality((1 .. j - 1) \cap S)
  PROVE  i = j
<1>1. ASSUME NEW k \in S, NEW l \in S, k \in Nat \ {0}, l \in Nat \ {0}, k < l
      PROVE  Cardinality((1 .. k - 1) \cap S) < Cardinality((1 .. l - 1) \cap S)
  <2>1. IsFiniteSet((1 .. l - 1) \cap S) /\ Cardinality((1 .. l - 1) \cap S) \in Nat
    BY <1>1, PositionsBefore
  <2>2. (1 .. (k + 1) - 1) \cap S \in SUBSET ((1 .. l - 1) \cap S)
    BY <1>1
  <2>3. Cardinality((1 .. (k + 1) - 1) \cap S) <= Cardinality((1 .. l - 1) \cap S)
    BY <2>1, <2>2, FS_Subset
  <2>4. /\ Cardinality((1 .. k - 1) \cap S) \in Nat
        /\ Cardinality((1 .. (k + 1) - 1) \cap S) = Cardinality((1 .. k - 1) \cap S) + 1
    BY <1>1, PositionsBefore
  <2> QED
    BY <2>1, <2>3, <2>4
<1>2. /\ Cardinality((1 .. i - 1) \cap S) \in Nat
      /\ Cardinality((1 .. j - 1) \cap S) \in Nat
  BY PositionsBefore
<1>3. i < j \/ j < i \/ i = j
  OBVIOUS
<1> QED
  BY <1>1, <1>2, <1>3

-----------------------------------------------------------------------------
(* Names that one fiber uses.                                              *)

\* If a site is stable then so are all sites of its name.
LEMMA StableNames ==
  ASSUME NEW s \in Sites, Stable(s), NEW t \in Sites, NameAt(t) = NameAt(s)
  PROVE  /\ t[1] = s[1] /\ Stable(t) /\ KindAt(t) # "poll" /\ KindAt(s) # "poll"
         /\ NameAt(s) \in Activities => t = s
BY DEF Stable

\* What is said of the body stays true while the body stays the same.
LEMMA SameSites ==
  ASSUME body' = body
  PROVE  /\ \A s : KindAt(s)' = KindAt(s) /\ NameAt(s)' = NameAt(s)
         /\ \A s : KeyOf(s)' = KeyOf(s) /\ MessageOf(s)' = MessageOf(s)
         /\ \A s : Stable(s)' <=> Stable(s)
<1>1. Sites' = Sites /\ \A s : KindAt(s)' = KindAt(s) /\ NameAt(s)' = NameAt(s)
  BY SameBody DEF KindAt, NameAt
<1>2. \A s : KeyOf(s)' = KeyOf(s) /\ MessageOf(s)' = MessageOf(s)
  BY <1>1 DEF KeyOf, MessageOf, CallsBefore, TakesBefore, CallsOf, TakesOf, NameAt
<1>3. \A s : Stable(s)' <=> Stable(s)
  BY <1>1 DEF Stable
<1> QED
  BY <1>1, <1>2, <1>3

\* The cursors of the next state, counted in the body of this one.
LEMMA CursorsNext ==
  ASSUME body' = body, NEW s,
         phase' \in {"pass", "suspending"} =>
           /\ NameAt(s) \in Sequenced =>
                seqs'[NameAt(s)] = Cardinality(CallsBefore(s[1], NameAt(s), Counted(s[1])'))
           /\ NameAt(s) \in Mailboxes =>
                mailboxCursors'[NameAt(s)] = Cardinality(TakesBefore(s[1], NameAt(s), at'[s[1]]))
  PROVE  CursorsAgree(s)'
BY DEF CursorsAgree, CallsBefore, CallsOf, TakesBefore, TakesOf, NameAt

\* Two calls of a fiber that use one name have keys of their own.
LEMMA KeysApart ==
  ASSUME body \in Bodies, NEW s \in Sites, Stable(s), NEW t \in Sites,
         KindAt(s) \in {"call", "outbound"}, KindAt(t) \in {"call", "outbound"}, KeyOf(s) = KeyOf(t)
  PROVE  s = t
<1>1. /\ s = <<s[1], s[2]>> /\ s[1] \in Fibers /\ s[2] \in DOMAIN body[s[1]] /\ s[2] \in Nat \ {0}
      /\ t = <<t[1], t[2]>> /\ t[1] \in Fibers /\ t[2] \in DOMAIN body[t[1]] /\ t[2] \in Nat \ {0}
  BY SitesAre
<1>2. NameAt(s) = NameAt(t)
  BY DEF KeyOf
<1>3. t[1] = s[1] /\ (NameAt(s) \in Activities => t = s)
  BY <1>2, StableNames
<1>4. NameAt(s) \in Memoized \/ NameAt(s) \in Outbound
  BY <1>1, CallsOfBody DEF NameAt, KindAt
<1>5. CASE NameAt(s) \in Sequenced
  <2>1. s[2] \in CallsOf(s[1], NameAt(s)) /\ t[2] \in CallsOf(s[1], NameAt(s))
    BY <1>1, <1>2, <1>3 DEF CallsOf, NameAt, KindAt
  <2>2. Cardinality((1 .. s[2] - 1) \cap CallsOf(s[1], NameAt(s)))
          = Cardinality((1 .. t[2] - 1) \cap CallsOf(s[1], NameAt(s)))
    BY <1>2, <1>3, <1>5 DEF KeyOf, CallsBefore
  <2>3. s[2] = t[2]
    BY <1>1, <2>1, <2>2, PositionsApart
  <2> QED
    BY <1>1, <1>3, <2>3
<1>6. CASE NameAt(s) \notin Sequenced
  BY <1>3, <1>4, <1>6 DEF Sequenced, Memoized
<1> QED
  BY <1>5, <1>6

\* The call a fiber makes has the key of its site.
LEMMA MakesAtKey ==
  ASSUME WellFormed, NEW f, NEW kind \in {"call", "outbound"}, Makes(f, kind),
         Stable(Site(f)), Replays(Site(f))
  PROVE  MemoKey(f) = KeyOf(Site(f))
<1>1. phase \in {"pass", "suspending"} /\ waits[f] = "run"
  BY MakesACall DEF WellFormed
<1>2. NameAt(Site(f)) = Name(f) /\ Site(f)[1] = f /\ Site(f)[2] = at[f]
  BY DEF NameAt, Name, CallOf, Site
<1>3. Name(f) \in Sequenced => seqs[Name(f)] = Cardinality(CallsBefore(f, Name(f), at[f]))
  BY <1>1, <1>2 DEF Replays, CursorsAgree, Counted
<1> QED
  BY <1>2, <1>3 DEF MemoKey, KeyOf

-----------------------------------------------------------------------------
(* The cursors agree with what the fibers have called.                     *)

\* A fiber makes a call that takes a position.
LEMMA CallAdvances ==
  ASSUME WellFormed, NEW f, NEW kind \in {"call", "outbound"}, Makes(f, kind), CountCall(f),
         body' = body, mailboxCursors' = mailboxCursors, phase' = phase,
         \A g \in Fibers : g # f => at'[g] = at[g] /\ waits'[g] = waits[g],
         Counted(f)' = at[f] + 1, at'[f] \in {at[f], at[f] + 1},
         NEW s \in Sites, Stable(s), CursorsAgree(s)
  PROVE  CursorsAgree(s)'
<1>1. /\ f \in Fibers /\ waits[f] = "run" /\ phase \in {"pass", "suspending"} /\ at[f] \in Nat \ {0}
      /\ at[f] \in DOMAIN body[f] /\ Site(f) \in Sites /\ Kind(f) = kind
  BY MakesACall DEF WellFormed
<1>2. /\ body[f][at[f]][1] = kind /\ body[f][at[f]][2] = Name(f)
      /\ Site(f)[1] = f /\ NameAt(Site(f)) = Name(f)
  BY <1>1 DEF Kind, Name, CallOf, Site, NameAt
<1>3. seqs \in [Sequenced -> Nat] /\ s[1] \in Fibers
  BY SitesAre DEF WellFormed, TypeOK, TypeStores, TypeControl
<1>4. CASE s[1] = f
  <2>1. Counted(f) = at[f]
    BY <1>1 DEF Counted
  <2>2. at[f] \in CallsOf(f, NameAt(s)) <=> Name(f) = NameAt(s)
    BY <1>1, <1>2 DEF CallsOf
  <2>3. at[f] \notin TakesOf(f, NameAt(s))
    BY <1>1, <1>2 DEF TakesOf
  <2>4. CASE Name(f) = NameAt(s)
    <3>1. /\ Cardinality(CallsBefore(f, NameAt(s), at[f] + 1)) = Cardinality(CallsBefore(f, NameAt(s), at[f])) + 1
          /\ TakesBefore(f, NameAt(s), at[f] + 1) = TakesBefore(f, NameAt(s), at[f])
      BY <1>1, <2>2, <2>3, <2>4, PositionsBefore DEF CallsBefore, TakesBefore
    <3>2. NameAt(s) \in Sequenced => seqs'[NameAt(s)] = seqs[NameAt(s)] + 1
      BY <1>3, <2>4 DEF CountCall
    <3> QED
      BY <1>1, <1>4, <2>1, <3>1, <3>2, CursorsNext DEF CursorsAgree
  <2>5. CASE Name(f) # NameAt(s)
    <3>1. /\ CallsBefore(f, NameAt(s), at[f] + 1) = CallsBefore(f, NameAt(s), at[f])
          /\ TakesBefore(f, NameAt(s), at[f] + 1) = TakesBefore(f, NameAt(s), at[f])
      BY <1>1, <2>2, <2>3, <2>5, PositionsBefore DEF CallsBefore, TakesBefore
    <3>2. NameAt(s) \in Sequenced => seqs'[NameAt(s)] = seqs[NameAt(s)]
      BY <1>3, <2>5 DEF CountCall
    <3> QED
      BY <1>1, <1>4, <2>1, <3>1, <3>2, CursorsNext DEF CursorsAgree
  <2> QED
    BY <2>4, <2>5
<1>5. CASE s[1] # f
  <2>1. Name(f) # NameAt(s)
    BY <1>1, <1>2, <1>5, StableNames
  <2>2. NameAt(s) \in Sequenced => seqs'[NameAt(s)] = seqs[NameAt(s)]
    BY <1>3, <2>1 DEF CountCall
  <2>3. Counted(s[1])' = Counted(s[1]) /\ at'[s[1]] = at[s[1]]
    BY <1>3, <1>5 DEF Counted
  <2> QED
    BY <1>1, <2>2, <2>3, CursorsNext DEF CursorsAgree
<1> QED
  BY <1>4, <1>5

\* A fiber goes on from a call that takes no position, or that it has counted.
LEMMA FiberGoesOn ==
  ASSUME WellFormed, NEW f \in Fibers, at[f] \in DOMAIN body[f],
         body' = body, phase' = phase, seqs' = seqs, waits' = [waits EXCEPT ![f] = "run"],
         at' = [at EXCEPT ![f] = @ + 1],
         IF waits[f] = "run" THEN Kind(f) \notin {"call", "outbound"}
                             ELSE waits[f] \in {"command", "outbound"} /\ Kind(f) \in {"call", "outbound"},
         \/ mailboxCursors' = mailboxCursors /\ Kind(f) # "take"
         \/ mailboxCursors' = [mailboxCursors EXCEPT ![Name(f)] = @ + 1] /\ Kind(f) \in {"take", "poll"},
         NEW s \in Sites, Stable(s), CursorsAgree(s)
  PROVE  CursorsAgree(s)'
<1>1. /\ body \in Bodies /\ s[1] \in Fibers /\ at[f] \in Nat \ {0} /\ at \in [Fibers -> Nat \ {0}]
      /\ waits \in [Fibers -> States] /\ mailboxCursors \in [Mailboxes -> Nat] /\ Site(f) \in Sites
  BY SitesAre DEF WellFormed, TypeOK, TypeStores, TypeControl, Site
<1>2. /\ body[f][at[f]] = <<Kind(f), Name(f)>>
      /\ Site(f)[1] = f /\ NameAt(Site(f)) = Name(f) /\ KindAt(Site(f)) = Kind(f)
  BY <1>1, CallsOfBody DEF Kind, Name, CallOf, Site, NameAt, KindAt
<1>3. Name(f) = NameAt(s) => s[1] = f /\ Kind(f) # "poll"
  BY <1>1, <1>2, StableNames
<1>4. CASE s[1] = f
  <2>1. Cardinality(CallsBefore(f, NameAt(s), Counted(f)')) = Cardinality(CallsBefore(f, NameAt(s), Counted(f)))
    <3>1. waits'[f] = "run" /\ at'[f] = at[f] + 1
      BY <1>1
    <3>2. CASE waits[f] = "run"
      <4>1. Counted(f)' = at[f] + 1 /\ Counted(f) = at[f]
        BY <3>1, <3>2 DEF Counted
      <4>2. at[f] \notin CallsOf(f, NameAt(s))
        BY <1>2, <3>2 DEF CallsOf
      <4> QED
        BY <1>1, <4>1, <4>2, PositionsBefore DEF CallsBefore
    <3>3. CASE waits[f] # "run"
      BY <3>1, <3>3 DEF Counted
    <3> QED
      BY <3>2, <3>3
  <2>2. NameAt(s) \in Mailboxes => mailboxCursors'[NameAt(s)] - mailboxCursors[NameAt(s)] =
          Cardinality(TakesBefore(f, NameAt(s), at[f] + 1)) - Cardinality(TakesBefore(f, NameAt(s), at[f]))
    <3>1. at[f] \in TakesOf(f, NameAt(s)) <=> Kind(f) = "take" /\ Name(f) = NameAt(s)
      BY <1>2 DEF TakesOf
    <3>2. /\ Cardinality(TakesBefore(f, NameAt(s), at[f])) \in Nat
          /\ at[f] \in TakesOf(f, NameAt(s)) =>
               Cardinality(TakesBefore(f, NameAt(s), at[f] + 1)) = Cardinality(TakesBefore(f, NameAt(s), at[f])) + 1
          /\ at[f] \notin TakesOf(f, NameAt(s)) =>
               TakesBefore(f, NameAt(s), at[f] + 1) = TakesBefore(f, NameAt(s), at[f])
      BY <1>1, PositionsBefore DEF TakesBefore
    <3> QED
      BY <1>1, <1>3, <3>1, <3>2
  <2>3. Cardinality(TakesBefore(f, NameAt(s), at[f] + 1)) \in Nat /\ Cardinality(TakesBefore(f, NameAt(s), at[f])) \in Nat
    <3>1. at[f] + 1 \in Nat \ {0}
      BY <1>1
    <3> QED
      BY <1>1, <3>1, PositionsBefore DEF TakesBefore
  <2>4. phase \in {"pass", "suspending"} /\ NameAt(s) \in Mailboxes =>
          mailboxCursors'[NameAt(s)] = Cardinality(TakesBefore(f, NameAt(s), at[f] + 1))
    <3>1. NameAt(s) \in Mailboxes => mailboxCursors[NameAt(s)] \in Nat /\ mailboxCursors'[NameAt(s)] \in Nat
      BY <1>1
    <3> QED
      BY <1>4, <2>2, <2>3, <3>1 DEF CursorsAgree
  <2> QED
    BY <1>1, <1>4, <2>1, <2>4, CursorsNext DEF CursorsAgree
<1>5. CASE s[1] # f
  <2>1. Name(f) # NameAt(s)
    BY <1>3, <1>5
  <2>2. NameAt(s) \in Mailboxes => mailboxCursors'[NameAt(s)] = mailboxCursors[NameAt(s)]
    BY <1>1, <2>1
  <2>3. Counted(s[1])' = Counted(s[1]) /\ at'[s[1]] = at[s[1]]
    BY <1>1, <1>5 DEF Counted
  <2> QED
    BY <2>2, <2>3, CursorsNext DEF CursorsAgree
<1> QED
  BY <1>4, <1>5

\* A step that calls nothing.
LEMMA CursorsStay ==
  ASSUME NEW s, CursorsAgree(s), body' = body, seqs' = seqs, mailboxCursors' = mailboxCursors,
         phase' \in {"pass", "suspending"} => phase \in {"pass", "suspending"},
         at'[s[1]] = at[s[1]], Counted(s[1])' = Counted(s[1])
  PROVE  CursorsAgree(s)'
BY CursorsNext DEF CursorsAgree

-----------------------------------------------------------------------------
(* What a step must leave alone for a site to replay.                      *)

\* The tables and what the site returned first.
LEMMA MemoStays ==
  ASSUME NEW s, Memo(s), body' = body, first'[s] = first[s], issued'[s] = issued[s],
         KindAt(s) = "call" =>
           /\ KeyOf(s) \in DOMAIN results' <=> KeyOf(s) \in DOMAIN results
           /\ KeyOf(s) \in DOMAIN results => results'[KeyOf(s)] = results[KeyOf(s)],
         KindAt(s) = "outbound" =>
           /\ KeyOf(s) \in DOMAIN outboundCalls' <=> KeyOf(s) \in DOMAIN outboundCalls
           /\ KeyOf(s) \in DOMAIN outboundCalls =>
                outboundCalls'[KeyOf(s)].command = outboundCalls[KeyOf(s)].command
  PROVE  Memo(s)'
BY SameSites DEF Memo

\* A fiber that waits on.
LEMMA WaitsStay ==
  ASSUME NEW s, WaitsAtKey(s), body' = body,
         at'[s[1]] = at[s[1]], waits'[s[1]] = waits[s[1]], slot'[s[1]] = slot[s[1]],
         waits[s[1]] = "command" /\ KeyOf(s) \notin DOMAIN results => KeyOf(s) \notin DOMAIN results'
  PROVE  WaitsAtKey(s)'
BY SameSites DEF WaitsAtKey

\* A fiber that waits for no command.
LEMMA WaitsForNothing ==
  ASSUME NEW s, waits'[s[1]] \notin {"command", "outbound"}
  PROVE  WaitsAtKey(s)'
BY DEF WaitsAtKey

\* Site by site.
LEMMA ReplaysAll ==
  ASSUME body' = body, \A s \in Sites : Stable(s) => Replays(s)'
  PROVE  ReplayInv'
BY SameBody, SameSites DEF ReplayInv

-----------------------------------------------------------------------------
(* The steps keep what replays.                                            *)

\* The result that a site returns is the one it returned first, if the memo
\* says so.
LEMMA ReturnsFirst ==
  ASSUME WellFormed, NEW f \in Fibers, Site(f) \in Sites, NEW v, v # Nothing, Return(f, v),
         first[Site(f)] # Nothing => first[Site(f)] = v
  PROVE  /\ returned'[Site(f)] = v /\ first'[Site(f)] = v
         /\ \A s \in Sites : s # Site(f) => returned'[s] = returned[s] /\ first'[s] = first[s]
<1>1. returned \in [Sites -> Results] /\ first \in [Sites -> Results]
  BY DEF WellFormed, TypeOK, TypeControl
<1> QED
  BY <1>1 DEF Return

\* A command is a result.
LEMMA CommandsReturn == \A c \in Commands : c # Nothing
<1> SUFFICES ASSUME NEW c \in Fibers \X Nat \X Nat PROVE c # <<>>
  BY DEF Commands, Nothing
<1>1. c = <<c[1], c[2], c[3]>>
  OBVIOUS
<1>2. <<c[1], c[2], c[3]>> # <<>>
  OBVIOUS
<1> QED
  BY <1>1, <1>2

\* A call returns at once: what its site is due, if only its fiber uses the name.
LEMMA ReturnsReplay ==
  ASSUME WellFormed, ReplayInv, NEW f, NEW kind, Makes(f, kind), NEW v, v # Nothing, Return(f, v),
         UNCHANGED <<results, outboundCalls, body, waits, slot, issued>>,
         \A s \in Sites : Stable(s) => CursorsAgree(s)',
         Stable(Site(f)) =>
           /\ kind \in {"call", "await", "take"}
           /\ kind = "await" => v = Done
           /\ kind = "take" => v = MessageOf(Site(f))
           /\ kind = "call" => KeyOf(Site(f)) \in DOMAIN results /\ v = results[KeyOf(Site(f))]
  PROVE  ReplayInv'
<1>1. /\ f \in Fibers /\ Site(f) \in Sites /\ waits[f] = "run" /\ Kind(f) = kind
      /\ body \in Bodies /\ at \in [Fibers -> Nat \ {0}]
  BY MakesACall DEF WellFormed, TypeOK, TypeControl
<1>2. KindAt(Site(f)) = kind /\ Site(f)[1] = f
  BY <1>1 DEF KindAt, Kind, Site, CallOf
<1>3. \A g \in Fibers : g # f => at'[g] = at[g]
  BY <1>1 DEF Return
<1>4. ASSUME NEW s \in Sites, Stable(s) PROVE WaitsAtKey(s)'
  <2>1. s[1] \in Fibers
    BY <1>1, SitesAre
  <2>2. CASE s[1] = f
    BY <1>1, <2>2, WaitsForNothing
  <2>3. CASE s[1] # f
    BY <1>3, <1>4, <2>1, <2>3, WaitsStay DEF ReplayInv, Replays
  <2> QED
    BY <2>2, <2>3
<1>5. ASSUME NEW s \in Sites, Stable(s), s # Site(f) PROVE Replays(s)'
  <2>1. returned'[s] = returned[s] /\ first'[s] = first[s]
    BY <1>1, <1>5 DEF Return, WellFormed, TypeOK, TypeControl
  <2>2. Memo(s) /\ (returned[s] # Nothing => returned[s] = first[s])
    BY <1>5 DEF ReplayInv, Replays
  <2>3. Memo(s)'
    BY <2>1, <2>2, MemoStays
  <2> QED
    BY <1>4, <1>5, <2>1, <2>2, <2>3 DEF Replays, Nothing
<1>6. ASSUME NEW s \in Sites, Stable(s), s = Site(f) PROVE Replays(s)'
  <2>1. Replays(s) /\ Stable(s)
    BY <1>6 DEF ReplayInv
  <2>2. first[s] # Nothing => first[s] = v
    BY <1>2, <1>6, <2>1 DEF Replays, Memo
  <2>3. returned'[s] = v /\ first'[s] = v
    BY <1>1, <1>6, <2>2, ReturnsFirst
  <2>4. Memo(s)'
    BY <1>2, <1>6, <2>1, <2>3, SameSites DEF Replays, Memo
  <2> QED
    BY <1>4, <1>6, <2>1, <2>3, <2>4 DEF Replays
<1> QED
  BY <1>5, <1>6, ReplaysAll

\* The step CallMemoized keeps memos and cursors in agreement.
LEMMA CallMemoizedReplay ==
  ASSUME WellFormed, ReplayInv, NEW f \in Fibers, CallMemoized(f)
  PROVE  ReplayInv'
<1> DEFINE v == results[MemoKey(f)]
<1>1. /\ Makes(f, "call") /\ Return(f, v) /\ CountCall(f) /\ body' = body
      /\ mailboxCursors' = mailboxCursors /\ phase' = phase /\ waits' = waits
      /\ MemoKey(f) \in DOMAIN results
  BY DEF CallMemoized, control
<1>2. v # Nothing
  BY <1>1, CommandsReturn DEF WellFormed, TypeOK, TypeStores
<1>3. ASSUME NEW s \in Sites, Stable(s) PROVE CursorsAgree(s)'
  <2>1. /\ waits[f] = "run" /\ at \in [Fibers -> Nat \ {0}]
    BY <1>1, MakesACall DEF WellFormed, TypeOK, TypeControl
  <2>2. /\ \A g \in Fibers : g # f => at'[g] = at[g]
        /\ at'[f] = at[f] + 1 /\ Counted(f)' = at[f] + 1
    BY <1>1, <2>1 DEF Return, Counted
  <2> QED
    BY <1>1, <1>3, <2>2, CallAdvances DEF ReplayInv, Replays
<1>4. Stable(Site(f)) => MemoKey(f) = KeyOf(Site(f))
  BY <1>1, MakesACall, MakesAtKey DEF ReplayInv, WellFormed
<1> QED
  BY <1>1, <1>2, <1>3, <1>4, ReturnsReplay DEF CallMemoized, stores

\* The step AwaitCompleted keeps memos and cursors in agreement.
LEMMA AwaitCompletedReplay ==
  ASSUME WellFormed, ReplayInv, NEW f \in Fibers, AwaitCompleted(f)
  PROVE  ReplayInv'
<1>1. /\ Makes(f, "await") /\ Return(f, Done) /\ body' = body
      /\ mailboxCursors' = mailboxCursors /\ phase' = phase /\ waits' = waits /\ seqs' = seqs
  BY DEF AwaitCompleted, control, cursors
<1>2. waits[f] = "run" /\ Kind(f) = "await" /\ at[f] \in DOMAIN body[f] /\ waits \in [Fibers -> States]
  BY <1>1, MakesACall DEF WellFormed, TypeOK, TypeControl
<1>3. waits' = [waits EXCEPT ![f] = "run"] /\ at' = [at EXCEPT ![f] = @ + 1]
  BY <1>1, <1>2 DEF Return
<1>4. ASSUME NEW s \in Sites, Stable(s) PROVE CursorsAgree(s)'
  BY <1>1, <1>2, <1>3, <1>4, FiberGoesOn DEF ReplayInv, Replays
<1>5. Done # Nothing
  BY DEF Done, Nothing
<1> QED
  BY <1>1, <1>4, <1>5, ReturnsReplay DEF AwaitCompleted, stores

\* The step NextMessage keeps memos and cursors in agreement.
LEMMA NextMessageReplay ==
  ASSUME WellFormed, ReplayInv, NEW f \in Fibers, NEW kind \in {"take", "poll"}, Makes(f, kind), NextMessage(f)
  PROVE  ReplayInv'
<1> DEFINE v == Message(mailboxCursors[Name(f)] + 1)
<1>1. /\ Return(f, v) /\ body' = body /\ mailboxCursors' = [mailboxCursors EXCEPT ![Name(f)] = @ + 1]
      /\ phase' = phase /\ waits' = waits /\ seqs' = seqs
  BY DEF NextMessage, control
<1>2. /\ waits[f] = "run" /\ Kind(f) = kind /\ at[f] \in DOMAIN body[f] /\ waits \in [Fibers -> States]
      /\ phase \in {"pass", "suspending"} /\ Site(f) \in Sites
  BY MakesACall DEF WellFormed, TypeOK, TypeControl
<1>3. waits' = [waits EXCEPT ![f] = "run"] /\ at' = [at EXCEPT ![f] = @ + 1]
  BY <1>1, <1>2 DEF Return
<1>4. ASSUME NEW s \in Sites, Stable(s) PROVE CursorsAgree(s)'
  BY <1>1, <1>2, <1>3, <1>4, FiberGoesOn DEF ReplayInv, Replays
<1>5. v # Nothing
  BY Messages
<1>6. ASSUME Stable(Site(f)) PROVE kind = "take" /\ v = MessageOf(Site(f))
  <2>1. KindAt(Site(f)) = kind /\ NameAt(Site(f)) = Name(f) /\ Site(f)[1] = f /\ Site(f)[2] = at[f]
    BY <1>2 DEF KindAt, NameAt, Kind, Name, CallOf, Site
  <2>2. kind # "poll"
    BY <1>2, <1>6, <2>1, StableNames
  <2>3. Name(f) \in Mailboxes
    BY <1>2, CallsOfBody DEF Kind, Name, CallOf, WellFormed, TypeOK, TypeControl
  <2>4. CursorsAgree(Site(f))
    BY <1>2, <1>6 DEF ReplayInv, Replays
  <2>5. mailboxCursors[Name(f)] = Cardinality(TakesBefore(f, Name(f), at[f]))
    BY <1>2, <2>1, <2>3, <2>4 DEF CursorsAgree
  <2> QED
    BY <2>1, <2>2, <2>5 DEF MessageOf
<1> QED
  BY <1>1, <1>4, <1>5, <1>6, ReturnsReplay DEF NextMessage, stores

\* The step Poll keeps memos and cursors in agreement.
LEMMA PollReplay ==
  ASSUME WellFormed, ReplayInv, NEW f \in Fibers, Poll(f)
  PROVE  ReplayInv'
<1>1. CASE NextMessage(f)
  BY <1>1, NextMessageReplay DEF Poll
<1>2. CASE Return(f, NoMessage) /\ UNCHANGED <<stores, control, cursors, ready, waits, slot, issued>>
  <2>1. Makes(f, "poll") /\ body' = body /\ mailboxCursors' = mailboxCursors /\ phase' = phase /\ seqs' = seqs
    BY <1>2 DEF Poll, control, cursors
  <2>2. /\ waits[f] = "run" /\ Kind(f) = "poll" /\ at[f] \in DOMAIN body[f] /\ waits \in [Fibers -> States]
        /\ Site(f) \in Sites
    BY <2>1, MakesACall DEF WellFormed, TypeOK, TypeControl
  <2>3. waits' = [waits EXCEPT ![f] = "run"] /\ at' = [at EXCEPT ![f] = @ + 1]
    BY <1>2, <2>2 DEF Return
  <2>4. ASSUME NEW s \in Sites, Stable(s) PROVE CursorsAgree(s)'
    BY <2>1, <2>2, <2>3, <2>4, FiberGoesOn DEF ReplayInv, Replays
  <2>5. ~Stable(Site(f))
    <3>1. KindAt(Site(f)) = "poll"
      BY <2>2 DEF KindAt, Kind, CallOf, Site
    <3> QED
      BY <2>2, <3>1, StableNames
  <2>6. NoMessage # Nothing
    BY Messages DEF NoMessage
  <2> QED
    BY <1>2, <2>1, <2>4, <2>5, <2>6, ReturnsReplay DEF stores, control
<1> QED
  BY <1>1, <1>2 DEF Poll

\* A call of a fiber that is at another site leaves this one alone.
LEMMA OtherSite ==
  ASSUME WellFormed, NEW f \in Fibers, Site(f) \in Sites, NEW s \in Sites, Stable(s), s # Site(f)
  PROVE  /\ s[1] \in Fibers
         /\ s[1] = f => at[f] # s[2]
         /\ Name(f) = NameAt(s) => s[1] = f /\ Stable(Site(f))
<1>1. s = <<s[1], s[2]>> /\ s[1] \in Fibers
  BY SitesAre DEF WellFormed, TypeOK, TypeControl
<1>2. NameAt(Site(f)) = Name(f) /\ Site(f)[1] = f
  BY DEF NameAt, Name, CallOf, Site
<1> QED
  BY <1>1, <1>2, StableNames DEF Site

\* The step CallScheduled keeps memos and cursors in agreement.
LEMMA CallScheduledReplay ==
  ASSUME WellFormed, ReplayInv, NEW f \in Fibers, CallScheduled(f)
  PROVE  ReplayInv'
<1>1. /\ Makes(f, "call") /\ CountCall(f) /\ body' = body /\ phase' = phase /\ at' = at
      /\ mailboxCursors' = mailboxCursors /\ waits' = [waits EXCEPT ![f] = "command"]
      /\ slot' = [slot EXCEPT ![f] = MemoKey(f)] /\ returned' = returned /\ first' = first
      /\ results' = results /\ outboundCalls' = outboundCalls
      /\ issued' = [issued EXCEPT ![Site(f)] = @ + 1]
      /\ MemoKey(f) \notin DOMAIN results
  BY DEF CallScheduled, Block, Issue, control, stores
<1>2. /\ waits[f] = "run" /\ Kind(f) = "call" /\ waits \in [Fibers -> States] /\ DOMAIN slot = Fibers
      /\ issued \in [Sites -> Nat] /\ Site(f) \in Sites /\ at \in [Fibers -> Nat \ {0}]
  BY <1>1, MakesACall DEF WellFormed, TypeOK, TypeControl
<1>3. ASSUME NEW s \in Sites, Stable(s) PROVE CursorsAgree(s)'
  <2>1. Counted(f)' = at[f] + 1
    BY <1>1, <1>2 DEF Counted
  <2> QED
    BY <1>1, <1>2, <1>3, <2>1, CallAdvances DEF ReplayInv, Replays
<1>4. ASSUME NEW s \in Sites, Stable(s), s # Site(f) PROVE Replays(s)'
  <2>1. Replays(s)
    BY <1>4 DEF ReplayInv
  <2>2. s[1] \in Fibers /\ (s[1] = f => at[f] # s[2])
    BY <1>2, <1>4, OtherSite
  <2>3. Memo(s)'
    BY <1>1, <1>2, <1>4, <2>1, MemoStays DEF Replays
  <2>4. WaitsAtKey(s)'
    <3>1. CASE s[1] = f
      BY <1>1, <2>2, <3>1 DEF WaitsAtKey
    <3>2. CASE s[1] # f
      BY <1>1, <1>2, <2>1, <2>2, <3>2, WaitsStay DEF Replays
    <3> QED
      BY <3>1, <3>2
  <2> QED
    BY <1>1, <1>3, <1>4, <2>1, <2>3, <2>4 DEF Replays, Nothing
<1>5. ASSUME NEW s \in Sites, Stable(s), s = Site(f) PROVE Replays(s)'
  <2>1. Replays(s)
    BY <1>5 DEF ReplayInv
  <2>2. MemoKey(f) = KeyOf(s)
    BY <1>1, <1>5, <2>1, MakesAtKey
  <2>3. /\ KindAt(s) = "call" /\ s[1] = f /\ s[2] = at[f]
        /\ waits'[f] = "command" /\ slot'[f] = KeyOf(s) /\ KeyOf(s) \notin DOMAIN results
    BY <1>1, <1>2, <1>5, <2>2 DEF KindAt, Kind, CallOf, Site
  <2>4. Memo(s)'
    BY <1>1, <2>1, <2>3, SameSites DEF Replays, Memo
  <2>5. WaitsAtKey(s)'
    BY <1>1, <2>3, SameSites DEF WaitsAtKey
  <2> QED
    BY <1>1, <1>3, <1>5, <2>1, <2>4, <2>5 DEF Replays, Nothing
<1> QED
  BY <1>1, <1>4, <1>5, ReplaysAll

\* The exit of a command is memoized at the key of its site.
LEMMA CallResolvesReplay ==
  ASSUME WellFormed, ReplayInv, NEW f \in Fibers, CallResolves(f)
  PROVE  ReplayInv'
<1> DEFINE v == <<f, at[f], issued[Site(f)]>>
<1>1. /\ waits[f] = "command" /\ at[f] \in DOMAIN body[f] /\ Kind(f) = "call" /\ slot[f][1] = Name(f)
      /\ body' = body /\ issued' = issued /\ outboundCalls' = outboundCalls
      /\ UNCHANGED cursors /\ phase \in {"pass", "suspending"} /\ issued[Site(f)] >= 1
  BY DEF CallResolves, WellFormed, Waiting
<1>2. /\ waits \in [Fibers -> States] /\ DOMAIN slot = Fibers /\ body \in Bodies
      /\ issued \in [Sites -> Nat] /\ Site(f) \in Sites /\ at \in [Fibers -> Nat \ {0}]
  BY <1>1, SitesAre DEF WellFormed, TypeOK, TypeControl, Site
<1>3. CASE /\ results' = Put(results, slot[f], v) /\ Return(f, v)
           /\ waits' = [waits EXCEPT ![f] = "run"] /\ slot' = [slot EXCEPT ![f] = Nothing]
           /\ UNCHANGED phase
  <2>1. ASSUME NEW s \in Sites, Stable(s) PROVE CursorsAgree(s)'
    <3>1. at' = [at EXCEPT ![f] = @ + 1] /\ seqs' = seqs /\ mailboxCursors' = mailboxCursors
      BY <1>1, <1>3 DEF Return, cursors
    <3> QED
      BY <1>1, <1>3, <2>1, <3>1, FiberGoesOn DEF ReplayInv, Replays
  <2>2. v # Nothing
    BY DEF Nothing
  <2>3. /\ slot[f] \in DOMAIN results' /\ results'[slot[f]] = v
        /\ \A k : k # slot[f] => /\ k \in DOMAIN results' <=> k \in DOMAIN results
                                 /\ k \in DOMAIN results => results'[k] = results[k]
    <3> HIDE DEF v
    <3> QED
      BY <1>3 DEF Put
  <2>4. ASSUME NEW s \in Sites, Stable(s), s # Site(f) PROVE Replays(s)'
    <3>1. Replays(s)
      BY <2>4 DEF ReplayInv
    <3>2. /\ s[1] \in Fibers /\ (s[1] = f => at[f] # s[2])
          /\ Name(f) = NameAt(s) => s[1] = f /\ Stable(Site(f))
      BY <1>2, <2>4, OtherSite
    <3>3. KindAt(s) = "call" => KeyOf(s) # slot[f]
      <4>1. SUFFICES ASSUME KindAt(s) = "call", KeyOf(s) = slot[f] PROVE FALSE
        OBVIOUS
      <4>2. NameAt(s) = Name(f)
        BY <1>1, <4>1 DEF KeyOf
      <4>3. KindAt(Site(f)) = "call" /\ Site(f)[1] = f /\ Site(f)[2] = at[f]
        BY <1>1 DEF KindAt, Kind, CallOf, Site
      <4>4. KeyOf(Site(f)) = slot[f]
        BY <1>1, <1>2, <3>2, <4>2, <4>3 DEF ReplayInv, Replays, WaitsAtKey
      <4>5. s = Site(f)
        BY <1>2, <2>4, <4>1, <4>3, <4>4, KeysApart
      <4> QED
        BY <2>4, <4>5
    <3>4. returned'[s] = returned[s] /\ first'[s] = first[s]
      BY <1>3, <2>4 DEF Return, WellFormed, TypeOK, TypeControl
    <3>5. Memo(s)'
      BY <1>1, <2>3, <3>1, <3>3, <3>4, MemoStays DEF Replays
    <3>6. WaitsAtKey(s)'
      <4>1. CASE s[1] = f
        BY <1>2, <1>3, <4>1, WaitsForNothing
      <4>2. CASE s[1] # f
        <5>1. KeyOf(s) # slot[f]
          BY <1>1, <3>2, <4>2 DEF KeyOf
        <5>2. at'[s[1]] = at[s[1]] /\ waits'[s[1]] = waits[s[1]] /\ slot'[s[1]] = slot[s[1]]
          BY <1>2, <1>3, <3>2, <4>2 DEF Return
        <5> QED
          BY <1>1, <2>3, <3>1, <5>1, <5>2, WaitsStay DEF Replays
      <4> QED
        BY <4>1, <4>2
    <3> QED
      BY <2>1, <2>4, <3>1, <3>4, <3>5, <3>6 DEF Replays, Nothing
  <2>5. ASSUME NEW s \in Sites, Stable(s), s = Site(f) PROVE Replays(s)'
    <3>1. Replays(s)
      BY <2>5 DEF ReplayInv
    <3>2. KindAt(s) = "call" /\ s[1] = f /\ s[2] = at[f]
      BY <1>1, <2>5 DEF KindAt, Kind, CallOf, Site
    <3>3. slot[f] = KeyOf(s) /\ KeyOf(s) \notin DOMAIN results
      BY <1>1, <3>1, <3>2 DEF Replays, WaitsAtKey
    <3>4. first[s] = Nothing
      BY <3>1, <3>2, <3>3 DEF Replays, Memo
    <3>5. returned'[s] = v /\ first'[s] = v
      BY <1>2, <1>3, <2>2, <2>5, <3>4, ReturnsFirst
    <3>6. \E n \in 1 .. issued[s] : results'[KeyOf(s)] = <<s[1], s[2], n>>
      BY <1>1, <1>2, <2>3, <2>5, <3>2, <3>3
    <3>7. Memo(s)'
      BY <1>1, <2>3, <3>2, <3>3, <3>5, <3>6, SameSites DEF Memo
    <3>8. WaitsAtKey(s)'
      BY <1>2, <1>3, <3>2, WaitsForNothing
    <3> QED
      BY <2>1, <2>5, <3>5, <3>7, <3>8 DEF Replays
  <2> QED
    BY <1>1, <2>4, <2>5, ReplaysAll
<1>4. CASE phase' = "failed" /\ UNCHANGED <<results, fibers, first, returned>>
  <2> SUFFICES ASSUME NEW s \in Sites, Stable(s) PROVE Replays(s)'
    BY <1>1, ReplaysAll
  <2>1. Replays(s) /\ UNCHANGED <<at, waits, slot, seqs, mailboxCursors>>
    BY <1>1, <1>4 DEF ReplayInv, fibers, cursors
  <2>2. CursorsAgree(s)'
    BY <1>4 DEF CursorsAgree
  <2>3. Memo(s)' /\ WaitsAtKey(s)'
    BY <1>1, <1>4, <2>1, MemoStays, WaitsStay DEF Replays
  <2> QED
    BY <1>4, <2>1, <2>2, <2>3 DEF Replays, Nothing
<1> QED
  BY <1>3, <1>4 DEF CallResolves

\* An outbound command is shared by the passes that reach its position, if the
\* run was started with the cache of outbound commands.
LEMMA CallOutboundReplay ==
  ASSUME OutboundCachePatched, WellFormed, ReplayInv, NEW f \in Fibers, CallOutbound(f)
  PROVE  ReplayInv'
<1> DEFINE k == MemoKey(f)
           p == [command |-> Command(f), state |-> "pending"]
<1>1. /\ Makes(f, "outbound") /\ CountCall(f) /\ body' = body /\ phase' = phase /\ at' = at
      /\ mailboxCursors' = mailboxCursors /\ waits' = [waits EXCEPT ![f] = "outbound"]
      /\ slot' = [slot EXCEPT ![f] = k] /\ returned' = returned /\ first' = first
      /\ results' = results
  BY DEF CallOutbound, control
<1>2. /\ waits[f] = "run" /\ Kind(f) = "outbound" /\ waits \in [Fibers -> States] /\ DOMAIN slot = Fibers
      /\ issued \in [Sites -> Nat] /\ Site(f) \in Sites /\ at \in [Fibers -> Nat \ {0}]
      /\ body \in Bodies /\ at[f] \in DOMAIN body[f]
  BY <1>1, MakesACall DEF WellFormed, TypeOK, TypeControl
<1>3. k[1] = Name(f)
  BY <1>2, MemoKeyIsKey DEF WellFormed
<1>4. \/ k \in DOMAIN outboundCalls /\ outboundCalls' = outboundCalls /\ issued' = issued
      \/ /\ k \notin DOMAIN outboundCalls
         /\ outboundCalls' = Put(outboundCalls, k, p)
         /\ issued' = [issued EXCEPT ![Site(f)] = @ + 1]
  BY DEF CallOutbound, IsMemoized, Issue
<1>5. ASSUME NEW s \in Sites, Stable(s) PROVE CursorsAgree(s)'
  <2>1. Counted(f)' = at[f] + 1
    BY <1>1, <1>2 DEF Counted
  <2> QED
    BY <1>1, <1>2, <1>5, <2>1, CallAdvances DEF ReplayInv, Replays
<1>6. ASSUME NEW s \in Sites, Stable(s), s # Site(f) PROVE Replays(s)'
  <2>1. Replays(s)
    BY <1>6 DEF ReplayInv
  <2>2. /\ s[1] \in Fibers /\ (s[1] = f => at[f] # s[2])
        /\ Name(f) = NameAt(s) => s[1] = f /\ Stable(Site(f))
    BY <1>2, <1>6, OtherSite
  <2>3. KindAt(s) = "outbound" => KeyOf(s) # k
    <3>1. SUFFICES ASSUME KindAt(s) = "outbound", KeyOf(s) = k PROVE FALSE
      OBVIOUS
    <3>2. NameAt(s) = Name(f)
      BY <1>3, <3>1 DEF KeyOf
    <3>3. KindAt(Site(f)) = "outbound"
      BY <1>2 DEF KindAt, Kind, CallOf, Site
    <3>4. KeyOf(Site(f)) = k
      BY <1>1, <1>2, <2>2, <3>2, MakesAtKey DEF ReplayInv
    <3>5. s = Site(f)
      BY <1>2, <1>6, <3>1, <3>3, <3>4, KeysApart
    <3> QED
      BY <1>6, <3>5
  <2>4. issued'[s] = issued[s]
    BY <1>2, <1>4, <1>6
  <2>5. KindAt(s) = "outbound" =>
          /\ KeyOf(s) \in DOMAIN outboundCalls' <=> KeyOf(s) \in DOMAIN outboundCalls
          /\ KeyOf(s) \in DOMAIN outboundCalls => outboundCalls'[KeyOf(s)] = outboundCalls[KeyOf(s)]
    <3> HIDE DEF k, p
    <3> QED
      BY <1>4, <2>3 DEF Put
  <2>6. Memo(s)'
    BY <1>1, <2>1, <2>4, <2>5, MemoStays DEF Replays
  <2>7. WaitsAtKey(s)'
    <3>1. CASE s[1] = f
      BY <1>1, <2>2, <3>1 DEF WaitsAtKey
    <3>2. CASE s[1] # f
      BY <1>1, <1>2, <2>1, <2>2, <3>2, WaitsStay DEF Replays
    <3> QED
      BY <3>1, <3>2
  <2> QED
    BY <1>1, <1>5, <1>6, <2>1, <2>6, <2>7 DEF Replays, Nothing
<1>7. ASSUME NEW s \in Sites, Stable(s), s = Site(f) PROVE Replays(s)'
  <2>1. Replays(s)
    BY <1>7 DEF ReplayInv
  <2>2. k = KeyOf(s)
    BY <1>1, <1>7, <2>1, MakesAtKey
  <2>3. /\ KindAt(s) = "outbound" /\ s[1] = f /\ s[2] = at[f]
        /\ waits'[f] = "outbound" /\ slot'[f] = KeyOf(s)
    BY <1>1, <1>2, <1>7, <2>2 DEF KindAt, Kind, CallOf, Site
  <2>4. WaitsAtKey(s)'
    BY <1>1, <2>3, SameSites DEF WaitsAtKey
  <2>5. Memo(s)'
    <3>1. CASE outboundCalls' = outboundCalls /\ issued' = issued
      BY <1>1, <2>1, <2>3, <3>1, MemoStays DEF Replays
    <3>2. CASE /\ k \notin DOMAIN outboundCalls
               /\ outboundCalls' = Put(outboundCalls, k, p)
               /\ issued' = [issued EXCEPT ![Site(f)] = @ + 1]
      <4>1. first[s] = Nothing
        BY <2>1, <2>2, <2>3, <3>2 DEF Replays, Memo
      <4>2. KeyOf(s) \in DOMAIN outboundCalls' /\ outboundCalls'[KeyOf(s)] = p
        BY <2>2, <3>2 DEF Put
      <4>3. issued'[s] = issued[s] + 1 /\ issued[s] \in Nat
        BY <1>2, <1>7, <3>2
      <4>4. p.command = <<s[1], s[2], issued[s] + 1>>
        BY <1>7, <2>3 DEF Command
      <4>5. \E n \in 1 .. issued'[s] : outboundCalls'[KeyOf(s)].command = <<s[1], s[2], n>>
        BY <4>2, <4>3, <4>4
      <4> QED
        BY <1>1, <2>3, <4>1, <4>2, <4>5, SameSites DEF Memo
    <3> QED
      BY <1>4, <3>1, <3>2
  <2> QED
    BY <1>1, <1>5, <1>7, <2>1, <2>4, <2>5 DEF Replays, Nothing
<1> QED
  BY <1>1, <1>6, <1>7, ReplaysAll

\* The step OutboundReturns keeps memos and cursors in agreement.
LEMMA OutboundReturnsReplay ==
  ASSUME WellFormed, ReplayInv, NEW f \in Fibers, OutboundReturns(f)
  PROVE  ReplayInv'
<1> DEFINE v == outboundCalls[slot[f]].command
<1>1. /\ waits[f] = "outbound" /\ at[f] \in DOMAIN body[f] /\ Kind(f) = "outbound"
      /\ body' = body /\ issued' = issued /\ results' = results /\ outboundCalls' = outboundCalls
      /\ UNCHANGED cursors
  BY DEF OutboundReturns, stores, WellFormed, Waiting
<1>2. /\ waits \in [Fibers -> States] /\ DOMAIN slot = Fibers /\ body \in Bodies
      /\ Site(f) \in Sites /\ at \in [Fibers -> Nat \ {0}] /\ slot[f] \in DOMAIN outboundCalls
  BY <1>1, SitesAre DEF WellFormed, TypeOK, TypeControl, Site
<1>3. CASE outboundCalls[slot[f]].state = "done"
  <2>1. /\ Return(f, v) /\ phase' = phase
        /\ waits' = [waits EXCEPT ![f] = "run"] /\ slot' = [slot EXCEPT ![f] = Nothing]
    BY <1>3 DEF OutboundReturns
  <2>2. ASSUME NEW s \in Sites, Stable(s) PROVE CursorsAgree(s)'
    <3>1. at' = [at EXCEPT ![f] = @ + 1] /\ seqs' = seqs /\ mailboxCursors' = mailboxCursors
      BY <1>1, <2>1 DEF Return, cursors
    <3> QED
      BY <1>1, <2>1, <2>2, <3>1, FiberGoesOn DEF ReplayInv, Replays
  <2>3. v # Nothing
    BY <1>2, CommandsReturn DEF WellFormed, TypeOK, TypeStores
  <2>4. ASSUME NEW s \in Sites, Stable(s), s # Site(f) PROVE Replays(s)'
    <3>1. Replays(s)
      BY <2>4 DEF ReplayInv
    <3>2. s[1] \in Fibers
      BY <1>2, SitesAre
    <3>3. returned'[s] = returned[s] /\ first'[s] = first[s]
      BY <2>1, <2>4 DEF Return, WellFormed, TypeOK, TypeControl
    <3>4. Memo(s)'
      BY <1>1, <3>1, <3>3, MemoStays DEF Replays
    <3>5. WaitsAtKey(s)'
      <4>1. CASE s[1] = f
        BY <1>2, <2>1, <4>1, WaitsForNothing
      <4>2. CASE s[1] # f
        <5>1. at'[s[1]] = at[s[1]] /\ waits'[s[1]] = waits[s[1]] /\ slot'[s[1]] = slot[s[1]]
          BY <1>2, <2>1, <3>2, <4>2 DEF Return
        <5> QED
          BY <1>1, <3>1, <5>1, WaitsStay DEF Replays
      <4> QED
        BY <4>1, <4>2
    <3> QED
      BY <2>2, <2>4, <3>1, <3>3, <3>4, <3>5 DEF Replays, Nothing
  <2>5. ASSUME NEW s \in Sites, Stable(s), s = Site(f) PROVE Replays(s)'
    <3>1. Replays(s)
      BY <2>5 DEF ReplayInv
    <3>2. KindAt(s) = "outbound" /\ s[1] = f /\ s[2] = at[f]
      BY <1>1, <2>5 DEF KindAt, Kind, CallOf, Site
    <3>3. slot[f] = KeyOf(s)
      BY <1>1, <3>1, <3>2 DEF Replays, WaitsAtKey
    <3>4. first[s] # Nothing => first[s] = v
      BY <3>1, <3>2, <3>3 DEF Replays, Memo
    <3>5. returned'[s] = v /\ first'[s] = v
      BY <1>2, <2>1, <2>3, <2>5, <3>4, ReturnsFirst
    <3>6. Memo(s)'
      BY <1>1, <1>2, <3>1, <3>2, <3>3, <3>5, SameSites DEF Replays, Memo
    <3>7. WaitsAtKey(s)'
      BY <1>2, <2>1, <3>2, WaitsForNothing
    <3> QED
      BY <2>2, <2>5, <3>5, <3>6, <3>7 DEF Replays
  <2> QED
    BY <1>1, <2>4, <2>5, ReplaysAll
<1>4. CASE outboundCalls[slot[f]].state # "done"
  <2>1. phase' = "failed" /\ UNCHANGED <<fibers, first, returned>>
    BY <1>4 DEF OutboundReturns
  <2> SUFFICES ASSUME NEW s \in Sites, Stable(s) PROVE Replays(s)'
    BY <1>1, ReplaysAll
  <2>2. Replays(s) /\ UNCHANGED <<at, waits, slot>>
    BY <2>1 DEF ReplayInv, fibers
  <2>3. CursorsAgree(s)'
    BY <2>1 DEF CursorsAgree
  <2>4. Memo(s)' /\ WaitsAtKey(s)'
    BY <1>1, <2>1, <2>2, MemoStays, WaitsStay DEF Replays
  <2> QED
    BY <2>1, <2>2, <2>3, <2>4 DEF Replays, Nothing
<1> QED
  BY <1>3, <1>4

\* Steps that neither return, nor call, nor take: fibers that wait for
\* something else, and what comes from outside.
LEMMA QuietReplay ==
  ASSUME ReplayInv, UNCHANGED <<results, cursors, history, body, at>>,
         phase' \in {"pass", "suspending"} => phase \in {"pass", "suspending"},
         \A k : /\ k \in DOMAIN outboundCalls' <=> k \in DOMAIN outboundCalls
                /\ k \in DOMAIN outboundCalls => outboundCalls'[k].command = outboundCalls[k].command,
         \A g \in Fibers : \/ waits'[g] = waits[g] /\ slot'[g] = slot[g]
                           \/ waits[g] \notin {"command", "outbound"} /\ waits'[g] \notin {"command", "outbound"},
         body \in Bodies
  PROVE  ReplayInv'
<1> SUFFICES ASSUME NEW s \in Sites, Stable(s) PROVE Replays(s)'
  BY ReplaysAll
<1>1. Replays(s) /\ s[1] \in Fibers
  BY SitesAre DEF ReplayInv
<1>2. Counted(s[1])' = Counted(s[1])
  BY <1>1 DEF Counted
<1>3. CursorsAgree(s)'
  BY <1>1, <1>2, CursorsStay DEF Replays, cursors
<1>4. Memo(s)'
  BY <1>1, MemoStays DEF Replays, history
<1>5. WaitsAtKey(s)'
  BY <1>1, WaitsStay, WaitsForNothing DEF Replays
<1> QED
  BY <1>1, <1>3, <1>4, <1>5 DEF Replays, history, Nothing

\* The steps of a fiber that count no call.
LEMMA QuietFiberReplay ==
  ASSUME WellFormed, ReplayInv, NEW f \in Fibers,
         TakeBlocks(f) \/ TakeUnblocks(f) \/ AwaitSuspends(f) \/ FiberEnds(f)
  PROVE  ReplayInv'
<1>1. waits \in [Fibers -> States] /\ DOMAIN slot = Fibers /\ body \in Bodies
  BY DEF WellFormed, TypeOK, TypeControl
<1>2. UNCHANGED <<results, outboundCalls, cursors, history, body, at>>
  BY DEF TakeBlocks, TakeUnblocks, AwaitSuspends, FiberEnds, Block, stores, control, history, cursors
<1>3. phase' \in {"pass", "suspending"} => phase \in {"pass", "suspending"}
  BY DEF TakeBlocks, TakeUnblocks, AwaitSuspends, FiberEnds, Makes, control
<1>4. ASSUME NEW g \in Fibers
      PROVE  \/ waits'[g] = waits[g] /\ slot'[g] = slot[g]
             \/ waits[g] \notin {"command", "outbound"} /\ waits'[g] \notin {"command", "outbound"}
  <2>1. CASE TakeBlocks(f)
    BY <1>1, <2>1 DEF TakeBlocks, Block, Makes
  <2>2. CASE TakeUnblocks(f)
    BY <1>1, <2>2 DEF TakeUnblocks
  <2>3. CASE AwaitSuspends(f)
    BY <1>1, <2>3 DEF AwaitSuspends, Block, Makes
  <2>4. CASE FiberEnds(f)
    BY <2>4 DEF FiberEnds
  <2> QED
    BY <2>1, <2>2, <2>3, <2>4
<1> QED
  BY <1>1, <1>2, <1>3, <1>4, QuietReplay

\* The step OutboundResolves keeps memos and cursors in agreement.
LEMMA OutboundResolvesReplay ==
  ASSUME WellFormed, ReplayInv, NEW k, OutboundResolves(k)
  PROVE  ReplayInv'
<1>1. /\ UNCHANGED <<results, cursors, history, body, at, phase, waits, slot>> /\ body \in Bodies
      /\ \A l \in DOMAIN outboundCalls :
           outboundCalls[l] \in [command : Commands, state : {"pending", "done", "failed", "cancelled"}]
  BY DEF OutboundResolves, control, WellFormed, TypeOK, TypeStores, TypeControl
<1>2. PICK s \in {"done", "failed", "cancelled"} : outboundCalls' = [outboundCalls EXCEPT ![k].state = s]
  BY DEF OutboundResolves
<1>3. DOMAIN outboundCalls' = DOMAIN outboundCalls
  BY <1>2
<1>4. ASSUME NEW l \in DOMAIN outboundCalls PROVE outboundCalls'[l].command = outboundCalls[l].command
  <2>1. CASE l = k
    BY <1>1, <1>2, <2>1
  <2>2. CASE l # k
    BY <1>2, <2>2
  <2> QED
    BY <2>1, <2>2
<1> QED
  BY <1>1, <1>3, <1>4, QuietReplay

\* What comes from outside, and the end of the body.
LEMMA OutsideReplay ==
  ASSUME WellFormed, ReplayInv,
         \/ BodyEnds \/ ResumeSignal \/ (\E m \in Mailboxes : MessageArrives(m))
         \/ \E d \in Deferreds : CompleteDeferred(d)
  PROVE  ReplayInv'
<1>1. UNCHANGED <<results, outboundCalls, cursors, fibers, history, body>>
  BY DEF BodyEnds, ResumeSignal, MessageArrives, CompleteDeferred, stores, control
<1>2. phase' \in {"pass", "suspending"} => phase \in {"pass", "suspending"}
  BY DEF BodyEnds, ResumeSignal, MessageArrives, CompleteDeferred, control
<1> QED
  BY <1>1, <1>2, QuietReplay DEF fibers, WellFormed, TypeOK, TypeControl

\* The end of a pass interrupts what waits; the tables stay.
LEMMA EndPassReplay ==
  ASSUME WellFormed, ReplayInv, EndPass
  PROVE  ReplayInv'
<1>1. /\ UNCHANGED <<results, outboundCalls, history, body>> /\ phase' = "parked" /\ body \in Bodies
      /\ \A g \in Fibers : waits'[g] = "suspended"
  BY DEF EndPass, stores, WellFormed, TypeOK, TypeControl
<1> SUFFICES ASSUME NEW s \in Sites, Stable(s) PROVE Replays(s)'
  BY <1>1, ReplaysAll
<1>2. Replays(s) /\ s[1] \in Fibers
  BY <1>1, SitesAre DEF ReplayInv
<1>3. CursorsAgree(s)'
  BY <1>1 DEF CursorsAgree
<1>4. Memo(s)' /\ WaitsAtKey(s)'
  BY <1>1, <1>2, MemoStays, WaitsForNothing DEF Replays, history
<1> QED
  BY <1>1, <1>2, <1>3, <1>4 DEF Replays, history, Nothing

\* No call is before the first of a fiber.
LEMMA NoneBefore == \A f, n : Cardinality(CallsBefore(f, n, 1)) = 0 /\ Cardinality(TakesBefore(f, n, 1)) = 0
<1> SUFFICES ASSUME NEW f, NEW n
             PROVE  Cardinality(CallsBefore(f, n, 1)) = 0 /\ Cardinality(TakesBefore(f, n, 1)) = 0
  OBVIOUS
<1>1. CallsBefore(f, n, 1) = {} /\ TakesBefore(f, n, 1) = {}
  BY DEF CallsBefore, TakesBefore
<1> QED
  BY <1>1, FS_EmptySet

\* A pass starts with no call counted, no message taken, and the tables of the
\* passes before it.
LEMMA NextPassReplay ==
  ASSUME WellFormed, ReplayInv, NextPass
  PROVE  ReplayInv'
<1>1. /\ body' = body /\ phase' = "pass" /\ UNCHANGED <<results, outboundCalls, issued, first>>
      /\ mailboxCursors' = NoneTaken /\ seqs' = NoCalls /\ returned' = [s \in Sites |-> Nothing]
      /\ \A g \in Fibers : waits'[g] = "run" /\ at'[g] = 1
      /\ body \in Bodies
  BY DEF NextPass, ResetPass, StartFibers, stores, WellFormed, TypeOK, TypeControl
<1> SUFFICES ASSUME NEW s \in Sites, Stable(s) PROVE Replays(s)'
  BY <1>1, ReplaysAll
<1>2. Memo(s) /\ s[1] \in Fibers
  BY <1>1, SitesAre DEF ReplayInv, Replays
<1>3. CursorsAgree(s)'
  <2>1. Counted(s[1])' = 1 /\ at'[s[1]] = 1
    BY <1>1, <1>2 DEF Counted
  <2>2. /\ NameAt(s) \in Sequenced => seqs'[NameAt(s)] = 0
        /\ NameAt(s) \in Mailboxes => mailboxCursors'[NameAt(s)] = 0
    BY <1>1 DEF NoneTaken, NoCalls
  <2> QED
    BY <1>1, <2>1, <2>2, NoneBefore, CursorsNext
<1>4. Memo(s)' /\ WaitsAtKey(s)'
  BY <1>1, <1>2, MemoStays, WaitsForNothing
<1>5. returned'[s] = Nothing
  BY <1>1
<1> QED
  BY <1>3, <1>4, <1>5 DEF Replays, Nothing

\* Nothing is memoized at first.
LEMMA InitReplay == Init => ReplayInv
<1> SUFFICES ASSUME Init, NEW s \in Sites, Stable(s) PROVE Replays(s)
  BY DEF ReplayInv
<1>1. /\ s[1] \in Fibers /\ issued[s] = 0 /\ first[s] = Nothing /\ returned[s] = Nothing
      /\ waits[s[1]] = "run" /\ at[s[1]] = 1
      /\ DOMAIN results = {} /\ DOMAIN outboundCalls = {}
      /\ seqs = NoCalls /\ mailboxCursors = NoneTaken
  BY SitesAre DEF Init
<1>2. CursorsAgree(s)
  BY <1>1, NoneBefore DEF CursorsAgree, Counted, NoneTaken, NoCalls
<1>3. WaitsAtKey(s) /\ Memo(s)
  BY <1>1 DEF WaitsAtKey, Memo
<1> QED
  BY <1>1, <1>2, <1>3 DEF Replays

\* A run started with the cache of outbound commands keeps what replays.
LEMMA NextReplay ==
  ASSUME OutboundCachePatched
  PROVE  WellFormed /\ ReplayInv /\ [Next]_vars => ReplayInv'
<1> SUFFICES ASSUME WellFormed, ReplayInv, [Next]_vars PROVE ReplayInv'
  OBVIOUS
<1>1. ASSUME NEW f \in Fibers, Fiber(f) PROVE ReplayInv'
  <2>1. CASE CallMemoized(f) \/ CallScheduled(f) \/ CallResolves(f)
    BY <2>1, CallMemoizedReplay, CallScheduledReplay, CallResolvesReplay
  <2>2. CASE CallOutbound(f) \/ OutboundReturns(f)
    BY <2>2, CallOutboundReplay, OutboundReturnsReplay
  <2>3. CASE Take(f) \/ Poll(f)
    BY <2>3, NextMessageReplay, PollReplay DEF Take
  <2>4. CASE AwaitCompleted(f)
    BY <2>4, AwaitCompletedReplay
  <2>5. CASE TakeBlocks(f) \/ TakeUnblocks(f) \/ AwaitSuspends(f) \/ FiberEnds(f)
    BY <2>5, QuietFiberReplay
  <2> QED
    BY <1>1, <2>1, <2>2, <2>3, <2>4, <2>5 DEF Fiber
<1>2. CASE Resolve
  BY <1>2, OutboundResolvesReplay DEF Resolve
<1>3. CASE EndPass \/ NextPass
  BY <1>3, EndPassReplay, NextPassReplay
<1>4. CASE \/ BodyEnds \/ ResumeSignal \/ (\E m \in Mailboxes : MessageArrives(m))
           \/ \E d \in Deferreds : CompleteDeferred(d)
  BY <1>4, OutsideReplay
<1>5. CASE UNCHANGED vars
  BY <1>5, QuietReplay DEF vars, stores, cursors, fibers, history, control, WellFormed, TypeOK, TypeControl
<1> QED
  BY <1>1, <1>2, <1>3, <1>4, <1>5 DEF Next

\* What a site returned first is what its memo holds: a command of its own.
LEMMA ReplaysItsCommands == WellFormed /\ ReplayInv => StableCallsReplay
<1> SUFFICES ASSUME ReplayInv, NEW s \in Sites, Stable(s), returned[s] # Nothing
             PROVE  /\ returned[s] = first[s]
                    /\ KindAt(s) \in {"call", "outbound"} =>
                         \E n \in 1..issued[s] : returned[s] = <<s[1], s[2], n>>
  BY DEF StableCallsReplay
<1>1. Replays(s) /\ returned[s] = first[s]
  BY DEF ReplayInv, Replays
<1> QED
  BY <1>1 DEF Replays, Memo

\* "so calls replay in order" (TemporalWorkflowRuntime.ts:164), for every body
\* and any number of passes: a call of a name that one fiber uses returns in
\* every pass what it returned first, the result of a command of its own.  A run
\* started before the patch issues its outbound commands again in every pass,
\* so the theorem is about those started with it.
THEOREM StableReplay == ASSUME OutboundCachePatched PROVE Spec => []StableCallsReplay
BY InitWellFormed, NextWellFormed, InitReplay, NextReplay, ReplaysItsCommands, PTL DEF Spec

-----------------------------------------------------------------------------
(* No command is issued again.                                             *)

\* A call that issues a command has no memo, and so never returned.
LEMMA IssuesOnce ==
  ASSUME OutboundCachePatched, WellFormed, ReplayInv, [Next]_vars,
         NEW s \in Sites, Stable(s), issued'[s] # issued[s]
  PROVE  first[s] = Nothing /\ (KindAt(s) = "outbound" => issued[s] = 0)
<1>1. issued \in [Sites -> Nat] /\ Replays(s)
  BY DEF WellFormed, TypeOK, TypeControl, ReplayInv
<1>2. PICK f \in Fibers : CallScheduled(f) \/ CallOutbound(f)
  <2>1. issued' # issued
    OBVIOUS
  <2>2. ASSUME NEW f \in Fibers, Fiber(f) PROVE CallScheduled(f) \/ CallOutbound(f)
    BY <2>1, <2>2 DEF Fiber, CallMemoized, CallResolves, OutboundReturns, Take, NextMessage, TakeBlocks,
       TakeUnblocks, Poll, AwaitCompleted, AwaitSuspends, FiberEnds, history
  <2>3. ~(Resolve \/ EndPass \/ NextPass \/ BodyEnds \/ ResumeSignal \/ UNCHANGED vars)
    BY <2>1 DEF Resolve, OutboundResolves, EndPass, NextPass, BodyEnds, ResumeSignal, vars, history
  <2>4. ~((\E m \in Mailboxes : MessageArrives(m)) \/ \E d \in Deferreds : CompleteDeferred(d))
    BY <2>1 DEF MessageArrives, CompleteDeferred, history
  <2> QED
    BY <2>2, <2>3, <2>4 DEF Next
<1>3. s = Site(f)
  BY <1>1, <1>2 DEF CallScheduled, CallOutbound, Issue
<1>4. CASE CallScheduled(f)
  <2>1. Makes(f, "call") /\ MemoKey(f) \notin DOMAIN results
    BY <1>4 DEF CallScheduled
  <2>2. MemoKey(f) = KeyOf(s)
    BY <1>1, <1>3, <2>1, MakesAtKey
  <2>3. KindAt(s) = "call"
    BY <1>3, <2>1 DEF Makes, KindAt, Kind, CallOf, Site
  <2> QED
    BY <1>1, <2>1, <2>2, <2>3 DEF Replays, Memo
<1>5. CASE CallOutbound(f)
  <2>1. Makes(f, "outbound") /\ MemoKey(f) \notin DOMAIN outboundCalls
    BY <1>5 DEF CallOutbound, IsMemoized
  <2>2. MemoKey(f) = KeyOf(s)
    BY <1>1, <1>3, <2>1, MakesAtKey
  <2>3. KindAt(s) = "outbound"
    BY <1>3, <2>1 DEF Makes, KindAt, Kind, CallOf, Site
  <2> QED
    BY <1>1, <2>1, <2>2, <2>3 DEF Replays, Memo
<1> QED
  BY <1>2, <1>4, <1>5

\* "a resumed run does not re-schedule activities that already finished": no
\* pass issues the command of a call that returned in an earlier one, and none
\* issues an outbound command twice, if only one fiber uses the name
\* (activityExecute, call and memoizeOutboundCommand), in a run started with the
\* cache of outbound commands.
THEOREM CommandsNotReissued == ASSUME OutboundCachePatched PROVE Spec => NotReissued
<1> DEFINE Once == \A s \in Sites : Stable(s) /\ issued'[s] # issued[s] =>
                     first[s] = Nothing /\ (KindAt(s) = "outbound" => issued[s] = 0)
<1>1. WellFormed /\ ReplayInv /\ [Next]_vars => [Once]_vars
  BY IssuesOnce
<1>2. NotReissued <=> [][Once]_vars
  BY DEF NotReissued
<1> HIDE DEF Once
<1> QED
  BY <1>1, <1>2, InitWellFormed, NextWellFormed, InitReplay, NextReplay, PTL DEF Spec
=============================================================================

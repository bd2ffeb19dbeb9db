------------------------------ MODULE PassReplay ------------------------------
(***************************************************************************)
(* How a resumed pass replays the earlier ones: the memo tables and cursors*)
(* of the runtime state, and the calls that use them, in a body of several *)
(* concurrent fibers (TemporalWorkflowRuntime.ts: activityExecute, execute,*)
(* memoizeOutboundCommand, releaseCancellationScope, the reset at the start*)
(* of a pass; TemporalTypedActivity.call; TemporalNexusOperation.call;     *)
(* take, poll and offer of TemporalDurableMailbox).                        *)
(*                                                                         *)
(* Granularity.  The fiber at the head of ready makes one call at a time   *)
(* until it blocks; jobs (results, messages, completions) come when no     *)
(* fiber is ready.  A pass that meets a missing deferred is suspending: it *)
(* may end at once, or let its ready fibers run and wait for its           *)
(* activities first (Effect decides).  Interruption and cancellation of    *)
(* the run are WorkflowRun's; a body gives each fiber the sequence of its  *)
(* calls.  A failure the body does not expect (a defect) fails the run.    *)
(***************************************************************************)
EXTENDS Naturals, Sequences

CONSTANTS
  Deferreds,                 \* names of durable deferreds
  Activities,                \* names of activities and execution ids of children
  Typed,                     \* names of typed activities
  Nexus, Offers,             \* keys of outbound commands
  Mailboxes,                 \* names of mailboxes
  MaxFibers,                 \* bound: fibers of a body
  Bodies,                    \* the workflow bodies considered
  MaxMessages,               \* bound: messages per mailbox
  MaxResumes,                \* bound: resume signals
  OutboundCachePatched,      \* patched("effect-temporal/outbound-command-cache-v1")
  FiberCancellationPatched   \* patched("effect-temporal/fiber-cancellation-v1")

Outbound == Nexus \cup Offers
Sequenced == Typed \cup Outbound
Memoized == Activities \cup Typed
CallKinds == {"await", "call", "outbound", "take", "poll"}
Calls ==
  ({"await"} \X Deferreds) \cup ({"call"} \X Memoized)
    \cup ({"outbound"} \X Outbound) \cup ({"take", "poll"} \X Mailboxes)

Fibers == 1..MaxFibers

ASSUME BodiesAssumption == Bodies \subseteq [Fibers -> Seq(Calls)]
ASSUME BoundsAssumption ==
  MaxFibers \in Nat /\ MaxMessages \in Nat /\ MaxResumes \in Nat
ASSUME PatchedAssumption ==
  OutboundCachePatched \in BOOLEAN /\ FiberCancellationPatched \in BOOLEAN

\* What a call returns: the command that produced it, or the number of a
\* message.  Nothing is the result of a call that has not returned.
Nothing == <<>>
Message(k) == <<k>>
NoMessage == Message(0)
Done == <<0, 0>>

VARIABLES
  body,
  \* -- TemporalWorkflowRuntimeState --------------------------------------
  resumed,          \* the flag waitForResume waits for
  deferreds,        \* the deferreds that are completed
  results,          \* memo key -> result (activities, children, typed ones)
  outboundCalls,    \* memo key -> the command, and the state of its promise
  seqs,             \* name -> calls made in this pass
  mailboxLogs,      \* name -> number of messages received
  mailboxCursors,   \* name -> number of messages taken in this pass
  \* -- the pass -----------------------------------------------------------
  phase,            \* "pass", "suspending", "parked", "success", "failed"
  ready,            \* the fibers with a pending microtask, in order
  at,               \* fiber -> its position in its code
  waits,            \* fiber -> what it waits for
  slot,             \* fiber -> the memo key, or the cursor, it waits at
  cancels,          \* memo keys of outbound commands asked to cancel
  resumesLeft,
  \* -- history -------------------------------------------------------------
  issued,           \* site -> how often its call issued a command
  first,            \* site -> the result its call returned first
  returned          \* site -> the result it returned in this pass

Sites == UNION {{f} \X (DOMAIN body[f]) : f \in Fibers}

stores  == <<deferreds, results, outboundCalls, mailboxLogs>>
cursors == <<seqs, mailboxCursors>>
fibers  == <<ready, at, waits, slot>>
history == <<issued, first, returned>>
control == <<body, resumed, phase, cancels, resumesLeft>>
vars    == <<stores, cursors, fibers, history, control>>

States == {"run", "command", "outbound", "take", "suspended"}

NoCalls == [n \in Sequenced |-> 0]
NoneTaken == [m \in Mailboxes |-> 0]
Put(map, k, v) == [x \in DOMAIN map \cup {k} |-> IF x = k THEN v ELSE map[x]]

\* Effect.all starts the fibers in order.
StartFibers ==
  /\ ready' = [f \in Fibers |-> f]
  /\ at' = [f \in Fibers |-> 1]
  /\ waits' = [f \in Fibers |-> "run"]
  /\ slot' = [f \in Fibers |-> Nothing]
  /\ returned' = [s \in Sites |-> Nothing]

Init ==
  /\ body \in Bodies
  /\ resumed = FALSE /\ deferreds = {}
  /\ results = [k \in {} |-> Nothing]
  /\ outboundCalls = [k \in {} |-> Nothing]
  /\ mailboxLogs = NoneTaken
  /\ seqs = NoCalls /\ mailboxCursors = NoneTaken
  /\ phase = "pass" /\ cancels = {} /\ resumesLeft = MaxResumes
  /\ ready = [f \in Fibers |-> f]
  /\ at = [f \in Fibers |-> 1]
  /\ waits = [f \in Fibers |-> "run"]
  /\ slot = [f \in Fibers |-> Nothing]
  /\ issued = [s \in Sites |-> 0]
  /\ first = [s \in Sites |-> Nothing]
  /\ returned = [s \in Sites |-> Nothing]

-----------------------------------------------------------------------------
(* The fibers.                                                             *)

Site(f) == <<f, at[f]>>
CallOf(f) == body[f][at[f]]
Kind(f) == CallOf(f)[1]
Name(f) == CallOf(f)[2]

\* The fiber at the head of ready makes a call of this kind.
Makes(f, kind) ==
  /\ phase \in {"pass", "suspending"}
  /\ ready # <<>> /\ f = Head(ready) /\ waits[f] = "run"
  /\ at[f] <= Len(body[f]) /\ Kind(f) = kind

\* The call returns v, and the fiber runs on.
Return(f, v) ==
  /\ at' = [at EXCEPT ![f] = @ + 1]
  /\ returned' = [returned EXCEPT ![Site(f)] = v]
  /\ first' = IF first[Site(f)] = Nothing THEN [first EXCEPT ![Site(f)] = v] ELSE first

\* The fiber leaves the scheduler until what it waits for comes.
Block(f, what, key) ==
  /\ ready' = Tail(ready)
  /\ waits' = [waits EXCEPT ![f] = what]
  /\ slot' = [slot EXCEPT ![f] = key]
  /\ UNCHANGED <<at, first, returned>>

\* The position of a call among those of its name in this pass.
CountCall(f) ==
  seqs' = IF Name(f) \in Sequenced THEN [seqs EXCEPT ![Name(f)] = @ + 1] ELSE seqs

\* Activities are memoized by name and children by execution id, the others
\* by name and position.
MemoKey(f) ==
  <<Name(f), IF Name(f) \in Sequenced THEN seqs[Name(f)] ELSE 0>>

\* The command a call issues, the n-th of its site.
Command(f) == <<f, at[f], issued[Site(f)] + 1>>
Issue(f) == issued' = [issued EXCEPT ![Site(f)] = @ + 1]

-----------------------------------------------------------------------------
(* activityExecute, execute of a child, and TemporalTypedActivity.call.    *)

CallMemoized(f) ==
  /\ Makes(f, "call")
  /\ MemoKey(f) \in DOMAIN results
  /\ CountCall(f)
  /\ Return(f, results[MemoKey(f)])
  /\ UNCHANGED <<stores, control, mailboxCursors, ready, waits, slot, issued>>

CallScheduled(f) ==
  /\ Makes(f, "call")
  /\ MemoKey(f) \notin DOMAIN results
  /\ CountCall(f)
  /\ Issue(f)
  /\ Block(f, "command", MemoKey(f))
  /\ UNCHANGED <<stores, control, mailboxCursors>>

\* A job may come: between passes, and while the fibers of a pass wait; a
\* suspending pass waits only for its activities.
Job ==
  /\ ready = <<>>
  /\ \/ phase \in {"pass", "parked"}
     \/ phase = "suspending" /\ \E f \in Fibers : waits[f] = "command"

\* The command completes, with a success or a typed failure: the exit is
\* memoized and returned.  A defect fails the run.
CallResolves(f) ==
  /\ ready = <<>> /\ phase \in {"pass", "suspending"}
  /\ waits[f] = "command"
  /\ \/ LET v == <<f, at[f], issued[Site(f)]>>
        IN  /\ results' = Put(results, slot[f], v)
            /\ Return(f, v)
            /\ waits' = [waits EXCEPT ![f] = "run"]
            /\ slot' = [slot EXCEPT ![f] = Nothing]
            /\ ready' = <<f>>
            /\ UNCHANGED phase
     \/ /\ phase' = "failed"
        /\ UNCHANGED <<results, fibers, first, returned>>
  /\ UNCHANGED <<deferreds, outboundCalls, mailboxLogs, cursors, issued, body,
                 resumed, cancels, resumesLeft>>

-----------------------------------------------------------------------------
(* memoizeOutboundCommand, in the call of a Nexus operation and in offer.  *)

\* Only a settled promise is reused.
IsMemoizedBug(k) == k \in DOMAIN outboundCalls /\ outboundCalls[k].state = "done"

\* The command is issued unless the key holds a promise, pending or not.
IsMemoized(k) == k \in DOMAIN outboundCalls /\ OutboundCachePatched

Settled(k) == k \in DOMAIN outboundCalls /\ outboundCalls[k].state # "pending"

\* The fiber waits for the promise; one that is settled resumes it in a
\* microtask of its own, after the fibers that are ready.
CallOutbound(f) ==
  /\ Makes(f, "outbound")
  /\ CountCall(f)
  /\ waits' = [waits EXCEPT ![f] = "outbound"]
  /\ slot' = [slot EXCEPT ![f] = MemoKey(f)]
  /\ IF IsMemoized(MemoKey(f))
       THEN /\ ready' = IF Settled(MemoKey(f)) THEN Append(Tail(ready), f)
                                               ELSE Tail(ready)
            /\ UNCHANGED <<outboundCalls, issued>>
       ELSE /\ outboundCalls' = Put(outboundCalls, MemoKey(f),
                                    [command |-> Command(f), state |-> "pending"])
            /\ Issue(f)
            /\ ready' = Tail(ready)
  /\ UNCHANGED <<deferreds, results, mailboxLogs, mailboxCursors, control, at,
                 first, returned>>

\* The command completes or fails, or ends as cancelled if it was asked to;
\* a fiber that waits for it gets its microtask.
OutboundResolves(k) ==
  /\ Job
  /\ k \in DOMAIN outboundCalls /\ ~Settled(k)
  /\ \E s \in {"done", "failed", "cancelled"} :
       /\ s = "cancelled" => k \in cancels
       /\ outboundCalls' = [outboundCalls EXCEPT ![k].state = s]
  /\ \/ \E f \in Fibers : waits[f] = "outbound" /\ slot[f] = k /\ ready' = <<f>>
     \/ (\A f \in Fibers : waits[f] = "outbound" => slot[f] # k) /\ UNCHANGED ready
  /\ UNCHANGED <<deferreds, results, mailboxLogs, cursors, history, control,
                 at, waits, slot>>

\* The call returns the outcome of the command.  "done" is a success or the typed
\* failure of a Nexus operation: both are decoded from the memoized promise, the
\* same in every pass.  Any other rejection is a defect.
OutboundReturns(f) ==
  /\ phase \in {"pass", "suspending"}
  /\ ready # <<>> /\ f = Head(ready) /\ waits[f] = "outbound"
  /\ IF outboundCalls[slot[f]].state = "done"
       THEN /\ Return(f, outboundCalls[slot[f]].command)
            /\ waits' = [waits EXCEPT ![f] = "run"]
            /\ slot' = [slot EXCEPT ![f] = Nothing]
            /\ UNCHANGED <<phase, ready>>
       ELSE phase' = "failed" /\ UNCHANGED <<fibers, first, returned>>
  /\ UNCHANGED <<stores, cursors, issued, body, resumed, cancels, resumesLeft>>

-----------------------------------------------------------------------------
(* take and poll of a mailbox.                                             *)

HasMessageBug(f) == mailboxCursors[Name(f)] <= mailboxLogs[Name(f)]
HasMessage(f) == mailboxCursors[Name(f)] < mailboxLogs[Name(f)]

\* nextMessage: the message at the cursor, which moves beyond it.
NextMessage(f) ==
  /\ mailboxCursors' = [mailboxCursors EXCEPT ![Name(f)] = @ + 1]
  /\ Return(f, Message(mailboxCursors[Name(f)] + 1))
  /\ UNCHANGED <<stores, control, seqs, ready, waits, slot, issued>>

Take(f) == Makes(f, "take") /\ HasMessage(f) /\ NextMessage(f)

TakeBlocks(f) ==
  /\ Makes(f, "take") /\ ~HasMessage(f)
  /\ Block(f, "take", <<Name(f), mailboxCursors[Name(f)]>>)
  /\ UNCHANGED <<stores, control, cursors, issued>>

\* The condition holds for the cursor it was made with: take looks again.
TakeUnblocksBug(f) ==
  /\ ready = <<>> /\ phase = "pass"
  /\ waits[f] = "take" /\ mailboxLogs[slot[f][1]] > slot[f][2]
  /\ mailboxCursors' = [mailboxCursors EXCEPT ![Name(f)] = slot[f][2] + 1]
  /\ Return(f, Message(slot[f][2] + 1))
  /\ waits' = [waits EXCEPT ![f] = "run"]
  /\ slot' = [slot EXCEPT ![f] = Nothing]
  /\ ready' = <<f>>
  /\ UNCHANGED <<stores, control, seqs, issued>>

TakeUnblocks(f) ==
  /\ ready = <<>> /\ phase = "pass"
  /\ waits[f] = "take" /\ mailboxLogs[slot[f][1]] > slot[f][2]
  /\ waits' = [waits EXCEPT ![f] = "run"]
  /\ slot' = [slot EXCEPT ![f] = Nothing]
  /\ ready' = <<f>>
  /\ UNCHANGED <<stores, control, cursors, history, at>>

Poll(f) ==
  /\ Makes(f, "poll")
  /\ \/ HasMessage(f) /\ NextMessage(f)
     \/ /\ ~HasMessage(f) /\ Return(f, NoMessage)
        /\ UNCHANGED <<stores, control, cursors, ready, waits, slot, issued>>

MessageArrives(m) ==
  /\ Job
  /\ mailboxLogs[m] < MaxMessages
  /\ mailboxLogs' = [mailboxLogs EXCEPT ![m] = @ + 1]
  /\ UNCHANGED <<deferreds, results, outboundCalls, cursors, fibers, history, control>>

-----------------------------------------------------------------------------
(* Deferreds, the end of a pass and the next one.                          *)

AwaitCompleted(f) ==
  /\ Makes(f, "await") /\ Name(f) \in deferreds
  /\ Return(f, Done)
  /\ UNCHANGED <<stores, control, cursors, ready, waits, slot, issued>>

\* A missing deferred: the fiber interrupts itself, and with it the pass.
AwaitSuspends(f) ==
  /\ Makes(f, "await") /\ Name(f) \notin deferreds
  /\ phase' = "suspending"
  /\ Block(f, "suspended", Nothing)
  /\ UNCHANGED <<stores, cursors, issued, body, resumed, cancels, resumesLeft>>

FiberEnds(f) ==
  /\ phase \in {"pass", "suspending"}
  /\ ready # <<>> /\ f = Head(ready) /\ waits[f] = "run" /\ at[f] > Len(body[f])
  /\ ready' = Tail(ready)
  /\ UNCHANGED <<stores, cursors, control, history, at, waits, slot>>

\* releaseCancellationScope cancels the scope of an interrupted call: the
\* operations this pass issued, not those it shares with an earlier one.
Interrupted ==
  {slot[f] : f \in {g \in Fibers :
     /\ waits[g] = "outbound" /\ Name(g) \in Nexus /\ ~Settled(slot[g])
     /\ outboundCalls[slot[g]].command[3] = issued[Site(g)]}}

\* The resume flag is cleared before the wait and not after it.
EndPassBug ==
  /\ phase = "suspending"
  /\ phase' = "parked" /\ resumed' = FALSE
  /\ ready' = <<>>
  /\ waits' = [f \in Fibers |-> "suspended"]
  /\ slot' = [f \in Fibers |-> Nothing]
  /\ cancels' = IF FiberCancellationPatched THEN cancels \cup Interrupted ELSE cancels
  /\ UNCHANGED <<stores, cursors, history, at, body, resumesLeft>>

\* The other fibers are interrupted; what was in flight is not memoized.
EndPass ==
  /\ phase = "suspending"
  /\ phase' = "parked"
  /\ ready' = <<>>
  /\ waits' = [f \in Fibers |-> "suspended"]
  /\ slot' = [f \in Fibers |-> Nothing]
  /\ cancels' = IF FiberCancellationPatched THEN cancels \cup Interrupted ELSE cancels
  /\ UNCHANGED <<stores, cursors, history, at, body, resumed, resumesLeft>>

ResetPassBug == mailboxCursors' = NoneTaken /\ UNCHANGED seqs
ResetPass == mailboxCursors' = NoneTaken /\ seqs' = NoCalls

\* waitForResume returns and the next pass begins.
NextPass ==
  /\ phase = "parked" /\ resumed
  /\ resumed' = FALSE
  /\ phase' = "pass"
  /\ ResetPass
  /\ StartFibers
  /\ UNCHANGED <<stores, body, cancels, resumesLeft, issued, first>>

\* Every fiber has ended, and with them the body.
BodyEnds ==
  /\ phase = "pass" /\ ready = <<>>
  /\ \A f \in Fibers : waits[f] = "run" /\ at[f] > Len(body[f])
  /\ phase' = "success"
  /\ UNCHANGED <<stores, cursors, fibers, history, body, resumed, cancels, resumesLeft>>

CompleteDeferred(d) ==
  /\ Job
  /\ d \notin deferreds
  /\ deferreds' = deferreds \cup {d}
  /\ resumed' = TRUE
  /\ UNCHANGED <<results, outboundCalls, mailboxLogs, cursors, fibers, history,
                 body, phase, cancels, resumesLeft>>

ResumeSignal ==
  /\ Job
  /\ resumesLeft > 0
  /\ resumesLeft' = resumesLeft - 1
  /\ resumed' = TRUE
  /\ UNCHANGED <<stores, cursors, fibers, history, body, phase, cancels>>

-----------------------------------------------------------------------------
Fiber(f) ==
  \/ CallMemoized(f) \/ CallScheduled(f) \/ CallResolves(f)
  \/ CallOutbound(f) \/ OutboundReturns(f)
  \/ Take(f) \/ TakeBlocks(f) \/ TakeUnblocks(f) \/ Poll(f)
  \/ AwaitCompleted(f) \/ AwaitSuspends(f) \/ FiberEnds(f)

Resolve == \E k \in DOMAIN outboundCalls : OutboundResolves(k)

Next ==
  \/ \E f \in Fibers : Fiber(f)
  \/ Resolve \/ EndPass \/ NextPass \/ BodyEnds
  \/ \E m \in Mailboxes : MessageArrives(m)
  \/ \E d \in Deferreds : CompleteDeferred(d)
  \/ ResumeSignal

Spec == Init /\ [][Next]_vars

\* The sandbox runs its fibers and the loop, and commands are answered.
Fairness ==
  /\ WF_vars(\E f \in Fibers : Fiber(f))
  /\ WF_vars(Resolve) /\ WF_vars(EndPass \/ NextPass \/ BodyEnds)
FairSpec == Spec /\ Fairness

-----------------------------------------------------------------------------
(* Properties.                                                             *)

Keys == (Sequenced \X Nat) \cup (Activities \X {0})
Commands == {c \in Fibers \X Nat \X Nat : <<c[1], c[2]>> \in Sites}
Results == Commands \cup {Nothing, Done} \cup {<<k>> : k \in 0..MaxMessages}

TypeStores ==
  /\ deferreds \in SUBSET Deferreds
  /\ DOMAIN results \subseteq Keys
  /\ \A k \in DOMAIN results : results[k] \in Commands
  /\ DOMAIN outboundCalls \subseteq Keys
  /\ \A k \in DOMAIN outboundCalls :
       outboundCalls[k] \in
         [command : Commands, state : {"pending", "done", "failed", "cancelled"}]
  /\ mailboxLogs \in [Mailboxes -> 0..MaxMessages]
  /\ seqs \in [Sequenced -> Nat]
  /\ mailboxCursors \in [Mailboxes -> Nat]
  /\ \A m \in Mailboxes : mailboxCursors[m] <= mailboxLogs[m]

TypeControl ==
  /\ body \in Bodies
  /\ resumed \in BOOLEAN /\ resumesLeft \in Nat
  /\ phase \in {"pass", "suspending", "parked", "success", "failed"}
  /\ cancels \subseteq DOMAIN outboundCalls
  /\ ready \in Seq(Fibers)
  /\ \A i, j \in DOMAIN ready : ready[i] = ready[j] => i = j
  /\ at \in [Fibers -> Nat \ {0}]
  /\ waits \in [Fibers -> States]
  /\ \A f \in Fibers : waits[f] = "outbound" => slot[f] \in DOMAIN outboundCalls
  /\ DOMAIN slot = Fibers
  /\ issued \in [Sites -> Nat]
  /\ first \in [Sites -> Results] /\ returned \in [Sites -> Results]

\* Type correctness: in particular no fiber has two microtasks, no fiber waits
\* for a promise that is not there, and takes stay within the logs.
TypeOK == TypeStores /\ TypeControl

NameAt(s) == body[s[1]][s[2]][2]
KindAt(s) == body[s[1]][s[2]][1]

\* The calls whose replay does not depend on the order of the fibers: no other
\* fiber uses the name; an activity is called once in the body; a mailbox is
\* never polled.
Stable(s) ==
  /\ \A t \in Sites : t[1] # s[1] => NameAt(t) # NameAt(s)
  /\ NameAt(s) \in Activities => \A t \in Sites : NameAt(t) = NameAt(s) => t = s
  /\ \A t \in Sites : NameAt(t) = NameAt(s) => KindAt(t) # "poll"

\* "so calls replay in order" (TemporalWorkflowRuntime.ts:164): a call returns
\* in every pass what it returned first, the result of a command it issued
\* itself, whatever the other fibers did in between.
StableCallsReplay ==
  \A s \in Sites : Stable(s) /\ returned[s] # Nothing =>
    /\ returned[s] = first[s]
    /\ KindAt(s) \in {"call", "outbound"} =>
         \E n \in 1..issued[s] : returned[s] = <<s[1], s[2], n>>

\* "a resumed run does not re-schedule activities that already finished": a
\* call that has returned never issues its command again, and an outbound
\* command is issued once even if its pass suspended before it ended.
NotReissued ==
  [][\A s \in Sites : Stable(s) /\ issued'[s] # issued[s] =>
       first[s] = Nothing /\ (KindAt(s) = "outbound" => issued[s] = 0)]_vars

\* Within a pass the messages taken from a mailbox, by whichever fibers, are
\* the first ones of its log, each taken once.
TakenInOrder ==
  \A m \in Mailboxes :
    LET takers == {s \in Sites : KindAt(s) \in {"take", "poll"} /\ NameAt(s) = m
                                  /\ returned[s] \notin {Nothing, NoMessage}}
    IN  /\ \A s, t \in takers : returned[s] = returned[t] => s = t
        /\ {returned[s] : s \in takers} = {Message(k) : k \in 1..mailboxCursors[m]}

\* A run whose deferreds are all completed ends, unless it waits for a message.
RunEnds ==
  deferreds = Deferreds ~>
    phase \in {"success", "failed"} \/ \E f \in Fibers : waits[f] = "take"

\* "Completed exits are memoized per call position, so a resumed pass of the
\* body replays results instead of re-scheduling" (TemporalTypedActivity.ts:
\* 158-160): the result a typed call returns is that of a command it issued.
TypedCallsReplay ==
  \A s \in Sites : NameAt(s) \in Typed /\ returned[s] # Nothing =>
    \E n \in 1..issued[s] : returned[s] = <<s[1], s[2], n>>

\* "Pending promises are shared too" (TemporalWorkflowRuntime.ts:227): no call
\* is failed by the cancellation of the command it shares with an earlier pass.
SharedCallsSurvive ==
  \A f \in Fibers :
    waits[f] = "outbound" => outboundCalls[slot[f]].state # "cancelled"
=============================================================================

------------------------------- MODULE PassLoop -------------------------------
(***************************************************************************)
(* What makes the reconciler look, and how it accounts for what it does:   *)
(* the one-slot channels that ask for a pass, the event stream of a driver *)
(* and its rewatching, the loop that runs passes one at a time, the        *)
(* converges it spawns and queues for a slot, the order passes are counted *)
(* in, the subscribers told to look again, and shutting down.              *)
(*                                                                         *)
(* What a converge does is left to Lifecycle: here it holds its workload   *)
(* and a slot, and may have changed what is running by the time it ends.   *)
(***************************************************************************)
EXTENDS Naturals, Sequences, FiniteSets

CONSTANTS
  Workloads,    \* the names a pass has something to do for
  Prunes,       \* the work a pass whose turn it is to prune adds
  Limit,        \* how many workloads are converged at once
  MaxCallers,   \* bound: API calls between their commit and their nudge
  MaxOpen,      \* bound: passes that have returned and are not yet counted
  Followed      \* bound: the workloads whose news is followed to a converge

ASSUME PassLoopAssumption ==
  /\ IsFiniteSet(Workloads) /\ Prunes \cap Workloads = {}
  /\ Limit \in Nat \ {0} /\ MaxCallers \in Nat /\ MaxOpen \in Nat \ {0}
  /\ Followed \subseteq Workloads

VARIABLES
  nudge, verdict,   \* signals pending in the channels of Notify and the checker
  events,           \* whether the driver's forwarder has an event to hand over
  stream,           \* the driver's event stream, and the goroutine forwarding it
  calling,          \* API calls that have committed and are yet to notify
  loop,             \* where Run is
  todo,             \* the workloads the pass under way is yet to see to
  spawned,          \* the work the pass under way has spawned, not yet done
  open,             \* the passes that have returned, in order, from the first not counted
  claims,           \* what holds each workload, if anything
  context,          \* the context Run was given
  signal,           \* a signal pending in a subscriber's channel
  unlisted,         \* history: a change to the table no pass has listed
  unobserved,       \* history: a change of the runtime no pass has seen
  unheard,          \* history: a change of a verdict no pass has seen
  unacted,          \* history: workloads a pass has read news of and nothing was begun on since
  skipped,          \* history: those of them it left to the converge of an earlier pass
  unread,           \* history: a change a converge made that no subscriber has read
  failed            \* history: a pass failed and none has observed since

channels == <<nudge, verdict, events, stream, calling>>
work == <<todo, spawned, open, claims>>
news == <<unlisted, unobserved, unheard, unacted, skipped, unread>>
vars == <<nudge, verdict, events, stream, calling, loop, todo, spawned, open, claims,
          context, signal, unlisted, unobserved, unheard, unacted, skipped, unread, failed>>

Init ==
  /\ nudge = 0 /\ verdict = 0 /\ events = 0 /\ stream = "open" /\ calling = 0
  \* Run converges once before it selects.  What an earlier server left is news.
  /\ loop = "list"
  /\ todo = {} /\ spawned = {} /\ open = <<>>
  /\ claims = [w \in Workloads |-> "free"]
  /\ context = "live" /\ signal = 0
  /\ unlisted = 1 /\ unobserved = 1 /\ unheard = 0 /\ unacted = {} /\ skipped = {} /\ unread = 0 /\ failed = 0

-----------------------------------------------------------------------------
(* What asks for a pass.                                                   *)

\* An API call commits its change ...
Commit ==
  /\ calling < MaxCallers
  /\ calling' = calling + 1
  /\ unlisted' = 1
  /\ UNCHANGED <<nudge, verdict, events, stream, loop, work, context, signal, unobserved,
                 unheard, unacted, skipped, unread, failed>>

\* Mutant of Notify: an unbuffered channel, which only a loop in its select receives from.
NotifyUnbuffered ==
  /\ calling > 0
  /\ calling' = calling - 1
  /\ nudge' = IF loop = "select" THEN 1 ELSE nudge
  /\ UNCHANGED <<verdict, events, stream, loop, work, context, signal, news, failed>>

\* ... and then notifies.  The send never blocks: a pending signal is all it conveys.
Notify ==
  /\ calling > 0
  /\ calling' = calling - 1
  /\ nudge' = 1
  /\ UNCHANGED <<verdict, events, stream, loop, work, context, signal, news, failed>>

\* An instance starts, ends or is removed.  A stream that is up carries the event.
RuntimeChanges ==
  /\ unobserved' = 1
  /\ events' = IF stream \in {"rewatched", "open"} THEN 1 ELSE events
  /\ UNCHANGED <<nudge, verdict, stream, calling, loop, work, context, signal, unlisted,
                 unheard, unacted, skipped, unread, failed>>

\* A health check's verdict changes.
VerdictChanges ==
  /\ verdict' = 1
  /\ unheard' = 1
  /\ UNCHANGED <<nudge, events, stream, calling, loop, work, context, signal, unlisted,
                 unobserved, unacted, skipped, unread, failed>>

\* The stream closes, with what it had yet to deliver.  What the forwarder had already
\* taken from it, it still hands over.
StreamEnds ==
  /\ stream = "open"
  /\ stream' = "ended"
  /\ events' \in {0, events}
  /\ UNCHANGED <<nudge, verdict, calling, loop, work, context, signal, news, failed>>

\* forward: the driver is watched again, after a wait ...
Rewatch ==
  /\ stream = "ended" /\ events = 0 /\ context = "live"
  /\ stream' = "rewatched"
  /\ UNCHANGED <<nudge, verdict, events, calling, loop, work, context, signal, news, failed>>

\* ... and a pass is asked for, to cover what happened in between.
RewatchNotifies ==
  /\ stream = "rewatched"
  /\ stream' = "open"
  /\ nudge' = 1
  /\ UNCHANGED <<verdict, events, calling, loop, work, context, signal, news, failed>>

\* The driver refuses to be watched.  The forwarder keeps a nil channel, logs, and
\* goes on to receive from it, which no one ever sends on or closes.
RewatchFails ==
  /\ stream = "ended" /\ events = 0 /\ context = "live"
  /\ stream' = "nil"
  /\ UNCHANGED <<nudge, verdict, events, calling, loop, work, context, signal, news, failed>>

-----------------------------------------------------------------------------
(* Run.                                                                    *)

\* Bound: the loop goes round while there is room for the pass it would add.
Selects == loop = "select" /\ Len(open) < MaxOpen

TakeTick ==
  /\ Selects
  /\ loop' = "list"
  /\ UNCHANGED <<channels, work, context, signal, news, failed>>

TakeNudge ==
  /\ Selects /\ nudge = 1
  /\ nudge' = 0 /\ loop' = "list"
  /\ UNCHANGED <<verdict, events, stream, calling, work, context, signal, news, failed>>

TakeVerdict ==
  /\ Selects /\ verdict = 1
  /\ verdict' = 0 /\ loop' = "coalesce"
  /\ UNCHANGED <<nudge, events, stream, calling, work, context, signal, news, failed>>

TakeEvent ==
  /\ Selects /\ events = 1
  /\ events' = 0 /\ loop' = "coalesce"
  /\ UNCHANGED <<nudge, verdict, stream, calling, work, context, signal, news, failed>>

\* coalesce: events that arrive in the window are dropped, until it closes.
CoalesceDrops ==
  /\ loop = "coalesce" /\ events = 1
  /\ events' = 0
  /\ UNCHANGED <<nudge, verdict, stream, calling, loop, work, context, signal, news, failed>>

CoalesceEnds ==
  /\ loop = "coalesce"
  /\ loop' = "list"
  /\ UNCHANGED <<channels, work, context, signal, news, failed>>

Cancel ==
  /\ context = "live"
  /\ context' = "cancelled"
  /\ UNCHANGED <<channels, loop, work, signal, news, failed>>

TakeDone ==
  /\ loop = "select" /\ context = "cancelled"
  /\ loop' = "returning"
  /\ UNCHANGED <<channels, work, context, signal, news, failed>>

\* Run waits for its work, the counting of passes included.
Return ==
  /\ loop = "returning"
  /\ open = <<>> /\ \A w \in Workloads : claims[w] = "free"
  /\ loop' = "returned"
  /\ UNCHANGED <<channels, work, context, signal, news, failed>>

-----------------------------------------------------------------------------
(* A pass.                                                                 *)

InPass == loop \in {"list", "observe", "act"}

\* complete: a pass that returns is counted once its work, and the pass before it, is.
Complete(left) ==
  /\ loop' = "select"
  /\ open' = Append(open, [left |-> left, counted |-> 0])
  /\ todo' = {} /\ spawned' = {}

\* News may be of any workload.
List ==
  /\ loop = "list"
  /\ loop' = "observe"
  /\ unlisted' = 0
  /\ unacted' = IF unlisted = 1 THEN Followed ELSE unacted
  /\ UNCHANGED <<channels, work, context, signal, unobserved, unheard, skipped, unread, failed>>

\* A pass that has observed tells the subscribers before it acts.
Observe ==
  /\ loop = "observe"
  /\ loop' = "act"
  /\ todo' = Workloads
  /\ unobserved' = 0 /\ unheard' = 0 /\ failed' = 0
  /\ unacted' = IF 1 \in {unobserved, unheard} THEN Followed ELSE unacted
  /\ skipped' = {}
  /\ signal' = 1
  /\ UNCHANGED <<channels, spawned, open, claims, context, unlisted, unread>>

\* The table could not be listed, no driver answered, or the ports could not be read,
\* which is done before any workload is seen to.
PassFails ==
  /\ loop \in {"list", "observe"} \/ (loop = "act" /\ todo = Workloads /\ spawned = {})
  /\ Complete({})
  /\ failed' = 1
  /\ UNCHANGED <<channels, claims, context, signal, news>>

\* Mutant of Spawn: a workload an earlier pass still holds is claimed again.
SpawnRegardless(w) ==
  /\ loop = "act" /\ w \in todo
  /\ todo' = todo \ {w}
  /\ spawned' = spawned \cup {w}
  /\ \E as \in {"queued", "sweeping"} : claims' = [claims EXCEPT ![w] = as]
  /\ unacted' = unacted \ {w}
  /\ UNCHANGED <<channels, open, loop, context, signal, unlisted, unobserved, unheard, skipped, unread, failed>>

\* begin, and spawn.  A converge queues for a slot; the sweep of an orphan does not.  What an
\* earlier pass still holds is left to it, and nothing asks for a pass when it ends.
Spawn(w) ==
  /\ loop = "act" /\ w \in todo
  /\ todo' = todo \ {w}
  /\ IF claims[w] = "free"
       THEN /\ spawned' = spawned \cup {w}
            /\ \E as \in {"queued", "sweeping"} : claims' = [claims EXCEPT ![w] = as]
            /\ unacted' = unacted \ {w} /\ UNCHANGED skipped
       ELSE skipped' = skipped \cup (unacted \cap {w}) /\ UNCHANGED <<spawned, claims, unacted>>
  /\ UNCHANGED <<channels, open, loop, context, signal, unlisted, unobserved, unheard, unread, failed>>

\* The pass returns, having spawned a prune when its turn had come.  A pass cut short
\* by shutdown leaves out the sweep and the prune.
PassReturns ==
  /\ loop = "act"
  /\ todo = {} \/ context = "cancelled"
  /\ \E prune \in SUBSET Prunes : Complete(spawned \cup prune)
  /\ UNCHANGED <<channels, claims, context, signal, news, failed>>

\* Drop from the front what has been counted.
Trim(passes) ==
  LET n == CHOOSE k \in 0..Len(passes) :
             /\ \A j \in 1..k : passes[j].counted = 1
             /\ k < Len(passes) => passes[k + 1].counted = 0
  IN  SubSeq(passes, n + 1, Len(passes))

\* Mutant of Previous: a pass is counted as soon as its own work is done.
PreviousIgnored(i) == TRUE

\* Mutant of Previous: the channel waited for is the one the goroutine itself closes.
PreviousIsOwn(i) == open[i].counted = 1

\* The completion goroutine of a pass waits for the channel the one before it closes.
Previous(i) == i > 1 => open[i - 1].counted = 1

\* Mutant of Count: the subscribers hear of a pass only when it observes.
CountQuietly(i) ==
  /\ i \in 1..Len(open) /\ open[i].counted = 0
  /\ open[i].left = {}
  /\ Previous(i)
  /\ open' = Trim([open EXCEPT ![i].counted = 1])
  /\ UNCHANGED <<channels, loop, todo, spawned, claims, context, signal, news, failed>>

\* A pass is counted, and the subscribers are told it has finished acting.
Count(i) ==
  /\ i \in 1..Len(open) /\ open[i].counted = 0
  /\ open[i].left = {}
  /\ Previous(i)
  /\ open' = Trim([open EXCEPT ![i].counted = 1])
  /\ signal' = 1
  /\ UNCHANGED <<channels, loop, todo, spawned, claims, context, news, failed>>

-----------------------------------------------------------------------------
(* The work a pass spawns.                                                 *)

\* Mutant of Acting: a slot is taken by queueing for one.
ActingOrQueued == {w \in Workloads : claims[w] \in {"queued", "acting"}}

Acting == {w \in Workloads : claims[w] = "acting"}

TakeSlot(w) ==
  /\ claims[w] = "queued" /\ Cardinality(Acting) < Limit
  /\ claims' = [claims EXCEPT ![w] = "acting"]
  /\ UNCHANGED <<channels, loop, todo, spawned, open, context, signal, news, failed>>

\* A piece of work ends, and is done for the pass that spawned it.
Done(work1) ==
  /\ spawned' = spawned \ {work1}
  /\ open' = [i \in 1..Len(open) |-> [open[i] EXCEPT !.left = @ \ {work1}]]

\* finish: the slot, if it held one, and the workload are released.
Finish(w) ==
  /\ claims[w] \in {"acting", "sweeping"}
  /\ claims' = [claims EXCEPT ![w] = "free"]
  /\ Done(w)
  /\ unread' \in {unread, 1}
  /\ UNCHANGED <<channels, loop, todo, context, signal, unlisted, unobserved, unheard, unacted, skipped, failed>>

\* Shutting down releases what is queued.
GiveUp(w) ==
  /\ claims[w] = "queued" /\ context = "cancelled"
  /\ claims' = [claims EXCEPT ![w] = "free"]
  /\ Done(w)
  /\ UNCHANGED <<channels, loop, todo, context, signal, news, failed>>

\* A prune belongs to no workload, so nothing keeps two passes' from overlapping.
PruneEnds ==
  /\ \E i \in 1..Len(open) : \E prune \in open[i].left \cap Prunes :
       open' = [open EXCEPT ![i].left = @ \ {prune}]
  /\ UNCHANGED <<channels, loop, todo, spawned, claims, context, signal, news, failed>>

\* A subscriber takes its signal and reads the fleet.
SubscriberReads ==
  /\ signal = 1
  /\ signal' = 0
  /\ unread' = 0
  /\ UNCHANGED <<channels, loop, work, context, unlisted, unobserved, unheard, unacted, skipped, failed>>

-----------------------------------------------------------------------------

PassStep == List \/ Observe \/ PassReturns \/ \E w \in Workloads : Spawn(w)

Wakes == TakeNudge \/ TakeVerdict \/ TakeEvent \/ CoalesceEnds

WorkStep(w) == Finish(w) \/ GiveUp(w)

Counts == \E i \in 1..MaxOpen : Count(i)

Next ==
  \/ Commit \/ Notify \/ RuntimeChanges \/ VerdictChanges
  \/ StreamEnds \/ Rewatch \/ RewatchNotifies \/ RewatchFails
  \/ Wakes \/ TakeTick \/ CoalesceDrops
  \/ Cancel \/ TakeDone \/ Return
  \/ PassStep \/ PassFails \/ Counts
  \/ \E w \in Workloads : TakeSlot(w) \/ WorkStep(w)
  \/ PruneEnds \/ SubscriberReads

Spec == Init /\ [][Next]_vars

\* Goroutines run on; converges end, since every call they make is bounded.  Those
\* that queue for a slot are served in turn, and a select with several cases ready
\* picks each of them in time.  Neither the ticker, a caller, a driver nor a
\* subscriber is under any obligation.
Fairness ==
  /\ WF_vars(PassStep) /\ WF_vars(Wakes) /\ WF_vars(Counts) /\ WF_vars(PruneEnds)
  /\ WF_vars(Rewatch) /\ WF_vars(RewatchNotifies)
  /\ SF_vars(TakeDone) /\ WF_vars(Return)
  /\ \A w \in Workloads : SF_vars(TakeSlot(w)) /\ WF_vars(WorkStep(w))

FairSpec == Spec /\ Fairness

-----------------------------------------------------------------------------
(* Properties.                                                             *)

Bit == {0, 1}

\* The type invariant.
TypeOK ==
  /\ nudge \in Bit /\ verdict \in Bit /\ events \in Bit /\ calling \in Nat
  /\ stream \in {"open", "ended", "rewatched", "nil"}
  /\ loop \in {"select", "coalesce", "list", "observe", "act", "returning", "returned"}
  /\ todo \in SUBSET Workloads /\ spawned \in SUBSET Workloads
  /\ open \in Seq([left : SUBSET (Workloads \cup Prunes), counted : Bit])
  /\ claims \in [Workloads -> {"free", "queued", "acting", "sweeping"}]
  /\ context \in {"live", "cancelled"} /\ signal \in Bit
  /\ unlisted \in Bit /\ unobserved \in Bit /\ unheard \in Bit /\ unread \in Bit /\ failed \in Bit
  /\ unacted \subseteq Workloads /\ skipped \subseteq Workloads

\* What is left to the ticker is known: what a failed pass was to see, what the runtime does
\* while its driver refuses to be watched, and the news of a workload that the pass which
\* read it left to the converge of an earlier one.  Any other change to the table has a caller
\* about to notify, a nudge pending, or a pass yet to list; one of a verdict has its signal
\* pending or a pass yet to observe; one of the runtime has its event or a nudge pending, its
\* stream about to be watched again, or a pass yet to observe; and what a pass has read, it
\* begins a converge on.
NoNewsLost ==
  loop \notin {"returning", "returned"} /\ failed = 0 =>
    /\ unlisted = 1 => calling > 0 \/ nudge = 1 \/ loop \in {"coalesce", "list"}
    /\ unheard = 1 => verdict = 1 \/ loop \in {"coalesce", "list", "observe"}
    /\ unobserved = 1 => \/ events = 1 \/ nudge = 1 \/ loop \in {"coalesce", "list", "observe"}
                         \/ stream \in {"ended", "rewatched"} \/ stream = "nil"
    /\ \A w \in unacted : \/ loop = "observe" \/ (loop = "act" /\ w \in todo)
                           \/ w \in skipped \/ context = "cancelled"

\* Passes() says how many passes have done all they set out to do: as many passes as
\* are counted, from the first, have no work left.
CountMeansDone ==
  LET counted == {i \in 1..Len(open) : open[i].counted = 1} IN
  \A j \in 1..Cardinality(counted) : open[j].left = {}

\* What a converge changed is read by a subscriber, or it is told of it: a signal is
\* pending, or a pass that will send one is not yet counted.
SubscriberTold == unread = 1 => signal = 1 \/ open # <<>> \/ InPass

\* The returned passes that wait for a piece of work.
Holders(w) == {i \in 1..Len(open) : w \in open[i].left}

\* A workload that is claimed is the work of exactly one pass, so its converge both
\* holds that pass back from being counted and is the only one of it.
ClaimIsCounted ==
  \A w \in Workloads :
    /\ claims[w] = "free" => Holders(w) = {} /\ w \notin spawned
    /\ w \in spawned => Holders(w) = {}
    /\ claims[w] # "free" /\ w \notin spawned => \E i \in Holders(w) : Holders(w) = {i}

\* Every claim is released: whatever queues for a slot gets one or gives up.
ClaimsReleased == \A w \in Workloads : claims[w] # "free" ~> claims[w] = "free"

\* Once the context is cancelled Run returns, whatever it was doing.
Stops == context = "cancelled" ~> loop = "returned"

-----------------------------------------------------------------------------
(* What the comments claim, and the code does not do.                      *)

\* watch: "each stream is watched again when it ends, with a growing wait between
\* attempts".
WatchedAgain == stream # "open" ~> stream = "open" \/ context = "cancelled"

\* convergeAll, of a workload it skips: "The next pass after the converge finishes acts on it".
\* Nothing asks for that pass: it is the ticker's.
SkippedIsActedOn == \A w \in Workloads : w \in skipped ~> w \notin skipped
==============================================================================

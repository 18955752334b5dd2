----------------------------- MODULE ServerProofs -----------------------------
(***************************************************************************)
(* Proofs about two parts of the server that share no state: the loop of   *)
(* reconciliation passes, for every set of workloads, every number of      *)
(* slots and every number of passes in the making; and access, for every   *)
(* set of clients, principals, groups and policies and every number of     *)
(* tokens.                                                                 *)
(***************************************************************************)
EXTENDS PassLoop, Access, FiniteSetTheorems, TLAPS

(***************************************************************************)
(* The pass loop.                                                          *)
(***************************************************************************)

OpenPass == [left : SUBSET (Workloads \cup Prunes), counted : Bit]

\* A pass that is counted leaves the sequence at once: none is counted ahead of one
\* that came before it.
Uncounted == \A i \in 1..Len(open) : open[i].counted = 0

\* Only a pass that is acting has spawned anything.
SpawnsActing == spawned # {} => loop = "act"

\* Between listing and observing, a change to the table is still to be notified of,
\* even when the passes before failed.
ListedSince == loop = "observe" /\ unlisted = 1 => calling > 0 \/ nudge = 1

IInv ==
  /\ TypeOK
  /\ Uncounted
  /\ SpawnsActing
  /\ ListedSince
  /\ NoNewsLost
  /\ SubscriberTold
  /\ ClaimIsCounted

-----------------------------------------------------------------------------
(* Facts about the sequence of passes.                                     *)

\* What complete does to the sequence.
LEMMA AppendPass ==
  ASSUME TypeOK, NEW left \in SUBSET (Workloads \cup Prunes),
         open' = Append(open, [left |-> left, counted |-> 0])
  PROVE  /\ open' \in Seq(OpenPass) /\ open' # <<>>
         /\ Len(open') = Len(open) + 1
         /\ \A i \in 1..Len(open) : open'[i] = open[i]
         /\ open'[Len(open) + 1] = [left |-> left, counted |-> 0]
<1>1. open \in Seq(OpenPass) BY DEF TypeOK, OpenPass
<1>2. [left |-> left, counted |-> 0] \in OpenPass BY DEF OpenPass, Bit
<1> QED BY <1>1, <1>2

\* What ending a piece of work does to the sequence.
LEMMA DonePass ==
  ASSUME TypeOK, NEW w, Done(w)
  PROVE  /\ open' \in Seq(OpenPass) /\ Len(open') = Len(open)
         /\ \A i \in 1..Len(open) : /\ open'[i].left = open[i].left \ {w}
                                    /\ open'[i].counted = open[i].counted
<1>1. open \in Seq(OpenPass) BY DEF TypeOK, OpenPass
<1>2. ASSUME NEW i \in 1..Len(open)
      PROVE  /\ [open[i] EXCEPT !.left = @ \ {w}] \in OpenPass
             /\ [open[i] EXCEPT !.left = @ \ {w}].left = open[i].left \ {w}
             /\ [open[i] EXCEPT !.left = @ \ {w}].counted = open[i].counted
  <2>1. open[i] \in OpenPass BY <1>1
  <2> QED BY <2>1 DEF OpenPass
<1>3. open' = [i \in 1..Len(open) |-> [open[i] EXCEPT !.left = @ \ {w}]] BY DEF Done
<1>4. Len(open) \in Nat BY <1>1
<1>5. open' \in Seq(OpenPass) /\ Len(open') = Len(open) BY <1>2, <1>3, <1>4
<1> QED BY <1>2, <1>3, <1>5

\* Counting takes the first pass off the sequence, and can take no other.
LEMMA CountFirst ==
  ASSUME TypeOK, Uncounted, NEW i, Count(i)
  PROVE  /\ i = 1 /\ Len(open) > 0 /\ open[1].left = {}
         /\ open' \in Seq(OpenPass) /\ Len(open') = Len(open) - 1
         /\ \A j \in 1..Len(open') : open'[j] = open[j + 1]
<1>1. open \in Seq(OpenPass) /\ Len(open) \in Nat BY DEF TypeOK, OpenPass
<1>2. i \in 1..Len(open) /\ open[i].left = {} /\ Previous(i) BY DEF Count
<1>3. i = 1
  <2>1. ASSUME i # 1 PROVE FALSE
    <3>1. i - 1 \in 1..Len(open) /\ i > 1 BY <1>1, <1>2, <2>1
    <3> QED BY <1>2, <3>1 DEF Uncounted, Previous
  <2> QED BY <2>1
<1> DEFINE marked == [open EXCEPT ![1].counted = 1]
           Cut(k) == /\ \A j \in 1..k : marked[j].counted = 1
                     /\ k < Len(marked) => marked[k + 1].counted = 0
           n == CHOOSE k \in 0..Len(marked) : Cut(k)
<1>4. open[1] \in OpenPass BY <1>1, <1>2, <1>3
<1>5. marked \in Seq(OpenPass) /\ Len(marked) = Len(open)
  BY <1>1, <1>2, <1>3, <1>4 DEF OpenPass, Bit
<1>6. marked[1].counted = 1 /\ \A j \in 2..Len(open) : marked[j] = open[j]
  BY <1>1, <1>2, <1>3, <1>4 DEF OpenPass
<1>7. Cut(1)
  <2>1. 1 < Len(marked) => marked[2].counted = 0 BY <1>1, <1>5, <1>6 DEF Uncounted
  <2>2. \A j \in 1..1 : marked[j].counted = 1 BY <1>6
  <2> QED BY <2>1, <2>2
<1>8. 1 \in 0..Len(marked) BY <1>1, <1>2, <1>3, <1>5
<1>9. n \in 0..Len(marked) /\ Cut(n) BY <1>7, <1>8
<1>10. n = 1
  <2>1. n # 0
    <3>1. ASSUME n = 0 PROVE FALSE
      <4>1. marked[1].counted = 0 BY <1>1, <1>2, <1>3, <1>5, <1>9, <3>1
      <4> QED BY <1>6, <4>1
    <3> QED BY <3>1
  <2>2. ASSUME n > 1 PROVE FALSE
    <3>1. 2 \in 1..n /\ 2 \in 2..Len(open) BY <1>1, <1>5, <1>9, <2>2
    <3>2. marked[2].counted = 1 BY <1>9, <3>1
    <3>3. open[2].counted = 0 BY <1>1, <3>1 DEF Uncounted
    <3> QED BY <1>6, <3>1, <3>2, <3>3
  <2> QED BY <1>1, <1>5, <1>9, <2>1, <2>2
<1>11. open' = SubSeq(marked, 2, Len(marked))
  <2>1. open' = Trim(marked) BY <1>3 DEF Count
  <2>2. Trim(marked) = SubSeq(marked, n + 1, Len(marked)) BY DEF Trim
  <2> HIDE DEF n, marked
  <2> QED BY <1>10, <2>1, <2>2
<1>12. /\ open' \in Seq(OpenPass) /\ Len(open') = Len(marked) - 1
       /\ \A j \in 1..(Len(marked) - 1) : open'[j] = marked[j + 1]
  <2> HIDE DEF marked
  <2> QED BY <1>1, <1>2, <1>3, <1>5, <1>11
<1>13. \A j \in 1..(Len(open) - 1) : open'[j] = open[j + 1]
  <2>1. ASSUME NEW j \in 1..(Len(open) - 1) PROVE open'[j] = open[j + 1]
    <3>1. j + 1 \in 2..Len(open) BY <1>1
    <3> HIDE DEF marked
    <3> QED BY <1>1, <1>5, <1>6, <1>12, <3>1
  <2> QED BY <2>1
<1> QED BY <1>1, <1>2, <1>3, <1>5, <1>12, <1>13

-----------------------------------------------------------------------------
(* The inductive invariant.                                                *)

LEMMA InitIInv == Init => IInv
<1> SUFFICES ASSUME Init PROVE IInv
  OBVIOUS
<1>1. open = <<>> /\ Len(open) = 0 /\ open \in Seq(OpenPass) BY DEF Init
<1>2. TypeOK BY <1>1 DEF Init, TypeOK, Bit, OpenPass
<1>3. \A w \in Workloads : Holders(w) = {} BY <1>1 DEF Holders
<1>4. ClaimIsCounted BY <1>3 DEF Init, ClaimIsCounted
<1> QED
  BY <1>1, <1>2, <1>4 DEF IInv, Init, Uncounted, SpawnsActing, ListedSince, NoNewsLost,
     SubscriberTold

\* The steps of callers, drivers and the loop that touch no work.
Signalling ==
  \/ Commit \/ Notify \/ RuntimeChanges \/ VerdictChanges
  \/ StreamEnds \/ Rewatch \/ RewatchNotifies \/ RewatchFails
  \/ Wakes \/ TakeTick \/ CoalesceDrops \/ Cancel \/ TakeDone \/ Return
  \/ List \/ SubscriberReads

LEMMA SignallingIInv ==
  ASSUME IInv, Signalling
  PROVE  IInv'
<1> USE DEF IInv
<1>1. UNCHANGED <<todo, spawned, open, claims>>
  BY DEF Signalling, Commit, Notify, RuntimeChanges, VerdictChanges, StreamEnds, Rewatch,
     RewatchNotifies, RewatchFails, Wakes, TakeNudge, TakeVerdict, TakeEvent, CoalesceEnds, TakeTick,
     CoalesceDrops, Cancel, TakeDone, Return, List, SubscriberReads, work
<1>2. TypeOK'
  BY <1>1, PassLoopAssumption
  DEF Signalling, Commit, Notify, RuntimeChanges, VerdictChanges, StreamEnds, Rewatch,
      RewatchNotifies, RewatchFails, Wakes, TakeNudge, TakeVerdict, TakeEvent, CoalesceEnds, TakeTick,
      CoalesceDrops, Cancel, TakeDone, Return, List, SubscriberReads, channels, news, TypeOK, Bit
<1>3. SpawnsActing'
  BY <1>1
  DEF Signalling, Commit, Notify, RuntimeChanges, VerdictChanges, StreamEnds, Rewatch,
      RewatchNotifies, RewatchFails, Wakes, TakeNudge, TakeVerdict, TakeEvent, CoalesceEnds, TakeTick,
      CoalesceDrops, Cancel, TakeDone, Return, List, SubscriberReads, Selects, SpawnsActing
<1>4. NoNewsLost' /\ ListedSince'
  <2>1. CASE Commit BY <1>1, <2>1 DEF Commit, NoNewsLost, ListedSince, TypeOK
  <2>2. CASE Notify BY <1>1, <2>2 DEF Notify, NoNewsLost, ListedSince, news
  <2>3. CASE RuntimeChanges BY <1>1, <2>3 DEF RuntimeChanges, NoNewsLost, ListedSince, TypeOK
  <2>4. CASE VerdictChanges BY <1>1, <2>4 DEF VerdictChanges, NoNewsLost, ListedSince
  <2>5. CASE StreamEnds BY <1>1, <2>5 DEF StreamEnds, NoNewsLost, ListedSince, news, TypeOK, Bit
  <2>6. CASE Rewatch BY <1>1, <2>6 DEF Rewatch, NoNewsLost, ListedSince, news
  <2>7. CASE RewatchNotifies BY <1>1, <2>7 DEF RewatchNotifies, NoNewsLost, ListedSince, news
  <2>8. CASE RewatchFails BY <1>1, <2>8 DEF RewatchFails, NoNewsLost, ListedSince, news
  <2>9. CASE TakeNudge BY <1>1, <2>9 DEF TakeNudge, NoNewsLost, ListedSince, Selects, news
  <2>10. CASE TakeVerdict BY <1>1, <2>10 DEF TakeVerdict, NoNewsLost, ListedSince, Selects, news
  <2>11. CASE TakeEvent BY <1>1, <2>11 DEF TakeEvent, NoNewsLost, ListedSince, Selects, news
  <2>12. CASE CoalesceEnds BY <1>1, <2>12 DEF CoalesceEnds, NoNewsLost, ListedSince, channels, news
  <2>13. CASE TakeTick BY <1>1, <2>13 DEF TakeTick, NoNewsLost, ListedSince, Selects, channels, news
  <2>14. CASE CoalesceDrops BY <1>1, <2>14 DEF CoalesceDrops, NoNewsLost, ListedSince, news
  <2>15. CASE Cancel BY <1>1, <2>15 DEF Cancel, NoNewsLost, ListedSince, channels, news
  <2>16. CASE TakeDone BY <1>1, <2>16 DEF TakeDone, NoNewsLost, ListedSince, channels, news
  <2>17. CASE Return BY <1>1, <2>17 DEF Return, NoNewsLost, ListedSince, channels, news
  <2>18. CASE List BY <1>1, <2>18 DEF List, NoNewsLost, ListedSince, channels
  <2>19. CASE SubscriberReads BY <1>1, <2>19 DEF SubscriberReads, NoNewsLost, ListedSince, channels
  <2> QED
    BY <2>1, <2>2, <2>3, <2>4, <2>5, <2>6, <2>7, <2>8, <2>9, <2>10,
       <2>11, <2>12, <2>13, <2>14, <2>15, <2>16, <2>17, <2>18, <2>19 DEF Signalling, Wakes
<1>5. SubscriberTold'
  BY <1>1
  DEF Signalling, Commit, Notify, RuntimeChanges, VerdictChanges, StreamEnds, Rewatch,
      RewatchNotifies, RewatchFails, Wakes, TakeNudge, TakeVerdict, TakeEvent, CoalesceEnds, TakeTick,
      CoalesceDrops, Cancel, TakeDone, Return, List, SubscriberReads, Selects, channels, news,
      SubscriberTold, InPass
<1>6. Uncounted' /\ ClaimIsCounted' BY <1>1 DEF Uncounted, ClaimIsCounted, Holders
<1> QED BY <1>2, <1>3, <1>4, <1>5, <1>6

\* A pass that returns leaves what it spawned to be counted with it.
LEMMA CompleteIInv ==
  ASSUME IInv, NEW prune \in SUBSET Prunes, Complete(spawned \cup prune),
         loop \in {"list", "observe", "act"}, failed' \in Bit,
         failed' = 0 => loop = "act" /\ failed = 0 /\ (todo = {} \/ context = "cancelled"),
         UNCHANGED <<channels, claims, context, signal, news>>
  PROVE  IInv'
<1> USE DEF IInv
<1>1. spawned \cup prune \in SUBSET (Workloads \cup Prunes) BY DEF TypeOK
<1>2. /\ open' \in Seq(OpenPass) /\ open' # <<>>
      /\ Len(open') = Len(open) + 1 /\ Len(open) \in Nat
      /\ \A i \in 1..Len(open) : open'[i] = open[i]
      /\ open'[Len(open) + 1] = [left |-> spawned \cup prune, counted |-> 0]
  <2>1. open' = Append(open, [left |-> spawned \cup prune, counted |-> 0]) BY DEF Complete
  <2>2. Len(open) \in Nat BY DEF TypeOK
  <2> QED BY <1>1, <2>1, <2>2, AppendPass
<1>3. loop' = "select" /\ todo' = {} /\ spawned' = {} BY DEF Complete
<1>4. TypeOK' BY <1>2, <1>3 DEF TypeOK, OpenPass, channels, news
<1>5. Uncounted' BY <1>2 DEF Uncounted
<1>6. NoNewsLost' BY <1>3 DEF NoNewsLost, channels, news, TypeOK, Bit
<1>7. ASSUME NEW w \in Workloads
      PROVE  /\ w \in spawned => Holders(w)' = Holders(w) \cup {Len(open) + 1}
             /\ w \notin spawned => Holders(w)' = Holders(w)
  <2>1. w \notin prune BY PassLoopAssumption
  <2> QED BY <1>2, <2>1 DEF Holders
<1>8. ClaimIsCounted' BY <1>3, <1>7 DEF ClaimIsCounted
<1> QED BY <1>2, <1>3, <1>4, <1>5, <1>6, <1>8
  DEF SpawnsActing, ListedSince, SubscriberTold

\* A piece of work that ends leaves no pass waiting for it.
LEMMA WorkIInv ==
  ASSUME IInv, NEW w \in Workloads, claims[w] # "free",
         claims' = [claims EXCEPT ![w] = "free"], Done(w), unread' \in {unread, 1},
         UNCHANGED <<channels, loop, todo, context, signal, unlisted, unobserved, unheard, unacted,
                     skipped, failed>>
  PROVE  IInv'
<1> USE DEF IInv
<1>1. /\ open' \in Seq(OpenPass) /\ Len(open') = Len(open)
      /\ \A i \in 1..Len(open) : /\ open'[i].left = open[i].left \ {w}
                                 /\ open'[i].counted = open[i].counted
  BY DonePass
<1>2. spawned' = spawned \ {w} BY DEF Done
<1>3. TypeOK' BY <1>1, <1>2 DEF TypeOK, OpenPass, channels, Bit
<1>4. Uncounted' BY <1>1 DEF Uncounted
<1>5. SpawnsActing' BY <1>2 DEF SpawnsActing
<1>6. NoNewsLost' /\ ListedSince' BY DEF NoNewsLost, ListedSince, channels
<1>7. SubscriberTold'
  <2>1. open # <<>> \/ loop = "act"
    <3>1. CASE w \in spawned BY <3>1 DEF SpawnsActing
    <3>2. CASE w \notin spawned
      <4>1. PICK i \in Holders(w) : TRUE BY <3>2 DEF ClaimIsCounted
      <4>2. i \in 1..Len(open) BY <4>1 DEF Holders
      <4>3. Len(<<>>) = 0 OBVIOUS
      <4>4. 1..0 = {} OBVIOUS
      <4> QED BY <4>2, <4>3, <4>4
    <3> QED BY <3>1, <3>2
  <2>2. open # <<>> => open' # <<>> BY <1>1 DEF TypeOK
  <2> QED BY <2>1, <2>2 DEF SubscriberTold, InPass
<1>8. ASSUME NEW v \in Workloads
      PROVE  /\ v = w => Holders(v)' = {}
             /\ v # w => Holders(v)' = Holders(v)
  BY <1>1 DEF Holders
<1>9. ClaimIsCounted' BY <1>2, <1>8 DEF ClaimIsCounted, TypeOK
<1> QED BY <1>3, <1>4, <1>5, <1>6, <1>7, <1>9

\* The invariant is kept by every step.
LEMMA NextIInv == IInv /\ [Next]_vars => IInv'
<1> SUFFICES ASSUME IInv, [Next]_vars PROVE IInv'
  OBVIOUS
<1>1. CASE Signalling BY <1>1, SignallingIInv
<1>2. CASE Observe
  <2>1. UNCHANGED <<spawned, open, claims>> BY <1>2 DEF Observe
  <2>2. TypeOK' BY <1>2, PassLoopAssumption DEF IInv, Observe, TypeOK, channels, Bit
  <2>3. SpawnsActing' /\ ListedSince' /\ SubscriberTold'
    BY <1>2 DEF Observe, SpawnsActing, ListedSince, SubscriberTold
  <2>4. NoNewsLost'
    <3>1. /\ loop = "observe" /\ unobserved' = 0 /\ unheard' = 0 /\ UNCHANGED <<calling, nudge, unlisted>>
          /\ loop' = "act" /\ todo' = Workloads
      BY <1>2 DEF Observe, channels
    <3>2. unlisted = 1 => calling > 0 \/ nudge = 1 BY <3>1 DEF IInv, ListedSince
    <3>3. unacted' \subseteq Workloads BY <2>2 DEF TypeOK
    <3> QED BY <3>1, <3>2, <3>3 DEF NoNewsLost
  <2>5. Uncounted' /\ ClaimIsCounted' BY <2>1 DEF IInv, Uncounted, ClaimIsCounted, Holders
  <2> QED BY <2>2, <2>3, <2>4, <2>5 DEF IInv
<1>3. CASE PassFails
  <2>1. spawned = {} BY <1>3 DEF IInv, SpawnsActing, PassFails
  <2>2. Complete(spawned \cup {}) /\ {} \in SUBSET Prunes BY <1>3, <2>1 DEF PassFails
  <2> QED BY <1>3, <2>2, CompleteIInv DEF PassFails, Bit
<1>4. CASE PassReturns
  <2>1. PICK prune \in SUBSET Prunes : Complete(spawned \cup prune) BY <1>4 DEF PassReturns
  <2>2. failed' = failed /\ failed \in Bit BY <1>4 DEF PassReturns, IInv, TypeOK
  <2> QED BY <1>4, <2>1, <2>2, CompleteIInv DEF PassReturns
<1>5. ASSUME NEW w \in Workloads, Spawn(w) PROVE IInv'
  <2>1. /\ loop = "act" /\ todo' = todo \ {w} /\ unacted' \subseteq unacted
        /\ UNCHANGED <<channels, open, loop, context, signal, unlisted, unobserved, unheard, unread, failed>>
    BY <1>5 DEF Spawn
  <2>2. /\ claims[w] # "free" => /\ UNCHANGED <<spawned, claims, unacted>>
                                 /\ skipped' = skipped \cup (unacted \cap {w})
        /\ claims[w] = "free" => /\ spawned' = spawned \cup {w}
                                 /\ \E as \in {"queued", "sweeping"} :
                                      claims' = [claims EXCEPT ![w] = as]
                                 /\ unacted' = unacted \ {w} /\ skipped' = skipped
    BY <1>5 DEF Spawn
  <2>3. claims \in [Workloads -> {"free", "queued", "acting", "sweeping"}]
    BY DEF IInv, TypeOK
  <2>4. todo' \in SUBSET Workloads BY <1>5 DEF Spawn, IInv, TypeOK
  <2>5. /\ claims' \in [Workloads -> {"free", "queued", "acting", "sweeping"}]
        /\ spawned' \in SUBSET Workloads
    BY <2>2, <2>3 DEF IInv, TypeOK
  <2>6. TypeOK'
    <3>1. unacted' \subseteq Workloads /\ skipped' \subseteq Workloads BY <2>1, <2>2 DEF IInv, TypeOK
    <3> QED BY <2>1, <2>4, <2>5, <3>1 DEF IInv, TypeOK, channels
  <2>7. Uncounted' /\ SpawnsActing' BY <2>1 DEF IInv, Uncounted, SpawnsActing
  <2>8. NoNewsLost' /\ ListedSince'
    <3>1. ASSUME NEW v \in unacted', v \in todo \/ v \in skipped \/ context = "cancelled"
          PROVE  v \in todo' \/ v \in skipped' \/ context = "cancelled"
      BY <2>1, <2>2, <3>1
    <3> QED BY <2>1, <3>1 DEF IInv, NoNewsLost, ListedSince, channels
  <2>9. SubscriberTold' BY <2>1 DEF SubscriberTold, InPass
  <2>10. ClaimIsCounted'
    <3>1. CASE claims[w] # "free"
      BY <2>1, <2>2, <3>1 DEF IInv, ClaimIsCounted, Holders
    <3>2. CASE claims[w] = "free"
      <4>1. PICK as \in {"queued", "sweeping"} : claims' = [claims EXCEPT ![w] = as]
        BY <2>2, <3>2
      <4>2. \A v \in Workloads : Holders(v)' = Holders(v) BY <2>1 DEF Holders
      <4>3. \A v \in Workloads \ {w} : claims'[v] = claims[v] BY <2>3, <4>1
      <4>4. claims'[w] # "free" BY <2>3, <4>1
      <4>5. Holders(w) = {} BY <3>2 DEF IInv, ClaimIsCounted
      <4> QED BY <2>2, <3>2, <4>2, <4>3, <4>4, <4>5 DEF IInv, ClaimIsCounted
    <3> QED BY <3>1, <3>2
  <2> QED BY <2>6, <2>7, <2>8, <2>9, <2>10 DEF IInv
<1>6. ASSUME NEW i, Count(i) PROVE IInv'
  <2>1. /\ Len(open) > 0 /\ open[1].left = {} /\ Len(open) \in Nat
        /\ open' \in Seq(OpenPass) /\ Len(open') = Len(open) - 1
        /\ \A j \in 1..Len(open') : open'[j] = open[j + 1]
    BY <1>6, CountFirst DEF IInv, TypeOK
  <2>2. /\ signal' = 1
        /\ UNCHANGED <<channels, loop, todo, spawned, claims, context, news, failed>>
    BY <1>6 DEF Count
  <2>3. TypeOK' BY <2>1, <2>2 DEF IInv, TypeOK, OpenPass, Bit, channels, news
  <2>4. Uncounted' BY <2>1 DEF IInv, Uncounted
  <2>5. SpawnsActing' /\ SubscriberTold' BY <2>2 DEF IInv, SpawnsActing, SubscriberTold
  <2>6. NoNewsLost' /\ ListedSince' BY <2>2 DEF IInv, NoNewsLost, ListedSince, channels, news
  <2>7. ASSUME NEW w \in Workloads
        PROVE  Holders(w)' = {h - 1 : h \in Holders(w)}
    <3>1. ASSUME NEW h \in Holders(w) PROVE h - 1 \in Holders(w)'
      <4>1. h \in 1..Len(open) /\ w \in open[h].left BY DEF Holders
      <4>2. h # 1 BY <2>1, <4>1
      <4>3. h - 1 \in 1..Len(open') /\ (h - 1) + 1 = h BY <2>1, <4>1, <4>2
      <4>4. open'[h - 1] = open[h] BY <2>1, <4>3
      <4> QED BY <4>1, <4>3, <4>4 DEF Holders
    <3>2. ASSUME NEW j \in Holders(w)' PROVE \E h \in Holders(w) : j = h - 1
      <4>1. j \in 1..Len(open') /\ w \in open'[j].left BY DEF Holders
      <4>2. j + 1 \in 1..Len(open) /\ j = (j + 1) - 1 BY <2>1, <4>1
      <4>3. w \in open[j + 1].left BY <2>1, <4>1
      <4>4. j + 1 \in Holders(w) BY <4>2, <4>3 DEF Holders
      <4> QED BY <4>2, <4>4
    <3> QED BY <3>1, <3>2
  <2>8. ClaimIsCounted' BY <2>2, <2>7 DEF IInv, ClaimIsCounted
  <2> QED BY <2>3, <2>4, <2>5, <2>6, <2>8 DEF IInv
<1>7. ASSUME NEW w \in Workloads, TakeSlot(w) PROVE IInv'
  <2>1. /\ claims[w] = "queued" /\ claims' = [claims EXCEPT ![w] = "acting"]
        /\ UNCHANGED <<channels, loop, todo, spawned, open, context, signal, news, failed>>
    BY <1>7 DEF TakeSlot
  <2>2. TypeOK' BY <2>1 DEF IInv, TypeOK, channels, news
  <2>3. Uncounted' /\ SpawnsActing' BY <2>1 DEF IInv, Uncounted, SpawnsActing
  <2>4. NoNewsLost' /\ ListedSince' BY <2>1 DEF IInv, NoNewsLost, ListedSince, channels, news
  <2>5. SubscriberTold' BY <2>1 DEF IInv, SubscriberTold, InPass, news
  <2>6. \A v \in Workloads : claims'[v] = "free" <=> claims[v] = "free"
    BY <2>1 DEF IInv, TypeOK
  <2>7. ClaimIsCounted' BY <2>1, <2>6 DEF IInv, ClaimIsCounted, Holders
  <2> QED BY <2>2, <2>3, <2>4, <2>5, <2>7 DEF IInv
<1>8. ASSUME NEW w \in Workloads, WorkStep(w) PROVE IInv'
  BY <1>8, WorkIInv DEF WorkStep, Finish, GiveUp, news
<1>9. CASE PruneEnds
  <2>1. PICK i \in 1..Len(open) : \E prune \in open[i].left \cap Prunes :
          open' = [open EXCEPT ![i].left = @ \ {prune}]
    BY <1>9 DEF PruneEnds
  <2>2. PICK prune \in open[i].left \cap Prunes :
          open' = [open EXCEPT ![i].left = @ \ {prune}]
    BY <2>1
  <2>3. UNCHANGED <<channels, loop, todo, spawned, claims, context, signal, news, failed>>
    BY <1>9 DEF PruneEnds
  <2>4. open \in Seq(OpenPass) /\ Len(open) \in Nat BY DEF IInv, TypeOK, OpenPass
  <2>5. open[i] \in OpenPass BY <2>4
  <2>6. /\ [open[i] EXCEPT !.left = @ \ {prune}] \in OpenPass
        /\ [open[i] EXCEPT !.left = @ \ {prune}].left = open[i].left \ {prune}
        /\ [open[i] EXCEPT !.left = @ \ {prune}].counted = open[i].counted
    BY <2>5 DEF OpenPass
  <2>7. open' = [open EXCEPT ![i] = [open[i] EXCEPT !.left = @ \ {prune}]] BY <2>2
  <2>8. /\ open' \in Seq(OpenPass) /\ Len(open') = Len(open)
        /\ open'[i] = [open[i] EXCEPT !.left = @ \ {prune}]
        /\ \A j \in 1..Len(open) : j # i => open'[j] = open[j]
    BY <2>4, <2>6, <2>7
  <2>9. TypeOK' BY <2>3, <2>8 DEF IInv, TypeOK, OpenPass, channels, news
  <2>10. \A j \in 1..Len(open) : open'[j].counted = open[j].counted BY <2>6, <2>8
  <2>11. Uncounted' BY <2>8, <2>10 DEF IInv, Uncounted
  <2>12. SpawnsActing' BY <2>3 DEF IInv, SpawnsActing
  <2>13. NoNewsLost' /\ ListedSince' BY <2>3 DEF IInv, NoNewsLost, ListedSince, channels, news
  <2>14. open' # <<>> BY <2>4, <2>8
  <2>15. SubscriberTold' BY <2>14 DEF SubscriberTold
  <2>16. ASSUME NEW w \in Workloads PROVE Holders(w)' = Holders(w)
    <3>1. w # prune BY <2>2, PassLoopAssumption
    <3>2. \A j \in 1..Len(open) : w \in open'[j].left <=> w \in open[j].left
      BY <2>6, <2>8, <3>1
    <3> QED BY <2>8, <3>2 DEF Holders
  <2>17. ClaimIsCounted' BY <2>3, <2>16 DEF IInv, ClaimIsCounted
  <2> QED BY <2>9, <2>11, <2>12, <2>13, <2>15, <2>17 DEF IInv
<1>10. CASE UNCHANGED vars
  BY <1>10 DEF vars, IInv, TypeOK, Uncounted, SpawnsActing, ListedSince, NoNewsLost,
     SubscriberTold, InPass, ClaimIsCounted, Holders
<1> QED
  BY <1>1, <1>2, <1>3, <1>4, <1>5, <1>6, <1>7, <1>8, <1>9, <1>10
  DEF Next, Signalling, PassStep, Counts

-----------------------------------------------------------------------------
(* The theorems.                                                           *)

\* The inductive invariant holds of every behaviour of the loop.
THEOREM Invariance == Spec => []IInv
<1> QED BY InitIInv, NextIInv, PTL DEF Spec

\* The loop's state is always well typed: no channel that asks for a pass ever holds
\* more than the one signal its buffer has room for.
THEOREM PassLoopTypeCorrect == Spec => []TypeOK
<1>1. IInv => TypeOK BY DEF IInv
<1> QED BY <1>1, Invariance, PTL

\* The one-slot channels, the coalescing window and the rewatching leave no change to the
\* table, the runtime or a verdict to the ticker, and a pass begins a converge on all it has
\* read, but for a failed pass, a driver that refuses to be watched, and a workload whose
\* earlier converge the pass found at work.
THEOREM NoNewsLostHolds == Spec => []NoNewsLost
<1>1. IInv => NoNewsLost BY DEF IInv
<1> QED BY <1>1, Invariance, PTL

\* The number Passes() returns is a number of passes that have done all they set out
\* to do, however their converges and prunes overlap.
THEOREM CountMeansDoneHolds == Spec => []CountMeansDone
<1>1. ASSUME IInv PROVE CountMeansDone
  <2>1. {i \in 1..Len(open) : open[i].counted = 1} = {} BY <1>1 DEF IInv, Uncounted
  <2>2. Cardinality({}) = 0 BY FS_EmptySet
  <2>3. Cardinality({i \in 1..Len(open) : open[i].counted = 1}) = 0 BY <2>1, <2>2
  <2>4. 1..0 = {} OBVIOUS
  <2> QED BY <2>3, <2>4 DEF CountMeansDone
<1> QED BY <1>1, Invariance, PTL

\* What a converge changed never goes unseen by a subscriber that keeps reading.
THEOREM SubscriberToldHolds == Spec => []SubscriberTold
<1>1. IInv => SubscriberTold BY DEF IInv
<1> QED BY <1>1, Invariance, PTL

\* A claimed workload is the work of exactly one pass, whatever the number of passes
\* still open: begin and finish keep two of them from acting on it at once.
THEOREM ClaimIsCountedHolds == Spec => []ClaimIsCounted
<1>1. IInv => ClaimIsCounted BY DEF IInv
<1> QED BY <1>1, Invariance, PTL

(***************************************************************************)
(* Access.                                                                 *)
(***************************************************************************)

-----------------------------------------------------------------------------
(* The requests.                                                           *)

Call == [op : Ops \cup {"none"}, step : Steps, cred : Int, target : Nat, tag : Int,
         role : 0..3, who : [principal : Named, groups : SUBSET Groups],
         from : Nat, judged : Nat, alive : BOOLEAN]
Reading == [tag : Int, document : Document]

\* The identity a request was resolved to: an unexpired token of the table when it arrived, with
\* the role that a policy in force since then grants it.
Resolved(k) ==
  k.cred # 0 =>
    /\ k.cred > 0 /\ k.alive
    /\ \/ rows[k.cred].kind = Recovery
       \/ /\ k.judged \in k.from..Len(applied)
          /\ k.role = Evaluate(WrittenAt(k.judged), rows[k.cred].principal, rows[k.cred].groups)

\* A request in progress, and the policy that its client read before it.
CallOK(k, r) ==
  /\ k.cred \in -1..Len(rows) /\ k.target \in 0..Len(rows)
  /\ k.step \notin {"idle", "refused"} => k.op \in Ops
  /\ k.step \notin {"idle", "refused"} => (Good(k.cred) => k.alive)
  /\ k.step \notin {"idle", "refused"} => k.from <= Len(applied)
  /\ k.op = "apply" /\ k.step \notin {"idle", "refused"} => k.tag = r.tag
  /\ k.step = "evaluate" => k.cred > 0 /\ k.alive
  /\ k.step \in {"authorize"} \cup Handled => Resolved(k)
  /\ k.step \in Handled => Permitted(k)
  /\ k.step = "remove" => k.target > 0 /\ rows[k.target].kind # Recovery
  /\ k.step = "mint" /\ k.op = "login" =>
       /\ k.target > 0 /\ rows[k.target].source = "static"
       /\ k.who = [principal |-> rows[k.target].principal, groups |-> rows[k.target].groups]
  /\ r.tag \in -1..Len(applied) /\ r.document \in Document
  /\ r.tag >= 0 => r.document = WrittenAt(r.tag)

CallsOK == \A c \in Clients : CallOK(calls[c], reads[c])

\* A recovery token is init's and never expires.
RowsOK ==
  \A i \in 1..Len(rows) :
    rows[i].kind = Recovery => rows[i].source = "init" /\ rows[i].expires = 0

PolicyOK == policy.version = Len(applied) /\ policy.document = WrittenAt(Len(applied))

AInv == AccessTypeOK /\ CallsOK /\ RowsOK /\ PolicyOK /\ SessionsFromStatic /\ ResetConsumed

\* What every step does to the tables: a token is only ever added, and once out of the table does
\* not come back; a document is only ever added; the clock does not go back.
Grows ==
  /\ rows' = rows \/ \E t \in Token : rows' = Append(rows, t)
  /\ stored' \subseteq 1..Len(rows') /\ \A i \in 1..Len(rows) : i \in stored' => i \in stored
  /\ applied' = applied \/ \E d \in Document : applied' = Append(applied, d)
  /\ time' \in Nat /\ time <= time'

\* The step of one client's request.
Progress(c) ==
  /\ Grows
  /\ \E k \in Call, r \in Reading :
       /\ calls' = [calls EXCEPT ![c] = k] /\ reads' = [reads EXCEPT ![c] = r]
       /\ CallOK(k, r)'

-----------------------------------------------------------------------------
(* Facts about the operators.                                              *)

\* The role a policy grants is the highest of the grants that match.
LEMMA EvaluateHighest ==
  ASSUME NEW doc \in Document, NEW p, NEW gs
  PROVE  /\ Evaluate(doc, p, gs) \in 0..3
         /\ Evaluate(doc, p, gs) \in {0} \cup Granted(doc, p, gs)
         /\ \A s \in Granted(doc, p, gs) : s <= Evaluate(doc, p, gs)
<1> DEFINE G == Granted(doc, p, gs)
           Highest(r) == r \in {0} \cup G /\ \A s \in G : s <= r
<1>1. G \subseteq 1..3 BY DEF Granted, Document, Grant
<1>2. \E r \in 0..3 : Highest(r)
  <2>1. CASE 3 \in G BY <2>1, <1>1
  <2>2. CASE 3 \notin G /\ 2 \in G BY <2>2, <1>1
  <2>3. CASE 3 \notin G /\ 2 \notin G /\ 1 \in G BY <2>3, <1>1
  <2>4. CASE G = {} BY <2>4
  <2> QED BY <1>1, <2>1, <2>2, <2>3, <2>4
<1>3. Evaluate(doc, p, gs) = CHOOSE r \in 0..3 : Highest(r) BY DEF Evaluate
<1> HIDE DEF G, Highest
<1>4. Evaluate(doc, p, gs) \in 0..3 /\ Highest(Evaluate(doc, p, gs)) BY <1>2, <1>3
<1> QED BY <1>4 DEF Highest, G

LEMMA EmptyIsDocument == EmptyDocument \in Document
BY DEF EmptyDocument, Document

LEMMA WrittenIsDocument ==
  ASSUME AccessTypeOK, NEW k \in 0..Len(applied)
  PROVE  WrittenAt(k) \in Document
BY EmptyIsDocument DEF AccessTypeOK, WrittenAt

LEMMA RequestIsCall ==
  ASSUME NEW op \in Ops \cup {"none"}, NEW step \in Steps, NEW cred \in Int,
         NEW tag \in Int, NEW from \in Nat, NEW alive \in BOOLEAN
  PROVE  Request(op, step, cred, tag, from, alive) \in Call
BY DEF Request, Call, Named, Nobody

LEMMA NoCallIsCall == NoCall \in Call
<1>1. "none" \in Ops \cup {"none"} /\ "idle" \in Steps /\ 0 \in Int /\ 0 \in Nat BY DEF Steps
<1>2. FALSE \in BOOLEAN OBVIOUS
<1> QED BY <1>1, <1>2, RequestIsCall, Zenon DEF NoCall

\* What Grows leaves as it was.
LEMMA GrowsKeeps ==
  ASSUME AccessTypeOK, Grows
  PROVE  /\ rows \in Seq(Token) /\ rows' \in Seq(Token)
         /\ Len(rows) \in Nat /\ Len(rows') \in Nat /\ Len(rows) <= Len(rows')
         /\ \A i \in 1..Len(rows) : rows'[i] = rows[i]
         /\ applied \in Seq(Document) /\ applied' \in Seq(Document)
         /\ Len(applied) \in Nat /\ Len(applied') \in Nat /\ Len(applied) <= Len(applied')
         /\ \A k \in 0..Len(applied) : WrittenAt(k)' = WrittenAt(k)
<1>1. rows \in Seq(Token) /\ applied \in Seq(Document) BY DEF AccessTypeOK
<1>2. /\ rows' \in Seq(Token) /\ Len(rows) <= Len(rows')
      /\ \A i \in 1..Len(rows) : rows'[i] = rows[i]
  <2>1. CASE rows' = rows BY <1>1, <2>1
  <2>2. CASE \E t \in Token : rows' = Append(rows, t) BY <1>1, <2>2
  <2> QED BY <2>1, <2>2 DEF Grows
<1>3. /\ applied' \in Seq(Document) /\ Len(applied) <= Len(applied')
      /\ \A k \in 1..Len(applied) : applied'[k] = applied[k]
  <2>1. CASE applied' = applied BY <1>1, <2>1
  <2>2. CASE \E d \in Document : applied' = Append(applied, d) BY <1>1, <2>2
  <2> QED BY <2>1, <2>2 DEF Grows
<1>4. ASSUME NEW k \in 0..Len(applied) PROVE WrittenAt(k)' = WrittenAt(k)
  BY <1>1, <1>3 DEF WrittenAt
<1> QED BY <1>1, <1>2, <1>3, <1>4

\* What a request may rely on is not disturbed by the steps of others.
LEMMA CallStays ==
  ASSUME AccessTypeOK, Grows, NEW k \in Call, NEW r \in Reading, CallOK(k, r)
  PROVE  CallOK(k, r)'
<1> USE GrowsKeeps
<1>1. k.cred \in -1..Len(rows) /\ k.target \in 0..Len(rows) BY DEF CallOK
<1>2. k.cred > 0 => rows'[k.cred] = rows[k.cred] /\ rows[k.cred] \in Token BY <1>1 DEF Call
<1>3. k.target > 0 => rows'[k.target] = rows[k.target] BY <1>1 DEF Call
<1>4. /\ k.cred \in stored' => k.cred > 0 /\ k.cred \in stored
      /\ Good(k.cred)' => Good(k.cred)
  <2>1. k.cred \in stored' => k.cred > 0 /\ k.cred \in stored BY <1>1 DEF Grows, Call
  <2>2. time \in Nat /\ time' \in Nat /\ time <= time' BY DEF AccessTypeOK, Grows
  <2>3. k.cred > 0 => rows[k.cred].expires \in Nat BY <1>2 DEF Token
  <2> QED BY <2>1, <2>2, <2>3, <1>2 DEF Good, Expired
<1>6. Permitted(k) /\ Resolved(k) => Permitted(k)'
  BY <1>2 DEF Permitted, Resolved
<1>7. Resolved(k) => Resolved(k)'
  <2>1. SUFFICES ASSUME Resolved(k), k.cred # 0 PROVE Resolved(k)' BY DEF Resolved
  <2>2. k.cred > 0 /\ k.alive BY <2>1 DEF Resolved
  <2>3. CASE rows[k.cred].kind = Recovery BY <2>2, <2>3, <1>2 DEF Resolved
  <2>4. CASE /\ k.judged \in k.from..Len(applied)
             /\ k.role = Evaluate(WrittenAt(k.judged), rows[k.cred].principal, rows[k.cred].groups)
    <3>1. k.from \in Nat /\ k.judged \in 0..Len(applied) /\ k.judged \in k.from..Len(applied')
      BY <2>4 DEF Call
    <3>2. WrittenAt(k.judged)' = WrittenAt(k.judged) BY <3>1
    <3> QED BY <2>2, <2>4, <3>1, <3>2, <1>2 DEF Resolved
  <2> QED BY <2>1, <2>3, <2>4 DEF Resolved
<1>8. r.tag \in -1..Len(applied') /\ (r.tag >= 0 => r.document = WrittenAt(r.tag)')
  <2>1. r.tag \in -1..Len(applied) BY DEF CallOK
  <2>2. r.tag >= 0 => r.tag \in 0..Len(applied) BY <2>1
  <2> QED BY <2>1, <2>2 DEF CallOK
<1>9. k.step \in Handled => Resolved(k) /\ Permitted(k) BY DEF CallOK
<1>10. k.from <= Len(applied) => k.from <= Len(applied') BY DEF Call
<1>11. k.cred \in -1..Len(rows') /\ k.target \in 0..Len(rows') BY <1>1
<1> QED BY ONLY <1>2, <1>3, <1>4, <1>6, <1>7, <1>8, <1>9, <1>10, <1>11, CallOK(k, r) DEF CallOK

\* A request with nothing in progress asks for nothing.
LEMMA IdleIsOK ==
  ASSUME AccessTypeOK, NEW r \in Reading, r.tag \in -1..Len(applied),
         r.tag >= 0 => r.document = WrittenAt(r.tag)
  PROVE  CallOK(NoCall, r)
<1>1. Len(rows) \in Nat BY DEF AccessTypeOK
<1> QED BY <1>1 DEF CallOK, NoCall, Request, Handled, Reading

\* The requests of the others go on as they were.
LEMMA ProgressKeeps ==
  ASSUME AccessTypeOK, CallsOK, NEW c \in Clients, Progress(c)
  PROVE  /\ CallsOK' /\ calls' \in [Clients -> Call] /\ reads' \in [Clients -> Reading]
<1>1. PICK k \in Call, r \in Reading :
        /\ calls' = [calls EXCEPT ![c] = k] /\ reads' = [reads EXCEPT ![c] = r]
        /\ CallOK(k, r)'
  BY DEF Progress
<1>2. calls \in [Clients -> Call] /\ reads \in [Clients -> Reading]
  BY DEF AccessTypeOK, Call, Reading
<1>3. calls' \in [Clients -> Call] /\ reads' \in [Clients -> Reading] BY <1>1, <1>2
<1>4. ASSUME NEW d \in Clients PROVE CallOK(calls[d], reads[d])'
  <2>1. CASE d = c BY <2>1, <1>1, <1>2
  <2>2. CASE d # c
    <3>1. calls'[d] = calls[d] /\ reads'[d] = reads[d] BY <1>1, <1>2, <2>2
    <3>2. calls[d] \in Call /\ reads[d] \in Reading /\ CallOK(calls[d], reads[d])
      BY <1>2 DEF CallsOK
    <3>3. Grows BY DEF Progress
    <3>4. \A x \in Call, y \in Reading : CallOK(x, y) => CallOK(x, y)' BY <3>3, CallStays
    <3> QED BY <3>1, <3>2, <3>4
  <2> QED BY <2>1, <2>2
<1> QED BY <1>3, <1>4 DEF CallsOK

LEMMA AnsweredIsProgress ==
  ASSUME AccessTypeOK, NEW c \in Clients, Grows, Answered(c),
         NEW r \in Reading, reads' = [reads EXCEPT ![c] = r],
         r.tag \in -1..Len(applied'), r.tag >= 0 => r.document = WrittenAt(r.tag)'
  PROVE  Progress(c)
<1>1. Len(rows') \in Nat /\ Len(applied') \in Nat BY GrowsKeeps
<1>2. CallOK(NoCall, r)' BY <1>1 DEF CallOK, NoCall, Request, Handled, Reading
<1> QED BY <1>2, NoCallIsCall DEF Progress, Answered

\* A step that changes nothing but the request.
LEMMA QuietIsProgress ==
  ASSUME AccessTypeOK, CallsOK, NEW c \in Clients, UNCHANGED <<table, document, reads, time>>,
         NEW k \in Call, calls' = [calls EXCEPT ![c] = k], CallOK(k, reads[c])
  PROVE  Progress(c)
<1>1. Grows BY DEF Grows, AccessTypeOK, table, document
<1>2. reads[c] \in Reading BY DEF AccessTypeOK, Reading
<1>3. CallOK(k, reads[c])' 
  <2>1. \A x \in Call, y \in Reading : CallOK(x, y) => CallOK(x, y)' BY <1>1, CallStays
  <2>2. PICK y \in Reading : y = reads[c] BY <1>2
  <2>3. CallOK(k, y)' BY <2>1, <2>2
  <2>4. reads' = reads OBVIOUS
  <2> QED BY <2>2, <2>3, <2>4
<1>4. PICK r \in Reading : r = reads[c] BY <1>2
<1>5. reads' = [reads EXCEPT ![c] = r] BY <1>4 DEF AccessTypeOK
<1>6. CallOK(k, r)'
  <2>1. \A x \in Call, y \in Reading : CallOK(x, y) => CallOK(x, y)' BY <1>1, CallStays
  <2> QED BY <2>1, <1>4
<1> QED BY <1>1, <1>5, <1>6 DEF Progress

LEMMA UnchangingIsProgress ==
  ASSUME AccessTypeOK, CallsOK, NEW c \in Clients, UNCHANGED time, Unchanging(c)
  PROVE  Progress(c)
<1>1. reads[c] \in Reading /\ CallOK(calls[c], reads[c]) BY DEF AccessTypeOK, Reading, CallsOK
<1>2. CallOK(NoCall, reads[c]) BY <1>1, IdleIsOK DEF CallOK
<1> QED BY <1>2, NoCallIsCall, QuietIsProgress DEF Unchanging, Answered

\* A refusal ends the request.
LEMMA RefusedIsProgress ==
  ASSUME AccessTypeOK, CallsOK, NEW c \in Clients, UNCHANGED time, Refused(c)
  PROVE  Progress(c)
<1> DEFINE k == [NoCall EXCEPT !.step = "refused"]
<1>1. calls[c] \in Call /\ reads[c] \in Reading /\ CallOK(calls[c], reads[c])
  BY DEF AccessTypeOK, Call, Reading, CallsOK
<1>2. k \in Call /\ k.step = "refused" /\ k.cred = 0 /\ k.target = 0
  <2>1. "refused" \in Steps BY DEF Steps
  <2> QED BY <2>1, NoCallIsCall DEF Call, NoCall, Request
<1>3. calls' = [calls EXCEPT ![c] = k] BY DEF Refused
<1> HIDE DEF k
<1>4. Len(rows) \in Nat BY DEF AccessTypeOK
<1>5. CallOK(k, reads[c]) BY <1>1, <1>2, <1>4 DEF CallOK, Handled
<1> QED BY <1>2, <1>3, <1>5, QuietIsProgress DEF Refused

\* A request that goes on to its next step.
LEMMA ProceedsIsCall ==
  ASSUME NEW k \in Call, NEW step \in Steps
  PROVE  /\ [k EXCEPT !.step = step] \in Call /\ [k EXCEPT !.step = step].step = step
         /\ [k EXCEPT !.step = step].op = k.op /\ [k EXCEPT !.step = step].cred = k.cred
         /\ [k EXCEPT !.step = step].target = k.target /\ [k EXCEPT !.step = step].tag = k.tag
         /\ [k EXCEPT !.step = step].role = k.role /\ [k EXCEPT !.step = step].who = k.who
         /\ [k EXCEPT !.step = step].from = k.from /\ [k EXCEPT !.step = step].judged = k.judged
         /\ [k EXCEPT !.step = step].alive = k.alive
BY DEF Call

-----------------------------------------------------------------------------
(* The steps of a request.                                                 *)

LEMMA ArriveIsProgress ==
  ASSUME AInv, NEW c \in Clients, NEW op \in Asked, Arrive(c, op), UNCHANGED time
  PROVE  Progress(c)
<1>1. PICK bearer \in {Alien} \cup 0..Len(rows) :
        LET cred == IF bearer = 0 THEN Session(c) ELSE bearer
        IN  calls' = [calls EXCEPT ![c] =
              Request(op, IF cred = 0 THEN "authorize" ELSE "lookup", cred,
                      IF op = "apply" THEN reads[c].tag ELSE 0, Len(applied), Good(cred))]
  BY DEF Arrive
<1> DEFINE cred == IF bearer = 0 THEN Session(c) ELSE bearer
           k == Request(op, IF cred = 0 THEN "authorize" ELSE "lookup", cred,
                        IF op = "apply" THEN reads[c].tag ELSE 0, Len(applied), Good(cred))
<1>2. Len(rows) \in Nat /\ Len(applied) \in Nat /\ reads[c] \in Reading /\ CallOK(calls[c], reads[c])
  BY DEF AInv, AccessTypeOK, Reading, CallsOK
<1>3. Session(c) \in 0..Len(rows) BY <1>2 DEF AInv, AccessTypeOK, Session
<1>4. cred \in -1..Len(rows) /\ cred \in Int BY <1>2, <1>3 DEF Alien
<1>6. op \in Ops BY AccessAssumption
<1>7. Good(cred) \in BOOLEAN BY DEF Good
<1> HIDE DEF cred
<1>8. k \in Call
  <2>1. (IF cred = 0 THEN "authorize" ELSE "lookup") \in Steps BY DEF Steps
  <2>2. (IF op = "apply" THEN reads[c].tag ELSE 0) \in Int BY <1>2 DEF Reading
  <2> QED BY <1>2, <1>4, <1>6, <1>7, <2>1, <2>2, RequestIsCall
<1>9. /\ k.op = op /\ k.step = (IF cred = 0 THEN "authorize" ELSE "lookup") /\ k.cred = cred
      /\ k.target = 0 /\ k.tag = (IF op = "apply" THEN reads[c].tag ELSE 0)
      /\ k.from = Len(applied) /\ k.alive = Good(cred)
  BY DEF Request
<1>10. calls' = [calls EXCEPT ![c] = k] BY <1>1 DEF cred
<1> HIDE DEF k
<1>11. CallOK(k, reads[c])
  BY <1>2, <1>4, <1>6, <1>9 DEF CallOK, Handled, Resolved
<1> QED BY <1>8, <1>10, <1>11, QuietIsProgress DEF Arrive, AInv

LEMMA LookupIsProgress ==
  ASSUME AInv, NEW c \in Clients, Lookup(c), UNCHANGED time
  PROVE  Progress(c)
<1>1. /\ calls[c] \in Call /\ reads[c] \in Reading /\ CallOK(calls[c], reads[c])
      /\ calls[c].step = "lookup" /\ stored \subseteq 1..Len(rows) /\ Len(rows) \in Nat
  BY DEF AInv, AccessTypeOK, Call, Reading, CallsOK, Lookup, At
<1>2. CASE Good(calls[c].cred)
  <2> DEFINE step == IF rows[calls[c].cred].kind = Recovery THEN "authorize" ELSE "evaluate"
             k == [calls[c] EXCEPT !.step = step]
  <2>1. step \in Steps BY DEF Steps
  <2>2. calls' = [calls EXCEPT ![c] = k] BY <1>2 DEF Lookup, Proceeds
  <2>3. /\ k \in Call /\ k.step = step /\ k.op = calls[c].op /\ k.cred = calls[c].cred
        /\ k.target = calls[c].target /\ k.tag = calls[c].tag /\ k.from = calls[c].from
        /\ k.alive = calls[c].alive
    BY <1>1, <2>1, ProceedsIsCall
  <2>4. calls[c].cred > 0 /\ calls[c].alive BY <1>1, <1>2 DEF Good, CallOK
  <2> HIDE DEF k
  <2>5. CallOK(k, reads[c]) BY <1>1, <2>3, <2>4 DEF CallOK, Resolved, Handled
  <2> QED BY <1>2, <2>2, <2>3, <2>5, QuietIsProgress DEF Lookup, AInv
<1>3. CASE ~Good(calls[c].cred)
  <2>1. Refused(c) BY <1>3 DEF Lookup
  <2> QED BY <2>1, RefusedIsProgress DEF AInv
<1> QED BY <1>2, <1>3

LEMMA EvaluateIsProgress ==
  ASSUME AInv, NEW c \in Clients, EvaluateRole(c), UNCHANGED time
  PROVE  Progress(c)
<1> DEFINE row == rows[calls[c].cred]
           role == Evaluate(policy.document, row.principal, row.groups)
           k == [calls[c] EXCEPT !.step = "authorize", !.role = role, !.judged = Len(applied)]
<1>1. /\ calls[c] \in Call /\ reads[c] \in Reading /\ CallOK(calls[c], reads[c])
      /\ calls[c].step = "evaluate" /\ Len(applied) \in Nat /\ policy.document \in Document
  BY DEF AInv, AccessTypeOK, Call, Reading, CallsOK, EvaluateRole, At
<1>2. role \in 0..3 BY <1>1, EvaluateHighest
<1>3. calls' = [calls EXCEPT ![c] = k] BY DEF EvaluateRole
<1> HIDE DEF role
<1>4. /\ k \in Call /\ k.step = "authorize" /\ k.op = calls[c].op /\ k.cred = calls[c].cred
      /\ k.target = calls[c].target /\ k.tag = calls[c].tag /\ k.from = calls[c].from
      /\ k.alive = calls[c].alive /\ k.role = role /\ k.judged = Len(applied)
  BY <1>1, <1>2 DEF Call, Steps
<1>5. calls[c].cred > 0 /\ calls[c].alive /\ calls[c].from <= Len(applied) BY <1>1 DEF CallOK
<1> HIDE DEF k
<1>6. k.judged \in k.from..Len(applied) BY <1>1, <1>4, <1>5 DEF Call
<1>7. role = Evaluate(WrittenAt(k.judged), rows[k.cred].principal, rows[k.cred].groups)
  BY <1>4 DEF role, AInv, PolicyOK
<1>8. Resolved(k) BY <1>4, <1>5, <1>6, <1>7 DEF Resolved
<1>9. CallOK(k, reads[c]) BY <1>1, <1>4, <1>5, <1>8 DEF CallOK, Handled
<1> QED BY <1>3, <1>4, <1>9, QuietIsProgress DEF EvaluateRole, AInv

LEMMA AuthorizeIsProgress ==
  ASSUME AInv, NEW c \in Clients, Authorize(c), UNCHANGED time
  PROVE  Progress(c)
<1>1. /\ calls[c] \in Call /\ reads[c] \in Reading /\ CallOK(calls[c], reads[c])
      /\ calls[c].step = "authorize" /\ stored \subseteq 1..Len(rows)
  BY DEF AInv, AccessTypeOK, Call, Reading, CallsOK, Authorize, At
<1>2. CASE Permitted(calls[c])
  <2> DEFINE k == [calls[c] EXCEPT !.step = "handle"]
  <2>1. calls' = [calls EXCEPT ![c] = k] BY <1>2 DEF Authorize, Proceeds
  <2>2. /\ k \in Call /\ k.step = "handle" /\ k.op = calls[c].op /\ k.cred = calls[c].cred
        /\ k.target = calls[c].target /\ k.tag = calls[c].tag /\ k.from = calls[c].from
        /\ k.alive = calls[c].alive /\ k.role = calls[c].role /\ k.judged = calls[c].judged
    BY <1>1, ProceedsIsCall DEF Steps
  <2> HIDE DEF k
  <2>3. Permitted(k) BY <1>2, <2>2 DEF Permitted
  <2>4. Resolved(k) BY <1>1, <2>2 DEF CallOK, Resolved
  <2>5. CallOK(k, reads[c]) BY <1>1, <2>2, <2>3, <2>4 DEF CallOK, Handled
  <2> QED BY <1>2, <2>1, <2>2, <2>5, QuietIsProgress DEF Authorize, AInv
<1>3. CASE ~Permitted(calls[c])
  <2>1. Refused(c) BY <1>3 DEF Authorize
  <2> QED BY <2>1, RefusedIsProgress DEF AInv
<1> QED BY <1>2, <1>3

-----------------------------------------------------------------------------
(* The tokens and the policy.                                              *)

TableOK ==
  /\ rows \in Seq(Token) /\ stored \subseteq 1..Len(rows) /\ time \in Nat
  /\ cookies \in [Clients -> 0..Len(rows)] /\ RowsOK /\ SessionsFromStatic

DocumentOK ==
  /\ policy \in [version : Nat, document : Document] /\ applied \in Seq(Document) /\ PolicyOK

LEMMA TableKept ==
  ASSUME AInv, rows' = rows, stored' \subseteq stored, time' \in Nat, time <= time',
         cookies' \in [Clients -> 0..Len(rows)]
  PROVE  TableOK'
<1>1. rows \in Seq(Token) /\ time \in Nat /\ Len(rows) \in Nat BY DEF AInv, AccessTypeOK
<1>2. RowsOK' BY DEF AInv, RowsOK
<1>3. SessionsFromStatic'
  <2>1. SUFFICES ASSUME NEW i \in 1..Len(rows)
                 PROVE  rows[i].source \in {"session", "oidc"} => rows[i].expires \in 1..(time' + TTL)
    BY DEF AInv, SessionsFromStatic
  <2>2. rows[i].source \in {"session", "oidc"} => rows[i].expires \in 1..(time + TTL)
    BY DEF AInv, SessionsFromStatic
  <2> QED BY <1>1, <2>2, AccessAssumption
<1> QED BY <1>1, <1>2, <1>3 DEF AInv, AccessTypeOK, TableOK

LEMMA DocumentKept ==
  ASSUME AInv, UNCHANGED document
  PROVE  DocumentOK'
BY DEF AInv, AccessTypeOK, DocumentOK, PolicyOK, WrittenAt, document

\* A token minted is one more row, and the only one that is not as it was.
LEMMA MintedGrows ==
  ASSUME AInv, NEW kind \in {Recovery, Client}, NEW source \in {"init", "static", "oidc", "session", "workload"},
         NEW who \in [principal : Named, groups : SUBSET Groups], NEW expires \in Nat, NEW root \in Nat,
         Minted(kind, source, who, expires, root),
         kind = Recovery => source = "init" /\ expires = 0,
         source \in {"session", "oidc"} => expires \in 1..(time + TTL),
         source = "session" =>
           /\ root \in 1..Len(rows) /\ rows[root].source = "static"
           /\ who = [principal |-> rows[root].principal, groups |-> rows[root].groups],
         UNCHANGED <<time, applied>>, cookies' \in [Clients -> 0..(Len(rows) + 1)]
  PROVE  Grows /\ TableOK' /\ stored \subseteq stored'
<1> DEFINE t == [kind |-> kind, source |-> source, principal |-> who.principal,
                 groups |-> who.groups, expires |-> expires, root |-> root]
<1>1. rows \in Seq(Token) /\ time \in Nat /\ Len(rows) \in Nat /\ stored \subseteq 1..Len(rows)
  BY DEF AInv, AccessTypeOK
<1>2. t \in Token BY DEF Token
<1>3. rows' = Append(rows, t) /\ stored' = stored \cup {Len(rows) + 1} BY DEF Minted
<1>4. /\ t.kind = kind /\ t.source = source /\ t.principal = who.principal
      /\ t.groups = who.groups /\ t.expires = expires /\ t.root = root
  OBVIOUS
<1> HIDE DEF t
<1>5. /\ rows' \in Seq(Token) /\ Len(rows') = Len(rows) + 1
      /\ \A i \in 1..Len(rows) : rows'[i] = rows[i] /\ i \in 1..Len(rows')
      /\ rows'[Len(rows) + 1] = t
  BY <1>1, <1>2, <1>3
<1>9. stored' \subseteq 1..Len(rows')
  <2>1. Len(rows) + 1 \in 1..Len(rows') BY <1>1, <1>5
  <2>2. \A i \in stored : i \in 1..Len(rows') BY <1>1, <1>5
  <2> QED BY <1>3, <2>1, <2>2
<1>6. Grows
  <2>1. Len(rows) + 1 \notin 1..Len(rows) BY <1>1
  <2>2. \A i \in 1..Len(rows) : i \in stored' => i \in stored BY <1>3, <2>1
  <2>3. \E x \in Token : rows' = Append(rows, x) BY <1>2, <1>3
  <2> QED BY <1>1, <1>9, <2>2, <2>3 DEF Grows
<1>7. RowsOK'
  <2>1. ASSUME NEW i \in 1..Len(rows'), rows'[i].kind = Recovery
        PROVE  rows'[i].source = "init" /\ rows'[i].expires = 0
    <3>1. CASE i = Len(rows) + 1 BY <1>4, <1>5, <2>1, <3>1
    <3>2. CASE i \in 1..Len(rows) BY <1>5, <2>1, <3>2 DEF AInv, RowsOK
    <3> QED BY <1>1, <1>5, <3>1, <3>2
  <2> QED BY <2>1 DEF RowsOK
<1>8. SessionsFromStatic'
  <2>1. ASSUME NEW i \in 1..Len(rows')
        PROVE  /\ rows'[i].source \in {"session", "oidc"} => rows'[i].expires \in 1..(time + TTL)
               /\ rows'[i].source = "session" =>
                    /\ rows'[i].root \in 1..(i - 1)
                    /\ rows'[rows'[i].root].source = "static"
                    /\ rows'[rows'[i].root].principal = rows'[i].principal
                    /\ rows'[rows'[i].root].groups = rows'[i].groups
    <3>1. CASE i = Len(rows) + 1
      <4>1. rows'[i] = t BY <1>5, <3>1
      <4>2. source = "session" => rows'[root] = rows[root] /\ root \in 1..(i - 1)
        BY <1>1, <1>5, <3>1
      <4>3. source = "session" => who.principal = rows[root].principal /\ who.groups = rows[root].groups
        OBVIOUS
      <4> QED BY <1>4, <4>1, <4>2, <4>3
    <3>2. CASE i \in 1..Len(rows)
      <4>1. rows'[i] = rows[i] BY <1>5, <3>2
      <4>2. /\ rows[i].source \in {"session", "oidc"} => rows[i].expires \in 1..(time + TTL)
            /\ rows[i].source = "session" =>
                 /\ rows[i].root \in 1..(i - 1)
                 /\ rows[rows[i].root].source = "static"
                 /\ rows[rows[i].root].principal = rows[i].principal
                 /\ rows[rows[i].root].groups = rows[i].groups
        BY <3>2 DEF AInv, SessionsFromStatic
      <4>3. rows[i].source = "session" => rows'[rows[i].root] = rows[rows[i].root]
        <5>1. i \in Int /\ 1 <= i /\ i <= Len(rows) BY <1>1, <3>2
        <5>2. rows[i].source = "session" => rows[i].root \in 1..Len(rows) BY <1>1, <4>2, <5>1
        <5> QED BY <1>5, <5>2
      <4> QED BY <4>1, <4>2, <4>3
    <3> QED BY <1>1, <1>5, <3>1, <3>2
  <2> QED BY <2>1 DEF SessionsFromStatic
<1> QED BY <1>1, <1>3, <1>5, <1>6, <1>7, <1>8, <1>9 DEF TableOK

\* A request that is answered, with nothing read.
LEMMA AnsweredKeepsReads ==
  ASSUME AInv, NEW c \in Clients, Grows, Answered(c), UNCHANGED reads
  PROVE  Progress(c)
<1>1. reads[c] \in Reading /\ CallOK(calls[c], reads[c]) BY DEF AInv, AccessTypeOK, Reading, CallsOK
<1>2. PICK r \in Reading : r = reads[c] BY <1>1
<1>3. reads' = [reads EXCEPT ![c] = r] BY <1>2 DEF AInv, AccessTypeOK
<1>4. r.tag \in -1..Len(applied) /\ (r.tag >= 0 => r.document = WrittenAt(r.tag)) BY <1>1, <1>2 DEF CallOK
<1>5. r.tag >= 0 => r.tag \in 0..Len(applied) BY <1>4
<1>6. AccessTypeOK BY DEF AInv
<1>7. r.tag \in -1..Len(applied') /\ (r.tag >= 0 => r.document = WrittenAt(r.tag)')
  BY <1>4, <1>5, <1>6, GrowsKeeps
<1> QED BY <1>3, <1>6, <1>7, AnsweredIsProgress

-----------------------------------------------------------------------------
(* The handlers.                                                           *)

Keeps(c) == Progress(c) /\ TableOK' /\ DocumentOK'

\* What every step of a request may take from the invariant.
LEMMA InProgress ==
  ASSUME AInv, NEW c \in Clients
  PROVE  /\ calls \in [Clients -> Call] /\ reads \in [Clients -> Reading]
         /\ calls[c] \in Call /\ reads[c] \in Reading /\ CallOK(calls[c], reads[c])
         /\ rows \in Seq(Token) /\ Len(rows) \in Nat /\ stored \subseteq 1..Len(rows) /\ time \in Nat
         /\ applied \in Seq(Document) /\ Len(applied) \in Nat
         /\ cookies \in [Clients -> 0..Len(rows)]
         /\ AccessTypeOK /\ CallsOK
BY DEF AInv, AccessTypeOK, Call, Reading, CallsOK

LEMMA QuietKeeps ==
  ASSUME AInv, NEW c \in Clients, UNCHANGED <<table, document, cookies, reads, time>>
  PROVE  TableOK' /\ DocumentOK'
<1>1. rows' = rows /\ stored' \subseteq stored /\ cookies' = cookies /\ time' = time BY DEF table
<1>2. TableOK' BY <1>1, InProgress, TableKept
<1> QED BY <1>2, DocumentKept

LEMMA UnchangingKeeps ==
  ASSUME AInv, NEW c \in Clients, UNCHANGED time, Unchanging(c)
  PROVE  Keeps(c)
BY QuietKeeps, UnchangingIsProgress, InProgress DEF Unchanging, Keeps

LEMMA ShrinkKeeps ==
  ASSUME AInv, NEW c \in Clients, NEW gone, stored' = stored \ gone,
         UNCHANGED <<rows, time, document, reads>>, cookies' \in [Clients -> 0..Len(rows)], Answered(c)
  PROVE  Keeps(c)
<1>1. Grows BY InProgress DEF Grows, document
<1>2. Progress(c) BY <1>1, AnsweredKeepsReads
<1>3. TableOK' BY InProgress, TableKept
<1> QED BY <1>2, <1>3, DocumentKept DEF Keeps

LEMMA CreateKeeps ==
  ASSUME AInv, NEW c \in Clients, CreateToken(c), UNCHANGED time
  PROVE  Keeps(c)
<1>1. PICK p \in Principals : Minted(Client, "static", [principal |-> p, groups |-> {}], 0, 0)
  BY DEF CreateToken
<1> DEFINE who == [principal |-> p, groups |-> {}]
<1>2. who \in [principal : Named, groups : SUBSET Groups] BY DEF Named
<1> HIDE DEF who
<1>3. Minted(Client, "static", who, 0, 0) BY <1>1 DEF who
<1>4. cookies' \in [Clients -> 0..(Len(rows) + 1)] BY InProgress DEF CreateToken
<1>5. UNCHANGED <<time, applied>> BY DEF CreateToken, document
<1>6. Client # Recovery BY DEF Client, Recovery
<1>7. Grows /\ TableOK' BY <1>2, <1>3, <1>4, <1>5, <1>6, MintedGrows
<1>8. Progress(c) BY <1>7, AnsweredKeepsReads DEF CreateToken
<1> QED BY <1>7, <1>8, DocumentKept DEF CreateToken, Keeps

LEMMA FindKeeps ==
  ASSUME AInv, NEW c \in Clients, FindToken(c), UNCHANGED time
  PROVE  Keeps(c)
<1>0. PICK i \in {Alien} \cup 1..Len(rows) :
        IF i \in stored /\ rows[i].kind # Recovery
          THEN /\ calls' = [calls EXCEPT ![c] = [@ EXCEPT !.step = "remove", !.target = i]]
               /\ UNCHANGED <<cookies, reads, table, document>>
          ELSE Unchanging(c)
  BY DEF FindToken
<1>1. CASE i \in stored /\ rows[i].kind # Recovery
  <2> DEFINE k == [calls[c] EXCEPT !.step = "remove", !.target = i]
  <2>0. i \in 1..Len(rows) /\ i > 0 /\ i \in Nat BY <1>1, InProgress
  <2>1. calls' = [calls EXCEPT ![c] = k] BY <1>0, <1>1
  <2>2. /\ k \in Call /\ k.step = "remove" /\ k.op = calls[c].op /\ k.cred = calls[c].cred
        /\ k.target = i /\ k.tag = calls[c].tag /\ k.from = calls[c].from
        /\ k.alive = calls[c].alive /\ k.role = calls[c].role /\ k.judged = calls[c].judged
    BY <2>0, InProgress DEF Call, Steps
  <2>3. calls[c].step = "handle" BY DEF FindToken, AtHandler, At
  <2> HIDE DEF k
  <2>5. Permitted(k) /\ Resolved(k) BY <2>2, <2>3, InProgress DEF Permitted, Resolved, CallOK, Handled
  <2>4. i \in 0..Len(rows) /\ rows[i].kind # Recovery BY <1>1, <2>0, InProgress
  <2>6. CallOK(k, reads[c])
    <3>1. CallOK(calls[c], reads[c]) BY InProgress
    <3> QED BY ONLY <2>0, <2>2, <2>3, <2>4, <2>5, <3>1 DEF CallOK, Handled
  <2>7. UNCHANGED <<table, document, reads, cookies, time>> BY <1>0, <1>1
  <2>8. Progress(c) BY <2>1, <2>2, <2>6, <2>7, QuietIsProgress, InProgress
  <2> QED BY <2>7, <2>8, QuietKeeps DEF Keeps
<1>2. CASE ~(i \in stored /\ rows[i].kind # Recovery)
  <2>1. Unchanging(c) BY <1>0, <1>2
  <2> QED BY <2>1, UnchangingKeeps
<1> QED BY <1>1, <1>2

LEMMA ReadKeeps ==
  ASSUME AInv, NEW c \in Clients, GetACLPolicy(c), UNCHANGED time
  PROVE  Keeps(c)
<1>0. [tag |-> policy.version, document |-> policy.document] \in Reading
  BY DEF AInv, AccessTypeOK, Reading
<1>r. PICK r \in Reading : r = [tag |-> policy.version, document |-> policy.document] BY <1>0
<1>1. r \in Reading /\ r.tag = Len(applied) /\ r.document = WrittenAt(Len(applied))
  BY <1>r DEF AInv, PolicyOK
<1>2. reads' = [reads EXCEPT ![c] = r] BY <1>r DEF GetACLPolicy
<1>3. UNCHANGED <<table, document, cookies, time>> BY DEF GetACLPolicy
<1>4. Grows BY <1>3, InProgress DEF Grows, table, document
<1>5. WrittenAt(Len(applied))' = WrittenAt(Len(applied)) BY <1>3 DEF WrittenAt, document
<1>6. applied' = applied BY <1>3 DEF document
<1>7. r.tag \in -1..Len(applied') /\ (r.tag >= 0 => r.document = WrittenAt(r.tag)')
  BY <1>1, <1>5, <1>6, InProgress
<1>8. Answered(c) BY DEF GetACLPolicy
<1>9. Progress(c) BY <1>1, <1>2, <1>4, <1>7, <1>8, InProgress, AnsweredIsProgress
<1>10. TableOK' BY <1>3, InProgress, TableKept DEF table
<1> QED BY <1>3, <1>9, <1>10, DocumentKept DEF Keeps

LEMMA ApplyKeeps ==
  ASSUME AInv, NEW c \in Clients, ApplyACLPolicy(c), UNCHANGED time
  PROVE  Keeps(c)
<1>1. CASE Unchanging(c) BY <1>1, UnchangingKeeps
<1>2. ASSUME NEW doc \in Documents, policy.version = calls[c].tag,
             IF policy.version > 0 /\ policy.document = doc
               THEN UNCHANGED document
               ELSE /\ Len(applied) < MaxApplies
                    /\ policy' = [version |-> policy.version + 1, document |-> doc]
                    /\ applied' = Append(applied, doc),
             Told(c, doc), Answered(c), UNCHANGED <<table, cookies>>
      PROVE  Keeps(c)
  <2>1. doc \in Document BY AccessAssumption
  <2>2. policy.version = Len(applied) /\ policy.document = WrittenAt(Len(applied))
    BY DEF AInv, PolicyOK
  <2>3. /\ applied' = applied \/ applied' = Append(applied, doc)
        /\ DocumentOK' /\ policy'.document = doc
    <3>1. CASE policy.version > 0 /\ policy.document = doc
      BY <1>2, <3>1, DocumentKept DEF document
    <3>2. CASE ~(policy.version > 0 /\ policy.document = doc)
      <4>1. policy' = [version |-> policy.version + 1, document |-> doc] /\ applied' = Append(applied, doc)
        BY <1>2, <3>2
      <4>2. applied' \in Seq(Document) /\ Len(applied') = Len(applied) + 1 /\ applied'[Len(applied')] = doc
        BY <2>1, <4>1, InProgress
      <4>3. WrittenAt(Len(applied))' = doc BY <4>2, InProgress DEF WrittenAt
      <4> QED BY <2>1, <2>2, <4>1, <4>2, <4>3, InProgress DEF DocumentOK, PolicyOK
    <3> QED BY <3>1, <3>2
  <2>4. Grows BY <1>2, <2>1, <2>3, InProgress DEF Grows, table
  <2>0. [tag |-> policy'.version, document |-> doc] \in Reading
    BY <2>1, <2>3 DEF DocumentOK, Reading
  <2>r. PICK r \in Reading : r = [tag |-> policy'.version, document |-> doc] BY <2>0
  <2>5. r \in Reading /\ r.tag = Len(applied') /\ r.document = WrittenAt(Len(applied))'
    BY <2>r, <2>3 DEF DocumentOK, PolicyOK
  <2>6. reads' = [reads EXCEPT ![c] = r] \/ UNCHANGED reads BY <1>2, <2>r DEF Told
  <2>7. Len(applied') \in Nat BY <2>4, InProgress, GrowsKeeps
  <2>8. r.tag \in -1..Len(applied') /\ (r.tag >= 0 => r.document = WrittenAt(r.tag)')
    BY <2>5, <2>7
  <2>9. Progress(c)
    <3>1. CASE reads' = [reads EXCEPT ![c] = r]
      BY <1>2, <2>4, <2>5, <2>8, <3>1, InProgress, AnsweredIsProgress
    <3>2. CASE UNCHANGED reads BY <1>2, <2>4, <3>2, AnsweredKeepsReads
    <3> QED BY <2>6, <3>1, <3>2
  <2>10. TableOK' BY <1>2, InProgress, TableKept DEF table
  <2> QED BY <2>3, <2>9, <2>10 DEF Keeps
<1> QED BY <1>1, <1>2 DEF ApplyACLPolicy

\* A login that has found whom to mint a token for.
LEMMA FoundIsProgress ==
  ASSUME AInv, NEW c \in Clients, At(c, "handle"), UNCHANGED <<table, document, reads, cookies, time>>,
         NEW principal \in Named, NEW groups \in SUBSET Groups, NEW root \in 0..Len(rows),
         Found(c, principal, groups, root),
         calls[c].op = "login" =>
           /\ root > 0 /\ rows[root].source = "static"
           /\ principal = rows[root].principal /\ groups = rows[root].groups
  PROVE  Keeps(c)
<1> DEFINE w == [principal |-> principal, groups |-> groups]
           k == [calls[c] EXCEPT !.step = "mint", !.target = root, !.who = w]
<1>1. calls' = [calls EXCEPT ![c] = k] BY DEF Found
<1>2. w \in [principal : Named, groups : SUBSET Groups] OBVIOUS
<1>0. root \in Nat BY InProgress
<1> HIDE DEF w
<1>3. /\ k \in Call /\ k.step = "mint" /\ k.op = calls[c].op /\ k.cred = calls[c].cred
      /\ k.target = root /\ k.tag = calls[c].tag /\ k.from = calls[c].from
      /\ k.alive = calls[c].alive /\ k.role = calls[c].role /\ k.judged = calls[c].judged
      /\ k.who = w
  BY <1>0, <1>2, InProgress DEF Call, Steps
<1>4. calls[c].step = "handle" BY DEF At
<1> HIDE DEF k
<1>5. Permitted(k) /\ Resolved(k) BY <1>3, <1>4, InProgress DEF Permitted, Resolved, CallOK, Handled
<1>6. k.op = "login" => /\ k.target > 0 /\ rows[k.target].source = "static"
                        /\ k.who = [principal |-> rows[k.target].principal, groups |-> rows[k.target].groups]
  BY <1>3 DEF w
<1>7. CallOK(k, reads[c]) BY <1>3, <1>4, <1>5, <1>6, InProgress DEF CallOK, Handled
<1>8. Progress(c) BY <1>1, <1>3, <1>7, QuietIsProgress, InProgress
<1> QED BY <1>8, QuietKeeps DEF Keeps

LEMMA LoginTokenKeeps ==
  ASSUME AInv, NEW c \in Clients, LoginToken(c), UNCHANGED time
  PROVE  Keeps(c)
<1>0. PICK i \in {Alien} \cup 1..Len(rows) :
        IF Good(i) /\ rows[i].source = "static"
          THEN /\ Found(c, rows[i].principal, rows[i].groups, i)
               /\ UNCHANGED <<cookies, reads, table, document>>
          ELSE Refused(c)
  BY DEF LoginToken
<1>1. CASE Good(i) /\ rows[i].source = "static"
  <2>1. i \in 1..Len(rows) BY <1>1, InProgress DEF Good
  <2>2. rows[i] \in Token BY <2>1, InProgress
  <2>3. rows[i].principal \in Named /\ rows[i].groups \in SUBSET Groups BY <2>2 DEF Token
  <2>4. /\ Found(c, rows[i].principal, rows[i].groups, i) /\ At(c, "handle")
        /\ UNCHANGED <<table, document, reads, cookies, time>>
    BY <1>0, <1>1 DEF LoginToken, AtHandler
  <2>5. i > 0 /\ i \in 0..Len(rows) BY <2>1, InProgress
  <2> QED BY <1>1, <2>3, <2>4, <2>5, FoundIsProgress
<1>2. CASE ~(Good(i) /\ rows[i].source = "static")
  <2>1. Refused(c) BY <1>0, <1>2
  <2>2. Progress(c) BY <2>1, RefusedIsProgress, InProgress
  <2> QED BY <2>1, <2>2, QuietKeeps DEF Keeps, Refused
<1> QED BY <1>1, <1>2

LEMMA LoginOIDCKeeps ==
  ASSUME AInv, NEW c \in Clients, LoginOIDC(c), UNCHANGED time
  PROVE  Keeps(c)
<1>1. calls[c].step # "idle" /\ calls[c].op = "oidc" /\ At(c, "handle") BY DEF LoginOIDC, AtHandler, At
<1>2. CASE Refused(c)
  <2>1. Progress(c) BY <1>1, <1>2, RefusedIsProgress, InProgress
  <2> QED BY <1>2, <2>1, QuietKeeps DEF Keeps, Refused
<1>3. ASSUME NEW i \in Identities,
             Found(c, i[policy.document.claim], IF policy.document.groupsClaim THEN i.groups ELSE {},
                   0),
             UNCHANGED <<cookies, reads, table, document>>
      PROVE  Keeps(c)
  <2>1. policy.document \in Document BY DEF AInv, AccessTypeOK
  <2>2. i \in Identity BY AccessAssumption
  <2>3. i["email"] \in Named /\ i["sub"] \in Named /\ i.groups \in SUBSET Groups BY <2>2 DEF Identity
  <2>4. policy.document.claim \in {"email", "sub"} BY <2>1 DEF Document
  <2>5. i[policy.document.claim] \in Named BY <2>3, <2>4
  <2>6. (IF policy.document.groupsClaim THEN i.groups ELSE {}) \in SUBSET Groups BY <2>3
  <2>7. calls[c].op # "login" /\ 0 \in 0..Len(rows) BY <1>1, InProgress
  <2> QED BY <1>1, <1>3, <2>5, <2>6, <2>7, FoundIsProgress
<1> QED BY <1>2, <1>3 DEF LoginOIDC

LEMMA MintLoginKeeps ==
  ASSUME AInv, NEW c \in Clients, MintLogin(c), UNCHANGED time
  PROVE  Keeps(c)
<1> DEFINE source == IF calls[c].op = "login" THEN "session" ELSE "oidc"
<1>1. Minted(Client, source, calls[c].who, time + TTL, calls[c].target) BY DEF MintLogin
<1>2. calls[c].step = "mint" BY DEF MintLogin, At
<1>3. calls[c].who \in [principal : Named, groups : SUBSET Groups] /\ calls[c].target \in Nat
  BY InProgress DEF Call
<1>4. source \in {"oidc", "session"} OBVIOUS
<1>5. source = "session" =>
        /\ calls[c].target \in 1..Len(rows) /\ rows[calls[c].target].source = "static"
        /\ calls[c].who = [principal |-> rows[calls[c].target].principal,
                           groups |-> rows[calls[c].target].groups]
  BY <1>2, InProgress DEF CallOK
<1> HIDE DEF source
<1>6. time + TTL \in Nat /\ time + TTL \in 1..(time + TTL) BY InProgress, AccessAssumption
<1>7. cookies' \in [Clients -> 0..(Len(rows) + 1)]
  <2>1. PICK kept \in BOOLEAN :
          cookies' = IF kept THEN [cookies EXCEPT ![c] = Len(rows) + 1] ELSE cookies
    BY DEF MintLogin
  <2>2. Len(rows) + 1 \in 0..(Len(rows) + 1) /\ cookies \in [Clients -> 0..(Len(rows) + 1)]
    BY InProgress
  <2> QED BY <2>1, <2>2
<1>8. UNCHANGED <<time, applied>> BY DEF MintLogin, document
<1>9. Client # Recovery BY DEF Client, Recovery
<1>10. Grows /\ TableOK' BY <1>1, <1>3, <1>4, <1>5, <1>6, <1>7, <1>8, <1>9, MintedGrows
<1>11. Progress(c) BY <1>10, AnsweredKeepsReads DEF MintLogin
<1> QED BY <1>10, <1>11, DocumentKept DEF MintLogin, Keeps

LEMMA InitACLKeeps ==
  ASSUME AInv, NEW c \in Clients, InitACL(c), UNCHANGED time
  PROVE  Keeps(c)
<1>1. CASE Unchanging(c) BY <1>1, UnchangingKeeps
<1>2. CASE /\ Minted(Recovery, "init", Nobody, 0, 0) /\ Answered(c)
           /\ UNCHANGED <<document, cookies, reads>>
  <2>1. Nobody \in [principal : Named, groups : SUBSET Groups] BY DEF Nobody, Named
  <2>2. cookies' \in [Clients -> 0..(Len(rows) + 1)] BY <1>2, InProgress
  <2>3. UNCHANGED <<time, applied>> BY <1>2 DEF document
  <2>4. Grows /\ TableOK' BY <1>2, <2>1, <2>2, <2>3, MintedGrows
  <2>5. Progress(c) BY <1>2, <2>4, AnsweredKeepsReads
  <2> QED BY <1>2, <2>4, <2>5, DocumentKept DEF Keeps
<1> QED BY <1>1, <1>2 DEF InitACL

LEMMA RequestKeeps ==
  ASSUME AInv, NEW c \in Clients, RequestStep(c)
  PROVE  Keeps(c)
<1> UNCHANGED time /\ UNCHANGED host BY DEF RequestStep
<1>1. ASSUME Progress(c), UNCHANGED <<cookies, reads, table, document>> PROVE Keeps(c)
  BY <1>1, QuietKeeps DEF Keeps
<1>2. CASE \E op \in Asked : Arrive(c, op) BY <1>1, <1>2, ArriveIsProgress DEF Arrive
<1>3. CASE Lookup(c) BY <1>1, <1>3, LookupIsProgress DEF Lookup, Unchanging, Refused
<1>4. CASE EvaluateRole(c) BY <1>1, <1>4, EvaluateIsProgress DEF EvaluateRole
<1>5. CASE Authorize(c) BY <1>1, <1>5, AuthorizeIsProgress DEF Authorize, Refused
<1>6. CASE Serve(c) BY <1>6, UnchangingKeeps DEF Serve
<1>7. CASE CreateToken(c) BY <1>7, CreateKeeps
<1>8. CASE FindToken(c) BY <1>8, FindKeeps
<1>9. CASE RemoveToken(c)
  <2>1. cookies' \in [Clients -> 0..Len(rows)] BY <1>9, InProgress DEF RemoveToken
  <2> QED BY <1>9, <2>1, ShrinkKeeps DEF RemoveToken
<1>10. CASE GetACLPolicy(c) BY <1>10, ReadKeeps
<1>11. CASE ApplyACLPolicy(c) BY <1>11, ApplyKeeps
<1>12. CASE Logout(c)
  <2>1. CASE Unchanging(c) BY <2>1, UnchangingKeeps
  <2>2. CASE /\ stored' = stored \ {calls[c].cred} /\ cookies' = [cookies EXCEPT ![c] = 0]
             /\ Answered(c) /\ UNCHANGED <<rows, document, reads>>
    <3>1. cookies' \in [Clients -> 0..Len(rows)] BY <2>2, InProgress
    <3> QED BY <2>2, <3>1, ShrinkKeeps
  <2> QED BY <1>12, <2>1, <2>2 DEF Logout
<1>13. CASE LoginToken(c) BY <1>13, LoginTokenKeeps
<1>14. CASE LoginOIDC(c) BY <1>14, LoginOIDCKeeps
<1>15. CASE MintLogin(c) BY <1>15, MintLoginKeeps
<1>16. CASE InitACL(c) BY <1>16, InitACLKeeps
<1>17. CASE RequestFails(c) BY <1>17, UnchangingKeeps DEF RequestFails
<1>18. CASE Receive(c) BY <1>18, UnchangingKeeps DEF Receive, Unchanging, Answered
<1> QED BY <1>2, <1>3, <1>4, <1>5, <1>6, <1>7, <1>8, <1>9, <1>10, <1>11, <1>12, <1>13, <1>14,
           <1>15, <1>16, <1>17, <1>18 DEF RequestStep

LEMMA StepOfRequest ==
  ASSUME AInv, NEW c \in Clients, RequestStep(c)
  PROVE  AInv'
<1>1. Keeps(c) BY RequestKeeps
<1>2. CallsOK' /\ calls' \in [Clients -> Call] /\ reads' \in [Clients -> Reading]
  BY <1>1, ProgressKeeps, InProgress DEF Keeps
<1>3. UNCHANGED host BY DEF RequestStep
<1>4. ResetConsumed' BY <1>3 DEF AInv, ResetConsumed, host
<1>5. AccessTypeOK'
  BY <1>1, <1>2, <1>3 DEF Keeps, TableOK, DocumentOK, AInv, AccessTypeOK, host, Call, Reading
<1> QED BY <1>1, <1>2, <1>4, <1>5 DEF Keeps, TableOK, DocumentOK, AInv

\* A step of the host or of the table, with the requests as they were.
LEMMA StepOfHost ==
  ASSUME AInv, Grows, TableOK', UNCHANGED <<document, requests>>,
         server' \in {"down", "resetting", "up"}, resetFile' \in BOOLEAN, armed' \in BOOLEAN,
         ResetConsumed'
  PROVE  AInv'
<1>1. calls \in [Clients -> Call] /\ reads \in [Clients -> Reading] /\ AccessTypeOK /\ CallsOK
  BY DEF AInv, AccessTypeOK, Call, Reading
<1>2. calls' = calls /\ reads' = reads /\ cookies' = cookies BY DEF requests
<1>3. CallsOK'
  <2>1. \A x \in Call, y \in Reading : CallOK(x, y) => CallOK(x, y)' BY <1>1, CallStays
  <2> QED BY <1>1, <1>2, <2>1 DEF CallsOK
<1>4. DocumentOK' BY DocumentKept
<1>5. AccessTypeOK' BY <1>1, <1>2, <1>4 DEF AccessTypeOK, TableOK, DocumentOK, Call, Reading
<1> QED BY <1>3, <1>4, <1>5 DEF AInv, TableOK, DocumentOK

LEMMA AccessStep == AInv /\ [AccessNext]_accessVars => AInv'
<1> SUFFICES ASSUME AInv, [AccessNext]_accessVars PROVE AInv' OBVIOUS
<1>f. /\ rows \in Seq(Token) /\ Len(rows) \in Nat /\ stored \subseteq 1..Len(rows) /\ time \in Nat
      /\ cookies \in [Clients -> 0..Len(rows)] /\ applied \in Seq(Document)
      /\ server \in {"down", "resetting", "up"} /\ resetFile \in BOOLEAN /\ armed \in BOOLEAN
      /\ ResetConsumed
  BY DEF AInv, AccessTypeOK
<1>k. ASSUME rows' = rows, stored' \subseteq stored, time' \in Nat, time <= time',
             UNCHANGED <<document, requests>>
      PROVE  Grows /\ TableOK'
  <2>1. Grows BY <1>k, <1>f DEF Grows, document
  <2>2. cookies' \in [Clients -> 0..Len(rows)] BY <1>k, <1>f DEF requests
  <2> QED BY <1>k, <2>1, <2>2, TableKept
<1>1. CASE \E c \in Clients : RequestStep(c) BY <1>1, StepOfRequest
<1>2. CASE SweepTokens
  <2>1. Grows /\ TableOK' BY <1>2, <1>f, <1>k DEF SweepTokens
  <2> QED BY <1>2, <1>f, <2>1, StepOfHost DEF SweepTokens, host, ResetConsumed
<1>3. CASE WorkloadStarts
  <2>1. PICK p \in Hosted : Minted(Client, "workload", [principal |-> p, groups |-> {}], 0, 0)
    BY <1>3 DEF WorkloadStarts
  <2> DEFINE who == [principal |-> p, groups |-> {}]
  <2>2. who \in [principal : Named, groups : SUBSET Groups] BY AccessAssumption DEF Named
  <2> HIDE DEF who
  <2>3. Minted(Client, "workload", who, 0, 0) BY <2>1 DEF who
  <2>4. cookies' \in [Clients -> 0..(Len(rows) + 1)] BY <1>3, <1>f DEF WorkloadStarts, requests
  <2>5. UNCHANGED <<time, applied>> BY <1>3 DEF WorkloadStarts, document
  <2>6. Client # Recovery BY DEF Client, Recovery
  <2>7. Grows /\ TableOK' BY <2>2, <2>3, <2>4, <2>5, <2>6, MintedGrows
  <2> QED BY <1>3, <1>f, <2>7, StepOfHost DEF WorkloadStarts, host, ResetConsumed
<1>4. CASE WorkloadStops
  <2>1. Grows /\ TableOK' BY <1>4, <1>f, <1>k DEF WorkloadStops
  <2> QED BY <1>4, <1>f, <2>1, StepOfHost DEF WorkloadStops, host, ResetConsumed
<1>5. CASE ClockTicks
  <2>1. Grows /\ TableOK' BY <1>5, <1>f, <1>k DEF ClockTicks, table
  <2> QED BY <1>5, <1>f, <2>1, StepOfHost DEF ClockTicks, host, ResetConsumed
<1>6. CASE WriteReset
  <2>1. Grows /\ TableOK' BY <1>6, <1>f, <1>k DEF WriteReset, table
  <2> QED BY <1>6, <1>f, <2>1, StepOfHost DEF WriteReset, ResetConsumed
<1>7. CASE BootPlain
  <2>1. Grows /\ TableOK' BY <1>7, <1>f, <1>k DEF BootPlain, ComesUp, table
  <2> QED BY <1>7, <1>f, <2>1, StepOfHost DEF BootPlain, ComesUp, ResetConsumed
<1>8. CASE BootReset
  <2>1. Grows /\ TableOK' BY <1>8, <1>f, <1>k DEF BootReset
  <2> QED BY <1>8, <1>f, <2>1, StepOfHost DEF BootReset, ResetConsumed
<1>9. CASE BootRemove
  <2>1. Grows /\ TableOK' BY <1>9, <1>f, <1>k DEF BootRemove, ComesUp, table
  <2> QED BY <1>9, <1>f, <2>1, StepOfHost DEF BootRemove, ComesUp, ResetConsumed
<1>10. CASE ServerStops
  <2>1. UNCHANGED <<rows, stored, time, document, cookies, reads, resetFile, armed>> /\ server' = "down"
    BY <1>10 DEF ServerStops, table
  <2>2. Grows BY <1>f, <2>1 DEF Grows, document
  <2>3. TableOK' BY <1>f, <2>1, TableKept
  <2>4. calls' = [c \in Clients |-> NoCall] BY <1>10 DEF ServerStops
  <2>5. ASSUME NEW c \in Clients PROVE CallOK(calls[c], reads[c])'
    <3>1. reads[c] \in Reading /\ CallOK(calls[c], reads[c]) /\ AccessTypeOK BY InProgress
    <3>2. CallOK(NoCall, reads[c]) BY <3>1, IdleIsOK DEF CallOK
    <3>3. \A x \in Call, y \in Reading : CallOK(x, y) => CallOK(x, y)' BY <2>2, <3>1, CallStays
    <3>4. calls'[c] = NoCall /\ reads'[c] = reads[c] BY <2>1, <2>4
    <3> QED BY <3>1, <3>2, <3>3, <3>4, NoCallIsCall
  <2>6. CallsOK' BY <2>5 DEF CallsOK
  <2>7. DocumentOK' BY <2>1, DocumentKept
  <2>8. calls' \in [Clients -> Call] BY <2>4, NoCallIsCall
  <2>9. AccessTypeOK'
    BY <1>f, <2>1, <2>3, <2>7, <2>8 DEF AInv, AccessTypeOK, TableOK, DocumentOK, Call, Reading
  <2>10. ResetConsumed' BY <2>1 DEF ResetConsumed
  <2> QED BY <2>3, <2>6, <2>7, <2>9, <2>10 DEF AInv, TableOK, DocumentOK
<1>11. CASE UNCHANGED accessVars
  <2>1. UNCHANGED <<rows, stored, time, document, requests, server, resetFile, armed>>
    BY <1>11 DEF accessVars, table, host
  <2>2. Grows /\ TableOK' BY <1>f, <1>k, <2>1
  <2> QED BY <1>f, <2>1, <2>2, StepOfHost DEF ResetConsumed
<1> QED BY <1>1, <1>2, <1>3, <1>4, <1>5, <1>6, <1>7, <1>8, <1>9, <1>10, <1>11 DEF AccessNext

LEMMA AccessStarts == AccessInit => AInv
<1> SUFFICES ASSUME AccessInit PROVE AInv OBVIOUS
<1>1. Len(rows) = 0 /\ Len(applied) = 0 /\ rows \in Seq(Token) /\ applied \in Seq(Document)
  BY DEF AccessInit
<1>2. calls \in [Clients -> Call] BY NoCallIsCall DEF AccessInit
<1>3. reads \in [Clients -> Reading] /\ policy \in [version : Nat, document : Document]
  BY EmptyIsDocument DEF AccessInit, Reading
<1>a. stored \subseteq 1..Len(rows) /\ time \in Nat /\ cookies \in [Clients -> 0..Len(rows)]
  BY <1>1 DEF AccessInit
<1>b. server \in {"down", "resetting", "up"} /\ resetFile \in BOOLEAN /\ armed \in BOOLEAN
  BY DEF AccessInit
<1>4. AccessTypeOK BY <1>1, <1>2, <1>3, <1>a, <1>b DEF AccessTypeOK, Call, Reading
<1>5. CallsOK
  <2>1. SUFFICES ASSUME NEW c \in Clients PROVE CallOK(calls[c], reads[c]) BY DEF CallsOK
  <2>2. calls[c] = NoCall /\ reads[c].tag = -1 /\ reads[c] \in Reading BY <1>3 DEF AccessInit
  <2> QED BY <1>1, <1>4, <2>2, IdleIsOK
<1> QED BY <1>1, <1>4, <1>5 DEF AInv, RowsOK, PolicyOK, WrittenAt, SessionsFromStatic, ResetConsumed, AccessInit

LEMMA AccessInvariant == AccessSpec => []AInv
BY AccessStarts, AccessStep, PTL DEF AccessSpec

-----------------------------------------------------------------------------
(* What the invariant gives.                                               *)

\* The tables, the policy and the requests keep their shapes.
THEOREM AccessTyped == AccessSpec => []AccessTypeOK
<1>1. AInv => AccessTypeOK BY DEF AInv
<1> QED BY <1>1, AccessInvariant, PTL

\* A handler runs only for a request whose credential was good when it arrived, of the recovery
\* token or of a principal to which a policy in force since then grants the role (Authenticate,
\* authorize).
THEOREM RightToBeServed == AccessSpec => []ServedByRight
<1>1. AInv => ServedByRight
  <2> SUFFICES ASSUME AInv, NEW c \in Clients, calls[c].step \in Handled
               PROVE  /\ calls[c].cred # 0 => calls[c].alive
                      /\ \/ Need[calls[c].op] = Anonymous
                         \/ calls[c].cred # 0 /\ rows[calls[c].cred].kind = Recovery
                         \/ /\ calls[c].cred # 0 /\ calls[c].judged \in calls[c].from..Len(applied)
                            /\ Evaluate(WrittenAt(calls[c].judged), rows[calls[c].cred].principal,
                                        rows[calls[c].cred].groups) >= Need[calls[c].op]
    BY DEF ServedByRight
  <2>1. Resolved(calls[c]) /\ Permitted(calls[c]) BY InProgress DEF CallOK
  <2> QED BY <2>1 DEF Resolved, Permitted
<1> QED BY <1>1, AccessInvariant, PTL

\* A login's token expires within its lifetime, and a session stands for a static token (LoginToken).
THEOREM NoSessionRenewsItself == AccessSpec => []SessionsFromStatic
<1>1. AInv => SessionsFromStatic BY DEF AInv
<1> QED BY <1>1, AccessInvariant, PTL

\* A server that is up has consumed the reset file it found (Run).
THEOREM ResetIsConsumed == AccessSpec => []ResetConsumed
<1>1. AInv => ResetConsumed BY DEF AInv
<1> QED BY <1>1, AccessInvariant, PTL

\* Whoever holds the recovery token is not refused for want of a right (authorize).
THEOREM RecoveryIsLetIn == AccessSpec => NoLockout
<1> DEFINE LetIn == \A c \in Clients :
             calls[c].step \in {"lookup", "evaluate", "authorize"} /\ IsRecovery(calls[c].cred)
             => calls'[c].step # "refused"
<1>1. AInv /\ [AccessNext]_accessVars => [LetIn]_accessVars
  <2> SUFFICES ASSUME AInv, [AccessNext]_accessVars, NEW c \in Clients, IsRecovery(calls[c].cred),
                      calls[c].step \in {"lookup", "evaluate", "authorize"}, calls'[c].step = "refused"
               PROVE  FALSE
    OBVIOUS
  <2>1. /\ calls \in [Clients -> Call] /\ calls[c] \in Call /\ calls[c].cred \in stored
        /\ calls[c].cred \in 1..Len(rows) /\ rows[calls[c].cred].kind = Recovery
    BY InProgress DEF IsRecovery
  <2>2. PICK d \in Clients : RequestStep(d)
    <3>1. calls' # calls BY <2>1
    <3>2. CASE ServerStops BY <3>2 DEF ServerStops, NoCall, Request
    <3> QED BY <3>1, <3>2 DEF AccessNext, accessVars, requests, SweepTokens, WorkloadStarts, WorkloadStops,
           ClockTicks, WriteReset, BootPlain, BootReset, BootRemove, ComesUp
  <2>3. d = c
    <3>1. CASE d # c
      <4>1. \E k : calls' = [calls EXCEPT ![d] = k] BY RequestKeeps, <2>2 DEF Keeps, Progress
      <4>2. calls'[c] = calls[c] BY <2>1, <3>1, <4>1
      <4> QED BY <4>2
    <3> QED BY <3>1
  <2>4. Good(calls[c].cred)
    <3>1. rows[calls[c].cred].expires = 0 BY <2>1 DEF AInv, RowsOK
    <3> QED BY <2>1, <3>1 DEF Good, Expired
  <2>5. Permitted(calls[c])
    <3>1. calls[c].cred # 0 BY <2>1, InProgress
    <3> QED BY <2>1, <3>1 DEF Permitted
  <2>6. CASE calls'[c] = NoCall BY <2>6 DEF NoCall, Request
  <2>7. CASE Lookup(c)
    <3>1. Proceeds(c, IF rows[calls[c].cred].kind = Recovery THEN "authorize" ELSE "evaluate")
      BY <2>4, <2>7 DEF Lookup
    <3>2. calls'[c].step \in {"authorize", "evaluate"} BY <2>1, <3>1 DEF Proceeds, Call
    <3> QED BY <3>2
  <2>8. CASE EvaluateRole(c)
    <3>1. calls'[c].step = "authorize" BY <2>1, <2>8 DEF EvaluateRole, Call
    <3> QED BY <3>1
  <2>9. CASE Authorize(c)
    <3>1. Proceeds(c, "handle") BY <2>5, <2>9 DEF Authorize
    <3>2. calls'[c].step = "handle" BY <2>1, <3>1 DEF Proceeds, Call
    <3> QED BY <3>2
  <2>10. CASE RequestFails(c) BY <2>1, <2>6, <2>10 DEF RequestFails, Unchanging, Answered
  <2> QED BY <2>2, <2>3, <2>7, <2>8, <2>9, <2>10 DEF RequestStep, At, AtHandler, Arrive, Serve,
         CreateToken, FindToken, RemoveToken, GetACLPolicy, ApplyACLPolicy, Logout, LoginToken,
         LoginOIDC, MintLogin, InitACL, Receive
<1> QED BY <1>1, AccessInvariant, PTL DEF AccessSpec, NoLockout

\* The recovery token leaves the table only as a server comes up beside the reset file (Delete,
\* Logout, Sweep, DeleteRecovery).
THEOREM RecoveryIsKept == AccessSpec => RecoveryStays
<1>1. AInv /\ [AccessNext]_accessVars =>
        [\A i \in stored \ stored' : rows[i].kind = Recovery => server = "down" /\ resetFile]_accessVars
  <2> SUFFICES ASSUME AInv, [AccessNext]_accessVars, NEW i \in stored \ stored', rows[i].kind = Recovery
               PROVE  server = "down" /\ resetFile
    OBVIOUS
  <2>1. i \in 1..Len(rows) BY DEF AInv, AccessTypeOK
  <2>2. rows[i].source = "init" /\ rows[i].expires = 0 BY <2>1 DEF AInv, RowsOK
  <2>3. CASE BootReset BY <2>3 DEF BootReset
  <2>4. ASSUME NEW c \in Clients, RequestStep(c) PROVE FALSE
    <3>1. calls[c] \in Call /\ CallOK(calls[c], reads[c]) BY InProgress
    <3>2. CASE RemoveToken(c)
      <4>1. calls[c].step = "remove" /\ i = calls[c].target BY <3>2 DEF RemoveToken, At
      <4> QED BY <3>1, <4>1 DEF CallOK
    <3>3. CASE Logout(c)
      <4>1. rows[calls[c].cred].kind # Recovery /\ i = calls[c].cred
        BY <3>3 DEF Logout, Unchanging, table
      <4> QED BY <4>1
    <3>4. stored \subseteq stored' \/ RemoveToken(c) \/ Logout(c)
      BY <2>4 DEF RequestStep, Arrive, Lookup, EvaluateRole, Authorize, Serve, CreateToken, FindToken,
         GetACLPolicy, ApplyACLPolicy, LoginToken, LoginOIDC, MintLogin, InitACL, RequestFails, Receive,
         Unchanging, Refused, Minted, table
    <3> QED BY <3>2, <3>3, <3>4
  <2>5. CASE SweepTokens BY <2>2, <2>5 DEF SweepTokens, Swept
  <2>6. CASE WorkloadStops BY <2>2, <2>6 DEF WorkloadStops
  <2>7. CASE \/ WorkloadStarts \/ ClockTicks \/ WriteReset \/ BootPlain \/ BootRemove \/ ServerStops
             \/ UNCHANGED accessVars
    BY <2>7 DEF WorkloadStarts, Minted, ClockTicks, WriteReset, BootPlain, BootRemove, ServerStops,
       accessVars, table
  <2> QED BY <2>3, <2>4, <2>5, <2>6, <2>7 DEF AccessNext
<1> QED BY <1>1, AccessInvariant, PTL DEF AccessSpec, RecoveryStays

\* An apply replaces the document that was its caller's last word from the server (Apply).
THEOREM NoPolicyIsLost == AccessSpec => NoLostPolicy
<1> DEFINE Seen == policy # policy' =>
             \E c \in Clients :
               /\ calls[c].step = "handle" /\ calls[c].op = "apply" /\ calls'[c].step = "idle"
               /\ reads[c].tag >= 0 /\ reads[c].document = policy.document
<1>1. AInv /\ [AccessNext]_accessVars => [Seen]_accessVars
  <2> SUFFICES ASSUME AInv, [AccessNext]_accessVars, policy # policy' PROVE Seen OBVIOUS
  <2>1. PICK c \in Clients : ApplyACLPolicy(c)
    BY DEF AccessNext, accessVars, RequestStep, Arrive, Lookup, EvaluateRole, Authorize, Serve,
       CreateToken, FindToken, RemoveToken, GetACLPolicy, Logout, LoginToken, LoginOIDC, MintLogin,
       InitACL, RequestFails, Receive, Unchanging, Refused, SweepTokens, WorkloadStarts, WorkloadStops,
       ClockTicks, WriteReset, BootPlain, BootReset, BootRemove, ComesUp, ServerStops, document
  <2>2. policy.version = calls[c].tag /\ Answered(c)
    BY <2>1 DEF ApplyACLPolicy, Unchanging, document
  <2>3. calls[c].step = "handle" /\ calls[c].op = "apply" BY <2>1 DEF ApplyACLPolicy, AtHandler, At
  <2>4. /\ calls \in [Clients -> Call] /\ reads \in [Clients -> Reading]
        /\ CallOK(calls[c], reads[c]) /\ Len(applied) \in Nat
    BY InProgress
  <2>5. policy.version = Len(applied) /\ policy.document = WrittenAt(Len(applied)) BY DEF AInv, PolicyOK
  <2>6. reads[c].tag >= 0 /\ reads[c].document = policy.document
    BY <2>2, <2>3, <2>4, <2>5 DEF CallOK
  <2>7. calls'[c].step = "idle" BY <2>2, <2>4 DEF Answered, NoCall, Request
  <2> QED BY <2>3, <2>6, <2>7
<1> QED BY <1>1, AccessInvariant, PTL DEF AccessSpec, NoLostPolicy
===============================================================================

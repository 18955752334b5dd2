--------------------------- MODULE LifecycleProofs ---------------------------
(***************************************************************************)
(* Proofs about Lifecycle, for every set of names and every bound.         *)
(***************************************************************************)
EXTENDS Lifecycle, TLAPS

\* No two containers of a name share an attempt number.
Unique(cs) == \A c, d \in cs : c.attempt = d.attempt => c = d

\* Only the newest container of a name may be running.
RunningNewest(cs) == \A c \in Running(cs), d \in cs : d.attempt <= c.attempt

\* What time, stops and removals can have made of old: nothing was added, and
\* nothing that runs has changed.
Derived(new, old) ==
  \A c \in new : \E d \in old :
    c.attempt = d.attempt /\ (c.status = "running" => c = d)

\* The steps of a converge at which its row is still the stored one.
Holding == Steps \ {"idle", "orphan", "clear"}

\* A converge that is not sweeping an orphan was given a row.
Claimed ==
  \A w \in Names : converging[w].pc \notin {"idle", "orphan"} => converging[w].row # NoRow

\* row is the stored row, or an earlier state of it.
Earlier(row, stored) ==
  row # NoRow /\ stored # NoRow /\ row.id = stored.id /\ (Deleted(row) => Deleted(stored))

InPass == pass.pc \in {"listed", "observed"}

\* The pass has taken its snapshots of w, or is about to, with no converge of w
\* acting, and has yet to claim it.
Window(w) ==
  /\ w \notin pass.dirty
  /\ pass.pc = "listed" \/ (pass.pc = "observed" /\ w \in pass.todo)

ClaimInv(w) ==
  LET cv == converging[w] IN
  /\ cv.pc \in Holding => Earlier(cv.row, workloads[w])
  /\ cv.pc = "begin" => Derived(containers[w], cv.obs) /\ RunningNewest(cv.obs)
  /\ cv.pc \in {"deliver", "start", "unmount"} => Running(containers[w]) = {}
  /\ cv.pc \in {"discardLive", "discard", "forget", "delete"} => Deleted(cv.row)
  /\ cv.pc \in {"forget", "delete"} => containers[w] = {}
  /\ cv.pc = "delete" => files[w] = {}

PassInv(w) ==
  /\ InPass => files[w] \subseteq IdOf(pass.rows[w])
  /\ InPass /\ converging[w].pc \in Holding =>
       pass.rows[w] # NoRow /\ pass.rows[w].id = converging[w].row.id
  /\ Window(w) => /\ converging[w].pc = "idle"
                  /\ pass.rows[w] # NoRow => Earlier(pass.rows[w], workloads[w])
  /\ Window(w) /\ pass.pc = "observed" =>
       Derived(containers[w], pass.obs[w]) /\ RunningNewest(pass.obs[w])

WorkloadInv(w) ==
  /\ RunningNewest(containers[w])
  /\ files[w] \subseteq IdOf(workloads[w])
  /\ ClaimInv(w)
  /\ PassInv(w)

IInv ==
  /\ TypeOK
  /\ Claimed
  /\ pass.pc # "observed" => pass.todo = {}
  /\ \A w \in Names : Unique(containers[w])
  /\ \A w \in Names \ raced : WorkloadInv(w)

-----------------------------------------------------------------------------
(* What the driver's calls do to a set of containers.                      *)

\* new is what a stop, a removal or an exit can make of old.
Shrunk(new, old) ==
  /\ new \in SUBSET Container
  /\ Derived(new, old)
  /\ Unique(old) => Unique(new)

\* A stopped container keeps its number, and is not running.
LEMMA ExitedFacts ==
  ASSUME NEW cs \in SUBSET Container
  PROVE  /\ Exited(cs) \in SUBSET Container
         /\ \A c \in Exited(cs) : c.status # "running"
         /\ \A c \in Exited(cs) : \E d \in cs : c.attempt = d.attempt
BY DEF Exited, Container

\* Some of the containers stopped, the others kept or removed: the general form of
\* what a driver call that stops, or an exit, leaves.
LEMMA StopShrinks ==
  ASSUME NEW cs \in SUBSET Container, NEW keep \in SUBSET cs, NEW stop \in SUBSET (cs \ keep)
  PROVE  Shrunk(keep \cup Exited(stop), cs)
<1> DEFINE new == keep \cup Exited(stop)
<1>1. new \in SUBSET Container
  BY ExitedFacts
<1>2. Derived(new, cs)
  BY ExitedFacts DEF Derived
<1>3. ASSUME Unique(cs), NEW c \in new, NEW d \in new, c.attempt = d.attempt
      PROVE  c = d
  <2>1. CASE c \in keep /\ d \in keep
    BY <1>3, <2>1 DEF Unique
  <2>2. CASE c \in Exited(stop) /\ d \in Exited(stop)
    BY <1>3, <2>2 DEF Unique, Exited, Container
  <2>3. CASE c \in keep /\ d \in Exited(stop)
    BY <1>3, <2>3, ExitedFacts DEF Unique
  <2>4. CASE d \in keep /\ c \in Exited(stop)
    BY <1>3, <2>4, ExitedFacts DEF Unique
  <2> QED BY <2>1, <2>2, <2>3, <2>4
<1> QED BY <1>1, <1>2, <1>3 DEF Shrunk, Unique

\* One container exits.
LEMMA ExitShrinks ==
  ASSUME NEW cs \in SUBSET Container, NEW c \in cs
  PROVE  Shrunk((cs \ {c}) \cup Exited({c}), cs)
<1> DEFINE keep == cs \ {c}
           stop == {c}
<1>1. keep \in SUBSET cs /\ stop \in SUBSET (cs \ keep)
  OBVIOUS
<1> HIDE DEF keep, stop
<1>2. Shrunk(keep \cup Exited(stop), cs)
  BY <1>1, StopShrinks
<1> QED BY <1>2 DEF keep, stop

\* A stop that succeeds leaves nothing running.
LEMMA StoppedShrinks ==
  ASSUME NEW cs \in SUBSET Container
  PROVE  Shrunk(Stopped(cs), cs) /\ Running(Stopped(cs)) = {}
<1>1. Visible(cs) \in SUBSET cs
  BY DEF Visible
<1>2. Shrunk({} \cup Exited(Visible(cs)), cs)
  BY <1>1, StopShrinks
<1>3. {} \cup Exited(Visible(cs)) = Stopped(cs)
  BY DEF Stopped
<1>4. Visible(cs) \in SUBSET Container
  BY <1>1
<1> QED BY <1>2, <1>3, <1>4, ExitedFacts DEF Stopped, Running

\* Neither a failed stop nor a failed discard adds or starts anything.
LEMMA FailuresShrink ==
  ASSUME NEW cs \in SUBSET Container
  PROVE  /\ \A left \in StopFailures(cs) : Shrunk(left, cs)
         /\ \A left \in DiscardFailures(cs) : Shrunk(left, cs)
<1>1. ASSUME NEW left \in StopFailures(cs) PROVE Shrunk(left, cs)
  <2>1. PICK s \in SUBSET cs, g \in SUBSET (cs \ Visible(cs)) :
          left = (cs \ s) \cup Exited(s \ g)
    BY <1>1 DEF StopFailures
  <2>2. cs \ s \in SUBSET cs /\ s \ g \in SUBSET (cs \ (cs \ s))
    OBVIOUS
  <2> QED BY <2>1, <2>2, StopShrinks
<1>2. ASSUME NEW left \in DiscardFailures(cs) PROVE Shrunk(left, cs)
  <2>1. PICK l \in SUBSET cs :
          left \in {l, Exited(l), {[c EXCEPT !.status = "removing"] : c \in l}}
    BY <1>2 DEF DiscardFailures
  <2>2. CASE left = l
    BY <2>2 DEF Shrunk, Derived, Unique
  <2>3. CASE left = Exited(l)
    <3>1. Shrunk({} \cup Exited(l), cs)
      BY StopShrinks
    <3> QED BY <2>3, <3>1
  <2>4. CASE left = {[c EXCEPT !.status = "removing"] : c \in l}
    BY <2>4 DEF Shrunk, Derived, Unique, Container
  <2> QED BY <2>1, <2>2, <2>3, <2>4
<1> QED BY <1>1, <1>2

\* Shrinking is transitive where it matters, and keeps the running one newest.
LEMMA ShrunkKeeps ==
  ASSUME NEW old \in SUBSET Container, NEW new \in SUBSET Container, Derived(new, old)
  PROVE  /\ RunningNewest(old) => RunningNewest(new)
         /\ Running(old) = {} => Running(new) = {}
         /\ old = {} => new = {}
         /\ \A first \in SUBSET Container : Derived(old, first) => Derived(new, first)
<1>1. RunningNewest(old) => RunningNewest(new)
  BY DEF RunningNewest, Running, Derived, Container
<1>2. Running(old) = {} => Running(new) = {}
  BY DEF Running, Derived
<1>3. old = {} => new = {}
  BY DEF Derived
<1>4. ASSUME NEW first \in SUBSET Container, Derived(old, first) PROVE Derived(new, first)
  BY <1>4 DEF Derived, Container
<1> QED BY <1>1, <1>2, <1>3, <1>4

-----------------------------------------------------------------------------
(* Type correctness.                                                       *)

\* The initial states have their types: empty tables, nothing held, and whatever an
\* earlier life of the database left running.
LEMMA TypeInit == Init => TypeOK
BY LifecycleAssumption DEF Init, TypeOK, Pass, NoPass, None, Idle, Converge, Steps, Container

\* Every step keeps every variable in its type.
LEMMA TypeStep == TypeOK /\ Claimed /\ [Next]_vars => TypeOK'
<1> SUFFICES ASSUME TypeOK, Claimed, [Next]_vars PROVE TypeOK'
  OBVIOUS
<1> USE DEF TypeOK
<1>1. ASSUME NEW w \in Names, Api(w) PROVE TypeOK'
  <2> USE DEF Up, Op, Row, storeVars, memVars
  <2>1. ASSUME NEW s \in Specs, Insert(w, s) PROVE TypeOK'
    BY <2>1 DEF Insert
  <2>2. ASSUME NEW s \in Specs, Update(w, s) PROVE TypeOK'
    BY <2>2 DEF Update
  <2>3. CASE MarkDeleting(w)
    BY <2>3 DEF MarkDeleting
  <2>4. CASE Suspend(w)
    BY <2>4 DEF Suspend
  <2>5. CASE Resume(w)
    BY <2>5 DEF Resume
  <2>6. CASE AcceptRestart(w)
    BY <2>6 DEF AcceptRestart
  <2> QED BY <1>1, <2>1, <2>2, <2>3, <2>4, <2>5, <2>6 DEF Api
<1>2. ASSUME NEW w \in Names, Restart(w) PROVE TypeOK'
  BY <1>2 DEF Restart, NoFault, storeVars
<1>r. ASSUME Return PROVE pass' \in Pass
  <2>1. Began \in Nat
    BY LifecycleAssumption DEF Began, Pass
  <2> QED BY <1>r, <2>1 DEF Return, NoPass, Pass
<1>3. CASE PassStep \/ PassFails \/ PassUnobserved
  <2> USE DEF Op, Fault, NoFault, storeVars, memVars
  <2>1. CASE PassList
    <3>1. pass' \in Pass
      BY <2>1 DEF PassList, Pass
    <3> QED BY <2>1, <3>1 DEF PassList
  <2>2. CASE PassFails
    BY <1>r, <2>2 DEF PassFails
  <2>3. CASE PassObserve
    <3>1. pass' \in Pass
      BY <2>3 DEF PassObserve, Pass
    <3> QED BY <2>3, <3>1 DEF PassObserve
  <2>4. CASE PassUnobserved
    <3>1. pass' \in Pass
      BY <2>4 DEF PassUnobserved, Pass
    <3> QED BY <2>4, <3>1 DEF PassUnobserved
  <2>5. ASSUME NEW w \in Names, SpawnConverge(w) PROVE TypeOK'
    <3>1. pass' \in Pass
      BY <2>5 DEF SpawnConverge, Pass
    <3>2. [pc |-> "begin", row |-> pass.rows[w], obs |-> pass.obs[w]] \in Converge
      BY DEF Pass, Converge, Steps
    <3> QED BY <2>5, <3>1, <3>2 DEF SpawnConverge
  <2>6. ASSUME NEW w \in Names, SpawnOrphan(w) PROVE TypeOK'
    <3>1. pass' \in Pass
      BY <2>6 DEF SpawnOrphan, Pass
    <3>2. [pc |-> "orphan", row |-> NoRow, obs |-> pass.obs[w]] \in Converge
      BY DEF Pass, Converge, Steps
    <3> QED BY <2>6, <3>1, <3>2 DEF SpawnOrphan
  <2>7. CASE PassEnd
    BY <1>r, <2>7 DEF PassEnd, Pruned
  <2> QED BY <1>3, <2>1, <2>2, <2>3, <2>4, <2>5, <2>6, <2>7 DEF PassStep
<1>a. Idle \in Converge
  BY DEF Idle, Converge, Steps
<1>4. CASE Crash
  <2>1. [NoPass EXCEPT !.pc = "down"] \in Pass
    BY DEF NoPass, Pass
  <2> QED BY <1>4, <1>a, <2>1 DEF Crash, Fault, None, storeVars
<1>5. CASE Boot
  <2>1. NoPass \in Pass
    BY DEF NoPass, Pass
  <2> QED BY <1>5, <2>1 DEF Boot, NoFault, storeVars, memVars
<1>b. ASSUME NEW w \in Names, Finish(w) \/ \E step \in Steps : Goto(w, step)
      PROVE  converging' \in [Names -> Converge]
  <2>1. ASSUME NEW step \in Steps PROVE [converging[w] EXCEPT !.pc = step] \in Converge
    BY DEF Converge
  <2> QED BY <1>a, <1>b, <2>1 DEF Finish, Goto
<1>6. ASSUME NEW w \in Names, ConvergeStep(w) \/ ConvergeWaits(w) PROVE TypeOK'
  <2> USE DEF NoFault, Fault, storeVars, memVars
  <2>1. CASE ConvergeBegin(w)
    <3>1. converging' \in [Names -> Converge]
      BY <1>b, <2>1 DEF ConvergeBegin, Teardown, Hold, ConvergeSlot, Steps
    <3> QED BY <2>1, <3>1 DEF ConvergeBegin, Teardown, Hold, ConvergeSlot,
                              ConsumeRestart, ClearReplacing
  <2>2. CASE ConvergeWaits(w)
    BY <1>b, <2>2 DEF ConvergeWaits, ConsumeRestart, ClearReplacing
  <2>3. CASE Discard(w)
    <3>1. converging' \in [Names -> Converge]
      BY <1>b, <2>3 DEF Discard, Steps
    <3> QED BY <2>3, <3>1 DEF Discard
  <2>4. CASE Stop(w)
    <3>1. converging' \in [Names -> Converge]
      BY <1>b, <2>4 DEF Stop, Steps
    <3> QED BY <2>4, <3>1, StoppedShrinks DEF Stop, Shrunk
  <2>5. CASE Deliver(w)
    <3>1. converging' \in [Names -> Converge]
      BY <1>b, <2>5 DEF Deliver, Steps
    <3>2. converging[w].row.id \in Nat
      BY <2>5 DEF Deliver, At, Claimed, Converge, Row
    <3> QED BY <2>5, <3>1, <3>2 DEF Deliver
  <2>6. CASE Start(w)
    <3>1. converging[w].row.hash \in Specs
      BY <2>6 DEF Start, At, Claimed, Converge, Row
    <3>2. ASSUME NEW n \in 1..MaxAttempt PROVE Created(w, n, "running") \in Container
      BY <3>1 DEF Created, Container
    <3> QED BY <1>b, <2>6, <3>2 DEF Start
  <2>7. CASE Forget(w)
    <3>1. converging' \in [Names -> Converge]
      BY <1>b, <2>7 DEF Forget, Steps
    <3> QED BY <2>7, <3>1 DEF Forget
  <2>8. CASE DeleteRow(w)
    <3>1. converging' \in [Names -> Converge]
      BY <1>b, <2>8 DEF DeleteRow, Steps
    <3> QED BY <2>8, <3>1 DEF DeleteRow
  <2>9. CASE Clear(w)
    BY <1>b, <2>9 DEF Clear, ConsumeRestart, ClearReplacing
  <2> QED BY <1>6, <2>1, <2>2, <2>3, <2>4, <2>5, <2>6, <2>7, <2>8, <2>9 DEF ConvergeStep
<1>7. ASSUME NEW w \in Names, CallFails(w) PROVE TypeOK'
  <2>1. containers' \in [Names -> SUBSET Container]
    <3>1. CASE At(w, "start")
      <4>1. converging[w].row.hash \in Specs
        BY <3>1 DEF At, Claimed, Converge, Row
      <4>2. ASSUME NEW n \in 1..MaxAttempt, NEW status \in {"running", "exited"}
            PROVE  Created(w, n, status) \in Container
        BY <4>1 DEF Created, Container
      <4> QED BY <1>7, <3>1, <4>2 DEF CallFails, At
    <3>2. CASE ~At(w, "start")
      BY <1>7, <3>2, FailuresShrink DEF CallFails, Shrunk, At
    <3> QED BY <3>1, <3>2
  <2> QED BY <1>7, <1>b, <2>1 DEF CallFails, Fault, storeVars, memVars
<1>8. ASSUME NEW w \in Names, ContainerExits(w) PROVE TypeOK'
  BY <1>8, ExitedFacts DEF ContainerExits, Fault, Running, storeVars, memVars
<1>9. ASSUME NEW w \in Names, RemovalEnds(w) PROVE TypeOK'
  BY <1>9 DEF RemovalEnds, NoFault, storeVars, memVars
<1>10. CASE UNCHANGED vars
  BY <1>10 DEF vars
<1> QED BY <1>1, <1>2, <1>3, <1>4, <1>5, <1>6, <1>7, <1>8, <1>9, <1>10 DEF Next

\* The claims keep the row they were made for.
LEMMA ClaimedStep == TypeOK /\ Claimed /\ [Next]_vars => Claimed'
<1> SUFFICES ASSUME TypeOK, Claimed, [Next]_vars PROVE Claimed'
  OBVIOUS
<1> USE DEF TypeOK, Claimed
<1>1. CASE UNCHANGED converging
  BY <1>1
<1>2. ASSUME NEW w \in Names, SpawnConverge(w) \/ SpawnOrphan(w) PROVE Claimed'
  BY <1>2 DEF SpawnConverge, SpawnOrphan
<1>3. CASE Crash
  BY <1>3 DEF Crash, Idle
<1>4. ASSUME NEW w \in Names,
             Finish(w) \/ \E step \in Steps : ~At(w, "idle") /\ ~At(w, "orphan") /\ Goto(w, step)
      PROVE  Claimed'
  BY <1>4 DEF Finish, Goto, Idle, At, Converge
<1>5. ASSUME NEW w \in Names, ConvergeStep(w) \/ ConvergeWaits(w) \/ CallFails(w)
      PROVE  Claimed'
  BY <1>4, <1>5 DEF ConvergeStep, ConvergeBegin, Teardown, Hold, ConvergeSlot, ConvergeWaits,
     Discard, Stop, Deliver, Start, Forget, DeleteRow, Clear, CallFails, At, Steps
<1> QED BY <1>1, <1>2, <1>3, <1>5 DEF Next, PassStep, PassList, PassObserve, PassEnd,
     PassFails, PassUnobserved, Boot, Api, Insert, Update, MarkDeleting, Suspend, Resume,
     AcceptRestart, Restart, ContainerExits, RemovalEnds, vars

\* Type correctness of every reachable state, for every set of names and bounds.
THEOREM TypeCorrect == Spec => []TypeOK
<1>1. Init => Claimed
  BY DEF Init, Claimed, Idle
<1> QED BY <1>1, TypeInit, TypeStep, ClaimedStep, PTL DEF Spec

-----------------------------------------------------------------------------
(* The inductive invariant.                                                *)

\* A step that adds no container, leaves the files and the pass alone, at most
\* marks or edits the row, and leaves the converge where it is or ends it.
LEMMA QuietStep ==
  ASSUME NEW w \in Names, TypeOK, TypeOK', WorkloadInv(w),
         Derived(containers'[w], containers[w]),
         files'[w] = files[w],
         workloads[w] # NoRow => Earlier(workloads[w], workloads'[w]),
         converging'[w] \in {converging[w], Idle},
         pass' = pass
  PROVE  WorkloadInv(w)'
<1>1. containers[w] \in SUBSET Container /\ containers'[w] \in SUBSET Container
  BY DEF TypeOK
<1>2. RunningNewest(containers'[w])
  BY <1>1, ShrunkKeeps DEF WorkloadInv
<1>3. files'[w] \subseteq IdOf(workloads'[w])
  BY DEF WorkloadInv, IdOf, Earlier
<1>4. ClaimInv(w)'
  <2>1. CASE converging'[w] = Idle
    BY <2>1 DEF ClaimInv, Idle, Holding
  <2>2. CASE converging'[w] = converging[w]
    <3>1. converging[w].pc \in Holding => Earlier(converging[w].row, workloads'[w])
      BY DEF WorkloadInv, ClaimInv, Earlier
    <3>2. converging[w].obs \in SUBSET Container
      BY DEF TypeOK, Converge
    <3>3. converging[w].pc = "begin" => Derived(containers'[w], converging[w].obs)
      BY <1>1, <3>2, ShrunkKeeps DEF WorkloadInv, ClaimInv
    <3>4. /\ Running(containers[w]) = {} => Running(containers'[w]) = {}
          /\ containers[w] = {} => containers'[w] = {}
      BY <1>1, ShrunkKeeps
    <3> QED BY <2>2, <3>1, <3>3, <3>4 DEF WorkloadInv, ClaimInv
  <2> QED BY <2>1, <2>2
<1>5. PassInv(w)'
  <2>1. pass.obs[w] \in SUBSET Container
    BY DEF TypeOK, Pass
  <2>2. Derived(containers[w], pass.obs[w]) => Derived(containers'[w], pass.obs[w])
    BY <1>1, <2>1, ShrunkKeeps
  <2>3. Window(w)' = Window(w) /\ InPass' = InPass
    BY DEF Window, InPass
  <2>4. converging[w].pc = "idle" => converging'[w].pc = "idle"
    BY DEF Idle
  <2>5. converging'[w].pc \in Holding => converging'[w] = converging[w]
    BY DEF Idle, Holding
  <2>6. pass.rows[w] # NoRow /\ Earlier(pass.rows[w], workloads[w])
          => Earlier(pass.rows[w], workloads'[w])
    BY DEF Earlier
  <2> QED BY <2>2, <2>3, <2>4, <2>5, <2>6 DEF WorkloadInv, PassInv
<1> QED BY <1>2, <1>3, <1>4, <1>5 DEF WorkloadInv

\* A step of another workload, or one that touches neither store, runtime, disk,
\* claim nor pass.
LEMMA FrameStep ==
  ASSUME NEW w \in Names, TypeOK, TypeOK', WorkloadInv(w),
         containers'[w] = containers[w], files'[w] = files[w],
         workloads'[w] = workloads[w], converging'[w] = converging[w], pass' = pass
  PROVE  WorkloadInv(w)'
<1>1. Derived(containers'[w], containers[w])
  BY DEF Derived
<1>2. workloads[w] # NoRow => Earlier(workloads[w], workloads'[w])
  BY DEF Earlier
<1> QED BY <1>1, <1>2, QuietStep

\* Steps of the pass, and the crash that ends it.
LEMMA PassSteps ==
  ASSUME IInv, TypeOK', PassStep \/ PassFails \/ PassUnobserved \/ Crash \/ Boot,
         NEW w \in Names \ raced'
  PROVE  WorkloadInv(w)'
<1> USE DEF IInv, storeVars
<1>1. w \in Names \ raced
  BY DEF PassStep, PassList, PassObserve, PassEnd, SpawnConverge, SpawnOrphan, PassFails,
         PassUnobserved, Crash, Boot
<1>2. WorkloadInv(w)
  BY <1>1
<1>3. pass \in Pass
  BY DEF TypeOK
<1>4. ASSUME UNCHANGED <<workloads, containers, files, converging>>, PassInv(w)'
      PROVE  WorkloadInv(w)'
  BY <1>2, <1>4 DEF WorkloadInv, ClaimInv, Earlier
<1>5. ASSUME pass'.pc \in {"idle", "down"} PROVE PassInv(w)'
  BY <1>5 DEF PassInv, InPass, Window
<1>6. CASE PassList
  <2>1. pass'.pc = "listed" /\ pass'.rows = workloads /\ (w \in pass'.dirty <=> Active(w))
    BY <1>3, <1>6 DEF PassList, Pass
  <2>2. converging[w].pc \in Holding => Earlier(converging[w].row, workloads[w])
    BY <1>2 DEF WorkloadInv, ClaimInv
  <2>3. UNCHANGED <<workloads, containers, files, converging>>
    BY <1>6 DEF PassList
  <2>4. PassInv(w)'
    BY <1>2, <2>1, <2>2, <2>3 DEF WorkloadInv, PassInv, InPass, Window, Earlier, Active
  <2> QED BY <1>4, <2>3, <2>4
<1>7. CASE PassFails \/ Boot
  <2>1. pass'.pc = "idle" /\ UNCHANGED <<workloads, containers, files, converging>>
    BY <1>7 DEF PassFails, Return, Boot, NoPass
  <2> QED BY <1>4, <1>5, <2>1
<1>8. CASE PassObserve
  <2>1. /\ pass'.pc = "observed" /\ pass'.rows = pass.rows /\ pass'.dirty = pass.dirty
        /\ pass'.obs = containers /\ pass.pc = "listed"
    BY <1>3, <1>8 DEF PassObserve, Pass
  <2>2. UNCHANGED <<workloads, containers, files, converging>>
    BY <1>8 DEF PassObserve
  <2>3. Derived(containers[w], containers[w])
    BY DEF Derived
  <2>4. PassInv(w)'
    BY <1>2, <2>1, <2>2, <2>3 DEF WorkloadInv, PassInv, InPass, Window, Earlier
  <2> QED BY <1>4, <2>2, <2>4
<1>9. CASE PassUnobserved
  <2>1. /\ pass'.pc = "observed" /\ pass'.rows = pass.rows /\ pass'.todo = {}
        /\ pass.pc = "listed"
    BY <1>3, <1>9 DEF PassUnobserved, Pass
  <2>2. UNCHANGED <<workloads, containers, files, converging>>
    BY <1>9 DEF PassUnobserved
  <2>3. PassInv(w)'
    BY <1>2, <2>1, <2>2 DEF WorkloadInv, PassInv, InPass, Window
  <2> QED BY <1>4, <2>2, <2>3
<1>10. CASE PassEnd
  <2>1. pass'.pc = "idle" /\ pass.pc = "observed"
    BY <1>10 DEF PassEnd, Return, NoPass
  <2>2. files'[w] = files[w]
    \* The prune finds nothing to remove: what is on disk belongs to the listed row.
    <3>1. files[w] \subseteq IdOf(pass.rows[w])
      BY <1>2, <2>1 DEF WorkloadInv, PassInv, InPass
    <3> QED BY <1>10, <3>1 DEF PassEnd, Pruned, IdOf
  <2>3. UNCHANGED <<workloads, containers, converging>>
    BY <1>10 DEF PassEnd
  <2> QED BY <1>2, <1>5, <2>1, <2>2, <2>3 DEF WorkloadInv, ClaimInv, Earlier
<1>11. CASE Crash
  <2>1. pass'.pc = "down" /\ UNCHANGED <<workloads, containers, files>>
        /\ converging'[w] = Idle
    BY <1>11 DEF Crash, NoPass
  <2> QED BY <1>2, <1>5, <2>1 DEF WorkloadInv, ClaimInv, Idle, Holding
<1>12. ASSUME NEW v \in Names, SpawnConverge(v) \/ SpawnOrphan(v) PROVE WorkloadInv(w)'
  <2>1. /\ pass'.pc = "observed" /\ pass.pc = "observed" /\ pass'.rows = pass.rows
        /\ pass'.dirty = pass.dirty /\ pass'.obs = pass.obs /\ pass'.todo = pass.todo \ {v}
        /\ v \in pass.todo
    BY <1>3, <1>12 DEF SpawnConverge, SpawnOrphan, Pass
  <2>2. UNCHANGED <<workloads, containers, files>>
    BY <1>12 DEF SpawnConverge, SpawnOrphan
  <2>3. CASE converging'[w] = converging[w]
    <3>1. Window(w)' => Window(w)
      BY <2>1 DEF Window
    <3>2. PassInv(w)'
      BY <1>2, <2>1, <2>2, <2>3, <3>1 DEF WorkloadInv, PassInv, InPass, Earlier
    <3> QED BY <1>2, <2>2, <2>3, <3>2 DEF WorkloadInv, ClaimInv, Earlier
  <2>4. CASE converging'[w] # converging[w]
    <3>1. v = w
      BY <1>12, <2>4 DEF SpawnConverge, SpawnOrphan, TypeOK
    <3>2. w \notin pass.dirty
      BY <1>12, <2>4, <3>1 DEF SpawnConverge, SpawnOrphan
    <3>3. Window(w) /\ ~Window(w)'
      BY <2>1, <3>1, <3>2 DEF Window
    <3>4. CASE SpawnOrphan(w)
      <4>1. converging'[w].pc = "orphan"
        BY <2>4, <3>4 DEF SpawnOrphan, TypeOK
      <4> QED BY <1>2, <2>1, <2>2, <3>3, <4>1
            DEF WorkloadInv, ClaimInv, PassInv, Holding, InPass
    <3>5. CASE SpawnConverge(w)
      <4>1. /\ converging'[w].pc = "begin" /\ converging'[w].row = pass.rows[w]
            /\ converging'[w].obs = pass.obs[w] /\ pass.rows[w] # NoRow
        BY <2>4, <3>5 DEF SpawnConverge, TypeOK
      <4>2. ClaimInv(w)'
        BY <1>2, <2>1, <2>2, <3>3, <4>1 DEF WorkloadInv, ClaimInv, PassInv, Earlier
      <4>3. PassInv(w)'
        BY <1>2, <2>1, <2>2, <3>3, <4>1 DEF WorkloadInv, PassInv, InPass
      <4> QED BY <1>2, <2>2, <4>2, <4>3 DEF WorkloadInv
    <3> QED BY <1>12, <3>1, <3>4, <3>5
  <2> QED BY <2>3, <2>4
<1> QED BY <1>6, <1>7, <1>8, <1>9, <1>10, <1>11, <1>12 DEF PassStep

\* A step of the converge that holds w.  The pass is not in the window of w, so what
\* has to be shown is what the next step of the converge relies on.
LEMMA ClaimStep ==
  ASSUME NEW w \in Names, TypeOK, WorkloadInv(w),
         converging[w].pc \in Holding,
         converging'[w].pc \in Holding => converging'[w].row = converging[w].row,
         RunningNewest(containers'[w]),
         files'[w] \subseteq files[w] \cup {converging[w].row.id},
         workloads'[w] = workloads[w] \/ (workloads'[w] = NoRow /\ files'[w] = {}),
         pass' = pass,
         ClaimInv(w)'
  PROVE  WorkloadInv(w)'
<1>1. ~Window(w)
  BY DEF WorkloadInv, PassInv, Holding
<1>2. Window(w)' = Window(w) /\ InPass' = InPass
  BY DEF Window, InPass
<1>3. Earlier(converging[w].row, workloads[w])
  BY DEF WorkloadInv, ClaimInv
<1>4. files'[w] \subseteq IdOf(workloads'[w])
  BY <1>3 DEF WorkloadInv, Earlier, IdOf
<1>5. InPass => files'[w] \subseteq IdOf(pass.rows[w])
  BY DEF WorkloadInv, PassInv, IdOf
<1>6. PassInv(w)'
  BY <1>1, <1>2, <1>5 DEF WorkloadInv, PassInv
<1> QED BY <1>4, <1>6 DEF WorkloadInv

\* The container Start creates is the newest, so where nothing runs it is the only
\* one running.
LEMMA StartFacts ==
  ASSUME NEW cs \in SUBSET Container, NEW c \in Container, IsNextAttempt(cs, c.attempt)
  PROVE  /\ Unique(cs) => Unique(cs \cup {c})
         /\ Running(cs) = {} => RunningNewest(cs \cup {c})
<1>1. \A d \in cs : d.attempt < c.attempt /\ d.attempt \in Nat /\ c.attempt \in Nat
  BY DEF IsNextAttempt, Container
<1>2. Unique(cs) => Unique(cs \cup {c})
  BY <1>1 DEF Unique
<1>3. Running(cs) = {} => RunningNewest(cs \cup {c})
  BY <1>1 DEF RunningNewest, Running, Container
<1> QED BY <1>2, <1>3

\* The decisions a converge takes from its snapshots.
LEMMA BeginStep ==
  ASSUME IInv, TypeOK', NEW w \in Names \ raced, ConvergeBegin(w)
  PROVE  WorkloadInv(w)'
<1> USE DEF IInv
<1>1. WorkloadInv(w) /\ converging[w].pc = "begin" /\ converging[w] \in Converge
  BY DEF ConvergeBegin, At, TypeOK
<1>2. UNCHANGED <<workloads, containers, files, pass>>
  BY DEF ConvergeBegin, storeVars
<1>3. /\ Earlier(converging[w].row, workloads[w])
      /\ Derived(containers[w], converging[w].obs) /\ RunningNewest(converging[w].obs)
  BY <1>1 DEF WorkloadInv, ClaimInv, Holding, Steps
<1>4. containers[w] \in SUBSET Container /\ converging[w].obs \in SUBSET Container
  BY <1>1 DEF TypeOK, Converge
<1>5. ~SeenRunning(w) => Running(containers[w]) = {}
  \* A running container was running when it was seen, and newest, so it was visible.
  BY <1>3, <1>4 DEF SeenRunning, Seen, Visible, Running, RunningNewest, Derived
<1>6. Seen(w) = {} => ~SeenRunning(w)
  BY DEF SeenRunning, Running
<1>7. CASE Finish(w)
  <2>1. converging'[w] = Idle
    BY <1>7 DEF Finish, TypeOK
  <2>2. Derived(containers'[w], containers[w])
    BY <1>2 DEF Derived
  <2> QED BY <1>1, <1>2, <1>3, <2>1, <2>2, QuietStep DEF Earlier
<1>8. ASSUME NEW step \in {"discardLive", "discard", "stop", "unmount", "stopInstance", "deliver"},
             Goto(w, step),
             step \in {"discardLive", "discard"} => Deleted(converging[w].row),
             step \in {"unmount", "deliver"} => Running(containers[w]) = {}
      PROVE  WorkloadInv(w)'
  <2>1. /\ converging'[w].pc = step /\ converging'[w].row = converging[w].row
    BY <1>1, <1>8 DEF Goto, TypeOK, Converge
  <2>2. ClaimInv(w)'
    BY <1>2, <1>3, <1>8, <2>1 DEF ClaimInv, Earlier
  <2>3. RunningNewest(containers'[w])
    BY <1>1, <1>2 DEF WorkloadInv
  <2> QED BY <1>1, <1>2, <2>1, <2>2, <2>3, ClaimStep DEF Holding, Steps
<1>9. CASE Deleted(converging[w].row) /\ Teardown(w)
  BY <1>7, <1>8, <1>9 DEF Teardown
<1>10. CASE Hold(w)
  BY <1>5, <1>7, <1>8, <1>10 DEF Hold
<1>11. CASE ConvergeSlot(w)
  BY <1>5, <1>6, <1>7, <1>8, <1>11 DEF ConvergeSlot
<1> QED BY <1>9, <1>10, <1>11 DEF ConvergeBegin

\* The calls a converge makes that succeed.
LEMMA CallSteps ==
  ASSUME IInv, TypeOK', NEW w \in Names \ raced,
         Discard(w) \/ Stop(w) \/ Deliver(w) \/ Start(w) \/ Forget(w) \/ DeleteRow(w) \/ Clear(w)
  PROVE  WorkloadInv(w)'
<1> USE DEF IInv
<1>1. WorkloadInv(w) /\ ClaimInv(w) /\ converging[w] \in Converge
  BY DEF WorkloadInv, TypeOK
<1>2. containers[w] \in SUBSET Container
  BY DEF TypeOK
<1>3. pass' = pass
  BY DEF Discard, Stop, Deliver, Start, Forget, DeleteRow, Clear
<1>4. ASSUME Finish(w), UNCHANGED <<workloads, files>>,
             Derived(containers'[w], containers[w])
      PROVE  WorkloadInv(w)'
  <2>1. converging'[w] = Idle
    BY <1>4 DEF Finish, TypeOK
  <2> QED BY <1>1, <1>3, <1>4, <2>1, QuietStep DEF Earlier
<1>5. ASSUME NEW step \in Steps, Goto(w, step)
      PROVE  converging'[w].pc = step /\ converging'[w].row = converging[w].row
  BY <1>1, <1>5 DEF Goto, TypeOK, Converge
<1>6. CASE Discard(w)
  <2>1. containers'[w] = {} /\ UNCHANGED <<workloads, files>>
    BY <1>6 DEF Discard, TypeOK, storeVars
  <2>2. Derived(containers'[w], containers[w]) /\ RunningNewest(containers'[w])
    BY <2>1 DEF Derived, RunningNewest, Running
  <2>3. CASE At(w, "discard") /\ Goto(w, "forget")
    <3>1. converging'[w].pc = "forget" /\ converging'[w].row = converging[w].row
      BY <1>5, <2>3 DEF Steps
    <3>2. ClaimInv(w)'
      BY <1>1, <2>1, <2>3, <3>1 DEF ClaimInv, At, Earlier, Holding, Steps
    <3> QED BY <1>1, <1>3, <2>1, <2>2, <2>3, <3>1, <3>2, ClaimStep DEF Holding, Steps, At
  <2> QED BY <1>4, <1>6, <2>1, <2>2, <2>3 DEF Discard
<1>7. CASE Stop(w)
  <2>1. containers'[w] = Stopped(containers[w]) /\ UNCHANGED <<workloads, files>>
    BY <1>7 DEF Stop, TypeOK, storeVars
  <2>2. /\ Derived(containers'[w], containers[w]) /\ Running(containers'[w]) = {}
        /\ containers'[w] \in SUBSET Container
    BY <1>2, <2>1, StoppedShrinks DEF Shrunk
  <2>3. RunningNewest(containers'[w])
    BY <1>1, <1>2, <2>2, ShrunkKeeps DEF WorkloadInv
  <2>4. CASE At(w, "stopInstance") /\ Goto(w, "deliver")
    <3>1. converging'[w].pc = "deliver" /\ converging'[w].row = converging[w].row
      BY <1>5, <2>4 DEF Steps
    <3>2. ClaimInv(w)'
      BY <1>1, <2>1, <2>2, <2>4, <3>1 DEF ClaimInv, At, Earlier, Holding, Steps
    <3> QED BY <1>1, <1>3, <2>1, <2>3, <2>4, <3>1, <3>2, ClaimStep DEF Holding, Steps, At
  <2> QED BY <1>4, <1>7, <2>1, <2>2, <2>4 DEF Stop
<1>8. CASE Deliver(w)
  <2>1. /\ UNCHANGED <<workloads, containers>>
        /\ files'[w] \subseteq files[w] \cup {converging[w].row.id}
        /\ converging[w].pc = "deliver"
    BY <1>8 DEF Deliver, At, TypeOK, storeVars
  <2>2. converging'[w].pc = "start" /\ converging'[w].row = converging[w].row
    BY <1>5, <1>8 DEF Deliver, Steps
  <2>3. ClaimInv(w)'
    BY <1>1, <2>1, <2>2 DEF ClaimInv, Earlier, Holding, Steps
  <2>4. RunningNewest(containers'[w])
    BY <1>1, <2>1 DEF WorkloadInv
  <2> QED BY <1>1, <1>3, <2>1, <2>2, <2>3, <2>4, ClaimStep DEF Holding, Steps
<1>9. CASE Start(w)
  <2>1. UNCHANGED <<workloads, files>> /\ converging[w].pc = "start" /\ converging'[w] = Idle
    BY <1>9 DEF Start, At, Finish, TypeOK, storeVars
  <2>2. PICK n \in 1..MaxAttempt :
          /\ IsNextAttempt(containers[w], n)
          /\ containers'[w] = containers[w] \cup {Created(w, n, "running")}
    BY <1>9 DEF Start, TypeOK
  <2>3. Created(w, n, "running") \in Container /\ Created(w, n, "running").attempt = n
    BY <2>2 DEF TypeOK, Created
  <2>4. Running(containers[w]) = {}
    BY <1>1, <2>1 DEF ClaimInv
  <2>5. RunningNewest(containers'[w])
    BY <1>2, <2>2, <2>3, <2>4, StartFacts
  <2>6. ClaimInv(w)'
    BY <2>1 DEF ClaimInv, Idle, Holding
  <2> QED BY <1>1, <1>3, <2>1, <2>5, <2>6, ClaimStep DEF Holding, Steps, Idle
<1>10. CASE Forget(w)
  <2>1. /\ UNCHANGED <<workloads, containers>>
        /\ files'[w] = files[w] \ {converging[w].row.id}
        /\ converging[w].pc \in {"forget", "unmount"}
    BY <1>10 DEF Forget, At, TypeOK, storeVars
  <2>2. Earlier(converging[w].row, workloads[w])
    BY <1>1, <2>1 DEF ClaimInv, Holding, Steps
  <2>3. files'[w] = {}
    BY <1>1, <2>1, <2>2 DEF WorkloadInv, Earlier, IdOf
  <2>4. /\ converging'[w].row = converging[w].row
        /\ \/ converging[w].pc = "forget" /\ converging'[w].pc = "delete"
           \/ converging[w].pc = "unmount" /\ converging'[w].pc = "settle"
    BY <1>5, <1>10 DEF Forget, Steps, At
  <2>5. ClaimInv(w)'
    BY <1>1, <2>1, <2>2, <2>3, <2>4 DEF ClaimInv, Earlier
  <2>6. RunningNewest(containers'[w])
    BY <1>1, <2>1 DEF WorkloadInv
  <2> QED BY <1>1, <1>3, <2>1, <2>4, <2>5, <2>6, ClaimStep DEF Holding, Steps
<1>11. CASE DeleteRow(w)
  <2>1. /\ UNCHANGED <<containers, files>> /\ workloads'[w] = NoRow
        /\ converging[w].pc = "delete"
    BY <1>11 DEF DeleteRow, At, TypeOK
  <2>2. files[w] = {} /\ workloads[w] # NoRow
    BY <1>1, <2>1 DEF ClaimInv, Holding, Steps, Earlier
  <2>3. converging'[w].pc = "clear"
    BY <1>5, <1>11, <2>2 DEF DeleteRow, Steps
  <2>4. ClaimInv(w)'
    BY <2>3 DEF ClaimInv, Holding
  <2>5. RunningNewest(containers'[w])
    BY <1>1, <2>1 DEF WorkloadInv
  <2> QED BY <1>1, <1>3, <2>1, <2>2, <2>3, <2>4, <2>5, ClaimStep DEF Holding, Steps
<1>12. CASE Clear(w)
  BY <1>4, <1>12 DEF Clear, Derived, storeVars
<1> QED BY <1>6, <1>7, <1>8, <1>9, <1>10, <1>11, <1>12

\* API calls, failed calls, waits, exits and removals.
LEMMA OtherSteps ==
  ASSUME IInv, TypeOK', NEW w \in Names \ raced,
         Api(w) \/ Restart(w) \/ ConvergeWaits(w) \/ CallFails(w) \/ ContainerExits(w)
           \/ RemovalEnds(w)
  PROVE  WorkloadInv(w)'
<1> USE DEF IInv
<1>1. WorkloadInv(w) /\ ClaimInv(w)
  BY DEF WorkloadInv
<1>2. containers[w] \in SUBSET Container /\ workloads[w] \in Row \cup {NoRow}
  BY DEF TypeOK
<1>3. pass' = pass /\ UNCHANGED files
  BY DEF Api, Insert, Update, MarkDeleting, Suspend, Resume, AcceptRestart, Restart,
         ConvergeWaits, CallFails, ContainerExits, RemovalEnds
<1>4. Derived(containers[w], containers[w])
  BY DEF Derived
<1>5. CASE Api(w) \/ Restart(w)
  <2>1. UNCHANGED <<containers, converging>>
    BY <1>5 DEF Api, Insert, Update, MarkDeleting, Suspend, Resume, AcceptRestart, Restart
  <2>2. workloads[w] # NoRow => Earlier(workloads[w], workloads'[w])
    <3> SUFFICES ASSUME workloads[w] # NoRow PROVE Earlier(workloads[w], workloads'[w])
      OBVIOUS
    <3>1. workloads[w] \in Row
      BY <1>2
    <3>2. ASSUME NEW row \in Row, workloads'[w] = row, row.id = workloads[w].id,
                 Deleted(workloads[w]) => Deleted(row)
          PROVE  Earlier(workloads[w], workloads'[w])
      BY <3>2, LifecycleAssumption DEF Earlier, Row
    <3>3. ASSUME NEW h \in Specs, Update(w, h) PROVE Earlier(workloads[w], workloads'[w])
      <4>1. workloads'[w] = [workloads[w] EXCEPT !.hash = h]
        BY <3>3 DEF Update, TypeOK
      <4> QED BY <3>1, <3>2, <4>1 DEF Row, Deleted
    <3>4. CASE MarkDeleting(w)
      <4>1. workloads'[w] = [workloads[w] EXCEPT !.marks = @ \cup {"deleted"}]
        BY <3>4 DEF MarkDeleting, TypeOK
      <4> QED BY <3>1, <3>2, <4>1 DEF Row, Deleted
    <3>5. CASE Suspend(w)
      <4>1. workloads'[w] = [workloads[w] EXCEPT !.marks = @ \cup {"suspended"}]
        BY <3>5 DEF Suspend, TypeOK
      <4> QED BY <3>1, <3>2, <4>1 DEF Row, Deleted
    <3>6. CASE Resume(w)
      <4>1. workloads'[w] = [workloads[w] EXCEPT !.marks = @ \ {"suspended"}]
        BY <3>6 DEF Resume, TypeOK
      <4> QED BY <3>1, <3>2, <4>1 DEF Row, Deleted
    <3> QED BY <1>5, <3>3, <3>4, <3>5, <3>6
          DEF Api, Insert, AcceptRestart, Restart, Earlier, storeVars
  <2> QED BY <1>1, <1>3, <1>4, <2>1, <2>2, QuietStep
<1>6. ASSUME UNCHANGED workloads, converging'[w] \in {converging[w], Idle},
             Derived(containers'[w], containers[w])
      PROVE  WorkloadInv(w)'
  BY <1>1, <1>3, <1>6, QuietStep DEF Earlier
<1>7. CASE ConvergeWaits(w)
  BY <1>4, <1>6, <1>7 DEF ConvergeWaits, Finish, TypeOK, storeVars
<1>8. CASE ContainerExits(w)
  <2>1. PICK c \in Running(containers[w]) :
          containers'[w] = (containers[w] \ {c}) \cup Exited({c})
    BY <1>8 DEF ContainerExits, TypeOK
  <2>2. c \in containers[w]
    BY <2>1 DEF Running
  <2>3. Derived(containers'[w], containers[w])
    BY <1>2, <2>1, <2>2, ExitShrinks DEF Shrunk
  <2> QED BY <1>6, <1>8, <2>3 DEF ContainerExits, storeVars
<1>9. CASE RemovalEnds(w)
  <2>1. PICK c \in containers[w] : containers' = [containers EXCEPT ![w] = @ \ {c}]
    BY <1>9 DEF RemovalEnds
  <2>2. Derived(containers'[w], containers[w])
    BY <2>1 DEF Derived, TypeOK
  <2> QED BY <1>6, <1>9, <2>2 DEF RemovalEnds, storeVars
<1>10. CASE CallFails(w)
  <2>1. UNCHANGED workloads /\ converging'[w] = Idle
    BY <1>10 DEF CallFails, Finish, TypeOK, storeVars
  <2>2. CASE containers' = containers
    BY <1>4, <1>6, <2>1, <2>2
  <2>3. CASE ~At(w, "start") /\ containers' # containers
    <3>1. \/ containers'[w] \in StopFailures(containers[w])
          \/ containers'[w] \in DiscardFailures(containers[w])
      BY <1>10, <2>3 DEF CallFails, At, TypeOK
    <3>2. Derived(containers'[w], containers[w])
      BY <1>2, <3>1, FailuresShrink DEF Shrunk
    <3> QED BY <1>6, <2>1, <3>2
  <2>4. CASE At(w, "start") /\ containers' # containers
    <3>1. PICK n \in 1..MaxAttempt, status \in {"running", "exited"} :
            /\ IsNextAttempt(containers[w], n)
            /\ containers'[w] = containers[w] \cup {Created(w, n, status)}
      BY <1>10, <2>4 DEF CallFails, At, TypeOK
    <3>2. Created(w, n, status) \in Container /\ Created(w, n, status).attempt = n
      BY <3>1 DEF TypeOK, Created
    <3>3. Running(containers[w]) = {}
      BY <1>1, <2>4 DEF ClaimInv, At
    <3>4. RunningNewest(containers'[w])
      BY <1>2, <3>1, <3>2, <3>3, StartFacts
    <3>5. ClaimInv(w)'
      BY <2>1 DEF ClaimInv, Idle, Holding
    <3> QED BY <1>1, <1>3, <2>1, <2>4, <3>4, <3>5, ClaimStep DEF Holding, Steps, Idle, At
  <2> QED BY <2>2, <2>3, <2>4
<1> QED BY <1>5, <1>7, <1>8, <1>9, <1>10

\* No step gives two containers of a name the same attempt number.
LEMMA UniqueStep ==
  ASSUME IInv, TypeOK', [Next]_vars, NEW w \in Names
  PROVE  Unique(containers'[w])
<1> USE DEF IInv
<1>1. Unique(containers[w]) /\ containers[w] \in SUBSET Container
  BY DEF TypeOK
<1>2. CASE containers'[w] = containers[w]
  BY <1>1, <1>2
<1>3. ASSUME NEW n \in 1..MaxAttempt, NEW status \in {"running", "exited"},
             IsNextAttempt(containers[w], n),
             containers'[w] = containers[w] \cup {Created(w, n, status)}
      PROVE  Unique(containers'[w])
  <2>1. Created(w, n, status) \in Container /\ Created(w, n, status).attempt = n
    BY <1>3 DEF TypeOK, Created
  <2> QED BY <1>1, <1>3, <2>1, StartFacts
<1>4. ASSUME Shrunk(containers'[w], containers[w]) PROVE Unique(containers'[w])
  BY <1>1, <1>4 DEF Shrunk
<1>5. CASE containers'[w] \subseteq containers[w]
  BY <1>1, <1>5 DEF Unique
<1>6. ASSUME NEW v \in Names, Discard(v) \/ Stop(v) \/ Start(v)
      PROVE  Unique(containers'[w])
  <2>1. CASE Discard(v)
    BY <1>2, <1>5, <2>1 DEF Discard, TypeOK
  <2>2. CASE Stop(v)
    BY <1>1, <1>2, <1>4, <2>2, StoppedShrinks DEF Stop, TypeOK
  <2>3. CASE Start(v)
    BY <1>2, <1>3, <2>3 DEF Start, TypeOK
  <2> QED BY <1>6, <2>1, <2>2, <2>3
<1>7. ASSUME NEW v \in Names, CallFails(v) PROVE Unique(containers'[w])
  <2>1. \/ containers'[w] = containers[w]
        \/ containers'[w] \in StopFailures(containers[w])
        \/ containers'[w] \in DiscardFailures(containers[w])
        \/ \E n \in 1..MaxAttempt, status \in {"running", "exited"} :
             /\ IsNextAttempt(containers[w], n)
             /\ containers'[w] = containers[w] \cup {Created(w, n, status)}
    BY <1>7 DEF CallFails, TypeOK
  <2> QED BY <1>1, <1>2, <1>3, <1>4, <2>1, FailuresShrink
<1>8. ASSUME NEW v \in Names, ContainerExits(v) \/ RemovalEnds(v) PROVE Unique(containers'[w])
  <2>1. CASE RemovalEnds(v)
    BY <1>2, <1>5, <2>1 DEF RemovalEnds, TypeOK
  <2>2. CASE ContainerExits(v) /\ v # w
    BY <1>2, <2>2 DEF ContainerExits, TypeOK
  <2>3. CASE ContainerExits(v) /\ v = w
    <3>1. PICK c \in Running(containers[w]) :
            containers'[w] = (containers[w] \ {c}) \cup Exited({c})
      BY <2>3 DEF ContainerExits, TypeOK
    <3>2. c \in containers[w]
      BY <3>1 DEF Running
    <3> QED BY <1>1, <1>4, <3>1, <3>2, ExitShrinks
  <2> QED BY <1>8, <2>1, <2>2, <2>3
<1> QED BY <1>2, <1>6, <1>7, <1>8 DEF Next, PassStep, PassList, PassObserve, PassEnd,
     SpawnConverge, SpawnOrphan, PassFails, PassUnobserved, Crash, Boot, Api, Insert, Update,
     MarkDeleting, Suspend, Resume, AcceptRestart, Restart, ConvergeStep, ConvergeBegin,
     ConvergeWaits, Deliver, Forget, DeleteRow, Clear, vars

-----------------------------------------------------------------------------
(* The theorems.                                                           *)

\* The invariant holds initially.
LEMMA InvInit == Init => IInv
<1> SUFFICES ASSUME Init PROVE IInv
  OBVIOUS
<1>1. Claimed /\ (pass.pc # "observed" => pass.todo = {})
  BY DEF Init, Claimed, Idle, NoPass
<1>2. ASSUME NEW w \in Names
      PROVE  Unique(containers[w]) /\ RunningNewest(containers[w])
  BY DEF Init, Unique, RunningNewest, Running
<1>3. ASSUME NEW w \in Names PROVE WorkloadInv(w)
  <2>1. /\ files[w] = {} /\ converging[w].pc = "idle" /\ pass.pc = "idle"
    BY DEF Init, Idle, NoPass
  <2> QED BY <1>2, <2>1 DEF WorkloadInv, ClaimInv, PassInv, Holding, InPass, Window, IdOf
<1> QED BY <1>1, <1>2, <1>3, TypeInit DEF IInv

\* Every step preserves it.
LEMMA InvStep == IInv /\ [Next]_vars => IInv'
<1> SUFFICES ASSUME IInv, [Next]_vars PROVE IInv'
  OBVIOUS
<1>1. TypeOK' /\ Claimed'
  BY TypeStep, ClaimedStep DEF IInv
<1>2. \A w \in Names : Unique(containers'[w])
  BY <1>1, UniqueStep
<1>3. pass'.pc # "observed" => pass'.todo = {}
  <2>1. CASE pass' = pass
    BY <2>1 DEF IInv
  <2>2. CASE PassStep \/ PassFails \/ PassUnobserved \/ Crash \/ Boot
    <3> USE DEF IInv, TypeOK, Pass
    <3>1. CASE PassList
      BY <3>1 DEF PassList
    <3>2. CASE PassObserve \/ PassUnobserved
      BY <3>2 DEF PassObserve, PassUnobserved
    <3>3. CASE PassEnd \/ PassFails
      BY <3>3 DEF PassEnd, PassFails, Return, NoPass
    <3>4. CASE Crash \/ Boot
      BY <3>4 DEF Crash, Boot, NoPass
    <3>5. ASSUME NEW v \in Names, SpawnConverge(v) \/ SpawnOrphan(v)
          PROVE  pass'.pc # "observed" => pass'.todo = {}
      BY <3>5 DEF SpawnConverge, SpawnOrphan
    <3> QED BY <2>2, <3>1, <3>2, <3>3, <3>4, <3>5 DEF PassStep
  <2> QED BY <2>1, <2>2 DEF Next, Api, Insert, Update, MarkDeleting, Suspend, Resume,
       AcceptRestart, Restart, ConvergeStep, ConvergeBegin, ConvergeWaits, Discard, Stop,
       Deliver, Start, Forget, DeleteRow, Clear, CallFails, ContainerExits, RemovalEnds, vars
<1>4. ASSUME NEW w \in Names \ raced' PROVE WorkloadInv(w)'
  <2>1. CASE PassStep \/ PassFails \/ PassUnobserved \/ Crash \/ Boot
    BY <1>1, <1>4, <2>1, PassSteps
  <2>2. CASE UNCHANGED vars
    BY <1>1, <1>4, <2>2, FrameStep DEF vars, IInv
  <2>3. ASSUME NEW v \in Names, \/ Api(v) \/ Restart(v) \/ ConvergeStep(v) \/ ConvergeWaits(v)
                                \/ CallFails(v) \/ ContainerExits(v) \/ RemovalEnds(v)
        PROVE  WorkloadInv(w)'
    <3>1. raced' = raced /\ pass' = pass
      BY <2>3 DEF Api, Insert, Update, MarkDeleting, Suspend, Resume, AcceptRestart, Restart,
         ConvergeStep, ConvergeBegin, ConvergeWaits, Discard, Stop, Deliver, Start, Forget,
         DeleteRow, Clear, CallFails, ContainerExits, RemovalEnds
    <3>2. WorkloadInv(w)
      BY <1>4, <3>1 DEF IInv
    <3>3. CASE v = w
      BY <1>1, <1>4, <2>3, <3>1, <3>3, BeginStep, CallSteps, OtherSteps DEF ConvergeStep
    <3>4. CASE v # w
      <4>1. workloads'[w] = workloads[w]
        BY <2>3, <3>4 DEF IInv, TypeOK, storeVars, Api, Insert, Update, MarkDeleting, Suspend,
           Resume, AcceptRestart, Restart, ConvergeStep, ConvergeBegin, ConvergeWaits, Discard,
           Stop, Deliver, Start, Forget, DeleteRow, Clear, CallFails, ContainerExits, RemovalEnds
      <4>2. containers'[w] = containers[w]
        BY <2>3, <3>4 DEF IInv, TypeOK, storeVars, Api, Insert, Update, MarkDeleting, Suspend,
           Resume, AcceptRestart, Restart, ConvergeStep, ConvergeBegin, ConvergeWaits, Discard,
           Stop, Deliver, Start, Forget, DeleteRow, Clear, CallFails, ContainerExits, RemovalEnds
      <4>3. files'[w] = files[w]
        BY <2>3, <3>4 DEF IInv, TypeOK, storeVars, Api, Insert, Update, MarkDeleting, Suspend,
           Resume, AcceptRestart, Restart, ConvergeStep, ConvergeBegin, ConvergeWaits, Discard,
           Stop, Deliver, Start, Forget, DeleteRow, Clear, CallFails, ContainerExits, RemovalEnds
      <4>4. converging'[w] = converging[w]
        BY <2>3, <3>4 DEF IInv, TypeOK, storeVars, Api, Insert, Update, MarkDeleting, Suspend,
           Resume, AcceptRestart, Restart, ConvergeStep, ConvergeBegin, Teardown, Hold,
           ConvergeSlot, ConvergeWaits, Discard, Stop, Deliver, Start, Forget, DeleteRow, Clear,
           CallFails, ContainerExits, RemovalEnds, Goto, Finish
      <4> QED BY <1>1, <1>4, <3>1, <3>2, <4>1, <4>2, <4>3, <4>4, FrameStep DEF IInv
    <3> QED BY <3>3, <3>4
  <2> QED BY <2>1, <2>2, <2>3 DEF Next
<1> QED BY <1>1, <1>2, <1>3, <1>4 DEF IInv

\* The inductive invariant holds in every reachable state.
THEOREM Invariance == Spec => []IInv
BY InvInit, InvStep, PTL DEF Spec

\* A workload of one instance never has two containers up, unless a converge of it
\* was begun from snapshots taken during another.
THEOREM OneInstanceHolds == Spec => []OneInstance
<1>1. IInv => OneInstance
  <2> SUFFICES ASSUME IInv, NEW w \in Names \ raced,
                      NEW c \in Running(containers[w]), NEW d \in Running(containers[w])
               PROVE  c = d
    BY DEF OneInstance, AtMostOneRunning
  <2>1. RunningNewest(containers[w]) /\ Unique(containers[w])
        /\ containers[w] \in SUBSET Container
    BY DEF IInv, WorkloadInv, TypeOK
  <2>2. c \in containers[w] /\ d \in containers[w]
    BY DEF Running
  <2>3. c.attempt \in Nat /\ d.attempt \in Nat
    BY <2>1, <2>2 DEF Container
  <2>4. c.attempt <= d.attempt /\ d.attempt <= c.attempt
    BY <2>1, <2>2 DEF RunningNewest
  <2>5. c.attempt = d.attempt
    BY <2>3, <2>4
  <2> QED BY <2>1, <2>2, <2>5 DEF Unique
<1> QED BY <1>1, Invariance, PTL

\* What is mounted on disk under a name belongs to the row stored there now, so a
\* secret's plaintext never outlives its workload.
THEOREM NoFilesWithoutRowHolds == Spec => []NoFilesWithoutRow
<1>1. IInv => NoFilesWithoutRow
  BY DEF IInv, WorkloadInv, NoFilesWithoutRow
<1> QED BY <1>1, Invariance, PTL

\* The row is the last thing to go.
THEOREM RowGoesLastHolds == Spec => RowGoesLast
<1> DEFINE A == \A w \in Names \ raced :
                  workloads[w] # NoRow /\ workloads'[w] = NoRow =>
                    Deleted(workloads[w]) /\ containers[w] = {} /\ files[w] = {}
<1>1. IInv /\ IInv' /\ [Next]_vars => [A]_vars
  <2> SUFFICES ASSUME IInv, [Next]_vars, NEW w \in Names \ raced,
                      workloads[w] # NoRow, workloads'[w] = NoRow
               PROVE  Deleted(workloads[w]) /\ containers[w] = {} /\ files[w] = {}
    OBVIOUS
  <2>1. workloads[w] \in Row /\ NoRow \notin Row
    BY LifecycleAssumption DEF IInv, TypeOK, Row
  <2>2. workloads' # workloads
    OBVIOUS
  <2>3. PICK v \in Names : Api(v) \/ DeleteRow(v)
    BY <2>2 DEF Next, PassStep, PassList, PassObserve, PassEnd, SpawnConverge, SpawnOrphan,
       PassFails, PassUnobserved, Crash, Boot, Restart, ConvergeStep, ConvergeBegin,
       ConvergeWaits, Discard, Stop, Deliver, Start, Forget, Clear, CallFails, ContainerExits,
       RemovalEnds, storeVars, vars
  <2>4. ~Api(v)
    <3> SUFFICES ASSUME Api(v) PROVE FALSE
      OBVIOUS
    <3>1. workloads'[w] = workloads[w] \/ v = w
      BY DEF IInv, TypeOK, Api, Insert, Update, MarkDeleting, Suspend, Resume, AcceptRestart,
         storeVars
    <3>2. v = w
      BY <3>1
    <3>3. ASSUME NEW h \in Specs, Insert(w, h) \/ Update(w, h) PROVE workloads'[w] \in Row
      BY <2>1, <3>3 DEF IInv, TypeOK, Insert, Update, Row
    <3>4. CASE MarkDeleting(w) \/ Suspend(w) \/ Resume(w)
      <4>1. workloads'[w] \in Row
        BY <2>1, <3>4 DEF IInv, TypeOK, MarkDeleting, Suspend, Resume, Row
      <4> QED BY <2>1, <4>1
    <3> QED BY <2>1, <3>2, <3>3, <3>4 DEF Api, AcceptRestart, storeVars
  <2>5. v = w /\ converging[w].pc = "delete"
    BY <2>3, <2>4 DEF DeleteRow, At, IInv, TypeOK
  <2> QED BY <2>5 DEF IInv, WorkloadInv, ClaimInv, Earlier, Holding, Steps
<1> QED BY <1>1, Invariance, PTL DEF Spec, RowGoesLast

\* Neither a teardown, a suspension nor the prune takes files from under a running
\* container.
THEOREM ReadersKeepFilesHolds == Spec => ReadersKeepFiles
<1> DEFINE A == \A w \in Names \ raced :
                  files[w] \ files'[w] # {} => Running(containers[w]) = {}
<1>1. IInv /\ [Next]_vars => [A]_vars
  <2> SUFFICES ASSUME IInv, [Next]_vars, NEW w \in Names \ raced, files[w] \ files'[w] # {}
               PROVE  Running(containers[w]) = {}
    OBVIOUS
  <2>1. files' # files
    OBVIOUS
  <2>2. CASE PassEnd
    \* Impossible: what is on disk belongs to the row the pass listed.
    <3>1. files[w] \subseteq IdOf(pass.rows[w])
      BY <2>2 DEF IInv, WorkloadInv, PassInv, InPass, PassEnd
    <3> QED BY <2>2, <3>1 DEF PassEnd, Pruned, IdOf
  <2>3. ASSUME NEW v \in Names, Deliver(v) PROVE FALSE
    BY <2>3 DEF Deliver, IInv, TypeOK
  <2>4. ASSUME NEW v \in Names, Forget(v) PROVE Running(containers[w]) = {}
    <3>1. v = w /\ converging[w].pc \in {"forget", "unmount"}
      BY <2>4 DEF Forget, At, IInv, TypeOK
    <3> QED BY <3>1 DEF IInv, WorkloadInv, ClaimInv, Running
  <2> QED BY <2>1, <2>2, <2>3, <2>4 DEF Next, PassStep, PassList, PassObserve, SpawnConverge,
       SpawnOrphan, PassFails, PassUnobserved, Crash, Boot, Api, Insert, Update, MarkDeleting,
       Suspend, Resume, AcceptRestart, Restart, ConvergeStep, ConvergeBegin, ConvergeWaits,
       Discard, Stop, Start, DeleteRow, Clear, CallFails, ContainerExits, RemovalEnds, vars
<1> QED BY <1>1, Invariance, PTL DEF Spec, ReadersKeepFiles
==============================================================================

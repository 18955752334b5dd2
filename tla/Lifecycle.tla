------------------------------ MODULE Lifecycle ------------------------------
(***************************************************************************)
(* The life of a workload, from the apply that stores its row to the       *)
(* teardown that removes it: the desired-state table, the reconciler's     *)
(* passes, the converges a pass spawns and does not wait for, and the      *)
(* containers of the docker runtime.                                       *)
(*                                                                         *)
(* Every workload here runs one instance; the slots of a counted workload  *)
(* are a matter of their own.  A pass lists the rows, observes the         *)
(* runtime, and then claims each workload and spawns a converge that acts  *)
(* on the two snapshots.  Each store, disk or runtime call of a converge   *)
(* is a step, so API calls, exits, crashes and the next pass fall between  *)
(* any two of them.                                                        *)
(***************************************************************************)
EXTENDS Naturals, FiniteSets

CONSTANTS
  Names,        \* the names workloads are applied under
  Specs,        \* specification hashes
  OneShot,      \* the hashes whose restart policy leaves an ended instance alone
  NoRow,        \* no row under a name
  PruneEvery,   \* a pass in this many prunes (64 in the code)
  MaxIds,       \* bound: rows ever inserted under one name
  MaxAttempt,   \* bound: attempt number of a container
  MaxOps,       \* bound: API calls
  MaxFaults     \* bound: crashes, exits, failed calls, waits and overlapping passes

ASSUME LifecycleAssumption ==
  /\ OneShot \subseteq Specs
  /\ PruneEvery \in Nat \ {0}
  /\ MaxIds \in Nat /\ MaxAttempt \in Nat /\ MaxOps \in Nat /\ MaxFaults \in Nat
  /\ NoRow \notin [id : Nat, hash : Specs, marks : SUBSET {"deleted", "suspended"}]

VARIABLES
  workloads,    \* the workload table: the row stored under each name
  ids,          \* how many identifiers were issued under each name
  containers,   \* what docker holds for each name
  files,        \* the identifiers with mounted values on disk, under each name
  pass,         \* the reconcile pass: where it is, and its snapshots
  converging,   \* the converge holding each name, with the snapshots it was given
  asking,       \* restart calls the service accepted and has yet to record
  restarts,     \* restart requests not yet consumed; the code keeps a flag per
                \* name, and the identifiers asked for are kept here as history
  replacing,    \* slots marked for replacement, with the same history
  raced,        \* history: names a converge was begun on with snapshots taken
                \* while an earlier converge of the name was still acting
  ops, faults   \* how much of the two bounds is used

storeVars == <<workloads, ids>>
memVars   == <<asking, restarts, replacing>>
vars == <<workloads, ids, containers, files, pass, converging, asking, restarts,
          replacing, raced, ops, faults>>

None == [w \in Names |-> {}]

\* A row carries the marks its deleted_at and suspended_at columns set.
Row == [id : Nat, hash : Specs, marks : SUBSET {"deleted", "suspended"}]

Deleted(row) == "deleted" \in row.marks

Suspended(row) == "suspended" \in row.marks

Container == [attempt : Nat, hash : Specs,
              status : {"running", "exited", "removing"}]

\* Where a converge is: the call it makes next.
Steps == {"idle", "begin", "discardLive", "discard", "forget", "delete", "clear",
          "stop", "unmount", "settle", "stopInstance", "deliver", "start", "orphan"}

Converge == [pc : Steps, row : Row \cup {NoRow}, obs : SUBSET Container]

Pass == [pc : {"idle", "listed", "observed", "down"},
         rows : [Names -> Row \cup {NoRow}], obs : [Names -> SUBSET Container],
         todo : SUBSET Names, dirty : SUBSET Names, began : Nat]

Idle == [pc |-> "idle", row |-> NoRow, obs |-> {}]

NoPass == [pc |-> "idle", rows |-> [w \in Names |-> NoRow],
           obs |-> [w \in Names |-> {}], todo |-> {}, dirty |-> {}, began |-> 0]

Init ==
  /\ workloads = [w \in Names |-> NoRow]
  /\ ids = [w \in Names |-> 0]
  \* A container whose row is gone, left by an earlier life of the database.
  /\ \E left \in SUBSET Names, s \in Specs :
       containers = [w \in Names |-> IF w \in left
                       THEN {[attempt |-> 1, hash |-> s, status |-> "running"]} ELSE {}]
  /\ files = [w \in Names |-> {}]
  /\ pass = NoPass
  /\ converging = [w \in Names |-> Idle]
  /\ asking = None /\ restarts = None /\ replacing = None /\ raced = {}
  /\ ops = 0 /\ faults = 0

-----------------------------------------------------------------------------
(* What the docker driver reports and does.                                *)

\* A container is superseded once its instance has one with a higher attempt.
\* What is left is what a pass decides from.
Visible(cs) == {c \in cs : \A d \in cs : d.attempt <= c.attempt}

Running(cs) == {c \in cs : c.status = "running"}

\* The number nextAttempt gives: one past the highest held.
IsNextAttempt(cs, n) ==
  /\ \A c \in cs : c.attempt < n
  /\ n = 1 \/ \E c \in cs : c.attempt = n - 1

\* Stopping leaves a container docker is already removing to its removal.
Exited(cs) == {[c EXCEPT !.status = IF @ = "removing" THEN @ ELSE "exited"] : c \in cs}

\* Stop keeps the newest container, stopped, and removes every other one.
Stopped(cs) == Exited(Visible(cs))

\* A stop that failed: some containers were stopped and some of the older of
\* those removed.
StopFailures(cs) ==
  UNION {{(cs \ s) \cup Exited(s \ g) : g \in SUBSET (cs \ Visible(cs))} : s \in SUBSET cs}

\* A discard that failed: something is left, as it was, stopped, or under removal.
DiscardFailures(cs) ==
  UNION {{left, Exited(left), {[c EXCEPT !.status = "removing"] : c \in left}}
           : left \in (SUBSET cs) \ {{}}}

-----------------------------------------------------------------------------
(* Bounds.                                                                 *)

Op == ops < MaxOps /\ ops' = ops + 1 /\ UNCHANGED faults

Fault == faults < MaxFaults /\ faults' = faults + 1 /\ UNCHANGED ops

NoFault == UNCHANGED <<ops, faults>>

Up == pass.pc # "down"

-----------------------------------------------------------------------------
(* The API.  Each call is one database statement or transaction, or one    *)
(* write of the reconciler's memory, followed by a nudge.                  *)

\* Upsert of a name with no row.
Insert(w, s) ==
  /\ Up /\ Op
  /\ workloads[w] = NoRow
  /\ ids[w] < MaxIds
  /\ ids' = [ids EXCEPT ![w] = @ + 1]
  /\ workloads' = [workloads EXCEPT ![w] =
       [id |-> ids[w] + 1, hash |-> s, marks |-> {}]]
  /\ UNCHANGED <<containers, files, pass, converging, memVars, raced>>

\* Upsert of a changed specification.  A row marked for deletion refuses it, and
\* an unchanged hash leaves the row alone.
Update(w, s) ==
  /\ Up /\ Op
  /\ workloads[w] # NoRow
  /\ ~Deleted(workloads[w])
  /\ workloads[w].hash # s
  /\ workloads' = [workloads EXCEPT ![w].hash = s]
  /\ UNCHANGED <<ids, containers, files, pass, converging, memVars, raced>>

\* Marking is idempotent, so a second mark changes nothing.
MarkDeleting(w) ==
  /\ Up /\ Op
  /\ workloads[w] # NoRow
  /\ ~Deleted(workloads[w])
  /\ workloads' = [workloads EXCEPT ![w].marks = @ \cup {"deleted"}]
  /\ UNCHANGED <<ids, containers, files, pass, converging, memVars, raced>>

\* The service refuses a row marked for deletion, but reads it in a statement of
\* its own: a delete may land before the update, which names the row by its name
\* and suspension alone.
Suspend(w) ==
  /\ Up /\ Op
  /\ workloads[w] # NoRow
  /\ ~Suspended(workloads[w])
  /\ workloads' = [workloads EXCEPT ![w].marks = @ \cup {"suspended"}]
  /\ UNCHANGED <<ids, containers, files, pass, converging, memVars, raced>>

Resume(w) ==
  /\ Up /\ Op
  /\ workloads[w] # NoRow
  /\ Suspended(workloads[w])
  /\ workloads' = [workloads EXCEPT ![w].marks = @ \ {"suspended"}]
  /\ UNCHANGED <<ids, containers, files, pass, converging, memVars, raced>>

\* The service reads the row, and refuses one that is going or held down ...
AcceptRestart(w) ==
  /\ Up /\ Op
  /\ workloads[w] # NoRow
  /\ ~Deleted(workloads[w]) /\ ~Suspended(workloads[w])
  /\ asking' = [asking EXCEPT ![w] = @ \cup {workloads[w].id}]
  /\ UNCHANGED <<storeVars, containers, files, pass, converging, restarts, replacing, raced>>

\* ... and then leaves the request with the reconciler, under the name.
Restart(w) ==
  /\ \E id \in asking[w] :
       /\ asking' = [asking EXCEPT ![w] = @ \ {id}]
       /\ restarts' = [restarts EXCEPT ![w] = @ \cup {id}]
  /\ NoFault
  /\ UNCHANGED <<storeVars, containers, files, pass, converging, replacing, raced>>

-----------------------------------------------------------------------------
(* A reconcile pass.  Passes never overlap one another, but the converges  *)
(* of earlier ones may still be acting.                                    *)

Active(w) == converging[w].pc # "idle"

Began == (pass.began + 1) % PruneEvery

\* A pass returns: the next may begin.
Return == pass' = [NoPass EXCEPT !.began = Began]

\* List the rows.  A pass that begins while converges are in flight is counted
\* against MaxFaults, so that only so many of them overlap.
PassList ==
  /\ pass.pc = "idle"
  /\ IF \E w \in Names : Active(w) THEN Fault ELSE NoFault
  /\ pass' = [pass EXCEPT !.pc = "listed", !.rows = workloads,
                          !.dirty = {w \in Names : Active(w)}]
  /\ UNCHANGED <<storeVars, containers, files, converging, memVars, raced>>

\* The rows could not be listed, no driver answered, or the ports could not be read.
PassFails ==
  /\ pass.pc \in {"idle", "listed"}
  /\ Fault
  /\ Return
  /\ UNCHANGED <<storeVars, containers, files, converging, memVars, raced>>

\* Observe the runtime: every row, and every name the runtime holds work for.
PassObserve ==
  /\ pass.pc = "listed"
  /\ pass' = [pass EXCEPT !.pc = "observed", !.obs = containers,
       !.todo = {w \in Names : pass.rows[w] # NoRow \/ containers[w] # {}}]
  /\ NoFault
  /\ UNCHANGED <<storeVars, containers, files, converging, memVars, raced>>

\* Mutant of PassUnobserved: a runtime that did not answer is taken to hold nothing.
PassTakesSilenceForEmpty ==
  /\ pass.pc = "listed"
  /\ Fault
  /\ pass' = [pass EXCEPT !.pc = "observed", !.todo = {w \in Names : pass.rows[w] # NoRow}]
  /\ UNCHANGED <<storeVars, containers, files, converging, memVars, raced>>

\* Docker did not answer and the other driver did: nothing is known of what the
\* workloads run, so each is skipped.  The pass goes on to its sweep and its prune.
PassUnobserved ==
  /\ pass.pc = "listed"
  /\ Fault
  /\ pass' = [pass EXCEPT !.pc = "observed"]
  /\ UNCHANGED <<storeVars, containers, files, converging, memVars, raced>>

\* begin refuses a name an earlier converge still holds.
Begin(w) == ~Active(w)

\* Claim a workload and spawn its converge, with the row and the observation of
\* this pass, or leave it to a later pass.
SpawnConverge(w) ==
  /\ pass.pc = "observed" /\ w \in pass.todo /\ pass.rows[w] # NoRow
  /\ pass' = [pass EXCEPT !.todo = @ \ {w}]
  /\ IF Begin(w)
       THEN /\ converging' = [converging EXCEPT ![w] =
                 [pc |-> "begin", row |-> pass.rows[w], obs |-> pass.obs[w]]]
            /\ raced' = raced \cup (pass.dirty \cap {w})
       ELSE UNCHANGED <<converging, raced>>
  /\ NoFault
  /\ UNCHANGED <<storeVars, containers, files, memVars>>

\* Once every row has been seen to, sweep what the runtime holds for no row.
SpawnOrphan(w) ==
  /\ pass.pc = "observed" /\ w \in pass.todo
  /\ \A v \in pass.todo : pass.rows[v] = NoRow
  /\ pass' = [pass EXCEPT !.todo = @ \ {w}]
  /\ IF Begin(w)
       THEN /\ converging' = [converging EXCEPT ![w] =
                 [pc |-> "orphan", row |-> NoRow, obs |-> pass.obs[w]]]
            /\ raced' = raced \cup (pass.dirty \cap {w})
       ELSE UNCHANGED <<converging, raced>>
  /\ NoFault
  /\ UNCHANGED <<storeVars, containers, files, memVars>>

\* mounts.Prune removes the values of every identifier the pass did not list.
Pruned(w) == files[w] \cap (IF pass.rows[w] = NoRow THEN {} ELSE {pass.rows[w].id})

\* The pass ends, pruning first when its turn has come.
PassEnd ==
  /\ pass.pc = "observed" /\ pass.todo = {}
  /\ Return
  /\ files' = IF pass.began = 0 THEN [w \in Names |-> Pruned(w)] ELSE files
  /\ NoFault
  /\ UNCHANGED <<storeVars, containers, converging, memVars, raced>>

-----------------------------------------------------------------------------
(* A converge, from the claim to the return that releases it.              *)

At(w, step) == converging[w].pc = step

Goto(w, step) == converging' = [converging EXCEPT ![w].pc = step]

Finish(w) == converging' = [converging EXCEPT ![w] = Idle]

Seen(w) == Visible(converging[w].obs)

Terminating(w) == \E c \in Seen(w) : c.status = "removing"

SeenRunning(w) == Running(Seen(w)) # {}

\* Mutant of Teardown: what docker is removing is taken to be gone.
TeardownPastRemoval(w) ==
  /\ IF Seen(w) = {} \/ Terminating(w) THEN Goto(w, "forget") ELSE Goto(w, "discardLive")
  /\ UNCHANGED memVars

\* Mutant of Teardown: live work is stopped, which keeps its newest container.
TeardownStops(w) ==
  /\ IF Seen(w) = {} THEN Goto(w, "discard") ELSE Goto(w, "stop")
  /\ UNCHANGED memVars

\* The row is marked for deletion.  Live work is discarded and the row left for a
\* later pass; with none in sight the teardown goes through to the row.
Teardown(w) ==
  /\ \/ Seen(w) # {} /\ Terminating(w) /\ Finish(w)
     \/ Seen(w) # {} /\ ~Terminating(w) /\ Goto(w, "discardLive")
     \/ Seen(w) = {} /\ Goto(w, "discard")
  /\ UNCHANGED memVars

\* Mutant of Hold: the values are cleared without stopping what reads them.
HoldUnmountsFirst(w) ==
  /\ IF Terminating(w) THEN Finish(w) ELSE Goto(w, "unmount")
  /\ UNCHANGED memVars

\* The row is suspended: stop what is up, or clear what a stopped workload leaves.
Hold(w) ==
  /\ \/ Terminating(w) /\ Finish(w)
     \/ ~Terminating(w) /\ SeenRunning(w) /\ Goto(w, "stop")
     \/ ~Terminating(w) /\ ~SeenRunning(w) /\ Goto(w, "unmount")
  /\ UNCHANGED memVars

Marked(w) == replacing[w] \cup restarts[w] # {}

ConsumeRestart(w) == restarts' = [restarts EXCEPT ![w] = {}]

ClearReplacing(w) == replacing' = [replacing EXCEPT ![w] = {}]

\* staleSlot: an instance started from another specification, or one an operator
\* asked to have replaced.
StaleSlot(w) ==
  /\ Seen(w) # {}
  /\ Marked(w) \/ \E c \in Seen(w) : c.hash # converging[w].row.hash

\* The one slot of a workload that is wanted.  A pending restart request becomes
\* the slot's mark, which is cleared once the slot is replaced or found empty.
ConvergeSlot(w) ==
  /\ ConsumeRestart(w)
  /\ \/ /\ Terminating(w)
        /\ replacing' = [replacing EXCEPT ![w] = @ \cup restarts[w]]
        /\ Finish(w)
     \/ /\ ~Terminating(w)
        /\ ClearReplacing(w)
        /\ CASE StaleSlot(w) -> Goto(w, "stopInstance")
             [] ~StaleSlot(w) /\ SeenRunning(w) -> Finish(w)
             [] ~StaleSlot(w) /\ ~SeenRunning(w) /\ Seen(w) # {} ->
                  IF converging[w].row.hash \in OneShot
                    THEN Finish(w) ELSE Goto(w, "stopInstance")
             [] Seen(w) = {} -> Goto(w, "deliver")

ConvergeBegin(w) ==
  LET row == converging[w].row IN
  /\ At(w, "begin")
  /\ \/ Deleted(row) /\ Teardown(w)
     \/ ~Deleted(row) /\ Suspended(row) /\ Hold(w)
     \/ ~Deleted(row) /\ ~Suspended(row) /\ ConvergeSlot(w)
  /\ NoFault
  /\ UNCHANGED <<storeVars, containers, files, pass, asking, raced>>

\* The slot is inside its backoff window, or the readiness gate holds its first
\* start.  A restart request met by the wait is consumed all the same.
ConvergeWaits(w) ==
  /\ At(w, "begin")
  /\ ~Deleted(converging[w].row) /\ ~Suspended(converging[w].row)
  /\ ~Terminating(w) /\ ~StaleSlot(w) /\ ~SeenRunning(w)
  /\ Seen(w) = {} \/ converging[w].row.hash \notin OneShot
  /\ ConsumeRestart(w) /\ ClearReplacing(w)
  /\ Fault
  /\ Finish(w)
  /\ UNCHANGED <<storeVars, containers, files, pass, asking, raced>>

\* Driver calls that succeed: stop what is live of a deleted workload, discard
\* what is kept of it, stop a suspended one, clear the slot, sweep an orphan.
Discard(w) ==
  /\ \/ At(w, "discardLive") /\ Finish(w)
     \/ At(w, "discard") /\ Goto(w, "forget")
     \/ At(w, "orphan") /\ Finish(w)
  /\ containers' = [containers EXCEPT ![w] = {}]
  /\ NoFault
  /\ UNCHANGED <<storeVars, files, pass, memVars, raced>>

Stop(w) ==
  /\ \/ At(w, "stop") /\ Finish(w)
     \/ At(w, "stopInstance") /\ Goto(w, "deliver")
  /\ containers' = [containers EXCEPT ![w] = Stopped(@)]
  /\ NoFault
  /\ UNCHANGED <<storeVars, files, pass, memVars, raced>>

\* The mounted values are written ahead of the start.
Deliver(w) ==
  /\ At(w, "deliver")
  /\ files' = [files EXCEPT ![w] = @ \cup {converging[w].row.id}]
  /\ Goto(w, "start")
  /\ NoFault
  /\ UNCHANGED <<storeVars, containers, pass, memVars, raced>>

\* The container Start creates.
Created(w, n, status) ==
  [attempt |-> n, hash |-> converging[w].row.hash, status |-> status]

Start(w) ==
  /\ At(w, "start")
  /\ \E n \in 1..MaxAttempt :
       /\ IsNextAttempt(containers[w], n)
       /\ containers' = [containers EXCEPT ![w] = @ \cup {Created(w, n, "running")}]
  /\ Finish(w)
  /\ NoFault
  /\ UNCHANGED <<storeVars, files, pass, memVars, raced>>

\* Mutant of Forget: a teardown leaves the values to the prune.
ForgetOnlySuspended(w) ==
  /\ \/ At(w, "forget") /\ Goto(w, "delete") /\ UNCHANGED files
     \/ /\ At(w, "unmount") /\ Goto(w, "settle")
        /\ files' = [files EXCEPT ![w] = @ \ {converging[w].row.id}]
  /\ NoFault
  /\ UNCHANGED <<storeVars, containers, pass, memVars, raced>>

\* mounts.Forget removes the values of a workload nothing runs for.
Forget(w) ==
  /\ \/ At(w, "forget") /\ Goto(w, "delete")
     \/ At(w, "unmount") /\ Goto(w, "settle")
  /\ files' = [files EXCEPT ![w] = @ \ {converging[w].row.id}]
  /\ NoFault
  /\ UNCHANGED <<storeVars, containers, pass, memVars, raced>>

\* workloads.Delete names the row by its name alone, and fails when there is none.
DeleteRow(w) ==
  /\ At(w, "delete")
  /\ workloads' = [workloads EXCEPT ![w] = NoRow]
  /\ IF workloads[w] = NoRow THEN Finish(w) ELSE Goto(w, "clear")
  /\ NoFault
  /\ UNCHANGED <<ids, containers, files, pass, memVars, raced>>

\* A restart asked for before the deletion or the suspension dies with it.
Clear(w) ==
  /\ At(w, "clear") \/ At(w, "settle")
  /\ ConsumeRestart(w) /\ ClearReplacing(w)
  /\ Finish(w)
  /\ NoFault
  /\ UNCHANGED <<storeVars, containers, files, pass, asking, raced>>

\* A call that fails ends the converge, leaving the rest to a later pass.
CallFails(w) ==
  /\ Fault
  /\ \/ /\ converging[w].pc \in {"discardLive", "discard", "orphan"}
        /\ \E left \in DiscardFailures(containers[w]) :
             containers' = [containers EXCEPT ![w] = left]
     \/ /\ converging[w].pc \in {"stop", "stopInstance"}
        /\ \E left \in StopFailures(containers[w]) :
             containers' = [containers EXCEPT ![w] = left]
     \/ \* The image is still being pulled, or the container would not start and
        \* was removed, or could not be removed either.
        /\ At(w, "start")
        /\ \/ UNCHANGED containers
           \/ \E n \in 1..MaxAttempt, status \in {"running", "exited"} :
                /\ IsNextAttempt(containers[w], n)
                /\ containers' = [containers EXCEPT
                                    ![w] = @ \cup {Created(w, n, status)}]
     \/ /\ converging[w].pc \in {"deliver", "forget", "unmount", "delete"}
        /\ UNCHANGED containers
  /\ Finish(w)
  /\ UNCHANGED <<storeVars, files, pass, memVars, raced>>

ConvergeStep(w) ==
  \/ ConvergeBegin(w) \/ Discard(w) \/ Stop(w) \/ Deliver(w) \/ Start(w)
  \/ Forget(w) \/ DeleteRow(w) \/ Clear(w)

-----------------------------------------------------------------------------
(* The world around the server.                                            *)

\* An instance ends on its own.
ContainerExits(w) ==
  /\ Fault
  /\ \E c \in Running(containers[w]) :
       containers' = [containers EXCEPT ![w] = (@ \ {c}) \cup Exited({c})]
  /\ UNCHANGED <<storeVars, files, pass, converging, memVars, raced>>

\* A removal docker was still about completes.
RemovalEnds(w) ==
  /\ \E c \in containers[w] :
       /\ c.status = "removing"
       /\ containers' = [containers EXCEPT ![w] = @ \ {c}]
  /\ NoFault
  /\ UNCHANGED <<storeVars, files, pass, converging, memVars, raced>>

\* The server dies between any two calls.  The table, the disk and the runtime
\* stay as they are; everything in memory is lost.
Crash ==
  /\ Up
  /\ Fault
  /\ pass' = [NoPass EXCEPT !.pc = "down"]
  /\ converging' = [w \in Names |-> Idle]
  /\ asking' = None /\ restarts' = None /\ replacing' = None
  /\ UNCHANGED <<storeVars, containers, files, raced>>

Boot ==
  /\ ~Up
  /\ pass' = NoPass
  /\ NoFault
  /\ UNCHANGED <<storeVars, containers, files, converging, memVars, raced>>

-----------------------------------------------------------------------------

PassStep ==
  \/ PassList \/ PassObserve \/ PassEnd
  \/ \E w \in Names : SpawnConverge(w) \/ SpawnOrphan(w)

Api(w) ==
  \/ \E s \in Specs : Insert(w, s) \/ Update(w, s)
  \/ MarkDeleting(w) \/ Suspend(w) \/ Resume(w) \/ AcceptRestart(w)

Next ==
  \/ PassStep \/ PassFails \/ PassUnobserved \/ Crash \/ Boot
  \/ \E w \in Names : \/ Api(w) \/ Restart(w)
                      \/ ConvergeStep(w) \/ ConvergeWaits(w) \/ CallFails(w)
                      \/ ContainerExits(w) \/ RemovalEnds(w)

Spec == Init /\ [][Next]_vars

\* The loop runs on a ticker, every converge is a goroutine, docker finishes its
\* removals, and the server is brought back up.  Nothing is asked of the operator.
Fairness ==
  /\ WF_vars(PassStep) /\ WF_vars(Boot)
  /\ \A w \in Names : WF_vars(Restart(w)) /\ WF_vars(ConvergeStep(w)) /\ WF_vars(RemovalEnds(w))

FairSpec == Spec /\ Fairness

-----------------------------------------------------------------------------
(* Properties.                                                             *)

\* The type invariant: every row, container, snapshot and claim has its shape.
TypeOK ==
  /\ workloads \in [Names -> Row \cup {NoRow}]
  /\ ids \in [Names -> Nat]
  /\ containers \in [Names -> SUBSET Container]
  /\ files \in [Names -> SUBSET Nat]
  /\ pass \in Pass
  /\ converging \in [Names -> Converge]
  /\ asking \in [Names -> SUBSET Nat] /\ restarts \in [Names -> SUBSET Nat]
  /\ replacing \in [Names -> SUBSET Nat] /\ raced \in SUBSET Names
  /\ ops \in Nat /\ faults \in Nat

AtMostOneRunning(w) == \A c, d \in Running(containers[w]) : c = d

\* A workload of one instance never has two containers up at once, whatever
\* fails, exits or is applied between a converge's observation, stop and start, as
\* long as no converge of it was begun from snapshots taken during another.
OneInstance == \A w \in Names \ raced : AtMostOneRunning(w)

IdOf(row) == IF row = NoRow THEN {} ELSE {row.id}

\* Mounted values, a secret's plaintext among them, never outlive their row: what
\* is on disk under a name belongs to the row stored there now.
NoFilesWithoutRow == \A w \in Names \ raced : files[w] \subseteq IdOf(workloads[w])

\* "The row is the last thing to go": a row that goes was marked for deletion, and
\* neither a container nor a mounted value of the workload is left.
RowGoesLast ==
  [][\A w \in Names \ raced :
       workloads[w] # NoRow /\ workloads'[w] = NoRow =>
         Deleted(workloads[w]) /\ containers[w] = {} /\ files[w] = {}]_vars

\* Neither a teardown, a suspension nor the prune takes mounted values from under
\* a running container.
ReadersKeepFiles ==
  [][\A w \in Names \ raced :
       files[w] \ files'[w] # {} => Running(containers[w]) = {}]_vars

\* What a workload looks like once takt has nothing left to do for it.
Settled(w) ==
  LET row == workloads[w]
      seen == Visible(containers[w])
  IN  \/ row = NoRow /\ containers[w] = {} /\ files[w] = {}
      \/ /\ row # NoRow /\ ~Deleted(row) /\ Suspended(row)
         /\ Running(seen) = {} /\ files[w] = {}
      \/ /\ row # NoRow /\ ~Deleted(row) /\ ~Suspended(row)
         /\ \E c \in seen : c.hash = row.hash
         /\ Running(seen) # {} \/ row.hash \in OneShot

\* Once calls, faults and API requests stop, every workload reaches its desired
\* state and stays there: a deletion completes, an orphan is swept, a suspended
\* workload is down and clean, and any other runs its current specification.
Converges == <>[](\A w \in Names : Settled(w))

-----------------------------------------------------------------------------
(* What the code's own words claim, and the code does not do.              *)

\* OneInstance with no exception: "a second converge would race the first".
OneInstanceAlways == \A w \in Names : AtMostOneRunning(w)

\* A teardown only ever removes a row that is marked for deletion.
OnlyMarkedRowsGo ==
  [][\A w \in Names :
       workloads[w] # NoRow /\ workloads'[w] = NoRow => Deleted(workloads[w])]_vars

\* A restart asked of a workload that has been deleted does not lie in wait for a
\* later workload of the same name.
RestartDiesWithWorkload ==
  \A w \in Names :
    workloads[w] # NoRow /\ ~Active(w) => restarts[w] \subseteq {workloads[w].id}
==============================================================================

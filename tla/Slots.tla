-------------------------------- MODULE Slots --------------------------------
(***************************************************************************)
(* How the reconciler converges one workload of several instances.  A pass *)
(* reads the row and the port rows, observes what runs, and then decides   *)
(* slot by slot: what is stale rolls one slot at a time, what ended is     *)
(* restarted at a widening pace or given up on, a first start waits for    *)
(* what it refers to, a scheduled workload runs when it is due.  The world *)
(* acts between any two slots.                                             *)
(*                                                                         *)
(* A stop and the start that follows it are one step here (Lifecycle takes *)
(* the driver's calls apart), and one pass at a time converges a workload. *)
(* Times are ages: how long an instance has been up, how long a wait still *)
(* lasts, how long a slot has been held.                                   *)
(*                                                                         *)
(* The drivers differ in what a stop leaves to be seen.  Docker's newest   *)
(* container stays the instance of its slot, ended as it answered the      *)
(* signal, until another is created; an exec attempt is retired, and its   *)
(* slot reads as empty.                                                    *)
(***************************************************************************)
EXTENDS Backoff, FiniteSets

CONSTANTS
  Specs,          \* specifications: runtime, count, schedule, overlap, policy, attempts, base,
                  \* ref, check
  MaxCount,       \* the largest count among them
  SettlePeriod,   \* ticks an instance has to stay up
  ReadinessWait,  \* ticks a first start is held at most
  NoRow,          \* no such workload, or no instance in the slot
  MaxAttempts,    \* bound: attempts are counted so far; more of them change nothing
  MaxCalls,       \* bound: calls of operators
  MaxFaults       \* bound: what goes wrong

Slot == 0..(MaxCount - 1)

\* What validation lets be stored.
Specification ==
  [runtime : {"docker", "exec"}, count : 1..MaxCount, schedule : BOOLEAN, overlap : {"replace", "skip"},
   policy : {"always", "on-failure", "never"}, attempts : 0..MaxAttempts, base : Nat,
   ref : BOOLEAN, check : BOOLEAN]

\* A stored workload, and an instance as its driver and its check have it.
Row == [version : Nat \ {0}, spec : Specs, image : Nat, suspended : BOOLEAN, deleted : BOOLEAN]

Instance ==
  [version : Nat \ {0}, hash : (Nat \ {0}) \X (0..2), port : Nat, up : BOOLEAN, code : 0..1,
   age : 0..SettlePeriod, health : {"starting", "healthy", "unhealthy", "none"},
   passed : BOOLEAN, asked : BOOLEAN, cut : BOOLEAN]

ASSUME SlotsAssumption ==
  /\ MaxCount \in Nat \ {0} /\ SettlePeriod \in Nat /\ ReadinessWait \in Nat
  /\ MaxCalls \in Nat /\ MaxFaults \in Nat /\ MaxAttempts \in Nat /\ MaxAttempts > Shifts
  /\ Specs \subseteq Specification /\ \A s \in Specs : s.schedule => s.count = 1
  /\ NoRow \notin Row /\ NoRow \notin Instance

VARIABLES
  row,          \* the stored workload
  port,         \* the host port its rows record for each slot
  target,       \* what it refers to: its address, zero when unresolved, and readiness
  image,        \* images on the host
  inst,         \* the instance in each slot
  kept,         \* slots the driver keeps an ended instance of, for its output
  files,        \* versions whose mounted values are on the disk
  due,          \* whether an occurrence has passed since the row was touched
  backoff, replacing, requested, started, held, reclaimed,   \* what the reconciler keeps
  pass,         \* what the pass in progress has read, and how far it is; and history: the
                \* hash it asked after a roll with
  calls, faults,
  out,          \* history: slots taken down while up, until their successor settles
  credit        \* history: reasons to run a scheduled workload, less its runs

world == <<row, port, target, image, inst, kept, files, due>>
memory == <<backoff, replacing, requested, started, held, reclaimed>>
history == <<out, credit>>
vars == <<world, memory, pass, calls, faults, history>>

\* No instance carries it.
NoHash == <<0, 0>>

NoBackoff == [attempts |-> 0, wait |-> 0, gaveUp |-> FALSE]

NoPass == [pc |-> "idle", row |-> NoRow, port |-> [s \in Slot |-> 0],
           seen |-> [s \in Slot |-> NoRow], kept |-> {}, index |-> 0, replaced |-> FALSE,
           hash |-> NoHash]

Applied(s, i) == [version |-> 1, spec |-> s, image |-> i, suspended |-> FALSE, deleted |-> FALSE]

\* A server comes up on a workload that is stored, and nothing runs yet.
Init ==
  /\ \E s \in Specs : row = Applied(s, 0)
  /\ port = [s \in Slot |-> 0]
  /\ target = [addr |-> 1, ready |-> FALSE]
  /\ image = {0} /\ inst = [s \in Slot |-> NoRow] /\ kept = {} /\ files = {} /\ due = FALSE
  /\ backoff = [s \in Slot |-> NoBackoff] /\ replacing = {} /\ requested = FALSE
  /\ started = [s \in Slot |-> 0] /\ held = [s \in Slot |-> -1] /\ reclaimed = 0
  /\ pass = NoPass
  /\ calls = 0 /\ faults = 0 /\ out = {} /\ credit = 0

-----------------------------------------------------------------------------
(* What is observed, and what it is held against.                          *)

\* An instance as a pass reads it, its health check folded in.
State(i) ==
  CASE i.up /\ i.health = "unhealthy" -> "failed"
    [] i.up /\ i.health = "starting" -> "pending"
    [] i.up /\ i.health \in {"healthy", "none"} -> "running"
    [] ~i.up /\ i.code = 0 -> "stopped"
    [] OTHER -> "failed"

running(i) == State(i) \in {"running", "pending"}

settled(i) == State(i) = "running" /\ i.age >= SettlePeriod

failureOf(i) == IF State(i) = "failed" /\ i.code = 0 THEN 1 ELSE i.code

\* The policy's answer to an ending; and with the attempts made, the restart's.
PolicyRestarts(policy, code) ==
  CASE policy = "never" -> FALSE
    [] policy = "on-failure" -> code # 0
    [] OTHER -> TRUE

Restarts(spec, code, attempts) ==
  ~(spec.attempts > 0 /\ attempts >= spec.attempts) /\ PolicyRestarts(spec.policy, code)

retired(spec, i) == ~running(i) /\ ~PolicyRestarts(spec.policy, failureOf(i))

Resolves(r) == r.spec.ref => target.addr # 0

\* The hash a slot's work is expected to carry: the version, and the addresses it reads.
slotHash(r) == <<r.version, IF r.spec.ref THEN target.addr ELSE 0>>

\* A process reports no ports, so only a container's can have moved.
portsDrifted(r, i, p) == r.spec.runtime = "docker" /\ State(i) = "running" /\ i.port # p

\* Whether what is in a slot is not what is wanted there.
staleSlot(s) ==
  LET r == pass.row
      i == pass.seen[s]
  IN /\ i # NoRow /\ Resolves(r)
     /\ \/ i.hash # slotHash(r)
        \/ portsDrifted(r, i, pass.port[s])
        \/ s \in replacing

\* Mutant of rolling: an instance that is up counts as settled.
rollingUp(r, seen, marks) ==
  \E s \in (0..(r.spec.count - 1)) \ marks :
    /\ Resolves(r) /\ seen[s] # NoRow
    /\ seen[s].hash = slotHash(r) /\ ~running(seen[s])

\* Whether what an earlier replacement started has yet to settle.  Slots an operator's
\* restart has marked are still to be replaced.
rolling(r, seen, marks) ==
  \E s \in (0..(r.spec.count - 1)) \ marks :
    /\ Resolves(r) /\ seen[s] # NoRow
    /\ seen[s].hash = slotHash(r) /\ ~settled(seen[s])

\* Mutant of Due: only the last run is counted from.
DueSinceRun(seen) == \A s \in Slot : seen[s] # NoRow => seen[s].passed

\* An occurrence is counted from the last run or from when the row was last touched,
\* whichever is later.
Due(seen) == due /\ \A s \in Slot : seen[s] # NoRow => seen[s].passed

-----------------------------------------------------------------------------
(* Driver calls, and what is remembered of them.                           *)

Fault == faults < MaxFaults /\ faults' = faults + 1

Fresh(r, s) ==
  [version |-> r.version, hash |-> slotHash(r), port |-> pass.port[s], up |-> TRUE,
   code |-> 0, age |-> 0, health |-> IF r.spec.check THEN "starting" ELSE "none",
   passed |-> FALSE, asked |-> FALSE, cut |-> FALSE]

\* What is seen of an instance its driver has stopped.  History: that it was cut short.
Halted(i, code) ==
  IF i = NoRow \/ pass.row.spec.runtime = "exec" THEN NoRow
  ELSE IF i.up THEN [i EXCEPT !.up = FALSE, !.code = code, !.cut = TRUE]
  ELSE i

\* What is seen once the slots given have been stopped.
Stopped(down, codes) ==
  [x \in Slot |-> IF x \in down THEN Halted(inst[x], codes[x]) ELSE inst[x]]

\* What is kept besides, for its output: an exec attempt once it is stopped, a container
\* once another has taken its place.  A stop removes what was kept before.
Remnants(down, replaced) ==
  IF pass.row.spec.runtime = "exec"
    THEN kept \cup {x \in down : inst[x] # NoRow}
    ELSE (kept \ down) \cup {x \in replaced : inst[x] # NoRow}

\* history: between occurrences, an instance that failed in a slot past the first, where a
\* counted specification left it, is a reason to run at every pass, where there is no
\* other: a retry clears only the first slot.
Leftover ==
  /\ pass.row.spec.schedule /\ ~requested /\ ~Due(pass.seen)
  /\ \E s \in Slot \ {0} : pass.seen[s] # NoRow /\ State(pass.seen[s]) = "failed"

\* history: whether the stop itself made a failure of a run that was going on, for all a
\* later pass can tell.
Broken ==
  \E x \in Slot : /\ inst[x] # NoRow /\ running(inst[x])
                  /\ inst'[x] # NoRow /\ State(inst'[x]) = "failed"

\* What a stop, and a start, leave of the reasons to run a scheduled workload.
Credited(runs) ==
  (IF Leftover /\ credit = 0 THEN 1 ELSE credit) + (IF Broken THEN 1 ELSE 0)
    - (IF runs /\ pass.row.spec.schedule THEN 1 ELSE 0)

Pulling(r) == r.spec.runtime = "docker" /\ r.image \notin image

\* start, once the slots in down have been stopped.  It comes up,
StartsUp(s, down) ==
  /\ Resolves(pass.row) /\ ~Pulling(pass.row)
  /\ \E codes \in [down -> 0..1] :
       inst' = [Stopped(down, codes) EXCEPT ![s] = Fresh(pass.row, s)]
  /\ kept' = Remnants(down, {s})
  /\ files' = files \cup {pass.row.version}
  /\ started' = [started EXCEPT ![s] = pass.row.version]
  /\ held' = [held EXCEPT ![s] = -1]
  /\ credit' = Credited(TRUE)
  /\ UNCHANGED <<row, port, due, faults>>

\* or waits for its image, which is not a failure,
StartPulls(down) ==
  /\ Resolves(pass.row) /\ Pulling(pass.row)
  /\ \E codes \in [down -> 0..1] : inst' = Stopped(down, codes)
  /\ kept' = Remnants(down, {})
  /\ files' = files \cup {pass.row.version}
  /\ credit' = Credited(FALSE)
  /\ UNCHANGED <<row, port, due, started, held, faults>>

\* abandonPorts: a port that something else holds is given up.  A later slot's is its row
\* alone, the first one's is in the specification, which moves with it.
abandonPorts(s) ==
  \/ UNCHANGED <<row, port, due>>
  \/ /\ row # NoRow /\ ~row.deleted /\ row.spec.runtime = "docker"
     /\ port' = [port EXCEPT ![s] = @ + 1]
     /\ row' = IF s = 0 THEN [row EXCEPT !.version = @ + 1] ELSE row
     /\ due' = IF s = 0 THEN FALSE ELSE due

\* or fails: what it refers to does not resolve, before anything is written for it, or the
\* driver does not start it.
StartFails(s, down) ==
  /\ \/ ~Resolves(pass.row) /\ UNCHANGED <<row, port, due, files, faults>>
     \/ /\ Resolves(pass.row) /\ Fault /\ abandonPorts(s)
        /\ files' = files \cup {pass.row.version}
  /\ \E codes \in [down -> 0..1] : inst' = Stopped(down, codes)
  /\ kept' = Remnants(down, {})
  /\ credit' = Credited(FALSE)
  /\ UNCHANGED <<started, held>>

\* hold: one more attempt, and the earliest time of the next.
Hold(s) ==
  [backoff EXCEPT ![s].attempts = Lesser(@ + 1, MaxAttempts),
                  ![s].wait = delay(backoff[s].attempts + 1, pass.row.spec.base)]

Settle(s) == [backoff EXCEPT ![s] = NoBackoff]

\* history: a restart is no longer owed to an instance.
Unasked(i) == IF i = NoRow THEN NoRow ELSE [i EXCEPT !.asked = FALSE]

\* The pass goes on to the next slot, or is over.
Onward ==
  IF pass.index + 1 < pass.row.spec.count
    THEN [pass EXCEPT !.index = @ + 1] ELSE NoPass

-----------------------------------------------------------------------------
(* The pass.                                                               *)

\* Rows, then what runs, with what its checks established, then the port rows.  A workload
\* on its way out or held down is no longer checked.
Observe ==
  /\ pass.pc = "idle" /\ row # NoRow
  /\ pass' = [NoPass EXCEPT !.pc = "head", !.row = row, !.port = port,
                            !.seen = [s \in Slot |-> Unasked(inst[s])],
                            !.kept = kept]
  /\ inst' = [s \in Slot |-> IF inst[s] # NoRow /\ (row.deleted \/ row.suspended)
                              THEN [inst[s] EXCEPT !.health = "none"] ELSE inst[s]]
  /\ UNCHANGED <<row, port, target, image, kept, files, due, memory, calls, faults, history>>

\* What settleAll, forgetStarted, forgetReclaimed and forgetReplacing leave: the holds of
\* slots that never started.
Forgotten ==
  /\ started' = [s \in Slot |-> 0]
  /\ held' = [s \in Slot |-> IF started[s] # 0 THEN -1 ELSE held[s]]
  /\ backoff' = [s \in Slot |-> NoBackoff]
  /\ replacing' = {} /\ requested' = FALSE /\ reclaimed' = 0

\* A marked workload: what runs is discarded, and once nothing does the row goes.
Teardown ==
  /\ pass.pc = "head" /\ pass.row.deleted
  /\ inst' = [s \in Slot |-> NoRow] /\ kept' = {} /\ out' = {}
  /\ IF \E s \in Slot : pass.seen[s] # NoRow
       THEN UNCHANGED <<row, files, memory, credit>>
       ELSE /\ row' = NoRow /\ files' = {} /\ credit' = 0
            /\ Forgotten
  /\ pass' = NoPass
  /\ UNCHANGED <<port, target, image, due, calls, faults>>

\* A suspended workload: what is up is stopped, and once nothing is its values go.
Suspended ==
  /\ pass.pc = "head" /\ ~pass.row.deleted /\ pass.row.suspended
  /\ IF \E s \in Slot : pass.seen[s] # NoRow /\ running(pass.seen[s])
       THEN /\ \E codes \in [Slot -> 0..1] : inst' = Stopped(Slot, codes)
            /\ kept' = Remnants(Slot, {})
            /\ credit' = credit + (IF Broken THEN 1 ELSE 0)
            /\ UNCHANGED <<files, memory>>
       ELSE /\ files' = {}
            /\ inst' = [s \in Slot |-> Unasked(inst[s])]
            /\ backoff' = [s \in Slot |-> NoBackoff]
            /\ replacing' = {} /\ requested' = FALSE
            /\ UNCHANGED <<kept, started, held, reclaimed, credit>>
  /\ pass' = NoPass /\ out' = {}
  /\ UNCHANGED <<row, port, target, image, due, calls, faults>>

\* The driver does not stop or discard a workload that is to go or to be held down.
DownFails ==
  /\ pass.pc = "head" /\ (pass.row.deleted \/ pass.row.suspended) /\ Fault
  /\ pass' = NoPass
  /\ UNCHANGED <<world, memory, calls, history>>

\* Mutant of Reclaims: the superseded versions go as soon as the row has moved.
ReclaimsAtOnce == reclaimed # pass.row.version

\* reclaimSuperseded: once per version, when nothing observed runs an older one.
Reclaims ==
  /\ reclaimed # pass.row.version
  /\ \A s \in Slot : pass.seen[s] # NoRow => pass.seen[s].version = pass.row.version

Reclaim ==
  /\ pass.pc = "head" /\ ~pass.row.deleted /\ ~pass.row.suspended
  /\ files' = IF Reclaims THEN files \cap {pass.row.version} ELSE files
  /\ reclaimed' = IF Reclaims THEN pass.row.version ELSE reclaimed
  /\ pass' = [pass EXCEPT !.pc = "whole"]
  /\ UNCHANGED <<row, port, target, image, inst, kept, due, backoff, replacing, requested,
                 started, held, calls, faults, history>>

\* Mutant of Marked: one slot short.
MarkedShort(r) == IF requested THEN replacing \cup 0..(r.spec.count - 2) ELSE replacing

\* markReplacing: a request becomes a mark on every slot.
Marked(r) == IF requested THEN replacing \cup 0..(r.spec.count - 1) ELSE replacing

\* The workload as a whole: a request marks every slot, slots past the count are
\* discarded with all that is remembered of them, and whether the roll is held is asked
\* once.
Head ==
  LET r == pass.row
      removed == {s \in Slot : s >= r.spec.count /\ (pass.seen[s] # NoRow \/ s \in pass.kept)}
  IN /\ pass.pc = "whole" /\ ~r.spec.schedule
     /\ requested' = FALSE
     /\ \/ /\ replacing' = Marked(r) \ removed
           /\ inst' = [s \in Slot |-> IF s \in removed THEN NoRow ELSE inst[s]]
           /\ kept' = kept \ removed
           /\ backoff' = [s \in Slot |-> IF s \in removed THEN NoBackoff ELSE backoff[s]]
           /\ started' = [s \in Slot |-> IF s \in removed THEN 0 ELSE started[s]]
           /\ held' = [s \in Slot |-> IF s \in removed THEN -1 ELSE held[s]]
           /\ pass' = [pass EXCEPT !.pc = "slot", !.replaced = rolling(r, pass.seen, Marked(r) \ removed),
                                     !.hash = IF Resolves(r) THEN slotHash(r) ELSE NoHash]
           /\ out' = out \ removed
           /\ faults' = faults
        \/ /\ removed # {} /\ Fault
           /\ replacing' = Marked(r)
           /\ pass' = NoPass
           /\ UNCHANGED <<inst, kept, backoff, started, held, out>>
     /\ UNCHANGED <<row, port, target, image, files, due, reclaimed, calls, credit>>

-----------------------------------------------------------------------------
(* One slot.                                                               *)

This == pass.index

Seen == pass.seen[This]

InSlot == pass.pc = "slot"

\* A slot that is due to be replaced, while another replacement is in flight.
Defers ==
  /\ InSlot /\ staleSlot(This) /\ pass.replaced
  /\ pass' = Onward
  /\ UNCHANGED <<world, memory, calls, faults, history>>

\* A stale instance is stopped and its successor started.  A start that fails ends the
\* pass, and is not paced; a stop that fails has cleared the mark all the same.
Replaces ==
  /\ InSlot /\ staleSlot(This) /\ ~pass.replaced
  /\ replacing' = replacing \ {This}
  /\ \/ /\ \/ /\ StartsUp(This, {This}) \/ StartPulls({This})
              /\ pass' = IF Onward.pc = "slot" THEN [Onward EXCEPT !.replaced = TRUE] ELSE NoPass
           \/ StartFails(This, {This}) /\ pass' = NoPass
        /\ out' = IF running(Seen) THEN out \cup {This} ELSE out
     \/ /\ Fault
        /\ pass' = NoPass
        /\ inst' = [inst EXCEPT ![This] = Unasked(@)]
        /\ UNCHANGED <<row, port, due, kept, files, started, held, history>>
  /\ UNCHANGED <<target, image, backoff, requested, reclaimed, calls>>

\* Up and current.  The backoff is cleared once it has stayed up.
LeavesUp ==
  /\ InSlot /\ Seen # NoRow /\ ~staleSlot(This) /\ running(Seen)
  /\ backoff' = IF settled(Seen) THEN Settle(This) ELSE backoff
  /\ out' = IF settled(Seen) THEN out \ {This} ELSE out
  /\ pass' = Onward
  /\ UNCHANGED <<world, replacing, requested, started, held, reclaimed, calls, faults, credit>>

\* Ended, and the policy asks for nothing more.
LeavesRetired ==
  /\ InSlot /\ Seen # NoRow /\ ~staleSlot(This) /\ retired(pass.row.spec, Seen)
  /\ backoff' = Settle(This)
  /\ pass' = Onward
  /\ UNCHANGED <<world, replacing, requested, started, held, reclaimed, calls, faults, history>>

\* Whether an empty slot has yet to start under its version, and what it refers to has yet
\* to pass its check.
Blocked(s) ==
  /\ pass.row.spec.ref /\ started[s] # pass.row.version
  /\ target.addr # 0 /\ ~target.ready

\* Mutant of notReady: the wait has no end.
notReadyForever(s) == Blocked(s)

\* A first start is held, for so long and no longer.
notReady(s) == Blocked(s) /\ held[s] < ReadinessWait

\* An empty slot whose first start is held.
Waits ==
  /\ InSlot /\ Seen = NoRow /\ notReady(This)
  /\ held' = [held EXCEPT ![This] = IF @ = -1 THEN 0 ELSE @]
  /\ replacing' = replacing \ {This}
  /\ pass' = Onward
  /\ UNCHANGED <<world, backoff, requested, started, reclaimed, calls, faults, history>>

\* attempt: an empty slot is started, unless it is paced.  A wait given up on counts as a
\* start, whatever becomes of it.
Attempts ==
  LET given == IF Blocked(This) THEN [started EXCEPT ![This] = pass.row.version] ELSE started
      freed == IF pass.row.spec.ref /\ started[This] # pass.row.version
                 THEN [held EXCEPT ![This] = -1] ELSE held
  IN /\ InSlot /\ Seen = NoRow /\ ~notReady(This)
     /\ replacing' = replacing \ {This}
     /\ \/ /\ backoff[This].wait > 0
           /\ pass' = Onward /\ started' = given /\ held' = freed
           /\ UNCHANGED <<row, port, due, inst, kept, files, backoff, faults, credit>>
        \/ /\ backoff[This].wait = 0 /\ StartsUp(This, {})
           /\ backoff' = Settle(This) /\ pass' = Onward
        \/ /\ backoff[This].wait = 0 /\ Resolves(pass.row) /\ Pulling(pass.row)
           /\ files' = files \cup {pass.row.version}
           /\ backoff' = Settle(This) /\ pass' = Onward /\ started' = given /\ held' = freed
           /\ UNCHANGED <<row, port, due, inst, kept, faults, credit>>
        \/ /\ backoff[This].wait = 0
           /\ \/ ~Resolves(pass.row) /\ UNCHANGED <<row, port, due, files, faults>>
              \/ /\ Resolves(pass.row) /\ Fault /\ abandonPorts(This)
                 /\ files' = files \cup {pass.row.version}
           /\ backoff' = Hold(This) /\ pass' = NoPass /\ started' = given /\ held' = freed
           /\ UNCHANGED <<inst, kept, credit>>
     /\ UNCHANGED <<target, image, requested, reclaimed, calls, out>>

\* restart: what ended is cleared and started again, at its pace, or given up on.
Tries(s, code) ==
  \/ /\ backoff[s].wait > 0
     /\ pass' = Onward
     /\ UNCHANGED <<row, port, due, inst, kept, files, backoff, started, held, faults,
                    credit>>
  \/ /\ backoff[s].wait = 0 /\ ~Restarts(pass.row.spec, code, backoff[s].attempts)
     /\ backoff' = [backoff EXCEPT ![s].gaveUp = TRUE]
     /\ pass' = Onward
     /\ UNCHANGED <<row, port, due, inst, kept, files, started, held, faults, credit>>
  \/ /\ backoff[s].wait = 0 /\ Restarts(pass.row.spec, code, backoff[s].attempts)
     /\ \/ (StartsUp(s, {s}) \/ StartPulls({s})) /\ backoff' = Hold(s) /\ pass' = Onward
        \/ StartFails(s, {s}) /\ backoff' = Hold(s) /\ pass' = NoPass
        \/ /\ Fault /\ pass' = NoPass
           /\ UNCHANGED <<row, port, due, inst, kept, files, backoff, started, held, credit>>

RestartsEnded ==
  /\ InSlot /\ Seen # NoRow /\ ~staleSlot(This)
  /\ ~running(Seen) /\ ~retired(pass.row.spec, Seen)
  /\ Tries(This, failureOf(Seen))
  /\ UNCHANGED <<target, image, replacing, requested, reclaimed, calls, out>>

-----------------------------------------------------------------------------
(* A scheduled workload, of one instance.                                  *)

\* The instances the pass has seen.
AllSeen == {pass.seen[s] : s \in Slot} \ {NoRow}

Scheduling ==
  /\ pass.pc = "whole" /\ pass.row.spec.schedule
  /\ UNCHANGED <<target, image, replacing, reclaimed, calls, out>>

\* An operator asked for a run: everything is stopped, and the workload started.
RunsOnRequest ==
  /\ Scheduling /\ requested /\ requested' = FALSE
  /\ \/ /\ StartsUp(0, Slot) \/ StartPulls(Slot) \/ StartFails(0, Slot)
        /\ backoff' = backoff /\ pass' = NoPass
     \/ /\ Fault /\ pass' = NoPass
        /\ inst' = [s \in Slot |-> Unasked(inst[s])]
        /\ UNCHANGED <<row, port, due, kept, files, backoff, started, held, credit>>

Skips == (\E i \in AllSeen : running(i)) /\ pass.row.spec.overlap = "skip"

\* An occurrence is due.  Unless its attempts are paced, or the run before it goes on and
\* is to be left, that run is stopped and this one started.
Occurrence ==
  /\ Scheduling /\ ~requested /\ requested' = FALSE /\ Due(pass.seen)
  /\ \/ /\ backoff[0].wait > 0 \/ Skips
        /\ pass' = NoPass
        /\ UNCHANGED <<row, port, due, inst, kept, files, backoff, started, held, faults,
                       credit>>
     \/ /\ backoff[0].wait = 0 /\ ~Skips
        /\ \/ /\ StartsUp(0, Slot) \/ StartPulls(Slot)
              /\ backoff' = Settle(0) /\ pass' = NoPass
           \/ StartFails(0, Slot) /\ backoff' = Hold(0) /\ pass' = NoPass
           \/ /\ Fault /\ pass' = NoPass
              /\ UNCHANGED <<row, port, due, inst, kept, files, backoff, started, held,
                             credit>>

\* Nothing is due: a run that failed is retried as its policy asks, anything else is left.
Between ==
  LET retries == /\ ~\E i \in AllSeen : running(i)
                 /\ \E i \in AllSeen : State(i) = "failed"
                 /\ \E i \in AllSeen : ~retired(pass.row.spec, i)
  IN /\ Scheduling /\ ~requested /\ requested' = FALSE /\ ~Due(pass.seen)
     /\ \/ retries /\ Tries(0, 1)
        \/ /\ ~retries /\ pass' = NoPass
           /\ UNCHANGED <<row, port, due, inst, kept, files, backoff, started, held, faults,
                          credit>>

-----------------------------------------------------------------------------
(* Operators, and the world.                                               *)

Call == calls < MaxCalls /\ calls' = calls + 1

\* A specification is applied; its image may have to be fetched.  The runtime of a workload
\* that exists stays what it is.
Apply ==
  \E s \in Specs :
    /\ Call
    /\ row # NoRow => ~row.deleted /\ row.spec # s /\ row.spec.runtime = s.runtime
    /\ row' = IF row = NoRow
                THEN Applied(s, calls')
                ELSE [row EXCEPT !.version = @ + 1, !.spec = s, !.image = calls']
    /\ image' \in {image, image \cup {calls'}}
    /\ due' = FALSE
    /\ UNCHANGED <<port, target, inst, kept, files, memory, pass, faults, out, credit>>

\* A restart is asked for, of whatever is there.
Restart ==
  /\ Call /\ row # NoRow /\ ~row.deleted /\ ~row.suspended
  /\ requested' = TRUE /\ credit' = credit + 1
  /\ inst' = [s \in Slot |-> IF inst[s] = NoRow THEN NoRow ELSE [inst[s] EXCEPT !.asked = TRUE]]
  /\ UNCHANGED <<row, port, target, image, kept, files, due, backoff, replacing, started, held,
                 reclaimed, pass, faults, out>>

SuspendOrResume ==
  /\ Call /\ row # NoRow /\ ~row.deleted
  /\ row' = [row EXCEPT !.suspended = ~@]
  /\ due' = IF row.suspended THEN FALSE ELSE due
  /\ UNCHANGED <<port, target, image, inst, kept, files, memory, pass, faults, history>>

Delete ==
  /\ Call /\ row # NoRow /\ row' = [row EXCEPT !.deleted = TRUE]
  /\ UNCHANGED <<port, target, image, inst, kept, files, due, memory, pass, faults, history>>

\* An instance ends.
Exits ==
  \E s \in Slot, code \in 0..1 :
    /\ inst[s] # NoRow /\ inst[s].up /\ Fault
    /\ inst' = [inst EXCEPT ![s].up = FALSE, ![s].code = code]
    /\ credit' = credit + code
    /\ UNCHANGED <<row, port, target, image, kept, files, due, memory, pass, calls, out>>

\* Its check passes, or no longer does.
Passes ==
  \E s \in Slot :
    /\ inst[s] # NoRow /\ inst[s].up /\ inst[s].health = "starting"
    /\ inst' = [inst EXCEPT ![s].health = "healthy"]
    /\ UNCHANGED <<row, port, target, image, kept, files, due, memory, pass, calls, faults,
                   history>>

Sickens ==
  \E s \in Slot :
    /\ inst[s] # NoRow /\ inst[s].up /\ inst[s].health \in {"starting", "healthy"} /\ Fault
    /\ inst' = [inst EXCEPT ![s].health = "unhealthy"]
    /\ credit' = credit + 1
    /\ UNCHANGED <<row, port, target, image, kept, files, due, memory, pass, calls, out>>

\* What it refers to becomes ready, or moves, or can no longer be resolved.
TargetReady ==
  /\ ~target.ready /\ Call
  /\ target' = [target EXCEPT !.ready = TRUE]
  /\ UNCHANGED <<row, port, image, inst, kept, files, due, memory, pass, faults, history>>

TargetMoves ==
  \E a \in 0..2 :
    /\ a # target.addr /\ Call
    /\ target' = [addr |-> a, ready |-> FALSE]
    /\ UNCHANGED <<row, port, image, inst, kept, files, due, memory, pass, faults, out, credit>>

Pulled ==
  /\ row # NoRow /\ Pulling(row)
  /\ image' = image \cup {row.image}
  /\ UNCHANGED <<row, port, target, inst, kept, files, due, memory, pass, calls, faults, history>>

\* A time the schedule names.
Occurs ==
  /\ row # NoRow /\ row.spec.schedule /\ Call
  /\ due' = TRUE /\ credit' = credit + 1
  /\ LET passing(i) == [s \in Slot |-> IF i[s] = NoRow THEN NoRow ELSE [i[s] EXCEPT !.passed = TRUE]]
     IN /\ inst' = passing(inst)
        /\ pass' = [pass EXCEPT !.seen = passing(@)]
  /\ UNCHANGED <<row, port, target, image, kept, files, memory, faults, out>>

\* Time passes, for what is up, what waits and what is held.
Tick ==
  LET aged(i) == [s \in Slot |-> IF i[s] = NoRow THEN NoRow
                                 ELSE [i[s] EXCEPT !.age = Lesser(@ + 1, SettlePeriod)]]
  IN /\ inst' = aged(inst)
     /\ pass' = [pass EXCEPT !.seen = aged(@)]
     /\ backoff' = [s \in Slot |-> [backoff[s] EXCEPT !.wait = IF @ > 0 THEN @ - 1 ELSE 0]]
     /\ held' = [s \in Slot |-> IF held[s] = -1 THEN -1 ELSE Lesser(held[s] + 1, ReadinessWait)]
     /\ <<inst', pass', backoff', held'>> # <<inst, pass, backoff, held>>
     /\ UNCHANGED <<row, port, target, image, kept, files, due, replacing, requested, started,
                    reclaimed, calls, faults, history>>

-----------------------------------------------------------------------------

Pass ==
  \/ Observe \/ Teardown \/ Suspended \/ Reclaim \/ Head
  \/ Defers \/ Replaces \/ LeavesUp \/ LeavesRetired \/ Waits \/ Attempts \/ RestartsEnded
  \/ RunsOnRequest \/ Occurrence \/ Between

Next ==
  \/ Pass \/ DownFails
  \/ Apply \/ Restart \/ SuspendOrResume \/ Delete
  \/ Exits \/ Passes \/ Sickens \/ TargetReady \/ TargetMoves \/ Pulled \/ Occurs \/ Tick

\* The loop keeps passing, time goes on, pulls end and checks are answered.
Fairness == WF_vars(Pass) /\ WF_vars(Tick) /\ WF_vars(Pulled) /\ WF_vars(Passes)

Spec == Init /\ [][Next]_vars /\ Fairness

-----------------------------------------------------------------------------
(* Properties.                                                             *)

Waiting == [attempts : 0..MaxAttempts, wait : 0..MaxBackoff, gaveUp : BOOLEAN]

Progress ==
  [pc : {"idle", "head", "whole", "slot"}, row : Row \cup {NoRow}, port : [Slot -> Nat],
   seen : [Slot -> Instance \cup {NoRow}], kept : SUBSET Slot, index : Slot,
   replaced : BOOLEAN, hash : Nat \X (0..2)]

\* What the reconciler keeps stays within its bounds: waits never exceed the ceiling and
\* holds never the wait.
TypeOK ==
  /\ row \in Row \cup {NoRow} /\ port \in [Slot -> Nat]
  /\ target \in [addr : 0..2, ready : BOOLEAN] /\ image \subseteq Nat
  /\ inst \in [Slot -> Instance \cup {NoRow}] /\ kept \subseteq Slot
  /\ files \subseteq Nat /\ due \in BOOLEAN
  /\ backoff \in [Slot -> Waiting] /\ replacing \subseteq Slot /\ requested \in BOOLEAN
  /\ started \in [Slot -> Nat] /\ held \in [Slot -> -1..ReadinessWait] /\ reclaimed \in Nat
  /\ pass \in Progress /\ calls \in 0..MaxCalls /\ faults \in 0..MaxFaults
  /\ out \subseteq Slot /\ credit \in Int

\* What replaced an instance, and is what was wanted there when the pass asked, but has yet
\* to stay up or to pass its check.
InFlight(s) ==
  /\ s \in out \ replacing /\ inst[s] # NoRow /\ inst[s].up
  /\ inst[s].hash = pass.hash
  /\ inst[s].age < SettlePeriod \/ inst[s].health = "starting"

\* A change, a restart or a moved port rolls: a slot that runs is taken down only when no
\* slot the pass found something in holds a successor in flight, the pass's own included.
RollsOneByOne ==
  [][\A s \in out' \ out, t \in Slot : pass.seen[t] # NoRow => ~InFlight(t)]_vars

\* Reclaiming takes nothing from under an instance: the values of every version that is up
\* are still there when the superseded ones have been removed.
ReclaimKeepsReaders ==
  [][(pass.pc = "head" /\ pass'.pc = "whole") =>
       \A s \in Slot : (inst[s] # NoRow /\ inst[s].up /\ inst[s].version \in files) =>
                         inst[s].version \in files']_vars

\* A scheduled workload runs for a reason: no more often than occurrences passed, runs
\* failed, those included that failed as they were stopped, and operators asked, and
\* retries were made for what a counted specification left behind.  Occurrences missed are
\* missed, and an apply or a pass that finds nothing to look at runs nothing.
RunsAccounted == credit >= 0

\* An instance that ended and that its policy, or the attempts made, leave where it is.
LeftForGood(s) == ~running(inst[s]) /\ (retired(row.spec, inst[s]) \/ backoff[s].gaveUp)

\* What a slot should hold in the end: the current version on its recorded port, up, or
\* ended and left for good.
Right(s) ==
  LET i == inst[s]
  IN /\ i # NoRow /\ i.hash = slotHash(row)
     /\ IF running(i) THEN ~portsDrifted(row, i, port[s]) ELSE LeftForGood(s)

\* A sibling that is current and left for good never settles, and so holds the roll for
\* good.
RollStuck(s) ==
  \E t \in (0..(row.spec.count - 1)) \ {s} :
    inst[t] # NoRow /\ inst[t].hash = slotHash(row) /\ LeftForGood(t)

Converged ==
  \/ row = NoRow
  \/ /\ ~row.deleted /\ row.suspended
     /\ \A s \in Slot : inst[s] # NoRow => ~inst[s].up
  \/ /\ ~row.deleted /\ ~row.suspended
     /\ \/ row.spec.schedule \/ ~Resolves(row)
        \/ \A s \in Slot : IF s < row.spec.count
                              THEN Right(s) \/ (inst[s] # NoRow /\ RollStuck(s))
                              ELSE inst[s] = NoRow

\* Once operators and faults let it be, every slot of the count comes to hold the current
\* version on the port its rows record, up or ended and left for good, whatever failed, was
\* paced or was held before; unless what it holds is to be replaced and a sibling that was
\* left for good holds the roll.  The slots past the count are empty, and a workload
\* stopped or deleted is down.
Converges == <>[]Converged

\* A restart reaches what was there when it was asked for, one slot after another, unless
\* the stop it needs fails: it is replaced, or at least stopped, where the start fails and
\* the policy leaves a container that ended cleanly; or a sibling that was left for good
\* holds the roll.
RestartReplaces ==
  <>[](\A s \in Slot :
        (/\ inst[s] # NoRow /\ row # NoRow /\ ~row.spec.schedule /\ Resolves(row)
         /\ inst[s].asked)
          => RollStuck(s) \/ LeftForGood(s))

-----------------------------------------------------------------------------
(* What the comments claim, and the code does not do.                      *)

\* Start: "the mark is cleared and the next reconcile pass starts the workload from
\* whatever specification is stored".  What takt itself stopped, to hold the workload down
\* or to replace an instance, it starts again.
StartedAgain ==
  <>[](\A s \in Slot :
        (/\ inst[s] # NoRow /\ row # NoRow /\ ~row.deleted /\ ~row.suspended
         /\ ~row.spec.schedule /\ inst[s].cut)
          => ~retired(row.spec, inst[s]))

\* converge: "A replacement that never settles holds the roll at one instance".  Whatever
\* becomes of the successor, no second slot that was up is taken down before the first has
\* settled.
RollHolds == Cardinality(out) <= 1

\* design.md: "the first run after a resume is the next natural occurrence".  A run that a
\* suspension stopped is not made again before its schedule names another time.
ResumeWaits ==
  [][(/\ pass.pc = "whole" /\ pass.row.spec.schedule /\ ~requested /\ ~Due(pass.seen)
      /\ pass.seen[0] # NoRow /\ pass.seen[0].cut /\ pass' = NoPass)
       => inst' = inst]_vars

\* between: "A run that ended cleanly did what the occurrence asked of it": unless another
\* is due, or an operator asks for one, it is not run again.
CleanRunStays ==
  [][(/\ pass.pc = "whole" /\ pass.row.spec.schedule /\ ~requested /\ ~Due(pass.seen)
      /\ pass.seen[0] # NoRow /\ State(pass.seen[0]) = "stopped"
      /\ pass.seen[0].version = pass.row.version /\ pass' = NoPass)
       => inst' = inst]_vars

\* staleSlot: "a job that finished is run again, as the request asks".  A restart replaces
\* what was there, whatever its siblings have come to.
RestartRunsAgain ==
  <>[](\A s \in Slot :
        (inst[s] # NoRow /\ row # NoRow /\ ~row.spec.schedule /\ Resolves(row))
          => ~inst[s].asked)
=============================================================================

----------------------------- MODULE ExecDriver -----------------------------
(***************************************************************************)
(* The driver that runs an instance of a workload as a process on the      *)
(* host.  A process outlives the server that started it, so what the       *)
(* driver knows is what its files say: one record per version, written     *)
(* whole, with a mark beside it once the attempt was stopped and kept.     *)
(* Only the server that started a process can collect its exit.            *)
(*                                                                         *)
(* The calls are taken apart at every file they write and at every wait,   *)
(* the supervisor of each process runs beside them, and the server may die *)
(* between any two steps.  The caller is the reconciler's converge of one  *)
(* slot, one at a time, of a job that is restarted when it fails.          *)
(***************************************************************************)
EXTENDS Integers, FiniteSets, FiniteSetsExt

CONSTANTS
  NoRecord,       \* a version directory without a readable record
  Cgroups,        \* whether the host lets the driver make cgroups
  MaxVersion,     \* bound: versions of the specification
  MaxProcs,       \* bound: processes ever started
  MaxCrashes,     \* bound: deaths of the server
  MaxFaults,      \* bound: calls that fail or run out of time
  MaxReuse,       \* bound: process identifiers handed out again
  MaxCalls        \* bound: times an operator suspends or resumes

Version == 1..MaxVersion
Proc == 1..MaxProcs

\* A record: the process it names, and how that ended if this is on record.
PidRecord == [pid : Proc, ended : BOOLEAN, code : 0..1]

ASSUME ExecAssumption ==
  /\ Cgroups \in BOOLEAN /\ MaxVersion \in Nat \ {0} /\ MaxProcs \in Nat \ {0}
  /\ {MaxCrashes, MaxFaults, MaxReuse, MaxCalls} \subseteq Nat
  /\ NoRecord \notin PidRecord

VARIABLES
  row,        \* what is stored: whether the workload is wanted, and its version
  dir,        \* the state tree: per version, whether it is there, its record, its mark
  tree,       \* the workload tree: per version, its directory and its two outputs
  proc,       \* the processes the driver started
  up,         \* whether a server runs
  sup,        \* the supervised process, zero for none
  waits,      \* the goroutine waiting on each process, and how far it is
  call,       \* the driver call in progress
  crashes, faults, reuse, calls,
  struck,     \* history: how something the driver never started came to be signalled
  lapsed      \* history: a wait for a supervisor's last write ran out of time

bounds == <<crashes, faults, reuse, calls>>
history == <<struck, lapsed>>
vars == <<row, dir, tree, proc, up, sup, waits, call, bounds, history>>

NoDir == [made |-> FALSE, rec |-> NoRecord, retained |-> FALSE]
NoTree == [made |-> FALSE, output |-> {}, previous |-> {}]
Unborn == [life |-> "unborn", version |-> 0, left |-> FALSE, code |-> 0,
           reused |-> "no", unrecorded |-> FALSE, asked |-> FALSE, done |-> FALSE]
Idle == [pc |-> "idle", then |-> "none", version |-> 0, todo |-> {}, pid |-> 0, at |-> 0]

Init ==
  /\ row = [is |-> "stored", version |-> 1]
  /\ dir = [v \in Version |-> NoDir] /\ tree = [v \in Version |-> NoTree]
  /\ proc = [p \in Proc |-> Unborn]
  /\ up = TRUE /\ sup = 0 /\ waits = [p \in Proc |-> "none"]
  /\ call = Idle
  /\ crashes = 0 /\ faults = 0 /\ reuse = 0 /\ calls = 0 /\ struck = {} /\ lapsed = FALSE

-----------------------------------------------------------------------------
(* What a record tells.                                                    *)

\* Mutant of alive: the identifier alone.
aliveByPid(r) == proc[r.pid].life \in {"alive", "zombie"} \/ proc[r.pid].reused # "no"

\* The process answers a signal and started when the record says it did.  One that has
\* ended answers until it is collected; another that holds its number started later.
alive(r) == proc[r.pid].life \in {"alive", "zombie"}

\* Some process names the session: what its leader left in its group, or another that was
\* handed the number and made a session of it.
inSession(p) == proc[p].left \/ proc[p].reused = "session"

\* Mutant of instance: gone without a record of how is taken for done.
instanceAssumed(r) ==
  CASE alive(r) -> "running"
    [] ~alive(r) /\ r.ended /\ r.code # 0 -> "failed"
    [] OTHER -> "exited"

\* instance: a record as it is reported.  Gone without a record of how is a failure.
instance(r) ==
  CASE alive(r) -> "running"
    [] ~alive(r) /\ r.ended /\ r.code = 0 -> "exited"
    [] OTHER -> "failed"

\* The versions with a record that can be read, and those of them observed as the slot's.
Readable == {v \in Version : dir[v].made /\ dir[v].rec # NoRecord}
Seen == {v \in Readable : ~dir[v].retained}

\* newest: the version worth keeping, zero when none can be read.
newest == IF Readable = {} THEN 0 ELSE Max(Readable)

-----------------------------------------------------------------------------
(* The reconciler, for one slot.                                           *)

Begin(op, then) ==
  call' = [Idle EXCEPT !.pc = op, !.then = then, !.version = row.version, 
                       !.todo = {v \in Version : dir[v].made}]

\* A job that is wanted: started when there is none, replaced when it is of another
\* version, started again when it failed, left when it runs or is done.
Converge ==
  /\ up /\ call.pc = "idle" /\ row.is = "stored"
  /\ \/ Seen = {} /\ Begin("prepare", "none")
     \/ /\ Seen # {}
        /\ \/ \E v \in Seen : v # row.version
           \/ \E v \in Seen : instance(dir[v].rec) = "failed"
        /\ Begin("halt", "start")
  /\ UNCHANGED <<row, dir, tree, proc, up, sup, waits, bounds, history>>

\* A suspended one is stopped while any of it runs.
Suspended ==
  /\ up /\ call.pc = "idle" /\ row.is = "suspended"
  /\ \E v \in Seen : instance(dir[v].rec) = "running"
  /\ Begin("halt", "none")
  /\ UNCHANGED <<row, dir, tree, proc, up, sup, waits, bounds, history>>

\* A deleted one is discarded until nothing of it is observed, and once more for what was
\* kept; then its row goes.
Teardown ==
  /\ up /\ call.pc = "idle" /\ row.is = "deleted"
  /\ Begin("halt", IF Seen # {} THEN "discard" ELSE "forgetRow")
  /\ UNCHANGED <<row, dir, tree, proc, up, sup, waits, bounds, history>>

-----------------------------------------------------------------------------
(* Start.                                                                  *)

Fault == faults < MaxFaults /\ faults' = faults + 1

\* The directory of a version is there, and the mark of the attempt before is cleared.
Prepared(v) == [dir EXCEPT ![v].made = TRUE, ![v].retained = FALSE]

Prepare ==
  /\ call.pc = "prepare"
  /\ dir' = Prepared(call.version)
  /\ tree' = [tree EXCEPT ![call.version].made = TRUE]
  /\ call' = [call EXCEPT !.pc = "fork"]
  /\ UNCHANGED <<row, proc, up, sup, waits, bounds, history>>

\* The process is cloned, confines itself and becomes the command, which holds the output
\* file open.  One that cannot be confined or limited is killed.
Fork ==
  /\ call.pc = "fork"
  /\ \/ \E p \in Proc :
          /\ proc[p].life = "unborn" /\ \A q \in Proc : q < p => proc[q].life # "unborn"
          /\ proc' = [proc EXCEPT ![p].life = "alive", ![p].version = call.version]
          /\ tree' = [tree EXCEPT ![call.version].output = @ \cup {p}]
          /\ call' = [call EXCEPT !.pc = "record", !.pid = p]
          /\ faults' = faults
     \/ Fault /\ call' = Idle /\ UNCHANGED <<tree, proc>>
  /\ UNCHANGED <<row, dir, up, sup, waits, crashes, reuse, calls, history>>

\* The record is moved into place over whatever was there, and a goroutine waits on the
\* process.  A process that cannot be recorded is killed.
Record ==
  /\ call.pc = "record"
  /\ \/ /\ dir' = [dir EXCEPT ![call.version].rec = [pid |-> call.pid, ended |-> FALSE, code |-> 0]]
        /\ sup' = call.pid /\ waits' = [waits EXCEPT ![call.pid] = "waiting"]
        /\ UNCHANGED <<proc, faults>>
     \/ /\ Fault
        /\ proc' = [proc EXCEPT ![call.pid].life = "gone", ![call.pid].left = FALSE,
                                ![call.pid].unrecorded = TRUE]
        /\ UNCHANGED <<dir, sup, waits>>
  /\ call' = Idle
  /\ UNCHANGED <<row, tree, up, crashes, reuse, calls, history>>

-----------------------------------------------------------------------------
(* supervise, beside the calls.                                            *)

\* The exit is collected,
Collect ==
  \E p \in Proc :
    /\ waits[p] = "waiting" /\ proc[p].life = "zombie"
    /\ proc' = [proc EXCEPT ![p].life = "gone", ![p].done = proc[p].code = 0 /\ ~proc[p].asked]
    /\ waits' = [waits EXCEPT ![p] = "collected"]
    /\ UNCHANGED <<row, dir, tree, up, sup, call, bounds, history>>

\* then written into the record that is there, if one is,
RecordExit ==
  \E p \in Proc :
    /\ waits[p] = "collected"
    /\ LET v == proc[p].version
       IN dir' = IF v \in Readable
                   THEN [dir EXCEPT ![v].rec.ended = TRUE, ![v].rec.code = proc[p].code] ELSE dir
    /\ waits' = [waits EXCEPT ![p] = "recorded"]
    /\ UNCHANGED <<row, tree, proc, up, sup, call, bounds, history>>

\* and only then is the process forgotten, unless another has its place.
Forget ==
  \E p \in Proc :
    /\ waits[p] = "recorded"
    /\ sup' = IF sup = p THEN 0 ELSE sup
    /\ waits' = [waits EXCEPT ![p] = "done"]
    /\ UNCHANGED <<row, dir, tree, proc, up, call, bounds, history>>

-----------------------------------------------------------------------------
(* Stop and Discard.                                                       *)

\* kill, of a group: its process ends by the signal, and is collected later when this server
\* waits on it; what it left in its group is gone.
Killed(p) ==
  [proc[p] EXCEPT !.life = IF @ \notin {"alive", "zombie"} THEN @
                           ELSE IF waits[p] = "waiting" THEN "zombie" ELSE "gone",
                  !.code = IF proc[p].life = "alive" THEN 1 ELSE @,
                  !.left = FALSE]

\* The processes halting a version ends: of its record's group, when that is signalled, and
\* with a cgroup all of the version.
Hit(v, group) ==
  {q \in Proc : (q = dir[v].rec.pid /\ group) \/ (Cgroups /\ proc[q].version = v)}

Ends(v, group) == proc' = [q \in Proc |-> IF q \in Hit(v, group) THEN Killed(q) ELSE proc[q]]

\* history: a signal to the group of that number reaches whoever holds the number now.
Strikes(p, how) == struck' = IF proc[p].reused = "no" THEN struck ELSE struck \cup {how}

\* Mutant of Leaves: a process that has ended is looked no further into.
LeavesBehind(v) == v \in Readable /\ ~alive(dir[v].rec)

\* Whether a record's process is gone, and nothing names its session.
Leaves(v) == v \in Readable /\ ~alive(dir[v].rec) /\ ~inSession(dir[v].rec.pid)

\* halt, for one record.  A process that runs is asked to stop; of one that is gone the rest
\* of its session is killed.
Halt ==
  /\ call.pc = "halt"
  /\ \E v \in call.todo :
       \/ /\ v \notin Readable
          /\ call' = [call EXCEPT !.todo = @ \ {v}] /\ UNCHANGED <<proc, struck>>
       \/ /\ v \in Readable /\ alive(dir[v].rec)
          /\ call' = [call EXCEPT !.pc = "grace", !.pid = dir[v].rec.pid, !.at = v]
          /\ proc' = [proc EXCEPT ![dir[v].rec.pid].asked = TRUE]
          /\ Strikes(dir[v].rec.pid, "mistaken")
       \/ /\ v \in Readable /\ ~alive(dir[v].rec) /\ ~Leaves(v)
          /\ call' = [call EXCEPT !.todo = @ \ {v}] /\ Ends(v, TRUE)
          /\ Strikes(dir[v].rec.pid, "session")
       \/ /\ Leaves(v)
          /\ call' = [call EXCEPT !.todo = @ \ {v}] /\ Ends(v, FALSE)
          /\ struck' = struck
  /\ UNCHANGED <<row, dir, tree, up, sup, waits, bounds, lapsed>>

\* It is given its time, in which it may end as it likes, and its group is killed, whoever
\* leads it by then.
Kill ==
  /\ call.pc = "grace"
  /\ Ends(call.at, TRUE) /\ Strikes(call.pid, "grace")
  /\ call' = [call EXCEPT !.pc = "halt", !.todo = @ \ {call.at}, !.pid = 0, !.at = 0]
  /\ UNCHANGED <<row, dir, tree, up, sup, waits, bounds, lapsed>>

\* The call may run out of time before that.
HaltExpires ==
  /\ call.pc = "grace" /\ Fault /\ call' = Idle
  /\ UNCHANGED <<row, dir, tree, proc, up, sup, waits, crashes, reuse, calls, history>>

\* Mutant of Awaited: nothing is waited on.
AwaitedNone == 0

\* The process whose supervisor has a last write to make before the caller goes on.
Awaited == sup

\* halt ends: the supervisors are forgotten and their last write waited for.  A wait that
\* runs out of time has forgotten them all the same.
HaltWaits ==
  /\ call.pc = "halt" /\ call.todo = {} /\ sup' = 0
  /\ \/ /\ Awaited = 0
        /\ call' = [call EXCEPT !.pc = IF call.then \in {"discard", "forgetRow"} THEN "clear" ELSE "prune"]
        /\ UNCHANGED <<faults, lapsed>>
     \/ Awaited # 0 /\ Fault /\ call' = Idle /\ lapsed' = TRUE
  /\ UNCHANGED <<row, dir, tree, proc, up, waits, crashes, reuse, calls, struck>>

\* discardRecord, for every version but the newest: its tree where the record tells the
\* version, then its record.
Prune ==
  /\ call.pc = "prune"
  /\ tree' = [v \in Version |-> IF v \in Readable \ {newest} THEN NoTree ELSE tree[v]]
  /\ call' = [call EXCEPT !.pc = "pruned"]
  /\ UNCHANGED <<row, dir, proc, up, sup, waits, bounds, history>>

Pruned ==
  /\ call.pc = "pruned"
  /\ dir' = [v \in Version |-> IF v # newest THEN NoDir ELSE dir[v]]
  /\ call' = [call EXCEPT !.pc = "keep"]
  /\ UNCHANGED <<row, tree, proc, up, sup, waits, bounds, history>>

\* Mutant of Kept: the output stays where the next attempt opens it.
KeptInPlace(v) == tree

\* keep: the directory the process ran in goes and its output is set aside,
Kept(v) ==
  [tree EXCEPT ![v].output = {},
               ![v].previous = IF tree[v].output # {} THEN tree[v].output ELSE @]

Keep ==
  /\ call.pc = "keep"
  /\ tree' = IF newest = 0 THEN tree ELSE Kept(newest)
  /\ call' = [call EXCEPT !.pc = "retain"]
  /\ UNCHANGED <<row, dir, proc, up, sup, waits, bounds, history>>

\* and the record is marked as one that was kept.
Marked == IF newest = 0 THEN dir ELSE [dir EXCEPT ![newest].retained = TRUE]

Retain ==
  /\ call.pc = "retain"
  /\ dir' = Marked
  /\ call' = IF call.then = "start" THEN [Idle EXCEPT !.pc = "prepare", !.version = call.version]
                                    ELSE Idle
  /\ UNCHANGED <<row, tree, proc, up, sup, waits, bounds, history>>

\* Discard: the state tree goes, then the workload's; after the last of them the row does.
Clear ==
  /\ call.pc = "clear"
  /\ dir' = [v \in Version |-> NoDir]
  /\ call' = [call EXCEPT !.pc = "cleared"]
  /\ UNCHANGED <<row, tree, proc, up, sup, waits, bounds, history>>

Cleared ==
  /\ call.pc = "cleared"
  /\ tree' = [v \in Version |-> NoTree]
  /\ row' = IF call.then = "forgetRow" THEN [row EXCEPT !.is = "gone"] ELSE row
  /\ call' = Idle
  /\ UNCHANGED <<dir, proc, up, sup, waits, bounds, history>>

-----------------------------------------------------------------------------
(* Operators, processes, and the server.                                   *)

Apply ==
  /\ row.is \in {"stored", "suspended"} /\ row.version < MaxVersion
  /\ row' = [row EXCEPT !.version = @ + 1]
  /\ UNCHANGED <<dir, tree, proc, up, sup, waits, call, bounds, history>>

SuspendOrResume ==
  /\ row.is \in {"stored", "suspended"} /\ calls < MaxCalls /\ calls' = calls + 1
  /\ row' = [row EXCEPT !.is = IF @ = "stored" THEN "suspended" ELSE "stored"]
  /\ UNCHANGED <<dir, tree, proc, up, sup, waits, call, crashes, faults, reuse, history>>

Delete ==
  /\ row.is \in {"stored", "suspended"} /\ row' = [row EXCEPT !.is = "deleted"]
  /\ UNCHANGED <<dir, tree, proc, up, sup, waits, call, bounds, history>>

\* A process ends, of itself or as it answers a signal, and leaves something in its group or
\* not.
Exits ==
  \E p \in Proc, code \in 0..1, left \in BOOLEAN :
    /\ proc[p].life = "alive"
    /\ proc' = [proc EXCEPT ![p].life = IF waits[p] = "waiting" \/ (call.pc = "record" /\ call.pid = p)
                                          THEN "zombie" ELSE "gone",
                            ![p].code = code, ![p].left = left]
    /\ UNCHANGED <<row, dir, tree, up, sup, waits, call, bounds, history>>

\* The kernel hands a number out again that a record still names, once no process, group or
\* session has it: to one that comes to lead a group, or a session, of that number.
Reuses ==
  \E p \in Proc, leads \in {"group", "session"} :
    /\ proc[p].life = "gone" /\ ~proc[p].left /\ proc[p].reused = "no"
    /\ \E v \in Readable : dir[v].rec.pid = p
    /\ reuse < MaxReuse /\ reuse' = reuse + 1
    /\ proc' = [proc EXCEPT ![p].reused = leads]
    /\ UNCHANGED <<row, dir, tree, up, sup, waits, call, crashes, faults, calls, history>>

\* The server dies, or releases its processes and stops: they run on, those that have ended
\* are collected by the host, and one without a record is lost to every later server.
Dies ==
  /\ up /\ crashes < MaxCrashes /\ crashes' = crashes + 1
  /\ up' = FALSE /\ sup' = 0 /\ waits' = [p \in Proc |-> "none"] /\ call' = Idle
  /\ proc' = [p \in Proc |->
       [proc[p] EXCEPT !.life = IF @ = "zombie" THEN "gone" ELSE @,
                       !.unrecorded = @ \/ (call.pid = p /\ call.pc = "record"),
                       !.done = @ /\ waits[p] # "collected"]]
  /\ UNCHANGED <<row, dir, tree, faults, reuse, calls, history>>

Boots ==
  /\ ~up /\ up' = TRUE
  /\ UNCHANGED <<row, dir, tree, proc, sup, waits, call, bounds, history>>

-----------------------------------------------------------------------------

Start == Prepare \/ Fork \/ Record
Stop == Halt \/ Kill \/ HaltWaits \/ Prune \/ Pruned \/ Keep \/ Retain \/ Clear \/ Cleared
Supervise == Collect \/ RecordExit \/ Forget
Server == Converge \/ Suspended \/ Teardown \/ Start \/ Stop

Next ==
  \/ Server \/ Supervise \/ HaltExpires
  \/ Apply \/ SuspendOrResume \/ Delete \/ Exits \/ Reuses \/ Dies \/ Boots

\* The reconciler keeps passing, goroutines run, and a server that died comes back.
Fairness == WF_vars(Server) /\ WF_vars(Supervise) /\ WF_vars(Boots)

Spec == Init /\ [][Next]_vars /\ Fairness

-----------------------------------------------------------------------------
(* Properties.                                                             *)

StateDir == [made : BOOLEAN, rec : PidRecord \cup {NoRecord}, retained : BOOLEAN]

OutputDir == [made : BOOLEAN, output : SUBSET Proc, previous : SUBSET Proc]

Process ==
  [life : {"unborn", "alive", "zombie", "gone"}, version : Version \cup {0}, left : BOOLEAN,
   code : 0..1, reused : {"no", "group", "session"}, unrecorded : BOOLEAN, asked : BOOLEAN, done : BOOLEAN]

Call ==
  [pc : {"idle", "prepare", "fork", "record", "halt", "grace", "prune", "pruned", "keep", "retain",
         "clear", "cleared"},
   then : {"none", "start", "discard", "forgetRow"}, version : Version \cup {0},
   todo : SUBSET Version, pid : Proc \cup {0}, at : Version \cup {0}]

Counters == {crashes, faults, reuse, calls} \subseteq Nat

TypeOK ==
  /\ row \in [is : {"stored", "suspended", "deleted", "gone"}, version : Version]
  /\ dir \in [Version -> StateDir] /\ tree \in [Version -> OutputDir]
  /\ proc \in [Proc -> Process]
  /\ up \in BOOLEAN /\ sup \in Proc \cup {0}
  /\ waits \in [Proc -> {"none", "waiting", "collected", "recorded", "done"}]
  /\ call \in Call
  /\ Counters
  /\ struck \subseteq {"mistaken", "session", "grace"} /\ lapsed \in BOOLEAN

Recorded == {p \in Proc : proc[p].life # "unborn" /\ ~proc[p].unrecorded}

\* Processes are accounted for, through deaths of the server, restarts at one version and
\* calls that run out of time: apart from one whose server died before it was on record,
\* at most one runs, and once the workload's row is gone nothing does, not even what a
\* process that ended left in its group, and neither tree holds anything of it.
ProcessesAccounted ==
  /\ Cardinality({p \in Recorded : proc[p].life = "alive"}) <= 1
  /\ row.is = "gone" =>
       /\ \A p \in Recorded : proc[p].life # "alive" /\ ~proc[p].left
       /\ \A v \in Version : dir[v] = NoDir /\ tree[v] = NoTree

\* A record's exit is that of its own process, although the goroutine that writes it only
\* knows the directory, which an attempt at an unchanged version has taken over; unless the
\* wait that keeps them apart has run out of time.
ExitIsItsOwn ==
  ~lapsed => \A v \in Readable : dir[v].rec.ended => dir[v].rec.code = proc[dir[v].rec.pid].code

\* What is reported as kept for its output has ended: a mark is never left on the record of
\* a process that runs, however often a version is stopped and started.
RetainedIsOver ==
  \A v \in Readable : dir[v].retained => proc[dir[v].rec.pid].life # "alive"

\* Outputs are never spliced: a file holds what one attempt on record wrote.
OutputOfOne ==
  \A v \in Version : /\ Cardinality(tree[v].output \cap Recorded) <= 1
                     /\ Cardinality(tree[v].previous \cap Recorded) <= 1

\* A process that was handed the number of one on record, and leads a group of that number,
\* is never taken for it: only one that leads a session of the number, or that was handed it
\* while the process before was given its time to stop, is ever signalled.
OnlyItsOwn == struck \subseteq {"session", "grace"}

\* A job on record that runs, or has done what was asked of it.
Done(v) ==
  /\ v \in Seen
  /\ proc[dir[v].rec.pid].life = "alive" \/ proc[dir[v].rec.pid].code = 0

\* In the end a job that is wanted runs or is done, one that is held down does not run, and
\* one that was deleted is gone, whatever the server died in the middle of and whichever
\* exits nobody collected; unless a wait for a supervisor's last write ran out of time.
Settles ==
  <>[](\/ lapsed
       \/ call.pc = "fork" /\ \A p \in Proc : proc[p].life # "unborn"
       \/ row.is = "stored" /\ Done(row.version)
       \/ row.is = "suspended" /\ \A p \in Recorded : proc[p].life # "alive"
       \/ row.is = "gone")

\* A process gone without a record of how has ended while the server was down: one that
\* ended cleanly while its server waited on it is done, and is not run again.
DoneOnce ==
  [][\A p, q \in Proc :
       (proc[p].life = "unborn" /\ proc'[p].life = "alive" /\ proc[q].done) =>
         proc'[p].version # proc[q].version]_vars
=============================================================================

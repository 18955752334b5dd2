-------------------------- MODULE ExecDriverProofs --------------------------
(***************************************************************************)
(* Proofs about ExecDriver, for every number of versions, processes,       *)
(* deaths of the server and calls that fail: processes are accounted for,  *)
(* exits and outputs are those of their own process, and another that was  *)
(* handed the number of one is reached only where the code cannot tell.    *)
(***************************************************************************)
EXTENDS ExecDriver, FiniteSetTheorems, TLAPS

\* A process on the driver's books of which something still runs.
Live(p) == p \in Recorded /\ (proc[p].life = "alive" \/ proc[p].left)

\* The process that was cloned and is not on record yet.
Pending(p) == call.pc = "record" /\ call.pid = p

\* The slot's record of a version names the process.
Named(v, p) == dir[v].made /\ dir[v].rec # NoRecord /\ dir[v].rec.pid = p

Observed(v, p) == Named(v, p) /\ ~dir[v].retained

Removing == call.then \in {"discard", "forgetRow"}

\* What runs is on record where a halt will find it.
Found ==
  \A p \in Proc : Live(p) =>
    \/ Pending(p)
    \/ /\ Observed(proc[p].version, p) /\ proc[p].version \in Version
       /\ call.pc = "idle" \/ (call.pc \in {"halt", "grace"} /\ proc[p].version \in call.todo)

Alone == \A p, q \in Recorded : proc[p].life = "alive" /\ proc[q].life = "alive" => p = q

\* A number is handed out again only when nothing of its process is left.
ReusedOver ==
  \A p \in Proc : /\ proc[p].reused # "no" => proc[p].life = "gone" /\ ~proc[p].left
                  /\ proc[p].life = "unborn" => ~proc[p].unrecorded /\ ~proc[p].left

\* Every record names a process that was started at its version, not the pending one.
RecordsName ==
  \A v \in Version : dir[v].rec # NoRecord =>
    LET p == dir[v].rec.pid
    IN  p \in Recorded /\ proc[p].version = v /\ ~Pending(p)

PendingOf ==
  call.pc = "record" =>
    /\ call.pid \in Recorded /\ proc[call.pid].life \in {"alive", "zombie"}
    /\ waits[call.pid] = "none" /\ proc[call.pid].version = call.version

\* A start has its directory, unmarked, and a call names a process only while it waits for
\* it: for its record, or to stop.
Prepares ==
  /\ call.pc # "idle" => call.version \in Version
  /\ call.pc \in {"fork", "record"} => dir[call.version].made /\ ~dir[call.version].retained
  /\ call.pc \notin {"record", "grace"} => call.pid = 0

\* The supervised process is the one on record, until a halt is over.
Supervised ==
  sup # 0 =>
    /\ waits[sup] # "none" /\ call.pc \in {"idle", "halt", "grace"} /\ up
    /\ Observed(proc[sup].version, sup) /\ proc[sup].version \in Version

\* Without a wait that lapsed, every goroutine that has a write to make is supervised.
WritesAwaited ==
  ~lapsed => \A p \in Proc : waits[p] \in {"waiting", "collected", "recorded"} => sup = p

Waits ==
  \A p \in Proc : /\ waits[p] # "none" => p \in Recorded /\ ~Pending(p)
                  /\ waits[p] = "waiting" => proc[p].life \in {"alive", "zombie"}
                  /\ waits[p] \in {"collected", "recorded", "done"} => proc[p].life = "gone"

\* An exit on record is over and its process's own.
ExitsOwn ==
  ~lapsed => \A v \in Version : dir[v].rec # NoRecord /\ dir[v].rec.ended =>
    /\ proc[dir[v].rec.pid].life = "gone" /\ dir[v].rec.code = proc[dir[v].rec.pid].code

\* Whose output is in place: the pending process's, that of the process observed, until it
\* is set aside, or that of a workload being deleted.
OutputsOf ==
  \A v \in Version : \A q \in tree[v].output \cap Recorded :
    \/ Pending(q) /\ call.version = v
    \/ /\ Observed(v, q)
       /\ call.pc \in {"idle", "halt", "grace", "prune", "pruned", "keep", "clear"}
       /\ call.pc = "pruned" => v = newest
    \/ /\ row.is = "deleted"
       /\ call.pc = "idle" \/ (call.pc \in {"halt", "grace", "clear", "cleared"} /\ Removing)

OneWrote ==
  \A v \in Version :
    /\ \A p, q \in tree[v].output \cap Recorded : p = q
    /\ \A p, q \in tree[v].previous \cap Recorded : p = q
    /\ \A p \in tree[v].output \cup tree[v].previous : proc[p].life # "unborn"

\* How far a removal is.
Removes ==
  /\ Removing => row.is = "deleted"
  /\ call.pc \in {"clear", "cleared"} => Removing
  /\ call.pc \in {"prune", "pruned", "keep", "retain"} => ~Removing
  /\ call.pc = "keep" => \A u, v \in Readable : u = v
  /\ call.pc = "cleared" => \A v \in Version : dir[v] = NoDir
  /\ call.pc # "idle" => up
  /\ ~up => call = Idle /\ \A p \in Proc : waits[p] = "none"
  /\ row.is = "gone" => /\ call = Idle
                        /\ \A v \in Version : dir[v] = NoDir /\ tree[v] = NoTree

Inv ==
  /\ TypeOK /\ OnlyItsOwn
  /\ Found /\ Alone /\ ReusedOver /\ RecordsName /\ PendingOf /\ Prepares
  /\ Supervised /\ WritesAwaited /\ Waits /\ ExitsOwn /\ OutputsOf /\ OneWrote /\ Removes

-----------------------------------------------------------------------------
LEMMA CountersStep == Inv /\ [Next]_vars => Counters'
<1> SUFFICES ASSUME Inv, [Next]_vars PROVE Counters'
  OBVIOUS
<1>1. crashes \in Nat /\ faults \in Nat /\ reuse \in Nat /\ calls \in Nat
  BY DEF Inv, TypeOK, Counters
<1>2. /\ crashes' \in {crashes, crashes + 1} /\ faults' \in {faults, faults + 1}
      /\ reuse' \in {reuse, reuse + 1} /\ calls' \in {calls, calls + 1}
  BY DEF Next, vars, bounds, Server, Supervise, Start, Stop, Converge, Suspended, Teardown,
     Prepare, Fork, Record, Fault, Collect, RecordExit, Forget, Halt, Kill, HaltExpires, HaltWaits,
     Prune, Pruned, Keep, Retain, Clear, Cleared, Apply, SuspendOrResume, Delete, Exits, Reuses,
     Dies, Boots
<1>3. QED
  BY <1>1, <1>2 DEF Counters

LEMMA InitInv == Init => Inv
<1> SUFFICES ASSUME Init PROVE Inv
  OBVIOUS
<1>1. TypeOK
  <2>1. row \in [is : {"stored", "suspended", "deleted", "gone"}, version : Version]
    BY ExecAssumption DEF Init, Version
  <2>2. dir \in [Version -> StateDir]
    BY DEF Init, NoDir, StateDir
  <2>3. tree \in [Version -> OutputDir]
    BY DEF Init, NoTree, OutputDir
  <2>4. Unborn \in Process
    BY DEF Unborn, Process
  <2>5. Idle \in Call
    BY DEF Idle, Call
  <2>6. proc \in [Proc -> Process]
    BY <2>4 DEF Init
  <2>7. Counters /\ call \in Call
    BY <2>5 DEF Init, Counters
  <2>8. /\ up \in BOOLEAN /\ sup \in Proc \cup {0} /\ struck \subseteq {"mistaken", "session", "grace"}
        /\ lapsed \in BOOLEAN
        /\ waits \in [Proc -> {"none", "waiting", "collected", "recorded", "done"}]
    BY DEF Init
  <2>9. QED
    BY <2>1, <2>2, <2>3, <2>6, <2>7, <2>8 DEF TypeOK
<1>2. /\ \A v \in Version : dir[v] = NoDir /\ tree[v] = NoTree
      /\ \A p \in Proc : proc[p].life = "unborn" /\ ~proc[p].left /\ proc[p].reused = "no"
                        /\ ~proc[p].unrecorded
      /\ \A p \in Proc : waits[p] = "none"
      /\ call = Idle /\ call.pc = "idle" /\ call.pid = 0 /\ call.then = "none" /\ sup = 0 /\ up
      /\ row.is = "stored" /\ struck = {} /\ lapsed = FALSE
      /\ NoDir.rec = NoRecord /\ NoTree.output = {} /\ NoTree.previous = {}
  BY DEF Init, NoDir, NoTree, Unborn, Idle
<1>3. Recorded = {}
  BY <1>2 DEF Recorded
<1>4. Found /\ Alone /\ ReusedOver /\ RecordsName /\ PendingOf /\ Prepares
  BY <1>2, <1>3 DEF Found, Live, Alone, ReusedOver, RecordsName, PendingOf, Prepares
<1>5. Supervised /\ WritesAwaited /\ Waits /\ ExitsOwn /\ OutputsOf /\ OneWrote
  BY <1>2, <1>3 DEF Supervised, WritesAwaited, Waits, ExitsOwn, OutputsOf, OneWrote
<1>6. Removes /\ OnlyItsOwn
  BY <1>2 DEF Removes, Removing, OnlyItsOwn
<1>7. QED
  BY <1>1, <1>4, <1>5, <1>6 DEF Inv

\* An operator's step: the row changes, and is not gone by it.
LEMMA RowInv ==
  ASSUME Inv, Counters', Apply \/ SuspendOrResume \/ Delete
  PROVE  Inv'
<1>1. /\ row.is \in {"stored", "suspended"} /\ row'.is \in {"stored", "suspended", "deleted"}
      /\ row' \in [is : {"stored", "suspended", "deleted", "gone"}, version : Version]
      /\ UNCHANGED <<dir, tree, proc, up, sup, waits, call, struck, lapsed>>
  BY ExecAssumption DEF Apply, SuspendOrResume, Delete, history, Inv, TypeOK, Version
<1>2. TypeOK'
  BY <1>1 DEF Inv, TypeOK
<1>3. Found' /\ Alone' /\ ReusedOver' /\ RecordsName' /\ PendingOf' /\ Prepares'
  BY <1>1 DEF Inv, Found, Live, Recorded, Pending, Observed, Named, Alone, ReusedOver, RecordsName,
     PendingOf, Prepares
<1>4. Supervised' /\ WritesAwaited' /\ Waits' /\ ExitsOwn' /\ OneWrote'
  BY <1>1 DEF Inv, Supervised, Observed, Named, WritesAwaited, Waits, Pending, Recorded, ExitsOwn,
     OneWrote
<1>5. OutputsOf'
  BY <1>1 DEF Inv, OutputsOf, Pending, Recorded, Observed, Named, Removing, newest, Readable
<1>6. Removes'
  BY <1>1 DEF Inv, Removes, Removing, Readable
<1>7. QED
  BY <1>1, <1>2, <1>3, <1>4, <1>5, <1>6 DEF Inv, OnlyItsOwn

\* The reconciler begins a call.
LEMMA BeginInv ==
  ASSUME Inv, Counters', Converge \/ Suspended \/ Teardown
  PROVE  Inv'
<1>1. /\ up /\ call.pc = "idle"
      /\ UNCHANGED <<row, dir, tree, proc, up, sup, waits, struck, lapsed>>
  BY DEF Converge, Suspended, Teardown, history
<1>2. /\ call' \in Call /\ call'.pid = 0 /\ call'.version \in Version
      /\ call'.todo = {v \in Version : dir[v].made}
      /\ \/ call'.pc = "prepare" /\ call'.then = "none" /\ Seen = {} /\ row.is = "stored"
         \/ call'.pc = "halt" /\ call'.then \in {"none", "start"} /\ row.is \in {"stored", "suspended"}
         \/ call'.pc = "halt" /\ call'.then \in {"discard", "forgetRow"} /\ row.is = "deleted"
  <2>1. ASSUME NEW op \in {"prepare", "halt"},
               NEW then \in {"none", "start", "discard", "forgetRow"}, Begin(op, then)
        PROVE  /\ call'.pc = op /\ call'.then = then /\ call'.pid = 0
               /\ call'.version = row.version /\ call'.todo = {v \in Version : dir[v].made}
               /\ row.version \in Version /\ call' \in Call
    <3>1. row.version \in Version
      BY DEF Inv, TypeOK
    <3>2. QED
      BY <2>1, <3>1 DEF Begin, Idle, Call
  <2>2. QED
    BY <2>1 DEF Converge, Suspended, Teardown
<1>3. TypeOK'
  BY <1>1, <1>2 DEF Inv, TypeOK
<1>4. Found'
  <2>1. \A p \in Proc : Live(p) => /\ Observed(proc[p].version, p) /\ proc[p].version \in Seen
                                   /\ proc[p].version \in call'.todo
    BY <1>1, <1>2 DEF Inv, Found, Pending, Observed, Named, Seen, Readable
  <2>2. QED
    BY <1>1, <1>2, <2>1 DEF Found, Live, Recorded, Observed, Named
<1>5. Alone' /\ ReusedOver' /\ RecordsName' /\ PendingOf' /\ Prepares'
  BY <1>1, <1>2 DEF Inv, Recorded, Pending, Alone, ReusedOver, RecordsName, PendingOf, Prepares
<1>6. Supervised'
  <2>1. sup # 0 => Observed(proc[sup].version, sup) /\ proc[sup].version \in Seen
    BY DEF Inv, Supervised, Observed, Named, Seen, Readable
  <2>2. QED
    BY <1>1, <1>2, <2>1 DEF Inv, Supervised, Observed, Named
<1>7. WritesAwaited' /\ Waits' /\ ExitsOwn' /\ OneWrote'
  BY <1>1, <1>2 DEF Inv, WritesAwaited, Waits, Pending, Recorded, ExitsOwn, OneWrote
<1>8. OutputsOf'
  <2>1. ASSUME NEW v \in Version, NEW q \in tree[v].output \cap Recorded
        PROVE  \/ Observed(v, q) /\ v \in Seen
               \/ row.is = "deleted"
    BY <1>1 DEF Inv, OutputsOf, Pending, Observed, Named, Seen, Readable
  <2>2. QED
    BY <1>1, <1>2, <2>1 DEF OutputsOf, Recorded, Observed, Named, Removing
<1>9. Removes'
  BY <1>1, <1>2 DEF Inv, Removes, Removing, Readable
<1>10. QED
  BY <1>1, <1>3, <1>4, <1>5, <1>6, <1>7, <1>8, <1>9 DEF Inv, OnlyItsOwn

\* Between a halt and the next process nothing of the workload runs or is supervised.
LEMMA Quiet ==
  ASSUME Inv, call.pc \notin {"idle", "halt", "grace", "record"}
  PROVE  sup = 0 /\ \A p \in Proc : ~Live(p)
BY DEF Inv, Supervised, Found, Pending

LEMMA IdleType ==
  Idle \in Call /\ Idle.pc = "idle" /\ Idle.pid = 0 /\ Idle.then = "none"
BY DEF Idle, Call

LEMMA PrepareInv ==
  ASSUME Inv, Counters', Prepare
  PROVE  Inv'
<1> DEFINE w == call.version
<1>1. /\ call.pc = "prepare" /\ w \in Version /\ call \in Call
      /\ dir' = Prepared(w) /\ tree' = [tree EXCEPT ![w].made = TRUE]
      /\ call' = [call EXCEPT !.pc = "fork"]
      /\ UNCHANGED <<row, proc, up, sup, waits, struck, lapsed>>
  BY DEF Prepare, history, Inv, Prepares, TypeOK
<1>2. /\ call' \in Call /\ call'.pc = "fork" /\ call'.then = call.then /\ call'.version = w
      /\ call'.pid = call.pid /\ call'.todo = call.todo
  BY <1>1 DEF Call
<1>3. /\ dir' \in [Version -> StateDir]
      /\ dir'[w].made /\ ~dir'[w].retained /\ \A v \in Version : dir'[v].rec = dir[v].rec
  <2> DEFINE d == [dir[w] EXCEPT !.made = TRUE, !.retained = FALSE]
  <2>1. dir[w] \in StateDir
    BY <1>1 DEF Inv, TypeOK
  <2>2. d \in StateDir /\ d.made /\ ~d.retained /\ d.rec = dir[w].rec
    BY <2>1 DEF StateDir
  <2>3. dir' = [dir EXCEPT ![w] = d]
    BY <1>1 DEF Prepared
  <2> HIDE DEF d
  <2>4. QED
    BY <1>1, <2>2, <2>3 DEF Inv, TypeOK
<1>4. /\ tree' \in [Version -> OutputDir]
      /\ \A v \in Version : tree'[v].output = tree[v].output /\ tree'[v].previous = tree[v].previous
  <2> DEFINE t == [tree[w] EXCEPT !.made = TRUE]
  <2>1. tree[w] \in OutputDir
    BY <1>1 DEF Inv, TypeOK
  <2>2. t \in OutputDir /\ t.output = tree[w].output /\ t.previous = tree[w].previous
    BY <2>1 DEF OutputDir
  <2>3. tree' = [tree EXCEPT ![w] = t]
    BY <1>1
  <2> HIDE DEF t
  <2>4. QED
    BY <1>1, <2>2, <2>3 DEF Inv, TypeOK
<1>5. sup = 0 /\ Recorded' = Recorded /\ \A p \in Proc : ~Live(p)'
  BY <1>1, Quiet DEF Live, Recorded
<1>6. TypeOK'
  BY <1>1, <1>2, <1>3, <1>4 DEF Inv, TypeOK
<1>7. Found' /\ Supervised' /\ PendingOf' /\ Prepares'
  BY <1>1, <1>2, <1>3, <1>5 DEF Inv, Found, Supervised, PendingOf, Prepares
<1>8. Alone' /\ ReusedOver' /\ RecordsName' /\ WritesAwaited' /\ Waits' /\ ExitsOwn'
  BY <1>1, <1>2, <1>3, <1>5 DEF Inv, Alone, ReusedOver, RecordsName, Pending, WritesAwaited, Waits,
     ExitsOwn
<1>9. OutputsOf' /\ OneWrote'
  <2>1. \A v \in Version : tree[v].output \cap Recorded = {}
    BY <1>1 DEF Inv, OutputsOf, Pending
  <2>2. QED
    BY <1>1, <1>4, <1>5, <2>1 DEF Inv, OutputsOf, OneWrote
<1>10. Removes'
  BY <1>1, <1>2 DEF Inv, Removes, Removing, Idle
<1>11. QED
  BY <1>1, <1>6, <1>7, <1>8, <1>9, <1>10 DEF Inv, OnlyItsOwn

LEMMA ForkInv ==
  ASSUME Inv, Counters', Fork
  PROVE  Inv'
<1> DEFINE w == call.version
<1>1. /\ call.pc = "fork" /\ w \in Version /\ call \in Call /\ up
      /\ dir[w].made /\ ~dir[w].retained /\ row.is # "gone"
      /\ UNCHANGED <<row, dir, up, sup, waits, struck, lapsed>>
  <2>1. call.pc = "fork" /\ UNCHANGED <<row, dir, up, sup, waits, struck, lapsed>>
    BY DEF Fork, history
  <2>2. Idle.pc = "idle"
    BY DEF Idle
  <2>3. QED
    BY <2>1, <2>2 DEF Inv, Prepares, TypeOK, Removes
<1>2. sup = 0 /\ (\A p \in Proc : ~Live(p)) /\ \A v \in Version : tree[v].output \cap Recorded = {}
  BY <1>1, Quiet DEF Inv, OutputsOf, Pending
<1>3. CASE call' = Idle /\ UNCHANGED <<tree, proc>>
  <2>1. Idle \in Call /\ Idle.pc = "idle" /\ Idle.pid = 0 /\ Idle.then = "none"
    BY IdleType
  <2>2. TypeOK'
    BY <1>1, <1>3, <2>1 DEF Inv, TypeOK
  <2>3. Found' /\ Supervised' /\ PendingOf' /\ Prepares' /\ OutputsOf'
    BY <1>1, <1>2, <1>3, <2>1 DEF Found, Live, Recorded, Supervised, PendingOf, Prepares, OutputsOf
  <2>4. Alone' /\ ReusedOver' /\ RecordsName' /\ WritesAwaited' /\ Waits' /\ ExitsOwn' /\ OneWrote'
    BY <1>1, <1>3, <2>1 DEF Inv, Alone, ReusedOver, RecordsName, Pending, Recorded, WritesAwaited,
       Waits, ExitsOwn, OneWrote
  <2>5. Removes'
    BY <1>1, <1>3, <2>1 DEF Inv, Removes, Removing
  <2>6. QED
    BY <1>1, <2>2, <2>3, <2>4, <2>5 DEF Inv, OnlyItsOwn
<1>4. ASSUME NEW p \in Proc, proc[p].life = "unborn",
             proc' = [proc EXCEPT ![p].life = "alive", ![p].version = w],
             tree' = [tree EXCEPT ![w].output = @ \cup {p}],
             call' = [call EXCEPT !.pc = "record", !.pid = p]
      PROVE  Inv'
  <2>1. /\ call' \in Call /\ call'.pc = "record" /\ call'.then = call.then /\ call'.version = w
        /\ call'.pid = p /\ call'.todo = call.todo
    BY <1>1, <1>4 DEF Call
  <2>2. /\ proc' \in [Proc -> Process]
        /\ proc'[p].life = "alive" /\ proc'[p].version = w
        /\ proc'[p].unrecorded = proc[p].unrecorded /\ proc'[p].reused = proc[p].reused
        /\ \A q \in Proc \ {p} : proc'[q] = proc[q]
    <3> DEFINE x == [proc[p] EXCEPT !.life = "alive", !.version = w]
    <3>1. proc[p] \in Process
      BY DEF Inv, TypeOK
    <3>2. /\ x \in Process /\ x.life = "alive" /\ x.version = w
          /\ x.unrecorded = proc[p].unrecorded /\ x.reused = proc[p].reused
      BY <1>1, <3>1 DEF Process
    <3>3. proc' = [proc EXCEPT ![p] = x]
      BY <1>4
    <3> HIDE DEF x
    <3>4. QED
      BY <3>2, <3>3 DEF Inv, TypeOK
  <2>3. /\ tree' \in [Version -> OutputDir]
        /\ tree'[w].output = tree[w].output \cup {p} /\ tree'[w].previous = tree[w].previous
        /\ \A v \in Version \ {w} : tree'[v] = tree[v]
    <3> DEFINE t == [tree[w] EXCEPT !.output = @ \cup {p}]
    <3>1. tree[w] \in OutputDir
      BY <1>1 DEF Inv, TypeOK
    <3>2. t \in OutputDir /\ t.output = tree[w].output \cup {p} /\ t.previous = tree[w].previous
      BY <3>1 DEF OutputDir
    <3>3. tree' = [tree EXCEPT ![w] = t]
      BY <1>4
    <3> HIDE DEF t
    <3>4. QED
      BY <1>1, <3>2, <3>3 DEF Inv, TypeOK
  <2>4. p \notin Recorded /\ Recorded' = Recorded \cup {p} /\ proc[p].reused = "no" /\ waits[p] = "none"
    BY <1>4, <2>2 DEF Inv, Recorded, ReusedOver, Waits
  <2>5. TypeOK'
    BY <1>1, <2>1, <2>2, <2>3 DEF Inv, TypeOK
  <2>6. Found' /\ Alone'
    <3>1. \A q \in Recorded : q # p /\ proc'[q] = proc[q] /\ proc[q].life # "alive" /\ ~proc[q].left
      BY <1>2, <2>2, <2>4 DEF Live, Recorded
    <3>2. Found'
      BY <2>1, <2>4, <3>1 DEF Found, Live, Pending
    <3>3. QED
      BY <2>4, <3>1, <3>2 DEF Alone
  <2>7. ReusedOver' /\ PendingOf' /\ Prepares' /\ Supervised' /\ WritesAwaited'
    BY <1>1, <1>2, <2>1, <2>2, <2>4 DEF Inv, ReusedOver, PendingOf, Prepares, Supervised, WritesAwaited
  <2>8. RecordsName' /\ Waits' /\ ExitsOwn'
    <3>1. /\ \A v \in Version : dir[v].rec # NoRecord =>
               dir[v].rec.pid # p /\ dir[v].rec.pid \in Recorded /\ dir[v].rec.pid \in Proc
          /\ \A q \in Proc : waits[q] # "none" => q # p /\ q \in Recorded
      BY <2>4 DEF Inv, RecordsName, Waits, Recorded
    <3>2. QED
      BY <1>1, <2>1, <2>2, <2>4, <3>1 DEF Inv, RecordsName, Waits, ExitsOwn, Pending
  <2>9. ASSUME NEW v \in Version, NEW q \in tree'[v].output \cap Recorded' PROVE q = p /\ v = w
    <3>1. p \notin tree[v].output
      BY <1>4 DEF Inv, OneWrote
    <3>2. CASE v = w
      BY <1>2, <2>3, <2>4, <3>2
    <3>3. CASE v # w
      BY <1>2, <2>3, <2>4, <3>1, <3>3
    <3>4. QED
      BY <3>2, <3>3
  <2>10. OutputsOf' /\ OneWrote'
    <3>1. OutputsOf'
      BY <2>1, <2>9 DEF OutputsOf, Pending
    <3>2. ASSUME NEW v \in Version
          PROVE  /\ tree'[v].previous = tree[v].previous /\ tree'[v].output \subseteq tree[v].output \cup {p}
                 /\ p \notin tree[v].previous /\ tree[v].output \cup tree[v].previous \subseteq Proc
      <4>1. tree[v] \in OutputDir
        BY DEF Inv, TypeOK
      <4>2. QED
        BY <1>4, <2>3, <4>1 DEF Inv, OneWrote, OutputDir
    <3>3. ASSUME NEW v \in Version, NEW q \in tree'[v].output \cup tree'[v].previous
          PROVE  proc'[q].life # "unborn"
      BY <2>2, <3>2 DEF Inv, OneWrote
    <3>4. \A v \in Version : \A q, r \in tree'[v].previous \cap Recorded' : q = r
      BY <2>4, <3>2 DEF Inv, OneWrote
    <3>5. QED
      BY <2>9, <3>1, <3>3, <3>4 DEF OneWrote
  <2>11. Removes'
    BY <1>1, <2>1 DEF Inv, Removes, Removing
  <2>12. QED
    BY <1>1, <2>5, <2>6, <2>7, <2>8, <2>10, <2>11 DEF Inv, OnlyItsOwn
<1>5. QED
  BY <1>3, <1>4 DEF Fork

LEMMA RecordInv ==
  ASSUME Inv, Counters', Record
  PROVE  Inv'
<1> DEFINE w == call.version
           p == call.pid
<1>1. /\ call.pc = "record" /\ call' = Idle
      /\ UNCHANGED <<row, tree, up, struck, lapsed>>
  BY DEF Record, history
<1>2. Idle \in Call /\ Idle.pc = "idle" /\ Idle.pid = 0 /\ Idle.then = "none"
  BY IdleType
<1>3. /\ w \in Version /\ p \in Proc /\ p # 0 /\ p \in Recorded
      /\ proc[p].life \in {"alive", "zombie"} /\ waits[p] = "none" /\ proc[p].version = w
      /\ dir[w].made /\ ~dir[w].retained /\ up /\ row.is # "gone"
  <2>1. p \in Recorded /\ p \in Proc
    BY <1>1 DEF Inv, PendingOf, Recorded
  <2>2. p # 0
    BY <2>1 DEF Proc
  <2>3. QED
    BY <1>1, <1>2, <2>1, <2>2 DEF Inv, PendingOf, Prepares, Removes
<1>4. /\ sup = 0 /\ (\A q \in Proc : Live(q) => q = p)
      /\ \A v \in Version : \A q \in tree[v].output \cap Recorded : q = p /\ v = w
      /\ \A v \in Version : dir[v].rec # NoRecord => dir[v].rec.pid # p
  BY <1>1 DEF Inv, Supervised, Found, Pending, OutputsOf, RecordsName
<1>5. ~lapsed => \A q \in Proc : waits[q] \notin {"waiting", "collected", "recorded"}
  <2>1. \A q \in Proc : q # 0
    BY DEF Proc
  <2>2. QED
    BY <1>4, <2>1 DEF Inv, WritesAwaited
<1>6. Removes'
  BY <1>1, <1>2, <1>3 DEF Inv, Removes, Removing
<1>7. CASE /\ dir' = [dir EXCEPT ![w].rec = [pid |-> p, ended |-> FALSE, code |-> 0]]
           /\ sup' = p /\ waits' = [waits EXCEPT ![p] = "waiting"] /\ UNCHANGED proc
  <2>1. /\ dir' \in [Version -> StateDir] /\ \A v \in Version \ {w} : dir'[v] = dir[v]
        /\ dir'[w].made /\ ~dir'[w].retained /\ dir'[w].rec \in PidRecord
        /\ dir'[w].rec.pid = p /\ ~dir'[w].rec.ended /\ dir'[w].rec # NoRecord
    <3> DEFINE r == [pid |-> p, ended |-> FALSE, code |-> 0]
               d == [dir[w] EXCEPT !.rec = r]
    <3>1. dir[w] \in StateDir
      BY <1>3 DEF Inv, TypeOK
    <3>2. r \in PidRecord /\ r.pid = p /\ r.ended = FALSE
      BY <1>3 DEF PidRecord
    <3> HIDE DEF r
    <3>3. d \in StateDir /\ d.made = dir[w].made /\ d.retained = dir[w].retained /\ d.rec = r
      BY <3>1, <3>2 DEF StateDir
    <3>4. dir' = [dir EXCEPT ![w] = d]
      BY <1>7 DEF r
    <3> HIDE DEF d
    <3>5. QED
      BY <1>3, <3>2, <3>3, <3>4, ExecAssumption DEF Inv, TypeOK
  <2>2. /\ waits' \in [Proc -> {"none", "waiting", "collected", "recorded", "done"}]
        /\ waits'[p] = "waiting" /\ \A q \in Proc \ {p} : waits'[q] = waits[q]
    BY <1>3, <1>7 DEF Inv, TypeOK
  <2>3. Recorded' = Recorded
    BY <1>7 DEF Recorded
  <2>4. TypeOK'
    BY <1>1, <1>2, <1>3, <1>7, <2>1, <2>2 DEF Inv, TypeOK
  <2>5. Found' /\ Alone' /\ ReusedOver' /\ PendingOf' /\ Prepares'
    BY <1>1, <1>2, <1>3, <1>4, <1>7, <2>1, <2>3 DEF Inv, Found, Live, Observed, Named, Alone,
       ReusedOver, PendingOf, Prepares
  <2>6. RecordsName' /\ Supervised'
    BY <1>1, <1>2, <1>3, <1>7, <2>1, <2>2, <2>3 DEF Inv, RecordsName, Pending, Supervised, Observed,
       Named
  <2>7. WritesAwaited' /\ Waits'
    BY <1>1, <1>2, <1>3, <1>5, <1>7, <2>2, <2>3 DEF Inv, WritesAwaited, Waits, Pending
  <2>8. ExitsOwn'
    BY <1>1, <1>7, <2>1 DEF Inv, ExitsOwn
  <2>9. OutputsOf' /\ OneWrote'
    BY <1>1, <1>2, <1>4, <1>7, <2>1, <2>3 DEF Inv, OutputsOf, Observed, Named, OneWrote
  <2>10. QED
    BY <1>1, <1>6, <2>4, <2>5, <2>6, <2>7, <2>8, <2>9 DEF Inv, OnlyItsOwn
<1>8. CASE /\ proc' = [proc EXCEPT ![p].life = "gone", ![p].left = FALSE, ![p].unrecorded = TRUE]
           /\ UNCHANGED <<dir, sup, waits>>
  <2>1. /\ proc' \in [Proc -> Process] /\ \A q \in Proc \ {p} : proc'[q] = proc[q]
        /\ proc'[p].life = "gone" /\ ~proc'[p].left /\ proc'[p].unrecorded
    <3> DEFINE x == [proc[p] EXCEPT !.life = "gone", !.left = FALSE, !.unrecorded = TRUE]
    <3>1. proc[p] \in Process
      BY <1>3 DEF Inv, TypeOK
    <3>2. x \in Process /\ x.life = "gone" /\ ~x.left /\ x.unrecorded
      BY <3>1 DEF Process
    <3>3. proc' = [proc EXCEPT ![p] = x]
      BY <1>8
    <3> HIDE DEF x
    <3>4. QED
      BY <1>3, <3>2, <3>3 DEF Inv, TypeOK
  <2>2. Recorded' = Recorded \ {p}
    BY <1>3, <2>1 DEF Recorded
  <2>3. TypeOK'
    BY <1>1, <1>2, <1>8, <2>1 DEF Inv, TypeOK
  <2>4. Found' /\ Alone' /\ ReusedOver' /\ PendingOf' /\ Prepares'
    <3>1. \A q \in Recorded' : q \in Proc /\ q # p /\ proc'[q] = proc[q]
      BY <2>1, <2>2 DEF Recorded
    <3>2. Found' /\ Alone'
      BY <1>4, <2>2, <3>1 DEF Inv, Found, Alone, Live
    <3>3. QED
      BY <1>1, <1>2, <2>1, <3>2 DEF Inv, ReusedOver, PendingOf, Prepares
  <2>5. RecordsName' /\ Supervised' /\ WritesAwaited' /\ Waits' /\ ExitsOwn'
    <3>1. /\ \A v \in Version : dir[v].rec # NoRecord =>
               dir[v].rec.pid # p /\ dir[v].rec.pid \in Proc
          /\ \A q \in Proc : waits[q] # "none" => q # p
      BY <1>3, <1>4 DEF Inv, RecordsName, Recorded
    <3>2. QED
      BY <1>1, <1>2, <1>4, <1>8, <2>1, <2>2, <3>1 DEF Inv, RecordsName, Supervised, WritesAwaited,
         Waits, ExitsOwn, Pending
  <2>6. OutputsOf' /\ OneWrote'
    <3>1. \A v \in Version : tree[v].output \cap Recorded' = {}
      BY <1>4, <2>2
    <3>2. \A v \in Version, q \in Proc : proc[q].life # "unborn" => proc'[q].life # "unborn"
      BY <2>1
    <3>3. \A v \in Version : tree[v].output \cup tree[v].previous \subseteq Proc
      BY DEF Inv, TypeOK, OutputDir
    <3>4. QED
      BY <1>1, <2>2, <3>1, <3>2, <3>3 DEF Inv, OutputsOf, OneWrote
  <2>7. QED
    BY <1>1, <1>6, <2>3, <2>4, <2>5, <2>6 DEF Inv, OnlyItsOwn
<1>9. QED
  BY <1>7, <1>8 DEF Record

-----------------------------------------------------------------------------
\* A step of processes and of the goroutines that wait on them, beside any call or of a halt.
LEMMA ProcStep ==
  ASSUME Inv, Counters', UNCHANGED <<row, dir, tree, up, sup, lapsed>>,
         struck' \subseteq {"session", "grace"},
         call' \in Call, call'.then = call.then, call'.version = call.version,
         \/ call' = call
         \/ /\ call.pc \in {"halt", "grace"} /\ call'.pc \in {"halt", "grace"}
            /\ call'.pc = "halt" => call'.pid = 0,
         proc' \in [Proc -> Process],
         \A q \in Proc : /\ proc'[q].version = proc[q].version
                         /\ proc'[q].unrecorded = proc[q].unrecorded
                         /\ proc'[q].life = "unborn" <=> proc[q].life = "unborn"
                         /\ proc'[q].life = "alive" => proc[q].life = "alive",
         waits' \in [Proc -> {"none", "waiting", "collected", "recorded", "done"}],
         \A q \in Proc : waits'[q] = "none" <=> waits[q] = "none",
         \A q \in Proc : waits'[q] \in {"waiting", "collected", "recorded"}
                           => waits[q] \in {"waiting", "collected", "recorded"},
         Found', ReusedOver', PendingOf', Waits', ExitsOwn'
  PROVE  Inv'
<1>1. Recorded' = Recorded /\ \A q \in Recorded : q \in Proc
  BY DEF Recorded
<1>call. /\ \A q : Pending(q)' <=> Pending(q)
         /\ call'.pc = call.pc \/ {call'.pc, call.pc} \subseteq {"halt", "grace"}
  BY DEF Pending
<1>2. TypeOK' /\ OnlyItsOwn'
  BY DEF Inv, TypeOK, OnlyItsOwn
<1>3. Alone' /\ RecordsName' /\ Prepares'
  <2>1. Alone' /\ RecordsName'
    BY <1>1, <1>call DEF Inv, Alone, RecordsName
  <2>2. Prepares'
    BY DEF Inv, Prepares
  <2>3. QED
    BY <2>1, <2>2
<1>4. Supervised'
  <2>1. sup # 0 => sup \in Proc
    BY DEF Inv, TypeOK
  <2>2. QED
    BY <1>call, <2>1 DEF Inv, Supervised, Observed, Named
<1>5. WritesAwaited'
  BY DEF Inv, WritesAwaited
<1>6. OutputsOf'
  <2>1. newest' = newest
    BY DEF newest, Readable
  <2>2. \A v \in Version, q \in Proc : Observed(v, q)' <=> Observed(v, q)
    BY DEF Observed, Named
  <2>3. \A v \in Version : tree[v].output \subseteq Proc
    BY DEF Inv, TypeOK, OutputDir
  <2>4. ASSUME NEW v \in Version, NEW q \in tree[v].output \cap Recorded
        PROVE  \/ Pending(q)' /\ call'.version = v
               \/ /\ Observed(v, q)
                  /\ call'.pc \in {"idle", "halt", "grace", "prune", "pruned", "keep", "clear"}
                  /\ call'.pc = "pruned" => v = newest
               \/ /\ row.is = "deleted"
                  /\ call'.pc = "idle" \/ (call'.pc \in {"halt", "grace", "clear", "cleared"} /\ Removing)
    BY <1>call DEF Inv, OutputsOf
  <2>5. QED
    BY <1>1, <2>1, <2>2, <2>3, <2>4 DEF OutputsOf, Removing
<1>7. OneWrote'
  <2>1. \A v \in Version : tree[v].output \cup tree[v].previous \subseteq Proc
    BY DEF Inv, TypeOK, OutputDir
  <2>2. QED
    BY <1>1, <2>1 DEF Inv, OneWrote
<1>8. Removes'
  <2>1. call' = Idle <=> call = Idle
    BY IdleType
  <2>2. QED
    BY <1>call, <2>1, IdleType DEF Inv, Removes, Removing, Readable
<1>9. QED
  BY <1>2, <1>3, <1>4, <1>5, <1>6, <1>7, <1>8 DEF Inv

LEMMA CollectInv ==
  ASSUME Inv, Counters', Collect
  PROVE  Inv'
<1>1. PICK p \in Proc :
        /\ waits[p] = "waiting" /\ proc[p].life = "zombie"
        /\ proc' = [proc EXCEPT ![p].life = "gone", ![p].done = proc[p].code = 0 /\ ~proc[p].asked]
        /\ waits' = [waits EXCEPT ![p] = "collected"]
        /\ UNCHANGED <<row, dir, tree, up, sup, call, struck, lapsed>>
  BY DEF Collect, history
<1>2. /\ proc' \in [Proc -> Process] /\ \A q \in Proc \ {p} : proc'[q] = proc[q]
      /\ proc'[p].life = "gone" /\ proc'[p].left = proc[p].left /\ proc'[p].code = proc[p].code
      /\ proc'[p].version = proc[p].version /\ proc'[p].reused = proc[p].reused
      /\ proc'[p].unrecorded = proc[p].unrecorded
  <2> DEFINE x == [proc[p] EXCEPT !.life = "gone", !.done = proc[p].code = 0 /\ ~proc[p].asked]
  <2>1. proc[p] \in Process /\ (proc[p].code = 0 /\ ~proc[p].asked) \in BOOLEAN
    BY DEF Inv, TypeOK
  <2>2. /\ x \in Process /\ x.life = "gone" /\ x.left = proc[p].left /\ x.code = proc[p].code
        /\ x.version = proc[p].version /\ x.reused = proc[p].reused
        /\ x.unrecorded = proc[p].unrecorded
    BY <2>1 DEF Process
  <2>3. proc' = [proc EXCEPT ![p] = x]
    BY <1>1
  <2> HIDE DEF x
  <2>4. QED
    BY <2>2, <2>3 DEF Inv, TypeOK
<1>3. /\ waits' \in [Proc -> {"none", "waiting", "collected", "recorded", "done"}]
      /\ waits'[p] = "collected" /\ \A q \in Proc \ {p} : waits'[q] = waits[q]
  BY <1>1 DEF Inv, TypeOK
<1>4. /\ p \in Recorded /\ ~Pending(p) /\ Recorded' = Recorded
      /\ \A q \in Proc : proc'[q].life = "alive" => proc[q].life = "alive"
      /\ \A q \in Proc : proc'[q].left = proc[q].left /\ proc'[q].version = proc[q].version
  BY <1>1, <1>2 DEF Inv, Waits, Recorded
<1>5. Found' /\ ReusedOver' /\ PendingOf'
  BY <1>1, <1>2, <1>3, <1>4 DEF Inv, Found, Live, Pending, Observed, Named, ReusedOver, PendingOf,
     Recorded
<1>6. Waits' /\ ExitsOwn'
  <2>1. \A v \in Version : dir[v].rec # NoRecord => dir[v].rec.pid \in Proc
    BY DEF Inv, RecordsName, Recorded
  <2>2. QED
    BY <1>1, <1>2, <1>3, <1>4, <2>1 DEF Inv, Waits, Pending, ExitsOwn
<1>7. struck' \subseteq {"session", "grace"} /\ call \in Call
  BY <1>1 DEF Inv, TypeOK, OnlyItsOwn
<1>8. \A q \in Proc : /\ proc'[q].version = proc[q].version
                      /\ proc'[q].unrecorded = proc[q].unrecorded
                      /\ proc'[q].life = "unborn" <=> proc[q].life = "unborn"
                      /\ proc'[q].life = "alive" => proc[q].life = "alive"
                      /\ waits'[q] = "none" <=> waits[q] = "none"
                      /\ waits'[q] \in {"waiting", "collected", "recorded"}
                           => waits[q] \in {"waiting", "collected", "recorded"}
  BY <1>1, <1>2, <1>3
<1>9. QED
  BY <1>1, <1>2, <1>3, <1>5, <1>6, <1>7, <1>8, ProcStep

LEMMA ForgetInv ==
  ASSUME Inv, Counters', Forget
  PROVE  Inv'
<1>1. PICK p \in Proc :
        /\ waits[p] = "recorded" /\ sup' = (IF sup = p THEN 0 ELSE sup)
        /\ waits' = [waits EXCEPT ![p] = "done"]
        /\ UNCHANGED <<row, dir, tree, proc, up, call, struck, lapsed>>
  BY DEF Forget, history
<1>2. /\ waits' \in [Proc -> {"none", "waiting", "collected", "recorded", "done"}]
      /\ waits'[p] = "done" /\ \A q \in Proc \ {p} : waits'[q] = waits[q]
  BY <1>1 DEF Inv, TypeOK
<1>3. Recorded' = Recorded
  BY <1>1 DEF Recorded
<1>4. TypeOK'
  BY <1>1, <1>2 DEF Inv, TypeOK
<1>5. Found' /\ Alone' /\ ReusedOver' /\ RecordsName' /\ Prepares' /\ ExitsOwn' /\ OneWrote'
  BY <1>1, <1>3 DEF Inv, Found, Live, Pending, Observed, Named, Alone, ReusedOver, RecordsName,
     Prepares, ExitsOwn, OneWrote
<1>6. PendingOf' /\ Waits' /\ WritesAwaited'
  BY <1>1, <1>2, <1>3 DEF Inv, PendingOf, Waits, WritesAwaited, Pending, Recorded
<1>7. Supervised'
  BY <1>1, <1>2 DEF Inv, Supervised, Observed, Named, TypeOK
<1>8. OutputsOf'
  BY <1>1, <1>3 DEF Inv, OutputsOf, Pending, Observed, Named, Removing, newest, Readable
<1>9. Removes'
  BY <1>1, <1>2 DEF Inv, Removes, Removing, Readable
<1>10. QED
  BY <1>1, <1>4, <1>5, <1>6, <1>7, <1>8, <1>9 DEF Inv, OnlyItsOwn

\* The goroutine knows only the directory.  The record there is its process's own as long as
\* no wait for it has lapsed.
LEMMA RecordExitInv ==
  ASSUME Inv, Counters', RecordExit
  PROVE  Inv'
<1>1. PICK p \in Proc :
        /\ waits[p] = "collected"
        /\ LET v == proc[p].version
           IN dir' = IF v \in Readable
                     THEN [dir EXCEPT ![v].rec.ended = TRUE, ![v].rec.code = proc[p].code] ELSE dir
        /\ waits' = [waits EXCEPT ![p] = "recorded"]
        /\ UNCHANGED <<row, tree, proc, up, sup, call, struck, lapsed>>
  BY DEF RecordExit, history
<1> DEFINE w == proc[p].version
<1>2. /\ waits' \in [Proc -> {"none", "waiting", "collected", "recorded", "done"}]
      /\ waits'[p] = "recorded" /\ \A q \in Proc \ {p} : waits'[q] = waits[q]
  BY <1>1 DEF Inv, TypeOK
<1>3. /\ dir' \in [Version -> StateDir]
      /\ \A v \in Version : /\ dir'[v].made = dir[v].made /\ dir'[v].retained = dir[v].retained
                            /\ dir'[v].rec = NoRecord <=> dir[v].rec = NoRecord
                            /\ dir[v].rec # NoRecord => dir'[v].rec.pid = dir[v].rec.pid
                            /\ v # w => dir'[v] = dir[v]
      /\ w \in Readable => dir'[w].rec.code = proc[p].code
      /\ w \notin Readable => dir' = dir
  <2>1. CASE w \notin Readable
    BY <1>1, <2>1 DEF Inv, TypeOK
  <2>2. CASE w \in Readable
    <3> DEFINE r == [dir[w].rec EXCEPT !.ended = TRUE, !.code = proc[p].code]
               d == [dir[w] EXCEPT !.rec = r]
    <3>1. w \in Version /\ dir[w] \in StateDir /\ dir[w].rec \in PidRecord /\ dir[w].rec # NoRecord
      BY <2>2 DEF Readable, Inv, TypeOK, StateDir
    <3>2. proc[p].code \in 0..1
      BY DEF Inv, TypeOK, Process
    <3>3. r \in PidRecord /\ r.pid = dir[w].rec.pid /\ r.code = proc[p].code
      BY <3>1, <3>2 DEF PidRecord
    <3>4. dir' = [dir EXCEPT ![w] = d]
      BY <1>1, <2>2
    <3> HIDE DEF r
    <3>5. d \in StateDir /\ d.made = dir[w].made /\ d.retained = dir[w].retained /\ d.rec = r
      BY <3>1, <3>3 DEF StateDir
    <3> HIDE DEF d
    <3>6. r # NoRecord
      BY <3>3, ExecAssumption
    <3>7. QED
      BY <2>2, <3>1, <3>3, <3>4, <3>5, <3>6 DEF Inv, TypeOK
  <2>3. QED
    BY <2>1, <2>2
<1>frame. waits[p] = "collected" /\ UNCHANGED <<row, tree, proc, up, sup, call, struck, lapsed>>
  BY <1>1
<1>4. Recorded' = Recorded /\ Readable' = Readable /\ newest' = newest
  <2>1. Readable' = Readable
    BY <1>3 DEF Readable
  <2>2. QED
    BY <1>frame, <2>1 DEF Recorded, newest
<1>5. \A v \in Version, q \in Proc : Observed(v, q)' <=> Observed(v, q)
  BY <1>3 DEF Observed, Named
<1>6. TypeOK'
  BY <1>frame, <1>2, <1>3 DEF Inv, TypeOK
<1>7. Found' /\ Alone' /\ ReusedOver' /\ Prepares' /\ OneWrote'
  <2>1. Found' /\ Alone' /\ ReusedOver'
    BY <1>frame, <1>4, <1>5 DEF Inv, Found, Live, Pending, Alone, ReusedOver
  <2>2. Prepares' /\ OneWrote'
    BY <1>frame, <1>3, <1>4 DEF Inv, Prepares, OneWrote
  <2>3. QED
    BY <2>1, <2>2
<1>8. RecordsName'
  <2>1. ASSUME NEW v \in Version, dir'[v].rec # NoRecord
        PROVE  dir[v].rec # NoRecord /\ dir'[v].rec.pid = dir[v].rec.pid
    BY <1>3, <2>1
  <2>2. QED
    BY <1>frame, <1>4, <2>1 DEF Inv, RecordsName, Pending
<1>9. PendingOf' /\ Waits' /\ WritesAwaited'
  BY <1>frame, <1>2, <1>4 DEF Inv, PendingOf, Waits, WritesAwaited, Pending, Recorded
<1>10. Supervised'
  <2>1. sup # 0 => sup \in Proc
    BY DEF Inv, TypeOK
  <2>2. QED
    BY <1>frame, <1>2, <1>5, <2>1 DEF Inv, Supervised
<1>11. ExitsOwn'
  <2>1. CASE ~lapsed /\ w \in Readable
    <3>1. sup = p /\ sup # 0
      BY <1>frame, <2>1 DEF Inv, WritesAwaited, Proc
    <3>2. dir[w].rec.pid = p /\ proc[p].life = "gone"
      BY <1>frame, <3>1 DEF Inv, Supervised, Observed, Named, Waits
    <3>3. w \in Version /\ dir[w].rec # NoRecord
      BY <2>1 DEF Readable
    <3>4. dir'[w].rec.pid = p /\ dir'[w].rec.code = proc[p].code
      BY <1>3, <2>1, <3>2, <3>3
    <3>5. QED
      BY <1>frame, <1>3, <3>2, <3>4 DEF Inv, ExitsOwn
  <2>2. CASE ~lapsed /\ w \notin Readable
    BY <1>frame, <1>3, <2>2 DEF Inv, ExitsOwn
  <2>3. CASE lapsed
    BY <1>frame, <2>3 DEF ExitsOwn
  <2>4. QED
    BY <2>1, <2>2, <2>3
<1>12. OutputsOf'
  <2>1. \A v \in Version : tree[v].output \subseteq Proc
    BY DEF Inv, TypeOK, OutputDir
  <2>2. QED
    BY <1>frame, <1>4, <1>5, <2>1 DEF Inv, OutputsOf, Pending, Removing
<1>13. Removes'
  <2>1. NoDir.rec = NoRecord /\ NoDir.made = FALSE
    BY DEF NoDir
  <2>2. \A v \in Version : dir[v] = NoDir => dir'[v] = NoDir
    BY <1>3, <2>1 DEF Readable
  <2>3. QED
    BY <1>frame, <1>2, <1>4, <2>2 DEF Inv, Removes, Removing
<1>14. QED
  BY <1>frame, <1>6, <1>7, <1>8, <1>9, <1>10, <1>11, <1>12, <1>13 DEF Inv, OnlyItsOwn

-----------------------------------------------------------------------------
\* A process ends by itself.
LEMMA ExitsInv ==
  ASSUME Inv, Counters', Exits
  PROVE  Inv'
<1>1. PICK p \in Proc, code \in 0..1, left \in BOOLEAN :
        /\ proc[p].life = "alive"
        /\ proc' = [proc EXCEPT
             ![p].life = IF waits[p] = "waiting" \/ Pending(p) THEN "zombie" ELSE "gone",
             ![p].code = code, ![p].left = left]
        /\ UNCHANGED <<row, dir, tree, up, sup, waits, call, struck, lapsed>>
  BY DEF Exits, Pending, history
<1>2. /\ proc' \in [Proc -> Process] /\ \A q \in Proc \ {p} : proc'[q] = proc[q]
      /\ proc'[p].life = IF waits[p] = "waiting" \/ Pending(p) THEN "zombie" ELSE "gone"
      /\ proc'[p].version = proc[p].version /\ proc'[p].reused = proc[p].reused
      /\ proc'[p].unrecorded = proc[p].unrecorded
  <2> DEFINE x == [proc[p] EXCEPT
               !.life = IF waits[p] = "waiting" \/ Pending(p) THEN "zombie" ELSE "gone",
               !.code = code, !.left = left]
  <2>1. proc[p] \in Process
    BY DEF Inv, TypeOK
  <2>2. /\ x \in Process
        /\ x.life = IF waits[p] = "waiting" \/ Pending(p) THEN "zombie" ELSE "gone"
        /\ x.version = proc[p].version /\ x.reused = proc[p].reused
        /\ x.unrecorded = proc[p].unrecorded
    BY <2>1 DEF Process
  <2>3. proc' = [proc EXCEPT ![p] = x]
    BY <1>1
  <2> HIDE DEF x
  <2>4. QED
    BY <2>2, <2>3 DEF Inv, TypeOK
<1>3. /\ UNCHANGED <<row, dir, tree, up, sup, waits, call, lapsed>>
      /\ struck' \subseteq {"session", "grace"} /\ call \in Call
      /\ waits \in [Proc -> {"none", "waiting", "collected", "recorded", "done"}]
  BY <1>1 DEF Inv, TypeOK, OnlyItsOwn
<1>4. \A q \in Proc : /\ proc'[q].version = proc[q].version
                      /\ proc'[q].unrecorded = proc[q].unrecorded
                      /\ proc'[q].life = "unborn" <=> proc[q].life = "unborn"
                      /\ proc'[q].life = "alive" => proc[q].life = "alive"
  BY <1>1, <1>2
<1>5. \A q \in Proc : Live(q)' => Live(q)
  BY <1>1, <1>2 DEF Live, Recorded
<1>6. Found'
  BY <1>3, <1>4, <1>5 DEF Inv, Found, Pending, Observed, Named
<1>7. ReusedOver' /\ PendingOf'
  BY <1>1, <1>2, <1>3 DEF Inv, ReusedOver, PendingOf, Pending, Recorded
<1>8. Waits' /\ ExitsOwn'
  <2>1. \A v \in Version : dir[v].rec # NoRecord => dir[v].rec.pid \in Proc
    BY DEF Inv, RecordsName, Recorded
  <2>2. \A q \in Proc : q # p => proc'[q] = proc[q]
    BY <1>2
  <2>alive. proc[p].life = "alive"
    BY <1>1
  <2>3. Recorded' = Recorded /\ \A q \in Proc : Pending(q)' <=> Pending(q)
    BY <1>3, <1>4 DEF Recorded, Pending
  <2>4. Waits'
    BY <1>2, <1>3, <2>alive, <2>2, <2>3 DEF Inv, Waits
  <2>5. ExitsOwn'
    BY <1>3, <2>alive, <2>1, <2>2 DEF Inv, ExitsOwn
  <2>6. QED
    BY <2>4, <2>5
<1>9. QED
  BY <1>2, <1>3, <1>4, <1>6, <1>7, <1>8, ProcStep

\* The kernel hands out the number of a process that is over.
LEMMA ReusesInv ==
  ASSUME Inv, Counters', Reuses
  PROVE  Inv'
<1>1. PICK p \in Proc, leads \in {"group", "session"} :
        /\ proc[p].life = "gone" /\ ~proc[p].left
        /\ proc' = [proc EXCEPT ![p].reused = leads]
        /\ UNCHANGED <<row, dir, tree, up, sup, waits, call, struck, lapsed>>
  BY DEF Reuses, history
<1>2. /\ proc' \in [Proc -> Process]
      /\ \A q \in Proc : /\ proc'[q].life = proc[q].life /\ proc'[q].left = proc[q].left
                         /\ proc'[q].version = proc[q].version /\ proc'[q].code = proc[q].code
                         /\ proc'[q].unrecorded = proc[q].unrecorded
                         /\ q # p => proc'[q] = proc[q]
  <2> DEFINE x == [proc[p] EXCEPT !.reused = leads]
  <2>1. proc[p] \in Process
    BY DEF Inv, TypeOK
  <2>2. /\ x \in Process /\ x.life = proc[p].life /\ x.left = proc[p].left
        /\ x.version = proc[p].version /\ x.code = proc[p].code
        /\ x.unrecorded = proc[p].unrecorded
    BY <2>1 DEF Process
  <2>3. proc' = [proc EXCEPT ![p] = x]
    BY <1>1
  <2> HIDE DEF x
  <2>4. QED
    BY <2>2, <2>3 DEF Inv, TypeOK
<1>3. /\ UNCHANGED <<row, dir, tree, up, sup, waits, call, lapsed>>
      /\ struck' \subseteq {"session", "grace"} /\ call \in Call
      /\ waits \in [Proc -> {"none", "waiting", "collected", "recorded", "done"}]
  BY <1>1 DEF Inv, TypeOK, OnlyItsOwn
<1>4. Found' /\ PendingOf' /\ Waits'
  BY <1>2, <1>3 DEF Inv, Found, Live, Recorded, Pending, Observed, Named, PendingOf, Waits
<1>5. ReusedOver'
  BY <1>1, <1>2 DEF Inv, ReusedOver
<1>6. ExitsOwn'
  <2>1. \A v \in Version : dir[v].rec # NoRecord => dir[v].rec.pid \in Proc
    BY DEF Inv, RecordsName, Recorded
  <2>2. QED
    BY <1>2, <1>3, <2>1 DEF Inv, ExitsOwn
<1>7. QED
  BY <1>2, <1>3, <1>4, <1>5, <1>6, ProcStep

\* The server dies: what was cloned and is not on record is lost, and nobody waits any more.
LEMMA DiesInv ==
  ASSUME Inv, Counters', Dies
  PROVE  Inv'
<1>1. /\ up' = FALSE /\ sup' = 0 /\ waits' = [p \in Proc |-> "none"] /\ call' = Idle
      /\ proc' = [p \in Proc |->
           [proc[p] EXCEPT !.life = IF @ = "zombie" THEN "gone" ELSE @,
                           !.unrecorded = @ \/ (call.pid = p /\ call.pc = "record"),
                           !.done = @ /\ waits[p] # "collected"]]
      /\ UNCHANGED <<row, dir, tree, struck, lapsed>>
  BY DEF Dies, history
<1>2. /\ proc' \in [Proc -> Process]
      /\ \A p \in Proc : /\ proc'[p].life = IF proc[p].life = "zombie" THEN "gone" ELSE proc[p].life
                         /\ proc'[p].unrecorded <=> (proc[p].unrecorded \/ Pending(p))
                         /\ proc'[p].version = proc[p].version /\ proc'[p].left = proc[p].left
                         /\ proc'[p].code = proc[p].code /\ proc'[p].reused = proc[p].reused
  <2>1. ASSUME NEW p \in Proc
        PROVE  /\ proc'[p] \in Process
               /\ proc'[p].life = IF proc[p].life = "zombie" THEN "gone" ELSE proc[p].life
               /\ proc'[p].unrecorded <=> (proc[p].unrecorded \/ Pending(p))
               /\ proc'[p].version = proc[p].version /\ proc'[p].left = proc[p].left
               /\ proc'[p].code = proc[p].code /\ proc'[p].reused = proc[p].reused
    <3> DEFINE un == proc[p].unrecorded \/ (call.pid = p /\ call.pc = "record")
               dn == proc[p].done /\ waits[p] # "collected"
               li == IF proc[p].life = "zombie" THEN "gone" ELSE proc[p].life
    <3>1. proc[p] \in Process /\ un \in BOOLEAN /\ dn \in BOOLEAN
      BY DEF Inv, TypeOK
    <3>2. li \in {"unborn", "alive", "zombie", "gone"}
      BY <3>1 DEF Process
    <3>3. proc'[p] = [proc[p] EXCEPT !.life = li, !.unrecorded = un, !.done = dn]
      BY <1>1
    <3>4. un <=> (proc[p].unrecorded \/ Pending(p))
      BY DEF Pending
    <3> HIDE DEF un, dn, li
    <3>5. /\ proc'[p] \in Process /\ proc'[p].life = li /\ proc'[p].unrecorded = un
          /\ proc'[p].version = proc[p].version /\ proc'[p].left = proc[p].left
          /\ proc'[p].code = proc[p].code /\ proc'[p].reused = proc[p].reused
      BY <3>1, <3>2, <3>3 DEF Process
    <3>6. QED
      BY <3>4, <3>5 DEF li
  <2>2. proc' = [p \in Proc |-> proc'[p]]
    BY <1>1
  <2>3. QED
    BY <2>1, <2>2
<1>3. Idle \in Call /\ Idle.pc = "idle" /\ Idle.pid = 0 /\ Idle.then = "none"
  BY IdleType
<1>frame. /\ up' = FALSE /\ sup' = 0 /\ call' = Idle /\ UNCHANGED <<row, dir, tree, struck, lapsed>>
          /\ waits' = [p \in Proc |-> "none"]
  BY <1>1
<1>4. \A p \in Proc : p \in Recorded' <=> p \in Recorded /\ ~Pending(p)
  BY <1>2 DEF Recorded, Inv, PendingOf, Pending
<1>5. TypeOK'
  BY <1>frame, <1>2, <1>3 DEF Inv, TypeOK
<1>6. Found' /\ Alone'
  <2>1. \A p \in Proc : Live(p)' => Live(p) /\ ~Pending(p)
    BY <1>2, <1>4 DEF Live
  <2>2. \A p \in Recorded' : p \in Proc /\ p \in Recorded
    BY <1>4 DEF Recorded
  <2>3. QED
    BY <1>frame, <1>2, <1>3, <2>1, <2>2 DEF Inv, Found, Observed, Named, Alone
<1>7. ReusedOver' /\ PendingOf' /\ Prepares'
  BY <1>frame, <1>2, <1>3 DEF Inv, ReusedOver, PendingOf, Pending, Prepares
<1>8. RecordsName'
  BY <1>frame, <1>2, <1>3, <1>4 DEF Inv, RecordsName, Pending, Recorded
<1>9. Supervised' /\ WritesAwaited' /\ Waits'
  BY <1>frame DEF Supervised, WritesAwaited, Waits
<1>10. ExitsOwn'
  <2>1. \A v \in Version : dir[v].rec # NoRecord => dir[v].rec.pid \in Proc
    BY DEF Inv, RecordsName, Recorded
  <2>2. QED
    BY <1>frame, <1>2, <2>1 DEF Inv, ExitsOwn
<1>11. OutputsOf' /\ OneWrote'
  <2>1. \A v \in Version : tree[v].output \cup tree[v].previous \subseteq Proc
    BY DEF Inv, TypeOK, OutputDir
  <2>2. OutputsOf'
    BY <1>frame, <1>3, <1>4, <2>1 DEF Inv, OutputsOf, Observed, Named
  <2>3. QED
    BY <1>frame, <1>2, <1>4, <2>1, <2>2 DEF Inv, OneWrote
<1>12. Removes'
  BY <1>frame, <1>3 DEF Inv, Removes, Removing
<1>13. QED
  BY <1>frame, <1>5, <1>6, <1>7, <1>8, <1>9, <1>10, <1>11, <1>12 DEF Inv, OnlyItsOwn

LEMMA BootsInv ==
  ASSUME Inv, Counters', Boots
  PROVE  Inv'
<1>1. ~up /\ up' = TRUE /\ UNCHANGED <<row, dir, tree, proc, sup, waits, call, struck, lapsed>>
  BY DEF Boots, history
<1>2. TypeOK'
  BY <1>1 DEF Inv, TypeOK
<1>3. Found' /\ Alone' /\ ReusedOver' /\ RecordsName' /\ PendingOf' /\ Prepares'
  BY <1>1 DEF Inv, Found, Live, Recorded, Pending, Observed, Named, Alone, ReusedOver, RecordsName,
     PendingOf, Prepares
<1>4. Supervised' /\ WritesAwaited' /\ Waits' /\ ExitsOwn' /\ OneWrote'
  BY <1>1 DEF Inv, Supervised, Observed, Named, WritesAwaited, Waits, Pending, Recorded, ExitsOwn,
     OneWrote
<1>5. OutputsOf'
  BY <1>1 DEF Inv, OutputsOf, Pending, Recorded, Observed, Named, Removing, newest, Readable
<1>6. Removes'
  BY <1>1 DEF Inv, Removes, Removing, Readable
<1>7. QED
  BY <1>1, <1>2, <1>3, <1>4, <1>5, <1>6 DEF Inv, OnlyItsOwn

-----------------------------------------------------------------------------
\* What a signal to its group does to a process of the driver's.
LEMMA KilledType ==
  ASSUME Inv, NEW q \in Proc
  PROVE  /\ Killed(q) \in Process /\ ~Killed(q).left
         /\ Killed(q).life = IF proc[q].life \notin {"alive", "zombie"} THEN proc[q].life
                             ELSE IF waits[q] = "waiting" THEN "zombie" ELSE "gone"
         /\ Killed(q).code = IF proc[q].life = "alive" THEN 1 ELSE proc[q].code
         /\ Killed(q).version = proc[q].version /\ Killed(q).reused = proc[q].reused
         /\ Killed(q).unrecorded = proc[q].unrecorded
<1> DEFINE li == IF proc[q].life \notin {"alive", "zombie"} THEN proc[q].life
                 ELSE IF waits[q] = "waiting" THEN "zombie" ELSE "gone"
           co == IF proc[q].life = "alive" THEN 1 ELSE proc[q].code
<1>1. proc[q] \in Process
  BY DEF Inv, TypeOK
<1>2. li \in {"unborn", "alive", "zombie", "gone"} /\ co \in 0..1
  BY <1>1 DEF Process
<1>3. Killed(q) = [proc[q] EXCEPT !.life = li, !.code = co, !.left = FALSE]
  BY DEF Killed
<1> HIDE DEF li, co
<1>4. /\ Killed(q) \in Process /\ Killed(q).life = li /\ Killed(q).left = FALSE
      /\ Killed(q).code = co /\ Killed(q).version = proc[q].version
      /\ Killed(q).reused = proc[q].reused /\ Killed(q).unrecorded = proc[q].unrecorded
  BY <1>1, <1>2, <1>3 DEF Process
<1>5. QED
  BY <1>4 DEF li, co

\* A version is dealt with: its group is signalled, or nothing of its process is left to be.
LEMMA EndsInv ==
  ASSUME Inv, Counters', NEW v, NEW group \in BOOLEAN, Ends(v, group),
         group \/ \A q \in Proc : Named(v, q) => proc[q].life # "alive" /\ ~proc[q].left,
         call.pc \in {"halt", "grace"}, call' \in Call, call'.pc = "halt", call'.pid = 0,
         call'.then = call.then, call'.version = call.version, call'.todo = call.todo \ {v},
         UNCHANGED <<row, dir, tree, up, sup, waits, lapsed>>,
         struck' \subseteq {"session", "grace"}
  PROVE  Inv'
<1> DEFINE hit == Hit(v, group)
<1>1. \A q \in Proc : proc'[q] = IF q \in hit THEN Killed(q) ELSE proc[q]
  BY DEF Ends
<1>2. \A q \in Proc : (group /\ Named(v, q)) => q \in hit
  BY DEF Hit, Named
<1> HIDE DEF hit
<1>3. proc' \in [Proc -> Process]
  <2>1. \A q \in Proc : proc'[q] \in Process
    BY <1>1, KilledType DEF Inv, TypeOK
  <2>2. proc' = [q \in Proc |-> proc'[q]]
    BY DEF Ends
  <2>3. QED
    BY <2>1, <2>2
<1>4. ASSUME NEW q \in Proc
      PROVE  /\ proc'[q].version = proc[q].version /\ proc'[q].reused = proc[q].reused
             /\ proc'[q].unrecorded = proc[q].unrecorded
             /\ proc'[q].life = "unborn" <=> proc[q].life = "unborn"
             /\ proc'[q].life = "alive" => proc[q].life = "alive" /\ q \notin hit
             /\ proc'[q].left => proc[q].left /\ q \notin hit
             /\ proc[q].life = "gone" => proc'[q].life = "gone" /\ proc'[q].code = proc[q].code
             /\ proc[q].life \in {"alive", "zombie"} /\ waits[q] = "waiting" =>
                  proc'[q].life \in {"alive", "zombie"}
  <2>1. CASE q \in hit
    BY <1>1, <2>1, KilledType
  <2>2. CASE q \notin hit
    BY <1>1, <2>2, KilledType DEF Inv, TypeOK, Process
  <2>3. QED
    BY <2>1, <2>2
<1>5. Recorded' = Recorded /\ \A q : ~Pending(q) /\ ~Pending(q)'
  BY <1>4 DEF Recorded, Pending
<1>6. Found'
  <2>1. ASSUME NEW q \in Proc, Live(q)'
        PROVE  /\ Observed(proc[q].version, q) /\ proc[q].version \in Version
               /\ proc[q].version \in call.todo /\ proc[q].version # v
    <3>1. Live(q) /\ q \notin hit
      BY <1>4, <1>5, <2>1 DEF Live
    <3>2. /\ Observed(proc[q].version, q) /\ proc[q].version \in Version
          /\ proc[q].version \in call.todo
      BY <1>5, <3>1 DEF Inv, Found
    <3>3. proc[q].version # v
      BY <1>2, <3>1, <3>2 DEF Observed, Live
    <3>4. QED
      BY <3>2, <3>3
  <2>2. QED
    BY <1>4, <2>1 DEF Found, Observed, Named
<1>7. ReusedOver' /\ PendingOf'
  BY <1>4 DEF Inv, ReusedOver, PendingOf
<1>8. Waits'
  BY <1>4, <1>5 DEF Inv, Waits
<1>9. ExitsOwn'
  <2>1. \A u \in Version : dir[u].rec # NoRecord => dir[u].rec.pid \in Proc
    BY DEF Inv, RecordsName, Recorded
  <2>2. QED
    BY <1>4, <2>1 DEF Inv, ExitsOwn
<1>10. waits \in [Proc -> {"none", "waiting", "collected", "recorded", "done"}]
  BY DEF Inv, TypeOK
<1>11. QED
  BY <1>3, <1>4, <1>6, <1>7, <1>8, <1>9, <1>10, ProcStep

\* A process that is asked to stop, and one that is gone; a number handed out again has
\* nothing alive and nothing left of the process it was.
LEMMA HaltInv ==
  ASSUME Inv, Counters', Halt
  PROVE  Inv'
<1>1. PICK v \in call.todo :
       \/ /\ v \notin Readable
          /\ call' = [call EXCEPT !.todo = @ \ {v}] /\ UNCHANGED <<proc, struck>>
       \/ /\ v \in Readable /\ alive(dir[v].rec)
          /\ call' = [call EXCEPT !.pc = "grace", !.pid = dir[v].rec.pid, !.at = v]
          /\ proc' = [proc EXCEPT ![dir[v].rec.pid].asked = TRUE]
          /\ Strikes(dir[v].rec.pid, "mistaken")
       \/ /\ v \in Readable /\ ~alive(dir[v].rec) /\ ~Leaves(v)
          /\ call' = [call EXCEPT !.todo = @ \ {v}] /\ Ends(v, TRUE)
          /\ Strikes(dir[v].rec.pid, "session")
       \/ /\ Leaves(v)
          /\ call' = [call EXCEPT !.todo = @ \ {v}] /\ Ends(v, FALSE)
          /\ struck' = struck
  BY DEF Halt
<1>2. /\ call.pc = "halt" /\ UNCHANGED <<row, dir, tree, up, sup, waits, lapsed>>
      /\ call \in Call /\ v \in Version /\ call.pid = 0 /\ struck \subseteq {"session", "grace"}
      /\ waits \in [Proc -> {"none", "waiting", "collected", "recorded", "done"}]
      /\ proc \in [Proc -> Process]
  BY DEF Halt, Inv, TypeOK, Call, Prepares, OnlyItsOwn
<1>3. ASSUME call' = [call EXCEPT !.todo = @ \ {v}]
      PROVE  /\ call' \in Call /\ call'.pc = "halt" /\ call'.pid = 0 /\ call'.then = call.then
             /\ call'.version = call.version /\ call'.todo = call.todo \ {v}
  BY <1>2, <1>3 DEF Call
<1>4. CASE v \notin Readable /\ call' = [call EXCEPT !.todo = @ \ {v}] /\ UNCHANGED <<proc, struck>>
  <2>1. \A q \in Proc : Live(q) => proc[q].version # v
    BY <1>2, <1>4 DEF Inv, Found, Pending, Observed, Named, Readable
  <2>2. Found'
    BY <1>2, <1>3, <1>4, <2>1 DEF Inv, Found, Live, Recorded, Pending, Observed, Named
  <2>3. ReusedOver' /\ PendingOf' /\ Waits' /\ ExitsOwn'
    BY <1>2, <1>3, <1>4 DEF Inv, ReusedOver, PendingOf, Waits, Pending, Recorded, ExitsOwn
  <2>4. QED
    BY <1>2, <1>3, <1>4, <2>2, <2>3, ProcStep
<1>5. CASE /\ v \in Readable /\ alive(dir[v].rec)
           /\ call' = [call EXCEPT !.pc = "grace", !.pid = dir[v].rec.pid, !.at = v]
           /\ proc' = [proc EXCEPT ![dir[v].rec.pid].asked = TRUE]
           /\ Strikes(dir[v].rec.pid, "mistaken")
  <2> DEFINE p == dir[v].rec.pid
  <2>1. p \in Proc /\ proc[p].reused = "no"
    BY <1>2, <1>5 DEF Readable, Inv, RecordsName, Recorded, ReusedOver, alive
  <2>2. struck' = struck
    BY <1>5, <2>1 DEF Strikes
  <2>3. /\ call' \in Call /\ call'.pc = "grace" /\ call'.then = call.then
        /\ call'.version = call.version /\ call'.todo = call.todo
    BY <1>2, <1>5, <2>1 DEF Call
  <2>4. /\ proc' \in [Proc -> Process]
        /\ \A q \in Proc : /\ proc'[q].version = proc[q].version /\ proc'[q].left = proc[q].left
                           /\ proc'[q].unrecorded = proc[q].unrecorded
                           /\ proc'[q].life = proc[q].life /\ proc'[q].code = proc[q].code
                           /\ proc'[q].reused = proc[q].reused
    <3> DEFINE x == [proc[p] EXCEPT !.asked = TRUE]
    <3>1. proc[p] \in Process
      BY <1>2, <2>1
    <3>2. /\ x \in Process /\ x.version = proc[p].version /\ x.left = proc[p].left
          /\ x.unrecorded = proc[p].unrecorded /\ x.life = proc[p].life /\ x.code = proc[p].code
          /\ x.reused = proc[p].reused
      BY <3>1 DEF Process
    <3>3. proc' = [proc EXCEPT ![p] = x]
      BY <1>5
    <3> HIDE DEF x, p
    <3>4. QED
      BY <1>2, <2>1, <3>2, <3>3
  <2>5. Recorded' = Recorded /\ \A q : ~Pending(q) /\ ~Pending(q)'
    BY <1>2, <2>3, <2>4 DEF Recorded, Pending
  <2>6. Found'
    BY <1>2, <2>3, <2>4, <2>5 DEF Inv, Found, Live, Observed, Named
  <2>7. ReusedOver' /\ PendingOf' /\ Waits'
    BY <1>2, <2>3, <2>4, <2>5 DEF Inv, ReusedOver, PendingOf, Waits
  <2>8. ExitsOwn'
    <3>1. \A u \in Version : dir[u].rec # NoRecord => dir[u].rec.pid \in Proc
      BY DEF Inv, RecordsName, Recorded
    <3>2. QED
      BY <1>2, <2>4, <3>1 DEF Inv, ExitsOwn
  <2> HIDE DEF p
  <2>9. QED
    BY <1>2, <2>2, <2>3, <2>4, <2>6, <2>7, <2>8, ProcStep
<1>6. CASE /\ call' = [call EXCEPT !.todo = @ \ {v}] /\ Ends(v, TRUE)
           /\ Strikes(dir[v].rec.pid, "session")
  <2>1. struck' \subseteq {"session", "grace"}
    BY <1>2, <1>6 DEF Strikes
  <2>2. QED
    BY <1>2, <1>3, <1>6, <2>1, EndsInv
<1>7. CASE Leaves(v) /\ call' = [call EXCEPT !.todo = @ \ {v}] /\ Ends(v, FALSE) /\ struck' = struck
  <2>1. \A q \in Proc : Named(v, q) => proc[q].life # "alive" /\ ~proc[q].left
    BY <1>7 DEF Leaves, alive, inSession, Named
  <2>2. QED
    BY <1>2, <1>3, <1>7, <2>1, EndsInv
<1>8. QED
  BY <1>1, <1>4, <1>5, <1>6, <1>7

LEMMA KillInv ==
  ASSUME Inv, Counters', Kill
  PROVE  Inv'
<1>1. /\ call.pc = "grace" /\ Ends(call.at, TRUE) /\ Strikes(call.pid, "grace")
      /\ call' = [call EXCEPT !.pc = "halt", !.todo = @ \ {call.at}, !.pid = 0, !.at = 0]
      /\ UNCHANGED <<row, dir, tree, up, sup, waits, lapsed>>
  BY DEF Kill
<1>2. call \in Call /\ struck' \subseteq {"session", "grace"}
  BY <1>1 DEF Inv, TypeOK, OnlyItsOwn, Strikes
<1>3. /\ call' \in Call /\ call'.pc = "halt" /\ call'.pid = 0 /\ call'.then = call.then
      /\ call'.version = call.version /\ call'.todo = call.todo \ {call.at}
  BY <1>1, <1>2 DEF Call
<1>4. QED
  BY <1>1, <1>2, <1>3, EndsInv

\* A call that ends before it has changed anything on disk.
LEMMA CallEnds ==
  ASSUME Inv, Counters', call.pc \in {"halt", "grace"}, call' = Idle,
         UNCHANGED <<row, dir, tree, proc, up, waits, struck>>,
         sup' \in {sup, 0}, sup' # sup => lapsed', lapsed' \in {lapsed, TRUE}
  PROVE  Inv'
<1>1. Idle \in Call /\ Idle.pc = "idle" /\ Idle.pid = 0 /\ Idle.then = "none"
  BY IdleType
<1>2. Recorded' = Recorded /\ \A q \in Recorded : q \in Proc
  BY DEF Recorded
<1>3. TypeOK'
  <2>1. lapsed' \in BOOLEAN
    BY DEF Inv, TypeOK
  <2>2. QED
    BY <1>1, <2>1 DEF Inv, TypeOK
<1>4. Found' /\ Alone' /\ ReusedOver' /\ PendingOf' /\ Prepares'
  BY <1>1, <1>2 DEF Inv, Found, Live, Pending, Observed, Named, Alone, ReusedOver, PendingOf, Prepares
<1>5. RecordsName' /\ Waits' /\ ExitsOwn'
  <2>1. RecordsName'
    BY <1>1, <1>2 DEF Inv, RecordsName, Pending
  <2>2. Waits'
    BY <1>1, <1>2 DEF Inv, Waits, Pending
  <2>3. \A v \in Version : dir[v].rec # NoRecord => dir[v].rec.pid \in Proc
    BY DEF Inv, RecordsName, Recorded
  <2>4. ~lapsed' => ~lapsed
    BY DEF Inv, TypeOK
  <2>5. ExitsOwn'
    BY <2>3, <2>4 DEF Inv, ExitsOwn
  <2>6. QED
    BY <2>1, <2>2, <2>5
<1>6. Supervised' /\ WritesAwaited'
  <2>1. sup # 0 => sup \in Proc
    BY DEF Inv, TypeOK
  <2>2. QED
    BY <1>1, <2>1 DEF Inv, Supervised, Observed, Named, WritesAwaited
<1>7. OutputsOf' /\ OneWrote'
  <2>1. \A v \in Version : tree[v].output \cup tree[v].previous \subseteq Proc
    BY DEF Inv, TypeOK, OutputDir
  <2>2. QED
    BY <1>1, <1>2, <2>1 DEF Inv, OutputsOf, Pending, Observed, Named, OneWrote
<1>8. Removes'
  BY <1>1 DEF Inv, Removes, Removing
<1>9. QED
  BY <1>3, <1>4, <1>5, <1>6, <1>7, <1>8 DEF Inv, OnlyItsOwn

LEMMA HaltExpiresInv ==
  ASSUME Inv, Counters', HaltExpires
  PROVE  Inv'
<1>1. /\ call.pc = "grace" /\ call' = Idle
      /\ UNCHANGED <<row, dir, tree, proc, up, sup, waits, struck, lapsed>>
  BY DEF HaltExpires, history
<1>2. QED
  BY <1>1, CallEnds

LEMMA HaltWaitsInv ==
  ASSUME Inv, Counters', HaltWaits
  PROVE  Inv'
<1>1. /\ call.pc = "halt" /\ call.todo = {} /\ sup' = 0
      /\ UNCHANGED <<row, dir, tree, proc, up, waits, struck>>
  BY DEF HaltWaits
<1>2. CASE call' = Idle /\ lapsed' = TRUE
  BY <1>1, <1>2, CallEnds
<1>3. CASE /\ sup = 0 /\ lapsed' = lapsed
           /\ call' = [call EXCEPT !.pc = IF call.then \in {"discard", "forgetRow"} THEN "clear"
                                          ELSE "prune"]
  <2>1. call \in Call
    BY DEF Inv, TypeOK
  <2>2. /\ call' \in Call /\ call'.then = call.then /\ call'.pid = call.pid
        /\ call'.version = call.version
        /\ call'.pc = (IF Removing THEN "clear" ELSE "prune")
    BY <1>3, <2>1 DEF Call, Removing
  <2>3. Recorded' = Recorded /\ \A p \in Proc : ~Live(p)'
    BY <1>1 DEF Inv, Found, Pending, Live, Recorded
  <2>4. TypeOK'
    BY <1>1, <1>3, <2>2 DEF Inv, TypeOK
  <2>5. Found' /\ Alone' /\ ReusedOver' /\ PendingOf' /\ Prepares' /\ RecordsName'
    BY <1>1, <2>2, <2>3 DEF Inv, Found, Alone, ReusedOver, PendingOf, Prepares, RecordsName, Pending
  <2>6. Supervised' /\ WritesAwaited' /\ Waits' /\ ExitsOwn' /\ OneWrote'
    BY <1>1, <1>3, <2>2, <2>3 DEF Inv, Supervised, WritesAwaited, Waits, Pending, ExitsOwn, OneWrote
  <2>7. OutputsOf'
    BY <1>1, <2>2, <2>3 DEF Inv, OutputsOf, Pending, Observed, Named, Removing
  <2>8. Removes'
    BY <1>1, <2>2, IdleType DEF Inv, Removes, Removing
  <2>9. QED
    BY <1>1, <2>4, <2>5, <2>6, <2>7, <2>8 DEF Inv, OnlyItsOwn
<1>4. QED
  BY <1>2, <1>3 DEF HaltWaits, Awaited

-----------------------------------------------------------------------------
\* A step after a halt that clears away or sets aside: records and outputs go, none are made.
LEMMA TidyStep ==
  ASSUME Inv, Counters', call.pc \notin {"idle", "halt", "grace", "record"},
         UNCHANGED <<proc, up, sup, waits, struck, lapsed>>,
         row' \in [is : {"stored", "suspended", "deleted", "gone"}, version : Version],
         call' \in Call, call'.pc # "record", dir' \in [Version -> StateDir],
         tree' \in [Version -> OutputDir],
         \A v \in Version : /\ dir'[v].rec \in {dir[v].rec, NoRecord}
                            /\ tree'[v].output \in {tree[v].output, {}}
                            /\ tree'[v].previous \in {tree[v].previous, tree[v].output, {}},
         Prepares', OutputsOf', Removes'
  PROVE  Inv'
<1>1. sup = 0 /\ Recorded' = Recorded /\ \A p \in Proc : ~Live(p)'
  BY Quiet DEF Live, Recorded
<1>2. TypeOK'
  BY DEF Inv, TypeOK
<1>3. Found' /\ Alone' /\ ReusedOver' /\ PendingOf' /\ Supervised' /\ WritesAwaited' /\ Waits'
  BY <1>1 DEF Inv, Found, Alone, ReusedOver, PendingOf, Supervised, WritesAwaited, Waits, Pending
<1>4. RecordsName' /\ ExitsOwn'
  BY <1>1 DEF Inv, RecordsName, Pending, ExitsOwn
<1>5. OneWrote'
  BY <1>1 DEF Inv, OneWrote
<1>6. QED
  BY <1>2, <1>3, <1>4, <1>5 DEF Inv, OnlyItsOwn

\* What every such step starts from.
LEMMA TidyFrom ==
  ASSUME Inv, NEW pc \in {"prune", "pruned", "keep", "retain", "clear", "cleared"}, call.pc = pc
  PROVE  /\ call \in Call /\ call.pid = 0 /\ row.is # "gone" /\ up
         /\ row \in [is : {"stored", "suspended", "deleted", "gone"}, version : Version]
         /\ dir \in [Version -> StateDir] /\ tree \in [Version -> OutputDir]
         /\ \A v \in Version : \A q \in tree[v].output \cap Recorded :
              \/ Observed(v, q) /\ call.pc \in {"prune", "pruned", "keep", "clear"}
                   /\ (call.pc = "pruned" => v = newest)
              \/ row.is = "deleted" /\ call.pc \in {"clear", "cleared"} /\ Removing
<1>1. row.is # "gone"
  BY IdleType DEF Inv, Removes
<1>2. QED
  BY <1>1 DEF Inv, TypeOK, Prepares, Removes, OutputsOf, Pending

LEMMA NoDirType ==
  /\ NoDir \in StateDir /\ NoDir.rec = NoRecord /\ NoDir.made = FALSE
  /\ NoTree \in OutputDir /\ NoTree.output = {} /\ NoTree.previous = {}
BY DEF NoDir, StateDir, NoTree, OutputDir

\* The call goes on to its next step.
LEMMA CallGoes ==
  ASSUME NEW pc \in {"pruned", "keep", "retain", "cleared"}, call \in Call,
         call' = [call EXCEPT !.pc = pc]
  PROVE  call' \in Call /\ call'.pc = pc /\ call'.then = call.then /\ call'.pid = call.pid
BY DEF Call

LEMMA PruneInv ==
  ASSUME Inv, Counters', Prune
  PROVE  Inv'
<1>1. /\ call.pc = "prune" /\ call' = [call EXCEPT !.pc = "pruned"]
      /\ UNCHANGED <<row, dir, proc, up, sup, waits, struck, lapsed>>
      /\ tree' = [v \in Version |-> IF v \in Readable \ {newest} THEN NoTree ELSE tree[v]]
  BY DEF Prune, history
<1>2. /\ call \in Call /\ call.pid = 0 /\ row.is # "gone" /\ up
      /\ row \in [is : {"stored", "suspended", "deleted", "gone"}, version : Version]
      /\ dir \in [Version -> StateDir] /\ tree \in [Version -> OutputDir]
      /\ \A v \in Version : \A q \in tree[v].output \cap Recorded : Observed(v, q)
  BY <1>1, TidyFrom
<1>3. call' \in Call /\ call'.pc = "pruned" /\ call'.then = call.then /\ call'.pid = call.pid
  BY <1>1, <1>2, CallGoes
<1>4. /\ tree' \in [Version -> OutputDir]
      /\ \A v \in Version : /\ tree'[v].output \in {tree[v].output, {}}
                            /\ tree'[v].previous \in {tree[v].previous, tree[v].output, {}}
                            /\ v \in Readable /\ v # newest => tree'[v].output = {}
  BY <1>1, <1>2, NoDirType
<1>5. Prepares' /\ Removes'
  BY <1>1, <1>2, <1>3 DEF Inv, Prepares, Removes, Removing
<1>6. OutputsOf'
  <2>1. newest' = newest /\ Recorded' = Recorded
    BY <1>1 DEF newest, Readable, Recorded
  <2>2. \A v \in Version, q \in Proc : /\ Observed(v, q)' <=> Observed(v, q)
                                       /\ Observed(v, q) => v \in Readable
    BY <1>1 DEF Observed, Named, Readable
  <2>3. \A v \in Version : tree[v].output \subseteq Proc
    BY <1>2 DEF OutputDir
  <2>4. QED
    BY <1>2, <1>3, <1>4, <2>1, <2>2, <2>3 DEF OutputsOf
<1>7. QED
  BY <1>1, <1>2, <1>3, <1>4, <1>5, <1>6, TidyStep

LEMMA PrunedInv ==
  ASSUME Inv, Counters', Pruned
  PROVE  Inv'
<1>1. /\ call.pc = "pruned" /\ call' = [call EXCEPT !.pc = "keep"]
      /\ UNCHANGED <<row, tree, proc, up, sup, waits, struck, lapsed>>
      /\ dir' = [v \in Version |-> IF v # newest THEN NoDir ELSE dir[v]]
  BY DEF Pruned, history
<1>2. /\ call \in Call /\ call.pid = 0 /\ row.is # "gone" /\ up
      /\ row \in [is : {"stored", "suspended", "deleted", "gone"}, version : Version]
      /\ dir \in [Version -> StateDir] /\ tree \in [Version -> OutputDir]
      /\ \A v \in Version : \A q \in tree[v].output \cap Recorded : Observed(v, q) /\ v = newest
  BY <1>1, TidyFrom
<1>3. call' \in Call /\ call'.pc = "keep" /\ call'.then = call.then /\ call'.pid = call.pid
  BY <1>1, <1>2, CallGoes
<1>4. /\ dir' \in [Version -> StateDir]
      /\ \A v \in Version : v # newest => dir'[v] = NoDir
      /\ \A v \in Version : v = newest => dir'[v] = dir[v]
  BY <1>1, <1>2, NoDirType
<1>5. Prepares' /\ Removes'
  <2>1. \A u, v \in Readable' : u = v
    BY <1>4, NoDirType DEF Readable
  <2>2. QED
    BY <1>1, <1>2, <1>3, <2>1 DEF Inv, Prepares, Removes, Removing
<1>6. OutputsOf'
  <2>1. Recorded' = Recorded
    BY <1>1 DEF Recorded
  <2>2. QED
    BY <1>1, <1>2, <1>3, <1>4, <2>1 DEF OutputsOf, Observed, Named
<1>7. \A v \in Version : dir'[v].rec \in {dir[v].rec, NoRecord}
  BY <1>4, NoDirType
<1>8. QED
  BY <1>1, <1>2, <1>3, <1>4, <1>5, <1>6, <1>7, TidyStep

\* The output set aside is that of the one version still on record.
LEMMA KeepInv ==
  ASSUME Inv, Counters', Keep
  PROVE  Inv'
<1>1. /\ call.pc = "keep" /\ call' = [call EXCEPT !.pc = "retain"]
      /\ UNCHANGED <<row, dir, proc, up, sup, waits, struck, lapsed>>
      /\ tree' = IF newest = 0 THEN tree ELSE Kept(newest)
  BY DEF Keep, history
<1>2. /\ call \in Call /\ call.pid = 0 /\ row.is # "gone" /\ up
      /\ row \in [is : {"stored", "suspended", "deleted", "gone"}, version : Version]
      /\ dir \in [Version -> StateDir] /\ tree \in [Version -> OutputDir]
      /\ \A v \in Version : \A q \in tree[v].output \cap Recorded : Observed(v, q)
  BY <1>1, TidyFrom
<1>3. call' \in Call /\ call'.pc = "retain" /\ call'.then = call.then /\ call'.pid = call.pid
  BY <1>1, <1>2, CallGoes
<1>4. /\ tree' \in [Version -> OutputDir]
      /\ \A v \in Version : /\ tree'[v].output \in {tree[v].output, {}}
                            /\ tree'[v].previous \in {tree[v].previous, tree[v].output, {}}
                            /\ v = newest => tree'[v].output = {}
  <2>1. CASE newest \in Version
    <3> DEFINE n == newest
               pr == IF tree[n].output # {} THEN tree[n].output ELSE tree[n].previous
               t == [tree[n] EXCEPT !.output = {}, !.previous = pr]
    <3>1. n # 0 /\ tree[n] \in OutputDir
      BY <1>2, <2>1 DEF Version
    <3>2. pr \in {tree[n].previous, tree[n].output}
      OBVIOUS
    <3>3. pr \subseteq Proc
      BY <3>1, <3>2 DEF OutputDir
    <3>4. tree' = [tree EXCEPT ![n] = t]
      BY <1>1, <3>1 DEF Kept
    <3> HIDE DEF pr, n
    <3>5. t \in OutputDir /\ t.output = {} /\ t.previous = pr
      BY <3>1, <3>3 DEF OutputDir
    <3> HIDE DEF t
    <3>6. QED
      BY <1>2, <2>1, <3>2, <3>4, <3>5 DEF n
  <2>2. CASE newest \notin Version
    <3>1. tree' = tree
      BY <1>1, <1>2, <2>2 DEF Kept
    <3>2. QED
      BY <1>2, <2>2, <3>1
  <2>3. QED
    BY <2>1, <2>2
<1>5. Prepares' /\ Removes'
  BY <1>1, <1>2, <1>3 DEF Inv, Prepares, Removes, Removing
<1>6. OutputsOf'
  <2>1. \A v \in Readable : newest = v
    <3>1. ASSUME NEW v \in Readable PROVE newest = v
      <4>1. Readable = {v}
        BY <1>1 DEF Inv, Removes
      <4>2. v \in Int
        BY DEF Readable, Version
      <4>3. Max({v}) = v
        BY <4>2 DEF Max
      <4>4. QED
        BY <4>1, <4>3 DEF newest
    <3>2. QED
      BY <3>1
  <2>2. \A v \in Version, q \in Proc : Observed(v, q) => v \in Readable
    BY DEF Observed, Named, Readable
  <2>3. \A v \in Version : tree[v].output \subseteq Proc
    BY <1>2 DEF OutputDir
  <2>4. Recorded' = Recorded
    BY <1>1 DEF Recorded
  <2>5. \A v \in Version : tree'[v].output \cap Recorded' = {}
    BY <1>2, <1>4, <2>1, <2>2, <2>3, <2>4
  <2>6. QED
    BY <2>5 DEF OutputsOf
<1>7. QED
  BY <1>1, <1>2, <1>3, <1>4, <1>5, <1>6, TidyStep

LEMMA RetainInv ==
  ASSUME Inv, Counters', Retain
  PROVE  Inv'
<1>1. /\ call.pc = "retain" /\ dir' = Marked
      /\ UNCHANGED <<row, tree, proc, up, sup, waits, struck, lapsed>>
      /\ call' = IF call.then = "start" THEN [Idle EXCEPT !.pc = "prepare", !.version = call.version]
                                        ELSE Idle
  BY DEF Retain, history
<1>2. /\ call \in Call /\ call.pid = 0 /\ row.is # "gone" /\ up
      /\ row \in [is : {"stored", "suspended", "deleted", "gone"}, version : Version]
      /\ dir \in [Version -> StateDir] /\ tree \in [Version -> OutputDir]
      /\ \A v \in Version : \A q \in tree[v].output : q \notin Recorded
  BY <1>1, TidyFrom
<1>3. /\ call' \in Call /\ call'.pc \in {"prepare", "idle"} /\ call'.then = "none" /\ call'.pid = 0
      /\ call'.pc = "prepare" => call'.version \in Version
  <2>1. call.version \in Version
    BY <1>1 DEF Inv, Prepares
  <2>2. CASE call.then = "start"
    <3>1. call' = [Idle EXCEPT !.pc = "prepare", !.version = call.version]
      BY <1>1, <2>2
    <3>2. QED
      BY <2>1, <3>1 DEF Idle, Call
  <2>3. CASE call.then # "start"
    BY <1>1, <2>3, IdleType
  <2>4. QED
    BY <2>2, <2>3
<1>4. dir' \in [Version -> StateDir] /\ \A v \in Version : dir'[v].rec = dir[v].rec
  <2>1. CASE newest \in Version
    <3> DEFINE d == [dir[newest] EXCEPT !.retained = TRUE]
    <3>1. newest # 0 /\ dir[newest] \in StateDir
      BY <1>2, <2>1 DEF Version
    <3>2. d \in StateDir /\ d.rec = dir[newest].rec
      BY <3>1 DEF StateDir
    <3>3. dir' = [dir EXCEPT ![newest] = d]
      BY <1>1, <3>1 DEF Marked
    <3> HIDE DEF d
    <3>4. QED
      BY <1>2, <2>1, <3>2, <3>3
  <2>2. CASE newest \notin Version
    <3>1. dir' = dir
      BY <1>1, <1>2, <2>2 DEF Marked
    <3>2. QED
      BY <1>2, <3>1
  <2>3. QED
    BY <2>1, <2>2
<1>5. Prepares' /\ Removes'
  BY <1>1, <1>2, <1>3 DEF Inv, Prepares, Removes, Removing
<1>6. OutputsOf'
  <2>1. Recorded' = Recorded
    BY <1>1 DEF Recorded
  <2>2. QED
    BY <1>1, <1>2, <2>1 DEF OutputsOf
<1>7. QED
  BY <1>1, <1>2, <1>3, <1>4, <1>5, <1>6, TidyStep

LEMMA ClearInv ==
  ASSUME Inv, Counters', Clear
  PROVE  Inv'
<1>1. /\ call.pc = "clear" /\ call' = [call EXCEPT !.pc = "cleared"]
      /\ UNCHANGED <<row, tree, proc, up, sup, waits, struck, lapsed>>
      /\ dir' = [v \in Version |-> NoDir]
  BY DEF Clear, history
<1>2. /\ call \in Call /\ call.pid = 0 /\ row.is # "gone" /\ up
      /\ row \in [is : {"stored", "suspended", "deleted", "gone"}, version : Version]
      /\ tree \in [Version -> OutputDir]
  BY <1>1, TidyFrom
<1>3. call' \in Call /\ call'.pc = "cleared" /\ call'.then = call.then /\ call'.pid = call.pid
  BY <1>1, <1>2, CallGoes
<1>4. Removing /\ row.is = "deleted"
  BY <1>1 DEF Inv, Removes
<1>5. /\ dir' \in [Version -> StateDir] /\ (\A v \in Version : dir'[v] = NoDir)
      /\ \A v \in Version : dir'[v].rec = NoRecord
  BY <1>1, NoDirType
<1>6. Prepares' /\ Removes' /\ OutputsOf'
  BY <1>1, <1>2, <1>3, <1>4, <1>5 DEF Inv, Prepares, Removes, Removing, OutputsOf
<1>7. QED
  BY <1>1, <1>2, <1>3, <1>5, <1>6, TidyStep

LEMMA ClearedInv ==
  ASSUME Inv, Counters', Cleared
  PROVE  Inv'
<1>1. /\ call.pc = "cleared" /\ call' = Idle
      /\ UNCHANGED <<dir, proc, up, sup, waits, struck, lapsed>>
      /\ tree' = [v \in Version |-> NoTree]
      /\ row' = IF call.then = "forgetRow" THEN [row EXCEPT !.is = "gone"] ELSE row
  BY DEF Cleared, history
<1>2. /\ call \in Call /\ row.is # "gone" /\ up
      /\ row \in [is : {"stored", "suspended", "deleted", "gone"}, version : Version]
      /\ dir \in [Version -> StateDir]
  BY <1>1, TidyFrom
<1>3. Idle \in Call /\ Idle.pc = "idle" /\ Idle.pid = 0 /\ Idle.then = "none"
  BY IdleType
<1>4. row' \in [is : {"stored", "suspended", "deleted", "gone"}, version : Version]
  BY <1>1, <1>2
<1>5. \A v \in Version : dir[v] = NoDir
  BY <1>1 DEF Inv, Removes
<1>6. /\ tree' \in [Version -> OutputDir] /\ \A v \in Version : tree'[v] = NoTree
      /\ \A v \in Version : tree'[v].output = {} /\ tree'[v].previous = {}
  BY <1>1, NoDirType
<1>7. Prepares' /\ Removes' /\ OutputsOf'
  BY <1>1, <1>2, <1>3, <1>5, <1>6 DEF Inv, Prepares, Removes, Removing, OutputsOf
<1>8. QED
  BY <1>1, <1>2, <1>3, <1>4, <1>6, <1>7, TidyStep

-----------------------------------------------------------------------------
LEMMA NextInv == Inv /\ [Next]_vars => Inv'
<1> SUFFICES ASSUME Inv, [Next]_vars PROVE Inv'
  OBVIOUS
<1>1. Counters'
  BY CountersStep
<1>2. CASE Server
  BY <1>1, <1>2, BeginInv, PrepareInv, ForkInv, RecordInv, HaltInv, KillInv, HaltWaitsInv, PruneInv,
     PrunedInv, KeepInv, RetainInv, ClearInv, ClearedInv DEF Server, Start, Stop
<1>3. CASE Supervise
  BY <1>1, <1>3, CollectInv, RecordExitInv, ForgetInv DEF Supervise
<1>4. CASE HaltExpires \/ Apply \/ SuspendOrResume \/ Delete \/ Exits \/ Reuses \/ Dies \/ Boots
  BY <1>1, <1>4, HaltExpiresInv, RowInv, ExitsInv, ReusesInv, DiesInv, BootsInv
<1>5. CASE UNCHANGED vars
  <2>1. UNCHANGED <<row, dir, tree, proc, up, sup, waits, call, struck, lapsed>>
    BY <1>5 DEF vars, history
  <2>2. TypeOK'
    BY <1>1, <2>1 DEF Inv, TypeOK
  <2>3. Found' /\ Alone' /\ ReusedOver' /\ RecordsName' /\ PendingOf' /\ Prepares'
    BY <2>1 DEF Inv, Found, Live, Recorded, Pending, Observed, Named, Alone, ReusedOver, RecordsName,
       PendingOf, Prepares
  <2>4. Supervised' /\ WritesAwaited' /\ Waits' /\ ExitsOwn' /\ OneWrote'
    BY <2>1 DEF Inv, Supervised, Observed, Named, WritesAwaited, Waits, Pending, Recorded, ExitsOwn,
       OneWrote
  <2>5. OutputsOf'
    <3>1. Recorded' = Recorded /\ newest' = newest /\ (Removing' <=> Removing)
      BY <2>1 DEF Recorded, newest, Readable, Removing
    <3>2. \A q : Pending(q)' <=> Pending(q)
      BY <2>1 DEF Pending
    <3>3. \A v, q : Observed(v, q)' <=> Observed(v, q)
      BY <2>1 DEF Observed, Named
    <3>4. OutputsOf
      BY DEF Inv
    <3>5. QED
      BY <2>1, <3>1, <3>2, <3>3, <3>4 DEF OutputsOf
  <2>6. Removes'
    BY <2>1 DEF Inv, Removes, Removing, Readable
  <2>7. QED
    BY <2>1, <2>2, <2>3, <2>4, <2>5, <2>6 DEF Inv, OnlyItsOwn
<1>6. QED
  BY <1>2, <1>3, <1>4, <1>5 DEF Next

LEMMA InvHolds == Spec => []Inv
BY InitInv, NextInv, PTL DEF Spec

\* The types of the state, the fields of every record, call and process among them.
THEOREM ExecDriverTypeCorrect == Spec => []TypeOK
<1>1. Inv => TypeOK
  BY DEF Inv
<1>2. QED
  BY <1>1, InvHolds, PTL

\* A set any two members of which are the same has one at most.
LEMMA AtMostOne ==
  ASSUME NEW S, \A p, q \in S : p = q
  PROVE  Cardinality(S) <= 1
<1>1. CASE S = {}
  BY <1>1, FS_EmptySet
<1>2. CASE S # {}
  <2>1. PICK x : S = {x}
    BY <1>2
  <2>2. QED
    BY <2>1, FS_Singleton
<1>3. QED
  BY <1>1, <1>2

\* At most one process on record runs, through deaths of the server, restarts at one version
\* and calls that run out of time, and nothing is left of a workload whose row is gone.
THEOREM ProcessesAccountedHolds == Spec => []ProcessesAccounted
<1>1. Inv => ProcessesAccounted
  <2> SUFFICES ASSUME Inv PROVE ProcessesAccounted
    OBVIOUS
  <2>1. Cardinality({p \in Recorded : proc[p].life = "alive"}) <= 1
    BY AtMostOne DEF Inv, Alone
  <2>2. ASSUME row.is = "gone"
        PROVE  /\ \A p \in Recorded : proc[p].life # "alive" /\ ~proc[p].left
               /\ \A v \in Version : dir[v] = NoDir /\ tree[v] = NoTree
    <3>1. call.pc = "idle" /\ \A v \in Version : dir[v] = NoDir /\ tree[v] = NoTree
      BY <2>2, IdleType DEF Inv, Removes
    <3>2. \A p \in Proc : ~Live(p)
      BY <3>1, NoDirType DEF Inv, Found, Pending, Observed, Named
    <3>3. QED
      BY <3>1, <3>2 DEF Live, Recorded
  <2>3. QED
    BY <2>1, <2>2 DEF ProcessesAccounted
<1>2. QED
  BY <1>1, InvHolds, PTL

\* The exit in a record is its own process's, unless a wait for the goroutine that writes it
\* ran out of time.
THEOREM ExitIsItsOwnHolds == Spec => []ExitIsItsOwn
<1>1. Inv => ExitIsItsOwn
  BY DEF Inv, ExitsOwn, ExitIsItsOwn, Readable
<1>2. QED
  BY <1>1, InvHolds, PTL

\* A mark is never on the record of a process that runs.
THEOREM RetainedIsOverHolds == Spec => []RetainedIsOver
<1>1. Inv => RetainedIsOver
  <2> SUFFICES ASSUME Inv, NEW v \in Readable, dir[v].retained
               PROVE  proc[dir[v].rec.pid].life # "alive"
    BY DEF RetainedIsOver
  <2>1. /\ v \in Version /\ dir[v].rec.pid \in Recorded /\ proc[dir[v].rec.pid].version = v
        /\ ~Pending(dir[v].rec.pid)
    BY DEF Readable, Inv, RecordsName
  <2>2. QED
    BY <2>1 DEF Inv, Found, Live, Observed, Recorded
<1>2. QED
  BY <1>1, InvHolds, PTL

\* A file of output holds what one attempt on record wrote.
THEOREM OutputOfOneHolds == Spec => []OutputOfOne
<1>1. Inv => OutputOfOne
  BY AtMostOne DEF Inv, OneWrote, OutputOfOne
<1>2. QED
  BY <1>1, InvHolds, PTL

\* One that was handed a process's number and leads a group of it is never taken for the
\* process on record: only one that leads a session of that number, or that was handed it
\* while the process before was given its time to stop, is ever signalled.
THEOREM OnlyItsOwnHolds == Spec => []OnlyItsOwn
<1>1. Inv => OnlyItsOwn
  BY DEF Inv, OnlyItsOwn
<1>2. QED
  BY <1>1, InvHolds, PTL
=============================================================================

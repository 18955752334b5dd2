----------------------------- MODULE SlotsProofs -----------------------------
(***************************************************************************)
(* Proofs about Slots: its types, that a roll replaces one slot at a time, *)
(* that reclaiming takes nothing from under an instance, and that a        *)
(* scheduled workload runs for a reason.                                   *)
(*                                                                         *)
(* What the pass decides rests on what it observed, so the invariant ties  *)
(* the observation to what is there: until the pass acts they differ only  *)
(* in what ended, sickened or passed its check since.  The reasons to run  *)
(* are counted in full: a request, an occurrence that is due, and a        *)
(* failure of the run in the first slot each have their own, be it one     *)
(* that the stop of a running instance made.                               *)
(***************************************************************************)
EXTENDS Slots, TLAPS

-----------------------------------------------------------------------------
(* The inductive invariant.                                                *)

\* What a pass in progress works on.
PassOf ==
  pass.pc # "idle" =>
    /\ pass.row \in Row /\ row # NoRow
    /\ pass.index < pass.row.spec.count
    /\ pass.row.deleted => row.deleted
    /\ pass.pc \in {"head", "whole"} => pass.index = 0
    /\ pass.pc \in {"whole", "slot"} => ~pass.row.suspended /\ ~pass.row.deleted
    /\ pass.pc = "slot" => ~pass.row.spec.schedule

\* An instance, and the same one as it was observed.
Same(i, j) ==
  /\ i = NoRow <=> j = NoRow
  /\ i # NoRow =>
       /\ i.version = j.version /\ i.hash = j.hash /\ i.passed = j.passed /\ i.age = j.age
       /\ i.up => j.up
       /\ i.health = "starting" => j.health = "starting"

Mirror == pass.pc \in {"head", "whole"} => \A s \in Slot : Same(inst[s], pass.seen[s])

\* Nothing is left of a workload that is gone, and only a scheduled one is ever due.
Gone == row = NoRow => ~requested /\ \A s \in Slot : inst[s] = NoRow

Quiet == row # NoRow /\ ~row.spec.schedule => ~due

\* An occurrence that passes during a pass that has nothing to do with it is later than
\* everything the pass has yet to look at.
Overtaken ==
  (/\ pass.pc # "idle" /\ due
   /\ ~pass.row.spec.schedule \/ (pass.row.suspended /\ ~row.suspended))
    => \A s \in Slot : s >= pass.index /\ inst[s] # NoRow => inst[s].passed

\* The row the next run would be made from.
Acting == IF pass.pc = "idle" THEN row ELSE pass.row

\* An occurrence no run was made for, of a workload that is not held down or on its way out.
Unmet ==
  /\ due /\ \A s \in Slot : inst[s] # NoRow => inst[s].passed
  /\ ~(row.suspended /\ Acting.suspended) /\ ~(row.deleted /\ Acting.deleted)

Fails(i) == i # NoRow /\ State(i) = "failed"

FailedRun == Fails(inst[0]) \/ (pass.pc # "idle" /\ Fails(pass.seen[0]))

One(b) == IF b THEN 1 ELSE 0

Reasons == One(requested) + One(Unmet) + One(FailedRun)

Accounted == credit >= 0 /\ (row # NoRow => credit >= Reasons)

\* While a pass may still take a slot down, what it found current has settled, and nothing
\* that is current where it found something has yet to.
FoundSettled ==
  pass.pc = "slot" /\ ~pass.replaced =>
    \A t \in Slot :
      (t < pass.row.spec.count /\ t \notin replacing /\ pass.seen[t] # NoRow
         /\ pass.seen[t].hash = pass.hash) => settled(pass.seen[t])

NoneInFlight ==
  pass.pc = "slot" /\ ~pass.replaced =>
    \A t \in Slot :
      (pass.seen[t] # NoRow /\ t \notin replacing /\ inst[t] # NoRow /\ inst[t].up
         /\ inst[t].hash = pass.hash)
        => inst[t].age >= SettlePeriod /\ inst[t].health # "starting"

Inv ==
  /\ TypeOK /\ PassOf /\ Mirror /\ Gone /\ Quiet /\ Overtaken /\ Accounted
  /\ FoundSettled /\ NoneInFlight
-----------------------------------------------------------------------------
(* What the operators return.                                              *)

LEMMA SlotFacts == Slot \subseteq Nat /\ 0 \in Slot
BY SlotsAssumption DEF Slot

LEMMA SpecFields ==
  ASSUME NEW r \in Row
  PROVE  /\ r.spec \in Specs /\ r.spec.count \in 1..MaxCount /\ r.spec.schedule \in BOOLEAN
         /\ r.spec.runtime \in {"docker", "exec"}
         /\ r.spec.ref \in BOOLEAN /\ r.spec.check \in BOOLEAN /\ r.spec.base \in Nat
         /\ r.spec.attempts \in 0..MaxAttempts /\ r.version \in Nat \ {0} /\ r.image \in Nat
         /\ r.suspended \in BOOLEAN /\ r.deleted \in BOOLEAN /\ r # NoRow
         /\ r.spec.schedule => r.spec.count = 1
BY SlotsAssumption DEF Row, Specification

LEMMA InstanceFields ==
  ASSUME NEW i \in Instance
  PROVE  /\ i.version \in Nat \ {0} /\ i.hash \in (Nat \ {0}) \X (0..2) /\ i.port \in Nat
         /\ i.up \in BOOLEAN /\ i.code \in 0..1 /\ i.age \in 0..SettlePeriod
         /\ i.health \in {"starting", "healthy", "unhealthy", "none"}
         /\ i.passed \in BOOLEAN /\ i.asked \in BOOLEAN /\ i.cut \in BOOLEAN /\ i # NoRow
         /\ i.hash # NoHash
<1>1. i.hash \in (Nat \ {0}) \X (0..2)
  BY DEF Instance
<1>2. i.hash # NoHash
  BY <1>1 DEF NoHash
<1>3. QED
  BY <1>2, SlotsAssumption DEF Instance

LEMMA PassFields ==
  ASSUME NEW p \in Progress
  PROVE  /\ p.pc \in {"idle", "head", "whole", "slot"} /\ p.row \in Row \cup {NoRow}
         /\ p.port \in [Slot -> Nat] /\ p.seen \in [Slot -> Instance \cup {NoRow}]
         /\ p.kept \in SUBSET Slot /\ p.index \in Slot /\ p.replaced \in BOOLEAN
         /\ p.hash \in Nat \X (0..2)
BY DEF Progress

LEMMA NoPassType ==
  /\ NoPass \in Progress /\ NoPass.pc = "idle" /\ NoPass.index = 0 /\ ~NoPass.replaced
  /\ NoPass.row = NoRow
BY SlotFacts DEF NoPass, Progress, NoHash

LEMMA NoBackoffType == NoBackoff \in Waiting
BY SlotsAssumption, BackoffAssumption DEF NoBackoff, Waiting

\* A wait is never longer than the ceiling, and never nothing, whatever the shift loses.
LEMMA DelayType ==
  ASSUME NEW attempts \in Nat, NEW base \in Nat
  PROVE  delay(attempts, base) \in 1..MaxBackoff
<1>1. Doublings(attempts) \in 0..Shifts
  BY BackoffAssumption DEF Doublings, Lesser
<1>2. MaxBackoff \in Nat \ {0} /\ BaseBackoff \in Nat
  BY BackoffAssumption
<1> DEFINE from == IF base <= 0 THEN BaseBackoff ELSE base
<1>3. from \in Nat /\ 2^Doublings(attempts) \in Nat
  BY <1>1, <1>2, BackoffAssumption
<1>4. from * 2^Doublings(attempts) \in Int
  <2> HIDE DEF from
  <2>1. ASSUME NEW x \in Nat, NEW y \in Nat PROVE x * y \in Int
    OBVIOUS
  <2>2. QED
    BY <1>3, <2>1
<1>5. ASSUME NEW x \in Int PROVE Wrapped(x) \in Int
  <2>1. 2^(Width - 1) \in Int /\ 2^Width \in Nat \ {0}
    BY BackoffAssumption
  <2>2. ASSUME NEW h \in Int, NEW m \in Nat \ {0} PROVE ((x + h) % m) - h \in Int
    OBVIOUS
  <2>3. QED
    BY <2>1, <2>2 DEF Wrapped
<1>6. Wrapped(from * 2^Doublings(attempts)) \in Int
  <2> HIDE DEF from
  <2>1. QED
    BY <1>4, <1>5
<1>7. \A d \in Int : (IF d > MaxBackoff \/ d <= 0 THEN MaxBackoff ELSE d) \in 1..MaxBackoff
  BY <1>2
<1>8. QED
  <2>1. delay(attempts, base) =
          LET d == Wrapped(from * 2^Doublings(attempts))
          IN IF d > MaxBackoff \/ d <= 0 THEN MaxBackoff ELSE d
    BY DEF delay
  <2> HIDE DEF from
  <2>2. QED
    BY <1>6, <1>7, <2>1

LEMMA HashType ==
  ASSUME TypeOK, NEW r \in Row
  PROVE  slotHash(r) \in (Nat \ {0}) \X (0..2)
<1>1. target.addr \in 0..2
  BY DEF TypeOK
<1>2. QED
  BY <1>1, SpecFields DEF slotHash

LEMMA FreshType ==
  ASSUME TypeOK, NEW r \in Row, NEW s \in Slot
  PROVE  /\ Fresh(r, s) \in Instance /\ Fresh(r, s) # NoRow
         /\ Fresh(r, s).version = r.version /\ Fresh(r, s).hash = slotHash(r)
         /\ Fresh(r, s).up /\ Fresh(r, s).age = 0 /\ ~Fresh(r, s).passed
         /\ Fresh(r, s).health \in {"starting", "none"}
<1>1. pass.port[s] \in Nat
  BY PassFields DEF TypeOK
<1>2. 0 \in 0..SettlePeriod
  BY SlotsAssumption
<1>3. Fresh(r, s) \in Instance
  BY <1>1, <1>2, HashType, SpecFields DEF Fresh, Instance
<1>4. QED
  BY <1>3, InstanceFields, SpecFields DEF Fresh

\* What is up is either found or not as running: what has not settled holds a roll.
LEMMA FreshRuns ==
  ASSUME TypeOK, NEW r \in Row, NEW s \in Slot
  PROVE  ~Fails(Fresh(r, s))
BY FreshType DEF Fails, State

LEMMA UnaskedType ==
  ASSUME NEW i \in Instance \cup {NoRow}
  PROVE  /\ Unasked(i) \in Instance \cup {NoRow} /\ Same(i, Unasked(i)) /\ Same(Unasked(i), i)
         /\ Fails(Unasked(i)) <=> Fails(i)
<1>1. CASE i = NoRow
  BY <1>1 DEF Unasked, Same, Fails
<1>2. CASE i \in Instance
  <2> DEFINE j == [i EXCEPT !.asked = FALSE]
  <2>1. /\ j \in Instance /\ j.version = i.version /\ j.hash = i.hash /\ j.passed = i.passed
        /\ j.age = i.age /\ j.up = i.up /\ j.health = i.health /\ j.code = i.code
    BY <1>2 DEF Instance
  <2>2. i # NoRow /\ j # NoRow /\ Unasked(i) = j
    BY <1>2, <2>1, InstanceFields DEF Unasked
  <2> HIDE DEF j
  <2>3. QED
    BY <2>1, <2>2 DEF Same, Fails, State
<1>3. QED
  BY <1>1, <1>2

\* The pass goes on to a slot of the count, or is over.
LEMMA OnwardType ==
  ASSUME TypeOK, PassOf, pass.pc # "idle"
  PROVE  /\ Onward \in Progress
         /\ \/ Onward = NoPass
            \/ /\ Onward.pc = pass.pc /\ Onward.row = pass.row /\ Onward.seen = pass.seen
               /\ Onward.port = pass.port /\ Onward.kept = pass.kept
               /\ Onward.replaced = pass.replaced /\ Onward.hash = pass.hash
               /\ Onward.index = pass.index + 1 /\ Onward.index < pass.row.spec.count
<1>1. CASE pass.index + 1 < pass.row.spec.count
  <2>1. pass.index + 1 \in Slot
    <3>1. pass.index \in Nat /\ pass.row.spec.count \in 1..MaxCount
      BY SpecFields, SlotFacts, PassFields DEF PassOf, TypeOK
    <3>2. MaxCount \in Nat
      BY SlotsAssumption
    <3>3. QED
      BY <1>1, <3>1, <3>2 DEF Slot
  <2>2. Onward = [pass EXCEPT !.index = pass.index + 1]
    BY <1>1 DEF Onward
  <2>3. QED
    BY <1>1, <2>1, <2>2 DEF TypeOK, Progress
<1>2. CASE ~(pass.index + 1 < pass.row.spec.count)
  BY <1>2, NoPassType DEF Onward
<1>3. QED
  BY <1>1, <1>2

-----------------------------------------------------------------------------
(* What a start leaves.                                                    *)

\* The row a step leaves, but for its version.
RowKept ==
  /\ row' \in Row /\ row'.spec = row.spec /\ row'.suspended = row.suspended
  /\ row'.deleted = row.deleted /\ due' \in BOOLEAN /\ (due' => due)

\* An instance, and the same one once its driver has stopped it, or left it; it may be gone.
Kept(i, j) ==
  /\ i = NoRow <=> j = NoRow
  /\ i # NoRow =>
       /\ j.version = i.version /\ j.hash = i.hash /\ j.passed = i.passed /\ j.age = i.age
       /\ j.health = i.health /\ (j.up => i.up) /\ (~i.up => j = i)

Cut(i, j) == j = NoRow \/ Kept(i, j)

\* What is in a slot once it was started, or the start was put off or failed.  Where the
\* stopped instance is still to be seen, those of the other slots are.
AfterStart(s, down) ==
  /\ RowKept /\ port' \in [Slot -> Nat] /\ kept' \subseteq Slot /\ files' \subseteq Nat
  /\ started' \in [Slot -> Nat] /\ held' \in [Slot -> -1..ReadinessWait]
  /\ faults' \in 0..MaxFaults /\ credit' \in Int
  /\ inst' \in [Slot -> Instance \cup {NoRow}]
  /\ \A x \in Slot \ {s} : x \notin down => inst'[x] = inst[x]
  /\ \/ /\ inst'[s] = NoRow \/ \A x \in Slot : Kept(inst[x], inst'[x])
        /\ credit' = Credited(FALSE)
     \/ /\ inst'[s] = Fresh(pass.row, s) /\ Resolves(pass.row)
        /\ credit' = Credited(TRUE)

\* What a stop leaves to be seen.
LEMMA HaltedType ==
  ASSUME NEW i \in Instance \cup {NoRow}, NEW code \in 0..1
  PROVE  /\ Halted(i, code) \in Instance \cup {NoRow}
         /\ pass.row.spec.runtime = "exec" => Halted(i, code) = NoRow
         /\ pass.row.spec.runtime # "exec" => Kept(i, Halted(i, code))
<1>1. CASE i = NoRow \/ pass.row.spec.runtime = "exec"
  BY <1>1 DEF Halted, Kept
<1>2. CASE i # NoRow /\ pass.row.spec.runtime # "exec" /\ i.up
  <2> DEFINE j == [[[i EXCEPT !.up = FALSE] EXCEPT !.code = code] EXCEPT !.cut = TRUE]
  <2>1. Halted(i, code) = j /\ i \in Instance
    BY <1>2 DEF Halted
  <2>2. /\ j \in Instance /\ j.version = i.version /\ j.hash = i.hash /\ j.passed = i.passed
        /\ j.age = i.age /\ ~j.up /\ j.health = i.health
    BY <2>1 DEF Instance
  <2> HIDE DEF j
  <2>3. j # NoRow
    BY <2>2, InstanceFields
  <2>4. QED
    BY <1>2, <2>1, <2>2, <2>3 DEF Kept
<1>3. CASE i # NoRow /\ pass.row.spec.runtime # "exec" /\ ~i.up
  BY <1>3 DEF Halted, Kept
<1>4. QED
  BY <1>1, <1>2, <1>3

LEMMA StoppedType ==
  ASSUME TypeOK, NEW down \in SUBSET Slot, NEW codes \in [down -> 0..1]
  PROVE  /\ Stopped(down, codes) \in [Slot -> Instance \cup {NoRow}]
         /\ \A x \in Slot :
              /\ x \notin down => Stopped(down, codes)[x] = inst[x]
              /\ x \in down /\ pass.row.spec.runtime = "exec" => Stopped(down, codes)[x] = NoRow
              /\ pass.row.spec.runtime # "exec" => Kept(inst[x], Stopped(down, codes)[x])
<1>1. ASSUME NEW x \in Slot
      PROVE  /\ Stopped(down, codes)[x] = IF x \in down THEN Halted(inst[x], codes[x]) ELSE inst[x]
             /\ inst[x] \in Instance \cup {NoRow} /\ (x \in down => codes[x] \in 0..1)
  BY DEF Stopped, TypeOK
<1>2. ASSUME NEW x \in Slot
      PROVE  /\ (IF x \in down THEN Halted(inst[x], codes[x]) ELSE inst[x])
                  \in Instance \cup {NoRow}
             /\ pass.row.spec.runtime # "exec" => Kept(inst[x], Stopped(down, codes)[x])
             /\ x \in down /\ pass.row.spec.runtime = "exec" => Stopped(down, codes)[x] = NoRow
  BY <1>1, HaltedType DEF Kept
<1>3. Stopped(down, codes) \in [Slot -> Instance \cup {NoRow}]
  BY <1>2 DEF Stopped
<1>4. QED
  BY <1>1, <1>2, <1>3

LEMMA RemnantsType ==
  ASSUME TypeOK, NEW down \in SUBSET Slot, NEW replaced \in SUBSET Slot
  PROVE  Remnants(down, replaced) \subseteq Slot
BY DEF Remnants, TypeOK

\* A failure that was not there before is one the stop made of what was running.
LEMMA KeptFails ==
  ASSUME TypeOK, NEW s \in Slot, Kept(inst[s], inst'[s]), Fails(inst'[s])
  PROVE  Fails(inst[s]) \/ Broken
<1>1. inst'[s] # NoRow /\ State(inst'[s]) = "failed" /\ inst[s] # NoRow
  BY DEF Kept, Fails
<1>2. inst[s] \in Instance
  BY <1>1 DEF TypeOK
<1>3. inst[s].up \in BOOLEAN /\ inst[s].health \in {"starting", "healthy", "unhealthy", "none"}
  BY <1>2, InstanceFields
<1>4. CASE ~inst[s].up
  BY <1>1, <1>4 DEF Kept, Fails
<1>5. CASE inst[s].up /\ inst[s].health = "unhealthy"
  BY <1>1, <1>5 DEF Fails, State
<1>6. CASE inst[s].up /\ inst[s].health \in {"starting", "healthy", "none"}
  <2>1. running(inst[s])
    BY <1>6 DEF running, State
  <2>2. QED
    BY <1>1, <2>1 DEF Broken
<1>7. QED
  BY <1>3, <1>4, <1>5, <1>6

LEMMA CreditedType ==
  ASSUME TypeOK, NEW b \in BOOLEAN
  PROVE  Credited(b) \in Int
BY DEF Credited, TypeOK

LEMMA FaultType ==
  ASSUME TypeOK, Fault
  PROVE  faults' \in 0..MaxFaults
BY SlotsAssumption DEF TypeOK, Fault

LEMMA AbandonPorts ==
  ASSUME TypeOK, row # NoRow, NEW s \in Slot, abandonPorts(s)
  PROVE  RowKept /\ port' \in [Slot -> Nat]
<1>1. row \in Row /\ port \in [Slot -> Nat] /\ due \in BOOLEAN
  BY DEF TypeOK
<1>2. CASE UNCHANGED <<row, port, due>>
  BY <1>1, <1>2 DEF RowKept
<1>3. CASE /\ port' = [port EXCEPT ![s] = @ + 1]
           /\ row' = IF s = 0 THEN [row EXCEPT !.version = @ + 1] ELSE row
           /\ due' = IF s = 0 THEN FALSE ELSE due
  <2>1. port' \in [Slot -> Nat]
    BY <1>1, <1>3
  <2>2. row.version + 1 \in Nat \ {0}
    BY <1>1 DEF Row
  <2>3. /\ [row EXCEPT !.version = row.version + 1] \in Row
        /\ [row EXCEPT !.version = row.version + 1].spec = row.spec
        /\ [row EXCEPT !.version = row.version + 1].suspended = row.suspended
        /\ [row EXCEPT !.version = row.version + 1].deleted = row.deleted
    BY <1>1, <2>2 DEF Row
  <2>4. QED
    BY <1>1, <1>3, <2>1, <2>3 DEF RowKept
<1>4. QED
  BY <1>2, <1>3 DEF abandonPorts

LEMMA StartEffect ==
  ASSUME TypeOK, PassOf, pass.pc # "idle", NEW s \in Slot, NEW down \in SUBSET Slot,
         StartsUp(s, down) \/ (s \in down /\ (StartPulls(down) \/ StartFails(s, down)))
  PROVE  AfterStart(s, down)
<1>1. /\ pass.row \in Row /\ row \in Row /\ row # NoRow /\ port \in [Slot -> Nat]
      /\ due \in BOOLEAN /\ kept \subseteq Slot /\ files \subseteq Nat
      /\ started \in [Slot -> Nat] /\ held \in [Slot -> -1..ReadinessWait]
      /\ faults \in 0..MaxFaults
  BY DEF TypeOK, PassOf
<1>2. pass.row.version \in Nat /\ -1 \in -1..ReadinessWait
  BY <1>1, SpecFields, SlotsAssumption
<1>3. /\ Remnants(down, {s}) \subseteq Slot /\ Remnants(down, {}) \subseteq Slot
      /\ files \cup {pass.row.version} \subseteq Nat
  BY <1>1, <1>2, RemnantsType
<1>4. CASE StartsUp(s, down)
  <2> DEFINE f == Fresh(pass.row, s)
  <2>1. f \in Instance
    BY <1>1, FreshType
  <2>2. PICK codes \in [down -> 0..1] : inst' = [Stopped(down, codes) EXCEPT ![s] = f]
    BY <1>4 DEF StartsUp
  <2>3. /\ kept' = Remnants(down, {s})
        /\ files' = files \cup {pass.row.version} /\ Resolves(pass.row)
        /\ started' = [started EXCEPT ![s] = pass.row.version]
        /\ held' = [held EXCEPT ![s] = -1] /\ credit' = Credited(TRUE)
        /\ UNCHANGED <<row, port, due, faults>>
    BY <1>4 DEF StartsUp
  <2> DEFINE left == Stopped(down, codes)
  <2>4. /\ left \in [Slot -> Instance \cup {NoRow}]
        /\ \A x \in Slot : x \notin down => left[x] = inst[x]
    BY StoppedType
  <2>5. inst' = [left EXCEPT ![s] = f]
    BY <2>2
  <2> HIDE DEF f, left
  <2>6. /\ inst' \in [Slot -> Instance \cup {NoRow}] /\ inst'[s] = f
        /\ \A x \in Slot \ {s} : x \notin down => inst'[x] = inst[x]
    BY <2>1, <2>4, <2>5
  <2>7. started' \in [Slot -> Nat] /\ held' \in [Slot -> -1..ReadinessWait]
    BY <1>1, <1>2, <2>3
  <2>8. RowKept /\ port' \in [Slot -> Nat] /\ faults' \in 0..MaxFaults
    BY <1>1, <2>3 DEF RowKept
  <2>9. credit' \in Int
    BY <2>3, CreditedType
  <2>10. QED
    BY <1>3, <2>3, <2>6, <2>7, <2>8, <2>9 DEF AfterStart, f
<1>5. ASSUME s \in down, NEW codes \in [down -> 0..1], inst' = Stopped(down, codes)
      PROVE  /\ inst' \in [Slot -> Instance \cup {NoRow}]
             /\ \A x \in Slot \ {s} : x \notin down => inst'[x] = inst[x]
             /\ inst'[s] = NoRow \/ \A x \in Slot : Kept(inst[x], inst'[x])
  BY <1>5, StoppedType
<1>6. CASE s \in down /\ StartPulls(down)
  <2>1. /\ \E codes \in [down -> 0..1] : inst' = Stopped(down, codes)
        /\ kept' = Remnants(down, {})
        /\ files' = files \cup {pass.row.version} /\ credit' = Credited(FALSE)
        /\ UNCHANGED <<row, port, due, started, held, faults>>
    BY <1>6 DEF StartPulls
  <2>2. RowKept /\ port' \in [Slot -> Nat] /\ faults' \in 0..MaxFaults
    BY <1>1, <2>1 DEF RowKept
  <2>3. credit' \in Int
    BY <2>1, CreditedType
  <2>4. QED
    BY <1>1, <1>3, <1>5, <1>6, <2>1, <2>2, <2>3 DEF AfterStart
<1>7. CASE s \in down /\ StartFails(s, down)
  <2>1. /\ \E codes \in [down -> 0..1] : inst' = Stopped(down, codes)
        /\ kept' = Remnants(down, {}) /\ credit' = Credited(FALSE)
        /\ UNCHANGED <<started, held>>
    BY <1>7 DEF StartFails
  <2>2. RowKept /\ port' \in [Slot -> Nat] /\ faults' \in 0..MaxFaults /\ files' \subseteq Nat
    <3>1. CASE UNCHANGED <<row, port, due, files, faults>>
      BY <1>1, <3>1 DEF RowKept
    <3>2. CASE Fault /\ abandonPorts(s) /\ files' = files \cup {pass.row.version}
      BY <1>1, <1>3, <3>2, AbandonPorts, FaultType
    <3>3. QED
      BY <1>7, <3>1, <3>2 DEF StartFails
  <2>3. credit' \in Int
    BY <2>1, CreditedType
  <2>4. QED
    BY <1>1, <1>3, <1>5, <1>7, <2>1, <2>2, <2>3 DEF AfterStart
<1>8. QED
  BY <1>4, <1>6, <1>7

LEMMA HoldType ==
  ASSUME TypeOK, pass.row \in Row, NEW s \in Slot
  PROVE  Hold(s) \in [Slot -> Waiting] /\ Settle(s) \in [Slot -> Waiting]
<1>1. backoff \in [Slot -> Waiting] /\ backoff[s] \in Waiting
  BY DEF TypeOK
<1>2. backoff[s].attempts \in 0..MaxAttempts /\ pass.row.spec.base \in Nat
  BY <1>1, SpecFields DEF Waiting
<1>3. Lesser(backoff[s].attempts + 1, MaxAttempts) \in 0..MaxAttempts
  BY <1>2, SlotsAssumption DEF Lesser
<1>4. backoff[s].attempts + 1 \in Nat
  BY <1>2, SlotsAssumption
<1>5. delay(backoff[s].attempts + 1, pass.row.spec.base) \in 0..MaxBackoff
  <2>1. delay(backoff[s].attempts + 1, pass.row.spec.base) \in 1..MaxBackoff
    BY <1>2, <1>4, DelayType
  <2>2. MaxBackoff \in Nat
    BY BackoffAssumption
  <2>3. QED
    BY <2>1, <2>2
<1>6. Settle(s) \in [Slot -> Waiting]
  BY <1>1, NoBackoffType DEF Settle
<1>7. Hold(s) \in [Slot -> Waiting]
  <2> DEFINE a == Lesser(backoff[s].attempts + 1, MaxAttempts)
             d == delay(backoff[s].attempts + 1, pass.row.spec.base)
             w == [[backoff[s] EXCEPT !.attempts = a] EXCEPT !.wait = d]
  <2>1. a \in 0..MaxAttempts /\ d \in 0..MaxBackoff
    BY <1>3, <1>5
  <2>2. Hold(s) = [backoff EXCEPT ![s].attempts = a, ![s].wait = d]
    BY DEF Hold
  <2> HIDE DEF a, d
  <2>3. w \in Waiting
    BY <1>1, <2>1 DEF Waiting
  <2>4. Hold(s) = [backoff EXCEPT ![s] = w]
    BY <1>1, <2>2
  <2> HIDE DEF w
  <2>5. QED
    BY <1>1, <2>3, <2>4
<1>8. QED
  BY <1>6, <1>7

-----------------------------------------------------------------------------
(* Frames: what is left of the invariant by steps that leave a part alone. *)

\* An instance, and the same one later on.
Gentle(i, j) ==
  /\ i = NoRow <=> j = NoRow
  /\ i # NoRow =>
       /\ j.version = i.version /\ j.hash = i.hash /\ (i.passed => j.passed)
       /\ j.age >= i.age /\ (j.up => i.up)
       /\ j.health = "starting" => i.health = "starting"

\* An observation, and the same one after some time.
Later(i, j) ==
  /\ i = NoRow <=> j = NoRow
  /\ i # NoRow =>
       /\ j.version = i.version /\ j.hash = i.hash /\ j.age >= i.age
       /\ j.up = i.up /\ j.health = i.health /\ j.code = i.code

LEMMA Unmoved ==
  ASSUME NEW i \in Instance \cup {NoRow}
  PROVE  Gentle(i, i) /\ Later(i, i)
<1>1. i # NoRow => i.age \in 0..SettlePeriod
  BY InstanceFields
<1>2. i # NoRow => i.age >= i.age
  BY <1>1, SlotsAssumption
<1>3. QED
  BY <1>2 DEF Gentle, Later

\* The pass stays where it is.
PassKept ==
  /\ pass'.pc = pass.pc /\ pass'.row = pass.row /\ pass'.index = pass.index
  /\ pass'.replaced = pass.replaced /\ pass'.hash = pass.hash
  /\ \A s \in Slot : Later(pass.seen[s], pass'.seen[s])

LEMMA FlightKept ==
  ASSUME Inv, TypeOK', PassKept, replacing' = replacing,
         \A s \in Slot : Gentle(inst[s], inst'[s])
  PROVE  FoundSettled' /\ NoneInFlight'
<1>1. \A s \in Slot : /\ pass.seen[s] # NoRow => pass.seen[s] \in Instance
                      /\ pass'.seen[s] # NoRow => pass'.seen[s] \in Instance
                      /\ inst[s] # NoRow => inst[s] \in Instance
                      /\ inst'[s] # NoRow => inst'[s] \in Instance
  BY PassFields DEF Inv, TypeOK
<1>2. FoundSettled'
  <2> SUFFICES ASSUME pass'.pc = "slot", ~pass'.replaced, NEW t \in Slot,
                      t < pass'.row.spec.count, t \notin replacing', pass'.seen[t] # NoRow,
                      pass'.seen[t].hash = pass'.hash
               PROVE  settled(pass'.seen[t])
    BY DEF FoundSettled
  <2>1. Later(pass.seen[t], pass'.seen[t])
    BY DEF PassKept
  <2>2. pass.seen[t] # NoRow /\ pass.seen[t].hash = pass.hash
    BY <2>1 DEF Later, PassKept
  <2>3. settled(pass.seen[t])
    BY <2>2 DEF Inv, FoundSettled, PassKept
  <2>4. /\ State(pass'.seen[t]) = State(pass.seen[t])
        /\ pass'.seen[t].age >= pass.seen[t].age
    BY <2>1, <2>2 DEF Later, State
  <2>5. pass'.seen[t].age \in Int /\ pass.seen[t].age \in Int
    BY <1>1, <2>2, InstanceFields
  <2>6. QED
    BY <2>3, <2>4, <2>5, SlotsAssumption DEF settled
<1>3. NoneInFlight'
  <2> SUFFICES ASSUME pass'.pc = "slot", ~pass'.replaced, NEW t \in Slot,
                      pass'.seen[t] # NoRow, t \notin replacing', inst'[t] # NoRow,
                      inst'[t].up, inst'[t].hash = pass'.hash
               PROVE  inst'[t].age >= SettlePeriod /\ inst'[t].health # "starting"
    BY DEF NoneInFlight
  <2>1. Later(pass.seen[t], pass'.seen[t]) /\ Gentle(inst[t], inst'[t])
    BY DEF PassKept
  <2>2. /\ pass.seen[t] # NoRow /\ inst[t] # NoRow /\ inst[t].up /\ inst[t].hash = pass.hash
        /\ inst'[t].age >= inst[t].age
        /\ inst'[t].health = "starting" => inst[t].health = "starting"
    BY <2>1 DEF Later, Gentle, PassKept
  <2>3. inst[t].age >= SettlePeriod /\ inst[t].health # "starting"
    BY <2>2 DEF Inv, NoneInFlight, PassKept
  <2>5. inst'[t].age \in Int /\ inst[t].age \in Int
    BY <1>1, <2>2, InstanceFields
  <2>6. QED
    BY <2>2, <2>3, <2>5, SlotsAssumption
<1>4. QED
  BY <1>2, <1>3

LEMMA PassOver ==
  ASSUME pass' = NoPass
  PROVE  PassOf' /\ Mirror' /\ Overtaken' /\ FoundSettled' /\ NoneInFlight'
BY NoPassType DEF PassOf, Mirror, Overtaken, FoundSettled, NoneInFlight

\* The reasons left are numbers.
LEMMA OneType == \A b : One(b) \in {0, 1}
BY DEF One

LEMMA ReasonsType == Reasons \in 0..3
<1>1. One(requested) \in 0..1 /\ One(Unmet) \in 0..1 /\ One(FailedRun) \in 0..1
  BY OneType
<1>2. QED
  BY <1>1 DEF Reasons

LEMMA AccountedKept ==
  ASSUME Inv, credit' \in Int, credit' >= credit, row' # NoRow => row # NoRow,
         requested' => requested, Unmet' => Unmet, FailedRun' => FailedRun
  PROVE  Accounted'
<1>1. One(requested') <= One(requested) /\ One(Unmet') <= One(Unmet)
      /\ One(FailedRun') <= One(FailedRun)
  BY DEF One
<1>2. Reasons' = One(requested') + One(Unmet') + One(FailedRun')
  BY DEF Reasons
<1>3. /\ One(requested') \in Int /\ One(Unmet') \in Int /\ One(FailedRun') \in Int
      /\ One(requested) \in Int /\ One(Unmet) \in Int /\ One(FailedRun) \in Int
  BY DEF One
<1>4. Reasons' <= Reasons /\ Reasons' \in Int /\ Reasons \in Int
  BY <1>1, <1>2, <1>3 DEF Reasons
<1>5. credit \in Int /\ credit >= 0 /\ (row # NoRow => credit >= Reasons)
  BY DEF Inv, TypeOK, Accounted
<1>6. QED
  BY <1>4, <1>5 DEF Accounted

-----------------------------------------------------------------------------
(* Operators, and what the workload refers to.                             *)

LEMMA CallType ==
  ASSUME TypeOK, Call
  PROVE  calls' \in 0..MaxCalls
BY SlotsAssumption DEF TypeOK, Call

\* A step that touches neither the pass nor an instance.
LEMMA Aside ==
  ASSUME Inv, TypeOK', UNCHANGED <<inst, memory, pass, credit>>,
         row' \in Row, row # NoRow, row.deleted => row'.deleted,
         Quiet', Overtaken', Unmet' => Unmet
  PROVE  Inv'
<1>1. row' # NoRow /\ inst' = inst /\ pass' = pass /\ replacing' = replacing
      /\ requested' = requested /\ credit' = credit
  BY SpecFields DEF memory
<1>2. PassOf' /\ Mirror' /\ Gone'
  BY <1>1 DEF Inv, PassOf, Mirror, Gone
<1>3. \A s \in Slot : Gentle(inst[s], inst'[s]) /\ Later(pass.seen[s], pass'.seen[s])
  BY <1>1, Unmoved, PassFields DEF Inv, TypeOK
<1>4. FoundSettled' /\ NoneInFlight'
  <2>1. PassKept
    BY <1>1, <1>3 DEF PassKept
  <2>2. QED
    BY <1>1, <1>3, <2>1, FlightKept
<1>5. FailedRun' => FailedRun
  BY <1>1 DEF FailedRun
<1>6. credit' \in Int /\ credit' >= credit
  BY <1>1 DEF Inv, TypeOK
<1>7. Accounted'
  BY <1>1, <1>5, <1>6, AccountedKept
<1>8. QED
  BY <1>2, <1>4, <1>7 DEF Inv

LEMMA ApplyInv ==
  ASSUME Inv, Apply
  PROVE  Inv'
<1>1. PICK s \in Specs :
        /\ Call /\ (row # NoRow => ~row.deleted /\ row.spec # s)
        /\ row' = IF row = NoRow
                    THEN Applied(s, calls')
                    ELSE [row EXCEPT !.version = @ + 1, !.spec = s, !.image = calls']
        /\ image' \in {image, image \cup {calls'}}
        /\ due' = FALSE
        /\ UNCHANGED <<port, target, inst, kept, files, memory, pass, faults, out, credit>>
  BY DEF Apply
<1>2. calls' \in 0..MaxCalls /\ calls' \in Nat
  BY <1>1, CallType, SlotsAssumption DEF Inv
<1>3. /\ row' \in Row
      /\ row # NoRow => row'.suspended = row.suspended /\ row'.deleted = row.deleted
  <2>1. CASE row = NoRow
    BY <1>1, <1>2, <2>1 DEF Applied, Row
  <2>2. CASE row # NoRow
    <3>1. row \in Row /\ row.version + 1 \in Nat \ {0}
      BY <2>2 DEF Inv, TypeOK, Row
    <3>2. row' = [row EXCEPT !.version = row.version + 1, !.spec = s, !.image = calls']
      BY <1>1, <2>2
    <3>3. QED
      BY <1>2, <3>1, <3>2 DEF Row
  <2>3. QED
    BY <2>1, <2>2
<1>4. TypeOK'
  BY <1>1, <1>2, <1>3 DEF Inv, TypeOK, memory
<1>5. Quiet' /\ Overtaken' /\ ~Unmet'
  BY <1>1 DEF Quiet, Overtaken, Unmet
<1>6. CASE row # NoRow
  BY <1>1, <1>3, <1>4, <1>5, <1>6, Aside
<1>7. CASE row = NoRow
  <2>1. /\ inst' = inst /\ pass' = pass /\ requested' = requested /\ credit' = credit
        /\ row' # NoRow
    BY <1>1, <1>3, SpecFields DEF memory
  <2>2. pass.pc = "idle" /\ ~requested /\ \A x \in Slot : inst[x] = NoRow
    BY <1>7 DEF Inv, PassOf, Gone
  <2>3. PassOf' /\ Mirror' /\ FoundSettled' /\ NoneInFlight' /\ Gone'
    BY <2>1, <2>2 DEF PassOf, Mirror, FoundSettled, NoneInFlight, Gone
  <2>4. ~FailedRun' /\ ~requested'
    BY <2>1, <2>2, SlotFacts DEF FailedRun, Fails
  <2>5. Reasons' = 0
    <3>1. One(requested') = 0 /\ One(Unmet') = 0 /\ One(FailedRun') = 0
      BY <1>5, <2>4 DEF One
    <3>2. QED
      BY <3>1 DEF Reasons
  <2>6. Accounted'
    BY <2>1, <2>5 DEF Inv, Accounted
  <2>7. QED
    BY <1>4, <1>5, <2>3, <2>6 DEF Inv
<1>8. QED
  BY <1>6, <1>7

LEMMA SuspendOrResumeInv ==
  ASSUME Inv, SuspendOrResume
  PROVE  Inv'
<1>1. /\ Call /\ row # NoRow /\ ~row.deleted
      /\ row' = [row EXCEPT !.suspended = ~row.suspended]
      /\ due' = IF row.suspended THEN FALSE ELSE due
      /\ UNCHANGED <<port, target, image, inst, kept, files, memory, pass, faults, history>>
  BY DEF SuspendOrResume
<1>2. row \in Row /\ due \in BOOLEAN
  BY <1>1 DEF Inv, TypeOK
<1>3. /\ row' \in Row /\ row'.spec = row.spec /\ row'.deleted = row.deleted
      /\ row'.suspended = ~row.suspended /\ row.suspended \in BOOLEAN
  BY <1>1, <1>2 DEF Row
<1>4. TypeOK'
  BY <1>1, <1>2, <1>3, CallType DEF Inv, TypeOK, memory, history
<1>5. due' => due /\ ~row.suspended /\ row'.suspended
  BY <1>1, <1>3
<1>6. Quiet'
  BY <1>1, <1>3, <1>5 DEF Inv, Quiet
<1>7. Overtaken'
  BY <1>1, <1>5 DEF Inv, Overtaken
<1>8. Unmet' => Unmet
  BY <1>1, <1>3, <1>5 DEF Unmet, Acting
<1>9. QED
  BY <1>1, <1>3, <1>4, <1>6, <1>7, <1>8, Aside DEF history

LEMMA DeleteInv ==
  ASSUME Inv, Delete
  PROVE  Inv'
<1>1. /\ Call /\ row # NoRow /\ row' = [row EXCEPT !.deleted = TRUE]
      /\ UNCHANGED <<port, target, image, inst, kept, files, due, memory, pass, faults, history>>
  BY DEF Delete
<1>2. row \in Row
  BY <1>1 DEF Inv, TypeOK
<1>3. /\ row' \in Row /\ row'.spec = row.spec /\ row'.deleted
      /\ row'.suspended = row.suspended
  BY <1>1, <1>2 DEF Row
<1>4. TypeOK'
  BY <1>1, <1>3, CallType DEF Inv, TypeOK, memory, history
<1>5. Quiet' /\ Overtaken'
  BY <1>1, <1>3 DEF Inv, Quiet, Overtaken
<1>6. Unmet' => Unmet
  <2>1. CASE pass.pc = "idle"
    BY <1>1, <1>3, <2>1 DEF Unmet, Acting
  <2>2. CASE pass.pc # "idle"
    BY <1>1, <1>3, <2>2 DEF Unmet, Acting
  <2>3. QED
    BY <2>1, <2>2
<1>7. QED
  BY <1>1, <1>3, <1>4, <1>5, <1>6, Aside DEF history

\* A step beside a workload that is gone.
LEMMA NothingLeft ==
  ASSUME Inv, TypeOK', row = NoRow, UNCHANGED <<row, inst, requested, pass, credit>>
  PROVE  Inv'
<1>1. pass.pc = "idle" /\ ~requested /\ \A x \in Slot : inst[x] = NoRow
  BY DEF Inv, PassOf, Gone
<1>2. /\ PassOf' /\ Mirror' /\ FoundSettled' /\ NoneInFlight' /\ Gone' /\ Quiet'
      /\ Overtaken'
  BY <1>1 DEF PassOf, Mirror, FoundSettled, NoneInFlight, Gone, Quiet, Overtaken
<1>3. Accounted'
  BY DEF Inv, Accounted
<1>4. QED
  BY <1>2, <1>3 DEF Inv

LEMMA TargetInv ==
  ASSUME Inv, TargetReady \/ TargetMoves
  PROVE  Inv'
<1>1. /\ UNCHANGED <<row, port, image, inst, kept, files, due, memory, pass, faults, out, credit>>
      /\ Call /\ target' \in [addr : 0..2, ready : BOOLEAN]
  <2>1. target \in [addr : 0..2, ready : BOOLEAN]
    BY DEF Inv, TypeOK
  <2>2. CASE TargetReady
    BY <2>1, <2>2 DEF TargetReady, history
  <2>3. CASE TargetMoves
    BY <2>3 DEF TargetMoves
  <2>4. QED
    BY <2>2, <2>3
<1>2. TypeOK'
  BY <1>1, CallType DEF Inv, TypeOK, memory
<1>3. CASE row # NoRow
  <2>1. row' \in Row /\ row'.deleted = row.deleted
    BY <1>1, <1>3 DEF Inv, TypeOK
  <2>2. Quiet' /\ Overtaken' /\ (Unmet' => Unmet)
    BY <1>1 DEF Inv, Quiet, Overtaken, Unmet, Acting
  <2>3. QED
    BY <1>1, <1>2, <1>3, <2>1, <2>2, Aside
<1>4. CASE row = NoRow
  BY <1>1, <1>2, <1>4, NothingLeft DEF memory
<1>5. QED
  BY <1>3, <1>4

LEMMA PulledInv ==
  ASSUME Inv, Pulled
  PROVE  Inv'
<1>1. /\ UNCHANGED <<row, port, target, inst, kept, files, due, memory, pass, calls, faults,
                     history>>
      /\ row # NoRow /\ image' = image \cup {row.image}
  BY DEF Pulled
<1>2. row \in Row /\ row.image \in Nat
  BY <1>1, SpecFields DEF Inv, TypeOK
<1>3. TypeOK'
  BY <1>1, <1>2 DEF Inv, TypeOK, memory, history
<1>4. Quiet' /\ Overtaken' /\ (Unmet' => Unmet)
  BY <1>1 DEF Inv, Quiet, Overtaken, Unmet, Acting
<1>5. QED
  BY <1>1, <1>2, <1>3, <1>4, Aside DEF history

-----------------------------------------------------------------------------
(* The instances, and time.                                                *)

LEMMA Balance ==
  ASSUME NEW a \in 0..1, NEW b \in 0..1, NEW c \in 0..1, NEW x \in 0..1, NEW y \in 0..1,
         NEW z \in 0..1, NEW p \in 0..1, NEW q \in 0..1, NEW r \in 0..1,
         NEW k \in Int, NEW l \in Int, k >= a + b + c, l >= k + x + y + z,
         p <= a + x, q <= b + y, r <= c + z
  PROVE  l >= p + q + r
<1>1. /\ a \in Int /\ b \in Int /\ c \in Int /\ x \in Int /\ y \in Int /\ z \in Int
      /\ p \in Int /\ q \in Int /\ r \in Int
  OBVIOUS
<1>2. QED
  BY <1>1

LEMMA SumOfParts ==
  ASSUME NEW p \in 0..1, NEW q \in 0..1, NEW r \in 0..1, NEW l \in Int, l >= p + q + r
  PROVE  l >= 0
<1>1. p \in Int /\ q \in Int /\ r \in Int /\ p >= 0 /\ q >= 0 /\ r >= 0
  OBVIOUS
<1>2. QED
  BY <1>1

\* A reason that is new has its credit.
LEMMA AccountedMore ==
  ASSUME Inv, row # NoRow, credit' \in Int,
         credit' >= credit + One(requested' /\ ~requested) + One(Unmet' /\ ~Unmet)
                      + One(FailedRun' /\ ~FailedRun)
  PROVE  Accounted'
<1>1. /\ One(requested') <= One(requested) + One(requested' /\ ~requested)
      /\ One(requested') \in 0..1 /\ One(requested) \in 0..1
      /\ One(requested' /\ ~requested) \in 0..1
  BY DEF One
<1>2. /\ One(Unmet') <= One(Unmet) + One(Unmet' /\ ~Unmet)
      /\ One(Unmet') \in 0..1 /\ One(Unmet) \in 0..1
      /\ One(Unmet' /\ ~Unmet) \in 0..1
  BY DEF One
<1>3. /\ One(FailedRun') <= One(FailedRun) + One(FailedRun' /\ ~FailedRun)
      /\ One(FailedRun') \in 0..1 /\ One(FailedRun) \in 0..1
      /\ One(FailedRun' /\ ~FailedRun) \in 0..1
  BY DEF One
<1>4. credit \in Int /\ credit >= One(requested) + One(Unmet) + One(FailedRun)
  BY DEF Inv, TypeOK, Accounted, Reasons
<1>5. credit' >= One(requested') + One(Unmet') + One(FailedRun')
  BY <1>1, <1>2, <1>3, <1>4, Balance
<1>6. credit' >= 0
  BY <1>1, <1>2, <1>3, <1>5, SumOfParts
<1>7. QED
  BY <1>5, <1>6 DEF Accounted, Reasons

\* What an instance does, beside the pass.
Moved(i, j) ==
  /\ Gentle(i, j)
  /\ i # NoRow => j.passed = i.passed /\ j.age = i.age

LEMMA Beside ==
  ASSUME Inv, TypeOK', row # NoRow, UNCHANGED <<row, due, pass, replacing>>,
         \A s \in Slot : Moved(inst[s], inst'[s]),
         credit' >= credit + One(requested' /\ ~requested) + One(FailedRun' /\ ~FailedRun)
  PROVE  Inv'
<1>1. PassOf' /\ Gone' /\ Quiet'
  BY DEF Inv, PassOf, Gone, Quiet
<1>2. Mirror'
  <2> SUFFICES ASSUME pass.pc \in {"head", "whole"}, NEW s \in Slot
               PROVE  Same(inst'[s], pass.seen[s])
    BY DEF Mirror
  <2>1. Moved(inst[s], inst'[s]) /\ Same(inst[s], pass.seen[s])
    BY DEF Inv, Mirror
  <2>2. QED
    BY <2>1 DEF Moved, Gentle, Same
<1>3. \A s \in Slot : inst'[s] # NoRow => inst[s] # NoRow /\ inst'[s].passed = inst[s].passed
  BY DEF Moved, Gentle
<1>3a. \A s \in Slot : inst[s] # NoRow => inst'[s] # NoRow /\ inst'[s].passed = inst[s].passed
  BY DEF Moved, Gentle
<1>4. Overtaken'
  BY <1>3 DEF Inv, Overtaken
<1>5. \A s \in Slot : Gentle(inst[s], inst'[s]) /\ Later(pass.seen[s], pass'.seen[s])
  BY Unmoved, PassFields DEF Inv, TypeOK, Moved
<1>6. FoundSettled' /\ NoneInFlight'
  <2>1. PassKept
    BY <1>5 DEF PassKept
  <2>2. QED
    BY <1>5, <2>1, FlightKept
<1>7. Unmet' => Unmet
  BY <1>3a DEF Unmet, Acting
<1>8. Accounted'
  <2>1. One(Unmet' /\ ~Unmet) = 0
    BY <1>7 DEF One
  <2>2. credit' \in Int /\ credit \in Int
    BY DEF Inv, TypeOK
  <2>3. One(requested' /\ ~requested) \in 0..1 /\ One(FailedRun' /\ ~FailedRun) \in 0..1
    BY DEF One
  <2>4. QED
    BY <2>1, <2>2, <2>3, AccountedMore
<1>9. QED
  BY <1>1, <1>2, <1>4, <1>6, <1>8 DEF Inv

LEMMA RestartInv ==
  ASSUME Inv, Restart
  PROVE  Inv'
<1>1. /\ Call /\ row # NoRow /\ requested' = TRUE /\ credit' = credit + 1
      /\ inst' = [s \in Slot |-> IF inst[s] = NoRow THEN NoRow
                                 ELSE [inst[s] EXCEPT !.asked = TRUE]]
      /\ UNCHANGED <<row, port, target, image, kept, files, due, backoff, replacing, started,
                     held, reclaimed, pass, faults, out>>
  BY DEF Restart
<1>2. ASSUME NEW s \in Slot
      PROVE  /\ inst'[s] \in Instance \cup {NoRow} /\ Moved(inst[s], inst'[s])
             /\ Fails(inst'[s]) => Fails(inst[s])
  <2>1. inst[s] \in Instance \cup {NoRow}
    BY DEF Inv, TypeOK
  <2>2. CASE inst[s] = NoRow
    BY <1>1, <2>2 DEF Moved, Gentle
  <2>3. CASE inst[s] \in Instance
    <3> DEFINE i == inst[s]
               j == [i EXCEPT !.asked = TRUE]
    <3>1. inst'[s] = j /\ i # NoRow
      BY <1>1, <2>3, InstanceFields
    <3>2. /\ j \in Instance /\ j.version = i.version /\ j.hash = i.hash /\ j.passed = i.passed
          /\ j.age = i.age /\ j.up = i.up /\ j.health = i.health /\ j.code = i.code
      BY <2>3 DEF Instance
    <3> HIDE DEF j
    <3>3. j # NoRow /\ i.age \in Int
      <4>1. i.age \in 0..SettlePeriod
        BY <2>3, InstanceFields
      <4>2. QED
        BY <3>2, <4>1, InstanceFields
    <3>4. j.age >= i.age
      BY <3>2, <3>3
    <3>5. QED
      BY <3>1, <3>2, <3>3, <3>4 DEF Moved, Gentle, Fails, State
  <2>4. QED
    BY <2>1, <2>2, <2>3
<1>3. inst' \in [Slot -> Instance \cup {NoRow}]
  BY <1>1, <1>2
<1>4. TypeOK'
  BY <1>1, <1>3, CallType DEF Inv, TypeOK
<1>5. FailedRun' => FailedRun
  BY <1>1, <1>2, SlotFacts DEF FailedRun
<1>6. credit' >= credit + One(requested' /\ ~requested) + One(FailedRun' /\ ~FailedRun)
  <2>1. One(FailedRun' /\ ~FailedRun) = 0 /\ One(requested' /\ ~requested) \in 0..1
    BY <1>5 DEF One
  <2>2. QED
    BY <1>1, <2>1 DEF Inv, TypeOK
<1>7. QED
  BY <1>1, <1>2, <1>4, <1>6, Beside

LEMMA ExitsInv ==
  ASSUME Inv, Exits
  PROVE  Inv'
<1>1. PICK x \in Slot, code \in 0..1 :
        /\ inst[x] # NoRow /\ inst[x].up /\ Fault
        /\ inst' = [inst EXCEPT ![x].up = FALSE, ![x].code = code]
        /\ credit' = credit + code
        /\ UNCHANGED <<row, port, target, image, kept, files, due, memory, pass, calls, out>>
  BY DEF Exits
<1>2. inst[x] \in Instance /\ row # NoRow /\ inst \in [Slot -> Instance \cup {NoRow}]
  BY <1>1 DEF Inv, TypeOK, Gone
<1> DEFINE i == inst[x]
           j == [[i EXCEPT !.up = FALSE] EXCEPT !.code = code]
<1>3. /\ j \in Instance /\ j.version = i.version /\ j.hash = i.hash /\ j.passed = i.passed
      /\ j.age = i.age /\ ~j.up /\ j.health = i.health /\ j.code = code
  BY <1>2 DEF Instance
<1>4. inst' = [inst EXCEPT ![x] = j]
  BY <1>1, <1>2
<1>5. j # NoRow /\ i.age \in Int
  BY <1>2, <1>3, InstanceFields
<1> HIDE DEF j
<1>6. Moved(inst[x], j) /\ (Fails(j) => code = 1)
  <2>1. j.age >= i.age
    BY <1>3, <1>5
  <2>2. QED
    BY <1>1, <1>3, <1>5, <2>1 DEF Moved, Gentle, Fails, State
<1>7. \A s \in Slot : Moved(inst[s], inst'[s])
  <2>1. \A s \in Slot : s # x => inst'[s] = inst[s] /\ inst[s] \in Instance \cup {NoRow}
    BY <1>2, <1>4
  <2>2. inst'[x] = j
    BY <1>2, <1>4
  <2>3. QED
    BY <1>6, <2>1, <2>2, Unmoved DEF Moved
<1>8. TypeOK'
  <2>1. inst' \in [Slot -> Instance \cup {NoRow}]
    BY <1>2, <1>3, <1>4
  <2>2. credit' \in Int
    BY <1>1 DEF Inv, TypeOK
  <2>3. QED
    BY <1>1, <2>1, <2>2, FaultType DEF Inv, TypeOK, memory
<1>9. credit' >= credit + One(requested' /\ ~requested) + One(FailedRun' /\ ~FailedRun)
  <2>1. FailedRun' /\ ~FailedRun => code = 1
    <3>1. inst'[0] = inst[0] \/ inst'[0] = j
      BY <1>2, <1>4, SlotFacts
    <3>2. QED
      BY <1>1, <1>6, <3>1 DEF FailedRun
  <2>2. One(requested' /\ ~requested) = 0
    BY <1>1 DEF One, memory
  <2>3. One(FailedRun' /\ ~FailedRun) <= code /\ One(FailedRun' /\ ~FailedRun) \in 0..1
    BY <2>1 DEF One
  <2>4. credit \in Int
    BY DEF Inv, TypeOK
  <2>5. QED
    BY <1>1, <2>2, <2>3, <2>4
<1>10. QED
  BY <1>1, <1>2, <1>7, <1>8, <1>9, Beside DEF memory

LEMMA ChecksInv ==
  ASSUME Inv, Passes \/ Sickens
  PROVE  Inv'
<1>1. PICK x \in Slot, h \in {"healthy", "unhealthy"} :
        /\ inst[x] # NoRow /\ inst[x].up
        /\ inst' = [inst EXCEPT ![x].health = h]
        /\ credit' = IF h = "unhealthy" THEN credit + 1 ELSE credit
        /\ faults' \in 0..MaxFaults
        /\ UNCHANGED <<row, port, target, image, kept, files, due, memory, pass, calls, out>>
  <2>1. CASE Passes
    BY <2>1 DEF Passes, Inv, TypeOK, history
  <2>2. CASE Sickens
    BY <2>2, FaultType DEF Sickens, Inv
  <2>3. QED
    BY <2>1, <2>2
<1>2. inst[x] \in Instance /\ row # NoRow /\ inst \in [Slot -> Instance \cup {NoRow}]
  BY <1>1 DEF Inv, TypeOK, Gone
<1> DEFINE i == inst[x]
           j == [i EXCEPT !.health = h]
<1>3. /\ j \in Instance /\ j.version = i.version /\ j.hash = i.hash /\ j.passed = i.passed
      /\ j.age = i.age /\ j.up = i.up /\ j.health = h /\ j.code = i.code
  BY <1>2 DEF Instance
<1>4. inst' = [inst EXCEPT ![x] = j]
  BY <1>1, <1>2
<1>5. j # NoRow /\ i.age \in Int
  BY <1>2, <1>3, InstanceFields
<1> HIDE DEF j
<1>6. Moved(inst[x], j) /\ (Fails(j) => h = "unhealthy")
  <2>1. j.age >= i.age
    BY <1>3, <1>5
  <2>2. QED
    BY <1>1, <1>3, <1>5, <2>1 DEF Moved, Gentle, Fails, State
<1>7. \A s \in Slot : Moved(inst[s], inst'[s])
  <2>1. \A s \in Slot : s # x => inst'[s] = inst[s] /\ inst[s] \in Instance \cup {NoRow}
    BY <1>2, <1>4
  <2>2. inst'[x] = j
    BY <1>2, <1>4
  <2>3. QED
    BY <1>6, <2>1, <2>2, Unmoved DEF Moved
<1>8. TypeOK'
  <2>1. inst' \in [Slot -> Instance \cup {NoRow}]
    BY <1>2, <1>3, <1>4
  <2>2. credit' \in Int
    BY <1>1 DEF Inv, TypeOK
  <2>3. QED
    BY <1>1, <2>1, <2>2 DEF Inv, TypeOK, memory
<1>9. credit' >= credit + One(requested' /\ ~requested) + One(FailedRun' /\ ~FailedRun)
  <2>1. FailedRun' /\ ~FailedRun => h = "unhealthy"
    <3>1. inst'[0] = inst[0] \/ inst'[0] = j
      BY <1>2, <1>4, SlotFacts
    <3>2. QED
      BY <1>1, <1>6, <3>1 DEF FailedRun
  <2>2. One(requested' /\ ~requested) = 0
    BY <1>1 DEF One, memory
  <2>3. /\ One(FailedRun' /\ ~FailedRun) <= One(h = "unhealthy")
        /\ One(FailedRun' /\ ~FailedRun) \in 0..1
    BY <2>1 DEF One
  <2>4. credit \in Int /\ credit' = credit + One(h = "unhealthy")
    BY <1>1 DEF Inv, TypeOK, One
  <2>5. One(h = "unhealthy") \in 0..1
    BY DEF One
  <2>6. QED
    BY <1>1, <2>2, <2>3, <2>4, <2>5
<1>10. QED
  BY <1>1, <1>2, <1>7, <1>8, <1>9, Beside DEF memory

\* The time a schedule names, and a tick, on an instance.
Passing(i) == IF i = NoRow THEN NoRow ELSE [i EXCEPT !.passed = TRUE]

Aging(i) == IF i = NoRow THEN NoRow ELSE [i EXCEPT !.age = Lesser(i.age + 1, SettlePeriod)]

LEMMA PassingType ==
  ASSUME NEW i \in Instance \cup {NoRow}
  PROVE  /\ Passing(i) \in Instance \cup {NoRow} /\ Gentle(i, Passing(i)) /\ Later(i, Passing(i))
         /\ Fails(Passing(i)) <=> Fails(i)
         /\ i # NoRow => Passing(i).passed /\ Passing(i).age = i.age
<1>1. CASE i = NoRow
  BY <1>1 DEF Passing, Gentle, Later, Fails
<1>2. CASE i \in Instance
  <2> DEFINE j == [i EXCEPT !.passed = TRUE]
  <2>1. /\ j \in Instance /\ j.version = i.version /\ j.hash = i.hash /\ j.passed
        /\ j.age = i.age /\ j.up = i.up /\ j.health = i.health /\ j.code = i.code
    BY <1>2 DEF Instance
  <2>2. i # NoRow /\ Passing(i) = j
    BY <1>2, InstanceFields DEF Passing
  <2> HIDE DEF j
  <2>3. i.age \in 0..SettlePeriod /\ j # NoRow
    BY <1>2, <2>1, InstanceFields
  <2>4. j.age >= i.age
    BY <2>1, <2>3
  <2>5. QED
    BY <2>1, <2>2, <2>3, <2>4 DEF Gentle, Later, Fails, State
<1>3. QED
  BY <1>1, <1>2

LEMMA AgingType ==
  ASSUME NEW i \in Instance \cup {NoRow}
  PROVE  /\ Aging(i) \in Instance \cup {NoRow} /\ Gentle(i, Aging(i)) /\ Later(i, Aging(i))
         /\ Fails(Aging(i)) <=> Fails(i)
         /\ i # NoRow => /\ Aging(i).passed = i.passed
                         /\ Aging(i).age = Lesser(i.age + 1, SettlePeriod)
<1>1. CASE i = NoRow
  BY <1>1 DEF Aging, Gentle, Later, Fails
<1>2. CASE i \in Instance
  <2> DEFINE a == Lesser(i.age + 1, SettlePeriod)
             j == [i EXCEPT !.age = a]
  <2>1. i.age \in 0..SettlePeriod
    BY <1>2, InstanceFields
  <2>2. a \in 0..SettlePeriod /\ a >= i.age
    BY <2>1, SlotsAssumption DEF Lesser
  <2>3. i # NoRow /\ Aging(i) = j
    BY <1>2, InstanceFields DEF Aging
  <2>4. a = Lesser(i.age + 1, SettlePeriod)
    OBVIOUS
  <2> HIDE DEF a
  <2>5. /\ j \in Instance /\ j.version = i.version /\ j.hash = i.hash /\ j.passed = i.passed
        /\ j.age = a /\ j.up = i.up /\ j.health = i.health /\ j.code = i.code
    BY <1>2, <2>2 DEF Instance
  <2> HIDE DEF j
  <2>6. j # NoRow
    BY <2>5, InstanceFields
  <2>7. QED
    BY <2>2, <2>3, <2>4, <2>5, <2>6 DEF Gentle, Later, Fails, State
<1>3. QED
  BY <1>1, <1>2

LEMMA OccursInv ==
  ASSUME Inv, Occurs
  PROVE  Inv'
<1>1. /\ row # NoRow /\ row.spec.schedule /\ Call /\ due' = TRUE /\ credit' = credit + 1
      /\ inst' = [s \in Slot |-> Passing(inst[s])]
      /\ pass' = [pass EXCEPT !.seen = [s \in Slot |-> Passing(pass.seen[s])]]
      /\ UNCHANGED <<row, port, target, image, kept, files, memory, faults, out>>
  BY DEF Occurs, Passing
<1>2. pass \in Progress /\ \A s \in Slot : /\ inst[s] \in Instance \cup {NoRow}
                                           /\ pass.seen[s] \in Instance \cup {NoRow}
  BY PassFields DEF Inv, TypeOK
<1> DEFINE seen == [s \in Slot |-> Passing(pass.seen[s])]
<1>3. seen \in [Slot -> Instance \cup {NoRow}] /\ inst' \in [Slot -> Instance \cup {NoRow}]
  BY <1>1, <1>2, PassingType
<1>4. \A s \in Slot : seen[s] = Passing(pass.seen[s]) /\ inst'[s] = Passing(inst[s])
  BY <1>1
<1>5. pass' = [pass EXCEPT !.seen = seen]
  BY <1>1
<1> HIDE DEF seen
<1>6. /\ pass' \in Progress /\ pass'.seen = seen /\ pass'.pc = pass.pc /\ pass'.row = pass.row
      /\ pass'.index = pass.index /\ pass'.replaced = pass.replaced /\ pass'.hash = pass.hash
  BY <1>2, <1>3, <1>5 DEF Progress
<1>7. TypeOK'
  <2>1. credit' \in Int
    BY <1>1 DEF Inv, TypeOK
  <2>2. QED
    BY <1>1, <1>3, <1>6, <2>1, CallType DEF Inv, TypeOK, memory
<1>8. \A s \in Slot : /\ Gentle(inst[s], inst'[s]) /\ Later(pass.seen[s], pass'.seen[s])
                      /\ inst'[s] # NoRow => inst'[s].passed
                      /\ Fails(inst'[s]) <=> Fails(inst[s])
                      /\ Fails(pass'.seen[s]) <=> Fails(pass.seen[s])
                      /\ inst[s] # NoRow => inst'[s].age = inst[s].age
                      /\ pass.seen[s] # NoRow => /\ pass'.seen[s].passed
                                                 /\ pass'.seen[s].age = pass.seen[s].age
  <2>1. \A s \in Slot : inst'[s] # NoRow => inst[s] # NoRow
    BY <1>4 DEF Passing
  <2>2. QED
    BY <1>2, <1>4, <1>6, <2>1, PassingType
<1>9. PassOf' /\ Gone' /\ Quiet' /\ Overtaken'
  BY <1>1, <1>6, <1>8 DEF Inv, PassOf, Gone, Quiet, Overtaken
<1>10. Mirror'
  <2> SUFFICES ASSUME pass.pc \in {"head", "whole"}, NEW s \in Slot
               PROVE  Same(inst'[s], pass'.seen[s])
    BY <1>6 DEF Mirror
  <2>1. Same(inst[s], pass.seen[s])
    BY DEF Inv, Mirror
  <2>2. /\ inst[s] \in Instance \cup {NoRow} /\ pass.seen[s] \in Instance \cup {NoRow}
        /\ inst'[s] = Passing(inst[s]) /\ pass'.seen[s] = Passing(pass.seen[s])
    BY <1>2, <1>4, <1>6
  <2>3. CASE inst[s] = NoRow
    BY <2>1, <2>2, <2>3 DEF Same, Passing
  <2>4. CASE inst[s] # NoRow
    <3>1. pass.seen[s] # NoRow /\ inst[s] \in Instance /\ pass.seen[s] \in Instance
      BY <2>1, <2>2, <2>4 DEF Same
    <3>2. /\ inst'[s] = [inst[s] EXCEPT !.passed = TRUE]
          /\ pass'.seen[s] = [pass.seen[s] EXCEPT !.passed = TRUE]
      BY <2>2, <2>4, <3>1 DEF Passing
    <3>3. inst'[s] # NoRow /\ pass'.seen[s] # NoRow
      BY <1>8, <2>4, <3>1 DEF Gentle, Later
    <3>4. QED
      BY <2>1, <3>1, <3>2, <3>3 DEF Same, Instance
  <2>5. QED
    BY <2>3, <2>4
<1>11. FoundSettled' /\ NoneInFlight'
  <2>1. PassKept /\ replacing' = replacing
    BY <1>1, <1>6, <1>8 DEF PassKept, memory
  <2>2. QED
    BY <1>7, <1>8, <2>1, FlightKept
<1>12. Accounted'
  <2>1. FailedRun' => FailedRun
    BY <1>6, <1>8, SlotFacts DEF FailedRun
  <2>2. One(FailedRun' /\ ~FailedRun) = 0 /\ One(requested' /\ ~requested) = 0
    BY <1>1, <2>1 DEF One, memory
  <2>3. One(Unmet' /\ ~Unmet) \in 0..1
    BY DEF One
  <2>4. credit \in Int /\ credit' \in Int
    BY <1>1 DEF Inv, TypeOK
  <2>5. credit' >= credit + One(requested' /\ ~requested) + One(Unmet' /\ ~Unmet)
                     + One(FailedRun' /\ ~FailedRun)
    BY <1>1, <2>2, <2>3, <2>4
  <2>6. QED
    BY <1>1, <2>4, <2>5, AccountedMore
<1>13. QED
  BY <1>7, <1>9, <1>10, <1>11, <1>12 DEF Inv

LEMMA TickInv ==
  ASSUME Inv, Tick
  PROVE  Inv'
<1>1. /\ inst' = [s \in Slot |-> Aging(inst[s])]
      /\ pass' = [pass EXCEPT !.seen = [s \in Slot |-> Aging(pass.seen[s])]]
      /\ backoff' = [s \in Slot |-> [backoff[s] EXCEPT !.wait = IF @ > 0 THEN @ - 1 ELSE 0]]
      /\ held' = [s \in Slot |-> IF held[s] = -1 THEN -1 ELSE Lesser(held[s] + 1, ReadinessWait)]
      /\ UNCHANGED <<row, port, target, image, kept, files, due, replacing, requested, started,
                     reclaimed, calls, faults, history>>
  BY DEF Tick, Aging
<1>2. pass \in Progress /\ \A s \in Slot : /\ inst[s] \in Instance \cup {NoRow}
                                           /\ pass.seen[s] \in Instance \cup {NoRow}
  BY PassFields DEF Inv, TypeOK
<1> DEFINE seen == [s \in Slot |-> Aging(pass.seen[s])]
<1>3. seen \in [Slot -> Instance \cup {NoRow}] /\ inst' \in [Slot -> Instance \cup {NoRow}]
  BY <1>1, <1>2, AgingType
<1>4. \A s \in Slot : seen[s] = Aging(pass.seen[s]) /\ inst'[s] = Aging(inst[s])
  BY <1>1
<1>5. pass' = [pass EXCEPT !.seen = seen]
  BY <1>1
<1> HIDE DEF seen
<1>6. /\ pass' \in Progress /\ pass'.seen = seen /\ pass'.pc = pass.pc /\ pass'.row = pass.row
      /\ pass'.index = pass.index /\ pass'.replaced = pass.replaced /\ pass'.hash = pass.hash
  BY <1>2, <1>3, <1>5 DEF Progress
<1>7. TypeOK'
  <2>1. backoff' \in [Slot -> Waiting]
    <3>1. ASSUME NEW s \in Slot
          PROVE  [backoff[s] EXCEPT !.wait = IF @ > 0 THEN @ - 1 ELSE 0] \in Waiting
      <4>1. backoff[s] \in Waiting
        BY DEF Inv, TypeOK
      <4>2. backoff[s].wait \in 0..MaxBackoff /\ MaxBackoff \in Nat
        BY <4>1, BackoffAssumption DEF Waiting
      <4>3. (IF backoff[s].wait > 0 THEN backoff[s].wait - 1 ELSE 0) \in 0..MaxBackoff
        BY <4>2
      <4>4. QED
        BY <4>1, <4>3 DEF Waiting
    <3>2. QED
      BY <1>1, <3>1
  <2>2. held' \in [Slot -> -1..ReadinessWait]
    <3>1. ASSUME NEW s \in Slot
          PROVE  (IF held[s] = -1 THEN -1 ELSE Lesser(held[s] + 1, ReadinessWait))
                   \in -1..ReadinessWait
      <4>1. held[s] \in -1..ReadinessWait
        BY DEF Inv, TypeOK
      <4>2. QED
        BY <4>1, SlotsAssumption DEF Lesser
    <3>2. QED
      BY <1>1, <3>1
  <2>3. QED
    BY <1>1, <1>3, <1>6, <2>1, <2>2 DEF Inv, TypeOK, history
<1>8. \A s \in Slot : /\ Gentle(inst[s], inst'[s]) /\ Later(pass.seen[s], pass'.seen[s])
                      /\ inst[s] # NoRow => inst'[s].passed = inst[s].passed
                      /\ Fails(inst'[s]) <=> Fails(inst[s])
                      /\ Fails(pass'.seen[s]) <=> Fails(pass.seen[s])
  BY <1>2, <1>4, <1>6, AgingType
<1>9. \A s \in Slot : inst'[s] = NoRow <=> inst[s] = NoRow
  BY <1>8 DEF Gentle
<1>10. PassOf' /\ Gone' /\ Quiet' /\ Overtaken'
  <2>1. PassOf' /\ Gone' /\ Quiet'
    BY <1>1, <1>6, <1>9 DEF Inv, PassOf, Gone, Quiet
  <2>2. Overtaken'
    BY <1>1, <1>6, <1>8, <1>9 DEF Inv, Overtaken
  <2>3. QED
    BY <2>1, <2>2
<1>11. Mirror'
  <2> SUFFICES ASSUME pass.pc \in {"head", "whole"}, NEW s \in Slot
               PROVE  Same(inst'[s], pass'.seen[s])
    BY <1>6 DEF Mirror
  <2>1. Same(inst[s], pass.seen[s])
    BY DEF Inv, Mirror
  <2>2. /\ inst[s] \in Instance \cup {NoRow} /\ pass.seen[s] \in Instance \cup {NoRow}
        /\ inst'[s] = Aging(inst[s]) /\ pass'.seen[s] = Aging(pass.seen[s])
    BY <1>2, <1>4, <1>6
  <2>3. CASE inst[s] = NoRow
    BY <2>1, <2>2, <2>3 DEF Same, Aging
  <2>4. CASE inst[s] # NoRow
    <3>1. pass.seen[s] # NoRow /\ inst[s] \in Instance /\ pass.seen[s] \in Instance
      BY <2>1, <2>2, <2>4 DEF Same
    <3> DEFINE a == Lesser(inst[s].age + 1, SettlePeriod)
    <3>2. /\ inst'[s] = [inst[s] EXCEPT !.age = a]
          /\ pass'.seen[s] = [pass.seen[s] EXCEPT !.age = a]
      BY <2>1, <2>2, <2>4, <3>1 DEF Aging, Same
    <3> HIDE DEF a
    <3>3. inst'[s] # NoRow /\ pass'.seen[s] # NoRow
      BY <1>8, <2>4, <3>1 DEF Gentle, Later
    <3>4. QED
      BY <2>1, <3>1, <3>2, <3>3 DEF Same, Instance
  <2>5. QED
    BY <2>3, <2>4
<1>12. FoundSettled' /\ NoneInFlight'
  <2>1. PassKept /\ replacing' = replacing
    BY <1>1, <1>6, <1>8 DEF PassKept
  <2>2. QED
    BY <1>7, <1>8, <2>1, FlightKept
<1>13. Accounted'
  <2>1. FailedRun' => FailedRun
    BY <1>6, <1>8, SlotFacts DEF FailedRun
  <2>2. Unmet' => Unmet
    <3>1. Acting' = Acting
      BY <1>1, <1>6 DEF Acting
    <3>2. QED
      BY <1>1, <1>8, <1>9, <3>1 DEF Unmet
  <2>3. credit \in Int /\ credit' \in Int /\ credit' >= credit
    BY <1>1 DEF Inv, TypeOK, history
  <2>4. QED
    BY <1>1, <2>1, <2>2, <2>3, AccountedKept
<1>14. QED
  BY <1>7, <1>10, <1>11, <1>12, <1>13 DEF Inv

-----------------------------------------------------------------------------
(* The pass, before it decides.                                            *)

LEMMA ObserveInv ==
  ASSUME Inv, Observe
  PROVE  Inv'
<1>1. /\ pass.pc = "idle" /\ row # NoRow
      /\ pass' = [NoPass EXCEPT !.pc = "head", !.row = row, !.port = port,
                                !.seen = [s \in Slot |-> Unasked(inst[s])], !.kept = kept]
      /\ inst' = [s \in Slot |-> IF inst[s] # NoRow /\ (row.deleted \/ row.suspended)
                                  THEN [inst[s] EXCEPT !.health = "none"] ELSE inst[s]]
      /\ UNCHANGED <<row, port, target, image, kept, files, due, memory, calls, faults, history>>
  BY DEF Observe
<1>2. row \in Row /\ port \in [Slot -> Nat] /\ kept \subseteq Slot
      /\ \A s \in Slot : inst[s] \in Instance \cup {NoRow}
  BY <1>1 DEF Inv, TypeOK
<1> DEFINE seen == [s \in Slot |-> Unasked(inst[s])]
<1>3. seen \in [Slot -> Instance \cup {NoRow}] /\ \A s \in Slot : seen[s] = Unasked(inst[s])
  BY <1>2, UnaskedType
<1>4. pass' = [NoPass EXCEPT !.pc = "head", !.row = row, !.port = port, !.seen = seen,
                             !.kept = kept]
  BY <1>1
<1> HIDE DEF seen
<1>5. /\ pass' \in Progress /\ pass'.pc = "head" /\ pass'.row = row /\ pass'.seen = seen
      /\ pass'.index = 0
  BY <1>2, <1>3, <1>4, NoPassType DEF Progress
<1>6. ASSUME NEW s \in Slot
      PROVE  /\ inst'[s] \in Instance \cup {NoRow} /\ Same(inst'[s], inst[s])
             /\ Fails(inst'[s]) => Fails(inst[s])
  <2>1. CASE inst[s] # NoRow /\ (row.deleted \/ row.suspended)
    <3> DEFINE i == inst[s]
               j == [i EXCEPT !.health = "none"]
    <3>1. inst'[s] = j /\ i \in Instance /\ i # NoRow
      BY <1>1, <1>2, <2>1
    <3>2. /\ j \in Instance /\ j.version = i.version /\ j.hash = i.hash /\ j.passed = i.passed
          /\ j.age = i.age /\ j.up = i.up /\ j.health = "none" /\ j.code = i.code
      BY <3>1 DEF Instance
    <3> HIDE DEF j
    <3>3. j # NoRow
      BY <3>2, InstanceFields
    <3>4. QED
      BY <3>1, <3>2, <3>3 DEF Same, Fails, State
  <2>2. CASE ~(inst[s] # NoRow /\ (row.deleted \/ row.suspended))
    <3>1. inst'[s] = inst[s]
      BY <1>1, <2>2
    <3>2. QED
      BY <1>2, <3>1 DEF Same
  <2>3. QED
    BY <2>1, <2>2
<1>7. inst' \in [Slot -> Instance \cup {NoRow}]
  BY <1>1, <1>6
<1>8. TypeOK'
  BY <1>1, <1>5, <1>7 DEF Inv, TypeOK, memory, history
<1>9. PassOf'
  <2>1. 0 < row.spec.count
    BY <1>2, SpecFields, SlotsAssumption
  <2>2. QED
    BY <1>1, <1>2, <1>5, <2>1 DEF PassOf
<1>10. Mirror'
  <2>1. ASSUME NEW s \in Slot PROVE Same(inst'[s], seen[s])
    <3>1. Same(inst'[s], inst[s]) /\ Same(inst[s], seen[s])
      BY <1>2, <1>3, <1>6, UnaskedType
    <3>2. QED
      BY <3>1 DEF Same
  <2>2. QED
    BY <1>5, <2>1 DEF Mirror
<1>11. Gone' /\ Quiet' /\ Overtaken' /\ FoundSettled' /\ NoneInFlight'
  BY <1>1, <1>5 DEF Inv, Gone, Quiet, Overtaken, FoundSettled, NoneInFlight
<1>12. Accounted'
  <2>1. FailedRun' => FailedRun
    <3>1. Fails(inst'[0]) => Fails(inst[0])
      BY <1>6, SlotFacts
    <3>2. Fails(seen[0]) => Fails(inst[0])
      BY <1>2, <1>3, UnaskedType, SlotFacts
    <3>3. QED
      BY <1>5, <3>1, <3>2 DEF FailedRun
  <2>2. Unmet' => Unmet
    <3>1. Acting = row /\ Acting' = row
      BY <1>1, <1>5 DEF Acting
    <3>2. \A s \in Slot : inst[s] # NoRow => inst'[s] # NoRow /\ inst'[s].passed = inst[s].passed
      BY <1>6 DEF Same
    <3>3. QED
      BY <1>1, <3>1, <3>2 DEF Unmet
  <2>3. credit' \in Int /\ credit' >= credit
    BY <1>1 DEF Inv, TypeOK, history
  <2>4. QED
    BY <1>1, <2>1, <2>2, <2>3, AccountedKept DEF memory
<1>13. QED
  BY <1>8, <1>9, <1>10, <1>11, <1>12 DEF Inv

LEMMA ReclaimInv ==
  ASSUME Inv, Reclaim
  PROVE  Inv'
<1>1. /\ pass.pc = "head" /\ ~pass.row.deleted /\ ~pass.row.suspended
      /\ files' \in {files, files \cap {pass.row.version}}
      /\ reclaimed' \in {pass.row.version, reclaimed}
      /\ pass' = [pass EXCEPT !.pc = "whole"]
      /\ UNCHANGED <<row, port, target, image, inst, kept, due, backoff, replacing, requested,
                     started, held, calls, faults, history>>
  BY DEF Reclaim
<1>2. pass \in Progress /\ pass.row \in Row /\ pass.row.version \in Nat
  BY <1>1, SpecFields DEF Inv, TypeOK, PassOf
<1>3. /\ pass' \in Progress /\ pass'.pc = "whole" /\ pass'.row = pass.row
      /\ pass'.seen = pass.seen /\ pass'.index = pass.index
  BY <1>1, <1>2 DEF Progress
<1>4. TypeOK'
  BY <1>1, <1>2, <1>3 DEF Inv, TypeOK, history
<1>5. PassOf' /\ Mirror' /\ Gone' /\ Quiet' /\ Overtaken' /\ FoundSettled' /\ NoneInFlight'
  BY <1>1, <1>3
    DEF Inv, PassOf, Mirror, Gone, Quiet, Overtaken, FoundSettled, NoneInFlight
<1>6. (FailedRun' => FailedRun) /\ (Unmet' => Unmet)
  BY <1>1, <1>3 DEF FailedRun, Unmet, Acting
<1>7. credit' \in Int /\ credit' >= credit
  BY <1>1 DEF Inv, TypeOK, history
<1>8. Accounted'
  BY <1>1, <1>6, <1>7, AccountedKept
<1>9. QED
  BY <1>4, <1>5, <1>8 DEF Inv

\* A pass that ends, having run nothing.
LEMMA Ends ==
  ASSUME Inv, TypeOK', pass' = NoPass, row # NoRow, UNCHANGED <<row, due>>,
         requested' => requested, Unmet' => Unmet,
         credit' >= credit + One(Fails(inst'[0]) /\ ~Fails(inst[0]))
  PROVE  Inv'
<1>1. PassOf' /\ Mirror' /\ Overtaken' /\ FoundSettled' /\ NoneInFlight'
  BY PassOver
<1>2. Gone' /\ Quiet'
  BY DEF Inv, Gone, Quiet
<1>3. FailedRun' /\ ~FailedRun => Fails(inst'[0]) /\ ~Fails(inst[0])
  BY NoPassType DEF FailedRun
<1>4. credit' \in Int /\ credit \in Int
  BY DEF Inv, TypeOK
<1>5. /\ One(requested' /\ ~requested) = 0 /\ One(Unmet' /\ ~Unmet) = 0
      /\ One(FailedRun' /\ ~FailedRun) <= One(Fails(inst'[0]) /\ ~Fails(inst[0]))
      /\ One(FailedRun' /\ ~FailedRun) \in 0..1
      /\ One(Fails(inst'[0]) /\ ~Fails(inst[0])) \in 0..1
  BY <1>3 DEF One
<1>6. credit' >= credit + One(requested' /\ ~requested) + One(Unmet' /\ ~Unmet)
                  + One(FailedRun' /\ ~FailedRun)
  BY <1>4, <1>5
<1>7. Accounted'
  BY <1>4, <1>6, AccountedMore
<1>8. QED
  BY <1>1, <1>2, <1>7 DEF Inv

\* Nothing fails that did not.
LEMMA Unbroken ==
  ASSUME Inv, credit' = credit, NEW s \in Slot, Fails(inst'[s]) => Fails(inst[s])
  PROVE  credit' >= credit + One(Fails(inst'[s]) /\ ~Fails(inst[s]))
<1>1. One(Fails(inst'[s]) /\ ~Fails(inst[s])) = 0 /\ credit \in Int
  BY DEF One, Inv, TypeOK
<1>2. QED
  BY <1>1

LEMMA NothingType ==
  /\ [s \in Slot |-> NoRow] \in [Slot -> Instance \cup {NoRow}]
  /\ [s \in Slot |-> NoBackoff] \in [Slot -> Waiting]
BY NoBackoffType

LEMMA TeardownInv ==
  ASSUME Inv, Teardown
  PROVE  Inv'
<1>1. /\ pass.pc = "head" /\ pass.row.deleted
      /\ inst' = [s \in Slot |-> NoRow] /\ kept' = {} /\ out' = {} /\ pass' = NoPass
      /\ UNCHANGED <<port, target, image, due, calls, faults>>
  BY DEF Teardown
<1>2. \A s \in Slot : inst'[s] = NoRow
  BY <1>1
<1>3. row \in Row /\ row # NoRow /\ row.deleted
  BY <1>1 DEF Inv, TypeOK, PassOf
<1>4. CASE \E s \in Slot : pass.seen[s] # NoRow
  <2>1. UNCHANGED <<row, files, memory, credit>>
    BY <1>4 DEF Teardown
  <2>2. TypeOK'
    BY <1>1, <2>1, NothingType, NoPassType DEF Inv, TypeOK, memory
  <2>3. ~Unmet' /\ ~Fails(inst'[0])
    BY <1>1, <1>2, <1>3, <2>1, NoPassType, SlotFacts DEF Unmet, Acting, Fails
  <2>4. QED
    BY <1>1, <1>3, <2>1, <2>2, <2>3, Unbroken, Ends, SlotFacts DEF memory
<1>5. CASE ~\E s \in Slot : pass.seen[s] # NoRow
  <2>1. /\ row' = NoRow /\ files' = {} /\ credit' = 0 /\ started' = [s \in Slot |-> 0]
        /\ held' = [s \in Slot |-> IF started[s] # 0 THEN -1 ELSE held[s]]
        /\ backoff' = [s \in Slot |-> NoBackoff]
        /\ replacing' = {} /\ requested' = FALSE /\ reclaimed' = 0
    BY <1>5 DEF Teardown, Forgotten
  <2>2. held' \in [Slot -> -1..ReadinessWait]
    <3>1. held \in [Slot -> -1..ReadinessWait] /\ -1 \in -1..ReadinessWait
      BY SlotsAssumption DEF Inv, TypeOK
    <3>2. QED
      BY <2>1, <3>1
  <2>3. TypeOK'
    <3>1. started' \in [Slot -> Nat] /\ backoff' \in [Slot -> Waiting]
      BY <2>1, NothingType
    <3>2. credit' \in Int /\ reclaimed' \in Nat /\ requested' \in BOOLEAN
      <4>1. credit' \in Int /\ reclaimed' \in Nat
        BY <2>1
      <4>2. requested' \in BOOLEAN
        BY <2>1
      <4>3. QED
        BY <4>1, <4>2
    <3>3. replacing' \subseteq Slot /\ files' \subseteq Nat /\ row' \in Row \cup {NoRow}
      BY <2>1
    <3>4. QED
      BY <1>1, <2>2, <3>1, <3>2, <3>3, NothingType, NoPassType DEF Inv, TypeOK
  <2>4. PassOf' /\ Mirror' /\ Overtaken' /\ FoundSettled' /\ NoneInFlight'
    BY <1>1, PassOver
  <2>5. Gone' /\ Quiet' /\ Accounted'
    BY <1>2, <2>1 DEF Gone, Quiet, Accounted
  <2>6. QED
    BY <2>3, <2>4, <2>5 DEF Inv
<1>6. QED
  BY <1>4, <1>5

LEMMA SuspendedInv ==
  ASSUME Inv, Suspended
  PROVE  Inv'
<1>1. /\ pass.pc = "head" /\ ~pass.row.deleted /\ pass.row.suspended
      /\ pass' = NoPass /\ out' = {}
      /\ UNCHANGED <<row, port, target, image, due, calls, faults>>
  BY DEF Suspended
<1>2. /\ row \in Row /\ row # NoRow /\ pass.index = 0
      /\ \A s \in Slot : inst[s] \in Instance \cup {NoRow}
  BY <1>1 DEF Inv, TypeOK, PassOf
<1>3. /\ inst' \in [Slot -> Instance \cup {NoRow}] /\ kept' \subseteq Slot /\ files' \subseteq Nat
      /\ backoff' \in [Slot -> Waiting] /\ replacing' \subseteq Slot /\ credit' \in Int
      /\ requested' \in BOOLEAN /\ (requested' => requested)
      /\ UNCHANGED <<started, held, reclaimed>>
      /\ credit' >= credit + One(Fails(inst'[0]) /\ ~Fails(inst[0]))
  <2>1. CASE \E s \in Slot : pass.seen[s] # NoRow /\ running(pass.seen[s])
    <3>1. PICK codes \in [Slot -> 0..1] : inst' = Stopped(Slot, codes)
      BY <2>1 DEF Suspended
    <3>2. /\ kept' = Remnants(Slot, {}) /\ credit' = credit + One(Broken)
          /\ UNCHANGED <<files, memory>>
      BY <2>1 DEF Suspended, One
    <3>3. /\ inst' \in [Slot -> Instance \cup {NoRow}]
          /\ inst'[0] = NoRow \/ Kept(inst[0], inst'[0])
      BY <3>1, StoppedType, SlotFacts DEF Inv
    <3>4. kept' \subseteq Slot
      BY <3>2, RemnantsType DEF Inv
    <3>5. Fails(inst'[0]) /\ ~Fails(inst[0]) => Broken
      <4>1. CASE inst'[0] = NoRow
        BY <4>1 DEF Fails
      <4>2. CASE Kept(inst[0], inst'[0])
        BY <4>2, KeptFails, SlotFacts DEF Inv
      <4>3. QED
        BY <3>3, <4>1, <4>2
    <3>6. /\ One(Fails(inst'[0]) /\ ~Fails(inst[0])) <= One(Broken) /\ One(Broken) \in 0..1
          /\ One(Fails(inst'[0]) /\ ~Fails(inst[0])) \in 0..1 /\ credit \in Int
      BY <3>5 DEF One, Inv, TypeOK
    <3>7. /\ credit' \in Int
          /\ credit' >= credit + One(Fails(inst'[0]) /\ ~Fails(inst[0]))
      BY <3>2, <3>6
    <3>8. QED
      BY <3>2, <3>3, <3>4, <3>7 DEF Inv, TypeOK, memory
  <2>2. CASE ~\E s \in Slot : pass.seen[s] # NoRow /\ running(pass.seen[s])
    <3>1. /\ files' = {} /\ inst' = [s \in Slot |-> Unasked(inst[s])]
          /\ backoff' = [s \in Slot |-> NoBackoff] /\ replacing' = {} /\ requested' = FALSE
          /\ UNCHANGED <<kept, started, held, reclaimed, credit>>
      BY <2>2 DEF Suspended
    <3>2. \A s \in Slot : inst'[s] = Unasked(inst[s])
      BY <3>1
    <3>3. Fails(inst'[0]) => Fails(inst[0])
      BY <1>2, <3>2, UnaskedType, SlotFacts
    <3>4. inst' \in [Slot -> Instance \cup {NoRow}]
      BY <1>2, <3>1, UnaskedType
    <3>5. credit' >= credit + One(Fails(inst'[0]) /\ ~Fails(inst[0]))
      BY <3>1, <3>3, Unbroken, SlotFacts
    <3>6. QED
      BY <3>1, <3>4, <3>5, NothingType DEF Inv, TypeOK
  <2>3. QED
    BY <2>1, <2>2
<1>4. TypeOK'
  BY <1>1, <1>3, NoPassType DEF Inv, TypeOK
<1>5. Unmet' => Unmet
  <2> SUFFICES ASSUME Unmet' PROVE Unmet
    OBVIOUS
  <2>1. due /\ ~row.suspended
    BY <1>1, NoPassType DEF Unmet, Acting
  <2>2. \A s \in Slot : inst[s] # NoRow => inst[s].passed
    BY <1>1, <1>2, <2>1, SlotFacts DEF Inv, Overtaken, Slot
  <2>3. QED
    BY <1>1, <2>1, <2>2 DEF Unmet, Acting
<1>6. QED
  BY <1>1, <1>2, <1>3, <1>4, <1>5, Ends

LEMMA DownFailsInv ==
  ASSUME Inv, DownFails
  PROVE  Inv'
<1>1. /\ pass.pc = "head" /\ Fault /\ pass' = NoPass
      /\ UNCHANGED <<world, memory, calls, history>>
  BY DEF DownFails
<1>2. TypeOK'
  BY <1>1, FaultType, NoPassType DEF Inv, TypeOK, world, memory, history
<1>3. row # NoRow /\ UNCHANGED <<row, due, credit, inst, requested>>
  BY <1>1 DEF Inv, PassOf, world, memory, history
<1>4. Unmet' => Unmet
  BY <1>1, <1>3, NoPassType DEF Unmet, Acting
<1>5. credit' >= credit + One(Fails(inst'[0]) /\ ~Fails(inst[0]))
  BY <1>3, Unbroken, SlotFacts
<1>6. QED
  BY <1>1, <1>2, <1>3, <1>4, <1>5, Ends

-----------------------------------------------------------------------------
(* The workload as a whole.                                                *)

\* What the pass found current when it asked after a roll has settled.
LEMMA AskedFoundSettled ==
  ASSUME Inv, pass.pc = "whole", ~pass'.replaced, NEW marks,
         pass'.replaced = rolling(pass.row, pass.seen, marks),
         pass'.hash = IF Resolves(pass.row) THEN slotHash(pass.row) ELSE NoHash,
         NEW t \in Slot, t < pass.row.spec.count, t \notin marks, pass.seen[t] # NoRow,
         pass.seen[t].hash = pass'.hash
  PROVE  settled(pass.seen[t])
<1>1. pass.seen[t] \in Instance /\ pass.row.spec.count \in Nat
  BY PassFields, SpecFields, SlotsAssumption DEF Inv, TypeOK, PassOf
<1>2. Resolves(pass.row) /\ pass.seen[t].hash = slotHash(pass.row)
  BY <1>1, InstanceFields
<1>3. t \in (0..(pass.row.spec.count - 1)) \ marks
  BY <1>1, SlotFacts DEF Slot
<1>4. ~rolling(pass.row, pass.seen, marks)
  OBVIOUS
<1>5. QED
  BY <1>2, <1>3, <1>4 DEF rolling

LEMMA HeadInv ==
  ASSUME Inv, Head
  PROVE  Inv'
<1> DEFINE r == pass.row
           removed == {s \in Slot : s >= r.spec.count
                                      /\ (pass.seen[s] # NoRow \/ s \in pass.kept)}
           marks == Marked(r) \ removed
<1>1. /\ pass.pc = "whole" /\ ~r.spec.schedule /\ requested' = FALSE
      /\ UNCHANGED <<row, port, target, image, files, due, reclaimed, calls, credit>>
  BY DEF Head
<1>2. /\ pass \in Progress /\ r \in Row /\ row # NoRow /\ pass.index = 0 /\ ~r.suspended
      /\ ~r.deleted /\ r.spec.count \in Nat /\ 0 < r.spec.count /\ r.spec.count <= MaxCount
  <2>1. pass \in Progress /\ r \in Row /\ row # NoRow /\ pass.index = 0 /\ ~r.suspended
        /\ ~r.deleted
    BY <1>1 DEF Inv, TypeOK, PassOf
  <2>2. r.spec.count \in 1..MaxCount /\ MaxCount \in Nat
    BY <2>1, SpecFields, SlotsAssumption
  <2>3. QED
    BY <2>1, <2>2
<1>3. Marked(r) \subseteq Slot
  <2>1. 0..(r.spec.count - 1) \subseteq Slot
    BY <1>2, SlotsAssumption DEF Slot
  <2>2. QED
    BY <2>1 DEF Marked, Inv, TypeOK
<1>4. due => \A s \in Slot : inst[s] # NoRow => inst[s].passed
  BY <1>1, <1>2, SlotFacts DEF Inv, Overtaken, Slot
<1>5. CASE /\ removed # {} /\ Fault /\ replacing' = Marked(r) /\ pass' = NoPass
           /\ UNCHANGED <<inst, kept, backoff, started, held, out>>
  <2>1. TypeOK'
    BY <1>1, <1>3, <1>5, FaultType, NoPassType DEF Inv, TypeOK
  <2>2. Unmet' => Unmet
    BY <1>1, <1>2, <1>5, NoPassType DEF Unmet, Acting
  <2>3. credit' >= credit + One(Fails(inst'[0]) /\ ~Fails(inst[0]))
    BY <1>1, <1>5, Unbroken, SlotFacts
  <2>4. QED
    BY <1>1, <1>2, <1>5, <2>1, <2>2, <2>3, Ends
<1>6. CASE /\ replacing' = marks
           /\ inst' = [s \in Slot |-> IF s \in removed THEN NoRow ELSE inst[s]]
           /\ kept' = kept \ removed
           /\ backoff' = [s \in Slot |-> IF s \in removed THEN NoBackoff ELSE backoff[s]]
           /\ started' = [s \in Slot |-> IF s \in removed THEN 0 ELSE started[s]]
           /\ held' = [s \in Slot |-> IF s \in removed THEN -1 ELSE held[s]]
           /\ pass' = [pass EXCEPT !.pc = "slot", !.replaced = rolling(r, pass.seen, marks),
                                   !.hash = IF Resolves(r) THEN slotHash(r) ELSE NoHash]
           /\ out' = out \ removed
           /\ faults' = faults
  <2> DEFINE roll == rolling(r, pass.seen, marks)
             hash == IF Resolves(r) THEN slotHash(r) ELSE NoHash
  <2>1. roll \in BOOLEAN /\ hash \in Nat \X (0..2)
    <3>1. roll \in BOOLEAN
      BY DEF rolling
    <3>2. slotHash(r) \in (Nat \ {0}) \X (0..2)
      BY <1>2, HashType DEF Inv
    <3>3. NoHash \in Nat \X (0..2)
      BY DEF NoHash
    <3>4. QED
      BY <3>1, <3>2, <3>3
  <2>2. pass' = [pass EXCEPT !.pc = "slot", !.replaced = roll, !.hash = hash]
    BY <1>6
  <2> HIDE DEF roll, hash
  <2>3. /\ pass' \in Progress /\ pass'.pc = "slot" /\ pass'.row = r /\ pass'.seen = pass.seen
        /\ pass'.index = pass.index /\ pass'.replaced = roll /\ pass'.hash = hash
    BY <1>2, <2>1, <2>2 DEF Progress
  <2>4. /\ inst \in [Slot -> Instance \cup {NoRow}] /\ backoff \in [Slot -> Waiting]
        /\ started \in [Slot -> Nat] /\ held \in [Slot -> -1..ReadinessWait]
        /\ -1 \in -1..ReadinessWait
    BY SlotsAssumption DEF Inv, TypeOK
  <2> HIDE DEF removed
  <2>5. inst' \in [Slot -> Instance \cup {NoRow}]
    BY <1>6, <2>4
  <2>6. backoff' \in [Slot -> Waiting] /\ started' \in [Slot -> Nat]
    BY <1>6, <2>4, NoBackoffType
  <2>7. held' \in [Slot -> -1..ReadinessWait]
    BY <1>6, <2>4
  <2>8. TypeOK'
    BY <1>1, <1>3, <1>6, <2>3, <2>5, <2>6, <2>7 DEF Inv, TypeOK
  <2>9. \A s \in Slot : inst'[s] # NoRow => inst'[s] = inst[s] /\ s \notin removed
    BY <1>6
  <2>10. PassOf' /\ Mirror' /\ Gone' /\ Quiet'
    BY <1>1, <1>2, <2>3 DEF Inv, PassOf, Mirror, Gone, Quiet
  <2>11. Overtaken'
    BY <1>1, <1>4, <2>9 DEF Overtaken
  <2>12. ASSUME ~pass'.replaced, NEW t \in Slot, t < r.spec.count, t \notin marks,
                pass.seen[t] # NoRow, pass.seen[t].hash = pass'.hash
         PROVE  settled(pass.seen[t])
    BY <1>1, <2>3, <2>12, AskedFoundSettled DEF roll, hash
  <2>13. FoundSettled'
    BY <1>6, <2>3, <2>12 DEF FoundSettled
  <2>14. NoneInFlight'
    <3> SUFFICES ASSUME ~pass'.replaced, NEW t \in Slot, pass.seen[t] # NoRow, t \notin marks,
                        inst'[t] # NoRow, inst'[t].up, inst'[t].hash = pass'.hash
                 PROVE  inst'[t].age >= SettlePeriod /\ inst'[t].health # "starting"
      BY <1>6, <2>3 DEF NoneInFlight
    <3>1. inst'[t] = inst[t] /\ t \notin removed
      BY <2>9
    <3>2. t < r.spec.count
      BY <1>2, <3>1, SlotFacts DEF removed, Slot
    <3>3. Same(inst[t], pass.seen[t])
      BY <1>1 DEF Inv, Mirror
    <3>4. settled(pass.seen[t])
      BY <2>12, <3>1, <3>2, <3>3 DEF Same
    <3>5. QED
      BY <3>1, <3>3, <3>4 DEF Same, settled, State
  <2>15. Unmet' => Unmet
    BY <1>1, <1>2, <1>4, <2>3 DEF Unmet, Acting
  <2>16. FailedRun' => FailedRun
    BY <1>1, <2>3, <2>9, SlotFacts DEF FailedRun, Fails
  <2>17. credit' \in Int /\ credit' >= credit
    BY <1>1 DEF Inv, TypeOK
  <2>18. Accounted'
    BY <1>1, <1>2, <2>15, <2>16, <2>17, AccountedKept
  <2>19. QED
    BY <2>8, <2>10, <2>11, <2>13, <2>14, <2>18 DEF Inv
<1>7. QED
  BY <1>5, <1>6 DEF Head

-----------------------------------------------------------------------------
(* One slot.                                                               *)

\* The pass goes on, or is over.
Proceeds ==
  \/ pass' = NoPass
  \/ /\ pass'.pc = "slot" /\ pass'.row = pass.row /\ pass'.seen = pass.seen
     /\ pass'.hash = pass.hash /\ pass'.index = pass.index + 1
     /\ pass'.index < pass.row.spec.count

\* Nothing that was found comes to be current and unsettled while a slot may be taken down.
Steady(s) ==
  pass' # NoPass /\ ~pass'.replaced =>
    /\ ~pass.replaced
    /\ \/ pass.seen[s] = NoRow
       \/ /\ replacing' = replacing
          /\ Cut(inst[s], inst'[s]) \/ inst'[s].hash # pass.hash

LEMMA SlotStep ==
  ASSUME Inv, TypeOK', pass.pc = "slot", NEW s \in Slot, s = pass.index, RowKept, Proceeds,
         Steady(s), requested' = requested,
         credit' >= credit + One(Fails(inst'[s]) /\ ~Fails(inst[s])),
         replacing' \in {replacing, replacing \ {s}},
         \A x \in Slot \ {s} : inst'[x] = inst[x]
  PROVE  Inv'
<1>1. /\ pass.row \in Row /\ row \in Row /\ row # NoRow /\ ~pass.row.suspended
      /\ ~pass.row.deleted /\ ~pass.row.spec.schedule /\ row' # NoRow
  BY SpecFields DEF Inv, PassOf, TypeOK, RowKept
<1>2. \A x \in Slot : x >= s + 1 => x # s
  BY SlotFacts
<1>3. due => \A x \in Slot : x >= s /\ inst[x] # NoRow => inst[x].passed
  BY <1>1 DEF Inv, Overtaken
<1>4. Gone' /\ Quiet'
  BY <1>1 DEF Inv, Gone, Quiet, RowKept
<1>5. Unmet' => Unmet
  <2> SUFFICES ASSUME Unmet' PROVE Unmet
    OBVIOUS
  <2>1. due /\ \A x \in Slot : inst'[x] # NoRow => inst'[x].passed
    BY DEF Unmet, RowKept
  <2>2. inst[s] # NoRow => inst[s].passed
    BY <1>3, <2>1, SlotFacts DEF Slot
  <2>3. \A x \in Slot : inst[x] # NoRow => inst[x].passed
    BY <2>1, <2>2
  <2>4. QED
    BY <1>1, <2>1, <2>3 DEF Unmet, Acting
<1>6. FailedRun' /\ ~FailedRun => Fails(inst'[s]) /\ ~Fails(inst[s])
  <2>1. inst'[0] # inst[0] => s = 0
    BY SlotFacts
  <2>2. pass' # NoPass => pass'.seen = pass.seen
    BY DEF Proceeds
  <2>3. Fails(inst[0]) => FailedRun
    BY DEF FailedRun
  <2>4. FailedRun' /\ ~FailedRun => Fails(inst'[0])
    BY <2>2, NoPassType DEF FailedRun, Proceeds
  <2>5. QED
    BY <2>1, <2>3, <2>4
<1>7. /\ One(requested' /\ ~requested) = 0 /\ One(Unmet' /\ ~Unmet) = 0
      /\ One(FailedRun' /\ ~FailedRun) <= One(Fails(inst'[s]) /\ ~Fails(inst[s]))
      /\ One(FailedRun' /\ ~FailedRun) \in 0..1
      /\ One(Fails(inst'[s]) /\ ~Fails(inst[s])) \in 0..1
      /\ credit' \in Int /\ credit \in Int
  BY <1>5, <1>6 DEF One, Inv, TypeOK
<1>8. Accounted'
  <2>1. credit' >= credit + One(requested' /\ ~requested) + One(Unmet' /\ ~Unmet)
                    + One(FailedRun' /\ ~FailedRun)
    BY <1>7
  <2>2. QED
    BY <1>1, <1>7, <2>1, AccountedMore
<1>9. CASE pass' = NoPass
  BY <1>4, <1>8, <1>9, PassOver DEF Inv
<1>10. CASE pass' # NoPass
  <2>1. /\ pass'.pc = "slot" /\ pass'.row = pass.row /\ pass'.seen = pass.seen
        /\ pass'.hash = pass.hash /\ pass'.index = s + 1
        /\ pass'.index < pass.row.spec.count
    BY <1>10 DEF Proceeds
  <2>2. PassOf' /\ Mirror'
    BY <1>1, <2>1 DEF PassOf, Mirror
  <2>3. Overtaken'
    BY <1>2, <1>3, <2>1, SlotFacts DEF Overtaken, RowKept, Slot
  <2>4. FoundSettled'
    <3> SUFFICES ASSUME ~pass'.replaced, NEW t \in Slot, t < pass.row.spec.count,
                        t \notin replacing', pass.seen[t] # NoRow, pass.seen[t].hash = pass.hash
                 PROVE  settled(pass.seen[t])
      BY <2>1 DEF FoundSettled
    <3>1. ~pass.replaced /\ t \notin replacing
      BY <1>10 DEF Steady
    <3>2. QED
      BY <3>1 DEF Inv, FoundSettled
  <2>5. NoneInFlight'
    <3> SUFFICES ASSUME ~pass'.replaced, NEW t \in Slot, pass.seen[t] # NoRow,
                        t \notin replacing', inst'[t] # NoRow, inst'[t].up,
                        inst'[t].hash = pass.hash
                 PROVE  inst'[t].age >= SettlePeriod /\ inst'[t].health # "starting"
      BY <2>1 DEF NoneInFlight
    <3>1. ~pass.replaced /\ t \notin replacing /\ (inst'[t] = inst[t] \/ Kept(inst[t], inst'[t]))
      BY <1>10 DEF Steady, Cut
    <3>2. /\ inst[t] # NoRow /\ inst[t].up /\ inst[t].hash = pass.hash
          /\ inst'[t].age = inst[t].age /\ inst'[t].health = inst[t].health
      BY <3>1 DEF Kept
    <3>3. QED
      BY <3>1, <3>2 DEF Inv, NoneInFlight
  <2>6. QED
    BY <1>4, <1>8, <2>2, <2>3, <2>4, <2>5 DEF Inv
<1>11. QED
  BY <1>9, <1>10

\* A workload that is not scheduled is credited with what its stops break.
LEMMA Uncredited ==
  ASSUME Inv, pass.pc = "slot", NEW b \in BOOLEAN
  PROVE  Credited(b) = credit + One(Broken)
<1>1. ~pass.row.spec.schedule /\ credit \in Int /\ One(Broken) \in 0..1
  BY DEF Inv, PassOf, TypeOK, One
<1>2. Credited(b) = credit + One(Broken) - 0
  BY <1>1 DEF Credited, Leftover, One
<1>3. QED
  BY <1>1, <1>2

LEMMA Going ==
  ASSUME Inv, pass.pc = "slot", pass' = Onward \/ pass' = NoPass
  PROVE  /\ Proceeds /\ pass' \in Progress
         /\ pass' # NoPass => pass'.replaced = pass.replaced
BY OnwardType, NoPassType DEF Inv, Proceeds

\* Nothing but what is remembered changes.
LEMMA Leaves ==
  ASSUME Inv, pass.pc = "slot", UNCHANGED <<row, port, due, target, image, inst, kept>>,
         files' \subseteq Nat, UNCHANGED <<requested, reclaimed, calls, credit>>,
         faults' \in 0..MaxFaults, out' \subseteq out, pass' = Onward \/ pass' = NoPass,
         started' \in [Slot -> Nat], held' \in [Slot -> -1..ReadinessWait],
         backoff' \in [Slot -> Waiting],
         \/ replacing' = replacing
         \/ replacing' = replacing \ {pass.index} /\ pass.seen[pass.index] = NoRow
  PROVE  Inv'
<1>1. /\ Proceeds /\ pass' \in Progress
      /\ pass' # NoPass => pass'.replaced = pass.replaced
      /\ pass.index \in Slot /\ row \in Row
  BY Going, PassFields DEF Inv, TypeOK, PassOf
<1>2. TypeOK'
  BY <1>1 DEF Inv, TypeOK
<1>3. RowKept
  BY <1>1 DEF RowKept, Inv, TypeOK
<1>4. Steady(pass.index)
  <2>1. \A i : Kept(i, i)
    BY DEF Kept
  <2>2. QED
    BY <1>1, <2>1 DEF Steady, Cut
<1>5. credit' >= credit + One(Fails(inst'[pass.index]) /\ ~Fails(inst[pass.index]))
  BY <1>1, Unbroken
<1>6. QED
  BY <1>1, <1>2, <1>3, <1>4, <1>5, SlotStep

LEMMA LeavesAlone ==
  ASSUME Inv, Defers \/ LeavesUp \/ LeavesRetired \/ Waits
  PROVE  Inv'
<1>1. /\ pass.pc = "slot" /\ pass' = Onward /\ UNCHANGED <<world, requested, started, reclaimed>>
      /\ UNCHANGED <<calls, faults, credit>>
      /\ out' \subseteq out
  BY DEF Defers, LeavesUp, LeavesRetired, Waits, InSlot, memory, history
<1>2. pass.index \in Slot /\ pass.row \in Row
  BY <1>1, PassFields DEF Inv, TypeOK, PassOf
<1>3. backoff' \in [Slot -> Waiting]
  <2>1. backoff' \in {backoff, Settle(pass.index)}
    BY DEF Defers, LeavesUp, LeavesRetired, Waits, This, memory
  <2>2. QED
    BY <1>2, <2>1, HoldType DEF Inv, TypeOK
<1>4. held' \in [Slot -> -1..ReadinessWait]
  <2>1. CASE Waits
    <3>1. held \in [Slot -> -1..ReadinessWait] /\ 0 \in -1..ReadinessWait
      BY SlotsAssumption DEF Inv, TypeOK
    <3>2. QED
      BY <1>2, <2>1, <3>1 DEF Waits, This
  <2>2. CASE Defers \/ LeavesUp \/ LeavesRetired
    BY <2>2 DEF Defers, LeavesUp, LeavesRetired, memory, Inv, TypeOK
  <2>3. QED
    BY <2>1, <2>2
<1>5. \/ replacing' = replacing
      \/ replacing' = replacing \ {pass.index} /\ pass.seen[pass.index] = NoRow
  BY DEF Defers, LeavesUp, LeavesRetired, Waits, This, Seen, memory
<1>6. files' \subseteq Nat /\ faults' \in 0..MaxFaults /\ started' \in [Slot -> Nat]
      /\ UNCHANGED <<row, port, due, target, image, inst, kept>>
  BY <1>1 DEF Inv, TypeOK, world
<1>7. QED
  BY <1>1, <1>3, <1>4, <1>5, <1>6, Leaves

\* A slot that was started, or whose start was put off or failed.
LEMMA StartedSlot ==
  ASSUME Inv, pass.pc = "slot", NEW s \in Slot, s = pass.index, NEW down \in SUBSET {s},
         AfterStart(s, down),
         Proceeds, pass' \in Progress, Steady(s), backoff' \in [Slot -> Waiting],
         UNCHANGED <<target, image, requested, reclaimed, calls>>, out' \subseteq Slot,
         replacing' \in {replacing, replacing \ {s}}
  PROVE  Inv'
<1>1. pass.row \in Row
  BY DEF Inv, PassOf
<1>2. TypeOK'
  BY DEF Inv, TypeOK, AfterStart, RowKept
<1>3. credit' = credit + One(Broken)
  <2>1. credit' = Credited(TRUE) \/ credit' = Credited(FALSE)
    BY DEF AfterStart
  <2>2. Credited(TRUE) = credit + One(Broken) /\ Credited(FALSE) = credit + One(Broken)
    BY Uncredited
  <2>3. QED
    BY <2>1, <2>2
<1>4. Fails(inst'[s]) /\ ~Fails(inst[s]) => Broken
  <2>1. inst'[s] = NoRow \/ Kept(inst[s], inst'[s]) \/ inst'[s] = Fresh(pass.row, s)
    BY DEF AfterStart
  <2>2. ~Fails(NoRow) /\ ~Fails(Fresh(pass.row, s))
    BY <1>1, FreshRuns DEF Fails, Inv
  <2>3. QED
    BY <2>1, <2>2, KeptFails DEF Inv
<1>5. RowKept /\ \A x \in Slot \ {s} : inst'[x] = inst[x]
  BY DEF AfterStart
<1>6. credit' >= credit + One(Fails(inst'[s]) /\ ~Fails(inst[s]))
  <2>1. /\ One(Fails(inst'[s]) /\ ~Fails(inst[s])) <= One(Broken) /\ One(Broken) \in 0..1
        /\ One(Fails(inst'[s]) /\ ~Fails(inst[s])) \in 0..1 /\ credit \in Int
    BY <1>4 DEF One, Inv, TypeOK
  <2>2. QED
    BY <1>3, <2>1
<1>7. QED
  BY <1>2, <1>5, <1>6, SlotStep

LEMMA AttemptsInv ==
  ASSUME Inv, Attempts
  PROVE  Inv'
<1> DEFINE s == pass.index
           given == IF Blocked(s) THEN [started EXCEPT ![s] = pass.row.version] ELSE started
           freed == IF pass.row.spec.ref /\ started[s] # pass.row.version
                      THEN [held EXCEPT ![s] = -1] ELSE held
<1>1. /\ pass.pc = "slot" /\ pass.seen[s] = NoRow /\ replacing' = replacing \ {s}
      /\ UNCHANGED <<target, image, requested, reclaimed, calls, out>>
  BY DEF Attempts, This, Seen, InSlot
<1>2. /\ s \in Slot /\ pass.row \in Row /\ pass.row.version \in Nat /\ row \in Row /\ row # NoRow
      /\ inst \in [Slot -> Instance \cup {NoRow}]
  BY <1>1, PassFields, SpecFields DEF Inv, TypeOK, PassOf
<1>3. given \in [Slot -> Nat] /\ freed \in [Slot -> -1..ReadinessWait]
  <2>1. /\ started \in [Slot -> Nat] /\ held \in [Slot -> -1..ReadinessWait]
        /\ -1 \in -1..ReadinessWait
    BY SlotsAssumption DEF Inv, TypeOK
  <2>2. QED
    BY <1>2, <2>1
<1>4. Hold(s) \in [Slot -> Waiting] /\ Settle(s) \in [Slot -> Waiting]
  BY <1>2, HoldType DEF Inv
<1>5. files \subseteq Nat /\ files \cup {pass.row.version} \subseteq Nat
      /\ faults \in 0..MaxFaults /\ backoff \in [Slot -> Waiting]
  BY <1>2 DEF Inv, TypeOK
<1> HIDE DEF given, freed
<1>6. CASE /\ pass' = Onward /\ started' = given /\ held' = freed
           /\ UNCHANGED <<row, port, due, inst, kept, files, backoff, faults, credit>>
  BY <1>1, <1>3, <1>5, <1>6, Leaves
<1>7. CASE StartsUp(s, {}) /\ backoff' = Settle(s) /\ pass' = Onward
  <2>1. AfterStart(s, {})
    BY <1>1, <1>2, <1>7, StartEffect DEF Inv
  <2>2. /\ Proceeds /\ pass' \in Progress
        /\ pass' # NoPass => pass'.replaced = pass.replaced
    BY <1>1, <1>7, Going
  <2>3. Steady(s)
    BY <1>1, <2>2 DEF Steady
  <2>4. out' \subseteq Slot
    BY <1>1 DEF Inv, TypeOK
  <2>5. QED
    BY <1>1, <1>2, <1>4, <1>7, <2>1, <2>2, <2>3, <2>4, StartedSlot
<1>8. CASE /\ files' = files \cup {pass.row.version}
           /\ backoff' = Settle(s) /\ pass' = Onward /\ started' = given /\ held' = freed
           /\ UNCHANGED <<row, port, due, inst, kept, faults, credit>>
  BY <1>1, <1>3, <1>4, <1>5, <1>8, Leaves
<1>9. CASE /\ \/ UNCHANGED <<row, port, due, files, faults>>
              \/ Fault /\ abandonPorts(s) /\ files' = files \cup {pass.row.version}
           /\ backoff' = Hold(s) /\ pass' = NoPass /\ started' = given /\ held' = freed
           /\ UNCHANGED <<inst, kept, credit>>
  <2>1. RowKept /\ port' \in [Slot -> Nat] /\ faults' \in 0..MaxFaults /\ files' \subseteq Nat
    <3>1. CASE UNCHANGED <<row, port, due, files, faults>>
      BY <1>2, <1>5, <3>1 DEF RowKept, Inv, TypeOK
    <3>2. CASE Fault /\ abandonPorts(s) /\ files' = files \cup {pass.row.version}
      BY <1>2, <1>5, <3>2, AbandonPorts, FaultType DEF Inv
    <3>3. QED
      BY <1>9, <3>1, <3>2
  <2>2. TypeOK'
    BY <1>1, <1>3, <1>4, <1>9, <2>1, NoPassType DEF Inv, TypeOK, RowKept
  <2>3. Proceeds /\ Steady(s)
    BY <1>9 DEF Proceeds, Steady
  <2>4. credit' >= credit + One(Fails(inst'[s]) /\ ~Fails(inst[s]))
    BY <1>2, <1>9, Unbroken
  <2>5. QED
    BY <1>1, <1>2, <1>9, <2>1, <2>2, <2>3, <2>4, SlotStep
<1>10. \/ /\ pass' = Onward /\ started' = given /\ held' = freed
          /\ UNCHANGED <<row, port, due, inst, kept, files, backoff, faults, credit>>
       \/ StartsUp(s, {}) /\ backoff' = Settle(s) /\ pass' = Onward
       \/ /\ files' = files \cup {pass.row.version}
          /\ backoff' = Settle(s) /\ pass' = Onward /\ started' = given /\ held' = freed
          /\ UNCHANGED <<row, port, due, inst, kept, faults, credit>>
       \/ /\ \/ UNCHANGED <<row, port, due, files, faults>>
             \/ Fault /\ abandonPorts(s) /\ files' = files \cup {pass.row.version}
          /\ backoff' = Hold(s) /\ pass' = NoPass /\ started' = given /\ held' = freed
          /\ UNCHANGED <<inst, kept, credit>>
  BY DEF Attempts, This, given, freed
<1>11. QED
  BY <1>6, <1>7, <1>8, <1>9, <1>10

LEMMA RestartsEndedInv ==
  ASSUME Inv, RestartsEnded
  PROVE  Inv'
<1> DEFINE s == pass.index
<1>1. /\ pass.pc = "slot" /\ pass.seen[s] # NoRow /\ ~staleSlot(s) /\ ~running(pass.seen[s])
      /\ Tries(s, failureOf(pass.seen[s]))
      /\ UNCHANGED <<target, image, replacing, requested, reclaimed, calls, out>>
  BY DEF RestartsEnded, This, Seen, InSlot
<1>2. /\ s \in Slot /\ pass.row \in Row /\ inst \in [Slot -> Instance \cup {NoRow}]
      /\ s < pass.row.spec.count /\ backoff \in [Slot -> Waiting] /\ out \subseteq Slot
      /\ files \subseteq Nat /\ faults \in 0..MaxFaults /\ started \in [Slot -> Nat]
      /\ held \in [Slot -> -1..ReadinessWait]
  BY <1>1, PassFields DEF Inv, TypeOK, PassOf
<1>3. [backoff EXCEPT ![s].gaveUp = TRUE] \in [Slot -> Waiting]
  <2>1. [backoff[s] EXCEPT !.gaveUp = TRUE] \in Waiting
    BY <1>2 DEF Waiting
  <2>2. QED
    BY <1>2, <2>1
<1>4. Hold(s) \in [Slot -> Waiting]
  BY <1>2, HoldType DEF Inv
<1>5. CASE /\ pass' = Onward \/ pass' = NoPass
           /\ UNCHANGED <<row, port, due, inst, kept, files, started, held, credit>>
           /\ backoff' \in {backoff, [backoff EXCEPT ![s].gaveUp = TRUE]}
           /\ faults' = faults \/ Fault
  <2>1. faults' \in 0..MaxFaults
    BY <1>2, <1>5, FaultType DEF Inv
  <2>2. QED
    BY <1>1, <1>2, <1>3, <1>5, <2>1, Leaves
<1>6. CASE /\ pass' = Onward \/ pass' = NoPass
           /\ StartsUp(s, {s}) \/ StartPulls({s}) \/ StartFails(s, {s})
           /\ backoff' = Hold(s)
  <2>1. AfterStart(s, {s})
    BY <1>1, <1>2, <1>6, StartEffect DEF Inv
  <2>2. /\ Proceeds /\ pass' \in Progress
        /\ pass' # NoPass => pass'.replaced = pass.replaced
    BY <1>1, <1>6, Going
  <2>3. Steady(s)
    <3> SUFFICES ASSUME pass' # NoPass, ~pass'.replaced, ~Cut(inst[s], inst'[s]),
                        inst'[s].hash = pass.hash
                 PROVE  FALSE
      BY <1>1, <2>2 DEF Steady
    <3>1. inst'[s] = Fresh(pass.row, s) /\ Resolves(pass.row)
      BY <1>2, <2>1 DEF AfterStart, Cut
    <3>2. pass.hash = slotHash(pass.row)
      BY <1>2, <3>1, FreshType DEF Inv
    <3>3. pass.seen[s].hash = slotHash(pass.row) /\ s \notin replacing
      BY <1>1, <3>1 DEF staleSlot
    <3>4. settled(pass.seen[s])
      BY <1>1, <1>2, <2>2, <3>2, <3>3 DEF Inv, FoundSettled
    <3>5. QED
      BY <1>1, <3>4 DEF settled, running
  <2>4. QED
    BY <1>1, <1>2, <1>4, <1>6, <2>1, <2>2, <2>3, StartedSlot
<1>7. \/ /\ pass' = Onward \/ pass' = NoPass
         /\ UNCHANGED <<row, port, due, inst, kept, files, started, held, credit>>
         /\ backoff' \in {backoff, [backoff EXCEPT ![s].gaveUp = TRUE]}
         /\ faults' = faults \/ Fault
      \/ /\ pass' = Onward \/ pass' = NoPass
         /\ StartsUp(s, {s}) \/ StartPulls({s}) \/ StartFails(s, {s})
         /\ backoff' = Hold(s)
  BY <1>1 DEF Tries
<1>8. QED
  BY <1>5, <1>6, <1>7

LEMMA ReplacesInv ==
  ASSUME Inv, Replaces
  PROVE  Inv'
<1> DEFINE s == pass.index
<1>1. /\ pass.pc = "slot" /\ replacing' = replacing \ {s}
      /\ UNCHANGED <<target, image, backoff, requested, reclaimed, calls>>
  BY DEF Replaces, This, Seen, InSlot
<1>2. /\ s \in Slot /\ pass.row \in Row /\ inst \in [Slot -> Instance \cup {NoRow}]
      /\ backoff \in [Slot -> Waiting] /\ out \subseteq Slot /\ row \in Row /\ due \in BOOLEAN
  BY <1>1, PassFields DEF Inv, TypeOK, PassOf
<1>3. CASE /\ Fault /\ pass' = NoPass /\ inst' = [inst EXCEPT ![s] = Unasked(inst[s])]
           /\ UNCHANGED <<row, port, due, kept, files, started, held, history>>
  <2>1. Unasked(inst[s]) \in Instance \cup {NoRow} /\ (Fails(Unasked(inst[s])) => Fails(inst[s]))
    BY <1>2, UnaskedType
  <2>2. /\ inst' \in [Slot -> Instance \cup {NoRow}] /\ inst'[s] = Unasked(inst[s])
        /\ \A x \in Slot \ {s} : inst'[x] = inst[x]
    BY <1>2, <1>3, <2>1
  <2>3. TypeOK'
    BY <1>1, <1>3, <2>2, FaultType, NoPassType DEF Inv, TypeOK, history
  <2>4. RowKept /\ Proceeds /\ Steady(s) /\ credit' = credit
    BY <1>2, <1>3 DEF RowKept, Proceeds, Steady, history
  <2>5. credit' >= credit + One(Fails(inst'[s]) /\ ~Fails(inst[s]))
    BY <1>2, <2>1, <2>2, <2>4, Unbroken
  <2>6. QED
    BY <1>1, <1>2, <2>2, <2>3, <2>4, <2>5, SlotStep
<1>4. CASE /\ StartsUp(s, {s}) \/ StartPulls({s}) \/ StartFails(s, {s})
           /\ \/ pass' = NoPass
              \/ Onward.pc = "slot" /\ pass' = [Onward EXCEPT !.replaced = TRUE]
           /\ out' \in {out, out \cup {s}}
  <2>1. AfterStart(s, {s})
    BY <1>1, <1>2, <1>4, StartEffect DEF Inv
  <2>2. Proceeds /\ pass' \in Progress /\ (pass' # NoPass => pass'.replaced)
    <3>1. CASE pass' = NoPass
      BY <3>1, NoPassType DEF Proceeds
    <3>2. CASE Onward.pc = "slot" /\ pass' = [Onward EXCEPT !.replaced = TRUE]
      <4> DEFINE p == Onward
      <4>1. /\ p \in Progress /\ p.row = pass.row /\ p.seen = pass.seen /\ p.hash = pass.hash
            /\ p.index = pass.index + 1 /\ p.index < pass.row.spec.count
        BY <1>1, <3>2, OnwardType, NoPassType DEF Inv
      <4>2. p.pc = "slot" /\ pass' = [p EXCEPT !.replaced = TRUE]
        BY <3>2
      <4> HIDE DEF p
      <4>3. /\ pass' \in Progress /\ pass'.pc = "slot" /\ pass'.row = p.row
            /\ pass'.seen = p.seen /\ pass'.hash = p.hash /\ pass'.index = p.index
            /\ pass'.replaced
        BY <4>1, <4>2 DEF Progress
      <4>4. QED
        BY <4>1, <4>3 DEF Proceeds
    <3>3. QED
      BY <1>4, <3>1, <3>2
  <2>3. Steady(s)
    BY <2>2 DEF Steady
  <2>4. QED
    BY <1>1, <1>2, <1>4, <2>1, <2>2, <2>3, StartedSlot
<1>5. \/ /\ Fault /\ pass' = NoPass /\ inst' = [inst EXCEPT ![s] = Unasked(inst[s])]
         /\ UNCHANGED <<row, port, due, kept, files, started, held, history>>
      \/ /\ StartsUp(s, {s}) \/ StartPulls({s}) \/ StartFails(s, {s})
         /\ \/ pass' = NoPass
            \/ Onward.pc = "slot" /\ pass' = [Onward EXCEPT !.replaced = TRUE]
         /\ out' \in {out, out \cup {s}}
  BY DEF Replaces, This
<1>6. QED
  BY <1>3, <1>4, <1>5

-----------------------------------------------------------------------------
(* A scheduled workload.                                                   *)

\* A pass of a scheduled workload that leaves what is there, but for a request it drops.
LEMMA RunsNothing ==
  ASSUME Inv, pass.pc = "whole", pass' = NoPass,
         UNCHANGED <<row, port, due, kept, files, started, held, credit>>,
         UNCHANGED <<target, image, replacing, reclaimed, calls, out>>,
         requested' \in BOOLEAN, requested' => requested, backoff' \in [Slot -> Waiting],
         faults' = faults \/ Fault,
         inst' = inst \/ inst' = [s \in Slot |-> Unasked(inst[s])]
  PROVE  Inv'
<1>1. /\ row # NoRow /\ ~pass.row.suspended /\ ~pass.row.deleted
      /\ \A s \in Slot : inst[s] \in Instance \cup {NoRow}
      /\ inst \in [Slot -> Instance \cup {NoRow}]
  BY DEF Inv, PassOf, TypeOK
<1>2. ASSUME NEW s \in Slot
      PROVE  /\ inst'[s] \in Instance \cup {NoRow} /\ Same(inst[s], inst'[s])
             /\ Fails(inst'[s]) => Fails(inst[s])
  <2>1. CASE inst' = inst
    BY <1>1, <2>1 DEF Same
  <2>2. CASE inst' = [x \in Slot |-> Unasked(inst[x])]
    <3>1. inst'[s] = Unasked(inst[s])
      BY <2>2
    <3>2. QED
      BY <1>1, <3>1, UnaskedType
  <2>3. QED
    BY <2>1, <2>2
<1>3. inst' \in [Slot -> Instance \cup {NoRow}]
  <2>1. CASE inst' = inst
    BY <1>1, <2>1
  <2>2. CASE inst' = [x \in Slot |-> Unasked(inst[x])]
    BY <1>1, <2>2, UnaskedType
  <2>3. QED
    BY <2>1, <2>2
<1>4. TypeOK'
  BY <1>3, FaultType, NoPassType DEF Inv, TypeOK
<1>5. Unmet' => Unmet
  <2>1. \A s \in Slot : inst[s] # NoRow => inst'[s] # NoRow /\ inst'[s].passed = inst[s].passed
    BY <1>2 DEF Same
  <2>2. QED
    BY <1>1, <2>1 DEF Unmet, Acting
<1>6. credit' >= credit + One(Fails(inst'[0]) /\ ~Fails(inst[0]))
  BY <1>2, Unbroken, SlotFacts
<1>7. QED
  BY <1>1, <1>4, <1>5, <1>6, Ends

\* A run has its reason: what is left of them is enough for what is left to be run for.
LEMMA RunFunded ==
  ASSUME Inv, pass.pc = "whole", pass.row.spec.schedule,
         requested \/ Unmet \/ FailedRun \/ Leftover
  PROVE  /\ Credited(TRUE) >= 0 /\ Credited(FALSE) >= 1
         /\ Credited(FALSE) >= credit + One(Broken)
<1>1. credit \in Int /\ credit >= Reasons /\ credit >= 0
  BY DEF Inv, TypeOK, Accounted, PassOf
<1>2. /\ One(requested) \in 0..1 /\ One(Unmet) \in 0..1 /\ One(FailedRun) \in 0..1
      /\ requested => One(requested) = 1
      /\ Unmet => One(Unmet) = 1
      /\ FailedRun => One(FailedRun) = 1
  BY DEF One
<1>3. requested \/ Unmet \/ FailedRun => Reasons >= 1
  <2>1. ASSUME NEW p \in 0..1, NEW q \in 0..1, NEW r \in 0..1, p = 1 \/ q = 1 \/ r = 1
        PROVE  p + q + r >= 1
    BY <2>1
  <2>2. QED
    BY <1>2, <2>1 DEF Reasons
<1>4. credit >= 1 \/ Leftover
  BY <1>1, <1>3, ReasonsType
<1> DEFINE k == IF Leftover /\ credit = 0 THEN 1 ELSE credit
           b == One(Broken)
           x == Credited(TRUE)
           y == Credited(FALSE)
<1>5. k \in Int /\ k >= 1 /\ k >= credit
  BY <1>1, <1>4
<1>6. b \in Int /\ b >= 0
  BY DEF One
<1>7. x = k + b - 1 /\ y = k + b - 0
  BY DEF Credited, One
<1> HIDE DEF k, b, x, y
<1>8. x >= 0 /\ y >= 1 /\ y >= credit + b
  BY <1>1, <1>5, <1>6, <1>7
<1>9. QED
  BY <1>8 DEF b, x, y

\* A start of a scheduled workload.
LEMMA RunStarts ==
  ASSUME Inv, pass.pc = "whole", pass.row.spec.schedule,
         requested \/ Unmet \/ FailedRun \/ Leftover, requested' = FALSE,
         NEW down \in SUBSET Slot, 0 \in down,
         StartsUp(0, down) \/ StartPulls(down) \/ StartFails(0, down),
         UNCHANGED <<target, image, replacing, reclaimed, calls, out>>,
         backoff' \in [Slot -> Waiting], pass' = NoPass
  PROVE  Inv'
<1>1. /\ AfterStart(0, down) /\ pass.row \in Row /\ row \in Row /\ row # NoRow
      /\ ~pass.row.suspended /\ ~pass.row.deleted
  BY StartEffect, SlotFacts DEF Inv, PassOf, TypeOK
<1>2. TypeOK'
  <2>1. requested' \in BOOLEAN
    OBVIOUS
  <2>2. QED
    BY <1>1, <2>1, NoPassType DEF Inv, TypeOK, AfterStart, RowKept
<1>3. PassOf' /\ Mirror' /\ Overtaken' /\ FoundSettled' /\ NoneInFlight'
  BY PassOver
<1>4. row' # NoRow /\ Gone' /\ Quiet'
  BY <1>1, SpecFields DEF AfterStart, RowKept, Inv, Gone, Quiet
<1>5. /\ Credited(TRUE) >= 0 /\ Credited(FALSE) >= 1
      /\ Credited(FALSE) >= credit + One(Broken)
  BY RunFunded
<1>6. One(requested') = 0
  BY DEF One
<1>7. CASE inst'[0] = NoRow /\ credit' = Credited(FALSE)
  <2>1. ~FailedRun'
    BY <1>7, NoPassType DEF FailedRun, Fails
  <2>2. One(FailedRun') = 0 /\ One(Unmet') \in 0..1
    BY <2>1 DEF One
  <2>3. credit' \in Int
    BY <1>1 DEF AfterStart
  <2>4. Reasons' \in 0..1
    BY <1>6, <2>2 DEF Reasons
  <2>5. Accounted'
    <3>1. credit' >= 1
      BY <1>5, <1>7
    <3>2. credit' >= 0 /\ credit' >= Reasons'
      BY <2>3, <2>4, <3>1
    <3>3. QED
      BY <3>2 DEF Accounted
  <2>6. QED
    BY <1>2, <1>3, <1>4, <2>5 DEF Inv
<1>8. CASE (\A x \in Slot : Kept(inst[x], inst'[x])) /\ credit' = Credited(FALSE)
  <2>1. FailedRun' /\ ~FailedRun => Broken
    <3>1. FailedRun' => Fails(inst'[0])
      BY NoPassType DEF FailedRun
    <3>2. Fails(inst'[0]) => Fails(inst[0]) \/ Broken
      BY <1>8, KeptFails, SlotFacts DEF Inv
    <3>3. QED
      BY <3>1, <3>2 DEF FailedRun
  <2>2. Unmet' => Unmet
    <3> SUFFICES ASSUME Unmet' PROVE Unmet
      OBVIOUS
    <3>1. due /\ \A x \in Slot : inst[x] # NoRow => inst[x].passed
      BY <1>1, <1>8 DEF Unmet, AfterStart, RowKept, Kept
    <3>2. QED
      BY <1>1, <3>1 DEF Unmet, Acting
  <2>3. /\ One(requested' /\ ~requested) = 0 /\ One(Unmet' /\ ~Unmet) = 0
        /\ One(FailedRun' /\ ~FailedRun) <= One(Broken)
        /\ One(FailedRun' /\ ~FailedRun) \in 0..1 /\ One(Broken) \in 0..1
    BY <2>1, <2>2 DEF One
  <2>4. credit' \in Int /\ credit \in Int
    BY <1>2 DEF Inv, TypeOK
  <2>5. credit' >= credit + One(requested' /\ ~requested) + One(Unmet' /\ ~Unmet)
                    + One(FailedRun' /\ ~FailedRun)
    <3>1. \A p, q, r, b \in 0..1 : p = 0 /\ q = 0 /\ r <= b
                                       /\ credit' >= credit + b
                                     => credit' >= credit + p + q + r
      BY <2>4
    <3>2. credit' >= credit + One(Broken)
      BY <1>5, <1>8
    <3>3. QED
      BY <2>3, <3>1, <3>2
  <2>6. Accounted'
    BY <1>1, <2>4, <2>5, AccountedMore
  <2>7. QED
    BY <1>2, <1>3, <1>4, <2>6 DEF Inv
<1>9. CASE inst'[0] = Fresh(pass.row, 0) /\ credit' = Credited(TRUE)
  <2>1. inst'[0] # NoRow /\ ~inst'[0].passed /\ ~Fails(inst'[0])
    BY <1>1, <1>9, FreshType, FreshRuns, SlotFacts DEF Inv
  <2>2. ~FailedRun' /\ ~Unmet'
    BY <2>1, NoPassType, SlotFacts DEF FailedRun, Unmet
  <2>3. Reasons' = 0
    <3>1. One(FailedRun') = 0 /\ One(Unmet') = 0
      BY <2>2 DEF One
    <3>2. QED
      BY <1>6, <3>1 DEF Reasons
  <2>4. Accounted'
    BY <1>5, <1>9, <2>3 DEF Accounted
  <2>5. QED
    BY <1>2, <1>3, <1>4, <2>4 DEF Inv
<1>10. QED
  BY <1>1, <1>7, <1>8, <1>9 DEF AfterStart

LEMMA RunsOnRequestInv ==
  ASSUME Inv, RunsOnRequest
  PROVE  Inv'
<1>1. /\ pass.pc = "whole" /\ pass.row.spec.schedule /\ requested /\ requested' = FALSE
      /\ UNCHANGED <<target, image, replacing, reclaimed, calls, out>>
  BY DEF RunsOnRequest, Scheduling
<1>2. backoff \in [Slot -> Waiting] /\ requested' \in BOOLEAN
  BY <1>1 DEF Inv, TypeOK
<1>3. CASE /\ StartsUp(0, Slot) \/ StartPulls(Slot) \/ StartFails(0, Slot)
           /\ backoff' = backoff /\ pass' = NoPass
  BY <1>1, <1>2, <1>3, RunStarts, SlotFacts
<1>4. CASE /\ Fault /\ pass' = NoPass
           /\ inst' = [s \in Slot |-> Unasked(inst[s])]
           /\ UNCHANGED <<row, port, due, kept, files, backoff, started, held, credit>>
  BY <1>1, <1>2, <1>4, RunsNothing
<1>5. QED
  BY <1>3, <1>4 DEF RunsOnRequest

LEMMA OccurrenceInv ==
  ASSUME Inv, Occurrence
  PROVE  Inv'
<1>1. /\ pass.pc = "whole" /\ pass.row.spec.schedule /\ ~requested /\ requested' = FALSE
      /\ UNCHANGED <<target, image, replacing, reclaimed, calls, out>> /\ Due(pass.seen)
  BY DEF Occurrence, Scheduling
<1>2. backoff \in [Slot -> Waiting] /\ requested' \in BOOLEAN
  BY <1>1 DEF Inv, TypeOK
<1>3. Hold(0) \in [Slot -> Waiting] /\ Settle(0) \in [Slot -> Waiting]
  BY <1>1, HoldType, SlotFacts DEF Inv, PassOf
<1>4. Unmet
  <2>1. \A s \in Slot : Same(inst[s], pass.seen[s])
    BY <1>1 DEF Inv, Mirror
  <2>2. due /\ \A s \in Slot : inst[s] # NoRow => inst[s].passed
    BY <1>1, <2>1 DEF Due, Same
  <2>3. QED
    BY <1>1, <2>2 DEF Unmet, Acting, Inv, PassOf
<1>5. CASE /\ StartsUp(0, Slot) \/ StartPulls(Slot) \/ StartFails(0, Slot)
           /\ backoff' \in {Settle(0), Hold(0)} /\ pass' = NoPass
  BY <1>1, <1>3, <1>4, <1>5, RunStarts, SlotFacts
<1>6. CASE /\ pass' = NoPass /\ (faults' = faults \/ Fault)
           /\ UNCHANGED <<row, port, due, inst, kept, files, backoff, started, held, credit>>
  BY <1>1, <1>2, <1>6, RunsNothing
<1>7. \/ /\ StartsUp(0, Slot) \/ StartPulls(Slot) \/ StartFails(0, Slot)
         /\ backoff' \in {Settle(0), Hold(0)} /\ pass' = NoPass
      \/ /\ pass' = NoPass /\ (faults' = faults \/ Fault)
         /\ UNCHANGED <<row, port, due, inst, kept, files, backoff, started, held, credit>>
  BY DEF Occurrence
<1>8. QED
  BY <1>5, <1>6, <1>7

LEMMA BetweenInv ==
  ASSUME Inv, Between
  PROVE  Inv'
<1>1. /\ pass.pc = "whole" /\ pass.row.spec.schedule /\ ~requested /\ requested' = FALSE
      /\ UNCHANGED <<target, image, replacing, reclaimed, calls, out>> /\ ~Due(pass.seen)
  BY DEF Between, Scheduling
<1>2. /\ backoff \in [Slot -> Waiting] /\ requested' \in BOOLEAN
      /\ inst \in [Slot -> Instance \cup {NoRow}] /\ pass.row \in Row /\ pass.index = 0
  BY <1>1 DEF Inv, TypeOK, PassOf
<1>3. Onward = NoPass
  <2>1. pass.row.spec.count = 1
    BY <1>1, <1>2, SpecFields
  <2>2. ~(pass.index + 1 < pass.row.spec.count)
    BY <1>2, <2>1
  <2>3. QED
    BY <2>2 DEF Onward
<1>4. Hold(0) \in [Slot -> Waiting]
  BY <1>2, HoldType, SlotFacts DEF Inv
<1>5. [backoff EXCEPT ![0].gaveUp = TRUE] \in [Slot -> Waiting]
  <2>1. [backoff[0] EXCEPT !.gaveUp = TRUE] \in Waiting
    BY <1>2, SlotFacts DEF Waiting
  <2>2. QED
    BY <1>2, <2>1, SlotFacts
<1>6. CASE /\ pass' = NoPass /\ (faults' = faults \/ Fault)
           /\ backoff' \in {backoff, [backoff EXCEPT ![0].gaveUp = TRUE]}
           /\ UNCHANGED <<row, port, due, inst, kept, files, started, held, credit>>
  BY <1>1, <1>2, <1>5, <1>6, RunsNothing
<1>7. CASE /\ StartsUp(0, {0}) \/ StartPulls({0}) \/ StartFails(0, {0})
           /\ backoff' = Hold(0) /\ pass' = NoPass
           /\ \E i \in AllSeen : State(i) = "failed"
  <2>1. PICK s \in Slot : pass.seen[s] # NoRow /\ State(pass.seen[s]) = "failed"
    BY <1>7 DEF AllSeen
  <2>2. FailedRun \/ Leftover
    <3>1. CASE s = 0
      BY <1>1, <2>1, <3>1 DEF FailedRun, Fails
    <3>2. CASE s # 0
      BY <1>1, <2>1, <3>2 DEF Leftover
    <3>3. QED
      BY <3>1, <3>2
  <2>3. QED
    BY <1>1, <1>2, <1>4, <1>7, <2>2, RunStarts, SlotFacts
<1>8. \/ /\ pass' = NoPass /\ (faults' = faults \/ Fault)
         /\ backoff' \in {backoff, [backoff EXCEPT ![0].gaveUp = TRUE]}
         /\ UNCHANGED <<row, port, due, inst, kept, files, started, held, credit>>
      \/ /\ StartsUp(0, {0}) \/ StartPulls({0}) \/ StartFails(0, {0})
         /\ backoff' = Hold(0) /\ pass' = NoPass
         /\ \E i \in AllSeen : State(i) = "failed"
  BY <1>3 DEF Between, Tries
<1>9. QED
  BY <1>6, <1>7, <1>8

-----------------------------------------------------------------------------
(* The invariant, and what follows from it.                                *)

LEMMA InitInv ==
  ASSUME Init
  PROVE  Inv
<1>1. PICK s \in Specs : row = Applied(s, 0)
  BY DEF Init
<1>2. /\ row \in Row /\ row # NoRow
  <2>1. row \in Row
    BY <1>1 DEF Applied, Row
  <2>2. QED
    BY <2>1, SpecFields
<1>3. /\ inst = [x \in Slot |-> NoRow] /\ backoff = [x \in Slot |-> NoBackoff] /\ pass = NoPass
      /\ requested = FALSE /\ due = FALSE /\ credit = 0
  BY DEF Init
<1>4. TypeOK
  <2>1. port \in [Slot -> Nat] /\ started \in [Slot -> Nat]
    BY DEF Init
  <2>2. held \in [Slot -> -1..ReadinessWait]
    <3>1. -1 \in -1..ReadinessWait
      BY SlotsAssumption
    <3>2. QED
      BY <3>1 DEF Init
  <2>3. target \in [addr : 0..2, ready : BOOLEAN]
    BY DEF Init
  <2>4. inst \in [Slot -> Instance \cup {NoRow}] /\ backoff \in [Slot -> Waiting]
    BY <1>3, NothingType
  <2>5. /\ image \subseteq Nat /\ kept \subseteq Slot /\ files \subseteq Nat
        /\ replacing \subseteq Slot /\ reclaimed \in Nat /\ calls \in 0..MaxCalls
        /\ faults \in 0..MaxFaults /\ out \subseteq Slot /\ credit \in Int
    BY SlotsAssumption DEF Init
  <2>6. due \in BOOLEAN /\ requested \in BOOLEAN
    BY <1>3
  <2>7. QED
    BY <1>2, <1>3, <2>1, <2>2, <2>3, <2>4, <2>5, <2>6, NoPassType DEF TypeOK
<1>5. PassOf /\ Mirror /\ Overtaken /\ FoundSettled /\ NoneInFlight
  BY <1>3, NoPassType DEF PassOf, Mirror, Overtaken, FoundSettled, NoneInFlight
<1>6. Gone /\ Quiet
  BY <1>2, <1>3 DEF Gone, Quiet
<1>7. Accounted
  <2>1. ~FailedRun /\ ~Unmet /\ ~requested
    BY <1>3, NothingType, NoPassType, SlotFacts DEF FailedRun, Fails, Unmet
  <2>2. One(requested) = 0 /\ One(Unmet) = 0 /\ One(FailedRun) = 0
    BY <2>1 DEF One
  <2>3. QED
    BY <1>3, <2>2 DEF Accounted, Reasons
<1>8. QED
  BY <1>4, <1>5, <1>6, <1>7 DEF Inv

LEMMA StutterInv ==
  ASSUME Inv, UNCHANGED vars
  PROVE  Inv'
<1>1. UNCHANGED <<row, port, target, image, inst, kept, files, due>>
      /\ UNCHANGED <<backoff, replacing, requested, started, held, reclaimed>>
      /\ UNCHANGED <<pass, calls, faults, out, credit>>
  BY DEF vars, world, memory, history
<1>2. TypeOK' /\ PassOf' /\ Mirror' /\ Gone' /\ Quiet' /\ Overtaken'
  BY <1>1 DEF Inv, TypeOK, PassOf, Mirror, Gone, Quiet, Overtaken
<1>3. FoundSettled' /\ NoneInFlight'
  BY <1>1 DEF Inv, FoundSettled, NoneInFlight
<1>4. Accounted'
  BY <1>1 DEF Inv, Accounted, Reasons, Unmet, Acting, FailedRun
<1>5. QED
  BY <1>2, <1>3, <1>4 DEF Inv

LEMMA NextInv ==
  ASSUME Inv, [Next]_vars
  PROVE  Inv'
<1>1. CASE Pass
  BY <1>1, ObserveInv, TeardownInv, SuspendedInv, ReclaimInv, HeadInv, LeavesAlone,
     ReplacesInv, AttemptsInv, RestartsEndedInv, RunsOnRequestInv, OccurrenceInv, BetweenInv
     DEF Pass
<1>2. CASE Next /\ ~Pass
  BY <1>2, DownFailsInv, ApplyInv, RestartInv, SuspendOrResumeInv, DeleteInv, ExitsInv,
     ChecksInv, TargetInv, PulledInv, OccursInv, TickInv DEF Next
<1>3. CASE UNCHANGED vars
  BY <1>3, StutterInv
<1>4. QED
  BY <1>1, <1>2, <1>3

\* A slot is taken down only by a replacement, and only while nothing is in flight.
LEMMA RollStep ==
  ASSUME Inv, [Next]_vars, NEW s \in out' \ out, NEW t \in Slot, pass.seen[t] # NoRow
  PROVE  ~InFlight(t)
<1>1. Replaces
  <2>1. out' # out /\ ~(out' \subseteq out)
    OBVIOUS
  <2>2. ~UNCHANGED vars
    BY <2>1 DEF vars, history
  <2>3. ~Observe /\ ~Teardown /\ ~Suspended /\ ~Reclaim /\ ~Head
    BY <2>1 DEF Observe, Teardown, Suspended, Reclaim, Head, history
  <2>4. ~Defers /\ ~LeavesUp /\ ~LeavesRetired /\ ~Waits /\ ~Attempts /\ ~RestartsEnded
    BY <2>1 DEF Defers, LeavesUp, LeavesRetired, Waits, Attempts, RestartsEnded, history
  <2>5. ~RunsOnRequest /\ ~Occurrence /\ ~Between /\ ~DownFails
    BY <2>1 DEF RunsOnRequest, Occurrence, Between, Scheduling, DownFails, history
  <2>6. ~Apply /\ ~Restart /\ ~SuspendOrResume /\ ~Delete /\ ~Exits /\ ~Passes /\ ~Sickens
    BY <2>1 DEF Apply, Restart, SuspendOrResume, Delete, Exits, Passes, Sickens, history
  <2>7. ~TargetReady /\ ~TargetMoves /\ ~Pulled /\ ~Occurs /\ ~Tick
    BY <2>1 DEF TargetReady, TargetMoves, Pulled, Occurs, Tick, history
  <2>8. QED
    BY <2>2, <2>3, <2>4, <2>5, <2>6, <2>7 DEF Next, Pass
<1>2. pass.pc = "slot" /\ ~pass.replaced
  BY <1>1 DEF Replaces, InSlot
<1>3. SUFFICES ASSUME InFlight(t) PROVE FALSE
  OBVIOUS
<1>4. /\ t \notin replacing /\ inst[t] # NoRow /\ inst[t].up /\ inst[t].hash = pass.hash
      /\ inst[t].age < SettlePeriod \/ inst[t].health = "starting"
  BY <1>3 DEF InFlight
<1>5. inst[t].age >= SettlePeriod /\ inst[t].health # "starting"
  BY <1>2, <1>4 DEF Inv, NoneInFlight
<1>6. inst[t].age \in 0..SettlePeriod
  BY <1>4, InstanceFields DEF Inv, TypeOK
<1>7. QED
  BY <1>4, <1>5, <1>6, SlotsAssumption

\* What reclaiming removes, no instance runs from: nothing observed has another version.
LEMMA ReclaimStep ==
  ASSUME Inv, [Next]_vars, pass.pc = "head", pass'.pc = "whole", NEW s \in Slot,
         inst[s] # NoRow, inst[s].version \in files
  PROVE  inst[s].version \in files'
<1>1. Same(inst[s], pass.seen[s])
  BY DEF Inv, Mirror
<1>2. pass.seen[s] # NoRow /\ inst[s].version = pass.seen[s].version
  BY <1>1 DEF Same
<1>3. Reclaim
  <2>1. pass' # pass /\ pass' # NoPass
    BY NoPassType
  <2>2. ~UNCHANGED vars /\ ~Observe /\ ~Teardown /\ ~Suspended /\ ~Head /\ ~DownFails
    BY <2>1 DEF vars, Observe, Teardown, Suspended, Head, DownFails
  <2>3. ~Defers /\ ~LeavesUp /\ ~LeavesRetired /\ ~Waits /\ ~Attempts /\ ~RestartsEnded
        /\ ~Replaces
    BY DEF Defers, LeavesUp, LeavesRetired, Waits, Attempts, RestartsEnded, Replaces, InSlot
  <2>4. ~RunsOnRequest /\ ~Occurrence /\ ~Between
    BY DEF RunsOnRequest, Occurrence, Between, Scheduling
  <2>5. ~Apply /\ ~Restart /\ ~SuspendOrResume /\ ~Delete /\ ~Exits /\ ~Passes /\ ~Sickens
    BY <2>1 DEF Apply, Restart, SuspendOrResume, Delete, Exits, Passes, Sickens
  <2>6. ~TargetReady /\ ~TargetMoves /\ ~Pulled
    BY <2>1 DEF TargetReady, TargetMoves, Pulled
  <2>7. pass \in Progress
    BY DEF Inv, TypeOK
  <2>8. ~Occurs
    BY <2>7 DEF Occurs, Progress
  <2>9. ~Tick
    BY <2>7 DEF Tick, Progress
  <2>10. QED
    BY <2>2, <2>3, <2>4, <2>5, <2>6, <2>8, <2>9 DEF Next, Pass
<1>4. files' = IF Reclaims THEN files \cap {pass.row.version} ELSE files
  BY <1>3 DEF Reclaim
<1>5. CASE Reclaims
  <2>1. pass.seen[s].version = pass.row.version
    BY <1>2, <1>5 DEF Reclaims
  <2>2. QED
    BY <1>2, <1>4, <1>5, <2>1
<1>6. QED
  BY <1>4, <1>5

\* What the passes keep for a workload, its instances and their waits stays what it is
\* said to be: no wait exceeds the ceiling, whatever the shift of the delay loses.
THEOREM SlotsTypeCorrect == Spec => []TypeOK
<1>1. Init => Inv
  BY InitInv
<1>2. Inv /\ [Next]_vars => Inv'
  BY NextInv
<1>3. Inv => TypeOK
  BY DEF Inv
<1>4. QED
  BY <1>1, <1>2, <1>3, PTL DEF Spec

\* convergeScheduled never runs a workload without a reason: the runs it makes are no more
\* than the occurrences that passed, the runs that failed and the operators' requests, and
\* the retries of what a counted specification left behind.
THEOREM RunsAccountedHolds == Spec => []RunsAccounted
<1>1. Init => Inv
  BY InitInv
<1>2. Inv /\ [Next]_vars => Inv'
  BY NextInv
<1>3. Inv => RunsAccounted
  BY DEF Inv, Accounted, RunsAccounted
<1>4. QED
  BY <1>1, <1>2, <1>3, PTL DEF Spec

\* The loop of convergeInstances over the slots never takes a second slot down beside one
\* in flight, for any count, any settle period and whatever happens between two slots.
THEOREM RollsOneByOneHolds == Spec => RollsOneByOne
<1> DEFINE A == \A s \in out' \ out, t \in Slot : pass.seen[t] # NoRow => ~InFlight(t)
<1>1. Init => Inv
  BY InitInv
<1>2. Inv /\ [Next]_vars => Inv'
  BY NextInv
<1>3. Inv /\ [Next]_vars => A
  BY RollStep
<1>4. RollsOneByOne <=> [][A]_vars
  BY DEF RollsOneByOne
<1> HIDE DEF A
<1>5. QED
  BY <1>1, <1>2, <1>3, <1>4, PTL DEF Spec

\* reclaimSuperseded never removes the values of a version an instance is up on, though it
\* acts on an observation that instances have moved on from.
THEOREM ReclaimKeepsReadersHolds == Spec => ReclaimKeepsReaders
<1> DEFINE A == (pass.pc = "head" /\ pass'.pc = "whole") =>
                  \A s \in Slot : (inst[s] # NoRow /\ inst[s].up /\ inst[s].version \in files) =>
                                    inst[s].version \in files'
<1>1. Init => Inv
  BY InitInv
<1>2. Inv /\ [Next]_vars => Inv'
  BY NextInv
<1>3. Inv /\ [Next]_vars => A
  BY ReclaimStep
<1>4. ReclaimKeepsReaders <=> [][A]_vars
  BY DEF ReclaimKeepsReaders
<1> HIDE DEF A
<1>5. QED
  BY <1>1, <1>2, <1>3, <1>4, PTL DEF Spec

=============================================================================

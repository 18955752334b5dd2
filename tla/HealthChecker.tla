---------------------------- MODULE HealthChecker ----------------------------
(***************************************************************************)
(* The health checker: the checks registered for the instances of the      *)
(* workloads, the one loop that starts the probes that are due, the probes *)
(* that answer on goroutines of their own, and the verdict each answer     *)
(* leaves.  Registering, dropping and answering all take the checker's     *)
(* lock, so each is one step, and they fall between any two steps of the   *)
(* loop.                                                                   *)
(*                                                                         *)
(* Time is counted in ticks.  A check keeps how long ago it was registered *)
(* and last answered, each held at the largest value anything compares it  *)
(* with, so time runs on without bound in a finite space.                  *)
(***************************************************************************)
EXTENDS Integers, FiniteSets

CONSTANTS
  Workloads, Instances,   \* what a check is registered for
  Checks(_),              \* the specifications the check of an instance may have
  Interval(_),            \* ticks between two probes of a check
  StartPeriod(_),         \* ticks of grace after registration
  Retries(_),             \* consecutive failures that condemn
  IdleWait,               \* the longest the loop sleeps: a second
  Ids,                    \* bound: as many probes of a subject run at once, replaced
                          \* ones that have yet to give up among them
  NoCheck

Subjects == Workloads \X Instances

Specs == UNION {Checks(k) : k \in Subjects}

Statuses == {"starting", "healthy", "unhealthy"}

\* probe is the identity of the probe in flight.  The code keeps it on once that has
\* answered, when nothing that runs carries it; it is 0 here.  outside is history:
\* the consecutive failures answered outside the grace, up to Retries.
Check == [spec : Specs, age : Nat, since : Nat, status : Statuses, failures : Nat,
          outside : Nat, phase : {"waiting", "probing"}, probe : Nat]

Probe == [key : Subjects, id : Ids, context : {"live", "cancelled"}]

ASSUME HealthAssumption ==
  /\ \A c \in Specs : /\ Interval(c) \in Nat \ {0} /\ StartPeriod(c) \in Nat
                      /\ Retries(c) \in Nat \ {0}
  /\ IdleWait \in Nat \ {0}
  /\ Ids \subseteq Nat \ {0}
  /\ NoCheck \notin Check

VARIABLES
  checks,    \* the check registered for each subject
  probes,    \* the probes running, each with whether its context was cancelled
  wake,      \* a signal to the loop is pending
  changed,   \* a signal that a verdict changed is pending
  loop,      \* what the loop is doing
  timer,     \* ticks until the loop's timer fires
  context,   \* the context Run was given: a probe's is derived from it
  pass,      \* whether a pass was woken by the signal and has yet to read the verdicts
  unseen     \* history: the subjects whose verdict changed since a pass last read it

vars == <<checks, probes, wake, changed, loop, timer, context, pass, unseen>>

Registered(k) == checks[k] # NoCheck

Probing(k) == Registered(k) /\ checks[k].phase = "probing"

\* A count held at the largest value it is compared with.
UpTo(n, most) == IF n < most THEN n ELSE most

Least(S) == CHOOSE n \in S : \A m \in S : n <= m

Init ==
  /\ checks = [k \in Subjects |-> NoCheck]
  /\ probes = {}
  /\ wake = 0 /\ changed = 0
  /\ loop = "reset" /\ timer = 0 /\ context = "live"
  /\ pass = "idle" /\ unseen = {}

-----------------------------------------------------------------------------
(* What the reconciler asks of the checker.                                *)

\* Stop the probes running for the subjects: what they answer is about work that
\* is gone, or a specification that was replaced.
Cancelled(keys) ==
  {IF p.key \in keys THEN [p EXCEPT !.context = "cancelled"] ELSE p : p \in probes}

\* A newly registered check was never answered, so it is due at once.
Fresh(c) ==
  [spec |-> c, age |-> 0, since |-> Interval(c), status |-> "starting", failures |-> 0,
   outside |-> 0, phase |-> "waiting", probe |-> 0]

\* Mutant of Set: the probe of the check it replaces runs on.
SetKeepsProbe(k, c) ==
  /\ Registered(k) => checks[k].spec # c
  /\ checks' = [checks EXCEPT ![k] = Fresh(c)]
  /\ wake' = 1
  /\ unseen' = unseen \ {k}
  /\ UNCHANGED <<probes, changed, loop, timer, context, pass>>

\* A check registered again with the same terms keeps its history.
Set(k, c) ==
  /\ Registered(k) => checks[k].spec # c
  /\ checks' = [checks EXCEPT ![k] = Fresh(c)]
  /\ probes' = Cancelled({k})
  /\ wake' = 1
  /\ unseen' = unseen \ {k}
  /\ UNCHANGED <<changed, loop, timer, context, pass>>

Drop(keys) ==
  /\ \E k \in keys : Registered(k)
  /\ checks' = [k \in Subjects |-> IF k \in keys THEN NoCheck ELSE checks[k]]
  /\ probes' = Cancelled(keys)
  /\ unseen' = unseen \ keys
  /\ UNCHANGED <<wake, changed, loop, timer, context, pass>>

Forget(w) == Drop({w} \X Instances)

ForgetInstance(w, i) == Drop({<<w, i>>})

\* The reconciler takes the signal, and the pass that follows reads the verdicts.
TakeChanged ==
  /\ changed = 1 /\ pass = "idle"
  /\ changed' = 0
  /\ pass' = "woken"
  /\ UNCHANGED <<checks, probes, wake, loop, timer, context, unseen>>

ReadResults ==
  /\ pass = "woken"
  /\ pass' = "idle"
  /\ unseen' = {}
  /\ UNCHANGED <<checks, probes, wake, changed, loop, timer, context>>

-----------------------------------------------------------------------------
(* The loop.                                                               *)

\* The checks that are ready to be probed.
Due == {k \in Subjects : /\ Registered(k) /\ checks[k].phase = "waiting"
                         /\ checks[k].since >= Interval(checks[k].spec)}

\* The code counts identities up.  An identity is only ever compared with those of
\* its subject's probes, and one that has answered is out of the comparison, so a few
\* a subject are enough.
FreshIds(k) == {id \in Ids : \A p \in probes : p.key = k => p.id # id}

FreshId(k) == CHOOSE id \in FreshIds(k) : TRUE

\* checkDue: start a probe for every check that is due.
CheckDue ==
  /\ \A k \in Due : FreshIds(k) # {}
  /\ checks' = [k \in Subjects |->
       IF k \in Due THEN [checks[k] EXCEPT !.phase = "probing", !.probe = FreshId(k)]
                    ELSE checks[k]]
  /\ probes' = probes \cup {[key |-> k, id |-> FreshId(k), context |-> context] : k \in Due}

\* The loop wakes on its timer, or because a check was registered.
LoopWakes ==
  /\ loop = "sleep"
  /\ \/ timer = 0 /\ UNCHANGED wake
     \/ wake = 1 /\ wake' = 0
  /\ CheckDue
  /\ loop' = "reset"
  /\ UNCHANGED <<changed, timer, context, pass, unseen>>

\* wait: how long until the soonest check is due, a probe in flight left out.
Wait ==
  Least({IdleWait} \cup {Interval(checks[k].spec) - checks[k].since :
           k \in {j \in Subjects : Registered(j) /\ checks[j].phase = "waiting"}})

LoopResets ==
  /\ loop = "reset"
  /\ timer' = Wait
  /\ loop' = "sleep"
  /\ UNCHANGED <<checks, probes, wake, changed, context, pass, unseen>>

\* The server shuts down: the context of every probe ends with Run's own.
Cancel ==
  /\ context = "live"
  /\ context' = "cancelled"
  /\ probes' = Cancelled(Subjects)
  /\ UNCHANGED <<checks, wake, changed, loop, timer, pass, unseen>>

\* Run returns once every probe has.
Return ==
  /\ loop = "sleep" /\ context = "cancelled"
  /\ probes = {}
  /\ loop' = "returned"
  /\ UNCHANGED <<checks, probes, wake, changed, timer, context, pass, unseen>>

-----------------------------------------------------------------------------
(* A probe answers.                                                        *)

Passed(c) ==
  [c EXCEPT !.phase = "waiting", !.probe = 0, !.since = 0, !.status = "healthy", !.failures = 0,
            !.outside = 0]

Warming(c) == c.status = "starting" /\ c.age < StartPeriod(c.spec)

\* Mutant of Failed: a failure leaves the check marked in flight.
FailedInFlight(c) == [c EXCEPT !.failures = UpTo(@ + 1, Retries(c.spec))]

\* A failure inside the grace condemns nothing, and counts towards the retries.
Failed(c) ==
  LET failures == UpTo(c.failures + 1, Retries(c.spec)) IN
  [c EXCEPT !.phase = "waiting", !.probe = 0, !.since = 0, !.failures = failures,
            !.outside = IF Warming(c) THEN @ ELSE UpTo(@ + 1, Retries(c.spec)),
            !.status = IF ~Warming(c) /\ failures >= Retries(c.spec)
                         THEN "unhealthy" ELSE @]

\* Mutant of Wanted: whatever is registered under the subject takes the answer.
WantedUnderName(p) == Registered(p.key)

\* The answer is still wanted: the check was neither dropped nor replaced, which its
\* probe's identity tells.
Wanted(p) == Registered(p.key) /\ checks[p.key].probe = p.id

\* Mutant of Record: only a failing verdict is signalled.
RecordSignalsFailure(p, answer) ==
  /\ p \in probes
  /\ probes' = probes \ {p}
  /\ IF Wanted(p)
       THEN /\ checks' = [checks EXCEPT ![p.key] =
                 IF answer = "passed" THEN Passed(@) ELSE Failed(@)]
            /\ IF checks'[p.key].status # checks[p.key].status
                 THEN /\ changed' = IF answer = "failed" THEN 1 ELSE changed
                      /\ unseen' = unseen \cup {p.key}
                 ELSE UNCHANGED <<changed, unseen>>
       ELSE UNCHANGED <<checks, changed, unseen>>
  /\ UNCHANGED <<wake, loop, timer, context, pass>>

\* record.  A cancelled probe fails, unless it had answered already.
Record(p, answer) ==
  /\ p \in probes
  /\ probes' = probes \ {p}
  /\ IF Wanted(p)
       THEN /\ checks' = [checks EXCEPT ![p.key] =
                 IF answer = "passed" THEN Passed(@) ELSE Failed(@)]
            /\ IF checks'[p.key].status # checks[p.key].status
                 THEN changed' = 1 /\ unseen' = unseen \cup {p.key}
                 ELSE UNCHANGED <<changed, unseen>>
       ELSE UNCHANGED <<checks, changed, unseen>>
  /\ UNCHANGED <<wake, loop, timer, context, pass>>

-----------------------------------------------------------------------------

Aged(c) ==
  [c EXCEPT !.age = UpTo(@ + 1, StartPeriod(c.spec)),
            !.since = IF c.phase = "probing" THEN @ ELSE UpTo(@ + 1, Interval(c.spec))]

\* Time passes.
Tick ==
  /\ checks' = [k \in Subjects |-> IF Registered(k) THEN Aged(checks[k]) ELSE NoCheck]
  /\ timer' = IF timer > 0 THEN timer - 1 ELSE 0
  /\ UNCHANGED <<probes, wake, changed, loop, context, pass, unseen>>

LoopStep == LoopWakes \/ LoopResets

Answers(k) == \E p \in probes, answer \in {"passed", "failed"} : p.key = k /\ Record(p, answer)

Next ==
  \/ \E k \in Subjects : \E c \in Checks(k) : Set(k, c)
  \/ \E w \in Workloads : Forget(w)
  \/ \E w \in Workloads, i \in Instances : ForgetInstance(w, i)
  \/ TakeChanged \/ ReadResults
  \/ LoopStep \/ Cancel \/ Return \/ Tick
  \/ \E k \in Subjects : Answers(k)

Spec == Init /\ [][Next]_vars

\* The loop and the clock run on, and every probe is bounded by its timeout.  Who
\* registers, drops or reads is under no obligation, and nothing has to stop.
FairSpec ==
  /\ Spec
  /\ WF_vars(LoopStep) /\ WF_vars(Tick)
  /\ \A k \in Subjects : WF_vars(Answers(k))

-----------------------------------------------------------------------------
(* Properties.                                                             *)

\* The type invariant: checks, probes, signals and the loop have their shapes.
TypeOK ==
  /\ checks \in [Subjects -> Check \cup {NoCheck}]
  /\ probes \in SUBSET Probe
  /\ wake \in {0, 1} /\ changed \in {0, 1}
  /\ loop \in {"reset", "sleep", "returned"} /\ timer \in Nat
  /\ context \in {"live", "cancelled"}
  /\ pass \in {"idle", "woken"}
  /\ unseen \in SUBSET Subjects

Awaited(k) == {p \in probes : p.key = k /\ p.id = checks[k].probe}

\* A check marked in flight has a probe running that will clear the mark, and a probe
\* that runs on uncancelled is the one its check waits for.  So no subject is left
\* ineligible for good, and none is probed twice at once, however registrations,
\* drops and answers fall around the loop.
ProbeOwnership ==
  /\ \A k \in Subjects : Probing(k) => Awaited(k) # {}
  /\ \A p \in probes : p.context = "live" =>
       Probing(p.key) /\ checks[p.key].probe = p.id
  /\ \A p, q \in probes : p.key = q.key /\ p.id = q.id => p = q

\* What a probe answers after its check was replaced or dropped changes no verdict,
\* count or schedule, the replacement's included.
StaleAnswerIgnored ==
  [][\A p \in probes \ probes' :
       context = "live" /\ p.context = "cancelled" => checks' = checks]_vars

\* A verdict a pass has not read is signalled, or is read by the pass under way: the
\* one-slot channel loses none, whichever answers arrive while a pass reads.
NoLostVerdict == unseen # {} => changed = 1 \/ pass = "woken"

\* An instance is condemned by as many failures in a row as its check allows, and
\* by at least one outside its grace.
CondemnedOnRetries ==
  \A k \in Subjects : Registered(k) /\ checks[k].status = "unhealthy" =>
    checks[k].failures >= Retries(checks[k].spec) /\ checks[k].outside > 0

\* A registered check is probed again and again, whatever its probes answer, until
\* it is dropped or the server stops.
KeepsProbing ==
  \A k \in Subjects :
    /\ []<>(~Registered(k) \/ Probing(k) \/ context = "cancelled")
    /\ []<>(~Registered(k) \/ ~Probing(k) \/ context = "cancelled")

-----------------------------------------------------------------------------
(* What the documentation and the comments claim, and the code does not do. *)

\* docs/manifest.md on startPeriod: "Failures inside it do not count."
GraceFailuresDoNotCount ==
  \A k \in Subjects : Registered(k) /\ checks[k].status = "unhealthy" =>
    checks[k].outside >= Retries(checks[k].spec)

\* Run's comment: "The loop wakes when the soonest check is next due".
WakesWhenDue ==
  loop = "sleep" /\ wake = 0 => timer <= Wait
==============================================================================

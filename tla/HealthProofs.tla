---------------------------- MODULE HealthProofs ----------------------------
(***************************************************************************)
(* Proofs about HealthChecker, for every set of instances, every check and *)
(* every bound on the probes running at once.                              *)
(***************************************************************************)
EXTENDS HealthChecker, WellFoundedInduction, TLAPS

\* A check is never past due in the model's clock, and one that waits awaits no probe.
Clocks ==
  \A k \in Subjects : Registered(k) =>
    /\ checks[k].since <= Interval(checks[k].spec)
    /\ checks[k].phase = "waiting" => checks[k].probe = 0

\* A cancelled probe of a server that is up is awaited by no check.
CancelledUnawaited ==
  \A p \in probes : context = "live" /\ p.context = "cancelled" /\ Registered(p.key) =>
    checks[p.key].probe # p.id

IInv ==
  /\ TypeOK
  /\ Clocks
  /\ ProbeOwnership
  /\ CancelledUnawaited

-----------------------------------------------------------------------------
(* Facts about the operators.                                              *)

\* Least yields a least element of any set of naturals that is not empty.
LEMMA LeastNat ==
  ASSUME NEW S, S \subseteq Nat, S # {}
  PROVE  Least(S) \in S /\ \A m \in S : Least(S) <= m
<1>1. \E x \in S : \A y \in S : ~(<<y, x>> \in OpToRel(<, Nat))
  BY NatLessThanWellFounded, WFMin
<1>2. PICK x \in S : \A y \in S : ~(<<y, x>> \in OpToRel(<, Nat))
  BY <1>1
<1>3. ASSUME NEW y \in S PROVE x <= y
  <2>1. ~(y < x)
    BY <1>2 DEF OpToRel
  <2> QED BY <2>1
<1> QED BY <1>3 DEF Least

\* The loop is given a time to sleep that is a natural number.
LEMMA WaitNat ==
  ASSUME TypeOK, Clocks
  PROVE  Wait \in Nat
<1> DEFINE Waiting == {j \in Subjects : Registered(j) /\ checks[j].phase = "waiting"}
           S == {IdleWait} \cup {Interval(checks[k].spec) - checks[k].since : k \in Waiting}
<1>1. ASSUME NEW k \in Waiting PROVE Interval(checks[k].spec) - checks[k].since \in Nat
  <2>1. checks[k] \in Check BY DEF TypeOK, Registered
  <2>2. Interval(checks[k].spec) \in Nat /\ checks[k].since \in Nat
    BY <2>1, HealthAssumption DEF Check
  <2> QED BY <2>2 DEF Clocks
<1>2. S \subseteq Nat BY <1>1, HealthAssumption
<1>3. S # {} OBVIOUS
<1>4. Least(S) \in Nat BY <1>2, <1>3, LeastNat
<1> QED BY <1>4 DEF Wait

\* Cancelling keeps every probe, its subject and its identity.
LEMMA CancelledProbes ==
  ASSUME TypeOK, NEW keys
  PROVE  /\ Cancelled(keys) \in SUBSET Probe
         /\ \A p \in Cancelled(keys) : \E q \in probes :
              /\ p.key = q.key /\ p.id = q.id
              /\ p.key \in keys => p = [q EXCEPT !.context = "cancelled"]
              /\ p.key \notin keys => p = q
         /\ \A q \in probes : \E p \in Cancelled(keys) : p.key = q.key /\ p.id = q.id
<1>1. ASSUME NEW p \in Cancelled(keys)
      PROVE  /\ p \in Probe
             /\ \E q \in probes :
                  /\ p.key = q.key /\ p.id = q.id
                  /\ p.key \in keys => p = [q EXCEPT !.context = "cancelled"]
                  /\ p.key \notin keys => p = q
  <2>1. PICK q \in probes : p = IF q.key \in keys THEN [q EXCEPT !.context = "cancelled"] ELSE q
    BY DEF Cancelled
  <2>2. q \in Probe BY DEF TypeOK
  <2> QED BY <2>1, <2>2 DEF Probe
<1>2. ASSUME NEW q \in probes
      PROVE  \E p \in Cancelled(keys) : p.key = q.key /\ p.id = q.id
  <2> DEFINE p == IF q.key \in keys THEN [q EXCEPT !.context = "cancelled"] ELSE q
  <2>1. p \in Cancelled(keys) BY DEF Cancelled
  <2>2. q \in Probe BY DEF TypeOK
  <2>3. p.key = q.key /\ p.id = q.id BY <2>2 DEF Probe
  <2> QED BY <2>1, <2>3
<1> QED BY <1>1, <1>2

\* A check that answers keeps its shape, waits again, and awaits no probe.
LEMMA AnsweredCheck ==
  ASSUME NEW c \in Check
  PROVE  /\ Passed(c) \in Check /\ Failed(c) \in Check
         /\ Passed(c).since = 0 /\ Passed(c).phase = "waiting" /\ Passed(c).probe = 0
         /\ Failed(c).since = 0 /\ Failed(c).phase = "waiting" /\ Failed(c).probe = 0
         /\ Passed(c).spec = c.spec /\ Failed(c).spec = c.spec
<1>1. Retries(c.spec) \in Nat BY HealthAssumption DEF Check
<1>2. UpTo(c.failures + 1, Retries(c.spec)) \in Nat /\ UpTo(c.outside + 1, Retries(c.spec)) \in Nat
  BY <1>1 DEF Check, UpTo
<1> QED BY <1>2 DEF Check, Passed, Failed, Statuses

-----------------------------------------------------------------------------
(* The inductive invariant.                                                *)

LEMMA InitIInv == Init => IInv
BY HealthAssumption DEF Init, IInv, TypeOK, Clocks, ProbeOwnership, CancelledUnawaited, Registered,
   Probing, Statuses

\* Whatever is registered, dropped or shut down cancels some probes, and leaves every
\* other subject's check alone.
LEMMA CancelPreserves ==
  ASSUME IInv, NEW keys \in SUBSET Subjects, TypeOK',
         probes' = Cancelled(keys),
         \A k \in Subjects : k \notin keys => checks'[k] = checks[k],
         \A k \in Subjects : k \in keys =>
           \/ checks'[k] = NoCheck
           \/ checks'[k] # NoCheck /\ checks'[k].phase = "waiting" /\ checks'[k].probe = 0
                /\ checks'[k].since <= Interval(checks'[k].spec)
           \/ checks'[k] = checks[k] /\ context' = "cancelled",
         context' = context \/ context' = "cancelled"
  PROVE  IInv'
<1> USE DEF IInv
<1>1. Clocks' BY DEF Clocks, Registered
<1>2. ASSUME NEW k \in Subjects, Probing(k)' PROVE Awaited(k)' # {}
  <2>1. checks'[k] = checks[k] BY <1>2 DEF Probing, Registered
  <2>2. PICK q \in probes : q.key = k /\ q.id = checks[k].probe
    BY <1>2, <2>1 DEF ProbeOwnership, Probing, Registered, Awaited
  <2>3. PICK p \in probes' : p.key = q.key /\ p.id = q.id
    BY CancelledProbes
  <2> QED BY <2>1, <2>2, <2>3 DEF Awaited
<1>3. ASSUME NEW p \in probes', p.context = "live"
      PROVE  Probing(p.key)' /\ checks'[p.key].probe = p.id
  <2>1. PICK q \in probes : /\ p.key = q.key /\ p.id = q.id
                            /\ p.key \in keys => p = [q EXCEPT !.context = "cancelled"]
                            /\ p.key \notin keys => p = q
    BY CancelledProbes
  <2>2. q \in Probe BY DEF TypeOK
  <2>3. p.key \notin keys BY <1>3, <2>1, <2>2 DEF Probe
  <2>4. p = q /\ checks'[p.key] = checks[p.key] BY <2>1, <2>2, <2>3 DEF Probe
  <2> QED BY <1>3, <2>4 DEF ProbeOwnership, Probing, Registered
<1>4. ASSUME NEW p \in probes', NEW r \in probes', p.key = r.key, p.id = r.id
      PROVE  p = r
  <2>1. PICK q \in probes : /\ p.key = q.key /\ p.id = q.id
                            /\ p.key \in keys => p = [q EXCEPT !.context = "cancelled"]
                            /\ p.key \notin keys => p = q
    BY CancelledProbes
  <2>2. PICK s \in probes : /\ r.key = s.key /\ r.id = s.id
                            /\ r.key \in keys => r = [s EXCEPT !.context = "cancelled"]
                            /\ r.key \notin keys => r = s
    BY CancelledProbes
  <2>3. q.key = s.key /\ q.id = s.id BY <1>4, <2>1, <2>2, Zenon
  <2>4. q = s BY <2>3 DEF ProbeOwnership
  <2> QED BY <1>4, <2>1, <2>2, <2>4, Zenon
<1>5. ASSUME NEW p \in probes', context' = "live", p.context = "cancelled", Registered(p.key)'
      PROVE  checks'[p.key].probe # p.id
  <2>1. PICK q \in probes : /\ p.key = q.key /\ p.id = q.id
                            /\ p.key \notin keys => p = q
    BY CancelledProbes
  <2>2. q \in Probe BY DEF TypeOK
  <2>3. p.id # 0 /\ p.key \in Subjects BY <2>1, <2>2, HealthAssumption DEF Probe
  <2>4. CASE p.key \in keys
    BY <1>5, <2>3, <2>4 DEF Registered
  <2>5. CASE p.key \notin keys
    <3>1. checks'[p.key] = checks[p.key] /\ p = q BY <2>1, <2>3, <2>5
    <3>2. context = "live" BY <1>5
    <3> QED BY <1>5, <3>1, <3>2 DEF CancelledUnawaited, Registered
  <2> QED BY <2>4, <2>5
<1> QED BY <1>1, <1>2, <1>3, <1>4, <1>5 DEF ProbeOwnership, CancelledUnawaited

\* Every step that the operators take keeps the shape of the state.
LEMMA TypeStep == IInv /\ [Next]_vars => TypeOK'
<1> SUFFICES ASSUME IInv, [Next]_vars PROVE TypeOK'
  OBVIOUS
<1> USE DEF IInv
<1>1. ASSUME NEW k \in Subjects, NEW c \in Checks(k), Set(k, c) PROVE TypeOK'
  <2>1. c \in Specs BY DEF Specs
  <2>2. Fresh(c) \in Check BY <2>1, HealthAssumption DEF Fresh, Check, Statuses
  <2>3. probes' \in SUBSET Probe BY <1>1, CancelledProbes DEF Set
  <2> QED BY <1>1, <2>2, <2>3 DEF Set, TypeOK
<1>2. ASSUME NEW keys \in SUBSET Subjects, Drop(keys) PROVE TypeOK'
  <2>1. probes' \in SUBSET Probe BY <1>2, CancelledProbes DEF Drop
  <2> QED BY <1>2, <2>1 DEF Drop, TypeOK
<1>3. CASE TakeChanged \/ ReadResults BY <1>3 DEF TakeChanged, ReadResults, TypeOK
<1>4. CASE LoopWakes
  <2>1. ASSUME NEW k \in Due PROVE FreshId(k) \in Ids /\ checks[k] \in Check
    <3>1. FreshIds(k) # {} BY <1>4 DEF LoopWakes, CheckDue
    <3> QED BY <3>1 DEF FreshId, FreshIds, Due, Registered, TypeOK
  <2>2. checks' \in [Subjects -> Check \cup {NoCheck}]
    <3>1. ASSUME NEW k \in Due
          PROVE [checks[k] EXCEPT !.phase = "probing", !.probe = FreshId(k)] \in Check
      BY <2>1, HealthAssumption DEF Check
    <3> QED BY <1>4, <3>1 DEF LoopWakes, CheckDue, TypeOK
  <2>3. probes' \in SUBSET Probe
    <3>1. ASSUME NEW k \in Due
          PROVE [key |-> k, id |-> FreshId(k), context |-> context] \in Probe
      BY <2>1 DEF Probe, Due, TypeOK
    <3> QED BY <1>4, <3>1 DEF LoopWakes, CheckDue, TypeOK
  <2> QED BY <1>4, <2>2, <2>3 DEF LoopWakes, TypeOK
<1>5. CASE LoopResets BY <1>5, WaitNat DEF LoopResets, TypeOK
<1>6. CASE Cancel
  <2>1. probes' \in SUBSET Probe BY <1>6, CancelledProbes DEF Cancel
  <2> QED BY <1>6, <2>1 DEF Cancel, TypeOK
<1>7. CASE Return BY <1>7 DEF Return, TypeOK
<1>8. CASE Tick
  <2>1. ASSUME NEW k \in Subjects, Registered(k) PROVE Aged(checks[k]) \in Check
    <3>1. checks[k] \in Check BY <2>1 DEF TypeOK, Registered
    <3>2. Interval(checks[k].spec) \in Nat /\ StartPeriod(checks[k].spec) \in Nat
      BY <3>1, HealthAssumption DEF Check
    <3>3. UpTo(checks[k].age + 1, StartPeriod(checks[k].spec)) \in Nat
          /\ UpTo(checks[k].since + 1, Interval(checks[k].spec)) \in Nat
      BY <3>1, <3>2 DEF UpTo, Check
    <3> QED BY <3>1, <3>3 DEF Aged, Check
  <2>2. checks' \in [Subjects -> Check \cup {NoCheck}] BY <1>8, <2>1 DEF Tick
  <2>3. timer' \in Nat BY <1>8 DEF Tick, TypeOK
  <2> QED BY <1>8, <2>2, <2>3 DEF Tick, TypeOK
<1>9. ASSUME NEW p \in probes, NEW answer \in {"passed", "failed"}, Record(p, answer)
      PROVE  TypeOK'
  <2>1. p.key \in Subjects BY DEF TypeOK, Probe
  <2>2. CASE Wanted(p)
    <3>1. checks[p.key] \in Check BY <2>1, <2>2 DEF Wanted, Registered, TypeOK
    <3>2. checks' \in [Subjects -> Check \cup {NoCheck}]
      BY <1>9, <2>2, <3>1, AnsweredCheck DEF Record, TypeOK
    <3>3. changed' \in {0, 1} /\ unseen' \in SUBSET Subjects
      BY <1>9, <2>1, <2>2 DEF Record, TypeOK
    <3> QED BY <1>9, <3>2, <3>3 DEF Record, TypeOK
  <2>3. CASE ~Wanted(p) BY <1>9, <2>3 DEF Record, TypeOK
  <2> QED BY <2>2, <2>3
<1>10. CASE UNCHANGED vars BY <1>10 DEF vars, TypeOK
<1>11. CASE \E w \in Workloads : Forget(w)
  <2>1. PICK w \in Workloads : Drop({w} \X Instances) BY <1>11 DEF Forget
  <2>2. {w} \X Instances \in SUBSET Subjects BY DEF Subjects
  <2> QED BY <1>2, <2>1, <2>2
<1>12. CASE \E w \in Workloads, i \in Instances : ForgetInstance(w, i)
  <2>1. PICK w \in Workloads, i \in Instances : Drop({<<w, i>>}) BY <1>12 DEF ForgetInstance
  <2>2. {<<w, i>>} \in SUBSET Subjects BY DEF Subjects
  <2> QED BY <1>2, <2>1, <2>2
<1> QED
  BY <1>1, <1>3, <1>4, <1>5, <1>6, <1>7, <1>8, <1>9, <1>10, <1>11, <1>12
  DEF Next, LoopStep, Answers

-----------------------------------------------------------------------------

\* The invariant is kept by every step.
LEMMA NextIInv == IInv /\ [Next]_vars => IInv'
<1> SUFFICES ASSUME IInv, [Next]_vars PROVE IInv'
  OBVIOUS
<1>0. TypeOK' BY TypeStep
<1> USE DEF IInv
<1>1. ASSUME NEW k \in Subjects, NEW c \in Checks(k), Set(k, c) PROVE IInv'
  <2>1. c \in Specs BY DEF Specs
  <2>2. /\ Fresh(c).phase = "waiting" /\ Fresh(c).probe = 0
        /\ Fresh(c).since = Interval(c) /\ Fresh(c).spec = c /\ Interval(c) \in Nat
    BY <2>1, HealthAssumption DEF Fresh
  <2>3. Fresh(c) # NoCheck
    BY <2>1, HealthAssumption DEF Fresh, Check, Statuses
  <2>4. checks'[k] = Fresh(c) /\ \A j \in Subjects : j \notin {k} => checks'[j] = checks[j]
    BY <1>1 DEF Set, TypeOK
  <2>5. probes' = Cancelled({k}) /\ context' = context BY <1>1 DEF Set
  <2>6. Fresh(c).since <= Interval(Fresh(c).spec) BY <2>2
  <2> HIDE DEF IInv
  <2> QED BY <1>0, <2>2, <2>3, <2>4, <2>5, <2>6, CancelPreserves
<1>2. ASSUME NEW keys \in SUBSET Subjects, Drop(keys) PROVE IInv'
  <2>1. \A k \in Subjects : checks'[k] = IF k \in keys THEN NoCheck ELSE checks[k]
    BY <1>2 DEF Drop
  <2>2. probes' = Cancelled(keys) /\ context' = context BY <1>2 DEF Drop
  <2> HIDE DEF IInv
  <2> QED BY <1>0, <2>1, <2>2, CancelPreserves
<1>3. CASE TakeChanged \/ ReadResults \/ LoopResets \/ Return \/ UNCHANGED vars
  <2>1. UNCHANGED <<checks, probes, context>>
    BY <1>3 DEF TakeChanged, ReadResults, LoopResets, Return, vars
  <2> QED BY <1>0, <2>1 DEF Clocks, ProbeOwnership, CancelledUnawaited, Registered, Probing, Awaited
<1>4. CASE LoopWakes
  <2> DEFINE started == {[key |-> k, id |-> FreshId(k), context |-> context] : k \in Due}
  <2>1. probes' = probes \cup started /\ context' = context
    BY <1>4 DEF LoopWakes, CheckDue
  <2>2. ASSUME NEW k \in Due
        PROVE  /\ k \in Subjects /\ FreshId(k) \in Ids
               /\ \A p \in probes : p.key = k => p.id # FreshId(k)
               /\ checks[k] # NoCheck /\ checks[k] \in Check
    <3>1. FreshIds(k) # {} BY <1>4 DEF LoopWakes, CheckDue
    <3>2. FreshId(k) \in FreshIds(k) BY <3>1 DEF FreshId
    <3> QED BY <3>2 DEF FreshIds, Due, Registered, TypeOK
  <2>3. ASSUME NEW k \in Due
        PROVE  /\ checks'[k] # NoCheck /\ checks'[k].phase = "probing"
               /\ checks'[k].probe = FreshId(k)
               /\ checks'[k].since = checks[k].since /\ checks'[k].spec = checks[k].spec
    <3>1. checks'[k] = [checks[k] EXCEPT !.phase = "probing", !.probe = FreshId(k)]
      BY <1>4, <2>2 DEF LoopWakes, CheckDue
    <3>2. checks'[k] \in Check BY <2>2, <3>1, HealthAssumption DEF Check
    <3> QED BY <2>2, <3>1, <3>2, HealthAssumption DEF Check
  <2>4. ASSUME NEW k \in Subjects \ Due PROVE checks'[k] = checks[k]
    BY <1>4 DEF LoopWakes, CheckDue
  <2>5. ASSUME NEW p \in started
        PROVE  /\ p.key \in Due /\ p.id = FreshId(p.key) /\ p.context = context
               /\ p = [key |-> p.key, id |-> FreshId(p.key), context |-> context]
    OBVIOUS
  <2>6. ASSUME NEW p \in probes PROVE p.key \in Subjects
    BY DEF TypeOK, Probe
  <2>7. Clocks' BY <2>2, <2>3, <2>4 DEF Clocks, Registered
  <2>8. ASSUME NEW k \in Subjects, Probing(k)' PROVE Awaited(k)' # {}
    <3>1. CASE k \in Due
      <4> DEFINE p == [key |-> k, id |-> FreshId(k), context |-> context]
      <4>1. p \in probes' BY <2>1, <3>1
      <4>2. p.key = k /\ p.id = checks'[k].probe BY <2>3, <3>1
      <4> QED BY <4>1, <4>2 DEF Awaited
    <3>2. CASE k \notin Due
      <4>1. checks'[k] = checks[k] BY <2>4, <3>2
      <4>2. Awaited(k) # {} BY <2>8, <4>1 DEF ProbeOwnership, Probing, Registered
      <4> QED BY <2>1, <4>1, <4>2 DEF Awaited
    <3> QED BY <3>1, <3>2
  <2>9. ASSUME NEW p \in probes', p.context = "live"
        PROVE  Probing(p.key)' /\ checks'[p.key].probe = p.id
    <3>1. CASE p \in started BY <2>3, <2>5, <3>1 DEF Probing, Registered
    <3>2. CASE p \in probes
      <4>1. Probing(p.key) /\ checks[p.key].probe = p.id BY <2>9, <3>2 DEF ProbeOwnership
      <4>2. p.key \notin Due BY <4>1 DEF Due, Probing
      <4> QED BY <2>4, <2>6, <3>2, <4>1, <4>2 DEF Probing, Registered
    <3> QED BY <2>1, <3>1, <3>2
  <2>10. ASSUME NEW p \in probes', NEW q \in probes', p.key = q.key, p.id = q.id PROVE p = q
    <3>1. CASE p \in probes /\ q \in probes BY <2>10, <3>1 DEF ProbeOwnership
    <3>2. CASE p \in started /\ q \in started BY <2>5, <2>10, <3>2
    <3>3. CASE p \in started /\ q \in probes BY <2>2, <2>5, <2>10, <3>3
    <3>4. CASE p \in probes /\ q \in started BY <2>2, <2>5, <2>10, <3>4
    <3> QED BY <2>1, <3>1, <3>2, <3>3, <3>4
  <2>11. ASSUME NEW p \in probes', context' = "live", p.context = "cancelled", Registered(p.key)'
         PROVE  checks'[p.key].probe # p.id
    <3>1. p \in probes BY <2>1, <2>5, <2>11
    <3>2. CASE p.key \in Due BY <2>2, <2>3, <3>1, <3>2
    <3>3. CASE p.key \notin Due
      BY <2>1, <2>4, <2>6, <2>11, <3>1, <3>3 DEF CancelledUnawaited, Registered
    <3> QED BY <3>2, <3>3
  <2> QED BY <1>0, <2>7, <2>8, <2>9, <2>10, <2>11 DEF ProbeOwnership, CancelledUnawaited
<1>5. CASE Cancel
  <2>1. probes' = Cancelled(Subjects) /\ checks' = checks /\ context' = "cancelled"
    BY <1>5 DEF Cancel
  <2> HIDE DEF IInv
  <2> QED BY <1>0, <2>1, CancelPreserves
<1>6. CASE Tick
  <2>1. probes' = probes /\ context' = context BY <1>6 DEF Tick
  <2>2. ASSUME NEW k \in Subjects
        PROVE  /\ checks[k] = NoCheck <=> checks'[k] = NoCheck
               /\ checks[k] # NoCheck =>
                    /\ checks'[k].phase = checks[k].phase /\ checks'[k].probe = checks[k].probe
                    /\ checks'[k].spec = checks[k].spec
                    /\ checks'[k].since <= Interval(checks[k].spec)
    <3>1. CASE checks[k] = NoCheck BY <1>6, <3>1 DEF Tick, Registered
    <3>2. CASE checks[k] # NoCheck
      <4>1. checks[k] \in Check BY <3>2 DEF TypeOK
      <4>2. /\ Interval(checks[k].spec) \in Nat /\ StartPeriod(checks[k].spec) \in Nat
            /\ checks[k].since \in Nat /\ checks[k].age \in Nat
        BY <4>1, HealthAssumption DEF Check
      <4>3. checks'[k] = Aged(checks[k]) BY <1>6, <3>2 DEF Tick, Registered
      <4>4. /\ Aged(checks[k]) \in Check
            /\ Aged(checks[k]).phase = checks[k].phase /\ Aged(checks[k]).probe = checks[k].probe
            /\ Aged(checks[k]).spec = checks[k].spec
            /\ \/ Aged(checks[k]).since = checks[k].since
               \/ Aged(checks[k]).since = UpTo(checks[k].since + 1, Interval(checks[k].spec))
        <5>1. UpTo(checks[k].age + 1, StartPeriod(checks[k].spec)) \in Nat
              /\ UpTo(checks[k].since + 1, Interval(checks[k].spec)) \in Nat
          BY <4>2 DEF UpTo
        <5> QED BY <4>1, <5>1 DEF Aged, Check
      <4>5. UpTo(checks[k].since + 1, Interval(checks[k].spec)) <= Interval(checks[k].spec)
        BY <4>2 DEF UpTo
      <4>6. checks[k].since <= Interval(checks[k].spec) BY <3>2 DEF Clocks, Registered
      <4> QED BY <3>2, <4>3, <4>4, <4>5, <4>6, HealthAssumption
    <3> QED BY <3>1, <3>2
  <2>3. ASSUME NEW p \in probes PROVE p.key \in Subjects
    BY DEF TypeOK, Probe
  <2>4. Clocks' BY <2>2 DEF Clocks, Registered
  <2>5. \A k \in Subjects : Probing(k)' => Awaited(k)' # {}
    BY <2>1, <2>2 DEF ProbeOwnership, Probing, Registered, Awaited
  <2>6. \A p \in probes' : p.context = "live" => Probing(p.key)' /\ checks'[p.key].probe = p.id
    BY <2>1, <2>2, <2>3 DEF ProbeOwnership, Probing, Registered
  <2>7. CancelledUnawaited'
    BY <2>1, <2>2, <2>3 DEF CancelledUnawaited, Registered
  <2> QED BY <1>0, <2>1, <2>4, <2>5, <2>6, <2>7 DEF ProbeOwnership
<1>7. ASSUME NEW p \in probes, NEW answer \in {"passed", "failed"}, Record(p, answer)
      PROVE  IInv'
  <2>1. probes' = probes \ {p} /\ context' = context BY <1>7 DEF Record
  <2>2. p.key \in Subjects /\ \A q \in probes : q.key \in Subjects BY DEF TypeOK, Probe
  <2>3. CASE ~Wanted(p)
    <3>1. checks' = checks BY <1>7, <2>3 DEF Record
    <3>2. ASSUME NEW k \in Subjects, Probing(k) PROVE Awaited(k)' # {}
      <4>1. PICK q \in Awaited(k) : TRUE BY <3>2 DEF ProbeOwnership
      <4>2. q # p BY <2>3, <3>2, <4>1 DEF Awaited, Wanted, Probing
      <4> QED BY <2>1, <3>1, <4>1, <4>2 DEF Awaited
    <3> QED
      BY <1>0, <2>1, <3>1, <3>2
      DEF Clocks, ProbeOwnership, CancelledUnawaited, Probing, Registered
  <2>4. CASE Wanted(p)
    <3>1. checks[p.key] \in Check /\ checks[p.key].probe = p.id
      BY <2>2, <2>4 DEF Wanted, Registered, TypeOK
    <3>2. checks'[p.key] = Passed(checks[p.key]) \/ checks'[p.key] = Failed(checks[p.key])
      BY <1>7, <2>2, <2>4 DEF Record, TypeOK
    <3>3. \A k \in Subjects \ {p.key} : checks'[k] = checks[k]
      BY <1>7, <2>4 DEF Record, TypeOK
    <3>4. /\ checks'[p.key] \in Check
          /\ checks'[p.key].since = 0 /\ checks'[p.key].phase = "waiting"
          /\ checks'[p.key].probe = 0
      BY <3>1, <3>2, AnsweredCheck
    <3>5. checks'[p.key].since <= Interval(checks'[p.key].spec)
      <4>1. Interval(checks'[p.key].spec) \in Nat BY <3>4, HealthAssumption DEF Check
      <4> QED BY <3>4, <4>1
    <3>6. Clocks' BY <3>3, <3>4, <3>5 DEF Clocks, Registered
    <3>7. ASSUME NEW k \in Subjects, Probing(k)' PROVE Awaited(k)' # {}
      <4>1. k # p.key BY <3>4, <3>7 DEF Probing
      <4>2. checks'[k] = checks[k] BY <3>3, <4>1
      <4>3. PICK q \in Awaited(k) : TRUE BY <3>7, <4>2 DEF ProbeOwnership, Probing, Registered
      <4>4. q # p BY <4>1, <4>3 DEF Awaited
      <4> QED BY <2>1, <4>2, <4>3, <4>4 DEF Awaited
    <3>8. ASSUME NEW q \in probes', q.context = "live"
          PROVE  Probing(q.key)' /\ checks'[q.key].probe = q.id
      <4>1. Probing(q.key) /\ checks[q.key].probe = q.id BY <2>1, <3>8 DEF ProbeOwnership
      <4>2. q.key # p.key BY <2>1, <3>1, <3>8, <4>1 DEF ProbeOwnership
      <4> QED BY <2>1, <2>2, <3>3, <3>8, <4>1, <4>2 DEF Probing, Registered
    <3>9. ASSUME NEW q \in probes', context' = "live", q.context = "cancelled", Registered(q.key)'
          PROVE  checks'[q.key].probe # q.id
      <4>1. CASE q.key = p.key
        <5>1. q.id # 0 BY <2>1, HealthAssumption DEF TypeOK, Probe
        <5> QED BY <3>4, <4>1, <5>1
      <4>2. CASE q.key # p.key
        BY <2>1, <2>2, <3>3, <3>9, <4>2 DEF CancelledUnawaited, Registered
      <4> QED BY <4>1, <4>2
    <3> QED BY <1>0, <2>1, <3>6, <3>7, <3>8, <3>9 DEF ProbeOwnership, CancelledUnawaited
  <2> QED BY <2>3, <2>4
<1>11. CASE \E w \in Workloads : Forget(w)
  <2>1. PICK w \in Workloads : Drop({w} \X Instances) BY <1>11 DEF Forget
  <2>2. {w} \X Instances \in SUBSET Subjects BY DEF Subjects
  <2> QED BY <1>2, <2>1, <2>2
<1>12. CASE \E w \in Workloads, i \in Instances : ForgetInstance(w, i)
  <2>1. PICK w \in Workloads, i \in Instances : Drop({<<w, i>>}) BY <1>12 DEF ForgetInstance
  <2>2. {<<w, i>>} \in SUBSET Subjects BY DEF Subjects
  <2> QED BY <1>2, <2>1, <2>2
<1> QED
  BY <1>1, <1>3, <1>4, <1>5, <1>6, <1>7, <1>11, <1>12
  DEF Next, LoopStep, Answers

-----------------------------------------------------------------------------
(* Theorems.                                                               *)

\* The inductive invariant holds of every state the checker reaches.
THEOREM Invariance == Spec => []IInv
<1>1. Init => IInv BY InitIInv
<1>2. IInv /\ [Next]_vars => IInv' BY NextIInv
<1> QED BY <1>1, <1>2, PTL DEF Spec

\* Checks, probes, signals and the loop keep their shapes, the loop's timer among
\* them: it is never set to less than no time.
THEOREM HealthTypeCorrect == Spec => []TypeOK
<1>1. IInv => TypeOK BY DEF IInv
<1> QED BY <1>1, Invariance, PTL

\* A check in flight has the probe it awaits running, and an uncancelled probe is the
\* one its check awaits, however Set, Forget and record fall around the loop.
THEOREM ProbeOwnershipHolds == Spec => []ProbeOwnership
<1>1. IInv => ProbeOwnership BY DEF IInv
<1> QED BY <1>1, Invariance, PTL

\* record discards what a cancelled probe answers: the identity it compares tells.
THEOREM StaleAnswerIgnoredHolds == Spec => StaleAnswerIgnored
<1> DEFINE Ignored == \A p \in probes \ probes' :
             context = "live" /\ p.context = "cancelled" => checks' = checks
<1>1. ASSUME IInv, [Next]_vars, NEW p \in probes \ probes', context = "live",
             p.context = "cancelled"
      PROVE  checks' = checks
  <2>1. p \in Probe BY <1>1 DEF IInv, TypeOK
  <2>2. ASSUME NEW keys, probes' = Cancelled(keys) PROVE FALSE
    <3>1. p = IF p.key \in keys THEN [p EXCEPT !.context = "cancelled"] ELSE p
      BY <1>1, <2>1 DEF Probe
    <3>2. p \in Cancelled(keys) BY <3>1 DEF Cancelled
    <3> QED BY <2>2, <3>2
  <2>3. CASE \E k \in Subjects : \E c \in Checks(k) : Set(k, c)
    BY <2>2, <2>3 DEF Set
  <2>5. CASE Cancel BY <2>2, <2>5 DEF Cancel
  <2>6. CASE LoopWakes BY <1>1, <2>6 DEF LoopWakes, CheckDue
  <2>7. CASE TakeChanged \/ ReadResults \/ LoopResets \/ Return \/ Tick \/ UNCHANGED vars
    BY <1>1, <2>7 DEF TakeChanged, ReadResults, LoopResets, Return, Tick, vars
  <2>8. CASE \E q \in probes, answer \in {"passed", "failed"} : Record(q, answer)
    <3>1. PICK q \in probes, answer \in {"passed", "failed"} : Record(q, answer) BY <2>8
    <3>2. q = p BY <1>1, <3>1 DEF Record
    <3>3. ~Wanted(p) BY <1>1 DEF IInv, CancelledUnawaited, Wanted
    <3> QED BY <3>1, <3>2, <3>3 DEF Record
  <2>9. CASE \E w \in Workloads : Forget(w) BY <2>2, <2>9 DEF Forget, Drop
  <2>10. CASE \E w \in Workloads, i \in Instances : ForgetInstance(w, i)
    BY <2>2, <2>10 DEF ForgetInstance, Drop
  <2> QED
    BY <1>1, <2>3, <2>5, <2>6, <2>7, <2>8, <2>9, <2>10 DEF Next, LoopStep, Answers
<1>2. IInv /\ [Next]_vars => [Ignored]_vars BY <1>1
<1> QED BY <1>2, Invariance, PTL DEF Spec, StaleAnswerIgnored

\* The one-slot channel of Changed loses no verdict: what no pass has read is
\* signalled, or a pass that has yet to read was woken for it.
THEOREM NoLostVerdictHolds == Spec => []NoLostVerdict
<1>1. Init => NoLostVerdict BY DEF Init, NoLostVerdict
<1>2. ASSUME NoLostVerdict, [Next]_vars PROVE NoLostVerdict'
  <2>1. ASSUME NEW keys, Drop(keys) PROVE NoLostVerdict'
    BY <1>2, <2>1 DEF Drop, NoLostVerdict
  <2>2. ASSUME NEW k, NEW c, Set(k, c) PROVE NoLostVerdict'
    BY <1>2, <2>2 DEF Set, NoLostVerdict
  <2>3. ASSUME NEW p, NEW answer, Record(p, answer) PROVE NoLostVerdict'
    BY <1>2, <2>3 DEF Record, NoLostVerdict
  <2>4. CASE TakeChanged \/ ReadResults \/ LoopStep \/ Cancel \/ Return \/ Tick \/ UNCHANGED vars
    BY <1>2, <2>4
    DEF TakeChanged, ReadResults, LoopStep, LoopWakes, LoopResets, Cancel, Return, Tick, vars,
        NoLostVerdict
  <2> QED BY <1>2, <2>1, <2>2, <2>3, <2>4 DEF Next, Answers, Forget, ForgetInstance
<1> QED BY <1>1, <1>2, PTL DEF Spec

CondemnedCheck(c) ==
  c.status = "unhealthy" => c.failures >= Retries(c.spec) /\ c.outside > 0

\* What an answer makes of a check keeps its verdict earned.
LEMMA AnswersEarned ==
  ASSUME NEW c \in Check, CondemnedCheck(c)
  PROVE  CondemnedCheck(Passed(c)) /\ CondemnedCheck(Failed(c))
<1>1. Retries(c.spec) \in Nat \ {0} /\ c.failures \in Nat /\ c.outside \in Nat
      /\ c.status \in Statuses
  BY HealthAssumption DEF Check
<1> DEFINE f == UpTo(c.failures + 1, Retries(c.spec))
           o == UpTo(c.outside + 1, Retries(c.spec))
<1>2. Passed(c).status = "healthy" BY DEF Passed, Check
<1>3. /\ Failed(c).spec = c.spec /\ Failed(c).failures = f
      /\ Failed(c).outside = IF Warming(c) THEN c.outside ELSE o
      /\ Failed(c).status = IF ~Warming(c) /\ f >= Retries(c.spec) THEN "unhealthy" ELSE c.status
  BY DEF Failed, Check
<1>4. o > 0 BY <1>1 DEF UpTo
<1>5. CASE c.status = "unhealthy"
  <2>1. ~Warming(c) BY <1>5 DEF Warming
  <2>2. f >= Retries(c.spec) BY <1>1, <1>5 DEF UpTo, CondemnedCheck
  <2> QED BY <1>2, <1>3, <1>4, <2>1, <2>2 DEF CondemnedCheck
<1>6. CASE c.status # "unhealthy"
  BY <1>2, <1>3, <1>4, <1>6 DEF CondemnedCheck
<1> QED BY <1>5, <1>6

\* record condemns an instance only on as many failures in a row as its check allows,
\* one of them at least outside the start period.
THEOREM CondemnedOnRetriesHolds == Spec => []CondemnedOnRetries
<1>1. Init => CondemnedOnRetries BY DEF Init, CondemnedOnRetries, Registered
<1>2. ASSUME TypeOK, CondemnedOnRetries, [Next]_vars PROVE CondemnedOnRetries'
  <2> SUFFICES ASSUME NEW k \in Subjects, checks'[k] # NoCheck
               PROVE  CondemnedCheck(checks'[k])
    BY DEF CondemnedOnRetries, CondemnedCheck, Registered
  <2>1. ASSUME checks[k] # NoCheck
        PROVE  CondemnedCheck(checks[k]) /\ checks[k] \in Check
    BY <1>2, <2>1 DEF CondemnedOnRetries, CondemnedCheck, Registered, TypeOK
  <2>2. CASE checks'[k] = checks[k] BY <2>1, <2>2
  <2>3. ASSUME NEW j \in Subjects, NEW c \in Checks(j), Set(j, c)
        PROVE  CondemnedCheck(checks'[k])
    <3>1. Fresh(c).status = "starting" BY DEF Fresh
    <3> QED BY <1>2, <2>2, <2>3, <3>1 DEF Set, TypeOK, CondemnedCheck
  <2>4. ASSUME NEW keys, Drop(keys) PROVE CondemnedCheck(checks'[k])
    BY <2>2, <2>4 DEF Drop
  <2>5. CASE TakeChanged \/ ReadResults \/ LoopResets \/ Cancel \/ Return \/ UNCHANGED vars
    BY <2>2, <2>5 DEF TakeChanged, ReadResults, LoopResets, Cancel, Return, vars
  <2>6. CASE LoopWakes
    <3>1. CASE k \in Due
      <4>1. checks'[k] = [checks[k] EXCEPT !.phase = "probing", !.probe = FreshId(k)]
        BY <2>6, <3>1 DEF LoopWakes, CheckDue
      <4>2. checks[k] # NoCheck BY <3>1 DEF Due, Registered
      <4>3. /\ checks'[k].status = checks[k].status /\ checks'[k].failures = checks[k].failures
            /\ checks'[k].outside = checks[k].outside /\ checks'[k].spec = checks[k].spec
        BY <2>1, <4>1, <4>2 DEF Check
      <4> QED BY <2>1, <4>2, <4>3 DEF CondemnedCheck
    <3>2. CASE k \notin Due BY <2>2, <2>6, <3>2 DEF LoopWakes, CheckDue
    <3> QED BY <3>1, <3>2
  <2>7. CASE Tick
    <3>1. checks[k] # NoCheck /\ checks'[k] = Aged(checks[k]) BY <2>7 DEF Tick, Registered
    <3>2. /\ checks'[k].status = checks[k].status /\ checks'[k].failures = checks[k].failures
          /\ checks'[k].outside = checks[k].outside /\ checks'[k].spec = checks[k].spec
      BY <2>1, <3>1 DEF Aged, Check
    <3> QED BY <2>1, <3>1, <3>2 DEF CondemnedCheck
  <2>8. ASSUME NEW p \in probes, NEW answer \in {"passed", "failed"}, Record(p, answer)
        PROVE  CondemnedCheck(checks'[k])
    <3>1. CASE Wanted(p) /\ p.key = k
      <4>1. checks[k] # NoCheck BY <3>1 DEF Wanted, Registered
      <4>2. checks'[k] = Passed(checks[k]) \/ checks'[k] = Failed(checks[k])
        BY <1>2, <2>8, <3>1 DEF Record, TypeOK
      <4> QED BY <2>1, <4>1, <4>2, AnswersEarned
    <3>2. CASE ~(Wanted(p) /\ p.key = k) BY <1>2, <2>2, <2>8, <3>2 DEF Record, TypeOK
    <3> QED BY <3>1, <3>2
  <2> QED
    BY <1>2, <2>3, <2>4, <2>5, <2>6, <2>7, <2>8
    DEF Next, LoopStep, Answers, Forget, ForgetInstance
<1> QED BY <1>1, <1>2, HealthTypeCorrect, PTL DEF Spec
=============================================================================

-------------------------------- MODULE Score --------------------------------
(***************************************************************************)
(* Scores: named sets of volumes, variables and workloads that an operator *)
(* applies, prunes and deletes as one, from a client that only has the     *)
(* server's ordinary calls.  Nothing spans the calls: the client checks    *)
(* what is there, applies in the order of the dependencies with each write *)
(* conditioned on the version it saw, and removes in the reverse order,    *)
(* waiting for every teardown.  There is no rollback; a call that stops    *)
(* half-way is run again.                                                  *)
(*                                                                         *)
(* Of the server the module has what those calls meet: rows with versions  *)
(* that start over when a name is made again, the references that refuse a *)
(* delete, and the gaps between a call's check and its write.              *)
(***************************************************************************)
EXTENDS Integers, FiniteSets, Sequences, SequencesExt

CONSTANTS
  Clients,        \* operators
  Installs,       \* names a score is installed as
  Releases,       \* releases of each, numbers
  Volumes, Variables, Workloads,
  Rank,           \* the order of the names of a kind
  Direct,         \* what a workload's specification names
  Expands,        \* the variables a workload mounts with expand
  Inside,         \* what a variable's value names
  Varies,         \* the variables whose value differs from release to release
  Rendered,       \* what each release of an install holds; nothing for none
  MaxCalls,       \* bound: score calls
  MaxFaults       \* bound: calls that fail or time out

Node == Volumes \cup Variables \cup Workloads

ASSUME ScoreAssumption ==
  /\ Rank \in [Node -> Nat] /\ Releases \subseteq Nat \ {0}
  /\ \A w \in Workloads : Direct[w] \subseteq Node /\ Expands[w] \subseteq Variables
  /\ \A v \in Variables : Inside[v] \subseteq Node
  /\ \A i \in Installs, r \in Releases : Rendered[i][r] \subseteq Node
  /\ MaxCalls \in Nat /\ MaxFaults \in Nat

VARIABLES
  held,       \* the rows
  dirs,       \* the volume directories, by the identifier of their row
  made,       \* rows ever made, which is where identifiers come from
  call,       \* per operator, the call in progress or how it ended
  calls, faults

vars == <<held, dirs, made, call, calls, faults>>

NoRow == [is |-> "none", owner |-> "", release |-> 0, version |-> 0, id |-> 0, reads |-> {}]
Absent == [version |-> 0, id |-> 0]
NoCall == [pc |-> "idle", task |-> "none", install |-> "", release |-> 0, adopt |-> FALSE,
           prune |-> FALSE, todo |-> <<>>, nodes |-> {}, seen |-> [n \in Node |-> Absent],
           id |-> 0, created |-> FALSE, reads |-> {}, moved |-> {}, clean |-> TRUE]

Init ==
  /\ held = [n \in Node |-> NoRow] /\ dirs = {} /\ made = 0
  /\ call = [c \in Clients |-> NoCall]
  /\ calls = 0 /\ faults = 0

Held(n) == held[n].is # "none"

Ended(pc) == pc \in {"idle", "done", "missing", "unowned", "refused", "held", "unseen",
                     "itself", "failed"}

-----------------------------------------------------------------------------
(* The plan.                                                               *)

KindOrder(n) == IF n \in Volumes THEN 0 ELSE IF n \in Variables THEN 1 ELSE 2

\* compareNodes: by kind, and then by name.
Before(m, n) ==
  KindOrder(m) < KindOrder(n) \/ (KindOrder(m) = KindOrder(n) /\ Rank[m] < Rank[n])

\* dependenciesOf: what the specification names, and what the variables it expands name as
\* far as their contents can be seen.
DependenciesOf(n, contents) ==
  IF n \notin Workloads THEN {}
  ELSE Direct[n] \cup Expands[n] \cup UNION {Inside[v] : v \in Expands[n] \cap contents}

\* Mutant of Available: the order of the kinds and names alone.
AvailableByName(nodes, contents, steps) == nodes \ Range(steps)

\* A node is available once everything it depends on and the set holds is behind it.
Available(nodes, contents, steps) ==
  {n \in nodes \ Range(steps) : DependenciesOf(n, contents) \cap nodes \subseteq Range(steps)}

\* The order of application: of what is available, the smallest next.
Plan(nodes, contents) ==
  LET after[k \in Nat] ==
        IF k = 0 THEN <<>>
        ELSE LET steps == after[k - 1]
                 open == Available(nodes, contents, steps)
             IN IF open = {} THEN steps
                ELSE Append(steps, CHOOSE n \in open : \A m \in open \ {n} : Before(n, m))
  IN after[Cardinality(nodes)]

\* What the workloads depend on and the score does not apply.
Requirements(nodes) ==
  UNION {DependenciesOf(n, Variables \cap nodes) : n \in nodes} \ nodes

-----------------------------------------------------------------------------
(* A client.                                                               *)

\* What the others write is a disturbance to the calls of a client.
Disturbed(c, new) ==
  [d \in Clients |-> IF d = c THEN new ELSE [call[d] EXCEPT !.clean = FALSE]]

\* Of a call that is over remain what it was and how it ended.
Over(k, how) == [NoCall EXCEPT !.pc = how, !.task = k.task, !.install = k.install,
                               !.release = k.release, !.clean = k.clean]

Stop(c, how) == call' = [call EXCEPT ![c] = Over(@, how)]

Next1(k) == [k EXCEPT !.todo = Tail(@), !.id = 0, !.created = FALSE, !.reads = {},
                      !.pc = IF k.task = "apply" THEN "step" ELSE "destroy"]

\* A score of that install is rendered, and the apply begun.
ApplyBegin(c, i, r, adopt, prune) ==
  /\ Ended(call[c].pc) /\ calls < MaxCalls /\ calls' = calls + 1
  /\ Rendered[i][r] # {}
  /\ call' = [call EXCEPT ![c] = [NoCall EXCEPT !.pc = "check", !.task = "apply",
       !.install = i, !.release = r, !.adopt = adopt, !.prune = prune]]
  /\ UNCHANGED <<held, dirs, made, faults>>

DeleteBegin(c, i) ==
  /\ Ended(call[c].pc) /\ calls < MaxCalls /\ calls' = calls + 1
  /\ call' = [call EXCEPT ![c] = [NoCall EXCEPT !.pc = "list", !.task = "delete", !.install = i]]
  /\ UNCHANGED <<held, dirs, made, faults>>

Missing(nodes) == {n \in Requirements(nodes) : ~Held(n)}

Unowned(nodes, i) == {n \in nodes : Held(n) /\ held[n].owner # i}

\* check: nothing is applied while a requirement is missing or a resource is another's.
Check(c) ==
  LET k == call[c]
      nodes == Rendered[k.install][k.release]
  IN /\ k.pc = "check"
     /\ IF Missing(nodes) # {} THEN Stop(c, "missing")
        ELSE IF Unowned(nodes, k.install) # {} /\ ~k.adopt THEN Stop(c, "unowned")
        ELSE call' = [call EXCEPT ![c] = [@ EXCEPT !.pc = "step", !.nodes = nodes,
               !.todo = Plan(nodes, Variables \cap nodes), 
               !.seen = [n \in Node |-> IF n \in nodes THEN [version |-> held[n].version, id |-> held[n].id]
                                        ELSE Absent],
               !.clean = @ /\ \A n \in Node : held[n].is # "deleting"]]
     /\ UNCHANGED <<held, dirs, made, calls, faults>>

\* The version a write is conditioned on: none for what was absent at the check.
Tag(c, n) == call[c].seen[n].version

\* Mutant of Refuses: a write is not conditioned.
RefusesNever(n, tag) == held[n].is = "deleting"

\* Upsert refuses a row on its way out, and one that is not at the version named.
Refuses(n, tag) == held[n].is = "deleting" \/ (tag # 0 /\ held[n].version # tag)

\* What a write leaves: a new row at version one, or the next version of the one there is
\* when it changes anything.
Written(n, k, reads) ==
  IF ~Held(n) THEN [is |-> "held", owner |-> k.install, release |-> k.release, version |-> 1,
                    id |-> made + 1, reads |-> reads]
  ELSE IF <<held[n].owner, held[n].release, held[n].reads>> = <<k.install, k.release, reads>>
       THEN held[n]
  ELSE [held[n] EXCEPT !.owner = k.install, !.release = k.release, !.version = @ + 1,
                       !.reads = reads]

Made(n) == made' = IF Held(n) THEN made ELSE made + 1

\* The server's refusal of a write; the client's own earlier steps may be the reason.
Refused(c, n) == Stop(c, IF n \in call[c].moved THEN "itself" ELSE "refused")

At(c, pc, kind) == call[c].pc = pc /\ call[c].todo # <<>> /\ Head(call[c].todo) \in kind

\* A volume's row is written, and then its directory.
ApplyVolume(c) ==
  LET k == call[c]
      n == Head(k.todo)
  IN /\ At(c, "step", Volumes)
     /\ IF Refuses(n, Tag(c, n)) THEN Refused(c, n) /\ UNCHANGED <<held, made>>
        ELSE /\ held' = [held EXCEPT ![n] = Written(n, k, {})] /\ Made(n)
             /\ call' = Disturbed(c, [k EXCEPT !.pc = "materialise", !.id = held'[n].id,
                                                !.created = ~Held(n)])
     /\ UNCHANGED <<dirs, calls, faults>>

Materialise(c) ==
  LET k == call[c] IN
  /\ k.pc = "materialise"
  /\ dirs' = dirs \cup {k.id}
  /\ call' = [call EXCEPT ![c] = Next1(k)]
  /\ UNCHANGED <<held, made, calls, faults>>

\* A directory that cannot be made takes the row of a volume that is new with it.
MaterialiseFails(c) ==
  LET k == call[c]
      n == Head(k.todo)
  IN /\ k.pc = "materialise" /\ faults < MaxFaults /\ faults' = faults + 1
     /\ IF k.created
        THEN /\ dirs' = dirs \ {k.id} /\ held' = [held EXCEPT ![n] = NoRow]
             /\ call' = Disturbed(c, Over(k, "failed"))
        ELSE Stop(c, "failed") /\ UNCHANGED <<held, dirs>>
     /\ UNCHANGED <<made, calls>>

\* Whether the value of a variable is another than the one that is stored.
Moves(n, k) == n \in Varies /\ held[n].release \notin {0, k.release}

Readers(n) == {w \in Workloads : Held(w) /\ n \in held[w].reads}

\* A variable whose value moved has the workloads that read it rehashed, which moves their
\* versions.
SetVariable(c) ==
  LET k == call[c]
      n == Head(k.todo)
      rehashed == {w \in Readers(n) : Moves(n, k) /\ held[w].is = "held"}
  IN /\ At(c, "step", Variables)
     /\ IF Refuses(n, Tag(c, n)) THEN Refused(c, n) /\ UNCHANGED <<held, made>>
        ELSE /\ held' = [m \in Node |-> IF m = n THEN Written(n, k, {})
                           ELSE IF m \in rehashed THEN [held[m] EXCEPT !.version = @ + 1]
                           ELSE held[m]]
             /\ Made(n)
             /\ call' = Disturbed(c, [Next1(k) EXCEPT !.moved = @ \cup rehashed])
     /\ UNCHANGED <<dirs, calls, faults>>

\* An apply of a workload resolves what it names, refusing what nothing holds, with the
\* contents of every variable in sight.
Resolve(c) ==
  LET k == call[c]
      reads == DependenciesOf(Head(k.todo), Variables)
  IN /\ At(c, "step", Workloads)
     /\ IF \E n \in reads : ~Held(n) THEN Stop(c, "refused")
        ELSE call' = [call EXCEPT ![c] = [@ EXCEPT !.pc = "store", !.reads = reads]]
     /\ UNCHANGED <<held, dirs, made, calls, faults>>

Store(c) ==
  LET k == call[c]
      n == Head(k.todo)
  IN /\ k.pc = "store"
     /\ IF Refuses(n, Tag(c, n)) THEN Refused(c, n) /\ UNCHANGED <<held, made>>
        ELSE /\ held' = [held EXCEPT ![n] = Written(n, k, k.reads)] /\ Made(n)
             /\ call' = Disturbed(c, Next1(k))
     /\ UNCHANGED <<dirs, calls, faults>>

\* Past the last step an apply ends, or goes on to prune.
Applied(c) ==
  /\ call[c].pc = "step" /\ call[c].todo = <<>>
  /\ IF call[c].prune THEN call' = [call EXCEPT ![c].pc = "list"] ELSE Stop(c, "done")
  /\ UNCHANGED <<held, dirs, made, calls, faults>>

\* Installed lists what carries the label; Prunable keeps what the score no longer names.
Labelled(i) == {n \in Node : Held(n) /\ held[n].owner = i}

\* Mutant of Prunable: what an earlier release left is overlooked.
PrunableStale(k) == {n \in Labelled(k.install) : held[n].release = k.release /\ n \notin k.nodes}

Prunable(k) == Labelled(k.install) \ k.nodes

List(c) ==
  /\ call[c].pc = "list"
  /\ call' = [call EXCEPT ![c] = [@ EXCEPT !.pc = "order", !.task = IF @ = "apply" THEN "prune" ELSE @,
       !.seen = NoCall.seen, !.reads = {}, !.moved = {}, !.id = 0, !.adopt = FALSE,
       !.nodes = Prunable(call[c]),
       !.clean = @ /\ \A n \in Node : held[n].is # "deleting"]]
  /\ UNCHANGED <<held, dirs, made, calls, faults>>

\* order reads the workloads again and sees the contents of no variable.
Order(c) ==
  LET k == call[c] IN
  /\ k.pc = "order"
  /\ IF \E w \in k.nodes \cap Workloads : ~Held(w) THEN Stop(c, "refused")
     ELSE call' = [call EXCEPT ![c] = [@ EXCEPT !.pc = "destroy",
            !.todo = Reverse(Plan(k.nodes, {}))]]
  /\ UNCHANGED <<held, dirs, made, calls, faults>>

\* The server's refusal of a delete: for a reader that is not to go, for one that reads the
\* node inside a variable only, or for one that should have gone before.
InUse(c, n) ==
  Stop(c, IF ~(Readers(n) \subseteq call[c].nodes) THEN "held"
          ELSE IF \A w \in Readers(n) : n \notin DependenciesOf(w, {}) THEN "unseen"
          ELSE "refused")

\* MarkDeleting reads the references and marks the row in one transaction.
DeleteWorkload(c) ==
  LET k == call[c]
      n == Head(k.todo)
  IN /\ At(c, "destroy", Workloads)
     /\ IF ~Held(n) THEN Stop(c, "refused") /\ UNCHANGED held
        ELSE IF Readers(n) \ {n} # {} THEN InUse(c, n) /\ UNCHANGED held
        ELSE /\ held' = [held EXCEPT ![n].is = "deleting"]
             /\ call' = Disturbed(c, [k EXCEPT !.pc = "gone"])
     /\ UNCHANGED <<dirs, made, calls, faults>>

\* waitForTeardown polls until nothing holds the name.
Gone(n) == ~Held(n)

WaitForTeardown(c) ==
  /\ call[c].pc = "gone" /\ Gone(Head(call[c].todo))
  /\ call' = [call EXCEPT ![c] = Next1(@)]
  /\ UNCHANGED <<held, dirs, made, calls, faults>>

\* The reconciler tears a marked workload down and removes its row.
TearDown(n) ==
  /\ held[n].is = "deleting"
  /\ held' = [held EXCEPT ![n] = NoRow]
  /\ UNCHANGED <<dirs, made, call, calls, faults>>

\* The deletes of a volume and a variable look for readers first, and write afterwards.
CheckUse(c) ==
  LET k == call[c]
      n == Head(k.todo)
  IN /\ At(c, "destroy", Volumes \cup Variables)
     /\ IF ~Held(n) THEN Stop(c, "refused")
        ELSE IF Readers(n) # {} THEN InUse(c, n)
        ELSE call' = [call EXCEPT ![c] = [@ EXCEPT !.id = held[n].id,
               !.pc = IF n \in Volumes THEN "rmdir" ELSE "remove"]]
     /\ UNCHANGED <<held, dirs, made, calls, faults>>

\* The directory goes first, under the identifier read before.
RemoveDirectory(c) ==
  /\ call[c].pc = "rmdir"
  /\ dirs' = dirs \ {call[c].id}
  /\ call' = Disturbed(c, [call[c] EXCEPT !.pc = "remove"])
  /\ UNCHANGED <<held, made, calls, faults>>

\* The row goes by its name, whichever row that is by now.
RemoveRow(c) ==
  LET k == call[c]
      n == Head(k.todo)
  IN /\ k.pc = "remove"
     /\ IF ~Held(n) THEN Stop(c, "refused") /\ UNCHANGED held
        ELSE /\ held' = [held EXCEPT ![n] = NoRow]
             /\ call' = Disturbed(c, Next1(k))
     /\ UNCHANGED <<dirs, made, calls, faults>>

Destroyed(c) ==
  /\ call[c].pc = "destroy" /\ call[c].todo = <<>>
  /\ Stop(c, "done")
  /\ UNCHANGED <<held, dirs, made, calls, faults>>

\* A call fails, or the time runs out: the client stops where it is.
Fails(c) ==
  /\ ~Ended(call[c].pc) /\ call[c].pc # "materialise"
  /\ faults < MaxFaults /\ faults' = faults + 1
  /\ Stop(c, "failed")
  /\ UNCHANGED <<held, dirs, made, calls>>

Step(c) ==
  \/ Check(c) \/ ApplyVolume(c) \/ Materialise(c) \/ SetVariable(c) \/ Resolve(c) \/ Store(c)
  \/ Applied(c) \/ List(c) \/ Order(c) \/ DeleteWorkload(c) \/ WaitForTeardown(c)
  \/ CheckUse(c) \/ RemoveDirectory(c) \/ RemoveRow(c) \/ Destroyed(c)

Next ==
  \/ \E c \in Clients :
       \/ \E i \in Installs, r \in Releases, adopt, prune \in BOOLEAN :
            ApplyBegin(c, i, r, adopt, prune)
       \/ \E i \in Installs : DeleteBegin(c, i)
       \/ Step(c) \/ MaterialiseFails(c) \/ Fails(c)
  \/ \E n \in Workloads : TearDown(n)

Spec == Init /\ [][Next]_vars

-----------------------------------------------------------------------------
(* Properties.                                                             *)

TypeOK ==
  /\ held \in [Node -> [is : {"none", "held", "deleting"}, owner : Installs \cup {""},
                        release : Releases \cup {0}, version : Nat, id : Nat,
                        reads : SUBSET Node]]
  /\ dirs \subseteq 1..made /\ {made, calls, faults} \subseteq Nat
  /\ \A c \in Clients : call[c].nodes \subseteq Node /\ call[c].moved \subseteq Workloads

\* A call that no other operator disturbed is not refused by the server: everything a step
\* needs was applied before it, everything that would refuse a delete went before it, and
\* no row is at another version than the check saw.  Three refusals are known: a reader the
\* call does not remove, one whose reference no plan of a delete sees, and a workload the
\* call itself moved by setting a variable it reads.
RefusalsHaveCause == \A c \in Clients : call[c].pc = "refused" => ~call[c].clean

\* An apply with pruning that no one disturbed leaves the install as it was rendered, all
\* of it at one release, whatever a call that stopped half-way had left before.
ApplyMakesWhole ==
  \A c \in Clients :
    LET k == call[c] IN
    (k.pc = "done" /\ k.task = "prune" /\ k.clean) =>
      LET nodes == Rendered[k.install][k.release] IN
      /\ Labelled(k.install) = nodes
      /\ \A n \in nodes : held[n].release = k.release /\ held[n].is = "held"
      /\ \A n \in nodes \cap Volumes : held[n].id \in dirs

\* A resource that carries another's label is only written over by an apply that adopts, or
\* that found nothing under the name at its check; what was made anew since is taken for
\* what was checked.
NoTakeover ==
  [][\A n \in Node, c \in Clients :
       (/\ call[c].pc \in {"step", "store"} /\ ~call[c].adopt
        /\ Held(n) /\ held[n].owner # held'[n].owner /\ held'[n].owner = call[c].install
        /\ call'[c] # call[c])
       => call[c].seen[n].version = 0 \/ call[c].seen[n].id # held[n].id]_vars

\* The help of the delete: "workloads with each before the workloads it references", and
\* "Running the command again carries on from there."
DeleteInOrder == \A c \in Clients : call[c].task = "delete" => call[c].pc # "unseen"

=============================================================================

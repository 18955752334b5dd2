------------------------------- MODULE Desired -------------------------------
(***************************************************************************)
(* The desired state and the calls that change it.  An apply, a rehash, a  *)
(* reallocation reads the row, its ports, what the specification refers to *)
(* and the registry, one statement at a time, and then writes the row with *)
(* its ports in one transaction; others act in between.  What a secret, a  *)
(* variable or another workload's address contributes to a hash is kept    *)
(* current by rehashing its readers, after the change has landed.          *)
(*                                                                         *)
(* A hash is the record of what it covers.  The links from a workload to   *)
(* what it reads are replaced in the transaction that writes the           *)
(* specification they are scanned from, so they are read off it here.      *)
(* Expanded mounts, labels and volumes are left out.                       *)
(***************************************************************************)
EXTENDS Ports

CONSTANTS
  Names,          \* workload names
  Manifests,      \* the specifications that may be applied, as [name, spec] records
  Secrets,        \* secrets, which contribute a revision to a hash
  Variables,      \* variables, which contribute their value
  Values,         \* what either may be set to
  Offset,         \* what each reader's name hashes to
  Clients,        \* calls in flight at once
  NoRow,          \* no workload of that name is stored
  Attempts,       \* how often an apply settles its ports before it gives up
  MaxCalls,       \* bound: calls made
  MaxFaults,      \* bound: reads and writes that fail
  MaxTag          \* bound: how often the registry's tag moves

Things == Secrets \cup Variables

Reference == [name : Names, port : Nat]

\* A specification.  An image that is never pulled is not asked after, as a missing one.
Specification ==
  [count : Nat \ {0}, ports : SUBSET Mapping, reads : SUBSET Things,
   refs : SUBSET Reference, refreshed : SUBSET Things,
   pull : {"always", "follow", "missing"}]

\* What a hash covers: the specification, what each thing it reads contributes, where
\* each workload it refers to was found, and the image's digest.
Inputs ==
  [things : SUBSET (Things \X (Nat \cup Values \cup {NoRow})),
   addresses : SUBSET (Reference \X Nat), digest : Nat]

Row ==
  [id : Nat, version : Nat, spec : Specification,
   hash : [spec : Specification, inputs : Inputs],
   deleted : BOOLEAN, suspended : BOOLEAN]

ASSUME DesiredAssumption ==
  /\ Attempts \in Nat \ {0} /\ MaxCalls \in Nat /\ MaxFaults \in Nat /\ MaxTag \in Nat
  /\ NoRow \notin Row /\ NoRow \notin Specification
  /\ Secrets \cap Variables = {} /\ Offset \in [Names -> Nat]
  /\ \A m \in Manifests :
       /\ m.name \in Names /\ m.spec \in Specification
       /\ IsFiniteSet(m.spec.ports) /\ OneEach(m.spec.ports)

VARIABLES
  workload,     \* the workload table, by name
  port,         \* the port table: a workload's identifier and a claim
  ids,          \* identifiers handed out, to rows and to revisions of secrets
  thing,        \* secrets and variables: version (zero when absent), value, revision
  tag,          \* what the registry resolves the tag to
  call,         \* what each client's call is doing
  calls, faults,
  torn,         \* history: names last written from reads that no longer held
  behind        \* history: names whose rehash failed or was never owed

tables == <<workload, port, ids, thing>>
history == <<torn, behind>>
vars == <<workload, port, ids, thing, tag, call, calls, faults, torn, behind>>

NoInputs == [things |-> {}, addresses |-> {}, digest |-> 0]

\* A client with no call in flight.
Idle == [op |-> "idle", pc |-> "idle", name |-> NoRow, spec |-> NoRow, ifMatch |-> 0,
         seen |-> NoRow, row |-> NoRow, held |-> {}, inputs |-> NoInputs, claims |-> {},
         tries |-> 0, todo |-> {}, listed |-> {}, thing |-> NoRow, value |-> NoRow,
         force |-> FALSE, instance |-> 0]

Init ==
  /\ workload = [n \in Names |-> NoRow] /\ port = {} /\ ids = 0
  /\ thing = [t \in Things |-> [version |-> 0, value |-> NoRow, revision |-> 0]]
  /\ tag = 0
  /\ call = [c \in Clients |-> Idle]
  /\ calls = 0 /\ faults = 0
  /\ torn = {} /\ behind = {}

-----------------------------------------------------------------------------
(* The repositories: what one statement or transaction reads and writes.   *)

Exists(n) == workload[n] # NoRow

\* PortRepository.List.
List(id) == {p.claim : p \in {q \in port : q.workload = id}}

\* PortRepository.Allocated.
Allocated == {p.claim : p \in port}

\* PortRepository.HolderOf: the ports held by workloads other than the named one.
HeldElsewhere(n) ==
  {p.claim : p \in {q \in port : Exists(n) => q.workload # workload[n].id}}

\* UsedBy, and ReferencedBy, which leaves out the workload itself.
UsedBy(t) == {n \in Names : Exists(n) /\ t \in workload[n].spec.reads}

ReferencedBy(a) ==
  {n \in Names \ {a} : Exists(n) /\ \E r \in workload[n].spec.refs : r.name = a}

\* The unique index on a host port and its protocol, once the workload's own rows are
\* cleared.
Collides(id, claims) ==
  \E c \in claims :
    \/ \E p \in port : p.workload # id /\ HostPorts({p.claim}) = HostPorts({c})
    \/ \E d \in claims \ {c} : HostPorts({d}) = HostPorts({c})

\* Replaces a workload's allocation.
claim(id, claims) ==
  {p \in port : p.workload # id} \cup {[workload |-> id, claim |-> c] : c \in claims}

\* Mutant of UpsertRefusal: the mark is left to the caller's earlier read.
UpsertRefusalUnmarked(n, ifMatch, claims) ==
  IF ~Exists(n)
    THEN IF ifMatch # 0 THEN "missing"
         ELSE IF Collides(ids + 1, claims) THEN "taken" ELSE "none"
    ELSE IF ifMatch # 0 /\ workload[n].version # ifMatch THEN "changed"
    ELSE IF Collides(workload[n].id, claims) THEN "taken" ELSE "none"

\* Mutant of UpsertRefusal: a port that is taken is claimed all the same.
UpsertRefusalShared(n, ifMatch, claims) ==
  IF ~Exists(n)
    THEN IF ifMatch # 0 THEN "missing" ELSE "none"
    ELSE IF workload[n].deleted THEN "deleting"
    ELSE IF ifMatch # 0 /\ workload[n].version # ifMatch THEN "changed"
    ELSE "none"

\* Why the transaction of an Upsert is rolled back, if it is.
UpsertRefusal(n, ifMatch, claims) ==
  IF ~Exists(n)
    THEN IF ifMatch # 0 THEN "missing"
         ELSE IF Collides(ids + 1, claims) THEN "taken" ELSE "none"
    ELSE IF workload[n].deleted THEN "deleting"
    ELSE IF ifMatch # 0 /\ workload[n].version # ifMatch THEN "changed"
    ELSE IF Collides(workload[n].id, claims) THEN "taken" ELSE "none"

\* Mutant of Updated: the version is left where it is.
UpdatedInPlace(old, spec, hash) ==
  IF old.hash = hash THEN old ELSE [old EXCEPT !.spec = spec, !.hash = hash]

\* The row an existing one becomes: left alone when the hash is the one it has.
Updated(old, spec, hash) ==
  IF old.hash = hash
    THEN old
    ELSE [old EXCEPT !.version = @ + 1, !.spec = spec, !.hash = hash]

\* The row of a name nothing held.
Inserted(spec, hash) ==
  [id |-> ids + 1, version |-> 1, spec |-> spec, hash |-> hash,
   deleted |-> FALSE, suspended |-> FALSE]

\* An Upsert that commits.
Upsert(n, spec, hash, claims) ==
  LET row == IF Exists(n) THEN Updated(workload[n], spec, hash) ELSE Inserted(spec, hash)
  IN /\ workload' = [workload EXCEPT ![n] = row]
     /\ port' = claim(row.id, claims)
     /\ ids' = IF Exists(n) THEN ids ELSE ids + 1
     /\ thing' = thing

-----------------------------------------------------------------------------
(* What a specification reads, and its hash.                               *)

\* What a secret or a variable contributes to a hash.
Contribution(t) == IF t \in Secrets THEN thing[t].revision ELSE thing[t].value

Present(spec) == {t \in spec.reads : thing[t].version > 0}

\* Revisions and Values, less what is read only through a mount naming a signal.
ReadThings(spec) == {<<t, Contribution(t)>> : t \in Present(spec) \ spec.refreshed}

\* Which of a target's instances a reader lands on.
pick(reader, readerInstance, count) ==
  IF count <= 1 THEN 0 ELSE (Offset[reader] + readerInstance) % count

\* The claims a reference resolves through; empty when the workload is unknown or does
\* not publish the port.  A workload on its way out still has its address.
Published(r, reader) ==
  IF ~Exists(r.name)
    THEN {}
    ELSE LET published == List(workload[r.name].id)
         IN {c \in published : /\ c.instance = pick(reader, 0, countOf(published))
                               /\ c.container = r.port}

Address(r, reader) == (CHOOSE c \in Published(r, reader) : TRUE).host

ReadAddresses(spec, reader) ==
  {<<r, Address(r, reader)>> : r \in {q \in spec.refs : Published(q, reader) # {}}}

\* Compute: everything the hash covers.
Compute(spec, inputs) == [spec |-> spec, inputs |-> inputs]

\* The inputs as they stand, but for the digest.
Current(spec, reader) ==
  [things |-> ReadThings(spec), addresses |-> ReadAddresses(spec, reader)]

-----------------------------------------------------------------------------
(* Calls.                                                                  *)

\* The statements each kind of call makes: what follows what, from idle to idle.
Program ==
  [apply      |-> [idle |-> "get", get |-> "held", held |-> "things",
                   things |-> "addresses", addresses |-> "digest", digest |-> "resolve",
                   resolve |-> "upsert", upsert |-> "referenced", referenced |-> "idle"],
   reallocate |-> [idle |-> "get", get |-> "held", held |-> "resolve",
                   resolve |-> "things", things |-> "addresses", addresses |-> "digest",
                   digest |-> "upsert", upsert |-> "referenced", referenced |-> "idle"],
   move       |-> [idle |-> "get", get |-> "held", held |-> "resolve",
                   resolve |-> "claim", claim |-> "idle"],
   rehash     |-> [get |-> "digest", digest |-> "things", things |-> "addresses",
                   addresses |-> "held", held |-> "upsert", upsert |-> "next",
                   next |-> "idle"],
   drift      |-> [digest |-> "things", things |-> "addresses", addresses |-> "held",
                   held |-> "upsert", upsert |-> "next", next |-> "idle"],
   secret     |-> [idle |-> "lookup", lookup |-> "put", put |-> "users",
                   users |-> "next", next |-> "idle"],
   variable   |-> [idle |-> "lookup", lookup |-> "users", users |-> "put",
                   put |-> "next", next |-> "idle"],
   unset      |-> [idle |-> "users", users |-> "drop", drop |-> "idle"],
   delete     |-> [idle |-> "mark", mark |-> "next", next |-> "idle"],
   stop       |-> [idle |-> "get", get |-> "suspend", suspend |-> "idle"],
   start      |-> [idle |-> "get", get |-> "resume", resume |-> "idle"],
   idle       |-> [idle |-> "idle"]]

Ops == DOMAIN Program

Statements == UNION {DOMAIN Program[op] : op \in Ops}

After(k) == Program[k.op][k.pc]

\* The call goes on to its next statement, or returns.
Proceed(c, k) ==
  call' = [call EXCEPT ![c] = IF After(k) = "idle" THEN Idle ELSE [k EXCEPT !.pc = After(k)]]

\* A rehash or a drift check that fails leaves its workload and goes on to the next.
Chained(k) == k.op \in {"rehash", "drift"}

Abort(c, k) ==
  call' = [call EXCEPT ![c] = IF Chained(k) THEN [k EXCEPT !.pc = "next"] ELSE Idle]

At(c, pc) == call[c].pc = pc

Reading == <<tables, tag, calls, faults, history>>

\* A client makes a call.  A conditional apply names the version it saw.
Begin(c, k) ==
  /\ At(c, "idle") /\ calls < MaxCalls
  /\ call' = [call EXCEPT ![c] = [k EXCEPT !.pc = After(k)]]
  /\ calls' = calls + 1
  /\ UNCHANGED <<tables, tag, faults, history>>

Apply(c) ==
  \E m \in Manifests : \E seen \in {NoRow, workload[m.name]} :
    Begin(c, [Idle EXCEPT !.op = "apply", !.name = m.name, !.spec = m.spec, !.seen = seen,
                          !.ifMatch = IF seen = NoRow THEN 0 ELSE seen.version])

Set(c) ==
  \E t \in Things, v \in Values : \E seen \in {0, thing[t].version} :
    Begin(c, [Idle EXCEPT !.op = IF t \in Secrets THEN "secret" ELSE "variable",
                          !.thing = t, !.value = v, !.ifMatch = seen])

Unset(c) ==
  \E t \in Things, f \in BOOLEAN :
    Begin(c, [Idle EXCEPT !.op = "unset", !.thing = t, !.force = f])

Delete(c) ==
  \E n \in Names, f \in BOOLEAN :
    Begin(c, [Idle EXCEPT !.op = "delete", !.name = n, !.force = f])

Hold(c) == \E n \in Names, op \in {"stop", "start"} :
  Begin(c, [Idle EXCEPT !.op = op, !.name = n])

\* The reconciler gives up the ports of an instance that could not bind them: the first
\* instance's are the specification's, a later one's only rows.
Reallocate(c) ==
  \E n \in Names, i \in 0..1 :
    Begin(c, [Idle EXCEPT !.op = IF i = 0 THEN "reallocate" ELSE "move",
                          !.name = n, !.instance = i])

\* The job that asks the registry lists what is pulled, and then works from the list.
Drift(c) ==
  LET pulled == {n \in Names : Exists(n) /\ workload[n].spec.pull # "missing"}
      listed == {n \in pulled : ~workload[n].deleted /\ ~workload[n].suspended}
  IN /\ At(c, "idle") /\ calls < MaxCalls /\ pulled # {}
     /\ call' = [call EXCEPT ![c] =
                   [Idle EXCEPT !.op = "drift", !.pc = "next", !.todo = listed,
                                !.listed = {<<n, workload[n]>> : n \in listed}]]
     /\ calls' = calls + 1
     /\ UNCHANGED <<tables, tag, faults, history>>

-----------------------------------------------------------------------------
(* Statements that read.                                                   *)

\* Get.  An apply is refused a workload being torn down, as are stop and start; a rehash,
\* a reallocation and a stop need one that exists.
Get(c) ==
  LET k == call[c]
      row == workload[k.name]
      refused == IF k.op = "apply"
                   THEN Exists(k.name) /\ row.deleted
                   ELSE ~Exists(k.name) \/ (k.op \in {"stop", "start"} /\ row.deleted)
  IN /\ At(c, "get")
     /\ IF refused
          THEN Abort(c, k)
          ELSE Proceed(c, [k EXCEPT !.row = row, !.spec = IF k.op = "apply" THEN @ ELSE
                                                 IF Exists(k.name) THEN row.spec ELSE @])
     /\ UNCHANGED Reading

\* ports.List, of the workload as it was read.  A reallocation with nothing dynamic to
\* move ends here.
Held(c) ==
  LET k == call[c]
      held == IF k.row = NoRow THEN {} ELSE List(k.row.id)
      idle == \/ k.op = "reallocate" /\ ~\E x \in held : x.dynamic
              \/ k.op = "move" /\ ~\E x \in held : x.dynamic /\ x.instance = k.instance
  IN /\ At(c, "held")
     /\ IF idle THEN Abort(c, k) ELSE Proceed(c, [k EXCEPT !.held = held])
     /\ UNCHANGED Reading

\* Revisions and Values.  An apply naming something that does not exist is refused.
ReadsThings(c) ==
  LET k == call[c]
  IN /\ At(c, "things")
     /\ IF k.op = "apply" /\ Present(k.spec) # k.spec.reads
          THEN Abort(c, k)
          ELSE Proceed(c, [k EXCEPT !.inputs.things = ReadThings(k.spec)])
     /\ UNCHANGED Reading

\* Addresses.  A rehash that arrives at the hash the row had writes nothing.
ReadsAddresses(c) ==
  LET k == call[c]
      addresses == ReadAddresses(k.spec, k.name)
      next == [k EXCEPT !.inputs.addresses = addresses]
      same == Chained(k) /\ k.row.hash = Compute(k.spec, next.inputs)
      reported == k.op = "drift" /\ k.spec.pull # "follow"
  IN /\ At(c, "addresses")
     /\ IF \/ k.op = "apply" /\ {x[1] : x \in addresses} # k.spec.refs
           \/ same \/ reported
          THEN Abort(c, k)
          ELSE Proceed(c, next)
     /\ UNCHANGED Reading

\* resolveDigest, which asks the registry for a workload that pulls.
ResolvesDigest(c) ==
  LET k == call[c]
  IN /\ At(c, "digest")
     /\ Proceed(c, [k EXCEPT !.inputs.digest =
                              IF k.spec.pull = "missing" THEN 0 ELSE tag + 1])
     /\ UNCHANGED Reading

\* What a call hands to Resolve: the claims it keeps, and the mappings it asks for.
Kept(k) ==
  CASE k.op = "apply" -> k.held
    [] k.op = "reallocate" -> {x \in k.held : ~x.dynamic}
    [] k.op = "move" -> {x \in k.held : ~(x.dynamic /\ x.instance = k.instance)}

Asked(k) == IF k.op = "apply" THEN k.spec.ports ELSE Requested(k.spec.ports, k.held)

\* Claimer.Resolve, on the ports promised as they stand.  It is refused when the range is
\* exhausted, when a pinned port is held elsewhere or when something listens on it.
ResolvesPorts(c) ==
  LET k == call[c]
      mappings == Asked(k)
  IN /\ At(c, "resolve")
     /\ \/ /\ ~PinnedElsewhere(mappings, HeldElsewhere(k.name))
           /\ \E claims \in Resolutions(Kept(k), mappings, k.spec.count, Allocated) :
                Proceed(c, [k EXCEPT !.claims = claims])
        \/ /\ \/ PinnedElsewhere(mappings, HeldElsewhere(k.name))
              \/ Resolutions(Kept(k), mappings, k.spec.count, Allocated) = {}
           /\ Abort(c, k)
     /\ UNCHANGED Reading

\* A read or a write fails, or the registry does not answer.  A rehash that fails leaves
\* its workload behind.
CallFails(c) ==
  LET k == call[c]
  IN /\ ~At(c, "idle") /\ ~At(c, "next") /\ faults < MaxFaults
     /\ faults' = faults + 1
     /\ Abort(c, k)
     /\ behind' = CASE Chained(k) -> behind \cup {k.name}
                    \* The readers were never read, so none of them is rehashed.
                    [] k.pc = "users" /\ k.op = "secret" -> behind \cup UsedBy(k.thing)
                    [] k.pc = "referenced" -> behind \cup ReferencedBy(k.name)
                    [] OTHER -> behind
     /\ UNCHANGED <<tables, tag, calls, torn>>

-----------------------------------------------------------------------------
(* Statements that write.                                                  *)

\* The specification, claims and hash a call writes.
NewSpec(k) ==
  IF Chained(k) THEN k.spec ELSE [k.spec EXCEPT !.ports = Resolved(@, k.claims)]

NewClaims(k) == IF Chained(k) THEN k.held ELSE k.claims

\* Whether what the call read no longer holds.
Stale(k) ==
  LET row == workload[k.name]
  IN \/ (k.row = NoRow) # (row = NoRow)
     \/ /\ k.row # NoRow /\ row # NoRow
        /\ \/ <<row.id, row.version, row.spec>> # <<k.row.id, k.row.version, k.row.spec>>
           \/ List(row.id) # k.held
     \/ Current(k.spec, k.name)
          # [things |-> k.inputs.things, addresses |-> k.inputs.addresses]

\* The history of a write: an apply of what still holds mends the row.
Tear(k) == IF Stale(k) THEN torn \cup {k.name}
           ELSE IF k.op = "apply" THEN torn \ {k.name} ELSE torn

\* Upsert.  An apply that loses a dynamic port to another settles its ports again, on the
\* resolution it has, until it gives up.
Upserts(c) ==
  LET k == call[c]
      spec == NewSpec(k)
      refusal == UpsertRefusal(k.name, k.ifMatch, NewClaims(k))
  IN /\ At(c, "upsert")
     /\ \/ /\ refusal = "none"
           /\ Upsert(k.name, spec, Compute(spec, k.inputs), NewClaims(k))
           /\ Proceed(c, k)
           /\ torn' = Tear(k)
           /\ behind' = IF ~Stale(k) THEN behind \ {k.name}
                        \* The ports read before may be put back, and nobody is told.
                        ELSE IF Chained(k) THEN behind \cup ReferencedBy(k.name)
                        ELSE behind
        \/ /\ refusal = "taken" /\ k.op = "apply" /\ ~Pinned(k.spec.ports)
           /\ k.tries + 1 < Attempts
           /\ call' = [call EXCEPT ![c].pc = "resolve", ![c].tries = @ + 1]
           /\ UNCHANGED <<tables, history>>
        \/ /\ refusal # "none"
           /\ ~(refusal = "taken" /\ k.op = "apply" /\ ~Pinned(k.spec.ports)
                  /\ k.tries + 1 < Attempts)
           /\ Abort(c, k)
           /\ behind' = IF Chained(k) THEN behind \cup {k.name} ELSE behind
           /\ UNCHANGED <<tables, torn>>
     /\ UNCHANGED <<tag, calls, faults>>

\* ports.Claim, of every row of the workload as it was read.  The rows of a workload that
\* has gone are refused by the foreign key.  Readers that land on the instance are left to
\* the reconciler, which hashes every slot anew.
Claims(c) ==
  LET k == call[c]
      gone == ~\E n \in Names : Exists(n) /\ workload[n].id = k.row.id
  IN /\ At(c, "claim")
     /\ Proceed(c, k)
     /\ IF gone \/ Collides(k.row.id, k.claims)
          THEN UNCHANGED <<port, torn, behind>>
          ELSE /\ port' = claim(k.row.id, k.claims)
               /\ behind' = behind \cup ReferencedBy(k.name)
               /\ torn' = IF \/ List(k.row.id) # k.held
                             \/ workload[k.name].spec # k.row.spec
                            THEN torn \cup {k.name} ELSE torn
     /\ UNCHANGED <<workload, ids, thing, tag, calls, faults>>

\* Mutant of Referenced: an apply that moved its ports leaves its readers alone.
ReferencedAlone(c) ==
  /\ At(c, "referenced")
  /\ call' = [call EXCEPT ![c] = Idle]
  /\ UNCHANGED Reading

\* ReferencedBy, and the rehash of each of them.
Referenced(c) ==
  LET k == call[c]
  IN /\ At(c, "referenced")
     /\ call' = [call EXCEPT ![c] = [Idle EXCEPT !.op = "rehash", !.pc = "next",
                                                 !.todo = ReferencedBy(k.name)]]
     /\ UNCHANGED Reading

\* rehashAll, redeployAll, and the loop of Drift, which has the row from its list.
NextReader(c) ==
  LET k == call[c]
  IN /\ At(c, "next")
     /\ IF k.todo = {}
          THEN call' = [call EXCEPT ![c] = Idle]
          ELSE \E n \in k.todo :
                 call' = [call EXCEPT ![c] =
                   LET next == [Idle EXCEPT !.name = n, !.todo = k.todo \ {n},
                                            !.listed = k.listed]
                   IN IF k.op = "drift"
                        THEN LET row == (CHOOSE l \in k.listed : l[1] = n)[2]
                             IN [next EXCEPT !.op = "drift", !.pc = "digest", !.row = row,
                                             !.spec = row.spec]
                        ELSE [next EXCEPT !.op = "rehash", !.pc = "get"]]
     /\ UNCHANGED Reading

\* What Set finds: a stale condition refuses it.  The value already held is not written
\* again, and its readers are rehashed to repair any left behind: the statements that are
\* left are those of a secret, for a variable too.
Lookup(c) ==
  LET k == call[c]
      held == thing[k.thing]
  IN /\ At(c, "lookup")
     /\ IF k.ifMatch # 0 /\ held.version # k.ifMatch
          THEN Abort(c, k)
          ELSE IF held.version > 0 /\ held.value = k.value
            THEN call' = [call EXCEPT ![c] = [k EXCEPT !.op = "secret", !.pc = "users"]]
            ELSE Proceed(c, k)
     /\ UNCHANGED Reading

\* The write of a secret or a variable, conditional in its transaction too.  A workload
\* that came to read the variable since its readers were listed is overlooked.
Put(c) ==
  LET k == call[c]
      held == thing[k.thing]
  IN /\ At(c, "put")
     /\ IF k.ifMatch # 0 /\ held.version # k.ifMatch
          THEN Abort(c, k) /\ UNCHANGED <<thing, ids, behind>>
          ELSE /\ thing' = [thing EXCEPT ![k.thing] =
                      [version |-> @.version + 1, value |-> k.value,
                       revision |-> ids + 1]]
               /\ ids' = ids + 1
               /\ behind' = IF k.op = "variable" THEN behind \cup (UsedBy(k.thing) \ k.todo)
                                                ELSE behind
               /\ Proceed(c, k)
     /\ UNCHANGED <<workload, port, tag, calls, faults, torn>>

\* UsedBy: before the write for a variable, after it for a secret.  A delete is refused
\* what is read, unless forced.
Users(c) ==
  LET k == call[c]
      users == UsedBy(k.thing)
  IN /\ At(c, "users")
     /\ IF k.op = "unset" /\ users # {} /\ ~k.force
          THEN Abort(c, k)
          ELSE Proceed(c, [k EXCEPT !.todo = users])
     /\ UNCHANGED Reading

\* A secret or a variable is removed.  Its readers are left as they are.
Drop(c) ==
  LET k == call[c]
  IN /\ At(c, "drop")
     /\ thing' = [thing EXCEPT ![k.thing].version = 0]
     /\ Proceed(c, k)
     /\ behind' = behind \cup UsedBy(k.thing)
     /\ UNCHANGED <<workload, port, ids, tag, calls, faults, torn>>

\* MarkDeleting: the references and the mark in one transaction.
Mark(c) ==
  LET k == call[c]
      referencing == ReferencedBy(k.name)
  IN /\ At(c, "mark")
     /\ IF ~Exists(k.name) \/ (referencing # {} /\ ~k.force)
          THEN Abort(c, k) /\ workload' = workload
          ELSE /\ workload' = [workload EXCEPT ![k.name].deleted = TRUE]
               /\ Proceed(c, [k EXCEPT !.todo = referencing])
     /\ UNCHANGED <<port, ids, thing, tag, calls, faults, history>>

\* Suspend and Resume, whose statement names the workload and not the row read.
Suspends(c) ==
  LET k == call[c]
  IN /\ k.pc \in {"suspend", "resume"}
     /\ workload' = IF Exists(k.name)
                      THEN [workload EXCEPT ![k.name].suspended = (k.pc = "suspend")]
                      ELSE workload
     /\ Proceed(c, k)
     /\ UNCHANGED <<port, ids, thing, tag, calls, faults, history>>

\* The reconciler removes a workload whose teardown is done; its ports go by cascade.
Remove(n) ==
  /\ Exists(n) /\ workload[n].deleted
  /\ workload' = [workload EXCEPT ![n] = NoRow]
  /\ port' = {p \in port : p.workload # workload[n].id}
  /\ UNCHANGED <<ids, thing, tag, call, calls, faults, history>>

\* The image is rebuilt under its tag.
MoveTag ==
  /\ tag < MaxTag
  /\ tag' = tag + 1
  /\ UNCHANGED <<tables, call, calls, faults, history>>

-----------------------------------------------------------------------------

Starts(c) ==
  Apply(c) \/ Set(c) \/ Unset(c) \/ Delete(c) \/ Hold(c) \/ Reallocate(c) \/ Drift(c)

Steps(c) ==
  \/ Get(c) \/ Held(c) \/ ReadsThings(c) \/ ReadsAddresses(c) \/ ResolvesDigest(c)
  \/ ResolvesPorts(c) \/ Upserts(c) \/ Claims(c) \/ Referenced(c) \/ NextReader(c)
  \/ Lookup(c) \/ Put(c) \/ Users(c) \/ Drop(c) \/ Mark(c) \/ Suspends(c)

Next ==
  \/ \E c \in Clients : Starts(c) \/ Steps(c) \/ CallFails(c)
  \/ \E n \in Names : Remove(n)
  \/ MoveTag

Spec == Init /\ [][Next]_vars

-----------------------------------------------------------------------------
(* Properties.                                                             *)

Call ==
  [op : Ops, pc : Statements, name : Names \cup {NoRow}, spec : Specification \cup {NoRow},
   ifMatch : Nat, seen : Row \cup {NoRow}, row : Row \cup {NoRow}, held : SUBSET Claim,
   inputs : Inputs, claims : SUBSET Claim, tries : 0..(Attempts - 1), todo : SUBSET Names,
   listed : SUBSET (Names \X Row), thing : Things \cup {NoRow},
   value : Values \cup {NoRow}, force : BOOLEAN, instance : 0..1]

\* Rows are stored under the hash of the specification they carry, are numbered apart and
\* within what was handed out, and every port belongs to one of them.
TypeOK ==
  /\ workload \in [Names -> Row \cup {NoRow}]
  /\ port \subseteq [workload : Nat, claim : Claim]
  /\ ids \in Nat
  /\ thing \in [Things -> [version : Nat, value : Values \cup {NoRow}, revision : Nat]]
  /\ call \in [Clients -> Call]
  /\ \A n \in Names : Exists(n) =>
       /\ workload[n].id \in 1..ids /\ workload[n].version # 0
       /\ workload[n].hash.spec = workload[n].spec
       /\ \A m \in Names \ {n} : Exists(m) => workload[m].id # workload[n].id
  /\ \A p \in port : \E n \in Names : Exists(n) /\ workload[n].id = p.workload
  /\ calls \in 0..MaxCalls /\ faults \in 0..MaxFaults /\ tag \in 0..MaxTag
  /\ torn \subseteq Names /\ behind \subseteq Names

\* Whether some call still has to rehash a workload.
Owing(n) ==
  \E c \in Clients :
    LET k == call[c]
    IN \/ k.op = "rehash" /\ (n \in k.todo \/ (k.name = n /\ k.pc # "next"))
       \/ k.op # "drift" /\ k.pc = "next" /\ n \in k.todo
       \/ k.pc = "users" /\ k.op = "secret" /\ n \in UsedBy(k.thing)
       \/ k.pc = "referenced" /\ n \in ReferencedBy(k.name)

\* Whether the hash of a workload covers what it reads as it stands.  Its own address, if
\* it refers to it, is in the specification.
Covers(n) ==
  LET spec == workload[n].spec
      inputs == workload[n].hash.inputs
  IN /\ inputs.things = ReadThings(spec)
     /\ {x \in ReadAddresses(spec, n) : x[1].name # n} \subseteq inputs.addresses

\* The hash follows what is read.  Unless a call still owes the workload a rehash, one has
\* failed, or its row was last written from reads others overtook, its hash covers the
\* current revision of every secret and value of every variable it reads, and the current
\* address of every workload it refers to: the reconciler will replace what runs on an
\* older one.
HashFollows ==
  \A n \in Names : (Exists(n) /\ n \notin torn \cup behind /\ ~Owing(n)) => Covers(n)

\* A specification names the ports its workload holds.  Unless the row was last written
\* from reads others overtook, every mapping carries the host port its first instance
\* claims, every instance of the count has its claim of every mapping and nothing else is
\* claimed, and no other workload was promised any of them.
SpecNamesItsPorts ==
  \A n \in Names :
    (Exists(n) /\ n \notin torn) =>
      LET row == workload[n]
          claims == List(row.id)
      IN /\ \A m \in row.spec.ports, i \in 0..(row.spec.count - 1) :
              \E c \in claims : /\ c.instance = i /\ Key(c) = Key(m)
                                /\ i = 0 => c.host = m.from
         /\ Cardinality(claims) = row.spec.count * Cardinality(row.spec.ports)
         /\ HostPorts(claims) \cap HostPorts(HeldElsewhere(n)) = {}

\* Once a workload is marked nothing moves its row but its removal and a suspension: no
\* apply, rehash, drift check or reallocation that read it before the mark writes it after.
MarkedStays ==
  [][\A n \in Names :
       (Exists(n) /\ workload[n].deleted /\ workload'[n] # NoRow) =>
         workload'[n] = [workload[n] EXCEPT !.suspended = workload'[n].suspended]]_vars

\* A conditional apply loses no update: what it writes over is the specification, under
\* the hash, that its caller saw, so long as the row is the one the caller saw.
NoLostUpdate ==
  [][\A c \in Clients :
       LET k == call[c]
       IN (At(c, "upsert") /\ k.seen # NoRow /\ Exists(k.name)
             /\ workload[k.name].id = k.seen.id /\ workload'[k.name] # workload[k.name]
             /\ call'[c] # k)
            => workload[k.name].hash = k.seen.hash]_vars

\* A rehash moves the hash alone: the specification it writes back is the one stored.
RehashKeepsSpec ==
  [][\A c \in Clients :
       (At(c, "upsert") /\ Chained(call[c]) /\ call'[c].pc = "next") =>
         LET old == workload[call[c].name]
             new == workload'[call[c].name]
         IN new # old => (old # NoRow /\ new.spec = old.spec)]_vars
=============================================================================

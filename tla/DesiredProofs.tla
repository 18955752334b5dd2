---------------------------- MODULE DesiredProofs ----------------------------
(***************************************************************************)
(* What is proved of Desired: its types, MarkedStays, NoLostUpdate,        *)
(* SpecNamesItsPorts and HashFollows, for any workloads, specifications,   *)
(* secrets, variables and number of calls.                                 *)
(***************************************************************************)
EXTENDS Desired, FiniteSetTheorems, TLAPS

-----------------------------------------------------------------------------
(* The reads of the repositories, with the tables as parameters: w the     *)
(* workloads, p the ports, th the secrets and variables, i the last        *)
(* identifier.  The facts NowAt below says they are those of Desired.      *)

ListAt(p, id) == {q.claim : q \in {x \in p : x.workload = id}}

UsedAt(w, t) == {n \in Names : w[n] # NoRow /\ t \in w[n].spec.reads}

ReferencedAt(w, a) ==
  {n \in Names \ {a} : w[n] # NoRow /\ \E r \in w[n].spec.refs : r.name = a}

ThingsAt(th, spec) ==
  {<<t, IF t \in Secrets THEN th[t].revision ELSE th[t].value>> :
     t \in {u \in spec.reads : th[u].version > 0} \ spec.refreshed}

PublishedAt(w, p, r, reader) ==
  IF w[r.name] = NoRow
    THEN {}
    ELSE LET published == ListAt(p, w[r.name].id)
         IN {c \in published : /\ c.instance = pick(reader, 0, countOf(published))
                               /\ c.container = r.port}

AddressAt(w, p, r, reader) == (CHOOSE c \in PublishedAt(w, p, r, reader) : TRUE).host

AddressesAt(w, p, spec, reader) ==
  {<<r, AddressAt(w, p, r, reader)>> :
     r \in {q \in spec.refs : PublishedAt(w, p, q, reader) # {}}}

CoversAt(w, p, th, n) ==
  /\ w[n].hash.inputs.things = ThingsAt(th, w[n].spec)
  /\ {x \in AddressesAt(w, p, w[n].spec, n) : x[1].name # n}
       \subseteq w[n].hash.inputs.addresses

-----------------------------------------------------------------------------
(* The inductive invariant.                                                *)

\* The claims settle the mappings: one claim for each instance and mapping, and no other.
Settles(spec, claims) ==
  /\ \A m \in spec.ports, i \in 0..(spec.count - 1) :
       \E c \in claims : c.instance = i /\ Key(c) = Key(m)
  /\ \A c \in claims :
       c.instance \in 0..(spec.count - 1) /\ \E m \in spec.ports : Key(c) = Key(m)
  /\ \A c, d \in claims : (c.instance = d.instance /\ Key(c) = Key(d)) => c = d

\* The specification names the host ports of the first instance.
NamesFirst(spec, claims) ==
  \A m \in spec.ports, c \in claims :
    (c.instance = 0 /\ Key(c) = Key(m)) => c.host = m.from

\* A published port is named once.
Valid(spec) == IsFiniteSet(spec.ports) /\ OneEach(spec.ports)

\* A row that was read under a name: no other name will have its identifier.
Belongs(w, i, r, n) ==
  /\ r.id \in 1..i
  /\ Valid(r.spec) /\ r.hash.spec = r.spec
  /\ \A m \in Names : (w[m] # NoRow /\ w[m].id = r.id) => m = n

\* The stored rows are valid, and no host port is promised twice.
TablesInv ==
  /\ \A n \in Names : workload[n] # NoRow => Valid(workload[n].spec)
  /\ \A p, q \in port :
       (p.claim.host = q.claim.host /\ p.claim.protocol = q.claim.protocol) => p = q

\* A call is where its kind may be, with what that takes.
HasRow(k) ==
  \/ k.op \in {"reallocate", "move"} /\ k.pc # "get"
  \/ k.op = "rehash" /\ k.pc \notin {"get", "next"}
  \/ k.op = "drift" /\ k.pc # "next"

Control(k) ==
  /\ k.pc \in DOMAIN Program[k.op]
  /\ k.pc = "idle" => k = Idle
  /\ k.op \in {"apply", "reallocate", "move", "delete", "stop", "start"} => k.name \in Names
  /\ (k.op \in {"rehash", "drift"} /\ k.pc # "next") => k.name \in Names
  /\ k.op \in {"secret", "variable", "unset"} => k.thing \in Things
  /\ k.op = "apply" => k.spec \in Specification /\ Valid(k.spec)
  /\ HasRow(k) => k.row # NoRow /\ k.spec = k.row.spec
  /\ k.op = "move" => k.instance = 1
  /\ k.op = "drift" => \A n \in k.todo : \E l \in k.listed : l[1] = n

ReadRows(w, i, k) ==
  /\ k.row # NoRow => Belongs(w, i, k.row, k.name)
  /\ \A l \in k.listed : Belongs(w, i, l[2], l[1])

\* Between the resolution of its ports and the write, the claims of a call settle its
\* specification, and those of a move leave the first instance's where they were.
Resolves(k) ==
  /\ \/ k.op = "apply" /\ k.pc \in {"upsert", "referenced"}
     \/ k.op = "reallocate"
          /\ k.pc \in {"things", "addresses", "digest", "upsert", "referenced"}
     => Settles(k.spec, k.claims)
  /\ (k.op = "move" /\ k.pc = "claim")
       => \/ ~(Settles(k.spec, k.held) /\ NamesFirst(k.spec, k.held))
          \/ Settles(k.spec, k.claims) /\ NamesFirst(k.spec, k.claims)

\* A condition is on a version the caller saw; the row has it only with the hash it had.
Condition(w, i, k) ==
  k.seen # NoRow =>
    /\ k.op = "apply" /\ k.ifMatch = k.seen.version /\ k.seen.version # 0
    /\ k.seen.id <= i
    /\ (w[k.name] # NoRow /\ w[k.name].id = k.seen.id) =>
         /\ w[k.name].version >= k.seen.version
         /\ w[k.name].version = k.seen.version => w[k.name].hash = k.seen.hash

\* What a call brings along from one statement to the next.
CallInv(w, i, k) ==
  Control(k) /\ ReadRows(w, i, k) /\ Resolves(k) /\ Condition(w, i, k)

CallsInv == \A c \in Clients : CallInv(workload, ids, call[c])

\* Unless it was torn, a row names the ports held.
PortsInv ==
  \A n \in Names : (workload[n] # NoRow /\ n \notin torn) =>
    /\ Settles(workload[n].spec, ListAt(port, workload[n].id))
    /\ NamesFirst(workload[n].spec, ListAt(port, workload[n].id))

\* A call that will bring the hash of a workload up.  One that has begun to read still
\* counts so long as it compares with the hash stored, and with things as they stand.
Owes(w, th, k, n) ==
  \/ k.op = "rehash" /\ n \in k.todo
  \/ k.op # "drift" /\ k.pc = "next" /\ n \in k.todo
  \/ k.pc = "users" /\ k.op = "secret" /\ n \in UsedAt(w, k.thing)
  \/ k.pc = "referenced" /\ n \in ReferencedAt(w, k.name)
  \/ /\ k.op = "rehash" /\ k.name = n
     /\ \/ k.pc \in {"get", "held", "upsert"}
        \/ k.pc \in {"digest", "things"} /\ k.row.hash = w[n].hash
        \/ /\ k.pc = "addresses" /\ k.row.hash = w[n].hash
           /\ k.inputs.things = ThingsAt(th, k.spec)

HashInv ==
  \A n \in Names : (workload[n] # NoRow /\ n \notin torn /\ n \notin behind) =>
    \/ CoversAt(workload, port, thing, n)
    \/ \E c \in Clients : Owes(workload, thing, call[c], n)

IInv == TypeOK /\ TablesInv /\ CallsInv /\ PortsInv /\ HashInv

-----------------------------------------------------------------------------
(* The order of a call's statements.                                       *)

\* Where a call may be, and what follows: the pairs of Program, as facts.
LEMMA Domains ==
  /\ DOMAIN Program["apply"] = {"idle", "get", "held", "things", "addresses", "digest",
                                "resolve", "upsert", "referenced"}
  /\ DOMAIN Program["reallocate"] = {"idle", "get", "held", "things", "addresses", "digest",
                                     "resolve", "upsert", "referenced"}
  /\ DOMAIN Program["move"] = {"idle", "get", "held", "resolve", "claim"}
  /\ DOMAIN Program["rehash"] = {"get", "digest", "things", "addresses", "held", "upsert",
                                 "next"}
  /\ DOMAIN Program["drift"] = {"digest", "things", "addresses", "held", "upsert", "next"}
  /\ DOMAIN Program["secret"] = {"idle", "lookup", "put", "users", "next"}
  /\ DOMAIN Program["variable"] = {"idle", "lookup", "put", "users", "next"}
  /\ DOMAIN Program["unset"] = {"idle", "users", "drop"}
  /\ DOMAIN Program["delete"] = {"idle", "mark", "next"}
  /\ DOMAIN Program["stop"] = {"idle", "get", "suspend"}
  /\ DOMAIN Program["start"] = {"idle", "get", "resume"}
  /\ DOMAIN Program["idle"] = {"idle"}
  /\ Ops = {"apply", "reallocate", "move", "rehash", "drift", "secret", "variable", "unset",
            "delete", "stop", "start", "idle"}
  BY DEF Program, Ops

\* Every statement of some call.
LEMMA StatementsAre ==
  Statements = {"idle", "get", "held", "things", "addresses", "digest", "resolve", "upsert",
                "referenced", "claim", "next", "lookup", "put", "users", "drop", "mark",
                "suspend", "resume"}
  BY Domains DEF Statements

\* What follows what, in each kind of call.
LEMMA AfterApply ==
  ASSUME NEW k, k.op = "apply"
  PROVE  /\ k.pc = "idle" => After(k) = "get"
         /\ k.pc = "get" => After(k) = "held"
         /\ k.pc = "held" => After(k) = "things"
         /\ k.pc = "things" => After(k) = "addresses"
         /\ k.pc = "addresses" => After(k) = "digest"
         /\ k.pc = "digest" => After(k) = "resolve"
         /\ k.pc = "resolve" => After(k) = "upsert"
         /\ k.pc = "upsert" => After(k) = "referenced"
         /\ k.pc = "referenced" => After(k) = "idle"
  BY DEF After, Program

LEMMA AfterReallocate ==
  ASSUME NEW k, k.op = "reallocate"
  PROVE  /\ k.pc = "idle" => After(k) = "get"
         /\ k.pc = "get" => After(k) = "held"
         /\ k.pc = "held" => After(k) = "resolve"
         /\ k.pc = "resolve" => After(k) = "things"
         /\ k.pc = "things" => After(k) = "addresses"
         /\ k.pc = "addresses" => After(k) = "digest"
         /\ k.pc = "digest" => After(k) = "upsert"
         /\ k.pc = "upsert" => After(k) = "referenced"
         /\ k.pc = "referenced" => After(k) = "idle"
  BY DEF After, Program

LEMMA AfterMove ==
  ASSUME NEW k, k.op = "move"
  PROVE  /\ k.pc = "idle" => After(k) = "get"
         /\ k.pc = "get" => After(k) = "held"
         /\ k.pc = "held" => After(k) = "resolve"
         /\ k.pc = "resolve" => After(k) = "claim"
         /\ k.pc = "claim" => After(k) = "idle"
  BY DEF After, Program

LEMMA AfterRehash ==
  ASSUME NEW k, k.op = "rehash"
  PROVE  /\ k.pc = "get" => After(k) = "digest"
         /\ k.pc = "digest" => After(k) = "things"
         /\ k.pc = "things" => After(k) = "addresses"
         /\ k.pc = "addresses" => After(k) = "held"
         /\ k.pc = "held" => After(k) = "upsert"
         /\ k.pc = "upsert" => After(k) = "next"
  BY DEF After, Program

LEMMA AfterDrift ==
  ASSUME NEW k, k.op = "drift"
  PROVE  /\ k.pc = "digest" => After(k) = "things"
         /\ k.pc = "things" => After(k) = "addresses"
         /\ k.pc = "addresses" => After(k) = "held"
         /\ k.pc = "held" => After(k) = "upsert"
         /\ k.pc = "upsert" => After(k) = "next"
  BY DEF After, Program

LEMMA AfterOthers ==
  ASSUME NEW k
  PROVE  /\ k.op = "secret" => /\ k.pc = "idle" => After(k) = "lookup"
                               /\ k.pc = "lookup" => After(k) = "put"
                               /\ k.pc = "put" => After(k) = "users"
                               /\ k.pc = "users" => After(k) = "next"
         /\ k.op = "variable" => /\ k.pc = "idle" => After(k) = "lookup"
                                 /\ k.pc = "lookup" => After(k) = "users"
                                 /\ k.pc = "users" => After(k) = "put"
                                 /\ k.pc = "put" => After(k) = "next"
         /\ k.op = "unset" => /\ k.pc = "idle" => After(k) = "users"
                              /\ k.pc = "users" => After(k) = "drop"
                              /\ k.pc = "drop" => After(k) = "idle"
         /\ k.op = "delete" => /\ k.pc = "idle" => After(k) = "mark"
                               /\ k.pc = "mark" => After(k) = "next"
         /\ k.op = "stop" => /\ k.pc = "idle" => After(k) = "get"
                             /\ k.pc = "get" => After(k) = "suspend"
                             /\ k.pc = "suspend" => After(k) = "idle"
         /\ k.op = "start" => /\ k.pc = "idle" => After(k) = "get"
                              /\ k.pc = "get" => After(k) = "resume"
                              /\ k.pc = "resume" => After(k) = "idle"
  BY DEF After, Program

-----------------------------------------------------------------------------
(* Ports: what Resolve settles a specification on, and what is written.    *)

\* What a resolution is made of.
LEMMA ResolutionIs ==
  ASSUME NEW existing, NEW mappings, NEW count, NEW allocated,
         NEW claims \in Resolutions(existing, mappings, count, allocated)
  PROVE  \E a \in Allocations(existing, mappings, count, Taken(allocated, mappings)) :
           claims = {resolve(existing, a, i, m) : i \in 0..(count - 1), m \in mappings}
  BY DEF Resolutions

\* A resolution makes one claim for each instance and mapping.
LEMMA ResolutionSettles ==
  ASSUME NEW existing \in SUBSET Claim, NEW mappings \in SUBSET Mapping, OneEach(mappings),
         NEW count \in Nat \ {0}, NEW allocated,
         NEW claims \in Resolutions(existing, mappings, count, allocated)
  PROVE  /\ claims \in SUBSET Claim
         /\ \A m \in mappings, i \in 0..(count - 1) :
              \E c \in claims : c.instance = i /\ Key(c) = Key(m)
         /\ \A c \in claims :
              c.instance \in 0..(count - 1) /\ \E m \in mappings : Key(c) = Key(m)
         /\ \A c, d \in claims : (c.instance = d.instance /\ Key(c) = Key(d)) => c = d
  <1> DEFINE taken == Taken(allocated, mappings)
  <1>1. PICK a \in Allocations(existing, mappings, count, taken) :
          claims = {resolve(existing, a, i, m) : i \in 0..(count - 1), m \in mappings}
    BY ResolutionIs
  <1>2. a \in [Wanted(existing, mappings, count) -> Hosts]
    BY <1>1 DEF Allocations
  <1>3. \A i \in 0..(count - 1), m \in mappings :
          /\ resolve(existing, a, i, m).instance = i
          /\ Key(resolve(existing, a, i, m)) = Key(m)
    BY DEF resolve, Key
  <1>4. ASSUME NEW i \in 0..(count - 1), NEW m \in mappings
        PROVE  resolve(existing, a, i, m) \in Claim
    <2>0. i \in Nat /\ m \in Mapping
      OBVIOUS
    <2>1. CASE m.from # 0
      BY <2>0, <2>1 DEF resolve, Claim, Mapping
    <2>2. CASE m.from = 0 /\ heldBy(existing, i, m) # {}
      <3>1. PICK h : h = (CHOOSE c \in heldBy(existing, i, m) : TRUE)
        OBVIOUS
      <3>2. h \in existing
        BY <2>2, <3>1 DEF heldBy
      <3>3. h.host \in Nat \ {0}
        BY <3>2 DEF Claim
      <3>4. resolve(existing, a, i, m) =
              [instance |-> i, container |-> m.container, protocol |-> m.protocol,
               host |-> h.host, dynamic |-> TRUE]
        BY <2>2, <3>1 DEF resolve
      <3> QED
        BY <2>0, <3>3, <3>4 DEF Claim, Mapping
    <2>3. CASE m.from = 0 /\ heldBy(existing, i, m) = {}
      <3>1. <<i, m.container>> \in Wanted(existing, mappings, count)
        BY <2>3 DEF Wanted
      <3>2. a[<<i, m.container>>] \in Nat \ {0}
        BY <3>1, <1>2, PortsAssumption
      <3>3. resolve(existing, a, i, m) =
              [instance |-> i, container |-> m.container, protocol |-> m.protocol,
               host |-> a[<<i, m.container>>], dynamic |-> TRUE]
        BY <2>3 DEF resolve
      <3> QED
        BY <2>0, <3>2, <3>3 DEF Claim, Mapping
    <2> QED
      BY <2>1, <2>2, <2>3
  <1> HIDE DEF taken
  <1>5. claims \in SUBSET Claim
    BY <1>1, <1>4
  <1>6. \A c \in claims : \E i \in 0..(count - 1), m \in mappings :
          c = resolve(existing, a, i, m)
    BY <1>1
  <1>7. \A m \in mappings, i \in 0..(count - 1) :
          \E c \in claims : c.instance = i /\ Key(c) = Key(m)
    BY <1>1, <1>3
  <1>8. \A c \in claims :
          c.instance \in 0..(count - 1) /\ \E m \in mappings : Key(c) = Key(m)
    BY <1>6, <1>3
  <1>9. ASSUME NEW c \in claims, NEW d \in claims,
               c.instance = d.instance, Key(c) = Key(d)
        PROVE  c = d
    <2>1. PICK i \in 0..(count - 1), m \in mappings : c = resolve(existing, a, i, m)
      BY <1>6
    <2>2. PICK j \in 0..(count - 1), n \in mappings : d = resolve(existing, a, j, n)
      BY <1>6
    <2>3. i = j /\ Key(m) = Key(n)
      BY <2>1, <2>2, <1>3, <1>9
    <2>4. m = n
      BY <2>3 DEF OneEach
    <2> QED
      BY <2>1, <2>2, <2>3, <2>4
  <1> QED
    BY <1>5, <1>7, <1>8, <1>9

\* What was asked for is for the same ports.
LEMMA RequestedKeeps ==
  ASSUME NEW mappings \in SUBSET Mapping, OneEach(mappings), NEW held
  PROVE  /\ Requested(mappings, held) \in SUBSET Mapping
         /\ OneEach(Requested(mappings, held))
         /\ \A m \in mappings : \E r \in Requested(mappings, held) : Key(r) = Key(m)
         /\ \A r \in Requested(mappings, held) : \E m \in mappings : Key(r) = Key(m)
  <1> DEFINE f(m) == IF \E c \in held : c.dynamic /\ c.instance = 0 /\ Key(c) = Key(m)
                       THEN [m EXCEPT !.from = 0] ELSE m
  <1>1. Requested(mappings, held) = {f(m) : m \in mappings}
    BY DEF Requested
  <1>2. \A m \in mappings : f(m) \in Mapping /\ Key(f(m)) = Key(m)
    BY DEF Mapping, Key
  <1> HIDE DEF f
  <1>3. OneEach(Requested(mappings, held))
    BY <1>1, <1>2 DEF OneEach
  <1> QED
    BY <1>1, <1>2, <1>3

\* Settling what was asked for settles what is stored.
LEMMA RequestSettles ==
  ASSUME NEW spec \in Specification, Valid(spec), NEW existing \in SUBSET Claim, NEW held,
         NEW allocated,
         NEW claims \in Resolutions(existing, Requested(spec.ports, held), spec.count,
                                    allocated)
  PROVE  claims \in SUBSET Claim /\ Settles(spec, claims)
  <1> DEFINE asked == Requested(spec.ports, held)
             count == spec.count
  <1>0. spec.ports \in SUBSET Mapping /\ OneEach(spec.ports) /\ spec.count \in Nat \ {0}
    BY DEF Specification, Valid
  <1>1. /\ asked \in SUBSET Mapping /\ OneEach(asked)
        /\ \A m \in spec.ports : \E r \in asked : Key(r) = Key(m)
        /\ \A r \in asked : \E m \in spec.ports : Key(r) = Key(m)
    BY <1>0, RequestedKeeps
  <1>2. /\ asked \in SUBSET Mapping /\ OneEach(asked) /\ count \in Nat \ {0}
        /\ claims \in Resolutions(existing, asked, count, allocated)
    BY <1>0, <1>1
  <1> HIDE DEF asked, count
  <1>3. /\ claims \in SUBSET Claim
        /\ \A m \in asked, i \in 0..(count - 1) :
             \E c \in claims : c.instance = i /\ Key(c) = Key(m)
        /\ \A c \in claims :
             c.instance \in 0..(count - 1) /\ \E m \in asked : Key(c) = Key(m)
        /\ \A c, d \in claims : (c.instance = d.instance /\ Key(c) = Key(d)) => c = d
    BY <1>2, ResolutionSettles, ZenonT(30)
  <1>4. \A m \in spec.ports, i \in 0..(count - 1) :
          \E c \in claims : c.instance = i /\ Key(c) = Key(m)
    BY <1>1, <1>3
  <1>5. \A c \in claims :
          c.instance \in 0..(count - 1) /\ \E m \in spec.ports : Key(c) = Key(m)
    BY <1>1, <1>3
  <1> QED
    BY <1>3, <1>4, <1>5 DEF Settles, count

\* An apply settles its specification as it was written.
LEMMA ApplySettles ==
  ASSUME NEW spec \in Specification, Valid(spec), NEW existing \in SUBSET Claim,
         NEW allocated,
         NEW claims \in Resolutions(existing, spec.ports, spec.count, allocated)
  PROVE  claims \in SUBSET Claim /\ Settles(spec, claims)
  <1> DEFINE ports == spec.ports
             count == spec.count
  <1>1. /\ ports \in SUBSET Mapping /\ OneEach(ports) /\ count \in Nat \ {0}
        /\ claims \in Resolutions(existing, ports, count, allocated)
    BY DEF Specification, Valid
  <1> HIDE DEF ports, count
  <1>2. /\ claims \in SUBSET Claim
        /\ \A m \in ports, i \in 0..(count - 1) :
             \E c \in claims : c.instance = i /\ Key(c) = Key(m)
        /\ \A c \in claims :
             c.instance \in 0..(count - 1) /\ \E m \in ports : Key(c) = Key(m)
        /\ \A c, d \in claims : (c.instance = d.instance /\ Key(c) = Key(d)) => c = d
    BY <1>1, ResolutionSettles, ZenonT(30)
  <1> QED
    BY <1>2 DEF Settles, ports, count

\* A move of a later instance keeps the host ports of the first.
LEMMA MoveKeepsFirst ==
  ASSUME NEW spec \in Specification, Valid(spec), NEW held \in SUBSET Claim,
         Settles(spec, held), NamesFirst(spec, held), NEW allocated,
         NEW claims \in Resolutions({x \in held : ~(x.dynamic /\ x.instance = 1)},
                                    Requested(spec.ports, held), spec.count, allocated)
  PROVE  NamesFirst(spec, claims)
  <1> DEFINE kept == {x \in held : ~(x.dynamic /\ x.instance = 1)}
             asked == Requested(spec.ports, held)
             again(m) == \E c \in held : c.dynamic /\ c.instance = 0 /\ Key(c) = Key(m)
  <1>0. claims \in Resolutions(kept, asked, spec.count, allocated)
    OBVIOUS
  <1> HIDE DEF kept, asked
  <1>1. PICK a \in Allocations(kept, asked, spec.count, Taken(allocated, asked)) :
          claims = {resolve(kept, a, i, m) : i \in 0..(spec.count - 1), m \in asked}
    BY <1>0, ResolutionIs
  <1> USE DEF kept, asked
  <1>2. \A r \in asked : \E m \in spec.ports :
          r = IF again(m) THEN [m EXCEPT !.from = 0] ELSE m
    BY DEF Requested
  <1>3. spec.ports \in SUBSET Mapping /\ OneEach(spec.ports) /\ 0 \in 0..(spec.count - 1)
    BY DEF Specification, Valid
  <1>4. SUFFICES ASSUME NEW m \in spec.ports, NEW c \in claims,
                        c.instance = 0, Key(c) = Key(m)
                 PROVE  c.host = m.from
    BY DEF NamesFirst
  <1>5. PICK i \in 0..(spec.count - 1), r \in asked : c = resolve(kept, a, i, r)
    BY <1>1
  <1>6. i = 0 /\ Key(r) = Key(m)
    BY <1>4, <1>5 DEF resolve, Key
  <1>7. r = IF again(m) THEN [m EXCEPT !.from = 0] ELSE m
    <2>1. PICK n \in spec.ports : r = IF again(n) THEN [n EXCEPT !.from = 0] ELSE n
      BY <1>2
    <2>2. Key(r) = Key(n)
      BY <2>1, <1>3 DEF Key, Mapping
    <2> QED
      BY <2>1, <2>2, <1>3, <1>6 DEF OneEach
  <1>8. PICK h \in held : h.instance = 0 /\ Key(h) = Key(m)
    BY <1>3 DEF Settles
  <1>9. h.host = m.from /\ h.host # 0
    BY <1>8 DEF NamesFirst, Claim
  <1>10. \A x \in held : (x.instance = 0 /\ Key(x) = Key(m)) => x = h
    BY <1>8 DEF Settles
  <1>11. CASE h.dynamic
    <2>1. again(m) /\ r = [m EXCEPT !.from = 0]
      BY <1>7, <1>8, <1>11
    <2>2. r.from = 0
      BY <2>1, <1>3 DEF Mapping
    <2>3. heldBy(kept, 0, r) = {h}
      BY <1>6, <1>8, <1>10, <1>11, <2>2 DEF heldBy
    <2>4. (CHOOSE x \in heldBy(kept, 0, r) : TRUE) = h
      BY <2>3
    <2>5. c.host = h.host
      BY <1>5, <1>6, <2>2, <2>3, <2>4 DEF resolve
    <2> QED
      BY <2>5, <1>9
  <1>12. CASE ~h.dynamic
    <2>1. r = m
      BY <1>7, <1>10, <1>12
    <2> QED
      BY <2>1, <1>5, <1>9 DEF resolve
  <1> QED
    BY <1>11, <1>12

\* The specification rewritten with the claims names the ports of its first instance.
LEMMA ResolvedNames ==
  ASSUME NEW spec \in Specification, Valid(spec), NEW claims \in SUBSET Claim,
         Settles(spec, claims)
  PROVE  LET new == [spec EXCEPT !.ports = Resolved(@, claims)]
         IN /\ new \in Specification /\ Valid(new)
            /\ Settles(new, claims) /\ NamesFirst(new, claims)
  <1> DEFINE resolved == Resolved(spec.ports, claims)
             new == [spec EXCEPT !.ports = resolved]
             first(m) == CHOOSE c \in claims : c.instance = 0 /\ Key(c) = Key(m)
             f(m) == [m EXCEPT !.from = first(m).host]
  <1>1. spec.ports \in SUBSET Mapping /\ OneEach(spec.ports) /\ IsFiniteSet(spec.ports)
    BY DEF Specification, Valid
  <1>2. 0 \in 0..(spec.count - 1)
    BY DEF Specification
  <1>3. \A m \in spec.ports :
          first(m) \in claims /\ first(m).instance = 0 /\ Key(first(m)) = Key(m)
    BY <1>2 DEF Settles
  <1>4. resolved = {f(m) : m \in spec.ports}
    <2>1. CASE claims = {}
      <3>1. spec.ports = {}
        BY <2>1, <1>3
      <3> QED
        BY <2>1, <3>1 DEF Resolved
    <2>2. CASE claims # {}
      <3>1. \A m \in spec.ports : \E c \in claims : c.instance = 0 /\ Key(c) = Key(m)
        BY <1>3
      <3>2. {n \in spec.ports : \E c \in claims : c.instance = 0 /\ Key(c) = Key(n)}
              = spec.ports
        BY <3>1
      <3> QED
        BY <2>2, <3>2 DEF Resolved
    <2> QED
      BY <2>1, <2>2
  <1>5. \A m \in spec.ports :
          f(m) \in Mapping /\ Key(f(m)) = Key(m) /\ f(m).from = first(m).host
    <2>1. \A m \in spec.ports : first(m).host \in Nat
      BY <1>3 DEF Claim
    <2> HIDE DEF first
    <2> QED
      BY <2>1, <1>1 DEF Mapping, Key
  <1> HIDE DEF first, resolved
  <1>6. IsFiniteSet(resolved)
    <2> DEFINE g == [m \in spec.ports |-> f(m)]
    <2>1. g \in Surjection(spec.ports, resolved)
      BY <1>4 DEF Surjection
    <2> QED
      BY <2>1, <1>1, FS_Surjection
  <1> HIDE DEF f
  <1>7. resolved \in SUBSET Mapping /\ OneEach(resolved)
    BY <1>1, <1>4, <1>5 DEF OneEach
  <1>8. /\ new \in Specification /\ new.ports = resolved /\ new.count = spec.count
    BY <1>7 DEF Specification
  <1> HIDE DEF new
  <1>9. Valid(new)
    BY <1>6, <1>7, <1>8 DEF Valid
  <1>10. /\ \A m \in spec.ports : \E r \in resolved : Key(r) = Key(m)
         /\ \A r \in resolved : \E m \in spec.ports : Key(r) = Key(m) /\ r.from = first(m).host
    BY <1>4, <1>5
  <1>11. Settles(new, claims)
    BY <1>8, <1>10 DEF Settles
  <1>12. NamesFirst(new, claims)
    <2> SUFFICES ASSUME NEW r \in resolved, NEW c \in claims, c.instance = 0, Key(c) = Key(r)
                 PROVE  c.host = r.from
      BY <1>8 DEF NamesFirst
    <2>1. PICK m \in spec.ports : Key(r) = Key(m) /\ r.from = first(m).host
      BY <1>10
    <2>2. first(m) = c
      BY <2>1, <1>3 DEF Settles
    <2> QED
      BY <2>1, <2>2
  <1> QED
    BY <1>8, <1>9, <1>11, <1>12 DEF new, resolved

\* There are as many claims as instances times mappings.
LEMMA SettledCount ==
  ASSUME NEW spec \in Specification, Valid(spec), NEW claims, Settles(spec, claims)
  PROVE  Cardinality(claims) = spec.count * Cardinality(spec.ports)
  <1> DEFINE count == spec.count
             ports == spec.ports
             pairs == (0..(count - 1)) \X ports
             g == [w \in pairs |->
                     CHOOSE c \in claims : c.instance = w[1] /\ Key(c) = Key(w[2])]
  <1>1. count \in Nat \ {0} /\ OneEach(ports) /\ IsFiniteSet(ports)
    BY DEF Specification, Valid
  <1>2. /\ \A m \in ports, i \in 0..(count - 1) :
             \E c \in claims : c.instance = i /\ Key(c) = Key(m)
        /\ \A c \in claims :
             c.instance \in 0..(count - 1) /\ \E m \in ports : Key(c) = Key(m)
        /\ \A c, d \in claims : (c.instance = d.instance /\ Key(c) = Key(d)) => c = d
    BY DEF Settles
  <1> HIDE DEF count, ports
  <1>3. \A w \in pairs : g[w] \in claims /\ g[w].instance = w[1] /\ Key(g[w]) = Key(w[2])
    <2> SUFFICES ASSUME NEW w \in pairs
                 PROVE  g[w] \in claims /\ g[w].instance = w[1] /\ Key(g[w]) = Key(w[2])
      OBVIOUS
    <2>1. \E c \in claims : c.instance = w[1] /\ Key(c) = Key(w[2])
      BY <1>2
    <2>2. g[w] = CHOOSE c \in claims : c.instance = w[1] /\ Key(c) = Key(w[2])
      OBVIOUS
    <2> QED
      BY <2>1, <2>2
  <1>4. g \in [pairs -> claims]
    BY <1>3
  <1>5. \A v, w \in pairs : g[v] = g[w] => v = w
    <2> SUFFICES ASSUME NEW v \in pairs, NEW w \in pairs, g[v] = g[w]
                 PROVE  v = w
      OBVIOUS
    <2>1. v[1] = w[1] /\ Key(v[2]) = Key(w[2])
      BY <1>3
    <2>2. v[2] = w[2]
      BY <2>1, <1>1 DEF OneEach
    <2>3. v = <<v[1], v[2]>> /\ w = <<w[1], w[2]>>
      OBVIOUS
    <2> QED
      BY <2>1, <2>2, <2>3
  <1>6. \A c \in claims : \E w \in pairs : g[w] = c
    <2> SUFFICES ASSUME NEW c \in claims
                 PROVE  \E w \in pairs : g[w] = c
      OBVIOUS
    <2>1. PICK m \in ports : Key(c) = Key(m)
      BY <1>2
    <2>2. <<c.instance, m>> \in pairs
      BY <1>2
    <2>3. g[<<c.instance, m>>] = c
      BY <2>1, <2>2, <1>2, <1>3
    <2> QED
      BY <2>2, <2>3
  <1> HIDE DEF g, pairs
  <1>7. ExistsBijection(pairs, claims)
    <2>1. g \in Injection(pairs, claims)
      BY <1>4, <1>5 DEF Injection, IsInjective
    <2>2. g \in Surjection(pairs, claims)
      BY <1>4, <1>6 DEF Surjection
    <2> QED
      BY <2>1, <2>2 DEF Bijection, ExistsBijection
  <1>8. IsFiniteSet(0..(count - 1)) /\ Cardinality(0..(count - 1)) = count
    <2>1. 0 \in Int /\ count - 1 \in Int /\ ~(0 > count - 1)
      BY <1>1
    <2>2. IsFiniteSet(0..(count - 1)) /\ Cardinality(0..(count - 1)) = (count - 1) - 0 + 1
      BY <2>1, FS_Interval
    <2> QED
      BY <2>2, <1>1
  <1>9. /\ IsFiniteSet(pairs)
        /\ Cardinality(pairs) = Cardinality(0..(count - 1)) * Cardinality(ports)
    BY <1>1, <1>8, FS_Product DEF pairs
  <1>10. Cardinality(claims) = Cardinality(pairs)
    BY <1>7, <1>9, FS_Bijection
  <1> QED
    BY <1>8, <1>9, <1>10 DEF count, ports

-----------------------------------------------------------------------------
(* The properties follow from the invariant.                               *)

\* The reads of Desired are those of the tables as they stand.
LEMMA NowAt ==
  /\ \A id : List(id) = ListAt(port, id)
  /\ \A t : UsedBy(t) = UsedAt(workload, t)
  /\ \A a : ReferencedBy(a) = ReferencedAt(workload, a)
  /\ \A spec : ReadThings(spec) = ThingsAt(thing, spec)
  /\ \A spec, n : ReadAddresses(spec, n) = AddressesAt(workload, port, spec, n)
  /\ \A n : Covers(n) <=> CoversAt(workload, port, thing, n)
  <1>1. \A id : List(id) = ListAt(port, id)
    BY DEF List, ListAt
  <1>2. \A t : UsedBy(t) = UsedAt(workload, t)
    BY DEF UsedBy, UsedAt, Exists
  <1>3. \A a : ReferencedBy(a) = ReferencedAt(workload, a)
    BY DEF ReferencedBy, ReferencedAt, Exists
  <1>4. \A spec : ReadThings(spec) = ThingsAt(thing, spec)
    BY DEF ReadThings, ThingsAt, Present, Contribution
  <1>5. \A r, n : Published(r, n) = PublishedAt(workload, port, r, n)
    BY <1>1 DEF Published, PublishedAt, Exists
  <1>6. \A r, n : Address(r, n) = AddressAt(workload, port, r, n)
    BY <1>5 DEF Address, AddressAt
  <1>7. \A spec, n : ReadAddresses(spec, n) = AddressesAt(workload, port, spec, n)
    BY <1>5, <1>6 DEF ReadAddresses, AddressesAt
  <1>8. \A n : Covers(n) <=> CoversAt(workload, port, thing, n)
    BY <1>4, <1>7 DEF Covers, CoversAt
  <1> QED
    BY <1>1, <1>2, <1>3, <1>4, <1>7, <1>8

\* What the invariant says of claims is what SpecNamesItsPorts says: none missing, none
\* left over, none shared.
LEMMA PortsNamed ==
  TypeOK /\ TablesInv /\ PortsInv => SpecNamesItsPorts
  <1> SUFFICES ASSUME TypeOK, TablesInv, PortsInv,
                      NEW n \in Names, Exists(n), n \notin torn
               PROVE  LET row == workload[n]
                          claims == List(row.id)
                      IN /\ \A m \in row.spec.ports, i \in 0..(row.spec.count - 1) :
                              \E c \in claims : /\ c.instance = i /\ Key(c) = Key(m)
                                                /\ i = 0 => c.host = m.from
                         /\ Cardinality(claims) = row.spec.count * Cardinality(row.spec.ports)
                         /\ HostPorts(claims) \cap HostPorts(HeldElsewhere(n)) = {}
    BY DEF SpecNamesItsPorts
  <1> DEFINE row == workload[n]
             claims == List(row.id)
             spec == row.spec
  <1>1. row \in Row /\ spec \in Specification
    BY DEF TypeOK, Exists, Row
  <1>2. claims = ListAt(port, row.id)
    BY NowAt
  <1>3. Settles(spec, claims) /\ NamesFirst(spec, claims) /\ Valid(spec)
    BY <1>2 DEF PortsInv, TablesInv, Exists
  <1> HIDE DEF claims, spec
  <1>4. \A m \in spec.ports, i \in 0..(spec.count - 1) :
          \E c \in claims : /\ c.instance = i /\ Key(c) = Key(m)
                            /\ i = 0 => c.host = m.from
    BY <1>3 DEF Settles, NamesFirst
  <1>5. Cardinality(claims) = spec.count * Cardinality(spec.ports)
    BY <1>1, <1>3, SettledCount
  <1>6. HostPorts(claims) \cap HostPorts(HeldElsewhere(n)) = {}
    <2> SUFFICES ASSUME NEW c \in claims, NEW d \in HeldElsewhere(n),
                        <<c.host, c.protocol>> = <<d.host, d.protocol>>
                 PROVE  FALSE
      BY DEF HostPorts
    <2>1. PICK p \in port : p.workload = row.id /\ p.claim = c
      BY <1>2 DEF ListAt
    <2>2. PICK q \in port : q.workload # row.id /\ q.claim = d
      BY DEF HeldElsewhere
    <2>3. p = q
      BY <2>1, <2>2 DEF TablesInv
    <2> QED
      BY <2>1, <2>2, <2>3
  <1> QED
    BY <1>4, <1>5, <1>6 DEF claims, spec

\* A call the invariant counts on is one Owing counts.
LEMMA HashFollowed ==
  HashInv /\ CallsInv => HashFollows
  <1> SUFFICES ASSUME HashInv, CallsInv, NEW n \in Names, Exists(n), n \notin torn \cup behind,
                      ~Covers(n)
               PROVE  Owing(n)
    BY DEF HashFollows
  <1>1. PICK c \in Clients : Owes(workload, thing, call[c], n)
    BY NowAt DEF HashInv, Exists
  <1> DEFINE k == call[c]
  <1>2. \/ k.op = "rehash" /\ (n \in k.todo \/ (k.name = n /\ k.pc # "next"))
        \/ k.op # "drift" /\ k.pc = "next" /\ n \in k.todo
        \/ k.pc = "users" /\ k.op = "secret" /\ n \in UsedBy(k.thing)
        \/ k.pc = "referenced" /\ n \in ReferencedBy(k.name)
    BY <1>1, NowAt DEF Owes
  <1> QED
    BY <1>2 DEF Owing

-----------------------------------------------------------------------------
(* The invariant holds at first.                                           *)

LEMMA IdleIsCall == Idle \in Call /\ Control(Idle)
  <1>1. Idle \in Call
    <2>1. 0 \in 0..(Attempts - 1) /\ 0 \in 0..1
      BY DesiredAssumption
    <2>2. NoInputs \in Inputs
      BY DEF NoInputs, Inputs
    <2>3. "idle" \in Ops /\ FALSE \in BOOLEAN
      BY Domains
    <2> DEFINE no == FALSE
               zero == 0
               word == "idle"
    <2>4. zero \in 0..(Attempts - 1) /\ zero \in 0..1 /\ zero \in Nat
      BY <2>1
    <2>5. no \in BOOLEAN /\ word \in Ops
      BY <2>3
    <2>7. word \in Statements
      BY StatementsAre
    <2>6. Idle =
            [op |-> word, pc |-> word, name |-> NoRow, spec |-> NoRow, ifMatch |-> zero,
             seen |-> NoRow, row |-> NoRow, held |-> {}, inputs |-> NoInputs, claims |-> {},
             tries |-> zero, todo |-> {}, listed |-> {}, thing |-> NoRow, value |-> NoRow,
             force |-> no, instance |-> zero]
      BY DEF Idle
    <2> HIDE DEF no, zero, word
    <2> QED
      BY <2>2, <2>4, <2>5, <2>6, <2>7 DEF Call
  <1>2. Control(Idle)
    BY Domains DEF Control, Idle, HasRow
  <1> QED
    BY <1>1, <1>2

LEMMA IdleHolds ==
  \A w, i : ReadRows(w, i, Idle) /\ Resolves(Idle) /\ Condition(w, i, Idle)
  BY DEF ReadRows, Resolves, Condition, Idle

LEMMA InitHolds == Init => IInv
  <1> SUFFICES ASSUME Init PROVE IInv
    OBVIOUS
  <1> USE DEF Init
  <1>1. TypeOK
    BY DesiredAssumption, IdleIsCall DEF TypeOK, Exists
  <1>2. TablesInv
    BY DEF TablesInv
  <1>3. CallsInv
    BY IdleIsCall, IdleHolds DEF CallsInv, CallInv
  <1>4. PortsInv
    BY DEF PortsInv
  <1>5. HashInv
    BY DEF HashInv
  <1> QED
    BY <1>1, <1>2, <1>3, <1>4, <1>5 DEF IInv

-----------------------------------------------------------------------------
(* A step that moves one call and writes no table.                         *)

\* Only the call's own obligations are at stake.
LEMMA OneCall ==
  ASSUME IInv, NEW c \in Clients, NEW k \in Call,
         workload' = workload, port' = port, ids' = ids, thing' = thing, torn' = torn,
         behind' \in SUBSET Names, behind \subseteq behind',
         tag' \in 0..MaxTag, calls' \in 0..MaxCalls, faults' \in 0..MaxFaults,
         call' = [call EXCEPT ![c] = k],
         CallInv(workload, ids, k),
         \A n \in Names :
           (/\ workload[n] # NoRow /\ n \notin torn /\ n \notin behind'
            /\ Owes(workload, thing, call[c], n))
             => Owes(workload, thing, k, n) \/ CoversAt(workload, port, thing, n)
  PROVE  IInv'
  <1>1. call \in [Clients -> Call]
    BY DEF IInv, TypeOK
  <1>2. call'[c] = k /\ \A d \in Clients \ {c} : call'[d] = call[d]
    BY <1>1
  <1>3. TypeOK'
    <2>1. call' \in [Clients -> Call]
      BY <1>1
    <2> QED
      BY <2>1 DEF IInv, TypeOK, Exists
  <1>4. TablesInv' /\ PortsInv'
    BY DEF IInv, TablesInv, PortsInv
  <1>5. CallsInv'
    BY <1>2 DEF IInv, CallsInv
  <1>6. HashInv'
    <2> SUFFICES ASSUME NEW n \in Names, workload[n] # NoRow, n \notin torn, n \notin behind',
                        ~CoversAt(workload, port, thing, n)
                 PROVE  \E d \in Clients : Owes(workload, thing, call'[d], n)
      BY DEF HashInv
    <2>1. PICK d \in Clients : Owes(workload, thing, call[d], n)
      BY DEF IInv, HashInv
    <2>2. CASE d = c
      BY <2>1, <2>2, <1>2
    <2>3. CASE d # c
      BY <2>1, <2>3, <1>2
    <2> QED
      BY <2>2, <2>3
  <1> QED
    BY <1>3, <1>4, <1>5, <1>6 DEF IInv

-----------------------------------------------------------------------------
(* A call that goes on, or gives up.                                       *)

Ongoing == {"get", "held", "things", "addresses", "digest", "resolve", "upsert", "lookup",
            "put", "users", "mark"}

\* From these statements a call goes on to another.
LEMMA GoesOn ==
  ASSUME NEW k \in Call, Control(k), k.pc \in Ongoing
  PROVE  /\ After(k) \in DOMAIN Program[k.op] /\ After(k) # "idle"
         /\ After(k) \in Statements
  <1>0. k.op \in Ops /\ k.pc \in DOMAIN Program[k.op]
    BY DEF Call, Control
  <1>1. CASE k.op = "apply"
    BY <1>0, <1>1, Domains, AfterApply, StatementsAre DEF Ongoing
  <1>2. CASE k.op = "reallocate"
    BY <1>0, <1>2, Domains, AfterReallocate, StatementsAre DEF Ongoing
  <1>3. CASE k.op = "move"
    BY <1>0, <1>3, Domains, AfterMove, StatementsAre DEF Ongoing
  <1>4. CASE k.op = "rehash"
    BY <1>0, <1>4, Domains, AfterRehash, StatementsAre DEF Ongoing
  <1>5. CASE k.op = "drift"
    BY <1>0, <1>5, Domains, AfterDrift, StatementsAre DEF Ongoing
  <1>6. CASE k.op \in {"secret", "variable", "unset", "delete", "stop", "start"}
    BY <1>0, <1>6, Domains, AfterOthers, StatementsAre DEF Ongoing
  <1>7. CASE k.op = "idle"
    BY <1>0, <1>7, Domains DEF Ongoing
  <1> QED
    BY <1>0, <1>1, <1>2, <1>3, <1>4, <1>5, <1>6, <1>7, Domains

\* The statements other than the first read and the resolution change nothing a call
\* brings along.
LEMMA Advance ==
  ASSUME NEW w, NEW i, NEW k \in Call, NEW j \in Call, CallInv(w, i, k),
         k.pc \in Ongoing \ {"get", "resolve"},
         j.pc = After(k), j.op = k.op, j.name = k.name, j.spec = k.spec,
         j.ifMatch = k.ifMatch, j.seen = k.seen, j.row = k.row, j.claims = k.claims,
         j.listed = k.listed, j.thing = k.thing, j.instance = k.instance,
         j.todo = k.todo \/ k.op # "drift"
  PROVE  CallInv(w, i, j)
  <1>0. /\ k.op \in Ops /\ k.pc \in DOMAIN Program[k.op] /\ k.pc \in Ongoing
        /\ k.pc \notin {"get", "resolve"} /\ k.pc # "next" /\ k.pc # "idle" /\ k.pc # "claim"
    BY DEF Call, CallInv, Control, Ongoing
  <1>1. j.pc \in DOMAIN Program[j.op] /\ j.pc # "idle"
    BY <1>0, GoesOn DEF CallInv
  <1>2. HasRow(j) => HasRow(k)
    BY <1>0 DEF HasRow
  <1>3. Control(j)
    BY <1>0, <1>1, <1>2 DEF CallInv, Control
  <1>4. ReadRows(w, i, j)
    BY DEF CallInv, ReadRows
  <1>5. Condition(w, i, j)
    BY DEF CallInv, Condition
  <1>6. Resolves(j)
    <2>1. CASE j.op = "apply"
      BY <2>1, <1>0, AfterApply, Domains DEF CallInv, Resolves
    <2>2. CASE j.op = "reallocate"
      BY <2>2, <1>0, AfterReallocate, Domains DEF CallInv, Resolves
    <2>3. CASE j.op = "move"
      BY <2>3, <1>0, AfterMove, Domains DEF CallInv, Resolves
    <2> QED
      BY <2>1, <2>2, <2>3 DEF Resolves
  <1> QED
    BY <1>3, <1>4, <1>5, <1>6 DEF CallInv

\* A client with no call in flight brings nothing along.
LEMMA IdleCall == \A w, i : CallInv(w, i, Idle)
  BY IdleIsCall, IdleHolds DEF CallInv

\* A call that is given up is over, or goes on with the next reader.
GivenUp(k) == IF Chained(k) THEN [k EXCEPT !.pc = "next"] ELSE Idle

\* What is left of a call that is given up is a call.
LEMMA Aborts ==
  ASSUME NEW w, NEW i, NEW k \in Call, CallInv(w, i, k)
  PROVE  GivenUp(k) \in Call /\ CallInv(w, i, GivenUp(k))
  <1>1. CASE ~Chained(k)
    BY <1>1, IdleIsCall, IdleCall DEF GivenUp
  <1>2. CASE Chained(k)
    <2> DEFINE j == [k EXCEPT !.pc = "next"]
    <2>1. j \in Call
      BY StatementsAre DEF Call
    <2>2. /\ j.pc = "next" /\ j.op = k.op /\ j.name = k.name /\ j.spec = k.spec
          /\ j.seen = k.seen /\ j.row = k.row /\ j.listed = k.listed /\ j.todo = k.todo
          /\ j.ifMatch = k.ifMatch /\ k.op \in {"rehash", "drift"}
      BY <1>2 DEF Call, Chained
    <2> HIDE DEF j
    <2>3. Control(j)
      BY <2>2, Domains DEF CallInv, Control, HasRow
    <2>4. ReadRows(w, i, j) /\ Condition(w, i, j) /\ Resolves(j)
      BY <2>2 DEF CallInv, ReadRows, Condition, Resolves
    <2>5. GivenUp(k) = j
      BY <1>2 DEF GivenUp, j
    <2> QED
      BY <2>1, <2>3, <2>4, <2>5 DEF CallInv
  <1> QED
    BY <1>1, <1>2

\* A call that is given up, with no table written.
LEMMA Quits ==
  ASSUME IInv, NEW c \in Clients,
         workload' = workload, port' = port, ids' = ids, thing' = thing, torn' = torn,
         behind' \in SUBSET Names, behind \subseteq behind',
         tag' = tag, calls' = calls, faults' \in 0..MaxFaults,
         Abort(c, call[c]),
         call[c].pc # "next",
         \A n \in Names :
           (/\ workload[n] # NoRow /\ n \notin torn /\ n \notin behind'
            /\ Owes(workload, thing, call[c], n)
            /\ ~(call[c].op = "rehash" /\ n \in call[c].todo))
             => CoversAt(workload, port, thing, n)
  PROVE  IInv'
  <1> DEFINE k == call[c]
             j == GivenUp(k)
  <1>1. k \in Call /\ CallInv(workload, ids, k)
    BY DEF IInv, TypeOK, CallsInv
  <1>2. tag' \in 0..MaxTag /\ calls' \in 0..MaxCalls
    BY DEF IInv, TypeOK
  <1>3. call' = [call EXCEPT ![c] = j]
    BY DEF Abort, GivenUp
  <1> HIDE DEF j
  <1>4. j \in Call /\ CallInv(workload, ids, j)
    BY <1>1, Aborts DEF j
  <1>5. k.op \in {"rehash", "drift"} => j.op = k.op /\ j.todo = k.todo
    BY <1>1 DEF j, GivenUp, Chained, Call
  <1>6. ASSUME NEW n \in Names, workload[n] # NoRow, n \notin torn, n \notin behind',
               Owes(workload, thing, k, n)
        PROVE  Owes(workload, thing, j, n) \/ CoversAt(workload, port, thing, n)
    BY <1>5, <1>6 DEF Owes
  <1> QED
    BY <1>2, <1>3, <1>4, <1>6, OneCall

LEMMA IdleFields ==
  /\ Idle.op = "idle" /\ Idle.pc = "idle" /\ Idle.name = NoRow /\ Idle.spec = NoRow
  /\ Idle.ifMatch = 0 /\ Idle.seen = NoRow /\ Idle.row = NoRow /\ Idle.held = {}
  /\ Idle.claims = {} /\ Idle.todo = {} /\ Idle.listed = {} /\ Idle.thing = NoRow
  /\ Idle.instance = 0
  BY DEF Idle

\* A call that begins.
LEMMA Begins ==
  ASSUME IInv, NEW c \in Clients, At(c, "idle"), calls < MaxCalls, NEW j \in Call,
         CallInv(workload, ids, j), call' = [call EXCEPT ![c] = j], calls' = calls + 1,
         UNCHANGED <<tables, tag, faults, history>>
  PROVE  IInv'
  <1>1. call[c] = Idle
    BY DEF IInv, CallsInv, CallInv, Control, At
  <1>2. /\ workload' = workload /\ port' = port /\ ids' = ids /\ thing' = thing
        /\ torn' = torn /\ behind' = behind /\ tag' = tag /\ faults' = faults
    BY DEF tables, history
  <1>3. calls' \in 0..MaxCalls
    BY DesiredAssumption DEF IInv, TypeOK
  <1>4. tag' \in 0..MaxTag /\ faults' \in 0..MaxFaults /\ behind' \in SUBSET Names
    BY <1>2 DEF IInv, TypeOK
  <1>5. \A n \in Names : ~Owes(workload, thing, call[c], n)
    BY <1>1, IdleFields DEF Owes
  <1> QED
    BY <1>2, <1>3, <1>4, <1>5, OneCall

-----------------------------------------------------------------------------
(* Calls begin.                                                            *)

\* A conditional apply begins with the version of a row that is there.
LEMMA ApplyHolds ==
  ASSUME IInv, NEW c \in Clients, Apply(c)
  PROVE  IInv'
  <1>0. PICK m \in Manifests : \E seen \in {NoRow, workload[m.name]} :
          Begin(c, [Idle EXCEPT !.op = "apply", !.name = m.name, !.spec = m.spec,
                                !.seen = seen,
                                !.ifMatch = IF seen = NoRow THEN 0 ELSE seen.version])
    BY DEF Apply
  <1>1. PICK seen \in {NoRow, workload[m.name]} :
          Begin(c, [Idle EXCEPT !.op = "apply", !.name = m.name, !.spec = m.spec,
                                !.seen = seen,
                                !.ifMatch = IF seen = NoRow THEN 0 ELSE seen.version])
    BY <1>0
  <1> DEFINE v == IF seen = NoRow THEN 0 ELSE seen.version
             k == [Idle EXCEPT !.op = "apply", !.name = m.name, !.spec = m.spec,
                               !.seen = seen, !.ifMatch = v]
             j == [k EXCEPT !.pc = After(k)]
  <1>2. m.name \in Names /\ m.spec \in Specification /\ Valid(m.spec)
    BY DesiredAssumption DEF Valid
  <1>3. /\ seen \in Row \cup {NoRow} /\ v \in Nat
        /\ seen # NoRow => seen = workload[m.name] /\ seen.version # 0 /\ seen.id <= ids
    BY <1>2 DEF IInv, TypeOK, Exists, Row
  <1> HIDE DEF v
  <1>4. k.op = "apply" /\ k.pc = "idle"
    BY IdleIsCall, IdleFields DEF Call
  <1>5. After(k) = "get"
    BY <1>4, AfterApply
  <1>6. j = [Idle EXCEPT !.op = "apply", !.name = m.name, !.spec = m.spec,
                         !.seen = seen, !.ifMatch = v, !.pc = "get"]
    BY <1>5
  <1>7. "apply" \in Ops /\ "get" \in Statements
    BY Domains, StatementsAre
  <1> HIDE DEF j
  <1>8. j \in Call
    BY <1>2, <1>3, <1>6, <1>7, IdleIsCall DEF Call
  <1>9. /\ j.op = "apply" /\ j.pc = "get" /\ j.name = m.name /\ j.spec = m.spec
        /\ j.seen = seen /\ j.ifMatch = v /\ j.row = NoRow /\ j.listed = {}
    BY <1>6, IdleIsCall, IdleFields DEF Call
  <1>10. Control(j)
    BY <1>2, <1>9, Domains DEF Control, HasRow
  <1>11. ReadRows(workload, ids, j) /\ Resolves(j)
    BY <1>9 DEF ReadRows, Resolves
  <1>12. Condition(workload, ids, j)
    <2>1. SUFFICES ASSUME seen # NoRow
                   PROVE  Condition(workload, ids, j)
      BY <1>9 DEF Condition
    <2>2. seen.version \in Nat /\ v = seen.version
      BY <2>1, <1>3 DEF Row, v
    <2> QED
      BY <1>3, <1>9, <2>1, <2>2 DEF Condition
  <1> QED
    BY <1>1, <1>8, <1>10, <1>11, <1>12, Begins DEF Begin, CallInv, j, v

\* The calls that bring no specification: what they need is their name or their thing.
LEMMA BeginsPlain ==
  ASSUME NEW k \in Call, NEW w, NEW i,
         k.pc = "idle", k.op \in Ops \ {"apply", "idle", "rehash", "drift"},
         k.row = NoRow, k.seen = NoRow, k.listed = {},
         k.op \in {"reallocate", "move", "delete", "stop", "start"} => k.name \in Names,
         k.op \in {"secret", "variable", "unset"} => k.thing \in Things,
         k.op = "move" => k.instance = 1
  PROVE  /\ [k EXCEPT !.pc = After(k)] \in Call
         /\ CallInv(w, i, [k EXCEPT !.pc = After(k)])
  <1> DEFINE j == [k EXCEPT !.pc = After(k)]
  <1>1. After(k) \in DOMAIN Program[k.op] /\ After(k) \in {"get", "lookup", "users", "mark"}
    BY AfterReallocate, AfterMove, AfterOthers, Domains
  <1>2. After(k) \in Statements
    BY <1>1, StatementsAre
  <1>3. j \in Call
    BY <1>2 DEF Call
  <1>4. /\ j.pc = After(k) /\ j.op = k.op /\ j.name = k.name /\ j.thing = k.thing
        /\ j.row = k.row /\ j.seen = k.seen /\ j.listed = k.listed /\ j.instance = k.instance
    BY DEF Call
  <1>5. j.op \in {"reallocate", "move"} => j.pc = "get"
    BY <1>4, AfterReallocate, AfterMove
  <1> HIDE DEF j
  <1>6. Control(j)
    BY <1>1, <1>4, <1>5 DEF Control, HasRow
  <1>7. ReadRows(w, i, j) /\ Resolves(j) /\ Condition(w, i, j)
    BY <1>1, <1>4, <1>5 DEF ReadRows, Resolves, Condition
  <1> QED
    BY <1>3, <1>6, <1>7 DEF CallInv, j

\* The calls that begin with a name or a thing.
LEMMA PlainStartsHold ==
  ASSUME IInv, NEW c \in Clients,
         Set(c) \/ Unset(c) \/ Delete(c) \/ Hold(c) \/ Reallocate(c)
  PROVE  IInv'
  <1>0. ASSUME NEW k \in Call, Begin(c, k),
               k.pc = "idle", k.op \in Ops \ {"apply", "idle", "rehash", "drift"},
               k.row = NoRow, k.seen = NoRow, k.listed = {},
               k.op \in {"reallocate", "move", "delete", "stop", "start"} => k.name \in Names,
               k.op \in {"secret", "variable", "unset"} => k.thing \in Things,
               k.op = "move" => k.instance = 1
        PROVE  IInv'
    <2> DEFINE j == [k EXCEPT !.pc = After(k)]
    <2>1. j \in Call /\ CallInv(workload, ids, j)
      BY <1>0, BeginsPlain
    <2>2. /\ At(c, "idle") /\ calls < MaxCalls /\ call' = [call EXCEPT ![c] = j]
          /\ calls' = calls + 1 /\ UNCHANGED <<tables, tag, faults, history>>
      BY <1>0 DEF Begin
    <2> HIDE DEF j
    <2> QED
      BY <2>1, <2>2, Begins
  <1>1. CASE Set(c)
    <2>0. PICK t \in Things, v \in Values : \E seen \in {0, thing[t].version} :
            Begin(c, [Idle EXCEPT !.op = IF t \in Secrets THEN "secret" ELSE "variable",
                                  !.thing = t, !.value = v, !.ifMatch = seen])
      BY <1>1 DEF Set
    <2>1. PICK seen \in {0, thing[t].version} :
            Begin(c, [Idle EXCEPT !.op = IF t \in Secrets THEN "secret" ELSE "variable",
                                  !.thing = t, !.value = v, !.ifMatch = seen])
      BY <2>0
    <2> DEFINE o == IF t \in Secrets THEN "secret" ELSE "variable"
               k == [Idle EXCEPT !.op = o, !.thing = t, !.value = v, !.ifMatch = seen]
    <2>2. seen \in Nat
      BY DEF IInv, TypeOK
    <2>3. o \in Ops /\ o \in {"secret", "variable"}
      BY Domains
    <2>4. Begin(c, k)
      BY <2>1
    <2> HIDE DEF o
    <2>5. k \in Call
      BY <2>2, <2>3, IdleIsCall DEF Call
    <2>6. /\ k.op = o /\ k.pc = "idle" /\ k.thing = t /\ k.row = NoRow /\ k.seen = NoRow
          /\ k.listed = {}
      BY IdleIsCall, IdleFields DEF Call
    <2> HIDE DEF k
    <2> QED
      BY <2>3, <2>4, <2>5, <2>6, <1>0
  <1>2. CASE Unset(c)
    <2>1. PICK t \in Things, f \in BOOLEAN :
            Begin(c, [Idle EXCEPT !.op = "unset", !.thing = t, !.force = f])
      BY <1>2 DEF Unset
    <2> DEFINE k == [Idle EXCEPT !.op = "unset", !.thing = t, !.force = f]
    <2>4. "unset" \in Ops /\ "unset" \in Ops \ {"apply", "idle", "rehash", "drift"}
      BY Domains
    <2>5. Begin(c, k)
      BY <2>1
    <2>2. k \in Call
      BY <2>4, IdleIsCall DEF Call
    <2>3. /\ k.op = "unset" /\ k.pc = "idle" /\ k.thing = t /\ k.row = NoRow
          /\ k.seen = NoRow /\ k.listed = {}
      BY IdleIsCall, IdleFields DEF Call
    <2> HIDE DEF k
    <2>6. /\ k.op \in Ops \ {"apply", "idle", "rehash", "drift"}
          /\ k.op \in {"reallocate", "move", "delete", "stop", "start"} => k.name \in Names
          /\ k.op \in {"secret", "variable", "unset"} => k.thing \in Things
          /\ k.op = "move" => k.instance = 1
      BY <2>3, <2>4
    <2> QED
      BY <2>2, <2>3, <2>5, <2>6, <1>0
  <1>3. CASE Delete(c)
    <2>1. PICK n \in Names, f \in BOOLEAN :
            Begin(c, [Idle EXCEPT !.op = "delete", !.name = n, !.force = f])
      BY <1>3 DEF Delete
    <2> DEFINE k == [Idle EXCEPT !.op = "delete", !.name = n, !.force = f]
    <2>4. "delete" \in Ops /\ "delete" \in Ops \ {"apply", "idle", "rehash", "drift"}
      BY Domains
    <2>5. Begin(c, k)
      BY <2>1
    <2>2. k \in Call
      BY <2>4, IdleIsCall DEF Call
    <2>3. /\ k.op = "delete" /\ k.pc = "idle" /\ k.name = n /\ k.row = NoRow
          /\ k.seen = NoRow /\ k.listed = {}
      BY IdleIsCall, IdleFields DEF Call
    <2> HIDE DEF k
    <2>6. /\ k.op \in Ops \ {"apply", "idle", "rehash", "drift"}
          /\ k.op \in {"reallocate", "move", "delete", "stop", "start"} => k.name \in Names
          /\ k.op \in {"secret", "variable", "unset"} => k.thing \in Things
          /\ k.op = "move" => k.instance = 1
      BY <2>3, <2>4
    <2> QED
      BY <2>2, <2>3, <2>5, <2>6, <1>0
  <1>4. CASE Hold(c)
    <2>1. PICK n \in Names, op \in {"stop", "start"} :
            Begin(c, [Idle EXCEPT !.op = op, !.name = n])
      BY <1>4 DEF Hold
    <2> DEFINE k == [Idle EXCEPT !.op = op, !.name = n]
    <2>4. op \in Ops /\ op \in Ops \ {"apply", "idle", "rehash", "drift"}
      BY Domains
    <2>5. Begin(c, k)
      BY <2>1
    <2>2. k \in Call
      BY <2>4, IdleIsCall DEF Call
    <2>3. /\ k.op = op /\ k.pc = "idle" /\ k.name = n /\ k.row = NoRow
          /\ k.seen = NoRow /\ k.listed = {}
      BY IdleIsCall, IdleFields DEF Call
    <2> HIDE DEF k
    <2>6. /\ k.op \in Ops \ {"apply", "idle", "rehash", "drift"}
          /\ k.op \in {"reallocate", "move", "delete", "stop", "start"} => k.name \in Names
          /\ k.op \in {"secret", "variable", "unset"} => k.thing \in Things
          /\ k.op = "move" => k.instance = 1
      BY <2>3, <2>4
    <2> QED
      BY <2>2, <2>3, <2>5, <2>6, <1>0
  <1>5. CASE Reallocate(c)
    <2>1. PICK n \in Names, x \in 0..1 :
            Begin(c, [Idle EXCEPT !.op = IF x = 0 THEN "reallocate" ELSE "move",
                                  !.name = n, !.instance = x])
      BY <1>5 DEF Reallocate
    <2> DEFINE o == IF x = 0 THEN "reallocate" ELSE "move"
               k == [Idle EXCEPT !.op = o, !.name = n, !.instance = x]
    <2>2. o \in Ops /\ o \in {"reallocate", "move"} /\ (o = "move" => x = 1)
      BY Domains
    <2>3. Begin(c, k)
      BY <2>1
    <2> HIDE DEF o
    <2>4. k \in Call
      BY <2>2, IdleIsCall DEF Call
    <2>5. /\ k.op = o /\ k.pc = "idle" /\ k.name = n /\ k.row = NoRow
          /\ k.seen = NoRow /\ k.listed = {} /\ k.instance = x
      BY IdleIsCall, IdleFields DEF Call
    <2> HIDE DEF k
    <2> QED
      BY <2>2, <2>3, <2>4, <2>5, <1>0
  <1> QED
    BY <1>1, <1>2, <1>3, <1>4, <1>5

\* The list a drift check works from is of rows that are there.
LEMMA DriftHolds ==
  ASSUME IInv, NEW c \in Clients, Drift(c)
  PROVE  IInv'
  <1> DEFINE pulled == {n \in Names : Exists(n) /\ workload[n].spec.pull # "missing"}
             listed == {n \in pulled : ~workload[n].deleted /\ ~workload[n].suspended}
             rows == {<<n, workload[n]>> : n \in listed}
             j == [Idle EXCEPT !.op = "drift", !.pc = "next", !.todo = listed,
                               !.listed = rows]
  <1>1. /\ At(c, "idle") /\ calls < MaxCalls /\ call' = [call EXCEPT ![c] = j]
        /\ calls' = calls + 1 /\ UNCHANGED <<tables, tag, faults, history>>
    BY DEF Drift
  <1>2. listed \in SUBSET Names /\ \A n \in listed : workload[n] # NoRow
    BY DEF Exists
  <1> HIDE DEF listed
  <1>3. /\ rows \in SUBSET (Names \X Row)
        /\ \A l \in rows : \E n \in listed : l = <<n, workload[n]>>
        /\ \A n \in listed : <<n, workload[n]>> \in rows
    BY <1>2 DEF IInv, TypeOK
  <1> HIDE DEF rows
  <1>0. "drift" \in Ops /\ "next" \in Statements
    BY Domains, StatementsAre
  <1>4. j \in Call
    BY <1>0, <1>2, <1>3, IdleIsCall DEF Call
  <1>5. /\ j.op = "drift" /\ j.pc = "next" /\ j.todo = listed /\ j.listed = rows
        /\ j.row = NoRow /\ j.seen = NoRow
    BY IdleIsCall, IdleFields DEF Call
  <1> HIDE DEF j
  <1>6. \A n \in listed : <<n, workload[n]>>[1] = n
    OBVIOUS
  <1>7. Control(j)
    <2>1. \A n \in listed : \E l \in rows : l[1] = n
      BY <1>3, <1>6
    <2> QED
      BY <2>1, <1>5, Domains DEF Control, HasRow
  <1>8. ReadRows(workload, ids, j)
    <2>1. \A n \in listed : Belongs(workload, ids, workload[n], n)
      BY <1>2 DEF IInv, TypeOK, TablesInv, Belongs, Exists
    <2>2. ASSUME NEW l \in rows PROVE Belongs(workload, ids, l[2], l[1])
      BY <1>3, <2>1
    <2> QED
      BY <2>2, <1>5 DEF ReadRows
  <1>9. Resolves(j) /\ Condition(workload, ids, j)
    BY <1>5 DEF Resolves, Condition
  <1> QED
    BY <1>1, <1>4, <1>7, <1>8, <1>9, Begins DEF CallInv

-----------------------------------------------------------------------------
(* Statements that read.                                                   *)

\* A statement that reads moves its call and nothing else.
LEMMA ReadStep ==
  ASSUME IInv, NEW c \in Clients, UNCHANGED Reading, NEW j \in Call,
         call' = [call EXCEPT ![c] = j], CallInv(workload, ids, j),
         \A n \in Names :
           (/\ workload[n] # NoRow /\ n \notin torn /\ n \notin behind
            /\ Owes(workload, thing, call[c], n))
             => Owes(workload, thing, j, n) \/ CoversAt(workload, port, thing, n)
  PROVE  IInv'
  <1>1. /\ workload' = workload /\ port' = port /\ ids' = ids /\ thing' = thing
        /\ torn' = torn /\ behind' = behind /\ tag' = tag /\ faults' = faults
        /\ calls' = calls
    BY DEF Reading, tables, history
  <1>2. /\ tag' \in 0..MaxTag /\ faults' \in 0..MaxFaults /\ calls' \in 0..MaxCalls
        /\ behind' \in SUBSET Names
    BY <1>1 DEF IInv, TypeOK
  <1> QED
    BY <1>1, <1>2, OneCall

\* A statement that reads may end its call.
LEMMA ReadQuits ==
  ASSUME IInv, NEW c \in Clients, UNCHANGED Reading, Abort(c, call[c]), call[c].pc # "next",
         \A n \in Names :
           (/\ workload[n] # NoRow /\ n \notin torn /\ n \notin behind
            /\ Owes(workload, thing, call[c], n)
            /\ ~(call[c].op = "rehash" /\ n \in call[c].todo))
             => CoversAt(workload, port, thing, n)
  PROVE  IInv'
  <1>1. /\ workload' = workload /\ port' = port /\ ids' = ids /\ thing' = thing
        /\ torn' = torn /\ behind' = behind /\ tag' = tag /\ faults' = faults
        /\ calls' = calls
    BY DEF Reading, tables, history
  <1>2. faults' \in 0..MaxFaults /\ behind' \in SUBSET Names
    BY <1>1 DEF IInv, TypeOK
  <1> QED
    BY <1>1, <1>2, Quits

\* A call that is reading for a hash, or is about to write, has its specification.
LEMMA SpecHeld ==
  ASSUME NEW w, NEW i, NEW k \in Call, CallInv(w, i, k),
         k.pc \in {"things", "addresses", "digest", "resolve", "upsert", "claim"}
  PROVE  /\ k.spec \in Specification /\ Valid(k.spec) /\ k.name \in Names
         /\ k.op \in {"apply", "reallocate", "move", "rehash", "drift"}
         /\ k.op # "apply" => k.row \in Row /\ k.row # NoRow /\ k.spec = k.row.spec
  <1>1. k.op \in {"apply", "reallocate", "move", "rehash", "drift"}
    BY Domains DEF CallInv, Control, Call
  <1>2. k.name \in Names
    BY <1>1 DEF CallInv, Control
  <1>3. CASE k.op = "apply"
    BY <1>1, <1>2, <1>3 DEF CallInv, Control
  <1>4. CASE k.op # "apply"
    <2>1. k.row # NoRow /\ k.spec = k.row.spec
      BY <1>1, <1>4 DEF CallInv, Control, HasRow
    <2>2. k.row \in Row /\ Valid(k.row.spec)
      BY <2>1 DEF Call, CallInv, ReadRows, Belongs
    <2> QED
      BY <1>1, <1>2, <2>1, <2>2 DEF Row
  <1> QED
    BY <1>3, <1>4

\* A call that goes on from a statement that is not the first read or the resolution.
LEMMA Proceeds ==
  ASSUME NEW w, NEW i, NEW c \in Clients, NEW k \in Call, NEW j \in Call, CallInv(w, i, k),
         k.pc \in Ongoing \ {"get", "resolve"}, Proceed(c, j),
         j.pc = k.pc, j.op = k.op, j.name = k.name, j.spec = k.spec,
         j.ifMatch = k.ifMatch, j.seen = k.seen, j.row = k.row, j.claims = k.claims,
         j.listed = k.listed, j.thing = k.thing, j.instance = k.instance,
         j.todo = k.todo \/ k.op # "drift"
  PROVE  \E l \in Call :
           /\ call' = [call EXCEPT ![c] = l] /\ CallInv(w, i, l)
           /\ l = [j EXCEPT !.pc = After(k)]
           /\ l.pc = After(k) /\ l.op = k.op /\ l.name = k.name /\ l.todo = j.todo
           /\ l.row = k.row /\ l.spec = k.spec /\ l.inputs = j.inputs /\ l.held = j.held
           /\ l.thing = k.thing
  <1> DEFINE l == [j EXCEPT !.pc = After(k)]
  <1>1. After(k) \in Statements /\ After(k) # "idle"
    BY GoesOn DEF CallInv
  <1>2. After(j) = After(k)
    BY DEF After
  <1>3. call' = [call EXCEPT ![c] = l]
    BY <1>1, <1>2 DEF Proceed
  <1>4. l \in Call
    BY <1>1 DEF Call
  <1>5. /\ l.pc = After(k) /\ l.op = k.op /\ l.name = k.name /\ l.spec = k.spec
        /\ l.ifMatch = k.ifMatch /\ l.seen = k.seen /\ l.row = k.row /\ l.claims = k.claims
        /\ l.listed = k.listed /\ l.thing = k.thing /\ l.instance = k.instance
        /\ l.todo = j.todo /\ l.inputs = j.inputs /\ l.held = j.held
    BY DEF Call
  <1>6. l = [j EXCEPT !.pc = After(k)]
    OBVIOUS
  <1> HIDE DEF l
  <1>7. CallInv(w, i, l)
    BY <1>4, <1>5, Advance
  <1> QED
    BY <1>3, <1>4, <1>5, <1>6, <1>7

\* The ports are listed of the row as it was read.
LEMMA HeldHolds ==
  ASSUME IInv, NEW c \in Clients, Held(c)
  PROVE  IInv'
  <1> DEFINE k == call[c]
             held == IF k.row = NoRow THEN {} ELSE List(k.row.id)
             j == [k EXCEPT !.held = held]
  <1>1. k \in Call /\ CallInv(workload, ids, k) /\ k.pc = "held" /\ UNCHANGED Reading
    BY DEF IInv, TypeOK, CallsInv, Held, At
  <1>2. \/ k.op \in {"reallocate", "move"} /\ Abort(c, k)
        \/ Proceed(c, j)
    BY DEF Held
  <1>3. CASE k.op \in {"reallocate", "move"} /\ Abort(c, k)
    <2>1. \A n \in Names : ~Owes(workload, thing, k, n)
      BY <1>1, <1>3 DEF Owes
    <2> QED
      BY <2>1, <1>1, <1>3, ReadQuits
  <1>4. CASE Proceed(c, j)
    <2>1. held \in SUBSET Claim
      BY DEF List, IInv, TypeOK
    <2> HIDE DEF held
    <2>2. j \in Call
      BY <1>1, <2>1 DEF Call
    <2>3. /\ j.pc = k.pc /\ j.op = k.op /\ j.name = k.name /\ j.spec = k.spec
          /\ j.ifMatch = k.ifMatch /\ j.seen = k.seen /\ j.row = k.row
          /\ j.claims = k.claims /\ j.listed = k.listed /\ j.thing = k.thing
          /\ j.instance = k.instance /\ j.todo = k.todo
      BY <1>1 DEF Call
    <2> HIDE DEF j
    <2>4. k.pc \in Ongoing \ {"get", "resolve"}
      BY <1>1 DEF Ongoing
    <2>5. PICK l \in Call :
            /\ call' = [call EXCEPT ![c] = l] /\ CallInv(workload, ids, l)
            /\ l.pc = After(k) /\ l.op = k.op /\ l.name = k.name /\ l.todo = j.todo
      BY <1>1, <1>4, <2>2, <2>3, <2>4, Proceeds
    <2>6. k.op = "rehash" => l.pc = "upsert"
      BY <1>1, <2>5, AfterRehash
    <2>7. \A n \in Names : Owes(workload, thing, k, n) => Owes(workload, thing, l, n)
      BY <1>1, <2>3, <2>5, <2>6 DEF Owes
    <2> QED
      BY <1>1, <2>5, <2>7, ReadStep
  <1> QED
    BY <1>2, <1>3, <1>4

LEMMA ThingsTyped ==
  ASSUME TypeOK, NEW spec \in Specification
  PROVE  ThingsAt(thing, spec) \in SUBSET (Things \X (Nat \cup Values \cup {NoRow}))
  <1>1. \A t \in Things : /\ thing[t].revision \in Nat
                          /\ thing[t].value \in Values \cup {NoRow}
    BY DEF TypeOK
  <1>2. spec.reads \in SUBSET Things
    BY DEF Specification
  <1> QED
    BY <1>1, <1>2 DEF ThingsAt

LEMMA AddressesTyped ==
  ASSUME TypeOK, NEW spec \in Specification, NEW n
  PROVE  AddressesAt(workload, port, spec, n) \in SUBSET (Reference \X Nat)
  <1>1. spec.refs \in SUBSET Reference
    BY DEF Specification
  <1>2. ASSUME NEW r, PublishedAt(workload, port, r, n) # {}
        PROVE  AddressAt(workload, port, r, n) \in Nat
    <2>1. PICK x : x = (CHOOSE c \in PublishedAt(workload, port, r, n) : TRUE)
      OBVIOUS
    <2>2. x \in PublishedAt(workload, port, r, n)
      BY <1>2, <2>1
    <2>3. PICK id : x \in ListAt(port, id)
      BY <2>2 DEF PublishedAt
    <2>4. x \in Claim
      BY <2>3 DEF ListAt, TypeOK
    <2> QED
      BY <2>1, <2>4 DEF AddressAt, Claim
  <1> QED
    BY <1>1, <1>2 DEF AddressesAt

\* From here on a rehash counts only as long as what it read of things stands.
LEMMA ReadsThingsHolds ==
  ASSUME IInv, NEW c \in Clients, ReadsThings(c)
  PROVE  IInv'
  <1> DEFINE k == call[c]
             read == ReadThings(k.spec)
             inputs == [k.inputs EXCEPT !.things = read]
             j == [k EXCEPT !.inputs = inputs]
  <1>1. k \in Call /\ CallInv(workload, ids, k) /\ k.pc = "things" /\ UNCHANGED Reading
    BY DEF IInv, TypeOK, CallsInv, ReadsThings, At
  <1>2. \/ k.op = "apply" /\ Abort(c, k)
        \/ Proceed(c, j)
    BY DEF ReadsThings
  <1>3. CASE k.op = "apply" /\ Abort(c, k)
    <2>1. \A n \in Names : ~Owes(workload, thing, k, n)
      BY <1>1, <1>3 DEF Owes
    <2> QED
      BY <2>1, <1>1, <1>3, ReadQuits
  <1>4. CASE Proceed(c, j)
    <2>0. k.spec \in Specification
      BY <1>1, SpecHeld
    <2>1. read = ThingsAt(thing, k.spec)
      BY NowAt
    <2>2. read \in SUBSET (Things \X (Nat \cup Values \cup {NoRow}))
      BY <2>0, <2>1, ThingsTyped DEF IInv
    <2> HIDE DEF read
    <2>3. k.inputs \in Inputs
      BY <1>1 DEF Call
    <2>4. inputs \in Inputs /\ inputs.things = read
      BY <2>2, <2>3 DEF Inputs
    <2> HIDE DEF inputs
    <2>5. j \in Call
      BY <1>1, <2>4 DEF Call
    <2>6. /\ j.pc = k.pc /\ j.op = k.op /\ j.name = k.name /\ j.spec = k.spec
          /\ j.ifMatch = k.ifMatch /\ j.seen = k.seen /\ j.row = k.row
          /\ j.claims = k.claims /\ j.listed = k.listed /\ j.thing = k.thing
          /\ j.instance = k.instance /\ j.todo = k.todo /\ j.inputs = inputs
      BY <1>1 DEF Call
    <2> HIDE DEF j
    <2>7. k.pc \in Ongoing \ {"get", "resolve"}
      BY <1>1 DEF Ongoing
    <2>8. PICK l \in Call :
            /\ call' = [call EXCEPT ![c] = l] /\ CallInv(workload, ids, l)
            /\ l.pc = After(k) /\ l.op = k.op /\ l.name = k.name /\ l.todo = j.todo
            /\ l.row = k.row /\ l.spec = k.spec /\ l.inputs = j.inputs
      BY <1>1, <1>4, <2>5, <2>6, <2>7, Proceeds
    <2>9. k.op = "rehash" => l.pc = "addresses"
      BY <1>1, <2>8, AfterRehash
    <2>10. \A n \in Names : Owes(workload, thing, k, n) => Owes(workload, thing, l, n)
      BY <1>1, <2>1, <2>4, <2>6, <2>8, <2>9 DEF Owes
    <2> QED
      BY <1>1, <2>8, <2>10, ReadStep
  <1> QED
    BY <1>2, <1>3, <1>4

\* A rehash that finds the hash the row has is done, since the hash is the row's still
\* and covers what is read; one that finds another goes on to the write.
LEMMA ReadsAddressesHolds ==
  ASSUME IInv, NEW c \in Clients, ReadsAddresses(c)
  PROVE  IInv'
  <1> DEFINE k == call[c]
             read == ReadAddresses(k.spec, k.name)
             inputs == [k.inputs EXCEPT !.addresses = read]
             j == [k EXCEPT !.inputs = inputs]
  <1>1. k \in Call /\ CallInv(workload, ids, k) /\ k.pc = "addresses" /\ UNCHANGED Reading
    BY DEF IInv, TypeOK, CallsInv, ReadsAddresses, At
  <1>2. k.spec \in Specification /\ k.name \in Names /\ k.inputs \in Inputs
    BY <1>1, SpecHeld DEF Call
  <1>3. read = AddressesAt(workload, port, k.spec, k.name)
    BY NowAt
  <1>4. read \in SUBSET (Reference \X Nat)
    BY <1>2, <1>3, AddressesTyped DEF IInv
  <1>5. j.inputs = inputs
    BY <1>1 DEF Call
  <1>6. \/ k.op \in {"apply", "drift"} /\ Abort(c, k)
        \/ Chained(k) /\ k.row.hash = Compute(k.spec, inputs) /\ Abort(c, k)
        \/ Proceed(c, j)
    BY <1>5 DEF ReadsAddresses
  <1> HIDE DEF read
  <1>7. inputs \in Inputs /\ inputs.addresses = read /\ inputs.things = k.inputs.things
    BY <1>2, <1>4 DEF Inputs
  <1> HIDE DEF inputs
  <1>8. CASE k.op \in {"apply", "drift"} /\ Abort(c, k)
    <2>1. \A n \in Names : ~Owes(workload, thing, k, n)
      BY <1>1, <1>8 DEF Owes
    <2> QED
      BY <2>1, <1>1, <1>8, ReadQuits
  <1>9. CASE Chained(k) /\ k.row.hash = Compute(k.spec, inputs) /\ Abort(c, k)
    <2>1. ASSUME NEW n \in Names, workload[n] # NoRow, Owes(workload, thing, k, n),
                 ~(k.op = "rehash" /\ n \in k.todo)
          PROVE  CoversAt(workload, port, thing, n)
      <3>1. /\ k.op = "rehash" /\ k.name = n /\ k.row.hash = workload[n].hash
            /\ k.inputs.things = ThingsAt(thing, k.spec)
        BY <1>1, <2>1 DEF Owes
      <3>2. workload[n].hash = [spec |-> k.spec, inputs |-> inputs]
        BY <1>9, <3>1 DEF Compute
      <3>3. workload[n].spec = k.spec /\ workload[n].hash.inputs = inputs
        BY <2>1, <3>2 DEF IInv, TypeOK, Exists
      <3> QED
        BY <1>3, <1>7, <3>1, <3>3 DEF CoversAt
    <2> QED
      BY <2>1, <1>1, <1>9, ReadQuits
  <1>10. CASE Proceed(c, j)
    <2>5. j \in Call
      BY <1>1, <1>7 DEF Call
    <2>6. /\ j.pc = k.pc /\ j.op = k.op /\ j.name = k.name /\ j.spec = k.spec
          /\ j.ifMatch = k.ifMatch /\ j.seen = k.seen /\ j.row = k.row
          /\ j.claims = k.claims /\ j.listed = k.listed /\ j.thing = k.thing
          /\ j.instance = k.instance /\ j.todo = k.todo
      BY <1>1 DEF Call
    <2> HIDE DEF j
    <2>7. k.pc \in Ongoing \ {"get", "resolve"}
      BY <1>1 DEF Ongoing
    <2>8. PICK l \in Call :
            /\ call' = [call EXCEPT ![c] = l] /\ CallInv(workload, ids, l)
            /\ l.pc = After(k) /\ l.op = k.op /\ l.name = k.name /\ l.todo = j.todo
      BY <1>1, <1>10, <2>5, <2>6, <2>7, Proceeds
    <2>9. k.op = "rehash" => l.pc = "held"
      BY <1>1, <2>8, AfterRehash
    <2>10. \A n \in Names : Owes(workload, thing, k, n) => Owes(workload, thing, l, n)
      BY <1>1, <2>6, <2>8, <2>9 DEF Owes
    <2> QED
      BY <1>1, <2>8, <2>10, ReadStep
  <1> QED
    BY <1>6, <1>8, <1>9, <1>10

LEMMA ResolvesDigestHolds ==
  ASSUME IInv, NEW c \in Clients, ResolvesDigest(c)
  PROVE  IInv'
  <1> DEFINE k == call[c]
             digest == IF k.spec.pull = "missing" THEN 0 ELSE tag + 1
             inputs == [k.inputs EXCEPT !.digest = digest]
             j == [k EXCEPT !.inputs = inputs]
  <1>1. k \in Call /\ CallInv(workload, ids, k) /\ k.pc = "digest" /\ UNCHANGED Reading
    BY DEF IInv, TypeOK, CallsInv, ResolvesDigest, At
  <1>2. Proceed(c, j)
    BY DEF ResolvesDigest
  <1>3. digest \in Nat
    BY DEF IInv, TypeOK
  <1> HIDE DEF digest
  <1>4. k.inputs \in Inputs
    BY <1>1 DEF Call
  <1>5. inputs \in Inputs
    BY <1>3, <1>4 DEF Inputs
  <1> HIDE DEF inputs
  <1>6. j \in Call
    BY <1>1, <1>5 DEF Call
  <1>7. /\ j.pc = k.pc /\ j.op = k.op /\ j.name = k.name /\ j.spec = k.spec
        /\ j.ifMatch = k.ifMatch /\ j.seen = k.seen /\ j.row = k.row
        /\ j.claims = k.claims /\ j.listed = k.listed /\ j.thing = k.thing
        /\ j.instance = k.instance /\ j.todo = k.todo
    BY <1>1 DEF Call
  <1> HIDE DEF j
  <1>8. k.pc \in Ongoing \ {"get", "resolve"}
    BY <1>1 DEF Ongoing
  <1>9. PICK l \in Call :
          /\ call' = [call EXCEPT ![c] = l] /\ CallInv(workload, ids, l)
          /\ l.pc = After(k) /\ l.op = k.op /\ l.name = k.name /\ l.todo = j.todo
          /\ l.row = k.row
    BY <1>1, <1>2, <1>6, <1>7, <1>8, Proceeds
  <1>10. k.op = "rehash" => l.pc = "things"
    BY <1>1, <1>9, AfterRehash
  <1>11. \A n \in Names : Owes(workload, thing, k, n) => Owes(workload, thing, l, n)
    BY <1>1, <1>7, <1>9, <1>10 DEF Owes
  <1> QED
    BY <1>1, <1>9, <1>11, ReadStep

\* The readers of a secret are listed after its write, so that those owed are all there.
LEMMA UsersHolds ==
  ASSUME IInv, NEW c \in Clients, Users(c)
  PROVE  IInv'
  <1> DEFINE k == call[c]
             users == UsedBy(k.thing)
             j == [k EXCEPT !.todo = users]
  <1>1. k \in Call /\ CallInv(workload, ids, k) /\ k.pc = "users" /\ UNCHANGED Reading
    BY DEF IInv, TypeOK, CallsInv, Users, At
  <1>2. k.op \in {"secret", "variable", "unset"}
    BY <1>1, Domains DEF CallInv, Control, Call
  <1>3. \/ k.op = "unset" /\ Abort(c, k)
        \/ Proceed(c, j)
    BY DEF Users
  <1>4. CASE k.op = "unset" /\ Abort(c, k)
    <2>1. \A n \in Names : ~Owes(workload, thing, k, n)
      BY <1>1, <1>4 DEF Owes
    <2> QED
      BY <2>1, <1>1, <1>4, ReadQuits
  <1>5. CASE Proceed(c, j)
    <2>1. users = UsedAt(workload, k.thing) /\ users \in SUBSET Names
      BY NowAt DEF UsedAt
    <2> HIDE DEF users
    <2>2. j \in Call
      BY <1>1, <2>1 DEF Call
    <2>3. /\ j.pc = k.pc /\ j.op = k.op /\ j.name = k.name /\ j.spec = k.spec
          /\ j.ifMatch = k.ifMatch /\ j.seen = k.seen /\ j.row = k.row
          /\ j.claims = k.claims /\ j.listed = k.listed /\ j.thing = k.thing
          /\ j.instance = k.instance /\ j.todo = users
      BY <1>1 DEF Call
    <2> HIDE DEF j
    <2>4. k.pc \in Ongoing \ {"get", "resolve"} /\ k.op # "drift"
      BY <1>1, <1>2 DEF Ongoing
    <2>5. PICK l \in Call :
            /\ call' = [call EXCEPT ![c] = l] /\ CallInv(workload, ids, l)
            /\ l.pc = After(k) /\ l.op = k.op /\ l.name = k.name /\ l.todo = j.todo
      BY <1>1, <1>5, <2>2, <2>3, <2>4, Proceeds
    <2>6. k.op = "secret" => l.pc = "next"
      BY <1>1, <2>5, AfterOthers
    <2>7. \A n \in Names : Owes(workload, thing, k, n) => Owes(workload, thing, l, n)
      BY <1>1, <1>2, <2>1, <2>3, <2>5, <2>6 DEF Owes
    <2> QED
      BY <1>1, <2>5, <2>7, ReadStep
  <1> QED
    BY <1>3, <1>4, <1>5

\* A value that is held already is rehashed for all the same.
LEMMA LookupHolds ==
  ASSUME IInv, NEW c \in Clients, Lookup(c)
  PROVE  IInv'
  <1> DEFINE k == call[c]
             j == [k EXCEPT !.op = "secret", !.pc = "users"]
  <1>1. k \in Call /\ CallInv(workload, ids, k) /\ k.pc = "lookup" /\ UNCHANGED Reading
    BY DEF IInv, TypeOK, CallsInv, Lookup, At
  <1>2. k.op \in {"secret", "variable"}
    BY <1>1, Domains DEF CallInv, Control, Call
  <1>3. Abort(c, k) \/ call' = [call EXCEPT ![c] = j] \/ Proceed(c, k)
    BY DEF Lookup
  <1>4. \A n \in Names : ~Owes(workload, thing, k, n)
    BY <1>1, <1>2 DEF Owes
  <1>5. CASE Abort(c, k)
    BY <1>1, <1>4, <1>5, ReadQuits
  <1>6. CASE call' = [call EXCEPT ![c] = j]
    <2>1. "secret" \in Ops /\ "users" \in Statements
      BY Domains, StatementsAre
    <2>2. j \in Call
      BY <1>1, <2>1 DEF Call
    <2>3. /\ j.pc = "users" /\ j.op = "secret" /\ j.row = k.row /\ j.name = k.name
          /\ j.seen = k.seen /\ j.listed = k.listed /\ j.thing = k.thing
      BY <1>1 DEF Call
    <2> HIDE DEF j
    <2>4. Control(j)
      BY <1>1, <1>2, <2>3, Domains DEF CallInv, Control, HasRow
    <2>5. ReadRows(workload, ids, j) /\ Resolves(j)
      BY <1>1, <2>3 DEF CallInv, ReadRows, Resolves
    <2>6. Condition(workload, ids, j)
      BY <1>1, <1>2, <2>3 DEF CallInv, Condition
    <2> QED
      BY <1>1, <1>4, <1>6, <2>2, <2>4, <2>5, <2>6, ReadStep DEF CallInv
  <1>7. CASE Proceed(c, k)
    <2>1. k.pc \in Ongoing \ {"get", "resolve"}
      BY <1>1 DEF Ongoing
    <2>2. PICK l \in Call : call' = [call EXCEPT ![c] = l] /\ CallInv(workload, ids, l)
      BY <1>1, <1>7, <2>1, Proceeds
    <2> QED
      BY <1>1, <1>4, <2>2, ReadStep
  <1> QED
    BY <1>3, <1>5, <1>6, <1>7

\* What was owed to the readers of an address is what is left to rehash.
LEMMA ReferencedHolds ==
  ASSUME IInv, NEW c \in Clients, Referenced(c)
  PROVE  IInv'
  <1> DEFINE k == call[c]
             todo == ReferencedBy(k.name)
             j == [Idle EXCEPT !.op = "rehash", !.pc = "next", !.todo = todo]
  <1>1. k \in Call /\ CallInv(workload, ids, k) /\ k.pc = "referenced" /\ UNCHANGED Reading
    BY DEF IInv, TypeOK, CallsInv, Referenced, At
  <1>2. k.op \in {"apply", "reallocate"}
    BY <1>1, Domains DEF CallInv, Control, Call
  <1>3. call' = [call EXCEPT ![c] = j]
    BY DEF Referenced
  <1>4. todo = ReferencedAt(workload, k.name) /\ todo \in SUBSET Names
    BY NowAt DEF ReferencedAt
  <1> HIDE DEF todo
  <1>5. "rehash" \in Ops /\ "next" \in Statements
    BY Domains, StatementsAre
  <1>6. j \in Call
    BY <1>4, <1>5, IdleIsCall DEF Call
  <1>7. /\ j.op = "rehash" /\ j.pc = "next" /\ j.todo = todo /\ j.row = NoRow
        /\ j.seen = NoRow /\ j.listed = {}
    BY IdleIsCall, IdleFields DEF Call
  <1> HIDE DEF j
  <1>8. Control(j)
    BY <1>7, Domains DEF Control, HasRow
  <1>9. ReadRows(workload, ids, j) /\ Resolves(j) /\ Condition(workload, ids, j)
    BY <1>7 DEF ReadRows, Resolves, Condition
  <1>10. \A n \in Names : Owes(workload, thing, k, n) => Owes(workload, thing, j, n)
    BY <1>1, <1>2, <1>4, <1>7 DEF Owes
  <1> QED
    BY <1>1, <1>3, <1>6, <1>8, <1>9, <1>10, ReadStep DEF CallInv

\* A reader taken off the list is owed by its rehash.
LEMMA NextReaderHolds ==
  ASSUME IInv, NEW c \in Clients, NextReader(c)
  PROVE  IInv'
  <1> DEFINE k == call[c]
  <1>1. k \in Call /\ CallInv(workload, ids, k) /\ k.pc = "next" /\ UNCHANGED Reading
    BY DEF IInv, TypeOK, CallsInv, NextReader, At
  <1>2. CASE k.todo = {} /\ call' = [call EXCEPT ![c] = Idle]
    <2>1. \A n \in Names : ~Owes(workload, thing, k, n)
      BY <1>1, <1>2 DEF Owes
    <2> QED
      BY <1>1, <1>2, <2>1, IdleIsCall, IdleCall, ReadStep
  <1>3. ASSUME NEW m \in k.todo,
               k.op = "drift",
               call' = [call EXCEPT ![c] =
                 LET next == [Idle EXCEPT !.name = m, !.todo = k.todo \ {m},
                                          !.listed = k.listed]
                     row == (CHOOSE l \in k.listed : l[1] = m)[2]
                 IN [next EXCEPT !.op = "drift", !.pc = "digest", !.row = row,
                                 !.spec = row.spec]]
        PROVE  IInv'
    <2> DEFINE item == CHOOSE l \in k.listed : l[1] = m
               row == item[2]
               spec == row.spec
               rest == k.todo \ {m}
               j == [Idle EXCEPT !.name = m, !.todo = rest, !.listed = k.listed,
                                 !.op = "drift", !.pc = "digest", !.row = row,
                                 !.spec = spec]
    <2>1. call' = [call EXCEPT ![c] = j]
      BY <1>3
    <2>2. item \in k.listed /\ item[1] = m
      BY <1>1, <1>3 DEF CallInv, Control
    <2>3. /\ k.listed \in SUBSET (Names \X Row) /\ k.todo \in SUBSET Names
      BY <1>1 DEF Call
    <2>4. m \in Names /\ row \in Row /\ Belongs(workload, ids, row, m)
      BY <1>1, <2>2, <2>3 DEF CallInv, ReadRows
    <2> HIDE DEF item, row
    <2>5. spec \in Specification /\ rest \in SUBSET Names /\ row # NoRow
      BY <2>3, <2>4, DesiredAssumption DEF Row
    <2> HIDE DEF spec, rest
    <2>6. "drift" \in Ops /\ "digest" \in Statements
      BY Domains, StatementsAre
    <2>7. j \in Call
      BY <2>3, <2>4, <2>5, <2>6, IdleIsCall DEF Call
    <2>8. /\ j.name = m /\ j.todo = rest /\ j.listed = k.listed /\ j.op = "drift"
          /\ j.pc = "digest" /\ j.row = row /\ j.spec = spec /\ j.seen = NoRow
      BY IdleIsCall, IdleFields DEF Call
    <2> HIDE DEF j
    <2>9. Control(j)
      <3>1. \A n \in rest : \E l \in k.listed : l[1] = n
        BY <1>1, <1>3 DEF CallInv, Control, rest
      <3> QED
        BY <2>4, <2>5, <2>8, <3>1, Domains DEF Control, HasRow, spec
    <2>10. ReadRows(workload, ids, j)
      BY <1>1, <2>4, <2>8 DEF CallInv, ReadRows
    <2>11. Resolves(j) /\ Condition(workload, ids, j)
      BY <2>8 DEF Resolves, Condition
    <2>12. \A n \in Names : ~Owes(workload, thing, k, n)
      BY <1>1, <1>3 DEF Owes
    <2> QED
      BY <1>1, <2>1, <2>7, <2>9, <2>10, <2>11, <2>12, ReadStep DEF CallInv
  <1>4. ASSUME NEW m \in k.todo,
               k.op # "drift",
               call' = [call EXCEPT ![c] =
                 LET next == [Idle EXCEPT !.name = m, !.todo = k.todo \ {m},
                                          !.listed = k.listed]
                 IN [next EXCEPT !.op = "rehash", !.pc = "get"]]
        PROVE  IInv'
    <2> DEFINE rest == k.todo \ {m}
               j == [Idle EXCEPT !.name = m, !.todo = rest, !.listed = k.listed,
                                 !.op = "rehash", !.pc = "get"]
    <2>1. call' = [call EXCEPT ![c] = j]
      BY <1>4
    <2>2. /\ k.listed \in SUBSET (Names \X Row) /\ k.todo \in SUBSET Names
          /\ m \in Names /\ rest \in SUBSET Names
      BY <1>1 DEF Call
    <2>3. \A n \in k.todo : n = m \/ n \in rest
      OBVIOUS
    <2> HIDE DEF rest
    <2>4. "rehash" \in Ops /\ "get" \in Statements
      BY Domains, StatementsAre
    <2>5. j \in Call
      BY <2>2, <2>4, IdleIsCall DEF Call
    <2>6. /\ j.name = m /\ j.todo = rest /\ j.listed = k.listed /\ j.op = "rehash"
          /\ j.pc = "get" /\ j.row = NoRow /\ j.seen = NoRow
      BY IdleIsCall, IdleFields DEF Call
    <2> HIDE DEF j
    <2>7. Control(j)
      BY <2>2, <2>6, Domains DEF Control, HasRow
    <2>8. ReadRows(workload, ids, j)
      BY <1>1, <2>6 DEF CallInv, ReadRows
    <2>9. Resolves(j) /\ Condition(workload, ids, j)
      BY <2>6 DEF Resolves, Condition
    <2>10. \A n \in Names : Owes(workload, thing, k, n) => Owes(workload, thing, j, n)
      BY <1>1, <2>3, <2>6 DEF Owes
    <2> QED
      BY <1>1, <2>1, <2>5, <2>7, <2>8, <2>9, <2>10, ReadStep DEF CallInv
  <1> QED
    BY <1>2, <1>3, <1>4 DEF NextReader

\* A rehash begins from the row as it stands.
LEMMA GetHolds ==
  ASSUME IInv, NEW c \in Clients, Get(c)
  PROVE  IInv'
  <1> DEFINE k == call[c]
             row == workload[k.name]
             spec == IF k.op = "apply" THEN k.spec ELSE
                     IF Exists(k.name) THEN row.spec ELSE k.spec
             j == [k EXCEPT !.row = row, !.spec = spec]
             l == [k EXCEPT !.row = row, !.spec = spec, !.pc = After(k)]
  <1>1. k \in Call /\ CallInv(workload, ids, k) /\ k.pc = "get" /\ UNCHANGED Reading
    BY DEF IInv, TypeOK, CallsInv, Get, At
  <1>2. k.op \in {"apply", "reallocate", "move", "rehash", "stop", "start"}
    BY <1>1, Domains DEF CallInv, Control, Call
  <1>3. k.name \in Names
    BY <1>1, <1>2 DEF CallInv, Control
  <1>4. \/ (k.op = "rehash" => workload[k.name] = NoRow) /\ Abort(c, k)
        \/ (k.op # "apply" => workload[k.name] # NoRow) /\ Proceed(c, j)
    BY <1>2 DEF Get, Exists
  <1>5. CASE (k.op = "rehash" => workload[k.name] = NoRow) /\ Abort(c, k)
    <2>1. ASSUME NEW n \in Names, workload[n] # NoRow, Owes(workload, thing, k, n)
          PROVE  k.op = "rehash" /\ n \in k.todo
      BY <1>1, <1>2, <1>5, <2>1 DEF Owes
    <2> QED
      BY <2>1, <1>1, <1>5, ReadQuits
  <1>6. CASE (k.op # "apply" => workload[k.name] # NoRow) /\ Proceed(c, j)
    <2>1. After(k) \in Statements /\ After(k) # "idle" /\ After(k) \in DOMAIN Program[k.op]
      BY <1>1, GoesOn DEF CallInv, Ongoing
    <2>2. /\ row \in Row \cup {NoRow}
          /\ k.op # "apply" => row \in Row /\ row # NoRow /\ spec = row.spec
          /\ k.op = "apply" => spec = k.spec
      BY <1>3, <1>6 DEF IInv, TypeOK, Exists
    <2>3. spec \in Specification \cup {NoRow}
      BY <1>1, <2>2 DEF Row, Call
    <2>4. row # NoRow => Belongs(workload, ids, row, k.name)
      BY <1>3, <2>2 DEF IInv, TypeOK, TablesInv, Belongs, Exists
    <2>5. row.hash = workload[k.name].hash
      OBVIOUS
    <2> HIDE DEF row, spec
    <2>6. j.op = k.op /\ j.pc = k.pc
      BY <1>1 DEF Call
    <2>7. After(j) = After(k)
      BY <2>6 DEF After
    <2>8. [j EXCEPT !.pc = After(k)] = l
      OBVIOUS
    <2>9. call' = [call EXCEPT ![c] = l]
      BY <1>6, <2>1, <2>7, <2>8 DEF Proceed
    <2>10. l \in Call
      BY <1>1, <2>1, <2>2, <2>3 DEF Call
    <2>11. /\ l.pc = After(k) /\ l.op = k.op /\ l.name = k.name /\ l.spec = spec
           /\ l.row = row /\ l.ifMatch = k.ifMatch /\ l.seen = k.seen
           /\ l.listed = k.listed /\ l.thing = k.thing /\ l.instance = k.instance
           /\ l.todo = k.todo
      BY <1>1 DEF Call
    <2> HIDE DEF l
    <2>12. Control(l)
      BY <1>1, <1>2, <1>3, <2>1, <2>2, <2>11 DEF CallInv, Control, HasRow
    <2>13. ReadRows(workload, ids, l)
      BY <1>1, <2>4, <2>11 DEF CallInv, ReadRows
    <2>14. Condition(workload, ids, l)
      BY <1>1, <2>11 DEF CallInv, Condition
    <2>15. /\ k.op = "apply" => l.pc = "held"
           /\ k.op = "reallocate" => l.pc = "held"
           /\ k.op = "move" => l.pc = "held"
           /\ k.op = "rehash" => l.pc = "digest"
      BY <1>1, <2>11, AfterApply, AfterReallocate, AfterMove, AfterRehash
    <2>16. Resolves(l)
      BY <2>11, <2>15 DEF Resolves
    <2>17. \A n \in Names : Owes(workload, thing, k, n) => Owes(workload, thing, l, n)
      BY <1>1, <1>2, <2>5, <2>11, <2>15 DEF Owes
    <2> QED
      BY <1>1, <2>9, <2>10, <2>12, <2>13, <2>14, <2>16, <2>17, ReadStep DEF CallInv
  <1> QED
    BY <1>4, <1>5, <1>6

\* A resolution settles the specification; that of a move leaves the first instance
\* alone.
LEMMA ResolvesPortsHolds ==
  ASSUME IInv, NEW c \in Clients, ResolvesPorts(c)
  PROVE  IInv'
  <1> DEFINE k == call[c]
  <1>1. k \in Call /\ CallInv(workload, ids, k) /\ k.pc = "resolve" /\ UNCHANGED Reading
    BY DEF IInv, TypeOK, CallsInv, ResolvesPorts, At
  <1>2. k.op \in {"apply", "reallocate", "move"}
    BY <1>1, Domains DEF CallInv, Control, Call
  <1>3. \A n \in Names : ~Owes(workload, thing, k, n)
    BY <1>1, <1>2 DEF Owes
  <1>4. CASE Abort(c, k)
    BY <1>1, <1>3, <1>4, ReadQuits
  <1>5. ASSUME NEW claims \in Resolutions(Kept(k), Asked(k), k.spec.count, Allocated),
               Proceed(c, [k EXCEPT !.claims = claims])
        PROVE  IInv'
    <2> DEFINE j == [k EXCEPT !.claims = claims]
               l == [k EXCEPT !.claims = claims, !.pc = After(k)]
    <2>1. After(k) \in Statements /\ After(k) # "idle" /\ After(k) \in DOMAIN Program[k.op]
      BY <1>1, GoesOn DEF CallInv, Ongoing
    <2>2. /\ k.spec \in Specification /\ Valid(k.spec) /\ k.name \in Names
          /\ k.held \in SUBSET Claim
      BY <1>1, SpecHeld DEF Call
    <2>3. k.op = "apply" => claims \in SUBSET Claim /\ Settles(k.spec, claims)
      <3> HAVE k.op = "apply"
      <3>1. Kept(k) = k.held /\ Asked(k) = k.spec.ports
        BY DEF Kept, Asked
      <3>2. claims \in Resolutions(k.held, k.spec.ports, k.spec.count, Allocated)
        BY <1>5, <3>1
      <3> QED
        BY <2>2, <3>2, ApplySettles, ZenonT(30)
    <2>4. k.op = "reallocate" => claims \in SUBSET Claim /\ Settles(k.spec, claims)
      <3> HAVE k.op = "reallocate"
      <3> DEFINE kept == Kept(k)
      <3>1. kept \in SUBSET Claim
        BY <2>2 DEF Kept
      <3>2. claims \in Resolutions(kept, Requested(k.spec.ports, k.held), k.spec.count,
                                   Allocated)
        BY <1>5 DEF Asked
      <3> HIDE DEF kept
      <3> QED
        BY <2>2, <3>1, <3>2, RequestSettles, ZenonT(30)
    <2>5. k.op = "move" =>
            /\ claims \in SUBSET Claim /\ Settles(k.spec, claims)
            /\ (Settles(k.spec, k.held) /\ NamesFirst(k.spec, k.held))
                 => NamesFirst(k.spec, claims)
      <3> HAVE k.op = "move"
      <3> DEFINE kept == {x \in k.held : ~(x.dynamic /\ x.instance = 1)}
      <3>1. kept \in SUBSET Claim
        BY <2>2
      <3>2. k.instance = 1
        BY <1>1 DEF CallInv, Control
      <3>3. Kept(k) = kept
        BY <3>2 DEF Kept
      <3>4. claims \in Resolutions(kept, Requested(k.spec.ports, k.held), k.spec.count,
                                   Allocated)
        BY <1>5, <3>3 DEF Asked
      <3>5. ASSUME Settles(k.spec, k.held), NamesFirst(k.spec, k.held)
            PROVE  NamesFirst(k.spec, claims)
        BY <2>2, <3>4, <3>5, MoveKeepsFirst, ZenonT(30)
      <3> HIDE DEF kept
      <3>6. claims \in SUBSET Claim /\ Settles(k.spec, claims)
        BY <2>2, <3>1, <3>4, RequestSettles, ZenonT(30)
      <3> QED
        BY <3>5, <3>6
    <2>6. claims \in SUBSET Claim
      BY <1>2, <2>3, <2>4, <2>5
    <2>7. j.op = k.op /\ j.pc = k.pc
      BY <1>1 DEF Call
    <2>8. After(j) = After(k)
      BY <2>7 DEF After
    <2>9. [j EXCEPT !.pc = After(k)] = l
      OBVIOUS
    <2>10. call' = [call EXCEPT ![c] = l]
      BY <1>5, <2>1, <2>8, <2>9 DEF Proceed
    <2>11. l \in Call
      BY <1>1, <2>1, <2>6 DEF Call
    <2>12. /\ l.pc = After(k) /\ l.op = k.op /\ l.name = k.name /\ l.spec = k.spec
           /\ l.row = k.row /\ l.ifMatch = k.ifMatch /\ l.seen = k.seen
           /\ l.listed = k.listed /\ l.thing = k.thing /\ l.instance = k.instance
           /\ l.todo = k.todo /\ l.claims = claims /\ l.held = k.held
      BY <1>1 DEF Call
    <2> HIDE DEF l, j
    <2>13. Control(l)
      BY <1>1, <1>2, <2>1, <2>12 DEF CallInv, Control, HasRow
    <2>14. ReadRows(workload, ids, l) /\ Condition(workload, ids, l)
      BY <1>1, <2>12 DEF CallInv, ReadRows, Condition
    <2>15. Resolves(l)
      BY <1>1, <1>2, <2>3, <2>4, <2>5, <2>12 DEF Resolves
    <2> QED
      BY <1>1, <1>3, <2>10, <2>11, <2>13, <2>14, <2>15, ReadStep DEF CallInv
  <1> QED
    BY <1>4, <1>5 DEF ResolvesPorts

\* What a call that fails owed is left behind.
LEMMA CallFailsHolds ==
  ASSUME IInv, NEW c \in Clients, CallFails(c)
  PROVE  IInv'
  <1> DEFINE k == call[c]
  <1>1. /\ k \in Call /\ CallInv(workload, ids, k) /\ k.pc # "next" /\ k.pc # "idle"
        /\ Abort(c, k) /\ faults' = faults + 1 /\ faults < MaxFaults
        /\ UNCHANGED <<tables, tag, calls, torn>>
    BY DEF IInv, TypeOK, CallsInv, CallFails, At
  <1>2. /\ workload' = workload /\ port' = port /\ ids' = ids /\ thing' = thing
        /\ torn' = torn /\ tag' = tag /\ calls' = calls
    BY <1>1 DEF tables
  <1>3. faults' \in 0..MaxFaults
    BY <1>1, DesiredAssumption DEF IInv, TypeOK
  <1>4. /\ k.pc = "users" => ~Chained(k)
        /\ k.pc = "referenced" => ~Chained(k)
        /\ Chained(k) => k.name \in Names
    BY <1>1, Domains DEF CallInv, Control, Chained
  <1>5. /\ Chained(k) => behind' = behind \cup {k.name}
        /\ k.pc = "users" /\ k.op = "secret" => behind' = behind \cup UsedBy(k.thing)
        /\ k.pc = "referenced" => behind' = behind \cup ReferencedBy(k.name)
        /\ \/ Chained(k) \/ (k.pc = "users" /\ k.op = "secret") \/ k.pc = "referenced"
           \/ behind' = behind
    BY <1>4 DEF CallFails
  <1>6. /\ UsedBy(k.thing) = UsedAt(workload, k.thing)
        /\ ReferencedBy(k.name) = ReferencedAt(workload, k.name)
        /\ UsedBy(k.thing) \in SUBSET Names /\ ReferencedBy(k.name) \in SUBSET Names
    BY NowAt DEF UsedBy, ReferencedBy
  <1>7. behind' \in SUBSET Names /\ behind \subseteq behind'
    BY <1>4, <1>5, <1>6 DEF IInv, TypeOK
  <1>8. ASSUME NEW n \in Names, n \notin behind', Owes(workload, thing, k, n),
               ~(k.op = "rehash" /\ n \in k.todo)
        PROVE  FALSE
    BY <1>1, <1>5, <1>6, <1>8 DEF Owes, Chained
  <1> QED
    BY <1>1, <1>2, <1>3, <1>7, <1>8, Quits

-----------------------------------------------------------------------------
(* Statements that write: what they leave as it was.                       *)

LEMMA MoveTagHolds ==
  ASSUME IInv, MoveTag
  PROVE  IInv'
  <1>1. /\ workload' = workload /\ port' = port /\ ids' = ids /\ thing' = thing
        /\ torn' = torn /\ behind' = behind /\ call' = call /\ calls' = calls
        /\ faults' = faults /\ tag' = tag + 1 /\ tag < MaxTag
    BY DEF MoveTag, tables, history
  <1>2. tag' \in 0..MaxTag
    BY <1>1, DesiredAssumption DEF IInv, TypeOK
  <1>3. TypeOK'
    BY <1>1, <1>2 DEF IInv, TypeOK, Exists
  <1>4. TablesInv' /\ PortsInv' /\ CallsInv' /\ HashInv'
    BY <1>1 DEF IInv, TablesInv, PortsInv, CallsInv, HashInv
  <1> QED
    BY <1>3, <1>4 DEF IInv

\* Where a reference leads depends on the row it names and on the ports of that row.
LEMMA SamePublished ==
  ASSUME NEW w, NEW v, NEW p, NEW q, NEW r, NEW n,
         v[r.name] # NoRow <=> w[r.name] # NoRow,
         w[r.name] # NoRow => ListAt(q, v[r.name].id) = ListAt(p, w[r.name].id)
  PROVE  /\ PublishedAt(v, q, r, n) = PublishedAt(w, p, r, n)
         /\ AddressAt(v, q, r, n) = AddressAt(w, p, r, n)
  <1>1. PublishedAt(v, q, r, n) = PublishedAt(w, p, r, n)
    <2>1. CASE w[r.name] = NoRow
      BY <2>1 DEF PublishedAt
    <2>2. CASE w[r.name] # NoRow
      BY <2>2 DEF PublishedAt
    <2> QED
      BY <2>1, <2>2
  <1> QED
    BY <1>1 DEF AddressAt

\* The addresses of a specification, but for those of one name.
LEMMA SameAddresses ==
  ASSUME NEW w, NEW v, NEW p, NEW q, NEW n, NEW spec, NEW new,
         spec.refs = new.refs,
         \A r \in spec.refs : r.name # n =>
           /\ v[r.name] # NoRow => w[r.name] # NoRow
           /\ v[r.name] # NoRow => ListAt(q, v[r.name].id) = ListAt(p, w[r.name].id)
  PROVE  {x \in AddressesAt(v, q, new, n) : x[1].name # n}
           \subseteq {x \in AddressesAt(w, p, spec, n) : x[1].name # n}
  <1> SUFFICES ASSUME NEW r \in spec.refs, r.name # n, PublishedAt(v, q, r, n) # {}
               PROVE  /\ PublishedAt(w, p, r, n) # {}
                      /\ AddressAt(v, q, r, n) = AddressAt(w, p, r, n)
    BY DEF AddressesAt
  <1>1. v[r.name] # NoRow
    BY DEF PublishedAt
  <1>2. w[r.name] # NoRow /\ ListAt(q, v[r.name].id) = ListAt(p, w[r.name].id)
    BY <1>1
  <1> QED
    BY <1>1, <1>2, SamePublished

\* A hash that covers what is read still does when the rows and ports read stay.
LEMMA CoversKept ==
  ASSUME NEW w, NEW v, NEW p, NEW q, NEW th, NEW n, CoversAt(w, p, th, n),
         v[n].spec = w[n].spec, v[n].hash = w[n].hash,
         \A r \in w[n].spec.refs : r.name # n =>
           /\ v[r.name] # NoRow => w[r.name] # NoRow
           /\ v[r.name] # NoRow => ListAt(q, v[r.name].id) = ListAt(p, w[r.name].id)
  PROVE  CoversAt(v, q, th, n)
  <1> DEFINE spec == w[n].spec
  <1>1. {x \in AddressesAt(v, q, spec, n) : x[1].name # n}
          \subseteq {x \in AddressesAt(w, p, spec, n) : x[1].name # n}
    <2> HIDE DEF spec
    <2>1. \A r \in spec.refs : r.name # n =>
            /\ v[r.name] # NoRow => w[r.name] # NoRow
            /\ v[r.name] # NoRow => ListAt(q, v[r.name].id) = ListAt(p, w[r.name].id)
      BY DEF spec
    <2> QED
      BY <2>1, SameAddresses
  <1> QED
    BY <1>1 DEF CoversAt

\* Whether a call owes a workload a rehash depends on no row but the workload's.
LEMMA OwesKept ==
  ASSUME NEW w, NEW v, NEW th, NEW k, NEW n, Owes(w, th, k, n),
         v[n] # NoRow, v[n].spec = w[n].spec, v[n].hash = w[n].hash
  PROVE  Owes(v, th, k, n)
  BY DEF Owes, UsedAt, ReferencedAt

\* An identifier that is handed out is a new one, and a row that gets another hash gets
\* another version.
Renewed(w, i, v) ==
  \A m \in Names : v[m] # NoRow =>
    \/ v[m].id \in Nat /\ v[m].id > i
    \/ /\ w[m] # NoRow /\ v[m].id = w[m].id
       /\ w[m].version \in Nat /\ v[m].version \in Nat
       /\ v[m].version >= w[m].version
       /\ v[m].version = w[m].version => v[m].hash = w[m].hash

\* What a call brings along outlasts the writes of others.
LEMMA CallKept ==
  ASSUME NEW w, NEW v, NEW i \in Nat, NEW h \in Nat, i <= h,
         NEW k \in Call, CallInv(w, i, k),
         Renewed(w, i, v)
  PROVE  CallInv(v, h, k)
  <1>1. ASSUME NEW r, NEW n, Belongs(w, i, r, n)
        PROVE  Belongs(v, h, r, n)
    <2>1. r.id \in 1..i /\ r.id \in 1..h
      BY <1>1 DEF Belongs
    <2>2. ASSUME NEW m \in Names, v[m] # NoRow, v[m].id = r.id
          PROVE  w[m] # NoRow /\ w[m].id = r.id
      BY <2>1, <2>2 DEF Renewed
    <2> QED
      BY <1>1, <2>1, <2>2 DEF Belongs
  <1>2. ReadRows(v, h, k)
    BY <1>1 DEF CallInv, ReadRows
  <1>3. Condition(v, h, k)
    <2>1. SUFFICES ASSUME k.seen # NoRow
                   PROVE  Condition(v, h, k)
      BY DEF Condition
    <2>2. /\ k.op = "apply" /\ k.ifMatch = k.seen.version /\ k.seen.version # 0
          /\ k.seen.id <= i /\ k.seen.id \in Nat /\ k.seen.version \in Nat
      BY <2>1 DEF CallInv, Condition, Call, Row
    <2>3. k.name \in Names
      BY <2>2 DEF CallInv, Control
    <2>4. ASSUME v[k.name] # NoRow, v[k.name].id = k.seen.id
          PROVE  /\ v[k.name].version >= k.seen.version
                 /\ v[k.name].version = k.seen.version => v[k.name].hash = k.seen.hash
      <3>1. /\ w[k.name] # NoRow /\ w[k.name].id = k.seen.id
            /\ w[k.name].version \in Nat /\ v[k.name].version \in Nat
            /\ v[k.name].version >= w[k.name].version
            /\ v[k.name].version = w[k.name].version => v[k.name].hash = w[k.name].hash
        BY <2>2, <2>3, <2>4 DEF Renewed
      <3>2. /\ w[k.name].version >= k.seen.version
            /\ w[k.name].version = k.seen.version => w[k.name].hash = k.seen.hash
        BY <2>1, <3>1 DEF CallInv, Condition
      <3>3. v[k.name].version >= k.seen.version
        BY <2>2, <3>1, <3>2
      <3>4. ASSUME v[k.name].version = k.seen.version
            PROVE  v[k.name].hash = k.seen.hash
        <4>1. w[k.name].version = k.seen.version
          BY <2>2, <3>1, <3>2, <3>4
        <4> QED
          BY <3>1, <3>2, <3>4, <4>1
      <3> QED
        BY <3>3, <3>4
    <2>5. k.seen.id <= h
      BY <2>2
    <2> QED
      BY <2>2, <2>4, <2>5 DEF Condition
  <1> QED
    BY <1>2, <1>3 DEF CallInv

\* A hash still follows what is read, or is still owed, when the row is left as it is.
LEMMA HashKept ==
  ASSUME IInv, NEW n \in Names, workload[n] # NoRow, n \notin torn, n \notin behind,
         workload'[n] # NoRow, workload'[n].spec = workload[n].spec,
         workload'[n].hash = workload[n].hash, thing' = thing,
         \A r \in workload[n].spec.refs : r.name # n =>
           /\ workload'[r.name] # NoRow => workload[r.name] # NoRow
           /\ workload'[r.name] # NoRow =>
                ListAt(port', workload'[r.name].id) = ListAt(port, workload[r.name].id),
         \A d \in Clients :
           Owes(workload, thing, call[d], n) => Owes(workload, thing, call'[d], n)
  PROVE  \/ CoversAt(workload', port', thing', n)
         \/ \E d \in Clients : Owes(workload', thing', call'[d], n)
  <1>1. CASE CoversAt(workload, port, thing, n)
    BY <1>1, CoversKept
  <1>2. CASE ~CoversAt(workload, port, thing, n)
    <2>1. PICK d \in Clients : Owes(workload, thing, call[d], n)
      BY <1>2 DEF IInv, HashInv
    <2>2. Owes(workload, thing, call'[d], n)
      BY <2>1
    <2>3. Owes(workload', thing, call'[d], n)
      BY <2>2, OwesKept
    <2> QED
      BY <2>3
  <1> QED
    BY <1>1, <1>2

\* So the calls in flight keep what they bring along, whatever is written.
LEMMA CallsKept ==
  ASSUME NEW c \in Clients, NEW j \in Call, IInv, call' = [call EXCEPT ![c] = j],
         CallInv(workload, ids, j), ids' \in Nat, ids <= ids',
         Renewed(workload, ids, workload')
  PROVE  /\ CallsInv' /\ call' \in [Clients -> Call]
         /\ call'[c] = j /\ \A d \in Clients \ {c} : call'[d] = call[d]
  <1>1. /\ call' \in [Clients -> Call]
        /\ call'[c] = j /\ \A d \in Clients \ {c} : call'[d] = call[d]
    BY DEF IInv, TypeOK
  <1>2. ids \in Nat /\ \A d \in Clients : CallInv(workload, ids, call'[d])
    BY <1>1 DEF IInv, TypeOK, CallsInv
  <1>3. ASSUME NEW d \in Clients
        PROVE  CallInv(workload', ids', call'[d])
    <2> DEFINE v == workload'
               h == ids'
               l == call'[d]
    <2>1. /\ l \in Call /\ CallInv(workload, ids, l) /\ h \in Nat /\ ids <= h
          /\ Renewed(workload, ids, v)
      BY <1>1, <1>2
    <2> HIDE DEF v, h, l
    <2>2. CallInv(v, h, l)
      BY <1>2, <2>1, CallKept
    <2> QED
      BY <2>2 DEF v, h, l
  <1> QED
    BY <1>1, <1>3 DEF CallsInv

-----------------------------------------------------------------------------
(* Statements that write a flag.                                           *)

\* A flag is neither hashed nor read by another.
LEMMA FlagStep ==
  ASSUME IInv, NEW c \in Clients, NEW j \in Call, call' = [call EXCEPT ![c] = j],
         CallInv(workload, ids, j), \A n \in Names : ~Owes(workload, thing, call[c], n),
         workload' \in [Names -> Row \cup {NoRow}],
         \A n \in Names :
           /\ workload'[n] # NoRow <=> workload[n] # NoRow
           /\ workload'[n] # NoRow =>
                /\ workload'[n].id = workload[n].id
                /\ workload'[n].version = workload[n].version
                /\ workload'[n].spec = workload[n].spec
                /\ workload'[n].hash = workload[n].hash,
         UNCHANGED <<port, ids, thing, tag, calls, faults, history>>
  PROVE  IInv'
  <1>1. /\ port' = port /\ ids' = ids /\ thing' = thing /\ torn' = torn /\ behind' = behind
        /\ tag' = tag /\ calls' = calls /\ faults' = faults
    BY DEF history
  <1>2. ids \in Nat /\ \A n \in Names : workload[n] # NoRow => workload[n].version \in Nat
    BY DEF IInv, TypeOK, Row
  <1>3. ids' \in Nat /\ ids <= ids'
    BY <1>1, <1>2
  <1>4. \A n \in Names : workload[n] # NoRow => workload[n].version >= workload[n].version
    BY <1>2
  <1>5. /\ CallsInv' /\ call' \in [Clients -> Call]
        /\ call'[c] = j /\ \A d \in Clients \ {c} : call'[d] = call[d]
    <2>1. Renewed(workload, ids, workload')
      BY <1>2, <1>4 DEF Renewed
    <2> QED
      BY <1>3, <2>1, CallsKept
  <1>6. TypeOK'
    BY <1>1, <1>5 DEF IInv, TypeOK, Exists
  <1>7. TablesInv' /\ PortsInv'
    BY <1>1 DEF IInv, TablesInv, PortsInv
  <1>8. HashInv'
    <2> SUFFICES ASSUME NEW n \in Names, workload'[n] # NoRow, n \notin torn, n \notin behind
                 PROVE  \/ CoversAt(workload', port', thing', n)
                        \/ \E d \in Clients : Owes(workload', thing', call'[d], n)
      BY <1>1 DEF HashInv
    <2>1. \A r \in workload[n].spec.refs : r.name \in Names
      BY DEF IInv, TypeOK, Row, Specification, Reference
    <2>2. \A d \in Clients :
            Owes(workload, thing, call[d], n) => Owes(workload, thing, call'[d], n)
      BY <1>5
    <2> QED
      BY <1>1, <2>1, <2>2, HashKept
  <1> QED
    BY <1>5, <1>6, <1>7, <1>8 DEF IInv

\* A workload that is marked keeps its address, and its readers their hashes.
LEMMA MarkHolds ==
  ASSUME IInv, NEW c \in Clients, Mark(c)
  PROVE  IInv'
  <1> DEFINE k == call[c]
             referencing == ReferencedBy(k.name)
             i == [k EXCEPT !.todo = referencing]
  <1>1. /\ k \in Call /\ CallInv(workload, ids, k) /\ k.pc = "mark"
        /\ UNCHANGED <<port, ids, thing, tag, calls, faults, history>>
    BY DEF IInv, TypeOK, CallsInv, Mark, At
  <1>2. k.op = "delete" /\ k.name \in Names
    BY <1>1, Domains DEF CallInv, Control, Call
  <1>3. \A n \in Names : ~Owes(workload, thing, k, n)
    BY <1>1, <1>2 DEF Owes
  <1>4. CASE Abort(c, k) /\ workload' = workload
    <2>1. UNCHANGED Reading
      BY <1>1, <1>4 DEF Reading, tables
    <2> QED
      BY <1>1, <1>3, <1>4, <2>1, ReadQuits
  <1>5. CASE /\ Exists(k.name) /\ workload' = [workload EXCEPT ![k.name].deleted = TRUE]
             /\ Proceed(c, i)
    <2>1. referencing \in SUBSET Names
      BY DEF ReferencedBy
    <2> HIDE DEF referencing
    <2>2. i \in Call
      BY <1>1, <2>1 DEF Call
    <2>3. /\ i.pc = k.pc /\ i.op = k.op /\ i.name = k.name /\ i.spec = k.spec
          /\ i.ifMatch = k.ifMatch /\ i.seen = k.seen /\ i.row = k.row
          /\ i.claims = k.claims /\ i.listed = k.listed /\ i.thing = k.thing
          /\ i.instance = k.instance
      BY <1>1 DEF Call
    <2>4. k.pc \in Ongoing \ {"get", "resolve"} /\ k.op # "drift"
      BY <1>1, <1>2 DEF Ongoing
    <2> HIDE DEF i
    <2>5. PICK j \in Call : call' = [call EXCEPT ![c] = j] /\ CallInv(workload, ids, j)
      BY <1>1, <1>5, <2>2, <2>3, <2>4, Proceeds
    <2>6. workload \in [Names -> Row \cup {NoRow}] /\ workload[k.name] \in Row
      BY <1>2, <1>5 DEF IInv, TypeOK, Exists
    <2> DEFINE new == [workload[k.name] EXCEPT !.deleted = TRUE]
    <2>7. /\ new \in Row /\ new.id = workload[k.name].id
          /\ new.version = workload[k.name].version /\ new.spec = workload[k.name].spec
          /\ new.hash = workload[k.name].hash
      BY <2>6 DEF Row
    <2>8. workload' = [workload EXCEPT ![k.name] = new]
      BY <1>5
    <2> HIDE DEF new
    <2>9. workload' \in [Names -> Row \cup {NoRow}]
      BY <2>6, <2>7, <2>8
    <2>10. \A n \in Names : workload'[n] = IF n = k.name THEN new ELSE workload[n]
      BY <2>6, <2>8
    <2>11. \A n \in Names :
             /\ workload'[n] # NoRow <=> workload[n] # NoRow
             /\ workload'[n] # NoRow =>
                  /\ workload'[n].id = workload[n].id
                  /\ workload'[n].version = workload[n].version
                  /\ workload'[n].spec = workload[n].spec
                  /\ workload'[n].hash = workload[n].hash
      BY <2>6, <2>7, <2>10, DesiredAssumption
    <2> QED
      BY <1>1, <1>3, <2>5, <2>9, <2>11, FlagStep
  <1> QED
    BY <1>4, <1>5 DEF Mark

\* A suspension ends its call.
LEMMA SuspendsHolds ==
  ASSUME IInv, NEW c \in Clients, Suspends(c)
  PROVE  IInv'
  <1> DEFINE k == call[c]
             flag == (k.pc = "suspend")
  <1>1. /\ k \in Call /\ CallInv(workload, ids, k) /\ k.pc \in {"suspend", "resume"}
        /\ UNCHANGED <<port, ids, thing, tag, calls, faults, history>>
        /\ Proceed(c, k)
    BY DEF IInv, TypeOK, CallsInv, Suspends
  <1>2. /\ k.op \in {"stop", "start"} /\ k.name \in Names
        /\ k.op = "stop" => k.pc = "suspend"
        /\ k.op = "start" => k.pc = "resume"
    BY <1>1, Domains DEF CallInv, Control, Call
  <1>3. \A n \in Names : ~Owes(workload, thing, k, n)
    BY <1>1, <1>2 DEF Owes
  <1>4. After(k) = "idle"
    BY <1>2, AfterOthers
  <1>5. call' = [call EXCEPT ![c] = Idle]
    BY <1>1, <1>4 DEF Proceed
  <1>6. Idle \in Call /\ CallInv(workload, ids, Idle)
    BY IdleIsCall, IdleCall
  <1>7. workload \in [Names -> Row \cup {NoRow}]
    BY DEF IInv, TypeOK
  <1>8. CASE ~Exists(k.name)
    <2>1. workload' = workload
      BY <1>8 DEF Suspends
    <2> QED
      BY <1>1, <1>3, <1>5, <1>6, <1>7, <2>1, FlagStep
  <1>9. CASE Exists(k.name)
    <2> DEFINE new == [workload[k.name] EXCEPT !.suspended = flag]
    <2>1. workload[k.name] \in Row
      BY <1>2, <1>7, <1>9 DEF Exists
    <2>0. flag \in BOOLEAN
      OBVIOUS
    <2>3. workload' = [workload EXCEPT ![k.name] = new]
      BY <1>9 DEF Suspends
    <2> HIDE DEF flag
    <2>2. /\ new \in Row /\ new.id = workload[k.name].id
          /\ new.version = workload[k.name].version /\ new.spec = workload[k.name].spec
          /\ new.hash = workload[k.name].hash
      BY <2>0, <2>1 DEF Row
    <2> HIDE DEF new
    <2>4. workload' \in [Names -> Row \cup {NoRow}]
      BY <1>7, <2>2, <2>3
    <2>5. \A n \in Names : workload'[n] = IF n = k.name THEN new ELSE workload[n]
      BY <1>7, <2>3
    <2>6. \A n \in Names :
             /\ workload'[n] # NoRow <=> workload[n] # NoRow
             /\ workload'[n] # NoRow =>
                  /\ workload'[n].id = workload[n].id
                  /\ workload'[n].version = workload[n].version
                  /\ workload'[n].spec = workload[n].spec
                  /\ workload'[n].hash = workload[n].hash
      BY <2>1, <2>2, <2>5, DesiredAssumption
    <2> QED
      BY <1>1, <1>3, <1>5, <1>6, <2>4, <2>6, FlagStep
  <1> QED
    BY <1>8, <1>9

-----------------------------------------------------------------------------
(* Statements that write a secret or a variable.                           *)

\* A thing is written: its readers are owed, and the rehashes that had read it begin to
\* lag, but none of a workload that does not read it.
LEMMA ThingStep ==
  ASSUME IInv, NEW c \in Clients, NEW j \in Call, call' = [call EXCEPT ![c] = j],
         CallInv(workload, ids, j), NEW t \in Things,
         thing' \in [Things -> [version : Nat, value : Values \cup {NoRow}, revision : Nat]],
         \A u \in Things \ {t} : thing'[u] = thing[u],
         ids' \in Nat, ids <= ids', behind' \in SUBSET Names, behind \subseteq behind',
         UNCHANGED <<workload, port, tag, calls, faults, torn>>,
         \A n \in Names : ~Owes(workload, thing, call[c], n),
         \A n \in UsedAt(workload, t) : n \in behind' \/ Owes(workload, thing', j, n)
  PROVE  IInv'
  <1>1. /\ port' = port /\ workload' = workload /\ torn' = torn
        /\ tag' = tag /\ calls' = calls /\ faults' = faults
    OBVIOUS
  <1>2. ids \in Nat /\ \A n \in Names : workload[n] # NoRow => workload[n].version \in Nat
    BY DEF IInv, TypeOK, Row
  <1>3. /\ CallsInv' /\ call' \in [Clients -> Call]
        /\ call'[c] = j /\ \A d \in Clients \ {c} : call'[d] = call[d]
    <2>1. Renewed(workload, ids, workload')
      BY <1>1, <1>2 DEF Renewed
    <2> QED
      BY <2>1, CallsKept
  <1>4. TypeOK'
    <2>1. \A n \in Names : workload[n] # NoRow =>
            workload[n].id \in 1..ids' /\ workload[n].version # 0
      BY <1>2 DEF IInv, TypeOK, Exists
    <2> QED
      BY <1>1, <1>3, <2>1 DEF IInv, TypeOK, Exists
  <1>5. TablesInv' /\ PortsInv'
    BY <1>1 DEF IInv, TablesInv, PortsInv
  <1>6. HashInv'
    <2> SUFFICES ASSUME NEW n \in Names, workload[n] # NoRow, n \notin torn, n \notin behind'
                 PROVE  \/ CoversAt(workload, port, thing', n)
                        \/ \E d \in Clients : Owes(workload, thing', call'[d], n)
      BY <1>1 DEF HashInv
    <2>1. CASE n \in UsedAt(workload, t)
      BY <2>1, <1>3
    <2>2. CASE n \notin UsedAt(workload, t)
      <3>1. /\ workload[n] \in Row /\ t \notin workload[n].spec.reads
            /\ workload[n].hash.spec = workload[n].spec
        BY <2>2 DEF UsedAt, IInv, TypeOK, Exists
      <3>2. \A u \in workload[n].spec.reads : u \in Things /\ thing'[u] = thing[u]
        BY <3>1 DEF Row, Specification
      <3>3. ThingsAt(thing', workload[n].spec) = ThingsAt(thing, workload[n].spec)
        BY <3>2 DEF ThingsAt
      <3>4. CASE CoversAt(workload, port, thing, n)
        BY <3>3, <3>4 DEF CoversAt
      <3>5. CASE ~CoversAt(workload, port, thing, n)
        <4>1. PICK d \in Clients : Owes(workload, thing, call[d], n)
          BY <3>5 DEF IInv, HashInv
        <4>2. d # c /\ call'[d] = call[d]
          BY <4>1, <1>3
        <4>3. CASE /\ call[d].op = "rehash" /\ call[d].pc = "addresses"
                   /\ call[d].row.hash = workload[n].hash
          <5>1. call[d].row # NoRow /\ call[d].spec = call[d].row.spec
            BY <4>3 DEF IInv, CallsInv, CallInv, Control, HasRow
          <5>2. call[d].spec = workload[n].spec
            BY <3>1, <4>3, <5>1 DEF IInv, CallsInv, CallInv, ReadRows, Belongs
          <5> QED
            BY <3>3, <4>1, <4>2, <5>2 DEF Owes
        <4>4. CASE ~(/\ call[d].op = "rehash" /\ call[d].pc = "addresses"
                     /\ call[d].row.hash = workload[n].hash)
          BY <4>1, <4>2, <4>4 DEF Owes
        <4> QED
          BY <4>3, <4>4
      <3> QED
        BY <3>4, <3>5
    <2> QED
      BY <2>1, <2>2
  <1> QED
    BY <1>3, <1>4, <1>5, <1>6 DEF IInv

\* The readers of a secret are yet to be listed; those of a variable were, and one that
\* came since is left behind.
LEMMA PutHolds ==
  ASSUME IInv, NEW c \in Clients, Put(c)
  PROVE  IInv'
  <1> DEFINE k == call[c]
             held == thing[k.thing]
             new == [version |-> held.version + 1, value |-> k.value, revision |-> ids + 1]
             refused == k.ifMatch # 0 /\ held.version # k.ifMatch
  <1>1. /\ k \in Call /\ CallInv(workload, ids, k) /\ k.pc = "put"
        /\ UNCHANGED <<workload, port, tag, calls, faults, torn>>
    BY DEF IInv, TypeOK, CallsInv, Put, At
  <1>2. k.op \in {"secret", "variable"} /\ k.thing \in Things
    BY <1>1, Domains DEF CallInv, Control, Call
  <1>3. \A n \in Names : ~Owes(workload, thing, k, n)
    BY <1>1, <1>2 DEF Owes
  <1>4. CASE refused
    <2>1. Abort(c, k) /\ UNCHANGED Reading
      BY <1>1, <1>4 DEF Put, Reading, tables, history
    <2> QED
      BY <1>1, <1>3, <2>1, ReadQuits
  <1>5. CASE ~refused
    <2>1. /\ thing' = [thing EXCEPT ![k.thing] = new] /\ ids' = ids + 1
          /\ behind' = IF k.op = "variable" THEN behind \cup (UsedBy(k.thing) \ k.todo)
                                            ELSE behind
          /\ Proceed(c, k)
      BY <1>5 DEF Put
    <2>2. /\ thing \in [Things -> [version : Nat, value : Values \cup {NoRow}, revision : Nat]]
          /\ ids \in Nat /\ behind \in SUBSET Names /\ k.value \in Values \cup {NoRow}
      BY <1>1 DEF IInv, TypeOK, Call
    <2>3. new \in [version : Nat, value : Values \cup {NoRow}, revision : Nat]
      BY <1>2, <2>2
    <2> HIDE DEF new
    <2>4. /\ thing' \in [Things -> [version : Nat, value : Values \cup {NoRow}, revision : Nat]]
          /\ \A u \in Things \ {k.thing} : thing'[u] = thing[u]
      BY <2>1, <2>2, <2>3
    <2>5. ids' \in Nat /\ ids <= ids'
      BY <2>1, <2>2
    <2>6. k.pc \in Ongoing \ {"get", "resolve"}
      BY <1>1 DEF Ongoing
    <2>7. PICK j \in Call : /\ call' = [call EXCEPT ![c] = j] /\ CallInv(workload, ids, j)
                            /\ j.pc = After(k) /\ j.op = k.op /\ j.todo = k.todo
                            /\ j.thing = k.thing
      BY <1>1, <2>1, <2>6, Proceeds
    <2>8. /\ UsedBy(k.thing) = UsedAt(workload, k.thing)
          /\ UsedBy(k.thing) \in SUBSET Names
      BY NowAt DEF UsedBy
    <2>9. behind' \in SUBSET Names /\ behind \subseteq behind'
      BY <2>1, <2>2, <2>8
    <2>10. /\ k.op = "secret" => j.pc = "users"
           /\ k.op = "variable" => j.pc = "next"
      BY <1>1, <2>7, AfterOthers
    <2>11. \A n \in UsedAt(workload, k.thing) : n \in behind' \/ Owes(workload, thing', j, n)
      BY <1>2, <2>1, <2>7, <2>8, <2>10 DEF Owes
    <2> QED
      BY <1>1, <1>2, <1>3, <2>4, <2>5, <2>7, <2>9, <2>11, ThingStep
  <1> QED
    BY <1>4, <1>5

\* The readers of what is removed are left behind.
LEMMA DropHolds ==
  ASSUME IInv, NEW c \in Clients, Drop(c)
  PROVE  IInv'
  <1> DEFINE k == call[c]
             new == [thing[k.thing] EXCEPT !.version = 0]
  <1>1. /\ k \in Call /\ CallInv(workload, ids, k) /\ k.pc = "drop"
        /\ thing' = [thing EXCEPT ![k.thing] = new] /\ Proceed(c, k)
        /\ behind' = behind \cup UsedBy(k.thing)
        /\ UNCHANGED <<workload, port, ids, tag, calls, faults, torn>>
    BY DEF IInv, TypeOK, CallsInv, Drop, At
  <1>2. k.op = "unset" /\ k.thing \in Things
    BY <1>1, Domains DEF CallInv, Control, Call
  <1>3. \A n \in Names : ~Owes(workload, thing, k, n)
    BY <1>1, <1>2 DEF Owes
  <1>4. call' = [call EXCEPT ![c] = Idle]
    BY <1>1, <1>2, AfterOthers DEF Proceed
  <1>5. Idle \in Call /\ CallInv(workload, ids, Idle)
    BY IdleIsCall, IdleCall
  <1>6. /\ thing \in [Things -> [version : Nat, value : Values \cup {NoRow}, revision : Nat]]
        /\ ids \in Nat /\ behind \in SUBSET Names
    BY DEF IInv, TypeOK
  <1>7. new \in [version : Nat, value : Values \cup {NoRow}, revision : Nat]
    BY <1>2, <1>6
  <1> HIDE DEF new
  <1>8. /\ thing' \in [Things -> [version : Nat, value : Values \cup {NoRow}, revision : Nat]]
        /\ \A u \in Things \ {k.thing} : thing'[u] = thing[u]
    BY <1>1, <1>6, <1>7
  <1>9. UsedBy(k.thing) = UsedAt(workload, k.thing) /\ UsedBy(k.thing) \in SUBSET Names
    BY NowAt DEF UsedBy
  <1>10. behind' \in SUBSET Names /\ behind \subseteq behind' /\ ids' \in Nat /\ ids <= ids'
    BY <1>1, <1>6, <1>9
  <1>11. \A n \in UsedAt(workload, k.thing) : n \in behind' \/ Owes(workload, thing', Idle, n)
    BY <1>1, <1>9
  <1> QED
    BY <1>1, <1>2, <1>3, <1>4, <1>5, <1>8, <1>10, <1>11, ThingStep

-----------------------------------------------------------------------------
(* A workload is removed.                                                  *)

\* A workload goes with its ports; a reference to it resolves to nothing.
LEMMA RemoveHolds ==
  ASSUME IInv, NEW a \in Names, Remove(a)
  PROVE  IInv'
  <1> DEFINE gone == workload[a].id
  <1>1. /\ workload[a] # NoRow
        /\ workload' = [workload EXCEPT ![a] = NoRow]
        /\ port' = {p \in port : p.workload # gone}
        /\ ids' = ids /\ thing' = thing /\ tag' = tag /\ call' = call /\ calls' = calls
        /\ faults' = faults /\ torn' = torn /\ behind' = behind
    BY DEF Remove, Exists, history
  <1>2. /\ workload \in [Names -> Row \cup {NoRow}] /\ ids \in Nat
        /\ call \in [Clients -> Call]
    BY DEF IInv, TypeOK
  <1>3. /\ workload' \in [Names -> Row \cup {NoRow}]
        /\ \A n \in Names : workload'[n] = IF n = a THEN NoRow ELSE workload[n]
    BY <1>1, <1>2
  <1>4. \A n \in Names \ {a} : workload[n] # NoRow =>
          workload[n].id # gone /\ workload[n].version \in Nat
    BY <1>1, <1>2 DEF IInv, TypeOK, Exists, Row
  <1> HIDE DEF gone
  <1>5. \A id : id # gone => ListAt(port', id) = ListAt(port, id)
    BY <1>1 DEF ListAt
  <1>6. \A n \in Names : workload'[n] # NoRow =>
          /\ n # a /\ workload'[n] = workload[n] /\ workload[n].id # gone
          /\ ListAt(port', workload'[n].id) = ListAt(port, workload[n].id)
    BY <1>3, <1>4, <1>5
  <1>7. TypeOK'
    <2>1. ASSUME NEW p \in port'
          PROVE  \E n \in Names : workload'[n] # NoRow /\ workload'[n].id = p.workload
      <3>1. p \in port /\ p.workload # gone
        BY <1>1, <2>1
      <3>2. PICK n \in Names : workload[n] # NoRow /\ workload[n].id = p.workload
        BY <3>1 DEF IInv, TypeOK, Exists
      <3>3. n # a
        BY <3>1, <3>2 DEF gone
      <3> QED
        BY <1>3, <3>2, <3>3
    <2>2. port' \subseteq [workload : Nat, claim : Claim]
      BY <1>1 DEF IInv, TypeOK
    <2>3. \A n \in Names : workload'[n] # NoRow =>
            /\ workload'[n].id \in 1..ids' /\ workload'[n].version # 0
            /\ workload'[n].hash.spec = workload'[n].spec
            /\ \A m \in Names \ {n} : workload'[m] # NoRow => workload'[m].id # workload'[n].id
      BY <1>1, <1>6 DEF IInv, TypeOK, Exists
    <2> QED
      BY <1>1, <1>3, <2>1, <2>2, <2>3 DEF IInv, TypeOK, Exists
  <1>8. TablesInv'
    BY <1>1, <1>6 DEF IInv, TablesInv
  <1>9. PortsInv'
    BY <1>1, <1>6 DEF IInv, PortsInv
  <1>10. CallsInv'
    <2> SUFFICES ASSUME NEW c \in Clients PROVE CallsInv'
      BY DEF CallsInv
    <2>1. /\ call[c] \in Call /\ CallInv(workload, ids, call[c])
          /\ call' = [call EXCEPT ![c] = call[c]]
      BY <1>1, <1>2 DEF IInv, CallsInv
    <2>2. Renewed(workload, ids, workload')
      BY <1>2, <1>4, <1>6 DEF Renewed
    <2>3. ids' \in Nat /\ ids <= ids'
      BY <1>1, <1>2
    <2> QED
      BY <2>1, <2>2, <2>3, CallsKept
  <1>11. HashInv'
    <2> SUFFICES ASSUME NEW n \in Names, workload'[n] # NoRow, n \notin torn, n \notin behind
                 PROVE  \/ CoversAt(workload', port', thing', n)
                        \/ \E d \in Clients : Owes(workload', thing', call'[d], n)
      BY <1>1 DEF HashInv
    <2>1. workload[n] # NoRow /\ workload'[n] = workload[n]
      BY <1>6
    <2>2. \A r \in workload[n].spec.refs : r.name \in Names
      BY <1>2, <2>1 DEF Row, Specification, Reference
    <2>3. \A r \in workload[n].spec.refs : r.name # n =>
            /\ workload'[r.name] # NoRow => workload[r.name] # NoRow
            /\ workload'[r.name] # NoRow =>
                 ListAt(port', workload'[r.name].id) = ListAt(port, workload[r.name].id)
      BY <1>6, <2>2
    <2> QED
      BY <1>1, <2>1, <2>3, HashKept
  <1> QED
    BY <1>7, <1>8, <1>9, <1>10, <1>11 DEF IInv

-----------------------------------------------------------------------------
(* Statements that write ports.                                            *)

\* A workload's allocation is replaced, and nobody else's is touched.
LEMMA ClaimReplaces ==
  ASSUME IInv, NEW id \in Nat, NEW claims \in SUBSET Claim, ~Collides(id, claims),
         NEW q, q = claim(id, claims)
  PROVE  /\ ListAt(q, id) = claims
         /\ \A other : other # id => ListAt(q, other) = ListAt(port, other)
         /\ q \subseteq [workload : Nat, claim : Claim]
         /\ \A p \in q : p.workload = id \/ p \in port
         /\ \A x, y \in q :
              (x.claim.host = y.claim.host /\ x.claim.protocol = y.claim.protocol) => x = y
  <1> DEFINE mine == {[workload |-> id, claim |-> c] : c \in claims}
             others == {p \in port : p.workload # id}
  <1>1. q = others \cup mine
    BY DEF claim
  <1>2. /\ \A p \in mine : /\ p.workload = id /\ p.claim \in claims
                           /\ p = [workload |-> id, claim |-> p.claim]
        /\ \A c \in claims : \E p \in mine : p.claim = c /\ p.workload = id
        /\ \A p \in others : p \in port /\ p.workload # id
        /\ \A p \in port : p.workload # id => p \in others
    <2>1. ASSUME NEW p \in mine
          PROVE  /\ p.workload = id /\ p.claim \in claims
                 /\ p = [workload |-> id, claim |-> p.claim]
      <3>1. PICK c \in claims : p = [workload |-> id, claim |-> c]
        BY <2>1
      <3> QED
        BY <3>1
    <2>2. ASSUME NEW c \in claims
          PROVE  \E p \in mine : p.claim = c /\ p.workload = id
      <3>1. [workload |-> id, claim |-> c] \in mine
        OBVIOUS
      <3> QED
        BY <3>1
    <2>3. /\ \A p \in others : p \in port /\ p.workload # id
          /\ \A p \in port : p.workload # id => p \in others
      OBVIOUS
    <2> QED
      BY <2>1, <2>2, <2>3
  <1>0. port \subseteq [workload : Nat, claim : Claim]
    BY DEF IInv, TypeOK
  <1>3. q \subseteq [workload : Nat, claim : Claim]
    BY <1>0, <1>1
  <1> HIDE DEF mine, others
  <1>4. ListAt(q, id) = claims
    BY <1>1, <1>2 DEF ListAt
  <1>5. \A other : other # id => ListAt(q, other) = ListAt(port, other)
    BY <1>1, <1>2 DEF ListAt
  <1>6. \A c : HostPorts({c}) = {<<c.host, c.protocol>>}
    BY DEF HostPorts
  <1>7. ASSUME NEW x \in others, NEW y \in mine,
               x.claim.host = y.claim.host, x.claim.protocol = y.claim.protocol
        PROVE  FALSE
    <2>1. HostPorts({x.claim}) = HostPorts({y.claim})
      BY <1>6, <1>7
    <2> QED
      BY <1>2, <2>1 DEF Collides
  <1>8. ASSUME NEW x \in mine, NEW y \in mine,
               x.claim.host = y.claim.host, x.claim.protocol = y.claim.protocol
        PROVE  x = y
    <2>1. HostPorts({x.claim}) = HostPorts({y.claim})
      BY <1>6, <1>8
    <2>2. x.claim = y.claim
      BY <1>2, <2>1 DEF Collides
    <2> QED
      BY <1>2, <2>2
  <1>9. ASSUME NEW x \in others, NEW y \in others,
               x.claim.host = y.claim.host, x.claim.protocol = y.claim.protocol
        PROVE  x = y
    BY <1>2, <1>9 DEF IInv, TablesInv
  <1>10. \A x, y \in q :
           (x.claim.host = y.claim.host /\ x.claim.protocol = y.claim.protocol) => x = y
    BY <1>1, <1>7, <1>8, <1>9
  <1> QED
    BY <1>1, <1>2, <1>3, <1>4, <1>5, <1>10

\* A move writes to the workload it read, if that is there; its readers are left behind.
LEMMA ClaimsHolds ==
  ASSUME IInv, NEW c \in Clients, Claims(c)
  PROVE  IInv'
  <1> DEFINE k == call[c]
             id == k.row.id
             absent == ~\E n \in Names : Exists(n) /\ workload[n].id = id
             moved == List(id) # k.held \/ workload[k.name].spec # k.row.spec
  <1>1. /\ k \in Call /\ CallInv(workload, ids, k) /\ k.pc = "claim" /\ Proceed(c, k)
        /\ workload' = workload /\ ids' = ids /\ thing' = thing /\ tag' = tag
        /\ calls' = calls /\ faults' = faults
    BY DEF IInv, TypeOK, CallsInv, Claims, At
  <1>2. k.op = "move"
    BY <1>1, Domains DEF CallInv, Control, Call
  <1>3. /\ k.name \in Names /\ k.row \in Row /\ k.row # NoRow /\ k.spec = k.row.spec
        /\ k.spec \in Specification
    BY <1>1, <1>2, SpecHeld
  <1>4. call' = [call EXCEPT ![c] = Idle]
    BY <1>1, <1>2, AfterMove DEF Proceed
  <1>5. Idle \in Call /\ CallInv(workload, ids, Idle)
    BY IdleIsCall, IdleCall
  <1>6. \A n \in Names : ~Owes(workload, thing, k, n)
    BY <1>1, <1>2 DEF Owes
  <1>7. CASE absent \/ Collides(id, k.claims)
    <2>1. UNCHANGED Reading
      BY <1>1, <1>7 DEF Claims, Reading, tables, history
    <2> QED
      BY <1>4, <1>5, <1>6, <2>1, ReadStep
  <1>8. CASE ~absent /\ ~Collides(id, k.claims)
    <2>1. /\ port' = claim(id, k.claims)
          /\ behind' = behind \cup ReferencedBy(k.name)
          /\ torn' = IF moved THEN torn \cup {k.name} ELSE torn
      BY <1>8 DEF Claims
    <2>2. PICK a \in Names : workload[a] # NoRow /\ workload[a].id = id
      BY <1>8 DEF Exists
    <2>3. a = k.name
      BY <1>1, <1>3, <2>2 DEF CallInv, ReadRows, Belongs
    <2>4. id \in Nat /\ k.claims \in SUBSET Claim
      BY <1>1, <1>3 DEF Row, Call
    <2>5. /\ ListAt(port', id) = k.claims
          /\ \A other : other # id => ListAt(port', other) = ListAt(port, other)
          /\ port' \subseteq [workload : Nat, claim : Claim]
          /\ \A p \in port' : p.workload = id \/ p \in port
          /\ \A x, y \in port' :
               (x.claim.host = y.claim.host /\ x.claim.protocol = y.claim.protocol) => x = y
      BY <1>8, <2>1, <2>4, ClaimReplaces
    <2> HIDE DEF id
    <2>6. \A n \in Names \ {a} : workload[n] # NoRow =>
            /\ workload[n].id # id
            /\ ListAt(port', workload[n].id) = ListAt(port, workload[n].id)
      BY <2>2, <2>5 DEF IInv, TypeOK, Exists
    <2>7. /\ ReferencedBy(k.name) \in SUBSET Names
          /\ ReferencedBy(k.name) = ReferencedAt(workload, a)
      BY <2>3, NowAt DEF ReferencedBy
    <2>8. /\ behind' \in SUBSET Names /\ behind \subseteq behind'
          /\ torn' \in SUBSET Names /\ torn \subseteq torn'
          /\ \A n \in ReferencedAt(workload, a) : n \in behind'
      BY <1>3, <2>1, <2>7 DEF IInv, TypeOK
    <2>9. ids \in Nat /\ \A n \in Names : workload[n] # NoRow => workload[n].version \in Nat
      BY DEF IInv, TypeOK, Row
    <2>10. /\ CallsInv' /\ call' \in [Clients -> Call]
           /\ call'[c] = Idle /\ \A d \in Clients \ {c} : call'[d] = call[d]
      <3>1. Renewed(workload, ids, workload')
        BY <1>1, <2>9 DEF Renewed
      <3>2. ids' \in Nat /\ ids <= ids'
        BY <1>1, <2>9
      <3> QED
        BY <1>4, <1>5, <3>1, <3>2, CallsKept
    <2>11. TypeOK'
      <3>1. \A p \in port' :
              \E n \in Names : workload[n] # NoRow /\ workload[n].id = p.workload
        BY <2>2, <2>5 DEF IInv, TypeOK, Exists
      <3> QED
        BY <1>1, <2>5, <2>8, <2>10, <3>1 DEF IInv, TypeOK, Exists
    <2>12. TablesInv'
      BY <1>1, <2>5 DEF IInv, TablesInv
    <2>13. PortsInv'
      <3> SUFFICES ASSUME NEW n \in Names, workload[n] # NoRow, n \notin torn'
                   PROVE  /\ Settles(workload[n].spec, ListAt(port', workload[n].id))
                          /\ NamesFirst(workload[n].spec, ListAt(port', workload[n].id))
        BY <1>1 DEF PortsInv
      <3>1. CASE n # a
        BY <2>6, <2>8, <3>1 DEF IInv, PortsInv
      <3>2. CASE n = a
        <4>1. ~moved
          BY <2>1, <2>3, <3>2
        <4>2. ListAt(port, id) = k.held /\ workload[a].spec = k.spec
          BY <1>3, <2>3, <4>1, NowAt
        <4>3. Settles(k.spec, k.held) /\ NamesFirst(k.spec, k.held)
          BY <2>2, <2>8, <3>2, <4>2 DEF IInv, PortsInv
        <4>4. Settles(k.spec, k.claims) /\ NamesFirst(k.spec, k.claims)
          BY <1>1, <1>2, <4>3 DEF CallInv, Resolves
        <4> QED
          BY <2>2, <2>5, <3>2, <4>2, <4>4
      <3> QED
        BY <3>1, <3>2
    <2>14. HashInv'
      <3> SUFFICES ASSUME NEW n \in Names, workload[n] # NoRow, n \notin torn',
                          n \notin behind'
                   PROVE  \/ CoversAt(workload', port', thing', n)
                          \/ \E d \in Clients : Owes(workload', thing', call'[d], n)
        BY <1>1 DEF HashInv
      <3>1. n \notin torn /\ n \notin behind /\ n \notin ReferencedAt(workload, a)
        BY <2>8
      <3>2. \A r \in workload[n].spec.refs : r.name \in Names
        BY DEF IInv, TypeOK, Row, Specification, Reference
      <3>3. \A r \in workload[n].spec.refs : r.name # n => r.name # a
        BY <3>1 DEF ReferencedAt
      <3>4. \A r \in workload[n].spec.refs : r.name # n =>
              /\ workload'[r.name] # NoRow => workload[r.name] # NoRow
              /\ workload'[r.name] # NoRow =>
                   ListAt(port', workload'[r.name].id) = ListAt(port, workload[r.name].id)
        BY <1>1, <2>6, <3>2, <3>3
      <3>5. \A d \in Clients :
              Owes(workload, thing, call[d], n) => Owes(workload, thing, call'[d], n)
        BY <1>6, <2>10
      <3> QED
        BY <1>1, <3>1, <3>4, <3>5, HashKept
    <2> QED
      BY <2>10, <2>11, <2>12, <2>13, <2>14 DEF IInv
  <1> QED
    BY <1>7, <1>8

-----------------------------------------------------------------------------
(* The write of a row with its ports.                                      *)

\* What a call that has come to the write writes.
LEMMA Written ==
  ASSUME NEW w, NEW i, NEW k \in Call, CallInv(w, i, k), k.pc = "upsert"
  PROVE  /\ k.op \in {"apply", "reallocate", "rehash", "drift"}
         /\ k.name \in Names /\ k.spec \in Specification /\ k.inputs \in Inputs
         /\ NewSpec(k) \in Specification /\ Valid(NewSpec(k))
         /\ NewSpec(k).reads = k.spec.reads /\ NewSpec(k).refs = k.spec.refs
         /\ NewSpec(k).refreshed = k.spec.refreshed
         /\ NewClaims(k) \in SUBSET Claim
         /\ ~Chained(k) => /\ Settles(NewSpec(k), NewClaims(k))
                           /\ NamesFirst(NewSpec(k), NewClaims(k))
         /\ Chained(k) => /\ NewSpec(k) = k.spec /\ NewClaims(k) = k.held
                          /\ k.row # NoRow /\ k.spec = k.row.spec
  <1>1. k.op \in {"apply", "reallocate", "rehash", "drift"}
    BY Domains DEF CallInv, Control, Call
  <1>2. /\ k.spec \in Specification /\ Valid(k.spec) /\ k.name \in Names
        /\ k.op # "apply" => k.row # NoRow /\ k.spec = k.row.spec
    BY SpecHeld
  <1>3. k.inputs \in Inputs /\ k.claims \in SUBSET Claim /\ k.held \in SUBSET Claim
    BY DEF Call
  <1>4. CASE Chained(k)
    <2>1. NewSpec(k) = k.spec /\ NewClaims(k) = k.held /\ k.op # "apply"
      BY <1>4 DEF NewSpec, NewClaims, Chained
    <2> QED
      BY <1>1, <1>2, <1>3, <1>4, <2>1
  <1>5. CASE ~Chained(k)
    <2>1. Settles(k.spec, k.claims)
      BY <1>1, <1>5 DEF CallInv, Resolves, Chained
    <2>2. /\ NewSpec(k) = [k.spec EXCEPT !.ports = Resolved(@, k.claims)]
          /\ NewClaims(k) = k.claims
      BY <1>5 DEF NewSpec, NewClaims
    <2>3. /\ NewSpec(k) \in Specification /\ Valid(NewSpec(k))
          /\ Settles(NewSpec(k), k.claims) /\ NamesFirst(NewSpec(k), k.claims)
      BY <1>2, <1>3, <2>1, <2>2, ResolvedNames, ZenonT(30)
    <2>4. /\ NewSpec(k).reads = k.spec.reads /\ NewSpec(k).refs = k.spec.refs
          /\ NewSpec(k).refreshed = k.spec.refreshed
      BY <1>2, <2>2 DEF Specification
    <2> QED
      BY <1>1, <1>2, <1>3, <1>5, <2>2, <2>3, <2>4
  <1> QED
    BY <1>4, <1>5

\* The row an Upsert that commits leaves: it has what was written, under an identifier of
\* its own.
LEMMA RowWritten ==
  ASSUME IInv, NEW a \in Names, NEW spec \in Specification, NEW inputs \in Inputs,
         NEW ifMatch, NEW claims,
         UpsertRefusal(a, ifMatch, claims) = "none",
         Upsert(a, spec, Compute(spec, inputs), claims)
  PROVE  \E row \in Row :
           /\ workload' = [workload EXCEPT ![a] = row] /\ port' = claim(row.id, claims)
           /\ thing' = thing /\ ~Collides(row.id, claims)
           /\ row.spec = spec /\ row.hash = Compute(spec, inputs)
           /\ ids' \in Nat /\ ids <= ids' /\ row.id \in 1..ids' /\ row.version # 0
           /\ workload[a] = NoRow => row.id > ids
           /\ workload[a] # NoRow =>
                /\ row.id = workload[a].id /\ row.version >= workload[a].version
                /\ row.version = workload[a].version => row.hash = workload[a].hash
           /\ \A m \in Names \ {a} : workload[m] # NoRow => workload[m].id # row.id
  <1> DEFINE hash == Compute(spec, inputs)
             old == workload[a]
             row == IF Exists(a) THEN Updated(old, spec, hash) ELSE Inserted(spec, hash)
  <1>1. /\ workload' = [workload EXCEPT ![a] = row] /\ port' = claim(row.id, claims)
        /\ ids' = (IF Exists(a) THEN ids ELSE ids + 1) /\ thing' = thing
    BY DEF Upsert
  <1>2. /\ ids \in Nat
        /\ \A m \in Names : workload[m] # NoRow =>
             /\ workload[m] \in Row /\ workload[m].id \in 1..ids /\ workload[m].version # 0
             /\ workload[m].hash.spec = workload[m].spec
        /\ \A m \in Names \ {a} : (workload[m] # NoRow /\ old # NoRow) =>
             workload[m].id # old.id
    BY DEF IInv, TypeOK, Exists
  <1>3. hash \in [spec : Specification, inputs : Inputs] /\ hash.spec = spec
    BY DEF Compute
  <1> DEFINE Left(r) ==
        /\ r \in Row /\ r.spec = spec /\ r.hash = hash /\ ~Collides(r.id, claims)
        /\ ids' \in Nat /\ ids <= ids' /\ r.id \in 1..ids' /\ r.version # 0
        /\ workload[a] = NoRow => r.id > ids
        /\ workload[a] # NoRow =>
             /\ r.id = workload[a].id /\ r.version >= workload[a].version
             /\ r.version = workload[a].version => r.hash = workload[a].hash
        /\ \A m \in Names \ {a} : workload[m] # NoRow => workload[m].id # r.id
  <1>4. SUFFICES Left(row)
    <2> HIDE DEF row
    <2> QED
      BY <1>1
  <1> HIDE DEF hash
  <1>5. CASE workload[a] # NoRow
    <2>1. /\ old \in Row /\ old.id \in 1..ids /\ old.version # 0 /\ old.hash.spec = old.spec
          /\ \A m \in Names \ {a} : workload[m] # NoRow => workload[m].id # old.id
      BY <1>2, <1>5
    <2>2. /\ row = Updated(old, spec, hash) /\ ids' = ids /\ ~Collides(old.id, claims)
      BY <1>1, <1>5 DEF Exists, UpsertRefusal
    <2>0. old.version \in Nat
      BY <2>1 DEF Row
    <2> HIDE DEF row
    <2>3. CASE old.hash = hash
      <3>1. row = old
        BY <2>2, <2>3 DEF Updated
      <3>2. old.version >= old.version /\ ids <= ids
        BY <1>2, <2>0
      <3>3. old.spec = spec
        BY <1>3, <2>1, <2>3
      <3> QED
        BY <1>2, <1>5, <2>1, <2>2, <2>3, <3>1, <3>2, <3>3
    <2>4. CASE old.hash # hash
      <3> DEFINE v == old.version + 1
      <3>1. row = [old EXCEPT !.version = v, !.spec = spec, !.hash = hash]
        BY <2>2, <2>4 DEF Updated
      <3>2. v \in Nat /\ v >= old.version /\ v # old.version /\ v # 0 /\ ids <= ids
        BY <1>2, <2>0
      <3> HIDE DEF v
      <3>3. /\ row \in Row /\ row.id = old.id /\ row.version = v /\ row.spec = spec
            /\ row.hash = hash
        BY <1>3, <2>1, <3>1, <3>2 DEF Row
      <3> QED
        BY <1>2, <1>5, <2>1, <2>2, <3>2, <3>3
    <2> QED
      BY <2>3, <2>4
  <1>6. CASE workload[a] = NoRow
    <2>1. row = Inserted(spec, hash) /\ ids' = ids + 1
      BY <1>1, <1>6 DEF Exists
    <2>2. ~Collides(ids + 1, claims)
      BY <1>6 DEF Exists, UpsertRefusal
    <2> HIDE DEF row
    <2> DEFINE no == FALSE
               next == ids + 1
               one == 1
    <2>3. no \in BOOLEAN
      OBVIOUS
    <2>4. /\ next \in Nat /\ next > ids /\ next \in 1..next /\ ids <= next
          /\ one \in Nat /\ one # 0
      BY <1>2
    <2>5. row = [id |-> next, version |-> one, spec |-> spec, hash |-> hash,
                 deleted |-> no, suspended |-> no]
      BY <2>1 DEF Inserted
    <2>6. ids' = next /\ ~Collides(next, claims)
      BY <2>1, <2>2
    <2>7. \A m \in Names : workload[m] # NoRow => workload[m].id # next
      BY <1>2
    <2> HIDE DEF no, next, one
    <2>8. /\ row \in Row /\ row.id = next /\ row.version = one /\ row.spec = spec
          /\ row.hash = hash
      BY <1>3, <2>3, <2>4, <2>5 DEF Row
    <2> QED
      BY <1>6, <2>4, <2>6, <2>7, <2>8
  <1> QED
    BY <1>5, <1>6

\* A write that commits.  The row's own hash covers what was read, if that still holds;
\* those who refer to it are owed a rehash if its ports may have moved.
LEMMA CommitHolds ==
  ASSUME IInv, NEW c \in Clients, call[c].pc = "upsert",
         UpsertRefusal(call[c].name, call[c].ifMatch, NewClaims(call[c])) = "none",
         Upsert(call[c].name, NewSpec(call[c]), Compute(NewSpec(call[c]), call[c].inputs),
                NewClaims(call[c])),
         Proceed(c, call[c]), torn' = Tear(call[c]),
         behind' = IF ~Stale(call[c]) THEN behind \ {call[c].name}
                   ELSE IF Chained(call[c]) THEN behind \cup ReferencedBy(call[c].name)
                   ELSE behind,
         UNCHANGED <<tag, calls, faults>>
  PROVE  IInv'
  <1> DEFINE k == call[c]
             a == k.name
             spec == NewSpec(k)
             claims == NewClaims(k)
  <1>1. k \in Call /\ CallInv(workload, ids, k)
    BY DEF IInv, TypeOK, CallsInv
  <1>2. /\ k.op \in {"apply", "reallocate", "rehash", "drift"}
        /\ a \in Names /\ k.spec \in Specification /\ k.inputs \in Inputs
        /\ spec \in Specification /\ Valid(spec)
        /\ spec.reads = k.spec.reads /\ spec.refs = k.spec.refs
        /\ spec.refreshed = k.spec.refreshed
        /\ claims \in SUBSET Claim
        /\ ~Chained(k) => Settles(spec, claims) /\ NamesFirst(spec, claims)
        /\ Chained(k) => /\ spec = k.spec /\ claims = k.held
                         /\ k.row # NoRow /\ k.spec = k.row.spec
    BY <1>1, Written
  <1>3. /\ UpsertRefusal(a, k.ifMatch, claims) = "none"
        /\ Upsert(a, spec, Compute(spec, k.inputs), claims)
    OBVIOUS
  <1>4. k.pc \in Ongoing \ {"get", "resolve"} /\ Proceed(c, k)
    BY DEF Ongoing
  <1>5. PICK j \in Call : /\ call' = [call EXCEPT ![c] = j] /\ CallInv(workload, ids, j)
                          /\ j.pc = After(k) /\ j.op = k.op /\ j.name = a
                          /\ j.todo = k.todo
    BY <1>1, <1>4, Proceeds
  <1>6. /\ k.op \in {"apply", "reallocate"} => j.pc = "referenced"
        /\ Chained(k) <=> k.op \in {"rehash", "drift"}
    BY <1>5, AfterApply, AfterReallocate DEF Chained
  <1>7. /\ ReferencedBy(a) = ReferencedAt(workload, a) /\ ReferencedBy(a) \in SUBSET Names
        /\ torn \in SUBSET Names /\ behind \in SUBSET Names
    BY NowAt DEF ReferencedBy, IInv, TypeOK
  <1>8. /\ torn' \in SUBSET Names /\ \A n \in torn : n = a \/ n \in torn'
        /\ Stale(k) => a \in torn'
        /\ ~Stale(k) /\ Chained(k) => torn' = torn
    BY <1>2, <1>6, <1>7 DEF Tear
  <1>9. /\ behind' \in SUBSET Names /\ \A n \in behind : n = a \/ n \in behind'
        /\ Stale(k) /\ Chained(k) => \A n \in ReferencedAt(workload, a) : n \in behind'
    BY <1>2, <1>7
  <1>10. ~Stale(k) =>
           /\ Chained(k) => /\ workload[a] # NoRow /\ workload[a].spec = k.spec
                            /\ ListAt(port, workload[a].id) = k.held
           /\ k.inputs.things = ThingsAt(thing, k.spec)
           /\ k.inputs.addresses = AddressesAt(workload, port, k.spec, a)
    BY <1>2, NowAt DEF Stale, Current
  <1> HIDE DEF k, a, spec, claims
  <1>11. PICK row \in Row :
           /\ workload' = [workload EXCEPT ![a] = row] /\ port' = claim(row.id, claims)
           /\ thing' = thing /\ ~Collides(row.id, claims)
           /\ row.spec = spec /\ row.hash = Compute(spec, k.inputs)
           /\ ids' \in Nat /\ ids <= ids' /\ row.id \in 1..ids' /\ row.version # 0
           /\ workload[a] = NoRow => row.id > ids
           /\ workload[a] # NoRow =>
                /\ row.id = workload[a].id /\ row.version >= workload[a].version
                /\ row.version = workload[a].version => row.hash = workload[a].hash
           /\ \A m \in Names \ {a} : workload[m] # NoRow => workload[m].id # row.id
    BY <1>2, <1>3, RowWritten
  <1>12. /\ workload' \in [Names -> Row \cup {NoRow}] /\ workload'[a] = row
         /\ \A n \in Names \ {a} : workload'[n] = workload[n]
         /\ row # NoRow
    BY <1>2, <1>11, DesiredAssumption DEF IInv, TypeOK
  <1>13. row.id \in Nat /\ row.version \in Nat
    BY DEF Row
  <1>14. /\ ListAt(port', row.id) = claims
         /\ \A other : other # row.id => ListAt(port', other) = ListAt(port, other)
         /\ port' \subseteq [workload : Nat, claim : Claim]
         /\ \A p \in port' : p.workload = row.id \/ p \in port
         /\ \A x, y \in port' :
              (x.claim.host = y.claim.host /\ x.claim.protocol = y.claim.protocol) => x = y
    <2> DEFINE id == row.id
               q == port'
    <2>1. /\ id \in Nat /\ ~Collides(id, claims) /\ q = claim(id, claims)
          /\ claims \in SUBSET Claim
      BY <1>2, <1>11, <1>13
    <2> HIDE DEF id, q
    <2>2. /\ ListAt(q, id) = claims
          /\ \A other : other # id => ListAt(q, other) = ListAt(port, other)
          /\ q \subseteq [workload : Nat, claim : Claim]
          /\ \A p \in q : p.workload = id \/ p \in port
          /\ \A x, y \in q :
               (x.claim.host = y.claim.host /\ x.claim.protocol = y.claim.protocol) => x = y
      BY <2>1, ClaimReplaces
    <2> QED
      BY <2>2 DEF id, q
  <1>15. \A n \in Names \ {a} : workload[n] # NoRow =>
           ListAt(port', workload[n].id) = ListAt(port, workload[n].id)
    BY <1>11, <1>14
  <1>16. /\ CallsInv' /\ call' \in [Clients -> Call]
         /\ call'[c] = j /\ \A d \in Clients \ {c} : call'[d] = call[d]
    <2>1. ids \in Nat /\ \A m \in Names : workload[m] # NoRow =>
            workload[m].version \in Nat /\ workload[m].version >= workload[m].version
      BY DEF IInv, TypeOK, Row
    <2>2. Renewed(workload, ids, workload')
      <3> SUFFICES ASSUME NEW m \in Names, workload'[m] # NoRow
                   PROVE  \/ workload'[m].id \in Nat /\ workload'[m].id > ids
                          \/ /\ workload[m] # NoRow /\ workload'[m].id = workload[m].id
                             /\ workload[m].version \in Nat /\ workload'[m].version \in Nat
                             /\ workload'[m].version >= workload[m].version
                             /\ workload'[m].version = workload[m].version
                                  => workload'[m].hash = workload[m].hash
        BY DEF Renewed
      <3>1. CASE m = a
        BY <1>2, <1>11, <1>12, <1>13, <2>1, <3>1
      <3>2. CASE m # a
        BY <1>12, <2>1, <3>2
      <3> QED
        BY <3>1, <3>2
    <2> QED
      BY <1>5, <1>11, <2>2, CallsKept
  <1>17. TypeOK'
    <2>1. \A n \in Names : workload'[n] # NoRow =>
            /\ workload'[n].id \in 1..ids' /\ workload'[n].version # 0
            /\ workload'[n].hash.spec = workload'[n].spec
      <3>1. row.hash.spec = row.spec
        BY <1>11 DEF Compute
      <3>2. ASSUME NEW n \in Names \ {a}, workload[n] # NoRow
            PROVE  /\ workload[n].id \in 1..ids' /\ workload[n].version # 0
                   /\ workload[n].hash.spec = workload[n].spec
        <4>1. /\ workload[n].id \in 1..ids /\ ids \in Nat /\ workload[n].version # 0
              /\ workload[n].hash.spec = workload[n].spec
          BY <3>2 DEF IInv, TypeOK, Exists
        <4> QED
          BY <1>11, <4>1
      <3> QED
        BY <1>11, <1>12, <3>1, <3>2
    <2>2. \A n \in Names : workload'[n] # NoRow =>
            \A m \in Names \ {n} : workload'[m] # NoRow => workload'[m].id # workload'[n].id
      BY <1>11, <1>12 DEF IInv, TypeOK, Exists
    <2>3. ASSUME NEW p \in port'
          PROVE  \E n \in Names : workload'[n] # NoRow /\ workload'[n].id = p.workload
      <3>1. CASE p.workload = row.id
        BY <1>2, <1>12, <3>1
      <3>2. CASE p \in port
        <4>1. PICK n \in Names : workload[n] # NoRow /\ workload[n].id = p.workload
          BY <3>2 DEF IInv, TypeOK, Exists
        <4> QED
          BY <1>11, <1>12, <4>1
      <3> QED
        BY <1>14, <2>3, <3>1, <3>2
    <2>4. thing' = thing /\ tag' = tag /\ calls' = calls /\ faults' = faults
      BY <1>11
    <2> QED
      BY <1>8, <1>9, <1>11, <1>12, <1>14, <1>16, <2>1, <2>2, <2>3, <2>4
      DEF IInv, TypeOK, Exists
  <1>18. TablesInv'
    <2>1. \A n \in Names : workload'[n] # NoRow => Valid(workload'[n].spec)
      BY <1>2, <1>11, <1>12 DEF IInv, TablesInv
    <2> QED
      BY <1>14, <2>1 DEF TablesInv
  <1>19. PortsInv'
    <2> SUFFICES ASSUME NEW n \in Names, workload'[n] # NoRow, n \notin torn'
                 PROVE  /\ Settles(workload'[n].spec, ListAt(port', workload'[n].id))
                        /\ NamesFirst(workload'[n].spec, ListAt(port', workload'[n].id))
      BY DEF PortsInv
    <2>1. CASE n # a
      BY <1>8, <1>12, <1>15, <2>1 DEF IInv, PortsInv
    <2>2. CASE n = a /\ ~Chained(k)
      BY <1>2, <1>11, <1>12, <1>14, <2>2
    <2>3. CASE n = a /\ Chained(k)
      <3>1. ~Stale(k) /\ a \notin torn
        BY <1>8, <2>3
      <3>2. /\ workload[a] # NoRow /\ workload[a].spec = spec
            /\ ListAt(port, workload[a].id) = claims
        BY <1>2, <1>10, <2>3, <3>1
      <3>3. Settles(spec, claims) /\ NamesFirst(spec, claims)
        BY <1>2, <3>1, <3>2 DEF IInv, PortsInv
      <3> QED
        BY <1>11, <1>12, <1>14, <2>3, <3>3
    <2> QED
      BY <2>1, <2>2, <2>3
  <1>20. HashInv'
    <2> SUFFICES ASSUME NEW n \in Names, workload'[n] # NoRow, n \notin torn', n \notin behind'
                 PROVE  \/ CoversAt(workload', port', thing', n)
                        \/ \E d \in Clients : Owes(workload', thing', call'[d], n)
      BY DEF HashInv
    <2>1. CASE n = a
      <3>1. ~Stale(k)
        BY <1>8, <2>1
      <3>2. /\ k.inputs.things = ThingsAt(thing, k.spec)
            /\ k.inputs.addresses = AddressesAt(workload, port, k.spec, a)
        BY <1>10, <3>1
      <3>3. ThingsAt(thing, spec) = ThingsAt(thing, k.spec)
        BY <1>2 DEF ThingsAt
      <3>4. \A r \in k.spec.refs : r.name \in Names
        BY <1>2 DEF Specification, Reference
      <3>5. \A r \in k.spec.refs : r.name # a =>
              /\ workload'[r.name] # NoRow => workload[r.name] # NoRow
              /\ workload'[r.name] # NoRow =>
                   ListAt(port', workload'[r.name].id) = ListAt(port, workload[r.name].id)
        BY <1>12, <1>15, <3>4
      <3>6. {x \in AddressesAt(workload', port', spec, a) : x[1].name # a}
              \subseteq {x \in AddressesAt(workload, port, k.spec, a) : x[1].name # a}
        <4> DEFINE old == k.spec
        <4>1. /\ old.refs = spec.refs
              /\ \A r \in old.refs : r.name # a =>
                   /\ workload'[r.name] # NoRow => workload[r.name] # NoRow
                   /\ workload'[r.name] # NoRow =>
                        ListAt(port', workload'[r.name].id) = ListAt(port, workload[r.name].id)
          BY <1>2, <3>5
        <4> HIDE DEF old
        <4>2. {x \in AddressesAt(workload', port', spec, a) : x[1].name # a}
                \subseteq {x \in AddressesAt(workload, port, old, a) : x[1].name # a}
          BY <4>1, SameAddresses
        <4> QED
          BY <4>2 DEF old
      <3>7. row.hash.inputs = k.inputs
        BY <1>11 DEF Compute
      <3>8. /\ workload'[a].spec = spec /\ workload'[a].hash.inputs = k.inputs
            /\ thing' = thing
        BY <1>11, <1>12, <3>7
      <3>9. CoversAt(workload', port', thing', a)
        <4>1. workload'[a].hash.inputs.things = ThingsAt(thing', workload'[a].spec)
          BY <3>2, <3>3, <3>8
        <4>2. {x \in AddressesAt(workload', port', workload'[a].spec, a) : x[1].name # a}
                \subseteq workload'[a].hash.inputs.addresses
          BY <3>2, <3>6, <3>8
        <4> QED
          BY <4>1, <4>2 DEF CoversAt
      <3> QED
        BY <2>1, <3>9
    <2>2. ASSUME n # a,
                 \A r \in workload[n].spec.refs : r.name # n =>
                   /\ workload'[r.name] # NoRow => workload[r.name] # NoRow
                   /\ workload'[r.name] # NoRow =>
                        ListAt(port', workload'[r.name].id) = ListAt(port, workload[r.name].id)
          PROVE  \/ CoversAt(workload', port', thing', n)
                 \/ \E d \in Clients : Owes(workload', thing', call'[d], n)
      <3>1. /\ workload[n] # NoRow /\ workload'[n] = workload[n]
            /\ n \notin torn /\ n \notin behind
        BY <1>8, <1>9, <1>12, <2>2
      <3>2. \A d \in Clients :
              Owes(workload, thing, call[d], n) => Owes(workload, thing, call'[d], n)
        <4>1. ASSUME Owes(workload, thing, k, n)
              PROVE  Owes(workload, thing, j, n)
          <5>1. k.pc = "upsert"
            BY DEF k
          <5>2. k.op = "rehash" /\ n \in k.todo
            BY <1>2, <2>2, <4>1, <5>1 DEF Owes, a
          <5> QED
            BY <1>5, <5>2 DEF Owes
        <4> QED
          BY <1>16, <4>1 DEF k
      <3> QED
        BY <1>11, <2>2, <3>1, <3>2, HashKept
    <2>3. CASE n # a /\ n \notin ReferencedAt(workload, a)
      <3>1. workload[n] # NoRow
        BY <1>12, <2>3
      <3>2. \A r \in workload[n].spec.refs : r.name \in Names
        BY <3>1 DEF IInv, TypeOK, Row, Specification, Reference
      <3>3. \A r \in workload[n].spec.refs : r.name # a
        BY <2>3, <3>1 DEF ReferencedAt
      <3> QED
        BY <1>12, <1>15, <2>2, <2>3, <3>2, <3>3
    <2>4. CASE n # a /\ n \in ReferencedAt(workload, a) /\ ~Chained(k)
      <3>1. j.pc = "referenced" /\ j.name = a
        BY <1>2, <1>5, <1>6, <2>4
      <3>2. n \in ReferencedAt(workload', a)
        BY <1>12, <2>4 DEF ReferencedAt
      <3> QED
        BY <1>16, <3>1, <3>2 DEF Owes
    <2>5. CASE n # a /\ n \in ReferencedAt(workload, a) /\ Chained(k)
      <3>1. ~Stale(k)
        BY <1>9, <2>5
      <3>2. /\ workload[a] # NoRow /\ ListAt(port, workload[a].id) = claims
            /\ row.id = workload[a].id
        BY <1>2, <1>10, <1>11, <2>5, <3>1
      <3>3. workload[n] # NoRow
        BY <1>12, <2>5
      <3>4. \A r \in workload[n].spec.refs : r.name \in Names
        BY <3>3 DEF IInv, TypeOK, Row, Specification, Reference
      <3>5. \A m \in Names : workload'[m] # NoRow =>
              /\ workload[m] # NoRow
              /\ ListAt(port', workload'[m].id) = ListAt(port, workload[m].id)
        BY <1>12, <1>14, <1>15, <3>2
      <3> QED
        BY <2>2, <2>5, <3>4, <3>5
    <2> QED
      BY <2>1, <2>3, <2>4, <2>5
  <1> QED
    BY <1>16, <1>17, <1>18, <1>19, <1>20 DEF IInv

\* The write commits, is tried again on other ports, or is refused.
LEMMA UpsertsHolds ==
  ASSUME IInv, NEW c \in Clients, Upserts(c)
  PROVE  IInv'
  <1> DEFINE k == call[c]
             refusal == UpsertRefusal(k.name, k.ifMatch, NewClaims(k))
             retried == /\ refusal = "taken" /\ k.op = "apply" /\ ~Pinned(k.spec.ports)
                        /\ k.tries + 1 < Attempts
  <1>1. /\ k \in Call /\ CallInv(workload, ids, k) /\ k.pc = "upsert"
        /\ UNCHANGED <<tag, calls, faults>>
    BY DEF IInv, TypeOK, CallsInv, Upserts, At
  <1>2. CASE /\ refusal = "none"
             /\ Upsert(k.name, NewSpec(k), Compute(NewSpec(k), k.inputs), NewClaims(k))
             /\ Proceed(c, k) /\ torn' = Tear(k)
             /\ behind' = IF ~Stale(k) THEN behind \ {k.name}
                          ELSE IF Chained(k) THEN behind \cup ReferencedBy(k.name)
                          ELSE behind
    BY <1>1, <1>2, CommitHolds
  <1>3. CASE /\ retried
             /\ call' = [call EXCEPT ![c].pc = "resolve", ![c].tries = @ + 1]
             /\ UNCHANGED <<tables, history>>
    <2> DEFINE tries == k.tries + 1
               j == [k EXCEPT !.pc = "resolve", !.tries = tries]
    <2>1. tries \in 0..(Attempts - 1) /\ k.op = "apply"
      <3>1. k.tries \in 0..(Attempts - 1) /\ k.tries + 1 < Attempts
        BY <1>1, <1>3 DEF Call
      <3> QED
        BY <1>3, <3>1, DesiredAssumption
    <2>2. call' = [call EXCEPT ![c] = j]
      BY <1>3 DEF IInv, TypeOK
    <2>3. "resolve" \in Statements
      BY StatementsAre
    <2> HIDE DEF tries
    <2>4. j \in Call
      BY <1>1, <2>1, <2>3 DEF Call
    <2>5. /\ j.pc = "resolve" /\ j.op = k.op /\ j.name = k.name /\ j.spec = k.spec
          /\ j.ifMatch = k.ifMatch /\ j.seen = k.seen /\ j.row = k.row /\ j.todo = k.todo
          /\ j.listed = k.listed /\ j.instance = k.instance
      BY <1>1 DEF Call
    <2> HIDE DEF j
    <2>6. CallInv(workload, ids, j)
      BY <1>1, <2>1, <2>5, Domains
      DEF CallInv, Control, HasRow, ReadRows, Resolves, Condition
    <2>7. \A n \in Names : ~Owes(workload, thing, k, n)
      BY <1>1, <2>1 DEF Owes
    <2>8. UNCHANGED Reading
      BY <1>1, <1>3 DEF Reading
    <2> QED
      BY <2>2, <2>4, <2>6, <2>7, <2>8, ReadStep
  <1>4. CASE /\ Abort(c, k)
             /\ behind' = IF Chained(k) THEN behind \cup {k.name} ELSE behind
             /\ UNCHANGED <<tables, torn>>
    <2>1. k.name \in Names /\ k.op \in {"apply", "reallocate", "rehash", "drift"}
      BY <1>1, Written
    <2>2. /\ workload' = workload /\ port' = port /\ ids' = ids /\ thing' = thing
          /\ torn' = torn /\ tag' = tag /\ calls' = calls /\ faults' = faults
      BY <1>1, <1>4 DEF tables
    <2>3. faults' \in 0..MaxFaults /\ behind \in SUBSET Names
      BY <2>2 DEF IInv, TypeOK
    <2>4. behind' \in SUBSET Names /\ behind \subseteq behind'
      BY <1>4, <2>1, <2>3
    <2>5. ASSUME NEW n \in Names, n \notin behind', Owes(workload, thing, k, n),
                 ~(k.op = "rehash" /\ n \in k.todo)
          PROVE  FALSE
      BY <1>1, <1>4, <2>1, <2>5 DEF Owes, Chained
    <2> QED
      BY <1>1, <1>4, <2>2, <2>3, <2>4, <2>5, Quits
  <1> QED
    BY <1>2, <1>3, <1>4 DEF Upserts

-----------------------------------------------------------------------------
(* Every step.                                                             *)

\* The invariant is inductive.
LEMMA NextHolds == IInv /\ [Next]_vars => IInv'
  <1> SUFFICES ASSUME IInv, [Next]_vars PROVE IInv'
    OBVIOUS
  <1>1. CASE UNCHANGED vars
    BY <1>1 DEF vars, IInv, TypeOK, TablesInv, CallsInv, PortsInv, HashInv, Exists
  <1>2. ASSUME NEW c \in Clients, Starts(c)
        PROVE  IInv'
    BY <1>2, ApplyHolds, PlainStartsHold, DriftHolds DEF Starts
  <1>3. ASSUME NEW c \in Clients, Steps(c)
        PROVE  IInv'
    BY <1>3, GetHolds, HeldHolds, ReadsThingsHolds, ReadsAddressesHolds,
       ResolvesDigestHolds, ResolvesPortsHolds, UpsertsHolds, ClaimsHolds, ReferencedHolds,
       NextReaderHolds, LookupHolds, PutHolds, UsersHolds, DropHolds, MarkHolds,
       SuspendsHolds
    DEF Steps
  <1>4. ASSUME NEW c \in Clients, CallFails(c)
        PROVE  IInv'
    BY <1>4, CallFailsHolds
  <1>5. ASSUME NEW n \in Names, Remove(n)
        PROVE  IInv'
    BY <1>5, RemoveHolds
  <1>6. CASE MoveTag
    BY <1>6, MoveTagHolds
  <1> QED
    BY <1>1, <1>2, <1>3, <1>4, <1>5, <1>6 DEF Next

LEMMA InvariantHolds == Spec => []IInv
  <1> QED
    BY InitHolds, NextHolds, PTL DEF Spec

\* A call whose write commits.
Commits(c) ==
  /\ call[c].pc = "upsert"
  /\ UpsertRefusal(call[c].name, call[c].ifMatch, NewClaims(call[c])) = "none"
  /\ workload' = [workload EXCEPT ![call[c].name] = workload'[call[c].name]]

\* What a client's step does to its row and to the calls of others.
LEMMA StepWrites ==
  ASSUME IInv, NEW c \in Clients, Starts(c) \/ Steps(c) \/ CallFails(c)
  PROVE  /\ \E j : call' = [call EXCEPT ![c] = j]
         /\ \/ workload' = workload
            \/ Commits(c)
            \/ /\ call[c].pc = "mark" /\ call[c].name \in Names
               /\ workload' = [workload EXCEPT ![call[c].name].deleted = TRUE]
            \/ /\ call[c].pc \in {"suspend", "resume"} /\ call[c].name \in Names
               /\ workload' = [workload EXCEPT ![call[c].name].suspended =
                                                 (call[c].pc = "suspend")]
  <1> DEFINE k == call[c]
             Own == \E j : call' = [call EXCEPT ![c] = j]
  <1>0. /\ \A i : Proceed(c, i) => Own
        /\ \A i : Abort(c, i) => Own
        /\ \A i : Begin(c, i) => Own
        /\ UNCHANGED Reading => workload' = workload
        /\ UNCHANGED <<tables, tag, faults, history>> => workload' = workload
        /\ UNCHANGED <<tables, tag, calls, torn>> => workload' = workload
    BY DEF Proceed, Abort, Begin, Reading, tables
  <1>1. CASE Starts(c)
    <2>1. CASE Drift(c)
      BY <1>0, <2>1 DEF Drift
    <2>2. ASSUME NEW i, Begin(c, i)
          PROVE  Own /\ workload' = workload
      BY <1>0, <2>2 DEF Begin
    <2>3. CASE Apply(c) \/ Set(c) \/ Unset(c) \/ Delete(c) \/ Hold(c) \/ Reallocate(c)
      <3>1. \E i : Begin(c, i)
        BY <2>3 DEF Apply, Set, Unset, Delete, Hold, Reallocate
      <3> QED
        BY <2>2, <3>1
    <2> QED
      BY <1>1, <2>1, <2>3 DEF Starts
  <1>2. CASE CallFails(c)
    BY <1>0, <1>2 DEF CallFails
  <1>3. CASE Steps(c)
    <2>1. CASE Get(c) \/ Held(c) \/ ReadsThings(c) \/ ReadsAddresses(c) \/ ResolvesDigest(c)
               \/ ResolvesPorts(c) \/ Users(c)
      BY <1>0, <2>1 DEF Get, Held, ReadsThings, ReadsAddresses, ResolvesDigest,
                        ResolvesPorts, Users
    <2>2. CASE Referenced(c) \/ NextReader(c) \/ Lookup(c)
      BY <1>0, <2>2 DEF Referenced, NextReader, Lookup
    <2>3. CASE Put(c) \/ Drop(c) \/ Claims(c)
      BY <1>0, <2>3 DEF Put, Drop, Claims
    <2>4. CASE Mark(c)
      <3>1. k \in Call /\ CallInv(workload, ids, k) /\ k.pc = "mark"
        BY <2>4 DEF IInv, TypeOK, CallsInv, Mark, At
      <3>2. k.name \in Names
        BY <3>1, Domains DEF CallInv, Control, Call
      <3> QED
        BY <1>0, <2>4, <3>1, <3>2 DEF Mark
    <2>5. CASE Suspends(c)
      <3>1. k \in Call /\ CallInv(workload, ids, k) /\ k.pc \in {"suspend", "resume"}
        BY <2>5 DEF IInv, TypeOK, CallsInv, Suspends
      <3>2. k.name \in Names
        BY <3>1, Domains DEF CallInv, Control, Call
      <3> QED
        BY <1>0, <2>5, <3>1, <3>2 DEF Suspends
    <2>6. CASE Upserts(c)
      <3>1. k.pc = "upsert"
        BY <2>6 DEF Upserts, At
      <3>2. CASE /\ UpsertRefusal(k.name, k.ifMatch, NewClaims(k)) = "none"
                 /\ Upsert(k.name, NewSpec(k), Compute(NewSpec(k), k.inputs), NewClaims(k))
                 /\ Proceed(c, k)
        <4>1. \E row : workload' = [workload EXCEPT ![k.name] = row]
          BY <3>2 DEF Upsert
        <4>2. k.name \in Names
          BY <3>1, Written DEF IInv, TypeOK, CallsInv
        <4>3. workload' = [workload EXCEPT ![k.name] = workload'[k.name]]
          BY <4>1, <4>2 DEF IInv, TypeOK
        <4> QED
          BY <1>0, <3>1, <3>2, <4>3 DEF Commits
      <3>3. CASE /\ call' = [call EXCEPT ![c].pc = "resolve", ![c].tries = @ + 1]
                 /\ UNCHANGED <<tables, history>>
        <4>1. call' = [call EXCEPT ![c] = [k EXCEPT !.pc = "resolve", !.tries = @ + 1]]
          BY <3>3 DEF IInv, TypeOK
        <4> QED
          BY <3>3, <4>1 DEF tables
      <3>4. CASE Abort(c, k) /\ UNCHANGED <<tables, torn>>
        BY <1>0, <3>4 DEF tables
      <3> QED
        BY <2>6, <3>2, <3>3, <3>4 DEF Upserts
    <2> QED
      BY <1>3, <2>1, <2>2, <2>3, <2>4, <2>5, <2>6 DEF Steps
  <1> QED
    BY <1>1, <1>2, <1>3

\* The write of a marked row is refused inside its transaction.
LEMMA MarkedStep ==
  ASSUME IInv, [Next]_vars, NEW n \in Names, Exists(n), workload[n].deleted,
         workload'[n] # NoRow
  PROVE  workload'[n] = [workload[n] EXCEPT !.suspended = workload'[n].suspended]
  <1>1. workload \in [Names -> Row \cup {NoRow}] /\ workload[n] \in Row
    BY DEF IInv, TypeOK, Exists
  <1>2. CASE workload'[n] = workload[n]
    BY <1>1, <1>2 DEF Row
  <1>3. ASSUME NEW c \in Clients, Starts(c) \/ Steps(c) \/ CallFails(c)
        PROVE  workload'[n] = [workload[n] EXCEPT !.suspended = workload'[n].suspended]
    <2> DEFINE k == call[c]
    <2>1. CASE workload' = workload
      BY <1>2, <2>1
    <2>2. CASE Commits(c)
      <3>1. k.name # n
        BY <2>2 DEF Commits, UpsertRefusal, Exists
      <3> QED
        BY <1>1, <1>2, <2>2, <3>1 DEF Commits
    <2>3. CASE k.name \in Names /\ workload' = [workload EXCEPT ![k.name].deleted = TRUE]
      <3>1. CASE k.name = n
        <4>1. workload'[n] = [workload[n] EXCEPT !.deleted = TRUE]
          BY <1>1, <2>3, <3>1
        <4> QED
          BY <1>1, <4>1 DEF Row
      <3>2. CASE k.name # n
        BY <1>1, <1>2, <2>3, <3>2
      <3> QED
        BY <3>1, <3>2
    <2>4. CASE /\ k.name \in Names
               /\ workload' = [workload EXCEPT ![k.name].suspended = (k.pc = "suspend")]
      <3> DEFINE flag == (k.pc = "suspend")
      <3>1. workload' = [workload EXCEPT ![k.name].suspended = flag]
        BY <2>4
      <3> HIDE DEF flag
      <3>2. CASE k.name = n
        <4>1. workload'[n] = [workload[n] EXCEPT !.suspended = flag]
          BY <1>1, <3>1, <3>2
        <4> QED
          BY <1>1, <4>1 DEF Row
      <3>3. CASE k.name # n
        BY <1>1, <1>2, <3>1, <3>3
      <3> QED
        BY <3>2, <3>3
    <2> QED
      BY <1>3, <2>1, <2>2, <2>3, <2>4, StepWrites
  <1>4. ASSUME NEW a \in Names, Remove(a)
        PROVE  workload'[n] = [workload[n] EXCEPT !.suspended = workload'[n].suspended]
    BY <1>1, <1>2, <1>4 DEF Remove
  <1>5. CASE MoveTag \/ UNCHANGED vars
    BY <1>2, <1>5 DEF MoveTag, tables, vars
  <1> QED
    BY <1>3, <1>4, <1>5 DEF Next

\* The version is compared inside the transaction, and stands for the hash that was seen.
LEMMA UpdateStep ==
  ASSUME IInv, [Next]_vars, NEW c \in Clients, At(c, "upsert"), call[c].seen # NoRow,
         Exists(call[c].name), workload[call[c].name].id = call[c].seen.id,
         workload'[call[c].name] # workload[call[c].name], call'[c] # call[c]
  PROVE  workload[call[c].name].hash = call[c].seen.hash
  <1> DEFINE k == call[c]
  <1>1. /\ k \in Call /\ CallInv(workload, ids, k) /\ k.pc = "upsert"
        /\ call \in [Clients -> Call]
    BY DEF IInv, TypeOK, CallsInv, At
  <1>2. /\ k.ifMatch = k.seen.version /\ k.seen.version # 0
        /\ workload[k.name].version = k.seen.version => workload[k.name].hash = k.seen.hash
    BY <1>1 DEF CallInv, Condition, Exists
  <1>3. SUFFICES Commits(c)
    BY <1>2 DEF Commits, UpsertRefusal
  <1>4. ASSUME NEW d \in Clients, Starts(d) \/ Steps(d) \/ CallFails(d)
        PROVE  Commits(c)
    <2>1. PICK j : call' = [call EXCEPT ![d] = j]
      BY <1>4, StepWrites
    <2>2. d = c
      BY <1>1, <2>1
    <2>3. workload' # workload
      OBVIOUS
    <2> QED
      BY <1>1, <1>4, <2>2, <2>3, StepWrites
  <1>5. ASSUME NEW a \in Names, Remove(a)
        PROVE  FALSE
    BY <1>5 DEF Remove
  <1>6. CASE MoveTag \/ UNCHANGED vars
    BY <1>6 DEF MoveTag, vars
  <1> QED
    BY <1>4, <1>5, <1>6 DEF Next

-----------------------------------------------------------------------------
(* The theorems.                                                           *)

\* The tables keep their types: a row is stored under the hash of the specification it
\* carries and an identifier no other has, and no port outlives its workload.
THEOREM DesiredTypeCorrect == Spec => []TypeOK
  <1>1. IInv => TypeOK
    BY DEF IInv
  <1> QED
    BY <1>1, InvariantHolds, PTL

\* A row written by a call nobody overtook names the ports its workload holds: Resolve,
\* Requested and the rewriting of the specification agree, and the unique index keeps what
\* another was promised out.
THEOREM SpecNamesItsPortsHolds == Spec => []SpecNamesItsPorts
  <1>1. IInv => SpecNamesItsPorts
    BY PortsNamed DEF IInv
  <1> QED
    BY <1>1, InvariantHolds, PTL

\* A workload nobody owes a rehash has a hash that covers what it reads: every write of a
\* secret, a variable or a port is followed by the rehash of its readers, and a rehash in
\* the middle of its reads is not taken for one that has read what changed.
THEOREM HashFollowsHolds == Spec => []HashFollows
  <1>1. IInv => HashFollows
    BY HashFollowed DEF IInv
  <1> QED
    BY <1>1, InvariantHolds, PTL

\* A workload that is marked is written by no call that read it before the mark.
THEOREM MarkedStaysHolds == Spec => MarkedStays
  <1>1. IInv /\ [Next]_vars =>
          [\A n \in Names :
             (Exists(n) /\ workload[n].deleted /\ workload'[n] # NoRow) =>
               workload'[n] = [workload[n] EXCEPT !.suspended = workload'[n].suspended]]_vars
    BY MarkedStep
  <1> QED
    BY <1>1, InvariantHolds, PTL DEF Spec, MarkedStays

\* A conditional apply writes over nothing its caller did not see: a version is not handed
\* out to two hashes of one row, however often it is rehashed meanwhile.
THEOREM NoLostUpdateHolds == Spec => NoLostUpdate
  <1>1. IInv /\ [Next]_vars =>
          [\A c \in Clients :
             LET k == call[c]
             IN (At(c, "upsert") /\ k.seen # NoRow /\ Exists(k.name)
                   /\ workload[k.name].id = k.seen.id
                   /\ workload'[k.name] # workload[k.name] /\ call'[c] # k)
                  => workload[k.name].hash = k.seen.hash]_vars
    BY UpdateStep
  <1> QED
    BY <1>1, InvariantHolds, PTL DEF Spec, NoLostUpdate

=============================================================================

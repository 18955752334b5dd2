# TLA+ models of takt

takt is a single-node orchestrator: it stores workloads, secrets, variables and
volumes in SQLite, and a reconciler keeps docker containers and supervised
processes in line with what is stored. This directory models the parts of the
server where correctness depends on the order in which goroutines, API calls,
crashes and the runtime take their steps. Paths below are relative to
`src/internal/server/`.

## The system

| Component | State | Operations | Speaks to |
|---|---|---|---|
| Service (`service/`) | drift set, cipher and its lock | apply, delete, stop, start, restart, rehash, reallocate, set a secret | repositories; nudges the reconciler |
| Repositories (`database/`) | SQLite tables | one statement or transaction each | service, reconciler |
| Reconciler loop (`reconciler/reconciler.go`, `observe.go`) | claims, slots, pass count, subscribers, one-slot nudge | run, pass, spawn, complete, watch, subscribe | everything below |
| Converge (`reconciler/converge.go`, `stop.go`, `start.go`) | restart requests, replacing marks, versions reclaimed | teardown, suspend, converge a slot, start | drivers, mounts, tokens, workload table |
| Pacing (`backoff.go`, `readiness.go`, `schedule.go`) | backoff per slot, started and held slots | wait, hold, give up, settle | converge |
| Health checker (`health/`) | check per instance, probes in flight | set, forget, loop, record | reconciler registers and reads; its signal wakes the loop |
| Docker driver (`driver/docker/`) | labelled containers, pulls, inspection cache | start, stop, discard, observe, watch, prune | docker |
| Exec driver (`driver/exec/`) | records on disk, supervised processes | start, supervise, stop, discard, observe | the kernel |
| Mounts (`mount/`) | a directory per workload and version | deliver, refresh, reclaim, forget, prune | secrets, variables, tokens |
| Ports (`port/`, `database/port.go`) | allocations | resolve, claim, reallocate | service, reconciler |
| Secrets (`service/secret.go`, `secret/`) | sealed values, keyring, cipher | set, value, rekey | rehash of the readers |
| Tokens (`service/token.go`, `service/auth.go`) | hashed tokens by workload, version, instance | init, create, delete, log in and out, mint, refresh, revoke, sweep, authenticate | mounts, environment, every API call |
| Access policy (`service/policy.go`, `auth/`, `middleware/authenticate.go`) | one document and its version | read, apply on a version, evaluate, authorize | every API call |
| Address and hash (`resolve/`, `spechash/`, `state/`) | none | pure functions | service, reconciler |
| Backup and restore (`database/backup.go`, `internal/restore`) | archive, data directory | prepare, stream, plan, write | - |
| Score (`pkg/score`, `internal/cli`) | none of its own; labels on the server's objects | plan, check, apply, prune, delete | the API, one call at a time |

`PROJECT.json` lists them all, with what is modelled of each, and under "hazards"
what is hard to test, at its line.

What is hard here:

* Nothing waits for a converge. A pass lists the table, observes the runtime and
  spawns goroutines that act on these two snapshots; the next pass begins while
  they are still acting. `begin` keeps two converges of one workload apart.
* Everything a converge does is several calls of the table, the disk and the
  runtime, any of which may fail, and the server may die between any two. There
  is no log to replay: a later pass has to finish from what it observes.
* Signals travel through channels that hold one. They convey that something
  changed, never what, so a signal taken too early or dropped loses news.
* Names are reused. A row deleted and applied again keeps its name and gets a
  new identifier, while requests, marks and the deletion itself go by name.
* A service call is several statements. It reads rows, resolves addresses and hashes
  outside any transaction, perhaps after a round trip to an image registry, and
  writes whole rows back; only some of the writes are conditional.
* Processes outlive the server that started them. The next server knows of them
  only what was written to files, one file at a time, before the last one died.
* A secret is two things on disk, a sealed row and a key, and every operation that
  touches both can be cut in between; a backup is a copy of both at two moments.
* A probe answers whenever it does, and its check may have been replaced or
  dropped by then.

What makes each component correct: a workload runs once; what is stored is what
eventually runs; nothing is removed from under its reader and nothing secret
outlives its owner; what leaves a change to the ticker is known; a verdict
is about the check that is registered; a hash covers what its workload reads, and a
specification names the ports its workload holds; a process is never lost, nor a
stranger taken for one; a secret stays readable; a pass that is counted has done its work;
the server stops when told to.

## The modules

| Module | Models | Composes |
|---|---|---|
| `Lifecycle` | one instance from apply to teardown | - |
| `HealthChecker` | checks, probes, verdicts | - |
| `PassLoop` | signals, passes, claims, completion | - |
| `Ports`, `Desired` | the service's calls on the tables | `Desired` uses `Ports` |
| `Backoff`, `Slots` | a counted or scheduled workload over passes | `Slots` uses `Backoff` |
| `ExecDriver` | supervised processes and their files | - |
| `Vault`, `Keyring` | secrets, keys, rekey, backup | `Keyring` implements `Vault` |
| `Mounts` | mounted values and tokens over versions | - |
| `Score` | a client applying and deleting a set of objects | - |
| `Access` | tokens, sessions, the policy and the requests judged by them | - |

An `MC` module beside each gives its constants values for TLC, and `LifecycleProofs`,
`HealthProofs`, `DesiredProofs`, `SlotsProofs`, `ExecDriverProofs`, `KeyringProofs` and
`MountsProofs` hold what is proved of each; `ServerProofs` has two parts, for `PassLoop` and for
`Access`, which share no name and no state.

### Lifecycle

A workload from the apply to the teardown, with the passes and converges that act
on it. Every workload runs one instance under docker.

| State | In the code |
|---|---|
| `workloads`, `ids` | the workload table; a row is its identifier, its spec hash and the marks of `deleted_at` and `suspended_at` |
| `containers` | what docker holds, by the attempt label; a container with a later one beside it is retained output, which passes do not decide from (`Visible`) |
| `files` | identifiers with a directory of mounted values |
| `pass` | the rows and the observation of the pass under way, the names it has yet to see to, and its turn to prune |
| `converging` | the claim on a name, the call its converge makes next, and the row and observation it was given |
| `asking`, `restarts`, `replacing` | a restart between the service's read and its request, the request, the mark on the slot |
| `raced` | history: names on which a converge was begun from snapshots taken while another was acting |

Each call of a converge that reaches the table, the disk or docker is one action
(`Discard`, `Stop`, `Deliver`, `Start`, `Forget`, `DeleteRow`), with the failures
of all of them in `CallFails`. What a converge does in memory between calls goes
with the step that precedes it. `ConvergeBegin` is the decision `converge` makes
on its snapshots; `ConvergeWaits` is a start held back by the backoff or the
readiness gate, which the model leaves open in when and how often. API calls are
one statement each, as in the repository; the service's checks that are made in a
statement of their own are only guards where the repository repeats them.

`NoRow`, `Names`, `Specs` and `OneShot` are parameters. `OneShot` are the hashes
whose restart policy leaves an ended instance alone.

### HealthChecker

The checks of instances, the loop that starts the probes that are due, the probes,
and the verdicts. Every operation is under the checker's lock and is one action.
Time is counted in ticks; a check keeps how long ago it was registered and
answered, held at the largest value either is compared with. The identities the
code counts up are taken from a small set, unique among the probes running for a
subject: an identity that has answered is compared with nothing.

### PassLoop

What makes the reconciler look, and how it accounts for it: the nudge, verdict and
event channels, `forward` and its rewatching, `Run` and `coalesce`, the phases of a
pass, claims and slots, the chain of goroutines that counts passes in order,
subscribers and shutdown. A pass claims a workload only if no converge of an earlier pass
holds it, and otherwise leaves it out (`Spawn`). What a converge does is Lifecycle's; here it holds its
workload and perhaps a slot. `open` is the passes that have returned and are not
counted, each with the work it waits for. The ticker may fire at any time; the
properties are about what holds without it. `unlisted`, `unobserved` and `unheard` are
history: a change of the table, the runtime or a verdict that no pass has read; `unacted`
has the workloads of `Followed` that a pass has read news of and on which no converge has
been begun since, and `skipped` those of them it left to an earlier pass's converge. One driver is modelled: each has a
forwarder of its own and they share nothing but the channel they forward to, which
hands one event over at a time.

### Desired and Ports

What the service stores, with its calls taken apart into the statements and
transactions they make: apply (conditional or not), delete, stop, start, set and
delete of a secret or variable with the rehash of its readers, the drift check, and
the two reallocations. A client is the call it is in, the statement it makes next,
and what it has read so far. A hash is not computed: it is the record of what the code
feeds to it, what a secret or variable contributes and where a reference leads as sets of
pairs, so that two hashes are equal exactly when the code's are, short of a
collision. `Program` has the order of the statements of every kind of call. The registry answers a tag with any digest of a small set. `Ports` has
the choice of host ports as operators: what is requested, what is recovered from a
specification stored before, which ports are free, and the claim per instance with
its retries. `torn` and `behind` are history variables: the names last written from
reads that no longer held, and those whose rehash failed or was never owed: the readers
of what is deleted, of a later instance that moves, and of a workload whose earlier ports
a rehash of it puts back. `HashFollows` is about the others, and each of the two is cleared
by the write that makes it good. A workload that refers to its own port has the
number in its specification, and what its hash adds to that is of no account.

### Slots and Backoff

One workload with a number of slots, or a schedule, over whole passes. Lifecycle
takes a converge apart call by call; here the calls of one slot are one step and the
subject is what is remembered from pass to pass: backoff windows, held and started
slots, restart marks, the version a slot runs, port drift, pulls in progress and the
last run of a schedule. Times are kept as ages, held at the largest value they are
compared with. `Backoff` has the window arithmetic with integers of `Width` bits.

What a stop leaves depends on the driver, which a specification names and a workload
keeps. Under docker the newest container of a slot stays its current instance, ended as it
answered the signal, until another is created (`Halted`, `Remnants`): so it is what the
next pass judges when the start that was to follow failed or waits for its image, and when
a suspended workload is resumed. An exec attempt is retired by its stop and the slot reads
as empty. A stop or discard of several instances that fails is taken to fail whole.

The properties need some history: `out` has the slots taken down whose successor has
yet to settle, `pass.hash` what the pass held against every slot when it asked after a
roll, `cut` whether the instance in a slot was stopped while it ran, `asked` whether a
restart was asked for while it was there, and `credit` the reasons to run a scheduled
workload less its runs: an occurrence, a request, a failure, a failure that a stop made of
a run (`Broken`), and an instance that failed where a counted specification left it
(`Leftover`). `Converges` and `RestartReplaces` leave a slot to what the code leaves it to:
an instance that ended and whose policy or attempts ask for no more, and a sibling of that
kind that is current, never settles, and so holds the roll for good (`RollStuck`).

### ExecDriver

One job of the exec driver: its records, live and retained, the process each names,
and the supervisor goroutine. Every file that is written and every wait is a step of
its own, and the server may die before each. A stop asks, waits, and kills the group of
the number; in between (`grace`) the process may end as it likes and be collected. A
number may be handed to a stranger from the moment it is free, in the middle of a call too
(`Reuses`, `MaxReuse`), and the stranger may lead a group or a session of that number.
`alive` tells it from the process on record by its start time; `inSession` finds what names
a session of the number and cannot tell a stranger's from the driver's own; and the kill at
the end of the grace asks nothing. `struck` is history: by which of these a stranger came
to be signalled. A check and the signal it decides on are one step, and processes that leave both
their group and their session are left out. `Cgroups` says whether the host has a cgroup per job, by which
the driver kills what it may no longer name by number.

### Keyring and Vault

`Vault` is what secrets promise: a set is one step, a read returns the value of the
name, a rekey changes nothing, a backup is one consistent copy and a restore returns
exactly it. `Keyring` is the code: rows sealed under a key and naming it or not, key
files, the cipher and its lock, a rekey that adds a key, re-seals every row and
switches, the choice of a key at start, and the backup of the database and the
keyring one after the other. Its mapping (`INSTANCE Vault WITH` in `Keyring`) opens
each row with the key that seals it; `ImplementsVault` is that every step, a death of
the server included, is a step of the vault or a stutter.

### Mounts

Two instances of a workload over two versions, the file of each version, the tokens
they read, and the deliveries and refreshes that write them. A pass reads the row and what
runs (`Look`), perhaps while the converge of an earlier one is at work, and begins a
converge on what it read or skips the workload (`Skip`). The unit of time is the
grace a rotated token keeps. Tokens and values are numbered; `record`, `mint`, write
and signal are steps of their own. History variables say why an instance may hold a
token that is refused: it was revoked by hand (`revoked`, and `bared` for an instance's
own), a converge began without having seen the instance (`unseen`), the newest one never reached the file
(`unwritten`), or the instance was never told of it (`lost`): its signal failed, or no
pass got through for longer than the margin tokens are renewed at (`gone`).

### Score

The client that plans, applies, prunes and deletes a set of volumes, variables and
workloads under an install's label, each call to the server one step, with two such
clients and calls that fail. The server's refusals (a volume or variable in use, a
name held by another install) are modelled from the services. What a workload reads
is given by constants: directly, through an expanded field, or inside a variable.

### Access

Who may call the server. A request is taken through the steps the code makes of it, each at
most one statement of the table: what it presents (`Arrive`: the bearer header before the
cookie), the lookup of the token, the evaluation of the policy, the requirement of the
operation, and the handler, which for a delete and for a login is two statements. Between any
two of them other requests run, the clock ticks, the sweep and workloads remove tokens, and
the server may die.

| State | In the code |
|---|---|
| `rows`, `stored` | the token table, as every token ever minted and which of them it holds; a token's place stands for its identifier and its credential |
| `policy`, `reads` | the policy's row, and the document and tag that each client last read |
| `calls`, `cookies` | the request of each client and the session cookie of its browser |
| `server`, `resetFile` | whether the server is up, and the file that asks for a reset of the recovery token, consumed in two steps as it starts |
| `applied`, `armed` | history: the documents written, and whether the reset file was written while this server was up |

A request also remembers which policies were in force when it arrived and when it was judged,
and whether its credential was good on arrival: `ServedByRight` compares them. Principals,
groups and documents are sets; roles are ranked. The refusals of malformed input end a request
as `RequestFails` does. Workload tokens here are those of instances; what `Mounts` says of
tokens by version it says in its own terms.

## What the runs check

| Run | Result | What it shows |
|---|---|---|
| `lifecycle` | holds | `OneInstance`, `NoFilesWithoutRow`, `RowGoesLast`, `ReadersKeepFiles` and, under fairness, `Converges` |
| `health` | holds | `ProbeOwnership`, `StaleAnswerIgnored`, `NoLostVerdict` and, under fairness, `KeepsProbing` |
| `passloop` | holds | `NoNewsLost`, `CountMeansDone`, `SubscriberTold`, `ClaimIsCounted` |
| `passloop_live` | holds | `ClaimsReleased` and `Stops` |
| `desired` | holds | `HashFollows`, `SpecNamesItsPorts`, `MarkedStays`, `NoLostUpdate` |
| `slots` | holds | `RollsOneByOne`, `RunsAccounted`, `ReclaimKeepsReaders` and, under fairness, `Converges` and `RestartReplaces` |
| `slots_resume` | violated | `StartedAgain`: what a suspension stopped and exited with zero is not started again |
| `execdriver` | holds | `ProcessesAccounted`, `ExitIsItsOwn`, `OutputOfOne`, `OnlyItsOwn` and, under fairness, `Settles` |
| `keyring` | holds | the refinement `ImplementsVault` and, under fairness, `CallsReturn` |
| `mounts` | holds | `HeldTokensValid` and, under fairness, `NewsArrives` |
| `score` | holds | `RefusalsHaveCause`, `ApplyMakesWhole`, `NoTakeover` |
| `access` | holds | `ServedByRight`, `SessionsFromStatic`, `RecoveryStays`, `NoLostPolicy` |

The bounds are constants of the modules and each is used in a guard. Deadlock is
checked in the first four, where time, the runtime or the API can always take a step.
The others bound the calls made of them, and a system nobody calls any more may stop.

* `lifecycle`: one name, two specifications of which one is left alone once ended,
  three API calls, two faults, two identifiers. Apply, delete and apply again with
  a crash and a failed call among them is reached, as are a restart and a suspension
  around a replacement. `PruneEvery` is 2 rather than 64, so that both kinds of pass
  are met. The names share nothing but the pass, and the theorems hold for any
  number of them.
* `health`: two instances of one workload; one specification without grace whose
  first failure condemns, and one with a grace of a tick and two retries, so
  failures fall on both sides of its edge.
* `passloop`: two workloads and one slot, so that one queues; two uncounted passes,
  so that one waits for another; one API call between commit and nudge.
  `passloop_live` leaves out callers and the prune, which hold nothing back that
  the converges do not, and follows no news (`Followed`), which nothing waits for.
* `desired` (340 thousand states): two workloads, one of which reads a secret, a
  variable and the other's port and follows its tag, and two calls that run into each
  other at every statement, with one failure. The tables start empty, or as four calls
  made one after another leave them, so that two calls reach what six would. The three
  host ports are all wanted when the first workload has two instances, so a claim is
  met that finds its port gone.
* `slots` (460 thousand): a workload of two containers, a checked one that refers to another
  and gives up, a scheduled one, and a job of two processes; two calls and one fault. `slots_resume` needs no fault. Waits are one or two ticks, enough to tell a
  window from its double and from the ceiling.
* `execdriver` (1.7 million): two versions, two processes, one death, one fault and
  one reused number, which meet at every file. Without cgroups, as the model then has
  no second way to kill.
* `keyring` (400 thousand): two clients with three calls between them, three keys, so
  that a rekey follows a start that made a key, one archive, a lost disk and a death.
* `mounts` (1 million): a token lives three graces, and three pass, so that one is
  rotated, and one expires; one call and one fault, with the pass after reading anywhere.
* `score` (1.6 million, up to the two clients' names): two installs that want one
  variable and mount one volume, two releases of which the second drops workloads,
  three calls.
* `access` (4.5 million): one client and three tokens, so that a recovery token mints a static
  one and a session is exchanged for that; a workload's token, which comes and goes under a
  request in progress; three ticks, so that a session is short of its expiry, at it and past
  it; and two documents, one of which makes the principal an admin and the other, through a
  group, a viewer. One client is enough for a stale tag, since the answer to an apply may be
  lost; a policy that another client replaces under a request in progress is left to the
  theorems, which hold for any number of clients.

### Fairness

* Lifecycle: passes and converges run on, since the loop has a ticker and a converge
  is a goroutine whose calls have deadlines; docker finishes its removals; the server
  is brought back up (it is a system service). Faults and API calls are bounded, and
  nothing obliges them. `Converges` needs faults to end: a runtime that fails for ever
  is never converged.
* HealthChecker: the loop and the clock run on, and a probe answers, since each has
  a timeout. Registering, dropping and reading oblige nobody.
* PassLoop: goroutines run on and converges end. Strong fairness is assumed twice: of
  a converge that queues for a slot, because Go serves senders blocked on a channel
  in order, and of the loop's exit, because `select` picks among ready cases at
  random. Neither the ticker, callers, the driver nor subscribers are obliged.
* Slots: the ticker brings passes, the clock ticks, a pull ends and a check comes to
  pass. Nobody is obliged to call, and no instance to exit.
* ExecDriver: the server runs on and is brought back up, and a supervisor is a
  goroutine that waits for a process and writes what came of it. No process is
  obliged to end by itself; one that is killed does.
* Keyring: each client's call runs on; nobody is obliged to begin one.
* Mounts: passes read and converges run on, as the ticker brings them, and an instance that has
  been signalled, or just started, reads its files.

## What is proved

TLAPS proves, for every value of the constants the assumptions admit:

* `LifecycleProofs`: `TypeOK`, `OneInstance`, `NoFilesWithoutRow`, `RowGoesLast`,
  `ReadersKeepFiles`. None of them is inductive. What a converge is about to do is
  only safe because of what its snapshot still says of the present, so the invariant
  ties the two: for a name that was never raced, the claim's row is the row stored or
  one it was derived from by an API call, the runtime only holds what was observed,
  less what exited or was removed since, and each step of a converge has a
  condition on the containers left (at `start`, none runs). A pass that has
  observed carries the same condition for every name it has yet to see to, unless
  the name is dirty. The action properties follow from the invariant.
* `HealthProofs`: `TypeOK`, `ProbeOwnership`, `StaleAnswerIgnored`, `NoLostVerdict`,
  `CondemnedOnRetries`. The invariant adds that a clock never passes the largest
  value it is compared with, which keeps the timer from being negative, and that a
  cancelled probe is awaited by no check while the server runs.
* `ServerProofs`, of the pass loop: `TypeOK`, `NoNewsLost`, `CountMeansDone`, `SubscriberTold`,
  `ClaimIsCounted`. The invariant adds that a counted pass leaves the sequence at
  once, that only an acting pass has spawned anything, that a workload the pass has news of is
  still to be seen to, begun on, or skipped for a claim it found, and that between listing and
  observing a new change to the table is still to be notified of, which is what
  makes `NoNewsLost` hold again after passes that failed.
* `ServerProofs`, of access: `AccessTypeOK`, `ServedByRight`, `SessionsFromStatic`,
  `ResetConsumed`, `RecoveryStays`, `NoLostPolicy`, `NoLockout`, for any clients, principals,
  groups, documents and numbers of tokens. `ServedByRight` is about a handler, and needs what a
  request carries at each step before it (`CallsOK`): past the lookup, a token that was good on
  arrival; past the evaluation, the role that the document written last when it was judged
  gives (`Resolved`); in a handler, what `Permitted` found; between the statements of a delete,
  a token that is not the recovery token; between those of a login, the static token exchanged.
  All of it is about rows that never change and documents that are only added to (`Grows`), so
  no step of another disturbs it (`CallStays`): that is why check and act may lie apart.
  `NoLostPolicy` needs that the version counts the documents (`PolicyOK`), so that an equal
  tag means the same document; `RecoveryStays` that a recovery token never expires (`RowsOK`).
* `KeyringProofs`: `TypeOK`, `RowsOpen`, `ArchivesOpen` (every complete archive opens by
  itself), and `ImplementsVault`: `Keyring` refines `Vault`. The invariant says which
  calls hold the lock (so that no set or read is between its two statements while a rekey
  is), that the key of every stored row is the one the database names and is whole on
  the disk from before the row is, that what a call carries still agrees with the
  row, and the same of archives and of a restore half done. The refinement then goes
  action by action: the swap of the cipher, key files and the boot are stutters, the
  transaction of a set or rekey and the last write of a restore are the vault's steps.
* `ExecDriverProofs`: `TypeOK`, `ProcessesAccounted`, `ExitIsItsOwn`, `RetainedIsOver`,
  `OutputOfOne`, `OnlyItsOwn`. The invariant: what runs is on record where a halt will
  find it or about to be recorded (`Found`), while it is given its time included, one
  recorded process is alive at most, a number is reused only when nothing of its process is
  left, and a supervisor that has
  something to write is the one on the books unless a wait lapsed.
* `MountsProofs`: `TypeOK`, `HeldTokensValid`. The file of a version holds its newest
  token and every other is in its grace, so what a pass finds fresh is what the file
  holds; the token in the file outlives what is left of the margin since a pass got
  through; an instance holds what the file holds or will be told before the clock moves.
  A converge finds what it observed, but for what ended since and what was `unseen`, so that
  it mints for a slot only once what ran there is stopped.
* `SlotsProofs`: `TypeOK` (the ceiling of the waits among it, for any base and number of
  attempts, whatever the shift loses), `RollsOneByOne`, `ReclaimKeepsReaders`,
  `RunsAccounted`. Until a pass acts, what it observed and what is there differ only in
  what ended, sickened or passed its check since (`Mirror`); while it may still take a
  slot down, what it found current has settled and nothing current is unsettled where
  it found something (`FoundSettled`, `NoneInFlight`: a restart of what ended would be
  of a slot that had not settled), whichever driver stops and whatever it leaves; an occurrence that passes during a pass that has
  nothing to do with it is later than everything the pass has yet to look at
  (`Overtaken`); and there is a credit for each of a request, an occurrence unmet and a
  failed run, those a stop made fail among them (`Accounted`).

* `DesiredProofs`: `TypeOK`, `SpecNamesItsPorts`, `HashFollows`, `MarkedStays`,
  `NoLostUpdate`. The invariant has four parts beside the types. No host port is promised
  twice (`TablesInv`). What a call in flight carries still means something (`CallsInv`):
  a row it read has an identifier no other name will have, the claims it resolved settle
  its specification, and the version it is conditioned on is the stored row's only with the
  hash that was seen. Rows that are not torn name what is claimed (`PortsInv`), for which
  `Resolve`, `Requested` and `Resolved` are shown to settle a specification, one claim
  for each instance and mapping (`ResolutionSettles`, `RequestSettles`, `ResolvedNames`),
  and a move to leave the first instance's alone (`MoveKeepsFirst`); the number of claims
  follows from a bijection (`SettledCount`). And every row is covered by its hash or is
  owed a rehash (`HashInv`): a rehash that has begun to read counts only as long as it will
  notice, because the row still has the hash it compares with and the secrets and variables
  are those it read. `HashFollows` itself counts any rehash in flight, and is not inductive.

The assumptions are one `ASSUME` per module, evaluated by TLC in the module's runs: bounds
are natural numbers, a limit is not zero, the absent row, check or record is none of the
present ones, a prune is no workload, clients are finitely many (`KeyringAssumption`),
specifications are what validation lets be stored (`SlotsAssumption`, and
`DesiredAssumption`: the ports are finitely many, and none is published twice), and powers of two
are numbers (`BackoffAssumption`; the provers know nothing of `^`).

Attempts at a proof changed three models. `Desired` counted a rehash that wrote stale reads
against its own row alone; it also puts the ports read before back, and those who refer to
them hold a hash of others that nobody owes a rehash: they are now `behind`. `Mounts` excused an instance only when one gap
between passes was longer than the margin; three faults in a row, each gap shorter, had
the same end, and `gone` now counts from the last pass that got through. In `Slots` the
count of reasons did not add up for a scheduled workload that a counted one left a failed
instance to: a defect of the code, below.

Only model-checked: the liveness properties of every module (`Converges`, `KeepsProbing`,
`ClaimsReleased`, `Stops`, `RestartReplaces`, `Settles`, `CallsReturn`, `NewsArrives`),
which need fairness, beyond this prover; and those of `Score`, where what a client plans
is computed by recursion over the dependencies, and what a recursive definition computes
for every input takes an induction the provers cannot instantiate. Proved, and
not put to TLC again by the runs: the type invariants, `CondemnedOnRetries`, `RowsOpen`, `ArchivesOpen`, `RetainedIsOver`,
`ResetConsumed` and `NoLockout`.

## Disagreements between the code and its words

With a run that finds the violation, and an entry under "findings":

1. `slots_resume`: starting a suspended workload is said to start it at the next pass
   (`service/workload.go:593`). Under docker the container that the suspension stopped is
   still the slot's current instance, which the resume adopts; if it answered the signal by
   exiting with zero and its policy is `on-failure` or `never`, it counts as a run that is
   finished with (`converge.go:278`) and stays ended for good, whatever it was doing.

Stated in the modules, and refuted by TLC when put into the module's cfg as an
invariant or property:

* `OneInstanceAlways` (Lifecycle): `begin` is asked after the observation, so a
  converge that has just finished does not protect its workload from a stale one.
* `OnlyMarkedRowsGo` (Lifecycle): a teardown from a stale snapshot removes by name a
  row that is not marked.
* `RestartDiesWithWorkload` (Lifecycle): a restart accepted before a deletion may be
  recorded after it. These three need a pass to overlap an earlier converge or call
  (`MaxOps = 4`, `MaxFaults = 3`), which slow stops make ordinary.
* `GraceFailuresDoNotCount` (HealthChecker): failures inside the start period count,
  though they do not condemn.
* `WakesWhenDue` (HealthChecker, `IdleWait = 2`): the loop does not wake when an
  answered check becomes due.
* `WatchedAgain` (PassLoop, `FairSpec`): a failed rewatch leaves the forwarder on a nil
  channel (latent: neither driver's `Watch` fails today).
* `SkippedIsActedOn` (PassLoop, `FairSpec`): a workload that an earlier converge holds is
  skipped, and "the next pass after the converge finishes acts on it"
  (`reconciler.go:1107`); nothing asks for that pass when the converge ends, so it is the
  ticker's.
* `RollHolds` (Slots): a roll is said to wait for the slot it took down
  (`converge.go:141`). It looks only at slots that have an instance. Under the exec driver
  a replacement that fails to start leaves an empty slot, which holds nothing back: the next
  pass takes it for a first start and takes the next slot down as well.
* `ResumeWaits` (Slots, `MaxCalls = 3`, `MaxFaults = 0`): "the first run after a resume is
  the next natural occurrence" (`docs/design.md:176`). A scheduled container that was running
  when it was suspended, and was stopped with a failure, is retried by `between` at once
  (`schedule.go:158`).
* `RestartRunsAgain` (Slots): "a job that finished is run again, as the request asks"
  (`staleSlot`). The mark is cleared before the stop, and where the start fails under docker
  the container that ended with zero is left for good; and a marked slot that is left
  out while a sibling holds the roll for good is never reached.
* `RehashKeepsSpec` (Desired): `service/workload_rehash.go:105` writes back a row read
  before a registry round trip, unconditionally, though the comment at line 23 has it
  change nothing but the hash; it undoes an apply and resurrects a deleted workload.
* `DoneOnce` (ExecDriver, `Cgroups = TRUE`): an observation between the end of a process
  and the writing of its exit reports a job failed that is then done.
* `ConditionHolds` (Keyring, without archives, losses and crashes): versions restart at
  1 when a secret is deleted and set again, so a condition may match another secret.
* `CleanRunStays` (Slots, `MaxCalls = 1`, `MaxFaults = 3`): `between` looks for a failure
  among all instances (`schedule.go:167`) but its retry clears the first slot alone, and
  the scheduled path removes no slot past its count. A failed instance that a counted
  specification left in a later slot has a run that ended cleanly started again, at the
  pace of the backoff, until an occurrence or a request clears everything; the comment
  at line 151 says that such a run is not started again.
* `SharedTokenKept` (Mounts, `MaxVersion = 1`, `MaxTime = 4`, `MaxFaults = 0`): a
  delivery in the last half of a token's life mints another, and the instance that
  already runs is not signalled.
* `DeleteInOrder` (Score): a delete is said to remove readers before what they read
  (`cmd/score/delete/usage.txt:5`). Its order is made from manifests, not from the
  contents of variables, so an address inside a variable is not seen
  (`pkg/score/install.go:214`), and the delete is refused however often it is run.
* `SignsInAgain` (Access): a token login is said to be anonymous, and the UI sends a
  caller that is refused there. The middleware refuses a cookie that no longer
  authenticates before it knows the operation (`middleware/authenticate.go:75`) and
  does not clear it, so after a session is revoked the browser cannot sign in, with
  whatever token, until the cookie lapses.

Met while modelling, and visible in the models' actions:

* Mounts: a token minted and recorded but not written leaves an expired one in the file
  until half the new one's life; a lost signal is not sent again; a delivery records
  the digest of a new value, so other readers of the file are not told of it.
* Score: an upgrade that sets a variable its own workload reads may be refused by the
  rehash that the set itself brings about; the readers of a volume or variable are
  looked for outside the statement that deletes it.
* Desired: `VariableService.Set` lists the readers before it stores the value, so an
  apply in between keeps the old one's hash; likewise an apply around a secret's set.
* Slots: every slot's hash is resolved anew, so an address that moves, or resolves again,
  between the question after a roll and a slot of the same pass lets that slot be
  replaced beside one in flight (`RollsOneByOne` is about the hash the pass asked with).
* Slots: a continuous workload that becomes scheduled with overlap "skip" never runs
  while its old instance does; a changed specification inherits the count of
  failures; `forgetStarted` leaves `held`; a scheduled start that abandons its ports
  loses the occurrence.
* ExecDriver: a wait of `halt` that lapses forgets the supervisor; a death between
  starting the process and recording it leaves one that nobody knows.
* Keyring: keys that seal nothing are not swept; a restore takes no lock on the data
  directory; a start that is refused leaves the key it made.

## Plan

Done: the models above, and the proofs of every safety property the runs check but those
of `Score`, which stay with TLC for the reason given above. Left: the refinement of
`Vault` is the one between modules. An abstract table of rows that each call changes in
one step, implemented by `Desired` for the names that are not torn, would say in one
formula what its five properties say apart.

## Not modelled

Code that holds no state several steps or actors change: the generated API
(`internal/generated/api`, a third of the repository's lines), conversion between it
and the services, middleware and telemetry, the client, the CLI, the UI, parsing and
validation of manifests and configuration, rendering of templates and environments.
There is nothing in them for a model checker that a table of cases would not show.

Sequences of system calls: the sandbox and the rotation of logs of the exec driver,
the options of a container, extraction of archives' volumes.

Pure functions for display: workload state. Records of what
happened: events. Small loops with nothing shared: jobs, the certificate cache.

Left out of modelled parts: image removal and the inspection cache of docker; when a token
was last used, the state cookie of an OIDC login, and tags read before a restore; cron expressions; label queries; services and secrets of a
score, which take the same steps as its variables.

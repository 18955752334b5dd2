-------------------------------- MODULE Mounts --------------------------------
(***************************************************************************)
(* What a workload is given to hold: a token in its environment, and in a  *)
(* mounted file a token and a secret's value.  The files of a version are  *)
(* shared by its instances.  A mount that names a signal is rewritten in   *)
(* place when the value changes or the token nears its end, and the        *)
(* workload is signalled to load it; any other token lives until it is     *)
(* revoked.                                                                *)
(*                                                                         *)
(* The converge of one workload is taken apart at every write: a token is  *)
(* recorded, its predecessor given a grace, the file written, what was     *)
(* written recorded, the instance started or signalled.  The server may    *)
(* die between any two.  It decides from what its pass read before it was  *)
(* begun, and a pass may read while the converge of an earlier one is at   *)
(* work.  Time is counted in graces: a pass takes less than one, and a     *)
(* server that is up runs one in each.                                     *)
(***************************************************************************)
EXTENDS Integers

CONSTANTS
  MaxSlot,        \* the instances of the workload
  TTL,            \* the life of a token that can be renewed, in graces
  MaxVersion,     \* bound: versions of the specification
  MaxTime,        \* bound: the clock
  MaxEvents,      \* bound: calls of the operator, and instances that end
  MaxFaults       \* bound: deaths of the server, and calls that fail

ASSUME MountsAssumption ==
  /\ MaxSlot \in Nat \ {0} /\ TTL \in Nat \ {0, 1} /\ MaxVersion \in Nat \ {0}
  /\ {MaxTime, MaxEvents, MaxFaults} \subseteq Nat

Slot == 1..MaxSlot
Version == 1..MaxVersion
Grace == 1                \* rotationGrace
Margin == TTL \div 2      \* rotateMargin
Never == -1               \* a token without an expiry

VARIABLES
  row,        \* what is stored: whether the workload is wanted, and its version
  signalled,  \* whether the mounts name a signal
  value,      \* the value the secret holds
  tokens,     \* the tokens the instances share: number, version, expiry
  envs,       \* the token of each slot's environment, zero for none
  files,      \* per version, the token and the value its files hold
  record,     \* per version, what was recorded as delivered
  inst,       \* the instances that run, and what each has loaded
  up,         \* whether a server runs
  look,       \* what the pass has read of the row and the instances, until it converges
  call,       \* the converge in progress
  now,        \* the clock
  passed,     \* whether a pass has ended since the clock last moved
  gone,       \* how long it is since a pass got through
  minted,     \* shared tokens ever minted; each has a cause one of the others bounds
  events, faults,
  revoked,    \* history: shared tokens revoked by hand
  bared,      \* history: slots whose own token was revoked by hand
  unseen,     \* history: slots a converge began on without having seen what runs there
  unwritten,  \* history: versions whose newest token never reached the file
  lost        \* history: slots that hold what was replaced and were not told

bounds == <<events, faults>>
clock == <<now, passed, gone>>
stored == <<row, signalled, value>>
given == <<tokens, envs, minted, files, record>>
history == <<revoked, bared, unseen, unwritten, lost>>
vars == <<stored, given, inst, up, look, call, clock, bounds, history>>

Nothing == [token |-> 0, value |-> 0]
NoLook == [is |-> "none", version |-> 0, at |-> [s \in Slot |-> 0]]
NoInst == [version |-> 0, token |-> 0, value |-> 0, env |-> 0, told |-> FALSE]
Idle == [pc |-> "idle", task |-> "none", version |-> 0, slot |-> 0, new |-> 0, value |-> 0,
         up |-> FALSE, replaced |-> FALSE, at |-> [s \in Slot |-> 0]]

Init ==
  /\ row = [is |-> "wanted", version |-> 1]
  /\ signalled \in BOOLEAN
  /\ value = 1 /\ tokens = {} /\ envs = [s \in Slot |-> 0] /\ minted = 0
  /\ files = [v \in Version |-> Nothing] /\ record = [v \in Version |-> Nothing]
  /\ inst = [s \in Slot |-> NoInst]
  /\ up = TRUE /\ look = NoLook /\ call = Idle
  /\ now = 0 /\ passed = FALSE /\ gone = 0
  /\ events = 0 /\ faults = 0
  /\ revoked = {} /\ bared = {} /\ unseen = {} /\ unwritten = {} /\ lost = {}

Event == events < MaxEvents /\ events' = events + 1

Fault == faults < MaxFaults /\ faults' = faults + 1

Running == {s \in Slot : inst[s].version # 0}

Readers(v) == {s \in Slot : inst[s].version = v}

-----------------------------------------------------------------------------
(* Tokens.                                                                 *)

\* lookup refuses a token that is unknown, or past its expiry.
Valid(t) == \E k \in tokens : k.id = t /\ (k.expires = Never \/ now <= k.expires)

Shared(v) == {k \in tokens : k.version = v}

\* Mutant of Fresh: no half of the life is reserved, the token is renewed once it is over.
FreshUntilOver(v) ==
  \E k \in Shared(v) :
    /\ \A other \in Shared(v) : other.id <= k.id
    /\ k.expires = Never \/ k.expires > now

\* RefreshWorkloadToken keeps the newest token of a version while more than half its life
\* is left.
Fresh(v) ==
  \E k \in Shared(v) :
    /\ \A other \in Shared(v) : other.id <= k.id
    /\ k.expires = Never \/ k.expires - now > Margin

\* The token MintWorkloadToken creates: only one that can be rewritten in place expires.
Created(v) ==
  [id |-> minted + 1, version |-> v, expires |-> IF signalled THEN now + TTL ELSE Never]

\* Every other token of the version is left its grace, unless it ends sooner.
ExpireMinted(v, id) ==
  {IF k.version # v \/ k.id = id \/ (k.expires # Never /\ k.expires <= now + Grace) THEN k
   ELSE [k EXCEPT !.expires = now + Grace] : k \in tokens}

\* Sweep removes what is past its expiry.
Sweep ==
  /\ up /\ \E k \in tokens : k.expires # Never /\ k.expires <= now
  /\ tokens' = {k \in tokens : k.expires = Never \/ k.expires > now}
  /\ UNCHANGED <<stored, envs, minted, files, record, inst, up, look, call, clock, bounds, history>>

\* A token is revoked by hand: one the instances share, or an instance's own.
Delete ==
  /\ up /\ Event
  /\ \/ /\ \E k \in tokens : tokens' = tokens \ {k} /\ revoked' = revoked \cup {k.id}
        /\ UNCHANGED <<envs, bared>>
     \/ /\ \E s \in Slot : envs[s] # 0 /\ envs' = [envs EXCEPT ![s] = 0] /\ bared' = bared \cup {s}
        /\ UNCHANGED <<tokens, revoked>>
  /\ UNCHANGED <<stored, minted, files, record, inst, up, look, call, clock, faults, unseen, unwritten, lost>>

-----------------------------------------------------------------------------
(* The operator, the clock, the server and the workload.                   *)

\* A mount that names a signal stays out of the hash; the value of any other moves it, and
\* with it the version.
SetValue ==
  /\ up /\ Event /\ value' = value + 1
  /\ signalled \/ row.version < MaxVersion
  /\ row' = IF signalled THEN row ELSE [row EXCEPT !.version = @ + 1]
  /\ UNCHANGED <<signalled, given, inst, up, look, call, clock, faults, history>>

Apply ==
  /\ up /\ Event /\ row.version < MaxVersion
  /\ row' = [row EXCEPT !.version = @ + 1]
  /\ UNCHANGED <<signalled, value, given, inst, up, look, call, clock, faults, history>>

Suspend ==
  /\ up /\ row.is = "wanted" /\ Event
  /\ row' = [row EXCEPT !.is = "suspended"]
  /\ UNCHANGED <<signalled, value, given, inst, up, look, call, clock, faults, history>>

Resume ==
  /\ up /\ row.is = "suspended"
  /\ row' = [row EXCEPT !.is = "wanted"]
  /\ UNCHANGED <<signalled, value, given, inst, up, look, call, clock, bounds, history>>

\* A server that is up ends a pass, and a workload that was signalled has loaded its files,
\* within a grace.
Tick ==
  /\ now < MaxTime /\ now' = now + 1
  /\ up => passed /\ look = NoLook /\ call = Idle
  /\ \A s \in Slot : ~inst[s].told
  /\ passed' = FALSE
  /\ gone' = gone + 1
  /\ lost' = IF gone' > Margin THEN lost \cup Running ELSE lost
  /\ UNCHANGED <<stored, given, inst, up, look, call, bounds, revoked, bared, unseen, unwritten>>

\* What stays undone when the call ends where it is: a token recorded and not written, or
\* files written and nobody signalled.
Unwritten == IF call.pc \in {"expire", "write"} THEN {call.version} ELSE {}

Untold ==
  IF \/ call.pc \in {"expire", "write"}
     \/ /\ call.task = "refresh"
        /\ call.pc = "signal" \/ (call.new # 0 /\ call.pc \in {"value", "record"})
  THEN Readers(call.version) ELSE {}

Crash ==
  /\ up /\ Fault
  /\ up' = FALSE /\ look' = NoLook /\ call' = Idle /\ passed' = FALSE
  /\ unwritten' = unwritten \cup Unwritten /\ lost' = lost \cup Untold
  /\ UNCHANGED <<stored, given, inst, now, gone, events, revoked, bared, unseen>>

Boot ==
  /\ ~up /\ up' = TRUE
  /\ UNCHANGED <<stored, given, inst, look, call, clock, bounds, history>>

\* What a workload has when it loads the files of a version.
Loaded(i, v) == [i EXCEPT !.version = v, !.token = files[v].token, !.value = files[v].value,
                          !.told = FALSE]

\* The workload handles the signal and loads its files.
Load(s) ==
  /\ inst[s].told
  /\ inst' = [inst EXCEPT ![s] = Loaded(@, @.version)]
  /\ lost' = IF inst[s].version \in unwritten THEN lost ELSE lost \ {s}
  /\ UNCHANGED <<stored, given, up, look, call, clock, bounds, revoked, bared, unseen, unwritten>>

Exit(s) ==
  /\ s \in Running /\ Event
  /\ inst' = [inst EXCEPT ![s] = NoInst]
  /\ UNCHANGED <<stored, given, up, look, call, clock, faults, history>>

-----------------------------------------------------------------------------
(* A pass reads, and begins a converge unless one is at work: held down,   *)
(* or slot by slot and then the refresh.                                   *)

At(pc) == up /\ call.pc = pc

\* What the driver reports, read with the row.  Another converge may be at work.
Look ==
  /\ up /\ look = NoLook
  /\ look' = [is |-> row.is, version |-> row.version, at |-> [s \in Slot |-> inst[s].version]]
  /\ UNCHANGED <<stored, given, inst, up, call, clock, bounds, history>>

\* begin refuses while an earlier pass's converge holds the workload: this pass skips it.
Skip ==
  /\ up /\ look # NoLook /\ call # Idle
  /\ look' = NoLook
  /\ UNCHANGED <<stored, given, inst, up, call, clock, bounds, history>>

\* The slots seen to run, and those seen to run a version.
SeenRunning == {s \in Slot : look.at[s] # 0}

SeenReaders(v) == {s \in Slot : look.at[s] = v}

\* A converge begins on what was read; what runs and was not seen is left to it unknown.
Begins(is) ==
  /\ At("idle") /\ look.is = is
  /\ unseen' = unseen \cup {s \in Running : look.at[s] # inst[s].version}

\* A pass ends; it got through when nothing that rewrites the files failed.
End == call' = Idle /\ passed' = TRUE

Through == End /\ gone' = 0

\* A suspended workload is stopped; once nothing runs its files go, and its tokens.
ConvergeSuspended ==
  /\ Begins("suspended") /\ look' = NoLook
  /\ IF SeenRunning # {}
     THEN /\ inst' = [s \in Slot |-> NoInst]
          /\ UNCHANGED given
     ELSE /\ files' = [v \in Version |-> Nothing] /\ record' = [v \in Version |-> Nothing]
          /\ tokens' = {} /\ envs' = [s \in Slot |-> 0]
          /\ UNCHANGED <<inst, minted>>
  /\ Through
  /\ UNCHANGED <<stored, up, now, bounds, revoked, bared, unwritten, lost>>

\* The files and the shared tokens of other versions go once no instance of one was seen.
Reclaims(v) == SeenRunning \subseteq SeenReaders(v)

\* A converge acts on the row the pass listed.  A replacement that has yet to settle holds
\* the roll from the start.
Converge ==
  /\ Begins("wanted")
  /\ IF Reclaims(look.version)
     THEN /\ tokens' = Shared(look.version)
          /\ files' = [v \in Version |-> IF v = look.version THEN files[v] ELSE Nothing]
          /\ record' = [v \in Version |-> IF v = look.version THEN record[v] ELSE Nothing]
     ELSE UNCHANGED <<tokens, files, record>>
  /\ \E held \in {FALSE, SeenReaders(look.version) # {}} :
       call' = [Idle EXCEPT !.pc = "slot", !.version = look.version, !.slot = 1, !.replaced = held,
                            !.at = look.at]
  /\ look' = NoLook
  /\ UNCHANGED <<stored, envs, minted, inst, up, clock, bounds, revoked, bared, unwritten, lost>>

\* An instance of this version is left up, and so is a stale one whose turn has not come.
SlotUp ==
  /\ At("slot") /\ call.slot \in Slot /\ call.at[call.slot] # 0
  /\ call.at[call.slot] = call.version \/ call.replaced
  /\ call' = [call EXCEPT !.slot = @ + 1, !.up = TRUE]
  /\ UNCHANGED <<stored, given, inst, up, look, clock, bounds, history>>

\* A stale instance is stopped, and its own token revoked with it.
Replaces == call.slot \in Slot /\ call.at[call.slot] \notin {0, call.version} /\ ~call.replaced

SlotStop ==
  /\ At("slot") /\ Replaces
  /\ inst' = [inst EXCEPT ![call.slot] = NoInst]
  /\ envs' = [envs EXCEPT ![call.slot] = 0]
  /\ call' = [call EXCEPT !.pc = "env", !.replaced = TRUE]
  /\ UNCHANGED <<stored, tokens, minted, files, record, up, look, clock, bounds, history>>

SlotEmpty ==
  /\ At("slot") /\ call.slot \in Slot /\ call.at[call.slot] = 0
  /\ call' = [call EXCEPT !.pc = "env"]
  /\ UNCHANGED <<stored, given, inst, up, look, clock, bounds, history>>

\* The token of the environment replaces the one an earlier start of the slot was given;
\* two numbers tell them apart.
MintInstanceToken ==
  /\ At("env")
  /\ envs' = [envs EXCEPT ![call.slot] = IF @ = 1 THEN 2 ELSE 1]
  /\ call' = [call EXCEPT !.pc = "token", !.task = "deliver"]
  /\ UNCHANGED <<stored, tokens, minted, files, record, inst, up, look, clock, bounds, history>>

\* A delivery keeps the token of a file that was recorded, as a refresh does.
Keeps(v) == record[v] # Nothing /\ files[v].token # 0 /\ Fresh(v)

KeepToken ==
  /\ At("token") /\ Keeps(call.version)
  /\ call' = [call EXCEPT !.pc = "value", !.new = 0]
  /\ UNCHANGED <<stored, given, inst, up, look, clock, bounds, history>>

\* The new token is recorded before anything is done to the one it replaces.
MintWorkloadToken ==
  /\ At("token") /\ ~Keeps(call.version)
  /\ tokens' = tokens \cup {Created(call.version)} /\ minted' = minted + 1
  /\ call' = [call EXCEPT !.pc = "expire", !.new = minted + 1]
  /\ UNCHANGED <<stored, envs, files, record, inst, up, look, clock, bounds, history>>

ExpireOthers ==
  /\ At("expire")
  /\ tokens' = ExpireMinted(call.version, call.new)
  /\ call' = [call EXCEPT !.pc = "write"]
  /\ UNCHANGED <<stored, envs, minted, files, record, inst, up, look, clock, bounds, history>>

\* A delivery that replaces the token tells no one who reads the file already.
WriteToken ==
  /\ At("write")
  /\ files' = [files EXCEPT ![call.version].token = call.new]
  /\ unwritten' = unwritten \ {call.version}
  /\ lost' = IF call.task = "deliver" THEN lost \cup Readers(call.version) ELSE lost
  /\ call' = [call EXCEPT !.pc = "value"]
  /\ UNCHANGED <<stored, tokens, envs, minted, record, inst, up, look, clock, bounds, revoked, bared, unseen>>

\* A delivery writes what the secret holds; a refresh writes it when it is not what was
\* recorded, and ends when neither file moved.
WriteValue ==
  /\ At("value")
  /\ LET same == call.task = "refresh" /\ value = record[call.version].value
     IN IF same /\ call.new = 0
        THEN Through /\ UNCHANGED <<files, lost>>
        ELSE /\ files' = [files EXCEPT ![call.version].value = value]
             /\ lost' = IF call.task = "deliver" /\ record[call.version].value # value
                        THEN lost \cup Readers(call.version) ELSE lost
             /\ call' = [call EXCEPT !.pc = "record", !.value = value]
             /\ UNCHANGED <<passed, gone>>
  /\ UNCHANGED <<stored, tokens, envs, minted, record, inst, up, look, now, bounds, revoked, bared, unseen, unwritten>>

\* Mutant of Recorded: what the secret holds by now is taken for what was written.
RecordedLate(old) == [token |-> IF call.new # 0 THEN call.new ELSE old.token, value |-> value]

\* What was written is recorded once the files are.
Recorded(old) == [token |-> IF call.new # 0 THEN call.new ELSE old.token, value |-> call.value]

Record ==
  /\ At("record")
  /\ record' = [record EXCEPT ![call.version] = Recorded(@)]
  /\ call' = [call EXCEPT !.pc = IF call.task = "deliver" THEN "run" ELSE "signal"]
  /\ UNCHANGED <<stored, tokens, envs, minted, files, inst, up, look, clock, bounds, history>>

Run ==
  /\ At("run")
  /\ bared' = IF envs[call.slot] = 0 THEN bared \cup {call.slot} ELSE bared \ {call.slot}
  /\ unseen' = unseen \ {call.slot}
  /\ inst' = [inst EXCEPT ![call.slot] = Loaded([NoInst EXCEPT !.env = envs[call.slot]], call.version)]
  /\ lost' = IF call.version \in unwritten THEN lost \cup {call.slot} ELSE lost \ {call.slot}
  /\ call' = [call EXCEPT !.pc = "slot", !.slot = @ + 1, !.task = "none", !.new = 0, !.value = 0]
  /\ UNCHANGED <<stored, given, up, look, clock, bounds, revoked, unwritten>>

\* Past the last slot, what is up and named a signal is refreshed.
Refreshes(c) == c.up /\ signalled /\ record[c.version] # Nothing

RefreshBegin ==
  /\ At("slot") /\ call.slot \notin Slot
  /\ IF Refreshes(call)
     THEN /\ call' = [call EXCEPT !.pc = "token", !.task = "refresh", !.at = Idle.at]
          /\ UNCHANGED <<passed, gone>>
     ELSE Through
  /\ UNCHANGED <<stored, given, inst, up, look, now, bounds, history>>

\* The signal follows the write and reaches every instance of the workload.
Signal ==
  /\ At("signal")
  /\ inst' = [s \in Slot |-> IF s \in Running THEN [inst[s] EXCEPT !.told = TRUE] ELSE inst[s]]
  /\ Through
  /\ UNCHANGED <<stored, given, up, look, now, bounds, history>>

\* One that fails may have reached some of them.
SignalFails ==
  /\ At("signal") /\ Fault
  /\ \E heard \in SUBSET Running :
       /\ inst' = [s \in Slot |-> IF s \in heard THEN [inst[s] EXCEPT !.told = TRUE] ELSE inst[s]]
       /\ lost' = lost \cup (Readers(call.version) \ heard)
  /\ Through
  /\ UNCHANGED <<stored, given, up, look, now, events, revoked, bared, unseen, unwritten>>

\* A stop, a statement, a write or a start fails and ends the converge.
Fails ==
  /\ up /\ call.pc \in {"slot", "env", "token", "expire", "write", "value", "record", "run"}
  /\ call.pc = "slot" => Replaces
  /\ Fault
  /\ unwritten' = unwritten \cup Unwritten /\ lost' = lost \cup Untold
  /\ End
  /\ UNCHANGED <<stored, given, inst, up, look, now, gone, events, revoked, bared, unseen>>

ConvergeSteps ==
  \/ ConvergeSuspended \/ Converge \/ SlotUp \/ SlotStop \/ SlotEmpty \/ MintInstanceToken
  \/ KeepToken \/ MintWorkloadToken \/ ExpireOthers \/ WriteToken \/ WriteValue \/ Record
  \/ Run \/ RefreshBegin \/ Signal

Next ==
  \/ Sweep \/ Delete \/ SetValue \/ Apply \/ Suspend \/ Resume \/ Tick \/ Crash \/ Boot
  \/ \E s \in Slot : Load(s) \/ Exit(s)
  \/ Look \/ Skip \/ ConvergeSteps
  \/ Fails \/ SignalFails

Spec == Init /\ [][Next]_vars

\* A server that is up goes on with its passes, and a workload loads its files when it is
\* signalled.
FairSpec ==
  /\ Spec
  /\ WF_vars(Look) /\ WF_vars(ConvergeSteps)
  /\ \A s \in Slot : WF_vars(Load(s))

-----------------------------------------------------------------------------
(* Properties.                                                             *)

\* What a version's files hold, a token, an instance, and a converge.
Item == [token : Nat, value : Nat]

Token == [id : Nat, version : Version, expires : Int]

Instance == [version : Version \cup {0}, token : Nat, value : Nat, env : Nat, told : BOOLEAN]

Call ==
  [pc : {"idle", "slot", "env", "token", "expire", "write", "value", "record", "run", "signal"},
   task : {"none", "deliver", "refresh"}, version : Version \cup {0}, slot : 0..(MaxSlot + 1),
   new : Nat, value : Nat, up : BOOLEAN, replaced : BOOLEAN, at : [Slot -> Version \cup {0}]]

TypeOK ==
  /\ row \in [is : {"wanted", "suspended"}, version : Version]
  /\ signalled \in BOOLEAN /\ value \in Nat /\ minted \in Nat
  /\ tokens \subseteq Token /\ envs \in [Slot -> Nat]
  /\ files \in [Version -> Item] /\ record \in [Version -> Item]
  /\ inst \in [Slot -> Instance] /\ call \in Call
  /\ look \in [is : {"none", "wanted", "suspended"}, version : Version \cup {0},
               at : [Slot -> Version \cup {0}]]
  /\ up \in BOOLEAN /\ passed \in BOOLEAN
  /\ now \in 0..MaxTime /\ gone \in Nat /\ events \in 0..MaxEvents /\ faults \in 0..MaxFaults
  /\ revoked \subseteq Nat /\ bared \subseteq Slot /\ unseen \subseteq Slot /\ unwritten \subseteq Version /\ lost \subseteq Slot

\* An instance of the version that is stored holds tokens the server accepts: its own and
\* the one it shares, over every rotation, roll, restart and failed pass.  What loses it one
\* is known.  Either: a revocation by hand, and a converge that began on an observation made
\* before the instance was started.  The shared one: a margin in which no pass got through,
\* a rotation cut short before the workload is told, and a delivery for another slot that
\* mints.
HeldTokensValid ==
  row.is = "wanted" =>
    \A s \in Readers(row.version) \ unseen :
      /\ s \in bared \/ (inst[s].env = envs[s] /\ envs[s] # 0)
      /\ s \in lost \/ inst[s].token \in revoked \/ Valid(inst[s].token)

\* A value that is set reaches the files of a workload that runs, and the workload itself
\* unless a signal was lost: a pass that fails between the write and the record is made
\* good by the next.  What runs unseen may have had its files taken away.
Current(s) ==
  \/ ~up \/ row.is # "wanted" \/ s \notin Readers(row.version) \ unseen
  \/ /\ files[row.version].value = value
     /\ s \in lost \/ inst[s].value = value

NewsArrives == \A s \in Slot : []<>Current(s)

\* deliverToken's comment: "a delivery that finds the file already written keeps it rather
\* than minting again: replacing the token under the instances already reading it would
\* revoke a credential they may have read".
SharedTokenKept ==
  row.is = "wanted" => \A s \in Readers(row.version) : Valid(inst[s].token)

=============================================================================

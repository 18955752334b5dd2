----------------------------- MODULE MountsProofs -----------------------------
(***************************************************************************)
(* Every instance of the stored version holds tokens the server accepts,   *)
(* for any number of slots, versions, faults and calls and any life of a   *)
(* token.                                                                  *)
(*                                                                         *)
(* The argument: the file of a version holds its newest token, and every   *)
(* other token of the version is in its grace (OthersEnd), so a delivery   *)
(* or a refresh that finds a fresh token finds the one in the file.  A     *)
(* pass that gets through therefore leaves a token in the file with more   *)
(* than the margin to live, and since the clock has moved by `gone' since, *)
(* it lives on (FileHolds).  An instance holds the file's token, or is     *)
(* about to be told of another, which happens before the clock moves       *)
(* (Holding).  What a converge has yet to come to is as its pass saw it,   *)
(* or is counted unseen (EnvOwn).                                          *)
(***************************************************************************)
EXTENDS Mounts, TLAPS

\* A token of a version, or one revoked by hand, that has the given time left and more.
Lasts(t, v, left) ==
  \/ t \in revoked
  \/ \E k \in tokens :
       /\ k.id = t /\ k.version = v
       /\ k.expires = Never \/ (signalled /\ k.expires > now /\ k.expires > now + left)

\* One that is still accepted.
Alive(t, v) ==
  \/ t \in revoked
  \/ \E k \in tokens : k.id = t /\ k.version = v /\ (k.expires = Never \/ k.expires > now)

\* A token in its grace, or past it.
Ending(k) == k.expires # Never /\ k.expires <= now + Grace

\* A token that is recorded and not in the file yet.
Minting(v) == call.version = v /\ call.pc \in {"expire", "write"}

\* What an instance holds has been replaced, and it will be told before the clock moves.
Replaced(s) ==
  \/ inst[s].told
  \/ Minting(row.version)
  \/ /\ call.version = row.version /\ call.task = "refresh" /\ call.new # 0
     /\ call.pc \in {"value", "record", "signal"}

\* The converge in progress: its statements and its slot.
CallOf ==
  /\ ~up => call = Idle
  /\ call.pc = "idle" => call = Idle
  /\ call.pc # "idle" => call.version \in Version /\ call.version <= row.version /\ call.slot # 0
  /\ call.pc \in {"slot", "env"} => call.task = "none"
  /\ call.pc \in {"token", "expire", "write", "value", "record"} => call.task # "none"
  /\ call.pc = "run" => call.task = "deliver"
  /\ call.pc = "signal" => call.task = "refresh"
  /\ call.pc \in {"expire", "write"} => call.new # 0

\* A slot that is being filled is empty or unseen, and what else the converge has yet to come
\* to and has seen is as it saw it.
Filling == call.pc = "env" \/ (call.pc # "idle" /\ call.task = "deliver")

EnvOwn ==
  /\ \A s \in Running \ unseen : s \in bared \/ (inst[s].env = envs[s] /\ envs[s] # 0)
  /\ Filling => call.slot \in Slot /\ call.slot \notin Running \ unseen
  /\ call.pc = "slot" \/ Filling =>
       \A s \in Running \ unseen :
         s > call.slot \/ (s = call.slot /\ call.pc = "slot") => call.at[s] = inst[s].version

\* What a pass read is no older than the converge at work.
LookOf ==
  look.is # "none" =>
    /\ look.version \in Version /\ look.version <= row.version /\ call.version <= look.version
    /\ look.version # row.version => Readers(row.version) = {}

\* What runs was recorded first, and runs no version later than the row's.
RecordOf ==
  /\ LookOf
  /\ value # 0 /\ (call.pc = "record" => call.value # 0)
  /\ call.pc = "run" => record[call.version].value # 0
  /\ \A s \in Running : inst[s].version <= row.version
  /\ \A s \in Running \ unseen : record[inst[s].version].value # 0
  /\ call.pc # "idle" /\ call.version # row.version => Readers(row.version) = {}

\* Numbers are handed out once.
Numbered == (\A k \in tokens : k.id \in 1..minted) /\ call.new <= minted

\* Without a signal a token does not expire, unless it was replaced.
Unsignalled == ~signalled => \A k \in tokens : k.expires = Never \/ Ending(k)

\* The token of the file is the only one of its version that is not ending.
OthersEnd ==
  /\ \A v \in Version \ unwritten : Minting(v) \/
       \A k \in Shared(v) : k.id = files[v].token \/ Ending(k)
  /\ call.pc = "write" => \A k \in Shared(call.version) : k.id = call.new \/ Ending(k)
  /\ call.pc \in {"expire", "write"} => Lasts(call.new, call.version, Margin)

\* Who reads a version whose newest token never reached the file has lost it.
UnwrittenLost == \A v \in unwritten : Readers(v) \subseteq lost

\* A pass that has started an instance, or is past the token, has a file that lasts.
PassHolds ==
  (/\ call.version \in Version \ unwritten
   /\ \/ call.pc \in {"value", "record", "run", "signal"}
      \/ /\ call.pc \in {"slot", "env"} \/ (call.pc = "token" /\ call.task = "deliver")
         /\ call.slot > 1 /\ ~call.up)
  => Lasts(files[call.version].token, call.version, Margin)

\* The file of the stored version lasts what is left of the margin, while an instance that
\* has not lost it reads it, or will.
Reads(s) == s \in Readers(row.version) \ unseen /\ (s \notin lost \/ inst[s].told)

FileHolds ==
  (row.version \notin unwritten /\ \E s \in Slot : Reads(s)) =>
    \/ Lasts(files[row.version].token, row.version, Margin - gone)
    \/ Minting(row.version) /\ Alive(files[row.version].token, row.version)

\* An instance holds what the file holds, or will before the clock moves.
Holding ==
  \A s \in Readers(row.version) \ (lost \cup unseen) :
    \/ inst[s].token = files[row.version].token
    \/ Replaced(s) /\ Alive(inst[s].token, row.version)

\* A signal is handled before the clock moves, by an instance that runs.
ToldNow == (\E s \in Slot : inst[s].told) => gone = 0

ToldRuns == \A s \in Slot : inst[s].told => inst[s].version # 0

Inv ==
  /\ TypeOK /\ CallOf /\ EnvOwn /\ RecordOf /\ Numbered /\ Unsignalled /\ OthersEnd
  /\ UnwrittenLost /\ PassHolds /\ FileHolds /\ Holding /\ ToldNow /\ ToldRuns

-----------------------------------------------------------------------------
(* Facts about the definitions.                                            *)

LEMMA MarginFacts == Margin \in Nat /\ Margin > 0 /\ Margin < TTL /\ TTL \in Nat /\ Grace = 1 /\ Never = -1
  BY MountsAssumption DEF Margin, Grace, Never

LEMMA IdleType ==
  /\ Idle \in Call /\ Idle.pc = "idle" /\ Idle.task = "none" /\ Idle.new = 0 /\ Idle.value = 0
  /\ Idle.version = 0 /\ Idle.slot = 0 /\ Idle.up = FALSE /\ Idle.replaced = FALSE
  /\ Idle.at \in [Slot -> Version \cup {0}]
  BY MountsAssumption DEF Idle, Call

LEMMA NoInstType ==
  NoInst \in Instance /\ NoInst.version = 0 /\ NoInst.told = FALSE
  BY DEF NoInst, Instance

LEMMA NoLookType ==
  /\ NoLook \in [is : {"none", "wanted", "suspended"}, version : Version \cup {0},
                 at : [Slot -> Version \cup {0}]]
  /\ NoLook.is = "none"
  BY DEF NoLook

LEMMA Numbers ==
  ASSUME TypeOK
  PROVE  /\ Version \subseteq Nat /\ 0 \notin Version /\ row.version \in Version /\ row.version \in Nat
         /\ call.version \in Nat /\ call.new \in Nat /\ call.slot \in Nat /\ now \in Nat /\ gone \in Nat
         /\ \A s \in Slot : inst[s] \in Instance /\ inst[s].version \in Nat
         /\ \A k \in tokens : k \in Token /\ k.id \in Nat /\ k.expires \in Int
<1>1. Version \subseteq Nat /\ 0 \notin Version /\ \A v \in Version \cup {0} : v \in Nat
  BY DEF Version
<1>2. row.version \in Version
  BY DEF TypeOK
<1>3. call.version \in Version \cup {0} /\ call.new \in Nat /\ call.slot \in Nat
  BY MountsAssumption DEF TypeOK, Call
<1>4. \A s \in Slot : inst[s] \in Instance /\ inst[s].version \in Nat
  <2>1. \A s \in Slot : inst[s] \in Instance
    BY DEF TypeOK
  <2>2. \A i \in Instance : i.version \in Version \cup {0}
    BY DEF Instance
  <2>3. QED
    BY <1>1, <2>1, <2>2
<1>5. \A k \in tokens : k \in Token /\ k.id \in Nat /\ k.expires \in Int
  BY DEF TypeOK, Token
<1>6. now \in Nat /\ gone \in Nat
  BY DEF TypeOK
<1>7. call.version \in Nat /\ row.version \in Nat
  BY <1>1, <1>2, <1>3
<1>8. QED
  BY <1>1, <1>2, <1>3, <1>4, <1>5, <1>6, <1>7

LEMMA Bounds == MaxTime \in Nat /\ MaxEvents \in Nat /\ MaxFaults \in Nat
  BY MountsAssumption

LEMMA EventType ==
  ASSUME TypeOK, Event
  PROVE  events' \in 0..MaxEvents
  BY Bounds DEF TypeOK, Event

LEMMA FaultType ==
  ASSUME TypeOK, Fault
  PROVE  faults' \in 0..MaxFaults
  BY Bounds DEF TypeOK, Fault

\* A step that leaves the tokens, or takes away only what is over or revoked, leaves what
\* lasts and what is alive.
LEMMA LastsKept ==
  ASSUME NEW t, NEW v, NEW left, now' = now, signalled' = signalled, revoked \subseteq revoked',
         \A k \in tokens : (k.expires = Never \/ k.expires > now) => k \in tokens' \/ k.id \in revoked'
  PROVE  /\ Lasts(t, v, left) => Lasts(t, v, left)'
         /\ Alive(t, v) => Alive(t, v)'
<1>1. ASSUME Lasts(t, v, left) PROVE Lasts(t, v, left)'
  <2>1. CASE t \in revoked
    BY <2>1 DEF Lasts
  <2>2. CASE t \notin revoked
    <3>1. PICK k \in tokens : k.id = t /\ k.version = v /\
            (k.expires = Never \/ (signalled /\ k.expires > now /\ k.expires > now + left))
      BY <1>1, <2>2 DEF Lasts
    <3>2. QED
      BY <3>1 DEF Lasts
  <2>3. QED
    BY <2>1, <2>2
<1>2. ASSUME Alive(t, v) PROVE Alive(t, v)'
  <2>1. CASE t \in revoked
    BY <2>1 DEF Alive
  <2>2. CASE t \notin revoked
    <3>1. PICK k \in tokens : k.id = t /\ k.version = v /\ (k.expires = Never \/ k.expires > now)
      BY <1>2, <2>2 DEF Alive
    <3>2. QED
      BY <3>1 DEF Alive
  <2>3. QED
    BY <2>1, <2>2
<1>3. QED
  BY <1>1, <1>2

LEMMA LastsAlive ==
  ASSUME NEW t, NEW v, NEW left, Lasts(t, v, left)
  PROVE  Alive(t, v)
  BY DEF Lasts, Alive

LEMMA LastsLess ==
  ASSUME NEW t, NEW v, NEW left \in Int, NEW less \in Int, less <= left, Lasts(t, v, left), TypeOK
  PROVE  Lasts(t, v, less)
<1>1. now \in Int /\ \A k \in tokens : k.expires \in Int
  BY Numbers
<1>2. QED
  BY <1>1 DEF Lasts

\* The property follows.
LEMMA InvHolds ==
  ASSUME Inv
  PROVE  HeldTokensValid
<1> SUFFICES ASSUME NEW s \in Readers(row.version) \ unseen, row.is = "wanted"
             PROVE  /\ s \in bared \/ (inst[s].env = envs[s] /\ envs[s] # 0)
                    /\ s \in lost \/ inst[s].token \in revoked \/ Valid(inst[s].token)
  BY DEF HeldTokensValid
<1>1. row.version \in Version /\ 0 \notin Version /\ s \in Slot /\ inst[s].version = row.version
  BY DEF Inv, TypeOK, Version, Readers
<1>2. s \in Running
  BY <1>1 DEF Running
<1>3. s \in bared \/ (inst[s].env = envs[s] /\ envs[s] # 0)
  BY <1>2 DEF Inv, EnvOwn
<1>4. ASSUME NEW t, Alive(t, row.version) PROVE t \in revoked \/ Valid(t)
  <2>1. now \in Nat /\ \A k \in tokens : k.expires \in Int
    BY Numbers DEF Inv
  <2>2. QED
    BY <1>4, <2>1 DEF Alive, Valid
<1>5. ASSUME s \notin lost PROVE Alive(inst[s].token, row.version)
  <2>1. row.version \notin unwritten
    BY <1>5 DEF Inv, UnwrittenLost
  <2>2. Alive(files[row.version].token, row.version)
    BY <1>1, <1>5, <2>1, LastsAlive DEF Inv, FileHolds, Reads
  <2>3. QED
    BY <1>5, <2>2 DEF Inv, Holding
<1>6. QED
  BY <1>3, <1>4, <1>5

LEMMA InitInv ==
  ASSUME Init
  PROVE  Inv
<1>1. TypeOK
  <2>1. /\ row.is = "wanted" /\ row.version = 1 /\ row \in [is : {"wanted", "suspended"}, version : Version]
        /\ signalled \in BOOLEAN /\ value \in Nat /\ minted \in Nat
    BY MountsAssumption DEF Init, Version
  <2>2. /\ tokens \subseteq Token /\ envs \in [Slot -> Nat]
        /\ files \in [Version -> Item] /\ record \in [Version -> Item]
    BY DEF Init, Nothing, Item
  <2>3. /\ inst \in [Slot -> Instance] /\ call \in Call
        /\ look \in [is : {"none", "wanted", "suspended"}, version : Version \cup {0},
                     at : [Slot -> Version \cup {0}]]
    BY IdleType, NoInstType, NoLookType DEF Init
  <2>4. /\ now \in 0..MaxTime /\ gone \in Nat /\ events \in 0..MaxEvents /\ faults \in 0..MaxFaults
        /\ revoked \subseteq Nat /\ bared \subseteq Slot /\ unseen \subseteq Slot /\ unwritten \subseteq Version /\ lost \subseteq Slot
    BY Bounds DEF Init
  <2>5. up \in BOOLEAN /\ passed \in BOOLEAN
    BY DEF Init
  <2>6. QED
    BY <2>1, <2>2, <2>3, <2>4, <2>5 DEF TypeOK
<1>2. Running = {} /\ \A v \in Version : Readers(v) = {}
  BY NoInstType DEF Init, Running, Readers, Version
<1>3. row.version \in Version
  BY <1>1 DEF TypeOK
<1>4. call.pc = "idle" /\ call.task = "none" /\ call.version = 0 /\ call.new = 0 /\ 0 \notin Version
  BY IdleType DEF Init, Version
<1>5. CallOf /\ EnvOwn /\ RecordOf /\ Numbered
  BY <1>1, <1>2, <1>3, <1>4, NoLookType DEF Init, CallOf, EnvOwn, Filling, RecordOf, LookOf, Numbered, TypeOK
<1>6. Unsignalled /\ OthersEnd /\ UnwrittenLost /\ PassHolds
  BY <1>4 DEF Init, Unsignalled, OthersEnd, Shared, UnwrittenLost, PassHolds
<1>7. FileHolds /\ Holding /\ ToldNow /\ ToldRuns
  <2>1. FileHolds /\ Holding
    BY <1>2, <1>3 DEF FileHolds, Reads, Holding
  <2>2. \A s \in Slot : inst[s].told = FALSE
    BY NoInstType DEF Init
  <2>3. QED
    BY <2>1, <2>2 DEF ToldNow, ToldRuns
<1>8. QED
  BY <1>1, <1>5, <1>6, <1>7 DEF Inv

-----------------------------------------------------------------------------
(* What a step that keeps to one part of the state leaves of the rest.     *)

\* A step that only takes tokens away that are over, or revokes them.
LEMMA TokensStep ==
  ASSUME Inv, TypeOK', EnvOwn', tokens' \subseteq tokens, revoked \subseteq revoked',
         UNCHANGED <<stored, minted, files, record, inst, up, look, call, now, gone, unseen, unwritten, lost>>,
         \A k \in tokens : (k.expires = Never \/ k.expires > now) => k \in tokens' \/ k.id \in revoked'
  PROVE  Inv'
<1>1. \A t, v, left : /\ Lasts(t, v, left) => Lasts(t, v, left)'
                      /\ Alive(t, v) => Alive(t, v)'
  BY LastsKept DEF stored
<1>2. CallOf' /\ RecordOf' /\ UnwrittenLost' /\ ToldNow' /\ ToldRuns'
  BY DEF Inv, stored, CallOf, Running, RecordOf, LookOf, Readers, UnwrittenLost, ToldNow, ToldRuns
<1>3. Numbered' /\ Unsignalled'
  BY DEF Inv, stored, Numbered, Unsignalled, Ending
<1>4. OthersEnd'
  <2>1. \A v : Shared(v)' \subseteq Shared(v)
    BY DEF Shared
  <2>2. \A k : Ending(k) = Ending(k)'
    BY DEF Ending
  <2>3. QED
    BY <1>1, <2>1, <2>2 DEF Inv, OthersEnd, Minting
<1>5. PassHolds'
  BY <1>1 DEF Inv, PassHolds
<1>6. FileHolds' /\ Holding'
  BY <1>1 DEF Inv, stored, FileHolds, Reads, Readers, Holding, Replaced, Minting
<1>7. QED
  BY <1>2, <1>3, <1>4, <1>5, <1>6 DEF Inv

\* A step that leaves the tokens and the clock.
LEMMA SameTokens ==
  ASSUME UNCHANGED <<tokens, signalled, now, revoked>>
  PROVE  /\ \A t, v, left : Lasts(t, v, left)' <=> Lasts(t, v, left)
         /\ \A t, v : Alive(t, v)' <=> Alive(t, v)
         /\ \A k : Ending(k)' <=> Ending(k)
         /\ \A v : Shared(v)' = Shared(v)
  BY DEF Lasts, Alive, Ending, Shared

\* A step of the converge that neither mints nor writes a token.
LEMMA CallStep ==
  ASSUME Inv, TypeOK', CallOf', EnvOwn', RecordOf', PassHolds', call'.new <= minted,
         UNCHANGED <<signalled, tokens, minted, files, inst, now, gone, revoked, unwritten, lost>>, unseen \subseteq unseen',
         row'.version = row.version,
         call.pc \notin {"expire", "write"}, call'.pc \notin {"expire", "write"},
         \A s \in Slot : Replaced(s) => Replaced(s)'
  PROVE  Inv'
<1>1. /\ \A t, v, left : Lasts(t, v, left)' <=> Lasts(t, v, left)
      /\ \A t, v : Alive(t, v)' <=> Alive(t, v)
      /\ \A k : Ending(k)' <=> Ending(k)
      /\ \A v : Shared(v)' = Shared(v)
  BY SameTokens
<1>2. Numbered' /\ Unsignalled' /\ UnwrittenLost' /\ ToldNow' /\ ToldRuns'
  BY <1>1 DEF Inv, Numbered, Unsignalled, UnwrittenLost, Readers, ToldNow, ToldRuns
<1>3. \A v : ~Minting(v) /\ ~Minting(v)'
  BY DEF Minting
<1>4. OthersEnd'
  BY <1>1, <1>3 DEF Inv, OthersEnd
<1>5. FileHolds'
  BY <1>1, <1>3 DEF Inv, FileHolds, Reads, Readers
<1>6. Holding'
  BY <1>1 DEF Inv, Holding, Readers
<1>7. QED
  BY <1>2, <1>4, <1>5, <1>6 DEF Inv

\* A pass that ends, short of telling who is to be told.
LEMMA CutShort ==
  ASSUME Inv, TypeOK', call' = Idle, look' \in {look, NoLook},
         UNCHANGED <<stored, given, inst, now, gone, revoked, bared, unseen>>,
         unwritten' = unwritten \cup Unwritten, lost' = lost \cup Untold
  PROVE  Inv'
<1>1. /\ \A t, v, left : Lasts(t, v, left)' <=> Lasts(t, v, left)
      /\ \A t, v : Alive(t, v)' <=> Alive(t, v)
      /\ \A k : Ending(k)' <=> Ending(k)
      /\ \A v : Shared(v)' = Shared(v)
  BY SameTokens DEF stored, given
<1>2. /\ call'.pc = "idle" /\ call'.task = "none" /\ call'.version = 0 /\ call'.new = 0
      /\ 0 \notin Version /\ row.version \in Version
  BY IdleType DEF Inv, TypeOK, Version
<1>3. /\ UNCHANGED <<row, signalled, value, tokens, envs, minted, files, record>>
      /\ \A v : Readers(v)' = Readers(v)
      /\ Running' = Running
  BY DEF stored, given, Readers, Running
<1>4. CallOf' /\ EnvOwn' /\ RecordOf'
  <2>1. LookOf'
    <3>1. look.version \in Version => 0 <= look.version
      BY DEF Version
    <3>2. QED
      BY <1>2, <1>3, <3>1, NoLookType DEF Inv, RecordOf, LookOf
  <2>2. QED
    BY <1>2, <1>3, <2>1 DEF Inv, CallOf, EnvOwn, Filling, RecordOf
<1>5. Numbered' /\ Unsignalled' /\ ToldNow' /\ ToldRuns' /\ PassHolds'
  <2>1. minted \in Nat
    BY DEF Inv, TypeOK
  <2>2. QED
    BY <1>1, <1>2, <1>3, <2>1 DEF Inv, Numbered, Unsignalled, ToldNow, ToldRuns, PassHolds
<1>6. OthersEnd'
  <2>1. \A v \in Version \ unwritten' : ~Minting(v)
    BY DEF Minting, Unwritten
  <2>2. QED
    BY <1>1, <1>2, <1>3, <2>1 DEF Inv, OthersEnd
<1>7. UnwrittenLost'
  BY <1>3 DEF Inv, UnwrittenLost, Unwritten, Untold
<1>8. FileHolds'
  <2>1. \A s \in Slot : Reads(s)' => Reads(s)
    BY <1>3 DEF Reads
  <2>2. row.version \notin unwritten' => ~Minting(row.version)
    BY DEF Minting, Unwritten
  <2>3. QED
    BY <1>1, <1>2, <1>3, <2>1, <2>2 DEF Inv, FileHolds
<1>9. Holding'
  <2> SUFFICES ASSUME NEW s \in Readers(row.version) \ unseen, s \notin lost'
               PROVE  \/ inst[s].token = files[row.version].token
                      \/ inst[s].told /\ Alive(inst[s].token, row.version)
    BY <1>1, <1>3 DEF Holding, Replaced
  <2>1. Replaced(s) => inst[s].told
    BY DEF Replaced, Minting, Untold
  <2>2. QED
    BY <2>1 DEF Inv, Holding
<1>10. QED
  BY <1>4, <1>5, <1>6, <1>7, <1>8, <1>9 DEF Inv

\* A pass that gets through, on a file that lasts.
LEMMA GotThrough ==
  ASSUME Inv, TypeOK', ToldRuns', call' = Idle, gone' = 0,
         UNCHANGED <<stored, given, look, now, revoked, bared, unseen, unwritten>>,
         call.pc \notin {"expire", "write"},
         \A v : Readers(v)' = Readers(v), \A s \in Slot : inst'[s].env = inst[s].env,
         \A s \in Slot : Reads(s)' /\ row.version \notin unwritten =>
                         Lasts(files[row.version].token, row.version, Margin),
         \A v \in unwritten : Readers(v) \subseteq lost',
         \A s \in Readers(row.version) \ (lost' \cup unseen) :
           \/ inst'[s].token = files[row.version].token
           \/ inst'[s].told /\ Alive(inst'[s].token, row.version)
  PROVE  Inv'
<1>1. /\ \A t, v, left : Lasts(t, v, left)' <=> Lasts(t, v, left)
      /\ \A t, v : Alive(t, v)' <=> Alive(t, v)
      /\ \A k : Ending(k)' <=> Ending(k)
      /\ \A v : Shared(v)' = Shared(v)
  BY SameTokens DEF stored, given
<1>2. /\ call'.pc = "idle" /\ call'.task = "none" /\ call'.version = 0 /\ call'.new = 0
      /\ 0 \notin Version /\ row.version \in Version
  BY IdleType DEF Inv, TypeOK, Version
<1>3. UNCHANGED <<row, signalled, value, tokens, envs, minted, files, record>>
  BY DEF stored, given
<1>4. Running' = Running /\ \A s \in Running : inst'[s].version = inst[s].version
  <2>1. \A s \in Slot : inst[s].version = inst'[s].version
    BY DEF Readers
  <2>2. QED
    BY <2>1 DEF Running
<1>5. CallOf' /\ EnvOwn'
  <2>1. Running \subseteq Slot
    BY DEF Running
  <2>2. QED
    BY <1>2, <1>3, <1>4, <2>1 DEF Inv, CallOf, EnvOwn, Filling
<1>6. RecordOf'
  <2>1. LookOf'
    <3>1. look.version \in Version => 0 <= look.version
      BY DEF Version
    <3>2. QED
      BY <1>2, <1>3, <3>1 DEF Inv, RecordOf, LookOf
  <2>2. QED
    BY <1>2, <1>3, <1>4, <2>1 DEF Inv, RecordOf
<1>7. Numbered' /\ Unsignalled' /\ ToldNow' /\ ToldRuns' /\ PassHolds' /\ UnwrittenLost'
  <2>1. minted \in Nat
    BY DEF Inv, TypeOK
  <2>2. QED
    BY <1>1, <1>2, <1>3, <2>1 DEF Inv, Numbered, Unsignalled, ToldNow, ToldRuns, PassHolds, UnwrittenLost
<1>8. OthersEnd'
  <2>1. \A v : ~Minting(v)
    BY DEF Minting
  <2>2. QED
    BY <1>1, <1>2, <1>3, <2>1 DEF Inv, OthersEnd
<1>9. FileHolds'
  <2>1. Margin - gone' = Margin
    BY MarginFacts
  <2>2. QED
    BY <1>1, <1>3, <2>1 DEF FileHolds
<1>10. Holding'
  BY <1>1, <1>3 DEF Holding, Replaced
<1>11. QED
  BY <1>5, <1>6, <1>7, <1>8, <1>9, <1>10 DEF Inv

\* A step that moves the row on to another version.
LEMMA Advances ==
  ASSUME Inv, TypeOK', row'.version = row.version + 1, value' # 0,
         UNCHANGED <<signalled, given, inst, up, look, call, clock, history>>
  PROVE  Inv'
<1>1. /\ \A t, v, left : Lasts(t, v, left)' <=> Lasts(t, v, left)
      /\ \A t, v : Alive(t, v)' <=> Alive(t, v)
      /\ \A k : Ending(k)' <=> Ending(k)
      /\ \A v : Shared(v)' = Shared(v)
  BY SameTokens DEF given, clock, history
<1>2. UNCHANGED <<tokens, envs, minted, files, record, now, gone, revoked, bared, unseen, unwritten, lost>>
  BY DEF given, clock, history
<1>3. /\ row.version \in Nat /\ 0 \notin Version /\ call.version \in Nat
      /\ \A s \in Slot : inst[s].version \in Nat
  BY Numbers DEF Inv
<1>4. Readers(row.version)' = {}
  <2>1. \A s \in Slot : inst[s].version # row.version + 1
    <3>1. \A s \in Slot : inst[s].version = 0 \/ inst[s].version <= row.version
      BY DEF Inv, RecordOf, Running
    <3>2. QED
      BY <1>3, <3>1
  <2>2. QED
    BY <2>1 DEF Readers
<1>5. Running' = Running
  BY DEF Running
<1>6. CallOf' /\ EnvOwn'
  BY <1>2, <1>3, <1>5 DEF Inv, CallOf, EnvOwn, Filling
<1>7. RecordOf'
  <2>1. \A s \in Running : inst[s].version \in Nat
    BY <1>3 DEF Running
  <2>2. \A s \in Running : inst[s].version <= row'.version
    BY <1>3, <2>1 DEF Inv, RecordOf
  <2>3. LookOf'
    <3>1. \A v \in Version : v \in Nat
      BY DEF Version
    <3>2. QED
      BY <1>3, <1>4, <3>1 DEF Inv, RecordOf, LookOf
  <2>4. QED
    BY <1>2, <1>4, <1>5, <2>2, <2>3 DEF Inv, RecordOf
<1>8. Numbered' /\ Unsignalled' /\ ToldNow' /\ ToldRuns' /\ PassHolds'
  BY <1>1, <1>2 DEF Inv, Numbered, Unsignalled, ToldNow, ToldRuns, PassHolds
<1>9. OthersEnd'
  BY <1>1, <1>2 DEF Inv, OthersEnd, Minting
<1>10. UnwrittenLost'
  BY <1>2 DEF Inv, UnwrittenLost, Readers
<1>11. FileHolds' /\ Holding'
  BY <1>4 DEF FileHolds, Reads, Holding
<1>12. QED
  BY <1>6, <1>7, <1>8, <1>9, <1>10, <1>11 DEF Inv

-----------------------------------------------------------------------------
(* One lemma for each action.                                              *)

LEMMA SweepInv ==
  ASSUME Inv, Sweep
  PROVE  Inv'
<1>1. /\ tokens' = {k \in tokens : k.expires = Never \/ k.expires > now}
      /\ UNCHANGED <<stored, envs, minted, files, record, inst, up, look, call, now, passed, gone, events,
                     faults, revoked, bared, unseen, unwritten, lost>>
  BY DEF Sweep, clock, bounds, history
<1>2. TypeOK'
  BY <1>1 DEF Inv, TypeOK, stored
<1>3. EnvOwn'
  BY <1>1 DEF Inv, EnvOwn, Filling, Running
<1>4. QED
  BY <1>1, <1>2, <1>3, TokensStep

LEMMA DeleteInv ==
  ASSUME Inv, Delete
  PROVE  Inv'
<1>1. UNCHANGED <<stored, minted, files, record, inst, up, look, call, now, passed, gone,
                  faults, unseen, unwritten, lost>>
  BY DEF Delete, clock
<1>2. events' \in 0..MaxEvents
  BY EventType DEF Inv, Delete
<1>3. CASE /\ \E k \in tokens : tokens' = tokens \ {k} /\ revoked' = revoked \cup {k.id}
           /\ UNCHANGED <<envs, bared>>
  <2>1. PICK k \in tokens : tokens' = tokens \ {k} /\ revoked' = revoked \cup {k.id}
    BY <1>3
  <2>2. k.id \in Nat
    BY Numbers DEF Inv
  <2>3. TypeOK'
    BY <1>1, <1>2, <1>3, <2>1, <2>2 DEF Inv, TypeOK, stored
  <2>4. EnvOwn'
    BY <1>1, <1>3 DEF Inv, EnvOwn, Filling, Running
  <2>5. QED
    BY <1>1, <2>1, <2>3, <2>4, TokensStep
<1>4. CASE /\ \E s \in Slot : envs[s] # 0 /\ envs' = [envs EXCEPT ![s] = 0] /\ bared' = bared \cup {s}
           /\ UNCHANGED <<tokens, revoked>>
  <2>1. PICK s \in Slot : envs' = [envs EXCEPT ![s] = 0] /\ bared' = bared \cup {s}
    BY <1>4
  <2>2. envs \in [Slot -> Nat] /\ envs' \in [Slot -> Nat] /\ \A q \in Slot \ {s} : envs'[q] = envs[q]
    BY <2>1 DEF Inv, TypeOK
  <2>3. TypeOK'
    BY <1>1, <1>2, <1>4, <2>1, <2>2 DEF Inv, TypeOK, stored
  <2>4. EnvOwn'
    BY <1>1, <2>1, <2>2 DEF Inv, EnvOwn, Filling, Running
  <2>5. QED
    BY <1>1, <1>4, <2>3, <2>4, TokensStep
<1>5. QED
  BY <1>3, <1>4 DEF Delete

\* A pass reads, or leaves a workload another pass is converging.
LEMMA LookInv ==
  ASSUME Inv, Look \/ Skip
  PROVE  Inv'
<1>1. UNCHANGED <<row, signalled, value, tokens, envs, minted, files, record, inst, up, call, now, passed,
                  gone, events, faults, revoked, bared, unseen, unwritten, lost>>
  BY DEF Look, Skip, stored, given, clock, bounds, history
<1>2. /\ look' \in [is : {"none", "wanted", "suspended"}, version : Version \cup {0},
                    at : [Slot -> Version \cup {0}]]
      /\ look'.is # "none" => look'.version = row.version
  <2>1. CASE Skip
    BY <2>1, NoLookType DEF Skip
  <2>2. CASE Look
    <3>1. \A s \in Slot : inst[s].version \in Version \cup {0}
      BY DEF Inv, TypeOK, Instance
    <3>2. row.is \in {"wanted", "suspended"} /\ row.version \in Version
      BY DEF Inv, TypeOK
    <3>3. QED
      BY <2>2, <3>1, <3>2 DEF Look
  <2>3. QED
    BY <2>1, <2>2
<1>3. TypeOK'
  BY <1>1, <1>2 DEF Inv, TypeOK
<1>4. CallOf' /\ EnvOwn' /\ UnwrittenLost' /\ ToldNow' /\ ToldRuns' /\ Numbered' /\ Unsignalled'
  BY <1>1 DEF Inv, CallOf, EnvOwn, Filling, Running, Readers, UnwrittenLost, ToldNow, ToldRuns, Numbered,
     Unsignalled, Ending
<1>5. RecordOf'
  <2>1. LookOf'
    <3>1. row.version \in Version /\ row.version <= row.version
      BY Numbers DEF Inv
    <3>2. call.version <= row.version
      <4>1. call.pc = "idle" => call.version = 0
        BY IdleType DEF Inv, CallOf
      <4>2. QED
        BY <4>1, Numbers DEF Inv, CallOf
    <3>3. QED
      BY <1>1, <1>2, <3>1, <3>2 DEF LookOf
  <2>2. QED
    BY <1>1, <2>1 DEF Inv, RecordOf, Running, Readers
<1>6. /\ \A t, v, left : Lasts(t, v, left)' <=> Lasts(t, v, left)
      /\ \A t, v : Alive(t, v)' <=> Alive(t, v)
      /\ \A k : Ending(k)' <=> Ending(k)
      /\ \A v : Shared(v)' = Shared(v)
  BY <1>1, SameTokens
<1>7. OthersEnd' /\ PassHolds' /\ FileHolds' /\ Holding'
  BY <1>1, <1>6 DEF Inv, OthersEnd, PassHolds, FileHolds, Reads, Readers, Holding, Replaced, Minting
<1>8. QED
  BY <1>3, <1>4, <1>5, <1>7 DEF Inv

LEMMA SetValueInv ==
  ASSUME Inv, SetValue
  PROVE  Inv'
<1>1. /\ events' \in 0..MaxEvents /\ value' = value + 1
      /\ signalled \/ row.version < MaxVersion
      /\ row' = IF signalled THEN row ELSE [row EXCEPT !.version = @ + 1]
      /\ UNCHANGED <<signalled, given, inst, up, look, call, clock, faults, history>>
  BY EventType DEF Inv, SetValue
<1>2. value \in Nat /\ row \in [is : {"wanted", "suspended"}, version : Version]
  BY DEF Inv, TypeOK
<1>3. row' \in [is : {"wanted", "suspended"}, version : Version]
  BY <1>1, <1>2, MountsAssumption DEF Version
<1>4. TypeOK'
  BY <1>1, <1>2, <1>3 DEF Inv, TypeOK, given, clock, history
<1>5. CASE ~signalled
  <2>1. row'.version = row.version + 1
    BY <1>1, <1>2, <1>5
  <2>2. value' # 0
    BY <1>1, <1>2
  <2>3. QED
    BY <1>1, <1>4, <2>1, <2>2, Advances
<1>6. CASE signalled
  <2>1. row' = row /\ value' # 0
    BY <1>1, <1>2, <1>6
  <2>2. CallOf' /\ EnvOwn' /\ RecordOf' /\ Numbered'
    BY <1>1, <2>1 DEF Inv, CallOf, EnvOwn, Filling, Running, RecordOf, LookOf, Readers, Numbered, given,
     history
  <2>3. /\ \A t, v, left : Lasts(t, v, left)' <=> Lasts(t, v, left)
        /\ \A t, v : Alive(t, v)' <=> Alive(t, v)
        /\ \A k : Ending(k)' <=> Ending(k)
        /\ \A v : Shared(v)' = Shared(v)
    BY <1>1, SameTokens DEF given, clock, history
  <2>4. Unsignalled' /\ OthersEnd' /\ UnwrittenLost' /\ PassHolds' /\ ToldNow' /\ ToldRuns'
    BY <1>1, <2>1, <2>3 DEF Inv, Unsignalled, OthersEnd, Minting, UnwrittenLost, Readers, PassHolds, ToldNow, ToldRuns, given, clock, history
  <2>5. FileHolds' /\ Holding'
    BY <1>1, <2>1, <2>3 DEF Inv, FileHolds, Reads, Readers, Holding, Replaced, Minting, given, clock, history
  <2>6. QED
    BY <1>4, <2>2, <2>4, <2>5 DEF Inv
<1>7. QED
  BY <1>5, <1>6

LEMMA ApplyInv ==
  ASSUME Inv, Apply
  PROVE  Inv'
<1>1. /\ events' \in 0..MaxEvents /\ row.version < MaxVersion
      /\ row' = [row EXCEPT !.version = @ + 1]
      /\ UNCHANGED <<signalled, value, given, inst, up, look, call, clock, faults, history>>
  BY EventType DEF Inv, Apply
<1>2. value # 0 /\ row \in [is : {"wanted", "suspended"}, version : Version]
  BY DEF Inv, TypeOK, RecordOf
<1>3. row' \in [is : {"wanted", "suspended"}, version : Version] /\ row'.version = row.version + 1
  BY <1>1, <1>2, MountsAssumption DEF Version
<1>4. TypeOK'
  BY <1>1, <1>2, <1>3 DEF Inv, TypeOK, given, clock, history
<1>5. QED
  BY <1>1, <1>2, <1>3, <1>4, Advances

LEMMA HeldDownInv ==
  ASSUME Inv, Suspend \/ Resume \/ Boot
  PROVE  Inv'
<1>1. /\ row'.version = row.version /\ row' \in [is : {"wanted", "suspended"}, version : Version]
      /\ UNCHANGED <<signalled, value, given, inst, look, call, clock, faults, history>>
      /\ up' \in BOOLEAN /\ (up => up') /\ events' \in 0..MaxEvents
  <2>1. row \in [is : {"wanted", "suspended"}, version : Version]
    BY DEF Inv, TypeOK
  <2>2. CASE Suspend
    <3>1. /\ row' = [row EXCEPT !.is = "suspended"] /\ events' \in 0..MaxEvents
          /\ UNCHANGED <<signalled, value, given, inst, up, look, call, clock, faults, history>>
      BY <2>2, EventType DEF Inv, Suspend
    <3>2. up' \in BOOLEAN
      BY <3>1 DEF Inv, TypeOK
    <3>3. row'.version = row.version /\ row' \in [is : {"wanted", "suspended"}, version : Version]
      BY <2>1, <3>1
    <3>4. QED
      BY <3>1, <3>2, <3>3
  <2>3. CASE Resume
    <3>1. /\ row' = [row EXCEPT !.is = "wanted"]
          /\ UNCHANGED <<signalled, value, given, inst, up, look, call, clock, events, faults, history>>
      BY <2>3 DEF Inv, Resume, bounds
    <3>2. up' \in BOOLEAN /\ events' \in 0..MaxEvents
      BY <3>1 DEF Inv, TypeOK
    <3>3. row'.version = row.version /\ row' \in [is : {"wanted", "suspended"}, version : Version]
      BY <2>1, <3>1
    <3>4. QED
      BY <3>1, <3>2, <3>3
  <2>4. CASE Boot
    <3>1. /\ up' = TRUE
          /\ UNCHANGED <<row, signalled, value, given, inst, look, call, clock, events, faults, history>>
      BY <2>4 DEF Boot, bounds, stored
    <3>2. events' \in 0..MaxEvents
      BY <3>1 DEF Inv, TypeOK
    <3>3. QED
      BY <2>1, <3>1, <3>2
  <2>5. QED
    BY <2>2, <2>3, <2>4
<1>2. TypeOK'
  BY <1>1 DEF Inv, TypeOK, given, clock, history
<1>3. CallOf' /\ EnvOwn' /\ RecordOf' /\ Numbered'
  BY <1>1 DEF Inv, CallOf, EnvOwn, Filling, Running, RecordOf, LookOf, Readers, Numbered, given,
     history
<1>4. /\ \A t, v, left : Lasts(t, v, left)' <=> Lasts(t, v, left)
      /\ \A t, v : Alive(t, v)' <=> Alive(t, v)
      /\ \A k : Ending(k)' <=> Ending(k)
      /\ \A v : Shared(v)' = Shared(v)
  BY <1>1, SameTokens DEF given, clock, history
<1>5. Unsignalled' /\ OthersEnd' /\ UnwrittenLost' /\ PassHolds' /\ ToldNow' /\ ToldRuns'
  BY <1>1, <1>4 DEF Inv, Unsignalled, OthersEnd, Minting, UnwrittenLost, Readers, PassHolds, ToldNow, ToldRuns,
     given, clock, history
<1>6. FileHolds' /\ Holding'
  BY <1>1, <1>4 DEF Inv, FileHolds, Reads, Readers, Holding, Replaced, Minting, given, clock, history
<1>7. QED
  BY <1>2, <1>3, <1>5, <1>6 DEF Inv

\* The clock moves between passes, with every signal handled.
LEMMA TickInv ==
  ASSUME Inv, Tick
  PROVE  Inv'
<1>1. /\ now < MaxTime /\ now' = now + 1 /\ gone' = gone + 1 /\ passed' = FALSE
      /\ \A s \in Slot : ~inst[s].told
      /\ lost' = IF gone' > Margin THEN lost \cup Running ELSE lost
      /\ UNCHANGED <<stored, given, inst, up, look, call, events, faults, revoked, bared, unseen, unwritten>>
  BY DEF Tick, bounds
<1>2. UNCHANGED <<row, signalled, value, tokens, envs, minted, files, record>>
  BY <1>1 DEF stored, given
<1>3. call = Idle
  BY DEF Inv, CallOf, Tick
<1>4. TypeOK'
  <2>1. now' \in 0..MaxTime /\ gone' \in Nat
    BY <1>1, Bounds DEF Inv, TypeOK
  <2>2. lost' \subseteq Slot
    BY <1>1 DEF Inv, TypeOK, Running
  <2>3. QED
    BY <1>1, <1>2, <2>1, <2>2 DEF Inv, TypeOK
<1>5. CallOf' /\ EnvOwn' /\ RecordOf' /\ Numbered' /\ ToldNow' /\ ToldRuns'
  BY <1>1, <1>2 DEF Inv, CallOf, EnvOwn, Filling, Running, RecordOf, LookOf, Readers, Numbered, ToldNow, ToldRuns
<1>6. now \in Nat /\ gone \in Nat /\ \A k \in tokens : k.expires \in Int
  BY Numbers DEF Inv
<1>7. \A k \in tokens : Ending(k) => Ending(k)'
  BY <1>1, <1>6, MarginFacts DEF Ending
<1>8. \A v : ~Minting(v)
  BY <1>3, IdleType DEF Minting
<1>9. Unsignalled' /\ OthersEnd' /\ PassHolds'
  <2>1. Unsignalled'
    BY <1>2, <1>7 DEF Inv, Unsignalled
  <2>2. OthersEnd'
    BY <1>1, <1>2, <1>3, <1>7, <1>8, IdleType DEF Inv, OthersEnd, Shared
  <2>3. PassHolds'
    BY <1>1, <1>3, IdleType DEF PassHolds
  <2>4. QED
    BY <2>1, <2>2, <2>3
<1>10. UnwrittenLost'
  BY <1>1 DEF Inv, UnwrittenLost, Readers
<1>11. ASSUME NEW s \in Slot, Reads(s)'
       PROVE  gone' <= Margin /\ Reads(s)
  <2>1. s \in Running
    BY <1>1, <1>2, <1>11, Numbers DEF Reads, Readers, Running, Inv
  <2>2. gone' \in Nat /\ ~(gone' > Margin)
    BY <1>1, <1>6, <1>11, <2>1 DEF Reads
  <2>3. QED
    BY <1>1, <1>2, <1>11, <2>2, MarginFacts DEF Reads, Readers
<1>12. ASSUME gone' <= Margin, NEW t, NEW v, Lasts(t, v, Margin - gone)
       PROVE  Lasts(t, v, Margin - gone)'
  <2>1. CASE t \in revoked
    BY <1>1, <2>1 DEF Lasts
  <2>2. CASE t \notin revoked
    <3>1. PICK k \in tokens : k.id = t /\ k.version = v /\
            (k.expires = Never \/ (signalled /\ k.expires > now /\ k.expires > now + (Margin - gone)))
      BY <1>12, <2>2 DEF Lasts
    <3>2. k.expires = Never \/ (signalled' /\ k.expires > now' /\ k.expires > now' + (Margin - gone'))
      BY <1>1, <1>2, <1>6, <1>12, <3>1, MarginFacts
    <3>3. QED
      BY <1>2, <3>1, <3>2 DEF Lasts
  <2>3. QED
    BY <2>1, <2>2
<1>13. FileHolds'
  BY <1>1, <1>2, <1>8, <1>11, <1>12 DEF Inv, FileHolds
<1>14. Holding'
  BY <1>1, <1>2, <1>3, <1>8, IdleType DEF Inv, Holding, Replaced, Readers
<1>15. QED
  BY <1>4, <1>5, <1>9, <1>10, <1>13, <1>14 DEF Inv

\* A pass that fails, and a server that dies. 
LEMMA StoppedInv ==
  ASSUME Inv, Crash \/ Fails
  PROVE  Inv'
<1>1. /\ look' \in {look, NoLook} /\ call' = Idle /\ passed' \in BOOLEAN /\ up' \in BOOLEAN /\ faults' \in 0..MaxFaults
      /\ UNCHANGED <<stored, given, inst, now, gone, events, revoked, bared, unseen>>
      /\ unwritten' = unwritten \cup Unwritten /\ lost' = lost \cup Untold
  <2>1. up \in BOOLEAN
    BY DEF Inv, TypeOK
  <2>2. QED
    BY <2>1, FaultType DEF Inv, Crash, Fails, End
<1>2. TypeOK'
  <2>1. Unwritten \subseteq Version
    BY DEF Inv, CallOf, Unwritten
  <2>2. Untold \subseteq Slot
    BY DEF Untold, Readers
  <2>3. QED
    BY <1>1, <2>1, <2>2, IdleType, NoLookType DEF Inv, TypeOK, stored, given
<1>3. QED
  BY <1>1, <1>2, CutShort

\* A workload that is told loads what its files hold.
LEMMA LoadInv ==
  ASSUME Inv, NEW s \in Slot, Load(s)
  PROVE  Inv'
<1> DEFINE i == Loaded(inst[s], inst[s].version)
<1>1. /\ inst[s].told /\ inst' = [inst EXCEPT ![s] = i]
      /\ lost' = IF inst[s].version \in unwritten THEN lost ELSE lost \ {s}
      /\ UNCHANGED <<row, signalled, value, tokens, envs, minted, files, record, up, look, call, now, passed,
                     gone, events, faults, revoked, bared, unseen, unwritten>>
  BY DEF Load, stored, given, clock, bounds
<1>2. inst[s] \in Instance /\ inst \in [Slot -> Instance] /\ files \in [Version -> Item]
  BY DEF Inv, TypeOK
<1>3. inst[s].version \in Version
  <2>1. inst[s].version # 0
    BY <1>1, <1>2 DEF Inv, ToldRuns
  <2>2. QED
    BY <1>2, <2>1 DEF Instance
<1>4. files[inst[s].version] \in Item
  BY <1>2, <1>3
<1>5. /\ i \in Instance /\ i.version = inst[s].version /\ i.env = inst[s].env /\ i.told = FALSE
      /\ i.token = files[inst[s].version].token
  BY <1>2, <1>3, <1>4 DEF Loaded, Instance, Item
<1> HIDE DEF i
<1>6. /\ inst' \in [Slot -> Instance] /\ inst'[s] = i
      /\ \A q \in Slot : inst'[q].version = inst[q].version /\ inst'[q].env = inst[q].env
      /\ \A q \in Slot \ {s} : inst'[q] = inst[q]
  BY <1>1, <1>2, <1>5
<1>frame. UNCHANGED <<row, signalled, value, tokens, envs, minted, files, record, up, look, call, now, passed,
                     gone, events, faults, revoked, bared, unseen, unwritten>>
  BY <1>1
<1>7. Running' = Running /\ Running \subseteq Slot /\ \A v : Readers(v)' = Readers(v)
  BY <1>6 DEF Running, Readers
<1>8. TypeOK'
  <2>1. lost' \subseteq Slot
    BY <1>1 DEF Inv, TypeOK
  <2>2. QED
    BY <1>frame, <1>6, <2>1 DEF Inv, TypeOK
<1>9. CallOf' /\ EnvOwn' /\ RecordOf' /\ Numbered'
  BY <1>frame, <1>6, <1>7 DEF Inv, CallOf, EnvOwn, Filling, RecordOf, LookOf, Numbered
<1>10. /\ \A t, v, left : Lasts(t, v, left)' <=> Lasts(t, v, left)
       /\ \A t, v : Alive(t, v)' <=> Alive(t, v)
       /\ \A k : Ending(k)' <=> Ending(k)
       /\ \A v : Shared(v)' = Shared(v)
  BY <1>frame, SameTokens
<1>11. Unsignalled' /\ OthersEnd' /\ PassHolds'
  BY <1>frame, <1>10 DEF Inv, Unsignalled, OthersEnd, Minting, PassHolds
<1>12. UnwrittenLost'
  BY <1>1, <1>7 DEF Inv, UnwrittenLost, Readers
<1>13. ToldNow' /\ ToldRuns'
  BY <1>frame, <1>5, <1>6 DEF Inv, ToldNow, ToldRuns
<1>14. FileHolds'
  <2>1. \A q \in Slot : Reads(q)' => Reads(q)
    BY <1>1, <1>5, <1>6, <1>7, <1>frame DEF Reads
  <2>2. QED
    BY <1>frame, <1>10, <2>1 DEF Inv, FileHolds, Minting
<1>15. Holding'
  <2> SUFFICES ASSUME NEW q \in Readers(row.version) \ unseen, q \notin lost'
               PROVE  \/ inst'[q].token = files[row.version].token
                      \/ Replaced(q)' /\ Alive(inst'[q].token, row.version)
    BY <1>frame, <1>7, <1>10 DEF Holding
  <2>1. CASE q = s
    BY <1>5, <1>6, <2>1 DEF Readers
  <2>2. CASE q # s
    <3>1. q \notin lost /\ inst'[q] = inst[q]
      BY <1>1, <1>6, <2>2 DEF Readers
    <3>2. Replaced(q) => Replaced(q)'
      BY <1>frame, <3>1 DEF Replaced, Minting
    <3>3. QED
      BY <3>1, <3>2 DEF Inv, Holding
  <2>3. QED
    BY <2>1, <2>2
<1>16. QED
  BY <1>8, <1>9, <1>11, <1>12, <1>13, <1>14, <1>15 DEF Inv

\* A step after which some slots are empty, and nothing else of the instances has changed.
LEMMA Emptied ==
  ASSUME Inv, inst' \in [Slot -> Instance],
         \A s \in Slot : inst'[s] = inst[s] \/ inst'[s] = NoInst,
         UNCHANGED <<row, signalled, value, tokens, minted, files, record, now, gone, revoked, bared, unseen, unwritten, lost>>,
         TypeOK', CallOf', EnvOwn', PassHolds', look' = look, call'.new = call.new,
         call.pc \notin {"expire", "write"}, call'.pc \notin {"expire", "write"},
         call'.version = call.version, call'.pc # "idle" => call.pc # "idle",
         call'.pc \notin {"record", "run"},
         \A s \in Slot : inst'[s] = inst[s] /\ Replaced(s) => Replaced(s)'
  PROVE  Inv'
<1>1. /\ \A t, v, left : Lasts(t, v, left)' <=> Lasts(t, v, left)
      /\ \A t, v : Alive(t, v)' <=> Alive(t, v)
      /\ \A k : Ending(k)' <=> Ending(k)
      /\ \A v : Shared(v)' = Shared(v)
  BY SameTokens
<1>2. /\ Running' \subseteq Running /\ \A v \in Version : Readers(v)' \subseteq Readers(v)
      /\ \A s \in Running' : inst'[s] = inst[s]
      /\ \A v \in Version : \A s \in Readers(v)' : inst'[s] = inst[s]
      /\ row.version \in Version /\ 0 \notin Version
  <2>1. row.version \in Version /\ 0 \notin Version
    BY Numbers DEF Inv
  <2>2. QED
    BY <2>1, NoInstType DEF Running, Readers
<1>3. \A v : ~Minting(v) /\ ~Minting(v)'
  BY DEF Minting
<1>4. RecordOf'
  BY <1>2 DEF Inv, RecordOf, LookOf
<1>5. Numbered' /\ Unsignalled' /\ OthersEnd'
  BY <1>1, <1>3 DEF Inv, Numbered, Unsignalled, OthersEnd
<1>6. UnwrittenLost' /\ ToldNow' /\ ToldRuns'
  <2>1. UnwrittenLost'
    BY <1>2 DEF Inv, UnwrittenLost, TypeOK
  <2>2. ToldNow' /\ ToldRuns'
    BY NoInstType DEF Inv, ToldNow, ToldRuns
  <2>3. QED
    BY <2>1, <2>2
<1>7. FileHolds'
  <2>1. \A s \in Slot : Reads(s)' => Reads(s)
    BY <1>2 DEF Reads
  <2>2. QED
    BY <1>1, <1>3, <2>1 DEF Inv, FileHolds
<1>8. Holding'
  <2>1. \A s \in Readers(row.version)' : s \in Slot
    BY DEF Readers
  <2>2. QED
    BY <1>1, <1>2, <2>1 DEF Inv, Holding
<1>9. QED
  BY <1>4, <1>5, <1>6, <1>7, <1>8 DEF Inv

LEMMA ExitInv ==
  ASSUME Inv, NEW s \in Slot, Exit(s)
  PROVE  Inv'
<1>1. /\ s \in Running /\ inst' = [inst EXCEPT ![s] = NoInst]
      /\ UNCHANGED <<row, signalled, value, tokens, envs, minted, files, record, up, look, call, now, passed,
                     gone, faults, revoked, bared, unseen, unwritten, lost>>
      /\ events' \in 0..MaxEvents
  BY EventType DEF Inv, Exit, stored, given, clock, history
<1>2. inst \in [Slot -> Instance]
  BY DEF Inv, TypeOK
<1>3. /\ inst' \in [Slot -> Instance] /\ inst'[s] = NoInst
      /\ \A q \in Slot \ {s} : inst'[q] = inst[q]
  BY <1>1, <1>2, NoInstType
<1>frame. UNCHANGED <<row, signalled, value, tokens, envs, minted, files, record, up, look, call, now, passed,
                      gone, faults, revoked, bared, unseen, unwritten, lost>>
  BY <1>1
<1>4. TypeOK'
  BY <1>1, <1>3 DEF Inv, TypeOK
<1>5. Running' \subseteq Running /\ Running' \subseteq Slot /\ \A q \in Running' : inst'[q] = inst[q]
  BY <1>3, NoInstType DEF Running
<1>6. CallOf' /\ EnvOwn' /\ PassHolds'
  <2>1. CallOf' /\ EnvOwn'
    BY <1>frame, <1>5 DEF Inv, CallOf, EnvOwn, Filling
  <2>2. PassHolds'
    BY <1>frame, SameTokens DEF Inv, PassHolds
  <2>3. QED
    BY <2>1, <2>2
<1>7. /\ \A t, v, left : Lasts(t, v, left)' <=> Lasts(t, v, left)
      /\ \A t, v : Alive(t, v)' <=> Alive(t, v)
      /\ \A k : Ending(k)' <=> Ending(k)
      /\ \A v : Shared(v)' = Shared(v)
  BY <1>frame, SameTokens
<1>8. /\ \A v \in Version : Readers(v)' \subseteq Readers(v) \cap Slot
      /\ \A v \in Version : \A q \in Readers(v)' : inst'[q] = inst[q]
      /\ row.version \in Version /\ unwritten \subseteq Version
  <2>1. row.version \in Version /\ 0 \notin Version /\ unwritten \subseteq Version
    BY Numbers DEF Inv, TypeOK
  <2>2. QED
    BY <1>3, <2>1, NoInstType DEF Readers
<1>9. RecordOf' /\ Numbered' /\ Unsignalled' /\ OthersEnd'
  BY <1>frame, <1>5, <1>7, <1>8 DEF Inv, RecordOf, LookOf, Numbered, Unsignalled, OthersEnd, Minting
<1>10. UnwrittenLost'
  BY <1>frame, <1>8 DEF Inv, UnwrittenLost
<1>11. ToldNow' /\ ToldRuns'
  BY <1>frame, <1>3, NoInstType DEF Inv, ToldNow, ToldRuns
<1>12. FileHolds'
  BY <1>frame, <1>7, <1>8 DEF Inv, FileHolds, Reads, Minting
<1>13. Holding'
  BY <1>frame, <1>7, <1>8 DEF Inv, Holding, Replaced, Minting
<1>14. QED
  BY <1>4, <1>6, <1>9, <1>10, <1>11, <1>12, <1>13 DEF Inv

\* A suspended workload is stopped, or what it was given is taken back.
LEMMA ConvergeSuspendedInv ==
  ASSUME Inv, ConvergeSuspended
  PROVE  Inv'
<1>1. /\ call.pc = "idle" /\ look' = NoLook /\ call' = Idle /\ passed' = TRUE /\ gone' = 0
      /\ unseen' = unseen \cup {s \in Running : look.at[s] # inst[s].version}
      /\ UNCHANGED <<row, signalled, value, up, now, events, faults, revoked, bared, unwritten, lost, minted>>
  BY DEF ConvergeSuspended, Begins, At, Through, End, stored, bounds, given
<1>2. \A s \in Slot : /\ inst'[s] = inst[s] \/ inst'[s] = NoInst
                      /\ inst'[s].version # 0 => inst'[s] = inst[s] /\ s \in unseen'
  <2>1. CASE SeenRunning # {}
    BY <2>1, NoInstType DEF ConvergeSuspended
  <2>2. CASE SeenRunning = {}
    <3>1. inst' = inst /\ \A s \in Slot : look.at[s] = 0
      BY <2>2 DEF ConvergeSuspended, SeenRunning
    <3>2. QED
      BY <1>1, <3>1 DEF Running
  <2>3. QED
    BY <2>1, <2>2
<1>3. /\ \/ UNCHANGED <<tokens, envs, files, record>>
         \/ /\ files' = [v \in Version |-> Nothing] /\ record' = [v \in Version |-> Nothing]
            /\ tokens' = {} /\ envs' = [s \in Slot |-> 0]
  BY DEF ConvergeSuspended, given
<1>4. TypeOK'
  <2>1. /\ tokens' \subseteq Token /\ envs' \in [Slot -> Nat]
        /\ files' \in [Version -> Item] /\ record' \in [Version -> Item]
    BY <1>3 DEF Inv, TypeOK, Nothing, Item
  <2>2. inst' \in [Slot -> Instance] /\ unseen' \subseteq Slot
    <3>1. inst' = [s \in Slot |-> NoInst] \/ inst' = inst
      BY DEF ConvergeSuspended
    <3>2. QED
      BY <1>1, <3>1, NoInstType DEF Inv, TypeOK, Running
  <2>3. QED
    BY <1>1, <2>1, <2>2, IdleType, NoLookType DEF Inv, TypeOK
<1>5. /\ Running' \subseteq unseen' /\ Running' \subseteq Running /\ \A s \in Running' : inst'[s] = inst[s]
      /\ \A v \in Version : Readers(v)' \subseteq Readers(v) \cap unseen'
      /\ row.version \in Version /\ unwritten \subseteq Version /\ 0 \notin Version
  <2>1. row.version \in Version /\ 0 \notin Version /\ unwritten \subseteq Version
    BY Numbers DEF Inv, TypeOK
  <2>2. Running' \subseteq unseen' /\ Running' \subseteq Running /\ \A s \in Running' : inst'[s] = inst[s]
    BY <1>2 DEF Running
  <2>3. \A v \in Version : Readers(v)' \subseteq Readers(v) \cap unseen'
    BY <1>2, <2>1 DEF Readers
  <2>4. QED
    BY <2>1, <2>2, <2>3
<1>6. CallOf' /\ EnvOwn' /\ RecordOf'
  BY <1>1, <1>5, IdleType, NoLookType DEF Inv, CallOf, EnvOwn, Filling, RecordOf, LookOf
<1>7. tokens' \subseteq tokens
  BY <1>3
<1>8. Numbered' /\ Unsignalled' /\ PassHolds'
  <2>1. minted \in Nat
    BY DEF Inv, TypeOK
  <2>2. QED
    BY <1>1, <1>7, <2>1, IdleType DEF Inv, Numbered, Unsignalled, Ending, PassHolds
<1>9. OthersEnd'
  <2>1. \A v : ~Minting(v) /\ ~Minting(v)'
    BY <1>1, IdleType DEF Minting
  <2>2. CASE UNCHANGED <<tokens, envs, files, record>>
    BY <1>1, <2>1, <2>2, IdleType DEF Inv, OthersEnd, Shared, Ending
  <2>3. CASE tokens' = {}
    BY <1>1, <2>1, <2>3, IdleType DEF Inv, OthersEnd, Shared
  <2>4. QED
    BY <1>3, <2>2, <2>3
<1>10. UnwrittenLost' /\ FileHolds' /\ Holding'
  BY <1>1, <1>5 DEF Inv, UnwrittenLost, FileHolds, Reads, Holding
<1>11. ToldNow' /\ ToldRuns'
  BY <1>1, <1>2, NoInstType DEF Inv, ToldNow, ToldRuns
<1>12. QED
  BY <1>4, <1>6, <1>8, <1>9, <1>10, <1>11 DEF Inv

\* What a converge that begins knows: what it was given of the slots, but for the unseen.
LEMMA Begun ==
  ASSUME Inv, call.pc = "idle", up, look.is = "wanted", look' = NoLook,
         UNCHANGED <<row, signalled, value, envs, minted, inst, up, now, bared>>,
         unseen' = unseen \cup {s \in Running : look.at[s] # inst[s].version},
         \A s \in Running \ unseen' : record'[inst[s].version] = record[inst[s].version],
         call'.pc = "slot", call'.task = "none", call'.version = look.version, call'.slot = 1,
         call'.new = 0, call'.at = look.at
  PROVE  CallOf' /\ EnvOwn' /\ RecordOf'
<1>1. /\ look.version \in Version /\ look.version <= row.version
      /\ look.version # row.version => Readers(row.version) = {}
  BY DEF Inv, RecordOf, LookOf
<1>2. Running' = Running /\ \A v : Readers(v)' = Readers(v)
  BY DEF Running, Readers
<1>3. CallOf'
  BY <1>1 DEF CallOf
<1>4. EnvOwn'
  BY <1>2 DEF Inv, EnvOwn, Filling
<1>5. RecordOf'
  BY <1>1, <1>2, NoLookType DEF Inv, RecordOf, LookOf
<1>6. QED
  BY <1>3, <1>4, <1>5

LEMMA Reclaimed ==
  ASSUME Inv, call.pc = "idle", up, look.is = "wanted", look.version \in Version,
         0 \notin Version, row.version \in Version, look' = NoLook,
         look.version # row.version => Readers(row.version) = {},
         UNCHANGED <<row, signalled, value, envs, minted, inst, up, now, passed, gone, events, faults,
                     revoked, bared, unwritten, lost>>,
         unseen' = unseen \cup {s \in Running : look.at[s] # inst[s].version},
         tokens' \subseteq tokens, files' \in [Version -> Item], record' \in [Version -> Item],
         files'[look.version] = files[look.version], record'[look.version] = record[look.version],
         {k \in tokens' : k.version = look.version} = Shared(look.version),
         \A v \in Version \ {look.version} : Shared(v)' = {},
         \A s \in Running \ unseen' : inst[s].version = look.version,
         call' \in Call, call'.pc = "slot", call'.task = "none", call'.version = look.version,
         call'.slot = 1, call'.new = 0, call'.at = look.at
  PROVE  Inv'
<1>1. TypeOK'
  <2>1. unseen' \subseteq Slot
    BY DEF Inv, TypeOK, Running
  <2>2. QED
    BY <2>1, NoLookType DEF Inv, TypeOK
<1>2. minted \in Nat
  BY DEF Inv, TypeOK
<1>3. Running' = Running /\ (\A v : Readers(v)' = Readers(v)) /\ unwritten \subseteq Version
  BY DEF Inv, TypeOK, Running, Readers
<1>4. CallOf' /\ EnvOwn' /\ RecordOf'
  BY Begun
<1>5. \A k : Ending(k)' <=> Ending(k)
  BY DEF Ending
<1>6. Numbered' /\ Unsignalled' /\ PassHolds'
  BY <1>2, <1>5 DEF Inv, Numbered, Unsignalled, PassHolds
<1>7. \A v : ~Minting(v) /\ ~Minting(v)'
  BY DEF Minting
<1>8. OthersEnd'
  <2>1. \A v \in Version \ unwritten : \A k \in Shared(v)' : k.id = files'[v].token \/ Ending(k)
    <3> SUFFICES ASSUME NEW v \in Version \ unwritten
                 PROVE  \A k \in Shared(v)' : k.id = files'[v].token \/ Ending(k)
      OBVIOUS
    <3>1. CASE v = look.version
      <4>1. Shared(v)' = Shared(v) /\ files'[v] = files[v]
        BY <3>1 DEF Shared
      <4>2. QED
        BY <1>7, <4>1 DEF Inv, OthersEnd
    <3>2. CASE v # look.version
      BY <3>2
    <3>3. QED
      BY <3>1, <3>2
  <2>2. QED
    BY <1>5, <2>1 DEF OthersEnd
<1>9. UnwrittenLost' /\ ToldNow' /\ ToldRuns'
  BY <1>3 DEF Inv, UnwrittenLost, ToldNow, ToldRuns
<1>10. CASE look.version # row.version
  <2>1. Readers(row.version)' = {}
    BY <1>3, <1>10
  <2>2. FileHolds' /\ Holding'
    BY <2>1 DEF FileHolds, Reads, Holding
  <2>3. QED
    BY <1>1, <1>4, <1>6, <1>8, <1>9, <2>2 DEF Inv
<1>11. CASE look.version = row.version
  <2>1. \A t, left : /\ Lasts(t, row.version, left) => Lasts(t, row.version, left)'
                     /\ Alive(t, row.version) => Alive(t, row.version)'
    <3>1. \A k \in tokens : k.version = row.version => k \in tokens'
      BY <1>11 DEF Shared
    <3>2. QED
      BY <3>1 DEF Lasts, Alive
  <2>2. FileHolds'
    BY <1>3, <1>7, <1>11, <2>1 DEF Inv, FileHolds, Reads
  <2>3. \A s \in Slot : Replaced(s) => Replaced(s)'
    BY DEF Replaced, Minting
  <2>4. \A s \in Readers(row.version) : s \in Slot
    BY DEF Readers
  <2>5. Holding'
    BY <1>3, <1>11, <2>1, <2>3, <2>4 DEF Inv, Holding
  <2>6. QED
    BY <1>1, <1>4, <1>6, <1>8, <1>9, <2>2, <2>5 DEF Inv
<1>12. QED
  BY <1>10, <1>11

\* A converge begins; what it reclaims belongs to versions it has not seen to run.
LEMMA ConvergeInv ==
  ASSUME Inv, Converge
  PROVE  Inv'
<1>1. /\ call.pc = "idle" /\ up /\ look.is = "wanted" /\ look' = NoLook
      /\ unseen' = unseen \cup {s \in Running : look.at[s] # inst[s].version}
      /\ UNCHANGED <<row, signalled, value, envs, minted, inst, up, now, passed, gone, events, faults,
                     revoked, bared, unwritten, lost>>
  BY DEF Converge, Begins, At, stored, clock, bounds
<1>2. PICK held \in {FALSE, SeenReaders(look.version) # {}} :
        call' = [Idle EXCEPT !.pc = "slot", !.version = look.version, !.slot = 1, !.replaced = held,
                             !.at = look.at]
  BY DEF Converge
<1>3. /\ row.version \in Version /\ look.version \in Version /\ Version \subseteq Nat /\ 0 \notin Version
      /\ look.version # row.version => Readers(row.version) = {}
      /\ look.at \in [Slot -> Version \cup {0}]
  BY <1>1, Numbers DEF Inv, RecordOf, LookOf, TypeOK
<1>4. /\ call' \in Call /\ call'.pc = "slot" /\ call'.task = "none" /\ call'.version = look.version
      /\ call'.slot = 1 /\ call'.new = 0 /\ ~call'.up /\ call'.at = look.at
  <2>1. 1 \in 0..(MaxSlot + 1)
    BY MountsAssumption
  <2>2. held \in BOOLEAN
    OBVIOUS
  <2>3. QED
    BY <1>2, <1>3, <2>1, <2>2, IdleType DEF Call
<1>5. CASE Reclaims(look.version)
  <2>1. /\ tokens' = Shared(look.version)
        /\ files' = [v \in Version |-> IF v = look.version THEN files[v] ELSE Nothing]
        /\ record' = [v \in Version |-> IF v = look.version THEN record[v] ELSE Nothing]
    BY <1>5 DEF Converge
  <2>2. /\ tokens' \subseteq tokens /\ files' \in [Version -> Item] /\ record' \in [Version -> Item]
        /\ files'[look.version] = files[look.version] /\ record'[look.version] = record[look.version]
    BY <1>3, <2>1 DEF Inv, TypeOK, Shared, Nothing, Item
  <2>3. /\ {k \in tokens' : k.version = look.version} = Shared(look.version)
        /\ \A v \in Version \ {look.version} : Shared(v)' = {}
    BY <2>1 DEF Shared
  <2>4. \A s \in Running \ unseen' : inst[s].version = look.version
    <3>1. \A s \in Running \ unseen' : s \in Slot /\ look.at[s] = inst[s].version /\ inst[s].version # 0
      BY <1>1 DEF Running
    <3>2. QED
      BY <1>5, <3>1 DEF Reclaims, SeenRunning, SeenReaders
  <2>5. QED
    BY <1>3, <2>2, <2>3, <2>4, <1>1, <1>4, Reclaimed
<1>6. CASE ~Reclaims(look.version)
  <2>1. UNCHANGED <<tokens, files, record>>
    BY <1>6 DEF Converge
  <2>2. TypeOK'
    <3>1. unseen' \subseteq Slot
      BY <1>1 DEF Inv, TypeOK, Running
    <3>2. QED
      BY <1>1, <1>4, <2>1, <3>1, NoLookType DEF Inv, TypeOK
  <2>3. CallOf' /\ EnvOwn' /\ RecordOf'
    BY <1>1, <1>4, <2>1, Begun
  <2>4. PassHolds' /\ call'.new <= minted
    <3>1. minted \in Nat
      BY DEF Inv, TypeOK
    <3>2. QED
      BY <1>1, <1>4, <3>1 DEF PassHolds
  <2>5. \A s \in Slot : Replaced(s) => Replaced(s)'
    BY <1>1 DEF Replaced, Minting
  <2>6. QED
    BY <1>1, <1>4, <2>1, <2>2, <2>3, <2>4, <2>5, CallStep
<1>7. QED
  BY <1>5, <1>6

\* A stale instance, or one of this version, is left up.
LEMMA SlotUpInv ==
  ASSUME Inv, SlotUp
  PROVE  Inv'
<1>1. /\ call.pc = "slot" /\ up /\ call.slot \in Slot
      /\ call' = [call EXCEPT !.slot = @ + 1, !.up = TRUE]
      /\ UNCHANGED <<row, signalled, value, tokens, envs, minted, files, record, inst, up, look, now, passed,
                     gone, events, faults, revoked, bared, unseen, unwritten, lost>>
  BY DEF SlotUp, At, stored, given, clock, bounds, history
<1>2. call \in Call /\ call.slot \in 1..MaxSlot /\ call.slot + 1 \in 0..(MaxSlot + 1)
  <2>1. call \in Call /\ call.slot \in 1..MaxSlot
    BY <1>1 DEF Inv, TypeOK, Slot
  <2>2. QED
    BY <2>1, MountsAssumption
<1>3. /\ call' \in Call /\ call'.pc = "slot" /\ call'.task = call.task /\ call'.version = call.version
      /\ call'.slot = call.slot + 1 /\ call'.new = call.new /\ call'.value = call.value /\ call'.up /\ call'.at = call.at
  BY <1>1, <1>2 DEF Call
<1>frame. UNCHANGED <<row, signalled, value, tokens, envs, minted, files, record, inst, up, look, now, passed,
                     gone, events, faults, revoked, bared, unseen, unwritten, lost>>
  BY <1>1
<1>4. TypeOK'
  BY <1>frame, <1>3 DEF Inv, TypeOK
<1>5. CallOf' /\ EnvOwn' /\ RecordOf' /\ PassHolds' /\ call'.new <= minted
  <2>1. call'.slot # 0
    BY <1>2, <1>3
  <2>2. EnvOwn'
    <3>1. \A s \in Slot : s > call.slot + 1 \/ s = call.slot + 1 => s > call.slot
      BY <1>2 DEF Slot
    <3>2. Running \subseteq Slot /\ Running' = Running
      BY <1>frame DEF Running
    <3>3. call.task = "none" /\ call'.task = "none"
      BY <1>1, <1>3 DEF Inv, CallOf
    <3>4. QED
      BY <1>1, <1>3, <1>frame, <3>1, <3>2, <3>3 DEF Inv, EnvOwn, Filling
  <2>3. QED
    BY <1>1, <1>3, <1>frame, <2>1, <2>2 DEF Inv, CallOf, Running, RecordOf, LookOf, Readers, PassHolds, Numbered
<1>6. \A s \in Slot : Replaced(s) => Replaced(s)'
  BY <1>1, <1>3 DEF Replaced, Minting
<1>7. QED
  BY <1>1, <1>3, <1>4, <1>5, <1>6, CallStep

LEMMA SlotStopInv ==
  ASSUME Inv, SlotStop
  PROVE  Inv'
<1>1. /\ call.pc = "slot" /\ up /\ call.slot \in Slot
      /\ inst' = [inst EXCEPT ![call.slot] = NoInst]
      /\ envs' = [envs EXCEPT ![call.slot] = 0]
      /\ call' = [call EXCEPT !.pc = "env", !.replaced = TRUE]
      /\ UNCHANGED <<row, signalled, value, tokens, minted, files, record, up, look, now, passed,
                     gone, events, faults, revoked, bared, unseen, unwritten, lost>>
  BY DEF SlotStop, At, Replaces, stored, clock, bounds, history
<1>2. call \in Call /\ call.slot \in Slot /\ inst \in [Slot -> Instance] /\ envs \in [Slot -> Nat]
  BY <1>1 DEF Inv, TypeOK
<1>3. /\ call' \in Call /\ call'.pc = "env" /\ call'.task = call.task /\ call'.version = call.version
      /\ call'.slot = call.slot /\ call'.new = call.new /\ call'.value = call.value /\ call'.up = call.up /\ call'.at = call.at
  BY <1>1, <1>2 DEF Call
<1>4. /\ inst' \in [Slot -> Instance] /\ inst'[call.slot] = NoInst
      /\ \A q \in Slot \ {call.slot} : inst'[q] = inst[q] /\ envs'[q] = envs[q]
      /\ envs' \in [Slot -> Nat]
  BY <1>1, <1>2, NoInstType
<1>frame. UNCHANGED <<row, signalled, value, tokens, minted, files, record, up, look, now, passed,
                     gone, events, faults, revoked, bared, unseen, unwritten, lost>>
  BY <1>1
<1>5. TypeOK'
  BY <1>frame, <1>3, <1>4 DEF Inv, TypeOK
<1>6. Running' = Running \ {call.slot} /\ Running \subseteq Slot
  BY <1>4, NoInstType DEF Running
<1>7. CallOf' /\ EnvOwn'
  BY <1>1, <1>2, <1>3, <1>4, <1>6, <1>frame DEF Inv, CallOf, EnvOwn, Filling
<1>8. PassHolds'
  BY <1>1, <1>3, <1>frame, SameTokens DEF Inv, PassHolds
<1>9. \A s \in Slot : inst'[s] = inst[s] /\ Replaced(s) => Replaced(s)'
  BY <1>1, <1>3 DEF Replaced, Minting
<1>10. \A s \in Slot : inst'[s] = inst[s] \/ inst'[s] = NoInst
  BY <1>4
<1>11. QED
  BY <1>1, <1>3, <1>4, <1>5, <1>7, <1>8, <1>9, <1>10, Emptied

\* The statements of a converge that touch neither token nor file.
LEMMA SlotEmptyInv ==
  ASSUME Inv, SlotEmpty
  PROVE  Inv'
<1>1. /\ call.pc = "slot" /\ up /\ call.slot \in Slot /\ call.at[call.slot] = 0
      /\ call' = [call EXCEPT !.pc = "env"]
      /\ UNCHANGED <<row, signalled, value, tokens, envs, minted, files, record, inst, up, look, now, passed,
                     gone, events, faults, revoked, bared, unseen, unwritten, lost>>
  BY DEF SlotEmpty, At, stored, given, clock, bounds, history
<1>2. call \in Call
  BY DEF Inv, TypeOK
<1>3. /\ call' \in Call /\ call'.pc = "env" /\ call'.task = call.task /\ call'.version = call.version
      /\ call'.slot = call.slot /\ call'.new = call.new /\ call'.value = call.value /\ call'.up = call.up /\ call'.at = call.at
  BY <1>1, <1>2 DEF Call
<1>frame. UNCHANGED <<row, signalled, value, tokens, envs, minted, files, record, inst, up, look, now, passed,
                     gone, events, faults, revoked, bared, unseen, unwritten, lost>>
  BY <1>1
<1>4. TypeOK'
  BY <1>frame, <1>3 DEF Inv, TypeOK
<1>5. CallOf' /\ EnvOwn' /\ RecordOf' /\ call'.new <= minted
  BY <1>1, <1>3, <1>frame DEF Inv, CallOf, EnvOwn, Filling, Running, RecordOf, LookOf, Readers, Numbered
<1>6. PassHolds'
  BY <1>1, <1>3, <1>frame, SameTokens DEF Inv, PassHolds
<1>7. \A s \in Slot : Replaced(s) => Replaced(s)'
  BY <1>1, <1>3 DEF Replaced, Minting
<1>8. QED
  BY <1>1, <1>3, <1>4, <1>5, <1>6, <1>7, CallStep

LEMMA MintInstanceTokenInv ==
  ASSUME Inv, MintInstanceToken
  PROVE  Inv'
<1>1. /\ call.pc = "env" /\ up
      /\ envs' = [envs EXCEPT ![call.slot] = IF @ = 1 THEN 2 ELSE 1]
      /\ call' = [call EXCEPT !.pc = "token", !.task = "deliver"]
      /\ UNCHANGED <<row, signalled, value, tokens, minted, files, record, inst, up, look, now, passed,
                     gone, events, faults, revoked, bared, unseen, unwritten, lost>>
  BY DEF MintInstanceToken, At, stored, clock, bounds, history
<1>2. call \in Call /\ envs \in [Slot -> Nat] /\ call.slot \in Slot /\ call.slot \notin Running \ unseen
  BY <1>1 DEF Inv, TypeOK, EnvOwn, Filling
<1>3. /\ call' \in Call /\ call'.pc = "token" /\ call'.task = "deliver" /\ call'.version = call.version
      /\ call'.slot = call.slot /\ call'.new = call.new /\ call'.value = call.value /\ call'.up = call.up /\ call'.at = call.at
  BY <1>1, <1>2 DEF Call
<1>4. /\ envs' \in [Slot -> Nat] /\ envs'[call.slot] # 0
      /\ \A q \in Slot \ {call.slot} : envs'[q] = envs[q]
  BY <1>1, <1>2
<1>frame. UNCHANGED <<row, signalled, value, tokens, minted, files, record, inst, up, look, now, passed,
                     gone, events, faults, revoked, bared, unseen, unwritten, lost>>
  BY <1>1
<1>5. TypeOK'
  BY <1>frame, <1>3, <1>4 DEF Inv, TypeOK
<1>6. CallOf' /\ EnvOwn' /\ RecordOf' /\ call'.new <= minted
  BY <1>1, <1>2, <1>3, <1>4, <1>frame DEF Inv, CallOf, EnvOwn, Filling, Running, RecordOf, LookOf, Readers, Numbered
<1>7. PassHolds'
  BY <1>1, <1>3, <1>frame, SameTokens DEF Inv, PassHolds
<1>8. \A s \in Slot : Replaced(s) => Replaced(s)'
  BY <1>1, <1>3 DEF Replaced, Minting
<1>9. QED
  BY <1>1, <1>3, <1>5, <1>6, <1>7, <1>8, CallStep

\* The fresh token of a version whose newest reached the file is the one in the file.
LEMMA FreshLasts ==
  ASSUME Inv, NEW v \in Version \ unwritten, ~Minting(v), Fresh(v)
  PROVE  Lasts(files[v].token, v, Margin)
<1>1. PICK k \in Shared(v) : k.expires = Never \/ k.expires - now > Margin
  BY DEF Fresh
<1>2. now \in Nat /\ k \in tokens /\ k.version = v /\ k.expires \in Int
  BY Numbers DEF Inv, Shared
<1>3. ~Ending(k)
  BY <1>1, <1>2, MarginFacts DEF Ending
<1>4. k.id = files[v].token
  BY <1>3 DEF Inv, OthersEnd
<1>5. k.expires = Never \/ signalled
  BY <1>2, <1>3 DEF Inv, Unsignalled
<1>6. k.expires = Never \/ (signalled /\ k.expires > now /\ k.expires > now + Margin)
  BY <1>1, <1>2, <1>5, MarginFacts
<1>7. QED
  BY <1>2, <1>4, <1>6 DEF Lasts

LEMMA KeepTokenInv ==
  ASSUME Inv, KeepToken
  PROVE  Inv'
<1>1. /\ call.pc = "token" /\ up /\ Fresh(call.version)
      /\ call' = [call EXCEPT !.pc = "value", !.new = 0]
      /\ UNCHANGED <<row, signalled, value, tokens, envs, minted, files, record, inst, up, look, now, passed,
                     gone, events, faults, revoked, bared, unseen, unwritten, lost>>
  BY DEF KeepToken, Keeps, At, stored, given, clock, bounds, history
<1>2. call \in Call /\ minted \in Nat
  BY DEF Inv, TypeOK
<1>3. /\ call' \in Call /\ call'.pc = "value" /\ call'.task = call.task /\ call'.version = call.version
      /\ call'.slot = call.slot /\ call'.new = 0 /\ call'.value = call.value /\ call'.up = call.up /\ call'.at = call.at
  BY <1>1, <1>2 DEF Call
<1>frame. UNCHANGED <<row, signalled, value, tokens, envs, minted, files, record, inst, up, look, now, passed,
                     gone, events, faults, revoked, bared, unseen, unwritten, lost>>
  BY <1>1
<1>4. TypeOK'
  BY <1>frame, <1>3 DEF Inv, TypeOK
<1>5. CallOf' /\ EnvOwn' /\ RecordOf' /\ call'.new <= minted
  BY <1>1, <1>2, <1>3, <1>frame DEF Inv, CallOf, EnvOwn, Filling, Running, RecordOf, LookOf, Readers
<1>6. PassHolds'
  <2>1. ASSUME call.version \in Version \ unwritten
        PROVE  Lasts(files[call.version].token, call.version, Margin)
    BY <1>1, <2>1, FreshLasts DEF Minting
  <2>2. QED
    BY <1>3, <1>frame, <2>1, SameTokens DEF PassHolds
<1>7. \A s \in Slot : Replaced(s) => Replaced(s)'
  BY <1>1 DEF Replaced, Minting
<1>8. QED
  BY <1>1, <1>3, <1>4, <1>5, <1>6, <1>7, CallStep

LEMMA RecordInv ==
  ASSUME Inv, Record
  PROVE  Inv'
<1> DEFINE x == Recorded(record[call.version])
<1>1. /\ call.pc = "record" /\ up
      /\ record' = [record EXCEPT ![call.version] = x]
      /\ call' = [call EXCEPT !.pc = IF call.task = "deliver" THEN "run" ELSE "signal"]
      /\ UNCHANGED <<row, signalled, value, tokens, envs, minted, files, inst, up, look, now, passed,
                     gone, events, faults, revoked, bared, unseen, unwritten, lost>>
  BY DEF Record, At, stored, clock, bounds, history
<1>2. call \in Call /\ record \in [Version -> Item] /\ call.version \in Version /\ call.value # 0
  BY <1>1 DEF Inv, TypeOK, CallOf, RecordOf
<1>3. /\ call' \in Call /\ call'.task = call.task /\ call'.version = call.version
      /\ call'.slot = call.slot /\ call'.new = call.new /\ call'.value = call.value /\ call'.up = call.up /\ call'.at = call.at
      /\ call'.pc = IF call.task = "deliver" THEN "run" ELSE "signal"
  BY <1>1, <1>2 DEF Call
<1>4. x \in Item /\ x.value # 0
  <2>1. record[call.version] \in Item
    BY <1>2
  <2>2. QED
    BY <1>2, <2>1 DEF Recorded, Item, Call
<1> HIDE DEF x
<1>5. /\ record' \in [Version -> Item] /\ record'[call.version].value # 0
      /\ \A v \in Version \ {call.version} : record'[v] = record[v]
  BY <1>1, <1>2, <1>4
<1>frame. UNCHANGED <<row, signalled, value, tokens, envs, minted, files, inst, up, look, now, passed,
                     gone, events, faults, revoked, bared, unseen, unwritten, lost>>
  BY <1>1
<1>6. TypeOK'
  BY <1>frame, <1>3, <1>5 DEF Inv, TypeOK
<1>7. CallOf' /\ EnvOwn' /\ call'.new <= minted
  <2>1. call.task \in {"deliver", "refresh"}
    BY <1>1, <1>2 DEF Inv, CallOf, Call
  <2>2. CallOf'
    BY <1>1, <1>3, <1>frame, <2>1 DEF Inv, CallOf
  <2>3. EnvOwn' /\ call'.new <= minted
    BY <1>1, <1>3, <1>frame, <2>1 DEF Inv, EnvOwn, Filling, Running, Numbered
  <2>4. QED
    BY <2>2, <2>3
<1>8. RecordOf'
  <2>1. \A s \in Running : inst[s].version \in Version
    BY DEF Inv, TypeOK, Instance, Running
  <2>2. \A s \in Running \ unseen : record'[inst[s].version].value # 0
    BY <1>5, <2>1 DEF Inv, RecordOf
  <2>3. QED
    BY <1>1, <1>3, <1>5, <1>frame, <2>2 DEF Inv, RecordOf, LookOf, Running, Readers
<1>9. PassHolds'
  BY <1>1, <1>3, <1>frame, SameTokens DEF Inv, PassHolds
<1>10. \A s \in Slot : Replaced(s) => Replaced(s)'
  BY <1>1, <1>3, <1>frame DEF Replaced, Minting
<1>11. QED
  BY <1>1, <1>3, <1>6, <1>7, <1>8, <1>9, <1>10, CallStep

\* The refresh of what is up, or the end of a pass that has nothing to refresh.
LEMMA RefreshBeginInv ==
  ASSUME Inv, RefreshBegin
  PROVE  Inv'
<1>1. /\ call.pc = "slot" /\ up /\ call.slot \notin Slot
      /\ UNCHANGED <<row, signalled, value, tokens, envs, minted, files, record, inst, up, look, now,
                     events, faults, revoked, bared, unseen, unwritten, lost>>
  BY DEF RefreshBegin, At, stored, given, bounds, history
<1>2. CASE Refreshes(call)
  <2>1. UNCHANGED <<passed, gone>> /\ call' = [call EXCEPT !.pc = "token", !.task = "refresh", !.at = Idle.at]
    BY <1>2 DEF RefreshBegin
  <2>2. call \in Call
    BY DEF Inv, TypeOK
  <2>3. /\ call' \in Call /\ call'.pc = "token" /\ call'.task = "refresh" /\ call'.version = call.version
        /\ call'.slot = call.slot /\ call'.new = call.new /\ call'.value = call.value
    BY <2>1, <2>2, IdleType DEF Call
  <2>4. TypeOK'
    BY <1>1, <2>1, <2>3 DEF Inv, TypeOK
  <2>5. CallOf' /\ EnvOwn' /\ RecordOf' /\ PassHolds' /\ call'.new <= minted
    BY <1>1, <2>1, <2>3 DEF Inv, CallOf, EnvOwn, Filling, Running, RecordOf, LookOf, Readers, PassHolds, Numbered
  <2>6. \A s \in Slot : Replaced(s) => Replaced(s)'
    BY <1>1 DEF Replaced, Minting
  <2>7. QED
    BY <1>1, <2>1, <2>3, <2>4, <2>5, <2>6, CallStep
<1>3. CASE ~Refreshes(call)
  <2>1. call' = Idle /\ passed' = TRUE /\ gone' = 0
    BY <1>3 DEF RefreshBegin, Through, End
  <2>2. TypeOK' /\ ToldRuns'
    <3>1. TypeOK'
      BY <1>1, <2>1, IdleType DEF Inv, TypeOK
    <3>2. ToldRuns'
      BY <1>1 DEF Inv, ToldRuns
    <3>3. QED
      BY <3>1, <3>2
  <2>3. UNCHANGED <<stored, given, look, now, revoked, bared, unseen, unwritten>> /\ \A v : Readers(v)' = Readers(v)
    BY <1>1 DEF stored, given, Readers
  <2>4. ASSUME NEW s \in Slot, Reads(s)', row.version \notin unwritten
        PROVE  Lasts(files[row.version].token, row.version, Margin)
    <3> Reads(s) /\ s \in Readers(row.version) \ unseen
      BY <1>1, <2>4 DEF Reads, Readers
    <3>1. row.version \in Version /\ s \in Running /\ s \in Slot
      BY Numbers DEF Inv, Readers, Running
    <3>2. call.version = row.version
      BY <1>1, <2>4 DEF Inv, RecordOf
    <3>3. record[call.version] # Nothing
      BY <3>1, <3>2 DEF Inv, RecordOf, LookOf, Readers, Nothing
    <3>4. ~call.up \/ ~signalled
      BY <1>3, <3>3 DEF Refreshes
    <3>5. CASE ~call.up
      <4>1. call.slot > 1
        <5>1. call.slot \in 0..(MaxSlot + 1) /\ call.slot # 0
          BY <1>1 DEF Inv, TypeOK, Call, CallOf
        <5>2. QED
          BY <1>1, <5>1, MountsAssumption DEF Slot
      <4>2. QED
        BY <1>1, <2>4, <3>1, <3>2, <3>5, <4>1 DEF Inv, PassHolds
    <3>6. CASE ~signalled
      <4>1. Lasts(files[row.version].token, row.version, Margin - gone)
        BY <1>1, <2>4 DEF Inv, FileHolds, Minting
      <4>2. QED
        BY <3>6, <4>1 DEF Lasts
    <3>7. QED
      BY <3>4, <3>5, <3>6
  <2>5. \A s \in Readers(row.version) \ (lost' \cup unseen) :
           \/ inst'[s].token = files[row.version].token
           \/ inst'[s].told /\ Alive(inst'[s].token, row.version)
    BY <1>1 DEF Inv, Holding, Replaced, Minting
  <2>6. QED
    BY <1>1, <2>1, <2>2, <2>3, <2>4, <2>5, GotThrough DEF Inv, UnwrittenLost
<1>4. QED
  BY <1>2, <1>3

\* A new token is recorded; nothing is done yet to the one it replaces.
LEMMA MintWorkloadTokenInv ==
  ASSUME Inv, MintWorkloadToken
  PROVE  Inv'
<1> DEFINE k == Created(call.version)
<1>1. /\ call.pc = "token" /\ up
      /\ tokens' = tokens \cup {k} /\ minted' = minted + 1
      /\ call' = [call EXCEPT !.pc = "expire", !.new = minted + 1]
      /\ UNCHANGED <<row, signalled, value, envs, files, record, inst, up, look, now, passed,
                     gone, events, faults, revoked, bared, unseen, unwritten, lost>>
  BY DEF MintWorkloadToken, At, stored, clock, bounds, history
<1>2. /\ call \in Call /\ minted \in Nat /\ call.version \in Version /\ now \in Nat
      /\ signalled \in BOOLEAN
  BY <1>1, Numbers DEF Inv, TypeOK, CallOf
<1>3. /\ call' \in Call /\ call'.pc = "expire" /\ call'.task = call.task /\ call'.version = call.version
      /\ call'.slot = call.slot /\ call'.new = minted + 1 /\ call'.value = call.value /\ call'.up = call.up /\ call'.at = call.at
  <2>1. minted + 1 \in Nat
    BY <1>2
  <2>2. QED
    BY <1>1, <1>2, <2>1 DEF Call
<1>4. /\ k \in Token /\ k.id = minted + 1 /\ k.version = call.version
      /\ k.expires = IF signalled THEN now + TTL ELSE Never
  BY <1>2, MarginFacts DEF Created, Token
<1> HIDE DEF k
<1>frame. UNCHANGED <<row, signalled, value, envs, files, record, inst, up, look, now, passed,
                     gone, events, faults, revoked, bared, unseen, unwritten, lost>>
  BY <1>1
<1>5. TypeOK'
  <2>1. minted' \in Nat /\ tokens' \subseteq Token
    BY <1>1, <1>2, <1>4 DEF Inv, TypeOK
  <2>2. QED
    BY <1>frame, <1>3, <2>1 DEF Inv, TypeOK
<1>6. CallOf' /\ EnvOwn' /\ RecordOf'
  <2>1. call'.new # 0
    BY <1>2, <1>3
  <2>2. QED
    BY <1>1, <1>2, <1>3, <1>frame, <2>1 DEF Inv, CallOf, EnvOwn, Filling, Running, RecordOf, LookOf, Readers
<1>7. Numbered'
  <2>1. \A x \in tokens : x.id \in 1..minted'
    BY <1>1, <1>2 DEF Inv, Numbered
  <2>2. k.id \in 1..minted' /\ call'.new <= minted'
    BY <1>1, <1>2, <1>3, <1>4
  <2>3. QED
    BY <1>1, <2>1, <2>2 DEF Numbered
<1>8. Unsignalled'
  BY <1>1, <1>4, <1>frame DEF Inv, Unsignalled, Ending
<1>9. \A t, v, left : (Lasts(t, v, left) => Lasts(t, v, left)') /\ (Alive(t, v) => Alive(t, v)')
  BY <1>1, LastsKept
<1>10. Lasts(call.new, call.version, Margin)'
  <2>1. k.expires = Never \/ (signalled /\ k.expires > now /\ k.expires > now + Margin)
    BY <1>2, <1>4, MarginFacts
  <2>2. k \in tokens' /\ k.id = call'.new /\ k.version = call'.version
    BY <1>1, <1>3, <1>4
  <2>3. QED
    BY <1>frame, <2>1, <2>2 DEF Lasts
<1>11. OthersEnd'
  <2>1. \A v \in Version \ {call.version} : Shared(v)' = Shared(v) /\ ~Minting(v)
    BY <1>1, <1>4 DEF Shared, Minting
  <2>2. Minting(call.version)'
    BY <1>3 DEF Minting
  <2>3. \A x : Ending(x)' <=> Ending(x)
    BY <1>frame DEF Ending
  <2>4. \A v \in Version \ unwritten' : Minting(v)' \/
          \A x \in Shared(v)' : x.id = files'[v].token \/ Ending(x)'
    BY <1>3, <1>frame, <2>1, <2>2, <2>3 DEF Inv, OthersEnd, Minting
  <2>5. QED
    BY <1>3, <1>10, <2>4 DEF OthersEnd
<1>12. UnwrittenLost' /\ ToldNow' /\ ToldRuns' /\ PassHolds'
  BY <1>3, <1>frame DEF Inv, UnwrittenLost, Readers, ToldNow, ToldRuns, PassHolds
<1>13. FileHolds'
  <2>1. \A s \in Slot : Reads(s)' => Reads(s)
    BY <1>frame DEF Reads, Readers
  <2>2. ~Minting(row.version)
    BY <1>1 DEF Minting
  <2>3. QED
    BY <1>frame, <1>9, <2>1, <2>2 DEF Inv, FileHolds
<1>14. Holding'
  <2>1. \A s \in Slot : Replaced(s) => Replaced(s)'
    BY <1>1, <1>frame DEF Replaced, Minting
  <2>2. \A s \in Readers(row.version) : s \in Slot
    BY DEF Readers
  <2>3. QED
    BY <1>9, <1>frame, <2>1, <2>2 DEF Inv, Holding, Readers
<1>15. QED
  BY <1>5, <1>6, <1>7, <1>8, <1>11, <1>12, <1>13, <1>14 DEF Inv

\* The tokens it replaces are left their grace.
LEMMA ExpireOthersInv ==
  ASSUME Inv, ExpireOthers
  PROVE  Inv'
<1> DEFINE short(k) == k.version # call.version \/ k.id = call.new
                         \/ (k.expires # Never /\ k.expires <= now + Grace)
           cut(k) == IF short(k) THEN k ELSE [k EXCEPT !.expires = now + Grace]
<1>1. /\ call.pc = "expire" /\ up
      /\ tokens' = {cut(k) : k \in tokens}
      /\ call' = [call EXCEPT !.pc = "write"]
      /\ UNCHANGED <<row, signalled, value, envs, minted, files, record, inst, up, look, now, passed,
                     gone, events, faults, revoked, bared, unseen, unwritten, lost>>
  BY DEF ExpireOthers, ExpireMinted, At, stored, clock, bounds, history
<1>2. /\ call \in Call /\ call.version \in Version /\ now \in Nat
      /\ \A k \in tokens : k \in Token /\ k.id \in Nat /\ k.expires \in Int
  BY <1>1, Numbers DEF Inv, TypeOK, CallOf
<1>3. /\ call' \in Call /\ call'.pc = "write" /\ call'.task = call.task /\ call'.version = call.version
      /\ call'.slot = call.slot /\ call'.new = call.new /\ call'.value = call.value /\ call'.up = call.up /\ call'.at = call.at
  BY <1>1, <1>2 DEF Call
<1>4. \A k \in tokens :
        /\ cut(k) \in Token /\ cut(k).id = k.id /\ cut(k).version = k.version
        /\ cut(k) = k \/ (cut(k).expires = now + 1 /\ (k.expires = Never \/ k.expires > now + 1))
        /\ k.version # call.version \/ k.id = call.new => cut(k) = k
        /\ k.version = call.version => k.id = call.new \/ Ending(cut(k))
  <2> SUFFICES ASSUME NEW k \in tokens
               PROVE  /\ cut(k) \in Token /\ cut(k).id = k.id /\ cut(k).version = k.version
                      /\ cut(k) = k \/ (cut(k).expires = now + 1 /\ (k.expires = Never \/ k.expires > now + 1))
                      /\ k.version # call.version \/ k.id = call.new => cut(k) = k
                      /\ k.version = call.version => k.id = call.new \/ Ending(cut(k))
    OBVIOUS
  <2>1. CASE short(k)
    BY <1>2, <2>1, MarginFacts DEF Ending
  <2>2. CASE ~short(k)
    <3> DEFINE x == [k EXCEPT !.expires = now + Grace]
    <3>1. x \in Token /\ x.id = k.id /\ x.version = k.version /\ x.expires = now + 1
      BY <1>2, MarginFacts DEF Token
    <3>2. cut(k) = x
      BY <2>2
    <3>3. k.expires = Never \/ k.expires > now + 1
      BY <1>2, <2>2, MarginFacts
    <3>4. Ending(x)
      BY <1>2, <3>1, MarginFacts DEF Ending
    <3> HIDE DEF x
    <3>5. QED
      BY <2>2, <3>1, <3>2, <3>3, <3>4
  <2>3. QED
    BY <2>1, <2>2
<1> HIDE DEF cut
<1>frame. UNCHANGED <<row, signalled, value, envs, minted, files, record, inst, up, look, now, passed,
                     gone, events, faults, revoked, bared, unseen, unwritten, lost>>
  BY <1>1
<1>5. /\ \A x \in tokens' : \E k \in tokens : x = cut(k)
      /\ \A k \in tokens : cut(k) \in tokens'
  BY <1>1
<1>6. TypeOK'
  <2>1. tokens' \subseteq Token
    BY <1>4, <1>5
  <2>2. QED
    BY <1>frame, <1>3, <2>1 DEF Inv, TypeOK
<1>7. CallOf' /\ EnvOwn' /\ RecordOf' /\ Numbered'
  <2>1. CallOf' /\ EnvOwn' /\ RecordOf'
    BY <1>1, <1>3, <1>frame DEF Inv, CallOf, EnvOwn, Filling, Running, RecordOf, LookOf, Readers
  <2>2. Numbered'
    BY <1>3, <1>4, <1>5, <1>frame DEF Inv, Numbered
  <2>3. QED
    BY <2>1, <2>2
<1>8. \A x : Ending(x)' <=> Ending(x)
  BY <1>frame DEF Ending
<1>9. \A k \in tokens : (k.expires = Never \/ Ending(k)) => (cut(k).expires = Never \/ Ending(cut(k)))
  BY <1>2, <1>4, MarginFacts DEF Ending
<1>10. Unsignalled'
  BY <1>5, <1>8, <1>9, <1>frame DEF Inv, Unsignalled
<1>11. \A t, v : Alive(t, v) => Alive(t, v)'
  <2> SUFFICES ASSUME NEW t, NEW v, Alive(t, v), t \notin revoked
               PROVE  Alive(t, v)'
    BY <1>frame DEF Alive
  <2>1. PICK k \in tokens : k.id = t /\ k.version = v /\ (k.expires = Never \/ k.expires > now)
    BY DEF Alive
  <2>2. cut(k).expires = Never \/ cut(k).expires > now
    BY <1>2, <1>4, <2>1
  <2>3. QED
    BY <1>4, <1>5, <1>frame, <2>1, <2>2 DEF Alive
<1>12. \A t, v, left : (v # call.version \/ t = call.new) => (Lasts(t, v, left) => Lasts(t, v, left)')
  <2> SUFFICES ASSUME NEW t, NEW v, NEW left, v # call.version \/ t = call.new,
                      Lasts(t, v, left), t \notin revoked
               PROVE  Lasts(t, v, left)'
    BY <1>frame DEF Lasts
  <2>1. PICK k \in tokens : k.id = t /\ k.version = v /\
            (k.expires = Never \/ (signalled /\ k.expires > now /\ k.expires > now + left))
    BY DEF Lasts
  <2>2. cut(k) = k
    BY <1>4, <2>1
  <2>3. QED
    BY <1>5, <1>frame, <2>1, <2>2 DEF Lasts
<1>13. OthersEnd'
  <2>1. \A v \in Version \ {call.version} : Shared(v)' = Shared(v)
    BY <1>4, <1>5 DEF Shared
  <2>2. \A v \in Version \ {call.version} : ~Minting(v)
    BY DEF Minting
  <2>3. \A x \in Shared(call.version)' : x.id = call.new \/ Ending(x)
    <3> SUFFICES ASSUME NEW x \in tokens', x.version = call.version
                 PROVE  x.id = call.new \/ Ending(x)
      BY <1>3 DEF Shared
    <3>1. PICK k \in tokens : x = cut(k)
      BY <1>5
    <3>2. QED
      BY <1>4, <3>1
  <2>4. Minting(call.version)'
    BY <1>3 DEF Minting
  <2>5. Lasts(call.new, call.version, Margin)
    BY <1>1 DEF Inv, OthersEnd
  <2>6. Lasts(call.new, call.version, Margin)'
    BY <1>3, <1>12, <2>5
  <2>7. \A v \in Version \ unwritten' : Minting(v)' \/
          \A x \in Shared(v)' : x.id = files'[v].token \/ Ending(x)'
    BY <1>3, <1>8, <1>frame, <2>1, <2>2, <2>4 DEF Inv, OthersEnd, Minting
  <2>8. QED
    BY <1>3, <1>8, <2>3, <2>6, <2>7 DEF OthersEnd
<1>14. UnwrittenLost' /\ ToldNow' /\ ToldRuns' /\ PassHolds'
  BY <1>3, <1>frame DEF Inv, UnwrittenLost, Readers, ToldNow, ToldRuns, PassHolds
<1>15. FileHolds'
  <2>1. \A s \in Slot : Reads(s)' => Reads(s)
    BY <1>frame DEF Reads, Readers
  <2>2. CASE call.version = row.version
    <3>1. Minting(row.version)'
      BY <1>3, <1>frame, <2>2 DEF Minting
    <3>2. QED
      BY <1>11, <1>frame, <2>1, <3>1, LastsAlive DEF Inv, FileHolds
  <2>3. CASE call.version # row.version
    <3>1. ~Minting(row.version)
      BY <2>3 DEF Minting
    <3>2. QED
      BY <1>12, <1>frame, <2>1, <2>3, <3>1 DEF Inv, FileHolds
  <2>4. QED
    BY <2>2, <2>3
<1>16. Holding'
  <2>1. \A s \in Slot : Replaced(s) => Replaced(s)'
    BY <1>1, <1>3, <1>frame DEF Replaced, Minting
  <2>2. \A s \in Readers(row.version) : s \in Slot
    BY DEF Readers
  <2>3. QED
    BY <1>11, <1>frame, <2>1, <2>2 DEF Inv, Holding, Readers
<1>17. QED
  BY <1>6, <1>7, <1>10, <1>13, <1>14, <1>15, <1>16 DEF Inv

\* The new token reaches the file: readers are told of it, or have lost it.
LEMMA WriteTokenInv ==
  ASSUME Inv, WriteToken
  PROVE  Inv'
<1> DEFINE f == [files[call.version] EXCEPT !.token = call.new]
<1>1. /\ call.pc = "write" /\ up
      /\ files' = [files EXCEPT ![call.version] = f]
      /\ unwritten' = unwritten \ {call.version}
      /\ lost' = IF call.task = "deliver" THEN lost \cup Readers(call.version) ELSE lost
      /\ call' = [call EXCEPT !.pc = "value"]
      /\ UNCHANGED <<row, signalled, value, tokens, envs, minted, record, inst, up, look, now, passed,
                     gone, events, faults, revoked, bared, unseen>>
  BY DEF WriteToken, At, stored, clock, bounds
<1>2. /\ call \in Call /\ call.version \in Version /\ files \in [Version -> Item] /\ call.new # 0
      /\ call.new \in Nat /\ call.task \in {"deliver", "refresh"} /\ row.version \in Version
  <2>1. /\ call \in Call /\ call.version \in Version /\ files \in [Version -> Item] /\ call.new # 0
        /\ call.task # "none"
    BY <1>1 DEF Inv, TypeOK, CallOf
  <2>2. QED
    BY <2>1, Numbers DEF Inv, Call
<1>3. /\ call' \in Call /\ call'.pc = "value" /\ call'.task = call.task /\ call'.version = call.version
      /\ call'.slot = call.slot /\ call'.new = call.new /\ call'.value = call.value /\ call'.up = call.up /\ call'.at = call.at
  BY <1>1, <1>2 DEF Call
<1>4. f \in Item /\ f.token = call.new
  <2>1. files[call.version] \in Item
    BY <1>2
  <2>2. QED
    BY <1>2, <2>1 DEF Item
<1> HIDE DEF f
<1>5. /\ files' \in [Version -> Item] /\ files'[call.version].token = call.new
      /\ \A v \in Version \ {call.version} : files'[v] = files[v]
  BY <1>1, <1>2, <1>4
<1>frame. UNCHANGED <<row, signalled, value, tokens, envs, minted, record, inst, up, look, now, passed,
                     gone, events, faults, revoked, bared, unseen>>
  BY <1>1
<1>6. lost' \subseteq Slot /\ lost \subseteq lost' /\ unwritten' \subseteq Version
  BY <1>1 DEF Inv, TypeOK, Readers
<1>7. TypeOK'
  BY <1>frame, <1>3, <1>5, <1>6 DEF Inv, TypeOK
<1>8. CallOf' /\ EnvOwn' /\ RecordOf' /\ Numbered'
  BY <1>1, <1>3, <1>frame DEF Inv, CallOf, EnvOwn, Filling, Running, RecordOf, LookOf, Readers, Numbered
<1>9. /\ \A t, v, left : Lasts(t, v, left)' <=> Lasts(t, v, left)
      /\ \A t, v : Alive(t, v)' <=> Alive(t, v)
      /\ \A k : Ending(k)' <=> Ending(k)
      /\ \A v : Shared(v)' = Shared(v)
  BY <1>frame, SameTokens
<1>10. Unsignalled' /\ ToldNow' /\ ToldRuns'
  BY <1>9, <1>frame DEF Inv, Unsignalled, ToldNow, ToldRuns
<1>11. UnwrittenLost'
  BY <1>1, <1>6, <1>frame DEF Inv, UnwrittenLost, Readers
<1>12. Lasts(call.new, call.version, Margin) /\ \A k \in Shared(call.version) : k.id = call.new \/ Ending(k)
  BY <1>1 DEF Inv, OthersEnd
<1>13. \A v \in Version \ {call.version} : ~Minting(v)
  BY DEF Minting
<1>14. OthersEnd'
  <2>1. \A v \in Version \ unwritten' : \A k \in Shared(v) : k.id = files'[v].token \/ Ending(k)
    <3> SUFFICES ASSUME NEW v \in Version \ unwritten'
                 PROVE  \A k \in Shared(v) : k.id = files'[v].token \/ Ending(k)
      OBVIOUS
    <3>1. CASE v = call.version
      BY <1>5, <1>12, <3>1
    <3>2. CASE v # call.version
      BY <1>1, <1>5, <1>13, <3>2 DEF Inv, OthersEnd
    <3>3. QED
      BY <3>1, <3>2
  <2>2. QED
    BY <1>3, <1>9, <2>1 DEF OthersEnd
<1>15. PassHolds'
  BY <1>3, <1>5, <1>9, <1>12 DEF PassHolds
<1>16. FileHolds'
  <2>1. CASE call.version = row.version
    <3>1. Lasts(files'[row.version].token, row.version, Margin - gone)
      <4>1. gone \in Nat /\ Margin - gone \in Int /\ Margin - gone <= Margin /\ TypeOK /\ Margin \in Int
        BY Numbers, MarginFacts DEF Inv
      <4>2. QED
        BY <1>5, <1>12, <2>1, <4>1, LastsLess
    <3>2. QED
      BY <1>9, <1>frame, <3>1 DEF FileHolds
  <2>2. CASE call.version # row.version
    <3>1. Readers(row.version)' = {}
      BY <1>1, <1>frame, <2>2 DEF Inv, RecordOf, LookOf, Readers
    <3>2. QED
      BY <3>1 DEF FileHolds, Reads
  <2>3. QED
    BY <2>1, <2>2
<1>17. Holding'
  <2> SUFFICES ASSUME NEW s \in Readers(row.version) \ unseen, s \notin lost'
               PROVE  \/ inst[s].token = files'[row.version].token
                      \/ Replaced(s)' /\ Alive(inst[s].token, row.version)
    BY <1>9, <1>frame DEF Holding, Readers
  <2>1. call.version = row.version
    BY <1>1 DEF Inv, RecordOf
  <2>2. call.task = "refresh"
    BY <1>1, <1>2, <2>1
  <2>3. Replaced(s)'
    BY <1>2, <1>3, <1>frame, <2>1, <2>2 DEF Replaced
  <2>4. s \notin lost /\ s \in Slot /\ Reads(s)
    BY <1>6 DEF Reads, Readers
  <2>5. row.version \notin unwritten
    BY <2>4 DEF Inv, UnwrittenLost
  <2>6. Alive(files[row.version].token, row.version)
    BY <2>4, <2>5, LastsAlive DEF Inv, FileHolds
  <2>7. Alive(inst[s].token, row.version)
    BY <2>4, <2>6 DEF Inv, Holding
  <2>8. QED
    BY <2>3, <2>7
<1>18. QED
  BY <1>7, <1>8, <1>10, <1>11, <1>14, <1>15, <1>16, <1>17 DEF Inv

\* The value is written, or a pass whose files are as they were gets through.
LEMMA WriteValueInv ==
  ASSUME Inv, WriteValue
  PROVE  Inv'
<1>1. /\ call.pc = "value" /\ up
      /\ UNCHANGED <<row, signalled, value, tokens, envs, minted, record, inst, up, look, now,
                     events, faults, revoked, bared, unseen, unwritten>>
  BY DEF WriteValue, At, stored, bounds
<1>2. /\ call \in Call /\ call.version \in Version /\ files \in [Version -> Item]
      /\ value \in Nat /\ value # 0 /\ row.version \in Version
  BY <1>1, Numbers DEF Inv, TypeOK, CallOf, RecordOf
<1>3. CASE call.task = "refresh" /\ value = record[call.version].value /\ call.new = 0
  <2>1. call' = Idle /\ passed' = TRUE /\ gone' = 0 /\ UNCHANGED <<files, lost>>
    BY <1>3 DEF WriteValue, Through, End
  <2>2. TypeOK' /\ ToldRuns'
    <3>1. TypeOK'
      BY <1>1, <2>1, IdleType DEF Inv, TypeOK
    <3>2. ToldRuns'
      BY <1>1 DEF Inv, ToldRuns
    <3>3. QED
      BY <3>1, <3>2
  <2>3. UNCHANGED <<stored, given, look, now, revoked, bared, unseen, unwritten>> /\ \A v : Readers(v)' = Readers(v)
    BY <1>1, <2>1 DEF stored, given, Readers
  <2>4. ASSUME NEW s \in Slot, Reads(s)', row.version \notin unwritten
        PROVE  Lasts(files[row.version].token, row.version, Margin)
    <3>1. s \in Readers(row.version)
      BY <1>1, <2>4 DEF Reads, Readers
    <3>2. call.version = row.version
      BY <1>1, <3>1 DEF Inv, RecordOf
    <3>3. QED
      BY <1>1, <1>2, <2>4, <3>2 DEF Inv, PassHolds
  <2>5. \A s \in Readers(row.version) \ (lost' \cup unseen) :
           \/ inst'[s].token = files[row.version].token
           \/ inst'[s].told /\ Alive(inst'[s].token, row.version)
    BY <1>1, <1>3, <2>1 DEF Inv, Holding, Replaced, Minting
  <2>6. QED
    BY <1>1, <2>1, <2>2, <2>3, <2>4, <2>5, GotThrough DEF Inv, UnwrittenLost
<1>4. CASE ~(call.task = "refresh" /\ value = record[call.version].value /\ call.new = 0)
  <2> DEFINE f == [files[call.version] EXCEPT !.value = value]
  <2>1. /\ files' = [files EXCEPT ![call.version] = f]
        /\ lost' = IF call.task = "deliver" /\ record[call.version].value # value
                   THEN lost \cup Readers(call.version) ELSE lost
        /\ call' = [call EXCEPT !.pc = "record", !.value = value]
        /\ UNCHANGED <<passed, gone>>
    BY <1>4 DEF WriteValue
  <2>2. /\ call' \in Call /\ call'.pc = "record" /\ call'.task = call.task /\ call'.version = call.version
        /\ call'.slot = call.slot /\ call'.new = call.new /\ call'.value = value /\ call'.up = call.up /\ call'.at = call.at
    BY <1>2, <2>1 DEF Call
  <2>3. f \in Item /\ f.token = files[call.version].token
    <3>1. files[call.version] \in Item
      BY <1>2
    <3>2. QED
      BY <1>2, <3>1 DEF Item
  <2> HIDE DEF f
  <2>4. files' \in [Version -> Item] /\ \A v \in Version : files'[v].token = files[v].token
    BY <1>2, <2>1, <2>3
  <2>frame. UNCHANGED <<passed, gone>>
    BY <2>1
  <2>5. lost' \subseteq Slot /\ lost \subseteq lost'
    BY <2>1 DEF Inv, TypeOK, Readers
  <2>6. TypeOK'
    BY <1>1, <2>2, <2>4, <2>5, <2>frame DEF Inv, TypeOK
  <2>7. CallOf' /\ EnvOwn' /\ RecordOf' /\ Numbered'
    BY <1>1, <1>2, <2>2 DEF Inv, CallOf, EnvOwn, Filling, Running, RecordOf, LookOf, Readers, Numbered
  <2>8. /\ \A t, v, left : Lasts(t, v, left)' <=> Lasts(t, v, left)
        /\ \A t, v : Alive(t, v)' <=> Alive(t, v)
        /\ \A k : Ending(k)' <=> Ending(k)
        /\ \A v : Shared(v)' = Shared(v)
    BY <1>1, SameTokens
  <2>9. \A v : ~Minting(v) /\ ~Minting(v)'
    BY <1>1, <2>2 DEF Minting
  <2>10. Unsignalled' /\ ToldNow' /\ ToldRuns'
    BY <1>1, <2>8, <2>frame DEF Inv, Unsignalled, ToldNow, ToldRuns
  <2>11. OthersEnd'
    BY <1>1, <2>2, <2>4, <2>8, <2>9 DEF Inv, OthersEnd
  <2>12. UnwrittenLost' /\ PassHolds'
    BY <1>1, <1>2, <2>2, <2>4, <2>5, <2>8 DEF Inv, UnwrittenLost, Readers, PassHolds
  <2>13. FileHolds'
    <3>1. \A s \in Slot : Reads(s)' => Reads(s)
      BY <1>1, <2>5 DEF Reads, Readers
    <3>2. QED
      BY <1>1, <1>2, <2>4, <2>8, <2>9, <2>frame, <3>1 DEF Inv, FileHolds
  <2>14. Holding'
    <3>1. \A s \in Slot : Replaced(s) => Replaced(s)'
      BY <1>1, <2>2 DEF Replaced, Minting
    <3>2. \A s \in Readers(row.version) : s \in Slot
      BY DEF Readers
    <3>3. QED
      BY <1>1, <1>2, <2>4, <2>5, <2>8, <3>1, <3>2 DEF Inv, Holding, Readers
  <2>15. QED
    BY <2>6, <2>7, <2>10, <2>11, <2>12, <2>13, <2>14 DEF Inv
<1>5. QED
  BY <1>3, <1>4

\* An instance starts on what its version's files hold.
LEMMA RunInv ==
  ASSUME Inv, Run
  PROVE  Inv'
<1> DEFINE i == Loaded([NoInst EXCEPT !.env = envs[call.slot]], call.version)
           b == call.slot
<1>1. /\ call.pc = "run" /\ up
      /\ inst' = [inst EXCEPT ![b] = i]
      /\ bared' = IF envs[b] = 0 THEN bared \cup {b} ELSE bared \ {b}
      /\ unseen' = unseen \ {b}
      /\ lost' = IF call.version \in unwritten THEN lost \cup {b} ELSE lost \ {b}
      /\ call' = [call EXCEPT !.pc = "slot", !.slot = @ + 1, !.task = "none", !.new = 0, !.value = 0]
      /\ UNCHANGED <<row, signalled, value, tokens, envs, minted, files, record, up, look, now, passed,
                     gone, events, faults, revoked, unwritten>>
  BY DEF Run, At, stored, given, clock, bounds
<1>2. /\ call \in Call /\ call.version \in Version /\ files \in [Version -> Item] /\ inst \in [Slot -> Instance]
      /\ envs \in [Slot -> Nat] /\ b \in Slot /\ b \notin Running \ unseen /\ minted \in Nat
      /\ record[call.version].value # 0 /\ call.version <= row.version
  <2>1. call.task = "deliver"
    BY <1>1 DEF Inv, CallOf
  <2>2. QED
    BY <1>1, <2>1 DEF Inv, TypeOK, CallOf, EnvOwn, Filling, RecordOf
<1>3. b + 1 \in 0..(MaxSlot + 1) /\ b + 1 > 1 /\ b + 1 # 0
  <2>1. b \in 1..MaxSlot
    BY <1>2 DEF Slot
  <2>2. QED
    BY <2>1, MountsAssumption
<1>4. /\ call' \in Call /\ call'.pc = "slot" /\ call'.task = "none" /\ call'.version = call.version
      /\ call'.slot = b + 1 /\ call'.new = 0 /\ call'.value = 0 /\ call'.up = call.up /\ call'.at = call.at
  BY <1>1, <1>2, <1>3 DEF Call
<1>5. /\ i \in Instance /\ i.version = call.version /\ i.env = envs[b] /\ i.told = FALSE
      /\ i.token = files[call.version].token
  <2>1. files[call.version] \in Item /\ envs[b] \in Nat
    BY <1>2
  <2>2. QED
    BY <1>2, <2>1 DEF Loaded, NoInst, Instance, Item
<1> HIDE DEF i, b
<1>6. /\ inst' \in [Slot -> Instance] /\ inst'[b] = i
      /\ \A q \in Slot \ {b} : inst'[q] = inst[q]
  BY <1>1, <1>2, <1>5
<1>frame. UNCHANGED <<row, signalled, value, tokens, envs, minted, files, record, up, look, now, passed,
                     gone, events, faults, revoked, unwritten>>
  BY <1>1
<1>7. /\ lost' \subseteq Slot /\ bared' \subseteq Slot /\ unseen' \subseteq Slot
      /\ \A q \in Slot \ {b} : (q \in lost' <=> q \in lost) /\ (q \in bared' <=> q \in bared)
                              /\ (q \in unseen' <=> q \in unseen)
  BY <1>1, <1>2 DEF Inv, TypeOK
<1>8. TypeOK'
  BY <1>frame, <1>4, <1>6, <1>7 DEF Inv, TypeOK
<1>9. /\ Running' = Running \cup {b}
      /\ \A v \in Version \ {call.version} : Readers(v)' \subseteq Readers(v)
      /\ Readers(call.version)' = Readers(call.version) \cup {b}
      /\ row.version \in Version /\ Running \subseteq Slot
  <2>1. row.version \in Version /\ 0 \notin Version
    BY Numbers DEF Inv
  <2>3. b \in Slot /\ inst'[b].version = call.version /\ call.version # 0
    BY <1>2, <1>5, <1>6, <2>1
  <2>4. Running' = Running \cup {b} /\ Running \subseteq Slot
    BY <1>6, <2>3 DEF Running
  <2>5. Readers(call.version)' = Readers(call.version) \cup {b}
    <3>1. Readers(call.version)' = {s \in Slot : inst'[s].version = call.version}
      BY <1>4 DEF Readers
    <3>2. QED
      BY <1>6, <2>3, <3>1 DEF Readers
  <2>6. \A v \in Version \ {call.version} : Readers(v)' \subseteq Readers(v)
    BY <1>6, <2>1, <2>3 DEF Readers
  <2>7. QED
    BY <2>1, <2>4, <2>5, <2>6
<1>10. CallOf' /\ EnvOwn'
  <2>1. CallOf'
    BY <1>1, <1>2, <1>3, <1>4, <1>frame DEF Inv, CallOf
  <2>2. ASSUME NEW s \in Running' \ unseen'
        PROVE  s \in bared' \/ (inst'[s].env = envs[s] /\ envs[s] # 0)
    BY <1>1, <1>5, <1>6, <1>7, <1>9, <2>2 DEF Inv, EnvOwn
  <2>3. ASSUME NEW s \in Running' \ unseen', s > b + 1 \/ s = b + 1
        PROVE  call.at[s] = inst'[s].version
    <3>1. s \in Slot /\ s > b /\ s # b
      BY <1>2, <1>9, <2>3 DEF Slot
    <3>2. s \in Running \ unseen /\ inst'[s] = inst[s]
      BY <1>6, <1>7, <1>9, <2>3, <3>1
    <3>3. Filling
      BY <1>1 DEF Inv, CallOf, Filling
    <3>4. QED
      BY <3>1, <3>2, <3>3 DEF Inv, EnvOwn, b
  <2>4. ~Filling'
    BY <1>4 DEF Filling
  <2>5. EnvOwn'
    BY <1>4, <1>frame, <2>2, <2>3, <2>4 DEF EnvOwn
  <2>6. QED
    BY <2>1, <2>5
<1>11. RecordOf' /\ Numbered'
  <2>1. Numbered'
    BY <1>2, <1>4, <1>frame DEF Inv, Numbered
  <2>2. LookOf' /\ (call.version # row.version => Readers(row.version)' = {})
    <3>1. call.version # row.version => Readers(row.version)' = {}
      BY <1>1, <1>9, <1>frame DEF Inv, RecordOf
    <3>2. look.is # "none" /\ look.version # row.version => call.version # row.version
      <4>1. look.version \in Version => look.version \in Nat
        BY DEF Version
      <4>2. row.version \in Nat /\ call.version \in Nat
        BY Numbers DEF Inv
      <4>3. QED
        BY <1>2, <4>1, <4>2 DEF Inv, RecordOf, LookOf
    <3>3. QED
      BY <1>4, <1>frame, <3>1, <3>2 DEF Inv, RecordOf, LookOf
  <2>3. \A s \in Running' : inst'[s].version <= row.version
    BY <1>2, <1>5, <1>6, <1>9 DEF Inv, RecordOf
  <2>4. \A s \in Running' \ unseen' : record[inst'[s].version].value # 0
    BY <1>2, <1>5, <1>6, <1>7, <1>9 DEF Inv, RecordOf
  <2>5. RecordOf'
    BY <1>4, <1>frame, <2>2, <2>3, <2>4 DEF Inv, RecordOf
  <2>6. QED
    BY <2>1, <2>5
<1>12. /\ \A t, v, left : Lasts(t, v, left)' <=> Lasts(t, v, left)
       /\ \A t, v : Alive(t, v)' <=> Alive(t, v)
       /\ \A k : Ending(k)' <=> Ending(k)
       /\ \A v : Shared(v)' = Shared(v)
  BY <1>frame, SameTokens
<1>13. \A v : ~Minting(v) /\ ~Minting(v)'
  BY <1>1, <1>4 DEF Minting
<1>14. Unsignalled' /\ OthersEnd'
  BY <1>4, <1>12, <1>13, <1>frame DEF Inv, Unsignalled, OthersEnd
<1>15. UnwrittenLost'
  <2> SUFFICES ASSUME NEW v \in unwritten, NEW q \in Readers(v)'
               PROVE  q \in lost'
    BY <1>frame DEF UnwrittenLost
  <2>1. CASE q = b
    <3>1. v = call.version
      BY <1>5, <1>6, <2>1 DEF Readers
    <3>2. QED
      BY <1>1, <2>1, <3>1
  <2>2. CASE q # b
    <3>1. q \in Readers(v) /\ q \in Slot
      BY <1>6, <2>2 DEF Readers
    <3>2. QED
      BY <1>7, <2>2, <3>1 DEF Inv, UnwrittenLost
  <2>3. QED
    BY <2>1, <2>2
<1>16. call.version \notin unwritten => Lasts(files[call.version].token, call.version, Margin)
  BY <1>1, <1>2 DEF Inv, PassHolds
<1>17. PassHolds'
  BY <1>4, <1>12, <1>16, <1>frame DEF PassHolds
<1>18. ToldNow' /\ ToldRuns'
  BY <1>5, <1>6, <1>frame DEF Inv, ToldNow, ToldRuns
<1>19. FileHolds'
  <2>1. CASE call.version = row.version
    <3>1. row.version \notin unwritten => Lasts(files[row.version].token, row.version, Margin - gone)
      <4>1. gone \in Nat /\ Margin - gone \in Int /\ Margin - gone <= Margin /\ TypeOK /\ Margin \in Int
        BY Numbers, MarginFacts DEF Inv
      <4>2. QED
        BY <1>16, <2>1, <4>1, LastsLess
    <3>2. QED
      BY <1>12, <1>frame, <3>1 DEF FileHolds
  <2>2. CASE call.version # row.version
    <3>1. Readers(row.version)' = {}
      BY <1>1, <1>9, <1>frame, <2>2 DEF Inv, RecordOf
    <3>2. QED
      BY <3>1 DEF FileHolds, Reads
  <2>3. QED
    BY <2>1, <2>2
<1>20. Holding'
  <2> SUFFICES ASSUME NEW q \in Slot, inst'[q].version = row.version, q \notin lost' \cup unseen'
               PROVE  \/ inst'[q].token = files[row.version].token
                      \/ Replaced(q)' /\ Alive(inst'[q].token, row.version)
    BY <1>12, <1>frame DEF Holding, Readers
  <2>1. CASE q = b
    BY <1>5, <1>6, <2>1
  <2>2. CASE q # b
    <3>1. q \notin lost \cup unseen /\ inst'[q] = inst[q] /\ q \in Readers(row.version)
      BY <1>6, <1>7, <2>2 DEF Readers
    <3>2. Replaced(q) => Replaced(q)'
      BY <1>1, <3>1 DEF Replaced, Minting
    <3>3. QED
      BY <3>1, <3>2 DEF Inv, Holding
  <2>3. QED
    BY <2>1, <2>2
<1>21. QED
  BY <1>8, <1>10, <1>11, <1>14, <1>15, <1>17, <1>18, <1>19, <1>20 DEF Inv

\* Who is told of the new token will load it; who is not has lost it.
LEMMA Told ==
  ASSUME Inv, NEW heard \in SUBSET Running, call.pc = "signal", up,
         inst' = [s \in Slot |-> IF s \in heard THEN [inst[s] EXCEPT !.told = TRUE] ELSE inst[s]],
         lost \subseteq lost', lost' \subseteq Slot, Readers(call.version) \ heard \subseteq lost',
         call' = Idle, passed' = TRUE, gone' = 0, faults' \in 0..MaxFaults,
         UNCHANGED <<row, signalled, value, tokens, envs, minted, files, record, up, look, now,
                     events, revoked, bared, unseen, unwritten>>
  PROVE  Inv'
<1>1. \A s \in Slot :
        /\ inst'[s] \in Instance /\ inst'[s].version = inst[s].version /\ inst'[s].env = inst[s].env
        /\ inst'[s].token = inst[s].token
        /\ inst'[s].told => inst[s].told \/ s \in heard
        /\ s \in heard => inst'[s].told
        /\ inst[s].told => inst'[s].told
  <2> SUFFICES ASSUME NEW s \in Slot
               PROVE  /\ inst'[s] \in Instance /\ inst'[s].version = inst[s].version /\ inst'[s].env = inst[s].env
                      /\ inst'[s].token = inst[s].token
                      /\ inst'[s].told => inst[s].told \/ s \in heard
                      /\ s \in heard => inst'[s].told
                      /\ inst[s].told => inst'[s].told
    OBVIOUS
  <2> DEFINE x == [inst[s] EXCEPT !.told = TRUE]
  <2>1. inst[s] \in Instance
    BY Numbers DEF Inv
  <2>2. x \in Instance /\ x.version = inst[s].version /\ x.env = inst[s].env /\ x.token = inst[s].token /\ x.told
    BY <2>1 DEF Instance
  <2>3. inst'[s] = IF s \in heard THEN x ELSE inst[s]
    OBVIOUS
  <2> HIDE DEF x
  <2>4. QED
    BY <2>1, <2>2, <2>3
<1>2. inst' \in [Slot -> Instance]
  <2>1. DOMAIN inst' = Slot /\ inst' = [s \in Slot |-> inst'[s]]
    OBVIOUS
  <2>2. QED
    BY <1>1, <2>1
<1>frame. /\ UNCHANGED <<row, signalled, value, tokens, envs, minted, files, record, up, look, now, events, revoked, bared, unseen, unwritten>>
          /\ call' = Idle /\ passed' = TRUE /\ gone' = 0 /\ faults' \in 0..MaxFaults
          /\ lost \subseteq lost' /\ lost' \subseteq Slot
  OBVIOUS
<1>3. TypeOK'
  BY <1>2, <1>frame, IdleType DEF Inv, TypeOK
<1>4. ToldRuns'
  BY <1>1 DEF Inv, ToldRuns, Running
<1>5. UNCHANGED <<stored, given, look, now, revoked, bared, unseen, unwritten>> /\ \A v : Readers(v)' = Readers(v)
  BY <1>1, <1>frame DEF stored, given, Readers
<1>6. row.version \in Version /\ \A s \in Readers(row.version) : s \in Slot /\ call.version = row.version
  BY Numbers DEF Inv, Readers, RecordOf
<1>7. ASSUME NEW s \in Slot, Reads(s)', row.version \notin unwritten
      PROVE  Lasts(files[row.version].token, row.version, Margin)
  <2>1. s \in Readers(row.version)
    BY <1>5, <1>7, <1>frame DEF Reads
  <2>2. QED
    BY <1>6, <1>7, <2>1 DEF Inv, PassHolds
<1>8. ASSUME NEW s \in Readers(row.version) \ unseen, s \notin lost'
      PROVE  \/ inst'[s].token = files[row.version].token
             \/ inst'[s].told /\ Alive(inst'[s].token, row.version)
  <2>1. s \in Slot /\ s \notin lost /\ s \in heard
    BY <1>6, <1>8
  <2>2. QED
    BY <1>1, <1>8, <2>1 DEF Inv, Holding
<1>9. \A v \in unwritten : Readers(v) \subseteq lost'
  BY DEF Inv, UnwrittenLost
<1>10. \A s \in Slot : inst'[s].env = inst[s].env
  BY <1>1
<1>11. call.pc \notin {"expire", "write"}
  OBVIOUS
<1> HIDE DEF Inv
<1>12. QED
  BY <1>3, <1>4, <1>5, <1>7, <1>8, <1>9, <1>10, <1>11, <1>frame, GotThrough

LEMMA SignalInv ==
  ASSUME Inv, Signal
  PROVE  Inv'
<1>1. /\ call.pc = "signal" /\ up /\ call' = Idle /\ passed' = TRUE /\ gone' = 0
      /\ inst' = [s \in Slot |-> IF s \in Running THEN [inst[s] EXCEPT !.told = TRUE] ELSE inst[s]]
      /\ UNCHANGED <<row, signalled, value, tokens, envs, minted, files, record, up, look, now,
                     events, faults, revoked, bared, unseen, unwritten, lost>>
  BY DEF Signal, At, Through, End, stored, given, bounds, history
<1>2. /\ lost' \subseteq Slot /\ faults' \in 0..MaxFaults /\ Running \in SUBSET Running
      /\ lost \subseteq lost'
  BY <1>1 DEF Inv, TypeOK
<1>3. Readers(call.version) \ Running \subseteq lost'
  <2>1. call.version \in Version /\ 0 \notin Version
    BY <1>1, Numbers DEF Inv, CallOf
  <2>2. QED
    BY <2>1 DEF Readers, Running
<1>4. QED
  BY <1>1, <1>2, <1>3, Told

LEMMA SignalFailsInv ==
  ASSUME Inv, SignalFails
  PROVE  Inv'
<1>1. /\ call.pc = "signal" /\ up /\ call' = Idle /\ passed' = TRUE /\ gone' = 0 /\ Fault
      /\ UNCHANGED <<row, signalled, value, tokens, envs, minted, files, record, up, look, now,
                     events, revoked, bared, unseen, unwritten>>
  BY DEF SignalFails, At, Through, End, stored, given
<1>2. PICK heard \in SUBSET Running :
        /\ inst' = [s \in Slot |-> IF s \in heard THEN [inst[s] EXCEPT !.told = TRUE] ELSE inst[s]]
        /\ lost' = lost \cup (Readers(call.version) \ heard)
  BY DEF SignalFails
<1>3. lost \subseteq lost' /\ lost' \subseteq Slot /\ Readers(call.version) \ heard \subseteq lost'
  BY <1>2 DEF Inv, TypeOK, Readers
<1>4. faults' \in 0..MaxFaults
  BY <1>1, FaultType DEF Inv
<1>5. QED
  BY <1>1, <1>2, <1>3, <1>4, Told

-----------------------------------------------------------------------------
(* The theorems.                                                           *)

LEMMA NextInv ==
  ASSUME Inv, [Next]_vars
  PROVE  Inv'
<1>1. CASE UNCHANGED vars
  <2>1. UNCHANGED <<row, signalled, value, tokens, envs, minted, files, record, inst, up, look, call, now, passed,
                    gone, events, faults, revoked, bared, unseen, unwritten, lost>>
    BY <1>1 DEF vars, stored, given, clock, bounds, history
  <2>2. TypeOK' /\ EnvOwn'
    BY <2>1 DEF Inv, TypeOK, EnvOwn, Filling, Running
  <2>3. QED
    BY <2>1, <2>2, TokensStep DEF stored
<1>2. CASE ConvergeSteps
  BY <1>2, ConvergeSuspendedInv, ConvergeInv, SlotUpInv, SlotStopInv, SlotEmptyInv, MintInstanceTokenInv,
     KeepTokenInv, MintWorkloadTokenInv, ExpireOthersInv, WriteTokenInv, WriteValueInv, RecordInv, RunInv,
     RefreshBeginInv, SignalInv DEF ConvergeSteps
<1>3. CASE \E s \in Slot : Load(s) \/ Exit(s)
  BY <1>3, LoadInv, ExitInv
<1>4. CASE Sweep \/ Delete \/ SetValue \/ Apply \/ Suspend \/ Resume \/ Tick \/ Crash \/ Boot
  BY <1>4, SweepInv, DeleteInv, SetValueInv, ApplyInv, HeldDownInv, TickInv, StoppedInv
<1>5. CASE Fails \/ SignalFails \/ Look \/ Skip
  BY <1>5, StoppedInv, SignalFailsInv, LookInv
<1>6. QED
  BY <1>1, <1>2, <1>3, <1>4, <1>5 DEF Next

\* The inductive invariant holds of every behaviour of the tokens, files and instances.
THEOREM MountsInvariant == Spec => []Inv
<1>1. Init => Inv
  BY InitInv
<1>2. Inv /\ [Next]_vars => Inv'
  BY NextInv
<1>3. QED
  BY <1>1, <1>2, PTL DEF Spec

\* The rows, the files, the tokens and the converge in progress keep their types.
THEOREM MountsTypeCorrect == Spec => []TypeOK
<1>1. Inv => TypeOK
  BY DEF Inv
<1>2. QED
  BY <1>1, MountsInvariant, PTL

\* Whatever fails, dies or rolls, and however often, an instance of the stored version holds
\* the token of its environment and a shared token that lookup accepts, but for the losses
\* HeldTokensValid names.
THEOREM HeldTokensValidHolds == Spec => []HeldTokensValid
<1>1. Inv => HeldTokensValid
  BY InvHolds
<1>2. QED
  BY <1>1, MountsInvariant, PTL

===============================================================================

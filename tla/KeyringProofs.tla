---------------------------- MODULE KeyringProofs ----------------------------
(***************************************************************************)
(* Proofs about Keyring, for every set of names, values and clients and    *)
(* every bound: the stored secrets open, and they implement Vault.         *)
(***************************************************************************)
EXTENDS Keyring, FiniteSetTheorems, TLAPS

\* The calls that may still draw a revision.
Pending == {c \in Clients : call[c].op = "set"}

\* A call draws one revision at most, and only once.
Counted == draws + Cardinality(Pending) <= calls

Reading(c) ==
  \/ call[c].op = "set" /\ call[c].pc \in {"read", "write"}
  \/ call[c].op = "value" /\ call[c].pc \in {"read", "open"}

Writing(c) == call[c].op = "rekey" /\ call[c].pc \in {"list", "commit", "swap"}

\* The lock is held by exactly the calls that are past it, and a writer holds it alone.
Locked ==
  /\ lock.readers = {c \in Clients : Reading(c)}
  /\ lock.writer = {c \in Clients : Writing(c)}
  /\ \A c, d \in Clients : Writing(c) => (~Reading(d) /\ (Writing(d) => c = d))

\* A revision is drawn, and names the value of the row.
Drawn(row, ds, nm) == row.rev <= ds /\ nm[row.rev] = row.val

\* A database, wherever it is kept: one key seals every row, and each revision names its
\* row's value.
Sound(d, ks, ds, nm) ==
  /\ d.current <= ks
  /\ \A n \in Names : d.rows[n] # NoRow => d.rows[n].key = d.current /\ Drawn(d.rows[n], ds, nm)

\* The files that back a database's rows.
Backed(d, files) == \A n \in Names : d.rows[n] # NoRow => d.rows[n].key \in files

\* A row a call has read is still sealed under the current key.
Fresh(row) == row = NoRow \/ (row.key = db.current /\ Drawn(row, draws, named))

Started ==
  /\ boot.is # "up" => (cipher = 0 /\ \A c \in Clients : call[c] = Idle)
  /\ boot.is \in {"down", "up"} => boot.key = 0
  /\ boot.is # "down" => db.is = "whole"
  /\ boot.is = "adopt" => db.current = 0
  /\ boot.key # 0 => (boot.key <= keys /\ ring[boot.key] = "whole")
  /\ boot.is = "up" =>
       /\ db.current # 0 /\ ring[db.current] = "whole"
       /\ cipher = db.current \/ \E c \in Clients : At(c, "rekey", "swap")

\* What a call carries.
Carried(c) ==
  /\ call[c].op = "set" => (call[c].name \in Names /\ call[c].val \in Values
                             /\ call[c].lab \in Labels)
  /\ call[c].op = "value" => call[c].name \in Names
  /\ At(c, "set", "write") => Fresh(call[c].row)
  /\ At(c, "value", "open") => call[c].row # NoRow /\ Fresh(call[c].row)
  /\ call[c].op = "rekey" => (call[c].key # 0 /\ call[c].key <= keys
                               /\ ring[call[c].key] = "whole")
  /\ At(c, "rekey", "commit") => \A n \in Rows : call[c].db.rows[n] = db.rows[n]
  /\ At(c, "rekey", "swap") => call[c].key = db.current
  /\ At(c, "backup", "keys") => /\ Sound(call[c].db, keys, draws, named)
                                /\ Backed(call[c].db, {k \in Key : ring[k] = "whole"})

Archived(a, ks, ds, nm) ==
  /\ Sound(a.db, ks, ds, nm)
  /\ \A k \in a.files : k <= ks
  /\ a.full => Backed(a.db, a.files \ a.torn)
  /\ ~a.full => a.files = {}

\* A restore writes to places nobody else has taken, and while the current key is one it
\* has yet to write, the rows are the archive's.
Restoring ==
  restore.pc # "none" =>
    /\ restore.from \in archives /\ restore.left \subseteq restore.from.files
    /\ \A k \in restore.left : ring[k] = "none"
    /\ restore.pc = "keys" /\ db.current \in restore.left => db.rows = restore.from.db.rows

Inv ==
  /\ TypeOK
  /\ Counted
  /\ Locked
  /\ Sound(db, keys, draws, named)
  /\ Started
  /\ \A c \in Clients : Carried(c)
  /\ \A a \in archives : Archived(a, keys, draws, named)
  /\ Restoring
  /\ \A k \in Key : k > keys => ring[k] = "none"
  /\ \A r \in Draw : r > draws => named[r] = Unnamed

-----------------------------------------------------------------------------
LEMMA IdleType ==
  NoDb \in Database /\ Idle \in Call /\ NoArchive \in Archive
<1>1. NoDb \in Database
  BY DEF NoDb, Database
<1>2. QED
  BY <1>1 DEF Idle, Call, NoArchive, Archive

LEMMA PendingFinite ==
  IsFiniteSet(Pending) /\ Cardinality(Pending) \in Nat
BY KeyringAssumption, FS_Subset, FS_CardinalityType DEF Pending

\* A step that begins no set and draws nothing leaves the count as it is.
LEMMA CountedKept ==
  ASSUME Inv, Pending' \subseteq Pending, draws' = draws, calls' \in Nat, calls' >= calls
  PROVE  Counted'
<1>1. Cardinality(Pending') \in Nat /\ Cardinality(Pending') <= Cardinality(Pending)
  BY PendingFinite, FS_Subset, FS_CardinalityType
<1>2. QED
  BY <1>1, PendingFinite DEF Inv, TypeOK, Counted

\* What is sound stays so as keys are made and revisions drawn.
LEMMA SoundGrows ==
  ASSUME NEW d \in Database, NEW ks \in Nat, NEW ds \in Nat, NEW nm,
         NEW ks2 \in Nat, NEW ds2 \in Nat, NEW nm2, ks <= ks2, ds <= ds2,
         \A r \in Draw : r <= ds => nm2[r] = nm[r],
         Sound(d, ks, ds, nm)
  PROVE  Sound(d, ks2, ds2, nm2)
BY KeyringAssumption DEF Sound, Drawn, Database, Row, Key, Draw

LEMMA ArchivedGrows ==
  ASSUME NEW a \in Archive, NEW ks \in Nat, NEW ds \in Nat, NEW nm,
         NEW ks2 \in Nat, NEW ds2 \in Nat, NEW nm2, ks <= ks2, ds <= ds2,
         \A r \in Draw : r <= ds => nm2[r] = nm[r],
         Archived(a, ks, ds, nm)
  PROVE  Archived(a, ks2, ds2, nm2)
<1>1. a.db \in Database /\ a.files \subseteq Key
  BY DEF Archive
<1>2. Sound(a.db, ks2, ds2, nm2)
  BY <1>1, SoundGrows DEF Archived
<1>3. QED
  BY <1>1, <1>2, KeyringAssumption DEF Archived, Key


\* What a call carries is still true when neither the call nor the stores have changed.
LEMMA CarriedKept ==
  ASSUME NEW d \in Clients, Carried(d), call'[d] = call[d],
         UNCHANGED <<ring, db, keys, draws, named>>
  PROVE  Carried(d)'
BY DEF Carried, At, Fresh, Rows

LEMMA IdleCarried ==
  ASSUME NEW d \in Clients, call'[d] = Idle
  PROVE  Carried(d)'
BY DEF Carried, At, Idle

\* A step of one call that writes to no store.
LEMMA CallMoves ==
  ASSUME Inv, NEW c \in Clients, NEW x \in Call, call' = [call EXCEPT ![c] = x],
         UNCHANGED <<ring, db, boot, restore, archives, named, crossed, keys, draws>>,
         calls' \in Nat, calls' <= MaxCalls,
         lock' \in [readers : SUBSET Clients, writer : SUBSET Clients, queue : SUBSET Clients],
         cipher' \in Key \cup {0},
         Counted', Locked', Started', Carried(c)'
  PROVE  Inv'
<1>1. TypeOK'
  BY DEF Inv, TypeOK
<1>2. ASSUME NEW d \in Clients PROVE Carried(d)'
  <2>1. CASE d = c
    BY <2>1
  <2>2. CASE d # c
    BY <2>2, CarriedKept DEF Inv, TypeOK
  <2>3. QED
    BY <2>1, <2>2
<1>3. Restoring'
  BY DEF Inv, Restoring
<1>4. QED
  BY <1>1, <1>2, <1>3 DEF Inv

LEMMA CallStep ==
  ASSUME Inv, NEW c \in Clients, NEW x \in Call, call' = [call EXCEPT ![c] = x],
         UNCHANGED <<ring, db, boot, restore, archives, named, crossed, keys, draws>>,
         calls' \in Nat, calls' >= calls, calls' <= MaxCalls,
         x.op = "set" => call[c].op = "set",
         lock' \in [readers : SUBSET Clients, writer : SUBSET Clients, queue : SUBSET Clients],
         cipher' \in Key \cup {0},
         Locked', Started', Carried(c)'
  PROVE  Inv'
<1>1. Pending' \subseteq Pending
  BY DEF Inv, TypeOK, Pending
<1>2. Counted'
  BY <1>1, CountedKept DEF Inv, TypeOK
<1>3. QED
  BY <1>2, CallMoves

\* A step that ends a call, and lets go of the lock if the call held it.
LEMMA CallEnds ==
  ASSUME Inv, NEW c \in Clients, call' = [call EXCEPT ![c] = Idle], 
         lock' = Unlocked(c),
         UNCHANGED <<ring, db, boot, restore, archives, named, crossed, keys, draws, calls>>,
         \/ cipher' = cipher /\ ~At(c, "rekey", "swap")
         \/ At(c, "rekey", "swap") /\ cipher' = call[c].key
  PROVE  Inv'
<1>1. Idle \in Call /\ call[c] \in Call
  BY IdleType DEF Inv, TypeOK
<1>2. /\ lock' \in [readers : SUBSET Clients, writer : SUBSET Clients, queue : SUBSET Clients]
      /\ cipher' \in Key \cup {0}
  BY <1>1 DEF Inv, TypeOK, Unlocked, Call
<1>3. Locked'
  BY DEF Inv, TypeOK, Locked, Reading, Writing, Idle, Unlocked
<1>4. Started'
  <2>1. call[c] # Idle => boot.is = "up"
    BY DEF Inv, Started
  <2>2. CASE At(c, "rekey", "swap") /\ cipher' = call[c].key
    <3>1. call[c] # Idle
      BY <2>2 DEF At, Idle
    <3>3. cipher' = db.current
      BY <2>2 DEF Inv, Carried
    <3>4. QED
      BY <2>1, <3>1, <3>3 DEF Inv, Started
  <2>3. CASE cipher' = cipher /\ ~At(c, "rekey", "swap")
    BY <2>3 DEF Inv, TypeOK, Started, At
  <2>4. QED
    BY <2>2, <2>3
<1>5. Carried(c)'
  BY IdleCarried DEF Inv, TypeOK
<1>6. calls' \in Nat /\ calls' >= calls /\ calls' <= MaxCalls /\ Idle.op # "set"
  BY DEF Inv, TypeOK, Idle
<1>7. QED
  BY <1>1, <1>2, <1>3, <1>4, <1>5, <1>6, CallStep

LEMMA SetLockInv ==
  ASSUME Inv, NEW c \in Clients, SetLock(c)
  PROVE  Inv'
<1> DEFINE x == [call[c] EXCEPT !.pc = "read"]
<1>1. x \in Call /\ call' = [call EXCEPT ![c] = x] /\ (x.op = "set" => call[c].op = "set")
  BY IdleType DEF Inv, TypeOK, Call, SetLock, At, RLock, Goto
<1>2. /\ lock' \in [readers : SUBSET Clients, writer : SUBSET Clients, queue : SUBSET Clients]
      /\ cipher' \in Key \cup {0}
  BY DEF Inv, TypeOK, SetLock, At, RLock, Goto
<1>3. Locked'
  BY DEF Inv, TypeOK, Locked, Reading, Writing, SetLock, At, RLock, Goto
<1>4. Started'
  BY DEF Inv, TypeOK, Started, Idle, SetLock, At, RLock, Goto
<1>5. /\ UNCHANGED <<ring, db, boot, restore, archives, named, crossed, keys, draws>>
      /\ calls' \in Nat /\ calls' >= calls /\ calls' <= MaxCalls
  BY KeyringAssumption DEF Inv, TypeOK, counts, SetLock, At, RLock, Goto
<1>6. Carried(c)'
  <2>1. Carried(c) /\ call'[c] = x
    BY <1>1 DEF Inv, TypeOK
  <2>2. x.pc = "read" /\ x.op = call[c].op /\ x.name = call[c].name /\ x.val = call[c].val
        /\ x.lab = call[c].lab /\ x.key = call[c].key
    BY <1>1 DEF Inv, TypeOK, Call
  <2> HIDE DEF x
  <2>3. QED
    BY <1>5, <2>1, <2>2 DEF Carried, At
<1> HIDE DEF x
<1>7. QED
  BY <1>1, <1>2, <1>3, <1>4, <1>5, <1>6, CallStep

LEMMA ValueLockInv ==
  ASSUME Inv, NEW c \in Clients, ValueLock(c)
  PROVE  Inv'
<1> DEFINE x == [call[c] EXCEPT !.pc = "read"]
<1>1. x \in Call /\ call' = [call EXCEPT ![c] = x] /\ (x.op = "set" => call[c].op = "set")
  BY IdleType DEF Inv, TypeOK, Call, ValueLock, At, RLock, Goto
<1>2. /\ lock' \in [readers : SUBSET Clients, writer : SUBSET Clients, queue : SUBSET Clients]
      /\ cipher' \in Key \cup {0}
  BY DEF Inv, TypeOK, ValueLock, At, RLock, Goto
<1>3. Locked'
  BY DEF Inv, TypeOK, Locked, Reading, Writing, ValueLock, At, RLock, Goto
<1>4. Started'
  BY DEF Inv, TypeOK, Started, Idle, ValueLock, At, RLock, Goto
<1>5. /\ UNCHANGED <<ring, db, boot, restore, archives, named, crossed, keys, draws>>
      /\ calls' \in Nat /\ calls' >= calls /\ calls' <= MaxCalls
  BY KeyringAssumption DEF Inv, TypeOK, counts, ValueLock, At, RLock, Goto
<1>6. Carried(c)'
  <2>1. Carried(c) /\ call'[c] = x
    BY <1>1 DEF Inv, TypeOK
  <2>2. x.pc = "read" /\ x.op = call[c].op /\ x.name = call[c].name /\ x.val = call[c].val
        /\ x.lab = call[c].lab /\ x.key = call[c].key
    BY <1>1 DEF Inv, TypeOK, Call
  <2> HIDE DEF x
  <2>3. QED
    BY <1>5, <2>1, <2>2 DEF Carried, At
<1> HIDE DEF x
<1>7. QED
  BY <1>1, <1>2, <1>3, <1>4, <1>5, <1>6, CallStep

LEMMA RekeyQueueInv ==
  ASSUME Inv, NEW c \in Clients, RekeyQueue(c)
  PROVE  Inv'
<1> DEFINE x == [call[c] EXCEPT !.pc = "lock"]
<1>1. x \in Call /\ call' = [call EXCEPT ![c] = x] /\ (x.op = "set" => call[c].op = "set")
  BY IdleType DEF Inv, TypeOK, Call, RekeyQueue, At, Goto
<1>2. /\ lock' \in [readers : SUBSET Clients, writer : SUBSET Clients, queue : SUBSET Clients]
      /\ cipher' \in Key \cup {0}
  BY DEF Inv, TypeOK, RekeyQueue, At, Goto
<1>3. Locked'
  BY DEF Inv, TypeOK, Locked, Reading, Writing, RekeyQueue, At, Goto
<1>4. Started'
  BY DEF Inv, TypeOK, Started, Idle, RekeyQueue, At, Goto
<1>5. /\ UNCHANGED <<ring, db, boot, restore, archives, named, crossed, keys, draws>>
      /\ calls' \in Nat /\ calls' >= calls /\ calls' <= MaxCalls
  BY KeyringAssumption DEF Inv, TypeOK, counts, RekeyQueue, At, Goto
<1>6. Carried(c)'
  <2>1. Carried(c) /\ call'[c] = x
    BY <1>1 DEF Inv, TypeOK
  <2>2. x.pc = "lock" /\ x.op = call[c].op /\ x.name = call[c].name /\ x.val = call[c].val
        /\ x.lab = call[c].lab /\ x.key = call[c].key
    BY <1>1 DEF Inv, TypeOK, Call
  <2> HIDE DEF x
  <2>3. QED
    BY <1>5, <2>1, <2>2 DEF Carried, At
<1> HIDE DEF x
<1>7. QED
  BY <1>1, <1>2, <1>3, <1>4, <1>5, <1>6, CallStep

LEMMA RekeyLockInv ==
  ASSUME Inv, NEW c \in Clients, RekeyLock(c)
  PROVE  Inv'
<1> DEFINE x == [call[c] EXCEPT !.pc = "list"]
<1>1. x \in Call /\ call' = [call EXCEPT ![c] = x] /\ (x.op = "set" => call[c].op = "set")
  BY IdleType DEF Inv, TypeOK, Call, RekeyLock, At, Goto
<1>2. /\ lock' \in [readers : SUBSET Clients, writer : SUBSET Clients, queue : SUBSET Clients]
      /\ cipher' \in Key \cup {0}
  BY DEF Inv, TypeOK, RekeyLock, At, Goto
<1>3. Locked'
  BY DEF Inv, TypeOK, Locked, Reading, Writing, RekeyLock, At, Goto
<1>4. Started'
  BY DEF Inv, TypeOK, Started, Idle, RekeyLock, At, Goto
<1>5. /\ UNCHANGED <<ring, db, boot, restore, archives, named, crossed, keys, draws>>
      /\ calls' \in Nat /\ calls' >= calls /\ calls' <= MaxCalls
  BY KeyringAssumption DEF Inv, TypeOK, counts, RekeyLock, At, Goto
<1>6. Carried(c)'
  <2>1. Carried(c) /\ call'[c] = x
    BY <1>1 DEF Inv, TypeOK
  <2>2. x.pc = "list" /\ x.op = call[c].op /\ x.name = call[c].name /\ x.val = call[c].val
        /\ x.lab = call[c].lab /\ x.key = call[c].key
    BY <1>1 DEF Inv, TypeOK, Call
  <2> HIDE DEF x
  <2>3. QED
    BY <1>5, <2>1, <2>2 DEF Carried, At
<1> HIDE DEF x
<1>7. QED
  BY <1>1, <1>2, <1>3, <1>4, <1>5, <1>6, CallStep

LEMMA ValueBeginInv ==
  ASSUME Inv, NEW c \in Clients, NEW n \in Names, ValueBegin(c, n)
  PROVE  Inv'
<1> DEFINE x == [Idle EXCEPT !.op = "value", !.pc = "lock", !.name = n]
<1>1. x \in Call /\ call' = [call EXCEPT ![c] = x] /\ (x.op = "set" => call[c].op = "set")
  BY IdleType DEF Inv, TypeOK, Call, Idle, ValueBegin, Request, At
<1>2. /\ lock' \in [readers : SUBSET Clients, writer : SUBSET Clients, queue : SUBSET Clients]
      /\ cipher' \in Key \cup {0}
  BY DEF Inv, TypeOK, ValueBegin, Request, At
<1>3. Locked'
  BY DEF Inv, TypeOK, Locked, Reading, Writing, ValueBegin, Request, At, Idle
<1>4. Started'
  BY DEF Inv, TypeOK, Started, Idle, ValueBegin, Request, At
<1>5. /\ UNCHANGED <<ring, db, boot, restore, archives, named, crossed, keys, draws>>
      /\ calls' \in Nat /\ calls' >= calls /\ calls' <= MaxCalls
  BY KeyringAssumption DEF Inv, TypeOK, counts, ValueBegin, Request, At
<1>6. Carried(c)'
  <2>1. Carried(c) /\ call'[c] = x
    BY <1>1 DEF Inv, TypeOK
  <2>2. x.op = "value" /\ x.pc = "lock" /\ x.name = n
    BY DEF Idle
  <2> HIDE DEF x
  <2>3. QED
    BY <2>1, <2>2 DEF Carried, At
<1> HIDE DEF x
<1>7. QED
  BY <1>1, <1>2, <1>3, <1>4, <1>5, <1>6, CallStep

LEMMA SetFailsInv ==
  ASSUME Inv, NEW c \in Clients, SetFails(c)
  PROVE  Inv'
BY CallEnds DEF SetFails, At, Done, Fault

LEMMA ValueOpenInv ==
  ASSUME Inv, NEW c \in Clients, ValueOpen(c)
  PROVE  Inv'
BY CallEnds DEF ValueOpen, At, Done, counts

LEMMA RekeyFailsInv ==
  ASSUME Inv, NEW c \in Clients, RekeyFails(c)
  PROVE  Inv'
BY CallEnds DEF RekeyFails, At, Done, Fault

LEMMA RekeySwapInv ==
  ASSUME Inv, NEW c \in Clients, RekeySwap(c)
  PROVE  Inv'
BY CallEnds DEF RekeySwap, At, Done, counts

LEMMA SetBeginInv ==
  ASSUME Inv, NEW c \in Clients, NEW n \in Names, NEW v \in Values, NEW l \in Labels,
         SetBegin(c, n, v, l)
  PROVE  Inv'
<1>1. PICK cond \in BOOLEAN :
        /\ cond => n \in Rows
        /\ call' = [call EXCEPT ![c] = [Idle EXCEPT
             !.op = "set", !.pc = "lock", !.name = n, !.val = v, !.lab = l,
             !.ifMatch = IF cond THEN db.rows[n].ver ELSE 0,
             !.saw = IF cond THEN db.rows[n].id ELSE 0]]
  BY DEF SetBegin
<1> DEFINE x == [Idle EXCEPT
             !.op = "set", !.pc = "lock", !.name = n, !.val = v, !.lab = l,
             !.ifMatch = IF cond THEN db.rows[n].ver ELSE 0,
             !.saw = IF cond THEN db.rows[n].id ELSE 0]
<1>2. x \in Call
  <2>1. cond => db.rows[n] \in Row
    BY <1>1 DEF Inv, TypeOK, Database, Rows
  <2>2. cond => db.rows[n].ver \in Nat /\ db.rows[n].id \in Nat
    BY <2>1, KeyringAssumption DEF Row, Draw
  <2>3. QED
    BY <2>2, IdleType DEF Call, Idle
<1>3. /\ x.op = "set" /\ x.pc = "lock" /\ x.name = n /\ x.val = v /\ x.lab = l
      /\ call[c] = Idle /\ boot.is = "up" /\ calls' = calls + 1 /\ calls < MaxCalls
      /\ call' = [call EXCEPT ![c] = x] /\ call'[c] = x
      /\ UNCHANGED <<ring, db, boot, cipher, lock, restore, archives, named, crossed, keys, draws>>
  BY <1>1 DEF SetBegin, Request, Inv, TypeOK, Idle
<1> HIDE DEF x
<1>4. Counted'
  <2>1. Pending' = Pending \cup {c} /\ c \notin Pending
    BY <1>3 DEF Inv, TypeOK, Pending, Idle
  <2>2. Cardinality(Pending') = Cardinality(Pending) + 1
    BY <2>1, PendingFinite, FS_AddElement
  <2>3. QED
    BY <2>2, <1>3, PendingFinite DEF Inv, TypeOK, Counted
<1>5. Locked'
  BY <1>3 DEF Inv, TypeOK, Locked, Reading, Writing, Idle
<1>6. Started'
  BY <1>3 DEF Inv, TypeOK, Started, Idle, At
<1>7. Carried(c)'
  BY <1>3 DEF Carried, At
<1>8. calls' \in Nat /\ calls' <= MaxCalls
  BY <1>3, KeyringAssumption DEF Inv, TypeOK
<1>9. QED
  BY <1>2, <1>3, <1>4, <1>5, <1>6, <1>7, <1>8, CallMoves DEF Inv, TypeOK

LEMMA SetReadInv ==
  ASSUME Inv, NEW c \in Clients, SetRead(c)
  PROVE  Inv'
<1> DEFINE n == call[c].name
           row == db.rows[n]
           same == n \in Rows /\ unchanged(row, call[c].val)
           read == IF same THEN row ELSE NoRow
           x == [call[c] EXCEPT !.pc = "write", !.row = read]
<1>1. CASE Done(c) /\ lock' = Unlocked(c)
  BY <1>1, CallEnds DEF SetRead, Done, At, counts
<1>2. CASE /\ call' = [call EXCEPT ![c].pc = "write", ![c].row = read]
           /\ UNCHANGED lock
  <2>1. /\ call[c] \in Call /\ call[c].op = "set" /\ call[c].pc = "read" /\ Carried(c)
        /\ UNCHANGED <<ring, db, boot, cipher, lock, restore, archives, named, crossed, counts>>
    BY <1>2 DEF SetRead, At, Inv, TypeOK
  <2>2. read \in Row \cup {NoRow} /\ Fresh(read)
    <3>1. n \in Names
      BY <2>1 DEF Carried
    <3>2. row \in Row \cup {NoRow} /\ Fresh(row)
      BY <3>1 DEF Inv, TypeOK, Database, Sound, Fresh
    <3>3. QED
      BY <3>2 DEF Fresh
  <2> HIDE DEF read
  <2>3. x \in Call /\ call' = [call EXCEPT ![c] = x] /\ call'[c] = x
    BY <1>2, <2>1, <2>2 DEF Call, Inv, TypeOK
  <2>4. /\ x.op = "set" /\ x.pc = "write" /\ x.name = call[c].name /\ x.val = call[c].val
        /\ x.lab = call[c].lab /\ x.row = read
    BY <2>1 DEF Call
  <2> HIDE DEF x
  <2>5. Locked'
    BY <2>1, <2>3, <2>4 DEF Inv, TypeOK, Locked, Reading, Writing
  <2>6. Started'
    BY <2>1, <2>3, <2>4 DEF Inv, TypeOK, Started, Idle, At
  <2>7. Carried(c)'
    BY <2>1, <2>2, <2>3, <2>4 DEF Carried, At, Fresh, counts
  <2>8. /\ UNCHANGED <<ring, db, boot, restore, archives, named, crossed, keys, draws>>
        /\ calls' \in Nat /\ calls' >= calls /\ calls' <= MaxCalls
        /\ lock' \in [readers : SUBSET Clients, writer : SUBSET Clients, queue : SUBSET Clients]
        /\ cipher' \in Key \cup {0}
    BY <2>1 DEF Inv, TypeOK, counts
  <2>9. QED
    BY <2>1, <2>3, <2>4, <2>5, <2>6, <2>7, <2>8, CallStep
<1>3. QED
  BY <1>1, <1>2 DEF SetRead

LEMMA ValueReadInv ==
  ASSUME Inv, NEW c \in Clients, ValueRead(c)
  PROVE  Inv'
<1> DEFINE row == db.rows[call[c].name]
           x == [call[c] EXCEPT !.pc = "open", !.row = row]
<1>1. CASE call[c].name \notin Rows
  BY <1>1, CallEnds DEF ValueRead, Done, At, counts
<1>2. CASE call[c].name \in Rows
  <2>1. /\ call[c] \in Call /\ call[c].op = "value" /\ call[c].pc = "read" /\ Carried(c)
        /\ UNCHANGED <<ring, db, boot, cipher, lock, restore, archives, named, crossed, counts>>
    BY <1>2 DEF ValueRead, At, Inv, TypeOK
  <2>2. row \in Row /\ row # NoRow /\ Fresh(row)
    BY <1>2 DEF Inv, TypeOK, Database, Sound, Fresh, Rows
  <2>3. x \in Call /\ call' = [call EXCEPT ![c] = x] /\ call'[c] = x
    BY <1>2, <2>1, <2>2 DEF Call, Inv, TypeOK, ValueRead
  <2>4. x.op = "value" /\ x.pc = "open" /\ x.name = call[c].name /\ x.row = row
    BY <2>1 DEF Call
  <2> HIDE DEF x
  <2>5. Locked'
    BY <2>1, <2>3, <2>4 DEF Inv, TypeOK, Locked, Reading, Writing
  <2>6. Started'
    BY <2>1, <2>3, <2>4 DEF Inv, TypeOK, Started, Idle, At
  <2>7. Carried(c)'
    BY <2>1, <2>2, <2>3, <2>4 DEF Carried, At, Fresh, counts
  <2>8. /\ UNCHANGED <<ring, db, boot, restore, archives, named, crossed, keys, draws>>
        /\ calls' \in Nat /\ calls' >= calls /\ calls' <= MaxCalls
        /\ lock' \in [readers : SUBSET Clients, writer : SUBSET Clients, queue : SUBSET Clients]
        /\ cipher' \in Key \cup {0}
    BY <2>1 DEF Inv, TypeOK, counts
  <2>9. QED
    BY <2>1, <2>3, <2>4, <2>5, <2>6, <2>7, <2>8, CallStep
<1>3. QED
  BY <1>1, <1>2

LEMMA RekeyListInv ==
  ASSUME Inv, NEW c \in Clients, RekeyList(c)
  PROVE  Inv'
<1> DEFINE x == [call[c] EXCEPT !.pc = "commit", !.db = db]
<1>1. CASE Done(c) /\ lock' = Unlocked(c)
  BY <1>1, CallEnds DEF RekeyList, Done, At, counts
<1>2. CASE call' = [call EXCEPT ![c].pc = "commit", ![c].db = db] /\ UNCHANGED lock
  <2>1. /\ call[c] \in Call /\ call[c].op = "rekey" /\ call[c].pc = "list" /\ Carried(c)
        /\ UNCHANGED <<ring, db, boot, cipher, lock, restore, archives, named, crossed, counts>>
    BY <1>2 DEF RekeyList, At, Inv, TypeOK
  <2>2. x \in Call /\ call' = [call EXCEPT ![c] = x] /\ call'[c] = x
    BY <1>2, <2>1 DEF Call, Inv, TypeOK
  <2>3. x.op = "rekey" /\ x.pc = "commit" /\ x.key = call[c].key /\ x.db = db
    BY <2>1 DEF Call
  <2> HIDE DEF x
  <2>4. Locked'
    BY <2>1, <2>2, <2>3 DEF Inv, TypeOK, Locked, Reading, Writing
  <2>5. Started'
    BY <2>1, <2>2, <2>3 DEF Inv, TypeOK, Started, Idle, At
  <2>6. Carried(c)'
    BY <2>1, <2>2, <2>3 DEF Carried, At, counts
  <2>7. /\ UNCHANGED <<ring, db, boot, restore, archives, named, crossed, keys, draws>>
        /\ calls' \in Nat /\ calls' >= calls /\ calls' <= MaxCalls
        /\ lock' \in [readers : SUBSET Clients, writer : SUBSET Clients, queue : SUBSET Clients]
        /\ cipher' \in Key \cup {0}
    BY <2>1 DEF Inv, TypeOK, counts
  <2>8. QED
    BY <2>1, <2>2, <2>3, <2>4, <2>5, <2>6, <2>7, CallStep
<1>3. QED
  BY <1>1, <1>2 DEF RekeyList

\* While a call reads, nobody writes, and the cipher is the current key.
LEMMA ReaderSees ==
  ASSUME Inv, NEW c \in Clients, Reading(c)
  PROVE  /\ boot.is = "up" /\ cipher = db.current /\ db.current \in Key
         /\ \A d \in Clients : ~Writing(d)
<1>1. call[c] # Idle
  BY DEF Reading, Idle
<1>2. boot.is = "up"
  BY <1>1 DEF Inv, Started
<1>3. \A d \in Clients : ~Writing(d)
  BY DEF Inv, Locked
<1>4. QED
  BY <1>2, <1>3 DEF Inv, TypeOK, Database, Started, Writing, At

\* What a set has to store: a row under the current key, and under a revision that nobody
\* drew yet or that names the value already.
LEMMA SetStores ==
  ASSUME Inv, NEW c \in Clients, At(c, "set", "write"), call' = [call EXCEPT ![c] = Idle]
  PROVE  LET n == call[c].name
             cur == db.rows[n]
             new == Stored(c, cur)
         IN  /\ boot.is = "up" /\ cipher = db.current /\ cipher \in Key
             /\ \A d \in Clients : ~Writing(d)
             /\ draws \in Nat /\ draws + 1 <= calls /\ draws + 1 \in Draw
             /\ Cardinality(Pending') = Cardinality(Pending) - 1 /\ Cardinality(Pending) \in Nat
             /\ n \in Names /\ cur \in Row \cup {NoRow}
             /\ call[c].val \in Values /\ call[c].lab \in Labels
             /\ new \in Row /\ new # NoRow /\ new.key = db.current
             /\ \/ new.rev = draws + 1 /\ new.val = call[c].val
                \/ new.rev <= draws /\ named[new.rev] = new.val
<1> DEFINE n == call[c].name
           cur == db.rows[n]
           new == Stored(c, cur)
<1>0. call[c] \in Call /\ call[c].op = "set" /\ call[c].pc = "write"
  BY DEF At, Inv, TypeOK
<1>1. Reading(c) /\ Carried(c)
  BY <1>0 DEF Reading, Inv
<1>2. /\ boot.is = "up" /\ cipher = db.current /\ cipher \in Key
      /\ \A d \in Clients : ~Writing(d)
  BY <1>1, ReaderSees
<1>3. c \in Pending /\ Pending' = Pending \ {c}
  BY <1>0 DEF Pending, Idle, Inv, TypeOK
<1>4. /\ draws \in Nat /\ draws + 1 <= calls /\ draws + 1 \in Draw
      /\ Cardinality(Pending') = Cardinality(Pending) - 1 /\ Cardinality(Pending) \in Nat
  <2>1. Cardinality(Pending') = Cardinality(Pending) - 1 /\ Cardinality(Pending') \in Nat
    BY <1>3, PendingFinite, FS_RemoveElement, FS_CardinalityType
  <2>2. QED
    BY <2>1, PendingFinite, KeyringAssumption DEF Inv, TypeOK, Counted, Draw
<1>5. n \in Names /\ cur \in Row \cup {NoRow} /\ call[c].val \in Values /\ call[c].lab \in Labels
  BY <1>1, <1>0 DEF Carried, Inv, TypeOK, Database
<1>6. /\ new \in Row /\ new # NoRow /\ new.key = db.current
      /\ \/ new.rev = draws + 1 /\ new.val = call[c].val
         \/ new.rev <= draws /\ named[new.rev] = new.val
  <2> DEFINE read == call[c].row
  <2>1. read \in Row \cup {NoRow} /\ Fresh(read)
    BY <1>0, <1>1 DEF Call, Carried, At
  <2>2. new.ver \in Nat /\ new.id \in Draw /\ new.lab = call[c].lab
    BY <1>4, <1>5 DEF Stored, Row
  <2>3. CASE read = NoRow
    <3>1. new.val = call[c].val /\ new.key = cipher /\ new.rev = draws + 1
      BY <2>3 DEF Stored
    <3>2. new \in Row
      BY <2>2, <3>1, <1>2, <1>4, <1>5 DEF Stored, Row
    <3>3. QED
      BY <3>1, <3>2, <1>2, KeyringAssumption
  <2>4. CASE read # NoRow
    <3>1. new.val = read.val /\ new.key = read.key /\ new.rev = read.rev
      BY <2>4 DEF Stored
    <3>2. new \in Row
      BY <2>1, <2>2, <2>4, <3>1, <1>5 DEF Stored, Row
    <3>3. QED
      BY <2>1, <2>4, <3>1, <3>2, KeyringAssumption DEF Fresh, Drawn
  <2>5. QED
    BY <2>3, <2>4
<1>7. QED
  BY <1>2, <1>4, <1>5, <1>6

LEMMA SetWriteInv ==
  ASSUME Inv, NEW c \in Clients, SetWrite(c)
  PROVE  Inv'
<1> DEFINE n == call[c].name
           cur == db.rows[n]
           new == Stored(c, cur)
<1>1. /\ call[c] \in Call /\ call[c].op = "set" /\ call[c].pc = "write"
      /\ call' = [call EXCEPT ![c] = Idle] /\ lock' = Unlocked(c)
      /\ UNCHANGED <<ring, boot, cipher, restore, archives, keys, calls>>
  BY DEF SetWrite, At, Done, Inv, TypeOK
<1>2. CASE UNCHANGED <<db, named, crossed, draws>>
  BY <1>1, <1>2, CallEnds DEF At
<1>3. CASE /\ draws' = IF new.rev = draws + 1 \/ new.id = draws + 1 THEN draws + 1 ELSE draws
           /\ db' = [db EXCEPT !.rows[n] = new]
           /\ named' = IF new.rev = draws + 1 THEN [named EXCEPT ![new.rev] = call[c].val]
                       ELSE named
           /\ crossed' \in BOOLEAN
  <2>2. /\ boot.is = "up" /\ cipher = db.current /\ cipher \in Key
        /\ \A d \in Clients : ~Writing(d)
    BY <1>1, SetStores DEF At
  <2>4. /\ draws \in Nat /\ draws + 1 <= calls /\ draws + 1 \in Draw
        /\ Cardinality(Pending') = Cardinality(Pending) - 1 /\ Cardinality(Pending) \in Nat
    BY <1>1, SetStores DEF At
  <2>5. n \in Names /\ cur \in Row \cup {NoRow} /\ call[c].val \in Values /\ call[c].lab \in Labels
    BY <1>1, SetStores DEF At
  <2>6. /\ new \in Row /\ new # NoRow /\ new.key = db.current
        /\ \/ new.rev = draws + 1 /\ new.val = call[c].val
           \/ new.rev <= draws /\ named[new.rev] = new.val
    BY <1>1, SetStores DEF At
  <2> HIDE DEF new
  <2>7. /\ draws' \in Nat /\ draws' >= draws /\ draws' <= draws + 1
        /\ \A r \in Draw : r <= draws => named'[r] = named[r]
        /\ named' \in [Draw -> Values \cup {Unnamed}]
        /\ \A r \in Draw : r > draws' => named'[r] = Unnamed
        /\ Drawn(new, draws', named')
    BY <1>3, <2>4, <2>5, <2>6 DEF Drawn, Row, Inv, TypeOK, Draw
  <2>8. db' \in Database /\ db'.current = db.current /\ db'.is = db.is
        /\ db'.rows[n] = new /\ \A m \in Names \ {n} : db'.rows[m] = db.rows[m]
    BY <1>3, <2>5, <2>6 DEF Inv, TypeOK, Database
  <2>9. TypeOK'
    BY <1>1, <1>3, <2>7, <2>8, IdleType DEF Inv, TypeOK, Unlocked
  <2>10. Counted'
    BY <1>1, <2>4, <2>7 DEF Inv, TypeOK, Counted
  <2>11. Locked'
    BY <1>1 DEF Inv, TypeOK, Locked, Reading, Writing, Idle, Unlocked
  <2>12. Sound(db, keys, draws, named)'
    <3>1. Sound(db, keys, draws', named')
      BY <2>7, SoundGrows DEF Inv, TypeOK
    <3>2. QED
      BY <3>1, <1>1, <2>6, <2>7, <2>8 DEF Sound
  <2>13. Started'
    BY <1>1, <2>2, <2>8 DEF Inv, TypeOK, Started, Idle
  <2>14. ASSUME NEW d \in Clients PROVE Carried(d)'
    <3>1. CASE d = c
      BY <3>1, <1>1, IdleCarried DEF Inv, TypeOK
    <3>2. CASE d # c
      <4>1. call'[d] = call[d] /\ call[d] \in Call /\ Carried(d) /\ ~Writing(d)
        BY <3>2, <1>1, <2>2 DEF Inv, TypeOK
      <4>2. Fresh(call[d].row) => Fresh(call[d].row)'
        BY <4>1, <1>1, <2>7, <2>8 DEF Fresh, Drawn, Call, Row, Inv, TypeOK, Draw
      <4>3. At(d, "backup", "keys") => Sound(call[d].db, keys', draws', named')
        <5>1. call[d].db \in Database /\ keys' = keys /\ keys \in Nat /\ keys <= keys /\ draws \in Nat
          BY <4>1, <1>1 DEF Call, Inv, TypeOK
        <5>2. At(d, "backup", "keys") => Sound(call[d].db, keys, draws, named)
          BY <4>1 DEF Carried
        <5>3. QED
          BY <5>1, <5>2, <2>7, SoundGrows
      <4>4. QED
        BY <4>1, <4>2, <4>3, <1>1 DEF Carried, At, Writing
    <3>3. QED
      BY <3>1, <3>2
  <2>15. \A a \in archives' : Archived(a, keys', draws', named')
    BY <1>1, <2>7, ArchivedGrows DEF Inv, TypeOK
  <2>16. Restoring'
    BY <1>1, <2>2, <2>8 DEF Inv, Restoring, Started
  <2>17. QED
    BY <2>7, <2>9, <2>10, <2>11, <2>12, <2>13, <2>14, <2>15, <2>16, <1>1 DEF Inv
<1>4. QED
  BY <1>2, <1>3 DEF SetWrite, Inv, TypeOK

LEMMA DeleteInv ==
  ASSUME Inv, NEW n \in Names, Delete(n)
  PROVE  Inv'
<1>1. /\ boot.is = "up" /\ db' = [db EXCEPT !.rows[n] = NoRow]
      /\ UNCHANGED <<ring, boot, cipher, lock, call, restore, archives, named, crossed,
                     keys, draws, calls>>
  BY DEF Delete, counts
<1>2. /\ db' \in Database /\ db'.current = db.current /\ db'.is = db.is
      /\ db'.rows[n] = NoRow /\ \A m \in Names \ {n} : db'.rows[m] = db.rows[m]
  BY <1>1 DEF Inv, TypeOK, Database
<1>3. TypeOK'
  BY <1>1, <1>2 DEF Inv, TypeOK
<1>4. Counted'
  BY <1>1, CountedKept DEF Pending, Inv, TypeOK
<1>5. Locked'
  BY <1>1 DEF Inv, Locked, Reading, Writing
<1>6. Sound(db, keys, draws, named)'
  BY <1>1, <1>2 DEF Inv, Sound
<1>7. Started'
  BY <1>1, <1>2 DEF Inv, Started, At
<1>8. ASSUME NEW d \in Clients PROVE Carried(d)'
  <2>1. Carried(d)
    BY DEF Inv
  <2>2. \A m \in Rows' : m \in Rows /\ db'.rows[m] = db.rows[m]
    BY <1>2 DEF Rows
  <2>3. QED
    BY <1>1, <1>2, <2>1, <2>2 DEF Carried, At, Fresh
<1>9. Restoring'
  BY <1>1, <1>2 DEF Inv, Restoring, Started
<1>10. QED
  BY <1>1, <1>3, <1>4, <1>5, <1>6, <1>7, <1>8, <1>9 DEF Inv

\* A key file is made, whole or short: everything on record is about other keys.
LEMMA KeyMade ==
  ASSUME Inv, keys < MaxKeys, keys' = keys + 1, NEW st \in {"short", "whole"},
         ring' = [ring EXCEPT ![keys + 1] = st],
         UNCHANGED <<db, draws, named, archives, restore>>
  PROVE  /\ keys + 1 \in Key /\ keys' \in Nat /\ keys' <= MaxKeys
         /\ ring' \in [Key -> {"none", "short", "whole"}] /\ ring'[keys + 1] = st
         /\ \A k \in Key : k <= keys => ring'[k] = ring[k]
         /\ \A k \in Key : k > keys' => ring'[k] = "none"
         /\ Sound(db, keys', draws', named')
         /\ \A a \in archives : Archived(a, keys', draws', named')
         /\ Restoring'
         /\ \A d \in Clients : call'[d] = call[d] => Carried(d)'
<1>1. /\ keys + 1 \in Key /\ keys \in Nat /\ keys' \in Nat /\ keys <= keys' /\ keys' <= MaxKeys
      /\ ring' \in [Key -> {"none", "short", "whole"}] /\ ring'[keys + 1] = st
      /\ \A k \in Key : k <= keys => ring'[k] = ring[k]
      /\ \A k \in Key : k > keys' => ring'[k] = "none"
      /\ draws \in Nat /\ draws' = draws /\ draws <= draws' /\ named' = named
  BY KeyringAssumption DEF Inv, TypeOK, Key
<1>2. Sound(db, keys', draws', named')
  BY <1>1, SoundGrows DEF Inv, TypeOK
<1>3. \A a \in archives : Archived(a, keys', draws', named')
  BY <1>1, ArchivedGrows DEF Inv, TypeOK
<1>4. Restoring'
  <2>1. ASSUME restore.pc # "none", NEW k \in restore.left PROVE ring'[k] = "none"
    <3>1. k \in Key /\ k \in restore.from.files /\ restore.from \in archives
      BY <2>1 DEF Inv, TypeOK, Restoring
    <3>2. k <= keys
      BY <3>1 DEF Inv, Archived
    <3>3. QED
      BY <1>1, <2>1, <3>1, <3>2 DEF Inv, Restoring
  <2>2. QED
    BY <2>1 DEF Inv, Restoring
<1>5. ASSUME NEW d \in Clients, call'[d] = call[d] PROVE Carried(d)'
  <2>1. call[d] \in Call /\ Carried(d)
    BY DEF Inv, TypeOK
  <2>2. call[d].op = "rekey" => ring'[call[d].key] = "whole" /\ call[d].key <= keys'
    BY <1>1, <2>1 DEF Carried, Call, Key
  <2>3. At(d, "backup", "keys") =>
          /\ Sound(call[d].db, keys', draws', named')
          /\ Backed(call[d].db, {k \in Key : ring'[k] = "whole"})
    <3>1. call[d].db \in Database
      BY <2>1 DEF Call
    <3>2. SUFFICES ASSUME At(d, "backup", "keys")
                   PROVE  /\ Sound(call[d].db, keys', draws', named')
                          /\ Backed(call[d].db, {k \in Key : ring'[k] = "whole"})
      OBVIOUS
    <3>3. /\ Sound(call[d].db, keys, draws, named)
          /\ Backed(call[d].db, {k \in Key : ring[k] = "whole"})
      BY <2>1, <3>2 DEF Carried
    <3>4. Sound(call[d].db, keys', draws', named')
      BY <1>1, <3>1, <3>3, SoundGrows
    <3>5. Backed(call[d].db, {k \in Key : ring'[k] = "whole"})
      BY <1>1, <3>1, <3>3 DEF Backed, Sound, Database
    <3>6. QED
      BY <3>4, <3>5
  <2>4. QED
    BY <1>1, <1>5, <2>1, <2>2, <2>3 DEF Carried, At, Fresh, Rows
<1>6. QED
  BY <1>1, <1>2, <1>3, <1>4, <1>5

LEMMA RekeyBeginInv ==
  ASSUME Inv, NEW c \in Clients, RekeyBegin(c)
  PROVE  Inv'
<1> DEFINE x == [Idle EXCEPT !.op = "rekey", !.pc = "queue", !.key = keys + 1]
<1>1. /\ boot.is = "up" /\ call[c] = Idle /\ calls < MaxCalls /\ calls' = calls + 1
      /\ keys < MaxKeys /\ keys' = keys + 1 /\ ring' = [ring EXCEPT ![keys + 1] = "whole"]
      /\ call' = [call EXCEPT ![c] = x] /\ call'[c] = x
      /\ UNCHANGED <<db, boot, cipher, lock, restore, archives, named, crossed, draws>>
  BY DEF RekeyBegin, Request, Create, Inv, TypeOK
<1>2. /\ keys + 1 \in Key /\ keys' \in Nat /\ keys' <= MaxKeys
      /\ ring' \in [Key -> {"none", "short", "whole"}] /\ ring'[keys + 1] = "whole"
      /\ \A k \in Key : k <= keys => ring'[k] = ring[k]
      /\ \A k \in Key : k > keys' => ring'[k] = "none"
      /\ Sound(db, keys', draws', named')
      /\ \A a \in archives : Archived(a, keys', draws', named')
      /\ Restoring'
      /\ \A d \in Clients : call'[d] = call[d] => Carried(d)'
  BY <1>1, KeyMade
<1>3. x \in Call /\ x.op = "rekey" /\ x.pc = "queue" /\ x.key = keys + 1
  BY <1>2, IdleType DEF Call, Idle
<1> HIDE DEF x
<1>4. TypeOK'
  BY <1>1, <1>2, <1>3, KeyringAssumption DEF Inv, TypeOK
<1>5. Counted'
  <2>1. Pending' \subseteq Pending
    BY <1>1, <1>3 DEF Pending, Inv, TypeOK
  <2>2. QED
    BY <1>1, <2>1, CountedKept DEF Inv, TypeOK
<1>6. Locked'
  BY <1>1, <1>3 DEF Inv, TypeOK, Locked, Reading, Writing, Idle
<1>7. Started'
  <2>1. db.current \in Key => ring'[db.current] = ring[db.current]
    BY <1>2 DEF Inv, Sound
  <2>2. db.current # 0 => db.current \in Key
    BY DEF Inv, TypeOK, Database
  <2>3. \A d \in Clients : At(d, "rekey", "swap") => At(d, "rekey", "swap")'
    BY <1>1 DEF At, Idle, Inv, TypeOK
  <2>4. QED
    BY <1>1, <2>1, <2>2, <2>3 DEF Inv, Started
<1>8. ASSUME NEW d \in Clients PROVE Carried(d)'
  <2>1. CASE d = c
    BY <1>1, <1>2, <1>3, <2>1, KeyringAssumption DEF Carried, At, Key
  <2>2. CASE d # c
    BY <1>1, <1>2, <2>2 DEF Inv, TypeOK
  <2>3. QED
    BY <2>1, <2>2
<1>9. QED
  BY <1>1, <1>2, <1>4, <1>5, <1>6, <1>7, <1>8 DEF Inv

\* The transaction of a rekey changes the key of every row, and nothing else of it.
LEMMA Reseals ==
  ASSUME Inv, NEW c \in Clients, RekeyCommit(c), Rekeyable(c)
  PROVE  LET k == call[c].key
         IN  /\ k \in Key /\ k # 0 /\ k <= keys /\ ring[k] = "whole"
             /\ db' \in Database /\ db'.current = k /\ db'.is = db.is
             /\ \A n \in Names : db.rows[n] = NoRow => db'.rows[n] = NoRow
             /\ \A n \in Names : db.rows[n] # NoRow =>
                  db'.rows[n] = [db.rows[n] EXCEPT !.val = db.rows[n].val, !.key = k]
<1> DEFINE k == call[c].key
<1>1. call[c] \in Call /\ call[c].op = "rekey" /\ call[c].pc = "commit" /\ Carried(c)
  BY DEF RekeyCommit, At, Inv, TypeOK
<1>2. k \in Key /\ k # 0 /\ k <= keys /\ ring[k] = "whole"
  BY <1>1 DEF Carried, Call
<1>3. /\ db' \in Database /\ db'.current = k /\ db'.is = db.is
      /\ \A n \in Names : db.rows[n] = NoRow => db'.rows[n] = NoRow
      /\ \A n \in Names : db.rows[n] # NoRow =>
           db'.rows[n] = [db.rows[n] EXCEPT !.val = db.rows[n].val, !.key = k]
  <2>1. db' = Promoted(Resealed(c), k)
    BY DEF RekeyCommit
  <2>2. \A n \in Names : n \in Rows <=> n \in Listed(c)
    BY DEF Rekeyable
  <2>3. \A n \in Rows : call[c].db.rows[n] = db.rows[n]
    BY <1>1 DEF Carried, At
  <2>4. /\ db'.is = db.is /\ db'.current = k /\ db'.keys = db.keys \cup {k}
        /\ db'.rows = [n \in Names |->
             IF n \in Listed(c)
             THEN [db.rows[n] EXCEPT !.val = call[c].db.rows[n].val, !.key = k]
             ELSE db.rows[n]]
        /\ db' = [is |-> db'.is, keys |-> db'.keys, current |-> db'.current, rows |-> db'.rows]
    BY <2>1 DEF Promoted, Resealed, Inv, TypeOK, Database
  <2>5. \A n \in Names : db.rows[n] # NoRow =>
           [db.rows[n] EXCEPT !.val = db.rows[n].val, !.key = k] \in Row
    <3>1. \A r \in Row : [r EXCEPT !.val = r.val, !.key = k] \in Row
      BY <1>2 DEF Row
    <3>2. QED
      BY <3>1 DEF Inv, TypeOK, Database
  <2>6. /\ \A n \in Names : db.rows[n] = NoRow => db'.rows[n] = NoRow
        /\ \A n \in Names : db.rows[n] # NoRow =>
             db'.rows[n] = [db.rows[n] EXCEPT !.val = db.rows[n].val, !.key = k]
    BY <2>2, <2>3, <2>4 DEF Rows
  <2>7. db'.rows \in [Names -> Row \cup {NoRow}]
    BY <2>4, <2>5, <2>6
  <2>8. QED
    BY <1>2, <2>4, <2>6, <2>7 DEF Inv, TypeOK, Database
<1>4. QED
  BY <1>2, <1>3

LEMMA RekeyCommitInv ==
  ASSUME Inv, NEW c \in Clients, RekeyCommit(c)
  PROVE  Inv'
<1>1. CASE ~Rekeyable(c)
  BY <1>1, CallEnds DEF RekeyCommit, Done, At, counts
<1>2. CASE Rekeyable(c)
  <2> DEFINE k == call[c].key
             x == [call[c] EXCEPT !.pc = "swap"]
  <2>1. /\ call[c] \in Call /\ call[c].op = "rekey" /\ call[c].pc = "commit" /\ Carried(c)
        /\ UNCHANGED <<ring, boot, cipher, lock, restore, archives, named, crossed, keys, draws,
                       calls>>
        /\ Writing(c) /\ boot.is = "up"
    BY <1>2 DEF RekeyCommit, At, Inv, TypeOK, counts, Writing, Started, Idle
  <2>2. k \in Key /\ k # 0 /\ k <= keys /\ ring[k] = "whole"
    BY <1>2, Reseals
  <2>3. /\ db' \in Database /\ db'.current = k /\ db'.is = db.is
        /\ \A n \in Names : db.rows[n] = NoRow => db'.rows[n] = NoRow
        /\ \A n \in Names : db.rows[n] # NoRow =>
             db'.rows[n] = [db.rows[n] EXCEPT !.val = db.rows[n].val, !.key = k]
    BY <1>2, Reseals
  <2>4. x \in Call /\ x.op = "rekey" /\ x.pc = "swap" /\ x.key = k
    BY <2>1 DEF Call
  <2>5. call' = [call EXCEPT ![c] = x] /\ call'[c] = x
    BY <1>2, <2>1 DEF RekeyCommit, Goto, Inv, TypeOK
  <2> HIDE DEF x
  <2>6. TypeOK'
    BY <2>1, <2>3, <2>4, <2>5 DEF Inv, TypeOK
  <2>7. Counted'
    <3>1. Pending' \subseteq Pending
      BY <2>4, <2>5 DEF Pending, Inv, TypeOK
    <3>2. QED
      BY <2>1, <3>1, CountedKept DEF Inv, TypeOK
  <2>8. Locked'
    BY <2>1, <2>4, <2>5 DEF Inv, TypeOK, Locked, Reading, Writing
  <2>9. Sound(db, keys, draws, named)'
    <3>1. ASSUME NEW n \in Names, db'.rows[n] # NoRow
          PROVE  db'.rows[n].key = k /\ Drawn(db'.rows[n], draws, named)
      <4>1. db.rows[n] # NoRow /\ db.rows[n] \in Row /\ Drawn(db.rows[n], draws, named)
        BY <2>3, <3>1 DEF Inv, TypeOK, Database, Sound
      <4>2. /\ db'.rows[n].key = k /\ db'.rows[n].rev = db.rows[n].rev
            /\ db'.rows[n].val = db.rows[n].val
        BY <2>3, <4>1 DEF Row
      <4>3. QED
        BY <4>1, <4>2 DEF Drawn
    <3>2. QED
      BY <2>1, <2>2, <2>3, <3>1 DEF Sound
  <2>10. Started'
    <3>1. At(c, "rekey", "swap")'
      BY <2>4, <2>5 DEF At
    <3>2. ring'[db'.current] = "whole" /\ db'.current # 0
      BY <2>1, <2>2, <2>3
    <3>3. db'.is = "whole" /\ boot'.key = 0 /\ boot'.is = "up"
      BY <2>1, <2>3 DEF Inv, Started
    <3>4. QED
      BY <3>1, <3>2, <3>3 DEF Started
  <2>11. ASSUME NEW d \in Clients PROVE Carried(d)'
    <3>1. CASE d = c
      <4>1. call'[c].op = "rekey" /\ call'[c].pc = "swap" /\ call'[c].key = k
        BY <2>4, <2>5
      <4>2. ring'[k] = "whole" /\ keys' = keys /\ db'.current = k
        BY <2>1, <2>2, <2>3
      <4>3. QED
        BY <2>2, <3>1, <4>1, <4>2 DEF Carried, At
    <3>2. CASE d # c
      <4>1. call'[d] = call[d] /\ Carried(d) /\ ~Reading(d) /\ ~Writing(d)
        BY <2>1, <2>5, <3>2 DEF Inv, TypeOK, Locked
      <4>2. QED
        BY <2>1, <4>1 DEF Carried, At, Reading, Writing
    <3>3. QED
      BY <3>1, <3>2
  <2>12. Restoring'
    BY <2>1, <2>2, <2>3 DEF Inv, Restoring
  <2>13. QED
    BY <2>1, <2>6, <2>7, <2>8, <2>9, <2>10, <2>11, <2>12 DEF Inv
<1>3. QED
  BY <1>1, <1>2

LEMMA BackupSnapshotInv ==
  ASSUME Inv, NEW c \in Clients, BackupSnapshot(c)
  PROVE  Inv'
<1>1. PICK full \in BOOLEAN :
        call' = [call EXCEPT ![c] = [Idle EXCEPT !.op = "backup", !.pc = "keys", !.db = db,
                                                 !.full = full]]
  BY DEF BackupSnapshot
<1> DEFINE x == [Idle EXCEPT !.op = "backup", !.pc = "keys", !.db = db, !.full = full]
<1>2. x \in Call /\ x.op = "backup" /\ x.pc = "keys" /\ x.db = db
  BY IdleType DEF Call, Idle, Inv, TypeOK
<1>3. /\ call' = [call EXCEPT ![c] = x] /\ call'[c] = x /\ call[c] = Idle /\ boot.is = "up"
      /\ UNCHANGED <<ring, db, boot, cipher, lock, restore, archives, named, crossed, keys, draws>>
      /\ calls' = calls + 1 /\ calls < MaxCalls
  BY <1>1 DEF BackupSnapshot, Request, Inv, TypeOK
<1> HIDE DEF x
<1>4. Locked'
  BY <1>2, <1>3 DEF Inv, TypeOK, Locked, Reading, Writing, Idle
<1>5. Started'
  BY <1>2, <1>3 DEF Inv, TypeOK, Started, Idle, At
<1>6. Carried(c)'
  <2>1. Sound(db, keys, draws, named)
    BY DEF Inv
  <2>2. Backed(db, {k \in Key : ring[k] = "whole"})
    <3>1. db.current \in Key /\ ring[db.current] = "whole"
      BY <1>3 DEF Inv, Started, TypeOK, Database
    <3>2. QED
      BY <2>1, <3>1 DEF Backed, Sound
  <2>3. QED
    BY <1>2, <1>3, <2>1, <2>2 DEF Carried, At
<1>7. /\ calls' \in Nat /\ calls' >= calls /\ calls' <= MaxCalls
      /\ lock' \in [readers : SUBSET Clients, writer : SUBSET Clients, queue : SUBSET Clients]
      /\ cipher' \in Key \cup {0}
  BY <1>3, KeyringAssumption DEF Inv, TypeOK
<1>8. QED
  BY <1>2, <1>3, <1>4, <1>5, <1>6, <1>7, CallStep

LEMMA BackupStreamInv ==
  ASSUME Inv, NEW c \in Clients, BackupStream(c)
  PROVE  Inv'
<1> DEFINE files == IF call[c].full THEN BackedUp ELSE {}
           torn == {k \in files : ring[k] = "short"}
           a == [db |-> call[c].db, full |-> call[c].full, files |-> files, torn |-> torn]
<1>1. /\ call[c] \in Call /\ call[c].op = "backup" /\ call[c].pc = "keys" /\ Carried(c)
      /\ archives' = archives \cup {a} /\ call' = [call EXCEPT ![c] = Idle] /\ call'[c] = Idle
      /\ UNCHANGED <<ring, db, boot, cipher, lock, restore, named, crossed, keys, draws, calls>>
  BY DEF BackupStream, At, Inv, TypeOK, Done, counts
<1>2. Sound(call[c].db, keys, draws, named) /\ Backed(call[c].db, {k \in Key : ring[k] = "whole"})
  BY <1>1 DEF Carried, At
<1>3. files \subseteq Key /\ a \in Archive
  BY <1>1 DEF BackedUp, Archive, Call
<1>4. Archived(a, keys, draws, named)
  <2>1. \A k \in files : k <= keys
    BY KeyringAssumption DEF BackedUp, Inv, TypeOK, Key
  <2>2. call[c].full => Backed(call[c].db, files \ torn)
    BY <1>2 DEF Backed, BackedUp
  <2>3. QED
    BY <1>2, <2>1, <2>2 DEF Archived
<1> HIDE DEF a
<1>5. TypeOK'
  BY <1>1, <1>3, IdleType DEF Inv, TypeOK
<1>6. Counted'
  <2>1. Pending' \subseteq Pending
    BY <1>1 DEF Pending, Idle, Inv, TypeOK
  <2>2. QED
    BY <1>1, <2>1, CountedKept DEF Inv, TypeOK
<1>7. Locked'
  BY <1>1 DEF Inv, TypeOK, Locked, Reading, Writing, Idle
<1>8. Started'
  BY <1>1 DEF Inv, TypeOK, Started, At
<1>9. ASSUME NEW d \in Clients PROVE Carried(d)'
  <2>1. CASE d = c
    BY <1>1, <2>1, IdleCarried
  <2>2. CASE d # c
    BY <1>1, <2>2, CarriedKept DEF Inv, TypeOK
  <2>3. QED
    BY <2>1, <2>2
<1>10. Restoring'
  BY <1>1 DEF Inv, Restoring
<1>11. QED
  BY <1>1, <1>4, <1>5, <1>6, <1>7, <1>8, <1>9, <1>10 DEF Inv

\* While the server is not up, no call is in progress and the lock is free.
LEMMA NotUp ==
  ASSUME Inv, boot.is # "up"
  PROVE  \A d \in Clients : call[d] = Idle /\ ~Reading(d) /\ ~Writing(d)
<1>1. \A d \in Clients : call[d] = Idle
  BY DEF Inv, Started
<1>2. Idle.op = "none"
  BY DEF Idle
<1>3. QED
  BY <1>1, <1>2 DEF Reading, Writing

LEMMA BootReadInv ==
  ASSUME Inv, BootRead
  PROVE  Inv'
<1>1. /\ boot.is = "down" /\ boot.key = 0
      /\ db' = [db EXCEPT !.is = "whole"]
      /\ UNCHANGED <<ring, lock, call, restore, archives, named, crossed, keys, draws, calls>>
      /\ \A d \in Clients : call'[d] = Idle
      /\ cipher = 0
  BY NotUp DEF BootRead, counts, Inv, Started
<1>2. db' \in Database /\ db'.current = db.current /\ db'.rows = db.rows /\ db'.is = "whole"
  BY <1>1 DEF Inv, TypeOK, Database
<1>3. boot' \in [is : {"down", "adopt", "replace", "up"}, key : Key \cup {0}]
      /\ boot'.key = 0 /\ cipher' \in Key \cup {0} /\ boot'.is # "down"
      /\ (boot'.is = "adopt" => db.current = 0)
      /\ (boot'.is = "up" => db.current # 0 /\ ring[db.current] = "whole" /\ cipher' = db.current)
      /\ (boot'.is # "up" => cipher' = 0)
  BY <1>1 DEF BootRead, Inv, TypeOK, Database
<1>4. TypeOK'
  BY <1>1, <1>2, <1>3 DEF Inv, TypeOK
<1>5. Counted'
  BY <1>1, CountedKept DEF Pending, Inv, TypeOK
<1>6. Locked'
  BY <1>1 DEF Inv, Locked, Reading, Writing
<1>7. Sound(db, keys, draws, named)'
  BY <1>1, <1>2 DEF Inv, Sound
<1>8. Started'
  BY <1>1, <1>2, <1>3 DEF Started
<1>9. \A d \in Clients : Carried(d)'
  BY <1>1, IdleCarried
<1>10. Restoring'
  BY <1>1, <1>2 DEF Inv, Restoring
<1>11. QED
  BY <1>1, <1>4, <1>5, <1>6, <1>7, <1>8, <1>9, <1>10 DEF Inv

LEMMA generateKeyInv ==
  ASSUME Inv, generateKey
  PROVE  Inv'
<1>1. /\ boot.is \in {"adopt", "replace"} /\ keys < MaxKeys /\ keys' = keys + 1
      /\ ring' = [ring EXCEPT ![keys + 1] = "whole"]
      /\ boot' = [boot EXCEPT !.key = keys + 1]
      /\ UNCHANGED <<db, cipher, lock, call, restore, archives, named, crossed, draws, calls>>
  BY DEF generateKey, Create
<1>2. /\ keys + 1 \in Key /\ keys' \in Nat /\ keys' <= MaxKeys
      /\ ring' \in [Key -> {"none", "short", "whole"}] /\ ring'[keys + 1] = "whole"
      /\ \A k \in Key : k > keys' => ring'[k] = "none"
      /\ Sound(db, keys', draws', named')
      /\ \A a \in archives : Archived(a, keys', draws', named')
      /\ Restoring'
      /\ \A d \in Clients : Carried(d)'
  BY <1>1, KeyMade
<1>3. TypeOK'
  BY <1>1, <1>2 DEF Inv, TypeOK
<1>4. Counted'
  BY <1>1, CountedKept DEF Pending, Inv, TypeOK
<1>5. Locked'
  BY <1>1 DEF Inv, Locked, Reading, Writing
<1>6. Started'
  BY <1>1, <1>2 DEF Inv, TypeOK, Started
<1>7. QED
  BY <1>1, <1>2, <1>3, <1>4, <1>5, <1>6 DEF Inv

LEMMA BootRecordInv ==
  ASSUME Inv, BootRecord
  PROVE  Inv'
<1>1. /\ boot.key # 0 /\ boot.is \in {"adopt", "replace"} /\ boot.key \in Key
      /\ boot.key <= keys /\ ring[boot.key] = "whole" /\ cipher = 0 /\ db.is = "whole"
      /\ UNCHANGED <<ring, lock, call, restore, archives, named, crossed, keys, draws, calls>>
      /\ \A d \in Clients : call'[d] = Idle
  BY NotUp DEF BootRecord, counts, Inv, TypeOK, Started
<1>2. CASE boot' = Down /\ UNCHANGED <<db, cipher>>
  <2>1. TypeOK'
    BY <1>1, <1>2 DEF Inv, TypeOK, Down
  <2>2. Counted'
    BY <1>1, CountedKept DEF Pending, Inv, TypeOK
  <2>3. Started'
    BY <1>1, <1>2 DEF Started, Down
  <2>4. QED
    BY <1>1, <1>2, <2>1, <2>2, <2>3, IdleCarried
    DEF Inv, Locked, Reading, Writing, Restoring
<1>3. CASE /\ boot.is = "adopt" \/ Replaceable
           /\ db' = Promoted(db, boot.key)
           /\ boot' = [is |-> "up", key |-> 0] /\ cipher' = boot.key
  <2>1. \A n \in Names : db.rows[n] = NoRow
    <3>1. CASE boot.is = "adopt"
      <4>1. db.current = 0
        BY <3>1 DEF Inv, Started
      <4>2. \A n \in Names : db.rows[n] # NoRow => db.rows[n].key = 0 /\ db.rows[n] \in Row
        BY <4>1 DEF Inv, Sound, TypeOK, Database
      <4>3. QED
        BY <4>2, KeyringAssumption DEF Row, Key
    <3>2. CASE Replaceable
      BY <3>2 DEF Replaceable, Rows
    <3>3. QED
      BY <1>3, <3>1, <3>2
  <2>2. /\ db' \in Database /\ db'.current = boot.key /\ db'.is = "whole"
        /\ db'.rows = db.rows
    BY <1>1, <1>3 DEF Promoted, Inv, TypeOK, Database
  <2>3. TypeOK'
    BY <1>1, <1>3, <2>2 DEF Inv, TypeOK
  <2>4. Counted'
    BY <1>1, CountedKept DEF Pending, Inv, TypeOK
  <2>5. Sound(db, keys, draws, named)'
    BY <1>1, <2>1, <2>2 DEF Sound
  <2>6. Started'
    BY <1>1, <1>3, <2>2 DEF Started
  <2>7. Restoring'
    BY <1>1, <2>2 DEF Inv, Restoring
  <2>8. QED
    BY <1>1, <2>3, <2>4, <2>5, <2>6, <2>7, IdleCarried DEF Inv, Locked, Reading, Writing
<1>4. QED
  BY <1>2, <1>3 DEF BootRecord

LEMMA CrashInv ==
  ASSUME Inv, Crash
  PROVE  Inv'
<1>1. /\ boot' = Down /\ cipher' = 0 /\ lock' = Free
      /\ call' = [d \in Clients |-> Idle] /\ (\A d \in Clients : call'[d] = Idle)
      /\ UNCHANGED <<db, restore, archives, named, crossed, draws, calls>>
      /\ \/ UNCHANGED <<ring, keys>>
         \/ /\ keys < MaxKeys /\ keys' = keys + 1
            /\ ring' = [ring EXCEPT ![keys + 1] = "short"]
  BY DEF Crash, CreateTorn
<1>2. /\ keys' \in Nat /\ keys' <= MaxKeys /\ ring' \in [Key -> {"none", "short", "whole"}]
      /\ \A k \in Key : k > keys' => ring'[k] = "none"
      /\ Sound(db, keys', draws', named')
      /\ \A a \in archives : Archived(a, keys', draws', named')
      /\ Restoring'
  <2>1. CASE UNCHANGED <<ring, keys>>
    BY <1>1, <2>1 DEF Inv, TypeOK, Restoring
  <2>2. CASE keys < MaxKeys /\ keys' = keys + 1 /\ ring' = [ring EXCEPT ![keys + 1] = "short"]
    BY <1>1, <2>2, KeyMade
  <2>3. QED
    BY <1>1, <2>1, <2>2
<1>3. TypeOK'
  BY <1>1, <1>2, IdleType DEF Inv, TypeOK, Down, Free
<1>4. Counted'
  <2>1. Pending' \subseteq Pending
    BY <1>1 DEF Pending, Idle
  <2>2. QED
    BY <1>1, <2>1, CountedKept DEF Inv, TypeOK
<1>5. Locked'
  BY <1>1 DEF Locked, Reading, Writing, Free, Idle
<1>6. Started'
  BY <1>1 DEF Started, Down
<1>7. QED
  BY <1>1, <1>2, <1>3, <1>4, <1>5, <1>6, IdleCarried DEF Inv

\* A step while the server is down, of the disk or of a restore, keeps the invariant if it
\* keeps what is said of the database, the keyring and the restore.
LEMMA DiskStep ==
  ASSUME Inv, UNCHANGED <<boot, cipher, lock, call, archives, named, crossed, keys, draws, calls>>,
         ring' \in [Key -> {"none", "short", "whole"}], db' \in Database,
         restore' \in [pc : {"none", "db", "keys"}, from : Archive, left : SUBSET Key],
         Sound(db, keys, draws, named)', Started', Restoring',
         \A d \in Clients : Carried(d)',
         \A k \in Key : k > keys => ring'[k] = "none"
  PROVE  Inv'
<1>1. TypeOK'
  BY DEF Inv, TypeOK
<1>2. Counted'
  BY CountedKept DEF Pending, Inv, TypeOK
<1>3. Locked'
  BY DEF Inv, Locked, Reading, Writing
<1>4. QED
  BY <1>1, <1>2, <1>3 DEF Inv

LEMMA LoseInv ==
  ASSUME Inv, Lose
  PROVE  Inv'
<1>1. PICK gone \in (SUBSET {"db", "ring"}) \ {{}} :
        /\ db' = IF "db" \in gone THEN NoDb ELSE db
        /\ ring' = IF "ring" \in gone THEN [k \in Key |-> "none"] ELSE ring
  BY DEF Lose
<1>2. /\ boot = Down /\ restore = NotRestoring
      /\ UNCHANGED <<boot, cipher, lock, call, restore, archives, named, crossed, keys, draws,
                     calls>>
  BY DEF Lose
<1>3. /\ ring' \in [Key -> {"none", "short", "whole"}] /\ db' \in Database
      /\ restore' \in [pc : {"none", "db", "keys"}, from : Archive, left : SUBSET Key]
  BY <1>1, <1>2, IdleType DEF Inv, TypeOK
<1>4. \A k \in Key : k > keys => ring'[k] = "none"
  BY <1>1 DEF Inv
<1>5. Sound(db, keys, draws, named)'
  BY <1>1, <1>2 DEF Inv, TypeOK, Sound, NoDb
<1>6. Started'
  BY <1>2 DEF Inv, Started, Down
<1>7. Restoring'
  BY <1>2 DEF Restoring, NotRestoring
<1>8. \A d \in Clients : Carried(d)'
  BY <1>2, NotUp, IdleCarried DEF Down
<1>9. QED
  BY <1>2, <1>3, <1>4, <1>5, <1>6, <1>7, <1>8, DiskStep

LEMMA RestorePlanInv ==
  ASSUME Inv, NEW a \in archives, RestorePlan(a)
  PROVE  Inv'
<1>1. /\ \A k \in a.files : ring[k] = "none"
      /\ restore' = [pc |-> "db", from |-> a, left |-> a.files]
      /\ UNCHANGED <<ring, db, boot, cipher, lock, call, archives, named, crossed, keys, draws,
                     calls>>
  BY DEF RestorePlan, vacant, counts
<1>2. restore' \in [pc : {"none", "db", "keys"}, from : Archive, left : SUBSET Key]
  <2>1. a \in Archive
    BY DEF Inv, TypeOK
  <2>2. QED
    BY <1>1, <2>1 DEF Archive
<1>3. Restoring'
  BY <1>1 DEF Restoring
<1>4. Started' /\ Sound(db, keys, draws, named)'
  BY <1>1 DEF Inv, Started, At
<1>5. \A d \in Clients : Carried(d)'
  BY <1>1, CarriedKept DEF Inv
<1>6. QED
  BY <1>1, <1>2, <1>3, <1>4, <1>5, DiskStep DEF Inv, TypeOK

LEMMA RestoreEndsInv ==
  ASSUME Inv, restore' = NotRestoring,
         UNCHANGED <<ring, db, boot, cipher, lock, call, archives, named, crossed, keys, draws,
                     calls>>
  PROVE  Inv'
<1>1. restore' \in [pc : {"none", "db", "keys"}, from : Archive, left : SUBSET Key]
  BY IdleType DEF NotRestoring
<1>2. Restoring'
  BY DEF Restoring, NotRestoring
<1>3. Started' /\ Sound(db, keys, draws, named)'
  BY DEF Inv, Started, At
<1>4. \A d \in Clients : Carried(d)'
  BY CarriedKept DEF Inv
<1>5. QED
  BY <1>1, <1>2, <1>3, <1>4, DiskStep DEF Inv, TypeOK

LEMMA RestoreDatabaseInv ==
  ASSUME Inv, RestoreDatabase
  PROVE  Inv'
<1>1. CASE db.is # "none"
  BY <1>1, RestoreEndsInv DEF RestoreDatabase, counts
<1>2. CASE db.is = "none"
  <2>1. /\ restore.pc = "db" /\ db' = restore.from.db
        /\ restore' = [restore EXCEPT !.pc = "keys"]
        /\ UNCHANGED <<ring, boot, cipher, lock, call, archives, named, crossed, keys, draws,
                       calls>>
        /\ restore.from \in archives
        /\ boot.is = "down" /\ boot.key = 0 /\ cipher = 0
        /\ \A d \in Clients : call'[d] = Idle
    BY <1>2, NotUp DEF RestoreDatabase, counts, Inv, Started, Restoring, TypeOK
  <2>2. /\ db' \in Database /\ Sound(db, keys, draws, named)'
        /\ restore.from \in Archive
    BY <2>1 DEF Inv, TypeOK, Archive, Archived
  <2>3. restore' \in [pc : {"none", "db", "keys"}, from : Archive, left : SUBSET Key]
        /\ restore'.from = restore.from /\ restore'.left = restore.left
    BY <2>1 DEF Inv, TypeOK
  <2>4. Restoring'
    BY <2>1, <2>3 DEF Inv, Restoring
  <2>5. Started'
    BY <2>1 DEF Started
  <2>6. \A d \in Clients : Carried(d)'
    BY <2>1, IdleCarried
  <2>7. QED
    BY <2>1, <2>2, <2>3, <2>4, <2>5, <2>6, DiskStep DEF Inv, TypeOK
<1>3. QED
  BY <1>1, <1>2

\* A restore writes a key file where there was none: nothing that was whole is touched.
LEMMA KeyRestored ==
  ASSUME Inv, restore.pc = "keys", NEW k \in restore.left, NEW st \in {"short", "whole"},
         ring' = [ring EXCEPT ![k] = st],
         UNCHANGED <<db, boot, cipher, call, named, keys, draws>>
  PROVE  /\ k \in Key /\ ring[k] = "none" /\ k <= keys
         /\ ring' \in [Key -> {"none", "short", "whole"}]
         /\ \A j \in Key : j > keys => ring'[j] = "none"
         /\ Started'
         /\ \A d \in Clients : Carried(d)'
<1>1. k \in Key /\ ring[k] = "none" /\ restore.from \in archives /\ k \in restore.from.files
  BY DEF Inv, TypeOK, Restoring
<1>2. k <= keys
  BY <1>1 DEF Inv, Archived
<1>3. /\ ring' \in [Key -> {"none", "short", "whole"}]
      /\ \A j \in Key : ring[j] = "whole" => ring'[j] = "whole"
      /\ \A j \in Key : j # k => ring'[j] = ring[j]
  BY <1>1 DEF Inv, TypeOK
<1>4. \A j \in Key : j > keys => ring'[j] = "none"
  BY <1>1, <1>2, <1>3, KeyringAssumption DEF Inv, TypeOK, Key
<1>5. Started'
  BY <1>1, <1>3 DEF Inv, Started, TypeOK, Database, At
<1>6. ASSUME NEW d \in Clients PROVE Carried(d)'
  <2>1. Carried(d) /\ call[d] \in Call
    BY DEF Inv, TypeOK
  <2>2. call[d].op = "rekey" => ring'[call[d].key] = "whole"
    BY <1>3, <2>1 DEF Carried, Call
  <2>3. \A dd : Backed(dd, {j \in Key : ring[j] = "whole"})
                  => Backed(dd, {j \in Key : ring'[j] = "whole"})
    BY <1>3 DEF Backed
  <2>4. QED
    BY <2>1, <2>2, <2>3 DEF Carried, At, Fresh, Rows
<1>7. QED
  BY <1>1, <1>2, <1>3, <1>4, <1>5, <1>6

LEMMA RestoreKeyInv ==
  ASSUME Inv, NEW k \in Key, RestoreKey(k)
  PROVE  Inv'
<1> DEFINE st == IF k \in restore.from.torn THEN "short" ELSE "whole"
<1>1. /\ restore.pc = "keys" /\ k \in restore.left /\ st \in {"short", "whole"}
      /\ ring' = [ring EXCEPT ![k] = st]
      /\ restore' = [restore EXCEPT !.left = @ \ {k}]
      /\ UNCHANGED <<db, boot, cipher, lock, call, archives, named, crossed, keys, draws, calls>>
  BY DEF RestoreKey, counts
<1> HIDE DEF st
<1>2. /\ ring' \in [Key -> {"none", "short", "whole"}]
      /\ \A j \in Key : j > keys => ring'[j] = "none"
      /\ Started' /\ \A d \in Clients : Carried(d)'
  BY <1>1, KeyRestored
<1>3. /\ restore' \in [pc : {"none", "db", "keys"}, from : Archive, left : SUBSET Key]
      /\ restore'.from = restore.from /\ restore'.left = restore.left \ {k}
      /\ restore'.pc = "keys"
  BY <1>1 DEF Inv, TypeOK
<1>4. Restoring'
  BY <1>1, <1>3 DEF Inv, TypeOK, Restoring
<1>5. QED
  BY <1>1, <1>2, <1>3, <1>4, DiskStep DEF Inv, TypeOK

LEMMA RestoreDiesInv ==
  ASSUME Inv, RestoreDies
  PROVE  Inv'
<1>1. /\ restore' = NotRestoring
      /\ UNCHANGED <<boot, cipher, lock, call, archives, named, crossed, keys, draws, calls>>
  BY DEF RestoreDies
<1>2. restore' \in [pc : {"none", "db", "keys"}, from : Archive, left : SUBSET Key] /\ Restoring'
  BY <1>1, IdleType DEF NotRestoring, Restoring
<1>3. ASSUME db.is = "none", NEW is \in {"torn", "whole"}, db' = [db EXCEPT !.is = is],
             UNCHANGED ring
      PROVE  Inv'
  <2>1. boot.is = "down" /\ \A d \in Clients : call'[d] = Idle
    BY <1>1, <1>3, NotUp DEF Inv, Started, TypeOK
  <2>2. db' \in Database /\ db'.rows = db.rows /\ db'.current = db.current
    BY <1>3 DEF Inv, TypeOK, Database
  <2>3. Sound(db, keys, draws, named)'
    BY <1>1, <2>2 DEF Inv, Sound
  <2>4. Started'
    BY <1>1, <1>3, <2>1, <2>2 DEF Inv, Started
  <2>5. QED
    BY <1>1, <1>2, <1>3, <2>1, <2>2, <2>3, <2>4, IdleCarried, DiskStep DEF Inv, TypeOK
<1>4. ASSUME restore.pc = "keys", NEW k \in restore.left, ring' = [ring EXCEPT ![k] = "short"],
             UNCHANGED db
      PROVE  Inv'
  <2>1. /\ ring' \in [Key -> {"none", "short", "whole"}]
        /\ \A j \in Key : j > keys => ring'[j] = "none"
        /\ Started' /\ \A d \in Clients : Carried(d)'
    BY <1>1, <1>4, KeyRestored
  <2>2. QED
    BY <1>1, <1>2, <1>4, <2>1, DiskStep DEF Inv, TypeOK
<1>5. QED
  BY <1>3, <1>4 DEF RestoreDies

-----------------------------------------------------------------------------
LEMMA InitInv == Init => Inv
<1> SUFFICES ASSUME Init PROVE Inv
  OBVIOUS
<1> USE DEF Init
<1>1. TypeOK
  <2>1. call \in [Clients -> Call] /\ db \in Database
    BY IdleType
  <2>2. restore \in [pc : {"none", "db", "keys"}, from : Archive, left : SUBSET Key]
    BY IdleType DEF NotRestoring
  <2>3. /\ boot \in [is : {"down", "adopt", "replace", "up"}, key : Key \cup {0}]
        /\ lock \in [readers : SUBSET Clients, writer : SUBSET Clients, queue : SUBSET Clients]
    BY DEF Down, Free
  <2>4. MaxKeys \in Nat /\ MaxCalls \in Nat
    BY KeyringAssumption
  <2>5. /\ ring \in [Key -> {"none", "short", "whole"}]
        /\ named \in [Draw -> Values \cup {Unnamed}]
        /\ cipher \in Key \cup {0} /\ archives \subseteq Archive
        /\ keys \in Nat /\ draws \in Nat /\ calls \in Nat
    OBVIOUS
  <2>6. keys <= MaxKeys /\ calls <= MaxCalls
    BY <2>4
  <2>7. crossed \in BOOLEAN
    OBVIOUS
  <2>8. QED
    BY <2>1, <2>2, <2>3, <2>5, <2>6, <2>7 DEF TypeOK
<1>2. Counted
  <2>1. Pending = {}
    BY DEF Pending, Idle
  <2>2. QED
    BY <2>1, FS_EmptySet DEF Counted
<1>3. Locked
  BY DEF Locked, Reading, Writing, Free, Idle
<1>4. Sound(db, keys, draws, named) /\ Started /\ Restoring
  BY DEF Sound, NoDb, Started, Down, Restoring, NotRestoring
<1>5. \A c \in Clients : Carried(c)
  BY DEF Carried, At, Idle
<1>6. QED
  BY <1>1, <1>2, <1>3, <1>4, <1>5 DEF Inv

LEMMA NextInv == Inv /\ [Next]_vars => Inv'
<1> SUFFICES ASSUME Inv, [Next]_vars PROVE Inv'
  OBVIOUS
<1>1. CASE BootRead \/ generateKey \/ BootRecord \/ Crash \/ Lose \/ RestoreDatabase \/ RestoreDies
  BY <1>1, BootReadInv, generateKeyInv, BootRecordInv, CrashInv, LoseInv, RestoreDatabaseInv,
     RestoreDiesInv
<1>2. CASE RestoreEnds
  BY <1>2, RestoreEndsInv DEF RestoreEnds, counts
<1>3. CASE \E c \in Clients, n \in Names, v \in Values, l \in Labels : SetBegin(c, n, v, l)
  BY <1>3, SetBeginInv
<1>4. CASE \/ \E c \in Clients, n \in Names : ValueBegin(c, n)
           \/ \E n \in Names : Delete(n)
           \/ \E a \in archives : RestorePlan(a)
           \/ \E k \in Key : RestoreKey(k)
  BY <1>4, ValueBeginInv, DeleteInv, RestorePlanInv, RestoreKeyInv
<1>5. ASSUME NEW c \in Clients,
             RekeyBegin(c) \/ BackupSnapshot(c) \/ SetFails(c) \/ RekeyFails(c)
      PROVE  Inv'
  BY <1>5, RekeyBeginInv, BackupSnapshotInv, SetFailsInv, RekeyFailsInv
<1>6. ASSUME NEW c \in Clients, Step(c) PROVE Inv'
  BY <1>6, SetLockInv, SetReadInv, SetWriteInv, ValueLockInv, ValueReadInv, ValueOpenInv,
     RekeyQueueInv, RekeyLockInv, RekeyListInv, RekeyCommitInv, RekeySwapInv, BackupStreamInv
  DEF Step
<1>7. CASE UNCHANGED vars
  <2>1. TypeOK' /\ Locked' /\ Started' /\ Restoring'
    BY <1>7 DEF vars, counts, Inv, TypeOK, Locked, Reading, Writing, Started, At, Restoring
  <2>2. Counted'
    BY <1>7, CountedKept DEF vars, counts, Pending, Inv, TypeOK
  <2>3. \A c \in Clients : Carried(c)'
    BY <1>7, CarriedKept DEF vars, counts, Inv
  <2>4. QED
    BY <1>7, <2>1, <2>2, <2>3 DEF vars, counts, Inv
<1>8. QED
  BY <1>1, <1>2, <1>3, <1>4, <1>5, <1>6, <1>7 DEF Next

\* Every secret is sealed under the current key, and a server that answers opens all of them,
\* through rekeys, deaths, losses and restores: currentKey, Rekey and Restore.
THEOREM RowsOpenHolds == Spec => []RowsOpen
<1>1. Inv => RowsOpen
  BY DEF Inv, RowsOpen, Rows, Sound, Started, Locked, Writing, At
<1>2. QED
  BY <1>1, InitInv, NextInv, PTL DEF Spec

\* The types of the state, among them that no request draws a revision beyond the bound.
THEOREM KeyringTypeCorrect == Spec => []TypeOK
<1>1. Inv => TypeOK
  BY DEF Inv
<1>2. QED
  BY <1>1, InitInv, NextInv, PTL DEF Spec

\* An archive taken with the keys opens its own secrets, whatever ran beside the backup:
\* the snapshot is taken before the keys are listed, and a key is there before it is used.
THEOREM ArchivesOpenHolds == Spec => []ArchivesOpen
<1>1. Inv => ArchivesOpen
  BY DEF Inv, ArchivesOpen, Archived, Backed
<1>2. QED
  BY <1>1, InitInv, NextInv, PTL DEF Spec

-----------------------------------------------------------------------------
(* The refinement.  Under the invariant every kept database opens with the *)
(* keys it is kept with, so the mapping of Keyring reduces to revisions.   *)

Plain(d) == [n \in Names |-> IF d.rows[n] = NoRow THEN 0 ELSE d.rows[n].rev]

PlainHolds ==
  [n \in Names |-> IF db.rows[n] = NoRow THEN 0
                   ELSE IF ring[db.current] = "whole" THEN db.rows[n].rev ELSE -1]

PlainReads == [c \in Clients |-> IF At(c, "value", "open") THEN call[c].row.rev ELSE 0]

PlainKept ==
  {Plain(a.db) : a \in archives}
    \cup {Plain(call[c].db) : c \in {e \in Clients : At(e, "backup", "keys")}}

LEMMA ContentPlain ==
  ASSUME NEW d \in Database, NEW ks, Sound(d, ks, draws, named), NEW opening, Backed(d, opening)
  PROVE  Content(d, opening) = Plain(d)
BY DEF Content, Plain, Seen, Sound, Drawn, Backed

Mapped == Holds = PlainHolds /\ Reads = PlainReads /\ Kept = PlainKept

LEMMA MappingPlain == Inv => Mapped
<1> SUFFICES ASSUME Inv PROVE Mapped
  OBVIOUS
<1>1. Holds = PlainHolds
  <2>1. \A n \in Names : db.rows[n] # NoRow =>
          /\ db.rows[n].key = db.current /\ named[db.rows[n].rev] = db.rows[n].val
          /\ db.current \in Key
    BY DEF Inv, Sound, Drawn, TypeOK, Database, Row
  <2>2. QED
    BY <2>1 DEF Holds, PlainHolds, Content, Seen
<1>2. Reads = PlainReads
  <2>1. ASSUME NEW c \in Clients, At(c, "value", "open")
        PROVE  Seen(call[c].row, {cipher}) = call[c].row.rev
    <3>1. Reading(c) /\ Carried(c)
      BY <2>1 DEF Reading, At, Inv
    <3>2. call[c].row # NoRow /\ Fresh(call[c].row) /\ cipher = db.current
      BY <2>1, <3>1, ReaderSees DEF Carried
    <3>3. QED
      BY <3>2 DEF Fresh, Drawn, Seen
  <2>2. QED
    BY <2>1 DEF Reads, PlainReads
<1>3. Kept = PlainKept
  <2>1. ASSUME NEW a \in archives
        PROVE  Content(a.db, IF a.full THEN a.files \ a.torn ELSE Key) = Plain(a.db)
    <3>1. a.db \in Database /\ Archived(a, keys, draws, named)
      BY DEF Inv, TypeOK, Archive
    <3>2. Backed(a.db, Key)
      BY <3>1 DEF Backed, Database, Row
    <3>3. Backed(a.db, IF a.full THEN a.files \ a.torn ELSE Key)
      BY <3>1, <3>2 DEF Archived
    <3>4. QED
      BY <3>1, <3>3, ContentPlain DEF Archived
  <2>2. ASSUME NEW c \in Clients, At(c, "backup", "keys")
        PROVE  Content(call[c].db, Key) = Plain(call[c].db)
    <3>1. call[c].db \in Database /\ Sound(call[c].db, keys, draws, named)
      BY <2>2 DEF Inv, TypeOK, Call, Carried
    <3>2. Backed(call[c].db, Key)
      BY <3>1 DEF Backed, Database, Row
    <3>3. QED
      BY <3>1, <3>2, ContentPlain
  <2>3. QED
    BY <2>1, <2>2 DEF Kept, PlainKept
<1>4. QED
  BY <1>1, <1>2, <1>3 DEF Mapped

LEMMA MappingNext == Inv' => Mapped'
BY MappingPlain, PTL

\* The revisions of what is stored, read and kept are revisions of the vault.
HoldsTyped == PlainHolds \in [Names -> Draw \cup {0, -1}]

LEMMA PlainTypes == Inv => HoldsTyped
<1> SUFFICES ASSUME Inv PROVE HoldsTyped
  OBVIOUS
<1>1. \A r \in Row : r.rev \in Draw
  BY DEF Row
<1>2. QED
  BY <1>1 DEF HoldsTyped, PlainHolds, Inv, TypeOK, Database

LEMMA PlainTypesNext == Inv' => HoldsTyped'
BY PlainTypes, PTL

\* A step that leaves the plain view as it is is a stutter of the vault.
LEMMA Stutter ==
  ASSUME Inv, Inv', PlainHolds' = PlainHolds, PlainReads' = PlainReads, PlainKept' = PlainKept,
         named' = named
  PROVE  UNCHANGED V!vars
BY MappingPlain, MappingNext DEF Mapped, V!vars

LEMMA SameHolds ==
  ASSUME db'.rows = db.rows,
         \A n \in Names : db.rows[n] # NoRow =>
           (ring'[db'.current] = "whole" <=> ring[db.current] = "whole")
  PROVE  PlainHolds' = PlainHolds
BY DEF PlainHolds

\* A database with a row names the key that seals it.
LEMMA RowsKeyed ==
  ASSUME Inv, NEW n \in Names, db.rows[n] # NoRow
  PROVE  db.current \in Key /\ db.current <= keys /\ db.rows[n].rev \in Draw
BY DEF Inv, TypeOK, Database, Sound, Row

\* A step of one call that neither starts nor ends a read or a backup.
LEMMA SameCalls ==
  ASSUME Inv, NEW c \in Clients, \A d \in Clients : d # c => call'[d] = call[d],
         UNCHANGED archives,
         ~At(c, "value", "open"), ~At(c, "backup", "keys"),
         ~At(c, "value", "open")', ~At(c, "backup", "keys")'
  PROVE  PlainReads' = PlainReads /\ PlainKept' = PlainKept
<1>1. \A d \in Clients : /\ At(d, "value", "open")' <=> At(d, "value", "open")
                         /\ At(d, "backup", "keys")' <=> At(d, "backup", "keys")
                         /\ At(d, "value", "open") => call'[d] = call[d]
                         /\ At(d, "backup", "keys") => call'[d] = call[d]
  BY DEF At
<1>2. PlainReads' = PlainReads
  BY <1>1 DEF PlainReads
<1>3. PlainKept' = PlainKept
  BY <1>1 DEF PlainKept
<1>4. QED
  BY <1>2, <1>3

\* Steps of a call before the stores are reached, and steps that end one in vain.
LEMMA QuietCall ==
  ASSUME Inv, Inv', NEW c \in Clients, \A d \in Clients : d # c => call'[d] = call[d],
         UNCHANGED <<ring, db, named, archives>>,
         ~At(c, "value", "open"), ~At(c, "backup", "keys"),
         ~At(c, "value", "open")', ~At(c, "backup", "keys")'
  PROVE  UNCHANGED V!vars
BY SameHolds, SameCalls, Stutter

\* The steps of the vault, read off the plain view.
LEMMA PlainSet ==
  ASSUME Inv, Inv', NEW n \in Names, NEW v \in Values, NEW r \in Draw, named[r] \in {v, Unnamed},
         named' = [named EXCEPT ![r] = v], PlainHolds' = [PlainHolds EXCEPT ![n] = r],
         PlainReads' = PlainReads, PlainKept' = PlainKept
  PROVE  V!Next
<1>1. Mapped /\ Mapped'
  BY MappingPlain, MappingNext
<1>2. V!Set(n, v)
  BY <1>1 DEF V!Set, Mapped
<1>3. QED
  BY <1>2 DEF V!Next

LEMMA PlainDelete ==
  ASSUME Inv, Inv', NEW n \in Names, named' = named, PlainHolds' = [PlainHolds EXCEPT ![n] = 0],
         PlainReads' = PlainReads, PlainKept' = PlainKept
  PROVE  V!Next
<1>1. Mapped /\ Mapped'
  BY MappingPlain, MappingNext
<1>2. V!Delete(n)
  BY <1>1 DEF V!Delete, V!Absent, Mapped
<1>3. QED
  BY <1>2 DEF V!Next

LEMMA PlainRead ==
  ASSUME Inv, Inv', NEW c \in Clients, NEW n \in Names, named' = named, PlainHolds[n] # -1,
         PlainReads' = [PlainReads EXCEPT ![c] = PlainHolds[n]],
         PlainHolds' = PlainHolds, PlainKept' = PlainKept
  PROVE  V!Next
<1>1. Mapped /\ Mapped'
  BY MappingPlain, MappingNext
<1>2. V!Read(c, n)
  BY <1>1 DEF V!Read, V!Lost, Mapped
<1>3. QED
  BY <1>2 DEF V!Next

LEMMA PlainAnswer ==
  ASSUME Inv, Inv', NEW c \in Clients, named' = named,
         PlainReads' = [PlainReads EXCEPT ![c] = 0],
         PlainHolds' = PlainHolds, PlainKept' = PlainKept
  PROVE  V!Next
<1>1. Mapped /\ Mapped'
  BY MappingPlain, MappingNext
<1>2. V!Answer(c)
  BY <1>1 DEF V!Answer, V!Absent, Mapped
<1>3. QED
  BY <1>2 DEF V!Next

LEMMA PlainKeep ==
  ASSUME Inv, Inv', named' = named, PlainHolds \in [Names -> Draw \cup {0}],
         PlainKept' = PlainKept \cup {PlainHolds},
         PlainReads' = PlainReads, PlainHolds' = PlainHolds
  PROVE  V!Next
<1>1. Mapped /\ Mapped'
  BY MappingPlain, MappingNext
<1>2. V!Keep
  BY <1>1 DEF V!Keep, V!Content, V!Absent, Mapped
<1>3. QED
  BY <1>2 DEF V!Next

LEMMA PlainDie ==
  ASSUME Inv, Inv', named' = named, PlainReads' = [c \in Clients |-> 0],
         PlainKept' \subseteq PlainKept, PlainHolds' = PlainHolds
  PROVE  V!Next
<1>1. Mapped /\ Mapped'
  BY MappingPlain, MappingNext
<1>2. V!Die
  BY <1>1 DEF V!Die, V!Absent, Mapped
<1>3. QED
  BY <1>2 DEF V!Next

LEMMA PlainDisaster ==
  ASSUME Inv, Inv', named' = named, PlainReads' = PlainReads, PlainKept' = PlainKept,
         PlainHolds' \in {[n \in Names |-> 0],
                          [n \in Names |-> IF PlainHolds[n] = 0 THEN 0 ELSE -1]}
  PROVE  V!Next
<1>1. Mapped /\ Mapped'
  BY MappingPlain, MappingNext
<1>2. V!Disaster
  BY <1>1 DEF V!Disaster, V!Absent, V!Lost, Mapped
<1>3. QED
  BY <1>2 DEF V!Next

LEMMA PlainRestore ==
  ASSUME Inv, Inv', named' = named, PlainReads' = PlainReads, PlainKept' = PlainKept,
         NEW a \in archives,
         \A n \in Names : \/ PlainHolds'[n] = Plain(a.db)[n]
                          \/ Plain(a.db)[n] # 0 /\ PlainHolds'[n] = -1
  PROVE  V!Next
<1>1. Mapped /\ Mapped'
  BY MappingPlain, MappingNext
<1>2. Plain(a.db) \in PlainKept
  BY DEF PlainKept
<1>3. PlainHolds' \in [Names -> Draw \cup {0, -1}]
  BY PlainTypesNext DEF HoldsTyped
<1>4. V!Restore
  BY <1>1, <1>2, <1>3 DEF V!Restore, V!Absent, V!Lost, Mapped
<1>5. QED
  BY <1>4 DEF V!Next

-----------------------------------------------------------------------------
(* Every step of the keyring is a step of the vault or a stutter.          *)

Refines == V!Next \/ UNCHANGED V!vars

LEMMA SetSteps ==
  ASSUME Inv, Inv', NEW c \in Clients,
         \/ \E n \in Names, v \in Values, l \in Labels : SetBegin(c, n, v, l)
         \/ SetLock(c) \/ SetRead(c) \/ SetFails(c)
  PROVE  Refines
<1>1. call[c] \in Call /\ Idle.op = "none"
  BY DEF Inv, TypeOK, Idle
<1>2. UNCHANGED <<ring, db, named, archives>>
  BY DEF SetBegin, SetLock, SetRead, SetFails
<1>3. call[c].op \in {"none", "set"} /\ call'[c].op \in {"none", "set"}
      /\ \A d \in Clients : d # c => call'[d] = call[d]
  <2>1. CASE \E n \in Names, v \in Values, l \in Labels : SetBegin(c, n, v, l)
    <3>1. call[c] = Idle
      BY <2>1 DEF SetBegin, Request
    <3>2. ASSUME NEW n \in Names, NEW v \in Values, NEW l \in Labels, SetBegin(c, n, v, l)
          PROVE  call'[c].op = "set" /\ \A d \in Clients : d # c => call'[d] = call[d]
      <4>1. PICK cond \in BOOLEAN : call' = [call EXCEPT ![c] = [Idle EXCEPT
              !.op = "set", !.pc = "lock", !.name = n, !.val = v, !.lab = l,
              !.ifMatch = IF cond THEN db.rows[n].ver ELSE 0,
              !.saw = IF cond THEN db.rows[n].id ELSE 0]]
        BY <3>2 DEF SetBegin
      <4> DEFINE x == [Idle EXCEPT
              !.op = "set", !.pc = "lock", !.name = n, !.val = v, !.lab = l,
              !.ifMatch = IF cond THEN db.rows[n].ver ELSE 0,
              !.saw = IF cond THEN db.rows[n].id ELSE 0]
      <4>2. x.op = "set" /\ call' = [call EXCEPT ![c] = x]
        BY <4>1 DEF Idle
      <4> HIDE DEF x
      <4>3. QED
        BY <4>2 DEF Inv, TypeOK
    <3>3. QED
      BY <1>1, <2>1, <3>1, <3>2
  <2>2. CASE SetLock(c)
    BY <2>2, <1>1 DEF SetLock, Goto, At, Call, Inv, TypeOK
  <2>3. CASE SetRead(c)
    BY <2>3, <1>1 DEF SetRead, Done, At, Call, Inv, TypeOK
  <2>4. CASE SetFails(c)
    BY <2>4, <1>1 DEF SetFails, Done, At, Inv, TypeOK
  <2>5. QED
    BY <2>1, <2>2, <2>3, <2>4
<1>4. /\ ~At(c, "value", "open") /\ ~At(c, "backup", "keys")
      /\ ~At(c, "value", "open")' /\ ~At(c, "backup", "keys")'
  BY <1>3 DEF At
<1>5. QED
  BY <1>2, <1>3, <1>4, QuietCall DEF Refines

LEMMA ValueSteps ==
  ASSUME Inv, Inv', NEW c \in Clients,
         (\E n \in Names : ValueBegin(c, n)) \/ ValueLock(c)
  PROVE  Refines
<1>1. call[c] \in Call /\ Idle.op = "none" /\ Idle.pc = "idle"
  BY DEF Inv, TypeOK, Idle
<1>2. UNCHANGED <<ring, db, named, archives>>
  BY DEF ValueBegin, ValueLock
<1>3. /\ call[c].op \in {"none", "value"} /\ call'[c].op \in {"none", "value"}
      /\ call[c].pc # "open" /\ call'[c].pc # "open"
      /\ \A d \in Clients : d # c => call'[d] = call[d]
  <2>1. CASE \E n \in Names : ValueBegin(c, n)
    <3>1. call[c] = Idle
      BY <2>1 DEF ValueBegin, Request
    <3>2. /\ call'[c].op = "value" /\ call'[c].pc = "lock"
          /\ \A d \in Clients : d # c => call'[d] = call[d]
      <4>1. PICK n \in Names : ValueBegin(c, n)
        BY <2>1
      <4> DEFINE x == [Idle EXCEPT !.op = "value", !.pc = "lock", !.name = n]
      <4>2. x.op = "value" /\ x.pc = "lock" /\ call' = [call EXCEPT ![c] = x]
        BY <4>1 DEF Idle, ValueBegin
      <4> HIDE DEF x
      <4>3. QED
        BY <4>2 DEF Inv, TypeOK
    <3>3. QED
      BY <1>1, <3>1, <3>2
  <2>2. CASE ValueLock(c)
    BY <2>2, <1>1 DEF ValueLock, Goto, At, Call, Inv, TypeOK
  <2>3. QED
    BY <2>1, <2>2
<1>4. /\ ~At(c, "value", "open") /\ ~At(c, "backup", "keys")
      /\ ~At(c, "value", "open")' /\ ~At(c, "backup", "keys")'
  BY <1>3 DEF At
<1>5. QED
  BY <1>2, <1>3, <1>4, QuietCall DEF Refines

LEMMA RekeySteps ==
  ASSUME Inv, Inv', NEW c \in Clients,
         RekeyQueue(c) \/ RekeyLock(c) \/ RekeyList(c) \/ RekeyFails(c) \/ RekeySwap(c)
  PROVE  Refines
<1>1. /\ call[c] \in Call /\ Idle.op = "none" /\ call[c].op = "rekey"
      /\ UNCHANGED <<ring, db, named, archives>>
  BY DEF RekeyQueue, RekeyLock, RekeyList, RekeyFails, RekeySwap, At, Inv, TypeOK, Idle
<1>2. call'[c].op \in {"none", "rekey"} /\ \A d \in Clients : d # c => call'[d] = call[d]
  <2>1. CASE RekeyQueue(c) \/ RekeyLock(c)
    BY <2>1, <1>1 DEF RekeyQueue, RekeyLock, Goto, Call, Inv, TypeOK
  <2>2. CASE RekeyList(c)
    BY <2>2, <1>1 DEF RekeyList, Done, Call, Inv, TypeOK
  <2>3. CASE RekeyFails(c) \/ RekeySwap(c)
    BY <2>3, <1>1 DEF RekeyFails, RekeySwap, Done, Inv, TypeOK
  <2>4. QED
    BY <2>1, <2>2, <2>3
<1>3. /\ ~At(c, "value", "open") /\ ~At(c, "backup", "keys")
      /\ ~At(c, "value", "open")' /\ ~At(c, "backup", "keys")'
  BY <1>1, <1>2 DEF At
<1>4. QED
  BY <1>1, <1>2, <1>3, QuietCall DEF Refines

\* A key file is made where there was none: no row is sealed under it yet.
LEMMA NewKeyUnseen ==
  ASSUME Inv, keys < MaxKeys, NEW st, ring' = [ring EXCEPT ![keys + 1] = st], UNCHANGED db
  PROVE  PlainHolds' = PlainHolds
<1>1. \A n \in Names : db.rows[n] # NoRow => ring'[db.current] = ring[db.current]
  BY RowsKeyed, KeyringAssumption DEF Inv, TypeOK, Key
<1>2. QED
  BY <1>1, SameHolds

LEMMA RekeyBeginStep ==
  ASSUME Inv, Inv', NEW c \in Clients, RekeyBegin(c)
  PROVE  Refines
<1>1. /\ keys < MaxKeys /\ ring' = [ring EXCEPT ![keys + 1] = "whole"]
      /\ UNCHANGED <<db, named, archives>>
      /\ call[c].op = "none" /\ call'[c].op = "rekey"
      /\ \A d \in Clients : d # c => call'[d] = call[d]
  BY DEF RekeyBegin, Create, Request, Idle, Inv, TypeOK
<1>2. PlainHolds' = PlainHolds
  BY <1>1, NewKeyUnseen
<1>3. /\ ~At(c, "value", "open") /\ ~At(c, "backup", "keys")
      /\ ~At(c, "value", "open")' /\ ~At(c, "backup", "keys")'
  BY <1>1 DEF At
<1>4. PlainReads' = PlainReads /\ PlainKept' = PlainKept
  BY <1>1, <1>3, SameCalls
<1>5. QED
  BY <1>1, <1>2, <1>4, Stutter DEF Refines

\* The transaction of a rekey: the rows change key together, and both keys are there.
LEMMA RekeyCommitStep ==
  ASSUME Inv, Inv', NEW c \in Clients, RekeyCommit(c)
  PROVE  Refines
<1>1. /\ call[c] \in Call /\ call[c].op = "rekey" /\ UNCHANGED <<ring, named, archives>>
      /\ call[c] # Idle /\ Idle.op = "none"
  BY DEF RekeyCommit, At, Inv, TypeOK, Idle
<1>2. call'[c].op \in {"none", "rekey"} /\ \A d \in Clients : d # c => call'[d] = call[d]
  BY <1>1 DEF RekeyCommit, Done, Goto, Call, Inv, TypeOK
<1>3. /\ ~At(c, "value", "open") /\ ~At(c, "backup", "keys")
      /\ ~At(c, "value", "open")' /\ ~At(c, "backup", "keys")'
  BY <1>1, <1>2 DEF At
<1>4. PlainReads' = PlainReads /\ PlainKept' = PlainKept
  BY <1>1, <1>2, <1>3, SameCalls
<1>5. CASE ~Rekeyable(c)
  <2>1. UNCHANGED db
    BY <1>5 DEF RekeyCommit
  <2>2. QED
    BY <1>1, <1>2, <1>3, <2>1, QuietCall DEF Refines
<1>6. CASE Rekeyable(c)
  <2>1. /\ db'.current = call[c].key /\ ring[call[c].key] = "whole" /\ call[c].key \in Key
        /\ \A n \in Names : db.rows[n] = NoRow => db'.rows[n] = NoRow
        /\ \A n \in Names : db.rows[n] # NoRow =>
             db'.rows[n] = [db.rows[n] EXCEPT !.val = db.rows[n].val, !.key = call[c].key]
    BY <1>6, Reseals
  <2>2. ring[db.current] = "whole"
    BY <1>1 DEF Inv, Started
  <2>3. ASSUME NEW n \in Names, db.rows[n] # NoRow
        PROVE  db'.rows[n].rev = db.rows[n].rev /\ db'.rows[n] # NoRow
    <3> DEFINE r == db.rows[n]
    <3>1. r \in Row /\ db'.rows[n] = [r EXCEPT !.val = r.val, !.key = call[c].key]
      BY <2>1, <2>3 DEF Inv, TypeOK, Database
    <3> HIDE DEF r
    <3>2. db'.rows[n] \in Row /\ db'.rows[n].rev = r.rev
      BY <2>1, <3>1 DEF Row
    <3>3. QED
      BY <3>2, KeyringAssumption DEF r
  <2>4. PlainHolds' = PlainHolds
    BY <1>1, <2>1, <2>2, <2>3 DEF PlainHolds
  <2>5. QED
    BY <1>1, <1>4, <2>4, Stutter DEF Refines
<1>7. QED
  BY <1>5, <1>6

LEMMA SetWriteStep ==
  ASSUME Inv, Inv', NEW c \in Clients, SetWrite(c)
  PROVE  Refines
<1> DEFINE n == call[c].name
           new == Stored(c, db.rows[n])
<1>1. /\ At(c, "set", "write") /\ call' = [call EXCEPT ![c] = Idle] /\ call'[c] = Idle
      /\ UNCHANGED <<ring, archives>> /\ \A d \in Clients : d # c => call'[d] = call[d]
  BY DEF SetWrite, Done, Inv, TypeOK
<1>2. /\ ~At(c, "value", "open") /\ ~At(c, "backup", "keys")
      /\ ~At(c, "value", "open")' /\ ~At(c, "backup", "keys")'
  BY <1>1 DEF At, Idle
<1>3. PlainReads' = PlainReads /\ PlainKept' = PlainKept
  BY <1>1, <1>2, SameCalls
<1>4. CASE UNCHANGED <<db, named>>
  BY <1>1, <1>2, <1>4, QuietCall DEF Refines
<1>5. CASE /\ db' = [db EXCEPT !.rows[n] = new]
           /\ named' = IF new.rev = draws + 1 THEN [named EXCEPT ![new.rev] = call[c].val]
                       ELSE named
  <2>1. /\ boot.is = "up" /\ draws \in Nat /\ draws + 1 \in Draw /\ n \in Names
        /\ call[c].val \in Values
        /\ new \in Row /\ new # NoRow
        /\ \/ new.rev = draws + 1 /\ new.val = call[c].val
           \/ new.rev <= draws /\ named[new.rev] = new.val
    BY <1>1, SetStores
  <2> HIDE DEF new
  <2>2. new.rev \in Draw /\ new.val \in Values
    BY <2>1 DEF Row
  <2>3. named[new.rev] \in {new.val, Unnamed}
    <3>1. draws + 1 > draws
      BY <2>1
    <3>2. QED
      BY <2>1, <3>1 DEF Inv
  <2>4. named' = [named EXCEPT ![new.rev] = new.val]
    <3>1. CASE new.rev = draws + 1
      <4>1. new.val = call[c].val
        BY <2>1, <3>1
      <4>2. QED
        BY <1>5, <3>1, <4>1
    <3>2. CASE new.rev # draws + 1
      <4>1. named' = named /\ named[new.rev] = new.val
        BY <1>5, <2>1, <3>2
      <4>2. QED
        BY <2>2, <4>1 DEF Inv, TypeOK
    <3>3. QED
      BY <3>1, <3>2
  <2>5. /\ db'.current = db.current /\ db'.rows[n] = new
        /\ \A m \in Names \ {n} : db'.rows[m] = db.rows[m]
    BY <1>5, <2>1 DEF Inv, TypeOK, Database
  <2>6. ring[db.current] = "whole"
    BY <2>1 DEF Inv, Started
  <2>7. PlainHolds' = [PlainHolds EXCEPT ![n] = new.rev]
    BY <1>1, <2>1, <2>5, <2>6 DEF PlainHolds
  <2>8. V!Next
    BY <1>3, <2>1, <2>2, <2>3, <2>4, <2>7, PlainSet
  <2>9. QED
    BY <2>8 DEF Refines
<1>6. QED
  BY <1>4, <1>5 DEF SetWrite

LEMMA SameOutside ==
  ASSUME UNCHANGED <<call, archives>>
  PROVE  PlainReads' = PlainReads /\ PlainKept' = PlainKept
BY DEF PlainReads, PlainKept, At

LEMMA DeleteStep ==
  ASSUME Inv, Inv', NEW n \in Names, Delete(n)
  PROVE  Refines
<1>1. UNCHANGED <<ring, call, archives, named>>
  BY DEF Delete
<1>2. /\ db'.current = db.current /\ db'.rows[n] = NoRow
      /\ \A m \in Names \ {n} : db'.rows[m] = db.rows[m]
  BY DEF Delete, Inv, TypeOK, Database
<1>3. PlainHolds' = [PlainHolds EXCEPT ![n] = 0]
  BY <1>1, <1>2 DEF PlainHolds
<1>4. PlainReads' = PlainReads /\ PlainKept' = PlainKept
  BY <1>1, SameOutside
<1>5. QED
  BY <1>1, <1>3, <1>4, PlainDelete DEF Refines

\* A read gets the revision its name holds, which is readable: the cipher is the current key.
LEMMA ValueReadStep ==
  ASSUME Inv, Inv', NEW c \in Clients, ValueRead(c)
  PROVE  Refines
<1> DEFINE n == call[c].name
<1>1. /\ call[c] \in Call /\ call[c].op = "value" /\ call[c].pc = "read"
      /\ UNCHANGED <<ring, db, archives, named>>
      /\ \A d \in Clients : d # c => call'[d] = call[d]
  BY DEF ValueRead, At, Done, Inv, TypeOK
<1>2. CASE n \notin Rows
  <2>1. call'[c] = Idle
    BY <1>2 DEF ValueRead, Done, Inv, TypeOK
  <2>2. /\ ~At(c, "value", "open") /\ ~At(c, "backup", "keys")
        /\ ~At(c, "value", "open")' /\ ~At(c, "backup", "keys")'
    BY <1>1, <2>1 DEF At, Idle
  <2>3. QED
    BY <1>1, <2>2, QuietCall DEF Refines
<1>3. CASE n \in Rows
  <2>1. n \in Names /\ db.rows[n] # NoRow
    BY <1>3 DEF Rows
  <2>2. call'[c].op = "value" /\ call'[c].pc = "open" /\ call'[c].row = db.rows[n]
    BY <1>1, <1>3 DEF ValueRead, Inv, TypeOK, Call
  <2>3. ring[db.current] = "whole"
    <3>1. Reading(c)
      BY <1>1 DEF Reading
    <3>2. boot.is = "up"
      BY <3>1, ReaderSees
    <3>3. QED
      BY <3>2 DEF Inv, Started
  <2>4. PlainHolds[n] = db.rows[n].rev /\ PlainHolds[n] # -1
    BY <2>1, <2>3, RowsKeyed, KeyringAssumption DEF PlainHolds, Draw
  <2>5. PlainReads' = [PlainReads EXCEPT ![c] = PlainHolds[n]]
    BY <1>1, <2>2, <2>4 DEF PlainReads, At
  <2>6. PlainKept' = PlainKept
    <3>1. \A d \in Clients : /\ At(d, "backup", "keys")' <=> At(d, "backup", "keys")
                             /\ At(d, "backup", "keys") => call'[d] = call[d]
      BY <1>1, <2>2 DEF At
    <3>2. QED
      BY <1>1, <3>1 DEF PlainKept
  <2>7. PlainHolds' = PlainHolds
    BY <1>1 DEF PlainHolds
  <2>8. QED
    BY <1>1, <2>1, <2>4, <2>5, <2>6, <2>7, PlainRead DEF Refines
<1>4. QED
  BY <1>2, <1>3

LEMMA ValueOpenStep ==
  ASSUME Inv, Inv', NEW c \in Clients, ValueOpen(c)
  PROVE  Refines
<1>1. /\ call[c].op = "value" /\ call[c].pc = "open" /\ call'[c] = Idle
      /\ UNCHANGED <<ring, db, archives, named>>
      /\ \A d \in Clients : d # c => call'[d] = call[d]
  BY DEF ValueOpen, At, Done, Inv, TypeOK
<1>2. Idle.op = "none"
  BY DEF Idle
<1>3. PlainReads' = [PlainReads EXCEPT ![c] = 0]
  BY <1>1, <1>2 DEF PlainReads, At
<1>4. PlainKept' = PlainKept
  <2>1. \A d \in Clients : /\ At(d, "backup", "keys")' <=> At(d, "backup", "keys")
                           /\ At(d, "backup", "keys") => call'[d] = call[d]
    BY <1>1, <1>2 DEF At
  <2>2. QED
    BY <1>1, <2>1 DEF PlainKept
<1>5. PlainHolds' = PlainHolds
  BY <1>1 DEF PlainHolds
<1>6. QED
  BY <1>1, <1>3, <1>4, <1>5, PlainAnswer DEF Refines

\* A snapshot is what the vault holds at this moment, all of it readable.
LEMMA BackupSnapshotStep ==
  ASSUME Inv, Inv', NEW c \in Clients, BackupSnapshot(c)
  PROVE  Refines
<1>1. PICK full \in BOOLEAN :
        call' = [call EXCEPT ![c] = [Idle EXCEPT !.op = "backup", !.pc = "keys", !.db = db,
                                                 !.full = full]]
  BY DEF BackupSnapshot
<1> DEFINE x == [Idle EXCEPT !.op = "backup", !.pc = "keys", !.db = db, !.full = full]
<1>2. x.op = "backup" /\ x.pc = "keys" /\ x.db = db /\ call' = [call EXCEPT ![c] = x]
  BY <1>1 DEF Idle
<1> HIDE DEF x
<1>3. /\ call[c] = Idle /\ call'[c] = x /\ boot.is = "up"
      /\ UNCHANGED <<ring, db, archives, named>>
      /\ \A d \in Clients : d # c => call'[d] = call[d]
  BY <1>2 DEF BackupSnapshot, Request, Inv, TypeOK
<1>4. Idle.op = "none"
  BY DEF Idle
<1>5. ring[db.current] = "whole"
  BY <1>3 DEF Inv, Started
<1>6. PlainHolds = Plain(db)
  BY <1>5 DEF PlainHolds, Plain
<1>7. PlainHolds \in [Names -> Draw \cup {0}]
  BY <1>6, RowsKeyed DEF Plain
<1>8. PlainKept' = PlainKept \cup {PlainHolds}
  <2>1. \A d \in Clients : At(d, "backup", "keys")' <=> (d = c \/ At(d, "backup", "keys"))
    BY <1>2, <1>3 DEF At
  <2>2. ~At(c, "backup", "keys") /\ Plain(call'[c].db) = PlainHolds
    BY <1>2, <1>3, <1>4, <1>6 DEF At
  <2>3. QED
    BY <1>3, <2>1, <2>2 DEF PlainKept
<1>9. PlainReads' = PlainReads
  BY <1>2, <1>3, <1>4 DEF PlainReads, At
<1>10. PlainHolds' = PlainHolds
  BY <1>3 DEF PlainHolds
<1>11. QED
  BY <1>3, <1>7, <1>8, <1>9, <1>10, PlainKeep DEF Refines

\* The snapshot becomes an archive: the content is kept already.
LEMMA BackupStreamStep ==
  ASSUME Inv, Inv', NEW c \in Clients, BackupStream(c)
  PROVE  Refines
<1>1. /\ call[c].op = "backup" /\ call[c].pc = "keys" /\ call'[c] = Idle
      /\ UNCHANGED <<ring, db, named>>
      /\ \A d \in Clients : d # c => call'[d] = call[d]
  BY DEF BackupStream, At, Done, Inv, TypeOK
<1>2. PICK a : archives' = archives \cup {a} /\ a.db = call[c].db
  <2> DEFINE files == IF call[c].full THEN BackedUp ELSE {}
             a == [db |-> call[c].db, full |-> call[c].full, files |-> files,
                   torn |-> {k \in files : ring[k] = "short"}]
  <2>1. archives' = archives \cup {a} /\ a.db = call[c].db
    BY DEF BackupStream
  <2> HIDE DEF a
  <2>2. QED
    BY <2>1
<1>3. Idle.op = "none"
  BY DEF Idle
<1>4. PlainKept' = PlainKept
  <2>1. \A d \in Clients : At(d, "backup", "keys") <=> (d = c \/ At(d, "backup", "keys")')
    BY <1>1 DEF At
  <2>2. ~At(c, "backup", "keys")'
    BY <1>1, <1>3 DEF At
  <2>3. QED
    BY <1>1, <1>2, <2>1, <2>2 DEF PlainKept
<1>5. PlainReads' = PlainReads
  BY <1>1, <1>3 DEF PlainReads, At
<1>6. PlainHolds' = PlainHolds
  BY <1>1 DEF PlainHolds
<1>7. QED
  BY <1>1, <1>4, <1>5, <1>6, Stutter DEF Refines

-----------------------------------------------------------------------------
LEMMA BootSteps ==
  ASSUME Inv, Inv', BootRead \/ generateKey \/ BootRecord
  PROVE  Refines
<1>1. UNCHANGED <<call, archives, named>>
  BY DEF BootRead, generateKey, BootRecord
<1>2. PlainHolds' = PlainHolds
  <2>1. CASE BootRead
    <3>1. db'.rows = db.rows /\ db'.current = db.current /\ ring' = ring
      BY <2>1 DEF BootRead, Inv, TypeOK, Database
    <3>2. QED
      BY <3>1, SameHolds
  <2>2. CASE generateKey
    BY <2>2, NewKeyUnseen DEF generateKey, Create
  <2>3. CASE BootRecord
    <3>1. CASE boot.is = "adopt" \/ Replaceable
      <4>1. \A n \in Names : db.rows[n] = NoRow
        <5>1. CASE Replaceable
          BY <5>1 DEF Replaceable, Rows
        <5>2. CASE boot.is = "adopt"
          <6>1. db.current = 0
            BY <5>2 DEF Inv, Started
          <6>2. QED
            BY <6>1, RowsKeyed, KeyringAssumption DEF Key
        <5>3. QED
          BY <3>1, <5>1, <5>2
      <4>2. db'.rows = db.rows
        BY <2>3, <3>1 DEF BootRecord, Promoted, Inv, TypeOK, Database
      <4>3. QED
        BY <4>1, <4>2, SameHolds
    <3>2. CASE UNCHANGED db
      BY <2>3, <3>2, SameHolds DEF BootRecord
    <3>3. QED
      BY <2>3, <3>1, <3>2 DEF BootRecord
  <2>4. QED
    BY <2>1, <2>2, <2>3
<1>3. PlainReads' = PlainReads /\ PlainKept' = PlainKept
  BY <1>1, SameOutside
<1>4. QED
  BY <1>1, <1>2, <1>3, Stutter DEF Refines

LEMMA CrashStep ==
  ASSUME Inv, Inv', Crash
  PROVE  Refines
<1>1. /\ UNCHANGED <<db, archives, named>> /\ \A d \in Clients : call'[d] = Idle
      /\ \/ ring' = ring
         \/ keys < MaxKeys /\ ring' = [ring EXCEPT ![keys + 1] = "short"]
  BY DEF Crash, CreateTorn
<1>2. Idle.op = "none"
  BY DEF Idle
<1>3. PlainHolds' = PlainHolds
  <2>1. CASE ring' = ring
    BY <1>1, <2>1, SameHolds
  <2>2. CASE keys < MaxKeys /\ ring' = [ring EXCEPT ![keys + 1] = "short"]
    BY <1>1, <2>2, NewKeyUnseen
  <2>3. QED
    BY <1>1, <2>1, <2>2
<1>4. PlainReads' = [c \in Clients |-> 0]
  BY <1>1, <1>2 DEF PlainReads, At
<1>5. PlainKept' \subseteq PlainKept
  BY <1>1, <1>2 DEF PlainKept, At
<1>6. QED
  BY <1>1, <1>3, <1>4, <1>5, PlainDie DEF Refines

\* The disk is lost, or the keys alone: the rows there are no longer open.
LEMMA LoseStep ==
  ASSUME Inv, Inv', Lose
  PROVE  Refines
<1>1. /\ UNCHANGED <<call, archives, named>>
      /\ \/ db' = NoDb
         \/ db' = db /\ ring' = [k \in Key |-> "none"]
  BY DEF Lose
<1>2. CASE db' = NoDb
  <2>1. PlainHolds' = [n \in Names |-> 0]
    BY <1>2 DEF PlainHolds, NoDb
  <2>2. QED
    BY <1>1, <2>1, SameOutside, PlainDisaster DEF Refines
<1>3. CASE db' = db /\ ring' = [k \in Key |-> "none"]
  <2>1. \A n \in Names : db.rows[n] # NoRow =>
          ring'[db.current] # "whole" /\ PlainHolds[n] # 0
    BY <1>3, RowsKeyed, KeyringAssumption DEF PlainHolds, Draw
  <2>2. PlainHolds' = [n \in Names |-> IF PlainHolds[n] = 0 THEN 0 ELSE -1]
    BY <1>3, <2>1 DEF PlainHolds
  <2>3. QED
    BY <1>1, <2>2, SameOutside, PlainDisaster DEF Refines
<1>4. QED
  BY <1>1, <1>2, <1>3

LEMMA RestoreDatabaseStep ==
  ASSUME Inv, Inv', RestoreDatabase
  PROVE  Refines
<1>1. /\ restore.pc = "db" /\ UNCHANGED <<ring, call, archives, named>>
      /\ db' = restore.from.db \/ UNCHANGED db
      /\ restore.from \in archives
  BY DEF RestoreDatabase, Inv, Restoring
<1>2. PlainReads' = PlainReads /\ PlainKept' = PlainKept
  BY <1>1, SameOutside
<1>3. CASE UNCHANGED db
  BY <1>1, <1>2, <1>3, SameHolds, Stutter DEF Refines
<1>4. CASE db' = restore.from.db
  <2> DEFINE a == restore.from
  <2>1. a.db \in Database
    BY <1>1 DEF Inv, TypeOK, Archive
  <2>2. \A n \in Names : a.db.rows[n] # NoRow => a.db.rows[n].rev \in Draw
    BY <2>1 DEF Database, Row
  <2>3. \A n \in Names : \/ PlainHolds'[n] = Plain(a.db)[n]
                         \/ Plain(a.db)[n] # 0 /\ PlainHolds'[n] = -1
    BY <1>4, <2>2, KeyringAssumption DEF PlainHolds, Plain, Draw
  <2>4. QED
    BY <1>1, <1>2, <2>3, PlainRestore DEF Refines
<1>5. QED
  BY <1>1, <1>3, <1>4

\* A key file comes back.  Rows under it are the archive's, and they open from here on.
LEMMA RestoreKeyStep ==
  ASSUME Inv, Inv', NEW k \in Key, RestoreKey(k)
  PROVE  Refines
<1> DEFINE a == restore.from
<1>1. /\ restore.pc = "keys" /\ k \in restore.left /\ UNCHANGED <<db, call, archives, named>>
      /\ a \in archives
      /\ \A j \in Key \ {k} : ring'[j] = ring[j]
  BY DEF RestoreKey, Inv, Restoring, TypeOK
<1>2. PlainReads' = PlainReads /\ PlainKept' = PlainKept
  BY <1>1, SameOutside
<1>3. CASE k # db.current
  <2>1. PlainHolds' = PlainHolds
    BY <1>1, <1>3, RowsKeyed, SameHolds
  <2>2. QED
    BY <1>1, <1>2, <2>1, Stutter DEF Refines
<1>4. CASE k = db.current
  <2>1. db.rows = a.db.rows
    BY <1>1, <1>4 DEF Inv, Restoring
  <2>2. \A n \in Names : db.rows[n] # NoRow => db.rows[n].rev \in Draw
    BY RowsKeyed
  <2>3. \A n \in Names : \/ PlainHolds'[n] = Plain(a.db)[n]
                         \/ Plain(a.db)[n] # 0 /\ PlainHolds'[n] = -1
    BY <1>1, <2>1, <2>2, KeyringAssumption DEF PlainHolds, Plain, Draw
  <2>4. QED
    BY <1>1, <1>2, <2>3, PlainRestore DEF Refines
<1>5. QED
  BY <1>3, <1>4

LEMMA RestoreOthers ==
  ASSUME Inv, Inv', RestoreEnds \/ RestoreDies \/ \E a \in archives : RestorePlan(a)
  PROVE  Refines
<1>1. UNCHANGED <<call, archives, named>>
  BY DEF RestoreEnds, RestoreDies, RestorePlan
<1>2. PlainReads' = PlainReads /\ PlainKept' = PlainKept
  BY <1>1, SameOutside
<1>3. PlainHolds' = PlainHolds
  <2>1. CASE UNCHANGED <<ring, db>>
    BY <2>1, SameHolds
  <2>2. ASSUME NEW is, db' = [db EXCEPT !.is = is], UNCHANGED ring
        PROVE  PlainHolds' = PlainHolds
    <3>1. db'.rows = db.rows /\ db'.current = db.current /\ ring' = ring
      BY <2>2 DEF Inv, TypeOK, Database
    <3>2. QED
      BY <3>1, SameHolds
  <2>3. ASSUME restore.pc = "keys", NEW k \in restore.left, UNCHANGED db,
               ring' = [ring EXCEPT ![k] = "short"]
        PROVE  PlainHolds' = PlainHolds
    <3>1. ring[k] = "none" /\ k \in Key
      BY <2>3 DEF Inv, Restoring, TypeOK
    <3>2. \A j \in Key : ring'[j] = "whole" <=> ring[j] = "whole"
      BY <2>3, <3>1 DEF Inv, TypeOK
    <3>3. QED
      BY <2>3, <3>2, RowsKeyed, SameHolds
  <2>4. QED
    BY <2>1, <2>2, <2>3 DEF RestoreEnds, RestoreDies, RestorePlan
<1>4. QED
  BY <1>1, <1>2, <1>3, Stutter DEF Refines

-----------------------------------------------------------------------------
LEMMA RefinesInit == Init => V!Init
<1> SUFFICES ASSUME Init PROVE V!Init
  OBVIOUS
<1>1. Mapped
  BY InitInv, MappingPlain
<1>2. /\ db = NoDb /\ archives = {} /\ named = [r \in Draw |-> Unnamed]
      /\ \A c \in Clients : call[c] = Idle
  BY DEF Init
<1>3. Idle.op = "none" /\ \A n \in Names : NoDb.rows[n] = NoRow
  BY DEF Idle, NoDb
<1>4. PlainHolds = [n \in Names |-> 0]
  BY <1>2, <1>3 DEF PlainHolds
<1>5. PlainReads = [c \in Clients |-> 0] /\ PlainKept = {}
  BY <1>2, <1>3 DEF PlainReads, PlainKept, At
<1>6. QED
  BY <1>1, <1>2, <1>4, <1>5 DEF V!Init, V!Absent, Mapped

LEMMA RefinesNext == Inv /\ Inv' /\ [Next]_vars => [V!Next]_(V!vars)
<1> SUFFICES ASSUME Inv, Inv', [Next]_vars PROVE Refines
  BY DEF Refines
<1>1. CASE BootRead \/ generateKey \/ BootRecord \/ Crash \/ Lose \/ RestoreDatabase
             \/ RestoreDies \/ RestoreEnds
  BY <1>1, BootSteps, CrashStep, LoseStep, RestoreDatabaseStep, RestoreOthers
<1>2. CASE \E c \in Clients, n \in Names, v \in Values, l \in Labels : SetBegin(c, n, v, l)
  BY <1>2, SetSteps
<1>3. CASE \/ \E c \in Clients, n \in Names : ValueBegin(c, n)
           \/ \E n \in Names : Delete(n)
           \/ \E a \in archives : RestorePlan(a)
           \/ \E k \in Key : RestoreKey(k)
  BY <1>3, ValueSteps, DeleteStep, RestoreOthers, RestoreKeyStep
<1>4. ASSUME NEW c \in Clients,
             RekeyBegin(c) \/ BackupSnapshot(c) \/ SetFails(c) \/ RekeyFails(c)
      PROVE  Refines
  BY <1>4, RekeyBeginStep, BackupSnapshotStep, SetSteps, RekeySteps
<1>5. ASSUME NEW c \in Clients, Step(c) PROVE Refines
  BY <1>5, SetSteps, SetWriteStep, ValueSteps, ValueReadStep, ValueOpenStep, RekeySteps,
     RekeyCommitStep, BackupStreamStep DEF Step
<1>6. CASE UNCHANGED vars
  <2>1. UNCHANGED <<ring, db, call, archives, named>>
    BY <1>6 DEF vars
  <2>2. QED
    BY <2>1, SameHolds, SameOutside, Stutter DEF Refines
<1>7. QED
  BY <1>1, <1>2, <1>3, <1>4, <1>5, <1>6 DEF Next

\* The stored secrets implement the vault: rekeying, dying and starting again change nothing
\* anybody can see, and a read gets what its name held, for any number of names, clients,
\* keys, archives, crashes and losses.
THEOREM VaultImplemented == Spec => ImplementsVault
BY InitInv, NextInv, RefinesInit, RefinesNext, PTL DEF Spec, ImplementsVault, V!Spec

=============================================================================

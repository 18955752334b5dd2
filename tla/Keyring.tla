------------------------------- MODULE Keyring -------------------------------
(***************************************************************************)
(* The secrets as they are stored: sealed in the database under the key    *)
(* the database names as current, the key a file of the keyring beside it. *)
(* A rekey writes a new key file, reseals every row in one transaction and *)
(* then swaps the cipher the server holds; sets and reads run beside it    *)
(* under a reader-writer lock, deletes and backups under none.  The server *)
(* may die between any two steps, the disk may be lost while it is down,   *)
(* and an archive may be put back, file by file.                           *)
(*                                                                         *)
(* A sealed value is its plaintext together with the key that seals it.    *)
(* Keys and revisions are numbers in the order they are drawn, which no    *)
(* draw repeats.                                                           *)
(***************************************************************************)
EXTENDS Integers, FiniteSets

CONSTANTS
  Names, Values, Labels, Clients,
  NoRow, Unnamed,
  MaxKeys,        \* bound: keys ever generated
  MaxArchives,    \* bound: archives kept
  MaxCalls,       \* bound: requests
  MaxLosses,      \* bound: times the disk, the keyring or the database is lost
  MaxCrashes,     \* bound: deaths of the server
  MaxFaults       \* bound: transactions that fail

Key == 1..MaxKeys
Draw == 1..MaxCalls    \* a request draws one at most

VARIABLES
  ring,       \* the keyring: the state of each key's file
  db,         \* the database: the keys it records, the current one, the rows
  boot,       \* how far the server has come up, and the key it generated meanwhile
  cipher,     \* the key the server seals and opens under, zero while it is not up
  lock,       \* the lock on the cipher
  call,       \* the request each client has in progress
  restore,    \* the restore in progress
  archives,   \* the archives taken
  named,      \* history: the value each revision was drawn for
  crossed,    \* history: a conditional set replaced a row its caller never saw
  keys, draws, losses, crashes, faults, calls

counts == <<keys, draws, losses, crashes, faults, calls>>
vars == <<ring, db, boot, cipher, lock, call, restore, archives, named, crossed, counts>>

\* A row: the sealed value, its revision, its labels, how often it was written, and its
\* identifier, which a row that replaces a deleted one does not inherit.
Row == [val : Values, key : Key, rev : Draw, lab : Labels, ver : Nat, id : Draw]

ASSUME KeyringAssumption ==
  /\ Unnamed \notin Values /\ NoRow \notin Row /\ IsFiniteSet(Clients)
  /\ {MaxKeys, MaxArchives, MaxCalls, MaxLosses, MaxCrashes, MaxFaults} \subseteq Nat

Rows == {n \in Names : db.rows[n] # NoRow}

NoDb == [is |-> "none", keys |-> {}, current |-> 0, rows |-> [n \in Names |-> NoRow]]

Free == [readers |-> {}, writer |-> {}, queue |-> {}]

Idle == [op |-> "none", pc |-> "idle", name |-> "none", val |-> Unnamed, lab |-> "none",
         ifMatch |-> 0, saw |-> 0, row |-> NoRow, key |-> 0, db |-> NoDb, full |-> FALSE]

NoArchive == [db |-> NoDb, full |-> FALSE, files |-> {}, torn |-> {}]

NotRestoring == [pc |-> "none", from |-> NoArchive, left |-> {}]

Down == [is |-> "down", key |-> 0]

Init ==
  /\ ring = [k \in Key |-> "none"] /\ db = NoDb
  /\ boot = Down /\ cipher = 0 /\ lock = Free
  /\ call = [c \in Clients |-> Idle]
  /\ restore = NotRestoring /\ archives = {}
  /\ named = [r \in Draw |-> Unnamed] /\ crossed = FALSE
  /\ keys = 0 /\ draws = 0 /\ losses = 0 /\ crashes = 0 /\ faults = 0 /\ calls = 0

Fault == faults < MaxFaults /\ faults' = faults + 1

-----------------------------------------------------------------------------
(* The keyring and the start of the server.                                *)

\* Create: the file is flushed, and so is its directory, before the identifier is told.
Create ==
  /\ keys < MaxKeys
  /\ keys' = keys + 1
  /\ ring' = [ring EXCEPT ![keys + 1] = "whole"]

\* Death in Create: a file nobody knows the name of.
CreateTorn ==
  /\ keys < MaxKeys
  /\ keys' = keys + 1
  /\ ring' = [ring EXCEPT ![keys + 1] = "short"]

\* Opening the database makes one where there is none.  What currentKey does next is for
\* the database to say: take the key it names, or generate one, recorded as the first or
\* in place of one that is not in the keyring.  A key file that is too short, and a
\* database that does not open, end the start.
BootRead ==
  /\ boot.is = "down" /\ db.is # "torn"
  /\ db' = [db EXCEPT !.is = "whole"]
  /\ \/ /\ db.current # 0 /\ ring[db.current] = "whole"
        /\ boot' = [boot EXCEPT !.is = "up"] /\ cipher' = db.current
     \/ /\ db.current = 0
        /\ boot' = [boot EXCEPT !.is = "adopt"] /\ UNCHANGED cipher
     \/ /\ db.current # 0 /\ ring[db.current] = "none"
        /\ boot' = [boot EXCEPT !.is = "replace"] /\ UNCHANGED cipher
  /\ UNCHANGED <<ring, lock, call, restore, archives, named, crossed, counts>>

generateKey ==
  /\ boot.is \in {"adopt", "replace"} /\ boot.key = 0
  /\ Create
  /\ boot' = [boot EXCEPT !.key = keys + 1]
  /\ UNCHANGED <<db, cipher, lock, call, restore, archives, named, crossed, draws, losses,
                 crashes, faults, calls>>

\* The current key is demoted and the given one promoted.
Promoted(d, k) == [d EXCEPT !.keys = @ \cup {k}, !.current = k]

Replaceable == Rows = {}

\* Adopt, or Replace, which is refused while there are secrets: the start fails, and the
\* key it generated stays where it is.
BootRecord ==
  /\ boot.key # 0
  /\ \/ /\ boot.is = "adopt" \/ Replaceable
        /\ db' = Promoted(db, boot.key)
        /\ boot' = [is |-> "up", key |-> 0] /\ cipher' = boot.key
     \/ /\ boot.is = "replace" /\ ~Replaceable
        /\ boot' = Down
        /\ UNCHANGED <<db, cipher>>
  /\ UNCHANGED <<ring, lock, call, restore, archives, named, crossed, counts>>

\* The server dies, and what it held in memory with it.
Crash ==
  /\ boot # Down /\ crashes < MaxCrashes
  /\ crashes' = crashes + 1
  /\ \/ UNCHANGED <<ring, keys>>
     \/ CreateTorn
  /\ boot' = Down /\ cipher' = 0 /\ lock' = Free
  /\ call' = [c \in Clients |-> Idle]
  /\ UNCHANGED <<db, restore, archives, named, crossed, draws, losses, faults, calls>>

-----------------------------------------------------------------------------
(* The lock on the cipher, a RWMutex: one that waits to write holds up     *)
(* every later reader.                                                     *)

Request(c) ==
  /\ boot.is = "up" /\ call[c] = Idle
  /\ calls < MaxCalls /\ calls' = calls + 1

At(c, op, pc) == call[c].op = op /\ call[c].pc = pc

Goto(c, pc) == call' = [call EXCEPT ![c].pc = pc]

Done(c) == call' = [call EXCEPT ![c] = Idle]

RLock(c) ==
  /\ lock.writer = {} /\ lock.queue = {}
  /\ lock' = [lock EXCEPT !.readers = @ \cup {c}]

\* Mutant of Unlocked: a writer's early return keeps the lock.
UnlockedReader(c) == [lock EXCEPT !.readers = @ \ {c}]

Unlocked(c) == [lock EXCEPT !.readers = @ \ {c}, !.writer = @ \ {c}]

\* The cipher opens what it sealed and nothing else.
Opens(k, row) == row.key = k

-----------------------------------------------------------------------------
(* Set.                                                                    *)

\* A client sets a secret, on condition that it still is at the version it has read, or not.
SetBegin(c, n, v, l) ==
  /\ Request(c)
  /\ \E cond \in BOOLEAN :
       /\ cond => n \in Rows
       /\ call' = [call EXCEPT ![c] = [Idle EXCEPT
            !.op = "set", !.pc = "lock", !.name = n, !.val = v, !.lab = l,
            !.ifMatch = IF cond THEN db.rows[n].ver ELSE 0,
            !.saw = IF cond THEN db.rows[n].id ELSE 0]]
  /\ UNCHANGED <<ring, db, boot, cipher, lock, restore, archives, named, crossed, keys, draws,
                 losses, crashes, faults>>

SetLock(c) ==
  /\ At(c, "set", "lock") /\ RLock(c) /\ Goto(c, "read")
  /\ UNCHANGED <<ring, db, boot, cipher, restore, archives, named, crossed, counts>>

\* unchanged: the stored value opens and is the given one.
unchanged(row, v) == Opens(cipher, row) /\ row.val = v

Mismatch(n, ifMatch) ==
  ifMatch # 0 /\ (n \notin Rows \/ db.rows[n].ver # ifMatch)

\* store reads the row.  It ends here when the version is another, or nothing changes;
\* a row whose labels alone change is carried to the write as it was read.
SetRead(c) ==
  /\ At(c, "set", "read")
  /\ LET n == call[c].name
         row == db.rows[n]
         same == n \in Rows /\ unchanged(row, call[c].val)
     IN  IF Mismatch(n, call[c].ifMatch) \/ (same /\ row.lab = call[c].lab)
         THEN Done(c) /\ lock' = Unlocked(c)
         ELSE /\ call' = [call EXCEPT ![c].pc = "write", ![c].row = IF same THEN row ELSE NoRow]
              /\ UNCHANGED lock
  /\ UNCHANGED <<ring, db, boot, cipher, restore, archives, named, crossed, counts>>

\* The row Upsert leaves: the one read, relabelled, or the value sealed under a new
\* revision.  The version counts from the row there is, and starts again without one.
Stored(c, cur) ==
  LET read == call[c].row
      seal == [val |-> call[c].val, key |-> cipher, rev |-> draws + 1]
      from == IF read = NoRow THEN seal ELSE [val |-> read.val, key |-> read.key, rev |-> read.rev]
  IN  [val |-> from.val, key |-> from.key, rev |-> from.rev, lab |-> call[c].lab,
       ver |-> IF cur = NoRow THEN 1 ELSE cur.ver + 1,
       id  |-> IF cur = NoRow THEN draws + 1 ELSE cur.id]

\* Upsert, in a transaction that checks the version again.  The readers of the secret are
\* rehashed after, without the lock.
SetWrite(c) ==
  /\ At(c, "set", "write")
  /\ lock' = Unlocked(c) /\ Done(c)
  /\ LET n == call[c].name
         cur == db.rows[n]
         new == Stored(c, cur)
     IN  IF Mismatch(n, call[c].ifMatch)
         THEN UNCHANGED <<db, named, crossed, draws>>
         ELSE /\ draws' = IF new.rev = draws + 1 \/ new.id = draws + 1 THEN draws + 1 ELSE draws
              /\ db' = [db EXCEPT !.rows[n] = new]
              /\ named' = IF new.rev = draws + 1 THEN [named EXCEPT ![new.rev] = call[c].val]
                          ELSE named
              /\ crossed' = (crossed \/ (call[c].saw # 0 /\ cur # NoRow /\ cur.id # call[c].saw))
  /\ UNCHANGED <<ring, boot, cipher, restore, archives, keys, losses, crashes,
                 faults, calls>>

SetFails(c) ==
  /\ At(c, "set", "write") /\ Fault
  /\ lock' = Unlocked(c) /\ Done(c)
  /\ UNCHANGED <<ring, db, boot, cipher, restore, archives, named, crossed, keys, draws,
                 losses, crashes, calls>>

\* Delete takes no lock.
Delete(n) ==
  /\ boot.is = "up" /\ n \in Rows
  /\ db' = [db EXCEPT !.rows[n] = NoRow]
  /\ UNCHANGED <<ring, boot, cipher, lock, call, restore, archives, named, crossed, counts>>

-----------------------------------------------------------------------------
(* Value, for a workload that starts.                                      *)

ValueBegin(c, n) ==
  /\ Request(c)
  /\ call' = [call EXCEPT ![c] = [Idle EXCEPT !.op = "value", !.pc = "lock", !.name = n]]
  /\ UNCHANGED <<ring, db, boot, cipher, lock, restore, archives, named, crossed, keys, draws,
                 losses, crashes, faults>>

\* Mutant of ValueLock: the lock is taken for the decryption alone.
ValueLockLate(c) ==
  /\ At(c, "value", "lock") /\ Goto(c, "read")
  /\ UNCHANGED <<ring, db, boot, cipher, lock, restore, archives, named, crossed, counts>>

ValueLock(c) ==
  /\ At(c, "value", "lock") /\ RLock(c) /\ Goto(c, "read")
  /\ UNCHANGED <<ring, db, boot, cipher, restore, archives, named, crossed, counts>>

ValueRead(c) ==
  /\ At(c, "value", "read")
  /\ IF call[c].name \in Rows
     THEN /\ call' = [call EXCEPT ![c].pc = "open", ![c].row = db.rows[call[c].name]]
          /\ UNCHANGED lock
     ELSE Done(c) /\ lock' = Unlocked(c)
  /\ UNCHANGED <<ring, db, boot, cipher, restore, archives, named, crossed, counts>>

ValueOpen(c) ==
  /\ At(c, "value", "open")
  /\ Done(c) /\ lock' = Unlocked(c)
  /\ UNCHANGED <<ring, db, boot, cipher, restore, archives, named, crossed, counts>>

-----------------------------------------------------------------------------
(* Rekey.                                                                  *)

\* AdminService.Rekey: the key is in the keyring before anything points at it.
RekeyBegin(c) ==
  /\ Request(c)
  /\ Create
  /\ call' = [call EXCEPT ![c] = [Idle EXCEPT !.op = "rekey", !.pc = "queue", !.key = keys + 1]]
  /\ UNCHANGED <<db, boot, cipher, lock, restore, archives, named, crossed, draws, losses,
                 crashes, faults>>

RekeyQueue(c) ==
  /\ At(c, "rekey", "queue") /\ lock.queue = {} /\ Goto(c, "lock")
  /\ lock' = [lock EXCEPT !.queue = {c}]
  /\ UNCHANGED <<ring, db, boot, cipher, restore, archives, named, crossed, counts>>

RekeyLock(c) ==
  /\ At(c, "rekey", "lock") /\ lock.readers = {} /\ lock.writer = {}
  /\ lock' = [lock EXCEPT !.queue = {}, !.writer = {c}]
  /\ Goto(c, "list")
  /\ UNCHANGED <<ring, db, boot, cipher, restore, archives, named, crossed, counts>>

\* Every value is opened and sealed again before anything is written.
RekeyList(c) ==
  /\ At(c, "rekey", "list")
  /\ IF \A n \in Rows : Opens(cipher, db.rows[n])
     THEN call' = [call EXCEPT ![c].pc = "commit", ![c].db = db] /\ UNCHANGED lock
     ELSE Done(c) /\ lock' = Unlocked(c)
  /\ UNCHANGED <<ring, db, boot, cipher, restore, archives, named, crossed, counts>>

Listed(c) == {n \in Names : call[c].db.rows[n] # NoRow}

\* The values sealed again, and nothing else of a row, not its revision.
Resealed(c) ==
  [db EXCEPT !.rows = [n \in Names |->
     IF n \in Listed(c)
     THEN [db.rows[n] EXCEPT !.val = call[c].db.rows[n].val, !.key = call[c].key]
     ELSE db.rows[n]]]

\* As many secrets as were resealed, and each of those still there.
Rekeyable(c) == Rows = Listed(c)

RekeyCommit(c) ==
  /\ At(c, "rekey", "commit")
  /\ IF Rekeyable(c)
     THEN /\ db' = Promoted(Resealed(c), call[c].key)
          /\ Goto(c, "swap") /\ UNCHANGED lock
     ELSE Done(c) /\ lock' = Unlocked(c) /\ UNCHANGED db
  /\ UNCHANGED <<ring, boot, cipher, restore, archives, named, crossed, counts>>

RekeyFails(c) ==
  /\ At(c, "rekey", "commit") /\ Fault
  /\ Done(c) /\ lock' = Unlocked(c)
  /\ UNCHANGED <<ring, db, boot, cipher, restore, archives, named, crossed, keys, draws,
                 losses, crashes, calls>>

RekeySwap(c) ==
  /\ At(c, "rekey", "swap")
  /\ cipher' = call[c].key
  /\ Done(c) /\ lock' = Unlocked(c)
  /\ UNCHANGED <<ring, db, boot, restore, archives, named, crossed, counts>>

-----------------------------------------------------------------------------
(* Backup and restore.                                                     *)

\* PrepareBackup: the database is copied whole, then the keys are listed.
BackupSnapshot(c) ==
  /\ Request(c) /\ Cardinality(archives) < MaxArchives
  /\ \E full \in BOOLEAN :
       call' = [call EXCEPT ![c] = [Idle EXCEPT !.op = "backup", !.pc = "keys", !.db = db,
                                                !.full = full]]
  /\ UNCHANGED <<ring, db, boot, cipher, lock, restore, archives, named, crossed, keys, draws,
                 losses, crashes, faults>>

\* Every key of the keyring.
BackedUp == {k \in Key : ring[k] # "none"}

\* The archive: the snapshot, and the keys when they were asked for.
BackupStream(c) ==
  /\ At(c, "backup", "keys")
  /\ LET files == IF call[c].full THEN BackedUp ELSE {}
     IN  archives' = archives \cup
           {[db |-> call[c].db, full |-> call[c].full, files |-> files,
             torn |-> {k \in files : ring[k] = "short"}]}
  /\ Done(c)
  /\ UNCHANGED <<ring, db, boot, cipher, lock, restore, named, crossed, counts>>

\* While the server is down the database is moved aside or lost, or the keyring is, or both.
Lose ==
  /\ boot = Down /\ restore = NotRestoring /\ losses < MaxLosses
  /\ losses' = losses + 1
  /\ \E gone \in (SUBSET {"db", "ring"}) \ {{}} :
       /\ db' = IF "db" \in gone THEN NoDb ELSE db
       /\ ring' = IF "ring" \in gone THEN [k \in Key |-> "none"] ELSE ring
  /\ UNCHANGED <<boot, cipher, lock, call, restore, archives, named, crossed, keys, draws,
                 crashes, faults, calls>>

vacant(a) == db.is = "none" /\ \A k \in a.files : ring[k] = "none"

\* Nothing is written while the server answers, or unless every file has a free place.
RestorePlan(a) ==
  /\ boot.is # "up" /\ restore = NotRestoring /\ vacant(a)
  /\ restore' = [pc |-> "db", from |-> a, left |-> a.files]
  /\ UNCHANGED <<ring, db, boot, cipher, lock, call, archives, named, crossed, counts>>

\* The database comes first.  A server that started meanwhile has made its own, and the
\* restore is refused.
RestoreDatabase ==
  /\ restore.pc = "db"
  /\ IF db.is = "none"
     THEN db' = restore.from.db /\ restore' = [restore EXCEPT !.pc = "keys"]
     ELSE restore' = NotRestoring /\ UNCHANGED db
  /\ UNCHANGED <<ring, boot, cipher, lock, call, archives, named, crossed, counts>>

\* Then the keys, each flushed before the next.
RestoreKey(k) ==
  /\ restore.pc = "keys" /\ k \in restore.left
  /\ ring' = [ring EXCEPT ![k] = IF k \in restore.from.torn THEN "short" ELSE "whole"]
  /\ restore' = [restore EXCEPT !.left = @ \ {k}]
  /\ UNCHANGED <<db, boot, cipher, lock, call, archives, named, crossed, counts>>

RestoreEnds ==
  /\ restore.pc = "keys" /\ restore.left = {}
  /\ restore' = NotRestoring
  /\ UNCHANGED <<ring, db, boot, cipher, lock, call, archives, named, crossed, counts>>

\* The restore fails or dies within a file, which stays.  A database cut at its start is one
\* that holds nothing, cut anywhere else it does not open.
RestoreDies ==
  /\ faults < MaxFaults /\ faults' = faults + 1
  /\ \/ /\ restore.pc = "db" /\ db.is = "none"
        /\ \E is \in {"torn", "whole"} : db' = [db EXCEPT !.is = is]
        /\ UNCHANGED ring
     \/ /\ restore.pc = "keys"
        /\ \E k \in restore.left : ring' = [ring EXCEPT ![k] = "short"]
        /\ UNCHANGED db
  /\ restore' = NotRestoring
  /\ UNCHANGED <<boot, cipher, lock, call, archives, named, crossed, keys, draws, losses,
                 crashes, calls>>

-----------------------------------------------------------------------------
Step(c) ==
  \/ SetLock(c) \/ SetRead(c) \/ SetWrite(c)
  \/ ValueLock(c) \/ ValueRead(c) \/ ValueOpen(c)
  \/ RekeyQueue(c) \/ RekeyLock(c) \/ RekeyList(c) \/ RekeyCommit(c) \/ RekeySwap(c)
  \/ BackupStream(c)

Next ==
  \/ BootRead \/ generateKey \/ BootRecord \/ Crash
  \/ \E c \in Clients, n \in Names, v \in Values, l \in Labels : SetBegin(c, n, v, l)
  \/ \E c \in Clients, n \in Names : ValueBegin(c, n)
  \/ \E n \in Names : Delete(n)
  \/ \E c \in Clients : Step(c) \/ RekeyBegin(c) \/ BackupSnapshot(c) \/ SetFails(c) \/ RekeyFails(c)
  \/ Lose \/ RestoreDatabase \/ RestoreEnds \/ RestoreDies
  \/ \E a \in archives : RestorePlan(a)
  \/ \E k \in Key : RestoreKey(k)

\* A goroutine that can run does run.
Spec == Init /\ [][Next]_vars /\ \A c \in Clients : WF_vars(Step(c))

-----------------------------------------------------------------------------
(* Properties.                                                             *)

Database ==
  [is : {"none", "torn", "whole"}, keys : SUBSET Key, current : Key \cup {0},
   rows : [Names -> Row \cup {NoRow}]]

Archive == [db : Database, full : BOOLEAN, files : SUBSET Key, torn : SUBSET Key]

Call ==
  [op : {"none", "set", "value", "rekey", "backup"},
   pc : {"idle", "lock", "read", "write", "open", "queue", "list", "commit", "swap", "keys"},
   name : Names \cup {"none"}, val : Values \cup {Unnamed}, lab : Labels \cup {"none"},
   ifMatch : Nat, saw : Nat, row : Row \cup {NoRow}, key : Key \cup {0}, db : Database,
   full : BOOLEAN]

TypeOK ==
  /\ ring \in [Key -> {"none", "short", "whole"}]
  /\ db \in Database
  /\ boot \in [is : {"down", "adopt", "replace", "up"}, key : Key \cup {0}]
  /\ cipher \in Key \cup {0}
  /\ lock \in [readers : SUBSET Clients, writer : SUBSET Clients, queue : SUBSET Clients]
  /\ call \in [Clients -> Call]
  /\ restore \in [pc : {"none", "db", "keys"}, from : Archive, left : SUBSET Key]
  /\ archives \subseteq Archive
  /\ named \in [Draw -> Values \cup {Unnamed}] /\ crossed \in BOOLEAN
  /\ keys \in Nat /\ draws \in Nat /\ calls \in Nat
  /\ keys <= MaxKeys /\ calls <= MaxCalls

\* Every secret is sealed under the key the database names as current, and a server that
\* answers can open all of them: a rekey that dies anywhere, a key lost with the keyring, and
\* a restore leave nothing half moved.  While a rekey holds the lock the cipher may be
\* behind, and nobody reads.
RowsOpen ==
  /\ \A n \in Rows : db.rows[n].key = db.current
  /\ boot.is = "up" =>
       /\ ring[db.current] = "whole"
       /\ cipher = db.current \/ \E c \in lock.writer : At(c, "rekey", "swap")

\* An archive taken with the keys opens its own secrets, whatever rekey ran beside the backup.
ArchivesOpen ==
  \A a \in archives : a.full => \A n \in Names :
    a.db.rows[n] # NoRow => a.db.rows[n].key \in a.files \ a.torn

\* Every request returns: no order of readers and a waiting rekey locks them all out.
CallsReturn == \A c \in Clients : call[c] # Idle ~> call[c] = Idle

\* A set conditioned on a version replaces the secret its caller read, or is refused.
ConditionHolds == ~crossed

-----------------------------------------------------------------------------
(* What the vault holds of this.                                           *)

\* The revision a row stands for, to someone who has the given keys.
Seen(row, opening) ==
  IF row = NoRow THEN 0
  ELSE IF row.key \in opening /\ named[row.rev] = row.val THEN row.rev ELSE -1

Content(d, opening) == [n \in Names |-> Seen(d.rows[n], opening)]

Holds == Content(db, {k \in Key : ring[k] = "whole"})

Reads == [c \in Clients |-> IF At(c, "value", "open") THEN Seen(call[c].row, {cipher}) ELSE 0]

\* What the archives hold, an archive without keys to someone who has them all.
Kept ==
  {Content(a.db, IF a.full THEN a.files \ a.torn ELSE Key) : a \in archives}
    \cup {Content(call[c].db, Key) : c \in {e \in Clients : At(e, "backup", "keys")}}

V == INSTANCE Vault WITH
       Revisions <- Draw, holds <- Holds, named <- named, reads <- Reads, kept <- Kept

\* The stored secrets implement the vault: replacing the key, dying and starting again change
\* nothing that anybody can see, and a read gets what its name held.
ImplementsVault == V!Spec
=============================================================================

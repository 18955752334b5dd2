-------------------------------- MODULE Vault --------------------------------
(***************************************************************************)
(* What the secrets promise their readers, with no key in sight.  A name   *)
(* holds a revision, a revision names one value for good, and a reader     *)
(* gets the revision its name held at a moment of the read.  Archives are  *)
(* contents the vault once had.  Only losing the disk takes a secret away  *)
(* unasked, and only putting an archive back changes what every name       *)
(* holds.  Replacing the key, dying and starting again are not steps of    *)
(* this module: they change nothing here.                                  *)
(***************************************************************************)
EXTENDS Integers

CONSTANTS
  Names, Values, Clients,
  Revisions,      \* the revisions that can be drawn, a set of positive numbers
  Unnamed         \* the value of a revision nobody drew yet

Absent == 0
Lost == -1        \* held, and nothing on this host opens it

VARIABLES
  holds,          \* the revision each name holds
  named,          \* the value each revision names
  reads,          \* what each client's read in progress has got
  kept            \* the contents the archives hold

vars == <<holds, named, reads, kept>>

Content == [Names -> Revisions \cup {Absent}]

TypeOK ==
  /\ holds \in [Names -> Revisions \cup {Absent, Lost}]
  /\ named \in [Revisions -> Values \cup {Unnamed}]
  /\ reads \in [Clients -> Revisions \cup {Absent}]
  /\ kept \subseteq Content

Init ==
  /\ holds = [n \in Names |-> Absent]
  /\ named = [r \in Revisions |-> Unnamed]
  /\ reads = [c \in Clients |-> Absent]
  /\ kept = {}

\* A name is given a value: under a new revision, or under one that names the value already.
Set(n, v) ==
  /\ \E r \in Revisions :
       /\ named[r] \in {v, Unnamed}
       /\ named' = [named EXCEPT ![r] = v]
       /\ holds' = [holds EXCEPT ![n] = r]
  /\ UNCHANGED <<reads, kept>>

Delete(n) ==
  /\ holds' = [holds EXCEPT ![n] = Absent]
  /\ UNCHANGED <<named, reads, kept>>

Read(c, n) ==
  /\ holds[n] # Lost
  /\ reads' = [reads EXCEPT ![c] = holds[n]]
  /\ UNCHANGED <<holds, named, kept>>

Answer(c) ==
  /\ reads' = [reads EXCEPT ![c] = Absent]
  /\ UNCHANGED <<holds, named, kept>>

\* An archive holds what the vault held at one moment, all of it readable.
Keep ==
  /\ holds \in Content
  /\ kept' = kept \cup {holds}
  /\ UNCHANGED <<holds, named, reads>>

Discard ==
  /\ kept' \in SUBSET kept
  /\ UNCHANGED <<holds, named, reads>>

\* The server dies: the reads in progress end, and an archive not yet whole is gone.
Die ==
  /\ reads' = [c \in Clients |-> Absent]
  /\ kept' \in SUBSET kept
  /\ UNCHANGED <<holds, named>>

\* The disk is lost, or the keys alone.
Disaster ==
  /\ holds' \in {[n \in Names |-> Absent],
                 [n \in Names |-> IF holds[n] = Absent THEN Absent ELSE Lost]}
  /\ UNCHANGED <<named, reads, kept>>

\* An archive is put back, and some of what it holds may wait for its key.
Restore ==
  /\ \E s \in kept : holds' \in {h \in [Names -> Revisions \cup {Absent, Lost}] :
       \A n \in Names : h[n] = s[n] \/ (s[n] # Absent /\ h[n] = Lost)}
  /\ UNCHANGED <<named, reads, kept>>

Next ==
  \/ \E n \in Names, v \in Values : Set(n, v)
  \/ \E n \in Names : Delete(n)
  \/ \E c \in Clients, n \in Names : Read(c, n)
  \/ \E c \in Clients : Answer(c)
  \/ Keep \/ Discard \/ Die \/ Disaster \/ Restore

Spec == Init /\ [][Next]_vars
=============================================================================

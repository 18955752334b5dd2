------------------------------ MODULE MCDesired ------------------------------
(***************************************************************************)
(* An instance of Desired: a workload a that publishes a port takt         *)
(* allocates, for one instance or for two, and a workload b that follows   *)
(* its tag, reads a secret and refers to a's port.  The database starts    *)
(* empty, or as calls made one after another leave it.                     *)
(***************************************************************************)
EXTENDS Desired

CONSTANTS a, b, s, v

MCNames == {a, b}
MCSecrets == {s}
MCVariables == {v}
MCOffset == [n \in MCNames |-> 0]

Dynamic(n) == [container |-> n, protocol |-> "tcp", from |-> 0]

Serves(n) == [count |-> n, ports |-> {Dynamic(1)}, reads |-> {}, refs |-> {},
              refreshed |-> {}, pull |-> "missing"]

Reads == [count |-> 1, ports |-> {Dynamic(2)}, reads |-> {s, v},
          refs |-> {[name |-> a, port |-> 1]}, refreshed |-> {}, pull |-> "follow"]

MCManifests ==
  {[name |-> a, spec |-> Serves(1)], [name |-> a, spec |-> Serves(2)],
   [name |-> b, spec |-> Reads], [name |-> b, spec |-> [Reads EXCEPT !.refreshed = {v}]]}

\* A secret and a variable set, then a applied, then b.
Seeded ==
  LET claimed(n) == [instance |-> 0, container |-> n, protocol |-> "tcp", host |-> n,
                     dynamic |-> TRUE]
      served == [Serves(1) EXCEPT !.ports = Resolved(@, {claimed(1)})]
      reading == [Reads EXCEPT !.ports = Resolved(@, {claimed(2)})]
      read == [things |-> {<<t, 1>> : t \in {s, v}},
               addresses |-> {<<r, 1>> : r \in Reads.refs}, digest |-> 1]
  IN /\ thing = [t \in {s, v} |-> [version |-> 1, value |-> 1,
                                   revision |-> IF t = s THEN 1 ELSE 2]]
     /\ workload = [n \in MCNames |->
          [id |-> IF n = a THEN 3 ELSE 4, version |-> 1,
           spec |-> IF n = a THEN served ELSE reading,
           hash |-> IF n = a THEN Compute(served, NoInputs) ELSE Compute(reading, read),
           deleted |-> FALSE, suspended |-> FALSE]]
     /\ port = {[workload |-> 3, claim |-> claimed(1)], [workload |-> 4, claim |-> claimed(2)]}
     /\ ids = 4 /\ tag = 0 /\ call = [c \in Clients |-> Idle]
     /\ calls = 0 /\ faults = 0 /\ torn = {} /\ behind = {}

MCSpec == (Init \/ Seeded) /\ [][Next]_vars

=============================================================================

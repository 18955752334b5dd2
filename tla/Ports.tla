-------------------------------- MODULE Ports --------------------------------
(***************************************************************************)
(* How a workload's port mappings are settled on host ports: what each of  *)
(* its instances keeps, what is allocated around it, and what the stored   *)
(* specification is rewritten with.  A mapping is a container port and a   *)
(* protocol, with the host port it is pinned to, or zero.  A claim settles *)
(* one mapping for one instance.  Naming of ports is left out: a reference *)
(* is to the container port.                                               *)
(***************************************************************************)
EXTENDS Naturals, FiniteSets

CONSTANTS Hosts         \* the range host ports are allocated from

ASSUME PortsAssumption == Hosts \subseteq Nat \ {0} /\ IsFiniteSet(Hosts)

Mapping == [container : Nat, protocol : {"tcp", "udp"}, from : Nat]

Claim ==
  [instance : Nat, container : Nat, protocol : {"tcp", "udp"}, host : Nat \ {0},
   dynamic : BOOLEAN]

\* A port's identity: what is taken over one protocol says nothing of the other.
Key(x) == <<x.container, x.protocol>>

\* A port is published once.
OneEach(mappings) == \A m, n \in mappings : Key(m) = Key(n) => m = n

\* Whether a collision is the caller's problem rather than takt's to retry.
Pinned(mappings) == \E m \in mappings : m.from # 0

\* What was originally asked for, recovered from the stored specification, which
\* carries the first instance's host ports.
Requested(mappings, held) ==
  {IF \E c \in held : c.dynamic /\ c.instance = 0 /\ Key(c) = Key(m)
     THEN [m EXCEPT !.from = 0] ELSE m : m \in mappings}

\* The claim an instance keeps for a mapping, as a set of at most one.
heldBy(existing, instance, m) ==
  {c \in existing : c.instance = instance /\ Key(c) = Key(m) /\ c.dynamic /\ m.from = 0}

\* The instances and container ports a host port has to be chosen for.  The mappings of
\* one container port are allocated together, so that both protocols get one number.
Wanted(existing, mappings, count) ==
  {w \in (0..(count - 1)) \X {m.container : m \in mappings} :
     \E m \in mappings :
       m.container = w[2] /\ m.from = 0 /\ heldBy(existing, w[1], m) = {}}

\* The protocols a wanted port is to be free on.
ProtocolsOf(existing, mappings, w) ==
  {m.protocol : m \in {n \in mappings :
     n.container = w[2] /\ n.from = 0 /\ heldBy(existing, w[1], n) = {}}}

\* What is off limits: ports promised to any workload, and those this specification pins.
Taken(allocated, mappings) ==
  {<<c.host, c.protocol>> : c \in allocated}
    \cup {<<m.from, m.protocol>> : m \in {n \in mappings : n.from # 0}}

\* Every way Allocate may choose: the search starts anywhere, and what else listens on
\* the host decides which candidates are usable.
Allocations(existing, mappings, count, taken) ==
  LET wanted == Wanted(existing, mappings, count)
  IN {a \in [wanted -> Hosts] :
        \A w \in wanted : \A p \in ProtocolsOf(existing, mappings, w) :
          /\ <<a[w], p>> \notin taken
          /\ \A v \in wanted \ {w} :
               p \in ProtocolsOf(existing, mappings, v) => a[v] # a[w]}

\* One mapping of one instance, settled.
resolve(existing, a, instance, m) ==
  IF m.from # 0
    THEN [instance |-> instance, container |-> m.container, protocol |-> m.protocol,
          host |-> m.from, dynamic |-> FALSE]
    ELSE [instance |-> instance, container |-> m.container, protocol |-> m.protocol,
          host |-> IF heldBy(existing, instance, m) # {}
                     THEN (CHOOSE c \in heldBy(existing, instance, m) : TRUE).host
                     ELSE a[<<instance, m.container>>],
          dynamic |-> TRUE]

\* Every set of claims Resolve may settle a specification on; none when a port is pinned
\* for more than one instance or the range is exhausted.
Resolutions(existing, mappings, count, allocated) ==
  IF count > 1 /\ Pinned(mappings)
    THEN {}
    ELSE {{resolve(existing, a, i, m) : i \in 0..(count - 1), m \in mappings} :
            a \in Allocations(existing, mappings, count, Taken(allocated, mappings))}

\* A pinned port that another workload holds is refused while the request is in flight.
PinnedElsewhere(mappings, others) ==
  \E m \in mappings : m.from # 0 /\ \E c \in others :
    <<c.host, c.protocol>> = <<m.from, m.protocol>>

\* The mappings with every host side filled in from the first instance's claims.
Resolved(mappings, claims) ==
  IF claims = {}
    THEN mappings
    ELSE {[m EXCEPT !.from = (CHOOSE c \in claims : c.instance = 0 /\ Key(c) = Key(m)).host] :
            m \in {n \in mappings : \E c \in claims : c.instance = 0 /\ Key(c) = Key(n)}}

\* The host ports a set of claims holds.
HostPorts(claims) == {<<c.host, c.protocol>> : c \in claims}

\* How many instances a workload runs, read from the ports it publishes.
countOf(published) ==
  1 + (CHOOSE n \in {c.instance : c \in published} \cup {0} :
         \A c \in published : c.instance <= n)
===============================================================================

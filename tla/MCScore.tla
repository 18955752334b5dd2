------------------------------- MODULE MCScore -------------------------------
(***************************************************************************)
(* Two installs that share the name of a variable.  The blog's api mounts  *)
(* the variable with expand, whose value names the database; its second    *)
(* release has no api.  The shop's cart mounts the blog's volume.          *)
(***************************************************************************)
EXTENDS Score, TLC

MCSymmetry == Permutations(Clients)

MCVolumes == {"data"}
MCVariables == {"cfg"}
MCWorkloads == {"api", "cart", "db"}
MCRank == [data |-> 1, cfg |-> 1, api |-> 1, cart |-> 2, db |-> 3]
MCDirect == [api |-> {"cfg"}, cart |-> {"data", "cfg"}, db |-> {"data"}]
MCExpands == [api |-> {"cfg"}, cart |-> {}, db |-> {}]
MCInside == [cfg |-> {"db"}]
MCRendered ==
  [blog |-> <<{"data", "cfg", "db", "api"}, {"data", "cfg", "db"}>>,
   shop |-> <<{"cfg", "cart"}, {}>>]
=============================================================================

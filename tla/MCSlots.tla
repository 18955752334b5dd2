------------------------------- MODULE MCSlots -------------------------------
(***************************************************************************)
(* An instance of Slots: a workload of two containers, a checked one of    *)
(* one that refers to another and gives up after a restart, a scheduled    *)
(* one, and a job of two processes.                                        *)
(***************************************************************************)
EXTENDS Slots

Served == [runtime |-> "docker", count |-> 2, schedule |-> FALSE, overlap |-> "replace", policy |-> "always",
           attempts |-> 0, base |-> 1, ref |-> FALSE, check |-> FALSE]

Reader == [runtime |-> "docker", count |-> 1, schedule |-> FALSE, overlap |-> "replace", policy |-> "on-failure",
           attempts |-> 1, base |-> 0, ref |-> TRUE, check |-> TRUE]

Nightly == [runtime |-> "docker", count |-> 1, schedule |-> TRUE, overlap |-> "skip", policy |-> "on-failure",
            attempts |-> 0, base |-> 2, ref |-> FALSE, check |-> FALSE]

Job == [runtime |-> "exec", count |-> 2, schedule |-> FALSE, overlap |-> "replace",
        policy |-> "on-failure", attempts |-> 0, base |-> 1, ref |-> FALSE, check |-> FALSE]

MCSpecs == {Served, Reader, Nightly, Job}
=============================================================================

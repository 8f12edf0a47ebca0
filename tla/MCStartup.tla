------------------------------ MODULE MCStartup ------------------------------
(***************************************************************************)
(* Startup with config files that are missing, malformed, lack a required  *)
(* field, or set the interval, the pool size and the consistency to a      *)
(* negative, zero, empty, upper-case, unknown or ordinary value; up to two *)
(* signals.                                                                *)
(***************************************************************************)
EXTENDS Startup

MCConfigFiles ==
    {[kind |-> k, required |-> FALSE, interval |-> 0, poolSize |-> 0, consistency |-> ""] :
        k \in {"missing", "malformed"}}
    \cup [kind : {"yaml"}, required : BOOLEAN, interval : {-1, 0, 2}, poolSize : {0, 4},
          consistency : {"", "LOCAL_ONE", "quorum", "fast"}]

MCConsistencyLevels ==
    {"any", "one", "two", "three", "quorum", "all", "local_quorum", "each_quorum", "local_one"}

MCToLower(s) == IF s = "LOCAL_ONE" THEN "local_one" ELSE s

=============================================================================

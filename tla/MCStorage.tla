------------------------------ MODULE MCStorage ------------------------------
(* Instances of the three modules about files for TLC: the intent log, the *)
(* database and the shared reference data under its lock.  They share no   *)
(* state, so a behaviour runs one of them and the others stay as they were *)
(* created.                                                                *)
EXTENDS Store, SharedRefdata, IntentLog, TLC

VARIABLE machine    \* the one that runs: "log", "store" or "cache"

Created ==
    /\ machine # "store" => db = Left(0, {})
    /\ machine # "cache" => lock = NoFile

MCInit == machine \in {"log", "store", "cache"} /\ LogInit /\ Init /\ RefdataInit /\ Created

MCNext ==
    \/ machine = "log"   /\ LogNext     /\ UNCHANGED <<machine, vars, refdataVars>>
    \/ machine = "store" /\ Next        /\ UNCHANGED <<machine, logVars, refdataVars>>
    \/ machine = "cache" /\ RefdataNext /\ UNCHANGED <<machine, logVars, vars>>

MCSpec == MCInit /\ [][MCNext]_<<machine, vars, logVars, refdataVars>>

\* Sibling processes differ by name only.
Symmetry == Permutations(Proc)
=============================================================================

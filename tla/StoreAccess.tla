----------------------------- MODULE StoreAccess -----------------------------
(***************************************************************************)
(* The Repository shared by its writers and a reader: the jobs of module   *)
(* JobProcessing write the tables while one call of the read API           *)
(* (module RepositoryReads) queries them, each step of either interleaved  *)
(* with the other's.                                                       *)
(***************************************************************************)
EXTENDS JobProcessing

CONSTANTS
    Ranges,   \* <<from, to>> ranges the reader may ask for
    NoRow     \* model value: the reader's struct before its first Scan

VARIABLES rpc, query, asked, pending, scanned, list, iterErr, answer

Reads == INSTANCE RepositoryReads WITH Validators <- Range(Validators)

readVars == <<rpc, query, asked, pending, scanned, list, iterErr, answer>>

allVars == <<vars, readVars>>

StoreInit == Init /\ Reads!ReadInit

(* A step of a job (or processResults), or a step of the reader.           *)
StoreNext ==
    \/ Next /\ UNCHANGED readVars
    \/ Reads!ReadNext /\ UNCHANGED <<jpc, fetched, penaltyQueue, result, cancelled, loggedJobs, rewardLog>>

StoreSpec == StoreInit /\ [][StoreNext]_allVars

(* Properties of the reads, as the reader sees the shared tables.          *)
ReadAnswersQuery == Reads!ReadAnswersQuery

=============================================================================

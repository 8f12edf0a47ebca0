--------------------------- MODULE RepositoryReads ---------------------------
(***************************************************************************)
(* The read side of the Repository (src/internal/storage/repository.go     *)
(* 210-297): GetValidatorSnapshots, GetAttestationRewards and              *)
(* GetLatestSnapshot, against the tables the monitor's jobs write (the     *)
(* variable store, shared with module JobProcessing).                      *)
(*                                                                         *)
(* A range query runs when Iter() is called and its answer -- the rows of  *)
(* the validator in the range, ORDER BY the clustering column DESC -- is   *)
(* fixed then (one page: the answers here are far below gocql's page       *)
(* size).  The Scan loop then copies row after row into one reused struct  *)
(* and appends a pointer to a copy of it; with DBFaults the iterator may   *)
(* fail at any Scan, which iter.Close() reports.  GetLatestSnapshot is one *)
(* Query.Scan of the first row, LIMIT 1.                                   *)
(***************************************************************************)
EXTENDS Naturals, Sequences, SequencesExt

CONSTANTS
    Validators,   \* validator indices a reader may ask about
    Ranges,       \* <<from, to>> ranges a reader may ask for
    DBFaults,     \* whether a read may fail
    NoRow         \* model value: the reused struct before the first Scan

VARIABLES
    store,        \* the tables, as sets of rows (shared with JobProcessing)
    rpc,          \* "idle", "scan" (in the Scan loop) or "done"
    query,        \* [kind, index, from, to] of the call
    asked,        \* history: the rows of the table when the query ran
    pending,      \* rows the iterator has not yet handed to Scan
    scanned,      \* the reused struct (snapshot / reward) Scan writes into
    list,         \* the slice of pointers built so far
    iterErr,      \* the iterator has failed; Close will return the error
    answer        \* what the call returned: [err, rows]

readVars == <<rpc, query, asked, pending, scanned, list, iterErr, answer>>

Table(kind) == IF kind = "rewards" THEN "attestation_rewards" ELSE "validator_snapshots"

(* The clustering column of a row: slot for snapshots, epoch for rewards.  *)
Clustering(row) == IF row.table = "attestation_rewards" THEN row.epoch ELSE row.slot

(* WHERE validator_index = ? AND <column> >= ? AND <column> <= ?.          *)
InRange(row, q) ==
    /\ row.table = Table(q.kind)
    /\ row.index = q.index
    /\ q.kind = "latest" \/ Clustering(row) \in q.from..q.to

(* ORDER BY <column> DESC over the rows the query selects.                 *)
Descending(a, b) == Clustering(a) > Clustering(b)

Selected(q) == {row \in store : InRange(row, q)}

QueryAnswer(q) == SetToSortSeq(Selected(q), Descending)

-----------------------------------------------------------------------------

(* The Query(...).WithContext(ctx).Iter() of a range read.                 *)
StartRangeRead ==
    /\ rpc = "idle"
    /\ \E kind \in {"snapshots", "rewards"}, v \in Validators, r \in Ranges :
          LET q == [kind |-> kind, index |-> v, from |-> r[1], to |-> r[2]]
          IN  /\ query' = q
              /\ asked' = Selected(q)
              /\ pending' = QueryAnswer(q)
    /\ rpc' = "scan"
    /\ UNCHANGED <<store, scanned, list, iterErr, answer>>

(* Seeded fault for ReadAnswersQuery: the loop appends &snapshot, the      *)
(* reused struct itself, rather than a pointer to a copy.                  *)
PointerToReusedStruct(row) == [to |-> "struct", row |-> row]

(* s := snapshot; snapshots = append(snapshots, &s): a pointer to a copy.  *)
PointerToCopy(row) == [to |-> "copy", row |-> row]

(* iter.Scan(...) returns true: the next row is written into the struct.   *)
ScanRow ==
    /\ rpc = "scan"
    /\ pending # << >>
    /\ ~iterErr
    /\ scanned' = Head(pending)
    /\ list' = Append(list, PointerToCopy(Head(pending)))
    /\ pending' = Tail(pending)
    /\ UNCHANGED <<store, rpc, query, asked, iterErr, answer>>

(* A page fetch or the query fails: Scan returns false from now on.        *)
IterFails ==
    /\ rpc = "scan"
    /\ DBFaults
    /\ ~iterErr
    /\ iterErr' = TRUE
    /\ UNCHANGED <<store, rpc, query, asked, pending, scanned, list, answer>>

(* What the caller reads through the returned pointers: a pointer to the   *)
(* reused struct shows its last contents.                                  *)
Deref(l) == [k \in DOMAIN l |-> IF l[k].to = "struct" THEN scanned ELSE l[k].row]

(* The loop ends; if err := iter.Close(); err != nil return nil, err.      *)
CloseIter ==
    /\ rpc = "scan"
    /\ pending = << >> \/ iterErr
    /\ answer' = IF iterErr THEN [err |-> TRUE, rows |-> << >>]
                 ELSE [err |-> FALSE, rows |-> Deref(list)]
    /\ rpc' = "done"
    /\ UNCHANGED <<store, query, asked, pending, scanned, list, iterErr>>

(* GetLatestSnapshot: Query(...).Scan(...) of the first row; no row is     *)
(* gocql.ErrNotFound, and any failure is returned as an error.             *)
GetLatestSnapshot ==
    /\ rpc = "idle"
    /\ \E v \in Validators, fails \in IF DBFaults THEN BOOLEAN ELSE {FALSE} :
          LET q == [kind |-> "latest", index |-> v, from |-> 0, to |-> 0]
              first == QueryAnswer(q)
          IN  /\ query' = q
              /\ asked' = Selected(q)
              /\ answer' = IF fails \/ first = << >> THEN [err |-> TRUE, rows |-> << >>]
                           ELSE [err |-> FALSE, rows |-> << Head(first) >>]
    /\ rpc' = "done"
    /\ UNCHANGED <<store, pending, scanned, list, iterErr>>

ReadInit ==
    /\ rpc = "idle"
    /\ query = [kind |-> "none", index |-> 0, from |-> 0, to |-> 0]
    /\ asked = {}
    /\ pending = << >>
    /\ scanned = NoRow
    /\ list = << >>
    /\ iterErr = FALSE
    /\ answer = [err |-> FALSE, rows |-> << >>]

(* One call of the read API; its result stays for the properties.          *)
ReadNext ==
    StartRangeRead \/ ScanRow \/ IterFails \/ CloseIter \/ GetLatestSnapshot

-----------------------------------------------------------------------------
(* Properties.                                                             *)

(* A range read that succeeds returns every row the query selected when it *)
(* ran, each once, newest first, and each the row as stored, although     *)
(* Scan reuses one struct for every row; one that fails returns no rows,  *)
(* never the part scanned so far.                                          *)
ReadAnswersQuery ==
    (rpc = "done" /\ query.kind # "latest") =>
        IF answer.err THEN answer.rows = << >>
        ELSE /\ Range(answer.rows) = asked
             /\ Len(answer.rows) = Cardinality(asked)
             /\ IsSorted(answer.rows, Descending)

=============================================================================

---------------------------- MODULE JobProcessing ----------------------------
(***************************************************************************)
(* Monitor.Process (src/unnamed/part_001 173-302) for a set of jobs run    *)
(* by the pool's workers, one worker per job, and the Repository writes    *)
(* they make (src/internal/storage/repository.go).                         *)
(*                                                                         *)
(* Each job fetches from the Beacon API (the call succeeds or fails; once  *)
(* the context is cancelled it fails), builds its rows, and writes them    *)
(* with the job's context: a single INSERT, or an unlogged batch whose     *)
(* rows lie in different partitions (one per validator) and may apply in   *)
(* part.  A write fails once the context is cancelled; with DBFaults it    *)
(* may also fail on its own.  Write errors are only logged; the job still  *)
(* returns its rows as the result.  The store keeps rows by primary key    *)
(* (migrations, src/unnamed/part_003 12-51), last writer wins.             *)
(***************************************************************************)
EXTENDS Integers, Sequences, SequencesExt, FiniteSets

CONSTANTS
    Jobs,           \* the jobs, records [type, slot, epoch, validator]
    Validators,     \* cfg.Validators, as a sequence
    RewardTriples,  \* <<head, source, target>> values the node may report
    DBFaults,       \* whether a write may fail without a cancellation
    NoResult        \* model value: the job has not returned

VARIABLES
    jpc,          \* per job: "fetch", "save", "penalties" or "done"
    fetched,      \* per job: the rows built from the API response
    penaltyQueue, \* per rewards job: penalties not yet written
    store,        \* the four tables, as sets of rows
    result,       \* per job: NoResult or [err, data]
    cancelled,    \* ctx.Done() is ready
    loggedJobs,   \* jobs whose result processResults has logged
    rewardLog     \* the attestation_reward lines logged

vars == <<jpc, fetched, penaltyQueue, store, result, cancelled, loggedJobs, rewardLog>>

-----------------------------------------------------------------------------
(* Rows and primary keys (models.go, migrations).                          *)

SnapshotRow(job, v) ==
    [table |-> "validator_snapshots", index |-> v, slot |-> job.slot]

DutyRow(job, v) ==
    [table |-> "attestation_duties", index |-> v, epoch |-> job.epoch]

(* totalReward := Head + Source + Target (int64; the values a node reports *)
(* are far from the int64 bounds).                                         *)
RewardRow(job, v, t) ==
    [table |-> "attestation_rewards", index |-> v, epoch |-> job.epoch,
     head |-> t[1], source |-> t[2], target |-> t[3], total |-> t[1] + t[2] + t[3]]

(* Seeded fault for TypeOK: the negation of the total is dropped.          *)
PenaltyRowUnnegated(job, r) ==
    [table |-> "validator_penalties", index |-> r.index, epoch |-> job.epoch,
     slot |-> job.slot, gwei |-> r.total]

(* PenaltyGwei: -totalReward, "Convert to positive".                       *)
PenaltyRow(job, r) ==
    [table |-> "validator_penalties", index |-> r.index, epoch |-> job.epoch,
     slot |-> job.slot, gwei |-> -r.total]

Key(row) ==
    CASE row.table = "validator_snapshots" -> <<row.table, row.index, row.slot>>
      [] row.table = "attestation_duties"  -> <<row.table, row.index, row.epoch>>
      [] row.table = "attestation_rewards" -> <<row.table, row.index, row.epoch>>
      [] OTHER -> <<row.table, row.index, row.epoch, row.slot>>

(* INSERT ... : an upsert on the row's primary key.                        *)
Upsert(rows) ==
    store' = {s \in store : \A r \in rows : Key(s) # Key(r)} \cup rows

-----------------------------------------------------------------------------
(* The API call of each job type.                                          *)

(* GetValidator: one snapshot.  GetAttesterDuties: the validators with a   *)
(* duty in the epoch.  GetAttestationRewards: one triple per validator.    *)
Responses(job) ==
    CASE job.type = "Status"  -> {<< SnapshotRow(job, job.validator) >>}
      [] job.type = "Duties"  ->
            {[i \in 1..Len(s) |-> DutyRow(job, s[i])] : s \in {<<>>, Validators}}
      [] OTHER ->
            {[i \in DOMAIN Validators |-> RewardRow(job, Validators[i], t[i])] :
                t \in [DOMAIN Validators -> RewardTriples]}

(* Seeded fault for RowsMatchResponses: a zero total is also recorded as a *)
(* penalty.                                                                *)
PenaltiesAtOrBelowZero(job, rows) ==
    [i \in 1..Len(SelectSeq(rows, LAMBDA r : r.total <= 0)) |->
        PenaltyRow(job, SelectSeq(rows, LAMBDA r : r.total <= 0)[i])]

(* if totalReward < 0: a ValidatorPenalty with PenaltyGwei = -totalReward. *)
Penalties(job, rows) ==
    [i \in 1..Len(SelectSeq(rows, LAMBDA r : r.total < 0)) |->
        PenaltyRow(job, SelectSeq(rows, LAMBDA r : r.total < 0)[i])]

-----------------------------------------------------------------------------
(* processStatusJob / processDutiesJob / processRewardsJob.                *)

(* The API call fails: return nil, err.                                    *)
FetchFailed(j) ==
    /\ jpc[j] = "fetch"
    /\ jpc' = [jpc EXCEPT ![j] = "done"]
    /\ result' = [result EXCEPT ![j] = [err |-> TRUE, data |-> << >>]]
    /\ UNCHANGED <<fetched, penaltyQueue, store, cancelled, loggedJobs, rewardLog>>

(* The API call answers; the rows (and, for rewards, the penalties) are    *)
(* built.                                                                  *)
Fetch(j) ==
    /\ jpc[j] = "fetch"
    /\ ~cancelled
    /\ \E rows \in Responses(j) :
          /\ fetched' = [fetched EXCEPT ![j] = rows]
          /\ penaltyQueue' = [penaltyQueue EXCEPT ![j] =
                                IF j.type = "Rewards" THEN Penalties(j, rows) ELSE << >>]
    /\ jpc' = [jpc EXCEPT ![j] = "save"]
    /\ UNCHANGED <<store, result, cancelled, loggedJobs, rewardLog>>

(* The rows a write (Exec or ExecuteBatch, WithContext(ctx)) applies.     *)
(* With ctx cancelled the query is not sent.  A failing write may still    *)
(* have applied (a timeout), and an unlogged batch whose rows lie in       *)
(* several partitions may apply any part of them.                          *)
Applied(rows) ==
    CASE cancelled -> {{}}
      [] DBFaults  -> SUBSET Range(rows)
      [] OTHER     -> {Range(rows)}

(* Seeded fault for ResultKeepsObservations: a failed write fails the job. *)
SaveReturnsWriteError(j) ==
    /\ jpc[j] = "save"
    /\ \E applied \in Applied(fetched[j]) :
          /\ Upsert(applied)
          /\ jpc' = [jpc EXCEPT ![j] = IF applied # Range(fetched[j]) THEN "done"
                                       ELSE IF j.type = "Rewards" THEN "penalties" ELSE "done"]
          /\ result' = IF applied # Range(fetched[j])
                       THEN [result EXCEPT ![j] = [err |-> TRUE, data |-> << >>]]
                       ELSE IF j.type = "Rewards" THEN result
                       ELSE [result EXCEPT ![j] = [err |-> FALSE, data |-> fetched[j]]]
    /\ UNCHANGED <<fetched, penaltyQueue, cancelled, loggedJobs, rewardLog>>

(* SaveValidatorSnapshot / SaveAttestationDuties / SaveAttestationRewards: *)
(* an error is logged and processing goes on.                              *)
Save(j) ==
    /\ jpc[j] = "save"
    /\ \E applied \in Applied(fetched[j]) : Upsert(applied)
    /\ jpc' = [jpc EXCEPT ![j] = IF j.type = "Rewards" THEN "penalties" ELSE "done"]
    /\ result' = IF j.type = "Rewards" THEN result
                 ELSE [result EXCEPT ![j] = [err |-> FALSE, data |-> fetched[j]]]
    /\ UNCHANGED <<fetched, penaltyQueue, cancelled, loggedJobs, rewardLog>>

(* for _, penalty := range penalties: SaveValidatorPenalty, errors logged. *)
SavePenalty(j) ==
    /\ jpc[j] = "penalties"
    /\ penaltyQueue[j] # << >>
    /\ \E applied \in Applied(<< Head(penaltyQueue[j]) >>) : Upsert(applied)
    /\ penaltyQueue' = [penaltyQueue EXCEPT ![j] = Tail(@)]
    /\ UNCHANGED <<jpc, fetched, result, cancelled, loggedJobs, rewardLog>>

(* return rewards, nil.                                                    *)
ReturnRewards(j) ==
    /\ jpc[j] = "penalties"
    /\ penaltyQueue[j] = << >>
    /\ jpc' = [jpc EXCEPT ![j] = "done"]
    /\ result' = [result EXCEPT ![j] = [err |-> FALSE, data |-> fetched[j]]]
    /\ UNCHANGED <<fetched, penaltyQueue, store, cancelled, loggedJobs, rewardLog>>

-----------------------------------------------------------------------------
(* processResults / logResult.                                             *)

(* duty_success: reward.TotalReward >= 0.                                  *)
DutySuccess(r) == r.total >= 0

(* A failed job is logged as "Job failed"; a rewards result logs one       *)
(* attestation_reward line per reward.                                     *)
LogResult(j) ==
    /\ result[j] # NoResult
    /\ j \notin loggedJobs
    /\ loggedJobs' = loggedJobs \cup {j}
    /\ rewardLog' = rewardLog \cup
          IF j.type = "Rewards" /\ ~result[j].err
          THEN {[index |-> r.index, epoch |-> r.epoch, dutySuccess |-> DutySuccess(r)] :
                   r \in Range(result[j].data)}
          ELSE {}
    /\ UNCHANGED <<jpc, fetched, penaltyQueue, store, result, cancelled>>

-----------------------------------------------------------------------------

(* main cancels the root context on a signal.                              *)
Cancel ==
    /\ ~cancelled
    /\ cancelled' = TRUE
    /\ UNCHANGED <<jpc, fetched, penaltyQueue, store, result, loggedJobs, rewardLog>>

(* Every job has returned and every result has been logged.               *)
AllDone ==
    /\ \A j \in Jobs : jpc[j] = "done"
    /\ loggedJobs = Jobs
    /\ UNCHANGED vars

Init ==
    /\ jpc = [j \in Jobs |-> "fetch"]
    /\ fetched = [j \in Jobs |-> << >>]
    /\ penaltyQueue = [j \in Jobs |-> << >>]
    /\ store = {}
    /\ result = [j \in Jobs |-> NoResult]
    /\ cancelled = FALSE
    /\ loggedJobs = {}
    /\ rewardLog = {}

Next ==
    \/ \E j \in Jobs :
          \/ FetchFailed(j) \/ Fetch(j) \/ Save(j) \/ SavePenalty(j) \/ ReturnRewards(j)
          \/ LogResult(j)
    \/ Cancel
    \/ AllDone

Spec == Init /\ [][Next]_vars

-----------------------------------------------------------------------------
(* Properties.                                                             *)

RewardsOf(j) == {r \in Range(fetched[j]) : r.table = "attestation_rewards"}

RowsIn(table) == {row \in store : row.table = table}

(* Type invariant; penalty_gwei is positive (models.go: "Penalty amount    *)
(* (positive value)").                                                     *)
TypeOK ==
    /\ jpc \in [Jobs -> {"fetch", "save", "penalties", "done"}]
    /\ \A j \in Jobs : result[j] = NoResult \/ result[j].err \in BOOLEAN
    /\ cancelled \in BOOLEAN
    /\ loggedJobs \subseteq Jobs
    /\ \A p \in RowsIn("validator_penalties") : p.gwei \in Nat \ {0}
    /\ \A e \in rewardLog : e.dutySuccess \in BOOLEAN

(* The log and the store never disagree: no validator whose reward line    *)
(* logResult prints with duty_success:true (total >= 0) has a penalty row  *)
(* for that epoch (processRewardsJob writes one when total < 0).           *)
SuccessNeverPenalised ==
    \A e \in rewardLog :
        e.dutySuccess =>
            ~\E p \in RowsIn("validator_penalties") :
                p.index = e.index /\ p.epoch = e.epoch

(* Spec 4.6/7: a write that fails is logged and the job goes on; the       *)
(* observation is not lost.  A job whose API call answered returns its     *)
(* rows as a successful result, whatever its writes did.                   *)
ResultKeepsObservations ==
    \A j \in Jobs :
        (jpc[j] = "done" /\ fetched[j] # << >>) =>
            result[j] = [err |-> FALSE, data |-> fetched[j]]

(* Spec 2, invariant 3, and 8: once every job has returned, a penalty row  *)
(* exists for (index, epoch) iff a reward row with total < 0 does, with    *)
(* penalty_gwei = -total.                                                  *)
PenaltyIffNegativeReward ==
    (\A j \in Jobs : jpc[j] = "done") =>
        \A k \in {<<row.index, row.epoch>> :
                   row \in RowsIn("attestation_rewards") \cup RowsIn("validator_penalties")} :
            (\E r \in RowsIn("attestation_rewards") :
                 <<r.index, r.epoch>> = k /\ r.total < 0)
            <=> (\E p \in RowsIn("validator_penalties") : <<p.index, p.epoch>> = k)

=============================================================================

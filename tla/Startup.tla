------------------------------- MODULE Startup -------------------------------
(***************************************************************************)
(* The process from main() to exit (src/main.go): config.Load (validate,   *)
(* then setDefaults), signal registration, storage.NewClient (consistency, *)
(* session, keyspace, reconnect), RunMigrations (four CREATE TABLEs, then  *)
(* four ALTER TABLE ... default_time_to_live), the sync check, Monitor.    *)
(* Start (Scheduler.Initialize fetches genesis), the wait for a signal and *)
(* the bounded stop.  Every call to the node or the store may fail;        *)
(* log.Fatal exits with status 1 without running deferred calls.  The OS   *)
(* delivers signals at any time: before signal.Notify the default action   *)
(* ends the process; after it, a non-blocking send into sigChan, dropped   *)
(* when the channel is full.                                               *)
(***************************************************************************)
EXTENDS Integers, FiniteSets

CONSTANTS
    ConfigFiles,       \* the file at -config: kind "missing", "malformed" or "yaml"
    ConsistencyLevels, \* the names parseConsistency knows, lower case
    ToLower(_),        \* strings.ToLower on the names used
    MaxSignals,        \* bound: signals the OS delivers
    SigChanCap         \* cap(sigChan): 1 in the code

Migrations == 4        \* len(migrations) = len(tableNames)

VARIABLES
    pc,          \* where main is
    file,        \* the config file read
    cfg,         \* the loaded configuration after setDefaults
    created,     \* CREATE TABLE statements applied
    ttlSet,      \* ALTER TABLE ... default_time_to_live applied
    notified,    \* signal.Notify has run
    sigChan,     \* signals buffered in sigChan
    signals,     \* signals the OS has delivered
    exitCode     \* "none", "exit0", "exit1" or "killed" (by the signal)

vars == <<pc, file, cfg, created, ttlSet, notified, sigChan, signals, exitCode>>

-----------------------------------------------------------------------------
(* config.Load.                                                            *)

(* validate: beacon_node_url, validators, scylladb.hosts and keyspace are  *)
(* required.                                                               *)
Validate(f) == f.required

(* setDefaults: a field <= 0 (or empty) takes its default.                 *)
SetDefaults(f) ==
    [f EXCEPT !.interval    = IF @ <= 0 THEN 1 ELSE @,
              !.poolSize    = IF @ <= 0 THEN 10 ELSE @,
              !.consistency = IF @ = "" THEN "local_quorum" ELSE @]

(* parseConsistency: strings.ToLower, then one of the known levels.        *)
ParseConsistency(level) == ToLower(level) \in ConsistencyLevels

-----------------------------------------------------------------------------

(* log.Fatal: os.Exit(1); deferred Close and cancel do not run.            *)
Fatal ==
    /\ pc' = "exited"
    /\ exitCode' = "exit1"

LoadConfig ==
    /\ pc = "load"
    /\ IF file.kind # "yaml" \/ ~Validate(file)
       THEN Fatal /\ UNCHANGED cfg
       ELSE /\ cfg' = SetDefaults(file)
            /\ pc' = "notify"
            /\ UNCHANGED exitCode
    /\ UNCHANGED <<file, created, ttlSet, notified, sigChan, signals>>

(* context.WithCancel; sigChan := make(chan os.Signal, 1); signal.Notify.  *)
Notify ==
    /\ pc = "notify"
    /\ notified' = TRUE
    /\ pc' = "connect"
    /\ UNCHANGED <<file, cfg, created, ttlSet, sigChan, signals, exitCode>>

(* storage.NewClient: an unknown consistency, or a failing CreateSession,  *)
(* CREATE KEYSPACE or reconnect to the keyspace, is returned and fatal.    *)
NewClient ==
    /\ pc = "connect"
    /\ \/ ~ParseConsistency(cfg.consistency) /\ Fatal
       \/ ParseConsistency(cfg.consistency) /\ Fatal    \* session, keyspace or reconnect failed
       \/ ParseConsistency(cfg.consistency) /\ pc' = "migrate" /\ UNCHANGED exitCode
    /\ UNCHANGED <<file, cfg, created, ttlSet, notified, sigChan, signals>>

(* Seeded fault for WritesOnlyWithTTL: a failing ALTER TABLE is logged     *)
(* and RunMigrations returns nil.                                          *)
MigrateIgnoringTTLError ==
    /\ pc = "migrate"
    /\ \/ created < Migrations /\ created' = created + 1 /\ UNCHANGED <<ttlSet, pc, exitCode>>
       \/ created < Migrations /\ Fatal /\ UNCHANGED <<created, ttlSet>>
       \/ created = Migrations /\ ttlSet < Migrations /\ ttlSet' = ttlSet + 1
          /\ UNCHANGED <<created, pc, exitCode>>
       \/ created = Migrations /\ ttlSet < Migrations /\ pc' = "beacon"
          /\ UNCHANGED <<created, ttlSet, exitCode>>
       \/ created = Migrations /\ ttlSet = Migrations /\ pc' = "beacon"
          /\ UNCHANGED <<created, ttlSet, exitCode>>
    /\ UNCHANGED <<file, cfg, notified, sigChan, signals>>

(* RunMigrations: each CREATE TABLE, then each setTableTTL, in order; the  *)
(* first error is returned and main exits.                                 *)
Migrate ==
    /\ pc = "migrate"
    /\ \/ created < Migrations /\ created' = created + 1 /\ UNCHANGED <<ttlSet, pc, exitCode>>
       \/ created < Migrations /\ Fatal /\ UNCHANGED <<created, ttlSet>>
       \/ created = Migrations /\ ttlSet < Migrations /\ ttlSet' = ttlSet + 1
          /\ UNCHANGED <<created, pc, exitCode>>
       \/ created = Migrations /\ ttlSet < Migrations /\ Fatal /\ UNCHANGED <<created, ttlSet>>
       \/ created = Migrations /\ ttlSet = Migrations /\ pc' = "beacon"
          /\ UNCHANGED <<created, ttlSet, exitCode>>
    /\ UNCHANGED <<file, cfg, notified, sigChan, signals>>

(* beacon.NewClient, IsNodeSynced (an error or a syncing node only warns), *)
(* then Monitor.Start: Scheduler.Initialize's GetGenesis error is fatal;   *)
(* otherwise the pool, processResults and runLoop start.                   *)
StartMonitor ==
    /\ pc = "beacon"
    /\ \/ Fatal
       \/ pc' = "running" /\ UNCHANGED exitCode
    /\ UNCHANGED <<file, cfg, created, ttlSet, notified, sigChan, signals>>

(* sig := <-sigChan; cancel().                                             *)
ReceiveSignal ==
    /\ pc = "running"
    /\ sigChan > 0
    /\ sigChan' = sigChan - 1
    /\ pc' = "stopping"
    /\ UNCHANGED <<file, cfg, created, ttlSet, notified, signals, exitCode>>

(* mon.Stop() returns, or the 30 s timeout fires: main returns, status 0.  *)
Stop ==
    /\ pc = "stopping"
    /\ pc' = "exited"
    /\ exitCode' = "exit0"
    /\ UNCHANGED <<file, cfg, created, ttlSet, notified, sigChan, signals>>

-----------------------------------------------------------------------------
(* The OS.                                                                 *)

(* Before Notify, SIGINT/SIGTERM end the process.                          *)
SignalDefault ==
    /\ signals < MaxSignals
    /\ pc # "exited"
    /\ ~notified
    /\ signals' = signals + 1
    /\ pc' = "exited"
    /\ exitCode' = "killed"
    /\ UNCHANGED <<file, cfg, created, ttlSet, notified, sigChan>>

(* Seeded fault for SignalLeadsToExit: an unbuffered sigChan, which takes  *)
(* a signal only while main is receiving.                                  *)
DeliverSignalUnbuffered ==
    /\ signals < MaxSignals
    /\ pc # "exited"
    /\ notified
    /\ signals' = signals + 1
    /\ sigChan' = IF pc = "running" /\ sigChan = 0 THEN 1 ELSE sigChan
    /\ UNCHANGED <<pc, file, cfg, created, ttlSet, notified, exitCode>>

(* signal.Notify's send does not block: dropped when sigChan is full.      *)
DeliverSignal ==
    /\ signals < MaxSignals
    /\ pc # "exited"
    /\ notified
    /\ signals' = signals + 1
    /\ sigChan' = IF sigChan < SigChanCap THEN sigChan + 1 ELSE sigChan
    /\ UNCHANGED <<pc, file, cfg, created, ttlSet, notified, exitCode>>

Exited == pc = "exited" /\ UNCHANGED vars

-----------------------------------------------------------------------------

Init ==
    /\ pc = "load"
    /\ file \in ConfigFiles
    /\ cfg = file
    /\ created = 0
    /\ ttlSet = 0
    /\ notified = FALSE
    /\ sigChan = 0
    /\ signals = 0
    /\ exitCode = "none"

Main == LoadConfig \/ Notify \/ NewClient \/ Migrate \/ StartMonitor \/ ReceiveSignal \/ Stop

Next == Main \/ SignalDefault \/ DeliverSignal \/ Exited

(* main's goroutine keeps running while it can.                            *)
Spec == Init /\ [][Next]_vars /\ WF_vars(Main)

-----------------------------------------------------------------------------
(* Properties.                                                             *)

Serving == pc \in {"running", "stopping"}

(* Spec 2, invariant 4: all writes carry a TTL.  Jobs write only once      *)
(* every table exists and has its default_time_to_live.                    *)
WritesOnlyWithTTL == Serving => created = Migrations /\ ttlSet = Migrations

(* A SIGINT or SIGTERM sent at any point -- during startup too -- ends the *)
(* process: before signal.Notify by the default action, after it through   *)
(* sigChan's buffer, which keeps a signal main is not yet waiting for.     *)
SignalLeadsToExit == (signals > 0) ~> (pc = "exited")

=============================================================================

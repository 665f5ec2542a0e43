---------------------------- MODULE DemoWorkflow ----------------------------
(***************************************************************************)
(* Command lines that run the offline pipeline at the same time on one     *)
(* data root and one operations database: run_demo (src/src/mltrade/       *)
(* workflows/demo.py) under "demo run", "paper preview", "research         *)
(* backtest", "portfolio build" and "paper reconcile" (cli.py), the        *)
(* transactions of operations/repositories.py and database.py, and the     *)
(* preview of Rebalancing on a fresh account.                              *)
(*                                                                         *)
(* Every command works on the same session, snapshot and fixture bars, as  *)
(* the clock is a constant and the source is seeded.  The database is      *)
(* external: SQLite gives one writer at a time its lock and lets the       *)
(* others wait for a while; PostgreSQL lets an INSERT of a key that an     *)
(* open transaction has inserted wait for that transaction to end.         *)
(***************************************************************************)
EXTENDS Integers, Sequences, FiniteSets

CONSTANTS Commands,
          Universe, Price,       \* as in Rebalancing
          Targets,               \* the weights the optimizer may answer
          Equity,                \* reference_equity
          SteadyLimits,          \* the limits of Settings
          NonFinite, None

VARIABLES engine,     \* "sqlite" or "postgres"
          fixture,    \* what the fixture bars are like
          weights,    \* the optimizer's answer to them
          pc,         \* command -> its next step
          kind,       \* command -> "cold" or "steady" limits
          schema,     \* the tables exist
          snapshot,   \* the files of the snapshot
          rows,       \* command -> the evidence it has committed
          positions,  \* command -> its target, in shares
          preview,    \* command -> its preview: intents and verdict
          intents,    \* symbol -> the command whose intent is committed
          pending,    \* command -> symbols of its uncommitted intents
          index,      \* command -> the intent it is saving
          writer      \* SQLite: whose transaction holds the write lock

world == <<engine, fixture, weights>>
vars == <<world, pc, kind, schema, snapshot, rows, positions, preview, intents,
          pending, index, writer>>

Symbols == DOMAIN Price

ASSUME DemoAssumption ==
    /\ Universe \in Seq(Symbols)
    /\ \A i, j \in DOMAIN Universe : Universe[i] = Universe[j] => i = j
    /\ None \notin Commands
    /\ Symbols = {Universe[i] : i \in DOMAIN Universe}
    /\ Price \in [Symbols -> Nat \ {0}] /\ Equity \in Nat \ {0}
    /\ SteadyLimits \in [maximum_position_weight : Nat \ {0},
                         minimum_cash_weight : Nat \ {0},
                         maximum_order_weight : Nat \ {0},
                         maximum_rebalance_weight : Nat \ {0},
                         minimum_order_notional : Nat \ {0}]
    /\ NonFinite \notin Int

Evidence == {"quality", "snapshot", "backtest", "forecast", "target", "risk",
             "preview"}
Ended == {"exit_0", "exit_1", "raised", "killed"}
-----------------------------------------------------------------------------
\* Mutant: only the rebalance limit is raised.
RebalanceLimitOnly == [SteadyLimits EXCEPT !.maximum_rebalance_weight = 100]

\* What "demo run" and "paper preview" override for a first deployment.
ColdLimits == [SteadyLimits EXCEPT !.maximum_rebalance_weight = 100,
                                   !.maximum_order_weight = 25]

\* The preview of a command, under either limits, for the weights answered.
Cold == INSTANCE Rebalancing WITH Weight <- weights, Limits <- ColdLimits
Steady == INSTANCE Rebalancing WITH Weight <- weights, Limits <- SteadyLimits

Account == [equity |-> Equity, cash |-> Equity, active |-> TRUE, blocked |-> FALSE]
Fresh == [cash |-> Equity, positions |-> <<>>, open |-> {}]
Snapshot == [blocked |-> FALSE, last_session |-> 1]

\* What the target, a fresh account of Equity dollars and the limits lead to.
IntentsOf(c) == IF kind[c] = "cold" THEN Cold!Intents(positions[c], <<>>)
                ELSE Steady!Intents(positions[c], <<>>)
ContextOf(c, orders) ==
    LET differences == Steady!Differences(Fresh, Fresh) IN
    IF kind[c] = "cold"
    THEN Cold!RiskContext(positions[c], orders, Account, differences, Snapshot, 1)
    ELSE Steady!RiskContext(positions[c], orders, Account, differences, Snapshot, 1)

\* Mutant: the commands save their intents in different orders.
QueueByKind(c) ==
    LET orders == preview[c].intents IN
    [i \in DOMAIN orders |->
        orders[IF kind[c] = "cold" THEN i ELSE Len(orders) + 1 - i].symbol]

\* The intents to be saved, in the order of the preview.
Queue(c) == [i \in DOMAIN preview[c].intents |-> preview[c].intents[i].symbol]
-----------------------------------------------------------------------------
Init ==
    /\ engine \in {"sqlite", "postgres"}
    /\ fixture \in {"good", "bad_quality", "no_forecast"}
    /\ weights \in Targets
    /\ pc = [c \in Commands |-> "idle"]
    /\ kind = [c \in Commands |-> "steady"]
    /\ schema \in BOOLEAN
    /\ snapshot = "none"
    /\ rows = [c \in Commands |-> {}]
    /\ positions = [c \in Commands |-> <<>>]
    /\ preview = [c \in Commands |-> [intents |-> <<>>, blocked |-> FALSE]]
    /\ intents = [s \in Symbols |-> None]
    /\ pending = [c \in Commands |-> {}]
    /\ index = [c \in Commands |-> 1]
    /\ writer = None

GoTo(c, p) == pc' = [pc EXCEPT ![c] = p]
At(c, p) == pc[c] = p

Start(c, k) ==
    /\ At(c, "idle") /\ GoTo(c, "inspect")
    /\ kind' = [kind EXCEPT ![c] = k]
    /\ UNCHANGED <<world, positions, preview, schema, snapshot, rows, intents,
                   pending, index, writer>>

\* create_all: the tables that are missing are looked up, then created; a table
\* that has appeared in between is an error.
Inspect(c) ==
    /\ At(c, "inspect")
    /\ GoTo(c, IF schema THEN "quality" ELSE "create")
    /\ UNCHANGED <<world, positions, preview, kind, schema, snapshot, rows, intents,
                   pending, index, writer>>

\* SQLite: the write lock is free, or the command's own.
CanWrite(c) == writer \in {None, c}

Create(c) ==
    /\ At(c, "create") /\ CanWrite(c)
    /\ schema' = TRUE
    /\ GoTo(c, IF schema THEN "raised" ELSE "quality")
    /\ UNCHANGED <<world, positions, preview, kind, snapshot, rows, intents, pending,
                   index, writer>>
-----------------------------------------------------------------------------
\* One session_scope that saves one row: it is committed before the next stage.
Save(c, table, next) ==
    /\ CanWrite(c)
    /\ rows' = [rows EXCEPT ![c] = @ \cup {table}]
    /\ GoTo(c, next)
    /\ UNCHANGED <<world, positions, preview, kind, schema, snapshot, intents,
                   pending, index, writer>>

\* A stage raises before it saves anything.
Raise(c, end) ==
    /\ GoTo(c, end)
    /\ UNCHANGED <<world, positions, preview, kind, schema, snapshot, rows, intents,
                   pending, index, writer>>

\* The quality gate raises ValueError, which the commands turn into exit code 1.
SaveQuality(c) ==
    /\ At(c, "quality")
    /\ IF fixture = "bad_quality" THEN Raise(c, "exit_1")
       ELSE Save(c, "quality", "publish")

\* Publication, as SnapshotStore: the data first, then the manifest.  Where the
\* data exists already the manifest is loaded instead; a missing one is a
\* ValueError.
Publish(c) ==
    /\ At(c, "publish")
    /\ snapshot' = IF snapshot = "none" THEN "data" ELSE snapshot
    /\ GoTo(c, CASE snapshot = "none" -> "manifest"
                 [] snapshot = "data" -> "exit_1"
                 [] snapshot = "whole" -> "snapshot")
    /\ UNCHANGED <<world, positions, preview, kind, schema, rows, intents, pending,
                   index, writer>>
PublishManifest(c) ==
    /\ At(c, "manifest")
    /\ snapshot' = "whole"
    /\ GoTo(c, "snapshot")
    /\ UNCHANGED <<world, positions, preview, kind, schema, rows, intents, pending,
                   index, writer>>

SaveSnapshot(c) == At(c, "snapshot") /\ Save(c, "snapshot", "backtest")
SaveBacktest(c) == At(c, "backtest") /\ Save(c, "backtest", "forecast")
SaveForecast(c) ==
    /\ At(c, "forecast")
    /\ IF fixture = "no_forecast" THEN Raise(c, "raised")
       ELSE Save(c, "forecast", "target")
SaveTarget(c) ==
    /\ At(c, "target") /\ CanWrite(c)
    /\ rows' = [rows EXCEPT ![c] = @ \cup {"target"}]
    /\ positions' = [positions EXCEPT ![c] = Steady!TargetPositions(Equity)]
    /\ GoTo(c, "risk")
    /\ UNCHANGED <<world, preview, kind, schema, snapshot, intents, pending,
                   index, writer>>
-----------------------------------------------------------------------------
\* The preview is built; then the last session_scope: the risk report and the
\* preview are inserted, which takes SQLite's lock, then every intent, and only
\* then all is committed.
AfterIntent(c, i) == IF i > Len(Queue(c)) THEN "commit" ELSE "select"

InsertPreview(c) ==
    /\ At(c, "risk") /\ CanWrite(c)
    /\ \E orders \in {IntentsOf(c)} : \E context \in {ContextOf(c, orders)} :
          /\ preview' = [preview EXCEPT ![c] =
                 [intents |-> orders, blocked |-> Steady!RiskBlocked(context)]]
          /\ GoTo(c, IF orders = <<>> THEN "commit" ELSE "select")
    /\ writer' = IF engine = "sqlite" THEN c ELSE None
    /\ UNCHANGED <<world, positions, kind, schema, snapshot, rows, intents,
                   pending, index>>

\* save_intent looks for a committed row of the same client order id...
SelectIntent(c) ==
    LET found == intents[Queue(c)[index[c]]] # None IN
    /\ At(c, "select")
    /\ index' = [index EXCEPT ![c] = IF found THEN @ + 1 ELSE @]
    /\ GoTo(c, IF found THEN AfterIntent(c, index[c] + 1) ELSE "insert")
    /\ UNCHANGED <<world, positions, preview, kind, schema, snapshot, rows, intents,
                   pending, writer>>

\* ... and inserts one if there is none: the INSERT waits for a transaction
\* that has inserted the same key.
WaitsFor(c, d) ==
    c # d /\ At(c, "insert") /\ Queue(c)[index[c]] \in pending[d]
InsertIntent(c) ==
    /\ At(c, "insert") /\ intents[Queue(c)[index[c]]] = None
    /\ \A d \in Commands : ~WaitsFor(c, d)
    /\ pending' = [pending EXCEPT ![c] = @ \cup {Queue(c)[index[c]]}]
    /\ index' = [index EXCEPT ![c] = @ + 1]
    /\ GoTo(c, AfterIntent(c, index[c] + 1))
    /\ UNCHANGED <<world, positions, preview, kind, schema, snapshot, rows, intents,
                   writer>>

\* A transaction that does not commit leaves nothing behind and waits for none.
Rollback(c) ==
    /\ pending' = [pending EXCEPT ![c] = {}]
    /\ writer' = IF writer = c THEN None ELSE writer

\* The key has been committed by another since the select: IntegrityError.
Conflict(c) ==
    /\ At(c, "insert") /\ intents[Queue(c)[index[c]]] # None
    /\ Rollback(c)
    /\ GoTo(c, "raised")
    /\ UNCHANGED <<world, positions, preview, kind, schema, snapshot, rows, intents,
                   index>>

\* The commands with cold-start limits exit 1 when the report blocks; the others
\* only print.
ExitCode(c) == IF kind[c] = "cold" /\ preview[c].blocked THEN "exit_1" ELSE "exit_0"

\* Mutant: the intents are left to a later transaction.
CommittedWithoutIntents(c) == intents

\* The intents as the transaction leaves them.
CommittedIntents(c) ==
    [s \in Symbols |-> IF s \in pending[c] THEN c ELSE intents[s]]

Commit(c) ==
    /\ At(c, "commit")
    /\ rows' = [rows EXCEPT ![c] = @ \cup {"risk", "preview"}]
    /\ intents' = CommittedIntents(c)
    /\ pending' = [pending EXCEPT ![c] = {}]
    /\ writer' = None
    /\ GoTo(c, ExitCode(c))
    /\ UNCHANGED <<world, positions, preview, kind, schema, snapshot, index>>
-----------------------------------------------------------------------------
\* SQLite: a writer waits a few seconds for the lock of another, then raises.
LockTimeout(c) ==
    /\ pc[c] \in {"create", "quality", "snapshot", "backtest", "forecast",
                  "target", "risk"}
    /\ ~CanWrite(c)
    /\ Raise(c, "raised")

\* A command is killed; the database rolls its open transaction back.
Kill(c) ==
    /\ pc[c] \notin Ended \cup {"idle"}
    /\ GoTo(c, "killed")
    /\ pending' = [pending EXCEPT ![c] = {}]
    /\ writer' = IF writer = c THEN None ELSE writer
    /\ UNCHANGED <<world, positions, preview, kind, schema, snapshot, rows, intents,
                   index>>

Step(c) ==
    \/ Inspect(c) \/ Create(c)
    \/ SaveQuality(c) \/ Publish(c) \/ PublishManifest(c)
    \/ SaveSnapshot(c) \/ SaveBacktest(c) \/ SaveForecast(c) \/ SaveTarget(c)
    \/ InsertPreview(c) \/ SelectIntent(c) \/ InsertIntent(c) \/ Conflict(c)
    \/ Commit(c) \/ LockTimeout(c)

Next ==
    \E c \in Commands :
        \/ \E k \in {"cold", "steady"} : Start(c, k)
        \/ Step(c)
        \/ Kill(c)

Spec == Init /\ [][Next]_vars

\* A running command goes on unless it is killed or waits for another.
FairSpec == Spec /\ \A c \in Commands : WF_vars(Step(c))
-----------------------------------------------------------------------------
(* Properties *)

\* A preview in the database is whole: its command has recorded the stages it
\* rests on, the snapshot is on disk, and every intent it names has its row,
\* though another command may have inserted it.  A command that ends with exit
\* code 0 has recorded its preview.
PreviewsAreWhole ==
    \A c \in Commands :
        /\ "preview" \in rows[c] =>
              /\ rows[c] = Evidence
              /\ snapshot = "whole"
              /\ \A i \in DOMAIN Queue(c) : intents[Queue(c)[i]] # None
        /\ pc[c] = "exit_0" => "preview" \in rows[c]

\* The cold-start limits let a first deployment from an all-cash account pass
\* every rule of the risk policy, whatever the optimizer answers within its own
\* limits (cli.py: "so the risk gates pass on initial allocation").
ColdStartPasses ==
    \A c \in Commands :
        kind[c] = "cold" /\ pc[c] = "commit" => ExitCode(c) = "exit_0"

\* No set of commands waits for each other's transactions: they all insert
\* their intents in the order of the symbols.
NoCircularWait ==
    \A S \in (SUBSET Commands) \ {{}} :
        \E c \in S : \A d \in S : ~WaitsFor(c, d)

\* Every command that is started ends, whatever the others do: a transaction
\* that others wait for always ends.
EveryCommandEnds ==
    \A c \in Commands : pc[c] = "inspect" ~> pc[c] \in Ended
=============================================================================

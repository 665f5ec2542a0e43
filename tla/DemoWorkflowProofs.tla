-------------------------- MODULE DemoWorkflowProofs --------------------------
(***************************************************************************)
(* What holds of DemoWorkflow for any number of commands, any universe,    *)
(* prices, weights and limits, on either engine, whoever is killed when:   *)
(* a preview in the database is whole, transactions never wait for each    *)
(* other in a circle, and a first deployment passes the pre-trade gates.   *)
(***************************************************************************)
EXTENDS DemoWorkflow, LoopsProofs

\* The places of a command: before its first row, in its last transaction.
Before == {"idle", "inspect", "create", "quality"}
Saving == {"select", "insert", "commit"}
Place == Before \cup Saving \cup Ended \cup
         {"publish", "manifest", "snapshot", "backtest", "forecast", "target", "risk"}

Types ==
    /\ pc \in [Commands -> Place]
    /\ rows \in [Commands -> SUBSET Evidence]
    /\ preview = [c \in Commands |-> preview[c]]
    /\ intents \in [Symbols -> Commands \cup {None}]
    /\ pending \in [Commands -> SUBSET Symbols]
    /\ index \in [Commands -> Nat]
    /\ snapshot \in {"none", "data", "whole"}

\* What a command has recorded tells where it is; from its snapshot row on the
\* snapshot is on disk.
RowsInv(c) ==
    /\ pc[c] \in Before => rows[c] = {}
    /\ pc[c] \in {"publish", "manifest", "snapshot"} => rows[c] = {"quality"}
    /\ pc[c] = "backtest" => rows[c] = {"quality", "snapshot"}
    /\ pc[c] = "forecast" => rows[c] = {"quality", "snapshot", "backtest"}
    /\ pc[c] = "target" => rows[c] = {"quality", "snapshot", "backtest", "forecast"}
    /\ pc[c] \in Saving \cup {"risk"} => rows[c] = Evidence \ {"risk", "preview"}
    /\ pc[c] \in Saving \cup {"snapshot", "backtest", "forecast", "target", "risk"} =>
          snapshot = "whole"

\* A queue of symbols that stand in the universe where at says, in its order.
InOrder(q, at) ==
    /\ Len(q) \in Nat /\ DOMAIN q = 1 .. Len(q)
    /\ at \in [1 .. Len(q) -> DOMAIN Universe]
    /\ \A i \in 1 .. Len(q) : q[i] = Universe[at[i]]
    /\ \A i, j \in 1 .. Len(q) : i < j => at[i] < at[j]

\* Where a command is in its queue, and what has become of the symbols that it
\* is done with: their intents are its own, uncommitted, or in the database.
QueueInv(c) ==
    /\ \E at : InOrder(Queue(c), at)
    /\ pc[c] \in {"select", "insert"} => index[c] \in 1 .. Len(Queue(c))
    /\ pc[c] = "commit" => index[c] = Len(Queue(c)) + 1
    /\ pc[c] \in Saving =>
          \A i \in 1 .. index[c] - 1 :
              Queue(c)[i] \in pending[c] \/ intents[Queue(c)[i]] # None
    /\ pc[c] \notin Saving => pending[c] = {}
    /\ pc[c] \notin Saving \cup Ended => index[c] = 1
    /\ \A s \in pending[c] : \E i \in 1 .. index[c] - 1 :
          i \in 1 .. Len(Queue(c)) /\ Queue(c)[i] = s

WholeInv(c) ==
    /\ "preview" \in rows[c] =>
          /\ rows[c] = Evidence
          /\ snapshot = "whole"
          /\ \A i \in DOMAIN Queue(c) : intents[Queue(c)[i]] # None
    /\ pc[c] = "exit_0" => "preview" \in rows[c]

CommandInv(c) == RowsInv(c) /\ QueueInv(c) /\ WholeInv(c)

IndInv == Types /\ \A c \in Commands : CommandInv(c)

\* A step of command c as the others see it: it takes away no intent and no
\* snapshot.
OthersAlone(c) ==
    /\ \A d \in Commands \ {c} :
          /\ pc'[d] = pc[d] /\ rows'[d] = rows[d] /\ preview'[d] = preview[d]
          /\ pending'[d] = pending[d] /\ index'[d] = index[d]
    /\ \A s \in Symbols : intents[s] # None => intents'[s] # None
    /\ snapshot = "whole" => snapshot' = "whole"
-----------------------------------------------------------------------------
\* A queue is a part of the universe, in its order: the two limits alike.
LEMMA IntentsInOrder ==
    ASSUME NEW c \in Commands, NEW orders, orders = IntentsOf(c)
    PROVE  LET q == [i \in DOMAIN orders |-> orders[i].symbol] IN
           /\ \E at : InOrder(q, at)
           /\ orders # <<>> => Len(q) >= 1
           /\ orders = <<>> => Len(q) = 0
<1> DEFINE q == [i \in DOMAIN orders |-> orders[i].symbol]
<1>1. \E S : /\ DOMAIN orders = DOMAIN Picks(Universe, S)
             /\ orders = [i \in DOMAIN orders |-> orders[i]]
             /\ \A i \in DOMAIN orders : orders[i].symbol = Picks(Universe, S)[i]
  <2>1. CASE kind[c] = "cold"
    <3> DEFINE S == Cold!Traded(positions[c], <<>>)
    <3>1. Cold!Picks(Universe, S) = Picks(Universe, S)
      BY DEF Cold!Picks, Cold!PartialPicks, Picks, PartialPicks
    <3>2. orders = Cold!Intents(positions[c], <<>>)
      BY <2>1 DEF IntentsOf
    <3> QED  BY <3>1, <3>2 DEF Cold!Intents, Cold!IntentOf
  <2>2. CASE kind[c] # "cold"
    <3> DEFINE S == Steady!Traded(positions[c], <<>>)
    <3>1. Steady!Picks(Universe, S) = Picks(Universe, S)
      BY DEF Steady!Picks, Steady!PartialPicks, Picks, PartialPicks
    <3>2. orders = Steady!Intents(positions[c], <<>>)
      BY <2>2 DEF IntentsOf
    <3> QED  BY <3>1, <3>2 DEF Steady!Intents, Steady!IntentOf
  <2> QED  BY <2>1, <2>2
<1>2. PICK S : /\ DOMAIN orders = DOMAIN Picks(Universe, S)
               /\ orders = [i \in DOMAIN orders |-> orders[i]]
               /\ \A i \in DOMAIN orders : orders[i].symbol = Picks(Universe, S)[i]
  BY <1>1
<1>3. Len(Universe) \in Nat /\ DOMAIN Universe = 1 .. Len(Universe)
  BY DemoAssumption
<1>4. PICK at : PickedAt(Picks(Universe, S), at, Universe, S, Len(Universe))
  BY <1>3, PicksDef
<1>5. q = Picks(Universe, S)
  BY <1>2, <1>4 DEF PickedAt
<1>6. InOrder(q, at)
  BY <1>3, <1>4, <1>5 DEF PickedAt, InOrder
<1>7. DOMAIN q = DOMAIN orders /\ DOMAIN q = 1 .. Len(q) /\ Len(q) \in Nat
  BY <1>6 DEF InOrder
<1>8. orders # <<>> => Len(q) >= 1
  BY <1>2, <1>7
<1>9. orders = <<>> => Len(q) = 0
  BY <1>7
<1> QED  BY <1>6, <1>8, <1>9

\* The others keep what is said of them.
LEMMA OthersKept ==
    ASSUME NEW c \in Commands, OthersAlone(c), NEW d \in Commands \ {c},
           Types, CommandInv(d)
    PROVE  CommandInv(d)'
<1>1. /\ pc'[d] = pc[d] /\ rows'[d] = rows[d] /\ pending'[d] = pending[d]
      /\ index'[d] = index[d] /\ Queue(d)' = Queue(d)
      /\ snapshot = "whole" => snapshot' = "whole"
  BY DEF OthersAlone, Queue
<1>2. \A i \in 1 .. Len(Queue(d)) : Queue(d)[i] \in Symbols
  <2>1. PICK at : InOrder(Queue(d), at)
    BY DEF CommandInv, QueueInv
  <2>2. DOMAIN Universe = 1 .. Len(Universe)
    BY DemoAssumption
  <2>3. \A n \in 1 .. Len(Universe) : Universe[n] \in Symbols
    BY <2>2, DemoAssumption
  <2> QED  BY <2>1, <2>2, <2>3, Zenon DEF InOrder
<1>3. DOMAIN Queue(d) = 1 .. Len(Queue(d)) /\ Len(Queue(d)) \in Nat
  BY DEF CommandInv, QueueInv, InOrder
<1>4. RowsInv(d)'
  BY <1>1 DEF CommandInv, RowsInv
<1>5. QueueInv(d)'
  <2>1. ASSUME pc[d] \in Saving, NEW i \in 1 .. index[d] - 1
        PROVE  Queue(d)[i] \in pending[d] \/ intents'[Queue(d)[i]] # None
    <3>1. i \in 1 .. Len(Queue(d))
      BY <1>3, <2>1 DEF CommandInv, QueueInv, Saving, Types
    <3> QED  BY <1>2, <2>1, <3>1 DEF CommandInv, QueueInv, OthersAlone
  <2> QED  BY <1>1, <2>1 DEF CommandInv, QueueInv
<1>6. WholeInv(d)'
  BY <1>1, <1>2, <1>3 DEF CommandInv, WholeInv, OthersAlone
<1> QED  BY <1>4, <1>5, <1>6 DEF CommandInv

\* A command that has not ended has not recorded its preview.
LEMMA NoPreviewYet ==
    ASSUME Types, NEW c \in Commands, RowsInv(c), pc[c] \notin Ended
    PROVE  "preview" \notin rows[c]
BY DEF Types, RowsInv, Place, Before, Saving, Evidence

\* A step outside the last transaction: it may record a row.
LEMMA PlainStep ==
    ASSUME Types, NEW c \in Commands, CommandInv(c), pc[c] \notin Saving \cup Ended,
           NEW p \in Place \ (Saving \cup {"exit_0"}), GoTo(c, p),
           NEW R \in SUBSET Evidence, rows' = [rows EXCEPT ![c] = R],
           "preview" \notin R, UNCHANGED <<preview, pending, index, intents>>,
           snapshot' \in {"none", "data", "whole"},
           snapshot = "whole" => snapshot' = "whole",
           RowsInv(c)'
    PROVE  Types' /\ CommandInv(c)' /\ OthersAlone(c)
<1>1. /\ pc' \in [Commands -> Place] /\ pc'[c] = p
      /\ \A d \in Commands \ {c} : pc'[d] = pc[d]
      /\ rows' \in [Commands -> SUBSET Evidence] /\ rows'[c] = R
      /\ \A d \in Commands \ {c} : rows'[d] = rows[d]
  BY DEF GoTo, Types
<1>2. Types'
  BY <1>1 DEF Types
<1>3. OthersAlone(c)
  BY <1>1 DEF OthersAlone
<1>4. Queue(c)' = Queue(c)
  BY DEF Queue
<1>5. QueueInv(c)'
  BY <1>1, <1>4 DEF CommandInv, QueueInv, Saving
<1>6. WholeInv(c)'
  BY <1>1 DEF WholeInv
<1> QED  BY <1>2, <1>3, <1>5, <1>6 DEF CommandInv

\* A command ends without committing: nothing of its transaction is left.
LEMMA EndsUncommitted ==
    ASSUME Types, NEW c \in Commands, CommandInv(c), pc[c] \notin Ended,
           NEW p \in {"killed", "raised"}, GoTo(c, p), Rollback(c),
           UNCHANGED <<rows, preview, index, intents, snapshot>>
    PROVE  Types' /\ CommandInv(c)' /\ OthersAlone(c)
<1>1. /\ pc' \in [Commands -> Place] /\ pc'[c] = p
      /\ \A d \in Commands \ {c} : pc'[d] = pc[d]
      /\ pending' \in [Commands -> SUBSET Symbols] /\ pending'[c] = {}
      /\ \A d \in Commands \ {c} : pending'[d] = pending[d]
  BY DEF GoTo, Types, Rollback, Place, Ended
<1>2. Types' /\ OthersAlone(c)
  BY <1>1 DEF Types, OthersAlone
<1>3. Queue(c)' = Queue(c)
  BY DEF Queue
<1>4. RowsInv(c)'
  BY <1>1 DEF RowsInv, Before, Saving
<1>5. QueueInv(c)'
  BY <1>1, <1>3 DEF CommandInv, QueueInv, Saving, Ended
<1>6. WholeInv(c)'
  BY <1>1, NoPreviewYet DEF CommandInv, WholeInv
<1> QED  BY <1>2, <1>4, <1>5, <1>6 DEF CommandInv

\* The rows are recorded in the order of the stages.
Stages == {<<"quality", "quality", "publish">>, <<"snapshot", "snapshot", "backtest">>,
           <<"backtest", "backtest", "forecast">>, <<"forecast", "forecast", "target">>,
           <<"target", "target", "risk">>}

LEMMA SaveStep ==
    ASSUME Types, NEW c \in Commands, CommandInv(c), NEW p, NEW table,
           <<pc[c], table, p>> \in Stages, GoTo(c, p),
           rows' = [rows EXCEPT ![c] = @ \cup {table}],
           UNCHANGED <<preview, snapshot, pending, index, intents>>
    PROVE  Types' /\ CommandInv(c)' /\ OthersAlone(c)
<1> DEFINE R == rows[c] \cup {table}
<1>1. /\ table \in Evidence \ {"risk", "preview"} /\ p \in Place \ (Saving \cup {"exit_0"})
      /\ pc[c] \notin Saving \cup Ended
  BY DEF Stages, Evidence, Place, Saving, Ended, Before
<1>2. /\ pc'[c] = p /\ rows' = [rows EXCEPT ![c] = R] /\ rows'[c] = R
      /\ R \in SUBSET Evidence /\ rows[c] \in SUBSET Evidence
  BY <1>1 DEF GoTo, Types
<1>3. "preview" \notin R
  BY <1>1, NoPreviewYet DEF CommandInv
<1>4. RowsInv(c)'
  <2>1. RowsInv(c)
    BY DEF CommandInv
  <2>2. CASE <<pc[c], table, p>> = <<"quality", "quality", "publish">>
    <3>1. R = {"quality"}
      BY <2>1, <2>2 DEF RowsInv, Before
    <3> QED  BY <1>2, <2>2, <3>1 DEF RowsInv, Before, Saving
  <2>3. CASE <<pc[c], table, p>> = <<"snapshot", "snapshot", "backtest">>
    <3>1. R = {"quality", "snapshot"} /\ snapshot = "whole"
      BY <2>1, <2>3 DEF RowsInv
    <3> QED  BY <1>2, <2>3, <3>1 DEF RowsInv, Before, Saving
  <2>4. CASE <<pc[c], table, p>> = <<"backtest", "backtest", "forecast">>
    <3>1. R = {"quality", "snapshot", "backtest"} /\ snapshot = "whole"
      BY <2>1, <2>4 DEF RowsInv
    <3> QED  BY <1>2, <2>4, <3>1 DEF RowsInv, Before, Saving
  <2>5. CASE <<pc[c], table, p>> = <<"forecast", "forecast", "target">>
    <3>1. R = {"quality", "snapshot", "backtest", "forecast"} /\ snapshot = "whole"
      BY <2>1, <2>5 DEF RowsInv
    <3> QED  BY <1>2, <2>5, <3>1 DEF RowsInv, Before, Saving
  <2>6. CASE <<pc[c], table, p>> = <<"target", "target", "risk">>
    <3>1. R = Evidence \ {"risk", "preview"} /\ snapshot = "whole"
      BY <2>1, <2>6 DEF RowsInv, Evidence
    <3> QED  BY <1>2, <2>6, <3>1 DEF RowsInv, Before, Saving
  <2> QED  BY <2>2, <2>3, <2>4, <2>5, <2>6 DEF Stages
<1>5. snapshot' \in {"none", "data", "whole"} /\ snapshot' = snapshot
  BY DEF Types
<1> HIDE DEF R
<1> QED  BY <1>1, <1>2, <1>3, <1>4, <1>5, PlainStep

\* Every step outside the last transaction.
LEMMA PipelineKeeps ==
    ASSUME IndInv, NEW c \in Commands,
           \/ \E k \in {"cold", "steady"} : Start(c, k)
           \/ Inspect(c) \/ Create(c) \/ SaveQuality(c) \/ Publish(c)
           \/ PublishManifest(c) \/ SaveSnapshot(c) \/ SaveBacktest(c)
           \/ SaveForecast(c) \/ SaveTarget(c) \/ LockTimeout(c)
    PROVE  Types' /\ CommandInv(c)' /\ OthersAlone(c)
<1> DEFINE Goal == Types' /\ CommandInv(c)' /\ OthersAlone(c)
<1>1. Types /\ CommandInv(c) /\ RowsInv(c)
  BY DEF IndInv, CommandInv
<1>2. ASSUME pc[c] \notin Saving \cup Ended,
             NEW p \in Place \ (Saving \cup {"exit_0"}), GoTo(c, p),
             UNCHANGED <<rows, preview, pending, index, intents>>,
             snapshot' \in {"none", "data", "whole"},
             snapshot = "whole" => snapshot' = "whole",
             RowsInv(c)'
      PROVE  Goal
  <2>1. /\ rows' = [rows EXCEPT ![c] = rows[c]] /\ rows[c] \in SUBSET Evidence
        /\ "preview" \notin rows[c]
    BY <1>1, <1>2, NoPreviewYet DEF Types
  <2> QED  BY <1>1, <1>2, <2>1, PlainStep
<1>3. snapshot \in {"none", "data", "whole"} /\ pc \in [Commands -> Place]
  BY <1>1 DEF Types
<1>4. ASSUME NEW k \in {"cold", "steady"}, Start(c, k) PROVE Goal
  BY <1>1, <1>2, <1>3, <1>4 DEF Start, At, GoTo, RowsInv, Before, Saving, Ended, Place
<1>5. CASE Inspect(c)
  BY <1>1, <1>2, <1>3, <1>5 DEF Inspect, At, GoTo, RowsInv, Before, Saving, Ended, Place
<1>6. CASE Create(c)
  BY <1>1, <1>2, <1>3, <1>6 DEF Create, At, GoTo, RowsInv, Before, Saving, Ended, Place
<1>7. CASE Publish(c)
  BY <1>1, <1>2, <1>3, <1>7 DEF Publish, At, GoTo, RowsInv, Before, Saving, Ended, Place
<1>8. CASE PublishManifest(c)
  BY <1>1, <1>2, <1>3, <1>8 DEF PublishManifest, At, GoTo, RowsInv, Before, Saving,
                                Ended, Place
<1>9. ASSUME NEW p \in {"exit_1", "raised"}, Raise(c, p), pc[c] \notin Saving \cup Ended
      PROVE  Goal
  BY <1>1, <1>2, <1>3, <1>9 DEF Raise, GoTo, RowsInv, Before, Saving, Ended, Place
<1>10. CASE SaveQuality(c)
  BY <1>1, <1>9, <1>10, SaveStep DEF SaveQuality, Save, At, Stages, Saving, Ended
<1>11. CASE SaveSnapshot(c) \/ SaveBacktest(c)
  BY <1>1, <1>11, SaveStep DEF SaveSnapshot, SaveBacktest, Save, At, Stages
<1>12. CASE SaveForecast(c)
  BY <1>1, <1>9, <1>12, SaveStep DEF SaveForecast, Save, At, Stages, Saving, Ended
<1>13. CASE SaveTarget(c)
  <2>1. /\ pc[c] = "target" /\ GoTo(c, "risk")
        /\ rows' = [rows EXCEPT ![c] = @ \cup {"target"}]
        /\ UNCHANGED <<preview, snapshot, pending, index, intents>>
    BY <1>13 DEF SaveTarget, At
  <2>2. <<pc[c], "target", "risk">> \in Stages
    BY <2>1 DEF Stages
  <2> QED  BY <1>1, <2>1, <2>2, SaveStep
<1>14. CASE LockTimeout(c)
  BY <1>9, <1>14 DEF LockTimeout, Saving, Ended
<1> QED
  BY <1>4, <1>5, <1>6, <1>7, <1>8, <1>10, <1>11, <1>12, <1>13, <1>14
-----------------------------------------------------------------------------
\* The last transaction: the preview is inserted and its queue is set.
LEMMA InsertPreviewKeeps ==
    ASSUME IndInv, NEW c \in Commands, InsertPreview(c)
    PROVE  Types' /\ CommandInv(c)' /\ OthersAlone(c)
<1> DEFINE orders == IntentsOf(c)
           q == [i \in DOMAIN orders |-> orders[i].symbol]
<1>1. Types /\ CommandInv(c)
  BY DEF IndInv
<1>2. /\ pc[c] = "risk"
      /\ GoTo(c, IF orders = <<>> THEN "commit" ELSE "select")
      /\ \E blocked : preview' = [preview EXCEPT ![c] =
                         [intents |-> orders, blocked |-> blocked]]
      /\ UNCHANGED <<snapshot, rows, intents, pending, index>>
  BY DEF InsertPreview, At
<1>3. /\ \E at : InOrder(q, at)
      /\ orders # <<>> => Len(q) >= 1
      /\ orders = <<>> => Len(q) = 0
  BY IntentsInOrder
<1> HIDE DEF orders
<1>4. /\ pc' \in [Commands -> Place]
      /\ pc'[c] = IF orders = <<>> THEN "commit" ELSE "select"
      /\ \A d \in Commands \ {c} : pc'[d] = pc[d]
  BY <1>1, <1>2 DEF GoTo, Types, Place, Saving
<1>5. /\ preview' = [d \in Commands |-> preview'[d]]
      /\ preview'[c].intents = orders
      /\ \A d \in Commands \ {c} : preview'[d] = preview[d]
  <2>1. PICK new : /\ preview' = [preview EXCEPT ![c] = new]
                   /\ new.intents = orders
    <3>1. PICK blocked : preview' = [preview EXCEPT ![c] =
                             [intents |-> orders, blocked |-> blocked]]
      BY <1>2
    <3> DEFINE record == [intents |-> orders, blocked |-> blocked]
    <3>2. record.intents = orders /\ preview' = [preview EXCEPT ![c] = record]
      BY <3>1
    <3> HIDE DEF record
    <3> QED  BY <3>2
  <2>2. preview = [d \in Commands |-> preview[d]]
    BY <1>1 DEF Types
  <2>3. preview' = [d \in Commands |-> IF d = c THEN new ELSE preview[d]]
    BY <2>1, <2>2
  <2> QED  BY <2>1, <2>3
<1>6. Types' /\ OthersAlone(c)
  BY <1>1, <1>2, <1>4, <1>5 DEF Types, OthersAlone
<1>7. Queue(c)' = q
  BY <1>5 DEF Queue
<1>8. RowsInv(c)'
  BY <1>1, <1>2, <1>4 DEF CommandInv, RowsInv, Before, Saving
<1>9. QueueInv(c)'
  <2>1. index[c] = 1 /\ pending[c] = {}
    BY <1>1, <1>2 DEF CommandInv, QueueInv, Saving, Ended
  <2>2. Len(q) \in Nat
    BY <1>3 DEF InOrder
  <2> HIDE DEF q
  <2> QED
    BY <1>2, <1>3, <1>4, <1>7, <2>1, <2>2 DEF QueueInv, Saving, Ended
<1>10. WholeInv(c)'
  BY <1>1, <1>2, <1>4, NoPreviewYet DEF CommandInv, WholeInv, Ended
<1> QED  BY <1>6, <1>8, <1>9, <1>10 DEF CommandInv

\* The next intent has its row, or gets it in this transaction.
LEMMA IntentStep ==
    ASSUME IndInv, NEW c \in Commands, pc[c] \in {"select", "insert"},
           NEW P \in SUBSET Symbols, pending' = [pending EXCEPT ![c] = P],
           \/ P = pending[c] /\ intents[Queue(c)[index[c]]] # None
           \/ P = pending[c] \cup {Queue(c)[index[c]]},
           index' = [index EXCEPT ![c] = @ + 1],
           GoTo(c, AfterIntent(c, index[c] + 1)),
           UNCHANGED <<preview, snapshot, rows, intents>>
    PROVE  Types' /\ CommandInv(c)' /\ OthersAlone(c)
<1> DEFINE q == Queue(c)
           i == index[c]
<1>1. Types /\ CommandInv(c) /\ QueueInv(c)
  BY DEF IndInv, CommandInv
<1>2. /\ Len(q) \in Nat /\ i \in 1 .. Len(q) /\ Queue(c)' = q
  BY <1>1 DEF QueueInv, InOrder, Queue
<1>3. /\ pc' \in [Commands -> Place]
      /\ pc'[c] = IF i + 1 > Len(q) THEN "commit" ELSE "select"
      /\ \A d \in Commands \ {c} : pc'[d] = pc[d]
      /\ index' \in [Commands -> Nat] /\ index'[c] = i + 1
      /\ \A d \in Commands \ {c} : index'[d] = index[d]
      /\ pending' \in [Commands -> SUBSET Symbols] /\ pending'[c] = P
      /\ \A d \in Commands \ {c} : pending'[d] = pending[d]
  BY <1>1 DEF GoTo, AfterIntent, Types, Place, Saving
<1>4. Types' /\ OthersAlone(c)
  BY <1>1, <1>3 DEF Types, OthersAlone
<1>5. RowsInv(c)'
  BY <1>1, <1>3 DEF CommandInv, RowsInv, Before, Saving
<1>6. QueueInv(c)'
  <2>1. ASSUME NEW j \in 1 .. i PROVE q[j] \in P \/ intents[q[j]] # None
    <3>1. CASE j = i
      BY <3>1
    <3>2. CASE j \in 1 .. i - 1
      BY <3>2, <1>1 DEF QueueInv, Saving
    <3> QED  BY <1>2, <3>1, <3>2
  <2>2. ASSUME NEW s \in P PROVE \E j \in 1 .. i : j \in 1 .. Len(q) /\ q[j] = s
    <3>1. CASE s \in pending[c]
      <4>1. PICK j \in 1 .. i - 1 : j \in 1 .. Len(q) /\ q[j] = s
        BY <3>1, <1>1 DEF QueueInv
      <4> QED  BY <4>1, <1>2
    <3>2. CASE s = q[i]
      BY <3>2, <1>2
    <3> QED  BY <3>1, <3>2
  <2>3. (i + 1) - 1 = i /\ (i + 1 > Len(q) => i + 1 = Len(q) + 1)
        /\ (~(i + 1 > Len(q)) => i + 1 \in 1 .. Len(q))
    BY <1>2
  <2> HIDE DEF i, q
  <2>4. \E at : InOrder(q, at)
    BY <1>1 DEF QueueInv, q
  <2> QED
    BY <1>2, <1>3, <2>1, <2>2, <2>3, <2>4 DEF QueueInv, Saving, Ended
<1>7. WholeInv(c)'
  <2>1. "preview" \notin rows[c]
    BY <1>1, NoPreviewYet DEF CommandInv, Ended
  <2> QED  BY <1>3, <2>1 DEF WholeInv
<1> QED  BY <1>4, <1>5, <1>6, <1>7 DEF CommandInv

LEMMA SelectKeeps ==
    ASSUME IndInv, NEW c \in Commands, SelectIntent(c)
    PROVE  Types' /\ CommandInv(c)' /\ OthersAlone(c)
<1>1. Types /\ CommandInv(c)
  BY DEF IndInv
<1>2. CASE intents[Queue(c)[index[c]]] # None
  <2>1. /\ pc[c] = "select" /\ index' = [index EXCEPT ![c] = @ + 1]
        /\ GoTo(c, AfterIntent(c, index[c] + 1))
        /\ UNCHANGED <<preview, snapshot, rows, intents, pending>>
    BY <1>2 DEF SelectIntent, At
  <2>2. pending' = [pending EXCEPT ![c] = pending[c]] /\ pending[c] \in SUBSET Symbols
    BY <1>1, <2>1 DEF Types
  <2> QED  BY <1>2, <2>1, <2>2, IntentStep
<1>3. CASE intents[Queue(c)[index[c]]] = None
  <2>1. /\ pc[c] = "select" /\ pc' = [pc EXCEPT ![c] = "insert"]
        /\ index' = [index EXCEPT ![c] = @]
        /\ UNCHANGED <<preview, snapshot, rows, intents, pending>>
    BY <1>3 DEF SelectIntent, At, GoTo
  <2>2. /\ pc' \in [Commands -> Place] /\ pc'[c] = "insert" /\ index' = index
        /\ \A d \in Commands \ {c} : pc'[d] = pc[d]
    BY <1>1, <2>1 DEF Types, Place, Saving
  <2>3. Queue(c)' = Queue(c)
    BY <2>1 DEF Queue
  <2>4. Types' /\ OthersAlone(c)
    BY <1>1, <2>1, <2>2 DEF Types, OthersAlone
  <2>5. RowsInv(c)'
    BY <1>1, <2>1, <2>2 DEF CommandInv, RowsInv, Before, Saving
  <2>6. QueueInv(c)'
    BY <1>1, <2>1, <2>2, <2>3 DEF CommandInv, QueueInv, Saving, Ended
  <2>7. WholeInv(c)'
    BY <1>1, <2>1, <2>2, <2>3 DEF CommandInv, WholeInv
  <2> QED  BY <2>4, <2>5, <2>6, <2>7 DEF CommandInv
<1> QED  BY <1>2, <1>3

LEMMA InsertKeeps ==
    ASSUME IndInv, NEW c \in Commands, InsertIntent(c)
    PROVE  Types' /\ CommandInv(c)' /\ OthersAlone(c)
<1> DEFINE P == pending[c] \cup {Queue(c)[index[c]]}
<1>1. /\ pc[c] = "insert" /\ index' = [index EXCEPT ![c] = @ + 1]
      /\ GoTo(c, AfterIntent(c, index[c] + 1))
      /\ UNCHANGED <<preview, snapshot, rows, intents>>
      /\ pending' = [pending EXCEPT ![c] = P]
  BY DEF InsertIntent, At
<1>2. P \in SUBSET Symbols
  <2>1. Types /\ QueueInv(c)
    BY DEF IndInv, CommandInv
  <2>2. Queue(c)[index[c]] \in Symbols
    BY <1>1, <2>1, DemoAssumption DEF QueueInv, InOrder
  <2> QED  BY <2>1, <2>2 DEF Types
<1> QED  BY <1>1, <1>2, IntentStep

\* The commit leaves a whole preview behind.
LEMMA CommitKeeps ==
    ASSUME IndInv, NEW c \in Commands, Commit(c)
    PROVE  Types' /\ CommandInv(c)' /\ OthersAlone(c)
<1>1. Types /\ CommandInv(c) /\ QueueInv(c) /\ RowsInv(c)
  BY DEF IndInv, CommandInv
<1>2. /\ pc[c] = "commit" /\ pc' = [pc EXCEPT ![c] = ExitCode(c)]
      /\ rows' = [rows EXCEPT ![c] = @ \cup {"risk", "preview"}]
      /\ intents' = CommittedIntents(c)
      /\ pending' = [pending EXCEPT ![c] = {}]
      /\ preview' = preview /\ snapshot' = snapshot /\ index' = index
  BY DEF Commit, At, GoTo
<1>3. ExitCode(c) \in {"exit_0", "exit_1"}
  BY DEF ExitCode
<1>4. /\ pc' \in [Commands -> Place] /\ pc'[c] \in {"exit_0", "exit_1"}
      /\ \A d \in Commands \ {c} : pc'[d] = pc[d]
      /\ rows' \in [Commands -> SUBSET Evidence]
      /\ rows'[c] = rows[c] \cup {"risk", "preview"}
      /\ \A d \in Commands \ {c} : rows'[d] = rows[d]
      /\ pending' \in [Commands -> SUBSET Symbols] /\ pending'[c] = {}
      /\ \A d \in Commands \ {c} : pending'[d] = pending[d]
  BY <1>1, <1>2, <1>3 DEF Types, Place, Ended, Evidence
<1>5. /\ intents' \in [Symbols -> Commands \cup {None}]
      /\ \A s \in Symbols : intents[s] # None \/ s \in pending[c] => intents'[s] # None
  BY <1>1, <1>2, DemoAssumption DEF Types, CommittedIntents
<1>6. Types' /\ OthersAlone(c)
  BY <1>1, <1>2, <1>4, <1>5 DEF Types, OthersAlone
<1>7. Queue(c)' = Queue(c)
  BY <1>2 DEF Queue
<1>8. RowsInv(c)'
  BY <1>4 DEF RowsInv, Before, Saving
<1>9. QueueInv(c)'
  BY <1>1, <1>2, <1>4, <1>7 DEF QueueInv, Saving, Ended
<1>10. rows'[c] = Evidence /\ snapshot' = "whole"
  BY <1>1, <1>2, <1>4 DEF RowsInv, Saving, Evidence
<1>11. ASSUME NEW i \in DOMAIN Queue(c) PROVE intents'[Queue(c)[i]] # None
  <2>1. /\ DOMAIN Queue(c) = 1 .. Len(Queue(c)) /\ Len(Queue(c)) \in Nat
        /\ Queue(c)[i] \in Symbols
    BY <1>1, DemoAssumption DEF QueueInv, InOrder
  <2>2. i \in 1 .. index[c] - 1
    BY <1>1, <1>2, <2>1 DEF QueueInv
  <2> QED  BY <1>1, <1>2, <1>5, <2>1, <2>2 DEF QueueInv, Saving
<1>12. WholeInv(c)'
  BY <1>7, <1>10, <1>11 DEF WholeInv, Evidence
<1> QED  BY <1>6, <1>8, <1>9, <1>12 DEF CommandInv
-----------------------------------------------------------------------------
(* The invariant is inductive: every step of any command, every death of   *)
(* one, and every race for the lock, the tables and the rows keeps it.     *)
THEOREM Invariance == Spec => []IndInv
<1>1. Init => IndInv
  <2> SUFFICES ASSUME Init PROVE IndInv
    OBVIOUS
  <2>1. Types
    BY DEF Init, Types, Place, Before
  <2>2. ASSUME NEW c \in Commands PROVE CommandInv(c)
    <3>1. pc[c] = "idle" /\ rows[c] = {} /\ pending[c] = {} /\ index[c] = 1
      BY DEF Init
    <3>2. Queue(c) = <<>>
      BY DEF Init, Queue
    <3>3. InOrder(<<>>, <<>>)
      BY DEF InOrder
    <3> QED
      BY <3>1, <3>2, <3>3 DEF CommandInv, RowsInv, QueueInv, WholeInv, Before,
                              Saving, Ended
  <2> QED  BY <2>1, <2>2 DEF IndInv
<1>2. IndInv /\ [Next]_vars => IndInv'
  <2> SUFFICES ASSUME IndInv, [Next]_vars PROVE IndInv'
    OBVIOUS
  <2>1. CASE Next
    <3>1. PICK c \in Commands : \/ \E k \in {"cold", "steady"} : Start(c, k)
                               \/ Step(c) \/ Kill(c)
      BY <2>1 DEF Next
    <3>2. Types' /\ CommandInv(c)' /\ OthersAlone(c)
      <4>1. Types /\ CommandInv(c)
        BY DEF IndInv
      <4>2. CASE Conflict(c)
        BY <4>1, <4>2, EndsUncommitted DEF Conflict, At, Ended
      <4>3. CASE Kill(c)
        BY <4>1, <4>3, EndsUncommitted DEF Kill, Rollback
      <4> QED
        BY <3>1, <4>2, <4>3, PipelineKeeps, InsertPreviewKeeps, SelectKeeps,
           InsertKeeps, CommitKeeps DEF Step
    <3> QED  BY <3>2, OthersKept DEF IndInv
  <2>2. CASE UNCHANGED vars
    <3>1. \A c \in Commands : Queue(c)' = Queue(c)
      BY <2>2 DEF vars, Queue
    <3>2. Types'
      BY <2>2 DEF vars, IndInv, Types
    <3>3. ASSUME NEW c \in Commands PROVE CommandInv(c)'
      <4>1. RowsInv(c) /\ QueueInv(c) /\ WholeInv(c)
        BY DEF IndInv, CommandInv
      <4>2. /\ pc' = pc /\ rows' = rows /\ snapshot' = snapshot
            /\ index' = index /\ pending' = pending /\ intents' = intents
        BY <2>2 DEF vars
      <4>3. RowsInv(c)'
        BY <4>1, <4>2 DEF RowsInv
      <4>4. QueueInv(c)'
        BY <4>1, <4>2, <3>1 DEF QueueInv
      <4>5. WholeInv(c)'
        BY <4>1, <4>2, <3>1 DEF WholeInv
      <4> QED  BY <4>3, <4>4, <4>5 DEF CommandInv
    <3> QED  BY <3>2, <3>3 DEF IndInv
  <2> QED  BY <2>1, <2>2
<1> QED  BY <1>1, <1>2, PTL DEF Spec

(* A preview in the database is whole, and exit code 0 means that there is *)
(* one, whatever the commands beside it do and whoever is killed.          *)
THEOREM WholePreviews == Spec => []PreviewsAreWhole
<1>1. IndInv => PreviewsAreWhole
  BY DEF IndInv, CommandInv, WholeInv, PreviewsAreWhole
<1> QED  BY <1>1, Invariance, PTL

(* No set of commands, of whatever size, waits for each other's            *)
(* transactions: what a command waits for stands earlier in the universe   *)
(* than what the command that it waits for is at.                          *)
THEOREM NobodyWaitsInACircle == Spec => []NoCircularWait
<1>1. IndInv => NoCircularWait
  <2> SUFFICES ASSUME IndInv, NEW S \in (SUBSET Commands) \ {{}},
                      \A c \in S : \E d \in S : WaitsFor(c, d)
               PROVE  FALSE
    BY DEF NoCircularWait
  <2> DEFINE at(c) == CHOOSE f : InOrder(Queue(c), f)
             place(c) == at(c)[index[c]]
  <2>1. ASSUME NEW c \in S
        PROVE  /\ InOrder(Queue(c), at(c)) /\ pc[c] = "insert"
               /\ index[c] \in 1 .. Len(Queue(c)) /\ QueueInv(c)
    <3>1. QueueInv(c)
      BY DEF IndInv, CommandInv
    <3>2. pc[c] = "insert"
      BY DEF WaitsFor, At
    <3> QED  BY <3>1, <3>2 DEF QueueInv
  <2> HIDE DEF at
  <2>2. ASSUME NEW c \in S PROVE place(c) \in 1 .. Len(Universe)
    <3>1. DOMAIN Universe = 1 .. Len(Universe)
      BY DemoAssumption
    <3> QED  BY <2>1, <3>1 DEF InOrder
  <2>3. ASSUME NEW c \in S, NEW d \in S, WaitsFor(c, d)
        PROVE  place(c) < place(d)
    <3>1. PICK i \in 1 .. index[d] - 1 :
             i \in 1 .. Len(Queue(d)) /\ Queue(d)[i] = Queue(c)[index[c]]
      BY <2>1, <2>3 DEF WaitsFor, QueueInv
    <3>2. Universe[at(d)[i]] = Universe[place(c)]
      BY <2>1, <3>1 DEF InOrder
    <3>3. at(d)[i] = place(c)
      <4>1. at(d)[i] \in DOMAIN Universe /\ place(c) \in DOMAIN Universe
        BY <2>1, <3>1 DEF InOrder
      <4> QED  BY <3>2, <4>1, DemoAssumption
    <3>4. i < index[d]
      <4>1. index[d] \in 1 .. Len(Queue(d)) /\ Len(Queue(d)) \in Nat
        BY <2>1 DEF InOrder
      <4> QED  BY <3>1, <4>1
    <3> QED  BY <2>1, <3>1, <3>3, <3>4 DEF InOrder
  <2> DEFINE T == {Len(Universe) - place(c) : c \in S}
  <2>4. T \in SUBSET Nat /\ T # {}
    <3>1. Len(Universe) \in Nat
      BY DemoAssumption
    <3>2. ASSUME NEW c \in S PROVE Len(Universe) - place(c) \in Nat
      <4>1. place(c) \in 1 .. Len(Universe)
        BY <2>2
      <4> HIDE DEF place
      <4> QED  BY <3>1, <4>1
    <3>3. S # {}
      OBVIOUS
    <3> HIDE DEF place
    <3> QED  BY <3>2, <3>3
  <2>5. PICK n \in T : \A m \in T : n <= m
    BY <2>4, LeastNumber
  <2>6. PICK c \in S : n = Len(Universe) - place(c)
    BY <2>5
  <2>7. PICK d \in S : WaitsFor(c, d)
    OBVIOUS
  <2>8. Len(Universe) - place(c) <= Len(Universe) - place(d)
    BY <2>5, <2>6
  <2>9. place(c) < place(d) /\ place(c) \in Int /\ place(d) \in Int
    BY <2>2, <2>3, <2>7
  <2> QED  BY <2>8, <2>9, DemoAssumption
<1> QED  BY <1>1, Invariance, PTL
-----------------------------------------------------------------------------
(* What the optimizer may answer: its own limits, which are those of       *)
(* Settings.  The cold-start limit on an order is a constant, so that a    *)
(* position limit above it would not do.                                   *)
WithinOptimizer ==
    /\ SteadyLimits.maximum_position_weight <= ColdLimits.maximum_order_weight
    /\ \A w \in Targets :
          /\ DOMAIN w \subseteq Symbols
          /\ w \in [DOMAIN w -> 0 .. SteadyLimits.maximum_position_weight]
          /\ SumFunction(w) <= 100 - SteadyLimits.minimum_cash_weight

\* The totals of the two instances are the totals of LoopsProofs.
LEMMA InstanceTotals ==
    ASSUME NEW f
    PROVE  Steady!SumFunction(f) = SumFunction(f) /\ Cold!SumFunction(f) = SumFunction(f)
<1>1. Steady!SumFunction(f) = SetSums(f)[DOMAIN f]
  BY DEF Steady!SumFunction, Steady!SumFunctionOnSet, Steady!FoldFunctionOnSet,
         Steady!MapThenFoldSet, SetSums, SetSummed, Taken
<1>2. Cold!SumFunction(f) = SetSums(f)[DOMAIN f]
  BY DEF Cold!SumFunction, Cold!SumFunctionOnSet, Cold!FoldFunctionOnSet,
         Cold!MapThenFoldSet, SetSums, SetSummed, Taken
<1> QED  BY <1>1, <1>2, TotalIsSetSum

\* A target of at least a share each that costs no more than its weight.
Fits(T) ==
    /\ DOMAIN T \subseteq DOMAIN weights
    /\ T \in [DOMAIN T -> Nat \ {0}]
    /\ \A s \in DOMAIN T : 100 * (T[s] * Price[s]) <= Equity * weights[s]

LEMMA TargetFits ==
    ASSUME WithinOptimizer, weights \in Targets
    PROVE  Fits(Steady!TargetPositions(Equity))
<1> DEFINE D == {s \in DOMAIN weights : Steady!Shares(Equity, s) > 0}
<1>1. ASSUME NEW s \in DOMAIN weights
      PROVE  /\ Steady!Shares(Equity, s) \in Nat
             /\ 100 * (Steady!Shares(Equity, s) * Price[s]) <= Equity * weights[s]
  <2> DEFINE n == Equity * weights[s]
             d == 100 * Price[s]
  <2>1. /\ weights[s] \in Nat /\ Price[s] \in Nat \ {0} /\ Equity \in Nat
        /\ SteadyLimits.maximum_position_weight \in Nat
    BY DemoAssumption DEF WithinOptimizer
  <2>2. n \in Nat /\ d \in Nat \ {0}
    BY <2>1
  <2>3. Steady!Shares(Equity, s) = n \div d
    BY DEF Steady!Shares
  <2> HIDE DEF n, d
  <2>4. n \div d \in Nat /\ d * (n \div d) <= n
    BY <2>2
  <2>5. \A q \in Nat : 100 * (q * Price[s]) = (100 * Price[s]) * q
    BY <2>1
  <2> QED  BY <2>3, <2>4, <2>5 DEF n, d
<1>2. Steady!TargetPositions(Equity) = [s \in D |-> Steady!Shares(Equity, s)]
  BY DEF Steady!TargetPositions
<1>3. \A s \in D : s \in DOMAIN weights /\ Steady!Shares(Equity, s) \in Nat \ {0}
  BY <1>1
<1> HIDE DEF D
<1> QED  BY <1>1, <1>2, <1>3 DEF Fits

\* What such a target is worth leaves the cash the optimizer left.
WorthOf(T) == [s \in DOMAIN T |-> T[s] * Price[s]]

LEMMA WorthFits ==
    ASSUME WithinOptimizer, weights \in Targets, NEW T, Fits(T)
    PROVE  /\ IsFiniteSet(DOMAIN T) /\ WorthOf(T) \in [DOMAIN T -> Nat]
           /\ SumFunction(WorthOf(T)) \in Nat
           /\ 100 * SumFunction(WorthOf(T))
                 <= (100 - SteadyLimits.minimum_cash_weight) * Equity
           /\ SumFunction(WorthOf(T)) <= Equity
<1> DEFINE D == DOMAIN T
           W == DOMAIN weights
           g == WorthOf(T)
           f == [s \in D |-> 100 * g[s]]
           h == [s \in W |-> Equity * weights[s]]
           cash == SteadyLimits.minimum_cash_weight
<1>1. /\ D \subseteq W /\ W \subseteq Symbols /\ IsFiniteSet(W) /\ IsFiniteSet(D)
      /\ cash \in Nat /\ Equity \in Nat
  <2>1. IsFiniteSet(Symbols)
    BY DemoAssumption, RangeIsFinite
  <2>2. D \subseteq W /\ W \subseteq Symbols
    BY DEF Fits, WithinOptimizer
  <2> QED  BY <2>1, <2>2, FS_Subset, DemoAssumption
<1>2. weights \in [W -> Nat]
  <2>1. SteadyLimits.maximum_position_weight \in Nat
    BY DemoAssumption
  <2> QED  BY <2>1 DEF WithinOptimizer
<1>3. g \in [D -> Nat] /\ \A s \in D : g[s] = T[s] * Price[s]
  <2>1. ASSUME NEW s \in D PROVE T[s] * Price[s] \in Nat
    <3>1. T[s] \in Nat /\ Price[s] \in Nat
      BY <1>1, DemoAssumption DEF Fits
    <3> QED  BY <3>1
  <2> QED  BY <2>1 DEF WorthOf
<1>4. SumFunction(f) = 100 * SumFunction(g) /\ SumFunction(g) \in Int
  <2> HIDE DEF g
  <2>1. g \in [D -> Int]
    BY <1>3
  <2> QED  BY <1>1, <2>1, SumScaled, SumOfFew
<1>5. SumFunction(h) = Equity * SumFunction(weights) /\ SumFunction(weights) \in Int
  <2>1. weights \in [W -> Int]
    BY <1>2
  <2> QED  BY <1>1, <2>1, SumScaled, SumOfFew
<1>6. SumFunction(f) <= SumFunction(h)
  <2> DEFINE id == [s \in D |-> s]
  <2>1. \A s \in D : f[s] \in Int /\ f[s] <= h[s]
    BY <1>1, <1>3 DEF Fits
  <2>2. h \in [W -> Nat]
    BY <1>1, <1>2
  <2>3. f \in [D -> Int]
    BY <1>3
  <2>4. id \in [D -> W] /\ \A s \in D : id[s] = s
    BY <1>1
  <2> HIDE DEF id, f, h, D, W
  <2> QED  BY <1>1, <2>1, <2>2, <2>3, <2>4, SumInto
<1>7. SumFunction(g) >= 0
  <2> DEFINE none == [x \in {} |-> 0]
  <2>1. SumFunction(none) = 0
    <3>1. none \in [{} -> Int] /\ IsFiniteSet({})
      BY FS_EmptySet
    <3> HIDE DEF none
    <3> QED  BY <3>1, SumOfFew
  <2>2. SumFunction(none) <= SumFunction(g)
    <3>1. none \in [{} -> Int] /\ IsFiniteSet({}) /\ none \in [{} -> D]
      BY FS_EmptySet
    <3> HIDE DEF none, g, D
    <3> QED  BY <1>1, <1>3, <3>1, SumInto
  <2> HIDE DEF none, g
  <2> QED  BY <1>4, <2>1, <2>2
<1>8. SumFunction(weights) <= 100 - cash
  BY DEF WithinOptimizer
<1>9. Equity * SumFunction(weights) <= Equity * (100 - cash)
  BY <1>1, <1>5, <1>8, TimesMonotone
<1> HIDE DEF f, h, g
<1>10. 100 * SumFunction(g) <= (100 - cash) * Equity
  BY <1>1, <1>4, <1>5, <1>6, <1>9
<1>11. (100 - cash) * Equity <= 100 * Equity
  <2> HIDE DEF cash
  <2>1. Equity * (100 - cash) <= Equity * 100
    BY <1>1, TimesMonotone
  <2> QED  BY <1>1, <2>1
<1>12. SumFunction(g) <= Equity
  <2> HIDE DEF cash
  <2>1. (100 - cash) * Equity \in Int
    BY <1>1
  <2> QED  BY <1>1, <1>4, <1>10, <1>11, <2>1
<1> QED  BY <1>1, <1>3, <1>4, <1>7, <1>10, <1>12 DEF g

\* The orders of a first deployment buy the whole target, but for what is too
\* little, one order a symbol.
Orders(q, T) ==
    /\ q = [i \in DOMAIN q |-> [symbol |-> q[i].symbol, side |-> "buy",
                                quantity |-> T[q[i].symbol]]]
    /\ \A i \in DOMAIN q :
          /\ q[i].symbol \in DOMAIN T
          /\ T[q[i].symbol] * Price[q[i].symbol] >= SteadyLimits.minimum_order_notional
    /\ \A i, j \in DOMAIN q : q[i].symbol = q[j].symbol => i = j
    /\ IsFiniteSet({q[i] : i \in DOMAIN q})

LEMMA ColdIntents ==
    ASSUME WithinOptimizer, weights \in Targets, NEW c \in Commands,
           kind[c] = "cold", NEW T, T = positions[c], Fits(T),
           NEW q, q = IntentsOf(c)
    PROVE  Orders(q, T)
<1> DEFINE S == Cold!Traded(T, <<>>)
           p == Picks(Universe, S)
<1>1. q = Cold!Intents(T, <<>>) /\ Cold!Picks(Universe, S) = p
  BY DEF IntentsOf, Cold!Picks, Cold!PartialPicks, Picks, PartialPicks
<1>2. Len(Universe) \in Nat /\ DOMAIN Universe = 1 .. Len(Universe)
  BY DemoAssumption
<1>3. PICK at : PickedAt(p, at, Universe, S, Len(Universe))
  BY <1>2, PicksDef
<1>4. p \in Seq(S)
  BY <1>3 DEF PickedAt
<1>5. q = [i \in DOMAIN p |-> Cold!IntentOf(T, <<>>, p[i])]
  BY <1>1 DEF Cold!Intents
<1>6. ASSUME NEW s \in S
      PROVE  /\ s \in DOMAIN T
             /\ T[s] * Price[s] >= SteadyLimits.minimum_order_notional
             /\ Cold!IntentOf(T, <<>>, s)
                   = [symbol |-> s, side |-> "buy", quantity |-> T[s]]
  <2>1. s \in DOMAIN T /\ T[s] \in Nat \ {0}
    BY DEF Cold!Traded, Fits
  <2>2. Cold!Delta(T, <<>>, s) = T[s]
    BY <2>1 DEF Cold!Delta, Cold!Held
  <2>3. Cold!Abs(T[s]) = T[s]
    BY <2>1 DEF Cold!Abs
  <2>4. ColdLimits.minimum_order_notional = SteadyLimits.minimum_order_notional
    BY DemoAssumption DEF ColdLimits
  <2> QED  BY <2>1, <2>2, <2>3, <2>4 DEF Cold!Traded, Cold!IntentOf
<1> HIDE DEF p, S
<1>7. DOMAIN q = DOMAIN p /\ \A i \in DOMAIN p : p[i] \in S /\ q[i].symbol = p[i]
  <2>1. \A i \in DOMAIN p : p[i] \in S
    BY <1>4
  <2>2. ASSUME NEW i \in DOMAIN p PROVE q[i].symbol = p[i]
    <3>1. q[i] = Cold!IntentOf(T, <<>>, p[i])
      BY <1>5
    <3>2. q[i] = [symbol |-> p[i], side |-> "buy", quantity |-> T[p[i]]]
      BY <1>6, <2>1, <3>1
    <3> QED  BY <3>2
  <2>3. DOMAIN q = DOMAIN p
    BY <1>5
  <2> QED  BY <2>1, <2>2, <2>3
<1>8. q = [i \in DOMAIN q |-> [symbol |-> q[i].symbol, side |-> "buy",
                               quantity |-> T[q[i].symbol]]]
  BY <1>5, <1>6, <1>7
<1>9. ASSUME NEW i \in DOMAIN q, NEW j \in DOMAIN q, q[i].symbol = q[j].symbol
      PROVE  i = j
  <2>1. PICK a : InOrder([m \in DOMAIN q |-> q[m].symbol], a)
    BY IntentsInOrder
  <2> DEFINE r == [m \in DOMAIN q |-> q[m].symbol]
  <2>2. r[i] = r[j] /\ i \in DOMAIN r /\ j \in DOMAIN r
    BY <1>9
  <2> HIDE DEF r
  <2>3. InOrder(r, a)
    BY <2>1 DEF r
  <2>4. a[i] = a[j] /\ a[i] \in Int /\ i \in 1 .. Len(r) /\ j \in 1 .. Len(r)
    <3>1. /\ i \in 1 .. Len(r) /\ j \in 1 .. Len(r)
          /\ a[i] \in DOMAIN Universe /\ a[j] \in DOMAIN Universe
          /\ Universe[a[i]] = Universe[a[j]]
      BY <2>2, <2>3 DEF InOrder
    <3> QED  BY <1>2, <3>1, DemoAssumption
  <2>5. ~ (i < j) /\ ~ (j < i) /\ Len(r) \in Nat
    BY <2>3, <2>4 DEF InOrder
  <2> QED  BY <2>4, <2>5
<1>10. IsFiniteSet({q[i] : i \in DOMAIN q})
  <2> DEFINE R == {q[i] : i \in DOMAIN q}
  <2>1. q \in Seq(R)
    <3>1. Len(p) \in Nat /\ DOMAIN q = 1 .. Len(p)
      BY <1>4, <1>7
    <3>2. q = [i \in 1 .. Len(p) |-> q[i]]
      BY <1>5, <1>7, <3>1
    <3>3. \A i \in 1 .. Len(p) : q[i] \in R
      BY <3>1
    <3> HIDE DEF R
    <3> QED  BY <3>1, <3>2, <3>3
  <2> QED  BY <2>1, RangeIsFinite
<1> QED  BY <1>6, <1>7, <1>8, <1>9, <1>10 DEF Orders

\* What such orders cost.
CostOf(q) == [c \in {q[i] : i \in DOMAIN q} |-> c.quantity * Price[c.symbol]]

LEMMA OrdersFit ==
    ASSUME WithinOptimizer, weights \in Targets, NEW T, Fits(T), NEW q, Orders(q, T)
    PROVE  /\ \A c \in DOMAIN CostOf(q) :
                 /\ CostOf(q)[c] \in Nat /\ c.side = "buy"
                 /\ CostOf(q)[c] >= SteadyLimits.minimum_order_notional
                 /\ 100 * CostOf(q)[c] <= 25 * Equity
           /\ SumFunction(CostOf(q)) \in Int /\ SumFunction(CostOf(q)) <= Equity
<1> DEFINE R == {q[i] : i \in DOMAIN q}
           f == CostOf(q)
           g == WorthOf(T)
           h == [c \in R |-> c.symbol]
<1>1. DOMAIN f = R /\ f = [c \in R |-> f[c]]
  BY DEF CostOf
<1>2. /\ IsFiniteSet(DOMAIN T) /\ g \in [DOMAIN T -> Nat]
      /\ SumFunction(g) \in Nat /\ SumFunction(g) <= Equity
  BY WorthFits
<1>3. ASSUME NEW c \in R
      PROVE  /\ c.symbol \in DOMAIN T /\ c.side = "buy" /\ f[c] = g[c.symbol]
             /\ g[c.symbol] >= SteadyLimits.minimum_order_notional
             /\ g[c.symbol] = T[c.symbol] * Price[c.symbol]
  <2>1. PICK i \in DOMAIN q : c = q[i]
    OBVIOUS
  <2>2. /\ c.side = "buy" /\ c.quantity = T[c.symbol] /\ c.symbol \in DOMAIN T
        /\ T[c.symbol] * Price[c.symbol] >= SteadyLimits.minimum_order_notional
    BY <2>1 DEF Orders
  <2> QED  BY <2>2 DEF CostOf, WorthOf
<1>4. ASSUME NEW c \in R PROVE f[c] \in Nat /\ 100 * f[c] <= 25 * Equity
  <2> DEFINE s == c.symbol
  <2>1. f[c] \in Nat /\ 100 * f[c] <= Equity * weights[s]
    BY <1>2, <1>3 DEF Fits
  <2>2. weights[s] \in Int /\ weights[s] <= 25 /\ Equity \in Nat
    <3>1. s \in DOMAIN weights
      BY <1>3 DEF Fits
    <3>2. ColdLimits.maximum_order_weight = 25 /\ SteadyLimits.maximum_position_weight \in Nat
      BY DemoAssumption DEF ColdLimits
    <3> QED  BY <3>1, <3>2, DemoAssumption DEF WithinOptimizer
  <2> HIDE DEF s
  <2>3. Equity * weights[s] <= Equity * 25
    BY <2>2, TimesMonotone
  <2> HIDE DEF f
  <2> QED  BY <2>1, <2>2, <2>3
<1>5. SumFunction(f) <= SumFunction(g)
  <2>1. f \in [R -> Int]
    <3>1. \A c \in R : f[c] \in Int
      BY <1>4
    <3> HIDE DEF f, R
    <3> QED  BY <1>1, <3>1
  <2>2. IsFiniteSet(R)
    BY DEF Orders
  <2>3. h \in [R -> DOMAIN T] /\ \A x \in R : f[x] <= g[h[x]]
    BY <1>2, <1>3
  <2>4. \A x, y \in R : h[x] = h[y] => x = y
    BY DEF Orders
  <2> HIDE DEF f, g, h, R
  <2> QED  BY <1>2, <2>1, <2>2, <2>3, <2>4, SumInto
<1>6. SumFunction(f) \in Int
  <2>1. \A c \in R : f[c] \in Int
    BY <1>4
  <2>2. IsFiniteSet(R)
    BY DEF Orders
  <2> HIDE DEF f, R
  <2>3. f \in [R -> Int]
    BY <1>1, <2>1
  <2> QED  BY <2>2, <2>3, SumOfFew
<1>7. SumFunction(f) <= Equity
  <2>1. Equity \in Nat
    BY DemoAssumption
  <2> HIDE DEF f, g
  <2> QED  BY <1>2, <1>5, <1>6, <2>1
<1> QED  BY <1>1, <1>3, <1>4, <1>6, <1>7

\* So the report on a first deployment passes every rule.
LEMMA ColdPasses ==
    ASSUME WithinOptimizer, weights \in Targets, NEW c \in Commands,
           kind[c] = "cold", Fits(positions[c]), NEW q, q = IntentsOf(c)
    PROVE  ~Steady!RiskBlocked(ContextOf(c, q))
<1>1. PICK T : T = positions[c]
  OBVIOUS
<1> DEFINE differences == Steady!Differences(Fresh, Fresh)
           ctx == ContextOf(c, q)
           worth == WorthOf(T)
           cost == CostOf(q)
<1>2. Fits(T) /\ Orders(q, T) /\ Equity \in Nat \ {0} /\ NonFinite \notin Int
  BY <1>1, ColdIntents, DemoAssumption
<1>3. ctx = Cold!RiskContext(T, q, Account, differences, Snapshot, 1)
  BY <1>1 DEF ContextOf
<1>4. differences = {}
  BY DEF Steady!Differences, Fresh, Steady!SymDiff
<1> HIDE DEF ctx, differences
<1>5. /\ worth \in [DOMAIN T -> Nat] /\ SumFunction(worth) \in Nat
      /\ SumFunction(worth) <= Equity
      /\ 100 * SumFunction(worth) <= (100 - SteadyLimits.minimum_cash_weight) * Equity
  BY <1>2, WorthFits
<1>6. /\ \A o \in DOMAIN cost :
            /\ cost[o] \in Nat /\ cost[o] >= SteadyLimits.minimum_order_notional
            /\ 100 * cost[o] <= 25 * Equity
      /\ SumFunction(cost) \in Int /\ SumFunction(cost) <= Equity
  BY <1>2, OrdersFit
<1>7. /\ Steady!Gross(worth) = SumFunction(worth) /\ Cold!Gross(worth) = SumFunction(worth)
      /\ Steady!SumFunction(worth) = SumFunction(worth)
  <2>1. /\ [s \in DOMAIN worth |-> Steady!Abs(worth[s])] = worth
        /\ [s \in DOMAIN worth |-> Cold!Abs(worth[s])] = worth
    <3> HIDE DEF worth
    <3> QED  BY <1>5 DEF Steady!Abs, Cold!Abs
  <2> QED  BY <2>1, InstanceTotals DEF Steady!Gross, Cold!Gross
<1>8. Steady!Gross(cost) = SumFunction(cost)
  <2>1. cost = [o \in DOMAIN cost |-> cost[o]]
    BY DEF CostOf
  <2>2. [o \in DOMAIN cost |-> Steady!Abs(cost[o])] = cost
    <3> HIDE DEF cost
    <3> QED  BY <1>6, <2>1 DEF Steady!Abs
  <2> QED  BY <2>2, InstanceTotals DEF Steady!Gross
<1>9. /\ ctx.snapshot_blocked = FALSE /\ ctx.snapshot_last_session = 1
      /\ ctx.expected_last_session = 1 /\ ctx.decision_session = 1
      /\ ctx.expected_decision_session = 1
      /\ ctx.model_version = ctx.expected_model_version
      /\ ctx.feature_version = ctx.expected_feature_version
      /\ ctx.equity = Equity /\ ctx.intent_client_ids = q /\ ctx.nav = Equity
      /\ ctx.maximum_position_weight = SteadyLimits.maximum_position_weight
      /\ ctx.minimum_cash_weight = SteadyLimits.minimum_cash_weight
      /\ ctx.maximum_order_weight = 25 /\ ctx.maximum_rebalance_weight = 100
      /\ ctx.minimum_order_notional = SteadyLimits.minimum_order_notional
      /\ ctx.broker_account_active = TRUE /\ ctx.broker_account_blocked = FALSE
      /\ ctx.reconciliation_ok = TRUE /\ ctx.live_trading_enabled = FALSE
  <2>1. /\ ColdLimits.maximum_position_weight = SteadyLimits.maximum_position_weight
        /\ ColdLimits.minimum_cash_weight = SteadyLimits.minimum_cash_weight
        /\ ColdLimits.maximum_order_weight = 25
        /\ ColdLimits.maximum_rebalance_weight = 100
        /\ ColdLimits.minimum_order_notional = SteadyLimits.minimum_order_notional
    BY DemoAssumption DEF ColdLimits
  <2>2. /\ ctx.snapshot_blocked = FALSE /\ ctx.snapshot_last_session = 1
        /\ ctx.expected_last_session = 1 /\ ctx.decision_session = 1
        /\ ctx.expected_decision_session = 1
        /\ ctx.model_version = ctx.expected_model_version
        /\ ctx.feature_version = ctx.expected_feature_version
    BY <1>3 DEF Cold!RiskContext, Snapshot
  <2>3. ctx.equity = Equity /\ ctx.intent_client_ids = q /\ ctx.nav = Equity
    BY <1>2, <1>3 DEF Cold!RiskContext, Account
  <2>4. /\ ctx.maximum_position_weight = ColdLimits.maximum_position_weight
        /\ ctx.minimum_cash_weight = ColdLimits.minimum_cash_weight
        /\ ctx.maximum_order_weight = ColdLimits.maximum_order_weight
        /\ ctx.maximum_rebalance_weight = ColdLimits.maximum_rebalance_weight
        /\ ctx.minimum_order_notional = ColdLimits.minimum_order_notional
    BY <1>3 DEF Cold!RiskContext
  <2>5. /\ ctx.broker_account_active = TRUE /\ ctx.broker_account_blocked = FALSE
        /\ ctx.reconciliation_ok = (differences = {}) /\ ctx.live_trading_enabled = FALSE
    BY <1>3 DEF Cold!RiskContext, Account
  <2> QED  BY <1>4, <2>1, <2>2, <2>3, <2>4, <2>5
<1>10. ctx.weights = worth
  BY <1>2, <1>3 DEF Cold!RiskContext, Account, WorthOf
<1>11. ctx.cash_weight = Equity - SumFunction(worth)
  <2>1. ctx.cash_weight = IF Cold!Gross(worth) <= Equity
                          THEN Equity - Cold!Gross(worth) ELSE 0
    BY <1>2, <1>3 DEF Cold!RiskContext, Account, WorthOf
  <2> QED  BY <1>5, <1>7, <2>1
<1>12. ctx.order_notionals = cost
  <2>1. ctx.order_notionals = [o \in Cold!Range(q) |->
            IF o.side = "buy" THEN o.quantity * Price[o.symbol]
            ELSE -(o.quantity * Price[o.symbol])]
    BY <1>3 DEF Cold!RiskContext
  <2>2. Cold!Range(q) = {q[i] : i \in DOMAIN q} /\ \A o \in Cold!Range(q) : o.side = "buy"
    BY <1>2 DEF Cold!Range, Orders
  <2> QED  BY <2>1, <2>2 DEF CostOf
<1> HIDE DEF worth, cost
<1>13. /\ Steady!SnapshotHealth(ctx) /\ Steady!SnapshotFreshness(ctx)
       /\ Steady!DecisionSessionFreshness(ctx) /\ Steady!ModelVersion(ctx)
       /\ Steady!FeatureVersion(ctx) /\ Steady!BrokerAccountStatus(ctx)
       /\ Steady!ReconciliationRule(ctx) /\ Steady!LiveTradingDisabled(ctx)
  BY <1>9 DEF Steady!SnapshotHealth, Steady!SnapshotFreshness,
              Steady!DecisionSessionFreshness, Steady!ModelVersion,
              Steady!FeatureVersion, Steady!BrokerAccountStatus,
              Steady!ReconciliationRule, Steady!LiveTradingDisabled
<1>14. /\ Steady!AllFinite(worth) /\ Steady!AllFinite(cost)
       /\ Steady!Finite(Equity) /\ Steady!Finite(Equity - SumFunction(worth))
  BY <1>2, <1>5, <1>6 DEF Steady!AllFinite, Steady!Finite
<1>15. Steady!FiniteValues(ctx)
  BY <1>9, <1>10, <1>11, <1>12, <1>14 DEF Steady!FiniteValues
<1>16. Steady!PositionLimit(ctx)
  <2>1. ASSUME NEW s \in DOMAIN worth
        PROVE  100 * Steady!Abs(worth[s]) <= SteadyLimits.maximum_position_weight * Equity
    <3> DEFINE most == SteadyLimits.maximum_position_weight
    <3>1. /\ s \in DOMAIN T /\ s \in DOMAIN weights /\ worth[s] \in Nat
          /\ 100 * worth[s] <= Equity * weights[s]
      BY <1>2, <1>5 DEF Fits, WorthOf, worth
    <3>2. weights[s] \in Int /\ weights[s] <= most /\ most \in Nat
      BY <3>1, DemoAssumption DEF WithinOptimizer
    <3> HIDE DEF most
    <3>3. Equity * weights[s] <= Equity * most
      BY <1>2, <3>2, TimesMonotone
    <3>4. 100 * worth[s] <= most * Equity
      BY <1>2, <3>1, <3>2, <3>3
    <3> QED  BY <3>1, <3>4 DEF Steady!Abs, most
  <2> QED  BY <1>9, <1>10, <1>14, <2>1 DEF Steady!PositionLimit, Steady!AtMostPercent
<1>17. Steady!GrossExposure(ctx) /\ Steady!NetExposure(ctx)
  BY <1>2, <1>5, <1>7, <1>9, <1>10, <1>14 DEF Steady!GrossExposure, Steady!NetExposure
<1>18. Steady!CashReserve(ctx)
  <2> DEFINE least == SteadyLimits.minimum_cash_weight
             sum == SumFunction(worth)
  <2>1. least \in Nat /\ sum \in Nat /\ 100 * sum <= (100 - least) * Equity
    BY <1>5, DemoAssumption
  <2> HIDE DEF least, sum
  <2>2. (100 - least) * Equity = 100 * Equity - least * Equity
    BY <1>2, <2>1
  <2>3. least * Equity \in Int
    BY <1>2, <2>1
  <2>4. ~ (100 * (Equity - sum) < least * Equity)
    BY <1>2, <2>1, <2>2, <2>3
  <2> QED  BY <1>9, <1>11, <1>14, <2>4 DEF Steady!CashReserve, least, sum
<1>19. Steady!PerOrderNotional(ctx) /\ Steady!MinimumOrderNotional(ctx)
  <2>1. \A o \in DOMAIN cost : Steady!Abs(cost[o]) = cost[o]
    BY <1>6 DEF Steady!Abs
  <2> QED
    BY <1>6, <1>9, <1>12, <1>14, <2>1
    DEF Steady!PerOrderNotional, Steady!MinimumOrderNotional, Steady!AtMostPercent
<1>20. Steady!TotalRebalanceNotional(ctx)
  <2>1. 100 * SumFunction(cost) <= 100 * Equity
    BY <1>2, <1>6
  <2> QED
    BY <1>8, <1>9, <1>12, <1>14, <2>1
    DEF Steady!TotalRebalanceNotional, Steady!AtMostPercent
<1>21. Steady!DuplicateIntent(ctx)
  BY <1>2, <1>9 DEF Steady!DuplicateIntent, Steady!IsInjective, Orders
<1>22. \A rule \in DOMAIN Steady!Report(ctx) : Steady!Report(ctx)[rule] = TRUE
  BY <1>13, <1>15, <1>16, <1>17, <1>18, <1>19, <1>20, <1>21 DEF Steady!Report
<1>23. FALSE \notin Steady!Range(Steady!Report(ctx))
  BY <1>22 DEF Steady!Range
<1> QED  BY <1>23 DEF Steady!RiskBlocked, ctx

\* A command previews the target that it has sized, and one with cold-start
\* limits does not go on to save a blocked preview.
ColdInv ==
    /\ weights \in Targets
    /\ kind = [c \in Commands |-> kind[c]]
    /\ positions = [c \in Commands |-> positions[c]]
    /\ \A c \in Commands :
          /\ pc[c] = "risk" => positions[c] = Steady!TargetPositions(Equity)
          /\ pc[c] \in Saving /\ kind[c] = "cold" => ~preview[c].blocked

(* The cold-start limits let a first deployment pass every rule of the     *)
(* risk policy, for any universe, prices and equity, whatever the          *)
(* optimizer answers within its own limits: as long as these keep a        *)
(* position within the cold-start limit on an order.                       *)
THEOREM ColdStartsPass ==
    ASSUME WithinOptimizer
    PROVE  Spec => []ColdStartPasses
<1>1. Init => ColdInv
  BY DEF Init, ColdInv, Saving
<1>2. ASSUME IndInv, ColdInv, [Next]_vars
      PROVE  ColdInv'
  <2>1. CASE UNCHANGED vars
    <3>1. /\ UNCHANGED <<pc, kind, positions, preview, weights>>
      BY <2>1 DEF vars, world
    <3> QED  BY <1>2, <3>1 DEF ColdInv, Steady!TargetPositions, Steady!Shares
  <2>2. ASSUME NEW c \in Commands,
               (\E k \in {"cold", "steady"} : Start(c, k)) \/ Step(c) \/ Kill(c)
        PROVE  ColdInv'
    <3>1. Types
      BY <1>2 DEF IndInv
    <3>2. ASSUME weights' = weights,
                 \A d \in Commands \ {c} :
                    /\ pc'[d] = pc[d] /\ kind'[d] = kind[d]
                    /\ positions'[d] = positions[d] /\ preview'[d] = preview[d],
                 kind' = [d \in Commands |-> kind'[d]],
                 positions' = [d \in Commands |-> positions'[d]],
                 pc'[c] = "risk" => positions'[c] = Steady!TargetPositions(Equity),
                 pc'[c] \in Saving /\ kind'[c] = "cold" => ~preview'[c].blocked
          PROVE  ColdInv'
      <4>1. Steady!TargetPositions(Equity)' = Steady!TargetPositions(Equity)
        BY <3>2 DEF Steady!TargetPositions, Steady!Shares
      <4> QED  BY <1>2, <3>2, <4>1 DEF ColdInv
    <3>3. ASSUME UNCHANGED <<weights, kind, positions, preview>>,
                 NEW p, p # "risk", p \in Saving => pc[c] \in Saving, GoTo(c, p)
          PROVE  ColdInv'
      <4>1. pc'[c] = p /\ \A d \in Commands \ {c} : pc'[d] = pc[d]
        BY <3>1, <3>3 DEF GoTo, Types
      <4> QED  BY <1>2, <3>2, <3>3, <4>1 DEF ColdInv
    <3>4. CASE \E k \in {"cold", "steady"} : Start(c, k)
      <4>1. PICK k : kind' = [kind EXCEPT ![c] = k]
        BY <3>4 DEF Start
      <4>2. /\ UNCHANGED <<weights, positions, preview>>
            /\ pc'[c] = "inspect" /\ \A d \in Commands \ {c} : pc'[d] = pc[d]
        BY <3>1, <3>4 DEF Start, GoTo, Types, world
      <4>3. /\ \A d \in Commands \ {c} : kind'[d] = kind[d]
            /\ kind' = [d \in Commands |-> kind'[d]]
        BY <1>2, <4>1 DEF ColdInv
      <4> QED  BY <1>2, <3>2, <4>2, <4>3 DEF ColdInv, Saving
    <3>5. CASE SaveTarget(c)
      <4>1. /\ positions' = [positions EXCEPT ![c] = Steady!TargetPositions(Equity)]
            /\ UNCHANGED <<weights, kind, preview>>
            /\ pc'[c] = "risk" /\ \A d \in Commands \ {c} : pc'[d] = pc[d]
        BY <3>1, <3>5 DEF SaveTarget, GoTo, Types, world
      <4>2. /\ positions'[c] = Steady!TargetPositions(Equity)
            /\ \A d \in Commands \ {c} : positions'[d] = positions[d]
            /\ positions' = [d \in Commands |-> positions'[d]]
        <5> QED  BY <1>2, <4>1 DEF ColdInv
      <4> QED  BY <1>2, <3>2, <4>1, <4>2 DEF ColdInv, Saving
    <3>6. CASE InsertPreview(c)
      <4> DEFINE q == IntentsOf(c)
                 new == [intents |-> q, blocked |-> Steady!RiskBlocked(ContextOf(c, q))]
      <4>1. /\ preview' = [preview EXCEPT ![c] = new] /\ pc[c] = "risk"
            /\ UNCHANGED <<weights, kind, positions>>
        BY <3>6 DEF InsertPreview, At, world
      <4>2. \A d \in Commands \ {c} : pc'[d] = pc[d]
        BY <3>1, <3>6 DEF InsertPreview, GoTo, Types
      <4>3. pc'[c] \in Saving
        BY <3>1, <3>6 DEF InsertPreview, GoTo, Types, Saving
      <4>4. kind[c] = "cold" => ~Steady!RiskBlocked(ContextOf(c, q))
        <5>1. Fits(positions[c]) /\ weights \in Targets
          BY <1>2, <4>1, TargetFits DEF ColdInv
        <5> QED  BY <5>1, ColdPasses
      <4>5. kind[c] = "cold" => ~new.blocked
        BY <4>4
      <4> HIDE DEF new
      <4>6. preview'[c] = new /\ \A d \in Commands \ {c} : preview'[d] = preview[d]
        BY <3>1, <4>1 DEF Types
      <4> QED  BY <1>2, <3>2, <4>1, <4>2, <4>3, <4>5, <4>6 DEF ColdInv, Saving
    <3>7. CASE Inspect(c) \/ Create(c) \/ LockTimeout(c) \/ Kill(c)
      BY <3>3, <3>7 DEF Inspect, Create, LockTimeout, Raise, Kill, world, Saving
    <3>8. CASE \/ SaveQuality(c) \/ PublishManifest(c)
               \/ SaveSnapshot(c) \/ SaveBacktest(c) \/ SaveForecast(c)
      BY <3>3, <3>8 DEF SaveQuality, PublishManifest, SaveSnapshot,
                        SaveBacktest, SaveForecast, Save, Raise, world, Saving
    <3>9. CASE Publish(c)
      <4>1. /\ UNCHANGED <<weights, kind, positions, preview>>
            /\ \E p \in {"manifest", "exit_1", "snapshot"} : GoTo(c, p)
        BY <1>2, <3>1, <3>9 DEF Publish, world, Types
      <4> QED  BY <3>3, <4>1 DEF Saving
    <3>10. CASE SelectIntent(c) \/ InsertIntent(c) \/ Conflict(c)
      <4>1. pc[c] \in Saving
        BY <3>10 DEF SelectIntent, InsertIntent, Conflict, At, Saving
      <4> QED
        BY <3>3, <3>10, <4>1 DEF SelectIntent, InsertIntent, Conflict, AfterIntent, world
    <3>11. CASE Commit(c)
      <4>1. ExitCode(c) \in {"exit_0", "exit_1"}
        BY DEF ExitCode
      <4> QED  BY <3>3, <3>11, <4>1 DEF Commit, world, Saving
    <3> QED
      BY <2>2, <3>4, <3>5, <3>6, <3>7, <3>8, <3>9, <3>10, <3>11 DEF Step
  <2> QED  BY <1>2, <2>1, <2>2 DEF Next
<1>3. ColdInv => ColdStartPasses
  BY DEF ColdInv, ColdStartPasses, ExitCode, Saving
<1> QED  BY <1>1, <1>2, <1>3, Invariance, PTL DEF Spec
=============================================================================

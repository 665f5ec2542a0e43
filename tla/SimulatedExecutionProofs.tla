----------------------- MODULE SimulatedExecutionProofs -----------------------
(***************************************************************************)
(* What holds of SimulatedExecution for every set of calls, every set of   *)
(* previews, every number of active calls and every broker outcome.        *)
(***************************************************************************)
EXTENDS SimulatedExecution, FiniteSetTheorems, TLAPS

\* The current intent of a call in the loop is one of the client order ids.
LEMMA CurrentType ==
    ASSUME ServiceTypeOK, LoopInv, NEW k \in Calls, pc[k] \in InLoop
    PROVE  /\ Current(k) \in Cids
           /\ Len(outcomes[k]) + 1 \in DOMAIN preview[k].intents
           /\ preview[k] \in Previews
<1>1. preview[k] \in Previews \cup {NoPreview} /\ outcomes[k] \in Seq(IntentOutcome)
  BY DEF ServiceTypeOK
<1>2. Len(outcomes[k]) < Len(preview[k].intents)
  BY DEF LoopInv
<1>3. preview[k] # NoPreview
  BY <1>1, <1>2 DEF NoPreview
<1>4. preview[k].intents \in Seq(Cids)
  BY <1>1, <1>3, PreviewsAssumption DEF Preview
<1> QED
  BY <1>1, <1>2, <1>3, <1>4 DEF Current

\* RecordOrder adds an order of the right shape and touches no other.
LEMMA RecordOrderType ==
    ASSUME TypeOK, NEW c \in Cids, NEW o \in SubmitOutcome, NEW k \in Calls,
           RecordOrder(c, o, k)
    PROVE  /\ DOMAIN orders' = DOMAIN orders \cup {c}
           /\ orders' \in [DOMAIN orders' -> Order]
           /\ fills' \in Seq(Fill)
           /\ counter' \in Nat
<1>1. Quantity[c] \in Nat
  BY BrokerAssumption
<1>2. (Quantity[c] * FillNum) \div FillDen \in Nat
  <2>1. FillDen \in Nat \ {0} /\ FillNum \in Nat
    BY BrokerAssumption
  <2>2. Quantity[c] * FillNum \in Nat
    BY <1>1, <2>1
  <2> QED
    BY <2>1, <2>2
<1>3. FilledOf(c, o) \in Nat
  BY <1>1, <1>2 DEF FilledOf
<1>4. StatusOf(o) \in OrderStatus
  BY DEF StatusOf, OrderStatus
<1>5. counter \in Nat /\ fills \in Seq(Fill) /\ orders \in [DOMAIN orders -> Order]
  BY DEF TypeOK
<1> DEFINE new == [id |-> counter, status |-> StatusOf(o),
                   filled_quantity |-> FilledOf(c, o), placed_by |-> k]
           fill == [order_id |-> counter, client_order_id |-> c,
                    quantity |-> FilledOf(c, o)]
<1>6. new \in Order
  BY <1>3, <1>4, <1>5 DEF Order
<1>7. fill \in Fill
  BY <1>3, <1>5 DEF Fill
<1> HIDE DEF new, fill
<1>8. orders' = [d \in DOMAIN orders \cup {c} |-> IF d = c THEN new ELSE orders[d]]
  BY DEF RecordOrder, new
<1>9. DOMAIN orders' = DOMAIN orders \cup {c} /\ orders' \in [DOMAIN orders' -> Order]
  BY <1>5, <1>6, <1>8
<1>10. fills' = Append(fills, fill) \/ fills' = fills
  BY DEF RecordOrder, fill
<1>11. fills' \in Seq(Fill)
  BY <1>5, <1>7, <1>10
<1>12. counter' \in Nat
  BY <1>5 DEF RecordOrder
<1> QED
  BY <1>9, <1>11, <1>12

\* What a step of a call in its loop does: to the broker, and to the call.
BrokerPart(k) ==
    \/ UNCHANGED brokerVars
    \/ /\ Attempting(k)
       /\ ~Known(Current(k))
       /\ \E o \in SubmitOutcome : RecordOrder(Current(k), o, k)

TrueNow(c, status) ==
    /\ status \in {"submitted", "already_existed", "rejected"} =>
          c \in DOMAIN orders'
    /\ status = "rejected" => orders'[c].status = "rejected"

ServicePart(k) ==
    \/ \E place \in {"submit", "retry"} :
          GoTo(k, place) /\ ~Known(Current(k)) /\ UNCHANGED brokerVars
    \/ Attempting(k) /\ GoTo(k, "query")
    \/ \E status \in OutcomeStatus, counted \in BOOLEAN :
          Settle(k, status, counted) /\ TrueNow(Current(k), status)

\* Every step of the loop has that form: in particular an outcome is true
\* of the broker's orders as the step that reports it leaves them.
LEMMA LoopStep ==
    ASSUME TypeOK, NEW k \in Calls, Advance(k)
    PROVE  pc[k] \in InLoop /\ BrokerPart(k) /\ ServicePart(k)
<1> DEFINE c == Current(k)
<1>1. CASE Check(k)
  BY <1>1 DEF Check, CheckExisting, Known, InLoop, BrokerPart, ServicePart,
              TrueNow, OutcomeStatus, brokerVars
<1>2. CASE Query(k)
  BY <1>2 DEF Query, QueryAfterTimeout, Known, InLoop, BrokerPart, ServicePart,
              TrueNow, OutcomeStatus, brokerVars
<1>3. ASSUME NEW o \in Outcomes, Attempt(k, o)
      PROVE  pc[k] \in InLoop /\ BrokerPart(k) /\ ServicePart(k)
  <2>1. o \in SubmitOutcome
    BY BrokerAssumption
  <2>2. Attempting(k) /\ pc[k] \in InLoop
    BY <1>3 DEF Attempt, Attempting, InLoop
  <2>3. BrokerPart(k)
    BY <1>3, <2>1, <2>2 DEF Attempt, BrokerSubmit, BrokerPart
  <2>4. CASE BrokerReply(c, o) = "timeout"
    <3>1. TimedOut(k)
      BY <1>3, <2>4 DEF Attempt
    <3>2. ServicePart(k)
      BY <2>2, <3>1 DEF TimedOut, ServicePart, TrueNow, OutcomeStatus
    <3> QED
      BY <2>2, <2>3, <3>2
  <2>5. CASE BrokerReply(c, o) # "timeout"
    <3> DEFINE status == BrokerReply(c, o)
               outcome == OrderStatusToOutcome(status)
    <3>1. Settle(k, outcome, outcome = "submitted")
      BY <1>3, <2>5 DEF Attempt, Returned
    <3>2. outcome \in OutcomeStatus
      BY DEF OrderStatusToOutcome, OutcomeStatus
    <3>3. /\ c \in DOMAIN orders'
          /\ orders'[c].status = status
      <4>1. CASE Known(c)
        BY <1>3, <4>1 DEF Attempt, BrokerSubmit, BrokerReply, Known, brokerVars
      <4>2. CASE ~Known(c)
        <5>1. status = StatusOf(o) /\ RecordOrder(c, o, k)
          BY <1>3, <2>5, <4>2 DEF Attempt, BrokerSubmit, BrokerReply
        <5> QED
          BY <5>1 DEF RecordOrder
      <4> QED
        BY <4>1, <4>2
    <3>4. TrueNow(c, outcome)
      BY <3>3 DEF TrueNow, OrderStatusToOutcome
    <3> QED
      BY <2>2, <2>3, <3>1, <3>2, <3>4 DEF ServicePart
  <2> QED
    BY <2>2, <2>3, <2>4, <2>5
<1> QED
  BY <1>1, <1>2, <1>3 DEF Advance

\* The service's variables keep their types, and its loop invariant.
LEMMA SettleKeeps ==
    ASSUME ServiceTypeOK, LoopInv, NEW k \in Calls, pc[k] \in InLoop,
           NEW status \in OutcomeStatus, NEW counted \in BOOLEAN,
           Settle(k, status, counted)
    PROVE  /\ ServiceTypeOK'
           /\ LoopInv'
           /\ Len(outcomes'[k]) = Len(outcomes[k]) + 1
           /\ outcomes'[k] =
                 Append(outcomes[k], [client_order_id |-> Current(k), status |-> status])
           /\ \A j \in Calls \ {k} : outcomes'[j] = outcomes[j] /\ pc'[j] = pc[j]
           /\ pc'[k] \in {"check", "returned"}
<1> DEFINE new == [client_order_id |-> Current(k), status |-> status]
<1>1. /\ Current(k) \in Cids /\ preview[k] \in Previews
      /\ Len(outcomes[k]) + 1 \in DOMAIN preview[k].intents
  BY CurrentType
<1>2. new \in IntentOutcome
  BY <1>1 DEF IntentOutcome
<1>3. /\ outcomes \in [Calls -> Seq(IntentOutcome)]
      /\ pc \in [Calls -> Place]
      /\ submitted \in [Calls -> Nat]
  BY DEF ServiceTypeOK
<1> HIDE DEF new
<1>4. /\ outcomes' = [outcomes EXCEPT ![k] = Append(outcomes[k], new)]
      /\ preview' = preview
  BY DEF Settle, new
<1>5. /\ outcomes'[k] = Append(outcomes[k], new)
      /\ Append(outcomes[k], new) \in Seq(IntentOutcome)
      /\ Len(outcomes'[k]) = Len(outcomes[k]) + 1
      /\ \A j \in Calls \ {k} : outcomes'[j] = outcomes[j]
      /\ outcomes' \in [Calls -> Seq(IntentOutcome)]
  BY <1>2, <1>3, <1>4
<1>6. /\ pc'[k] = IF Len(outcomes[k]) + 1 = Len(preview[k].intents)
                  THEN "returned" ELSE "check"
      /\ pc' \in [Calls -> Place]
      /\ \A j \in Calls \ {k} : pc'[j] = pc[j]
  BY <1>3 DEF Settle, Place, InLoop
<1>7. submitted' \in [Calls -> Nat]
  BY <1>3 DEF Settle
<1>8. ServiceTypeOK'
  BY <1>4, <1>5, <1>6, <1>7 DEF ServiceTypeOK
<1>9. LoopInv'
  <2> SUFFICES ASSUME NEW j \in Calls
               PROVE  /\ Len(outcomes'[j]) <= Len(preview[j].intents)
                      /\ pc'[j] = "idle" => outcomes'[j] = <<>>
                      /\ pc'[j] \in InLoop =>
                            /\ ~Blocked(preview[j])
                            /\ Len(outcomes'[j]) < Len(preview[j].intents)
    BY <1>4 DEF LoopInv, Blocked
  <2>1. CASE j # k
    BY <2>1, <1>5, <1>6 DEF LoopInv
  <2>2. CASE j = k
    <3>1. preview[k].intents \in Seq(Cids)
      BY <1>1, PreviewsAssumption DEF Preview
    <3>2. ~Blocked(preview[k]) /\ Len(outcomes[k]) < Len(preview[k].intents)
      BY DEF LoopInv
    <3> QED
      BY <2>2, <1>3, <1>5, <1>6, <3>1, <3>2 DEF InLoop
  <2> QED
    BY <2>1, <2>2
<1> QED
  BY <1>5, <1>6, <1>8, <1>9 DEF new

\* Every step of Next is the start of a call, or a step of a call's loop.
LEMMA StepCases ==
    ASSUME TypeOK, Next
    PROVE  \E k \in Calls :
              \/ \E p \in Previews : Start(k, p)
              \/ pc[k] \in InLoop /\ BrokerPart(k) /\ ServicePart(k)
<1>1. PICK k \in Calls : (\E p \in Previews : Start(k, p)) \/ Advance(k)
  BY DEF Next
<1>2. CASE Advance(k)
  BY <1>2, LoopStep
<1> QED
  BY <1>1, <1>2

\* The broker's half of a step keeps the types and the at-most-once law.
LEMMA BrokerKeeps ==
    ASSUME TypeOK, LoopInv, AtMostOnce, NEW k \in Calls, pc[k] \in InLoop,
           BrokerPart(k)
    PROVE  /\ DOMAIN orders' \subseteq Cids
           /\ orders' \in [DOMAIN orders' -> Order]
           /\ fills' \in Seq(Fill)
           /\ counter' \in Nat
           /\ AtMostOnce'
           /\ DOMAIN orders \subseteq DOMAIN orders'
           /\ \A c \in DOMAIN orders : orders'[c] = orders[c]
<1>1. CASE UNCHANGED brokerVars
  BY <1>1 DEF brokerVars, TypeOK, AtMostOnce
<1>2. ASSUME ~Known(Current(k)), NEW o \in SubmitOutcome,
             RecordOrder(Current(k), o, k)
      PROVE  /\ DOMAIN orders' \subseteq Cids
             /\ orders' \in [DOMAIN orders' -> Order]
             /\ fills' \in Seq(Fill)
             /\ counter' \in Nat
             /\ AtMostOnce'
             /\ DOMAIN orders \subseteq DOMAIN orders'
             /\ \A c \in DOMAIN orders : orders'[c] = orders[c]
  <2> DEFINE cur == Current(k)
  <2>1. cur \in Cids
    BY CurrentType DEF TypeOK
  <2>2. /\ DOMAIN orders' = DOMAIN orders \cup {cur}
        /\ orders' \in [DOMAIN orders' -> Order]
        /\ fills' \in Seq(Fill)
        /\ counter' \in Nat
    BY <1>2, <2>1, RecordOrderType
  <2>3. /\ orders'[cur].id = counter
        /\ \A c \in DOMAIN orders : orders'[c] = orders[c]
        /\ counter' = counter + 1
        /\ cur \notin DOMAIN orders
    BY <1>2 DEF RecordOrder, Known
  <2>4. counter \in Nat /\ \A c \in DOMAIN orders : orders[c].id \in Nat
    BY DEF TypeOK, Order
  <2>5. \A c \in DOMAIN orders' : orders'[c].id < counter'
    BY <2>2, <2>3, <2>4 DEF AtMostOnce
  <2>6. ASSUME NEW n \in 0 .. counter' - 1
        PROVE  \E c \in DOMAIN orders' : orders'[c].id = n
    <3>1. CASE n = counter
      BY <3>1, <2>2, <2>3
    <3>2. CASE n \in 0 .. counter - 1
      <4>1. PICK c \in DOMAIN orders : orders[c].id = n
        BY <3>2 DEF AtMostOnce
      <4> QED
        BY <4>1, <2>2, <2>3
    <3> QED
      BY <3>1, <3>2, <2>3, <2>4
  <2>7. \A c, d \in DOMAIN orders' : orders'[c].id = orders'[d].id => c = d
    BY <2>2, <2>3, <2>4 DEF AtMostOnce
  <2> QED
    BY <2>1, <2>2, <2>3, <2>5, <2>6, <2>7 DEF AtMostOnce, TypeOK
<1> QED
  BY <1>1, <1>2 DEF BrokerPart
-----------------------------------------------------------------------------
LEMMA InitIndInv == Init => IndInv
<1> SUFFICES ASSUME Init PROVE IndInv
  OBVIOUS
<1>1. TypeOK
  BY DEF Init, ServiceInit, BrokerInit, TypeOK, ServiceTypeOK, Place, InLoop
<1>2. LoopInv
  BY DEF Init, ServiceInit, LoopInv, InLoop, NoPreview
<1>3. PlacedInv /\ AtMostOnce /\ OutcomesAreTrue
  BY DEF Init, ServiceInit, BrokerInit, PlacedInv, AtMostOnce, OutcomesAreTrue
<1> QED
  BY <1>1, <1>2, <1>3 DEF IndInv

\* The start of a call.
LEMMA StartKeeps ==
    ASSUME IndInv, NEW k \in Calls, NEW p \in Previews, Start(k, p)
    PROVE  IndInv'
<1>1. p \in Preview /\ p.intents \in Seq(Cids)
  BY PreviewsAssumption DEF Preview
<1>2. /\ outcomes \in [Calls -> Seq(IntentOutcome)]
      /\ pc \in [Calls -> Place]
      /\ preview \in [Calls -> Previews \cup {NoPreview}]
  BY DEF IndInv, TypeOK, ServiceTypeOK
<1>3. /\ pc[k] = "idle" /\ outcomes[k] = <<>>
      /\ preview' = [preview EXCEPT ![k] = p]
      /\ submitted' = submitted
      /\ UNCHANGED brokerVars
  <2>1. Submit(k, p) /\ UNCHANGED brokerVars
    BY DEF Start
  <2>2. pc[k] = "idle" => outcomes[k] = <<>>
    BY DEF IndInv, LoopInv
  <2>3. pc[k] = "idle" /\ preview' = [preview EXCEPT ![k] = p]
    BY <2>1 DEF Submit
  <2>4. submitted' = submitted
    BY <2>1 DEF Submit
  <2> QED
    BY <2>1, <2>2, <2>3, <2>4
<1> DEFINE refused == [i \in DOMAIN p.intents |->
                 [client_order_id |-> p.intents[i], status |-> "blocked"]]
<1>4. refused \in Seq(IntentOutcome) /\ Len(refused) = Len(p.intents)
  <2>1. DOMAIN p.intents = 1 .. Len(p.intents) /\ Len(p.intents) \in Nat
    BY <1>1
  <2>2. \A i \in DOMAIN p.intents : p.intents[i] \in Cids
    BY <1>1
  <2>3. \A i \in DOMAIN p.intents :
           [client_order_id |-> p.intents[i], status |-> "blocked"] \in IntentOutcome
    BY <2>2 DEF IntentOutcome, OutcomeStatus
  <2>4. refused \in [1 .. Len(p.intents) -> IntentOutcome]
    BY <2>1, <2>3
  <2> HIDE DEF refused
  <2>5. refused \in Seq(IntentOutcome)
    BY <2>1, <2>4
  <2>6. Len(refused) = Len(p.intents)
    BY <2>1, <2>4, <2>5
  <2> QED
    BY <2>5, <2>6
<1> HIDE DEF refused
<1>5. \/ /\ Blocked(p)
         /\ pc' = [pc EXCEPT ![k] = "returned"]
         /\ outcomes' = [outcomes EXCEPT ![k] = refused]
      \/ /\ ~Blocked(p)
         /\ p.intents = <<>>
         /\ pc' = [pc EXCEPT ![k] = "returned"]
         /\ outcomes' = outcomes
      \/ /\ ~Blocked(p)
         /\ p.intents # <<>>
         /\ pc' = [pc EXCEPT ![k] = "check"]
         /\ outcomes' = outcomes
  BY DEF Start, Submit, refused
<1>6. /\ \A j \in Calls \ {k} : /\ preview'[j] = preview[j]
                                /\ outcomes'[j] = outcomes[j]
                                /\ pc'[j] = pc[j]
      /\ preview'[k] = p
      /\ pc'[k] \in {"returned", "check"}
  BY <1>2, <1>3, <1>5
<1>7. TypeOK'
  <2>1. outcomes' \in [Calls -> Seq(IntentOutcome)]
    BY <1>2, <1>4, <1>5
  <2>2. pc' \in [Calls -> Place]
    BY <1>2, <1>5 DEF Place, InLoop
  <2>3. preview' \in [Calls -> Previews \cup {NoPreview}]
    BY <1>2, <1>3
  <2> QED
    BY <2>1, <2>2, <2>3, <1>3 DEF Start, IndInv, TypeOK, ServiceTypeOK, brokerVars
<1>8. LoopInv'
  <2> SUFFICES ASSUME NEW j \in Calls
               PROVE  /\ Len(outcomes'[j]) <= Len(preview'[j].intents)
                      /\ pc'[j] = "idle" => outcomes'[j] = <<>>
                      /\ pc'[j] \in InLoop =>
                            /\ ~Blocked(preview'[j])
                            /\ Len(outcomes'[j]) < Len(preview'[j].intents)
    BY DEF LoopInv, Blocked
  <2>1. CASE j # k
    BY <2>1, <1>6 DEF IndInv, LoopInv, Blocked
  <2>2. CASE j = k /\ Blocked(p)
    BY <2>2, <1>1, <1>2, <1>4, <1>5, <1>6 DEF InLoop
  <2>3. CASE j = k /\ ~Blocked(p)
    <3>1. outcomes'[j] = <<>>
      BY <2>3, <1>3, <1>5
    <3>2. Len(p.intents) \in Nat /\ (p.intents # <<>> => Len(p.intents) > 0)
      BY <1>1
    <3> QED
      BY <2>3, <3>1, <3>2, <1>2, <1>5, <1>6 DEF InLoop
  <2> QED
    BY <2>1, <2>2, <2>3
<1>9. PlacedInv'
  <2> SUFFICES ASSUME NEW c \in DOMAIN orders
               PROVE  LET j == orders[c].placed_by IN
                      /\ ~Blocked(preview'[j])
                      /\ pc'[j] # "idle"
                      /\ \E i \in DOMAIN preview'[j].intents :
                            /\ preview'[j].intents[i] = c
                            /\ \/ i <= Len(outcomes'[j])
                               \/ i = Len(outcomes'[j]) + 1 /\ pc'[j] = "query"
    BY <1>3 DEF PlacedInv, brokerVars, Blocked
  <2> DEFINE j == orders[c].placed_by
  <2>1. j \in Calls
    BY DEF IndInv, TypeOK, Order
  <2>2. j # k
    BY <1>3 DEF IndInv, PlacedInv
  <2>3. preview'[j] = preview[j] /\ outcomes'[j] = outcomes[j] /\ pc'[j] = pc[j]
    BY <1>6, <2>1, <2>2
  <2> QED
    BY <2>3 DEF IndInv, PlacedInv
<1>10. AtMostOnce'
  BY <1>3 DEF IndInv, AtMostOnce, brokerVars
<1>11. OutcomesAreTrue'
  <2> SUFFICES ASSUME NEW j \in Calls, NEW i \in DOMAIN outcomes'[j]
               PROVE  LET o == outcomes'[j][i] IN
                      /\ o.status \in {"submitted", "already_existed", "rejected"} =>
                            o.client_order_id \in DOMAIN orders
                      /\ o.status = "rejected" =>
                            orders[o.client_order_id].status = "rejected"
    BY <1>3 DEF OutcomesAreTrue, brokerVars
  <2>1. CASE outcomes'[j] = outcomes[j]
    BY <2>1 DEF IndInv, OutcomesAreTrue
  <2>2. CASE j = k /\ outcomes'[k] = refused
    BY <2>2 DEF refused
  <2> QED
    BY <2>1, <2>2, <1>2, <1>5, <1>6
<1> QED
  BY <1>7, <1>8, <1>9, <1>10, <1>11 DEF IndInv

\* A step of a call's loop.
LEMMA LoopKeeps ==
    ASSUME IndInv, NEW k \in Calls, pc[k] \in InLoop,
           BrokerPart(k), ServicePart(k), UNCHANGED shared
    PROVE  IndInv'
<1> USE DEF IndInv
<1>1. /\ DOMAIN orders' \subseteq Cids
      /\ orders' \in [DOMAIN orders' -> Order]
      /\ fills' \in Seq(Fill)
      /\ counter' \in Nat
      /\ AtMostOnce'
      /\ DOMAIN orders \subseteq DOMAIN orders'
      /\ \A c \in DOMAIN orders : orders'[c] = orders[c]
  BY BrokerKeeps
<1>2. /\ outcomes \in [Calls -> Seq(IntentOutcome)]
      /\ pc \in [Calls -> Place]
      /\ ServiceTypeOK
  BY DEF TypeOK, ServiceTypeOK
<1>3. /\ Current(k) \in Cids
      /\ Len(outcomes[k]) + 1 \in DOMAIN preview[k].intents
      /\ preview[k] \in Previews
  BY <1>2, CurrentType
\* The order a step adds is the call's current intent, at an attempt.
<1>4. ASSUME NEW c \in DOMAIN orders', c \notin DOMAIN orders
      PROVE  /\ Attempting(k)
             /\ c = Current(k)
             /\ orders'[c].placed_by = k
  <2>1. ~ UNCHANGED brokerVars
    BY <1>4 DEF brokerVars
  <2>2. PICK o \in SubmitOutcome : RecordOrder(Current(k), o, k)
    BY <2>1 DEF BrokerPart
  <2>3. Attempting(k)
    BY <2>1 DEF BrokerPart
  <2> QED
    BY <1>4, <2>2, <2>3 DEF RecordOrder
<1>5. preview' = preview /\ ~Blocked(preview[k])
  BY DEF ServicePart, GoTo, Settle, LoopInv
\* The current intent is at no earlier place of the preview.
<1>6. \A i \in DOMAIN preview[k].intents :
          preview[k].intents[i] = Current(k) => i = Len(outcomes[k]) + 1
  BY <1>3, PreviewsAssumption DEF IsInjective, Current
<1>7. ASSUME NEW place \in {"submit", "retry", "query"}, GoTo(k, place)
      PROVE  ServiceTypeOK' /\ LoopInv' /\ UNCHANGED <<preview, outcomes>>
             /\ pc'[k] = place /\ \A j \in Calls \ {k} : pc'[j] = pc[j]
  <2>1. /\ pc' = [pc EXCEPT ![k] = place]
        /\ UNCHANGED <<preview, outcomes, submitted>>
    BY <1>7 DEF GoTo
  <2>2. /\ pc' \in [Calls -> Place] /\ pc'[k] = place
        /\ \A j \in Calls \ {k} : pc'[j] = pc[j]
    BY <1>2, <2>1 DEF Place, InLoop
  <2>3. ServiceTypeOK'
    BY <1>2, <2>1, <2>2 DEF ServiceTypeOK
  <2>4. LoopInv'
    BY <2>1, <2>2 DEF LoopInv, InLoop, Blocked
  <2> QED
    BY <2>1, <2>2, <2>3, <2>4
\* Going to the query, or to an attempt for an intent without an order.
<1>8. ASSUME NEW place \in {"submit", "retry", "query"}, GoTo(k, place),
             \/ place = "query" /\ Attempting(k)
             \/ ~Known(Current(k)) /\ UNCHANGED brokerVars
      PROVE  IndInv'
  <2>1. PlacedInv'
    <3> SUFFICES ASSUME NEW c \in DOMAIN orders'
                 PROVE  LET j == orders'[c].placed_by IN
                        /\ ~Blocked(preview[j])
                        /\ pc'[j] # "idle"
                        /\ \E i \in DOMAIN preview[j].intents :
                              /\ preview[j].intents[i] = c
                              /\ \/ i <= Len(outcomes[j])
                                 \/ i = Len(outcomes[j]) + 1 /\ pc'[j] = "query"
      BY <1>7, <1>8 DEF PlacedInv, Blocked
    <3>1. CASE c \notin DOMAIN orders
      <4>1. place = "query" /\ c = Current(k) /\ orders'[c].placed_by = k
        BY <1>4, <1>8, <3>1 DEF brokerVars
      <4> QED
        BY <4>1, <1>3, <1>5, <1>7, <1>8 DEF Current
    <3>2. CASE c \in DOMAIN orders
      <4> DEFINE j == orders[c].placed_by
      <4>1. orders'[c].placed_by = j /\ j \in Calls
        BY <1>1, <3>2 DEF TypeOK, Order
      <4>2. PICK i \in DOMAIN preview[j].intents :
               /\ preview[j].intents[i] = c
               /\ \/ i <= Len(outcomes[j])
                  \/ i = Len(outcomes[j]) + 1 /\ pc[j] = "query"
        BY <3>2 DEF PlacedInv
      <4>3. ~Blocked(preview[j]) /\ pc[j] # "idle"
        BY <3>2 DEF PlacedInv
      <4>4. CASE j # k
        BY <4>1, <4>2, <4>3, <4>4, <1>7, <1>8
      <4>5. CASE j = k
        <5>1. pc'[k] = place /\ place # "idle"
          BY <1>7, <1>8
        <5>2. CASE i <= Len(outcomes[k])
          BY <4>1, <4>2, <4>3, <4>5, <5>1, <5>2
        <5>3. CASE i = Len(outcomes[k]) + 1 /\ pc[k] = "query"
          <6>1. c = Current(k)
            BY <4>2, <4>5, <5>3 DEF Current
          <6> QED
            BY <6>1, <5>3, <3>2, <1>8 DEF Attempting, Known
        <5> QED
          BY <5>2, <5>3, <4>2, <4>5
      <4> QED
        BY <4>4, <4>5
    <3> QED
      BY <3>1, <3>2
  <2>2. OutcomesAreTrue'
    BY <1>1, <1>7, <1>8 DEF OutcomesAreTrue
  <2> QED
    BY <2>1, <2>2, <1>1, <1>7, <1>8 DEF TypeOK
\* Giving the current intent an outcome that is true.
<1>9. ASSUME NEW status \in OutcomeStatus, NEW counted \in BOOLEAN,
             Settle(k, status, counted), TrueNow(Current(k), status)
      PROVE  IndInv'
  <2> DEFINE new == [client_order_id |-> Current(k), status |-> status]
  <2>1. /\ ServiceTypeOK'
        /\ LoopInv'
        /\ Len(outcomes'[k]) = Len(outcomes[k]) + 1
        /\ outcomes'[k] = Append(outcomes[k], new)
        /\ \A j \in Calls \ {k} : outcomes'[j] = outcomes[j] /\ pc'[j] = pc[j]
        /\ pc'[k] \in {"check", "returned"}
    BY <1>2, <1>9, SettleKeeps
  <2>2. PlacedInv'
    <3> SUFFICES ASSUME NEW c \in DOMAIN orders'
                 PROVE  LET j == orders'[c].placed_by IN
                        /\ ~Blocked(preview[j])
                        /\ pc'[j] # "idle"
                        /\ \E i \in DOMAIN preview[j].intents :
                              /\ preview[j].intents[i] = c
                              /\ \/ i <= Len(outcomes'[j])
                                 \/ i = Len(outcomes'[j]) + 1 /\ pc'[j] = "query"
      BY <1>5 DEF PlacedInv, Blocked
    <3>1. CASE c \notin DOMAIN orders
      <4>1. c = Current(k) /\ orders'[c].placed_by = k
        BY <1>4, <3>1
      <4> QED
        BY <4>1, <2>1, <1>2, <1>3, <1>5 DEF Current
    <3>2. CASE c \in DOMAIN orders
      <4> DEFINE j == orders[c].placed_by
      <4>1. orders'[c].placed_by = j /\ j \in Calls
        BY <1>1, <3>2 DEF TypeOK, Order
      <4>2. PICK i \in DOMAIN preview[j].intents :
               /\ preview[j].intents[i] = c
               /\ \/ i <= Len(outcomes[j])
                  \/ i = Len(outcomes[j]) + 1 /\ pc[j] = "query"
        BY <3>2 DEF PlacedInv
      <4>3. ~Blocked(preview[j]) /\ pc[j] # "idle"
        BY <3>2 DEF PlacedInv
      <4>4. CASE j # k
        BY <4>1, <4>2, <4>3, <4>4, <2>1
      <4>5. CASE j = k
        <5>1. Len(outcomes[k]) \in Nat /\ preview[k].intents \in Seq(Cids)
          BY <1>2, <1>3, PreviewsAssumption DEF Preview
        <5>2. i <= Len(outcomes'[k])
          BY <4>2, <4>5, <2>1, <5>1
        <5> QED
          BY <4>1, <4>2, <4>3, <4>5, <5>2, <2>1
      <4> QED
        BY <4>4, <4>5
    <3> QED
      BY <3>1, <3>2
  <2>3. OutcomesAreTrue'
    <3> SUFFICES ASSUME NEW j \in Calls, NEW i \in DOMAIN outcomes'[j]
                 PROVE  LET o == outcomes'[j][i] IN
                        /\ o.status \in {"submitted", "already_existed", "rejected"} =>
                              o.client_order_id \in DOMAIN orders'
                        /\ o.status = "rejected" =>
                              orders'[o.client_order_id].status = "rejected"
      BY DEF OutcomesAreTrue
    <3>1. CASE i \in DOMAIN outcomes[j] /\ outcomes'[j][i] = outcomes[j][i]
      BY <3>1, <1>1 DEF OutcomesAreTrue
    <3>2. CASE outcomes'[j][i] = new
      BY <3>2, <1>9 DEF TrueNow
    <3>3. CASE j # k
      BY <3>1, <3>3, <2>1
    <3>4. CASE j = k
      <4>1. outcomes[k] \in Seq(IntentOutcome)
        BY <1>2
      <4>2. \/ i \in DOMAIN outcomes[k] /\ outcomes'[k][i] = outcomes[k][i]
            \/ outcomes'[k][i] = new
        <5> HIDE DEF new
        <5> QED
          BY <3>4, <4>1, <2>1
      <4> QED
        BY <3>1, <3>2, <3>4, <4>2
    <3> QED
      BY <3>3, <3>4
  <2> QED
    BY <2>1, <2>2, <2>3, <1>1 DEF TypeOK
<1> QED
  BY <1>8, <1>9 DEF ServicePart
-----------------------------------------------------------------------------
(* Type correctness and the strengthening: every reachable state of the    *)
(* service over the simulated broker satisfies IndInv, however many calls  *)
(* share the broker and whatever each submission meets.                    *)
THEOREM Invariance == Spec => []IndInv
<1>1. IndInv /\ [Next]_vars => IndInv'
  <2> SUFFICES ASSUME IndInv, [Next]_vars PROVE IndInv'
    OBVIOUS
  <2>1. CASE Next
    <3>1. PICK k \in Calls :
             \/ \E p \in Previews : Start(k, p)
             \/ pc[k] \in InLoop /\ BrokerPart(k) /\ ServicePart(k)
      BY <2>1, StepCases DEF IndInv
    <3>2. UNCHANGED shared
      BY <2>1 DEF Next, Start, Advance
    <3> QED
      BY <3>1, <3>2, StartKeeps, LoopKeeps
  <2>2. CASE UNCHANGED vars
    BY <2>2 DEF vars, IndInv, TypeOK, ServiceTypeOK, LoopInv, PlacedInv,
                AtMostOnce, OutcomesAreTrue, Blocked
  <2> QED
    BY <2>1, <2>2
<1> QED
  BY InitIndInv, <1>1, PTL DEF Spec

(* The variables always have their types.                                  *)
THEOREM TypeCorrect == Spec => []TypeOK
<1>1. IndInv => TypeOK
  BY DEF IndInv
<1> QED
  BY <1>1, Invariance, PTL

(* No client order id is ever recorded twice: the promise of service.py's  *)
(* module documentation, for any number of calls.                          *)
THEOREM AtMostOnceCreation == Spec => []AtMostOnce
<1>1. IndInv => AtMostOnce
  BY DEF IndInv
<1> QED
  BY <1>1, Invariance, PTL

(* What a call reports of an order is so at the broker, for good.          *)
THEOREM TruthfulOutcomes == Spec => []OutcomesAreTrue
<1>1. IndInv => OutcomesAreTrue
  BY DEF IndInv
<1> QED
  BY <1>1, Invariance, PTL

(* The broker holds orders only for intents of unblocked previews.         *)
THEOREM BlockedIsInert == Spec => []OnlyUnblockedIntentsArePlaced
<1>1. IndInv => OnlyUnblockedIntentsArePlaced
  BY DEF IndInv, PlacedInv, OnlyUnblockedIntentsArePlaced, Range, Blocked
<1> QED
  BY <1>1, Invariance, PTL

(* A call about to send, or to resend, an order has not had that order     *)
(* recorded by an attempt of its own: a timeout never leads to a blind     *)
(* resubmission.                                                           *)
THEOREM NoBlindResubmission == Spec => []NeverResendsItsOwnOrder
<1>1. IndInv => NeverResendsItsOwnOrder
  <2> SUFFICES ASSUME IndInv, NEW k \in Calls, Attempting(k), Known(Current(k)),
                      orders[Current(k)].placed_by = k
               PROVE  FALSE
    BY DEF NeverResendsItsOwnOrder
  <2>1. pc[k] \in InLoop /\ pc[k] # "query"
    BY DEF Attempting, InLoop
  <2>2. /\ Len(outcomes[k]) + 1 \in DOMAIN preview[k].intents
        /\ preview[k] \in Previews
    BY <2>1, CurrentType DEF IndInv, TypeOK
  <2>3. PICK i \in DOMAIN preview[k].intents :
           preview[k].intents[i] = Current(k) /\ i <= Len(outcomes[k])
    BY <2>1 DEF IndInv, PlacedInv, Known
  <2>4. i = Len(outcomes[k]) + 1
    BY <2>2, <2>3, PreviewsAssumption DEF IsInjective, Current
  <2>5. Len(outcomes[k]) \in Nat
    BY DEF IndInv, TypeOK, ServiceTypeOK
  <2> QED
    BY <2>3, <2>4, <2>5
<1> QED
  BY <1>1, Invariance, PTL
-----------------------------------------------------------------------------
\* A fraction below one of a positive number, rounded down, is below it.
LEMMA PartIsLess ==
    ASSUME NEW q \in Nat \ {0}, NEW n \in Nat, NEW d \in Nat, n < d
    PROVE  (q * n) \div d \in Nat /\ (q * n) \div d < q
<1> DEFINE a == q * n
           r == a \div d
<1>1. a \in Nat /\ d \in Nat \ {0}
  OBVIOUS
<1> HIDE DEF a
<1>2. r \in Nat /\ d * r <= a
  BY <1>1
<1> HIDE DEF r
<1>3. a < d * q
  <2>1. d * q = q * n + q * (d - n)
    OBVIOUS
  <2>2. d - n >= 1 /\ d - n \in Nat
    OBVIOUS
  <2>3. \A x, y \in Nat : x >= 1 /\ y >= 1 => x * y >= 1
    OBVIOUS
  <2>4. q * (d - n) >= 1 /\ q * (d - n) \in Nat
    BY <2>2, <2>3
  <2> QED
    BY <2>1, <2>4 DEF a
<1>4. r < q
  <2> SUFFICES ASSUME r >= q PROVE FALSE
    BY <1>2
  <2>1. r - q \in Nat
    BY <1>2
  <2>2. \A x, y \in Nat : x * y \in Nat
    OBVIOUS
  <2>3. d * (r - q) \in Nat
    BY <2>1, <2>2
  <2>4. d * r = d * q + d * (r - q)
    BY <1>2
  <2>5. d * r \in Nat /\ d * q \in Nat
    BY <1>2, <2>2
  <2> QED
    BY <1>1, <1>2, <1>3, <2>3, <2>4, <2>5
<1> QED
  BY <1>2, <1>4 DEF r, a

\* What the status of a new order says of its fill.
LEMMA StatusMatchesFill ==
    ASSUME NEW c \in Cids, NEW o \in SubmitOutcome
    PROVE  /\ StatusOf(o) \in {"filled", "partially_filled"}
                 <=> o \in {"complete_fill", "partial_fill"}
           /\ StatusOf(o) = "filled" <=> FilledOf(c, o) = Quantity[c]
<1>1. Quantity[c] \in Nat \ {0}
  BY BrokerAssumption
<1>2. CASE o = "complete_fill"
  BY <1>2 DEF StatusOf, FilledOf
<1>3. CASE o = "partial_fill"
  <2>1. FilledOf(c, o) = (Quantity[c] * FillNum) \div FillDen
    BY <1>3 DEF FilledOf
  <2>2. FillNum \in Nat /\ FillDen \in Nat /\ FillNum < FillDen
    BY BrokerAssumption
  <2>3. FilledOf(c, o) < Quantity[c] /\ FilledOf(c, o) \in Nat
    BY <1>1, <2>1, <2>2, PartIsLess
  <2>4. StatusOf(o) = "partially_filled"
    BY <1>3 DEF StatusOf
  <2> QED
    BY <1>1, <1>3, <2>3, <2>4
<1>4. CASE o \notin {"complete_fill", "partial_fill"}
  BY <1>1, <1>4 DEF SubmitOutcome, StatusOf, FilledOf
<1> QED
  BY <1>2, <1>3, <1>4

\* Recording an order keeps the fills and the orders in agreement.
LEMMA RecordOrderMatches ==
    ASSUME TypeOK, AtMostOnce, FillsMatchOrders, NEW c \in Cids, ~Known(c),
           NEW o \in SubmitOutcome, NEW k \in Calls, RecordOrder(c, o, k)
    PROVE  FillsMatchOrders'
<1> DEFINE new == [order_id |-> counter, client_order_id |-> c,
                   quantity |-> FilledOf(c, o)]
           traded == o \in {"complete_fill", "partial_fill"}
<1>1. /\ DOMAIN orders' = DOMAIN orders \cup {c}
      /\ c \notin DOMAIN orders
      /\ orders'[c].id = counter /\ orders'[c].status = StatusOf(o)
      /\ orders'[c].filled_quantity = FilledOf(c, o)
      /\ \A d \in DOMAIN orders : orders'[d] = orders[d]
      /\ fills' = IF traded THEN Append(fills, new) ELSE fills
  BY DEF RecordOrder, Known
<1>2. fills \in Seq(Fill) /\ counter \in Nat
  BY DEF TypeOK
<1>3. /\ new.order_id = counter /\ new.client_order_id = c
      /\ new.quantity = FilledOf(c, o)
  OBVIOUS
<1> HIDE DEF new, traded
<1>4. /\ DOMAIN fills \subseteq DOMAIN fills'
      /\ \A i \in DOMAIN fills : fills'[i] = fills[i]
      /\ \A i \in DOMAIN fills' \ DOMAIN fills : traded /\ fills'[i] = new
      /\ \A i, j \in DOMAIN fills' \ DOMAIN fills : i = j
      /\ traded => \E i \in DOMAIN fills' : fills'[i] = new
  BY <1>1, <1>2
<1>5. ASSUME NEW i \in DOMAIN fills
      PROVE  /\ fills[i].client_order_id \in DOMAIN orders
             /\ fills[i].order_id = orders[fills[i].client_order_id].id
             /\ fills[i].quantity = orders[fills[i].client_order_id].filled_quantity
             /\ fills[i].order_id # counter /\ fills[i].client_order_id # c
  <2>1. /\ fills[i].client_order_id \in DOMAIN orders
        /\ fills[i].order_id = orders[fills[i].client_order_id].id
        /\ fills[i].quantity = orders[fills[i].client_order_id].filled_quantity
    BY <1>5 DEF FillsMatchOrders
  <2>2. orders[fills[i].client_order_id].id < counter
    BY <2>1 DEF AtMostOnce
  <2>3. orders[fills[i].client_order_id].id \in Nat
    BY <2>1 DEF TypeOK, Order
  <2> QED
    BY <1>1, <1>2, <2>1, <2>2, <2>3
<1>6. ASSUME NEW i \in DOMAIN fills'
      PROVE  /\ fills'[i].client_order_id \in DOMAIN orders'
             /\ fills'[i].order_id = orders'[fills'[i].client_order_id].id
             /\ fills'[i].quantity = orders'[fills'[i].client_order_id].filled_quantity
  <2>1. CASE i \in DOMAIN fills
    BY <2>1, <1>1, <1>4, <1>5
  <2>2. CASE i \notin DOMAIN fills
    BY <2>2, <1>1, <1>3, <1>4
  <2> QED
    BY <2>1, <2>2
<1>7. ASSUME NEW i \in DOMAIN fills', NEW j \in DOMAIN fills',
             fills'[i].order_id = fills'[j].order_id
      PROVE  i = j
  <2>1. CASE i \in DOMAIN fills /\ j \in DOMAIN fills
    BY <2>1, <1>4, <1>7 DEF FillsMatchOrders
  <2>2. CASE i \notin DOMAIN fills \/ j \notin DOMAIN fills
    BY <2>2, <1>3, <1>4, <1>5, <1>7
  <2> QED
    BY <2>1, <2>2
<1>8. ASSUME NEW d \in DOMAIN orders'
      PROVE  /\ orders'[d].status \in {"filled", "partially_filled"} <=>
                   \E i \in DOMAIN fills' : fills'[i].client_order_id = d
             /\ orders'[d].status = "filled" <=>
                   orders'[d].filled_quantity = Quantity[d]
  <2>1. CASE d = c
    <3>1. (\E i \in DOMAIN fills' : fills'[i].client_order_id = c) <=> traded
      BY <1>3, <1>4, <1>5
    <3> QED
      BY <2>1, <3>1, <1>1, StatusMatchesFill DEF traded
  <2>2. CASE d # c
    <3>1. d \in DOMAIN orders /\ orders'[d] = orders[d]
      BY <2>2, <1>1
    <3>2. (\E i \in DOMAIN fills' : fills'[i].client_order_id = d)
              <=> \E i \in DOMAIN fills : fills[i].client_order_id = d
      BY <2>2, <1>3, <1>4
    <3> QED
      BY <3>1, <3>2 DEF FillsMatchOrders
  <2> QED
    BY <2>1, <2>2
<1> QED
  BY <1>6, <1>7, <1>8 DEF FillsMatchOrders

(* The broker's fills and orders tell the same story, whatever is          *)
(* submitted in whatever order, and whatever part a partial fill is.       *)
THEOREM FillsTellTheOrders == Spec => []FillsMatchOrders
<1>1. Init => FillsMatchOrders
  BY DEF Init, BrokerInit, FillsMatchOrders
<1>2. IndInv /\ FillsMatchOrders /\ [Next]_vars => FillsMatchOrders'
  <2> SUFFICES ASSUME IndInv, FillsMatchOrders, [Next]_vars
               PROVE  FillsMatchOrders'
    OBVIOUS
  <2>1. ASSUME UNCHANGED brokerVars
        PROVE  FillsMatchOrders'
    BY <2>1 DEF brokerVars, FillsMatchOrders
  <2>2. CASE Next
    <3>1. PICK k \in Calls :
             \/ \E p \in Previews : Start(k, p)
             \/ pc[k] \in InLoop /\ BrokerPart(k) /\ ServicePart(k)
      BY <2>2, StepCases DEF IndInv
    <3>2. ASSUME pc[k] \in InLoop, ~Known(Current(k)), NEW o \in SubmitOutcome,
                 RecordOrder(Current(k), o, k)
          PROVE  FillsMatchOrders'
      <4>1. Current(k) \in Cids
        BY <3>2, CurrentType DEF IndInv, TypeOK
      <4> QED
        BY <3>2, <4>1, RecordOrderMatches DEF IndInv
    <3> QED
      BY <2>1, <3>1, <3>2 DEF Start, BrokerPart
  <2>3. CASE UNCHANGED vars
    BY <2>1, <2>3 DEF vars, brokerVars
  <2> QED
    BY <2>2, <2>3
<1> QED
  BY <1>1, <1>2, Invariance, PTL DEF Spec
-----------------------------------------------------------------------------
\* What a step of a call adds to its result: nothing, or one outcome, counted
\* iff it says that the order is at the broker.
CountedPart(k) ==
    \/ \E place \in {"submit", "query", "retry"} : GoTo(k, place)
    \/ \E status \in OutcomeStatus :
          Settle(k, status, status \in {"submitted", "already_existed"})

LEMMA CountedStep ==
    ASSUME NEW k \in Calls, Advance(k)
    PROVE  CountedPart(k)
<1>1. CASE Check(k)
  BY <1>1 DEF Check, CheckExisting, CountedPart, OutcomeStatus
<1>2. CASE Query(k)
  BY <1>2 DEF Query, QueryAfterTimeout, CountedPart, OutcomeStatus
<1>3. ASSUME NEW o \in Outcomes, Attempt(k, o)
      PROVE  CountedPart(k)
  <2> DEFINE outcome == OrderStatusToOutcome(BrokerReply(Current(k), o))
  <2>1. CASE TimedOut(k)
    <3>1. ("timeout_failed" \in {"submitted", "already_existed"}) = FALSE
      OBVIOUS
    <3>2. GoTo(k, "query") \/ Settle(k, "timeout_failed", FALSE)
      BY <2>1 DEF TimedOut
    <3>3. Settle(k, "timeout_failed", FALSE) <=>
             Settle(k, "timeout_failed",
                    "timeout_failed" \in {"submitted", "already_existed"})
      BY <3>1
    <3> QED
      BY <3>2, <3>3 DEF CountedPart, OutcomeStatus
  <2>2. CASE Returned(k, BrokerReply(Current(k), o))
    <3>1. Settle(k, outcome, outcome = "submitted")
      BY <2>2 DEF Returned
    <3>2. outcome \in {"rejected", "submitted"}
      BY DEF OrderStatusToOutcome
    <3> HIDE DEF outcome
    <3>3. (outcome = "submitted") = (outcome \in {"submitted", "already_existed"})
      BY <3>2
    <3> QED
      BY <3>1, <3>2, <3>3 DEF CountedPart, OutcomeStatus
  <2> QED
    BY <1>3, <2>1, <2>2 DEF Attempt
<1> QED
  BY <1>1, <1>2, <1>3 DEF Advance

\* The outcomes among f that say that the order is at the broker.
Sure(f) == {i \in DOMAIN f : f[i].status \in {"submitted", "already_existed"}}

\* One further outcome is counted as it should be.
LEMMA ConfirmedAfterAppend ==
    ASSUME NEW f \in Seq(IntentOutcome), NEW o \in IntentOutcome
    PROVE  /\ Cardinality(Sure(f)) \in Nat
           /\ Cardinality(Sure(Append(f, o)))
                = IF o.status \in {"submitted", "already_existed"}
                  THEN Cardinality(Sure(f)) + 1 ELSE Cardinality(Sure(f))
<1> DEFINE sure(x) == x.status \in {"submitted", "already_existed"}
           S == {i \in DOMAIN f : sure(f[i])}
           g == Append(f, o)
           T == {i \in DOMAIN g : sure(g[i])}
           n == Len(f) + 1
<1>1. /\ DOMAIN g = DOMAIN f \cup {n} /\ n \notin DOMAIN f /\ g[n] = o
      /\ \A i \in DOMAIN f : g[i] = f[i]
      /\ DOMAIN f = 1 .. Len(f) /\ Len(f) \in Nat
  OBVIOUS
<1>2. IsFiniteSet(S)
  <2>1. IsFiniteSet(DOMAIN f)
    BY <1>1, FS_Interval
  <2> QED
    BY <2>1, FS_Subset
<1>3. Cardinality(S) \in Nat
  BY <1>2, FS_CardinalityType
<1> HIDE DEF sure, g
<1>4. T = IF sure(o) THEN S \cup {n} ELSE S
  BY <1>1
<1>5. Cardinality(S \cup {n}) = Cardinality(S) + 1
  BY <1>1, <1>2, FS_AddElement
<1> QED
  BY <1>3, <1>4, <1>5 DEF sure, g, Sure

\* The start of a call leaves every result complete.
LEMMA StartCounts ==
    ASSUME IndInv, ResultIsComplete, NEW k \in Calls, NEW p \in Previews, Start(k, p)
    PROVE  ResultIsComplete'
<1> DEFINE refused == [i \in DOMAIN p.intents |->
                [client_order_id |-> p.intents[i], status |-> "blocked"]]
<1>1. /\ pc[k] = "idle" /\ outcomes[k] = <<>>
      /\ pc \in [Calls -> Place] /\ outcomes \in [Calls -> Seq(IntentOutcome)]
      /\ preview \in [Calls -> Previews \cup {NoPreview}]
      /\ p.intents \in Seq(Cids)
  BY PreviewsAssumption DEF Start, Submit, IndInv, LoopInv, TypeOK, ServiceTypeOK, Preview
<1>2. /\ submitted' = submitted /\ preview' = [preview EXCEPT ![k] = p]
      /\ \/ /\ outcomes' = [outcomes EXCEPT ![k] = refused]
            /\ pc' = [pc EXCEPT ![k] = "returned"]
         \/ /\ outcomes' = outcomes
            /\ pc' = [pc EXCEPT ![k] = IF p.intents = <<>> THEN "returned" ELSE "check"]
  BY DEF Start, Submit
<1>3. submitted[k] = 0
  <2>1. ConfirmedOutcomes(k) = {}
    BY <1>1 DEF ConfirmedOutcomes
  <2> QED
    BY <2>1, FS_EmptySet DEF ResultIsComplete
<1>4. /\ \A j \in Calls \ {k} : /\ pc'[j] = pc[j] /\ preview'[j] = preview[j]
                                /\ outcomes'[j] = outcomes[j]
      /\ preview'[k] = p
      /\ \/ outcomes'[k] = refused /\ pc'[k] = "returned"
         \/ /\ outcomes'[k] = <<>>
            /\ pc'[k] = IF p.intents = <<>> THEN "returned" ELSE "check"
  BY <1>1, <1>2
<1>5. /\ DOMAIN refused = DOMAIN p.intents
      /\ \A i \in DOMAIN refused : /\ refused[i].client_order_id = p.intents[i]
                                   /\ refused[i].status = "blocked"
      /\ Len(refused) = Len(p.intents)
  <2>1. DOMAIN p.intents = 1 .. Len(p.intents) /\ Len(p.intents) \in Nat
    BY <1>1
  <2>2. /\ DOMAIN refused = DOMAIN p.intents
        /\ \A i \in DOMAIN refused : /\ refused[i].client_order_id = p.intents[i]
                                     /\ refused[i].status = "blocked"
    OBVIOUS
  <2> DEFINE Records == {refused[i] : i \in 1 .. Len(p.intents)}
  <2>3. refused = [i \in DOMAIN refused |-> refused[i]]
    OBVIOUS
  <2> HIDE DEF refused
  <2>4. refused \in [1 .. Len(p.intents) -> Records]
    BY <2>1, <2>2, <2>3
  <2>5. refused \in Seq(Records)
    BY <2>1, <2>4
  <2>6. Len(refused) = Len(p.intents)
    BY <2>1, <2>4, <2>5
  <2> QED
    BY <2>2, <2>6
<1> HIDE DEF refused
<1>6. ASSUME NEW j \in Calls
      PROVE  /\ \A i \in DOMAIN outcomes'[j] :
                    outcomes'[j][i].client_order_id = preview'[j].intents[i]
             /\ pc'[j] = "returned" => Len(outcomes'[j]) = Len(preview'[j].intents)
             /\ submitted'[j] = Cardinality(ConfirmedOutcomes(j)')
  <2>1. CASE j # k
    <3>1. ConfirmedOutcomes(j)' = ConfirmedOutcomes(j)
      BY <2>1, <1>4 DEF ConfirmedOutcomes
    <3> QED
      BY <2>1, <3>1, <1>2, <1>4 DEF ResultIsComplete
  <2>2. CASE j = k
    <3>1. ConfirmedOutcomes(k)' = {}
      BY <1>4, <1>5 DEF ConfirmedOutcomes
    <3>2. submitted'[k] = Cardinality(ConfirmedOutcomes(k)')
      BY <3>1, <1>2, <1>3, FS_EmptySet
    <3> QED
      BY <2>2, <3>2, <1>4, <1>5
  <2> QED
    BY <2>1, <2>2
<1> QED
  BY <1>6 DEF ResultIsComplete

\* So does a step of a call that has started.
LEMMA LoopCounts ==
    ASSUME IndInv, ResultIsComplete, NEW k \in Calls, pc[k] \in InLoop, CountedPart(k)
    PROVE  ResultIsComplete'
<1>1. /\ pc \in [Calls -> Place] /\ outcomes \in [Calls -> Seq(IntentOutcome)]
      /\ submitted \in [Calls -> Nat] /\ ServiceTypeOK /\ LoopInv
  BY DEF IndInv, TypeOK, ServiceTypeOK
<1>2. ASSUME NEW place \in {"submit", "query", "retry"}, GoTo(k, place)
      PROVE  ResultIsComplete'
  <2>1. /\ preview' = preview /\ outcomes' = outcomes /\ submitted' = submitted
        /\ pc' = [pc EXCEPT ![k] = place]
    BY <1>2 DEF GoTo
  <2>2. \A j \in Calls : ConfirmedOutcomes(j)' = ConfirmedOutcomes(j)
    BY <2>1 DEF ConfirmedOutcomes
  <2>3. \A j \in Calls : pc'[j] = "returned" => pc[j] = "returned"
    BY <1>1, <2>1
  <2> QED
    BY <2>1, <2>2, <2>3 DEF ResultIsComplete
<1>3. ASSUME NEW status \in OutcomeStatus,
             Settle(k, status, status \in {"submitted", "already_existed"})
      PROVE  ResultIsComplete'
  <2> DEFINE sure == status \in {"submitted", "already_existed"}
             new == [client_order_id |-> Current(k), status |-> status]
  <2>0. sure \in BOOLEAN /\ Settle(k, status, sure)
    BY <1>3
  <2> HIDE DEF sure
  <2>1. /\ outcomes'[k] = Append(outcomes[k], new)
        /\ \A j \in Calls \ {k} : outcomes'[j] = outcomes[j] /\ pc'[j] = pc[j]
    BY <1>1, <2>0, SettleKeeps
  <2>2. /\ preview' = preview
        /\ submitted' = [submitted EXCEPT ![k] = IF sure THEN @ + 1 ELSE @]
        /\ pc'[k] = "returned" => Len(outcomes[k]) + 1 = Len(preview[k].intents)
    BY <1>1, <2>0 DEF Settle
  <2>3. new \in IntentOutcome
    BY <1>1, CurrentType DEF IntentOutcome
  <2>4. ASSUME NEW j \in Calls
        PROVE  /\ \A i \in DOMAIN outcomes'[j] :
                      outcomes'[j][i].client_order_id = preview'[j].intents[i]
               /\ pc'[j] = "returned" => Len(outcomes'[j]) = Len(preview'[j].intents)
               /\ submitted'[j] = Cardinality(ConfirmedOutcomes(j)')
    <3>1. CASE j # k
      <4>1. ConfirmedOutcomes(j)' = ConfirmedOutcomes(j)
        BY <3>1, <2>1 DEF ConfirmedOutcomes
      <4> QED
        BY <3>1, <4>1, <1>1, <2>1, <2>2 DEF ResultIsComplete
    <3>2. CASE j = k
      <4>1. new.client_order_id = preview[k].intents[Len(outcomes[k]) + 1]
        BY DEF Current
      <4>2. new.status = status
        OBVIOUS
      <4> HIDE DEF new
      <4>3. /\ DOMAIN outcomes'[k] = DOMAIN outcomes[k] \cup {Len(outcomes[k]) + 1}
            /\ outcomes'[k][Len(outcomes[k]) + 1] = new
            /\ \A i \in DOMAIN outcomes[k] : outcomes'[k][i] = outcomes[k][i]
            /\ Len(outcomes'[k]) = Len(outcomes[k]) + 1
        BY <1>1, <2>1, <2>3
      <4>4. \A i \in DOMAIN outcomes'[k] :
                outcomes'[k][i].client_order_id = preview'[k].intents[i]
        BY <2>2, <4>1, <4>3 DEF ResultIsComplete
      <4>5. submitted'[k] = Cardinality(ConfirmedOutcomes(k)')
        <5>1. /\ Cardinality(ConfirmedOutcomes(k)) \in Nat
              /\ Cardinality(ConfirmedOutcomes(k)')
                   = IF sure THEN Cardinality(ConfirmedOutcomes(k)) + 1
                             ELSE Cardinality(ConfirmedOutcomes(k))
          <6>1. /\ ConfirmedOutcomes(k) = Sure(outcomes[k])
                /\ ConfirmedOutcomes(k)' = Sure(outcomes'[k])
            BY DEF ConfirmedOutcomes, Sure
          <6>2. outcomes[k] \in Seq(IntentOutcome)
            BY <1>1
          <6>3. /\ Cardinality(Sure(outcomes[k])) \in Nat
                /\ Cardinality(Sure(Append(outcomes[k], new)))
                     = IF new.status \in {"submitted", "already_existed"}
                       THEN Cardinality(Sure(outcomes[k])) + 1
                       ELSE Cardinality(Sure(outcomes[k]))
            BY <2>3, <6>2, ConfirmedAfterAppend
          <6> QED
            BY <2>1, <4>2, <6>1, <6>3 DEF sure
        <5>2. submitted[k] = Cardinality(ConfirmedOutcomes(k))
          BY DEF ResultIsComplete
        <5> QED
          BY <1>1, <2>2, <5>1, <5>2
      <4> QED
        BY <3>2, <2>2, <4>3, <4>4, <4>5
    <3> QED
      BY <3>1, <3>2
  <2> QED
    BY <2>4 DEF ResultIsComplete
<1> QED
  BY <1>2, <1>3 DEF CountedPart

(* A SubmitResult names the preview's intents in order, all of them when   *)
(* submit returns, and counts those it reports as at the broker.           *)
THEOREM ResultsAreComplete == Spec => []ResultIsComplete
<1>1. Init => ResultIsComplete
  <2> SUFFICES ASSUME Init PROVE ResultIsComplete
    OBVIOUS
  <2>1. \A k \in Calls : ConfirmedOutcomes(k) = {}
    BY DEF Init, ServiceInit, ConfirmedOutcomes
  <2>2. \A k \in Calls : outcomes[k] = <<>> /\ submitted[k] = 0 /\ pc[k] = "idle"
    BY DEF Init, ServiceInit
  <2>3. \A k \in Calls : submitted[k] = Cardinality(ConfirmedOutcomes(k))
    BY <2>1, <2>2, FS_EmptySet
  <2> QED
    BY <2>2, <2>3 DEF ResultIsComplete
<1>2. IndInv /\ ResultIsComplete /\ [Next]_vars => ResultIsComplete'
  <2> SUFFICES ASSUME IndInv, ResultIsComplete, [Next]_vars
               PROVE  ResultIsComplete'
    OBVIOUS
  <2>1. CASE Next
    <3>1. PICK k \in Calls : (\E p \in Previews : Start(k, p)) \/ Advance(k)
      BY <2>1 DEF Next
    <3>2. CASE Advance(k)
      BY <3>2, LoopStep, CountedStep, LoopCounts DEF IndInv
    <3> QED
      BY <3>1, <3>2, StartCounts
  <2>2. CASE UNCHANGED vars
    <3>1. \A k \in Calls : ConfirmedOutcomes(k)' = ConfirmedOutcomes(k)
      BY <2>2 DEF vars, ConfirmedOutcomes
    <3> QED
      BY <2>2, <3>1 DEF vars, ResultIsComplete
  <2> QED
    BY <2>1, <2>2
<1> QED
  BY <1>1, <1>2, Invariance, PTL DEF Spec
-----------------------------------------------------------------------------
(* What the call that placed an order says of it.                          *)
ReportInv ==
    \A c \in DOMAIN orders : LET k == orders[c].placed_by IN
        /\ \A i \in DOMAIN outcomes[k] : outcomes[k][i].client_order_id = c =>
               Reports(outcomes[k][i].status, orders[c].status)
        /\ pc[k] = "query" /\ preview[k].intents[Len(outcomes[k]) + 1] = c =>
               orders[c].status = "new"

\* The outcomes a call has are of other intents than the one it is at.
LEMMA DoneIsNotCurrent ==
    ASSUME IndInv, ResultIsComplete, NEW k \in Calls, pc[k] \in InLoop,
           NEW i \in DOMAIN outcomes[k]
    PROVE  outcomes[k][i].client_order_id # Current(k)
<1>1. /\ Len(outcomes[k]) + 1 \in DOMAIN preview[k].intents
      /\ preview[k] \in Previews /\ outcomes[k] \in Seq(IntentOutcome)
  BY CurrentType DEF IndInv, TypeOK, ServiceTypeOK
<1>2. IsInjective(preview[k].intents) /\ preview[k].intents \in Seq(Cids)
  BY <1>1, PreviewsAssumption DEF Preview
<1>3. i \in DOMAIN preview[k].intents /\ i # Len(outcomes[k]) + 1
  BY <1>1, <1>2
<1>4. outcomes[k][i].client_order_id = preview[k].intents[i]
  BY DEF ResultIsComplete
<1> QED
  BY <1>1, <1>2, <1>3, <1>4 DEF IsInjective, Current

\* The order of the current intent, if the call itself placed it, was recorded
\* by the attempt whose timeout the call now asks about.
LEMMA OwnIsQueried ==
    ASSUME IndInv, NEW k \in Calls, pc[k] \in InLoop, Known(Current(k)),
           orders[Current(k)].placed_by = k
    PROVE  pc[k] = "query"
<1>1. /\ Len(outcomes[k]) + 1 \in DOMAIN preview[k].intents
      /\ preview[k] \in Previews /\ outcomes[k] \in Seq(IntentOutcome)
  BY CurrentType DEF IndInv, TypeOK, ServiceTypeOK
<1>2. PICK i \in DOMAIN preview[k].intents :
         /\ preview[k].intents[i] = Current(k)
         /\ \/ i <= Len(outcomes[k])
            \/ i = Len(outcomes[k]) + 1 /\ pc[k] = "query"
  BY DEF IndInv, PlacedInv, Known
<1>3. i = Len(outcomes[k]) + 1
  BY <1>1, <1>2, PreviewsAssumption DEF IsInjective, Current
<1> QED
  BY <1>1, <1>2, <1>3

\* The order a step adds is the call's own, of its current intent.
LEMMA AddsCurrent ==
    ASSUME NEW k \in Calls, BrokerPart(k), NEW c \in DOMAIN orders', c \notin DOMAIN orders
    PROVE  c = Current(k) /\ orders'[c].placed_by = k
<1>1. ~ UNCHANGED brokerVars
  BY DEF brokerVars
<1>2. PICK o \in SubmitOutcome : RecordOrder(Current(k), o, k)
  BY <1>1 DEF BrokerPart
<1> QED
  BY <1>2 DEF RecordOrder

\* A step that leaves the orders and adds no outcome.
LEMMA GoToReports ==
    ASSUME IndInv, ResultIsComplete, ReportInv, NEW k \in Calls, pc[k] \in InLoop,
           BrokerPart(k), NEW place \in {"submit", "query", "retry"}, GoTo(k, place),
           \/ place # "query" /\ UNCHANGED orders
           \/ /\ Attempting(k)
              /\ Current(k) \in DOMAIN orders' /\ Current(k) \notin DOMAIN orders =>
                    orders'[Current(k)].status = "new"
    PROVE  ReportInv'
<1>1. /\ pc \in [Calls -> Place] /\ DOMAIN orders \subseteq DOMAIN orders'
      /\ \A c \in DOMAIN orders : orders'[c] = orders[c] /\ orders[c].placed_by \in Calls
  BY BrokerKeeps DEF IndInv, TypeOK, ServiceTypeOK, Order
<1>2. /\ preview' = preview /\ outcomes' = outcomes
      /\ pc'[k] = place /\ \A j \in Calls \ {k} : pc'[j] = pc[j]
  BY <1>1 DEF GoTo
<1>4. ASSUME NEW c \in DOMAIN orders', c \notin DOMAIN orders
      PROVE  c = Current(k) /\ orders'[c].placed_by = k
  BY <1>4, AddsCurrent
<1>5. ASSUME NEW c \in DOMAIN orders'
      PROVE  LET j == orders'[c].placed_by IN
             /\ \A i \in DOMAIN outcomes[j] : outcomes[j][i].client_order_id = c =>
                    Reports(outcomes[j][i].status, orders'[c].status)
             /\ pc'[j] = "query" /\ preview'[j].intents[Len(outcomes'[j]) + 1] = c =>
                    orders'[c].status = "new"
  <2>1. CASE c \notin DOMAIN orders
    <3>1. c = Current(k) /\ orders'[c].placed_by = k
      BY <1>4, <2>1
    <3>2. \A i \in DOMAIN outcomes[k] : outcomes[k][i].client_order_id # c
      BY <3>1, DoneIsNotCurrent
    <3>3. orders'[c].status = "new"
      BY <2>1, <3>1
    <3> QED
      BY <3>1, <3>2, <3>3
  <2>2. CASE c \in DOMAIN orders
    <3> DEFINE j == orders[c].placed_by
    <3>1. orders'[c] = orders[c] /\ j \in Calls
      BY <1>1, <2>2
    <3>2. \A i \in DOMAIN outcomes[j] : outcomes[j][i].client_order_id = c =>
             Reports(outcomes[j][i].status, orders[c].status)
      BY <2>2 DEF ReportInv
    <3>3. ASSUME pc'[j] = "query", preview'[j].intents[Len(outcomes'[j]) + 1] = c
          PROVE  orders[c].status = "new"
      <4>1. CASE pc[j] = "query"
        BY <1>2, <2>2, <3>1, <3>3, <4>1 DEF ReportInv
      <4>2. CASE pc[j] # "query"
        <5>1. j = k /\ place = "query" /\ Attempting(k)
          BY <1>2, <3>1, <3>3, <4>2
        <5> QED
          BY <1>2, <2>2, <3>1, <3>3, <4>2, <5>1, OwnIsQueried DEF Known, Current
      <4> QED
        BY <4>1, <4>2
    <3> QED
      BY <3>1, <3>2, <3>3
  <2> QED
    BY <2>1, <2>2
<1> QED
  BY <1>2, <1>5 DEF ReportInv

\* A step that settles the current intent, truly for an order of the call's own.
LEMMA SettleReports ==
    ASSUME IndInv, ResultIsComplete, ReportInv, NEW k \in Calls, pc[k] \in InLoop,
           BrokerPart(k), NEW status \in OutcomeStatus, NEW counted \in BOOLEAN,
           Settle(k, status, counted),
           /\ Current(k) \in DOMAIN orders' /\ orders'[Current(k)].placed_by = k
           /\ Current(k) \in DOMAIN orders => pc[k] = "query"
           => Reports(status, orders'[Current(k)].status)
    PROVE  ReportInv'
<1> DEFINE new == [client_order_id |-> Current(k), status |-> status]
<1>1. /\ DOMAIN orders \subseteq DOMAIN orders'
      /\ \A c \in DOMAIN orders : orders'[c] = orders[c] /\ orders[c].placed_by \in Calls
      /\ outcomes \in [Calls -> Seq(IntentOutcome)]
  BY BrokerKeeps DEF IndInv, TypeOK, ServiceTypeOK, Order
<1>2. /\ outcomes'[k] = Append(outcomes[k], new)
      /\ \A j \in Calls \ {k} : outcomes'[j] = outcomes[j] /\ pc'[j] = pc[j]
      /\ pc'[k] \in {"check", "returned"} /\ preview' = preview
  BY SettleKeeps DEF IndInv, TypeOK, Settle
<1>3. \A i \in DOMAIN outcomes'[k] :
         \/ i \in DOMAIN outcomes[k] /\ outcomes'[k][i] = outcomes[k][i]
         \/ outcomes'[k][i] = new
  <2>1. outcomes[k] \in Seq(IntentOutcome)
    BY <1>1
  <2> HIDE DEF new
  <2> QED
    BY <1>2, <2>1
<1>4. ASSUME NEW c \in DOMAIN orders', c \notin DOMAIN orders
      PROVE  c = Current(k) /\ orders'[c].placed_by = k
  BY <1>4, AddsCurrent
<1>5. ASSUME NEW c \in DOMAIN orders'
      PROVE  LET j == orders'[c].placed_by IN
             /\ \A i \in DOMAIN outcomes'[j] : outcomes'[j][i].client_order_id = c =>
                    Reports(outcomes'[j][i].status, orders'[c].status)
             /\ pc'[j] = "query" /\ preview'[j].intents[Len(outcomes'[j]) + 1] = c =>
                    orders'[c].status = "new"
  <2>1. CASE c \notin DOMAIN orders
    <3>1. c = Current(k) /\ orders'[c].placed_by = k
      BY <1>4, <2>1
    <3>2. \A i \in DOMAIN outcomes[k] : outcomes[k][i].client_order_id # c
      BY <3>1, DoneIsNotCurrent
    <3>3. Reports(status, orders'[c].status)
      BY <2>1, <3>1
    <3> QED
      BY <1>2, <1>3, <3>1, <3>2, <3>3
  <2>2. CASE c \in DOMAIN orders
    <3> DEFINE j == orders[c].placed_by
    <3>1. orders'[c] = orders[c] /\ j \in Calls
      BY <1>1, <2>2
    <3>2. \A i \in DOMAIN outcomes[j] : outcomes[j][i].client_order_id = c =>
             Reports(outcomes[j][i].status, orders[c].status)
      BY <2>2 DEF ReportInv
    <3>3. CASE j # k
      <4>1. outcomes'[j] = outcomes[j] /\ pc'[j] = pc[j] /\ preview'[j] = preview[j]
        BY <1>2, <3>1, <3>3
      <4> QED
        BY <2>2, <3>1, <3>2, <4>1 DEF ReportInv
    <3>4. CASE j = k
      <4>1. c = Current(k) => Reports(status, orders[c].status)
        BY <2>2, <3>1, <3>4, OwnIsQueried DEF Known
      <4> QED
        BY <1>2, <1>3, <3>1, <3>2, <3>4, <4>1
    <3> QED
      BY <3>3, <3>4
  <2> QED
    BY <2>1, <2>2
<1> QED
  BY <1>5 DEF ReportInv

\* The start of a call: no order is its own yet.
LEMMA StartReports ==
    ASSUME IndInv, ReportInv, NEW k \in Calls, NEW p \in Previews, Start(k, p)
    PROVE  ReportInv'
<1>1. /\ pc[k] = "idle" /\ UNCHANGED orders
      /\ \A j \in Calls \ {k} :
            pc'[j] = pc[j] /\ outcomes'[j] = outcomes[j] /\ preview'[j] = preview[j]
  BY DEF Start, Submit, IndInv, TypeOK, ServiceTypeOK, brokerVars
<1>2. ASSUME NEW c \in DOMAIN orders
      PROVE  orders[c].placed_by \in Calls \ {k}
  BY <1>1 DEF IndInv, PlacedInv, TypeOK, Order
<1> QED
  BY <1>1, <1>2 DEF ReportInv

(* When a call returns, each order it placed has an outcome that tells the *)
(* order's state: live, rejected, or hidden by the retry's timeout         *)
(* (service.py:10-26, :417-460).                                           *)
THEOREM EveryOrderIsReported == Spec => []OrdersAreReported
<1>1. Init => ReportInv
  BY DEF Init, BrokerInit, ReportInv
<1>2. ASSUME IndInv, ResultIsComplete, ReportInv, NEW k \in Calls, Advance(k)
      PROVE  ReportInv'
  <2> DEFINE c == Current(k)
  <2>1. pc[k] \in InLoop /\ BrokerPart(k)
    BY <1>2, LoopStep DEF IndInv
  <2>2. CASE Check(k)
    <3>1. orders' = orders /\ pc[k] = "check"
      BY <2>2 DEF Check, CheckExisting, brokerVars
    <3>2. CASE Known(c)
      BY <1>2, <2>1, <2>2, <3>1, <3>2, SettleReports
         DEF Check, CheckExisting, Known, OutcomeStatus
    <3>3. CASE ~Known(c)
      BY <1>2, <2>1, <2>2, <3>1, <3>3, GoToReports DEF Check, CheckExisting
    <3> QED
      BY <3>2, <3>3
  <2>3. CASE Query(k)
    <3>1. orders' = orders /\ pc[k] = "query"
      BY <2>3 DEF Query, QueryAfterTimeout, brokerVars
    <3>2. CASE Known(c)
      <4>1. Settle(k, "submitted", TRUE)
        BY <2>3, <3>2 DEF Query, QueryAfterTimeout
      <4>2. CASE orders[c].placed_by = k
        <5>1. orders[c].status = "new"
          BY <1>2, <3>1, <3>2, <4>2 DEF ReportInv, Known, Current
        <5> QED
          BY <1>2, <2>1, <3>1, <4>1, <5>1, SettleReports DEF Reports, OutcomeStatus
      <4>3. CASE orders[c].placed_by # k
        BY <1>2, <2>1, <3>1, <4>1, <4>3, SettleReports DEF OutcomeStatus
      <4> QED
        BY <4>2, <4>3
    <3>3. CASE ~Known(c)
      BY <1>2, <2>1, <2>3, <3>1, <3>3, GoToReports DEF Query, QueryAfterTimeout
    <3> QED
      BY <3>2, <3>3
  <2>4. ASSUME NEW o \in Outcomes, Attempt(k, o)
        PROVE  ReportInv'
    <3>1. Attempting(k) /\ o \in SubmitOutcome /\ pc[k] # "query"
      BY <2>4, BrokerAssumption DEF Attempt, Attempting
    <3>2. ASSUME c \in DOMAIN orders', c \notin DOMAIN orders
          PROVE  orders'[c].status = StatusOf(o)
      BY <2>4, <3>2 DEF Attempt, BrokerSubmit, RecordOrder, brokerVars
    <3>3. CASE BrokerReply(c, o) = "timeout"
      <4>1. TimedOut(k)
        BY <2>4, <3>3 DEF Attempt
      <4>2. c \notin DOMAIN orders => o \in {"timeout_before", "timeout_after"}
        BY <3>1, <3>3 DEF BrokerReply, StatusOf, Known, SubmitOutcome
      <4>3. c \in DOMAIN orders' /\ c \notin DOMAIN orders => orders'[c].status = "new"
        BY <3>2, <4>2 DEF StatusOf
      <4>4. CASE pc[k] = "submit"
        BY <1>2, <2>1, <3>1, <4>1, <4>3, <4>4, GoToReports DEF TimedOut
      <4>5. CASE pc[k] = "retry"
        BY <1>2, <2>1, <3>1, <4>1, <4>3, <4>5, SettleReports
           DEF TimedOut, OutcomeStatus, Reports
      <4> QED
        BY <3>1, <4>4, <4>5 DEF Attempting
    <3>4. CASE BrokerReply(c, o) # "timeout"
      <4> DEFINE outcome == OrderStatusToOutcome(BrokerReply(c, o))
      <4>1. Settle(k, outcome, outcome = "submitted") /\ outcome \in OutcomeStatus
        BY <2>4, <3>4 DEF Attempt, Returned, OrderStatusToOutcome, OutcomeStatus
      <4>2. c \in DOMAIN orders' /\ c \notin DOMAIN orders =>
               Reports(outcome, orders'[c].status)
        BY <3>2, <3>4 DEF BrokerReply, Known, OrderStatusToOutcome, Reports
      <4> HIDE DEF outcome
      <4> QED
        BY <1>2, <2>1, <3>1, <4>1, <4>2, SettleReports
    <3> QED
      BY <3>3, <3>4
  <2> QED
    BY <1>2, <2>2, <2>3, <2>4 DEF Advance
<1>3. IndInv /\ ResultIsComplete /\ ReportInv /\ [Next]_vars => ReportInv'
  <2> SUFFICES ASSUME IndInv, ResultIsComplete, ReportInv, [Next]_vars PROVE ReportInv'
    OBVIOUS
  <2>1. CASE Next
    BY <2>1, <1>2, StartReports DEF Next
  <2>2. CASE UNCHANGED vars
    BY <2>2 DEF vars, ReportInv
  <2> QED
    BY <2>1, <2>2
<1>4. ASSUME IndInv, ResultIsComplete, ReportInv PROVE OrdersAreReported
  <2> SUFFICES ASSUME NEW c \in DOMAIN orders, pc[orders[c].placed_by] = "returned"
               PROVE  \E i \in DOMAIN outcomes[orders[c].placed_by] :
                         LET o == outcomes[orders[c].placed_by][i] IN
                         o.client_order_id = c /\ Reports(o.status, orders[c].status)
    BY DEF OrdersAreReported
  <2> DEFINE k == orders[c].placed_by
  <2>1. k \in Calls /\ outcomes[k] \in Seq(IntentOutcome)
    BY <1>4 DEF IndInv, TypeOK, ServiceTypeOK, Order
  <2>2. PICK i \in DOMAIN preview[k].intents :
           preview[k].intents[i] = c /\ i <= Len(outcomes[k])
    BY <1>4 DEF IndInv, PlacedInv
  <2>3. preview[k] \in Previews \cup {NoPreview}
    BY <1>4, <2>1 DEF IndInv, TypeOK, ServiceTypeOK
  <2>4. preview[k].intents \in Seq(Cids)
    BY <2>3, PreviewsAssumption DEF Preview, NoPreview
  <2>5. i \in DOMAIN outcomes[k]
    BY <2>1, <2>2, <2>4
  <2>6. outcomes[k][i].client_order_id = c
    BY <1>4, <2>1, <2>2, <2>5 DEF ResultIsComplete
  <2> QED
    BY <1>4, <2>5, <2>6 DEF ReportInv
<1> QED
  BY <1>1, <1>3, <1>4, Invariance, ResultsAreComplete, PTL DEF Spec
-----------------------------------------------------------------------------
(* The calls do not overlap.  What is strengthened: at most one call is in *)
(* its loop, and an order that it finds after a timeout is live.           *)
Live == {"new", "partially_filled", "filled"}

AloneInv == \A j, k \in Calls : pc[j] \in InLoop /\ pc[k] \in InLoop => j = k

FoundInv ==
    \A k \in Calls : pc[k] = "query" /\ Known(Current(k)) =>
                         orders[Current(k)].status \in Live

ExactInv == shared \/ (AloneInv /\ FoundInv /\ ExactWithoutOverlap)

\* The start of a call when no other is in progress.
LEMMA StartExact ==
    ASSUME IndInv, ExactInv, NEW k \in Calls, NEW p \in Previews, Start(k, p)
    PROVE  ExactInv'
<1> SUFFICES ASSUME ~shared PROVE (AloneInv /\ FoundInv /\ ExactWithoutOverlap)'
  BY DEF ExactInv, Start
<1>1. /\ \A j \in Calls : pc[j] \notin InLoop
      /\ pc[k] = "idle" /\ outcomes[k] = <<>> /\ pc \in [Calls -> Place]
      /\ outcomes \in [Calls -> Seq(IntentOutcome)] /\ orders' = orders
  BY DEF Start, Submit, Active, IndInv, LoopInv, TypeOK, ServiceTypeOK, brokerVars
<1>2. /\ pc' \in [Calls -> Place]
      /\ \A j \in Calls \ {k} : pc'[j] = pc[j] /\ outcomes'[j] = outcomes[j]
      /\ pc'[k] \in {"returned", "check"}
      /\ \A i \in DOMAIN outcomes'[k] : outcomes'[k][i].status = "blocked"
  <2>1. /\ \E place \in {"returned", "check"} : pc' = [pc EXCEPT ![k] = place]
        /\ \E f : /\ outcomes' = [outcomes EXCEPT ![k] = f]
                  /\ \A i \in DOMAIN f : f[i].status = "blocked"
    <3> DEFINE refused == [i \in DOMAIN p.intents |->
                     [client_order_id |-> p.intents[i], status |-> "blocked"]]
    <3>1. \/ /\ pc' = [pc EXCEPT ![k] = "returned"]
             /\ outcomes' = [outcomes EXCEPT ![k] = refused]
          \/ /\ pc' = [pc EXCEPT ![k] =
                            IF p.intents = <<>> THEN "returned" ELSE "check"]
             /\ outcomes' = [outcomes EXCEPT ![k] = <<>>]
      BY <1>1 DEF Start, Submit
    <3>2. /\ \A i \in DOMAIN refused : refused[i].status = "blocked"
          /\ \A i \in DOMAIN <<>> : <<>>[i].status = "blocked"
      OBVIOUS
    <3> HIDE DEF refused
    <3>3. \E place \in {"returned", "check"} : pc' = [pc EXCEPT ![k] = place]
      <4>1. CASE p.intents = <<>>
        BY <3>1, <4>1
      <4>2. CASE p.intents # <<>>
        BY <3>1, <4>2
      <4> QED
        BY <4>1, <4>2
    <3> QED
      BY <3>1, <3>2, <3>3
  <2>2. PICK f : /\ outcomes' = [outcomes EXCEPT ![k] = f]
                 /\ \A i \in DOMAIN f : f[i].status = "blocked"
    BY <2>1
  <2>3. outcomes'[k] = f /\ \A j \in Calls \ {k} : outcomes'[j] = outcomes[j]
    BY <1>1, <2>2
  <2>4. /\ pc' \in [Calls -> Place]
        /\ \A j \in Calls \ {k} : pc'[j] = pc[j]
        /\ pc'[k] \in {"returned", "check"}
    BY <1>1, <2>1 DEF Place, InLoop
  <2> QED
    BY <2>2, <2>3, <2>4
<1>3. AloneInv' /\ FoundInv'
  BY <1>1, <1>2 DEF AloneInv, FoundInv, InLoop
<1>4. ExactWithoutOverlap'
  BY <1>1, <1>2 DEF ExactInv, ExactWithoutOverlap, Attempting, InLoop
<1> QED
  BY <1>3, <1>4

\* A step of the one call in progress, to another place in its loop.
LEMMA GoToExact ==
    ASSUME IndInv, ExactInv, ~shared, NEW k \in Calls, pc[k] \in InLoop,
           BrokerPart(k), NEW place \in {"submit", "query", "retry"}, GoTo(k, place),
           place # "query" => Current(k) \notin DOMAIN orders',
           place = "query" /\ Current(k) \in DOMAIN orders'
               => orders'[Current(k)].status \in Live
    PROVE  ExactInv'
<1>1. /\ pc \in [Calls -> Place] /\ AloneInv /\ ExactWithoutOverlap
      /\ DOMAIN orders \subseteq DOMAIN orders'
      /\ \A c \in DOMAIN orders : orders'[c] = orders[c]
  BY BrokerKeeps DEF IndInv, TypeOK, ServiceTypeOK, ExactInv
<1>2. /\ preview' = preview /\ outcomes' = outcomes
      /\ pc'[k] = place /\ \A j \in Calls \ {k} : pc'[j] = pc[j] /\ pc[j] \notin InLoop
  BY <1>1 DEF GoTo, AloneInv
<1>3. Current(k)' = Current(k)
  BY <1>2 DEF Current
<1>4. AloneInv' /\ FoundInv'
  BY <1>2, <1>3 DEF AloneInv, FoundInv, InLoop, Known
<1>5. ASSUME NEW j \in Calls
      PROVE  /\ Attempting(j)' => ~Known(Current(j))'
             /\ \A i \in DOMAIN outcomes'[j] : outcomes'[j][i].status = "submitted"
                    => orders'[outcomes'[j][i].client_order_id].status \in Live
  <2>1. Attempting(j)' => ~Known(Current(j))'
    BY <1>2, <1>3 DEF Attempting, Known, InLoop
  <2>2. ASSUME NEW i \in DOMAIN outcomes[j], outcomes[j][i].status = "submitted"
        PROVE  orders'[outcomes[j][i].client_order_id].status \in Live
    <3>1. orders[outcomes[j][i].client_order_id].status \in Live
      BY <1>1, <2>2 DEF ExactWithoutOverlap, Live
    <3>2. outcomes[j][i].client_order_id \in DOMAIN orders
      BY <2>2 DEF IndInv, OutcomesAreTrue
    <3> QED
      BY <1>1, <3>1, <3>2
  <2> QED
    BY <1>2, <2>1, <2>2
<1> QED
  BY <1>4, <1>5 DEF ExactInv, ExactWithoutOverlap, Live

\* Its step to the next intent, with an outcome.
LEMMA SettleExact ==
    ASSUME IndInv, ExactInv, ~shared, NEW k \in Calls, pc[k] \in InLoop,
           BrokerPart(k), NEW status \in OutcomeStatus, NEW counted \in BOOLEAN,
           Settle(k, status, counted),
           status = "submitted" => orders'[Current(k)].status \in Live
    PROVE  ExactInv'
<1> DEFINE new == [client_order_id |-> Current(k), status |-> status]
<1>1. /\ AloneInv /\ ExactWithoutOverlap
      /\ \A c \in DOMAIN orders : orders'[c] = orders[c]
      /\ outcomes \in [Calls -> Seq(IntentOutcome)]
  BY BrokerKeeps DEF IndInv, TypeOK, ServiceTypeOK, ExactInv
<1>2. /\ outcomes'[k] = Append(outcomes[k], new)
      /\ \A j \in Calls \ {k} : /\ outcomes'[j] = outcomes[j] /\ pc'[j] = pc[j]
                                /\ pc[j] \notin InLoop
      /\ pc'[k] \in {"check", "returned"}
  BY <1>1, SettleKeeps DEF IndInv, TypeOK, AloneInv
<1>3. AloneInv' /\ FoundInv' /\ \A j \in Calls : ~Attempting(j)'
  BY <1>2 DEF AloneInv, FoundInv, InLoop, Attempting
<1>4. ASSUME NEW j \in Calls, NEW i \in DOMAIN outcomes'[j],
             outcomes'[j][i].status = "submitted"
      PROVE  orders'[outcomes'[j][i].client_order_id].status \in Live
  <2>1. CASE i \in DOMAIN outcomes[j] /\ outcomes'[j][i] = outcomes[j][i]
    <3>1. orders[outcomes[j][i].client_order_id].status \in Live
      BY <1>1, <1>4, <2>1 DEF ExactWithoutOverlap, Live
    <3>2. outcomes[j][i].client_order_id \in DOMAIN orders
      BY <1>4, <2>1 DEF IndInv, OutcomesAreTrue
    <3> QED
      BY <1>1, <2>1, <3>1, <3>2
  <2>2. CASE outcomes'[j][i] = new
    BY <2>2, <1>4
  <2>3. \/ i \in DOMAIN outcomes[j] /\ outcomes'[j][i] = outcomes[j][i]
        \/ outcomes'[j][i] = new
    <3> HIDE DEF new
    <3>1. outcomes[k] \in Seq(IntentOutcome)
      BY <1>1
    <3>2. CASE j = k
      BY <3>1, <3>2, <1>2
    <3>3. CASE j # k
      BY <3>3, <1>2
    <3> QED
      BY <3>2, <3>3
  <2> QED
    BY <2>1, <2>2, <2>3
<1> QED
  BY <1>3, <1>4 DEF ExactInv, ExactWithoutOverlap, Live

(* Where no two calls overlap, the service never sends the broker an order *)
(* it holds, and "submitted" names an order that is live.                  *)
THEOREM ExactnessWithoutOverlap == Spec => []ExactWithoutOverlap
<1>1. Init => ExactInv
  BY DEF Init, ServiceInit, BrokerInit, ExactInv, AloneInv, FoundInv,
         ExactWithoutOverlap, InLoop, Attempting
<1>2. ASSUME IndInv, ExactInv, NEW k \in Calls, Advance(k)
      PROVE  ExactInv'
  <2> SUFFICES ASSUME ~shared PROVE ExactInv'
    BY <1>2 DEF ExactInv, Advance
  <2> DEFINE c == Current(k)
  <2>1. pc[k] \in InLoop /\ BrokerPart(k)
    BY <1>2, LoopStep DEF IndInv
  <2>2. CASE Check(k)
    <3>1. brokerVars' = brokerVars
      BY <2>2 DEF Check
    <3>2. CASE Known(c)
      BY <1>2, <2>1, <2>2, <3>2, SettleExact DEF Check, CheckExisting, OutcomeStatus
    <3>3. CASE ~Known(c)
      BY <1>2, <2>1, <2>2, <3>1, <3>3, GoToExact
         DEF Check, CheckExisting, Known, brokerVars
    <3> QED
      BY <3>2, <3>3
  <2>3. CASE Query(k)
    <3>1. brokerVars' = brokerVars /\ pc[k] = "query"
      BY <2>3 DEF Query, QueryAfterTimeout
    <3>2. CASE Known(c)
      <4>1. orders'[c].status \in Live
        BY <1>2, <3>1, <3>2 DEF ExactInv, FoundInv, brokerVars
      <4> QED
        BY <1>2, <2>1, <2>3, <3>2, <4>1, SettleExact
           DEF Query, QueryAfterTimeout, OutcomeStatus
    <3>3. CASE ~Known(c)
      BY <1>2, <2>1, <2>3, <3>1, <3>3, GoToExact
         DEF Query, QueryAfterTimeout, Known, brokerVars
    <3> QED
      BY <3>2, <3>3
  <2>4. ASSUME NEW o \in Outcomes, Attempt(k, o)
        PROVE  ExactInv'
    <3>1. Attempting(k) /\ ~Known(c) /\ o \in SubmitOutcome
      BY <1>2, <2>4, BrokerAssumption DEF Attempt, ExactInv, ExactWithoutOverlap
    <3>2. CASE BrokerReply(c, o) = "timeout"
      <4>1. TimedOut(k) /\ o \in {"timeout_before", "timeout_after"}
        BY <2>4, <3>1, <3>2 DEF Attempt, BrokerReply, StatusOf
      <4>2. c \in DOMAIN orders' => orders'[c].status = "new"
        BY <2>4, <3>1, <4>1 DEF Attempt, BrokerSubmit, RecordOrder, StatusOf,
                                Known, brokerVars
      <4>3. CASE pc[k] = "submit"
        BY <1>2, <2>1, <4>1, <4>2, <4>3, GoToExact DEF TimedOut, Live
      <4>4. CASE pc[k] = "retry"
        BY <1>2, <2>1, <4>1, <4>4, SettleExact DEF TimedOut, OutcomeStatus
      <4> QED
        BY <3>1, <4>3, <4>4 DEF Attempting
    <3>3. CASE BrokerReply(c, o) # "timeout"
      <4> DEFINE status == StatusOf(o)
                 outcome == OrderStatusToOutcome(status)
      <4>1. /\ BrokerReply(c, o) = status /\ RecordOrder(c, o, k)
            /\ Returned(k, status)
        BY <2>4, <3>1, <3>3 DEF Attempt, BrokerReply, BrokerSubmit
      <4>2. Settle(k, outcome, outcome = "submitted") /\ outcome \in OutcomeStatus
        BY <4>1 DEF Returned, OrderStatusToOutcome, OutcomeStatus
      <4>3. outcome = "submitted" => orders'[c].status \in Live
        BY <4>1 DEF RecordOrder, OrderStatusToOutcome, StatusOf, Live
      <4> HIDE DEF outcome
      <4> QED
        BY <1>2, <2>1, <4>2, <4>3, SettleExact
    <3> QED
      BY <3>2, <3>3
  <2> QED
    BY <1>2, <2>2, <2>3, <2>4 DEF Advance
<1>3. IndInv /\ ExactInv /\ [Next]_vars => ExactInv'
  <2> SUFFICES ASSUME IndInv, ExactInv, [Next]_vars PROVE ExactInv'
    OBVIOUS
  <2>1. CASE Next
    BY <2>1, <1>2, StartExact DEF Next
  <2>2. CASE UNCHANGED vars
    BY <2>2 DEF vars, ExactInv, AloneInv, FoundInv, ExactWithoutOverlap, Known,
                Current, Attempting
  <2> QED
    BY <2>1, <2>2
<1>4. ExactInv => ExactWithoutOverlap
  BY DEF ExactInv, ExactWithoutOverlap
<1> QED
  BY <1>1, <1>3, <1>4, Invariance, PTL DEF Spec
-----------------------------------------------------------------------------
\* The answers of a call that gets one more outcome.
LEMMA AnswersAfterSettle ==
    ASSUME IndInv, NEW k \in Calls, pc[k] \in InLoop,
           NEW status \in OutcomeStatus, NEW counted \in BOOLEAN,
           Settle(k, status, counted)
    PROVE  answersBar' = [answersBar EXCEPT ![k] = @ \cup
              {AnswerOf([client_order_id |-> Current(k), status |-> status])}]
<1> DEFINE new == [client_order_id |-> Current(k), status |-> status]
<1>1. /\ outcomes'[k] = Append(outcomes[k], new)
      /\ \A j \in Calls \ {k} : outcomes'[j] = outcomes[j]
  BY SettleKeeps DEF IndInv, TypeOK
<1>2. outcomes[k] \in Seq(IntentOutcome)
  BY DEF IndInv, TypeOK, ServiceTypeOK
<1> HIDE DEF new
<1>3. /\ DOMAIN outcomes'[k] = DOMAIN outcomes[k] \cup {Len(outcomes[k]) + 1}
      /\ \A i \in DOMAIN outcomes[k] : outcomes'[k][i] = outcomes[k][i]
      /\ outcomes'[k][Len(outcomes[k]) + 1] = new
  BY <1>1, <1>2
<1>4. {AnswerOf(outcomes'[k][i]) : i \in DOMAIN outcomes'[k]}
         = {AnswerOf(outcomes[k][i]) : i \in DOMAIN outcomes[k]} \cup {AnswerOf(new)}
  BY <1>3
<1> QED
  BY <1>1, <1>4 DEF answersBar, new

(* The service over the simulated broker implements the order ledger: at   *)
(* most one order per intent, and no untrue answer.                        *)
THEOREM ImplementsLedger == Spec => KeepsLedger
<1>1. Init => Ledger!Init
  BY DEF Init, ServiceInit, BrokerInit, Ledger!Init, ledgerBar, rejectedBar,
         answersBar, Known
<1>2. ASSUME IndInv, IndInv', Next
      PROVE  Ledger!Next
  <2>1. PICK k \in Calls :
           \/ \E p \in Previews : Start(k, p)
           \/ pc[k] \in InLoop /\ BrokerPart(k) /\ ServicePart(k)
    BY <1>2, StepCases DEF IndInv
  <2>2. ASSUME UNCHANGED brokerVars
        PROVE  UNCHANGED <<ledgerBar, rejectedBar>>
    BY <2>2 DEF brokerVars, ledgerBar, rejectedBar, Known
  <2>3. (Ledger!Place \/ UNCHANGED <<ledgerBar, rejectedBar>>)
    <3>1. ASSUME pc[k] \in InLoop, ~Known(Current(k)), NEW o \in SubmitOutcome,
                 RecordOrder(Current(k), o, k)
          PROVE  Ledger!Place
      <4> DEFINE c == Current(k)
      <4>1. c \in Cids
        BY <1>2, <3>1, CurrentType DEF IndInv, TypeOK
      <4>2. /\ DOMAIN orders' = DOMAIN orders \cup {c}
            /\ orders'[c].id = counter
            /\ \A d \in DOMAIN orders : orders'[d] = orders[d]
        BY <3>1 DEF RecordOrder, Known
      <4>3. ledgerBar[c] = {} /\ ledgerBar'[c] = {counter}
        BY <3>1, <4>1, <4>2 DEF ledgerBar, Known
      <4>4. \A d \in Cids : counter \notin ledgerBar[d]
        BY <1>2 DEF ledgerBar, Known, IndInv, AtMostOnce, TypeOK, Order
      <4>5. ledgerBar' = [ledgerBar EXCEPT ![c] = {counter}]
        BY <4>1, <4>2 DEF ledgerBar, Known
      <4>6. rejectedBar' \in {rejectedBar, rejectedBar \cup {c}}
        BY <3>1, <4>2 DEF rejectedBar, Known
      <4> QED
        BY <4>1, <4>3, <4>4, <4>5, <4>6 DEF Ledger!Place
    <3> QED
      BY <2>1, <2>2, <3>1 DEF Start, BrokerPart
  <2>4. (Ledger!Reply \/ UNCHANGED answersBar)
    <3>1. ASSUME NEW p \in Previews, Start(k, p)
          PROVE  Ledger!Reply \/ UNCHANGED answersBar
      <4>1. outcomes[k] = <<>> /\ outcomes \in [Calls -> Seq(IntentOutcome)]
        BY <1>2, <3>1 DEF Start, Submit, IndInv, LoopInv, TypeOK, ServiceTypeOK
      <4> DEFINE refused == [i \in DOMAIN p.intents |->
                       [client_order_id |-> p.intents[i], status |-> "blocked"]]
      <4>2. outcomes' = outcomes \/ outcomes' = [outcomes EXCEPT ![k] = refused]
        BY <3>1 DEF Start, Submit
      <4>3. CASE outcomes' = outcomes
        BY <4>3 DEF answersBar
      <4>4. CASE outcomes' = [outcomes EXCEPT ![k] = refused]
        <5> DEFINE given(f) == {AnswerOf(f[i]) : i \in DOMAIN f}
        <5>0. /\ answersBar = [j \in Calls |-> given(outcomes[j])]
              /\ answersBar' = [j \in Calls |-> given(outcomes'[j])]
          BY DEF answersBar
        <5>1. /\ answersBar[k] = {}
              /\ answersBar' = [answersBar EXCEPT ![k] = answersBar'[k]]
          <6>1. given(<<>>) = {}
            OBVIOUS
          <6>2. \A j \in Calls \ {k} : outcomes'[j] = outcomes[j]
            BY <4>1, <4>4
          <6> HIDE DEF given
          <6> QED
            BY <4>1, <5>0, <6>1, <6>2
        <5>2. answersBar'[k] = {AnswerOf(refused[i]) : i \in DOMAIN refused}
          BY <4>1, <4>4 DEF answersBar
        <5>3. \A i \in DOMAIN p.intents : p.intents[i] \in Cids
          BY PreviewsAssumption DEF Preview
        <5>4. ASSUME NEW a \in answersBar'[k]
              PROVE  a \in Ledger!Answer /\ a.verdict = "refused"
          <6>1. PICK i \in DOMAIN refused : a = AnswerOf(refused[i])
            BY <5>2, <5>4
          <6>2. /\ refused[i].client_order_id = p.intents[i]
                /\ refused[i].status = "blocked"
                /\ p.intents[i] \in Cids
            BY <5>3, <6>1
          <6>3. a = [client_order_id |-> p.intents[i], verdict |-> "refused"]
            BY <6>1, <6>2 DEF AnswerOf, Verdict
          <6> QED
            BY <6>2, <6>3 DEF Ledger!Answer
        <5>5. \A a \in answersBar'[k] \ answersBar[k] :
                 a \in Ledger!Answer /\ Ledger!Truthful(a)
          BY <5>4 DEF Ledger!Truthful
        <5>6. answersBar' = [answersBar EXCEPT ![k] =
                 @ \cup (answersBar'[k] \ answersBar[k])]
          BY <5>1 DEF answersBar
        <5> QED
          BY <5>5, <5>6 DEF Ledger!Reply
      <4> QED
        BY <4>2, <4>3, <4>4
    <3>2. ASSUME NEW place, GoTo(k, place)
          PROVE  UNCHANGED answersBar
      BY <3>2 DEF GoTo, answersBar
    <3>3. ASSUME pc[k] \in InLoop, NEW status \in OutcomeStatus,
                 NEW counted \in BOOLEAN, Settle(k, status, counted),
                 TrueNow(Current(k), status)
          PROVE  Ledger!Reply
      <4> DEFINE o == [client_order_id |-> Current(k), status |-> status]
                 a == AnswerOf(o)
      <4>1. answersBar' = [answersBar EXCEPT ![k] = @ \cup {a}]
        BY <1>2, <3>3, AnswersAfterSettle
      <4>2. Current(k) \in Cids
        BY <1>2, <3>3, CurrentType DEF IndInv, TypeOK
      <4>3. /\ a.client_order_id = Current(k)
            /\ a.verdict = Verdict(status)
            /\ a \in Ledger!Answer
        BY <4>2 DEF AnswerOf, Verdict, OutcomeStatus, Ledger!Answer
      <4>4. Ledger!Truthful(a)
        <5>1. a.verdict \in {"exists", "rejected"} => Current(k) \in DOMAIN orders'
          BY <3>3, <4>3 DEF Verdict, OutcomeStatus, TrueNow
        <5>2. a.verdict = "rejected" => Current(k) \in rejectedBar'
          BY <3>3, <4>3 DEF Verdict, OutcomeStatus, TrueNow, rejectedBar
        <5>3. Current(k) \in DOMAIN orders' => ledgerBar'[Current(k)] # {}
          BY <4>2 DEF ledgerBar, Known
        <5> QED
          BY <4>3, <5>1, <5>2, <5>3 DEF Ledger!Truthful
      <4> HIDE DEF a, o
      <4>5. answersBar'[k] \ answersBar[k] \subseteq {a}
        BY <4>1 DEF answersBar
      <4>6. answersBar' = [answersBar EXCEPT ![k] =
               @ \cup (answersBar'[k] \ answersBar[k])]
        BY <4>1 DEF answersBar
      <4> QED
        BY <4>3, <4>4, <4>5, <4>6 DEF Ledger!Reply
    <3> QED
      BY <2>1, <3>1, <3>2, <3>3 DEF ServicePart
  <2> QED
    BY <2>3, <2>4 DEF Ledger!Next
<1>3. ASSUME UNCHANGED vars
      PROVE  UNCHANGED <<ledgerBar, rejectedBar, answersBar>>
  BY <1>3 DEF vars, ledgerBar, rejectedBar, answersBar, Known
<1>4. IndInv /\ IndInv' /\ [Next]_vars
         => [Ledger!Next]_<<ledgerBar, rejectedBar, answersBar>>
  BY <1>2, <1>3
<1> QED
  BY <1>1, <1>4, Invariance, PTL DEF Spec, KeepsLedger, Ledger!Spec
=============================================================================

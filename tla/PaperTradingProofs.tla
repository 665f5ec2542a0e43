-------------------------- MODULE PaperTradingProofs --------------------------
(***************************************************************************)
(* What holds of PaperTrading for any number of runs, any universe,        *)
(* holdings, prices, weights, limits and market, any number of runs at     *)
(* once: orders are backed by evidence, the runs keep the order ledger,    *)
(* reconciliation vouches for the positions the deltas are taken from, no  *)
(* run overshoots but by what others have on order, and a run whose orders *)
(* all fill is on target, whatever is lost, late, repriced or dead.        *)
(***************************************************************************)
EXTENDS PaperCourse, LoopsProofs

\* The client order ids the program can make: any share count there is.
Id == [symbol : Symbols, side : {"buy", "sell"}, quantity : Nat \ {0}]

Draft == [intents : Seq(Id), risk_blocked : BOOLEAN,
          reconciliation_blocked : BOOLEAN]
Outcome == [client_order_id : Id, status : OutcomeStatus]
Order == [id : Nat, status : OrderStatus, filled_quantity : Nat, placed_by : Calls]
Account == [cash : Int, equity : Int, active : BOOLEAN, blocked : BOOLEAN]
Views == Account \cup [Symbols -> Int] \cup SUBSET Id
Stage == {"idle", "reading", "saving", "deciding", "submitting", "done", "raised"}
PostState == {"idle", "sent", "lost", "abandoned"} \cup Answered

RunTypes ==
    /\ pc \in [Calls -> Place]
    /\ preview \in [Calls -> Draft]
    /\ outcomes \in [Calls -> Seq(Outcome)]
    /\ http \in [Calls -> PostState]
    /\ stage \in [Calls -> Stage]
    /\ request \in [Calls -> Requests \cup {NoRequest}]
    /\ seen \in [Calls -> Seq(Views)]
    /\ saved \subseteq [run : Calls, preview : Draft]

ExchangeTypes ==
    /\ DOMAIN orders \subseteq Id
    /\ orders \in [DOMAIN orders -> Order]
    /\ counter \in Nat
    /\ positions \in [Symbols -> Int]
    /\ cash \in Int /\ equity \in Int /\ restricted \in BOOLEAN

\* Where a run is tells what it was asked, has read, and has in the database.
StageInv(k) ==
    /\ stage[k] = "idle" => seen[k] = <<>> /\ \A r \in saved : r.run # k
    /\ stage[k] \in {"reading", "saving", "deciding", "submitting"} =>
          request[k].environment = "paper"
    /\ stage[k] = "reading" => Len(seen[k]) < Len(Reads)
    /\ stage[k] = "saving" => Len(seen[k]) = Len(Reads)
    /\ 1 \in DOMAIN seen[k] => seen[k][1] \in Account
    /\ 5 \in DOMAIN seen[k] => seen[k][5] \in [Symbols -> Int]
    /\ stage[k] = "deciding" => \E r \in saved : r.run = k

\* A run that has called submit did so with the preview it has saved.
SubmitInv(k) ==
    /\ pc[k] = "idle" => outcomes[k] = <<>>
    /\ pc[k] # "idle" =>
          /\ stage[k] = "submitting" /\ request[k].submit
          /\ ~preview[k].risk_blocked
          /\ \E r \in saved : r.run = k /\ r.preview = preview[k]

\* A request is on its way only for an intent of an unblocked preview, and a
\* reply to it tells what the exchange has done.
PostInv(k) ==
    /\ http[k] # "idle" => Attempting(k) \/ pc[k] = "raised"
    /\ pc[k] \in InLoop \/ http[k] # "idle" =>
          /\ ~Blocked(preview[k])
          /\ Len(outcomes[k]) < Len(preview[k].intents)
    /\ http[k] \in {"new", "rejected"} => Known(Current(k))
    /\ http[k] = "rejected" => orders[Current(k)].status = "rejected"

RunInv(k) == StageInv(k) /\ SubmitInv(k) /\ PostInv(k)

\* What the risk report of an unblocked preview says of its run's request.
SavedInv ==
    \A r \in saved : ~r.preview.risk_blocked =>
        /\ ~request[r.run].snapshot.blocked
        /\ request[r.run].snapshot.last_session = ExpectedSession

OrdersInv ==
    \A c \in DOMAIN orders :
        orders[c].id < counter /\ Backed(orders[c].placed_by, c)

IndInv ==
    /\ RunTypes /\ ExchangeTypes /\ SavedInv /\ OrdersInv
    /\ \A k \in Calls : RunInv(k)

\* A step of run k as the others see it.
OthersAlone(k) ==
    /\ \A j \in Calls \ {k} :
          /\ pc'[j] = pc[j] /\ preview'[j] = preview[j]
          /\ outcomes'[j] = outcomes[j] /\ http'[j] = http[j]
          /\ stage'[j] = stage[j] /\ request'[j] = request[j] /\ seen'[j] = seen[j]
    /\ \A r \in saved' : r \in saved \/ r.run = k
    /\ saved \subseteq saved'
    /\ stage[k] # "idle" => request'[k] = request[k]
    /\ UNCHANGED <<orders, counter, positions, cash, equity, restricted>>
-----------------------------------------------------------------------------
\* The intents of a preview have client order ids, whatever was read.
LEMMA IntentsType ==
    ASSUME NEW e \in Int, NEW held \in [Symbols -> Int]
    PROVE  Intents(TargetPositions(e), held) \in Seq(Id)
<1> DEFINE target == TargetPositions(e)
           S == Traded(target, held)
           traded == Picks(Universe, S)
<1>1. DOMAIN target \subseteq Symbols /\ \A s \in DOMAIN target : target[s] \in Int
  <2>1. ASSUME NEW s \in DOMAIN Weight PROVE Shares(e, s) \in Int
    <3>1. Weight[s] \in Int /\ Price[s] \in Nat \ {0}
      BY PaperAssumption
    <3>2. e * Weight[s] \in Int /\ 100 * Price[s] \in Nat \ {0}
      BY <3>1
    <3>3. \A n \in Int, d \in Nat \ {0} : n \div d \in Int
      OBVIOUS
    <3> QED  BY <3>2, <3>3 DEF Shares
  <2> QED  BY <2>1, PaperAssumption DEF TargetPositions
<1> HIDE DEF target
<1>2. ASSUME NEW s \in S PROVE IntentOf(target, held, s) \in Id
  <2>1. s \in DOMAIN target /\ Delta(target, held, s) # 0
    BY DEF Traded
  <2>2. Delta(target, held, s) \in Int
    BY <1>1, <2>1 DEF Delta, Held
  <2>3. Abs(Delta(target, held, s)) \in Nat \ {0}
    BY <2>1, <2>2 DEF Abs
  <2> QED  BY <1>1, <2>1, <2>3 DEF IntentOf, Id
<1>3. Len(Universe) \in Nat
  BY PaperAssumption
<1>4. PICK at : PickedAt(traded, at, Universe, S, Len(Universe))
  BY <1>3, PicksDef
<1>5. traded \in Seq(S)
  BY <1>4 DEF PickedAt
<1> HIDE DEF traded, S
<1>6. [i \in DOMAIN traded |-> IntentOf(target, held, traded[i])] \in Seq(Id)
  BY <1>2, <1>5
<1> QED  BY <1>6 DEF Intents, traded, S, target

\* A report that does not block vouches for the snapshot.
LEMMA Unblocked ==
    ASSUME NEW target, NEW intents, NEW account, NEW differences, NEW snapshot,
           ~RiskBlocked(RiskContext(target, intents, account, differences,
                                    snapshot, ExpectedSession))
    PROVE  ~snapshot.blocked /\ snapshot.last_session = ExpectedSession
<1> DEFINE ctx == RiskContext(target, intents, account, differences, snapshot,
                              ExpectedSession)
<1>1. /\ ctx.snapshot_blocked = snapshot.blocked
      /\ ctx.snapshot_last_session = snapshot.last_session
      /\ ctx.expected_last_session = ExpectedSession
  BY DEF RiskContext
<1> HIDE DEF ctx
<1>2. FALSE \notin Range(Report(ctx))
  BY DEF RiskBlocked, ctx
<1>3. Report(ctx).snapshot_health # FALSE /\ Report(ctx).snapshot_freshness # FALSE
  <2>1. /\ "snapshot_health" \in DOMAIN Report(ctx)
        /\ "snapshot_freshness" \in DOMAIN Report(ctx)
    BY DEF Report
  <2> QED  BY <1>2, <2>1 DEF Range
<1>4. SnapshotHealth(ctx) /\ SnapshotFreshness(ctx)
  <2>1. /\ Report(ctx).snapshot_health = SnapshotHealth(ctx)
        /\ Report(ctx).snapshot_freshness = SnapshotFreshness(ctx)
    BY DEF Report
  <2>2. SnapshotHealth(ctx) \in BOOLEAN /\ SnapshotFreshness(ctx) \in BOOLEAN
    BY DEF SnapshotHealth, SnapshotFreshness
  <2> QED  BY <1>3, <2>1, <2>2
<1> QED  BY <1>1, <1>4 DEF SnapshotHealth, SnapshotFreshness

\* What backs an order keeps backing it.
LEMMA StillBacked ==
    ASSUME RunTypes, NEW k \in Calls, StageInv(k), NEW c, Backed(k, c),
           saved \subseteq saved', stage[k] # "idle" => request'[k] = request[k]
    PROVE  Backed(k, c)'
<1>1. stage[k] # "idle"
  BY DEF Backed, StageInv
<1> QED  BY <1>1 DEF Backed

\* The intent a run is at is one of its preview's.
LEMMA CurrentIsAnIntent ==
    ASSUME RunTypes, NEW k \in Calls, Len(outcomes[k]) < Len(preview[k].intents)
    PROVE  /\ Len(outcomes[k]) + 1 \in DOMAIN preview[k].intents
           /\ Current(k) \in Id /\ Current(k) \in Range(preview[k].intents)
<1>1. outcomes[k] \in Seq(Outcome) /\ preview[k].intents \in Seq(Id)
  BY DEF RunTypes, Draft
<1>2. Len(outcomes[k]) + 1 \in DOMAIN preview[k].intents
  BY <1>1
<1> QED  BY <1>1, <1>2 DEF Current, Range

\* A request on its way is backed.
LEMMA PostsAreBacked ==
    ASSUME IndInv, NEW k \in Calls, http[k] # "idle"
    PROVE  Backed(k, Current(k)) /\ Current(k) \in Id
<1>1. RunTypes /\ RunInv(k) /\ SavedInv
  BY DEF IndInv
<1>2. pc[k] # "idle" /\ ~Blocked(preview[k]) /\ Len(outcomes[k]) < Len(preview[k].intents)
  BY <1>1 DEF RunInv, PostInv, Attempting
<1>3. PICK r \in saved : r.run = k /\ r.preview = preview[k]
  BY <1>1, <1>2 DEF RunInv, SubmitInv
<1>4. /\ request[k].submit /\ request[k].environment = "paper"
      /\ ~request[k].snapshot.blocked
      /\ request[k].snapshot.last_session = ExpectedSession
  BY <1>1, <1>2, <1>3 DEF RunInv, SubmitInv, StageInv, SavedInv
<1>5. Current(k) \in Id /\ Current(k) \in Range(r.preview.intents)
  BY <1>1, <1>2, <1>3, CurrentIsAnIntent
<1> QED  BY <1>2, <1>3, <1>4, <1>5 DEF Backed
-----------------------------------------------------------------------------
\* A step of one run that leaves the exchange alone keeps the invariant if it
\* keeps what is said of that run and of what is saved.
LEMMA OthersKept ==
    ASSUME IndInv, NEW k \in Calls, OthersAlone(k), RunTypes', RunInv(k)', SavedInv'
    PROVE  IndInv'
<1>1. RunTypes /\ ExchangeTypes /\ OrdersInv /\ \A j \in Calls : RunInv(j)
  BY DEF IndInv
<1>2. /\ orders' = orders /\ counter' = counter /\ positions' = positions
      /\ cash' = cash /\ equity' = equity /\ restricted' = restricted
  BY DEF OthersAlone
<1>3. ExchangeTypes'
  BY <1>1, <1>2 DEF ExchangeTypes
<1>4. OrdersInv'
  <2> SUFFICES ASSUME NEW c \in DOMAIN orders
               PROVE  orders[c].id < counter /\ Backed(orders[c].placed_by, c)'
    BY <1>2 DEF OrdersInv
  <2>1. PICK j \in Calls :
           /\ j = orders[c].placed_by /\ Backed(j, c) /\ orders[c].id < counter
    BY <1>1 DEF OrdersInv, ExchangeTypes, Order
  <2>2. saved \subseteq saved' /\ (stage[j] # "idle" => request'[j] = request[j])
    BY <2>1 DEF OthersAlone
  <2>3. StageInv(j)
    BY <1>1, <2>1 DEF RunInv
  <2>4. Backed(j, c)'
    BY <1>1, <2>1, <2>2, <2>3, StillBacked
  <2> QED  BY <1>2, <2>1, <2>4
<1>5. ASSUME NEW j \in Calls PROVE RunInv(j)'
  <2>1. CASE j = k
    BY <2>1
  <2>2. CASE j # k
    <3>1. /\ pc'[j] = pc[j] /\ preview'[j] = preview[j]
          /\ outcomes'[j] = outcomes[j] /\ http'[j] = http[j]
          /\ stage'[j] = stage[j] /\ request'[j] = request[j] /\ seen'[j] = seen[j]
          /\ saved \subseteq saved' /\ \A r \in saved' : r \in saved \/ r.run # j
      BY <2>2 DEF OthersAlone
    <3>2. RunInv(j)
      BY <1>1
    <3>3. StageInv(j)'
      BY <3>1, <3>2 DEF RunInv, StageInv
    <3>4. SubmitInv(j)'
      BY <3>1, <3>2 DEF RunInv, SubmitInv
    <3>5. PostInv(j)'
      BY <1>2, <3>1, <3>2 DEF RunInv, PostInv, Attempting, Known, Current
    <3> QED  BY <3>3, <3>4, <3>5 DEF RunInv
  <2> QED  BY <2>1, <2>2
<1> QED  BY <1>3, <1>4, <1>5 DEF IndInv

\* A step before submit, or one that ends a run that has not got there: what
\* the service holds and what is on its way are left alone.
LEMMA OutsideStep ==
    ASSUME IndInv, NEW k \in Calls, UNCHANGED serviceVars, UNCHANGED exchangeVars,
           NEW place \in Stage \ {"idle", "submitting"},
           stage' = [stage EXCEPT ![k] = place], stage[k] # "submitting",
           NEW asked \in Requests \cup {NoRequest},
           request' = [request EXCEPT ![k] = asked],
           stage[k] # "idle" => asked = request[k],
           NEW read \in Seq(Views), seen' = [seen EXCEPT ![k] = read],
           saved \subseteq saved', saved' \subseteq [run : Calls, preview : Draft],
           \A r \in saved' \ saved : r.run = k, SavedInv', StageInv(k)'
    PROVE  IndInv'
<1>1. RunTypes /\ RunInv(k)
  BY DEF IndInv
<1>2. pc[k] = "idle" /\ http[k] = "idle"
  BY <1>1 DEF RunInv, SubmitInv, PostInv, Attempting
<1>3. /\ pc' = pc /\ preview' = preview /\ outcomes' = outcomes
      /\ http' = http /\ orders' = orders /\ counter' = counter
      /\ positions' = positions /\ cash' = cash /\ equity' = equity
      /\ restricted' = restricted
  BY DEF serviceVars, exchangeVars
<1>4. RunTypes'
  BY <1>1, <1>3 DEF RunTypes
<1>5. RunInv(k)'
  BY <1>1, <1>2, <1>3 DEF RunInv, SubmitInv, PostInv, InLoop
<1>6. OthersAlone(k)
  BY <1>1, <1>3 DEF OthersAlone, RunTypes
<1> QED  BY <1>4, <1>5, <1>6, OthersKept

LEMMA StartKeeps ==
    ASSUME IndInv, NEW k \in Calls, NEW r \in Requests, Start(k, r)
    PROVE  IndInv'
<1> DEFINE place == IF r.environment = "paper" THEN "reading" ELSE "raised"
<1>1. RunTypes /\ StageInv(k) /\ SavedInv
  BY DEF IndInv, RunInv
<1>2. /\ stage[k] = "idle" /\ stage' = [stage EXCEPT ![k] = place]
      /\ request' = [request EXCEPT ![k] = r]
      /\ seen' = seen /\ saved' = saved
      /\ UNCHANGED serviceVars /\ UNCHANGED exchangeVars
  BY DEF Start
<1>3. seen' = [seen EXCEPT ![k] = seen[k]] /\ seen[k] \in Seq(Views) /\ seen[k] = <<>>
  BY <1>1, <1>2 DEF RunTypes, StageInv
<1>4. /\ stage'[k] = place /\ request'[k] = r
      /\ \A j \in Calls \ {k} : request'[j] = request[j]
  BY <1>1, <1>2 DEF RunTypes
<1>5. StageInv(k)'
  BY <1>2, <1>3, <1>4 DEF StageInv, Reads
<1>6. SavedInv'
  BY <1>1, <1>2, <1>4 DEF SavedInv, StageInv, RunTypes
<1> HIDE DEF place
<1> QED
  <2>1. place \in Stage \ {"idle", "submitting"}
    BY DEF place, Stage
  <2>2. saved \subseteq saved' /\ saved' \subseteq [run : Calls, preview : Draft]
        /\ \A x \in saved' \ saved : x.run = k
    BY <1>1, <1>2 DEF RunTypes
  <2> QED  BY <1>2, <1>3, <1>5, <1>6, <2>1, <2>2, OutsideStep

LEMMA ReadKeeps ==
    ASSUME IndInv, NEW k \in Calls, Read(k)
    PROVE  IndInv'
<1> DEFINE n == Len(seen[k]) + 1
           view == View(Reads[n])
           place == IF n = Len(Reads) THEN "saving" ELSE "reading"
<1>1. RunTypes /\ ExchangeTypes /\ StageInv(k) /\ SavedInv
  BY DEF IndInv, RunInv
<1>2. /\ stage[k] = "reading" /\ stage' = [stage EXCEPT ![k] = place]
      /\ seen' = [seen EXCEPT ![k] = Append(seen[k], view)]
      /\ request' = request /\ saved' = saved
      /\ UNCHANGED serviceVars /\ UNCHANGED exchangeVars
  BY DEF Read, MoveTo
<1>3. seen[k] \in Seq(Views) /\ Len(Reads) = 8 /\ Len(seen[k]) < 8 /\ n \in 1 .. 8
  BY <1>1, <1>2 DEF RunTypes, StageInv, Reads
<1>4. /\ Reads[n] = "account" => view \in Account
      /\ Reads[n] = "positions" => view \in [Symbols -> Int]
      /\ view \in Views
      /\ n = 1 => Reads[n] = "account"
      /\ n = 5 => Reads[n] = "positions"
  <2>1. /\ n = 1 => Reads[n] = "account"
        /\ n = 5 => Reads[n] = "positions"
        /\ Reads[n] \in {"account", "positions", "open_orders"}
    BY <1>3 DEF Reads
  <2>2. /\ View("account") \in Account /\ View("positions") \in [Symbols -> Int]
        /\ View("open_orders") \in SUBSET Id
    BY <1>1 DEF View, Account, ExchangeTypes, OpenOrders
  <2> QED  BY <2>1, <2>2 DEF Views
<1> HIDE DEF view
<1>5. /\ Append(seen[k], view) \in Seq(Views)
      /\ Len(Append(seen[k], view)) = n
      /\ Append(seen[k], view)[n] = view
      /\ \A i \in 1 .. Len(seen[k]) : Append(seen[k], view)[i] = seen[k][i]
      /\ DOMAIN Append(seen[k], view) = 1 .. n
      /\ DOMAIN seen[k] = 1 .. Len(seen[k])
  BY <1>3, <1>4
<1> DEFINE read == Append(seen[k], view)
<1> HIDE DEF read
<1>6. /\ stage'[k] = place /\ seen'[k] = read
      /\ request' = [request EXCEPT ![k] = request[k]]
      /\ request[k] \in Requests \cup {NoRequest}
      /\ seen' = [seen EXCEPT ![k] = read]
      /\ request'[k] = request[k] /\ request[k].environment = "paper"
  BY <1>1, <1>2 DEF RunTypes, StageInv, read
<1>7. StageInv(k)'
  <2>1. 1 \in DOMAIN read => read[1] \in Account
    BY <1>1, <1>3, <1>4, <1>5 DEF read, StageInv
  <2>2. 5 \in DOMAIN read => read[5] \in [Symbols -> Int]
    BY <1>1, <1>3, <1>4, <1>5 DEF read, StageInv
  <2>3. (n = 8 => Len(read) = 8) /\ (n # 8 => Len(read) < 8)
    BY <1>3, <1>5 DEF read
  <2>4. \/ place = "saving" /\ Len(read) = Len(Reads)
        \/ place = "reading" /\ Len(read) < Len(Reads)
    BY <1>3, <2>3
  <2> HIDE DEF n, place
  <2> QED  BY <1>6, <2>1, <2>2, <2>4 DEF StageInv
<1>8. SavedInv'
  BY <1>1, <1>2 DEF SavedInv
<1> QED
  <2>1. place \in Stage \ {"idle", "submitting"}
    BY DEF Stage
  <2>2. saved \subseteq saved' /\ saved' \subseteq [run : Calls, preview : Draft]
        /\ \A x \in saved' \ saved : x.run = k
    BY <1>1, <1>2 DEF RunTypes
  <2>3. read \in Seq(Views)
    BY <1>5 DEF read
  <2> HIDE DEF place
  <2> QED  BY <1>2, <1>6, <1>7, <1>8, <2>1, <2>2, <2>3, OutsideStep

LEMMA SavePreviewKeeps ==
    ASSUME IndInv, NEW k \in Calls, SavePreview(k)
    PROVE  IndInv'
<1>1. RunTypes /\ StageInv(k) /\ SavedInv
  BY DEF IndInv, RunInv
<1> DEFINE target == Target(k)
           differences == Differences(Believed(k), AtBroker(k))
           intents == Intents(target, seen[k][5])
           context == RiskContext(target, intents, seen[k][4], differences,
                                  request[k].snapshot, ExpectedSession)
           draft == [intents |-> intents, risk_blocked |-> RiskBlocked(context),
                     reconciliation_blocked |-> differences # {}]
           new == [run |-> k, preview |-> draft]
<1>2. /\ stage[k] = "saving" /\ stage' = [stage EXCEPT ![k] = "deciding"]
      /\ saved' = saved \cup {new}
      /\ seen' = [seen EXCEPT ![k] = <<>>] /\ request' = request
      /\ UNCHANGED serviceVars /\ UNCHANGED exchangeVars
  BY DEF SavePreview
<1>3. intents \in Seq(Id)
  <2>1. seen[k] \in Seq(Views) /\ Len(seen[k]) = 8
    BY <1>1, <1>2 DEF RunTypes, StageInv, Reads
  <2>2. seen[k][1] \in Account /\ seen[k][5] \in [Symbols -> Int]
    BY <1>1, <2>1 DEF StageInv
  <2> QED  BY <2>2, IntentsType DEF Target, Account
<1>4. draft \in Draft
  <2>1. RiskBlocked(context) \in BOOLEAN /\ (differences # {}) \in BOOLEAN
    BY DEF RiskBlocked
  <2> HIDE DEF intents, context, differences
  <2> QED  BY <1>3, <2>1 DEF Draft
<1>5. ~draft.risk_blocked =>
         /\ ~request[k].snapshot.blocked
         /\ request[k].snapshot.last_session = ExpectedSession
  BY Unblocked
<1> HIDE DEF draft
<1>6. new \in [run : Calls, preview : Draft] /\ new.run = k /\ new.preview = draft
  BY <1>4
<1> HIDE DEF new
<1>7. SavedInv'
  BY <1>1, <1>2, <1>5, <1>6 DEF SavedInv
<1>8. /\ stage'[k] = "deciding" /\ seen'[k] = <<>> /\ request'[k] = request[k]
      /\ request' = [request EXCEPT ![k] = request[k]]
      /\ request[k] \in Requests \cup {NoRequest} /\ <<>> \in Seq(Views)
      /\ new \in saved' /\ saved' \subseteq [run : Calls, preview : Draft]
      /\ request[k].environment = "paper"
  BY <1>1, <1>2, <1>6 DEF RunTypes, StageInv
<1>9. StageInv(k)'
  BY <1>6, <1>8 DEF StageInv
<1> QED
  <2>1. "deciding" \in Stage \ {"idle", "submitting"}
    BY DEF Stage
  <2>2. saved \subseteq saved' /\ \A x \in saved' \ saved : x.run = k
    BY <1>2, <1>6
  <2> QED  BY <1>2, <1>7, <1>8, <1>9, <2>1, <2>2, OutsideStep

LEMMA DecideKeeps ==
    ASSUME IndInv, NEW k \in Calls, Decide(k)
    PROVE  IndInv'
<1> DEFINE p == SavedBy(k)
<1>1. RunTypes /\ RunInv(k) /\ SavedInv /\ stage[k] = "deciding"
  BY DEF IndInv, Decide
<1>2. /\ seen' = seen /\ seen[k] \in Seq(Views) /\ request' = request /\ saved' = saved
      /\ UNCHANGED exchangeVars
      /\ request[k] \in Requests \cup {NoRequest}
      /\ request[k].environment = "paper"
  BY <1>1 DEF Decide, MoveTo, RunTypes, RunInv, StageInv
<1>3. SavedInv'
  BY <1>1, <1>2 DEF SavedInv
<1>4. pc[k] = "idle" /\ http[k] = "idle" /\ outcomes[k] = <<>>
  BY <1>1 DEF RunInv, SubmitInv, PostInv, Attempting
<1>5. CASE request[k].submit /\ ~p.risk_blocked
  <2>1. Submit(k, p) /\ stage' = [stage EXCEPT ![k] = "submitting"]
    BY <1>5 DEF Decide, MoveTo
  <2>2. PICK r \in saved : r.run = k /\ r.preview = p
    BY <1>1 DEF RunInv, StageInv, SavedBy
  <2>3. p \in Draft /\ p.intents \in Seq(Id) /\ ~p.risk_blocked /\ request[k].submit
    BY <1>1, <1>5, <2>2 DEF RunTypes, Draft
  <2> HIDE DEF p
  <2>4. /\ preview' = [preview EXCEPT ![k] = p] /\ preview' \in [Calls -> Draft]
        /\ preview'[k] = p
    BY <1>1, <2>1, <2>3 DEF Submit, RunTypes
  <2>5. /\ pc'[k] \in {"returned", "check"} /\ pc' \in [Calls -> Place]
        /\ \A j \in Calls \ {k} : pc'[j] = pc[j]
    BY <1>1, <2>1 DEF Submit, RunTypes, Place, InLoop
  <2>6. pc'[k] = "check" =>
           ~Blocked(p) /\ outcomes'[k] = <<>> /\ Len(outcomes'[k]) < Len(p.intents)
    BY <1>1, <1>4, <2>1, <2>3 DEF Submit, RunTypes
  <2>7. /\ outcomes' \in [Calls -> Seq(Outcome)]
        /\ \A j \in Calls \ {k} : outcomes'[j] = outcomes[j]
    <3> DEFINE refused == [i \in DOMAIN p.intents |->
                     [client_order_id |-> p.intents[i], status |-> "blocked"]]
    <3>1. refused \in Seq(Outcome)
      <4>1. /\ DOMAIN p.intents = 1 .. Len(p.intents) /\ Len(p.intents) \in Nat
            /\ \A i \in DOMAIN p.intents : p.intents[i] \in Id
        BY <2>3
      <4>2. \A i \in DOMAIN p.intents : refused[i] \in Outcome
        BY <4>1 DEF Outcome, OutcomeStatus
      <4>3. refused = [i \in 1 .. Len(p.intents) |-> refused[i]]
        BY <4>1
      <4> HIDE DEF refused
      <4> QED  BY <4>1, <4>2, <4>3
    <3>2. outcomes' = outcomes \/ outcomes' = [outcomes EXCEPT ![k] = refused]
      BY <2>1 DEF Submit
    <3> HIDE DEF refused
    <3> QED  BY <1>1, <3>1, <3>2 DEF RunTypes
  <2>8. stage' \in [Calls -> Stage] /\ stage'[k] = "submitting"
    BY <1>1, <2>1 DEF RunTypes, Stage
  <2>9. http' = http /\ http'[k] = "idle"
    BY <1>2, <1>4 DEF exchangeVars
  <2>10. RunTypes'
    BY <1>1, <1>2, <2>4, <2>5, <2>7, <2>8, <2>9 DEF RunTypes
  <2>11. StageInv(k)'
    BY <1>1, <1>2, <2>8 DEF RunInv, StageInv
  <2>12. SubmitInv(k)'
    BY <1>2, <2>2, <2>3, <2>4, <2>5, <2>8 DEF SubmitInv
  <2>13. PostInv(k)'
    BY <2>4, <2>5, <2>6, <2>9 DEF PostInv, InLoop, Blocked
  <2>14. OthersAlone(k)
    BY <1>1, <1>2, <2>1, <2>4, <2>5, <2>7, <2>9 DEF OthersAlone, RunTypes, exchangeVars
  <2> QED  BY <1>3, <2>10, <2>11, <2>12, <2>13, <2>14, OthersKept DEF RunInv
<1>6. CASE ~(request[k].submit /\ ~p.risk_blocked)
  <2>1. UNCHANGED serviceVars /\ stage' = [stage EXCEPT ![k] = "done"]
    BY <1>6 DEF Decide, MoveTo
  <2>2. /\ request' = [request EXCEPT ![k] = request[k]] /\ stage'[k] = "done"
        /\ seen' = [seen EXCEPT ![k] = seen[k]]
    BY <1>1, <1>2, <2>1 DEF RunTypes
  <2>3. StageInv(k)'
    BY <1>1, <1>2, <2>2 DEF RunInv, StageInv
  <2>4. "done" \in Stage \ {"idle", "submitting"}
    BY DEF Stage
  <2>5. saved \subseteq saved' /\ saved' \subseteq [run : Calls, preview : Draft]
        /\ \A x \in saved' \ saved : x.run = k
    BY <1>1, <1>2 DEF RunTypes
  <2> QED
    BY <1>1, <1>2, <1>3, <2>1, <2>2, <2>3, <2>4, <2>5, OutsideStep
<1> QED  BY <1>5, <1>6

\* A step of the loop: what it does to the place, the outcomes and the POST.
LEMMA LoopStep ==
    ASSUME IndInv, NEW k \in Calls, pc[k] \in InLoop,
           NEW place \in Place \ {"idle"}, pc' = [pc EXCEPT ![k] = place],
           NEW told \in Seq(Outcome), outcomes' = [outcomes EXCEPT ![k] = told],
           NEW state \in PostState \ {"new", "rejected"},
           http' = [http EXCEPT ![k] = state],
           NEW read \in Seq(Views), seen' = [seen EXCEPT ![k] = read],
           read = seen[k] \/ read = <<>>,
           UNCHANGED <<preview, orders, counter, positions, cash, equity,
                       restricted, stage, request, saved>>,
           state # "idle" => place \in {"submit", "retry", "raised"},
           place \in InLoop \/ state # "idle" => Len(told) < Len(preview[k].intents)
    PROVE  IndInv'
<1>1. RunTypes /\ RunInv(k) /\ SavedInv
  BY DEF IndInv
<1>2. /\ pc'[k] = place /\ outcomes'[k] = told /\ http'[k] = state /\ seen'[k] = read
      /\ preview' = preview /\ stage' = stage /\ request' = request /\ saved' = saved
  BY <1>1 DEF RunTypes
<1>3. stage[k] = "submitting" /\ ~Blocked(preview[k]) /\ pc[k] # "idle"
  BY <1>1 DEF RunInv, SubmitInv, PostInv, InLoop
<1>4. RunTypes'
  BY <1>1 DEF RunTypes
<1>5. StageInv(k)'
  <2>1. /\ 1 \in DOMAIN read => read[1] \in Account
        /\ 5 \in DOMAIN read => read[5] \in [Symbols -> Int]
    BY <1>1 DEF RunInv, StageInv
  <2> QED  BY <1>1, <1>2, <1>3, <2>1 DEF RunInv, StageInv
<1>6. SubmitInv(k)'
  BY <1>1, <1>2, <1>3 DEF RunInv, SubmitInv
<1>7. PostInv(k)'
  BY <1>2, <1>3 DEF PostInv, Attempting
<1>8. SavedInv'
  BY <1>1, <1>2 DEF SavedInv
<1>9. OthersAlone(k)
  BY <1>1, <1>2 DEF OthersAlone, RunTypes
<1> QED  BY <1>4, <1>5, <1>6, <1>7, <1>8, <1>9, OthersKept DEF RunInv

\* The run goes to another place of the loop, or raises.
LEMMA GoToKeeps ==
    ASSUME IndInv, NEW k \in Calls, pc[k] \in InLoop,
           NEW place \in InLoop \cup {"raised"}, GoTo(k, place),
           NEW state \in PostState \ {"new", "rejected"},
           http' = [http EXCEPT ![k] = state],
           NEW read \in Seq(Views), seen' = [seen EXCEPT ![k] = read],
           read = seen[k] \/ read = <<>>,
           UNCHANGED <<orders, counter, positions, cash, equity, restricted,
                       stage, request, saved>>,
           state # "idle" => place \in {"submit", "retry", "raised"}
    PROVE  IndInv'
<1>1. RunTypes /\ PostInv(k)
  BY DEF IndInv, RunInv
<1>2. /\ outcomes' = [outcomes EXCEPT ![k] = outcomes[k]]
      /\ outcomes[k] \in Seq(Outcome) /\ preview' = preview
      /\ pc' = [pc EXCEPT ![k] = place] /\ place \in Place \ {"idle"}
      /\ Len(outcomes[k]) < Len(preview[k].intents)
  BY <1>1 DEF RunTypes, GoTo, PostInv, Place, InLoop
<1> QED  BY <1>2, LoopStep

\* The current intent gets its outcome.
LEMMA SettleKeeps ==
    ASSUME IndInv, NEW k \in Calls, pc[k] \in InLoop,
           NEW status \in OutcomeStatus, NEW counted, Settle(k, status, counted),
           http' = [http EXCEPT ![k] = "idle"],
           UNCHANGED <<orders, counter, positions, cash, equity, restricted, runVars>>
    PROVE  IndInv'
<1> DEFINE new == [client_order_id |-> Current(k), status |-> status]
           told == Append(outcomes[k], new)
           place == IF Len(outcomes[k]) + 1 = Len(preview[k].intents)
                    THEN "returned" ELSE "check"
<1>1. RunTypes /\ PostInv(k) /\ Len(outcomes[k]) < Len(preview[k].intents)
  BY DEF IndInv, RunInv, PostInv
<1>2. new \in Outcome
  BY <1>1, CurrentIsAnIntent DEF Outcome
<1>3. /\ outcomes' = [outcomes EXCEPT ![k] = told] /\ preview' = preview
      /\ pc' = [pc EXCEPT ![k] = place]
      /\ seen' = [seen EXCEPT ![k] = seen[k]] /\ seen[k] \in Seq(Views)
      /\ UNCHANGED <<stage, request, saved>>
  BY <1>1 DEF Settle, runVars, RunTypes
<1>4. outcomes[k] \in Seq(Outcome) /\ preview[k].intents \in Seq(Id)
  BY <1>1 DEF RunTypes, Draft
<1> HIDE DEF new
<1>5. told \in Seq(Outcome) /\ Len(told) = Len(outcomes[k]) + 1
  BY <1>2, <1>4
<1>6. place \in InLoop => Len(told) < Len(preview[k].intents)
  BY <1>1, <1>4, <1>5 DEF InLoop
<1>7. place \in Place \ {"idle"} /\ "idle" \in PostState \ {"new", "rejected"}
  BY DEF Place, InLoop, PostState, Answered
<1> HIDE DEF told, place
<1> QED  BY <1>3, <1>5, <1>6, <1>7, LoopStep

\* Every step a run takes.
LEMMA AdvanceKeeps ==
    ASSUME IndInv, NEW k \in Calls, Advance(k)
    PROVE  IndInv'
<1>1. /\ RunTypes /\ PostInv(k)
      /\ http = [http EXCEPT ![k] = http[k]] /\ http[k] \in PostState
      /\ seen = [seen EXCEPT ![k] = seen[k]] /\ seen[k] \in Seq(Views)
      /\ pc = [pc EXCEPT ![k] = pc[k]]
  BY DEF IndInv, RunTypes, RunInv
<1>2. CASE Check(k)
  <2>1. /\ pc[k] = "check" /\ http[k] = "idle" /\ http' = [http EXCEPT ![k] = "idle"]
        /\ UNCHANGED <<orders, counter, positions, cash, equity, restricted, runVars>>
        /\ UNCHANGED <<stage, request, saved>> /\ seen' = [seen EXCEPT ![k] = seen[k]]
        /\ pc[k] \in InLoop
    BY <1>1, <1>2 DEF Check, CheckExisting, PostInv, Attempting, exchangeVars, runVars,
                      InLoop
  <2>2. CASE Settle(k, "already_existed", TRUE)
    BY <2>1, <2>2, SettleKeeps DEF OutcomeStatus
  <2>3. CASE GoTo(k, "submit")
    BY <1>1, <2>1, <2>3, GoToKeeps DEF InLoop, PostState, Answered
  <2> QED  BY <1>2, <2>2, <2>3 DEF Check, CheckExisting
<1>3. CASE Post(k)
  <2>1. /\ pc[k] \in {"submit", "retry"} /\ http' = [http EXCEPT ![k] = "sent"]
        /\ GoTo(k, pc[k]) /\ seen' = [seen EXCEPT ![k] = seen[k]]
        /\ UNCHANGED <<orders, counter, positions, cash, equity, restricted,
                       stage, request, saved>>
    BY <1>1, <1>3 DEF Post, SetPost, Attempting, GoTo, serviceVars, runVars
  <2> QED
    BY <1>1, <2>1, GoToKeeps DEF InLoop, PostState, Answered
<1>4. CASE Receive(k)
  <2>1. /\ pc[k] \in {"submit", "retry"} /\ http' = [http EXCEPT ![k] = "idle"]
        /\ pc[k] \in InLoop
        /\ UNCHANGED <<orders, counter, positions, cash, equity, restricted, runVars>>
        /\ UNCHANGED <<stage, request, saved>> /\ seen' = [seen EXCEPT ![k] = seen[k]]
    BY <1>1, <1>4 DEF Receive, SetPost, Attempting, InLoop, runVars
  <2>2. CASE Returned(k, http[k])
    <3>1. OrderStatusToOutcome(http[k]) \in OutcomeStatus
      BY DEF OrderStatusToOutcome, OutcomeStatus
    <3>2. Settle(k, OrderStatusToOutcome(http[k]),
                 OrderStatusToOutcome(http[k]) = "submitted")
      BY <2>2 DEF Returned
    <3> QED  BY <2>1, <3>1, <3>2, SettleKeeps
  <2>3. CASE Raised(k)
    BY <1>1, <2>1, <2>3, GoToKeeps DEF Raised, PostState, Answered
  <2> QED  BY <1>4, <2>2, <2>3 DEF Receive
<1>5. CASE GiveUp(k)
  <2> DEFINE state == IF http[k] = "sent" THEN "abandoned" ELSE "idle"
  <2>1. /\ Raised(k) /\ http' = [http EXCEPT ![k] = state]
        /\ UNCHANGED <<orders, counter, positions, cash, equity, restricted,
                       stage, request, saved>>
        /\ seen' = [seen EXCEPT ![k] = seen[k]]
    BY <1>1, <1>5 DEF GiveUp, SetPost, runVars
  <2> QED
    BY <1>1, <2>1, GoToKeeps DEF Raised, PostState, Answered
<1> QED
  BY <1>2, <1>3, <1>4, <1>5, ReadKeeps, SavePreviewKeeps, DecideKeeps DEF Advance

\* A run dies: what is on its way stays on its way.
LEMMA CrashKeeps ==
    ASSUME IndInv, NEW k \in Calls, Crash(k)
    PROVE  IndInv'
<1>1. RunTypes /\ RunInv(k) /\ SavedInv
  BY DEF IndInv
<1> DEFINE state == IF http[k] = "sent" THEN "abandoned" ELSE "idle"
<1>2. /\ http' = [http EXCEPT ![k] = state] /\ seen' = [seen EXCEPT ![k] = <<>>]
      /\ UNCHANGED <<request, saved, orders, counter, positions, cash, equity,
                     restricted>>
      /\ <<>> \in Seq(Views)
  BY DEF Crash
<1>3. CASE pc[k] \in InLoop
  <2>1. GoTo(k, "raised") /\ UNCHANGED stage
    BY <1>3 DEF Crash
  <2> QED
    BY <1>1, <1>2, <1>3, <2>1, GoToKeeps DEF PostState, Answered
<1>4. CASE pc[k] \notin InLoop
  <2>1. /\ stage[k] \in {"reading", "saving", "deciding"}
        /\ stage' = [stage EXCEPT ![k] = "raised"] /\ UNCHANGED serviceVars
    BY <1>4 DEF Crash, Running
  <2>2. pc[k] = "idle" /\ http[k] = "idle"
    BY <1>1, <2>1 DEF RunInv, SubmitInv, PostInv, Attempting
  <2>3. UNCHANGED exchangeVars
    BY <1>1, <1>2, <2>2 DEF RunTypes, exchangeVars
  <2>4. /\ request' = [request EXCEPT ![k] = request[k]]
        /\ request[k] \in Requests \cup {NoRequest}
        /\ stage'[k] = "raised" /\ seen'[k] = <<>>
    BY <1>1, <1>2, <2>1 DEF RunTypes
  <2>5. StageInv(k)'
    BY <2>4 DEF StageInv
  <2>6. SavedInv'
    BY <1>1, <1>2 DEF SavedInv
  <2>7. "raised" \in Stage \ {"idle", "submitting"}
    BY DEF Stage
  <2>8. saved \subseteq saved' /\ saved' \subseteq [run : Calls, preview : Draft]
        /\ \A x \in saved' \ saved : x.run = k
    BY <1>1, <1>2 DEF RunTypes
  <2> QED  BY <1>2, <2>1, <2>3, <2>4, <2>5, <2>6, <2>7, <2>8, OutsideStep
<1> QED  BY <1>3, <1>4
-----------------------------------------------------------------------------
\* What a step of the exchange does to the orders: none is taken away, a
\* rejection is final, and the runs are left alone but for what is on its way.
Later ==
    /\ UNCHANGED serviceVars /\ UNCHANGED runVars
    /\ DOMAIN orders \subseteq DOMAIN orders'
    /\ counter' \in {counter, counter + 1}
    /\ \A c \in DOMAIN orders :
          /\ orders'[c].id = orders[c].id
          /\ orders'[c].placed_by = orders[c].placed_by
          /\ orders[c].status = "rejected" => orders'[c].status = "rejected"
    /\ \A c \in DOMAIN orders' \ DOMAIN orders :
          /\ orders'[c].id = counter /\ counter' = counter + 1
          /\ http[orders'[c].placed_by] # "idle"
          /\ c = Current(orders'[c].placed_by)
    /\ \A k \in Calls :
          \/ http'[k] = http[k]
          \/ /\ http[k] # "idle"
             /\ http'[k] \in {"new", "rejected"} => Current(k) \in DOMAIN orders'
             /\ http'[k] = "rejected" => orders'[Current(k)].status = "rejected"

LEMMA LaterKeeps ==
    ASSUME IndInv, Later, ExchangeTypes', http' \in [Calls -> PostState]
    PROVE  IndInv'
<1>1. /\ RunTypes /\ ExchangeTypes /\ SavedInv /\ OrdersInv
      /\ \A k \in Calls : RunInv(k)
  BY DEF IndInv
<1>2. /\ pc' = pc /\ preview' = preview /\ outcomes' = outcomes
      /\ submitted' = submitted /\ stage' = stage /\ request' = request
      /\ seen' = seen /\ saved' = saved
  BY DEF Later, serviceVars, runVars
<1>3. RunTypes'
  BY <1>1, <1>2 DEF RunTypes
<1>4. SavedInv'
  BY <1>1, <1>2 DEF SavedInv
<1>5. OrdersInv'
  <2> SUFFICES ASSUME NEW c \in DOMAIN orders'
               PROVE  (orders[c].id < counter /\ Backed(orders[c].placed_by, c))'
    BY DEF OrdersInv
  <2>1. PICK k \in Calls : k = orders'[c].placed_by
    BY DEF ExchangeTypes, Order
  <2>2. Backed(k, c) => Backed(orders[c].placed_by, c)'
    BY <1>2, <2>1 DEF Backed
  <2>3. CASE c \in DOMAIN orders
    <3>1. k = orders[c].placed_by /\ Backed(k, c) /\ orders[c].id < counter
      BY <1>1, <2>1, <2>3 DEF Later, OrdersInv
    <3>2. orders'[c].id < counter'
      BY <1>1, <2>3, <3>1 DEF Later, ExchangeTypes, Order
    <3> QED  BY <2>1, <2>2, <3>1, <3>2
  <2>4. CASE c \notin DOMAIN orders
    <3>1. http[k] # "idle" /\ c = Current(k) /\ orders'[c].id < counter'
      BY <1>1, <2>1, <2>4 DEF Later, ExchangeTypes
    <3> QED  BY <2>1, <2>2, <3>1, PostsAreBacked
  <2> QED  BY <2>3, <2>4
<1>6. ASSUME NEW k \in Calls PROVE RunInv(k)'
  <2>1. RunInv(k) /\ Current(k)' = Current(k)
    BY <1>1, <1>2 DEF Current
  <2>2. StageInv(k)' /\ SubmitInv(k)'
    BY <1>2, <2>1 DEF RunInv, StageInv, SubmitInv
  <2>3. PostInv(k)'
    <3>1. CASE http'[k] = http[k]
      BY <1>2, <2>1, <3>1 DEF RunInv, PostInv, Attempting, Later, Known
    <3>2. CASE http'[k] # http[k]
      <4>1. /\ http[k] # "idle"
            /\ http'[k] \in {"new", "rejected"} => Current(k) \in DOMAIN orders'
            /\ http'[k] = "rejected" => orders'[Current(k)].status = "rejected"
        BY <3>2 DEF Later
      <4> QED  BY <1>2, <2>1, <4>1 DEF RunInv, PostInv, Attempting, Known
    <3> QED  BY <3>1, <3>2
  <2> QED  BY <2>2, <2>3 DEF RunInv
<1> QED  BY <1>3, <1>4, <1>5, <1>6 DEF IndInv

\* A request reaches the exchange.
LEMMA ProcessIsLater ==
    ASSUME IndInv, NEW k \in Calls, Process(k, Current(k)), UNCHANGED serviceVars,
           UNCHANGED runVars
    PROVE  Later /\ ExchangeTypes' /\ http' \in [Calls -> PostState]
<1> DEFINE c == Current(k)
<1>1. RunTypes /\ ExchangeTypes
  BY DEF IndInv
<1>2. http[k] \in {"sent", "abandoned"} /\ c \in Id
  BY PostsAreBacked DEF Process
<1>3. PICK reply \in IF Known(c) \/ restricted THEN {"refused"} ELSE Answered :
         /\ http' = [http EXCEPT ![k] = IF @ = "sent" THEN reply ELSE "idle"]
         /\ IF reply = "refused"
            THEN UNCHANGED <<orders, counter>>
            ELSE /\ orders' = [d \in DOMAIN orders \cup {c} |->
                        IF d = c THEN [id |-> counter, status |-> reply,
                                       filled_quantity |-> 0, placed_by |-> k]
                        ELSE orders[d]]
                 /\ counter' = counter + 1
  BY DEF Process
<1>4. UNCHANGED <<positions, cash, equity, restricted>>
  BY DEF Process
<1>5. /\ http' \in [Calls -> PostState] /\ http'[k] \in {reply, "idle"}
      /\ \A j \in Calls \ {k} : http'[j] = http[j]
  BY <1>1, <1>3 DEF RunTypes, PostState, Answered
<1> HIDE DEF c
<1>6. CASE reply = "refused"
  <2>1. UNCHANGED <<orders, counter>>
    BY <1>3, <1>6
  <2>2. ExchangeTypes'
    BY <1>1, <1>4, <2>1 DEF ExchangeTypes
  <2>3. Later
    BY <1>2, <1>5, <1>6, <2>1 DEF Later
  <2> QED  BY <1>5, <2>2, <2>3
<1>7. CASE reply # "refused"
  <2> DEFINE new == [id |-> counter, status |-> reply, filled_quantity |-> 0,
                     placed_by |-> k]
  <2>1. /\ ~Known(c) /\ reply \in {"new", "rejected"}
        /\ orders' = [d \in DOMAIN orders \cup {c} |-> IF d = c THEN new ELSE orders[d]]
        /\ counter' = counter + 1
    BY <1>3, <1>7 DEF Answered
  <2>2. new \in Order /\ new.id = counter /\ new.placed_by = k /\ new.status = reply
    BY <1>1, <2>1 DEF Order, ExchangeTypes, OrderStatus
  <2> HIDE DEF new
  <2>3. /\ DOMAIN orders' = DOMAIN orders \cup {c} /\ orders'[c] = new
        /\ c \notin DOMAIN orders
        /\ \A d \in DOMAIN orders : orders'[d] = orders[d]
    BY <2>1 DEF Known
  <2>4. orders' \in [DOMAIN orders' -> Order]
    BY <1>1, <2>1, <2>2 DEF ExchangeTypes
  <2>5. ExchangeTypes'
    BY <1>1, <1>2, <1>4, <2>1, <2>3, <2>4 DEF ExchangeTypes
  <2>6. Later
    <3>1. \A d \in DOMAIN orders' \ DOMAIN orders :
             /\ orders'[d].id = counter /\ http[orders'[d].placed_by] # "idle"
             /\ d = Current(orders'[d].placed_by)
      BY <1>2, <2>2, <2>3 DEF c
    <3>2. \A j \in Calls :
             \/ http'[j] = http[j]
             \/ /\ http[j] # "idle"
                /\ http'[j] \in {"new", "rejected"} => Current(j) \in DOMAIN orders'
                /\ http'[j] = "rejected" => orders'[Current(j)].status = "rejected"
      BY <1>2, <1>5, <2>2, <2>3 DEF c
    <3> QED  BY <2>1, <2>3, <3>1, <3>2 DEF Later
  <2> QED  BY <1>5, <2>5, <2>6
<1> QED  BY <1>6, <1>7

\* The market and the network do what they do.
LEMMA MarketIsLater ==
    ASSUME IndInv, UNCHANGED serviceVars, UNCHANGED runVars,
           \/ \E k \in Calls : Lose(k)
           \/ \E c \in OpenOrders : \E n \in 1 .. Remaining(c) : Fill(c, n)
           \/ \E c \in OpenOrders : End(c)
           \/ Reprice
           \/ BarTrading
    PROVE  Later /\ ExchangeTypes' /\ http' \in [Calls -> PostState]
<1>1. RunTypes /\ ExchangeTypes
  BY DEF IndInv
<1>2. ASSUME NEW k \in Calls, Lose(k)
      PROVE  Later /\ ExchangeTypes' /\ http' \in [Calls -> PostState]
  <2>1. /\ http[k] # "idle"
        /\ http' = [http EXCEPT ![k] = IF @ = "abandoned" THEN "idle" ELSE "lost"]
        /\ UNCHANGED <<orders, counter, positions, cash, equity, restricted>>
    BY <1>2 DEF Lose, Answered
  <2>2. /\ http' \in [Calls -> PostState] /\ http'[k] \in {"idle", "lost"}
        /\ \A j \in Calls \ {k} : http'[j] = http[j]
    BY <1>1, <2>1 DEF RunTypes, PostState
  <2>3. ExchangeTypes'
    BY <1>1, <2>1 DEF ExchangeTypes
  <2>4. Later
    BY <2>1, <2>2 DEF Later
  <2> QED  BY <2>2, <2>3, <2>4
<1>3. ASSUME NEW c \in OpenOrders, NEW n \in 1 .. Remaining(c), Fill(c, n)
      PROVE  Later /\ ExchangeTypes' /\ http' \in [Calls -> PostState]
  <2>1. /\ c \in DOMAIN orders /\ c \in Id /\ orders[c] \in Order
        /\ orders[c].status # "rejected"
    BY <1>1, <1>3 DEF OpenOrders, OpenStatus, ExchangeTypes
  <2>2. n \in Nat /\ c.symbol \in Symbols /\ Signed(c, n) \in Int
    <3>1. Remaining(c) \in Int
      BY <2>1 DEF Remaining, Order, Id
    <3> QED  BY <2>1, <3>1 DEF Signed, Id
  <2> DEFINE new == [orders[c] EXCEPT !.filled_quantity = @ + n,
                        !.status = IF n = Remaining(c) THEN "filled"
                                   ELSE "partially_filled"]
  <2>3. /\ new \in Order /\ new.id = orders[c].id
        /\ new.placed_by = orders[c].placed_by
    <3>1. orders[c].filled_quantity + n \in Nat
      BY <2>1, <2>2 DEF Order
    <3>2. (IF n = Remaining(c) THEN "filled" ELSE "partially_filled") \in OrderStatus
      BY DEF OrderStatus
    <3> QED  BY <2>1, <3>1, <3>2 DEF Order
  <2>4. orders' = [orders EXCEPT ![c] = new]
    BY <1>3 DEF Fill
  <2> HIDE DEF new
  <2>5. /\ DOMAIN orders' = DOMAIN orders /\ orders'[c] = new
        /\ orders' \in [DOMAIN orders -> Order]
        /\ \A d \in DOMAIN orders \ {c} : orders'[d] = orders[d]
    BY <1>1, <2>1, <2>3, <2>4 DEF ExchangeTypes
  <2>6. positions' \in [Symbols -> Int] /\ cash' \in Int
    <3>1. FillPrice[c.symbol] \in Int
      BY <2>2, PaperAssumption
    <3> QED  BY <1>1, <1>3, <2>2, <3>1 DEF Fill, ExchangeTypes
  <2>7. UNCHANGED <<counter, equity, restricted, http>>
    BY <1>3 DEF Fill
  <2>8. ExchangeTypes'
    BY <1>1, <2>5, <2>6, <2>7 DEF ExchangeTypes
  <2>9. Later
    BY <2>1, <2>3, <2>5, <2>7 DEF Later
  <2> QED  BY <1>1, <2>7, <2>8, <2>9 DEF RunTypes
<1>4. ASSUME NEW c \in OpenOrders, End(c)
      PROVE  Later /\ ExchangeTypes' /\ http' \in [Calls -> PostState]
  <2>1. c \in DOMAIN orders /\ orders[c] \in Order
    BY <1>1 DEF OpenOrders, ExchangeTypes
  <2> DEFINE new == [orders[c] EXCEPT !.status = "rejected"]
  <2>2. /\ new \in Order /\ new.id = orders[c].id /\ new.status = "rejected"
        /\ new.placed_by = orders[c].placed_by
    BY <2>1 DEF Order, OrderStatus
  <2>3. orders' = [orders EXCEPT ![c] = new]
    BY <1>4 DEF End
  <2> HIDE DEF new
  <2>4. /\ DOMAIN orders' = DOMAIN orders /\ orders'[c] = new
        /\ orders' \in [DOMAIN orders -> Order]
        /\ \A d \in DOMAIN orders \ {c} : orders'[d] = orders[d]
    BY <1>1, <2>1, <2>2, <2>3 DEF ExchangeTypes
  <2>5. UNCHANGED <<counter, positions, cash, equity, restricted, http>>
    BY <1>4 DEF End
  <2>6. ExchangeTypes'
    BY <1>1, <2>4, <2>5 DEF ExchangeTypes
  <2>7. Later
    BY <2>1, <2>2, <2>4, <2>5 DEF Later
  <2> QED  BY <1>1, <2>5, <2>6, <2>7 DEF RunTypes
<1>5. CASE Reprice \/ BarTrading
  <2>1. /\ UNCHANGED <<orders, counter, positions, cash, http>>
        /\ equity' \in Int /\ restricted' \in BOOLEAN
    BY <1>1, <1>5, PaperAssumption DEF Reprice, BarTrading, ExchangeTypes
  <2>2. ExchangeTypes'
    BY <1>1, <2>1 DEF ExchangeTypes
  <2>3. Later
    BY <2>1 DEF Later
  <2> QED  BY <1>1, <2>1, <2>2, <2>3 DEF RunTypes
<1> QED  BY <1>2, <1>3, <1>4, <1>5
-----------------------------------------------------------------------------
(* The invariant is inductive, and so holds always: whatever the runs, the *)
(* exchange, the market and the network do, in whatever order.             *)
THEOREM Invariance == Spec => []IndInv
<1>1. Init => IndInv
  <2> SUFFICES ASSUME Init PROVE IndInv
    OBVIOUS
  <2>1. NoPreview \in Draft /\ <<>> \in Seq(Outcome) /\ <<>> \in Seq(Views)
    BY DEF NoPreview, Draft
  <2>2. RunTypes
    BY <2>1, PaperAssumption
       DEF Init, ServiceInit, ExchangeInit, RunTypes, Place, PostState, Stage
  <2>3. ExchangeTypes
    BY PaperAssumption DEF Init, ExchangeInit, ExchangeTypes
  <2>4. SavedInv /\ OrdersInv
    BY DEF Init, ExchangeInit, SavedInv, OrdersInv
  <2>5. ASSUME NEW k \in Calls PROVE RunInv(k)
    <3>1. /\ pc[k] = "idle" /\ outcomes[k] = <<>> /\ http[k] = "idle"
          /\ stage[k] = "idle" /\ seen[k] = <<>> /\ saved = {}
      BY PaperAssumption DEF Init, ServiceInit, ExchangeInit
    <3>2. DOMAIN seen[k] = {}
      BY <3>1
    <3> QED
      BY <3>1, <3>2 DEF RunInv, StageInv, SubmitInv, PostInv, InLoop
  <2> QED  BY <2>2, <2>3, <2>4, <2>5 DEF IndInv
<1>2. IndInv /\ [Next]_vars => IndInv'
  <2> SUFFICES ASSUME IndInv, [Next]_vars PROVE IndInv'
    OBVIOUS
  <2>1. ASSUME NEW k \in Calls,
               (\E r \in Requests : Start(k, r)) \/ Advance(k) \/ Crash(k)
        PROVE  IndInv'
    BY <2>1, StartKeeps, AdvanceKeeps, CrashKeeps
  <2>2. CASE Exchange
    <3>1. UNCHANGED serviceVars /\ UNCHANGED runVars
      BY <2>2 DEF Exchange
    <3>2. Later /\ ExchangeTypes' /\ http' \in [Calls -> PostState]
      BY <2>2, <3>1, ProcessIsLater, MarketIsLater DEF Exchange
    <3> QED  BY <3>2, LaterKeeps
  <2>3. CASE UNCHANGED vars
    <3>1. /\ UNCHANGED serviceVars /\ UNCHANGED runVars
          /\ UNCHANGED <<orders, counter, positions, cash, equity, restricted, http>>
      BY <2>3 DEF vars, serviceVars, runVars
    <3>2. ExchangeTypes' /\ http' \in [Calls -> PostState]
      BY <3>1 DEF IndInv, ExchangeTypes, RunTypes
    <3>3. Later
      BY <3>1 DEF Later
    <3> QED  BY <3>2, <3>3, LaterKeeps
  <2> QED  BY <2>1, <2>2, <2>3 DEF Next
<1> QED  BY <1>1, <1>2, PTL DEF Spec

(* Evidence before action: every order at the exchange, and every request  *)
(* on its way to it, stems from a submitting run in the paper environment  *)
(* that had committed an unblocked preview of it on a healthy snapshot of  *)
(* the expected session.                                                   *)
THEOREM EvidenceBeforeAction == Spec => []OrdersAreBackedByEvidence
<1>1. IndInv => OrdersAreBackedByEvidence
  BY PostsAreBacked DEF IndInv, OrdersInv, OrdersAreBackedByEvidence
<1> QED  BY <1>1, Invariance, PTL
-----------------------------------------------------------------------------
\* The ledger is kept per client order id, so Cids has to be every id there
\* is.  A run of TLC has only some share counts: ids are finite there.
EveryIdCounts == Id \subseteq Cids

\* A call is told one more thing, and it is so.
LEMMA SettleReplies ==
    ASSUME EveryIdCounts, IndInv, NEW k \in Calls, pc[k] \in InLoop,
           NEW status \in OutcomeStatus, NEW counted, Settle(k, status, counted),
           UNCHANGED orders,
           status \in {"submitted", "already_existed", "rejected"} => Known(Current(k)),
           status = "rejected" => orders[Current(k)].status = "rejected"
    PROVE  Ledger!Reply
<1> DEFINE o == [client_order_id |-> Current(k), status |-> status]
           a == AnswerOf(o)
<1>1. RunTypes /\ Len(outcomes[k]) < Len(preview[k].intents)
  BY DEF IndInv, RunInv, PostInv
<1>2. Current(k) \in Cids
  BY <1>1, CurrentIsAnIntent DEF EveryIdCounts
<1>3. /\ outcomes' = [outcomes EXCEPT ![k] = Append(outcomes[k], o)]
      /\ outcomes[k] \in Seq(Outcome)
  BY <1>1 DEF Settle, RunTypes
<1>4. /\ a.client_order_id = Current(k) /\ a.verdict = Verdict(status)
      /\ a \in Ledger!Answer
  BY <1>2 DEF AnswerOf, Verdict, OutcomeStatus, Ledger!Answer
<1>5. Ledger!Truthful(a)
  <2>1. a.verdict \in {"exists", "rejected"} => Known(Current(k))
    BY <1>4 DEF Verdict, OutcomeStatus
  <2>2. a.verdict = "rejected" => Current(k) \in rejectedBar'
    BY <1>4 DEF Verdict, OutcomeStatus, rejectedBar, Known
  <2>3. Known(Current(k)) => ledgerBar'[Current(k)] # {}
    BY <1>2 DEF ledgerBar, Known
  <2> QED  BY <1>4, <2>1, <2>2, <2>3 DEF Ledger!Truthful
<1> HIDE DEF o
<1>6. /\ DOMAIN Append(outcomes[k], o) = DOMAIN outcomes[k] \cup {Len(outcomes[k]) + 1}
      /\ \A i \in DOMAIN outcomes[k] : Append(outcomes[k], o)[i] = outcomes[k][i]
      /\ Append(outcomes[k], o)[Len(outcomes[k]) + 1] = o
  BY <1>3
<1>7. {AnswerOf(Append(outcomes[k], o)[i]) : i \in DOMAIN Append(outcomes[k], o)}
         = {AnswerOf(outcomes[k][i]) : i \in DOMAIN outcomes[k]} \cup {AnswerOf(o)}
  BY <1>6
<1> HIDE DEF a
<1>8. answersBar' = [answersBar EXCEPT ![k] = @ \cup {a}]
  <2>1. /\ outcomes'[k] = Append(outcomes[k], o)
        /\ \A j \in Calls \ {k} : outcomes'[j] = outcomes[j]
    BY <1>1, <1>3 DEF RunTypes
  <2> QED  BY <1>7, <2>1 DEF answersBar, a
<1>9. answersBar'[k] \ answersBar[k] \subseteq {a}
  BY <1>8 DEF answersBar
<1>10. answersBar' = [answersBar EXCEPT ![k] = @ \cup (answersBar'[k] \ answersBar[k])]
  BY <1>8 DEF answersBar
<1> QED  BY <1>4, <1>5, <1>9, <1>10 DEF Ledger!Reply

\* A blocked preview is answered at once, with refusals only.
LEMMA RefusalReplies ==
    ASSUME EveryIdCounts, IndInv, NEW k \in Calls, pc[k] = "idle",
           NEW p \in Draft, Submit(k, p)
    PROVE  Ledger!Reply \/ UNCHANGED answersBar
<1> DEFINE refused == [i \in DOMAIN p.intents |->
                 [client_order_id |-> p.intents[i], status |-> "blocked"]]
           given(f) == {AnswerOf(f[i]) : i \in DOMAIN f}
<1>1. outcomes[k] = <<>> /\ outcomes \in [Calls -> Seq(Outcome)]
  BY DEF IndInv, RunInv, SubmitInv, RunTypes
<1>2. CASE outcomes' = outcomes
  BY <1>2 DEF answersBar
<1>3. CASE outcomes' = [outcomes EXCEPT ![k] = refused]
  <2>1. /\ answersBar = [j \in Calls |-> given(outcomes[j])]
        /\ answersBar' = [j \in Calls |-> given(outcomes'[j])]
    BY DEF answersBar
  <2>2. given(<<>>) = {}
    OBVIOUS
  <2>3. ASSUME NEW a \in given(refused)
        PROVE  a \in Ledger!Answer /\ a.verdict = "refused"
    <3>1. PICK i \in DOMAIN p.intents : a = AnswerOf(refused[i])
      BY <2>3
    <3>2. /\ refused[i].client_order_id = p.intents[i]
          /\ refused[i].status = "blocked" /\ p.intents[i] \in Cids
      BY <3>1 DEF Draft, EveryIdCounts
    <3>3. a = [client_order_id |-> p.intents[i], verdict |-> "refused"]
      BY <3>1, <3>2 DEF AnswerOf, Verdict
    <3> QED  BY <3>2, <3>3 DEF Ledger!Answer
  <2>4. /\ answersBar[k] = {} /\ answersBar'[k] = given(refused)
        /\ answersBar' = [answersBar EXCEPT ![k] = answersBar'[k]]
    <3>1. /\ outcomes'[k] = refused
          /\ \A j \in Calls \ {k} : outcomes'[j] = outcomes[j]
      BY <1>1, <1>3
    <3> HIDE DEF given, refused
    <3> QED  BY <1>1, <2>1, <2>2, <3>1
  <2> HIDE DEF given, refused
  <2>5. \A a \in answersBar'[k] \ answersBar[k] :
           a \in Ledger!Answer /\ Ledger!Truthful(a)
    BY <2>3, <2>4 DEF Ledger!Truthful
  <2>6. answersBar' = [answersBar EXCEPT ![k] = @ \cup (answersBar'[k] \ answersBar[k])]
    BY <2>4
  <2> QED  BY <2>5, <2>6 DEF Ledger!Reply
<1> QED  BY <1>2, <1>3 DEF Submit

\* What a run does leaves the ledger alone, and tells its caller the truth.
LEMMA RunReplies ==
    ASSUME EveryIdCounts, IndInv, NEW k \in Calls,
           (\E r \in Requests : Start(k, r)) \/ Advance(k) \/ Crash(k)
    PROVE  UNCHANGED orders /\ (Ledger!Reply \/ UNCHANGED answersBar)
<1>1. RunTypes /\ RunInv(k)
  BY DEF IndInv
<1>2. ASSUME UNCHANGED outcomes PROVE UNCHANGED answersBar
  BY <1>2 DEF answersBar
<1>3. CASE (\E r \in Requests : Start(k, r)) \/ Read(k) \/ SavePreview(k)
  BY <1>2, <1>3 DEF Start, Read, SavePreview, serviceVars, exchangeVars
<1>4. CASE Crash(k)
  BY <1>2, <1>4 DEF Crash, GoTo, serviceVars
<1>5. CASE Decide(k)
  <2>1. UNCHANGED orders /\ stage[k] = "deciding"
    BY <1>5 DEF Decide, exchangeVars
  <2>2. CASE Submit(k, SavedBy(k))
    <3>1. SavedBy(k) \in Draft
      BY <1>1, <2>1 DEF RunInv, StageInv, SavedBy, RunTypes
    <3>2. pc[k] = "idle"
      BY <2>2 DEF Submit
    <3> QED  BY <2>1, <2>2, <3>1, <3>2, RefusalReplies
  <2>3. CASE UNCHANGED serviceVars
    BY <1>2, <2>1, <2>3 DEF serviceVars
  <2> QED  BY <1>5, <2>2, <2>3 DEF Decide
<1>6. CASE Check(k)
  <2>1. UNCHANGED orders /\ pc[k] \in InLoop
    BY <1>6 DEF Check, CheckExisting, exchangeVars, InLoop
  <2>2. CASE Known(Current(k)) /\ Settle(k, "already_existed", TRUE)
    BY <2>1, <2>2, SettleReplies DEF OutcomeStatus
  <2>3. CASE GoTo(k, "submit")
    BY <1>2, <2>1, <2>3 DEF GoTo
  <2> QED  BY <1>6, <2>2, <2>3 DEF Check, CheckExisting
<1>7. CASE Post(k)
  BY <1>2, <1>7 DEF Post, SetPost, serviceVars
<1>8. CASE Receive(k)
  <2>1. UNCHANGED orders /\ pc[k] \in InLoop /\ http[k] \in Answered
    BY <1>8 DEF Receive, SetPost, Attempting, InLoop
  <2>2. CASE http[k] = "refused"
    BY <1>2, <1>8, <2>1, <2>2 DEF Receive, Raised, GoTo
  <2>3. CASE http[k] # "refused"
    <3> DEFINE status == OrderStatusToOutcome(http[k])
    <3>1. Settle(k, status, status = "submitted")
      BY <1>8, <2>3 DEF Receive, Returned
    <3>2. /\ status \in OutcomeStatus /\ Known(Current(k))
          /\ status = "rejected" => orders[Current(k)].status = "rejected"
      BY <1>1, <2>1, <2>3 DEF OrderStatusToOutcome, OutcomeStatus, Answered, RunInv,
                              PostInv
    <3> HIDE DEF status
    <3> QED  BY <2>1, <3>1, <3>2, SettleReplies
  <2> QED  BY <2>2, <2>3
<1>9. CASE GiveUp(k)
  BY <1>2, <1>9 DEF GiveUp, SetPost, Raised, GoTo
<1> QED  BY <1>3, <1>4, <1>5, <1>6, <1>7, <1>8, <1>9 DEF Advance

\* What the exchange does enters an order, ends one, or leaves the ledger alone.
LEMMA ExchangeEnters ==
    ASSUME EveryIdCounts, IndInv, Exchange
    PROVE  /\ Ledger!Place \/ Ledger!Cancel \/ UNCHANGED <<ledgerBar, rejectedBar>>
           /\ UNCHANGED answersBar
<1>1. RunTypes /\ ExchangeTypes /\ OrdersInv
  BY DEF IndInv
<1>2. UNCHANGED answersBar
  BY DEF Exchange, serviceVars, answersBar
<1>3. ASSUME UNCHANGED orders PROVE UNCHANGED <<ledgerBar, rejectedBar>>
  BY <1>3 DEF ledgerBar, rejectedBar, Known
<1>4. ASSUME NEW k \in Calls, Process(k, Current(k))
      PROVE  Ledger!Place \/ UNCHANGED <<ledgerBar, rejectedBar>>
  <2> DEFINE c == Current(k)
  <2>1. c \in Cids
    BY <1>4, PostsAreBacked DEF Process, EveryIdCounts
  <2>2. \/ UNCHANGED orders
        \/ /\ c \notin DOMAIN orders
           /\ \E reply : orders' = [d \in DOMAIN orders \cup {c} |->
                  IF d = c THEN [id |-> counter, status |-> reply,
                                 filled_quantity |-> 0, placed_by |-> k]
                  ELSE orders[d]]
    BY <1>4 DEF Process, Known
  <2>3. ASSUME c \notin DOMAIN orders, NEW new, new.id = counter,
               orders' = [d \in DOMAIN orders \cup {c} |->
                             IF d = c THEN new ELSE orders[d]]
        PROVE  Ledger!Place
    <3> HIDE DEF c
    <3>1. /\ DOMAIN orders' = DOMAIN orders \cup {c} /\ orders'[c].id = counter
          /\ \A d \in DOMAIN orders : orders'[d] = orders[d]
      BY <2>3
    <3>2. ledgerBar[c] = {} /\ ledgerBar'[c] = {counter}
      BY <2>1, <2>3, <3>1 DEF ledgerBar, Known
    <3>3. \A d \in Cids : counter \notin ledgerBar[d]
      BY <1>1 DEF ledgerBar, Known, OrdersInv, ExchangeTypes, Order
    <3>4. ledgerBar' = [ledgerBar EXCEPT ![c] = {counter}]
      BY <2>1, <3>1 DEF ledgerBar, Known
    <3>5. rejectedBar' \in {rejectedBar, rejectedBar \cup {c}}
      BY <2>3, <3>1 DEF rejectedBar
    <3> QED  BY <2>1, <3>2, <3>3, <3>4, <3>5 DEF Ledger!Place
  <2> QED
    <3>1. CASE UNCHANGED orders
      BY <1>3, <3>1
    <3>2. ASSUME c \notin DOMAIN orders, NEW reply,
                 orders' = [d \in DOMAIN orders \cup {c} |->
                  IF d = c THEN [id |-> counter, status |-> reply,
                                 filled_quantity |-> 0, placed_by |-> k]
                  ELSE orders[d]]
          PROVE  Ledger!Place
      <4> DEFINE new == [id |-> counter, status |-> reply, filled_quantity |-> 0,
                         placed_by |-> k]
      <4>1. new.id = counter
        OBVIOUS
      <4>2. orders' = [d \in DOMAIN orders \cup {c} |-> IF d = c THEN new ELSE orders[d]]
        BY <3>2
      <4> HIDE DEF new, c
      <4> QED  BY <2>3, <3>2, <4>1, <4>2
    <3> QED  BY <2>2, <3>1, <3>2
<1>5. ASSUME NEW c \in OpenOrders, NEW n \in 1 .. Remaining(c), Fill(c, n)
      PROVE  UNCHANGED <<ledgerBar, rejectedBar>>
  <2>1. /\ DOMAIN orders' = DOMAIN orders
        /\ \A d \in DOMAIN orders : orders'[d].id = orders[d].id
        /\ \A d \in DOMAIN orders :
              (orders'[d].status = "rejected") <=> (orders[d].status = "rejected")
    <3>1. /\ c \in DOMAIN orders /\ orders[c] \in Order
          /\ orders[c].status # "rejected"
      BY <1>1 DEF OpenOrders, OpenStatus, ExchangeTypes
    <3> DEFINE new == [orders[c] EXCEPT !.filled_quantity = @ + n,
                          !.status = IF n = Remaining(c) THEN "filled"
                                     ELSE "partially_filled"]
    <3>2. new.id = orders[c].id /\ new.status # "rejected"
      BY <3>1 DEF Order
    <3>3. orders' = [orders EXCEPT ![c] = new]
      BY <1>5 DEF Fill
    <3> HIDE DEF new
    <3> QED  BY <1>1, <3>1, <3>2, <3>3 DEF ExchangeTypes
  <2> QED  BY <2>1 DEF ledgerBar, rejectedBar, Known
<1>6. ASSUME NEW c \in OpenOrders, End(c)
      PROVE  Ledger!Cancel
  <2>1. c \in DOMAIN orders /\ c \in Cids /\ orders[c] \in Order
    BY <1>1 DEF OpenOrders, ExchangeTypes, EveryIdCounts
  <2> DEFINE new == [orders[c] EXCEPT !.status = "rejected"]
  <2>2. new.id = orders[c].id /\ new.status = "rejected"
    BY <2>1 DEF Order
  <2>3. orders' = [orders EXCEPT ![c] = new]
    BY <1>6 DEF End
  <2> HIDE DEF new
  <2>4. /\ DOMAIN orders' = DOMAIN orders /\ orders'[c] = new
        /\ \A d \in DOMAIN orders \ {c} : orders'[d] = orders[d]
    BY <2>1, <2>3, <1>1 DEF ExchangeTypes
  <2>5. ledgerBar' = ledgerBar /\ ledgerBar[c] # {}
    BY <2>1, <2>2, <2>4 DEF ledgerBar, Known
  <2>6. rejectedBar' = rejectedBar \cup {c}
    BY <2>1, <2>2, <2>4 DEF rejectedBar
  <2> QED  BY <2>1, <2>5, <2>6 DEF Ledger!Cancel
<1>7. CASE (\E k \in Calls : Lose(k)) \/ Reprice \/ BarTrading
  <2>1. UNCHANGED orders
    BY <1>7 DEF Lose, Reprice, BarTrading
  <2> QED  BY <1>2, <1>3, <2>1
<1> QED  BY <1>2, <1>4, <1>5, <1>6, <1>7 DEF Exchange

(* Any number of runs, each of which may die at any point and be followed  *)
(* by others, over an exchange that may lose, delay or refuse what it is   *)
(* sent, implement the order ledger: at most one order per intent, ever,   *)
(* and no run is told what is not so.                                      *)
THEOREM ImplementsLedger ==
    ASSUME EveryIdCounts
    PROVE  Spec => KeepsLedger
<1>1. Init => Ledger!Init
  BY PaperAssumption DEF Init, ServiceInit, ExchangeInit, Ledger!Init, ledgerBar,
                         rejectedBar, answersBar, Known
<1>2. ASSUME IndInv, Next
      PROVE  Ledger!Next
  <2>1. ASSUME UNCHANGED orders PROVE UNCHANGED <<ledgerBar, rejectedBar>>
    BY <2>1 DEF ledgerBar, rejectedBar, Known
  <2> QED
    BY <1>2, <2>1, RunReplies, ExchangeEnters DEF Next, Ledger!Next
<1>3. ASSUME UNCHANGED vars
      PROVE  UNCHANGED <<ledgerBar, rejectedBar, answersBar>>
  BY <1>3 DEF vars, ledgerBar, rejectedBar, answersBar, Known
<1>4. IndInv /\ [Next]_vars => [Ledger!Next]_<<ledgerBar, rejectedBar, answersBar>>
  BY <1>2, <1>3
<1> QED
  BY <1>1, <1>4, Invariance, PTL DEF Spec, KeepsLedger, Ledger!Spec
-----------------------------------------------------------------------------
\* A step of a run leaves the others, and what is at the exchange, alone.
LEMMA RunAlone ==
    ASSUME IndInv, NEW k \in Calls,
           (\E r \in Requests : Start(k, r)) \/ Advance(k) \/ Crash(k)
    PROVE  OthersAlone(k) /\ equity' = equity
<1>1. RunTypes /\ \A r \in saved : r.run \in Calls
  BY DEF IndInv, RunTypes
<1>2. CASE \E r \in Requests : Start(k, r)
  BY <1>1, <1>2 DEF Start, OthersAlone, RunTypes, serviceVars, exchangeVars
<1>3. CASE Read(k)
  BY <1>1, <1>3 DEF Read, MoveTo, OthersAlone, RunTypes, serviceVars, exchangeVars
<1>4. CASE SavePreview(k)
  <2>1. PICK p : saved' = saved \cup {[run |-> k, preview |-> p]}
    BY <1>4 DEF SavePreview
  <2>2. /\ stage' = [stage EXCEPT ![k] = "deciding"]
        /\ seen' = [seen EXCEPT ![k] = <<>>]
        /\ UNCHANGED <<request, serviceVars, exchangeVars>>
    BY <1>4 DEF SavePreview
  <2> QED  BY <1>1, <2>1, <2>2 DEF OthersAlone, RunTypes, serviceVars, exchangeVars
<1>5. CASE Decide(k)
  <2>1. Submit(k, SavedBy(k)) \/ UNCHANGED serviceVars
    BY <1>5 DEF Decide
  <2>2. \A j \in Calls \ {k} :
           pc'[j] = pc[j] /\ preview'[j] = preview[j] /\ outcomes'[j] = outcomes[j]
    BY <1>1, <2>1 DEF Submit, RunTypes, serviceVars
  <2>3. /\ stage' \in {[stage EXCEPT ![k] = "done"], [stage EXCEPT ![k] = "submitting"]}
        /\ UNCHANGED <<request, saved, seen, exchangeVars>>
    BY <1>5 DEF Decide, MoveTo
  <2> QED  BY <1>1, <2>2, <2>3 DEF OthersAlone, RunTypes, exchangeVars
<1>6. CASE Check(k)
  <2>1. \A j \in Calls \ {k} :
           pc'[j] = pc[j] /\ preview'[j] = preview[j] /\ outcomes'[j] = outcomes[j]
    BY <1>1, <1>6 DEF Check, CheckExisting, Settle, GoTo, RunTypes
  <2> QED  BY <1>1, <1>6, <2>1 DEF Check, OthersAlone, runVars, exchangeVars
<1>7. CASE Post(k)
  BY <1>1, <1>7 DEF Post, SetPost, OthersAlone, RunTypes, runVars, serviceVars
<1>8. CASE Receive(k) \/ GiveUp(k)
  <2>1. \A j \in Calls \ {k} :
           pc'[j] = pc[j] /\ preview'[j] = preview[j] /\ outcomes'[j] = outcomes[j]
    BY <1>1, <1>8 DEF Receive, GiveUp, Raised, Returned, Settle, GoTo, RunTypes
  <2>2. \E state : SetPost(k, state)
    BY <1>8 DEF Receive, GiveUp
  <2> QED  BY <1>1, <2>1, <2>2 DEF SetPost, OthersAlone, RunTypes, runVars
<1>9. CASE Crash(k)
  <2>1. /\ GoTo(k, "raised") \/ UNCHANGED serviceVars
        /\ stage' = [stage EXCEPT ![k] = "raised"] \/ UNCHANGED stage
    BY <1>9 DEF Crash
  <2>2. \A j \in Calls \ {k} :
           /\ pc'[j] = pc[j] /\ preview'[j] = preview[j] /\ outcomes'[j] = outcomes[j]
           /\ stage'[j] = stage[j]
    BY <1>1, <2>1 DEF GoTo, RunTypes, serviceVars
  <2> QED  BY <1>1, <1>9, <2>2 DEF Crash, OthersAlone, RunTypes
<1> QED  BY <1>2, <1>3, <1>4, <1>5, <1>6, <1>7, <1>8, <1>9 DEF Advance

(* What a run has read of the positions, in the order it has read it: while *)
(* only one side of a symbol has traded, they only go that way.            *)
PositionReads == {2, 5, 7}
Bought(s) == "buy" \in SidesTraded(s)
Sold(s) == "sell" \in SidesTraded(s)

ReadsInv(k) ==
    /\ \A i \in PositionReads \cap DOMAIN seen[k] :
          /\ seen[k][i] \in [Symbols -> Int]
          /\ \A s \in Symbols :
                /\ ~Sold(s) => seen[k][i][s] <= positions[s]
                /\ ~Bought(s) => seen[k][i][s] >= positions[s]
    /\ \A i, j \in PositionReads \cap DOMAIN seen[k] : i < j =>
          \A s \in Symbols :
             /\ ~Sold(s) => seen[k][i][s] <= seen[k][j][s]
             /\ ~Bought(s) => seen[k][i][s] >= seen[k][j][s]

\* What has traded stays traded, and only what trades moves a position.
OneWay ==
    /\ \A s \in Symbols : SidesTraded(s) \subseteq SidesTraded(s)'
    /\ \A s \in Symbols :
          /\ ~Sold(s)' => positions[s] <= positions'[s]
          /\ ~Bought(s)' => positions[s] >= positions'[s]

LEMMA StepsAreOneWay ==
    ASSUME IndInv, [Next]_vars
    PROVE  OneWay
<1>1. RunTypes /\ ExchangeTypes
  BY DEF IndInv
<1>2. ASSUME UNCHANGED <<orders, positions>> PROVE OneWay
  BY <1>1, <1>2 DEF OneWay, SidesTraded, ExchangeTypes
<1>3. ASSUME NEW k \in Calls,
             (\E r \in Requests : Start(k, r)) \/ Advance(k) \/ Crash(k)
      PROVE  OneWay
  BY <1>2, <1>3, RunAlone DEF OthersAlone
<1>4. ASSUME NEW c \in OpenOrders, NEW n \in 1 .. Remaining(c), Fill(c, n)
      PROVE  OneWay
  <2>1. /\ c \in DOMAIN orders /\ c \in Id /\ orders[c] \in Order /\ n \in Nat \ {0}
        /\ orders[c].filled_quantity \in Nat
    BY <1>1 DEF OpenOrders, ExchangeTypes, Order, Remaining, Id
  <2>2. /\ DOMAIN orders' = DOMAIN orders
        /\ orders'[c].filled_quantity = orders[c].filled_quantity + n
        /\ \A d \in DOMAIN orders \ {c} : orders'[d] = orders[d]
    BY <1>1, <1>4, <2>1 DEF Fill, ExchangeTypes, Order
  <2>3. /\ positions'[c.symbol] = positions[c.symbol] + Signed(c, n)
        /\ \A s \in Symbols \ {c.symbol} : positions'[s] = positions[s]
    BY <1>1, <1>4, <2>1 DEF Fill, ExchangeTypes, Id
  <2>4. ASSUME NEW s \in Symbols PROVE SidesTraded(s) \subseteq SidesTraded(s)'
    <3> SUFFICES ASSUME NEW d \in DOMAIN orders, d.symbol = s,
                        orders[d].filled_quantity > 0
                 PROVE  orders'[d].filled_quantity > 0
      BY <2>2 DEF SidesTraded
    <3> QED  BY <2>1, <2>2
  <2>5. c.side \in SidesTraded(c.symbol)'
    BY <2>1, <2>2 DEF SidesTraded
  <2>6. ASSUME NEW s \in Symbols
        PROVE  /\ ~Sold(s)' => positions[s] <= positions'[s]
               /\ ~Bought(s)' => positions[s] >= positions'[s]
    BY <1>1, <2>1, <2>3, <2>5 DEF Sold, Bought, Signed, ExchangeTypes, Id
  <2> QED  BY <2>4, <2>6 DEF OneWay
<1>5. ASSUME NEW c \in OpenOrders, End(c) PROVE OneWay
  <2>1. /\ DOMAIN orders' = DOMAIN orders /\ positions' = positions
        /\ \A d \in DOMAIN orders : orders'[d].filled_quantity = orders[d].filled_quantity
    BY <1>1, <1>5 DEF End, ExchangeTypes, Order, OpenOrders
  <2> QED  BY <1>1, <2>1 DEF OneWay, SidesTraded, ExchangeTypes
<1>6. ASSUME NEW k \in Calls, Process(k, Current(k)) PROVE OneWay
  <2>1. /\ DOMAIN orders \subseteq DOMAIN orders' /\ positions' = positions
        /\ \A d \in DOMAIN orders : orders'[d] = orders[d]
        /\ \A d \in DOMAIN orders' \ DOMAIN orders : orders'[d].filled_quantity = 0
    BY <1>6 DEF Process, Known
  <2>2. \A s \in Symbols : SidesTraded(s) \subseteq SidesTraded(s)'
    BY <2>1 DEF SidesTraded
  <2> QED  BY <1>1, <2>1, <2>2 DEF OneWay, ExchangeTypes
<1>7. CASE (\E k \in Calls : Lose(k)) \/ Reprice \/ BarTrading \/ UNCHANGED vars
  BY <1>2, <1>7 DEF Lose, Reprice, BarTrading, vars
<1> QED  BY <1>3, <1>4, <1>5, <1>6, <1>7 DEF Next, Exchange

LEMMA ReadsKept ==
    ASSUME IndInv, IndInv', [Next]_vars, NEW k \in Calls, ReadsInv(k)
    PROVE  ReadsInv(k)'
<1>1. RunTypes /\ ExchangeTypes /\ ExchangeTypes' /\ StageInv(k) /\ OneWay
  BY StepsAreOneWay DEF IndInv, RunInv
<1>2. /\ \A s \in Symbols : positions[s] \in Int /\ positions'[s] \in Int
      /\ \A s \in Symbols : (~Sold(s)' => ~Sold(s)) /\ (~Bought(s)' => ~Bought(s))
  BY <1>1 DEF ExchangeTypes, OneWay, Sold, Bought
<1>3. ASSUME seen'[k] = seen[k] PROVE ReadsInv(k)'
  <2>1. ASSUME NEW i \in PositionReads \cap DOMAIN seen[k], NEW s \in Symbols
        PROVE  /\ ~Sold(s)' => seen[k][i][s] <= positions'[s]
               /\ ~Bought(s)' => seen[k][i][s] >= positions'[s]
    <3>1. seen[k][i][s] \in Int
      BY DEF ReadsInv
    <3> QED  BY <1>1, <1>2, <3>1 DEF ReadsInv, OneWay
  <2> QED  BY <1>2, <1>3, <2>1 DEF ReadsInv
<1>4. ASSUME seen'[k] = <<>> PROVE ReadsInv(k)'
  BY <1>4 DEF ReadsInv
<1>5. CASE Read(k)
  <2> DEFINE n == Len(seen[k]) + 1
             view == View(Reads[n])
  <2>1. seen[k] \in Seq(Views) /\ Len(seen[k]) < 8 /\ n \in 1 .. 8
    BY <1>1, <1>5 DEF Read, RunTypes, StageInv, Reads
  <2>2. view = View(Reads[n])
    OBVIOUS
  <2> HIDE DEF view
  <2>3. n \in PositionReads => view = positions
    BY <2>1, <2>2 DEF PositionReads, Reads, View
  <2>4. seen'[k] = Append(seen[k], view) /\ positions' = positions
    BY <1>1, <1>5, <2>2 DEF Read, RunTypes, exchangeVars
  <2>5. view \in Views
    <3>1. Reads[n] \in {"account", "positions", "open_orders"}
      BY <2>1 DEF Reads
    <3>2. /\ View("account") \in Account /\ View("positions") \in [Symbols -> Int]
          /\ View("open_orders") \in SUBSET Id
      BY <1>1 DEF View, Account, ExchangeTypes, OpenOrders
    <3> QED  BY <2>2, <3>1, <3>2 DEF Views
  <2>6. /\ DOMAIN seen'[k] = 1 .. n /\ DOMAIN seen[k] = 1 .. n - 1 /\ seen'[k][n] = view
        /\ \A i \in 1 .. n - 1 : seen'[k][i] = seen[k][i]
    BY <2>1, <2>4, <2>5
  <2>7. \A s \in Symbols : Sold(s)' = Sold(s) /\ Bought(s)' = Bought(s)
    BY <1>5 DEF Read, exchangeVars, Sold, Bought, SidesTraded
  <2> HIDE DEF n
  <2>8. ASSUME NEW i \in PositionReads \cap DOMAIN seen'[k]
        PROVE  \/ i = n /\ seen'[k][i] = positions
               \/ i < n /\ i \in PositionReads \cap DOMAIN seen[k] /\ seen'[k][i] = seen[k][i]
    BY <2>1, <2>3, <2>6
  <2>9. positions \in [Symbols -> Int] /\ PositionReads \subseteq Nat
    BY <1>1 DEF ExchangeTypes, PositionReads
  <2>10. ASSUME NEW i \in PositionReads \cap DOMAIN seen'[k]
         PROVE  /\ seen'[k][i] \in [Symbols -> Int]
                /\ \A s \in Symbols :
                      /\ ~Sold(s)' => seen'[k][i][s] <= positions'[s]
                      /\ ~Bought(s)' => seen'[k][i][s] >= positions'[s]
    BY <2>4, <2>7, <2>8, <2>9 DEF ReadsInv
  <2>11. ASSUME NEW i \in PositionReads \cap DOMAIN seen'[k],
                NEW j \in PositionReads \cap DOMAIN seen'[k], i < j, NEW s \in Symbols
         PROVE  /\ ~Sold(s)' => seen'[k][i][s] <= seen'[k][j][s]
                /\ ~Bought(s)' => seen'[k][i][s] >= seen'[k][j][s]
    <3>1. i < n /\ i \in PositionReads \cap DOMAIN seen[k] /\ seen'[k][i] = seen[k][i]
      BY <2>1, <2>8, <2>9, <2>11
    <3>2. CASE j = n
      BY <2>7, <2>8, <2>9, <3>1, <3>2 DEF ReadsInv
    <3>3. CASE j # n
      BY <2>7, <2>8, <2>11, <3>1, <3>3 DEF ReadsInv
    <3> QED  BY <3>2, <3>3
  <2> QED  BY <2>10, <2>11 DEF ReadsInv
<1>6. Read(k) \/ seen'[k] = seen[k] \/ seen'[k] = <<>>
  <2>1. ASSUME NEW j \in Calls \ {k},
               (\E r \in Requests : Start(j, r)) \/ Advance(j) \/ Crash(j)
        PROVE  seen'[k] = seen[k]
    BY <2>1, RunAlone DEF OthersAlone
  <2>2. ASSUME (\E r \in Requests : Start(k, r)) \/ Advance(k) \/ Crash(k)
        PROVE  Read(k) \/ seen'[k] = seen[k] \/ seen'[k] = <<>>
    BY <1>1, <2>2 DEF Start, Advance, SavePreview, Decide, Check, Post, Receive, GiveUp,
                      SetPost, Crash, runVars, RunTypes
  <2>3. Exchange \/ UNCHANGED vars => seen' = seen
    BY DEF Exchange, vars, runVars
  <2> QED  BY <2>1, <2>2, <2>3 DEF Next
<1> QED  BY <1>3, <1>4, <1>5, <1>6

(* Reconciliation vouches for what it does not read: a preview whose       *)
(* reconciliation finds no difference takes its deltas from the positions  *)
(* that the run's last read shows, whatever has filled between its reads   *)
(* (reads that compare equal enclose the one in between, as long as only   *)
(* one side of the symbol has ever traded).                                *)
THEOREM ReconciliationVouches == Spec => []ReconciliationSeesFills
<1> DEFINE Inv == \A k \in Calls : ReadsInv(k)
<1>1. Init => Inv
  <2> SUFFICES ASSUME Init, NEW k \in Calls PROVE ReadsInv(k)
    OBVIOUS
  <2>1. seen[k] = <<>>
    BY DEF Init
  <2> QED  BY <2>1 DEF ReadsInv
<1>2. IndInv /\ IndInv' /\ Inv /\ [Next]_vars => Inv'
  BY ReadsKept
<1>3. IndInv /\ Inv => ReconciliationSeesFills
  <2> SUFFICES ASSUME IndInv, Inv, NEW k \in Calls, stage[k] = "saving",
                      Differences(Believed(k), AtBroker(k)) = {},
                      NEW s \in Symbols, SidesTraded(s) # Sides
               PROVE  seen[k][5][s] = seen[k][7][s]
    BY DEF ReconciliationSeesFills
  <2>1. DOMAIN seen[k] = 1 .. 8 /\ ReadsInv(k) /\ ExchangeTypes
    BY DEF IndInv, RunInv, StageInv, RunTypes, Reads
  <2>2. {2, 5, 7} \subseteq PositionReads \cap DOMAIN seen[k]
    BY <2>1 DEF PositionReads
  <2>3. seen[k][2][s] = seen[k][7][s]
    <3>1. /\ Believed(k).positions = seen[k][2] /\ AtBroker(k).positions = seen[k][7]
          /\ DOMAIN seen[k][2] = Symbols /\ DOMAIN seen[k][7] = Symbols
      BY <2>1, <2>2 DEF Believed, AtBroker, ReadsInv
    <3>2. Held(Believed(k).positions, s) = Held(AtBroker(k).positions, s)
      BY <3>1 DEF Differences
    <3> QED  BY <3>1, <3>2 DEF Held
  <2>4. ~Sold(s) \/ ~Bought(s)
    <3>1. SidesTraded(s) \subseteq Sides
      BY <2>1 DEF SidesTraded, Sides, ExchangeTypes, Id
    <3> QED  BY <3>1 DEF Sold, Bought, Sides
  <2>5. /\ ~Sold(s) => /\ seen[k][2][s] <= seen[k][5][s]
                       /\ seen[k][5][s] <= seen[k][7][s]
        /\ ~Bought(s) => /\ seen[k][2][s] >= seen[k][5][s]
                         /\ seen[k][5][s] >= seen[k][7][s]
    BY <2>1, <2>2 DEF ReadsInv
  <2>6. \A i \in {2, 5, 7} : seen[k][i][s] \in Int
    BY <2>1, <2>2 DEF ReadsInv
  <2> QED  BY <2>3, <2>4, <2>5, <2>6
<1> HIDE DEF Inv
<1> QED  BY <1>1, <1>2, <1>3, Invariance, PTL DEF Spec
-----------------------------------------------------------------------------
\* A total when one summand, old or new, grows by n and the others do not grow.
LEMMA SumStep ==
    ASSUME NEW T, IsFiniteSet(T), NEW g \in [T -> Nat], NEW c,
           NEW S \in SUBSET (T \cup {c}), NEW f \in [S -> Nat], NEW n \in Int,
           \A x \in S \ {c} : f[x] <= g[x],
           IF c \in S THEN f[c] <= (IF c \in T THEN g[c] ELSE 0) + n
                      ELSE 0 <= (IF c \in T THEN g[c] ELSE 0) + n
    PROVE  SumFunction(f) <= SumFunction(g) + n
<1> DEFINE U == T \cup {c}
           old == [x \in U |-> IF x \in T THEN g[x] ELSE 0]
           new == [x \in U |-> IF x = c THEN old[c] + n ELSE old[x]]
<1>1. IsFiniteSet(U) /\ IsFiniteSet(S)
  <2>1. IsFiniteSet(U)
    BY FS_AddElement
  <2> QED  BY <2>1, FS_Subset
<1>2. old \in [U -> Nat] /\ new \in [U -> Int] /\ c \in U
  OBVIOUS
<1>3. old[c] = (IF c \in T THEN g[c] ELSE 0) /\ new[c] = old[c] + n /\ new[c] >= 0
  <2>1. old[c] = (IF c \in T THEN g[c] ELSE 0) /\ new[c] = old[c] + n
    OBVIOUS
  <2>2. c \in S => f[c] \in Nat
    OBVIOUS
  <2> HIDE DEF old, new
  <2> QED  BY <1>2, <2>1, <2>2
<1>4. new \in [U -> Nat]
  <2>1. \A x \in U \ {c} : new[x] = old[x]
    OBVIOUS
  <2> HIDE DEF old, new, U
  <2> QED  BY <1>2, <1>3, <2>1
<1>5. SumFunction(new) = SumFunction(old) + n
  <2>1. \A x \in U \ {c} : new[x] = old[x]
    OBVIOUS
  <2>2. old \in [U -> Int]
    BY <1>2
  <2> HIDE DEF old, new, U
  <2>3. SumFunction(new) = SumFunction(old) + (new[c] - old[c])
    BY <1>1, <1>2, <2>1, <2>2, SumChange
  <2>4. SumFunction(old) \in Int /\ old[c] \in Int
    BY <1>1, <1>2, <2>2, SumOfFew
  <2> QED  BY <1>3, <2>3, <2>4
<1>6. SumFunction(f) <= SumFunction(new)
  <2> DEFINE h == [x \in S |-> x]
  <2>1. h \in [S -> U] /\ \A x, y \in S : h[x] = h[y] => x = y
    OBVIOUS
  <2>2. \A x \in S : f[x] <= new[h[x]]
    <3> SUFFICES ASSUME NEW x \in S PROVE f[x] <= new[x]
      OBVIOUS
    <3>1. CASE x = c
      BY <1>3, <3>1
    <3>2. CASE x # c
      <4>1. x \in T /\ new[x] = g[x]
        BY <3>2
      <4> QED  BY <3>2, <4>1
    <3> QED  BY <3>1, <3>2
  <2>3. f \in [S -> Int]
    OBVIOUS
  <2> HIDE DEF h, U, new
  <2> QED  BY <1>1, <1>4, <2>1, <2>2, <2>3, SumInto
<1>7. SumFunction(old) <= SumFunction(g)
  <2>1. /\ T \in SUBSET U /\ old \in [U -> Int] /\ g \in [T -> Int]
        /\ \A x \in T : old[x] <= g[x] + 0
        /\ \A x \in U \ T : old[x] <= 0
    OBVIOUS
  <2> HIDE DEF old, U
  <2>2. SumFunction(old) <= SumFunction(g) + Cardinality(T) * 0
    BY <1>1, <2>1, SumBound
  <2>3. Cardinality(T) \in Nat
    BY FS_CardinalityType
  <2>4. SumFunction(g) \in Int
    BY <2>1, SumOfFew
  <2> QED  BY <2>2, <2>3, <2>4
<1>8. SumFunction(f) \in Int /\ SumFunction(old) \in Int /\ SumFunction(g) \in Int
      /\ SumFunction(new) \in Int
  <2>1. f \in [S -> Int] /\ old \in [U -> Int] /\ g \in [T -> Int]
    OBVIOUS
  <2> HIDE DEF old, new, U
  <2> QED  BY <1>1, <1>2, <2>1, SumOfFew
<1> HIDE DEF old, new
<1> QED  BY <1>5, <1>6, <1>7, <1>8

\* A total of numbers is not negative.
LEMMA SumIsNotNegative ==
    ASSUME NEW S, IsFiniteSet(S), NEW f \in [S -> Nat]
    PROVE  SumFunction(f) \in Nat
<1> DEFINE none == [x \in {} |-> 0]
<1>1. none \in [{} -> Int] /\ IsFiniteSet({}) /\ f \in [S -> Int]
  BY FS_EmptySet
<1>2. SumFunction(none) = 0 /\ SumFunction(f) \in Int
  BY <1>1, SumOfFew
<1>3. SumFunction(none) <= SumFunction(f)
  <2> DEFINE h == [x \in {} |-> x]
  <2>1. h \in [{} -> S] /\ (\A x, y \in {} : h[x] = h[y] => x = y)
        /\ (\A x \in {} : none[x] <= f[h[x]])
    OBVIOUS
  <2> HIDE DEF h, none
  <2> QED  BY <1>1, <2>1, SumInto
<1> QED  BY <1>2, <1>3

\* The greater and the lesser of two numbers.
LEMMA TwoEnds ==
    ASSUME NEW m \in Int, NEW n \in Int
    PROVE  /\ Max({m, n}) \in Int /\ Max({m, n}) >= m /\ Max({m, n}) >= n
           /\ Min({m, n}) \in Int /\ Min({m, n}) <= m /\ Min({m, n}) <= n
<1>1. /\ \E x \in {m, n} : \A y \in {m, n} : x >= y
      /\ \E x \in {m, n} : \A y \in {m, n} : x <= y
  <2>1. CASE m <= n
    BY <2>1
  <2>2. CASE n <= m
    BY <2>2
  <2> QED  BY <2>1, <2>2
<1>2. /\ Max({m, n}) \in {m, n} /\ \A y \in {m, n} : Max({m, n}) >= y
      /\ Min({m, n}) \in {m, n} /\ \A y \in {m, n} : Min({m, n}) <= y
  BY <1>1 DEF Max, Min
<1> QED  BY <1>2

Targets == {TargetPositions(e) : e \in Int}

\* What an order-by-order rebalance from held to target asks for.
LEMMA IntentsLead ==
    ASSUME NEW held \in [Symbols -> Int], NEW target \in Targets
    PROVE  LET q == Intents(target, held) IN
           /\ DOMAIN target \subseteq Symbols
           /\ \A s \in DOMAIN target : target[s] \in Int
           /\ \A s \in Traded(target, held) :
                 LET c == IntentOf(target, held, s) IN
                 /\ s \in DOMAIN target /\ c \in Id /\ c.symbol = s
                 /\ Signed(c, c.quantity) = target[s] - held[s]
           /\ q \in Seq(Id)
           /\ \A i \in DOMAIN q : /\ q[i].symbol \in Traded(target, held)
                                  /\ q[i] = IntentOf(target, held, q[i].symbol)
           /\ \A i, j \in DOMAIN q : q[i].symbol = q[j].symbol => i = j
           /\ \A s \in Traded(target, held) : \E i \in DOMAIN q : q[i].symbol = s
           /\ \A s \in DOMAIN target \ Traded(target, held) :
                 Abs(target[s] - held[s]) * Price[s] < Limits.minimum_order_notional
<1> DEFINE S == Traded(target, held)
           p == Picks(Universe, S)
           q == Intents(target, held)
<1>1. PICK e \in Int : target = TargetPositions(e)
  BY DEF Targets
<1>2. DOMAIN target \subseteq Symbols /\ \A s \in DOMAIN target : target[s] \in Int
  <2>1. ASSUME NEW s \in DOMAIN Weight PROVE Shares(e, s) \in Int
    <3>1. Weight[s] \in Int /\ Price[s] \in Nat \ {0}
      BY PaperAssumption
    <3>2. e * Weight[s] \in Int /\ 100 * Price[s] \in Nat \ {0}
      BY <3>1
    <3>3. \A n \in Int, d \in Nat \ {0} : n \div d \in Int
      OBVIOUS
    <3> QED  BY <3>2, <3>3 DEF Shares
  <2> QED  BY <1>1, <2>1, PaperAssumption DEF TargetPositions
<1>3. q \in Seq(Id)
  BY <1>1, IntentsType
<1>4. Len(Universe) \in Nat
  BY PaperAssumption
<1>5. PICK at : PickedAt(p, at, Universe, S, Len(Universe))
  BY <1>4, PicksDef
<1>6. DOMAIN q = DOMAIN p /\ \A i \in DOMAIN p : q[i] = IntentOf(target, held, p[i])
  BY DEF Intents
<1>7. p \in Seq(S)
  BY <1>5 DEF PickedAt
<1> HIDE DEF p, q
<1>8. ASSUME NEW s \in DOMAIN target
      PROVE  Delta(target, held, s) = target[s] - held[s] /\ target[s] - held[s] \in Int
  BY <1>2 DEF Delta, Held
<1>9. ASSUME NEW s \in S
      PROVE  LET c == IntentOf(target, held, s) IN
             /\ s \in DOMAIN target /\ c \in Id /\ c.symbol = s
             /\ Signed(c, c.quantity) = target[s] - held[s]
  <2>1. s \in DOMAIN target /\ Delta(target, held, s) # 0
    BY DEF Traded
  <2>2. Delta(target, held, s) = target[s] - held[s] /\ target[s] - held[s] \in Int
    BY <1>8, <2>1
  <2>3. Abs(Delta(target, held, s)) \in Nat \ {0}
    BY <2>1, <2>2 DEF Abs
  <2> QED  BY <1>2, <2>1, <2>2, <2>3 DEF IntentOf, Id, Signed, Abs
<1>10. \A i \in DOMAIN p : p[i] \in S
  BY <1>7
<1>11. ASSUME NEW i \in DOMAIN q
       PROVE  q[i].symbol \in S /\ q[i] = IntentOf(target, held, q[i].symbol)
  BY <1>6, <1>9, <1>10
<1>12. ASSUME NEW i \in DOMAIN q, NEW j \in DOMAIN q, q[i].symbol = q[j].symbol
       PROVE  i = j
  <2>1. p[i] = p[j]
    BY <1>6, <1>9, <1>10, <1>12
  <2>2. \A m, n \in 1 .. Len(Universe) : Universe[m] = Universe[n] => m = n
    <3>1. IsInjective(Universe) /\ DOMAIN Universe = 1 .. Len(Universe)
      BY PaperAssumption
    <3> QED  BY <3>1 DEF IsInjective
  <2>3. Len(p) \in Nat /\ i \in 1 .. Len(p) /\ j \in 1 .. Len(p)
    BY <1>6, <1>7
  <2>4. at[i] = at[j] /\ at[i] \in Int
    BY <1>4, <1>5, <2>1, <2>2, <2>3 DEF PickedAt
  <2>5. ~ (i < j) /\ ~ (j < i)
    BY <1>5, <2>3, <2>4 DEF PickedAt
  <2> QED  BY <2>3, <2>5
<1>13. ASSUME NEW s \in S PROVE \E i \in DOMAIN q : q[i].symbol = s
  <2>1. PICK n \in 1 .. Len(Universe) : Universe[n] = s
    <3>1. s \in Range(Universe) /\ DOMAIN Universe = 1 .. Len(Universe)
      BY PaperAssumption, <1>2, <1>9
    <3> QED  BY <3>1 DEF Range
  <2>2. PICK i \in 1 .. Len(p) : at[i] = n
    BY <1>5, <2>1 DEF PickedAt
  <2>3. i \in DOMAIN p /\ p[i] = s
    BY <1>5, <1>7, <2>1, <2>2 DEF PickedAt
  <2> QED  BY <1>6, <1>9, <2>3
<1>14. ASSUME NEW s \in DOMAIN target, s \notin S
       PROVE  Abs(target[s] - held[s]) * Price[s] < Limits.minimum_order_notional
  <2> DEFINE d == target[s] - held[s]
             small == Limits.minimum_order_notional
  <2>1. d \in Int /\ Price[s] \in Nat /\ small \in Nat \ {0}
    BY <1>2, <1>8, <1>14, PaperAssumption
  <2>2. d = 0 \/ ~ (Abs(d) * Price[s] >= small)
    BY <1>8, <1>14 DEF Traded
  <2> HIDE DEF d, small
  <2>3. Abs(d) \in Int /\ (d = 0 => Abs(d) = 0) /\ 0 * Price[s] = 0
    BY <2>1 DEF Abs
  <2>4. Abs(d) * Price[s] \in Int
    BY <2>1, <2>3
  <2>5. Abs(d) * Price[s] < small
    BY <2>1, <2>2, <2>3, <2>4
  <2> QED  BY <2>5 DEF d, small
<1> HIDE DEF S
<1>15. S = Traded(target, held) /\ q = Intents(target, held)
  BY DEF S, q
<1> QED  BY <1>2, <1>3, <1>9, <1>11, <1>12, <1>13, <1>14, <1>15
-----------------------------------------------------------------------------
\* What is filled of an order fits it; and there are finitely many orders.
FitInv ==
    /\ IsFiniteSet(DOMAIN orders)
    /\ \A c \in DOMAIN orders :
          /\ orders[c].filled_quantity <= c.quantity
          /\ orders[c].status = "filled" => orders[c].filled_quantity = c.quantity

LEMMA FitKept ==
    ASSUME IndInv, FitInv, [Next]_vars
    PROVE  FitInv'
<1>1. RunTypes /\ ExchangeTypes
  BY DEF IndInv
<1>2. ASSUME UNCHANGED orders PROVE FitInv'
  BY <1>2 DEF FitInv
<1>3. ASSUME NEW k \in Calls,
             (\E r \in Requests : Start(k, r)) \/ Advance(k) \/ Crash(k)
      PROVE  FitInv'
  BY <1>2, <1>3, RunAlone DEF OthersAlone
<1>4. ASSUME NEW c \in OpenOrders, NEW n \in 1 .. Remaining(c), Fill(c, n)
      PROVE  FitInv'
  <2>1. /\ c \in DOMAIN orders /\ c \in Id /\ orders[c] \in Order /\ n \in Nat
        /\ orders[c].filled_quantity \in Nat /\ c.quantity \in Nat
        /\ n <= c.quantity - orders[c].filled_quantity
    BY <1>1 DEF OpenOrders, ExchangeTypes, Order, Remaining, Id
  <2>2. /\ DOMAIN orders' = DOMAIN orders
        /\ orders'[c].filled_quantity = orders[c].filled_quantity + n
        /\ orders'[c].status = IF n = Remaining(c) THEN "filled" ELSE "partially_filled"
        /\ \A d \in DOMAIN orders \ {c} : orders'[d] = orders[d]
    BY <1>1, <1>4, <2>1 DEF Fill, ExchangeTypes, Order
  <2> QED  BY <2>1, <2>2 DEF FitInv, Remaining
<1>5. ASSUME NEW c \in OpenOrders, End(c) PROVE FitInv'
  <2>1. /\ DOMAIN orders' = DOMAIN orders
        /\ \A d \in DOMAIN orders : /\ orders'[d].filled_quantity = orders[d].filled_quantity
                                    /\ orders'[d].status \in {orders[d].status, "rejected"}
    BY <1>1, <1>5 DEF End, ExchangeTypes, Order, OpenOrders
  <2> QED  BY <2>1 DEF FitInv
<1>6. ASSUME NEW k \in Calls, http[k] \in {"sent", "abandoned"}, Process(k, Current(k))
      PROVE  FitInv'
  <2>1. CASE UNCHANGED orders
    BY <1>2, <2>1
  <2>2. CASE ~UNCHANGED orders
    <3>1. /\ DOMAIN orders' = DOMAIN orders \cup {Current(k)}
          /\ \A d \in DOMAIN orders \ {Current(k)} : orders'[d] = orders[d]
          /\ orders'[Current(k)].filled_quantity = 0
          /\ orders'[Current(k)].status \in {"new", "rejected"}
      <4>1. PICK reply \in {"new", "rejected"} :
               orders' = [d \in DOMAIN orders \cup {Current(k)} |->
                   IF d = Current(k) THEN [id |-> counter, status |-> reply,
                                           filled_quantity |-> 0, placed_by |-> k]
                   ELSE orders[d]]
        BY <1>6, <2>2 DEF Process, Answered
      <4> QED  BY <4>1
    <3>2. Current(k) \in Id
      BY <1>6, PostsAreBacked
    <3>3. Current(k).quantity \in Nat
      BY <3>2 DEF Id
    <3>4. IsFiniteSet(DOMAIN orders')
      BY <3>1, FS_AddElement DEF FitInv
    <3>5. ASSUME NEW d \in DOMAIN orders'
          PROVE  /\ orders'[d].filled_quantity <= d.quantity
                 /\ orders'[d].status = "filled" => orders'[d].filled_quantity = d.quantity
      <4>1. CASE d = Current(k)
        BY <3>1, <3>3, <4>1
      <4>2. CASE d # Current(k)
        BY <3>1, <4>2 DEF FitInv
      <4> QED  BY <4>1, <4>2
    <3> QED  BY <3>4, <3>5 DEF FitInv
  <2> QED  BY <2>1, <2>2
<1>7. CASE (\E k \in Calls : Lose(k)) \/ Reprice \/ BarTrading \/ UNCHANGED vars
  BY <1>2, <1>7 DEF Lose, Reprice, BarTrading, vars
<1> QED  BY <1>3, <1>4, <1>5, <1>6, <1>7 DEF Next, Exchange

\* What is working can be counted, and so can what it may still trade.
WorkingInv ==
    /\ IsFiniteSet(Working)
    /\ \A c \in Working : c \in Id /\ Left(c) \in Nat

LEMMA WorkingFits == IndInv /\ FitInv => WorkingInv
<1> SUFFICES ASSUME IndInv, FitInv PROVE WorkingInv
  OBVIOUS
<1>1. RunTypes /\ ExchangeTypes
  BY DEF IndInv
<1>2. IsFiniteSet(Working)
  <2> DEFINE now == [k \in Calls |-> Current(k)]
  <2>1. IsFiniteSet(Range(now))
    <3>1. now \in Surjection(Calls, Range(now))
      BY DEF Surjection, Range
    <3> QED  BY <3>1, PaperAssumption, FS_Surjection
  <2>2. InFlight \subseteq Range(now) /\ OpenOrders \subseteq DOMAIN orders
    BY DEF InFlight, OpenOrders, Range
  <2>3. IsFiniteSet(InFlight) /\ IsFiniteSet(OpenOrders)
    BY <2>1, <2>2, FS_Subset DEF FitInv
  <2> QED  BY <2>3, FS_Union DEF Working
<1>3. ASSUME NEW c \in Working PROVE c \in Id /\ Left(c) \in Nat
  <2>1. CASE c \in DOMAIN orders
    <3>1. /\ c \in Id /\ orders[c].filled_quantity \in Nat
          /\ orders[c].filled_quantity <= c.quantity /\ c.quantity \in Nat
      BY <1>1, <2>1 DEF ExchangeTypes, Order, FitInv, Id
    <3> QED  BY <2>1, <3>1 DEF Left, Known, Remaining
  <2>2. CASE c \notin DOMAIN orders
    <3>1. PICK k \in Calls : http[k] \in {"sent", "abandoned"} /\ c = Current(k)
      BY <2>2 DEF Working, OpenOrders, InFlight
    <3>2. c \in Id
      BY <3>1, PostsAreBacked
    <3> QED  BY <2>2, <3>2 DEF Left, Known, Id
  <2> QED  BY <2>1, <2>2
<1> QED  BY <1>2, <1>3 DEF WorkingInv

LEMMA WorkingFitsNext == IndInv' /\ FitInv' => WorkingInv'
BY WorkingFits, PTL

\* What is due is a number of shares, before a step and after it.
LEMMA DueType ==
    ASSUME WorkingInv, NEW s, NEW side
    PROVE  Due(s, side) \in Nat
<1> DEFINE working == {c \in Working : c.symbol = s /\ c.side = side}
           left == [c \in working |-> Left(c)]
<1>1. IsFiniteSet(working)
  BY FS_Subset DEF WorkingInv
<1>2. left \in [working -> Nat]
  BY DEF WorkingInv
<1>3. Due(s, side) = SumFunction(left)
  BY DEF Due
<1> HIDE DEF left, working
<1> QED  BY <1>1, <1>2, <1>3, SumIsNotNegative

LEMMA DueTypeNext ==
    ASSUME WorkingInv', NEW s, NEW side
    PROVE  Due(s, side)' \in Nat
<1> DEFINE working == {c \in Working' : c.symbol = s /\ c.side = side}
           left == [c \in working |-> Left(c)']
<1>1. IsFiniteSet(working)
  BY FS_Subset DEF WorkingInv
<1>2. left \in [working -> Nat]
  BY DEF WorkingInv
<1>3. Due(s, side)' = SumFunction(left)
  BY DEF Due
<1> HIDE DEF left, working
<1> QED  BY <1>1, <1>2, <1>3, SumIsNotNegative

\* What is due when one order, new or working, comes to n more than before and
\* the others to no more.
LEMMA DueStep ==
    ASSUME WorkingInv, WorkingInv', NEW s, NEW side, NEW c, NEW n \in Int,
           Working' \subseteq Working \cup {c},
           \A d \in Working' \ {c} : Left(d)' <= Left(d),
           c.symbol # s \/ c.side # side => n >= 0,
           c.symbol = s /\ c.side = side =>
              IF c \in Working' THEN Left(c)' <= (IF c \in Working THEN Left(c) ELSE 0) + n
                                ELSE 0 <= (IF c \in Working THEN Left(c) ELSE 0) + n
    PROVE  Due(s, side)' <= Due(s, side) + n
<1> DEFINE T == {d \in Working : d.symbol = s /\ d.side = side}
           S == {d \in Working' : d.symbol = s /\ d.side = side}
           g == [d \in T |-> Left(d)]
           f == [d \in S |-> Left(d)']
<1>1. IsFiniteSet(T) /\ IsFiniteSet(S)
  BY FS_Subset DEF WorkingInv
<1>2. g \in [T -> Nat] /\ f \in [S -> Nat]
  BY DEF WorkingInv
<1>3. Due(s, side) = SumFunction(g) /\ Due(s, side)' = SumFunction(f)
  BY DEF Due
<1>4. S \in SUBSET (T \cup {c}) /\ \A d \in S \ {c} : f[d] <= g[d]
  OBVIOUS
<1>5. IF c \in S THEN f[c] <= (IF c \in T THEN g[c] ELSE 0) + n
                 ELSE 0 <= (IF c \in T THEN g[c] ELSE 0) + n
  <2>1. CASE c.symbol = s /\ c.side = side
    <3>1. (c \in S <=> c \in Working') /\ (c \in T <=> c \in Working)
          /\ (c \in S => f[c] = Left(c)') /\ (c \in T => g[c] = Left(c))
      BY <2>1
    <3> HIDE DEF S, T, f, g
    <3> QED  BY <2>1, <3>1
  <2>2. CASE ~(c.symbol = s /\ c.side = side)
    <3>1. c \notin S /\ c \notin T /\ n >= 0
      BY <2>2
    <3> QED  BY <3>1
  <2> QED  BY <2>1, <2>2
<1> HIDE DEF T, S, f, g
<1> QED  BY <1>1, <1>2, <1>3, <1>4, <1>5, SumStep
-----------------------------------------------------------------------------
RunStep(j) == (\E r \in Requests : Start(j, r)) \/ Advance(j) \/ Crash(j)
Departure(j) == Read(j) /\ Len(seen[j]) = 4

\* A step of a run that is no POST puts nothing on its way, and only its fifth
\* read makes it depart.
LEMMA QuietStep ==
    ASSUME IndInv, NEW j \in Calls, RunStep(j), ~Post(j)
    PROVE  /\ \A k \in Calls : ~Sends(k)
           /\ InFlight' \subseteq InFlight /\ orders' = orders
           /\ ~Departure(j) => \A k \in Calls : ~Departs(k)
<1>1. RunTypes /\ RunInv(j) /\ OthersAlone(j)
  BY RunAlone DEF IndInv, RunStep
<1>2. \A k \in Calls \ {j} : seen'[k] = seen[k] /\ http'[k] = http[k]
                             /\ Current(k)' = Current(k)
  BY <1>1 DEF OthersAlone, Current
<1>3. http'[j] \in {"sent", "abandoned"} =>
         /\ http[j] \in {"sent", "abandoned"} /\ Current(j)' = Current(j)
         /\ http[j] = "abandoned" => http'[j] = "abandoned"
  <2> SUFFICES ASSUME http'[j] \in {"sent", "abandoned"}
               PROVE  /\ http[j] \in {"sent", "abandoned"} /\ Current(j)' = Current(j)
                      /\ http[j] = "abandoned" => http'[j] = "abandoned"
    OBVIOUS
  <2>1. CASE \E r \in Requests : Start(j, r)
    BY <2>1 DEF Start, serviceVars, exchangeVars, Current
  <2>2. CASE Read(j) \/ SavePreview(j)
    BY <2>2 DEF Read, SavePreview, serviceVars, exchangeVars, Current
  <2>3. CASE Decide(j)
    <3>1. http' = http /\ (UNCHANGED serviceVars \/ pc[j] = "idle")
      BY <2>3 DEF Decide, Submit, exchangeVars
    <3>2. pc[j] # "idle"
      BY <1>1, <3>1 DEF RunInv, PostInv, Attempting
    <3> QED  BY <3>1, <3>2 DEF serviceVars, Current
  <2>4. CASE Check(j)
    <3>1. http' = http /\ pc[j] = "check"
      BY <2>4 DEF Check, CheckExisting, exchangeVars
    <3> QED  BY <1>1, <3>1 DEF RunInv, PostInv, Attempting
  <2>5. CASE Receive(j)
    BY <1>1, <2>5 DEF Receive, SetPost, RunTypes
  <2>6. CASE GiveUp(j)
    BY <1>1, <2>6 DEF GiveUp, SetPost, Raised, GoTo, RunTypes, Current
  <2>7. CASE Crash(j)
    <3>1. /\ http' = [http EXCEPT ![j] = IF @ = "sent" THEN "abandoned" ELSE "idle"]
          /\ preview' = preview /\ outcomes' = outcomes
      BY <2>7 DEF Crash, GoTo, serviceVars
    <3> QED  BY <1>1, <3>1 DEF RunTypes, Current
  <2> QED  BY <2>1, <2>2, <2>3, <2>4, <2>5, <2>6, <2>7 DEF RunStep, Advance
<1>4. http'[j] = "sent" => http[j] = "sent"
  BY <1>3
<1>5. orders' = orders
  BY <1>1 DEF OthersAlone
<1>6. InFlight' \subseteq InFlight
  <2> SUFFICES ASSUME NEW k \in Calls, http'[k] \in {"sent", "abandoned"}
               PROVE  http[k] \in {"sent", "abandoned"} /\ Current(k)' = Current(k)
    BY <1>5 DEF InFlight
  <2> QED  BY <1>2, <1>3
<1>7. ASSUME ~Departure(j) PROVE \A k \in Calls : ~Departs(k)
  <2>1. \A k \in Calls \ {j} : ~Departs(k)
    BY <1>2 DEF Departs
  <2>2. CASE Read(j)
    <3>1. seen[j] \in Seq(Views) /\ Len(seen[j]) # 4
      BY <1>1, <1>7, <2>2 DEF Departure, RunTypes
    <3> QED  BY <2>1, <3>1 DEF Departs
  <2>3. CASE ~Read(j)
    <3>1. seen'[j] = seen[j] \/ seen'[j] = <<>>
      BY <1>1, <2>3 DEF RunStep, Start, Advance, SavePreview, Decide, Check, Post, Receive,
                        GiveUp, SetPost, Crash, runVars, RunTypes
    <3>2. Len(seen'[j]) = Len(seen[j]) \/ Len(seen'[j]) = 0
      <4>1. Len(<<>>) = 0
        OBVIOUS
      <4> QED  BY <3>1, <4>1, Zenon
    <3>3. ~Departs(j)
      <4>1. 4 # 5 /\ 5 # 0
        OBVIOUS
      <4> QED  BY <3>2, <4>1, Zenon DEF Departs
    <3> QED  BY <2>1, <3>3
  <2> QED  BY <2>2, <2>3
<1> QED  BY <1>2, <1>4, <1>5, <1>6, <1>7 DEF Sends

\* Neither does a POST make a run depart; it sends for its own run only.
LEMMA PostStep ==
    ASSUME IndInv, NEW j \in Calls, Post(j)
    PROVE  /\ \A k \in Calls : ~Departs(k) /\ (Sends(k) <=> k = j)
           /\ Working' \subseteq Working \cup {Current(j)} /\ orders' = orders
           /\ Current(j) \in Id /\ Current(j) \in Range(preview[j].intents)
           /\ Len(outcomes[j]) + 1 \in DOMAIN preview[j].intents
<1>1. RunTypes /\ RunInv(j)
  BY DEF IndInv
<1>2. /\ http' = [http EXCEPT ![j] = "sent"] /\ http[j] = "idle" /\ Attempting(j)
      /\ seen' = seen /\ orders' = orders /\ preview' = preview /\ outcomes' = outcomes
  BY DEF Post, SetPost, runVars, serviceVars
<1>3. \A k \in Calls : ~Departs(k) /\ (Sends(k) <=> k = j)
  <2>1. \A k \in Calls : http'[k] = IF k = j THEN "sent" ELSE http[k]
    BY <1>1, <1>2 DEF RunTypes
  <2> QED  BY <1>2, <2>1 DEF Departs, Sends
<1>4. InFlight' \subseteq InFlight \cup {Current(j)}
  BY <1>1, <1>2 DEF InFlight, Current, RunTypes
<1>5. OpenOrders' = OpenOrders
  BY <1>2 DEF OpenOrders
<1>6. pc[j] \in InLoop
  BY <1>2 DEF Attempting, InLoop
<1>7. Len(outcomes[j]) < Len(preview[j].intents)
  BY <1>1, <1>6 DEF RunInv, PostInv
<1> QED  BY <1>1, <1>2, <1>3, <1>4, <1>5, <1>7, CurrentIsAnIntent DEF Working

\* The exchange starts nothing and sends nothing.
LEMMA ExchangeQuiet ==
    ASSUME IndInv, Exchange
    PROVE  \A k \in Calls : ~Departs(k) /\ ~Sends(k)
<1>1. RunTypes /\ seen' = seen
  BY DEF IndInv, Exchange, runVars
<1>2. ASSUME NEW k \in Calls, http'[k] = "sent" PROVE http[k] = "sent"
  <2>1. ASSUME NEW j \in Calls, Process(j, Current(j)) PROVE http[k] = "sent"
    <3>1. PICK reply \in Answered :
             http' = [http EXCEPT ![j] = IF @ = "sent" THEN reply ELSE "idle"]
      BY <2>1 DEF Process, Answered
    <3> QED  BY <1>1, <1>2, <3>1 DEF RunTypes, Answered
  <2>2. ASSUME NEW j \in Calls, Lose(j) PROVE http[k] = "sent"
    BY <1>1, <1>2, <2>2 DEF Lose, RunTypes
  <2> QED  BY <1>2, <2>1, <2>2 DEF Exchange, Fill, End, Reprice, BarTrading
<1> QED  BY <1>1, <1>2 DEF Departs, Sends
-----------------------------------------------------------------------------
SameCourse ==
    DOMAIN course' = DOMAIN course /\ \A k \in DOMAIN course : course'[k] = course[k]

\* What a step does to the courses.
LEMMA CourseSteps ==
    ASSUME IndInv, DOMAIN course \subseteq Calls, CourseNext
    PROVE  \/ \E j \in Calls :
                 /\ Departure(j)
                 /\ DOMAIN course' = DOMAIN course \cup {j}
                 /\ course'[j] = NewCourse(j)
                 /\ \A k \in DOMAIN course \ {j} : course'[k] = course[k]
           \/ \E j \in Calls :
                 /\ Post(j)
                 /\ DOMAIN course' = DOMAIN course
                 /\ j \in DOMAIN course => course'[j] = course[j]
                 /\ \A k \in DOMAIN course \ {j} : course'[k] = Onward(k)
           \/ (\E j \in Calls : RunStep(j) /\ ~Post(j) /\ ~Departure(j)) /\ SameCourse
           \/ Exchange /\ SameCourse
<1> DEFINE D == DOMAIN course \cup {k \in Calls : Departs(k)}
<1>1. /\ DOMAIN course' = D
      /\ \A k \in D : course'[k] = IF Departs(k) THEN NewCourse(k) ELSE Charted(k)
  BY DEF CourseNext
<1>7. \A k : Charted(k) = IF \E j \in Calls \ {k} : Sends(j) THEN Onward(k) ELSE course[k]
  BY DEF Charted
<1>2. ASSUME NEW j \in Calls, Departure(j)
      PROVE  /\ DOMAIN course' = DOMAIN course \cup {j}
             /\ course'[j] = NewCourse(j)
             /\ \A k \in DOMAIN course \ {j} : course'[k] = course[k]
  <2>1. RunStep(j) /\ ~Post(j)
    <3>1. RunStep(j) /\ stage[j] = "reading" /\ seen' # seen
      <4>1. /\ seen[j] \in Seq(Views)
            /\ seen' = [seen EXCEPT ![j] = Append(@, View(Reads[Len(@) + 1]))]
            /\ seen \in [Calls -> Seq(Views)]
        BY <1>2 DEF Departure, Read, IndInv, RunTypes
      <4>2. Len(Append(seen[j], View(Reads[Len(seen[j]) + 1]))) # Len(seen[j])
        BY <4>1
      <4> QED  BY <1>2, <4>1, <4>2 DEF Departure, RunStep, Advance, Read
    <3> QED  BY <3>1 DEF Post, SetPost, runVars
  <2>2. Departs(j) /\ \A k \in Calls \ {j} : ~Departs(k)
    <3>1. OthersAlone(j) /\ RunTypes
      BY <2>1, RunAlone DEF RunStep, IndInv
    <3>2. \A k \in Calls \ {j} : ~Departs(k)
      BY <3>1 DEF OthersAlone, Departs
    <3>3. Departs(j)
      <4>1. seen[j] \in Seq(Views) /\ seen'[j] = Append(seen[j], View(Reads[Len(seen[j]) + 1]))
        BY <1>2, <3>1 DEF Departure, Read, RunTypes
      <4>2. Len(seen'[j]) = Len(seen[j]) + 1
        BY <4>1
      <4> QED  BY <1>2, <4>2 DEF Departs, Departure
    <3> QED  BY <3>2, <3>3
  <2>3. \A k \in Calls : ~Sends(k)
    BY <2>1, QuietStep
  <2> QED  BY <1>1, <1>7, <2>2, <2>3
<1>3. ASSUME NEW j \in Calls, Post(j)
      PROVE  /\ DOMAIN course' = DOMAIN course
             /\ j \in DOMAIN course => course'[j] = course[j]
             /\ \A k \in DOMAIN course \ {j} : course'[k] = Onward(k)
  <2>1. \A k \in Calls : ~Departs(k) /\ (Sends(k) <=> k = j)
    BY <1>3, PostStep
  <2>2. \A k \in DOMAIN course \ {j} : j \in Calls \ {k}
    OBVIOUS
  <2> QED  BY <1>1, <1>7, <2>1, <2>2
<1>4. ASSUME \A k \in Calls : ~Departs(k) /\ ~Sends(k)
      PROVE  SameCourse
  BY <1>1, <1>4, <1>7 DEF SameCourse
<1>5. ASSUME NEW j \in Calls, RunStep(j), ~Post(j), ~Departure(j)
      PROVE  SameCourse
  BY <1>4, <1>5, QuietStep
<1>6. Exchange => SameCourse
  BY <1>4, ExchangeQuiet
<1> QED  BY <1>2, <1>3, <1>5, <1>6 DEF CourseNext, Next, RunStep
-----------------------------------------------------------------------------
Course == [held : [Symbols -> Int], target : Targets, due : [Sides -> [Symbols -> Int]]]

\* A run that has read its positions has a course, which its preview follows;
\* and nothing is abandoned by a run that still runs.
PlanInv(k) ==
    /\ stage[k] \in {"reading", "saving"} =>
          /\ \A r \in saved : r.run # k
          /\ Len(seen[k]) >= 5 => /\ k \in DOMAIN course
                                  /\ course[k].target = Target(k)
                                  /\ course[k].held = seen[k][5]
    /\ http[k] = "abandoned" => pc[k] = "raised"

CourseInv ==
    /\ DOMAIN course \subseteq Calls
    /\ \A k \in DOMAIN course : course[k] \in Course /\ stage[k] # "idle"
    /\ \A k \in Calls : PlanInv(k)
    /\ \A r \in saved :
          /\ r.run \in DOMAIN course
          /\ r.preview.intents = Intents(course[r.run].target, course[r.run].held)

LEMMA OnwardIs ==
    ASSUME WorkingInv, WorkingInv', NEW k, course[k] \in Course
    PROVE  /\ Onward(k) \in Course
           /\ Onward(k).held = course[k].held /\ Onward(k).target = course[k].target
           /\ \A s \in Symbols, side \in Sides :
                 Onward(k).due[side][s]
                     = course[k].due[side][s] + (Due(s, side)' - Due(s, side))
<1> DEFINE due == course[k].due
           more == [side \in Sides |-> [s \in Symbols |->
                       due[side][s] + (Due(s, side)' - Due(s, side))]]
<1>1. due \in [Sides -> [Symbols -> Int]]
  BY DEF Course
<1>2. \A s \in Symbols, side \in Sides : Due(s, side) \in Nat /\ Due(s, side)' \in Nat
  BY DueType, DueTypeNext
<1>3. Onward(k) = [course[k] EXCEPT !.due = more]
  BY DEF Onward
<1> HIDE DEF due
<1>4. /\ more \in [Sides -> [Symbols -> Int]]
      /\ \A s \in Symbols, side \in Sides :
            more[side][s] = due[side][s] + (Due(s, side)' - Due(s, side))
  <2>1. \A s \in Symbols, side \in Sides :
           due[side][s] + (Due(s, side)' - Due(s, side)) \in Int
    <3> TAKE s \in Symbols, side \in Sides
    <3>1. due[side][s] \in Int
      BY <1>1
    <3> QED  BY <1>2, <3>1
  <2> QED  BY <2>1
<1> HIDE DEF more
<1>5. /\ Onward(k) \in Course /\ Onward(k).due = more
      /\ Onward(k).held = course[k].held /\ Onward(k).target = course[k].target
  BY <1>3, <1>4 DEF Course
<1> QED  BY <1>4, <1>5 DEF due

LEMMA NewCourseIs ==
    ASSUME IndInv, WorkingInv, NEW k \in Calls, Departure(k)
    PROVE  /\ NewCourse(k) \in Course
           /\ NewCourse(k).held = positions /\ NewCourse(k).target = Target(k)
           /\ \A s \in Symbols, side \in Sides : NewCourse(k).due[side][s] = Due(s, side)
<1>1. positions \in [Symbols -> Int] /\ StageInv(k) /\ seen[k] \in Seq(Views)
  BY DEF IndInv, ExchangeTypes, RunInv, RunTypes
<1>2. Target(k) \in Targets
  <2>1. 1 \in DOMAIN seen[k]
    BY <1>1 DEF Departure
  <2> QED  BY <1>1, <2>1 DEF StageInv, Account, Target, Targets
<1> DEFINE due == [side \in Sides |-> [s \in Symbols |-> Due(s, side)]]
<1>3. /\ due \in [Sides -> [Symbols -> Int]]
      /\ \A s \in Symbols, side \in Sides : due[side][s] = Due(s, side)
  <2>1. \A s \in Symbols, side \in Sides : Due(s, side) \in Int
    BY DueType
  <2> QED  BY <2>1
<1>4. NewCourse(k) = [held |-> positions, target |-> Target(k), due |-> due]
  BY DEF NewCourse
<1> HIDE DEF due
<1> QED  BY <1>1, <1>2, <1>3, <1>4 DEF Course

\* A course is kept, but for what is due, unless its run reads its positions.
LEMMA CoursesKept ==
    ASSUME IndInv, WorkingInv, WorkingInv', CourseInv, CourseNext
    PROVE  /\ DOMAIN course' \subseteq Calls
           /\ \A k \in DOMAIN course' : course'[k] \in Course
           /\ \A k \in DOMAIN course :
                 /\ k \in DOMAIN course'
                 /\ ~Departure(k) => /\ course'[k].held = course[k].held
                                     /\ course'[k].target = course[k].target
           /\ \A k \in Calls : Departure(k) =>
                 /\ k \in DOMAIN course' /\ course'[k] = NewCourse(k)
           /\ \A k \in DOMAIN course' \ DOMAIN course : Departure(k)
<1>1. DOMAIN course \subseteq Calls /\ \A k \in DOMAIN course : course[k] \in Course
  BY DEF CourseInv
<1>2. ASSUME NEW k \in Calls, Departure(k) PROVE seen'[k] # seen[k]
  <2>1. seen \in [Calls -> Seq(Views)]
    BY DEF IndInv, RunTypes
  <2>2. seen'[k] = Append(seen[k], View(Reads[Len(seen[k]) + 1])) /\ seen[k] \in Seq(Views)
    BY <1>2, <2>1 DEF Departure, Read
  <2>3. Len(seen'[k]) = Len(seen[k]) + 1 /\ Len(seen[k]) \in Nat
    BY <2>2
  <2> QED  BY <2>3
<1>3. ASSUME NEW j \in Calls, NEW k \in Calls \ {j}, RunStep(j) PROVE ~Departure(k)
  BY <1>2, <1>3, RunAlone DEF RunStep, OthersAlone
<1>4. ASSUME NEW j \in Calls, Departure(j), DOMAIN course' = DOMAIN course \cup {j},
             course'[j] = NewCourse(j), \A k \in DOMAIN course \ {j} : course'[k] = course[k]
      PROVE  /\ DOMAIN course' \subseteq Calls
             /\ \A k \in DOMAIN course' : course'[k] \in Course
             /\ \A k \in DOMAIN course :
                   /\ k \in DOMAIN course'
                   /\ ~Departure(k) => /\ course'[k].held = course[k].held
                                       /\ course'[k].target = course[k].target
             /\ \A k \in Calls : Departure(k) =>
                   /\ k \in DOMAIN course' /\ course'[k] = NewCourse(k)
             /\ \A k \in DOMAIN course' \ DOMAIN course : Departure(k)
  <2>1. NewCourse(j) \in Course
    BY <1>4, NewCourseIs
  <2>2. RunStep(j)
    BY <1>4 DEF Departure, RunStep, Advance
  <2> QED  BY <1>1, <1>3, <1>4, <2>1, <2>2
<1>5. ASSUME DOMAIN course' = DOMAIN course, \A k \in Calls : ~Departure(k),
             \A k \in DOMAIN course : course'[k] \in {course[k], Onward(k)}
      PROVE  /\ DOMAIN course' \subseteq Calls
             /\ \A k \in DOMAIN course' : course'[k] \in Course
             /\ \A k \in DOMAIN course :
                   /\ course'[k].held = course[k].held
                   /\ course'[k].target = course[k].target
  BY <1>1, <1>5, OnwardIs
<1>6. ASSUME NEW j \in Calls, Post(j) PROVE \A k \in Calls : ~Departure(k)
  BY <1>2, <1>6 DEF Post, SetPost, runVars
<1>7. ASSUME NEW j \in Calls, RunStep(j), ~Departure(j) PROVE \A k \in Calls : ~Departure(k)
  BY <1>3, <1>7
<1>8. ASSUME Exchange PROVE \A k \in Calls : ~Departure(k)
  BY <1>2, <1>8 DEF Exchange, runVars
<1>9. CASE \E j \in Calls : /\ Departure(j)
                            /\ DOMAIN course' = DOMAIN course \cup {j}
                            /\ course'[j] = NewCourse(j)
                            /\ \A k \in DOMAIN course \ {j} : course'[k] = course[k]
  BY <1>4, <1>9
<1>10. CASE \E j \in Calls : /\ Post(j)
                             /\ DOMAIN course' = DOMAIN course
                             /\ j \in DOMAIN course => course'[j] = course[j]
                             /\ \A k \in DOMAIN course \ {j} : course'[k] = Onward(k)
  <2>1. /\ DOMAIN course' = DOMAIN course /\ \A k \in Calls : ~Departure(k)
        /\ \A k \in DOMAIN course : course'[k] \in {course[k], Onward(k)}
    BY <1>6, <1>10
  <2> QED  BY <1>5, <2>1, Zenon
<1>11. CASE ((\E j \in Calls : RunStep(j) /\ ~Post(j) /\ ~Departure(j)) \/ Exchange)
            /\ SameCourse
  <2>1. /\ DOMAIN course' = DOMAIN course /\ \A k \in Calls : ~Departure(k)
        /\ \A k \in DOMAIN course : course'[k] \in {course[k], Onward(k)}
    BY <1>7, <1>8, <1>11 DEF SameCourse
  <2> QED  BY <1>5, <2>1, Zenon
<1> QED  BY <1>1, <1>9, <1>10, <1>11, CourseSteps, Zenon

\* Nothing makes a run idle again, or abandons what a running one has sent.
LEMMA RunKeepsPlan ==
    ASSUME IndInv, CourseInv, NEW j \in Calls, RunStep(j)
    PROVE  /\ stage[j] # "idle" => stage'[j] # "idle"
           /\ Departure(j) => stage'[j] # "idle"
           /\ http'[j] = "abandoned" => pc'[j] = "raised"
<1>1. RunTypes /\ RunInv(j) /\ PlanInv(j)
  BY DEF IndInv, CourseInv
<1>2. (stage[j] # "idle" \/ Departure(j)) => stage'[j] # "idle"
  BY <1>1 DEF RunStep, Start, Advance, Departure, Read, SavePreview, Decide, Check, Post, Receive,
              GiveUp, SetPost, Crash, runVars, RunTypes, MoveTo
<1>3. ASSUME http'[j] = "abandoned" PROVE pc'[j] = "raised"
  <2>1. CASE \E r \in Requests : Start(j, r)
    BY <1>1, <1>3, <2>1 DEF Start, serviceVars, exchangeVars, PlanInv
  <2>2. CASE Read(j) \/ SavePreview(j)
    BY <1>1, <1>3, <2>2 DEF Read, SavePreview, serviceVars, exchangeVars, PlanInv
  <2>3. CASE Decide(j)
    <3>1. http' = http /\ (UNCHANGED serviceVars \/ pc[j] = "idle")
      BY <2>3 DEF Decide, Submit, exchangeVars
    <3> QED  BY <1>1, <1>3, <3>1 DEF PlanInv, serviceVars
  <2>4. CASE Check(j)
    BY <1>1, <1>3, <2>4 DEF Check, CheckExisting, exchangeVars, PlanInv
  <2>5. CASE Post(j)
    BY <1>1, <1>3, <2>5 DEF Post, SetPost, RunTypes
  <2>6. CASE Receive(j)
    BY <1>1, <1>3, <2>6 DEF Receive, SetPost, RunTypes
  <2>7. CASE GiveUp(j)
    BY <1>1, <2>7 DEF GiveUp, Raised, GoTo, RunTypes
  <2>8. CASE Crash(j)
    <3>1. http[j] = "sent"
      BY <1>1, <1>3, <2>8 DEF Crash, RunTypes
    <3>2. pc[j] \in InLoop \/ pc[j] = "raised"
      BY <1>1, <3>1 DEF RunInv, PostInv, Attempting, InLoop
    <3> QED  BY <1>1, <2>8, <3>2 DEF Crash, GoTo, serviceVars, RunTypes
  <2> QED  BY <2>1, <2>2, <2>3, <2>4, <2>5, <2>6, <2>7, <2>8 DEF RunStep, Advance
<1> QED  BY <1>2, <1>3

LEMMA Appended ==
    ASSUME NEW S, NEW q \in Seq(S), NEW x \in S
    PROVE  /\ Len(q) \in Nat /\ Len(Append(q, x)) = Len(q) + 1
           /\ Append(q, x)[Len(q) + 1] = x
           /\ \A i \in 1 .. Len(q) : Append(q, x)[i] = q[i]
OBVIOUS

\* What a run that is still reading or saving knows of its course.
LEMMA PlanKept ==
    ASSUME IndInv, WorkingInv, WorkingInv', CourseInv, CourseNext, NEW j \in Calls, RunStep(j)
    PROVE  PlanInv(j)'
<1>1. /\ RunTypes /\ RunInv(j) /\ PlanInv(j) /\ OthersAlone(j)
      /\ seen[j] \in Seq(Views) /\ seen \in [Calls -> Seq(Views)] /\ stage \in [Calls -> Stage]
  BY RunAlone DEF IndInv, CourseInv, RunStep, RunTypes
<1>2. http'[j] = "abandoned" => pc'[j] = "raised"
  BY RunKeepsPlan
<1>3. ASSUME stage'[j] \in {"reading", "saving"}
      PROVE  /\ \A r \in saved' : r.run # j
             /\ Len(seen'[j]) >= 5 => /\ j \in DOMAIN course'
                                      /\ course'[j].target = Target(j)'
                                      /\ course'[j].held = seen'[j][5]
  <2>1. CASE \E r \in Requests : Start(j, r)
    <3>1. stage[j] = "idle" /\ saved' = saved /\ seen' = seen
      BY <2>1 DEF Start
    <3>2. seen[j] = <<>> /\ \A r \in saved : r.run # j
      BY <1>1, <3>1 DEF RunInv, StageInv
    <3>3. ~(Len(seen'[j]) >= 5)
      BY <3>1, <3>2
    <3> QED  BY <3>1, <3>2, <3>3
  <2>2. CASE Read(j)
    <3> DEFINE view == View(Reads[Len(seen[j]) + 1])
    <3>1. stage[j] = "reading" /\ saved' = saved /\ seen'[j] = Append(seen[j], view)
          /\ positions' = positions
      BY <1>1, <2>2 DEF Read, MoveTo, exchangeVars
    <3>2. \A r \in saved : r.run # j
      BY <1>1, <3>1 DEF PlanInv
    <3>3. CASE Len(seen[j]) < 4
      <4>1. Len(seen'[j]) = Len(seen[j]) + 1
        BY <1>1, <3>1
      <4> QED  BY <1>1, <3>1, <3>2, <3>3, <4>1
    <3>4. CASE Len(seen[j]) = 4
      <4>1. Departure(j)
        BY <2>2, <3>4 DEF Departure
      <4>2. j \in DOMAIN course' /\ course'[j] = NewCourse(j)
        BY <4>1, CoursesKept
      <4>3. course'[j].held = positions /\ course'[j].target = Target(j)
        BY <4>1, <4>2, NewCourseIs
      <4>4. view = positions
        BY <3>4 DEF View, Reads
      <4> HIDE DEF view
      <4>5. seen'[j][5] = view /\ seen'[j][1] = seen[j][1]
        <5>1. view \in Views
          <6>1. positions \in [Symbols -> Int]
            BY DEF IndInv, ExchangeTypes
          <6> QED  BY <4>4, <6>1 DEF Views
        <5>2. seen[j] \in Seq(Views)
          BY <1>1
        <5>3. /\ Append(seen[j], view)[Len(seen[j]) + 1] = view
              /\ \A i \in 1 .. Len(seen[j]) : Append(seen[j], view)[i] = seen[j][i]
          BY <5>1, <5>2, Appended
        <5>4. Append(seen[j], view)[5] = view /\ Append(seen[j], view)[1] = seen[j][1]
          BY <3>4, <5>3
        <5> QED  BY <3>1, <5>4
      <4> QED  BY <3>1, <3>2, <4>2, <4>3, <4>4, <4>5 DEF Target
    <3>5. CASE Len(seen[j]) > 4
      <4>1. ~Departure(j) /\ j \in DOMAIN course /\ course[j].target = Target(j)
            /\ course[j].held = seen[j][5]
        BY <1>1, <3>1, <3>5 DEF Departure, PlanInv
      <4>2. j \in DOMAIN course' /\ course'[j].held = course[j].held
            /\ course'[j].target = course[j].target
        BY <4>1, CoursesKept
      <4>3. seen'[j][5] = seen[j][5] /\ seen'[j][1] = seen[j][1]
        <5> HIDE DEF view
        <5>1. 1 \in 1 .. Len(seen[j]) /\ 5 \in 1 .. Len(seen[j])
          BY <1>1, <3>5
        <5> QED  BY <1>1, <3>1, <5>1
      <4> QED  BY <3>1, <3>2, <4>1, <4>2, <4>3 DEF Target
    <3>6. Len(seen[j]) < 4 \/ Len(seen[j]) = 4 \/ Len(seen[j]) > 4
      <4>1. seen[j] \in Seq(Views)
        BY <1>1
      <4>2. \A n \in Nat : n < 4 \/ n = 4 \/ n > 4
        OBVIOUS
      <4>3. Len(seen[j]) \in Nat
        BY <4>1
      <4> QED  BY <4>2, <4>3, Zenon
    <3> QED  BY <3>3, <3>4, <3>5, <3>6, Zenon
  <2>3. CASE SavePreview(j) \/ Decide(j)
    BY <1>1, <1>3, <2>3 DEF SavePreview, Decide, MoveTo
  <2>4. CASE Check(j) \/ Post(j) \/ Receive(j) \/ GiveUp(j)
    <3>1. stage' = stage /\ pc[j] \in InLoop
      BY <2>4 DEF Check, CheckExisting, Post, Receive, GiveUp, SetPost, Raised, Attempting,
                  InLoop, runVars
    <3>2. stage[j] = "submitting"
      BY <1>1, <3>1 DEF RunInv, SubmitInv, InLoop
    <3> QED  BY <1>3, <3>1, <3>2
  <2>5. CASE Crash(j)
    <3>1. stage'[j] = "raised" \/ (stage' = stage /\ pc[j] \in InLoop)
      BY <1>1, <2>5 DEF Crash
    <3>2. pc[j] \in InLoop => stage[j] = "submitting"
      BY <1>1 DEF RunInv, SubmitInv, InLoop
    <3> QED  BY <1>3, <3>1, <3>2
  <2> QED  BY <2>1, <2>2, <2>3, <2>4, <2>5 DEF RunStep, Advance
<1> QED  BY <1>2, <1>3 DEF PlanInv

LEMMA CourseKept ==
    ASSUME IndInv, WorkingInv, WorkingInv', CourseInv, CourseNext
    PROVE  CourseInv'
<1>1. /\ RunTypes /\ DOMAIN course' \subseteq Calls /\ DOMAIN course \subseteq Calls
      /\ \A k \in DOMAIN course' : course'[k] \in Course
      /\ \A k \in DOMAIN course : k \in DOMAIN course'
      /\ \A k \in DOMAIN course : ~Departure(k) =>
            course'[k].held = course[k].held /\ course'[k].target = course[k].target
      /\ \A k \in DOMAIN course' \ DOMAIN course : Departure(k)
  BY CoursesKept DEF IndInv, CourseInv
<1>2. /\ \A k \in Calls : PlanInv(k)
      /\ \A k \in DOMAIN course : stage[k] # "idle"
      /\ \A r \in saved :
            /\ r.run \in DOMAIN course
            /\ r.preview.intents = Intents(course[r.run].target, course[r.run].held)
  BY DEF CourseInv
<1>3. ASSUME NEW k \in Calls, Departure(k) PROVE RunStep(k) /\ stage[k] = "reading"
  BY <1>3 DEF Departure, RunStep, Advance, Read
<1>4. ASSUME NEW k \in Calls, stage'[k] = stage[k], seen'[k] = seen[k], http'[k] = http[k],
             pc'[k] = pc[k], ~Departure(k),
             stage[k] \in {"reading", "saving"} => \A r \in saved' : r.run # k
      PROVE  PlanInv(k)'
  <2>1. CASE stage[k] \in {"reading", "saving"} /\ Len(seen[k]) >= 5
    <3>1. k \in DOMAIN course /\ course[k].target = Target(k) /\ course[k].held = seen[k][5]
      BY <1>2, <2>1 DEF PlanInv
    <3>2. Target(k)' = Target(k)
      BY <1>4 DEF Target
    <3> QED  BY <1>1, <1>2, <1>4, <3>1, <3>2 DEF PlanInv
  <2>2. CASE ~(stage[k] \in {"reading", "saving"} /\ Len(seen[k]) >= 5)
    BY <1>2, <1>4, <2>2 DEF PlanInv
  <2> QED  BY <2>1, <2>2
<1>5. ASSUME NEW r \in saved
      PROVE  /\ r.run \in DOMAIN course'
             /\ r.preview.intents = Intents(course'[r.run].target, course'[r.run].held)
  <2>1. PICK k \in DOMAIN course :
           k = r.run /\ r.preview.intents = Intents(course[k].target, course[k].held)
    BY <1>2
  <2>2. k \in Calls /\ PlanInv(k) /\ r.run = k
    BY <1>1, <1>2, <2>1
  <2>3. ~Departure(k)
    BY <1>3, <2>2 DEF PlanInv
  <2> QED  BY <1>1, <2>1, <2>2, <2>3
<1>6. ASSUME NEW j \in Calls, RunStep(j)
      PROVE  CourseInv'
  <2>1. OthersAlone(j)
    BY <1>6, RunAlone DEF RunStep
  <2>2. ASSUME NEW k \in Calls \ {j}, Departure(k) PROVE FALSE
    <3>1. seen[k] \in Seq(Views) /\ seen'[k] = Append(seen[k], View(Reads[Len(seen[k]) + 1]))
      BY <1>1, <2>2 DEF RunTypes, Departure, Read
    <3>2. Len(seen'[k]) = Len(seen[k]) + 1 /\ Len(seen[k]) \in Nat
      BY <3>1
    <3> QED  BY <2>1, <3>2 DEF OthersAlone
  <2>3. \A k \in DOMAIN course' : stage'[k] # "idle"
    BY <1>1, <1>2, <1>6, <2>1, <2>2, RunKeepsPlan DEF OthersAlone
  <2>4. ASSUME NEW k \in Calls PROVE PlanInv(k)'
    <3>1. CASE k = j
      BY <1>6, <3>1, PlanKept
    <3>2. CASE k # j
      <4>1. stage[k] \in {"reading", "saving"} => \A r \in saved' : r.run # k
        BY <1>2, <2>1, <3>2 DEF OthersAlone, PlanInv
      <4> QED  BY <1>4, <2>1, <2>2, <3>2, <4>1 DEF OthersAlone
    <3> QED  BY <3>1, <3>2
  <2>5. ASSUME NEW r \in saved'
        PROVE  /\ r.run \in DOMAIN course'
               /\ r.preview.intents = Intents(course'[r.run].target, course'[r.run].held)
    <3>1. CASE r \in saved
      BY <1>5, <3>1
    <3>2. CASE r \notin saved
      <4>1. SavePreview(j)
        BY <1>6, <3>2 DEF RunStep, Start, Advance, Read, Decide, Check, Post, Receive, GiveUp,
                          SetPost, Crash, MoveTo, runVars
      <4>2. r.run = j /\ r.preview.intents = Intents(Target(j), seen[j][5])
        BY <3>2, <4>1 DEF SavePreview
      <4>3. stage[j] = "saving" /\ Len(seen[j]) = 8
        BY <1>6, <4>1 DEF SavePreview, IndInv, RunInv, StageInv, Reads
      <4>4. j \in DOMAIN course /\ course[j].target = Target(j) /\ course[j].held = seen[j][5]
        BY <1>2, <4>3 DEF PlanInv
      <4>5. ~Departure(j)
        BY <1>3, <4>3
      <4> QED  BY <1>1, <4>2, <4>4, <4>5
    <3> QED  BY <3>1, <3>2
  <2> QED  BY <1>1, <2>3, <2>4, <2>5 DEF CourseInv
<1>7. ASSUME Exchange PROVE CourseInv'
  <2>1. UNCHANGED <<stage, seen, saved, pc>>
    BY <1>7 DEF Exchange, runVars, serviceVars
  <2>2. ASSUME NEW k \in Calls PROVE ~Departure(k)
    <3> SUFFICES ASSUME Departure(k) PROVE FALSE
      OBVIOUS
    <3>1. seen[k] \in Seq(Views) /\ seen'[k] = Append(seen[k], View(Reads[Len(seen[k]) + 1]))
      BY <1>1 DEF RunTypes, Departure, Read
    <3>2. Len(seen'[k]) = Len(seen[k]) + 1 /\ Len(seen[k]) \in Nat
      BY <3>1
    <3> QED  BY <2>1, <3>2
  <2>3. ASSUME NEW k \in Calls, http'[k] = "abandoned" PROVE http[k] = "abandoned"
    <3>1. ASSUME NEW j \in Calls, Process(j, Current(j)) PROVE http[k] = "abandoned"
      <4>1. PICK reply \in Answered :
               http' = [http EXCEPT ![j] = IF @ = "sent" THEN reply ELSE "idle"]
        BY <3>1 DEF Process, Answered
      <4> QED  BY <1>1, <2>3, <4>1 DEF RunTypes, Answered
    <3>2. ASSUME NEW j \in Calls, Lose(j) PROVE http[k] = "abandoned"
      BY <1>1, <2>3, <3>2 DEF Lose, RunTypes
    <3> QED  BY <1>7, <2>3, <3>1, <3>2 DEF Exchange, Fill, End, Reprice, BarTrading
  <2>4. ASSUME NEW k \in Calls PROVE PlanInv(k)'
    <3>1. Target(k)' = Target(k)
      BY <2>1 DEF Target
    <3>2. k \in DOMAIN course => /\ k \in DOMAIN course' /\ course'[k].held = course[k].held
                                 /\ course'[k].target = course[k].target
      BY <1>1, <2>2
    <3> QED  BY <1>2, <2>1, <2>3, <3>1, <3>2 DEF PlanInv
  <2> QED  BY <1>1, <1>2, <1>5, <2>1, <2>2, <2>4 DEF CourseInv
<1> QED  BY <1>6, <1>7 DEF CourseNext, Next, RunStep

CourseIndInv == IndInv /\ FitInv /\ WorkingInv /\ CourseInv

LEMMA CourseFollowed == CourseSpec => []CourseIndInv
<1>1. CourseInit => CourseInv
  BY PaperAssumption DEF CourseInit, CourseInv, Init, ExchangeInit, PlanInv
<1>2. Init => FitInv
  BY FS_EmptySet DEF Init, ExchangeInit, FitInv
<1>3. CourseInit => Init
  BY DEF CourseInit
<1>4. [CourseNext]_courseVars => [Next]_vars
  BY DEF CourseNext, courseVars
<1>5. CourseSpec => []IndInv
  BY <1>3, <1>4, Invariance, PTL DEF CourseSpec, Spec
<1>6. IndInv /\ FitInv /\ [Next]_vars => FitInv'
  BY FitKept
<1>7. CourseSpec => []FitInv
  BY <1>2, <1>3, <1>4, <1>5, <1>6, PTL DEF CourseSpec
<1>8. CourseSpec => []WorkingInv
  BY <1>5, <1>7, WorkingFits, PTL
<1>9. IndInv /\ WorkingInv /\ WorkingInv' /\ CourseInv /\ [CourseNext]_courseVars => CourseInv'
  <2>1. UNCHANGED courseVars /\ CourseInv => CourseInv'
    BY DEF courseVars, vars, CourseInv, PlanInv, Target
  <2> QED  BY <2>1, CourseKept
<1> QED  BY <1>1, <1>5, <1>7, <1>8, <1>9, PTL DEF CourseSpec, CourseIndInv
-----------------------------------------------------------------------------
\* The shares of symbol s that go one way when they are bought, the other when
\* they are sold.
Opposite(side) == IF side = "buy" THEN "sell" ELSE "buy"
Along(side, n) == IF side = "buy" THEN n ELSE -n

\* What run k plans for a symbol; whether an intent of it has still to be sent;
\* how much of the plan that leaves, and how much of it has been filled.
PlanOf(k, s) == IntentOf(course[k].target, course[k].held, s)
Planned(k, s, side) ==
    IF s \in Traded(course[k].target, course[k].held) /\ PlanOf(k, s).side = side
    THEN PlanOf(k, s).quantity ELSE 0
ToCome(k, c) ==
    \/ stage[k] \in {"reading", "saving", "deciding"}
    \/ /\ pc[k] \in InLoop
       /\ \E i \in DOMAIN preview[k].intents :
             /\ preview[k].intents[i] = c
             /\ i > Len(outcomes[k]) + 1 \/ (i = Len(outcomes[k]) + 1 /\ http[k] = "idle")
Own(k, s, side) == IF ToCome(k, PlanOf(k, s)) THEN Planned(k, s, side) ELSE 0
Done(k, s, side) ==
    IF Planned(k, s, side) > 0 /\ Known(PlanOf(k, s)) /\ orders[PlanOf(k, s)].placed_by = k
    THEN orders[PlanOf(k, s)].filled_quantity ELSE 0

\* The balance of a run: what is held, is due, has still to be sent, and has been
\* filled the other way, is made up by what was held, was due and is planned.
Balanced(k, s, side) ==
    Along(side, positions[s]) + Due(s, side) + Own(k, s, side) + Done(k, s, Opposite(side))
        <= Along(side, course[k].held[s]) + course[k].due[side][s] + Planned(k, s, side)

BalanceInv ==
    \A k \in DOMAIN course : \A s \in Symbols, side \in Sides : Balanced(k, s, side)

LEMMA PlanFits ==
    ASSUME CourseIndInv, NEW k \in DOMAIN course, NEW s \in Symbols, NEW side \in Sides
    PROVE  /\ Planned(k, s, side) \in Nat /\ Own(k, s, side) \in Nat /\ Done(k, s, side) \in Nat
           /\ Planned(k, s, side) > 0 =>
                 PlanOf(k, s) \in Id /\ PlanOf(k, s).symbol = s /\ PlanOf(k, s).side = side
           /\ course[k].held[s] \in Int /\ course[k].due[side][s] \in Int
           /\ positions[s] \in Int /\ Due(s, side) \in Nat
<1>1. course[k] \in Course /\ positions \in [Symbols -> Int]
  BY DEF CourseIndInv, CourseInv, IndInv, ExchangeTypes
<1>2. course[k].held \in [Symbols -> Int] /\ course[k].target \in Targets
      /\ course[k].due \in [Sides -> [Symbols -> Int]]
  BY <1>1 DEF Course
<1>3. s \in Traded(course[k].target, course[k].held) =>
         PlanOf(k, s) \in Id /\ PlanOf(k, s).symbol = s
  BY <1>2, IntentsLead DEF PlanOf
<1>4. /\ Planned(k, s, side) \in Nat
      /\ Planned(k, s, side) > 0 =>
            PlanOf(k, s) \in Id /\ PlanOf(k, s).symbol = s /\ PlanOf(k, s).side = side
  <2>1. CASE s \in Traded(course[k].target, course[k].held) /\ PlanOf(k, s).side = side
    <3>1. PlanOf(k, s).quantity \in Nat
      BY <1>3, <2>1 DEF Id
    <3> QED  BY <1>3, <2>1, <3>1 DEF Planned
  <2>2. CASE ~(s \in Traded(course[k].target, course[k].held) /\ PlanOf(k, s).side = side)
    <3>1. Planned(k, s, side) = 0
      BY <2>2 DEF Planned
    <3> QED  BY <3>1
  <2> QED  BY <2>1, <2>2
<1>5. Own(k, s, side) \in Nat
  BY <1>4 DEF Own
<1>6. Done(k, s, side) \in Nat
  <2>1. ASSUME NEW c \in DOMAIN orders PROVE orders[c].filled_quantity \in Nat
    BY DEF CourseIndInv, IndInv, ExchangeTypes, Order
  <2> QED  BY <2>1 DEF Done, Known
<1>7. Due(s, side) \in Nat
  BY DueType DEF CourseIndInv
<1> QED  BY <1>1, <1>2, <1>4, <1>5, <1>6, <1>7

\* What is due does not grow with what is working, and left of it.
LEMMA DueShrinks ==
    ASSUME WorkingInv, WorkingInv', NEW s, NEW side,
           Working' \subseteq Working, \A d \in Working' : Left(d)' <= Left(d)
    PROVE  Due(s, side)' <= Due(s, side)
<1> DEFINE c == "nothing"
<1>1. IF c \in Working' THEN Left(c)' <= (IF c \in Working THEN Left(c) ELSE 0) + 0
      ELSE 0 <= (IF c \in Working THEN Left(c) ELSE 0) + 0
  <2>1. c \in Working => Left(c) \in Nat
    BY DEF WorkingInv
  <2>2. c \in Working' => Left(c)' \in Nat
    BY DEF WorkingInv
  <2> HIDE DEF c
  <2> QED  BY <2>1, <2>2
<1> HIDE DEF c
<1>2. Working' \subseteq Working \cup {c} /\ 0 \in Int
  OBVIOUS
<1>3. Due(s, side)' <= Due(s, side) + 0
  BY <1>1, <1>2, DueStep
<1>4. Due(s, side) \in Nat /\ Due(s, side)' \in Nat
  BY DueType, DueTypeNext
<1> QED  BY <1>3, <1>4

\* A plan is what its course makes it.
SamePlan(k) == course'[k].held = course[k].held /\ course'[k].target = course[k].target

LEMMA PlanSame ==
    ASSUME NEW k, SamePlan(k), NEW s, NEW side
    PROVE  PlanOf(k, s)' = PlanOf(k, s) /\ Planned(k, s, side)' = Planned(k, s, side)
<1>1. PlanOf(k, s)' = PlanOf(k, s)
  BY DEF SamePlan, PlanOf
<1>2. Traded(course[k].target, course[k].held)' = Traded(course[k].target, course[k].held)
  BY DEF SamePlan
<1> QED  BY <1>1, <1>2 DEF Planned

LEMMA OwnShrinks ==
    ASSUME CourseIndInv, NEW k \in DOMAIN course, SamePlan(k), NEW s \in Symbols,
           NEW side \in Sides, \A c : ToCome(k, c)' => ToCome(k, c)
    PROVE  Own(k, s, side)' <= Own(k, s, side)
<1>1. PlanOf(k, s)' = PlanOf(k, s) /\ Planned(k, s, side)' = Planned(k, s, side)
      /\ Planned(k, s, side) \in Nat
  BY PlanSame, PlanFits
<1>2. ToCome(k, PlanOf(k, s))' => ToCome(k, PlanOf(k, s))
  BY <1>1
<1>3. Own(k, s, side)' = IF ToCome(k, PlanOf(k, s))' THEN Planned(k, s, side) ELSE 0
  BY <1>1 DEF Own
<1> QED  BY <1>1, <1>2, <1>3 DEF Own

\* Nothing of a plan that was sent has still to be sent.
LEMMA RunSends ==
    ASSUME IndInv, NEW j \in Calls, RunStep(j), NEW k \in Calls, stage[k] # "idle", NEW c
    PROVE  ToCome(k, c)' => ToCome(k, c)
<1>1. RunTypes /\ RunInv(j) /\ OthersAlone(j)
  BY RunAlone DEF IndInv, RunStep
<1>2. CASE k # j
  BY <1>1, <1>2 DEF OthersAlone, ToCome
<1>3. CASE k = j
  <2>1. CASE Read(j) \/ SavePreview(j) \/ Decide(j)
    BY <1>3, <2>1 DEF Read, SavePreview, Decide, ToCome
  <2> DEFINE rest == {i \in DOMAIN preview[j].intents : preview[j].intents[i] = c}
  <2>2. ASSUME pc[j] \in InLoop, stage' = stage, preview'[j] = preview[j],
               pc'[j] \in InLoop => \/ /\ outcomes'[j] = outcomes[j]
                                       /\ http'[j] = "idle" => http[j] = "idle"
                                    \/ Len(outcomes'[j]) = Len(outcomes[j]) + 1
        PROVE  ToCome(j, c)' => ToCome(j, c)
    <3>1. stage'[j] = "submitting"
      BY <1>1, <2>2 DEF RunInv, SubmitInv, InLoop
    <3>2. Len(outcomes[j]) \in Nat /\ DOMAIN preview[j].intents \subseteq Nat
      BY <1>1 DEF RunTypes, Draft
    <3> SUFFICES ASSUME pc'[j] \in InLoop, NEW i \in DOMAIN preview[j].intents,
                        preview[j].intents[i] = c,
                        i > Len(outcomes'[j]) + 1
                            \/ (i = Len(outcomes'[j]) + 1 /\ http'[j] = "idle")
                 PROVE  i > Len(outcomes[j]) + 1
                            \/ (i = Len(outcomes[j]) + 1 /\ http[j] = "idle")
      BY <2>2, <3>1 DEF ToCome
    <3> QED  BY <2>2, <3>2
  <2>3. ASSUME \E status, counted : Settle(j, status, counted)
        PROVE  Len(outcomes'[j]) = Len(outcomes[j]) + 1 /\ preview'[j] = preview[j]
    <3>1. PICK o : outcomes' = [outcomes EXCEPT ![j] = Append(@, o)]
      BY <2>3 DEF Settle
    <3>2. Len(Append(outcomes[j], o)) = Len(outcomes[j]) + 1
      BY <1>1 DEF RunTypes
    <3> QED  BY <1>1, <2>3, <3>1, <3>2 DEF Settle, RunTypes
  <2>4. CASE Check(j)
    <3>1. pc[j] \in InLoop /\ stage' = stage /\ http' = http
      BY <2>4 DEF Check, CheckExisting, InLoop, runVars, exchangeVars
    <3>2. (\E status, counted : Settle(j, status, counted)) \/ GoTo(j, "submit")
      BY <2>4 DEF Check, CheckExisting
    <3> QED  BY <1>3, <2>2, <2>3, <3>1, <3>2 DEF GoTo
  <2>5. CASE Post(j)
    <3>1. pc[j] \in InLoop /\ stage' = stage /\ preview' = preview /\ outcomes' = outcomes
          /\ http[j] = "idle"
      BY <2>5 DEF Post, SetPost, Attempting, InLoop, runVars, serviceVars
    <3> QED  BY <1>3, <2>2, <3>1
  <2>6. CASE Receive(j)
    <3>1. pc[j] \in InLoop /\ stage' = stage
      BY <2>6 DEF Receive, SetPost, Attempting, InLoop, runVars
    <3>2. (\E status, counted : Settle(j, status, counted)) \/ GoTo(j, "raised")
      BY <2>6 DEF Receive, Returned, Raised
    <3>3. GoTo(j, "raised") => pc'[j] \notin InLoop /\ preview' = preview
      BY <1>1 DEF GoTo, RunTypes, InLoop
    <3> QED  BY <1>3, <2>2, <2>3, <3>1, <3>2, <3>3
  <2>7. CASE GiveUp(j) \/ Crash(j)
    <3>1. \/ stage' = stage /\ GoTo(j, "raised") /\ pc[j] \in InLoop
          \/ stage' = [stage EXCEPT ![j] = "raised"] /\ UNCHANGED serviceVars /\ pc[j] \notin InLoop
      BY <2>7 DEF GiveUp, Crash, SetPost, Raised, runVars
    <3>2. GoTo(j, "raised") => pc'[j] \notin InLoop /\ preview' = preview
      BY <1>1 DEF GoTo, RunTypes, InLoop
    <3>3. CASE stage' = stage /\ GoTo(j, "raised") /\ pc[j] \in InLoop
      BY <1>3, <2>2, <3>2, <3>3
    <3>4. CASE stage' = [stage EXCEPT ![j] = "raised"] /\ UNCHANGED serviceVars
               /\ pc[j] \notin InLoop
      BY <1>1, <1>3, <3>4 DEF ToCome, RunTypes, serviceVars
    <3> QED  BY <3>1, <3>3, <3>4
  <2>8. ~ \E r \in Requests : Start(j, r)
    BY <1>3 DEF Start
  <2> QED  BY <1>3, <2>1, <2>4, <2>5, <2>6, <2>7, <2>8 DEF RunStep, Advance
<1> QED  BY <1>2, <1>3

\* A run's step, but for a POST, leaves everyone in balance.
LEMMA RunBalances ==
    ASSUME CourseIndInv, CourseIndInv', NEW j \in Calls, RunStep(j), ~Post(j),
           NEW k \in DOMAIN course, course'[k] = course[k],
           NEW s \in Symbols, NEW side \in Sides, Balanced(k, s, side)
    PROVE  Balanced(k, s, side)'
<1>1. IndInv /\ WorkingInv /\ WorkingInv' /\ SamePlan(k) /\ k \in Calls /\ stage[k] # "idle"
  BY DEF CourseIndInv, CourseInv, SamePlan
<1>2. orders' = orders /\ positions' = positions
  BY <1>1, RunAlone DEF RunStep, OthersAlone
<1>3. Due(s, side)' <= Due(s, side)
  <2>1. InFlight' \subseteq InFlight
    BY <1>1, QuietStep
  <2>2. Working' \subseteq Working
    BY <1>2, <2>1 DEF Working, OpenOrders
  <2>3. ASSUME NEW d \in Working' PROVE Left(d)' <= Left(d)
    <3>1. Left(d)' = Left(d) /\ Left(d) \in Nat
      BY <1>1, <1>2, <2>2 DEF Left, Known, Remaining, WorkingInv
    <3> QED  BY <3>1
  <2> QED  BY <1>1, <2>2, <2>3, DueShrinks
<1>4. Own(k, s, side)' <= Own(k, s, side)
  BY <1>1, RunSends, OwnShrinks
<1>5. Opposite(side) \in Sides
  BY DEF Opposite, Sides
<1>6. Done(k, s, Opposite(side))' = Done(k, s, Opposite(side))
      /\ Planned(k, s, side)' = Planned(k, s, side)
  BY <1>1, <1>2, PlanSame DEF Done, Known
<1>7. Due(s, side)' \in Nat /\ Own(k, s, side)' \in Nat
  <2>1. Own(k, s, side)' \in Nat
    BY <1>6, PlanFits DEF Own
  <2> QED  BY <1>1, <2>1, DueTypeNext
<1> DEFINE all == <<Planned(k, s, side), Own(k, s, side), Done(k, s, Opposite(side)),
                    Due(s, side)>>
<1>8. /\ Planned(k, s, side) \in Nat /\ Own(k, s, side) \in Nat
      /\ Done(k, s, Opposite(side)) \in Nat /\ Due(s, side) \in Nat
      /\ course[k].held[s] \in Int /\ course[k].due[side][s] \in Int /\ positions[s] \in Int
  BY <1>5, PlanFits
<1>9. Along(side, positions[s]) \in Int /\ Along(side, course[k].held[s]) \in Int
  BY <1>8 DEF Along
<1>10. /\ Along(side, positions[s])' = Along(side, positions[s])
       /\ Along(side, course[k].held[s])' = Along(side, course[k].held[s])
       /\ course'[k].due[side][s] = course[k].due[side][s]
  BY <1>2 DEF Along
<1> QED  BY <1>3, <1>4, <1>6, <1>7, <1>8, <1>9, <1>10 DEF Balanced

\* What a run posts was its own to send; what others post is due for all else.
LEMMA PostBalances ==
    ASSUME CourseIndInv, CourseIndInv', NEW j \in Calls, Post(j),
           NEW k \in DOMAIN course, course'[k] = IF k = j THEN course[k] ELSE Onward(k),
           NEW s \in Symbols, NEW side \in Sides, Balanced(k, s, side)
    PROVE  Balanced(k, s, side)'
<1>1. /\ IndInv /\ RunTypes /\ WorkingInv /\ WorkingInv' /\ k \in Calls /\ stage[k] # "idle"
      /\ CourseInv /\ course[k] \in Course /\ RunInv(j) /\ RunStep(j)
  BY DEF CourseIndInv, CourseInv, IndInv, RunStep, Advance
<1>2. SamePlan(k) /\ (k # j => course'[k].due[side][s] =
                         course[k].due[side][s] + (Due(s, side)' - Due(s, side)))
  BY <1>1, OnwardIs DEF SamePlan
<1>3. orders' = orders /\ positions' = positions
  BY DEF Post, SetPost
<1>4. Opposite(side) \in Sides
  BY DEF Opposite, Sides
<1>5. Done(k, s, Opposite(side))' = Done(k, s, Opposite(side))
      /\ Planned(k, s, side)' = Planned(k, s, side)
  BY <1>2, <1>3, PlanSame DEF Done, Known
<1>6. Own(k, s, side)' <= Own(k, s, side)
  BY <1>1, <1>2, RunSends, OwnShrinks
<1>7. Due(s, side)' \in Nat /\ Own(k, s, side)' \in Nat
  <2>1. Own(k, s, side)' \in Nat
    BY <1>5, PlanFits DEF Own
  <2> QED  BY <1>1, <2>1, DueTypeNext
<1>8. /\ Planned(k, s, side) \in Nat /\ Own(k, s, side) \in Nat
      /\ Done(k, s, Opposite(side)) \in Nat /\ Due(s, side) \in Nat
      /\ course[k].held[s] \in Int /\ course[k].due[side][s] \in Int /\ positions[s] \in Int
  BY <1>4, PlanFits
<1>9. Along(side, positions[s]) \in Int /\ Along(side, course[k].held[s]) \in Int
  BY <1>8 DEF Along
<1>10. /\ Along(side, positions[s])' = Along(side, positions[s])
       /\ Along(side, course[k].held[s])' = Along(side, course[k].held[s])
  BY <1>2, <1>3 DEF Along, SamePlan
<1>11. CASE k # j
  BY <1>2, <1>5, <1>6, <1>7, <1>8, <1>9, <1>10, <1>11 DEF Balanced
<1>12. CASE k = j
  <2>0. PICK c \in Id : c = Current(j)
    BY <1>1, PostStep
  <2>1. /\ Working' \subseteq Working \cup {c} /\ c \in Id
        /\ Len(outcomes[j]) + 1 \in DOMAIN preview[j].intents
    BY <1>1, <2>0, PostStep
  <2>2. \A d : Left(d)' = Left(d)
    BY <1>3 DEF Left, Known, Remaining
  <2>3. \A d \in Working : Left(d) \in Nat
    BY <1>1 DEF WorkingInv
  <2>4. \A d \in Working' \ {c} : Left(d)' <= Left(d)
    BY <2>1, <2>2, <2>3
  <2>5. Left(c) \in Nat /\ c.quantity \in Nat /\ Left(c) <= c.quantity
    <3>1. c.quantity \in Nat
      BY <2>1 DEF Id
    <3>2. CASE Known(c)
      <4>1. /\ orders[c].filled_quantity \in Nat /\ orders[c].filled_quantity <= c.quantity
        BY <3>2 DEF CourseIndInv, FitInv, IndInv, ExchangeTypes, Order, Known
      <4> QED  BY <3>1, <3>2, <4>1 DEF Left, Remaining
    <3>3. CASE ~Known(c)
      BY <3>1, <3>3 DEF Left
    <3> QED  BY <3>1, <3>2, <3>3
  <2>6. CASE c.symbol # s \/ c.side # side
    <3>1. Due(s, side)' <= Due(s, side) + 0
      <4>1. WorkingInv /\ WorkingInv' /\ 0 \in Int /\ 0 >= 0
        BY <1>1
      <4>2. ~(c.symbol = s /\ c.side = side)
        BY <2>6
      <4> QED  BY <2>1, <2>4, <4>1, <4>2, DueStep
    <3> QED  BY <1>5, <1>6, <1>7, <1>8, <1>9, <1>10, <1>12, <3>1 DEF Balanced
  <2>7. CASE c.symbol = s /\ c.side = side
    <3>1. Due(s, side)' <= Due(s, side) + c.quantity
      <4>1. IF c \in Working' THEN Left(c)' <= (IF c \in Working THEN Left(c) ELSE 0) + c.quantity
            ELSE 0 <= (IF c \in Working THEN Left(c) ELSE 0) + c.quantity
        <5>1. Left(c)' = Left(c)
          BY <2>2
        <5> QED  BY <2>5, <5>1
      <4>2. c.quantity \in Int /\ WorkingInv /\ WorkingInv'
        BY <1>1, <2>5
      <4> QED  BY <2>1, <2>4, <2>7, <4>1, <4>2, DueStep
    <3> DEFINE q == preview[j].intents
    <3>2. q = Intents(course[j].target, course[j].held) /\ Attempting(j) /\ http[j] = "idle"
          /\ pc[j] \in InLoop
      <4>1. Attempting(j) /\ http[j] = "idle" /\ pc[j] \in InLoop /\ pc[j] # "idle"
        BY DEF Post, Attempting, InLoop
      <4>2. PICK r \in saved : r.run = j /\ r.preview = preview[j]
        BY <1>1, <4>1 DEF RunInv, SubmitInv
      <4> QED  BY <1>1, <4>1, <4>2 DEF CourseInv
    <3>3. /\ \A i \in DOMAIN q : /\ q[i].symbol \in Traded(course[j].target, course[j].held)
                                 /\ q[i] = PlanOf(j, q[i].symbol)
          /\ \A i, m \in DOMAIN q : q[i].symbol = q[m].symbol => i = m
      <4>1. course[j].target \in Targets /\ course[j].held \in [Symbols -> Int]
        BY <1>1, <1>12 DEF Course
      <4> QED  BY <3>2, <4>1, IntentsLead DEF PlanOf
    <3>4. c = q[Len(outcomes[j]) + 1]
      BY <2>0 DEF Current
    <3>5. c = PlanOf(j, s) /\ s \in Traded(course[j].target, course[j].held)
      BY <2>1, <2>7, <3>3, <3>4
    <3>6. Planned(j, s, side) = c.quantity
      BY <2>7, <3>5 DEF Planned
    <3>7. Own(j, s, side) = c.quantity
      <4>1. ToCome(j, c)
        BY <2>1, <3>2, <3>4 DEF ToCome
      <4> QED  BY <3>5, <3>6, <4>1 DEF Own
    <3>8. Own(j, s, side)' = 0
      <4>1. /\ stage'[j] = "submitting" /\ preview'[j].intents = q /\ outcomes' = outcomes
            /\ http'[j] = "sent"
        <5>1. stage[j] = "submitting"
          BY <1>1, <3>2 DEF RunInv, SubmitInv, InLoop
        <5>2. http \in [Calls -> PostState]
          BY <1>1 DEF RunTypes
        <5> QED  BY <5>1, <5>2 DEF Post, SetPost, runVars, serviceVars
      <4>2. DOMAIN q \subseteq Nat /\ Len(outcomes[j]) \in Nat
        BY <1>1 DEF RunTypes, Draft
      <4>3. ASSUME NEW i \in DOMAIN q, q[i] = c PROVE i = Len(outcomes[j]) + 1
        BY <2>1, <3>3, <3>4, <4>3
      <4>4. ~ToCome(j, c)'
        <5> SUFFICES ASSUME NEW i \in DOMAIN q, q[i] = c,
                            i > Len(outcomes[j]) + 1
                                \/ (i = Len(outcomes[j]) + 1 /\ http'[j] = "idle")
                     PROVE  FALSE
          BY <4>1 DEF ToCome
        <5>1. i = Len(outcomes[j]) + 1
          BY <4>3
        <5> QED  BY <4>1, <4>2, <5>1
      <4>5. PlanOf(j, s)' = c
        BY <1>2, <1>12, <3>5, PlanSame, Zenon
      <4> QED  BY <4>4, <4>5 DEF Own
    <3>9. course'[k].due[side][s] = course[k].due[side][s]
      BY <1>12
    <3> QED
      BY <1>5, <1>7, <1>8, <1>9, <1>10, <1>12, <2>5, <3>1, <3>7, <3>8, <3>9 DEF Balanced
  <2> QED  BY <2>6, <2>7
<1> QED  BY <1>11, <1>12

\* What the exchange does with what it has keeps everyone in balance.
LEMMA ExchangeBalances ==
    ASSUME CourseIndInv, CourseIndInv', Exchange,
           NEW k \in DOMAIN course, course'[k] = course[k],
           NEW s \in Symbols, NEW side \in Sides, Balanced(k, s, side)
    PROVE  Balanced(k, s, side)'
<1>1. /\ IndInv /\ RunTypes /\ ExchangeTypes /\ WorkingInv /\ WorkingInv' /\ FitInv
      /\ SamePlan(k) /\ k \in Calls /\ PlanInv(k) /\ \A j \in Calls : PlanInv(j)
  BY DEF CourseIndInv, CourseInv, SamePlan, IndInv
<1>2. UNCHANGED <<stage, pc, preview, outcomes>>
  BY DEF Exchange, runVars, serviceVars
<1>3. Opposite(side) \in Sides
  BY DEF Opposite, Sides
<1>4. PlanOf(k, s)' = PlanOf(k, s) /\ Planned(k, s, side)' = Planned(k, s, side)
      /\ Planned(k, s, Opposite(side))' = Planned(k, s, Opposite(side))
  BY <1>1, PlanSame
<1>5. /\ Planned(k, s, side) \in Nat /\ Own(k, s, side) \in Nat
      /\ Done(k, s, Opposite(side)) \in Nat /\ Due(s, side) \in Nat
      /\ course[k].held[s] \in Int /\ course[k].due[side][s] \in Int /\ positions[s] \in Int
  BY <1>3, PlanFits
<1>6. /\ Planned(k, s, Opposite(side)) \in Nat
      /\ Planned(k, s, Opposite(side)) > 0 =>
            /\ PlanOf(k, s) \in Id /\ PlanOf(k, s).symbol = s
            /\ PlanOf(k, s).side = Opposite(side)
  BY <1>3, PlanFits
<1>7. Own(k, s, side)' \in Nat /\ Due(s, side)' \in Nat
  <2>1. Own(k, s, side)' \in Nat
    BY <1>4, <1>5 DEF Own
  <2> QED  BY <1>1, <2>1, DueTypeNext
<1>8. ASSUME NEW j \in Calls, http'[j] = "idle" PROVE http[j] = "idle" \/ pc[j] \notin InLoop
  <2>1. ASSUME NEW i \in Calls, Process(i, Current(i))
        PROVE  http[j] = "idle" \/ pc[j] \notin InLoop
    <3>1. PICK reply \in Answered :
             http' = [http EXCEPT ![i] = IF @ = "sent" THEN reply ELSE "idle"]
      BY <2>1 DEF Process, Answered
    <3>2. http[i] \in {"sent", "abandoned"}
      BY <2>1 DEF Process
    <3> QED  BY <1>1, <1>8, <3>1, <3>2 DEF RunTypes, PlanInv, InLoop, Answered
  <2>2. ASSUME NEW i \in Calls, Lose(i) PROVE http[j] = "idle" \/ pc[j] \notin InLoop
    BY <1>1, <1>8, <2>2 DEF Lose, RunTypes, PlanInv, InLoop
  <2> QED  BY <1>8, <2>1, <2>2 DEF Exchange, Fill, End, Reprice, BarTrading
<1>9. Own(k, s, side)' <= Own(k, s, side)
  <2>1. \A c : ToCome(k, c)' => ToCome(k, c)
    BY <1>1, <1>2, <1>8 DEF ToCome
  <2> QED  BY <1>1, <2>1, OwnShrinks
\* All but fills leave the positions alone, and add to nothing.
<1>10. ASSUME positions' = positions, Due(s, side)' <= Due(s, side),
              Done(k, s, Opposite(side))' = Done(k, s, Opposite(side))
       PROVE  Balanced(k, s, side)'
  <2>1. Along(side, positions[s]) \in Int /\ Along(side, course[k].held[s]) \in Int
    BY <1>5 DEF Along
  <2>2. /\ Along(side, positions[s])' = Along(side, positions[s])
        /\ Along(side, course[k].held[s])' = Along(side, course[k].held[s])
        /\ course'[k].due[side][s] = course[k].due[side][s]
    BY <1>10 DEF Along
  <2> QED  BY <1>4, <1>5, <1>7, <1>9, <1>10, <2>1, <2>2 DEF Balanced
<1>11. ASSUME DOMAIN orders \subseteq DOMAIN orders', InFlight' \subseteq InFlight,
              \A d \in DOMAIN orders :
                 /\ orders'[d].filled_quantity = orders[d].filled_quantity
                 /\ orders'[d].placed_by = orders[d].placed_by
                 /\ orders'[d].status \in {orders[d].status, "rejected"},
              \A d \in DOMAIN orders' \ DOMAIN orders :
                 d \in InFlight /\ orders'[d].filled_quantity = 0
       PROVE  /\ Due(s, side)' <= Due(s, side)
              /\ Done(k, s, Opposite(side))' = Done(k, s, Opposite(side))
  <2>1. Working' \subseteq Working
    BY <1>11 DEF Working, OpenOrders, OpenStatus
  <2>2. ASSUME NEW d \in Working' PROVE Left(d)' <= Left(d)
    <3>1. Left(d) \in Nat /\ d \in Id
      BY <1>1, <2>1 DEF WorkingInv
    <3>2. Left(d)' = Left(d)
      <4>1. CASE d \in DOMAIN orders
        BY <1>11, <4>1 DEF Left, Known, Remaining
      <4>2. CASE d \in DOMAIN orders' \ DOMAIN orders
        BY <1>11, <3>1, <4>2 DEF Left, Known, Remaining, Id
      <4>3. CASE d \notin DOMAIN orders'
        BY <1>11, <4>3 DEF Left, Known
      <4> QED  BY <4>1, <4>2, <4>3
    <3> QED  BY <3>1, <3>2
  <2>3. Due(s, side)' <= Due(s, side)
    BY <1>1, <2>1, <2>2, DueShrinks
  <2>4. Done(k, s, Opposite(side))' = Done(k, s, Opposite(side))
    <3>1. PICK c : c = PlanOf(k, s)
      OBVIOUS
    <3>2. Done(k, s, Opposite(side)) =
             IF Planned(k, s, Opposite(side)) > 0 /\ c \in DOMAIN orders
                    /\ orders[c].placed_by = k
             THEN orders[c].filled_quantity ELSE 0
      BY <3>1 DEF Done, Known
    <3>3. Done(k, s, Opposite(side))' =
             IF Planned(k, s, Opposite(side)) > 0 /\ c \in DOMAIN orders'
                    /\ orders'[c].placed_by = k
             THEN orders'[c].filled_quantity ELSE 0
      BY <1>4, <3>1 DEF Done, Known
    <3> QED  BY <1>11, <3>2, <3>3
  <2> QED  BY <2>3, <2>4
<1>12. ASSUME NEW c \in OpenOrders, NEW n \in 1 .. Remaining(c), Fill(c, n)
       PROVE  Balanced(k, s, side)'
  <2>1. /\ c \in DOMAIN orders /\ c \in Id /\ orders[c] \in Order /\ n \in Nat
        /\ orders[c].filled_quantity \in Nat /\ c.quantity \in Nat /\ Remaining(c) \in Int
        /\ n <= Remaining(c) /\ c \in Working
    BY <1>1 DEF OpenOrders, ExchangeTypes, Order, Remaining, Id, Working
  <2>2. /\ DOMAIN orders' = DOMAIN orders
        /\ orders'[c].filled_quantity = orders[c].filled_quantity + n
        /\ orders'[c].placed_by = orders[c].placed_by
        /\ \A d \in DOMAIN orders \ {c} : orders'[d] = orders[d]
    BY <1>1, <1>12, <2>1 DEF Fill, ExchangeTypes, Order
  <2>3. /\ positions'[c.symbol] = positions[c.symbol] + Signed(c, n)
        /\ \A t \in Symbols \ {c.symbol} : positions'[t] = positions[t]
    BY <1>1, <1>12, <2>1 DEF Fill, ExchangeTypes, Id
  <2>4. Working' \subseteq Working \cup {c}
    <3>1. InFlight' = InFlight
      BY <1>2, <1>12, <2>2 DEF Fill, InFlight, Current
    <3> QED  BY <2>1, <2>2, <3>1 DEF Working, OpenOrders
  <2>5. \A d \in Working' \ {c} : Left(d)' <= Left(d)
    <3>1. ASSUME NEW d \in Working' \ {c} PROVE Left(d)' = Left(d) /\ Left(d) \in Nat
      BY <1>1, <2>2, <2>4 DEF Left, Known, Remaining, WorkingInv
    <3>2. \A m \in Nat : m <= m
      OBVIOUS
    <3> QED  BY <3>1, <3>2
  <2>6. Left(c) = Remaining(c) /\ Left(c)' = Remaining(c) - n /\ Remaining(c) \in Nat
    <3>1. Left(c) = Remaining(c) /\ Left(c) \in Nat
      BY <1>1, <2>1 DEF Left, Known, WorkingInv
    <3>2. Left(c)' = c.quantity - orders'[c].filled_quantity
      BY <2>1, <2>2 DEF Left, Known, Remaining
    <3>3. Remaining(c) = c.quantity - orders[c].filled_quantity
      BY DEF Remaining
    <3> QED  BY <2>1, <2>2, <3>1, <3>2, <3>3
  <2> DEFINE mine == c.symbol = s /\ c.side = side
  <2>7. Due(s, side)' <= Due(s, side) + (IF mine THEN -n ELSE 0)
    <3>1. CASE mine
      <4>1. IF c \in Working' THEN Left(c)' <= (IF c \in Working THEN Left(c) ELSE 0) + (-n)
            ELSE 0 <= (IF c \in Working THEN Left(c) ELSE 0) + (-n)
        BY <2>1, <2>6
      <4>2. -n \in Int /\ c.symbol = s /\ c.side = side
        BY <2>1, <3>1
      <4>3. Due(s, side)' <= Due(s, side) + (-n)
        BY <1>1, <2>4, <2>5, <4>1, <4>2, DueStep
      <4> QED  BY <3>1, <4>3
    <3>2. CASE ~mine
      <4>1. Due(s, side)' <= Due(s, side) + 0
        <5>1. WorkingInv /\ WorkingInv' /\ 0 \in Int /\ 0 >= 0
          BY <1>1
        <5> QED  BY <2>4, <2>5, <3>2, <5>1, DueStep
      <4> QED  BY <3>2, <4>1
    <3> QED  BY <3>1, <3>2
  <2> DEFINE other == c.symbol = s /\ c.side = Opposite(side)
  <2>8. /\ Done(k, s, Opposite(side))' \in Int
        /\ Done(k, s, Opposite(side))'
              <= Done(k, s, Opposite(side)) + (IF other THEN n ELSE 0)
    <3>1. PICK p : p = PlanOf(k, s)
      OBVIOUS
    <3> DEFINE own == Planned(k, s, Opposite(side)) > 0 /\ p \in DOMAIN orders
                          /\ orders[p].placed_by = k
    <3>2. Done(k, s, Opposite(side)) = IF own THEN orders[p].filled_quantity ELSE 0
      BY <3>1 DEF Done, Known
    <3>3. Done(k, s, Opposite(side))' = IF own THEN orders'[p].filled_quantity ELSE 0
      <4>1. Done(k, s, Opposite(side))' =
               IF Planned(k, s, Opposite(side)) > 0 /\ p \in DOMAIN orders'
                      /\ orders'[p].placed_by = k
               THEN orders'[p].filled_quantity ELSE 0
        BY <1>4, <3>1 DEF Done, Known
      <4> QED  BY <2>1, <2>2, <4>1
    <3>4. own /\ p = c => other
      BY <1>6, <3>1
    <3>5. own => orders[p].filled_quantity \in Nat
      BY <1>1 DEF ExchangeTypes, Order
    <3> HIDE DEF own, other
    <3>6. CASE own /\ p = c
      BY <2>1, <2>2, <3>2, <3>3, <3>4, <3>6
    <3>7. CASE own /\ p # c
      BY <2>1, <2>2, <3>2, <3>3, <3>5, <3>7 DEF own
    <3>8. CASE ~own
      BY <2>1, <3>2, <3>3, <3>8
    <3> QED  BY <3>6, <3>7, <3>8
  <2>9. Along(side, positions'[s])
           = Along(side, positions[s]) + (IF mine THEN n ELSE IF other THEN -n ELSE 0)
    <3>1. CASE c.symbol # s
      BY <1>5, <2>3, <3>1 DEF Along
    <3>2. CASE c.symbol = s
      <4>1. positions'[s] = positions[s] + Signed(c, n) /\ c.side \in Sides
        BY <2>1, <2>3, <3>2 DEF Id, Sides
      <4>2. CASE c.side = side
        BY <1>5, <2>1, <3>2, <4>1, <4>2 DEF Along, Signed, Sides
      <4>3. CASE c.side # side
        <5>1. c.side = Opposite(side)
          BY <4>1, <4>3 DEF Sides, Opposite
        <5> QED  BY <1>5, <2>1, <3>2, <4>1, <4>3, <5>1 DEF Along, Signed, Sides
      <4> QED  BY <4>2, <4>3
    <3> QED  BY <3>1, <3>2
  <2>10. ~(mine /\ other)
    BY DEF Opposite, Sides
  <2>11. Along(side, positions[s]) \in Int /\ Along(side, course[k].held[s]) \in Int
    BY <1>5 DEF Along
  <2>12. /\ Along(side, positions[s])' = Along(side, positions'[s])
         /\ Along(side, course[k].held[s])' = Along(side, course[k].held[s])
         /\ course'[k].due[side][s] = course[k].due[side][s]
    BY DEF Along
  <2> HIDE DEF mine, other
  <2> QED
    BY <1>4, <1>5, <1>7, <1>9, <2>1, <2>7, <2>8, <2>9, <2>10, <2>11, <2>12 DEF Balanced
<1>13. ASSUME NEW c \in OpenOrders, End(c) PROVE Balanced(k, s, side)'
  <2>1. /\ DOMAIN orders' = DOMAIN orders /\ positions' = positions
        /\ \A d \in DOMAIN orders : /\ orders'[d].filled_quantity = orders[d].filled_quantity
                                    /\ orders'[d].placed_by = orders[d].placed_by
                                    /\ orders'[d].status \in {orders[d].status, "rejected"}
    BY <1>1, <1>13 DEF End, ExchangeTypes, Order, OpenOrders
  <2>2. InFlight' = InFlight
    BY <1>2, <1>13, <2>1 DEF End, InFlight, Current
  <2> QED  BY <1>10, <1>11, <2>1, <2>2
<1>14. ASSUME UNCHANGED <<orders, positions>>,
              \A j \in Calls : http'[j] \in {"sent", "abandoned"} =>
                                   http[j] \in {"sent", "abandoned"}
       PROVE  Balanced(k, s, side)'
  <2>1. InFlight' \subseteq InFlight
    BY <1>2, <1>14 DEF InFlight, Current
  <2> QED  BY <1>10, <1>11, <1>14, <2>1
<1>15. ASSUME NEW j \in Calls, http[j] \in {"sent", "abandoned"}, Process(j, Current(j))
       PROVE  Balanced(k, s, side)'
  <2>1. PICK reply \in Answered :
           /\ http' = [http EXCEPT ![j] = IF @ = "sent" THEN reply ELSE "idle"]
           /\ IF reply = "refused"
              THEN UNCHANGED orders
              ELSE /\ ~Known(Current(j))
                   /\ orders' = [d \in DOMAIN orders \cup {Current(j)} |->
                          IF d = Current(j)
                          THEN [id |-> counter, status |-> reply,
                                filled_quantity |-> 0, placed_by |-> j]
                          ELSE orders[d]]
    BY <1>15 DEF Process, Answered
  <2>2. positions' = positions
    BY <1>15 DEF Process
  <2>3. \A i \in Calls : http'[i] \in {"sent", "abandoned"} =>
                             http[i] \in {"sent", "abandoned"}
    BY <1>1, <2>1 DEF RunTypes, Answered
  <2>4. CASE reply = "refused"
    BY <1>14, <2>1, <2>2, <2>3, <2>4
  <2>5. CASE reply # "refused"
    <3>1. PICK c : c = Current(j)
      OBVIOUS
    <3>2. /\ c \notin DOMAIN orders /\ DOMAIN orders' = DOMAIN orders \cup {c}
          /\ \A d \in DOMAIN orders : orders'[d] = orders[d]
          /\ orders'[c].filled_quantity = 0
      BY <2>1, <2>5, <3>1 DEF Known
    <3>3. c \in InFlight
      BY <1>15, <3>1, <3>2 DEF InFlight
    <3>4. InFlight' \subseteq InFlight
      <4>1. \A i \in Calls : Current(i)' = Current(i)
        BY <1>2 DEF Current
      <4> QED  BY <2>3, <3>2, <4>1 DEF InFlight
    <3> QED  BY <1>10, <1>11, <2>2, <3>2, <3>3, <3>4
  <2> QED  BY <2>4, <2>5
<1>16. CASE (\E j \in Calls : Lose(j)) \/ Reprice \/ BarTrading
  <2>1. UNCHANGED <<orders, positions>>
    BY <1>16 DEF Lose, Reprice, BarTrading
  <2>2. \A i \in Calls : http'[i] \in {"sent", "abandoned"} =>
                             http[i] \in {"sent", "abandoned"}
    BY <1>1, <1>16 DEF Lose, Reprice, BarTrading, RunTypes
  <2> QED  BY <1>14, <2>1, <2>2
<1> QED  BY <1>12, <1>13, <1>15, <1>16 DEF Exchange

\* A run that reads its positions starts in balance: nothing of it is filled.
LEMMA DepartureBalances ==
    ASSUME CourseIndInv, CourseIndInv', NEW j \in Calls, Departure(j),
           j \in DOMAIN course', course'[j] = NewCourse(j),
           NEW s \in Symbols, NEW side \in Sides
    PROVE  Balanced(j, s, side)'
<1>1. /\ IndInv /\ WorkingInv /\ WorkingInv' /\ ExchangeTypes /\ PlanInv(j) /\ RunStep(j)
      /\ OrdersInv /\ stage[j] = "reading" /\ course'[j] \in Course
  <2>1. RunStep(j) /\ stage[j] = "reading"
    BY DEF Departure, RunStep, Advance, Read
  <2> QED  BY <2>1 DEF CourseIndInv, CourseInv, IndInv
<1>2. UNCHANGED <<orders, positions, http, preview, outcomes>>
  BY DEF Departure, Read, exchangeVars, serviceVars
<1>3. Due(s, side)' = Due(s, side)
  <2>1. /\ Working' = Working /\ \A d : Left(d)' = Left(d)
    BY <1>2 DEF Working, OpenOrders, InFlight, Left, Known, Remaining, Current
  <2> QED  BY <2>1 DEF Due
<1>4. /\ course'[j].held = positions /\ course'[j].due[side][s] = Due(s, side)
  BY <1>1, NewCourseIs
<1>5. \A c \in DOMAIN orders : orders[c].placed_by # j
  BY <1>1 DEF OrdersInv, Backed, PlanInv
<1>6. Done(j, s, Opposite(side))' = 0
  <2>1. PICK c : c = PlanOf(j, s)'
    OBVIOUS
  <2>2. ~(c \in DOMAIN orders /\ orders[c].placed_by = j)
    BY <1>5
  <2> QED  BY <1>2, <2>1, <2>2 DEF Done, Known
<1>7. /\ Planned(j, s, side)' \in Nat /\ Own(j, s, side)' <= Planned(j, s, side)'
      /\ Own(j, s, side)' \in Nat
  <2>1. course'[j].target \in Targets /\ course'[j].held \in [Symbols -> Int]
    BY <1>1 DEF Course
  <2>2. s \in Traded(course'[j].target, course'[j].held) =>
           IntentOf(course'[j].target, course'[j].held, s).quantity \in Nat
    BY <2>1, IntentsLead DEF Id
  <2>3. Planned(j, s, side)' \in Nat
    BY <2>2 DEF Planned, PlanOf
  <2> QED  BY <2>3 DEF Own
<1>8. positions[s] \in Int /\ Due(s, side) \in Nat
  BY <1>1, DueType DEF ExchangeTypes
<1>9. Along(side, positions[s]) \in Int
  BY <1>8 DEF Along
<1>10. Along(side, positions[s])' = Along(side, positions[s])
       /\ Along(side, course[j].held[s])' = Along(side, positions[s])
  BY <1>2, <1>4 DEF Along
<1> QED  BY <1>3, <1>4, <1>6, <1>7, <1>8, <1>9, <1>10 DEF Balanced

LEMMA BalanceKept ==
    ASSUME CourseIndInv, CourseIndInv', BalanceInv, CourseNext
    PROVE  BalanceInv'
<1>1. IndInv /\ DOMAIN course \subseteq Calls
  BY DEF CourseIndInv, CourseInv
<1>2. CASE \E j \in Calls : /\ Departure(j)
                            /\ DOMAIN course' = DOMAIN course \cup {j}
                            /\ course'[j] = NewCourse(j)
                            /\ \A k \in DOMAIN course \ {j} : course'[k] = course[k]
  <2>1. PICK j \in Calls : /\ Departure(j)
                           /\ DOMAIN course' = DOMAIN course \cup {j}
                           /\ course'[j] = NewCourse(j)
                           /\ \A k \in DOMAIN course \ {j} : course'[k] = course[k]
    BY <1>2
  <2>2. RunStep(j) /\ ~Post(j)
    <3>1. RunStep(j) /\ pc[j] = "idle"
      <4>1. RunStep(j) /\ stage[j] = "reading"
        BY <2>1 DEF Departure, RunStep, Advance, Read
      <4> QED  BY <1>1, <4>1 DEF IndInv, RunInv, SubmitInv
    <3> QED  BY <3>1 DEF Post, Attempting
  <2> SUFFICES ASSUME NEW k \in DOMAIN course', NEW s \in Symbols, NEW side \in Sides
               PROVE  Balanced(k, s, side)'
    BY DEF BalanceInv
  <2>3. CASE k = j
    BY <2>1, <2>3, DepartureBalances
  <2>4. CASE k # j
    <3>1. k \in DOMAIN course /\ course'[k] = course[k] /\ Balanced(k, s, side)
      BY <2>1, <2>4 DEF BalanceInv
    <3> QED  BY <2>2, <3>1, RunBalances
  <2> QED  BY <2>3, <2>4
<1>3. CASE \E j \in Calls : /\ Post(j)
                            /\ DOMAIN course' = DOMAIN course
                            /\ j \in DOMAIN course => course'[j] = course[j]
                            /\ \A k \in DOMAIN course \ {j} : course'[k] = Onward(k)
  <2>1. PICK j \in Calls : /\ Post(j)
                           /\ DOMAIN course' = DOMAIN course
                           /\ j \in DOMAIN course => course'[j] = course[j]
                           /\ \A k \in DOMAIN course \ {j} : course'[k] = Onward(k)
    BY <1>3
  <2> SUFFICES ASSUME NEW k \in DOMAIN course, NEW s \in Symbols, NEW side \in Sides
               PROVE  Balanced(k, s, side)'
    BY <2>1 DEF BalanceInv
  <2>2. course'[k] = (IF k = j THEN course[k] ELSE Onward(k)) /\ Balanced(k, s, side)
    BY <2>1 DEF BalanceInv
  <2> QED  BY <2>1, <2>2, PostBalances
<1>4. CASE ((\E j \in Calls : RunStep(j) /\ ~Post(j) /\ ~Departure(j)) \/ Exchange)
           /\ SameCourse
  <2> SUFFICES ASSUME NEW k \in DOMAIN course, NEW s \in Symbols, NEW side \in Sides
               PROVE  Balanced(k, s, side)'
    BY <1>4 DEF BalanceInv, SameCourse
  <2>1. course'[k] = course[k] /\ Balanced(k, s, side)
    BY <1>4 DEF BalanceInv, SameCourse
  <2> QED  BY <1>4, <2>1, RunBalances, ExchangeBalances
<1> QED  BY <1>1, <1>2, <1>3, <1>4, CourseSteps

LEMMA InBalance == CourseSpec => [](CourseIndInv /\ BalanceInv)
<1>1. CourseInit => BalanceInv
  BY DEF CourseInit, BalanceInv
<1>2. CourseIndInv /\ CourseIndInv' /\ BalanceInv /\ [CourseNext]_courseVars => BalanceInv'
  <2>1. UNCHANGED courseVars /\ BalanceInv => BalanceInv'
    <3> SUFFICES ASSUME UNCHANGED courseVars, BalanceInv,
                        NEW k \in DOMAIN course, NEW s \in Symbols, NEW side \in Sides
                 PROVE  Balanced(k, s, side)'
      BY DEF BalanceInv, courseVars
    <3>1. UNCHANGED <<pc, preview, outcomes, orders, positions, http, stage, course>>
      BY DEF courseVars, vars
    <3>2. Balanced(k, s, side)
      BY DEF BalanceInv
    <3>3. /\ Working' = Working /\ \A d : Left(d)' = Left(d)
      BY <3>1 DEF Working, OpenOrders, InFlight, Left, Known, Remaining, Current
    <3>4. Due(s, side)' = Due(s, side)
      BY <3>3 DEF Due
    <3>5. PlanOf(k, s)' = PlanOf(k, s) /\ Planned(k, s, side)' = Planned(k, s, side)
          /\ Planned(k, s, Opposite(side))' = Planned(k, s, Opposite(side))
      BY <3>1, PlanSame DEF SamePlan
    <3>6. \A c : ToCome(k, c)' = ToCome(k, c)
      BY <3>1 DEF ToCome
    <3>7. Own(k, s, side)' = Own(k, s, side)
      BY <3>5, <3>6 DEF Own
    <3>8. Done(k, s, Opposite(side))' = Done(k, s, Opposite(side))
      BY <3>1, <3>5 DEF Done, Known
    <3> QED  BY <3>1, <3>2, <3>4, <3>5, <3>7, <3>8 DEF Balanced, Along
  <2> QED  BY <2>1, BalanceKept
<1> QED  BY <1>1, <1>2, CourseFollowed, PTL DEF CourseSpec
-----------------------------------------------------------------------------
(* No run overshoots: from its read of the positions on, what is held and   *)
(* what may still trade stays between what was held and the target, up to  *)
(* what others had on order or have sent since, though runs overlap, start *)
(* over and die, the market moves the equity, fills come at any time and   *)
(* at any price, and messages are lost or late.                            *)
THEOREM NothingOvershoots == CourseSpec => []NeverOvershoots
<1>1. CourseIndInv /\ BalanceInv => NeverOvershoots
  <2> SUFFICES ASSUME CourseIndInv, BalanceInv, NEW k \in DOMAIN course, NEW s \in Symbols
               PROVE  /\ positions[s] + Due(s, "buy")
                            <= Max({course[k].held[s], Goal(k, s)}) + course[k].due["buy"][s]
                      /\ positions[s] - Due(s, "sell")
                            >= Min({course[k].held[s], Goal(k, s)}) - course[k].due["sell"][s]
    BY DEF NeverOvershoots
  <2> DEFINE held == course[k].held[s]
  <2>1. "buy" \in Sides /\ "sell" \in Sides /\ Opposite("buy") = "sell" /\ Opposite("sell") = "buy"
    BY DEF Sides, Opposite
  <2>2. Balanced(k, s, "buy") /\ Balanced(k, s, "sell")
    BY <2>1 DEF BalanceInv
  <2>3. /\ positions[s] \in Int /\ held \in Int
        /\ \A side \in Sides : /\ Planned(k, s, side) \in Nat /\ Own(k, s, side) \in Nat
                               /\ Done(k, s, side) \in Nat /\ Due(s, side) \in Nat
                               /\ course[k].due[side][s] \in Int
    BY <2>1, PlanFits
  <2>4. course[k].target \in Targets /\ course[k].held \in [Symbols -> Int]
    BY DEF CourseIndInv, CourseInv, Course
  <2>5. Goal(k, s) \in Int
    BY <2>3, <2>4, IntentsLead DEF Goal
  <2>6. /\ Planned(k, s, "buy") > 0 => Planned(k, s, "buy") = Goal(k, s) - held
        /\ Planned(k, s, "sell") > 0 => Planned(k, s, "sell") = held - Goal(k, s)
    <3>1. ASSUME s \in Traded(course[k].target, course[k].held)
          PROVE  /\ PlanOf(k, s) \in Id
                 /\ Signed(PlanOf(k, s), PlanOf(k, s).quantity) = Goal(k, s) - held
      <4>1. s \in DOMAIN course[k].target
        BY <3>1 DEF Traded
      <4> QED  BY <2>4, <3>1, <4>1, IntentsLead DEF PlanOf, Goal
    <3>2. ASSUME NEW side \in Sides, Planned(k, s, side) > 0
          PROVE  /\ Planned(k, s, side) = PlanOf(k, s).quantity /\ PlanOf(k, s).side = side
                 /\ s \in Traded(course[k].target, course[k].held)
      BY <3>2 DEF Planned
    <3> HIDE DEF held
    <3>3. ASSUME Planned(k, s, "buy") > 0 PROVE Planned(k, s, "buy") = Goal(k, s) - held
      BY <2>1, <3>1, <3>2, <3>3 DEF Signed
    <3>4. ASSUME Planned(k, s, "sell") > 0 PROVE Planned(k, s, "sell") = held - Goal(k, s)
      <4>1. /\ -(PlanOf(k, s).quantity) = Goal(k, s) - held /\ PlanOf(k, s).quantity \in Nat
            /\ Planned(k, s, "sell") = PlanOf(k, s).quantity
        BY <2>1, <3>1, <3>2, <3>4 DEF Signed, Id
      <4> QED  BY <2>3, <2>5, <4>1
    <3> QED  BY <3>3, <3>4
  <2>7. /\ Max({held, Goal(k, s)}) \in Int /\ Max({held, Goal(k, s)}) >= held
        /\ Max({held, Goal(k, s)}) >= Goal(k, s)
        /\ Min({held, Goal(k, s)}) \in Int /\ Min({held, Goal(k, s)}) <= held
        /\ Min({held, Goal(k, s)}) <= Goal(k, s)
    BY <2>3, <2>5, TwoEnds
  <2> HIDE DEF held
  <2>8. positions[s] + Due(s, "buy") <= Max({held, Goal(k, s)}) + course[k].due["buy"][s]
    <3>1. positions[s] + Due(s, "buy") + Own(k, s, "buy") + Done(k, s, "sell")
             <= held + course[k].due["buy"][s] + Planned(k, s, "buy")
      BY <2>1, <2>2 DEF Balanced, Along, held
    <3> QED  BY <2>1, <2>3, <2>5, <2>6, <2>7, <3>1
  <2>9. positions[s] - Due(s, "sell") >= Min({held, Goal(k, s)}) - course[k].due["sell"][s]
    <3>1. -positions[s] + Due(s, "sell") + Own(k, s, "sell") + Done(k, s, "buy")
             <= -held + course[k].due["sell"][s] + Planned(k, s, "sell")
      BY <2>1, <2>2 DEF Balanced, Along, held
    <3> QED  BY <2>1, <2>3, <2>5, <2>6, <2>7, <3>1
  <2> QED  BY <2>8, <2>9 DEF held
<1> QED  BY <1>1, InBalance, PTL

(* A run whose own orders have all filled is on target, up to what is too  *)
(* small to order and to what others had on order or have sent since, on   *)
(* either side, at whatever price and equity.                              *)
THEOREM FilledMeansOnTarget == CourseSpec => []FilledRunIsOnTarget
<1>1. CourseIndInv /\ BalanceInv => FilledRunIsOnTarget
  <2> SUFFICES ASSUME CourseIndInv, BalanceInv, NEW k \in DOMAIN course, Filled(k),
                      \A c \in Range(preview[k].intents) : orders[c].placed_by = k,
                      NEW s \in DOMAIN course[k].target
               PROVE  LET off == positions[s] - course[k].target[s]
                          due == course[k].due
                          small == Limits.minimum_order_notional
                      IN  /\ (off - due["buy"][s]) * Price[s] < small
                          /\ (-off - due["sell"][s]) * Price[s] < small
    BY DEF FilledRunIsOnTarget
  <2> DEFINE held == course[k].held[s]
             goal == course[k].target[s]
             toBuy == course[k].due["buy"][s]
             toSell == course[k].due["sell"][s]
             pos == positions[s]
             small == Limits.minimum_order_notional
             q == preview[k].intents
             c == PlanOf(k, s)
             S == Traded(course[k].target, course[k].held)
  <2>1. /\ course[k].target \in Targets /\ course[k].held \in [Symbols -> Int]
        /\ k \in Calls /\ IndInv /\ FitInv /\ CourseInv
    BY DEF CourseIndInv, CourseInv, Course
  <2>2. s \in Symbols /\ goal \in Int
    BY <2>1, IntentsLead
  <2>3. "buy" \in Sides /\ "sell" \in Sides /\ Opposite("buy") = "sell" /\ Opposite("sell") = "buy"
    BY DEF Sides, Opposite
  <2>4. Balanced(k, s, "buy") /\ Balanced(k, s, "sell")
    BY <2>2, <2>3 DEF BalanceInv
  <2>5. /\ pos \in Int /\ held \in Int /\ toBuy \in Int /\ toSell \in Int
        /\ \A side \in Sides : /\ Planned(k, s, side) \in Nat /\ Own(k, s, side) \in Nat
                               /\ Done(k, s, side) \in Nat /\ Due(s, side) \in Nat
    BY <2>2, <2>3, PlanFits
  <2>6. /\ pos + Due(s, "buy") + Own(k, s, "buy") + Done(k, s, "sell")
              <= held + toBuy + Planned(k, s, "buy")
        /\ -pos + Due(s, "sell") + Own(k, s, "sell") + Done(k, s, "buy")
              <= -held + toSell + Planned(k, s, "sell")
    BY <2>3, <2>4 DEF Balanced, Along
  <2>7. small \in Nat \ {0} /\ Price[s] \in Nat \ {0}
    BY <2>2, PaperAssumption
  <2>8. CASE s \in S
    <3>1. c \in Id /\ c.symbol = s /\ Signed(c, c.quantity) = goal - held
      BY <2>1, <2>8, IntentsLead DEF PlanOf
    <3>2. c \in DOMAIN orders /\ orders[c].placed_by = k /\ orders[c].filled_quantity = c.quantity
      <4>1. q = Intents(course[k].target, course[k].held)
        <5>1. pc[k] # "idle"
          BY DEF Filled
        <5>2. PICK r \in saved : r.run = k /\ r.preview = preview[k]
          BY <2>1, <5>1 DEF IndInv, RunInv, SubmitInv
        <5> QED  BY <2>1, <5>2 DEF CourseInv
      <4>2. PICK i \in DOMAIN q : q[i].symbol = s
        BY <2>1, <2>8, <4>1, IntentsLead
      <4>3. q[i] = c
        BY <2>1, <4>1, <4>2, IntentsLead DEF PlanOf
      <4>4. c \in Range(q)
        BY <4>3 DEF Range
      <4> QED  BY <2>1, <4>4 DEF Filled, Known, FitInv
    <3>3. \A side \in Sides :
             /\ Planned(k, s, side) = IF c.side = side THEN c.quantity ELSE 0
             /\ Done(k, s, side) = Planned(k, s, side)
      <4> SUFFICES ASSUME NEW side \in Sides
                   PROVE  /\ Planned(k, s, side) = IF c.side = side THEN c.quantity ELSE 0
                          /\ Done(k, s, side) = Planned(k, s, side)
        OBVIOUS
      <4>1. Planned(k, s, side) = IF c.side = side THEN c.quantity ELSE 0
        BY <2>8 DEF Planned
      <4>2. Done(k, s, side) = IF Planned(k, s, side) > 0 THEN c.quantity ELSE 0
        BY <3>2 DEF Done, Known
      <4>3. Planned(k, s, side) \in Nat
        BY <2>5
      <4> HIDE DEF c
      <4> QED  BY <4>1, <4>2, <4>3
    <3>4. pos <= goal + toBuy /\ pos >= goal - toSell
      <4>1. c.side \in Sides /\ c.quantity \in Nat
        BY <3>1 DEF Id, Sides
      <4> HIDE DEF c, held, goal, toBuy, toSell, pos
      <4>2. CASE c.side = "buy"
        <5>1. /\ c.quantity = goal - held /\ Planned(k, s, "buy") = c.quantity
              /\ Planned(k, s, "sell") = 0 /\ Done(k, s, "buy") = c.quantity
          BY <2>3, <3>1, <3>3, <4>2 DEF Signed
        <5> QED  BY <2>2, <2>3, <2>5, <2>6, <5>1
      <4>3. CASE c.side = "sell"
        <5>1. /\ -c.quantity = goal - held /\ Planned(k, s, "sell") = c.quantity
              /\ Planned(k, s, "buy") = 0 /\ Done(k, s, "sell") = c.quantity
          BY <2>3, <3>1, <3>3, <4>3 DEF Signed
        <5> QED  BY <2>2, <2>3, <2>5, <2>6, <4>1, <5>1
      <4> QED  BY <4>1, <4>2, <4>3 DEF Sides
    <3> DEFINE over == (pos - goal) - toBuy
               under == -(pos - goal) - toSell
    <3>5. over \in Int /\ under \in Int /\ over <= 0 /\ under <= 0
      <4> HIDE DEF held, goal, toBuy, toSell, pos
      <4> QED  BY <2>2, <2>5, <3>4
    <3> HIDE DEF over, under
    <3>6. Price[s] * over <= Price[s] * 0 /\ Price[s] * under <= Price[s] * 0
      BY <2>7, <3>5, TimesMonotone
    <3>7. over * Price[s] < small /\ under * Price[s] < small
      <4>1. \A x \in Int : x * Price[s] = Price[s] * x /\ Price[s] * x \in Int
        BY <2>7
      <4>2. Price[s] * 0 = 0
        BY <2>7
      <4> HIDE DEF small
      <4> QED  BY <2>7, <3>5, <3>6, <4>1, <4>2
    <3> QED  BY <3>7 DEF over, under
  <2>9. CASE s \notin S
    <3>1. Planned(k, s, "buy") = 0 /\ Planned(k, s, "sell") = 0
      BY <2>9 DEF Planned
    <3>2. Abs(goal - held) * Price[s] < small
      BY <2>1, <2>9, IntentsLead
    <3> DEFINE over == (pos - goal) - toBuy
               under == -(pos - goal) - toSell
               gap == Abs(goal - held)
    <3>3. /\ over \in Int /\ under \in Int /\ gap \in Int
          /\ over <= gap /\ under <= gap
      <4> HIDE DEF held, goal, toBuy, toSell, pos
      <4>1. pos <= held + toBuy /\ -pos <= -held + toSell
        BY <2>3, <2>5, <2>6, <3>1
      <4> QED  BY <2>2, <2>5, <4>1 DEF Abs
    <3>4. gap * Price[s] < small
      BY <3>2
    <3> HIDE DEF over, under, gap
    <3>5. Price[s] * over <= Price[s] * gap /\ Price[s] * under <= Price[s] * gap
      BY <2>7, <3>3, TimesMonotone
    <3>6. over * Price[s] < small /\ under * Price[s] < small
      <4>1. \A x \in Int : x * Price[s] = Price[s] * x /\ Price[s] * x \in Int
        BY <2>7
      <4> HIDE DEF small
      <4> QED  BY <2>7, <3>3, <3>4, <3>5, <4>1
    <3> QED  BY <3>6 DEF over, under
  <2> QED  BY <2>8, <2>9
<1> QED  BY <1>1, InBalance, PTL
=============================================================================

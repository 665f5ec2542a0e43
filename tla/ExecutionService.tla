--------------------------- MODULE ExecutionService ---------------------------
(***************************************************************************)
(* ExecutionService.submit (src/src/mltrade/execution/service.py): the     *)
(* client side of order submission.  One element of Calls is one call of   *)
(* submit; a call holds its preview, the outcomes it has collected, the    *)
(* count it will return, and the place it has reached in the loop over the *)
(* preview's intents.  The broker is reached only through the Broker       *)
(* protocol, so every action here takes the broker's reply as a parameter: *)
(* a module that composes the service with a broker conjoins the action    *)
(* with the broker's own step and supplies the reply.                      *)
(***************************************************************************)
EXTENDS BrokerProtocol, Naturals, Sequences, Functions

CONSTANTS Calls,     \* the calls of ExecutionService.submit
          Previews   \* the previews a call may be given

Preview == [intents : Seq(Cids), risk_blocked : BOOLEAN,
            reconciliation_blocked : BOOLEAN]

\* preview() builds one intent per symbol, so the intents of a preview differ.
ASSUME PreviewsAssumption ==
    /\ Previews \subseteq Preview
    /\ \A p \in Previews : IsInjective(p.intents)

VARIABLES pc,         \* where each call is
          preview,    \* the preview each call was given
          outcomes,   \* the IntentOutcomes each call has appended so far
          submitted   \* each call's submitted_count

serviceVars == <<pc, preview, outcomes, submitted>>

(* The statuses an IntentOutcome may carry, and the places of the loop:    *)
(* before the idempotency check, before the first attempt, before the      *)
(* query that follows a timeout, before the retry.                         *)
OutcomeStatus == {"submitted", "already_existed", "rejected",
                  "timeout_failed", "blocked"}
InLoop == {"check", "submit", "query", "retry"}
Place == {"idle", "returned", "raised"} \cup InLoop

IntentOutcome == [client_order_id : Cids, status : OutcomeStatus]

NoPreview == [intents |-> <<>>, risk_blocked |-> FALSE,
              reconciliation_blocked |-> FALSE]

ServiceTypeOK ==
    /\ pc \in [Calls -> Place]
    /\ preview \in [Calls -> Previews \cup {NoPreview}]
    /\ outcomes \in [Calls -> Seq(IntentOutcome)]
    /\ submitted \in [Calls -> Nat]

ServiceInit ==
    /\ pc = [k \in Calls |-> "idle"]
    /\ preview = [k \in Calls |-> NoPreview]
    /\ outcomes = [k \in Calls |-> <<>>]
    /\ submitted = [k \in Calls |-> 0]

Blocked(p) == p.risk_blocked \/ p.reconciliation_blocked

\* The intent the loop of call k is at: the first without an outcome.
Current(k) == preview[k].intents[Len(outcomes[k]) + 1]

Attempting(k) == pc[k] \in {"submit", "retry"}

\* Mutants: the broker's status handed on as it is; a rejection overlooked.
RawStatus(status) == status
RejectionOverlooked(status) == IF status = "lost" THEN "rejected" ELSE "submitted"

OrderStatusToOutcome(status) ==
    IF status = "rejected" THEN "rejected" ELSE "submitted"
-----------------------------------------------------------------------------
(* submit(p) is called.  A blocked preview is answered at once, every      *)
(* outcome "blocked"; otherwise the loop starts (an empty preview has      *)
(* nothing to loop over).                                                  *)
Submit(k, p) ==
    /\ pc[k] = "idle"
    /\ preview' = [preview EXCEPT ![k] = p]
    /\ \/ /\ Blocked(p)
          /\ pc' = [pc EXCEPT ![k] = "returned"]
          /\ outcomes' = [outcomes EXCEPT ![k] =
                 [i \in DOMAIN p.intents |->
                     [client_order_id |-> p.intents[i], status |-> "blocked"]]]
       \/ /\ ~Blocked(p)
          /\ pc' = [pc EXCEPT ![k] =
                        IF p.intents = <<>> THEN "returned" ELSE "check"]
          /\ UNCHANGED outcomes
    /\ UNCHANGED submitted

(* The current intent gets its outcome and the loop goes on to the next    *)
(* one, or returns.                                                        *)
Settle(k, status, counted) ==
    /\ outcomes' = [outcomes EXCEPT ![k] =
           Append(@, [client_order_id |-> Current(k), status |-> status])]
    /\ submitted' = [submitted EXCEPT ![k] = IF counted THEN @ + 1 ELSE @]
    /\ pc' = [pc EXCEPT ![k] =
                  IF Len(outcomes[k]) + 1 = Len(preview[k].intents)
                  THEN "returned" ELSE "check"]
    /\ UNCHANGED preview

GoTo(k, place) ==
    /\ pc' = [pc EXCEPT ![k] = place]
    /\ UNCHANGED <<preview, outcomes, submitted>>

\* Mutant: an order that was there already is not counted.
CheckUncounted(k, exists) ==
    /\ pc[k] = "check"
    /\ IF exists THEN Settle(k, "already_existed", FALSE) ELSE GoTo(k, "submit")

\* The idempotency check: get_order_by_client_id found the order, or not.
CheckExisting(k, exists) ==
    /\ pc[k] = "check"
    /\ IF exists THEN Settle(k, "already_existed", TRUE) ELSE GoTo(k, "submit")

\* broker.submit returned an order, at the first attempt or at the retry.
Returned(k, status) ==
    /\ Attempting(k)
    /\ Settle(k, OrderStatusToOutcome(status),
              OrderStatusToOutcome(status) = "submitted")

\* Mutants: a blind retry without the query; a second timeout taken for a
\* success; no bound on the retries.
RetryBlindly(k) ==
    /\ Attempting(k)
    /\ IF pc[k] = "submit"
       THEN GoTo(k, "retry")
       ELSE Settle(k, "timeout_failed", FALSE)

AssumeSubmitted(k) ==
    /\ Attempting(k)
    /\ IF pc[k] = "submit"
       THEN GoTo(k, "query")
       ELSE Settle(k, "submitted", TRUE)

\* broker.submit raised BrokerTimeout: query once, then give up.
TimedOut(k) ==
    /\ Attempting(k)
    /\ IF pc[k] = "submit"
       THEN GoTo(k, "query")
       ELSE Settle(k, "timeout_failed", FALSE)

\* Mutants: an order that the query finds is taken for another's; the answer
\* to the query is not looked at.
QueryTakenForOthers(k, exists) ==
    /\ pc[k] = "query"
    /\ IF exists THEN Settle(k, "already_existed", TRUE) ELSE GoTo(k, "retry")

QueryIgnored(k, exists) ==
    /\ pc[k] = "query"
    /\ Settle(k, "submitted", TRUE)

\* The query after the first timeout: the order is there, or retry once.
QueryAfterTimeout(k, exists) ==
    /\ pc[k] = "query"
    /\ IF exists THEN Settle(k, "submitted", TRUE) ELSE GoTo(k, "retry")

\* A broker call raised something that is no BrokerTimeout: nothing catches
\* it, and the caller gets no SubmitResult.
Raised(k) == pc[k] \in InLoop /\ GoTo(k, "raised")
=============================================================================

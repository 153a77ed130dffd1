------------------------------ MODULE Metering ------------------------------
(***************************************************************************)
(* Paying for a generation (kinostate.economic.base_x402 and its           *)
(* x402_client): the spending policy is read, the payment verified and     *)
(* settled at the x402 facilitator, and, once a generation exists, its     *)
(* cost journaled.  A signed payment authorizes one transfer: the token    *)
(* contract behind the facilitator burns its nonce when it settles.        *)
(***************************************************************************)
EXTENDS Auth

CONSTANT Price           \* USDC of one generation
ASSUME PriceAssumption == Price \in Nat

PaymentOf(r) == thread[r].call.payment

OverBudget == ceiling # None /\ Price > ceiling

ReadPolicy(r) ==
  /\ thread[r].pc = "read_policy"
  /\ IF OverBudget \/ PaymentOf(r) = None
     THEN Answer(r, "payment_required")
     ELSE Goto(r, "verify_payment")
  /\ UNCHANGED <<store, faults, settledBy>>

\* A spent payment is not valid; an unspent one may be refused all the same
\* (funds, expiry).
VerifyPayment(r) ==
  /\ thread[r].pc = "verify_payment"
  /\ \/ settledBy[PaymentOf(r)] = None /\ Goto(r, "settle_payment")
     \/ Answer(r, "payment_required")
  /\ UNCHANGED <<store, faults, settledBy>>

Transfer(r) == settledBy' = [settledBy EXCEPT ![PaymentOf(r)] = r]

\* Mutant: settle_result.success is not looked at.
SettlePaymentUnchecked(r) ==
  /\ thread[r].pc = "settle_payment"
  /\ Goto(r, "load_entities")
  /\ IF settledBy[PaymentOf(r)] = None THEN Transfer(r) ELSE UNCHANGED settledBy
  /\ UNCHANGED <<store, faults>>

SettlePayment(r) ==
  /\ thread[r].pc = "settle_payment"
  /\ \/ /\ settledBy[PaymentOf(r)] = None
        /\ Transfer(r)
        /\ Goto(r, "load_entities")
     \/ Answer(r, "payment_required") /\ UNCHANGED settledBy
  /\ UNCHANGED <<store, faults>>

\* The transfer goes through but its answer never comes back: an exception.
SettlementLost(r) ==
  /\ thread[r].pc = "settle_payment"
  /\ faults < MaxFaults
  /\ settledBy[PaymentOf(r)] = None
  /\ Transfer(r)
  /\ Answer(r, "error")
  /\ faults' = faults + 1
  /\ UNCHANGED store

CostEvent(r) == [kind |-> "cost", ref |-> r, name |-> None, model |-> None, ok |-> TRUE]

RecordCost(r) ==
  /\ thread[r].pc = "record_cost"
  /\ WriteEvent(CostEvent(r))
  /\ Answer(r, "ok")
  /\ UNCHANGED <<palette, apiKey, entity, ceiling, faults, settledBy>>

\* Mutant: the cost is forgotten.
ConcludeFree(r) == Answer(r, "ok")

\* Once a generation is journaled and judged, its cost is, if there was one.
Conclude(r) == IF Metered THEN Goto(r, "record_cost") ELSE Answer(r, "ok")
=============================================================================

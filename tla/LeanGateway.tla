---------------------------- MODULE LeanGateway ----------------------------
(***************************************************************************)
(* The external-call gateway of Lean V2 and its budget (lean_v2/gateway.py,*)
(* budget.py).  A call asks for admission, reaches the provider outside of *)
(* any lock, and is recorded when a reply has come; an exception of the    *)
(* provider is retried once if the retry budget allows it.  The caps on    *)
(* characters have the form of the cap on calls and are left out; the wall *)
(* clock is the variable late.                                             *)
(***************************************************************************)
EXTENDS Naturals

CONSTANTS MaxCalls, MaxRetries   \* max_calls, max_provider_retries

ASSUME GatewayAssumption == MaxCalls \in Nat \ {0} /\ MaxRetries \in Nat \ {0}

VARIABLES
  calls, retries,   \* recorded calls and recorded retries
  late              \* the wall clock is past its cap
ledgerVars == <<calls, retries, late>>

LedgerInit == calls = 0 /\ retries = 0 /\ late = FALSE

\* A mutant of Admitted: a call that meets the cap is let through.
AdmittedAtCap == ~late /\ calls <= MaxCalls

\* allow_call
Admitted == ~late /\ calls < MaxCalls

RetriesAllowed == retries < MaxRetries

RecordCall(retried) ==
  /\ calls' = calls + 1
  /\ retries' = retries + IF retried THEN 1 ELSE 0
  /\ UNCHANGED late

TimePasses == ~late /\ late' = TRUE /\ UNCHANGED <<calls, retries>>
=============================================================================

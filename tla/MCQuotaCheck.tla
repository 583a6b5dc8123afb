----------------------------- MODULE MCQuotaCheck -----------------------------
(* Small instances of QuotaCheck for TLC. *)
EXTENDS QuotaCheck, TLC

CONSTANTS k1, k2

OneKey   == << k1 >>
PlanOnly == [ k \in Key |-> "token_plan" ]
ApiOnly  == [ k \in Key |-> "api" ]
AnyKey   == { Key }

\* DeepSeek and MiniMax answer both alike; MiMo may grant quota with a plan that
\* is used up, and DeepSeek deny it with money left.
Plain == { [ hasQuota |-> TRUE, low |-> FALSE ], [ hasQuota |-> FALSE, low |-> TRUE ] }

\* The history no property of the run asks for is left out of its states.
NoHistory == << key, breaker, req, quota, enabled, heap, telling, poll, probe, zeroStreak >>
=============================================================================

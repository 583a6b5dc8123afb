------------------------------- MODULE Failover -------------------------------
(***************************************************************************)
(* One request of internal/proxy on its way through the candidates its     *)
(* route offers.  A candidate is a provider with one of its billing tiers; *)
(* the request tries the candidates one after the other, each with up to   *)
(* two keys, until one answers, an error is the request's own, or the next *)
(* candidate belongs to a lower tier and nothing shows that the quota of   *)
(* this one is spent.                                                      *)
(*                                                                         *)
(* The pools, the upstreams and the client act in between: whether a key   *)
(* is to be had, what an upstream answers and when the client leaves are   *)
(* choices.  Two history variables record what the request does not:       *)
(*   sent    how often it was sent to each candidate;                      *)
(*   shown   the tiers whose quota an upstream has shown to be spent.      *)
(* Operators marked as slips are for checking the properties.              *)
(***************************************************************************)
EXTENDS Integers, Sequences, FiniteSets

\* The router offers the candidates tier by tier.
CONSTANTS
  Routes,         \* candidate sequences it may offer
  MaxRetry,       \* values of max_retry, 0 for as many as there are
  SameKeyRetries  \* rateLimitSameKeyRetries

\* relay: the body is passed through unchanged; listed: the gateway key may use
\* the model; renamed: the model sent is not the one the client asked for.
Tiers == { "token_plan", "api", "free" }
Candidate ==
  [ tier : Tiers, relay : BOOLEAN, listed : BOOLEAN, renamed : BOOLEAN ]

ASSUME FailoverConfig ==
  /\ Routes \subseteq Seq(Candidate)
  /\ \A r \in Routes : \A i, j, m \in DOMAIN r :
       i < m /\ m < j /\ r[i].tier = r[j].tier => r[m].tier = r[i].tier
  /\ MaxRetry \subseteq Nat
  /\ SameKeyRetries \in Nat \ {0}

VARIABLES route, cap, loop, try, lastErr, ctx, answer, sent, shown

vars == << route, cap, loop, try, lastErr, ctx, answer, sent, shown >>

\* What an upstream's error means to the request.  "unfit" is invalid_request or
\* model_not_found, "disconnected" a cancellation that is not the client's; "429"
\* and "403" are rate_limit with that status and with another one.
ErrorClass == { "unfit", "disconnected", "429", "403", "network", "auth", "quota" }
NonRetryable == { "unfit", "disconnected" }

\* "upstream" is the upstream's own response, status and body.
Answer == { "ok", "upstream", "403", "499", "502", "504" }
Stage  == { "next", "first", "again", "swap", "other", "ask", "after", "done" }

Places == 0 .. Len(route)

\* What is known of the current tier, and the iterator's position.
LoopType ==
  [ current : Places, tier : Tiers \cup {""}, attempts : Nat,
    sawFailure : BOOLEAN, quotaEvidence : BOOLEAN ]

\* The candidate in hand (0 before the first), where tryCandidate is, how often it
\* has sent again, the error it changes keys for, and whether the candidate's own
\* time for a first byte is over.
TryType ==
  [ at : Places, stage : Stage, sending : BOOLEAN, resends : 0 .. SameKeyRetries,
    cause : ErrorClass \cup {"none"}, late : BOOLEAN ]

TypeOK ==
  /\ route \in Routes /\ cap \in MaxRetry
  /\ loop \in LoopType
  /\ try \in TryType
  /\ lastErr \in [ class : ErrorClass \cup { "none", "refused" }, at : Places ]
  /\ ctx \in { "live", "canceled", "expired" }
  /\ answer \in Answer \cup {"none"}
  /\ sent \in [ DOMAIN route -> 0 .. SameKeyRetries + 3 ]
  /\ shown \subseteq Tiers

\* The locals of the loop when a request enters it.
Enters ==
  /\ cap \in MaxRetry
  /\ loop = [ current |-> 0, tier |-> "", attempts |-> 0,
              sawFailure |-> FALSE, quotaEvidence |-> FALSE ]
  /\ try = [ at |-> 0, stage |-> "next", sending |-> FALSE, resends |-> 0,
             cause |-> "none", late |-> FALSE ]
  /\ lastErr = [ class |-> "none", at |-> 0 ]
  /\ ctx = "live"
  /\ answer = "none"
  /\ sent = [ i \in DOMAIN route |-> 0 ]
  /\ shown = {}

Init == route \in Routes /\ Enters

Here   == route[try.at]
OnPlan == Here.tier = "token_plan"

-----------------------------------------------------------------------------
(* The end of a request, and of a candidate.                               *)

\* A relay's response stands even when its error could be retried; an error
\* without a response of its own becomes the gateway's 502.
FailureAnswers(e) ==
  CASE ctx = "canceled"         -> { "499" }
    [] ctx = "expired"          -> { "504" }
    [] e.class = "none"         -> { "502" }
    [] e.class = "disconnected" -> { "499" }
    [] e.class = "refused"      -> { "403" }
    [] e.class = "unfit"        -> { "upstream" }
    [] OTHER -> IF ~route[e.at].relay THEN { "502" }
                ELSE IF e.class = "network" THEN { "502", "upstream" } ELSE { "upstream" }

\* Slip: it is not looked whether a response has been written.
HandleAllFailedAgain(e) ==
  /\ try' = [ try EXCEPT !.stage = "done", !.sending = FALSE ]
  /\ answer' \in FailureAnswers(e)
  /\ UNCHANGED loop

HandleAllFailed(e) ==
  /\ try' = [ try EXCEPT !.stage = "done", !.sending = FALSE ]
  /\ IF answer = "none" THEN answer' \in FailureAnswers(e) ELSE UNCHANGED answer
  /\ UNCHANGED loop

\* tryCandidate returns: a request whose client has gone ends whatever came out.
Returns(outcome, quotaEv, attempted) ==
  IF ctx # "live" \/ outcome = "fatal" THEN HandleAllFailed(lastErr')
  ELSE /\ try' = [ try EXCEPT !.stage = "next", !.sending = FALSE ]
       /\ loop' = [ loop EXCEPT !.quotaEvidence = IF quotaEv THEN TRUE ELSE @,
                                !.sawFailure = IF attempted THEN TRUE ELSE @,
                                !.attempts = IF attempted THEN @ + 1 ELSE @ ]
       /\ UNCHANGED answer

Continues(quotaEv) == Returns("continue", quotaEv, TRUE)
Stops == Returns("fatal", FALSE, TRUE)

GoesTo(stage) ==
  /\ try' = [ try EXCEPT !.stage = stage, !.sending = FALSE ]
  /\ UNCHANGED << loop, answer >>

-----------------------------------------------------------------------------
(* runCandidateLoop: the next candidate.                                   *)

Capped == cap > 0 /\ loop.attempts >= cap

\* The iterator passes over candidates without a usable key, and the loop over
\* the rest of a tier in which max_retry candidates have been tried.
Offered == { i \in (loop.current + 1) .. Len(route) : Capped => route[i].tier # loop.tier }

RefusesDowngrade(i) ==
  /\ route[i].tier # loop.tier
  /\ loop.tier # "" /\ loop.sawFailure /\ ~loop.quotaEvidence

\* acceptTier begins a tier with nothing known of it.
Accepted(i) ==
  IF route[i].tier = loop.tier THEN [ loop EXCEPT !.current = i ]
  ELSE [ current |-> i, tier |-> route[i].tier, attempts |-> 0,
         sawFailure |-> FALSE, quotaEvidence |-> FALSE ]

NextCandidate(i) ==
  /\ try.stage = "next" /\ ctx = "live"
  /\ i \in Offered
  /\ IF RefusesDowngrade(i)
     THEN HandleAllFailed(lastErr)
     ELSE /\ loop' = Accepted(i)
          /\ try' = [ at |-> i, stage |-> "first", sending |-> FALSE, resends |-> 0,
                      cause |-> "none", late |-> FALSE ]
          /\ UNCHANGED answer
  /\ UNCHANGED << route, cap, lastErr, ctx, sent, shown >>

NoMoreCandidates ==
  /\ try.stage = "next" /\ ctx = "live"
  /\ HandleAllFailed(lastErr)
  /\ UNCHANGED << route, cap, lastErr, ctx, sent, shown >>

\* A model the gateway key may not use skips the candidate; no attempt is counted.
Skip ==
  /\ try.stage = "first" /\ ~try.sending /\ ctx = "live"
  /\ ~Here.relay /\ ~Here.listed
  /\ lastErr' = [ class |-> "refused", at |-> try.at ]
  /\ Returns("continue", FALSE, FALSE)
  /\ UNCHANGED << route, cap, ctx, sent, shown >>

-----------------------------------------------------------------------------
(* tryCandidate: sending, and what an error leads to.                      *)

Sends == { "first", "again", "other" }

\* sent stops counting above every number SendsBounded allows.
Most  == SameKeyRetries + 3

SendStarts ==
  /\ try.stage \in Sends /\ ~try.sending /\ ctx = "live" /\ ~try.late
  /\ try.stage = "first" => Here.relay \/ Here.listed
  /\ try' = [ try EXCEPT !.sending = TRUE ]
  /\ sent' = [ sent EXCEPT ![try.at] = IF @ = Most THEN @ ELSE @ + 1 ]
  /\ UNCHANGED << route, cap, loop, lastErr, ctx, answer, shown >>

\* A committed response is the answer, if only half a stream comes after it ...
SendSucceeds ==
  /\ try.sending
  /\ try' = [ try EXCEPT !.stage = "after", !.sending = FALSE ]
  /\ answer' = "ok"
  /\ UNCHANGED << route, cap, loop, lastErr, ctx, sent, shown >>

\* ... and ends the loop, unless the client has left meanwhile.
Finish ==
  /\ try.stage = "after" /\ ctx = "live"
  /\ GoesTo("done")
  /\ UNCHANGED << route, cap, lastErr, ctx, sent, shown >>

\* The error is the candidate's fault, not the request's.
Unfit(e) == e = "unfit" /\ (Here.renamed \/ Here.relay)

\* Slip: a relay sends again with its key as well.
FirstFailsAgain(e) ==
  \/ e \in NonRetryable /\ IF Unfit(e) THEN Continues(FALSE) ELSE Stops
  \/ e = "429" /\ GoesTo("again")
  \/ /\ e \in { "403", "network", "auth", "quota" }
     /\ try' = [ try EXCEPT !.stage = "swap", !.sending = FALSE, !.cause = e ]
     /\ UNCHANGED << loop, answer >>

FirstFails(e) ==
  \/ e \in NonRetryable /\ IF Unfit(e) THEN Continues(FALSE) ELSE Stops
  \/ e = "429" /\ ~Here.relay /\ GoesTo("again")
  \/ /\ e \in { "403", "network", "auth", "quota" } \/ (e = "429" /\ Here.relay)
     /\ try' = [ try EXCEPT !.stage = "swap", !.sending = FALSE, !.cause = e ]
     /\ UNCHANGED << loop, answer >>

\* Slip: the attempts are not counted.
AgainFailsForEver(e) ==
  \/ e = "429" /\ GoesTo("again")
  \/ e \in NonRetryable /\ Stops
  \/ /\ e \notin NonRetryable \cup {"429"}
     /\ try' = [ try EXCEPT !.stage = "swap", !.sending = FALSE, !.cause = "429" ]
     /\ UNCHANGED << loop, answer >>

\* retrySameKeyRateLimit: whatever ends the retries, it was for a 429 that the
\* key is changed.
AgainFails(e) ==
  \/ /\ e = "429" /\ try.resends + 1 < SameKeyRetries
     /\ try' = [ try EXCEPT !.sending = FALSE, !.resends = @ + 1 ]
     /\ UNCHANGED << loop, answer >>
  \/ e \in NonRetryable /\ Stops
  \/ /\ e \notin NonRetryable
     /\ e = "429" => try.resends + 1 >= SameKeyRetries
     /\ try' = [ try EXCEPT !.stage = "swap", !.sending = FALSE, !.cause = "429" ]
     /\ UNCHANGED << loop, answer >>

\* Only a plan's quota is ever asked about.
AsksQuota == IF OnPlan THEN GoesTo("ask") ELSE Continues(FALSE)

\* With the other key: after a rate limit no error is the request's own, and after
\* a quota error the evidence stands whatever the other key answers.
OtherFails(e) ==
  \/ try.cause \in { "429", "403" } /\ Continues(e = "quota" /\ OnPlan)
  \/ /\ try.cause \in { "network", "auth" }
     /\ \/ e \in NonRetryable /\ IF Unfit(e) THEN Continues(FALSE) ELSE Stops
        \/ e = "quota" /\ Continues(OnPlan)
        \/ e = "network" /\ try.cause = "network" /\ AsksQuota
        \/ /\ e \notin NonRetryable \cup {"quota"}
           /\ ~(e = "network" /\ try.cause = "network")
           /\ Continues(FALSE)
  \/ /\ try.cause = "quota"
     /\ IF e \in NonRetryable /\ ~Unfit(e) THEN Stops ELSE Continues(OnPlan)

Handles(e) ==
  /\ lastErr' = [ class |-> e, at |-> try.at ]
  /\ \/ try.stage = "first" /\ FirstFails(e)
     \/ try.stage = "again" /\ AgainFails(e)
     \/ try.stage = "other" /\ OtherFails(e)

SendFails(e) ==
  /\ try.sending
  /\ Handles(e)
  /\ shown' = IF e = "quota" /\ OnPlan THEN shown \cup { Here.tier } ELSE shown
  /\ UNCHANGED << route, cap, ctx, sent >>

\* The relay's time is over, or a reload has taken its instance away: the attempt
\* counts as a network error and nothing is sent.
NotSent ==
  /\ try.stage \in Sends /\ ~try.sending /\ ctx = "live"
  /\ try.stage = "first" => Here.relay \/ Here.listed
  /\ Handles("network")
  /\ UNCHANGED << route, cap, ctx, sent, shown >>

\* swapToOtherKey: another key of the same provider and tier, if there is one.
Swap ==
  /\ try.stage = "swap" /\ ctx = "live"
  /\ \/ ~try.late /\ GoesTo("other")
     \/ try.cause \in { "429", "403", "auth" } /\ Continues(FALSE)
     \/ try.cause = "network" /\ AsksQuota
     \/ try.cause = "quota" /\ Continues(OnPlan)
  /\ UNCHANGED << route, cap, lastErr, ctx, sent, shown >>

\* Slip: a balance that could not be read counts as spent.
AskEager(spent) ==
  /\ try.stage = "ask" /\ ctx = "live"
  /\ Continues(TRUE)
  /\ shown' = IF spent THEN shown \cup { Here.tier } ELSE shown
  /\ UNCHANGED << route, cap, lastErr, ctx, sent >>

\* CheckQuota: only a balance that was read and grants nothing is evidence.
Ask(spent) ==
  /\ try.stage = "ask" /\ ctx = "live"
  /\ Continues(spent)
  /\ shown' = IF spent THEN shown \cup { Here.tier } ELSE shown
  /\ UNCHANGED << route, cap, lastErr, ctx, sent >>

\* Every step between two sends looks at the client's context first.
ClientGone ==
  /\ ctx # "live" /\ ~try.sending /\ try.stage # "done"
  /\ HandleAllFailed(lastErr)
  /\ UNCHANGED << route, cap, lastErr, ctx, sent, shown >>

-----------------------------------------------------------------------------
(* The client, and the candidate's time for a first byte.                  *)

ContextEnds(how) ==
  /\ ctx = "live" /\ try.stage # "done"
  /\ ctx' = how
  /\ UNCHANGED << route, cap, loop, try, lastErr, answer, sent, shown >>

BudgetEnds ==
  /\ try.stage \in { "first", "swap", "other" } /\ Here.relay /\ ~try.late
  /\ sent[try.at] > 0
  /\ try' = [ try EXCEPT !.late = TRUE ]
  /\ UNCHANGED << route, cap, loop, lastErr, ctx, answer, sent, shown >>

HandlerStep ==
  \/ \E i \in DOMAIN route : NextCandidate(i)
  \/ NoMoreCandidates \/ Skip \/ SendStarts \/ SendSucceeds \/ Finish \/ NotSent \/ Swap
  \/ \E e \in ErrorClass : SendFails(e)
  \/ \E spent \in BOOLEAN : Ask(spent)
  \/ ClientGone

Next ==
  \/ HandlerStep
  \/ \E how \in { "canceled", "expired" } : ContextEnds(how)
  \/ BudgetEnds

Spec == Init /\ [][Next]_vars

-----------------------------------------------------------------------------

\* A request that has failed in a tier goes on to a lower one only when an
\* upstream has shown this tier's quota to be spent.
NoDowngrade ==
  [][ loop'.tier # loop.tier /\ loop.tier # "" =>
        \/ loop.tier \in shown
        \/ \A i \in DOMAIN route : route[i].tier = loop.tier => sent[i] = 0 ]_vars

\* The client gets one answer, and once it has it nothing more is sent for it:
\* no error is written into a committed response, nor a candidate tried after it.
AnsweredOnce ==
  [][ answer # "none" => UNCHANGED << answer, sent >> ]_vars

Tried(tier) == { i \in DOMAIN route : route[i].tier = tier /\ sent[i] > 0 }

\* One client request costs the upstreams a bounded number of requests: two for a
\* relay, whose retries are the proxy's alone, SameKeyRetries more for another
\* candidate, and max_retry candidates of a tier.
SendsBounded ==
  /\ \A i \in DOMAIN route :
       sent[i] <= IF route[i].relay THEN 2 ELSE 2 + SameKeyRetries
  /\ \A tier \in Tiers : cap > 0 => Cardinality(Tried(tier)) <= cap

\* A request is not given up at the end of a tier whose quota has been shown to be
\* spent while a candidate of a lower tier has a key.
EvidenceStands ==
  [][ \A i \in DOMAIN route :
        NextCandidate(i) /\ try'.stage = "done" => loop.tier \notin shown ]_vars
=============================================================================

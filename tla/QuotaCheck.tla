------------------------------ MODULE QuotaCheck ------------------------------
(***************************************************************************)
(* The pool of KeyPool with the two workers of internal/quotacheck and the *)
(* administrator beside its requests.  The poll asks the balance of every  *)
(* key of a vendor that has a balancer, round after round; the probe asks  *)
(* about the QUOTA_EXCEEDED keys that the pool's callback scheduled.       *)
(* Between two locks of p.mu a worker works on what it has read before:    *)
(* every such stretch is an action of its own, and so is the callback,     *)
(* which the pool calls after it has unlocked.                             *)
(*                                                                         *)
(* quota[k] is what the upstream really grants k.  The balance it answers  *)
(* may be wrong for once, or not come at all.                              *)
(***************************************************************************)
EXTENDS KeyPool

CONSTANTS
  Admin,     \* whoever uses the mark-quota-exceeded endpoint
  Balance    \* balances the vendor may answer, as pairs of HasQuota and low

ASSUME CheckConfig ==
  /\ Admin \notin Request
  /\ Balance \subseteq [ hasQuota : BOOLEAN, low : BOOLEAN ]

VARIABLES quota, enabled, heap, telling, poll, probe, zeroStreak, reads

checkVars == << quota, enabled, heap, telling, poll, probe, zeroStreak, reads >>
allVars   == << vars, checkVars >>

Teller == Request \cup {Admin}
NoBalance == [ hasQuota |-> FALSE, low |-> TRUE ]

\* The poll's order: tier by tier, and within a tier in the order of the pool.
Rank(tier) == CHOOSE i \in DOMAIN TierOrder : TierOrder[i] = tier
Earlier(j, k) ==
  Rank(Tier[j]) < Rank(Tier[k]) \/ (Tier[j] = Tier[k] /\ Before(j, k))

PollStage  == { "idle", "fetch", "record", "judge", "mark", "call", "restore", "reset" }
ProbeStage == { "idle", "fetch", "restore", "remove" }
Result     == { "restored", "still_exhausted", "auth_failed", "transport_error" }

\* heap: the keys scheduled (the index allows each once); telling: the key whose
\* callback a request or the administrator has still to run; reads (history):
\* balances of the key without quota in a row, whoever read them, and whether the
\* probe has read one with quota since the poll last began its streak anew.
ReadsType == [ zeros : 0 .. 2, probed : BOOLEAN ]

CheckTypeOK ==
  /\ quota \in [ Key -> BOOLEAN ] /\ enabled \in BOOLEAN
  /\ heap \subseteq Key
  /\ telling \in [ Teller -> Key \cup {None} ]
  /\ poll \in [ stage : PollStage, left : SUBSET Key, key : Key \cup {None},
                balance : Balance \cup {NoBalance} ]
  /\ probe \in [ stage : ProbeStage, due : SUBSET Key, key : Key \cup {None} ]
  /\ zeroStreak \in [ Key -> 0 .. 2 ] /\ reads \in [ Key -> ReadsType ]

CheckInit ==
  /\ Init
  /\ quota = [ k \in Key |-> TRUE ]
  /\ enabled = TRUE
  /\ heap = {}
  /\ telling = [ t \in Teller |-> None ]
  /\ poll = [ stage |-> "idle", left |-> {}, key |-> None, balance |-> NoBalance ]
  /\ probe = [ stage |-> "idle", due |-> {}, key |-> None ]
  /\ zeroStreak = [ k \in Key |-> 0 ] 
  /\ reads = [ k \in Key |-> [ zeros |-> 0, probed |-> FALSE ] ]

Exceeded == { k \in Key : key[k].status = "QUOTA_EXCEEDED" }

-----------------------------------------------------------------------------
(* The pool's users.                                                       *)

\* A request that has just marked its key runs the callback before it goes on.
RequestStep(r) ==
  /\ telling[r] = None
  /\ \/ /\ \/ \E tier \in Tiers, e \in Eligible : AcquireFromTier(r, tier, e)
           \/ \E k \in Key : \/ ReportSuccess(r, k)
                             \/ \E d \in RetryAfter : ReportRateLimit(r, k, d)
                             \/ \E e \in ErrorType : ReportFailure(r, k, e)
                             \/ ReportAuth(r, k)
        /\ UNCHANGED telling
     \/ \E k \in Key :
          /\ ReportQuota(r, k)
          /\ telling' = [ telling EXCEPT ![r] = IF QuotaRecovery = "poll" THEN k ELSE None ]
  /\ UNCHANGED << quota, enabled, heap, poll, probe, zeroStreak, reads >>

AdminMarks(k) ==
  /\ telling[Admin] = None
  /\ ReportQuotaExceeded(k)
  /\ telling' = [ telling EXCEPT ![Admin] = k ]
  /\ UNCHANGED << quota, enabled, heap, poll, probe, zeroStreak, reads >>

\* handleQuotaExceeded: schedule the key, or move the item it has to a later time.
Callback(t) ==
  /\ telling[t] # None
  /\ heap' = heap \cup { telling[t] }
  /\ telling' = [ telling EXCEPT ![t] = None ]
  /\ UNCHANGED << vars, quota, enabled, poll, probe, zeroStreak, reads >>

\* The upstream's quota runs out, is topped up, or its window begins anew.
QuotaChanges(k) ==
  /\ quota' = [ quota EXCEPT ![k] = ~@ ]
  /\ UNCHANGED << vars, enabled, heap, telling, poll, probe, zeroStreak, reads >>

TimePasses == Tick /\ UNCHANGED checkVars

-----------------------------------------------------------------------------
(* pollAllBalancers: one visit to every key of the vendor, in order.       *)

Read(n, hasQuota) ==
  [ n EXCEPT !.zeros = IF hasQuota THEN 0 ELSE Saturated(@ + 1, 2) ]

Goes(stage) == poll' = [ poll EXCEPT !.stage = stage ]

\* The visit is over.  A context cancelled by then ends the round, in the pause.
Leaves ==
  poll' = [ stage |-> "idle", left |-> IF enabled THEN poll.left ELSE {},
            key |-> None, balance |-> NoBalance ]

PollBegin ==
  /\ poll.stage = "idle" /\ poll.left = {}
  /\ enabled /\ QuotaRecovery = "poll"
  /\ poll' = [ poll EXCEPT !.left = Key ]
  /\ UNCHANGED << vars, quota, enabled, heap, telling, probe, zeroStreak, reads >>

\* Slip: a cool-down is lifted without another look at it.
PollVisitLifting(k) ==
  /\ poll.stage = "idle" /\ k \in poll.left
  /\ \A j \in poll.left : ~Earlier(j, k)
  /\ key' = [ key EXCEPT ![k].status = IF @ = "COOLING" THEN "ACTIVE" ELSE @ ]
  /\ poll' = [ poll EXCEPT !.stage = "fetch", !.left = @ \ {k}, !.key = k ]
  /\ UNCHANGED << breaker, req, seen >>
  /\ UNCHANGED << quota, enabled, heap, telling, probe, zeroStreak, reads >>

PollVisit(k) ==
  /\ poll.stage = "idle" /\ k \in poll.left
  /\ \A j \in poll.left : ~Earlier(j, k)
  /\ LiftCooling(k)
  /\ poll' = [ poll EXCEPT !.stage = "fetch", !.left = @ \ {k}, !.key = k ]
  /\ UNCHANGED << quota, enabled, heap, telling, probe, zeroStreak, reads >>

\* A query that fails, as every one does once the context is cancelled: on to the
\* next key without a pause.
PollFails ==
  /\ poll.stage = "fetch"
  /\ poll' = [ poll EXCEPT !.stage = "idle", !.key = None ]
  /\ UNCHANGED << vars, quota, enabled, heap, telling, probe, zeroStreak, reads >>

PollAnswered(balance) ==
  /\ poll.stage = "fetch" /\ enabled
  /\ poll' = [ poll EXCEPT !.stage = "record", !.balance = balance ]
  /\ reads' = [ reads EXCEPT ![poll.key] = Read(@, balance.hasQuota) ]
  /\ UNCHANGED << vars, quota, enabled, heap, telling, probe, zeroStreak >>

\* QuotaKind and LastPolledAt are written whatever the balance is.
PollRecord ==
  /\ poll.stage = "record"
  /\ WriteBalance(poll.key, key[poll.key].low)
  /\ Goes("judge")
  /\ UNCHANGED << quota, enabled, heap, telling, probe, zeroStreak, reads >>

\* No quota: only an ACTIVE key counts it, and two in a row are believed.
PollJudgeNone ==
  /\ poll.stage = "judge" /\ ~poll.balance.hasQuota
  /\ IF key[poll.key].status # "ACTIVE"
     THEN UNCHANGED << vars, zeroStreak >> /\ Leaves
     ELSE /\ zeroStreak' = [ zeroStreak EXCEPT ![poll.key] = Saturated(@ + 1, 2) ]
          /\ IF zeroStreak'[poll.key] >= 2
             THEN WriteBalance(poll.key, poll.balance.low) /\ Goes("mark")
             ELSE UNCHANGED vars /\ Leaves
  /\ UNCHANGED << quota, enabled, heap, telling, probe, reads >>

PollMark ==
  /\ poll.stage = "mark"
  /\ ReportQuotaExceeded(poll.key)
  /\ Goes("call")
  /\ UNCHANGED << quota, enabled, heap, telling, probe, zeroStreak, reads >>

PollCall ==
  /\ poll.stage = "call"
  /\ heap' = heap \cup { poll.key }
  /\ Leaves
  /\ UNCHANGED << vars, quota, enabled, telling, probe, zeroStreak, reads >>

BeginsAnew == reads' = [ reads EXCEPT ![poll.key].probed = FALSE ]

\* Slips: the streak is not reset; a key is not restored; the balance is written
\* for a key to be restored only.
PollJudgeQuotaStreak ==
  /\ poll.stage = "judge" /\ poll.balance.hasQuota
  /\ BeginsAnew
  /\ WriteBalance(poll.key, poll.balance.low)
  /\ IF poll.key \in Exceeded THEN Goes("restore") ELSE Leaves
  /\ UNCHANGED << quota, enabled, heap, telling, probe, zeroStreak >>

PollJudgeQuotaOnly ==
  /\ poll.stage = "judge" /\ poll.balance.hasQuota
  /\ BeginsAnew
  /\ zeroStreak' = [ zeroStreak EXCEPT ![poll.key] = 0 ]
  /\ WriteBalance(poll.key, poll.balance.low)
  /\ Leaves
  /\ UNCHANGED << quota, enabled, heap, telling, probe >>

PollJudgeQuotaLate ==
  /\ poll.stage = "judge" /\ poll.balance.hasQuota
  /\ BeginsAnew
  /\ zeroStreak' = [ zeroStreak EXCEPT ![poll.key] = 0 ]
  /\ IF poll.key \in Exceeded
     THEN WriteBalance(poll.key, poll.balance.low) /\ Goes("restore")
     ELSE UNCHANGED vars /\ Leaves
  /\ UNCHANGED << quota, enabled, heap, telling, probe >>

PollJudgeQuota ==
  /\ poll.stage = "judge" /\ poll.balance.hasQuota
  /\ BeginsAnew
  /\ zeroStreak' = [ zeroStreak EXCEPT ![poll.key] = 0 ]
  /\ WriteBalance(poll.key, poll.balance.low)
  /\ IF poll.key \in Exceeded THEN Goes("restore") ELSE Leaves
  /\ UNCHANGED << quota, enabled, heap, telling, probe >>

PollRestore ==
  /\ poll.stage = "restore"
  /\ RestoreQuota(poll.key)
  /\ Goes("reset")
  /\ UNCHANGED << quota, enabled, heap, telling, probe, zeroStreak, reads >>

PollReset ==
  /\ poll.stage = "reset"
  /\ ResetCooling(poll.key)
  /\ Leaves
  /\ UNCHANGED << quota, enabled, heap, telling, probe, zeroStreak, reads >>

-----------------------------------------------------------------------------
(* drainDueProbes: the items that are due, one after the other.            *)

\* popDueItems.  When an item is due is left open.
ProbeDue ==
  /\ probe.stage = "idle" /\ probe.due = {} /\ enabled
  /\ \E due \in SUBSET heap \ {{}} :
       /\ probe' = [ probe EXCEPT !.due = due ]
       /\ heap' = heap \ due
  /\ UNCHANGED << vars, quota, enabled, telling, poll, zeroStreak, reads >>

\* An item of a key that is not QUOTA_EXCEEDED any more is dropped.
ProbeKey(k) ==
  /\ probe.stage = "idle" /\ k \in probe.due
  /\ probe' = IF k \in Exceeded
              THEN [ stage |-> "fetch", due |-> probe.due \ {k}, key |-> k ]
              ELSE [ probe EXCEPT !.due = @ \ {k} ]
  /\ UNCHANGED << vars, quota, enabled, heap, telling, poll, zeroStreak, reads >>

NextItem == probe' = [ probe EXCEPT !.stage = "idle", !.key = None ]

\* handleProbeResult: the key is scheduled again unless it is restored.
ProbeAnswered(result) ==
  /\ probe.stage = "fetch"
  /\ enabled \/ result = "transport_error"
  /\ IF result = "restored"
     THEN probe' = [ probe EXCEPT !.stage = "restore" ] /\ UNCHANGED heap
     ELSE heap' = heap \cup { probe.key } /\ NextItem
  /\ reads' = [ reads EXCEPT ![probe.key] =
                  CASE result = "restored" -> [ Read(@, TRUE) EXCEPT !.probed = TRUE ]
                    [] result = "still_exhausted" -> Read(@, FALSE)
                    [] OTHER -> @ ]
  /\ UNCHANGED << vars, quota, enabled, telling, poll, zeroStreak >>

ProbeRestore ==
  /\ probe.stage = "restore"
  /\ RestoreQuota(probe.key)
  /\ probe' = [ probe EXCEPT !.stage = "remove" ]
  /\ UNCHANGED << quota, enabled, heap, telling, poll, zeroStreak, reads >>

ProbeRemove ==
  /\ probe.stage = "remove"
  /\ heap' = heap \ { probe.key }
  /\ NextItem
  /\ UNCHANGED << vars, quota, enabled, telling, poll, zeroStreak, reads >>

-----------------------------------------------------------------------------
(* Reload: quota_enabled is switched off and on.  Stop cancels the workers' *)
(* context, which fails the query in progress; they have wound up by the    *)
(* time Start scans the pool for keys to schedule and runs new ones.        *)

Stop ==
  /\ enabled
  /\ enabled' = FALSE
  /\ UNCHANGED << vars, quota, heap, telling, poll, probe, zeroStreak, reads >>

Start ==
  /\ ~enabled
  /\ poll.stage = "idle" /\ poll.left = {} /\ probe.stage = "idle" /\ probe.due = {}
  /\ enabled' = TRUE
  /\ heap' = heap \cup Exceeded
  /\ UNCHANGED << vars, quota, telling, poll, probe, zeroStreak, reads >>

-----------------------------------------------------------------------------

PollStep ==
  \/ PollBegin \/ PollFails \/ PollRecord \/ PollJudgeNone \/ PollMark
  \/ PollCall \/ PollJudgeQuota \/ PollRestore \/ PollReset
  \/ \E k \in Key : PollVisit(k)
  \/ \E b \in Balance : PollAnswered(b)

ProbeStep ==
  \/ ProbeDue \/ ProbeRestore \/ ProbeRemove
  \/ \E k \in Key : ProbeKey(k)
  \/ \E result \in Result : ProbeAnswered(result)

CheckNext ==
  \/ \E r \in Request : RequestStep(r)
  \/ \E k \in Key : AdminMarks(k) \/ QuotaChanges(k)
  \/ \E t \in Teller : Callback(t)
  \/ PollStep
  \/ ProbeStep
  \/ Stop \/ Start
  \/ TimePasses

CheckSpec == CheckInit /\ [][CheckNext]_allVars

\* The workers run, time passes, and of infinitely many queries about a key infinitely many
\* are answered, with what the upstream grants.
TruePoll(k) ==
  k = poll.key /\ \E b \in Balance : b.hasQuota = quota[k] /\ PollAnswered(b)
TrueProbe(k) ==
  k = probe.key /\ ProbeAnswered(IF quota[k] THEN "restored" ELSE "still_exhausted")

CheckFairness ==
  /\ WF_allVars(PollStep) /\ WF_allVars(ProbeStep) /\ WF_allVars(TimePasses)
  /\ \A t \in Teller : WF_allVars(Callback(t))
  /\ \A k \in Key : SF_allVars(TruePoll(k)) /\ SF_allVars(TrueProbe(k))

CheckFairSpec == CheckSpec /\ CheckFairness

-----------------------------------------------------------------------------

\* The poll takes a key out only when two balances in a row were without quota, the
\* probe's own reads among them, unless the probe has read one with quota that the
\* poll's streak does not know of.
TwoReads ==
  [][ PollMark => reads[poll.key].zeros = 2 \/ reads[poll.key].probed ]_allVars

\* The same without the exception: after a restore, too, a single balance without
\* quota takes no key out (keypool/key.go:46).
SingleZeroSpares ==
  [][ PollMark => reads[poll.key].zeros = 2 ]_allVars

\* Once quota_enabled is left on, a key whose quota has come back, and stays,
\* comes back itself.
QuotaReturns ==
  <>[]enabled => \A k \in Key : k \in Exceeded ~> k \notin Exceeded \/ ~quota[k]

\* Nor does a key rest for ever when no request asks for it, although requests
\* that still hold it may renew its rest with every resend.
CooledKeyReturns ==
  <>[]enabled =>
    \A k \in Key : key[k].status = "COOLING" ~> key[k].status # "COOLING"

\* Nor does a key with quota stay out of the buckets for a balance read before.
BalanceReturns ==
  <>[]enabled =>
    \A k \in Key :
      IsPolledAndExhausted(key[k]) ~> ~IsPolledAndExhausted(key[k]) \/ ~quota[k]

\* A key that is cooling becomes ACTIVE only when its cool-down has run out.
CoolingStands ==
  [][ \A k \in Key :
        key[k].status = "COOLING" /\ key[k].cooling > 0 => key'[k].status # "ACTIVE" ]_allVars
=============================================================================

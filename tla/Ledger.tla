------------------------------- MODULE Ledger -------------------------------
(***************************************************************************)
(* What an asynchronous writer of records promises its callers: it takes a *)
(* record without making them wait, refuses one only while it holds        *)
(* Capacity of them or is closed, stores what it took in the order it took *)
(* it, and gives up a record only after the database has refused it Tries  *)
(* times.  usage.Collector and accesslog.Buffer both implement it.         *)
(***************************************************************************)
EXTENDS Naturals, Sequences

CONSTANTS Entries, Capacity, Tries

VARIABLES queue,    \* taken and neither stored nor given up, oldest first
          stored,   \* what the database has
          lost,     \* refused or given up
          refused,  \* refusals of the database since the last batch was settled
          closed    \* whether the writer has been told to stop

ledger == <<queue, stored, lost, refused, closed>>

LedgerInit == /\ queue = <<>>
              /\ stored = {}
              /\ lost = {}
              /\ refused = 0
              /\ closed = FALSE

Held == {queue[i] : i \in DOMAIN queue}

Fresh(e) == e \notin Held \cup stored \cup lost

Take(e) == /\ Fresh(e)
           /\ queue' = Append(queue, e)
           /\ UNCHANGED <<stored, lost, refused, closed>>

Refuse(e) == /\ Fresh(e)
             /\ Len(queue) >= Capacity \/ closed
             /\ lost' = lost \cup {e}
             /\ UNCHANGED <<queue, stored, refused, closed>>

\* The oldest k entries; the writer may forget past refusals when it stores.
Oldest(k) == {queue[i] : i \in 1..k}
Younger(k) == SubSeq(queue, k + 1, Len(queue))

Store(k) == /\ stored' = stored \cup Oldest(k)
            /\ queue' = Younger(k)
            /\ refused' \in {0, refused}
            /\ UNCHANGED <<lost, closed>>

\* The database refuses, or has stored the oldest k and its answer is lost.
Fail == /\ refused' = refused + 1
        /\ \E k \in 0..Len(queue) : stored' = stored \cup Oldest(k)
        /\ UNCHANGED <<queue, lost, closed>>

GiveUp(k) == /\ refused >= Tries
             /\ lost' = lost \cup (Oldest(k) \ stored)
             /\ queue' = Younger(k)
             /\ refused' = 0
             /\ UNCHANGED <<stored, closed>>

LedgerClose == closed' = TRUE /\ UNCHANGED <<queue, stored, lost, refused>>

LedgerNext == \/ \E e \in Entries : Take(e) \/ Refuse(e)
              \/ \E k \in 0..Len(queue) : Store(k) \/ GiveUp(k)
              \/ Fail
              \/ LedgerClose

LedgerSpec == LedgerInit /\ [][LedgerNext]_ledger
=============================================================================

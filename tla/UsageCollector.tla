--------------------------- MODULE UsageCollector ---------------------------
(***************************************************************************)
(* usage.Collector: a bounded channel, one worker that gathers a batch and *)
(* writes it with a single INSERT, three attempts for each batch.  Tokens, *)
(* cost and latency of a record are left out; a record is its identity.    *)
(***************************************************************************)
EXTENDS Traced

CONSTANTS UsageCap, UsageBatch

Attempts == 3

ASSUME UsageAssumption == /\ UsageCap \in Nat \ {0}
                          /\ UsageBatch \in Nat \ {0}

VARIABLES uChan,     \* the channel
          uBatch,    \* the worker's batch
          uRows,     \* usage_records: the rows of each record (0, 1, or 2 for more)
          uUnsure,   \* records of a batch whose INSERT was done but not acknowledged
          uLost,     \* records dropped by Record or with a batch
          uTry,      \* attempts of the current flush that have failed
          uPhase,    \* where the worker is
          uStop,     \* stopCh is closed
          signalled  \* the context given to Start is done

usage == <<uChan, uBatch, uRows, uUnsure, uLost, uTry, uPhase, uStop, signalled>>

UsageInit == /\ uChan = <<>> /\ uBatch = <<>>
             /\ uRows = [e \in Entries |-> 0]
             /\ uUnsure = {} /\ uLost = {}
             /\ uTry = 0
             /\ uPhase = "select"
             /\ uStop = FALSE /\ signalled = FALSE

UsageSeen == Elements(uChan) \cup Elements(uBatch) \cup uLost
               \cup {e \in Entries : uRows[e] > 0}

\* Never blocks: a record that finds the channel full is dropped.
RecordUsage(e) ==
    /\ e \notin UsageSeen
    /\ IF Len(uChan) < UsageCap
       THEN uChan' = Append(uChan, e) /\ UNCHANGED uLost
       ELSE uLost' = uLost \cup {e} /\ UNCHANGED uChan
    /\ UNCHANGED <<uBatch, uRows, uUnsure, uTry, uPhase, uStop, signalled>>

\* The case of the worker's select that takes a record.
Collect == /\ uPhase = "select"
           /\ uChan # <<>>
           /\ uBatch' = Append(uBatch, Head(uChan))
           /\ uChan' = Tail(uChan)
           /\ uPhase' = IF Len(uBatch) + 1 >= UsageBatch THEN "flush" ELSE "select"
           /\ UNCHANGED <<uRows, uUnsure, uLost, uTry, uStop, signalled>>

\* The case of the ticker.
FlushTick == /\ uPhase = "select"
             /\ uBatch # <<>>
             /\ uPhase' = "flush"
             /\ UNCHANGED <<uChan, uBatch, uRows, uUnsure, uLost, uTry, uStop, signalled>>

\* The cases of ctx.Done() and stopCh: what is in the batch is flushed, what is
\* in the channel stays there.
WorkerLeaves == /\ uPhase = "select"
                /\ signalled \/ uStop
                /\ uPhase' = IF uBatch = <<>> THEN "ended" ELSE "last"
                /\ UNCHANGED <<uChan, uBatch, uRows, uUnsure, uLost, uTry, uStop, signalled>>

Flushing == uPhase \in {"flush", "last"} /\ uTry < Attempts

AfterFlush == /\ uBatch' = <<>>
              /\ uTry' = 0
              /\ uPhase' = IF uPhase = "last" THEN "ended" ELSE "select"

Inserted == [e \in Entries |-> IF e \in Elements(uBatch) THEN OneMore(uRows[e]) ELSE uRows[e]]

\* Slip: the batch is kept after it was written.
UsageInsertedKept == /\ Flushing
                     /\ uRows' = Inserted
                     /\ uPhase' = IF uPhase = "last" THEN "ended" ELSE "select"
                     /\ uTry' = 0
                     /\ UNCHANGED <<uChan, uBatch, uUnsure, uLost, uStop, signalled>>

UsageInserted == /\ Flushing
                 /\ uRows' = Inserted
                 /\ AfterFlush
                 /\ UNCHANGED <<uChan, uUnsure, uLost, uStop, signalled>>

\* One INSERT stores all of the batch or nothing of it; the answer may be lost.
UsageInsertFails ==
    /\ Flushing
    /\ uTry' = uTry + 1
    /\ \/ UNCHANGED <<uRows, uUnsure>>
       \/ uRows' = Inserted /\ uUnsure' = uUnsure \cup Elements(uBatch)
    /\ UNCHANGED <<uChan, uBatch, uLost, uPhase, uStop, signalled>>

\* Slip: the batch is given up after the first refusal.
UsageGivesUpEarly == /\ uPhase \in {"flush", "last"}
                     /\ uTry > 0
                     /\ uLost' = uLost \cup {e \in Elements(uBatch) : uRows[e] = 0}
                     /\ AfterFlush
                     /\ UNCHANGED <<uChan, uRows, uUnsure, uStop, signalled>>

\* Slip: a batch that was refused three times is tried again.
UsageNeverGivesUp == /\ uPhase \in {"flush", "last"}
                     /\ uTry = Attempts
                     /\ uTry' = 0
                     /\ UNCHANGED <<uChan, uBatch, uRows, uUnsure, uLost, uPhase, uStop, signalled>>

UsageGivesUp == /\ uPhase \in {"flush", "last"}
                /\ uTry = Attempts
                /\ uLost' = uLost \cup {e \in Elements(uBatch) : uRows[e] = 0}
                /\ AfterFlush
                /\ UNCHANGED <<uChan, uRows, uUnsure, uStop, signalled>>

StopUsage == /\ uStop' = TRUE
             /\ UNCHANGED <<uChan, uBatch, uRows, uUnsure, uLost, uTry, uPhase, signalled>>

SignalUsage == /\ signalled' = TRUE
               /\ UNCHANGED <<uChan, uBatch, uRows, uUnsure, uLost, uTry, uPhase, uStop>>

UsageWorker == Collect \/ FlushTick \/ WorkerLeaves \/ UsageInserted \/ UsageInsertFails \/ UsageGivesUp

UsageNext == UsageWorker \/ StopUsage \/ SignalUsage \/ \E e \in Entries : RecordUsage(e)

UsageSpec == UsageInit /\ [][UsageNext]_usage

UsageTypeOK == /\ uChan \in Seq(Entries) /\ uBatch \in Seq(Entries)
               /\ uRows \in [Entries -> 0..2]
               /\ uUnsure \subseteq Entries /\ uLost \subseteq Entries
               /\ uTry \in 0..Attempts
               /\ uPhase \in {"select", "flush", "last", "ended"}
               /\ uStop \in BOOLEAN /\ signalled \in BOOLEAN

(* Usage is billed: whatever fails and however often the worker tries, a     *)
(* record is stored twice only if the answer to one of its INSERTs was lost, *)
(* and a record given up has no row.                                         *)
BilledOnce == \A e \in Entries : /\ uRows[e] > 1 => e \in uUnsure
                                 /\ e \in uLost => uRows[e] = 0

(* The collector implements the ledger: order kept, nothing given up before  *)
(* three refusals, nothing refused unless Capacity records are held.         *)
UsageLedger == INSTANCE Ledger WITH
    Capacity <- UsageCap, Tries <- 3,
    queue <- uBatch \o uChan, stored <- {e \in Entries : uRows[e] > 0},
    lost <- uLost, refused <- uTry, closed <- uStop

UsageKeepsLedger == UsageLedger!LedgerSpec
=============================================================================

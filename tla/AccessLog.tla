------------------------------ MODULE AccessLog ------------------------------
(***************************************************************************)
(* accesslog: Buffer (bounded channel, worker that inserts row by row),    *)
(* body files, and Retention, which removes old rows with their files one  *)
(* page at a time.  An entry is its identity; the columns are left out.    *)
(***************************************************************************)
EXTENDS Traced, FiniteSets

CONSTANTS LogCap, LogBatch, PageSize

LogAttempts == 3

ASSUME LogAssumption == /\ LogCap \in Nat \ {0}
                        /\ LogBatch \in Nat \ {0}
                        /\ PageSize \in Nat \ {0}

VARIABLES aChan,     \* the channel
          aBatch,    \* what the flush, or the gathering, has left of the batch
          aRows,     \* access_logs: the rows each entry was given (2: two or more)
          aUnsure,   \* entries with an INSERT that was done but not acknowledged
          aLost,     \* entries dropped by Push or with a batch
          aTry,      \* failed attempts of the current flush
          aPhase,    \* where the worker is
          aStop,     \* stopCh is closed
          pushing,   \* entries whose Push has seen stopCh open and not yet sent
          files,     \* the body files on disk
          stuck,     \* (history) entries whose file the retention could not remove
          gone,      \* entries whose rows were deleted
          old,       \* entries whose rows are beyond the retention
          retPage,   \* the rows of the page that is being removed
          retPhase   \* where the retention goroutine is

log == <<aChan, aBatch, aRows, aUnsure, aLost, aTry, aPhase, aStop>>
retention == <<files, stuck, gone, old, retPage, retPhase>>
access == <<log, pushing, retention>>

LogInit == /\ aChan = <<>> /\ aBatch = <<>>
           /\ aRows = [e \in Entries |-> 0]
           /\ aUnsure = {} /\ aLost = {} /\ pushing = {}
           /\ aTry = 0
           /\ aPhase = "select"
           /\ aStop = FALSE
           /\ files = {} /\ stuck = {} /\ gone = {} /\ old = {} /\ retPage = {}
           /\ retPhase = "idle"

\* An entry whose body cannot be written names no file: it is left out.
WriteBody(e) == /\ files' = files \cup {e}
                /\ UNCHANGED <<log, pushing, stuck, gone, old, retPage, retPhase>>

\* Push looks at stopCh, then sends; the worker may leave in between.
PushChecks(e) ==
    /\ e \notin pushing
    /\ IF aStop
       THEN aLost' = aLost \cup {e} /\ UNCHANGED pushing
       ELSE pushing' = pushing \cup {e} /\ UNCHANGED aLost
    /\ UNCHANGED <<aChan, aBatch, aRows, aUnsure, aTry, aPhase, aStop, retention>>

PushSends(e) ==
    /\ e \in pushing
    /\ pushing' = pushing \ {e}
    /\ IF Len(aChan) < LogCap
       THEN aChan' = Append(aChan, e) /\ UNCHANGED aLost
       ELSE aLost' = aLost \cup {e} /\ UNCHANGED aChan
    /\ UNCHANGED <<aBatch, aRows, aUnsure, aTry, aPhase, aStop, retention>>

Gather(full, otherwise) ==
    /\ aChan # <<>>
    /\ aBatch' = Append(aBatch, Head(aChan))
    /\ aChan' = Tail(aChan)
    /\ aPhase' = IF Len(aBatch) + 1 >= LogBatch THEN full ELSE otherwise
    /\ UNCHANGED <<aRows, aUnsure, aLost, aTry, aStop, pushing, retention>>

MovesTo(p) == /\ aPhase' = p
              /\ UNCHANGED <<aChan, aBatch, aRows, aUnsure, aLost, aTry, aStop, pushing, retention>>

LogTakes == aPhase = "select" /\ Gather("flush", "select")
LogTick == aPhase = "select" /\ aBatch # <<>> /\ MovesTo("flush")

\* Slip: the worker ends on the signal without draining the channel.
SeesStopUndrained == aPhase = "select" /\ aStop /\ MovesTo("last")
SeesStop == aPhase = "select" /\ aStop /\ MovesTo("drain")

DrainTakes == aPhase = "drain" /\ Gather("drainFlush", "drain")
DrainEnds == aPhase = "drain" /\ aChan = <<>> /\ MovesTo("last")

LogFlushing == aPhase \in {"flush", "drainFlush", "last"}

Resume == CASE aPhase = "flush" -> "select"
            [] aPhase = "drainFlush" -> "drain"
            [] aPhase = "last" -> "ended"

\* Slip: after a failed attempt the offset is not moved on.
InsertsOneAgain ==
    /\ LogFlushing
    /\ aBatch # <<>>
    /\ aTry < LogAttempts
    /\ aRows' = [aRows EXCEPT ![Head(aBatch)] = OneMore(@)]
    /\ aBatch' = IF aTry > 0 THEN aBatch ELSE Tail(aBatch)
    /\ UNCHANGED <<aChan, aUnsure, aLost, aTry, aPhase, aStop, pushing, retention>>

\* One INSERT each; the next attempt goes on after the last that succeeded.
InsertsOne ==
    /\ LogFlushing
    /\ aBatch # <<>>
    /\ aTry < LogAttempts
    /\ aRows' = [aRows EXCEPT ![Head(aBatch)] = OneMore(@)]
    /\ aBatch' = Tail(aBatch)
    /\ UNCHANGED <<aChan, aUnsure, aLost, aTry, aPhase, aStop, pushing, retention>>

InsertFails ==
    /\ LogFlushing
    /\ aBatch # <<>>
    /\ aTry < LogAttempts
    /\ aTry' = aTry + 1
    /\ \/ UNCHANGED <<aRows, aUnsure>>
       \/ /\ aRows' = [aRows EXCEPT ![Head(aBatch)] = OneMore(@)]
          /\ aUnsure' = aUnsure \cup {Head(aBatch)}
    /\ UNCHANGED <<aChan, aBatch, aLost, aPhase, aStop, pushing, retention>>

\* Slip: the batch is given up as soon as one attempt has failed.
FlushEndsEarly ==
    /\ LogFlushing
    /\ aBatch = <<>> \/ aTry > 0
    /\ aLost' = aLost \cup {e \in Elements(aBatch) : aRows[e] = 0}
    /\ aBatch' = <<>>
    /\ aTry' = 0
    /\ aPhase' = Resume
    /\ UNCHANGED <<aChan, aRows, aUnsure, aStop, pushing, retention>>

\* The batch is done, or given up after three failed attempts.
FlushEnds ==
    /\ LogFlushing
    /\ aBatch = <<>> \/ aTry = LogAttempts
    /\ aLost' = aLost \cup {e \in Elements(aBatch) : aRows[e] = 0}
    /\ aBatch' = <<>>
    /\ aTry' = 0
    /\ aPhase' = Resume
    /\ UNCHANGED <<aChan, aRows, aUnsure, aStop, pushing, retention>>

CloseLog == /\ aStop' = TRUE
            /\ UNCHANGED <<aChan, aBatch, aRows, aUnsure, aLost, aTry, aPhase, pushing, retention>>

LogWorker == \/ LogTakes \/ LogTick \/ SeesStop \/ DrainTakes \/ DrainEnds
             \/ InsertsOne \/ InsertFails \/ FlushEnds

----------------------------------------------------------------------------
Present == {e \in Entries : aRows[e] > 0} \ gone

\* Rows outlive a request by far before they are old; the oldest age first.
Ages(e) == /\ e \in Present \ old
           /\ old' = old \cup {e}
           /\ UNCHANGED <<log, pushing, files, stuck, gone, retPage, retPhase>>

\* List caps the page that the retention asks for (1000) at 200.  Without old rows
\* DeleteOlderThan is called, which then has nothing to delete.
RetentionLists ==
    /\ retPhase = "idle"
    /\ old \cap Present # {}
    /\ \E page \in SUBSET (old \cap Present) :
          /\ Cardinality(page) = IF Cardinality(old \cap Present) < PageSize
                                 THEN Cardinality(old \cap Present) ELSE PageSize
          /\ retPage' = page
    /\ retPhase' = "files"
    /\ UNCHANGED <<log, pushing, files, stuck, gone, old>>

\* A file that cannot be removed, or whose path looks suspicious, is left behind;
\* the round goes on and deletes the row all the same.
RetentionRemovesFiles ==
    /\ retPhase = "files"
    /\ \E kept \in SUBSET (retPage \cap files) :
          /\ files' = files \ (retPage \ kept)
          /\ stuck' = (stuck \ retPage) \cup kept
    /\ retPhase' = "rows"
    /\ UNCHANGED <<log, pushing, gone, old, retPage>>

\* Slip: every old row is deleted, not only those of the page.
RetentionDeletesAll ==
    /\ retPhase = "rows"
    /\ gone' = gone \cup (old \cap Present)
    /\ retPage' = {}
    /\ retPhase' = "idle"
    /\ UNCHANGED <<log, pushing, files, stuck, old>>

\* A DELETE that fails leaves the rows to a later round.
RetentionDeletes ==
    /\ retPhase = "rows"
    /\ gone' \in {gone, gone \cup retPage}
    /\ retPage' = {}
    /\ retPhase' = "idle"
    /\ UNCHANGED <<log, pushing, files, stuck, old>>

RetentionRound == RetentionLists \/ RetentionRemovesFiles \/ RetentionDeletes

LogTypeOK == /\ aChan \in Seq(Entries) /\ aBatch \in Seq(Entries)
             /\ aRows \in [Entries -> 0..2]
             /\ aTry \in 0..LogAttempts
             /\ aPhase \in {"select", "flush", "drain", "drainFlush", "last", "ended"}
             /\ retPhase \in {"idle", "files", "rows"}
             /\ UNION {aUnsure, aLost, pushing, files, stuck, gone, old, retPage} \subseteq Entries

(* A row of the log appears twice only if the answer to its INSERT was lost: *)
(* an attempt goes on where the last one stopped.                            *)
LoggedOnce == \A e \in Entries : aRows[e] > 1 => e \in aUnsure

(* Removal by pages beside running requests leaves no file behind a deleted  *)
(* row but one that could not be removed, and takes no file from a row that  *)
(* is still within its retention.                                            *)
FilesFollowRows == /\ gone \cap files \subseteq stuck
                   /\ (Present \ old) \subseteq files

LogLedger == INSTANCE Ledger WITH
    Capacity <- LogCap, Tries <- 3,
    queue <- aBatch \o aChan, stored <- {e \in Entries : aRows[e] > 0},
    lost <- aLost, refused <- aTry, closed <- aStop

(* The buffer implements the ledger too. *)
LogKeepsLedger == LogLedger!LedgerSpec
=============================================================================

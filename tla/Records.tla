------------------------------- MODULE Records -------------------------------
(***************************************************************************)
(* The end of a request and the end of the process: every request leaves a *)
(* usage record and an access-log entry with two asynchronous writers, and *)
(* Server.Run drains HTTP, then stops the writers, in that order.          *)
(***************************************************************************)
EXTENDS UsageCollector, AccessLog

VARIABLES req,       \* requests: where each one is
          server,    \* Server.Run: serving, draining, usage, access, exited
          timedOut,  \* the drain ended before the requests did
          failing    \* what may fail, never two in a behaviour: a table's INSERTs,
                     \* or what the retention removes, files as well as rows

records == <<usage, access, req, server, timedOut, failing>>

RecordsInit == /\ UsageInit /\ LogInit
               /\ req = [e \in Entries |-> "idle"]
               /\ server = "serving"
               /\ timedOut = FALSE
               /\ failing \in {"usage", "log", "retention"}

Rest == UNCHANGED <<server, timedOut, failing>>
Moves(e, from, to) == req[e] = from /\ req' = [req EXCEPT ![e] = to]

May(failed, table) == failed => failing = table

\* handle: the body is stored as soon as it was read.
Open(e) == /\ server = "serving"
           /\ Moves(e, "idle", "open")
           /\ WriteBody(e)
           /\ UNCHANGED usage /\ Rest

\* The answer is out: usage is recorded, then the deferred entry of the log.
Account(e) == /\ Moves(e, "open", IF aStop THEN "done" ELSE "logging")
              /\ RecordUsage(e)
              /\ PushChecks(e)
              /\ Rest

Logged(e) == /\ Moves(e, "logging", "done")
             /\ PushSends(e)
             /\ UNCHANGED usage /\ Rest

Pending == {e \in Entries : req[e] \notin {"idle", "done"}}

Keeps == UNCHANGED <<req, timedOut, failing>>

\* The signal ends the context that the usage worker was started with.
Signal == /\ server = "serving"
          /\ server' = "draining"
          /\ SignalUsage
          /\ UNCHANGED access /\ Keeps

\* ListenAndServe failed: the writers are stopped at once, without a drain.
ListenFails == /\ server = "serving"
               /\ server' = "usage"
               /\ timedOut' = (Pending # {})
               /\ StopUsage
               /\ UNCHANGED <<access, req, failing>>

\* http.Shutdown returns when no request is left, or at its timeout.
Drained == /\ server = "draining"
           /\ server' = "usage"
           /\ timedOut' = (Pending # {})
           /\ StopUsage
           /\ UNCHANGED <<access, req, failing>>

UsageStopped == /\ server = "usage"
                /\ uPhase = "ended"
                /\ server' = "access"
                /\ CloseLog
                /\ UNCHANGED usage /\ Keeps

\* Recorder.Close waits for the worker and for the retention goroutine.
LogStopped == /\ server = "access"
              /\ aPhase = "ended"
              /\ retPhase = "idle"
              /\ server' = "exited"
              /\ UNCHANGED <<usage, access>> /\ Keeps

Work == /\ UsageWorker /\ UNCHANGED access
        /\ May(uTry' > uTry, "usage")
        /\ UNCHANGED <<req, server, timedOut, failing>>

LogWork == /\ LogWorker /\ UNCHANGED usage
           /\ May(aTry' > aTry, "log")
           /\ UNCHANGED <<req, server, timedOut, failing>>

\* The context of the retention goroutine ends with the signal or with Close;
\* it finishes its round.
Retain == /\ retPhase = "idle" => ~signalled /\ server # "access"
          /\ RetentionRound
          /\ May(stuck' # {} \/ (retPhase = "rows" /\ gone' = gone), "retention")
          /\ UNCHANGED <<usage, req, server, timedOut, failing>>

\* The retention is days: by then the usage of an old entry is long settled.
Age(e) == /\ server = "serving" /\ e \notin Elements(uChan) \cup Elements(uBatch)
          /\ Ages(e) /\ UNCHANGED usage /\ Keeps /\ UNCHANGED server

Ended == server = "exited" /\ UNCHANGED records

RecordsNext == \/ server # "exited" /\ \/ Work \/ LogWork \/ Retain
                                       \/ \E e \in Entries : \/ Open(e) \/ Account(e) \/ Logged(e) \/ Age(e)
               \/ Signal \/ ListenFails \/ Drained \/ UsageStopped \/ LogStopped
               \/ Ended

\* The goroutines run, requests end and the drain has a timeout; only the
\* retention's and the requests' beginnings are left to chance.
RecordsFairness == /\ WF_records(server # "exited" /\ Work) /\ WF_records(server # "exited" /\ LogWork)
                   /\ WF_records(server # "exited" /\ Retain)
                   /\ WF_records(UsageStopped) /\ WF_records(LogStopped) /\ WF_records(Drained)

RecordsSpec == RecordsInit /\ [][RecordsNext]_records /\ RecordsFairness
----------------------------------------------------------------------------
RecordsTypeOK == /\ UsageTypeOK /\ LogTypeOK
                 /\ req \in [Entries -> {"idle", "open", "logging", "done"}]
                 /\ server \in {"serving", "draining", "usage", "access", "exited"}

(* The order of the shutdown: when every request ended within the drain, the *)
(* process leaves no entry of the access log unwritten but those that found  *)
(* the channel full or that the database refused three times.                *)
DrainedEntriesLogged ==
    server = "exited" /\ ~timedOut =>
        \A e \in Entries : req[e] = "done" => aRows[e] > 0 \/ e \in aLost

(* The same of usage records, which is what the order is there for.          *)
DrainedUsageKept ==
    server = "exited" /\ ~timedOut =>
        \A e \in Entries : req[e] = "done" => uRows[e] > 0 \/ e \in uLost

(* Stopping ends: a signal is followed by the exit of the process, whatever  *)
(* the database does to the last flushes.                                    *)
StopsAfterSignal == server = "draining" ~> server = "exited"

=============================================================================

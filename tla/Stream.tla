-------------------------------- MODULE Stream --------------------------------
(***************************************************************************)
(* One request through the proxy: handle, the attempts at its candidates,  *)
(* doStream with its timers, and what it shares with the other requests,   *)
(* the stream slots and the list of active requests, both keyed by the     *)
(* trace id, which the client may choose.  The choice of candidates is     *)
(* Failover's; here they are given, and an attempt that fails may be made  *)
(* again with another key, within the same first-byte budget of a relay.   *)
(***************************************************************************)
EXTENDS Upstream, Integers, FiniteSets

CONSTANTS Routes,      \* the adapters of the candidates, in order
          Others,      \* streams of which only the slots are modelled
          Tracings,    \* which streams have which trace id: functions on Requests \cup Others
          MaxStreams   \* maxConcurrentStreams

\* The router offers a route only if there is a candidate.
ASSUME StreamAssumption == /\ Routes \subseteq Seq(Adapters) \ {<<>>}
                           /\ Requests \cap Others = {}
                           /\ \A t \in Tracings : DOMAIN t = Requests \cup Others
                           /\ MaxStreams \in Nat /\ Chunks \in Nat

VARIABLES pc,       \* where the request is
          req,      \* its trace, route, candidate and so on
          timer,    \* the timer the request waits on: the first byte's, then the idle one
          entry,    \* error_type of its access log entry
          streamCnt, streamBuf,
          active    \* the inflight registry

proxy == <<pc, req, timer, entry>>
slots == <<streamCnt, streamBuf>>
vars == <<upstream, proxy, slots, active>>

Streams == Requests \cup Others

StreamInit ==
    /\ UpstreamInit
    /\ pc = [r \in Streams |-> "idle"]
    /\ \E trace \in Tracings, way \in Routes, plain \in BOOLEAN :
          req = [x \in Streams |-> [trace |-> trace[x], route |-> way, n |-> 1, plain |-> plain, again |-> FALSE,
                                   wrote |-> FALSE, whole |-> FALSE, ok |-> FALSE, row |-> "none"]]
    /\ timer = [r \in Requests |-> "off"]
    /\ entry = [r \in Requests |-> "none"]
    /\ streamCnt = 0 /\ streamBuf = {}
    /\ active = {}

At(r, l) == pc[r] = l
Go(r, l) == pc' = [pc EXCEPT ![r] = l]
Set(r, changed) == req' = [req EXCEPT ![r] = changed]
Timer(r, t) == timer' = [timer EXCEPT ![r] = t]
Log(r, e) == entry' = [entry EXCEPT ![r] = e]
Adapter(r) == req[r].route[req[r].n]
Relay(r) == Adapter(r) \in Relays

\* requestContextTerminalError, as it is logged.
Terminal(r) == IF client[r] = "left" THEN "client_disconnected" ELSE "timeout"

----------------------------------------------------------------------------
(* handle                                                                    *)

Enter(r) ==
    /\ At(r, "idle")
    /\ active' = active \cup {req[r].trace}
    /\ Timer(r, IF Relay(r) /\ ~req[r].plain THEN "armed" ELSE "off")
    /\ Go(r, "attempt")
    /\ UNCHANGED <<upstream, req, entry, slots>>

\* attemptOne: the budget of the candidate may be spent by an earlier attempt.
Attempt(r) ==
    /\ At(r, "attempt")
    /\ \/ Gone(r) /\ Log(r, Terminal(r)) /\ Go(r, "after")
       \/ ~Gone(r) /\ timer[r] = "fired" /\ Log(r, "timeout") /\ Go(r, "after")
       \/ ~Gone(r) /\ timer[r] # "fired" /\ UNCHANGED entry /\ Go(r, IF req[r].plain THEN "ask" ELSE "open")
    /\ UNCHANGED <<upstream, req, timer, slots, active>>

----------------------------------------------------------------------------
(* doRequest and writeNonStreamResponse                                      *)

Ask(r) == /\ At(r, "ask")
          /\ IF Gone(r) THEN UNCHANGED upstream /\ Go(r, "after")
                        ELSE Dial(r, Adapter(r), TRUE) /\ Go(r, "answer")
          /\ UNCHANGED <<req, timer, entry, slots, active>>

Answered(r) ==
    /\ At(r, "answer")
    /\ \/ /\ call[r].at = "failed" \/ (call[r].at = "answered" /\ Gone(r))
          /\ UNCHANGED <<req, entry, told>> /\ Go(r, "after")
       \/ /\ call[r].at = "answered" /\ ~Gone(r)
          /\ \E written \in BOOLEAN :
                /\ Set(r, [req[r] EXCEPT !.wrote = TRUE, !.ok = TRUE, !.whole = written, !.row = "tokens"])
                /\ IF written THEN UNCHANGED entry ELSE Log(r, "client_disconnected")
          /\ told' = [told EXCEPT ![r].good = IF call[r].reported THEN @ ELSE @ + 1]
          /\ Go(r, "after")
    /\ UNCHANGED <<client, cut, call, chan, timer, slots, active>>

----------------------------------------------------------------------------
(* doStream until the upstream has answered                                  *)

Quiet(r) == UNCHANGED <<slots, active>>

\* The proxy's own report: it does not look at the context.
ReportError(r) == told' = [told EXCEPT ![r].bad = @ + 1]

\* A relay's call runs in a goroutine of its own, with a context of its own.
Open(r) ==
    /\ At(r, "open")
    /\ \/ Gone(r) /\ UNCHANGED upstream /\ Go(r, "after")
       \/ /\ ~Gone(r) /\ timer[r] = "fired"
          /\ ReportError(r) /\ UNCHANGED <<client, cut, call, chan>>
          /\ Go(r, "after")
       \/ ~Gone(r) /\ timer[r] # "fired" /\ Dial(r, Adapter(r), FALSE) /\ Go(r, "start")
    /\ UNCHANGED <<req, timer, entry>> /\ Quiet(r)

Cancels(r) == cut' = [cut EXCEPT ![r] = TRUE] /\ UNCHANGED <<client, call, chan>>

\* No adapter opens without a channel, so that the check for one (738) never fails.
Started(r) ==
    /\ At(r, "start")
    /\ \/ /\ call[r].at = "failed"   \* reported by the adapter
          /\ Cancels(r) /\ UNCHANGED <<told, entry>>
          /\ Go(r, "after")
       \/ /\ call[r].at \in {"opened", "leaving", "closed"}
          /\ UNCHANGED <<upstream, entry>>
          /\ Go(r, "count")
       \/ /\ Relay(r) /\ Gone(r)
          /\ Cancels(r) /\ UNCHANGED <<told, entry>>
          /\ Go(r, "after")
       \/ /\ Relay(r) /\ timer[r] = "fired"
          /\ Cancels(r) /\ ReportError(r) /\ UNCHANGED entry
          /\ Go(r, "after")
    /\ UNCHANGED <<req, timer>> /\ Quiet(r)

----------------------------------------------------------------------------
(* The slots: acquireStreamSlot and finalizeStream.                          *)

SlotCounts(r) == /\ At(r, "count")
                 /\ streamCnt' = streamCnt + 1
                 /\ Go(r, IF streamCnt < MaxStreams THEN "store" ELSE "refused")
                 /\ UNCHANGED streamBuf

SlotStores(r) == \/ /\ At(r, "store")
                    /\ streamBuf' = streamBuf \cup {req[r].trace}
                    /\ Go(r, "first")
                    /\ UNCHANGED streamCnt
                 \/ /\ At(r, "refused")
                    /\ streamCnt' = streamCnt - 1
                    /\ Go(r, "first")
                    /\ UNCHANGED streamBuf

\* Slip: a count is given back that was never kept.
SlotTakenAnyway(r) == /\ At(r, "finalize")
                      /\ streamBuf' = streamBuf \ {req[r].trace}
                      /\ Go(r, "uncount")
                      /\ UNCHANGED streamCnt

\* LoadAndDelete tells whether there is a count to give back.
SlotTaken(r) == /\ At(r, "finalize")
                /\ streamBuf' = streamBuf \ {req[r].trace}
                /\ Go(r, IF req[r].trace \in streamBuf THEN "uncount" ELSE "after")
                /\ UNCHANGED streamCnt

SlotUncounts(r) == /\ At(r, "uncount")
                   /\ streamCnt' = streamCnt - 1
                   /\ Go(r, "after")
                   /\ UNCHANGED streamBuf

SlotStep(r) == SlotCounts(r) \/ SlotStores(r) \/ SlotTaken(r) \/ SlotUncounts(r)

----------------------------------------------------------------------------
(* The first chunk: until it is there the candidate can still be changed.    *)

Fails(r, e) == Log(r, e) /\ Go(r, "finalize") /\ UNCHANGED <<req, timer>>

Drops(r) == chan' = [chan EXCEPT ![r] = Tail(@)] /\ UNCHANGED <<client, cut, call>>

\* Slip: a chunk that fails is not checked against the context.
FirstFailsBlaming(r) ==
    /\ At(r, "first")
    /\ \/ Gone(r) /\ UNCHANGED upstream /\ Fails(r, entry[r])
       \/ /\ timer[r] = "fired"
          /\ Cancels(r) /\ ReportError(r) /\ Fails(r, entry[r])
       \/ /\ Closed(r) /\ Gone(r)
          /\ UNCHANGED upstream /\ Fails(r, Terminal(r))
       \/ /\ chan[r] # <<>> /\ Head(chan[r]) \in {"eof", "cut", "context"}
          /\ Drops(r)
          /\ ReportError(r)
          /\ Fails(r, IF Relay(r) /\ Head(chan[r]) = "eof" THEN "server_error" ELSE entry[r])
    /\ Quiet(r)

\* The select sees what is ready, in no order.  No adapter closes its channel without
\* a last word unless its context is done.  The error of a context is nobody's report.
FirstFails(r) ==
    /\ At(r, "first")
    /\ \/ Gone(r) /\ UNCHANGED upstream /\ Fails(r, entry[r])
       \/ /\ timer[r] = "fired"
          /\ Cancels(r) /\ ReportError(r) /\ Fails(r, entry[r])
       \/ /\ Closed(r) /\ Gone(r)
          /\ UNCHANGED upstream /\ Fails(r, Terminal(r))
       \/ /\ chan[r] # <<>> /\ Head(chan[r]) \in {"eof", "cut", "context"} /\ Gone(r)
          /\ Drops(r) /\ UNCHANGED told /\ Fails(r, entry[r])
       \/ /\ chan[r] # <<>> /\ Head(chan[r]) = "context" /\ ~Gone(r)
          /\ Drops(r) /\ UNCHANGED told /\ Fails(r, "timeout")
       \/ /\ chan[r] # <<>> /\ Head(chan[r]) \in {"eof", "cut"} /\ ~Gone(r)
          /\ Drops(r)
          /\ ReportError(r)
          /\ Fails(r, IF Relay(r) /\ Head(chan[r]) = "eof" THEN "server_error" ELSE entry[r])
    /\ Quiet(r)

Arrives(r) == chan[r] # <<>> /\ Head(chan[r]) \in {"data", "error"}

\* The body of a chunk that is an error event of the upstream is passed on all the same.
Noted(r, item) == IF item = "error" /\ entry[r] = "none" THEN "upstream_stream_error" ELSE entry[r]

\* Slip: the success is reported again.
CommitAgain(r) ==
    /\ At(r, "first")
    /\ Arrives(r)
    /\ Drops(r)
    /\ Log(r, Noted(r, Head(chan[r])))
    /\ told' = [told EXCEPT ![r].good = @ + 1]
    /\ Set(r, [req[r] EXCEPT !.wrote = TRUE])
    /\ Timer(r, "armed")
    /\ Go(r, "forward") /\ Quiet(r)

\* The headers and the first chunk go out.
Commit(r) ==
    /\ At(r, "first")
    /\ Arrives(r)
    /\ Drops(r)
    /\ told' = [told EXCEPT ![r].good = IF call[r].reported THEN @ ELSE @ + 1]
    /\ \/ /\ Log(r, Noted(r, Head(chan[r])))
          /\ Set(r, [req[r] EXCEPT !.wrote = TRUE])
          /\ Timer(r, "armed")
          /\ Go(r, "forward")
       \/ /\ client[r] = "left"
          /\ Log(r, "client_disconnected")
          /\ Set(r, [req[r] EXCEPT !.wrote = TRUE, !.ok = TRUE, !.row = "bare"])
          /\ Timer(r, "off")
          /\ Go(r, "finalize")
    /\ Quiet(r)

----------------------------------------------------------------------------
(* The rest of the stream: no way back, but the entry tells what happened.   *)

\* streamEnd: the usage is read as it is by now.
Bill(r) == IF call[r].set THEN "tokens" ELSE "bare"

Ends(r, e, whole) == /\ Log(r, e)
                     /\ Set(r, [req[r] EXCEPT !.ok = TRUE, !.whole = whole, !.row = Bill(r)])
                     /\ Timer(r, "off")
                     /\ Go(r, "finalize")

Forward(r) ==
    /\ At(r, "forward")
    /\ Arrives(r)
    /\ Drops(r) /\ UNCHANGED told
    /\ Log(r, Noted(r, Head(chan[r])))
    /\ Timer(r, "armed")
    /\ UNCHANGED req /\ Go(r, "forward") /\ Quiet(r)

\* A write fails: the client is gone, and the usage is not looked at.
WriteFails(r) ==
    /\ At(r, "forward")
    /\ Arrives(r)
    /\ client[r] = "left"
    /\ Drops(r) /\ UNCHANGED told
    /\ Log(r, "client_disconnected")
    /\ Set(r, [req[r] EXCEPT !.ok = TRUE, !.row = "bare"])
    /\ Timer(r, "off")
    /\ Go(r, "finalize") /\ Quiet(r)

ForwardEnds(r) ==
    /\ At(r, "forward")
    /\ \/ /\ chan[r] # <<>> /\ Head(chan[r]) = "eof"
          /\ Drops(r) /\ UNCHANGED told
          /\ Ends(r, IF Gone(r) THEN Terminal(r) ELSE entry[r], TRUE)
       \/ /\ Closed(r)
          /\ UNCHANGED upstream
          /\ Ends(r, IF Gone(r) THEN Terminal(r) ELSE entry[r], FALSE)
    /\ Quiet(r)

\* Slip: nobody listens to the idle timer.
ForwardBreaksNoIdle(r) ==
    /\ At(r, "forward")
    /\ \/ /\ chan[r] # <<>> /\ Head(chan[r]) \in {"cut", "context"}
          /\ Drops(r) /\ UNCHANGED told
          /\ Ends(r, IF Head(chan[r]) = "context" THEN Terminal(r) ELSE "stream_interrupted", FALSE)
       \/ /\ Gone(r)
          /\ UNCHANGED upstream
          /\ Ends(r, Terminal(r), FALSE)
    /\ Quiet(r)

\* Slip: a body that breaks off is logged like one that ends.
ForwardBreaksUntold(r) ==
    /\ At(r, "forward")
    /\ \/ /\ chan[r] # <<>> /\ Head(chan[r]) \in {"cut", "context"}
          /\ Drops(r) /\ UNCHANGED told
          /\ Ends(r, entry[r], FALSE)
       \/ /\ Gone(r) \/ timer[r] = "fired"
          /\ UNCHANGED upstream
          /\ Ends(r, IF Gone(r) THEN Terminal(r) ELSE "stream_idle_timeout", FALSE)
    /\ Quiet(r)

ForwardBreaks(r) ==
    /\ At(r, "forward")
    /\ \/ /\ chan[r] # <<>> /\ Head(chan[r]) \in {"cut", "context"}
          /\ Drops(r) /\ UNCHANGED told
          /\ Ends(r, IF Head(chan[r]) = "context" THEN Terminal(r) ELSE "stream_interrupted", FALSE)
       \/ /\ timer[r] = "fired"
          /\ UNCHANGED upstream
          /\ Ends(r, IF Gone(r) THEN Terminal(r) ELSE "stream_idle_timeout", FALSE)
       \/ /\ Gone(r)
          /\ UNCHANGED upstream
          /\ Ends(r, Terminal(r), FALSE)
    /\ Quiet(r)

----------------------------------------------------------------------------
(* After the attempt: the candidate loop and the end of handle.              *)

\* handleAllFailed leaves an answer that has begun alone.
Finish(r) == /\ At(r, "after")
             /\ \/ Gone(r) /\ Log(r, Terminal(r))
                \/ req[r].ok /\ ~Gone(r) /\ UNCHANGED entry
                \/ ~req[r].ok /\ ~Gone(r) /\ req[r].n = Len(req[r].route) /\ UNCHANGED entry
             /\ Go(r, "end")
             /\ UNCHANGED <<upstream, req, timer>> /\ Quiet(r)

\* Slip: a stream that broke off is tried elsewhere.
TriesOnAnyway(r) == /\ At(r, "after")
                    /\ ~Gone(r)
                    /\ ~req[r].whole
                    /\ req[r].n < Len(req[r].route)
                    /\ Set(r, [req[r] EXCEPT !.n = @ + 1, !.again = FALSE, !.ok = FALSE])
                    /\ Timer(r, "off")
                    /\ Go(r, "attempt")
                    /\ Hangup(r)
    /\ UNCHANGED entry /\ Quiet(r)

\* The same candidate with another key, once, or the next one.
TriesOn(r) ==
    /\ At(r, "after")
    /\ ~Gone(r) /\ ~req[r].ok
    /\ \/ /\ ~req[r].again
          /\ Set(r, [req[r] EXCEPT !.again = TRUE])
          /\ UNCHANGED timer
       \/ /\ req[r].n < Len(req[r].route)
          /\ Set(r, [req[r] EXCEPT !.n = @ + 1, !.again = FALSE])
          /\ Timer(r, IF req[r].route[req[r].n + 1] \in Relays /\ ~req[r].plain THEN "armed" ELSE "off")
    /\ Hangup(r)
    /\ Go(r, "attempt")
    /\ UNCHANGED entry /\ Quiet(r)

\* The deferred function of handle; the context of the request ends with it.
Leave(r) == /\ At(r, "end")
            /\ active' = active \ {req[r].trace}
            /\ Log(r, IF entry[r] # "none" THEN entry[r] ELSE IF req[r].wrote THEN "ok" ELSE "failed")
            /\ Go(r, "ended")
            /\ UNCHANGED <<upstream, req, timer, slots>>

Fires(r) == /\ timer[r] = "armed"
            /\ Timer(r, "fired")
            /\ UNCHANGED <<upstream, pc, req, entry, slots, active>>

----------------------------------------------------------------------------
Handle(r) == \/ Enter(r) \/ Attempt(r) \/ Ask(r) \/ Answered(r) \/ Open(r) \/ Started(r)
             \/ SlotStep(r) /\ UNCHANGED <<upstream, req, timer, entry, active>>
             \/ FirstFails(r) \/ Commit(r) \/ Forward(r) \/ WriteFails(r) \/ ForwardEnds(r) \/ ForwardBreaks(r)
             \/ Finish(r) \/ TriesOn(r) \/ Leave(r)

\* Of the others only what is shared: the slot, and the list of active requests.
Other(o) == \/ /\ At(o, "idle")
               /\ active' = active \cup {req[o].trace}
               /\ Go(o, "count") /\ UNCHANGED slots
            \/ SlotStep(o) /\ UNCHANGED active
            \/ At(o, "first") /\ Go(o, "finalize") /\ UNCHANGED <<slots, active>>
            \/ /\ At(o, "after")
               /\ active' = active \ {req[o].trace}
               /\ Go(o, "ended") /\ UNCHANGED slots

AllEnded == (\A r \in Streams : At(r, "ended")) /\ UNCHANGED vars

StreamNext ==
    \/ AllEnded
    \/ \E r \in Requests :
          \/ Handle(r) \/ Fires(r)
          \/ ~At(r, "ended") /\ (AdapterStep(r) \/ ClientGoes(r)) /\ UNCHANGED <<proxy, slots, active>>
    \/ \E o \in Others : Other(o) /\ UNCHANGED <<upstream, req, timer, entry>>

StreamSpec == StreamInit /\ [][StreamNext]_vars

\* The proxy and its timers run; the upstream and the client may do nothing for ever.
StreamFairSpec ==
    /\ StreamSpec
    /\ \A r \in Requests : WF_vars(Handle(r)) /\ WF_vars(Fires(r))
----------------------------------------------------------------------------
Places == {"idle", "attempt", "ask", "answer", "open", "start", "count", "store", "refused", "first",
           "forward", "finalize", "uncount", "after", "end", "ended"}

Traces == {t[x] : t \in Tracings, x \in Streams}

ReqType == [trace : Traces, route : Routes, n : Nat, plain : BOOLEAN, again : BOOLEAN, wrote : BOOLEAN,
            whole : BOOLEAN, ok : BOOLEAN, row : {"none", "tokens", "bare"}]

Entry == {"none", "ok", "failed", "timeout", "client_disconnected", "server_error",
          "upstream_stream_error", "stream_interrupted", "stream_idle_timeout"}

StreamTypeOK == /\ UpstreamTypeOK
                /\ pc \in [Streams -> Places]
                /\ req \in [Streams -> ReqType]
                /\ timer \in [Requests -> {"off", "armed", "fired"}]
                /\ entry \in [Requests -> Entry]
                /\ \A r \in Requests : req[r].n \in 1 .. Len(req[r].route)
                /\ streamBuf \subseteq Traces /\ active \subseteq Traces
                /\ streamCnt \in Int

Distinct == \A x, y \in Streams : x # y => req[x].trace # req[y].trace

(* Every buffered trace holds a slot and none is given back that was not     *)
(* taken, even when clients send the same trace id; with trace ids of their  *)
(* own each stream gives back exactly its own.  So never more than           *)
(* MaxStreams bodies are buffered.                                           *)
SlotsPaired ==
    LET between == Cardinality({x \in Streams : pc[x] \in {"store", "refused", "uncount"}}) IN
    /\ streamCnt >= Cardinality(streamBuf) + between
    /\ Distinct => streamCnt = Cardinality(streamBuf) + between
    /\ Cardinality(streamBuf) <= MaxStreams

(* The comment of finalizeStream claims it of every stream: no slot is lost. *)
SlotsReturned == (\A x \in Streams : At(x, "ended")) => streamCnt = 0

(* An answer that the client did not get to its end is never logged as "ok", *)
(* however its end, the client's going and the timers race: the status is    *)
(* 200 for good once the headers are out.                                    *)
CutsTold == \A r \in Requests : req[r].wrote /\ ~req[r].whole => entry[r] # "ok"

(* The adapter and the proxy both report to the pool, yet an answer that the *)
(* client got, or the beginning of it, counts as one success: not as two,    *)
(* and not as none where each leaves the report to the other.                *)
CountedOnce ==
    \A r \in Requests : told[r].good <= 1 /\ (req[r].wrote => told[r].good = 1)

(* A key is not blamed for a client that has gone: an error is reported only *)
(* while the client is there, or when the candidate's budget has run out.    *)
NoBlameForLeaving ==
    [][\A r \in Requests : told'[r].bad > told[r].bad => ~Gone(r) \/ timer[r] = "fired"]_vars

(* Once a byte went to the client no other key or candidate is asked.        *)
NoSwitchAfterBytes ==
    [][\A r \in Requests : At(r, "after") /\ pc'[r] = "attempt" => ~req[r].wrote]_vars

(* An upstream that falls silent holds no client for ever: a stream that has *)
(* begun ends, and so does an attempt at a relay that sends nothing.         *)
StreamEnds ==
    \A r \in Requests :
        LET waits == At(r, "forward") \/ (pc[r] \in {"start", "first"} /\ Relay(r))
        IN  waits ~> ~waits

(* The usage that an upstream sent with a stream that was forwarded to its   *)
(* end is billed, as the comment at streamEnd has it.                        *)
UsageBilled ==
    \A r \in Requests : req[r].ok /\ req[r].whole /\ call[r].usage => req[r].row = "tokens"
=============================================================================

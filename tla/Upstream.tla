------------------------------- MODULE Upstream -------------------------------
(***************************************************************************)
(* The protocol adapters: a call to an upstream, its report to the key     *)
(* pool, and for a stream the goroutine that reads the body and feeds a    *)
(* channel.  A request makes one call at a time; a call that was given up  *)
(* has a context that is done, so it neither reports nor is read.          *)
(***************************************************************************)
EXTENDS Naturals, Sequences

CONSTANTS Requests,
          Chunks   \* data events an upstream sends at most

Builtin == {"openai", "anthropic", "google"}
Relays == {"rawOpenAI", "rawAnthropic"}
Adapters == Builtin \cup Relays

VARIABLES client,  \* the context of the request: "there", "left" or "late" (its deadline)
          cut,     \* the context of the relay's stream was cancelled by the proxy
          call,    \* the adapter's call
          chan,    \* the channel it feeds
          told     \* what the key pool was told about the call

upstream == <<client, cut, call, chan, told>>

NoCall == [adapter |-> "none", plain |-> FALSE, at |-> "off", resent |-> FALSE, why |-> "none",
           left |-> 0, usage |-> FALSE, set |-> FALSE, reported |-> FALSE]

UpstreamInit == /\ client = [r \in Requests |-> "there"]
                /\ cut = [r \in Requests |-> FALSE]
                /\ call = [r \in Requests |-> NoCall]
                /\ chan = [r \in Requests |-> <<>>]
                /\ told = [r \in Requests |-> [good |-> 0, bad |-> 0]]

Gone(r) == client[r] # "there"
Done(r) == Gone(r) \/ cut[r]

\* SendRequest or SendStreamRequest of the adapter.
Dial(r, adapter, plain) ==
    /\ call' = [call EXCEPT ![r] = [NoCall EXCEPT !.adapter = adapter, !.plain = plain,
                                                  !.at = "dial", !.left = Chunks]]
    /\ chan' = [chan EXCEPT ![r] = <<>>]
    /\ cut' = [cut EXCEPT ![r] = FALSE]
    /\ told' = [told EXCEPT ![r] = [good |-> 0, bad |-> 0]]
    /\ UNCHANGED client

\* Nobody listens to the call any more.
Hangup(r) == /\ call' = [call EXCEPT ![r] = NoCall]
             /\ chan' = [chan EXCEPT ![r] = <<>>]
             /\ told' = [told EXCEPT ![r] = [good |-> 0, bad |-> 0]]
             /\ UNCHANGED <<client, cut>>

Dials(r, adapters, plain) ==
    call[r].at = "dial" /\ call[r].adapter \in adapters /\ call[r].plain = plain

Moves(r, changed) == call' = [call EXCEPT ![r] = changed] /\ UNCHANGED <<client, cut>>

\* ShouldReportKeyPool: with the context done nobody knows that the upstream failed.
Praise(r) == told' = [told EXCEPT ![r].good = IF Done(r) THEN @ ELSE @ + 1]
Blame(r) == told' = [told EXCEPT ![r].bad = IF Done(r) THEN @ ELSE @ + 1]

----------------------------------------------------------------------------
\* A transport error: ClassifyTransportError looks at the context first.
Breaks(r) == /\ Moves(r, [call[r] EXCEPT !.at = "failed", !.why = IF Done(r) THEN "context" ELSE "upstream"])
             /\ Blame(r)
             /\ UNCHANGED chan

\* A status of 400 and more, or an error in the body or in the first two lines of it.
Refuses(r) == /\ Moves(r, [call[r] EXCEPT !.at = "failed", !.why = "upstream"])
              /\ Blame(r)
              /\ UNCHANGED chan

Answers(r, at) == /\ Moves(r, [call[r] EXCEPT !.at = at, !.reported = ~Done(r)])
                  /\ Praise(r)
                  /\ UNCHANGED chan

OpenAISends(r) == /\ Dials(r, {"openai", "rawOpenAI"}, TRUE)
                  /\ Breaks(r) \/ Refuses(r) \/ Answers(r, "answered")
GoogleSends(r) == /\ Dials(r, {"google"}, TRUE)
                  /\ Breaks(r) \/ Refuses(r) \/ Answers(r, "answered")

\* A 429 is reported and, by the builtin adapter, sent again once after a pause.
Pauses(r) == /\ call[r].adapter = "anthropic" /\ ~call[r].resent
             /\ Moves(r, [call[r] EXCEPT !.at = "pause"])
             /\ Blame(r)
             /\ UNCHANGED chan

AnthropicPauses(r) ==
    /\ call[r].at = "pause"
    /\ \/ Moves(r, [call[r] EXCEPT !.at = "dial", !.resent = TRUE])
       \/ Done(r) /\ Moves(r, [call[r] EXCEPT !.at = "failed", !.why = "context"])
    /\ UNCHANGED <<chan, told>>

AnthropicSends(r) == /\ Dials(r, {"anthropic", "rawAnthropic"}, TRUE)
                     /\ Breaks(r) \/ Refuses(r) \/ Pauses(r) \/ Answers(r, "answered")

OpenAIOpens(r) == /\ Dials(r, {"openai"}, FALSE)
                  /\ Breaks(r) \/ Refuses(r) \/ Answers(r, "opened")
AnthropicOpens(r) == /\ Dials(r, {"anthropic"}, FALSE)
                     /\ Breaks(r) \/ Refuses(r) \/ Pauses(r) \/ Answers(r, "opened")
GoogleOpens(r) == /\ Dials(r, {"google"}, FALSE)
                  /\ Breaks(r) \/ Refuses(r) \/ Answers(r, "opened")

\* A relay's body is passed on unread, and its success is left to the proxy to report.
RawOpens(r) ==
    /\ Dials(r, Relays, FALSE)
    /\ \/ Breaks(r) \/ Refuses(r)
       \/ Moves(r, [call[r] EXCEPT !.at = "opened"]) /\ UNCHANGED <<chan, told>>

----------------------------------------------------------------------------
(* The goroutine that reads the body.                                        *)

Reads(r, adapters) == call[r].at = "opened" /\ ~call[r].plain /\ call[r].adapter \in adapters

\* SendOrAbort; the channel is bounded.
Offers(r, item) == Len(chan[r]) < 1 /\ chan' = [chan EXCEPT ![r] = Append(@, item)]
Aborts(r) == Done(r) /\ UNCHANGED chan

\* An event; the last may carry the usage, and set says whether the caller can read it then.
Event(r, carries, set) ==
    /\ call[r].left > 0
    /\ carries => call[r].left = 1
    /\ \E item \in {"data", "error"} : Offers(r, item)
    /\ Moves(r, [call[r] EXCEPT !.left = @ - 1, !.usage = @ \/ carries, !.set = @ \/ (carries /\ set)])
    /\ UNCHANGED told

\* The end of the body, or a read that fails, also goes down the channel.  The error of
\* the HTTP client's own time limit is one of a context too, whose request lives on.
Stops(r) == /\ \/ Offers(r, "eof")
               \/ ~Done(r) /\ Offers(r, "cut")
               \/ Offers(r, "context")
               \/ Aborts(r)
            /\ Moves(r, [call[r] EXCEPT !.at = "leaving"])
            /\ UNCHANGED told

OpenAIReads(r) == /\ Reads(r, {"openai"})
                  /\ Stops(r) \/ \E u \in BOOLEAN : Event(r, u, FALSE)
AnthropicReads(r) == /\ Reads(r, {"anthropic"})
                     /\ Stops(r) \/ \E u \in BOOLEAN : Event(r, u, FALSE)
GoogleReads(r) == Reads(r, {"google"}) /\ (Stops(r) \/ Event(r, FALSE, FALSE))

\* The observer of OpenAI's events sets the usage as it meets it, Anthropic's at the end.
RawReads(r) == \/ Reads(r, {"rawOpenAI"}) /\ (Stops(r) \/ \E u \in BOOLEAN : Event(r, u, TRUE))
               \/ Reads(r, {"rawAnthropic"}) /\ (Stops(r) \/ \E u \in BOOLEAN : Event(r, u, FALSE))

\* The deferred functions: the body is closed, the usage set, the channel closed.
Leaves(r) == /\ call[r].at = "leaving"
             /\ Moves(r, [call[r] EXCEPT !.at = "closed", !.set = call[r].usage])
             /\ UNCHANGED <<chan, told>>

Closed(r) == call[r].at = "closed" /\ chan[r] = <<>>

\* What the proxy reads.
Takes(r) == chan' = [chan EXCEPT ![r] = Tail(@)] /\ UNCHANGED <<client, cut, call>>

AdapterStep(r) == \/ OpenAISends(r) \/ GoogleSends(r) \/ AnthropicSends(r) \/ AnthropicPauses(r)
                  \/ OpenAIOpens(r) \/ AnthropicOpens(r) \/ GoogleOpens(r) \/ RawOpens(r)
                  \/ OpenAIReads(r) \/ AnthropicReads(r) \/ GoogleReads(r) \/ RawReads(r)
                  \/ Leaves(r)

\* The client closes its connection, or the deadline of the request passes.
ClientGoes(r) == /\ ~Gone(r)
                 /\ \E how \in {"left", "late"} : client' = [client EXCEPT ![r] = how]
                 /\ UNCHANGED <<cut, call, chan, told>>
----------------------------------------------------------------------------
Items == {"data", "error", "eof", "cut", "context"}

CallType == [adapter : Adapters \cup {"none"}, plain : BOOLEAN,
             at : {"off", "dial", "pause", "failed", "answered", "opened", "leaving", "closed"},
             resent : BOOLEAN, why : {"none", "context", "upstream"},
             left : Nat, usage : BOOLEAN, set : BOOLEAN, reported : BOOLEAN]

UpstreamTypeOK == /\ client \in [Requests -> {"there", "left", "late"}]
                  /\ cut \in [Requests -> BOOLEAN]
                  /\ call \in [Requests -> CallType]
                  /\ chan \in [Requests -> Seq(Items)]
                  /\ told \in [Requests -> [good : Nat, bad : Nat]]
                  /\ \A r \in Requests : Len(chan[r]) <= 1
=============================================================================

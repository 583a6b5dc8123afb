----------------------------- MODULE StreamProofs -----------------------------
(***************************************************************************)
(* One request through the proxy, for any routes, any adapters' answers,   *)
(* any number of other streams and any sharing of trace ids.  First the    *)
(* types, then what one step does to a request it belongs to, then the     *)
(* invariants of a single request, and last the slots of all.              *)
(***************************************************************************)
EXTENDS Stream, FiniteSetTheorems, SequenceTheorems, TLAPS

\* Where a request is: before its answer is there, while one opens, while it is read, when it is over.
Calling == {"idle", "attempt", "ask", "answer", "open"}
Opening == {"start", "count", "store", "refused", "first"}
Reading == {"count", "store", "refused", "first", "forward"}
Over == {"finalize", "uncount", "after", "end"}

\* The last word of an adapter is in the channel.
LastWord(r) == chan[r] # <<>> /\ Head(chan[r]) \in {"eof", "cut", "context"}

\* While the proxy reads, an adapter that has stopped left its last word behind,
\* unless the request is over: so a bare close is never taken for an end.
ChannelInv(r) ==
    /\ pc[r] \in Reading \cup {"start"} => ~cut[r]
    /\ pc[r] \in Reading => call[r].at \in {"opened", "leaving", "closed"}
    /\ pc[r] \in Reading \cup {"start"} =>
          (call[r].at \in {"leaving", "closed"} => Gone(r) \/ LastWord(r))
    /\ call[r].at \in {"dial", "pause", "failed", "answered"} => chan[r] = <<>>

\* What went to the client, and what its entry says of it.
AnswerInv(r) ==
    /\ pc[r] \in Calling \cup Opening => ~req[r].wrote /\ ~req[r].whole /\ ~req[r].ok
    /\ pc[r] = "forward" => req[r].wrote /\ ~req[r].whole
    /\ pc[r] \in Over => (req[r].wrote \/ req[r].whole => req[r].ok)
    /\ pc[r] \in Over => (req[r].wrote /\ ~req[r].whole => entry[r] # "none")
    /\ entry[r] = "ok" => pc[r] = "ended" /\ (req[r].wrote => req[r].whole)

\* Before an answer is committed its success has been reported by the adapter, which
\* says so, or by nobody; from then on it has been reported.
CountInv(r) ==
    /\ told[r].good <= 1
    /\ call[r].at \in {"dial", "pause"} => told[r].good = 0 /\ ~call[r].reported
    /\ pc[r] \in Opening \cup {"answer"} => told[r].good = IF call[r].reported THEN 1 ELSE 0
    /\ req[r].wrote => told[r].good = 1

RequestInv == \A r \in Requests : ChannelInv(r) /\ AnswerInv(r) /\ CountInv(r)

\* A slot that is counted but not stored yet, or taken from the map but not given back.
Between == {x \in Streams : pc[x] \in {"store", "refused", "uncount"}}
Storing == {x \in Streams : pc[x] = "store"}

SlotInv ==
    /\ IsFiniteSet(Between) /\ IsFiniteSet(streamBuf)
    /\ streamCnt >= Cardinality(streamBuf) + Cardinality(Between)
    /\ Distinct => streamCnt = Cardinality(streamBuf) + Cardinality(Between)
    /\ Cardinality(streamBuf) + Cardinality(Storing) <= MaxStreams
    /\ Distinct => \A x \in Streams : req[x].trace \in streamBuf => pc[x] \in {"first", "forward", "finalize"}
    /\ \A t \in streamBuf : \E x \in Streams : req[x].trace = t

-----------------------------------------------------------------------------
(* The adapter: its moves change its own call only.                          *)

\* What a step that moves request r leaves of the calls of the others.
UpstreamKept(r) == \A q \in Requests : q # r => /\ client'[q] = client[q] /\ cut'[q] = cut[q]
                                                /\ call'[q] = call[q] /\ chan'[q] = chan[q]
                                                /\ told'[q] = told[q]

\* The five things an adapter's step can be: the call is retried, paused or given up;
\* it is answered; the body yields an event; its reader stops; its reader has left.
AdapterMove(r) ==
    /\ client' = client /\ cut' = cut
    /\ told'[r].bad > told[r].bad => ~Gone(r)
    /\ \/ /\ call[r].at \in {"dial", "pause"} /\ call'[r].at \in {"dial", "pause", "failed"}
          /\ call'[r].reported = call[r].reported /\ chan'[r] = chan[r] /\ told'[r].good = told[r].good
       \/ /\ call[r].at = "dial" /\ call'[r].at \in {"answered", "opened"}
          /\ chan'[r] = chan[r]
          /\ \/ call'[r].reported /\ told'[r].good = told[r].good + 1
             \/ ~call'[r].reported /\ told'[r].good = told[r].good
             \/ call'[r].reported = call[r].reported /\ told'[r].good = told[r].good
       \/ /\ call[r].at = "opened" /\ call'[r].at = "opened"
          /\ call'[r].reported = call[r].reported /\ told'[r].good = told[r].good
       \/ /\ call[r].at = "opened" /\ call'[r].at = "leaving"
          /\ call'[r].reported = call[r].reported /\ told'[r].good = told[r].good
          /\ LastWord(r)' \/ Done(r)
       \/ /\ call[r].at = "leaving" /\ call'[r].at = "closed"
          /\ call'[r].reported = call[r].reported /\ chan'[r] = chan[r] /\ told'[r].good = told[r].good

AdapterOK(r) == UpstreamTypeOK' /\ UpstreamKept(r) /\ AdapterMove(r)

LEMMA CallMoves ==
  ASSUME UpstreamTypeOK, NEW r \in Requests, NEW c \in CallType, Moves(r, c)
  PROVE  /\ call' \in [Requests -> CallType] /\ call'[r] = c
         /\ \A q \in Requests : q # r => call'[q] = call[q]
         /\ client' = client /\ cut' = cut
  BY DEF UpstreamTypeOK, Moves

\* One item fits into the channel.
LEMMA ItemOffered ==
  ASSUME UpstreamTypeOK, NEW r \in Requests, NEW item \in Items, Offers(r, item)
  PROVE  /\ chan' \in [Requests -> Seq(Items)] /\ chan[r] = << >>
         /\ chan'[r] # << >> /\ Head(chan'[r]) = item /\ Len(chan'[r]) = 1
         /\ \A q \in Requests : q # r => chan'[q] = chan[q]
<1>1. chan[r] \in Seq(Items) /\ Len(chan[r]) = 0 /\ chan[r] = << >>
  BY DEF UpstreamTypeOK, Offers
<1>2. Append(chan[r], item) = << item >>  BY <1>1
<1>3. chan' = [chan EXCEPT ![r] = << item >>]  BY <1>2 DEF Offers
<1>4. << item >> \in Seq(Items) /\ << item >> # << >> /\ Head(<< item >>) = item /\ Len(<< item >>) = 1
  OBVIOUS
<1> QED BY <1>1, <1>3, <1>4 DEF UpstreamTypeOK

LEMMA Told ==
  ASSUME UpstreamTypeOK, NEW r \in Requests
  PROVE  /\ Praise(r) => /\ told' \in [Requests -> [good : Nat, bad : Nat]]
                         /\ told'[r].bad = told[r].bad
                         /\ told'[r].good = IF Done(r) THEN told[r].good ELSE told[r].good + 1
                         /\ \A q \in Requests : q # r => told'[q] = told[q]
         /\ Blame(r) => /\ told' \in [Requests -> [good : Nat, bad : Nat]]
                        /\ told'[r].good = told[r].good
                        /\ told'[r].bad > told[r].bad => ~Gone(r)
                        /\ \A q \in Requests : q # r => told'[q] = told[q]
         /\ told[r].good \in Nat /\ told[r].bad \in Nat
<1>1. /\ told \in [Requests -> [good : Nat, bad : Nat]]
      /\ told[r] \in [good : Nat, bad : Nat] /\ told[r].good \in Nat /\ told[r].bad \in Nat
  BY DEF UpstreamTypeOK
<1>2. ASSUME Praise(r)
      PROVE  /\ told' \in [Requests -> [good : Nat, bad : Nat]]
             /\ told'[r].bad = told[r].bad
             /\ told'[r].good = IF Done(r) THEN told[r].good ELSE told[r].good + 1
             /\ \A q \in Requests : q # r => told'[q] = told[q]
  <2>1. CASE Done(r)  BY <2>1, <1>1, <1>2 DEF Praise
  <2>2. CASE ~Done(r)  BY <2>2, <1>1, <1>2 DEF Praise
  <2> QED BY <2>1, <2>2
<1>3. ASSUME Blame(r)
      PROVE  /\ told' \in [Requests -> [good : Nat, bad : Nat]]
             /\ told'[r].good = told[r].good
             /\ told'[r].bad > told[r].bad => ~Gone(r)
             /\ \A q \in Requests : q # r => told'[q] = told[q]
  <2>1. CASE Done(r)  BY <2>1, <1>1, <1>3 DEF Blame
  <2>2. CASE ~Done(r)
    <3>1. ~Gone(r)  BY <2>2 DEF Done
    <3> QED BY <3>1, <2>2, <1>1, <1>3 DEF Blame
  <2> QED BY <2>1, <2>2
<1> QED BY <1>1, <1>2, <1>3

\* A call that fails, whoever is blamed, or that is answered with the adapter's report.
LEMMA CallResolves ==
  ASSUME UpstreamTypeOK, NEW r \in Requests, call[r].at = "dial",
         NEW at \in {"answered", "opened"},
         Breaks(r) \/ Refuses(r) \/ Answers(r, at)
  PROVE  AdapterOK(r)
<1>0. call[r] \in CallType  BY DEF UpstreamTypeOK
<1>1. CASE Breaks(r)
  <2> DEFINE c == [call[r] EXCEPT !.at = "failed", !.why = IF Done(r) THEN "context" ELSE "upstream"]
  <2>1. c \in CallType /\ c.at = "failed" /\ c.reported = call[r].reported  BY <1>0 DEF CallType
  <2>2. Moves(r, c) /\ Blame(r) /\ chan' = chan  BY <1>1 DEF Breaks
  <2> HIDE DEF c
  <2> QED BY <2>1, <2>2, CallMoves, Told DEF AdapterOK, AdapterMove, UpstreamKept, UpstreamTypeOK
<1>2. CASE Refuses(r)
  <2> DEFINE c == [call[r] EXCEPT !.at = "failed", !.why = "upstream"]
  <2>1. c \in CallType /\ c.at = "failed" /\ c.reported = call[r].reported  BY <1>0 DEF CallType
  <2>2. Moves(r, c) /\ Blame(r) /\ chan' = chan  BY <1>2 DEF Refuses
  <2> HIDE DEF c
  <2> QED BY <2>1, <2>2, CallMoves, Told DEF AdapterOK, AdapterMove, UpstreamKept, UpstreamTypeOK
<1>3. CASE Answers(r, at)
  <2> DEFINE c == [call[r] EXCEPT !.at = at, !.reported = ~Done(r)]
  <2>0. Done(r) \in BOOLEAN  BY DEF Done, Gone, UpstreamTypeOK
  <2>1. c \in CallType /\ c.at = at /\ c.reported = ~Done(r)  BY <1>0, <2>0 DEF CallType
  <2>2. Moves(r, c) /\ Praise(r) /\ chan' = chan  BY <1>3 DEF Answers
  <2> HIDE DEF c
  <2>3. call'[r] = c /\ call' \in [Requests -> CallType] /\ client' = client /\ cut' = cut
        /\ \A q \in Requests : q # r => call'[q] = call[q]
    BY <2>1, <2>2, CallMoves
  <2>4. /\ told' \in [Requests -> [good : Nat, bad : Nat]] /\ told'[r].bad = told[r].bad
        /\ told'[r].good = IF Done(r) THEN told[r].good ELSE told[r].good + 1
        /\ \A q \in Requests : q # r => told'[q] = told[q]
        /\ told[r].good \in Nat /\ told[r].bad \in Nat
    BY <2>2, Told
  <2>5. UpstreamTypeOK' /\ UpstreamKept(r)
    BY <2>2, <2>3, <2>4 DEF UpstreamTypeOK, UpstreamKept
  <2>6. CASE Done(r)
    <3>1. told'[r].good = told[r].good /\ ~call'[r].reported  BY <2>1, <2>3, <2>4, <2>6
    <3> QED BY <3>1, <2>1, <2>2, <2>3, <2>4, <2>5 DEF AdapterOK, AdapterMove
  <2>7. CASE ~Done(r)
    <3>1. told'[r].good = told[r].good + 1 /\ call'[r].reported  BY <2>1, <2>3, <2>4, <2>7
    <3>2. call'[r].at = at /\ chan'[r] = chan[r] /\ ~(told'[r].bad > told[r].bad)
      BY <2>1, <2>2, <2>3, <2>4
    <3> QED BY <3>1, <3>2, <2>3, <2>5 DEF AdapterOK, AdapterMove
  <2> QED BY <2>6, <2>7
<1> QED BY <1>1, <1>2, <1>3

\* A 429 that is sent again.
LEMMA CallPauses ==
  ASSUME UpstreamTypeOK, NEW r \in Requests,
         (call[r].at = "dial" /\ Pauses(r)) \/ AnthropicPauses(r)
  PROVE  AdapterOK(r)
<1>0. call[r] \in CallType  BY DEF UpstreamTypeOK
<1>1. CASE call[r].at = "dial" /\ Pauses(r)
  <2> DEFINE c == [call[r] EXCEPT !.at = "pause"]
  <2>1. c \in CallType /\ c.at = "pause" /\ c.reported = call[r].reported  BY <1>0 DEF CallType
  <2>2. Moves(r, c) /\ Blame(r) /\ chan' = chan  BY <1>1 DEF Pauses
  <2> HIDE DEF c
  <2> QED BY <1>1, <2>1, <2>2, CallMoves, Told DEF AdapterOK, AdapterMove, UpstreamKept, UpstreamTypeOK
<1>2. CASE AnthropicPauses(r)
  <2>1. PICK c \in CallType : /\ c.at \in {"dial", "failed"} /\ c.reported = call[r].reported
                              /\ Moves(r, c)
    <3>1. CASE Moves(r, [call[r] EXCEPT !.at = "dial", !.resent = TRUE])
      BY <3>1, <1>0 DEF CallType
    <3>2. CASE Moves(r, [call[r] EXCEPT !.at = "failed", !.why = "context"])
      BY <3>2, <1>0 DEF CallType
    <3> QED BY <3>1, <3>2, <1>2 DEF AnthropicPauses
  <2>2. call[r].at = "pause" /\ chan' = chan /\ told' = told  BY <1>2 DEF AnthropicPauses
  <2> QED BY <2>1, <2>2, CallMoves, Told DEF AdapterOK, AdapterMove, UpstreamKept, UpstreamTypeOK
<1> QED BY <1>1, <1>2

\* The reader of a body.
LEMMA BodyRead ==
  ASSUME UpstreamTypeOK, NEW r \in Requests, call[r].at = "opened",
         NEW carries \in BOOLEAN, NEW set \in BOOLEAN, Event(r, carries, set) \/ Stops(r)
  PROVE  AdapterOK(r)
<1>0. /\ call[r] \in CallType /\ told \in [Requests -> [good : Nat, bad : Nat]]
      /\ chan \in [Requests -> Seq(Items)]
  BY DEF UpstreamTypeOK
<1>1. CASE Event(r, carries, set)
  <2> DEFINE c == [call[r] EXCEPT !.left = @ - 1, !.usage = @ \/ carries, !.set = @ \/ (carries /\ set)]
  <2>1. c \in CallType /\ c.at = "opened" /\ c.reported = call[r].reported
    <3>1. call[r].left \in Nat /\ call[r].left > 0 /\ call[r].usage \in BOOLEAN /\ call[r].set \in BOOLEAN
      BY <1>0, <1>1 DEF Event, CallType
    <3>2. call[r].left - 1 \in Nat  BY <3>1
    <3>3. (call[r].usage \/ carries) \in BOOLEAN /\ (call[r].set \/ (carries /\ set)) \in BOOLEAN
      OBVIOUS
    <3> QED BY <1>0, <3>2, <3>3 DEF CallType
  <2>2. Moves(r, c) /\ told' = told  BY <1>1 DEF Event
  <2>3. PICK item \in Items : Offers(r, item)  BY <1>1 DEF Event, Items
  <2> HIDE DEF c
  <2>4. /\ chan' \in [Requests -> Seq(Items)] /\ Len(chan'[r]) = 1
        /\ \A q \in Requests : q # r => chan'[q] = chan[q]
    BY <2>3, ItemOffered
  <2>5. \A q \in Requests : Len(chan'[q]) <= 1
    <3> TAKE q \in Requests
    <3>1. CASE q = r  BY <3>1, <2>4
    <3>2. CASE q # r  BY <3>2, <2>4 DEF UpstreamTypeOK
    <3> QED BY <3>1, <3>2
  <2>6. UpstreamTypeOK' /\ UpstreamKept(r)
    BY <2>1, <2>2, <2>4, <2>5, CallMoves DEF UpstreamKept, UpstreamTypeOK
  <2> QED BY <2>1, <2>2, <2>6, CallMoves, Told DEF AdapterOK, AdapterMove
<1>2. CASE Stops(r)
  <2> DEFINE c == [call[r] EXCEPT !.at = "leaving"]
  <2>1. c \in CallType /\ c.at = "leaving" /\ c.reported = call[r].reported  BY <1>0 DEF CallType
  <2>2. Moves(r, c) /\ told' = told  BY <1>2 DEF Stops
  <2> HIDE DEF c
  <2>3. /\ chan' \in [Requests -> Seq(Items)] /\ Len(chan'[r]) <= 1
        /\ \A q \in Requests : q # r => chan'[q] = chan[q]
        /\ LastWord(r)' \/ Done(r)
    <3>1. CASE \E item \in {"eof", "cut", "context"} : Offers(r, item)
      <4>1. PICK item \in {"eof", "cut", "context"} : Offers(r, item)  BY <3>1
      <4>2. item \in Items  BY DEF Items
      <4>3. /\ chan' \in [Requests -> Seq(Items)] /\ Len(chan'[r]) = 1
            /\ chan'[r] # << >> /\ Head(chan'[r]) = item
            /\ \A q \in Requests : q # r => chan'[q] = chan[q]
        BY <4>1, <4>2, ItemOffered
      <4>4. LastWord(r)'  BY <4>3 DEF LastWord
      <4> QED BY <4>3, <4>4
    <3>2. CASE Aborts(r)  BY <3>2, <1>0 DEF Aborts, UpstreamTypeOK
    <3> QED BY <3>1, <3>2, <1>2 DEF Stops
  <2>4. UpstreamTypeOK' /\ UpstreamKept(r)
    BY <2>1, <2>2, <2>3, CallMoves DEF UpstreamKept, UpstreamTypeOK
  <2> QED BY <2>1, <2>2, <2>3, <2>4, CallMoves, Told DEF AdapterOK, AdapterMove
<1> QED BY <1>1, <1>2

LEMMA AdapterMoves ==
  ASSUME UpstreamTypeOK, NEW r \in Requests, AdapterStep(r)
  PROVE  AdapterOK(r)
<1>0. call[r] \in CallType /\ told \in [Requests -> [good : Nat, bad : Nat]]  BY DEF UpstreamTypeOK
<1>1. CASE OpenAISends(r) \/ GoogleSends(r) \/ OpenAIOpens(r) \/ GoogleOpens(r)
  BY <1>1, CallResolves DEF OpenAISends, GoogleSends, OpenAIOpens, GoogleOpens, Dials
<1>2. CASE AnthropicSends(r) \/ AnthropicOpens(r)
  BY <1>2, CallResolves, CallPauses DEF AnthropicSends, AnthropicOpens, Dials
<1>3. CASE AnthropicPauses(r)  BY <1>3, CallPauses
<1>4. CASE RawOpens(r)
  <2>1. call[r].at = "dial"  BY <1>4 DEF RawOpens, Dials
  <2>2. CASE Breaks(r) \/ Refuses(r)  BY <2>1, <2>2, CallResolves
  <2>3. CASE Moves(r, [call[r] EXCEPT !.at = "opened"]) /\ UNCHANGED <<chan, told>>
    <3> DEFINE c == [call[r] EXCEPT !.at = "opened"]
    <3>1. c \in CallType /\ c.at = "opened" /\ c.reported = call[r].reported  BY <1>0 DEF CallType
    <3>2. Moves(r, c) /\ told' = told /\ chan' = chan  BY <2>3
    <3> HIDE DEF c
    <3> QED BY <2>1, <3>1, <3>2, CallMoves, Told DEF AdapterOK, AdapterMove, UpstreamKept, UpstreamTypeOK
  <2> QED BY <2>2, <2>3, <1>4 DEF RawOpens
<1>5. CASE OpenAIReads(r) \/ AnthropicReads(r)
  BY <1>5, BodyRead DEF OpenAIReads, AnthropicReads, Reads
<1>6. CASE GoogleReads(r)  BY <1>6, BodyRead DEF GoogleReads, Reads
<1>7. CASE RawReads(r)  BY <1>7, BodyRead DEF RawReads, Reads
<1>8. CASE Leaves(r)
  <2> DEFINE c == [call[r] EXCEPT !.at = "closed", !.set = call[r].usage]
  <2>1. c \in CallType /\ c.at = "closed" /\ c.reported = call[r].reported  BY <1>0 DEF CallType
  <2>2. Moves(r, c) /\ told' = told /\ chan' = chan /\ call[r].at = "leaving"  BY <1>8 DEF Leaves
  <2> HIDE DEF c
  <2> QED BY <2>1, <2>2, CallMoves, Told DEF AdapterOK, AdapterMove, UpstreamKept, UpstreamTypeOK
<1> QED BY <1>1, <1>2, <1>3, <1>4, <1>5, <1>6, <1>7, <1>8 DEF AdapterStep

-----------------------------------------------------------------------------
(* The proxy: its writes are typed and leave every other request alone.      *)

\* What a step that moves x leaves of the others; a trace id never changes.
StreamKept(x) ==
    /\ \A y \in Streams : y # x => pc'[y] = pc[y] /\ req'[y] = req[y]
    /\ \A y \in Streams : req'[y].trace = req[y].trace
    /\ \A q \in Requests : q # x => timer'[q] = timer[q] /\ entry'[q] = entry[q]

LEMMA Fields ==
  ASSUME StreamTypeOK, NEW r \in Requests
  PROVE  /\ UpstreamTypeOK /\ r \in Streams /\ pc[r] \in Places /\ req[r] \in ReqType
         /\ entry[r] \in Entry /\ timer[r] \in {"off", "armed", "fired"}
         /\ req[r].n \in 1 .. Len(req[r].route) /\ req[r].trace \in Traces
         /\ Terminal(r) \in Entry \ {"none", "ok"}
         /\ Adapter(r) \in Adapters
<1>1. /\ UpstreamTypeOK /\ r \in Streams /\ pc[r] \in Places /\ req[r] \in ReqType
      /\ entry[r] \in Entry /\ timer[r] \in {"off", "armed", "fired"}
      /\ req[r].n \in 1 .. Len(req[r].route)
  BY DEF StreamTypeOK, Streams
<1>2. req[r].trace \in Traces /\ req[r].route \in Routes  BY <1>1 DEF ReqType
<1>3. req[r].route \in Seq(Adapters)  BY <1>2, StreamAssumption
<1>4. Adapter(r) \in Adapters  BY <1>1, <1>3 DEF Adapter
<1>5. Terminal(r) \in Entry \ {"none", "ok"}  BY DEF Terminal, Entry
<1> QED BY <1>1, <1>2, <1>4, <1>5

\* The parts of a step, each typed and confined to the request it belongs to.
PlaceOK(x) == pc' \in [Streams -> Places] /\ \A y \in Streams : y # x => pc'[y] = pc[y]
RecordOK(x) == /\ req' \in [Streams -> ReqType]
               /\ \A y \in Streams : y # x => req'[y] = req[y]
               /\ \A y \in Streams : req'[y].trace = req[y].trace
               /\ \A q \in Requests : req'[q].n \in 1 .. Len(req'[q].route)
EntryOK(x) == entry' \in [Requests -> Entry] /\ \A q \in Requests : q # x => entry'[q] = entry[q]
TimerOK(x) == /\ timer' \in [Requests -> {"off", "armed", "fired"}]
              /\ \A q \in Requests : q # x => timer'[q] = timer[q]
SharedOK == streamBuf' \subseteq Traces /\ active' \subseteq Traces /\ streamCnt' \in Int
StepOK(x) == StreamTypeOK' /\ UpstreamKept(x) /\ StreamKept(x)

LEMMA Assembled ==
  ASSUME NEW x, UpstreamTypeOK', UpstreamKept(x), PlaceOK(x), RecordOK(x), EntryOK(x), TimerOK(x), SharedOK
  PROVE  StepOK(x)
  BY DEF StepOK, StreamTypeOK, StreamKept, PlaceOK, RecordOK, EntryOK, TimerOK, SharedOK

LEMMA LeftAlone ==
  ASSUME StreamTypeOK, NEW x
  PROVE  /\ UNCHANGED upstream => UpstreamTypeOK' /\ UpstreamKept(x)
         /\ UNCHANGED pc => PlaceOK(x)
         /\ UNCHANGED req => RecordOK(x)
         /\ UNCHANGED entry => EntryOK(x)
         /\ UNCHANGED timer => TimerOK(x)
         /\ UNCHANGED <<slots, active>> => SharedOK
<1>1. UNCHANGED upstream => UpstreamTypeOK' /\ UpstreamKept(x)
  BY DEF StreamTypeOK, UpstreamTypeOK, upstream, UpstreamKept
<1> QED BY <1>1 DEF StreamTypeOK, PlaceOK, RecordOK, EntryOK, TimerOK, SharedOK, slots

LEMMA Going ==
  ASSUME StreamTypeOK, NEW x \in Streams, NEW l \in Places, Go(x, l)
  PROVE  PlaceOK(x) /\ pc'[x] = l
  BY DEF StreamTypeOK, Go, PlaceOK

LEMMA Setting ==
  ASSUME StreamTypeOK, NEW r \in Requests, NEW c \in ReqType, Set(r, c),
         c.trace = req[r].trace, c.n \in 1 .. Len(c.route)
  PROVE  RecordOK(r) /\ req'[r] = c
<1>1. r \in Streams /\ req \in [Streams -> ReqType]  BY DEF StreamTypeOK, Streams
<1>2. /\ req' \in [Streams -> ReqType] /\ req'[r] = c
      /\ \A y \in Streams : y # r => req'[y] = req[y]
  BY <1>1 DEF Set
<1>3. ASSUME NEW q \in Requests PROVE req'[q].n \in 1 .. Len(req'[q].route)
  <2>1. CASE q = r  BY <2>1, <1>2
  <2>2. CASE q # r  BY <2>2, <1>2 DEF StreamTypeOK, Streams
  <2> QED BY <2>1, <2>2
<1> QED BY <1>2, <1>3 DEF RecordOK

LEMMA Logging ==
  ASSUME StreamTypeOK, NEW r \in Requests, NEW e \in Entry, Log(r, e)
  PROVE  EntryOK(r) /\ entry'[r] = e
  BY DEF StreamTypeOK, Log, EntryOK

LEMMA Timing ==
  ASSUME StreamTypeOK, NEW r \in Requests, NEW t \in {"off", "armed", "fired"}, Timer(r, t)
  PROVE  TimerOK(r) /\ timer'[r] = t
  BY DEF StreamTypeOK, Timer, TimerOK

\* The upstream's variables, as the proxy writes them.
LEMMA Dialling ==
  ASSUME UpstreamTypeOK, NEW r \in Requests, NEW a \in Adapters, NEW plain \in BOOLEAN, Dial(r, a, plain)
  PROVE  /\ UpstreamTypeOK' /\ UpstreamKept(r)
         /\ call'[r].at = "dial" /\ ~call'[r].reported /\ chan'[r] = << >> /\ told'[r].good = 0
         /\ ~cut'[r] /\ client' = client /\ told'[r].bad = 0
<1> DEFINE c == [NoCall EXCEPT !.adapter = a, !.plain = plain, !.at = "dial", !.left = Chunks]
<1>1. Chunks \in Nat  BY StreamAssumption
<1>2. c \in CallType /\ c.at = "dial" /\ c.reported = FALSE  BY <1>1 DEF CallType, NoCall
<1>3. /\ call' = [call EXCEPT ![r] = c] /\ chan' = [chan EXCEPT ![r] = << >>]
      /\ cut' = [cut EXCEPT ![r] = FALSE] /\ told' = [told EXCEPT ![r] = [good |-> 0, bad |-> 0]]
      /\ client' = client
  BY DEF Dial
<1> HIDE DEF c
<1>4. << >> \in Seq(Items) /\ Len(<< >>) = 0 /\ [good |-> 0, bad |-> 0] \in [good : Nat, bad : Nat]
  OBVIOUS
<1>5. /\ call' \in [Requests -> CallType] /\ call'[r] = c
      /\ chan' \in [Requests -> Seq(Items)] /\ chan'[r] = << >>
      /\ told' \in [Requests -> [good : Nat, bad : Nat]] /\ told'[r] = [good |-> 0, bad |-> 0]
      /\ cut' \in [Requests -> BOOLEAN] /\ cut'[r] = FALSE
      /\ UpstreamKept(r)
  BY <1>2, <1>3, <1>4 DEF UpstreamTypeOK, UpstreamKept
<1>6. \A q \in Requests : Len(chan'[q]) <= 1
  <2> TAKE q \in Requests
  <2>1. CASE q = r  BY <2>1, <1>4, <1>5
  <2>2. CASE q # r  BY <2>2, <1>5 DEF UpstreamTypeOK, UpstreamKept
  <2> QED BY <2>1, <2>2
<1> QED BY <1>2, <1>3, <1>5, <1>6 DEF UpstreamTypeOK

LEMMA HangingUp ==
  ASSUME UpstreamTypeOK, NEW r \in Requests, Hangup(r)
  PROVE  /\ UpstreamTypeOK' /\ UpstreamKept(r)
         /\ call'[r].at = "off" /\ chan'[r] = << >> /\ told'[r].good = 0 /\ told'[r].bad = 0
         /\ client' = client
<1>1. Chunks \in Nat  BY StreamAssumption
<1>2. NoCall \in CallType /\ NoCall.at = "off"  BY <1>1 DEF CallType, NoCall
<1>3. << >> \in Seq(Items) /\ Len(<< >>) = 0 /\ [good |-> 0, bad |-> 0] \in [good : Nat, bad : Nat]
  OBVIOUS
<1>4. /\ call' \in [Requests -> CallType] /\ call'[r] = NoCall
      /\ chan' \in [Requests -> Seq(Items)] /\ chan'[r] = << >>
      /\ told' \in [Requests -> [good : Nat, bad : Nat]] /\ told'[r] = [good |-> 0, bad |-> 0]
      /\ cut' = cut /\ client' = client
      /\ UpstreamKept(r)
  BY <1>2, <1>3 DEF UpstreamTypeOK, UpstreamKept, Hangup
<1>5. \A q \in Requests : Len(chan'[q]) <= 1
  <2> TAKE q \in Requests
  <2>1. CASE q = r  BY <2>1, <1>3, <1>4
  <2>2. CASE q # r  BY <2>2, <1>4 DEF UpstreamTypeOK, UpstreamKept
  <2> QED BY <2>1, <2>2
<1> QED BY <1>2, <1>4, <1>5 DEF UpstreamTypeOK

LEMMA Cancelling ==
  ASSUME UpstreamTypeOK, NEW r \in Requests, Cancels(r)
  PROVE  /\ cut' \in [Requests -> BOOLEAN] /\ client' = client /\ call' = call /\ chan' = chan
         /\ \A q \in Requests : q # r => cut'[q] = cut[q]
  BY DEF UpstreamTypeOK, Cancels

LEMMA Dropping ==
  ASSUME UpstreamTypeOK, NEW r \in Requests, chan[r] # << >>, Drops(r)
  PROVE  /\ chan' \in [Requests -> Seq(Items)] /\ client' = client /\ call' = call /\ cut' = cut
         /\ \A q \in Requests : q # r => chan'[q] = chan[q]
         /\ \A q \in Requests : Len(chan'[q]) <= 1
         /\ chan'[r] = << >> /\ Head(chan[r]) \in Items
<1>1. chan[r] \in Seq(Items) /\ Len(chan[r]) <= 1  BY DEF UpstreamTypeOK
<1>2. Tail(chan[r]) \in Seq(Items) /\ Len(Tail(chan[r])) = 0 /\ Tail(chan[r]) = << >> /\ Head(chan[r]) \in Items
  <2>0. \A s \in Seq(Items) : s # << >> => Len(s) # 0 /\ Len(s) \in Nat  BY EmptySeq, LenProperties
  <2>1. Len(chan[r]) \in Nat /\ Len(chan[r]) # 0  BY <2>0, <1>1
  <2>2. Tail(chan[r]) \in Seq(Items) /\ Len(Tail(chan[r])) = Len(chan[r]) - 1 /\ Head(chan[r]) \in Items
    BY <1>1, HeadTailProperties
  <2> DEFINE n == Len(chan[r])
  <2>3. n \in Nat /\ n # 0 /\ n <= 1 /\ Len(Tail(chan[r])) = n - 1  BY <1>1, <2>1, <2>2
  <2> HIDE DEF n
  <2>4. Len(Tail(chan[r])) = 0
    <3>1. n = 1  BY <2>3
    <3>2. Len(Tail(chan[r])) = 1 - 1  BY <3>1, <2>3
    <3> QED BY <3>2
  <2>5. \A s \in Seq(Items) : Len(s) = 0 => s = << >>  BY EmptySeq
  <2> QED BY <2>2, <2>4, <2>5
<1>3. /\ chan' \in [Requests -> Seq(Items)] /\ chan'[r] = << >>
      /\ \A q \in Requests : q # r => chan'[q] = chan[q]
  BY <1>2 DEF UpstreamTypeOK, Drops
<1>4. ASSUME NEW q \in Requests PROVE Len(chan'[q]) <= 1
  <2>1. CASE q = r  BY <2>1, <1>2, <1>3
  <2>2. CASE q # r  BY <2>2, <1>3 DEF UpstreamTypeOK
  <2> QED BY <2>1, <2>2
<1> QED BY <1>2, <1>3, <1>4 DEF Drops

LEMMA Reporting ==
  ASSUME UpstreamTypeOK, NEW r \in Requests, ReportError(r)
  PROVE  /\ told' \in [Requests -> [good : Nat, bad : Nat]] /\ told'[r].good = told[r].good
         /\ \A q \in Requests : q # r => told'[q] = told[q]
<1>1. /\ told \in [Requests -> [good : Nat, bad : Nat]]
      /\ told[r] \in [good : Nat, bad : Nat] /\ told[r].bad + 1 \in Nat
  BY DEF UpstreamTypeOK
<1>2. told' = [told EXCEPT ![r].bad = @ + 1]  BY DEF ReportError
<1> QED BY <1>1, <1>2

\* The success of a committed answer.
LEMMA Committing ==
  ASSUME UpstreamTypeOK, NEW r \in Requests,
         told' = [told EXCEPT ![r].good = IF call[r].reported THEN @ ELSE @ + 1]
  PROVE  /\ told' \in [Requests -> [good : Nat, bad : Nat]] /\ told'[r].bad = told[r].bad
         /\ told'[r].good = IF call[r].reported THEN told[r].good ELSE told[r].good + 1
         /\ \A q \in Requests : q # r => told'[q] = told[q]
<1>1. /\ told \in [Requests -> [good : Nat, bad : Nat]]
      /\ told[r] \in [good : Nat, bad : Nat] /\ told[r].good + 1 \in Nat /\ told[r].good \in Nat
  BY DEF UpstreamTypeOK
<1>2. CASE call[r].reported  BY <1>1, <1>2
<1>3. CASE ~call[r].reported  BY <1>1, <1>3
<1> QED BY <1>2, <1>3

\* Every step of handle, by the place it is taken at.
LEMMA EntersAndAsks ==
  ASSUME StreamTypeOK, NEW r \in Requests, Enter(r) \/ Attempt(r) \/ Ask(r) \/ Open(r) \/ Finish(r) \/ Leave(r)
  PROVE  StepOK(r)
<1>0. /\ UpstreamTypeOK /\ r \in Streams /\ req[r] \in ReqType /\ entry[r] \in Entry
      /\ req[r].trace \in Traces /\ Terminal(r) \in Entry /\ Adapter(r) \in Adapters
  BY Fields
<1>1. streamBuf \subseteq Traces /\ active \subseteq Traces /\ streamCnt \in Int  BY DEF StreamTypeOK
<1>2. CASE Enter(r)
  <2>1. SharedOK  BY <1>0, <1>1, <1>2 DEF Enter, SharedOK, slots
  <2>2. PlaceOK(r)  BY <1>0, <1>2, Going DEF Enter, Places
  <2>3. TimerOK(r)  BY <1>2, Timing DEF Enter
  <2> QED BY <1>2, <2>1, <2>2, <2>3, LeftAlone, Assembled DEF Enter
<1>3. CASE Attempt(r)
  <2>1. PlaceOK(r)
    <3>1. \E l \in {"after", "ask", "open"} : Go(r, l)  BY <1>3 DEF Attempt
    <3> QED BY <3>1, <1>0, Going DEF Places
  <2>2. EntryOK(r)
    <3>1. "timeout" \in Entry  BY DEF Entry
    <3> QED BY <3>1, <1>0, <1>3, Logging, LeftAlone DEF Attempt
  <2> QED BY <1>3, <2>1, <2>2, LeftAlone, Assembled DEF Attempt
<1>4. CASE Ask(r)
  <2>1. PlaceOK(r)
    <3>1. \E l \in {"after", "answer"} : Go(r, l)  BY <1>4 DEF Ask
    <3> QED BY <3>1, <1>0, Going DEF Places
  <2>2. UpstreamTypeOK' /\ UpstreamKept(r)
    BY <1>0, <1>4, Dialling, LeftAlone DEF Ask
  <2> QED BY <1>4, <2>1, <2>2, LeftAlone, Assembled DEF Ask
<1>5. CASE Open(r)
  <2>1. PlaceOK(r)
    <3>1. \E l \in {"after", "start"} : Go(r, l)  BY <1>5 DEF Open
    <3> QED BY <3>1, <1>0, Going DEF Places
  <2>2. UpstreamTypeOK' /\ UpstreamKept(r)
    <3>1. CASE UNCHANGED upstream  BY <3>1, LeftAlone
    <3>2. CASE ReportError(r) /\ UNCHANGED <<client, cut, call, chan>>
      BY <3>2, <1>0, Reporting DEF UpstreamTypeOK, UpstreamKept
    <3>3. CASE Dial(r, Adapter(r), FALSE)  BY <3>3, <1>0, Dialling
    <3> QED BY <3>1, <3>2, <3>3, <1>5 DEF Open
  <2> QED BY <1>5, <2>1, <2>2, LeftAlone, Assembled DEF Open, Quiet
<1>6. CASE Finish(r)
  <2>1. PlaceOK(r)  BY <1>0, <1>6, Going DEF Finish, Places
  <2>2. EntryOK(r)  BY <1>0, <1>6, Logging, LeftAlone DEF Finish
  <2> QED BY <1>6, <2>1, <2>2, LeftAlone, Assembled DEF Finish, Quiet
<1>7. CASE Leave(r)
  <2>1. PlaceOK(r)  BY <1>0, <1>7, Going DEF Leave, Places
  <2>2. EntryOK(r)
    <3>1. (IF entry[r] # "none" THEN entry[r] ELSE IF req[r].wrote THEN "ok" ELSE "failed") \in Entry
      BY <1>0 DEF Entry
    <3> QED BY <3>1, <1>7, Logging DEF Leave
  <2>3. SharedOK  BY <1>1, <1>7 DEF Leave, SharedOK, slots
  <2> QED BY <1>7, <2>1, <2>2, <2>3, LeftAlone, Assembled DEF Leave
<1> QED BY <1>2, <1>3, <1>4, <1>5, <1>6, <1>7

LEMMA AnsweredOrStarted ==
  ASSUME StreamTypeOK, NEW r \in Requests, Answered(r) \/ Started(r)
  PROVE  StepOK(r)
<1>0. /\ UpstreamTypeOK /\ r \in Streams /\ req[r] \in ReqType /\ entry[r] \in Entry
      /\ req[r].n \in 1 .. Len(req[r].route)
  BY Fields
<1>1. CASE Answered(r)
  <2>1. PlaceOK(r)
    <3>1. Go(r, "after")  BY <1>1 DEF Answered
    <3> QED BY <3>1, <1>0, Going DEF Places
  <2>2. RecordOK(r) /\ EntryOK(r) /\ UpstreamTypeOK' /\ UpstreamKept(r)
    <3>1. CASE UNCHANGED <<req, entry, told>>
      BY <3>1, <1>1, LeftAlone DEF Answered, upstream
    <3>2. CASE /\ \E written \in BOOLEAN :
                     /\ Set(r, [req[r] EXCEPT !.wrote = TRUE, !.ok = TRUE, !.whole = written, !.row = "tokens"])
                     /\ IF written THEN UNCHANGED entry ELSE Log(r, "client_disconnected")
               /\ told' = [told EXCEPT ![r].good = IF call[r].reported THEN @ ELSE @ + 1]
      <4>1. PICK written \in BOOLEAN :
               /\ Set(r, [req[r] EXCEPT !.wrote = TRUE, !.ok = TRUE, !.whole = written, !.row = "tokens"])
               /\ IF written THEN UNCHANGED entry ELSE Log(r, "client_disconnected")
        BY <3>2
      <4> DEFINE c == [req[r] EXCEPT !.wrote = TRUE, !.ok = TRUE, !.whole = written, !.row = "tokens"]
      <4>2. c \in ReqType /\ c.trace = req[r].trace /\ c.n = req[r].n /\ c.route = req[r].route
        BY <1>0 DEF ReqType
      <4>3. Set(r, c)  BY <4>1
      <4> HIDE DEF c
      <4>4. RecordOK(r)  BY <1>0, <4>2, <4>3, Setting
      <4>5. EntryOK(r)
        <5>1. "client_disconnected" \in Entry  BY DEF Entry
        <5> QED BY <5>1, <4>1, Logging, LeftAlone
      <4>6. UpstreamTypeOK' /\ UpstreamKept(r)
        <5>1. UNCHANGED <<client, cut, call, chan>>  BY <1>1 DEF Answered
        <5> QED BY <5>1, <3>2, <1>0, Committing DEF UpstreamTypeOK, UpstreamKept
      <4> QED BY <4>4, <4>5, <4>6
    <3> QED BY <3>1, <3>2, <1>1 DEF Answered
  <2> QED BY <1>1, <2>1, <2>2, LeftAlone, Assembled DEF Answered
<1>2. CASE Started(r)
  <2>1. PlaceOK(r)
    <3>1. \E l \in {"after", "count"} : Go(r, l)  BY <1>2 DEF Started
    <3> QED BY <3>1, <1>0, Going DEF Places
  <2>2. UpstreamTypeOK' /\ UpstreamKept(r)
    <3>1. CASE UNCHANGED upstream  BY <3>1, LeftAlone
    <3>2. CASE Cancels(r) /\ UNCHANGED told
      BY <3>2, <1>0, Cancelling DEF UpstreamTypeOK, UpstreamKept
    <3>3. CASE Cancels(r) /\ ReportError(r)
      BY <3>3, <1>0, Cancelling, Reporting DEF UpstreamTypeOK, UpstreamKept
    <3> QED BY <3>1, <3>2, <3>3, <1>2 DEF Started
  <2>3. UNCHANGED <<req, timer, entry, slots, active>>  BY <1>2 DEF Started, Quiet
  <2> QED BY <2>1, <2>2, <2>3, LeftAlone, Assembled
<1> QED BY <1>1, <1>2

LEMMA Ending ==
  ASSUME StreamTypeOK, NEW r \in Requests, NEW e \in Entry, NEW whole \in BOOLEAN, Ends(r, e, whole)
  PROVE  /\ PlaceOK(r) /\ RecordOK(r) /\ EntryOK(r) /\ TimerOK(r)
         /\ pc'[r] = "finalize" /\ entry'[r] = e
         /\ req'[r].ok /\ req'[r].whole = whole /\ req'[r].wrote = req[r].wrote
<1>0. r \in Streams /\ req[r] \in ReqType /\ req[r].n \in 1 .. Len(req[r].route)  BY Fields
<1> DEFINE c == [req[r] EXCEPT !.ok = TRUE, !.whole = whole, !.row = Bill(r)]
<1>1. Bill(r) \in {"none", "tokens", "bare"}  BY DEF Bill
<1>2. /\ c \in ReqType /\ c.trace = req[r].trace /\ c.n = req[r].n /\ c.route = req[r].route
      /\ c.ok /\ c.whole = whole /\ c.wrote = req[r].wrote
  BY <1>0, <1>1 DEF ReqType
<1>3. Set(r, c) /\ Log(r, e) /\ Timer(r, "off") /\ Go(r, "finalize")  BY DEF Ends
<1> HIDE DEF c
<1>4. RecordOK(r) /\ req'[r] = c  BY <1>0, <1>2, <1>3, Setting
<1>5. PlaceOK(r) /\ pc'[r] = "finalize"  BY <1>0, <1>3, Going DEF Places
<1>6. EntryOK(r) /\ entry'[r] = e /\ TimerOK(r)  BY <1>3, Logging, Timing
<1> QED BY <1>2, <1>4, <1>5, <1>6

LEMMA Failing ==
  ASSUME StreamTypeOK, NEW r \in Requests, NEW e \in Entry, Fails(r, e)
  PROVE  /\ PlaceOK(r) /\ RecordOK(r) /\ EntryOK(r) /\ TimerOK(r)
         /\ pc'[r] = "finalize" /\ entry'[r] = e /\ req' = req
<1>0. r \in Streams  BY Fields
<1>1. Log(r, e) /\ Go(r, "finalize") /\ UNCHANGED <<req, timer>>  BY DEF Fails
<1> QED BY <1>0, <1>1, Going, Logging, LeftAlone DEF Places

\* An item is taken from the channel, and the pool is told of it or not.
LEMMA Taking ==
  ASSUME UpstreamTypeOK, NEW r \in Requests, chan[r] # << >>, Drops(r),
         told' \in [Requests -> [good : Nat, bad : Nat]],
         \A q \in Requests : q # r => told'[q] = told[q]
  PROVE  UpstreamTypeOK' /\ UpstreamKept(r)
  BY Dropping DEF UpstreamTypeOK, UpstreamKept

LEMMA FirstChunk ==
  ASSUME StreamTypeOK, NEW r \in Requests, FirstFails(r) \/ Commit(r)
  PROVE  StepOK(r)
<1>0. /\ UpstreamTypeOK /\ r \in Streams /\ req[r] \in ReqType /\ entry[r] \in Entry
      /\ req[r].n \in 1 .. Len(req[r].route) /\ Terminal(r) \in Entry
      /\ told \in [Requests -> [good : Nat, bad : Nat]]
  BY Fields DEF UpstreamTypeOK
<1>1. SharedOK  BY LeftAlone DEF FirstFails, Commit, Quiet
<1>2. CASE FirstFails(r)
  <2>1. PICK e \in Entry : Fails(r, e)
    <3>1. /\ (IF Relay(r) /\ Head(chan[r]) = "eof" THEN "server_error" ELSE entry[r]) \in Entry
          /\ "timeout" \in Entry
      BY <1>0 DEF Entry
    <3> QED BY <3>1, <1>0, <1>2 DEF FirstFails
  <2>2. UpstreamTypeOK' /\ UpstreamKept(r)
    <3>1. CASE UNCHANGED upstream  BY <3>1, LeftAlone
    <3>2. CASE Cancels(r) /\ ReportError(r)
      BY <3>2, <1>0, Cancelling, Reporting DEF UpstreamTypeOK, UpstreamKept
    <3>3. CASE chan[r] # << >> /\ Drops(r) /\ (UNCHANGED told \/ ReportError(r))
      BY <3>3, <1>0, Taking, Reporting
    <3> QED BY <3>1, <3>2, <3>3, <1>2 DEF FirstFails
  <2> QED BY <1>1, <2>1, <2>2, Failing, Assembled
<1>3. CASE Commit(r)
  <2>1. UpstreamTypeOK' /\ UpstreamKept(r)
    BY <1>0, <1>3, Committing, Taking DEF Commit, Arrives
  <2>2. CASE /\ Log(r, Noted(r, Head(chan[r])))
             /\ Set(r, [req[r] EXCEPT !.wrote = TRUE])
             /\ Timer(r, "armed")
             /\ Go(r, "forward")
    <3> DEFINE c == [req[r] EXCEPT !.wrote = TRUE]
    <3>1. c \in ReqType /\ c.trace = req[r].trace /\ c.n = req[r].n /\ c.route = req[r].route
      BY <1>0 DEF ReqType
    <3>2. Set(r, c)  BY <2>2
    <3> HIDE DEF c
    <3>3. RecordOK(r)  BY <1>0, <3>1, <3>2, Setting
    <3>4. Noted(r, Head(chan[r])) \in Entry  BY <1>0 DEF Noted, Entry
    <3>5. EntryOK(r) /\ TimerOK(r)  BY <3>4, <2>2, Logging, Timing
    <3>6. PlaceOK(r)  BY <1>0, <2>2, Going DEF Places
    <3> QED BY <1>1, <2>1, <3>3, <3>5, <3>6, Assembled
  <2>3. CASE /\ Log(r, "client_disconnected")
             /\ Set(r, [req[r] EXCEPT !.wrote = TRUE, !.ok = TRUE, !.row = "bare"])
             /\ Timer(r, "off")
             /\ Go(r, "finalize")
    <3> DEFINE c == [req[r] EXCEPT !.wrote = TRUE, !.ok = TRUE, !.row = "bare"]
    <3>1. c \in ReqType /\ c.trace = req[r].trace /\ c.n = req[r].n /\ c.route = req[r].route
      BY <1>0 DEF ReqType
    <3>2. Set(r, c)  BY <2>3
    <3> HIDE DEF c
    <3>3. RecordOK(r)  BY <1>0, <3>1, <3>2, Setting
    <3>4. "client_disconnected" \in Entry  BY DEF Entry
    <3>5. EntryOK(r) /\ TimerOK(r)  BY <3>4, <2>3, Logging, Timing
    <3>6. PlaceOK(r)  BY <1>0, <2>3, Going DEF Places
    <3> QED BY <1>1, <2>1, <3>3, <3>5, <3>6, Assembled
  <2> QED BY <2>2, <2>3, <1>3 DEF Commit
<1> QED BY <1>2, <1>3

LEMMA Forwards ==
  ASSUME StreamTypeOK, NEW r \in Requests,
         Forward(r) \/ WriteFails(r) \/ ForwardEnds(r) \/ ForwardBreaks(r)
  PROVE  StepOK(r)
<1>0. /\ UpstreamTypeOK /\ r \in Streams /\ req[r] \in ReqType /\ entry[r] \in Entry
      /\ req[r].n \in 1 .. Len(req[r].route) /\ Terminal(r) \in Entry
      /\ told \in [Requests -> [good : Nat, bad : Nat]]
  BY Fields DEF UpstreamTypeOK
<1>1. SharedOK  BY LeftAlone DEF Forward, WriteFails, ForwardEnds, ForwardBreaks, Quiet
<1>2. UpstreamTypeOK' /\ UpstreamKept(r)
  <2>1. \/ UNCHANGED upstream
        \/ chan[r] # << >> /\ Drops(r) /\ told' = told
    BY DEF Forward, WriteFails, ForwardEnds, ForwardBreaks, Arrives
  <2> QED BY <2>1, <1>0, Taking, LeftAlone
<1>3. CASE Forward(r)
  <2>1. Noted(r, Head(chan[r])) \in Entry  BY <1>0 DEF Noted, Entry
  <2>2. EntryOK(r) /\ TimerOK(r)  BY <2>1, <1>3, Logging, Timing DEF Forward
  <2>3. PlaceOK(r) /\ RecordOK(r)  BY <1>0, <1>3, Going, LeftAlone DEF Forward, Places
  <2> QED BY <1>1, <1>2, <2>2, <2>3, Assembled
<1>4. CASE WriteFails(r)
  <2> DEFINE c == [req[r] EXCEPT !.ok = TRUE, !.row = "bare"]
  <2>1. c \in ReqType /\ c.trace = req[r].trace /\ c.n = req[r].n /\ c.route = req[r].route
    BY <1>0 DEF ReqType
  <2>2. Set(r, c)  BY <1>4 DEF WriteFails
  <2> HIDE DEF c
  <2>3. RecordOK(r)  BY <1>0, <2>1, <2>2, Setting
  <2>4. "client_disconnected" \in Entry  BY DEF Entry
  <2>5. EntryOK(r) /\ TimerOK(r)  BY <2>4, <1>4, Logging, Timing DEF WriteFails
  <2>6. PlaceOK(r)  BY <1>0, <1>4, Going DEF WriteFails, Places
  <2> QED BY <1>1, <1>2, <2>3, <2>5, <2>6, Assembled
<1>5. CASE ForwardEnds(r) \/ ForwardBreaks(r)
  <2>1. /\ (IF Gone(r) THEN Terminal(r) ELSE entry[r]) \in Entry
        /\ (IF Head(chan[r]) = "context" THEN Terminal(r) ELSE "stream_interrupted") \in Entry
        /\ (IF Gone(r) THEN Terminal(r) ELSE "stream_idle_timeout") \in Entry
    BY <1>0 DEF Entry
  <2>2. \E e \in Entry, whole \in BOOLEAN : Ends(r, e, whole)
    BY <2>1, <1>0, <1>5 DEF ForwardEnds, ForwardBreaks
  <2> QED BY <1>1, <1>2, <2>2, Ending, Assembled
<1> QED BY <1>3, <1>4, <1>5

LEMMA TriesAgain ==
  ASSUME StreamTypeOK, NEW r \in Requests, TriesOn(r)
  PROVE  StepOK(r)
<1>0. /\ UpstreamTypeOK /\ r \in Streams /\ req[r] \in ReqType
      /\ req[r].n \in 1 .. Len(req[r].route)
  BY Fields
<1>1. SharedOK /\ EntryOK(r)  BY LeftAlone DEF TriesOn, Quiet
<1>2. UpstreamTypeOK' /\ UpstreamKept(r)  BY <1>0, HangingUp DEF TriesOn
<1>3. PlaceOK(r)  BY <1>0, Going DEF TriesOn, Places
<1>4. CASE Set(r, [req[r] EXCEPT !.again = TRUE]) /\ UNCHANGED timer
  <2> DEFINE c == [req[r] EXCEPT !.again = TRUE]
  <2>1. c \in ReqType /\ c.trace = req[r].trace /\ c.n = req[r].n /\ c.route = req[r].route
    BY <1>0 DEF ReqType
  <2>2. Set(r, c)  BY <1>4
  <2> HIDE DEF c
  <2>3. RecordOK(r)  BY <1>0, <2>1, <2>2, Setting
  <2> QED BY <1>1, <1>2, <1>3, <1>4, <2>3, LeftAlone, Assembled
<1>5. CASE /\ req[r].n < Len(req[r].route)
           /\ Set(r, [req[r] EXCEPT !.n = @ + 1, !.again = FALSE])
           /\ Timer(r, IF req[r].route[req[r].n + 1] \in Relays /\ ~req[r].plain THEN "armed" ELSE "off")
  <2> DEFINE c == [req[r] EXCEPT !.n = @ + 1, !.again = FALSE]
  <2>1. req[r].route \in Seq(Adapters) /\ Len(req[r].route) \in Nat
    BY <1>0, StreamAssumption, LenProperties DEF ReqType
  <2>2. req[r].n + 1 \in 1 .. Len(req[r].route) /\ req[r].n + 1 \in Nat  BY <1>0, <1>5, <2>1
  <2>3. c \in ReqType /\ c.trace = req[r].trace /\ c.n = req[r].n + 1 /\ c.route = req[r].route
    BY <1>0, <2>2 DEF ReqType
  <2>4. Set(r, c)  BY <1>5
  <2> HIDE DEF c
  <2>5. RecordOK(r)  BY <2>2, <2>3, <2>4, Setting
  <2>6. TimerOK(r)  BY <1>5, Timing
  <2> QED BY <1>1, <1>2, <1>3, <2>5, <2>6, Assembled
<1> QED BY <1>4, <1>5 DEF TriesOn

LEMMA SlotMoves ==
  ASSUME StreamTypeOK, NEW x \in Streams, SlotStep(x)
  PROVE  PlaceOK(x) /\ streamBuf' \subseteq Traces /\ streamCnt' \in Int
<1>1. req[x].trace \in Traces /\ streamBuf \subseteq Traces /\ streamCnt \in Int
  BY DEF StreamTypeOK, ReqType
<1>2. \E l \in {"store", "refused", "first", "uncount", "after"} : Go(x, l)
  BY DEF SlotStep, SlotCounts, SlotStores, SlotTaken, SlotUncounts
<1>3. PlaceOK(x)  BY <1>2, Going DEF Places
<1> QED BY <1>1, <1>3 DEF SlotStep, SlotCounts, SlotStores, SlotTaken, SlotUncounts

LEMMA HandleTyped ==
  ASSUME StreamTypeOK, NEW r \in Requests, Handle(r)
  PROVE  StepOK(r)
<1>1. CASE SlotStep(r) /\ UNCHANGED <<upstream, req, timer, entry, active>>
  <2>1. r \in Streams  BY Fields
  <2>2. SharedOK  BY <2>1, <1>1, SlotMoves DEF SharedOK, StreamTypeOK
  <2> QED BY <2>1, <2>2, <1>1, SlotMoves, LeftAlone, Assembled
<1> QED BY <1>1, EntersAndAsks, AnsweredOrStarted, FirstChunk, Forwards, TriesAgain DEF Handle

\* What the adapter, the timer, the client and the other streams do.
LEMMA OthersTyped ==
  ASSUME StreamTypeOK
  PROVE  /\ \A r \in Requests : Fires(r) => StepOK(r)
         /\ \A r \in Requests : AdapterStep(r) /\ UNCHANGED <<proxy, slots, active>> => StepOK(r)
         /\ \A r \in Requests : ClientGoes(r) /\ UNCHANGED <<proxy, slots, active>> => StepOK(r)
         /\ \A o \in Others : Other(o) /\ UNCHANGED <<upstream, req, timer, entry>> => StepOK(o)
<1>0. UpstreamTypeOK  BY DEF StreamTypeOK
<1>1. ASSUME NEW r \in Requests, Fires(r) PROVE StepOK(r)
  <2>1. TimerOK(r)  BY <1>1, Timing DEF Fires
  <2> QED BY <1>1, <2>1, LeftAlone, Assembled DEF Fires
<1>2. ASSUME NEW r \in Requests, AdapterStep(r), UNCHANGED <<proxy, slots, active>> PROVE StepOK(r)
  <2>1. UpstreamTypeOK' /\ UpstreamKept(r)  BY <1>0, <1>2, AdapterMoves DEF AdapterOK
  <2> QED BY <1>2, <2>1, LeftAlone, Assembled DEF proxy
<1>3. ASSUME NEW r \in Requests, ClientGoes(r), UNCHANGED <<proxy, slots, active>> PROVE StepOK(r)
  <2>1. UpstreamTypeOK' /\ UpstreamKept(r)  BY <1>0, <1>3 DEF ClientGoes, UpstreamTypeOK, UpstreamKept
  <2> QED BY <1>3, <2>1, LeftAlone, Assembled DEF proxy
<1>4. ASSUME NEW o \in Others, Other(o), UNCHANGED <<upstream, req, timer, entry>> PROVE StepOK(o)
  <2>1. o \in Streams /\ req[o].trace \in Traces  BY DEF Streams, StreamTypeOK, ReqType
  <2>2. PlaceOK(o)
    <3>1. SlotStep(o) \/ \E l \in {"count", "finalize", "ended"} : Go(o, l)  BY <1>4 DEF Other
    <3> QED BY <3>1, <2>1, SlotMoves, Going DEF Places
  <2>3. SharedOK  BY <1>4, <2>1, SlotMoves DEF Other, SharedOK, StreamTypeOK, slots
  <2> QED BY <1>4, <2>2, <2>3, LeftAlone, Assembled
<1> QED BY <1>1, <1>2, <1>3, <1>4

-----------------------------------------------------------------------------
(* The theorem of types, and a step seen from one request.                   *)

LEMMA InitTyped ==
  StreamInit => StreamTypeOK
<1> SUFFICES ASSUME StreamInit PROVE StreamTypeOK
  OBVIOUS
<1>1. UpstreamTypeOK
  <2>1. NoCall \in CallType  BY DEF NoCall, CallType
  <2>2. << >> \in Seq(Items) /\ Len(<< >>) = 0  OBVIOUS
  <2> QED BY <2>1, <2>2 DEF StreamInit, UpstreamInit, UpstreamTypeOK
<1>2. PICK trace \in Tracings, way \in Routes, plain \in BOOLEAN :
         req = [x \in Streams |-> [trace |-> trace[x], route |-> way, n |-> 1, plain |-> plain, again |-> FALSE,
                                   wrote |-> FALSE, whole |-> FALSE, ok |-> FALSE, row |-> "none"]]
  BY DEF StreamInit
<1>3. \A x \in Streams : trace[x] \in Traces  BY DEF Traces
<1>4. req \in [Streams -> ReqType]  BY <1>2, <1>3 DEF ReqType
<1>5. \A r \in Requests : req[r].n \in 1 .. Len(req[r].route)
  <2>1. way \in Seq(Adapters) /\ way # << >>  BY StreamAssumption
  <2>2. Len(way) \in Nat \ {0}  BY <2>1, EmptySeq
  <2>3. \A r \in Requests : req[r].n = 1 /\ req[r].route = way  BY <1>2 DEF Streams
  <2>4. 1 \in 1 .. Len(way)
    <3>1. \A n \in Nat \ {0} : 1 \in 1 .. n  OBVIOUS
    <3> QED BY <2>2, <3>1
  <2> QED BY <2>3, <2>4
<1> QED BY <1>1, <1>4, <1>5 DEF StreamInit, StreamTypeOK, Places, Entry

\* Every step belongs to at most one request or other stream.
LEMMA Steps ==
  ASSUME StreamTypeOK, [StreamNext]_vars
  PROVE  \/ UNCHANGED vars
         \/ \E x \in Streams : StepOK(x)
<1>1. \A r \in Requests : r \in Streams  BY DEF Streams
<1>2. \A o \in Others : o \in Streams  BY DEF Streams
<1> QED BY <1>1, <1>2, HandleTyped, OthersTyped DEF StreamNext, AllEnded

(* Everything a request, its call and its entry are made of keeps its type,  *)
(* and a request never runs past its candidates: what the handlers write     *)
(* together stays within what the handlers expect.                           *)
THEOREM StreamTypes == StreamSpec => []StreamTypeOK
<1>1. StreamTypeOK /\ [StreamNext]_vars => StreamTypeOK'
  <2> SUFFICES ASSUME StreamTypeOK, [StreamNext]_vars PROVE StreamTypeOK'
    OBVIOUS
  <2>1. CASE UNCHANGED vars
    BY <2>1 DEF vars, proxy, slots, upstream, StreamTypeOK, UpstreamTypeOK
  <2> QED BY <2>1, Steps DEF StepOK
<1> QED BY <1>1, InitTyped, PTL DEF StreamSpec

\* What a step leaves as it was if it belongs to somebody else.
RequestSame(r) == /\ pc'[r] = pc[r] /\ req'[r] = req[r] /\ timer'[r] = timer[r] /\ entry'[r] = entry[r]
                  /\ client'[r] = client[r] /\ cut'[r] = cut[r] /\ call'[r] = call[r]
                  /\ chan'[r] = chan[r] /\ told'[r] = told[r]

LEMMA SeenFrom ==
  ASSUME StreamTypeOK, [StreamNext]_vars, NEW r \in Requests
  PROVE  \/ RequestSame(r)
         \/ Handle(r) \/ Fires(r)
         \/ (AdapterStep(r) \/ ClientGoes(r)) /\ UNCHANGED <<proxy, slots, active>>
<1>0. r \in Streams /\ r \notin Others  BY StreamAssumption DEF Streams
<1>1. CASE UNCHANGED vars  BY <1>1 DEF vars, proxy, slots, upstream, RequestSame
<1>2. ASSUME NEW q \in Requests, q # r,
             \/ Handle(q) \/ Fires(q)
             \/ ~At(q, "ended") /\ (AdapterStep(q) \/ ClientGoes(q)) /\ UNCHANGED <<proxy, slots, active>>
      PROVE  RequestSame(r)
  <2>1. StepOK(q)  BY <1>2, HandleTyped, OthersTyped
  <2> QED BY <1>0, <1>2, <2>1 DEF StepOK, UpstreamKept, StreamKept, RequestSame
<1>3. ASSUME NEW o \in Others, Other(o), UNCHANGED <<upstream, req, timer, entry>>
      PROVE  RequestSame(r)
  <2>1. StepOK(o)  BY <1>3, OthersTyped
  <2> QED BY <1>0, <2>1 DEF StepOK, UpstreamKept, StreamKept, RequestSame
<1> QED BY <1>1, <1>2, <1>3 DEF StreamNext, AllEnded

-----------------------------------------------------------------------------
(* What went to the client and what was reported, for one request.           *)

OneInv(r) == ChannelInv(r) /\ AnswerInv(r) /\ CountInv(r)

LEMMA SameKeeps ==
  ASSUME NEW r, OneInv(r), RequestSame(r) PROVE OneInv(r)'
  BY DEF OneInv, ChannelInv, AnswerInv, CountInv, RequestSame, LastWord, Gone

LEMMA AdapterKeeps ==
  ASSUME StreamTypeOK, NEW r \in Requests, OneInv(r), AdapterStep(r), UNCHANGED proxy
  PROVE  OneInv(r)'
<1>0. UpstreamTypeOK /\ told[r].good \in Nat /\ r \in Streams
  BY Fields DEF UpstreamTypeOK
<1>1. AdapterMove(r)  BY <1>0, AdapterMoves DEF AdapterOK
<1>2. pc' = pc /\ req' = req /\ entry' = entry  BY DEF proxy
<1>3. client' = client /\ cut' = cut  BY <1>1 DEF AdapterMove
<1>4. AnswerInv(r)'  BY <1>2 DEF OneInv, AnswerInv
<1>5. CountInv(r)'
  <2>1. told[r].good = 0 \/ told[r].good = 1  BY <1>0 DEF OneInv, CountInv
  <2> QED BY <2>1, <1>1, <1>2 DEF OneInv, CountInv, AdapterMove
<1>6. ChannelInv(r)'
  <2>1. CASE call[r].at = "opened" /\ call'[r].at \in {"opened", "leaving"}
    <3>1. pc[r] \in Reading \cup {"start"} => ~cut[r]  BY DEF OneInv, ChannelInv
    <3>2. call'[r].at = "leaving" => LastWord(r)' \/ Done(r)  BY <1>1, <2>1 DEF AdapterMove
    <3>3. pc[r] \in Reading \cup {"start"} /\ Done(r) => Gone(r)'  BY <3>1, <1>3 DEF Done, Gone
    <3> QED BY <2>1, <3>1, <3>2, <3>3, <1>2, <1>3 DEF OneInv, ChannelInv
  <2>2. CASE ~(call[r].at = "opened" /\ call'[r].at \in {"opened", "leaving"})
    <3>1. /\ chan'[r] = chan[r]
          /\ \/ call[r].at \in {"dial", "pause"} /\ call'[r].at \in {"dial", "pause", "failed"}
             \/ call[r].at = "dial" /\ call'[r].at \in {"answered", "opened"}
             \/ call[r].at = "leaving" /\ call'[r].at = "closed"
      BY <1>1, <2>2 DEF AdapterMove
    <3> QED BY <3>1, <1>2, <1>3 DEF OneInv, ChannelInv, LastWord, Gone
  <2> QED BY <2>1, <2>2
<1> QED BY <1>4, <1>5, <1>6 DEF OneInv

LEMMA EnvironmentKeeps ==
  ASSUME StreamTypeOK, NEW r \in Requests, OneInv(r),
         Fires(r) \/ (ClientGoes(r) /\ UNCHANGED <<proxy, slots, active>>)
  PROVE  OneInv(r)'
<1>1. /\ UNCHANGED <<pc, req, entry, cut, call, chan, told>>
      /\ Gone(r) => Gone(r)'
  BY DEF Fires, ClientGoes, proxy, upstream, Gone
<1> QED BY <1>1 DEF OneInv, ChannelInv, AnswerInv, CountInv, LastWord

LEMMA CallsKeep ==
  ASSUME StreamTypeOK, NEW r \in Requests, OneInv(r),
         Enter(r) \/ Attempt(r) \/ Ask(r) \/ Answered(r) \/ Open(r) \/ Started(r)
  PROVE  OneInv(r)'
<1>0. /\ UpstreamTypeOK /\ r \in Streams /\ req[r] \in ReqType /\ entry[r] \in Entry
      /\ Terminal(r) \in Entry \ {"none", "ok"} /\ Adapter(r) \in Adapters
      /\ told[r].good \in Nat
      /\ req \in [Streams -> ReqType]
  BY Fields DEF UpstreamTypeOK, StreamTypeOK
<1>1. CASE Enter(r)
  <2>1. pc'[r] = "attempt" /\ pc[r] = "idle"  BY <1>0, <1>1, Going DEF Enter, At, Places
  <2>2. UNCHANGED <<upstream, req, entry>>  BY <1>1 DEF Enter
  <2> QED BY <2>1, <2>2 DEF OneInv, ChannelInv, AnswerInv, CountInv, LastWord, Gone, upstream,
                            Calling, Opening, Reading, Over
<1>2. CASE Attempt(r)
  <2>1. pc[r] = "attempt" /\ pc'[r] \in {"after", "ask", "open"}
    BY <1>0, <1>2, Going DEF Attempt, At, Places
  <2>2. UNCHANGED <<upstream, req>>  BY <1>2 DEF Attempt
  <2>3. entry'[r] = entry[r] \/ entry'[r] \notin {"none", "ok"}
    BY <1>0, <1>2, Logging DEF Attempt, Entry
  <2> QED BY <2>1, <2>2, <2>3 DEF OneInv, ChannelInv, AnswerInv, CountInv, LastWord, Gone, upstream,
                                  Calling, Opening, Reading, Over
<1>3. CASE Ask(r)
  <2>1. pc[r] = "ask" /\ UNCHANGED <<req, entry>>  BY <1>3 DEF Ask, At
  <2>2. CASE UNCHANGED upstream /\ Go(r, "after")
    <3>1. pc'[r] = "after"  BY <1>0, <2>2, Going DEF Places
    <3> QED BY <3>1, <2>1, <2>2 DEF OneInv, ChannelInv, AnswerInv, CountInv, LastWord, Gone, upstream,
                                    Calling, Opening, Reading, Over
  <2>3. CASE Dial(r, Adapter(r), TRUE) /\ Go(r, "answer")
    <3>1. pc'[r] = "answer"  BY <1>0, <2>3, Going DEF Places
    <3>2. call'[r].at = "dial" /\ ~call'[r].reported /\ chan'[r] = << >> /\ told'[r].good = 0
      BY <1>0, <2>3, Dialling
    <3> QED BY <3>1, <3>2, <2>1 DEF OneInv, ChannelInv, AnswerInv, CountInv, Calling, Opening, Reading, Over
  <2> QED BY <2>2, <2>3, <1>3 DEF Ask
<1>4. CASE Answered(r)
  <2>1. pc[r] = "answer" /\ pc'[r] = "after" /\ UNCHANGED <<client, cut, call, chan>>
    BY <1>0, <1>4, Going DEF Answered, At, Places
  <2>2. CASE UNCHANGED <<req, entry, told>>
    BY <2>1, <2>2 DEF OneInv, ChannelInv, AnswerInv, CountInv, LastWord, Gone,
                      Calling, Opening, Reading, Over
  <2>3. CASE /\ call[r].at = "answered"
             /\ \E written \in BOOLEAN :
                   /\ Set(r, [req[r] EXCEPT !.wrote = TRUE, !.ok = TRUE, !.whole = written, !.row = "tokens"])
                   /\ IF written THEN UNCHANGED entry ELSE Log(r, "client_disconnected")
             /\ told' = [told EXCEPT ![r].good = IF call[r].reported THEN @ ELSE @ + 1]
    <3>1. PICK written \in BOOLEAN :
             /\ Set(r, [req[r] EXCEPT !.wrote = TRUE, !.ok = TRUE, !.whole = written, !.row = "tokens"])
             /\ IF written THEN UNCHANGED entry ELSE Log(r, "client_disconnected")
      BY <2>3
    <3>2. req'[r].wrote /\ req'[r].ok /\ req'[r].whole = written
      BY <1>0, <3>1 DEF Set, ReqType
    <3>3. entry[r] # "ok" /\ (entry'[r] = entry[r] \/ entry'[r] = "client_disconnected")
      BY <3>1, <2>1, Logging DEF OneInv, AnswerInv, Entry
    <3>4. ~written => entry'[r] = "client_disconnected"  BY <3>1, Logging DEF Entry
    <3>5. told'[r].good = IF call[r].reported THEN told[r].good ELSE told[r].good + 1
      BY <1>0, <2>3, Committing
    <3>6. told'[r].good = 1
      <4>1. told[r].good = IF call[r].reported THEN 1 ELSE 0
        BY <2>1 DEF OneInv, CountInv
      <4> QED BY <4>1, <3>5
    <3>7. AnswerInv(r)'  BY <2>1, <3>2, <3>3, <3>4 DEF AnswerInv, Calling, Opening, Over
    <3>8. CountInv(r)'  BY <2>1, <2>3, <3>6 DEF CountInv, Opening
    <3>9. ChannelInv(r)'
      BY <2>1 DEF OneInv, ChannelInv, LastWord, Gone, Reading
    <3> QED BY <3>7, <3>8, <3>9 DEF OneInv
  <2> QED BY <2>2, <2>3, <1>4 DEF Answered
<1>5. CASE Open(r)
  <2>1. pc[r] = "open" /\ UNCHANGED <<req, entry>>  BY <1>5 DEF Open, At
  <2>2. CASE UNCHANGED upstream /\ Go(r, "after")
    <3>1. pc'[r] = "after"  BY <1>0, <2>2, Going DEF Places
    <3> QED BY <3>1, <2>1, <2>2 DEF OneInv, ChannelInv, AnswerInv, CountInv, LastWord, Gone, upstream,
                                    Calling, Opening, Reading, Over
  <2>3. CASE ReportError(r) /\ UNCHANGED <<client, cut, call, chan>> /\ Go(r, "after")
    <3>1. pc'[r] = "after" /\ told'[r].good = told[r].good  BY <1>0, <2>3, Going, Reporting DEF Places
    <3> QED BY <3>1, <2>1, <2>3 DEF OneInv, ChannelInv, AnswerInv, CountInv, LastWord, Gone,
                                    Calling, Opening, Reading, Over
  <2>4. CASE Dial(r, Adapter(r), FALSE) /\ Go(r, "start")
    <3>1. pc'[r] = "start"  BY <1>0, <2>4, Going DEF Places
    <3>2. /\ call'[r].at = "dial" /\ ~call'[r].reported /\ chan'[r] = << >> /\ told'[r].good = 0
          /\ ~cut'[r]
      BY <1>0, <2>4, Dialling
    <3> QED BY <3>1, <3>2, <2>1 DEF OneInv, ChannelInv, AnswerInv, CountInv, Calling, Opening, Reading, Over
  <2> QED BY <2>2, <2>3, <2>4, <1>5 DEF Open
<1>6. CASE Started(r)
  <2>1. pc[r] = "start" /\ UNCHANGED <<req, entry>>  BY <1>6 DEF Started, At
  <2>2. CASE call[r].at \in {"opened", "leaving", "closed"} /\ UNCHANGED upstream /\ Go(r, "count")
    <3>1. pc'[r] = "count"  BY <1>0, <2>2, Going DEF Places
    <3> QED BY <3>1, <2>1, <2>2 DEF OneInv, ChannelInv, AnswerInv, CountInv, LastWord, Gone, upstream,
                                    Calling, Opening, Reading, Over
  <2>3. CASE Cancels(r) /\ (UNCHANGED told \/ ReportError(r)) /\ Go(r, "after")
    <3>1. /\ pc'[r] = "after" /\ told'[r].good = told[r].good /\ call' = call /\ chan' = chan
      BY <1>0, <2>3, Going, Reporting, Cancelling DEF Places
    <3> QED BY <3>1, <2>1 DEF OneInv, ChannelInv, AnswerInv, CountInv,
                              Calling, Opening, Reading, Over
  <2> QED BY <2>2, <2>3, <1>6 DEF Started
<1> QED BY <1>1, <1>2, <1>3, <1>4, <1>5, <1>6

LEMMA SlotKeeps ==
  ASSUME StreamTypeOK, NEW r \in Requests, OneInv(r),
         SlotStep(r), UNCHANGED <<upstream, req, timer, entry, active>>
  PROVE  OneInv(r)'
<1>0. r \in Streams  BY DEF Streams
<1>1. \/ pc[r] = "count" /\ pc'[r] \in {"store", "refused"}
      \/ pc[r] \in {"store", "refused"} /\ pc'[r] = "first"
      \/ pc[r] \in {"finalize", "uncount"} /\ pc'[r] \in {"uncount", "after"}
  <2>1. \/ At(r, "count") /\ \E l \in {"store", "refused"} : Go(r, l)
        \/ At(r, "store") /\ Go(r, "first")
        \/ At(r, "refused") /\ Go(r, "first")
        \/ At(r, "finalize") /\ \E l \in {"uncount", "after"} : Go(r, l)
        \/ At(r, "uncount") /\ Go(r, "after")
    BY DEF SlotStep, SlotCounts, SlotStores, SlotTaken, SlotUncounts
  <2> QED BY <2>1, <1>0, Going DEF At, Places
<1>2. UNCHANGED <<client, cut, call, chan, told, req, entry>>  BY DEF upstream
<1> QED BY <1>1, <1>2 DEF OneInv, ChannelInv, AnswerInv, CountInv, LastWord, Gone,
                          Calling, Opening, Reading, Over

\* The first chunk decides: either the attempt has failed with nothing sent, or the answer is committed.
LEMMA FirstKeeps ==
  ASSUME StreamTypeOK, NEW r \in Requests, OneInv(r), FirstFails(r) \/ Commit(r)
  PROVE  OneInv(r)'
<1>0. /\ UpstreamTypeOK /\ r \in Streams /\ req[r] \in ReqType /\ entry[r] \in Entry
      /\ Terminal(r) \in Entry \ {"none", "ok"} /\ told[r].good \in Nat
      /\ req \in [Streams -> ReqType]
  BY Fields DEF UpstreamTypeOK, StreamTypeOK
<1>1. /\ pc[r] = "first" /\ ~cut[r] /\ call[r].at \in {"opened", "leaving", "closed"}
      /\ call[r].at \in {"leaving", "closed"} => Gone(r) \/ LastWord(r)
      /\ ~req[r].wrote /\ ~req[r].whole /\ ~req[r].ok /\ entry[r] # "ok"
      /\ told[r].good = IF call[r].reported THEN 1 ELSE 0
  BY DEF FirstFails, Commit, At, OneInv, ChannelInv, AnswerInv, CountInv, Reading, Opening
<1>2. CASE FirstFails(r)
  <2>1. PICK e \in Entry \ {"ok"} : Fails(r, e)
    <3>1. /\ (IF Relay(r) /\ Head(chan[r]) = "eof" THEN "server_error" ELSE entry[r]) \in Entry \ {"ok"}
          /\ "timeout" \in Entry \ {"ok"}
      BY <1>0, <1>1 DEF Entry
    <3> QED BY <3>1, <1>0, <1>1, <1>2 DEF FirstFails
  <2>2. pc'[r] = "finalize" /\ entry'[r] # "ok" /\ req'[r] = req[r]  BY <2>1, Failing
  <2>3. call' = call /\ told'[r].good = told[r].good
    BY <1>0, <1>2, Cancelling, Reporting, Dropping DEF FirstFails, upstream
  <2>4. AnswerInv(r)'  BY <1>1, <2>2 DEF AnswerInv, Calling, Opening
  <2>5. CountInv(r)'  BY <1>1, <2>2, <2>3 DEF CountInv, Opening
  <2>6. ChannelInv(r)'  BY <1>1, <2>2, <2>3 DEF ChannelInv, Reading
  <2> QED BY <2>4, <2>5, <2>6 DEF OneInv
<1>3. CASE Commit(r)
  <2>1. Arrives(r) /\ Drops(r) /\ told' = [told EXCEPT ![r].good = IF call[r].reported THEN @ ELSE @ + 1]
    BY <1>3 DEF Commit
  <2>2. call' = call /\ cut' = cut /\ client' = client
    BY <1>0, <2>1, Dropping DEF Arrives
  <2>3. told'[r].good = 1
    <3>1. told'[r].good = IF call[r].reported THEN told[r].good ELSE told[r].good + 1
      BY <1>0, <2>1, Committing
    <3> QED BY <3>1, <1>1
  \* An adapter that has stopped has its last word in the channel, and that is no chunk.
  <2>4. call[r].at \in {"leaving", "closed"} => Gone(r)
    <3>1. ~LastWord(r)  BY <2>1 DEF Arrives, LastWord
    <3> QED BY <3>1, <1>1
  <2>5. CASE /\ Log(r, Noted(r, Head(chan[r])))
             /\ Set(r, [req[r] EXCEPT !.wrote = TRUE])
             /\ Go(r, "forward")
    <3>1. pc'[r] = "forward"  BY <1>0, <2>5, Going DEF Places
    <3>2. req'[r].wrote /\ req'[r].whole = req[r].whole  BY <1>0, <2>5 DEF Set, ReqType
    <3>3. Noted(r, Head(chan[r])) \in Entry \ {"ok"}  BY <1>0, <1>1 DEF Noted, Entry
    <3>4. entry'[r] # "ok"  BY <3>3, <2>5, Logging
    <3>6. AnswerInv(r)'  BY <1>1, <3>1, <3>2, <3>4 DEF AnswerInv, Calling, Opening, Over
    <3>7. CountInv(r)'  BY <1>1, <2>2, <2>3, <3>1 DEF CountInv, Opening
    <3>8. ChannelInv(r)'  BY <1>1, <2>2, <2>4, <3>1 DEF ChannelInv, Reading, Gone
    <3> QED BY <3>6, <3>7, <3>8 DEF OneInv
  <2>6. CASE /\ Log(r, "client_disconnected")
             /\ Set(r, [req[r] EXCEPT !.wrote = TRUE, !.ok = TRUE, !.row = "bare"])
             /\ Go(r, "finalize")
    <3>1. pc'[r] = "finalize"  BY <1>0, <2>6, Going DEF Places
    <3>2. req'[r].wrote /\ req'[r].ok  BY <1>0, <2>6 DEF Set, ReqType
    <3>3. entry'[r] = "client_disconnected"  BY <2>6, Logging DEF Entry
    <3>4. AnswerInv(r)'  BY <3>1, <3>2, <3>3 DEF AnswerInv, Calling, Opening
    <3>5. CountInv(r)'  BY <1>1, <2>2, <2>3, <3>1 DEF CountInv, Opening
    <3>6. ChannelInv(r)'  BY <1>1, <2>2, <3>1 DEF ChannelInv, Reading
    <3> QED BY <3>4, <3>5, <3>6 DEF OneInv
  <2> QED BY <2>5, <2>6, <1>3 DEF Commit
<1> QED BY <1>2, <1>3

LEMMA ForwardKeeps ==
  ASSUME StreamTypeOK, NEW r \in Requests, OneInv(r),
         Forward(r) \/ WriteFails(r) \/ ForwardEnds(r) \/ ForwardBreaks(r)
  PROVE  OneInv(r)'
<1>0. /\ UpstreamTypeOK /\ r \in Streams /\ req[r] \in ReqType /\ entry[r] \in Entry
      /\ Terminal(r) \in Entry \ {"none", "ok"}
      /\ req \in [Streams -> ReqType]
  BY Fields DEF UpstreamTypeOK, StreamTypeOK
<1>1. /\ pc[r] = "forward" /\ ~cut[r] /\ call[r].at \in {"opened", "leaving", "closed"}
      /\ call[r].at \in {"leaving", "closed"} => Gone(r) \/ LastWord(r)
      /\ req[r].wrote /\ ~req[r].whole /\ entry[r] # "ok"
      /\ told[r].good = 1
  BY DEF Forward, WriteFails, ForwardEnds, ForwardBreaks, At, OneInv, ChannelInv, AnswerInv, CountInv, Reading
<1>2. call' = call /\ cut' = cut /\ client' = client /\ told' = told
  BY <1>0, Dropping DEF Forward, WriteFails, ForwardEnds, ForwardBreaks, Arrives, upstream
<1>3. CASE Forward(r)
  <2>1. pc'[r] = "forward" /\ req' = req  BY <1>0, <1>3, Going DEF Forward, Places
  <2>2. Noted(r, Head(chan[r])) \in Entry \ {"ok"}  BY <1>0, <1>1 DEF Noted, Entry
  <2>3. entry'[r] # "ok"  BY <2>2, <1>3, Logging DEF Forward
  <2>4. call[r].at \in {"leaving", "closed"} => Gone(r)
    <3>1. ~LastWord(r)  BY <1>3 DEF Forward, Arrives, LastWord
    <3> QED BY <3>1, <1>1
  <2>5. AnswerInv(r)'  BY <1>1, <2>1, <2>3 DEF AnswerInv, Calling, Opening, Over
  <2>6. CountInv(r)'  BY <1>1, <1>2, <2>1 DEF CountInv, Opening
  <2>7. ChannelInv(r)'  BY <1>1, <1>2, <2>1, <2>4 DEF ChannelInv, Reading, Gone
  <2> QED BY <2>5, <2>6, <2>7 DEF OneInv
\* However it ends, an answer that is not whole gets an entry that says so.
<1>4. CASE WriteFails(r) \/ ForwardEnds(r) \/ ForwardBreaks(r)
  <2>1. /\ pc'[r] = "finalize" /\ req'[r].ok /\ entry'[r] # "ok"
        /\ ~req'[r].whole => entry'[r] # "none"
    <3>1. CASE WriteFails(r)
      <4>1. pc'[r] = "finalize"  BY <1>0, <3>1, Going DEF WriteFails, Places
      <4>2. req'[r].ok  BY <1>0, <3>1 DEF WriteFails, Set, ReqType
      <4>3. entry'[r] = "client_disconnected"  BY <3>1, Logging DEF WriteFails, Entry
      <4> QED BY <4>1, <4>2, <4>3
    <3>2. CASE ForwardEnds(r)
      <4>1. \E whole \in BOOLEAN : /\ Ends(r, IF Gone(r) THEN Terminal(r) ELSE entry[r], whole)
                                   /\ ~whole => Closed(r)
        BY <3>2 DEF ForwardEnds
      <4>2. (IF Gone(r) THEN Terminal(r) ELSE entry[r]) \in Entry \ {"ok"}  BY <1>0, <1>1
      <4>3. Closed(r) => Gone(r)  BY <1>1 DEF Closed, LastWord
      <4> QED BY <4>1, <4>2, <4>3, <1>0, Ending
    <3>3. CASE ForwardBreaks(r)
      <4>1. PICK e \in Entry \ {"none", "ok"} : Ends(r, e, FALSE)
        <5>1. /\ (IF Head(chan[r]) = "context" THEN Terminal(r) ELSE "stream_interrupted") \in Entry \ {"none", "ok"}
              /\ (IF Gone(r) THEN Terminal(r) ELSE "stream_idle_timeout") \in Entry \ {"none", "ok"}
          BY <1>0 DEF Entry
        <5> QED BY <5>1, <1>0, <3>3 DEF ForwardBreaks
      <4> QED BY <4>1, Ending
    <3> QED BY <3>1, <3>2, <3>3, <1>4
  <2>2. AnswerInv(r)'  BY <2>1 DEF AnswerInv, Calling, Opening, Over
  <2>3. CountInv(r)'  BY <1>1, <1>2, <2>1 DEF CountInv, Opening
  <2>4. ChannelInv(r)'  BY <1>1, <1>2, <2>1 DEF ChannelInv, Reading
  <2> QED BY <2>2, <2>3, <2>4 DEF OneInv
<1> QED BY <1>3, <1>4

LEMMA LoopKeeps ==
  ASSUME StreamTypeOK, NEW r \in Requests, OneInv(r), Finish(r) \/ TriesOn(r) \/ Leave(r)
  PROVE  OneInv(r)'
<1>0. /\ UpstreamTypeOK /\ r \in Streams /\ req[r] \in ReqType /\ entry[r] \in Entry
      /\ Terminal(r) \in Entry \ {"none", "ok"} /\ req \in [Streams -> ReqType]
  BY Fields DEF StreamTypeOK
<1>1. CASE Finish(r)
  <2>1. pc[r] = "after" /\ pc'[r] = "end" /\ UNCHANGED <<upstream, req>>
    BY <1>0, <1>1, Going DEF Finish, At, Places
  <2>2. entry'[r] = entry[r] \/ entry'[r] \notin {"none", "ok"}
    BY <1>0, <1>1, Logging DEF Finish
  <2> QED BY <2>1, <2>2 DEF OneInv, ChannelInv, AnswerInv, CountInv, upstream,
                            Calling, Opening, Reading, Over
<1>2. CASE TriesOn(r)
  <2>1. pc[r] = "after" /\ pc'[r] = "attempt" /\ entry' = entry
    BY <1>0, <1>2, Going DEF TriesOn, At, Places
  <2>2. ~req[r].wrote /\ ~req[r].whole /\ ~req[r].ok /\ entry[r] # "ok"
    BY <2>1, <1>2 DEF TriesOn, OneInv, AnswerInv, Over
  <2>3. req'[r].wrote = req[r].wrote /\ req'[r].whole = req[r].whole /\ req'[r].ok = req[r].ok
    <3>1. CASE Set(r, [req[r] EXCEPT !.again = TRUE])  BY <1>0, <3>1 DEF Set, ReqType
    <3>2. CASE Set(r, [req[r] EXCEPT !.n = @ + 1, !.again = FALSE])  BY <1>0, <3>2 DEF Set, ReqType
    <3> QED BY <3>1, <3>2, <1>2 DEF TriesOn
  <2>4. call'[r].at = "off" /\ told'[r].good = 0  BY <1>0, <1>2, HangingUp DEF TriesOn
  <2> QED BY <2>1, <2>2, <2>3, <2>4 DEF OneInv, ChannelInv, AnswerInv, CountInv,
                                        Calling, Opening, Reading, Over
<1>3. CASE Leave(r)
  <2>1. pc[r] = "end" /\ pc'[r] = "ended" /\ UNCHANGED <<upstream, req>>
    BY <1>0, <1>3, Going DEF Leave, At, Places
  <2>2. entry'[r] = IF entry[r] # "none" THEN entry[r] ELSE IF req[r].wrote THEN "ok" ELSE "failed"
    <3>1. (IF entry[r] # "none" THEN entry[r] ELSE IF req[r].wrote THEN "ok" ELSE "failed") \in Entry
      BY <1>0 DEF Entry
    <3> QED BY <3>1, <1>3, Logging DEF Leave
  <2>3. req[r].wrote /\ ~req[r].whole => entry[r] \notin {"none", "ok"}
    BY <2>1 DEF OneInv, AnswerInv, Over
  <2> QED BY <2>1, <2>2, <2>3 DEF OneInv, ChannelInv, AnswerInv, CountInv, upstream,
                                  Calling, Opening, Reading, Over
<1> QED BY <1>1, <1>2, <1>3

LEMMA RequestsKeep ==
  ASSUME StreamTypeOK, RequestInv, [StreamNext]_vars
  PROVE  RequestInv'
<1> SUFFICES ASSUME NEW r \in Requests PROVE OneInv(r)'
  BY DEF RequestInv, OneInv
<1>1. OneInv(r)  BY DEF RequestInv, OneInv
<1>2. CASE RequestSame(r)  BY <1>1, <1>2, SameKeeps
<1>3. CASE Handle(r)
  BY <1>1, <1>3, CallsKeep, SlotKeeps, FirstKeeps, ForwardKeeps, LoopKeeps DEF Handle
<1>4. CASE Fires(r)  BY <1>1, <1>4, EnvironmentKeeps
<1>5. CASE (AdapterStep(r) \/ ClientGoes(r)) /\ UNCHANGED <<proxy, slots, active>>
  BY <1>1, <1>5, AdapterKeeps, EnvironmentKeeps
<1> QED BY <1>2, <1>3, <1>4, <1>5, SeenFrom

THEOREM RequestsInv == StreamSpec => []RequestInv
<1>1. StreamInit => RequestInv
  <2> SUFFICES ASSUME StreamInit, NEW r \in Requests PROVE OneInv(r)
    BY DEF RequestInv, OneInv
  <2>1. r \in Streams  BY DEF Streams
  <2>2. pc[r] = "idle" /\ entry[r] = "none"  BY <2>1 DEF StreamInit
  <2>3. ~req[r].wrote /\ ~req[r].whole /\ ~req[r].ok  BY <2>1 DEF StreamInit
  <2>4. call[r].at = "off" /\ told[r].good = 0  BY DEF StreamInit, UpstreamInit, NoCall
  <2> QED BY <2>2, <2>3, <2>4 DEF OneInv, ChannelInv, AnswerInv, CountInv, Reading, Opening, Over
<1>2. StreamTypeOK /\ RequestInv /\ [StreamNext]_vars => RequestInv'
  BY RequestsKeep
<1> QED BY <1>1, <1>2, StreamTypes, PTL DEF StreamSpec

(* CutsTold for any routes, adapters and timers: once bytes are out, every   *)
(* way out of doStream but the upstream's own end writes an error into the   *)
(* entry, and no later step clears it.                                       *)
THEOREM NoCutIsLoggedOk == StreamSpec => []CutsTold
<1>1. RequestInv => CutsTold  BY DEF RequestInv, AnswerInv, CutsTold
<1> QED BY <1>1, RequestsInv, PTL

(* CountedOnce: when the proxy commits an answer either the adapter has      *)
(* reported it, and says so, or nobody has and the proxy does; neither       *)
(* reports it again, nor takes it back.                                      *)
THEOREM OneSuccessPerAnswer == StreamSpec => []CountedOnce
<1>1. RequestInv => CountedOnce  BY DEF RequestInv, CountInv, CountedOnce
<1> QED BY <1>1, RequestsInv, PTL

(* NoSwitchAfterBytes: the candidate loop goes round only for an attempt     *)
(* that was not answered, and an answer that has begun is answered for good, *)
(* whichever way doStream was left.                                          *)
THEOREM BytesSettleTheCandidate == StreamSpec => NoSwitchAfterBytes
<1> DEFINE Settled == \A r \in Requests : At(r, "after") /\ pc'[r] = "attempt" => ~req[r].wrote
<1>1. StreamTypeOK /\ RequestInv /\ [StreamNext]_vars => [Settled]_vars
  <2> SUFFICES ASSUME StreamTypeOK, RequestInv, [StreamNext]_vars,
                      NEW r \in Requests, At(r, "after"), pc'[r] = "attempt"
               PROVE  ~req[r].wrote
    OBVIOUS
  <2>1. pc[r] = "after" /\ pc'[r] # pc[r]  BY DEF At
  <2>2. CASE Handle(r)
    <3>1. r \in Streams  BY DEF Streams
    <3>2. ~(Finish(r) /\ Go(r, "end"))  BY <3>1, Going DEF Places
    <3>3. TriesOn(r)
      BY <2>1, <2>2, <3>2 DEF Handle, At, Enter, Attempt, Ask, Answered, Open, Started, SlotStep, SlotCounts,
         SlotStores, SlotTaken, SlotUncounts, FirstFails, Commit, Forward, WriteFails, ForwardEnds,
         ForwardBreaks, Finish, Leave
    <3> QED BY <2>1, <3>3 DEF TriesOn, RequestInv, AnswerInv, Over
  <2>3. CASE RequestSame(r)  BY <2>1, <2>3 DEF RequestSame
  <2>4. CASE Fires(r) \/ UNCHANGED proxy  BY <2>1, <2>4 DEF Fires, proxy
  <2> QED BY <2>2, <2>3, <2>4, SeenFrom
<1> QED BY <1>1, RequestsInv, StreamTypes, PTL DEF StreamSpec, NoSwitchAfterBytes

(* NoBlameForLeaving: every report of an error to the pool, the adapter's    *)
(* and the three of doStream, is made while the client is there, or because  *)
(* the candidate's own time has run out.                                     *)
THEOREM LeavingBlamesNoKey == StreamSpec => NoBlameForLeaving
<1> DEFINE Fair == \A r \in Requests : told'[r].bad > told[r].bad => ~Gone(r) \/ timer[r] = "fired"
<1>1. StreamTypeOK /\ [StreamNext]_vars => [Fair]_vars
  <2> SUFFICES ASSUME StreamTypeOK, [StreamNext]_vars, NEW r \in Requests, told'[r].bad > told[r].bad
               PROVE  ~Gone(r) \/ timer[r] = "fired"
    OBVIOUS
  <2>0. UpstreamTypeOK /\ told[r].bad \in Nat /\ r \in Streams /\ Adapter(r) \in Adapters
    BY Fields DEF UpstreamTypeOK
  <2>1. told' # told  BY <2>0
  <2>2. ~(told'[r].bad = told[r].bad) /\ told'[r].bad # 0  BY <2>0
  <2>3. CASE Handle(r)
    <3>1. CASE Ask(r) \/ Open(r)
      BY <3>1, <2>0, <2>1, <2>2, Dialling DEF Ask, Open, upstream
    <3>2. CASE Started(r)  BY <3>2, <2>1 DEF Started, upstream
    <3>3. CASE FirstFails(r)  BY <3>3, <2>1 DEF FirstFails, upstream
    <3>4. CASE Answered(r) \/ Commit(r)
      <4>1. told' = told \/ told' = [told EXCEPT ![r].good = IF call[r].reported THEN @ ELSE @ + 1]
        BY <3>4 DEF Answered, Commit
      <4> QED BY <4>1, <2>0, <2>2, Committing
    <3>5. CASE TriesOn(r)  BY <3>5, <2>0, <2>2, HangingUp DEF TriesOn
    <3>6. CASE Enter(r) \/ Attempt(r) \/ Forward(r) \/ WriteFails(r) \/ ForwardEnds(r) \/ ForwardBreaks(r)
               \/ Finish(r) \/ Leave(r) \/ UNCHANGED upstream
      BY <3>6, <2>1 DEF Enter, Attempt, Forward, WriteFails, ForwardEnds, ForwardBreaks, Finish, Leave, upstream
    <3> QED BY <2>3, <3>1, <3>2, <3>3, <3>4, <3>5, <3>6 DEF Handle
  <2>4. CASE AdapterStep(r)  BY <2>0, <2>4, AdapterMoves DEF AdapterOK, AdapterMove
  <2>5. CASE RequestSame(r) \/ Fires(r) \/ ClientGoes(r)
    BY <2>1, <2>2, <2>5 DEF RequestSame, Fires, ClientGoes, upstream
  <2> QED BY <2>3, <2>4, <2>5, SeenFrom
<1> QED BY <1>1, StreamTypes, PTL DEF StreamSpec, NoBlameForLeaving

-----------------------------------------------------------------------------
(* The slots of all streams.                                                 *)

\* Only the four moves of SlotStep touch the counter, the map, or who is between the two.
LEMMA SlotsElsewhere ==
  ASSUME StreamTypeOK, [StreamNext]_vars
  PROVE  \/ \E x \in Streams : SlotStep(x) /\ PlaceOK(x)
         \/ /\ UNCHANGED slots
            /\ \A y \in Streams : /\ (pc'[y] \in {"store", "refused", "uncount"}) = (pc[y] \in {"store", "refused", "uncount"})
                                  /\ (pc'[y] = "store") = (pc[y] = "store")
                                  /\ pc[y] \in {"first", "forward", "finalize"} => pc'[y] \in {"first", "forward", "finalize"}
<1> DEFINE Even(y) == /\ (pc'[y] \in {"store", "refused", "uncount"}) = (pc[y] \in {"store", "refused", "uncount"})
                      /\ (pc'[y] = "store") = (pc[y] = "store")
                      /\ pc[y] \in {"first", "forward", "finalize"} => pc'[y] \in {"first", "forward", "finalize"}
<1>1. CASE UNCHANGED vars  BY <1>1 DEF vars, proxy
<1>2. ASSUME NEW r \in Requests, Handle(r)
      PROVE  (SlotStep(r) /\ PlaceOK(r)) \/ (UNCHANGED slots /\ \A y \in Streams : Even(y))
  <2>0. r \in Streams  BY DEF Streams
  <2>1. CASE SlotStep(r)  BY <2>0, <2>1, SlotMoves
  <2>2. CASE ~SlotStep(r)
    <3>1. UNCHANGED slots
      BY <1>2, <2>2 DEF Handle, Enter, Attempt, Ask, Answered, Open, Started, FirstFails, Commit, Forward, WriteFails,
                        ForwardEnds, ForwardBreaks, Finish, TriesOn, Leave, Quiet
    <3>2. \A y \in Streams : y # r => pc'[y] = pc[y]
      BY <1>2, HandleTyped DEF StepOK, StreamKept
    <3>3. \/ pc[r] \in {"idle", "attempt", "ask", "answer", "open", "start", "after", "end"}
             /\ \E l \in {"attempt", "after", "ask", "open", "answer", "start", "count", "end", "ended"} : Go(r, l)
          \/ pc[r] \in {"first", "forward"} /\ \E l \in {"finalize", "forward"} : Go(r, l)
      <4>1. CASE Enter(r) \/ Attempt(r) \/ Ask(r) \/ Answered(r) \/ Open(r) \/ Started(r) \/ Finish(r) \/ TriesOn(r) \/ Leave(r)
        BY <4>1 DEF At, Enter, Attempt, Ask, Answered, Open, Started, Finish, TriesOn, Leave
      <4>2. CASE FirstFails(r) \/ Commit(r) \/ Forward(r) \/ WriteFails(r) \/ ForwardEnds(r) \/ ForwardBreaks(r)
        BY <4>2 DEF At, FirstFails, Fails, Commit, Forward, WriteFails, ForwardEnds, ForwardBreaks, Ends
      <4> QED BY <4>1, <4>2, <1>2, <2>2 DEF Handle
    <3>4. \/ pc[r] \in {"idle", "attempt", "ask", "answer", "open", "start", "after", "end"}
             /\ pc'[r] \in {"attempt", "after", "ask", "open", "answer", "start", "count", "end", "ended"}
          \/ pc[r] \in {"first", "forward"} /\ pc'[r] \in {"finalize", "forward"}
      BY <2>0, <3>3, Going DEF Places
    <3> QED BY <3>1, <3>2, <3>4
  <2> QED BY <2>1, <2>2
<1>3. ASSUME NEW r \in Requests,
             Fires(r) \/ ((AdapterStep(r) \/ ClientGoes(r)) /\ UNCHANGED <<proxy, slots, active>>)
      PROVE  UNCHANGED slots /\ \A y \in Streams : Even(y)
  <2>1. UNCHANGED <<pc, slots>>  BY <1>3 DEF Fires, proxy
  <2> QED BY <2>1
<1>4. ASSUME NEW o \in Others, Other(o)
      PROVE  (SlotStep(o) /\ PlaceOK(o)) \/ (UNCHANGED slots /\ \A y \in Streams : Even(y))
  <2>0. o \in Streams  BY DEF Streams
  <2>1. CASE SlotStep(o)  BY <2>0, <2>1, SlotMoves
  <2>2. CASE ~SlotStep(o)
    <3>1. /\ UNCHANGED slots
          /\ \/ pc[o] = "idle" /\ Go(o, "count")
             \/ pc[o] = "first" /\ Go(o, "finalize")
             \/ pc[o] = "after" /\ Go(o, "ended")
      BY <1>4, <2>2 DEF Other, At
    <3> QED BY <2>0, <3>1, Going DEF Places, PlaceOK
  <2> QED BY <2>1, <2>2
<1> QED BY <1>1, <1>2, <1>3, <1>4 DEF StreamNext, AllEnded, Streams

LEMMA AddedToOneOf ==
  ASSUME NEW S, IsFiniteSet(S), NEW x
  PROVE  /\ IsFiniteSet(S \cup {x}) /\ IsFiniteSet(S \ {x})
         /\ Cardinality(S) \in Nat
         /\ Cardinality(S \cup {x}) = IF x \in S THEN Cardinality(S) ELSE Cardinality(S) + 1
         /\ Cardinality(S \ {x}) = IF x \in S THEN Cardinality(S) - 1 ELSE Cardinality(S)
  BY FS_AddElement, FS_RemoveElement, FS_CardinalityType

\* Storing is a part of Between.
LEMMA StoringBetween ==
  ASSUME SlotInv
  PROVE  /\ IsFiniteSet(Storing) /\ Cardinality(Storing) <= Cardinality(Between)
         /\ Cardinality(Storing) \in Nat /\ Cardinality(Between) \in Nat /\ Cardinality(streamBuf) \in Nat
<1>1. Storing \subseteq Between  BY DEF Storing, Between
<1> QED BY <1>1, FS_Subset, FS_CardinalityType DEF SlotInv

LEMMA SlotsKept ==
  ASSUME StreamTypeOK, SlotInv, [StreamNext]_vars
  PROVE  SlotInv'
<1>0. /\ IsFiniteSet(Between) /\ IsFiniteSet(streamBuf) /\ IsFiniteSet(Storing)
      /\ Cardinality(Storing) <= Cardinality(Between)
      /\ Cardinality(Storing) \in Nat /\ Cardinality(Between) \in Nat /\ Cardinality(streamBuf) \in Nat
      /\ streamCnt \in Int /\ MaxStreams \in Nat
      /\ streamCnt >= Cardinality(streamBuf) + Cardinality(Between)
      /\ Distinct => streamCnt = Cardinality(streamBuf) + Cardinality(Between)
      /\ Cardinality(streamBuf) + Cardinality(Storing) <= MaxStreams
      /\ Distinct => \A x \in Streams : req[x].trace \in streamBuf => pc[x] \in {"first", "forward", "finalize"}
  BY StoringBetween, StreamAssumption DEF SlotInv, StreamTypeOK
<1>1. \A x \in Streams : req'[x].trace = req[x].trace
  BY Steps DEF StepOK, StreamKept, vars, proxy
<1>2. Distinct' = Distinct  BY <1>1 DEF Distinct
<1>3. \A t \in streamBuf' : \E x \in Streams : req'[x].trace = t
  <2>1. \A t \in streamBuf : \E x \in Streams : req'[x].trace = t  BY <1>1 DEF SlotInv
  <2>2. ASSUME NEW x \in Streams, SlotStep(x) PROVE streamBuf' \subseteq streamBuf \cup {req[x].trace}
    BY <2>2 DEF SlotStep, SlotCounts, SlotStores, SlotTaken, SlotUncounts
  <2> QED BY <1>1, <2>1, <2>2, SlotsElsewhere DEF slots
<1>4. CASE /\ UNCHANGED slots
           /\ \A y \in Streams : /\ (pc'[y] \in {"store", "refused", "uncount"}) = (pc[y] \in {"store", "refused", "uncount"})
                                 /\ (pc'[y] = "store") = (pc[y] = "store")
                                 /\ pc[y] \in {"first", "forward", "finalize"} => pc'[y] \in {"first", "forward", "finalize"}
  <2>1. Between' = Between /\ Storing' = Storing  BY <1>4 DEF Between, Storing
  <2>2. streamBuf' = streamBuf /\ streamCnt' = streamCnt  BY <1>4 DEF slots
  <2> QED BY <1>0, <1>1, <1>2, <1>3, <1>4, <2>1, <2>2 DEF SlotInv
<1>5. ASSUME NEW x \in Streams, SlotStep(x), PlaceOK(x) PROVE SlotInv'
  <2>0. \A y \in Streams : y # x => pc'[y] = pc[y]  BY <1>5 DEF PlaceOK
  <2> DEFINE t == req[x].trace
  <2>1. CASE SlotCounts(x)
    <3>1. /\ pc[x] = "count" /\ pc'[x] = IF streamCnt < MaxStreams THEN "store" ELSE "refused"
          /\ streamCnt' = streamCnt + 1 /\ streamBuf' = streamBuf
      BY <2>1, Going DEF SlotCounts, At, Places
    <3>2. Between' = Between \cup {x} /\ x \notin Between  BY <2>0, <3>1 DEF Between
    <3>3. Cardinality(Between') = Cardinality(Between) + 1 /\ IsFiniteSet(Between')
      BY <1>0, <3>2, AddedToOneOf
    <3>4. Cardinality(streamBuf) + Cardinality(Storing') <= MaxStreams
      <4>1. CASE streamCnt < MaxStreams
        <5>1. Storing' = Storing \cup {x} /\ x \notin Storing  BY <2>0, <3>1, <4>1 DEF Storing
        <5>2. Cardinality(Storing') = Cardinality(Storing) + 1  BY <1>0, <5>1, AddedToOneOf
        <5> QED BY <1>0, <4>1, <5>2
      <4>2. CASE ~(streamCnt < MaxStreams)
        <5>1. Storing' = Storing  BY <2>0, <3>1, <4>2 DEF Storing
        <5> QED BY <1>0, <5>1
      <4> QED BY <4>1, <4>2
    <3>5. Distinct => \A y \in Streams : req'[y].trace \in streamBuf' => pc'[y] \in {"first", "forward", "finalize"}
      BY <1>0, <1>1, <2>0, <3>1
    <3>6. /\ streamCnt' >= Cardinality(streamBuf') + Cardinality(Between')
          /\ Distinct => streamCnt' = Cardinality(streamBuf') + Cardinality(Between')
      BY <1>0, <3>1, <3>3
    <3> QED BY <1>0, <1>2, <1>3, <3>1, <3>3, <3>4, <3>5, <3>6 DEF SlotInv
  <2>2. CASE At(x, "store") /\ SlotStores(x)
    <3>1. /\ pc[x] = "store" /\ pc'[x] = "first"
          /\ streamCnt' = streamCnt /\ streamBuf' = streamBuf \cup {t}
      BY <2>2, Going DEF SlotStores, At, Places
    <3>2. Between' = Between \ {x} /\ x \in Between  BY <2>0, <3>1 DEF Between
    <3>3. Cardinality(Between') = Cardinality(Between) - 1 /\ IsFiniteSet(Between')
      BY <1>0, <3>2, AddedToOneOf
    <3>4. Storing' = Storing \ {x} /\ x \in Storing  BY <2>0, <3>1 DEF Storing
    <3>5. Cardinality(Storing') = Cardinality(Storing) - 1  BY <1>0, <3>4, AddedToOneOf
    <3>6. /\ IsFiniteSet(streamBuf')
          /\ Cardinality(streamBuf') = IF t \in streamBuf THEN Cardinality(streamBuf) ELSE Cardinality(streamBuf) + 1
      BY <1>0, <3>1, AddedToOneOf
    <3>7. Distinct => t \notin streamBuf  BY <1>0, <3>1
    <3>8. Distinct => \A y \in Streams : req'[y].trace \in streamBuf' => pc'[y] \in {"first", "forward", "finalize"}
      <4> SUFFICES ASSUME Distinct, NEW y \in Streams, req'[y].trace \in streamBuf'
                   PROVE  pc'[y] \in {"first", "forward", "finalize"}
        OBVIOUS
      <4>1. CASE y = x  BY <3>1, <4>1
      <4>2. CASE y # x
        <5>1. req[y].trace # t  BY <4>2, <1>5 DEF Distinct
        <5> QED BY <5>1, <4>2, <1>0, <1>1, <2>0, <3>1
      <4> QED BY <4>1, <4>2
    <3>9. /\ streamCnt' >= Cardinality(streamBuf') + Cardinality(Between')
          /\ Distinct => streamCnt' = Cardinality(streamBuf') + Cardinality(Between')
          /\ Cardinality(streamBuf') + Cardinality(Storing') <= MaxStreams
      BY <1>0, <3>1, <3>3, <3>5, <3>6, <3>7
    <3> QED BY <1>2, <1>3, <3>3, <3>6, <3>8, <3>9 DEF SlotInv
  <2>3. CASE (At(x, "refused") /\ SlotStores(x)) \/ SlotUncounts(x)
    <3>1. /\ pc[x] \in {"refused", "uncount"} /\ pc'[x] \in {"first", "after"}
          /\ streamCnt' = streamCnt - 1 /\ streamBuf' = streamBuf
      BY <2>3, Going DEF SlotStores, SlotUncounts, At, Places
    <3>2. Between' = Between \ {x} /\ x \in Between /\ Storing' = Storing
      BY <2>0, <3>1 DEF Between, Storing
    <3>3. Cardinality(Between') = Cardinality(Between) - 1 /\ IsFiniteSet(Between')
      BY <1>0, <3>2, AddedToOneOf
    <3>4. Distinct => \A y \in Streams : req'[y].trace \in streamBuf' => pc'[y] \in {"first", "forward", "finalize"}
      BY <1>0, <1>1, <2>0, <3>1
    <3>5. /\ streamCnt' >= Cardinality(streamBuf') + Cardinality(Between')
          /\ Distinct => streamCnt' = Cardinality(streamBuf') + Cardinality(Between')
      BY <1>0, <3>1, <3>3
    <3> QED BY <1>0, <1>2, <1>3, <3>1, <3>2, <3>3, <3>4, <3>5 DEF SlotInv
  <2>4. CASE SlotTaken(x)
    <3>1. /\ pc[x] = "finalize" /\ pc'[x] = IF t \in streamBuf THEN "uncount" ELSE "after"
          /\ streamCnt' = streamCnt /\ streamBuf' = streamBuf \ {t}
      BY <2>4, Going DEF SlotTaken, At, Places
    <3>2. Storing' = Storing  BY <2>0, <3>1 DEF Storing
    <3>3. /\ IsFiniteSet(streamBuf')
          /\ Cardinality(streamBuf') = IF t \in streamBuf THEN Cardinality(streamBuf) - 1 ELSE Cardinality(streamBuf)
      BY <1>0, <3>1, AddedToOneOf
    <3>4. /\ IsFiniteSet(Between')
          /\ Cardinality(Between') = IF t \in streamBuf THEN Cardinality(Between) + 1 ELSE Cardinality(Between)
      <4>1. CASE t \in streamBuf
        <5>1. Between' = Between \cup {x} /\ x \notin Between  BY <2>0, <3>1, <4>1 DEF Between
        <5> QED BY <1>0, <4>1, <5>1, AddedToOneOf
      <4>2. CASE t \notin streamBuf
        <5>1. Between' = Between  BY <2>0, <3>1, <4>2 DEF Between
        <5> QED BY <1>0, <4>2, <5>1
      <4> QED BY <4>1, <4>2
    <3>5. Distinct => \A y \in Streams : req'[y].trace \in streamBuf' => pc'[y] \in {"first", "forward", "finalize"}
      <4> SUFFICES ASSUME Distinct, NEW y \in Streams, req'[y].trace \in streamBuf'
                   PROVE  pc'[y] \in {"first", "forward", "finalize"}
        OBVIOUS
      <4>1. y # x  BY <1>1, <3>1
      <4> QED BY <4>1, <1>0, <1>1, <2>0, <3>1
    <3>6. /\ streamCnt' >= Cardinality(streamBuf') + Cardinality(Between')
          /\ Distinct => streamCnt' = Cardinality(streamBuf') + Cardinality(Between')
          /\ Cardinality(streamBuf') + Cardinality(Storing') <= MaxStreams
      BY <1>0, <3>1, <3>2, <3>3, <3>4
    <3> QED BY <1>2, <1>3, <3>3, <3>4, <3>5, <3>6 DEF SlotInv
  <2> QED BY <1>5, <2>1, <2>2, <2>3, <2>4 DEF SlotStep, SlotStores
<1> QED BY <1>4, <1>5, SlotsElsewhere

(* The count, the map and the streams between the two agree after every step.  *)
THEOREM SlotsHold == StreamSpec => []SlotInv
<1>1. StreamInit => SlotInv
  <2> SUFFICES ASSUME StreamInit PROVE SlotInv
    OBVIOUS
  <2>1. Between = {} /\ Storing = {} /\ streamBuf = {} /\ streamCnt = 0
    BY DEF StreamInit, Between, Storing
  <2>2. IsFiniteSet({}) /\ Cardinality({}) = 0  BY FS_EmptySet
  <2> QED BY <2>1, <2>2, StreamAssumption DEF SlotInv
<1>2. StreamTypeOK /\ SlotInv /\ [StreamNext]_vars => SlotInv'
  BY SlotsKept
<1> QED BY <1>1, <1>2, StreamTypes, PTL DEF StreamSpec

(* SlotsPaired for any number of streams and any sharing of trace ids: the   *)
(* count never falls below the bodies that are kept, so no more than         *)
(* MaxStreams are, and it is exact when every stream has an id of its own.   *)
THEOREM SlotsArePaired == StreamSpec => []SlotsPaired
<1>1. SlotInv => SlotsPaired
  <2> SUFFICES ASSUME SlotInv PROVE SlotsPaired
    OBVIOUS
  <2>1. Cardinality(Storing) \in Nat /\ Cardinality(streamBuf) \in Nat /\ MaxStreams \in Nat
    BY StoringBetween, StreamAssumption
  <2>2. Cardinality(streamBuf) <= MaxStreams  BY <2>1 DEF SlotInv
  <2> QED BY <2>2 DEF SlotInv, SlotsPaired, Between
<1> QED BY <1>1, SlotsHold, PTL

(* What finalizeStream claims of every stream, SlotsReturned, is true when   *)
(* each has a trace id of its own: once all have ended no slot is held.      *)
THEOREM OwnTracesLoseNoSlot == StreamSpec => [](Distinct => SlotsReturned)
<1>1. SlotInv => (Distinct => SlotsReturned)
  <2> SUFFICES ASSUME SlotInv, Distinct, \A x \in Streams : At(x, "ended") PROVE streamCnt = 0
    BY DEF SlotsReturned
  <2>1. Between = {}  BY DEF Between, At
  <2>2. streamBuf = {}  BY DEF SlotInv, At
  <2> QED BY <2>1, <2>2, FS_EmptySet DEF SlotInv
<1> QED BY <1>1, SlotsHold, PTL
=============================================================================

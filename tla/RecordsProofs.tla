---------------------------- MODULE RecordsProofs ----------------------------
(***************************************************************************)
(* Both writers of records keep the ledger, whatever the capacities of     *)
(* their channels and batches and whenever the process is told to stop.    *)
(* The queue of the ledger is the batch followed by the channel: the first *)
(* lemmas say what the worker's moves do to it.                            *)
(***************************************************************************)
EXTENDS Records, SequenceTheorems, TLAPS

Distinct(s) == \A i, j \in DOMAIN s : s[i] = s[j] => i = j

LEMMA ElementsIn ==
  ASSUME NEW S, NEW s \in Seq(S) PROVE Elements(s) \subseteq S
  BY ElementOfSeq, LenProperties DEF Elements

LEMMA EmptyQueue ==
  Elements(<< >>) = {} /\ Distinct(<< >>)
<1>1. << >> \in Seq({}) /\ Len(<< >>) = 0  BY EmptySeq
<1>2. DOMAIN << >> = 1 .. 0  BY <1>1, LenProperties
<1> QED BY <1>2 DEF Elements, Distinct

LEMMA HeadIsFirst ==
  ASSUME NEW S, NEW s \in Seq(S), s # << >>
  PROVE  /\ Head(s) = s[1] /\ Head(s) \in S /\ Head(s) \in Elements(s)
         /\ Len(s) \in Nat \ {0} /\ 1 \in DOMAIN s
<1>1. Head(s) = s[1] /\ Head(s) \in S  BY HeadTailProperties
<1>2. Len(s) \in Nat \ {0} /\ DOMAIN s = 1 .. Len(s)  BY EmptySeq, LenProperties
<1> QED BY <1>1, <1>2 DEF Elements

\* The worker takes the head of the channel: the queue stays as it is.
LEMMA Gathering ==
  ASSUME NEW S, NEW b \in Seq(S), NEW c \in Seq(S), c # << >>
  PROVE  Append(b, Head(c)) \o Tail(c) = b \o c
<1> DEFINE h == Append(b, Head(c))
<1>1. /\ Head(c) = c[1] /\ Head(c) \in S /\ Tail(c) \in Seq(S) /\ Len(Tail(c)) = Len(c) - 1
      /\ \A i \in 1 .. Len(Tail(c)) : Tail(c)[i] = c[i + 1]
  BY HeadTailProperties, HeadIsFirst
<1>2. /\ h \in Seq(S) /\ Len(h) = Len(b) + 1 /\ h[Len(b) + 1] = c[1]
      /\ \A i \in 1 .. Len(b) : h[i] = b[i]
  BY <1>1, AppendProperties
<1>3. Len(b) \in Nat /\ Len(c) \in Nat \ {0}  BY EmptySeq, LenProperties
<1> HIDE DEF h
<1>4. /\ h \o Tail(c) \in Seq(S) /\ Len(h \o Tail(c)) = Len(h) + Len(Tail(c))
      /\ \A i \in 1 .. Len(h) + Len(Tail(c)) :
            (h \o Tail(c))[i] = IF i <= Len(h) THEN h[i] ELSE Tail(c)[i - Len(h)]
  BY <1>1, <1>2, ConcatProperties
<1>5. /\ b \o c \in Seq(S) /\ Len(b \o c) = Len(b) + Len(c)
      /\ \A i \in 1 .. Len(b) + Len(c) : (b \o c)[i] = IF i <= Len(b) THEN b[i] ELSE c[i - Len(b)]
  BY ConcatProperties
<1>6. ASSUME NEW i \in 1 .. Len(b \o c) PROVE (h \o Tail(c))[i] = (b \o c)[i]
  <2>1. CASE i <= Len(b)  BY <2>1, <1>1, <1>2, <1>3, <1>4, <1>5
  <2>2. CASE i = Len(b) + 1  BY <2>2, <1>1, <1>2, <1>3, <1>4, <1>5
  <2>3. CASE i > Len(b) + 1
    <3>1. /\ (h \o Tail(c))[i] = Tail(c)[i - Len(h)] /\ (b \o c)[i] = c[i - Len(b)]
          /\ i - Len(h) \in 1 .. Len(Tail(c))
      BY <2>3, <1>1, <1>2, <1>3, <1>4, <1>5
    <3>2. Tail(c)[i - Len(h)] = c[(i - Len(h)) + 1]  BY <3>1, <1>1
    <3>3. (i - Len(h)) + 1 = i - Len(b)  BY <1>2, <1>3, <1>5
    <3> QED BY <3>1, <3>2, <3>3
  <2>4. i <= Len(b) \/ i = Len(b) + 1 \/ i > Len(b) + 1  BY <1>3
  <2> QED BY <2>1, <2>2, <2>3, <2>4
<1>7. Len(h \o Tail(c)) = Len(b \o c)  BY <1>1, <1>2, <1>3, <1>4, <1>5
<1>8. h \o Tail(c) = b \o c  BY <1>4, <1>5, <1>6, <1>7, SeqEqual
<1> QED BY <1>8 DEF h

\* A record that is sent comes last.
LEMMA Sending ==
  ASSUME NEW S, NEW b \in Seq(S), NEW c \in Seq(S), NEW e \in S
  PROVE  b \o Append(c, e) = Append(b \o c, e)
<1>1. << e >> \in Seq(S)  OBVIOUS
<1>2. Append(c, e) = c \o << e >>  BY AppendIsConcat
<1>3. b \o c \in Seq(S)  BY ConcatProperties
<1>4. Append(b \o c, e) = (b \o c) \o << e >>  BY <1>3, AppendIsConcat
<1> QED BY <1>1, <1>2, <1>4, ConcatAssociative

LEMMA TailElements ==
  ASSUME NEW S, NEW s \in Seq(S), s # << >>
  PROVE  Elements(Tail(s)) \subseteq Elements(s)
<1>1. /\ Tail(s) \in Seq(S) /\ Len(Tail(s)) = Len(s) - 1 /\ Len(s) \in Nat \ {0}
      /\ \A i \in 1 .. Len(Tail(s)) : Tail(s)[i] = s[i + 1]
  BY HeadTailProperties, EmptySeq
<1>2. DOMAIN s = 1 .. Len(s) /\ DOMAIN Tail(s) = 1 .. Len(s) - 1  BY <1>1, LenProperties
<1>3. \A i \in 1 .. Len(s) - 1 : Tail(s)[i] = s[i + 1] /\ i + 1 \in 1 .. Len(s)  BY <1>1
<1> QED BY <1>2, <1>3 DEF Elements

\* What has been sent is in the queue, with what was there before.
LEMMA AppendElements ==
  ASSUME NEW S, NEW s \in Seq(S), NEW e \in S
  PROVE  Elements(Append(s, e)) = Elements(s) \cup {e}
<1>1. /\ Append(s, e) \in Seq(S) /\ Len(Append(s, e)) = Len(s) + 1
      /\ \A i \in 1 .. Len(s) : Append(s, e)[i] = s[i]
      /\ Append(s, e)[Len(s) + 1] = e
  BY AppendProperties
<1>2. DOMAIN s = 1 .. Len(s) /\ DOMAIN Append(s, e) = 1 .. Len(s) + 1 /\ Len(s) \in Nat
  BY <1>1, LenProperties
<1>3. \A i \in 1 .. Len(s) + 1 : i \in 1 .. Len(s) \/ i = Len(s) + 1  BY <1>2
<1>4. \A i \in 1 .. Len(s) : i \in 1 .. Len(s) + 1  BY <1>2
<1>5. Len(s) + 1 \in 1 .. Len(s) + 1  BY <1>2
<1> QED BY <1>1, <1>2, <1>3, <1>4, <1>5 DEF Elements

LEMMA AppendDistinct ==
  ASSUME NEW S, NEW s \in Seq(S), NEW e \in S, Distinct(s), e \notin Elements(s)
  PROVE  Distinct(Append(s, e))
<1>1. /\ Append(s, e) \in Seq(S) /\ Len(Append(s, e)) = Len(s) + 1
      /\ \A i \in 1 .. Len(s) : Append(s, e)[i] = s[i]
      /\ Append(s, e)[Len(s) + 1] = e
  BY AppendProperties
<1>2. DOMAIN s = 1 .. Len(s) /\ DOMAIN Append(s, e) = 1 .. Len(s) + 1 /\ Len(s) \in Nat
  BY <1>1, LenProperties
<1>3. \A i \in 1 .. Len(s) + 1 : i \in 1 .. Len(s) \/ i = Len(s) + 1  BY <1>2
<1>4. \A i \in 1 .. Len(s) : s[i] # e  BY <1>2 DEF Elements
<1> QED BY <1>1, <1>2, <1>3, <1>4 DEF Distinct

\* A prefix that leaves takes nothing of the rest with it.
LEMMA Splitting ==
  ASSUME NEW S, NEW b \in Seq(S), NEW c \in Seq(S)
  PROVE  /\ b \o c \in Seq(S) /\ Len(b \o c) = Len(b) + Len(c)
         /\ Elements(b \o c) = Elements(b) \cup Elements(c)
         /\ Elements(b) = {(b \o c)[i] : i \in 1 .. Len(b)}
         /\ SubSeq(b \o c, Len(b) + 1, Len(b \o c)) = c
         /\ Distinct(b \o c) => /\ Distinct(b) /\ Distinct(c)
                                /\ Elements(b) \cap Elements(c) = {}
<1> DEFINE q == b \o c
<1>1. /\ q \in Seq(S) /\ Len(q) = Len(b) + Len(c)
      /\ \A i \in 1 .. Len(b) + Len(c) : q[i] = IF i <= Len(b) THEN b[i] ELSE c[i - Len(b)]
  BY ConcatProperties
<1>2. /\ Len(b) \in Nat /\ Len(c) \in Nat
      /\ DOMAIN b = 1 .. Len(b) /\ DOMAIN c = 1 .. Len(c) /\ DOMAIN q = 1 .. Len(b) + Len(c)
  BY <1>1, LenProperties
<1> HIDE DEF q
<1>3. \A i \in 1 .. Len(b) : i \in 1 .. Len(b) + Len(c) /\ q[i] = b[i]  BY <1>1, <1>2
<1>4. \A j \in 1 .. Len(c) : Len(b) + j \in 1 .. Len(b) + Len(c) /\ q[Len(b) + j] = c[j]
  <2> TAKE j \in 1 .. Len(c)
  <2>1. /\ Len(b) + j \in 1 .. Len(b) + Len(c) /\ ~ (Len(b) + j <= Len(b))
        /\ (Len(b) + j) - Len(b) = j
    BY <1>2
  <2> QED BY <2>1, <1>1
<1>5. \A i \in 1 .. Len(b) + Len(c) :
        i \in 1 .. Len(b) \/ \E j \in 1 .. Len(c) : i = Len(b) + j
  <2> TAKE i \in 1 .. Len(b) + Len(c)
  <2>1. CASE i <= Len(b)  BY <2>1, <1>2
  <2>2. CASE i > Len(b)
    <3>1. i - Len(b) \in 1 .. Len(c) /\ i = Len(b) + (i - Len(b))  BY <2>2, <1>2
    <3> QED BY <3>1
  <2> QED BY <2>1, <2>2, <1>2
<1>6. Elements(q) = Elements(b) \cup Elements(c)
  <2>1. Elements(b) \subseteq Elements(q)  BY <1>2, <1>3 DEF Elements
  <2>2. Elements(c) \subseteq Elements(q)  BY <1>2, <1>4 DEF Elements
  <2>3. ASSUME NEW i \in 1 .. Len(b) + Len(c) PROVE q[i] \in Elements(b) \cup Elements(c)
    <3>1. CASE i \in 1 .. Len(b)  BY <3>1, <1>2, <1>3 DEF Elements
    <3>2. ASSUME NEW j \in 1 .. Len(c), i = Len(b) + j PROVE q[i] \in Elements(c)
      BY <3>2, <1>2, <1>4 DEF Elements
    <3> QED BY <3>1, <3>2, <1>5
  <2>4. Elements(q) \subseteq Elements(b) \cup Elements(c)  BY <2>3, <1>2 DEF Elements
  <2> QED BY <2>1, <2>2, <2>4
<1>7. Elements(b) = {q[i] : i \in 1 .. Len(b)}  BY <1>2, <1>3 DEF Elements
<1>8. SubSeq(q, Len(b) + 1, Len(q)) = c
  <2> DEFINE t == SubSeq(q, Len(b) + 1, Len(q))
  <2>1. \A i \in Len(b) + 1 .. Len(q) : q[i] \in S  BY <1>1, <1>2, ElementOfSeq
  <2>2. /\ t \in Seq(S) /\ Len(t) = IF Len(b) + 1 <= Len(q) THEN Len(q) - (Len(b) + 1) + 1 ELSE 0
        /\ \A i \in 1 .. Len(q) - (Len(b) + 1) + 1 : t[i] = q[(Len(b) + 1) + i - 1]
    BY <2>1, <1>1, <1>2, SubSeqProperties
  <2> HIDE DEF t
  <2>3. Len(t) = Len(c)  BY <2>2, <1>1, <1>2
  <2>4. ASSUME NEW i \in 1 .. Len(t) PROVE t[i] = c[i]
    <3>1. (Len(b) + 1) + i - 1 = Len(b) + i /\ i \in 1 .. Len(q) - (Len(b) + 1) + 1 /\ i \in 1 .. Len(c)
      BY <2>3, <1>1, <1>2
    <3> QED BY <3>1, <2>2, <1>4
  <2>5. t = c  BY <2>2, <2>3, <2>4, SeqEqual
  <2> QED BY <2>5 DEF t
<1>9. ASSUME Distinct(q)
      PROVE  Distinct(b) /\ Distinct(c) /\ Elements(b) \cap Elements(c) = {}
  <2>1. Distinct(b)  BY <1>9, <1>2, <1>3 DEF Distinct
  <2>2. Distinct(c)
    <3>1. ASSUME NEW i \in 1 .. Len(c), NEW j \in 1 .. Len(c), c[i] = c[j] PROVE i = j
      <4>1. Len(b) + i = Len(b) + j  BY <3>1, <1>9, <1>2, <1>4 DEF Distinct
      <4> QED BY <4>1, <1>2
    <3> QED BY <3>1, <1>2 DEF Distinct
  <2>3. ASSUME NEW i \in 1 .. Len(b), NEW j \in 1 .. Len(c), b[i] = c[j] PROVE FALSE
    <3>1. i = Len(b) + j  BY <2>3, <1>9, <1>2, <1>3, <1>4 DEF Distinct
    <3> QED BY <3>1, <1>2
  <2>4. Elements(b) \cap Elements(c) = {}  BY <2>3, <1>2 DEF Elements
  <2> QED BY <2>1, <2>2, <2>4
<1> QED BY <1>1, <1>6, <1>7, <1>8, <1>9 DEF q

\* The first of the batch leaves.
LEMMA Shifting ==
  ASSUME NEW S, NEW b \in Seq(S), NEW c \in Seq(S), b # << >>
  PROVE  /\ Tail(b) \in Seq(S)
         /\ {Head(b)} = {(b \o c)[i] : i \in 1 .. 1}
         /\ SubSeq(b \o c, 1 + 1, Len(b \o c)) = Tail(b) \o c
         /\ 1 \in 0 .. Len(b \o c)
         /\ Elements(b \o c) = {Head(b)} \cup Elements(Tail(b) \o c)
         /\ Distinct(b \o c) => Distinct(Tail(b) \o c) /\ Head(b) \notin Elements(Tail(b) \o c)
<1> DEFINE h == << Head(b) >>
           r == Tail(b) \o c
<1>1. /\ Head(b) = b[1] /\ Head(b) \in S /\ Tail(b) \in Seq(S) /\ Len(Tail(b)) = Len(b) - 1
      /\ \A i \in 1 .. Len(Tail(b)) : Tail(b)[i] = b[i + 1]
  BY HeadTailProperties, HeadIsFirst
<1>2. Len(h) = 1 /\ h[1] = Head(b) /\ DOMAIN h = 1 .. 1  BY <1>1
<1>t. h \in Seq(S) /\ Tail(b) \in Seq(S)  BY <1>1
<1>3. Elements(h) = {Head(b)}  BY <1>2 DEF Elements
<1>4. Len(b) \in Nat \ {0} /\ Len(c) \in Nat  BY EmptySeq, LenProperties
<1> HIDE DEF h
<1>5. h \o Tail(b) = b
  <2>1. /\ h \o Tail(b) \in Seq(S) /\ Len(h \o Tail(b)) = Len(h) + Len(Tail(b))
        /\ \A i \in 1 .. Len(h) + Len(Tail(b)) :
              (h \o Tail(b))[i] = IF i <= Len(h) THEN h[i] ELSE Tail(b)[i - Len(h)]
    BY <1>t, ConcatProperties
  <2>2. Len(h \o Tail(b)) = Len(b)  BY <2>1, <1>1, <1>2, <1>4
  <2>3. ASSUME NEW i \in 1 .. Len(h \o Tail(b)) PROVE (h \o Tail(b))[i] = b[i]
    <3>1. CASE i = 1  BY <3>1, <2>1, <2>2, <1>1, <1>2
    <3>2. CASE i # 1
      <4>1. /\ ~ (i <= Len(h)) /\ i - Len(h) \in 1 .. Len(Tail(b))
            /\ (i - Len(h)) + 1 = i /\ i \in 1 .. Len(h) + Len(Tail(b))
        BY <3>2, <2>1, <2>2, <1>1, <1>2, <1>4
      <4>2. (h \o Tail(b))[i] = Tail(b)[i - Len(h)]  BY <4>1, <2>1
      <4>3. Tail(b)[i - Len(h)] = b[(i - Len(h)) + 1]  BY <4>1, <1>1
      <4> QED BY <4>1, <4>2, <4>3
    <3> QED BY <3>1, <3>2
  <2> QED BY <2>1, <2>2, <2>3, SeqEqual
<1>6. r \in Seq(S)  BY <1>1, ConcatProperties
<1>7. h \o r = b \o c
  <2>1. (h \o Tail(b)) \o c = h \o (Tail(b) \o c)  BY <1>t, ConcatAssociative
  <2> QED BY <2>1, <1>5
<1> HIDE DEF r
<1>8. /\ Len(h \o r) = Len(h) + Len(r)
      /\ Elements(h \o r) = Elements(h) \cup Elements(r)
      /\ Elements(h) = {(h \o r)[i] : i \in 1 .. Len(h)}
      /\ SubSeq(h \o r, Len(h) + 1, Len(h \o r)) = r
      /\ Distinct(h \o r) => Distinct(r) /\ Elements(h) \cap Elements(r) = {}
  BY <1>t, <1>6, Splitting
<1>9. 1 \in 0 .. Len(b \o c)
  <2>1. Len(r) \in Nat  BY <1>6, LenProperties
  <2> QED BY <2>1, <1>2, <1>7, <1>8
<1>10. /\ Elements(b \o c) = {Head(b)} \cup Elements(r)
       /\ {Head(b)} = {(b \o c)[i] : i \in 1 .. 1}
       /\ SubSeq(b \o c, 1 + 1, Len(b \o c)) = r
  BY <1>2, <1>3, <1>7, <1>8, Zenon
<1>11. ASSUME Distinct(b \o c) PROVE Distinct(r) /\ Head(b) \notin Elements(r)
  BY <1>11, <1>3, <1>7, <1>8
<1> QED BY <1>1, <1>9, <1>10, <1>11 DEF r

----------------------------------------------------------------------------
\* The usage collector.  A record in the channel has no row, one in the batch has
\* one only from an INSERT whose answer was lost, and none that was dropped comes
\* back: without this a row could be doubled by a record that is queued twice.
uQueue == uBatch \o uChan

UsageInv == /\ UsageTypeOK
            /\ Distinct(uQueue)
            /\ \A e \in Elements(uChan) : uRows[e] = 0
            /\ \A e \in Elements(uBatch) : uRows[e] > 0 => e \in uUnsure
            /\ Elements(uQueue) \cap uLost = {}
            /\ BilledOnce

LEMMA UsageStarts ==
  ASSUME UsageInit PROVE UsageInv /\ UsageLedger!LedgerInit
<1>1. uChan = << >> /\ uBatch = << >> /\ uQueue = << >>
  <2>1. << >> \in Seq(Entries)  BY EmptySeq
  <2>2. << >> \o << >> = << >>  BY <2>1, ConcatEmptySeq
  <2> QED BY <2>2 DEF UsageInit, uQueue
<1>2. Elements(<< >>) = {} /\ Distinct(<< >>)  BY EmptyQueue
<1>3. /\ uRows = [e \in Entries |-> 0] /\ uUnsure = {} /\ uLost = {} /\ uTry = 0
      /\ uPhase = "select"
  BY DEF UsageInit
<1>8. uStop = FALSE /\ signalled = FALSE  BY DEF UsageInit
<1>12. uStop \in BOOLEAN /\ signalled \in BOOLEAN  BY <1>8
<1>4. << >> \in Seq(Entries)  BY EmptySeq
<1>5. UsageTypeOK  BY <1>1, <1>3, <1>4, <1>12 DEF UsageTypeOK, Attempts
<1>6. BilledOnce
  <2>1. \A e \in Entries : uRows[e] = 0 /\ e \notin uLost  BY <1>3
  <2>2. ASSUME NEW e \in Entries PROVE ~ (uRows[e] > 1)
    <3>1. uRows[e] = 0  BY <2>1
    <3> QED BY <3>1
  <2> QED BY <2>1, <2>2 DEF BilledOnce
<1>7. UsageInv  BY <1>1, <1>2, <1>3, <1>5, <1>6 DEF UsageInv
<1>9. {e \in Entries : uRows[e] > 0} = {}  BY <1>3
<1>10. UsageLedger!LedgerInit
  BY <1>1, <1>3, <1>8, <1>9, Zenon DEF UsageLedger!LedgerInit, uQueue
<1> QED BY <1>7, <1>10

\* The steps that move a record, each with what it does to the ledger.
LEMMA UsageMoves ==
  ASSUME UsageInv, Collect
  PROVE  UsageInv' /\ UNCHANGED UsageLedger!ledger
<1>1. /\ uChan \in Seq(Entries) /\ uBatch \in Seq(Entries) /\ uChan # << >>
      /\ uBatch' = Append(uBatch, Head(uChan)) /\ uChan' = Tail(uChan)
  BY DEF UsageInv, UsageTypeOK, Collect
<1>2. /\ Head(uChan) \in Entries /\ Head(uChan) \in Elements(uChan)
      /\ uChan' \in Seq(Entries)
  BY <1>1, HeadIsFirst, HeadTailProperties
<1>3. /\ uBatch' \in Seq(Entries)
      /\ Elements(uBatch') = Elements(uBatch) \cup {Head(uChan)}
  BY <1>1, <1>2, AppendProperties, AppendElements
<1>4. uQueue' = uQueue  BY <1>1, Gathering DEF uQueue
<1>5. Elements(uChan') \subseteq Elements(uChan)  BY <1>1, TailElements
<1>6. UNCHANGED << uRows, uUnsure, uLost, uTry, uStop, signalled >>  BY DEF Collect
<1>7. uPhase' \in {"select", "flush"}  BY DEF Collect
<1>8. UsageTypeOK'  BY <1>2, <1>3, <1>6, <1>7, UsageInv DEF UsageInv, UsageTypeOK
<1>9. Distinct(uQueue)' /\ (Elements(uQueue) \cap uLost = {})'  BY <1>4, <1>6 DEF UsageInv
<1>10. (\A e \in Elements(uChan) : uRows[e] = 0)'  BY <1>5, <1>6 DEF UsageInv
<1>11. \A e \in Elements(uBatch) \cup {Head(uChan)} : uRows[e] > 0 => e \in uUnsure
  <2>1. uRows[Head(uChan)] = 0  BY <1>2 DEF UsageInv
  <2>2. ~ (uRows[Head(uChan)] > 0)  BY <2>1
  <2> QED BY <2>2 DEF UsageInv
<1>12. (\A e \in Elements(uBatch) : uRows[e] > 0 => e \in uUnsure)'  BY <1>3, <1>6, <1>11
<1>13. BilledOnce'  BY <1>6 DEF UsageInv, BilledOnce
<1>14. UNCHANGED UsageLedger!ledger  BY <1>4, <1>6 DEF UsageLedger!ledger, uQueue
<1> QED BY <1>8, <1>9, <1>10, <1>12, <1>13, <1>14 DEF UsageInv

LEMMA UsageTakes ==
  ASSUME UsageInv, NEW e \in Entries, RecordUsage(e)
  PROVE  UsageInv' /\ [UsageLedger!LedgerNext]_(UsageLedger!ledger)
<1>1. /\ uChan \in Seq(Entries) /\ uBatch \in Seq(Entries) /\ uQueue \in Seq(Entries)
      /\ Len(uQueue) = Len(uBatch) + Len(uChan)
      /\ Elements(uQueue) = Elements(uBatch) \cup Elements(uChan)
  BY Splitting DEF UsageInv, UsageTypeOK, uQueue
<1>2. e \notin Elements(uQueue) /\ e \notin uLost /\ ~ (uRows[e] > 0)
  BY <1>1 DEF RecordUsage, UsageSeen
<1>3. uRows[e] = 0  BY <1>2 DEF UsageInv, UsageTypeOK
<1>4. UNCHANGED << uBatch, uRows, uUnsure, uTry, uPhase, uStop, signalled >>  BY DEF RecordUsage
<1>5. e \notin UsageLedger!Held  BY <1>2 DEF UsageLedger!Held, Elements, uQueue
<1>6. UsageLedger!Fresh(e)  BY <1>2, <1>5 DEF UsageLedger!Fresh
<1>7. CASE Len(uChan) < UsageCap
  <2>1. uChan' = Append(uChan, e) /\ uLost' = uLost  BY <1>7 DEF RecordUsage
  <2>2. uChan' \in Seq(Entries) /\ Elements(uChan') = Elements(uChan) \cup {e}
    BY <2>1, <1>1, AppendProperties, AppendElements
  <2>3. uQueue' = Append(uQueue, e)  BY <2>1, <1>1, <1>4, Sending DEF uQueue
  <2>4. Distinct(uQueue)' /\ Elements(uQueue') = Elements(uQueue) \cup {e}
    BY <2>3, <1>1, <1>2, AppendDistinct, AppendElements DEF UsageInv
  <2>5. (Elements(uQueue) \cap uLost = {})'  BY <2>1, <2>4, <1>2 DEF UsageInv
  <2>6. UsageTypeOK'  BY <2>1, <2>2, <1>4 DEF UsageInv, UsageTypeOK
  <2>7. (\A x \in Elements(uChan) : uRows[x] = 0)'  BY <2>2, <1>3, <1>4 DEF UsageInv
  <2>8. (\A x \in Elements(uBatch) : uRows[x] > 0 => x \in uUnsure)'  BY <1>4 DEF UsageInv
  <2>9. BilledOnce'  BY <2>1, <1>4 DEF UsageInv, BilledOnce
  <2>10. UsageLedger!Take(e)
    BY <2>1, <2>3, <1>4, <1>6 DEF UsageLedger!Take, uQueue
  <2>11. UsageInv'  BY <2>4, <2>5, <2>6, <2>7, <2>8, <2>9 DEF UsageInv
  <2> QED BY <2>10, <2>11 DEF UsageLedger!LedgerNext
<1>8. CASE ~ (Len(uChan) < UsageCap)
  <2>1. uChan' = uChan /\ uLost' = uLost \cup {e}  BY <1>8 DEF RecordUsage
  <2>2. uQueue' = uQueue  BY <2>1, <1>4 DEF uQueue
  <2>3. (Elements(uQueue) \cap uLost = {})'  BY <2>1, <2>2, <1>2 DEF UsageInv
  <2>4. UsageTypeOK'  BY <2>1, <1>4 DEF UsageInv, UsageTypeOK
  <2>5. BilledOnce'  BY <2>1, <1>3, <1>4 DEF UsageInv, BilledOnce
  <2>6. UsageInv'  BY <2>1, <2>2, <2>3, <2>4, <2>5, <1>4 DEF UsageInv
  <2>7. Len(uQueue) >= UsageCap
    <3>1. Len(uChan) \in Nat /\ Len(uBatch) \in Nat  BY <1>1, LenProperties
    <3> QED BY <3>1, <1>1, <1>8, UsageAssumption
  <2>8. UsageLedger!Refuse(e)
    BY <2>1, <2>2, <2>7, <1>4, <1>6 DEF UsageLedger!Refuse, uQueue
  <2> QED BY <2>6, <2>8 DEF UsageLedger!LedgerNext
<1> QED BY <1>7, <1>8

\* What an INSERT of the batch does to the rows.
LEMMA Inserting ==
  ASSUME UsageInv
  PROVE  /\ Inserted \in [Entries -> 0 .. 2]
         /\ \A e \in Entries : /\ e \notin Elements(uBatch) => Inserted[e] = uRows[e]
                               /\ e \in Elements(uBatch) => Inserted[e] > 0
                               /\ Inserted[e] > 1 => uRows[e] > 0
         /\ {e \in Entries : Inserted[e] > 0}
               = {e \in Entries : uRows[e] > 0} \cup Elements(uBatch)
<1>1. uRows \in [Entries -> 0 .. 2]  BY DEF UsageInv, UsageTypeOK
<1>2. Elements(uBatch) \subseteq Entries  BY ElementsIn DEF UsageInv, UsageTypeOK
<1>3. \A e \in Entries : uRows[e] \in 0 .. 2
        /\ Inserted[e] = IF e \in Elements(uBatch) THEN OneMore(uRows[e]) ELSE uRows[e]
  BY <1>1 DEF Inserted
<1>4. \A n \in 0 .. 2 : OneMore(n) \in 1 .. 2 /\ (OneMore(n) > 1 => n > 0)  BY DEF OneMore
<1>5. \A e \in Entries : /\ e \notin Elements(uBatch) => Inserted[e] = uRows[e]
                         /\ e \in Elements(uBatch) => Inserted[e] > 0
                         /\ Inserted[e] > 1 => uRows[e] > 0
                         /\ Inserted[e] \in 0 .. 2
  <2> TAKE e \in Entries
  <2>1. OneMore(uRows[e]) \in 1 .. 2 /\ (OneMore(uRows[e]) > 1 => uRows[e] > 0)
    BY <1>3, <1>4
  <2>2. CASE e \in Elements(uBatch)
    <3>1. Inserted[e] = OneMore(uRows[e])  BY <2>2, <1>3
    <3> QED BY <2>1, <2>2, <3>1
  <2>3. CASE e \notin Elements(uBatch)
    <3>1. Inserted[e] = uRows[e] /\ uRows[e] \in 0 .. 2  BY <2>3, <1>3
    <3> QED BY <2>3, <3>1
  <2> QED BY <2>2, <2>3
<1>6. Inserted \in [Entries -> 0 .. 2]  BY <1>5 DEF Inserted
<1>7. {e \in Entries : Inserted[e] > 0}
        = {e \in Entries : uRows[e] > 0} \cup Elements(uBatch)
  BY <1>2, <1>5
<1> QED BY <1>5, <1>6, <1>7

\* The batch as the oldest entries of the ledger.
LEMMA UsageBatchOldest ==
  ASSUME UsageInv
  PROVE  /\ uBatch \in Seq(Entries) /\ uChan \in Seq(Entries)
         /\ Len(uBatch) \in 0 .. Len(uQueue)
         /\ UsageLedger!Oldest(Len(uBatch)) = Elements(uBatch)
         /\ UsageLedger!Younger(Len(uBatch)) = uChan
         /\ UsageLedger!Oldest(0) = {}
         /\ Elements(uBatch) \cap Elements(uChan) = {}
         /\ Elements(uBatch) \subseteq Elements(uQueue) /\ Elements(uChan) \subseteq Elements(uQueue)
         /\ Distinct(uChan) /\ << >> \o uChan = uChan
<1>1. uBatch \in Seq(Entries) /\ uChan \in Seq(Entries)  BY DEF UsageInv, UsageTypeOK
<1>2. Len(uBatch) \in Nat /\ Len(uChan) \in Nat  BY <1>1, LenProperties
<1>3. /\ Len(uQueue) = Len(uBatch) + Len(uChan)
      /\ Elements(uQueue) = Elements(uBatch) \cup Elements(uChan)
      /\ Elements(uBatch) = {uQueue[i] : i \in 1 .. Len(uBatch)}
      /\ SubSeq(uQueue, Len(uBatch) + 1, Len(uQueue)) = uChan
      /\ Distinct(uQueue) => /\ Distinct(uBatch) /\ Distinct(uChan)
                             /\ Elements(uBatch) \cap Elements(uChan) = {}
  BY <1>1, Splitting DEF uQueue
<1>4. Len(uBatch) \in 0 .. Len(uQueue)  BY <1>2, <1>3
<1>5. UsageLedger!Oldest(Len(uBatch)) = Elements(uBatch)  BY <1>3 DEF UsageLedger!Oldest, uQueue
<1>6. UsageLedger!Younger(Len(uBatch)) = uChan  BY <1>3 DEF UsageLedger!Younger, uQueue
<1>7. UsageLedger!Oldest(0) = {}  BY DEF UsageLedger!Oldest
<1>8. << >> \o uChan = uChan  BY <1>1, ConcatEmptySeq
<1> QED BY <1>1, <1>3, <1>4, <1>5, <1>6, <1>7, <1>8 DEF UsageInv

LEMMA UsageStores ==
  ASSUME UsageInv, UsageInserted
  PROVE  UsageInv' /\ UsageLedger!LedgerNext
<1>1. /\ uRows' = Inserted /\ uBatch' = << >> /\ uTry' = 0
      /\ uPhase' \in {"select", "ended"}
      /\ UNCHANGED << uChan, uUnsure, uLost, uStop, signalled >>
  BY DEF UsageInserted, AfterFlush
<1>2. uQueue' = uChan  BY <1>1, UsageBatchOldest DEF uQueue
<1>3. << >> \in Seq(Entries)  BY EmptySeq
<1>4. UsageTypeOK'  BY <1>1, <1>3, Inserting DEF UsageInv, UsageTypeOK, Attempts
<1>5. Distinct(uQueue)' /\ (Elements(uQueue) \cap uLost = {})'
  BY <1>1, <1>2, UsageBatchOldest DEF UsageInv
<1>6. (\A e \in Elements(uChan) : uRows[e] = 0)'
  <2>1. \A e \in Elements(uChan) : e \in Entries /\ e \notin Elements(uBatch) /\ uRows[e] = 0
    BY UsageBatchOldest, ElementsIn DEF UsageInv
  <2>2. ASSUME NEW e \in Elements(uChan) PROVE Inserted[e] = 0
    <3>1. Inserted[e] = uRows[e]  BY <2>1, Inserting
    <3> QED BY <2>1, <3>1
  <2> QED BY <1>1, <2>2
<1>7. (\A e \in Elements(uBatch) : uRows[e] > 0 => e \in uUnsure)'  BY <1>1, EmptyQueue
<1>8. BilledOnce'
  <2>1. ASSUME NEW e \in Entries
        PROVE  (Inserted[e] > 1 => e \in uUnsure) /\ (e \in uLost => Inserted[e] = 0)
    <3>1. CASE e \in Elements(uBatch)
      <4>1. e \in Elements(uQueue)  BY <3>1, UsageBatchOldest
      <4>2. e \notin uLost  BY <4>1 DEF UsageInv
      <4>3. Inserted[e] > 1 => uRows[e] > 0  BY Inserting
      <4>4. uRows[e] > 0 => e \in uUnsure  BY <3>1 DEF UsageInv
      <4> QED BY <4>2, <4>3, <4>4
    <3>2. CASE e \notin Elements(uBatch)
      <4>1. Inserted[e] = uRows[e]  BY <3>2 DEF Inserted
      <4> QED BY <4>1 DEF UsageInv, BilledOnce
    <3> QED BY <3>1, <3>2
  <2> QED BY <1>1, <2>1 DEF BilledOnce
<1>9. UsageInv'  BY <1>4, <1>5, <1>6, <1>7, <1>8 DEF UsageInv
<1>10. {e \in Entries : uRows[e] > 0}'
         = {e \in Entries : uRows[e] > 0} \cup UsageLedger!Oldest(Len(uBatch))
  BY <1>1, Inserting, UsageBatchOldest
<1>11. (uBatch \o uChan)' = UsageLedger!Younger(Len(uBatch))
  BY <1>2, UsageBatchOldest DEF uQueue
<1>12. Len(uBatch) \in 0 .. Len(uBatch \o uChan)  BY UsageBatchOldest DEF uQueue
<1>13. \E k \in 0 .. Len(uBatch \o uChan) : UsageLedger!Store(k)
  BY <1>1, <1>10, <1>11, <1>12 DEF UsageLedger!Store
<1> QED BY <1>9, <1>13 DEF UsageLedger!LedgerNext

LEMMA UsageIsRefused ==
  ASSUME UsageInv, UsageInsertFails
  PROVE  UsageInv' /\ UsageLedger!LedgerNext
<1>1. /\ uTry \in 0 .. 2 /\ uTry' = uTry + 1
      /\ UNCHANGED << uChan, uBatch, uLost, uPhase, uStop, signalled >>
  BY DEF UsageInv, UsageTypeOK, UsageInsertFails, Flushing, Attempts
<1>2. uTry' \in 0 .. 3  BY <1>1
<1>3. uQueue' = uQueue  BY <1>1 DEF uQueue
<1>4. CASE uRows' = uRows /\ uUnsure' = uUnsure
  <2>1. UsageTypeOK'  BY <1>1, <1>2, <1>4 DEF UsageInv, UsageTypeOK, Attempts
  <2>2. BilledOnce'  BY <1>1, <1>4 DEF UsageInv, BilledOnce
  <2>3. UsageInv'  BY <1>1, <1>3, <1>4, <2>1, <2>2 DEF UsageInv
  <2>4. {e \in Entries : uRows[e] > 0}' = {e \in Entries : uRows[e] > 0} \cup UsageLedger!Oldest(0)
    BY <1>4, UsageBatchOldest
  <2>5. 0 \in 0 .. Len(uBatch \o uChan)  BY UsageBatchOldest DEF uQueue
  <2>6. UsageLedger!Fail
    BY <1>1, <1>3, <2>4, <2>5 DEF UsageLedger!Fail, uQueue
  <2> QED BY <2>3, <2>6 DEF UsageLedger!LedgerNext
<1>5. CASE uRows' = Inserted /\ uUnsure' = uUnsure \cup Elements(uBatch)
  <2>1. Elements(uBatch) \subseteq Entries  BY UsageBatchOldest, ElementsIn
  <2>2. UsageTypeOK'  BY <1>1, <1>2, <1>5, <2>1, Inserting DEF UsageInv, UsageTypeOK, Attempts
  <2>3. (\A e \in Elements(uChan) : uRows[e] = 0)'
    <3>1. \A e \in Elements(uChan) : e \in Entries /\ e \notin Elements(uBatch) /\ uRows[e] = 0
      BY UsageBatchOldest, ElementsIn DEF UsageInv
    <3>2. ASSUME NEW e \in Elements(uChan) PROVE Inserted[e] = 0
      <4>1. Inserted[e] = uRows[e]  BY <3>1, Inserting
      <4> QED BY <3>1, <4>1
    <3> QED BY <1>1, <1>5, <3>2
  <2>4. (\A e \in Elements(uBatch) : uRows[e] > 0 => e \in uUnsure)'  BY <1>1, <1>5
  <2>5. ASSUME NEW e \in Entries
        PROVE  /\ Inserted[e] > 1 => e \in uUnsure \cup Elements(uBatch)
               /\ e \in uLost => Inserted[e] = 0
    <3>1. CASE e \in Elements(uBatch)
      <4>1. e \in Elements(uQueue)  BY <3>1, UsageBatchOldest
      <4>2. e \notin uLost  BY <4>1 DEF UsageInv
      <4> QED BY <3>1, <4>2
    <3>2. CASE e \notin Elements(uBatch)
      <4>1. Inserted[e] = uRows[e]  BY <3>2 DEF Inserted
      <4> QED BY <4>1 DEF UsageInv, BilledOnce
    <3> QED BY <3>1, <3>2
  <2>6. BilledOnce'  BY <1>1, <1>5, <2>5 DEF BilledOnce
  <2>7. UsageInv'  BY <1>1, <1>3, <2>2, <2>3, <2>4, <2>6 DEF UsageInv
  <2>8. {e \in Entries : uRows[e] > 0}'
          = {e \in Entries : uRows[e] > 0} \cup UsageLedger!Oldest(Len(uBatch))
    BY <1>5, Inserting, UsageBatchOldest
  <2>9. Len(uBatch) \in 0 .. Len(uBatch \o uChan)  BY UsageBatchOldest DEF uQueue
  <2>10. UsageLedger!Fail
    BY <1>1, <1>3, <2>8, <2>9 DEF UsageLedger!Fail, uQueue
  <2> QED BY <2>7, <2>10 DEF UsageLedger!LedgerNext
<1> QED BY <1>4, <1>5 DEF UsageInsertFails

LEMMA UsageDrops ==
  ASSUME UsageInv, UsageGivesUp
  PROVE  UsageInv' /\ UsageLedger!LedgerNext
<1>1. /\ uTry = 3 /\ uBatch' = << >> /\ uTry' = 0
      /\ uPhase' \in {"select", "ended"}
      /\ uLost' = uLost \cup {e \in Elements(uBatch) : uRows[e] = 0}
      /\ UNCHANGED << uChan, uRows, uUnsure, uStop, signalled >>
  BY DEF UsageGivesUp, AfterFlush, Attempts
<1>2. uQueue' = uChan  BY <1>1, UsageBatchOldest DEF uQueue
<1>3. << >> \in Seq(Entries)  BY EmptySeq
<1>4. Elements(uBatch) \subseteq Entries  BY UsageBatchOldest, ElementsIn
<1>5. UsageTypeOK'  BY <1>1, <1>3, <1>4 DEF UsageInv, UsageTypeOK, Attempts
<1>6. Distinct(uQueue)' /\ (Elements(uQueue) \cap uLost = {})'
  BY <1>1, <1>2, UsageBatchOldest DEF UsageInv
<1>7. (\A e \in Elements(uBatch) : uRows[e] > 0 => e \in uUnsure)'  BY <1>1, EmptyQueue
<1>8. BilledOnce'  BY <1>1 DEF UsageInv, BilledOnce
<1>9. UsageInv'  BY <1>1, <1>5, <1>6, <1>7, <1>8 DEF UsageInv
<1>10. uLost' = uLost \cup (UsageLedger!Oldest(Len(uBatch)) \ {e \in Entries : uRows[e] > 0})
  <2>1. \A e \in Elements(uBatch) : uRows[e] = 0 <=> ~ (uRows[e] > 0)
    BY <1>4 DEF UsageInv, UsageTypeOK
  <2> QED BY <1>1, <1>4, <2>1, UsageBatchOldest
<1>11. (uBatch \o uChan)' = UsageLedger!Younger(Len(uBatch))
  BY <1>2, UsageBatchOldest DEF uQueue
<1>12. UsageLedger!GiveUp(Len(uBatch))
  BY <1>1, <1>10, <1>11 DEF UsageLedger!GiveUp
<1>13. Len(uBatch) \in 0 .. Len(uBatch \o uChan)  BY UsageBatchOldest DEF uQueue
<1> QED BY <1>9, <1>12, <1>13 DEF UsageLedger!LedgerNext

\* The worker's other steps and the two ways of telling it to stop move no record.
LEMMA UsageWaits ==
  ASSUME UsageInv,
         UNCHANGED << uChan, uBatch, uRows, uUnsure, uLost, uTry >>,
         uPhase' \in {"select", "flush", "last", "ended"},
         uStop' \in BOOLEAN, signalled' \in BOOLEAN,
         uStop' = uStop \/ uStop' = TRUE
  PROVE  UsageInv' /\ [UsageLedger!LedgerNext]_(UsageLedger!ledger)
<1>1. UsageTypeOK'  BY DEF UsageInv, UsageTypeOK
<1>2. BilledOnce'  BY DEF UsageInv, BilledOnce
<1>3. uQueue' = uQueue  BY DEF uQueue
<1>4. UsageInv'  BY <1>1, <1>2, <1>3 DEF UsageInv
<1>5. /\ (uBatch \o uChan)' = uBatch \o uChan
      /\ {e \in Entries : uRows[e] > 0}' = {e \in Entries : uRows[e] > 0}
      /\ uLost' = uLost /\ uTry' = uTry
  OBVIOUS
<1>6. CASE uStop' = uStop  BY <1>4, <1>5, <1>6 DEF UsageLedger!ledger
<1>7. CASE uStop' = TRUE
  <2>1. UsageLedger!LedgerClose  BY <1>5, <1>7 DEF UsageLedger!LedgerClose
  <2> QED BY <1>4, <2>1 DEF UsageLedger!LedgerNext
<1> QED BY <1>6, <1>7

LEMMA UsageSteps ==
  ASSUME UsageInv, [UsageNext]_usage
  PROVE  UsageInv' /\ [UsageLedger!LedgerNext]_(UsageLedger!ledger)
<1>1. /\ uPhase \in {"select", "flush", "last", "ended"}
      /\ uStop \in BOOLEAN /\ signalled \in BOOLEAN
  BY DEF UsageInv, UsageTypeOK
<1>2. CASE FlushTick
  <2>1. /\ UNCHANGED << uChan, uBatch, uRows, uUnsure, uLost, uTry >>
        /\ uPhase' = "flush" /\ uStop' = uStop /\ signalled' = signalled
    BY <1>2 DEF FlushTick
  <2> QED BY <2>1, <1>1, UsageWaits
<1>3. CASE WorkerLeaves
  <2>1. /\ UNCHANGED << uChan, uBatch, uRows, uUnsure, uLost, uTry >>
        /\ uPhase' \in {"last", "ended"} /\ uStop' = uStop /\ signalled' = signalled
    BY <1>3 DEF WorkerLeaves
  <2> QED BY <2>1, <1>1, UsageWaits
<1>4. CASE StopUsage
  <2>1. /\ UNCHANGED << uChan, uBatch, uRows, uUnsure, uLost, uTry >>
        /\ uPhase' = uPhase /\ uStop' = TRUE /\ signalled' = signalled
    BY <1>4 DEF StopUsage
  <2> QED BY <2>1, <1>1, UsageWaits
<1>5. CASE SignalUsage
  <2>1. /\ UNCHANGED << uChan, uBatch, uRows, uUnsure, uLost, uTry >>
        /\ uPhase' = uPhase /\ uStop' = uStop /\ signalled' = TRUE
    BY <1>5 DEF SignalUsage
  <2> QED BY <2>1, <1>1, UsageWaits
<1>6. CASE UNCHANGED usage
  <2>1. /\ UNCHANGED << uChan, uBatch, uRows, uUnsure, uLost, uTry >>
        /\ uPhase' = uPhase /\ uStop' = uStop /\ signalled' = signalled
    BY <1>6 DEF usage
  <2> QED BY <2>1, <1>1, UsageWaits
<1>7. CASE Collect  BY <1>7, UsageMoves
<1>8. CASE UsageInserted  BY <1>8, UsageStores
<1>9. CASE UsageInsertFails  BY <1>9, UsageIsRefused
<1>10. CASE UsageGivesUp  BY <1>10, UsageDrops
<1>11. ASSUME NEW e \in Entries, RecordUsage(e)
       PROVE  UsageInv' /\ [UsageLedger!LedgerNext]_(UsageLedger!ledger)
  BY <1>11, UsageTakes
<1> QED BY <1>2, <1>3, <1>4, <1>5, <1>6, <1>7, <1>8, <1>9, <1>10, <1>11
           DEF UsageNext, UsageWorker

\* Requests, shutdown and retention do nothing else to the collector.
LEMMA RecordsUsage ==
  ASSUME [RecordsNext]_records PROVE [UsageNext]_usage
<1>1. CASE UNCHANGED records  BY <1>1 DEF records
<1>2. CASE Work  BY <1>2 DEF Work, UsageNext
<1>3. CASE LogWork  BY <1>3 DEF LogWork
<1>4. CASE Retain  BY <1>4 DEF Retain
<1>5. ASSUME NEW e \in Entries, Open(e) \/ Logged(e) \/ Age(e) PROVE UNCHANGED usage
  BY <1>5 DEF Open, Logged, Age
<1>6. ASSUME NEW e \in Entries, Account(e) PROVE UsageNext
  BY <1>6 DEF Account, UsageNext
<1>7. CASE Signal  BY <1>7 DEF Signal, UsageNext
<1>8. CASE ListenFails  BY <1>8 DEF ListenFails, UsageNext
<1>9. CASE Drained  BY <1>9 DEF Drained, UsageNext
<1>10. CASE UsageStopped  BY <1>10 DEF UsageStopped
<1>11. CASE LogStopped  BY <1>11 DEF LogStopped
<1>12. CASE Ended  BY <1>12 DEF Ended, records
<1> QED BY <1>1, <1>2, <1>3, <1>4, <1>5, <1>6, <1>7, <1>8, <1>9, <1>10, <1>11, <1>12
           DEF RecordsNext

\* Billing: no usage record is stored twice unless the answer of an INSERT was lost,
\* and none that was dropped is stored, whatever fails and whenever the process stops.
THEOREM RecordsBillOnce == RecordsSpec => []BilledOnce
<1>1. RecordsInit => UsageInv  BY UsageStarts DEF RecordsInit
<1>2. UsageInv /\ [RecordsNext]_records => UsageInv'  BY RecordsUsage, UsageSteps
<1>3. UsageInv => BilledOnce  BY DEF UsageInv
<1> QED BY <1>1, <1>2, <1>3, PTL DEF RecordsSpec

\* The collector under requests and shutdown implements the ledger.
THEOREM UsageImplementsLedger == RecordsSpec => UsageKeepsLedger
<1>1. RecordsInit => UsageInv /\ UsageLedger!LedgerInit  BY UsageStarts DEF RecordsInit
<1>2. UsageInv /\ [RecordsNext]_records
        => UsageInv' /\ [UsageLedger!LedgerNext]_(UsageLedger!ledger)
  BY RecordsUsage, UsageSteps
<1> QED BY <1>1, <1>2, PTL DEF RecordsSpec, UsageKeepsLedger, UsageLedger!LedgerSpec

----------------------------------------------------------------------------
\* The access log.  Rows are inserted one by one, so that the batch itself says how
\* far an attempt has come; only the row of its head may exist, from a lost answer.
aQueue == aBatch \o aChan

Untouched(e) == e \notin Elements(aQueue) /\ aRows[e] = 0 /\ e \notin aLost

LogInv == /\ aChan \in Seq(Entries) /\ aBatch \in Seq(Entries)
          /\ aRows \in [Entries -> 0 .. 2]
          /\ aTry \in 0 .. 3
          /\ Distinct(aQueue)
          /\ \A e \in Elements(aQueue) : e \notin aLost /\ (aRows[e] > 0 => e \in aUnsure)
          /\ LoggedOnce

\* Who has not pushed its entry, or is about to send it, has none in the log.
Early == {e \in Entries : req[e] \in {"idle", "open"}}
Requested == /\ req \in [Entries -> {"idle", "open", "logging", "done"}]
             /\ Early \cap pushing = {}
             /\ \A e \in Entries : e \in pushing \cup Early => Untouched(e)

LEMMA LogStarts ==
  ASSUME RecordsInit PROVE LogInv /\ Requested /\ LogLedger!LedgerInit
<1>1. /\ aChan = << >> /\ aBatch = << >> /\ aRows = [e \in Entries |-> 0] /\ aTry = 0
      /\ aUnsure = {} /\ aLost = {} /\ pushing = {}
  BY DEF RecordsInit, LogInit
<1>2. << >> \in Seq(Entries)  BY EmptySeq
<1>3. << >> \o << >> = << >>  BY <1>2, ConcatEmptySeq
<1>4. aQueue = << >>  BY <1>1, <1>3 DEF aQueue
<1>5. \A e \in Entries : aRows[e] = 0  BY <1>1
<1>6. LoggedOnce
  <2>1. ASSUME NEW e \in Entries PROVE ~ (aRows[e] > 1)
    <3>1. aRows[e] = 0  BY <1>5
    <3> QED BY <3>1
  <2> QED BY <2>1 DEF LoggedOnce
<1>7. LogInv  BY <1>1, <1>2, <1>4, <1>6, EmptyQueue DEF LogInv
<1>8. req \in [Entries -> {"idle", "open", "logging", "done"}]  BY DEF RecordsInit
<1>9. Requested  BY <1>1, <1>4, <1>5, <1>8, EmptyQueue DEF Requested, Early, Untouched
<1>10. aStop = FALSE  BY DEF RecordsInit, LogInit
<1>11. {e \in Entries : aRows[e] > 0} = {}  BY <1>5
<1>12. LogLedger!LedgerInit
  BY <1>1, <1>4, <1>10, <1>11, Zenon DEF LogLedger!LedgerInit, aQueue
<1> QED BY <1>7, <1>8, <1>9, <1>12

\* The steps of the worker: each keeps the invariant, the entries that have not been
\* pushed, and the ledger.
LEMMA LogGathers ==
  ASSUME LogInv, NEW full, NEW otherwise, Gather(full, otherwise)
  PROVE  /\ LogInv'
         /\ \A e \in Entries : Untouched(e) => Untouched(e)'
         /\ [LogLedger!LedgerNext]_(LogLedger!ledger)
<1>1. /\ aChan \in Seq(Entries) /\ aBatch \in Seq(Entries) /\ aChan # << >>
      /\ aBatch' = Append(aBatch, Head(aChan)) /\ aChan' = Tail(aChan)
      /\ UNCHANGED << aRows, aUnsure, aLost, aTry, aStop >>
  BY DEF LogInv, Gather
<1>2. Head(aChan) \in Entries /\ aChan' \in Seq(Entries)  BY <1>1, HeadIsFirst, HeadTailProperties
<1>3. aBatch' \in Seq(Entries)  BY <1>1, <1>2, AppendProperties
<1>4. aQueue' = aQueue  BY <1>1, Gathering DEF aQueue
<1>5. LogInv'  BY <1>1, <1>2, <1>3, <1>4 DEF LogInv, LoggedOnce
<1>6. \A e \in Entries : Untouched(e) => Untouched(e)'  BY <1>1, <1>4 DEF Untouched
<1>7. UNCHANGED LogLedger!ledger  BY <1>1, <1>4 DEF LogLedger!ledger, aQueue
<1> QED BY <1>5, <1>6, <1>7

LEMMA LogWaits ==
  ASSUME LogInv, UNCHANGED << aChan, aBatch, aRows, aUnsure, aLost, aTry >>,
         aStop' = aStop \/ aStop' = TRUE
  PROVE  /\ LogInv'
         /\ \A e \in Entries : Untouched(e) => Untouched(e)'
         /\ [LogLedger!LedgerNext]_(LogLedger!ledger)
<1>1. aQueue' = aQueue  BY DEF aQueue
<1>2. LogInv'  BY <1>1 DEF LogInv, LoggedOnce
<1>3. \A e \in Entries : Untouched(e) => Untouched(e)'  BY <1>1 DEF Untouched
<1>4. /\ (aBatch \o aChan)' = aBatch \o aChan
      /\ {e \in Entries : aRows[e] > 0}' = {e \in Entries : aRows[e] > 0}
      /\ aLost' = aLost /\ aTry' = aTry
  OBVIOUS
<1>5. CASE aStop' = aStop  BY <1>2, <1>3, <1>4, <1>5 DEF LogLedger!ledger
<1>6. CASE aStop' = TRUE
  <2>1. LogLedger!LedgerClose  BY <1>4, <1>6 DEF LogLedger!LedgerClose
  <2> QED BY <1>2, <1>3, <2>1 DEF LogLedger!LedgerNext
<1> QED BY <1>5, <1>6

\* The head of the batch, and the batch, as the oldest entries of the ledger.
LEMMA LogBatchOldest ==
  ASSUME LogInv
  PROVE  /\ Len(aBatch) \in 0 .. Len(aQueue)
         /\ LogLedger!Oldest(Len(aBatch)) = Elements(aBatch)
         /\ LogLedger!Younger(Len(aBatch)) = aChan
         /\ LogLedger!Oldest(0) = {}
         /\ Elements(aBatch) \cap Elements(aChan) = {}
         /\ Elements(aBatch) \subseteq Elements(aQueue) /\ Elements(aChan) \subseteq Elements(aQueue)
         /\ Elements(aQueue) \subseteq Entries
         /\ Distinct(aChan) /\ << >> \o aChan = aChan
<1>1. aBatch \in Seq(Entries) /\ aChan \in Seq(Entries)  BY DEF LogInv
<1>2. Len(aBatch) \in Nat /\ Len(aChan) \in Nat  BY <1>1, LenProperties
<1>3. /\ aQueue \in Seq(Entries)
      /\ Len(aQueue) = Len(aBatch) + Len(aChan)
      /\ Elements(aQueue) = Elements(aBatch) \cup Elements(aChan)
      /\ Elements(aBatch) = {aQueue[i] : i \in 1 .. Len(aBatch)}
      /\ SubSeq(aQueue, Len(aBatch) + 1, Len(aQueue)) = aChan
      /\ Distinct(aQueue) => /\ Distinct(aBatch) /\ Distinct(aChan)
                             /\ Elements(aBatch) \cap Elements(aChan) = {}
  BY <1>1, Splitting DEF aQueue
<1>4. Len(aBatch) \in 0 .. Len(aQueue)  BY <1>2, <1>3
<1>5. LogLedger!Oldest(Len(aBatch)) = Elements(aBatch)  BY <1>3 DEF LogLedger!Oldest, aQueue
<1>6. LogLedger!Younger(Len(aBatch)) = aChan  BY <1>3 DEF LogLedger!Younger, aQueue
<1>7. LogLedger!Oldest(0) = {}  BY DEF LogLedger!Oldest
<1>8. << >> \o aChan = aChan  BY <1>1, ConcatEmptySeq
<1>9. Elements(aQueue) \subseteq Entries  BY <1>3, ElementsIn
<1> QED BY <1>3, <1>4, <1>5, <1>6, <1>7, <1>8, <1>9 DEF LogInv

LEMMA LogInserts ==
  ASSUME LogInv, InsertsOne
  PROVE  /\ LogInv'
         /\ \A e \in Entries : Untouched(e) => Untouched(e)'
         /\ LogLedger!LedgerNext
<1> DEFINE h == Head(aBatch)
<1>1. /\ aChan \in Seq(Entries) /\ aBatch \in Seq(Entries) /\ aBatch # << >>
      /\ aRows' = [aRows EXCEPT ![h] = OneMore(aRows[h])] /\ aBatch' = Tail(aBatch)
      /\ UNCHANGED << aChan, aUnsure, aLost, aTry, aStop >>
  BY DEF LogInv, InsertsOne
<1>2. h \in Entries /\ Tail(aBatch) \in Seq(Entries)  BY <1>1, HeadIsFirst, HeadTailProperties
<1>3. /\ {h} = {aQueue[i] : i \in 1 .. 1}
      /\ SubSeq(aQueue, 1 + 1, Len(aQueue)) = Tail(aBatch) \o aChan
      /\ 1 \in 0 .. Len(aQueue)
      /\ Elements(aQueue) = {h} \cup Elements(Tail(aBatch) \o aChan)
      /\ Distinct(Tail(aBatch) \o aChan) /\ h \notin Elements(Tail(aBatch) \o aChan)
  BY <1>1, Shifting DEF aQueue, LogInv
<1> HIDE DEF h
<1>4. aQueue' = Tail(aBatch) \o aChan  BY <1>1 DEF aQueue
<1>5. Elements(aQueue') \subseteq Elements(aQueue) /\ h \notin Elements(aQueue') /\ h \in Elements(aQueue)
  BY <1>3, <1>4
<1>6. aRows \in [Entries -> 0 .. 2]  BY DEF LogInv
<1>7. \A n \in 0 .. 2 : OneMore(n) \in 1 .. 2 /\ (OneMore(n) > 1 => n > 0)  BY DEF OneMore
<1>8. aRows[h] \in 0 .. 2  BY <1>2, <1>6
<1>9. aRows'[h] \in 1 .. 2 /\ (aRows'[h] > 1 => aRows[h] > 0)  BY <1>1, <1>2, <1>6, <1>7, <1>8
<1>10. \A e \in Entries : e # h => aRows'[e] = aRows[e]  BY <1>1, <1>6
<1>11. aRows' \in [Entries -> 0 .. 2]  BY <1>1, <1>2, <1>6, <1>7, <1>8
<1>12. (\A e \in Elements(aQueue) : e \notin aLost /\ (aRows[e] > 0 => e \in aUnsure))'
  <2>1. ASSUME NEW e \in Elements(aQueue')
        PROVE  e \notin aLost /\ (aRows'[e] > 0 => e \in aUnsure)
    <3>1. e \in Elements(aQueue) /\ e # h  BY <1>5
    <3>2. e \in Entries  BY <3>1, LogBatchOldest
    <3>3. aRows'[e] = aRows[e]  BY <3>1, <3>2, <1>10
    <3> QED BY <3>1, <3>3 DEF LogInv
  <2> QED BY <2>1, <1>1
<1>13. LoggedOnce'
  <2>1. ASSUME NEW e \in Entries, aRows'[e] > 1 PROVE e \in aUnsure
    <3>1. CASE e = h
      <4>1. aRows[h] > 0  BY <2>1, <3>1, <1>9
      <4> QED BY <3>1, <4>1, <1>5 DEF LogInv
    <3>2. CASE e # h
      <4>1. aRows[e] > 1  BY <2>1, <3>2, <1>10
      <4> QED BY <4>1 DEF LogInv, LoggedOnce
    <3> QED BY <3>1, <3>2
  <2> QED BY <2>1, <1>1 DEF LoggedOnce
<1>14. LogInv'  BY <1>1, <1>2, <1>3, <1>4, <1>11, <1>12, <1>13 DEF LogInv
<1>15. \A e \in Entries : Untouched(e) => Untouched(e)'  BY <1>1, <1>5, <1>10 DEF Untouched
<1>16. {e \in Entries : aRows[e] > 0}' = {e \in Entries : aRows[e] > 0} \cup {h}
  <2>1. ASSUME NEW e \in Entries PROVE aRows'[e] > 0 <=> aRows[e] > 0 \/ e = h
    <3>1. CASE e = h  BY <3>1, <1>9
    <3>2. CASE e # h  BY <3>2, <1>10
    <3> QED BY <3>1, <3>2
  <2> QED BY <2>1, <1>2
<1>17. /\ {e \in Entries : aRows[e] > 0}'
             = {e \in Entries : aRows[e] > 0} \cup {(aBatch \o aChan)[i] : i \in 1 .. 1}
       /\ (aBatch \o aChan)' = SubSeq(aBatch \o aChan, 1 + 1, Len(aBatch \o aChan))
       /\ 1 \in 0 .. Len(aBatch \o aChan)
  BY <1>3, <1>4, <1>16 DEF aQueue
<1>18. LogLedger!Store(1)
  BY <1>1, <1>17 DEF LogLedger!Store, LogLedger!Oldest, LogLedger!Younger
<1>19. \E k \in 0 .. Len(aBatch \o aChan) : LogLedger!Store(k)  BY <1>17, <1>18
<1> QED BY <1>14, <1>15, <1>19 DEF LogLedger!LedgerNext

LEMMA LogIsRefused ==
  ASSUME LogInv, InsertFails
  PROVE  /\ LogInv'
         /\ \A e \in Entries : Untouched(e) => Untouched(e)'
         /\ LogLedger!LedgerNext
<1> DEFINE h == Head(aBatch)
<1>1. /\ aChan \in Seq(Entries) /\ aBatch \in Seq(Entries) /\ aBatch # << >>
      /\ aTry \in 0 .. 2 /\ aTry' = aTry + 1
      /\ UNCHANGED << aChan, aBatch, aLost, aStop >>
  BY DEF LogInv, InsertFails, LogAttempts
<1>2. aTry' \in 0 .. 3  BY <1>1
<1>3. aQueue' = aQueue  BY <1>1 DEF aQueue
<1>4. CASE aRows' = aRows /\ aUnsure' = aUnsure
  <2>1. LogInv'  BY <1>1, <1>2, <1>3, <1>4 DEF LogInv, LoggedOnce
  <2>2. \A e \in Entries : Untouched(e) => Untouched(e)'  BY <1>1, <1>3, <1>4 DEF Untouched
  <2>3. {e \in Entries : aRows[e] > 0}' = {e \in Entries : aRows[e] > 0} \cup LogLedger!Oldest(0)
    BY <1>4, LogBatchOldest
  <2>4. 0 \in 0 .. Len(aBatch \o aChan)  BY LogBatchOldest DEF aQueue
  <2>5. LogLedger!Fail  BY <1>1, <1>3, <2>3, <2>4 DEF LogLedger!Fail, aQueue
  <2> QED BY <2>1, <2>2, <2>5 DEF LogLedger!LedgerNext
<1>5. CASE aRows' = [aRows EXCEPT ![h] = OneMore(aRows[h])] /\ aUnsure' = aUnsure \cup {h}
  <2>1. h \in Entries /\ h \in Elements(aBatch)  BY <1>1, HeadIsFirst
  <2>2. h \in Elements(aQueue)  BY <2>1, LogBatchOldest
  <2>3. aRows \in [Entries -> 0 .. 2] /\ aRows[h] \in 0 .. 2  BY <2>1 DEF LogInv
  <2>4. \A n \in 0 .. 2 : OneMore(n) \in 1 .. 2  BY DEF OneMore
  <2>5. {h} = {aQueue[i] : i \in 1 .. 1} /\ 1 \in 0 .. Len(aQueue)
    BY <1>1, Shifting DEF aQueue
  <2> HIDE DEF h
  <2>6. aRows'[h] \in 1 .. 2  BY <1>5, <2>1, <2>3, <2>4
  <2>7. \A e \in Entries : e # h => aRows'[e] = aRows[e]  BY <1>5, <2>3
  <2>8. aRows' \in [Entries -> 0 .. 2]  BY <1>5, <2>1, <2>3, <2>4
  <2>9. ASSUME NEW e \in Elements(aQueue)
        PROVE  e \notin aLost /\ (aRows'[e] > 0 => e \in aUnsure \cup {h})
    <3>1. CASE e = h  BY <3>1 DEF LogInv
    <3>2. CASE e # h
      <4>1. e \in Entries  BY LogBatchOldest
      <4>2. aRows'[e] = aRows[e]  BY <3>2, <4>1, <2>7
      <4> QED BY <4>2 DEF LogInv
    <3> QED BY <3>1, <3>2
  <2>10. ASSUME NEW e \in Entries, aRows'[e] > 1 PROVE e \in aUnsure \cup {h}
    <3>1. CASE e # h
      <4>1. aRows[e] > 1  BY <2>10, <3>1, <2>7
      <4> QED BY <4>1 DEF LogInv, LoggedOnce
    <3> QED BY <3>1
  <2>11. LoggedOnce'  BY <1>5, <2>10 DEF LoggedOnce
  <2>12. (\A e \in Elements(aQueue) : e \notin aLost /\ (aRows[e] > 0 => e \in aUnsure))'
    BY <1>1, <1>3, <1>5, <2>9
  <2>13. LogInv'  BY <1>1, <1>2, <1>3, <2>8, <2>11, <2>12 DEF LogInv
  <2>14. \A e \in Entries : Untouched(e) => Untouched(e)'
    BY <1>1, <1>3, <2>2, <2>7 DEF Untouched
  <2>15. {e \in Entries : aRows[e] > 0}' = {e \in Entries : aRows[e] > 0} \cup {h}
    <3>1. ASSUME NEW e \in Entries PROVE aRows'[e] > 0 <=> aRows[e] > 0 \/ e = h
      <4>1. CASE e = h  BY <4>1, <2>6
      <4>2. CASE e # h  BY <4>2, <2>7
      <4> QED BY <4>1, <4>2
    <3> QED BY <3>1, <2>1
  <2>16. {e \in Entries : aRows[e] > 0}' = {e \in Entries : aRows[e] > 0} \cup LogLedger!Oldest(1)
    BY <2>5, <2>15 DEF LogLedger!Oldest, aQueue
  <2>17. 1 \in 0 .. Len(aBatch \o aChan)  BY <2>5 DEF aQueue
  <2>18. LogLedger!Fail  BY <1>1, <1>3, <2>16, <2>17 DEF LogLedger!Fail, aQueue
  <2> QED BY <2>13, <2>14, <2>18 DEF LogLedger!LedgerNext
<1> QED BY <1>4, <1>5 DEF InsertFails

LEMMA LogEnds ==
  ASSUME LogInv, FlushEnds
  PROVE  /\ LogInv'
         /\ \A e \in Entries : Untouched(e) => Untouched(e)'
         /\ LogLedger!LedgerNext
<1>1. /\ aBatch = << >> \/ aTry = 3
      /\ aBatch' = << >> /\ aTry' = 0
      /\ aLost' = aLost \cup {e \in Elements(aBatch) : aRows[e] = 0}
      /\ UNCHANGED << aChan, aRows, aUnsure, aStop >>
  BY DEF FlushEnds, LogAttempts
<1>2. aQueue' = aChan  BY <1>1, LogBatchOldest DEF aQueue
<1>3. << >> \in Seq(Entries)  BY EmptySeq
<1>4. Elements(aBatch) \subseteq Entries  BY LogBatchOldest
<1>5. (\A e \in Elements(aQueue) : e \notin aLost /\ (aRows[e] > 0 => e \in aUnsure))'
  <2>1. \A e \in Elements(aChan) : /\ e \in Elements(aQueue) /\ e \notin Elements(aBatch)
    BY LogBatchOldest
  <2>2. \A e \in Elements(aChan) : e \notin aLost' /\ (aRows[e] > 0 => e \in aUnsure)
    BY <2>1, <1>1 DEF LogInv
  <2> QED BY <2>2, <1>1, <1>2
<1>6. LogInv'  BY <1>1, <1>2, <1>3, <1>5, LogBatchOldest DEF LogInv, LoggedOnce
<1>7. \A e \in Entries : Untouched(e) => Untouched(e)'
  <2> TAKE e \in Entries
  <2>1. Untouched(e) => e \notin Elements(aBatch) /\ e \notin Elements(aChan)
    BY LogBatchOldest DEF Untouched
  <2> QED BY <2>1, <1>1, <1>2 DEF Untouched
<1>8. /\ (aBatch \o aChan)' = LogLedger!Younger(Len(aBatch))
      /\ Len(aBatch) \in 0 .. Len(aBatch \o aChan)
      /\ {e \in Entries : aRows[e] > 0}' = {e \in Entries : aRows[e] > 0}
  BY <1>1, <1>2, LogBatchOldest DEF aQueue
<1>9. CASE aBatch = << >>
  <2>1. Elements(aBatch) = {}  BY <1>9, EmptyQueue
  <2>2. aLost' = aLost /\ LogLedger!Oldest(Len(aBatch)) = {}  BY <2>1, <1>1, LogBatchOldest
  <2>3. \E k \in 0 .. Len(aBatch \o aChan) : LogLedger!Store(k)
    BY <1>1, <1>8, <2>2 DEF LogLedger!Store
  <2> QED BY <1>6, <1>7, <2>3 DEF LogLedger!LedgerNext
<1>10. CASE aTry = 3
  <2>1. \A e \in Elements(aBatch) : aRows[e] = 0 <=> ~ (aRows[e] > 0)
    BY <1>4 DEF LogInv
  <2>2. aLost' = aLost \cup (LogLedger!Oldest(Len(aBatch)) \ {e \in Entries : aRows[e] > 0})
    BY <1>1, <1>4, <2>1, LogBatchOldest
  <2>3. \E k \in 0 .. Len(aBatch \o aChan) : LogLedger!GiveUp(k)
    BY <1>1, <1>8, <1>10, <2>2 DEF LogLedger!GiveUp
  <2> QED BY <1>6, <1>7, <2>3 DEF LogLedger!LedgerNext
<1> QED BY <1>1, <1>9, <1>10

LEMMA LogWorks ==
  ASSUME LogInv, LogWorker
  PROVE  /\ LogInv'
         /\ \A e \in Entries : Untouched(e) => Untouched(e)'
         /\ [LogLedger!LedgerNext]_(LogLedger!ledger)
<1>1. CASE LogTakes \/ DrainTakes  BY <1>1, LogGathers DEF LogTakes, DrainTakes
<1>2. CASE LogTick \/ SeesStop \/ DrainEnds
  <2>1. UNCHANGED << aChan, aBatch, aRows, aUnsure, aLost, aTry >> /\ aStop' = aStop
    BY <1>2 DEF LogTick, SeesStop, DrainEnds, MovesTo
  <2> QED BY <2>1, LogWaits
<1>3. CASE InsertsOne  BY <1>3, LogInserts
<1>4. CASE InsertFails  BY <1>4, LogIsRefused
<1>5. CASE FlushEnds  BY <1>5, LogEnds
<1> QED BY <1>1, <1>2, <1>3, <1>4, <1>5 DEF LogWorker

\* What an entry does to the ledger: taken, or refused by a full channel or a closed log.
LEMMA LogTakesIn ==
  ASSUME LogInv, NEW e \in Entries, Untouched(e),
         aChan' = Append(aChan, e),
         UNCHANGED << aBatch, aRows, aUnsure, aLost, aTry, aStop >>
  PROVE  /\ LogInv'
         /\ \A x \in Entries : x # e /\ Untouched(x) => Untouched(x)'
         /\ LogLedger!LedgerNext
<1>1. /\ aChan \in Seq(Entries) /\ aBatch \in Seq(Entries) /\ aQueue \in Seq(Entries)
  BY ConcatProperties DEF LogInv, aQueue
<1>2. aChan' \in Seq(Entries)  BY <1>1, AppendProperties
<1>3. aQueue' = Append(aQueue, e)  BY <1>1, Sending DEF aQueue
<1>4. Distinct(aQueue)' /\ Elements(aQueue') = Elements(aQueue) \cup {e}
  BY <1>1, <1>3, AppendDistinct, AppendElements DEF LogInv, Untouched
<1>5. aRows[e] = 0 /\ e \notin aLost /\ e \notin Elements(aQueue)  BY DEF Untouched
<1>6. ~ (aRows[e] > 0)  BY <1>5
<1>7. (\A x \in Elements(aQueue) : x \notin aLost /\ (aRows[x] > 0 => x \in aUnsure))'
  BY <1>4, <1>5, <1>6 DEF LogInv
<1>8. LogInv'  BY <1>1, <1>2, <1>4, <1>7 DEF LogInv, LoggedOnce
<1>9. \A x \in Entries : x # e /\ Untouched(x) => Untouched(x)'  BY <1>4 DEF Untouched
<1>10. e \notin LogLedger!Held  BY <1>5 DEF LogLedger!Held, Elements, aQueue
<1>11. LogLedger!Fresh(e)  BY <1>5, <1>6, <1>10 DEF LogLedger!Fresh
<1>12. LogLedger!Take(e)  BY <1>3, <1>11 DEF LogLedger!Take, aQueue
<1> QED BY <1>8, <1>9, <1>12 DEF LogLedger!LedgerNext

LEMMA LogTurnsAway ==
  ASSUME LogInv, NEW e \in Entries, Untouched(e),
         ~ (Len(aChan) < LogCap) \/ aStop,
         aLost' = aLost \cup {e},
         UNCHANGED << aChan, aBatch, aRows, aUnsure, aTry, aStop >>
  PROVE  /\ LogInv'
         /\ \A x \in Entries : x # e /\ Untouched(x) => Untouched(x)'
         /\ LogLedger!LedgerNext
<1>1. /\ aChan \in Seq(Entries) /\ aBatch \in Seq(Entries)
  BY DEF LogInv
<1>2. aQueue' = aQueue  BY DEF aQueue
<1>3. aRows[e] = 0 /\ e \notin aLost /\ e \notin Elements(aQueue)  BY DEF Untouched
<1>4. ~ (aRows[e] > 0)  BY <1>3
<1>5. LogInv'  BY <1>2, <1>3 DEF LogInv, LoggedOnce
<1>6. \A x \in Entries : x # e /\ Untouched(x) => Untouched(x)'  BY <1>2 DEF Untouched
<1>7. e \notin LogLedger!Held  BY <1>3 DEF LogLedger!Held, Elements, aQueue
<1>8. LogLedger!Fresh(e)  BY <1>3, <1>4, <1>7 DEF LogLedger!Fresh
<1>9. ~ (Len(aChan) < LogCap) => Len(aBatch \o aChan) >= LogCap
  <2>1. /\ Len(aChan) \in Nat /\ Len(aBatch) \in Nat
        /\ Len(aBatch \o aChan) = Len(aBatch) + Len(aChan)
    BY <1>1, LenProperties, ConcatProperties
  <2> QED BY <2>1, LogAssumption
<1>10. Len(aBatch \o aChan) >= LogCap \/ aStop  BY <1>9
<1>11. LogLedger!Refuse(e)  BY <1>2, <1>8, <1>10 DEF LogLedger!Refuse, aQueue
<1> QED BY <1>5, <1>6, <1>11 DEF LogLedger!LedgerNext

\* Steps that move no request: the entries not yet pushed stay so.
LEMMA RequestsStay ==
  ASSUME Requested, UNCHANGED << req, pushing >>,
         \A e \in Entries : Untouched(e) => Untouched(e)'
  PROVE  Requested'
  BY DEF Requested, Early

\* A request that moves on with its entry e leaves the others where they were.
LEMMA RequestMoves ==
  ASSUME Requested, NEW e \in Entries, NEW to \in {"open", "logging", "done"},
         req' = [req EXCEPT ![e] = to],
         pushing' \ {e} \subseteq pushing,
         \A x \in Entries : x # e /\ Untouched(x) => Untouched(x)',
         to = "open" => e \notin pushing',
         to = "open" \/ e \in pushing' => Untouched(e)'
  PROVE  Requested'
<1>1. req' \in [Entries -> {"idle", "open", "logging", "done"}]  BY DEF Requested
<1>2. req'[e] = to /\ \A x \in Entries : x # e => req'[x] = req[x]  BY DEF Requested
<1>3. ASSUME NEW x \in Entries, x \in Early' PROVE x \notin pushing' /\ Untouched(x)'
  <2>1. CASE x = e  BY <1>2, <1>3, <2>1 DEF Early
  <2>2. CASE x # e
    <3>1. x \in Early  BY <1>2, <1>3, <2>2 DEF Early
    <3>2. x \notin pushing /\ Untouched(x)  BY <3>1 DEF Requested
    <3> QED BY <2>2, <3>2
  <2> QED BY <2>1, <2>2
<1>4. ASSUME NEW x \in Entries, x \in pushing' PROVE Untouched(x)'
  <2>1. CASE x = e  BY <1>4, <2>1
  <2>2. CASE x # e  BY <1>4, <2>2 DEF Requested
  <2> QED BY <2>1, <2>2
<1>5. (\A x \in Entries : x \in pushing \cup Early => Untouched(x))'  BY <1>3, <1>4
<1>6. (Early \cap pushing = {})'
  <2>1. Early' \subseteq Entries  BY DEF Early
  <2> QED BY <2>1, <1>3
<1> QED BY <1>1, <1>5, <1>6 DEF Requested

LEMMA RecordsLog ==
  ASSUME LogInv, Requested, [RecordsNext]_records
  PROVE  LogInv' /\ Requested' /\ [LogLedger!LedgerNext]_(LogLedger!ledger)
<1> DEFINE Goal == LogInv' /\ Requested' /\ [LogLedger!LedgerNext]_(LogLedger!ledger)
           LogStays == UNCHANGED << aChan, aBatch, aRows, aUnsure, aLost, aTry >>
<1>1. ASSUME LogStays, aStop' = aStop \/ aStop' = TRUE, UNCHANGED << req, pushing >> PROVE Goal
  <2>1. /\ LogInv' /\ [LogLedger!LedgerNext]_(LogLedger!ledger)
        /\ \A e \in Entries : Untouched(e) => Untouched(e)'
    BY <1>1, LogWaits
  <2> QED BY <2>1, <1>1, RequestsStay
<1>2. CASE UNCHANGED records
  <2>1. LogStays /\ aStop' = aStop /\ UNCHANGED << req, pushing >>
    BY <1>2 DEF records, access, log
  <2> QED BY <2>1, <1>1
<1>3. CASE Work
  <2>1. LogStays /\ aStop' = aStop /\ UNCHANGED << req, pushing >>
    BY <1>3 DEF Work, access, log
  <2> QED BY <2>1, <1>1
<1>4. CASE LogWork
  <2>1. /\ LogInv' /\ [LogLedger!LedgerNext]_(LogLedger!ledger)
        /\ \A e \in Entries : Untouched(e) => Untouched(e)'
    BY <1>4, LogWorks DEF LogWork
  <2>2. pushing' = pushing
    BY <1>4 DEF LogWork, LogWorker, LogTakes, LogTick, SeesStop, DrainTakes, DrainEnds, Gather,
                MovesTo, InsertsOne, InsertFails, FlushEnds
  <2>3. req' = req  BY <1>4 DEF LogWork
  <2> QED BY <2>1, <2>2, <2>3, RequestsStay
<1>5. CASE Retain
  <2>1. LogStays /\ aStop' = aStop /\ UNCHANGED << req, pushing >>
    BY <1>5 DEF Retain, RetentionRound, RetentionLists, RetentionRemovesFiles, RetentionDeletes, log
  <2> QED BY <2>1, <1>1
<1>6. ASSUME NEW e \in Entries, Age(e) PROVE Goal
  <2>1. LogStays /\ aStop' = aStop /\ UNCHANGED << req, pushing >>
    BY <1>6 DEF Age, Ages, Keeps, log
  <2> QED BY <2>1, <1>1
<1>7. ASSUME NEW e \in Entries, Open(e) PROVE Goal
  <2>1. /\ LogStays /\ aStop' = aStop /\ pushing' = pushing
        /\ req[e] = "idle" /\ req' = [req EXCEPT ![e] = "open"]
    BY <1>7 DEF Open, WriteBody, Moves, log
  <2>2. /\ LogInv' /\ [LogLedger!LedgerNext]_(LogLedger!ledger)
        /\ \A x \in Entries : Untouched(x) => Untouched(x)'
    BY <2>1, LogWaits
  <2>3. e \notin pushing /\ Untouched(e)  BY <2>1 DEF Requested, Early
  <2>4. Requested'  BY <2>1, <2>2, <2>3, RequestMoves
  <2> QED BY <2>2, <2>4
<1>8. ASSUME NEW e \in Entries, Account(e) PROVE Goal
  <2>1. /\ req[e] = "open" /\ req' = [req EXCEPT ![e] = IF aStop THEN "done" ELSE "logging"]
        /\ PushChecks(e)
    BY <1>8 DEF Account, Moves
  <2>2. e \notin pushing /\ Untouched(e)  BY <2>1 DEF Requested, Early
  <2>3. CASE aStop
    <3>1. /\ aLost' = aLost \cup {e} /\ pushing' = pushing
          /\ UNCHANGED << aChan, aBatch, aRows, aUnsure, aTry, aStop >>
      BY <2>1, <2>3 DEF PushChecks
    <3>2. /\ LogInv' /\ LogLedger!LedgerNext
          /\ \A x \in Entries : x # e /\ Untouched(x) => Untouched(x)'
      BY <2>2, <2>3, <3>1, LogTurnsAway
    <3>3. req' = [req EXCEPT ![e] = "done"]  BY <2>1, <2>3
    <3>4. Requested'  BY <2>2, <3>1, <3>2, <3>3, RequestMoves
    <3> QED BY <3>2, <3>4
  <2>4. CASE ~ aStop
    <3>1. LogStays /\ aStop' = aStop /\ pushing' = pushing \cup {e}
      BY <2>1, <2>4 DEF PushChecks
    <3>2. /\ LogInv' /\ [LogLedger!LedgerNext]_(LogLedger!ledger)
          /\ \A x \in Entries : Untouched(x) => Untouched(x)'
      BY <3>1, LogWaits
    <3>3. req' = [req EXCEPT ![e] = "logging"]  BY <2>1, <2>4
    <3>4. Requested'  BY <2>2, <3>1, <3>2, <3>3, RequestMoves
    <3> QED BY <3>2, <3>4
  <2> QED BY <2>3, <2>4
<1>9. ASSUME NEW e \in Entries, Logged(e) PROVE Goal
  <2>1. /\ req' = [req EXCEPT ![e] = "done"] /\ e \in pushing /\ pushing' = pushing \ {e}
        /\ UNCHANGED << aBatch, aRows, aUnsure, aTry, aStop >>
    BY <1>9 DEF Logged, PushSends, Moves
  <2>2. Untouched(e)  BY <2>1 DEF Requested
  <2>3. CASE Len(aChan) < LogCap
    <3>1. aChan' = Append(aChan, e) /\ aLost' = aLost  BY <1>9, <2>3 DEF Logged, PushSends
    <3>2. /\ LogInv' /\ LogLedger!LedgerNext
          /\ \A x \in Entries : x # e /\ Untouched(x) => Untouched(x)'
      BY <2>1, <2>2, <3>1, LogTakesIn
    <3>3. Requested'  BY <2>1, <3>2, RequestMoves
    <3> QED BY <3>2, <3>3
  <2>4. CASE ~ (Len(aChan) < LogCap)
    <3>1. aLost' = aLost \cup {e} /\ aChan' = aChan  BY <1>9, <2>4 DEF Logged, PushSends
    <3>2. /\ LogInv' /\ LogLedger!LedgerNext
          /\ \A x \in Entries : x # e /\ Untouched(x) => Untouched(x)'
      BY <2>1, <2>2, <2>4, <3>1, LogTurnsAway
    <3>3. Requested'  BY <2>1, <3>2, RequestMoves
    <3> QED BY <3>2, <3>3
  <2> QED BY <2>3, <2>4
<1>10. CASE Signal \/ ListenFails \/ Drained \/ LogStopped \/ Ended
  <2>1. LogStays /\ aStop' = aStop /\ UNCHANGED << req, pushing >>
    BY <1>10 DEF Signal, ListenFails, Drained, LogStopped, Ended, Keeps, records, access, log
  <2> QED BY <2>1, <1>1
<1>11. CASE UsageStopped
  <2>1. LogStays /\ aStop' = TRUE /\ UNCHANGED << req, pushing >>
    BY <1>11 DEF UsageStopped, CloseLog, Keeps, retention
  <2> QED BY <2>1, <1>1
<1> QED BY <1>2, <1>3, <1>4, <1>5, <1>6, <1>7, <1>8, <1>9, <1>10, <1>11 DEF RecordsNext

\* An entry of the access log is stored twice only if the answer of its INSERT was
\* lost, however often an attempt breaks off in the middle of a batch.
THEOREM RecordsLogOnce == RecordsSpec => []LoggedOnce
<1>1. RecordsInit => LogInv /\ Requested  BY LogStarts
<1>2. LogInv /\ Requested /\ [RecordsNext]_records => LogInv' /\ Requested'  BY RecordsLog
<1>3. LogInv => LoggedOnce  BY DEF LogInv
<1> QED BY <1>1, <1>2, <1>3, PTL DEF RecordsSpec

\* The buffer under requests, shutdown and retention implements the ledger.
THEOREM LogImplementsLedger == RecordsSpec => LogKeepsLedger
<1>1. RecordsInit => LogInv /\ Requested /\ LogLedger!LedgerInit  BY LogStarts
<1>2. LogInv /\ Requested /\ [RecordsNext]_records
        => LogInv' /\ Requested' /\ [LogLedger!LedgerNext]_(LogLedger!ledger)
  BY RecordsLog
<1> QED BY <1>1, <1>2, PTL DEF RecordsSpec, LogKeepsLedger, LogLedger!LedgerSpec

----------------------------------------------------------------------------
\* A request that has begun has its body on disk until its row is old; the page in
\* hand holds old entries only, and of their files only those stay that could not be
\* removed.
FilesInv == /\ \A e \in Entries : req[e] # "idle" => e \in files \cup old
            /\ \A e \in old : e \in Entries /\ req[e] # "idle"
            /\ gone \cup retPage \subseteq old
            /\ retPhase = "rows" => retPage \cap files \subseteq stuck
            /\ gone \cap files \subseteq stuck

LEMMA FilesSteps ==
  ASSUME LogInv, Requested, FilesInv, [RecordsNext]_records
  PROVE  FilesInv'
<1>1. req \in [Entries -> {"idle", "open", "logging", "done"}]  BY DEF Requested
<1>2. \A e \in Entries : aRows[e] > 0 => req[e] # "idle"
  <2> SUFFICES ASSUME NEW e \in Entries, req[e] = "idle" PROVE ~ (aRows[e] > 0)
    OBVIOUS
  <2>1. aRows[e] = 0  BY DEF Requested, Early, Untouched
  <2> QED BY <2>1
<1>3. ASSUME UNCHANGED << req, retention >> PROVE FilesInv'
  BY <1>3 DEF FilesInv, retention
<1>4. CASE UNCHANGED records  BY <1>3, <1>4 DEF records, access
<1>5. CASE Work  BY <1>3, <1>5 DEF Work, access
<1>6. CASE LogWork
  BY <1>3, <1>6 DEF LogWork, LogWorker, LogTakes, LogTick, SeesStop, DrainTakes, DrainEnds, Gather,
                    MovesTo, InsertsOne, InsertFails, FlushEnds
<1>7. CASE Retain
  <2>1. req' = req  BY <1>7 DEF Retain
  <2>2. CASE RetentionLists  BY <2>1, <2>2 DEF RetentionLists, FilesInv
  <2>3. CASE RetentionRemovesFiles  BY <2>1, <2>3 DEF RetentionRemovesFiles, FilesInv
  <2>4. CASE RetentionDeletes
    <3>1. gone' \subseteq gone \cup retPage /\ retPage \cap files \subseteq stuck
      BY <2>4 DEF RetentionDeletes, FilesInv
    <3> QED BY <2>1, <2>4, <3>1 DEF RetentionDeletes, FilesInv
  <2> QED BY <1>7, <2>2, <2>3, <2>4 DEF Retain, RetentionRound
<1>8. ASSUME NEW e \in Entries, Age(e) PROVE FilesInv'
  <2>1. /\ old' = old \cup {e} /\ aRows[e] > 0
        /\ UNCHANGED << req, files, stuck, gone, retPage, retPhase >>
    BY <1>8 DEF Age, Ages, Present, Keeps
  <2>2. req[e] # "idle"  BY <2>1, <1>2
  <2> QED BY <2>1, <2>2 DEF FilesInv
<1>9. ASSUME NEW e \in Entries, Open(e) PROVE FilesInv'
  <2>1. /\ req[e] = "idle" /\ req' = [req EXCEPT ![e] = "open"] /\ files' = files \cup {e}
        /\ UNCHANGED << stuck, gone, old, retPage, retPhase >>
    BY <1>9 DEF Open, WriteBody, Moves
  <2>2. e \notin old  BY <2>1 DEF FilesInv
  <2>3. \A x \in Entries : x # e => req'[x] = req[x]  BY <2>1, <1>1
  <2>4. req'[e] = "open"  BY <2>1, <1>1
  <2> QED BY <2>1, <2>2, <2>3, <2>4 DEF FilesInv
<1>10. ASSUME NEW e \in Entries, Account(e) \/ Logged(e) PROVE FilesInv'
  <2>1. /\ req[e] # "idle" /\ UNCHANGED << files, stuck, gone, old, retPage, retPhase >>
        /\ \E to \in {"logging", "done"} : req' = [req EXCEPT ![e] = to]
    <3>1. CASE Account(e)
      <4>1. req' = [req EXCEPT ![e] = IF aStop THEN "done" ELSE "logging"] /\ req[e] = "open"
        BY <3>1 DEF Account, Moves
      <4>2. \E to \in {"logging", "done"} : req' = [req EXCEPT ![e] = to]
        <5>1. CASE aStop  BY <4>1, <5>1
        <5>2. CASE ~ aStop  BY <4>1, <5>2
        <5> QED BY <5>1, <5>2
      <4>3. UNCHANGED << files, stuck, gone, old, retPage, retPhase >>
        BY <3>1 DEF Account, PushChecks, retention
      <4> QED BY <4>1, <4>2, <4>3
    <3>2. CASE Logged(e)
      BY <3>2 DEF Logged, Moves, PushSends, retention
    <3> QED BY <1>10, <3>1, <3>2
  <2>2. \A x \in Entries : x # e => req'[x] = req[x]  BY <2>1, <1>1
  <2>3. req'[e] # "idle"  BY <2>1, <1>1
  <2> QED BY <2>1, <2>2, <2>3 DEF FilesInv
<1>11. CASE Signal \/ ListenFails \/ Drained \/ LogStopped \/ Ended
  BY <1>3, <1>11 DEF Signal, ListenFails, Drained, LogStopped, Ended, Keeps, records, access
<1>12. CASE UsageStopped
  BY <1>3, <1>12 DEF UsageStopped, CloseLog, Keeps
<1> QED BY <1>4, <1>5, <1>6, <1>7, <1>8, <1>9, <1>10, <1>11, <1>12 DEF RecordsNext

\* Retention removes a row's file before the row and by pages, while requests go on: no
\* file is left without its row unless its removal failed, and none is taken from a row
\* that is not old.
THEOREM RecordsFilesFollow == RecordsSpec => []FilesFollowRows
<1>1. RecordsInit => LogInv /\ Requested /\ FilesInv
  <2>1. RecordsInit => FilesInv  BY DEF RecordsInit, LogInit, FilesInv
  <2> QED BY <2>1, LogStarts
<1>2. LogInv /\ Requested /\ FilesInv /\ [RecordsNext]_records => LogInv' /\ Requested' /\ FilesInv'
  BY RecordsLog, FilesSteps
<1>3. LogInv /\ Requested /\ FilesInv => FilesFollowRows
  <2> SUFFICES ASSUME LogInv, Requested, FilesInv PROVE FilesFollowRows
    OBVIOUS
  <2>1. ASSUME NEW e \in Present \ old PROVE e \in files
    <3>1. e \in Entries /\ aRows[e] > 0  BY DEF Present
    <3>2. req[e] # "idle"
      <4>1. req[e] = "idle" => aRows[e] = 0  BY <3>1 DEF Requested, Early, Untouched
      <4> QED BY <3>1, <4>1
    <3> QED BY <3>1, <3>2 DEF FilesInv
  <2> QED BY <2>1 DEF FilesFollowRows, FilesInv
<1> QED BY <1>1, <1>2, <1>3, PTL DEF RecordsSpec

----------------------------------------------------------------------------
\* The order of the shutdown.  stopCh of the buffer is closed only after the drain, so
\* the worker's last look at the channel comes when no request is left that could send.
Waiting == Elements(aBatch) \cup Elements(aChan)

DrainInv ==
    /\ server \in {"serving", "draining", "usage", "access", "exited"}
    /\ aPhase \in {"select", "flush", "drain", "drainFlush", "last", "ended"}
    /\ server \in {"usage", "access", "exited"} /\ ~ timedOut => Pending = {}
    /\ \A e \in Entries : req[e] = "done" => aRows[e] > 0 \/ e \in aLost \/ e \in Waiting
    /\ aStop => server \in {"access", "exited"}
    /\ aPhase \in {"drain", "drainFlush", "last", "ended"} => aStop
    /\ aPhase \in {"last", "ended"} /\ ~ timedOut => aChan = << >>
    /\ aPhase = "ended" => aBatch = << >>
    /\ server = "exited" => aPhase = "ended"

LEMMA HeadAndTail ==
  ASSUME NEW S, NEW s \in Seq(S), s # << >>
  PROVE  Elements(s) = {Head(s)} \cup Elements(Tail(s))
<1>1. /\ Tail(s) \in Seq(S) /\ Len(Tail(s)) = Len(s) - 1 /\ Len(s) \in Nat \ {0} /\ Head(s) = s[1]
      /\ \A i \in 1 .. Len(Tail(s)) : Tail(s)[i] = s[i + 1]
  BY HeadTailProperties, EmptySeq
<1>2. DOMAIN s = 1 .. Len(s) /\ DOMAIN Tail(s) = 1 .. Len(s) - 1  BY <1>1, LenProperties
<1>3. \A i \in 1 .. Len(s) : i = 1 \/ (i - 1 \in 1 .. Len(s) - 1 /\ (i - 1) + 1 = i)  BY <1>1
<1>4. ASSUME NEW i \in DOMAIN s, i # 1 PROVE s[i] \in Elements(Tail(s))
  <2>1. i - 1 \in DOMAIN Tail(s) /\ i - 1 \in 1 .. Len(Tail(s)) /\ (i - 1) + 1 = i
    BY <1>1, <1>2, <1>3, <1>4
  <2>2. Tail(s)[i - 1] = s[i]  BY <1>1, <2>1
  <2> QED BY <2>1, <2>2 DEF Elements
<1>5. Elements(s) \subseteq {Head(s)} \cup Elements(Tail(s))  BY <1>1, <1>4 DEF Elements
<1>6. Head(s) \in Elements(s)  BY HeadIsFirst
<1> QED BY <1>5, <1>6, TailElements

\* What the worker does with an entry: it stays with the worker, has a row, or is lost.
LEMMA EntryHeld ==
  ASSUME LogInv, LogWorker, NEW e \in Entries, aRows[e] > 0 \/ e \in aLost \/ e \in Waiting
  PROVE  aRows'[e] > 0 \/ e \in aLost' \/ e \in Waiting'
<1>1. /\ aChan \in Seq(Entries) /\ aBatch \in Seq(Entries) /\ aRows \in [Entries -> 0 .. 2]
  BY DEF LogInv
<1>2. \A n \in 0 .. 2 : OneMore(n) > 0  BY DEF OneMore
<1>3. CASE LogTakes \/ DrainTakes
  <2>1. /\ aChan # << >> /\ aBatch' = Append(aBatch, Head(aChan)) /\ aChan' = Tail(aChan)
        /\ aRows' = aRows /\ aLost' = aLost
    BY <1>3 DEF LogTakes, DrainTakes, Gather
  <2>2. Head(aChan) \in Entries  BY <1>1, <2>1, HeadIsFirst
  <2>3. Elements(aBatch') = Elements(aBatch) \cup {Head(aChan)}  BY <1>1, <2>1, <2>2, AppendElements
  <2>4. Elements(aChan) = {Head(aChan)} \cup Elements(Tail(aChan))  BY <1>1, <2>1, HeadAndTail
  <2> QED BY <2>1, <2>3, <2>4 DEF Waiting
<1>4. CASE LogTick \/ SeesStop \/ DrainEnds
  BY <1>4 DEF LogTick, SeesStop, DrainEnds, MovesTo, Waiting
<1>5. CASE InsertsOne
  <2>1. /\ aBatch # << >> /\ aRows' = [aRows EXCEPT ![Head(aBatch)] = OneMore(aRows[Head(aBatch)])]
        /\ aBatch' = Tail(aBatch) /\ aChan' = aChan /\ aLost' = aLost
    BY <1>5 DEF InsertsOne
  <2>2. Head(aBatch) \in Entries  BY <1>1, <2>1, HeadIsFirst
  <2>3. Elements(aBatch) = {Head(aBatch)} \cup Elements(Tail(aBatch))  BY <1>1, <2>1, HeadAndTail
  <2>4. aRows'[Head(aBatch)] > 0 /\ \A x \in Entries : x # Head(aBatch) => aRows'[x] = aRows[x]
    BY <1>1, <1>2, <2>1, <2>2
  <2> QED BY <2>1, <2>3, <2>4 DEF Waiting
<1>6. CASE InsertFails
  <2>1. /\ UNCHANGED << aChan, aBatch, aLost >>
        /\ \/ aRows' = aRows
           \/ aBatch # << >> /\ aRows' = [aRows EXCEPT ![Head(aBatch)] = OneMore(aRows[Head(aBatch)])]
    BY <1>6 DEF InsertFails
  <2>2. aBatch # << >> => Head(aBatch) \in Entries  BY <1>1, HeadIsFirst
  <2>3. aRows[e] > 0 => aRows'[e] > 0  BY <1>1, <1>2, <2>1, <2>2
  <2> QED BY <2>1, <2>3 DEF Waiting
<1>7. CASE FlushEnds
  <2>1. /\ aLost' = aLost \cup {x \in Elements(aBatch) : aRows[x] = 0}
        /\ aRows' = aRows /\ aChan' = aChan
    BY <1>7 DEF FlushEnds
  <2>2. aRows[e] = 0 \/ aRows[e] > 0  BY <1>1
  <2> QED BY <2>1, <2>2 DEF Waiting
<1> QED BY <1>3, <1>4, <1>5, <1>6, <1>7 DEF LogWorker

\* The worker's way to its end.
LEMMA WorkerDrains ==
  ASSUME LogInv, DrainInv, LogWork
  PROVE  DrainInv'
<1>1. LogWorker /\ UNCHANGED << req, server, timedOut >>  BY DEF LogWork
<1>2. aStop' = aStop
  BY <1>1 DEF LogWorker, LogTakes, LogTick, SeesStop, DrainTakes, DrainEnds, Gather,
              MovesTo, InsertsOne, InsertFails, FlushEnds
<1>3. Pending' = Pending  BY <1>1 DEF Pending
<1>4. (\A e \in Entries : req[e] = "done" => aRows[e] > 0 \/ e \in aLost \/ e \in Waiting)'
  <2> SUFFICES ASSUME NEW e \in Entries, req[e] = "done"
               PROVE  aRows'[e] > 0 \/ e \in aLost' \/ e \in Waiting'
    BY <1>1
  <2> QED BY <1>1, EntryHeld DEF DrainInv
<1>5. \/ aPhase' = aPhase /\ aPhase # "ended" /\ (aPhase = "last" => aChan' = aChan)
      \/ aPhase = "select" /\ aPhase' \in {"flush", "select"}
      \/ aPhase = "select" /\ aStop /\ aPhase' = "drain"
      \/ aPhase = "drain" /\ aPhase' \in {"drain", "drainFlush"}
      \/ aPhase = "drain" /\ aChan' = << >> /\ aPhase' = "last"
      \/ aPhase = "flush" /\ aPhase' = "select"
      \/ aPhase = "drainFlush" /\ aPhase' = "drain"
      \/ aPhase = "last" /\ aPhase' = "ended" /\ aChan' = aChan /\ aBatch' = << >>
  <2>1. CASE LogTakes \/ LogTick \/ SeesStop \/ DrainTakes \/ DrainEnds
    BY <2>1 DEF LogTakes, LogTick, SeesStop, DrainTakes, DrainEnds, Gather, MovesTo
  <2>2. CASE InsertsOne \/ InsertFails
    BY <2>2 DEF InsertsOne, InsertFails, LogFlushing
  <2>3. CASE FlushEnds
    BY <2>3 DEF FlushEnds, LogFlushing, Resume
  <2> QED BY <1>1, <2>1, <2>2, <2>3 DEF LogWorker
<1> QED BY <1>1, <1>2, <1>3, <1>4, <1>5 DEF DrainInv

LEMMA Drains ==
  ASSUME LogInv, Requested, DrainInv, [RecordsNext]_records
  PROVE  DrainInv'
<1>0. req \in [Entries -> {"idle", "open", "logging", "done"}]  BY DEF Requested
<1>1. ASSUME UNCHANGED << req, log, server, timedOut >> PROVE DrainInv'
  BY <1>1 DEF DrainInv, Waiting, Pending, log
<1>2. CASE UNCHANGED records  BY <1>1, <1>2 DEF records, access
<1>3. CASE Work  BY <1>1, <1>3 DEF Work, access
<1>4. CASE LogWork  BY <1>4, WorkerDrains
<1>5. CASE Retain
  BY <1>1, <1>5 DEF Retain, RetentionRound, RetentionLists, RetentionRemovesFiles, RetentionDeletes
<1>6. ASSUME NEW e \in Entries, Age(e) PROVE DrainInv'
  BY <1>1, <1>6 DEF Age, Ages, Keeps
<1>7. ASSUME NEW e \in Entries, Open(e) PROVE DrainInv'
  <2>1. /\ server = "serving" /\ UNCHANGED << log, server, timedOut >>
        /\ req' = [req EXCEPT ![e] = "open"]
    BY <1>7 DEF Open, Moves, WriteBody, Rest
  <2>2. \A x \in Entries : req'[x] = "done" => req[x] = "done"  BY <1>0, <2>1
  <2> QED BY <2>1, <2>2 DEF DrainInv, Waiting, log
<1>8. ASSUME NEW e \in Entries, Account(e) \/ Logged(e) PROVE DrainInv'
  <2>1. /\ UNCHANGED << aBatch, aRows, aPhase, aStop, server, timedOut >>
        /\ e \in Pending
        /\ \E to \in {"logging", "done"} : req' = [req EXCEPT ![e] = to]
        /\ \/ aChan' = aChan /\ aLost' = aLost
           \/ aChan' = aChan /\ aLost' = aLost \cup {e}
           \/ aChan' = Append(aChan, e) /\ aLost' = aLost
    <3>1. CASE Account(e)
      <4>1. /\ req[e] = "open" /\ req' = [req EXCEPT ![e] = IF aStop THEN "done" ELSE "logging"]
            /\ UNCHANGED << server, timedOut >> /\ PushChecks(e)
        BY <3>1 DEF Account, Moves, Rest
      <4>2. \E to \in {"logging", "done"} : req' = [req EXCEPT ![e] = to]
        <5>1. CASE aStop  BY <4>1, <5>1
        <5>2. CASE ~ aStop  BY <4>1, <5>2
        <5> QED BY <5>1, <5>2
      <4> QED BY <4>1, <4>2 DEF PushChecks, Pending
    <3>2. CASE Logged(e)
      BY <3>2, <1>0 DEF Logged, PushSends, Moves, Rest, Pending
    <3> QED BY <1>8, <3>1, <3>2
  <2>2. Elements(aChan) \subseteq Elements(aChan')
    <3>1. aChan \in Seq(Entries)  BY DEF LogInv
    <3>2. Elements(Append(aChan, e)) = Elements(aChan) \cup {e}  BY <3>1, AppendElements
    <3>3. CASE aChan' = aChan  BY <3>3
    <3>4. CASE aChan' = Append(aChan, e)  BY <3>2, <3>4
    <3> QED BY <2>1, <3>3, <3>4
  <2>3. \A x \in Entries : x # e => req'[x] = req[x]  BY <1>0, <2>1
  <2>4. req'[e] = "done" => e \in aLost' \/ e \in Elements(aChan')
    <3>1. CASE Account(e)
      <4>1. aStop => e \in aLost'  BY <3>1 DEF Account, PushChecks
      <4>2. req'[e] = "done" => aStop  BY <3>1, <1>0 DEF Account, Moves
      <4> QED BY <4>1, <4>2
    <3>2. CASE Logged(e)
      <4>1. aChan \in Seq(Entries)  BY DEF LogInv
      <4>2. e \in aLost' \/ aChan' = Append(aChan, e)  BY <3>2 DEF Logged, PushSends
      <4>3. Elements(Append(aChan, e)) = Elements(aChan) \cup {e}  BY <4>1, AppendElements
      <4>4. CASE aChan' = Append(aChan, e)  BY <4>3, <4>4
      <4> QED BY <4>2, <4>4
    <3> QED BY <1>8, <3>1, <3>2
  <2>5. (\A x \in Entries : req[x] = "done" => aRows[x] > 0 \/ x \in aLost \/ x \in Waiting)'
    <3> SUFFICES ASSUME NEW x \in Entries, req'[x] = "done"
                 PROVE  aRows[x] > 0 \/ x \in aLost' \/ x \in Elements(aBatch) \cup Elements(aChan')
      BY <2>1 DEF Waiting
    <3>1. CASE x = e  BY <3>1, <2>4
    <3>2. CASE x # e  BY <3>2, <2>1, <2>2, <2>3 DEF DrainInv, Waiting
    <3> QED BY <3>1, <3>2
  <2>6. server \in {"usage", "access", "exited"} => timedOut  BY <2>1 DEF DrainInv
  <2>7. aPhase \in {"last", "ended"} => timedOut  BY <2>6 DEF DrainInv
  <2> QED BY <2>1, <2>5, <2>6, <2>7 DEF DrainInv
<1>9. CASE Signal \/ ListenFails \/ Drained \/ LogStopped
  <2>1. /\ UNCHANGED << req, log >>
        /\ \/ server = "serving" /\ server' = "draining" /\ timedOut' = timedOut
           \/ server \in {"serving", "draining"} /\ server' = "usage" /\ timedOut' = (Pending # {})
           \/ server = "access" /\ server' = "exited" /\ aPhase = "ended" /\ timedOut' = timedOut
    BY <1>9 DEF Signal, ListenFails, Drained, LogStopped, Keeps, access
  <2>2. Pending' = Pending /\ Waiting' = Waiting  BY <2>1 DEF Pending, Waiting, log
  <2>3. CASE server \in {"serving", "draining"}
    <3>1. ~ aStop /\ aPhase \notin {"drain", "drainFlush", "last", "ended"}  BY <2>3 DEF DrainInv
    <3> QED BY <2>1, <2>2, <2>3, <3>1 DEF DrainInv, log
  <2>4. CASE server = "access"  BY <2>1, <2>2, <2>4 DEF DrainInv, log
  <2> QED BY <2>1, <2>3, <2>4
<1>10. CASE UsageStopped
  <2>1. /\ server = "usage" /\ server' = "access" /\ aStop' = TRUE
        /\ UNCHANGED << req, timedOut, aChan, aBatch, aRows, aLost, aPhase >>
    BY <1>10 DEF UsageStopped, CloseLog, Keeps
  <2> QED BY <2>1 DEF DrainInv, Waiting, Pending
<1>11. CASE Ended  BY <1>2, <1>11 DEF Ended
<1> QED BY <1>2, <1>3, <1>4, <1>5, <1>6, <1>7, <1>8, <1>9, <1>10, <1>11 DEF RecordsNext

\* DrainedEntriesLogged, whatever the capacities and the number of requests: if the drain
\* was not cut short, an entry that is missing when the process exits was turned away by
\* a full channel or refused three times by the database.
THEOREM RecordsDrainLog == RecordsSpec => []DrainedEntriesLogged
<1>1. RecordsInit => LogInv /\ Requested /\ DrainInv
  <2>1. RecordsInit => DrainInv  BY DEF RecordsInit, LogInit, DrainInv
  <2> QED BY <2>1, LogStarts
<1>2. LogInv /\ Requested /\ DrainInv /\ [RecordsNext]_records => LogInv' /\ Requested' /\ DrainInv'
  BY RecordsLog, Drains
<1>3. DrainInv => DrainedEntriesLogged
  <2> SUFFICES ASSUME DrainInv, server = "exited", ~ timedOut, NEW e \in Entries, req[e] = "done"
               PROVE  aRows[e] > 0 \/ e \in aLost
    BY DEF DrainedEntriesLogged
  <2>1. aChan = << >> /\ aBatch = << >>  BY DEF DrainInv
  <2>2. Waiting = {}  BY <2>1, EmptyQueue DEF Waiting
  <2> QED BY <2>2 DEF DrainInv
<1> QED BY <1>1, <1>2, <1>3, PTL DEF RecordsSpec
=============================================================================

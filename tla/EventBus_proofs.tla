--------------------------- MODULE EventBus_proofs ---------------------------
(***************************************************************************)
(* Proofs about the websocket hub, the event stream and the webhook        *)
(* dispatcher of EventBus.                                                 *)
(*                                                                         *)
(* An event passes several places one after the other: a broker channel,   *)
(* the messages the hub has left to broadcast, a client's send channel and *)
(* the connection, or a broker channel, the dispatcher, the queue and the  *)
(* sender.  The inductive invariants order each place and every two places *)
(* of a line; "order is not lost" is then one fact per move.               *)
(***************************************************************************)
EXTENDS EventBus, SequenceTheorems, FiniteSetTheorems, TLAPS

(***************************************************************************)
(* Sequences.                                                              *)
(***************************************************************************)
LEMMA TailFacts ==
    ASSUME NEW S, NEW s \in Seq(S), s # <<>>
    PROVE  /\ Tail(s) \in Seq(S) /\ Head(s) \in S /\ Head(s) = s[1] /\ 1 \in DOMAIN s
           /\ Len(Tail(s)) = Len(s) - 1
           /\ \A i \in DOMAIN Tail(s) : i + 1 \in DOMAIN s /\ Tail(s)[i] = s[i + 1] /\ i \in Nat \ {0}
  <1>1. DOMAIN s = 1..Len(s) /\ DOMAIN Tail(s) = 1..Len(Tail(s)) /\ Len(s) \in Nat \ {0}
    BY HeadTailProperties, LenProperties, EmptySeq
  <1> QED BY <1>1, HeadTailProperties

LEMMA AppendFacts ==
    ASSUME NEW S, NEW s \in Seq(S), NEW x \in S
    PROVE  /\ Append(s, x) \in Seq(S) /\ Len(Append(s, x)) = Len(s) + 1 /\ Len(s) \in Nat
           /\ DOMAIN s = 1..Len(s) /\ DOMAIN Append(s, x) = 1..Len(s) + 1
           /\ \A i \in DOMAIN Append(s, x) :
                 \/ i \in DOMAIN s /\ Append(s, x)[i] = s[i]
                 \/ i = Len(s) + 1 /\ Append(s, x)[i] = x
  <1>1. DOMAIN s = 1..Len(s) /\ DOMAIN Append(s, x) = 1..Len(Append(s, x)) /\ Len(s) \in Nat
    BY AppendProperties, LenProperties
  <1> QED BY <1>1, AppendProperties

(***************************************************************************)
(* Publication.  The events that a subscriber still has to be sent come    *)
(* behind all that it has: an event that is still being sent is before     *)
(* none in the order of publication.                                       *)
(***************************************************************************)
Names == {"hooks", "hub", "stream"}

\* By the order b of publication, event f may come ahead of event e.
Ahead(b, f, e) == f # e /\ <<e, f>> \notin b

\* The events that subscriber s still has to be sent.
ToSend(s) == {e \in Nat : <<e, s>> \in sending}

PubOK ==
    /\ etype \in Seq(EventTypes)
    /\ sending \subseteq (1..Len(etype)) \X Names
    /\ before \subseteq (1..Len(etype)) \X (1..Len(etype))
    /\ \A e, s, f : <<e, s>> \in sending => <<e, f>> \notin before

LEMMA ToSendFacts ==
    ASSUME PubOK
    PROVE  /\ Len(etype) \in Nat /\ DOMAIN etype = 1..Len(etype) /\ 0 \notin 1..Len(etype)
           /\ \A s : ToSend(s) \subseteq 1..Len(etype)
           /\ \A s, e, f : e \in ToSend(s) => <<e, f>> \notin before
           /\ \A e, f : <<e, f>> \in before => e \in 1..Len(etype) /\ f \in 1..Len(etype)
  <1>1. Len(etype) \in Nat /\ DOMAIN etype = 1..Len(etype) BY LenProperties DEF PubOK
  <1>2. \A e, f : <<e, f>> \in before => e \in 1..Len(etype) /\ f \in 1..Len(etype) BY DEF PubOK
  <1>3. \A s, e : e \in ToSend(s) => <<e, s>> \in sending /\ e \in Nat BY DEF ToSend
  <1>4. \A s, e : <<e, s>> \in sending => e \in 1..Len(etype) BY DEF PubOK
  <1>5. 0 \notin 1..Len(etype) BY <1>1
  <1>6. \A s : ToSend(s) \subseteq 1..Len(etype) BY <1>3, <1>4
  <1>7. \A s, e, f : e \in ToSend(s) => <<e, f>> \notin before BY <1>3 DEF PubOK
  <1> QED BY <1>1, <1>2, <1>5, <1>6, <1>7

LEMMA PubStart == BusInit => PubOK
  <1> SUFFICES ASSUME BusInit PROVE PubOK OBVIOUS
  <1>1. etype = <<>> /\ sending = {} /\ before = {} BY DEF BusInit
  <1>2. etype \in Seq(EventTypes) BY <1>1
  <1> QED BY <1>1, <1>2 DEF PubOK

\* A new event comes behind all others.
LEMMA PublishFacts ==
    ASSUME PubOK, NEW t \in EventTypes, Publish(t)
    PROVE  LET n == Len(etype)
           IN  /\ n \in Nat /\ etype' = Append(etype, t) /\ Len(etype') = n + 1
               /\ \A e \in 1..n : etype'[e] = etype[e]
               /\ \A s : ToSend(s)' \subseteq ToSend(s) \cup {n + 1}
               /\ \A e, s : <<e, s>> \in sending' => <<e, s>> \in sending \/ e = n + 1
               /\ \A e, s : <<e, s>> \in sending => <<e, s>> \in sending'
               /\ \A f \in Nat : f <= n => /\ Ahead(before', f, n + 1)
                                          /\ \A e : Ahead(before, f, e) => Ahead(before', f, e)
               /\ PubOK'
  <1> DEFINE n == Len(etype)
  <1>1. n \in Nat /\ \A e, f : <<e, f>> \in before => e \in 1..n /\ f \in 1..n BY ToSendFacts
  <1>2. etype' = Append(etype, t) /\ Len(etype') = n + 1 /\ etype' \in Seq(EventTypes)
    BY AppendFacts DEF PubOK, Publish
  <1>3. \A e \in 1..n : etype'[e] = etype[e] BY <1>2, AppendProperties DEF PubOK
  <1>4. sending' = sending \cup ({n + 1} \X Subscribers) /\ before' = before \cup (Returned \X {n + 1})
    BY DEF Publish
  <1>5. \A e, s : <<e, s>> \in sending' => <<e, s>> \in sending \/ (e = n + 1 /\ s \in Names)
    BY <1>4 DEF Subscribers, Names
  <1>6. \A e, f : <<e, f>> \in before' => <<e, f>> \in before \/ (e \in Returned /\ f = n + 1) BY <1>4
  <1>7. DOMAIN etype = 1..n BY ToSendFacts
  <1>8. \A e \in Returned : e \in 1..n /\ \A s : <<e, s>> \notin sending BY <1>7 DEF Returned, Events
  <1> HIDE DEF n
  <1>9. ASSUME NEW f \in Nat, f <= n
        PROVE  Ahead(before', f, n + 1) /\ \A e : Ahead(before, f, e) => Ahead(before', f, e)
    <2>1. f # n + 1 BY <1>1, <1>9
    <2>2. n + 1 \notin 1..n BY <1>1
    <2> QED BY <1>1, <1>6, <2>1, <2>2 DEF Ahead
  <1>10. PubOK'
    <2>1. \A e \in 1..n : e \in 1..(n + 1) BY <1>1
    <2>2. n + 1 \in 1..(n + 1) /\ n + 1 \notin 1..n BY <1>1
    <2>3. sending' \subseteq (1..(n + 1)) \X Names
      <3>1. \A p \in sending : p \in (1..(n + 1)) \X Names BY <2>1 DEF PubOK, n
      <3> QED BY <1>4, <2>2, <3>1 DEF Subscribers, Names
    <2>4. before' \subseteq (1..(n + 1)) \X (1..(n + 1))
      <3>1. \A p \in before : p \in (1..(n + 1)) \X (1..(n + 1)) BY <2>1 DEF PubOK, n
      <3> QED BY <1>4, <1>8, <2>1, <2>2, <3>1
    <2>5. ASSUME NEW e, NEW s, NEW f, <<e, s>> \in sending' PROVE <<e, f>> \notin before'
      <3>1. CASE <<e, s>> \in sending BY <1>6, <1>8, <3>1 DEF PubOK
      <3>2. CASE e = n + 1 BY <1>1, <1>6, <1>8, <2>2, <3>2
      <3> QED BY <1>5, <2>5, <3>1, <3>2
    <2> QED BY <1>2, <2>3, <2>4, <2>5 DEF PubOK
  <1>11. \A s : ToSend(s)' \subseteq ToSend(s) \cup {n + 1} BY <1>5 DEF ToSend
  <1>12. \A e, s : <<e, s>> \in sending => <<e, s>> \in sending' BY <1>4
  <1> QED BY <1>1, <1>2, <1>3, <1>5, <1>9, <1>10, <1>11, <1>12 DEF n

\* An event that is sent comes ahead of those that are still to be sent.
LEMMA PublishToFacts ==
    ASSUME PubOK, NEW e \in Events, NEW s \in Names, PublishTo(e, s)
    PROVE  /\ e \in ToSend(s) /\ ToSend(s)' = ToSend(s) \ {e}
           /\ \A r : r # s => ToSend(r)' = ToSend(r)
           /\ \A r : \A x \in ToSend(r) : x # e => Ahead(before, e, x)
           /\ PubOK' /\ e \in 1..Len(etype)
  <1>1. <<e, s>> \in sending /\ sending' = sending \ {<<e, s>>} /\ UNCHANGED <<etype, before>>
    BY DEF PublishTo
  <1>2. e \in 1..Len(etype) /\ e \in Nat
    <2>1. DOMAIN etype = 1..Len(etype) /\ Len(etype) \in Nat BY ToSendFacts
    <2> QED BY <2>1 DEF Events
  <1>3. \A x, r : <<x, r>> \in sending' <=> <<x, r>> \in sending /\ (x # e \/ r # s) BY <1>1
  <1>4. \A r : \A x \in ToSend(r) : x # e => Ahead(before, e, x) BY ToSendFacts DEF Ahead
  <1>5. PubOK'
    <2>1. sending' \subseteq (1..Len(etype)) \X Names BY <1>1 DEF PubOK
    <2> QED BY <1>1, <1>3, <2>1 DEF PubOK
  <1> QED BY <1>1, <1>2, <1>3, <1>4, <1>5 DEF ToSend

(***************************************************************************)
(* The websocket hub and the event stream.                                 *)
(***************************************************************************)
Words == {<<"subnet", "created">>, <<"address", "reserved">>, <<"discovery", "started">>,
          <<"discovery", "completed">>, <<"discovery", "conflict">>, <<"system", "connected">>}
Messages == Nat \X (EventTypes \cup Words) \X Nat

\* By the order b of publication, message m may be written before message n.
Before(b, m, n) == Ahead(b, m[1], n[1]) \/ (m[1] = n[1] /\ m[3] < n[3])

Ascends(b, s) == \A i, j \in DOMAIN s : i < j => Before(b, s[i], s[j])
Precedes(b, s, t) == \A i \in DOMAIN s, j \in DOMAIN t : Before(b, s[i], t[j])
Rising(b, s) == \A i, j \in DOMAIN s : i < j => Ahead(b, s[i], s[j])

\* Event f may come ahead of all events of channel ch and of the events u that
\* are still to be sent to it.
AheadOf(b, u, f, ch) == (\A k \in DOMAIN ch : Ahead(b, f, ch[k])) /\ (\A x \in u : Ahead(b, f, x))

\* A line of messages in order, ahead of those the hub still has, of the events
\* in its channel and of the events to come.
Line(b, u, s, msgs, ch, n) ==
    /\ s \in Seq(Messages) /\ Ascends(b, s) /\ Precedes(b, s, msgs)
    /\ \A i \in DOMAIN s : s[i][1] <= n /\ AheadOf(b, u, s[i][1], ch)

ClientOK(b, u, g, w, msgs, ch, n) ==
    /\ w.at \in {"out", "upgraded", "registered", "in", "closed"}
    /\ Line(b, u, g, msgs, ch, n)
    /\ w.at \in {"out", "upgraded", "registered"} => g = <<>>
    /\ Listed(w) => /\ w \in [at : {"registered", "in"}, subs : {w.subs}, writing : {w.writing}, send : {w.send}]
                    /\ Len(w.send) <= ClientCap
                    /\ Line(b, u, w.send, msgs, ch, n) /\ Precedes(b, g, w.send)
    /\ w.at = "registered" => \A i \in DOMAIN w.send : w.send[i][1] > 0

Pending == IF hub.pc = "broadcast" THEN hub.msgs ELSE <<>>

ChannelOK(b, u, ch, n) ==
    /\ ch \in Seq(Nat) /\ Rising(b, ch) /\ Len(ch) <= BrokerCap
    /\ \A k \in DOMAIN ch : ch[k] > 0 /\ ch[k] <= n /\ \A x \in u : Ahead(b, ch[k], x)

HubOK ==
    /\ hub.pc \in {"recv", "broadcast", "closing", "done"}
    /\ hub.pc = "broadcast" => hub = [pc |-> "broadcast", msgs |-> hub.msgs] /\ hub.msgs # <<>>
    /\ hub.pc = "closing" => hub = [pc |-> "closing", todo |-> hub.todo] /\ hub.todo \subseteq Clients
    /\ Line(before, ToSend("hub"), Pending, <<>>, hubCh, Len(etype))
    /\ \A k \in DOMAIN Pending : Pending[k][1] > 0

\* Nobody but the late clients is left out of closeAll.
Leaving ==
    /\ hub.pc = "closing" => \A c \in Clients : Listed(ws[c]) => c \in late \cup hub.todo
    /\ hub.pc = "done" => \A c \in Clients : Listed(ws[c]) => c \in late

StreamOK(b, u, s, n) ==
    s.at = "in" =>
        /\ s \in [at : {"in"}, since : Nat, ch : Seq(Nat), out : Seq(Nat)] /\ s.since <= n
        /\ Rising(b, s.ch) /\ Rising(b, s.out)
        /\ \A x \in u : s.since < x
        /\ \A k \in DOMAIN s.ch : s.since < s.ch[k] /\ s.ch[k] <= n /\ \A x \in u : Ahead(b, s.ch[k], x)
        /\ \A i \in DOMAIN s.out : s.since < s.out[i] /\ s.out[i] <= n /\ AheadOf(b, u, s.out[i], s.ch)

ClientsOK == \A c \in Clients : ClientOK(before, ToSend("hub"), got[c], ws[c], Pending, hubCh, Len(etype))

SocketInv ==
    /\ PubOK
    /\ ChannelOK(before, ToSend("hub"), hubCh, Len(etype)) /\ HubOK /\ Leaving
    /\ ws = [c \in Clients |-> ws[c]] /\ got = [c \in Clients |-> got[c]]
    /\ ClientsOK
    /\ StreamOK(before, ToSend("stream"), stream, Len(etype))

LEMMA EmptyLine == ASSUME NEW b, NEW u, NEW m, NEW ch, NEW n PROVE Line(b, u, <<>>, m, ch, n)
  BY DEF Line, Ascends, Precedes

LEMMA NobodyAhead == ASSUME NEW b, NEW s PROVE Precedes(b, s, <<>>) /\ Precedes(b, <<>>, s)
  BY DEF Precedes

\* A later order b2 of publication, which n + 1 has joined, keeps all lines.
ComesLast(b, b2, n) ==
    \A f \in Nat : f <= n => Ahead(b2, f, n + 1) /\ \A e : Ahead(b, f, e) => Ahead(b2, f, e)

LEMMA BeforeLater ==
    ASSUME NEW b, NEW b2, NEW n \in Nat, ComesLast(b, b2, n), NEW x \in Messages, x[1] <= n,
           NEW y, Before(b, x, y)
    PROVE  Before(b2, x, y)
  <1>1. x[1] \in Nat BY DEF Messages
  <1> QED BY <1>1 DEF Before, ComesLast

\* A new event comes after every line.
LEMMA LineLater ==
    ASSUME NEW b, NEW b2, NEW u, NEW u2, NEW s, NEW m, NEW n \in Nat, NEW ch, Line(b, u, s, m, ch, n),
           ComesLast(b, b2, n), u2 \subseteq u \cup {n + 1}
    PROVE  Line(b2, u2, s, m, ch, n + 1)
  <1>1. \A i \in DOMAIN s : s[i] \in Messages /\ s[i][1] \in Nat /\ s[i][1] <= n BY DEF Line, Messages
  <1> HIDE DEF Messages
  <1>2. Ascends(b2, s) BY <1>1, BeforeLater DEF Line, Ascends
  <1>3. Precedes(b2, s, m) BY <1>1, BeforeLater DEF Line, Precedes
  <1>4. ASSUME NEW i \in DOMAIN s PROVE s[i][1] <= n + 1 /\ AheadOf(b2, u2, s[i][1], ch)
    <2>1. AheadOf(b, u, s[i][1], ch) BY DEF Line
    <2>2. PICK f \in Nat : f = s[i][1] /\ f <= n BY <1>1
    <2>3. AheadOf(b2, u2, f, ch) BY <2>1, <2>2 DEF AheadOf, ComesLast
    <2> QED BY <2>2, <2>3
  <1> QED BY <1>2, <1>3, <1>4 DEF Line

\* An event to come gets into the channel, or is dropped.
LEMMA LineSent ==
    ASSUME NEW b, NEW u, NEW s, NEW m, NEW n, NEW ch \in Seq(Nat), NEW x \in Nat, x \in u,
           NEW new \in {ch, Append(ch, x)}, Line(b, u, s, m, ch, n)
    PROVE  Line(b, u \ {x}, s, m, new, n)
  <1>1. \A k \in DOMAIN Append(ch, x) : (k \in DOMAIN ch /\ Append(ch, x)[k] = ch[k]) \/ Append(ch, x)[k] = x
    BY AppendFacts
  <1>2. \A f : AheadOf(b, u, f, ch) => AheadOf(b, u \ {x}, f, new) BY <1>1 DEF AheadOf
  <1> QED BY <1>2 DEF Line

LEMMA PrecedesTail ==
    ASSUME NEW b, NEW s, NEW t \in Seq(Messages), t # <<>>, Precedes(b, s, t) PROVE Precedes(b, s, Tail(t))
  BY TailFacts DEF Precedes

LEMMA TailPrecedes ==
    ASSUME NEW b, NEW s, NEW t \in Seq(Messages), t # <<>>, Precedes(b, t, s) PROVE Precedes(b, Tail(t), s)
  BY TailFacts DEF Precedes

LEMMA PrecedesAppend ==
    ASSUME NEW b, NEW s, NEW t \in Seq(Messages), NEW x \in Messages, Precedes(b, s, t),
           \A i \in DOMAIN s : Before(b, s[i], x)
    PROVE  Precedes(b, s, Append(t, x))
  BY AppendFacts DEF Precedes

LEMMA AppendPrecedes ==
    ASSUME NEW b, NEW s, NEW t \in Seq(Messages), NEW x \in Messages, Precedes(b, t, s),
           \A i \in DOMAIN s : Before(b, x, s[i])
    PROVE  Precedes(b, Append(t, x), s)
  BY AppendFacts DEF Precedes

\* The head of an ordered sequence is before its tail.
LEMMA HeadBeforeTail ==
    ASSUME NEW b, NEW s \in Seq(Messages), s # <<>>, Ascends(b, s)
    PROVE  Ascends(b, Tail(s)) /\ \A i \in DOMAIN Tail(s) : Before(b, Head(s), Tail(s)[i])
  <1>1. \A i \in DOMAIN Tail(s) : i + 1 \in DOMAIN s /\ Tail(s)[i] = s[i + 1] /\ 1 < i + 1 /\ i \in Nat
    BY TailFacts
  <1>2. Head(s) = s[1] /\ 1 \in DOMAIN s BY TailFacts
  <1>3. ASSUME NEW i \in DOMAIN Tail(s), NEW j \in DOMAIN Tail(s), i < j
        PROVE  Before(b, Tail(s)[i], Tail(s)[j])
    BY <1>1, <1>3 DEF Ascends
  <1> QED BY <1>1, <1>2, <1>3 DEF Ascends

LEMMA LineTail ==
    ASSUME NEW b, NEW u, NEW s, s # <<>>, NEW m, NEW ch, NEW n, Line(b, u, s, m, ch, n)
    PROVE  Line(b, u, Tail(s), m, ch, n)
  <1>1. s \in Seq(Messages) BY DEF Line
  <1>2. Ascends(b, Tail(s)) /\ Precedes(b, Tail(s), m) BY <1>1, HeadBeforeTail, TailPrecedes DEF Line
  <1>3. \A i \in DOMAIN Tail(s) : i + 1 \in DOMAIN s /\ Tail(s)[i] = s[i + 1] BY <1>1, TailFacts
  <1>4. Tail(s) \in Seq(Messages) BY <1>1, TailFacts
  <1> QED BY <1>2, <1>3, <1>4 DEF Line

LEMMA LineAppend ==
    ASSUME NEW b, NEW u, NEW s, NEW m, NEW ch, NEW n, Line(b, u, s, m, ch, n), NEW x \in Messages,
           \A i \in DOMAIN s : Before(b, s[i], x), \A j \in DOMAIN m : Before(b, x, m[j]),
           x[1] <= n, AheadOf(b, u, x[1], ch)
    PROVE  Line(b, u, Append(s, x), m, ch, n)
  <1>1. s \in Seq(Messages) BY DEF Line
  <1>2. Precedes(b, Append(s, x), m) BY <1>1, AppendPrecedes DEF Line
  <1> DEFINE a == Append(s, x)
  <1>3. a \in Seq(Messages) /\ Len(s) \in Nat /\ DOMAIN s = 1..Len(s)
        /\ \A i \in DOMAIN a : (i \in DOMAIN s /\ a[i] = s[i]) \/ (i = Len(s) + 1 /\ a[i] = x)
    BY <1>1, AppendFacts
  <1> HIDE DEF a
  <1>4. ASSUME NEW i \in DOMAIN a, NEW j \in DOMAIN a, i < j PROVE Before(b, a[i], a[j])
    <2>1. i \in DOMAIN s /\ a[i] = s[i] BY <1>3, <1>4
    <2> QED BY <1>3, <1>4, <2>1 DEF Line, Ascends
  <1>5. Ascends(b, a) BY <1>4 DEF Ascends
  <1>6. \A i \in DOMAIN a : a[i][1] <= n /\ AheadOf(b, u, a[i][1], ch)
    BY <1>3 DEF Line
  <1> QED BY <1>2, <1>3, <1>5, <1>6 DEF Line, a

\* An event becomes one message at least.
LEMMA NormalizeFacts ==
    ASSUME NEW t \in EventTypes, NEW c \in Nat
    PROVE  Normalize(t, c) \in Seq(EventTypes \cup Words) /\ Normalize(t, c) # <<>>
  <1> DEFINE T == EventTypes \cup Words
  <1>1. PICK more : Normalize(t, c) = <<t>> \o more /\ more \in Seq(T)
    <2>0. /\ <<"subnet", "created">> \in T /\ <<"address", "reserved">> \in T
          /\ <<"discovery", "started">> \in T
      BY DEF Words
    <2> HIDE DEF T
    <2>1. CASE t = <<"subnet", "upserted">>
      <3>1. Normalize(t, c) = <<t>> \o <<<<"subnet", "created">>>> BY <2>1 DEF Normalize
      <3>2. <<<<"subnet", "created">>>> \in Seq(T) BY <2>0
      <3> QED BY <3>1, <3>2
    <2>2. CASE t = <<"reservation", "upserted">>
      <3>1. Normalize(t, c) = <<t>> \o <<<<"address", "reserved">>>> BY <2>2 DEF Normalize
      <3>2. <<<<"address", "reserved">>>> \in Seq(T) BY <2>0
      <3> QED BY <3>1, <3>2
    <2>3. CASE t = <<"discovery", "scan_queued">>
      <3>1. Normalize(t, c) = <<t>> \o <<<<"discovery", "started">>>> BY <2>3 DEF Normalize
      <3>2. <<<<"discovery", "started">>>> \in Seq(T) BY <2>0
      <3> QED BY <3>1, <3>2
    <2>4. CASE t = <<"discovery", "scan_completed">>
      <3>1. PICK w : w = <<"discovery", "conflict">> OBVIOUS
      <3>2. PICK d : d = <<"discovery", "completed">> OBVIOUS
      <3>3. w \in T /\ d \in T BY <3>1, <3>2 DEF Words, T
      <3>4. <<d>> \in Seq(T) /\ [k \in 1..c |-> w] \in Seq(T) BY <3>3
      <3>5. <<d>> \o [k \in 1..c |-> w] \in Seq(T) BY <3>4, ConcatProperties
      <3>6. Normalize(t, c) = <<t>> \o (<<d>> \o [k \in 1..c |-> w]) BY <2>4, <3>1, <3>2 DEF Normalize
      <3> QED BY <3>5, <3>6
    <2>5. CASE t \notin {<<"subnet", "upserted">>, <<"reservation", "upserted">>,
                         <<"discovery", "scan_queued">>, <<"discovery", "scan_completed">>}
      <3>1. Normalize(t, c) = <<t>> \o <<>> BY <2>5 DEF Normalize
      <3>2. <<>> \in Seq(T) OBVIOUS
      <3> QED BY <3>1, <3>2
    <2> QED BY <2>1, <2>2, <2>3, <2>4, <2>5
  <1>2. t \in T OBVIOUS
  <1> HIDE DEF T
  <1>3. <<t>> \in Seq(T) /\ Len(<<t>>) = 1 BY <1>2
  <1>4. <<t>> \o more \in Seq(T) /\ Len(<<t>> \o more) = 1 + Len(more) BY <1>1, <1>3, ConcatProperties
  <1>5. Len(more) \in Nat BY <1>1, LenProperties
  <1>6. PICK q : q = <<t>> \o more OBVIOUS
  <1>7. q \in Seq(T) /\ Len(q) # 0 BY <1>4, <1>5, <1>6
  <1>8. q # <<>> BY <1>7, EmptySeq
  <1> QED BY <1>1, <1>6, <1>7, <1>8 DEF T

-----------------------------------------------------------------------------
(* Each step of the broker, the hub, a client and the stream keeps it.     *)

LEMMA SocketStart == BusInit => SocketInv
  <1> SUFFICES ASSUME BusInit PROVE SocketInv OBVIOUS
  <1>0. PubOK BY PubStart
  <1> USE DEF BusInit
  <1>1. PICK e, z : e = <<>> /\ z = ToSend("hub") OBVIOUS
  <1>2. hubCh = e /\ Len(e) = 0 /\ Len(etype) = 0 /\ DOMAIN e = {} /\ e \in Seq(Nat)
    BY <1>1
  <1>3. hub.pc = "recv" /\ stream.at = "out" OBVIOUS
  <1>4. Pending = e BY <1>1, <1>3 DEF Pending
  <1>5. Line(before, z, e, e, e, 0) BY <1>1, EmptyLine
  <1>6. \A c \in Clients : got[c] = e /\ ws[c].at = "out" BY <1>1
  <1>7. ClientsOK
    BY <1>1, <1>2, <1>4, <1>5, <1>6 DEF ClientsOK, ClientOK, Listed
  <1>8. ChannelOK(before, ToSend("hub"), hubCh, Len(etype)) BY <1>2, EventBusAssumption DEF ChannelOK, Rising
  <1>9. HubOK BY <1>1, <1>2, <1>3, <1>4, <1>5 DEF HubOK
  <1>10. Leaving BY <1>3 DEF Leaving
  <1>11. StreamOK(before, ToSend("stream"), stream, Len(etype)) BY <1>3 DEF StreamOK
  <1>12. ws = [c \in Clients |-> ws[c]] /\ got = [c \in Clients |-> got[c]] OBVIOUS
  <1> QED BY <1>0, <1>7, <1>8, <1>9, <1>10, <1>11, <1>12 DEF SocketInv

LEMMA RisingAppend ==
    ASSUME NEW b, NEW s \in Seq(Nat), NEW x \in Nat, Rising(b, s), \A k \in DOMAIN s : Ahead(b, s[k], x)
    PROVE  Rising(b, Append(s, x))
  <1> DEFINE a == Append(s, x)
  <1>1. /\ Len(s) \in Nat /\ DOMAIN s = 1..Len(s)
        /\ \A k \in DOMAIN a : (k \in DOMAIN s /\ a[k] = s[k]) \/ (k = Len(s) + 1 /\ a[k] = x)
    BY AppendFacts
  <1> HIDE DEF a
  <1> SUFFICES ASSUME NEW i \in DOMAIN a, NEW j \in DOMAIN a, i < j PROVE Ahead(b, a[i], a[j])
    BY DEF Rising, a
  <1>2. i \in DOMAIN s /\ a[i] = s[i] BY <1>1
  <1> QED BY <1>1, <1>2 DEF Rising

LEMMA RisingTail ==
    ASSUME NEW b, NEW s \in Seq(Nat), s # <<>>, Rising(b, s)
    PROVE  Rising(b, Tail(s)) /\ \A k \in DOMAIN Tail(s) : Ahead(b, Head(s), Tail(s)[k])
  <1>1. /\ Head(s) = s[1] /\ 1 \in DOMAIN s
        /\ \A k \in DOMAIN Tail(s) : k + 1 \in DOMAIN s /\ Tail(s)[k] = s[k + 1] /\ 1 < k + 1 /\ k \in Nat
    BY TailFacts
  <1>2. ASSUME NEW i \in DOMAIN Tail(s), NEW j \in DOMAIN Tail(s), i < j
        PROVE  Ahead(b, Tail(s)[i], Tail(s)[j])
    BY <1>1, <1>2 DEF Rising
  <1> QED BY <1>1, <1>2 DEF Rising

\* The channel of a subscriber when a new event joins those to come ...
LEMMA ChannelLater ==
    ASSUME NEW b, NEW b2, NEW u, NEW u2, NEW ch, NEW n \in Nat, ChannelOK(b, u, ch, n),
           ComesLast(b, b2, n), u2 \subseteq u \cup {n + 1}
    PROVE  ChannelOK(b2, u2, ch, n + 1)
  <1>1. \A k \in DOMAIN ch : ch[k] \in Nat /\ ch[k] > 0 /\ ch[k] <= n BY DEF ChannelOK
  <1>2. Rising(b2, ch) BY <1>1 DEF ChannelOK, Rising, ComesLast
  <1>3. \A k \in DOMAIN ch : \A x \in u2 : Ahead(b2, ch[k], x) BY <1>1 DEF ChannelOK, ComesLast
  <1> QED BY <1>1, <1>2, <1>3 DEF ChannelOK

\* ... when one of those is sent: it is taken, or there is no room for it ...
LEMMA ChannelTakes ==
    ASSUME NEW b, NEW u, NEW ch, NEW n \in Nat, ChannelOK(b, u, ch, n), NEW x \in 1..n, x \in u,
           \A y \in u : y # x => Ahead(b, x, y)
    PROVE  /\ ChannelOK(b, u \ {x}, NonBlocking(ch, BrokerCap, x), n)
           /\ NonBlocking(ch, BrokerCap, x) \in {ch, Append(ch, x)}
  <1> DEFINE a == Append(ch, x)
  <1>1. ch \in Seq(Nat) /\ Len(ch) \in Nat /\ x \in Nat BY LenProperties DEF ChannelOK
  <1>2. /\ a \in Seq(Nat) /\ Len(a) = Len(ch) + 1
        /\ \A k \in DOMAIN a : (k \in DOMAIN ch /\ a[k] = ch[k]) \/ a[k] = x
    BY <1>1, AppendFacts
  <1>3. Rising(b, a) BY <1>1, RisingAppend DEF ChannelOK
  <1> HIDE DEF a
  <1>4. ChannelOK(b, u \ {x}, ch, n) BY DEF ChannelOK
  <1>5. ASSUME Len(ch) < BrokerCap PROVE ChannelOK(b, u \ {x}, a, n)
    <2>1. Len(a) <= BrokerCap BY <1>1, <1>2, <1>5, EventBusAssumption
    <2>2. ASSUME NEW k \in DOMAIN a
          PROVE  a[k] > 0 /\ a[k] <= n /\ \A y \in u \ {x} : Ahead(b, a[k], y)
      <3>1. CASE k \in DOMAIN ch /\ a[k] = ch[k] BY <3>1 DEF ChannelOK
      <3>2. CASE a[k] = x BY <3>2
      <3> QED BY <1>2, <3>1, <3>2
    <2> QED BY <1>2, <1>3, <2>1, <2>2 DEF ChannelOK
  <1> QED BY <1>4, <1>5 DEF NonBlocking, a

\* ... and when the subscriber takes the oldest.
LEMMA ChannelGives ==
    ASSUME NEW b, NEW u, NEW ch, NEW n \in Nat, ChannelOK(b, u, ch, n), ch # <<>>
    PROVE  /\ ChannelOK(b, u, Tail(ch), n) /\ Head(ch) \in 1..n /\ AheadOf(b, u, Head(ch), Tail(ch))
           /\ \A f : AheadOf(b, u, f, ch) => Ahead(b, f, Head(ch)) /\ AheadOf(b, u, f, Tail(ch))
  <1>1. /\ ch \in Seq(Nat) /\ Head(ch) \in Nat /\ Head(ch) = ch[1] /\ 1 \in DOMAIN ch /\ Tail(ch) \in Seq(Nat)
        /\ Len(Tail(ch)) = Len(ch) - 1 /\ Len(ch) \in Nat
        /\ \A k \in DOMAIN Tail(ch) : k + 1 \in DOMAIN ch /\ Tail(ch)[k] = ch[k + 1]
    BY TailFacts, LenProperties DEF ChannelOK
  <1>2. Rising(b, Tail(ch)) /\ \A k \in DOMAIN Tail(ch) : Ahead(b, Head(ch), Tail(ch)[k])
    BY <1>1, RisingTail DEF ChannelOK
  <1>3. Head(ch) > 0 /\ Head(ch) <= n /\ \A x \in u : Ahead(b, Head(ch), x) BY <1>1 DEF ChannelOK
  <1>4. Len(Tail(ch)) <= BrokerCap BY <1>1, EventBusAssumption DEF ChannelOK
  <1>5. \A k \in DOMAIN Tail(ch) : Tail(ch)[k] > 0 /\ Tail(ch)[k] <= n /\ \A x \in u : Ahead(b, Tail(ch)[k], x)
    BY <1>1 DEF ChannelOK
  <1>6. ChannelOK(b, u, Tail(ch), n) BY <1>1, <1>2, <1>4, <1>5 DEF ChannelOK
  <1>7. \A f : AheadOf(b, u, f, ch) => Ahead(b, f, Head(ch)) /\ AheadOf(b, u, f, Tail(ch))
    BY <1>1 DEF AheadOf
  <1> QED BY <1>1, <1>2, <1>3, <1>6, <1>7 DEF AheadOf

LEMMA StreamLater ==
    ASSUME NEW b, NEW b2, NEW u, NEW u2, NEW s, NEW n \in Nat, StreamOK(b, u, s, n),
           ComesLast(b, b2, n), u2 \subseteq u \cup {n + 1}
    PROVE  StreamOK(b2, u2, s, n + 1)
  <1> SUFFICES ASSUME s.at = "in" PROVE StreamOK(b2, u2, s, n + 1) BY DEF StreamOK
  <1>1. /\ s \in [at : {"in"}, since : Nat, ch : Seq(Nat), out : Seq(Nat)] /\ s.since <= n /\ s.since \in Nat
        /\ \A k \in DOMAIN s.ch : s.ch[k] \in Nat /\ s.since < s.ch[k] /\ s.ch[k] <= n
        /\ \A i \in DOMAIN s.out : s.out[i] \in Nat /\ s.since < s.out[i] /\ s.out[i] <= n
    BY DEF StreamOK
  <1>2. Rising(b2, s.ch) /\ Rising(b2, s.out) BY <1>1 DEF StreamOK, Rising, ComesLast
  <1>3. \A x \in u2 : s.since < x BY <1>1 DEF StreamOK
  <1>4. \A k \in DOMAIN s.ch : \A x \in u2 : Ahead(b2, s.ch[k], x) BY <1>1 DEF StreamOK, ComesLast
  <1>5. \A i \in DOMAIN s.out : AheadOf(b2, u2, s.out[i], s.ch) BY <1>1 DEF StreamOK, ComesLast, AheadOf
  <1> QED BY <1>1, <1>2, <1>3, <1>4, <1>5 DEF StreamOK

LEMMA StreamTakes ==
    ASSUME NEW b, NEW u, NEW s, s.at = "in", NEW n \in Nat, StreamOK(b, u, s, n), NEW x \in 1..n, x \in u,
           \A y \in u : y # x => Ahead(b, x, y)
    PROVE  StreamOK(b, u \ {x}, [s EXCEPT !.ch = NonBlocking(@, BrokerCap, x)], n)
  <1>1. PICK ch, a : ch = s.ch /\ a = NonBlocking(s.ch, BrokerCap, x) OBVIOUS
  <1>2. /\ s \in [at : {"in"}, since : Nat, ch : Seq(Nat), out : Seq(Nat)]
        /\ ch \in Seq(Nat) /\ x \in Nat /\ s.since < x /\ Rising(b, ch)
        /\ \A k \in DOMAIN ch : Ahead(b, ch[k], x)
    BY <1>1 DEF StreamOK
  <1>3. /\ Append(ch, x) \in Seq(Nat)
        /\ \A k \in DOMAIN Append(ch, x) : (k \in DOMAIN ch /\ Append(ch, x)[k] = ch[k]) \/ Append(ch, x)[k] = x
    BY <1>2, AppendFacts
  <1>4. Rising(b, Append(ch, x)) BY <1>2, RisingAppend
  <1>5. a \in {ch, Append(ch, x)} BY <1>1 DEF NonBlocking
  <1>6. a \in Seq(Nat) /\ Rising(b, a) /\ \A k \in DOMAIN a : (k \in DOMAIN ch /\ a[k] = ch[k]) \/ a[k] = x
    BY <1>2, <1>3, <1>4, <1>5
  <1>7. PICK v : v = [s EXCEPT !.ch = a] OBVIOUS
  <1>8. /\ v \in [at : {"in"}, since : Nat, ch : Seq(Nat), out : Seq(Nat)]
        /\ v.ch = a /\ v.since = s.since /\ v.out = s.out /\ v.at = "in"
    BY <1>2, <1>6, <1>7
  <1>9. \A k \in DOMAIN a : s.since < a[k] /\ a[k] <= n /\ \A y \in u \ {x} : Ahead(b, a[k], y)
    <2> TAKE k \in DOMAIN a
    <2>1. CASE k \in DOMAIN ch /\ a[k] = ch[k] BY <1>1, <2>1 DEF StreamOK
    <2>2. CASE a[k] = x BY <1>2, <2>2
    <2> QED BY <1>6, <2>1, <2>2
  <1>10. \A i \in DOMAIN s.out : AheadOf(b, u \ {x}, s.out[i], a)
    BY <1>1, <1>6 DEF StreamOK, AheadOf
  <1>11. StreamOK(b, u \ {x}, v, n) BY <1>6, <1>8, <1>9, <1>10 DEF StreamOK
  <1> QED BY <1>1, <1>7, <1>11

LEMMA PublishSockets == ASSUME SocketInv, NEW t \in EventTypes, Publish(t) PROVE SocketInv'
  <1>1. PICK n, u, u2, v, v2, b, b2 :
           /\ n = Len(etype) /\ u = ToSend("hub") /\ u2 = ToSend("hub")' /\ v = ToSend("stream")
           /\ v2 = ToSend("stream")' /\ b = before /\ b2 = before'
    OBVIOUS
  <1>2. /\ n \in Nat /\ Len(etype') = n + 1 /\ PubOK' /\ ComesLast(b, b2, n)
        /\ u2 \subseteq u \cup {n + 1} /\ v2 \subseteq v \cup {n + 1}
    BY <1>1, PublishFacts DEF SocketInv, ComesLast
  <1>3. UNCHANGED <<hub, hubCh, ws, got, late, stream>> /\ Pending' = Pending
    BY DEF Publish, wsVars, Pending
  <1>4. ChannelOK(b2, u2, hubCh, n + 1)
    <2>1. ChannelOK(b, u, hubCh, n) BY <1>1 DEF SocketInv
    <2> QED BY <1>2, <2>1, ChannelLater
  <1>5. \A s, m : Line(b, u, s, m, hubCh, n) => Line(b2, u2, s, m, hubCh, n + 1) BY <1>2, LineLater
  <1>6. \A x \in Messages : \A y : x[1] <= n /\ Before(b, x, y) => Before(b2, x, y) BY <1>2, BeforeLater
  <1>7. ASSUME NEW c \in Clients PROVE ClientOK(b2, u2, got[c], ws[c], Pending, hubCh, n + 1)
    <2>1. ClientOK(b, u, got[c], ws[c], Pending, hubCh, n) BY <1>1 DEF SocketInv, ClientsOK
    <2>2. Listed(ws[c]) => Precedes(b2, got[c], ws[c].send)
      BY <1>6, <2>1 DEF ClientOK, Precedes, Line
    <2> QED BY <1>5, <2>1, <2>2 DEF ClientOK
  <1>8. HubOK'
    <2>1. Line(b2, u2, Pending, <<>>, hubCh, n + 1) BY <1>1, <1>5 DEF SocketInv, HubOK
    <2> QED BY <1>1, <1>2, <1>3, <2>1 DEF SocketInv, HubOK
  <1>9. StreamOK(b2, v2, stream, n + 1)
    <2>1. StreamOK(b, v, stream, n) BY <1>1 DEF SocketInv
    <2> QED BY <1>2, <2>1, StreamLater
  <1>10. Leaving' BY <1>3 DEF SocketInv, Leaving
  <1>11. ClientsOK' BY <1>1, <1>2, <1>3, <1>7 DEF ClientsOK
  <1> QED BY <1>1, <1>2, <1>3, <1>4, <1>8, <1>9, <1>10, <1>11 DEF SocketInv

\* An event is sent to one subscriber.
LEMMA SentSockets ==
    ASSUME SocketInv, NEW e \in Events, NEW s \in Names, PublishTo(e, s) PROVE SocketInv'
  <1>1. PICK n, u, v, b : n = Len(etype) /\ u = ToSend("hub") /\ v = ToSend("stream") /\ b = before OBVIOUS
  <1>2. /\ e \in 1..n /\ n \in Nat /\ e \in ToSend(s) /\ ToSend(s)' = ToSend(s) \ {e}
        /\ \A r : r # s => ToSend(r)' = ToSend(r)
        /\ \A r : \A x \in ToSend(r) : x # e => Ahead(b, e, x)
        /\ PubOK' /\ e \in Nat
    BY <1>1, PublishToFacts, ToSendFacts DEF SocketInv
  <1>3. UNCHANGED <<etype, before, hub, ws, got, late>> /\ Pending' = Pending BY DEF PublishTo, Pending
  <1>4. hubCh \in Seq(Nat) /\ ChannelOK(b, u, hubCh, n) BY <1>1 DEF SocketInv, ChannelOK
  <1>5. PICK w : w = ToSend("hub")' OBVIOUS
  <1>6. ChannelOK(b, w, hubCh', n) /\ \A l, m : Line(b, u, l, m, hubCh, n) => Line(b, w, l, m, hubCh', n)
    <2>1. CASE s = "hub"
      <3>1. hubCh' = NonBlocking(hubCh, BrokerCap, e) /\ w = u \ {e} /\ e \in u
        BY <1>1, <1>2, <1>5, <2>1 DEF PublishTo
      <3>2. \A y \in u : y # e => Ahead(b, e, y) BY <1>1, <1>2
      <3>3. ChannelOK(b, u \ {e}, NonBlocking(hubCh, BrokerCap, e), n)
            /\ NonBlocking(hubCh, BrokerCap, e) \in {hubCh, Append(hubCh, e)}
        BY <1>2, <1>4, <3>1, <3>2, ChannelTakes
      <3>4. PICK new : new = hubCh' OBVIOUS
      <3>5. new \in {hubCh, Append(hubCh, e)} BY <3>1, <3>3, <3>4
      <3>6. e \in Nat /\ e \in u /\ hubCh \in Seq(Nat) BY <1>2, <1>4, <3>1
      <3>7. ASSUME NEW l, NEW m, Line(b, u, l, m, hubCh, n) PROVE Line(b, u \ {e}, l, m, new, n)
        <4>1. PICK ch : ch = hubCh OBVIOUS
        <4>2. ch \in Seq(Nat) /\ new \in {ch, Append(ch, e)} /\ Line(b, u, l, m, ch, n) BY <3>5, <3>6, <3>7, <4>1
        <4> QED BY <3>6, <4>2, LineSent
      <3> QED BY <3>1, <3>3, <3>4, <3>7
    <2>2. CASE s # "hub"
      <3>1. hubCh' = hubCh /\ w = u BY <1>1, <1>2, <1>5, <2>2 DEF PublishTo
      <3> QED BY <1>4, <3>1
    <2> QED BY <2>1, <2>2
  <1>7. ClientsOK' BY <1>1, <1>3, <1>5, <1>6 DEF SocketInv, ClientsOK, ClientOK
  <1>8. HubOK'
    <2>1. Line(b, w, Pending, <<>>, hubCh', n) BY <1>1, <1>6 DEF SocketInv, HubOK
    <2> QED BY <1>1, <1>3, <1>5, <2>1 DEF SocketInv, HubOK
  <1>9. StreamOK(b, ToSend("stream")', stream', n)
    <2>0. StreamOK(b, v, stream, n) BY <1>1 DEF SocketInv
    <2>1. CASE s = "stream" /\ stream.at = "in"
      <3>1. /\ stream' = [stream EXCEPT !.ch = NonBlocking(@, BrokerCap, e)]
            /\ ToSend("stream")' = v \ {e} /\ e \in v
        BY <1>1, <1>2, <2>1 DEF PublishTo
      <3>2. \A y \in v : y # e => Ahead(b, e, y) BY <1>1, <1>2
      <3>3. StreamOK(b, v \ {e}, [stream EXCEPT !.ch = NonBlocking(@, BrokerCap, e)], n)
        BY <1>2, <2>0, <2>1, <3>1, <3>2, StreamTakes
      <3> QED BY <3>1, <3>3
    <2>2. CASE s # "stream"
      <3>1. stream' = stream /\ ToSend("stream")' = v BY <1>1, <1>2, <2>2 DEF PublishTo
      <3> QED BY <2>0, <3>1
    <2>3. CASE stream.at # "in"
      <3>1. stream' = stream BY <2>3 DEF PublishTo
      <3> QED BY <2>3, <3>1 DEF StreamOK
    <2> QED BY <2>1, <2>2, <2>3
  <1>10. Leaving' BY <1>3 DEF SocketInv, Leaving
  <1> QED BY <1>1, <1>2, <1>3, <1>5, <1>6, <1>7, <1>8, <1>9, <1>10 DEF SocketInv

\* The hub turns the oldest event of its channel into messages.
LEMMA ReceiveSockets == ASSUME SocketInv, HubReceive PROVE SocketInv'
  <1>1. PICK e, n, u, b, ch : /\ e = Head(hubCh) /\ n = Len(etype) /\ u = ToSend("hub") /\ b = before
                             /\ ch = Tail(hubCh)
    OBVIOUS
  <1>2. PICK k \in 0..MaxConflicts :
           hub' = [pc |-> "broadcast", msgs |-> Numbered(e, Normalize(etype[e], k))]
    BY <1>1 DEF HubReceive
  <1>3. PICK ts, new : ts = Normalize(etype[e], k) /\ new = Numbered(e, ts) OBVIOUS
  <1>4. /\ UNCHANGED <<pubVars, ws, got, late, stream>> /\ hubCh' = ch /\ hub.pc = "recv" /\ hubCh # <<>>
        /\ ChannelOK(b, u, hubCh, n) /\ n \in Nat /\ DOMAIN etype = 1..n
    BY <1>1, ToSendFacts DEF HubReceive, SocketInv
  <1>5. /\ ChannelOK(b, u, ch, n) /\ e \in 1..n /\ e \in Nat /\ AheadOf(b, u, e, ch)
        /\ \A f : AheadOf(b, u, f, hubCh) => Ahead(b, f, e) /\ AheadOf(b, u, f, ch)
    BY <1>1, <1>4, ChannelGives
  <1>6. ToSend("hub")' = u BY <1>1, <1>4 DEF ToSend, pubVars
  <1>7. ts \in Seq(EventTypes \cup Words) /\ ts # <<>>
    <2>1. etype[e] \in EventTypes
      <3>1. etype \in Seq(EventTypes) BY DEF SocketInv, PubOK
      <3> QED BY <1>4, <1>5, <3>1
    <2>2. k \in Nat BY EventBusAssumption
    <2> QED BY <1>3, <2>1, <2>2, NormalizeFacts
  <1>8. DOMAIN ts = 1..Len(ts) /\ Len(ts) \in Nat \ {0} BY <1>7, LenProperties, EmptySeq
  <1>9. /\ DOMAIN new = 1..Len(ts)
        /\ \A i \in DOMAIN new : new[i] = <<e, ts[i], i>> /\ new[i][1] = e /\ new[i][3] = i
    BY <1>3, <1>8 DEF Numbered
  <1>10. new \in Seq(Messages) /\ new # <<>>
    <2>1. ASSUME NEW i \in DOMAIN new PROVE new[i] \in Messages
      <3>1. PICK T, w : T = EventTypes \cup Words /\ w = ts[i] OBVIOUS
      <3>2. w \in T /\ i \in Nat BY <1>7, <1>8, <1>9, <3>1
      <3>3. <<e, w, i>> \in Nat \X T \X Nat BY <1>5, <3>2
      <3> QED BY <1>9, <3>1, <3>3 DEF Messages
    <2>2. new = [i \in 1..Len(ts) |-> new[i]] BY <1>3, <1>8 DEF Numbered
    <2>3. new \in [1..Len(ts) -> Messages] BY <1>9, <2>1, <2>2
    <2>4. new \in Seq(Messages) /\ 1 \in DOMAIN new BY <1>8, <1>9, <2>3
    <2> QED BY <2>4
  <1>11. Line(b, u, new, <<>>, ch, n)
    <2>1. Ascends(b, new) BY <1>9 DEF Ascends, Before
    <2>2. \A i \in DOMAIN new : new[i][1] <= n /\ AheadOf(b, u, new[i][1], ch) BY <1>4, <1>5, <1>9
    <2> QED BY <1>10, <2>1, <2>2, NobodyAhead DEF Line
  <1>12. ASSUME NEW s, Line(b, u, s, Pending, hubCh, n) PROVE Line(b, u, s, new, ch, n)
    <2>1. \A i \in DOMAIN s : Ahead(b, s[i][1], e) /\ AheadOf(b, u, s[i][1], ch) BY <1>5, <1>12 DEF Line
    <2>2. Precedes(b, s, new) BY <1>9, <2>1 DEF Precedes, Before
    <2> QED BY <1>12, <2>1, <2>2 DEF Line
  <1>13. \A c \in Clients : ClientOK(b, u, got[c], ws[c], new, ch, n)
    BY <1>1, <1>12 DEF SocketInv, ClientsOK, ClientOK
  <1>14. hub'.pc = "broadcast" /\ hub'.msgs = new /\ Pending' = new BY <1>2, <1>3 DEF Pending
  <1>15. HubOK' BY <1>1, <1>2, <1>3, <1>4, <1>5, <1>6, <1>9, <1>10, <1>11, <1>14 DEF HubOK, pubVars
  <1>16. Leaving' BY <1>14 DEF Leaving
  <1>17. ClientsOK' BY <1>1, <1>4, <1>6, <1>13, <1>14 DEF ClientsOK, pubVars
  <1>18. PubOK' BY <1>4 DEF SocketInv, PubOK, pubVars
  <1>19. StreamOK(before, ToSend("stream"), stream, Len(etype))' BY <1>4 DEF SocketInv, pubVars, ToSend
  <1> QED BY <1>1, <1>4, <1>5, <1>6, <1>15, <1>16, <1>17, <1>18, <1>19 DEF SocketInv, pubVars

\* The hub offers its next message to everybody.
LEMMA BroadcastSockets == ASSUME SocketInv, Broadcast PROVE SocketInv'
  <1>1. PICK n, u, b, ms, m : /\ n = Len(etype) /\ u = ToSend("hub") /\ b = before /\ ms = hub.msgs
                             /\ m = Head(hub.msgs)
    OBVIOUS
  <1>2. hub.pc = "broadcast" /\ hub = [pc |-> "broadcast", msgs |-> ms] /\ ms # <<>> /\ Pending = ms
    BY <1>1 DEF Broadcast, SocketInv, HubOK, Pending
  <1>3. Line(b, u, ms, <<>>, hubCh, n) /\ ms \in Seq(Messages) /\ \A k \in DOMAIN ms : ms[k][1] > 0
    BY <1>1, <1>2 DEF SocketInv, HubOK, Line
  <1>4. /\ UNCHANGED <<pubVars, hubCh, got, late, stream>> /\ ws' = [c \in Clients |-> Offer(ws[c], m)]
        /\ ToSend("hub")' = u
    BY <1>1 DEF Broadcast, pubVars, ToSend
  <1>5. /\ m \in Messages /\ m = ms[1] /\ 1 \in DOMAIN ms /\ Tail(ms) \in Seq(Messages)
        /\ Len(Tail(ms)) = Len(ms) - 1 /\ Len(ms) \in Nat
        /\ \A k \in DOMAIN Tail(ms) : k + 1 \in DOMAIN ms /\ Tail(ms)[k] = ms[k + 1]
    BY <1>1, <1>2, <1>3, TailFacts, LenProperties
  <1>6. PICK rest : rest = Tail(ms) OBVIOUS
  <1>7. /\ hub'.pc \in {"recv", "broadcast"} /\ Pending' = rest
        /\ hub'.pc = "broadcast" => hub' = [pc |-> "broadcast", msgs |-> hub'.msgs] /\ hub'.msgs # <<>>
    <2>1. CASE Len(ms) = 1
      <3>1. hub' = [pc |-> "recv"] BY <1>1, <2>1 DEF Broadcast
      <3>2. rest = <<>> BY <1>5, <1>6, <2>1, EmptySeq
      <3> QED BY <3>1, <3>2 DEF Pending
    <2>2. CASE Len(ms) # 1
      <3>1. hub' = [hub EXCEPT !.msgs = rest] BY <1>1, <1>6, <2>2 DEF Broadcast
      <3>2. hub' = [pc |-> "broadcast", msgs |-> rest] BY <1>2, <3>1
      <3>3. Len(rest) # 0 /\ rest \in Seq(Messages) BY <1>5, <1>6, <2>2
      <3>4. rest # <<>> BY ONLY <3>3, EmptySeq
      <3> QED BY <3>2, <3>4 DEF Pending
    <2> QED BY <2>1, <2>2
  <1>8. Line(b, u, rest, <<>>, hubCh, n) BY <1>2, <1>3, <1>6, LineTail
  <1>9. ASSUME NEW s, Line(b, u, s, ms, hubCh, n)
        PROVE  Line(b, u, s, rest, hubCh, n) /\ Line(b, u, Append(s, m), rest, hubCh, n)
    <2>1. Precedes(b, s, rest) BY <1>2, <1>3, <1>6, <1>9, PrecedesTail DEF Line
    <2>2. Line(b, u, s, rest, hubCh, n) BY <1>9, <2>1 DEF Line
    <2>3. \A i \in DOMAIN s : Before(b, s[i], m) BY <1>5, <1>9 DEF Line, Precedes
    <2>4. \A j \in DOMAIN rest : Before(b, m, rest[j])
      BY <1>1, <1>2, <1>3, <1>6, HeadBeforeTail DEF Line
    <2>5. m[1] <= n /\ AheadOf(b, u, m[1], hubCh) BY <1>3, <1>5 DEF Line
    <2> QED BY <1>5, <2>2, <2>3, <2>4, <2>5, LineAppend
  <1>10. ASSUME NEW c \in Clients
         PROVE  ClientOK(b, u, got[c], Offer(ws[c], m), rest, hubCh, n) /\ Listed(Offer(ws[c], m)) = Listed(ws[c])
    <2>1. PICK w, g : w = ws[c] /\ g = got[c] OBVIOUS
    <2>2. ClientOK(b, u, g, w, ms, hubCh, n) BY <1>1, <1>2, <2>1 DEF SocketInv, ClientsOK
    <2>3. Line(b, u, g, rest, hubCh, n) BY <1>9, <2>2 DEF ClientOK
    <2>4. CASE ~Listed(w)
      <3>1. Offer(w, m) = w BY <2>4 DEF Offer
      <3>2. ClientOK(b, u, g, w, rest, hubCh, n) BY <2>2, <2>3, <2>4 DEF ClientOK, Listed
      <3> QED BY <2>1, <3>1, <3>2
    <2>5. CASE Listed(w)
      <3>1. /\ w \in [at : {"registered", "in"}, subs : {w.subs}, writing : {w.writing}, send : {w.send}]
            /\ Len(w.send) <= ClientCap /\ Line(b, u, w.send, ms, hubCh, n) /\ Precedes(b, g, w.send)
            /\ w.send \in Seq(Messages)
        BY <2>2, <2>5 DEF ClientOK, Line
      <3>2. CASE Offer(w, m) = w
        <4>1. Line(b, u, w.send, rest, hubCh, n) BY <1>9, <3>1
        <4>2. ClientOK(b, u, g, w, rest, hubCh, n) BY <2>2, <2>3, <3>1, <4>1 DEF ClientOK
        <4> QED BY <2>1, <3>2, <4>2
      <3>3. CASE Offer(w, m) = [w EXCEPT !.send = Append(w.send, m)] /\ Len(w.send) < ClientCap
        <4>1. PICK a, v : a = Append(w.send, m) /\ v = [w EXCEPT !.send = a] OBVIOUS
        <4>2. Line(b, u, a, rest, hubCh, n) BY <1>9, <3>1, <4>1
        <4>3. \A i \in DOMAIN g : Before(b, g[i], m)
          BY <1>5, <2>2 DEF ClientOK, Line, Precedes
        <4>4. Precedes(b, g, a) BY <1>5, <3>1, <4>1, <4>3, PrecedesAppend
        <4>5. /\ Len(a) = Len(w.send) + 1 /\ Len(w.send) \in Nat
              /\ \A i \in DOMAIN a : (i \in DOMAIN w.send /\ a[i] = w.send[i]) \/ a[i] = m
          BY <1>5, <3>1, <4>1, AppendFacts
        <4>6. Len(a) <= ClientCap BY <3>3, <4>5, EventBusAssumption
        <4>7. /\ v.at = w.at /\ v.send = a
              /\ v \in [at : {"registered", "in"}, subs : {v.subs}, writing : {v.writing}, send : {v.send}]
          BY <3>1, <4>1
        <4>8. v.at = "registered" => g = <<>> /\ \A i \in DOMAIN a : a[i][1] > 0
          BY <1>3, <1>5, <2>2, <4>5, <4>7 DEF ClientOK
        <4>9. ClientOK(b, u, g, v, rest, hubCh, n)
          BY <2>2, <2>3, <3>1, <4>2, <4>4, <4>6, <4>7, <4>8 DEF ClientOK
        <4>10. Listed(v) = Listed(w) BY <4>7 DEF Listed
        <4> QED BY <2>1, <3>3, <4>1, <4>9, <4>10
      <3>4. Offer(w, m) = w \/ (Offer(w, m) = [w EXCEPT !.send = Append(w.send, m)] /\ Len(w.send) < ClientCap)
        <4>1. CASE Len(w.send) < ClientCap BY <2>5, <4>1 DEF Offer, NonBlocking
        <4>2. CASE ~(Len(w.send) < ClientCap)
          <5>1. w = [w EXCEPT !.send = w.send] BY <3>1
          <5> QED BY <2>5, <4>2, <5>1 DEF Offer, NonBlocking
        <4> QED BY <4>1, <4>2
      <3> QED BY <3>2, <3>3, <3>4
    <2> QED BY <2>4, <2>5
  <1>11. ClientsOK' BY <1>1, <1>4, <1>7, <1>10 DEF ClientsOK, pubVars
  <1>12. \A k \in DOMAIN rest : rest[k][1] > 0 BY <1>3, <1>5, <1>6
  <1>13. HubOK' BY <1>1, <1>4, <1>7, <1>8, <1>12 DEF HubOK, pubVars
  <1>14. Leaving' BY <1>7 DEF Leaving
  <1>15. ws' = [c \in Clients |-> ws'[c]] BY <1>4
  <1>16. PubOK' BY <1>4 DEF SocketInv, PubOK, pubVars
  <1>17. StreamOK(before, ToSend("stream"), stream, Len(etype))' BY <1>4 DEF SocketInv, pubVars, ToSend
  <1>18. ChannelOK(before, ToSend("hub"), hubCh, Len(etype))' BY <1>1, <1>4 DEF SocketInv, pubVars
  <1> QED BY <1>4, <1>11, <1>13, <1>14, <1>15, <1>16, <1>17, <1>18 DEF SocketInv

\* closeAll takes no message from anybody.
LEMMA CloseSockets == ASSUME SocketInv, HubQuit \/ HubClose PROVE SocketInv'
  <1>1. UNCHANGED <<pubVars, hubCh, got, late, stream>> BY DEF HubQuit, HubClose
  <1>2. Pending' = Pending
    <2>1. hub.pc # "broadcast" /\ hub'.pc # "broadcast"
      <3>1. CASE HubQuit BY <3>1 DEF HubQuit
      <3>2. CASE HubClose
        <4>1. hub.pc = "closing" /\ hub = [pc |-> "closing", todo |-> hub.todo]
          BY <3>2 DEF HubClose, SocketInv, HubOK
        <4>2. hub' = [pc |-> "done"] \/ \E c \in Clients : hub' = [hub EXCEPT !.todo = @ \ {c}]
          BY <3>2, <4>1 DEF HubClose, SocketInv, HubOK
        <4> QED BY <4>1, <4>2
      <3> QED BY <3>1, <3>2
    <2> QED BY <2>1 DEF Pending
  <1>3. \A s : ToSend(s)' = ToSend(s) BY <1>1 DEF ToSend, pubVars
  <1>4. PubOK' /\ StreamOK(before, ToSend("stream"), stream, Len(etype))'
        /\ ChannelOK(before, ToSend("hub"), hubCh, Len(etype))'
    BY <1>1, <1>3 DEF SocketInv, PubOK, pubVars
  <1>5. ASSUME hub'.pc \in {"closing", "done"},
               hub'.pc = "closing" => hub' = [pc |-> "closing", todo |-> hub'.todo] /\ hub'.todo \subseteq Clients
        PROVE  HubOK'
    BY <1>1, <1>2, <1>3, <1>5 DEF SocketInv, HubOK, pubVars
  <1>6. CASE HubQuit
    <2> DEFINE T == {c \in Clients : Listed(ws[c])}
    <2>1. hub' = [pc |-> "closing", todo |-> T] /\ ws' = ws BY <1>6 DEF HubQuit
    <2>2. hub'.pc = "closing" /\ hub'.todo = T /\ hub' = [pc |-> "closing", todo |-> hub'.todo] BY <2>1
    <2>3. HubOK' BY <1>5, <2>2
    <2>4. Leaving' BY <2>1, <2>2 DEF Leaving
    <2>5. ClientsOK' BY <1>1, <1>2, <1>3, <2>1 DEF SocketInv, ClientsOK, pubVars
    <2> QED BY <1>1, <1>4, <2>1, <2>3, <2>4, <2>5 DEF SocketInv
  <1>7. CASE HubClose
    <2>1. /\ hub.pc = "closing" /\ hub = [pc |-> "closing", todo |-> hub.todo] /\ hub.todo \subseteq Clients
          /\ \A c \in Clients : Listed(ws[c]) => c \in late \cup hub.todo
      BY <1>7 DEF HubClose, SocketInv, HubOK, Leaving
    <2>2. CASE hub.todo = {}
      <3>1. hub' = [pc |-> "done"] /\ ws' = ws BY <1>7, <2>2 DEF HubClose
      <3>2. hub'.pc = "done" BY <3>1
      <3>3. HubOK' BY <1>5, <3>2
      <3>4. Leaving' BY <1>1, <2>1, <2>2, <3>1, <3>2 DEF Leaving
      <3>5. ClientsOK' BY <1>1, <1>2, <1>3, <3>1 DEF SocketInv, ClientsOK, pubVars
      <3> QED BY <1>1, <1>4, <3>1, <3>3, <3>4, <3>5 DEF SocketInv
    <2>3. ASSUME NEW c \in hub.todo, hub' = [hub EXCEPT !.todo = @ \ {c}], ws' = [ws EXCEPT ![c] = Closed]
          PROVE  SocketInv'
      <3>1. hub'.pc = "closing" /\ hub'.todo = hub.todo \ {c} /\ hub' = [pc |-> "closing", todo |-> hub'.todo]
        BY <2>1, <2>3
      <3>2. /\ c \in Clients /\ ws' = [x \in Clients |-> ws'[x]] /\ ws'[c] = Closed
            /\ \A x \in Clients \ {c} : ws'[x] = ws[x]
        BY <2>1, <2>3 DEF SocketInv
      <3>3. HubOK' BY <1>5, <2>1, <3>1
      <3>4. Closed.at = "closed" /\ ~Listed(Closed) BY DEF Closed, Listed
      <3>5. Leaving' BY <1>1, <2>1, <3>1, <3>2, <3>4 DEF Leaving
      <3>6. \A x \in Clients : ClientOK(before, ToSend("hub"), got[x], ws'[x], Pending, hubCh, Len(etype))
        BY <3>2, <3>4 DEF SocketInv, ClientsOK, ClientOK
      <3>7. ClientsOK' BY <1>1, <1>2, <1>3, <3>6 DEF ClientsOK, pubVars
      <3> QED BY <1>1, <1>4, <3>2, <3>3, <3>5, <3>7 DEF SocketInv
    <2> QED BY <1>7, <2>2, <2>3 DEF HubClose
  <1> QED BY <1>6, <1>7

\* A client moves: what it has been written stays in front of what it will be.
LEMMA ClientMoves ==
    ASSUME SocketInv, NEW c \in Clients, UNCHANGED <<pubVars, hubCh, hub, stream>>,
           NEW w, NEW g, ws' = [ws EXCEPT ![c] = w], got' = [got EXCEPT ![c] = g],
           ClientOK(before, ToSend("hub"), g, w, Pending, hubCh, Len(etype)), late \subseteq late',
           Listed(w) => Listed(ws[c]) \/ hub.pc \notin {"closing", "done"} \/ c \in late'
    PROVE  SocketInv'
  <1>1. /\ ws' = [x \in Clients |-> ws'[x]] /\ ws'[c] = w /\ \A x \in Clients \ {c} : ws'[x] = ws[x]
        /\ got' = [x \in Clients |-> got'[x]] /\ got'[c] = g /\ \A x \in Clients \ {c} : got'[x] = got[x]
    BY DEF SocketInv
  <1>2. Pending' = Pending /\ \A s : ToSend(s)' = ToSend(s) BY DEF Pending, ToSend, pubVars
  <1>3. HubOK' BY <1>2 DEF SocketInv, HubOK, pubVars
  <1>4. Leaving' BY <1>1 DEF SocketInv, Leaving
  <1>5. \A x \in Clients : ClientOK(before, ToSend("hub"), got'[x], ws'[x], Pending, hubCh, Len(etype))
    BY <1>1 DEF SocketInv, ClientsOK
  <1>6. ClientsOK' BY <1>2, <1>5 DEF ClientsOK, pubVars
  <1>7. PubOK' /\ StreamOK(before, ToSend("stream"), stream, Len(etype))'
        /\ ChannelOK(before, ToSend("hub"), hubCh, Len(etype))'
    BY <1>2 DEF SocketInv, PubOK, pubVars
  <1> QED BY <1>1, <1>3, <1>4, <1>6, <1>7 DEF SocketInv

\* The greeting is of no event: it may stand anywhere.
LEMMA GreetingFits ==
    ASSUME SocketInv, NEW s, Line(before, ToSend("hub"), s, Pending, hubCh, Len(etype)),
           \A i \in DOMAIN s : s[i][1] > 0
    PROVE  Line(before, ToSend("hub"), Append(s, Greeting), Pending, hubCh, Len(etype))
  <1>1. PICK m : m = Greeting OBVIOUS
  <1>2. m \in Messages /\ m[1] = 0 BY <1>1 DEF Messages, Words, Greeting
  <1>3. \A e : e # 0 => Ahead(before, e, 0) /\ Ahead(before, 0, e) BY ToSendFacts DEF Ahead, SocketInv
  <1>4. s \in Seq(Messages) BY DEF Line
  <1>5. \A i \in DOMAIN s : Before(before, s[i], m) BY <1>2, <1>3 DEF Before
  <1>6. \A j \in DOMAIN Pending : Before(before, m, Pending[j]) BY <1>2, <1>3 DEF Before, SocketInv, HubOK
  <1>7. AheadOf(before, ToSend("hub"), 0, hubCh)
    <2>1. \A k \in DOMAIN hubCh : hubCh[k] # 0 BY DEF SocketInv, ChannelOK
    <2>2. 0 \notin ToSend("hub") BY ToSendFacts DEF SocketInv
    <2> QED BY <1>3, <2>1, <2>2 DEF AheadOf
  <1>8. 0 <= Len(etype) BY ToSendFacts DEF SocketInv
  <1> QED BY <1>1, <1>2, <1>5, <1>6, <1>7, <1>8, LineAppend

LEMMA ClientSockets == ASSUME SocketInv, NEW c \in Clients, ClientStep(c) PROVE SocketInv'
  <1>1. PICK w, g, n, b, u : /\ w = ws[c] /\ g = got[c] /\ n = Len(etype) /\ b = before
                            /\ u = ToSend("hub")
    OBVIOUS
  <1>2. ClientOK(b, u, g, w, Pending, hubCh, n) BY <1>1 DEF SocketInv, ClientsOK
  <1>3. got = [x \in Clients |-> got[x]] /\ got = [got EXCEPT ![c] = g] BY <1>1 DEF SocketInv
  <1>4. ASSUME NEW v, ws' = [ws EXCEPT ![c] = v], ClientOK(b, u, g, v, Pending, hubCh, n),
               UNCHANGED <<pubVars, hubCh, hub, stream, got>>, late \subseteq late',
               Listed(v) => Listed(w) \/ hub.pc \notin {"closing", "done"} \/ c \in late'
        PROVE  SocketInv'
    <2>1. got' = [got EXCEPT ![c] = g] BY <1>3, <1>4
    <2>2. UNCHANGED <<pubVars, hubCh, hub, stream>> BY <1>4
    <2> QED BY <1>1, <1>4, <2>1, <2>2, ClientMoves
  <1>5. CASE ClientUpgrade(c)
    <2>1. PICK v : v = [at |-> "upgraded"] OBVIOUS
    <2>2. ws' = [ws EXCEPT ![c] = v] /\ w.at = "out" BY <1>1, <1>5, <2>1 DEF ClientUpgrade
    <2>3. v.at = "upgraded" /\ ~Listed(v) BY <2>1 DEF Listed
    <2>4. ClientOK(b, u, g, v, Pending, hubCh, n) BY <1>2, <2>2, <2>3 DEF ClientOK
    <2>5. UNCHANGED <<pubVars, hubCh, hub, stream, got, late>> BY <1>5 DEF ClientUpgrade
    <2> QED BY <1>4, <2>2, <2>3, <2>4, <2>5
  <1>6. CASE ClientRegister(c)
    <2>1. PICK s, v : s = <<>> /\ v = [at |-> "registered", subs |-> {<<"*", "*">>}, writing |-> TRUE, send |-> s]
      OBVIOUS
    <2>2. w.at = "upgraded" /\ ws' = [ws EXCEPT ![c] = v] BY <1>1, <1>6, <2>1 DEF ClientRegister
    <2>3. late' = IF hub.pc \in {"closing", "done"} THEN late \cup {c} ELSE late BY <1>6 DEF ClientRegister
    <2>4. g = <<>> BY <1>2, <2>2 DEF ClientOK
    <2>5. /\ v.at = "registered" /\ v.send = s /\ Len(s) = 0 /\ DOMAIN s = {}
          /\ v \in [at : {"registered", "in"}, subs : {v.subs}, writing : {v.writing}, send : {v.send}]
      BY <2>1
    <2>6. Line(b, u, s, Pending, hubCh, n) /\ Precedes(b, g, s) BY <2>1, EmptyLine, NobodyAhead
    <2>7. Len(s) <= ClientCap BY <2>5, EventBusAssumption
    <2>8. ClientOK(b, u, g, v, Pending, hubCh, n) BY <1>2, <2>4, <2>5, <2>6, <2>7 DEF ClientOK
    <2>9. UNCHANGED <<pubVars, hubCh, hub, stream, got>> BY <1>6 DEF ClientRegister
    <2>10. late \subseteq late' /\ (hub.pc \notin {"closing", "done"} \/ c \in late') BY <2>3
    <2> QED BY <1>4, <2>2, <2>8, <2>9, <2>10
  <1>7. CASE ClientGreet(c)
    <2>1. w.at = "registered" /\ UNCHANGED <<pubVars, hubCh, hub, stream, got, late>>
      BY <1>1, <1>7 DEF ClientGreet
    <2>2. /\ w \in [at : {"registered", "in"}, subs : {w.subs}, writing : {w.writing}, send : {w.send}]
          /\ Listed(w) /\ Len(w.send) <= ClientCap /\ Line(b, u, w.send, Pending, hubCh, n)
          /\ \A i \in DOMAIN w.send : w.send[i][1] > 0
          /\ g = <<>>
      BY <1>2, <2>1 DEF ClientOK, Listed
    <2>3. PICK a : a = NonBlocking(w.send, ClientCap, Greeting) OBVIOUS
    <2>4. Line(b, u, Append(w.send, Greeting), Pending, hubCh, n) BY <1>1, <2>2, GreetingFits
    <2>5. Line(b, u, a, Pending, hubCh, n) /\ Len(a) <= ClientCap
      <3>1. w.send \in Seq(Messages) BY <2>2 DEF Line
      <3>2. Len(Append(w.send, Greeting)) = Len(w.send) + 1 /\ Len(w.send) \in Nat
        BY <3>1, AppendProperties, LenProperties
      <3> QED BY <2>2, <2>3, <2>4, <3>2, EventBusAssumption DEF NonBlocking
    <2>6. PICK v : v = [w EXCEPT !.at = "in", !.send = a] OBVIOUS
    <2>7. ws' = [ws EXCEPT ![c] = v]
      <3>1. ws' = [ws EXCEPT ![c].at = "in", ![c].send = NonBlocking(@, ClientCap, Greeting)]
        BY <1>7 DEF ClientGreet
      <3> QED BY <1>1, <2>3, <2>6, <3>1 DEF SocketInv
    <2>8. /\ v.at = "in" /\ v.send = a
          /\ v \in [at : {"registered", "in"}, subs : {v.subs}, writing : {v.writing}, send : {v.send}]
      BY <2>2, <2>6
    <2>9. ClientOK(b, u, g, v, Pending, hubCh, n) BY <1>2, <2>2, <2>5, <2>8, NobodyAhead DEF ClientOK
    <2> QED BY <1>4, <2>1, <2>2, <2>7, <2>9
  <1>8. ASSUME NEW ps \in SubPatterns, NEW un \in BOOLEAN, ClientSubscribe(c, ps, un) PROVE SocketInv'
    <2>1. w.at = "in" /\ Listed(w) BY <1>1, <1>8 DEF ClientSubscribe, Listed
    <2>2. PICK x : ws' = [ws EXCEPT ![c].subs = x] BY <1>8 DEF ClientSubscribe
    <2>3. PICK v : v = [w EXCEPT !.subs = x] OBVIOUS
    <2>4. ws' = [ws EXCEPT ![c] = v] BY <1>1, <2>2, <2>3 DEF SocketInv
    <2>5. w \in [at : {"registered", "in"}, subs : {w.subs}, writing : {w.writing}, send : {w.send}]
      BY <1>2, <2>1 DEF ClientOK
    <2>6. /\ v.at = "in" /\ v.send = w.send
          /\ v \in [at : {"registered", "in"}, subs : {v.subs}, writing : {v.writing}, send : {v.send}]
      BY <2>1, <2>3, <2>5
    <2>7. ClientOK(b, u, g, v, Pending, hubCh, n) BY <1>2, <2>1, <2>6 DEF ClientOK
    <2>8. UNCHANGED <<pubVars, hubCh, hub, stream, got, late>> BY <1>8 DEF ClientSubscribe
    <2> QED BY <1>4, <2>1, <2>4, <2>7, <2>8
  <1>9. CASE ClientLeave(c)
    <2>1. PICK v : v = Closed OBVIOUS
    <2>2. ws' = [ws EXCEPT ![c] = v] /\ v.at = "closed" /\ ~Listed(v)
      BY <1>9, <2>1 DEF ClientLeave, Closed, Listed
    <2>3. ClientOK(b, u, g, v, Pending, hubCh, n) BY <1>2, <2>2 DEF ClientOK
    <2>4. UNCHANGED <<pubVars, hubCh, hub, stream, got, late>> BY <1>9 DEF ClientLeave
    <2> QED BY <1>4, <2>2, <2>3, <2>4
  <1>10. CASE ClientWrite(c)
    <2>1. PICK s, m, rest : s = w.send /\ m = Head(s) /\ rest = Tail(s) OBVIOUS
    <2>2. w.at = "in" /\ Listed(w) /\ s # <<>> /\ UNCHANGED <<pubVars, hubCh, hub, stream, late>>
      BY <1>1, <1>10, <2>1 DEF ClientWrite, Listed
    <2>3. /\ w \in [at : {"registered", "in"}, subs : {w.subs}, writing : {w.writing}, send : {w.send}]
          /\ Len(s) <= ClientCap /\ Line(b, u, s, Pending, hubCh, n) /\ Precedes(b, g, s)
          /\ Line(b, u, g, Pending, hubCh, n) /\ s \in Seq(Messages) /\ g \in Seq(Messages)
      BY <1>2, <2>1, <2>2 DEF ClientOK, Line
    <2>4. Line(b, u, rest, Pending, hubCh, n) /\ Precedes(b, g, rest)
      BY <2>1, <2>2, <2>3, LineTail, PrecedesTail
    <2>5. m \in Messages /\ m = s[1] /\ 1 \in DOMAIN s /\ Len(rest) = Len(s) - 1 /\ Len(s) \in Nat
      BY <2>1, <2>2, <2>3, TailFacts, LenProperties
    <2>6. Len(rest) <= ClientCap BY <2>3, <2>5, EventBusAssumption
    <2>7. \A i \in DOMAIN rest : Before(b, m, rest[i]) BY <2>1, <2>2, <2>3, HeadBeforeTail DEF Line
    <2>8. PICK a : a = Append(g, m) OBVIOUS
    <2>9. Line(b, u, a, Pending, hubCh, n)
      <3>1. \A i \in DOMAIN g : Before(b, g[i], m) BY <2>3, <2>5 DEF Precedes
      <3>2. \A j \in DOMAIN Pending : Before(b, m, Pending[j]) BY <2>3, <2>5 DEF Line, Precedes
      <3>3. m[1] <= n /\ AheadOf(b, u, m[1], hubCh) BY <2>3, <2>5 DEF Line
      <3> QED BY <2>3, <2>5, <2>8, <3>1, <3>2, <3>3, LineAppend
    <2>10. Precedes(b, a, rest)
      <3>1. rest \in Seq(Messages) BY <2>4 DEF Line
      <3> QED BY <2>3, <2>4, <2>5, <2>7, <2>8, <3>1, AppendPrecedes
    <2>11. CASE ws' = [ws EXCEPT ![c].send = Tail(@)] /\ got' = [got EXCEPT ![c] = Append(@, Head(ws[c].send))]
      <3>1. PICK v : v = [w EXCEPT !.send = rest] OBVIOUS
      <3>2. ws' = [ws EXCEPT ![c] = v] /\ got' = [got EXCEPT ![c] = a]
        BY <1>1, <2>1, <2>8, <2>11, <3>1 DEF SocketInv
      <3>3. /\ v.at = "in" /\ v.send = rest
            /\ v \in [at : {"registered", "in"}, subs : {v.subs}, writing : {v.writing}, send : {v.send}]
        BY <2>2, <2>3, <3>1
      <3>4. ClientOK(b, u, a, v, Pending, hubCh, n) BY <2>4, <2>6, <2>9, <2>10, <3>3 DEF ClientOK
      <3>5. UNCHANGED <<pubVars, hubCh, hub, stream>> /\ late \subseteq late' BY <2>2
      <3> QED BY <1>1, <2>2, <3>2, <3>4, <3>5, ClientMoves
    <2>12. CASE ws' = [ws EXCEPT ![c].send = Tail(@), ![c].writing = FALSE] /\ UNCHANGED got
      <3>1. PICK v : v = [w EXCEPT !.send = rest, !.writing = FALSE] OBVIOUS
      <3>2. ws' = [ws EXCEPT ![c] = v] BY <1>1, <2>1, <2>12, <3>1 DEF SocketInv
      <3>3. /\ v.at = "in" /\ v.send = rest
            /\ v \in [at : {"registered", "in"}, subs : {v.subs}, writing : {v.writing}, send : {v.send}]
        BY <2>2, <2>3, <3>1
      <3>4. ClientOK(b, u, g, v, Pending, hubCh, n) BY <2>3, <2>4, <2>6, <3>3 DEF ClientOK
      <3>5. UNCHANGED <<pubVars, hubCh, hub, stream, got>> /\ late \subseteq late' BY <2>2, <2>12
      <3> QED BY <1>4, <2>2, <3>2, <3>4, <3>5
    <2> QED BY <1>10, <2>11, <2>12 DEF ClientWrite
  <1> QED BY <1>5, <1>6, <1>7, <1>8, <1>9, <1>10 DEF ClientStep

\* The event stream opens, writes the oldest event it holds, or closes.
LEMMA StreamSockets == ASSUME SocketInv, StreamOpen \/ StreamWrite \/ StreamClose PROVE SocketInv'
  <1>1. PICK n, b, u : n = Len(etype) /\ b = before /\ u = ToSend("stream") OBVIOUS
  <1>2. UNCHANGED <<pubVars, hubCh, hub, ws, got, late>>
    BY DEF StreamOpen, StreamWrite, StreamClose, wsVars
  <1>3. n \in Nat BY <1>1, ToSendFacts DEF SocketInv
  <1>4. ASSUME StreamOK(b, u, stream', n) PROVE SocketInv'
    <2>1. Pending' = Pending /\ \A s : ToSend(s)' = ToSend(s) BY <1>2 DEF Pending, ToSend, pubVars
    <2>2. HubOK' BY <1>2, <2>1 DEF SocketInv, HubOK, pubVars
    <2>3. Leaving' BY <1>2 DEF SocketInv, Leaving
    <2>4. ClientsOK' BY <1>2, <2>1 DEF SocketInv, ClientsOK, pubVars
    <2>5. PubOK' /\ ChannelOK(before, ToSend("hub"), hubCh, Len(etype))'
      BY <1>2, <2>1 DEF SocketInv, PubOK, pubVars
    <2>6. StreamOK(before, ToSend("stream"), stream, Len(etype))' BY <1>1, <1>2, <1>4, <2>1 DEF pubVars
    <2> QED BY <1>2, <2>2, <2>3, <2>4, <2>5, <2>6 DEF SocketInv
  <1>5. CASE StreamOpen
    <2>1. PICK e, v : e = <<>> /\ v = stream' OBVIOUS
    <2>2. v = [at |-> "in", since |-> n, ch |-> e, out |-> e] BY <1>1, <1>5, <2>1 DEF StreamOpen
    <2>3. DOMAIN e = {} /\ e \in Seq(Nat) BY <2>1
    <2>4. u = {} BY <1>1, <1>5 DEF StreamOpen, WriteLock, ToSend
    <2>5. StreamOK(b, u, v, n) BY <1>3, <2>2, <2>3, <2>4 DEF StreamOK, Rising
    <2> QED BY <1>4, <2>1, <2>5
  <1>6. CASE StreamClose
    <2>1. stream'.at = "closed" BY <1>6 DEF StreamClose
    <2> QED BY <1>4, <2>1 DEF StreamOK
  <1>7. CASE StreamWrite
    <2>1. PICK s, x, a, c : /\ s = stream /\ x = Head(stream.ch) /\ a = Append(stream.out, Head(stream.ch))
                           /\ c = Tail(stream.ch)
      OBVIOUS
    <2>2. s.at = "in" /\ s.ch # <<>> /\ stream' = [s EXCEPT !.ch = c, !.out = a]
      BY <1>7, <2>1 DEF StreamWrite
    <2>3. /\ s \in [at : {"in"}, since : Nat, ch : Seq(Nat), out : Seq(Nat)] /\ s.since <= n
          /\ s.ch \in Seq(Nat) /\ s.out \in Seq(Nat) /\ Rising(b, s.ch) /\ Rising(b, s.out)
          /\ \A y \in u : s.since < y
          /\ \A k \in DOMAIN s.ch : s.since < s.ch[k] /\ s.ch[k] <= n /\ \A y \in u : Ahead(b, s.ch[k], y)
          /\ \A i \in DOMAIN s.out : s.since < s.out[i] /\ s.out[i] <= n /\ AheadOf(b, u, s.out[i], s.ch)
      <3>1. StreamOK(b, u, s, n) BY <1>1, <2>1 DEF SocketInv
      <3> QED BY <2>2, <3>1 DEF StreamOK
    <2>4. /\ x \in Nat /\ x = s.ch[1] /\ 1 \in DOMAIN s.ch /\ c \in Seq(Nat)
          /\ \A k \in DOMAIN c : k + 1 \in DOMAIN s.ch /\ c[k] = s.ch[k + 1]
      BY <2>1, <2>2, <2>3, TailFacts
    <2>5. a \in Seq(Nat) /\ \A k \in DOMAIN a : (k \in DOMAIN s.out /\ a[k] = s.out[k]) \/ a[k] = x
      BY <2>1, <2>3, <2>4, AppendFacts
    <2>6. \A k \in DOMAIN s.out : Ahead(b, s.out[k], x) BY <2>3, <2>4 DEF AheadOf
    <2>7. Rising(b, a) BY <2>1, <2>3, <2>4, <2>6, RisingAppend
    <2>8. Rising(b, c) /\ \A k \in DOMAIN c : Ahead(b, x, c[k]) BY <2>1, <2>2, <2>3, RisingTail
    <2>9. \A k \in DOMAIN c : s.since < c[k] /\ c[k] <= n /\ \A y \in u : Ahead(b, c[k], y)
      BY <2>3, <2>4
    <2>10. \A i \in DOMAIN a : s.since < a[i] /\ a[i] <= n /\ AheadOf(b, u, a[i], c)
      <3> TAKE i \in DOMAIN a
      <3>1. CASE i \in DOMAIN s.out /\ a[i] = s.out[i] BY <2>3, <2>4, <3>1 DEF AheadOf
      <3>2. CASE a[i] = x BY <2>3, <2>4, <2>8, <3>2 DEF AheadOf
      <3> QED BY <2>5, <3>1, <3>2
    <2>11. PICK v : v = [s EXCEPT !.ch = c, !.out = a] OBVIOUS
    <2>12. /\ v \in [at : {"in"}, since : Nat, ch : Seq(Nat), out : Seq(Nat)]
           /\ v.since = s.since /\ v.ch = c /\ v.out = a
      BY <2>3, <2>4, <2>5, <2>11
    <2>13. StreamOK(b, u, v, n) BY <2>3, <2>7, <2>8, <2>9, <2>10, <2>12 DEF StreamOK
    <2> QED BY <1>4, <2>2, <2>11, <2>13
  <1> QED BY <1>5, <1>6, <1>7

LEMMA SocketSteps == SocketInv /\ [BusNext]_busVars => SocketInv'
  <1> SUFFICES ASSUME SocketInv, [BusNext]_busVars PROVE SocketInv' OBVIOUS
  <1>1. ASSUME UNCHANGED <<pubVars, hubCh, hub, ws, got, late, stream>> PROVE SocketInv'
    <2>1. Pending' = Pending /\ \A s : ToSend(s)' = ToSend(s) BY <1>1 DEF Pending, ToSend, pubVars
    <2>2. HubOK' BY <1>1, <2>1 DEF SocketInv, HubOK, pubVars
    <2>3. Leaving' BY <1>1 DEF SocketInv, Leaving
    <2>4. ClientsOK' BY <1>1, <2>1 DEF SocketInv, ClientsOK, pubVars
    <2>5. PubOK' /\ ChannelOK(before, ToSend("hub"), hubCh, Len(etype))'
          /\ StreamOK(before, ToSend("stream"), stream, Len(etype))'
      BY <1>1, <2>1 DEF SocketInv, PubOK, pubVars
    <2> QED BY <1>1, <2>2, <2>3, <2>4, <2>5 DEF SocketInv
  <1>2. ASSUME Cancel \/ WebhookStep \/ UNCHANGED busVars
        PROVE  UNCHANGED <<pubVars, hubCh, hub, ws, got, late, stream>>
    <2>1. CASE Cancel \/ UNCHANGED busVars BY <2>1 DEF Cancel, busVars, wsVars
    <2>2. CASE DispatcherReceive \/ DispatcherPut \/ DispatcherQuit \/ DispatcherLeave \/ SenderReceive
      BY <2>2 DEF DispatcherReceive, DispatcherPut, DispatcherQuit, DispatcherLeave, SenderReceive, wsVars
    <2>3. CASE SenderQuit \/ SendOnce \/ Retry \/ GiveUp
      BY <2>3 DEF SenderQuit, SendOnce, Retry, GiveUp, wsVars
    <2> QED BY <1>2, <2>1, <2>2, <2>3 DEF WebhookStep
  <1>3. CASE \E t \in EventTypes : Publish(t) BY <1>3, PublishSockets
  <1>4. CASE PublishSteps BY <1>4, SentSockets DEF PublishSteps, Names
  <1>5. CASE HubStep BY <1>5, ReceiveSockets, BroadcastSockets, CloseSockets DEF HubStep
  <1>6. CASE \E c \in Clients : ClientStep(c) BY <1>6, ClientSockets
  <1>7. CASE StreamOpen \/ StreamWrite \/ StreamClose BY <1>7, StreamSockets
  <1> QED BY <1>1, <1>2, <1>3, <1>4, <1>5, <1>6, <1>7 DEF BusNext

\* Messages to a websocket client and events on the REST event stream are in an
\* order of publication, none is repeated and none is older than the stream,
\* whatever publishers run side by side and the channels drop.
THEOREM StreamsKeepOrder == BusSpec => []StreamsInOrder
  <1>1. SocketInv => StreamsInOrder
    <2> SUFFICES ASSUME SocketInv PROVE StreamsInOrder OBVIOUS
    <2>1. \A c \in Clients : Ascends(before, got[c]) BY DEF SocketInv, ClientsOK, ClientOK, Line
    <2>2. stream.at = "in" => /\ \A i \in DOMAIN stream.out : stream.since < stream.out[i]
                              /\ Rising(before, stream.out)
      BY DEF SocketInv, StreamOK
    <2> QED BY <2>1, <2>2 DEF StreamsInOrder, MayPrecede, Ascends, Before, Rising, Ahead
  <1> QED BY <1>1, SocketStart, SocketSteps, PTL DEF BusSpec

\* closeAll closes every client that had registered when it listed them,
\* whatever clients register or leave while it closes them.
THEOREM HubClosesAll == BusSpec => []HubLeavesNone
  <1>1. SocketInv => HubLeavesNone BY DEF SocketInv, Leaving, HubLeavesNone
  <1> QED BY <1>1, SocketStart, SocketSteps, PTL DEF BusSpec

(***************************************************************************)
(* The webhook dispatcher.  Deliveries are ordered by event, those of one  *)
(* event by webhook: the queue is in that order, ahead of what the         *)
(* dispatcher looks at and of its broker channel, behind the delivery the  *)
(* sender has and all that receivers have seen.                            *)
(***************************************************************************)
Lex(b, e1, h1, e2, h2) == Ahead(b, e1, e2) \/ (e1 = e2 /\ h1 < h2)

Deliveries == [hook : Hooks, evt : Nat]

Busy == sender.pc \in {"send", "wait"}

\* Event e was wanted by webhook h, and the dispatcher is done with it.
Past(b, u, e, h, ch, dp, types) ==
    /\ h \in Hooks /\ e \in 1..Len(types) /\ MatchesAny(HookPatterns[h], types[e])
    /\ AheadOf(b, u, e, ch)
    /\ dp.pc = "put" => Lex(b, e, h, dp.evt, dp.hook)

DispatcherOK ==
    /\ disp.pc \in {"recv", "put", "leaving", "done"} /\ cancelled \in BOOLEAN
    /\ disp.pc \in {"leaving", "done"} => cancelled = TRUE
    /\ disp.pc = "put" => /\ disp \in [pc : {"put"}, evt : 1..Len(etype), hook : Hooks]
                          /\ AheadOf(before, ToSend("hooks"), disp.evt, hookCh)

QueueOK ==
    /\ queue \in Seq(Deliveries) /\ Len(queue) <= WebhookCap
    /\ \A k \in DOMAIN queue : Past(before, ToSend("hooks"), queue[k].evt, queue[k].hook, hookCh, disp, etype)
    /\ \A j, k \in DOMAIN queue :
          j < k => Lex(before, queue[j].evt, queue[j].hook, queue[k].evt, queue[k].hook)

SenderOK ==
    /\ sender.pc \in {"recv", "send", "wait", "done"}
    /\ Busy => /\ sender \in [pc : {"send", "wait"}, hook : Hooks, evt : Nat, attempt : 1..MaxAttempts]
               /\ sender.pc = "wait" => sender.attempt < MaxAttempts
               /\ Past(before, ToSend("hooks"), sender.evt, sender.hook, hookCh, disp, etype)
               /\ \A k \in DOMAIN queue : Lex(before, sender.evt, sender.hook, queue[k].evt, queue[k].hook)

\* A receiver has seen events in order, the repeats of one together.
SeenInOrder(b, s) ==
    /\ \A i, j \in DOMAIN s : i < j => s[i] = s[j] \/ Ahead(b, s[i], s[j])
    /\ \A i, j, k \in DOMAIN s : i < k /\ k < j /\ s[i] = s[j] => s[k] = s[j]

\* Since event e came, nothing else has.
Latest(s, e) == \A i, k \in DOMAIN s : i < k /\ s[i] = e => s[k] = e

ReceivedOK ==
    /\ received \in [Hooks -> Seq(Nat)]
    /\ \A h \in Hooks : \A i \in DOMAIN received[h] :
          /\ Past(before, ToSend("hooks"), received[h][i], h, hookCh, disp, etype)
          /\ \A k \in DOMAIN queue : Lex(before, received[h][i], h, queue[k].evt, queue[k].hook)
          /\ Busy => \/ received[h][i] = sender.evt /\ h = sender.hook
                     \/ Lex(before, received[h][i], h, sender.evt, sender.hook)
    /\ \A h \in Hooks : SeenInOrder(before, received[h])
    /\ \A h \in Hooks : Busy /\ h = sender.hook => Latest(received[h], sender.evt)

Copies(s, e) == Cardinality({i \in DOMAIN s : s[i] = e})

CopiesOK ==
    \A h \in Hooks, e \in Nat :
        /\ Copies(received[h], e) <= MaxAttempts
        /\ Busy /\ sender.hook = h /\ sender.evt = e =>
              Copies(received[h], e) <= IF sender.pc = "send" THEN sender.attempt - 1 ELSE sender.attempt

HookInv ==
    /\ PubOK /\ ChannelOK(before, ToSend("hooks"), hookCh, Len(etype))
    /\ DispatcherOK /\ QueueOK /\ SenderOK /\ ReceivedOK /\ CopiesOK

LEMMA HookStart == BusInit => HookInv /\ NothingVanishes
  <1> SUFFICES ASSUME BusInit PROVE HookInv /\ NothingVanishes OBVIOUS
  <1> USE DEF BusInit
  <1>1. PICK e : e = <<>> OBVIOUS
  <1>2. /\ etype = e /\ hookCh = e /\ queue = e /\ Len(e) = 0 /\ DOMAIN e = {}
        /\ e \in Seq(EventTypes) /\ e \in Seq(Nat) /\ e \in Seq(Deliveries)
    BY <1>1
  <1>3. disp.pc = "recv" /\ sender.pc = "recv" /\ cancelled = FALSE OBVIOUS
  <1>4. received = [h \in Hooks |-> e] BY <1>1
  <1>5. \A x : Copies(e, x) = 0
    <2>1. \A x : {i \in DOMAIN e : e[i] = x} = {} BY <1>2
    <2> QED BY <2>1, FS_EmptySet DEF Copies
  <1>6. ChannelOK(before, ToSend("hooks"), hookCh, Len(etype)) BY <1>2, EventBusAssumption DEF ChannelOK, Rising
  <1>7. DispatcherOK BY <1>3 DEF DispatcherOK
  <1>8. QueueOK BY <1>2, EventBusAssumption DEF QueueOK
  <1>9. ~Busy BY <1>3 DEF Busy
  <1>10. SenderOK BY <1>3, <1>9 DEF SenderOK
  <1>11. ReceivedOK BY <1>2, <1>4, <1>9 DEF ReceivedOK, SeenInOrder
  <1>12. CopiesOK BY <1>4, <1>5, <1>9, EventBusAssumption DEF CopiesOK
  <1>13. NothingVanishes BY <1>2 DEF NothingVanishes, Events
  <1>14. PubOK BY PubStart
  <1> QED BY <1>6, <1>7, <1>8, <1>10, <1>11, <1>12, <1>13, <1>14 DEF HookInv

\* A new event comes after all that the dispatcher has dealt with.
LEMMA PastLater ==
    ASSUME NEW b, NEW b2, NEW u, NEW u2, NEW ch, NEW types, NEW types2, NEW n \in Nat, ComesLast(b, b2, n),
           u2 \subseteq u \cup {n + 1}, Len(types) = n, Len(types2) = n + 1,
           \A k \in 1..n : types2[k] = types[k],
           NEW dp, NEW e, NEW h, Past(b, u, e, h, ch, dp, types)
    PROVE  Past(b2, u2, e, h, ch, dp, types2)
  <1>1. e \in Nat /\ e <= n /\ e \in 1..n /\ e \in 1..(n + 1) BY DEF Past
  <1>2. Ahead(b2, e, n + 1) /\ \A x : Ahead(b, e, x) => Ahead(b2, e, x) BY <1>1 DEF ComesLast
  <1>3. AheadOf(b2, u2, e, ch) BY <1>2 DEF Past, AheadOf
  <1>4. dp.pc = "put" => Lex(b2, e, h, dp.evt, dp.hook) BY <1>2 DEF Past, Lex
  <1> QED BY <1>1, <1>3, <1>4 DEF Past

LEMMA PublishHooks == ASSUME HookInv, NEW t \in EventTypes, Publish(t) PROVE HookInv'
  <1>1. PICK n, u, u2, b, b2, types :
           /\ n = Len(etype) /\ u = ToSend("hooks") /\ u2 = ToSend("hooks")' /\ b = before /\ b2 = before'
           /\ types = etype'
    OBVIOUS
  <1>2. /\ n \in Nat /\ Len(types) = n + 1 /\ PubOK' /\ ComesLast(b, b2, n) /\ u2 \subseteq u \cup {n + 1}
        /\ \A e \in 1..n : types[e] = etype[e]
    BY <1>1, PublishFacts DEF HookInv, ComesLast
  <1>3. UNCHANGED <<cancelled, disp, queue, sender, received, hookCh>> BY DEF Publish, hookVars
  <1>4. ChannelOK(b2, u2, hookCh, n + 1)
    <2>1. ChannelOK(b, u, hookCh, n) BY <1>1 DEF HookInv
    <2> QED BY <1>2, <2>1, ChannelLater
  <1>5. ASSUME NEW e, NEW h, Past(b, u, e, h, hookCh, disp, etype)
        PROVE  /\ Past(b2, u2, e, h, hookCh, disp, types)
               /\ \A x : Ahead(b, e, x) => Ahead(b2, e, x)
    <2>1. PICK ch, dp, old : ch = hookCh /\ dp = disp /\ old = etype OBVIOUS
    <2>2. Past(b, u, e, h, ch, dp, old) /\ Len(old) = n /\ \A k \in 1..n : types[k] = old[k]
      BY <1>1, <1>2, <1>5, <2>1
    <2>3. Past(b2, u2, e, h, ch, dp, types) BY <1>2, <2>2, PastLater
    <2>4. e \in Nat /\ e <= n BY <1>2, <2>2 DEF Past
    <2> QED BY <1>2, <2>1, <2>3, <2>4 DEF ComesLast
  <1>6. ASSUME NEW e, NEW h, Past(b, u, e, h, hookCh, disp, etype), NEW x, NEW y, Lex(b, e, h, x, y)
        PROVE  Lex(b2, e, h, x, y)
    BY <1>5, <1>6 DEF Lex
  <1>7. DispatcherOK'
    <2>1. CASE disp.pc # "put" BY <1>3, <2>1 DEF HookInv, DispatcherOK
    <2>2. CASE disp.pc = "put"
      <3>1. /\ disp.evt \in 1..n /\ disp \in [pc : {"put"}, evt : 1..n, hook : Hooks]
            /\ AheadOf(b, u, disp.evt, hookCh)
        BY <1>1, <2>2 DEF HookInv, DispatcherOK
      <3>2. PICK d : d = disp.evt OBVIOUS
      <3>3. Ahead(b2, d, n + 1) /\ \A x : Ahead(b, d, x) => Ahead(b2, d, x) BY <1>2, <3>1, <3>2 DEF ComesLast
      <3>4. AheadOf(b2, u2, d, hookCh) BY <1>2, <3>1, <3>2, <3>3 DEF AheadOf
      <3>5. disp \in [pc : {"put"}, evt : 1..(n + 1), hook : Hooks] BY <1>2, <3>1
      <3> QED BY <1>1, <1>2, <1>3, <2>2, <3>2, <3>4, <3>5 DEF HookInv, DispatcherOK
    <2> QED BY <2>1, <2>2
  <1>8. Busy' = Busy BY <1>3 DEF Busy
  <1>9. QueueOK' BY <1>1, <1>3, <1>5, <1>6 DEF HookInv, QueueOK
  <1>10. SenderOK' BY <1>1, <1>3, <1>5, <1>6, <1>8 DEF HookInv, SenderOK
  <1>11. ReceivedOK'
    <2>1. \A h \in Hooks : \A i \in DOMAIN received[h] : Past(b, u, received[h][i], h, hookCh, disp, etype)
      BY <1>1 DEF HookInv, ReceivedOK
    <2>2. \A h \in Hooks : SeenInOrder(b2, received[h])
      <3> SUFFICES ASSUME NEW h \in Hooks PROVE SeenInOrder(b2, received[h]) OBVIOUS
      <3>1. \A i \in DOMAIN received[h] : \A x : Ahead(b, received[h][i], x) => Ahead(b2, received[h][i], x)
        BY <1>5, <2>1
      <3>2. SeenInOrder(b, received[h]) BY <1>1 DEF HookInv, ReceivedOK
      <3> QED BY <3>1, <3>2 DEF SeenInOrder
    <2> QED BY <1>1, <1>3, <1>5, <1>6, <1>8, <2>1, <2>2 DEF HookInv, ReceivedOK
  <1>12. CopiesOK' BY <1>3, <1>8 DEF HookInv, CopiesOK
  <1> QED BY <1>1, <1>2, <1>3, <1>4, <1>7, <1>9, <1>10, <1>11, <1>12 DEF HookInv

\* An event is sent to one subscriber.
LEMMA SentHooks == ASSUME HookInv, NEW e \in Events, NEW s \in Names, PublishTo(e, s) PROVE HookInv'
  <1>1. PICK n, u, w, b, new :
           /\ n = Len(etype) /\ u = ToSend("hooks") /\ w = ToSend("hooks")' /\ b = before /\ new = hookCh'
    OBVIOUS
  <1>2. /\ e \in 1..n /\ n \in Nat /\ e \in ToSend(s) /\ ToSend(s)' = ToSend(s) \ {e}
        /\ \A r : r # s => ToSend(r)' = ToSend(r)
        /\ \A r : \A x \in ToSend(r) : x # e => Ahead(b, e, x)
        /\ PubOK' /\ e \in Nat
    BY <1>1, PublishToFacts, ToSendFacts DEF HookInv
  <1>3. UNCHANGED <<etype, before, cancelled, disp, queue, sender, received>> BY DEF PublishTo
  <1>4. hookCh \in Seq(Nat) /\ ChannelOK(b, u, hookCh, n) BY <1>1 DEF HookInv, ChannelOK
  <1>5. ChannelOK(b, w, new, n) /\ \A f : AheadOf(b, u, f, hookCh) => AheadOf(b, w, f, new)
    <2>1. CASE s = "hooks"
      <3>1. new = NonBlocking(hookCh, BrokerCap, e) /\ w = u \ {e} /\ e \in u
        BY <1>1, <1>2, <2>1 DEF PublishTo
      <3>2. \A y \in u : y # e => Ahead(b, e, y) BY <1>1, <1>2
      <3>3. ChannelOK(b, w, new, n) /\ new \in {hookCh, Append(hookCh, e)}
        BY <1>2, <1>4, <3>1, <3>2, ChannelTakes
      <3>4. \A k \in DOMAIN Append(hookCh, e) :
               (k \in DOMAIN hookCh /\ Append(hookCh, e)[k] = hookCh[k]) \/ Append(hookCh, e)[k] = e
        BY <1>2, <1>4, AppendFacts
      <3>5. \A k \in DOMAIN new : (k \in DOMAIN hookCh /\ new[k] = hookCh[k]) \/ new[k] = e BY <3>3, <3>4
      <3> QED BY <3>1, <3>3, <3>5 DEF AheadOf
    <2>2. CASE s # "hooks"
      <3>1. new = hookCh /\ w = u BY <1>1, <1>2, <2>2 DEF PublishTo
      <3> QED BY <1>4, <3>1
    <2> QED BY <2>1, <2>2
  <1>6. ASSUME NEW x, NEW h, Past(b, u, x, h, hookCh, disp, etype) PROVE Past(b, w, x, h, new, disp, etype)
    BY <1>5, <1>6 DEF Past
  <1>7. Busy' = Busy BY <1>3 DEF Busy
  <1>8. DispatcherOK' BY <1>1, <1>3, <1>5 DEF HookInv, DispatcherOK
  <1>9. QueueOK' BY <1>1, <1>3, <1>6 DEF HookInv, QueueOK
  <1>10. SenderOK' BY <1>1, <1>3, <1>6, <1>7 DEF HookInv, SenderOK
  <1>11. ReceivedOK' BY <1>1, <1>3, <1>6, <1>7 DEF HookInv, ReceivedOK
  <1>12. CopiesOK' BY <1>3, <1>7 DEF HookInv, CopiesOK
  <1> QED BY <1>1, <1>2, <1>3, <1>5, <1>8, <1>9, <1>10, <1>11, <1>12 DEF HookInv

\* The other steps publish nothing.
LEMMA PubSame == ASSUME PubOK, UNCHANGED pubVars PROVE PubOK' /\ \A s : ToSend(s)' = ToSend(s)
  BY DEF PubOK, ToSend, pubVars

\* The dispatcher takes an event, which is later than all it has dealt with.
LEMMA ReceiveHooks == ASSUME HookInv, DispatcherReceive PROVE HookInv'
  <1>1. PICK e, n, u, b, new :
           /\ e = Head(hookCh) /\ n = Len(etype) /\ u = ToSend("hooks") /\ b = before /\ new = Tail(hookCh)
    OBVIOUS
  <1>2. /\ hookCh # <<>> /\ ChannelOK(b, u, hookCh, n) /\ hookCh' = new
        /\ disp' = [pc |-> "put", evt |-> e, hook |-> 1]
        /\ UNCHANGED <<pubVars, etype, before, cancelled, queue, sender, received>>
    BY <1>1 DEF HookInv, DispatcherReceive, pubVars
  <1>3. PubOK' /\ ToSend("hooks")' = u /\ n \in Nat BY <1>1, <1>2, PubSame, ToSendFacts DEF HookInv
  <1>4. /\ ChannelOK(b, u, new, n) /\ e \in 1..n /\ AheadOf(b, u, e, new)
        /\ \A f : AheadOf(b, u, f, hookCh) => Ahead(b, f, e) /\ AheadOf(b, u, f, new)
    BY <1>1, <1>2, <1>3, ChannelGives
  <1>5. disp'.pc = "put" /\ disp'.evt = e /\ disp'.hook = 1 /\ 1 \in Hooks
    BY <1>2, HooksAssumption DEF Hooks
  <1>6. PICK dp : dp = disp' OBVIOUS
  <1>7. ASSUME NEW x, NEW h, Past(b, u, x, h, hookCh, disp, etype) PROVE Past(b, u, x, h, new, dp, etype)
    BY <1>4, <1>5, <1>6, <1>7 DEF Past, Lex
  <1>8. DispatcherOK' BY <1>1, <1>2, <1>3, <1>4, <1>5 DEF HookInv, DispatcherOK
  <1>9. Busy' = Busy BY <1>2 DEF Busy
  <1>10. QueueOK' BY <1>1, <1>2, <1>3, <1>6, <1>7 DEF HookInv, QueueOK
  <1>11. SenderOK' BY <1>1, <1>2, <1>3, <1>6, <1>7, <1>9 DEF HookInv, SenderOK
  <1>12. ReceivedOK' BY <1>1, <1>2, <1>3, <1>6, <1>7, <1>9 DEF HookInv, ReceivedOK
  <1>13. CopiesOK' BY <1>2, <1>9 DEF HookInv, CopiesOK
  <1> QED BY <1>1, <1>2, <1>3, <1>4, <1>8, <1>10, <1>11, <1>12, <1>13 DEF HookInv

\* The dispatcher queues the delivery, behind all others, or passes it over.
LEMMA PutHooks == ASSUME HookInv, DispatcherPut PROVE HookInv'
  <1> DEFINE d == [hook |-> disp.hook, evt |-> disp.evt]
  <1>1. PICK n, u, b, dp : n = Len(etype) /\ u = ToSend("hooks") /\ b = before /\ dp = disp' OBVIOUS
  <1>2. /\ disp.pc = "put" /\ UNCHANGED <<pubVars, etype, before, cancelled, hookCh, sender, received>>
        /\ disp' = DispatcherNext(disp.hook)
    BY DEF DispatcherPut, pubVars
  <1>3. PubOK' /\ ToSend("hooks")' = u /\ n \in Nat BY <1>1, <1>2, PubSame, ToSendFacts DEF HookInv
  <1>4. disp \in [pc : {"put"}, evt : 1..n, hook : Hooks] /\ AheadOf(b, u, disp.evt, hookCh)
    BY <1>1, <1>2 DEF HookInv, DispatcherOK
  <1>5. disp.hook \in Nat /\ disp.hook <= Len(HookPatterns) /\ Hooks = 1..Len(HookPatterns)
    BY <1>4, HooksAssumption DEF Hooks
  <1>6. \/ dp.pc = "recv"
        \/ /\ dp.pc = "put" /\ dp \in [pc : {"put"}, evt : 1..n, hook : Hooks]
           /\ dp.evt = disp.evt /\ dp.hook = disp.hook + 1
    <2>1. CASE disp.hook < Len(HookPatterns)
      <3>1. dp = [disp EXCEPT !.hook = disp.hook + 1] BY <1>1, <1>2, <2>1 DEF DispatcherNext
      <3>2. disp.hook + 1 \in Hooks BY <1>5, <2>1, HooksAssumption
      <3> QED BY <1>4, <3>1, <3>2
    <2>2. CASE ~(disp.hook < Len(HookPatterns)) BY <1>1, <1>2, <2>2 DEF DispatcherNext
    <2> QED BY <2>1, <2>2
  <1>7. ASSUME NEW x, NEW h, Past(b, u, x, h, hookCh, disp, etype)
        PROVE  Past(b, u, x, h, hookCh, dp, etype) /\ Lex(b, x, h, disp.evt, disp.hook)
    <2>1. Lex(b, x, h, disp.evt, disp.hook) BY <1>2, <1>7 DEF Past
    <2>2. h \in Nat BY <1>5, <1>7, HooksAssumption DEF Past
    <2>3. dp.pc = "put" => Lex(b, x, h, dp.evt, dp.hook) BY <1>5, <1>6, <2>1, <2>2 DEF Lex
    <2> QED BY <1>7, <2>1, <2>3 DEF Past
  <1>8. DispatcherOK' BY <1>1, <1>2, <1>3, <1>4, <1>6 DEF HookInv, DispatcherOK
  <1>9. Busy' = Busy BY <1>2 DEF Busy
  <1>10. CopiesOK' BY <1>2, <1>9 DEF HookInv, CopiesOK
  <1>11. ChannelOK(b, u, hookCh, n)' BY <1>1, <1>2 DEF HookInv
  <1>12. CASE queue' = queue
    <2>1. QueueOK' BY <1>1, <1>2, <1>3, <1>7, <1>12 DEF HookInv, QueueOK
    <2>2. SenderOK' BY <1>1, <1>2, <1>3, <1>7, <1>9, <1>12 DEF HookInv, SenderOK
    <2>3. ReceivedOK' BY <1>1, <1>2, <1>3, <1>7, <1>9, <1>12 DEF HookInv, ReceivedOK
    <2> QED BY <1>1, <1>2, <1>3, <1>8, <1>10, <1>11, <2>1, <2>2, <2>3 DEF HookInv
  <1>13. CASE /\ MatchesAny(HookPatterns[disp.hook], etype[disp.evt])
              /\ Len(queue) < WebhookCap /\ queue' = Append(queue, d)
    <2>1. d \in Deliveries /\ d.hook = disp.hook /\ d.evt = disp.evt BY <1>3, <1>4, <1>5 DEF Deliveries
    <2> HIDE DEF d
    <2>2. PICK q : q = queue' OBVIOUS
    <2>3. /\ q \in Seq(Deliveries) /\ Len(q) = Len(queue) + 1 /\ Len(queue) \in Nat
          /\ DOMAIN queue = 1..Len(queue)
          /\ \A i \in DOMAIN q :
                (i \in DOMAIN queue /\ q[i] = queue[i]) \/ (i = Len(queue) + 1 /\ q[i] = d)
      <3>1. queue \in Seq(Deliveries) BY DEF HookInv, QueueOK
      <3>2. PICK l : l = queue OBVIOUS
      <3>3. q = Append(l, d) /\ l \in Seq(Deliveries) BY <1>13, <2>2, <3>1, <3>2
      <3> QED BY <2>1, <3>2, <3>3, AppendFacts
    <2>4. Past(b, u, d.evt, d.hook, hookCh, dp, etype)
      <3>1. dp.pc = "put" => Lex(b, d.evt, d.hook, dp.evt, dp.hook) BY <1>5, <1>6, <2>1 DEF Lex
      <3> QED BY <1>1, <1>2, <1>4, <1>13, <2>1, <3>1 DEF Past
    <2>5. QueueOK'
      <3>1. \A k \in DOMAIN q : Past(b, u, q[k].evt, q[k].hook, hookCh, dp, etype)
        BY <1>1, <1>7, <2>3, <2>4 DEF HookInv, QueueOK
      <3>2. ASSUME NEW j \in DOMAIN q, NEW k \in DOMAIN q, j < k
            PROVE  Lex(b, q[j].evt, q[j].hook, q[k].evt, q[k].hook)
        <4>1. j \in DOMAIN queue /\ q[j] = queue[j] BY <2>3, <3>2
        <4>2. CASE k \in DOMAIN queue /\ q[k] = queue[k] BY <1>1, <3>2, <4>1, <4>2 DEF HookInv, QueueOK
        <4>3. CASE q[k] = d BY <1>1, <1>7, <2>1, <4>1, <4>3 DEF HookInv, QueueOK
        <4> QED BY <2>3, <4>2, <4>3
      <3>3. Len(q) <= WebhookCap BY <1>13, <2>3, EventBusAssumption
      <3> QED BY <1>1, <1>2, <1>3, <2>2, <2>3, <3>1, <3>2, <3>3 DEF QueueOK
    <2>6. SenderOK' BY <1>1, <1>2, <1>3, <1>7, <1>9, <2>1, <2>2, <2>3 DEF HookInv, SenderOK
    <2>7. ReceivedOK' BY <1>1, <1>2, <1>3, <1>7, <1>9, <2>1, <2>2, <2>3 DEF HookInv, ReceivedOK
    <2> QED BY <1>1, <1>2, <1>3, <1>8, <1>10, <1>11, <2>5, <2>6, <2>7 DEF HookInv
  <1> QED BY <1>12, <1>13 DEF DispatcherPut

LEMMA QuitHooks ==
    ASSUME HookInv,
           \/ DispatcherQuit \/ DispatcherLeave \/ SenderQuit \/ GiveUp \/ Retry \/ Cancel
           \/ UNCHANGED <<pubVars, cancelled, hookVars>>
    PROVE  HookInv'
  <1>0. PICK u, b : u = ToSend("hooks") /\ b = before OBVIOUS
  <1>1. UNCHANGED <<pubVars, etype, before, hookCh, queue, received>>
    BY DEF DispatcherQuit, DispatcherLeave, SenderQuit, GiveUp, Retry, Cancel, hookVars, pubVars
  <1>2. disp' = disp \/ disp'.pc \in {"leaving", "done"}
    BY DEF DispatcherQuit, DispatcherLeave, SenderQuit, GiveUp, Retry, Cancel, hookVars
  <1>10. PubOK' /\ ToSend("hooks")' = u BY <1>0, <1>1, PubSame DEF HookInv
  <1>11. ChannelOK(before, ToSend("hooks"), hookCh, Len(etype))' BY <1>0, <1>1, <1>10 DEF HookInv
  <1>3. DispatcherOK'
    <2>1. CASE DispatcherQuit
      <3>1. disp'.pc = "leaving" /\ cancelled' = cancelled /\ cancelled BY <2>1 DEF DispatcherQuit
      <3> QED BY <3>1 DEF HookInv, DispatcherOK
    <2>2. CASE SenderQuit \/ GiveUp \/ Retry \/ UNCHANGED <<pubVars, cancelled, hookVars>>
      <3>1. UNCHANGED <<disp, cancelled>> BY <2>2 DEF SenderQuit, GiveUp, Retry, hookVars
      <3> QED BY <1>0, <1>1, <1>10, <3>1 DEF HookInv, DispatcherOK
    <2>3. CASE Cancel
      <3>1. cancelled' = TRUE /\ disp' = disp BY <2>3 DEF Cancel, hookVars
      <3> QED BY <1>0, <1>1, <1>10, <3>1 DEF HookInv, DispatcherOK
    <2>4. CASE DispatcherLeave
      <3>1. disp'.pc = "done" /\ cancelled' = cancelled /\ disp.pc = "leaving" BY <2>4 DEF DispatcherLeave
      <3> QED BY <3>1 DEF HookInv, DispatcherOK
    <2> QED BY <2>1, <2>2, <2>3, <2>4
  <1>12. PICK dp : dp = disp' OBVIOUS
  <1>4. ASSUME NEW x, NEW h, Past(b, u, x, h, hookCh, disp, etype) PROVE Past(b, u, x, h, hookCh, dp, etype)
    BY <1>2, <1>4, <1>12 DEF Past
  <1>5. QueueOK' BY <1>0, <1>1, <1>4, <1>10, <1>12 DEF HookInv, QueueOK
  <1>6. CASE sender' = sender
    <2>1. Busy' = Busy BY <1>6 DEF Busy
    <2>2. SenderOK' BY <1>0, <1>1, <1>4, <1>10, <1>12, <1>6, <2>1 DEF HookInv, SenderOK
    <2>3. ReceivedOK' BY <1>0, <1>1, <1>4, <1>10, <1>12, <1>6, <2>1 DEF HookInv, ReceivedOK
    <2>4. CopiesOK' BY <1>1, <1>6, <2>1 DEF HookInv, CopiesOK
    <2> QED BY <1>3, <1>5, <1>10, <1>11, <2>2, <2>3, <2>4 DEF HookInv
  <1>7. CASE sender'.pc \in {"recv", "done"}
    <2>1. ~Busy' BY <1>7 DEF Busy
    <2>2. SenderOK' BY <1>7, <2>1 DEF SenderOK
    <2>3. ReceivedOK' BY <1>0, <1>1, <1>4, <1>10, <1>12, <2>1 DEF HookInv, ReceivedOK
    <2>4. CopiesOK' BY <1>1, <2>1 DEF HookInv, CopiesOK
    <2> QED BY <1>3, <1>5, <1>10, <1>11, <2>2, <2>3, <2>4 DEF HookInv
  <1>8. CASE Retry
    <2> DEFINE a == sender.attempt + 1
    <2>1. sender.pc = "wait" /\ Busy /\ sender' = [sender EXCEPT !.pc = "send", !.attempt = a]
      BY <1>8 DEF Retry, Busy
    <2>2. /\ sender \in [pc : {"send", "wait"}, hook : Hooks, evt : Nat, attempt : 1..MaxAttempts]
          /\ a \in 1..MaxAttempts /\ a - 1 = sender.attempt
      BY <2>1, EventBusAssumption DEF HookInv, SenderOK
    <2> HIDE DEF a
    <2>3. /\ sender' \in [pc : {"send", "wait"}, hook : Hooks, evt : Nat, attempt : 1..MaxAttempts]
          /\ sender'.pc = "send" /\ sender'.hook = sender.hook /\ sender'.evt = sender.evt
          /\ sender'.attempt - 1 = sender.attempt
      BY <2>1, <2>2
    <2>4. Busy' BY <2>3 DEF Busy
    <2>5. SenderOK' BY <1>0, <1>1, <1>4, <1>10, <1>12, <2>1, <2>3 DEF HookInv, SenderOK
    <2>6. ReceivedOK' BY <1>0, <1>1, <1>4, <1>10, <1>12, <2>1, <2>3 DEF HookInv, ReceivedOK
    <2>7. CopiesOK' BY <1>1, <2>1, <2>3, <2>4 DEF HookInv, CopiesOK
    <2> QED BY <1>3, <1>5, <1>10, <1>11, <2>5, <2>6, <2>7 DEF HookInv
  <1>9. sender' = sender \/ sender'.pc \in {"recv", "done"} \/ Retry
    BY DEF DispatcherQuit, DispatcherLeave, SenderQuit, GiveUp, Cancel, hookVars
  <1> QED BY <1>6, <1>7, <1>8, <1>9

\* One more event may be one more copy of it.
LEMMA CopiesAppend ==
    ASSUME NEW s \in Seq(Nat), NEW x \in Nat, NEW e
    PROVE  Copies(Append(s, x), e) = Copies(s, e) + (IF x = e THEN 1 ELSE 0) /\ Copies(s, e) \in Nat
  <1> DEFINE S == {i \in DOMAIN s : s[i] = e}
             T == {i \in DOMAIN Append(s, x) : Append(s, x)[i] = e}
  <1>1. /\ DOMAIN s = 1..Len(s) /\ Len(s) \in Nat /\ DOMAIN Append(s, x) = 1..Len(s) + 1
        /\ \A i \in DOMAIN s : Append(s, x)[i] = s[i]
        /\ Append(s, x)[Len(s) + 1] = x
    BY LenProperties, AppendProperties
  <1>2. IsFiniteSet(S)
    <2>1. IsFiniteSet(1..Len(s)) BY <1>1, FS_Interval
    <2>2. S \in SUBSET (1..Len(s)) BY <1>1
    <2> QED BY <2>1, <2>2, FS_Subset
  <1>3. Cardinality(S) \in Nat BY <1>2, FS_CardinalityType
  <1>4. T = IF x = e THEN S \cup {Len(s) + 1} ELSE S
    <2>1. DOMAIN Append(s, x) = DOMAIN s \cup {Len(s) + 1} BY <1>1
    <2>2. \A i \in DOMAIN s : Append(s, x)[i] = e <=> s[i] = e BY <1>1
    <2> QED BY <1>1, <2>1, <2>2
  <1>5. Len(s) + 1 \notin S BY <1>1
  <1>6. Cardinality(S \cup {Len(s) + 1}) = Cardinality(S) + 1 BY <1>2, <1>5, FS_AddElement
  <1> HIDE DEF S, T
  <1>7. Cardinality(T) = Cardinality(S) + (IF x = e THEN 1 ELSE 0) BY <1>3, <1>4, <1>6
  <1> QED BY <1>3, <1>7 DEF Copies, S, T

LEMMA NoCopies ==
    ASSUME NEW s, NEW e, \A i \in DOMAIN s : s[i] # e PROVE Copies(s, e) = 0
  <1>1. {i \in DOMAIN s : s[i] = e} = {} OBVIOUS
  <1> QED BY <1>1, FS_EmptySet DEF Copies

\* The sender takes the oldest delivery; its receiver has not seen it.
LEMMA TakeHooks == ASSUME HookInv, SenderReceive PROVE HookInv'
  <1>1. PICK d, u, b, q : d = Head(queue) /\ u = ToSend("hooks") /\ b = before /\ q = queue' OBVIOUS
  <1>2. /\ sender.pc = "recv" /\ queue # <<>> /\ q = Tail(queue)
        /\ sender' = [pc |-> "send", hook |-> d.hook, evt |-> d.evt, attempt |-> 1]
        /\ UNCHANGED <<pubVars, etype, before, cancelled, hookCh, disp, received>>
    BY <1>1 DEF SenderReceive, pubVars
  <1>3. PubOK' /\ ToSend("hooks")' = u BY <1>1, <1>2, PubSame DEF HookInv
  <1>4. queue \in Seq(Deliveries) /\ Len(queue) <= WebhookCap BY DEF HookInv, QueueOK
  <1>5. /\ d \in Deliveries /\ d = queue[1] /\ 1 \in DOMAIN queue /\ q \in Seq(Deliveries)
        /\ Len(q) = Len(queue) - 1 /\ Len(queue) \in Nat
        /\ \A k \in DOMAIN q : k + 1 \in DOMAIN queue /\ q[k] = queue[k + 1] /\ k \in Nat \ {0}
    BY <1>1, <1>2, <1>4, TailFacts, LenProperties
  <1>6. QueueOK'
    <2>1. \A k \in DOMAIN q : Past(b, u, q[k].evt, q[k].hook, hookCh, disp, etype)
      BY <1>1, <1>5 DEF HookInv, QueueOK
    <2>2. ASSUME NEW j \in DOMAIN q, NEW k \in DOMAIN q, j < k
          PROVE  Lex(b, q[j].evt, q[j].hook, q[k].evt, q[k].hook)
      <3>1. j + 1 < k + 1 BY <1>5, <2>2
      <3> QED BY <1>1, <1>5, <3>1 DEF HookInv, QueueOK
    <2>3. Len(q) <= WebhookCap BY <1>4, <1>5, EventBusAssumption
    <2> QED BY <1>1, <1>2, <1>3, <1>5, <2>1, <2>2, <2>3 DEF QueueOK
  <1>7. \A k \in DOMAIN q : Lex(b, d.evt, d.hook, q[k].evt, q[k].hook)
    <2> TAKE k \in DOMAIN q
    <2>1. 1 < k + 1 /\ k + 1 \in DOMAIN queue /\ q[k] = queue[k + 1] BY <1>5
    <2> QED BY <1>1, <1>5, <2>1 DEF HookInv, QueueOK
  <1>8. /\ sender'.pc = "send" /\ sender'.hook = d.hook /\ sender'.evt = d.evt /\ sender'.attempt = 1
        /\ d.hook \in Hooks /\ d.evt \in Nat
        /\ sender' \in [pc : {"send", "wait"}, hook : Hooks, evt : Nat, attempt : 1..MaxAttempts]
    BY <1>2, <1>5, EventBusAssumption DEF Deliveries
  <1>9. Past(b, u, d.evt, d.hook, hookCh, disp, etype) BY <1>1, <1>5 DEF HookInv, QueueOK
  <1>10. SenderOK' BY <1>1, <1>2, <1>3, <1>7, <1>8, <1>9 DEF SenderOK
  <1>11. \A h \in Hooks : \A i \in DOMAIN received[h] : Lex(b, received[h][i], h, d.evt, d.hook)
    BY <1>1, <1>5 DEF HookInv, ReceivedOK
  <1>12. \A i \in DOMAIN received[d.hook] : received[d.hook][i] # d.evt
    <2> TAKE i \in DOMAIN received[d.hook]
    <2>1. Lex(b, received[d.hook][i], d.hook, d.evt, d.hook) BY <1>8, <1>11
    <2>2. d.hook \in Nat BY <1>8, HooksAssumption DEF Hooks
    <2> QED BY <2>1, <2>2 DEF Lex, Ahead
  <1>13. Latest(received[d.hook], d.evt) BY <1>12 DEF Latest
  <1>14. ReceivedOK' BY <1>1, <1>2, <1>3, <1>5, <1>8, <1>11, <1>13 DEF HookInv, ReceivedOK
  <1>15. CopiesOK'
    <2>1. Copies(received[d.hook], d.evt) = 0 BY <1>12, NoCopies
    <2> QED BY <1>2, <1>8, <2>1 DEF HookInv, CopiesOK
  <1>16. DispatcherOK' BY <1>1, <1>2, <1>3 DEF HookInv, DispatcherOK
  <1>17. ChannelOK(before, ToSend("hooks"), hookCh, Len(etype))' BY <1>1, <1>2, <1>3 DEF HookInv
  <1> QED BY <1>3, <1>6, <1>10, <1>14, <1>15, <1>16, <1>17 DEF HookInv

\* A delivery is attempted.
LEMMA SendHooks == ASSUME HookInv, SendOnce PROVE HookInv'
  <1>1. PICK h, e, a, u, b, rcv :
           /\ h = sender.hook /\ e = sender.evt /\ a = sender.attempt
           /\ u = ToSend("hooks") /\ b = before /\ rcv = received'
    OBVIOUS
  <1>2. sender.pc = "send" /\ Busy /\ UNCHANGED <<pubVars, etype, before, cancelled, hookCh, disp, queue>>
    BY DEF SendOnce, Busy, pubVars
  <1>3. /\ sender \in [pc : {"send", "wait"}, hook : Hooks, evt : Nat, attempt : 1..MaxAttempts]
        /\ h \in Hooks /\ e \in Nat /\ a \in 1..MaxAttempts
        /\ Past(b, u, e, h, hookCh, disp, etype)
        /\ \A k \in DOMAIN queue : Lex(b, e, h, queue[k].evt, queue[k].hook)
    BY <1>1, <1>2 DEF HookInv, SenderOK
  <1>4. rcv \in {received, [received EXCEPT ![h] = Append(@, e)]} BY <1>1 DEF SendOnce
  <1>5. \/ sender'.pc = "recv"
        \/ a # MaxAttempts /\ sender' = [sender EXCEPT !.pc = "wait"]
    BY <1>1 DEF SendOnce, LastAttempt
  <1>6. \/ ~Busy' /\ sender'.pc = "recv"
        \/ /\ Busy' /\ sender'.pc = "wait" /\ sender'.hook = h /\ sender'.evt = e /\ sender'.attempt = a
           /\ a < MaxAttempts
           /\ sender' \in [pc : {"send", "wait"}, hook : Hooks, evt : Nat, attempt : 1..MaxAttempts]
    BY <1>1, <1>3, <1>5, EventBusAssumption DEF Busy
  <1>7. PubOK' /\ ToSend("hooks")' = u BY <1>1, <1>2, PubSame DEF HookInv
  <1>8. QueueOK' /\ DispatcherOK' BY <1>1, <1>2, <1>7 DEF HookInv, QueueOK, DispatcherOK
  <1>9. ChannelOK(before, ToSend("hooks"), hookCh, Len(etype))' BY <1>1, <1>2, <1>7 DEF HookInv
  <1>10. SenderOK' BY <1>1, <1>2, <1>3, <1>6, <1>7 DEF SenderOK
  <1>11. /\ received \in [Hooks -> Seq(Nat)] /\ Latest(received[h], e)
         /\ \A x \in Hooks : SeenInOrder(b, received[x])
    BY <1>1, <1>2, <1>3 DEF HookInv, ReceivedOK
  <1>12. \A x \in Hooks : \A i \in DOMAIN received[x] :
            (received[x][i] = e /\ x = h) \/ Lex(b, received[x][i], x, e, h)
    BY <1>1, <1>2 DEF HookInv, ReceivedOK
  <1>13. \A y \in Nat : /\ Copies(received[h], y) <= MaxAttempts
                        /\ y = e => Copies(received[h], y) <= a - 1
    BY <1>1, <1>2, <1>3 DEF HookInv, CopiesOK
  <1>14. CASE rcv = received
    <2>1. ReceivedOK' BY <1>1, <1>2, <1>6, <1>7, <1>11, <1>12, <1>14 DEF HookInv, ReceivedOK
    <2>2. Copies(received[h], e) \in Nat BY <1>3, <1>11, CopiesAppend
    <2>3. CopiesOK' BY <1>1, <1>3, <1>6, <1>13, <1>14, <2>2, EventBusAssumption DEF HookInv, CopiesOK
    <2> QED BY <1>7, <1>8, <1>9, <1>10, <2>1, <2>3 DEF HookInv
  <1>15. CASE rcv = [received EXCEPT ![h] = Append(@, e)]
    <2>1. PICK s, t : s = received[h] /\ t = Append(s, e) OBVIOUS
    <2>2. s \in Seq(Nat) BY <1>3, <1>11, <2>1
    <2>3. /\ t \in Seq(Nat) /\ Len(s) \in Nat /\ DOMAIN s = 1..Len(s)
          /\ \A i \in DOMAIN t : (i \in DOMAIN s /\ t[i] = s[i]) \/ (i = Len(s) + 1 /\ t[i] = e)
      BY <1>3, <2>1, <2>2, AppendFacts
    <2>4. rcv \in [Hooks -> Seq(Nat)] /\ rcv[h] = t /\ \A x \in Hooks \ {h} : rcv[x] = received[x]
      BY <1>3, <1>11, <1>15, <2>1, <2>3
    <2>5. \A i \in DOMAIN s : s[i] = e \/ Ahead(b, s[i], e)
      <3>1. h \in Nat BY <1>3, HooksAssumption DEF Hooks
      <3> QED BY <1>3, <1>12, <2>1, <3>1 DEF Lex
    <2>6. ASSUME NEW x \in Hooks, NEW i \in DOMAIN rcv[x]
          PROVE  /\ Past(b, u, rcv[x][i], x, hookCh, disp, etype)
                 /\ \A k \in DOMAIN queue : Lex(b, rcv[x][i], x, queue[k].evt, queue[k].hook)
                 /\ Busy' => \/ rcv[x][i] = sender'.evt /\ x = sender'.hook
                             \/ Lex(b, rcv[x][i], x, sender'.evt, sender'.hook)
      <3>1. CASE i \in DOMAIN received[x] /\ rcv[x][i] = received[x][i]
        BY <1>1, <1>6, <1>12, <3>1 DEF HookInv, ReceivedOK
      <3>2. CASE x = h /\ rcv[x][i] = e BY <1>3, <1>6, <3>2
      <3>3. CASE x # h BY <2>4, <2>6, <3>1, <3>3
      <3>4. CASE x = h BY <2>1, <2>3, <2>4, <2>6, <3>1, <3>2, <3>4
      <3> QED BY <3>3, <3>4
    <2>7. SeenInOrder(b, t) /\ Latest(t, e)
      <3>1. ASSUME NEW i \in DOMAIN t, NEW j \in DOMAIN t, i < j
            PROVE  i \in DOMAIN s /\ t[i] = s[i] /\ ((j \in DOMAIN s /\ t[j] = s[j]) \/ t[j] = e)
        BY <2>3, <3>1
      <3>2. SeenInOrder(b, s) /\ Latest(s, e) BY <1>3, <1>11, <2>1
      <3>3. \A i, j \in DOMAIN t : i < j => t[i] = t[j] \/ Ahead(b, t[i], t[j])
        BY <2>5, <3>1, <3>2 DEF SeenInOrder
      <3>4. \A i, k \in DOMAIN t : i < k /\ t[i] = e => t[k] = e BY <3>1, <3>2 DEF Latest
      <3>5. \A i, j, k \in DOMAIN t : i < k /\ k < j /\ t[i] = t[j] => t[k] = t[j]
        <4> TAKE i, j, k \in DOMAIN t
        <4> HAVE i < k /\ k < j /\ t[i] = t[j]
        <4>1. CASE t[j] = e BY <3>4, <4>1
        <4>2. CASE j \in DOMAIN s /\ t[j] = s[j]
          <5>1. i \in DOMAIN s /\ t[i] = s[i] /\ k \in DOMAIN s /\ t[k] = s[k] BY <3>1
          <5> QED BY <3>2, <4>2, <5>1 DEF SeenInOrder
        <4> QED BY <3>1, <4>1, <4>2
      <3> QED BY <3>3, <3>4, <3>5 DEF SeenInOrder, Latest
    <2>8. \A x \in Hooks : SeenInOrder(b, rcv[x]) BY <1>11, <2>4, <2>7
    <2>9. Busy' => sender'.hook = h /\ Latest(rcv[h], sender'.evt) BY <1>6, <2>4, <2>7
    <2>10. ReceivedOK' BY <1>1, <1>2, <1>7, <2>4, <2>6, <2>8, <2>9 DEF ReceivedOK
    <2>11. \A y \in Nat : Copies(t, y) = Copies(s, y) + (IF e = y THEN 1 ELSE 0) /\ Copies(s, y) \in Nat
      BY <1>3, <2>1, <2>2, CopiesAppend
    <2>12. \A y \in Nat : Copies(t, y) <= MaxAttempts /\ (y = e => Copies(t, y) <= a)
      <3> TAKE y \in Nat
      <3>1. PICK p, o : p = Copies(t, y) /\ o = Copies(s, y) OBVIOUS
      <3>2. o \in Nat /\ p = o + (IF e = y THEN 1 ELSE 0) /\ o <= MaxAttempts /\ (y = e => o <= a - 1)
        BY <1>13, <2>1, <2>11, <3>1
      <3> QED BY <1>3, <3>1, <3>2, EventBusAssumption
    <2>13. CopiesOK' BY <1>1, <1>6, <2>4, <2>12 DEF HookInv, CopiesOK
    <2> QED BY <1>7, <1>8, <1>9, <1>10, <2>10, <2>13 DEF HookInv
  <1> QED BY <1>4, <1>14, <1>15

\* Delivery of e to h is under way, was taken in, or was given all its attempts.
Kept(h, e) ==
    \/ UnderWay(h, e)
    \/ \E k \in DOMAIN received[h] : received[h][k] = e
    \/ [hook |-> h, evt |-> e, tries |-> MaxAttempts] \in settled

\* A new event is to be sent to the dispatcher ...
LEMMA KeptByPublish ==
    ASSUME HookInv, NEW t \in EventTypes, Publish(t), NEW h \in Hooks, NEW e, cancelled = FALSE,
           Kept(h, e) \/ e = Len(etype) + 1
    PROVE  Kept(h, e)'
  <1>1. UNCHANGED <<hookCh, disp, queue, sender, received, settled>> BY DEF Publish, hookVars
  <1>2. disp.pc # "done" BY DEF HookInv, DispatcherOK
  <1>3. "hooks" \in Subscribers BY <1>2 DEF Subscribers
  <1>4. sending \subseteq sending' /\ <<Len(etype) + 1, "hooks">> \in sending' BY <1>3 DEF Publish
  <1> QED BY <1>1, <1>4 DEF Kept, UnderWay

\* ... and then it is in its channel, or refused.
LEMMA KeptBySent ==
    ASSUME HookInv, NEW x \in Events, NEW s \in Names, PublishTo(x, s), NEW h \in Hooks, NEW e, e \notin unheard',
           Kept(h, e)
    PROVE  Kept(h, e)'
  <1>1. UNCHANGED <<disp, queue, sender, received, settled>> BY DEF PublishTo
  <1>2. hookCh \in Seq(Nat) /\ Len(hookCh) \in Nat /\ x \in Nat
    <2>1. Events = 1..Len(etype) /\ Len(etype) \in Nat BY ToSendFacts DEF HookInv, Events
    <2> QED BY <2>1, LenProperties DEF HookInv, ChannelOK
  <1>3. PICK a : a = Append(hookCh, x) OBVIOUS
  <1>4. /\ \A k \in DOMAIN hookCh : k \in DOMAIN a /\ a[k] = hookCh[k]
        /\ Len(hookCh) + 1 \in DOMAIN a /\ a[Len(hookCh) + 1] = x
    BY <1>2, <1>3, AppendProperties, LenProperties
  <1>5. \A k \in DOMAIN hookCh : k \in DOMAIN hookCh' /\ hookCh'[k] = hookCh[k]
    BY <1>3, <1>4 DEF PublishTo, NonBlocking
  <1>6. CASE e = x /\ s = "hooks"
    <2>1. Len(hookCh) < BrokerCap BY <1>2, <1>6, EventBusAssumption DEF PublishTo
    <2>2. hookCh' = a BY <1>3, <1>6, <2>1 DEF PublishTo, NonBlocking
    <2> QED BY <1>4, <1>6, <2>2 DEF Kept, UnderWay
  <1>7. CASE ~(e = x /\ s = "hooks")
    <2>1. sending' = sending \ {<<x, s>>} BY DEF PublishTo
    <2>2. <<e, "hooks">> \in sending => <<e, "hooks">> \in sending' BY <1>7, <2>1
    <2> QED BY <1>1, <1>5, <2>2 DEF Kept, UnderWay
  <1> QED BY <1>6, <1>7

LEMMA KeptByReceive ==
    ASSUME HookInv, DispatcherReceive, NEW h \in Hooks, NEW e, Kept(h, e) PROVE Kept(h, e)'
  <1>1. PICK x : x = Head(hookCh) OBVIOUS
  <1>2. /\ hookCh \in Seq(Nat) /\ hookCh # <<>> /\ hookCh' = Tail(hookCh) /\ disp.pc = "recv"
        /\ disp' = [pc |-> "put", evt |-> x, hook |-> 1] /\ UNCHANGED <<sending, queue, sender, received, settled>>
    BY <1>1 DEF HookInv, ChannelOK, DispatcherReceive, pubVars
  <1>3. disp'.pc = "put" /\ disp'.evt = x /\ disp'.hook = 1 /\ 1 <= h
    BY <1>2, HooksAssumption DEF Hooks
  <1>4. ASSUME NEW k \in DOMAIN hookCh, hookCh[k] = e PROVE e = x \/ \E i \in DOMAIN hookCh' : hookCh'[i] = e
    <2>1. /\ x = hookCh[1] /\ DOMAIN hookCh = 1..Len(hookCh) /\ Len(hookCh) \in Nat
          /\ DOMAIN hookCh' = 1..(Len(hookCh) - 1) /\ \A i \in DOMAIN hookCh' : hookCh'[i] = hookCh[i + 1]
      BY <1>1, <1>2, HeadTailProperties, LenProperties, TailFacts
    <2>2. CASE k = 1 BY <1>4, <2>1, <2>2
    <2>3. CASE k # 1
      <3>1. k - 1 \in DOMAIN hookCh' /\ (k - 1) + 1 = k BY <2>1, <2>3
      <3>2. hookCh'[k - 1] = e BY <1>4, <2>1, <3>1
      <3> QED BY <3>1, <3>2
    <2> QED BY <2>2, <2>3
  <1> QED BY <1>2, <1>3, <1>4 DEF Kept, UnderWay

LEMMA KeptByPut ==
    ASSUME HookInv, DispatcherPut, NEW h \in Hooks, NEW e, MatchesAny(HookPatterns[h], etype[e]), Kept(h, e)
    PROVE  Kept(h, e)'
  <1> DEFINE d == [hook |-> disp.hook, evt |-> disp.evt]
  <1>1. /\ disp.pc = "put" /\ UNCHANGED <<sending, hookCh, sender, received, settled>>
        /\ disp' = DispatcherNext(disp.hook)
    BY DEF DispatcherPut, pubVars
  <1>2. disp \in [pc : {"put"}, evt : 1..Len(etype), hook : Hooks] BY <1>1 DEF HookInv, DispatcherOK
  <1>3. Hooks = 1..Len(HookPatterns) /\ Len(HookPatterns) \in Nat /\ disp.hook \in Nat /\ h \in Nat /\ disp.evt \in Nat
    BY <1>2, HooksAssumption, ToSendFacts DEF Hooks, HookInv
  <1>4. d \in Deliveries BY <1>2, <1>3 DEF Deliveries
  <1>5. PICK a : a = Append(queue, d) OBVIOUS
  <1>6. /\ \A k \in DOMAIN queue : k \in DOMAIN a /\ a[k] = queue[k]
        /\ Len(queue) + 1 \in DOMAIN a /\ a[Len(queue) + 1] = d
    <2>1. queue \in Seq(Deliveries) BY DEF HookInv, QueueOK
    <2> HIDE DEF d
    <2> QED BY <1>4, <1>5, <2>1, AppendProperties, LenProperties
  <1>7. queue' = queue \/ queue' = a BY <1>5 DEF DispatcherPut
  <1>8. \A k \in DOMAIN queue : k \in DOMAIN queue' /\ queue'[k] = queue[k] BY <1>6, <1>7
  <1>9. CASE disp.evt = e /\ disp.hook <= h
    <2>1. CASE disp.hook = h
      <3>1. queue' = a BY <1>5, <1>9, <2>1 DEF DispatcherPut
      <3>2. a[Len(queue) + 1] = [hook |-> h, evt |-> e] BY <1>6, <1>9, <2>1
      <3> QED BY <1>6, <3>1, <3>2 DEF Kept, UnderWay
    <2>2. CASE disp.hook # h
      <3>1. disp.hook < Len(HookPatterns) /\ disp.hook + 1 <= h BY <1>3, <1>9, <2>2
      <3>2. disp' = [disp EXCEPT !.hook = disp.hook + 1] BY <1>1, <3>1 DEF DispatcherNext
      <3>3. disp'.pc = "put" /\ disp'.evt = e /\ disp'.hook <= h BY <1>2, <1>9, <3>1, <3>2
      <3> QED BY <3>3 DEF Kept, UnderWay
    <2> QED BY <2>1, <2>2
  <1>10. CASE ~(disp.evt = e /\ disp.hook <= h) BY <1>1, <1>8, <1>10 DEF Kept, UnderWay
  <1> QED BY <1>9, <1>10

LEMMA KeptByTake ==
    ASSUME HookInv, SenderReceive, NEW h \in Hooks, NEW e, Kept(h, e) PROVE Kept(h, e)'
  <1>1. PICK d : d = Head(queue) OBVIOUS
  <1>2. /\ sender.pc = "recv" /\ queue # <<>> /\ queue' = Tail(queue)
        /\ sender' = [pc |-> "send", hook |-> d.hook, evt |-> d.evt, attempt |-> 1]
        /\ UNCHANGED <<sending, hookCh, disp, received, settled>>
    BY <1>1 DEF SenderReceive, pubVars
  <1>3. queue \in Seq(Deliveries) BY DEF HookInv, QueueOK
  <1>4. ASSUME NEW k \in DOMAIN queue, queue[k] = [hook |-> h, evt |-> e]
        PROVE  (d.hook = h /\ d.evt = e) \/ \E i \in DOMAIN queue' : queue'[i] = [hook |-> h, evt |-> e]
    <2>1. /\ d = queue[1] /\ DOMAIN queue = 1..Len(queue) /\ Len(queue) \in Nat
          /\ DOMAIN queue' = 1..(Len(queue) - 1) /\ \A i \in DOMAIN queue' : queue'[i] = queue[i + 1]
      BY <1>1, <1>2, <1>3, HeadTailProperties, LenProperties, TailFacts
    <2>2. CASE k = 1 BY <1>4, <2>1, <2>2
    <2>3. CASE k # 1
      <3>1. k - 1 \in DOMAIN queue' /\ (k - 1) + 1 = k BY <2>1, <2>3
      <3>2. queue'[k - 1] = [hook |-> h, evt |-> e] BY <1>4, <2>1, <3>1
      <3> QED BY <3>1, <3>2
    <2> QED BY <2>2, <2>3
  <1>5. sender'.pc = "send" /\ sender'.hook = d.hook /\ sender'.evt = d.evt BY <1>2
  <1> QED BY <1>2, <1>4, <1>5 DEF Kept, UnderWay

LEMMA KeptBySend ==
    ASSUME HookInv, SendOnce, NEW h \in Hooks, NEW e, Kept(h, e) PROVE Kept(h, e)'
  <1>1. /\ sender.pc = "send" /\ UNCHANGED <<sending, hookCh, disp, queue>> /\ settled \subseteq settled'
        /\ sender \in [pc : {"send", "wait"}, hook : Hooks, evt : Nat, attempt : 1..MaxAttempts]
        /\ received \in [Hooks -> Seq(Nat)]
    BY DEF SendOnce, Settles, HookInv, SenderOK, Busy, ReceivedOK, pubVars
  <1>2. PICK x, y : x = sender.hook /\ y = sender.evt OBVIOUS
  <1>3. x \in Hooks /\ y \in Nat /\ received[x] \in Seq(Nat) BY <1>1, <1>2
  <1>4. PICK a : a = Append(received[x], y) OBVIOUS
  <1>5. /\ \A k \in DOMAIN received[x] : k \in DOMAIN a /\ a[k] = received[x][k]
        /\ Len(received[x]) + 1 \in DOMAIN a /\ a[Len(received[x]) + 1] = y
    BY <1>3, <1>4, AppendProperties, LenProperties
  <1>6. received' = received \/ received' = [received EXCEPT ![x] = a] BY <1>2, <1>4 DEF SendOnce
  <1>7. \A k \in DOMAIN received[h] : k \in DOMAIN received'[h] /\ received'[h][k] = received[h][k]
    BY <1>1, <1>5, <1>6
  <1>8. CASE h = x /\ e = y
    <2>1. CASE received' = [received EXCEPT ![x] = a]
      <3>1. received'[h] = a BY <1>1, <1>3, <1>8, <2>1
      <3> QED BY <1>5, <1>8, <3>1 DEF Kept
    <2>2. CASE [hook |-> h, evt |-> e, tries |-> MaxAttempts] \in settled' BY <2>2 DEF Kept
    <2>3. CASE sender' = [sender EXCEPT !.pc = "wait"]
      <3>1. sender'.pc = "wait" /\ sender'.hook = h /\ sender'.evt = e BY <1>1, <1>2, <1>8, <2>3
      <3> QED BY <3>1 DEF Kept, UnderWay
    <2>4. \/ received' = [received EXCEPT ![x] = a]
          \/ [hook |-> h, evt |-> e, tries |-> MaxAttempts] \in settled'
          \/ sender' = [sender EXCEPT !.pc = "wait"]
      BY <1>2, <1>4, <1>8 DEF SendOnce, Settles, LastAttempt
    <2> QED BY <2>1, <2>2, <2>3, <2>4
  <1>9. CASE ~(h = x /\ e = y) BY <1>1, <1>2, <1>7, <1>9 DEF Kept, UnderWay
  <1> QED BY <1>8, <1>9

LEMMA KeptByRest ==
    ASSUME HookInv, SenderQuit \/ Retry \/ UNCHANGED <<pubVars, hookVars>>, NEW h \in Hooks, NEW e, Kept(h, e)
    PROVE  Kept(h, e)'
  <1>1. UNCHANGED <<sending, hookCh, disp, queue, received, settled>> BY DEF SenderQuit, Retry, hookVars, pubVars
  <1>2. CASE SenderQuit BY <1>1, <1>2 DEF SenderQuit, Kept, UnderWay
  <1>3. CASE Retry
    <2>1. sender \in [pc : {"send", "wait"}, hook : Hooks, evt : Nat, attempt : 1..MaxAttempts]
      BY <1>3 DEF Retry, HookInv, SenderOK, Busy
    <2>2. PICK a : sender' = [sender EXCEPT !.pc = "send", !.attempt = a] BY <1>3 DEF Retry
    <2>3. sender'.pc = "send" /\ sender'.hook = sender.hook /\ sender'.evt = sender.evt BY <2>1, <2>2
    <2> QED BY <1>1, <2>3 DEF Kept, UnderWay
  <1>4. CASE UNCHANGED <<pubVars, hookVars>> BY <1>1, <1>4 DEF hookVars, Kept, UnderWay
  <1> QED BY <1>2, <1>3, <1>4

\* Steps of the hub, the clients and the stream leave the dispatcher alone.
LEMMA HookFrame ==
    ASSUME [BusNext]_busVars
    PROVE  \/ \E t \in EventTypes : Publish(t)
           \/ \E e \in Events, s \in Names : PublishTo(e, s)
           \/ Cancel \/ WebhookStep
           \/ UNCHANGED <<pubVars, cancelled, hookVars>>
  <1>1. CASE HubStep BY <1>1 DEF HubStep, HubReceive, Broadcast, HubQuit, HubClose
  <1>2. ASSUME NEW c \in Clients, ClientStep(c) PROVE UNCHANGED <<pubVars, cancelled, hookVars>>
    BY <1>2 DEF ClientStep, ClientUpgrade, ClientRegister, ClientGreet, ClientWrite, ClientLeave, ClientSubscribe
  <1>3. CASE StreamOpen \/ StreamWrite \/ StreamClose BY <1>3 DEF StreamOpen, StreamWrite, StreamClose
  <1>4. CASE UNCHANGED busVars BY <1>4 DEF busVars
  <1>5. CASE PublishSteps BY <1>5 DEF PublishSteps, Names
  <1> QED BY <1>1, <1>2, <1>3, <1>4, <1>5 DEF BusNext

LEMMA HookSteps == HookInv /\ [BusNext]_busVars => HookInv'
  <1> SUFFICES ASSUME HookInv, [BusNext]_busVars PROVE HookInv' OBVIOUS
  <1> QED BY HookFrame, PublishHooks, SentHooks, ReceiveHooks, PutHooks, QuitHooks, TakeHooks, SendHooks
          DEF WebhookStep

LEMMA NothingVanishesSteps == HookInv /\ NothingVanishes /\ [BusNext]_busVars => NothingVanishes'
  <1> SUFFICES ASSUME HookInv, NothingVanishes, [BusNext]_busVars,
                      NEW h \in Hooks, NEW e \in Events', ~cancelled',
                      MatchesAny(HookPatterns[h], etype[e])', e \notin unheard'
               PROVE  Kept(h, e)'
    BY DEF NothingVanishes, Kept
  <1>1. ASSUME e \in Events, ~cancelled, MatchesAny(HookPatterns[h], etype[e]), e \notin unheard
        PROVE  Kept(h, e)
    BY <1>1 DEF NothingVanishes, Kept
  <1>2. ASSUME NEW t \in EventTypes, Publish(t) PROVE Kept(h, e)'
    <2>1. etype \in Seq(EventTypes) /\ etype' = Append(etype, t) /\ UNCHANGED <<cancelled, unheard>>
      BY <1>2 DEF HookInv, PubOK, Publish, hookVars
    <2>2. cancelled = FALSE BY <2>1 DEF HookInv, DispatcherOK
    <2>3. e = Len(etype) + 1 \/ (e \in Events /\ etype'[e] = etype[e]) BY <2>1, AppendFacts DEF Events
    <2>4. CASE e = Len(etype) + 1 BY <1>2, <2>2, <2>4, KeptByPublish
    <2>5. CASE e \in Events /\ etype'[e] = etype[e]
      <3>1. Kept(h, e) BY <1>1, <2>1, <2>2, <2>5
      <3> QED BY <1>2, <2>2, <3>1, KeptByPublish
    <2> QED BY <2>3, <2>4, <2>5
  <1>5. ASSUME NEW x \in Events, NEW s \in Names, PublishTo(x, s) PROVE Kept(h, e)'
    <2>1. UNCHANGED <<etype, cancelled>> /\ unheard \subseteq unheard' BY <1>5 DEF PublishTo
    <2>2. e \in Events /\ ~cancelled /\ MatchesAny(HookPatterns[h], etype[e]) /\ e \notin unheard
      BY <2>1 DEF Events
    <2>3. Kept(h, e) BY <1>1, <2>2
    <2> QED BY <1>5, <2>3, KeptBySent
  <1>3. CASE Cancel
    <2>1. cancelled' = TRUE BY <1>3 DEF Cancel
    <2> QED BY <2>1
  <1>4. CASE WebhookStep \/ UNCHANGED <<pubVars, cancelled, hookVars>>
    <2>1. UNCHANGED <<etype, cancelled, unheard>>
      BY <1>4 DEF WebhookStep, DispatcherReceive, DispatcherPut, DispatcherQuit, DispatcherLeave, SenderReceive,
         SenderQuit, SendOnce, Retry, GiveUp, hookVars, pubVars
    <2>2. e \in Events /\ ~cancelled /\ MatchesAny(HookPatterns[h], etype[e]) /\ e \notin unheard
      BY <2>1 DEF Events
    <2>3. Kept(h, e) BY <1>1, <2>2
    <2>4. ~DispatcherQuit /\ ~DispatcherLeave /\ ~GiveUp
      BY <2>2 DEF DispatcherQuit, DispatcherLeave, GiveUp, HookInv, DispatcherOK
    <2>5. CASE DispatcherReceive BY <2>3, <2>5, KeptByReceive
    <2>6. CASE DispatcherPut BY <2>2, <2>3, <2>6, KeptByPut
    <2>7. CASE SenderReceive BY <2>3, <2>7, KeptByTake
    <2>8. CASE SendOnce BY <2>3, <2>8, KeptBySend
    <2>9. CASE SenderQuit \/ Retry \/ UNCHANGED <<pubVars, hookVars>> BY <2>3, <2>9, KeptByRest
    <2> QED BY <1>4, <2>4, <2>5, <2>6, <2>7, <2>8, <2>9 DEF WebhookStep
  <1> QED BY <1>2, <1>3, <1>4, <1>5, HookFrame

\* Webhooks get the events they asked for in order, each at most MaxAttempts
\* times; until the shutdown an event is lost in the dispatcher's full broker
\* channel only, never between its goroutines, the queue and the retries.
THEOREM WebhooksAreServed == BusSpec => []WebhooksDeliver
  <1>1. HookInv => WebhookOrder
    <2> SUFFICES ASSUME HookInv, NEW h \in Hooks
                 PROVE  /\ SeenInOrder(before, received[h])
                        /\ \A e \in Events : Copies(received[h], e) <= MaxAttempts
                        /\ \A i \in DOMAIN received[h] : MatchesAny(HookPatterns[h], etype[received[h][i]])
      BY DEF WebhookOrder, Copies, SeenInOrder, MayPrecede, Ahead
    <2>1. Events \subseteq Nat
      <3>1. Events = 1..Len(etype) /\ Len(etype) \in Nat BY ToSendFacts DEF HookInv, Events
      <3> QED BY <3>1
    <2> QED BY <2>1 DEF HookInv, ReceivedOK, CopiesOK, Past
  <1> QED BY <1>1, HookStart, HookSteps, NothingVanishesSteps, PTL DEF BusSpec, WebhooksDeliver

LEMMA EventsBounded ==
    ASSUME SocketInv, Len(etype) <= MaxEvents, [BusNext]_busVars PROVE Len(etype') <= MaxEvents
  <1>1. ASSUME NEW t \in EventTypes, Publish(t) PROVE Len(etype') <= MaxEvents
    <2>1. etype \in Seq(EventTypes) /\ etype' = Append(etype, t) /\ Len(etype) + 1 <= MaxEvents
      BY <1>1 DEF SocketInv, PubOK, Publish
    <2> QED BY <2>1, AppendFacts
  <1>2. ASSUME \/ \E e \in Events, s \in Names : PublishTo(e, s)
               \/ Cancel \/ WebhookStep \/ UNCHANGED <<pubVars, cancelled, hookVars>>
        PROVE  etype' = etype
    <2>1. CASE Cancel \/ UNCHANGED <<pubVars, cancelled, hookVars>> BY <2>1 DEF Cancel, pubVars
    <2>2. CASE WebhookStep
      BY <2>2 DEF WebhookStep, DispatcherReceive, DispatcherPut, DispatcherQuit, DispatcherLeave, SenderReceive,
         SenderQuit, SendOnce, Retry, GiveUp, pubVars
    <2>3. CASE \E e \in Events, s \in Names : PublishTo(e, s) BY <2>3 DEF PublishTo
    <2> QED BY <1>2, <2>1, <2>2, <2>3
  <1> QED BY <1>1, <1>2, HookFrame

LEMMA BusTypesHold == BusInit /\ [][BusNext]_busVars => []BusTypeOK
  <1>1. BusInit => Len(etype) <= MaxEvents BY EventBusAssumption DEF BusInit
  <1>2. SocketInv /\ Len(etype) <= MaxEvents /\ [BusNext]_busVars => (Len(etype) <= MaxEvents)'
    BY EventsBounded
  <1>3. SocketInv /\ HookInv /\ Len(etype) <= MaxEvents => BusTypeOK
    BY DEF SocketInv, HookInv, PubOK, ChannelOK, HubOK, ClientsOK, ClientOK, DispatcherOK, QueueOK, SenderOK,
       BusTypeOK
  <1> QED BY <1>1, <1>2, <1>3, SocketStart, SocketSteps, HookStart, HookSteps, PTL

\* No channel or queue of the broker, the dispatcher, the hub and the clients
\* grows past its capacity, and every goroutine is at a point it has.
THEOREM BusTypeCorrect == BusSpec => []BusTypeOK
  BY BusTypesHold, PTL DEF BusSpec
=============================================================================

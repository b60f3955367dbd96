------------------------------ MODULE EventBus ------------------------------
(***************************************************************************)
(* The event broker (internal/events), the webhook dispatcher              *)
(* (internal/webhook), the websocket hub and its clients                   *)
(* (internal/api/websocket) and the event stream of the REST interface.    *)
(*                                                                         *)
(* An event is its number, in the order of the calls of Publish; etype     *)
(* gives its type, a pair of family and name.  Publish holds the broker's  *)
(* read lock only: publishers run side by side and send to the subscribers *)
(* one by one, each in an order of its own.  A channel is the sequence of  *)
(* what it holds.  Payloads, frames and their encodings are left out.      *)
(***************************************************************************)
EXTENDS Integers, Sequences, FiniteSets

CONSTANTS
    EventTypes,     \* types of the events published
    HookPatterns,   \* sequence: the event patterns of each webhook
    Clients,        \* websocket clients
    SubPatterns,    \* pattern sets a client may send
    BrokerCap,      \* capacity of a subscriber's channel
    WebhookCap,     \* capacity of the dispatcher's queue (64)
    ClientCap,      \* capacity of a client's send channel (32)
    MaxAttempts,    \* retry.max_attempts
    MaxConflicts,   \* bound: conflicts that a scan reports
    MaxEvents       \* bound: events published

ASSUME EventBusAssumption ==
    /\ BrokerCap \in Nat \ {0} /\ WebhookCap \in Nat \ {0} /\ ClientCap \in Nat \ {0}
    /\ MaxAttempts \in Nat \ {0} /\ MaxConflicts \in Nat /\ MaxEvents \in Nat

\* Start does nothing without a webhook.
ASSUME HooksAssumption == Len(HookPatterns) \in Nat \ {0} /\ DOMAIN HookPatterns = 1..Len(HookPatterns)

VARIABLES
    etype,      \* types of the events published so far
    sending,    \* <<event, subscriber>>: the sends that calls of Publish have left
    before,     \* history: <<e, f>>: Publish of e had returned when that of f was called
    cancelled,  \* the context is cancelled (shutdown)
    \* webhook dispatcher
    hookCh,     \* its broker channel
    disp,       \* first goroutine: [pc, evt, hook]
    queue,      \* queue of [hook, evt]
    queueOpen,  \* FALSE: closed
    sender,     \* second goroutine: [pc, hook, evt, attempt]
    received,   \* environment: per hook, the events its receiver saw
    unheard,    \* history: events the full channel refused
    settled,    \* history: [hook, evt] whose delivery ended, and after how many attempts
    \* websocket hub and event stream
    hubCh,      \* its broker channel
    hub,        \* goroutine: [pc, msgs] or [pc, todo]
    ws,         \* per client: [at, subs, send, writing]
    got,        \* history: per client, the messages written, as <<event, type, index>>
    late,       \* history: clients registered after the hub had listed them to close
    stream      \* the event stream: the events in its channel and written, or closed

hookVars == <<hookCh, disp, queue, queueOpen, sender, received, unheard, settled>>
wsVars == <<hubCh, hub, ws, got, late>>
pubVars == <<etype, sending, before>>
busVars == <<pubVars, cancelled, hookVars, wsVars, stream>>

Events == DOMAIN etype
Hooks == DOMAIN HookPatterns

\* matchesAny and matchesSubscription on one pattern.
Matches(p, t) == p[1] = "*" \/ (p[1] = t[1] /\ p[2] \in {"*", t[2]})
MatchesAny(ps, t) == ps = {} \/ \E p \in ps : Matches(p, t)

\* NormalizeEvent: the messages that an event becomes; a finished scan has one
\* more for each conflict, or one for their number.
Normalize(t, conflicts) ==
    <<t>> \o
    (CASE t = <<"subnet", "upserted">> -> <<<<"subnet", "created">>>>
       [] t = <<"reservation", "upserted">> -> <<<<"address", "reserved">>>>
       [] t = <<"discovery", "scan_queued">> -> <<<<"discovery", "started">>>>
       [] t = <<"discovery", "scan_completed">> -> <<<<"discovery", "completed">>>> \o [k \in 1..conflicts |-> <<"discovery", "conflict">>]
       [] OTHER -> <<>>)

BusInit ==
    /\ etype = <<>> /\ sending = {} /\ before = {} /\ cancelled = FALSE
    /\ hookCh = <<>> /\ disp = [pc |-> "recv"]
    /\ queue = <<>> /\ queueOpen = TRUE /\ sender = [pc |-> "recv"]
    /\ received = [h \in Hooks |-> <<>>] /\ unheard = {} /\ settled = {}
    /\ hubCh = <<>> /\ hub = [pc |-> "recv"]
    /\ ws = [c \in Clients |-> [at |-> "out"]]
    /\ got = [c \in Clients |-> <<>>] /\ late = {}
    /\ stream = [at |-> "out"]

\* The hub has the client in its table.
Listed(w) == w.at \in {"registered", "in"}

BusTypeOK ==
    /\ etype \in Seq(EventTypes) /\ Len(etype) <= MaxEvents
    /\ Len(hookCh) <= BrokerCap /\ Len(hubCh) <= BrokerCap /\ Len(queue) <= WebhookCap
    /\ disp.pc \in {"recv", "put", "leaving", "done"} /\ sender.pc \in {"recv", "send", "wait", "done"}
    /\ hub.pc \in {"recv", "broadcast", "closing", "done"}
    /\ \A c \in Clients : ws[c].at \in {"out", "upgraded", "registered", "in", "closed"}
    /\ \A c \in Clients : Listed(ws[c]) => Len(ws[c].send) <= ClientCap

\* Mutant: a channel takes one element more than its capacity.
NonBlocking_OneMore(ch, cap, x) == IF Len(ch) <= cap THEN Append(ch, x) ELSE ch

\* A send in a select with a default case.
NonBlocking(ch, cap, x) == IF Len(ch) < cap THEN Append(ch, x) ELSE ch

Subscribers ==
    {s \in {"hooks", "hub", "stream"} :
        \/ s = "hooks" /\ disp.pc # "done"
        \/ s = "hub" /\ hub.pc # "done"
        \/ s = "stream" /\ stream.at = "in"}

Returned == {e \in Events : \A p \in sending : p[1] # e}

\* Subscribe and unsubscribe need the write lock: no Publish is under way.
WriteLock == sending = {}

\* Mutant: Publish leaves the sends to a goroutine and returns.
Publish_Returns(t) ==
    LET e == Len(etype) + 1
    IN  /\ e <= MaxEvents
        /\ etype' = Append(etype, t)
        /\ sending' = sending \cup ({e} \X Subscribers)
        /\ before' = before \cup (Events \X {e})
        /\ UNCHANGED <<cancelled, hookVars, wsVars, stream>>

\* Publish takes the read lock ...
Publish(t) ==
    LET e == Len(etype) + 1
    IN  /\ e <= MaxEvents
        /\ etype' = Append(etype, t)
        /\ sending' = sending \cup ({e} \X Subscribers)
        /\ before' = before \cup (Returned \X {e})
        /\ UNCHANGED <<cancelled, hookVars, wsVars, stream>>

\* ... and goes through the subscribers: each gets the event if it has room.
PublishTo(e, s) ==
    /\ <<e, s>> \in sending /\ sending' = sending \ {<<e, s>>}
    /\ hookCh' = IF s = "hooks" THEN NonBlocking(hookCh, BrokerCap, e) ELSE hookCh
    /\ unheard' = IF s = "hooks" /\ Len(hookCh) >= BrokerCap THEN unheard \cup {e} ELSE unheard
    /\ hubCh' = IF s = "hub" THEN NonBlocking(hubCh, BrokerCap, e) ELSE hubCh
    /\ stream' = IF s = "stream" /\ stream.at = "in" THEN [stream EXCEPT !.ch = NonBlocking(@, BrokerCap, e)] ELSE stream
    /\ UNCHANGED <<etype, before, cancelled, disp, queue, queueOpen, sender, received, settled, hub, ws, got, late>>

PublishSteps == \E e \in Events, s \in {"hooks", "hub", "stream"} : PublishTo(e, s)

\* The process shuts down: the context is cancelled.
Cancel ==
    /\ ~cancelled /\ cancelled' = TRUE
    /\ UNCHANGED <<pubVars, hookVars, wsVars, stream>>

(***************************************************************************)
(* Webhooks.                                                               *)
(***************************************************************************)

\* The first goroutine takes an event and starts with the first webhook.
DispatcherReceive ==
    /\ disp.pc = "recv" /\ hookCh # <<>>
    /\ hookCh' = Tail(hookCh)
    /\ disp' = [pc |-> "put", evt |-> Head(hookCh), hook |-> 1]
    /\ UNCHANGED <<pubVars, cancelled, queue, queueOpen, sender, received, unheard, settled, wsVars, stream>>

DispatcherNext(h) == IF h < Len(HookPatterns) THEN [disp EXCEPT !.hook = h + 1] ELSE [pc |-> "recv"]

\* Mutant: a full queue drops the delivery.
DispatcherPut_Drops ==
    /\ disp.pc = "put"
    /\ queue' = NonBlocking(queue, WebhookCap, [hook |-> disp.hook, evt |-> disp.evt])
    /\ disp' = DispatcherNext(disp.hook)
    /\ UNCHANGED <<pubVars, cancelled, hookCh, queueOpen, sender, received, unheard, settled, wsVars, stream>>

\* It queues a delivery for the webhook if the patterns match; a full queue
\* makes it wait.
DispatcherPut ==
    /\ disp.pc = "put"
    /\ IF MatchesAny(HookPatterns[disp.hook], etype[disp.evt])
       THEN Len(queue) < WebhookCap /\ queue' = Append(queue, [hook |-> disp.hook, evt |-> disp.evt])
       ELSE queue' = queue
    /\ disp' = DispatcherNext(disp.hook)
    /\ UNCHANGED <<pubVars, cancelled, hookCh, queueOpen, sender, received, unheard, settled, wsVars, stream>>

\* Mutant: the send to the queue does not watch the context.
DispatcherQuit_NotInPut ==
    /\ cancelled /\ disp.pc = "recv"
    /\ disp' = [pc |-> "leaving"] /\ queueOpen' = FALSE
    /\ UNCHANGED <<pubVars, cancelled, hookCh, queue, sender, received, unheard, settled, wsVars, stream>>

\* The context ends the goroutine, also while it waits for the queue: the
\* queue is closed ...
DispatcherQuit ==
    /\ cancelled
    /\ \/ disp.pc = "recv"
       \/ disp.pc = "put" /\ MatchesAny(HookPatterns[disp.hook], etype[disp.evt])
    /\ disp' = [pc |-> "leaving"] /\ queueOpen' = FALSE
    /\ UNCHANGED <<pubVars, cancelled, hookCh, queue, sender, received, unheard, settled, wsVars, stream>>

\* ... and the subscription given up.
DispatcherLeave ==
    /\ disp.pc = "leaving" /\ WriteLock
    /\ disp' = [pc |-> "done"]
    /\ UNCHANGED <<pubVars, cancelled, hookCh, queue, queueOpen, sender, received, unheard, settled, wsVars, stream>>

\* The second goroutine takes a delivery.
SenderReceive ==
    /\ sender.pc = "recv" /\ queue # <<>>
    /\ queue' = Tail(queue)
    /\ sender' = [pc |-> "send", hook |-> Head(queue).hook, evt |-> Head(queue).evt, attempt |-> 1]
    /\ UNCHANGED <<pubVars, cancelled, hookCh, disp, queueOpen, received, unheard, settled, wsVars, stream>>

SenderQuit ==
    /\ sender.pc = "recv" /\ (cancelled \/ (~queueOpen /\ queue = <<>>))
    /\ sender' = [pc |-> "done"]
    /\ UNCHANGED <<pubVars, cancelled, hookCh, disp, queue, queueOpen, received, unheard, settled, wsVars, stream>>

LastAttempt(n) == n = MaxAttempts

Settles == settled' = settled \cup {[hook |-> sender.hook, evt |-> sender.evt, tries |-> sender.attempt]}

\* sendOnce: the receiver answers 2xx, or fails before or after it took the
\* event in; a failure is tried again after a delay, up to the last attempt.
SendOnce ==
    /\ sender.pc = "send"
    /\ \E taken \in BOOLEAN, ok \in BOOLEAN :
          /\ ok => taken
          /\ received' = IF taken THEN [received EXCEPT ![sender.hook] = Append(@, sender.evt)] ELSE received
          /\ IF ok \/ LastAttempt(sender.attempt)
             THEN sender' = [pc |-> "recv"] /\ Settles
             ELSE sender' = [sender EXCEPT !.pc = "wait"] /\ UNCHANGED settled
    /\ UNCHANGED <<pubVars, cancelled, hookCh, disp, queue, queueOpen, unheard, wsVars, stream>>

\* The delay before the next attempt ends, or the context does.
Retry ==
    /\ sender.pc = "wait"
    /\ sender' = [sender EXCEPT !.pc = "send", !.attempt = @ + 1]
    /\ UNCHANGED <<pubVars, cancelled, hookCh, disp, queue, queueOpen, received, unheard, settled, wsVars, stream>>

GiveUp ==
    /\ sender.pc = "wait" /\ cancelled
    /\ sender' = [pc |-> "recv"]
    /\ UNCHANGED <<pubVars, cancelled, hookCh, disp, queue, queueOpen, received, unheard, settled, wsVars, stream>>

WebhookStep ==
    \/ DispatcherReceive \/ DispatcherPut \/ DispatcherQuit \/ DispatcherLeave
    \/ SenderReceive \/ SenderQuit \/ SendOnce \/ Retry \/ GiveUp

(***************************************************************************)
(* Websocket hub and clients.                                              *)
(***************************************************************************)

\* A message that is offered to a client: dropped unless it is subscribed and
\* has room.
Offer(w, m) ==
    IF Listed(w) /\ MatchesAny(w.subs, m[2]) THEN [w EXCEPT !.send = NonBlocking(@, ClientCap, m)] ELSE w

Numbered(e, types) == [k \in DOMAIN types |-> <<e, types[k], k>>]

HubReceive ==
    /\ hub.pc = "recv" /\ hubCh # <<>>
    /\ hubCh' = Tail(hubCh)
    /\ LET e == Head(hubCh)
       IN  \E n \in 0..MaxConflicts :
              hub' = [pc |-> "broadcast", msgs |-> Numbered(e, Normalize(etype[e], n))]
    /\ UNCHANGED <<pubVars, cancelled, hookVars, ws, got, late, stream>>

\* Broadcast of one message under the hub's read lock.
Broadcast ==
    /\ hub.pc = "broadcast"
    /\ ws' = [c \in Clients |-> Offer(ws[c], Head(hub.msgs))]
    /\ hub' = IF Len(hub.msgs) = 1 THEN [pc |-> "recv"] ELSE [hub EXCEPT !.msgs = Tail(@)]
    /\ UNCHANGED <<pubVars, cancelled, hookVars, hubCh, got, late, stream>>

\* Mutant: the hub ends without closing its clients.
HubQuit_Leaves ==
    /\ hub.pc = "recv" /\ cancelled
    /\ hub' = [pc |-> "closing", todo |-> {}]
    /\ UNCHANGED <<pubVars, cancelled, hookVars, hubCh, ws, got, late, stream>>

\* closeAll lists the clients under the lock ...
HubQuit ==
    /\ hub.pc = "recv" /\ cancelled
    /\ hub' = [pc |-> "closing", todo |-> {c \in Clients : Listed(ws[c])}]
    /\ UNCHANGED <<pubVars, cancelled, hookVars, hubCh, ws, got, late, stream>>

Closed == [at |-> "closed"]

\* ... and closes them one by one; then the hub gives its subscription up.
HubClose ==
    /\ hub.pc = "closing"
    /\ IF hub.todo = {} THEN WriteLock /\ hub' = [pc |-> "done"] /\ UNCHANGED ws
       ELSE \E c \in hub.todo : hub' = [hub EXCEPT !.todo = @ \ {c}] /\ ws' = [ws EXCEPT ![c] = Closed]
    /\ UNCHANGED <<pubVars, cancelled, hookVars, hubCh, got, late, stream>>

\* Upgrade answers the handshake; register comes after it.
ClientUpgrade(c) ==
    /\ ws[c].at = "out"
    /\ ws' = [ws EXCEPT ![c] = [at |-> "upgraded"]]
    /\ UNCHANGED <<pubVars, cancelled, hookVars, hubCh, hub, got, late, stream>>

\* register: from here on the hub sends to the client ...
ClientRegister(c) ==
    /\ ws[c].at = "upgraded"
    /\ ws' = [ws EXCEPT ![c] = [at |-> "registered", subs |-> {<<"*", "*">>}, writing |-> TRUE, send |-> <<>>]]
    /\ late' = IF hub.pc \in {"closing", "done"} THEN late \cup {c} ELSE late
    /\ UNCHANGED <<pubVars, cancelled, hookVars, hubCh, hub, got, stream>>

Greeting == <<0, <<"system", "connected">>, 1>>

\* ... and then Run sends the greeting, behind what is there already or, if the
\* channel is full, not at all; the loops start.
ClientGreet(c) ==
    /\ ws[c].at = "registered"
    /\ ws' = [ws EXCEPT ![c].at = "in", ![c].send = NonBlocking(@, ClientCap, Greeting)]
    /\ UNCHANGED <<pubVars, cancelled, hookVars, hubCh, hub, got, late, stream>>

\* applySubscription; without any pattern left a client gets everything.
ClientSubscribe(c, ps, unsubscribe) ==
    LET events == IF ps = {} THEN {<<"*", "*">>} ELSE ps
        left == ws[c].subs \ events
    IN  /\ ws[c].at = "in"
        /\ ws' = [ws EXCEPT ![c].subs = IF ~unsubscribe THEN events ELSE IF left = {} THEN {<<"*", "*">>} ELSE left]
        /\ UNCHANGED <<pubVars, cancelled, hookVars, hubCh, hub, got, late, stream>>

\* writeLoop writes the next message, or its write fails: the loop ends and
\* the client stays registered as long as its reader lives.
ClientWrite(c) ==
    /\ ws[c].at = "in" /\ ws[c].writing /\ ws[c].send # <<>>
    /\ \/ got' = [got EXCEPT ![c] = Append(@, Head(ws[c].send))] /\ ws' = [ws EXCEPT ![c].send = Tail(@)]
       \/ ws' = [ws EXCEPT ![c].send = Tail(@), ![c].writing = FALSE] /\ UNCHANGED got
    /\ UNCHANGED <<pubVars, cancelled, hookVars, hubCh, hub, late, stream>>

\* readLoop ends (a close frame, an error, or the peer is gone) and Run closes.
ClientLeave(c) ==
    /\ ws[c].at = "in"
    /\ ws' = [ws EXCEPT ![c] = Closed]
    /\ UNCHANGED <<pubVars, cancelled, hookVars, hubCh, hub, got, late, stream>>

(***************************************************************************)
(* The event stream of the REST interface.                                 *)
(***************************************************************************)

StreamOpen ==
    /\ stream.at = "out" /\ WriteLock
    /\ stream' = [at |-> "in", since |-> Len(etype), ch |-> <<>>, out |-> <<>>]
    /\ UNCHANGED <<pubVars, cancelled, hookVars, wsVars>>

StreamWrite ==
    /\ stream.at = "in" /\ stream.ch # <<>>
    /\ stream' = [stream EXCEPT !.ch = Tail(@), !.out = Append(@, Head(stream.ch))]
    /\ UNCHANGED <<pubVars, cancelled, hookVars, wsVars>>

StreamClose ==
    /\ stream.at = "in"
    /\ stream' = [at |-> "closed"]
    /\ UNCHANGED <<pubVars, cancelled, hookVars, wsVars>>

HubStep == HubReceive \/ Broadcast \/ HubQuit \/ HubClose

ClientStep(c) ==
    \/ ClientUpgrade(c) \/ ClientRegister(c) \/ ClientGreet(c) \/ ClientWrite(c) \/ ClientLeave(c)
    \/ \E ps \in SubPatterns, un \in BOOLEAN : ClientSubscribe(c, ps, un)

BusNext ==
    \/ \E t \in EventTypes : Publish(t)
    \/ PublishSteps
    \/ Cancel
    \/ WebhookStep
    \/ HubStep
    \/ \E c \in Clients : ClientStep(c)
    \/ StreamOpen \/ StreamWrite \/ StreamClose

\* Every goroutine keeps running, the publishers' too; a delivery attempt ends
\* (the HTTP client has a timeout).  Nothing is assumed of clients.
BusFairness ==
    /\ WF_busVars(PublishSteps)
    /\ WF_busVars(DispatcherReceive \/ DispatcherPut \/ DispatcherQuit \/ DispatcherLeave)
    /\ WF_busVars(SenderReceive \/ SenderQuit \/ SendOnce \/ Retry \/ GiveUp)
    /\ WF_busVars(HubStep)

BusSpec == BusInit /\ [][BusNext]_busVars /\ BusFairness

(***************************************************************************)
(* Properties.                                                             *)
(***************************************************************************)

\* Event f may come before event e: the Publish of e had not returned when that
\* of f was called.
MayPrecede(f, e) == f # e /\ <<e, f>> \notin before

\* A receiver sees the events it asked for in an order of publication; retries
\* may repeat one before the next comes, at most MaxAttempts times in all.
WebhookOrder ==
    \A h \in Hooks :
        LET rcv == received[h]
        IN  /\ \A i, j \in DOMAIN rcv : i < j => rcv[i] = rcv[j] \/ MayPrecede(rcv[i], rcv[j])
            /\ \A i, j, k \in DOMAIN rcv : i < k /\ k < j /\ rcv[i] = rcv[j] => rcv[k] = rcv[j]
            /\ \A e \in Events : Cardinality({i \in DOMAIN rcv : rcv[i] = e}) <= MaxAttempts
            /\ \A i \in DOMAIN rcv : MatchesAny(HookPatterns[h], etype[rcv[i]])

UnderWay(h, e) ==
    \/ <<e, "hooks">> \in sending
    \/ \E k \in DOMAIN hookCh : hookCh[k] = e
    \/ disp.pc = "put" /\ disp.evt = e /\ disp.hook <= h
    \/ \E k \in DOMAIN queue : queue[k] = [hook |-> h, evt |-> e]
    \/ sender.pc \in {"send", "wait"} /\ sender.hook = h /\ sender.evt = e

\* Until the shutdown an event that a webhook asked for is lost in one place
\* only, the dispatcher's full broker channel: otherwise it is under way, was
\* taken in by the receiver, or was tried MaxAttempts times.
NothingVanishes ==
    \A h \in Hooks, e \in Events :
        ~cancelled /\ MatchesAny(HookPatterns[h], etype[e]) /\ e \notin unheard /\ ~UnderWay(h, e) =>
            \/ \E k \in DOMAIN received[h] : received[h][k] = e
            \/ [hook |-> h, evt |-> e, tries |-> MaxAttempts] \in settled

\* A websocket client is written messages, and the event stream events, in an
\* order of publication and without repetition, those of one event in their
\* own order; the stream has no event published before it was opened.
StreamsInOrder ==
    /\ \A c \in Clients : \A i, j \in DOMAIN got[c] :
          i < j => \/ MayPrecede(got[c][i][1], got[c][j][1])
                   \/ got[c][i][1] = got[c][j][1] /\ got[c][i][3] < got[c][j][3]
    /\ stream.at = "in" => /\ \A i \in DOMAIN stream.out : stream.since < stream.out[i]
                           /\ \A i, j \in DOMAIN stream.out : i < j => MayPrecede(stream.out[i], stream.out[j])

\* When the hub has ended, no client is left that was registered before it
\* listed them.
HubLeavesNone == hub.pc = "done" => \A c \in Clients : Listed(ws[c]) => c \in late

\* Wait returns: once the context is cancelled both goroutines of the
\* dispatcher end, and so does the hub.
BusShutsDown == cancelled ~> (disp.pc = "done" /\ sender.pc = "done" /\ hub.pc = "done")

\* Webhooks get the events they asked for, in order, each at most MaxAttempts
\* times, and lose one only where the dispatcher's broker channel was full.
WebhooksDeliver == WebhookOrder /\ NothingVanishes
=============================================================================

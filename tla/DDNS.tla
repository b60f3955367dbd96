-------------------------------- MODULE DDNS --------------------------------
(***************************************************************************)
(* Dynamic DNS (internal/ddns and its wiring in cmd/monsoon/main.go): the  *)
(* DHCP servers and the lease sweeper write a lease and then queue an      *)
(* update of its DNS records, without waiting when the queue is full; one  *)
(* worker takes the updates off the queue and sends each as two DNS UPDATE *)
(* messages, forward zone first.                                           *)
(*                                                                         *)
(* A lease has the host name of its client's latest message, which may be  *)
(* another one than before, or none (as all DHCPv6 leases): buildUpdates   *)
(* sends nothing then.  Other details of names, TTLs, the wire format and  *)
(* the TSIG signature are left out; the name server is external.           *)
(***************************************************************************)
EXTENDS Naturals, Sequences, FiniteSets, Functions

CONSTANTS
    DnsHosts, DnsIPs,   \* host names and addresses
    Nameless,           \* the host of a lease whose client sent no name
    NoHost,             \* no lease
    DdnsQueueCap,       \* make(chan ddns.Request, 128)
    DnsMaxEvents,       \* bound on leases granted, released and expired
    DnsMaxFaults        \* bound on failed updates and restarts

ASSUME DDNSAssumption ==
    /\ Nameless \notin DnsHosts
    /\ NoHost \notin DnsHosts \cup {Nameless}
    /\ DdnsQueueCap \in Nat \ {0}

VARIABLES
    leased,     \* address -> host of its live record, Nameless or NoHost
    listed,     \* the sweeper's copies: address -> host it found, or NoHost
    hand,       \* producer -> the request it is about to queue, or Nothing
    dqueue,     \* ddnsQueue
    worker,     \* the request the worker sends, and its next zone
    fwd,        \* forward zone: host -> its addresses
    ptr,        \* reverse zone: address -> its names
    last,       \* the newest grant: per host its address, per address its host
    off,        \* leases given up: renamed, or their update dropped, failed,
                \* overtaken or never sent
    dnsLeft     \* events and faults left

ddnsVars == <<leased, listed, hand, dqueue, worker, fwd, ptr, last, off, dnsLeft>>

Producers == {"server", "sweeper"}
LeaseHosts == DnsHosts \cup {Nameless}
DnsRequests == [act : {"upsert", "delete"}, host : LeaseHosts, ip : DnsIPs]
Nothing == [act |-> "none", host |-> NoHost, ip |-> NoHost]
WorkerIdle == [req |-> Nothing, zone |-> "none"]

DdnsInit ==
    /\ leased = [ip \in DnsIPs |-> NoHost] /\ listed = leased
    /\ hand = [p \in Producers |-> Nothing]
    /\ dqueue = <<>> /\ worker = WorkerIdle
    /\ fwd = [h \in DnsHosts |-> {}] /\ ptr = [ip \in DnsIPs |-> {}]
    /\ last = [host |-> [h \in DnsHosts |-> NoHost], ip |-> [i \in DnsIPs |-> NoHost]]
    /\ off = {}
    /\ dnsLeft = [events |-> DnsMaxEvents, faults |-> DnsMaxFaults]

Counts == dnsLeft.events > 0 /\ dnsLeft' = [dnsLeft EXCEPT !.events = @ - 1]
Fails == dnsLeft.faults > 0 /\ dnsLeft' = [dnsLeft EXCEPT !.faults = @ - 1]

\* A producer has written a lease and holds the request that goes with it.
Writes(p, act, h, ip) ==
    /\ hand[p] = Nothing
    /\ Counts
    /\ leased' = [leased EXCEPT ![ip] = IF act = "upsert" THEN h ELSE NoHost]
    /\ hand' = [hand EXCEPT ![p] = [act |-> act, host |-> h, ip |-> ip]]

\* The lease the record of ip told of before, when it gives way to one of h.
Renamed(ip, h) == {<<was, ip>> : was \in {leased[ip]} \ {NoHost, h}}

\* A handler creates or renews a lease, under the host name of this message:
\* lease.created, lease.renewed.
Grant(h, ip) ==
    /\ Writes("server", "upsert", h, ip)
    /\ off' = off \cup Renamed(ip, h)
    /\ last' = IF h = Nameless THEN last
               ELSE [host |-> [last.host EXCEPT ![h] = ip], ip |-> [last.ip EXCEPT ![ip] = h]]
    /\ UNCHANGED <<listed, dqueue, worker, fwd, ptr>>

\* An OFFER writes a record with the name of the DISCOVER and queues nothing.
StoreOffer(h, ip) ==
    /\ hand["server"] = Nothing /\ leased[ip] # h /\ Counts
    /\ leased' = [leased EXCEPT ![ip] = h]
    /\ off' = off \cup Renamed(ip, h) \cup {<<h, ip>>}
    /\ UNCHANGED <<listed, hand, dqueue, worker, fwd, ptr, last>>

\* A handler ends a lease: lease.released.
Release(ip) ==
    /\ leased[ip] # NoHost
    /\ Writes("server", "delete", leased[ip], ip)
    /\ UNCHANGED <<listed, dqueue, worker, fwd, ptr, last, off>>

\* The sweeper fetches copies of the records that are due.
SweeperLists(due) ==
    /\ hand["sweeper"] = Nothing /\ \A ip \in DnsIPs : listed[ip] = NoHost
    /\ due # {} /\ \A ip \in due : leased[ip] # NoHost
    /\ listed' = [ip \in DnsIPs |-> IF ip \in due THEN leased[ip] ELSE NoHost]
    /\ UNCHANGED <<leased, hand, dqueue, worker, fwd, ptr, last, off, dnsLeft>>

\* It ends one, writing its copy over whatever the record is by now.
Expire(ip) ==
    /\ listed[ip] # NoHost
    /\ Writes("sweeper", "delete", listed[ip], ip)
    /\ off' = off \cup Renamed(ip, listed[ip])
    /\ listed' = [listed EXCEPT ![ip] = NoHost]
    /\ UNCHANGED <<dqueue, worker, fwd, ptr, last>>

\* A release asked for over the API queues no update, nor does a DECLINE.
ApiReleases(ip) ==
    /\ leased[ip] # NoHost /\ Counts
    /\ leased' = [leased EXCEPT ![ip] = NoHost]
    /\ off' = off \cup {<<leased[ip], ip>>}
    /\ UNCHANGED <<listed, hand, dqueue, worker, fwd, ptr, last>>

\* The request no longer says what the lease is: another producer was faster.
Overtaken(r) == (r.act = "upsert") # (leased[r.ip] = r.host)

\* queueDDNS: a full queue drops the request.
QueueDDNS(p) ==
    LET r == hand[p]
        room == Len(dqueue) < DdnsQueueCap
    IN  /\ r # Nothing
        /\ hand' = [hand EXCEPT ![p] = Nothing]
        /\ dqueue' = IF room THEN Append(dqueue, r) ELSE dqueue
        /\ off' = IF ~room \/ Overtaken(r) THEN off \cup {<<r.host, r.ip>>}
                  ELSE IF r.act = "upsert" THEN off \ {<<r.host, r.ip>>} ELSE off
        /\ UNCHANGED <<leased, listed, worker, fwd, ptr, last, dnsLeft>>

\* The worker takes the next request; without a host name it is done with it.
Take ==
    /\ worker = WorkerIdle /\ dqueue # <<>>
    /\ worker' = IF Head(dqueue).host = Nameless THEN WorkerIdle
                 ELSE [req |-> Head(dqueue), zone |-> "forward"]
    /\ dqueue' = Tail(dqueue)
    /\ UNCHANGED <<leased, listed, hand, fwd, ptr, last, off, dnsLeft>>

\* Mutant: a deletion removes every record of the name (class ANY).
Updated_Any(old, act, x) == IF act = "upsert" THEN {x} ELSE {}

\* buildUpdates: an upsert replaces the records of the name, a deletion
\* removes the one record it names (class NONE).
Updated(old, act, x) == IF act = "upsert" THEN {x} ELSE old \ {x}

\* The name server carries out an update.
ServerApplies(r, zone) ==
    /\ fwd' = IF zone = "forward" THEN [fwd EXCEPT ![r.host] = Updated(@, r.act, r.ip)] ELSE fwd
    /\ ptr' = IF zone = "reverse" THEN [ptr EXCEPT ![r.ip] = Updated(@, r.act, r.host)] ELSE ptr

\* sendUpdate succeeds; Apply and Delete go on with the next zone.
SendUpdate ==
    /\ worker # WorkerIdle
    /\ ServerApplies(worker.req, worker.zone)
    /\ worker' = IF worker.zone = "forward" THEN [worker EXCEPT !.zone = "reverse"] ELSE WorkerIdle
    /\ UNCHANGED <<leased, listed, hand, dqueue, last, off, dnsLeft>>

\* sendUpdate fails, with or without the update having reached the server;
\* the rest of the request is given up, nothing is sent again.
SendFails(reached) ==
    /\ worker # WorkerIdle /\ Fails
    /\ IF reached THEN ServerApplies(worker.req, worker.zone) ELSE UNCHANGED <<fwd, ptr>>
    /\ off' = off \cup {<<worker.req.host, worker.req.ip>>}
    /\ worker' = WorkerIdle
    /\ UNCHANGED <<leased, listed, hand, dqueue, last>>

\* The process ends: what was queued is forgotten.
Unsent == (Range(hand) \cup Range(dqueue) \cup {worker.req}) \ {Nothing}

RestartDDNS ==
    /\ Fails
    /\ off' = off \cup {<<r.host, r.ip>> : r \in Unsent}
    /\ hand' = [p \in Producers |-> Nothing] /\ dqueue' = <<>> /\ worker' = WorkerIdle
    /\ listed' = [ip \in DnsIPs |-> NoHost]
    /\ UNCHANGED <<leased, fwd, ptr, last>>

DdnsNext ==
    \/ \E h \in LeaseHosts, ip \in DnsIPs : Grant(h, ip) \/ StoreOffer(h, ip)
    \/ \E ip \in DnsIPs : Release(ip) \/ Expire(ip) \/ ApiReleases(ip)
    \/ \E due \in SUBSET DnsIPs : SweeperLists(due)
    \/ \E p \in Producers : QueueDDNS(p)
    \/ Take
    \/ SendUpdate
    \/ \E reached \in BOOLEAN : SendFails(reached)
    \/ RestartDDNS

DdnsSpec == DdnsInit /\ [][DdnsNext]_ddnsVars

-----------------------------------------------------------------------------
(* Properties                                                              *)

\* The queue stays within its capacity and holds requests of the two kinds;
\* the zones hold host names and addresses.
DdnsTypeOK ==
    /\ dqueue \in Seq(DnsRequests) /\ Len(dqueue) <= DdnsQueueCap
    /\ worker.zone \in {"none", "forward", "reverse"}
    /\ fwd \in [DnsHosts -> SUBSET DnsIPs] /\ ptr \in [DnsIPs -> SUBSET DnsHosts]

\* When no request about a host is under way, the forward zone names the
\* address of its newest lease while that lives and nothing afterwards; when
\* none about an address is, the reverse zone names the host of its newest
\* lease or nothing: whatever moves hosts make between addresses and however
\* the updates of old and new leases interleave.  Not so for a lease that was
\* renewed or offered anew under another name or none (nothing removes the old
\* name), or whose own update was dropped by a full queue, failed, was lost
\* with the process, was queued behind a newer one by the other producer, or
\* never sent.
DnsFollowsLeases ==
    /\ \A h \in DnsHosts : LET ip == last.host[h] IN
         (\A r \in Unsent : r.host # h) /\ ip # NoHost /\ <<h, ip>> \notin off =>
             fwd[h] = IF leased[ip] = h THEN {ip} ELSE {}
    /\ \A ip \in DnsIPs : LET h == last.ip[ip] IN
         (\A r \in Unsent : r.ip # ip) /\ h # NoHost /\ <<h, ip>> \notin off =>
             ptr[ip] = IF leased[ip] = h THEN {h} ELSE {}
=============================================================================

-------------------------- MODULE Background_proofs --------------------------
(***************************************************************************)
(* Proofs about the parts that work beside the DHCPv4 server: DHCPv6,      *)
(* DDNS, McpServer and Discovery, and about all parts beside each other.   *)
(* Each part has its own specification and its own inductive invariant;    *)
(* they share no variable.                                                 *)
(***************************************************************************)
EXTENDS MCBackground, EventBus_proofs,
        SequenceTheorems, FiniteSetTheorems, WellFoundedInduction, TLAPS

(***************************************************************************)
(* DHCPv6                                                                  *)
(***************************************************************************)
Messages6 == [kind : {"release", "decline"}, duid : Duids]
Copies6 == [ip : IPs6, rec : Leases6, at : Nat]

V6Types ==
    /\ now6 \in 1..MaxTime6
    /\ lease6 \in [IPs6 -> Leases6 \cup {NoLease6}]
    /\ hold6 \in [Duids -> [IPs6 -> Nat]]
    /\ net6 \subseteq Messages6
    /\ sweep6 \subseteq Copies6
    /\ displaced6 \subseteq IPs6

\* No client was told a lifetime longer than the one that starts now, and the
\* sweeper's copies are of leases that have lapsed.
V6Times ==
    /\ \A c \in Duids, ip \in IPs6 : hold6[c][ip] <= now6 + LeaseTime6
    /\ \A b \in sweep6 : b.rec.expiry < now6

V6Inv == V6Types /\ V6Times /\ V6HoldBacked

\* The smallest of a set of numbers is one of them.
LEMMA MinIsElement ==
    ASSUME NEW S \in SUBSET Nat, S # {} PROVE Min(S) \in S
  <1>1. PICK x \in S : \A y \in S : <<y, x>> \notin OpToRel(<, Nat)
    BY NatLessThanWellFounded, WFMin
  <1>2. ASSUME NEW y \in S PROVE x <= y
    <2>1. ASSUME y < x PROVE FALSE
      <3>1. <<y, x>> \in Nat \X Nat /\ <<y, x>>[1] < <<y, x>>[2] BY <2>1
      <3>2. <<y, x>> \in OpToRel(<, Nat) BY ONLY <3>1 DEF OpToRel
      <3> QED BY <1>1, <3>2
    <2> QED BY <2>1
  <1> QED BY <1>2 DEF Min

LEMMA PoolFacts6 ==
    /\ Pools6 \subseteq Nat /\ IPs6 \subseteq Nat
    /\ \A i \in Pools6 : Prefixes6[i] \subseteq IPs6 /\ Ranges6[i] \subseteq Prefixes6[i]
  BY DHCPv6Assumption DEF Pools6, IPs6

\* An address that Allocate picks lies in the pool, and its record is the
\* client's own, none, or one that has ended.
LEMMA AllocatePicks ==
    ASSUME NEW c \in Duids, NEW requested, NEW relay \in Pools6,
           NEW ip \in Allocate6(c, requested, relay)
    PROVE  /\ selectPool(requested, relay) \in Pools6
           /\ ip \in Prefixes6[selectPool(requested, relay)] /\ ip \in IPs6
           /\ availableForClient(ip, c)
  <1> DEFINE having == {i \in Pools6 : requested \in Prefixes6[i]}
             pool == selectPool(requested, relay)
             known == GetByClientID(c) \cap Prefixes6[pool]
             free == {a \in Ranges6[pool] : availableForClient(a, c)}
  <1>1. having # {} => Min(having) \in having BY MinIsElement, PoolFacts6
  <1>2. pool \in Pools6 BY <1>1 DEF selectPool
  <1>3. known # {} => Min(known) \in known BY <1>2, MinIsElement, PoolFacts6
  <1>4. free # {} => Min(free) \in free
    <2>1. free \subseteq Nat BY <1>2, PoolFacts6
    <2> QED BY <2>1, MinIsElement
  <1>5. ip \in known \/ (ip \in Prefixes6[pool] /\ availableForClient(ip, c)) \/ ip \in free
    BY <1>3, <1>4 DEF Allocate6
  <1>6. ip \in known => availableForClient(ip, c) BY DEF GetByClientID, availableForClient
  <1> QED BY <1>2, <1>5, <1>6, PoolFacts6

LEMMA FirstLeaseIs ==
    ASSUME NEW c \in Duids, GetByClientID(c) # {}
    PROVE  /\ FirstLease(c) \in IPs6
           /\ lease6[FirstLease(c)] # NoLease6 /\ lease6[FirstLease(c)].duid = c
  <1>1. FirstLease(c) \in GetByClientID(c)
    BY MinIsElement, PoolFacts6 DEF FirstLease, GetByClientID
  <1> QED BY <1>1 DEF GetByClientID

LEMMA LeaseFacts6 ==
    /\ \A l \in Leases6 : l # NoLease6
    /\ \A l \in Leases6 : l.duid \in Duids /\ l.state \in States6 /\ l.expiry \in Nat /\ l.until \in Nat
  <1>1. \A l \in Leases6 : l # NoLease6 BY NoLease6Assumption
  <1> QED BY <1>1 DEF Leases6

LEMMA LeaseWrites6 ==
    ASSUME V6Types
    PROVE  /\ \A c \in Duids : /\ buildLeaseRecord(c, "offered") \in Leases6
                               /\ buildLeaseRecord(c, "bound") \in Leases6
           /\ \A l \in Leases6, kind \in {"release", "decline"} : Ended6(kind, l) \in Leases6
           /\ \A l \in Leases6, at \in Nat : Swept6(l, at) \in Leases6
           /\ \A l \in Leases6 : [l EXCEPT !.state = "renewing", !.expiry = now6 + LeaseTime6] \in Leases6
  <1>1. now6 \in Nat /\ now6 + LeaseTime6 \in Nat /\ now6 + Quarantine6 \in Nat
    BY DHCPv6Assumption DEF V6Types
  <1>2. ASSUME NEW l \in Leases6, NEW st \in States6, NEW n \in Nat
        PROVE  /\ [l EXCEPT !.state = st] \in Leases6 /\ [l EXCEPT !.state = st, !.expiry = n] \in Leases6
               /\ [l EXCEPT !.state = st, !.until = n] \in Leases6
    BY DEF Leases6
  <1>3. {"renewing", "released", "declined", "expired", "quarantined", "free"} \subseteq States6 BY DEF States6
  <1>4. \A c \in Duids : buildLeaseRecord(c, "offered") \in Leases6 /\ buildLeaseRecord(c, "bound") \in Leases6
    BY <1>1 DEF buildLeaseRecord, Leases6, States6
  <1>5. \A l \in Leases6, kind \in {"release", "decline"} : Ended6(kind, l) \in Leases6
    BY <1>1, <1>2, <1>3 DEF Ended6
  <1>6. ASSUME NEW l \in Leases6, NEW at \in Nat PROVE Swept6(l, at) \in Leases6
    <2>1. at + Quarantine6 \in Nat BY DHCPv6Assumption
    <2> QED BY <1>2, <1>3, <2>1 DEF Swept6
  <1> QED BY <1>1, <1>2, <1>3, <1>4, <1>5, <1>6

\* A reply that reaches the client gives it the new lifetime, no other.
LEMMA HoldsAfterReply ==
    ASSUME V6Types, NEW c \in Duids, NEW ip \in IPs6, Replies(c, ip)
    PROVE  /\ hold6' \in [Duids -> [IPs6 -> Nat]]
           /\ \A d \in Duids, a \in IPs6 : hold6'[d][a] = hold6[d][a] \/ (d = c /\ a = ip /\ hold6'[d][a] = now6 + LeaseTime6)
  <1>1. CASE hold6' = hold6 BY <1>1 DEF V6Types
  <1>2. CASE hold6' = [hold6 EXCEPT ![c][ip] = now6 + LeaseTime6]
    BY <1>2, DHCPv6Assumption DEF V6Types
  <1> QED BY <1>1, <1>2 DEF Replies

LEMMA HoldsAfterForgetting ==
    ASSUME V6Types, NEW c \in Duids, NEW pool \in Pools6, Forgets(c, pool)
    PROVE  /\ hold6' \in [Duids -> [IPs6 -> Nat]]
           /\ \A d \in Duids, a \in IPs6 : hold6'[d][a] = hold6[d][a] \/ hold6'[d][a] = 0
           /\ \A a \in Prefixes6[pool] : hold6'[c][a] = 0
  BY PoolFacts6 DEF V6Types, Forgets

(***************************************************************************)
(* A write of the packet loop.  The address a was available to the client  *)
(* c, which is now told a lifetime, keeps one it was told, or forgets it.  *)
(***************************************************************************)
Writes6(c, a) ==
    /\ a \in IPs6 /\ availableForClient(a, c)
    /\ \E l \in Leases6 :
          /\ l.duid = c /\ l.expiry = now6 + LeaseTime6
          /\ lease6' = [lease6 EXCEPT ![a] = l]
          /\ l.state \in {"bound", "renewing"} \/ (l.state = "offered" /\ hold6'[c][a] = 0)
    /\ hold6' \in [Duids -> [IPs6 -> Nat]]
    /\ \A d \in Duids, i \in IPs6 :
          \/ hold6'[d][i] = hold6[d][i] \/ hold6'[d][i] = 0
          \/ d = c /\ i = a /\ hold6'[d][i] = now6 + LeaseTime6
    /\ UNCHANGED <<now6, net6, sweep6, displaced6>>

LEMMA WritesKeep6 ==
    ASSUME V6Inv, NEW c \in Duids, NEW a, Writes6(c, a)
    PROVE  V6Inv'
  <1> PICK l \in Leases6 :
          /\ l.duid = c /\ l.expiry = now6 + LeaseTime6
          /\ lease6' = [lease6 EXCEPT ![a] = l]
          /\ l.state \in {"bound", "renewing"} \/ (l.state = "offered" /\ hold6'[c][a] = 0)
    BY DEF Writes6
  <1>1. V6Types' BY DEF V6Inv, V6Types, Writes6
  <1>2. V6Times'
    <2>1. now6 \in Nat /\ LeaseTime6 \in Nat /\ now6' = now6 /\ sweep6' = sweep6
      BY DHCPv6Assumption DEF V6Inv, V6Types, Writes6
    <2>2. ASSUME NEW d \in Duids, NEW i \in IPs6 PROVE hold6'[d][i] <= now6 + LeaseTime6
      <3>1. hold6[d][i] <= now6 + LeaseTime6 BY DEF V6Inv, V6Times
      <3> QED BY <2>1, <3>1 DEF Writes6
    <2> QED BY <2>1, <2>2 DEF V6Inv, V6Times
  <1>3. ASSUME NEW d \in Duids, NEW i \in IPs6, hold6'[d][i] > now6', i \notin displaced6'
        PROVE  /\ lease6'[i] # NoLease6 /\ lease6'[i].duid = d
               /\ lease6'[i].state \in {"bound", "renewing"}
               /\ lease6'[i].expiry >= hold6'[d][i]
    <2>1. now6' = now6 /\ displaced6' = displaced6 /\ now6 \in Nat /\ hold6'[d][i] # 0 /\ LeaseTime6 \in Nat
      BY <1>3, DHCPv6Assumption DEF Writes6, V6Inv, V6Types
    <2>2. CASE i = a
      <3>1. lease6'[i] = l BY <2>2 DEF V6Inv, V6Types, Writes6
      <3>2. d = c
        <4>1. SUFFICES ASSUME d # c PROVE FALSE OBVIOUS
        <4>2. hold6[d][i] > now6 BY <1>3, <2>1, <4>1 DEF Writes6
        <4>3. lease6[i] # NoLease6 /\ lease6[i].duid = d /\ lease6[i].state \in {"bound", "renewing"}
          BY <1>3, <2>1, <4>2 DEF V6Inv, V6HoldBacked
        <4> QED BY <2>2, <4>1, <4>3 DEF Writes6, availableForClient
      <3>3. hold6'[d][i] <= now6 + LeaseTime6 BY <1>2, <2>1 DEF V6Times
      <3>4. l.state \in {"bound", "renewing"} BY <2>1, <2>2, <3>2
      <3> QED BY <2>1, <3>1, <3>2, <3>3, <3>4, LeaseFacts6, <1>1 DEF V6Types
    <2>3. CASE i # a
      <3>1. lease6'[i] = lease6[i] /\ hold6'[d][i] = hold6[d][i]
        BY <2>1, <2>3 DEF V6Inv, V6Types, Writes6
      <3> QED BY <1>3, <2>1, <3>1 DEF V6Inv, V6HoldBacked
    <2> QED BY <2>2, <2>3
  <1> QED BY <1>1, <1>2, <1>3 DEF V6Inv, V6HoldBacked

\* Every request that is granted, and every advertisement, is such a write.
LEMMA HandlersWrite6 ==
    ASSUME V6Inv, NEW c \in Duids, NEW requested, NEW relay \in Pools6,
           \/ HandleSolicit(c, requested, relay) \/ HandleRapidCommit(c, requested, relay)
           \/ HandleRequest6(c, requested, relay)
    PROVE  \E a : Writes6(c, a)
  <1> USE DEF V6Inv
  <1>1. CASE HandleSolicit(c, requested, relay)
    <2>1. PICK a \in Allocate6(c, requested, relay) :
             lease6' = [lease6 EXCEPT ![a] = buildLeaseRecord(c, "offered")]
      BY <1>1 DEF HandleSolicit
    <2> DEFINE pool == selectPool(requested, relay)
               l == buildLeaseRecord(c, "offered")
    <2>2. a \in IPs6 /\ a \in Prefixes6[pool] /\ pool \in Pools6 /\ availableForClient(a, c) BY AllocatePicks
    <2>3. /\ hold6' \in [Duids -> [IPs6 -> Nat]]
          /\ \A d \in Duids, i \in IPs6 : hold6'[d][i] = hold6[d][i] \/ hold6'[d][i] = 0
          /\ hold6'[c][a] = 0
      BY <1>1, <2>2, HoldsAfterForgetting DEF HandleSolicit
    <2>4. l \in Leases6 /\ l.duid = c /\ l.expiry = now6 + LeaseTime6 /\ l.state = "offered"
      <3>1. l \in Leases6 BY LeaseWrites6
      <3> QED BY <3>1 DEF buildLeaseRecord
    <2>5. UNCHANGED <<now6, net6, sweep6, displaced6>> BY <1>1 DEF HandleSolicit
    <2>6. lease6' = [lease6 EXCEPT ![a] = l] BY <2>1
    <2> HIDE DEF l
    <2>7. \E k \in Leases6 :
             /\ k.duid = c /\ k.expiry = now6 + LeaseTime6
             /\ lease6' = [lease6 EXCEPT ![a] = k]
             /\ k.state \in {"bound", "renewing"} \/ (k.state = "offered" /\ hold6'[c][a] = 0)
      BY <2>3, <2>4, <2>6
    <2> QED BY <2>2, <2>3, <2>5, <2>7 DEF Writes6
  <1>2. CASE HandleRapidCommit(c, requested, relay) \/ HandleRequest6(c, requested, relay)
    <2>1. PICK a \in Allocate6(c, requested, relay) :
             lease6' = [lease6 EXCEPT ![a] = buildLeaseRecord(c, "bound")] /\ Replies(c, a)
      BY <1>2 DEF HandleRapidCommit, HandleRequest6
    <2> DEFINE l == buildLeaseRecord(c, "bound")
    <2>2. a \in IPs6 /\ availableForClient(a, c) BY AllocatePicks
    <2>3. /\ hold6' \in [Duids -> [IPs6 -> Nat]]
          /\ \A d \in Duids, i \in IPs6 :
                hold6'[d][i] = hold6[d][i] \/ (d = c /\ i = a /\ hold6'[d][i] = now6 + LeaseTime6)
      BY <2>1, <2>2, HoldsAfterReply
    <2>4. l \in Leases6 /\ l.duid = c /\ l.expiry = now6 + LeaseTime6 /\ l.state = "bound"
      <3>1. l \in Leases6 BY LeaseWrites6
      <3> QED BY <3>1 DEF buildLeaseRecord
    <2>5. UNCHANGED <<now6, net6, sweep6, displaced6>> BY <1>2 DEF HandleRapidCommit, HandleRequest6
    <2>6. lease6' = [lease6 EXCEPT ![a] = l] BY <2>1
    <2> HIDE DEF l
    <2>7. \E k \in Leases6 :
             /\ k.duid = c /\ k.expiry = now6 + LeaseTime6
             /\ lease6' = [lease6 EXCEPT ![a] = k]
             /\ k.state \in {"bound", "renewing"} \/ (k.state = "offered" /\ hold6'[c][a] = 0)
      BY <2>3, <2>4, <2>6
    <2>8. \A d \in Duids, i \in IPs6 :
             \/ hold6'[d][i] = hold6[d][i] \/ hold6'[d][i] = 0
             \/ d = c /\ i = a /\ hold6'[d][i] = now6 + LeaseTime6
      BY <2>3
    <2>9. Writes6(c, a) BY <2>2, <2>3, <2>5, <2>7, <2>8 DEF Writes6
    <2> QED BY <2>9
  <1> QED BY <1>1, <1>2

LEMMA RenewWrites6 ==
    ASSUME V6Inv, NEW c \in Duids, HandleRenew(c)
    PROVE  \E a : Writes6(c, a)
  <1> USE DEF V6Inv
  <1> DEFINE a == FirstLease(c)
             l == [lease6[a] EXCEPT !.state = "renewing", !.expiry = now6 + LeaseTime6]
  <1>1. a \in IPs6 /\ lease6[a] # NoLease6 /\ lease6[a].duid = c BY FirstLeaseIs DEF HandleRenew
  <1>2. lease6[a] \in Leases6 BY <1>1 DEF V6Types
  <1>3. l \in Leases6 BY <1>2, LeaseWrites6
  <1>4. l.duid = c /\ l.expiry = now6 + LeaseTime6 /\ l.state = "renewing" BY <1>1, <1>2 DEF Leases6
  <1>5. lease6' = [lease6 EXCEPT ![a] = l] BY <1>1 DEF HandleRenew, V6Types
  <1>6. Replies(c, a) BY DEF HandleRenew
  <1>7. /\ hold6' \in [Duids -> [IPs6 -> Nat]]
        /\ \A d \in Duids, i \in IPs6 :
              hold6'[d][i] = hold6[d][i] \/ (d = c /\ i = a /\ hold6'[d][i] = now6 + LeaseTime6)
    BY <1>1, <1>6, HoldsAfterReply
  <1>8. availableForClient(a, c) BY <1>1 DEF availableForClient
  <1>9. UNCHANGED <<now6, net6, sweep6, displaced6>> BY DEF HandleRenew
  <1> HIDE DEF l, a
  <1>10. \E k \in Leases6 :
            /\ k.duid = c /\ k.expiry = now6 + LeaseTime6
            /\ lease6' = [lease6 EXCEPT ![a] = k]
            /\ k.state \in {"bound", "renewing"} \/ (k.state = "offered" /\ hold6'[c][a] = 0)
    BY <1>3, <1>4, <1>5
  <1> QED BY <1>1, <1>7, <1>8, <1>9, <1>10, ZenonT(30) DEF Writes6

LEMMA LeavesKeep6 ==
    ASSUME V6Inv, NEW msg \in net6, HandleLeaves(msg)
    PROVE  V6Inv'
  <1> DEFINE c == msg.duid
             a == FirstLease(c)
  <1>1. c \in Duids /\ msg.kind \in {"release", "decline"} BY DEF V6Inv, V6Types, Messages6
  <1>2. /\ net6' \subseteq net6 /\ now6' = now6 /\ hold6' = hold6 /\ sweep6' = sweep6
        /\ displaced6 \subseteq displaced6'
    BY DEF HandleLeaves
  <1>3. V6Times' BY <1>2 DEF V6Inv, V6Times
  <1>4. CASE GetByClientID(c) = {}
    <2>1. lease6' = lease6 /\ displaced6' = displaced6 BY <1>4 DEF HandleLeaves
    <2> QED BY <1>2, <1>3, <2>1 DEF V6Inv, V6Types, V6HoldBacked
  <1>5. CASE GetByClientID(c) # {}
    <2>1. a \in IPs6 /\ lease6[a] # NoLease6 /\ lease6[a].duid = c BY <1>1, <1>5, FirstLeaseIs
    <2>2. /\ lease6' = [lease6 EXCEPT ![a] = Ended6(msg.kind, lease6[a])]
          /\ hold6[c][a] > now6 => a \in displaced6'
          /\ displaced6' \subseteq displaced6 \cup {a}
      BY <1>5 DEF HandleLeaves
    <2>3. Ended6(msg.kind, lease6[a]) \in Leases6
      BY <1>1, <2>1, LeaseWrites6 DEF V6Inv, V6Types
    <2>4. V6Types' BY <1>2, <2>1, <2>2, <2>3 DEF V6Inv, V6Types
    <2>5. ASSUME NEW d \in Duids, NEW i \in IPs6, hold6'[d][i] > now6', i \notin displaced6'
          PROVE  /\ lease6'[i] # NoLease6 /\ lease6'[i].duid = d
                 /\ lease6'[i].state \in {"bound", "renewing"}
                 /\ lease6'[i].expiry >= hold6'[d][i]
      <3>1. /\ lease6[i] # NoLease6 /\ lease6[i].duid = d /\ lease6[i].state \in {"bound", "renewing"}
            /\ lease6[i].expiry >= hold6[d][i]
        BY <1>2, <2>5 DEF V6Inv, V6HoldBacked
      <3>2. i # a BY <1>2, <2>1, <2>2, <2>5, <3>1
      <3>3. lease6'[i] = lease6[i] BY <2>2, <3>2 DEF V6Inv, V6Types
      <3> QED BY <1>2, <3>1, <3>3
    <2> QED BY <1>3, <2>4, <2>5 DEF V6Inv, V6HoldBacked
  <1> QED BY <1>4, <1>5

LEMMA SweepKeeps6 ==
    ASSUME V6Inv, NEW b \in sweep6, SweepOne6(b)
    PROVE  V6Inv'
  <1>1. b.ip \in IPs6 /\ b.rec \in Leases6 /\ b.at \in Nat /\ b.rec.expiry < now6
    BY DEF V6Inv, V6Types, V6Times, Copies6
  <1>2. now6' = now6 /\ hold6' = hold6 /\ net6' = net6 /\ sweep6' \subseteq sweep6 BY DEF SweepOne6
  <1>3. V6Times' BY <1>2 DEF V6Inv, V6Times
  <1>4. CASE Swept6(b.rec, b.at) = b.rec
    <2>1. lease6' = lease6 /\ displaced6' = displaced6 BY <1>4 DEF SweepOne6
    <2> QED BY <1>2, <1>3, <2>1 DEF V6Inv, V6Types, V6HoldBacked
  <1>5. CASE Swept6(b.rec, b.at) # b.rec
    <2>1. /\ lease6' = [lease6 EXCEPT ![b.ip] = Swept6(b.rec, b.at)]
          /\ displaced6' = IF lease6[b.ip] # b.rec THEN displaced6 \cup {b.ip} ELSE displaced6
      BY <1>5 DEF SweepOne6
    <2>2. Swept6(b.rec, b.at) \in Leases6 BY <1>1, LeaseWrites6 DEF V6Inv
    <2>3. V6Types' BY <1>1, <1>2, <2>1, <2>2 DEF V6Inv, V6Types
    <2>4. ASSUME NEW d \in Duids, NEW i \in IPs6, hold6'[d][i] > now6', i \notin displaced6'
          PROVE  /\ lease6'[i] # NoLease6 /\ lease6'[i].duid = d
                 /\ lease6'[i].state \in {"bound", "renewing"}
                 /\ lease6'[i].expiry >= hold6'[d][i]
      <3>0. hold6[d][i] > now6 /\ i \notin displaced6 BY <1>2, <2>1, <2>4
      <3>1. /\ lease6[i] # NoLease6 /\ lease6[i].duid = d /\ lease6[i].state \in {"bound", "renewing"}
            /\ lease6[i].expiry >= hold6[d][i]
        BY <3>0 DEF V6Inv, V6HoldBacked
      <3>2. i # b.ip
        <4>1. SUFFICES ASSUME i = b.ip PROVE FALSE OBVIOUS
        <4>2. lease6[i] = b.rec BY <2>1, <2>4, <4>1
        <4>3. b.rec.expiry \in Nat /\ hold6[d][i] \in Nat /\ now6 \in Nat
          BY <1>1, LeaseFacts6 DEF V6Inv, V6Types
        <4> QED BY <1>1, <3>0, <3>1, <4>2, <4>3
      <3>3. lease6'[i] = lease6[i] BY <2>1, <3>2 DEF V6Inv, V6Types
      <3> QED BY <1>2, <3>1, <3>3
    <2> QED BY <1>3, <2>3, <2>4 DEF V6Inv, V6HoldBacked
  <1> QED BY <1>4, <1>5

\* The clock, the list of a tick, lost messages and clients that leave.
LEMMA OthersKeep6 ==
    ASSUME V6Inv,
           \/ Tick6 \/ SweepList6 \/ (\E msg \in net6 : MessageLost6(msg))
           \/ \E c \in Duids, kind \in {"release", "decline"}, pool \in Pools6 : ClientLeaves6(c, kind, pool)
           \/ UNCHANGED v6Vars
    PROVE  V6Inv'
  <1> USE DEF V6Inv
  <1>1. CASE Tick6
    <2>1. /\ now6' = now6 + 1 /\ now6 < MaxTime6
          /\ hold6' = [c \in Duids |-> [ip \in IPs6 |-> IF hold6[c][ip] > now6' THEN hold6[c][ip] ELSE 0]]
          /\ UNCHANGED <<lease6, net6, sweep6, displaced6>>
      BY <1>1 DEF Tick6
    <2>2. \A c \in Duids, ip \in IPs6 : /\ hold6'[c][ip] \in {hold6[c][ip], 0} /\ hold6[c][ip] \in Nat
      BY <2>1 DEF V6Types
    <2>3. now6 \in Nat /\ LeaseTime6 \in Nat /\ now6 + 1 \in 1..MaxTime6
      BY <2>1, DHCPv6Assumption DEF V6Types
    <2>4. V6Types'
      <3>1. hold6' \in [Duids -> [IPs6 -> Nat]] BY <2>1, <2>2
      <3> QED BY <2>1, <2>3, <3>1 DEF V6Types
    <2>5. V6Times'
      <3>1. \A b \in sweep6 : b.rec.expiry \in Nat BY LeaseFacts6 DEF V6Types, Copies6
      <3>2. \A b \in sweep6' : b.rec.expiry < now6' BY <2>1, <2>3, <3>1 DEF V6Times
      <3>3. \A c \in Duids, ip \in IPs6 : hold6'[c][ip] <= now6' + LeaseTime6
        BY <2>1, <2>2, <2>3 DEF V6Times
      <3> QED BY <3>2, <3>3 DEF V6Times
    <2>6. \A c \in Duids, ip \in IPs6 : hold6'[c][ip] > now6' => hold6'[c][ip] = hold6[c][ip] /\ hold6[c][ip] > now6
      BY <2>1, <2>2, <2>3
    <2> QED BY <2>1, <2>4, <2>5, <2>6 DEF V6HoldBacked
  <1>2. CASE SweepList6
    <2>1. UNCHANGED <<now6, lease6, hold6, net6, displaced6>> BY <1>2 DEF SweepList6
    <2>2. ASSUME NEW b \in sweep6' PROVE b \in Copies6 /\ b.rec.expiry < now6
      <3>1. PICK ip \in {i \in IPs6 : lease6[i] # NoLease6 /\ lease6[i].expiry < now6} :
               b = [ip |-> ip, rec |-> lease6[ip], at |-> now6]
        BY <1>2 DEF SweepList6
      <3>2. lease6[ip] \in Leases6 /\ now6 \in Nat BY <3>1 DEF V6Types
      <3> QED BY <3>1, <3>2 DEF Copies6
    <2> QED BY <2>1, <2>2 DEF V6Types, V6Times, V6HoldBacked
  <1>3. CASE \E msg \in net6 : MessageLost6(msg)
    <2>1. UNCHANGED <<now6, lease6, hold6, sweep6, displaced6>> /\ net6' \subseteq net6
      BY <1>3 DEF MessageLost6
    <2> QED BY <2>1 DEF V6Types, V6Times, V6HoldBacked
  <1>4. ASSUME NEW c \in Duids, NEW kind \in {"release", "decline"}, NEW pool \in Pools6, ClientLeaves6(c, kind, pool)
        PROVE  V6Inv'
    <2>1. /\ UNCHANGED <<now6, lease6, sweep6, displaced6>>
          /\ net6' = net6 \cup {[kind |-> kind, duid |-> c]}
          /\ Forgets(c, pool)
      BY <1>4 DEF ClientLeaves6
    <2>2. /\ hold6' \in [Duids -> [IPs6 -> Nat]]
          /\ \A d \in Duids, i \in IPs6 : hold6'[d][i] = hold6[d][i] \/ hold6'[d][i] = 0
      BY <2>1, HoldsAfterForgetting
    <2>3. V6Types' BY <2>1, <2>2 DEF V6Types, Messages6
    <2>4. now6 \in Nat /\ LeaseTime6 \in Nat BY DHCPv6Assumption DEF V6Types
    <2>5. V6Times' BY <2>1, <2>2, <2>4 DEF V6Times
    <2>6. \A d \in Duids, i \in IPs6 : hold6'[d][i] > now6 => hold6'[d][i] = hold6[d][i] BY <2>2, <2>4
    <2> QED BY <2>1, <2>3, <2>5, <2>6 DEF V6HoldBacked
  <1>5. CASE UNCHANGED v6Vars BY <1>5 DEF v6Vars, V6Types, V6Times, V6HoldBacked
  <1> QED BY <1>1, <1>2, <1>3, <1>4, <1>5

LEMMA V6Step ==
    ASSUME V6Inv, [V6Next]_v6Vars PROVE V6Inv'
  <1>1. ASSUME NEW c \in Duids, NEW requested \in IPs6 \cup {0}, NEW relay \in Pools6,
               \/ HandleSolicit(c, requested, relay) \/ HandleRapidCommit(c, requested, relay)
               \/ HandleRequest6(c, requested, relay)
        PROVE  V6Inv'
    BY <1>1, HandlersWrite6, WritesKeep6
  <1>2. ASSUME NEW c \in Duids, HandleRenew(c) PROVE V6Inv' BY <1>2, RenewWrites6, WritesKeep6
  <1>3. ASSUME NEW msg \in net6, HandleLeaves(msg) PROVE V6Inv' BY <1>3, LeavesKeep6
  <1>4. ASSUME NEW b \in sweep6, SweepOne6(b) PROVE V6Inv' BY <1>4, SweepKeeps6
  <1> QED BY <1>1, <1>2, <1>3, <1>4, OthersKeep6 DEF V6Next

LEMMA V6Start == V6Init => V6Inv
  <1> SUFFICES ASSUME V6Init PROVE V6Inv OBVIOUS
  <1>1. V6Types BY DHCPv6Assumption DEF V6Init, V6Types, NoHold6
  <1>2. \A c \in Duids, ip \in IPs6 : hold6[c][ip] = 0 BY DEF V6Init, NoHold6
  <1> QED BY <1>1, <1>2, DHCPv6Assumption DEF V6Init, V6Inv, V6Times, V6HoldBacked

\* The records of the DHCPv6 server are leases of clients, and clients are told
\* lifetimes that end, for every set of pools and clients and every life time.
THEOREM V6TypeCorrect == V6Spec => []V6TypeOK
  <1>1. V6Inv => V6TypeOK
    <2> SUFFICES ASSUME V6Inv PROVE V6TypeOK OBVIOUS
    <2>1. \A c \in Duids, ip \in IPs6 : hold6[c][ip] \in 0..(MaxTime6 + LeaseTime6)
      BY DHCPv6Assumption DEF V6Inv, V6Types, V6Times
    <2> QED BY <2>1 DEF V6Inv, V6Types, V6TypeOK
  <1> QED BY <1>1, V6Start, V6Step, PTL DEF V6Spec

\* While a client uses a DHCPv6 address its record is a live lease of this
\* client (Allocate, availableForClient, handleRenew), over lost replies, late
\* RELEASE and DECLINE, and the sweeper between any two packets.
THEOREM V6AddressesBacked == V6Spec => []V6HoldBacked
  <1>1. V6Inv => V6HoldBacked BY DEF V6Inv
  <1> QED BY <1>1, V6Start, V6Step, PTL DEF V6Spec

\* Two clients that use one address: its record was ended or overwritten while
\* it was used.
V6OneClient ==
    \A c, d \in Duids, ip \in IPs6 :
        hold6[c][ip] > now6 /\ hold6[d][ip] > now6 /\ ip \notin displaced6 => c = d

\* Two clients never use one DHCPv6 address (availableForClient), on whatever
\* links, other than as V6OneClient says.
THEOREM V6NoTwoClients == V6Spec => []V6OneClient
  <1>1. V6HoldBacked => V6OneClient BY DEF V6HoldBacked, V6OneClient
  <1> QED BY <1>1, V6AddressesBacked, PTL

(***************************************************************************)
(* McpServer.  A stream that has not ended has written, holds or has       *)
(* queued exactly what was promised to it; what an ended one has written   *)
(* is the beginning of that.                                               *)
(***************************************************************************)
McpCallPcs == {"none", "posted", "ran", "noted", "found", "accepted", "full", "inline"}
McpPcs == {"none", "endpoint", "select", "write", "ending", "ended"}
McpAlive == {"none", "endpoint", "select", "write"}

McpTypes ==
    /\ mcpSessions \subseteq McpStreams
    /\ mcpStream \in [McpStreams -> [pc : McpPcs, msg : Seq(McpCalls)]]
    /\ mcpCh \in [McpStreams -> Seq(McpCalls)]
    /\ mcpOut \in [McpStreams -> Seq(McpCalls)]
    /\ mcpTaken \in [McpStreams -> Seq(McpCalls)]
    /\ mcpCall \in [McpCalls -> [pc : McpCallPcs, kind : {"call", "note", "bad"},
                                 sid : McpStreams \cup {NoStream}]]

McpCarries(s) ==
    /\ mcpStream[s].pc \in McpAlive =>
          mcpTaken[s] = (mcpOut[s] \o mcpStream[s].msg) \o mcpCh[s]
    /\ mcpStream[s].pc # "write" => mcpStream[s].msg = <<>>
    /\ \E rest \in Seq(McpCalls) : mcpTaken[s] = mcpOut[s] \o rest

McpOnce(s) ==
    /\ \A i, j \in 1..Len(mcpTaken[s]) : mcpTaken[s][i] = mcpTaken[s][j] => i = j
    /\ \A i \in 1..Len(mcpTaken[s]) : mcpCall[mcpTaken[s][i]].pc = "accepted"

McpInv ==
    /\ McpTypes
    /\ \A s \in McpStreams : Len(mcpCh[s]) <= McpCap /\ McpCarries(s) /\ McpOnce(s)
    /\ \A c \in McpCalls : mcpCall[c].pc = "found" => mcpCall[c].sid \in McpStreams

LEMMA AppendToConcat ==
    \A c \in McpCalls, v, w \in Seq(McpCalls) : Append(v \o w, c) = v \o Append(w, c)
  <1> TAKE c \in McpCalls, v, w \in Seq(McpCalls)
  <1>0. <<c>> \in Seq(McpCalls) OBVIOUS
  <1>1. PICK e \in Seq(McpCalls) : e = <<c>> BY <1>0
  <1>2. Append(v \o w, c) = (v \o w) \o e BY <1>1, ConcatProperties, AppendIsConcat
  <1>3. Append(w, c) = w \o e BY <1>1, AppendIsConcat
  <1>4. (v \o w) \o e = v \o (w \o e) BY <1>1, ConcatAssociative, SMT
  <1> QED BY <1>2, <1>3, <1>4, Zenon

\* The goroutine of stream s moves; no call does.
LEMMA StreamKeeps ==
    ASSUME McpInv, NEW s \in McpStreams, McpOpen(s) \/ McpLoop(s) \/ McpGone(s)
    PROVE  McpInv'
  <1> USE DEF McpTypes, McpInv
  <1> DEFINE m == mcpStream[s].msg
             o == mcpOut[s]
             h == mcpCh[s]
  <1>1. m \in Seq(McpCalls) /\ o \in Seq(McpCalls) /\ h \in Seq(McpCalls) OBVIOUS
  <1>2. mcpCall' = mcpCall /\ mcpTaken' = mcpTaken
    BY DEF McpOpen, McpLoop, McpWrite, McpReceive, McpDelete, McpGone
  <1>3. /\ mcpSessions' \subseteq McpStreams
        /\ mcpStream' \in [McpStreams -> [pc : McpPcs, msg : Seq(McpCalls)]]
        /\ mcpCh' \in [McpStreams -> Seq(McpCalls)] /\ Len(mcpCh'[s]) <= McpCap
        /\ mcpOut' \in [McpStreams -> Seq(McpCalls)]
        /\ \A t \in McpStreams \ {s} : /\ mcpStream'[t] = mcpStream[t]
                                       /\ mcpCh'[t] = mcpCh[t] /\ mcpOut'[t] = mcpOut[t]
        /\ McpCarries(s)'
    <2>1. CASE McpOpen(s)
      <3>1. /\ mcpStream' = [mcpStream EXCEPT ![s] = [pc |-> "endpoint", msg |-> <<>>]]
            /\ mcpCh' = mcpCh /\ mcpOut' = mcpOut /\ mcpSessions' = mcpSessions \cup {s}
            /\ mcpStream[s].pc = "none"
        BY <2>1 DEF McpOpen, McpGo, McpAt
      <3>2. m = <<>> /\ mcpTaken[s] = (o \o m) \o h BY <3>1 DEF McpCarries, McpAlive
      <3>3. McpCarries(s)' BY <1>2, <3>1, <3>2 DEF McpCarries
      <3> QED BY <3>1, <3>3, EmptySeq DEF McpPcs
    <2>2. CASE McpWrite(s)
      <3>1. /\ mcpStream' = [mcpStream EXCEPT ![s] = [pc |-> "select", msg |-> <<>>]]
            /\ mcpOut' = [mcpOut EXCEPT ![s] = o \o m]
            /\ mcpCh' = mcpCh /\ mcpSessions' = mcpSessions
            /\ mcpStream[s].pc \in {"endpoint", "write"}
        BY <2>2 DEF McpWrite, McpGo, McpAt
      <3>2. mcpTaken[s] = (o \o m) \o h BY <3>1 DEF McpCarries, McpAlive
      <3>3. o \o m \in Seq(McpCalls) BY <1>1, ConcatProperties
      <3>4. (o \o m) \o <<>> = o \o m BY <3>3, ConcatEmptySeq
      <3>5. McpCarries(s)'
        <4>1. mcpTaken'[s] = (mcpOut'[s] \o mcpStream'[s].msg) \o mcpCh'[s] BY <1>2, <3>1, <3>2, <3>4
        <4>2. mcpTaken'[s] = mcpOut'[s] \o h BY <1>2, <3>1, <3>2
        <4> QED BY <1>1, <3>1, <4>1, <4>2 DEF McpCarries
      <3> QED BY <3>1, <3>3, <3>5, EmptySeq DEF McpPcs
    <2>3. CASE McpReceive(s)
      <3>1. /\ mcpStream' = [mcpStream EXCEPT ![s] = [pc |-> "write", msg |-> <<Head(h)>>]]
            /\ mcpCh' = [mcpCh EXCEPT ![s] = Tail(h)]
            /\ mcpOut' = mcpOut /\ mcpSessions' = mcpSessions
            /\ mcpStream[s].pc = "select" /\ h # <<>>
        BY <2>3 DEF McpReceive, McpGo, McpAt
      <3>2. m = <<>> /\ mcpTaken[s] = (o \o m) \o h BY <3>1 DEF McpCarries, McpAlive
      <3>3. /\ Head(h) \in McpCalls /\ Tail(h) \in Seq(McpCalls)
            /\ Len(Tail(h)) = Len(h) - 1 /\ Len(h) \in Nat
        BY <1>1, <3>1, HeadTailProperties, LenProperties
      <3>4. <<Head(h)>> \in Seq(McpCalls) BY <3>3
      <3>5. h = <<Head(h)>> \o Tail(h) BY <1>1, <3>1, <3>3
      <3>6. (o \o <<Head(h)>>) \o Tail(h) = o \o h
        BY <1>1, <3>3, <3>4, <3>5, ConcatAssociative, SMTT(30)
      <3>7. o \o <<>> = o BY <1>1, ConcatEmptySeq
      <3>8. McpCarries(s)'
        <4>1. mcpTaken'[s] = (mcpOut'[s] \o mcpStream'[s].msg) \o mcpCh'[s]
          BY <1>2, <3>1, <3>2, <3>6, <3>7
        <4> QED BY <1>2, <3>1, <4>1 DEF McpCarries
      <3>9. Len(mcpCh'[s]) <= McpCap BY <3>1, <3>3, McpAssumption
      <3> QED BY <3>1, <3>3, <3>4, <3>8, <3>9 DEF McpPcs
    <2>4. CASE McpDelete(s) \/ McpGone(s)
      <3>1. /\ \E pc \in {"ending", "ended"} : mcpStream' = [mcpStream EXCEPT ![s] = [pc |-> pc, msg |-> <<>>]]
            /\ mcpCh' = mcpCh /\ mcpOut' = mcpOut /\ mcpSessions' \subseteq mcpSessions
        BY <2>4 DEF McpDelete, McpGone, McpGo
      <3>2. PICK pc \in {"ending", "ended"} : mcpStream' = [mcpStream EXCEPT ![s] = [pc |-> pc, msg |-> <<>>]]
        BY <3>1
      <3>3. McpCarries(s)' BY <1>2, <3>1, <3>2 DEF McpCarries, McpAlive
      <3> QED BY <3>1, <3>2, <3>3, EmptySeq DEF McpPcs
    <2> QED BY <2>1, <2>2, <2>3, <2>4 DEF McpLoop
  <1>4. ASSUME NEW t \in McpStreams PROVE McpCarries(t)'
    BY <1>2, <1>3 DEF McpCarries
  <1>5. ASSUME NEW t \in McpStreams PROVE Len(mcpCh'[t]) <= McpCap /\ McpOnce(t)'
    BY <1>2, <1>3 DEF McpOnce
  <1> QED BY <1>2, <1>3, <1>4, <1>5

\* A call moves without being promised an answer on a stream.
LEMMA CallKeeps ==
    ASSUME McpInv, NEW c \in McpCalls,
           NEW r \in [pc : McpCallPcs, kind : {"call", "note", "bad"}, sid : McpStreams \cup {NoStream}],
           mcpCall' = [mcpCall EXCEPT ![c] = r],
           mcpCall[c].pc # "accepted", r.pc = "found" => r.sid \in McpStreams,
           UNCHANGED <<mcpSessions, mcpStream, mcpCh, mcpOut, mcpTaken>>
    PROVE  McpInv'
  <1>1. ASSUME NEW s \in McpStreams PROVE McpOnce(s)'
    <2>1. ASSUME NEW i \in 1..Len(mcpTaken[s]) PROVE mcpCall'[mcpTaken[s][i]].pc = "accepted"
      <3>1. mcpTaken[s][i] \in McpCalls /\ mcpCall[mcpTaken[s][i]].pc = "accepted"
        BY ElementOfSeq DEF McpInv, McpTypes, McpOnce
      <3> QED BY <3>1 DEF McpInv, McpTypes
    <2> QED BY <2>1 DEF McpInv, McpOnce
  <1>2. McpTypes' BY DEF McpInv, McpTypes
  <1>3. \A s \in McpStreams : Len(mcpCh'[s]) <= McpCap /\ McpCarries(s)' BY DEF McpInv, McpCarries
  <1>4. \A d \in McpCalls : mcpCall'[d].pc = "found" => mcpCall'[d].sid \in McpStreams
    BY DEF McpInv, McpTypes
  <1> QED BY <1>1, <1>2, <1>3, <1>4 DEF McpInv

LEMMA CallSteps ==
    ASSUME McpInv, NEW c \in McpCalls,
           \/ \E kind \in {"call", "note", "bad"}, sid \in McpAnnounced \cup {NoStream} : McpPost(c, kind, sid)
           \/ McpInvalid(c) \/ McpDispatch(c) \/ McpGetSession(c)
    PROVE  McpInv'
  <1> DEFINE R == [pc : McpCallPcs, kind : {"call", "note", "bad"}, sid : McpStreams \cup {NoStream}]
  <1>1. mcpCall[c] \in R /\ mcpSessions \subseteq McpStreams BY DEF McpInv, McpTypes
  <1>2. \A pc \in McpCallPcs : [mcpCall[c] EXCEPT !.pc = pc] \in R BY <1>1
  <1>3. \A pc : [mcpCall EXCEPT ![c].pc = pc] = [mcpCall EXCEPT ![c] = [mcpCall[c] EXCEPT !.pc = pc]]
    BY DEF McpInv, McpTypes
  <1>4. \E r \in R : /\ mcpCall' = [mcpCall EXCEPT ![c] = r]
                     /\ mcpCall[c].pc # "accepted" /\ (r.pc = "found" => r.sid \in McpStreams)
    <2>1. CASE \E kind \in {"call", "note", "bad"}, sid \in McpAnnounced \cup {NoStream} : McpPost(c, kind, sid)
      <3>1. PICK kind \in {"call", "note", "bad"}, sid \in McpAnnounced \cup {NoStream} : McpPost(c, kind, sid)
        BY <2>1
      <3>2. [pc |-> "posted", kind |-> kind, sid |-> sid] \in R BY DEF McpAnnounced, McpCallPcs
      <3> QED BY <3>1, <3>2 DEF McpPost
    <2>2. CASE McpInvalid(c) \/ McpDispatch(c)
      <3>1. PICK pc \in {"inline", "noted", "ran"} : mcpCall' = [mcpCall EXCEPT ![c].pc = pc]
        BY <2>2 DEF McpInvalid, McpDispatch, McpStep
      <3>2. mcpCall[c].pc = "posted" BY <2>2 DEF McpInvalid, McpDispatch, McpStep
      <3>3. [mcpCall[c] EXCEPT !.pc = pc] \in R BY <1>2 DEF McpCallPcs
      <3>4. [mcpCall[c] EXCEPT !.pc = pc].pc = pc BY <1>1
      <3> QED BY <1>3, <3>1, <3>2, <3>3, <3>4
    <2>3. CASE McpGetSession(c)
      <3>1. PICK pc \in {"found", "inline"} : /\ mcpCall' = [mcpCall EXCEPT ![c].pc = pc]
                                              /\ pc = "found" => mcpCall[c].sid \in mcpSessions
        BY <2>3 DEF McpGetSession, McpStep
      <3>2. mcpCall[c].pc = "ran" BY <2>3 DEF McpGetSession, McpStep
      <3>3. [mcpCall[c] EXCEPT !.pc = pc] \in R BY <1>2 DEF McpCallPcs
      <3>4. /\ [mcpCall[c] EXCEPT !.pc = pc].pc = pc
            /\ [mcpCall[c] EXCEPT !.pc = pc].sid = mcpCall[c].sid
        BY <1>1
      <3>5. PICK r : r = [mcpCall[c] EXCEPT !.pc = pc] OBVIOUS
      <3>6. r \in R /\ r.pc = pc /\ r.sid = mcpCall[c].sid BY <3>3, <3>4, <3>5
      <3>7. mcpCall' = [mcpCall EXCEPT ![c] = r] BY <3>1, <3>5 DEF McpInv, McpTypes
      <3>8. r.pc = "found" => r.sid \in McpStreams BY <1>1, <3>1, <3>6
      <3> QED BY <3>2, <3>6, <3>7, <3>8
    <2> QED BY <2>1, <2>2, <2>3
  <1>5. UNCHANGED <<mcpSessions, mcpStream, mcpCh, mcpOut, mcpTaken>>
    BY DEF McpPost, McpInvalid, McpDispatch, McpGetSession
  <1> QED BY <1>4, <1>5, CallKeeps

LEMMA SendKeeps ==
    ASSUME McpInv, NEW c \in McpCalls, McpSend(c)
    PROVE  McpInv'
  <1> USE DEF McpTypes, McpInv
  <1> PICK s : s = mcpCall[c].sid OBVIOUS
  <1> DEFINE R == [pc : McpCallPcs, kind : {"call", "note", "bad"}, sid : McpStreams \cup {NoStream}]
  <1>1. mcpCall[c].pc = "found" /\ s \in McpStreams /\ mcpCall[c] \in R BY DEF McpSend, McpStep
  <1>2. \A pc \in McpCallPcs : [mcpCall[c] EXCEPT !.pc = pc] \in R BY <1>1
  <1>3. \A pc : [mcpCall EXCEPT ![c].pc = pc] = [mcpCall EXCEPT ![c] = [mcpCall[c] EXCEPT !.pc = pc]]
    OBVIOUS
  <1>4. CASE ~(Len(mcpCh[s]) < McpCap)
    <2>1. /\ mcpCall' = [mcpCall EXCEPT ![c].pc = "full"]
          /\ UNCHANGED <<mcpSessions, mcpStream, mcpCh, mcpOut, mcpTaken>>
      BY <1>4 DEF McpSend, McpStep
    <2>2. [mcpCall[c] EXCEPT !.pc = "full"] \in R /\ [mcpCall[c] EXCEPT !.pc = "full"].pc = "full"
      BY <1>1, <1>2 DEF McpCallPcs
    <2> QED BY <1>1, <1>3, <2>1, <2>2, CallKeeps
  <1>5. CASE Len(mcpCh[s]) < McpCap
    <2>1. /\ mcpCall' = [mcpCall EXCEPT ![c].pc = "accepted"]
          /\ mcpCh' = [mcpCh EXCEPT ![s] = Append(mcpCh[s], c)]
          /\ mcpTaken' = [mcpTaken EXCEPT ![s] = Append(mcpTaken[s], c)]
          /\ UNCHANGED <<mcpSessions, mcpStream, mcpOut>>
      BY <1>5 DEF McpSend, McpStep
    <2> DEFINE h == mcpCh[s]
               t == mcpTaken[s]
    <2>2. /\ h \in Seq(McpCalls) /\ t \in Seq(McpCalls) /\ mcpOut[s] \in Seq(McpCalls)
          /\ mcpStream[s].msg \in Seq(McpCalls) /\ <<c>> \in Seq(McpCalls)
          /\ Len(h) \in Nat /\ Len(t) \in Nat
      BY <1>1, LenProperties
    <2>3. /\ Append(h, c) \in Seq(McpCalls) /\ Len(Append(h, c)) = Len(h) + 1 /\ Append(h, c) = h \o <<c>>
          /\ Append(t, c) \in Seq(McpCalls) /\ Len(Append(t, c)) = Len(t) + 1 /\ Append(t, c) = t \o <<c>>
          /\ \A i \in 1..Len(t) : Append(t, c)[i] = t[i]
          /\ Append(t, c)[Len(t) + 1] = c
      BY <2>2, AppendProperties, AppendIsConcat
    <2>4. /\ mcpCall' \in [McpCalls -> R] /\ mcpCall'[c].pc = "accepted"
          /\ \A d \in McpCalls \ {c} : mcpCall'[d] = mcpCall[d]
      <3>1. "accepted" \in McpCallPcs BY DEF McpCallPcs
      <3>2. [mcpCall[c] EXCEPT !.pc = "accepted"] \in R BY <1>2, <3>1
      <3>3. [mcpCall[c] EXCEPT !.pc = "accepted"].pc = "accepted" BY <1>1
      <3>4. mcpCall' = [mcpCall EXCEPT ![c] = [mcpCall[c] EXCEPT !.pc = "accepted"]] BY <1>3, <2>1
      <3>5. mcpCall \in [McpCalls -> R] OBVIOUS
      <3> HIDE DEF R
      <3> QED BY <3>2, <3>3, <3>4, <3>5
    <2>5. McpTypes' BY <2>1, <2>3, <2>4
    <2>6. Len(mcpCh'[s]) <= McpCap BY <1>1, <1>5, <2>1, <2>2, <2>3, McpAssumption
    <2>7. McpCarries(s)'
      <3>0. \A v, w \in Seq(McpCalls) : Append(v \o w, c) = v \o Append(w, c)
        BY AppendToConcat
      <3>1. mcpCh'[s] = Append(h, c) /\ mcpTaken'[s] = Append(t, c) BY <1>1, <2>1
      <3> DEFINE x == mcpOut[s] \o mcpStream[s].msg
      <3>2. x \in Seq(McpCalls) BY <2>2, ConcatProperties
      <3>3. mcpStream[s].pc \in McpAlive => mcpTaken'[s] = x \o mcpCh'[s]
        <4>1. mcpStream[s].pc \in McpAlive => t = x \o h BY <1>1 DEF McpCarries
        <4> HIDE DEF x, t, h
        <4>2. Append(x \o h, c) = x \o Append(h, c) BY <2>2, <3>0, <3>2
        <4> QED BY <2>3, <3>1, <4>1, <4>2
      <3>4. PICK rest \in Seq(McpCalls) : t = mcpOut[s] \o rest BY <1>1 DEF McpCarries
      <3>5. Append(rest, c) \in Seq(McpCalls) /\ mcpTaken'[s] = mcpOut[s] \o Append(rest, c)
        <4>1. Append(rest, c) \in Seq(McpCalls) BY AppendProperties
        <4>2. Append(mcpOut[s] \o rest, c) = mcpOut[s] \o Append(rest, c) BY <2>2, <3>0
        <4> QED BY <3>1, <3>4, <4>1, <4>2
      <3>6. mcpStream[s].pc # "write" => mcpStream[s].msg = <<>> BY <1>1 DEF McpCarries
      <3>7. \E more \in Seq(McpCalls) : mcpTaken'[s] = mcpOut'[s] \o more BY <2>1, <3>5
      <3>8. mcpStream' = mcpStream /\ mcpOut' = mcpOut BY <2>1
      <3> QED BY <3>3, <3>6, <3>7, <3>8 DEF McpCarries
    <2>8. ASSUME NEW u \in McpStreams PROVE McpCarries(u)' /\ Len(mcpCh'[u]) <= McpCap
      <3>1. CASE u = s BY <2>6, <2>7, <3>1
      <3>2. CASE u # s
        <4>1. /\ mcpCh'[u] = mcpCh[u] /\ mcpTaken'[u] = mcpTaken[u]
              /\ mcpStream'[u] = mcpStream[u] /\ mcpOut'[u] = mcpOut[u]
          BY <2>1, <3>2
        <4> QED BY <4>1 DEF McpCarries
      <3> QED BY <3>1, <3>2
    <2>9. ASSUME NEW u \in McpStreams PROVE McpOnce(u)'
      <3>1. ASSUME NEW i \in 1..Len(mcpTaken[u])
            PROVE  mcpTaken[u][i] \in McpCalls /\ mcpTaken[u][i] # c /\ mcpCall'[mcpTaken[u][i]].pc = "accepted"
        <4>1. mcpTaken[u][i] \in McpCalls /\ mcpCall[mcpTaken[u][i]].pc = "accepted"
          BY ElementOfSeq DEF McpOnce
        <4> QED BY <1>1, <2>4, <4>1
      <3>2. CASE u # s BY <2>1, <3>1, <3>2 DEF McpOnce
      <3>3. CASE u = s
        <4>1. mcpTaken'[u] = Append(t, c) BY <1>1, <2>1, <3>3
        <4>2. ASSUME NEW i \in 1..Len(Append(t, c))
              PROVE  mcpCall'[Append(t, c)[i]].pc = "accepted"
          BY <2>2, <2>3, <2>4, <3>1, <3>3, SMTT(30)
        <4>3. ASSUME NEW i \in 1..Len(Append(t, c)), NEW j \in 1..Len(Append(t, c)),
                     Append(t, c)[i] = Append(t, c)[j]
              PROVE  i = j
          <5>0. Len(Append(t, c)) = Len(t) + 1 /\ Len(t) \in Nat BY <2>2, <2>3
          <5> HIDE DEF t
          <5>1. \A k \in 1..(Len(t) + 1) : k \in 1..Len(t) \/ k = Len(t) + 1 BY <5>0
          <5>2. /\ i \in 1..Len(t) \/ i = Len(t) + 1
                /\ j \in 1..Len(t) \/ j = Len(t) + 1
            BY <5>0, <5>1
          <5>3. \A k \in 1..Len(t) : Append(t, c)[k] = t[k] /\ t[k] # c BY <2>3, <3>1, <3>3 DEF t
          <5>4. \A k, l \in 1..Len(t) : t[k] = t[l] => k = l BY <1>1 DEF McpOnce, t
          <5> QED BY <2>3, <4>3, <5>1, <5>2, <5>3, <5>4
        <4> QED BY <4>1, <4>2, <4>3 DEF McpOnce
      <3> QED BY <3>2, <3>3
    <2>10. \A d \in McpCalls : mcpCall'[d].pc = "found" => mcpCall'[d].sid \in McpStreams BY <2>4
    <2> QED BY <2>5, <2>8, <2>9, <2>10
  <1> QED BY <1>4, <1>5

LEMMA McpStart == McpInit => McpInv
  <1> SUFFICES ASSUME McpInit PROVE McpInv OBVIOUS
  <1>1. McpTypes BY EmptySeq DEF McpInit, McpTypes, McpPcs, McpCallPcs
  <1>2. ASSUME NEW s \in McpStreams
        PROVE  Len(mcpCh[s]) <= McpCap /\ McpCarries(s) /\ McpOnce(s)
    <2>1. mcpCh[s] = <<>> /\ mcpOut[s] = <<>> /\ mcpTaken[s] = <<>> /\ mcpStream[s] = [pc |-> "none", msg |-> <<>>]
      BY DEF McpInit
    <2>2. <<>> \in Seq(McpCalls) /\ <<>> \o <<>> = <<>> /\ Len(<<>>) = 0 BY EmptySeq, ConcatEmptySeq
    <2>3. McpCarries(s)
      <3>1. mcpTaken[s] = (mcpOut[s] \o mcpStream[s].msg) \o mcpCh[s] BY <2>1, <2>2
      <3>2. \E rest \in Seq(McpCalls) : mcpTaken[s] = mcpOut[s] \o rest BY <2>1, <2>2
      <3> QED BY <2>1, <3>1, <3>2 DEF McpCarries
    <2>4. McpOnce(s) BY <2>1, <2>2 DEF McpOnce
    <2> QED BY <2>1, <2>2, <2>3, <2>4, McpAssumption
  <1>3. \A c \in McpCalls : mcpCall[c].pc # "found" BY DEF McpInit
  <1> QED BY <1>1, <1>2, <1>3 DEF McpInv

LEMMA McpSteps ==
    ASSUME McpInv, [McpNext]_mcpVars PROVE McpInv'
  <1>1. CASE UNCHANGED mcpVars
    BY <1>1 DEF mcpVars, McpInv, McpTypes, McpCarries, McpOnce
  <1>2. CASE McpNext BY <1>2, StreamKeeps, CallSteps, SendKeeps DEF McpNext
  <1> QED BY <1>1, <1>2

\* A sequence that continues another has it as a prefix.
LEMMA ContinuedIsPrefix ==
    ASSUME NEW S, NEW s \in Seq(S), NEW t \in Seq(S) PROVE IsPrefix(s, s \o t)
  <1>1. Len(s) \in Nat /\ Len(t) \in Nat /\ Len(s \o t) = Len(s) + Len(t)
    BY LenProperties, ConcatProperties
  <1>2. CASE Len(s) = 0
    BY <1>1, <1>2, SubSeqEmpty DEF IsPrefix
  <1>3. CASE Len(s) > 0
    <2>1. 1 \in 1..Len(s) /\ Len(s) \in 1..Len(s) BY <1>1, <1>3
    <2> QED BY <1>1, <2>1, SubSeqOfConcat1 DEF IsPrefix
  <1> QED BY <1>1, <1>2, <1>3

LEMMA McpTypesHold == McpInit /\ [][McpNext]_mcpVars => []McpTypeOK
  <1>1. McpInv => McpTypeOK
    <2> SUFFICES ASSUME McpInv PROVE McpTypeOK OBVIOUS
    <2>1. \A c \in McpCalls : mcpCall[c].pc \in McpCallPcs BY DEF McpInv, McpTypes
    <2> QED BY <2>1 DEF McpInv, McpTypes, McpTypeOK, McpCallPcs
  <1> QED BY <1>1, McpStart, McpSteps, PTL

\* The channels of the MCP transport hold calls and stay within their capacity.
THEOREM McpTypeCorrect == McpSpec => []McpTypeOK
  BY McpTypesHold, PTL DEF McpSpec

\* Each promised answer is written once, in order, and never inline as well
\* (handleSSE, handleMessage), however posts, streams and their ends interleave.
THEOREM McpAnswersEachOnce == McpSpec => []McpAnswersOnce
  <1>1. McpInv => McpAnswersOnce
    <2> SUFFICES ASSUME McpInv, NEW s \in McpStreams
                 PROVE  /\ IsPrefix(mcpOut[s], mcpTaken[s])
                        /\ mcpStream[s].pc \in {"endpoint", "select", "write"} =>
                               mcpOut[s] \o mcpStream[s].msg \o mcpCh[s] = mcpTaken[s]
                        /\ \A i, j \in DOMAIN mcpTaken[s] : mcpTaken[s][i] = mcpTaken[s][j] => i = j
                        /\ \A c \in ToSet(mcpTaken[s]) : mcpCall[c].pc = "accepted"
      BY DEF McpAnswersOnce
    <2>1. mcpTaken[s] \in Seq(McpCalls) /\ mcpOut[s] \in Seq(McpCalls) BY DEF McpInv, McpTypes
    <2>2. IsPrefix(mcpOut[s], mcpTaken[s]) BY <2>1, ContinuedIsPrefix DEF McpInv, McpCarries
    <2>3. DOMAIN mcpTaken[s] = 1..Len(mcpTaken[s]) BY <2>1, LenProperties
    <2>4. McpCarries(s) /\ McpOnce(s) BY DEF McpInv
    <2>5. \A c \in ToSet(mcpTaken[s]) : mcpCall[c].pc = "accepted"
      BY <2>3, <2>4 DEF McpOnce, ToSet
    <2> QED BY <2>2, <2>3, <2>4, <2>5 DEF McpCarries, McpAlive, McpOnce
  <1> QED BY <1>1, McpStart, McpSteps, PTL DEF McpSpec

(***************************************************************************)
(* Discovery.  A scan that has collected its context holds the hosts of    *)
(* its resolved subnets, as latest_hosts still has them: no other scan     *)
(* runs, so nobody writes them meanwhile.                                  *)
(***************************************************************************)
ScanPcs == {"none", "trigger", "refused", "named", "context", "collect", "targets", "probe",
            "outcomes", "rogue", "analyzed", "persist", "stored", "completed", "publish",
            "finish", "ended"}
RunningPcs == ScanPcs \ {"none", "trigger", "refused", "ended"}
Gathered == {"targets", "probe"}
Observed == {"outcomes", "rogue", "analyzed", "persist"}

KnownRecords == [mac : KnownMacs, subnet : Subnets \cup {DNone}]
HostTable(f) == DOMAIN f \subseteq IPs /\ \A ip \in DOMAIN f : f[ip] \in HostRecords
KnownTable(f) == DOMAIN f \subseteq IPs /\ \A ip \in DOMAIN f : f[ip] \in KnownRecords

\* The hosts a scan of the subnets starts from, the addresses inside them, and
\* the hosts that are in a subnet by their address or by their record.
InScope(hosts, nets) == {ip \in DOMAIN hosts : ipMatchesSubnets(ip, hosts[ip].subnet, nets)}
Covered(ip, nets) == nets = {} \/ \E s \in nets : ip \in Nets[s]
Within(hosts, ip, nets) == ipMatchesSubnets(ip, hosts[ip].subnet, nets)

ScanShape(r) ==
    r \in [pc : ScanPcs, scope : SUBSET Subnets, resolved : SUBSET Subnets, prev : {r.prev},
           known : {r.known}, conflicts : SUBSET IPs, hosts : {r.hosts}]

ScanOK(i, r, hosts, scans) ==
    /\ ScanShape(r)
    /\ HostTable(r.prev) /\ KnownTable(r.known) /\ HostTable(r.hosts)
    /\ r.pc \in Gathered \cup Observed => r.resolved \subseteq r.scope
    /\ r.pc \in Gathered => /\ DOMAIN r.prev = InScope(hosts, r.resolved)
                            /\ \A ip \in DOMAIN r.known : Within(r.known, ip, r.resolved)
    /\ r.pc \in Observed => /\ InScope(hosts, r.resolved) \subseteq DOMAIN r.hosts
                            /\ \A ip \in DOMAIN r.hosts :
                                  Within(r.hosts, ip, r.resolved) \/ ip \in InScope(hosts, r.resolved)
    /\ r.pc = "stored" => \E c \in SUBSET IPs : <<i, c>> \in scans

DiscShape ==
    /\ dmem \in [scanning : BOOLEAN, inProgress : BOOLEAN, phase : {dmem.phase},
                 latestID : Scans \cup {DNone}, rogue : {dmem.rogue}]
    /\ ddisk \in [scans : {ddisk.scans}, hosts : {ddisk.hosts}, latest : Scans \cup {DNone},
                  rogue : {ddisk.rogue}]
    /\ HostTable(ddisk.hosts)
    /\ dscan = [i \in Scans |-> dscan[i]]

DiscCounts ==
    /\ waiter \in Scans \cup {"rogue", DNone}
    /\ dleft \in [edits : 0..DMaxEdits, rogues : 0..DMaxRogues, faults : 0..DMaxFaults]
    /\ ipamNets \subseteq Subnets

\* One scan runs or none does.
OneOrNone ==
    /\ \/ dmem.scanning = TRUE /\ \E i \in Scans : Running(i) /\ \A j \in Scans : Running(j) => j = i
       \/ dmem.scanning = FALSE /\ dmem.inProgress = FALSE /\ \A i \in Scans : ~Running(i)

StoredID(id) == id = DNone \/ \E c \in SUBSET IPs : <<id, c>> \in ddisk.scans

DiscInv ==
    /\ DiscShape /\ DiscCounts /\ OneOrNone
    /\ \A i \in Scans : ScanOK(i, dscan[i], ddisk.hosts, ddisk.scans)
    /\ StoredID(dmem.latestID) /\ StoredID(ddisk.latest)

(***************************************************************************)
(* What a scan computes.                                                   *)
(***************************************************************************)
LEMMA FilterFacts ==
    ASSUME NEW f, NEW nets
    PROVE  /\ DOMAIN filterHosts(f, nets) = InScope(f, nets)
           /\ \A ip \in InScope(f, nets) : filterHosts(f, nets)[ip] = f[ip]
  BY DEF filterHosts, Restrict, InScope

LEMMA MacsKnown ==
    /\ DNone \in KnownMacs
    /\ \A l \in LeaseTables : \A ip \in DOMAIN l : l[ip].mac \in KnownMacs
    /\ \A t \in ReservationTables \cup ArpTables : \A ip \in DOMAIN t : t[ip] \in KnownMacs
  <1>1. ASSUME NEW l \in LeaseTables, NEW ip \in DOMAIN l PROVE l[ip].mac \in KnownMacs
    <2>1. l[ip].mac \in MacsOf(l) BY DEF MacsOf
    <2>2. MacsOf(l) \in {MacsOf(k) : k \in LeaseTables} OBVIOUS
    <2> QED BY <2>1, <2>2, Zenon DEF KnownMacs
  <1>2. ASSUME NEW r \in ReservationTables \cup ArpTables, NEW ip \in DOMAIN r PROVE r[ip] \in KnownMacs
    <2>1. r[ip] \in Range(r) BY DEF Range
    <2>2. PICK a, b, u : /\ a = {DNone} /\ b = UNION {MacsOf(l) : l \in LeaseTables}
                         /\ u = UNION {Range(t) : t \in ReservationTables \cup ArpTables}
      OBVIOUS
    <2>3. KnownMacs = a \cup b \cup u BY <2>2, Zenon DEF KnownMacs
    <2>4. Range(r) \in {Range(t) : t \in ReservationTables \cup ArpTables} OBVIOUS
    <2>5. r[ip] \in u BY <2>1, <2>2, <2>4, Zenon
    <2> QED BY <2>3, <2>5
  <1>3. DNone \in KnownMacs BY Zenon DEF KnownMacs
  <1> QED BY <1>1, <1>2, <1>3

LEMMA KnownHostsFacts ==
    ASSUME NEW l \in LeaseTables, NEW r \in ReservationTables, NEW nets \in SUBSET Subnets
    PROVE  LET known == filterHosts(collectKnownHosts(l, r), nets)
           IN  KnownTable(known) /\ \A ip \in DOMAIN known : Within(known, ip, nets)
  <1> DEFINE all == collectKnownHosts(l, r)
             known == filterHosts(all, nets)
  <1>1. DOMAIN l \subseteq IPs /\ DOMAIN r \subseteq IPs BY TablesAssumption
  <1>2. \A ip \in IPs : HomeOf(ip) \in Subnets /\ ip \in Nets[HomeOf(ip)] BY DEF IPs, HomeOf
  <1>3. DOMAIN all = DOMAIN l \cup DOMAIN r
    BY DEF collectKnownHosts
  <1>4. ASSUME NEW ip \in DOMAIN all PROVE all[ip] \in KnownRecords
    <2> DEFINE named == ip \in DOMAIN l /\ l[ip].subnet # DNone
               mac == IF ip \in DOMAIN l THEN l[ip].mac ELSE r[ip]
               sub == IF named THEN l[ip].subnet ELSE IF ip \in DOMAIN r THEN HomeOf(ip) ELSE DNone
    <2>1. all[ip] = [mac |-> mac, subnet |-> sub] BY <1>3 DEF collectKnownHosts
    <2>4. mac \in KnownMacs BY <1>3, MacsKnown
    <2>5. sub \in Subnets \cup {DNone} BY <1>1, <1>2, TablesAssumption
    <2> HIDE DEF mac, sub
    <2> QED BY <2>1, <2>4, <2>5 DEF KnownRecords
  <1> HIDE DEF all
  <1>5. DOMAIN known = InScope(all, nets) /\ \A ip \in InScope(all, nets) : known[ip] = all[ip] BY FilterFacts
  <1>6. KnownTable(known) BY <1>1, <1>3, <1>4, <1>5 DEF KnownTable, InScope
  <1>7. \A ip \in DOMAIN known : Within(known, ip, nets) BY <1>5 DEF InScope, Within
  <1> QED BY <1>6, <1>7 DEF all

LEMMA WithARPFacts ==
    ASSUME NEW known, KnownTable(known), NEW a \in ArpTables, NEW nets \in SUBSET Subnets,
           \A ip \in DOMAIN known : Within(known, ip, nets)
    PROVE  /\ KnownTable(WithARP(known, a, nets))
           /\ \A ip \in DOMAIN WithARP(known, a, nets) : Within(WithARP(known, a, nets), ip, nets)
  <1> DEFINE new == {ip \in DOMAIN a \ DOMAIN known : ipMatchesSubnets(ip, DNone, nets)}
             all == WithARP(known, a, nets)
  <1>1. /\ DOMAIN all = DOMAIN known \cup new
        /\ \A ip \in DOMAIN known \cup new :
              all[ip] = IF ip \in new THEN [mac |-> a[ip], subnet |-> DNone] ELSE known[ip]
    BY DEF WithARP
  <1>2. DOMAIN a \subseteq IPs BY TablesAssumption
  <1>4. \A ip \in new : [mac |-> a[ip], subnet |-> DNone] \in KnownRecords BY MacsKnown DEF KnownRecords
  <1>5. KnownTable(all) BY <1>1, <1>2, <1>4 DEF KnownTable
  <1>6. ASSUME NEW ip \in new PROVE Within(all, ip, nets)
    <2>1. all[ip].subnet = DNone
      <3> HIDE DEF all
      <3>1. all[ip] = [mac |-> a[ip], subnet |-> DNone] BY <1>1
      <3> QED BY <3>1
    <2>2. ipMatchesSubnets(ip, DNone, nets) OBVIOUS
    <2> QED BY <2>1, <2>2, Zenon DEF Within
  <1>7. \A ip \in DOMAIN known \ new : Within(all, ip, nets) BY <1>1 DEF Within
  <1> QED BY <1>1, <1>5, <1>6, <1>7

LEMMA ObservedFacts ==
    ASSUME NEW known, KnownTable(known), NEW prev, HostTable(prev), NEW nets \in SUBSET Subnets,
           \A ip \in DOMAIN known : Within(known, ip, nets), NEW alive, NEW named
    PROVE  LET hosts == ObservedHosts(known, prev, buildTargets(nets, known, prev), alive, named)
           IN  /\ HostTable(hosts) /\ DOMAIN prev \subseteq DOMAIN hosts
               /\ \A ip \in DOMAIN hosts : Within(hosts, ip, nets) \/ ip \in DOMAIN prev
  <1> DEFINE targets == buildTargets(nets, known, prev)
             seen == {ip \in targets : ip \in DOMAIN known \cup alive}
             hosts == ObservedHosts(known, prev, targets, alive, named)
             found(ip) == [mac |-> IF ip \in DOMAIN known THEN known[ip].mac ELSE DNone,
                           subnet |-> IF ip \in DOMAIN known THEN known[ip].subnet ELSE DNone,
                           state |-> deriveState(ip, known, prev, alive, named)]
  <1>1. /\ DOMAIN hosts = seen \cup DOMAIN prev
        /\ \A ip \in seen \cup DOMAIN prev :
              hosts[ip] = IF ip \in seen THEN found(ip) ELSE [prev[ip] EXCEPT !.state = "missing"]
    BY DEF ObservedHosts
  <1>2. ASSUME NEW ip \in targets
        PROVE  ip \in IPs /\ (ip \in DOMAIN known \/ Covered(ip, nets) \/ ip \in DOMAIN prev)
    <2>1. CASE ip \in DOMAIN known BY <2>1 DEF KnownTable
    <2>2. CASE ip \in DOMAIN prev BY <2>2 DEF HostTable
    <2>3. ASSUME NEW s \in nets, ip \in PoolTargets(s) PROVE ip \in IPs /\ Covered(ip, nets)
      <3>1. ip \in Nets[s] /\ s \in Subnets BY <2>3, TablesAssumption DEF PoolTargets
      <3> QED BY <3>1 DEF IPs, Covered
    <2> QED BY <2>1, <2>2, <2>3 DEF buildTargets
  <1>3. ASSUME NEW ip \in seen PROVE found(ip) \in HostRecords
    <2>1. deriveState(ip, known, prev, alive, named) \in HostStates BY DEF deriveState, HostStates
    <2>2. ip \in DOMAIN known => known[ip] \in KnownRecords BY DEF KnownTable
    <2> HIDE DEF targets
    <2> QED BY <2>1, <2>2, MacsKnown DEF HostRecords, KnownRecords
  <1>4. ASSUME NEW ip \in DOMAIN prev PROVE [prev[ip] EXCEPT !.state = "missing"] \in HostRecords
    <2>1. prev[ip] \in HostRecords BY DEF HostTable
    <2> QED BY <2>1 DEF HostRecords, HostStates
  <1> HIDE DEF targets, hosts, found
  <1>5. \A ip \in DOMAIN prev : ip \in IPs BY DEF HostTable
  <1>6. HostTable(hosts) BY <1>1, <1>2, <1>3, <1>4, <1>5 DEF HostTable
  <1>7. ASSUME NEW ip \in DOMAIN hosts PROVE Within(hosts, ip, nets) \/ ip \in DOMAIN prev
    <2>1. CASE ip \in DOMAIN prev BY <2>1
    <2>2. CASE ip \in seen /\ ip \in DOMAIN known
      <3>1. found(ip).subnet = known[ip].subnet BY <2>2 DEF found
      <3>2. hosts[ip].subnet = known[ip].subnet BY <1>1, <2>2, <3>1
      <3> QED BY <2>2, <3>2 DEF Within
    <2>3. CASE ip \in seen /\ Covered(ip, nets) BY <2>3 DEF Within, Covered, ipMatchesSubnets
    <2> QED BY <1>1, <1>2, <2>1, <2>2, <2>3
  <1> QED BY <1>1, <1>6, <1>7 DEF hosts, targets

(***************************************************************************)
(* The steps, by what they do to the scans, the store and the flags.       *)
(***************************************************************************)
SamePrivate ==
    /\ dmem'.scanning = dmem.scanning /\ dmem'.inProgress = dmem.inProgress
    /\ dmem'.latestID = dmem.latestID

\* Nobody's scan moves and no host is stored.
Beside ==
    /\ DiscShape' /\ SamePrivate
    /\ dscan' = dscan
    /\ ddisk'.hosts = ddisk.hosts /\ ddisk'.scans = ddisk.scans /\ ddisk'.latest = ddisk.latest

\* A running scan goes on.
Walks(i) ==
    /\ DiscShape' /\ ddisk' = ddisk
    /\ \E r : /\ dscan' = [dscan EXCEPT ![i] = r] /\ r.pc \in RunningPcs
              /\ ScanOK(i, r, ddisk.hosts, ddisk.scans)
    /\ Running(i)
    /\ dmem'.scanning = dmem.scanning /\ dmem'.inProgress \in {dmem.inProgress, FALSE}
    /\ dmem'.latestID \in {dmem.latestID} \cup (IF dscan[i].pc = "stored" THEN {i} ELSE {})

\* A call is made, or refused.
Aside(i) ==
    /\ DiscShape' /\ ddisk' = ddisk /\ SamePrivate
    /\ \E r : /\ dscan' = [dscan EXCEPT ![i] = r] /\ r.pc \in {"trigger", "refused"}
              /\ ScanOK(i, r, ddisk.hosts, ddisk.scans)
    /\ ~Running(i)

\* A scan begins, or ends.
Enters(i) ==
    /\ DiscShape' /\ ddisk' = ddisk /\ dmem'.latestID = dmem.latestID
    /\ \E r : /\ dscan' = [dscan EXCEPT ![i] = r] /\ r.pc = "named"
              /\ ScanOK(i, r, ddisk.hosts, ddisk.scans)
    /\ dmem.scanning = FALSE /\ dmem'.scanning = TRUE

Leaves(i) ==
    /\ DiscShape' /\ ddisk' = ddisk /\ dmem'.latestID = dmem.latestID
    /\ \E r : /\ dscan' = [dscan EXCEPT ![i] = r] /\ r.pc = "ended"
              /\ ScanOK(i, r, ddisk.hosts, ddisk.scans)
    /\ Running(i)
    /\ dmem'.scanning = FALSE /\ dmem'.inProgress = FALSE

LEMMA ScanMoved ==
    ASSUME DiscInv, DiscShape', NEW i \in Scans, NEW r, dscan' = [dscan EXCEPT ![i] = r],
           ScanOK(i, r, ddisk.hosts, ddisk.scans), ddisk' = ddisk
    PROVE  /\ \A j \in Scans : ScanOK(j, dscan'[j], ddisk'.hosts, ddisk'.scans)
           /\ dscan'[i] = r /\ \A j \in Scans \ {i} : dscan'[j] = dscan[j]
  <1>1. dscan'[i] = r /\ \A j \in Scans \ {i} : dscan'[j] = dscan[j] BY DEF DiscInv, DiscShape
  <1> QED BY <1>1 DEF DiscInv

LEMMA BesideKeeps == ASSUME DiscInv, Beside, DiscCounts' PROVE DiscInv'
  <1>1. OneOrNone' BY DEF DiscInv, Beside, SamePrivate, OneOrNone, Running
  <1>2. \A i \in Scans : ScanOK(i, dscan[i], ddisk.hosts, ddisk.scans)' BY DEF DiscInv, Beside
  <1> QED BY <1>1, <1>2 DEF DiscInv, Beside, SamePrivate, StoredID

LEMMA WalksKeeps == ASSUME DiscInv, NEW i \in Scans, Walks(i), DiscCounts' PROVE DiscInv'
  <1>1. PICK r : /\ dscan' = [dscan EXCEPT ![i] = r] /\ r.pc \in RunningPcs
                 /\ ScanOK(i, r, ddisk.hosts, ddisk.scans)
    BY DEF Walks
  <1>2. DiscShape' /\ ddisk' = ddisk BY DEF Walks
  <1>3. /\ \A j \in Scans : ScanOK(j, dscan'[j], ddisk'.hosts, ddisk'.scans)
        /\ dscan'[i] = r /\ \A j \in Scans \ {i} : dscan'[j] = dscan[j]
    BY <1>1, <1>2, ScanMoved
  <1>4. \A j \in Scans : Running(j)' <=> Running(j)
    BY <1>1, <1>3 DEF Running, Walks, RunningPcs
  <1>5. OneOrNone'
    <2>1. dmem.scanning = TRUE /\ \A j \in Scans : Running(j) => j = i BY DEF DiscInv, OneOrNone, Walks
    <2>2. dmem'.scanning = TRUE BY <2>1 DEF Walks
    <2>3. Running(i)' BY <1>4 DEF Walks
    <2> QED BY <1>4, <2>1, <2>2, <2>3 DEF OneOrNone
  <1>6. StoredID(dmem.latestID)' /\ StoredID(ddisk.latest)'
    <2>1. ASSUME dscan[i].pc = "stored" PROVE \E c \in SUBSET IPs : <<i, c>> \in ddisk.scans
      BY <2>1 DEF DiscInv, ScanOK
    <2> QED BY <1>2, <2>1 DEF DiscInv, Walks, StoredID
  <1> QED BY <1>2, <1>3, <1>5, <1>6 DEF DiscInv

LEMMA AsideKeeps == ASSUME DiscInv, NEW i \in Scans, Aside(i), DiscCounts' PROVE DiscInv'
  <1>1. PICK r : /\ dscan' = [dscan EXCEPT ![i] = r] /\ r.pc \in {"trigger", "refused"}
                 /\ ScanOK(i, r, ddisk.hosts, ddisk.scans)
    BY DEF Aside
  <1>2. DiscShape' /\ ddisk' = ddisk /\ SamePrivate BY DEF Aside
  <1>3. /\ \A j \in Scans : ScanOK(j, dscan'[j], ddisk'.hosts, ddisk'.scans)
        /\ dscan'[i] = r /\ \A j \in Scans \ {i} : dscan'[j] = dscan[j]
    BY <1>1, <1>2, ScanMoved
  <1>4. \A j \in Scans : Running(j)' <=> Running(j) BY <1>1, <1>3 DEF Running, Aside
  <1>5. OneOrNone' BY <1>2, <1>4 DEF SamePrivate, DiscInv, OneOrNone
  <1> QED BY <1>2, <1>3, <1>5 DEF DiscInv, SamePrivate, StoredID

LEMMA EntersKeeps == ASSUME DiscInv, NEW i \in Scans, Enters(i), DiscCounts' PROVE DiscInv'
  <1>1. PICK r : /\ dscan' = [dscan EXCEPT ![i] = r] /\ r.pc = "named"
                 /\ ScanOK(i, r, ddisk.hosts, ddisk.scans)
    BY DEF Enters
  <1>2. DiscShape' /\ ddisk' = ddisk /\ dmem'.latestID = dmem.latestID BY DEF Enters
  <1>3. /\ \A j \in Scans : ScanOK(j, dscan'[j], ddisk'.hosts, ddisk'.scans)
        /\ dscan'[i] = r /\ \A j \in Scans \ {i} : dscan'[j] = dscan[j]
    BY <1>1, <1>2, ScanMoved
  <1>4. Running(i)' /\ \A j \in Scans \ {i} : Running(j)' <=> Running(j) BY <1>1, <1>3 DEF Running
  <1>5. OneOrNone'
    <2>1. \A j \in Scans : ~Running(j) BY DEF Enters, DiscInv, OneOrNone
    <2> QED BY <1>4, <2>1 DEF Enters, OneOrNone
  <1> QED BY <1>2, <1>3, <1>5 DEF DiscInv, StoredID

LEMMA LeavesKeeps == ASSUME DiscInv, NEW i \in Scans, Leaves(i), DiscCounts' PROVE DiscInv'
  <1>1. PICK r : /\ dscan' = [dscan EXCEPT ![i] = r] /\ r.pc = "ended"
                 /\ ScanOK(i, r, ddisk.hosts, ddisk.scans)
    BY DEF Leaves
  <1>2. DiscShape' /\ ddisk' = ddisk /\ dmem'.latestID = dmem.latestID BY DEF Leaves
  <1>3. /\ \A j \in Scans : ScanOK(j, dscan'[j], ddisk'.hosts, ddisk'.scans)
        /\ dscan'[i] = r /\ \A j \in Scans \ {i} : dscan'[j] = dscan[j]
    BY <1>1, <1>2, ScanMoved
  <1>4. ~Running(i)' /\ \A j \in Scans \ {i} : Running(j)' <=> Running(j) BY <1>1, <1>3 DEF Running
  <1>5. OneOrNone'
    <2>1. \A j \in Scans : Running(j) => j = i BY DEF Leaves, DiscInv, OneOrNone
    <2> QED BY <1>4, <2>1 DEF Leaves, OneOrNone
  <1> QED BY <1>2, <1>3, <1>5 DEF DiscInv, StoredID

\* The lock's queue and the bounds, over every step.
LEMMA CountsKept == ASSUME DiscInv, [DiscNext]_discVars PROVE DiscCounts'
  <1> USE DEF DiscInv
  <1>1. waiter' \in Scans \cup {"rogue", DNone}
    <2>1. ASSUME NEW i \in Scans, ScanStep(i) \/ \E req \in Requests : CallTrigger(i, req)
          PROVE  waiter' \in {waiter, DNone, i}
      BY <2>1 DEF ScanStep, Trigger, UpdateProgress, ReadLocked, CollectInput, Collect, ProbeOutcome, Probe,
         PersistOutcome, Persist, SetLatest, Completed, MarkScanDone, AwaitLock, CallTrigger, Locked, Await
    <2>2. ASSUME RogueStep \/ (\E p \in Pollers : StatusEnter(p) \/ StatusLeave(p)) \/ RestartDiscovery
                 \/ (\E ip \in RogueIPs : InspectPacket(ip)) \/ (\E s \in Subnets : EditSubnet(s))
          PROVE  waiter' \in {waiter, DNone, "rogue"}
      BY <2>2 DEF RogueStep, RecordRogue, AwaitRogue, RogueTx, StatusEnter, StatusLeave, RestartDiscovery,
         InspectPacket, EditSubnet, Locked, Await
    <2> QED BY <2>1, <2>2 DEF DiscNext, discVars, DiscCounts
  <1>2. dleft' \in [edits : 0..DMaxEdits, rogues : 0..DMaxRogues, faults : 0..DMaxFaults]
    <2> DEFINE D == [edits : 0..DMaxEdits, rogues : 0..DMaxRogues, faults : 0..DMaxFaults]
    <2>0. dleft \in D BY DEF DiscCounts
    <2>1. /\ dleft.edits > 0 => [dleft EXCEPT !.edits = @ - 1] \in D
          /\ dleft.rogues > 0 => [dleft EXCEPT !.rogues = @ - 1] \in D
          /\ dleft.faults > 0 => [dleft EXCEPT !.faults = @ - 1] \in D
      BY <2>0, DiscoveryAssumption
    <2>2. ASSUME NEW i \in Scans, ScanStep(i) \/ \E req \in Requests : CallTrigger(i, req)
          PROVE  dleft' \in D
      <3>1. ASSUME NEW n \in 0..3, Persist(i, n) PROVE dleft' \in D
        <4>1. CASE n < 3
          <5>1. dleft.faults > 0 /\ dleft' = [dleft EXCEPT !.faults = @ - 1] BY <3>1, <4>1 DEF Persist
          <5> QED BY <2>1, <5>1
        <4>2. CASE ~(n < 3)
          <5>1. dleft' = [dleft EXCEPT !.faults = @] BY <3>1, <4>2 DEF Persist
          <5> QED BY <2>0, <5>1
        <4> QED BY <4>1, <4>2
      <3>2. CASE dleft' = dleft BY <2>0, <3>2
      <3> QED BY <2>2, <3>1, <3>2 DEF ScanStep, Trigger, UpdateProgress, ReadLocked, CollectInput, Collect,
         ProbeOutcome, Probe, PersistOutcome, SetLatest, Completed, MarkScanDone, AwaitLock, CallTrigger, Await
    <2>3. ASSUME RogueStep PROVE dleft' \in D
      <3>1. ASSUME NEW ok \in BOOLEAN, RogueTx(ok) PROVE dleft' \in D
        <4>1. CASE ok = TRUE
          <5>1. dleft' = [dleft EXCEPT !.faults = @] BY <3>1, <4>1 DEF RogueTx
          <5> QED BY <2>0, <5>1
        <4>2. CASE ok = FALSE
          <5>1. dleft.faults > 0 /\ dleft' = [dleft EXCEPT !.faults = @ - 1] BY <3>1, <4>2 DEF RogueTx
          <5> QED BY <2>1, <5>1
        <4> QED BY <4>1, <4>2
      <3> QED BY <2>0, <2>3, <3>1 DEF RogueStep, RecordRogue, AwaitRogue, Await
    <2>4. ASSUME (\E p \in Pollers : StatusEnter(p) \/ StatusLeave(p)) \/ RestartDiscovery
                 \/ (\E ip \in RogueIPs : InspectPacket(ip)) \/ (\E s \in Subnets : EditSubnet(s))
          PROVE  dleft' \in D
      BY <2>0, <2>1, <2>4 DEF StatusEnter, StatusLeave, RestartDiscovery, InspectPacket, EditSubnet
    <2> QED BY <2>0, <2>2, <2>3, <2>4 DEF DiscNext, discVars
  <1>3. ipamNets' \subseteq Subnets
    <2>1. ASSUME NEW s \in Subnets, EditSubnet(s) PROVE ipamNets' \subseteq Subnets
      BY <2>1 DEF EditSubnet, DiscCounts
    <2>2. ASSUME NEW i \in Scans, ScanStep(i) \/ \E req \in Requests : CallTrigger(i, req)
          PROVE  ipamNets' = ipamNets
      BY <2>2 DEF ScanStep, Trigger, UpdateProgress, ReadLocked, CollectInput, Collect, ProbeOutcome, Probe,
         PersistOutcome, Persist, SetLatest, Completed, MarkScanDone, AwaitLock, CallTrigger, Await
    <2>3. ASSUME RogueStep \/ (\E p \in Pollers : StatusEnter(p) \/ StatusLeave(p)) \/ RestartDiscovery
                 \/ (\E ip \in RogueIPs : InspectPacket(ip))
          PROVE  ipamNets' = ipamNets
      BY <2>3 DEF RogueStep, RecordRogue, AwaitRogue, RogueTx, StatusEnter, StatusLeave, RestartDiscovery,
         InspectPacket, Await
    <2> QED BY <2>1, <2>2, <2>3 DEF DiscNext, discVars, DiscCounts
  <1> QED BY <1>1, <1>2, <1>3 DEF DiscCounts

\* A scan that moves on keeps what it holds.
LEMMA PcMoves ==
    ASSUME NEW i, NEW d, NEW hosts, NEW scans, ScanOK(i, d, hosts, scans), NEW p \in ScanPcs,
           p \in Gathered => d.pc \in Gathered, p \in Observed => d.pc \in Observed, p # "stored"
    PROVE  ScanOK(i, [d EXCEPT !.pc = p], hosts, scans) /\ [d EXCEPT !.pc = p].pc = p
  <1> DEFINE r == [d EXCEPT !.pc = p]
  <1>1. ScanShape(d) BY DEF ScanOK
  <1>2. /\ r.pc = p /\ r.scope = d.scope /\ r.resolved = d.resolved /\ r.prev = d.prev
        /\ r.known = d.known /\ r.conflicts = d.conflicts /\ r.hosts = d.hosts
    BY <1>1 DEF ScanShape
  <1>3. ScanShape(r) BY <1>1 DEF ScanShape
  <1> HIDE DEF r
  <1>4. ScanOK(i, r, hosts, scans) BY <1>2, <1>3 DEF ScanOK, Gathered, Observed
  <1> QED BY <1>2, <1>4 DEF r

\* A scan that has not collected anything, or has ended.
LEMMA BlankScan ==
    ASSUME NEW i, NEW hosts, NEW scans, NEW p \in {"none", "ended"}
    PROVE  ScanOK(i, [NoScan EXCEPT !.pc = p], hosts, scans) /\ [NoScan EXCEPT !.pc = p].pc = p
  <1> DEFINE r == [NoScan EXCEPT !.pc = p]
  <1>1. r = [pc |-> p, scope |-> {}, resolved |-> {}, prev |-> <<>>, known |-> <<>>, conflicts |-> {},
             hosts |-> <<>>]
    <2>1. \A e : [[pc |-> "none", scope |-> {}, resolved |-> {}, prev |-> e, known |-> e, conflicts |-> {},
                   hosts |-> e] EXCEPT !.pc = p]
               = [pc |-> p, scope |-> {}, resolved |-> {}, prev |-> e, known |-> e, conflicts |-> {}, hosts |-> e]
      OBVIOUS
    <2>2. PICK e : e = <<>> OBVIOUS
    <2> QED BY <2>1, <2>2 DEF NoScan
  <1>2. DOMAIN <<>> = {} OBVIOUS
  <1>3. ScanShape(r) BY <1>1 DEF ScanShape, ScanPcs
  <1> QED BY <1>1, <1>2, <1>3 DEF ScanOK, HostTable, KnownTable, Gathered, Observed

LEMMA ProgressSteps ==
    /\ DOMAIN ProgressAfter = {"named", "targets", "outcomes", "analyzed"}
    /\ ProgressAfter["named"][2] = "context" /\ ProgressAfter["targets"][2] = "probe"
    /\ ProgressAfter["outcomes"][2] = "rogue" /\ ProgressAfter["analyzed"][2] = "persist"
    /\ DOMAIN ReadAfter = {"context", "rogue", "publish"}
    /\ ReadAfter["context"] = "collect" /\ ReadAfter["rogue"] = "analyzed" /\ ReadAfter["publish"] = "finish"
  <1>1. DOMAIN ProgressAfter = {"named", "targets", "outcomes", "analyzed"} BY DEF ProgressAfter
  <1>2. /\ ProgressAfter["named"][2] = "context" /\ ProgressAfter["targets"][2] = "probe"
        /\ ProgressAfter["outcomes"][2] = "rogue" /\ ProgressAfter["analyzed"][2] = "persist"
    BY DEF ProgressAfter
  <1>3. DOMAIN ReadAfter = {"context", "rogue", "publish"} BY DEF ReadAfter
  <1>4. ReadAfter["context"] = "collect" /\ ReadAfter["rogue"] = "analyzed" /\ ReadAfter["publish"] = "finish"
    BY DEF ReadAfter
  <1> QED BY <1>1, <1>2, <1>3, <1>4

LEMMA ScanSteps ==
    ASSUME DiscInv, NEW i \in Scans,
           \/ Trigger(i) \/ UpdateProgress(i) \/ ReadLocked(i) \/ SetLatest(i) \/ Completed(i)
           \/ MarkScanDone(i) \/ AwaitLock(i)
           \/ \E req \in Requests : CallTrigger(i, req)
    PROVE  Beside \/ Walks(i) \/ Aside(i) \/ Enters(i) \/ Leaves(i)
  <1> DEFINE d == dscan[i]
  <1> USE DEF DiscInv
  <1>1. ScanOK(i, d, ddisk.hosts, ddisk.scans) /\ ScanShape(d) BY DEF ScanOK
  <1>2. \A r : [dscan EXCEPT ![i] = r] = [j \in Scans |-> [dscan EXCEPT ![i] = r][j]] BY DEF DiscShape
  <1>3. \A p : [dscan EXCEPT ![i].pc = p] = [dscan EXCEPT ![i] = [d EXCEPT !.pc = p]] BY DEF DiscShape
  <1>4. \A p \in ScanPcs : /\ p \in Gathered => d.pc \in Gathered
                           /\ p \in Observed => d.pc \in Observed
                           /\ p # "stored"
            => ScanOK(i, [d EXCEPT !.pc = p], ddisk.hosts, ddisk.scans) /\ [d EXCEPT !.pc = p].pc = p
    BY <1>1, PcMoves
  <1>5. /\ dmem.scanning \in BOOLEAN /\ dmem.inProgress \in BOOLEAN /\ dmem.latestID \in Scans \cup {DNone}
    BY DEF DiscShape
  <1>6. CASE Trigger(i)
    <2>0. d.pc = "trigger" /\ ddisk' = ddisk BY <1>6 DEF Trigger
    <2>1. ~Running(i) BY <2>0 DEF Running
    <2>2. CASE dmem.scanning = TRUE
      <3>1. dscan' = [dscan EXCEPT ![i] = [d EXCEPT !.pc = "refused"]] /\ dmem' = dmem
        BY <1>3, <1>6, <2>2 DEF Trigger, Moves
      <3>2. /\ ScanOK(i, [d EXCEPT !.pc = "refused"], ddisk.hosts, ddisk.scans)
            /\ [d EXCEPT !.pc = "refused"].pc = "refused"
        BY <1>4 DEF ScanPcs, Gathered, Observed
      <3>3. DiscShape' BY <1>2, <2>0, <3>1 DEF DiscShape
      <3> QED BY <2>0, <2>1, <3>1, <3>2, <3>3 DEF Aside, SamePrivate
    <2>3. CASE dmem.scanning = FALSE
      <3>1. /\ dscan' = [dscan EXCEPT ![i] = [d EXCEPT !.pc = "named"]]
            /\ dmem' = [dmem EXCEPT !.scanning = TRUE, !.inProgress = TRUE, !.phase = "initializing"]
        BY <1>3, <1>6, <2>3 DEF Trigger, Moves
      <3>2. /\ ScanOK(i, [d EXCEPT !.pc = "named"], ddisk.hosts, ddisk.scans)
            /\ [d EXCEPT !.pc = "named"].pc = "named"
        BY <1>4 DEF ScanPcs, Gathered, Observed
      <3>3. DiscShape' BY <1>2, <2>0, <3>1 DEF DiscShape
      <3>4. dmem'.scanning = TRUE /\ dmem'.latestID = dmem.latestID BY <3>1 DEF DiscShape
      <3> QED BY <2>0, <2>3, <3>1, <3>2, <3>3, <3>4 DEF Enters
    <2> QED BY <1>5, <2>2, <2>3
  <1>7. CASE UpdateProgress(i)
    <2>0. ddisk' = ddisk BY <1>7 DEF UpdateProgress
    <2>1. PICK p : /\ dscan' = [dscan EXCEPT ![i].pc = p]
                   /\ \/ d.pc = "named" /\ p = "context"
                      \/ d.pc = "targets" /\ p = "probe"
                      \/ d.pc = "outcomes" /\ p = "rogue"
                      \/ d.pc = "analyzed" /\ p = "persist"
      <3>1. d.pc \in DOMAIN ProgressAfter /\ dscan' = [dscan EXCEPT ![i].pc = ProgressAfter[d.pc][2]]
        BY <1>7 DEF UpdateProgress, Moves
      <3> QED BY <3>1, ProgressSteps
    <2>2. PICK ph : dmem' = [dmem EXCEPT !.phase = ph] BY <1>7 DEF UpdateProgress
    <2>3. /\ ScanOK(i, [d EXCEPT !.pc = p], ddisk.hosts, ddisk.scans)
          /\ [d EXCEPT !.pc = p].pc = p
      BY <1>4, <2>1, SMTT(30) DEF ScanPcs, Gathered, Observed
    <2>4. DiscShape' BY <1>2, <1>3, <2>0, <2>1, <2>2 DEF DiscShape
    <2>5. dmem'.scanning = dmem.scanning /\ dmem'.inProgress = dmem.inProgress /\ dmem'.latestID = dmem.latestID
      BY <2>2 DEF DiscShape
    <2>6. Running(i) /\ p \in RunningPcs BY <2>1 DEF Running, RunningPcs, ScanPcs
    <2>7. dscan' = [dscan EXCEPT ![i] = [d EXCEPT !.pc = p]] BY <1>3, <2>1
    <2>8. Walks(i) BY <2>0, <2>3, <2>4, <2>5, <2>6, <2>7 DEF Walks
    <2> QED BY <2>8
  <1>8. CASE ReadLocked(i)
    <2>0. ddisk' = ddisk /\ dmem' = dmem BY <1>8 DEF ReadLocked
    <2>1. PICK p : /\ dscan' = [dscan EXCEPT ![i].pc = p]
                   /\ \/ d.pc = "context" /\ p = "collect"
                      \/ d.pc = "rogue" /\ p = "analyzed"
                      \/ d.pc = "publish" /\ p = "finish"
      <3>1. d.pc \in DOMAIN ReadAfter /\ dscan' = [dscan EXCEPT ![i].pc = ReadAfter[d.pc]]
        BY <1>8 DEF ReadLocked, Moves
      <3> QED BY <3>1, ProgressSteps
    <2>3. /\ ScanOK(i, [d EXCEPT !.pc = p], ddisk.hosts, ddisk.scans)
          /\ [d EXCEPT !.pc = p].pc = p
      BY <1>4, <2>1 DEF ScanPcs, Gathered, Observed
    <2>4. DiscShape' BY <1>2, <1>3, <2>0, <2>1 DEF DiscShape
    <2>6. Running(i) /\ p \in RunningPcs BY <2>1 DEF Running, RunningPcs, ScanPcs
    <2>7. dscan' = [dscan EXCEPT ![i] = [d EXCEPT !.pc = p]] BY <1>3, <2>1
    <2>8. Walks(i) BY <2>0, <2>3, <2>4, <2>6, <2>7 DEF Walks
    <2> QED BY <2>8
  <1>9. CASE SetLatest(i) \/ Completed(i)
    <2>0. ddisk' = ddisk BY <1>9 DEF SetLatest, Completed
    <2>1. PICK p : /\ dscan' = [dscan EXCEPT ![i].pc = p]
                   /\ \/ d.pc = "stored" /\ p = "completed" /\ dmem' = [dmem EXCEPT !.latestID = i]
                      \/ d.pc = "completed" /\ p = "publish"
                         /\ dmem' = [dmem EXCEPT !.phase = "completed", !.inProgress = FALSE]
      BY <1>9 DEF SetLatest, Completed, Moves
    <2>3. /\ ScanOK(i, [d EXCEPT !.pc = p], ddisk.hosts, ddisk.scans)
          /\ [d EXCEPT !.pc = p].pc = p
      BY <1>4, <2>1 DEF ScanPcs, Gathered, Observed
    <2>4. DiscShape'
      <3>1. dmem' \in [scanning : BOOLEAN, inProgress : BOOLEAN, phase : {dmem'.phase},
                       latestID : Scans \cup {DNone}, rogue : {dmem'.rogue}]
        BY <2>1 DEF DiscShape
      <3> QED BY <1>2, <1>3, <2>0, <2>1, <3>1 DEF DiscShape
    <2>5. /\ dmem'.scanning = dmem.scanning /\ dmem'.inProgress \in {dmem.inProgress, FALSE}
          /\ dmem'.latestID = dmem.latestID \/ (d.pc = "stored" /\ dmem'.latestID = i)
      BY <2>1 DEF DiscShape
    <2>6. Running(i) /\ p \in RunningPcs BY <2>1 DEF Running, RunningPcs, ScanPcs
    <2>7. dscan' = [dscan EXCEPT ![i] = [d EXCEPT !.pc = p]] BY <1>3, <2>1
    <2>8. Walks(i) BY <2>0, <2>3, <2>4, <2>5, <2>6, <2>7 DEF Walks
    <2> QED BY <2>8
  <1>10. CASE MarkScanDone(i)
    <2> DEFINE r == [NoScan EXCEPT !.pc = "ended"]
    <2>1. /\ d.pc = "finish" /\ ddisk' = ddisk /\ dscan' = [dscan EXCEPT ![i] = r]
          /\ dmem' = [dmem EXCEPT !.scanning = FALSE, !.inProgress = FALSE]
      BY <1>10 DEF MarkScanDone
    <2>2. ScanOK(i, r, ddisk.hosts, ddisk.scans) /\ r.pc = "ended" BY BlankScan
    <2> HIDE DEF r
    <2>3. DiscShape' BY <1>2, <2>1 DEF DiscShape
    <2>4. dmem'.scanning = FALSE /\ dmem'.inProgress = FALSE /\ dmem'.latestID = dmem.latestID
      BY <2>1 DEF DiscShape
    <2>5. Running(i) BY <2>1 DEF Running
    <2> QED BY <2>1, <2>2, <2>3, <2>4, <2>5 DEF Leaves
  <1>11. CASE AwaitLock(i)
    BY <1>11 DEF AwaitLock, Await, Beside, SamePrivate, DiscShape
  <1>12. ASSUME NEW req \in Requests, CallTrigger(i, req) PROVE Aside(i)
    <2> DEFINE r == [d EXCEPT !.pc = "trigger", !.scope = req]
    <2>1. d.pc = "none" /\ ddisk' = ddisk /\ dmem' = dmem BY <1>12 DEF CallTrigger
    <2>2. dscan' = [dscan EXCEPT ![i] = r] BY <1>12 DEF CallTrigger, DiscShape
    <2>3. req \in SUBSET Subnets BY DiscoveryAssumption
    <2>4. ScanShape(r) BY <1>1, <2>3 DEF ScanShape, ScanPcs
    <2>5. r.pc = "trigger" /\ r.prev = d.prev /\ r.known = d.known /\ r.hosts = d.hosts BY <1>1 DEF ScanShape
    <2> HIDE DEF r
    <2>6. ScanOK(i, r, ddisk.hosts, ddisk.scans)
      BY <1>1, <2>4, <2>5 DEF ScanOK, Gathered, Observed
    <2>7. ~Running(i) BY <2>1 DEF Running
    <2>8. DiscShape' BY <1>2, <2>1, <2>2 DEF DiscShape
    <2> QED BY <2>1, <2>2, <2>5, <2>6, <2>7, <2>8 DEF Aside, SamePrivate
  <1> QED BY <1>6, <1>7, <1>8, <1>9, <1>10, <1>11, <1>12

LEMMA CollectWalks ==
    ASSUME DiscInv, NEW i \in Scans, CollectInput(i) PROVE Walks(i)
  <1> DEFINE d == dscan[i]
  <1> USE DEF DiscInv
  <1>0. PICK l \in LeaseTables, rt \in ReservationTables, a \in ArpTables : Collect(i, l, rt, a)
    BY DEF CollectInput
  <1>1. ScanOK(i, d, ddisk.hosts, ddisk.scans) /\ ScanShape(d) BY DEF ScanOK
  <1> DEFINE nets == resolveTargetSubnets(d.scope)
             scope == IF d.scope = {} THEN nets ELSE d.scope
             base == filterHosts(collectKnownHosts(l, rt), nets)
             prev == filterHosts(ddisk.hosts, nets)
             known == IF "arp" \in Methods THEN WithARP(base, a, nets) ELSE base
             confl == collectConflicts(l, rt, nets)
             r == [d EXCEPT !.pc = "targets", !.scope = scope, !.resolved = nets,
                            !.prev = prev, !.known = known, !.conflicts = confl]
  <1>2. d.pc = "collect" /\ ddisk' = ddisk /\ dmem' = dmem BY <1>0 DEF Collect
  <1>3. dscan' = [dscan EXCEPT ![i] = r]
    <2>1. dscan' = [dscan EXCEPT
             ![i] = [@ EXCEPT !.pc = "targets", !.scope = scope, !.resolved = nets,
                              !.prev = prev, !.known = known, !.conflicts = confl]]
      BY <1>0 DEF Collect
    <2> HIDE DEF nets, scope, prev, known, confl
    <2> QED BY <2>1
  <1>4. nets \in SUBSET Subnets /\ scope \in SUBSET Subnets /\ nets \subseteq scope
    BY <1>1 DEF resolveTargetSubnets, DiscCounts, ScanShape
  <1>5. confl \in SUBSET IPs BY TablesAssumption DEF collectConflicts
  <1>6. DOMAIN prev = InScope(ddisk.hosts, nets) /\ HostTable(prev)
    <2>1. DOMAIN prev = InScope(ddisk.hosts, nets) /\ \A ip \in InScope(ddisk.hosts, nets) : prev[ip] = ddisk.hosts[ip]
      BY FilterFacts
    <2>2. InScope(ddisk.hosts, nets) \subseteq DOMAIN ddisk.hosts BY DEF InScope
    <2> HIDE DEF prev
    <2> QED BY <2>1, <2>2 DEF HostTable, DiscShape
  <1>7. KnownTable(known) /\ \A ip \in DOMAIN known : Within(known, ip, nets)
    <2>1. KnownTable(base) /\ \A ip \in DOMAIN base : Within(base, ip, nets) BY <1>4, KnownHostsFacts
    <2> HIDE DEF base, nets
    <2>2. /\ KnownTable(WithARP(base, a, nets))
          /\ \A ip \in DOMAIN WithARP(base, a, nets) : Within(WithARP(base, a, nets), ip, nets)
      BY <1>4, <2>1, WithARPFacts
    <2> QED BY <2>1, <2>2
  <1> HIDE DEF nets, scope, prev, known, confl
  <1>8. ScanShape(r) BY <1>1, <1>4, <1>5 DEF ScanShape, ScanPcs
  <1>9. /\ r.pc = "targets" /\ r.scope = scope /\ r.resolved = nets /\ r.prev = prev
        /\ r.known = known /\ r.hosts = d.hosts
    BY <1>1 DEF ScanShape, scope
  <1> HIDE DEF r
  <1>10. ScanOK(i, r, ddisk.hosts, ddisk.scans)
    BY <1>1, <1>4, <1>6, <1>7, <1>8, <1>9 DEF ScanOK, Gathered, Observed
  <1>11. DiscShape' BY <1>2, <1>3 DEF DiscShape
  <1>12. Running(i) /\ r.pc \in RunningPcs BY <1>2, <1>9 DEF Running, RunningPcs, ScanPcs
  <1> QED BY <1>2, <1>3, <1>10, <1>11, <1>12 DEF Walks

LEMMA ProbeWalks ==
    ASSUME DiscInv, NEW i \in Scans, ProbeOutcome(i) PROVE Walks(i)
  <1> DEFINE d == dscan[i]
  <1> USE DEF DiscInv
  <1>0. PICK alive \in SUBSET IPs, named \in SUBSET IPs : Probe(i, alive, named) BY DEF ProbeOutcome
  <1>1. ScanOK(i, d, ddisk.hosts, ddisk.scans) /\ ScanShape(d) BY DEF ScanOK
  <1> DEFINE hosts == ObservedHosts(d.known, d.prev, buildTargets(d.resolved, d.known, d.prev), alive, named)
             r == [d EXCEPT !.pc = "outcomes", !.prev = <<>>, !.known = <<>>, !.hosts = hosts]
  <1>2. d.pc = "probe" /\ ddisk' = ddisk /\ dmem' = dmem BY <1>0 DEF Probe
  <1>3. dscan' = [dscan EXCEPT ![i] = r] BY <1>0 DEF Probe, DiscShape
  <1>4. /\ d.resolved \in SUBSET Subnets /\ d.resolved \subseteq d.scope
        /\ HostTable(d.prev) /\ KnownTable(d.known)
        /\ DOMAIN d.prev = InScope(ddisk.hosts, d.resolved)
        /\ \A ip \in DOMAIN d.known : Within(d.known, ip, d.resolved)
    BY <1>1, <1>2 DEF ScanOK, ScanShape, Gathered
  <1>5. /\ HostTable(hosts) /\ DOMAIN d.prev \subseteq DOMAIN hosts
        /\ \A ip \in DOMAIN hosts : Within(hosts, ip, d.resolved) \/ ip \in DOMAIN d.prev
    BY <1>4, ObservedFacts
  <1> HIDE DEF hosts
  <1>6. PICK e : e = <<>> OBVIOUS
  <1>7. r = [d EXCEPT !.pc = "outcomes", !.prev = e, !.known = e, !.hosts = hosts] BY <1>6
  <1>8. DOMAIN e = {} BY <1>6
  <1>9. ScanShape(r) BY <1>1, <1>7 DEF ScanShape, ScanPcs
  <1>10. /\ r.pc = "outcomes" /\ r.scope = d.scope /\ r.resolved = d.resolved /\ r.prev = e
         /\ r.known = e /\ r.hosts = hosts
    BY <1>1, <1>7 DEF ScanShape
  <1> HIDE DEF r
  <1>11. ScanOK(i, r, ddisk.hosts, ddisk.scans)
    BY <1>4, <1>5, <1>8, <1>9, <1>10 DEF ScanOK, Gathered, Observed, HostTable, KnownTable
  <1>12. DiscShape' BY <1>2, <1>3 DEF DiscShape
  <1>13. Running(i) /\ r.pc \in RunningPcs BY <1>2, <1>10 DEF Running, RunningPcs, ScanPcs
  <1> QED BY <1>2, <1>3, <1>11, <1>12, <1>13 DEF Walks

\* What a transaction leaves in the store, whole or cut short.
LEMMA StoredByPersist ==
    ASSUME DiscInv, NEW i \in Scans, NEW n \in 0..3, Persist(i, n)
    PROVE  /\ ddisk' \in [scans : {ddisk'.scans}, hosts : {ddisk'.hosts}, latest : Scans \cup {DNone},
                          rogue : {ddisk'.rogue}]
           /\ ddisk'.hosts = IF n \in {2, 3} THEN PersistedHosts(ddisk.hosts, dscan[i].scope, dscan[i].hosts)
                             ELSE ddisk.hosts
           /\ ddisk.scans \subseteq ddisk'.scans
           /\ n = 3 => <<i, dscan[i].conflicts>> \in ddisk'.scans
           /\ ddisk'.latest = IF n = 3 THEN i ELSE ddisk.latest
  <1> DEFINE new == ddisk.scans \cup {<<i, dscan[i].conflicts>>}
             hosts == PersistedHosts(ddisk.hosts, dscan[i].scope, dscan[i].hosts)
             p1 == [ddisk EXCEPT !.scans = new]
             p2 == [ddisk EXCEPT !.scans = new, !.hosts = hosts]
             p3 == [ddisk EXCEPT !.scans = new, !.hosts = hosts, !.latest = i]
  <1>1. DiscShape BY DEF DiscInv
  <1>2. PersistPuts(i)[1] = p1 /\ PersistPuts(i)[2] = p2 /\ PersistPuts(i)[3] = p3
    <2>1. PersistPuts(i) = <<p1, p2, p3>> BY DEF PersistPuts
    <2>2. \A a, b, c : <<a, b, c>>[1] = a /\ <<a, b, c>>[2] = b /\ <<a, b, c>>[3] = c OBVIOUS
    <2> HIDE DEF p1, p2, p3
    <2> QED BY <2>1, <2>2
  <1>3. ddisk' = IF n = 0 THEN ddisk ELSE PersistPuts(i)[n] BY DEF Persist
  <1>4. ddisk.scans \subseteq new /\ <<i, dscan[i].conflicts>> \in new OBVIOUS
  <1> HIDE DEF new, hosts
  <1>5. CASE n = 0 BY <1>1, <1>3, <1>5 DEF DiscShape
  <1>6. CASE n = 1
    <2>1. ddisk' = p1 BY <1>2, <1>3, <1>6
    <2> QED BY <1>1, <1>4, <1>6, <2>1 DEF DiscShape
  <1>7. CASE n = 2
    <2>1. ddisk' = p2 BY <1>2, <1>3, <1>7
    <2>2. ddisk'.hosts = hosts BY <1>1, <2>1 DEF DiscShape
    <2>3. ddisk'.hosts = PersistedHosts(ddisk.hosts, dscan[i].scope, dscan[i].hosts) BY <2>2 DEF hosts
    <2>4. /\ ddisk' \in [scans : {ddisk'.scans}, hosts : {ddisk'.hosts}, latest : Scans \cup {DNone},
                          rogue : {ddisk'.rogue}]
          /\ ddisk'.scans = new /\ ddisk'.latest = ddisk.latest
      BY <1>1, <2>1 DEF DiscShape
    <2> QED BY <1>4, <1>7, <2>3, <2>4
  <1>8. CASE n = 3
    <2>1. ddisk' = p3 BY <1>2, <1>3, <1>8
    <2>2. ddisk'.hosts = hosts BY <1>1, <2>1 DEF DiscShape
    <2>3. ddisk'.hosts = PersistedHosts(ddisk.hosts, dscan[i].scope, dscan[i].hosts) BY <2>2 DEF hosts
    <2> QED BY <1>1, <1>4, <1>8, <2>1, <2>3 DEF DiscShape
  <1> QED BY <1>5, <1>6, <1>7, <1>8

LEMMA PersistedFacts ==
    ASSUME NEW old, HostTable(old), NEW hosts, HostTable(hosts), NEW scope
    PROVE  HostTable(PersistedHosts(old, scope, hosts))
  BY DEF PersistedHosts, HostTable

\* A scan that does not run does not depend on the stored hosts.
LEMMA IdleScan ==
    ASSUME NEW i, NEW r, NEW hosts, NEW scans, ScanOK(i, r, hosts, scans), NEW hosts2, NEW scans2,
           r.pc \in {"none", "trigger", "refused", "ended"}
    PROVE  ScanOK(i, r, hosts2, scans2)
  BY DEF ScanOK, Gathered, Observed

LEMMA PersistKeeps == ASSUME DiscInv, NEW i \in Scans, PersistOutcome(i), DiscCounts' PROVE DiscInv'
  <1> DEFINE d == dscan[i]
  <1>0. PICK n \in 0..3 : Persist(i, n) BY DEF PersistOutcome
  <1>1. d.pc = "persist" /\ dmem' = dmem BY <1>0 DEF Persist
  <1>2. PICK p : p = (IF n = 3 THEN "stored" ELSE "completed") /\ dscan' = [dscan EXCEPT ![i].pc = p]
    BY <1>0 DEF Persist, Moves
  <1>3. DiscShape /\ ScanOK(i, d, ddisk.hosts, ddisk.scans) /\ ScanShape(d) BY DEF DiscInv, ScanOK
  <1>4. HostTable(ddisk'.hosts)
    <2>1. HostTable(ddisk.hosts) /\ HostTable(d.hosts) BY <1>3 DEF ScanOK, DiscShape
    <2>2. HostTable(PersistedHosts(ddisk.hosts, d.scope, d.hosts)) BY <2>1, PersistedFacts
    <2>3. ddisk'.hosts \in {ddisk.hosts, PersistedHosts(ddisk.hosts, d.scope, d.hosts)}
      BY <1>0, StoredByPersist
    <2> QED BY <2>1, <2>2, <2>3
  <1>5. /\ dscan' = [j \in Scans |-> dscan'[j]] /\ dscan'[i] = [d EXCEPT !.pc = p]
        /\ \A j \in Scans \ {i} : dscan'[j] = dscan[j]
    BY <1>2, <1>3 DEF DiscShape
  <1>6. DiscShape' BY <1>0, <1>1, <1>3, <1>4, <1>5, StoredByPersist DEF DiscShape
  <1>7. Running(i) /\ p \in {"stored", "completed"} BY <1>1, <1>2 DEF Running
  <1>8. [d EXCEPT !.pc = p].pc = p BY <1>3 DEF ScanShape
  <1>9. \A j \in Scans : Running(j)' <=> Running(j) BY <1>5, <1>7, <1>8 DEF Running
  <1>10. OneOrNone' BY <1>1, <1>9 DEF DiscInv, OneOrNone
  <1>11. \A j \in Scans \ {i} : ~Running(j) BY <1>7 DEF DiscInv, OneOrNone
  <1>12. ASSUME NEW j \in Scans \ {i} PROVE ScanOK(j, dscan[j], ddisk'.hosts, ddisk'.scans)
    BY <1>11, IdleScan DEF DiscInv, Running
  <1>13. ScanOK(i, [d EXCEPT !.pc = p], ddisk'.hosts, ddisk'.scans)
    <2> DEFINE r == [d EXCEPT !.pc = p]
    <2>1. /\ r.prev = d.prev /\ r.known = d.known /\ r.hosts = d.hosts /\ ScanShape(r)
      BY <1>3, <1>7 DEF ScanShape, ScanPcs
    <2>2. p = "stored" => \E c \in SUBSET IPs : <<i, c>> \in ddisk'.scans
      BY <1>0, <1>2, <1>3, StoredByPersist DEF ScanShape
    <2> HIDE DEF r
    <2>3. r.pc = p BY <1>8 DEF r
    <2>4. ScanOK(i, r, ddisk'.hosts, ddisk'.scans)
      BY <1>3, <1>7, <2>1, <2>2, <2>3 DEF ScanOK, Gathered, Observed
    <2> QED BY <2>4 DEF r
  <1>14. \A j \in Scans : ScanOK(j, dscan[j], ddisk.hosts, ddisk.scans)'
    BY <1>5, <1>12, <1>13
  <1>15. StoredID(dmem.latestID)' BY <1>0, <1>1, StoredByPersist DEF StoredID, DiscInv
  <1>16. StoredID(ddisk.latest)'
    <2>1. CASE n = 3
      <3>1. d.conflicts \in SUBSET IPs BY <1>3 DEF ScanShape
      <3> QED BY <1>0, <2>1, <3>1, StoredByPersist DEF StoredID
    <2>2. CASE n # 3 BY <1>0, <2>2, StoredByPersist DEF StoredID, DiscInv
    <2> QED BY <2>1, <2>2
  <1> QED BY <1>6, <1>10, <1>14, <1>15, <1>16 DEF DiscInv

LEMMA NothingScanned == NoScan = [NoScan EXCEPT !.pc = "none"]
  <1>1. \A e : [[pc |-> "none", scope |-> {}, resolved |-> {}, prev |-> e, known |-> e, conflicts |-> {},
                 hosts |-> e] EXCEPT !.pc = "none"]
             = [pc |-> "none", scope |-> {}, resolved |-> {}, prev |-> e, known |-> e, conflicts |-> {}, hosts |-> e]
    OBVIOUS
  <1>2. PICK e : e = <<>> OBVIOUS
  <1> QED BY <1>1, <1>2 DEF NoScan

LEMMA RestartKeeps == ASSUME DiscInv, RestartDiscovery, DiscCounts' PROVE DiscInv'
  <1>1. /\ ddisk' = ddisk /\ dmem' = loadMeta
        /\ dscan' = [i \in Scans |-> IF dscan[i].pc = "none" THEN NoScan ELSE [NoScan EXCEPT !.pc = "ended"]]
    BY DEF RestartDiscovery
  <1>2. NoScan = [NoScan EXCEPT !.pc = "none"] BY NothingScanned
  <1>3. \A i \in Scans : \E p \in {"none", "ended"} : dscan'[i] = [NoScan EXCEPT !.pc = p]
    <2> HIDE DEF NoScan
    <2> QED BY <1>1, <1>2
  <1>4. \A i \in Scans : /\ ScanOK(i, dscan'[i], ddisk'.hosts, ddisk'.scans)
                         /\ dscan'[i].pc \in {"none", "ended"}
    <2> SUFFICES ASSUME NEW i \in Scans
                 PROVE  ScanOK(i, dscan'[i], ddisk'.hosts, ddisk'.scans) /\ dscan'[i].pc \in {"none", "ended"}
      OBVIOUS
    <2>1. PICK p \in {"none", "ended"} : dscan'[i] = [NoScan EXCEPT !.pc = p] BY <1>3
    <2>2. /\ ScanOK(i, [NoScan EXCEPT !.pc = p], ddisk'.hosts, ddisk'.scans)
          /\ [NoScan EXCEPT !.pc = p].pc = p
      BY BlankScan
    <2> QED BY <2>1, <2>2
  <1>5. /\ dmem'.scanning = FALSE /\ dmem'.inProgress = FALSE /\ dmem'.latestID = ddisk.latest
        /\ dmem' \in [scanning : BOOLEAN, inProgress : BOOLEAN, phase : {dmem'.phase},
                      latestID : Scans \cup {DNone}, rogue : {dmem'.rogue}]
    BY <1>1 DEF loadMeta, DiscInv, DiscShape
  <1>6. dscan' = [i \in Scans |-> dscan'[i]] BY <1>1
  <1>7. DiscShape' BY <1>1, <1>5, <1>6 DEF DiscInv, DiscShape
  <1>8. OneOrNone' BY <1>4, <1>5 DEF OneOrNone, Running
  <1> QED BY <1>1, <1>4, <1>5, <1>7, <1>8 DEF DiscInv, StoredID

LEMMA OthersBeside ==
    ASSUME DiscInv,
           \/ \E p \in Pollers : StatusEnter(p) \/ StatusLeave(p)
           \/ \E ip \in RogueIPs : InspectPacket(ip)
           \/ RogueStep
           \/ \E s \in Subnets : EditSubnet(s)
           \/ UNCHANGED discVars
    PROVE  Beside
  <1>1. DiscShape BY DEF DiscInv
  <1>2. CASE UNCHANGED <<dmem, ddisk, dscan>> BY <1>1, <1>2 DEF Beside, SamePrivate, DiscShape
  <1>3. CASE RecordRogue
    <2>1. PICK x : dmem' = [dmem EXCEPT !.rogue = x] BY <1>3 DEF RecordRogue
    <2>2. ddisk' = ddisk /\ dscan' = dscan BY <1>3 DEF RecordRogue
    <2> QED BY <1>1, <2>1, <2>2 DEF Beside, SamePrivate, DiscShape
  <1>4. ASSUME NEW ok \in BOOLEAN, RogueTx(ok) PROVE Beside
    <2>1. ddisk' = ddisk \/ ddisk' = [ddisk EXCEPT !.rogue = dmem.rogue] BY <1>4 DEF RogueTx
    <2>2. dmem' = dmem /\ dscan' = dscan BY <1>4 DEF RogueTx
    <2> QED BY <1>1, <2>1, <2>2 DEF Beside, SamePrivate, DiscShape
  <1>5. ASSUME \/ \E p \in Pollers : StatusEnter(p) \/ StatusLeave(p)
               \/ \E ip \in RogueIPs : InspectPacket(ip)
               \/ AwaitRogue
               \/ \E s \in Subnets : EditSubnet(s)
               \/ UNCHANGED discVars
        PROVE  UNCHANGED <<dmem, ddisk, dscan>>
    BY <1>5 DEF StatusEnter, StatusLeave, InspectPacket, AwaitRogue, Await, EditSubnet, discVars
  <1> QED BY <1>2, <1>3, <1>4, <1>5 DEF RogueStep

LEMMA DiscStart == DiscInit => DiscInv
  <1> SUFFICES ASSUME DiscInit PROVE DiscInv OBVIOUS
  <1>1. NoScan = [NoScan EXCEPT !.pc = "none"] BY NothingScanned
  <1>2. dscan = [i \in Scans |-> NoScan] BY DEF DiscInit
  <1>3. \A i \in Scans : ScanOK(i, dscan[i], ddisk.hosts, ddisk.scans) /\ dscan[i].pc = "none"
    <2>1. \A i \in Scans : dscan[i] = [NoScan EXCEPT !.pc = "none"] BY <1>1, <1>2
    <2>2. \A i \in Scans : /\ ScanOK(i, [NoScan EXCEPT !.pc = "none"], ddisk.hosts, ddisk.scans)
                           /\ [NoScan EXCEPT !.pc = "none"].pc = "none"
      BY BlankScan
    <2> QED BY <2>1, <2>2
  <1>4. PICK e : e = <<>> OBVIOUS
  <1>5. /\ dmem = [scanning |-> FALSE, inProgress |-> FALSE, phase |-> "idle", latestID |-> DNone, rogue |-> e]
        /\ ddisk = [scans |-> {}, hosts |-> NoHosts, latest |-> DNone, rogue |-> e]
    BY <1>4 DEF DiscInit
  <1>6. HostTable(NoHosts) BY DEF HostTable, NoHosts
  <1>7. DiscShape BY <1>2, <1>5, <1>6 DEF DiscShape
  <1>8. DiscCounts BY DiscoveryAssumption DEF DiscInit, DiscCounts
  <1>9. OneOrNone BY <1>3, <1>5 DEF OneOrNone, Running
  <1>10. StoredID(dmem.latestID) /\ StoredID(ddisk.latest) BY <1>5 DEF StoredID
  <1> QED BY <1>3, <1>7, <1>8, <1>9, <1>10 DEF DiscInv

LEMMA DiscSteps == DiscInv /\ [DiscNext]_discVars => DiscInv'
  <1> SUFFICES ASSUME DiscInv, [DiscNext]_discVars PROVE DiscInv' OBVIOUS
  <1>1. DiscCounts' BY CountsKept
  <1>2. ASSUME NEW i \in Scans, ScanStep(i) \/ \E req \in Requests : CallTrigger(i, req) PROVE DiscInv'
    <2>1. CASE CollectInput(i) \/ ProbeOutcome(i)
      BY <1>1, <2>1, CollectWalks, ProbeWalks, WalksKeeps
    <2>2. CASE PersistOutcome(i) BY <1>1, <2>2, PersistKeeps
    <2>3. CASE \/ Trigger(i) \/ UpdateProgress(i) \/ ReadLocked(i) \/ SetLatest(i) \/ Completed(i)
               \/ MarkScanDone(i) \/ AwaitLock(i)
               \/ \E req \in Requests : CallTrigger(i, req)
      <3>1. Beside \/ Walks(i) \/ Aside(i) \/ Enters(i) \/ Leaves(i) BY <2>3, ScanSteps
      <3> QED BY <1>1, <3>1, BesideKeeps, WalksKeeps, AsideKeeps, EntersKeeps, LeavesKeeps
    <2> QED BY <1>2, <2>1, <2>2, <2>3 DEF ScanStep
  <1>3. CASE RestartDiscovery BY <1>1, <1>3, RestartKeeps
  <1>4. ASSUME \/ \E p \in Pollers : StatusEnter(p) \/ StatusLeave(p)
               \/ \E ip \in RogueIPs : InspectPacket(ip)
               \/ RogueStep
               \/ \E s \in Subnets : EditSubnet(s)
               \/ UNCHANGED discVars
        PROVE  DiscInv'
    BY <1>1, <1>4, OthersBeside, BesideKeeps
  <1> QED BY <1>2, <1>3, <1>4 DEF DiscNext

-----------------------------------------------------------------------------
(* What TriggerScan, runScan, persistResult and loadMeta guarantee.        *)

LEMMA DiscTypesHold == DiscInit /\ [][DiscNext]_discVars => []DiscTypeOK
  <1>1. DiscInv => DiscTypeOK BY DEF DiscInv, DiscShape, DiscCounts, HostTable, DiscTypeOK
  <1> QED BY <1>1, DiscStart, DiscSteps, PTL

\* Stored hosts are well formed (persistResult), and the engine's fields and
\* the queue of e.mu keep their types.
THEOREM DiscTypeCorrect == DiscSpec => []DiscTypeOK
  BY DiscTypesHold, PTL DEF DiscSpec

\* At most one scan gets past TriggerScan's check, whoever triggers it, and
\* the scan named as the latest one, in memory and in the store, is stored,
\* whatever part of persistResult's transaction was logged (LatestResult).
THEOREM ScansStayConsistent == DiscSpec => []ScansConsistent
  <1>1. ASSUME DiscInv PROVE OneScan
    <2>1. OneOrNone BY <1>1 DEF DiscInv
    <2>2. dmem.scanning \in BOOLEAN /\ dmem.inProgress \in BOOLEAN BY <1>1 DEF DiscInv, DiscShape
    <2>3. \A i, j \in Scans : Running(i) /\ Running(j) => i = j BY <2>1 DEF OneOrNone
    <2>4. dmem.scanning <=> \E i \in Scans : Running(i) BY <2>1, Zenon DEF OneOrNone
    <2>5. dmem.inProgress => dmem.scanning BY <2>1, <2>2 DEF OneOrNone
    <2> QED BY <2>3, <2>4, <2>5 DEF OneScan
  <1>2. DiscInv => LatestStored BY DEF DiscInv, StoredID, LatestStored
  <1>3. DiscInv => ScansConsistent BY <1>1, <1>2 DEF ScansConsistent
  <1> QED BY <1>3, DiscStart, DiscSteps, PTL DEF DiscSpec

HostsStep ==
    \A ip \in DOMAIN ddisk.hosts :
       \/ ip \in DOMAIN ddisk'.hosts /\ ddisk'.hosts[ip] = ddisk.hosts[ip]
       \/ \E i \in Scans :
             LET in(host) == ipMatchesSubnets(ip, host.subnet, dscan[i].scope)
             IN  /\ Stores(i)
                 /\ IF ip \in DOMAIN ddisk'.hosts
                    THEN in(ddisk.hosts[ip]) \/ in(ddisk'.hosts[ip]) \/ dscan[i].resolved = {}
                    ELSE /\ in(ddisk.hosts[ip]) /\ dscan[i].resolved # {}
                         /\ ~(dscan[i].scope \subseteq dscan[i].resolved)

\* Only persistResult touches the stored hosts.
LEMMA HostsElsewhere ==
    ASSUME DiscInv, [DiscNext]_discVars, \A i \in Scans : ~PersistOutcome(i)
    PROVE  ddisk'.hosts = ddisk.hosts
  <1>1. ASSUME NEW i \in Scans, ScanStep(i) \/ \E req \in Requests : CallTrigger(i, req)
        PROVE  ddisk'.hosts = ddisk.hosts
    <2>1. CASE CollectInput(i) \/ ProbeOutcome(i) BY <2>1, CollectWalks, ProbeWalks DEF Walks
    <2>2. CASE \/ Trigger(i) \/ UpdateProgress(i) \/ ReadLocked(i) \/ SetLatest(i) \/ Completed(i)
               \/ MarkScanDone(i) \/ AwaitLock(i)
               \/ \E req \in Requests : CallTrigger(i, req)
      <3>1. Beside \/ Walks(i) \/ Aside(i) \/ Enters(i) \/ Leaves(i) BY <2>2, ScanSteps
      <3> QED BY <3>1 DEF Beside, Walks, Aside, Enters, Leaves
    <2> QED BY <1>1, <2>1, <2>2 DEF ScanStep
  <1>2. CASE RestartDiscovery BY <1>2 DEF RestartDiscovery
  <1>3. ASSUME \/ \E p \in Pollers : StatusEnter(p) \/ StatusLeave(p)
               \/ \E ip \in RogueIPs : InspectPacket(ip)
               \/ RogueStep
               \/ \E s \in Subnets : EditSubnet(s)
               \/ UNCHANGED discVars
        PROVE  ddisk'.hosts = ddisk.hosts
    BY <1>3, OthersBeside DEF Beside
  <1> QED BY <1>1, <1>2, <1>3 DEF DiscNext

\* What persistResult does to one stored host.
LEMMA HostPersisted ==
    ASSUME NEW old, NEW d, NEW ip \in DOMAIN old,
           d.resolved \subseteq d.scope,
           InScope(old, d.resolved) \subseteq DOMAIN d.hosts,
           \A a \in DOMAIN d.hosts : Within(d.hosts, a, d.resolved) \/ a \in InScope(old, d.resolved)
    PROVE  LET new == PersistedHosts(old, d.scope, d.hosts)
               in(host) == ipMatchesSubnets(ip, host.subnet, d.scope)
           IN  \/ ip \in DOMAIN new /\ new[ip] = old[ip]
               \/ IF ip \in DOMAIN new THEN in(old[ip]) \/ in(new[ip]) \/ d.resolved = {}
                  ELSE in(old[ip]) /\ d.resolved # {} /\ ~(d.scope \subseteq d.resolved)
  <1> DEFINE new == PersistedHosts(old, d.scope, d.hosts)
             in == ipMatchesSubnets(ip, old[ip].subnet, d.scope)
             kept == {a \in DOMAIN old : d.scope # {} /\ ~ipMatchesSubnets(a, old[a].subnet, d.scope)}
  <1>1. /\ DOMAIN new = kept \cup DOMAIN d.hosts
        /\ \A a \in kept \cup DOMAIN d.hosts : new[a] = IF a \in DOMAIN d.hosts THEN d.hosts[a] ELSE old[a]
    BY DEF PersistedHosts
  <1> HIDE DEF new
  <1>2. CASE ip \in DOMAIN d.hosts
    <2>1. CASE Within(d.hosts, ip, d.resolved)
      <3>1. new[ip] = d.hosts[ip] BY <1>1, <1>2
      <3>2. d.resolved = {} \/ ipMatchesSubnets(ip, new[ip].subnet, d.scope)
        BY <2>1, <3>1 DEF Within, ipMatchesSubnets
      <3> QED BY <1>1, <1>2, <3>2 DEF new
    <2>2. CASE ip \in InScope(old, d.resolved) BY <1>1, <1>2, <2>2 DEF InScope, ipMatchesSubnets, new
    <2> QED BY <1>2, <2>1, <2>2
  <1>3. CASE ip \notin DOMAIN d.hosts /\ ip \in kept BY <1>1, <1>3 DEF new
  <1>4. CASE ip \notin DOMAIN d.hosts /\ ip \notin kept
    <2>1. in BY <1>4 DEF ipMatchesSubnets
    <2>2. ip \notin InScope(old, d.resolved) BY <1>4
    <2>3. d.resolved # {} BY <2>2 DEF InScope, ipMatchesSubnets
    <2>4. ~(d.scope \subseteq d.resolved)
      <3>1. ASSUME d.scope \subseteq d.resolved PROVE FALSE
        <4>1. d.scope = d.resolved BY <3>1
        <4> QED BY <2>1, <2>2, <4>1 DEF InScope
      <3> QED BY <3>1
    <2>5. ip \notin DOMAIN new BY <1>1, <1>4
    <2> QED BY <2>1, <2>3, <2>4, <2>5 DEF new
  <1> QED BY <1>2, <1>3, <1>4

\* persistResult never loses a host of a subnet the scan covers, and leaves the
\* hosts outside the requested subnets alone, over failed transactions and
\* subnets edited during the scan.
THEOREM HostsAreKept == DiscSpec => HostsKept
  <1>1. ASSUME DiscInv, [DiscNext]_discVars PROVE HostsStep
    <2>1. CASE \A i \in Scans : ~PersistOutcome(i)
      BY <1>1, <2>1, HostsElsewhere DEF HostsStep
    <2>2. ASSUME NEW i \in Scans, PersistOutcome(i) PROVE HostsStep
      <3> DEFINE d == dscan[i]
      <3>1. PICK n \in 0..3 : Persist(i, n) BY <2>2 DEF PersistOutcome
      <3>2. ScanOK(i, d, ddisk.hosts, ddisk.scans) /\ ScanShape(d) BY <1>1 DEF DiscInv, ScanOK
      <3>3. d.pc = "persist" /\ dscan'[i].pc # "persist"
        <4>1. d.pc = "persist" BY <3>1 DEF Persist
        <4>2. PICK p : p = (IF n = 3 THEN "stored" ELSE "completed") /\ dscan' = [dscan EXCEPT ![i].pc = p]
          BY <3>1 DEF Persist, Moves
        <4>3. dscan'[i] = [d EXCEPT !.pc = p] BY <1>1, <4>2 DEF DiscInv, DiscShape
        <4>4. [d EXCEPT !.pc = p].pc = p BY <3>2 DEF ScanShape
        <4>5. p # "persist" BY <4>2
        <4>6. dscan'[i].pc # "persist" BY <4>3, <4>4, <4>5
        <4> QED BY <4>1, <4>6
      <3>4. Stores(i) BY <3>3 DEF Stores
      <3>5. CASE ddisk'.hosts = ddisk.hosts BY <3>5 DEF HostsStep
      <3>6. CASE ddisk'.hosts = PersistedHosts(ddisk.hosts, d.scope, d.hosts)
        <4> SUFFICES ASSUME NEW ip \in DOMAIN ddisk.hosts
                     PROVE  \/ ip \in DOMAIN ddisk'.hosts /\ ddisk'.hosts[ip] = ddisk.hosts[ip]
                            \/ LET in(host) == ipMatchesSubnets(ip, host.subnet, d.scope)
                               IN  IF ip \in DOMAIN ddisk'.hosts
                                   THEN in(ddisk.hosts[ip]) \/ in(ddisk'.hosts[ip]) \/ d.resolved = {}
                                   ELSE in(ddisk.hosts[ip]) /\ d.resolved # {} /\ ~(d.scope \subseteq d.resolved)
          BY <3>4 DEF HostsStep
        <4>1. /\ d.resolved \subseteq d.scope
              /\ InScope(ddisk.hosts, d.resolved) \subseteq DOMAIN d.hosts
              /\ \A a \in DOMAIN d.hosts : Within(d.hosts, a, d.resolved) \/ a \in InScope(ddisk.hosts, d.resolved)
          BY <3>2, <3>3 DEF ScanOK, Observed
        <4> QED BY <3>6, <4>1, HostPersisted
      <3>7. ddisk'.hosts = ddisk.hosts \/ ddisk'.hosts = PersistedHosts(ddisk.hosts, d.scope, d.hosts)
        BY <1>1, <3>1, StoredByPersist
      <3> QED BY <3>5, <3>6, <3>7
    <2> QED BY <2>1, <2>2
  <1>2. DiscInv /\ [DiscNext]_discVars => [HostsStep]_discVars BY <1>1
  <1> QED BY <1>2, DiscStart, DiscSteps, PTL DEF DiscSpec, HostsKept, HostsStep

-----------------------------------------------------------------------------
(***************************************************************************)
(* The list of rogue servers.  RecordRogueServer's loop, entry by entry:   *)
(* a recursive function over the earlier list exists, so the list it       *)
(* returns is its last value, and what holds after every entry holds of it.*)
(***************************************************************************)
LEMMA LeastExists ==
    ASSUME NEW T \in SUBSET Nat, T # {} PROVE \E n \in T : \A m \in T : n <= m
  <1>1. PICK x \in T : \A y \in T : <<y, x>> \notin OpToRel(<, Nat)
    BY NatLessThanWellFounded, WFMin
  <1>2. ASSUME NEW y \in T PROVE x <= y
    <2>1. ASSUME y < x PROVE FALSE
      <3>1. <<y, x>> \in Nat \X Nat /\ <<y, x>>[1] < <<y, x>>[2] BY <2>1
      <3>2. <<y, x>> \in OpToRel(<, Nat) BY ONLY <3>1 DEF OpToRel
      <3> QED BY <1>1, <3>2
    <2> QED BY <2>1
  <1> QED BY <1>2

LEMMA Induct ==
    ASSUME NEW G \in SUBSET Nat, 0 \in G, \A n \in G : n + 1 \in G PROVE G = Nat
  <1> SUFFICES ASSUME G # Nat PROVE FALSE OBVIOUS
  <1>1. PICK n \in Nat \ G : \A m \in Nat \ G : n <= m
    <2>1. Nat \ G \in SUBSET Nat /\ Nat \ G # {} OBVIOUS
    <2> QED BY <2>1, LeastExists
  <1>2. n # 0 OBVIOUS
  <1>3. n - 1 \in Nat /\ n - 1 \notin Nat \ G BY <1>1, <1>2
  <1>4. (n - 1) + 1 \in G BY <1>3
  <1> QED BY <1>4

\* h[k] is the list after the first k earlier entries.
Entered(list, ip, prev, k) ==
    IF list[k] = ip \/ Len(prev) = RogueCap THEN prev ELSE Append(prev, list[k])

MergesRogues(list, ip, n, h) ==
    /\ DOMAIN h = 0..n /\ h[0] = <<ip>>
    /\ \A k \in 1..n : h[k] = Entered(list, ip, h[k - 1], k)

LEMMA MergesExist ==
    ASSUME NEW list, NEW ip PROVE \A n \in Nat : \E h : MergesRogues(list, ip, n, h)
  <1> DEFINE G == {n \in Nat : \E h : MergesRogues(list, ip, n, h)}
  <1>1. 0 \in G
    <2>1. MergesRogues(list, ip, 0, [k \in 0..0 |-> <<ip>>]) BY DEF MergesRogues
    <2> QED BY <2>1
  <1>2. ASSUME NEW n \in G PROVE n + 1 \in G
    <2>1. PICK h : MergesRogues(list, ip, n, h) OBVIOUS
    <2>2. PICK e : e = Entered(list, ip, h[n], n + 1) OBVIOUS
    <2> DEFINE g == [k \in 0..(n + 1) |-> IF k <= n THEN h[k] ELSE e]
    <2>3. n \in Nat OBVIOUS
    <2>4. g[0] = <<ip>> BY <2>1, <2>3 DEF MergesRogues
    <2>5. ASSUME NEW k \in 1..(n + 1) PROVE g[k] = Entered(list, ip, g[k - 1], k)
      <3>1. CASE k <= n
        <4>1. k \in 1..n /\ g[k] = h[k] /\ g[k - 1] = h[k - 1] BY <2>3, <3>1
        <4> QED BY <2>1, <4>1 DEF MergesRogues
      <3>2. CASE k = n + 1
        <4>1. g[k] = e /\ g[k - 1] = h[n] BY <2>3, <3>2
        <4> QED BY <2>2, <3>2, <4>1
      <3> QED BY <2>3, <3>1, <3>2
    <2>6. MergesRogues(list, ip, n + 1, g)
      <3>1. DOMAIN g = 0..(n + 1) OBVIOUS
      <3> HIDE DEF g
      <3> QED BY <2>4, <2>5, <3>1 DEF MergesRogues
    <2> QED BY <2>6
  <1>3. G = Nat
    <2> HIDE DEF G
    <2>1. G \in SUBSET Nat BY DEF G
    <2> QED BY <1>1, <1>2, <2>1, Induct
  <1> QED BY <1>3

LEMMA MergeUnrolls ==
    ASSUME NEW list \in Seq(RogueIPs), NEW ip
    PROVE  \E h : MergesRogues(list, ip, Len(list), h) /\ MergeRogue(list, ip) = h[Len(list)]
  <1> DEFINE Rec(f) == f = [k \in 0..Len(list) |->
                              IF k = 0 THEN <<ip>>
                              ELSE IF list[k] = ip \/ Len(f[k - 1]) = RogueCap THEN f[k - 1]
                              ELSE Append(f[k - 1], list[k])]
             m == CHOOSE f : Rec(f)
  <1>1. Len(list) \in Nat BY LenProperties
  <1>2. PICK h : MergesRogues(list, ip, Len(list), h) BY <1>1, MergesExist
  <1>3. \E f : Rec(f)
    <2> DEFINE g == [k \in 0..Len(list) |-> h[k]]
    <2>1. ASSUME NEW k \in 0..Len(list)
          PROVE  g[k] = IF k = 0 THEN <<ip>>
                        ELSE IF list[k] = ip \/ Len(g[k - 1]) = RogueCap THEN g[k - 1]
                        ELSE Append(g[k - 1], list[k])
      <3>1. CASE k = 0 BY <1>2, <3>1 DEF MergesRogues
      <3>2. CASE k # 0
        <4>1. k \in 1..Len(list) /\ k - 1 \in 0..Len(list) BY <1>1, <3>2
        <4>2. g[k] = h[k] /\ g[k - 1] = h[k - 1] BY <4>1
        <4>3. h[k] = Entered(list, ip, h[k - 1], k) BY <1>2, <4>1 DEF MergesRogues
        <4> HIDE DEF g
        <4> QED BY <3>2, <4>2, <4>3 DEF Entered
      <3> QED BY <3>1, <3>2
    <2>2. g = [k \in 0..Len(list) |-> g[k]] OBVIOUS
    <2> HIDE DEF g
    <2>3. Rec(g) BY <2>1, <2>2
    <2> QED BY <2>3
  <1>4. MergeRogue(list, ip) = m[Len(list)] BY DEF MergeRogue
  <1>5. Rec(m)
    <2> HIDE DEF Rec
    <2> QED BY <1>3
  <1> HIDE DEF m
  <1>6. MergesRogues(list, ip, Len(list), m)
    <2>1. DOMAIN m = 0..Len(list) /\ m[0] = <<ip>> BY <1>1, <1>5
    <2>2. ASSUME NEW k \in 1..Len(list) PROVE m[k] = Entered(list, ip, m[k - 1], k)
      <3>1. k \in 0..Len(list) /\ k # 0 BY <1>1
      <3> QED BY <1>5, <3>1 DEF Entered
    <2> QED BY <2>1, <2>2 DEF MergesRogues
  <1> QED BY <1>4, <1>6

\* A list of different addresses, no longer than it may be.
RogueList(s) ==
    /\ s \in Seq(RogueIPs) /\ Len(s) <= RogueCap
    /\ \A i, j \in 1..Len(s) : s[i] = s[j] => i = j

LEMMA RangeCounted ==
    ASSUME NEW s, RogueList(s)
    PROVE  IsFiniteSet(Range(s)) /\ Cardinality(Range(s)) = Len(s)
  <1>1. DOMAIN s = 1..Len(s) /\ Len(s) \in Nat BY LenProperties DEF RogueList
  <1>2. s \in Bijection(1..Len(s), Range(s))
    BY <1>1 DEF RogueList, Bijection, Injection, Surjection, IsInjective, Range
  <1>3. ExistsBijection(1..Len(s), Range(s)) BY <1>2 DEF ExistsBijection
  <1> QED BY <1>1, <1>3, FS_CountingElements, FS_NatBijection

\* RecordRogueServer: the address comes into the list, no address is in it
\* twice, and an earlier one leaves it only if it is full.
LEMMA MergeKeepsRogues ==
    ASSUME NEW list, RogueList(list), NEW ip \in RogueIPs
    PROVE  LET new == MergeRogue(list, ip)
           IN  /\ RogueList(new) /\ ip \in Range(new)
               /\ Range(list) \subseteq Range(new) \/ Len(new) = RogueCap
  <1> DEFINE len == Len(list)
             After(k, s) == /\ RogueList(s) /\ ip \in Range(s)
                            /\ \A x \in Range(s) : x = ip \/ \E j \in 1..k : x = list[j]
                            /\ (\A j \in 1..k : list[j] \in Range(s)) \/ Len(s) = RogueCap
  <1>1. list \in Seq(RogueIPs) /\ len \in Nat /\ DOMAIN list = 1..len
    BY LenProperties DEF RogueList
  <1>2. PICK h : MergesRogues(list, ip, len, h) /\ MergeRogue(list, ip) = h[len]
    BY <1>1, MergeUnrolls
  <1> DEFINE G == {k \in Nat : k <= len => After(k, h[k])}
  <1>3. 0 \in G
    <2>1. PICK s : s = <<ip>> OBVIOUS
    <2>2. s \in Seq(RogueIPs) /\ Len(s) = 1 /\ s[1] = ip BY <2>1
    <2>3. DOMAIN s = 1..1 BY <2>2, LenProperties
    <2>4. Range(s) = {ip} BY <2>2, <2>3 DEF Range
    <2>5. RogueList(s) BY <2>2, DiscoveryAssumption DEF RogueList
    <2>6. h[0] = s BY <1>2, <2>1 DEF MergesRogues
    <2> QED BY <2>4, <2>5, <2>6
  <1>4. ASSUME NEW n \in G PROVE n + 1 \in G
    <2> SUFFICES ASSUME n + 1 <= len PROVE After(n + 1, h[n + 1]) OBVIOUS
    <2>1. n \in Nat /\ n + 1 \in 1..len /\ (n + 1) - 1 = n BY <1>1
    <2>2. PICK s : s = h[n] OBVIOUS
    <2>3. PICK x : x = list[n + 1] OBVIOUS
    <2>4. After(n, s) BY <1>1, <2>1, <2>2
    <2>5. h[n + 1] = IF x = ip \/ Len(s) = RogueCap THEN s ELSE Append(s, x)
      BY <1>2, <2>1, <2>2, <2>3 DEF MergesRogues, Entered
    <2>6. \A j \in 1..(n + 1) : j \in 1..n \/ j = n + 1 BY <2>1
    <2>7. \A j \in 1..n : j \in 1..(n + 1) BY <2>1
    <2>8. CASE x = ip \/ Len(s) = RogueCap
      <3>1. (\A j \in 1..(n + 1) : list[j] \in Range(s)) \/ Len(s) = RogueCap
        BY <2>3, <2>4, <2>6, <2>8
      <3> QED BY <2>4, <2>5, <2>7, <2>8, <3>1
    <2>9. CASE x # ip /\ Len(s) # RogueCap
      <3>1. PICK t : t = Append(s, x) OBVIOUS
      <3>2. s \in Seq(RogueIPs) /\ Len(s) \in Nat /\ DOMAIN s = 1..Len(s) /\ Len(s) < RogueCap
        BY <2>4, <2>9, LenProperties, DiscoveryAssumption DEF RogueList
      <3>3. x \in RogueIPs BY <1>1, <2>1, <2>3, ElementOfSeq
      <3>4. /\ t \in Seq(RogueIPs) /\ Len(t) = Len(s) + 1 /\ t[Len(s) + 1] = x
            /\ \A i \in 1..Len(s) : t[i] = s[i]
        BY <3>1, <3>2, <3>3, AppendProperties
      <3>5. DOMAIN t = 1..(Len(s) + 1) BY <3>4, LenProperties
      <3>6. Range(t) = Range(s) \cup {x}
        <4>1. \A i \in 1..(Len(s) + 1) : i \in 1..Len(s) \/ i = Len(s) + 1 BY <3>2
        <4>2. \A i \in 1..Len(s) : i \in 1..(Len(s) + 1) BY <3>2
        <4>3. Len(s) + 1 \in 1..(Len(s) + 1) BY <3>2
        <4> QED BY <3>2, <3>4, <3>5, <4>1, <4>2, <4>3 DEF Range
      <3>7. x \notin Range(s)
        <4>1. \A j \in 1..n : j \in 1..len /\ j # n + 1 BY <1>1, <2>1
        <4>2. \A j \in 1..n : list[j] # x BY <2>1, <2>3, <4>1 DEF RogueList
        <4> QED BY <2>4, <2>9, <4>2
      <3>8. RogueList(t)
        <4>1. \A i \in 1..Len(s) : t[i] \in Range(s) BY <3>2, <3>4 DEF Range
        <4>2. \A i \in 1..(Len(s) + 1) : i \in 1..Len(s) \/ i = Len(s) + 1 BY <3>2
        <4>3. ASSUME NEW i \in 1..Len(t), NEW j \in 1..Len(t), t[i] = t[j] PROVE i = j
          <5>1. CASE i \in 1..Len(s) /\ j \in 1..Len(s) BY <2>4, <3>4, <4>3, <5>1 DEF RogueList
          <5>2. CASE i = Len(s) + 1 \/ j = Len(s) + 1
            BY <3>4, <3>7, <4>1, <4>2, <4>3, <5>2
          <5> QED BY <3>4, <4>2, <5>1, <5>2
        <4>4. Len(t) <= RogueCap BY <3>2, <3>4, DiscoveryAssumption
        <4> QED BY <3>4, <4>3, <4>4 DEF RogueList
      <3>9. \A y \in Range(t) : y = ip \/ \E j \in 1..(n + 1) : y = list[j]
        <4>1. n + 1 \in 1..(n + 1) BY <2>1
        <4> QED BY <2>3, <2>4, <2>7, <3>6, <4>1
      <3>10. \A j \in 1..(n + 1) : list[j] \in Range(t) BY <2>3, <2>4, <2>6, <2>9, <3>6
      <3>11. h[n + 1] = t BY <2>5, <2>9, <3>1
      <3> QED BY <2>4, <3>6, <3>8, <3>9, <3>10, <3>11
    <2> QED BY <2>8, <2>9
  <1>5. G = Nat
    <2> HIDE DEF G
    <2>1. G \in SUBSET Nat BY DEF G
    <2> QED BY <1>3, <1>4, <2>1, Induct
  <1>6. After(len, h[len])
    <2> HIDE DEF After
    <2>1. len \in Nat /\ len <= len BY <1>1
    <2>2. \A k \in G : k <= len => After(k, h[k]) OBVIOUS
    <2> HIDE DEF G
    <2> QED BY <1>5, <2>1, <2>2
  <1>7. \A x \in Range(list) : \E j \in 1..len : x = list[j] BY <1>1 DEF Range
  <1> QED BY <1>2, <1>6, <1>7

(***************************************************************************)
(* The steps that touch the list, and the invariant.                       *)
(***************************************************************************)
\* Who was announced is in the list, unless newer ones fill it.
Remembers(s) == RogueList(s) /\ \A ip \in reported : ip \in Range(s) \/ Len(s) = RogueCap

\* Both lists remember, since a restart brings the stored one back; and the
\* server the detector is about to announce is in the list it stores.
RogueInv ==
    /\ Remembers(dmem.rogue) /\ Remembers(ddisk.rogue)
    /\ drogue \in [pc : {"idle", "lock", "tx"}, ip : RogueIPs \cup {DNone}]
    /\ drogue.pc # "idle" => drogue.ip \in RogueIPs
    /\ drogue.pc = "tx" => drogue.ip \in Range(dmem.rogue)

RogueState == <<dmem.rogue, ddisk.rogue, drogue, reported>>

LEMMA RogueStart == DiscInit => RogueInv
  <1> SUFFICES ASSUME DiscInit PROVE RogueInv OBVIOUS
  <1>1. PICK e : e = <<>> OBVIOUS
  <1>2. e \in Seq(RogueIPs) /\ Len(e) = 0 BY <1>1
  <1>3. dmem.rogue = e /\ ddisk.rogue = e BY <1>1 DEF DiscInit
  <1>4. RogueList(e) BY <1>2, DiscoveryAssumption DEF RogueList
  <1>5. drogue = [pc |-> "idle", ip |-> DNone] /\ reported = {} BY DEF DiscInit
  <1> QED BY <1>3, <1>4, <1>5 DEF RogueInv, Remembers

\* A full list has as many addresses as may be: what holds all of them is full.
LEMMA FullStaysFull ==
    ASSUME NEW s, RogueList(s), Len(s) = RogueCap, NEW t, RogueList(t), Range(s) \subseteq Range(t)
    PROVE  Len(t) = RogueCap
  <1>1. /\ IsFiniteSet(Range(s)) /\ Cardinality(Range(s)) = Len(s)
        /\ IsFiniteSet(Range(t)) /\ Cardinality(Range(t)) = Len(t)
    BY RangeCounted
  <1>2. Cardinality(Range(s)) <= Cardinality(Range(t)) BY <1>1, FS_Subset
  <1>3. Len(s) \in Nat /\ Len(t) \in Nat /\ Len(t) <= RogueCap BY LenProperties DEF RogueList
  <1> QED BY <1>1, <1>2, <1>3, DiscoveryAssumption

LEMMA RecordKeepsRogues == ASSUME DiscInv, RogueInv, RecordRogue PROVE RogueInv'
  <1>1. PICK old : old = dmem.rogue OBVIOUS
  <1>2. PICK ip : ip = drogue.ip OBVIOUS
  <1>3. PICK new : new = MergeRogue(old, ip) OBVIOUS
  <1>4. drogue.pc = "lock" /\ ip \in RogueIPs BY <1>2 DEF RecordRogue, RogueInv
  <1>5. /\ dmem' = [dmem EXCEPT !.rogue = new] /\ drogue' = [drogue EXCEPT !.pc = "tx"]
        /\ ddisk' = ddisk /\ reported' = reported
    BY <1>1, <1>2, <1>3 DEF RecordRogue
  <1>6. dmem'.rogue = new BY <1>5 DEF DiscInv, DiscShape
  <1>7. drogue' \in [pc : {"tx"}, ip : {ip}] BY <1>2, <1>5 DEF RogueInv
  <1>8. Remembers(old) BY <1>1 DEF RogueInv
  <1>9. /\ RogueList(new) /\ ip \in Range(new)
        /\ Range(old) \subseteq Range(new) \/ Len(new) = RogueCap
    BY <1>3, <1>4, <1>8, MergeKeepsRogues DEF Remembers
  <1>10. ASSUME NEW r \in reported PROVE r \in Range(new) \/ Len(new) = RogueCap
    BY <1>8, <1>9, FullStaysFull DEF Remembers
  <1>11. Remembers(dmem.rogue)' BY <1>5, <1>6, <1>9, <1>10 DEF Remembers
  <1>12. Remembers(ddisk.rogue)' BY <1>5 DEF RogueInv, Remembers
  <1> QED BY <1>4, <1>6, <1>7, <1>9, <1>11, <1>12 DEF RogueInv

\* The server is announced only when the list that holds it is stored.
LEMMA TxKeepsRogues == ASSUME DiscInv, RogueInv, NEW ok \in BOOLEAN, RogueTx(ok) PROVE RogueInv'
  <1>1. dmem' = dmem /\ drogue' = [pc |-> "idle", ip |-> DNone] BY DEF RogueTx
  <1>2. drogue.pc = "tx" /\ drogue.ip \in Range(dmem.rogue) BY DEF RogueTx, RogueInv
  <1>3. CASE ok = TRUE
    <2>1. ddisk' = [ddisk EXCEPT !.rogue = dmem.rogue] /\ reported' = reported \cup {drogue.ip}
      BY <1>3 DEF RogueTx
    <2>2. ddisk'.rogue = dmem.rogue BY <2>1 DEF DiscInv, DiscShape
    <2>3. Remembers(dmem.rogue)' BY <1>1, <1>2, <2>1 DEF RogueInv, Remembers
    <2>4. Remembers(ddisk.rogue)' BY <1>1, <2>2, <2>3 DEF Remembers
    <2> QED BY <1>1, <2>3, <2>4 DEF RogueInv
  <1>4. CASE ok = FALSE
    <2>1. ddisk' = ddisk /\ reported' = reported BY <1>4 DEF RogueTx
    <2> QED BY <1>1, <2>1 DEF RogueInv, Remembers
  <1> QED BY <1>3, <1>4

LEMMA RestartKeepsRogues == ASSUME RogueInv, RestartDiscovery PROVE RogueInv'
  <1>1. /\ ddisk' = ddisk /\ reported' = reported /\ dmem' = loadMeta
        /\ drogue' = [pc |-> "idle", ip |-> DNone]
    BY DEF RestartDiscovery
  <1>2. dmem'.rogue = ddisk.rogue BY <1>1 DEF loadMeta
  <1> QED BY <1>1, <1>2 DEF RogueInv, Remembers

\* A scan writes neither list, and nobody else does.
LEMMA RoguesElsewhere ==
    ASSUME DiscInv, [DiscNext]_discVars,
           \A ip \in RogueIPs : ~InspectPacket(ip),
           ~RecordRogue, \A ok \in BOOLEAN : ~RogueTx(ok), ~RestartDiscovery
    PROVE  UNCHANGED RogueState
  <1>1. DiscShape BY DEF DiscInv
  <1> DEFINE Same == dmem'.rogue = dmem.rogue /\ ddisk'.rogue = ddisk.rogue /\ drogue' = drogue /\ reported' = reported
  <1>2. ASSUME NEW i \in Scans, ScanStep(i) \/ \E req \in Requests : CallTrigger(i, req) PROVE Same
    <2>1. drogue' = drogue /\ reported' = reported
      BY <1>2 DEF ScanStep, CallTrigger, Trigger, UpdateProgress, ReadLocked, CollectInput, Collect,
                  ProbeOutcome, Probe, PersistOutcome, Persist, SetLatest, Completed, MarkScanDone,
                  AwaitLock, Await
    <2>2. CASE dmem' = dmem /\ ddisk' = ddisk BY <2>1, <2>2
    <2>3. CASE \/ Trigger(i) \/ UpdateProgress(i) \/ SetLatest(i) \/ Completed(i) \/ MarkScanDone(i)
      <3>1. ddisk' = ddisk BY <2>3 DEF Trigger, UpdateProgress, SetLatest, Completed, MarkScanDone
      <3>2. CASE Trigger(i)
        <4>1. \/ dmem' = dmem
              \/ dmem' = [dmem EXCEPT !.scanning = TRUE, !.inProgress = TRUE, !.phase = "initializing"]
          BY <3>2 DEF Trigger
        <4> QED BY <1>1, <2>1, <3>1, <4>1 DEF DiscShape
      <3>3. CASE UpdateProgress(i)
        <4>1. PICK ph : dmem' = [dmem EXCEPT !.phase = ph] BY <3>3 DEF UpdateProgress
        <4> QED BY <1>1, <2>1, <3>1, <4>1 DEF DiscShape
      <3>4. CASE SetLatest(i) \/ Completed(i) \/ MarkScanDone(i)
        <4>1. \/ dmem' = [dmem EXCEPT !.latestID = i]
              \/ dmem' = [dmem EXCEPT !.phase = "completed", !.inProgress = FALSE]
              \/ dmem' = [dmem EXCEPT !.scanning = FALSE, !.inProgress = FALSE]
          BY <3>4 DEF SetLatest, Completed, MarkScanDone
        <4> QED BY <1>1, <2>1, <3>1, <4>1 DEF DiscShape
      <3> QED BY <2>3, <3>2, <3>3, <3>4
    <2>4. CASE PersistOutcome(i)
      <3>1. PICK n \in 0..3 : Persist(i, n) BY <2>4 DEF PersistOutcome
      <3>2. dmem' = dmem /\ ddisk' = (IF n = 0 THEN ddisk ELSE PersistPuts(i)[n]) BY <3>1 DEF Persist
      <3>3. PICK new, hosts :
               PersistPuts(i) = <<[ddisk EXCEPT !.scans = new],
                                  [ddisk EXCEPT !.scans = new, !.hosts = hosts],
                                  [ddisk EXCEPT !.scans = new, !.hosts = hosts, !.latest = i]>>
        <4>1. PICK new : new = ddisk.scans \cup {<<i, dscan[i].conflicts>>} OBVIOUS
        <4>2. PICK hosts : hosts = PersistedHosts(ddisk.hosts, dscan[i].scope, dscan[i].hosts) OBVIOUS
        <4>3. [ddisk EXCEPT !.scans = @ \cup {<<i, dscan[i].conflicts>>}] = [ddisk EXCEPT !.scans = new]
          BY <4>1
        <4>4. PersistPuts(i) = <<[ddisk EXCEPT !.scans = new],
                                  [ddisk EXCEPT !.scans = new, !.hosts = hosts],
                                  [ddisk EXCEPT !.scans = new, !.hosts = hosts, !.latest = i]>>
          BY <4>1, <4>2, Zenon DEF PersistPuts
        <4> QED BY <4>4
      <3>4. \/ ddisk' = ddisk
            \/ ddisk' = [ddisk EXCEPT !.scans = new]
            \/ ddisk' = [ddisk EXCEPT !.scans = new, !.hosts = hosts]
            \/ ddisk' = [ddisk EXCEPT !.scans = new, !.hosts = hosts, !.latest = i]
        <4>1. PICK x, y, z : /\ x = [ddisk EXCEPT !.scans = new]
                             /\ y = [ddisk EXCEPT !.scans = new, !.hosts = hosts]
                             /\ z = [ddisk EXCEPT !.scans = new, !.hosts = hosts, !.latest = i]
          OBVIOUS
        <4>2. PersistPuts(i) = <<x, y, z>> BY <3>3, <4>1, Zenon
        <4>3. <<x, y, z>>[1] = x /\ <<x, y, z>>[2] = y /\ <<x, y, z>>[3] = z OBVIOUS
        <4>4. ddisk' \in {ddisk, x, y, z} BY <3>2, <4>2, <4>3
        <4> QED BY <4>1, <4>4
      <3> QED BY <1>1, <2>1, <3>2, <3>4 DEF DiscShape
    <2>5. \/ dmem' = dmem /\ ddisk' = ddisk
          \/ Trigger(i) \/ UpdateProgress(i) \/ SetLatest(i) \/ Completed(i) \/ MarkScanDone(i)
          \/ PersistOutcome(i)
      BY <1>2 DEF ScanStep, CallTrigger, ReadLocked, CollectInput, Collect, ProbeOutcome, Probe,
                  AwaitLock, Await
    <2> QED BY <2>2, <2>3, <2>4, <2>5
  <1>3. ASSUME \/ \E p \in Pollers : StatusEnter(p) \/ StatusLeave(p)
               \/ AwaitRogue
               \/ \E s \in Subnets : EditSubnet(s)
               \/ UNCHANGED discVars
        PROVE  Same
    BY <1>3 DEF StatusEnter, StatusLeave, AwaitRogue, Await, EditSubnet, discVars
  <1>4. Same BY <1>2, <1>3 DEF DiscNext, RogueStep
  <1> QED BY <1>4 DEF RogueState

LEMMA RogueSteps == DiscInv /\ RogueInv /\ [DiscNext]_discVars => RogueInv'
  <1> SUFFICES ASSUME DiscInv, RogueInv, [DiscNext]_discVars PROVE RogueInv' OBVIOUS
  <1>1. ASSUME NEW ip \in RogueIPs, InspectPacket(ip) PROVE RogueInv'
    <2>1. drogue' = [pc |-> "lock", ip |-> ip] /\ UNCHANGED <<dmem, ddisk, reported>>
      BY <1>1 DEF InspectPacket
    <2> QED BY <2>1 DEF RogueInv, Remembers
  <1>2. CASE UNCHANGED RogueState BY <1>2 DEF RogueState, RogueInv, Remembers
  <1>3. \/ \E ip \in RogueIPs : InspectPacket(ip)
        \/ RecordRogue \/ \E ok \in BOOLEAN : RogueTx(ok)
        \/ RestartDiscovery \/ UNCHANGED RogueState
    BY RoguesElsewhere
  <1> QED BY <1>1, <1>2, <1>3, RecordKeepsRogues, TxKeepsRogues, RestartKeepsRogues

\* RecordRogueServer and loadMeta: a rogue server that was announced as
\* discovery.rogue_dhcp stays in the list, over failed transactions and
\* restarts, until newer ones fill it; no address is listed twice.
THEOREM RoguesAreRemembered == DiscSpec => []RoguesRemembered
  <1>1. RogueInv => RoguesRemembered
    BY RangeCounted DEF RogueInv, Remembers, RoguesRemembered
  <1>2. DiscInit => DiscInv /\ RogueInv BY DiscStart, RogueStart
  <1>3. DiscInv /\ RogueInv /\ [DiscNext]_discVars => (DiscInv /\ RogueInv)' BY DiscSteps, RogueSteps
  <1> QED BY <1>1, <1>2, <1>3, PTL DEF DiscSpec

-----------------------------------------------------------------------------
(***************************************************************************)
(* Dynamic DNS.  Of a host and the address of its newest lease: the zone   *)
(* holds nothing else, or the request that will make it so is on its way,  *)
(* and no other upsert of the host comes after it; likewise for an address *)
(* and the host of its newest lease.                                       *)
(***************************************************************************)
NamedRequests == [act : {"upsert", "delete"}, host : DnsHosts, ip : DnsIPs]

DdnsTypes ==
    /\ leased \in [DnsIPs -> LeaseHosts \cup {NoHost}]
    /\ listed \in [DnsIPs -> LeaseHosts \cup {NoHost}]
    /\ hand \in [Producers -> DnsRequests \cup {Nothing}]
    /\ dqueue \in Seq(DnsRequests) /\ Len(dqueue) <= DdnsQueueCap
    /\ \/ worker = WorkerIdle
       \/ worker \in [req : NamedRequests, zone : {"forward", "reverse"}]
    /\ fwd \in [DnsHosts -> SUBSET DnsIPs] /\ ptr \in [DnsIPs -> SUBSET DnsHosts]
    /\ last \in [host : [DnsHosts -> DnsIPs \cup {NoHost}], ip : [DnsIPs -> DnsHosts \cup {NoHost}]]

\* The server grants one lease at a time, the sweeper none.
HandsOK ==
    /\ hand["sweeper"].act # "upsert"
    /\ hand["server"].act = "upsert" /\ hand["server"].host # Nameless =>
          /\ last.host[hand["server"].host] = hand["server"].ip
          /\ last.ip[hand["server"].ip] = hand["server"].host

UpsertOf(h, ip) == [act |-> "upsert", host |-> h, ip |-> ip]
DeleteOf(h, ip) == [act |-> "delete", host |-> h, ip |-> ip]

\* What is still to be sent about a zone: the worker's request (0), the queue.
DnsLine(q, first) == [j \in 0..Len(q) |-> IF j = 0 THEN first ELSE q[j]]
FwdFirst == IF worker.zone = "forward" THEN worker.req ELSE Nothing

\* The zone's entry becomes {x} with request k (-1: it has), as long as the
\* lease lives, and loses x with a later one otherwise.
TracksFrom(k, req, n, about, up, del, owner, h, entry, x, held) ==
    /\ k = -1 => entry \subseteq {x} /\ (owner = h => entry = {x})
    /\ k # -1 => req[k] = up
    /\ \A j \in 0..n : j > k /\ req[j] \in about => req[j].act = "delete" /\ (owner = h => req[j] # del)
    /\ owner # h => \/ k = -1 /\ entry = {}
                    \/ \E j \in 0..n : j > k /\ req[j] = del
                    \/ del \in held

Tracks(req, n, about, up, del, owner, h, entry, x, held) ==
    \E k \in -1..n : TracksFrom(k, req, n, about, up, del, owner, h, entry, x, held)

ZoneTracks(q, first, about, h, ip, owner, entry, x, held) ==
    Tracks(DnsLine(q, first), Len(q), about, UpsertOf(h, ip), DeleteOf(h, ip), owner, h, entry, x, held)

AboutHost(h) == {r \in NamedRequests : r.host = h}
AboutIP(ip) == {r \in NamedRequests : r.ip = ip}
Held == {hand["server"], hand["sweeper"]}

FwdTracks(h, ip) ==
    ZoneTracks(dqueue, FwdFirst, AboutHost(h), h, ip, leased[ip], fwd[h], ip, Held)
PtrTracks(h, ip) ==
    ZoneTracks(dqueue, worker.req, AboutIP(ip), h, ip, leased[ip], ptr[ip], h, Held)

\* Not so while the newest grant has not been queued, or its update went wrong.
Excused(h, ip) == <<h, ip>> \in off \/ hand["server"] = UpsertOf(h, ip)

PairOK(h, ip) == ~Excused(h, ip) =>
    /\ last.host[h] = ip => FwdTracks(h, ip)
    /\ last.ip[ip] = h => PtrTracks(h, ip)

DdnsInv == DdnsTypes /\ HandsOK /\ \A h \in DnsHosts, ip \in DnsIPs : PairOK(h, ip)

-----------------------------------------------------------------------------
(* What the operations on the queue do to one zone's entry.                *)

\* The two requests about a pair, among those about its host or address.
ZoneOf(about, up, del) ==
    /\ about \subseteq DnsRequests /\ up \in about /\ del \in about
    /\ up.act = "upsert" /\ del.act = "delete"

\* Nothing is not a request.
LEMMA NothingIsNone == Nothing \notin DnsRequests
<1>1. \A r \in DnsRequests : r.act \in {"upsert", "delete"}
  BY SMT DEF DnsRequests
<1>2. Nothing.act = "none"
  BY SMT DEF Nothing
<1> QED  BY <1>1, <1>2, SMT

\* The lease of another host or address changes, or this one ends and the
\* request that deletes its records is held.
LEMMA EntryWhenLeasesChange ==
    ASSUME NEW req, NEW n \in Nat, NEW about, NEW up, NEW del, NEW entry, NEW x,
           NEW owner, NEW owner2, NEW h, NEW held, NEW held2,
           Tracks(req, n, about, up, del, owner, h, entry, x, held),
           owner2 = h => owner = h,
           owner2 # h => owner # h \/ del \in held2,
           del \in held => del \in held2
    PROVE  Tracks(req, n, about, up, del, owner2, h, entry, x, held2)
<1>1. PICK k \in -1..n : TracksFrom(k, req, n, about, up, del, owner, h, entry, x, held)
  BY Zenon DEF Tracks
<1>2. TracksFrom(k, req, n, about, up, del, owner2, h, entry, x, held2)
  BY <1>1, SMT DEF TracksFrom
<1> QED  BY <1>2, Zenon DEF Tracks

\* The queue grows by r, which neither renews the name nor deletes the records
\* of a live lease; the request held may be r.
Grows(req, req2, n, r) == (\A j \in 0..n : req2[j] = req[j]) /\ req2[n + 1] = r
Joins(r, about, del, owner, h, held, held2) ==
    /\ r \in about => r.act = "delete"
    /\ r = del => owner # h
    /\ del \in held => del \in held2 \/ r = del

LEMMA EntryWhenQueued ==
    ASSUME NEW req, NEW req2, NEW n \in Nat, NEW about, NEW up, NEW del, NEW entry, NEW x,
           NEW owner, NEW h, NEW held, NEW held2, NEW r,
           Tracks(req, n, about, up, del, owner, h, entry, x, held),
           Grows(req, req2, n, r), Joins(r, about, del, owner, h, held, held2)
    PROVE  Tracks(req2, n + 1, about, up, del, owner, h, entry, x, held2)
<1>1. PICK k \in -1..n : TracksFrom(k, req, n, about, up, del, owner, h, entry, x, held)
  BY Zenon DEF Tracks
<1>2. k \in -1..(n + 1) /\ n + 1 \in 0..(n + 1) /\ n + 1 > k /\ 0..n \subseteq 0..(n + 1)
  BY SMT
<1>3. \A j \in 0..(n + 1) : j \in 0..n \/ j = n + 1
  BY SMT
<1>4. k # -1 => req2[k] = up
  <2>1. k # -1 => k \in 0..n
    BY SMT
  <2> QED  BY <1>1, <2>1, SMT DEF TracksFrom, Grows
<1>5. \A j \in 0..(n + 1) : j > k /\ req2[j] \in about =>
          req2[j].act = "delete" /\ (owner = h => req2[j] # del)
  BY <1>1, <1>3, SMT DEF TracksFrom, Grows, Joins
<1>6. owner # h => \/ k = -1 /\ entry = {}
                   \/ \E j \in 0..(n + 1) : j > k /\ req2[j] = del
                   \/ del \in held2
  BY <1>1, <1>2, SMT DEF TracksFrom, Grows, Joins
<1>7. TracksFrom(k, req2, n + 1, about, up, del, owner, h, entry, x, held2)
  BY <1>1, <1>4, <1>5, <1>6, SMT DEF TracksFrom
<1> QED  BY <1>2, <1>7, Zenon DEF Tracks

\* The upsert of a live lease joins the queue: it is the last about the name.
LEMMA EntryWhenRenewed ==
    ASSUME NEW req2, NEW n \in Nat, NEW about, NEW up, NEW del, NEW entry, NEW x,
           NEW owner, NEW h, NEW held2,
           req2[n + 1] = up, owner = h
    PROVE  Tracks(req2, n + 1, about, up, del, owner, h, entry, x, held2)
<1>1. n + 1 \in -1..(n + 1) /\ n + 1 # -1 /\ (\A j \in 0..(n + 1) : ~(j > n + 1))
  BY SMT
<1>2. TracksFrom(n + 1, req2, n + 1, about, up, del, owner, h, entry, x, held2)
  BY <1>1, SMT DEF TracksFrom
<1> QED  BY <1>1, <1>2, Zenon DEF Tracks

\* An idle worker takes the head of the queue.
LEMMA EntryWhenTaken ==
    ASSUME NEW req, NEW req2, NEW n \in Nat \ {0}, NEW about, NEW up, NEW del, NEW entry, NEW x,
           NEW owner, NEW h, NEW held,
           Tracks(req, n, about, up, del, owner, h, entry, x, held),
           ZoneOf(about, up, del), req[0] \notin DnsRequests,
           \A j \in 0..(n - 1) : req2[j] = req[j + 1]
    PROVE  Tracks(req2, n - 1, about, up, del, owner, h, entry, x, held)
<1>1. PICK k \in -1..n : TracksFrom(k, req, n, about, up, del, owner, h, entry, x, held)
  BY Zenon DEF Tracks
<1>2. req[0] # up /\ req[0] # del
  BY SMT DEF ZoneOf
<1>3. k # 0
  BY <1>1, <1>2, SMT DEF TracksFrom
<1>4. PICK k2 : k2 = IF k = -1 THEN -1 ELSE k - 1
  OBVIOUS
<1>5. k2 \in -1..(n - 1) /\ (k2 = -1 <=> k = -1)
  BY <1>3, <1>4, SMT
<1>6. k2 # -1 => req2[k2] = up
  <2>1. k2 # -1 => k2 \in 0..(n - 1) /\ k2 + 1 = k
    BY <1>4, <1>5, SMT
  <2> QED  BY <1>1, <1>5, <2>1, SMT DEF TracksFrom
<1>7. \A j \in 0..(n - 1) : j > k2 => j + 1 \in 0..n /\ j + 1 > k
  BY <1>4, <1>5, SMT
<1>8. \A j \in 0..(n - 1) : j > k2 /\ req2[j] \in about =>
          req2[j].act = "delete" /\ (owner = h => req2[j] # del)
  BY <1>1, <1>7, SMT DEF TracksFrom
<1>9. (\E j \in 0..n : j > k /\ req[j] = del) =>
          \E j \in 0..(n - 1) : j > k2 /\ req2[j] = del
  <2>1. SUFFICES ASSUME NEW j \in 0..n, j > k, req[j] = del
                 PROVE  \E i \in 0..(n - 1) : i > k2 /\ req2[i] = del
    OBVIOUS
  <2>2. j # 0
    BY <1>2, <2>1, SMT
  <2>3. j - 1 \in 0..(n - 1) /\ j - 1 > k2 /\ (j - 1) + 1 = j
    BY <1>3, <1>4, <2>1, <2>2, SMT
  <2>4. req2[j - 1] = del
    BY <2>1, <2>3, SMT
  <2> QED  BY <2>3, <2>4
<1>10. TracksFrom(k2, req2, n - 1, about, up, del, owner, h, entry, x, held)
  BY <1>1, <1>5, <1>6, <1>8, <1>9, SMT DEF TracksFrom
<1> QED  BY <1>5, <1>10, Zenon DEF Tracks

\* The worker's request is given up, and it is not one of the pair's.
LEMMA EntryWhenGivenUp ==
    ASSUME NEW req, NEW req2, NEW n \in Nat, NEW about, NEW up, NEW del, NEW entry, NEW x,
           NEW owner, NEW h, NEW held,
           Tracks(req, n, about, up, del, owner, h, entry, x, held),
           ZoneOf(about, up, del), req[0] # up, req[0] # del, req2[0] \notin DnsRequests,
           \A j \in 0..n : j # 0 => req2[j] = req[j]
    PROVE  Tracks(req2, n, about, up, del, owner, h, entry, x, held)
<1>1. PICK k \in -1..n : TracksFrom(k, req, n, about, up, del, owner, h, entry, x, held)
  BY Zenon DEF Tracks
<1>2. k # 0 /\ req2[0] \notin about
  BY <1>1, SMT DEF TracksFrom, ZoneOf
<1>3. k # -1 => req2[k] = up
  <2>1. k # -1 => k \in 0..n
    BY SMT
  <2> QED  BY <1>1, <1>2, <2>1, SMT DEF TracksFrom
<1>4. \A j \in 0..n : j > k /\ req2[j] \in about =>
          req2[j].act = "delete" /\ (owner = h => req2[j] # del)
  BY <1>1, <1>2, SMT DEF TracksFrom
<1>5. (\E j \in 0..n : j > k /\ req[j] = del) => \E j \in 0..n : j > k /\ req2[j] = del
  BY SMT
<1>6. TracksFrom(k, req2, n, about, up, del, owner, h, entry, x, held)
  BY <1>1, <1>3, <1>4, <1>5, SMT DEF TracksFrom
<1> QED  BY <1>6, Zenon DEF Tracks

\* The name server carries out the worker's request r, which names y.
AppliedTo(r, about, up, del, x, y, entry, entry2) ==
    /\ r = up \/ r = del => y = x
    /\ r \in about /\ r.act = "delete" /\ r # del => y # x
    /\ entry2 = IF r \in about THEN Updated(entry, r.act, y) ELSE entry
Shifts(req, req2, n) == \A j \in 0..n : j # 0 => req2[j] = req[j]

LEMMA EntryWhenSent ==
    ASSUME NEW req, NEW req2, NEW n \in Nat, NEW about, NEW up, NEW del, NEW entry, NEW entry2,
           NEW x, NEW y, NEW owner, NEW h, NEW held, NEW r \in DnsRequests,
           Tracks(req, n, about, up, del, owner, h, entry, x, held),
           ZoneOf(about, up, del), req[0] = r, req2[0] \notin DnsRequests, Shifts(req, req2, n),
           AppliedTo(r, about, up, del, x, y, entry, entry2)
    PROVE  Tracks(req2, n, about, up, del, owner, h, entry2, x, held)
<1>1. PICK k \in -1..n : TracksFrom(k, req, n, about, up, del, owner, h, entry, x, held)
  BY Zenon DEF Tracks
<1>2. up # del /\ req2[0] \notin about /\ req2[0] # del
  BY SMT DEF ZoneOf
<1>3. \A j \in 0..n : j > k /\ req2[j] \in about =>
          req2[j].act = "delete" /\ (owner = h => req2[j] # del)
  BY <1>1, <1>2, SMT DEF TracksFrom, Shifts
<1>4. CASE k > 0
  <2>1. k # -1 /\ k \in 0..n /\ k # 0
    BY <1>4, SMT
  <2>2. req2[k] = up
    BY <1>1, <2>1, SMT DEF TracksFrom, Shifts
  <2>3. (\E j \in 0..n : j > k /\ req[j] = del) => \E j \in 0..n : j > k /\ req2[j] = del
    BY <1>4, SMT DEF Shifts
  <2>4. TracksFrom(k, req2, n, about, up, del, owner, h, entry2, x, held)
    BY <1>1, <1>3, <2>1, <2>2, <2>3, SMT DEF TracksFrom
  <2> QED  BY <2>4, Zenon DEF Tracks
<1>5. CASE k = 0
  <2>1. r = up /\ y = x /\ r \in about
    BY <1>1, <1>5, SMT DEF TracksFrom, AppliedTo, ZoneOf
  <2>2. entry2 = {x}
    BY <2>1, SMT DEF AppliedTo, Updated, ZoneOf
  <2>3. \A j \in 0..n : j > -1 /\ req2[j] \in about =>
            req2[j].act = "delete" /\ (owner = h => req2[j] # del)
    BY <1>2, <1>3, <1>5, SMT
  <2>4. owner # h => \/ \E j \in 0..n : j > -1 /\ req2[j] = del
                     \/ del \in held
    BY <1>1, <1>5, SMT DEF TracksFrom, Shifts
  <2>5. TracksFrom(-1, req2, n, about, up, del, owner, h, entry2, x, held)
    BY <2>2, <2>3, <2>4, SMT DEF TracksFrom
  <2>6. -1 \in -1..n
    BY SMT
  <2> QED  BY <2>5, <2>6, Zenon DEF Tracks
<1>6. CASE k = -1
  <2>1. 0 \in 0..n /\ 0 > k
    BY <1>6, SMT
  <2>2. r \in about => r.act = "delete" /\ (owner = h => r # del)
    BY <1>1, <2>1, SMT DEF TracksFrom
  <2>3. entry2 = IF r \in about THEN entry \ {y} ELSE entry
    BY <2>2, SMT DEF AppliedTo, Updated
  <2>4. entry2 \subseteq entry
    BY <2>3, SMT
  <2>5. entry \subseteq {x} /\ (owner = h => entry = {x})
    BY <1>1, <1>6, SMT DEF TracksFrom
  <2>6. owner = h => entry2 = {x}
    <3>1. ASSUME owner = h, r \in about PROVE y # x
      BY <2>2, <3>1, Zenon DEF AppliedTo
    <3> QED  BY <2>3, <2>5, <3>1, SMT
  <2>7. ASSUME owner # h
        PROVE  entry2 = {} \/ (\E j \in 0..n : j > k /\ req2[j] = del) \/ del \in held
    <3>1. entry = {} \/ (\E j \in 0..n : j > k /\ req[j] = del) \/ del \in held
      BY <1>1, <2>7, SMT DEF TracksFrom
    <3>2. ASSUME NEW j \in 0..n, j > k, req[j] = del, j = 0 PROVE entry2 = {}
      <4>1. r = del /\ y = x /\ r \in about
        BY <3>2, SMT DEF ZoneOf, AppliedTo
      <4> QED  BY <2>3, <2>5, <4>1, SMT
    <3>3. ASSUME NEW j \in 0..n, j > k, req[j] = del, j # 0 PROVE req2[j] = del
      BY <3>3 DEF Shifts
    <3> QED  BY <2>4, <3>1, <3>2, <3>3, SMT
  <2>8. TracksFrom(-1, req2, n, about, up, del, owner, h, entry2, x, held)
    BY <1>3, <1>6, <2>4, <2>5, <2>6, <2>7, SMT DEF TracksFrom
  <2> QED  BY <1>6, <2>8, Zenon DEF Tracks
<1> QED  BY <1>4, <1>5, <1>6, SMT

\* With nothing about the name under way, the entry is right.
LEMMA EntrySettled ==
    ASSUME NEW req, NEW n \in Nat, NEW about, NEW up, NEW del, NEW entry, NEW x,
           NEW owner, NEW h, NEW held,
           Tracks(req, n, about, up, del, owner, h, entry, x, held),
           ZoneOf(about, up, del), \A j \in 0..n : req[j] # up /\ req[j] # del, del \notin held
    PROVE  entry = IF owner = h THEN {x} ELSE {}
<1>1. PICK k \in -1..n : TracksFrom(k, req, n, about, up, del, owner, h, entry, x, held)
  BY Zenon DEF Tracks
<1>2. k = -1
  <2>1. k # -1 => k \in 0..n
    BY SMT
  <2> QED  BY <1>1, <2>1, SMT DEF TracksFrom
<1> QED  BY <1>1, <1>2, SMT DEF TracksFrom

\* A right entry stays so when the process starts again with nothing to send.
LEMMA EntryAfterRestart ==
    ASSUME NEW req, NEW about, NEW up, NEW del, NEW entry, NEW x, NEW owner, NEW h, NEW held,
           entry = (IF owner = h THEN {x} ELSE {}),
           ZoneOf(about, up, del), req[0] \notin DnsRequests
    PROVE  Tracks(req, 0, about, up, del, owner, h, entry, x, held)
<1>1. req[0] \notin about
  BY DEF ZoneOf
<1>2. \A j \in 0..0 : j = 0
  BY SMT
<1>3. TracksFrom(-1, req, 0, about, up, del, owner, h, entry, x, held)
  BY <1>1, <1>2, SMT DEF TracksFrom
<1>4. -1 \in -1..0
  BY SMT
<1> QED  BY <1>3, <1>4, Zenon DEF Tracks

-----------------------------------------------------------------------------
(* The same about the queue itself.                                        *)

LEMMA PairFacts ==
    ASSUME NEW h \in DnsHosts, NEW ip \in DnsIPs
    PROVE  /\ UpsertOf(h, ip) \in DnsRequests /\ DeleteOf(h, ip) \in DnsRequests
           /\ ZoneOf(AboutHost(h), UpsertOf(h, ip), DeleteOf(h, ip))
           /\ ZoneOf(AboutIP(ip), UpsertOf(h, ip), DeleteOf(h, ip))
           /\ \A r \in DnsRequests : r.host = h /\ r.ip = ip => r = UpsertOf(h, ip) \/ r = DeleteOf(h, ip)
           /\ \A r : r = UpsertOf(h, ip) \/ r = DeleteOf(h, ip) => r.host = h /\ r.ip = ip
           /\ UpsertOf(h, ip) # DeleteOf(h, ip)
  BY SMT DEF UpsertOf, DeleteOf, DnsRequests, NamedRequests, LeaseHosts, ZoneOf, AboutHost, AboutIP

LEMMA LineFacts ==
    ASSUME NEW q \in Seq(DnsRequests), NEW first
    PROVE  /\ Len(q) \in Nat /\ DnsLine(q, first)[0] = first
           /\ \A j \in 0..Len(q) : j # 0 => DnsLine(q, first)[j] = q[j] /\ q[j] \in DnsRequests
  BY SMT DEF DnsLine

LEMMA ZoneQueued ==
    ASSUME NEW q \in Seq(DnsRequests), NEW r \in DnsRequests, NEW first, NEW about,
           NEW h \in DnsHosts, NEW ip \in DnsIPs, NEW owner, NEW entry, NEW x, NEW held, NEW held2,
           ZoneTracks(q, first, about, h, ip, owner, entry, x, held),
           r \in about => r.act = "delete", r = DeleteOf(h, ip) => owner # h,
           DeleteOf(h, ip) \in held => DeleteOf(h, ip) \in held2 \/ r = DeleteOf(h, ip)
    PROVE  ZoneTracks(Append(q, r), first, about, h, ip, owner, entry, x, held2)
<1>1. Len(q) \in Nat /\ Append(q, r) \in Seq(DnsRequests) /\ Len(Append(q, r)) = Len(q) + 1
  BY SMT
<1>2. \A j \in 0..Len(q) : DnsLine(Append(q, r), first)[j] = DnsLine(q, first)[j]
  BY SMT DEF DnsLine
<1>3. DnsLine(Append(q, r), first)[Len(q) + 1] = r
  BY SMT DEF DnsLine
<1>4. PICK n, req, req2, up, del : /\ n = Len(q) /\ req = DnsLine(q, first) /\ req2 = DnsLine(Append(q, r), first)
                                   /\ up = UpsertOf(h, ip) /\ del = DeleteOf(h, ip)
  OBVIOUS
<1>5. n \in Nat /\ Grows(req, req2, n, r) /\ Tracks(req, n, about, up, del, owner, h, entry, x, held)
  BY <1>1, <1>2, <1>3, <1>4, Zenon DEF ZoneTracks, Grows
<1>6. Joins(r, about, del, owner, h, held, held2)
  BY <1>4, Zenon DEF Joins
<1>7. Tracks(req2, n + 1, about, up, del, owner, h, entry, x, held2)
  BY <1>5, <1>6, EntryWhenQueued, SMT
<1> QED  BY <1>1, <1>4, <1>7, Zenon DEF ZoneTracks

LEMMA ZoneRenewed ==
    ASSUME NEW q \in Seq(DnsRequests), NEW first, NEW about, NEW h \in DnsHosts, NEW ip \in DnsIPs,
           NEW entry, NEW x, NEW held
    PROVE  ZoneTracks(Append(q, UpsertOf(h, ip)), first, about, h, ip, h, entry, x, held)
<1>1. PICK q2 : q2 = Append(q, UpsertOf(h, ip))
  OBVIOUS
<1>2. Len(q) \in Nat /\ Len(q2) = Len(q) + 1 /\ q2[Len(q) + 1] = UpsertOf(h, ip)
  BY <1>1, PairFacts, SMT
<1>3. DnsLine(q2, first)[Len(q) + 1] = UpsertOf(h, ip)
  BY <1>2, SMT DEF DnsLine
<1>4. Tracks(DnsLine(q2, first), Len(q) + 1, about, UpsertOf(h, ip), DeleteOf(h, ip), h, h, entry, x, held)
  BY <1>2, <1>3, EntryWhenRenewed, Zenon
<1> QED  BY <1>1, <1>2, <1>4, Zenon DEF ZoneTracks

LEMMA ZoneTaken ==
    ASSUME NEW q \in Seq(DnsRequests), q # <<>>, NEW first, first \notin DnsRequests, NEW about,
           NEW h \in DnsHosts, NEW ip \in DnsIPs, NEW owner, NEW entry, NEW x, NEW held,
           ZoneOf(about, UpsertOf(h, ip), DeleteOf(h, ip)),
           ZoneTracks(q, first, about, h, ip, owner, entry, x, held)
    PROVE  ZoneTracks(Tail(q), Head(q), about, h, ip, owner, entry, x, held)
<1>1. Len(q) \in Nat \ {0} /\ Tail(q) \in Seq(DnsRequests) /\ Len(Tail(q)) = Len(q) - 1
  BY SMT
<1>2. \A j \in 0..(Len(q) - 1) : DnsLine(Tail(q), Head(q))[j] = DnsLine(q, first)[j + 1]
  BY SMT DEF DnsLine
<1>3. DnsLine(q, first)[0] \notin DnsRequests
  BY LineFacts, SMT
<1>4. Tracks(DnsLine(Tail(q), Head(q)), Len(q) - 1, about, UpsertOf(h, ip), DeleteOf(h, ip),
             owner, h, entry, x, held)
  BY <1>1, <1>2, <1>3, EntryWhenTaken, Zenon DEF ZoneTracks
<1> QED  BY <1>1, <1>4, Zenon DEF ZoneTracks

LEMMA ZoneGivenUp ==
    ASSUME NEW q \in Seq(DnsRequests), NEW first, NEW first2, first2 \notin DnsRequests, NEW about,
           NEW h \in DnsHosts, NEW ip \in DnsIPs, NEW owner, NEW entry, NEW x, NEW held,
           first # UpsertOf(h, ip), first # DeleteOf(h, ip),
           ZoneOf(about, UpsertOf(h, ip), DeleteOf(h, ip)),
           ZoneTracks(q, first, about, h, ip, owner, entry, x, held)
    PROVE  ZoneTracks(q, first2, about, h, ip, owner, entry, x, held)
<1>1. Len(q) \in Nat /\ DnsLine(q, first)[0] = first /\ DnsLine(q, first2)[0] = first2
  BY LineFacts
<1>2. \A j \in 0..Len(q) : j # 0 => DnsLine(q, first2)[j] = DnsLine(q, first)[j]
  BY SMT DEF DnsLine
<1>3. PICK n, req, req2, up, del : /\ n = Len(q) /\ req = DnsLine(q, first) /\ req2 = DnsLine(q, first2)
                                   /\ up = UpsertOf(h, ip) /\ del = DeleteOf(h, ip)
  OBVIOUS
<1>4. /\ n \in Nat /\ req[0] # up /\ req[0] # del /\ req2[0] \notin DnsRequests
      /\ \A j \in 0..n : j # 0 => req2[j] = req[j]
      /\ ZoneOf(about, up, del) /\ Tracks(req, n, about, up, del, owner, h, entry, x, held)
  BY <1>1, <1>2, <1>3, Zenon DEF ZoneTracks
<1>5. Tracks(req2, n, about, up, del, owner, h, entry, x, held)
  BY <1>4, EntryWhenGivenUp, SMT
<1> QED  BY <1>3, <1>5, Zenon DEF ZoneTracks

LEMMA ZoneSent ==
    ASSUME NEW q \in Seq(DnsRequests), NEW r \in DnsRequests, NEW first2, first2 \notin DnsRequests,
           NEW about, NEW h \in DnsHosts, NEW ip \in DnsIPs, NEW owner,
           NEW entry, NEW entry2, NEW x, NEW y, NEW held,
           ZoneOf(about, UpsertOf(h, ip), DeleteOf(h, ip)),
           ZoneTracks(q, r, about, h, ip, owner, entry, x, held),
           AppliedTo(r, about, UpsertOf(h, ip), DeleteOf(h, ip), x, y, entry, entry2)
    PROVE  ZoneTracks(q, first2, about, h, ip, owner, entry2, x, held)
<1>1. Len(q) \in Nat /\ DnsLine(q, r)[0] = r /\ DnsLine(q, first2)[0] = first2
  BY LineFacts
<1>2. \A j \in 0..Len(q) : j # 0 => DnsLine(q, first2)[j] = DnsLine(q, r)[j]
  BY SMT DEF DnsLine
<1>3. PICK n, req, req2, up, del : /\ n = Len(q) /\ req = DnsLine(q, r) /\ req2 = DnsLine(q, first2)
                                   /\ up = UpsertOf(h, ip) /\ del = DeleteOf(h, ip)
  OBVIOUS
<1>4. /\ n \in Nat /\ req[0] = r /\ req2[0] \notin DnsRequests /\ Shifts(req, req2, n)
      /\ ZoneOf(about, up, del) /\ Tracks(req, n, about, up, del, owner, h, entry, x, held)
  BY <1>1, <1>2, <1>3, Zenon DEF ZoneTracks, Shifts
<1>5. AppliedTo(r, about, up, del, x, y, entry, entry2)
  BY <1>3, Zenon
<1>6. Tracks(req2, n, about, up, del, owner, h, entry2, x, held)
  BY <1>4, <1>5, EntryWhenSent, SMT
<1> QED  BY <1>3, <1>6, Zenon DEF ZoneTracks

\* The records of a live lease, or none.
Says(entry, owner, h, x) == entry = IF owner = h THEN {x} ELSE {}

LEMMA ZoneSettled ==
    ASSUME NEW q \in Seq(DnsRequests), NEW first, NEW about, NEW h \in DnsHosts, NEW ip \in DnsIPs,
           NEW owner, NEW entry, NEW x, NEW held, NEW S,
           ZoneOf(about, UpsertOf(h, ip), DeleteOf(h, ip)),
           ZoneTracks(q, first, about, h, ip, owner, entry, x, held),
           Range(q) \subseteq S, first \in S, held \subseteq S,
           UpsertOf(h, ip) \notin S, DeleteOf(h, ip) \notin S
    PROVE  Says(entry, owner, h, x)
<1>1. Len(q) \in Nat /\ DnsLine(q, first)[0] = first
  BY LineFacts
<1>2. ASSUME NEW j \in 0..Len(q) PROVE DnsLine(q, first)[j] \in S
  BY SMT DEF DnsLine, Range
<1>3. \A j \in 0..Len(q) : DnsLine(q, first)[j] # UpsertOf(h, ip) /\ DnsLine(q, first)[j] # DeleteOf(h, ip)
  BY <1>2
<1>4. PICK n, req, up, del : /\ n = Len(q) /\ req = DnsLine(q, first)
                             /\ up = UpsertOf(h, ip) /\ del = DeleteOf(h, ip)
  OBVIOUS
<1>5. /\ n \in Nat /\ (\A j \in 0..n : req[j] # up /\ req[j] # del) /\ del \notin held
      /\ ZoneOf(about, up, del) /\ Tracks(req, n, about, up, del, owner, h, entry, x, held)
  BY <1>1, <1>3, <1>4, Zenon DEF ZoneTracks
<1> QED  BY <1>5, EntrySettled, SMT DEF Says

LEMMA ZoneRestarted ==
    ASSUME NEW first, first \notin DnsRequests, NEW about, NEW h \in DnsHosts, NEW ip \in DnsIPs,
           NEW owner, NEW entry, NEW x, NEW held,
           ZoneOf(about, UpsertOf(h, ip), DeleteOf(h, ip)),
           entry = IF owner = h THEN {x} ELSE {}
    PROVE  ZoneTracks(<<>>, first, about, h, ip, owner, entry, x, held)
<1>1. DnsLine(<<>>, first)[0] = first /\ Len(<<>>) = 0
  BY SMT DEF DnsLine
<1> QED  BY <1>1, EntryAfterRestart, Zenon DEF ZoneTracks

-----------------------------------------------------------------------------
(* The steps.                                                              *)

LEMMA ServerIsProducer == "server" \in Producers /\ "sweeper" \in Producers
  BY DEF Producers

LEMMA HandIs ==
    ASSUME DdnsTypes, NEW p \in Producers
    PROVE  hand[p] = Nothing \/ hand[p] \in DnsRequests
  BY Zenon DEF DdnsTypes

LEMMA NamesApart ==
    /\ DnsHosts \subseteq LeaseHosts /\ Nameless \in LeaseHosts /\ Nameless \notin DnsHosts
    /\ NoHost \notin LeaseHosts
    /\ \A h \in LeaseHosts : h # Nameless => h \in DnsHosts
  BY DDNSAssumption DEF LeaseHosts

LEMMA RequestOf ==
    ASSUME NEW h \in LeaseHosts, NEW ip \in DnsIPs
    PROVE  /\ UpsertOf(h, ip) \in DnsRequests /\ DeleteOf(h, ip) \in DnsRequests
           /\ UpsertOf(h, ip).act = "upsert" /\ DeleteOf(h, ip).act = "delete"
           /\ UpsertOf(h, ip).host = h /\ UpsertOf(h, ip).ip = ip
           /\ DeleteOf(h, ip).host = h /\ DeleteOf(h, ip).ip = ip
  BY SMT DEF UpsertOf, DeleteOf, DnsRequests

LEMMA Named ==
    ASSUME NEW r \in DnsRequests
    PROVE  /\ r.host \in LeaseHosts /\ r.ip \in DnsIPs /\ r.act \in {"upsert", "delete"}
           /\ r.host # Nameless => r \in NamedRequests
<1>1. r.host \in LeaseHosts /\ r.ip \in DnsIPs /\ r.act \in {"upsert", "delete"}
  BY SMT DEF DnsRequests
<1>2. r = [act |-> r.act, host |-> r.host, ip |-> r.ip]
  BY SMT DEF DnsRequests
<1> QED  BY <1>1, <1>2, NamesApart, SMT DEF NamedRequests

LEMMA NamedIsRequest ==
    ASSUME NEW r \in NamedRequests
    PROVE  r \in DnsRequests /\ r.host \in DnsHosts /\ r.host # Nameless
  BY NamesApart, SMT DEF NamedRequests, DnsRequests

LEMMA GrantTypes ==
    ASSUME DdnsTypes, HandsOK, NEW h \in LeaseHosts, NEW ip \in DnsIPs, Grant(h, ip)
    PROVE  DdnsTypes' /\ HandsOK'
<1>1. UpsertOf(h, ip) \in DnsRequests /\ UpsertOf(h, ip).host = h /\ UpsertOf(h, ip).ip = ip
  BY RequestOf
<1>2. /\ hand' = [hand EXCEPT !["server"] = UpsertOf(h, ip)]
      /\ leased' = [leased EXCEPT ![ip] = h]
      /\ last' = IF h = Nameless THEN last
                 ELSE [host |-> [last.host EXCEPT ![h] = ip], ip |-> [last.ip EXCEPT ![ip] = h]]
      /\ UNCHANGED <<listed, dqueue, worker, fwd, ptr>>
  BY SMT DEF Grant, Writes, UpsertOf
<1>3. DdnsTypes'
  <2>1. hand' \in [Producers -> DnsRequests \cup {Nothing}]
    <3>1. PICK r \in DnsRequests, p \in Producers : r = UpsertOf(h, ip) /\ p = "server"
      BY <1>1, ServerIsProducer
    <3>2. hand' = [hand EXCEPT ![p] = r]
      BY <1>2, <3>1
    <3> QED  BY <3>2, SMT DEF DdnsTypes
  <2>2. leased' \in [DnsIPs -> LeaseHosts \cup {NoHost}]
    BY <1>2, SMT DEF DdnsTypes
  <2>3. last.host \in [DnsHosts -> DnsIPs \cup {NoHost}] /\ last.ip \in [DnsIPs -> DnsHosts \cup {NoHost}]
    BY SMT DEF DdnsTypes
  <2>4. last' \in [host : [DnsHosts -> DnsIPs \cup {NoHost}], ip : [DnsIPs -> DnsHosts \cup {NoHost}]]
    <3>1. CASE h = Nameless
      BY <1>2, <3>1, Zenon DEF DdnsTypes
    <3>2. CASE h # Nameless
      <4>1. h \in DnsHosts
        BY <3>2, NamesApart
      <4>2. last' = [host |-> [last.host EXCEPT ![h] = ip], ip |-> [last.ip EXCEPT ![ip] = h]]
        BY <1>2, <3>2, Zenon
      <4> QED  BY <2>3, <4>1, <4>2, SMT
    <3> QED  BY <3>1, <3>2
  <2> QED  BY <1>2, <2>1, <2>2, <2>4, Zenon DEF DdnsTypes
<1>4. hand'["server"] = UpsertOf(h, ip) /\ hand'["sweeper"] = hand["sweeper"]
  BY <1>2, ServerIsProducer, SMT DEF DdnsTypes
<1>5. HandsOK'
  <2>1. CASE h = Nameless
    BY <1>1, <1>4, <2>1, SMT DEF HandsOK
  <2>2. CASE h # Nameless
    <3>1. h \in DnsHosts
      BY <2>2, NamesApart
    <3>2. last'.host[h] = ip /\ last'.ip[ip] = h
      <4>1. last.host \in [DnsHosts -> DnsIPs \cup {NoHost}] /\ last.ip \in [DnsIPs -> DnsHosts \cup {NoHost}]
        BY SMT DEF DdnsTypes
      <4>2. last' = [host |-> [last.host EXCEPT ![h] = ip], ip |-> [last.ip EXCEPT ![ip] = h]]
        BY <1>2, <2>2, Zenon
      <4> QED  BY <3>1, <4>1, <4>2, SMT
    <3> QED  BY <1>1, <1>4, <3>2, SMT DEF HandsOK
  <2> QED  BY <2>1, <2>2
<1> QED  BY <1>3, <1>5

LEMMA OfferTypes ==
    ASSUME DdnsTypes, HandsOK, NEW h \in LeaseHosts, NEW ip \in DnsIPs, StoreOffer(h, ip)
    PROVE  DdnsTypes' /\ HandsOK'
<1>1. leased' = [leased EXCEPT ![ip] = h] /\ UNCHANGED <<listed, hand, dqueue, worker, fwd, ptr, last>>
  BY Zenon DEF StoreOffer
<1>2. leased' \in [DnsIPs -> LeaseHosts \cup {NoHost}]
  BY <1>1, SMT DEF DdnsTypes
<1>3. HandsOK'
  BY <1>1, Zenon DEF HandsOK
<1> QED  BY <1>1, <1>2, <1>3, Zenon DEF DdnsTypes

\* The hands after a step that changes one of them to r, no upsert.
LEMMA HandTypes ==
    ASSUME DdnsTypes, HandsOK, NEW p \in Producers, NEW r, r.act # "upsert",
           r \in DnsRequests \cup {Nothing}, hand' = [hand EXCEPT ![p] = r], last' = last
    PROVE  hand' \in [Producers -> DnsRequests \cup {Nothing}] /\ HandsOK'
<1>1. hand' \in [Producers -> DnsRequests \cup {Nothing}]
  BY SMT DEF DdnsTypes
<1>2. \A o \in Producers : hand'[o] = r \/ hand'[o] = hand[o]
  BY SMT DEF DdnsTypes
<1>3. HandsOK'
  BY <1>2, ServerIsProducer, SMT DEF HandsOK
<1> QED  BY <1>1, <1>3

\* A producer writes the end of a lease of h and holds the deletion.
LEMMA EndTypes ==
    ASSUME DdnsTypes, HandsOK, NEW p \in Producers, NEW h \in LeaseHosts, NEW ip \in DnsIPs,
           hand' = [hand EXCEPT ![p] = DeleteOf(h, ip)], leased' = [leased EXCEPT ![ip] = NoHost],
           listed' = listed \/ listed' = [listed EXCEPT ![ip] = NoHost],
           UNCHANGED <<dqueue, worker, fwd, ptr, last>>
    PROVE  DdnsTypes' /\ HandsOK'
<1>1. DeleteOf(h, ip).act # "upsert" /\ DeleteOf(h, ip) \in DnsRequests \cup {Nothing}
  BY RequestOf
<1>2. hand' \in [Producers -> DnsRequests \cup {Nothing}] /\ HandsOK'
  BY <1>1, HandTypes, Zenon
<1>3. leased' \in [DnsIPs -> LeaseHosts \cup {NoHost}]
  BY SMT DEF DdnsTypes
<1>4. listed' \in [DnsIPs -> LeaseHosts \cup {NoHost}]
  BY SMT DEF DdnsTypes
<1> QED  BY <1>2, <1>3, <1>4, Zenon DEF DdnsTypes

LEMMA ReleaseFacts ==
    ASSUME DdnsTypes, NEW ip \in DnsIPs, Release(ip)
    PROVE  /\ leased[ip] \in LeaseHosts
           /\ hand["server"] = Nothing /\ hand' = [hand EXCEPT !["server"] = DeleteOf(leased[ip], ip)]
           /\ leased' = [leased EXCEPT ![ip] = NoHost]
           /\ UNCHANGED <<listed, dqueue, worker, fwd, ptr, last, off>>
<1>1. leased[ip] \in LeaseHosts
  BY SMT DEF Release, DdnsTypes
<1> QED  BY <1>1, SMT DEF Release, Writes, DeleteOf

LEMMA ExpireFacts ==
    ASSUME DdnsTypes, NEW ip \in DnsIPs, Expire(ip)
    PROVE  /\ listed[ip] \in LeaseHosts
           /\ hand["sweeper"] = Nothing /\ hand' = [hand EXCEPT !["sweeper"] = DeleteOf(listed[ip], ip)]
           /\ leased' = [leased EXCEPT ![ip] = NoHost] /\ listed' = [listed EXCEPT ![ip] = NoHost]
           /\ off' = off \cup Renamed(ip, listed[ip])
           /\ UNCHANGED <<dqueue, worker, fwd, ptr, last>>
<1>1. listed[ip] \in LeaseHosts
  BY SMT DEF Expire, DdnsTypes
<1> QED  BY <1>1, SMT DEF Expire, Writes, DeleteOf

LEMMA ReleaseTypes ==
    ASSUME DdnsTypes, HandsOK, NEW ip \in DnsIPs, Release(ip)
    PROVE  DdnsTypes' /\ HandsOK'
<1>1. PICK h \in LeaseHosts : h = leased[ip]
  BY ReleaseFacts
<1>2. /\ hand' = [hand EXCEPT !["server"] = DeleteOf(h, ip)] /\ leased' = [leased EXCEPT ![ip] = NoHost]
      /\ listed' = listed /\ UNCHANGED <<dqueue, worker, fwd, ptr, last>>
  BY <1>1, ReleaseFacts
<1>3. PICK p \in Producers : p = "server"
  BY ServerIsProducer
<1>4. hand' = [hand EXCEPT ![p] = DeleteOf(h, ip)]
  BY <1>2, <1>3
<1> QED  BY <1>2, <1>4, EndTypes, Zenon

LEMMA ExpireTypes ==
    ASSUME DdnsTypes, HandsOK, NEW ip \in DnsIPs, Expire(ip)
    PROVE  DdnsTypes' /\ HandsOK'
<1>1. PICK h \in LeaseHosts : h = listed[ip]
  BY ExpireFacts
<1>2. /\ hand' = [hand EXCEPT !["sweeper"] = DeleteOf(h, ip)] /\ leased' = [leased EXCEPT ![ip] = NoHost]
      /\ listed' = [listed EXCEPT ![ip] = NoHost] /\ UNCHANGED <<dqueue, worker, fwd, ptr, last>>
  BY <1>1, ExpireFacts
<1>3. PICK p \in Producers : p = "sweeper"
  BY ServerIsProducer
<1>4. hand' = [hand EXCEPT ![p] = DeleteOf(h, ip)]
  BY <1>2, <1>3
<1> QED  BY <1>2, <1>4, EndTypes, Zenon

LEMMA ListsTypes ==
    ASSUME DdnsTypes, HandsOK, NEW due \in SUBSET DnsIPs, SweeperLists(due)
    PROVE  DdnsTypes' /\ HandsOK'
<1>1. /\ listed' = [ip \in DnsIPs |-> IF ip \in due THEN leased[ip] ELSE NoHost]
      /\ UNCHANGED <<leased, hand, dqueue, worker, fwd, ptr, last>>
  BY Zenon DEF SweeperLists
<1>2. listed' \in [DnsIPs -> LeaseHosts \cup {NoHost}]
  BY <1>1, SMT DEF DdnsTypes
<1>3. HandsOK'
  BY <1>1, Zenon DEF HandsOK
<1> QED  BY <1>1, <1>2, <1>3, Zenon DEF DdnsTypes

LEMMA ApiReleasesTypes ==
    ASSUME DdnsTypes, HandsOK, NEW ip \in DnsIPs, ApiReleases(ip)
    PROVE  DdnsTypes' /\ HandsOK'
  BY SMT DEF DdnsTypes, HandsOK, ApiReleases

LEMMA QueueTypes ==
    ASSUME DdnsTypes, HandsOK, NEW p \in Producers, QueueDDNS(p)
    PROVE  DdnsTypes' /\ HandsOK'
<1>1. hand[p] \in DnsRequests /\ hand' = [hand EXCEPT ![p] = Nothing]
  BY HandIs, Zenon DEF QueueDDNS
<1>2. UNCHANGED <<leased, listed, worker, fwd, ptr, last>>
  BY Zenon DEF QueueDDNS
<1>3. hand' \in [Producers -> DnsRequests \cup {Nothing}] /\ HandsOK'
  <2>1. Nothing.act # "upsert" /\ Nothing \in DnsRequests \cup {Nothing}
    BY SMT DEF Nothing
  <2> QED  BY <1>1, <1>2, <2>1, HandTypes, Zenon
<1>4. dqueue' \in Seq(DnsRequests) /\ Len(dqueue') <= DdnsQueueCap
  BY <1>1, DDNSAssumption, SMT DEF QueueDDNS, DdnsTypes
<1> QED  BY <1>2, <1>3, <1>4, SMT DEF DdnsTypes

LEMMA TakeTypes ==
    ASSUME DdnsTypes, HandsOK, Take
    PROVE  DdnsTypes' /\ HandsOK'
<1>1. dqueue \in Seq(DnsRequests) /\ dqueue # <<>>
  BY Zenon DEF DdnsTypes, Take
<1>2. Head(dqueue) \in DnsRequests /\ dqueue' \in Seq(DnsRequests) /\ Len(dqueue') <= DdnsQueueCap
  BY <1>1, DDNSAssumption, SMT DEF DdnsTypes, Take
<1>3. worker' = WorkerIdle \/ worker' \in [req : NamedRequests, zone : {"forward", "reverse"}]
  <2>1. PICK r \in DnsRequests : r = Head(dqueue)
    BY <1>2
  <2>2. CASE r.host = Nameless
    BY <2>1, <2>2, Zenon DEF Take
  <2>3. CASE r.host # Nameless
    <3>1. r \in NamedRequests
      BY <2>3, Named
    <3>2. worker' = [req |-> r, zone |-> "forward"]
      BY <2>1, <2>3, Zenon DEF Take
    <3> QED  BY <3>1, <3>2, SMT
  <2> QED  BY <2>2, <2>3
<1> QED  BY <1>2, <1>3, SMT DEF DdnsTypes, HandsOK, Take

\* What the worker is busy with.
LEMMA WorkerBusy ==
    ASSUME DdnsTypes, worker # WorkerIdle
    PROVE  /\ worker \in [req : NamedRequests, zone : {"forward", "reverse"}]
           /\ worker.req \in NamedRequests /\ worker.zone \in {"forward", "reverse"}
           /\ worker.req.host \in DnsHosts /\ worker.req.ip \in DnsIPs
           /\ worker.req.act \in {"upsert", "delete"}
  BY SMT DEF DdnsTypes, NamedRequests

LEMMA ServerTypes ==
    ASSUME DdnsTypes, worker # WorkerIdle, ServerApplies(worker.req, worker.zone)
    PROVE  fwd' \in [DnsHosts -> SUBSET DnsIPs] /\ ptr' \in [DnsIPs -> SUBSET DnsHosts]
<1>1. PICK r \in NamedRequests : r = worker.req /\ r.host \in DnsHosts /\ r.ip \in DnsIPs
  BY WorkerBusy
<1>2. \A old \in SUBSET DnsIPs : Updated(old, r.act, r.ip) \in SUBSET DnsIPs
  BY <1>1, SMT DEF Updated
<1>3. \A old \in SUBSET DnsHosts : Updated(old, r.act, r.host) \in SUBSET DnsHosts
  BY <1>1, SMT DEF Updated
<1>4. fwd' = fwd \/ fwd' = [fwd EXCEPT ![r.host] = Updated(@, r.act, r.ip)]
  BY <1>1, SMT DEF ServerApplies
<1>5. ptr' = ptr \/ ptr' = [ptr EXCEPT ![r.ip] = Updated(@, r.act, r.host)]
  BY <1>1, SMT DEF ServerApplies
<1>6. fwd' \in [DnsHosts -> SUBSET DnsIPs]
  <2>1. fwd[r.host] \in SUBSET DnsIPs
    BY <1>1, SMT DEF DdnsTypes
  <2>2. Updated(fwd[r.host], r.act, r.ip) \in SUBSET DnsIPs
    BY <1>2, <2>1
  <2> QED  BY <1>4, <2>2, SMT DEF DdnsTypes
<1>7. ptr' \in [DnsIPs -> SUBSET DnsHosts]
  <2>1. ptr[r.ip] \in SUBSET DnsHosts
    BY <1>1, SMT DEF DdnsTypes
  <2>2. Updated(ptr[r.ip], r.act, r.host) \in SUBSET DnsHosts
    BY <1>3, <2>1
  <2> QED  BY <1>5, <2>2, SMT DEF DdnsTypes
<1> QED  BY <1>6, <1>7

LEMMA SendTypes ==
    ASSUME DdnsTypes, HandsOK, SendUpdate
    PROVE  DdnsTypes' /\ HandsOK'
<1>1. fwd' \in [DnsHosts -> SUBSET DnsIPs] /\ ptr' \in [DnsIPs -> SUBSET DnsHosts]
  BY ServerTypes, Zenon DEF SendUpdate
<1>2. \/ worker' = WorkerIdle
      \/ worker' \in [req : NamedRequests, zone : {"forward", "reverse"}]
  BY WorkerBusy, SMT DEF SendUpdate
<1> QED  BY <1>1, <1>2, SMT DEF DdnsTypes, HandsOK, SendUpdate

LEMMA FailTypes ==
    ASSUME DdnsTypes, HandsOK, NEW reached \in BOOLEAN, SendFails(reached)
    PROVE  DdnsTypes' /\ HandsOK'
<1>1. fwd' \in [DnsHosts -> SUBSET DnsIPs] /\ ptr' \in [DnsIPs -> SUBSET DnsHosts]
  <2>1. CASE reached = TRUE
    BY <2>1, ServerTypes, Zenon DEF SendFails
  <2>2. CASE reached = FALSE
    BY <2>2, Zenon DEF SendFails, DdnsTypes
  <2> QED  BY <2>1, <2>2
<1>2. worker' = WorkerIdle /\ UNCHANGED <<leased, listed, hand, dqueue, last>>
  BY Zenon DEF SendFails
<1> QED  BY <1>1, <1>2, SMT DEF DdnsTypes, HandsOK

LEMMA RestartTypes ==
    ASSUME DdnsTypes, HandsOK, RestartDDNS
    PROVE  DdnsTypes' /\ HandsOK'
<1>1. /\ hand' = [p \in Producers |-> Nothing] /\ dqueue' = <<>> /\ worker' = WorkerIdle
      /\ UNCHANGED <<leased, fwd, ptr, last>> /\ listed' = [ip \in DnsIPs |-> NoHost]
  BY Zenon DEF RestartDDNS
<1>2. hand'["server"] = Nothing /\ hand'["sweeper"] = Nothing
  BY <1>1, ServerIsProducer
<1>3. HandsOK'
  BY <1>2, SMT DEF HandsOK, Nothing
<1>4. dqueue' \in Seq(DnsRequests) /\ Len(dqueue') <= DdnsQueueCap
  BY <1>1, DDNSAssumption, SMT
<1>5. hand' \in [Producers -> DnsRequests \cup {Nothing}]
  BY <1>1
<1>6. listed' \in [DnsIPs -> LeaseHosts \cup {NoHost}]
  BY <1>1
<1> QED  BY <1>1, <1>3, <1>4, <1>5, <1>6, SMT DEF DdnsTypes

\* A producer's hand takes r.
LEMMA HandMoves ==
    ASSUME DdnsTypes, NEW p \in Producers, NEW r, hand' = [hand EXCEPT ![p] = r]
    PROVE  /\ r \in Held' /\ \A x \in Held : x = hand[p] \/ x \in Held'
           /\ p = "server" => hand'["server"] = r
           /\ p # "server" => hand'["server"] = hand["server"]
<1>1. \A o \in Producers : hand'[o] = IF o = p THEN r ELSE hand[o]
  BY SMT DEF DdnsTypes
<1>2. p = "server" \/ p = "sweeper"
  BY DEF Producers
<1>3. Held' = {hand'["server"], hand'["sweeper"]}
  BY DEF Held
<1> QED  BY <1>1, <1>2, <1>3, ServerIsProducer, SMT DEF Held

LEMMA PairWhenLeasesChange ==
    ASSUME NEW h \in DnsHosts, NEW ip \in DnsIPs, PairOK(h, ip), ~Excused(h, ip),
           dqueue \in Seq(DnsRequests), UNCHANGED <<dqueue, worker, fwd, ptr>>,
           last'.host[h] = ip => last.host[h] = ip, last'.ip[ip] = h => last.ip[ip] = h,
           leased'[ip] = h => leased[ip] = h,
           leased'[ip] # h => leased[ip] # h \/ DeleteOf(h, ip) \in Held',
           DeleteOf(h, ip) \in Held => DeleteOf(h, ip) \in Held'
    PROVE  PairOK(h, ip)'
<1>1. Len(dqueue) \in Nat /\ FwdFirst' = FwdFirst
  BY LineFacts, Zenon DEF FwdFirst
<1>2. ASSUME last'.host[h] = ip PROVE FwdTracks(h, ip)'
  <2>1. FwdTracks(h, ip)
    BY <1>2, Zenon DEF PairOK
  <2>2. ZoneTracks(dqueue, FwdFirst, AboutHost(h), h, ip, leased'[ip], fwd[h], ip, Held')
    BY <1>1, <2>1, EntryWhenLeasesChange, Zenon DEF FwdTracks, ZoneTracks
  <2> QED  BY <1>1, <2>2, Zenon DEF FwdTracks
<1>3. ASSUME last'.ip[ip] = h PROVE PtrTracks(h, ip)'
  <2>1. PtrTracks(h, ip)
    BY <1>3, Zenon DEF PairOK
  <2>2. ZoneTracks(dqueue, worker.req, AboutIP(ip), h, ip, leased'[ip], ptr[ip], h, Held')
    BY <1>1, <2>1, EntryWhenLeasesChange, Zenon DEF PtrTracks, ZoneTracks
  <2> QED  BY <2>2, Zenon DEF PtrTracks
<1> QED  BY <1>2, <1>3, Zenon DEF PairOK

\* A live lease that its record no longer tells of is given up.
LEMMA RenamedGivesUp ==
    ASSUME NEW h \in DnsHosts, NEW ip \in DnsIPs, NEW h0, leased[ip] = h, h # h0, h # NoHost
    PROVE  <<h, ip>> \in Renamed(ip, h0)
  BY SMT DEF Renamed

LEMMA GrantKeepsPair ==
    ASSUME DdnsInv, NEW h0 \in LeaseHosts, NEW ip0 \in DnsIPs, Grant(h0, ip0),
           NEW h \in DnsHosts, NEW ip \in DnsIPs
    PROVE  PairOK(h, ip)'
<1>1. SUFFICES ASSUME ~Excused(h, ip)' PROVE PairOK(h, ip)'
  BY Zenon DEF PairOK
<1>2. /\ hand["server"] = Nothing /\ hand' = [hand EXCEPT !["server"] = UpsertOf(h0, ip0)]
      /\ leased' = [leased EXCEPT ![ip0] = h0] /\ off' = off \cup Renamed(ip0, h0)
      /\ last' = IF h0 = Nameless THEN last
                 ELSE [host |-> [last.host EXCEPT ![h0] = ip0], ip |-> [last.ip EXCEPT ![ip0] = h0]]
      /\ UNCHANGED <<dqueue, worker, fwd, ptr>>
  BY SMT DEF Grant, Writes, UpsertOf
<1>3. UpsertOf(h0, ip0) \in Held' /\ (\A x \in Held : x = Nothing \/ x \in Held') /\ hand'["server"] = UpsertOf(h0, ip0)
  BY <1>2, ServerIsProducer, HandMoves, Zenon DEF DdnsInv
<1>4. h # h0 \/ ip # ip0
  BY <1>1, <1>3, Zenon DEF Excused
<1>5. ~Excused(h, ip) /\ <<h, ip>> \notin Renamed(ip0, h0)
  <2>1. UpsertOf(h, ip) # Nothing
    BY PairFacts, NothingIsNone
  <2> QED  BY <1>1, <1>2, <2>1, Zenon DEF Excused
<1>6. leased'[ip] = (IF ip = ip0 THEN h0 ELSE leased[ip]) /\ h # NoHost
  BY <1>2, NamesApart, SMT DEF DdnsInv, DdnsTypes
<1>7. (leased'[ip] = h => leased[ip] = h) /\ (leased'[ip] # h => leased[ip] # h)
  BY <1>4, <1>5, <1>6, RenamedGivesUp, Zenon
<1>8. (last'.host[h] = ip => last.host[h] = ip) /\ (last'.ip[ip] = h => last.ip[ip] = h)
  <2>1. CASE h0 = Nameless
    BY <1>2, <2>1, Zenon
  <2>2. CASE h0 # Nameless
    <3>1. last.host \in [DnsHosts -> DnsIPs \cup {NoHost}] /\ last.ip \in [DnsIPs -> DnsHosts \cup {NoHost}]
      BY SMT DEF DdnsInv, DdnsTypes
    <3>2. last' = [host |-> [last.host EXCEPT ![h0] = ip0], ip |-> [last.ip EXCEPT ![ip0] = h0]]
      BY <1>2, <2>2, Zenon
    <3>3. /\ last'.host[h] = (IF h = h0 THEN ip0 ELSE last.host[h])
          /\ last'.ip[ip] = (IF ip = ip0 THEN h0 ELSE last.ip[ip])
      BY <3>1, <3>2, SMT
    <3> QED  BY <1>4, <3>3, Zenon
  <2> QED  BY <2>1, <2>2
<1>9. DeleteOf(h, ip) \in Held => DeleteOf(h, ip) \in Held'
  <2>1. DeleteOf(h, ip) # Nothing
    BY PairFacts, NothingIsNone
  <2> QED  BY <1>3, <2>1, Zenon
<1> QED  BY <1>2, <1>5, <1>7, <1>8, <1>9, PairWhenLeasesChange, Zenon DEF DdnsInv, DdnsTypes

LEMMA OfferKeepsPair ==
    ASSUME DdnsInv, NEW h0 \in LeaseHosts, NEW ip0 \in DnsIPs, StoreOffer(h0, ip0),
           NEW h \in DnsHosts, NEW ip \in DnsIPs
    PROVE  PairOK(h, ip)'
<1>1. SUFFICES ASSUME ~Excused(h, ip)' PROVE PairOK(h, ip)'
  BY Zenon DEF PairOK
<1>2. /\ leased' = [leased EXCEPT ![ip0] = h0] /\ off' = off \cup Renamed(ip0, h0) \cup {<<h0, ip0>>}
      /\ UNCHANGED <<hand, dqueue, worker, fwd, ptr, last>>
  BY Zenon DEF StoreOffer
<1>3. ~Excused(h, ip) /\ <<h, ip>> \notin Renamed(ip0, h0) /\ <<h, ip>> # <<h0, ip0>> /\ Held' = Held
  BY <1>1, <1>2, Zenon DEF Excused, Held
<1>4. leased'[ip] = (IF ip = ip0 THEN h0 ELSE leased[ip]) /\ h # NoHost
  BY <1>2, NamesApart, SMT DEF DdnsInv, DdnsTypes
<1>5. (leased'[ip] = h => leased[ip] = h) /\ (leased'[ip] # h => leased[ip] # h)
  BY <1>3, <1>4, RenamedGivesUp, Zenon
<1> QED  BY <1>2, <1>3, <1>5, PairWhenLeasesChange, Zenon DEF DdnsInv, DdnsTypes

\* A lease of h0 at ip0 ends and its deletion is in the hand of p.
LEMMA EndKeepsPair ==
    ASSUME DdnsInv, NEW p \in Producers, NEW h0 \in LeaseHosts, NEW ip0 \in DnsIPs,
           hand[p] = Nothing, hand' = [hand EXCEPT ![p] = DeleteOf(h0, ip0)],
           leased' = [leased EXCEPT ![ip0] = NoHost], off' = off \cup Renamed(ip0, h0),
           UNCHANGED <<dqueue, worker, fwd, ptr, last>>, NEW h \in DnsHosts, NEW ip \in DnsIPs
    PROVE  PairOK(h, ip)'
<1>1. SUFFICES ASSUME ~Excused(h, ip)' PROVE PairOK(h, ip)'
  BY Zenon DEF PairOK
<1>2. /\ DeleteOf(h0, ip0) \in Held' /\ (\A x \in Held : x = Nothing \/ x \in Held')
      /\ hand["server"] # Nothing => hand'["server"] = hand["server"]
  BY HandMoves, Zenon DEF DdnsInv
<1>3. ~Excused(h, ip) /\ <<h, ip>> \notin Renamed(ip0, h0)
  <2>1. UpsertOf(h, ip) # Nothing
    BY PairFacts, NothingIsNone
  <2> QED  BY <1>1, <1>2, <2>1, Zenon DEF Excused
<1>4. leased'[ip] = (IF ip = ip0 THEN NoHost ELSE leased[ip]) /\ h # NoHost
  BY NamesApart, SMT DEF DdnsInv, DdnsTypes
<1>5. /\ leased'[ip] = h => leased[ip] = h
      /\ leased'[ip] # h => leased[ip] # h \/ DeleteOf(h, ip) \in Held'
  <2>1. h # h0 /\ ip = ip0 => leased[ip] # h
    BY <1>3, <1>4, RenamedGivesUp, Zenon
  <2> QED  BY <1>2, <1>4, <2>1, Zenon
<1>6. DeleteOf(h, ip) \in Held => DeleteOf(h, ip) \in Held'
  <2>1. DeleteOf(h, ip) # Nothing
    BY PairFacts, NothingIsNone
  <2> QED  BY <1>2, <2>1, Zenon
<1> QED  BY <1>3, <1>5, <1>6, PairWhenLeasesChange, Zenon DEF DdnsInv, DdnsTypes

LEMMA ReleaseKeepsPair ==
    ASSUME DdnsInv, NEW ip0 \in DnsIPs, Release(ip0), NEW h \in DnsHosts, NEW ip \in DnsIPs
    PROVE  PairOK(h, ip)'
<1>1. off' = off \cup Renamed(ip0, leased[ip0])
  <2>1. Renamed(ip0, leased[ip0]) = {}
    BY SMT DEF Renamed
  <2> QED  BY <2>1, ReleaseFacts, Zenon DEF DdnsInv
<1> QED  BY <1>1, ReleaseFacts, EndKeepsPair, ServerIsProducer, Zenon DEF DdnsInv

LEMMA ExpireKeepsPair ==
    ASSUME DdnsInv, NEW ip0 \in DnsIPs, Expire(ip0), NEW h \in DnsHosts, NEW ip \in DnsIPs
    PROVE  PairOK(h, ip)'
  BY ExpireFacts, EndKeepsPair, ServerIsProducer, Zenon DEF DdnsInv

LEMMA ListsKeepsPair ==
    ASSUME DdnsInv, NEW due \in SUBSET DnsIPs, SweeperLists(due), NEW h \in DnsHosts, NEW ip \in DnsIPs
    PROVE  PairOK(h, ip)'
<1>1. SUFFICES ASSUME ~Excused(h, ip)' PROVE PairOK(h, ip)'
  BY Zenon DEF PairOK
<1>2. UNCHANGED <<leased, hand, dqueue, worker, fwd, ptr, last, off>>
  BY Zenon DEF SweeperLists
<1>3. ~Excused(h, ip) /\ Held' = Held
  BY <1>1, <1>2, Zenon DEF Excused, Held
<1>4. leased'[ip] = leased[ip] /\ last' = last
  BY <1>2
<1> QED  BY <1>2, <1>3, <1>4, PairWhenLeasesChange, Zenon DEF DdnsInv, DdnsTypes

LEMMA ApiKeepsPair ==
    ASSUME DdnsInv, NEW ip0 \in DnsIPs, ApiReleases(ip0), NEW h \in DnsHosts, NEW ip \in DnsIPs
    PROVE  PairOK(h, ip)'
<1>1. SUFFICES ASSUME ~Excused(h, ip)' PROVE PairOK(h, ip)'
  BY Zenon DEF PairOK
<1>2. /\ leased' = [leased EXCEPT ![ip0] = NoHost] /\ off' = off \cup {<<leased[ip0], ip0>>}
      /\ UNCHANGED <<hand, dqueue, worker, fwd, ptr, last>>
  BY Zenon DEF ApiReleases
<1>3. ~Excused(h, ip) /\ <<h, ip>> # <<leased[ip0], ip0>>
  BY <1>1, <1>2, Zenon DEF Excused
<1>4. leased'[ip] = (IF ip = ip0 THEN NoHost ELSE leased[ip]) /\ h # NoHost
  BY <1>2, NamesApart, SMT DEF DdnsInv, DdnsTypes
<1>5. (leased'[ip] = h => leased[ip] = h) /\ (leased'[ip] # h => leased[ip] # h)
  BY <1>3, <1>4, Zenon
<1>6. Held' = Held
  BY <1>2, Zenon DEF Held
<1> QED  BY <1>2, <1>3, <1>5, <1>6, PairWhenLeasesChange, Zenon DEF DdnsInv, DdnsTypes

\* The pair is left alone, or its hand only loses requests about others.
LEMMA DropKeepsPair ==
    ASSUME DdnsInv, NEW h \in DnsHosts, NEW ip \in DnsIPs, ~Excused(h, ip),
           UNCHANGED <<leased, dqueue, worker, fwd, ptr, last>>,
           DeleteOf(h, ip) \in Held => DeleteOf(h, ip) \in Held'
    PROVE  PairOK(h, ip)'
<1>1. last'.host = last.host /\ last'.ip = last.ip /\ leased'[ip] = leased[ip]
  OBVIOUS
<1>2. PairOK(h, ip) /\ dqueue \in Seq(DnsRequests)
  BY Zenon DEF DdnsInv, DdnsTypes
<1> QED  BY <1>1, <1>2, PairWhenLeasesChange, Zenon

LEMMA QueueKeepsPair ==
    ASSUME DdnsInv, NEW p \in Producers, QueueDDNS(p), NEW h \in DnsHosts, NEW ip \in DnsIPs
    PROVE  PairOK(h, ip)'
<1>1. SUFFICES ASSUME ~Excused(h, ip)' PROVE PairOK(h, ip)'
  BY Zenon DEF PairOK
<1>2. PICK r \in DnsRequests : r = hand[p]
  BY HandIs, Zenon DEF QueueDDNS, DdnsInv
<1>3. /\ hand' = [hand EXCEPT ![p] = Nothing]
      /\ UNCHANGED <<leased, worker, fwd, ptr, last, dnsLeft>>
      /\ dqueue' = IF Len(dqueue) < DdnsQueueCap THEN Append(dqueue, r) ELSE dqueue
      /\ off' = IF ~(Len(dqueue) < DdnsQueueCap) \/ Overtaken(r) THEN off \cup {<<r.host, r.ip>>}
                ELSE IF r.act = "upsert" THEN off \ {<<r.host, r.ip>>} ELSE off
  BY <1>2, Zenon DEF QueueDDNS
<1>4. /\ \A x \in Held : x = r \/ x \in Held'
      /\ p = "server" => hand'["server"] = Nothing
      /\ p # "server" => hand'["server"] = hand["server"]
  BY <1>2, <1>3, HandMoves, Zenon DEF DdnsInv
<1>5. UpsertOf(h, ip) # Nothing /\ DeleteOf(h, ip) # Nothing
  BY PairFacts, NothingIsNone
<1>6. r.act = "upsert" => p = "server" /\ (r.host # Nameless => last.host[r.host] = r.ip /\ last.ip[r.ip] = r.host)
  <2>1. r.act = "upsert" => p = "server"
    BY <1>2, SMT DEF Producers, DdnsInv, HandsOK
  <2> QED  BY <1>2, <2>1, Zenon DEF DdnsInv, HandsOK
<1>7. dqueue \in Seq(DnsRequests) /\ Len(dqueue) \in Nat /\ FwdFirst' = FwdFirst
  BY <1>3, LineFacts, Zenon DEF DdnsInv, DdnsTypes, FwdFirst
<1>8. CASE r = UpsertOf(h, ip)
  <2>1. r.host = h /\ r.ip = ip /\ r.act = "upsert"
    BY <1>8, SMT DEF UpsertOf
  <2>2. <<h, ip>> \notin off'
    BY <1>1, Zenon DEF Excused
  <2>3. Len(dqueue) < DdnsQueueCap /\ ~Overtaken(r)
    BY <1>3, <2>1, <2>2, Zenon
  <2>4. leased'[ip] = h /\ dqueue' = Append(dqueue, UpsertOf(h, ip))
    BY <1>3, <1>8, <2>1, <2>3, Zenon DEF Overtaken
  <2>5. FwdTracks(h, ip)' /\ PtrTracks(h, ip)'
    BY <1>3, <1>7, <2>4, ZoneRenewed, Zenon DEF FwdTracks, PtrTracks
  <2> QED  BY <2>5, Zenon DEF PairOK
<1>9. CASE r # UpsertOf(h, ip)
  <2>1. hand["server"] # UpsertOf(h, ip)
    BY <1>1, <1>2, <1>4, <1>9, Zenon DEF Excused
  <2>2. \/ r = DeleteOf(h, ip)
        \/ <<r.host, r.ip>> # <<h, ip>>
    BY <1>9, PairFacts, SMT
  <2>3. DeleteOf(h, ip).act = "delete" /\ DeleteOf(h, ip).host = h /\ DeleteOf(h, ip).ip = ip
    BY SMT DEF DeleteOf
  <2>4. <<h, ip>> \notin off' /\ <<h, ip>> \notin off
    <3>1. <<h, ip>> \notin off'
      BY <1>1, Zenon DEF Excused
    <3>2. r = DeleteOf(h, ip) => r.act # "upsert"
      BY <2>3
    <3> QED  BY <1>3, <2>2, <3>1, <3>2, SMT
  <2>5. ~Excused(h, ip)
    BY <2>1, <2>4, Zenon DEF Excused
  <2>6. CASE ~(Len(dqueue) < DdnsQueueCap)
    <3>1. dqueue' = dqueue /\ off' = off \cup {<<r.host, r.ip>>}
      BY <1>3, <2>6, Zenon
    <3>2. r # DeleteOf(h, ip)
      BY <2>3, <2>4, <3>1, Zenon
    <3>3. DeleteOf(h, ip) \in Held => DeleteOf(h, ip) \in Held'
      BY <1>4, <3>2, Zenon
    <3> QED  BY <1>3, <2>5, <3>1, <3>3, DropKeepsPair, Zenon
  <2>7. CASE Len(dqueue) < DdnsQueueCap
    <3>1. dqueue' = Append(dqueue, r) /\ leased' = leased /\ worker' = worker /\ fwd' = fwd /\ ptr' = ptr
      BY <1>3, <2>7, Zenon
    <3>2. r = DeleteOf(h, ip) => leased[ip] # h
      <4>1. SUFFICES ASSUME r = DeleteOf(h, ip), leased[ip] = h PROVE FALSE
        OBVIOUS
      <4>2. r.act # "upsert" /\ r.host = h /\ r.ip = ip
        BY <2>3, <4>1
      <4>3. Overtaken(r)
        BY <4>1, <4>2, Zenon DEF Overtaken
      <4> QED  BY <1>3, <2>4, <4>2, <4>3, Zenon
    <3>3. DeleteOf(h, ip) \in Held => DeleteOf(h, ip) \in Held' \/ r = DeleteOf(h, ip)
      BY <1>4, Zenon
    <3>4. r.act \in {"upsert", "delete"}
      BY SMT DEF DnsRequests
    <3>5. ASSUME last'.host[h] = ip PROVE FwdTracks(h, ip)'
      <4>1. FwdTracks(h, ip)
        BY <1>3, <2>5, <3>5, Zenon DEF DdnsInv, PairOK
      <4>2. r \in AboutHost(h) => r.act = "delete"
        <5>1. SUFFICES ASSUME r \in AboutHost(h), r.act = "upsert" PROVE FALSE
          BY <3>4
        <5>2. r.host = h /\ r.host # Nameless
          BY <5>1, NamesApart DEF AboutHost
        <5>3. r.ip = ip
          BY <1>3, <1>6, <3>5, <5>1, <5>2, Zenon
        <5> QED  BY <1>9, <2>3, <5>1, <5>2, <5>3, PairFacts, SMT
      <4>3. ZoneTracks(Append(dqueue, r), FwdFirst, AboutHost(h), h, ip, leased[ip], fwd[h], ip, Held')
        BY <1>7, <3>2, <3>3, <4>1, <4>2, ZoneQueued, SMT DEF FwdTracks
      <4> QED  BY <1>7, <3>1, <4>3, Zenon DEF FwdTracks
    <3>6. ASSUME last'.ip[ip] = h PROVE PtrTracks(h, ip)'
      <4>1. PtrTracks(h, ip)
        BY <1>3, <2>5, <3>6, Zenon DEF DdnsInv, PairOK
      <4>2. r \in AboutIP(ip) => r.act = "delete"
        <5>1. SUFFICES ASSUME r \in AboutIP(ip), r.act = "upsert" PROVE FALSE
          BY <3>4
        <5>2. r.ip = ip /\ r.host # Nameless
          BY <5>1, NamedIsRequest DEF AboutIP
        <5>3. r.host = h
          BY <1>3, <1>6, <3>6, <5>1, <5>2, Zenon
        <5> QED  BY <1>9, <2>3, <5>1, <5>2, <5>3, PairFacts, SMT
      <4>3. ZoneTracks(Append(dqueue, r), worker.req, AboutIP(ip), h, ip, leased[ip], ptr[ip], h, Held')
        BY <1>7, <3>2, <3>3, <4>1, <4>2, ZoneQueued, SMT DEF PtrTracks
      <4> QED  BY <3>1, <4>3, Zenon DEF PtrTracks
    <3> QED  BY <3>5, <3>6, Zenon DEF PairOK
  <2> QED  BY <2>6, <2>7
<1> QED  BY <1>8, <1>9

LEMMA TakeKeepsPair ==
    ASSUME DdnsInv, Take, NEW h \in DnsHosts, NEW ip \in DnsIPs
    PROVE  PairOK(h, ip)'
<1>1. SUFFICES ASSUME ~Excused(h, ip)' PROVE PairOK(h, ip)'
  BY Zenon DEF PairOK
<1>2. /\ worker = WorkerIdle /\ dqueue # <<>> /\ dqueue \in Seq(DnsRequests)
      /\ worker' = IF Head(dqueue).host = Nameless THEN WorkerIdle
                   ELSE [req |-> Head(dqueue), zone |-> "forward"]
      /\ dqueue' = Tail(dqueue)
      /\ UNCHANGED <<leased, hand, fwd, ptr, last, off>>
  BY Zenon DEF Take, DdnsInv, DdnsTypes
<1>3. ~Excused(h, ip) /\ Held' = Held /\ Tail(dqueue) \in Seq(DnsRequests)
  BY <1>1, <1>2, SMT DEF Excused, Held
<1>4. PICK r : r = Head(dqueue)
  OBVIOUS
<1>5. FwdFirst = Nothing /\ worker.req = Nothing
  BY <1>2, SMT DEF FwdFirst, WorkerIdle
<1>6. \/ FwdFirst' = r /\ worker'.req = r
      \/ r.host = Nameless /\ FwdFirst' = Nothing /\ worker'.req = Nothing
  BY <1>2, <1>4, SMT DEF FwdFirst, WorkerIdle
<1>7. r.host = Nameless => r # UpsertOf(h, ip) /\ r # DeleteOf(h, ip)
  BY PairFacts, NamesApart, Zenon
<1>8. ASSUME last'.host[h] = ip PROVE FwdTracks(h, ip)'
  <2>1. FwdTracks(h, ip)
    BY <1>2, <1>3, <1>8, Zenon DEF DdnsInv, PairOK
  <2>2. ZoneTracks(Tail(dqueue), r, AboutHost(h), h, ip, leased[ip], fwd[h], ip, Held)
    BY <1>2, <1>4, <1>5, <2>1, PairFacts, NothingIsNone, ZoneTaken, SMT DEF FwdTracks
  <2>3. CASE FwdFirst' = r
    BY <1>2, <1>3, <2>2, <2>3, Zenon DEF FwdTracks
  <2>4. CASE r.host = Nameless /\ FwdFirst' = Nothing
    <3>1. ZoneTracks(Tail(dqueue), Nothing, AboutHost(h), h, ip, leased[ip], fwd[h], ip, Held)
      BY <1>3, <1>7, <2>2, <2>4, PairFacts, NothingIsNone, ZoneGivenUp, Zenon
    <3> QED  BY <1>2, <1>3, <2>4, <3>1, Zenon DEF FwdTracks
  <2> QED  BY <1>6, <2>3, <2>4
<1>9. ASSUME last'.ip[ip] = h PROVE PtrTracks(h, ip)'
  <2>1. PtrTracks(h, ip)
    BY <1>2, <1>3, <1>9, Zenon DEF DdnsInv, PairOK
  <2>2. ZoneTracks(Tail(dqueue), r, AboutIP(ip), h, ip, leased[ip], ptr[ip], h, Held)
    BY <1>2, <1>4, <1>5, <2>1, PairFacts, NothingIsNone, ZoneTaken, SMT DEF PtrTracks
  <2>3. CASE worker'.req = r
    BY <1>2, <1>3, <2>2, <2>3, Zenon DEF PtrTracks
  <2>4. CASE r.host = Nameless /\ worker'.req = Nothing
    <3>1. ZoneTracks(Tail(dqueue), Nothing, AboutIP(ip), h, ip, leased[ip], ptr[ip], h, Held)
      BY <1>3, <1>7, <2>2, <2>4, PairFacts, NothingIsNone, ZoneGivenUp, Zenon
    <3> QED  BY <1>2, <1>3, <2>4, <3>1, Zenon DEF PtrTracks
  <2> QED  BY <1>6, <2>3, <2>4
<1> QED  BY <1>8, <1>9, Zenon DEF PairOK

\* What carrying out r does to the records of one host and of one address.
LEMMA RecordsAfter ==
    ASSUME DdnsTypes, NEW r \in NamedRequests, NEW zone, ServerApplies(r, zone),
           NEW h \in DnsHosts, NEW ip \in DnsIPs
    PROVE  /\ zone = "forward" =>
                 AppliedTo(r, AboutHost(h), UpsertOf(h, ip), DeleteOf(h, ip), ip, r.ip, fwd[h], fwd'[h])
           /\ zone # "forward" => fwd' = fwd
           /\ zone = "reverse" =>
                 AppliedTo(r, AboutIP(ip), UpsertOf(h, ip), DeleteOf(h, ip), h, r.host, ptr[ip], ptr'[ip])
           /\ zone # "reverse" => ptr' = ptr
<1>1. r.host \in DnsHosts /\ r.ip \in DnsIPs /\ r.act \in {"upsert", "delete"}
  BY SMT DEF NamedRequests
<1>2. zone # "forward" => fwd' = fwd
  BY Zenon DEF ServerApplies
<1>3. zone # "reverse" => ptr' = ptr
  BY Zenon DEF ServerApplies
<1>4. r = UpsertOf(h, ip) \/ r = DeleteOf(h, ip) => r.ip = ip /\ r.host = h
  BY PairFacts
<1>5. r.act = "delete" /\ r.host = h /\ r.ip = ip => r = DeleteOf(h, ip)
  BY SMT DEF NamedRequests, DeleteOf
<1>6. ASSUME zone = "forward"
      PROVE  AppliedTo(r, AboutHost(h), UpsertOf(h, ip), DeleteOf(h, ip), ip, r.ip, fwd[h], fwd'[h])
  <2>1. fwd' = [fwd EXCEPT ![r.host] = Updated(fwd[r.host], r.act, r.ip)]
    BY <1>6, Zenon DEF ServerApplies
  <2>2. fwd'[h] = IF h = r.host THEN Updated(fwd[r.host], r.act, r.ip) ELSE fwd[h]
    BY <2>1, SMT DEF DdnsTypes
  <2>3. fwd'[h] = IF r \in AboutHost(h) THEN Updated(fwd[h], r.act, r.ip) ELSE fwd[h]
    BY <2>2, SMT DEF AboutHost
  <2>4. r \in AboutHost(h) /\ r.act = "delete" /\ r # DeleteOf(h, ip) => r.ip # ip
    BY <1>5 DEF AboutHost
  <2> QED  BY <1>4, <2>3, <2>4, Zenon DEF AppliedTo
<1>7. ASSUME zone = "reverse"
      PROVE  AppliedTo(r, AboutIP(ip), UpsertOf(h, ip), DeleteOf(h, ip), h, r.host, ptr[ip], ptr'[ip])
  <2>1. ptr' = [ptr EXCEPT ![r.ip] = Updated(ptr[r.ip], r.act, r.host)]
    BY <1>7, Zenon DEF ServerApplies
  <2>2. ptr'[ip] = IF ip = r.ip THEN Updated(ptr[r.ip], r.act, r.host) ELSE ptr[ip]
    BY <2>1, SMT DEF DdnsTypes
  <2>3. ptr'[ip] = IF r \in AboutIP(ip) THEN Updated(ptr[ip], r.act, r.host) ELSE ptr[ip]
    BY <2>2, SMT DEF AboutIP
  <2>4. r \in AboutIP(ip) /\ r.act = "delete" /\ r # DeleteOf(h, ip) => r.host # h
    BY <1>5 DEF AboutIP
  <2> QED  BY <1>4, <2>3, <2>4, Zenon DEF AppliedTo
<1> QED  BY <1>2, <1>3, <1>6, <1>7

LEMMA SendKeepsPair ==
    ASSUME DdnsInv, SendUpdate, NEW h \in DnsHosts, NEW ip \in DnsIPs
    PROVE  PairOK(h, ip)'
<1>1. SUFFICES ASSUME ~Excused(h, ip)' PROVE PairOK(h, ip)'
  BY Zenon DEF PairOK
<1>2. /\ worker # WorkerIdle /\ UNCHANGED <<leased, hand, dqueue, last, off>>
      /\ dqueue \in Seq(DnsRequests)
  BY Zenon DEF SendUpdate, DdnsInv, DdnsTypes
<1>3. ~Excused(h, ip) /\ Held' = Held
  BY <1>1, <1>2, Zenon DEF Excused, Held
<1>4. PICK r \in NamedRequests : r = worker.req /\ worker.zone \in {"forward", "reverse"} /\ r \in DnsRequests
  BY <1>2, WorkerBusy, NamedIsRequest, Zenon DEF DdnsInv
<1>5. /\ worker.zone = "forward" =>
           AppliedTo(r, AboutHost(h), UpsertOf(h, ip), DeleteOf(h, ip), ip, r.ip, fwd[h], fwd'[h])
      /\ worker.zone # "forward" => fwd' = fwd
      /\ worker.zone = "reverse" =>
           AppliedTo(r, AboutIP(ip), UpsertOf(h, ip), DeleteOf(h, ip), h, r.host, ptr[ip], ptr'[ip])
      /\ worker.zone # "reverse" => ptr' = ptr
  BY <1>4, RecordsAfter, Zenon DEF SendUpdate, DdnsInv
<1>6. /\ worker.zone = "forward" => FwdFirst = r /\ worker'.req = r
      /\ worker.zone = "reverse" => FwdFirst = Nothing /\ worker'.req = Nothing
      /\ FwdFirst' = Nothing
  <2>1. CASE worker.zone = "forward"
    <3>1. worker' = [worker EXCEPT !.zone = "reverse"]
      BY <2>1, Zenon DEF SendUpdate
    <3>2. worker \in [req : NamedRequests, zone : {"forward", "reverse"}]
      BY <1>2, WorkerBusy, Zenon DEF DdnsInv
    <3>3. worker'.req = r /\ worker'.zone = "reverse"
      BY <1>4, <3>1, <3>2, SMT
    <3> QED  BY <1>4, <2>1, <3>3, SMT DEF FwdFirst
  <2>2. CASE worker.zone = "reverse"
    <3>1. worker' = WorkerIdle
      BY <2>2, Zenon DEF SendUpdate
    <3>2. worker'.req = Nothing /\ worker'.zone = "none"
      BY <3>1, SMT DEF WorkerIdle
    <3> QED  BY <2>2, <3>2, SMT DEF FwdFirst
  <2> QED  BY <1>4, <2>1, <2>2
<1>7. ASSUME last'.host[h] = ip PROVE FwdTracks(h, ip)'
  <2>1. FwdTracks(h, ip)
    BY <1>2, <1>3, <1>7, Zenon DEF DdnsInv, PairOK
  <2>2. CASE worker.zone = "forward"
    <3>1. ZoneTracks(dqueue, r, AboutHost(h), h, ip, leased[ip], fwd[h], ip, Held)
      BY <1>6, <2>1, <2>2, Zenon DEF FwdTracks
    <3>2. ZoneTracks(dqueue, Nothing, AboutHost(h), h, ip, leased[ip], fwd'[h], ip, Held)
      BY <1>2, <1>4, <1>5, <2>2, <3>1, PairFacts, NothingIsNone, ZoneSent, Zenon
    <3> QED  BY <1>2, <1>3, <1>6, <3>2, Zenon DEF FwdTracks
  <2>3. CASE worker.zone = "reverse"
    BY <1>2, <1>3, <1>5, <1>6, <2>1, <2>3, Zenon DEF FwdTracks
  <2> QED  BY <1>4, <2>2, <2>3
<1>8. ASSUME last'.ip[ip] = h PROVE PtrTracks(h, ip)'
  <2>1. PtrTracks(h, ip)
    BY <1>2, <1>3, <1>8, Zenon DEF DdnsInv, PairOK
  <2>2. CASE worker.zone = "reverse"
    <3>1. ZoneTracks(dqueue, r, AboutIP(ip), h, ip, leased[ip], ptr[ip], h, Held)
      BY <1>4, <2>1, Zenon DEF PtrTracks
    <3>2. ZoneTracks(dqueue, Nothing, AboutIP(ip), h, ip, leased[ip], ptr'[ip], h, Held)
      BY <1>2, <1>4, <1>5, <2>2, <3>1, PairFacts, NothingIsNone, ZoneSent, Zenon
    <3> QED  BY <1>2, <1>3, <1>6, <2>2, <3>2, Zenon DEF PtrTracks
  <2>3. CASE worker.zone = "forward"
    BY <1>2, <1>3, <1>4, <1>5, <1>6, <2>1, <2>3, Zenon DEF PtrTracks
  <2> QED  BY <1>4, <2>2, <2>3
<1> QED  BY <1>7, <1>8, Zenon DEF PairOK

LEMMA FailKeepsPair ==
    ASSUME DdnsInv, NEW reached \in BOOLEAN, SendFails(reached), NEW h \in DnsHosts, NEW ip \in DnsIPs
    PROVE  PairOK(h, ip)'
<1>1. SUFFICES ASSUME ~Excused(h, ip)' PROVE PairOK(h, ip)'
  BY Zenon DEF PairOK
<1>2. /\ worker # WorkerIdle /\ worker' = WorkerIdle /\ UNCHANGED <<leased, hand, dqueue, last>>
      /\ off' = off \cup {<<worker.req.host, worker.req.ip>>}
      /\ dqueue \in Seq(DnsRequests)
  BY Zenon DEF SendFails, DdnsInv, DdnsTypes
<1>3. PICK r \in NamedRequests : r = worker.req /\ worker.zone \in {"forward", "reverse"} /\ r \in DnsRequests
  BY <1>2, WorkerBusy, NamedIsRequest, Zenon DEF DdnsInv
<1>4. ~Excused(h, ip) /\ Held' = Held /\ <<h, ip>> # <<r.host, r.ip>>
  BY <1>1, <1>2, <1>3, Zenon DEF Excused, Held
<1>5. r # UpsertOf(h, ip) /\ r # DeleteOf(h, ip)
  BY <1>4, PairFacts
<1>6. Nothing # UpsertOf(h, ip) /\ Nothing # DeleteOf(h, ip)
  BY PairFacts, NothingIsNone
<1>7. /\ fwd'[h] = fwd[h]
         \/ /\ worker.zone = "forward"
            /\ AppliedTo(r, AboutHost(h), UpsertOf(h, ip), DeleteOf(h, ip), ip, r.ip, fwd[h], fwd'[h])
      /\ ptr'[ip] = ptr[ip]
         \/ AppliedTo(r, AboutIP(ip), UpsertOf(h, ip), DeleteOf(h, ip), h, r.host, ptr[ip], ptr'[ip])
  <2>1. CASE reached = TRUE
    <3>1. ServerApplies(r, worker.zone)
      BY <1>3, <2>1, Zenon DEF SendFails
    <3> QED  BY <1>3, <3>1, RecordsAfter, Zenon DEF DdnsInv
  <2>2. CASE reached = FALSE
    BY <2>2, Zenon DEF SendFails
  <2> QED  BY <2>1, <2>2
<1>8. /\ FwdFirst = r \/ FwdFirst = Nothing
      /\ worker.zone = "forward" => FwdFirst = r
      /\ FwdFirst' = Nothing /\ worker'.req = Nothing
  BY <1>2, <1>3, SMT DEF FwdFirst, WorkerIdle
<1>9. ASSUME last'.host[h] = ip PROVE FwdTracks(h, ip)'
  <2>1. FwdTracks(h, ip)
    BY <1>2, <1>4, <1>9, Zenon DEF DdnsInv, PairOK
  <2>2. ZoneTracks(dqueue, Nothing, AboutHost(h), h, ip, leased[ip], fwd'[h], ip, Held)
    <3>1. CASE fwd'[h] = fwd[h]
      <4>1. FwdFirst # UpsertOf(h, ip) /\ FwdFirst # DeleteOf(h, ip)
        BY <1>5, <1>6, <1>8, Zenon
      <4> QED  BY <1>2, <2>1, <3>1, <4>1, PairFacts, NothingIsNone, ZoneGivenUp, Zenon DEF FwdTracks
    <3>2. CASE fwd'[h] # fwd[h]
      <4>1. ZoneTracks(dqueue, r, AboutHost(h), h, ip, leased[ip], fwd[h], ip, Held)
        BY <1>7, <1>8, <2>1, <3>2, Zenon DEF FwdTracks
      <4> QED  BY <1>2, <1>3, <1>7, <3>2, <4>1, PairFacts, NothingIsNone, ZoneSent, Zenon
    <3> QED  BY <3>1, <3>2
  <2> QED  BY <1>2, <1>4, <1>8, <2>2, Zenon DEF FwdTracks
<1>10. ASSUME last'.ip[ip] = h PROVE PtrTracks(h, ip)'
  <2>1. ZoneTracks(dqueue, r, AboutIP(ip), h, ip, leased[ip], ptr[ip], h, Held)
    BY <1>2, <1>3, <1>4, <1>10, Zenon DEF DdnsInv, PairOK, PtrTracks
  <2>2. ZoneTracks(dqueue, Nothing, AboutIP(ip), h, ip, leased[ip], ptr'[ip], h, Held)
    <3>1. CASE ptr'[ip] = ptr[ip]
      BY <1>2, <1>5, <2>1, <3>1, PairFacts, NothingIsNone, ZoneGivenUp, Zenon
    <3>2. CASE ptr'[ip] # ptr[ip]
      BY <1>2, <1>3, <1>7, <2>1, <3>2, PairFacts, NothingIsNone, ZoneSent, Zenon
    <3> QED  BY <3>1, <3>2
  <2> QED  BY <1>2, <1>4, <1>8, <2>2, Zenon DEF PtrTracks
<1> QED  BY <1>9, <1>10, Zenon DEF PairOK

\* With nothing of the pair's under way, its records are right.
LEMMA PairSettled ==
    ASSUME DdnsInv, NEW h \in DnsHosts, NEW ip \in DnsIPs, <<h, ip>> \notin off,
           UpsertOf(h, ip) \notin Unsent, DeleteOf(h, ip) \notin Unsent
    PROVE  /\ last.host[h] = ip => fwd[h] = IF leased[ip] = h THEN {ip} ELSE {}
           /\ last.ip[ip] = h => ptr[ip] = IF leased[ip] = h THEN {h} ELSE {}
<1>1. UpsertOf(h, ip) # Nothing /\ DeleteOf(h, ip) # Nothing
  BY PairFacts, NothingIsNone
<1>2. Held \subseteq Range(hand)
  BY ServerIsProducer, SMT DEF Held, Range, DdnsInv, DdnsTypes
<1>3. PICK S : S = Unsent \cup {Nothing}
  OBVIOUS
<1>4. /\ Range(dqueue) \subseteq S /\ worker.req \in S /\ Nothing \in S /\ Held \subseteq S
      /\ UpsertOf(h, ip) \notin S /\ DeleteOf(h, ip) \notin S
  BY <1>1, <1>2, <1>3, SMT DEF Unsent
<1>5. ~Excused(h, ip)
  BY <1>4, Zenon DEF Excused, Held
<1>6. dqueue \in Seq(DnsRequests) /\ FwdFirst \in S
  BY <1>4, Zenon DEF DdnsInv, DdnsTypes, FwdFirst
<1>7. ASSUME last.host[h] = ip PROVE fwd[h] = IF leased[ip] = h THEN {ip} ELSE {}
  <2>1. FwdTracks(h, ip)
    BY <1>5, <1>7, Zenon DEF DdnsInv, PairOK
  <2>2. /\ ZoneOf(AboutHost(h), UpsertOf(h, ip), DeleteOf(h, ip))
        /\ ZoneTracks(dqueue, FwdFirst, AboutHost(h), h, ip, leased[ip], fwd[h], ip, Held)
    BY <2>1, PairFacts, Zenon DEF FwdTracks
  <2>3. Says(fwd[h], leased[ip], h, ip)
    BY <1>4, <1>6, <2>2, ZoneSettled, SMT
  <2> QED  BY <2>3 DEF Says
<1>8. ASSUME last.ip[ip] = h PROVE ptr[ip] = IF leased[ip] = h THEN {h} ELSE {}
  <2>1. PtrTracks(h, ip)
    BY <1>5, <1>8, Zenon DEF DdnsInv, PairOK
  <2>2. /\ ZoneOf(AboutIP(ip), UpsertOf(h, ip), DeleteOf(h, ip))
        /\ ZoneTracks(dqueue, worker.req, AboutIP(ip), h, ip, leased[ip], ptr[ip], h, Held)
    BY <2>1, PairFacts, Zenon DEF PtrTracks
  <2>3. Says(ptr[ip], leased[ip], h, h)
    BY <1>4, <1>6, <2>2, ZoneSettled, SMT
  <2> QED  BY <2>3 DEF Says
<1> QED  BY <1>7, <1>8

LEMMA RestartKeepsPair ==
    ASSUME DdnsInv, RestartDDNS, NEW h \in DnsHosts, NEW ip \in DnsIPs
    PROVE  PairOK(h, ip)'
<1>1. SUFFICES ASSUME ~Excused(h, ip)' PROVE PairOK(h, ip)'
  BY Zenon DEF PairOK
<1>2. /\ off' = off \cup {<<r.host, r.ip>> : r \in Unsent}
      /\ dqueue' = <<>> /\ worker' = WorkerIdle /\ UNCHANGED <<leased, fwd, ptr, last>>
  BY Zenon DEF RestartDDNS
<1>3. <<h, ip>> \notin off /\ <<h, ip>> \notin {<<r.host, r.ip>> : r \in Unsent}
  BY <1>1, <1>2, Zenon DEF Excused
<1>4. UpsertOf(h, ip) \notin Unsent /\ DeleteOf(h, ip) \notin Unsent
  <2>1. /\ UpsertOf(h, ip).host = h /\ UpsertOf(h, ip).ip = ip
        /\ DeleteOf(h, ip).host = h /\ DeleteOf(h, ip).ip = ip
    BY PairFacts
  <2> QED  BY <1>3, <2>1, SMT
<1>5. /\ last.host[h] = ip => fwd[h] = IF leased[ip] = h THEN {ip} ELSE {}
      /\ last.ip[ip] = h => ptr[ip] = IF leased[ip] = h THEN {h} ELSE {}
  BY <1>3, <1>4, PairSettled, Zenon
<1>6. FwdFirst' = Nothing /\ worker'.req = Nothing
  BY <1>2, SMT DEF FwdFirst, WorkerIdle
<1>7. ASSUME last'.host[h] = ip PROVE FwdTracks(h, ip)'
  <2>1. fwd[h] = IF leased[ip] = h THEN {ip} ELSE {}
    BY <1>2, <1>5, <1>7, Zenon
  <2>2. ZoneTracks(<<>>, Nothing, AboutHost(h), h, ip, leased[ip], fwd[h], ip, Held')
    BY <2>1, PairFacts, NothingIsNone, ZoneRestarted, Zenon
  <2> QED  BY <1>2, <1>6, <2>2, Zenon DEF FwdTracks
<1>8. ASSUME last'.ip[ip] = h PROVE PtrTracks(h, ip)'
  <2>1. ptr[ip] = IF leased[ip] = h THEN {h} ELSE {}
    BY <1>2, <1>5, <1>8, Zenon
  <2>2. ZoneTracks(<<>>, Nothing, AboutIP(ip), h, ip, leased[ip], ptr[ip], h, Held')
    BY <2>1, PairFacts, NothingIsNone, ZoneRestarted, Zenon
  <2> QED  BY <1>2, <1>6, <2>2, Zenon DEF PtrTracks
<1> QED  BY <1>7, <1>8, Zenon DEF PairOK

LEMMA DdnsStart == DdnsInit => DdnsInv
<1>1. SUFFICES ASSUME DdnsInit PROVE DdnsInv
  OBVIOUS
<1>2. DdnsTypes
  BY <1>1, DDNSAssumption, SMT DEF DdnsInit, DdnsTypes
<1>3. hand["server"] = Nothing /\ hand["sweeper"] = Nothing
  BY <1>1, ServerIsProducer, SMT DEF DdnsInit
<1>4. HandsOK
  BY <1>3, SMT DEF HandsOK, Nothing
<1>5. ASSUME NEW h \in DnsHosts, NEW ip \in DnsIPs PROVE PairOK(h, ip)
  <2>1. FwdFirst = Nothing /\ worker.req = Nothing
    BY <1>1, SMT DEF DdnsInit, FwdFirst, WorkerIdle
  <2>2. leased[ip] = NoHost /\ fwd[h] = {} /\ ptr[ip] = {} /\ h # NoHost /\ dqueue = <<>>
    BY <1>1, DDNSAssumption, SMT DEF DdnsInit
  <2>3. /\ fwd[h] = IF leased[ip] = h THEN {ip} ELSE {}
        /\ ptr[ip] = IF leased[ip] = h THEN {h} ELSE {}
    BY <2>2
  <2>4. ZoneTracks(<<>>, Nothing, AboutHost(h), h, ip, leased[ip], fwd[h], ip, Held)
    BY <2>3, PairFacts, NothingIsNone, ZoneRestarted, Zenon
  <2>5. ZoneTracks(<<>>, Nothing, AboutIP(ip), h, ip, leased[ip], ptr[ip], h, Held)
    BY <2>3, PairFacts, NothingIsNone, ZoneRestarted, Zenon
  <2> QED  BY <2>1, <2>2, <2>4, <2>5, Zenon DEF PairOK, FwdTracks, PtrTracks
<1> QED  BY <1>2, <1>4, <1>5, Zenon DEF DdnsInv

LEMMA DdnsSteps == DdnsInv /\ [DdnsNext]_ddnsVars => DdnsInv'
<1>1. SUFFICES ASSUME DdnsInv, [DdnsNext]_ddnsVars PROVE DdnsInv'
  OBVIOUS
<1>2. DdnsTypes /\ HandsOK
  BY <1>1, Zenon DEF DdnsInv
<1>3. ASSUME NEW h \in LeaseHosts, NEW ip \in DnsIPs, Grant(h, ip) PROVE DdnsInv'
  BY <1>1, <1>2, <1>3, GrantTypes, GrantKeepsPair, Zenon DEF DdnsInv
<1>4. ASSUME NEW h \in LeaseHosts, NEW ip \in DnsIPs, StoreOffer(h, ip) PROVE DdnsInv'
  BY <1>1, <1>2, <1>4, OfferTypes, OfferKeepsPair, Zenon DEF DdnsInv
<1>5. ASSUME NEW ip \in DnsIPs, Release(ip) PROVE DdnsInv'
  BY <1>1, <1>2, <1>5, ReleaseTypes, ReleaseKeepsPair, Zenon DEF DdnsInv
<1>6. ASSUME NEW ip \in DnsIPs, Expire(ip) PROVE DdnsInv'
  BY <1>1, <1>2, <1>6, ExpireTypes, ExpireKeepsPair, Zenon DEF DdnsInv
<1>7. ASSUME NEW ip \in DnsIPs, ApiReleases(ip) PROVE DdnsInv'
  BY <1>1, <1>2, <1>7, ApiReleasesTypes, ApiKeepsPair, Zenon DEF DdnsInv
<1>8. ASSUME NEW due \in SUBSET DnsIPs, SweeperLists(due) PROVE DdnsInv'
  BY <1>1, <1>2, <1>8, ListsTypes, ListsKeepsPair, Zenon DEF DdnsInv
<1>9. ASSUME NEW p \in Producers, QueueDDNS(p) PROVE DdnsInv'
  BY <1>1, <1>2, <1>9, QueueTypes, QueueKeepsPair, Zenon DEF DdnsInv
<1>10. CASE Take
  BY <1>1, <1>2, <1>10, TakeTypes, TakeKeepsPair, Zenon DEF DdnsInv
<1>11. CASE SendUpdate
  BY <1>1, <1>2, <1>11, SendTypes, SendKeepsPair, Zenon DEF DdnsInv
<1>12. ASSUME NEW reached \in BOOLEAN, SendFails(reached) PROVE DdnsInv'
  BY <1>1, <1>2, <1>12, FailTypes, FailKeepsPair, Zenon DEF DdnsInv
<1>13. CASE RestartDDNS
  BY <1>1, <1>2, <1>13, RestartTypes, RestartKeepsPair, Zenon DEF DdnsInv
<1>14. CASE UNCHANGED ddnsVars
  BY <1>1, <1>14, Zenon DEF ddnsVars, DdnsInv, DdnsTypes, HandsOK, PairOK, Excused, Held,
                            FwdTracks, PtrTracks, FwdFirst
<1> QED  BY <1>1, <1>3, <1>4, <1>5, <1>6, <1>7, <1>8, <1>9, <1>10, <1>11, <1>12, <1>13, <1>14,
            Zenon DEF DdnsNext

LEMMA DdnsFollows == DdnsInv => DnsFollowsLeases
<1>1. SUFFICES ASSUME DdnsInv PROVE DnsFollowsLeases
  OBVIOUS
<1>2. /\ last.host \in [DnsHosts -> DnsIPs \cup {NoHost}]
      /\ last.ip \in [DnsIPs -> DnsHosts \cup {NoHost}]
  BY <1>1, SMT DEF DdnsInv, DdnsTypes
<1>3. ASSUME NEW h \in DnsHosts, \A r \in Unsent : r.host # h, last.host[h] # NoHost,
             <<h, last.host[h]>> \notin off
      PROVE  fwd[h] = IF leased[last.host[h]] = h THEN {last.host[h]} ELSE {}
  <2>1. PICK ip \in DnsIPs : ip = last.host[h]
    BY <1>2, <1>3
  <2>2. UpsertOf(h, ip).host = h /\ DeleteOf(h, ip).host = h
    BY PairFacts
  <2>3. UpsertOf(h, ip) \notin Unsent /\ DeleteOf(h, ip) \notin Unsent
    BY <1>3, <2>2
  <2> QED  BY <1>1, <1>3, <2>1, <2>3, PairSettled, Zenon
<1>4. ASSUME NEW ip \in DnsIPs, \A r \in Unsent : r.ip # ip, last.ip[ip] # NoHost,
             <<last.ip[ip], ip>> \notin off
      PROVE  ptr[ip] = IF leased[ip] = last.ip[ip] THEN {last.ip[ip]} ELSE {}
  <2>1. PICK h \in DnsHosts : h = last.ip[ip]
    BY <1>2, <1>4
  <2>2. UpsertOf(h, ip).ip = ip /\ DeleteOf(h, ip).ip = ip
    BY PairFacts
  <2>3. UpsertOf(h, ip) \notin Unsent /\ DeleteOf(h, ip) \notin Unsent
    BY <1>4, <2>2
  <2> QED  BY <1>1, <1>4, <2>1, <2>3, PairSettled, Zenon
<1> QED  BY <1>3, <1>4, Zenon DEF DnsFollowsLeases

\* The queue keeps within its capacity and holds requests of the two kinds;
\* the zones hold host names and addresses: queueDDNS never blocks and never
\* overfills ddnsQueue, and Apply and Delete write nothing else.
THEOREM DdnsTypeCorrect == DdnsSpec => []DdnsTypeOK
<1>1. DdnsInv => DdnsTypeOK
  BY SMT DEF DdnsInv, DdnsTypes, DdnsTypeOK, WorkerIdle
<1> QED  BY <1>1, DdnsStart, DdnsSteps, PTL DEF DdnsSpec

\* Once the updates about a host or an address have been sent, its records say
\* what its newest lease says: Apply and Delete work through ddnsQueue in the
\* order in which the producers filled it, whatever the leases did meanwhile
\* and however long the queue is.  The pairs of a name and an address that the
\* code gives up (a lease that changed its name, updates dropped, failed or
\* never sent) are in off.
THEOREM RecordsFollowLeases == DdnsSpec => []DnsFollowsLeases
  BY DdnsStart, DdnsSteps, DdnsFollows, PTL DEF DdnsSpec

-----------------------------------------------------------------------------
(***************************************************************************)
(* The parts side by side.  A focus lets one of them move at a time, so    *)
(* what the runs explore are behaviours of each part's specification.      *)
(***************************************************************************)
LEMMA FocusMovesOne ==
    ASSUME [MCNext]_mcVars
    PROVE  /\ [BusNext]_busVars /\ [DiscNext]_discVars /\ [V6Next]_v6Vars
           /\ [DdnsNext]_ddnsVars /\ [McpNext]_mcpVars
  <1>1. CASE UNCHANGED mcVars BY <1>1, Zenon DEF mcVars
  <1>2. CASE (Webhooks /\ OthersRest("bus")) \/ (Sockets /\ OthersRest("bus"))
    <2>1. BusNext BY <1>2, Zenon DEF Webhooks, Sockets
    <2>2. OthersRest("bus") BY <1>2, Zenon
    <2> QED BY <2>1, <2>2, Zenon DEF OthersRest
  <1>3. CASE (ScanData /\ OthersRest("discovery")) \/ (ScanLocks /\ OthersRest("discovery"))
    <2>1. DiscNext BY <1>3, Zenon DEF ScanData, ScanLocks
    <2>2. OthersRest("discovery") BY <1>3, Zenon
    <2> QED BY <2>1, <2>2, Zenon DEF OthersRest
  <1>4. CASE (Roam6 /\ OthersRest("v6")) \/ (Sweep6 /\ OthersRest("v6"))
    <2>1. V6Next BY <1>4, Zenon DEF Roam6, Sweep6
    <2>2. OthersRest("v6") BY <1>4, Zenon
    <2> QED BY <2>1, <2>2, Zenon DEF OthersRest
  <1>5. CASE DdnsNext /\ OthersRest("ddns") BY <1>5, Zenon DEF OthersRest
  <1>6. CASE McpNext /\ OthersRest("mcp") BY <1>6, Zenon DEF OthersRest
  <1> QED BY <1>1, <1>2, <1>3, <1>4, <1>5, <1>6, Zenon DEF MCNext

\* With the fairness of the parts, every behaviour of the instances is one of
\* the specification of each part: the event broker with its receivers,
\* discovery, DHCPv6, dynamic DNS and MCP share no state, and what is proved of
\* one of them holds beside the others.
THEOREM PartsRunBeside == MCFairSpec => BusSpec /\ DiscSpec /\ V6Spec /\ DdnsSpec /\ McpSpec
  <1>1. MCInit => BusInit /\ DiscInit /\ V6Init /\ DdnsInit /\ McpInit BY Zenon DEF MCInit
  <1> QED BY <1>1, FocusMovesOne, PTL DEF MCFairSpec, MCSpec, BusSpec, DiscSpec, V6Spec, DdnsSpec, McpSpec

\* The state of every part keeps its type while the parts run side by side.
THEOREM BackgroundTypeCorrect == MCSpec => []BackgroundTypeOK
  <1>1. MCInit => BusInit /\ DiscInit /\ V6Init /\ DdnsInit /\ McpInit BY Zenon DEF MCInit
  <1>2. BusTypeOK /\ DiscTypeOK /\ V6TypeOK /\ DdnsTypeOK /\ McpTypeOK => BackgroundTypeOK
    BY Zenon DEF BackgroundTypeOK
  <1>3. MCSpec => V6Spec /\ DdnsSpec BY <1>1, FocusMovesOne, PTL DEF MCSpec, V6Spec, DdnsSpec
  <1>4. MCSpec => /\ BusInit /\ [][BusNext]_busVars
                  /\ DiscInit /\ [][DiscNext]_discVars
                  /\ McpInit /\ [][McpNext]_mcpVars
    BY <1>1, FocusMovesOne, PTL DEF MCSpec
  <1> QED BY <1>2, <1>3, <1>4, BusTypesHold, DiscTypesHold, McpTypesHold, V6TypeCorrect, DdnsTypeCorrect, PTL
=============================================================================

--------------------------- MODULE MemPoolProofs ---------------------------
(***************************************************************************)
(* Proofs about the pools of virtual IP addresses, for all pools, clients, *)
(* hosts and IKE_SAs: the pools keep the promise of AddressPool, and so an *)
(* address is never shared by different clients or hosts.                  *)
(*                                                                         *)
(* The entries of a lease say how many IKE_SAs have it only if every       *)
(* answer and every release is counted: CountInv relates the two, and      *)
(* PlaceInv that an offset is listed in one place.  UsedInv makes the      *)
(* counter of a pool the boundary between what somebody has had and what   *)
(* nobody has had; AskInv carries what an IKE_SA has seen of one pool over *)
(* the questions it asks the others.                                       *)
(*                                                                         *)
(* CoverInv is why nobody hoards: of the leases that a client has in the   *)
(* first k pools, each can be given an IKE_SA of that client for its own   *)
(* that is not asking those pools in vain.  RefusedInv follows from it at  *)
(* the last question: who was refused met as many IKE_SAs as there are     *)
(* addresses.                                                              *)
(***************************************************************************)
EXTENDS MemPool, FiniteSetTheorems, TLAPS

AddrAt(p, o) == Pool[p].base + o - 1

\* The IKE_SAs that have a lease
Users(p, i, o, h) ==
    {s \in Sas : /\ pc[s] = "up" /\ o \in Offsets(p) /\ addr[s] = AddrAt(p, o)
                 /\ IdOf[s] = i /\ HostOf[s] = h}

UpInv == \A s \in Sas : pc[s] = "up" <=> addr[s] # NoAddr

CountInv ==
    \A p \in Pools, i \in Ids, o \in Offset, h \in Hosts :
        online[p][i][o][h] = Cardinality(Users(p, i, o, h))

\* An offset is listed for one identity, and either offline or online for one
\* host.
PlaceInv ==
    \A p \in Pools, i, j \in Ids :
        /\ offline[p][i] \subseteq Offsets(p)
        /\ \A o \in Offsets(p) :
            /\ Has(p, i, o) /\ Has(p, j, o) => i = j
            /\ o \in offline[p][i] => \A h \in Hosts : online[p][i][o][h] = 0
            /\ \A h, g \in Hosts : online[p][i][o][h] > 0 /\ online[p][i][o][g] > 0 => h = g

UsedInv ==
    \A p \in Pools :
        /\ unused[p] <= Size(p)
        /\ \A o \in Offsets(p) :
            (\E i \in Ids : Has(p, i, o)) <=> o <= unused[p] + Skipped(p)

AskInv ==
    \A s \in Sas :
        /\ op[s] = "new" => \A p \in 1 .. (at[s] - 1) : ~Left(p)
        /\ op[s] = "reassign" => \A p \in Pools : ~Left(p)

IInv == TypeOK /\ UpInv /\ CountInv /\ PlaceInv /\ UsedInv /\ AskInv

---------------------------------------------------------------------------
(* Offsets and addresses *)

LEMMA PoolTypes ==
    \A p \in Pools :
        /\ Pool[p].base \in Nat /\ Size(p) \in Nat \ {0} /\ Skipped(p) \in {0, 1}
        /\ Offsets(p) \subseteq Nat \ {0} /\ Offsets(p) \subseteq Offset
BY PoolsAssumption DEF Size, Skipped, Offsets, Offset

\* An offset has an address, which is served and has that offset.
LEMMA AddressOfOffset ==
    ASSUME NEW p \in Pools, NEW o \in Offsets(p)
    PROVE  /\ Offset2Host(p, o) = AddrAt(p, o)
           /\ AddrAt(p, o) \in Addrs
           /\ AddrAt(p, o) # NoAddr
           /\ Host2Offset(p, AddrAt(p, o)) = o
<1>1. /\ Pool[p].base \in Nat /\ Size(p) \in Nat /\ Skipped(p) \in {0, 1}
      /\ o \in Nat /\ 1 <= o /\ o <= Size(p) + Skipped(p)
  BY PoolTypes DEF Offsets
<1>2. AddrAt(p, o) \in Int /\ AddrAt(p, o) <= Pool[p].base + Size(p)
  BY <1>1 DEF AddrAt
<1>3. AddrAt(p, o) # NoAddr
  BY <1>2, PoolsAssumption
<1>4. Offset2Host(p, o) = AddrAt(p, o)
  BY <1>1 DEF Offset2Host, AddrAt
<1>5. AddrAt(p, o) \in Addrs
  BY DEF Addrs, AddrsOf, AddrAt
<1>6. Host2Offset(p, AddrAt(p, o)) = o
  BY <1>1, <1>2, <1>3 DEF Host2Offset, AddrAt
<1> QED BY <1>3, <1>4, <1>5, <1>6

\* An address has one pool and one offset.
LEMMA OffsetOfAddress ==
    /\ \A a \in Addrs : \E p \in Pools : \E o \in Offsets(p) : a = AddrAt(p, o)
    /\ \A p, q \in Pools : \A o \in Offsets(p), u \in Offsets(q) :
            AddrAt(p, o) = AddrAt(q, u) => p = q /\ o = u
<1>1. \A a \in Addrs : \E p \in Pools : \E o \in Offsets(p) : a = AddrAt(p, o)
  BY DEF Addrs, AddrsOf, AddrAt
<1>2. ASSUME NEW p \in Pools, NEW q \in Pools, NEW o \in Offsets(p), NEW u \in Offsets(q),
             AddrAt(p, o) = AddrAt(q, u)
      PROVE  p = q /\ o = u
  <2>1. AddrAt(p, o) \in AddrsOf(p) /\ AddrAt(q, u) \in AddrsOf(q)
    BY DEF AddrsOf, AddrAt
  <2>2. p = q
    BY <1>2, <2>1, PoolsAssumption
  <2>3. Pool[p].base \in Nat /\ o \in Nat /\ u \in Nat
    BY <2>2, PoolTypes
  <2> QED BY <1>2, <2>2, <2>3 DEF AddrAt
<1> QED BY <1>1, <1>2

\* What host2offset() finds in a pool is the offset of the address.
LEMMA OffsetFound ==
    ASSUME NEW p \in Pools, NEW a \in Addrs, Host2Offset(p, a) \in Offsets(p)
    PROVE  a = AddrAt(p, Host2Offset(p, a))
<1>0. PICK q \in Pools : \E u \in Offsets(q) : a = AddrAt(q, u)
  BY OffsetOfAddress
<1>1. PICK u \in Offsets(q) : a = AddrAt(q, u)
  BY <1>0
<1>2. a \in Int /\ Pool[p].base \in Nat /\ Size(p) \in Nat
  BY <1>1, PoolTypes DEF AddrAt
<1>3. Host2Offset(p, a) = a - Pool[p].base + 1
  <2>1. 0 < Host2Offset(p, a)
    BY PoolTypes
  <2> QED BY <1>2, <2>1 DEF Host2Offset
<1> QED BY <1>2, <1>3 DEF AddrAt

LEMMA UsersFinite ==
    \A p, i, o, h : IsFiniteSet(Users(p, i, o, h))
BY SasAssumption, FS_Subset DEF Users

---------------------------------------------------------------------------
(* The initial state *)

LEMMA InitIInv == Init => IInv
<1> SUFFICES ASSUME Init PROVE IInv
  OBVIOUS
<1>1. TypeOK /\ UpInv /\ AskInv
  BY PoolsAssumption DEF Init, TypeOK, UpInv, AskInv, Pools
<1>2. CountInv
  <2>1. \A p, i, o, h : Users(p, i, o, h) = {}
    BY DEF Init, Users
  <2> QED BY <2>1, FS_EmptySet DEF Init, CountInv
<1>3. PlaceInv /\ UsedInv
  <2>5. /\ \A p \in Pools, i \in Ids : offline[p][i] = {}
        /\ \A p \in Pools, i \in Ids, o \in Offset, h \in Hosts : online[p][i][o][h] = 0
    BY DEF Init
  <2>1. \A p \in Pools, i \in Ids : \A o \in Offsets(p) : ~Has(p, i, o)
    BY <2>5, PoolTypes DEF Has
  <2>2. \A p \in Pools : Offsets(p) \subseteq Offset /\ Size(p) \in Nat
    BY PoolTypes
  <2>3. PlaceInv
    BY <2>1, <2>2, <2>5 DEF PlaceInv
  <2>4. \A p \in Pools : \A o \in Offsets(p) : ~(o <= 0 + Skipped(p))
    BY PoolTypes DEF Offsets
  <2> QED BY <2>1, <2>2, <2>3, <2>4 DEF Init, UsedInv
<1> QED BY <1>1, <1>2, <1>3 DEF IInv

---------------------------------------------------------------------------
(* An address is given *)

\* The IKE_SAs that have a lease are one more, or the same.
LEMMA UsersGrow ==
    ASSUME IInv, NEW s \in Sas, NEW p \in Pools, NEW o \in Offsets(p),
           pc[s] = "asking", Ends(s, AddrAt(p, o))
    PROVE  /\ s \notin Users(p, IdOf[s], o, HostOf[s])
           /\ Users(p, IdOf[s], o, HostOf[s])' = Users(p, IdOf[s], o, HostOf[s]) \cup {s}
           /\ \A q \in Pools, i \in Ids, u \in Offset, h \in Hosts :
                  ~(q = p /\ i = IdOf[s] /\ u = o /\ h = HostOf[s])
                      => Users(q, i, u, h)' = Users(q, i, u, h)
<1>1. AddrAt(p, o) # NoAddr
  BY AddressOfOffset
<1>2. /\ pc' = [pc EXCEPT ![s] = "up"] /\ addr' = [addr EXCEPT ![s] = AddrAt(p, o)]
      /\ pc \in [Sas -> {"none", "asking", "up", "idle", "refused"}]
      /\ addr \in [Sas -> Addrs \cup {NoAddr}]
  BY <1>1 DEF Ends, IInv, TypeOK
<1>3. pc'[s] = "up" /\ addr'[s] = AddrAt(p, o)
  BY <1>2
<1>4. \A t \in Sas : t # s => pc'[t] = pc[t] /\ addr'[t] = addr[t]
  BY <1>2
<1>5. ASSUME NEW q \in Pools, NEW i \in Ids, NEW u \in Offset, NEW h \in Hosts,
             ~(q = p /\ i = IdOf[s] /\ u = o /\ h = HostOf[s])
      PROVE  Users(q, i, u, h)' = Users(q, i, u, h)
  <2>1. s \notin Users(q, i, u, h)
    BY DEF Users
  <2>2. s \notin Users(q, i, u, h)'
    BY <1>3, <1>5, OffsetOfAddress DEF Users
  <2>3. \A t \in Sas : t # s => (t \in Users(q, i, u, h)' <=> t \in Users(q, i, u, h))
    BY <1>4 DEF Users
  <2> QED BY <2>1, <2>2, <2>3 DEF Users
<1>6. s \notin Users(p, IdOf[s], o, HostOf[s])
  BY DEF Users
<1>7. Users(p, IdOf[s], o, HostOf[s])' = Users(p, IdOf[s], o, HostOf[s]) \cup {s}
  <2>1. s \in Users(p, IdOf[s], o, HostOf[s])'
    BY <1>3 DEF Users
  <2>2. \A t \in Sas : t # s => (t \in Users(p, IdOf[s], o, HostOf[s])'
                                    <=> t \in Users(p, IdOf[s], o, HostOf[s]))
    BY <1>4 DEF Users
  <2> QED BY <2>1, <2>2 DEF Users
<1> QED BY <1>5, <1>6, <1>7

\* An entry that is listed once more is one element more.
LEMMA ListedOnce ==
    ASSUME TypeOK, NEW s \in Sas, NEW p \in Pools, NEW o \in Offsets(p), Listed(s, p, o)
    PROVE  /\ online' \in [Pools -> [Ids -> [Offset -> [Hosts -> Nat]]]]
           /\ \A q \in Pools, i \in Ids, u \in Offset, h \in Hosts :
                  online'[q][i][u][h] =
                      IF q = p /\ i = IdOf[s] /\ u = o /\ h = HostOf[s]
                      THEN online[q][i][u][h] + 1 ELSE online[q][i][u][h]
<1>1. o \in Offset /\ IdOf[s] \in Ids /\ HostOf[s] \in Hosts
  BY PoolTypes, SasAssumption
<1>2. /\ online \in [Pools -> [Ids -> [Offset -> [Hosts -> Nat]]]]
      /\ online' = [online EXCEPT ![p][IdOf[s]][o][HostOf[s]] = @ + 1]
  BY DEF TypeOK, Listed
<1> QED BY <1>1, <1>2

\* Offset o of pool p becomes the lease of IKE_SA s.
Gives(s, p, o) ==
    /\ pc[s] = "asking"
    /\ Ends(s, AddrAt(p, o))
    /\ Listed(s, p, o)
    /\ offline' \in [Pools -> [Ids -> SUBSET Offset]]
    /\ unused' \in [Pools -> Nat]
    /\ \A q \in Pools, i \in Ids :
           offline'[q][i] = IF q = p THEN offline[q][i] \ {o} ELSE offline[q][i]
    /\ \A i \in Ids, h \in Hosts :
           online[p][i][o][h] > 0 => i = IdOf[s] /\ h = HostOf[s]
    /\ \A q \in Pools :
           /\ unused'[q] <= Size(q) /\ unused[q] <= unused'[q]
           /\ \A u \in Offsets(q) :
                  u <= unused'[q] + Skipped(q)
                      <=> u <= unused[q] + Skipped(q) \/ (q = p /\ u = o)

\* It is then listed for one identity; every other one is listed as before.
LEMMA HasGiven ==
    ASSUME TypeOK, NEW s \in Sas, NEW p \in Pools, NEW o \in Offsets(p), Gives(s, p, o)
    PROVE  \A q \in Pools, i \in Ids : \A u \in Offsets(q) :
               Has(q, i, u)' <=> IF q = p /\ u = o THEN i = IdOf[s] ELSE Has(q, i, u)
<1> USE DEF Gives
<1>a. o \in Offset /\ IdOf[s] \in Ids /\ HostOf[s] \in Hosts
  BY PoolTypes, SasAssumption
<1>b. TypeOK
  OBVIOUS
<1> SUFFICES ASSUME NEW q \in Pools, NEW i \in Ids, NEW u \in Offsets(q)
             PROVE  Has(q, i, u)' <=> IF q = p /\ u = o THEN i = IdOf[s] ELSE Has(q, i, u)
  OBVIOUS
<1>0. u \in Offset
  BY PoolTypes
<1>1. CASE q = p /\ u = o
  <2>1. u \notin offline'[q][i]
    BY <1>1
  <2>2. (\E h \in Hosts : online'[q][i][u][h] > 0) <=> i = IdOf[s]
    <3>1. online'[p][IdOf[s]][o][HostOf[s]] > 0
      <4>1. online'[p][IdOf[s]][o][HostOf[s]] = online[p][IdOf[s]][o][HostOf[s]] + 1
        BY <1>a, <1>b, ListedOnce
      <4>2. online[p][IdOf[s]][o][HostOf[s]] \in Nat
        BY <1>a, <1>b DEF TypeOK
      <4> QED BY <4>1, <4>2
    <3>2. ASSUME NEW h \in Hosts, online'[p][i][o][h] > 0
          PROVE  i = IdOf[s]
      <4>1. i # IdOf[s] => online'[p][i][o][h] = online[p][i][o][h]
        BY <1>a, <1>b, ListedOnce
      <4> QED BY <3>2, <4>1
    <3> QED BY <1>a, <1>1, <3>1, <3>2
  <2> QED BY <1>1, <2>1, <2>2 DEF Has
<1>2. CASE ~(q = p /\ u = o)
  <2>1. u \in offline'[q][i] <=> u \in offline[q][i]
    BY <1>2
  <2>2. \A h \in Hosts : online'[q][i][u][h] = online[q][i][u][h]
    BY <1>b, <1>0, <1>2, ListedOnce
  <2> QED BY <1>2, <2>1, <2>2 DEF Has
<1> QED BY <1>1, <1>2

\* The invariant holds when an offset was offline, is shared by a client at one
\* host, or was nobody's.
LEMMA Grant ==
    ASSUME IInv, NEW s \in Sas, NEW p \in Pools, NEW o \in Offsets(p), Gives(s, p, o)
    PROVE  IInv'
<1>0. \A q \in Pools, i \in Ids : \A u \in Offsets(q) :
          Has(q, i, u)' <=> IF q = p /\ u = o THEN i = IdOf[s] ELSE Has(q, i, u)
  BY HasGiven DEF IInv
<1> USE DEF Gives
<1>1. /\ AddrAt(p, o) \in Addrs /\ AddrAt(p, o) # NoAddr
      /\ o \in Offset /\ IdOf[s] \in Ids /\ HostOf[s] \in Hosts
  BY AddressOfOffset, PoolTypes, SasAssumption
<1>2. TypeOK
  BY DEF IInv
<1>3. /\ pc' = [pc EXCEPT ![s] = "up"] /\ addr' = [addr EXCEPT ![s] = AddrAt(p, o)]
  BY <1>1 DEF Ends
<1>4. TypeOK'
  <2>1. online' \in [Pools -> [Ids -> [Offset -> [Hosts -> Nat]]]]
    BY <1>2, ListedOnce
  <2>2. 1 \in Pools
    BY PoolsAssumption DEF Pools
  <2> QED BY <1>1, <1>2, <1>3, <2>1, <2>2 DEF TypeOK, Ends
<1>5. UpInv'
  BY <1>1, <1>2, <1>3 DEF UpInv, TypeOK, IInv
<1>6. CountInv'
  <2> SUFFICES ASSUME NEW q \in Pools, NEW i \in Ids, NEW u \in Offset, NEW h \in Hosts
               PROVE  online'[q][i][u][h] = Cardinality(Users(q, i, u, h)')
    BY DEF CountInv
  <2>1. online[q][i][u][h] = Cardinality(Users(q, i, u, h))
    BY DEF IInv, CountInv
  <2>2. CASE q = p /\ i = IdOf[s] /\ u = o /\ h = HostOf[s]
    <3>1. online'[q][i][u][h] = online[q][i][u][h] + 1
      BY <1>2, <2>2, ListedOnce
    <3>2. Cardinality(Users(q, i, u, h) \cup {s}) = Cardinality(Users(q, i, u, h)) + 1
      BY <2>2, UsersGrow, UsersFinite, FS_AddElement
    <3> QED BY <2>1, <2>2, <3>1, <3>2, UsersGrow
  <2>3. CASE ~(q = p /\ i = IdOf[s] /\ u = o /\ h = HostOf[s])
    <3>1. online'[q][i][u][h] = online[q][i][u][h]
      BY <1>2, <2>3, ListedOnce
    <3> QED BY <2>1, <2>3, <3>1, UsersGrow
  <2> QED BY <2>2, <2>3
<1>8. PlaceInv'
  <2> SUFFICES ASSUME NEW q \in Pools, NEW i \in Ids, NEW j \in Ids
               PROVE  /\ offline'[q][i] \subseteq Offsets(q)
                      /\ \A u \in Offsets(q) :
                          /\ Has(q, i, u)' /\ Has(q, j, u)' => i = j
                          /\ u \in offline'[q][i] => \A h \in Hosts : online'[q][i][u][h] = 0
                          /\ \A h, g \in Hosts :
                                 online'[q][i][u][h] > 0 /\ online'[q][i][u][g] > 0 => h = g
    BY DEF PlaceInv
  <2>1. /\ offline[q][i] \subseteq Offsets(q)
        /\ \A u \in Offsets(q) :
            /\ Has(q, i, u) /\ Has(q, j, u) => i = j
            /\ u \in offline[q][i] => \A h \in Hosts : online[q][i][u][h] = 0
            /\ \A h, g \in Hosts : online[q][i][u][h] > 0 /\ online[q][i][u][g] > 0 => h = g
    BY DEF IInv, PlaceInv
  <2>2. offline'[q][i] \subseteq Offsets(q)
    BY <2>1
  <2>3. ASSUME NEW u \in Offsets(q)
        PROVE  /\ Has(q, i, u)' /\ Has(q, j, u)' => i = j
               /\ u \in offline'[q][i] => \A h \in Hosts : online'[q][i][u][h] = 0
               /\ \A h, g \in Hosts :
                      online'[q][i][u][h] > 0 /\ online'[q][i][u][g] > 0 => h = g
    <3>0. u \in Offset
      BY PoolTypes
    <3>1. Has(q, i, u)' /\ Has(q, j, u)' => i = j
      BY <1>0, <2>1
    <3>2. CASE q = p /\ u = o
      <4>1. u \notin offline'[q][i]
        BY <3>2
      <4>2. ASSUME NEW h \in Hosts, online'[q][i][u][h] > 0
            PROVE  h = HostOf[s]
        <5>1. h # HostOf[s] => online'[q][i][u][h] = online[q][i][u][h]
          BY <1>2, <3>0, <3>2, ListedOnce
        <5> QED BY <3>2, <4>2, <5>1
      <4> QED BY <3>1, <4>1, <4>2
    <3>3. CASE ~(q = p /\ u = o)
      <4>1. \A h \in Hosts : online'[q][i][u][h] = online[q][i][u][h]
        BY <1>2, <3>0, <3>3, ListedOnce
      <4>2. u \in offline'[q][i] <=> u \in offline[q][i]
        BY <3>3
      <4> QED BY <2>1, <3>1, <4>1, <4>2
    <3> QED BY <3>2, <3>3
  <2> QED BY <2>2, <2>3
<1>9. UsedInv'
  <2> SUFFICES ASSUME NEW q \in Pools
               PROVE  /\ unused'[q] <= Size(q)
                      /\ \A u \in Offsets(q) :
                             (\E i \in Ids : Has(q, i, u)') <=> u <= unused'[q] + Skipped(q)
    BY DEF UsedInv, Size, Offsets, Skipped
  <2>1. \A u \in Offsets(q) : (\E i \in Ids : Has(q, i, u)) <=> u <= unused[q] + Skipped(q)
    BY DEF IInv, UsedInv
  <2>2. ASSUME NEW u \in Offsets(q)
        PROVE  (\E i \in Ids : Has(q, i, u)') <=> u <= unused'[q] + Skipped(q)
    <3>1. CASE q = p /\ u = o
      BY <1>1, <1>0, <3>1
    <3>2. CASE ~(q = p /\ u = o)
      BY <1>0, <2>1, <3>2
    <3> QED BY <3>1, <3>2
  <2> QED BY <2>2
<1>10. AskInv'
  <2> SUFFICES ASSUME NEW t \in Sas
               PROVE  /\ op'[t] = "new" => \A q \in 1 .. (at'[t] - 1) : ~Left(q)'
                      /\ op'[t] = "reassign" => \A q \in Pools : ~Left(q)'
    BY DEF AskInv
  <2>1. op'[t] = "existing" \/ (op'[t] = op[t] /\ at'[t] = at[t])
    BY <1>2, <1>3 DEF Ends, TypeOK
  <2>2. \A q \in Pools : ~Left(q) => ~Left(q)'
    BY <1>2, PoolTypes DEF Left, Size, TypeOK
  <2>3. at[t] \in Pools /\ 1 .. (at[t] - 1) \subseteq Pools
    BY <1>2, PoolsAssumption DEF TypeOK, Pools
  <2> QED BY <2>1, <2>2, <2>3 DEF IInv, AskInv
<1> QED BY <1>4, <1>5, <1>6, <1>8, <1>9, <1>10 DEF IInv

---------------------------------------------------------------------------
(* A question without an answer *)

\* What depends on the leases and on the addresses holds as before.
LEMMA SameLeases ==
    ASSUME IInv, UNCHANGED leaseVars,
           \A t \in Sas : addr'[t] = addr[t] /\ (pc'[t] = "up" <=> pc[t] = "up")
    PROVE  /\ UpInv' /\ CountInv' /\ PlaceInv' /\ UsedInv'
           /\ \A p \in Pools : Left(p)' <=> Left(p)
<1>1. online' = online /\ offline' = offline /\ unused' = unused
  BY DEF leaseVars
<1>2. UpInv'
  BY DEF IInv, UpInv
<1>3. CountInv'
  <2>1. \A p \in Pools, i \in Ids, o \in Offset, h \in Hosts :
            Users(p, i, o, h)' = Users(p, i, o, h)
    BY DEF Users
  <2> QED BY <1>1, <2>1 DEF IInv, CountInv
<1>4. PlaceInv'
  BY <1>1 DEF IInv, PlaceInv, Has
<1>5. UsedInv'
  BY <1>1 DEF IInv, UsedInv, Has
<1>6. \A p \in Pools : Left(p)' <=> Left(p)
  BY <1>1 DEF Left, Size
<1> QED BY <1>2, <1>3, <1>4, <1>5, <1>6

LEMMA UnansweredIInv ==
    ASSUME IInv, NEW s \in Sas, pc[s] = "asking", UNCHANGED leaseVars, Unanswered(s),
           op[s] = "new" => ~Left(at[s])
    PROVE  IInv'
<1>1. TypeOK /\ N \in Nat \ {0} /\ addr[s] = NoAddr
  BY PoolsAssumption DEF IInv, UpInv, TypeOK
<1>2. at[s] \in Pools /\ Pools = 1 .. N
  BY <1>1 DEF TypeOK, Pools
<1>3. TypeOK'
  <2>1. online' = online /\ offline' = offline /\ unused' = unused
    BY DEF leaseVars
  <2>2. 1 \in Pools /\ (at[s] < N => at[s] + 1 \in Pools)
    BY <1>1, <1>2
  <2>3. Following(op[s]) \in {"existing", "new", "reassign"}
    BY DEF Following
  <2>4. at' \in [Sas -> Pools] /\ op' \in [Sas -> {"existing", "new", "reassign"}]
    BY <1>1, <2>2, <2>3 DEF TypeOK, Unanswered, Ends
  <2>5. /\ pc' \in [Sas -> {"none", "asking", "up", "idle", "refused"}]
        /\ wanted' \in [Sas -> Addrs \cup {NoAddr}]
        /\ addr' \in [Sas -> Addrs \cup {NoAddr}]
    BY <1>1 DEF TypeOK, Unanswered, Ends
  <2> QED BY <1>1, <2>1, <2>4, <2>5 DEF TypeOK
<1>4. \A t \in Sas : addr'[t] = addr[t] /\ (pc'[t] = "up" <=> pc[t] = "up")
  BY <1>1 DEF TypeOK, Unanswered, Ends
<1>5. AskInv'
  <2> SUFFICES ASSUME NEW t \in Sas
               PROVE  /\ op'[t] = "new" => \A q \in 1 .. (at'[t] - 1) : ~Left(q)'
                      /\ op'[t] = "reassign" => \A q \in Pools : ~Left(q)'
    BY DEF AskInv
  <2>2. /\ op[t] = "new" => \A q \in 1 .. (at[t] - 1) : ~Left(q)
        /\ op[t] = "reassign" => \A q \in Pools : ~Left(q)
    BY DEF IInv, AskInv
  <2>3. \A q \in Pools : Left(q)' <=> Left(q)
    BY <1>4, SameLeases
  <2>4. at[t] \in Pools
    BY <1>1 DEF TypeOK
  <2>5. CASE t # s
    <3>1. op'[t] = op[t] /\ at'[t] = at[t]
      BY <1>1, <2>5 DEF TypeOK, Unanswered, Ends
    <3>2. 1 .. (at[t] - 1) \subseteq Pools
      BY <1>1, <1>2, <2>4
    <3> QED BY <2>2, <2>3, <3>1, <3>2
  <2>6. CASE t = s /\ at[s] < N
    <3>1. op'[s] = op[s] /\ at'[s] = at[s] + 1
      BY <1>1, <1>2, <2>6 DEF TypeOK, Unanswered, Ends
    <3>2. 1 .. at[s] \subseteq Pools /\ at'[s] - 1 = at[s] /\ at[s] \in Nat
      BY <1>1, <1>2, <2>6, <3>1
    <3>3. \A q \in 1 .. at[s] : q = at[s] \/ q \in 1 .. (at[s] - 1)
      BY <3>2
    <3> QED BY <2>2, <2>3, <2>6, <3>1, <3>2, <3>3
  <2>7. CASE t = s /\ at[s] = N /\ op[s] = "reassign"
    BY <1>1, <1>2, <2>7 DEF TypeOK, Unanswered, Ends
  <2>8. CASE t = s /\ at[s] = N /\ op[s] # "reassign"
    <3>1. at'[s] = 1 /\ op'[s] = Following(op[s])
      BY <1>1, <1>2, <2>8 DEF TypeOK, Unanswered
    <3>2. op[s] = "new" => \A q \in Pools : ~Left(q)
      <4>1. \A q \in Pools : q = at[s] \/ q \in 1 .. (at[s] - 1)
        BY <1>1, <1>2, <2>8
      <4> QED BY <2>2, <2>8, <4>1
    <3>3. op[s] \in {"existing", "new"}
      BY <1>1, <2>8 DEF TypeOK
    <3>4. CASE op[s] = "existing"
      BY <2>8, <3>1, <3>4 DEF Following
    <3>5. CASE op[s] = "new"
      BY <2>3, <2>8, <3>1, <3>2, <3>5 DEF Following
    <3> QED BY <3>3, <3>4, <3>5
  <2> QED BY <1>1, <1>2, <2>5, <2>6, <2>7, <2>8
<1> QED BY <1>3, <1>4, <1>5, SameLeases DEF IInv

LEMMA RequestsIInv ==
    ASSUME IInv, NEW s \in Sas, NEW a \in Addrs \cup {NoAddr}, Requests(s, a)
    PROVE  IInv'
<1>1. TypeOK
  BY DEF IInv
<1>2. TypeOK'
  BY <1>1 DEF TypeOK, Requests, leaseVars
<1>3. \A t \in Sas : addr'[t] = addr[t] /\ (pc'[t] = "up" <=> pc[t] = "up")
  BY <1>1 DEF TypeOK, Requests
<1>4. UNCHANGED leaseVars /\ op' = op /\ at' = at
  BY DEF Requests
<1>5. AskInv'
  <2>1. \A p \in Pools : Left(p)' <=> Left(p)
    BY <1>3, <1>4, SameLeases
  <2>2. \A t \in Sas : 1 .. (at[t] - 1) \subseteq Pools
    BY <1>1, PoolsAssumption DEF TypeOK, Pools
  <2> QED BY <1>4, <2>1, <2>2 DEF IInv, AskInv
<1> QED BY <1>2, <1>3, <1>4, <1>5, SameLeases DEF IInv

---------------------------------------------------------------------------
(* An address is released *)

\* An IKE_SA that is up has the only lease that its pool can find, and the
\* lease goes offline with its last element.
LEMMA Released ==
    ASSUME IInv, NEW s \in Sas, Releases(s),
           NEW p \in Pools, NEW o \in Offsets(p), addr[s] = AddrAt(p, o)
    PROVE  /\ s \in Users(p, IdOf[s], o, HostOf[s])
           /\ online[p][IdOf[s]][o][HostOf[s]] > 0
           /\ online' = [online EXCEPT ![p][IdOf[s]][o][HostOf[s]] = @ - 1]
           /\ offline' = IF online[p][IdOf[s]][o][HostOf[s]] > 1 THEN offline
                         ELSE [offline EXCEPT ![p][IdOf[s]] = @ \cup {o}]
<1>1. /\ pc[s] = "up" /\ Host2Offset(p, addr[s]) = o /\ addr[s] \in Addrs
      /\ o \in Offset /\ IdOf[s] \in Ids /\ HostOf[s] \in Hosts
  BY AddressOfOffset, PoolTypes, SasAssumption DEF Releases
<1>2. s \in Users(p, IdOf[s], o, HostOf[s])
  BY <1>1 DEF Users
<1>3. online[p][IdOf[s]][o][HostOf[s]] > 0
  <2>1. online[p][IdOf[s]][o][HostOf[s]] = Cardinality(Users(p, IdOf[s], o, HostOf[s]))
    BY <1>1 DEF IInv, CountInv
  <2>2. Cardinality(Users(p, IdOf[s], o, HostOf[s])) # 0
    BY <1>2, UsersFinite, FS_EmptySet
  <2>3. Cardinality(Users(p, IdOf[s], o, HostOf[s])) \in Nat
    BY UsersFinite, FS_CardinalityType
  <2> QED BY <2>1, <2>2, <2>3
<1>4. Found(s, p, HostOf[s])
  BY <1>1, <1>3 DEF Found
<1>5. ASSUME NEW q \in Pools, NEW g \in Hosts, Found(s, q, g)
      PROVE  q = p /\ g = HostOf[s]
  <2>1. q = p
    BY <1>1, <1>5, OffsetFound, OffsetOfAddress DEF Found
  <2>2. online[p][IdOf[s]][o][g] > 0
    BY <1>1, <1>5, <2>1 DEF Found
  <2> QED BY <1>1, <1>3, <2>1, <2>2 DEF IInv, PlaceInv
<1>6. More(s, p, HostOf[s]) <=> online[p][IdOf[s]][o][HostOf[s]] > 1
  <2>1. \A g \in Hosts \ {HostOf[s]} : ~Found(s, p, g)
    BY <1>5
  <2> QED BY <1>1, <2>1 DEF More
<1> QED BY <1>1, <1>2, <1>3, <1>4, <1>5, <1>6 DEF Releases

\* Of every entry, and of every identity.
LEMMA ReleasedOnce ==
    ASSUME IInv, NEW s \in Sas, Releases(s),
           NEW p \in Pools, NEW o \in Offsets(p), addr[s] = AddrAt(p, o)
    PROVE  /\ online' \in [Pools -> [Ids -> [Offset -> [Hosts -> Nat]]]]
           /\ offline' \in [Pools -> [Ids -> SUBSET Offset]]
           /\ \A q \in Pools, i \in Ids, u \in Offset, h \in Hosts :
                  online'[q][i][u][h] =
                      IF q = p /\ i = IdOf[s] /\ u = o /\ h = HostOf[s]
                      THEN online[q][i][u][h] - 1 ELSE online[q][i][u][h]
           /\ \A q \in Pools, i \in Ids, u \in Offset :
                  u \in offline'[q][i] <=>
                      \/ u \in offline[q][i]
                      \/ /\ q = p /\ i = IdOf[s] /\ u = o
                         /\ ~(online[p][IdOf[s]][o][HostOf[s]] > 1)
<1>1. /\ o \in Offset /\ IdOf[s] \in Ids /\ HostOf[s] \in Hosts
      /\ online \in [Pools -> [Ids -> [Offset -> [Hosts -> Nat]]]]
      /\ offline \in [Pools -> [Ids -> SUBSET Offset]]
  BY PoolTypes, SasAssumption DEF IInv, TypeOK
<1>2. /\ online' = [online EXCEPT ![p][IdOf[s]][o][HostOf[s]] = @ - 1]
      /\ online[p][IdOf[s]][o][HostOf[s]] > 0
      /\ offline' = IF online[p][IdOf[s]][o][HostOf[s]] > 1 THEN offline
                    ELSE [offline EXCEPT ![p][IdOf[s]] = @ \cup {o}]
  BY Released
<1>3. online[p][IdOf[s]][o][HostOf[s]] - 1 \in Nat
  BY <1>1, <1>2
<1>4. online' \in [Pools -> [Ids -> [Offset -> [Hosts -> Nat]]]]
  BY <1>1, <1>2, <1>3
<1>5. offline' \in [Pools -> [Ids -> SUBSET Offset]]
  BY <1>1, <1>2
<1>6. \A q \in Pools, i \in Ids, u \in Offset, h \in Hosts :
          online'[q][i][u][h] =
              IF q = p /\ i = IdOf[s] /\ u = o /\ h = HostOf[s]
              THEN online[q][i][u][h] - 1 ELSE online[q][i][u][h]
  BY <1>1, <1>2
<1>7. \A q \in Pools, i \in Ids, u \in Offset :
          u \in offline'[q][i] <=>
              \/ u \in offline[q][i]
              \/ /\ q = p /\ i = IdOf[s] /\ u = o
                 /\ ~(online[p][IdOf[s]][o][HostOf[s]] > 1)
  BY <1>1, <1>2
<1> QED BY <1>4, <1>5, <1>6, <1>7

\* What is listed for whom stays as it is.
LEMMA HasKept ==
    ASSUME IInv, NEW s \in Sas, Releases(s)
    PROVE  \A q \in Pools, i \in Ids : \A u \in Offsets(q) : Has(q, i, u)' <=> Has(q, i, u)
<1>1. addr[s] \in Addrs
  BY DEF IInv, UpInv, TypeOK, Releases
<1>2. PICK p \in Pools : \E o \in Offsets(p) : addr[s] = AddrAt(p, o)
  BY <1>1, OffsetOfAddress
<1>3. PICK o \in Offsets(p) : addr[s] = AddrAt(p, o)
  BY <1>2
<1> SUFFICES ASSUME NEW q \in Pools, NEW i \in Ids, NEW u \in Offsets(q)
             PROVE  Has(q, i, u)' <=> Has(q, i, u)
  OBVIOUS
<1>4. u \in Offset
  BY PoolTypes
<1>5. CASE q = p /\ i = IdOf[s] /\ u = o
  <2>1. Has(q, i, u)
    BY <1>3, <1>5, SasAssumption, Released DEF Has
  <2>2. CASE online[p][IdOf[s]][o][HostOf[s]] > 1
    <3>1. online'[q][i][u][HostOf[s]] = online[q][i][u][HostOf[s]] - 1
      BY <1>3, <1>4, <1>5, SasAssumption, ReleasedOnce
    <3>2. online'[q][i][u][HostOf[s]] > 0
      BY <1>4, <1>5, <2>2, <3>1, SasAssumption DEF IInv, TypeOK
    <3> QED BY <2>1, <3>2, SasAssumption DEF Has
  <2>3. CASE ~(online[p][IdOf[s]][o][HostOf[s]] > 1)
    <3>1. o \in offline'[q][i]
      BY <1>3, <1>4, <1>5, <2>3, ReleasedOnce
    <3> QED BY <1>5, <2>1, <3>1 DEF Has
  <2> QED BY <2>2, <2>3
<1>6. CASE ~(q = p /\ i = IdOf[s] /\ u = o)
  <2>1. \A h \in Hosts : online'[q][i][u][h] = online[q][i][u][h]
    BY <1>3, <1>4, <1>6, ReleasedOnce
  <2>2. u \in offline'[q][i] <=> u \in offline[q][i]
    BY <1>3, <1>4, <1>6, ReleasedOnce
  <2> QED BY <2>1, <2>2 DEF Has
<1> QED BY <1>5, <1>6

LEMMA ReleasesIInv ==
    ASSUME IInv, NEW s \in Sas, Releases(s)
    PROVE  IInv'
<1>1. TypeOK /\ addr[s] \in Addrs /\ addr[s] # NoAddr
  BY DEF IInv, UpInv, TypeOK, Releases
<1>2. PICK p \in Pools : \E o \in Offsets(p) : addr[s] = AddrAt(p, o)
  BY <1>1, OffsetOfAddress
<1>3. PICK o \in Offsets(p) : addr[s] = AddrAt(p, o)
  BY <1>2
<1>4. /\ pc' = [pc EXCEPT ![s] = "idle"] /\ addr' = [addr EXCEPT ![s] = NoAddr]
      /\ unused' = unused /\ op' = op /\ at' = at /\ wanted' = wanted
  BY DEF Releases
<1>5. TypeOK'
  BY <1>1, <1>3, <1>4, ReleasedOnce DEF TypeOK
<1>6. UpInv'
  BY <1>1, <1>4 DEF IInv, UpInv, TypeOK
<1>7. CountInv'
  <2> SUFFICES ASSUME NEW q \in Pools, NEW i \in Ids, NEW u \in Offset, NEW h \in Hosts
               PROVE  online'[q][i][u][h] = Cardinality(Users(q, i, u, h)')
    BY DEF CountInv
  <2>1. online[q][i][u][h] = Cardinality(Users(q, i, u, h))
    BY DEF IInv, CountInv
  <2>2. Users(q, i, u, h)' = Users(q, i, u, h) \ {s}
    <3>1. s \notin Users(q, i, u, h)'
      BY <1>1, <1>4 DEF Users, TypeOK
    <3>2. \A t \in Sas : t # s => (t \in Users(q, i, u, h)' <=> t \in Users(q, i, u, h))
      BY <1>1, <1>4 DEF Users, TypeOK
    <3> QED BY <3>1, <3>2 DEF Users
  <2>3. CASE q = p /\ i = IdOf[s] /\ u = o /\ h = HostOf[s]
    <3>1. s \in Users(q, i, u, h)
      BY <1>3, <2>3, Released
    <3>2. Cardinality(Users(q, i, u, h) \ {s}) = Cardinality(Users(q, i, u, h)) - 1
      BY <3>1, UsersFinite, FS_RemoveElement
    <3>3. online'[q][i][u][h] = online[q][i][u][h] - 1
      BY <1>3, <2>3, ReleasedOnce
    <3> QED BY <2>1, <2>2, <3>2, <3>3
  <2>4. CASE ~(q = p /\ i = IdOf[s] /\ u = o /\ h = HostOf[s])
    <3>1. s \notin Users(q, i, u, h)
      BY <1>3, <2>4, OffsetOfAddress DEF Users
    <3>2. online'[q][i][u][h] = online[q][i][u][h]
      BY <1>3, <2>4, ReleasedOnce
    <3>3. Users(q, i, u, h) \ {s} = Users(q, i, u, h)
      BY <3>1
    <3> QED BY <2>1, <2>2, <3>2, <3>3
  <2> QED BY <2>3, <2>4
<1>8. PlaceInv'
  <2> SUFFICES ASSUME NEW q \in Pools, NEW i \in Ids, NEW j \in Ids
               PROVE  /\ offline'[q][i] \subseteq Offsets(q)
                      /\ \A u \in Offsets(q) :
                          /\ Has(q, i, u)' /\ Has(q, j, u)' => i = j
                          /\ u \in offline'[q][i] => \A h \in Hosts : online'[q][i][u][h] = 0
                          /\ \A h, g \in Hosts :
                                 online'[q][i][u][h] > 0 /\ online'[q][i][u][g] > 0 => h = g
    BY DEF PlaceInv
  <2>1. /\ offline[q][i] \subseteq Offsets(q)
        /\ \A u \in Offsets(q) :
            /\ Has(q, i, u) /\ Has(q, j, u) => i = j
            /\ u \in offline[q][i] => \A h \in Hosts : online[q][i][u][h] = 0
            /\ \A h, g \in Hosts : online[q][i][u][h] > 0 /\ online[q][i][u][g] > 0 => h = g
    BY DEF IInv, PlaceInv
  <2>2. offline'[q][i] \subseteq Offsets(q)
    <3>1. offline'[q][i] \subseteq Offset
      BY <1>3, ReleasedOnce
    <3> QED BY <1>3, <2>1, <3>1, ReleasedOnce
  <2>3. ASSUME NEW u \in Offsets(q)
        PROVE  /\ Has(q, i, u)' /\ Has(q, j, u)' => i = j
               /\ u \in offline'[q][i] => \A h \in Hosts : online'[q][i][u][h] = 0
               /\ \A h, g \in Hosts :
                      online'[q][i][u][h] > 0 /\ online'[q][i][u][g] > 0 => h = g
    <3>0. u \in Offset
      BY PoolTypes
    <3>1. Has(q, i, u)' /\ Has(q, j, u)' => i = j
      BY <2>1, HasKept
    <3>2. \A h \in Hosts : /\ online[q][i][u][h] \in Nat
                           /\ online'[q][i][u][h] \in Nat
                           /\ online'[q][i][u][h] <= online[q][i][u][h]
      <4> TAKE h \in Hosts
      <4>1. online[q][i][u][h] \in Nat /\ online'[q][i][u][h] \in Nat
        BY <1>1, <1>5, <3>0 DEF TypeOK
      <4>2. \/ online'[q][i][u][h] = online[q][i][u][h]
            \/ online'[q][i][u][h] = online[q][i][u][h] - 1
        BY <1>3, <3>0, ReleasedOnce
      <4> QED BY <4>1, <4>2
    <3>3. \A h, g \in Hosts : online'[q][i][u][h] > 0 /\ online'[q][i][u][g] > 0 => h = g
      BY <2>1, <3>2
    <3>4. ASSUME u \in offline'[q][i], NEW h \in Hosts
          PROVE  online'[q][i][u][h] = 0
      <4>1. CASE u \in offline[q][i]
        BY <2>1, <3>2, <4>1
      <4>2. CASE u \notin offline[q][i]
        <5>1. /\ q = p /\ i = IdOf[s] /\ u = o
              /\ ~(online[p][IdOf[s]][o][HostOf[s]] > 1)
          BY <1>3, <3>0, <3>4, <4>2, ReleasedOnce
        <5>2. online[p][IdOf[s]][o][HostOf[s]] > 0
          BY <1>3, Released
        <5>3. h = HostOf[s] => online'[q][i][u][h] = online[q][i][u][h] - 1
          BY <1>3, <3>0, <5>1, ReleasedOnce
        <5>4. h # HostOf[s] => ~(online[q][i][u][h] > 0)
          BY <2>1, <5>1, <5>2, SasAssumption
        <5> QED BY <3>2, <5>1, <5>2, <5>3, <5>4
      <4> QED BY <4>1, <4>2
    <3> QED BY <3>1, <3>3, <3>4
  <2> QED BY <2>2, <2>3
<1>9. UsedInv'
  <2> SUFFICES ASSUME NEW q \in Pools
               PROVE  /\ unused'[q] <= Size(q)
                      /\ \A u \in Offsets(q) :
                             (\E i \in Ids : Has(q, i, u)') <=> u <= unused'[q] + Skipped(q)
    BY DEF UsedInv, Size, Offsets, Skipped
  <2> QED BY <1>4, HasKept DEF IInv, UsedInv
<1>10. AskInv'
  <2>1. \A t \in Sas : 1 .. (at[t] - 1) \subseteq Pools
    BY <1>1, PoolsAssumption DEF TypeOK, Pools
  <2> QED BY <1>4, <2>1 DEF IInv, AskInv, Left, Size
<1> QED BY <1>5, <1>6, <1>7, <1>8, <1>9, <1>10 DEF IInv

---------------------------------------------------------------------------
(* A pool answers *)

\* Whose the lease was: nobody's, the client's, or, when every address has
\* been used, that of somebody who is offline.
Was(s, p, o) ==
    /\ at[s] = p /\ (op[s] = "existing" => Has(p, IdOf[s], o))
    /\ \/ \A i \in Ids : ~Has(p, i, o)
       \/ Has(p, IdOf[s], o)
       \/ /\ \A q \in Pools : ~Left(q)
          /\ \A i \in Ids, h \in Hosts : online[p][i][o][h] = 0

Waits(s) ==
    /\ pc[s] = "asking" /\ UNCHANGED leaseVars /\ Unanswered(s)
    /\ op[s] = "new" => ~Left(at[s])
    /\ op[s] = "existing" => offline[at[s]][IdOf[s]] = {}

\* An offset that is offline for an identity is so for no other, and online
\* for nobody.
LEMMA OfflineGiven ==
    ASSUME IInv, NEW s \in Sas, NEW p \in Pools, NEW i \in Ids, NEW o \in offline[p][i],
           pc[s] = "asking", UNCHANGED unused, Listed(s, p, o), Offered(s, p, o),
           offline' = [offline EXCEPT ![p][i] = @ \ {o}]
    PROVE  /\ o \in Offsets(p) /\ Gives(s, p, o) /\ Has(p, i, o)
           /\ \A j \in Ids, h \in Hosts : online[p][j][o][h] = 0
<1>1. /\ offline \in [Pools -> [Ids -> SUBSET Offset]] /\ unused \in [Pools -> Nat]
      /\ online \in [Pools -> [Ids -> [Offset -> [Hosts -> Nat]]]]
  BY DEF IInv, TypeOK
<1>2. o \in Offsets(p) /\ o \in Offset
  BY PoolTypes DEF IInv, PlaceInv
<1>3. Has(p, i, o)
  BY DEF Has
<1>4. \A j \in Ids : Has(p, j, o) => j = i
  BY <1>2, <1>3 DEF IInv, PlaceInv
<1>5. ASSUME NEW j \in Ids, NEW h \in Hosts
      PROVE  online[p][j][o][h] = 0
  <2>1. online[p][j][o][h] > 0 => j = i
    BY <1>4 DEF Has
  <2>2. online[p][i][o][h] = 0
    BY <1>2 DEF IInv, PlaceInv
  <2>3. online[p][j][o][h] \in Nat
    BY <1>1, <1>2
  <2> QED BY <2>1, <2>2, <2>3
<1>6. ASSUME NEW q \in Pools, NEW j \in Ids
      PROVE  offline'[q][j] = IF q = p THEN offline[q][j] \ {o} ELSE offline[q][j]
  <2>1. CASE q = p /\ j = i
    BY <1>1, <2>1
  <2>2. CASE q = p /\ j # i
    <3>1. o \notin offline[p][j]
      BY <1>4, <2>2 DEF Has
    <3> QED BY <1>1, <2>2, <3>1
  <2>3. CASE q # p
    BY <1>1, <2>3
  <2> QED BY <2>1, <2>2, <2>3
<1>7. offline' \in [Pools -> [Ids -> SUBSET Offset]]
  BY <1>1
<1>8. Ends(s, AddrAt(p, o))
  BY <1>2, AddressOfOffset DEF Offered
<1>9. ASSUME NEW q \in Pools
      PROVE  /\ unused'[q] <= Size(q) /\ unused[q] <= unused'[q]
             /\ \A u \in Offsets(q) :
                    u <= unused'[q] + Skipped(q)
                        <=> u <= unused[q] + Skipped(q) \/ (q = p /\ u = o)
  <2>1. o <= unused[p] + Skipped(p)
    BY <1>2, <1>3 DEF IInv, UsedInv
  <2>2. unused[q] <= Size(q) /\ unused[q] \in Nat
    BY <1>1 DEF IInv, UsedInv
  <2> QED BY <2>1, <2>2
<1>10. unused' \in [Pools -> Nat]
  BY <1>1
<1>11. \A j \in Ids, h \in Hosts : ~(online[p][j][o][h] > 0)
  BY <1>5
<1>12. Gives(s, p, o)
  BY <1>6, <1>7, <1>8, <1>9, <1>10, <1>11 DEF Gives
<1> QED BY <1>2, <1>3, <1>5, <1>12

LEMMA Answers ==
    ASSUME IInv, NEW s \in Sas, NEW p \in Pools,
           GetExisting(s, p) \/ GetNew(s, p) \/ GetReassigned(s, p)
    PROVE  Waits(s) \/ \E o \in Offsets(p) : Gives(s, p, o) /\ Was(s, p, o)
<1>1. /\ TypeOK /\ pc[s] = "asking" /\ at[s] = p
      /\ IdOf[s] \in Ids /\ HostOf[s] \in Hosts
  BY SasAssumption DEF IInv, GetExisting, GetNew, GetReassigned, Asks
<1>2. CASE GetExisting(s, p)
  <2>1. CASE \E o \in OfflineLease(s, p) :
                /\ offline' = [offline EXCEPT ![p][IdOf[s]] = @ \ {o}]
                /\ Listed(s, p, o)
                /\ Offered(s, p, o)
    <3>1. PICK o \in offline[p][IdOf[s]] :
                /\ offline' = [offline EXCEPT ![p][IdOf[s]] = @ \ {o}]
                /\ Listed(s, p, o)
                /\ Offered(s, p, o)
      BY <2>1 DEF OfflineLease
    <3>2. unused' = unused
      BY <1>2 DEF GetExisting
    <3>3. o \in Offsets(p) /\ Gives(s, p, o) /\ Has(p, IdOf[s], o)
      BY <1>1, <3>1, <3>2, OfflineGiven
    <3> QED BY <1>1, <3>3 DEF Was
  <2>2. CASE (\E o \in SharedLease(s, p) : Listed(s, p, o) /\ Offered(s, p, o))
                /\ UNCHANGED offline
    <3>1. PICK o \in Offsets(p) : /\ online[p][IdOf[s]][o][HostOf[s]] > 0
                                  /\ Listed(s, p, o) /\ Offered(s, p, o)
      BY <2>2 DEF SharedLease
    <3>2. Has(p, IdOf[s], o)
      BY <1>1, <3>1 DEF Has
    <3>3. \A i \in Ids : o \notin offline[p][i]
      BY <1>1, <3>1, <3>2 DEF IInv, PlaceInv, Has
    <3>4. \A i \in Ids, h \in Hosts :
              online[p][i][o][h] > 0 => i = IdOf[s] /\ h = HostOf[s]
      BY <1>1, <3>1, <3>2 DEF IInv, PlaceInv, Has
    <3>5. Ends(s, AddrAt(p, o))
      BY <3>1, AddressOfOffset DEF Offered
    <3>6. offline' = offline /\ unused' = unused
      BY <1>2, <2>2 DEF GetExisting
    <3>7. \A q \in Pools, i \in Ids :
              offline'[q][i] = IF q = p THEN offline[q][i] \ {o} ELSE offline[q][i]
      BY <3>3, <3>6
    <3>8. o <= unused[p] + Skipped(p)
      BY <1>1, <3>2 DEF IInv, UsedInv
    <3>9. \A q \in Pools : unused[q] <= Size(q) /\ unused[q] \in Nat
      BY <1>1 DEF IInv, UsedInv, TypeOK
    <3>10. ASSUME NEW q \in Pools
           PROVE  /\ unused'[q] <= Size(q) /\ unused[q] <= unused'[q]
                  /\ \A u \in Offsets(q) :
                         u <= unused'[q] + Skipped(q)
                             <=> u <= unused[q] + Skipped(q) \/ (q = p /\ u = o)
      BY <3>6, <3>8, <3>9
    <3>11. /\ offline' \in [Pools -> [Ids -> SUBSET Offset]]
           /\ unused' \in [Pools -> Nat]
      BY <1>1, <3>6 DEF TypeOK
    <3>12. Gives(s, p, o)
      BY <1>1, <3>1, <3>4, <3>5, <3>7, <3>10, <3>11 DEF Gives
    <3> QED BY <1>1, <3>2, <3>12 DEF Was
  <2>3. CASE OfflineLease(s, p) = {} /\ Unanswered(s) /\ UNCHANGED <<online, offline>>
    BY <1>1, <1>2, <2>3 DEF GetExisting, Asks, Waits, leaseVars, OfflineLease
  <2> QED BY <1>2, <2>1, <2>2, <2>3 DEF GetExisting
<1>3. CASE GetNew(s, p)
  <2>1. CASE Left(p)
    <3> DEFINE o == unused[p] + 1 + Skipped(p)
    <3>1. unused[p] \in Nat /\ Size(p) \in Nat /\ Skipped(p) \in {0, 1}
      BY <1>1, PoolTypes DEF TypeOK
    <3>2. /\ o \in Offsets(p)
          /\ \A u \in Offsets(p) : u <= unused[p] + 1 + Skipped(p)
                                       <=> u <= unused[p] + Skipped(p) \/ u = o
      BY <2>1, <3>1 DEF Left, Offsets
    <3>3. /\ unused' = [unused EXCEPT ![p] = @ + 1]
          /\ Listed(s, p, o) /\ Offered(s, p, o) /\ offline' = offline
      BY <1>3, <2>1 DEF GetNew
    <3>4. ~(o <= unused[p] + Skipped(p))
      BY <3>1
    <3>5. \A i \in Ids : ~Has(p, i, o)
      BY <3>2, <3>4 DEF IInv, UsedInv
    <3> HIDE DEF o
    <3>6. Ends(s, AddrAt(p, o))
      BY <3>2, <3>3, AddressOfOffset DEF Offered
    <3>7. \A q \in Pools, i \in Ids :
              offline'[q][i] = IF q = p THEN offline[q][i] \ {o} ELSE offline[q][i]
      BY <3>3, <3>5 DEF Has
    <3>8. \A i \in Ids, h \in Hosts : ~(online[p][i][o][h] > 0)
      BY <3>5 DEF Has
    <3>9. unused' \in [Pools -> Nat]
      BY <1>1, <3>3 DEF TypeOK
    <3>10. ASSUME NEW q \in Pools
           PROVE  /\ unused'[q] <= Size(q) /\ unused[q] <= unused'[q]
                  /\ \A u \in Offsets(q) :
                         u <= unused'[q] + Skipped(q)
                             <=> u <= unused[q] + Skipped(q) \/ (q = p /\ u = o)
      <4>1. unused[q] <= Size(q) /\ unused[q] \in Nat /\ Size(q) \in Nat
        BY <1>1, PoolTypes DEF IInv, UsedInv, TypeOK
      <4>2. CASE q = p
        <5>1. unused'[p] = unused[p] + 1
          BY <1>1, <3>3 DEF TypeOK
        <5> QED BY <2>1, <3>1, <3>2, <4>1, <4>2, <5>1 DEF Left
      <4>3. CASE q # p
        <5>1. unused'[q] = unused[q]
          BY <1>1, <3>3, <4>3 DEF TypeOK
        <5> QED BY <4>1, <4>3, <5>1
      <4> QED BY <4>2, <4>3
    <3>11. offline' \in [Pools -> [Ids -> SUBSET Offset]]
      BY <1>1, <3>3 DEF TypeOK
    <3>12. Gives(s, p, o)
      BY <1>1, <3>3, <3>6, <3>7, <3>8, <3>9, <3>10, <3>11 DEF Gives
    <3>13. op[s] = "new"
      BY <1>3 DEF GetNew, Asks
    <3> QED BY <1>1, <3>2, <3>5, <3>12, <3>13 DEF Was
  <2>2. CASE ~Left(p)
    BY <1>1, <1>3, <2>2 DEF GetNew, Asks, Waits, leaseVars
  <2> QED BY <2>1, <2>2
<1>4. CASE GetReassigned(s, p)
  <2>1. CASE \E i \in Ids : \E o \in offline[p][i] :
                /\ offline' = [offline EXCEPT ![p][i] = @ \ {o}]
                /\ Listed(s, p, o)
                /\ Offered(s, p, o)
    <3>1. PICK i \in Ids : \E o \in offline[p][i] :
                /\ offline' = [offline EXCEPT ![p][i] = @ \ {o}]
                /\ Listed(s, p, o)
                /\ Offered(s, p, o)
      BY <2>1
    <3>2. PICK o \in offline[p][i] :
                /\ offline' = [offline EXCEPT ![p][i] = @ \ {o}]
                /\ Listed(s, p, o)
                /\ Offered(s, p, o)
      BY <3>1
    <3>3. unused' = unused /\ op[s] = "reassign"
      BY <1>4 DEF GetReassigned, Asks
    <3>4. /\ o \in Offsets(p) /\ Gives(s, p, o)
          /\ \A j \in Ids, h \in Hosts : online[p][j][o][h] = 0
      BY <1>1, <3>2, <3>3, OfflineGiven
    <3>5. \A q \in Pools : ~Left(q)
      BY <3>3 DEF IInv, AskInv
    <3> QED BY <1>1, <3>3, <3>4, <3>5 DEF Was
  <2>2. CASE Unanswered(s) /\ UNCHANGED <<online, offline>>
    BY <1>1, <1>4, <2>2 DEF GetReassigned, Asks, Waits, leaseVars
  <2> QED BY <1>4, <2>1, <2>2 DEF GetReassigned
<1> QED BY <1>2, <1>3, <1>4

---------------------------------------------------------------------------
(* The invariant *)

LEMMA NextIInv == IInv /\ [Next]_vars => IInv'
<1> SUFFICES ASSUME IInv, [Next]_vars PROVE IInv'
  OBVIOUS
<1>1. ASSUME NEW s \in Sas, NEW a \in Addrs \cup {NoAddr}, Requests(s, a) PROVE IInv'
  BY <1>1, RequestsIInv
<1>2. ASSUME NEW s \in Sas, NEW p \in Pools,
             GetExisting(s, p) \/ GetNew(s, p) \/ GetReassigned(s, p)
      PROVE  IInv'
  <2>1. CASE Waits(s)
    BY <2>1, UnansweredIInv DEF Waits
  <2>2. ASSUME NEW o \in Offsets(p), Gives(s, p, o) PROVE IInv'
    BY <2>2, Grant
  <2> QED BY <1>2, <2>1, <2>2, Answers
<1>3. ASSUME NEW s \in Sas, Releases(s) PROVE IInv'
  BY <1>3, ReleasesIInv
<1>4. CASE UNCHANGED vars
  <2>1. UNCHANGED leaseVars /\ UNCHANGED saVars
    BY <1>4 DEF vars
  <2>2. TypeOK' /\ AskInv'
    BY <2>1 DEF IInv, TypeOK, AskInv, Left, Size, leaseVars, saVars
  <2>3. UpInv' /\ CountInv' /\ PlaceInv' /\ UsedInv'
    BY <2>1, SameLeases DEF saVars
  <2> QED BY <2>2, <2>3 DEF IInv
<1> QED BY <1>1, <1>2, <1>3, <1>4 DEF Next, Acquires

THEOREM Invariant == Spec => []IInv
<1> QED BY InitIInv, NextIInv, PTL DEF Spec

\* The addresses that IKE_SAs have and want are addresses of the pools, and
\* the counters of the pools are never negative: offset2host() and
\* host2offset() agree on where a pool begins (mem_pool.c:142-200).
THEOREM TypeCorrect == Spec => []TypeOK
<1>1. IInv => TypeOK
  BY DEF IInv
<1> QED BY <1>1, Invariant, PTL

---------------------------------------------------------------------------
(* The promise *)

\* An address is listed where its offset is.
LEMMA OnePlace ==
    ASSUME NEW p \in Pools, NEW o \in Offsets(p), NEW q \in Pools
    PROVE  Host2Offset(q, AddrAt(p, o)) \in Offsets(q)
               <=> q = p /\ Host2Offset(q, AddrAt(p, o)) = o
<1>1. AddrAt(p, o) \in Addrs
  BY AddressOfOffset
<1>2. ASSUME Host2Offset(q, AddrAt(p, o)) \in Offsets(q)
      PROVE  q = p /\ Host2Offset(q, AddrAt(p, o)) = o
  BY <1>1, <1>2, OffsetFound, OffsetOfAddress
<1> QED BY <1>2

LEMMA HasAddrAt ==
    \A p \in Pools, i \in Ids : \A o \in Offsets(p) :
        /\ HasAddr(i, AddrAt(p, o)) <=> Has(p, i, o)
        /\ HasAddr(i, AddrAt(p, o))' <=> Has(p, i, o)'
<1> SUFFICES ASSUME NEW p \in Pools, NEW i \in Ids, NEW o \in Offsets(p)
             PROVE  /\ HasAddr(i, AddrAt(p, o)) <=> Has(p, i, o)
                    /\ HasAddr(i, AddrAt(p, o))' <=> Has(p, i, o)'
  OBVIOUS
<1>1. Host2Offset(p, AddrAt(p, o)) = o
  BY AddressOfOffset
<1>2. \A q \in Pools : Host2Offset(q, AddrAt(p, o)) \in Offsets(q) => q = p
  BY OnePlace
<1>3. HasAddr(i, AddrAt(p, o)) <=> Has(p, i, o)
  BY <1>1, <1>2 DEF HasAddr
<1>4. HasAddr(i, AddrAt(p, o))' <=> Has(p, i, o)'
  BY <1>1, <1>2 DEF HasAddr, AddrAt
<1> QED BY <1>3, <1>4

\* Who has an address is listed for it.
LEMMA HolderIsListed ==
    ASSUME IInv, NEW p \in Pools, NEW o \in Offsets(p), NEW t \in Holders(AddrAt(p, o))
    PROVE  t \in Sas /\ online[p][IdOf[t]][o][HostOf[t]] > 0
<1>1. t \in Users(p, IdOf[t], o, HostOf[t]) /\ o \in Offset
  BY PoolTypes DEF Holders, Users
<1>2. t \in Sas /\ IdOf[t] \in Ids /\ HostOf[t] \in Hosts
  BY SasAssumption DEF Holders
<1>3. online[p][IdOf[t]][o][HostOf[t]] = Cardinality(Users(p, IdOf[t], o, HostOf[t]))
  BY <1>1, <1>2 DEF IInv, CountInv
<1>4. Cardinality(Users(p, IdOf[t], o, HostOf[t])) # 0
  BY <1>1, UsersFinite, FS_EmptySet
<1>5. Cardinality(Users(p, IdOf[t], o, HostOf[t])) \in Nat
  BY UsersFinite, FS_CardinalityType
<1> QED BY <1>2, <1>3, <1>4, <1>5

\* What is given is given by one of the actions of AddressPool.
LEMMA GivesPromised ==
    ASSUME IInv, NEW s \in Sas, NEW p \in Pools, NEW o \in Offsets(p),
           Gives(s, p, o), Was(s, p, o)
    PROVE  Promise!Next
<1> DEFINE a == AddrAt(p, o)
<1>1. /\ TypeOK /\ pc[s] = "asking" /\ a \in Addrs /\ a # NoAddr
      /\ IdOf[s] \in Ids /\ HostOf[s] \in Hosts
  BY AddressOfOffset, SasAssumption DEF IInv, Gives
<1>2. /\ pc' = [pc EXCEPT ![s] = "up"] /\ addr' = [addr EXCEPT ![s] = a]
  BY <1>1 DEF Gives, Ends
<1>3. \A b \in Addrs : Holders(b)' = IF b = a THEN Holders(b) \cup {s} ELSE Holders(b)
  <2>1. \A b \in Addrs : s \notin Holders(b)
    BY <1>1 DEF Holders
  <2>2. pc'[s] = "up" /\ addr'[s] = a
    BY <1>1, <1>2 DEF TypeOK
  <2>3. \A t \in Sas : t # s => pc'[t] = pc[t] /\ addr'[t] = addr[t]
    BY <1>1, <1>2 DEF TypeOK
  <2> QED BY <2>1, <2>2, <2>3 DEF Holders
<1>4. \A b \in Addrs : Lessee(b)' = IF b = a THEN {IdOf[s]} ELSE Lessee(b)
  <2> SUFFICES ASSUME NEW b \in Addrs
               PROVE  Lessee(b)' = IF b = a THEN {IdOf[s]} ELSE Lessee(b)
    OBVIOUS
  <2>1. PICK q \in Pools : \E u \in Offsets(q) : b = AddrAt(q, u)
    BY OffsetOfAddress
  <2>2. PICK u \in Offsets(q) : b = AddrAt(q, u)
    BY <2>1
  <2>3. b = a <=> q = p /\ u = o
    BY <2>2, OffsetOfAddress
  <2>4. \A i \in Ids : Has(q, i, u)' <=> IF q = p /\ u = o THEN i = IdOf[s] ELSE Has(q, i, u)
    BY <1>1, HasGiven
  <2>5. \A i \in Ids : /\ HasAddr(i, b)' <=> Has(q, i, u)'
                       /\ HasAddr(i, b) <=> Has(q, i, u)
    BY <2>2, HasAddrAt
  <2> QED BY <1>1, <2>3, <2>4, <2>5 DEF Lessee
<1>5. Lessee(a) = {i \in Ids : Has(p, i, o)}
  BY HasAddrAt DEF Lessee
<1>6. \A t \in Holders(a) : /\ t \in Sas /\ IdOf[t] = IdOf[s] /\ HostOf[t] = HostOf[s]
                            /\ online[p][IdOf[t]][o][HostOf[t]] > 0
  BY HolderIsListed, SasAssumption DEF Gives
<1>7. Promise!Given(s, a)
  <2>1. Promise!Free(s)
    BY <1>1 DEF Promise!Free, Holders
  <2> HIDE DEF a
  <2> QED BY <1>1, <1>3, <1>4, <2>1 DEF Promise!Given
<1> HIDE DEF a
<1>8. CASE \A i \in Ids : ~Has(p, i, o)
  <2>1. Promise!GivesNew(s, a)
    BY <1>1, <1>5, <1>7, <1>8 DEF Promise!GivesNew
  <2> QED BY <1>1, <2>1 DEF Promise!Next
<1>9. CASE Has(p, IdOf[s], o)
  <2>1. Lessee(a) = {IdOf[s]}
    BY <1>1, <1>5, <1>9 DEF IInv, PlaceInv
  <2>2. CASE Holders(a) = {}
    <3>1. Promise!GivesBack(s, a)
      BY <1>1, <1>7, <2>1, <2>2 DEF Promise!GivesBack
    <3> QED BY <1>1, <3>1 DEF Promise!Next
  <2>3. CASE Holders(a) # {}
    <3>1. Promise!Shares(s, a)
      BY <1>1, <1>6, <1>7, <2>1, <2>3 DEF Promise!Shares
    <3> QED BY <1>1, <3>1 DEF Promise!Next
  <2> QED BY <2>2, <2>3
<1>10. CASE /\ \A q \in Pools : ~Left(q)
            /\ \A i \in Ids, h \in Hosts : online[p][i][o][h] = 0
  <2>1. Holders(a) = {}
    BY <1>6, <1>10, SasAssumption
  <2>2. ASSUME NEW b \in Addrs PROVE Lessee(b) # {}
    <3>1. PICK q \in Pools : \E u \in Offsets(q) : b = AddrAt(q, u)
      BY OffsetOfAddress
    <3>2. PICK u \in Offsets(q) : b = AddrAt(q, u)
      BY <3>1
    <3>3. u <= unused[q] + Skipped(q)
      <4>1. unused[q] \in Nat /\ Size(q) \in Nat /\ Skipped(q) \in {0, 1}
        BY <1>1, PoolTypes DEF TypeOK
      <4> QED BY <1>10, <4>1 DEF Left, Offsets
    <3>4. PICK i \in Ids : Has(q, i, u)
      BY <3>3 DEF IInv, UsedInv
    <3> QED BY <3>2, <3>4, HasAddrAt DEF Lessee
  <2>3. Promise!TakesOver(s, a)
    BY <1>1, <1>7, <2>1, <2>2 DEF Promise!TakesOver
  <2> QED BY <1>1, <2>3 DEF Promise!Next
<1> QED BY <1>8, <1>9, <1>10 DEF Was

LEMMA ReleasesPromised ==
    ASSUME IInv, NEW s \in Sas, Releases(s)
    PROVE  Promise!Next
<1>1. TypeOK /\ addr[s] \in Addrs /\ addr[s] # NoAddr /\ pc[s] = "up"
  BY DEF IInv, UpInv, TypeOK, Releases
<1>2. /\ pc' = [pc EXCEPT ![s] = "idle"] /\ addr' = [addr EXCEPT ![s] = NoAddr]
  BY DEF Releases
<1>3. \A b \in Addrs :
          Holders(b)' = IF b = addr[s] THEN Holders(b) \ {s} ELSE Holders(b)
  <2>1. \A b \in Addrs : s \notin Holders(b)' /\ (s \in Holders(b) => b = addr[s])
    BY <1>1, <1>2 DEF Holders, TypeOK
  <2>2. \A t \in Sas : t # s => pc'[t] = pc[t] /\ addr'[t] = addr[t]
    BY <1>1, <1>2 DEF TypeOK
  <2> QED BY <2>1, <2>2 DEF Holders
<1>4. \A b \in Addrs : Lessee(b)' = Lessee(b)
  <2> SUFFICES ASSUME NEW b \in Addrs PROVE Lessee(b)' = Lessee(b)
    OBVIOUS
  <2>1. PICK q \in Pools : \E u \in Offsets(q) : b = AddrAt(q, u)
    BY OffsetOfAddress
  <2>2. PICK u \in Offsets(q) : b = AddrAt(q, u)
    BY <2>1
  <2>3. \A i \in Ids : HasAddr(i, b)' <=> HasAddr(i, b)
    BY <2>2, HasAddrAt, HasKept
  <2> QED BY <2>3 DEF Lessee
<1>5. s \in Holders(addr[s])
  BY <1>1 DEF Holders
<1>6. Promise!Releases(s, addr[s])
  BY <1>1, <1>3, <1>4, <1>5 DEF Promise!Releases
<1> QED BY <1>1, <1>6 DEF Promise!Next

LEMMA StutterPromised ==
    ASSUME IInv, UNCHANGED leaseVars,
           \A t \in Sas : addr'[t] = addr[t] /\ (pc'[t] = "up" <=> pc[t] = "up")
    PROVE  UNCHANGED Promise!vars
<1>1. \A b \in Addrs : Holders(b)' = Holders(b)
  BY DEF Holders
<1>2. \A b \in Addrs : Lessee(b)' = Lessee(b)
  BY DEF Lessee, HasAddr, Has, leaseVars
<1> QED BY <1>1, <1>2 DEF Promise!vars

\* An address is given to several IKE_SAs only if they are one client at one
\* host, and a client loses the address it had only when every address has
\* been given out, whatever the others ask for and release between two
\* questions (stroke_attribute.c:134-142, mem_pool.c:273-493).
THEOREM Implements == Spec => KeepsPromise
<1>1. Init => Promise!Init
  <2> SUFFICES ASSUME Init PROVE Promise!Init
    OBVIOUS
  <2>1. \A a \in Addrs : Holders(a) = {}
    BY DEF Init, Holders
  <2>2. ASSUME NEW a \in Addrs PROVE Lessee(a) = {}
    <3>1. PICK p \in Pools : \E o \in Offsets(p) : a = AddrAt(p, o)
      BY OffsetOfAddress
    <3>2. PICK o \in Offsets(p) : a = AddrAt(p, o)
      BY <3>1
    <3>3. /\ \A i \in Ids : offline[p][i] = {}
          /\ \A i \in Ids, h \in Hosts : online[p][i][o][h] = 0
      BY PoolTypes DEF Init
    <3>4. \A i \in Ids : ~Has(p, i, o)
      BY <3>3 DEF Has
    <3> QED BY <3>2, <3>4, HasAddrAt DEF Lessee
  <2> QED BY <2>1, <2>2 DEF Promise!Init
<1>2. IInv /\ [Next]_vars => [Promise!Next]_(Promise!vars)
  <2> SUFFICES ASSUME IInv, [Next]_vars PROVE Promise!Next \/ UNCHANGED Promise!vars
    OBVIOUS
  <2>1. ASSUME NEW s \in Sas, NEW a \in Addrs \cup {NoAddr}, Requests(s, a)
        PROVE  UNCHANGED Promise!vars
    <3>1. /\ UNCHANGED leaseVars
          /\ \A t \in Sas : addr'[t] = addr[t] /\ (pc'[t] = "up" <=> pc[t] = "up")
      BY <2>1 DEF IInv, TypeOK, Requests
    <3> QED BY <3>1, StutterPromised
  <2>2. ASSUME NEW s \in Sas, NEW p \in Pools,
               GetExisting(s, p) \/ GetNew(s, p) \/ GetReassigned(s, p)
        PROVE  Promise!Next \/ UNCHANGED Promise!vars
    <3>1. CASE Waits(s)
      <4>1. addr[s] = NoAddr
        BY <3>1 DEF IInv, UpInv, Waits
      <4>2. /\ UNCHANGED leaseVars
            /\ \A t \in Sas : addr'[t] = addr[t] /\ (pc'[t] = "up" <=> pc[t] = "up")
        BY <3>1, <4>1 DEF IInv, TypeOK, Waits, Unanswered, Ends
      <4> QED BY <4>2, StutterPromised
    <3>2. ASSUME NEW o \in Offsets(p), Gives(s, p, o), Was(s, p, o) PROVE Promise!Next
      BY <3>2, GivesPromised
    <3> QED BY <2>2, <3>1, <3>2, Answers
  <2>3. ASSUME NEW s \in Sas, Releases(s) PROVE Promise!Next
    BY <2>3, ReleasesPromised
  <2>4. CASE UNCHANGED vars
    BY <2>4, StutterPromised DEF vars, saVars
  <2> QED BY <2>1, <2>2, <2>3, <2>4 DEF Next, Acquires
<1> QED BY <1>1, <1>2, Invariant, PTL DEF Spec, KeepsPromise, Promise!Spec

---------------------------------------------------------------------------
(* Nobody hoards, nobody is refused *)

\* The addresses of the first k pools that are listed for identity i
Leases(i, k) ==
    {a \in Addrs : \E p \in Pools : \E o \in Offsets(p) :
                       p <= k /\ a = AddrAt(p, o) /\ Has(p, i, o)}

\* The IKE_SAs of identity i that have an address of a pool above k, or asked
\* the first k pools for a lease in vain
Waiting(i, k) ==
    {s \in Sas : /\ IdOf[s] = i
                 /\ \/ pc[s] = "asking" /\ (op[s] = "existing" => at[s] > k)
                    \/ pc[s] = "up" /\ \E p \in Pools : p > k /\ addr[s] \in AddrsOf(p)}

KnownOf(i) == {s \in Known : IdOf[s] = i}

\* Each lease in the first k pools belongs to an IKE_SA that needs no other.
Covered(i, k) ==
    Cardinality(Leases(i, k)) + Cardinality(Waiting(i, k)) <= Cardinality(KnownOf(i))

\* An IKE_SA begins with the first operation and the first pool.
StartInv == \A s \in Sas : pc[s] # "asking" => op[s] = "existing" /\ at[s] = 1

CoverInv == \A i \in Ids, k \in Pools : Covered(i, k)

RefusedInv == (\E s \in Sas : pc[s] = "refused") => Cardinality(Known) > Cardinality(Addrs)

LEMMA AddrsFinite == IsFiniteSet(Addrs)
<1> DEFINE Served == {AddrsOf(p) : p \in Pools}
           served == [p \in Pools |-> AddrsOf(p)]
<1>1. IsFiniteSet(Pools)
  BY PoolsAssumption, FS_Interval DEF Pools
<1>2. served \in Surjection(Pools, Served)
  BY DEF Surjection
<1>3. IsFiniteSet(Served)
  <2> HIDE DEF served, Served
  <2> QED BY <1>1, <1>2, FS_Surjection
<1>4. ASSUME NEW p \in Pools PROVE IsFiniteSet(AddrsOf(p))
  <2>1. Pool[p].base \in Int /\ Size(p) \in Nat /\ Skipped(p) \in Nat
    BY PoolTypes
  <2>2. AddrsOf(p) \subseteq Pool[p].base .. Pool[p].base + Size(p) + Skipped(p)
    BY <2>1 DEF AddrsOf, Offsets
  <2>3. Pool[p].base + Size(p) + Skipped(p) \in Int
    BY <2>1
  <2> QED BY <2>1, <2>2, <2>3, FS_Interval, FS_Subset
<1> QED BY <1>3, <1>4, FS_UNION DEF Addrs

LEMMA Counted ==
    ASSUME NEW i, NEW k
    PROVE  /\ IsFiniteSet(Leases(i, k)) /\ Cardinality(Leases(i, k)) \in Nat
           /\ IsFiniteSet(Waiting(i, k)) /\ Cardinality(Waiting(i, k)) \in Nat
           /\ IsFiniteSet(KnownOf(i)) /\ Cardinality(KnownOf(i)) \in Nat
           /\ IsFiniteSet(KnownOf(i)') /\ Cardinality(KnownOf(i)') \in Nat
<1>1. /\ Leases(i, k) \subseteq Addrs /\ Waiting(i, k) \subseteq Sas
      /\ KnownOf(i) \subseteq Sas /\ KnownOf(i)' \subseteq Sas
  BY DEF Leases, Waiting, KnownOf, Known
<1> QED BY <1>1, AddrsFinite, SasAssumption, FS_Subset, FS_CardinalityType

\* A step that lists no more addresses and makes nobody wait
LEMMA StaysCovered ==
    ASSUME NEW i, NEW k, Covered(i, k), Leases(i, k)' \subseteq Leases(i, k),
           Waiting(i, k)' \subseteq Waiting(i, k), KnownOf(i) \subseteq KnownOf(i)'
    PROVE  Covered(i, k)'
<1>1. /\ Cardinality(Leases(i, k)') <= Cardinality(Leases(i, k))
      /\ Cardinality(Leases(i, k)') \in Nat
      /\ Cardinality(Waiting(i, k)') <= Cardinality(Waiting(i, k))
      /\ Cardinality(Waiting(i, k)') \in Nat
      /\ Cardinality(KnownOf(i)) <= Cardinality(KnownOf(i)')
  BY Counted, FS_Subset, FS_CardinalityType
<1> QED BY <1>1, Counted DEF Covered

\* A step that gives an address to an IKE_SA that has waited
LEMMA GetsCovered ==
    ASSUME NEW i, NEW k, NEW a, NEW s \in Waiting(i, k), Covered(i, k),
           Leases(i, k)' \subseteq Leases(i, k) \cup {a},
           Waiting(i, k)' \subseteq Waiting(i, k) \ {s}, KnownOf(i) \subseteq KnownOf(i)'
    PROVE  Covered(i, k)'
<1>1. /\ IsFiniteSet(Leases(i, k) \cup {a})
      /\ Cardinality(Leases(i, k) \cup {a}) <= Cardinality(Leases(i, k)) + 1
      /\ IsFiniteSet(Waiting(i, k) \ {s})
      /\ Cardinality(Waiting(i, k) \ {s}) = Cardinality(Waiting(i, k)) - 1
  <2>1. /\ IsFiniteSet(Leases(i, k)) /\ Cardinality(Leases(i, k)) \in Nat
        /\ IsFiniteSet(Waiting(i, k))
    BY Counted
  <2>2. /\ IsFiniteSet(Leases(i, k) \cup {a})
        /\ \/ Cardinality(Leases(i, k) \cup {a}) = Cardinality(Leases(i, k))
           \/ Cardinality(Leases(i, k) \cup {a}) = Cardinality(Leases(i, k)) + 1
    BY <2>1, FS_AddElement
  <2>3. /\ IsFiniteSet(Waiting(i, k) \ {s})
        /\ Cardinality(Waiting(i, k) \ {s}) = Cardinality(Waiting(i, k)) - 1
    BY <2>1, FS_RemoveElement
  <2> QED BY <2>1, <2>2, <2>3
<1>2. /\ Cardinality(Leases(i, k)') <= Cardinality(Leases(i, k) \cup {a})
      /\ Cardinality(Leases(i, k)') \in Nat
      /\ Cardinality(Waiting(i, k)') <= Cardinality(Waiting(i, k) \ {s})
      /\ Cardinality(Waiting(i, k)') \in Nat
      /\ Cardinality(KnownOf(i)) <= Cardinality(KnownOf(i)')
  BY <1>1, Counted, FS_Subset, FS_CardinalityType
<1>3. Cardinality(Leases(i, k) \cup {a}) \in Nat /\ Cardinality(Waiting(i, k) \ {s}) \in Nat
  BY <1>1, FS_CardinalityType
<1> QED BY <1>1, <1>2, <1>3, Counted DEF Covered

\* Before the first pool nothing is listed.
LEMMA CoveredBelow ==
    ASSUME CoverInv, NEW i \in Ids, NEW k \in 0 .. N
    PROVE  Covered(i, k)
<1>1. CASE k \in Pools
  BY <1>1 DEF CoverInv
<1>2. CASE k = 0
  <2>1. Leases(i, k) = {}
    BY <1>2, PoolsAssumption DEF Leases, Pools
  <2>2. Waiting(i, k) \subseteq KnownOf(i)
    BY DEF Waiting, KnownOf, Known
  <2> QED BY <2>1, <2>2, Counted, FS_EmptySet, FS_Subset DEF Covered
<1> QED BY <1>1, <1>2, PoolsAssumption DEF Pools

\* An IKE_SA that found nothing in a pool may wait: the leases of its client
\* there are in use by others.
LEMMA PassesPool ==
    ASSUME IInv, CoverInv, NEW s \in Sas, pc[s] = "asking", op[s] = "existing",
           offline[at[s]][IdOf[s]] = {}
    PROVE  /\ IsFiniteSet(Waiting(IdOf[s], at[s]) \cup {s})
           /\ Cardinality(Leases(IdOf[s], at[s]))
                  + Cardinality(Waiting(IdOf[s], at[s]) \cup {s})
              <= Cardinality(KnownOf(IdOf[s]))
<1> DEFINE i == IdOf[s]
           k == at[s]
           L == {a \in Addrs : \E o \in Offsets(k) : a = AddrAt(k, o) /\ Has(k, i, o)}
           U == {t \in Sas : /\ IdOf[t] = i /\ pc[t] = "up"
                             /\ addr[t] \in AddrsOf(k) /\ addr[t] \in L}
           W == Waiting(i, k) \cup {s}
<1>1. /\ i \in Ids /\ k \in Pools /\ k \in Nat \ {0} /\ k - 1 \in 0 .. N
      /\ Pools \subseteq Nat
  BY SasAssumption, PoolsAssumption DEF IInv, TypeOK, Pools
<1>2. offline[k][i] = {}
  OBVIOUS
<1>3. ASSUME NEW a \in L PROVE \E t \in U : addr[t] = a
  <2>1. PICK o \in Offsets(k) : a = AddrAt(k, o) /\ Has(k, i, o)
    OBVIOUS
  <2>2. PICK h \in Hosts : online[k][i][o][h] > 0
    BY <1>2, <2>1 DEF Has
  <2>3. online[k][i][o][h] = Cardinality(Users(k, i, o, h))
    BY <1>1, PoolTypes DEF IInv, CountInv
  <2>4. Users(k, i, o, h) # {}
    <3>1. Users(k, i, o, h) = {} => Cardinality(Users(k, i, o, h)) = 0
      BY FS_EmptySet
    <3> HIDE DEF i, k
    <3> QED BY <2>2, <2>3, <3>1
  <2>5. PICK t \in Users(k, i, o, h) : TRUE
    BY <2>4
  <2>6. AddrAt(k, o) \in AddrsOf(k)
    BY DEF AddrAt, AddrsOf
  <2>7. t \in Sas /\ IdOf[t] = i /\ pc[t] = "up" /\ addr[t] = a
    BY <2>1, <2>5 DEF Users
  <2> QED BY <2>1, <2>6, <2>7
<1>4. /\ U \subseteq Waiting(i, k - 1) /\ W \subseteq Waiting(i, k - 1)
  <2>1. ASSUME NEW t \in U PROVE t \in Waiting(i, k - 1)
    BY <1>1 DEF Waiting
  <2>2. s \in Waiting(i, k - 1)
    BY <1>1 DEF Waiting
  <2>3. ASSUME NEW t \in Waiting(i, k) PROVE t \in Waiting(i, k - 1)
    <3>1. at[t] \in Nat
      BY <1>1 DEF Waiting, IInv, TypeOK
    <3> QED BY <1>1, <3>1 DEF Waiting
  <2> QED BY <2>1, <2>2, <2>3
<1>5. U \cap W = {}
  <2> SUFFICES ASSUME NEW t \in U, t \in W PROVE FALSE
    OBVIOUS
  <2>1. t # s /\ t \in Waiting(i, k)
    OBVIOUS
  <2>2. PICK p \in Pools : p > k /\ addr[t] \in AddrsOf(p)
    BY <2>1 DEF Waiting
  <2>3. p # k
    BY <1>1, <2>2
  <2> QED BY <1>1, <2>2, <2>3, PoolsAssumption
<1>6. Leases(i, k) = Leases(i, k - 1) \cup L
  <2>1. \A p \in Pools : p <= k <=> p <= k - 1 \/ p = k
    BY <1>1
  <2> QED BY <1>1, <2>1 DEF Leases
<1>7. Cardinality(L) <= Cardinality(U) /\ IsFiniteSet(U) /\ IsFiniteSet(L)
  <2> DEFINE f == [t \in U |-> addr[t]]
  <2>1. f \in Surjection(U, L)
    BY <1>3 DEF Surjection
  <2>2. IsFiniteSet(U)
    BY SasAssumption, FS_Subset
  <2> HIDE DEF f, U, L
  <2> QED BY <2>1, <2>2, FS_Surjection
<1> HIDE DEF U, L, W, i, k
<1>8. IsFiniteSet(W) /\ Cardinality(W) + Cardinality(U) <= Cardinality(Waiting(i, k - 1))
  <2>1. IsFiniteSet(W) /\ W \cup U \subseteq Waiting(i, k - 1) /\ W \cap U = {}
    BY <1>4, <1>5, Counted, FS_Subset
  <2>2. Cardinality(W \cup U) = Cardinality(W) + Cardinality(U) - 0
    BY <1>7, <2>1, FS_Union, FS_EmptySet
  <2>3. Cardinality(W \cup U) <= Cardinality(Waiting(i, k - 1))
    BY <2>1, Counted, FS_Subset
  <2>4. Cardinality(W) \in Nat /\ Cardinality(U) \in Nat
    BY <1>7, <2>1, FS_CardinalityType
  <2> QED BY <2>1, <2>2, <2>3, <2>4
<1>9. Cardinality(Leases(i, k)) <= Cardinality(Leases(i, k - 1)) + Cardinality(L)
  <2>1. Cardinality(Leases(i, k)) = Cardinality(Leases(i, k - 1)) + Cardinality(L)
                                       - Cardinality(Leases(i, k - 1) \cap L)
    BY <1>6, <1>7, Counted, FS_Union
  <2>2. Cardinality(Leases(i, k - 1) \cap L) \in Nat
    BY <1>7, FS_Intersection, FS_CardinalityType
  <2>3. Cardinality(L) \in Nat
    BY <1>7, FS_CardinalityType
  <2> QED BY <2>1, <2>2, <2>3, Counted
<1>10. Covered(i, k - 1)
  BY <1>1, CoveredBelow
<1>11. Cardinality(Leases(i, k)) + Cardinality(W) <= Cardinality(KnownOf(i))
  <2>1. /\ Cardinality(W) \in Nat /\ Cardinality(U) \in Nat /\ Cardinality(L) \in Nat
    BY <1>7, <1>8, FS_CardinalityType
  <2>2. /\ Cardinality(Leases(i, k)) \in Nat /\ Cardinality(Leases(i, k - 1)) \in Nat
        /\ Cardinality(Waiting(i, k - 1)) \in Nat /\ Cardinality(KnownOf(i)) \in Nat
    BY Counted
  <2> QED BY <1>7, <1>8, <1>9, <1>10, <2>1, <2>2 DEF Covered
<1> QED BY <1>8, <1>11 DEF W, i, k

\* Steps of the leases as Leases sees them
LEMMA LeasesAfter ==
    ASSUME NEW i, NEW k,
           \A p \in Pools : \A o \in Offsets(p) : p <= k /\ Has(p, i, o)' => Has(p, i, o)
    PROVE  Leases(i, k)' \subseteq Leases(i, k)
BY DEF Leases, AddrAt

LEMMA RequestsCovered ==
    ASSUME IInv, StartInv, CoverInv, NEW s \in Sas, NEW a \in Addrs \cup {NoAddr},
           Requests(s, a)
    PROVE  CoverInv'
<1> SUFFICES ASSUME NEW i \in Ids, NEW k \in Pools PROVE Covered(i, k)'
  BY DEF CoverInv
<1>1. /\ TypeOK /\ pc[s] \in {"none", "idle", "refused"} /\ pc' = [pc EXCEPT ![s] = "asking"]
      /\ UNCHANGED <<leaseVars, op, at, addr>> /\ op[s] = "existing" /\ at[s] = 1
  BY DEF IInv, Requests, StartInv
<1>2. \A t \in Sas : pc'[t] = IF t = s THEN "asking" ELSE pc[t]
  BY <1>1 DEF TypeOK
<1>3. Leases(i, k)' \subseteq Leases(i, k)
  BY <1>1, LeasesAfter DEF leaseVars, Has
<1>4. Waiting(i, k)' \subseteq Waiting(i, k)
  <2>1. ~(1 > k)
    BY PoolsAssumption DEF Pools
  <2> QED BY <1>1, <1>2, <2>1 DEF Waiting
<1>5. KnownOf(i) \subseteq KnownOf(i)'
  BY <1>2 DEF KnownOf, Known
<1> QED BY <1>3, <1>4, <1>5, StaysCovered DEF CoverInv

LEMMA WaitsCovered ==
    ASSUME IInv, CoverInv, NEW s \in Sas, Waits(s)
    PROVE  CoverInv'
<1> SUFFICES ASSUME NEW i \in Ids, NEW k \in Pools PROVE Covered(i, k)'
  BY DEF CoverInv
<1>1. /\ TypeOK /\ pc[s] = "asking" /\ UNCHANGED leaseVars /\ Unanswered(s)
      /\ op[s] = "existing" => offline[at[s]][IdOf[s]] = {}
      /\ at[s] \in Pools /\ Pools = 1 .. N /\ N \in Nat \ {0}
  BY PoolsAssumption DEF IInv, TypeOK, Waits, Pools
<1>2. Leases(i, k)' \subseteq Leases(i, k)
  BY <1>1, LeasesAfter DEF leaseVars, Has
<1>3. \A t \in Sas : t # s => /\ pc'[t] = pc[t] /\ op'[t] = op[t] /\ at'[t] = at[t]
                              /\ addr'[t] = addr[t]
  BY <1>1 DEF TypeOK, Unanswered, Ends
<1>4. /\ KnownOf(i) = KnownOf(i)'
  <2>1. pc'[s] # "none" /\ pc[s] # "none"
    BY <1>1 DEF TypeOK, Unanswered, Ends
  <2> QED BY <1>3, <2>1 DEF KnownOf, Known
<1>5. Waiting(i, k)' \subseteq Waiting(i, k) \cup {s}
  BY <1>3 DEF Waiting
<1>6. CASE op[s] = "existing" /\ i = IdOf[s] /\ k = at[s]
  <2>1. /\ IsFiniteSet(Waiting(i, k) \cup {s})
        /\ Cardinality(Leases(i, k)) + Cardinality(Waiting(i, k) \cup {s})
               <= Cardinality(KnownOf(i))
    BY <1>1, <1>6, PassesPool
  <2>2. /\ Cardinality(Leases(i, k)') <= Cardinality(Leases(i, k))
        /\ Cardinality(Leases(i, k)') \in Nat
    BY <1>2, Counted, FS_Subset, FS_CardinalityType
  <2>3. /\ Cardinality(Waiting(i, k)') <= Cardinality(Waiting(i, k) \cup {s})
        /\ Cardinality(Waiting(i, k)') \in Nat
        /\ Cardinality(Waiting(i, k) \cup {s}) \in Nat
    BY <1>5, <2>1, FS_Subset, FS_CardinalityType
  <2> QED BY <1>4, <2>1, <2>2, <2>3, Counted DEF Covered
<1>7. CASE ~(op[s] = "existing" /\ i = IdOf[s] /\ k = at[s])
  <2>1. s \in Waiting(i, k)' => s \in Waiting(i, k)
    <3> SUFFICES ASSUME s \in Waiting(i, k)' PROVE s \in Waiting(i, k)
      OBVIOUS
    <3>1. i = IdOf[s]
      BY DEF Waiting
    <3>2. CASE op[s] # "existing"
      BY <1>1, <3>1, <3>2 DEF Waiting
    <3>3. CASE op[s] = "existing" /\ at[s] < N
      <4>1. pc'[s] = "asking" /\ op'[s] = "existing" /\ at'[s] = at[s] + 1
        BY <1>1, <3>3 DEF TypeOK, Unanswered
      <4>2. at[s] + 1 > k
        BY <4>1 DEF Waiting
      <4>3. at[s] > k
        BY <1>1, <1>7, <3>1, <3>3, <4>2
      <4> QED BY <1>1, <3>1, <4>3 DEF Waiting
    <3>4. CASE op[s] = "existing" /\ ~(at[s] < N)
      <4>1. at[s] = N /\ at[s] > k
        BY <1>1, <1>7, <3>1, <3>4
      <4> QED BY <1>1, <3>1, <4>1 DEF Waiting
    <3> QED BY <3>2, <3>3, <3>4
  <2>2. Waiting(i, k)' \subseteq Waiting(i, k)
    BY <1>5, <2>1
  <2> QED BY <1>2, <1>4, <2>2, StaysCovered DEF CoverInv
<1> QED BY <1>6, <1>7

LEMMA GivesCovered ==
    ASSUME IInv, CoverInv, NEW s \in Sas, NEW p \in Pools, NEW o \in Offsets(p),
           Gives(s, p, o), Was(s, p, o)
    PROVE  CoverInv'
<1> SUFFICES ASSUME NEW i \in Ids, NEW k \in Pools PROVE Covered(i, k)'
  BY DEF CoverInv
<1> DEFINE a == AddrAt(p, o)
<1>1. /\ TypeOK /\ pc[s] = "asking" /\ a \in Addrs /\ a # NoAddr /\ a \in AddrsOf(p)
      /\ Pools \subseteq Nat
  BY AddressOfOffset, PoolsAssumption DEF IInv, Gives, AddrAt, AddrsOf, Pools
<1>2. /\ pc' = [pc EXCEPT ![s] = "up"] /\ addr' = [addr EXCEPT ![s] = a]
  BY <1>1 DEF Gives, Ends
<1>3. /\ pc'[s] = "up" /\ addr'[s] = a
      /\ \A t \in Sas : t # s => /\ pc'[t] = pc[t] /\ op'[t] = op[t] /\ at'[t] = at[t]
                                 /\ addr'[t] = addr[t]
  BY <1>1, <1>2 DEF TypeOK, Gives, Ends
<1>4. \A q \in Pools : \A u \in Offsets(q) :
          Has(q, i, u)' <=> IF q = p /\ u = o THEN i = IdOf[s] ELSE Has(q, i, u)
  BY <1>1, HasGiven
<1>5. KnownOf(i) = KnownOf(i)'
  BY <1>1, <1>3 DEF KnownOf, Known
<1>6. Waiting(i, k)' \subseteq Waiting(i, k) \cup {s}
  BY <1>3 DEF Waiting
<1>7. s \in Waiting(i, k)' <=> i = IdOf[s] /\ p > k
  <2>1. \A q \in Pools : a \in AddrsOf(q) => q = p
    BY <1>1, PoolsAssumption
  <2> QED BY <1>1, <1>3, <2>1 DEF Waiting
<1> HIDE DEF a
<1>8. CASE i # IdOf[s] \/ p > k \/ op[s] = "existing"
  <2>1. Leases(i, k)' \subseteq Leases(i, k)
    <3>1. \A q \in Pools : \A u \in Offsets(q) : q <= k /\ Has(q, i, u)' => Has(q, i, u)
      BY <1>1, <1>4, <1>8 DEF Was
    <3> QED BY <3>1, LeasesAfter
  <2>2. s \in Waiting(i, k)' => s \in Waiting(i, k)
    BY <1>1, <1>7 DEF Waiting, Was
  <2> QED BY <1>5, <1>6, <2>1, <2>2, StaysCovered DEF CoverInv
<1>9. CASE i = IdOf[s] /\ ~(p > k) /\ op[s] # "existing"
  <2>1. Leases(i, k)' \subseteq Leases(i, k) \cup {a}
    BY <1>4 DEF Leases, a, AddrAt
  <2>2. s \in Waiting(i, k) /\ Waiting(i, k)' \subseteq Waiting(i, k) \ {s}
    BY <1>1, <1>6, <1>7, <1>9 DEF Waiting
  <2> QED BY <1>5, <2>1, <2>2, GetsCovered DEF CoverInv
<1> QED BY <1>8, <1>9

LEMMA ReleasesCovered ==
    ASSUME IInv, CoverInv, NEW s \in Sas, Releases(s)
    PROVE  CoverInv'
<1> SUFFICES ASSUME NEW i \in Ids, NEW k \in Pools PROVE Covered(i, k)'
  BY DEF CoverInv
<1>1. /\ TypeOK /\ pc[s] = "up" /\ pc'[s] = "idle"
      /\ \A t \in Sas : t # s => /\ pc'[t] = pc[t] /\ op'[t] = op[t] /\ at'[t] = at[t]
                                 /\ addr'[t] = addr[t]
  BY DEF IInv, TypeOK, Releases
<1>2. Leases(i, k)' \subseteq Leases(i, k)
  BY HasKept, LeasesAfter
<1>3. Waiting(i, k)' \subseteq Waiting(i, k)
  BY <1>1 DEF Waiting
<1>4. KnownOf(i) = KnownOf(i)'
  BY <1>1 DEF KnownOf, Known
<1> QED BY <1>2, <1>3, <1>4, StaysCovered DEF CoverInv

\* A set that is no larger fits into another.
LEMMA Fits ==
    ASSUME NEW S, NEW T, IsFiniteSet(S), IsFiniteSet(T), Cardinality(S) <= Cardinality(T)
    PROVE  \E f \in [S -> T] : \A x, y \in S : f[x] = f[y] => x = y
<1>1. Cardinality(S) \in Nat /\ Cardinality(T) \in Nat
  BY FS_CardinalityType
<1>2. PICK g \in Bijection(1 .. Cardinality(S), S) : TRUE
  BY FS_CardinalityType DEF ExistsBijection
<1>3. PICK h \in Bijection(1 .. Cardinality(T), T) : TRUE
  BY FS_CardinalityType DEF ExistsBijection
<1> DEFINE place(x) == CHOOSE n \in 1 .. Cardinality(S) : g[n] = x
           f == [x \in S |-> h[place(x)]]
<1>4. \A x \in S : place(x) \in 1 .. Cardinality(S) /\ g[place(x)] = x
  BY <1>2 DEF Bijection, Surjection
<1>5. \A x \in S : place(x) \in 1 .. Cardinality(T)
  BY <1>1, <1>4
<1>6. /\ h \in [1 .. Cardinality(T) -> T]
      /\ \A m, n \in 1 .. Cardinality(T) : h[m] = h[n] => m = n
  BY <1>3 DEF Bijection, Injection, IsInjective
<1> HIDE DEF place
<1>7. f \in [S -> T]
  BY <1>5, <1>6
<1>8. \A x, y \in S : f[x] = f[y] => x = y
  BY <1>4, <1>5, <1>6
<1> QED BY <1>7, <1>8

\* When the last pool has nobody's lease to take over, every address is listed,
\* each for an IKE_SA that is not the one refused.
LEMMA RefusedLast ==
    ASSUME IInv, CoverInv, NEW s \in Sas, pc[s] = "asking", op[s] = "reassign"
    PROVE  Cardinality(Known) > Cardinality(Addrs)
<1>1. /\ TypeOK /\ N \in Pools /\ s \in Known /\ Known \subseteq Sas
      /\ \A p \in Pools : p <= N
  BY PoolsAssumption DEF IInv, Known, Pools
<1>2. IsFiniteSet(Known) /\ IsFiniteSet(Known \ {s})
      /\ Cardinality(Known \ {s}) = Cardinality(Known) - 1
  BY <1>1, SasAssumption, FS_Subset, FS_RemoveElement
<1> DEFINE Rest(i) == KnownOf(i) \ {s}
<1>3. ASSUME NEW a \in Addrs PROVE \E i \in Ids : a \in Leases(i, N)
  <2>0. PICK q \in Pools : \E u \in Offsets(q) : a = AddrAt(q, u)
    BY OffsetOfAddress
  <2>1. PICK u \in Offsets(q) : a = AddrAt(q, u)
    BY <2>0
  <2>2. u <= unused[q] + Skipped(q)
    <3>1. unused[q] \in Nat /\ Size(q) \in Nat /\ Skipped(q) \in {0, 1}
      BY <1>1, PoolTypes DEF TypeOK
    <3>2. ~Left(q)
      BY DEF IInv, AskInv
    <3> QED BY <3>1, <3>2 DEF Left, Offsets
  <2>3. PICK i \in Ids : Has(q, i, u)
    BY <2>2 DEF IInv, UsedInv
  <2> QED BY <1>1, <2>1, <2>3 DEF Leases
<1>4. ASSUME NEW i \in Ids
      PROVE  \E f \in [Leases(i, N) -> Rest(i)] : \A x, y \in Leases(i, N) : f[x] = f[y] => x = y
  <2>1. Covered(i, N)
    BY <1>1 DEF CoverInv
  <2>2. Cardinality(Leases(i, N)) <= Cardinality(Rest(i)) /\ IsFiniteSet(Rest(i))
    <3>1. CASE i = IdOf[s]
      <4>1. s \in Waiting(i, N) /\ s \in KnownOf(i)
        BY <1>1, <3>1 DEF Waiting, KnownOf
      <4>2. Cardinality(Waiting(i, N)) # 0
        BY <4>1, Counted, FS_EmptySet
      <4>3. IsFiniteSet(Rest(i)) /\ Cardinality(Rest(i)) = Cardinality(KnownOf(i)) - 1
        BY <4>1, Counted, FS_RemoveElement
      <4> QED BY <2>1, <4>2, <4>3, Counted DEF Covered
    <3>2. CASE i # IdOf[s]
      <4>1. Rest(i) = KnownOf(i)
        BY <3>2 DEF KnownOf
      <4>2. /\ Cardinality(Leases(i, N)) \in Nat /\ Cardinality(Waiting(i, N)) \in Nat
            /\ Cardinality(KnownOf(i)) \in Nat /\ IsFiniteSet(KnownOf(i))
        BY Counted
      <4>3. Cardinality(Leases(i, N)) <= Cardinality(KnownOf(i))
        BY <2>1, <4>2 DEF Covered
      <4> HIDE DEF Rest
      <4> QED BY <4>1, <4>2, <4>3
    <3> QED BY <3>1, <3>2
  <2> HIDE DEF Rest
  <2> QED BY <2>2, Counted, Fits
<1> DEFINE whose(a) == CHOOSE i \in Ids : a \in Leases(i, N)
           fit(i) == CHOOSE f \in [Leases(i, N) -> Rest(i)] :
                         \A x, y \in Leases(i, N) : f[x] = f[y] => x = y
           F == [a \in Addrs |-> fit(whose(a))[a]]
<1>5. \A a \in Addrs : whose(a) \in Ids /\ a \in Leases(whose(a), N)
  BY <1>3
<1>6. \A i \in Ids : /\ fit(i) \in [Leases(i, N) -> Rest(i)]
                     /\ \A x, y \in Leases(i, N) : fit(i)[x] = fit(i)[y] => x = y
  <2> HIDE DEF Rest
  <2> QED BY <1>4
<1> HIDE DEF whose, fit
<1>7. \A a \in Addrs : F[a] \in Rest(whose(a))
  BY <1>5, <1>6
<1>8. \A i \in Ids : \A t \in Rest(i) : t \in Known \ {s} /\ IdOf[t] = i
  BY DEF KnownOf
<1>9. F \in [Addrs -> Known \ {s}]
  BY <1>5, <1>7, <1>8
<1>10. ASSUME NEW a \in Addrs, NEW b \in Addrs, F[a] = F[b] PROVE a = b
  <2>1. whose(a) = whose(b)
    BY <1>5, <1>7, <1>8, <1>10
  <2> QED BY <1>5, <1>6, <1>10, <2>1
<1> HIDE DEF F
<1>11. F \in Injection(Addrs, Known \ {s})
  BY <1>9, <1>10 DEF Injection, IsInjective
<1>12. Cardinality(Addrs) <= Cardinality(Known \ {s})
  BY <1>2, <1>11, FS_Injection
<1> QED BY <1>2, <1>12, AddrsFinite, FS_CardinalityType

HoardInv == IInv /\ StartInv /\ CoverInv /\ RefusedInv

LEMMA InitHoardInv == Init => HoardInv
<1> SUFFICES ASSUME Init PROVE StartInv /\ CoverInv /\ RefusedInv
  BY InitIInv DEF HoardInv
<1>1. StartInv /\ RefusedInv
  BY DEF Init, StartInv, RefusedInv
<1>2. ASSUME NEW i \in Ids, NEW k \in Pools PROVE Covered(i, k)
  <2>1. \A p \in Pools : \A o \in Offsets(p) : ~Has(p, i, o)
    BY PoolTypes DEF Init, Has
  <2>2. Leases(i, k) = {} /\ Waiting(i, k) = {}
    BY <2>1 DEF Init, Leases, Waiting
  <2> QED BY <2>2, Counted, FS_EmptySet DEF Covered
<1> QED BY <1>1, <1>2 DEF CoverInv

\* Who has asked stays known, so it is enough to look at who is refused now.
LEMMA RefusedStep ==
    ASSUME RefusedInv, TypeOK, Known \subseteq Known',
           \A t \in Sas : pc'[t] = "refused" => pc[t] = "refused"
               \/ Cardinality(Known) > Cardinality(Addrs)
    PROVE  RefusedInv'
<1> SUFFICES ASSUME NEW t \in Sas, pc'[t] = "refused"
             PROVE  Cardinality(Known') > Cardinality(Addrs)
  BY DEF RefusedInv, Addrs, AddrsOf, Offsets, Pools, Size, Skipped
<1>1. Cardinality(Known) > Cardinality(Addrs)
  BY DEF RefusedInv
<1>2. /\ IsFiniteSet(Known') /\ Cardinality(Known) <= Cardinality(Known')
      /\ Cardinality(Known') \in Nat /\ Cardinality(Known) \in Nat
  <2>1. Known' \subseteq Sas
    BY DEF Known
  <2> QED BY <2>1, SasAssumption, FS_Subset, FS_CardinalityType
<1>3. Cardinality(Addrs) \in Nat
  BY AddrsFinite, FS_CardinalityType
<1> QED BY <1>1, <1>2, <1>3

LEMMA NextHoardInv == HoardInv /\ [Next]_vars => HoardInv'
<1> SUFFICES ASSUME HoardInv, [Next]_vars PROVE HoardInv'
  OBVIOUS
<1>1. /\ IInv /\ StartInv /\ CoverInv /\ RefusedInv /\ TypeOK /\ IInv'
  BY NextIInv DEF HoardInv, IInv
<1> SUFFICES StartInv' /\ CoverInv' /\ RefusedInv'
  BY <1>1 DEF HoardInv
<1>2. ASSUME NEW s \in Sas, NEW a \in Addrs \cup {NoAddr}, Requests(s, a)
      PROVE  StartInv' /\ CoverInv' /\ RefusedInv'
  <2>1. pc' = [pc EXCEPT ![s] = "asking"] /\ op' = op /\ at' = at
    BY <1>2 DEF Requests
  <2>2. \A t \in Sas : pc'[t] = IF t = s THEN "asking" ELSE pc[t]
    BY <1>1, <2>1 DEF TypeOK
  <2>3. StartInv'
    BY <1>1, <2>1, <2>2 DEF StartInv
  <2>4. RefusedInv'
    BY <1>1, <2>2, RefusedStep DEF Known
  <2> QED BY <1>1, <1>2, <2>3, <2>4, RequestsCovered
<1>3. ASSUME NEW s \in Sas, Waits(s)
      PROVE  StartInv' /\ CoverInv' /\ RefusedInv'
  <2>0. pc[s] = "asking" /\ Unanswered(s)
    BY <1>3 DEF Waits
  <2>1. /\ pc[s] = "asking" /\ Unanswered(s)
        /\ pc' = pc \/ (op[s] = "reassign" /\ Ends(s, NoAddr))
    BY <2>0 DEF Unanswered
  <2>2. \A t \in Sas : t # s => pc'[t] = pc[t] /\ op'[t] = op[t] /\ at'[t] = at[t]
    BY <1>1, <2>1 DEF TypeOK, Unanswered, Ends
  <2>3. pc'[s] = "asking" \/ (op[s] = "reassign" /\ op'[s] = "existing" /\ at'[s] = 1)
    BY <1>1, <2>1 DEF TypeOK, Ends
  <2>4. StartInv'
    BY <1>1, <2>2, <2>3 DEF StartInv
  <2>5. RefusedInv'
    <3>1. op[s] = "reassign" => Cardinality(Known) > Cardinality(Addrs)
      BY <1>1, <2>1, RefusedLast
    <3>2. pc'[s] # "none"
      BY <1>1, <2>1 DEF TypeOK, Ends
    <3> QED BY <1>1, <2>2, <2>3, <3>1, <3>2, RefusedStep DEF Known
  <2> QED BY <1>1, <1>3, <2>4, <2>5, WaitsCovered
<1>4. ASSUME NEW s \in Sas, NEW p \in Pools, NEW o \in Offsets(p), Gives(s, p, o), Was(s, p, o)
      PROVE  StartInv' /\ CoverInv' /\ RefusedInv'
  <2>1. AddrAt(p, o) # NoAddr /\ pc[s] = "asking" /\ Ends(s, AddrAt(p, o))
    BY <1>4, AddressOfOffset DEF Gives
  <2>2. /\ pc'[s] = "up" /\ op'[s] = "existing" /\ at'[s] = 1
        /\ \A t \in Sas : t # s => pc'[t] = pc[t] /\ op'[t] = op[t] /\ at'[t] = at[t]
    BY <1>1, <2>1 DEF TypeOK, Ends
  <2>3. StartInv'
    BY <1>1, <2>2 DEF StartInv
  <2>4. RefusedInv'
    BY <1>1, <2>2, RefusedStep DEF Known
  <2> QED BY <1>1, <1>4, <2>3, <2>4, GivesCovered
<1>5. ASSUME NEW s \in Sas, Releases(s)
      PROVE  StartInv' /\ CoverInv' /\ RefusedInv'
  <2>1. /\ pc[s] = "up" /\ pc' = [pc EXCEPT ![s] = "idle"] /\ op' = op /\ at' = at
    BY <1>5 DEF Releases
  <2>2. \A t \in Sas : pc'[t] = IF t = s THEN "idle" ELSE pc[t]
    BY <1>1, <2>1 DEF TypeOK
  <2>3. StartInv'
    BY <1>1, <2>1, <2>2 DEF StartInv
  <2>4. RefusedInv'
    BY <1>1, <2>2, RefusedStep DEF Known
  <2> QED BY <1>1, <1>5, <2>3, <2>4, ReleasesCovered
<1>6. CASE UNCHANGED vars
  <2>1. UNCHANGED leaseVars /\ UNCHANGED <<pc, op, at, addr>>
    BY <1>6 DEF vars, saVars
  <2>2. StartInv'
    BY <1>1, <2>1 DEF StartInv
  <2>3. ASSUME NEW i \in Ids, NEW k \in Pools PROVE Covered(i, k)'
    <3>1. Leases(i, k)' \subseteq Leases(i, k)
      BY <2>1, LeasesAfter DEF leaseVars, Has
    <3>2. Waiting(i, k)' \subseteq Waiting(i, k) /\ KnownOf(i)' = KnownOf(i)
      BY <2>1 DEF Waiting, KnownOf, Known
    <3> QED BY <1>1, <3>1, <3>2, StaysCovered DEF CoverInv
  <2>4. RefusedInv'
    BY <1>1, <2>1, RefusedStep DEF Known
  <2> QED BY <2>2, <2>3, <2>4 DEF CoverInv
<1>7. ASSUME NEW s \in Sas, Acquires(s)
      PROVE  StartInv' /\ CoverInv' /\ RefusedInv'
  <2>1. PICK p \in Pools : GetExisting(s, p) \/ GetNew(s, p) \/ GetReassigned(s, p)
    BY <1>7 DEF Acquires
  <2>2. Waits(s) \/ \E o \in Offsets(p) : Gives(s, p, o) /\ Was(s, p, o)
    BY <1>1, <2>1, Answers
  <2> QED BY <1>3, <1>4, <2>2
<1> QED BY <1>2, <1>5, <1>6, <1>7 DEF Next

\* Addresses are not used up by clients that come and go: nobody is listed
\* with more of them than he has IKE_SAs that ever asked
\* (stroke_attribute.c:134-142, mem_pool.c:273-358).
THEOREM NobodyHoards == Spec => []NoHoarding
<1>1. HoardInv => NoHoarding
  <2> SUFFICES ASSUME HoardInv, NEW i \in Ids
               PROVE  Cardinality(LeasesOf(i)) <= Cardinality(KnownOf(i))
    BY DEF NoHoarding, KnownOf
  <2>1. N \in Pools /\ \A p \in Pools : p <= N
    BY PoolsAssumption DEF Pools
  <2>2. Covered(i, N)
    BY <2>1 DEF HoardInv, CoverInv
  <2>3. LeasesOf(i) \subseteq Leases(i, N)
    <3> SUFFICES ASSUME NEW a \in LeasesOf(i) PROVE a \in Leases(i, N)
      OBVIOUS
    <3>1. PICK p \in Pools : Host2Offset(p, a) \in Offsets(p) /\ Has(p, i, Host2Offset(p, a))
      BY DEF LeasesOf, HasAddr
    <3>2. a \in Addrs /\ a = AddrAt(p, Host2Offset(p, a))
      BY <3>1, OffsetFound DEF LeasesOf
    <3> QED BY <2>1, <3>1, <3>2 DEF Leases
  <2>4. Cardinality(LeasesOf(i)) <= Cardinality(Leases(i, N)) /\ Cardinality(LeasesOf(i)) \in Nat
    BY <2>3, Counted, FS_Subset, FS_CardinalityType
  <2> QED BY <2>2, <2>4, Counted DEF Covered
<1> QED BY <1>1, InitHoardInv, NextHoardInv, PTL DEF Spec

\* Nobody is refused while there are as many addresses as IKE_SAs that ever
\* asked, although a pool that was full for a moment is not asked again
\* (stroke_attribute.c:111-143).
THEOREM RefusedOnlyWhenFull == Spec => []NobodyRefused
<1>1. HoardInv => NobodyRefused
  <2> SUFFICES ASSUME HoardInv, NEW s \in Sas, pc[s] = "refused",
                      Cardinality(Known) <= Cardinality(Addrs)
               PROVE  FALSE
    BY DEF NobodyRefused
  <2>1. Cardinality(Known) > Cardinality(Addrs)
    BY DEF HoardInv, RefusedInv
  <2>2. Cardinality(Known) \in Nat /\ Cardinality(Addrs) \in Nat
    BY SasAssumption, AddrsFinite, FS_Subset, FS_CardinalityType DEF Known
  <2> QED BY <2>1, <2>2
<1> QED BY <1>1, InitHoardInv, NextHoardInv, PTL DEF Spec

===========================================================================

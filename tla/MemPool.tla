------------------------------ MODULE MemPool ------------------------------
(***************************************************************************)
(* The pools of virtual IP addresses that charon keeps in memory           *)
(* (attributes/mem_pool.c) and the stroke plugin that asks them for the    *)
(* address of a client (plugins/stroke/stroke_attribute.c): for an         *)
(* existing lease in each pool, then for a new one in each, then for one   *)
(* of somebody who is offline.  A pool locks its mutex for one question;   *)
(* between two of them other IKE_SAs ask and release.                      *)
(*                                                                         *)
(* Addresses are numbers.  An entry's array of online leases is a bag: the *)
(* number of its elements of one offset and one hash.  Its array of        *)
(* offline leases is a set: which of several is given back matters to      *)
(* nothing here.  The hash of a host stands for the host.                  *)
(***************************************************************************)
EXTENDS Integers, FiniteSets

CONSTANTS Sas,      \* IKE_SAs
          Ids,      \* identities of clients
          Hosts,    \* addresses and ports of peers
          IdOf,     \* the identity of each IKE_SA ...
          HostOf,   \* ... and the host it comes from
          NoAddr,   \* NULL, or a request for no address in particular
          N,        \* pools of the connection, 1 .. N in its order
          Pool      \* of each of them [base, size, base_is_network_id]

ASSUME SasAssumption ==
    /\ IsFiniteSet(Sas)
    /\ IdOf \in [Sas -> Ids]
    /\ HostOf \in [Sas -> Hosts]

Pools == 1 .. N

Size(p) == Pool[p].size

\* The offset of the first address of pool p, less one
Skipped(p) == IF Pool[p].base_is_network_id THEN 1 ELSE 0

Offsets(p) == (1 + Skipped(p)) .. (Size(p) + Skipped(p))

\* offset2host()
Offset2Host(p, o) == IF o - 1 > Size(p) THEN NoAddr ELSE Pool[p].base + o - 1

\* host2offset(), of which what is not positive is no offset
Host2Offset(p, a) ==
    IF a = NoAddr \/ a > Pool[p].base + Size(p) THEN -1 ELSE a - Pool[p].base + 1

\* The addresses that pool p serves
AddrsOf(p) == {Pool[p].base + o - 1 : o \in Offsets(p)}

Addrs == UNION {AddrsOf(p) : p \in Pools}

\* A pool serves something, and no two serve the same.  (One without a size
\* hands out what is requested and keeps no leases.)
ASSUME PoolsAssumption ==
    /\ N \in Nat \ {0}
    /\ \A p \in Pools :
        Pool[p] \in [base : Nat, size : Nat \ {0}, base_is_network_id : BOOLEAN]
    /\ \A p, q \in Pools : p # q => AddrsOf(p) \cap AddrsOf(q) = {}
    /\ NoAddr \notin Int

Offset == UNION {Offsets(p) : p \in Pools}

VARIABLES online,   \* how often a pool lists a lease of an identity, an offset and a host
          offline,  \* the offsets of the offline leases of a pool and an identity
          unused,   \* of each pool: addresses handed out so far
          pc,       \* each IKE_SA: none so far, asking, up, idle or refused
          op,       \* what it asks for
          at,       \* the pool that it asks next
          wanted,   \* the address that it would like
          addr      \* the address that it has

leaseVars == <<online, offline, unused>>
saVars == <<pc, op, at, wanted, addr>>
vars == <<leaseVars, saVars>>

TypeOK ==
    /\ online \in [Pools -> [Ids -> [Offset -> [Hosts -> Nat]]]]
    /\ offline \in [Pools -> [Ids -> SUBSET Offset]]
    /\ unused \in [Pools -> Nat]
    /\ pc \in [Sas -> {"none", "asking", "up", "idle", "refused"}]
    /\ op \in [Sas -> {"existing", "new", "reassign"}]
    /\ at \in [Sas -> Pools]
    /\ wanted \in [Sas -> Addrs \cup {NoAddr}]
    /\ addr \in [Sas -> Addrs \cup {NoAddr}]

Init ==
    /\ online = [p \in Pools |-> [i \in Ids |-> [o \in Offset |-> [h \in Hosts |-> 0]]]]
    /\ offline = [p \in Pools |-> [i \in Ids |-> {}]]
    /\ unused = [p \in Pools |-> 0]
    /\ pc = [s \in Sas |-> "none"]
    /\ op = [s \in Sas |-> "existing"]
    /\ at = [s \in Sas |-> 1]
    /\ wanted = [s \in Sas |-> NoAddr]
    /\ addr = [s \in Sas |-> NoAddr]

---------------------------------------------------------------------------
(* The questions of an IKE_SA *)

\* An IKE_SA asks for an address, perhaps for one that it had.
Requests(s, a) ==
    /\ pc[s] \in {"none", "idle", "refused"}
    /\ pc' = [pc EXCEPT ![s] = "asking"]
    /\ wanted' = [wanted EXCEPT ![s] = a]
    /\ UNCHANGED <<leaseVars, op, at, addr>>

\* The questions end, and what they need is gone.
Ends(s, a) ==
    /\ pc' = [pc EXCEPT ![s] = IF a = NoAddr THEN "refused" ELSE "up"]
    /\ addr' = [addr EXCEPT ![s] = a]
    /\ op' = [op EXCEPT ![s] = "existing"]
    /\ at' = [at EXCEPT ![s] = 1]
    /\ wanted' = [wanted EXCEPT ![s] = NoAddr]

\* After the last pool the next operation is tried.
Following(operation) == IF operation = "existing" THEN "new" ELSE "reassign"

\* A pool without an answer: the next one is asked, or the first one again
\* with the next operation, or there is no address.
Unanswered(s) ==
    \/ /\ at[s] < N
       /\ at' = [at EXCEPT ![s] = @ + 1]
       /\ UNCHANGED <<pc, op, wanted, addr>>
    \/ /\ at[s] = N /\ op[s] # "reassign"
       /\ at' = [at EXCEPT ![s] = 1]
       /\ op' = [op EXCEPT ![s] = Following(@)]
       /\ UNCHANGED <<pc, wanted, addr>>
    \/ /\ at[s] = N /\ op[s] = "reassign"
       /\ Ends(s, NoAddr)

\* acquire_address() of pool p with an offset
Offered(s, p, o) ==
    IF Offset2Host(p, o) = NoAddr THEN Unanswered(s) ELSE Ends(s, Offset2Host(p, o))

\* IKE_SA s asks pool p.
Asks(s, p, operation) == pc[s] = "asking" /\ at[s] = p /\ op[s] = operation

---------------------------------------------------------------------------
(* The pool *)

\* Were a lease given back only on request, new ones would be used up.
OfflineWanted(s, p) == {o \in offline[p][IdOf[s]] : o = Host2Offset(p, wanted[s])}

\* Any offline lease of the client
OfflineLease(s, p) == offline[p][IdOf[s]]

\* An online lease of the client at its host, of the offset that it requests
SharedLease(s, p) ==
    {o \in Offsets(p) : o = Host2Offset(p, wanted[s]) /\ online[p][IdOf[s]][o][HostOf[s]] > 0}

Listed(s, p, o) == online' = [online EXCEPT ![p][IdOf[s]][o][HostOf[s]] = @ + 1]

\* get_existing(): an offline lease first
GetExisting(s, p) ==
    /\ Asks(s, p, "existing")
    /\ UNCHANGED unused
    /\ \/ \E o \in OfflineLease(s, p) :
            /\ offline' = [offline EXCEPT ![p][IdOf[s]] = @ \ {o}]
            /\ Listed(s, p, o)
            /\ Offered(s, p, o)
       \/ /\ OfflineLease(s, p) = {}
          /\ \E o \in SharedLease(s, p) : Listed(s, p, o) /\ Offered(s, p, o)
          /\ UNCHANGED offline
       \/ /\ OfflineLease(s, p) = {} /\ SharedLease(s, p) = {}
          /\ Unanswered(s)
          /\ UNCHANGED <<online, offline>>

\* The last address of the pool is never handed out.
LeftButOne(p) == unused[p] + 1 < Size(p)

\* There is an address that nobody has had.
Left(p) == unused[p] < Size(p)

\* get_new()
GetNew(s, p) ==
    /\ Asks(s, p, "new")
    /\ UNCHANGED offline
    /\ IF Left(p)
       THEN /\ unused' = [unused EXCEPT ![p] = @ + 1]
            /\ Listed(s, p, unused[p] + 1 + Skipped(p))
            /\ Offered(s, p, unused[p] + 1 + Skipped(p))
       ELSE Unanswered(s) /\ UNCHANGED <<online, unused>>

\* get_reassigned(): an offline lease of anybody
GetReassigned(s, p) ==
    /\ Asks(s, p, "reassign")
    /\ UNCHANGED unused
    /\ \/ \E i \in Ids : \E o \in offline[p][i] :
            /\ offline' = [offline EXCEPT ![p][i] = @ \ {o}]
            /\ Listed(s, p, o)
            /\ Offered(s, p, o)
       \/ /\ \A i \in Ids : offline[p][i] = {}
          /\ Unanswered(s)
          /\ UNCHANGED <<online, offline>>

\* A lease of the client with the offset of its address, at any host.
Found(s, p, h) ==
    /\ Host2Offset(p, addr[s]) \in Offsets(p)
    /\ online[p][IdOf[s]][Host2Offset(p, addr[s])][h] > 0

\* Were there no look for more entries, the lease would go offline with the
\* first IKE_SA that releases it.
NeverMore(s, p, h) == FALSE

\* Another entry of the offset: the lease stays online.
More(s, p, h) ==
    \/ online[p][IdOf[s]][Host2Offset(p, addr[s])][h] > 1
    \/ \E g \in Hosts \ {h} : Found(s, p, g)

\* release_address(): the pools are asked in order until one has the lease;
\* the first of its entries goes.
Releases(s) ==
    /\ pc[s] = "up"
    /\ \/ \E p \in Pools, h \in Hosts :
            LET o == Host2Offset(p, addr[s])
            IN  /\ Found(s, p, h)
                /\ \A q \in 1 .. (p - 1), g \in Hosts : ~Found(s, q, g)
                /\ online' = [online EXCEPT ![p][IdOf[s]][o][h] = @ - 1]
                /\ offline' = IF More(s, p, h) THEN offline
                              ELSE [offline EXCEPT ![p][IdOf[s]] = @ \cup {o}]
       \/ /\ \A p \in Pools, h \in Hosts : ~Found(s, p, h)
          /\ UNCHANGED <<online, offline>>
    /\ pc' = [pc EXCEPT ![s] = "idle"]
    /\ addr' = [addr EXCEPT ![s] = NoAddr]
    /\ UNCHANGED <<unused, op, at, wanted>>

---------------------------------------------------------------------------

Acquires(s) == \E p \in Pools : GetExisting(s, p) \/ GetNew(s, p) \/ GetReassigned(s, p)

Next ==
    \E s \in Sas :
        \/ \E a \in Addrs \cup {NoAddr} : Requests(s, a)
        \/ Acquires(s)
        \/ Releases(s)

Spec == Init /\ [][Next]_vars

---------------------------------------------------------------------------
(* Properties *)

\* Pool p lists offset o for identity i.
Has(p, i, o) == o \in offline[p][i] \/ \E h \in Hosts : online[p][i][o][h] > 0

HasAddr(i, a) ==
    \E p \in Pools : Host2Offset(p, a) \in Offsets(p) /\ Has(p, i, Host2Offset(p, a))

Holders(a) == {s \in Sas : pc[s] = "up" /\ addr[s] = a}

Lessee(a) == {i \in Ids : HasAddr(i, a)}

Promise == INSTANCE AddressPool
               WITH holders <- [a \in Addrs |-> Holders(a)],
                    lessee <- [a \in Addrs |-> Lessee(a)]

\* The pools keep what AddressPool promises: an address is given to several
\* IKE_SAs only if they are one client at one host, and a client loses the
\* address it had only when every address has been given out, whatever the
\* others ask for and release between two questions
\* (stroke_attribute.c:134-142, mem_pool.c:273-493).
KeepsPromise == Promise!Spec

LeasesOf(i) == {a \in Addrs : HasAddr(i, a)}

\* IKE_SAs that have asked for an address
Known == {s \in Sas : pc[s] # "none"}

\* No identity is listed with more addresses than IKE_SAs of it have ever
\* asked: what they released is found again before another address is used
\* up, also by two of them that ask at the same time.
NoHoarding ==
    \A i \in Ids : Cardinality(LeasesOf(i)) <= Cardinality({s \in Known : IdOf[s] = i})

\* While no more IKE_SAs have asked than there are addresses nobody is
\* refused, although a pool that was full for a moment is not asked again.
NobodyRefused ==
    Cardinality(Known) <= Cardinality(Addrs) => \A s \in Sas : pc[s] # "refused"

===========================================================================

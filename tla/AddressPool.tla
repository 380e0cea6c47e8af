---------------------------- MODULE AddressPool ----------------------------
(***************************************************************************)
(* What a pool of virtual IP addresses promises to the IKE_SAs of its      *)
(* clients: an address has one holder, or several that are the same client *)
(* at the same host; and a client keeps its address while it is away,      *)
(* until there is no address left that nobody has had.                     *)
(***************************************************************************)
CONSTANTS Sas,      \* IKE_SAs
          IdOf,     \* the identity of the client of each IKE_SA ...
          HostOf,   \* ... and the host it comes from
          Addrs     \* addresses of the pool

VARIABLES holders,  \* the IKE_SAs that have each address
          lessee    \* whose address it is, also while away: nobody's or one's

vars == <<holders, lessee>>

Init ==
    /\ holders = [a \in Addrs |-> {}]
    /\ lessee = [a \in Addrs |-> {}]

Free(s) == \A a \in Addrs : s \notin holders[a]

Given(s, a) ==
    /\ Free(s)
    /\ holders' = [holders EXCEPT ![a] = @ \cup {s}]
    /\ lessee' = [lessee EXCEPT ![a] = {IdOf[s]}]

\* An address that nobody has had.
GivesNew(s, a) == Given(s, a) /\ lessee[a] = {}

\* The client gets its own address again ...
GivesBack(s, a) == Given(s, a) /\ lessee[a] = {IdOf[s]} /\ holders[a] = {}

\* ... or, from the host that holds it, once more.
Shares(s, a) ==
    /\ Given(s, a)
    /\ lessee[a] = {IdOf[s]} /\ holders[a] # {}
    /\ \A t \in holders[a] : HostOf[t] = HostOf[s]

\* Every address has its lessee: one who is away loses his.
TakesOver(s, a) ==
    /\ Given(s, a)
    /\ holders[a] = {}
    /\ \A b \in Addrs : lessee[b] # {}

Releases(s, a) ==
    /\ s \in holders[a]
    /\ holders' = [holders EXCEPT ![a] = @ \ {s}]
    /\ UNCHANGED lessee

Next ==
    \E s \in Sas, a \in Addrs :
        GivesNew(s, a) \/ GivesBack(s, a) \/ Shares(s, a) \/ TakesOver(s, a) \/ Releases(s, a)

Spec == Init /\ [][Next]_vars

===========================================================================

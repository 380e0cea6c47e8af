---------------------------- MODULE WatchedPeers ----------------------------
(***************************************************************************)
(* What remote attestation promises to whoever connects to a NED: the      *)
(* connection is there only if the NED was vouched for since the start,    *)
(* and each time a NED is vouched for somebody starts to watch it.  A      *)
(* watch goes on until it has reason to doubt the NED, then it alarms the  *)
(* user, and ends no earlier than the answer.  A restart forgets who was   *)
(* vouched for together with the watches, never one without the other.     *)
(***************************************************************************)
EXTENDS Naturals

CONSTANTS Sas,       \* connections
          NEDs,      \* peers that can be vouched for
          Nobody,    \* a peer that shows no certificate
          Watches,   \* one for each time a NED is vouched for
          Patience,  \* doubts in a row that raise the alarm
          Attests    \* connections are attested

VARIABLES life,      \* none, connecting, established or closed
          peer,      \* the NED each connection is to
          stage,     \* of a watch: none, watching, alarmed or ended
          watched,   \* the NED it is about
          doubts     \* its latest verdicts that say nothing, in a row

vars == <<life, peer, stage, watched, doubts>>

Init ==
    /\ life = [s \in Sas |-> "none"]
    /\ peer = [s \in Sas |-> Nobody]
    /\ stage = [w \in Watches |-> "none"]
    /\ watched = [w \in Watches |-> Nobody]
    /\ doubts = [w \in Watches |-> 0]

Vouched == {watched[w] : w \in {v \in Watches : stage[v] # "none"}}

Connects(s, n) ==
    /\ life[s] = "none"
    /\ life' = [life EXCEPT ![s] = "connecting"]
    /\ peer' = [peer EXCEPT ![s] = n]
    /\ UNCHANGED <<stage, watched, doubts>>

Establishes(s) ==
    /\ life[s] = "connecting"
    /\ Attests => peer[s] \in Vouched \cup {Nobody}
    /\ life' = [life EXCEPT ![s] = "established"]
    /\ UNCHANGED <<peer, stage, watched, doubts>>

Closes(s) ==
    /\ life[s] \in {"connecting", "established"}
    /\ life' = [life EXCEPT ![s] = "closed"]
    /\ UNCHANGED <<peer, stage, watched, doubts>>

\* A NED is vouched for, and watched from then on, while somebody connects.
Vouches(w, n) ==
    /\ Attests
    /\ \E s \in Sas : life[s] = "connecting"
    /\ stage[w] = "none"
    /\ stage' = [stage EXCEPT ![w] = "watching"]
    /\ watched' = [watched EXCEPT ![w] = n]
    /\ UNCHANGED <<life, peer, doubts>>

Reassures(w) ==
    /\ stage[w] = "watching"
    /\ doubts' = [doubts EXCEPT ![w] = 0]
    /\ UNCHANGED <<life, peer, stage, watched>>

\* One more verdict that says nothing: the last that patience allows alarms.
Doubts(w) ==
    /\ stage[w] = "watching"
    /\ doubts' = [doubts EXCEPT ![w] = @ + 1]
    /\ stage' = [stage EXCEPT ![w] = IF doubts'[w] < Patience THEN "watching" ELSE "alarmed"]
    /\ UNCHANGED <<life, peer, watched>>

\* The NED is untrusted.
Condemns(w) ==
    /\ stage[w] = "watching"
    /\ stage' = [stage EXCEPT ![w] = "alarmed"]
    /\ doubts' = [doubts EXCEPT ![w] = 0]
    /\ UNCHANGED <<life, peer, watched>>

Ends(w) ==
    /\ stage[w] = "alarmed"
    /\ stage' = [stage EXCEPT ![w] = "ended"]
    /\ doubts' = [doubts EXCEPT ![w] = 0]
    /\ UNCHANGED <<life, peer, watched>>

Restarts ==
    /\ life' = [s \in Sas |-> "none"]
    /\ peer' = [s \in Sas |-> Nobody]
    /\ stage' = [w \in Watches |-> "none"]
    /\ watched' = [w \in Watches |-> Nobody]
    /\ doubts' = [w \in Watches |-> 0]

Next ==
    \/ \E s \in Sas :
         \/ \E n \in NEDs \cup {Nobody} : Connects(s, n)
         \/ Establishes(s) \/ Closes(s)
    \/ \E w \in Watches :
         \/ \E n \in NEDs : Vouches(w, n)
         \/ Reassures(w) \/ Doubts(w) \/ Condemns(w) \/ Ends(w)
    \/ Restarts

Spec == Init /\ [][Next]_vars
=============================================================================

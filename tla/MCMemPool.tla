---------------------------- MODULE MCMemPool ----------------------------
(***************************************************************************)
(* An instance of MemPool for TLC: four IKE_SAs of two clients, one of     *)
(* them at two hosts; a pool of two addresses and one of the last address  *)
(* of its network, 16/30 and 26/30.                                        *)
(***************************************************************************)
EXTENDS MemPool, TLC

CONSTANTS s1, s2, s3, s4, alice, bob, home, office

MCIdOf == [s \in Sas |-> IF s = s4 THEN bob ELSE alice]
MCHostOf == [s \in Sas |-> IF s \in {s1, s2} THEN home ELSE office]
MCPool == <<[base |-> 16, size |-> 2, base_is_network_id |-> TRUE],
            [base |-> 26, size |-> 1, base_is_network_id |-> FALSE]>>

\* Two IKE_SAs of one client at one host; the properties have no liveness.
MCSymmetry == Permutations({s1, s2})
===========================================================================

----------------------------- MODULE MCOatAttest -----------------------------
(* Small instances of OatAttest for TLC                                    *)
EXTENDS OatAttest, TLC

\* One certificate per peer, as the connections of ipsec.conf_example have
MCOneRound == {<<n>> : n \in NEDs}

\* Also peers with no certificate, and peers that authenticate twice
MCManyRounds == UNION {[1 .. n -> NEDs] : n \in 0 .. 2}

\* The NEDs are interchangeable: safety runs only
MCSymmetry == Permutations(NEDs)
=============================================================================

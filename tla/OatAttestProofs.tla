--------------------------- MODULE OatAttestProofs ---------------------------
(***************************************************************************)
(* Proofs about OatAttest, for every set of NEDs, every set of chains and  *)
(* every bound on IKE_SAs, rounds and worker threads: the invariants, and  *)
(* that the plugin implements WatchedPeers.                                *)
(***************************************************************************)
EXTENDS OatAttest, SequenceTheorems, TLAPS

-----------------------------------------------------------------------------
(* The inductive invariant                                                 *)

\* The thread that holds the mutex of the bus is authorising an IKE_SA that
\* is connecting, and its round is one of those its peer showed
AuthorizeInv ==
    /\ fetching => busOwner # NoSa
    /\ \A s \in SaIds : busOwner = s =>
         /\ saState[s] = "connecting"
         /\ round <= Len(chain[s]) + 1
         /\ fetching => round <= Len(chain[s])

\* What the counter of a job that has not alarmed knows of its verdicts: none
\* was untrusted, the last count[j] were unknown, the one before was trusted
Clean(l, c) ==
    /\ c < MaxUnknown
    /\ c <= Len(l)
    /\ \A i \in 1 .. Len(l) : l[i] # "untrusted"
    /\ \A i \in 1 .. Len(l) : i > Len(l) - c => l[i] = "unknown"
    /\ c < Len(l) => l[Len(l) - c] = "trusted"

CountInv ==
    \A j \in JobIds :
        /\ jobPc[j] \notin Alarmed => Clean(log[j], count[j])
        /\ jobPc[j] \in Alarmed => Distrusted(log[j])
        /\ jobPc[j] \in {"none", "queued", "ended"} =>
             log[j] = <<>> /\ count[j] = 0

\* Where a certificate can become known or an IKE_SA established, the verifier
\* has trusted the certificate, and a job was queued together with its answer
TrustInv ==
    /\ \A s \in SaIds : saState[s] = "none" => chain[s] = <<>>
    /\ \A j \in JobIds : answer[j] = "trusted" <=> jobPc[j] # "none"
    /\ \A j \in JobIds : answer[j] = "trusted" => Asked(j)
    /\ known \in TrustedNeds \cup {NoDigest}
    /\ knownRead \in TrustedNeds \cup {NoDigest}
    /\ AttestPeer => \A s \in SaIds :
         /\ busOwner = s /\ success /\ round > 1 =>
              chain[s][round - 1] \in TrustedNeds
         /\ saState[s] = "established" /\ chain[s] # <<>> =>
              LastCert(s) \in TrustedNeds

\* A round that is still to be checked has no job
FreshInv ==
    \A s \in SaIds : \A r \in 1 .. MaxRounds :
        /\ saState[s] \in {"none", "connecting"}
        /\ busOwner = s => round <= r
        => jobPc[<<s, r>>] = "none"

IInv == TypeOK /\ AuthorizeInv /\ CountInv /\ FreshInv /\ TrustInv

-----------------------------------------------------------------------------
(* Facts about the operators                                               *)

\* What the chain of an IKE_SA can be: used for Len and for its elements
LEMMA ChainType ==
    ASSUME NEW c \in Chains \cup {<<>>}
    PROVE  /\ c \in Seq(NEDs)
           /\ Len(c) \in 0 .. MaxRounds
  <1>1. ASSUME NEW d \in Chains
        PROVE  d \in Seq(NEDs) /\ Len(d) \in 0 .. MaxRounds
    BY ConstantsAssumption
  <1>2. <<>> \in Seq(NEDs) /\ Len(<<>>) \in 0 .. MaxRounds
    BY ConstantsAssumption
  <1>3. c \in Chains \/ c = <<>>
    OBVIOUS
  <1> QED BY <1>1, <1>2, <1>3

\* The verdicts a job remembers: the new one last, the old ones before it,
\* the oldest dropped when there are three
LEMMA RememberType ==
    ASSUME NEW l \in Seq(Verdicts), Len(l) <= MaxUnknown, NEW v \in Verdicts
    PROVE  /\ Remember(l, v) \in Seq(Verdicts)
           /\ Remember(l, v)[Len(Remember(l, v))] = v
           /\ \/ /\ Len(l) < MaxUnknown
                 /\ Len(Remember(l, v)) = Len(l) + 1
                 /\ \A i \in 1 .. Len(l) : Remember(l, v)[i] = l[i]
              \/ /\ Len(l) = MaxUnknown
                 /\ Len(Remember(l, v)) = MaxUnknown
                 /\ \A i \in 1 .. MaxUnknown - 1 : Remember(l, v)[i] = l[i + 1]
  <1>0. Len(l) \in Nat
    OBVIOUS
  <1>1. CASE Len(l) < MaxUnknown
    BY <1>1 DEF Remember, MaxUnknown
  <1>2. CASE Len(l) = MaxUnknown
    <2>1. l # <<>>
      <3>1. Len(<<>>) = 0 /\ Len(l) # 0
        BY <1>2 DEF MaxUnknown
      <3> QED BY <3>1
    <2>2. /\ Tail(l) \in Seq(Verdicts)
          /\ Len(Tail(l)) = Len(l) - 1
          /\ \A i \in 1 .. Len(Tail(l)) : Tail(l)[i] = l[i + 1]
      BY <2>1, HeadTailProperties
    <2>3. Remember(l, v) = Append(Tail(l), v)
      BY <1>2 DEF Remember
    <2> DEFINE t == Tail(l)
    <2>4. /\ t \in Seq(Verdicts)
          /\ Len(t) = MaxUnknown - 1
          /\ \A i \in 1 .. MaxUnknown - 1 : t[i] = l[i + 1]
      BY <1>2, <2>2
    <2> HIDE DEF t
    <2>5. /\ Append(t, v) \in Seq(Verdicts)
          /\ Len(Append(t, v)) = Len(t) + 1
          /\ Append(t, v)[Len(t) + 1] = v
          /\ \A i \in 1 .. Len(t) : Append(t, v)[i] = t[i]
      BY <2>4, AppendProperties
    <2>6. Remember(l, v) = Append(t, v)
      BY <2>3 DEF t
    <2> QED BY <1>2, <2>4, <2>5, <2>6 DEF MaxUnknown
  <1>3. Len(l) < MaxUnknown \/ Len(l) = MaxUnknown
    BY <1>0 DEF MaxUnknown
  <1> QED BY <1>1, <1>2, <1>3

\* The condition of the loop goes on exactly as long as the verdicts are clean
LEMMA CountDecides ==
    ASSUME NEW l \in Seq(Verdicts), Len(l) <= MaxUnknown,
           NEW c \in Nat, Clean(l, c), NEW v \in Verdicts,
           NEW d, d = IF v = "unknown" THEN c + 1 ELSE 0
    PROVE  /\ v # "untrusted" /\ d < MaxUnknown => Clean(Remember(l, v), d)
           /\ v = "untrusted" \/ d >= MaxUnknown => Distrusted(Remember(l, v))
  <1> DEFINE m == Remember(l, v)
  <1>1. /\ m \in Seq(Verdicts)
        /\ m[Len(m)] = v
        /\ \/ /\ Len(l) < MaxUnknown
              /\ Len(m) = Len(l) + 1
              /\ \A i \in 1 .. Len(l) : m[i] = l[i]
           \/ /\ Len(l) = MaxUnknown
              /\ Len(m) = MaxUnknown
              /\ \A i \in 1 .. MaxUnknown - 1 : m[i] = l[i + 1]
    BY RememberType
  <1>2. Len(l) \in Nat /\ Len(m) \in Nat
    BY <1>1
  <1> HIDE DEF m
  <1>3. ASSUME v # "untrusted", d < MaxUnknown PROVE Clean(m, d)
    BY <1>1, <1>2, <1>3 DEF Clean, MaxUnknown, Verdicts
  <1>4. ASSUME v = "untrusted" PROVE Distrusted(m)
    BY <1>1, <1>2, <1>4 DEF Distrusted, MaxUnknown
  <1>5. ASSUME v # "untrusted", d >= MaxUnknown PROVE Distrusted(m)
    <2>1. v = "unknown" /\ c = 2
      <3>1. v = "unknown" /\ d = c + 1
        BY <1>5 DEF MaxUnknown
      <3>2. c < 3
        BY DEF Clean, MaxUnknown
      <3> QED BY <1>5, <3>1, <3>2 DEF MaxUnknown
    <2>2. Len(l) = 2 \/ Len(l) = 3
      <3> DEFINE k == Len(l)
      <3>1. k \in Nat /\ 2 <= k /\ k <= 3
        BY <1>2, <2>1 DEF Clean, MaxUnknown
      <3> HIDE DEF k
      <3>2. k = 2 \/ k = 3
        BY <3>1
      <3> QED BY <3>2 DEF k
    <2>3. \A i \in 1 .. Len(l) : i > Len(l) - 2 => l[i] = "unknown"
      BY <2>1 DEF Clean
    <2>4. Len(m) = 3
      <3>1. CASE Len(l) = 2
        BY <1>1, <3>1 DEF MaxUnknown
      <3>2. CASE Len(l) = 3
        BY <1>1, <3>2 DEF MaxUnknown
      <3> QED BY <2>2, <3>1, <3>2
    <2>5. m[3] = "unknown"
      <3>1. m[Len(m)] = v
        BY <1>1
      <3> QED BY <2>1, <2>4, <3>1
    <2>6. m[1] = "unknown" /\ m[2] = "unknown"
      <3>1. CASE Len(l) = 2
        <4>1. l[1] = "unknown" /\ l[2] = "unknown"
          BY <2>3, <3>1
        <4>2. m[1] = l[1] /\ m[2] = l[2]
          BY <1>1, <3>1 DEF MaxUnknown
        <4> QED BY <4>1, <4>2
      <3>2. CASE Len(l) = 3
        <4>1. l[2] = "unknown" /\ l[3] = "unknown"
          BY <2>3, <3>2
        <4>2. m[1] = l[2] /\ m[2] = l[3]
          BY <1>1, <3>2 DEF MaxUnknown
        <4> QED BY <4>1, <4>2
      <3> QED BY <2>2, <3>1, <3>2
    <2> QED BY <1>1, <2>4, <2>5, <2>6 DEF Distrusted, MaxUnknown
  <1> QED BY <1>3, <1>4, <1>5 DEF m

\* Clean verdicts are no reason to alarm
LEMMA CleanNotDistrusted ==
    ASSUME NEW l \in Seq(Verdicts), NEW c \in Nat, Clean(l, c)
    PROVE  ~Distrusted(l)
  <1>1. /\ c < MaxUnknown /\ c <= Len(l)
        /\ \A i \in 1 .. Len(l) : l[i] # "untrusted"
        /\ c < Len(l) => l[Len(l) - c] = "trusted"
    BY DEF Clean
  <1>2. Len(l) \in Nat /\ DOMAIN l = 1 .. Len(l)
    OBVIOUS
  <1>3. ~ \E i \in DOMAIN l : l[i] = "untrusted"
    BY <1>1, <1>2
  <1>4. ASSUME Len(l) = MaxUnknown, \A i \in DOMAIN l : l[i] = "unknown"
        PROVE  FALSE
    <2>1. Len(l) - c \in DOMAIN l /\ c < Len(l)
      BY <1>1, <1>2, <1>4 DEF MaxUnknown
    <2>2. l[Len(l) - c] = "trusted"
      BY <2>1, <1>1
    <2>3. l[Len(l) - c] = "unknown"
      BY <2>1, <1>4
    <2> QED BY <2>2, <2>3
  <1> QED BY <1>3, <1>4 DEF Distrusted

\* Jobs are named by an IKE_SA and a round of it
LEMMA JobType ==
    ASSUME NEW s \in SaIds, NEW r \in 1 .. MaxRounds
    PROVE  <<s, r>> \in JobIds
    BY DEF JobIds

-----------------------------------------------------------------------------
(* The initial states, which are also those after a restart                *)

\* A restart of charon leaves it where a start does
LEMMA RestartIsInit == CharonRestarts => Init'
    BY DEF CharonRestarts, MemoryLost, Init

\* The invariant holds when charon starts
LEMMA InitIInv == Init => IInv
  <1> SUFFICES ASSUME Init PROVE IInv
    OBVIOUS
  <1> USE DEF Init, Start, NoSa
  <1>1. TypeOK
    <2>1. saState \in [SaIds -> SaStates]
      BY DEF SaStates
    <2>2. chain \in [SaIds -> Chains \cup {<<>>}]
      OBVIOUS
    <2>3. round \in 1 .. MaxRounds + 1
      BY ConstantsAssumption
    <2>4. answer \in [JobIds -> {"notasked", "trusted", "doubted"}]
      OBVIOUS
    <2>5. jobPc \in [JobIds -> JobPcs] /\ count \in [JobIds -> 0 .. MaxUnknown]
      BY DEF JobPcs, MaxUnknown
    <2>6. log \in [JobIds -> Seq(Verdicts)]
      OBVIOUS
    <2>7. \A j \in JobIds : Len(log[j]) <= MaxUnknown
      BY DEF MaxUnknown
    <2>8. target \in [JobIds -> SaIds \cup {NoSa}]
      OBVIOUS
    <2> QED BY <2>1, <2>2, <2>3, <2>4, <2>5, <2>6, <2>7, <2>8 DEF TypeOK
  <1>2. AuthorizeInv
    BY DEF AuthorizeInv, SaIds
  <1>3. CountInv
    BY DEF CountInv, Clean, Alarmed, MaxUnknown
  <1>4. FreshInv
    BY DEF FreshInv, JobIds
  <1>5. TrustInv
    BY DEF TrustInv, SaIds
  <1> QED BY <1>1, <1>2, <1>3, <1>4, <1>5 DEF IInv

\* ... and after each restart
LEMMA RestartIInv == CharonRestarts => IInv'
    BY RestartIsInit, InitIInv, PTL

-----------------------------------------------------------------------------
(* The IKE layer                                                           *)

\* An IKE_SA that comes or goes keeps each part of the invariant
LEMMA IkeTypeOK ==
    ASSUME IInv, NEW s \in SaIds, IkeStep(s)
    PROVE  TypeOK'
  <1> USE DEF IInv, TypeOK, SaStates
  <1>1. ASSUME NEW c \in Chains, Initiate(s, c) PROVE TypeOK'
    BY <1>1 DEF Initiate, busVars, jobVars
  <1>2. CASE SaCloses(s)
    BY <1>2 DEF SaCloses, busVars, jobVars
  <1> QED BY <1>1, <1>2 DEF IkeStep

\* ... the thread in authorize() still has an IKE_SA that is connecting: no
\* IKE_SA closes while the mutex of the bus is held
LEMMA IkeAuthorizeInv ==
    ASSUME IInv, NEW s \in SaIds, IkeStep(s)
    PROVE  AuthorizeInv'
  <1> USE DEF IInv, TypeOK, AuthorizeInv
  <1>1. ASSUME NEW c \in Chains, Initiate(s, c) PROVE AuthorizeInv'
    BY <1>1 DEF Initiate, busVars, jobVars
  <1>2. CASE SaCloses(s)
    BY <1>2 DEF SaCloses, busVars, jobVars, SaIds, NoSa
  <1> QED BY <1>1, <1>2 DEF IkeStep

\* ... the jobs are not touched
LEMMA IkeCountInv ==
    ASSUME IInv, NEW s \in SaIds, IkeStep(s)
    PROVE  CountInv'
    BY DEF IInv, CountInv, IkeStep, Initiate, SaCloses, busVars, jobVars

\* ... a new IKE_SA has no jobs
LEMMA IkeFreshInv ==
    ASSUME IInv, NEW s \in SaIds, IkeStep(s)
    PROVE  FreshInv'
  <1> USE DEF IInv, TypeOK, FreshInv
  <1>1. ASSUME NEW c \in Chains, Initiate(s, c) PROVE FreshInv'
    BY <1>1 DEF Initiate, busVars, jobVars
  <1>2. CASE SaCloses(s)
    BY <1>2 DEF SaCloses, busVars, jobVars
  <1> QED BY <1>1, <1>2 DEF IkeStep

\* A certificate once trusted stays trusted in a step that keeps the answers
\* and the chains they are about
LEMMA TrustedNedsKept ==
    ASSUME \A j \in JobIds : Asked(j) /\ answer[j] = "trusted" =>
             chain'[j[1]] = chain[j[1]] /\ answer'[j] = "trusted"
    PROVE  TrustedNeds \subseteq TrustedNeds'
    BY DEF TrustedNeds, Asked, NedOf

\* ... the chain of a new IKE_SA is not one that an answer is about
LEMMA IkeTrustInv ==
    ASSUME IInv, NEW s \in SaIds, IkeStep(s)
    PROVE  TrustInv'
  <1> USE DEF IInv, TypeOK
  <1>1. ASSUME NEW c \in Chains, Initiate(s, c) PROVE TrustInv'
    <2> USE <1>1 DEF Initiate, busVars, jobVars
    <2>1. chain[s] = <<>>
      BY DEF TrustInv
    <2>2. \A j \in JobIds : Asked(j) => j[1] # s
      BY <2>1 DEF Asked, JobIds
    <2>3. \A j \in JobIds : j[1] # s => chain'[j[1]] = chain[j[1]]
      BY DEF JobIds
    <2>4. TrustedNeds \subseteq TrustedNeds'
      BY <2>2, <2>3, TrustedNedsKept
    <2>5. \A t \in SaIds : t # s =>
            chain'[t] = chain[t] /\ saState'[t] = saState[t]
      OBVIOUS
    <2>6. saState'[s] = "connecting" /\ saState[s] = "none"
      OBVIOUS
    <2>7. \A t \in SaIds : busOwner = t => t # s
      BY <2>6 DEF AuthorizeInv
    <2>8. \A t \in SaIds : saState'[t] = "none" => chain'[t] = <<>>
      BY <2>5, <2>6 DEF TrustInv
    <2>9. \A j \in JobIds : answer'[j] = "trusted" <=> jobPc'[j] # "none"
      BY DEF TrustInv
    <2>10. \A j \in JobIds : answer'[j] = "trusted" => Asked(j)'
      BY <2>2, <2>3 DEF TrustInv, Asked
    <2>11. /\ known' \in TrustedNeds' \cup {NoDigest}
           /\ knownRead' \in TrustedNeds' \cup {NoDigest}
      BY <2>4 DEF TrustInv
    <2>12. ASSUME AttestPeer, NEW t \in SaIds, busOwner' = t, success', round' > 1
           PROVE  chain'[t][round' - 1] \in TrustedNeds'
      BY <2>4, <2>5, <2>7, <2>12 DEF TrustInv
    <2>13. ASSUME AttestPeer, NEW t \in SaIds, saState'[t] = "established",
                  chain'[t] # <<>>
           PROVE  LastCert(t)' \in TrustedNeds'
      BY <2>4, <2>5, <2>6, <2>13 DEF TrustInv, LastCert
    <2> QED BY <2>8, <2>9, <2>10, <2>11, <2>12, <2>13 DEF TrustInv
  <1>2. CASE SaCloses(s)
    <2> USE <1>2 DEF SaCloses, busVars, jobVars
    <2>1. TrustedNeds' = TrustedNeds /\ \A j \in JobIds : Asked(j)' <=> Asked(j)
      BY DEF TrustedNeds, Asked, NedOf
    <2>2. \A t \in SaIds : /\ saState'[t] = "established" => saState[t] = "established"
                           /\ saState'[t] = "none" => saState[t] = "none"
                           /\ LastCert(t)' = LastCert(t)
      BY DEF LastCert
    <2> QED BY <2>1, <2>2 DEF TrustInv
  <1> QED BY <1>1, <1>2 DEF IkeStep

-----------------------------------------------------------------------------
(* The authorize hook                                                      *)

\* A step of authorize() keeps the variables to their values
LEMMA AuthorizeTypeOK ==
    ASSUME IInv, NEW s \in SaIds, AuthorizeStep(s)
    PROVE  TypeOK'
  <1> USE ConstantsAssumption DEF IInv, TypeOK, AuthorizeInv
  <1>0. chain[s] \in Seq(NEDs) /\ Len(chain[s]) \in 0 .. MaxRounds
    BY ChainType
  <1>1. CASE AuthorizeBegin(s)
    <2>1. round' \in 1 .. MaxRounds + 1
      BY <1>0, <1>1 DEF AuthorizeBegin
    <2> QED BY <1>1, <2>1 DEF AuthorizeBegin, jobVars
  <1>2. CASE AuthorizeKnown(s)
    <2>1. round' \in 1 .. MaxRounds + 1
      BY <1>0, <1>2 DEF AuthorizeKnown
    <2> QED BY <1>2, <2>1 DEF AuthorizeKnown, jobVars
  <1>3. CASE AuthorizeRequest(s)
    BY <1>3 DEF AuthorizeRequest, jobVars
  <1>4. CASE AuthorizeTrusted(s)
    <2>1. round \in 1 .. Len(chain[s])
      BY <1>0, <1>4 DEF AuthorizeTrusted
    <2>2. known' \in NEDs /\ round' \in 1 .. MaxRounds + 1
      BY <1>0, <1>4, <2>1 DEF AuthorizeTrusted
    <2>3. jobPc' \in [JobIds -> JobPcs]
      BY <1>4 DEF AuthorizeTrusted, JobPcs
    <2>4. answer' \in [JobIds -> {"notasked", "trusted", "doubted"}]
      BY <1>4 DEF AuthorizeTrusted
    <2> QED BY <1>4, <2>2, <2>3, <2>4 DEF AuthorizeTrusted
  <1>5. CASE AuthorizeDoubted(s)
    <2>1. round' \in 1 .. MaxRounds + 1
      BY <1>0, <1>5 DEF AuthorizeDoubted
    <2>2. answer' \in [JobIds -> {"notasked", "trusted", "doubted"}]
      BY <1>5 DEF AuthorizeDoubted
    <2> QED BY <1>5, <2>1, <2>2 DEF AuthorizeDoubted, jobVars
  <1>6. CASE AuthorizeEnd(s)
    <2>1. saState' \in [SaIds -> SaStates]
      BY <1>6 DEF AuthorizeEnd, SaStates
    <2> QED BY <1>6, <2>1 DEF AuthorizeEnd, jobVars
  <1> QED BY <1>1, <1>2, <1>3, <1>4, <1>5, <1>6 DEF AuthorizeStep

\* ... the round stays within the chain
LEMMA AuthorizeAuthorizeInv ==
    ASSUME IInv, NEW s \in SaIds, AuthorizeStep(s)
    PROVE  AuthorizeInv'
  <1> USE ConstantsAssumption DEF IInv, TypeOK, AuthorizeInv, SaIds, NoSa
  <1>0. chain[s] \in Seq(NEDs) /\ Len(chain[s]) \in 0 .. MaxRounds
    BY ChainType
  <1>1. CASE AuthorizeBegin(s)
    BY <1>0, <1>1 DEF AuthorizeBegin
  <1>2. CASE AuthorizeKnown(s)
    BY <1>0, <1>2 DEF AuthorizeKnown
  <1>3. CASE AuthorizeRequest(s)
    BY <1>0, <1>3 DEF AuthorizeRequest
  <1>4. CASE AuthorizeTrusted(s)
    BY <1>0, <1>4 DEF AuthorizeTrusted
  <1>5. CASE AuthorizeDoubted(s)
    BY <1>0, <1>5 DEF AuthorizeDoubted
  <1>6. CASE AuthorizeEnd(s)
    BY <1>0, <1>6 DEF AuthorizeEnd
  <1> QED BY <1>1, <1>2, <1>3, <1>4, <1>5, <1>6 DEF AuthorizeStep

\* ... the round whose job is queued is left behind
LEMMA AuthorizeFreshInv ==
    ASSUME IInv, NEW s \in SaIds, AuthorizeStep(s)
    PROVE  FreshInv'
  <1> USE DEF IInv, TypeOK, AuthorizeInv, FreshInv, SaIds, NoSa
  <1>1. CASE AuthorizeBegin(s)
    BY <1>1 DEF AuthorizeBegin, jobVars
  <1>2. CASE AuthorizeKnown(s)
    BY <1>2 DEF AuthorizeKnown, jobVars
  <1>3. CASE AuthorizeRequest(s)
    BY <1>3 DEF AuthorizeRequest, jobVars
  <1>4. CASE AuthorizeTrusted(s)
    <2>1. ASSUME NEW t \in SaIds, NEW r \in 1 .. MaxRounds, <<t, r>> # <<s, round>>
          PROVE  jobPc'[<<t, r>>] = jobPc[<<t, r>>]
      BY <1>4, <2>1, JobType DEF AuthorizeTrusted
    <2> QED BY <1>4, <2>1 DEF AuthorizeTrusted
  <1>5. CASE AuthorizeDoubted(s)
    BY <1>5 DEF AuthorizeDoubted, jobVars
  <1>6. CASE AuthorizeEnd(s)
    BY <1>6 DEF AuthorizeEnd, jobVars
  <1> QED BY <1>1, <1>2, <1>3, <1>4, <1>5, <1>6 DEF AuthorizeStep

\* The job that is queued is a new one: it has counted nothing
LEMMA AuthorizeCountInv ==
    ASSUME IInv, NEW s \in SaIds, AuthorizeStep(s)
    PROVE  CountInv'
  <1> USE DEF IInv, TypeOK, CountInv
  <1>1. CASE AuthorizeTrusted(s)
    <2>1. round \in 1 .. MaxRounds
      BY <1>1, ChainType, ConstantsAssumption DEF AuthorizeTrusted, AuthorizeInv
    <2>2. jobPc[<<s, round>>] = "none" /\ <<s, round>> \in JobIds
      BY <1>1, <2>1, JobType DEF AuthorizeTrusted, AuthorizeInv, FreshInv
    <2>3. log' = log /\ count' = count
      BY <1>1 DEF AuthorizeTrusted
    <2>4. \A j \in JobIds : j # <<s, round>> => jobPc'[j] = jobPc[j]
      BY <1>1 DEF AuthorizeTrusted
    <2>5. jobPc'[<<s, round>>] = "queued"
      BY <1>1, <2>2 DEF AuthorizeTrusted
    <2> QED BY <2>2, <2>3, <2>4, <2>5 DEF Alarmed
  <1>2. CASE ~AuthorizeTrusted(s)
    <2>1. UNCHANGED jobVars
      BY <1>2 DEF AuthorizeStep, AuthorizeBegin, AuthorizeKnown,
            AuthorizeRequest, AuthorizeDoubted, AuthorizeEnd
    <2> QED BY <2>1 DEF jobVars
  <1> QED BY <1>1, <1>2

\* ... what becomes known, or lets an IKE_SA in, has been trusted
LEMMA AuthorizeTrustInv ==
    ASSUME IInv, NEW s \in SaIds, AuthorizeStep(s)
    PROVE  TrustInv'
  <1> USE DEF IInv, TypeOK
  <1>0. chain[s] \in Seq(NEDs) /\ Len(chain[s]) \in 0 .. MaxRounds
    BY ChainType
  <1>a. UNCHANGED chain
    BY DEF AuthorizeStep, AuthorizeBegin, AuthorizeKnown, AuthorizeRequest,
           AuthorizeTrusted, AuthorizeDoubted, AuthorizeEnd
  <1>b. \A j \in JobIds : Asked(j)' <=> Asked(j)
    BY <1>a DEF Asked
  <1>1. CASE AuthorizeBegin(s)
    <2> USE <1>1 DEF AuthorizeBegin, jobVars
    <2>1. TrustedNeds' = TrustedNeds
      BY DEF TrustedNeds, Asked, NedOf
    <2>2. AttestPeer => round' = 1
      OBVIOUS
    <2> QED BY <1>b, <2>1, <2>2 DEF TrustInv, LastCert
  <1>2. CASE AuthorizeKnown(s)
    <2> USE <1>2 DEF AuthorizeKnown, jobVars
    <2>1. TrustedNeds' = TrustedNeds
      BY DEF TrustedNeds, Asked, NedOf
    <2>2. round \in 1 .. Len(chain[s])
      BY <1>0, ConstantsAssumption
    <2>3. chain[s][round] \in NEDs
      BY <1>0, <2>2
    <2>4. chain[s][round] \in TrustedNeds
      BY <2>3, ConstantsAssumption DEF TrustInv
    <2>5. round' - 1 = round
      BY <2>2
    <2>6. \A t \in SaIds : busOwner' = t => t = s
      OBVIOUS
    <2>7. ASSUME AttestPeer, NEW t \in SaIds, busOwner' = t
          PROVE  chain'[t][round' - 1] \in TrustedNeds'
      BY <1>a, <2>1, <2>4, <2>5, <2>6, <2>7
    <2> QED BY <1>a, <1>b, <2>1, <2>7 DEF TrustInv, LastCert
  <1>3. CASE AuthorizeRequest(s)
    <2> USE <1>3 DEF AuthorizeRequest, jobVars
    <2>1. TrustedNeds' = TrustedNeds
      BY DEF TrustedNeds, Asked, NedOf
    <2> QED BY <1>b, <2>1 DEF TrustInv, LastCert
  <1>4. CASE AuthorizeTrusted(s)
    <2> USE <1>4 DEF AuthorizeTrusted
    <2>1. round \in 1 .. Len(chain[s]) /\ round \in 1 .. MaxRounds
      BY <1>0, ConstantsAssumption DEF AuthorizeInv
    <2>2. PICK k \in JobIds : k = <<s, round>>
      BY <2>1, JobType
    <2>3. k[1] = s /\ k[2] = round
      BY <2>2
    <2>4. answer' = [answer EXCEPT ![k] = "trusted"]
          /\ jobPc' = [jobPc EXCEPT ![k] = "queued"]
      BY <2>2
    <2>5. TrustedNeds \subseteq TrustedNeds'
      BY <1>a, <2>2, <2>4, TrustedNedsKept
    <2>6. Asked(k)'
      BY <1>a, <2>1, <2>3 DEF Asked
    <2>7. NedOf(k)' \in TrustedNeds'
      BY <2>2, <2>4, <2>6 DEF TrustedNeds
    <2>8. chain[s][round] \in TrustedNeds'
      BY <1>a, <2>3, <2>7 DEF NedOf
    <2>9. \A j \in JobIds : answer'[j] = "trusted" <=> jobPc'[j] # "none"
      BY <2>2, <2>4 DEF TrustInv
    <2>10. \A j \in JobIds : answer'[j] = "trusted" => Asked(j)'
      BY <1>b, <2>2, <2>4, <2>6 DEF TrustInv
    <2>11. round' - 1 = round
      BY <2>1
    <2>12. ASSUME NEW t \in SaIds, busOwner' = t
           PROVE  chain'[t][round' - 1] \in TrustedNeds'
      BY <1>a, <2>8, <2>11, <2>12
    <2>13. ASSUME AttestPeer, NEW t \in SaIds, saState'[t] = "established",
                  chain'[t] # <<>>
           PROVE  LastCert(t)' \in TrustedNeds'
      BY <1>a, <2>5, <2>13 DEF TrustInv, LastCert
    <2>14. /\ known' \in TrustedNeds' \cup {NoDigest}
           /\ knownRead' \in TrustedNeds' \cup {NoDigest}
      BY <2>5, <2>8 DEF TrustInv
    <2>15. \A t \in SaIds : saState'[t] = "none" => chain'[t] = <<>>
      BY <1>a DEF TrustInv
    <2> QED BY <2>9, <2>10, <2>12, <2>13, <2>14, <2>15 DEF TrustInv
  <1>5. CASE AuthorizeDoubted(s)
    <2> USE <1>5 DEF AuthorizeDoubted, jobVars
    <2>1. round \in 1 .. MaxRounds
      BY <1>0, ConstantsAssumption DEF AuthorizeInv
    <2> DEFINE k == <<s, round>>
    <2>2. k \in JobIds /\ jobPc[k] = "none"
      BY <2>1, JobType DEF AuthorizeInv, FreshInv
    <2>3. answer[k] # "trusted" /\ answer' = [answer EXCEPT ![k] = "doubted"]
      BY <2>2 DEF TrustInv
    <2> HIDE DEF k
    <2>4. \A j \in JobIds : answer'[j] = "trusted" <=> answer[j] = "trusted"
      BY <2>2, <2>3
    <2>5. TrustedNeds' = TrustedNeds
      BY <1>a, <2>4 DEF TrustedNeds, Asked, NedOf
    <2> QED BY <1>a, <1>b, <2>4, <2>5 DEF TrustInv, LastCert
  <1>6. CASE AuthorizeEnd(s)
    <2> USE <1>6 DEF AuthorizeEnd, jobVars
    <2>1. TrustedNeds' = TrustedNeds
      BY DEF TrustedNeds, Asked, NedOf
    <2>2. ASSUME AttestPeer, chain[s] # <<>>, success
          PROVE  LastCert(s) \in TrustedNeds
      <3>1. Len(chain[s]) > 0
        BY <1>0, <2>2, EmptySeq
      <3>2. round - 1 = Len(chain[s]) /\ round > 1
        BY <1>0, <3>1, ConstantsAssumption DEF AuthorizeInv
      <3> QED BY <2>2, <3>2 DEF TrustInv, LastCert
    <2>3. \A t \in SaIds : t # s => saState'[t] = saState[t]
      OBVIOUS
    <2>4. saState'[s] = IF success THEN "established" ELSE "closed"
      OBVIOUS
    <2>5. ASSUME AttestPeer, NEW t \in SaIds, saState'[t] = "established",
                  chain'[t] # <<>>
           PROVE  LastCert(t)' \in TrustedNeds'
      BY <1>a, <2>1, <2>2, <2>3, <2>4, <2>5 DEF TrustInv, LastCert
    <2>6. \A t \in SaIds : saState'[t] = "none" => chain'[t] = <<>>
      BY <1>a, <2>3, <2>4 DEF TrustInv
    <2>7. \A t \in SaIds : busOwner' # t
      BY DEF SaIds, NoSa
    <2> QED BY <1>b, <2>1, <2>5, <2>6, <2>7 DEF TrustInv
  <1> QED BY <1>1, <1>2, <1>3, <1>4, <1>5, <1>6 DEF AuthorizeStep

-----------------------------------------------------------------------------
(* The monitoring jobs                                                     *)

\* A step of a job keeps the variables to their values
LEMMA JobTypeOK ==
    ASSUME IInv, NEW j \in JobIds, JobRuns(j) \/ UserAnswers(j)
    PROVE  TypeOK'
  <1> USE ConstantsAssumption DEF IInv, TypeOK, busVars
  <1>1. CASE JobStarts(j)
    BY <1>1 DEF JobStarts, JobPcs
  <1>2. CASE JobWakes(j)
    BY <1>2 DEF JobWakes, JobPcs
  <1>3. ASSUME NEW v \in Verdicts, JobVerdict(j, v) PROVE TypeOK'
    <2>1. Clean(log[j], count[j])
      BY <1>3 DEF JobVerdict, CountInv, Alarmed
    <2>2. Asked(j) /\ jobPc[j] = "fetch"
      BY <1>3 DEF JobVerdict, TrustInv
    <2>3. NedOf(j) \in NEDs
      <3>1. j[1] \in SaIds /\ j[2] \in 1 .. MaxRounds
        BY DEF JobIds
      <3>2. chain[j[1]] \in Seq(NEDs) /\ Len(chain[j[1]]) \in Nat
        BY <3>1, ChainType
      <3> QED BY <2>2, <3>1, <3>2 DEF Asked, NedOf
    <2>4. known' \in NEDs \cup {NoDigest}
      BY <1>3, <2>3 DEF JobVerdict
    <2>5. Unknowns(j, v) \in 0 .. MaxUnknown
      <3>1. count[j] \in 0 .. 2
        BY <2>1 DEF Clean, MaxUnknown
      <3> QED BY <3>1 DEF Unknowns, MaxUnknown
    <2>6. count' \in [JobIds -> 0 .. MaxUnknown]
      BY <1>3, <2>5 DEF JobVerdict
    <2>7. Remember(log[j], v) \in Seq(Verdicts)
          /\ Len(Remember(log[j], v)) <= MaxUnknown
      <3> DEFINE n == Len(log[j])
                 m == Len(Remember(log[j], v))
      <3>1. n \in Nat
        OBVIOUS
      <3>2. /\ Remember(log[j], v) \in Seq(Verdicts)
            /\ (n < MaxUnknown /\ m = n + 1) \/ m = MaxUnknown
        BY RememberType
      <3>3. m \in Nat
        BY <3>2
      <3> HIDE DEF n, m
      <3>4. m <= MaxUnknown
        BY <3>1, <3>2, <3>3 DEF MaxUnknown
      <3> QED BY <3>2, <3>4 DEF m
    <2>8. log' \in [JobIds -> Seq(Verdicts)]
          /\ \A k \in JobIds : Len(log'[k]) <= MaxUnknown
      BY <1>3, <2>7 DEF JobVerdict
    <2>9. jobPc' \in [JobIds -> JobPcs]
      BY <1>3 DEF JobVerdict, JobPcs
    <2> QED BY <1>3, <2>4, <2>6, <2>8, <2>9 DEF JobVerdict
  <1>4. CASE TerminateFound(j)
    BY <1>4 DEF TerminateFound, JobPcs, SaStates, SaIds, NoSa
  <1>5. CASE TerminateNotFound(j)
    BY <1>5 DEF TerminateNotFound, JobPcs, NoSa
  <1>6. CASE JobFrees(j)
    <2>1. count' \in [JobIds -> 0 .. MaxUnknown]
      BY <1>6 DEF JobFrees, MaxUnknown
    <2>2. log' \in [JobIds -> Seq(Verdicts)]
      BY <1>6 DEF JobFrees
    <2>3. \A k \in JobIds : Len(log'[k]) <= MaxUnknown
      BY <1>6 DEF JobFrees, MaxUnknown
    <2> QED BY <1>6, <2>1, <2>2, <2>3 DEF JobFrees, JobPcs
  <1>7. CASE UserKeeps(j)
    BY <1>7 DEF UserKeeps, JobPcs
  <1>8. CASE UserCloses(j)
    BY <1>8 DEF UserCloses, JobPcs, NoSa
  <1> QED BY <1>1, <1>2, <1>3, <1>4, <1>5, <1>6, <1>7, <1>8
          DEF JobRuns, UserAnswers

\* ... terminate_ike waits for the mutex, so authorize() keeps its IKE_SA
LEMMA JobAuthorizeInv ==
    ASSUME IInv, NEW j \in JobIds, JobRuns(j) \/ UserAnswers(j)
    PROVE  AuthorizeInv'
  <1> USE DEF IInv, TypeOK, AuthorizeInv, busVars
  <1>1. CASE TerminateFound(j)
    BY <1>1 DEF TerminateFound, SaIds, NoSa
  <1>2. CASE ~TerminateFound(j)
    BY <1>2 DEF JobRuns, UserAnswers, JobStarts, JobWakes, JobVerdict,
         TerminateNotFound, JobFrees, UserKeeps, UserCloses
  <1> QED BY <1>1, <1>2

\* ... the counter goes on telling what the verdicts were
LEMMA JobCountInv ==
    ASSUME IInv, NEW j \in JobIds, JobRuns(j) \/ UserAnswers(j)
    PROVE  CountInv'
  <1> USE DEF IInv, TypeOK
  <1>1. ASSUME NEW k \in JobIds, k # j
        PROVE  jobPc'[k] = jobPc[k] /\ log'[k] = log[k] /\ count'[k] = count[k]
    BY <1>1 DEF JobRuns, UserAnswers, JobStarts, JobWakes, JobVerdict,
         TerminateFound, TerminateNotFound, JobFrees, UserKeeps, UserCloses
  <1> DEFINE Counted ==
          /\ jobPc'[j] \notin Alarmed => Clean(log'[j], count'[j])
          /\ jobPc'[j] \in Alarmed => Distrusted(log'[j])
          /\ jobPc'[j] \in {"none", "queued", "ended"} =>
               log'[j] = <<>> /\ count'[j] = 0
  <1>2. SUFFICES Counted
    BY <1>1 DEF CountInv
  <1>3. CASE JobStarts(j) \/ JobWakes(j)
    BY <1>3 DEF JobStarts, JobWakes, CountInv, Alarmed
  <1>4. ASSUME NEW v \in Verdicts, JobVerdict(j, v) PROVE Counted
    <2>1. Clean(log[j], count[j])
      BY <1>4 DEF JobVerdict, CountInv, Alarmed
    <2>2. /\ v # "untrusted" /\ Unknowns(j, v) < MaxUnknown =>
               Clean(Remember(log[j], v), Unknowns(j, v))
          /\ v = "untrusted" \/ Unknowns(j, v) >= MaxUnknown =>
               Distrusted(Remember(log[j], v))
      BY <2>1, CountDecides DEF Unknowns
    <2>3. /\ jobPc'[j] = IF Continues(j, v) THEN "sleep" ELSE "prompt"
          /\ log'[j] = Remember(log[j], v)
          /\ count'[j] = Unknowns(j, v)
      BY <1>4 DEF JobVerdict
    <2>4. Unknowns(j, v) \in Nat
      BY DEF Unknowns
    <2>5. CASE Continues(j, v)
      BY <2>2, <2>3, <2>5 DEF Continues, Alarmed
    <2>6. CASE ~Continues(j, v)
      <3>1. v = "untrusted" \/ Unknowns(j, v) >= MaxUnknown
        BY <2>4, <2>6 DEF Continues, MaxUnknown
      <3> QED BY <2>2, <2>3, <2>6, <3>1 DEF Alarmed
    <2> QED BY <2>5, <2>6
  <1>5. CASE TerminateFound(j) \/ TerminateNotFound(j) \/ UserAnswers(j)
    BY <1>5 DEF TerminateFound, TerminateNotFound, UserAnswers, UserKeeps,
         UserCloses, CountInv, Alarmed
  <1>6. CASE JobFrees(j)
    BY <1>6 DEF JobFrees, Clean, Alarmed, MaxUnknown
  <1> QED BY <1>3, <1>4, <1>5, <1>6 DEF JobRuns

\* ... a job that was never queued takes none
LEMMA JobFreshInv ==
    ASSUME IInv, NEW j \in JobIds, JobRuns(j) \/ UserAnswers(j)
    PROVE  FreshInv'
  <1> USE DEF IInv, TypeOK
  <1>1. \A k \in JobIds : jobPc[k] = "none" => jobPc'[k] = "none"
    BY DEF JobRuns, UserAnswers, JobStarts, JobWakes, JobVerdict,
           TerminateFound, TerminateNotFound, JobFrees, UserKeeps, UserCloses
  <1>2. /\ \A s \in SaIds : saState'[s] \in {"none", "connecting"} =>
                            saState[s] \in {"none", "connecting"}
        /\ busOwner' = busOwner /\ round' = round
    BY DEF JobRuns, UserAnswers, JobStarts, JobWakes, JobVerdict, busVars,
           TerminateFound, TerminateNotFound, JobFrees, UserKeeps, UserCloses
  <1> QED BY <1>1, <1>2, JobType DEF FreshInv

\* A job that sets the known certificate was queued with the answer that
\* trusted it
LEMMA JobTrustInv ==
    ASSUME IInv, NEW j \in JobIds, JobRuns(j) \/ UserAnswers(j)
    PROVE  TrustInv'
  <1> USE DEF IInv, TypeOK
  <1>1. /\ UNCHANGED <<chain, answer, busOwner, round, success, knownRead>>
        /\ \A k \in JobIds : jobPc'[k] = "none" <=> jobPc[k] = "none"
        /\ \A s \in SaIds : saState'[s] # saState[s] => saState'[s] = "closed"
    BY DEF JobRuns, UserAnswers, JobStarts, JobWakes, JobVerdict, busVars,
           TerminateFound, TerminateNotFound, JobFrees, UserKeeps, UserCloses
  <1>2. TrustedNeds' = TrustedNeds
    BY <1>1 DEF TrustedNeds, Asked, NedOf
  <1>3. known' \in TrustedNeds \cup {NoDigest}
    <2>1. ASSUME NEW v \in Verdicts, JobVerdict(j, v)
          PROVE  known' \in TrustedNeds \cup {NoDigest}
      <3>1. NedOf(j) \in TrustedNeds
        BY <2>1 DEF JobVerdict, TrustInv, TrustedNeds
      <3> QED BY <2>1, <3>1 DEF JobVerdict, TrustInv
    <2>2. ASSUME \A v \in Verdicts : ~JobVerdict(j, v)
          PROVE  known' = known
      BY <2>2 DEF JobRuns, UserAnswers, JobStarts, JobWakes,
           TerminateFound, TerminateNotFound, JobFrees, UserKeeps, UserCloses
    <2> QED BY <2>1, <2>2 DEF TrustInv
  <1>4. \A k \in JobIds : Asked(k)' <=> Asked(k)
    BY <1>1 DEF Asked
  <1>5. \A s \in SaIds : LastCert(s)' = LastCert(s)
    BY <1>1 DEF LastCert
  <1> QED BY <1>1, <1>2, <1>3, <1>4, <1>5 DEF TrustInv

-----------------------------------------------------------------------------
(* The invariant holds                                                     *)

\* Every step of charon keeps the invariant
LEMMA NextIInv == IInv /\ [Next]_vars => IInv'
  <1> SUFFICES ASSUME IInv, [Next]_vars PROVE IInv'
    OBVIOUS
  <1>1. ASSUME NEW s \in SaIds, IkeStep(s) PROVE IInv'
    BY <1>1, IkeTypeOK, IkeAuthorizeInv, IkeCountInv, IkeFreshInv, IkeTrustInv
    DEF IInv
  <1>2. ASSUME NEW s \in SaIds, AuthorizeStep(s) PROVE IInv'
    BY <1>2, AuthorizeTypeOK, AuthorizeAuthorizeInv, AuthorizeCountInv,
       AuthorizeFreshInv, AuthorizeTrustInv
    DEF IInv
  <1>3. ASSUME NEW j \in JobIds, JobRuns(j) \/ UserAnswers(j) PROVE IInv'
    BY <1>3, JobTypeOK, JobAuthorizeInv, JobCountInv, JobFreshInv, JobTrustInv
    DEF IInv
  <1>4. CASE CharonRestarts
    BY <1>4, RestartIInv
  <1>5. CASE UNCHANGED vars
    BY <1>5 DEF vars, busVars, jobVars, IInv, TypeOK, AuthorizeInv, CountInv,
       FreshInv, TrustInv, TrustedNeds, Asked, NedOf, LastCert
  <1> QED BY <1>1, <1>2, <1>3, <1>4, <1>5 DEF Next

\* The invariant holds in every state charon can reach.
THEOREM Invariance == Spec => []IInv
  <1> QED BY InitIInv, NextIInv, PTL DEF Spec

\* Every variable keeps to its values, whatever charon, the verifiers and the
\* user do.
THEOREM TypeCorrect == Spec => []TypeOK
  <1>1. IInv => TypeOK
    BY DEF IInv
  <1> QED BY <1>1, Invariance, PTL

\* The known certificate is a shortcut past the verifier, and safe: whichever
\* NEDs are visited, in which order, however the monitoring jobs overlap the
\* authorisations, and wherever charon restarts, an IKE_SA is established only
\* with a NED the verifier has trusted since charon started.
THEOREM Authorized == Spec => []AuthorizedWasTrusted
  <1>1. IInv => AuthorizedWasTrusted
    BY DEF IInv, TrustInv, AuthorizedWasTrusted
  <1> QED BY <1>1, Invariance, PTL

\* No NED the app is connected to has escaped monitoring: a job was queued for
\* its certificate since charon started.
THEOREM Monitored == Spec => []EstablishedIsMonitored
  <1>1. IInv => EstablishedIsMonitored
    <2>1. IInv => TrustedNeds \subseteq MonitoredNeds
      BY DEF IInv, TrustInv, TrustedNeds, MonitoredNeds
    <2> QED BY <2>1 DEF IInv, TrustInv, EstablishedIsMonitored
  <1> QED BY <1>1, Invariance, PTL

\* The counter of attest_request alarms on the verdicts it should, and on no
\* others: one untrusted verdict, or three unknown ones in a row.
THEOREM AlarmsRight == Spec => []AlarmIffDistrusted
  <1>1. IInv => AlarmIffDistrusted
    <2> SUFFICES ASSUME IInv, NEW j \in JobIds
                 PROVE  jobPc[j] \in Alarmed <=> Distrusted(log[j])
      BY DEF AlarmIffDistrusted
    <2>1. log[j] \in Seq(Verdicts) /\ count[j] \in 0 .. 3
      BY DEF IInv, TypeOK, MaxUnknown
    <2>2. count[j] \in Nat
      BY <2>1
    <2> QED BY <2>1, <2>2, CleanNotDistrusted DEF IInv, CountInv
  <1> QED BY <1>1, Invariance, PTL

-----------------------------------------------------------------------------
(* What the plugin promises (module WatchedPeers)                          *)

\* There is one number of unknown verdicts at the end of a log
LEMMA UnknownsCounted ==
    ASSUME NEW l \in Seq(Verdicts), NEW d \in 0 .. Len(l),
           \A i \in 1 .. Len(l) : i > Len(l) - d => l[i] = "unknown",
           d < Len(l) => l[Len(l) - d] # "unknown"
    PROVE  UnknownsAtEnd(l) = d
  <1> DEFINE Counts(e) ==
        /\ \A i \in 1 .. Len(l) : i > Len(l) - e => l[i] = "unknown"
        /\ e < Len(l) => l[Len(l) - e] # "unknown"
  <1>1. Len(l) \in Nat
    OBVIOUS
  <1>2. Counts(d)
    OBVIOUS
  <1>3. ASSUME NEW e \in 0 .. Len(l), Counts(e) PROVE e = d
    <2>1. CASE e < d
      <3>1. Len(l) - e \in 1 .. Len(l) /\ Len(l) - e > Len(l) - d /\ e < Len(l)
        BY <1>1, <2>1
      <3> QED BY <1>2, <1>3, <3>1
    <2>2. CASE d < e
      <3>1. Len(l) - d \in 1 .. Len(l) /\ Len(l) - d > Len(l) - e /\ d < Len(l)
        BY <1>1, <2>2
      <3> QED BY <1>2, <1>3, <3>1
    <2> QED BY <1>1, <2>1, <2>2
  <1>4. UnknownsAtEnd(l) = CHOOSE e \in 0 .. Len(l) : Counts(e)
    BY DEF UnknownsAtEnd
  <1> HIDE DEF Counts
  <1> QED BY <1>2, <1>3, <1>4

\* ... which is the counter, while the job has not alarmed
LEMMA CleanCounted ==
    ASSUME NEW l \in Seq(Verdicts), NEW c \in Nat, Clean(l, c)
    PROVE  UnknownsAtEnd(l) = c
  <1>1. /\ c \in 0 .. Len(l)
        /\ \A i \in 1 .. Len(l) : i > Len(l) - c => l[i] = "unknown"
        /\ c < Len(l) => l[Len(l) - c] # "unknown"
    BY DEF Clean
  <1> QED BY <1>1, UnknownsCounted

LEMMA EmptyCounted == UnknownsAtEnd(<<>>) = 0
  <1>1. <<>> \in Seq(Verdicts) /\ Len(<<>>) = 0
    OBVIOUS
  <1>2. /\ 0 \in 0 .. Len(<<>>)
        /\ \A i \in 1 .. Len(<<>>) : i > Len(<<>>) - 0 => <<>>[i] = "unknown"
        /\ 0 < Len(<<>>) => <<>>[Len(<<>>) - 0] # "unknown"
    BY <1>1
  <1> QED BY <1>1, <1>2, UnknownsCounted

\* A log with one more verdict has one more, or none
LEMMA RememberCounted ==
    ASSUME NEW l \in Seq(Verdicts), Len(l) <= MaxUnknown,
           NEW c \in Nat, Clean(l, c), NEW v \in Verdicts
    PROVE  UnknownsAtEnd(Remember(l, v)) = IF v = "unknown" THEN c + 1 ELSE 0
  <1> DEFINE m == Remember(l, v)
  <1>1. /\ m \in Seq(Verdicts)
        /\ m[Len(m)] = v
        /\ \/ /\ Len(l) < MaxUnknown
              /\ Len(m) = Len(l) + 1
              /\ \A i \in 1 .. Len(l) : m[i] = l[i]
           \/ /\ Len(l) = MaxUnknown
              /\ Len(m) = MaxUnknown
              /\ \A i \in 1 .. MaxUnknown - 1 : m[i] = l[i + 1]
    BY RememberType
  <1>2. Len(l) \in Nat /\ Len(m) \in Nat
    BY <1>1
  <1>a. ASSUME Len(l) = MaxUnknown
        PROVE  Len(l) = 3 /\ Len(m) = 3 /\ m[1] = l[2] /\ m[2] = l[3]
    BY <1>1, <1>a DEF MaxUnknown
  <1> HIDE DEF m
  <1>b. Len(l) < MaxUnknown \/ Len(l) = MaxUnknown
    BY <1>1
  <1>3. CASE v # "unknown"
    <2>1. Len(m) > 0
      BY <1>1, <1>2 DEF MaxUnknown
    <2>2. UnknownsAtEnd(m) = 0
      BY <1>1, <1>2, <1>3, <2>1, UnknownsCounted
    <2> QED BY <1>3, <2>2 DEF m
  <1>4. CASE v = "unknown"
    <2>1. /\ c < MaxUnknown /\ c <= Len(l)
          /\ \A i \in 1 .. Len(l) : i > Len(l) - c => l[i] = "unknown"
          /\ c < Len(l) => l[Len(l) - c] = "trusted"
      BY DEF Clean
    <2>2. c + 1 \in 0 .. Len(m)
      BY <1>1, <1>2, <2>1 DEF MaxUnknown
    <2>3. ASSUME NEW i \in 1 .. Len(m), i > Len(m) - (c + 1) PROVE m[i] = "unknown"
      <3>1. CASE i = Len(m)
        BY <1>1, <1>4, <3>1
      <3>2. CASE i < Len(m) /\ Len(l) < MaxUnknown
        BY <1>1, <1>2, <2>1, <2>3, <3>2
      <3>3. CASE i < Len(m) /\ Len(l) = MaxUnknown
        <4>1. Len(l) = 3 /\ Len(m) = 3 /\ m[1] = l[2] /\ m[2] = l[3]
          BY <1>a, <3>3
        <4>2. i = 1 \/ i = 2
          BY <3>3, <4>1
        <4>3. i + 1 \in 1 .. Len(l) /\ i + 1 > Len(l) - c
          BY <2>3, <4>1, <4>2
        <4>4. l[i + 1] = "unknown"
          BY <2>1, <4>3
        <4> QED BY <4>1, <4>2, <4>4
      <3> QED BY <1>2, <1>b, <3>1, <3>2, <3>3
    <2>4. ASSUME c + 1 < Len(m) PROVE m[Len(m) - (c + 1)] # "unknown"
      <3>1. CASE Len(l) < MaxUnknown
        <4>1. Len(m) - (c + 1) = Len(l) - c /\ Len(l) - c \in 1 .. Len(l) /\ c < Len(l)
          BY <1>1, <1>2, <2>1, <2>4, <3>1 DEF MaxUnknown
        <4>2. m[Len(l) - c] = l[Len(l) - c]
          BY <1>1, <3>1, <4>1 DEF MaxUnknown
        <4>3. l[Len(l) - c] = "trusted"
          BY <2>1, <4>1
        <4> QED BY <4>1, <4>2, <4>3
      <3>2. CASE Len(l) = MaxUnknown
        <4>1. Len(l) = 3 /\ Len(m) = 3 /\ m[1] = l[2] /\ m[2] = l[3]
          BY <1>a, <3>2
        <4>2. c = 0 \/ c = 1
          BY <2>4, <4>1
        <4>3. l[Len(l) - c] = "trusted"
          BY <2>1, <4>1, <4>2
        <4>4. m[Len(m) - (c + 1)] = l[Len(l) - c]
          <5>1. CASE c = 0
            BY <4>1, <5>1
          <5>2. CASE c = 1
            BY <4>1, <5>2
          <5> QED BY <4>2, <5>1, <5>2
        <4> QED BY <4>3, <4>4
      <3> QED BY <1>b, <3>1, <3>2
    <2>5. UnknownsAtEnd(m) = c + 1
      BY <1>1, <2>2, <2>3, <2>4, UnknownsCounted
    <2> QED BY <1>4, <2>5 DEF m
  <1> QED BY <1>3, <1>4

\* An IKE_SA that is not attested asks the verifier nothing
OffInv == ~AttestPeer => \A s \in SaIds : busOwner = s => round > Len(chain[s])

LEMMA OffStep == IInv /\ OffInv /\ [Next]_vars => OffInv'
  <1> SUFFICES ASSUME IInv, OffInv, [Next]_vars, ~AttestPeer,
                      NEW t \in SaIds, busOwner' = t
               PROVE  round' > Len(chain'[t])
    BY DEF OffInv
  <1>0. chain \in [SaIds -> Chains \cup {<<>>}] /\ round \in Nat
    BY ConstantsAssumption DEF IInv, TypeOK
  <1>a. Len(chain[t]) \in Nat
    BY <1>0, ChainType
  <1>1. ASSUME NEW s \in SaIds, NEW c \in Chains, Initiate(s, c)
        PROVE  round' > Len(chain'[t])
    <2>1. s # t
      BY <1>1 DEF Initiate, busVars, IInv, AuthorizeInv
    <2> QED BY <1>0, <1>1, <2>1 DEF Initiate, busVars, OffInv
  <1>2. ASSUME NEW s \in SaIds, SaCloses(s) PROVE round' > Len(chain'[t])
    BY <1>2 DEF SaCloses, busVars, OffInv
  <1>3. ASSUME NEW s \in SaIds, AuthorizeBegin(s) PROVE round' > Len(chain'[t])
    <2>1. s = t /\ round' = Len(chain[t]) + 1 /\ chain' = chain
      BY <1>3 DEF AuthorizeBegin
    <2> QED BY <1>a, <2>1
  <1>4. ASSUME NEW s \in SaIds, AuthorizeKnown(s) \/ AuthorizeRequest(s)
        PROVE  FALSE
    <2>1. busOwner = s /\ round <= Len(chain[s])
      BY <1>4 DEF AuthorizeKnown, AuthorizeRequest
    <2>2. Len(chain[s]) \in Nat
      BY <1>0, ChainType
    <2> QED BY <1>0, <2>1, <2>2 DEF OffInv
  <1>5. ASSUME NEW s \in SaIds, AuthorizeTrusted(s) \/ AuthorizeDoubted(s)
        PROVE  FALSE
    <2>1. busOwner = s /\ round <= Len(chain[s])
      BY <1>5 DEF AuthorizeTrusted, AuthorizeDoubted, IInv, AuthorizeInv
    <2>2. Len(chain[s]) \in Nat
      BY <1>0, ChainType
    <2> QED BY <1>0, <2>1, <2>2 DEF OffInv
  <1>6. ASSUME NEW s \in SaIds, AuthorizeEnd(s) PROVE FALSE
    BY <1>6 DEF AuthorizeEnd, SaIds, NoSa
  <1>7. ASSUME NEW j \in JobIds, JobRuns(j) \/ UserAnswers(j)
        PROVE  round' > Len(chain'[t])
    BY <1>7 DEF JobRuns, UserAnswers, JobStarts, JobWakes, JobVerdict, busVars,
         TerminateFound, TerminateNotFound, JobFrees, UserKeeps, UserCloses, OffInv
  <1>8. CASE CharonRestarts
    BY <1>8 DEF CharonRestarts, MemoryLost, SaIds, NoSa
  <1>9. CASE UNCHANGED vars
    BY <1>9 DEF vars, busVars, OffInv
  <1> QED BY <1>1, <1>2, <1>3, <1>4, <1>5, <1>6, <1>7, <1>8, <1>9
          DEF Next, IkeStep, AuthorizeStep

\* What WatchedPeers sees of a step that changes the logs of jobs
ViewOfJob(j) ==
    StageOf(j)' = StageOf(j) /\ (jobPc'[j] = "none" <=> jobPc[j] = "none")

\* The NED a job watches is that of its queueing
LEMMA WatchedKept ==
    ASSUME IInv, NEW j \in JobIds, Asked(j) => chain'[j[1]] = chain[j[1]],
           jobPc'[j] = "none" <=> jobPc[j] = "none"
    PROVE  WatchedOf(j)' = WatchedOf(j)
  <1>1. jobPc[j] # "none" => Asked(j)
    BY DEF IInv, TrustInv
  <1> QED BY <1>1 DEF WatchedOf, NedOf

\* Steps that the promise does not see
LEMMA StutterPromised ==
    ASSUME IInv, UNCHANGED <<saState, chain, log>>, \A j \in JobIds : ViewOfJob(j)
    PROVE  UNCHANGED Promise!vars
  <1>1. \A s \in SaIds : PeerOf(s)' = PeerOf(s)
    BY DEF PeerOf, LastCert
  <1>2. \A j \in JobIds : WatchedOf(j)' = WatchedOf(j) /\ StageOf(j)' = StageOf(j)
    BY WatchedKept DEF ViewOfJob
  <1>3. \A j \in JobIds : UnknownsAtEnd(log[j])' = UnknownsAtEnd(log[j])
    OBVIOUS
  <1> QED BY <1>1, <1>2, <1>3 DEF Promise!vars

\* A step of IKE_SAs alone
LEMMA JobsUnseen ==
    ASSUME IInv, UNCHANGED <<log, jobPc>>,
           \A j \in JobIds : Asked(j) => chain'[j[1]] = chain[j[1]]
    PROVE  /\ \A j \in JobIds : StageOf(j)' = StageOf(j)
           /\ \A j \in JobIds : WatchedOf(j)' = WatchedOf(j)
           /\ \A j \in JobIds : UnknownsAtEnd(log[j])' = UnknownsAtEnd(log[j])
    BY WatchedKept DEF StageOf

\* An IKE_SA that closes, for whatever reason
LEMMA ClosesPromised ==
    ASSUME IInv, NEW s \in SaIds, saState[s] \in {"connecting", "established"},
           saState' = [saState EXCEPT ![s] = "closed"],
           UNCHANGED <<chain, log>>, \A j \in JobIds : ViewOfJob(j)
    PROVE  Promise!Next
  <1>1. \A t \in SaIds : PeerOf(t)' = PeerOf(t)
    BY DEF PeerOf, LastCert
  <1>2. \A j \in JobIds : WatchedOf(j)' = WatchedOf(j) /\ StageOf(j)' = StageOf(j)
    BY WatchedKept DEF ViewOfJob
  <1>3. Promise!Closes(s)
    BY <1>1, <1>2 DEF Promise!Closes
  <1> QED BY <1>3 DEF Promise!Next

\* A new IKE_SA: no job is about it
LEMMA ConnectsPromised ==
    ASSUME IInv, NEW s \in SaIds, NEW c \in Chains, Initiate(s, c)
    PROVE  Promise!Next
  <1> USE DEF IInv, TypeOK
  <1> DEFINE n == IF c = <<>> THEN NoDigest ELSE c[Len(c)]
  <1>1. n \in NEDs \cup {NoDigest}
    <2>1. c \in Seq(NEDs)
      BY ChainType
    <2>2. c # <<>> => Len(c) \in 1 .. Len(c)
      BY <2>1, EmptySeq
    <2> QED BY <2>1, <2>2
  <1>2. /\ saState[s] = "none" /\ chain[s] = <<>>
        /\ saState' = [saState EXCEPT ![s] = "connecting"]
        /\ chain' = [chain EXCEPT ![s] = c]
        /\ UNCHANGED <<log, jobPc>>
    BY DEF Initiate, jobVars, TrustInv
  <1>3. \A j \in JobIds : Asked(j) => chain'[j[1]] = chain[j[1]]
    BY <1>2 DEF Asked, JobIds
  <1>4. \A t \in SaIds : PeerOf(t)' = IF t = s THEN n ELSE PeerOf(t)
    BY <1>2 DEF PeerOf, LastCert
  <1>5. Promise!Connects(s, n)
    BY <1>2, <1>3, <1>4, JobsUnseen DEF Promise!Connects
  <1> HIDE DEF n
  <1> QED BY <1>1, <1>5 DEF Promise!Next

\* The verifier trusts a certificate: it is watched from now on
LEMMA VouchesPromised ==
    ASSUME IInv, OffInv, NEW s \in SaIds, AuthorizeTrusted(s)
    PROVE  Promise!Next
  <1> USE DEF IInv, TypeOK
  <1>1. chain[s] \in Seq(NEDs) /\ Len(chain[s]) \in 0 .. MaxRounds
    BY ChainType
  <1>2. /\ busOwner = s /\ saState[s] = "connecting"
        /\ round \in 1 .. Len(chain[s]) /\ round \in 1 .. MaxRounds
    BY <1>1, ConstantsAssumption DEF AuthorizeTrusted, AuthorizeInv
  <1>3. AttestPeer
    BY <1>1, <1>2 DEF OffInv
  <1>4. PICK k \in JobIds : k = <<s, round>>
    BY <1>2, JobType
  <1>a. PICK n \in NEDs : n = chain[s][round]
    BY <1>1, <1>2
  <1>b. jobPc[k] = "none"
    BY <1>2, <1>4 DEF FreshInv
  <1>5. /\ jobPc' = [jobPc EXCEPT ![k] = "queued"]
        /\ UNCHANGED <<saState, chain, log>>
    BY <1>4 DEF AuthorizeTrusted
  <1>6. k[1] = s /\ k[2] = round
    BY <1>4
  <1>7. \A j \in JobIds : StageOf(j)' = IF j = k THEN "watching" ELSE StageOf(j)
    BY <1>5 DEF StageOf
  <1>8. WatchedOf(k)' = n
    <2>1. jobPc'[k] # "none" /\ chain'[k[1]][k[2]] = n
      BY <1>a, <1>5, <1>6
    <2> QED BY <2>1 DEF WatchedOf, NedOf
  <1>9. \A j \in JobIds : j # k => WatchedOf(j)' = WatchedOf(j)
    BY <1>5 DEF WatchedOf, NedOf
  <1>10. StageOf(k) = "none"
    BY <1>b DEF StageOf, Alarmed
  <1>11. \A t \in SaIds : PeerOf(t)' = PeerOf(t)
    BY <1>5 DEF PeerOf, LastCert
  <1>12. Promise!Vouches(k, n)
    BY <1>2, <1>3, <1>5, <1>7, <1>8, <1>9, <1>10, <1>11 DEF Promise!Vouches
  <1> QED BY <1>12 DEF Promise!Next

\* Who has been vouched for is watched, or was
LEMMA TrustedIsVouched ==
    ASSUME IInv
    PROVE  TrustedNeds \subseteq Promise!Vouched
  <1>1. ASSUME NEW j \in JobIds, Asked(j), answer[j] = "trusted"
        PROVE  NedOf(j) \in Promise!Vouched
    <2>1. jobPc[j] # "none" /\ jobPc[j] \in JobPcs
      BY <1>1 DEF IInv, TrustInv, TypeOK
    <2>2. StageOf(j) # "none" /\ WatchedOf(j) = NedOf(j)
      BY <2>1 DEF StageOf, WatchedOf
    <2> QED BY <2>2 DEF Promise!Vouched
  <1> QED BY <1>1 DEF TrustedNeds

\* The authorisation is through: the IKE_SA is there only if its NED was
\* vouched for
LEMMA AuthorizedPromised ==
    ASSUME IInv, IInv', NEW s \in SaIds, AuthorizeEnd(s)
    PROVE  Promise!Next
  <1> USE DEF IInv, TypeOK
  <1>1. /\ saState[s] = "connecting"
        /\ UNCHANGED <<chain, log, jobPc, answer>>
    BY DEF AuthorizeEnd, AuthorizeInv, jobVars
  <1>2. \A j \in JobIds : ViewOfJob(j)
    BY <1>1 DEF ViewOfJob, StageOf
  <1>3. CASE ~success
    BY <1>1, <1>2, <1>3, ClosesPromised DEF AuthorizeEnd
  <1>4. CASE success
    <2>1. saState' = [saState EXCEPT ![s] = "established"]
      BY <1>4 DEF AuthorizeEnd
    <2>2. AttestPeer => PeerOf(s) \in TrustedNeds \cup {NoDigest}
      <3>1. TrustedNeds' = TrustedNeds /\ LastCert(s)' = LastCert(s)
        BY <1>1 DEF TrustedNeds, Asked, NedOf, LastCert
      <3>2. AttestPeer /\ chain'[s] # <<>> => LastCert(s)' \in TrustedNeds'
        BY <2>1 DEF TrustInv
      <3> QED BY <1>1, <3>1, <3>2 DEF PeerOf
    <2>3. AttestPeer => PeerOf(s) \in Promise!Vouched \cup {NoDigest}
      BY <2>2, TrustedIsVouched
    <2>4. \A t \in SaIds : PeerOf(t)' = PeerOf(t)
      BY <1>1 DEF PeerOf, LastCert
    <2>5. Promise!Establishes(s)
      BY <1>1, <2>1, <2>3, <2>4, JobsUnseen DEF Promise!Establishes
    <2> QED BY <2>5 DEF Promise!Next
  <1> QED BY <1>3, <1>4

\* A step of one job that leaves the IKE_SAs alone changes what is seen of it
\* and of no other
LEMMA JobSeen ==
    ASSUME IInv, NEW j \in JobIds, UNCHANGED <<saState, chain>>,
           jobPc[j] # "none", jobPc'[j] # "none",
           \A k \in JobIds : k # j => jobPc'[k] = jobPc[k] /\ log'[k] = log[k]
    PROVE  /\ \A s \in SaIds : PeerOf(s)' = PeerOf(s)
           /\ \A k \in JobIds : WatchedOf(k)' = WatchedOf(k)
           /\ \A k \in JobIds : k # j => StageOf(k)' = StageOf(k)
           /\ \A k \in JobIds : k # j => UnknownsAtEnd(log[k])' = UnknownsAtEnd(log[k])
  <1>1. \A s \in SaIds : PeerOf(s)' = PeerOf(s)
    BY DEF PeerOf, LastCert
  <1>2. \A k \in JobIds : WatchedOf(k)' = WatchedOf(k)
    BY WatchedKept
  <1> QED BY <1>1, <1>2 DEF StageOf

\* A verdict reassures, adds to the doubts or condemns, and the counter of the
\* loop has no part in it
LEMMA VerdictPromised ==
    ASSUME IInv, NEW j \in JobIds, NEW v \in Verdicts, JobVerdict(j, v)
    PROVE  Promise!Next
  <1> USE DEF IInv, TypeOK
  <1>1. /\ jobPc[j] = "fetch"
        /\ log' = [log EXCEPT ![j] = Remember(log[j], v)]
        /\ jobPc' = [jobPc EXCEPT ![j] = IF Continues(j, v) THEN "sleep" ELSE "prompt"]
        /\ UNCHANGED <<saState, chain>>
    BY DEF JobVerdict
  <1>2. log[j] \in Seq(Verdicts) /\ Len(log[j]) <= MaxUnknown /\ count[j] \in Nat
    OBVIOUS
  <1>3. Clean(log[j], count[j])
    BY <1>1 DEF CountInv, Alarmed
  <1>4. UnknownsAtEnd(log[j]) = count[j]
    BY <1>2, <1>3, CleanCounted
  <1>5. UnknownsAtEnd(Remember(log[j], v)) = Unknowns(j, v)
    BY <1>2, <1>3, RememberCounted DEF Unknowns
  <1>6. /\ UnknownsAtEnd(log[j])' = Unknowns(j, v)
        /\ log'[j] = Remember(log[j], v)
    BY <1>1, <1>5
  <1>7. StageOf(j) = "watching"
    BY <1>1 DEF StageOf
  <1>8. StageOf(j)' = IF Continues(j, v) THEN "watching" ELSE "alarmed"
    BY <1>1 DEF StageOf, Alarmed
  <1>9. /\ \A s \in SaIds : PeerOf(s)' = PeerOf(s)
        /\ \A k \in JobIds : WatchedOf(k)' = WatchedOf(k)
        /\ \A k \in JobIds : k # j => StageOf(k)' = StageOf(k)
        /\ \A k \in JobIds : k # j => UnknownsAtEnd(log[k])' = UnknownsAtEnd(log[k])
    BY <1>1, JobSeen
  <1>10. CASE v = "trusted"
    <2>1. Unknowns(j, v) = 0 /\ Continues(j, v)
      BY <1>10 DEF Unknowns, Continues, MaxUnknown
    <2>2. Promise!Reassures(j)
      BY <1>1, <1>6, <1>7, <1>8, <1>9, <2>1 DEF Promise!Reassures
    <2> QED BY <2>2 DEF Promise!Next
  <1>11. CASE v = "unknown"
    <2>1. Unknowns(j, v) = UnknownsAtEnd(log[j]) + 1
      BY <1>4, <1>11 DEF Unknowns
    <2>2. Continues(j, v) <=> Unknowns(j, v) < MaxUnknown
      BY <1>11 DEF Continues
    <2> DEFINE D == [k \in JobIds |-> UnknownsAtEnd(log[k])]
    <2>3. D' = [D EXCEPT ![j] = @ + 1] /\ D'[j] = Unknowns(j, v)
      BY <1>6, <1>9, <2>1
    <2> HIDE DEF D
    <2>4. [k \in JobIds |-> StageOf(k)]' =
             [[k \in JobIds |-> StageOf(k)] EXCEPT
                ![j] = IF D'[j] < MaxUnknown THEN "watching" ELSE "alarmed"]
      BY <1>8, <1>9, <2>2, <2>3
    <2>5. Promise!Doubts(j)
      BY <1>1, <1>7, <1>9, <2>3, <2>4 DEF Promise!Doubts, D
    <2> QED BY <2>5 DEF Promise!Next
  <1>12. CASE v = "untrusted"
    <2>1. Unknowns(j, v) = 0 /\ ~Continues(j, v)
      BY <1>12 DEF Unknowns, Continues
    <2>2. Promise!Condemns(j)
      BY <1>1, <1>6, <1>7, <1>8, <1>9, <2>1 DEF Promise!Condemns
    <2> QED BY <2>2 DEF Promise!Next
  <1> QED BY <1>10, <1>11, <1>12 DEF Verdicts

\* A job that is destroyed has alarmed, and had its answer
LEMMA EndsPromised ==
    ASSUME IInv, NEW j \in JobIds, JobFrees(j)
    PROVE  Promise!Next
  <1> USE DEF IInv, TypeOK
  <1>1. /\ jobPc[j] = "free"
        /\ log' = [log EXCEPT ![j] = <<>>]
        /\ jobPc' = [jobPc EXCEPT ![j] = "ended"]
        /\ UNCHANGED <<saState, chain>>
    BY DEF JobFrees
  <1>2. UnknownsAtEnd(<<>>) = 0
    BY EmptyCounted
  <1>3. UnknownsAtEnd(log[j])' = 0
    BY <1>1, <1>2
  <1>4. StageOf(j) = "alarmed" /\ StageOf(j)' = "ended"
    BY <1>1 DEF StageOf, Alarmed
  <1>5. /\ \A s \in SaIds : PeerOf(s)' = PeerOf(s)
        /\ \A k \in JobIds : WatchedOf(k)' = WatchedOf(k)
        /\ \A k \in JobIds : k # j => StageOf(k)' = StageOf(k)
        /\ \A k \in JobIds : k # j => UnknownsAtEnd(log[k])' = UnknownsAtEnd(log[k])
    BY <1>1, JobSeen
  <1>6. Promise!Ends(j)
    BY <1>1, <1>3, <1>4, <1>5 DEF Promise!Ends
  <1> QED BY <1>6 DEF Promise!Next

\* What a start of charon gives
LEMMA InitPromised == Init => Promise!Init
  <1> SUFFICES ASSUME Init PROVE Promise!Init
    OBVIOUS
  <1>1. \A s \in SaIds : PeerOf(s) = NoDigest
    BY DEF Init, Start, PeerOf
  <1>2. \A j \in JobIds : StageOf(j) = "none" /\ WatchedOf(j) = NoDigest
    BY DEF Init, Start, StageOf, Alarmed, WatchedOf
  <1>3. UnknownsAtEnd(<<>>) = 0
    BY EmptyCounted
  <1>4. \A j \in JobIds : UnknownsAtEnd(log[j]) = 0
    BY <1>3 DEF Init, Start
  <1> QED BY <1>1, <1>2, <1>4 DEF Promise!Init, Init, Start

\* ... and a restart, in one step: what was vouched for goes with the watches
LEMMA RestartPromised ==
    ASSUME CharonRestarts
    PROVE  Promise!Next
  <1>1. Init'
    BY RestartIsInit
  <1>2. Promise!Init'
    BY <1>1, InitPromised, PTL
  <1>3. Promise!Restarts
    BY <1>2 DEF Promise!Init, Promise!Restarts
  <1> QED BY <1>3 DEF Promise!Next

\* The plugin implements WatchedPeers, for any NEDs, chains, IKE_SAs, rounds
\* and workers: an IKE_SA is established only with a NED vouched for since the
\* start of charon, each NED vouched for is watched from then on, and a watch
\* ends only after the alarm (oat_attest_listener.c:294-322, 395-412).
THEOREM Implements == Spec => KeepsWatch
  <1>1. Init => Promise!Init /\ OffInv
    <2>1. Init => OffInv
      BY DEF Init, OffInv, SaIds, NoSa
    <2> QED BY <2>1, InitPromised
  <1>2. IInv /\ OffInv /\ IInv' /\ [Next]_vars => [Promise!Next]_(Promise!vars)
    <2> SUFFICES ASSUME IInv, OffInv, IInv', [Next]_vars
                 PROVE  Promise!Next \/ UNCHANGED Promise!vars
      OBVIOUS
    <2>1. ASSUME NEW s \in SaIds, NEW c \in Chains, Initiate(s, c) PROVE Promise!Next
      BY <2>1, ConnectsPromised
    <2>2. ASSUME NEW s \in SaIds, SaCloses(s) PROVE Promise!Next
      BY <2>2, ClosesPromised DEF SaCloses, jobVars, ViewOfJob, StageOf
    <2>3. ASSUME NEW s \in SaIds,
                 AuthorizeBegin(s) \/ AuthorizeKnown(s) \/ AuthorizeRequest(s)
                 \/ AuthorizeDoubted(s)
          PROVE  UNCHANGED Promise!vars
      BY <2>3, StutterPromised DEF AuthorizeBegin, AuthorizeKnown, AuthorizeRequest,
         AuthorizeDoubted, jobVars, ViewOfJob, StageOf
    <2>4. ASSUME NEW s \in SaIds, AuthorizeTrusted(s) PROVE Promise!Next
      BY <2>4, VouchesPromised
    <2>5. ASSUME NEW s \in SaIds, AuthorizeEnd(s) PROVE Promise!Next
      BY <2>5, AuthorizedPromised
    <2>6. ASSUME NEW j \in JobIds,
                 JobStarts(j) \/ JobWakes(j) \/ TerminateNotFound(j) \/ UserAnswers(j)
          PROVE  UNCHANGED Promise!vars
      <3>1. UNCHANGED <<saState, chain, log>>
        BY <2>6 DEF JobStarts, JobWakes, TerminateNotFound, UserAnswers, UserKeeps,
           UserCloses
      <3>2. \A k \in JobIds : ViewOfJob(k)
        BY <2>6 DEF IInv, TypeOK, JobStarts, JobWakes, TerminateNotFound, UserAnswers,
           UserKeeps, UserCloses, ViewOfJob, StageOf, Alarmed
      <3> QED BY <3>1, <3>2, StutterPromised
    <2>7. ASSUME NEW j \in JobIds, NEW v \in Verdicts, JobVerdict(j, v) PROVE Promise!Next
      BY <2>7, VerdictPromised
    <2>8. ASSUME NEW j \in JobIds, TerminateFound(j) PROVE Promise!Next
      <3>1. /\ target[j] \in SaIds
            /\ saState[target[j]] \in {"connecting", "established"}
            /\ saState' = [saState EXCEPT ![target[j]] = "closed"]
            /\ UNCHANGED <<chain, log>>
        BY <2>8 DEF TerminateFound
      <3>2. \A k \in JobIds : ViewOfJob(k)
        BY <2>8 DEF IInv, TypeOK, TerminateFound, ViewOfJob, StageOf, Alarmed
      <3> QED BY <3>1, <3>2, ClosesPromised
    <2>9. ASSUME NEW j \in JobIds, JobFrees(j) PROVE Promise!Next
      BY <2>9, EndsPromised
    <2>10. CASE CharonRestarts
      BY <2>10, RestartPromised
    <2>11. CASE UNCHANGED vars
      BY <2>11, StutterPromised DEF vars, jobVars, ViewOfJob, StageOf
    <2> QED BY <2>1, <2>2, <2>3, <2>4, <2>5, <2>6, <2>7, <2>8, <2>9, <2>10, <2>11
            DEF Next, IkeStep, AuthorizeStep, JobRuns
  <1> QED BY <1>1, <1>2, OffStep, NextIInv, Invariance, PTL
          DEF Spec, KeepsWatch, Promise!Spec
=============================================================================

------------------------------ MODULE OatAttest ------------------------------
(***************************************************************************)
(* The remote-attestation plugin of charon, oat_attest_listener.c, with    *)
(* the parts of charon it interacts with: the bus that calls its           *)
(* authorize() hook under one mutex, the pool of worker threads that runs  *)
(* its monitoring jobs, and terminate_ike() of the controller.             *)
(*                                                                         *)
(* An IKE_SA is named by its unique id; ids are handed out in increasing   *)
(* order and start again when charon does.  Its peer authenticates with a  *)
(* chain of rounds, each round showing the certificate of one NED.  The    *)
(* certificate, its SHA1 digest and its common name are one value here,    *)
(* the NED.  The monitoring job that round r of IKE_SA s may queue is      *)
(* named <<s, r>>: there is at most one.                                   *)
(***************************************************************************)
EXTENDS Integers, Sequences, FiniteSets

CONSTANTS NEDs,        \* certificates a peer may show
          NoDigest,    \* the default "0000000" of known_cert_digest (344)
          MaxSa,       \* bound: unique ids handed out between two starts
          MaxRounds,   \* bound: authentication rounds of one IKE_SA
          Chains,      \* the sequences of certificates peers present
          Workers,     \* threads of the processor of charon
          AttestPeer   \* the setting attest_peer (343)

SaIds == 1 .. MaxSa
NoSa == 0
JobIds == SaIds \X (1 .. MaxRounds)

ASSUME ConstantsAssumption ==
    /\ NoDigest \notin NEDs
    /\ MaxSa \in Nat
    /\ MaxRounds \in Nat
    /\ Chains \subseteq Seq(NEDs)
    /\ \A c \in Chains : Len(c) <= MaxRounds
    /\ Workers \in Nat
    /\ AttestPeer \in BOOLEAN

VARIABLES
    saState,     \* the life of each IKE_SA
    chain,       \* the certificates shown by its peer, in order
    known,       \* setting known_cert_digest: kept in memory, never saved
    currentId,   \* static current_id (366), shared by every job
    busOwner,    \* IKE_SA whose thread holds the mutex of the bus, or NoSa
    round,       \* of that thread: the round being checked
    knownRead,   \* ... known_cert_digest as it was read on entry (344)
    success,     \* ... *success
    fetching,    \* ... whether it waits for the verifier (406)
    answer,      \* what the verifier said of each round (history)
    jobPc,       \* where each monitoring job stands
    count,       \* its count of consecutive unknown verdicts (298)
    log,         \* its last three verdicts, oldest first (history)
    target       \* unique id it passes to terminate_ike

busVars == <<busOwner, round, knownRead, success, fetching>>
jobVars == <<jobPc, count, log, target>>
vars == <<saState, chain, known, currentId, busVars, answer, jobVars>>

-----------------------------------------------------------------------------
\* What oat_attest_request returns: 1, -1 and 0
Verdicts == {"trusted", "untrusted", "unknown"}

\* The number of unknown verdicts in a row that ends the loop (301)
MaxUnknown == 3

SaStates == {"none", "connecting", "established", "closed"}

\* none: never queued; queued: waits for a worker; sleep (302); fetch (304);
\* prompt: blocked in fgets (314); terminate: in terminate_ike (317);
\* free: in destroy_hostdata (290); ended
JobPcs == {"none", "queued", "sleep", "fetch", "prompt", "terminate", "free",
           "ended"}

Holding == {"sleep", "fetch", "prompt", "terminate", "free"}
Alarmed == {"prompt", "terminate", "free"}

NedOf(j) == chain[j[1]][j[2]]

\* A job keeps its worker thread from its start to its end: it sleeps in it,
\* and so does the thread that authorises while it waits for the verifier
WorkerFree ==
    Cardinality({j \in JobIds : jobPc[j] \in Holding})
        + (IF busOwner = NoSa THEN 0 ELSE 1) < Workers

\* What a start of charon gives: no IKE_SA, no job, zeroed statics, and the
\* settings read again from a file that holds no known_cert_digest
Start ==
    [saState |-> [s \in SaIds |-> "none"],
     chain   |-> [s \in SaIds |-> <<>>],
     answer  |-> [j \in JobIds |-> "notasked"],
     jobPc   |-> [j \in JobIds |-> "none"],
     count   |-> [j \in JobIds |-> 0],
     log     |-> [j \in JobIds |-> <<>>],
     target  |-> [j \in JobIds |-> NoSa]]

Init ==
    /\ saState = Start.saState
    /\ chain = Start.chain
    /\ known = NoDigest
    /\ currentId = 0
    /\ busOwner = NoSa
    /\ round = 1
    /\ knownRead = NoDigest
    /\ success = TRUE
    /\ fetching = FALSE
    /\ answer = Start.answer
    /\ jobPc = Start.jobPc
    /\ count = Start.count
    /\ log = Start.log
    /\ target = Start.target

-----------------------------------------------------------------------------
(* The IKE layer: IKE_SAs come and go                                      *)

\* "ipsec up": a new IKE_SA takes the next unique id
Initiate(s, c) ==
    /\ saState[s] = "none"
    /\ \A t \in SaIds : t < s => saState[t] # "none"
    /\ saState' = [saState EXCEPT ![s] = "connecting"]
    /\ chain' = [chain EXCEPT ![s] = c]
    /\ UNCHANGED <<known, currentId, busVars, answer, jobVars>>

\* The IKE_SA goes away for a reason the plugin has no part in: "ipsec down",
\* a delete of the peer, a timeout.  Its state change is reported on the bus,
\* whose mutex must be free.
SaCloses(s) ==
    /\ saState[s] \in {"connecting", "established"}
    /\ busOwner = NoSa
    /\ saState' = [saState EXCEPT ![s] = "closed"]
    /\ UNCHANGED <<chain, known, currentId, busVars, answer, jobVars>>

-----------------------------------------------------------------------------
(* authorize(), run by the thread of an IKE_SA under the mutex of the bus. *)
(* The hooks that are not final return at once and change nothing.         *)

\* bus.authorize takes the mutex; the hook reads the settings
AuthorizeBegin(s) ==
    /\ saState[s] = "connecting"
    /\ busOwner = NoSa
    /\ WorkerFree
    /\ busOwner' = s
    /\ round' = IF AttestPeer THEN 1 ELSE Len(chain[s]) + 1
    /\ knownRead' = known
    /\ success' = TRUE
    /\ fetching' = FALSE
    /\ UNCHANGED <<saState, chain, known, currentId, answer, jobVars>>

\* A round whose certificate is the known one: success is left as it was
AuthorizeKnown(s) ==
    /\ busOwner = s
    /\ ~fetching
    /\ round <= Len(chain[s])
    /\ chain[s][round] = knownRead
    /\ currentId' = s
    /\ round' = round + 1
    /\ UNCHANGED <<saState, chain, known, busOwner, knownRead, success,
                   fetching, answer, jobVars>>

\* A round with any other certificate: the verifier is asked
AuthorizeRequest(s) ==
    /\ busOwner = s
    /\ ~fetching
    /\ round <= Len(chain[s])
    /\ chain[s][round] # knownRead
    /\ currentId' = s
    /\ fetching' = TRUE
    /\ UNCHANGED <<saState, chain, known, busOwner, round, knownRead, success,
                   answer, jobVars>>

\* The verifier says that the peer is trusted: its digest becomes the known
\* one (271) and a job is queued that will monitor it (408)
AuthorizeTrusted(s) ==
    /\ busOwner = s
    /\ fetching
    /\ known' = chain[s][round]
    /\ success' = TRUE
    /\ jobPc' = [jobPc EXCEPT ![<<s, round>>] = "queued"]
    /\ answer' = [answer EXCEPT ![<<s, round>>] = "trusted"]
    /\ fetching' = FALSE
    /\ round' = round + 1
    /\ UNCHANGED <<saState, chain, currentId, busOwner, knownRead, count, log,
                   target>>

\* Mutant: a peer that is not trusted is left to the other listeners
AuthorizeLenient(s) ==
    /\ busOwner = s
    /\ fetching
    /\ answer' = [answer EXCEPT ![<<s, round>>] = "doubted"]
    /\ fetching' = FALSE
    /\ round' = round + 1
    /\ UNCHANGED <<saState, chain, known, currentId, busOwner, knownRead,
                   success, jobVars>>

\* Mutant: the verifier is asked until it trusts the peer
AuthorizeRetries(s) ==
    /\ busOwner = s
    /\ fetching
    /\ answer' = [answer EXCEPT ![<<s, round>>] = "doubted"]
    /\ fetching' = FALSE
    /\ UNCHANGED <<saState, chain, known, currentId, busOwner, round, knownRead,
                   success, jobVars>>

\* Any other answer, and no answer, fail the authorisation (410)
AuthorizeDoubted(s) ==
    /\ busOwner = s
    /\ fetching
    /\ success' = FALSE
    /\ answer' = [answer EXCEPT ![<<s, round>>] = "doubted"]
    /\ fetching' = FALSE
    /\ round' = round + 1
    /\ UNCHANGED <<saState, chain, known, currentId, busOwner, knownRead,
                   jobVars>>

\* All rounds are checked: bus.authorize releases the mutex, and the IKE_SA
\* is established or, with ALERT_AUTHORIZATION_FAILED, given up.  The locals
\* of the hook are gone.
AuthorizeEnd(s) ==
    /\ busOwner = s
    /\ ~fetching
    /\ round > Len(chain[s])
    /\ busOwner' = NoSa
    /\ saState' = [saState EXCEPT ![s] = IF success THEN "established"
                                                    ELSE "closed"]
    /\ round' = 1
    /\ knownRead' = NoDigest
    /\ success' = TRUE
    /\ UNCHANGED <<chain, known, currentId, fetching, answer, jobVars>>

-----------------------------------------------------------------------------
(* attest_request(), the monitoring job                                    *)

JobStarts(j) ==
    /\ jobPc[j] = "queued"
    /\ WorkerFree
    /\ jobPc' = [jobPc EXCEPT ![j] = "sleep"]
    /\ UNCHANGED <<saState, chain, known, currentId, busVars, answer, count,
                   log, target>>

JobWakes(j) ==
    /\ jobPc[j] = "sleep"
    /\ jobPc' = [jobPc EXCEPT ![j] = "fetch"]
    /\ UNCHANGED <<saState, chain, known, currentId, busVars, answer, count,
                   log, target>>

\* Mutants: the count is never reset; it never grows
UnknownsKept(j, v) == IF v = "unknown" THEN count[j] + 1 ELSE count[j]
UnknownsLost(j, v) == 0

\* Unknown verdicts in a row, this one included (305-309)
Unknowns(j, v) == IF v = "unknown" THEN count[j] + 1 ELSE 0

\* The condition of the loop (301)
Continues(j, v) == v # "untrusted" /\ Unknowns(j, v) < MaxUnknown

Remember(l, v) == Append(IF Len(l) < MaxUnknown THEN l ELSE Tail(l), v)

\* The verifier answers (or the fetch fails: unknown); a trusted NED becomes
\* the known one; the condition of the loop is tested (301)
JobVerdict(j, v) ==
    /\ jobPc[j] = "fetch"
    /\ known' = IF v = "trusted" THEN NedOf(j) ELSE known
    /\ count' = [count EXCEPT ![j] = Unknowns(j, v)]
    /\ log' = [log EXCEPT ![j] = Remember(log[j], v)]
    /\ jobPc' = [jobPc EXCEPT ![j] =
                    IF Continues(j, v) THEN "sleep" ELSE "prompt"]
    /\ UNCHANGED <<saState, chain, currentId, busVars, answer, target>>

\* The line fgets returns has no y: No, an empty line, end of file
UserKeeps(j) ==
    /\ jobPc[j] = "prompt"
    /\ jobPc' = [jobPc EXCEPT ![j] = "free"]
    /\ UNCHANGED <<saState, chain, known, currentId, busVars, answer, count,
                   log, target>>

\* The line has a y: the id to terminate is read through ike_sa_id (317)
UserCloses(j) ==
    /\ jobPc[j] = "prompt"
    /\ jobPc' = [jobPc EXCEPT ![j] = "terminate"]
    /\ target' = [target EXCEPT ![j] = currentId]
    /\ UNCHANGED <<saState, chain, known, currentId, busVars, answer, count,
                   log>>

\* terminate_ike finds the IKE_SA, waiting for the thread that has it checked
\* out, and deletes it; the state change is reported on the bus
TerminateFound(j) ==
    /\ jobPc[j] = "terminate"
    /\ target[j] \in SaIds
    /\ saState[target[j]] \in {"connecting", "established"}
    /\ busOwner = NoSa
    /\ saState' = [saState EXCEPT ![target[j]] = "closed"]
    /\ jobPc' = [jobPc EXCEPT ![j] = "free"]
    /\ target' = [target EXCEPT ![j] = NoSa]
    /\ UNCHANGED <<chain, known, currentId, busVars, answer, count, log>>

\* No IKE_SA has that id: NOT_FOUND
TerminateNotFound(j) ==
    /\ jobPc[j] = "terminate"
    /\ target[j] \in SaIds => saState[target[j]] \in {"none", "closed"}
    /\ jobPc' = [jobPc EXCEPT ![j] = "free"]
    /\ target' = [target EXCEPT ![j] = NoSa]
    /\ UNCHANGED <<saState, chain, known, currentId, busVars, answer, count,
                   log>>

\* Mutant: the job asks to be queued again
JobIsRequeued(j) ==
    /\ jobPc[j] = "free"
    /\ jobPc' = [jobPc EXCEPT ![j] = "queued"]
    /\ count' = [count EXCEPT ![j] = 0]
    /\ log' = [log EXCEPT ![j] = <<>>]
    /\ UNCHANGED <<saState, chain, known, currentId, busVars, answer, target>>

\* JOB_REQUEUE_NONE: destroy_hostdata frees the static current_id (290), which
\* is undefined.  Either the allocator aborts charon (CharonRestarts) or it
\* goes on and may have written its own data over the variable.
JobFrees(j) ==
    /\ jobPc[j] = "free"
    /\ jobPc' = [jobPc EXCEPT ![j] = "ended"]
    /\ currentId' \in SaIds \cup {0}
    /\ count' = [count EXCEPT ![j] = 0]
    /\ log' = [log EXCEPT ![j] = <<>>]
    /\ UNCHANGED <<saState, chain, known, busVars, answer, target>>

-----------------------------------------------------------------------------
MemoryLost ==
    /\ saState' = Start.saState
    /\ chain' = Start.chain
    /\ currentId' = 0
    /\ busOwner' = NoSa
    /\ round' = 1
    /\ knownRead' = NoDigest
    /\ success' = TRUE
    /\ fetching' = FALSE
    /\ answer' = Start.answer
    /\ jobPc' = Start.jobPc
    /\ count' = Start.count
    /\ log' = Start.log
    /\ target' = Start.target

\* Mutant: known_cert_digest is kept in the file of settings
CharonRemembers ==
    /\ MemoryLost
    /\ known' = known

\* charon is killed and started again by the script gui/ipsec, exits because
\* oat-attest.data cannot be written (67), or aborts
CharonRestarts ==
    /\ MemoryLost
    /\ known' = NoDigest

IkeStep(s) ==
    \/ \E c \in Chains : Initiate(s, c)
    \/ SaCloses(s)

AuthorizeStep(s) ==
    \/ AuthorizeBegin(s)
    \/ AuthorizeKnown(s)
    \/ AuthorizeRequest(s)
    \/ AuthorizeTrusted(s)
    \/ AuthorizeDoubted(s)
    \/ AuthorizeEnd(s)

\* What the job does by itself, and what the user makes it do
JobRuns(j) ==
    \/ JobStarts(j)
    \/ JobWakes(j)
    \/ \E v \in Verdicts : JobVerdict(j, v)
    \/ TerminateFound(j)
    \/ TerminateNotFound(j)
    \/ JobFrees(j)

UserAnswers(j) ==
    \/ UserKeeps(j)
    \/ UserCloses(j)

Next ==
    \/ \E s \in SaIds : IkeStep(s) \/ AuthorizeStep(s)
    \/ \E j \in JobIds : JobRuns(j) \/ UserAnswers(j)
    \/ CharonRestarts

Spec == Init /\ [][Next]_vars

\* Threads are scheduled, sleep() returns and FETCH_TIMEOUT ends every fetch.
\* Nothing makes a peer connect or the user answer.
FairSpec ==
    /\ Spec
    /\ \A s \in SaIds : WF_vars(AuthorizeStep(s))
    /\ \A j \in JobIds : WF_vars(JobRuns(j))

-----------------------------------------------------------------------------
(* Properties                                                              *)

\* Every variable keeps to its values.
TypeOK ==
    /\ saState \in [SaIds -> SaStates]
    /\ chain \in [SaIds -> Chains \cup {<<>>}]
    /\ known \in NEDs \cup {NoDigest}
    /\ currentId \in SaIds \cup {0}
    /\ busOwner \in SaIds \cup {NoSa}
    /\ round \in 1 .. MaxRounds + 1
    /\ knownRead \in NEDs \cup {NoDigest}
    /\ success \in BOOLEAN
    /\ fetching \in BOOLEAN
    /\ answer \in [JobIds -> {"notasked", "trusted", "doubted"}]
    /\ jobPc \in [JobIds -> JobPcs]
    /\ count \in [JobIds -> 0 .. MaxUnknown]
    /\ log \in [JobIds -> Seq(Verdicts)]
    /\ \A j \in JobIds : Len(log[j]) <= MaxUnknown
    /\ target \in [JobIds -> SaIds \cup {NoSa}]

\* Round r of IKE_SA s exists
Asked(j) == j[2] <= Len(chain[j[1]])

LastCert(s) == chain[s][Len(chain[s])]

\* The certificates a verifier called trusted in some authorize() since
\* charon started, and those some job was queued for
TrustedNeds ==
    {NedOf(j) : j \in {k \in JobIds : Asked(k) /\ answer[k] = "trusted"}}

MonitoredNeds ==
    {NedOf(j) : j \in {k \in JobIds : Asked(k) /\ jobPc[k] # "none"}}

\* An IKE_SA is established only with a NED that the verifier has called
\* trusted since charon started: accepting the known certificate without a
\* request (395) is never the first thing that happens to a certificate, and
\* no interleaving with a monitoring job that sets the known certificate
\* (271) makes it so.  (With several rounds it is the last that decides.)
AuthorizedWasTrusted ==
    AttestPeer =>
        \A s \in SaIds :
            (saState[s] = "established" /\ chain[s] # <<>>) =>
                LastCert(s) \in TrustedNeds

\* The NED of an established IKE_SA is watched: some job was queued for its
\* certificate since charon started, and it still runs or has asked the user.
\* It does not have to be a job of this IKE_SA: the known certificate gets
\* none.
EstablishedIsMonitored ==
    AttestPeer =>
        \A s \in SaIds :
            (saState[s] = "established" /\ chain[s] # <<>>) =>
                LastCert(s) \in MonitoredNeds

\* What ends the loop of attest_request, said of verdicts and not of its
\* counter
Distrusted(l) ==
    \/ \E i \in DOMAIN l : l[i] = "untrusted"
    \/ /\ Len(l) = MaxUnknown
       /\ \A i \in DOMAIN l : l[i] = "unknown"

\* The user is asked to close the connection exactly when the last verdict
\* was untrusted or the last three were all unknown: two unknown verdicts
\* are skipped (239-241), and a trusted one in between starts the tolerance
\* afresh.
AlarmIffDistrusted ==
    \A j \in JobIds : jobPc[j] \in Alarmed <=> Distrusted(log[j])

\* A job whose latest verdict is not trusted, or that has none yet, comes to
\* a trusted verdict or asks the user: unknown verdicts cannot keep it going.
MonitorDecides ==
    \A j \in JobIds :
        (/\ jobPc[j] \in {"queued", "sleep", "fetch"}
         /\ (log[j] = <<>> \/ log[j][Len(log[j])] # "trusted"))
        ~> (\/ jobPc[j] \in Alarmed \cup {"none"}
            \/ log[j] # <<>> /\ log[j][Len(log[j])] = "trusted")

\* Every IKE_SA that is connecting is established or given up: the mutex of
\* the bus, held over requests to the verifier, is released in the end, and
\* monitoring jobs do not take every worker thread.  (The second needs more
\* threads than jobs, which handovers pile up.)
AuthorizationDecided ==
    \A s \in SaIds :
        saState[s] = "connecting" ~> saState[s] # "connecting"

\* The unknown verdicts at the end of a log
UnknownsAtEnd(l) ==
    CHOOSE d \in 0 .. Len(l) :
        /\ \A i \in 1 .. Len(l) : i > Len(l) - d => l[i] = "unknown"
        /\ d < Len(l) => l[Len(l) - d] # "unknown"

PeerOf(s) == IF chain[s] = <<>> THEN NoDigest ELSE LastCert(s)

StageOf(j) ==
    IF jobPc[j] \in {"queued", "sleep", "fetch"} THEN "watching"
    ELSE IF jobPc[j] \in Alarmed THEN "alarmed" ELSE jobPc[j]

WatchedOf(j) == IF jobPc[j] = "none" THEN NoDigest ELSE NedOf(j)

Promise == INSTANCE WatchedPeers
               WITH Sas <- SaIds, Nobody <- NoDigest, Watches <- JobIds,
                    Patience <- MaxUnknown, Attests <- AttestPeer,
                    life <- saState,
                    peer <- [s \in SaIds |-> PeerOf(s)],
                    stage <- [j \in JobIds |-> StageOf(j)],
                    watched <- [j \in JobIds |-> WatchedOf(j)],
                    doubts <- [j \in JobIds |-> UnknownsAtEnd(log[j])]

\* The plugin keeps what WatchedPeers promises.  Nothing of the shortcut for
\* the known certificate (395) shows there: neither that it is read before
\* the rounds are checked, nor that jobs write it meanwhile, nor that a job
\* outlives its IKE_SA and is not queued for the next one; and what counts in
\* attest_request() is what the verifier said, not the counter (298-309).
KeepsWatch == Promise!Spec

-----------------------------------------------------------------------------
(* What comments and messages of the plugin say, and its code does not do  *)

\* "NED is compromised, close the connection" (313): terminate_ike called by
\* the job of a NED closes no connection to another NED.
ClosesTheCompromised ==
    [][\A j \in JobIds :
         (jobPc[j] = "terminate" /\ jobPc'[j] = "free") =>
            \A s \in SaIds : saState'[s] # saState[s] =>
                \E r \in 1 .. Len(chain[s]) : chain[s][r] = NedOf(j)]_vars
=============================================================================

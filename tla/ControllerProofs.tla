------------------------- MODULE ControllerProofs -------------------------
(***************************************************************************)
(* Proofs about the controller, for every set of calls and of IKE_SAs and  *)
(* any number of workers: its types, that the struct a call shares with    *)
(* its job and with the bus is in use exactly as long as somebody holds a  *)
(* reference, and that what a call reports is so.                          *)
(*                                                                         *)
(* FreedWhenUnused speaks of "some reference"; RefsInv says which: one of  *)
(* the caller, one of the job.  The lists of the bus hold none, and so it  *)
(* also says that neither list outlives the caller.                        *)
(*                                                                         *)
(* What a call reports was the status of its listener before.  PlaceInv    *)
(* ties the listener to the IKE_SA its job held, and the CHILD_SA to both; *)
(* EarlyInv says that the status means nothing until the job has let go of *)
(* the IKE_SA; TrueInv says what it means from then on.                    *)
(***************************************************************************)
EXTENDS Controller, TLAPS

Waiting == {"wait", "unlisten", "unlog"}

Executing == {"queued", "checkedout", "ended"}

RefsInv ==
    \A c \in Calls :
        /\ refs[c] = (IF pc[c] \in Waiting THEN 1 ELSE 0) + (IF job[c] \in Executing THEN 1 ELSE 0)
        /\ pc[c] = "out" => job[c] = "none"
        /\ c \in listening => pc[c] \in {"wait", "unlisten"}
        /\ c \in logging => pc[c] \in Waiting

IInv == TypeOK /\ RefsInv

\* The IKE_SA and the CHILD_SA of a call
Place(c) ==
    /\ job[c] = "none" => request[c].op = "none"
    /\ job[c] \in {"none", "queued"} => target[c] = NoSa
    /\ job[c] = "checkedout" => target[c] \in Sas /\ holder[target[c]] = c
    /\ job[c] \in {"none", "queued", "checkedout"} => child[c] = "none"
    /\ child[c] # "none" =>
          request[c].op = "initiate" /\ target[c] \in Sas /\ childOf[c] = target[c]
    /\ \A s \in Sas : holder[s] = c => job[c] = "checkedout" /\ target[c] = s
    /\ request[c].op = "terminate_ike" /\ target[c] # NoSa => target[c] = request[c].on
    /\ job[c] = "checkedout" /\ request[c].op = "terminate_child" =>
          /\ child[request[c].on] \in {"installed", "deleting"}
          /\ childOf[request[c].on] = target[c]

\* The call reports the answer, or will unless it comes to another status.
Says(c, answer) == (done[c] /\ status[c] = answer) \/ report[c] = answer

\* It says nothing before its job let go of the IKE_SA, and no success without
\* an IKE_SA; a success is told as soon as it is there.
Early(c) ==
    /\ job[c] \in {"none", "queued", "checkedout"} => ~Says(c, "SUCCESS") /\ ~Says(c, "FAILED")
    /\ target[c] = NoSa => ~Says(c, "SUCCESS")
    /\ status[c] = "SUCCESS" => done[c]
    /\ pc[c] \in {"unlisten", "unlog"} => done[c] \/ late[c]

\* No other call works on its IKE_SA.
OnlyOn(c) == \A d \in Calls \ {c} : target[d] # target[c]

\* What it says is so.
TrueOf(c) ==
    /\ request[c].op = "initiate" =>
        /\ Says(c, "SUCCESS") /\ ike[target[c]] # "gone" =>
                child[c] \in {"installed", "deleting", "closed"}
        /\ Says(c, "FAILED") => child[c] \notin {"created", "installed"}
    /\ request[c].op = "terminate_ike" /\ Says(c, "SUCCESS") => ike[target[c]] = "gone"

PlaceInv == \A c \in Calls : Place(c)
EarlyInv == \A c \in Calls : Early(c)
TrueInv == \A c \in Calls : target[c] # NoSa /\ OnlyOn(c) => TrueOf(c)

SaysInv == PlaceInv /\ EarlyInv /\ TrueInv

---------------------------------------------------------------------------
(* The initial state *)

LEMMA InitIInv == Init => IInv
BY DEF Init, IInv, TypeOK, RefsInv, Request, Status, Waiting, Executing

---------------------------------------------------------------------------
(* Events of the bus: they post semaphores and take listeners off the bus  *)

\* What an event may do to the listeners.
Events ==
    /\ status' \in [Calls -> Status]
    /\ done' \in [Calls -> BOOLEAN]
    /\ listening' \subseteq listening
    /\ spared' \subseteq Calls
    /\ UNCHANGED <<target, logging>>

LEMMA ConcernedListen == \A s : Concerned(s) \subseteq listening
BY DEF Concerned

LEMMA IkeDestroyingEvents ==
    ASSUME TypeOK, NEW s, NEW v \in [Calls -> Status], IkeDestroying(s, v)
    PROVE  Events
<1>1. StatusAtIkeEnd(s, v) \in [Calls -> Status]
  BY DEF StatusAtIkeEnd, Status
<1> QED BY <1>1 DEF IkeDestroying, Events, TypeOK

LEMMA ChildEvents ==
    ASSUME TypeOK, NEW s, Succeeding(s) \/ ChildRetrying(s) \/ ChildFailing(s)
    PROVE  Events
<1>1. CASE Succeeding(s)
  BY <1>1 DEF Succeeding, Events, TypeOK, Status
<1>2. CASE ChildRetrying(s)
  BY <1>2 DEF ChildRetrying, Events, TypeOK, Status
<1>3. CASE ChildFailing(s)
  <2>1. Survivors(s) \subseteq Calls
    BY DEF Survivors, Concerned, TypeOK
  <2> QED BY <1>3, <2>1 DEF ChildFailing, Events, TypeOK, Status
<1> QED BY <1>1, <1>2, <1>3

\* An event of the IKE_SAs changes nothing that the references count.
LEMMA EventsIInv ==
    ASSUME IInv, Events, UNCHANGED <<callVars, refs>>,
           job' = job \/ (\E c \in Calls : /\ job[c] \in Executing
                                          /\ job' = [job EXCEPT ![c] = "ended"]),
           ike' \in [Sas -> {"none", "connecting", "established", "deleting", "gone"}],
           holder' \in [Sas -> Calls \cup {NoCall}],
           child' \in [Calls -> {"none", "created", "installed", "deleting", "failed", "closed"}],
           childOf' \in [Calls -> Sas \cup {NoSa}]
    PROVE  IInv'
<1>1. job' \in [Calls -> {"none", "queued", "checkedout", "ended", "gone"}]
  BY DEF IInv, TypeOK
<1>2. TypeOK'
  BY <1>1 DEF IInv, TypeOK, Events, callVars
<1>3. RefsInv'
  <2>1. \A c \in Calls : job'[c] \in Executing <=> job[c] \in Executing
    BY DEF IInv, TypeOK, Executing
  <2>2. \A c \in Calls : job'[c] = "none" <=> job[c] = "none"
    BY DEF IInv, TypeOK, Executing
  <2> QED BY <2>1, <2>2 DEF IInv, RefsInv, Events, callVars
<1> QED BY <1>2, <1>3 DEF IInv

---------------------------------------------------------------------------
(* The caller *)

LEMMA CalledIInv ==
    ASSUME IInv, NEW c \in Calls, NEW r \in Asked, Called(c, r)
    PROVE  IInv'
<1>1. TypeOK'
  BY DEF IInv, TypeOK, Called, Asked, RefsTaken, saVars
<1>2. RefsInv'
  <2>1. pc[c] = "out" /\ c \notin listening /\ c \notin logging
    BY DEF IInv, RefsInv, Called, Waiting
  <2> QED BY <2>1 DEF IInv, TypeOK, RefsInv, Called, RefsTaken, Waiting, Executing
<1> QED BY <1>1, <1>2 DEF IInv

LEMMA CallerIInv ==
    ASSUME IInv, NEW c \in Calls, Caller(c)
    PROVE  IInv'
<1>1. CASE Woken(c) \/ TimesOut(c)
  <2>1. /\ pc[c] = "wait" /\ pc' = [pc EXCEPT ![c] = "unlisten"]
        /\ UNCHANGED <<request, report, jobVars, listenerVars, saVars>>
        /\ late' \in [Calls -> BOOLEAN]
    BY <1>1 DEF IInv, TypeOK, Woken, TimesOut
  <2>2. TypeOK'
    BY <2>1 DEF IInv, TypeOK, jobVars, listenerVars, saVars
  <2>3. RefsInv'
    BY <2>1 DEF IInv, TypeOK, RefsInv, Waiting, jobVars, listenerVars
  <2> QED BY <2>2, <2>3 DEF IInv
<1>2. CASE Unlisten(c)
  BY <1>2 DEF IInv, TypeOK, RefsInv, Unlisten, Waiting, jobVars, saVars
<1>3. CASE Returns(c)
  <2>1. pc[c] = "unlog" /\ c \notin listening
    BY <1>3 DEF IInv, RefsInv, Returns
  <2>2. refs' = [refs EXCEPT ![c] = IF job[c] \in Executing THEN 1 ELSE 0]
    <3>1. refs[c] - 1 = IF job[c] \in Executing THEN 1 ELSE 0
      BY <2>1 DEF IInv, RefsInv, Waiting
    <3> QED BY <1>3, <3>1 DEF Returns
  <2>3. TypeOK'
    BY <1>3, <2>2 DEF IInv, TypeOK, Returns, Returned, Status, saVars
  <2>4. RefsInv'
    BY <1>3, <2>1, <2>2 DEF IInv, TypeOK, RefsInv, Returns, Waiting
  <2> QED BY <2>3, <2>4 DEF IInv
<1> QED BY <1>1, <1>2, <1>3 DEF Caller

LEMMA RefusesIInv ==
    ASSUME IInv, NEW c \in Calls, CallbackRefuses(c)
    PROVE  IInv'
BY DEF IInv, TypeOK, RefsInv, CallbackRefuses, Status, callVars, jobVars, saVars

---------------------------------------------------------------------------
(* The job *)

LEMMA JobBeginsIInv ==
    ASSUME IInv, NEW c \in Calls, FindsNothing(c) \/ \E s \in Sas : Checkout(c, s)
    PROVE  IInv'
<1>1. CASE FindsNothing(c)
  BY <1>1 DEF IInv, TypeOK, RefsInv, FindsNothing, StatusUnfound, Unfound, Status,
              Waiting, Executing, callVars, saVars
<1>2. ASSUME NEW s \in Sas, Checkout(c, s) PROVE IInv'
  <2>1. TypeOK'
    BY <1>2 DEF IInv, TypeOK, Checkout, callVars
  <2>2. RefsInv'
    BY <1>2 DEF IInv, TypeOK, RefsInv, Checkout, Waiting, Executing, callVars
  <2> QED BY <2>1, <2>2 DEF IInv
<1> QED BY <1>1, <1>2

\* The IKE_SA that the job holds is not destroyed.
LEMMA JobGoesOnIInv ==
    ASSUME IInv, NEW c \in Calls, NEW s \in Sas,
           Initiates(c, s) \/ DeletesIke(c, s) \/ DeletesChild(c, s)
    PROVE  IInv'
<1>1. Events /\ UNCHANGED <<callVars, refs>>
  BY DEF IInv, TypeOK, Events, Initiates, DeletesIke, DeletesChild, listenerVars, Status
<1>2. job[c] \in Executing /\ job' = [job EXCEPT ![c] = "ended"]
  BY DEF Initiates, DeletesIke, DeletesChild, CheckedIn, Executing
<1>3. /\ ike' \in [Sas -> {"none", "connecting", "established", "deleting", "gone"}]
      /\ holder' \in [Sas -> Calls \cup {NoCall}]
      /\ child' \in [Calls -> {"none", "created", "installed", "deleting", "failed", "closed"}]
      /\ childOf' \in [Calls -> Sas \cup {NoSa}]
  BY DEF IInv, TypeOK, Initiates, DeletesIke, DeletesChild, CheckedIn
<1> QED BY <1>1, <1>2, <1>3, EventsIInv

LEMMA ChildrenOfGoneType ==
    ASSUME TypeOK, NEW s
    PROVE  ChildrenOfGone(s) \in
              [Calls -> {"none", "created", "installed", "deleting", "failed", "closed"}]
BY DEF TypeOK, ChildrenOfGone

LEMMA JobDestroysIInv ==
    ASSUME IInv, NEW c \in Calls, NEW s \in Sas,
           InitiateFails(c, s) \/ DestroysIke(c, s) \/ DeleteChildFails(c, s)
    PROVE  IInv'
<1>1. PICK v \in [Calls -> Status] : CheckedInDestroyed(c, s, v)
  BY DEF IInv, TypeOK, InitiateFails, DestroysIke, DeleteChildFails, Status
<1>2. Events
  BY <1>1, IkeDestroyingEvents DEF IInv, CheckedInDestroyed
<1>3. job[c] \in Executing /\ job' = [job EXCEPT ![c] = "ended"]
  BY <1>1 DEF InitiateFails, DestroysIke, DeleteChildFails, CheckedInDestroyed, CheckedIn,
              Executing
<1>4. UNCHANGED <<callVars, refs, childOf>>
  BY DEF InitiateFails, DestroysIke, DeleteChildFails
<1>5. /\ ike' \in [Sas -> {"none", "connecting", "established", "deleting", "gone"}]
      /\ holder' \in [Sas -> Calls \cup {NoCall}]
      /\ childOf' \in [Calls -> Sas \cup {NoSa}]
  BY <1>1, <1>4 DEF IInv, TypeOK, CheckedInDestroyed, CheckedIn
<1>6. child' \in [Calls -> {"none", "created", "installed", "deleting", "failed", "closed"}]
  BY <1>1, ChildrenOfGoneType DEF IInv, CheckedInDestroyed
<1> QED BY <1>2, <1>3, <1>4, <1>5, <1>6, EventsIInv

LEMMA DestroyedIInv ==
    ASSUME IInv, NEW c \in Calls, Destroyed(c)
    PROVE  IInv'
<1>1. refs' = [refs EXCEPT ![c] = IF pc[c] \in Waiting THEN 1 ELSE 0]
  <2>1. refs[c] - 1 = IF pc[c] \in Waiting THEN 1 ELSE 0
    BY DEF IInv, RefsInv, Destroyed, Executing
  <2> QED BY <2>1 DEF Destroyed
<1>2. TypeOK'
  BY <1>1 DEF IInv, TypeOK, Destroyed, callVars, listenerVars, saVars
<1>3. RefsInv'
  BY <1>1 DEF IInv, TypeOK, RefsInv, Destroyed, Executing, callVars, listenerVars
<1> QED BY <1>2, <1>3 DEF IInv

---------------------------------------------------------------------------
(* The IKE_SAs *)

LEMMA PeerIInv ==
    ASSUME IInv, Peer
    PROVE  IInv'
<1>1. ASSUME NEW d \in Calls,
             ChildInstalled(d) \/ ChildFails(d) \/ ChildRetries(d) \/ ChildDeleted(d)
      PROVE  IInv'
  <2>1. Events
    BY <1>1, ChildEvents DEF IInv, ChildInstalled, ChildFails, ChildRetries, ChildDeleted
  <2>2. UNCHANGED <<callVars, jobVars, holder, childOf>>
    BY <1>1 DEF ChildInstalled, ChildFails, ChildRetries, ChildDeleted
  <2>3. /\ ike' \in [Sas -> {"none", "connecting", "established", "deleting", "gone"}]
        /\ child' \in [Calls -> {"none", "created", "installed", "deleting", "failed", "closed"}]
    BY <1>1 DEF IInv, TypeOK, ChildInstalled, ChildFails, ChildRetries, ChildDeleted, Answered
  <2> QED BY <2>1, <2>2, <2>3, EventsIInv DEF IInv, TypeOK, jobVars
<1>2. ASSUME NEW s \in Sas, IkeFromPeer(s) \/ IkeDeletedByPeer(s)
      PROVE  IInv'
  <2>1. UNCHANGED <<callVars, jobVars, listenerVars, holder, child, childOf>>
    BY <1>2 DEF IkeFromPeer, IkeDeletedByPeer
  <2>2. ike' \in [Sas -> {"none", "connecting", "established", "deleting", "gone"}]
    BY <1>2 DEF IInv, TypeOK, IkeFromPeer, IkeDeletedByPeer
  <2>3. Events
    BY <2>1 DEF IInv, TypeOK, Events, listenerVars
  <2> QED BY <2>1, <2>2, <2>3, EventsIInv DEF IInv, TypeOK, jobVars
<1>3. ASSUME NEW s \in Sas, IkeDestroyed(s)
      PROVE  IInv'
  <2>1. Events
    BY <1>3, IkeDestroyingEvents DEF IInv, TypeOK, IkeDestroyed
  <2>2. UNCHANGED <<callVars, jobVars, holder, childOf>>
    BY <1>3 DEF IkeDestroyed
  <2>3. /\ ike' \in [Sas -> {"none", "connecting", "established", "deleting", "gone"}]
        /\ child' \in [Calls -> {"none", "created", "installed", "deleting", "failed", "closed"}]
    BY <1>3, ChildrenOfGoneType DEF IInv, TypeOK, IkeDestroyed
  <2> QED BY <2>1, <2>2, <2>3, EventsIInv DEF IInv, TypeOK, jobVars
<1> QED BY <1>1, <1>2, <1>3 DEF Peer

---------------------------------------------------------------------------

LEMMA NextIInv == IInv /\ [Next]_vars => IInv'
<1> SUFFICES ASSUME IInv, [Next]_vars PROVE IInv'
  OBVIOUS
<1>1. ASSUME NEW c \in Calls, NEW r \in Asked, Called(c, r) PROVE IInv'
  BY <1>1, CalledIInv
<1>2. ASSUME NEW c \in Calls, Caller(c) \/ CallbackRefuses(c) PROVE IInv'
  BY <1>2, CallerIInv, RefusesIInv
<1>3. ASSUME NEW c \in Calls, Job(c) PROVE IInv'
  BY <1>3, JobBeginsIInv, JobGoesOnIInv, JobDestroysIInv, DestroyedIInv DEF Job
<1>4. CASE Peer
  BY <1>4, PeerIInv
<1>5. CASE UNCHANGED vars
  BY <1>5 DEF vars, callVars, jobVars, listenerVars, saVars, IInv, TypeOK, RefsInv
<1> QED BY <1>1, <1>2, <1>3, <1>4, <1>5 DEF Next

---------------------------------------------------------------------------
(* The IKE_SA and the CHILD_SA of a call *)

LEMMA InitSays == Init => SaysInv
BY NoSaAssumption, NoCallAssumption
DEF Init, SaysInv, PlaceInv, Place, EarlyInv, Early, Says, TrueInv

LEMMA SamePlace ==
    ASSUME PlaceInv, UNCHANGED <<request, target, child, childOf, holder>>,
           \A c \in Calls : job'[c] = job[c] \/ (job[c] = "ended" /\ job'[c] = "gone")
    PROVE  PlaceInv'
BY DEF PlaceInv, Place

LEMMA ChildrenOfGoneNone ==
    ASSUME TypeOK, NEW s, NEW c \in Calls
    PROVE  ChildrenOfGone(s)[c] = "none" <=> child[c] = "none"
BY DEF TypeOK, ChildrenOfGone

LEMMA ChildrenOfOthers ==
    ASSUME NEW s, NEW c \in Calls, childOf[c] # s
    PROVE  ChildrenOfGone(s)[c] = child[c]
BY DEF ChildrenOfGone

LEMMA JobPlace ==
    ASSUME IInv, PlaceInv, NEW c \in Calls, Job(c)
    PROVE  PlaceInv'
<1> USE NoSaAssumption, NoCallAssumption
<1>1. CASE FindsNothing(c)
  BY <1>1 DEF FindsNothing, PlaceInv, Place, IInv, TypeOK, callVars, saVars
<1>2. CASE Destroyed(c)
  BY <1>2, SamePlace DEF Destroyed, IInv, TypeOK, callVars, listenerVars, saVars
<1>3. ASSUME NEW s \in Sas, Checkout(c, s) PROVE PlaceInv'
  <2>1. /\ job[c] = "queued" /\ holder[s] = NoCall
        /\ request[c].op = "terminate_ike" => request[c].on = s
        /\ request[c].op = "terminate_child" =>
              child[request[c].on] \in {"installed", "deleting"} /\ childOf[request[c].on] = s
        /\ holder' = [holder EXCEPT ![s] = c] /\ target' = [target EXCEPT ![c] = s]
        /\ job' = [job EXCEPT ![c] = "checkedout"]
        /\ UNCHANGED <<request, child, childOf>>
    BY <1>3 DEF Checkout, Usable, Exists, Named, callVars
  <2>2. ASSUME NEW d \in Calls PROVE Place(d)'
    <3>1. CASE d = c
      BY <2>1, <3>1 DEF PlaceInv, Place, IInv, TypeOK
    <3>2. CASE d # c
      BY <2>1, <3>2 DEF PlaceInv, Place, IInv, TypeOK
    <3> QED BY <3>1, <3>2
  <2> QED BY <2>2 DEF PlaceInv
<1>4. ASSUME NEW s \in Sas, Initiates(c, s) PROVE PlaceInv'
  BY <1>4 DEF Initiates, CheckedIn, PlaceInv, Place, IInv, TypeOK, callVars, listenerVars
<1>5. ASSUME NEW s \in Sas, DeletesIke(c, s) PROVE PlaceInv'
  BY <1>5 DEF DeletesIke, CheckedIn, PlaceInv, Place, IInv, TypeOK, callVars
<1>6. ASSUME NEW s \in Sas, DeletesChild(c, s) PROVE PlaceInv'
  <2> DEFINE d == request[c].on
  <2>1. /\ job[c] = "checkedout" /\ holder[s] = c /\ request[c].op = "terminate_child"
        /\ holder' = [holder EXCEPT ![s] = NoCall] /\ job' = [job EXCEPT ![c] = "ended"]
        /\ child' = [child EXCEPT ![d] = "deleting"]
        /\ UNCHANGED <<request, target, childOf>>
    BY <1>6 DEF DeletesChild, CheckedIn, callVars, listenerVars
  <2>2. child[d] \in {"installed", "deleting"} /\ d \in Calls
    BY <2>1 DEF PlaceInv, Place, IInv, TypeOK, Request
  <2> HIDE DEF d
  <2> QED BY <2>1, <2>2 DEF PlaceInv, Place, IInv, TypeOK
<1>7. ASSUME NEW s \in Sas,
             InitiateFails(c, s) \/ DestroysIke(c, s) \/ DeleteChildFails(c, s)
      PROVE  PlaceInv'
  <2>1. /\ job[c] = "checkedout" /\ holder[s] = c
        /\ holder' = [holder EXCEPT ![s] = NoCall] /\ job' = [job EXCEPT ![c] = "ended"]
        /\ child' = ChildrenOfGone(s)
        /\ UNCHANGED <<request, target, childOf>>
    BY <1>7 DEF InitiateFails, DestroysIke, DeleteChildFails, CheckedInDestroyed, CheckedIn,
                IkeDestroying, callVars
  <2>2. \A d \in Calls : /\ child'[d] = "none" <=> child[d] = "none"
                         /\ childOf[d] # s => child'[d] = child[d]
    BY <2>1, ChildrenOfGoneNone, ChildrenOfOthers DEF IInv
  <2>3. ASSUME NEW d \in Calls PROVE Place(d)'
    <3>1. Place(c) /\ Place(d)
      BY DEF PlaceInv
    <3>2. CASE d = c
      BY <2>1, <2>2, <3>1, <3>2 DEF Place, IInv, TypeOK
    <3>3. CASE d # c
      <4>1. job'[d] = job[d]
        BY <2>1, <3>3 DEF IInv, TypeOK
      <4>2. job[d] = "checkedout" => target[d] # s /\ holder'[target[d]] = d
        BY <2>1, <3>1, <3>3 DEF Place, IInv, TypeOK
      <4>3. \A x \in Sas : holder'[x] = d => holder[x] = d
        BY <2>1, NoCallAssumption DEF IInv, TypeOK
      <4>4. request[d].op = "terminate_child" => request[d].on \in Calls
        BY DEF IInv, TypeOK, Request
      <4> QED BY <2>1, <2>2, <3>1, <4>1, <4>2, <4>3, <4>4 DEF Place
    <3> QED BY <3>2, <3>3
  <2> QED BY <2>3 DEF PlaceInv
<1> QED BY <1>1, <1>2, <1>3, <1>4, <1>5, <1>6, <1>7 DEF Job

\* An event is of an IKE_SA that no job holds.
LEMMA EventPlace ==
    ASSUME IInv, PlaceInv, UNCHANGED <<request, job, target, childOf, holder>>,
           NEW s \in Sas, holder[s] = NoCall,
           \A c \in Calls : /\ child'[c] = "none" <=> child[c] = "none"
                            /\ childOf[c] # s => child'[c] = child[c]
    PROVE  PlaceInv'
<1>1. \A c \in Calls : job[c] = "checkedout" => target[c] # s
  BY NoCallAssumption DEF PlaceInv, Place
<1>2. \A c \in Calls : request[c].op = "terminate_child" => request[c].on \in Calls
  BY DEF IInv, TypeOK, Request
<1>3. ASSUME NEW c \in Calls PROVE Place(c)'
  <2>1. Place(c)
    BY DEF PlaceInv
  <2> QED BY <1>1, <1>2, <2>1 DEF Place
<1> QED BY <1>3 DEF PlaceInv

LEMMA PeerPlace ==
    ASSUME IInv, PlaceInv, Peer
    PROVE  PlaceInv'
<1>1. ASSUME NEW d \in Calls,
             ChildInstalled(d) \/ ChildFails(d) \/ ChildRetries(d) \/ ChildDeleted(d)
      PROVE  PlaceInv'
  <2>1. child[d] # "none" /\ holder[childOf[d]] = NoCall
    BY <1>1 DEF ChildInstalled, ChildFails, ChildRetries, ChildDeleted, Handled
  <2>2. childOf[d] \in Sas
    BY <2>1 DEF PlaceInv, Place
  <2>3. /\ UNCHANGED <<request, job, target, childOf, holder>>
        /\ \E x \in {"created", "installed", "failed", "closed"} : child' = [child EXCEPT ![d] = x]
    <3>1. CASE ChildInstalled(d)
      BY <3>1 DEF ChildInstalled, Succeeding, callVars, jobVars
    <3>2. CASE ChildFails(d)
      BY <3>2 DEF ChildFails, ChildFailing, callVars, jobVars
    <3>3. CASE ChildRetries(d)
      <4>1. child' = [child EXCEPT ![d] = "created"]
        BY <3>3 DEF ChildRetries, IInv, TypeOK
      <4> QED BY <3>3, <4>1 DEF ChildRetries, ChildRetrying, callVars, jobVars
    <3>4. CASE ChildDeleted(d)
      BY <3>4 DEF ChildDeleted, Succeeding, callVars, jobVars
    <3> QED BY <1>1, <3>1, <3>2, <3>3, <3>4
  <2>4. \A c \in Calls : childOf[c] # childOf[d] => c # d
    OBVIOUS
  <2>5. \A c \in Calls : /\ child'[c] = "none" <=> child[c] = "none"
                         /\ childOf[c] # childOf[d] => child'[c] = child[c]
    BY <2>1, <2>3, <2>4 DEF IInv, TypeOK
  <2> QED BY <2>1, <2>2, <2>3, <2>5, EventPlace
<1>2. ASSUME NEW s \in Sas, IkeFromPeer(s) \/ IkeDeletedByPeer(s) PROVE PlaceInv'
  BY <1>2, SamePlace DEF IkeFromPeer, IkeDeletedByPeer, callVars, jobVars, listenerVars
<1>3. ASSUME NEW s \in Sas, IkeDestroyed(s) PROVE PlaceInv'
  <2>1. /\ child' = ChildrenOfGone(s) /\ holder[s] = NoCall
        /\ UNCHANGED <<request, job, target, childOf, holder>>
    BY <1>3 DEF IkeDestroyed, IkeDestroying, Handled, callVars, jobVars
  <2> QED BY <2>1, ChildrenOfGoneNone, ChildrenOfOthers, EventPlace DEF IInv
<1> QED BY <1>1, <1>2, <1>3 DEF Peer

LEMMA NextPlace == IInv /\ PlaceInv /\ [Next]_vars => PlaceInv'
<1> SUFFICES ASSUME IInv, PlaceInv, [Next]_vars PROVE PlaceInv'
  OBVIOUS
<1>1. ASSUME NEW c \in Calls, NEW r \in Asked, Called(c, r) PROVE PlaceInv'
  <2>1. job[c] = "none"
    BY <1>1 DEF IInv, RefsInv, Called
  <2> QED BY <1>1, <2>1, NoCallAssumption DEF Called, PlaceInv, Place, IInv, TypeOK, saVars
<1>2. ASSUME NEW c \in Calls, Caller(c) \/ CallbackRefuses(c) PROVE PlaceInv'
  BY <1>2, SamePlace
  DEF Caller, Woken, TimesOut, Unlisten, Returns, CallbackRefuses, IInv, TypeOK, callVars,
      jobVars, listenerVars, saVars
<1>3. ASSUME NEW c \in Calls, Job(c) PROVE PlaceInv'
  BY <1>3, JobPlace
<1>4. CASE Peer
  BY <1>4, PeerPlace
<1>5. CASE UNCHANGED vars
  BY <1>5, SamePlace DEF vars, callVars, jobVars, listenerVars, saVars
<1> QED BY <1>1, <1>2, <1>3, <1>4, <1>5 DEF Next

---------------------------------------------------------------------------
(* What the status of a call may say, and when *)

Unfinished == {"none", "queued", "checkedout"}

\* An event of IKE_SA s tells the calls of s something, whose jobs have let go of it.
LEMMA EventEarly ==
    ASSUME IInv, EarlyInv, UNCHANGED <<pc, report, late, target>>, NEW s \in Sas,
           \A c \in Calls : /\ job'[c] = job[c] \/ job'[c] = "ended"
                            /\ target[c] = s => job'[c] \notin Unfinished
                            /\ done[c] => done'[c]
                            /\ status'[c] = "SUCCESS" => done'[c]
                            /\ target[c] # s => status'[c] = status[c] /\ done'[c] = done[c]
    PROVE  EarlyInv'
<1>1. ASSUME NEW c \in Calls PROVE Early(c)'
  <2>1. Early(c)
    BY DEF EarlyInv
  <2>2. CASE target[c] = s
    BY <2>1, <2>2, NoSaAssumption DEF Early, Says, Unfinished
  <2>3. CASE target[c] # s
    BY <2>1, <2>3 DEF Early, Says, Unfinished
  <2> QED BY <2>2, <2>3
<1> QED BY <1>1 DEF EarlyInv

\* No job of a call of s is unfinished, but the one that holds s.
LEMMA Holding ==
    ASSUME IInv, PlaceInv, NEW s \in Sas, NEW c \in Calls, target[c] = s, job[c] \in Unfinished
    PROVE  holder[s] = c
BY NoSaAssumption DEF PlaceInv, Place, Unfinished

\* An event changes nothing for the calls of other IKE_SAs.
Told(s, v) ==
    \A c \in Calls : /\ done[c] => done'[c]
                     /\ status'[c] = "SUCCESS" => done'[c]
                     /\ target[c] # s => status'[c] = v[c] /\ done'[c] = done[c]

LEMMA IkeTold ==
    ASSUME IInv, EarlyInv, NEW s, NEW v \in [Calls -> Status], IkeDestroying(s, v),
           \A c \in Calls : v[c] = "SUCCESS" => status[c] = "SUCCESS"
    PROVE  Told(s, v)
<1>1. ASSUME NEW c \in Calls, c \in Concerned(s)
      PROVE  done'[c] /\ target[c] = s
  BY <1>1 DEF IkeDestroying, Concerned
<1>2. ASSUME NEW c \in Calls, c \notin Concerned(s)
      PROVE  status'[c] = v[c] /\ done'[c] = done[c]
  BY <1>2 DEF IkeDestroying, IInv, TypeOK
<1>3. \A c \in Calls : status[c] = "SUCCESS" => done[c]
  BY DEF EarlyInv, Early
<1> QED BY <1>1, <1>2, <1>3 DEF Told

LEMMA ChildTold ==
    ASSUME IInv, EarlyInv, NEW s, Succeeding(s) \/ ChildRetrying(s) \/ ChildFailing(s)
    PROVE  Told(s, status)
<1>1. \A c \in Calls : status[c] = "SUCCESS" => done[c]
  BY DEF EarlyInv, Early
<1>2. \A c \in Calls : target[c] # s => c \notin Concerned(s)
  BY DEF Concerned
<1>3. CASE Succeeding(s)
  BY <1>1, <1>2, <1>3 DEF Succeeding, Told, IInv, TypeOK
<1>4. CASE ChildRetrying(s)
  BY <1>1, <1>2, <1>4 DEF ChildRetrying, Told, IInv, TypeOK
<1>5. CASE ChildFailing(s)
  BY <1>1, <1>2, <1>5 DEF ChildFailing, Survivors, Told, IInv, TypeOK
<1> QED BY <1>3, <1>4, <1>5

\* What a job that destroys IKE_SA s does, whatever it was asked for
JobDestroys(c, s, v) ==
    /\ job[c] = "checkedout" /\ holder[s] = c
    /\ v \in [Calls -> Status]
    /\ \A d \in Calls : /\ v[d] = "SUCCESS" => status[d] = "SUCCESS"
                        /\ d # c => v[d] = status[d]
    /\ CheckedInDestroyed(c, s, v)
    /\ UNCHANGED <<callVars, refs, childOf>>

LEMMA Destroying ==
    ASSUME IInv, NEW c \in Calls, NEW s \in Sas,
           InitiateFails(c, s) \/ DestroysIke(c, s) \/ DeleteChildFails(c, s)
    PROVE  \E v : JobDestroys(c, s, v)
<1> DEFINE f == [status EXCEPT ![c] = "FAILED"]
<1>1. /\ f \in [Calls -> Status] /\ status \in [Calls -> Status]
      /\ \A d \in Calls : /\ f[d] = "SUCCESS" => status[d] = "SUCCESS"
                          /\ d # c => f[d] = status[d]
  BY DEF IInv, TypeOK, Status
<1>2. CASE InitiateFails(c, s)
  BY <1>1, <1>2 DEF InitiateFails, JobDestroys
<1>3. CASE DestroysIke(c, s)
  BY <1>1, <1>3 DEF DestroysIke, JobDestroys
<1>4. CASE DeleteChildFails(c, s)
  BY <1>1, <1>4 DEF DeleteChildFails, JobDestroys
<1> QED BY <1>2, <1>3, <1>4

LEMMA JobDestroysTold ==
    ASSUME IInv, PlaceInv, EarlyInv, NEW c \in Calls, NEW s \in Sas, NEW v, JobDestroys(c, s, v)
    PROVE  target[c] = s /\ Told(s, status) /\ UNCHANGED target
<1>1. target[c] = s
  BY DEF JobDestroys, PlaceInv, Place
<1>2. Told(s, v) /\ UNCHANGED target
  BY IkeTold DEF JobDestroys, CheckedInDestroyed, IkeDestroying
<1>3. \A d \in Calls : target[d] # s => v[d] = status[d]
  BY <1>1 DEF JobDestroys
<1> QED BY <1>1, <1>2, <1>3 DEF Told

LEMMA JobEarly ==
    ASSUME IInv, PlaceInv, EarlyInv, NEW c \in Calls, Job(c)
    PROVE  EarlyInv'
<1> USE NoSaAssumption, NoCallAssumption
<1>1. CASE FindsNothing(c)
  <2>1. ASSUME NEW d \in Calls PROVE Early(d)'
    <3>1. Early(d) /\ Place(d)
      BY DEF EarlyInv, PlaceInv
    <3>2. /\ job[c] = "queued" /\ job' = [job EXCEPT ![c] = "ended"]
          /\ \E x \in {"FAILED", "NOT_FOUND"} : status' = [status EXCEPT ![c] = x]
          /\ done' = [done EXCEPT ![c] = TRUE]
          /\ UNCHANGED <<pc, late, report, target>>
      BY <1>1 DEF FindsNothing, StatusUnfound, Unfound, callVars
    <3> QED BY <3>1, <3>2 DEF Early, Says, IInv, TypeOK
  <2> QED BY <2>1 DEF EarlyInv
<1>2. CASE Destroyed(c)
  <2>1. \A d \in Calls : job'[d] \in Unfinished => job[d] \in Unfinished
    BY <1>2 DEF Destroyed, Unfinished, IInv, TypeOK
  <2>2. UNCHANGED <<pc, status, done, late, target, report>>
    BY <1>2 DEF Destroyed, callVars, listenerVars
  <2> QED BY <2>1, <2>2 DEF EarlyInv, Early, Says, Unfinished
<1>3. ASSUME NEW s \in Sas, Checkout(c, s) PROVE EarlyInv'
  <2>1. /\ job[c] = "queued" /\ job' = [job EXCEPT ![c] = "checkedout"]
        /\ target' = [target EXCEPT ![c] = s]
        /\ UNCHANGED <<pc, status, done, late, report>>
    BY <1>3 DEF Checkout, callVars
  <2> QED BY <2>1 DEF EarlyInv, Early, Says, IInv, TypeOK
<1>4. ASSUME NEW s \in Sas, Initiates(c, s) \/ DeletesChild(c, s) PROVE EarlyInv'
  <2>1. /\ job[c] = "checkedout" /\ job' = [job EXCEPT ![c] = "ended"]
        /\ UNCHANGED <<pc, status, done, late, report, target>>
    BY <1>4 DEF Initiates, DeletesChild, CheckedIn, callVars, listenerVars
  <2> QED BY <2>1 DEF EarlyInv, Early, Says, IInv, TypeOK
<1>5. ASSUME NEW s \in Sas, DeletesIke(c, s) PROVE EarlyInv'
  <2>1. /\ job[c] = "checkedout" /\ job' = [job EXCEPT ![c] = "ended"]
        /\ status' = [status EXCEPT ![c] = "FAILED"]
        /\ UNCHANGED <<pc, done, late, report, target>>
    BY <1>5 DEF DeletesIke, CheckedIn, callVars
  <2> QED BY <2>1 DEF EarlyInv, Early, Says, IInv, TypeOK
<1>6. ASSUME NEW s \in Sas,
             InitiateFails(c, s) \/ DestroysIke(c, s) \/ DeleteChildFails(c, s)
      PROVE  EarlyInv'
  <2>1. PICK v : JobDestroys(c, s, v)
    BY <1>6, Destroying
  <2>2. Told(s, status) /\ UNCHANGED <<pc, report, late, target>>
    BY <2>1, JobDestroysTold DEF JobDestroys, callVars
  <2>3. /\ holder[s] = c
        /\ job' = [job EXCEPT ![c] = "ended"]
    BY <2>1 DEF JobDestroys, CheckedInDestroyed, CheckedIn
  <2>4. \A d \in Calls : /\ job'[d] = job[d] \/ job'[d] = "ended"
                         /\ target[d] = s => job'[d] \notin Unfinished
    BY <2>3, Holding DEF Unfinished, IInv, TypeOK
  <2> QED BY <2>2, <2>4, EventEarly DEF Told
<1> QED BY <1>1, <1>2, <1>3, <1>4, <1>5, <1>6 DEF Job

\* An event of IKE_SA s that no job holds
PeerEvent(s) ==
    /\ holder[s] = NoCall
    /\ UNCHANGED <<callVars, jobVars, target, holder, childOf>>
    /\ Told(s, status)

LEMMA PeerTells ==
    ASSUME IInv, PlaceInv, EarlyInv
    PROVE  /\ \A d \in Calls :
                 ChildInstalled(d) \/ ChildFails(d) \/ ChildRetries(d) \/ ChildDeleted(d)
                 => childOf[d] \in Sas /\ PeerEvent(childOf[d])
           /\ \A s \in Sas : IkeDestroyed(s) => PeerEvent(s)
<1>1. ASSUME NEW d \in Calls,
             ChildInstalled(d) \/ ChildFails(d) \/ ChildRetries(d) \/ ChildDeleted(d)
      PROVE  childOf[d] \in Sas /\ PeerEvent(childOf[d])
  <2>1. /\ child[d] # "none" /\ holder[childOf[d]] = NoCall
        /\ UNCHANGED <<callVars, jobVars, holder, childOf>>
        /\ Succeeding(childOf[d]) \/ ChildRetrying(childOf[d]) \/ ChildFailing(childOf[d])
    BY <1>1 DEF ChildInstalled, ChildFails, ChildRetries, ChildDeleted, Handled
  <2>2. childOf[d] \in Sas
    BY <2>1 DEF PlaceInv, Place
  <2>3. UNCHANGED target
    BY <2>1 DEF Succeeding, ChildRetrying, ChildFailing
  <2> QED BY <2>1, <2>2, <2>3, ChildTold DEF PeerEvent
<1>2. ASSUME NEW s \in Sas, IkeDestroyed(s) PROVE PeerEvent(s)
  <2>1. status \in [Calls -> Status]
    BY DEF IInv, TypeOK
  <2>2. Told(s, status)
    BY <1>2, <2>1, IkeTold DEF IkeDestroyed
  <2> QED BY <1>2, <2>2 DEF IkeDestroyed, IkeDestroying, Handled, PeerEvent
<1> QED BY <1>1, <1>2

LEMMA PeerEarly ==
    ASSUME IInv, PlaceInv, EarlyInv, Peer
    PROVE  EarlyInv'
<1>1. ASSUME NEW s \in Sas, PeerEvent(s) PROVE EarlyInv'
  <2>1. UNCHANGED <<pc, report, late, target, job>>
    BY <1>1 DEF PeerEvent, callVars, jobVars
  <2>2. \A c \in Calls : target[c] = s => job'[c] \notin Unfinished
    BY <1>1, <2>1, Holding, NoCallAssumption DEF PeerEvent
  <2> QED BY <1>1, <2>1, <2>2, EventEarly DEF PeerEvent, Told
<1>2. ASSUME NEW s \in Sas, IkeFromPeer(s) \/ IkeDeletedByPeer(s) PROVE EarlyInv'
  <2>1. UNCHANGED <<pc, report, late, target, job, status, done>>
    BY <1>2 DEF IkeFromPeer, IkeDeletedByPeer, callVars, jobVars, listenerVars
  <2> QED BY <2>1 DEF EarlyInv, Early, Says
<1> QED BY <1>1, <1>2, PeerTells DEF Peer

LEMMA CallerEarly ==
    ASSUME IInv, EarlyInv, NEW c \in Calls, Caller(c) \/ CallbackRefuses(c)
    PROVE  /\ EarlyInv'
           /\ \A d \in Calls : /\ Says(d, "SUCCESS")' => Says(d, "SUCCESS")
                               /\ Says(d, "FAILED")' => Says(d, "FAILED")
<1>1. CASE Woken(c) \/ TimesOut(c)
  <2>1. /\ pc' = [pc EXCEPT ![c] = "unlisten"]
        /\ done[c] \/ late'[c]
        /\ \A d \in Calls : late[d] => late'[d]
        /\ UNCHANGED <<report, job, status, done, target>>
    BY <1>1 DEF Woken, TimesOut, jobVars, listenerVars, IInv, TypeOK
  <2>2. ASSUME NEW d \in Calls PROVE Early(d)'
    <3>1. Early(d)
      BY DEF EarlyInv
    <3>2. pc'[d] \in {"unlisten", "unlog"} => done'[d] \/ late'[d]
      <4>1. CASE d = c
        BY <2>1, <4>1
      <4>2. CASE d # c
        <5>1. pc'[d] = pc[d]
          BY <2>1, <4>2 DEF IInv, TypeOK
        <5> QED BY <2>1, <3>1, <5>1 DEF Early
      <4> QED BY <4>1, <4>2
    <3> QED BY <2>1, <3>1, <3>2 DEF Early, Says
  <2> QED BY <2>1, <2>2 DEF EarlyInv, Says
<1>2. CASE Unlisten(c)
  <2>1. /\ pc[c] = "unlisten" /\ pc' = [pc EXCEPT ![c] = "unlog"]
        /\ UNCHANGED <<report, job, late, status, done, target>>
    BY <1>2 DEF Unlisten, jobVars
  <2> QED BY <2>1 DEF EarlyInv, Early, Says, IInv, TypeOK
<1>3. CASE Returns(c)
  <2>1. /\ pc[c] = "unlog" /\ pc' = [pc EXCEPT ![c] = "back"]
        /\ report' = [report EXCEPT ![c] = IF late[c] THEN "OUT_OF_RES" ELSE status[c]]
        /\ UNCHANGED <<job, late, status, done, target>>
    BY <1>3 DEF Returns, Returned
  <2>2. late[c] \/ done[c]
    BY <2>1 DEF EarlyInv, Early
  <2>3. \A d \in Calls : /\ Says(d, "SUCCESS")' => Says(d, "SUCCESS")
                         /\ Says(d, "FAILED")' => Says(d, "FAILED")
    BY <2>1, <2>2 DEF Says, IInv, TypeOK
  <2> QED BY <2>1, <2>3 DEF EarlyInv, Early, IInv, TypeOK
<1>4. CASE CallbackRefuses(c)
  <2>1. /\ status' = [status EXCEPT ![c] = "NEED_MORE"] /\ done' = [done EXCEPT ![c] = TRUE]
        /\ UNCHANGED <<pc, report, job, late, target>>
    BY <1>4 DEF CallbackRefuses, callVars, jobVars
  <2> QED BY <2>1 DEF EarlyInv, Early, Says, IInv, TypeOK
<1> QED BY <1>1, <1>2, <1>3, <1>4 DEF Caller

LEMMA NextEarly == IInv /\ PlaceInv /\ EarlyInv /\ [Next]_vars => EarlyInv'
<1> SUFFICES ASSUME IInv, PlaceInv, EarlyInv, [Next]_vars PROVE EarlyInv'
  OBVIOUS
<1>1. ASSUME NEW c \in Calls, NEW r \in Asked, Called(c, r) PROVE EarlyInv'
  <2>1. /\ job[c] = "none" /\ job' = [job EXCEPT ![c] = "queued"]
        /\ pc' = [pc EXCEPT ![c] = "wait"]
        /\ UNCHANGED <<late, report, status, done, target>>
    BY <1>1 DEF IInv, RefsInv, Called
  <2> QED BY <2>1 DEF EarlyInv, Early, Says, IInv, TypeOK
<1>2. ASSUME NEW c \in Calls, Caller(c) \/ CallbackRefuses(c) PROVE EarlyInv'
  BY <1>2, CallerEarly
<1>3. ASSUME NEW c \in Calls, Job(c) PROVE EarlyInv'
  BY <1>3, JobEarly
<1>4. CASE Peer
  BY <1>4, PeerEarly
<1>5. CASE UNCHANGED vars
  BY <1>5 DEF vars, callVars, jobVars, listenerVars, EarlyInv, Early, Says
<1> QED BY <1>1, <1>2, <1>3, <1>4, <1>5 DEF Next

---------------------------------------------------------------------------
(* What the status of a call says is so *)

\* Nothing of call d changes that TrueOf is about.
Keeps(d) ==
    /\ request'[d] = request[d] /\ target'[d] = target[d] /\ child'[d] = child[d]
    /\ Says(d, "SUCCESS")' => Says(d, "SUCCESS")
    /\ Says(d, "FAILED")' => Says(d, "FAILED")
    /\ ike'[target[d]] = "gone" <=> ike[target[d]] = "gone"

LEMMA KeepsTrue ==
    ASSUME NEW d, TrueOf(d), Keeps(d)
    PROVE  TrueOf(d)'
BY DEF TrueOf, Keeps

\* A step that tells calls something only if they had no IKE_SA.
LEMMA QuietTrue ==
    ASSUME IInv, TrueInv, UNCHANGED target, \A d \in Calls : target[d] # NoSa => Keeps(d)
    PROVE  TrueInv'
BY KeepsTrue DEF TrueInv, OnlyOn

\* A step that concerns one IKE_SA.
LEMMA OneTrue ==
    ASSUME IInv, TrueInv, UNCHANGED target, NEW s \in Sas,
           \A d \in Calls : target[d] # s /\ target[d] # NoSa => Keeps(d),
           \A d \in Calls : target[d] = s /\ OnlyOn(d) /\ TrueOf(d) => TrueOf(d)'
    PROVE  TrueInv'
BY KeepsTrue, NoSaAssumption DEF TrueInv, OnlyOn

LEMMA ToldSays ==
    ASSUME NEW s, Told(s, status), UNCHANGED report, NEW d \in Calls, target[d] # s
    PROVE  /\ Says(d, "SUCCESS")' => Says(d, "SUCCESS")
           /\ Says(d, "FAILED")' => Says(d, "FAILED")
BY DEF Told, Says

\* The end of an IKE_SA makes everything true: no CHILD_SA is left.
LEMMA GoneTrue ==
    ASSUME IInv, PlaceInv, TrueInv, UNCHANGED <<request, target, report>>, NEW s \in Sas,
           Told(s, status), ike' = [ike EXCEPT ![s] = "gone"], child' = ChildrenOfGone(s)
    PROVE  TrueInv'
<1>1. ASSUME NEW d \in Calls, target[d] # s, target[d] # NoSa
      PROVE  Keeps(d)
  <2>1. child'[d] = child[d]
    <3>1. CASE child[d] = "none"
      BY <3>1 DEF IInv, TypeOK, ChildrenOfGone
    <3>2. CASE child[d] # "none"
      BY <1>1, <3>2, ChildrenOfOthers DEF PlaceInv, Place
    <3> QED BY <3>1, <3>2
  <2> QED BY <1>1, <2>1, ToldSays DEF Keeps, IInv, TypeOK
<1>2. ASSUME NEW d \in Calls, target[d] = s
      PROVE  TrueOf(d)'
  <2>1. ike'[target'[d]] = "gone"
    BY <1>2 DEF IInv, TypeOK
  <2>2. child'[d] \notin {"created", "installed"}
    <3>1. child[d] # "none" => childOf[d] = s
      BY <1>2 DEF PlaceInv, Place
    <3> QED BY <3>1 DEF IInv, TypeOK, ChildrenOfGone
  <2> QED BY <2>1, <2>2 DEF TrueOf
<1> QED BY <1>1, <1>2, OneTrue

LEMMA JobTrue ==
    ASSUME IInv, PlaceInv, EarlyInv, TrueInv, NEW c \in Calls, Job(c)
    PROVE  TrueInv'
<1> USE NoSaAssumption, NoCallAssumption
<1>1. CASE FindsNothing(c)
  <2>1. /\ target[c] = NoSa
        /\ \E x \in Status : status' = [status EXCEPT ![c] = x]
        /\ done' = [done EXCEPT ![c] = TRUE]
        /\ UNCHANGED <<request, report, target, child, ike>>
    BY <1>1
    DEF FindsNothing, StatusUnfound, Unfound, callVars, saVars, PlaceInv, Place, Status
  <2> QED BY <2>1, QuietTrue DEF Keeps, Says, IInv, TypeOK
<1>2. CASE Destroyed(c)
  <2>1. UNCHANGED <<request, report, target, child, ike, status, done>>
    BY <1>2 DEF Destroyed, callVars, listenerVars, saVars
  <2> QED BY <2>1, QuietTrue DEF Keeps, Says
<1>3. ASSUME NEW s \in Sas, Checkout(c, s) PROVE TrueInv'
  <2>1. /\ target[c] = NoSa /\ target' = [target EXCEPT ![c] = s]
        /\ ~Says(c, "SUCCESS") /\ ~Says(c, "FAILED")
        /\ \A x \in Sas : ike'[x] = "gone" <=> ike[x] = "gone"
        /\ UNCHANGED <<request, report, child, status, done>>
    BY <1>3 DEF Checkout, callVars, PlaceInv, Place, EarlyInv, Early, IInv, TypeOK
  <2>2. TrueOf(c)'
    BY <2>1 DEF TrueOf, Says
  <2>3. ASSUME NEW d \in Calls, d # c, target'[d] # NoSa, OnlyOn(d)' PROVE TrueOf(d)'
    <3>1. target[d] = target'[d] /\ OnlyOn(d)
      BY <2>1, <2>3 DEF OnlyOn, IInv, TypeOK
    <3>2. Keeps(d)
      BY <2>1, <2>3, <3>1 DEF Keeps, Says, IInv, TypeOK
    <3> QED BY <2>3, <3>1, <3>2, KeepsTrue DEF TrueInv
  <2> QED BY <2>2, <2>3 DEF TrueInv
<1>4. ASSUME NEW s \in Sas, Initiates(c, s) PROVE TrueInv'
  <2>1. /\ job[c] = "checkedout" /\ child' = [child EXCEPT ![c] = "created"]
        /\ UNCHANGED <<request, report, target, ike, status, done>>
    BY <1>4 DEF Initiates, callVars, listenerVars
  <2>2. /\ ~Says(c, "SUCCESS") /\ ~Says(c, "FAILED")
        /\ request[c].op = "initiate" /\ target[c] = s
    BY <1>4, <2>1 DEF Initiates, EarlyInv, Early, PlaceInv, Place
  <2>3. TrueOf(c)'
    BY <2>1, <2>2 DEF TrueOf, Says
  <2>4. \A d \in Calls : d # c => Keeps(d)
    BY <2>1 DEF Keeps, Says, IInv, TypeOK
  <2> QED BY <2>1, <2>3, <2>4, KeepsTrue DEF TrueInv, OnlyOn
<1>5. ASSUME NEW s \in Sas, DeletesIke(c, s) PROVE TrueInv'
  <2>1. /\ job[c] = "checkedout" /\ request[c].op = "terminate_ike"
        /\ status' = [status EXCEPT ![c] = "FAILED"]
        /\ \A x \in Sas : ike'[x] = "gone" <=> ike[x] = "gone"
        /\ UNCHANGED <<request, report, target, child, done>>
    BY <1>5 DEF DeletesIke, callVars, IInv, TypeOK
  <2>2. ~Says(c, "SUCCESS")
    BY <2>1 DEF EarlyInv, Early
  <2>3. TrueOf(c)'
    BY <2>1, <2>2 DEF TrueOf, Says, IInv, TypeOK
  <2>4. \A d \in Calls : d # c /\ target[d] # NoSa => Keeps(d)
    BY <2>1 DEF Keeps, Says, IInv, TypeOK
  <2> QED BY <2>1, <2>3, <2>4, KeepsTrue DEF TrueInv, OnlyOn
<1>6. ASSUME NEW s \in Sas, DeletesChild(c, s) PROVE TrueInv'
  <2> DEFINE e == request[c].on
  <2>1. /\ child' = [child EXCEPT ![e] = "deleting"]
        /\ UNCHANGED <<request, report, target, ike, status, done>>
    BY <1>6 DEF DeletesChild, callVars, listenerVars
  <2> HIDE DEF e
  <2>2. ASSUME NEW d \in Calls, TrueOf(d) PROVE TrueOf(d)'
    <3>1. CASE d = e
      BY <2>1, <2>2, <3>1 DEF TrueOf, Says, IInv, TypeOK
    <3>2. CASE d # e
      BY <2>1, <2>2, <3>2 DEF TrueOf, Says, IInv, TypeOK
    <3> QED BY <3>1, <3>2
  <2> QED BY <2>1, <2>2 DEF TrueInv, OnlyOn
<1>7. ASSUME NEW s \in Sas,
             InitiateFails(c, s) \/ DestroysIke(c, s) \/ DeleteChildFails(c, s)
      PROVE  TrueInv'
  <2>1. PICK v : JobDestroys(c, s, v)
    BY <1>7, Destroying
  <2>2. Told(s, status) /\ UNCHANGED target
    BY <2>1, JobDestroysTold
  <2>3. /\ UNCHANGED <<request, report>>
        /\ ike' = [ike EXCEPT ![s] = "gone"] /\ child' = ChildrenOfGone(s)
    BY <2>1 DEF JobDestroys, CheckedInDestroyed, callVars
  <2> QED BY <2>2, <2>3, GoneTrue
<1> QED BY <1>1, <1>2, <1>3, <1>4, <1>5, <1>6, <1>7 DEF Job

\* An event of the CHILD_SA of call e, whose new state is x.
LEMMA ChildTrue ==
    ASSUME IInv, PlaceInv, TrueInv, NEW e \in Calls, child[e] # "none", PeerEvent(childOf[e]),
           NEW x, child' = [child EXCEPT ![e] = x],
           \A s \in Sas : ike'[s] = "gone" <=> ike[s] = "gone",
           TrueOf(e) => TrueOf(e)'
    PROVE  TrueInv'
<1>1. /\ childOf[e] = target[e] /\ childOf[e] \in Sas
      /\ UNCHANGED <<request, report, target>>
      /\ Told(childOf[e], status)
  BY DEF PlaceInv, Place, PeerEvent, callVars
<1>2. ASSUME NEW d \in Calls, target[d] # childOf[e], target[d] # NoSa
      PROVE  Keeps(d)
  <2>1. child'[d] = child[d]
    BY <1>1, <1>2 DEF IInv, TypeOK
  <2> QED BY <1>1, <1>2, <2>1, ToldSays DEF Keeps, IInv, TypeOK
<1>3. \A d \in Calls : target[d] = childOf[e] /\ OnlyOn(d) => d = e
  BY <1>1 DEF OnlyOn
<1> QED BY <1>1, <1>2, <1>3, OneTrue

LEMMA PeerTrue ==
    ASSUME IInv, PlaceInv, EarlyInv, TrueInv, Peer
    PROVE  TrueInv'
<1>1. ASSUME NEW s \in Sas PROVE \A x \in Sas : Answered(s)[x] = "gone" <=> ike[x] = "gone"
  BY DEF Answered, IInv, TypeOK
<1>2. ASSUME NEW e \in Calls,
             ChildInstalled(e) \/ ChildFails(e) \/ ChildRetries(e) \/ ChildDeleted(e)
      PROVE  TrueInv'
  <2>1. childOf[e] \in Sas /\ PeerEvent(childOf[e])
    BY <1>2, PeerTells
  <2>2. UNCHANGED <<request, report, target>>
    BY <2>1 DEF PeerEvent, callVars
  <2>3. /\ child[e] # "none" /\ request[e].op = "initiate"
        /\ target[e] \in Sas /\ target[e] = childOf[e]
        /\ status[e] = "SUCCESS" => done[e]
    BY <1>2
    DEF ChildInstalled, ChildFails, ChildRetries, ChildDeleted, PlaceInv, Place, EarlyInv, Early
  <2>4. \A s \in Sas : ike'[s] = "gone" <=> ike[s] = "gone"
    BY <1>1, <1>2, <2>1 DEF ChildInstalled, ChildFails, ChildRetries, ChildDeleted
  <2>5. CASE ChildInstalled(e) \/ ChildDeleted(e)
    <3>1. /\ child[e] \in {"created", "deleting"}
          /\ Succeeding(childOf[e])
      BY <2>5 DEF ChildInstalled, ChildDeleted
    <3>2. PICK x \in {"installed", "closed"} :
             child' = [child EXCEPT ![e] = x] /\ (x = "installed" => child[e] = "created")
      BY <2>5 DEF ChildInstalled, ChildDeleted
    <3>3. Says(e, "FAILED")' => Says(e, "FAILED")
      BY <2>2, <3>1 DEF Succeeding, Says, IInv, TypeOK
    <3>4. TrueOf(e) => TrueOf(e)'
      BY <2>2, <2>3, <3>2, <3>3 DEF TrueOf, IInv, TypeOK
    <3> QED BY <2>1, <2>3, <2>4, <3>2, <3>4, ChildTrue
  <2>6. CASE ChildFails(e) \/ ChildRetries(e)
    <3>1. /\ child[e] = "created"
          /\ ChildFailing(childOf[e]) \/ ChildRetrying(childOf[e])
      BY <2>6 DEF ChildFails, ChildRetries
    <3>2. PICK x \in {"failed", "created"} :
             child' = [child EXCEPT ![e] = x] /\ (x = "created" => ChildRetrying(childOf[e]))
      <4>1. CASE ChildFails(e)
        BY <4>1 DEF ChildFails
      <4>2. CASE ChildRetries(e)
        <5>1. child' = [child EXCEPT ![e] = "created"]
          BY <3>1, <4>2 DEF ChildRetries, IInv, TypeOK
        <5> QED BY <4>2, <5>1 DEF ChildRetries
      <4> QED BY <2>6, <4>1, <4>2
    <3>3. Says(e, "SUCCESS")' => Says(e, "SUCCESS")
      BY <2>2, <2>3, <3>1 DEF ChildFailing, ChildRetrying, Says, IInv, TypeOK
    <3>4. ChildRetrying(childOf[e]) /\ Says(e, "FAILED")' => Says(e, "FAILED")
      BY <2>2 DEF ChildRetrying, Says, IInv, TypeOK
    <3>5. TrueOf(e) => TrueOf(e)'
      BY <2>2, <2>3, <2>4, <3>1, <3>2, <3>3, <3>4 DEF TrueOf, IInv, TypeOK
    <3> QED BY <2>1, <2>3, <2>4, <3>2, <3>5, ChildTrue
  <2> QED BY <1>2, <2>5, <2>6
<1>3. ASSUME NEW s \in Sas, IkeFromPeer(s) \/ IkeDeletedByPeer(s) PROVE TrueInv'
  <2>1. /\ UNCHANGED <<request, report, target, child, status, done>>
        /\ \A x \in Sas : ike'[x] = "gone" <=> ike[x] = "gone"
    BY <1>3 DEF IkeFromPeer, IkeDeletedByPeer, callVars, listenerVars, IInv, TypeOK
  <2> QED BY <2>1, QuietTrue DEF Keeps, Says, IInv, TypeOK
<1>4. ASSUME NEW s \in Sas, IkeDestroyed(s) PROVE TrueInv'
  <2>1. PeerEvent(s)
    BY <1>4, PeerTells
  <2>2. ike' = [ike EXCEPT ![s] = "gone"] /\ child' = ChildrenOfGone(s)
    BY <1>4 DEF IkeDestroyed
  <2> QED BY <2>1, <2>2, GoneTrue DEF PeerEvent, callVars
<1> QED BY <1>2, <1>3, <1>4 DEF Peer

LEMMA NextTrue == IInv /\ SaysInv /\ [Next]_vars => TrueInv'
<1> SUFFICES ASSUME IInv, PlaceInv, EarlyInv, TrueInv, [Next]_vars PROVE TrueInv'
  BY DEF SaysInv
<1>1. ASSUME NEW c \in Calls, NEW r \in Asked, Called(c, r) PROVE TrueInv'
  <2>1. job[c] = "none"
    BY <1>1 DEF IInv, RefsInv, Called
  <2>2. /\ target[c] = NoSa /\ request' = [request EXCEPT ![c] = r]
        /\ UNCHANGED <<report, target, child, ike, status, done>>
    BY <1>1, <2>1 DEF Called, saVars, PlaceInv, Place
  <2> QED BY <2>2, QuietTrue DEF Keeps, Says, IInv, TypeOK
<1>2. ASSUME NEW c \in Calls, Caller(c) \/ CallbackRefuses(c) PROVE TrueInv'
  <2>1. UNCHANGED <<request, target, child, ike>>
    BY <1>2
    DEF Caller, Woken, TimesOut, Unlisten, Returns, CallbackRefuses, callVars, jobVars,
        listenerVars, saVars
  <2> QED BY <1>2, <2>1, CallerEarly, QuietTrue DEF Keeps
<1>3. ASSUME NEW c \in Calls, Job(c) PROVE TrueInv'
  BY <1>3, JobTrue
<1>4. CASE Peer
  BY <1>4, PeerTrue
<1>5. CASE UNCHANGED vars
  <2>1. UNCHANGED <<request, report, target, child, ike, status, done>>
    BY <1>5 DEF vars, callVars, jobVars, listenerVars, saVars
  <2> QED BY <2>1, QuietTrue DEF Keeps, Says
<1> QED BY <1>1, <1>2, <1>3, <1>4, <1>5 DEF Next

---------------------------------------------------------------------------

\* The invariant behind the theorems.
THEOREM Invariant == Spec => []IInv
BY InitIInv, NextIInv, PTL DEF Spec

\* Every variable keeps its type, the references between none and two.
THEOREM TypeCorrect == Spec => []TypeOK
<1>1. IInv => TypeOK
  BY DEF IInv
<1> QED BY <1>1, Invariant, PTL

\* Of the caller, the job and the bus, whoever uses the shared struct last
\* frees it: it is not freed before and does not stay.
THEOREM Freed == Spec => []FreedWhenUnused
<1>1. IInv => FreedWhenUnused
  BY DEF IInv, TypeOK, RefsInv, FreedWhenUnused, InUse, Waiting, Executing
<1> QED BY <1>1, Invariant, PTL

\* What the status of a listener says is so.
LEMMA SaysInvariant == Spec => []SaysInv
<1>1. IInv /\ SaysInv /\ [Next]_vars => SaysInv'
  BY NextPlace, NextEarly, NextTrue DEF SaysInv
<1> QED BY <1>1, InitSays, Invariant, PTL DEF Spec

\* A call of initiate() that had its IKE_SA for itself reports success only
\* for a CHILD_SA that was set up, and failure only if none comes up.
THEOREM ReportsTrue == Spec => []ReportIsTrue
<1>1. SaysInv => ReportIsTrue
  <2> SUFFICES ASSUME SaysInv,
                      NEW c \in Calls, request[c].op = "initiate", target[c] # NoSa, Alone(c)
               PROVE  /\ report[c] = "SUCCESS" /\ ike[target[c]] # "gone" =>
                            child[c] \in {"installed", "deleting", "closed"}
                      /\ report[c] = "FAILED" => child[c] \notin {"created", "installed"}
    BY DEF ReportIsTrue
  <2>1. TrueOf(c)
    BY DEF SaysInv, TrueInv, OnlyOn, Alone
  <2> QED BY <2>1 DEF TrueOf, Says
<1> QED BY <1>1, SaysInvariant, PTL

\* terminate_ike() reports the end of an IKE_SA that nobody else asked for
\* only after that end.
THEOREM ClosedGone == Spec => []ClosedIsGone
<1>1. SaysInv => ClosedIsGone
  <2> SUFFICES ASSUME SaysInv,
                      NEW c \in Calls, request[c].op = "terminate_ike", report[c] = "SUCCESS",
                      Alone(c)
               PROVE  ike[request[c].on] = "gone"
    BY DEF ClosedIsGone
  <2>1. target[c] # NoSa
    BY DEF SaysInv, EarlyInv, Early, Says
  <2>2. TrueOf(c) /\ target[c] = request[c].on
    BY <2>1 DEF SaysInv, TrueInv, PlaceInv, Place, OnlyOn, Alone
  <2> QED BY <2>2 DEF TrueOf, Says
<1> QED BY <1>1, SaysInvariant, PTL

===========================================================================

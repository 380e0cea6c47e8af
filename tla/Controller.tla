---------------------------- MODULE Controller ----------------------------
(***************************************************************************)
(* The controller of charon (control/controller.c): synchronous calls that *)
(* set up or close IKE_SAs and CHILD_SAs.  A call registers a listener and *)
(* a logger at the bus, queues a job for another worker and sleeps on a    *)
(* semaphore until an event of the bus, the job or the timeout wakes it.   *)
(* Three threads share one struct: the caller, the worker of the job and   *)
(* whichever worker raises an event.                                       *)
(*                                                                         *)
(* The callers are those of the stroke plugin, workers of the same pool.   *)
(* The IKE_SAs (their manager, tasks and peers) are not in the repository: *)
(* the actions marked external are what its callers may see of them.  Each *)
(* call is made once; a CHILD_SA has the name of the call that asked for   *)
(* it.                                                                     *)
(***************************************************************************)
EXTENDS Naturals, FiniteSets

CONSTANTS Calls,          \* calls of initiate(), terminate_ike() and terminate_child()
          Timed,          \* those of them with a timeout
          Leaving,        \* those of them whose client may go away
          Sas,            \* IKE_SAs
          NoSa,           \* the NULL IKE_SA
          NoCall,
          Workers,        \* threads of the processor
          MaxConcurrent   \* stroke clients served at a time

ASSUME TimedAssumption == Timed \subseteq Calls
ASSUME LeavingAssumption == Leaving \subseteq Calls
ASSUME NoSaAssumption == NoSa \notin Sas
ASSUME NoCallAssumption == NoCall \notin Calls
ASSUME WorkersAssumption == Workers \in Nat /\ MaxConcurrent \in 1 .. (Workers - 1)

VARIABLES request,    \* what each call asks for
          pc,         \* where its caller is
          job,        \* where its job is
          refs,       \* refcount of the job
          status,     \* listener.status
          done,       \* the semaphore was posted
          late,       \* the wait timed out
          target,     \* listener.ike_sa
          listening,  \* calls whose listener is on the bus
          logging,    \* calls whose logger is on the bus
          report,     \* what each call returned
          spared,     \* calls that outlived the failure of a retried CHILD_SA
          ike,        \* state of each IKE_SA
          holder,     \* the call whose job checked it out
          child,      \* state of each CHILD_SA
          childOf     \* its IKE_SA

callVars == <<request, pc, late, report>>
jobVars == <<job, refs>>
listenerVars == <<status, done, target, listening, logging, spared>>
saVars == <<ike, holder, child, childOf>>
vars == <<callVars, jobVars, listenerVars, saVars>>

Status == {"SUCCESS", "FAILED", "NEED_MORE", "NOT_FOUND", "OUT_OF_RES"}

Request == [op : {"none", "initiate"}, on : {NoSa}]
           \cup [op : {"terminate_ike"}, on : Sas]
           \cup [op : {"terminate_child"}, on : Calls]

TypeOK ==
    /\ request \in [Calls -> Request]
    /\ pc \in [Calls -> {"out", "wait", "unlisten", "unlog", "back"}]
    /\ job \in [Calls -> {"none", "queued", "checkedout", "ended", "gone"}]
    /\ refs \in [Calls -> 0 .. 2]
    /\ status \in [Calls -> Status]
    /\ done \in [Calls -> BOOLEAN]
    /\ late \in [Calls -> BOOLEAN]
    /\ target \in [Calls -> Sas \cup {NoSa}]
    /\ listening \subseteq Calls
    /\ logging \subseteq Calls
    /\ report \in [Calls -> Status \cup {"none"}]
    /\ spared \subseteq Calls
    /\ ike \in [Sas -> {"none", "connecting", "established", "deleting", "gone"}]
    /\ holder \in [Sas -> Calls \cup {NoCall}]
    /\ child \in [Calls -> {"none", "created", "installed", "deleting", "failed", "closed"}]
    /\ childOf \in [Calls -> Sas \cup {NoSa}]

Init ==
    /\ request = [c \in Calls |-> [op |-> "none", on |-> NoSa]]
    /\ pc = [c \in Calls |-> "out"]
    /\ job = [c \in Calls |-> "none"]
    /\ refs = [c \in Calls |-> 0]
    /\ status = [c \in Calls |-> "FAILED"]
    /\ done = [c \in Calls |-> FALSE]
    /\ late = [c \in Calls |-> FALSE]
    /\ target = [c \in Calls |-> NoSa]
    /\ listening = {}
    /\ logging = {}
    /\ report = [c \in Calls |-> "none"]
    /\ spared = {}
    /\ ike = [s \in Sas |-> "none"]
    /\ holder = [s \in Sas |-> NoCall]
    /\ child = [c \in Calls |-> "none"]
    /\ childOf = [c \in Calls |-> NoSa]

---------------------------------------------------------------------------
(* The workers *)

\* Calls that are being served: their callers are workers of the pool.
Serving == {c \in Calls : pc[c] \notin {"out", "back"}}

\* Jobs that a worker executes.
Running == {c \in Calls : job[c] \in {"checkedout", "ended"}}

\* A worker is idle and can take a job or a message.
IdleWorker == Cardinality(Serving) + Cardinality(Running) < Workers

\* The service of the stroke socket takes another client.
ClientServed == Cardinality(Serving) < MaxConcurrent

---------------------------------------------------------------------------
(* The caller *)

\* Without the reference of wait_for_listener() the first to end frees; with
\* one more, nobody does.
RefsNotTaken == 1
\* References when the job is queued: one of its creator and one that
\* wait_for_listener() takes for the thread that will execute it.
RefsTaken == 2

\* A client asks for r, and its worker starts wait_for_listener().
Called(c, r) ==
    /\ pc[c] = "out"
    /\ ClientServed /\ IdleWorker
    /\ request' = [request EXCEPT ![c] = r]
    /\ pc' = [pc EXCEPT ![c] = "wait"]
    /\ refs' = [refs EXCEPT ![c] = RefsTaken]
    /\ logging' = logging \cup {c}
    /\ listening' = listening \cup {c}
    /\ job' = [job EXCEPT ![c] = "queued"]
    /\ UNCHANGED <<late, report, status, done, target, spared, saVars>>

\* The semaphore was posted.
Woken(c) ==
    /\ pc[c] = "wait"
    /\ done[c]
    /\ pc' = [pc EXCEPT ![c] = "unlisten"]
    /\ UNCHANGED <<request, late, report, jobVars, listenerVars, saVars>>

\* The wait timed out.
TimesOut(c) ==
    /\ pc[c] = "wait"
    /\ c \in Timed
    /\ ~done[c]
    /\ late' = [late EXCEPT ![c] = TRUE]
    /\ pc' = [pc EXCEPT ![c] = "unlisten"]
    /\ UNCHANGED <<request, report, jobVars, listenerVars, saVars>>

\* listener_unregister() takes the listener off the bus, then the logger.
Unlisten(c) ==
    /\ pc[c] = "unlisten"
    /\ listening' = listening \ {c}
    /\ pc' = [pc EXCEPT ![c] = "unlog"]
    /\ UNCHANGED <<request, late, report, jobVars, status, done, target, logging, spared, saVars>>

\* The status that the call returns: a timeout hides what happened since.
Returned(c) == IF late[c] THEN "OUT_OF_RES" ELSE status[c]

Returns(c) ==
    /\ pc[c] = "unlog"
    /\ logging' = logging \ {c}
    /\ report' = [report EXCEPT ![c] = Returned(c)]
    /\ refs' = [refs EXCEPT ![c] = @ - 1]
    /\ pc' = [pc EXCEPT ![c] = "back"]
    /\ UNCHANGED <<request, late, job, status, done, target, listening, spared, saVars>>

---------------------------------------------------------------------------
(* Events of the bus *)

\* With no look at the IKE_SA of the event every listener is concerned.
ConcernedAny(s) == listening

\* The listeners that an event of IKE_SA s is for.
Concerned(s) == {c \in listening : target[c] = s}

\* ike_state_change(IKE_DESTROYING), raised when the statuses are v: an
\* IKE_SA that was in IKE_DELETING ended properly.
StatusAtIkeEnd(s, v) == [c \in Calls |-> IF ike[s] = "deleting" THEN "SUCCESS" ELSE v[c]]

IkeDestroying(s, v) ==
    /\ status' = [c \in Calls |-> IF c \in Concerned(s) THEN StatusAtIkeEnd(s, v)[c] ELSE v[c]]
    /\ done' = [c \in Calls |-> done[c] \/ c \in Concerned(s)]
    /\ listening' = listening \ Concerned(s)
    /\ UNCHANGED <<target, logging, spared>>

\* child_state_change: CHILD_INSTALLED, or CHILD_DESTROYING of a CHILD_SA in
\* CHILD_DELETING.  Those listeners succeed and are taken off the bus.
Succeeding(s) ==
    /\ status' = [c \in Calls |-> IF c \in Concerned(s) THEN "SUCCESS" ELSE status[c]]
    /\ done' = [c \in Calls |-> done[c] \/ c \in Concerned(s)]
    /\ listening' = listening \ Concerned(s)
    /\ UNCHANGED <<target, logging, spared>>

\* Were CHILD_RETRYING a state like the others, the wait would end with it.
ChildRetryingEnds(s) ==
    /\ done' = [c \in Calls |-> done[c] \/ c \in Concerned(s)]
    /\ listening' = listening \ Concerned(s)
    /\ UNCHANGED <<status, target, logging, spared>>

\* CHILD_DESTROYING in CHILD_RETRYING: the listeners survive another round.
ChildRetrying(s) ==
    /\ status' = [c \in Calls |-> IF c \in Concerned(s) THEN "NEED_MORE" ELSE status[c]]
    /\ UNCHANGED <<done, target, listening, logging, spared>>

\* ... in CHILD_CREATED: the survivors only have their status set.
Survivors(s) == {c \in Concerned(s) : status[c] = "NEED_MORE"}

ChildFailing(s) ==
    /\ status' = [c \in Calls |-> IF c \in Survivors(s) THEN "FAILED" ELSE status[c]]
    /\ done' = [c \in Calls |-> done[c] \/ c \in Concerned(s) \ Survivors(s)]
    /\ listening' = listening \ (Concerned(s) \ Survivors(s))
    /\ spared' = spared \cup Survivors(s)
    /\ UNCHANGED <<target, logging>>

\* listener_log(): a message is logged for the IKE_SA of the call, or for no
\* IKE_SA while the call has none, and the client does not take it.
CallbackRefuses(c) ==
    /\ c \in logging \cap Leaving
    /\ target[c] \in {NoSa} \cup {s \in Sas : ike[s] # "gone"}
    /\ status' = [status EXCEPT ![c] = "NEED_MORE"]
    /\ done' = [done EXCEPT ![c] = TRUE]
    /\ UNCHANGED <<callVars, jobVars, target, listening, logging, spared, saVars>>

---------------------------------------------------------------------------
(* The job *)

\* IKE_SAs that checkout_by_config() may give: one that is there or a new one.
Usable == {s \in Sas : ike[s] \in {"none", "connecting", "established"} /\ holder[s] = NoCall}

\* What a call to terminate names: the IKE_SA, or that of the CHILD_SA.
Named(c) == CASE request[c].op = "terminate_ike" -> request[c].on
              [] request[c].op = "terminate_child" -> childOf[request[c].on]
              [] OTHER -> NoSa

\* It is there.
Exists(c) == CASE request[c].op = "terminate_ike" ->
                    ike[request[c].on] \in {"connecting", "established", "deleting"}
               [] request[c].op = "terminate_child" ->
                    child[request[c].on] \in {"installed", "deleting"}
               [] OTHER -> TRUE

\* The job checks out an IKE_SA and tells its listener which.
Checkout(c, s) ==
    /\ job[c] = "queued"
    /\ IdleWorker
    /\ IF request[c].op = "initiate" THEN s \in Usable
       ELSE Exists(c) /\ Named(c) = s /\ holder[s] = NoCall
    /\ holder' = [holder EXCEPT ![s] = c]
    /\ ike' = [ike EXCEPT ![s] = IF @ = "none" THEN "connecting" ELSE @]
    /\ target' = [target EXCEPT ![c] = s]
    /\ job' = [job EXCEPT ![c] = "checkedout"]
    /\ UNCHANGED <<callVars, refs, status, done, listening, logging, spared, child, childOf>>

\* The status of a call whose job finds nothing: no IKE_SA for the
\* configuration, no IKE_SA or CHILD_SA with the number.
StatusUnfound(c) == IF request[c].op = "initiate" THEN "FAILED" ELSE "NOT_FOUND"

\* The job forgets to wake its caller.
UnfoundSilently(c) == done

\* The job releases its listener (listener_done()).
Unfound(c) == [done EXCEPT ![c] = TRUE]

FindsNothing(c) ==
    /\ job[c] = "queued"
    /\ IdleWorker
    /\ request[c].op # "initiate" => ~Exists(c)
    /\ status' = [status EXCEPT ![c] = StatusUnfound(c)]
    /\ done' = Unfound(c)
    /\ job' = [job EXCEPT ![c] = "ended"]
    /\ UNCHANGED <<callVars, refs, target, listening, logging, spared, saVars>>

\* checkin() of IKE_SA s
CheckedIn(c, s) ==
    /\ holder' = [holder EXCEPT ![s] = NoCall]
    /\ job' = [job EXCEPT ![c] = "ended"]

\* What is left of the CHILD_SAs when IKE_SA s is destroyed.
ChildrenOfGone(s) == [d \in Calls |-> IF childOf[d] # s THEN child[d]
                                      ELSE CASE child[d] = "created" -> "failed"
                                             [] child[d] \in {"installed", "deleting"} -> "closed"
                                             [] OTHER -> child[d]]

\* checkin_and_destroy() of IKE_SA s, when the statuses are v
CheckedInDestroyed(c, s, v) ==
    /\ CheckedIn(c, s)
    /\ IkeDestroying(s, v)
    /\ ike' = [ike EXCEPT ![s] = "gone"]
    /\ child' = ChildrenOfGone(s)

\* initiate(): the exchange for the CHILD_SA is started ...
Initiates(c, s) ==
    /\ job[c] = "checkedout" /\ holder[s] = c
    /\ request[c].op = "initiate"
    /\ child' = [child EXCEPT ![c] = "created"]
    /\ childOf' = [childOf EXCEPT ![c] = s]
    /\ CheckedIn(c, s)
    /\ UNCHANGED <<callVars, refs, listenerVars, ike>>

\* ... or fails, and the IKE_SA goes.
InitiateFails(c, s) ==
    /\ job[c] = "checkedout" /\ holder[s] = c
    /\ request[c].op = "initiate"
    /\ CheckedInDestroyed(c, s, [status EXCEPT ![c] = "FAILED"])
    /\ UNCHANGED <<callVars, refs, childOf>>

\* delete() sends the request: the call has failed until the event says
\* otherwise.
DeletesIke(c, s) ==
    /\ job[c] = "checkedout" /\ holder[s] = c
    /\ request[c].op = "terminate_ike"
    /\ ike[s] = "established"
    /\ ike' = [ike EXCEPT ![s] = "deleting"]
    /\ status' = [status EXCEPT ![c] = "FAILED"]
    /\ CheckedIn(c, s)
    /\ UNCHANGED <<callVars, refs, done, target, listening, logging, spared, child, childOf>>

\* delete() of an IKE_SA in another state answers DESTROY_ME.
DestroysIke(c, s) ==
    /\ job[c] = "checkedout" /\ holder[s] = c
    /\ request[c].op = "terminate_ike"
    /\ ike[s] # "established"
    /\ CheckedInDestroyed(c, s, status)
    /\ UNCHANGED <<callVars, refs, childOf>>

\* delete_child_sa() sends the request ...
DeletesChild(c, s) ==
    /\ job[c] = "checkedout" /\ holder[s] = c
    /\ request[c].op = "terminate_child"
    /\ child' = [child EXCEPT ![request[c].on] = "deleting"]
    /\ CheckedIn(c, s)
    /\ UNCHANGED <<callVars, refs, listenerVars, ike, childOf>>

\* ... or answers DESTROY_ME.
DeleteChildFails(c, s) ==
    /\ job[c] = "checkedout" /\ holder[s] = c
    /\ request[c].op = "terminate_child"
    /\ CheckedInDestroyed(c, s, [status EXCEPT ![c] = "FAILED"])
    /\ UNCHANGED <<callVars, refs, childOf>>

\* The processor destroys the job that was executed.
Destroyed(c) ==
    /\ job[c] = "ended"
    /\ refs' = [refs EXCEPT ![c] = @ - 1]
    /\ job' = [job EXCEPT ![c] = "gone"]
    /\ UNCHANGED <<callVars, listenerVars, saVars>>

---------------------------------------------------------------------------
(* The IKE_SAs: external.  A worker takes an event of IKE_SA s. *)

Handled(s) == holder[s] = NoCall /\ IdleWorker

\* An IKE_SA that answers is established.
Answered(s) == [ike EXCEPT ![s] = IF @ = "connecting" THEN "established" ELSE @]

ChildInstalled(d) ==
    /\ child[d] = "created" /\ Handled(childOf[d])
    /\ Succeeding(childOf[d])
    /\ child' = [child EXCEPT ![d] = "installed"]
    /\ ike' = Answered(childOf[d])
    /\ UNCHANGED <<callVars, jobVars, holder, childOf>>

ChildFails(d) ==
    /\ child[d] = "created" /\ Handled(childOf[d])
    /\ ChildFailing(childOf[d])
    /\ child' = [child EXCEPT ![d] = "failed"]
    /\ ike' = Answered(childOf[d])
    /\ UNCHANGED <<callVars, jobVars, holder, childOf>>

\* The peer wants another DH group.
ChildRetries(d) ==
    /\ child[d] = "created" /\ Handled(childOf[d])
    /\ ChildRetrying(childOf[d])
    /\ ike' = Answered(childOf[d])
    /\ UNCHANGED <<callVars, jobVars, holder, child, childOf>>

ChildDeleted(d) ==
    /\ child[d] = "deleting" /\ Handled(childOf[d])
    /\ Succeeding(childOf[d])
    /\ child' = [child EXCEPT ![d] = "closed"]
    /\ UNCHANGED <<callVars, jobVars, ike, holder, childOf>>

\* The peer sets up an IKE_SA.
IkeFromPeer(s) ==
    /\ ike[s] = "none" /\ Handled(s)
    /\ ike' = [ike EXCEPT ![s] = "established"]
    /\ UNCHANGED <<callVars, jobVars, listenerVars, holder, child, childOf>>

\* The peer deletes the IKE_SA.
IkeDeletedByPeer(s) ==
    /\ ike[s] = "established" /\ Handled(s)
    /\ ike' = [ike EXCEPT ![s] = "deleting"]
    /\ UNCHANGED <<callVars, jobVars, listenerVars, holder, child, childOf>>

\* The IKE_SA ends: a delete is done, or nobody answers.
IkeDestroyed(s) ==
    /\ ike[s] \in {"connecting", "deleting"} /\ Handled(s)
    /\ IkeDestroying(s, status)
    /\ ike' = [ike EXCEPT ![s] = "gone"]
    /\ child' = ChildrenOfGone(s)
    /\ UNCHANGED <<callVars, jobVars, holder, childOf>>

---------------------------------------------------------------------------

Caller(c) == Woken(c) \/ TimesOut(c) \/ Unlisten(c) \/ Returns(c)

Job(c) ==
    \/ FindsNothing(c)
    \/ Destroyed(c)
    \/ \E s \in Sas : \/ Checkout(c, s)
                      \/ Initiates(c, s) \/ InitiateFails(c, s)
                      \/ DeletesIke(c, s) \/ DestroysIke(c, s)
                      \/ DeletesChild(c, s) \/ DeleteChildFails(c, s)

Peer ==
    \/ \E d \in Calls : ChildInstalled(d) \/ ChildFails(d) \/ ChildRetries(d) \/ ChildDeleted(d)
    \/ \E s \in Sas : IkeFromPeer(s) \/ IkeDeletedByPeer(s) \/ IkeDestroyed(s)

Asked == {r \in Request : r.op # "none"}

Next ==
    \/ \E c \in Calls, r \in Asked : Called(c, r)
    \/ \E c \in Calls : Caller(c) \/ Job(c) \/ CallbackRefuses(c)
    \/ Peer

Spec == Init /\ [][Next]_vars

\* The threads run, the timer runs, and every exchange ends: the peer answers
\* or the retransmissions give up.
FairSpec ==
    /\ Spec
    /\ \A c \in Calls : WF_vars(Caller(c)) /\ WF_vars(Job(c))
    /\ \A d \in Calls : WF_vars(ChildInstalled(d) \/ ChildFails(d)) /\ WF_vars(ChildDeleted(d))
    /\ \A s \in Sas : WF_vars(IkeDestroyed(s))

---------------------------------------------------------------------------
(* Properties *)

\* The threads and lists that may still touch the struct of a call: its
\* caller, its job, the list of listeners and that of the loggers.
InUse(c) ==
    \/ pc[c] \in {"wait", "unlisten", "unlog"}
    \/ job[c] \in {"queued", "checkedout", "ended"}
    \/ c \in listening \cup logging

\* The struct that caller, job and bus share is freed by whichever of the
\* threads ends last, and neither before that nor never (controller.c:186,
\* 329-338, 423).
FreedWhenUnused == \A c \in Calls : pc[c] # "out" => (refs[c] > 0 <=> InUse(c))

\* Nothing else ever happened on the IKE_SA of call c.
Alone(c) == \A d \in Calls \ {c} : target[d] # target[c] /\ request[d].on # target[c]

\* What a call that had its IKE_SA for itself reports is so, although the
\* listener looks at the IKE_SA of an event and never at the CHILD_SA: after
\* SUCCESS the CHILD_SA was set up, or the peer closed the IKE_SA, and after
\* FAILED none is up and none will come up (controller.c:243-327).
ReportIsTrue ==
    \A c \in Calls :
        request[c].op = "initiate" /\ target[c] # NoSa /\ Alone(c) =>
            /\ report[c] = "SUCCESS" /\ ike[target[c]] # "gone" =>
                    child[c] \in {"installed", "deleting", "closed"}
            /\ report[c] = "FAILED" => child[c] \notin {"created", "installed"}

\* A call that reports the end of its IKE_SA reports it after the end.
ClosedIsGone ==
    \A c \in Calls :
        request[c].op = "terminate_ike" /\ report[c] = "SUCCESS" /\ Alone(c) =>
            ike[request[c].on] = "gone"

\* Every call returns, without a timeout too, although the callers sleep on
\* the threads that have to wake them: the job finds nothing and posts, or an
\* event of its IKE_SA comes.  Only a call that outlived the failure of a
\* retried CHILD_SA may wait for ever (controller.c:306-316).
EveryCallReturns == \A c \in Calls : pc[c] = "wait" ~> pc[c] = "back" \/ c \in spared \ Timed

===========================================================================

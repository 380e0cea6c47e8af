---------------------------- MODULE HaSegments ----------------------------
(***************************************************************************)
(* Segments of a cluster of two charons (plugins/ha): each client belongs  *)
(* to a segment, and each segment is to be served by one of the nodes.     *)
(* The nodes tell each other what they take and drop, and every second     *)
(* which segments they serve, over a socket that loses messages; a         *)
(* watchdog takes everything when the other node is silent.                *)
(*                                                                         *)
(* A node runs three threads: its dispatcher (messages), its watchdog, and *)
(* whoever sends the heartbeat, reads the fifo or shuts charon down.       *)
(* Faults, commands and heartbeats that come too late are counted, so that *)
(* the liveness properties say what holds once they end.                   *)
(*                                                                         *)
(* The specification has the prefix of the code (HaInit, HaSpec), so that  *)
(* a module may extend this one and another.                               *)
(***************************************************************************)
EXTENDS Naturals, Sequences, FiniteSets, SequencesExt

CONSTANTS Count,      \* segments of the cluster (segment_count)
          MaxFaults,  \* bound: faults and commands
          Cap         \* bound: messages in flight to a node, others are lost

ASSUME CountAssumption == Count \in Nat \ {0}
ASSUME BoundsAssumption == MaxFaults \in Nat /\ Cap \in Nat \ {0}

Nodes == {0, 1}
Segments == 1 .. Count
Other(n) == 1 - n

\* Of segments that both nodes serve, or none, node i % 2 takes segment i.
Responsible(n) == {i \in Segments : i % 2 = n}

VARIABLES run,       \* each node is up, leaving (ALERT_SHUTDOWN_SIGNAL) or down
          active,    \* the segments it serves
          beat,      \* heartbeat_active
          waiting,   \* its watchdog jobs that wait for a heartbeat
          ending,    \* its watchdog job that timed out: what it did since
          rearm,     \* its dispatcher has handled a status, but for the watchdog
          channel,   \* messages in flight to it
          blind,     \* history: nodes that gave up a segment with no watchdog since
          faults

haVars == <<run, active, beat, waiting, ending, rearm, channel, blind, faults>>

Message == [type : {"take", "drop"}, segment : Segments]
           \cup [type : {"status"}, mask : SUBSET Segments]

HaTypeOK ==
    /\ run \in [Nodes -> {"up", "leaving", "down"}]
    /\ active \in [Nodes -> SUBSET Segments]
    /\ beat \in [Nodes -> BOOLEAN]
    /\ waiting \in [Nodes -> 0 .. 2]
    /\ ending \in [Nodes -> {"no", "timedout", "taken"}]
    /\ rearm \in [Nodes -> BOOLEAN]
    /\ channel \in [Nodes -> BoundedSeq(Message, Cap)]
    /\ blind \subseteq Nodes
    /\ faults \in 0 .. MaxFaults

HaInit ==
    /\ run = [n \in Nodes |-> "up"]
    /\ active = [n \in Nodes |-> {}]
    /\ beat = [n \in Nodes |-> TRUE]
    /\ waiting = [n \in Nodes |-> 1]
    /\ ending = [n \in Nodes |-> "no"]
    /\ rearm = [n \in Nodes |-> FALSE]
    /\ channel = [n \in Nodes |-> <<>>]
    /\ blind = {}
    /\ faults = 0

---------------------------------------------------------------------------
(* The socket *)

\* What is in flight to node m after msgs were pushed to `queue`: a node that
\* is down gets nothing.
Pushed(m, queue, msgs) ==
    IF run[m] = "down" THEN <<>>
    ELSE LET all == queue \o msgs IN SubSeq(all, 1, IF Len(all) < Cap THEN Len(all) ELSE Cap)

\* Node n pushes msgs ...
Push(n, msgs) == channel' = [channel EXCEPT ![Other(n)] = Pushed(Other(n), @, msgs)]

\* ... having pulled a message.
PullPush(n, msgs) ==
    channel' = [channel EXCEPT ![n] = Tail(@), ![Other(n)] = Pushed(Other(n), @, msgs)]

\* Segments are gone through from the first to the last.
InOrder(segments) ==
    CHOOSE order \in [1 .. Cardinality(segments) -> segments] :
        \A j, k \in DOMAIN order : j < k => order[j] < order[k]

\* enable_disable() with notify tells of each segment in turn, changed or not.
Notify(segments, taken) ==
    [k \in 1 .. Cardinality(segments) |->
        LET i == InOrder(segments)[k]
        IN  [type |-> IF i \in taken THEN "take" ELSE "drop", segment |-> i]]

Fault == faults < MaxFaults /\ faults' = faults + 1

\* Node n gives up a segment: nobody will notice if the other is gone.
GivesUp(n) == IF waiting[n] > 0 \/ ending[n] = "timedout" THEN blind ELSE blind \cup {n}

---------------------------------------------------------------------------
(* The dispatcher *)

Pulled(n, type) ==
    /\ run[n] # "down" /\ ~rearm[n]
    /\ channel[n] # <<>>
    /\ Head(channel[n]).type = type

\* The other node takes a segment, or drops it.
ProcessTake(n) ==
    /\ Pulled(n, "take")
    /\ active' = [active EXCEPT ![n] = @ \ {Head(channel[n]).segment}]
    /\ PullPush(n, <<>>)
    /\ blind' = GivesUp(n)
    /\ UNCHANGED <<run, beat, waiting, ending, rearm, faults>>

ProcessDrop(n) ==
    /\ Pulled(n, "drop")
    /\ active' = [active EXCEPT ![n] = @ \cup {Head(channel[n]).segment}]
    /\ PullPush(n, <<>>)
    /\ UNCHANGED <<run, beat, waiting, ending, rearm, blind, faults>>

\* Were only those disputed that both serve, nobody would take the others.
DisputedTwice(n, mask) == active[n] \cap mask

\* Segments that neither node serves, or both.
Disputed(n, mask) ==
    (Segments \ (active[n] \cup mask)) \cup (active[n] \cap mask)

\* A status always wakes the watchdog; to wait again is not a step.
HandleStatus(n) ==
    LET disputed == Disputed(n, Head(channel[n]).mask)
        taken == disputed \cap Responsible(n)
        dropped == disputed \ Responsible(n)
    IN  /\ Pulled(n, "status")
        /\ active' = [active EXCEPT ![n] = (@ \cup taken) \ dropped]
        /\ PullPush(n, Notify(disputed, taken))
        /\ rearm' = [rearm EXCEPT ![n] = TRUE]
        /\ blind' = IF dropped = {} THEN blind ELSE GivesUp(n)
        /\ UNCHANGED <<run, beat, waiting, ending, faults>>

\* Were the watchdog not restarted, nobody would look for heartbeats again.
NotRestarted(n) == UNCHANGED <<beat, waiting>>

\* start_watchdog()
StartWatchdog(n) ==
    /\ beat' = [beat EXCEPT ![n] = TRUE]
    /\ waiting' = [waiting EXCEPT ![n] = @ + 1]

\* Without the test each heartbeat would start another watchdog.
NeverActive(n) == FALSE

\* The test of heartbeat_active, after the mutex is released
HeartbeatActive(n) == beat[n]

Rearm(n) ==
    /\ run[n] # "down" /\ rearm[n]
    /\ rearm' = [rearm EXCEPT ![n] = FALSE]
    /\ IF HeartbeatActive(n) THEN UNCHANGED <<beat, waiting>> ELSE StartWatchdog(n)
    /\ blind' = IF beat[n] THEN blind ELSE blind \ {n}
    /\ UNCHANGED <<run, active, ending, channel, faults>>

---------------------------------------------------------------------------
(* The watchdog *)

\* No heartbeat came: the other node is down, or its heartbeats are late.
WatchdogTimesOut(n) ==
    /\ run[n] # "down" /\ waiting[n] > 0 /\ ending[n] = "no"
    /\ IF run[Other(n)] = "down" THEN UNCHANGED faults ELSE Fault
    /\ waiting' = [waiting EXCEPT ![n] = @ - 1]
    /\ ending' = [ending EXCEPT ![n] = "timedout"]
    /\ UNCHANGED <<run, active, beat, rearm, channel, blind>>

TakesAll(n) ==
    /\ run[n] # "down" /\ ending[n] = "timedout"
    /\ active' = [active EXCEPT ![n] = Segments]
    /\ Push(n, Notify(Segments, Segments))
    /\ ending' = [ending EXCEPT ![n] = "taken"]
    /\ UNCHANGED <<run, beat, waiting, rearm, blind, faults>>

\* A watchdog that ends and leaves the flag would never be restarted.
BeatLeft(n) == beat

\* Detection is off until a heartbeat comes.
BeatOff(n) == [beat EXCEPT ![n] = FALSE]

\* The job of the watchdog ends.
WatchdogEnds(n) ==
    /\ run[n] # "down" /\ ending[n] = "taken"
    /\ beat' = BeatOff(n)
    /\ ending' = [ending EXCEPT ![n] = "no"]
    /\ UNCHANGED <<run, active, waiting, rearm, channel, blind, faults>>

---------------------------------------------------------------------------
(* Heartbeat, commands and balance *)

\* The delay between heartbeats is longer than the way of a message: nothing
\* else is in flight.
SendStatus(n) ==
    /\ run[n] # "down" /\ run[Other(n)] # "down"
    /\ channel[Other(n)] = <<>>
    /\ Push(n, <<[type |-> "status", mask |-> active[n]]>>)
    /\ UNCHANGED <<run, active, beat, waiting, ending, rearm, blind, faults>>

\* The fifo: "+i" and "-i".
Activate(n, i) ==
    /\ run[n] = "up" /\ Fault
    /\ active' = [active EXCEPT ![n] = @ \cup {i}]
    /\ Push(n, Notify({i}, {i}))
    /\ UNCHANGED <<run, beat, waiting, ending, rearm, blind>>

Deactivate(n, i) ==
    /\ run[n] = "up" /\ Fault
    /\ active' = [active EXCEPT ![n] = @ \ {i}]
    /\ Push(n, Notify({i}, {}))
    /\ blind' = GivesUp(n)
    /\ UNCHANGED <<run, beat, waiting, ending, rearm>>

\* autobalance(): a node with less than half of the segments takes the first
\* it does not serve.
Autobalance(n) ==
    \E i \in Segments \ active[n] :
        /\ Cardinality(active[n]) < Count \div 2
        /\ \A j \in Segments \ active[n] : i <= j
        /\ Activate(n, i)

---------------------------------------------------------------------------
(* Shutdown, crash, restart and the network *)

\* With a heartbeat, the segments are left to the other node.
Shutdown(n) ==
    /\ run[n] = "up" /\ Fault
    /\ run' = [run EXCEPT ![n] = "leaving"]
    /\ active' = IF beat[n] THEN [active EXCEPT ![n] = {}] ELSE active
    /\ Push(n, IF beat[n] THEN Notify(Segments, {}) ELSE <<>>)
    /\ UNCHANGED <<beat, waiting, ending, rearm, blind>>

Down(n) ==
    /\ run' = [run EXCEPT ![n] = "down"]
    /\ active' = [active EXCEPT ![n] = {}]
    /\ waiting' = [waiting EXCEPT ![n] = 0]
    /\ ending' = [ending EXCEPT ![n] = "no"]
    /\ beat' = [beat EXCEPT ![n] = FALSE]
    /\ rearm' = [rearm EXCEPT ![n] = FALSE]
    /\ channel' = [channel EXCEPT ![n] = <<>>]
    /\ blind' = blind \ {n}

Exits(n) == run[n] = "leaving" /\ Down(n) /\ UNCHANGED faults

Crash(n) == run[n] # "down" /\ Fault /\ Down(n)

\* charon starts with every segment disabled (ha_kernel_create()).
Start(n) ==
    /\ run[n] = "down" /\ Fault
    /\ run' = [run EXCEPT ![n] = "up"]
    /\ StartWatchdog(n)
    /\ UNCHANGED <<active, ending, rearm, channel, blind>>

Lose(n) ==
    /\ channel[n] # <<>> /\ Fault
    /\ channel' = [channel EXCEPT ![n] = Tail(@)]
    /\ UNCHANGED <<run, active, beat, waiting, ending, rearm, blind>>

\* A message that was sent by a job of its own is overtaken by the next.
Overtake(n) ==
    /\ Len(channel[n]) > 1 /\ Fault
    /\ channel' = [channel EXCEPT ![n] = <<@[2], @[1]>> \o SubSeq(@, 3, Len(@))]
    /\ UNCHANGED <<run, active, beat, waiting, ending, rearm, blind>>

---------------------------------------------------------------------------

Dispatch(n) == ProcessTake(n) \/ ProcessDrop(n) \/ HandleStatus(n) \/ Rearm(n)

Watchdog(n) == TakesAll(n) \/ WatchdogEnds(n)

HaNext ==
    \E n \in Nodes :
        \/ Dispatch(n)
        \/ WatchdogTimesOut(n) \/ Watchdog(n)
        \/ SendStatus(n)
        \/ Autobalance(n)
        \/ \E i \in Segments : Activate(n, i) \/ Deactivate(n, i)
        \/ Shutdown(n) \/ Exits(n) \/ Crash(n) \/ Start(n)
        \/ Lose(n) \/ Overtake(n)

HaSpec == HaInit /\ [][HaNext]_haVars

\* The threads of a node run, its timer too, and what is sent arrives; faults
\* need never happen.
HaFairSpec ==
    /\ HaSpec
    /\ \A n \in Nodes :
        /\ WF_haVars(Dispatch(n)) /\ WF_haVars(Watchdog(n)) /\ WF_haVars(SendStatus(n))
        /\ WF_haVars(Exits(n))
        /\ WF_haVars(WatchdogTimesOut(n) /\ run[Other(n)] = "down")

---------------------------------------------------------------------------
(* Properties *)

\* A node looks for heartbeats if and only if heartbeat_active says so, with
\* one watchdog: the dispatcher tests the flag without the mutex while the
\* watchdog that timed out has yet to clear it (ha_segments.c:261-292, 338).
OneWatchdog ==
    \A n \in Nodes : run[n] # "down" =>
        waiting[n] + (IF ending[n] = "no" THEN 0 ELSE 1) = (IF beat[n] THEN 1 ELSE 0)

Running == {n \in Nodes : run[n] # "down"}

\* Whatever was lost, reordered or commanded, and whoever crashed: in the end
\* each segment is served by one node for good (ha_segments.c:300-333).  The
\* exception is a node whose watchdog ended (278), that gives up a segment
\* and hears no heartbeat after it: it does not take it again.
EverySegmentServedOnce ==
    <>[](Running # {} /\ Running \cap blind = {} =>
            \A i \in Segments : Cardinality({n \in Running : i \in active[n]}) = 1)

\* In the end a node that has another watches it, also if the first heartbeat
\* after the silence comes while its watchdog is about to end
\* (ha_segments.c:272-278, 338-342).
WatchesAgain == <>[](Running = Nodes => \A n \in Nodes : beat[n])

===========================================================================

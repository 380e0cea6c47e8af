--------------------------- MODULE MobilityClient ---------------------------
(***************************************************************************)
(* The application with mobility: MobilityClient.py and what client_sec.py *)
(* does to it and to the tunnel meanwhile.                                 *)
(*                                                                         *)
(* Each start() of the client begins a chain of reports and a chain of     *)
(* scans.  The first report and the first scan of a chain run in the main  *)
(* thread; every one ends by setting a timer whose thread runs the next.   *)
(* The PSC answers a report with an order, which the thread that sent the  *)
(* report carries out, a lock held: to take the tunnel down, associate to  *)
(* another access point and raise the tunnel that belongs to it.           *)
(*                                                                         *)
(* The scripts that run ipsec may fail to start, and so may every step of  *)
(* a handover after the tunnel has been closed.                            *)
(***************************************************************************)
EXTENDS Integers, FiniteSets

CONSTANTS APs,         \* access points
          Conns,       \* IPsec connections of ipsec.conf
          ConnOf,      \* entries of the section Mobility of gui.conf
          None,        \* Python's, for no access point and no connection
          Default,     \* IPSEC_NED_CONNECTION_NAME of gui.conf
          MaxStarts,   \* bound: calls of start()
          MaxDowns,    \* bound: "ipsec down" processes of one connection
          MaxUnclosed  \* bound: connections that could not be closed

ASSUME MobilityAssumption ==
    /\ DOMAIN ConnOf \subseteq APs
    /\ ConnOf \in [DOMAIN ConnOf -> Conns]
    /\ Default \in Conns
    /\ None \notin APs \cup Conns
    /\ MaxStarts \in Nat
    /\ MaxDowns \in Nat \ {0}
    /\ MaxUnclosed \in Nat

Chains == 1 .. MaxStarts
NoChain == 0
Configured == DOMAIN ConnOf

VARIABLES
    pc,           \* where the reports of each chain stand
    goal,         \* the access point of its order (response["bssid"])
    lock,         \* the chain that holds self.lock, or NoChain
    scan,         \* where the scans of each chain stand
    listed,       \* wifilist is not empty
    stop,         \* stop_mobility
    migrating,    \* migrating
    main,         \* what the main thread is doing
    fresh,        \* the chain whose start() it is in, or NoChain
    mainArg,      \* the access point start() has read, or the connection that
                  \* onAttestation is making
    useMobility,  \* useMobility
    active,       \* active_ipsec_connection
    ipsecName,    \* IPSEC_NED_CONNECTION_NAME
    currentAP,    \* currentAP, which the attestation thread asks about
    tunnels,      \* connections charon has up
    downs,        \* "ipsec down" processes under way, for each connection
    switched,     \* mobility has been switched off (history)
    failed,       \* the last handover, or the start, has failed and left no
                  \* connection (history)
    unclosed,     \* connections whose last "ipsec down" could not be started
                  \* (history)
    misread       \* currentAP is what start() has recorded, although no order
                  \* named it or one has made it leave meanwhile (history)

reportVars == <<pc, goal, lock, migrating>>
scanVars == <<scan, listed>>
mainVars == <<main, fresh, mainArg, useMobility, stop, switched>>
tunnelVars == <<active, ipsecName, tunnels, downs>>
placeVars == <<currentAP, misread>>
failVars == <<failed, unclosed>>
vars == <<reportVars, scanVars, mainVars, tunnelVars, placeVars, failVars>>

-----------------------------------------------------------------------------
\* check: at 291, or its timer set; acquire: at 295; put: in requests.put
\* (310); leave: at 334; up: in "ipsec up"; made: slept after it (client_sec
\* 586); update: at 350; release: at 362; rearm: at 365
Pcs == {"none", "check", "acquire", "put", "leave", "up", "made", "update",
        "release", "rearm", "ended"}

Locked == {"put", "leave", "up", "made", "update", "release"}

Goto(c, p) == pc' = [pc EXCEPT ![c] = p]

\* __init__, with USE_MOBILITY, has made the tunnel of the access point it
\* found, if that has an entry and the script could be run (197-214)
Init ==
    /\ pc = [c \in Chains |-> "none"]
    /\ goal = [c \in Chains |-> None]
    /\ lock = NoChain
    /\ scan = [c \in Chains |-> "none"]
    /\ listed = FALSE
    /\ stop = FALSE
    /\ migrating = FALSE
    /\ main = "loop"
    /\ fresh = NoChain
    /\ mainArg = None
    /\ useMobility = TRUE
    /\ currentAP \in APs \cup {None}
    /\ active \in {None} \cup {ConnOf[ap] : ap \in Configured \cap {currentAP}}
    /\ ipsecName = IF active = None THEN Default ELSE active
    /\ tunnels \in SUBSET ({active} \ {None})
    /\ downs = [n \in Conns |-> 0]
    /\ switched = FALSE
    /\ failed = (active = None)
    /\ unclosed = {}
    /\ misread = FALSE

-----------------------------------------------------------------------------
(* reportAPs                                                               *)

\* 294: the lock is looked at, not yet taken
Checks(c) ==
    /\ pc[c] = "check"
    /\ Goto(c, IF listed /\ ~stop /\ lock = NoChain THEN "acquire"
                                                    ELSE "rearm")
    /\ UNCHANGED <<goal, lock, migrating, scanVars, mainVars, tunnelVars,
                   placeVars, failVars>>

\* Mutant: having been found free, the lock is not waited for
AcquiresAnyway(c) ==
    /\ pc[c] = "acquire"
    /\ lock' = c
    /\ Goto(c, "put")
    /\ UNCHANGED <<goal, migrating, scanVars, mainVars, tunnelVars, placeVars, failVars>>

\* 295: it may have been taken since, and is waited for
Acquires(c) ==
    /\ pc[c] = "acquire"
    /\ lock = NoChain
    /\ lock' = c
    /\ Goto(c, "put")
    /\ UNCHANGED <<goal, migrating, scanVars, mainVars, tunnelVars, placeVars, failVars>>

\* Action 0, no answer, an answer that makes no sense (KeyError, 358), and an
\* order for an access point out of sight
NothingToDo(c) ==
    /\ pc[c] = "put"
    /\ Goto(c, "release")
    /\ UNCHANGED <<goal, lock, migrating, scanVars, mainVars, tunnelVars,
                   placeVars, failVars>>

\* Action 1
MigrationBegins(c) ==
    /\ pc[c] = "put"
    /\ migrating' = TRUE
    /\ Goto(c, "release")
    /\ UNCHANGED <<goal, lock, scanVars, mainVars, tunnelVars, placeVars, failVars>>

\* Action 2.  With no active connection the message of 333 cannot be put
\* together (TypeError, 358), and nothing is done.
HandoverOrdered(c, ap) ==
    /\ pc[c] = "put"
    /\ goal' = [goal EXCEPT ![c] = ap]
    /\ Goto(c, IF active = None THEN "release" ELSE "leave")
    /\ UNCHANGED <<lock, migrating, scanVars, mainVars, tunnelVars,
                   placeVars, failVars>>

\* closeIPsecConnection: "ipsec down" is started, not waited for
DownStarts ==
    /\ active' = None
    /\ downs[ipsecName] < MaxDowns
    /\ downs' = [downs EXCEPT ![ipsecName] = @ + 1]
    /\ unclosed' = unclosed \ {ipsecName}

\* When it cannot be started (623-627) the connection stays the active one.
DownFails ==
    /\ unclosed' = unclosed \cup {ipsecName}
    /\ Cardinality(unclosed') <= MaxUnclosed
    /\ UNCHANGED <<active, downs>>

CloseIPsecConnection ==
    /\ DownStarts \/ DownFails
    /\ UNCHANGED <<ipsecName, tunnels>>

\* 334-347: the tunnel is closed and NetworkManager told to associate; the
\* connection is looked up.  Any step may raise (358), and with no entry the
\* message of 346 cannot be put together.
Leaves(c) ==
    /\ pc[c] = "leave"
    /\ CloseIPsecConnection
    /\ \/ /\ goal[c] \in Configured
          /\ Goto(c, "up")
          /\ UNCHANGED failed
       \/ /\ failed' = (active' = None)
          /\ Goto(c, "release")
    /\ UNCHANGED <<goal, lock, migrating, scanVars, mainVars, placeVars>>

\* makeIPsecConnection cannot change the directory, and raises (581, to 358),
\* or cannot run "ipsec up", and returns (587-591): the report goes on to 350.
UpFails(c) ==
    /\ pc[c] = "up"
    /\ failed' = (active = None)
    /\ \E p \in {"release", "update"} : Goto(c, p)
    /\ UNCHANGED <<goal, lock, migrating, scanVars, mainVars, tunnelVars,
                   placeVars, unclosed>>

\* Mutant: the name of the connection is not kept
UpForgets(c) ==
    /\ pc[c] = "up"
    /\ tunnels' \in {tunnels, tunnels \cup {ConnOf[goal[c]]}}
    /\ Goto(c, "made")
    /\ UNCHANGED <<goal, lock, migrating, scanVars, mainVars, active,
                   ipsecName, downs, placeVars, failVars>>

\* "ipsec up" returns, its status is not looked at; the name is kept (585)
UpReturns(c) ==
    /\ pc[c] = "up"
    /\ tunnels' \in {tunnels, tunnels \cup {ConnOf[goal[c]]}}
    /\ ipsecName' = ConnOf[goal[c]]
    /\ Goto(c, "made")
    /\ UNCHANGED <<goal, lock, migrating, scanVars, mainVars, active,
                   downs, placeVars, failVars>>

\* Mutant: the connection is not recorded as active
MadeForgets(c) ==
    /\ pc[c] = "made"
    /\ Goto(c, "update")
    /\ UNCHANGED <<goal, lock, migrating, scanVars, mainVars, tunnelVars,
                   placeVars, failVars>>

Made(c) ==
    /\ pc[c] = "made"
    /\ active' = ConnOf[goal[c]]
    /\ failed' = FALSE
    /\ unclosed' = unclosed \ {active'}
    /\ Goto(c, "update")
    /\ UNCHANGED <<goal, lock, migrating, scanVars, mainVars, ipsecName,
                   tunnels, downs, placeVars>>

\* Mutant: the name of the connection is passed on instead of the SSID
UpdatesConnName(c) ==
    /\ pc[c] = "update"
    /\ currentAP' = ConnOf[goal[c]]
    /\ Goto(c, "release")
    /\ UNCHANGED <<goal, lock, migrating, scanVars, mainVars, tunnelVars,
                   misread, failVars>>

\* Mutant: the attestation thread is not told of the access point
UpdatesNothing(c) ==
    /\ pc[c] = "update"
    /\ Goto(c, "release")
    /\ UNCHANGED <<goal, lock, migrating, scanVars, mainVars, tunnelVars,
                   placeVars, failVars>>

\* updateConnectionInformation: setApIp, if the access point is another one
Updates(c) ==
    /\ pc[c] = "update"
    /\ currentAP' = goal[c]
    /\ misread' = FALSE
    /\ Goto(c, "release")
    /\ UNCHANGED <<goal, lock, migrating, scanVars, mainVars, tunnelVars,
                   failVars>>

\* Mutant: the lock is released only when an order has been carried out
ReleasesOnSuccess(c) ==
    /\ pc[c] = "release"
    /\ lock' = IF goal[c] # None THEN NoChain ELSE lock
    /\ goal' = [goal EXCEPT ![c] = None]
    /\ Goto(c, "rearm")
    /\ UNCHANGED <<migrating, scanVars, mainVars, tunnelVars,
                   placeVars, failVars>>

\* The inner finally: however the report went
Releases(c) ==
    /\ pc[c] = "release"
    /\ lock' = NoChain
    /\ goal' = [goal EXCEPT ![c] = None]
    /\ Goto(c, "rearm")
    /\ UNCHANGED <<migrating, scanVars, mainVars, tunnelVars,
                   placeVars, failVars>>

\* Mutant: a chain that has been stopped goes on
GoesOnAnyway == TRUE

\* 365-368: a migration is asked about before the stop
GoesOn == migrating \/ ~stop

\* The outer finally.  In the main thread start() goes on to the first scan.
Rearms(c) ==
    /\ pc[c] = "rearm"
    /\ Goto(c, IF GoesOn THEN "check" ELSE "ended")
    /\ scan' = IF fresh = c THEN [scan EXCEPT ![c] = "on"] ELSE scan
    /\ UNCHANGED <<goal, lock, migrating, listed, mainVars, tunnelVars,
                   placeVars, failVars>>

-----------------------------------------------------------------------------
(* getIWlistSignals                                                        *)

\* Every listed access point in sight had a signal: the loop (127) ends.  The
\* list is left alone when there is no association.  When the file of SSIDs
\* cannot be read (114-116) this chain scans no more.
ScanEnds(c) ==
    /\ scan[c] = "on"
    /\ \/ /\ listed' \in BOOLEAN
          /\ scan' = [scan EXCEPT ![c] = IF stop THEN "ended" ELSE "on"]
       \/ /\ scan' = [scan EXCEPT ![c] = "ended"]
          /\ UNCHANGED listed
    /\ main' = IF fresh = c THEN "loop" ELSE main
    /\ fresh' = IF fresh = c THEN NoChain ELSE fresh
    /\ UNCHANGED <<reportVars, mainArg, useMobility, stop, switched,
                   tunnelVars, placeVars, failVars>>

-----------------------------------------------------------------------------
(* The main thread                                                         *)

\* Where the Wi-Fi is unless it roams: where it was, or where a handover sends
\* it (340)
Expected ==
    {currentAP} \cup
        {goal[c] : c \in {d \in Chains : pc[d] \in {"up", "made", "update"}}}

\* start(), after a login with mobility in use, or on the start button.  The
\* access point NetworkManager has come to is read (98, 251); when it is
\* another than the one recorded, the new address is waited for (229-235).
Start(c) ==
    /\ main = "loop"
    /\ pc[c] = "none"
    /\ \A d \in Chains : d < c => pc[d] # "none"
    /\ fresh' = c
    /\ useMobility' = TRUE
    /\ \/ /\ Goto(c, "check")
          /\ main' = "start"
          /\ UNCHANGED mainArg
       \/ /\ mainArg' \in APs \ {currentAP}
          /\ main' = "read"
          /\ UNCHANGED pc
    /\ UNCHANGED <<goal, lock, migrating, scanVars, stop, switched,
                   tunnelVars, placeVars, failVars>>

\* setApIp (241), however old what was read
StartRecords(c) ==
    /\ main = "read"
    /\ fresh = c
    /\ currentAP' = mainArg
    /\ misread' = (misread \/ mainArg \notin Expected)
    /\ mainArg' = None
    /\ main' = "start"
    /\ Goto(c, "check")
    /\ UNCHANGED <<goal, lock, migrating, scanVars, fresh, useMobility,
                   stop, switched, tunnelVars, failVars>>

\* stop_m(), after a logout (useMobility stays) or on the stop button
Stop(button) ==
    /\ main = "loop"
    /\ useMobility
    /\ stop' = TRUE
    /\ useMobility' = (useMobility /\ ~button)
    /\ switched' = (switched \/ button)
    /\ UNCHANGED <<reportVars, scanVars, main, fresh, mainArg, tunnelVars,
                   placeVars, failVars>>

\* onAttestation without mobility, with no active connection: the last one is
\* made again (client_sec 558-560)
SlotMakes ==
    /\ main = "loop"
    /\ ~useMobility
    /\ active = None
    /\ main' = "up"
    /\ mainArg' = ipsecName
    /\ UNCHANGED <<reportVars, scanVars, fresh, useMobility, stop,
                   switched, tunnelVars, placeVars, failVars>>

SlotUpReturns ==
    /\ main = "up"
    /\ tunnels' \in {tunnels, tunnels \cup {mainArg}}
    /\ ipsecName' = mainArg
    /\ main' = "made"
    /\ UNCHANGED <<reportVars, scanVars, fresh, mainArg, useMobility, stop,
                   switched, active, downs, placeVars, failVars>>

\* It raises (581), which ends the slot, or returns (587-591).
SlotUpFails ==
    /\ main = "up"
    /\ main' = "loop"
    /\ mainArg' = None
    /\ UNCHANGED <<reportVars, scanVars, fresh, useMobility, stop,
                   switched, tunnelVars, placeVars, failVars>>

SlotMade ==
    /\ main = "made"
    /\ active' = mainArg
    /\ failed' = FALSE
    /\ unclosed' = unclosed \ {mainArg}
    /\ main' = "loop"
    /\ mainArg' = None
    /\ UNCHANGED <<reportVars, scanVars, fresh, useMobility, stop,
                   switched, ipsecName, tunnels, downs, placeVars>>

\* closeEvent: the mobility client is stopped (669), the tunnel closed; the
\* main thread waits for the threads of the timers (client_main.py, sys.exit)
CloseEvent ==
    /\ main = "loop"
    /\ stop' = TRUE
    /\ CloseIPsecConnection
    /\ main' = "gone"
    /\ UNCHANGED <<reportVars, scanVars, fresh, mainArg, useMobility, switched,
                   placeVars, failed>>

AllEnded ==
    \A c \in Chains : pc[c] \in {"none", "ended"} /\ scan[c] \in {"none", "ended"}

Exits ==
    /\ main = "gone"
    /\ AllEnded
    /\ main' = "exited"
    /\ UNCHANGED <<reportVars, scanVars, fresh, mainArg, useMobility, stop,
                   switched, tunnelVars, placeVars, failVars>>

-----------------------------------------------------------------------------
(* charon                                                                  *)

DownEnds(n) ==
    /\ downs[n] > 0
    /\ downs' = [downs EXCEPT ![n] = @ - 1]
    /\ tunnels' = tunnels \ {n}
    /\ UNCHANGED <<reportVars, scanVars, mainVars, active, ipsecName, placeVars, failVars>>

-----------------------------------------------------------------------------
\* All a chain does by itself.  requests.put (310) has no time-out.
Report(c) ==
    \/ Checks(c)
    \/ Acquires(c)
    \/ Leaves(c)
    \/ UpReturns(c)
    \/ UpFails(c)
    \/ Made(c)
    \/ Updates(c)
    \/ Releases(c)
    \/ Rearms(c)

PscAnswers(c) ==
    \/ NothingToDo(c)
    \/ MigrationBegins(c)
    \/ \E ap \in APs : HandoverOrdered(c, ap)

Slot ==
    \/ SlotUpReturns
    \/ SlotUpFails
    \/ SlotMade
    \/ \E c \in Chains : StartRecords(c)
    \/ Exits

User ==
    \/ \E c \in Chains : Start(c)
    \/ \E button \in BOOLEAN : Stop(button)
    \/ CloseEvent

Outside == \E n \in Conns : DownEnds(n)

Next ==
    \/ \E c \in Chains : Report(c) \/ PscAnswers(c)
    \/ \E c \in Chains : ScanEnds(c)
    \/ SlotMakes
    \/ Slot
    \/ User
    \/ Outside

Spec == Init /\ [][Next]_vars

\* Threads are scheduled, timers fire, ipsec returns.  Whether the PSC answers
\* and whether a scan ends is not in the hands of the application.
FairSpec ==
    /\ Spec
    /\ \A c \in Chains : WF_vars(Report(c))
    /\ WF_vars(Slot)
    /\ \A n \in Conns : WF_vars(DownEnds(n))

-----------------------------------------------------------------------------
(* Properties                                                              *)

\* Every variable keeps to its values.
TypeOK ==
    /\ pc \in [Chains -> Pcs]
    /\ goal \in [Chains -> APs \cup {None}]
    /\ lock \in Chains \cup {NoChain}
    /\ scan \in [Chains -> {"none", "on", "ended"}]
    /\ listed \in BOOLEAN
    /\ stop \in BOOLEAN
    /\ migrating \in BOOLEAN
    /\ main \in {"loop", "read", "start", "up", "made", "gone", "exited"}
    /\ fresh \in Chains \cup {NoChain}
    /\ mainArg \in APs \cup Conns \cup {None}
    /\ useMobility \in BOOLEAN
    /\ active \in Conns \cup {None}
    /\ ipsecName \in Conns
    /\ currentAP \in APs \cup {None}
    /\ tunnels \in SUBSET Conns
    /\ downs \in [Conns -> 0 .. MaxDowns]
    /\ switched \in BOOLEAN
    /\ failed \in BOOLEAN
    /\ unclosed \in SUBSET Conns
    /\ misread \in BOOLEAN

\* The chains of several starts, and the main thread in its first report,
\* carry out one order at a time, although each tests the lock before it takes
\* it (294-295).
OneHandover ==
    \A c, d \in Chains : pc[c] \in Locked /\ pc[d] \in Locked => c = d

\* The connections charon may be left with: that of the application, one going
\* down, one that has just been made
Accounted(n) ==
    \/ n = active
    \/ downs[n] > 0
    \/ \E c \in Chains : pc[c] = "made" /\ ConnOf[goal[c]] = n

\* As long as mobility has not been switched off, no handover and no closing
\* of the application forgets a tunnel, whatever ipsec says and whatever step
\* fails: it is the active one, or being taken down, or its "ipsec down" could
\* not be started.
NoTunnelLeftBehind ==
    ~switched => \A n \in tunnels \ unclosed : Accounted(n)

\* The application is without a connection, with its window open and no
\* handover under way, only when the last handover, or the start, has failed:
\* its access point has no entry, or a step of it after the close went wrong.
\* No other report, start or stop leaves it so, whatever it meets half-way.
LostOnlyByFailure ==
    (/\ active = None
     /\ main \notin {"gone", "exited"}
     /\ \A c \in Chains : pc[c] \notin Locked) => failed

\* The attestation thread asks about the NED at the other end of the tunnel,
\* however handovers fail, except while one is changing over, and unless
\* start() has misread the access point, the tunnel is an old one that could
\* not be closed, or mobility was switched off.
AttestedIsConnected ==
    (/\ ~misread /\ ~switched
     /\ active \notin unclosed \cup {None}
     /\ \A c \in Chains : pc[c] # "update") => ConnOf[currentAP] = active

\* As long as there is something to report, reports are sent: no order, error
\* or failed handover leaves the lock taken or ends the last chain.
ReportsGoOn ==
    \A c \in Chains :
        (pc[c] # "none" /\ fresh # c /\ listed /\ ~stop) ~>
            (~listed \/ stop \/ \E d \in Chains : pc[d] = "put")

\* After closeEvent the process ends, if the PSC answers, scans end, and no
\* migration has ever begun.  (The timer threads are waited for, and after a
\* migration they set each other for ever.)
CloseEndsTheProcess ==
    (/\ []~migrating
     /\ []<>(\A c \in Chains : pc[c] # "put")
     /\ \A c \in Chains : (stop /\ scan[c] = "on") ~> scan[c] = "ended")
    => (main = "gone" ~> main = "exited")
=============================================================================

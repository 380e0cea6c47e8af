-------------------------- MODULE MobilityProofs --------------------------
(***************************************************************************)
(* Proofs about the application with mobility, for any access points,      *)
(* connections and number of starts: its types, that handovers are carried *)
(* out one at a time, that none of them forgets a tunnel, that one has to  *)
(* fail to leave the application without a connection, and that the        *)
(* access point asked about is that of the connection.                     *)
(*                                                                         *)
(* LockInv says who is where only one may be: the chain that holds the     *)
(* lock.  GoalInv and NameInv follow an order through its handover: the    *)
(* access point has an entry, its connection is recorded before it becomes *)
(* the active one, and until then there is none, unless the old one could  *)
(* not be closed.  ModeInv keeps the slot of the window out as long as     *)
(* mobility is on.  PlaceInv says what the recorded access point is to be. *)
(***************************************************************************)
EXTENDS MobilityClient, TLAPS

LockInv == \A c \in Chains : pc[c] \in Locked => lock = c

GoalInv == \A c \in Chains : pc[c] \in {"up", "made"} => goal[c] \in Configured

ModeInv ==
    /\ ~switched => useMobility /\ main \notin {"up", "made"}
    /\ main \in {"up", "made"} => mainArg \in Conns
    /\ main = "read" => mainArg \in APs
    /\ fresh # NoChain => main \in {"read", "start"}
    /\ main = "read" => \A c \in Chains : fresh = c => pc[c] = "none"

\* But for a tunnel that could not be closed, there is no connection while one
\* is being made, and the active one goes by the recorded name and is that of
\* the order about to be recorded.
NameInv ==
    ~switched =>
        /\ active \notin unclosed \cup {None} =>
              /\ active = ipsecName
              /\ \A c \in Chains : pc[c] \notin {"up", "made"}
              /\ \A c \in Chains : pc[c] = "update" => active = ConnOf[goal[c]]
        /\ \A c \in Chains : pc[c] = "made" => ipsecName = ConnOf[goal[c]]

\* Without a connection, one is being made, or that has failed
LostInv ==
    active = None /\ main \notin {"gone", "exited"} =>
        failed \/ \E c \in Chains : pc[c] \in {"up", "made"}

\* Between orders the active connection is that of the recorded access point.
PlaceInv ==
    (/\ ~misread /\ ~switched
     /\ active \notin unclosed \cup {None}
     /\ \A c \in Chains : pc[c] # "update") => ConnOf[currentAP] = active

IInv == TypeOK /\ LockInv /\ GoalInv /\ ModeInv

TunnelInv == NameInv /\ NoTunnelLeftBehind

---------------------------------------------------------------------------

LEMMA ConnOfType ==
    ASSUME NEW ap \in Configured
    PROVE  ConnOf[ap] \in Conns /\ ConnOf[ap] # None
BY MobilityAssumption DEF Configured

LEMMA ChainType == \A c \in Chains : c \in Nat /\ c # NoChain
BY MobilityAssumption DEF Chains, NoChain

\* Closing counts one process more, or leaves a connection to be closed.
LEMMA CloseTypes ==
    ASSUME TypeOK, CloseIPsecConnection
    PROVE  /\ ipsecName' = ipsecName /\ tunnels' = tunnels
           /\ \/ /\ active' = None
                 /\ downs' \in [Conns -> 0 .. MaxDowns] /\ downs'[ipsecName] > 0
                 /\ unclosed' = unclosed \ {ipsecName}
              \/ /\ active' = active
                 /\ downs' = downs
                 /\ unclosed' = unclosed \cup {ipsecName}
           /\ \A n \in Conns : downs[n] > 0 => downs'[n] > 0
BY MobilityAssumption DEF TypeOK, CloseIPsecConnection, DownStarts, DownFails

LEMMA InitIInv == Init => IInv
<1> SUFFICES ASSUME Init PROVE IInv
  OBVIOUS
<1> USE DEF Init
<1>1. active \in Conns \cup {None} /\ ipsecName \in Conns
  BY MobilityAssumption, ConnOfType
<1>2. tunnels \in SUBSET Conns
  BY <1>1
<1>3. failed \in BOOLEAN /\ unclosed \in SUBSET Conns
  OBVIOUS
<1>4. downs \in [Conns -> 0 .. MaxDowns]
  BY MobilityAssumption
<1>5. TypeOK
  BY <1>1, <1>2, <1>3, <1>4 DEF TypeOK, Pcs, NoChain
<1>6. LockInv /\ GoalInv /\ ModeInv
  BY DEF LockInv, GoalInv, ModeInv, Locked
<1> QED BY <1>5, <1>6 DEF IInv

\* The initial state has the tunnel of its access point, or none.
LEMMA InitTunnels == Init => TunnelInv /\ LostInv
BY MobilityAssumption, ConnOfType
DEF Init, TunnelInv, NameInv, NoTunnelLeftBehind, Accounted, LostInv, Configured

---------------------------------------------------------------------------
(* Types, the lock, the order and the mode *)

LEMMA NextIInv == IInv /\ [Next]_vars => IInv'
<1> SUFFICES ASSUME IInv, [Next]_vars PROVE IInv'
  OBVIOUS
<1> USE DEF IInv, TypeOK, LockInv, GoalInv, ModeInv, Pcs, Locked, Goto,
            reportVars, scanVars, mainVars, tunnelVars, placeVars, failVars
<1> USE ChainType
<1>1. ASSUME NEW c \in Chains, Report(c) PROVE IInv'
  <2>1. CASE Checks(c)
    BY <2>1 DEF Checks
  <2>2. CASE Acquires(c)
    BY <2>2 DEF Acquires
  <2>3. CASE Leaves(c)
    <3>1. CloseIPsecConnection
      BY <2>3 DEF Leaves
    <3>2. /\ active' \in Conns \cup {None} /\ ipsecName' = ipsecName /\ tunnels' = tunnels
          /\ downs' \in [Conns -> 0 .. MaxDowns] /\ unclosed' \in SUBSET Conns
      BY <3>1, CloseTypes
    <3>3. failed' \in BOOLEAN
      BY <2>3 DEF Leaves
    <3>4. /\ pc[c] = "leave"
          /\ \/ pc' = [pc EXCEPT ![c] = "up"] /\ goal[c] \in Configured
             \/ pc' = [pc EXCEPT ![c] = "release"]
          /\ UNCHANGED <<goal, lock, migrating, scanVars, mainVars, placeVars>>
      BY <2>3 DEF Leaves
    <3> QED BY <3>2, <3>3, <3>4
  <2>4. CASE UpReturns(c)
    <3>1. ConnOf[goal[c]] \in Conns
      BY <2>4, ConnOfType DEF UpReturns
    <3> QED BY <2>4, <3>1 DEF UpReturns
  <2>5. CASE Made(c)
    <3>1. ConnOf[goal[c]] \in Conns
      BY <2>5, ConnOfType DEF Made
    <3>2. failed' \in BOOLEAN /\ unclosed' \in SUBSET Conns
      BY <2>5 DEF Made
    <3>3. /\ pc[c] = "made" /\ pc' = [pc EXCEPT ![c] = "update"]
          /\ active' = ConnOf[goal[c]]
          /\ UNCHANGED <<goal, lock, migrating, scanVars, mainVars, ipsecName,
                         tunnels, downs, placeVars>>
      BY <2>5 DEF Made
    <3> QED BY <3>1, <3>2, <3>3
  <2>9. CASE UpFails(c)
    BY <2>9 DEF UpFails
  <2>6. CASE Updates(c)
    <3>1. misread' \in BOOLEAN
      BY <2>6 DEF Updates
    <3>2. /\ pc[c] = "update" /\ pc' = [pc EXCEPT ![c] = "release"]
          /\ currentAP' = goal[c]
          /\ UNCHANGED <<goal, lock, migrating, scanVars, mainVars, tunnelVars, failVars>>
      BY <2>6 DEF Updates
    <3> QED BY <3>1, <3>2
  <2>7. CASE Releases(c)
    BY <2>7 DEF Releases
  <2>8. CASE Rearms(c)
    BY <2>8 DEF Rearms
  <2> QED BY <1>1, <2>1, <2>2, <2>3, <2>4, <2>5, <2>6, <2>7, <2>8, <2>9 DEF Report
<1>2. ASSUME NEW c \in Chains, PscAnswers(c) PROVE IInv'
  <2>1. CASE NothingToDo(c)
    BY <2>1 DEF NothingToDo
  <2>2. CASE MigrationBegins(c)
    BY <2>2 DEF MigrationBegins
  <2>3. ASSUME NEW ap \in APs, HandoverOrdered(c, ap) PROVE IInv'
    BY <2>3 DEF HandoverOrdered
  <2> QED BY <1>2, <2>1, <2>2, <2>3 DEF PscAnswers
<1>3. ASSUME NEW c \in Chains, ScanEnds(c) PROVE IInv'
  BY <1>3 DEF ScanEnds
<1>4. CASE SlotMakes
  BY <1>4 DEF SlotMakes
<1>5. CASE Slot
  <2>1. CASE SlotUpReturns
    BY <2>1 DEF SlotUpReturns
  <2>2. CASE SlotMade
    BY <2>2 DEF SlotMade
  <2>3. ASSUME NEW c \in Chains, StartRecords(c) PROVE IInv'
    <3>1. misread' \in BOOLEAN
      BY <2>3 DEF StartRecords
    <3>2. /\ mainArg \in APs
          /\ currentAP' = mainArg /\ mainArg' = None /\ main' = "start"
          /\ pc' = [pc EXCEPT ![c] = "check"]
          /\ UNCHANGED <<goal, lock, migrating, scanVars, fresh, useMobility,
                         stop, switched, tunnelVars, failVars>>
      BY <2>3 DEF StartRecords
    <3> QED BY <3>1, <3>2
  <2>4. CASE Exits
    BY <2>4 DEF Exits
  <2>5. CASE SlotUpFails
    BY <2>5 DEF SlotUpFails
  <2> QED BY <1>5, <2>1, <2>2, <2>3, <2>4, <2>5 DEF Slot
<1>6. CASE User
  <2>1. ASSUME NEW c \in Chains, Start(c) PROVE IInv'
    BY <2>1 DEF Start
  <2>2. ASSUME NEW button \in BOOLEAN, Stop(button) PROVE IInv'
    <3>1. useMobility' \in BOOLEAN /\ switched' \in BOOLEAN
      BY <2>2 DEF Stop
    <3>2. ~switched' => ~switched /\ useMobility'
      BY <2>2 DEF Stop
    <3>3. stop' = TRUE /\ UNCHANGED <<reportVars, scanVars, main, fresh, mainArg,
                                     tunnelVars, placeVars, failVars>>
      BY <2>2 DEF Stop
    <3> QED BY <3>1, <3>2, <3>3
  <2>3. CASE CloseEvent
    BY <2>3, CloseTypes DEF CloseEvent
  <2> QED BY <1>6, <2>1, <2>2, <2>3 DEF User
<1>7. ASSUME NEW n \in Conns, DownEnds(n) PROVE IInv'
  BY <1>7, MobilityAssumption DEF DownEnds
<1>8. CASE UNCHANGED vars
  BY <1>8 DEF vars
<1> QED BY <1>1, <1>2, <1>3, <1>4, <1>5, <1>6, <1>7, <1>8 DEF Next, Outside

---------------------------------------------------------------------------
(* Tunnels *)

\* The chain that holds the lock is the only one in a handover.
LEMMA Alone ==
    ASSUME IInv, NEW c \in Chains, pc[c] \in Locked
    PROVE  \A d \in Chains : pc[d] \in Locked => d = c
BY DEF IInv, LockInv

\* What changes neither tunnels nor orders changes nothing here.
LEMMA SameTunnels ==
    ASSUME TunnelInv, UNCHANGED tunnelVars, unclosed' = unclosed, switched => switched',
           \A d \in Chains :
               /\ pc'[d] \in {"up", "made"} => pc[d] \in {"up", "made"}
               /\ pc'[d] = "made" <=> pc[d] = "made"
               /\ pc'[d] = "update" => pc[d] = "update"
               /\ pc[d] \in {"up", "made", "update"} => goal'[d] = goal[d]
    PROVE  TunnelInv'
BY DEF TunnelInv, NameInv, NoTunnelLeftBehind, Accounted, tunnelVars

\* Closing, the name it goes by is that of the active connection, or that one
\* could not be closed before.
LEMMA CloseTunnels ==
    ASSUME IInv, TunnelInv, CloseIPsecConnection, goal' = goal, switched' = switched,
           \A d \in Chains : pc'[d] = "made" <=> pc[d] = "made"
    PROVE  TunnelInv' /\ (~switched => active' \in unclosed' \cup {None})
<1>1. /\ ipsecName' = ipsecName /\ tunnels' = tunnels
      /\ \/ /\ active' = None
            /\ downs' \in [Conns -> 0 .. MaxDowns] /\ downs'[ipsecName] > 0
            /\ unclosed' = unclosed \ {ipsecName}
         \/ /\ active' = active
            /\ downs' = downs
            /\ unclosed' = unclosed \cup {ipsecName}
      /\ \A n \in Conns : downs[n] > 0 => downs'[n] > 0
  BY CloseTypes DEF IInv
<1>2. ~switched => active \in unclosed \cup {None, ipsecName}
  BY DEF TunnelInv, NameInv
<1>3. ~switched => active' \in unclosed' \cup {None}
  BY <1>1, <1>2
<1>4. NameInv'
  BY <1>1, <1>3 DEF TunnelInv, NameInv
<1>5. NoTunnelLeftBehind'
  <2> SUFFICES ASSUME ~switched, NEW n \in tunnels, n \notin unclosed' PROVE Accounted(n)'
    BY <1>1 DEF NoTunnelLeftBehind
  <2>1. n \in Conns /\ n # None
    BY MobilityAssumption DEF IInv, TypeOK
  <2>2. CASE n \in unclosed
    <3>1. n = ipsecName /\ downs'[ipsecName] > 0
      BY <1>1, <2>2
    <3> QED BY <3>1 DEF Accounted
  <2>3. CASE n \notin unclosed
    <3>1. Accounted(n) /\ (n = active => n = ipsecName)
      BY <1>2, <2>1, <2>3 DEF TunnelInv, NoTunnelLeftBehind
    <3> QED BY <1>1, <2>1, <3>1 DEF Accounted
  <2> QED BY <2>2, <2>3
<1> QED BY <1>3, <1>4, <1>5 DEF TunnelInv

LEMMA ReportTunnels ==
    ASSUME IInv, TunnelInv, NEW c \in Chains, Report(c)
    PROVE  TunnelInv'
<1> USE DEF Goto, reportVars, scanVars, mainVars, tunnelVars, placeVars, failVars
<1>1. CASE Checks(c)
  BY <1>1, SameTunnels DEF Checks, IInv, TypeOK
<1>2. CASE Acquires(c)
  BY <1>2, SameTunnels DEF Acquires, IInv, TypeOK
<1>3. CASE Leaves(c)
  <2>1. \A d \in Chains : pc'[d] = "made" <=> pc[d] = "made"
    BY <1>3 DEF Leaves, IInv, TypeOK
  <2>2. goal' = goal /\ switched' = switched /\ CloseIPsecConnection
    BY <1>3 DEF Leaves
  <2> QED BY <2>1, <2>2, CloseTunnels
<1>4. CASE UpReturns(c)
  <2> DEFINE n0 == ConnOf[goal[c]]
  <2>1. /\ pc[c] = "up" /\ pc'[c] = "made"
        /\ \A d \in Chains : d # c => pc'[d] = pc[d] /\ pc[d] \notin {"up", "made"}
    BY <1>4, Alone DEF UpReturns, IInv, TypeOK, Locked
  <2>2. /\ tunnels' \subseteq tunnels \cup {n0} /\ ipsecName' = n0
        /\ UNCHANGED <<goal, active, downs, unclosed, switched>>
    BY <1>4 DEF UpReturns
  <2>3. ~switched => active \in unclosed \cup {None}
    BY <2>1 DEF TunnelInv, NameInv
  <2>4. NameInv'
    BY <2>1, <2>2, <2>3 DEF NameInv
  <2>5. NoTunnelLeftBehind'
    BY <2>1, <2>2 DEF TunnelInv, NoTunnelLeftBehind, Accounted
  <2> QED BY <2>4, <2>5 DEF TunnelInv
<1>5. CASE Made(c)
  <2> DEFINE n0 == ConnOf[goal[c]]
  <2>1. /\ pc[c] = "made" /\ pc'[c] = "update"
        /\ \A d \in Chains : d # c => pc'[d] = pc[d] /\ pc[d] \notin Locked
    BY <1>5, Alone DEF Made, IInv, TypeOK, Locked
  <2>2. /\ active' = n0 /\ unclosed' = unclosed \ {n0}
        /\ UNCHANGED <<goal, tunnels, ipsecName, downs, switched>>
    BY <1>5 DEF Made
  <2>3. ~switched => active \in unclosed \cup {None} /\ ipsecName = n0
    BY <2>1 DEF TunnelInv, NameInv
  <2>4. NameInv'
    BY <2>1, <2>2, <2>3 DEF NameInv, Locked
  <2>5. NoTunnelLeftBehind'
    <3> SUFFICES ASSUME ~switched, NEW n \in tunnels, n \notin unclosed' PROVE Accounted(n)'
      BY <2>2 DEF NoTunnelLeftBehind
    <3>1. CASE n = n0
      BY <2>2, <3>1 DEF Accounted
    <3>2. CASE n # n0
      <4>1. n \notin unclosed \cup {None} /\ Accounted(n)
        BY <2>2, <3>2, MobilityAssumption DEF TunnelInv, NoTunnelLeftBehind, IInv, TypeOK
      <4> QED BY <2>1, <2>2, <2>3, <3>2, <4>1 DEF Accounted
    <3> QED BY <3>1, <3>2
  <2> QED BY <2>4, <2>5 DEF TunnelInv
<1>9. CASE UpFails(c)
  <2>1. /\ pc[c] = "up" /\ pc'[c] \in {"release", "update"}
        /\ \A d \in Chains : d # c => pc'[d] = pc[d]
        /\ UNCHANGED <<goal, tunnelVars, unclosed, switched>>
    BY <1>9 DEF UpFails, IInv, TypeOK
  <2>2. ~switched => active \in unclosed \cup {None}
    BY <2>1 DEF TunnelInv, NameInv
  <2>3. NameInv'
    BY <2>1, <2>2 DEF TunnelInv, NameInv
  <2>4. NoTunnelLeftBehind'
    BY <2>1 DEF TunnelInv, NoTunnelLeftBehind, Accounted
  <2> QED BY <2>3, <2>4 DEF TunnelInv
<1>6. CASE Updates(c)
  BY <1>6, SameTunnels DEF Updates, IInv, TypeOK
<1>7. CASE Releases(c)
  BY <1>7, SameTunnels DEF Releases, IInv, TypeOK
<1>8. CASE Rearms(c)
  BY <1>8, SameTunnels DEF Rearms, IInv, TypeOK
<1> QED BY <1>1, <1>2, <1>3, <1>4, <1>5, <1>6, <1>7, <1>8, <1>9 DEF Report

LEMMA NextTunnels == IInv /\ TunnelInv /\ [Next]_vars => TunnelInv'
<1> SUFFICES ASSUME IInv, TunnelInv, [Next]_vars PROVE TunnelInv'
  OBVIOUS
<1> USE DEF Goto, reportVars, scanVars, mainVars, tunnelVars, placeVars,
            failVars
<1>1. ASSUME NEW c \in Chains, Report(c) PROVE TunnelInv'
  BY <1>1, ReportTunnels
<1>2. ASSUME NEW c \in Chains, PscAnswers(c) PROVE TunnelInv'
  <2>1. CASE NothingToDo(c)
    BY <2>1, SameTunnels DEF NothingToDo, IInv, TypeOK
  <2>2. CASE MigrationBegins(c)
    BY <2>2, SameTunnels DEF MigrationBegins, IInv, TypeOK
  <2>3. ASSUME NEW ap \in APs, HandoverOrdered(c, ap) PROVE TunnelInv'
    BY <2>3, SameTunnels DEF HandoverOrdered, IInv, TypeOK
  <2> QED BY <1>2, <2>1, <2>2, <2>3 DEF PscAnswers
<1>3. ASSUME NEW c \in Chains, ScanEnds(c) PROVE TunnelInv'
  BY <1>3, SameTunnels DEF ScanEnds
<1>4. CASE SlotMakes
  BY <1>4, SameTunnels DEF SlotMakes
<1>5. CASE Slot
  <2>1. CASE SlotUpReturns \/ SlotMade
    <3>1. switched /\ switched' = switched
      BY <2>1 DEF SlotUpReturns, SlotMade, IInv, ModeInv
    <3> QED BY <3>1 DEF TunnelInv, NameInv, NoTunnelLeftBehind
  <2>2. ASSUME NEW c \in Chains, StartRecords(c) PROVE TunnelInv'
    BY <2>2, SameTunnels DEF StartRecords, IInv, TypeOK, ModeInv
  <2>3. CASE Exits \/ SlotUpFails
    BY <2>3, SameTunnels DEF Exits, SlotUpFails
  <2> QED BY <1>5, <2>1, <2>2, <2>3 DEF Slot
<1>6. CASE User
  <2>1. ASSUME NEW c \in Chains, Start(c) PROVE TunnelInv'
    BY <2>1, SameTunnels DEF Start, IInv, TypeOK
  <2>2. ASSUME NEW button \in BOOLEAN, Stop(button) PROVE TunnelInv'
    BY <2>2, SameTunnels DEF Stop
  <2>3. CASE CloseEvent
    BY <2>3, CloseTunnels DEF CloseEvent
  <2> QED BY <1>6, <2>1, <2>2, <2>3 DEF User
<1>7. ASSUME NEW n \in Conns, DownEnds(n) PROVE TunnelInv'
  <2>1. /\ tunnels' = tunnels \ {n} /\ \A m \in Conns : m # n => downs'[m] = downs[m]
        /\ UNCHANGED <<pc, goal, active, ipsecName, unclosed, switched>>
    BY <1>7 DEF DownEnds, IInv, TypeOK
  <2>2. tunnels \subseteq Conns
    BY DEF IInv, TypeOK
  <2> QED BY <2>1, <2>2 DEF TunnelInv, NameInv, NoTunnelLeftBehind, Accounted
<1>8. CASE UNCHANGED vars
  BY <1>8, SameTunnels DEF vars
<1> QED BY <1>1, <1>2, <1>3, <1>4, <1>5, <1>6, <1>7, <1>8 DEF Next, Outside

---------------------------------------------------------------------------
(* A connection is lost only by a failure *)

\* Whoever stays in the handover and closes nothing loses nothing.
LEMMA SameLoss ==
    ASSUME LostInv, active' = active, failed => failed',
           main \in {"gone", "exited"} => main' \in {"gone", "exited"},
           \A d \in Chains : pc[d] \in {"up", "made"} => pc'[d] \in {"up", "made"}
    PROVE  LostInv'
BY DEF LostInv

LEMMA NextLoss == IInv /\ LostInv /\ [Next]_vars => LostInv'
<1> SUFFICES ASSUME IInv, LostInv, [Next]_vars PROVE LostInv'
  OBVIOUS
<1> USE DEF Goto, reportVars, scanVars, mainVars, tunnelVars, placeVars,
            failVars
<1>1. ASSUME NEW c \in Chains, Report(c) PROVE LostInv'
  <2>1. CASE Checks(c) \/ Acquires(c) \/ UpReturns(c) \/ Updates(c) \/ Releases(c) \/ Rearms(c)
    BY <2>1, SameLoss
    DEF Checks, Acquires, UpReturns, Updates, Releases, Rearms, IInv, TypeOK
  <2>2. CASE Leaves(c)
    <3>1. pc'[c] = "up" \/ failed' = (active' = None)
      BY <2>2 DEF Leaves, IInv, TypeOK
    <3> QED BY <3>1 DEF LostInv
  <2>3. CASE Made(c)
    <3>1. active' # None
      BY <2>3, ConnOfType DEF Made, IInv, GoalInv
    <3> QED BY <3>1 DEF LostInv
  <2>4. CASE UpFails(c)
    BY <2>4 DEF UpFails, LostInv
  <2> QED BY <1>1, <2>1, <2>2, <2>3, <2>4 DEF Report
<1>2. ASSUME NEW c \in Chains, PscAnswers(c) PROVE LostInv'
  BY <1>2, SameLoss
  DEF PscAnswers, NothingToDo, MigrationBegins, HandoverOrdered, IInv, TypeOK
<1>3. ASSUME NEW c \in Chains, ScanEnds(c) PROVE LostInv'
  <2>1. fresh = c => main \notin {"gone", "exited"}
    BY ChainType DEF IInv, ModeInv
  <2> QED BY <1>3, <2>1, SameLoss DEF ScanEnds
<1>4. CASE SlotMakes
  BY <1>4, SameLoss DEF SlotMakes
<1>5. CASE Slot
  <2>1. CASE SlotUpReturns \/ SlotUpFails
    BY <2>1, SameLoss DEF SlotUpReturns, SlotUpFails
  <2>2. CASE SlotMade
    <3>1. active' # None
      BY <2>2, MobilityAssumption DEF SlotMade, IInv, ModeInv
    <3> QED BY <3>1 DEF LostInv
  <2>3. ASSUME NEW c \in Chains, StartRecords(c) PROVE LostInv'
    BY <2>3, SameLoss DEF StartRecords, IInv, TypeOK, ModeInv
  <2>4. CASE Exits
    BY <2>4, SameLoss DEF Exits
  <2> QED BY <1>5, <2>1, <2>2, <2>3, <2>4 DEF Slot
<1>6. CASE User
  <2>1. ASSUME NEW c \in Chains, Start(c) PROVE LostInv'
    BY <2>1, SameLoss DEF Start, IInv, TypeOK
  <2>2. ASSUME NEW button \in BOOLEAN, Stop(button) PROVE LostInv'
    BY <2>2, SameLoss DEF Stop
  <2>3. CASE CloseEvent
    BY <2>3 DEF CloseEvent, LostInv
  <2> QED BY <1>6, <2>1, <2>2, <2>3 DEF User
<1>7. ASSUME NEW n \in Conns, DownEnds(n) PROVE LostInv'
  BY <1>7, SameLoss DEF DownEnds
<1>8. CASE UNCHANGED vars
  BY <1>8, SameLoss DEF vars
<1> QED BY <1>1, <1>2, <1>3, <1>4, <1>5, <1>6, <1>7, <1>8 DEF Next, Outside

---------------------------------------------------------------------------
(* The recorded access point *)

LEMMA InitPlace == Init => PlaceInv
BY MobilityAssumption, ConnOfType DEF Init, PlaceInv, Configured

\* What neither connects nor records, and updates nothing, changes nothing here.
LEMMA SamePlace ==
    ASSUME PlaceInv, active' = active, currentAP' = currentAP,
           unclosed' = unclosed, misread => misread', switched => switched',
           \A d \in Chains : pc[d] = "update" => pc'[d] = "update"
    PROVE  PlaceInv'
BY DEF PlaceInv

LEMMA NextPlace == IInv /\ TunnelInv /\ PlaceInv /\ [Next]_vars => PlaceInv'
<1> SUFFICES ASSUME IInv, TunnelInv, PlaceInv, [Next]_vars PROVE PlaceInv'
  OBVIOUS
<1> USE DEF Goto, reportVars, scanVars, mainVars, tunnelVars, placeVars,
            failVars
<1>1. ASSUME NEW c \in Chains, Report(c) PROVE PlaceInv'
  <2>1. CASE Checks(c) \/ Acquires(c) \/ UpReturns(c) \/ Releases(c) \/ Rearms(c)
    BY <2>1, SamePlace DEF Checks, Acquires, UpReturns, Releases, Rearms, IInv, TypeOK
  <2>2. CASE Leaves(c)
    <3>1. /\ \A d \in Chains : pc'[d] = "made" <=> pc[d] = "made"
          /\ goal' = goal /\ switched' = switched /\ CloseIPsecConnection
      BY <2>2 DEF Leaves, IInv, TypeOK
    <3> QED BY <3>1, CloseTunnels DEF PlaceInv
  <2>3. CASE Made(c)
    <3>1. pc'[c] = "update"
      BY <2>3 DEF Made, IInv, TypeOK
    <3> QED BY <3>1 DEF PlaceInv
  <2>4. CASE Updates(c)
    <3>1. /\ pc[c] = "update" /\ currentAP' = goal[c]
          /\ UNCHANGED <<active, unclosed, switched>>
      BY <2>4 DEF Updates
    <3> QED BY <3>1 DEF TunnelInv, NameInv, PlaceInv
  <2>5. CASE UpFails(c)
    <3>1. pc[c] = "up" /\ UNCHANGED <<active, unclosed, switched>>
      BY <2>5 DEF UpFails
    <3>2. ~switched => active \in unclosed \cup {None}
      BY <3>1 DEF TunnelInv, NameInv
    <3> QED BY <3>1, <3>2 DEF PlaceInv
  <2> QED BY <1>1, <2>1, <2>2, <2>3, <2>4, <2>5 DEF Report
<1>2. ASSUME NEW c \in Chains, PscAnswers(c) PROVE PlaceInv'
  BY <1>2, SamePlace
  DEF PscAnswers, NothingToDo, MigrationBegins, HandoverOrdered, IInv, TypeOK
<1>3. ASSUME NEW c \in Chains, ScanEnds(c) PROVE PlaceInv'
  BY <1>3, SamePlace DEF ScanEnds
<1>4. CASE SlotMakes
  BY <1>4, SamePlace DEF SlotMakes
<1>5. CASE Slot
  <2>1. CASE SlotUpReturns \/ SlotMade
    <3>1. switched /\ switched' = switched
      BY <2>1 DEF SlotUpReturns, SlotMade, IInv, ModeInv
    <3> QED BY <3>1 DEF PlaceInv
  <2>2. ASSUME NEW c \in Chains, StartRecords(c) PROVE PlaceInv'
    <3>1. /\ \A d \in Chains : (pc'[d] = "update" <=> pc[d] = "update")
          /\ currentAP' = mainArg /\ misread' = (misread \/ mainArg \notin Expected)
          /\ UNCHANGED <<goal, active, unclosed, switched>>
      BY <2>2 DEF StartRecords, IInv, TypeOK, ModeInv
    <3> SUFFICES ASSUME ~misread', ~switched, active \notin unclosed \cup {None},
                        \A d \in Chains : pc[d] # "update"
                 PROVE  ConnOf[mainArg] = active
      BY <3>1 DEF PlaceInv
    <3>2. \A d \in Chains : pc[d] \notin {"up", "made"}
      BY DEF TunnelInv, NameInv
    <3>3. mainArg = currentAP
      BY <3>1, <3>2 DEF Expected
    <3> QED BY <3>1, <3>3 DEF PlaceInv
  <2>3. CASE Exits \/ SlotUpFails
    BY <2>3, SamePlace DEF Exits, SlotUpFails
  <2> QED BY <1>5, <2>1, <2>2, <2>3 DEF Slot
<1>6. CASE User
  <2>1. ASSUME NEW c \in Chains, Start(c) PROVE PlaceInv'
    BY <2>1, SamePlace DEF Start, IInv, TypeOK
  <2>2. ASSUME NEW button \in BOOLEAN, Stop(button) PROVE PlaceInv'
    BY <2>2, SamePlace DEF Stop
  <2>3. CASE CloseEvent
    <3>1. /\ pc' = pc /\ goal' = goal /\ switched' = switched /\ CloseIPsecConnection
      BY <2>3 DEF CloseEvent
    <3> QED BY <3>1, CloseTunnels DEF PlaceInv
  <2> QED BY <1>6, <2>1, <2>2, <2>3 DEF User
<1>7. ASSUME NEW n \in Conns, DownEnds(n) PROVE PlaceInv'
  BY <1>7, SamePlace DEF DownEnds
<1>8. CASE UNCHANGED vars
  BY <1>8, SamePlace DEF vars
<1> QED BY <1>1, <1>2, <1>3, <1>4, <1>5, <1>6, <1>7, <1>8 DEF Next, Outside

---------------------------------------------------------------------------
(* Theorems *)

\* The invariant holds of every behaviour (MobilityClient.py:282-371).
THEOREM Invariant == Spec => []IInv
BY InitIInv, NextIInv, PTL DEF Spec

\* Every variable keeps to its values; an order that is carried out names an
\* access point, and what is made is a connection (MobilityClient.py:316-350).
THEOREM TypeCorrect == Spec => []TypeOK
<1>1. IInv => TypeOK
  BY DEF IInv
<1> QED BY Invariant, <1>1, PTL

\* However many chains of reports there are, one at a time is in a handover
\* (MobilityClient.py:294-362).
THEOREM OneAtATime == Spec => []OneHandover
<1>1. IInv => OneHandover
  BY DEF IInv, LockInv, OneHandover
<1> QED BY Invariant, <1>1, PTL

\* As long as mobility has not been switched off, no tunnel is forgotten, but
\* one that could not be closed (MobilityClient.py:333-350, client_sec.py:579-629).
THEOREM NoneLeftBehind == Spec => []NoTunnelLeftBehind
<1>1. Spec => []TunnelInv
  BY Invariant, InitTunnels, NextTunnels, PTL DEF Spec
<1>2. TunnelInv => NoTunnelLeftBehind
  BY DEF TunnelInv
<1> QED BY <1>1, <1>2, PTL

\* Only a handover, or a start, that fails leaves the application without a
\* connection (MobilityClient.py:333-358, client_sec.py:579-593).
THEOREM LostByFailure == Spec => []LostOnlyByFailure
<1>1. Spec => []LostInv
  BY Invariant, InitTunnels, NextLoss, PTL DEF Spec
<1>2. LostInv => LostOnlyByFailure
  BY DEF LostInv, LostOnlyByFailure, Locked
<1> QED BY <1>1, <1>2, PTL

\* The access point that the attestation thread asks about is that of the
\* active connection, but for the cases the property names: start() records
\* what it read before an order was carried out, or the connection could not
\* be closed (MobilityClient.py:98-103, 333-350).
THEOREM AttestsTheConnected == Spec => []AttestedIsConnected
<1>1. Spec => [](IInv /\ TunnelInv)
  BY Invariant, InitTunnels, NextTunnels, PTL DEF Spec
<1>2. Spec => []PlaceInv
  BY <1>1, InitPlace, NextPlace, PTL DEF Spec
<1>3. PlaceInv => AttestedIsConnected
  BY DEF PlaceInv, AttestedIsConnected
<1> QED BY <1>2, <1>3, PTL

===========================================================================

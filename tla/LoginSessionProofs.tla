------------------------ MODULE LoginSessionProofs ------------------------
(***************************************************************************)
(* Proofs about the login session, for any users, calls of login() and     *)
(* events, however deep the slots nest: its types, that the user shown is  *)
(* the one logged in at the NED, that he can log out, that nothing of him  *)
(* is left after it, and that each event is told once.                     *)
(*                                                                         *)
(* Only NothingLeftBehind is nearly inductive: LeftInv also says that no   *)
(* list is on its way.  ShownIsLoggedIn speaks of times when nothing is    *)
(* under way; AgreeInv says what holds while something is: whom the reply  *)
(* to come is about, and that nobody is logged in while a slot has yet to  *)
(* take the user away.  EventInv says that what was not counted was not    *)
(* told.                                                                   *)
(***************************************************************************)
EXTENDS LoginSession, TLAPS

\* Places of slots that will take the user away
Takers == {"refusal", "again", "refused", "goodbye"}

\* One request at a time, for the user in the field, and a reply is so.
OneRequest ==
    /\ late = {}
    /\ req.pc \in {"started", "posting", "accepted", "refused"} => "login" \notin Queued
    /\ req.pc \in {"posting", "accepted", "refused"} => req.sent = req.user
    /\ req.pc = "accepted" => ned = req.user
    /\ req.pc = "refused" => ned = None
    /\ "login" \in Queued => \/ req.r = "accepted" /\ ned = req.user
                             \/ req.r = "refused" /\ ned = None

AgreeInv ==
    ~astray =>
        /\ OneRequest
        /\ ~Pending /\ Resetting => ned = None
        /\ ~Pending /\ ~Resetting => user = ned
        /\ ~Pending /\ ned # None => status

\* Who logs in is a user.
RequestInv ==
    /\ req.pc # "idle" => req.user # None
    /\ req.r # "None" => req.user # None

\* No user is shown, and no list is on its way.
LeftInv ==
    user = None /\ ~straggled =>
        /\ list # "psas" /\ ev.pc = "off"
        /\ psc # "polling" /\ "list" \notin Queued

EventInv ==
    /\ ev.pc # "counted" => ev.hand = {}
    /\ \A e \in 1 .. MaxEvents :
        /\ told[e] <= 1
        /\ e \in ev.hand => told[e] = 0 /\ e <= ev.index
        /\ e > ev.index => told[e] = 0
        /\ (e <= ev.index /\ told[e] = 0) => e \in ev.hand \cup dropped

IInv == TypeOK /\ RequestInv /\ LeftInv /\ EventInv /\ AgreeInv

---------------------------------------------------------------------------
(* Queue and stack *)

LEMMA Emitted ==
    ASSUME queue \in Seq(Signals), NEW s \in Signals, Emits(s)
    PROVE  queue' \in Seq(Signals) /\ Queued' = Queued \cup {s}
<1>1. /\ queue' \in Seq(Signals) /\ Len(queue') = Len(queue) + 1 /\ Len(queue) \in Nat
      /\ DOMAIN queue = 1 .. Len(queue) /\ DOMAIN queue' = 1 .. Len(queue')
      /\ queue'[Len(queue')] = s
      /\ \A i \in DOMAIN queue : queue'[i] = queue[i]
  BY DEF Emits
<1>2. Queued \cup {s} \subseteq Queued'
  BY <1>1 DEF Queued
<1>3. Queued' \subseteq Queued \cup {s}
  <2>1. ASSUME NEW i \in DOMAIN queue' PROVE queue'[i] \in Queued \cup {s}
    <3>1. CASE i = Len(queue')
      BY <1>1, <3>1
    <3>2. CASE i # Len(queue')
      BY <1>1, <3>2 DEF Queued
    <3> QED BY <3>1, <3>2
  <2> QED BY <2>1 DEF Queued
<1> QED BY <1>1, <1>2, <1>3

LEMMA Taken ==
    ASSUME queue \in Seq(Signals), NEW s, Takes(s)
    PROVE  /\ queue' \in Seq(Signals) /\ s \in Queued
           /\ Queued' \subseteq Queued /\ Queued \subseteq Queued' \cup {s}
<1>1. /\ queue # <<>> /\ queue' = Tail(queue) /\ Head(queue) = s
  BY DEF Takes
<1>2. /\ queue' \in Seq(Signals) /\ Len(queue) \in Nat \ {0} /\ Len(queue') = Len(queue) - 1
      /\ DOMAIN queue = 1 .. Len(queue) /\ DOMAIN queue' = 1 .. Len(queue')
      /\ queue[1] = s
  BY <1>1
<1>3. \A i \in DOMAIN queue' : queue'[i] = queue[i + 1] /\ i + 1 \in DOMAIN queue
  BY <1>1, <1>2
<1>4. s \in Queued
  BY <1>2 DEF Queued
<1>5. Queued' \subseteq Queued
  BY <1>3 DEF Queued
<1>6. ASSUME NEW i \in DOMAIN queue PROVE queue[i] \in Queued' \cup {s}
  <2>1. CASE i = 1
    BY <1>2, <2>1
  <2>2. CASE i # 1
    <3>1. i - 1 \in DOMAIN queue' /\ (i - 1) + 1 = i
      BY <1>2, <2>2
    <3>2. queue'[i - 1] = queue[i]
      BY <1>3, <3>1
    <3> QED BY <3>1, <3>2 DEF Queued
  <2> QED BY <2>1, <2>2
<1> QED BY <1>2, <1>4, <1>5, <1>6 DEF Queued

\* The elements of a stack of which the head is another or none
LEMMA Stacked ==
    ASSUME stack \in Seq(Places), NEW p \in Places
    PROVE  /\ Push(p) => /\ stack' \in Seq(Places) /\ Innermost' = p
                         /\ Slots' = Slots \cup {p}
           /\ stack # <<>> /\ Return =>
                 stack' \in Seq(Places) /\ Slots' \cup {Head(stack)} = Slots
           /\ stack # <<>> /\ Goto(p) =>
                 /\ stack' \in Seq(Places) /\ Innermost' = p
                 /\ Slots' \cup {Head(stack)} = Slots \cup {p} /\ p \in Slots'
<1> DEFINE Elements(s) == {s[i] : i \in DOMAIN s}
<1>1. \A s \in Seq(Places) : /\ <<p>> \o s \in Seq(Places) /\ Head(<<p>> \o s) = p
                             /\ <<p>> \o s # <<>>
  OBVIOUS
<1>2. ASSUME NEW s \in Seq(Places) PROVE Elements(<<p>> \o s) = Elements(s) \cup {p}
  <2> DEFINE t == <<p>> \o s
  <2>1. /\ Len(s) \in Nat /\ Len(t) = Len(s) + 1 /\ t[1] = p
        /\ DOMAIN s = 1 .. Len(s) /\ DOMAIN t = 1 .. Len(t)
        /\ \A i \in 1 .. Len(s) : t[i + 1] = s[i]
    OBVIOUS
  <2> HIDE DEF t
  <2>2. Elements(s) \cup {p} \subseteq Elements(t)
    BY <2>1
  <2>3. ASSUME NEW i \in DOMAIN t PROVE t[i] \in Elements(s) \cup {p}
    <3>1. CASE i = 1
      BY <2>1, <3>1
    <3>2. CASE i # 1
      <4>1. i - 1 \in 1 .. Len(s) /\ (i - 1) + 1 = i
        BY <2>1, <3>2
      <4> QED BY <2>1, <4>1
    <3> QED BY <3>1, <3>2
  <2> QED BY <2>2, <2>3 DEF t
<1>3. Slots = Elements(stack) /\ Slots' = Elements(stack')
  BY DEF Slots
<1>4. stack # <<>> => /\ Tail(stack) \in Seq(Places)
                      /\ Elements(Tail(stack)) \cup {Head(stack)} = Elements(stack)
  <2> SUFFICES ASSUME stack # <<>>
               PROVE  /\ Tail(stack) \in Seq(Places)
                      /\ Elements(Tail(stack)) \cup {Head(stack)} = Elements(stack)
    OBVIOUS
  <2> DEFINE t == Tail(stack)
  <2>1. /\ t \in Seq(Places) /\ Len(stack) \in Nat \ {0} /\ Len(t) = Len(stack) - 1
        /\ DOMAIN stack = 1 .. Len(stack) /\ DOMAIN t = 1 .. Len(t)
        /\ Head(stack) = stack[1]
        /\ \A i \in 1 .. Len(t) : t[i] = stack[i + 1]
    OBVIOUS
  <2> HIDE DEF t
  <2>2. Elements(t) \cup {Head(stack)} \subseteq Elements(stack)
    BY <2>1
  <2>3. ASSUME NEW i \in DOMAIN stack PROVE stack[i] \in Elements(t) \cup {Head(stack)}
    <3>1. CASE i = 1
      BY <2>1, <3>1
    <3>2. CASE i # 1
      <4>1. i - 1 \in 1 .. Len(t) /\ (i - 1) + 1 = i
        BY <2>1, <3>2
      <4> QED BY <2>1, <4>1
    <3> QED BY <3>1, <3>2
  <2> QED BY <2>1, <2>2, <2>3 DEF t
<1> HIDE DEF Elements
<1>5. Push(p) => /\ stack' \in Seq(Places) /\ Innermost' = p
                 /\ Slots' = Slots \cup {p}
  BY <1>1, <1>2, <1>3 DEF Push, Innermost
<1>6. stack # <<>> /\ Return =>
         stack' \in Seq(Places) /\ Slots' \cup {Head(stack)} = Slots
  BY <1>3, <1>4 DEF Return
<1>7. stack # <<>> /\ Goto(p) =>
         /\ stack' \in Seq(Places) /\ Innermost' = p
         /\ Slots' \cup {Head(stack)} = Slots \cup {p} /\ p \in Slots'
  BY <1>1, <1>2, <1>3, <1>4 DEF Goto, Innermost
<1> QED BY <1>5, <1>6, <1>7

LEMMA StackTop ==
    ASSUME stack \in Seq(Places), NEW p \in Places
    PROVE  /\ p # "loop"
           /\ At(p) => stack # <<>> /\ Head(stack) = p /\ p \in Slots
           /\ stack # <<>> => Innermost = Head(stack) /\ Innermost \in Places
           /\ stack = <<>> => Innermost = "loop"
<1>1. p # "loop"
  BY DEF Places, Dialogs, Boxes
<1>2. stack # <<>> => /\ Innermost = Head(stack) /\ Head(stack) \in Places
                      /\ Head(stack) = stack[1] /\ 1 \in DOMAIN stack
  BY DEF Innermost
<1> QED BY <1>1, <1>2 DEF At, Innermost, Slots

\* What a step of the stack leaves of Resetting
LEMMA StackResetting ==
    ASSUME stack \in Seq(Places), NEW p \in Places
    PROVE  /\ UNCHANGED stack => (Resetting' <=> Resetting)
           /\ p \notin Takers /\ Push(p) => (Resetting' <=> Resetting)
           /\ p \in Takers /\ Push(p) => Resetting'
           /\ Innermost \in Places \ Takers /\ Return => (Resetting' <=> Resetting)
           /\ Innermost \in Takers => Resetting
           /\ Innermost \in Places \ Takers /\ p \notin Takers /\ Goto(p)
                  => (Resetting' <=> Resetting)
           /\ Innermost \in Places /\ p \in Takers /\ Goto(p) => Resetting'
<1>1. Resetting <=> Slots \cap Takers # {}
  BY DEF Resetting, Takers
<1>2. Resetting' <=> Slots' \cap Takers # {}
  BY DEF Resetting, Takers
<1>3. Takers \subseteq Places
  BY DEF Takers, Places, Dialogs, Boxes
<1>4. Innermost \in Places => stack # <<>> /\ Innermost = Head(stack) /\ Innermost \in Slots
  <2>1. "loop" \notin Places
    BY DEF Places, Dialogs, Boxes
  <2> QED BY <2>1, StackTop DEF At
<1>5. UNCHANGED stack => Slots' = Slots
  BY DEF Slots
<1> QED BY <1>1, <1>2, <1>3, <1>4, <1>5, Stacked

---------------------------------------------------------------------------
(* Types *)

LEMMA InitIInv == Init => IInv
<1> SUFFICES ASSUME Init PROVE IInv
  OBVIOUS
<1> USE DEF Init
<1>1. TypeOK
  <2>1. queue \in Seq(Signals) /\ stack \in Seq(Places)
    OBVIOUS
  <2>2. calls \in 0 .. MaxCalls /\ told \in [1 .. MaxEvents -> Nat] /\ 0 \in 0 .. MaxEvents
    BY LoginAssumption
  <2> QED BY <2>1, <2>2 DEF TypeOK
<1>2. Queued = {} /\ Slots = {}
  BY DEF Queued, Slots
<1>3. RequestInv
  BY DEF RequestInv
<1>4. LeftInv
  BY <1>2 DEF LeftInv
<1>5. EventInv
  BY LoginAssumption DEF EventInv
<1>6. AgreeInv
  BY <1>2 DEF AgreeInv, OneRequest, Pending, Resetting
<1> QED BY <1>1, <1>3, <1>4, <1>5, <1>6 DEF IInv

LEMMA Typed == TypeOK /\ [Next]_vars => TypeOK'
<1> SUFFICES ASSUME TypeOK, [Next]_vars PROVE TypeOK'
  OBVIOUS
<1> USE DEF view, nedVars, history
<1>1. queue \in Seq(Signals) /\ stack \in Seq(Places)
  BY DEF TypeOK
<1>2. /\ {"page", "login", "list", "event"} = Signals
      /\ Dialogs \cup Boxes \cup {"refused", "delete"} = Places /\ Dialogs = {"ask", "again"}
      /\ Boxes = {"notice", "refusal", "goodbye", "sorry", "event"}
  BY DEF Signals, Places, Dialogs, Boxes
<1>3. \A s \in Signals : Emits(s) \/ Takes(s) => queue' \in Seq(Signals)
  BY <1>1, Emitted, Taken
<1>4. \A p \in Places : /\ Push(p) => stack' \in Seq(Places)
                        /\ stack # <<>> /\ Goto(p) => stack' \in Seq(Places)
                        /\ stack # <<>> /\ Return => stack' \in Seq(Places)
                        /\ At(p) => stack # <<>>
  BY <1>1, Stacked, StackTop
<1>5. ASSUME Innermost \in Dialogs, DialogCloses PROVE stack' \in Seq(Places)
  <2>1. stack # <<>>
    BY <1>2, <1>4, <1>5 DEF At
  <2> QED BY <1>2, <1>4, <1>5, <2>1 DEF DialogCloses
<1>6. CASE PageThread
  BY <1>2, <1>3, <1>6 DEF TypeOK, PageThread, PageTried, PageThreadEnds
<1>7. CASE RequestThread
  <2> DEFINE Reqs == [pc : {"idle", "started", "posting", "accepted", "refused",
                            "ending"},
                      user : Users \cup {None}, r : {"None", "accepted", "refused"},
                      sent : Users \cup {None}]
  <2>0. req \in Reqs
    BY DEF TypeOK
  <2>1. CASE RequestBegins \/ NedAccepts \/ NedRefuses \/ RequestThreadEnds
    <3>1. req' \in Reqs
      BY <2>0, <2>1 DEF RequestBegins, NedAccepts, NedRefuses, RequestThreadEnds
    <3>2. ned' \in Users \cup {None} /\ astray' \in BOOLEAN
      BY <2>0, <2>1 DEF TypeOK, RequestBegins, NedAccepts, NedRefuses, RequestThreadEnds
    <3> HIDE DEF Reqs
    <3> QED
      BY <2>1, <3>1, <3>2
         DEF TypeOK, Reqs, RequestBegins, NedAccepts, NedRefuses, RequestThreadEnds
  <2>2. CASE ReplyArrives
    <3>1. req' \in Reqs
      BY <2>0, <2>2 DEF ReplyArrives
    <3>2. queue' \in Seq(Signals)
      BY <1>2, <1>3, <2>2 DEF ReplyArrives
    <3> HIDE DEF Reqs
    <3> QED BY <2>2, <3>1, <3>2 DEF TypeOK, Reqs, ReplyArrives
  <2>3. CASE RequestTimesOut
    BY <1>2, <1>3, <2>3 DEF TypeOK, RequestTimesOut
  <2> QED BY <1>7, <2>1, <2>2, <2>3 DEF RequestThread
<1>8. CASE PollThread
  BY <1>2, <1>3, <1>8 DEF TypeOK, PollThread, ListArrives, PollThreadEnds
<1>9. CASE EventThread
  <2>1. CASE EventsSignalled
    <3>1. queue' \in Seq(Signals) /\ told' \in [1 .. MaxEvents -> Nat]
      BY <1>2, <1>3, <2>1 DEF TypeOK, EventsSignalled
    <3>2. ev' \in [pc : {"off", "polling", "counted"}, index : 0 .. MaxEvents,
                   hand : SUBSET (1 .. MaxEvents)]
      BY <2>1 DEF TypeOK, EventsSignalled
    <3> QED BY <2>1, <3>1, <3>2 DEF TypeOK, EventsSignalled
  <2>2. ASSUME NEW n \in 1 .. MaxEvents, EventsArrive(n) PROVE TypeOK'
    <3>1. n \in 0 .. MaxEvents /\ ev.index + 1 .. n \subseteq 1 .. MaxEvents
      BY <2>2, LoginAssumption DEF TypeOK, EventsArrive
    <3> QED BY <2>2, <3>1 DEF TypeOK, EventsArrive
  <2> QED BY <1>9, <2>1, <2>2 DEF EventThread
<1>10. CASE Slot
  <2>1. CASE OnNedConnectionAvailable
    <3>1. page' \in [pc : {"trying", "ending", "idle"}, status : BOOLEAN]
      BY <2>1 DEF TypeOK, OnNedConnectionAvailable, TriedAgain, Started
    <3>2. stack' \in Seq(Places) /\ lost' \in BOOLEAN /\ queue' \in Seq(Signals)
      BY <1>2, <1>3, <1>4, <2>1 DEF TypeOK, OnNedConnectionAvailable
    <3> QED BY <2>1, <3>1, <3>2 DEF TypeOK, OnNedConnectionAvailable
  <2>2. CASE OnNoReply
    BY <1>2, <1>3, <1>4, <2>2 DEF TypeOK, OnNoReply
  <2>3. CASE OnAccepted
    <3>1. queue' \in Seq(Signals) /\ user' \in Users \cup {None} /\ status' \in BOOLEAN
      BY <1>2, <1>3, <2>3 DEF TypeOK, OnAccepted, StatusAfterLogin
    <3>2. psc' \in {"idle", "polling", "ending"} /\ lost' \in BOOLEAN /\ astray' \in BOOLEAN
      BY <2>3 DEF TypeOK, OnAccepted, PollStarted, Started, Resetting
    <3> QED BY <2>3, <3>1, <3>2 DEF TypeOK, OnAccepted
  <2>4. CASE OnRefused
    BY <1>2, <1>3, <1>4, <2>4 DEF TypeOK, OnRefused
  <2>5. CASE OnPsaList
    <3>1. queue' \in Seq(Signals)
      BY <1>2, <1>3, <2>5 DEF OnPsaList
    <3>2. ev' \in [pc : {"off", "polling", "counted"}, index : 0 .. MaxEvents,
                   hand : SUBSET (1 .. MaxEvents)]
      BY <2>5 DEF TypeOK, OnPsaList
    <3> QED BY <2>5, <3>1, <3>2 DEF TypeOK, OnPsaList
  <2>6. CASE OnEvent
    BY <1>2, <1>3, <1>4, <2>6 DEF TypeOK, OnEvent
  <2> QED BY <1>10, <2>1, <2>2, <2>3, <2>4, <2>5, <2>6 DEF Slot
<1>11. CASE Main
  BY <1>2, <1>4, <1>11 DEF TypeOK, Main, RefusalEnds, Deleted, NotDeleted
<1>12. CASE User
  <2>1. CASE LoginAction \/ LogoutAction
    BY <1>2, <1>4, <2>1 DEF TypeOK, LoginAction, LogoutAction
  <2>2. ASSUME NEW u \in Users, Login(u) PROVE TypeOK'
    <3>1. stack' \in Seq(Places) /\ calls' \in 0 .. MaxCalls
      BY <1>5, <2>2, LoginAssumption DEF TypeOK, Login
    <3>2. req' \in [pc : {"idle", "started", "posting", "accepted", "refused", "ending"},
                    user : Users \cup {None}, r : {"None", "accepted", "refused"},
                    sent : Users \cup {None}]
      BY <2>2 DEF TypeOK, Login, Started
    <3>3. lost' \in BOOLEAN /\ astray' \in BOOLEAN
      BY <2>2 DEF TypeOK, Login, Pending
    <3> QED BY <2>2, <3>1, <3>2, <3>3 DEF TypeOK, Login
  <2>3. CASE UserCancels
    BY <1>5, <2>3 DEF TypeOK, UserCancels
  <2>4. CASE NoticeRead \/ RefusalRead
    BY <1>2, <1>4, <2>4 DEF TypeOK, NoticeRead, RefusalRead
  <2>5. CASE GoodbyeRead
    <3>1. stack' \in Seq(Places)
      BY <1>2, <1>4, <2>5 DEF GoodbyeRead
    <3>2. /\ ev' \in [pc : {"off", "polling", "counted"}, index : 0 .. MaxEvents,
                      hand : SUBSET (1 .. MaxEvents)]
          /\ dropped' \subseteq 1 .. MaxEvents
      BY <2>5 DEF TypeOK, GoodbyeRead, EventsStopped, IndexKept
    <3>3. straggled' \in BOOLEAN /\ user' \in Users \cup {None}
      BY <2>5 DEF GoodbyeRead, UserAfterLogout
    <3>4. UNCHANGED <<req, page, psc, queue, ned, late, calls, astray, lost, told>>
      BY <2>5 DEF GoodbyeRead
    <3>5. status' \in BOOLEAN /\ list' \in {"empty", "contacting", "psas"}
      BY <2>5 DEF GoodbyeRead
    <3> QED BY <3>1, <3>2, <3>3, <3>4, <3>5 DEF TypeOK
  <2>6. CASE BoxRead
    <3>1. stack' \in Seq(Places)
      BY <1>2, <1>4, <2>6 DEF BoxRead, At
    <3> QED BY <2>6, <3>1 DEF TypeOK, BoxRead
  <2> QED BY <1>12, <2>1, <2>2, <2>3, <2>4, <2>5, <2>6 DEF User
<1>13. CASE Ned
  BY <1>13 DEF TypeOK, Ned, NedTakesLate, NedDropsLate
<1>14. CASE UNCHANGED vars
  BY <1>14 DEF TypeOK, vars
<1> QED
  BY <1>6, <1>7, <1>8, <1>9, <1>10, <1>11, <1>12, <1>13, <1>14 DEF Next

---------------------------------------------------------------------------
(* Who logs in, what is left of him, and the events                        *)

LEMMA RequestStep == TypeOK /\ RequestInv /\ [Next]_vars => RequestInv'
<1> SUFFICES ASSUME TypeOK, RequestInv, [Next]_vars PROVE RequestInv'
  OBVIOUS
<1> USE DEF RequestInv
<1>1. CASE UNCHANGED req
  BY <1>1
<1>2. CASE RequestThread
  BY <1>2
     DEF TypeOK, RequestThread, RequestBegins, NedAccepts, NedRefuses, ReplyArrives,
         RequestTimesOut, RequestThreadEnds
<1>3. ASSUME NEW u \in Users, Login(u) PROVE RequestInv'
  <2>1. req'.user = u /\ u # None
    BY <1>3, LoginAssumption DEF TypeOK, Login
  <2> QED BY <2>1
<1>4. UNCHANGED req \/ RequestThread \/ \E u \in Users : Login(u)
  BY DEF Next, PageThread, PageTried, PageThreadEnds, PollThread, ListArrives,
         PollThreadEnds, EventThread, EventsSignalled, EventsArrive, Slot,
         OnNedConnectionAvailable, OnNoReply, OnAccepted, OnRefused, OnPsaList, OnEvent,
         Main, RefusalEnds, Deleted, NotDeleted, User, LoginAction, UserCancels,
         NoticeRead, RefusalRead, LogoutAction, GoodbyeRead, BoxRead, Ned,
         NedTakesLate, NedDropsLate, vars
<1> QED BY <1>1, <1>2, <1>3, <1>4

\* "list" is queued by the poll only.
LEMMA ListQueued ==
    ASSUME TypeOK, Next, ~ListArrives
    PROVE  "list" \in Queued' => "list" \in Queued
<1>1. /\ queue \in Seq(Signals) /\ {"page", "login", "event"} \subseteq Signals
      /\ "list" \in Signals
  BY DEF TypeOK, Signals
<1>2. \/ UNCHANGED queue \/ (\E s \in Signals : Takes(s))
      \/ Emits("page") \/ Emits("login") \/ Emits("event")
  BY <1>1
     DEF Next, PageThread, PageTried, PageThreadEnds, RequestThread, RequestBegins,
         NedAccepts, NedRefuses, ReplyArrives, RequestTimesOut, RequestThreadEnds,
         PollThread, PollThreadEnds, EventThread, EventsSignalled, EventsArrive, Slot,
         OnNedConnectionAvailable, OnNoReply, OnAccepted, OnRefused, OnPsaList, OnEvent,
         Main, RefusalEnds, Deleted, NotDeleted, User, LoginAction, Login, UserCancels,
         NoticeRead, RefusalRead, LogoutAction, GoodbyeRead, BoxRead, Ned,
         NedTakesLate, NedDropsLate
<1>3. UNCHANGED queue => Queued' = Queued
  BY DEF Queued
<1>4. \A s \in Signals : Takes(s) => Queued' \subseteq Queued
  BY <1>1, Taken
<1>5. \A s \in Signals : Emits(s) => Queued' = Queued \cup {s}
  BY <1>1, Emitted
<1> QED BY <1>1, <1>2, <1>3, <1>4, <1>5

LEMMA LeftStep == TypeOK /\ RequestInv /\ LeftInv /\ [Next]_vars => LeftInv'
<1> SUFFICES ASSUME TypeOK, RequestInv, LeftInv, [Next]_vars,
                    user' = None /\ ~straggled'
             PROVE  /\ list' # "psas" /\ ev'.pc = "off"
                    /\ psc' # "polling" /\ "list" \notin Queued'
  BY DEF LeftInv
<1>1. CASE ~ListArrives /\ UNCHANGED <<user, straggled>> /\ Next
  <2>1. /\ list # "psas" /\ ev.pc = "off" /\ psc # "polling" /\ "list" \notin Queued
    BY <1>1 DEF LeftInv
  <2>2. "list" \notin Queued'
    BY <1>1, <2>1, ListQueued
  <2>3. ~OnPsaList /\ ~OnAccepted
    <3>1. CASE OnPsaList
      BY <2>1, <3>1, Taken DEF OnPsaList, TypeOK, Signals
    <3>2. CASE OnAccepted
      BY <1>1, <3>2 DEF RequestInv, OnAccepted
    <3> QED BY <3>1, <3>2
  <2>4. \/ UNCHANGED <<list, ev, psc>> \/ GoodbyeRead \/ PollThread
        \/ EventThread
    BY <1>1, <2>3
       DEF Next, PageThread, PageTried, PageThreadEnds, RequestThread, RequestBegins,
         NedAccepts, NedRefuses, ReplyArrives, RequestTimesOut, RequestThreadEnds, Slot,
         OnNedConnectionAvailable, OnNoReply, OnRefused, OnEvent,
         Main, RefusalEnds, Deleted, NotDeleted, User, LoginAction, Login, UserCancels,
         NoticeRead, RefusalRead, LogoutAction, BoxRead, Ned,
         NedTakesLate, NedDropsLate, view, nedVars, history
  <2>5. CASE GoodbyeRead
    BY <2>1, <2>2, <2>5 DEF GoodbyeRead, EventsStopped
  <2>6. CASE PollThread
    BY <1>1, <2>1, <2>2, <2>6 DEF PollThread, PollThreadEnds, view
  <2>7. CASE EventThread
    BY <2>1, <2>7 DEF EventThread, EventsArrive, EventsSignalled
  <2> QED BY <2>1, <2>2, <2>4, <2>5, <2>6, <2>7
<1>2. CASE ListArrives
  BY <1>2 DEF LeftInv, ListArrives, view, history
<1>3. CASE OnAccepted
  BY <1>3 DEF RequestInv, OnAccepted
<1>4. CASE RefusalEnds
  BY <1>4 DEF RefusalEnds
<1>5. CASE GoodbyeRead
  BY <1>5 DEF GoodbyeRead, EventsStopped, Queued
<1>6. CASE UNCHANGED vars
  BY <1>6 DEF LeftInv, vars, view, history, Queued
<1>7. \/ ListArrives \/ OnAccepted \/ RefusalEnds \/ GoodbyeRead \/ UNCHANGED vars
      \/ ~ListArrives /\ UNCHANGED <<user, straggled>> /\ Next
  BY DEF Next, PageThread, PageTried, PageThreadEnds, RequestThread, RequestBegins,
         NedAccepts, NedRefuses, ReplyArrives, RequestTimesOut, RequestThreadEnds, Slot,
         PollThread, PollThreadEnds, EventThread, EventsSignalled, EventsArrive,
         OnNedConnectionAvailable, OnNoReply, OnRefused, OnEvent, OnPsaList,
         Main, Deleted, NotDeleted, User, LoginAction, Login, UserCancels,
         NoticeRead, RefusalRead, LogoutAction, BoxRead, Ned,
         NedTakesLate, NedDropsLate, view, history
<1> QED BY <1>1, <1>2, <1>3, <1>4, <1>5, <1>6, <1>7

LEMMA EventStep == TypeOK /\ EventInv /\ [Next]_vars => EventInv'
<1> SUFFICES ASSUME TypeOK, EventInv, [Next]_vars PROVE EventInv'
  OBVIOUS
<1>1. CASE UNCHANGED <<ev, told, dropped>>
  BY <1>1 DEF EventInv
<1>2. CASE EventsSignalled
  <2>1. /\ ev'.pc = "polling" /\ ev'.hand = {} /\ ev'.index = ev.index
        /\ dropped' = dropped
        /\ \A e \in 1 .. MaxEvents :
              told'[e] = IF e \in ev.hand THEN told[e] + 1 ELSE told[e]
    BY <1>2 DEF EventsSignalled, TypeOK
  <2>2. ASSUME NEW e \in 1 .. MaxEvents
        PROVE  /\ told'[e] <= 1
               /\ e > ev.index => told'[e] = 0
               /\ (e <= ev.index /\ told'[e] = 0) => e \in dropped
    <3>1. told[e] \in Nat /\ ev.index \in Nat /\ e \in Nat
      BY LoginAssumption DEF TypeOK
    <3>2. CASE e \in ev.hand
      BY <2>1, <3>1, <3>2 DEF EventInv
    <3>3. CASE e \notin ev.hand
      BY <2>1, <3>1, <3>3 DEF EventInv
    <3> QED BY <3>2, <3>3
  <2> QED BY <2>1, <2>2 DEF EventInv
<1>3. ASSUME NEW n \in 1 .. MaxEvents, EventsArrive(n) PROVE EventInv'
  <2>1. /\ ev'.pc = "counted" /\ ev'.hand = ev.index + 1 .. n /\ ev'.index = n
        /\ dropped' = dropped /\ told' = told /\ ev.hand = {} /\ n > ev.index
    BY <1>3 DEF EventsArrive, TypeOK, history, EventInv
  <2>2. ASSUME NEW e \in 1 .. MaxEvents
        PROVE  /\ e \in ev'.hand => told[e] = 0 /\ e <= n
               /\ e > n => told[e] = 0
               /\ (e <= n /\ told[e] = 0) => e \in ev'.hand \cup dropped
    <3>1. ev.index \in Nat /\ n \in Nat /\ e \in Nat
      BY LoginAssumption DEF TypeOK
    <3>2. e \in ev'.hand => e > ev.index /\ e <= n
      BY <2>1, <3>1
    <3>3. e <= n /\ e \notin ev'.hand => e <= ev.index
      BY <2>1, <3>1
    <3>4. /\ e > ev.index => told[e] = 0
          /\ e <= ev.index /\ told[e] = 0 => e \in dropped
      BY <2>1 DEF EventInv
    <3> QED BY <2>1, <3>1, <3>2, <3>3, <3>4
  <2>3. \A e \in 1 .. MaxEvents : told'[e] <= 1
    BY <2>1 DEF EventInv
  <2> QED BY <2>1, <2>2, <2>3 DEF EventInv
<1>4. CASE GoodbyeRead
  <2>1. /\ ev'.hand = {} /\ ev'.index = ev.index
        /\ dropped' = dropped \cup ev.hand /\ told' = told
    BY <1>4 DEF GoodbyeRead, EventsStopped, IndexKept
  <2> QED BY <2>1 DEF EventInv
<1>5. CASE OnPsaList
  <2>1. /\ ev'.hand = ev.hand /\ ev'.index = ev.index
        /\ ev'.pc = "counted" => ev.pc = "counted"
        /\ ev.pc = "counted" => ev'.pc = "counted"
        /\ dropped' = dropped /\ told' = told
    BY <1>5 DEF OnPsaList, TypeOK, history
  <2> QED BY <2>1 DEF EventInv
<1>6. \/ UNCHANGED <<ev, told, dropped>> \/ EventsSignalled \/ GoodbyeRead \/ OnPsaList
      \/ \E n \in 1 .. MaxEvents : EventsArrive(n)
  BY DEF Next, PageThread, PageTried, PageThreadEnds, RequestThread, RequestBegins,
         NedAccepts, NedRefuses, ReplyArrives, RequestTimesOut, RequestThreadEnds, Slot,
         PollThread, ListArrives, PollThreadEnds, EventThread,
         OnNedConnectionAvailable, OnNoReply, OnRefused, OnEvent, OnAccepted,
         Main, RefusalEnds, Deleted, NotDeleted, User, LoginAction, Login, UserCancels,
         NoticeRead, RefusalRead, LogoutAction, BoxRead, Ned,
         NedTakesLate, NedDropsLate, vars, history
<1> QED BY <1>1, <1>2, <1>3, <1>4, <1>5, <1>6

---------------------------------------------------------------------------
(* Whom the reply to come is about                                         *)

\* What AgreeInv speaks of stays.
LEMMA Framed ==
    ASSUME AgreeInv, ~astray' => ~astray, UNCHANGED <<req, ned, user, status>>,
           late' \subseteq late, "login" \in Queued' <=> "login" \in Queued,
           Resetting' <=> Resetting
    PROVE  AgreeInv'
<1>1. Pending' <=> Pending
  BY DEF Pending
<1>2. OneRequest => OneRequest'
  BY DEF OneRequest
<1> QED BY <1>1, <1>2 DEF AgreeInv

\* "login" is queued or taken by its own steps only.
LEMMA LoginQueued ==
    ASSUME TypeOK, NEW s \in Signals \ {"login"},
           UNCHANGED queue \/ Emits(s) \/ Takes(s)
    PROVE  "login" \in Queued' <=> "login" \in Queued
<1>1. UNCHANGED queue => Queued' = Queued
  BY DEF Queued
<1> QED BY <1>1, Emitted, Taken DEF TypeOK

LEMMA ThreadsAgree ==
    TypeOK /\ AgreeInv /\ (PageThread \/ RequestThread \/ PollThread \/ EventThread)
        => AgreeInv'
<1> SUFFICES ASSUME TypeOK, AgreeInv,
                    PageThread \/ RequestThread \/ PollThread \/ EventThread
             PROVE  AgreeInv'
  OBVIOUS
<1> USE DEF view, nedVars, history
<1>1. UNCHANGED stack /\ Resetting' = Resetting
  BY DEF PageThread, PageTried, PageThreadEnds, RequestThread, RequestBegins,
         NedAccepts, NedRefuses, ReplyArrives, RequestTimesOut, RequestThreadEnds,
         PollThread, ListArrives, PollThreadEnds, EventThread, EventsSignalled,
         EventsArrive, Resetting, Slots
<1>2. UNCHANGED queue => Queued' = Queued
  BY DEF Queued
<1>3. {"page", "list", "event"} \subseteq Signals \ {"login"} /\ "login" \in Signals
  BY DEF Signals
<1>4. CASE PageThread
  BY <1>1, <1>2, <1>3, <1>4, LoginQueued, Framed DEF PageThread, PageTried, PageThreadEnds
<1>5. CASE PollThread
  BY <1>1, <1>2, <1>3, <1>5, LoginQueued, Framed DEF PollThread, ListArrives, PollThreadEnds
<1>6. CASE EventThread
  BY <1>1, <1>2, <1>3, <1>6, LoginQueued, Framed
     DEF EventThread, EventsSignalled, EventsArrive
<1>7. CASE RequestThread
  <2> SUFFICES ASSUME ~astray'
               PROVE  /\ OneRequest'
                      /\ ~Pending' /\ Resetting' => ned' = None
                      /\ ~Pending' /\ ~Resetting' => user' = ned'
                      /\ ~Pending' /\ ned' # None => status'
    BY DEF AgreeInv
  <2>1. CASE RequestBegins
    <3>1. /\ ~astray /\ OneRequest /\ Queued' = Queued /\ late' = late
          /\ req.pc = "started" /\ req'.pc = "posting" /\ req'.sent = req'.user
      BY <1>2, <2>1 DEF RequestBegins, AgreeInv, TypeOK
    <3> QED BY <3>1 DEF OneRequest, Pending
  <2>2. CASE NedAccepts
    <3>1. /\ ~astray /\ OneRequest /\ Queued' = Queued /\ late' = late
          /\ req.pc = "posting" /\ req'.pc = "accepted" /\ req'.sent = req.sent
          /\ req'.user = req.user /\ ned' = req.sent
      BY <1>2, <2>2 DEF NedAccepts, AgreeInv, TypeOK
    <3> QED BY <3>1 DEF OneRequest, Pending
  <2>3. CASE NedRefuses
    <3>1. /\ ~astray /\ OneRequest /\ Queued' = Queued /\ late' = late
          /\ req.pc = "posting" /\ req'.pc = "refused" /\ req'.sent = req.sent
          /\ req'.user = req.user /\ ned' = None
      BY <1>2, <2>3 DEF NedRefuses, AgreeInv, TypeOK
    <3> QED BY <3>1 DEF OneRequest, Pending
  <2>4. CASE ReplyArrives
    <3>1. /\ ~astray /\ OneRequest /\ late' = late /\ ned' = ned
          /\ req.pc \in {"accepted", "refused"} /\ req'.pc = "ending" /\ req'.r = req.pc
          /\ req'.user = req.user
      BY <2>4 DEF ReplyArrives, AgreeInv, TypeOK
    <3>2. Queued' = Queued \cup {"login"}
      BY <1>3, <2>4, Emitted DEF ReplyArrives, TypeOK
    <3> QED BY <3>1, <3>2 DEF OneRequest, Pending
  <2>5. CASE RequestTimesOut
    BY <2>5 DEF RequestTimesOut
  <2>6. CASE RequestThreadEnds
    <3>1. /\ ~astray /\ OneRequest /\ UNCHANGED <<late, ned, user, status>>
          /\ req.pc = "ending" /\ req'.pc = "idle" /\ req'.r = req.r
          /\ req'.user = req.user /\ Queued' = Queued
      BY <1>2, <2>6 DEF RequestThreadEnds, AgreeInv, TypeOK
    <3>2. Pending' <=> Pending
      BY <3>1 DEF Pending
    <3>3. OneRequest'
      BY <3>1 DEF OneRequest
    <3> QED BY <1>1, <3>1, <3>2, <3>3 DEF AgreeInv
  <2> QED BY <1>7, <2>1, <2>2, <2>3, <2>4, <2>5, <2>6 DEF RequestThread
<1> QED BY <1>4, <1>5, <1>6, <1>7

\* The slot of a reply
LEMMA RepliesAgree ==
    TypeOK /\ AgreeInv /\ (OnNoReply \/ OnAccepted \/ OnRefused) => AgreeInv'
<1> SUFFICES ASSUME TypeOK, AgreeInv, OnNoReply \/ OnAccepted \/ OnRefused, ~astray'
             PROVE  /\ OneRequest'
                    /\ ~Pending' /\ Resetting' => ned' = None
                    /\ ~Pending' /\ ~Resetting' => user' = ned'
                    /\ ~Pending' /\ ned' # None => status'
  BY DEF AgreeInv
<1> USE DEF view, nedVars, history
<1>1. /\ "login" \in Queued /\ Queued' \subseteq Queued
      /\ UNCHANGED <<req, ned, late>> /\ ~astray /\ OneRequest
  <2>1. Takes("login") /\ queue \in Seq(Signals) /\ "login" \in Signals
    BY DEF OnNoReply, OnAccepted, OnRefused, TypeOK, Signals
  <2>2. UNCHANGED <<req, ned, late>>
    BY DEF OnNoReply, OnAccepted, OnRefused
  <2>3. ~astray
    <3>1. CASE OnNoReply \/ OnRefused
      BY <3>1 DEF OnNoReply, OnRefused
    <3>2. CASE OnAccepted
      BY <3>2 DEF OnAccepted
    <3> QED BY <3>1, <3>2
  <2> QED BY <2>1, <2>2, <2>3, Taken DEF AgreeInv
<1>2. OneRequest'
  BY <1>1 DEF OneRequest
<1>3. CASE OnNoReply
  BY <1>1, <1>3 DEF OnNoReply, OneRequest
<1>4. CASE OnRefused
  <2>1. ned' = None
    BY <1>1, <1>4 DEF OnRefused, OneRequest
  <2>2. Resetting'
    <3>1. stack \in Seq(Places) /\ "refusal" \in Places \cap Takers
      BY DEF TypeOK, Places, Boxes, Takers
    <3> QED BY <1>4, <3>1, StackResetting DEF OnRefused
  <2> QED BY <1>2, <2>1, <2>2
<1>5. CASE OnAccepted
  <2>1. ned = req.user /\ user' = req.user /\ status'
    BY <1>1, <1>5 DEF OnAccepted, OneRequest, StatusAfterLogin
  <2>2. ~Resetting'
    <3>1. UNCHANGED stack /\ ~Resetting
      BY <1>5 DEF OnAccepted
    <3> QED BY <3>1 DEF Resetting, Slots
  <2> QED BY <1>1, <1>2, <2>1, <2>2
<1> QED BY <1>3, <1>4, <1>5

LEMMA SlotsAgree == TypeOK /\ AgreeInv /\ Slot => AgreeInv'
<1> SUFFICES ASSUME TypeOK, AgreeInv, OnNedConnectionAvailable \/ OnPsaList \/ OnEvent
             PROVE  AgreeInv'
  BY RepliesAgree DEF Slot
<1> USE DEF view, nedVars, history
<1>1. /\ stack \in Seq(Places) /\ {"ask", "event"} \subseteq Places \ Takers
      /\ {"page", "list", "event"} \subseteq Signals \ {"login"}
  BY DEF TypeOK, Places, Dialogs, Boxes, Takers, Signals
<1>2. "login" \in Queued' <=> "login" \in Queued
  BY <1>1, LoginQueued DEF OnNedConnectionAvailable, OnPsaList, OnEvent
<1>3. Resetting' <=> Resetting
  BY <1>1, StackResetting DEF OnNedConnectionAvailable, OnPsaList, OnEvent
<1>4. UNCHANGED <<req, ned, user, status, late, astray>>
  BY DEF OnNedConnectionAvailable, OnPsaList, OnEvent
<1> QED BY <1>2, <1>3, <1>4, Framed

\* The main thread and the boxes that take the user away
LEMMA EndsAgree ==
    TypeOK /\ AgreeInv /\ (Main \/ GoodbyeRead) => AgreeInv'
<1> SUFFICES ASSUME TypeOK, AgreeInv, Main \/ GoodbyeRead PROVE AgreeInv'
  OBVIOUS
<1> USE DEF view, nedVars, history
<1>1. /\ stack \in Seq(Places) /\ {"sorry", "delete"} \subseteq Places \ Takers
      /\ {"goodbye", "refused"} \subseteq Places \cap Takers
  BY DEF TypeOK, Places, Dialogs, Boxes, Takers
<1>2. Queued' = Queued
  BY DEF Main, RefusalEnds, Deleted, NotDeleted, GoodbyeRead, Queued
<1>3. CASE RefusalEnds \/ GoodbyeRead
  <2> SUFFICES ASSUME ~astray'
               PROVE  /\ OneRequest'
                      /\ ~Pending' => ned' = None /\ user' = None
    BY DEF AgreeInv
  <2>1. ~astray /\ UNCHANGED <<req, ned, late>> /\ user' = None /\ Innermost \in Takers
    BY <1>3 DEF RefusalEnds, GoodbyeRead, UserAfterLogout, At, Takers
  <2>2. Resetting
    BY <1>1, <2>1, StackResetting
  <2>3. Pending' <=> Pending
    BY <1>2, <2>1 DEF Pending
  <2>4. OneRequest => OneRequest'
    BY <1>2, <2>1 DEF OneRequest
  <2> QED BY <2>1, <2>2, <2>3, <2>4 DEF AgreeInv
<1>4. CASE Deleted
  <2> SUFFICES ASSUME ~astray'
               PROVE  OneRequest' /\ ned' = None /\ Resetting'
    BY DEF AgreeInv
  <2>1. ~Pending /\ late = {} /\ UNCHANGED <<req, late>> /\ ned' = None
    BY <1>4 DEF Deleted
  <2>2. Resetting'
    BY <1>1, <1>4, StackResetting DEF Deleted, At
  <2>3. OneRequest'
    BY <1>2, <2>1 DEF OneRequest, Pending
  <2> QED BY <2>1, <2>2, <2>3
<1>5. CASE NotDeleted
  <2>1. Resetting' <=> Resetting
    BY <1>1, <1>5, StackResetting DEF NotDeleted, At
  <2>2. CASE astray' = TRUE
    BY <2>2 DEF AgreeInv
  <2>3. CASE UNCHANGED <<late, astray>>
    BY <1>2, <1>5, <2>1, <2>3, Framed DEF NotDeleted
  <2> QED BY <1>5, <2>2, <2>3 DEF NotDeleted
<1> QED BY <1>3, <1>4, <1>5 DEF Main

LEMMA UserAgrees == TypeOK /\ AgreeInv /\ User => AgreeInv'
<1> SUFFICES ASSUME TypeOK, AgreeInv, User PROVE AgreeInv'
  OBVIOUS
<1> USE DEF view, nedVars, history
<1>1. /\ stack \in Seq(Places)
      /\ {"ask", "delete", "notice", "sorry", "event"} \subseteq Places \ Takers
      /\ {"refusal", "again", "refused"} \subseteq Places \cap Takers
      /\ Dialogs = {"ask", "again"}
  BY DEF TypeOK, Places, Dialogs, Boxes, Takers
<1>2. queue' = queue => Queued' = Queued
  BY DEF Queued
<1>3. ASSUME Innermost \in Dialogs, DialogCloses PROVE Resetting' <=> Resetting
  BY <1>1, <1>3, StackResetting DEF DialogCloses, At
<1>4. CASE LoginAction
  <2>1. Resetting' <=> Resetting
    BY <1>1, <1>4, StackResetting DEF LoginAction
  <2> QED BY <1>2, <1>4, <2>1, Framed DEF LoginAction
<1>5. ASSUME NEW u \in Users, Login(u) PROVE AgreeInv'
  <2> SUFFICES ASSUME ~astray' PROVE OneRequest' /\ Pending'
    BY DEF AgreeInv
  <2>1. ~Pending /\ late' = {} /\ req.pc = "idle" /\ Queued' = Queued
    <3>1. ~Pending /\ late' = {} /\ req.pc # "ending"
      BY <1>5 DEF Login
    <3> QED BY <1>2, <1>5, <3>1 DEF Pending, Login
  <2>2. req'.pc = "started"
    BY <1>5, <2>1 DEF Login, Started, TypeOK
  <2>3. "login" \notin Queued'
    BY <2>1 DEF Pending
  <2> QED BY <2>1, <2>2, <2>3 DEF OneRequest, Pending
<1>6. CASE UserCancels
  <2>1. Resetting' <=> Resetting
    BY <1>3, <1>6 DEF UserCancels
  <2> QED BY <1>2, <1>6, <2>1, Framed DEF UserCancels
<1>7. CASE NoticeRead
  <2>1. Resetting' <=> Resetting
    BY <1>1, <1>7, StackResetting DEF NoticeRead, At
  <2> QED BY <1>2, <1>7, <2>1, Framed DEF NoticeRead
<1>8. CASE RefusalRead
  <2>1. Resetting' /\ Resetting
    BY <1>1, <1>8, StackResetting DEF RefusalRead, At
  <2> QED BY <1>2, <1>8, <2>1, Framed DEF RefusalRead
<1>9. CASE LogoutAction
  <2>1. Resetting' <=> Resetting
    BY <1>1, <1>9, StackResetting DEF LogoutAction
  <2>2. ~astray' => ~astray
    BY <1>9 DEF LogoutAction
  <2> QED BY <1>2, <1>9, <2>1, <2>2, Framed DEF LogoutAction
<1>10. CASE GoodbyeRead
  BY <1>10, EndsAgree
<1>11. CASE BoxRead
  <2>1. Resetting' <=> Resetting
    BY <1>1, <1>11, StackResetting DEF BoxRead
  <2> QED BY <1>2, <1>11, <2>1, Framed DEF BoxRead
<1> QED BY <1>4, <1>5, <1>6, <1>7, <1>8, <1>9, <1>10, <1>11 DEF User

LEMMA AgreeStep == TypeOK /\ AgreeInv /\ [Next]_vars => AgreeInv'
<1> SUFFICES ASSUME TypeOK, AgreeInv, [Next]_vars PROVE AgreeInv'
  OBVIOUS
<1>1. CASE Ned
  <2>1. PICK u \in Users \cup {None} : NedTakesLate(u) \/ NedDropsLate(u)
    BY <1>1 DEF Ned
  <2>2. CASE NedTakesLate(u)
    BY <2>2 DEF NedTakesLate, AgreeInv
  <2>3. CASE NedDropsLate(u)
    BY <2>3, Framed DEF NedDropsLate, view, history, Queued, Slots, Resetting
  <2> QED BY <2>1, <2>2, <2>3
<1>2. CASE UNCHANGED vars
  BY <1>2, Framed DEF vars, view, nedVars, history, Queued, Slots, Resetting
<1> QED
  BY <1>1, <1>2, ThreadsAgree, SlotsAgree, EndsAgree, UserAgrees DEF Next

---------------------------------------------------------------------------
(* The theorems                                                            *)

\* The session keeps its invariant, through every interleaving of its
\* threads, nested slots, late replies and clicks (client_sec.py:536-1010).
THEOREM Invariant == Spec => []IInv
<1>1. Init => IInv
  BY InitIInv
<1>2. IInv /\ [Next]_vars => IInv'
  BY Typed, RequestStep, LeftStep, EventStep, AgreeStep DEF IInv
<1> QED BY <1>1, <1>2, PTL DEF Spec

\* Every variable keeps to its values.
THEOREM TypeCorrect == Spec => []TypeOK
<1>1. IInv => TypeOK
  BY DEF IInv
<1> QED BY <1>1, Invariant, PTL

\* The user shown is the one logged in at the NED, whenever nothing is under
\* way and nothing overlapped or was lost since the last operation made by
\* itself (handleLoginStatus, logout).
THEOREM ShownCorrect == Spec => []ShownIsLoggedIn
<1>1. IInv => ShownIsLoggedIn
  BY DEF IInv, AgreeInv, ShownIsLoggedIn, Quiet
<1> QED BY <1>1, Invariant, PTL

\* ... and whoever is logged in at the NED then can be logged out: logout()
\* asks the NED (672-700).
THEOREM LogoutPossible == Spec => []CanLogOut
<1>1. IInv => CanLogOut
  BY DEF IInv, AgreeInv, CanLogOut, Quiet
<1> QED BY <1>1, Invariant, PTL

\* With no user shown there is no list of PSAs and nobody listens for events,
\* unless the user left with a poll under way or by a refused login.
THEOREM LeavesNothing == Spec => []NothingLeftBehind
<1>1. IInv => NothingLeftBehind
  BY DEF IInv, LeftInv, NothingLeftBehind
<1> QED BY <1>1, Invariant, PTL

\* An event is signalled once at most, and only those in the hand of a thread
\* terminated are never (PsaEventThread, 960-990).
THEOREM EventsTold == Spec => []EventsToldOnce
<1>1. IInv => EventsToldOnce
  BY DEF IInv, EventInv, EventsToldOnce
<1> QED BY <1>1, Invariant, PTL

===========================================================================

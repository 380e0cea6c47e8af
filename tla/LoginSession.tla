----------------------------- MODULE LoginSession -----------------------------
(***************************************************************************)
(* The login session of the application, gui/client_sec.py: the dialog and *)
(* the thread that log a user in at the NED, the slot that handles the     *)
(* reply, logging out, the thread that waits for the login page, and the   *)
(* two threads that a login starts: one fetches the list of PSAs, the      *)
(* other, started by that list, fetches the events of a PSA.               *)
(*                                                                         *)
(* Slots run in the event loops of dialogs, so they nest: the stack holds  *)
(* those under way, the innermost first, each by the place it is at.  All  *)
(* dialogs are modal to the application: the user reaches the innermost.   *)
(***************************************************************************)
EXTENDS Integers, Sequences

CONSTANTS Users,      \* who may log in; a password is part of its user
          None,
          MaxCalls,   \* bound: calls of login()
          MaxEvents   \* bound: events the PSA reports

ASSUME LoginAssumption ==
    None \notin Users /\ MaxCalls \in Nat /\ MaxEvents \in Nat

VARIABLES
    req,        \* requestTask: its place, fields user and r, local user
    page,       \* loginPageAvailableTask: its place, field status
    psc,        \* pscCommunicationTask: its place
    ev,         \* psaEventThread: its place, index, the events in its hand
    queue,      \* signals queued for the main thread, oldest first
    stack,      \* the slots under way, innermost first
    user,       \* the user shown, or None
    status,     \* whether self.status lets logout ask the NED
    list,       \* what the list of PSAs shows
    ned,        \* who is logged in at the NED, or None
    late,       \* what was given up here and the NED may yet take: the login
                \*   of a user, or None for a logout (bound: the last one)
    calls,      \* calls of login() so far (bound)
    astray,     \* operations overlapped, or a reply was lost (history)
    straggled,  \* the last user left with a poll under way, or by a refused
                \*   login (history)
    lost,       \* a start() met a thread that was ending (history)
    told,       \* how often each event was signalled (history)
    dropped     \* events in the hand of the thread when terminated (history)

view == <<user, status, list>>
nedVars == <<ned, late>>
history == <<astray, straggled, lost, told, dropped>>
vars == <<req, page, psc, ev, queue, stack, view, nedVars, calls, history>>

-----------------------------------------------------------------------------
\* ask: the dialog of 721; again: that dialog, opened by a refused login;
\* refused: after it, at 662; delete: in the request of 677, where the main
\* thread waits; message boxes: notice (637), refusal (661), goodbye (687),
\* sorry (698), event (246)
Dialogs == {"ask", "again"}
Boxes == {"notice", "refusal", "goodbye", "sorry", "event"}
Places == Dialogs \cup Boxes \cup {"refused", "delete"}

Signals == {"page", "login", "list", "event"}

Slots == {stack[i] : i \in DOMAIN stack}
Queued == {queue[i] : i \in DOMAIN queue}

Innermost == IF stack = <<>> THEN "loop" ELSE Head(stack)
At(p) == Innermost = p
Push(p) == stack' = <<p>> \o stack
Goto(p) == stack' = <<p>> \o Tail(stack)
Return == stack' = Tail(stack)

Takes(s) ==
    /\ Innermost \notin {"refused", "delete"}
    /\ queue # <<>>
    /\ Head(queue) = s
    /\ queue' = Tail(queue)

Emits(s) == queue' = Append(queue, s)

\* exec_() of a dialog that is open already returns at once
DialogOpen == Slots \cap Dialogs # {}

\* A request is under way until its reply is handled
Pending == req.pc \notin {"idle", "ending"} \/ "login" \in Queued

\* The slots whose rest takes the user away, whatever their loops have done
Resetting == Slots \cap {"refusal", "again", "refused", "goodbye"} # {}

Init ==
    /\ req = [pc |-> "idle", user |-> None, r |-> "None", sent |-> None]
    /\ page = [pc |-> "trying", status |-> FALSE]
    /\ psc = "idle"
    /\ ev = [pc |-> "off", index |-> 0, hand |-> {}]
    /\ queue = <<>>
    /\ stack = <<>>
    /\ user = None
    /\ status = TRUE
    /\ list = "empty"
    /\ ned = None
    /\ late = {}
    /\ calls = 0
    /\ astray = FALSE
    /\ straggled = FALSE
    /\ lost = FALSE
    /\ told = [e \in 1 .. MaxEvents |-> 0]
    /\ dropped = {}

-----------------------------------------------------------------------------
(* LoginAvailableTaskThread and its slot                                   *)

\* The page answers, or does not within 0.5 s
PageTried ==
    /\ page.pc = "trying"
    /\ page' \in [pc : {"ending"}, status : BOOLEAN]
    /\ Emits("page")
    /\ UNCHANGED <<req, psc, ev, stack, view, nedVars, calls, history>>

PageThreadEnds ==
    /\ page.pc = "ending"
    /\ page' = [page EXCEPT !.pc = "idle"]
    /\ UNCHANGED <<req, psc, ev, queue, stack, view, nedVars, calls, history>>

\* start() of a thread that runs does nothing, nor does it of one about to end
Started(pc, first) == IF pc = "idle" THEN first ELSE pc

\* Mutant: the slot leaves trying again to the thread
NotTriedAgain == page' = page

\* start() (574), after a sleep of 0.1 s that is there to let the thread end
TriedAgain == page' = [page EXCEPT !.pc = Started(@, "trying")]

OnNedConnectionAvailable ==
    /\ Takes("page")
    /\ \/ /\ page.status
          /\ IF DialogOpen THEN UNCHANGED stack ELSE Push("ask")
          /\ UNCHANGED <<page, lost>>
       \/ /\ ~page.status
          /\ TriedAgain
          /\ lost' = (lost \/ page.pc = "ending")
          /\ UNCHANGED stack
    /\ UNCHANGED <<req, psc, ev, view, nedVars, calls, astray, straggled, told,
                   dropped>>

-----------------------------------------------------------------------------
(* The dialog, and RequestTaskThread                                       *)

\* The menu, reachable when no dialog is open, also for a user logged in
LoginAction ==
    /\ stack = <<>>
    /\ calls < MaxCalls
    /\ Push("ask")
    /\ UNCHANGED <<req, page, psc, ev, queue, view, nedVars, calls, history>>

\* The slot that opened the dialog goes on
DialogCloses == IF At("again") THEN Goto("refused") ELSE Return

\* login(): the fields are overwritten; a thread that runs is left to it
Login(u) ==
    /\ Innermost \in Dialogs
    /\ calls < MaxCalls
    /\ calls' = calls + 1
    /\ req' = [req EXCEPT !.user = u, !.pc = Started(@, "started")]
    /\ lost' = (lost \/ req.pc = "ending")
    /\ astray' = (Pending \/ req.pc = "ending" \/ late # {})
    /\ DialogCloses
    /\ UNCHANGED <<page, psc, ev, queue, view, nedVars, straggled, told,
                   dropped>>

\* Escape
UserCancels ==
    /\ Innermost \in Dialogs
    /\ DialogCloses
    /\ UNCHANGED <<req, page, psc, ev, queue, view, nedVars, calls, history>>

\* run() reads the fields; r is reset
RequestBegins ==
    /\ req.pc = "started"
    /\ req' = [req EXCEPT !.pc = "posting", !.sent = req.user, !.r = "None"]
    /\ UNCHANGED <<page, psc, ev, queue, stack, view, nedVars, calls, history>>

NedAccepts ==
    /\ req.pc = "posting"
    /\ req' = [req EXCEPT !.pc = "accepted"]
    /\ ned' = req.sent
    /\ UNCHANGED <<page, psc, ev, queue, stack, view, late, calls, history>>

\* Whoever is logged in remains so
NedRefuses ==
    /\ req.pc = "posting"
    /\ req' = [req EXCEPT !.pc = "refused"]
    /\ astray' = (astray \/ ned # None)
    /\ UNCHANGED <<page, psc, ev, queue, stack, view, nedVars, calls,
                   straggled, lost, told, dropped>>

ReplyArrives ==
    /\ req.pc \in {"accepted", "refused"}
    /\ req' = [req EXCEPT !.pc = "ending", !.r = req.pc]
    /\ Emits("login")
    /\ UNCHANGED <<page, psc, ev, stack, view, nedVars, calls, history>>

\* 2 s are over; the request may be lost, on its way, or answered
RequestTimesOut ==
    /\ req.pc \in {"posting", "accepted", "refused"}
    /\ req' = [req EXCEPT !.pc = "ending"]
    /\ Emits("login")
    /\ late' = IF req.pc = "posting" THEN {req.sent} ELSE late
    /\ astray' = TRUE
    /\ UNCHANGED <<page, psc, ev, stack, view, ned, calls,
                   straggled, lost, told, dropped>>

RequestThreadEnds ==
    /\ req.pc = "ending"
    /\ req' = [req EXCEPT !.pc = "idle"]
    /\ UNCHANGED <<page, psc, ev, queue, stack, view, nedVars, calls, history>>

-----------------------------------------------------------------------------
(* handleLoginStatus                                                       *)

\* No reply: a box, then the dialog, and nothing is changed
OnNoReply ==
    /\ Takes("login")
    /\ req.r = "None"
    /\ Push("notice")
    /\ UNCHANGED <<req, page, psc, ev, view, nedVars, calls, history>>

NoticeRead ==
    /\ At("notice")
    /\ IF DialogOpen THEN Return ELSE Goto("ask")
    /\ UNCHANGED <<req, page, psc, ev, queue, view, nedVars, calls, history>>

\* Mutant: the poll is started with the application only
PollNotStarted == psc' = psc

PollStarted == psc' = Started(psc, "polling")

\* Mutant: logging in again does not allow logging out again
StatusLeft == status

StatusAfterLogin == TRUE

\* Status 200: the user shown is the one in the field now (649)
OnAccepted ==
    /\ Takes("login")
    /\ req.r = "accepted"
    /\ user' = req.user
    /\ status' = StatusAfterLogin
    /\ list' = "contacting"
    /\ PollStarted
    /\ lost' = (lost \/ psc = "ending")
    /\ astray' = (astray \/ Resetting)
    /\ straggled' = FALSE
    /\ UNCHANGED <<req, page, ev, stack, nedVars, calls, told, dropped>>

OnRefused ==
    /\ Takes("login")
    /\ req.r = "refused"
    /\ Push("refusal")
    /\ UNCHANGED <<req, page, psc, ev, view, nedVars, calls, history>>

RefusalRead ==
    /\ At("refusal")
    /\ Goto(IF DialogOpen THEN "refused" ELSE "again")
    /\ UNCHANGED <<req, page, psc, ev, queue, view, nedVars, calls, history>>

\* After the dialog the slot goes on: nobody is logged in (663-664)
RefusalEnds ==
    /\ At("refused")
    /\ user' = None
    /\ status' = FALSE
    /\ straggled' = TRUE
    /\ Return
    /\ UNCHANGED <<req, page, psc, ev, queue, list, nedVars, calls, astray,
                   lost, told, dropped>>

-----------------------------------------------------------------------------
(* logout(True)                                                            *)

LogoutAction ==
    /\ stack = <<>>
    /\ Push(IF status THEN "delete" ELSE "sorry")
    /\ astray' = (astray \/ Pending)
    /\ UNCHANGED <<req, page, psc, ev, queue, view, nedVars, calls, straggled,
                   lost, told, dropped>>

\* The NED logs out whoever is logged in and says so
Deleted ==
    /\ At("delete")
    /\ ned' = None
    /\ astray' = (Pending \/ late # {})
    /\ Goto("goodbye")
    /\ UNCHANGED <<req, page, psc, ev, queue, view, late, calls, straggled, lost, told, dropped>>

\* It says something else, or nothing within 2 s and may yet do it
NotDeleted ==
    /\ At("delete")
    /\ \/ UNCHANGED <<late, astray>>
       \/ late' = {None} /\ astray' = TRUE
    /\ Goto("sorry")
    /\ UNCHANGED <<req, page, psc, ev, queue, view, ned, calls, straggled, lost, told, dropped>>

\* Mutant: a new start begins with the first event
IndexReset == 0

IndexKept == ev.index

\* Mutant: the list is cleared, its thread is left running
EventsGoOn == ev

\* terminate() takes the thread away with what it has in its hand
EventsStopped == [pc |-> "off", index |-> IndexKept, hand |-> {}]

\* Mutant: the label is left to the next login
UserStaysShown == user

UserAfterLogout == None

\* The box is closed, and only now are the user, the list and the event
\* thread taken away; the poll for the list goes on
GoodbyeRead ==
    /\ At("goodbye")
    /\ user' = UserAfterLogout
    /\ status' = FALSE
    /\ list' = "empty"
    /\ ev' = EventsStopped
    /\ dropped' = dropped \cup ev.hand
    /\ straggled' = (psc = "polling" \/ "list" \in Queued)
    /\ Return
    /\ UNCHANGED <<req, page, psc, queue, nedVars, calls, astray, lost, told>>

BoxRead ==
    /\ Innermost \in {"sorry", "event"}
    /\ Return
    /\ UNCHANGED <<req, page, psc, ev, queue, view, nedVars, calls, history>>

-----------------------------------------------------------------------------
(* PSCCommunicationThread and PsaEventThread                               *)

\* It polls until it is given a list
ListArrives ==
    /\ psc = "polling"
    /\ psc' = "ending"
    /\ Emits("list")
    /\ UNCHANGED <<req, page, ev, stack, view, nedVars, calls, history>>

PollThreadEnds ==
    /\ psc = "ending"
    /\ psc' = "idle"
    /\ UNCHANGED <<req, page, ev, queue, stack, view, nedVars, calls, history>>

\* The list is shown; with BroMalware in it the event thread is started (501)
OnPsaList ==
    /\ Takes("list")
    /\ list' = "psas"
    /\ ev' \in {ev, [ev EXCEPT !.pc = IF @ = "off" THEN "polling" ELSE @]}
    /\ UNCHANGED <<req, page, psc, stack, user, status, nedVars, calls,
                   history>>

\* The PSA has n events: those after index are taken and counted (977-984)
EventsArrive(n) ==
    /\ ev.pc = "polling"
    /\ n > ev.index
    /\ ev' = [pc |-> "counted", index |-> n, hand |-> ev.index + 1 .. n]
    /\ UNCHANGED <<req, page, psc, queue, stack, view, nedVars, calls, history>>

EventsSignalled ==
    /\ ev.pc = "counted"
    /\ ev' = [ev EXCEPT !.pc = "polling", !.hand = {}]
    /\ told' = [e \in 1 .. MaxEvents |->
                   IF e \in ev.hand THEN told[e] + 1 ELSE told[e]]
    /\ Emits("event")
    /\ UNCHANGED <<req, page, psc, stack, view, nedVars, calls, astray,
                   straggled, lost, dropped>>

OnEvent ==
    /\ Takes("event")
    /\ Push("event")
    /\ UNCHANGED <<req, page, psc, ev, view, nedVars, calls, history>>

-----------------------------------------------------------------------------
(* The NED                                                                 *)

NedTakesLate(u) ==
    /\ u \in late
    /\ late' = late \ {u}
    /\ ned' = u
    /\ astray' = TRUE
    /\ UNCHANGED <<req, page, psc, ev, queue, stack, view, calls, straggled, lost, told, dropped>>

NedDropsLate(u) ==
    /\ u \in late
    /\ late' = late \ {u}
    /\ UNCHANGED <<req, page, psc, ev, queue, stack, view, ned, calls,
                   history>>

-----------------------------------------------------------------------------
PageThread == PageTried \/ PageThreadEnds

RequestThread ==
    \/ RequestBegins
    \/ NedAccepts
    \/ NedRefuses
    \/ ReplyArrives
    \/ RequestTimesOut
    \/ RequestThreadEnds

PollThread == ListArrives \/ PollThreadEnds
EventThread == EventsSignalled \/ \E n \in 1 .. MaxEvents : EventsArrive(n)

Slot ==
    \/ OnNedConnectionAvailable
    \/ OnNoReply
    \/ OnAccepted
    \/ OnRefused
    \/ OnPsaList
    \/ OnEvent

\* The main thread, outside every event loop
Main ==
    \/ RefusalEnds
    \/ Deleted
    \/ NotDeleted

User ==
    \/ LoginAction
    \/ \E u \in Users : Login(u)
    \/ UserCancels
    \/ NoticeRead
    \/ RefusalRead
    \/ LogoutAction
    \/ GoodbyeRead
    \/ BoxRead

Ned ==
    \/ \E u \in Users \cup {None} : NedTakesLate(u) \/ NedDropsLate(u)

Next ==
    \/ PageThread
    \/ RequestThread
    \/ PollThread
    \/ EventThread
    \/ Slot
    \/ Main
    \/ User
    \/ Ned

Spec == Init /\ [][Next]_vars

\* The thread that tries the page is scheduled and its request times out, as
\* does that of the main thread.  An event loop, whichever is innermost, sends
\* the signals it has queued before it waits for the user, who cannot put them
\* off for ever by what he does in between (SF), and need not answer a dialog.
FairSpec ==
    /\ Spec
    /\ WF_vars(PageThread)
    /\ WF_vars(Main)
    /\ SF_vars(Slot)

-----------------------------------------------------------------------------
(* Properties                                                              *)

\* Every variable keeps to its values.
TypeOK ==
    /\ req \in [pc : {"idle", "started", "posting", "accepted", "refused",
                      "ending"},
                user : Users \cup {None}, r : {"None", "accepted", "refused"},
                sent : Users \cup {None}]
    /\ page \in [pc : {"trying", "ending", "idle"}, status : BOOLEAN]
    /\ psc \in {"idle", "polling", "ending"}
    /\ ev \in [pc : {"off", "polling", "counted"}, index : 0 .. MaxEvents,
               hand : SUBSET (1 .. MaxEvents)]
    /\ queue \in Seq(Signals)
    /\ stack \in Seq(Places)
    /\ user \in Users \cup {None}
    /\ status \in BOOLEAN
    /\ list \in {"empty", "contacting", "psas"}
    /\ ned \in Users \cup {None}
    /\ late \subseteq Users \cup {None}
    /\ calls \in 0 .. MaxCalls
    /\ astray \in BOOLEAN
    /\ straggled \in BOOLEAN
    /\ lost \in BOOLEAN
    /\ told \in [1 .. MaxEvents -> Nat]
    /\ dropped \subseteq 1 .. MaxEvents

\* No login or logout is under way
Quiet == ~Pending /\ ~Resetting /\ ~At("delete")

\* The user shown is the user logged in at the NED, unless since the last
\* login or logout made by itself a reply was lost, a login was refused with
\* a user logged in, or one operation began before another was handled.
ShownIsLoggedIn == (Quiet /\ ~astray) => user = ned

\* ... and then a user logged in at the NED can be logged out: logout() asks
\* the NED.
CanLogOut == (Quiet /\ ~astray /\ ned # None) => status

\* With no user shown there is no list of PSAs and nobody listens for events,
\* unless the last user left while a list was being fetched, or by a refused
\* login of another.
NothingLeftBehind ==
    (Quiet /\ user = None /\ ~straggled) => list # "psas" /\ ev.pc = "off"

\* Each event of the PSA is signalled once: logging out and in again repeats
\* none, and loses only those that the thread had counted and not signalled
\* when it was terminated.
EventsToldOnce ==
    \A e \in 1 .. MaxEvents :
        /\ told[e] <= 1
        /\ (e <= ev.index /\ told[e] = 0) => e \in ev.hand \cup dropped

\* The application tries the login page again and again, whatever dialogs are
\* open, until it has asked the user to log in; provided that the sleep of
\* line 569 has let the thread end each time.
LoginIsOffered == []~lost => <>DialogOpen \/ []<>(page.pc = "trying")

\* The list a login announces is shown unless the poll for it goes on;
\* provided that the start() of the poll did not meet the end of the last.
ListIsFetched ==
    []~lost => (list = "contacting" ~> list # "contacting" \/ psc = "polling")
=============================================================================

--------------------------- MODULE NedAttestation ---------------------------
(***************************************************************************)
(* The application without mobility, gui/client_sec.py: its attestation    *)
(* thread, the slot that shows the verdicts, warns the user and raises the *)
(* IPsec tunnel, and the two ways the application ends.                    *)
(*                                                                         *)
(* The main thread takes the signals of the other threads from one queue   *)
(* of events.  A modal dialog runs an event loop of its own inside the     *)
(* handler that opened it, so handlers nest: the stack holds the handlers  *)
(* that are under way, the innermost first, each by the place it is at.    *)
(* The dialogs that belong to logging in are event loops like that of the  *)
(* main window and are not told from it; a login is seen here by its reply *)
(* of status 200.  The scripts that run ipsec can be started.              *)
(***************************************************************************)
EXTENDS Integers, Sequences, FiniteSets

CONSTANTS MaxQueue,   \* bound: signals waiting when a thread emits one
          MaxLogins   \* bound: logins that succeed

ASSUME BoundsAssumption == MaxQueue \in Nat \ {0} /\ MaxLogins \in Nat

VARIABLES
    att,           \* the attestation thread
    trusted,       \* attestationTask.trusted
    validateTime,  \* attestationTask.validate_time: there, or None
    queue,         \* events posted to the main thread, oldest first
    stack,         \* its handlers, innermost first
    warningShown,  \* attestation_warning_shown
    shown,         \* the icon of setAttestationStatus
    active,        \* active_ipsec_connection is not None
    closed,        \* closeEvent has accepted
    quitting,      \* the event loops have been told to return
    exited,        \* the process has ended
    tunnel,        \* whether charon has the tunnel up
    downs,         \* "ipsec down" processes under way
    logins,        \* logins so far (bound)
    verdicts,      \* what the polls so far came to (history)
    lastVerdict,   \* what the last one came to (history)
    warned         \* warnings since the last login (history)

threadVars == <<att, trusted, validateTime, verdicts, lastVerdict>>
viewVars == <<warningShown, shown, warned>>
ipsecVars == <<active, tunnel, downs>>
endVars == <<closed, quitting, exited>>
vars == <<threadVars, queue, stack, viewVars, ipsecVars, endVars, logins>>

-----------------------------------------------------------------------------
\* warn: the dialog of 535; leave: Yes was pressed, logout is under way (537);
\* check: at 558; up: in subprocess.call (584); confirm: the dialog of 403;
\* bye: Yes was pressed, logout is under way (405)
Places == {"warn", "leave", "check", "up", "confirm", "bye"}
Dialogs == {"warn", "confirm"}

Events == {"attestation", "login", "quit"}

\* What a poll comes to: trusted; untrusted, vtime-err or cert-err; anything
\* else, an answer that cannot be parsed, no answer
Verdicts == {"True", "False", "None"}

Icon == [True |-> "green", False |-> "red"]

Innermost == IF stack = <<>> THEN "loop" ELSE Head(stack)
At(p) == Innermost = p
Push(p) == stack' = <<p>> \o stack
Goto(p) == stack' = <<p>> \o Tail(stack)
Return == stack' = Tail(stack)

\* The main thread is in an event loop, its own or that of a dialog
InLoop == ~exited /\ Innermost \in {"loop"} \cup Dialogs

Takes(e) ==
    /\ InLoop
    /\ ~quitting
    /\ queue # <<>>
    /\ Head(queue) = e
    /\ queue' = Tail(queue)

Init ==
    /\ att = "polling"
    /\ trusted = "False"
    /\ validateTime = "None"
    /\ queue = <<>>
    /\ stack = <<>>
    /\ warningShown = TRUE
    /\ shown = "none"
    /\ active = FALSE
    /\ closed = FALSE
    /\ quitting = FALSE
    /\ exited = FALSE
    /\ tunnel = FALSE
    /\ downs = 0
    /\ logins = 0
    /\ verdicts = {}
    /\ lastVerdict = "None"
    /\ warned = 0

-----------------------------------------------------------------------------
(* AttestationRequestThread                                                *)

\* The verifier answered or did not: the verdict is set (817-830)
PollAnswers(v) ==
    /\ att = "polling"
    /\ att' = "answered"
    /\ trusted' = v
    /\ verdicts' = verdicts \cup {v}
    /\ lastVerdict' = v
    /\ UNCHANGED <<validateTime, queue, stack, viewVars, ipsecVars, endVars,
                   logins>>

\* Mutant: a poll that fails to find the NED trusted is not signalled
PollEndsQuietly(t) ==
    /\ att = "answered"
    /\ Len(queue) < MaxQueue
    /\ att' = "sleeping"
    /\ validateTime' = t
    /\ queue' = IF trusted = "True" THEN Append(queue, "attestation") ELSE queue
    /\ UNCHANGED <<trusted, verdicts, lastVerdict, stack, viewVars, ipsecVars,
                   endVars, logins>>

\* Mutant: trusted is reset after the poll, not before it
PollEndsReset(t) ==
    /\ att = "answered"
    /\ Len(queue) < MaxQueue
    /\ att' = "sleeping"
    /\ trusted' = "False"
    /\ validateTime' = t
    /\ queue' = Append(queue, "attestation")
    /\ UNCHANGED <<verdicts, lastVerdict, stack, viewVars, ipsecVars, endVars,
                   logins>>

\* The time of the answer is set, or None when it has none, and the slot is
\* queued (833-834)
PollEnds(t) ==
    /\ att = "answered"
    /\ Len(queue) < MaxQueue
    /\ att' = "sleeping"
    /\ validateTime' = t
    /\ queue' = Append(queue, "attestation")
    /\ UNCHANGED <<trusted, verdicts, lastVerdict, stack, viewVars, ipsecVars,
                   endVars, logins>>

\* ATTESTATION_TIME is over: trusted is reset, the next poll is issued
PollStarts ==
    /\ att = "sleeping"
    /\ att' = "polling"
    /\ trusted' = "False"
    /\ UNCHANGED <<validateTime, verdicts, lastVerdict, queue, stack, viewVars,
                   ipsecVars, endVars, logins>>

-----------------------------------------------------------------------------
(* onAttestation                                                           *)

\* Mutant: without a verdict the slot returns
NoVerdictReturns ==
    /\ Takes("attestation")
    /\ trusted = "None"
    /\ UNCHANGED <<stack, threadVars, viewVars, ipsecVars, endVars, logins>>

\* No verdict: nothing is shown, and the slot goes on to the tunnel
NoVerdict ==
    /\ Takes("attestation")
    /\ trusted = "None"
    /\ Push("check")
    /\ UNCHANGED <<threadVars, viewVars, ipsecVars, endVars, logins>>

\* A verdict whose time is missing: text_time is used before it is assigned
\* (520).  The icon has changed; the exception ends the slot.
UntimedVerdict ==
    /\ Takes("attestation")
    /\ trusted # "None"
    /\ validateTime = "None"
    /\ shown' = Icon[trusted]
    /\ UNCHANGED <<stack, warningShown, warned, threadVars, ipsecVars, endVars,
                   logins>>

\* A verdict that is shown without a warning
PlainVerdict ==
    /\ Takes("attestation")
    /\ validateTime # "None"
    /\ trusted = "True" \/ (trusted = "False" /\ warningShown)
    /\ shown' = Icon[trusted]
    /\ Push("check")
    /\ UNCHANGED <<warningShown, warned, threadVars, ipsecVars, endVars, logins>>

\* Mutant: the flag is set when the dialog is closed
WarnsUnflagged ==
    /\ Takes("attestation")
    /\ validateTime # "None"
    /\ trusted = "False"
    /\ ~warningShown
    /\ shown' = Icon[trusted]
    /\ warningShown' = (warned > 0)
    /\ warned' = warned + 1
    /\ Push("warn")
    /\ UNCHANGED <<threadVars, ipsecVars, endVars, logins>>

\* The first verdict since a login that is not trusted: the flag is set, and
\* then the dialog opened (534-535)
Warns ==
    /\ Takes("attestation")
    /\ validateTime # "None"
    /\ trusted = "False"
    /\ ~warningShown
    /\ shown' = Icon[trusted]
    /\ warningShown' = TRUE
    /\ warned' = warned + 1
    /\ Push("warn")
    /\ UNCHANGED <<threadVars, ipsecVars, endVars, logins>>

UserStays ==
    /\ At("warn") /\ ~quitting
    /\ Goto("check")
    /\ UNCHANGED <<queue, threadVars, viewVars, ipsecVars, endVars, logins>>

UserLeaves ==
    /\ At("warn") /\ ~quitting
    /\ Goto("leave")
    /\ UNCHANGED <<queue, threadVars, viewVars, ipsecVars, endVars, logins>>

\* Mutant: the connection is forgotten, the script not run
ForgetIPsecConnection ==
    /\ active' = FALSE
    /\ UNCHANGED <<tunnel, downs>>

\* closeIPsecConnection: "ipsec down" is started, not waited for (625)
CloseIPsecConnection ==
    /\ active' = FALSE
    /\ downs' = downs + 1
    /\ UNCHANGED tunnel

\* logout is done, the tunnel is closed, QApplication.quit() is called (539):
\* it only marks the event loops, and the slot goes on
Quits ==
    /\ At("leave")
    /\ CloseIPsecConnection
    /\ quitting' = TRUE
    /\ Goto("check")
    /\ UNCHANGED <<queue, threadVars, viewVars, closed, exited, logins>>

\* The end of the slot: a tunnel is made if there is none (558)
TunnelIsThere ==
    /\ At("check")
    /\ active
    /\ Return
    /\ UNCHANGED <<queue, threadVars, viewVars, ipsecVars, endVars, logins>>

TunnelIsMissing ==
    /\ At("check")
    /\ ~active
    /\ Goto("up")
    /\ UNCHANGED <<queue, threadVars, viewVars, ipsecVars, endVars, logins>>

\* "ipsec up" returns.  Its status is not looked at (584): the tunnel may be
\* up, or have been refused.
UpReturns ==
    /\ At("up")
    /\ active' = TRUE
    /\ tunnel' \in {TRUE, tunnel}
    /\ Return
    /\ UNCHANGED <<queue, downs, threadVars, viewVars, endVars, logins>>

-----------------------------------------------------------------------------
(* closeEvent, and the end of the application                              *)

\* Mutant: a window that is closed already can be closed again
CloseEventAgain ==
    /\ InLoop /\ stack = <<>>
    /\ ~quitting
    /\ Push("confirm")
    /\ UNCHANGED <<queue, threadVars, viewVars, ipsecVars, endVars, logins>>

\* The main window can be closed when no modal dialog is open
CloseEvent ==
    /\ InLoop /\ stack = <<>>
    /\ ~quitting /\ ~closed
    /\ Push("confirm")
    /\ UNCHANGED <<queue, threadVars, viewVars, ipsecVars, endVars, logins>>

UserKeepsOpen ==
    /\ At("confirm") /\ ~quitting
    /\ Return
    /\ UNCHANGED <<queue, threadVars, viewVars, ipsecVars, endVars, logins>>

UserConfirms ==
    /\ At("confirm") /\ ~quitting
    /\ Goto("bye")
    /\ UNCHANGED <<queue, threadVars, viewVars, ipsecVars, endVars, logins>>

\* logout is done, the thread terminated, the tunnel closed; the last window
\* closes, for which Qt posts an event that ends the loop
Closes ==
    /\ At("bye")
    /\ att' = "terminated"
    /\ CloseIPsecConnection
    /\ closed' = TRUE
    /\ queue' = Append(queue, "quit")
    /\ Return
    /\ UNCHANGED <<trusted, validateTime, verdicts, lastVerdict, viewVars,
                   quitting, exited, logins>>

OnQuit ==
    /\ Takes("quit")
    /\ quitting' = TRUE
    /\ UNCHANGED <<stack, threadVars, viewVars, ipsecVars, closed, exited,
                   logins>>

\* The loop of a dialog returns as if it had been dismissed
Unwinds ==
    /\ quitting
    /\ \/ At("warn") /\ Goto("check")
       \/ At("confirm") /\ Return
    /\ UNCHANGED <<queue, threadVars, viewVars, ipsecVars, endVars, logins>>

Exits ==
    /\ quitting
    /\ stack = <<>>
    /\ ~exited
    /\ exited' = TRUE
    /\ att' = "terminated"
    /\ queue' = <<>>
    /\ UNCHANGED <<trusted, validateTime, verdicts, lastVerdict, stack,
                   viewVars, ipsecVars, closed, quitting, logins>>

-----------------------------------------------------------------------------
(* A login that succeeds                                                   *)

LoginSucceeds ==
    /\ ~exited
    /\ logins < MaxLogins
    /\ Len(queue) < MaxQueue
    /\ logins' = logins + 1
    /\ queue' = Append(queue, "login")
    /\ UNCHANGED <<stack, threadVars, viewVars, ipsecVars, endVars>>

\* handleLoginStatus on 200: another warning is allowed (647), and start()
\* runs the thread again if it has been terminated (653)
OnLogin ==
    /\ Takes("login")
    /\ warningShown' = FALSE
    /\ warned' = 0
    /\ att' = IF att = "terminated" THEN "polling" ELSE att
    /\ trusted' = IF att = "terminated" THEN "False" ELSE trusted
    /\ UNCHANGED <<stack, validateTime, verdicts, lastVerdict, shown,
                   ipsecVars, endVars, logins>>

-----------------------------------------------------------------------------
(* charon                                                                  *)

DownEnds ==
    /\ downs > 0
    /\ downs' = downs - 1
    /\ tunnel' = FALSE
    /\ UNCHANGED <<active, queue, stack, threadVars, viewVars, endVars, logins>>

\* The NED or a timeout takes the tunnel down: the application is not told
TunnelDrops ==
    /\ tunnel
    /\ tunnel' = FALSE
    /\ UNCHANGED <<active, downs, queue, stack, threadVars, viewVars, endVars,
                   logins>>

-----------------------------------------------------------------------------
Thread ==
    \/ \E v \in Verdicts : PollAnswers(v)
    \/ \E t \in {"set", "None"} : PollEnds(t)
    \/ PollStarts

\* What the main thread does without the user
Main ==
    \/ NoVerdict
    \/ UntimedVerdict
    \/ PlainVerdict
    \/ Warns
    \/ Quits
    \/ TunnelIsThere
    \/ TunnelIsMissing
    \/ UpReturns
    \/ Closes
    \/ OnQuit
    \/ Unwinds
    \/ Exits
    \/ OnLogin

User ==
    \/ UserStays
    \/ UserLeaves
    \/ CloseEvent
    \/ UserKeepsOpen
    \/ UserConfirms

Outside ==
    \/ LoginSucceeds
    \/ DownEnds
    \/ TunnelDrops

Next ==
    \/ Thread
    \/ Main
    \/ User
    \/ Outside

Spec == Init /\ [][Next]_vars

\* The threads are scheduled, a poll ends after TIMEOUT at the latest, and the
\* ipsec command returns.  The user need not answer a dialog.
FairSpec ==
    /\ Spec
    /\ WF_vars(Thread)
    /\ WF_vars(Main)
    /\ WF_vars(DownEnds)

-----------------------------------------------------------------------------
(* Properties                                                              *)

\* Every variable keeps to its values.
TypeOK ==
    /\ att \in {"polling", "answered", "sleeping", "terminated"}
    /\ trusted \in Verdicts
    /\ validateTime \in {"set", "None"}
    /\ queue \in Seq(Events)
    /\ stack \in Seq(Places)
    /\ warningShown \in BOOLEAN
    /\ shown \in {"none", "green", "red"}
    /\ active \in BOOLEAN
    /\ closed \in BOOLEAN
    /\ quitting \in BOOLEAN
    /\ exited \in BOOLEAN
    /\ tunnel \in BOOLEAN
    /\ downs \in Nat
    /\ logins \in 0 .. MaxLogins
    /\ verdicts \subseteq Verdicts
    /\ lastVerdict \in Verdicts
    /\ warned \in Nat

\* However the slots nest in each other's dialogs, the user gets at most one
\* warning per login, and none before the first: the flag of 534 is set
\* before the dialog lets the next slot in.
OneWarningPerLogin ==
    /\ warned <= 1
    /\ logins = 0 => warned = 0

\* Once the signals are handled, and until the next poll begins, the icon
\* shows what the last poll came to, if it came to a verdict.
LabelSettles ==
    (/\ att = "sleeping"
     /\ InLoop
     /\ "attestation" \notin {queue[i] : i \in DOMAIN queue}
     /\ lastVerdict # "None") => shown = Icon[lastVerdict]

\* There is no tunnel the application has forgotten: when it holds none, and
\* neither script is running, charon has none up.
NoForgottenTunnel ==
    (~active /\ downs = 0 /\ ~At("up")) => ~tunnel

\* A NED that stays untrusted is shown so, whatever dialogs are open.
UntrustedIsShown ==
    lastVerdict = "False" ~>
        shown = "red" \/ lastVerdict # "False" \/ quitting

\* If the answers of the verifier come to have their times, a tunnel is made,
\* or the application ends: no verdict and no dialog keeps it from it.  (With
\* the time missing each slot dies before line 558.)
TunnelIsRaised ==
    <>[](validateTime = "set") => (~active ~> active \/ quitting \/ closed)

=============================================================================

----------------------------- MODULE NedProofs -----------------------------
(***************************************************************************)
(* Proofs about the application without mobility, for any number of events *)
(* and logins: its types, that it forgets no tunnel, that it warns once a  *)
(* login, and that its icon settles on the last verdict.                   *)
(*                                                                         *)
(* Slots nest to any depth, but none of the three looks below the          *)
(* innermost: WarnInv ties the flag to the number of warnings, and         *)
(* IconInv says that a verdict is shown or its signal is waiting, as long  *)
(* as the thread has not begun another poll.                               *)
(***************************************************************************)
EXTENDS NedAttestation, TLAPS

Waiting(e) == \E i \in DOMAIN queue : queue[i] = e

\* The flag allows a warning after a login that has not had one.
WarnInv ==
    /\ warned <= 1
    /\ ~warningShown => warned = 0
    /\ logins = 0 => warningShown /\ warned = 0 /\ ~Waiting("login")

IconInv ==
    /\ att \in {"answered", "sleeping"} => trusted = lastVerdict
    /\ att = "sleeping" /\ ~exited /\ lastVerdict # "None" =>
         Waiting("attestation") \/ shown = Icon[lastVerdict]

IInv == TypeOK /\ WarnInv /\ IconInv /\ NoForgottenTunnel

---------------------------------------------------------------------------
(* Queue and stack *)

LEMMA Emitted ==
    ASSUME queue \in Seq(Events), NEW e \in Events, queue' = Append(queue, e)
    PROVE  /\ queue' \in Seq(Events) /\ Waiting(e)'
           /\ \A d : Waiting(d)' <=> Waiting(d) \/ d = e
<1>1. /\ queue' \in Seq(Events) /\ Len(queue') = Len(queue) + 1 /\ Len(queue) \in Nat
      /\ DOMAIN queue = 1 .. Len(queue) /\ DOMAIN queue' = 1 .. Len(queue')
  OBVIOUS
<1>2. /\ queue'[Len(queue')] = e
      /\ \A i \in DOMAIN queue : queue'[i] = queue[i]
  BY <1>1
<1>3. ASSUME NEW d, Waiting(d) PROVE Waiting(d)'
  BY <1>1, <1>2, <1>3 DEF Waiting
<1>4. Waiting(e)'
  BY <1>1, <1>2 DEF Waiting
<1>5. ASSUME NEW d, Waiting(d)' PROVE Waiting(d) \/ d = e
  <2>1. PICK i \in DOMAIN queue' : queue'[i] = d
    BY <1>5 DEF Waiting
  <2> QED BY <1>1, <1>2, <2>1 DEF Waiting
<1> QED BY <1>1, <1>3, <1>4, <1>5

LEMMA Taken ==
    ASSUME queue \in Seq(Events), NEW e, Takes(e)
    PROVE  /\ queue' \in Seq(Events) /\ ~exited
           /\ \A d : Waiting(d)' => Waiting(d)
           /\ \A d : d # e /\ Waiting(d) => Waiting(d)'
           /\ Waiting(e)
<1>1. /\ queue # <<>> /\ queue' = Tail(queue) /\ Head(queue) = e /\ ~exited
  BY DEF Takes, InLoop
<1>2. /\ queue' \in Seq(Events) /\ Len(queue) \in Nat \ {0} /\ Len(queue') = Len(queue) - 1
      /\ DOMAIN queue = 1 .. Len(queue) /\ DOMAIN queue' = 1 .. Len(queue')
      /\ queue[1] = e
  BY <1>1
<1>3. \A i \in DOMAIN queue' : queue'[i] = queue[i + 1] /\ i + 1 \in DOMAIN queue
  BY <1>1, <1>2
<1>4. ASSUME NEW d, Waiting(d)' PROVE Waiting(d)
  BY <1>3, <1>4 DEF Waiting
<1>5. ASSUME NEW d, d # e, Waiting(d) PROVE Waiting(d)'
  <2>1. PICK i \in DOMAIN queue : queue[i] = d
    BY <1>5 DEF Waiting
  <2>2. i # 1 /\ i - 1 \in DOMAIN queue'
    BY <1>2, <1>5, <2>1
  <2>3. queue'[i - 1] = queue[i]
    BY <1>2, <1>3, <2>1, <2>2
  <2> QED BY <2>1, <2>2, <2>3 DEF Waiting
<1>6. Waiting(e)
  BY <1>2 DEF Waiting
<1> QED BY <1>1, <1>2, <1>4, <1>5, <1>6

LEMMA Stacked ==
    ASSUME stack \in Seq(Places), NEW p \in Places
    PROVE  /\ <<p>> \o stack \in Seq(Places) /\ Head(<<p>> \o stack) = p
           /\ <<p>> \o stack # <<>>
           /\ stack # <<>> => /\ Tail(stack) \in Seq(Places)
                              /\ <<p>> \o Tail(stack) \in Seq(Places)
                              /\ Head(<<p>> \o Tail(stack)) = p
                              /\ <<p>> \o Tail(stack) # <<>>
OBVIOUS

\* A handler that is at a place is on the stack.
LEMMA Placed ==
    ASSUME NEW p \in Places, At(p)
    PROVE  stack # <<>> /\ Head(stack) = p
BY DEF At, Innermost, Places

---------------------------------------------------------------------------
(* Types *)

LEMMA Pushed ==
    ASSUME TypeOK, NEW p \in Places, Push(p)
    PROVE  stack' \in Seq(Places) /\ At(p)'
BY Stacked DEF TypeOK, Push, At, Innermost

LEMMA Moved ==
    ASSUME TypeOK, NEW p \in Places, NEW q \in Places, At(p), Goto(q)
    PROVE  stack' \in Seq(Places) /\ At(q)'
BY Stacked, Placed DEF TypeOK, Goto, At, Innermost

LEMMA Returned ==
    ASSUME TypeOK, NEW p \in Places, At(p), Return
    PROVE  stack' \in Seq(Places)
BY Stacked, Placed DEF TypeOK, Return

LEMMA ThreadTypes == TypeOK /\ Thread => TypeOK'
<1> SUFFICES ASSUME TypeOK, Thread PROVE TypeOK'
  OBVIOUS
<1> USE DEF viewVars, ipsecVars, endVars
<1>1. ASSUME NEW v \in Verdicts, PollAnswers(v) PROVE TypeOK'
  BY <1>1 DEF TypeOK, PollAnswers
<1>2. ASSUME NEW t \in {"set", "None"}, PollEnds(t) PROVE TypeOK'
  <2>1. queue' \in Seq(Events)
    BY <1>2, Emitted DEF PollEnds, TypeOK, Events
  <2> QED BY <1>2, <2>1 DEF TypeOK, PollEnds
<1>3. CASE PollStarts
  BY <1>3 DEF TypeOK, PollStarts, Verdicts
<1> QED BY <1>1, <1>2, <1>3 DEF Thread

LEMMA VerdictTypes ==
    ASSUME TypeOK, NoVerdict \/ UntimedVerdict \/ PlainVerdict \/ Warns
    PROVE  TypeOK'
<1> USE DEF threadVars, viewVars, ipsecVars, endVars
<1>1. queue' \in Seq(Events)
  BY Taken DEF NoVerdict, UntimedVerdict, PlainVerdict, Warns, TypeOK
<1>2. trusted # "None" => Icon[trusted] \in {"none", "green", "red"}
  BY DEF TypeOK, Verdicts, Icon
<1>3. CASE NoVerdict
  <2>1. stack' \in Seq(Places)
    BY <1>3, Pushed DEF NoVerdict, Places
  <2> QED BY <1>1, <1>3, <2>1 DEF TypeOK, NoVerdict
<1>4. CASE UntimedVerdict
  BY <1>1, <1>2, <1>4 DEF TypeOK, UntimedVerdict
<1>5. CASE PlainVerdict
  <2>1. stack' \in Seq(Places)
    BY <1>5, Pushed DEF PlainVerdict, Places
  <2>2. trusted # "None"
    BY <1>5 DEF PlainVerdict
  <2> QED BY <1>1, <1>2, <1>5, <2>1, <2>2 DEF TypeOK, PlainVerdict
<1>6. CASE Warns
  <2>1. stack' \in Seq(Places)
    BY <1>6, Pushed DEF Warns, Places
  <2> QED BY <1>1, <1>2, <1>6, <2>1 DEF TypeOK, Warns
<1> QED BY <1>3, <1>4, <1>5, <1>6

LEMMA HandlerTypes ==
    ASSUME TypeOK, Quits \/ TunnelIsThere \/ TunnelIsMissing \/ UpReturns \/ Closes
    PROVE  TypeOK'
<1> USE DEF threadVars, viewVars, ipsecVars, endVars, CloseIPsecConnection
<1>1. stack' \in Seq(Places)
  BY Moved, Returned
  DEF Quits, TunnelIsThere, TunnelIsMissing, UpReturns, Closes, Places
<1>2. CASE Quits
  <2>1. downs' \in Nat /\ active' = FALSE /\ quitting' = TRUE
    BY <1>2 DEF TypeOK, Quits
  <2>2. UNCHANGED <<tunnel, queue, threadVars, viewVars, closed, exited, logins>>
    BY <1>2 DEF Quits
  <2> QED BY <1>1, <2>1, <2>2 DEF TypeOK
<1>3. CASE TunnelIsThere
  BY <1>1, <1>3 DEF TypeOK, TunnelIsThere
<1>4. CASE TunnelIsMissing
  BY <1>1, <1>4 DEF TypeOK, TunnelIsMissing
<1>5. CASE UpReturns
  BY <1>1, <1>5 DEF TypeOK, UpReturns
<1>6. CASE Closes
  <2>1. queue' \in Seq(Events)
    BY <1>6, Emitted DEF Closes, TypeOK, Events
  <2>2. downs' \in Nat /\ active' = FALSE /\ closed' = TRUE /\ att' = "terminated"
    BY <1>6 DEF TypeOK, Closes
  <2>3. UNCHANGED <<tunnel, trusted, validateTime, verdicts, lastVerdict, viewVars,
                   quitting, exited, logins>>
    BY <1>6 DEF Closes
  <2> QED BY <1>1, <2>1, <2>2, <2>3 DEF TypeOK
<1> QED BY <1>2, <1>3, <1>4, <1>5, <1>6

LEMMA EndTypes ==
    ASSUME TypeOK, OnQuit \/ Unwinds \/ Exits \/ OnLogin
    PROVE  TypeOK'
<1> USE DEF threadVars, viewVars, ipsecVars, endVars
<1>1. CASE OnQuit
  <2>1. queue' \in Seq(Events)
    BY <1>1, Taken DEF OnQuit, TypeOK
  <2> QED BY <1>1, <2>1 DEF TypeOK, OnQuit
<1>2. CASE Unwinds
  <2>1. stack' \in Seq(Places)
    BY <1>2, Moved, Returned DEF Unwinds, Places
  <2> QED BY <1>2, <2>1 DEF TypeOK, Unwinds
<1>3. CASE Exits
  BY <1>3 DEF TypeOK, Exits
<1>4. CASE OnLogin
  <2>1. queue' \in Seq(Events)
    BY <1>4, Taken DEF OnLogin, TypeOK
  <2> QED BY <1>4, <2>1 DEF TypeOK, OnLogin, Verdicts
<1> QED BY <1>1, <1>2, <1>3, <1>4

LEMMA UserTypes ==
    ASSUME TypeOK, User
    PROVE  TypeOK'
<1> USE DEF threadVars, viewVars, ipsecVars, endVars
<1>1. stack' \in Seq(Places)
  BY Pushed, Moved, Returned
  DEF User, UserStays, UserLeaves, CloseEvent, UserKeepsOpen, UserConfirms, Places
<1> QED BY <1>1
     DEF TypeOK, User, UserStays, UserLeaves, CloseEvent, UserKeepsOpen, UserConfirms

LEMMA OutsideTypes ==
    ASSUME TypeOK, Outside
    PROVE  TypeOK'
<1> USE DEF threadVars, viewVars, ipsecVars, endVars
<1>1. CASE LoginSucceeds
  <2>1. queue' \in Seq(Events)
    BY <1>1, Emitted DEF LoginSucceeds, TypeOK, Events
  <2> QED BY <1>1, <2>1, BoundsAssumption DEF TypeOK, LoginSucceeds
<1>2. CASE DownEnds \/ TunnelDrops
  <2>1. downs' \in Nat
    BY <1>2 DEF TypeOK, DownEnds, TunnelDrops
  <2>2. tunnel' = FALSE /\ UNCHANGED <<active, queue, stack, threadVars, viewVars,
                                      endVars, logins>>
    BY <1>2 DEF DownEnds, TunnelDrops
  <2> QED BY <2>1, <2>2 DEF TypeOK
<1> QED BY <1>1, <1>2 DEF Outside

LEMMA NextTypes == TypeOK /\ [Next]_vars => TypeOK'
<1> SUFFICES ASSUME TypeOK, [Next]_vars PROVE TypeOK'
  OBVIOUS
<1>1. CASE Main
  BY <1>1, VerdictTypes, HandlerTypes, EndTypes DEF Main
<1>2. CASE UNCHANGED vars
  BY <1>2 DEF TypeOK, vars, threadVars, viewVars, ipsecVars, endVars
<1> QED BY <1>1, <1>2, ThreadTypes, UserTypes, OutsideTypes DEF Next

---------------------------------------------------------------------------
(* Warnings *)

LEMMA SameWarnings ==
    ASSUME WarnInv, UNCHANGED <<warned, warningShown, logins>>,
           Waiting("login")' => Waiting("login")
    PROVE  WarnInv'
BY DEF WarnInv

LEMMA NextWarnings == TypeOK /\ WarnInv /\ [Next]_vars => WarnInv'
<1> SUFFICES ASSUME TypeOK, WarnInv, [Next]_vars PROVE WarnInv'
  OBVIOUS
<1> USE DEF threadVars, viewVars, ipsecVars, endVars
<1>1. CASE Thread
  <2>1. UNCHANGED <<warned, warningShown, logins>>
    BY <1>1 DEF Thread, PollAnswers, PollEnds, PollStarts
  <2>2. queue' = queue \/ queue' = Append(queue, "attestation")
    BY <1>1 DEF Thread, PollAnswers, PollEnds, PollStarts
  <2>3. Waiting("login")' => Waiting("login")
    BY <2>2, Emitted DEF Waiting, TypeOK, Events
  <2> QED BY <2>1, <2>3, SameWarnings
<1>2. CASE NoVerdict \/ UntimedVerdict \/ PlainVerdict \/ OnQuit
  <2>1. UNCHANGED <<warned, warningShown, logins>>
    BY <1>2 DEF NoVerdict, UntimedVerdict, PlainVerdict, OnQuit
  <2>2. Waiting("login")' => Waiting("login")
    BY <1>2, Taken DEF NoVerdict, UntimedVerdict, PlainVerdict, OnQuit, TypeOK
  <2> QED BY <2>1, <2>2, SameWarnings
<1>3. CASE Warns
  BY <1>3 DEF Warns, WarnInv
<1>4. CASE Quits \/ TunnelIsThere \/ TunnelIsMissing \/ UpReturns \/ Unwinds \/ User
           \/ DownEnds \/ TunnelDrops \/ UNCHANGED vars
  <2>1. UNCHANGED <<warned, warningShown, logins, queue>>
    BY <1>4 DEF Quits, TunnelIsThere, TunnelIsMissing, UpReturns, Unwinds, User, UserStays,
       UserLeaves, CloseEvent, UserKeepsOpen, UserConfirms, DownEnds, TunnelDrops, vars
  <2> QED BY <2>1, SameWarnings DEF Waiting
<1>5. CASE Closes \/ Exits
  <2>1. UNCHANGED <<warned, warningShown, logins>>
    BY <1>5 DEF Closes, Exits
  <2>2. queue' = <<>> \/ queue' = Append(queue, "quit")
    BY <1>5 DEF Closes, Exits
  <2>3. Waiting("login")' => Waiting("login")
    <3>1. CASE queue' = <<>>
      BY <3>1 DEF Waiting
    <3>2. CASE queue' = Append(queue, "quit")
      BY <3>2, Emitted DEF TypeOK, Events
    <3> QED BY <2>2, <3>1, <3>2
  <2> QED BY <2>1, <2>3, SameWarnings
<1>6. CASE OnLogin
  <2>1. Waiting("login")
    BY <1>6, Taken DEF OnLogin, TypeOK
  <2> QED BY <1>6, <2>1 DEF OnLogin, WarnInv
<1>7. CASE LoginSucceeds
  BY <1>7 DEF LoginSucceeds, WarnInv, TypeOK
<1> QED BY <1>1, <1>2, <1>3, <1>4, <1>5, <1>6, <1>7 DEF Next, Main, Outside

---------------------------------------------------------------------------
(* The icon *)

LEMMA SameIcon ==
    ASSUME IconInv, UNCHANGED <<att, trusted, lastVerdict, shown>>,
           exited => exited', Waiting("attestation") => Waiting("attestation")'
    PROVE  IconInv'
BY DEF IconInv

LEMMA NextIcon == TypeOK /\ IconInv /\ [Next]_vars => IconInv'
<1> SUFFICES ASSUME TypeOK, IconInv, [Next]_vars PROVE IconInv'
  OBVIOUS
<1> USE DEF threadVars, viewVars, ipsecVars, endVars
<1>1. ASSUME NEW v \in Verdicts, PollAnswers(v) PROVE IconInv'
  BY <1>1 DEF PollAnswers, IconInv
<1>2. ASSUME NEW t \in {"set", "None"}, PollEnds(t) PROVE IconInv'
  <2>1. Waiting("attestation")'
    BY <1>2, Emitted DEF PollEnds, TypeOK, Events
  <2> QED BY <1>2, <2>1 DEF PollEnds, IconInv
<1>3. CASE PollStarts
  BY <1>3 DEF PollStarts, IconInv
<1>4. CASE NoVerdict
  BY <1>4 DEF NoVerdict, IconInv
<1>5. CASE UntimedVerdict \/ PlainVerdict \/ Warns
  BY <1>5 DEF UntimedVerdict, PlainVerdict, Warns, IconInv
<1>6. CASE Quits \/ TunnelIsThere \/ TunnelIsMissing \/ UpReturns \/ Unwinds \/ User
           \/ DownEnds \/ TunnelDrops \/ UNCHANGED vars
  <2>1. UNCHANGED <<att, trusted, lastVerdict, shown, exited, queue>>
    BY <1>6 DEF Quits, TunnelIsThere, TunnelIsMissing, UpReturns, Unwinds, User, UserStays,
       UserLeaves, CloseEvent, UserKeepsOpen, UserConfirms, DownEnds, TunnelDrops, vars
  <2> QED BY <2>1, SameIcon DEF Waiting
<1>7. CASE Closes \/ Exits
  BY <1>7 DEF Closes, Exits, IconInv
<1>8. CASE OnQuit
  <2>1. Waiting("attestation") => Waiting("attestation")'
    BY <1>8, Taken DEF OnQuit, TypeOK
  <2> QED BY <1>8, <2>1, SameIcon DEF OnQuit
<1>9. CASE OnLogin
  <2>1. Waiting("attestation") => Waiting("attestation")'
    BY <1>9, Taken DEF OnLogin, TypeOK
  <2> QED BY <1>9, <2>1, SameIcon DEF OnLogin, IconInv
<1>10. CASE LoginSucceeds
  <2>1. Waiting("attestation") => Waiting("attestation")'
    BY <1>10, Emitted DEF LoginSucceeds, TypeOK, Events
  <2> QED BY <1>10, <2>1, SameIcon DEF LoginSucceeds
<1> QED BY <1>1, <1>2, <1>3, <1>4, <1>5, <1>6, <1>7, <1>8, <1>9, <1>10
     DEF Next, Thread, Main, Outside

---------------------------------------------------------------------------
(* The tunnel *)

\* What leaves charon and the window's connection alone, and "ipsec up" to run
LEMMA SameTunnel ==
    ASSUME NoForgottenTunnel, UNCHANGED ipsecVars, At("up") => At("up")'
    PROVE  NoForgottenTunnel'
BY DEF NoForgottenTunnel, ipsecVars

\* While "ipsec up" runs, the main thread is in no event loop and no other
\* place.
LEMMA UpIsAlone ==
    ASSUME At("up")
    PROVE  ~InLoop /\ stack # <<>> /\ \A p \in Places \ {"up"} : ~At(p)
BY DEF At, Innermost, InLoop, Dialogs, Places

LEMMA NextTunnel == TypeOK /\ NoForgottenTunnel /\ [Next]_vars => NoForgottenTunnel'
<1> SUFFICES ASSUME TypeOK, NoForgottenTunnel, [Next]_vars PROVE NoForgottenTunnel'
  OBVIOUS
<1>1. CASE Thread \/ LoginSucceeds \/ UNCHANGED vars
  <2>1. UNCHANGED <<ipsecVars, stack>>
    BY <1>1 DEF Thread, PollAnswers, PollEnds, PollStarts, LoginSucceeds, vars
  <2> QED BY <2>1, SameTunnel DEF At, Innermost
<1>2. CASE NoVerdict \/ UntimedVerdict \/ PlainVerdict \/ Warns \/ OnQuit \/ OnLogin
           \/ CloseEvent \/ Exits
  <2>1. ~At("up") /\ UNCHANGED ipsecVars
    BY <1>2, UpIsAlone DEF NoVerdict, UntimedVerdict, PlainVerdict, Warns, OnQuit, OnLogin,
       CloseEvent, Exits, Takes
  <2> QED BY <2>1, SameTunnel
<1>3. CASE TunnelIsThere \/ TunnelIsMissing \/ UserStays \/ UserLeaves \/ UserKeepsOpen
           \/ UserConfirms \/ Unwinds
  <2>1. ~At("up") /\ UNCHANGED ipsecVars
    BY <1>3, UpIsAlone DEF TunnelIsThere, TunnelIsMissing, UserStays, UserLeaves,
       UserKeepsOpen, UserConfirms, Unwinds, Places
  <2> QED BY <2>1, SameTunnel
<1>4. CASE Quits \/ Closes
  BY <1>4 DEF Quits, Closes, CloseIPsecConnection, NoForgottenTunnel, TypeOK
<1>5. CASE UpReturns
  BY <1>5 DEF UpReturns, NoForgottenTunnel
<1>6. CASE DownEnds \/ TunnelDrops
  BY <1>6 DEF DownEnds, TunnelDrops, NoForgottenTunnel
<1> QED BY <1>1, <1>2, <1>3, <1>4, <1>5, <1>6 DEF Next, Main, User, Outside

---------------------------------------------------------------------------
(* Theorems *)

LEMMA InitIInv == Init => IInv
<1> SUFFICES ASSUME Init PROVE IInv
  OBVIOUS
<1>1. TypeOK
  <2>1. queue \in Seq(Events) /\ stack \in Seq(Places) /\ logins \in 0 .. MaxLogins
    BY BoundsAssumption DEF Init
  <2>2. /\ trusted \in Verdicts /\ lastVerdict \in Verdicts /\ verdicts \subseteq Verdicts
        /\ downs \in Nat /\ warned \in Nat
    BY DEF Init, Verdicts
  <2> QED BY <2>1, <2>2 DEF Init, TypeOK
<1>2. \A e : ~Waiting(e)
  BY DEF Init, Waiting
<1>3. WarnInv /\ IconInv /\ NoForgottenTunnel
  BY <1>2 DEF Init, WarnInv, IconInv, NoForgottenTunnel
<1> QED BY <1>1, <1>3 DEF IInv

\* The invariant holds of every behaviour (client_sec.py:505-627).
THEOREM Invariant == Spec => []IInv
<1>1. IInv /\ [Next]_vars => IInv'
  BY NextTypes, NextWarnings, NextIcon, NextTunnel DEF IInv
<1> QED BY InitIInv, <1>1, PTL DEF Spec

\* Every variable keeps to its values, and the handlers to their places,
\* however deep they nest (client_sec.py:505-627).
THEOREM TypeCorrect == Spec => []TypeOK
<1>1. IInv => TypeOK
  BY DEF IInv
<1> QED BY Invariant, <1>1, PTL

\* However the slots nest, the user is warned once a login at most
\* (client_sec.py:533-535, 647).
THEOREM WarnedOnce == Spec => []OneWarningPerLogin
<1>1. IInv => OneWarningPerLogin
  BY DEF IInv, WarnInv, OneWarningPerLogin
<1> QED BY Invariant, <1>1, PTL

\* The icon settles on the last verdict (client_sec.py:505-531, 833-834).
THEOREM IconIsLast == Spec => []LabelSettles
<1>1. IInv => LabelSettles
  BY DEF IInv, IconInv, LabelSettles, Waiting, InLoop
<1> QED BY Invariant, <1>1, PTL

\* No order of the scripts makes the application forget a tunnel
\* (client_sec.py:558-560, 580-627).
THEOREM NoneForgotten == Spec => []NoForgottenTunnel
<1>1. IInv => NoForgottenTunnel
  BY DEF IInv
<1> QED BY Invariant, <1>1, PTL

===========================================================================

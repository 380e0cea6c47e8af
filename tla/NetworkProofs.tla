-------------------------- MODULE NetworkProofs ---------------------------
(***************************************************************************)
(* Proofs about two parts of charon that take what comes from the network: *)
(* the receiver (module Receiver) and the segments of a cluster (module    *)
(* HaSegments), which share nothing.                                       *)
(*                                                                         *)
(* The receiver, for all limits, lifetimes and peers: its types, that      *)
(* cookies are accepted exactly while they should be, and that the limit   *)
(* of half-open IKE_SAs is passed by no more than the queue and the        *)
(* workers.  None of the three is inductive.  A cookie alone does not tell *)
(* which secret made it, so CookieTimes relates the secret of each cookie, *)
(* its time and the time of the last change; for the limit, LoadBound      *)
(* bounds what is open together with what is run and what is queued, at    *)
(* each stage of the request that the receiver has at hand.                *)
(*                                                                         *)
(* The segments, for any number of them, of messages in flight and of      *)
(* faults: a node has one watchdog while heartbeat_active says so, and     *)
(* none otherwise.  The messages in flight have no part in it; that they   *)
(* keep their types needs that numbers can be put in order.                *)
(***************************************************************************)
EXTENDS Receiver, HaSegments,
        FiniteSetTheorems, SequenceTheorems, WellFoundedInduction, TLAPS

\* The previous secret is the one before the secret.
SecretsInOrder == secret_old + 1 = secret \/ (secret = 0 /\ secret_old = 0)

\* The times are in order: the offset is behind the clock, the last change of
\* the secret is not ahead of it.
TimesInOrder == secret_offset < now /\ secret_switch <= now

\* A cookie is not from the future; one of this secret was sent at its first
\* second or later, one of the previous secret at that second or earlier.
CookieTimes ==
    \A c \in Cookies :
        /\ c.t + secret_offset <= now
        /\ c.secret <= secret
        /\ c.secret = secret => secret_switch <= c.t + secret_offset \/ secret = 0
        /\ c.secret + 1 = secret => c.t + secret_offset <= secret_switch

\* What is queued and what is run will be open.
Load == half + opening + jobs

\* Only the receiver adds to the load, so what it has found below a limit is
\* no more when it compares: with the count of the start below the limit, the
\* load leaves room for one; with the queue within its limit too.
LoadBound ==
    InitLimitHalfOpen > 0 /\ InitLimitJobLoad > 0 =>
        LET most == InitLimitHalfOpen + InitLimitJobLoad + Workers IN
        /\ Load <= most + 1
        /\ jobs <= InitLimitJobLoad + 1
        /\ check = "peer" /\ half_open < InitLimitHalfOpen => Load <= most
        /\ check \in {"load", "queue"} => Load <= most
        /\ check = "queue" => jobs <= InitLimitJobLoad

IInv == TypeOK /\ SecretsInOrder /\ TimesInOrder /\ CookieTimes /\ LoadBound

---------------------------------------------------------------------------
(* The initial state *)

LEMMA InitIInv == Init => IInv
<1> SUFFICES ASSUME Init PROVE IInv
  OBVIOUS
<1>1. TypeOK
  BY NumbersAssumption DEF Init, TypeOK, Uint, Offsets
<1>2. LoadBound
  BY NumbersAssumption DEF Init, LoadBound, Load
<1>3. SecretsInOrder /\ TimesInOrder /\ CookieTimes
  BY NumbersAssumption DEF Init, SecretsInOrder, TimesInOrder, CookieTimes, Cookies, Offsets
<1> QED BY <1>1, <1>2, <1>3 DEF IInv

---------------------------------------------------------------------------
(* Steps that leave the load alone *)

\* The time of a cookie that is sent is that of the clock less the offset.
LEMMA SentTime ==
    ASSUME TypeOK, TimesInOrder
    PROVE  Sent = [t |-> now - secret_offset, secret |-> secret] /\ Sent \in Cookie
BY NumbersAssumption DEF TypeOK, TimesInOrder, Sent, Minus, Cookie, Uint

\* The change of the secret keeps its types and its order.
LEMMA SecretUsedTypes ==
    ASSUME TypeOK, SecretsInOrder, SecretUsed
    PROVE  /\ secret' \in Nat /\ secret_old' \in Nat /\ secret_used' \in Nat
           /\ secret_switch' \in Uint
           /\ SecretsInOrder'
           /\ \/ secret' = secret /\ secret_switch' = secret_switch
              \/ secret' = secret + 1 /\ secret_switch' = now
BY NumbersAssumption
DEF TypeOK, SecretsInOrder, SecretUsed, OldKept, Uint

LEMMA AsksForCookieIInv ==
    ASSUME IInv, NEW p \in Peers, NEW given \in SUBSET (Cookie \cup {NoCookie}),
           AsksForCookie(p, given)
    PROVE  IInv'
<1>1. /\ TypeOK /\ SecretsInOrder /\ TimesInOrder /\ CookieTimes /\ LoadBound
      /\ SecretUsed /\ LastCookie /\ Reached(p)
      /\ UNCHANGED <<now, secret_offset, requestVars, loadVars>>
  BY DEF IInv, AsksForCookie
<1>2. Sent = [t |-> now - secret_offset, secret |-> secret] /\ Sent \in Cookie
  BY <1>1, SentTime
<1>3. /\ secret' \in Nat /\ secret_old' \in Nat /\ secret_used' \in Nat
      /\ secret_switch' \in Uint
      /\ SecretsInOrder'
      /\ \/ secret' = secret /\ secret_switch' = secret_switch
         \/ secret' = secret + 1 /\ secret_switch' = now
  BY <1>1, SecretUsedTypes
<1>4. cookie' \in [Peers -> Cookie \cup {NoCookie}]
  BY <1>1, <1>2 DEF TypeOK, Reached
<1>5. TypeOK'
  <2>1. last_cookie' \in Uint
    BY <1>1, NumbersAssumption DEF LastCookie, TypeOK, Uint
  <2> QED BY <1>1, <1>3, <1>4, <2>1
          DEF TypeOK, requestVars, loadVars, halfVars, openingVars, jobVars
<1>6. TimesInOrder'
  BY <1>1, <1>3, NumbersAssumption DEF TimesInOrder, TypeOK, Uint
<1>7. CookieTimes'
  <2>1. Cookies' \subseteq Cookies \cup {Sent}
    BY <1>1, <1>4 DEF Reached, Cookies, TypeOK
  <2>2. Cookies \subseteq Cookie
    BY <1>1 DEF Cookies, TypeOK
  <2> SUFFICES ASSUME NEW c \in Cookies'
               PROVE  /\ c.t + secret_offset <= now
                      /\ c.secret <= secret'
                      /\ c.secret = secret' =>
                            secret_switch' <= c.t + secret_offset \/ secret' = 0
                      /\ c.secret + 1 = secret' => c.t + secret_offset <= secret_switch'
    BY <1>1 DEF CookieTimes
  <2>3. now \in Nat /\ secret_offset \in Nat /\ secret \in Nat /\ secret_switch \in Nat
    BY <1>1, NumbersAssumption DEF TypeOK, Uint
  <2>4. CASE c \in Cookies
    <3>1. c.t \in Nat /\ c.secret \in Nat
      BY <2>2, <2>4, NumbersAssumption DEF Cookie, Uint
    <3>2. /\ c.t + secret_offset <= now
          /\ c.secret <= secret
          /\ c.secret = secret => secret_switch <= c.t + secret_offset \/ secret = 0
          /\ c.secret + 1 = secret => c.t + secret_offset <= secret_switch
      BY <1>1, <2>4 DEF CookieTimes
    <3> QED BY <1>3, <2>3, <3>1, <3>2
  <2>5. CASE c = Sent
    <3>1. c.t + secret_offset = now /\ c.secret = secret
      BY <1>2, <2>3, <2>5
    <3> QED BY <1>1, <1>3, <2>3, <3>1 DEF TimesInOrder
  <2> QED BY <2>1, <2>4, <2>5
<1>8. LoadBound'
  BY <1>1 DEF LoadBound, Load, requestVars, loadVars, halfVars, openingVars, jobVars
<1> QED BY <1>3, <1>5, <1>6, <1>7, <1>8 DEF IInv

---------------------------------------------------------------------------
(* Steps of the load *)

\* Steps that leave the clock and the secrets alone.
LEMMA SameCookies ==
    ASSUME IInv, UNCHANGED <<now, secret_offset, secretVars, cookie>>, TypeOK', LoadBound'
    PROVE  IInv'
BY DEF IInv, SecretsInOrder, TimesInOrder, CookieTimes, Cookies, secretVars

\* Below the limit, at most one job above the limit of the queue is queued and
\* each worker runs one: the load leaves room for one.
LEMMA CountedIInv ==
    ASSUME IInv, NEW p \in Peers, Counted(p), last_cookie' \in Uint
    PROVE  IInv'
<1>1. /\ TypeOK /\ LoadBound
      /\ check' = "peer" /\ asker' = p /\ half_open' = half
      /\ UNCHANGED <<now, secret_offset, secretVars, cookie>>
      /\ UNCHANGED <<half, halfOf, opening, openingOf, jobs, jobsOf>>
  BY DEF IInv, Counted, loadVars, halfVars, openingVars, jobVars
<1>2. TypeOK'
  BY <1>1, NoPeerAssumption DEF TypeOK, secretVars
<1>3. LoadBound'
  BY <1>1, NumbersAssumption DEF LoadBound, Load, TypeOK
<1> QED BY <1>1, <1>2, <1>3, SameCookies

\* The other steps of the receiver: a count below its limit takes the request
\* on, and it is queued where there is room for one.
LEMMA ChecksIInv ==
    ASSUME IInv, ChecksPeer \/ ChecksLoad \/ QueuesJob
    PROVE  IInv'
<1> USE DEF Ready, cookieVars, loadVars, halfVars, openingVars, jobVars
<1>1. TypeOK /\ LoadBound /\ UNCHANGED <<now, secret_offset, secretVars, last_cookie, cookie>>
  BY DEF IInv, ChecksPeer, ChecksLoad, QueuesJob
<1>2. CASE ChecksPeer
  <2>1. /\ check = "peer" /\ UNCHANGED <<half, halfOf, opening, openingOf, jobs, jobsOf>>
        /\ \/ check' = "idle" /\ asker' = NoPeer /\ half_open' = 0
           \/ /\ check' = "load" /\ asker' = asker /\ half_open' = 0
              /\ HalfOpenAcceptable
    BY <1>2 DEF ChecksPeer
  <2>2. TypeOK'
    BY <1>1, <2>1 DEF TypeOK, secretVars
  <2>3. LoadBound'
    BY <1>1, <2>1, NumbersAssumption DEF LoadBound, Load, TypeOK, HalfOpenAcceptable
  <2> QED BY <1>1, <2>2, <2>3, SameCookies
<1>3. CASE ChecksLoad
  <2>1. /\ check = "load" /\ UNCHANGED <<half, halfOf, opening, openingOf, jobs, jobsOf>>
        /\ \/ check' = "idle" /\ asker' = NoPeer /\ half_open' = 0
           \/ /\ check' = "queue" /\ asker' = asker /\ half_open' = half_open
              /\ JobLoadAcceptable
    BY <1>3 DEF ChecksLoad
  <2>2. TypeOK'
    BY <1>1, <2>1 DEF TypeOK, secretVars
  <2>3. LoadBound'
    BY <1>1, <2>1, NumbersAssumption DEF LoadBound, Load, TypeOK, JobLoadAcceptable
  <2> QED BY <1>1, <2>2, <2>3, SameCookies
<1>4. CASE QueuesJob
  <2>1. /\ check = "queue" /\ UNCHANGED <<half, halfOf, opening, openingOf>>
        /\ check' = "idle" /\ asker' = NoPeer /\ half_open' = 0
        /\ jobs' = jobs + 1 /\ jobsOf' = [jobsOf EXCEPT ![asker] = @ + 1]
    BY <1>4 DEF QueuesJob
  <2>2. TypeOK'
    BY <1>1, <2>1 DEF TypeOK, secretVars
  <2>3. LoadBound'
    BY <1>1, <2>1, NumbersAssumption DEF LoadBound, Load, TypeOK
  <2> QED BY <1>1, <2>2, <2>3, SameCookies
<1> QED BY <1>2, <1>3, <1>4

\* Workers and IKE_SAs only move the load on, or take from it.
LEMMA LoadIInv ==
    ASSUME IInv, NEW p \in Peers, JobStarts(p) \/ JobOpens(p) \/ HalfOpenEnds(p)
    PROVE  IInv'
<1> USE DEF cookieVars, requestVars, halfVars, openingVars, jobVars
<1>1. /\ TypeOK /\ LoadBound /\ UNCHANGED <<now, secret_offset, secretVars, last_cookie, cookie>>
      /\ UNCHANGED <<check, asker, half_open>>
  BY DEF IInv, JobStarts, JobOpens, HalfOpenEnds
<1>2. CASE JobStarts(p)
  <2>1. TypeOK'
    BY <1>1, <1>2, NumbersAssumption DEF TypeOK, JobStarts, secretVars
  <2>2. LoadBound'
    BY <1>1, <1>2, NumbersAssumption DEF LoadBound, Load, TypeOK, JobStarts
  <2> QED BY <1>1, <2>1, <2>2, SameCookies
<1>3. CASE JobOpens(p)
  <2>1. TypeOK'
    BY <1>1, <1>3, NumbersAssumption DEF TypeOK, JobOpens, secretVars
  <2>2. LoadBound'
    BY <1>1, <1>3, NumbersAssumption DEF LoadBound, Load, TypeOK, JobOpens
  <2> QED BY <1>1, <2>1, <2>2, SameCookies
<1>4. CASE HalfOpenEnds(p)
  <2>1. TypeOK'
    BY <1>1, <1>4 DEF TypeOK, HalfOpenEnds, secretVars
  <2>2. LoadBound'
    BY <1>1, <1>4, NumbersAssumption DEF LoadBound, Load, TypeOK, HalfOpenEnds
  <2> QED BY <1>1, <2>1, <2>2, SameCookies
<1> QED BY <1>2, <1>3, <1>4

LEMMA TickIInv ==
    ASSUME IInv, Tick
    PROVE  IInv'
<1>1. /\ TypeOK /\ SecretsInOrder /\ TimesInOrder /\ CookieTimes /\ LoadBound
      /\ now < MaxNow /\ now' = now + 1
      /\ UNCHANGED <<secret_offset, secretVars, last_cookie, cookie, requestVars, loadVars>>
  BY DEF IInv, Tick
<1>2. TypeOK' /\ TimesInOrder'
  BY <1>1, NumbersAssumption
  DEF TypeOK, TimesInOrder, Uint, secretVars, requestVars, loadVars, halfVars, openingVars, jobVars
<1>3. SecretsInOrder' /\ LoadBound'
  BY <1>1 DEF SecretsInOrder, LoadBound, Load, secretVars, requestVars, loadVars, halfVars,
              openingVars, jobVars
<1>4. CookieTimes'
  <2>1. Cookies' = Cookies /\ Cookies \subseteq Cookie
    BY <1>1 DEF Cookies, TypeOK
  <2>2. ASSUME NEW c \in Cookies PROVE c.t + secret_offset <= now + 1
    <3>1. c.t \in Nat /\ c.t + secret_offset <= now
      BY <1>1, <2>1, NumbersAssumption DEF CookieTimes, Cookie, Uint
    <3> QED BY <1>1, <3>1, NumbersAssumption DEF TypeOK, Uint
  <2> QED BY <1>1, <2>1, <2>2 DEF CookieTimes, secretVars
<1> QED BY <1>2, <1>3, <1>4 DEF IInv

---------------------------------------------------------------------------

LEMMA NextIInv == IInv /\ [Next]_vars => IInv'
<1> SUFFICES ASSUME IInv, [Next]_vars PROVE IInv'
  OBVIOUS
<1>1. LastCookie => last_cookie' \in Uint
  BY NumbersAssumption DEF LastCookie, IInv, TypeOK, Uint
<1>2. ASSUME NEW p \in Peers, IkeSaInit(p) PROVE IInv'
  <2> PICK given \in {{}, {cookie[p]} \ {NoCookie}} : AsksForCookie(p, given) \/ Passes(p, given)
    BY <1>2 DEF IkeSaInit
  <2>1. given \in SUBSET (Cookie \cup {NoCookie})
    BY DEF IInv, TypeOK
  <2>2. CASE AsksForCookie(p, given)
    BY <2>1, <2>2, AsksForCookieIInv
  <2>3. CASE Passes(p, given)
    BY <1>1, <2>3, CountedIInv DEF Passes
  <2> QED BY <2>2, <2>3
<1>3. ASSUME NEW p \in Peers, IkeV1Init(p) PROVE IInv'
  <2>1. last_cookie' \in Uint
    BY <1>3 DEF IkeV1Init, IInv, TypeOK
  <2> QED BY <1>3, <2>1, CountedIInv DEF IkeV1Init
<1>4. ASSUME NEW p \in Peers, JobStarts(p) \/ JobOpens(p) \/ HalfOpenEnds(p) PROVE IInv'
  BY <1>4, LoadIInv
<1>7. CASE ChecksPeer \/ ChecksLoad \/ QueuesJob
  BY <1>7, ChecksIInv
<1>5. CASE Tick
  BY <1>5, TickIInv
<1>6. CASE UNCHANGED vars
  <2>1. /\ UNCHANGED <<now, secret_offset, secretVars, last_cookie, cookie>>
        /\ UNCHANGED <<check, asker, half_open, half, halfOf, opening, openingOf, jobs, jobsOf>>
    BY <1>6 DEF vars, cookieVars, requestVars, loadVars, halfVars, openingVars, jobVars
  <2>2. TypeOK'
    BY <2>1 DEF IInv, TypeOK, secretVars
  <2>3. LoadBound'
    BY <2>1 DEF IInv, LoadBound, Load
  <2> QED BY <2>1, <2>2, <2>3, SameCookies
<1> QED BY <1>2, <1>3, <1>4, <1>5, <1>6, <1>7 DEF Next

\* The invariant behind the theorems.
THEOREM Invariant == Spec => []IInv
BY InitIInv, NextIInv, PTL DEF Spec

---------------------------------------------------------------------------
(* What follows *)

LEMMA FreshFromIInv == IInv => AcceptedIsFresh /\ FreshIsAccepted
<1> SUFFICES ASSUME IInv, NEW c \in Cookies
             PROVE  /\ Verified(c) => Age(c) \in 0 .. CookieLifetime
                    /\ Age(c) <= CookieLifetime =>
                          \/ Verified(c)
                          \/ c.secret = secret /\ c.t + secret_offset = secret_switch
                          \/ c.secret + 1 < secret
                          \/ now - secret_offset < CookieLifetime
  BY DEF AcceptedIsFresh, FreshIsAccepted
<1>1. /\ now \in Nat /\ secret_offset \in Nat /\ secret \in Nat /\ secret_old \in Nat
      /\ secret_switch \in Nat /\ c.t \in Nat /\ c.secret \in Nat
      /\ CookieLifetime \in Nat /\ Width \in Nat
      /\ CookieLifetime < Width /\ now < Width
  BY NumbersAssumption DEF IInv, TypeOK, Uint, Cookies, Cookie
<1>2. /\ c.t + secret_offset <= now
      /\ c.secret <= secret
      /\ c.secret = secret => secret_switch <= c.t + secret_offset \/ secret = 0
      /\ c.secret + 1 = secret => c.t + secret_offset <= secret_switch
  BY DEF IInv, CookieTimes
<1>3. secret_offset < now
  BY DEF IInv, TimesInOrder
<1>4. Minus(now, secret_offset) = now - secret_offset
  BY <1>1, <1>3 DEF Minus
<1>5. Expired(c) <=> c.t < Minus(now - secret_offset, CookieLifetime)
  BY <1>4 DEF Expired
<1>6. CASE now - secret_offset >= CookieLifetime
  <2>1. Expired(c) <=> Age(c) > CookieLifetime
    BY <1>1, <1>3, <1>5, <1>6 DEF Minus, Age
  <2>2. Age(c) \in Nat
    BY <1>1, <1>2 DEF Age
  <2>3. \/ c.secret = SecretOf(c)
        \/ c.secret = secret /\ c.t + secret_offset = secret_switch
        \/ c.secret + 1 < secret
    BY <1>1, <1>2 DEF SecretOf, IInv, SecretsInOrder
  <2> QED BY <1>1, <2>1, <2>2, <2>3 DEF Verified
<1>7. CASE now - secret_offset < CookieLifetime
  <2>1. Expired(c)
    BY <1>1, <1>2, <1>3, <1>5, <1>7 DEF Minus
  <2> QED BY <1>7, <2>1 DEF Verified
<1> QED BY <1>1, <1>3, <1>6, <1>7

\* The variables keep their types, so the clock less the offset never goes
\* below zero (receiver.c:618-631).
THEOREM TypeCorrect == Spec => []TypeOK
<1>1. IInv => TypeOK
  BY DEF IInv
<1> QED BY <1>1, Invariant, PTL

\* No cookie is accepted after its lifetime.
THEOREM CookiesExpire == Spec => []AcceptedIsFresh
<1>1. IInv => AcceptedIsFresh
  BY FreshFromIInv
<1> QED BY <1>1, Invariant, PTL

\* No cookie is refused within its lifetime, but for the three cases.
THEOREM CookiesLast == Spec => []FreshIsAccepted
<1>1. IInv => FreshIsAccepted
  BY FreshFromIInv
<1> QED BY <1>1, Invariant, PTL

\* The IKE_SAs that are half open do not pass both limits, the number of
\* workers and one together, although each count of the receiver is of another
\* moment and none is of the jobs that are run (receiver.c:329-408).
THEOREM HalfOpenLimited == Spec => []HalfOpenBounded
<1>1. IInv => HalfOpenBounded
  BY NumbersAssumption DEF IInv, TypeOK, LoadBound, Load, HalfOpenBounded
<1> QED BY <1>1, Invariant, PTL

---------------------------------------------------------------------------
(* The segments of a cluster *)

Flags ==
    /\ run \in [Nodes -> {"up", "leaving", "down"}]
    /\ beat \in [Nodes -> BOOLEAN]
    /\ waiting \in [Nodes -> Nat]
    /\ ending \in [Nodes -> {"no", "timedout", "taken"}]

\* A node that is down has no threads.
NoThreads ==
    \A n \in Nodes : run[n] = "down" => waiting[n] = 0 /\ ending[n] = "no" /\ ~beat[n]

WatchInv == Flags /\ NoThreads /\ OneWatchdog

LEMMA InitWatch == HaInit => WatchInv
BY DEF HaInit, WatchInv, Flags, NoThreads, OneWatchdog, Nodes

\* Steps that have no part in watching.
LEMMA OthersWatch ==
    ASSUME WatchInv, UNCHANGED <<beat, waiting, ending>>,
           run' = run \/ \E n \in Nodes : run[n] = "up" /\ run' = [run EXCEPT ![n] = "leaving"]
    PROVE  WatchInv'
<1>1. run' \in [Nodes -> {"up", "leaving", "down"}]
  BY DEF WatchInv, Flags
<1>2. \A n \in Nodes : run'[n] = "down" <=> run[n] = "down"
  BY DEF WatchInv, Flags
<1> QED BY <1>1, <1>2 DEF WatchInv, Flags, NoThreads, OneWatchdog

\* The dispatcher starts a watchdog only if there is none: a node that is not
\* active has neither a job that waits nor one that ends.
LEMMA RearmWatch ==
    ASSUME WatchInv, NEW n \in Nodes, Rearm(n)
    PROVE  WatchInv'
<1>1. run' = run /\ ending' = ending /\ run[n] # "down"
  BY DEF Rearm
<1>2. CASE beat[n]
  BY <1>1, <1>2, OthersWatch DEF Rearm, HeartbeatActive
<1>3. CASE ~beat[n]
  <2>1. waiting[n] = 0 /\ ending[n] = "no"
    BY <1>1, <1>3 DEF WatchInv, Flags, OneWatchdog
  <2>2. beat' = [beat EXCEPT ![n] = TRUE] /\ waiting' = [waiting EXCEPT ![n] = 1]
    BY <1>3, <2>1 DEF Rearm, HeartbeatActive, StartWatchdog
  <2> QED BY <1>1, <2>1, <2>2 DEF WatchInv, Flags, NoThreads, OneWatchdog
<1> QED BY <1>2, <1>3

LEMMA WatchdogWatch ==
    ASSUME WatchInv, NEW n \in Nodes,
           WatchdogTimesOut(n) \/ TakesAll(n) \/ WatchdogEnds(n)
    PROVE  WatchInv'
<1>1. CASE WatchdogTimesOut(n)
  BY <1>1 DEF WatchInv, Flags, NoThreads, OneWatchdog, WatchdogTimesOut
<1>2. CASE TakesAll(n)
  BY <1>2 DEF WatchInv, Flags, NoThreads, OneWatchdog, TakesAll
<1>3. CASE WatchdogEnds(n)
  <2>1. /\ run' = run /\ waiting' = waiting
        /\ run[n] # "down" /\ ending[n] = "taken"
        /\ beat' = [beat EXCEPT ![n] = FALSE] /\ ending' = [ending EXCEPT ![n] = "no"]
    BY <1>3 DEF WatchdogEnds, BeatOff
  <2>2. waiting[n] = 0
    BY <2>1 DEF WatchInv, Flags, OneWatchdog
  <2> QED BY <2>1, <2>2 DEF WatchInv, Flags, NoThreads, OneWatchdog
<1> QED BY <1>1, <1>2, <1>3

LEMMA RunWatch ==
    ASSUME WatchInv, NEW n \in Nodes, Exits(n) \/ Crash(n) \/ Start(n)
    PROVE  WatchInv'
<1>1. CASE Exits(n) \/ Crash(n)
  <2>1. /\ run' = [run EXCEPT ![n] = "down"] /\ beat' = [beat EXCEPT ![n] = FALSE]
        /\ waiting' = [waiting EXCEPT ![n] = 0] /\ ending' = [ending EXCEPT ![n] = "no"]
    BY <1>1 DEF Exits, Crash, Down
  <2>2. Flags'
    BY <2>1 DEF WatchInv, Flags
  <2>3. NoThreads'
    BY <2>1 DEF WatchInv, Flags, NoThreads
  <2>4. OneWatchdog'
    BY <2>1 DEF WatchInv, Flags, OneWatchdog
  <2> QED BY <2>2, <2>3, <2>4 DEF WatchInv
<1>2. CASE Start(n)
  BY <1>2 DEF WatchInv, Flags, NoThreads, OneWatchdog, Start, StartWatchdog
<1> QED BY <1>1, <1>2

LEMMA NextWatch == WatchInv /\ [HaNext]_haVars => WatchInv'
<1> SUFFICES ASSUME WatchInv, [HaNext]_haVars PROVE WatchInv'
  OBVIOUS
<1>1. ASSUME NEW n \in Nodes, ProcessTake(n) \/ ProcessDrop(n) \/ HandleStatus(n)
      PROVE  WatchInv'
  BY <1>1, OthersWatch DEF ProcessTake, ProcessDrop, HandleStatus
<1>2. ASSUME NEW n \in Nodes, SendStatus(n) \/ Lose(n) \/ Overtake(n)
      PROVE  WatchInv'
  BY <1>2, OthersWatch DEF SendStatus, Lose, Overtake
<1>3. ASSUME NEW n \in Nodes, NEW i, Activate(n, i) \/ Deactivate(n, i)
      PROVE  WatchInv'
  BY <1>3, OthersWatch DEF Activate, Deactivate
<1>4. ASSUME NEW n \in Nodes, Shutdown(n)
      PROVE  WatchInv'
  BY <1>4, OthersWatch DEF Shutdown
<1>5. ASSUME NEW n \in Nodes, Autobalance(n)
      PROVE  WatchInv'
  BY <1>3, <1>5 DEF Autobalance
<1>6. CASE UNCHANGED haVars
  BY <1>6, OthersWatch DEF haVars
<1> QED
  BY <1>1, <1>2, <1>3, <1>4, <1>5, <1>6, RearmWatch, WatchdogWatch, RunWatch
  DEF HaNext, Dispatch, Watchdog

\* However the dispatcher and the watchdog interleave, a node never has two
\* watchdogs, nor none while its flag says that there is one.
THEOREM Watched == HaSpec => []OneWatchdog
<1>1. WatchInv => OneWatchdog
  BY DEF WatchInv
<1> QED BY <1>1, InitWatch, NextWatch, PTL DEF HaSpec

---------------------------------------------------------------------------
(* What a node tells of segments, in order *)

LEMMA Sizes == Count \in Nat \ {0} /\ MaxFaults \in Nat /\ Cap \in Nat \ {0}
BY CountAssumption, BoundsAssumption

LEMMA Counting ==
    ASSUME NEW G, 0 \in G, \A n \in Nat : n \in G => n + 1 \in G
    PROVE  \A n \in Nat : n \in G
<1> DEFINE T == {n \in Nat : n \notin G}
<1> SUFFICES ASSUME T # {} PROVE FALSE
  OBVIOUS
<1>1. PICK n \in T : \A m \in T : <<m, n>> \notin OpToRel(<, Nat)
  <2>1. T \subseteq Nat
    OBVIOUS
  <2> HIDE DEF T
  <2> QED BY <2>1, NatLessThanWellFounded, WFMin
<1>2. n \in Nat \ {0} /\ n - 1 \in Nat /\ n = (n - 1) + 1
  OBVIOUS
<1>3. <<n - 1, n>> \in OpToRel(<, Nat)
  BY <1>2 DEF OpToRel
<1>4. n - 1 \in G
  BY <1>1, <1>2, <1>3
<1> QED BY <1>2, <1>4

LEMMA FiniteNumbers ==
    ASSUME NEW n \in Nat, NEW S \in SUBSET (1 .. n)
    PROVE  IsFiniteSet(S) /\ Cardinality(S) \in Nat
<1>1. IsFiniteSet(1 .. n)
  BY FS_Interval
<1>2. IsFiniteSet(S)
  BY <1>1, FS_Subset
<1> QED BY <1>2, FS_CardinalityType

\* Numbers that InOrder can put in order
Orderly(S) ==
    \E order \in [1 .. Cardinality(S) -> S] :
        \A j, k \in DOMAIN order : j < k => order[j] < order[k]

\* The largest of some numbers comes last.
LEMMA OrderlyMore ==
    ASSUME NEW n \in Nat, NEW S \in SUBSET (1 .. n), Orderly(S)
    PROVE  Orderly(S \cup {n + 1})
<1> DEFINE c == Cardinality(S)
           all == S \cup {n + 1}
<1>1. IsFiniteSet(S) /\ c \in Nat
  BY FiniteNumbers
<1>2. n + 1 \notin S
  OBVIOUS
<1>3. Cardinality(all) = c + 1
  BY <1>1, <1>2, FS_AddElement
<1>4. PICK order \in [1 .. c -> S] : \A j, k \in DOMAIN order : j < k => order[j] < order[k]
  BY DEF Orderly
<1> DEFINE more == [k \in 1 .. c + 1 |-> IF k = c + 1 THEN n + 1 ELSE order[k]]
<1> HIDE DEF c
<1>5. more \in [1 .. c + 1 -> all]
  BY <1>1, <1>4
<1>6. ASSUME NEW j \in 1 .. c + 1, NEW k \in 1 .. c + 1, j < k PROVE more[j] < more[k]
  <2>1. j \in 1 .. c /\ more[j] = order[j]
    BY <1>1, <1>6
  <2>2. order[j] \in S /\ order[j] \in 1 .. n
    BY <1>4, <2>1
  <2>3. CASE k = c + 1
    BY <2>1, <2>2, <2>3
  <2>4. CASE k # c + 1
    BY <1>1, <1>4, <1>6, <2>1, <2>4
  <2> QED BY <2>3, <2>4
<1>7. \A j, k \in DOMAIN more : j < k => more[j] < more[k]
  BY <1>6
<1> HIDE DEF more
<1>8. \E o \in [1 .. c + 1 -> all] : \A j, k \in DOMAIN o : j < k => o[j] < o[k]
  BY <1>5, <1>7
<1> QED BY <1>3, <1>8 DEF Orderly

LEMMA AllOrderly ==
    ASSUME NEW n \in Nat, NEW S \in SUBSET (1 .. n)
    PROVE  Orderly(S)
<1> DEFINE G == {m \in Nat : \A T \in SUBSET (1 .. m) : Orderly(T)}
<1>1. 0 \in G
  <2>1. Orderly({})
    <3>1. <<>> \in [1 .. 0 -> {}] /\ DOMAIN <<>> = {}
      OBVIOUS
    <3> QED BY <3>1, FS_EmptySet DEF Orderly
  <2>2. 1 .. 0 = {}
    OBVIOUS
  <2> QED BY <2>1, <2>2
<1>2. ASSUME NEW m \in Nat, m \in G PROVE m + 1 \in G
  <2> SUFFICES ASSUME NEW T \in SUBSET (1 .. m + 1) PROVE Orderly(T)
    OBVIOUS
  <2>1. CASE m + 1 \notin T
    <3>1. T \in SUBSET (1 .. m)
      BY <2>1
    <3> QED BY <1>2, <3>1
  <2>2. CASE m + 1 \in T
    <3> DEFINE R == T \ {m + 1}
    <3>1. R \in SUBSET (1 .. m) /\ R \cup {m + 1} = T
      BY <2>2
    <3>2. Orderly(R)
      BY <1>2, <3>1
    <3>3. Orderly(R \cup {m + 1})
      BY <3>1, <3>2, OrderlyMore
    <3> QED BY <3>1, <3>3, Zenon
  <2> QED BY <2>1, <2>2
<1>3. n \in G
  <2> HIDE DEF G
  <2> QED BY <1>1, <1>2, Counting
<1> QED BY <1>3

LEMMA InOrderType ==
    ASSUME NEW S \in SUBSET Segments
    PROVE  /\ Cardinality(S) \in Nat
           /\ InOrder(S) \in [1 .. Cardinality(S) -> S]
<1>1. S \in SUBSET (1 .. Count) /\ Count \in Nat
  BY Sizes DEF Segments
<1>2. Cardinality(S) \in Nat
  BY <1>1, FiniteNumbers
<1>3. \E order \in [1 .. Cardinality(S) -> S] :
          \A j, k \in DOMAIN order : j < k => order[j] < order[k]
  BY <1>1, AllOrderly DEF Orderly
<1>4. InOrder(S) = CHOOSE order \in [1 .. Cardinality(S) -> S] :
                          \A j, k \in DOMAIN order : j < k => order[j] < order[k]
  BY DEF InOrder
<1> QED BY <1>2, <1>3, <1>4

LEMMA NotifyType ==
    ASSUME NEW S \in SUBSET Segments, NEW taken
    PROVE  Notify(S, taken) \in Seq(Message)
<1> DEFINE c == Cardinality(S)
           told(k) == [type |-> IF InOrder(S)[k] \in taken THEN "take" ELSE "drop",
                       segment |-> InOrder(S)[k]]
<1>1. c \in Nat /\ InOrder(S) \in [1 .. c -> S]
  BY InOrderType
<1>2. Notify(S, taken) = [k \in 1 .. c |-> told(k)]
  BY DEF Notify
<1> HIDE DEF c
<1>3. \A k \in 1 .. c : told(k) \in Message
  BY <1>1 DEF Message
<1> HIDE DEF told
<1>4. [k \in 1 .. c |-> told(k)] \in [1 .. c -> Message]
  BY <1>3
<1> QED BY <1>1, <1>2, <1>4, SeqDef

---------------------------------------------------------------------------
(* The messages in flight *)

LEMMA Bounded ==
    ASSUME NEW s
    PROVE  s \in BoundedSeq(Message, Cap) <=> s \in Seq(Message) /\ Len(s) <= Cap
<1>1. s \in BoundedSeq(Message, Cap) <=> \E m \in 0 .. Cap : s \in [1 .. m -> Message]
  BY DEF BoundedSeq, SeqOf
<1>2. ASSUME NEW m \in 0 .. Cap, s \in [1 .. m -> Message]
      PROVE  s \in Seq(Message) /\ Len(s) <= Cap
  <2>1. m \in Nat
    BY Sizes
  <2>2. s \in Seq(Message)
    BY <1>2, <2>1, SeqDef
  <2>3. Len(s) = m
    BY <1>2, <2>1, <2>2, LenProperties
  <2> QED BY <2>2, <2>3, <2>1, Sizes
<1>3. ASSUME s \in Seq(Message), Len(s) <= Cap
      PROVE  \E m \in 0 .. Cap : s \in [1 .. m -> Message]
  <2>1. Len(s) \in 0 .. Cap
    BY <1>3, LenProperties, Sizes
  <2> QED BY <1>3, <2>1, LenProperties
<1> QED BY <1>1, <1>2, <1>3

Queues == {s \in Seq(Message) : Len(s) <= Cap}

LEMMA PushedType ==
    ASSUME NEW m, NEW q \in Queues, NEW msgs \in Seq(Message)
    PROVE  Pushed(m, q, msgs) \in Queues
<1> DEFINE all == q \o msgs
           n == IF Len(all) < Cap THEN Len(all) ELSE Cap
<1>1. all \in Seq(Message) /\ Len(all) \in Nat
  BY ConcatProperties, LenProperties DEF Queues
<1>2. n \in Nat /\ n <= Len(all) /\ n <= Cap
  BY <1>1, Sizes
<1>3. Pushed(m, q, msgs) = IF run[m] = "down" THEN <<>> ELSE SubSeq(all, 1, n)
  BY DEF Pushed
<1> HIDE DEF all, n
<1>4. \A i \in 1 .. n : all[i] \in Message
  BY <1>1, <1>2, ElementOfSeq
<1>5. SubSeq(all, 1, n) \in Seq(Message) /\ Len(SubSeq(all, 1, n)) <= Cap
  BY <1>2, <1>4, SubSeqProperties, Sizes
<1>6. <<>> \in Seq(Message) /\ Len(<<>>) <= Cap
  BY EmptySeq, Sizes
<1> QED BY <1>3, <1>5, <1>6 DEF Queues

LEMMA TailType ==
    ASSUME NEW q \in Queues, q # <<>>
    PROVE  Tail(q) \in Queues /\ Head(q) \in Message
<1>1. q \in Seq(Message) /\ Len(q) \in Nat
  BY LenProperties DEF Queues
<1>2. /\ Tail(q) \in Seq(Message) /\ Head(q) \in Message
      /\ Len(Tail(q)) = Len(q) - 1
  BY <1>1, HeadTailProperties
<1>3. Len(Tail(q)) <= Cap
  BY <1>1, <1>2, Sizes DEF Queues
<1> QED BY <1>2, <1>3 DEF Queues

\* What WatchInv leaves of the types
Rest ==
    /\ active \in [Nodes -> SUBSET Segments]
    /\ rearm \in [Nodes -> BOOLEAN]
    /\ channel \in [Nodes -> Queues]
    /\ blind \subseteq Nodes
    /\ faults \in 0 .. MaxFaults

LEMMA TypesTogether ==
    ASSUME WatchInv, Rest
    PROVE  HaTypeOK
<1>1. ASSUME NEW n \in Nodes PROVE waiting[n] \in 0 .. 2
  <2>1. CASE run[n] = "down"
    BY <2>1 DEF WatchInv, NoThreads
  <2>2. CASE run[n] # "down"
    <3>1. waiting[n] \in Nat
      BY DEF WatchInv, Flags
    <3>2. \/ waiting[n] + 0 = 0 \/ waiting[n] + 0 = 1
          \/ waiting[n] + 1 = 0 \/ waiting[n] + 1 = 1
      BY <2>2 DEF WatchInv, OneWatchdog
    <3> QED BY <3>1, <3>2
  <2> QED BY <2>1, <2>2
<1>2. waiting \in [Nodes -> 0 .. 2]
  BY <1>1 DEF WatchInv, Flags
<1>3. \A n \in Nodes : channel[n] \in BoundedSeq(Message, Cap)
  BY Bounded DEF Rest, Queues
<1>4. channel \in [Nodes -> BoundedSeq(Message, Cap)]
  BY <1>3 DEF Rest
<1> QED BY <1>2, <1>4 DEF WatchInv, Flags, Rest, HaTypeOK

LEMMA InitRest ==
    ASSUME HaInit
    PROVE  Rest
<1>1. <<>> \in Queues
  BY EmptySeq, Sizes DEF Queues
<1> QED BY <1>1, Sizes DEF HaInit, Rest

LEMMA OtherNode == \A n \in Nodes : Other(n) \in Nodes /\ Other(n) # n
BY DEF Nodes, Other

LEMMA PushType ==
    ASSUME Rest, NEW n \in Nodes, NEW msgs \in Seq(Message), Push(n, msgs)
    PROVE  channel' \in [Nodes -> Queues]
<1>1. Other(n) \in Nodes
  BY OtherNode
<1>2. Pushed(Other(n), channel[Other(n)], msgs) \in Queues
  BY <1>1, PushedType DEF Rest
<1> QED BY <1>1, <1>2 DEF Rest, Push

LEMMA PullPushType ==
    ASSUME Rest, NEW n \in Nodes, channel[n] # <<>>,
           NEW msgs \in Seq(Message), PullPush(n, msgs)
    PROVE  channel' \in [Nodes -> Queues]
<1> DEFINE m == Other(n)
           pulled == [channel EXCEPT ![n] = Tail(channel[n])]
<1>1. m \in Nodes /\ m # n
  BY OtherNode
<1>2. Tail(channel[n]) \in Queues /\ channel[m] \in Queues
  BY <1>1, TailType DEF Rest
<1>3. pulled \in [Nodes -> Queues] /\ pulled[m] = channel[m]
  BY <1>1, <1>2 DEF Rest
<1>4. channel' = [pulled EXCEPT ![m] = Pushed(m, pulled[m], msgs)]
  BY <1>1 DEF Rest, PullPush
<1> HIDE DEF pulled
<1>5. Pushed(m, pulled[m], msgs) \in Queues
  BY <1>2, <1>3, PushedType
<1> QED BY <1>3, <1>4, <1>5

\* A node gives up a segment, or not.
BlindType == blind' = blind \/ \E n \in Nodes : blind' = blind \cup {n} \/ blind' = blind \ {n}

FaultsType == faults' = faults \/ Fault

LEMMA RestStep ==
    ASSUME Rest, BlindType, FaultsType,
           active' \in [Nodes -> SUBSET Segments],
           rearm' \in [Nodes -> BOOLEAN],
           channel' \in [Nodes -> Queues]
    PROVE  Rest'
<1>1. blind' \subseteq Nodes
  BY DEF Rest, BlindType
<1>2. faults' \in 0 .. MaxFaults
  BY Sizes DEF Rest, FaultsType, Fault
<1> QED BY <1>1, <1>2 DEF Rest

LEMMA EmptyType == <<>> \in Seq(Message)
BY EmptySeq

LEMMA DispatchTypes ==
    ASSUME Rest, NEW n \in Nodes, Dispatch(n)
    PROVE  Rest'
<1>1. CASE ProcessTake(n) \/ ProcessDrop(n)
  <2>1. /\ channel[n] # <<>> /\ PullPush(n, <<>>)
        /\ Head(channel[n]).type \in {"take", "drop"}
    BY <1>1 DEF ProcessTake, ProcessDrop, Pulled
  <2>2. Head(channel[n]).segment \in Segments
    <3>1. Head(channel[n]) \in Message
      BY <2>1, TailType DEF Rest
    <3> QED BY <2>1, <3>1 DEF Message
  <2>3. active' \in [Nodes -> SUBSET Segments]
    BY <1>1, <2>2 DEF Rest, ProcessTake, ProcessDrop
  <2>4. channel' \in [Nodes -> Queues]
    BY <2>1, PullPushType, EmptyType
  <2>5. rearm' = rearm /\ faults' = faults /\ BlindType
    BY <1>1 DEF ProcessTake, ProcessDrop, GivesUp, BlindType
  <2> QED BY <2>3, <2>4, <2>5, RestStep DEF Rest, FaultsType
<1>2. CASE HandleStatus(n)
  <2> DEFINE disputed == Disputed(n, Head(channel[n]).mask)
             taken == disputed \cap Responsible(n)
             dropped == disputed \ Responsible(n)
  <2>1. channel[n] # <<>> /\ active[n] \subseteq Segments
    BY <1>2 DEF HandleStatus, Pulled, Rest
  <2>2. disputed \in SUBSET Segments
    BY <2>1 DEF Disputed
  <2>3. /\ active' = [active EXCEPT ![n] = (active[n] \cup taken) \ dropped]
        /\ PullPush(n, Notify(disputed, taken))
        /\ rearm' = [rearm EXCEPT ![n] = TRUE]
        /\ blind' = IF dropped = {} THEN blind ELSE GivesUp(n)
        /\ faults' = faults
    BY <1>2 DEF HandleStatus
  <2> HIDE DEF disputed
  <2>4. active' \in [Nodes -> SUBSET Segments]
    BY <2>1, <2>2, <2>3 DEF Rest
  <2>5. Notify(disputed, taken) \in Seq(Message)
    BY <2>2, NotifyType
  <2>6. channel' \in [Nodes -> Queues]
    BY <2>1, <2>3, <2>5, PullPushType
  <2>7. BlindType
    BY <2>3 DEF BlindType, GivesUp
  <2>8. rearm' \in [Nodes -> BOOLEAN]
    BY <2>3 DEF Rest
  <2> QED BY <2>3, <2>4, <2>6, <2>7, <2>8, RestStep DEF FaultsType
<1>3. CASE Rearm(n)
  <2>1. /\ active' = active /\ channel' = channel /\ faults' = faults
        /\ rearm' = [rearm EXCEPT ![n] = FALSE] /\ BlindType
    BY <1>3 DEF Rearm, BlindType
  <2>2. rearm' \in [Nodes -> BOOLEAN]
    BY <2>1 DEF Rest
  <2> QED BY <2>1, <2>2, RestStep DEF Rest, FaultsType
<1> QED BY <1>1, <1>2, <1>3 DEF Dispatch

\* Steps that tell the other node something, or nothing, and change what a node
\* serves.
LEMMA TellsTypes ==
    ASSUME Rest, NEW n \in Nodes, NEW S \in SUBSET Segments, NEW taken,
           Push(n, Notify(S, taken)), rearm' = rearm, BlindType, FaultsType,
           active' \in [Nodes -> SUBSET Segments]
    PROVE  Rest'
<1>1. Notify(S, taken) \in Seq(Message)
  BY NotifyType
<1>2. channel' \in [Nodes -> Queues]
  BY <1>1, PushType
<1> QED BY <1>2, RestStep DEF Rest

LEMMA CommandTypes ==
    ASSUME Rest, NEW n \in Nodes, NEW i \in Segments,
           Activate(n, i) \/ Deactivate(n, i)
    PROVE  Rest'
<1>1. active' \in [Nodes -> SUBSET Segments]
  BY DEF Rest, Activate, Deactivate
<1>2. rearm' = rearm /\ BlindType /\ FaultsType
  BY DEF Activate, Deactivate, GivesUp, BlindType, FaultsType
<1>3. Push(n, Notify({i}, {i})) \/ Push(n, Notify({i}, {}))
  BY DEF Activate, Deactivate
<1>4. {i} \in SUBSET Segments
  OBVIOUS
<1> QED BY <1>1, <1>2, <1>3, <1>4, TellsTypes

LEMMA WatchdogTypes ==
    ASSUME Rest, NEW n \in Nodes, WatchdogTimesOut(n) \/ Watchdog(n)
    PROVE  Rest'
<1>1. CASE WatchdogTimesOut(n) \/ WatchdogEnds(n)
  <2>1. UNCHANGED <<active, rearm, channel, blind>> /\ FaultsType
    BY <1>1 DEF WatchdogTimesOut, WatchdogEnds, FaultsType
  <2> QED BY <2>1, RestStep DEF Rest, BlindType
<1>2. CASE TakesAll(n)
  <2>1. /\ active' = [active EXCEPT ![n] = Segments]
        /\ Push(n, Notify(Segments, Segments))
        /\ rearm' = rearm /\ blind' = blind /\ faults' = faults
    BY <1>2 DEF TakesAll
  <2>2. active' \in [Nodes -> SUBSET Segments]
    BY <2>1 DEF Rest
  <2> QED BY <2>1, <2>2, TellsTypes DEF BlindType, FaultsType
<1> QED BY <1>1, <1>2 DEF Watchdog

LEMMA StatusTypes ==
    ASSUME Rest, NEW n \in Nodes, SendStatus(n)
    PROVE  Rest'
<1> DEFINE status == [type |-> "status", mask |-> active[n]]
<1>1. status \in Message
  BY DEF Rest, Message
<1>2. Push(n, <<status>>) /\ UNCHANGED <<active, rearm, blind, faults>>
  BY DEF SendStatus
<1> HIDE DEF status
<1>3. <<status>> \in Seq(Message)
  BY <1>1
<1>4. channel' \in [Nodes -> Queues]
  BY <1>2, <1>3, PushType
<1> QED BY <1>2, <1>4, RestStep DEF Rest, BlindType, FaultsType

LEMMA ShutdownTypes ==
    ASSUME Rest, NEW n \in Nodes, Shutdown(n)
    PROVE  Rest'
<1>1. rearm' = rearm /\ BlindType /\ FaultsType
  BY DEF Shutdown, BlindType, FaultsType
<1>2. active' \in [Nodes -> SUBSET Segments]
  BY DEF Rest, Shutdown
<1>3. CASE beat[n]
  <2>1. Push(n, Notify(Segments, {}))
    BY <1>3 DEF Shutdown
  <2> QED BY <1>1, <1>2, <2>1, TellsTypes
<1>4. CASE ~beat[n]
  <2>1. Push(n, <<>>)
    BY <1>4 DEF Shutdown
  <2>2. channel' \in [Nodes -> Queues]
    BY <2>1, PushType, EmptyType
  <2> QED BY <1>1, <1>2, <2>2, RestStep DEF Rest
<1> QED BY <1>3, <1>4

LEMMA RunTypes ==
    ASSUME Rest, NEW n \in Nodes, Exits(n) \/ Crash(n) \/ Start(n)
    PROVE  Rest'
<1>1. CASE Exits(n) \/ Crash(n)
  <2>1. /\ active' = [active EXCEPT ![n] = {}] /\ rearm' = [rearm EXCEPT ![n] = FALSE]
        /\ channel' = [channel EXCEPT ![n] = <<>>]
        /\ BlindType /\ FaultsType
    BY <1>1 DEF Exits, Crash, Down, BlindType, FaultsType
  <2>2. <<>> \in Queues
    BY EmptySeq, Sizes DEF Queues
  <2>3. channel' \in [Nodes -> Queues]
    BY <2>1, <2>2 DEF Rest
  <2>4. /\ active' \in [Nodes -> SUBSET Segments]
        /\ rearm' \in [Nodes -> BOOLEAN]
    BY <2>1 DEF Rest
  <2> QED BY <2>1, <2>3, <2>4, RestStep
<1>2. CASE Start(n)
  BY <1>2, RestStep DEF Rest, Start, BlindType, FaultsType
<1> QED BY <1>1, <1>2

LEMMA NetworkTypes ==
    ASSUME Rest, NEW n \in Nodes, Lose(n) \/ Overtake(n)
    PROVE  Rest'
<1> DEFINE q == channel[n]
<1>1. /\ UNCHANGED <<active, rearm, blind>> /\ FaultsType
      /\ q \in Queues
  BY DEF Rest, Lose, Overtake, FaultsType
<1>2. CASE Lose(n)
  <2>1. Tail(q) \in Queues
    BY <1>1, <1>2, TailType DEF Lose
  <2>2. channel' \in [Nodes -> Queues]
    BY <1>2, <2>1 DEF Rest, Lose
  <2> QED BY <1>1, <2>2, RestStep DEF Rest, BlindType
<1>3. CASE Overtake(n)
  <2> DEFINE late == SubSeq(q, 3, Len(q))
             swapped == <<q[2], q[1]>> \o late
  <2>1. Len(q) > 1 /\ channel' = [channel EXCEPT ![n] = swapped]
    BY <1>3 DEF Overtake
  <2> HIDE DEF q
  <2>2. q \in Seq(Message) /\ Len(q) \in Nat /\ Len(q) <= Cap
    BY <1>1, LenProperties DEF Queues
  <2>3. \A i \in 1 .. Len(q) : q[i] \in Message
    BY <2>2, ElementOfSeq
  <2>4. <<q[2], q[1]>> \in Seq(Message) /\ Len(<<q[2], q[1]>>) = 2
    BY <2>1, <2>2, <2>3
  <2>5. \A i \in 3 .. Len(q) : q[i] \in Message
    BY <2>3
  <2>6. late \in Seq(Message) /\ Len(late) = Len(q) - 2
    BY <2>1, <2>2, <2>5, SubSeqProperties
  <2> HIDE DEF late
  <2>7. swapped \in Seq(Message) /\ Len(swapped) = Len(q)
    BY <2>2, <2>4, <2>6, ConcatProperties
  <2>8. swapped \in Queues
    BY <2>2, <2>7 DEF Queues
  <2> HIDE DEF swapped
  <2>9. channel' \in [Nodes -> Queues]
    BY <2>1, <2>8 DEF Rest
  <2> QED BY <1>1, <2>9, RestStep DEF Rest, BlindType
<1> QED BY <1>2, <1>3

LEMMA NextRest ==
    ASSUME Rest, [HaNext]_haVars
    PROVE  Rest'
<1>1. CASE UNCHANGED haVars
  BY <1>1 DEF Rest, haVars
<1>2. ASSUME NEW n \in Nodes, Autobalance(n) PROVE Rest'
  BY <1>2, CommandTypes DEF Autobalance
<1> QED
  BY <1>1, <1>2, DispatchTypes, WatchdogTypes, StatusTypes, CommandTypes, ShutdownTypes,
     RunTypes, NetworkTypes
  DEF HaNext

\* The messages in flight keep their types and number, whatever segments they
\* tell of; a node has two watchdogs at most (ha_segments.c:132-372).
THEOREM SegmentsTyped == HaSpec => []HaTypeOK
<1>1. HaInit => Rest
  BY InitRest
<1>2. Rest /\ [HaNext]_haVars => Rest'
  BY NextRest
<1>3. WatchInv /\ Rest => HaTypeOK
  BY TypesTogether
<1> QED BY <1>1, <1>2, <1>3, InitWatch, NextWatch, PTL DEF HaSpec

===========================================================================

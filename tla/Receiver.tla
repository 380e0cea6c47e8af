----------------------------- MODULE Receiver -----------------------------
(***************************************************************************)
(* What the receiver of charon does with a request for a new IKE_SA        *)
(* (network/receiver.c): ask for a cookie when there are many half-open    *)
(* IKE_SAs, change the secret of the cookies, and drop requests beyond the *)
(* limits.  The receiver is one thread and counts several times, each time *)
(* what is there then: the half-open IKE_SAs, those of the peer, the jobs  *)
(* that are queued.  Requests that pass become jobs, which other workers   *)
(* take from the queue and which open IKE_SAs meanwhile and later.         *)
(*                                                                         *)
(* A cookie is the record of what it is computed from: the hash shows only *)
(* whether it is the same.  The IKE_SA manager, the processor and the job  *)
(* that opens the IKE_SA are not in the repository.  With receive_delay    *)
(* (562-577, 0 by default) the scheduler keeps requests that are counted   *)
(* nowhere for a time that no limit bounds: not modelled.                  *)
(***************************************************************************)
EXTENDS Integers, FiniteSets

CONSTANTS Peers, NoPeer,
          Workers,             \* threads that run the jobs of requests
          Width,               \* an unsigned integer is below it (2^32 in the code)
          CookieLifetime,      \* COOKIE_LIFETIME
          CalmdownDelay,       \* COOKIE_CALMDOWN_DELAY
          CookieReuse,         \* COOKIE_REUSE
          CookieThreshold,     \* cookie_threshold, 0 for none
          BlockThreshold,      \* block_threshold, 0 for none
          InitLimitHalfOpen,   \* init_limit_half_open, 0 for none
          InitLimitJobLoad,    \* init_limit_job_load, 0 for none
          NoCookie,
          MaxNow,              \* bound: the clock stops
          MaxSecret            \* bound: no more secrets, the RNG fails

ASSUME NumbersAssumption ==
    /\ {Width, CookieLifetime, CalmdownDelay, CookieReuse, CookieThreshold,
        BlockThreshold, InitLimitHalfOpen, InitLimitJobLoad, Workers, MaxNow,
        MaxSecret} \subseteq Nat
    /\ 0 < MaxNow /\ MaxNow < Width
    /\ 0 < CookieLifetime /\ CookieLifetime < Width

ASSUME NoPeerAssumption == NoPeer \notin Peers

VARIABLES now,           \* time_monotonic(), in seconds
          secret_offset,
          secret,        \* the secret, by its number
          secret_old,
          secret_used,   \* counted to one above CookieReuse
          secret_switch,
          last_cookie,
          cookie,        \* the last cookie that reached each peer
          check,         \* what the receiver does next with its request
          asker,         \* the peer that has sent it, or NoPeer
          half_open,     \* the half-open IKE_SAs, as counted at its start
          half,          \* half-open IKE_SAs
          halfOf,        \* those of each peer
          opening,       \* requests whose job is run: counted nowhere
          openingOf,     \* those of each peer
          jobs,          \* requests that passed and are queued
          jobsOf         \* those of each peer

secretVars == <<secret, secret_old, secret_used, secret_switch>>
requestVars == <<check, asker, half_open>>
halfVars == <<half, halfOf>>
openingVars == <<opening, openingOf>>
jobVars == <<jobs, jobsOf>>
loadVars == <<halfVars, openingVars, jobVars>>
cookieVars == <<now, secret_offset, secretVars, last_cookie, cookie>>
vars == <<cookieVars, requestVars, loadVars>>

Uint == 0 .. (Width - 1)

Cookie == [t : Uint, secret : Nat]

ASSUME NoCookieAssumption == NoCookie \notin Cookie

TypeOK ==
    /\ now \in 1 .. MaxNow
    /\ secret_offset \in Uint
    /\ secret \in Nat
    /\ secret_old \in Nat
    /\ secret_used \in Nat
    /\ secret_switch \in Uint
    /\ last_cookie \in Uint
    /\ cookie \in [Peers -> Cookie \cup {NoCookie}]
    /\ check \in {"idle", "peer", "load", "queue"}
    /\ asker \in Peers \cup {NoPeer}
    /\ check # "idle" => asker # NoPeer
    /\ half_open \in Nat
    /\ half \in Nat
    /\ halfOf \in [Peers -> Nat]
    /\ opening \in 0 .. Workers
    /\ openingOf \in [Peers -> Nat]
    /\ jobs \in Nat
    /\ jobsOf \in [Peers -> Nat]

\* The offset hides the time that the system is up: random() % now.
Offsets == 0 .. (now - 1)

Init ==
    /\ now \in 1 .. MaxNow
    /\ secret_offset \in Offsets
    /\ secret = 0
    /\ secret_old = 0
    /\ secret_used = 0
    /\ secret_switch = now
    /\ last_cookie = 0
    /\ cookie = [p \in Peers |-> NoCookie]
    /\ check = "idle"
    /\ asker = NoPeer
    /\ half_open = 0
    /\ half = 0
    /\ halfOf = [p \in Peers |-> 0]
    /\ opening = 0
    /\ openingOf = [p \in Peers |-> 0]
    /\ jobs = 0
    /\ jobsOf = [p \in Peers |-> 0]

---------------------------------------------------------------------------
(* Cookies *)

\* a - b of unsigned integers
Minus(a, b) == IF a >= b THEN a - b ELSE a - b + Width

\* cookie_build(): the time of a cookie that is sent now
Sent == [t |-> Minus(now, secret_offset), secret |-> secret]

\* Were cookies never too old, they could be used while the secret lasts.
NeverExpired(c) == FALSE

\* cookie_verify(): the lifetime is over.
Expired(c) == c.t < Minus(Minus(now, secret_offset), CookieLifetime)

\* The secret that the receiver verifies the cookie with.
SecretOf(c) == IF c.t + secret_offset > secret_switch THEN secret ELSE secret_old

\* The hash over the address, the time and the secret is the same.
Verified(c) == ~Expired(c) /\ c.secret = SecretOf(c)

\* cookie_required(): many are half open, or were not long ago.
CookieRequired ==
    \/ CookieThreshold > 0 /\ half >= CookieThreshold
    \/ last_cookie > 0 /\ now < last_cookie + CalmdownDelay

LastCookie == last_cookie' = IF CookieRequired THEN now ELSE last_cookie

\* A secret that is not kept takes the cookies that are on their way with it.
OldForgotten == secret_old

\* The previous secret is kept for the cookies that are on their way.
OldKept == secret

\* After CookieReuse cookies another secret is used, if the RNG gives one.
SecretUsed ==
    IF secret_used < CookieReuse
    THEN /\ secret_used' = secret_used + 1
         /\ UNCHANGED <<secret, secret_old, secret_switch>>
    ELSE \/ /\ secret < MaxSecret
            /\ secret_old' = OldKept
            /\ secret' = secret + 1
            /\ secret_switch' = now
            /\ secret_used' = 0
         \/ /\ secret_used' = CookieReuse + 1
            /\ UNCHANGED <<secret, secret_old, secret_switch>>

---------------------------------------------------------------------------
(* Requests: drop_ike_sa_init() *)

\* The notify with a cookie reaches the peer or not.
Reached(p) == cookie' \in {cookie, [cookie EXCEPT ![p] = Sent]}

\* An IKEv2 request with no cookie, or one that does not verify, when cookies
\* are required: a cookie is sent, computed before the secret changes.
AsksForCookie(p, given) ==
    /\ check = "idle"
    /\ CookieRequired
    /\ \A c \in given : ~Verified(c)
    /\ Reached(p)
    /\ SecretUsed
    /\ LastCookie
    /\ UNCHANGED <<now, secret_offset, requestVars, loadVars>>

\* The half-open IKE_SAs are counted first (329-330), and not again.
Counted(p) ==
    /\ check = "idle"
    /\ check' = "peer"
    /\ asker' = p
    /\ half_open' = half
    /\ UNCHANGED <<now, secret_offset, secretVars, cookie, loadVars>>

\* An IKEv2 request that needs no cookie, or has one.
Passes(p, given) ==
    /\ CookieRequired => \E c \in given : Verified(c)
    /\ LastCookie
    /\ Counted(p)

\* IKE_SA_INIT of peer p, with its cookie or without.
IkeSaInit(p) ==
    \E given \in {{}, {cookie[p]} \ {NoCookie}} : AsksForCookie(p, given) \/ Passes(p, given)

\* ID_PROT or AGGRESSIVE of IKEv1: no cookies.
IkeV1Init(p) == Counted(p) /\ UNCHANGED last_cookie

\* The receiver is ready for the next request.
Ready == check' = "idle" /\ asker' = NoPeer /\ half_open' = 0

\* The peer has too many half-open IKE_SAs, counted now.
Aggressive(p) == BlockThreshold > 0 /\ halfOf[p] >= BlockThreshold

\* The limit is compared with what was counted at the start (382-383).
HalfOpenAcceptable == InitLimitHalfOpen > 0 => half_open < InitLimitHalfOpen

ChecksPeer ==
    /\ check = "peer"
    /\ IF Aggressive(asker) \/ ~HalfOpenAcceptable
       THEN Ready
       ELSE check' = "load" /\ half_open' = 0 /\ UNCHANGED asker
    /\ UNCHANGED <<cookieVars, loadVars>>

\* With the limit on what is open alone, any number of jobs may be queued.
JobsUnlimited == TRUE

\* The load of the processor is acceptable: the jobs queued so far, without
\* those that workers run.
JobLoadAcceptable == InitLimitJobLoad > 0 => jobs <= InitLimitJobLoad

ChecksLoad ==
    /\ check = "load"
    /\ IF JobLoadAcceptable THEN check' = "queue" /\ UNCHANGED <<asker, half_open>> ELSE Ready
    /\ UNCHANGED <<cookieVars, loadVars>>

\* queue_job()
QueuesJob ==
    /\ check = "queue"
    /\ jobs' = jobs + 1
    /\ jobsOf' = [jobsOf EXCEPT ![asker] = @ + 1]
    /\ Ready
    /\ UNCHANGED <<cookieVars, halfVars, openingVars>>

---------------------------------------------------------------------------
(* External: the processor, the jobs, the IKE_SAs and the clock *)

\* A worker takes a job of a request from the queue; it is busy until the
\* IKE_SA counts, and in truth longer.
JobStarts(p) ==
    /\ opening < Workers
    /\ jobs > 0 /\ jobsOf[p] > 0
    /\ jobs' = jobs - 1
    /\ jobsOf' = [jobsOf EXCEPT ![p] = @ - 1]
    /\ opening' = opening + 1
    /\ openingOf' = [openingOf EXCEPT ![p] = @ + 1]
    /\ UNCHANGED <<cookieVars, requestVars, halfVars>>

\* Its IKE_SA counts as half open from now on, or there is none.
JobOpens(p) ==
    /\ opening > 0 /\ openingOf[p] > 0
    /\ opening' = opening - 1
    /\ openingOf' = [openingOf EXCEPT ![p] = @ - 1]
    /\ \/ half' = half + 1 /\ halfOf' = [halfOf EXCEPT ![p] = @ + 1]
       \/ UNCHANGED halfVars
    /\ UNCHANGED <<cookieVars, requestVars, jobVars>>

\* An IKE_SA is established, or its peer is not heard any more.
HalfOpenEnds(p) ==
    /\ half > 0 /\ halfOf[p] > 0
    /\ half' = half - 1
    /\ halfOf' = [halfOf EXCEPT ![p] = @ - 1]
    /\ UNCHANGED <<cookieVars, requestVars, openingVars, jobVars>>

Tick ==
    /\ now < MaxNow
    /\ now' = now + 1
    /\ UNCHANGED <<secret_offset, secretVars, last_cookie, cookie, requestVars, loadVars>>

---------------------------------------------------------------------------

Next ==
    \/ \E p \in Peers : IkeSaInit(p) \/ IkeV1Init(p)
    \/ ChecksPeer \/ ChecksLoad \/ QueuesJob
    \/ \E p \in Peers : JobStarts(p) \/ JobOpens(p) \/ HalfOpenEnds(p)
    \/ Tick

Spec == Init /\ [][Next]_vars

---------------------------------------------------------------------------
(* Properties *)

Age(c) == now - (c.t + secret_offset)

Cookies == {cookie[p] : p \in Peers} \ {NoCookie}

\* A cookie that the receiver accepts is at most CookieLifetime seconds old,
\* through all changes of the secret (receiver.c:228-231).
AcceptedIsFresh == \A c \in Cookies : Verified(c) => Age(c) \in 0 .. CookieLifetime

\* A fresh cookie outlives the next change of the secret.  Three are refused
\* although they are fresh: those sent in the second of a change, after it
\* (236); those of two changes ago; and all of them before the hidden clock
\* has run for a lifetime (229, the difference of unsigned integers).
FreshIsAccepted ==
    \A c \in Cookies :
        Age(c) <= CookieLifetime =>
            \/ Verified(c)
            \/ c.secret = secret /\ c.t + secret_offset = secret_switch
            \/ c.secret + 1 < secret
            \/ now - secret_offset < CookieLifetime

\* The receiver counts what is open, then what is queued, and never what is
\* being run: the limit of half-open IKE_SAs is passed, by no more than one job
\* above the limit of the queue and one for each worker (receiver.c:329-408).
HalfOpenBounded ==
    InitLimitHalfOpen > 0 /\ InitLimitJobLoad > 0 =>
        half <= InitLimitHalfOpen + InitLimitJobLoad + 1 + Workers

===========================================================================

---------------------------- MODULE Fragments ----------------------------
(***************************************************************************)
(* IKE messages that are sent in fragments and reassembled                 *)
(* (encoding/message.c): fragment() and message_create_defrag() with       *)
(* add_fragment() of IKEv1 and of IKEv2.  The network delivers fragments   *)
(* in any order, any number of times or never; so what was sent once may   *)
(* still arrive when its message is long complete.                         *)
(*                                                                         *)
(* A split is a message with the length of its fragments.  Their content   *)
(* is the place that they have in their split; unencrypted payloads travel *)
(* with the first.  The task manager that owns the message under           *)
(* reassembly is not in the repository.                                    *)
(***************************************************************************)
EXTENDS Integers, FiniteSets, FiniteSetsExt

CONSTANTS Messages,      \* messages of one IKE_SA, by message id
          Length,        \* the length of each
          FragLens,      \* lengths that the content of a fragment may have
          MaxFragments,  \* MAX_FRAGMENTS, the most that an u_int8_t counts
          MaxPacket,     \* max_packet
          MaxSplits,     \* bound: splits that are sent
          Mixed,         \* what a mixture of splits is merged to
          Nothing        \* no result

ASSUME MessagesAssumption == Messages \subseteq Nat
ASSUME LengthAssumption == Length \in [Messages -> Nat \ {0}]
ASSUME FragLensAssumption == FragLens \subseteq Nat \ {0}
ASSUME LimitsAssumption ==
    MaxFragments \in Nat \ {0} /\ MaxPacket \in Nat /\ MaxSplits \in Nat

Split == [msg : Messages, len : FragLens]

\* How many fragments fragment() makes: one more for the rest
Count(sp) ==
    Length[sp.msg] \div sp.len + (IF Length[sp.msg] % sp.len = 0 THEN 0 ELSE 1)

Fragment == [of : Split, place : Nat \ {0}]

FragmentsOf(sp) == {[of |-> sp, place |-> i] : i \in 1 .. Count(sp)}

SizeOf(f) ==
    IF f.place < Count(f.of) THEN f.of.len
    ELSE Length[f.of.msg] - (Count(f.of) - 1) * f.of.len

VARIABLES version,  \* 1 or 2, of the IKE_SA
          splits,   \* splits that were sent
          defrag,   \* the message under reassembly
          result    \* the message that was reassembled last

vars == <<version, splits, defrag, result>>

Sent == UNION {FragmentsOf(sp) : sp \in splits}

\* The number that a fragment carries: IKEv1 has 8 bits for it.
NumberOf(f) == IF version = 1 THEN f.place % (MaxFragments + 1) ELSE f.place

\* What tells the messages of an IKE_SA apart: of IKEv1 fragments nothing
\* does, fragment_payload_create_from_data() calls every message 1.
NoId == 0
IdOf(f) == IF version = 1 THEN 1 ELSE f.of.msg

\* Of a merged message: the split that it is, or a mixture
Merged(fragments) ==
    IF \E sp \in Split : fragments = FragmentsOf(sp)
    THEN CHOOSE sp \in Split : fragments = FragmentsOf(sp)
    ELSE Mixed

\* plain: how often the unencrypted payloads of a first fragment were moved to
\* the message (bound: twice or more is 2)
NoMessage == [state |-> "none", id |-> NoId, last |-> 0, len |-> 0, fragments |-> {}, plain |-> 0]

Reassembly == [state : {"none", "open", "spent"}, id : Nat, last : Nat, len : Nat,
               fragments : SUBSET Fragment, plain : 0 .. 2]

NoResult == [id |-> NoId, split |-> Nothing, plain |-> 0]

TypeOK ==
    /\ version \in {1, 2}
    /\ splits \subseteq Split
    /\ defrag \in Reassembly
    /\ result \in [id : Nat, split : Split \cup {Nothing, Mixed}, plain : 0 .. 2]

Init ==
    /\ version \in {1, 2}
    /\ splits = {}
    /\ defrag = NoMessage
    /\ result = NoResult

---------------------------------------------------------------------------
(* The sender *)

\* fragment(): a message is sent in fragments of a length.  A peer may do so
\* again with another length; charon repeats what it has.
Sends(sp) ==
    /\ Cardinality(splits) < MaxSplits
    /\ splits' = splits \cup {sp}
    /\ UNCHANGED <<version, defrag, result>>

---------------------------------------------------------------------------
(* The receiver *)

\* Mutant: the length is left to count on
ResetKeepsLen(d) == [d EXCEPT !.fragments = {}, !.last = 0]

\* reset_defrag()
Reset(d) == [d EXCEPT !.fragments = {}, !.last = 0, !.len = 0]

\* message_create_defrag() for the first fragment that comes
Created(f) == [NoMessage EXCEPT !.state = "open", !.id = IF version = 1 THEN NoId ELSE IdOf(f)]

Under(f) == IF defrag.state = "none" THEN Created(f) ELSE defrag

\* IKEv1: another message begins, or the number of the last fragment is known.
BegunV1(d, f) ==
    LET begun == IF d.fragments = {} \/ d.id # IdOf(f)
                 THEN [Reset(d) EXCEPT !.id = IdOf(f)] ELSE d
    IN  IF begun.last = 0 /\ f.place = Count(f.of)
        THEN [begun EXCEPT !.last = NumberOf(f)] ELSE begun

\* Mutant: each fragment begins the message anew
StartsAnewAlways(d, f) == Count(f.of) >= d.last

\* IKEv2: the message was split again, in more fragments.
StartsAnew(d, f) == d.fragments = {} \/ Count(f.of) > d.last

BegunV2(d, f) ==
    IF StartsAnew(d, f) THEN [Reset(d) EXCEPT !.last = Count(f.of)] ELSE d

Begun(f) == IF version = 1 THEN BegunV1(Under(f), f) ELSE BegunV2(Under(f), f)

Duplicate(d, f) == \E g \in d.fragments : NumberOf(g) = NumberOf(f)

TooLarge(d, f) == d.len + SizeOf(f) > MaxPacket

\* add_fragment(), and for IKEv2 the payloads that come with the first
Added(d, f) ==
    [d EXCEPT !.fragments = @ \cup {f},
              !.len = @ + SizeOf(f),
              !.plain = IF version = 2 /\ f.place = 1 /\ @ < 2 THEN @ + 1 ELSE @]

\* Mutant: nothing is missing once the last fragment is there
CompleteAtLast(d, f) == f.place = Count(f.of)

\* As many as there are to be, by the fragment that came last or, for IKEv1,
\* by the one that called itself the last.
Complete(d, f) ==
    Cardinality(d.fragments) = IF version = 1 THEN d.last ELSE Count(f.of)

\* merge_fragments(): the message is processed; or, of IKEv1, its header makes
\* no sense, and the message accepts no fragments any more.
Merges(d) ==
    \/ /\ result' = [id |-> d.id, split |-> Merged(d.fragments), plain |-> d.plain]
       /\ defrag' = NoMessage
    \/ /\ version = 1 /\ Merged(d.fragments) = Mixed
       /\ defrag' = [NoMessage EXCEPT !.state = "spent"]
       /\ UNCHANGED result

\* add_fragment_v1() and add_fragment_v2(), from where the fragment is stored
Adds(d, f) ==
    \/ /\ Duplicate(d, f)
       /\ defrag' = d /\ UNCHANGED result
    \/ /\ ~Duplicate(d, f) /\ TooLarge(d, f)
       /\ defrag' = Reset(d) /\ UNCHANGED result
    \/ /\ ~Duplicate(d, f) /\ ~TooLarge(d, f)
       /\ IF Complete(Added(d, f), f) THEN Merges(Added(d, f))
          ELSE defrag' = Added(d, f) /\ UNCHANGED result

\* A fragment of another message is refused, or one of too many.
Refused(f) ==
    /\ version = 2
    /\ IF Under(f).id # IdOf(f) THEN UNCHANGED defrag
       ELSE Count(f.of) > MaxFragments /\ defrag' = Reset(Under(f))
    /\ UNCHANGED result

\* A fragment arrives.  One with the number 0 is not a payload.
Receives(f) ==
    /\ f \in Sent
    /\ NumberOf(f) # 0
    /\ defrag.state # "spent"
    /\ \/ Refused(f)
       \/ /\ version = 2 => Under(f).id = IdOf(f) /\ Count(f.of) <= MaxFragments
          /\ Adds(Begun(f), f)
    /\ UNCHANGED <<version, splits>>

\* External: the owner has no use for the message any more.
OwnerDrops ==
    /\ defrag.state # "none"
    /\ defrag' = NoMessage
    /\ UNCHANGED <<version, splits, result>>

---------------------------------------------------------------------------

Next ==
    \/ \E sp \in Split : Sends(sp)
    \/ \E f \in Sent : Receives(f)
    \/ OwnerDrops

Spec == Init /\ [][Next]_vars

\* What is sent is repeated until it arrives.
FairSpec ==
    /\ Spec
    /\ \A sp \in Split : \A i \in 1 .. Count(sp) : WF_vars(Receives([of |-> sp, place |-> i]))

---------------------------------------------------------------------------
(* Properties *)

\* The splits that a reassembled message of an id may be taken from
Sources(id) == {sp \in splits : version = 2 => sp.msg = id}

\* The fragments of a split have numbers of their own.
Numbered(sp) == Count(sp) <= MaxFragments

\* A message that was reassembled from fragments of one split
Alone(sp) == result # NoResult /\ Sources(result.id) = {sp} /\ Numbered(sp)

Whole == \A sp \in splits : Alone(sp) => result.split = sp

PlainOnce ==
    \A sp \in splits : Alone(sp) => result.plain = (IF version = 1 THEN 0 ELSE 1)

\* A message that was split once, and alone if it is IKEv1, is reassembled as
\* it was sent, with its unencrypted payloads once, whatever order its
\* fragments came in and how often (message.c:2706-2900).  Of several splits
\* it may be a mixture: IKEv1 calls every message 1 (fragment_payload.c:219),
\* and a fragment of an earlier IKEv2 split is not told from one of the later
\* (message.c:2863).
Intact == Whole /\ PlainOnce

\* What is held of a message, mixture or not, is what its length says, and
\* never more than max_packet.
HeldIsBounded ==
    /\ defrag.len = MapThenSumSet(SizeOf, defrag.fragments)
    /\ defrag.len <= MaxPacket

\* It fits into what the receiver keeps.
Fits(sp) == Numbered(sp) /\ Length[sp.msg] <= MaxPacket

\* If one split is all that is sent, and the owner does not drop it again and
\* again, then the message comes to be complete.
Completes ==
    \A sp \in Split :
        /\ Fits(sp)
        /\ [](splits \subseteq {sp}) /\ <>(splits = {sp})
        /\ <>[][~OwnerDrops]_vars
        => <>(result.split = sp)

===========================================================================

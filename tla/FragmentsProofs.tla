------------------------- MODULE FragmentsProofs -------------------------
(***************************************************************************)
(* Proofs about the reassembly of fragments, for all messages, lengths and *)
(* limits: its types, that what is reassembled from one split is that      *)
(* split, whole, and that no more is held than the limit.                  *)
(*                                                                         *)
(* Whole says nothing of a message that is not complete yet.  HeldIsSent   *)
(* does: what is held was sent and belongs to the message under            *)
(* reassembly; LastIsSent says that its last number is that of a last      *)
(* fragment.  The rest is counting: fragments of one split that are as     *)
(* many as the split has are all of them.                                  *)
(*                                                                         *)
(* That the length of what is held is the sum of its sizes needs the value *)
(* of a recursive function: it counts the pairs of a fragment and one of   *)
(* its units, which is shown by induction over subsets.                    *)
(***************************************************************************)
EXTENDS Fragments, FiniteSetTheorems, WellFoundedInduction, TLAPS

HeldIsSent(d) ==
    \A f \in d.fragments : f \in Sent /\ IdOf(f) = d.id

LastIsSent(d) ==
    version = 1 /\ d.last # 0 =>
        \E f \in Sent : f.place = Count(f.of) /\ d.last = NumberOf(f)

Good(d) == d \in Reassembly /\ HeldIsSent(d) /\ LastIsSent(d)

\* A result has fragments that it came from.
ResultHasSource == result # NoResult => Sources(result.id) # {}

IInv == TypeOK /\ Good(defrag) /\ ResultHasSource /\ Whole

---------------------------------------------------------------------------
(* Numbers and sizes *)

LEMMA Division ==
    ASSUME NEW a \in Nat, NEW b \in Nat \ {0}
    PROVE  /\ a \div b \in Nat /\ a % b \in Nat
           /\ (a \div b) * b + (a % b) = a
           /\ a % b < b
           /\ a < b => a % b = a
OBVIOUS

LEMMA CountType ==
    ASSUME NEW sp \in Split
    PROVE  Count(sp) \in Nat \ {0} /\ (Count(sp) - 1) * sp.len <= Length[sp.msg]
<1> DEFINE L == Length[sp.msg]  l == sp.len
<1>1. L \in Nat \ {0} /\ l \in Nat \ {0}
  BY LengthAssumption, FragLensAssumption DEF Split
<1>2. /\ L \div l \in Nat /\ L % l \in Nat
      /\ (L \div l) * l + (L % l) = L
  BY <1>1, Division
<1> DEFINE q == L \div l  r == L % l
<1>3. Count(sp) = q + (IF r = 0 THEN 0 ELSE 1)
  BY DEF Count
<1>4. q \in Nat /\ r \in Nat /\ q * l + r = L
  BY <1>2
<1> HIDE DEF L, l, q, r
<1>5. r = 0 => q # 0
  BY <1>1, <1>4
<1>6. Count(sp) \in Nat \ {0}
  BY <1>3, <1>4, <1>5
<1>7. (Count(sp) - 1) * l <= L
  <2>1. CASE r = 0
    <3>1. (q - 1) * l = q * l - l
      BY <1>1, <1>4
    <3>2. q * l \in Nat
      BY <1>1, <1>4
    <3> QED BY <2>1, <3>1, <3>2, <1>1, <1>3, <1>4
  <2>2. CASE r # 0
    <3>1. Count(sp) - 1 = q
      BY <2>2, <1>3, <1>4
    <3>2. q * l \in Nat
      BY <1>1, <1>4
    <3> QED BY <3>1, <3>2, <1>1, <1>4
  <2> QED BY <2>1, <2>2
<1> QED BY <1>6, <1>7 DEF L, l

LEMMA SizeType ==
    ASSUME NEW f \in Fragment
    PROVE  SizeOf(f) \in Nat
<1>1. f.of \in Split /\ f.of.len \in Nat
  BY FragLensAssumption DEF Fragment, Split
<1>2. Length[f.of.msg] \in Nat
  BY <1>1, LengthAssumption DEF Split
<1>3. /\ Count(f.of) \in Nat \ {0}
      /\ (Count(f.of) - 1) * f.of.len <= Length[f.of.msg]
  BY <1>1, CountType
<1>4. (Count(f.of) - 1) * f.of.len \in Nat
  BY <1>1, <1>3
<1> QED BY <1>1, <1>2, <1>3, <1>4 DEF SizeOf

LEMMA NumberType ==
    ASSUME NEW f \in Fragment
    PROVE  /\ NumberOf(f) \in Nat
           /\ f.place <= MaxFragments => NumberOf(f) = f.place
<1>1. f.place \in Nat /\ MaxFragments + 1 \in Nat \ {0}
  BY LimitsAssumption DEF Fragment
<1>2. /\ f.place % (MaxFragments + 1) \in Nat
      /\ f.place < MaxFragments + 1 => f.place % (MaxFragments + 1) = f.place
  BY <1>1, Division
<1> QED BY <1>1, <1>2, LimitsAssumption DEF NumberOf

---------------------------------------------------------------------------
(* The fragments of a split *)

LEMMA SentType ==
    ASSUME TypeOK, NEW f \in Sent
    PROVE  /\ f \in Fragment /\ f.of \in splits
           /\ f \in FragmentsOf(f.of) /\ f.place \in 1 .. Count(f.of)
<1>1. PICK sp \in splits : f \in FragmentsOf(sp)
  BY DEF Sent
<1>2. sp \in Split
  BY DEF TypeOK
<1>3. PICK i \in 1 .. Count(sp) : f = [of |-> sp, place |-> i]
  BY <1>1 DEF FragmentsOf
<1>4. i \in Nat \ {0}
  BY <1>2, CountType
<1> QED BY <1>1, <1>2, <1>3, <1>4 DEF Fragment

LEMMA FragmentsCounted ==
    ASSUME NEW sp \in Split
    PROVE  IsFiniteSet(FragmentsOf(sp)) /\ Cardinality(FragmentsOf(sp)) = Count(sp)
<1> DEFINE n == Count(sp)
           b == [i \in 1 .. n |-> [of |-> sp, place |-> i]]
<1>1. n \in Nat
  BY CountType
<1>2. IsFiniteSet(1 .. n) /\ Cardinality(1 .. n) = n
  BY <1>1, FS_Interval
<1>3. b \in Bijection(1 .. n, FragmentsOf(sp))
  BY DEF Bijection, Injection, Surjection, IsInjective, FragmentsOf
<1>4. ExistsBijection(1 .. n, FragmentsOf(sp))
  BY <1>3 DEF ExistsBijection
<1> QED BY <1>2, <1>4, FS_Bijection

\* As many fragments of a split as it has are all of them.
LEMMA AllOfThem ==
    ASSUME NEW sp \in Split, NEW F, F \subseteq FragmentsOf(sp),
           Cardinality(F) = Count(sp)
    PROVE  F = FragmentsOf(sp)
BY FragmentsCounted, FS_Subset

\* All of them make the split again.
LEMMA MergedSplit ==
    ASSUME NEW sp \in Split
    PROVE  Merged(FragmentsOf(sp)) = sp
<1>1. ASSUME NEW other \in Split, FragmentsOf(other) = FragmentsOf(sp)
      PROVE  other = sp
  <2>1. 1 \in 1 .. Count(sp)
    BY CountType
  <2>2. [of |-> sp, place |-> 1] \in FragmentsOf(other)
    BY <2>1, <1>1 DEF FragmentsOf
  <2> QED BY <2>2 DEF FragmentsOf
<1> QED BY <1>1 DEF Merged

---------------------------------------------------------------------------
(* The message under reassembly *)

LEMMA NoMessageGood == Good(NoMessage) /\ Good([NoMessage EXCEPT !.state = "spent"])
BY DEF Good, HeldIsSent, LastIsSent, NoMessage, NoId, Reassembly

LEMMA ResetGood ==
    ASSUME NEW d, Good(d)
    PROVE  Good(Reset(d)) /\ Reset(d).id = d.id /\ Reset(d).fragments = {}
BY DEF Good, HeldIsSent, LastIsSent, Reset, Reassembly

LEMMA IdType ==
    ASSUME TypeOK, NEW f \in Sent
    PROVE  IdOf(f) \in Nat
BY SentType, MessagesAssumption DEF IdOf, Fragment, Split

LEMMA UnderGood ==
    ASSUME TypeOK, Good(defrag), NEW f \in Sent
    PROVE  Good(Under(f))
<1>1. Good(Created(f))
  <2> DEFINE c == Created(f)
             id == IF version = 1 THEN NoId ELSE IdOf(f)
  <2>1. id \in Nat
    BY IdType DEF NoId
  <2> HIDE DEF id
  <2>2. c = [NoMessage EXCEPT !.state = "open", !.id = id]
    BY DEF Created, id
  <2> HIDE DEF c
  <2>3. NoMessage \in Reassembly /\ NoMessage.fragments = {} /\ NoMessage.last = 0
    BY NoMessageGood DEF Good, NoMessage
  <2>4. c \in Reassembly /\ c.fragments = {} /\ c.last = 0
    BY <2>1, <2>2, <2>3 DEF Reassembly
  <2>5. HeldIsSent(c) /\ LastIsSent(c)
    BY <2>4 DEF HeldIsSent, LastIsSent
  <2> QED BY <2>4, <2>5 DEF Good, c
<1> QED BY <1>1 DEF Under

LEMMA BegunGoodV1 ==
    ASSUME TypeOK, version = 1, NEW f \in Sent, NEW d, Good(d)
    PROVE  Good(BegunV1(d, f)) /\ BegunV1(d, f).id = IdOf(f)
<1> DEFINE anew == [Reset(d) EXCEPT !.id = IdOf(f)]
           begun == IF d.fragments = {} \/ d.id # IdOf(f) THEN anew ELSE d
<1>1. Good(begun) /\ begun.id = IdOf(f)
  <2>1. Good(anew) /\ anew.id = IdOf(f)
    BY IdType, ResetGood DEF Good, HeldIsSent, LastIsSent, Reset, Reassembly
  <2> QED BY <2>1
<1>2. NumberOf(f) \in Nat
  BY SentType, NumberType
<1>3. ASSUME f.place = Count(f.of)
      PROVE  Good([begun EXCEPT !.last = NumberOf(f)])
  BY <1>1, <1>2, <1>3 DEF Good, HeldIsSent, LastIsSent, Reassembly
<1>4. [begun EXCEPT !.last = NumberOf(f)].id = IdOf(f)
  BY <1>1 DEF Good, Reassembly
<1>5. BegunV1(d, f) = IF begun.last = 0 /\ f.place = Count(f.of)
                      THEN [begun EXCEPT !.last = NumberOf(f)] ELSE begun
  BY DEF BegunV1
<1> HIDE DEF begun
<1> QED BY <1>1, <1>3, <1>4, <1>5

LEMMA BegunGoodV2 ==
    ASSUME TypeOK, version = 2, NEW f \in Sent, NEW d, Good(d), d.id = IdOf(f)
    PROVE  Good(BegunV2(d, f)) /\ BegunV2(d, f).id = IdOf(f)
<1>1. Count(f.of) \in Nat
  BY SentType, CountType DEF Fragment
<1>2. Good([Reset(d) EXCEPT !.last = Count(f.of)])
  <2> DEFINE b == [Reset(d) EXCEPT !.last = Count(f.of)]
  <2>1. Reset(d) \in Reassembly /\ Reset(d).fragments = {}
    BY ResetGood DEF Good
  <2>2. b \in Reassembly /\ b.fragments = {}
    BY <1>1, <2>1 DEF Reassembly
  <2> HIDE DEF b
  <2>3. HeldIsSent(b) /\ LastIsSent(b)
    BY <2>2 DEF HeldIsSent, LastIsSent
  <2> QED BY <2>2, <2>3 DEF Good, b
<1>3. [Reset(d) EXCEPT !.last = Count(f.of)].id = IdOf(f)
  BY ResetGood DEF Good, Reassembly
<1> QED BY <1>2, <1>3 DEF BegunV2

LEMMA BegunGood ==
    ASSUME TypeOK, Good(defrag), NEW f \in Sent, version = 2 => Under(f).id = IdOf(f)
    PROVE  Good(Begun(f)) /\ Begun(f).id = IdOf(f)
<1>1. CASE version = 1
  BY <1>1, UnderGood, BegunGoodV1 DEF Begun
<1>2. CASE version # 1
  <2>1. version = 2
    BY <1>2 DEF TypeOK
  <2> QED BY <1>2, <2>1, UnderGood, BegunGoodV2 DEF Begun
<1> QED BY <1>1, <1>2

LEMMA AddedGood ==
    ASSUME TypeOK, NEW f \in Sent, NEW d, Good(d), d.id = IdOf(f)
    PROVE  /\ Good(Added(d, f)) /\ Added(d, f).id = d.id
           /\ f \in Added(d, f).fragments
<1>1. SizeOf(f) \in Nat /\ f \in Fragment
  BY SentType, SizeType
<1> DEFINE a == Added(d, f)
<1>2. /\ a \in Reassembly /\ a.id = d.id /\ a.last = d.last
      /\ a.fragments = d.fragments \cup {f}
  <2> DEFINE p == IF version = 2 /\ f.place = 1 /\ d.plain < 2 THEN d.plain + 1 ELSE d.plain
  <2>1. d \in Reassembly /\ p \in 0 .. 2
    BY DEF Good, Reassembly
  <2> HIDE DEF p
  <2>2. a = [d EXCEPT !.fragments = d.fragments \cup {f},
                      !.len = d.len + SizeOf(f), !.plain = p]
    BY <2>1 DEF Added, Reassembly, p
  <2>3. d.fragments \cup {f} \in SUBSET Fragment /\ d.len + SizeOf(f) \in Nat
    BY <1>1, <2>1 DEF Reassembly
  <2> QED BY <2>1, <2>2, <2>3 DEF Reassembly
<1> HIDE DEF a
<1>3. HeldIsSent(a) /\ LastIsSent(a)
  BY <1>2 DEF Good, HeldIsSent, LastIsSent
<1> QED BY <1>2, <1>3 DEF Good, a

---------------------------------------------------------------------------
(* What is merged *)

\* All fragments of the only split that a message was sent in make it up.
LEMMA MergedWhole ==
    ASSUME TypeOK, NEW d, Good(d), NEW f \in d.fragments, Complete(d, f),
           NEW sp \in splits, Sources(d.id) = {sp}, Numbered(sp)
    PROVE  Merged(d.fragments) = sp
<1>1. sp \in Split /\ Count(sp) \in Nat \ {0}
  BY CountType DEF TypeOK
<1>2. ASSUME NEW g \in Sent, version = 2 => IdOf(g) = d.id
      PROVE  g.of = sp
  BY <1>2, SentType DEF Sources, IdOf
<1>3. \A g \in d.fragments : g \in Sent /\ g.of = sp
  BY <1>2 DEF Good, HeldIsSent
<1>4. d.fragments \subseteq FragmentsOf(sp)
  BY <1>3, SentType
<1>5. Cardinality(d.fragments) = Count(sp)
  <2>1. CASE version = 1
    <3>1. Cardinality(d.fragments) = d.last
      BY <2>1 DEF Complete
    <3>2. Cardinality(d.fragments) # 0
      <4>1. IsFiniteSet(d.fragments)
        BY <1>1, <1>4, FragmentsCounted, FS_Subset
      <4> QED BY <4>1, FS_EmptySet
    <3>3. PICK g \in Sent : g.place = Count(g.of) /\ d.last = NumberOf(g)
      BY <2>1, <3>1, <3>2 DEF Good, LastIsSent
    <3>4. g.of = sp /\ g \in Fragment
      BY <2>1, <1>2, SentType
    <3>5. NumberOf(g) = Count(sp)
      BY <3>3, <3>4, NumberType DEF Numbered
    <3> QED BY <3>1, <3>3, <3>5
  <2>2. CASE version # 1
    BY <2>2, <1>3 DEF Complete
  <2> QED BY <2>1, <2>2
<1> QED BY <1>1, <1>4, <1>5, AllOfThem, MergedSplit

---------------------------------------------------------------------------
(* Steps *)

\* A fragment of the message that is complete: it names a source.
LEMMA MergesIInv ==
    ASSUME IInv, NEW d, Good(d), NEW f \in d.fragments, Complete(d, f),
           Merges(d), UNCHANGED <<version, splits>>
    PROVE  IInv'
<1>1. /\ TypeOK /\ d \in Reassembly /\ f \in Sent /\ IdOf(f) = d.id
      /\ version' = version /\ splits' = splits
  BY DEF IInv, Good, HeldIsSent
<1>2. f.of \in Sources(d.id)
  BY <1>1, SentType DEF Sources, IdOf
<1>3. CASE /\ result' = [id |-> d.id, split |-> Merged(d.fragments), plain |-> d.plain]
           /\ defrag' = NoMessage
  <2>1. Merged(d.fragments) \in Split \cup {Nothing, Mixed}
    BY DEF Merged
  <2>2. TypeOK'
    BY <1>1, <1>3, <2>1, NoMessageGood DEF TypeOK, Good, Reassembly
  <2>3. Good(defrag)'
    BY <1>1, <1>3, NoMessageGood
    DEF Good, HeldIsSent, LastIsSent, Sent, NumberOf, IdOf, NoMessage
  <2>4. Sources(result.id)' = Sources(d.id)
    BY <1>1, <1>3 DEF Sources
  <2>5. ResultHasSource'
    BY <1>2, <2>4 DEF ResultHasSource
  <2>6. Whole'
    BY <1>1, <1>3, <2>4, MergedWhole DEF Whole, Alone, Numbered
  <2> QED BY <2>2, <2>3, <2>5, <2>6 DEF IInv
<1>4. CASE /\ defrag' = [NoMessage EXCEPT !.state = "spent"]
           /\ UNCHANGED result
  <2>1. TypeOK'
    BY <1>1, <1>4, NoMessageGood DEF TypeOK, Good
  <2>2. Good(defrag)'
    BY <1>1, <1>4, NoMessageGood
    DEF Good, HeldIsSent, LastIsSent, Sent, NumberOf, IdOf, NoMessage
  <2>3. ResultHasSource' /\ Whole'
    BY <1>1, <1>4 DEF IInv, ResultHasSource, Whole, Alone, Sources
  <2> QED BY <2>1, <2>2, <2>3 DEF IInv
<1> QED BY <1>3, <1>4 DEF Merges

\* What only changes what is held to something good keeps the invariant.
LEMMA HeldIInv ==
    ASSUME IInv, NEW d, Good(d), defrag' = d, UNCHANGED <<version, splits, result>>
    PROVE  IInv'
<1>1. TypeOK'
  BY DEF IInv, TypeOK, Good
<1>2. Good(defrag)'
  BY DEF Good, HeldIsSent, LastIsSent, Sent, NumberOf, IdOf
<1>3. ResultHasSource' /\ Whole'
  BY DEF IInv, ResultHasSource, Whole, Alone, Sources
<1> QED BY <1>1, <1>2, <1>3 DEF IInv

LEMMA AddsIInv ==
    ASSUME IInv, NEW f \in Sent, NEW d, Good(d), d.id = IdOf(f),
           Adds(d, f), UNCHANGED <<version, splits>>
    PROVE  IInv'
<1>1. CASE defrag' = d /\ UNCHANGED result
  BY <1>1, HeldIInv
<1>2. CASE defrag' = Reset(d) /\ UNCHANGED result
  BY <1>2, HeldIInv, ResetGood
<1>3. Good(Added(d, f)) /\ f \in Added(d, f).fragments
  BY AddedGood DEF IInv
<1>4. CASE Complete(Added(d, f), f) /\ Merges(Added(d, f))
  BY <1>3, <1>4, MergesIInv
<1>5. CASE defrag' = Added(d, f) /\ UNCHANGED result
  BY <1>3, <1>5, HeldIInv
<1> QED BY <1>1, <1>2, <1>4, <1>5 DEF Adds

LEMMA ReceivesIInv ==
    ASSUME IInv, NEW f, Receives(f)
    PROVE  IInv'
<1>1. f \in Sent /\ TypeOK /\ Good(defrag) /\ Good(Under(f)) /\ UNCHANGED <<version, splits>>
  BY UnderGood DEF Receives, IInv
<1>2. CASE Refused(f)
  <2>1. CASE UNCHANGED <<defrag, result>>
    BY <1>1, <2>1, HeldIInv
  <2>2. CASE defrag' = Reset(Under(f)) /\ UNCHANGED result
    BY <1>1, <2>2, HeldIInv, ResetGood
  <2> QED BY <1>2, <2>1, <2>2 DEF Refused
<1>3. CASE /\ version = 2 => Under(f).id = IdOf(f) /\ Count(f.of) <= MaxFragments
           /\ Adds(Begun(f), f)
  <2>1. Good(Begun(f)) /\ Begun(f).id = IdOf(f)
    BY <1>1, <1>3, BegunGood
  <2> QED BY <1>1, <1>3, <2>1, AddsIInv
<1> QED BY <1>2, <1>3 DEF Receives

\* More splits may end that a message has only one source, and begin nothing.
LEMMA SendsIInv ==
    ASSUME IInv, NEW sp \in Split, Sends(sp)
    PROVE  IInv'
<1>1. /\ splits' = splits \cup {sp} /\ version' = version
      /\ defrag' = defrag /\ result' = result
  BY DEF Sends
<1>2. Sent \subseteq Sent'
  BY <1>1 DEF Sent
<1>3. TypeOK'
  BY <1>1 DEF IInv, TypeOK
<1>4. Good(defrag)'
  BY <1>1, <1>2 DEF IInv, Good, HeldIsSent, LastIsSent, IdOf, NumberOf
<1>5. Sources(result.id) \subseteq Sources(result.id)'
  BY <1>1 DEF Sources
<1>6. ResultHasSource'
  BY <1>1, <1>5 DEF IInv, ResultHasSource
<1>7. Whole'
  <2> SUFFICES ASSUME NEW one \in splits', Alone(one)'
               PROVE  result'.split = one
    BY DEF Whole
  <2>1. Sources(result.id)' = {one} /\ result # NoResult /\ Numbered(one)
    BY <1>1 DEF Alone, Numbered
  <2>2. Sources(result.id) = {one}
    BY <1>5, <2>1 DEF IInv, ResultHasSource
  <2>3. one \in splits
    BY <2>2 DEF Sources
  <2> QED BY <1>1, <2>1, <2>2, <2>3 DEF IInv, Whole, Alone
<1> QED BY <1>3, <1>4, <1>6, <1>7 DEF IInv

LEMMA InitIInv == Init => IInv
BY NoMessageGood
DEF Init, IInv, TypeOK, Good, ResultHasSource, Whole, Alone, NoResult, NoId

LEMMA NextIInv == IInv /\ [Next]_vars => IInv'
<1> SUFFICES ASSUME IInv, [Next]_vars PROVE IInv'
  OBVIOUS
<1>1. ASSUME NEW sp \in Split, Sends(sp) PROVE IInv'
  BY <1>1, SendsIInv
<1>2. ASSUME NEW f \in Sent, Receives(f) PROVE IInv'
  BY <1>2, ReceivesIInv
<1>3. CASE OwnerDrops
  BY <1>3, HeldIInv, NoMessageGood DEF OwnerDrops
<1>4. CASE UNCHANGED vars
  BY <1>4, HeldIInv DEF vars, IInv
<1> QED BY <1>1, <1>2, <1>3, <1>4 DEF Next

---------------------------------------------------------------------------
(* Lengths of what is held of one split *)

FirstOf(sp) == [of |-> sp, place |-> 1]
LastOf(sp) == [of |-> sp, place |-> Count(sp)]

\* What the last fragment lacks of the length of the others
Slack(sp) == Count(sp) * sp.len - Length[sp.msg]

HeldLen(F, sp) ==
    Cardinality(F) * sp.len - (IF LastOf(sp) \in F THEN Slack(sp) ELSE 0)

LEMMA Products ==
    ASSUME NEW l \in Nat, NEW a \in Nat, NEW b \in Nat
    PROVE  /\ a * l \in Nat
           /\ a <= b => a * l <= b * l
           /\ (a + 1) * l = a * l + l
           /\ a # 0 => (a - 1) * l = a * l - l
<1>1. a * l \in Nat /\ b * l \in Nat /\ (a + 1) * l = a * l + l
  OBVIOUS
<1>2. ASSUME a <= b PROVE a * l <= b * l
  <2>1. (b - a) \in Nat /\ (b - a) * l = b * l - a * l
    BY <1>2
  <2>2. (b - a) * l >= 0
    BY <2>1
  <2> QED BY <2>1, <2>2, <1>1
<1>3. (a - 1) * l = a * l - l
  OBVIOUS
<1> QED BY <1>1, <1>2, <1>3

LEMMA SplitType ==
    ASSUME NEW sp \in Split
    PROVE  /\ sp.len \in Nat /\ Length[sp.msg] \in Nat
           /\ Count(sp) \in Nat \ {0} /\ Slack(sp) \in Int
           /\ FirstOf(sp) \in FragmentsOf(sp) /\ LastOf(sp) \in FragmentsOf(sp)
<1>1. sp.len \in Nat /\ Length[sp.msg] \in Nat /\ Count(sp) \in Nat \ {0}
  BY LengthAssumption, FragLensAssumption, CountType DEF Split
<1>2. Count(sp) * sp.len \in Nat
  BY <1>1, Products
<1>3. FirstOf(sp) \in FragmentsOf(sp) /\ LastOf(sp) \in FragmentsOf(sp)
  BY <1>1 DEF FirstOf, LastOf, FragmentsOf
<1> QED BY <1>1, <1>2, <1>3 DEF Slack

LEMMA HeldFinite ==
    ASSUME NEW sp \in Split, NEW F, F \subseteq FragmentsOf(sp)
    PROVE  /\ IsFiniteSet(F) /\ Cardinality(F) \in Nat
           /\ Cardinality(F) <= Count(sp)
           /\ LastOf(sp) \notin F => Cardinality(F) <= Count(sp) - 1
<1>1. IsFiniteSet(FragmentsOf(sp)) /\ Cardinality(FragmentsOf(sp)) = Count(sp)
  BY FragmentsCounted
<1>2. /\ IsFiniteSet(F) /\ Cardinality(F) \in Nat /\ Cardinality(F) <= Count(sp)
  BY <1>1, FS_Subset, FS_CardinalityType
<1>3. Cardinality(F) = Count(sp) => LastOf(sp) \in F
  BY AllOfThem, SplitType
<1> QED BY <1>2, <1>3, SplitType

\* No more is held of a split than its message has.
LEMMA HeldAtMost ==
    ASSUME NEW sp \in Split, NEW F, F \subseteq FragmentsOf(sp)
    PROVE  HeldLen(F, sp) <= Length[sp.msg]
<1> DEFINE n == Cardinality(F)  m == Count(sp)  l == sp.len  L == Length[sp.msg]
<1>1. n \in Nat /\ n <= m /\ (LastOf(sp) \notin F => n <= m - 1)
  BY HeldFinite
<1>2. m \in Nat \ {0} /\ l \in Nat /\ L \in Nat /\ (m - 1) * l <= L
  BY SplitType, CountType
<1>3. n * l \in Nat /\ m * l \in Nat /\ (m - 1) * l \in Nat
  BY <1>1, <1>2, Products
<1>4. n * l <= m * l
  BY <1>1, <1>2, Products
<1>5. CASE LastOf(sp) \in F
  <2>1. HeldLen(F, sp) = n * l - (m * l - L)
    BY <1>5 DEF HeldLen, Slack
  <2> HIDE DEF n, m, l, L
  <2> QED BY <2>1, <1>2, <1>3, <1>4 DEF L
<1>6. CASE LastOf(sp) \notin F
  <2>1. HeldLen(F, sp) = n * l
    BY <1>3, <1>6 DEF HeldLen
  <2>2. m - 1 \in Nat /\ n <= m - 1
    BY <1>1, <1>2, <1>6
  <2> HIDE DEF n, m, l, L
  <2>3. n * l <= (m - 1) * l
    BY <2>2, <1>1, <1>2, Products
  <2> QED BY <2>1, <2>3, <1>2, <1>3 DEF L
<1> QED BY <1>5, <1>6

\* Another fragment adds its size.
LEMMA HeldMore ==
    ASSUME NEW sp \in Split, NEW F, F \subseteq FragmentsOf(sp),
           NEW f \in FragmentsOf(sp), f \notin F
    PROVE  HeldLen(F \cup {f}, sp) = HeldLen(F, sp) + SizeOf(f)
<1> DEFINE n == Cardinality(F)  m == Count(sp)  l == sp.len  L == Length[sp.msg]
<1>1. n \in Nat /\ Cardinality(F \cup {f}) = n + 1
  BY HeldFinite, FS_AddElement
<1>2. m \in Nat \ {0} /\ l \in Nat /\ L \in Nat
  BY SplitType
<1>3. f.of = sp /\ f.place \in 1 .. m /\ (f = LastOf(sp) <=> f.place = m)
  BY <1>2 DEF FragmentsOf, LastOf
<1>4. SizeOf(f) = IF f.place < m THEN l ELSE L - (m - 1) * l
  BY <1>3 DEF SizeOf
<1>5. HeldLen(F, sp) = n * l - (IF LastOf(sp) \in F THEN Slack(sp) ELSE 0)
  BY DEF HeldLen
<1>6. HeldLen(F \cup {f}, sp) =
        (n + 1) * l - (IF LastOf(sp) \in F \cup {f} THEN Slack(sp) ELSE 0)
  BY <1>1 DEF HeldLen
<1>7. /\ n * l \in Nat /\ m * l \in Nat
      /\ (n + 1) * l = n * l + l /\ (m - 1) * l = m * l - l
  BY <1>1, <1>2, Products
<1>8. Slack(sp) = m * l - L /\ Slack(sp) \in Int
  BY SplitType DEF Slack
<1> HIDE DEF n, m, l, L
<1>9. CASE f = LastOf(sp)
  <2>1. SizeOf(f) = L - (m * l - l)
    BY <1>9, <1>2, <1>3, <1>4, <1>7
  <2>2. HeldLen(F \cup {f}, sp) = n * l + l - Slack(sp)
    <3>1. LastOf(sp) \in F \cup {f}
      BY <1>9
    <3>2. HeldLen(F \cup {f}, sp) = (n + 1) * l - Slack(sp)
      BY <3>1, <1>6
    <3> QED BY <3>2, <1>1, <1>2, <1>7, <1>8
  <2>3. HeldLen(F, sp) = n * l - 0
    BY <1>9, <1>5
  <2> QED BY <2>1, <2>2, <2>3, <1>2, <1>7, <1>8
<1>10. CASE f # LastOf(sp)
  <2>1. SizeOf(f) = l
    BY <1>10, <1>2, <1>3, <1>4
  <2>2. (LastOf(sp) \in F \cup {f}) <=> (LastOf(sp) \in F)
    BY <1>10
  <2> QED BY <2>1, <2>2, <1>2, <1>5, <1>6, <1>7, <1>8
<1> QED BY <1>9, <1>10

---------------------------------------------------------------------------
(* The unencrypted payloads *)

\* Of a message of one split, that fits, the payloads have been moved just when
\* the first fragment is held.
Tidy(d, sp) ==
    /\ d.len = HeldLen(d.fragments, sp)
    /\ d.fragments # {} => d.last = Count(sp)
    /\ Length[sp.msg] <= MaxPacket =>
          d.plain = IF FirstOf(sp) \in d.fragments THEN 1 ELSE 0

\* The only split of a message, with numbers for all its fragments
Only(id, sp) == Sources(id) = {sp} /\ Numbered(sp)

Orderly(d) ==
    /\ version = 1 => d.plain = 0
    /\ version = 2 => \A sp \in splits : Only(d.id, sp) => Tidy(d, sp)
    /\ version = 2 => Sources(d.id) # {} \/ d = NoMessage

PlainInv == Orderly(defrag) /\ PlainOnce

LEMMA HeldNothing ==
    ASSUME NEW sp \in Split
    PROVE  HeldLen({}, sp) = 0 /\ FirstOf(sp) \notin {}
BY SplitType, FS_EmptySet DEF HeldLen

\* What is held of a message is of its only split.
LEMMA HeldOfOnly ==
    ASSUME TypeOK, version = 2, NEW sp \in splits, NEW d, Good(d), Only(d.id, sp)
    PROVE  d.fragments \subseteq FragmentsOf(sp)
<1>1. ASSUME NEW g \in d.fragments PROVE g \in FragmentsOf(sp)
  <2>1. g \in Sent /\ g.of.msg = d.id
    BY DEF Good, HeldIsSent, IdOf
  <2>2. g.of \in splits /\ g \in FragmentsOf(g.of)
    BY <2>1, SentType
  <2> QED BY <2>1, <2>2 DEF Only, Sources
<1> QED BY <1>1

LEMMA OrderlyNothing == TypeOK => Orderly(NoMessage)
<1> SUFFICES ASSUME TypeOK PROVE Orderly(NoMessage)
  OBVIOUS
<1>1. ASSUME NEW sp \in splits PROVE Tidy(NoMessage, sp)
  <2>1. sp \in Split
    BY DEF TypeOK
  <2> QED BY <2>1, HeldNothing DEF Tidy, NoMessage
<1> QED BY <1>1 DEF Orderly, NoMessage

\* A message under reassembly that was begun by a fragment f of it
LEMMA OrderlyUnder ==
    ASSUME TypeOK, version = 2, Good(defrag), Orderly(defrag), NEW f \in Sent
    PROVE  Orderly(Under(f))
<1>1. CASE defrag.state = "none"
  <2> DEFINE c == Created(f)
  <2>1. /\ c.fragments = {} /\ c.len = 0 /\ c.plain = 0 /\ c.id = f.of.msg
    BY DEF Created, NoMessage, IdOf
  <2>2. Under(f) = c
    BY <1>1 DEF Under
  <2>3. f.of \in Sources(c.id)
    BY <2>1, SentType DEF Sources
  <2> HIDE DEF c
  <2>4. ASSUME NEW sp \in splits PROVE Tidy(c, sp)
    <3>1. sp \in Split
      BY DEF TypeOK
    <3> QED BY <2>1, <3>1, HeldNothing DEF Tidy
  <2> QED BY <2>2, <2>3, <2>4 DEF Orderly
<1>2. CASE defrag.state # "none"
  BY <1>2 DEF Under
<1> QED BY <1>1, <1>2

\* An only split never begins anew.
LEMMA TidyBegun ==
    ASSUME TypeOK, version = 2, NEW f \in Sent, NEW d, Good(d), d.id = IdOf(f),
           Only(d.id, f.of), Tidy(d, f.of)
    PROVE  Tidy(BegunV2(d, f), f.of) /\ BegunV2(d, f).last = Count(f.of)
<1> DEFINE sp == f.of
<1>1. sp \in Split /\ Count(sp) \in Nat \ {0}
  BY SentType, CountType DEF TypeOK
<1>2. CASE d.fragments = {}
  <2> DEFINE b == [Reset(d) EXCEPT !.last = Count(sp)]
  <2>1. BegunV2(d, f) = b
    BY <1>2 DEF BegunV2, StartsAnew
  <2>2. /\ b.last = Count(sp) /\ b.len = 0 /\ b.fragments = {} /\ b.plain = d.plain
    BY DEF Reset, Good, Reassembly
  <2>3. Length[sp.msg] <= MaxPacket => d.plain = 0
    BY <1>2 DEF Tidy
  <2> HIDE DEF b
  <2> QED BY <1>1, <2>1, <2>2, <2>3, HeldNothing DEF Tidy
<1>3. CASE d.fragments # {}
  <2>1. d.last = Count(sp)
    BY <1>3 DEF Tidy
  <2>2. ~StartsAnew(d, f)
    BY <1>1, <1>3, <2>1 DEF StartsAnew
  <2> QED BY <2>1, <2>2 DEF BegunV2
<1> QED BY <1>2, <1>3

LEMMA TidyAdded ==
    ASSUME TypeOK, version = 2, NEW f \in Sent, NEW d, Good(d), d.id = IdOf(f),
           Only(d.id, f.of), Tidy(d, f.of), d.last = Count(f.of), ~Duplicate(d, f)
    PROVE  /\ Tidy(Added(d, f), f.of)
           /\ TooLarge(d, f) => Length[f.of.msg] > MaxPacket
           /\ Added(d, f).len = d.len + SizeOf(f)
<1> DEFINE sp == f.of  F == d.fragments  a == Added(d, f)
<1>1. sp \in splits /\ sp \in Split /\ f \in FragmentsOf(sp) /\ f \in Fragment
  BY SentType DEF TypeOK
<1>2. F \subseteq FragmentsOf(sp)
  BY <1>1, HeldOfOnly
<1>3. f \notin F
  BY DEF Duplicate
<1>4. F \cup {f} \subseteq FragmentsOf(sp)
  BY <1>1, <1>2
<1>5. HeldLen(F \cup {f}, sp) = d.len + SizeOf(f)
  BY <1>1, <1>2, <1>3, HeldMore DEF Tidy
<1>6. HeldLen(F \cup {f}, sp) <= Length[sp.msg]
  BY <1>1, <1>4, HeldAtMost
<1>7. d.len \in Nat /\ SizeOf(f) \in Nat /\ Length[sp.msg] \in Nat /\ MaxPacket \in Nat
  BY <1>1, SizeType, SplitType, LimitsAssumption DEF Good, Reassembly
<1>8. TooLarge(d, f) => Length[sp.msg] > MaxPacket
  BY <1>5, <1>6, <1>7 DEF TooLarge
<1>9. /\ a.fragments = F \cup {f} /\ a.len = d.len + SizeOf(f) /\ a.last = d.last
      /\ a.plain = IF f.place = 1 /\ d.plain < 2 THEN d.plain + 1 ELSE d.plain
  BY DEF Added, Good, Reassembly
<1>10. f = FirstOf(sp) <=> f.place = 1
  BY <1>1 DEF FragmentsOf, FirstOf
<1>11. Length[sp.msg] <= MaxPacket =>
         a.plain = IF FirstOf(sp) \in F \cup {f} THEN 1 ELSE 0
  <2> SUFFICES ASSUME Length[sp.msg] <= MaxPacket
               PROVE  a.plain = IF FirstOf(sp) \in F \cup {f} THEN 1 ELSE 0
    OBVIOUS
  <2>1. d.plain = IF FirstOf(sp) \in F THEN 1 ELSE 0
    BY DEF Tidy
  <2> QED BY <1>3, <1>9, <1>10, <2>1
<1> HIDE DEF a
<1>12. Tidy(a, sp)
  BY <1>5, <1>9, <1>11 DEF Tidy
<1> QED BY <1>8, <1>9, <1>12 DEF a

LEMMA TidyReset ==
    ASSUME NEW sp \in Split, NEW d \in Reassembly, Length[sp.msg] > MaxPacket
    PROVE  Tidy(Reset(d), sp)
<1>1. Reset(d).fragments = {} /\ Reset(d).len = 0
  BY DEF Reset, Reassembly
<1>2. ~(Length[sp.msg] <= MaxPacket)
  BY SplitType, LimitsAssumption
<1> QED BY <1>1, <1>2, HeldNothing DEF Tidy

\* A message that is complete fits, and has its payloads.
LEMMA CompletePlain ==
    ASSUME TypeOK, version = 2, NEW f \in Sent, NEW a, Good(a), f \in a.fragments,
           Only(a.id, f.of), Tidy(a, f.of), a.len <= MaxPacket, Complete(a, f)
    PROVE  a.plain = 1
<1> DEFINE sp == f.of  F == a.fragments
<1>1. sp \in splits /\ sp \in Split
  BY SentType DEF TypeOK
<1>2. F \subseteq FragmentsOf(sp)
  BY <1>1, HeldOfOnly
<1>3. Cardinality(F) = Count(sp)
  BY DEF Complete
<1>4. F = FragmentsOf(sp)
  BY <1>1, <1>2, <1>3, AllOfThem
<1>5. FirstOf(sp) \in F /\ LastOf(sp) \in F
  BY <1>1, <1>4, SplitType
<1>6. HeldLen(F, sp) = Count(sp) * sp.len - (Count(sp) * sp.len - Length[sp.msg])
  BY <1>3, <1>5 DEF HeldLen, Slack
<1>7. Count(sp) * sp.len \in Nat /\ Length[sp.msg] \in Nat
  BY <1>1, SplitType, Products
<1>8. HeldLen(F, sp) = Length[sp.msg]
  BY <1>6, <1>7
<1> QED BY <1>5, <1>8 DEF Tidy

---------------------------------------------------------------------------
(* Steps, for the payloads *)

\* A reassembly that has a fragment of its message is orderly if it is tidy.
LEMMA OrderlyByTidy ==
    ASSUME TypeOK, version = 2, NEW f \in Sent, NEW d, d.id = IdOf(f),
           Only(d.id, f.of) => Tidy(d, f.of)
    PROVE  Orderly(d)
<1>1. f.of \in Sources(d.id)
  BY SentType DEF Sources, IdOf
<1>2. \A sp \in splits : Only(d.id, sp) => sp = f.of
  BY <1>1 DEF Only
<1> QED BY <1>1, <1>2 DEF Orderly

LEMMA OrderlyKept ==
    ASSUME NEW d, Orderly(d), PlainOnce, defrag' = d, UNCHANGED <<version, splits, result>>
    PROVE  PlainInv'
<1>1. Orderly(defrag)'
  BY DEF Orderly, Only, Tidy, Sources
<1>2. PlainOnce'
  BY DEF PlainOnce, Alone, Sources
<1> QED BY <1>1, <1>2 DEF PlainInv

\* IKEv1 moves no payloads.
LEMMA PlainV1 ==
    ASSUME IInv, PlainInv, version = 1, NEW f, Receives(f)
    PROVE  PlainInv'
<1>1. defrag.plain = 0 /\ version' = version /\ splits' = splits
  BY DEF PlainInv, Orderly, Receives
<1>2. defrag \in Reassembly /\ TypeOK
  BY DEF IInv, TypeOK
<1>3. Adds(Begun(f), f)
  BY DEF Receives, Refused
<1>4. Begun(f).plain = 0 /\ Begun(f) \in Reassembly
  <2>1. Begun(f) \in Reassembly
    BY BegunGood DEF IInv, Good, Receives
  <2>2. Under(f).plain = 0
    BY <1>1 DEF Under, Created, NoMessage
  <2>3. Under(f) \in Reassembly
    BY UnderGood DEF IInv, Good, Receives
  <2>4. Begun(f) = BegunV1(Under(f), f)
    BY DEF Begun
  <2>5. BegunV1(Under(f), f).plain = Under(f).plain
    BY <2>3 DEF BegunV1, Reset, Reassembly
  <2> QED BY <2>1, <2>2, <2>4, <2>5
<1>5. Added(Begun(f), f).plain = 0 /\ Reset(Begun(f)).plain = 0
  BY <1>4 DEF Added, Reset, Reassembly
<1>6. defrag'.plain = 0
  BY <1>3, <1>4, <1>5 DEF Adds, Merges, NoMessage
<1>7. UNCHANGED result \/ result'.plain = 0
  BY <1>3, <1>5 DEF Adds, Merges
<1>8. Orderly(defrag)'
  BY <1>1, <1>6 DEF Orderly
<1>9. PlainOnce'
  BY <1>1, <1>7 DEF PlainInv, PlainOnce, Alone, Sources
<1> QED BY <1>8, <1>9 DEF PlainInv

LEMMA PlainRefused ==
    ASSUME IInv, PlainInv, version = 2, NEW f \in Sent, Refused(f),
           UNCHANGED <<version, splits>>
    PROVE  PlainInv'
<1>1. TypeOK /\ Good(defrag) /\ Orderly(defrag) /\ PlainOnce /\ UNCHANGED result
  BY DEF IInv, PlainInv, Refused
<1>2. CASE UNCHANGED defrag
  BY <1>1, <1>2, OrderlyKept
<1>3. CASE /\ Under(f).id = IdOf(f) /\ Count(f.of) > MaxFragments
           /\ defrag' = Reset(Under(f))
  <2>1. Reset(Under(f)).id = IdOf(f)
    BY <1>1, <1>3, UnderGood, ResetGood
  <2>2. ~Numbered(f.of)
    BY <1>1, <1>3, SentType, CountType, LimitsAssumption DEF Numbered, TypeOK
  <2>3. Orderly(Reset(Under(f)))
    BY <1>1, <2>1, <2>2, OrderlyByTidy DEF Only
  <2> QED BY <1>1, <1>3, <2>3, OrderlyKept
<1> QED BY <1>2, <1>3 DEF Refused

LEMMA PlainAdds ==
    ASSUME IInv, PlainInv, version = 2, NEW f \in Sent, Under(f).id = IdOf(f),
           Adds(Begun(f), f), UNCHANGED <<version, splits>>
    PROVE  PlainInv'
<1> DEFINE u == Under(f)  d == Begun(f)  a == Added(d, f)  sp == f.of
<1>1. TypeOK /\ Good(defrag) /\ Orderly(defrag) /\ PlainOnce /\ sp \in splits /\ sp \in Split
  BY SentType DEF IInv, PlainInv, TypeOK
<1>2. Good(u) /\ Orderly(u) /\ u.id = IdOf(f)
  BY <1>1, UnderGood, OrderlyUnder
<1>3. Good(d) /\ d.id = IdOf(f) /\ d = BegunV2(u, f)
  BY <1>1, BegunGood DEF Begun
<1>4. Only(d.id, sp) => Tidy(d, sp) /\ d.last = Count(sp)
  <2> SUFFICES ASSUME Only(d.id, sp) PROVE Tidy(d, sp) /\ d.last = Count(sp)
    OBVIOUS
  <2>1. Only(u.id, sp) /\ Tidy(u, sp)
    BY <1>1, <1>2, <1>3 DEF Orderly
  <2> QED BY <1>1, <1>2, <1>3, <2>1, TidyBegun
<1>5. Good(a) /\ a.id = IdOf(f) /\ f \in a.fragments
  BY <1>1, <1>3, AddedGood
<1>6. d.len + SizeOf(f) \in Int /\ MaxPacket \in Int
  BY <1>1, <1>3, SentType, SizeType, LimitsAssumption DEF Good, Reassembly
<1> HIDE DEF u, d, a
<1>7. CASE defrag' = d /\ UNCHANGED result
  <2>1. Orderly(d)
    BY <1>1, <1>3, <1>4, OrderlyByTidy
  <2> QED BY <1>1, <1>7, <2>1, OrderlyKept
<1>8. CASE /\ ~Duplicate(d, f) /\ TooLarge(d, f)
           /\ defrag' = Reset(d) /\ UNCHANGED result
  <2>1. Reset(d).id = IdOf(f) /\ d \in Reassembly
    BY <1>3, ResetGood DEF Good
  <2>2. Only(d.id, sp) => Tidy(Reset(d), sp)
    BY <1>1, <1>3, <1>4, <1>8, <2>1, TidyAdded, TidyReset
  <2>3. Orderly(Reset(d))
    BY <1>1, <1>3, <2>1, <2>2, OrderlyByTidy
  <2> QED BY <1>1, <1>8, <2>3, OrderlyKept
<1>9. CASE ~Duplicate(d, f) /\ ~TooLarge(d, f)
  <2>1. Only(a.id, sp) => Tidy(a, sp) /\ a.len <= MaxPacket
    <3> SUFFICES ASSUME Only(a.id, sp) PROVE Tidy(a, sp) /\ a.len <= MaxPacket
      OBVIOUS
    <3>1. Tidy(a, sp) /\ a.len = d.len + SizeOf(f)
      BY <1>1, <1>3, <1>4, <1>5, <1>9, TidyAdded DEF a
    <3> QED BY <1>6, <1>9, <3>1 DEF TooLarge
  <2>2. CASE defrag' = a /\ UNCHANGED result
    <3>1. Orderly(a)
      BY <1>1, <1>5, <2>1, OrderlyByTidy
    <3> QED BY <1>1, <2>2, <3>1, OrderlyKept
  <2>3. CASE Complete(a, f) /\ Merges(a)
    <3>1. defrag' = NoMessage
      BY <2>3 DEF Merges
    <3>2. Orderly(defrag)'
      BY <1>1, <3>1, OrderlyNothing DEF Orderly, Only, Tidy, Sources
    <3>3. result' = [id |-> a.id, split |-> Merged(a.fragments), plain |-> a.plain]
      BY <2>3 DEF Merges
    <3>4. Sources(result.id)' = Sources(a.id)
      BY <3>3 DEF Sources
    <3>5. f.of \in Sources(a.id)
      BY <1>1, <1>5 DEF Sources, IdOf
    <3>6. ASSUME NEW one \in splits', Alone(one)'
          PROVE  result'.plain = 1
      <4>1. Only(a.id, one) /\ one = sp
        BY <3>4, <3>5, <3>6 DEF Only, Alone, Numbered
      <4>2. a.plain = 1
        BY <1>1, <1>5, <2>1, <2>3, <4>1, CompletePlain
      <4> QED BY <3>3, <4>2
    <3>7. PlainOnce'
      BY <3>6 DEF PlainOnce
    <3> QED BY <3>2, <3>7 DEF PlainInv
  <2> QED BY <1>9, <2>2, <2>3 DEF Adds, a, d
<1> QED BY <1>7, <1>8, <1>9 DEF Adds, a, d

\* A split that is sent may be the first of its message, or one too many.
LEMMA PlainSends ==
    ASSUME IInv, PlainInv, NEW sp \in Split, Sends(sp)
    PROVE  PlainInv'
<1>1. /\ splits' = splits \cup {sp} /\ version' = version
      /\ defrag' = defrag /\ result' = result
  BY DEF Sends
<1>2. \A id \in Nat : Sources(id) \subseteq Sources(id)'
  BY <1>1 DEF Sources
<1>3. defrag.id \in Nat /\ result.id \in Nat /\ TypeOK
  BY DEF IInv, TypeOK, Reassembly
<1>4. Orderly(defrag)'
  <2>1. ASSUME version = 2, NEW one \in splits', Only(defrag.id, one)'
        PROVE  Tidy(defrag, one)
    <3>1. one \in Split
      BY <1>1, <1>3 DEF TypeOK
    <3>2. Sources(defrag.id) \subseteq {one} /\ Numbered(one)
      BY <1>1, <2>1 DEF Only, Numbered, Sources
    <3>3. CASE Sources(defrag.id) = {}
      <4>1. defrag = NoMessage
        BY <2>1, <3>3 DEF PlainInv, Orderly
      <4> QED BY <3>1, <4>1, HeldNothing DEF Tidy, NoMessage
    <3>4. CASE Sources(defrag.id) # {}
      <4>1. Only(defrag.id, one) /\ one \in splits
        BY <3>2, <3>4 DEF Only, Sources
      <4> QED BY <2>1, <4>1 DEF PlainInv, Orderly
    <3> QED BY <3>3, <3>4
  <2>2. version = 2 => Sources(defrag.id)' # {} \/ defrag = NoMessage
    BY <1>1 DEF PlainInv, Orderly, Sources
  <2> QED BY <1>1, <2>1, <2>2 DEF PlainInv, Orderly, Tidy
<1>5. PlainOnce'
  <2> SUFFICES ASSUME NEW one \in splits', Alone(one)'
               PROVE  result'.plain = (IF version' = 1 THEN 0 ELSE 1)
    BY DEF PlainOnce
  <2>1. /\ Sources(result.id)' = {one} /\ result # NoResult /\ Numbered(one)
        /\ Sources(result.id) \subseteq Sources(result.id)'
    BY <1>1 DEF Alone, Numbered, Sources
  <2>2. Sources(result.id) = {one}
    BY <2>1 DEF IInv, ResultHasSource
  <2>3. one \in splits
    BY <2>2 DEF Sources
  <2> QED BY <1>1, <2>1, <2>2, <2>3 DEF PlainInv, PlainOnce, Alone
<1> QED BY <1>4, <1>5 DEF PlainInv

LEMMA InitPlain == Init => PlainInv
<1> SUFFICES ASSUME Init PROVE PlainInv
  OBVIOUS
<1>1. TypeOK
  BY InitIInv DEF IInv
<1> QED BY <1>1, OrderlyNothing DEF Init, PlainInv, PlainOnce

LEMMA NextPlain == IInv /\ PlainInv /\ [Next]_vars => PlainInv'
<1> SUFFICES ASSUME IInv, PlainInv, [Next]_vars PROVE PlainInv'
  OBVIOUS
<1>1. ASSUME NEW sp \in Split, Sends(sp) PROVE PlainInv'
  BY <1>1, PlainSends
<1>2. ASSUME NEW f \in Sent, Receives(f) PROVE PlainInv'
  <2>1. CASE version = 1
    BY <1>2, <2>1, PlainV1
  <2>2. CASE version # 1
    <3>1. version = 2
      BY <2>2 DEF IInv, TypeOK
    <3> QED BY <1>2, <3>1, PlainRefused, PlainAdds DEF Receives
  <2> QED BY <2>1, <2>2
<1>3. CASE OwnerDrops
  <2>1. Orderly(NoMessage) /\ PlainOnce
    BY OrderlyNothing DEF IInv, PlainInv
  <2> QED BY <1>3, <2>1, OrderlyKept DEF OwnerDrops
<1>4. CASE UNCHANGED vars
  BY <1>4, OrderlyKept DEF vars, PlainInv
<1> QED BY <1>1, <1>2, <1>3, <1>4 DEF Next

---------------------------------------------------------------------------
(* The sum of the lengths *)

\* The units of length that fragments have: what the sum of their lengths counts
Row(f) == {f} \X (1 .. SizeOf(f))
Units(S) == UNION {Row(f) : f \in S}

LEMMA RowCounted ==
    ASSUME NEW f \in Fragment
    PROVE  IsFiniteSet(Row(f)) /\ Cardinality(Row(f)) = SizeOf(f)
<1> DEFINE n == SizeOf(f)
           b == [i \in 1 .. n |-> <<f, i>>]
<1>1. n \in Nat
  BY SizeType
<1>2. IsFiniteSet(1 .. n) /\ Cardinality(1 .. n) = n
  BY <1>1, FS_Interval
<1>3. b \in Bijection(1 .. n, Row(f))
  BY DEF Bijection, Injection, Surjection, IsInjective, Row
<1>4. ExistsBijection(1 .. n, Row(f))
  BY <1>3 DEF ExistsBijection
<1> QED BY <1>2, <1>4, FS_Bijection

LEMMA UnitsOfNone == Units({}) = {} /\ IsFiniteSet({}) /\ Cardinality({}) = 0
BY FS_EmptySet DEF Units

LEMMA UnitsAdd ==
    ASSUME NEW S \in SUBSET Fragment, NEW f \in Fragment, f \notin S,
           IsFiniteSet(Units(S))
    PROVE  /\ IsFiniteSet(Units(S \cup {f}))
           /\ Cardinality(Units(S \cup {f})) = Cardinality(Units(S)) + SizeOf(f)
<1>1. Units(S \cup {f}) = Units(S) \cup Row(f)
  BY DEF Units
<1>2. Units(S) \cap Row(f) = {}
  BY DEF Units, Row
<1>3. IsFiniteSet(Row(f)) /\ Cardinality(Row(f)) = SizeOf(f)
  BY RowCounted
<1>4. Cardinality(Units(S)) \in Nat /\ SizeOf(f) \in Nat
  BY SizeType, FS_CardinalityType
<1>5. Cardinality(Units(S) \cap Row(f)) = 0
  BY <1>2, FS_EmptySet
<1>6. /\ IsFiniteSet(Units(S) \cup Row(f))
      /\ Cardinality(Units(S) \cup Row(f)) =
            Cardinality(Units(S)) + Cardinality(Row(f)) - Cardinality(Units(S) \cap Row(f))
  BY <1>3, FS_Union
<1>7. Cardinality(Units(S \cup {f})) = Cardinality(Units(S)) + SizeOf(f) - 0
  BY <1>1, <1>3, <1>5, <1>6
<1>8. Cardinality(Units(S \cup {f})) = Cardinality(Units(S)) + SizeOf(f)
  BY <1>4, <1>7
<1>9. IsFiniteSet(Units(S \cup {f}))
  BY <1>1, <1>6, Zenon
<1> QED BY <1>8, <1>9

\* Induction over the subsets of a finite set, the good ones being a set: of
\* those that are not good none would be the smallest.
LEMMA SubsetInduction ==
    ASSUME NEW S, IsFiniteSet(S), NEW G, {} \in G,
           \A x \in SUBSET S : x # {} => \E f \in x : x \ {f} \in G => x \in G
    PROVE  \A x \in SUBSET S : x \in G
<1> DEFINE T == {x \in SUBSET S : x \notin G}
<1> SUFFICES ASSUME T # {} PROVE FALSE
  OBVIOUS
<1>1. T \subseteq FiniteSubsetsOf(S)
  BY FS_Subset DEF FiniteSubsetsOf
<1>2. PICK x \in T : \A y \in T : <<y, x>> \notin StrictSubsetOrdering(S)
  <2> HIDE DEF T
  <2> QED BY <1>1, FS_StrictSubsetOrderingWellFounded, WFMin
<1>3. PICK f \in x : x \ {f} \in G => x \in G
  OBVIOUS
<1>4. x \ {f} \in G
  <2>1. <<x \ {f}, x>> \in StrictSubsetOrdering(S)
    BY DEF StrictSubsetOrdering
  <2>2. x \ {f} \notin T
    BY <1>2, <2>1
  <2> QED BY <2>2
<1> QED BY <1>3, <1>4

\* A sum that is made from one fragment after the other counts their units.
SumsOf(S, g) ==
    g = [s \in SUBSET S |->
            IF s = {} THEN 0
            ELSE SizeOf(CHOOSE x \in s : TRUE) + g[s \ {CHOOSE x \in s : TRUE}]]

LEMMA UnitsFinite ==
    ASSUME NEW S \in SUBSET Fragment, IsFiniteSet(S)
    PROVE  \A s \in SUBSET S : IsFiniteSet(Units(s))
<1> DEFINE G == {s \in SUBSET S : IsFiniteSet(Units(s))}
<1>1. {} \in G
  BY UnitsOfNone
<1>2. ASSUME NEW x \in SUBSET S, NEW f \in x, x \ {f} \in G PROVE x \in G
  <2>1. IsFiniteSet(Units((x \ {f}) \cup {f}))
    BY <1>2, UnitsAdd
  <2>2. (x \ {f}) \cup {f} = x
    OBVIOUS
  <2>3. IsFiniteSet(Units(x))
    BY <2>1, <2>2, Zenon
  <2> QED BY <2>3
<1>3. \A s \in SUBSET S : s \in G
  <2>1. \A x \in SUBSET S : x # {} => \E f \in x : x \ {f} \in G => x \in G
    BY <1>2
  <2> HIDE DEF G
  <2> QED BY <1>1, <2>1, SubsetInduction
<1> QED BY <1>3

LEMMA SumCountsUnits ==
    ASSUME NEW S \in SUBSET Fragment, IsFiniteSet(S), NEW g, SumsOf(S, g)
    PROVE  g[S] = Cardinality(Units(S))
<1> DEFINE G == {s \in SUBSET S : g[s] = Cardinality(Units(s))}
<1>1. {} \in G
  BY UnitsOfNone DEF SumsOf
<1>2. ASSUME NEW x \in SUBSET S, x # {} PROVE \E f \in x : x \ {f} \in G => x \in G
  <2> DEFINE f == CHOOSE y \in x : TRUE
  <2>1. f \in x
    BY <1>2
  <2>2. g[x] = SizeOf(f) + g[x \ {f}]
    BY <1>2 DEF SumsOf
  <2> HIDE DEF f
  <2>3. SUFFICES ASSUME x \ {f} \in G PROVE g[x] = Cardinality(Units(x))
    BY <2>1
  <2>4. g[x \ {f}] = Cardinality(Units(x \ {f}))
    BY <2>3
  <2> HIDE DEF G
  <2>5. IsFiniteSet(Units(x \ {f})) /\ f \in Fragment
    BY <2>1, UnitsFinite
  <2>6. Cardinality(Units((x \ {f}) \cup {f})) = Cardinality(Units(x \ {f})) + SizeOf(f)
    BY <2>5, UnitsAdd
  <2>7. (x \ {f}) \cup {f} = x
    BY <2>1
  <2>8. Cardinality(Units(x)) = Cardinality(Units(x \ {f})) + SizeOf(f)
    BY <2>6, <2>7, Zenon
  <2>9. Cardinality(Units(x \ {f})) \in Nat /\ SizeOf(f) \in Nat
    BY <2>5, FS_CardinalityType, SizeType
  <2> QED BY <2>2, <2>4, <2>8, <2>9
<1>3. \A s \in SUBSET S : s \in G
  <2>1. \A x \in SUBSET S : x # {} => \E f \in x : x \ {f} \in G => x \in G
    BY <1>2
  <2> HIDE DEF G
  <2> QED BY <1>1, <2>1, SubsetInduction
<1> QED BY <1>3

LEMMA SumsExist ==
    ASSUME NEW S \in SUBSET Fragment, IsFiniteSet(S)
    PROVE  SumsOf(S, [s \in SUBSET S |-> Cardinality(Units(s))])
<1> DEFINE g == [s \in SUBSET S |-> Cardinality(Units(s))]
<1>1. ASSUME NEW s \in SUBSET S, s # {}
      PROVE  g[s] = SizeOf(CHOOSE x \in s : TRUE) + g[s \ {CHOOSE x \in s : TRUE}]
  <2> DEFINE f == CHOOSE x \in s : TRUE
  <2>1. f \in s
    BY <1>1
  <2> HIDE DEF f
  <2>2. IsFiniteSet(Units(s \ {f})) /\ f \in Fragment
    BY <2>1, UnitsFinite
  <2>3. Cardinality(Units((s \ {f}) \cup {f})) = Cardinality(Units(s \ {f})) + SizeOf(f)
    BY <2>2, UnitsAdd
  <2>4. (s \ {f}) \cup {f} = s
    BY <2>1
  <2>5. Cardinality(Units(s \ {f})) \in Nat /\ SizeOf(f) \in Nat
    BY <2>2, FS_CardinalityType, SizeType
  <2>6. g[s] = Cardinality(Units(s)) /\ g[s \ {f}] = Cardinality(Units(s \ {f}))
    OBVIOUS
  <2> HIDE DEF g
  <2>7. Cardinality(Units(s)) = Cardinality(Units(s \ {f})) + SizeOf(f)
    BY <2>3, <2>4, Zenon
  <2>8. g[s] = SizeOf(f) + g[s \ {f}]
    BY <2>5, <2>6, <2>7
  <2> QED BY <2>8 DEF f
<1>2. g[{}] = 0
  BY UnitsOfNone
<1> QED BY <1>1, <1>2 DEF SumsOf

LEMMA Summed ==
    ASSUME NEW S \in SUBSET Fragment, IsFiniteSet(S)
    PROVE  MapThenSumSet(SizeOf, S) = Cardinality(Units(S))
<1> DEFINE g == CHOOSE h : SumsOf(S, h)
<1>1. SumsOf(S, g)
  BY SumsExist
<1>2. MapThenSumSet(SizeOf, S) = g[S]
  BY DEF MapThenSumSet, MapThenFoldSet, SumsOf
<1> HIDE DEF g
<1> QED BY <1>1, <1>2, SumCountsUnits

LEMMA SumOfNone == MapThenSumSet(SizeOf, {}) = 0
BY Summed, UnitsOfNone

LEMMA SumMore ==
    ASSUME NEW S \in SUBSET Fragment, IsFiniteSet(S), NEW f \in Fragment, f \notin S
    PROVE  MapThenSumSet(SizeOf, S \cup {f}) = MapThenSumSet(SizeOf, S) + SizeOf(f)
<1>1. S \cup {f} \in SUBSET Fragment /\ IsFiniteSet(S \cup {f})
  BY FS_AddElement
<1>2. IsFiniteSet(Units(S))
  BY UnitsFinite
<1>3. Cardinality(Units(S \cup {f})) = Cardinality(Units(S)) + SizeOf(f)
  BY <1>2, UnitsAdd
<1> QED BY <1>1, <1>3, Summed

---------------------------------------------------------------------------
(* What is held, and its length *)

\* HeldIsBounded, of any reassembly and not only of the present one
Bounded(d) ==
    /\ IsFiniteSet(d.fragments)
    /\ d.len = MapThenSumSet(SizeOf, d.fragments)
    /\ d.len <= MaxPacket

BoundInv == Bounded(defrag)

LEMMA NothingBounded ==
    ASSUME NEW d, d.fragments = {}, d.len = 0
    PROVE  Bounded(d)
BY FS_EmptySet, SumOfNone, LimitsAssumption DEF Bounded

\* Only what is held and its length count.
LEMMA BoundedAlike ==
    ASSUME NEW d, Bounded(d), NEW e, e.fragments = d.fragments, e.len = d.len
    PROVE  Bounded(e)
BY DEF Bounded

LEMMA ResetBounded ==
    ASSUME NEW d \in Reassembly
    PROVE  Bounded(Reset(d)) /\ Reset(d) \in Reassembly
<1>1. Reset(d).fragments = {} /\ Reset(d).len = 0 /\ Reset(d) \in Reassembly
  BY DEF Reset, Reassembly
<1> QED BY <1>1, NothingBounded

LEMMA UnderBounded ==
    ASSUME NEW f, BoundInv
    PROVE  Bounded(Under(f))
<1>1. Created(f).fragments = {} /\ Created(f).len = 0
  BY DEF Created, NoMessage
<1> QED BY <1>1, NothingBounded DEF Under, BoundInv

LEMMA BegunBounded ==
    ASSUME TypeOK, Good(defrag), BoundInv, NEW f \in Sent
    PROVE  Bounded(Begun(f))
<1> DEFINE d == Under(f)
<1>1. Bounded(d) /\ d \in Reassembly
  BY UnderBounded, UnderGood DEF Good
<1> HIDE DEF d
<1>2. Bounded(Reset(d)) /\ Reset(d) \in Reassembly
  BY <1>1, ResetBounded
<1>3. CASE version = 1
  <2> DEFINE anew == [Reset(d) EXCEPT !.id = IdOf(f)]
             begun == IF d.fragments = {} \/ d.id # IdOf(f) THEN anew ELSE d
  <2>1. anew.fragments = Reset(d).fragments /\ anew.len = Reset(d).len
    BY <1>2 DEF Reassembly
  <2>2. Bounded(anew)
    BY <1>2, <2>1, BoundedAlike
  <2>3. anew \in Reassembly
    BY <1>2, IdType DEF Reassembly
  <2> HIDE DEF anew
  <2>4. Bounded(begun) /\ begun \in Reassembly
    BY <1>1, <2>2, <2>3
  <2>5. BegunV1(d, f) = IF begun.last = 0 /\ f.place = Count(f.of)
                        THEN [begun EXCEPT !.last = NumberOf(f)] ELSE begun
    BY DEF BegunV1, anew
  <2> HIDE DEF begun
  <2>6. /\ [begun EXCEPT !.last = NumberOf(f)].fragments = begun.fragments
        /\ [begun EXCEPT !.last = NumberOf(f)].len = begun.len
    BY <2>4 DEF Reassembly
  <2>7. Bounded([begun EXCEPT !.last = NumberOf(f)])
    BY <2>4, <2>6, BoundedAlike
  <2> QED BY <1>3, <2>4, <2>5, <2>7 DEF Begun, d
<1>4. CASE version # 1
  <2> DEFINE b == [Reset(d) EXCEPT !.last = Count(f.of)]
  <2>1. b.fragments = Reset(d).fragments /\ b.len = Reset(d).len
    BY <1>2 DEF Reassembly
  <2>2. Bounded(b)
    BY <1>2, <2>1, BoundedAlike
  <2> QED BY <1>1, <1>4, <2>2 DEF Begun, BegunV2, d
<1> QED BY <1>3, <1>4

\* A fragment is added to the sum if it is not held yet.
LEMMA AddedBounded ==
    ASSUME TypeOK, NEW f \in Sent, NEW d \in Reassembly, Bounded(d),
           ~Duplicate(d, f), ~TooLarge(d, f)
    PROVE  Bounded(Added(d, f))
<1> DEFINE a == Added(d, f)
<1>1. a.fragments = d.fragments \cup {f} /\ a.len = d.len + SizeOf(f)
  BY DEF Added, Reassembly
<1> HIDE DEF a
<1>2. f \in Fragment /\ f \notin d.fragments /\ d.fragments \in SUBSET Fragment
  BY SentType DEF Duplicate, Reassembly
<1>3. IsFiniteSet(a.fragments)
  <2>1. IsFiniteSet(d.fragments \cup {f})
    BY FS_AddElement DEF Bounded
  <2> QED BY <1>1, <2>1, Zenon
<1>4. MapThenSumSet(SizeOf, d.fragments \cup {f}) = d.len + SizeOf(f)
  BY <1>2, SumMore DEF Bounded
<1>5. a.len = MapThenSumSet(SizeOf, a.fragments)
  BY <1>1, <1>4, Zenon
<1>6. d.len \in Nat /\ SizeOf(f) \in Nat /\ MaxPacket \in Nat
  BY <1>2, SizeType, LimitsAssumption DEF Reassembly
<1>7. a.len <= MaxPacket
  BY <1>1, <1>6 DEF TooLarge
<1> QED BY <1>3, <1>5, <1>7 DEF Bounded, a

LEMMA InitBound == Init => BoundInv
BY NothingBounded DEF Init, BoundInv, NoMessage

LEMMA NextBound == IInv /\ BoundInv /\ [Next]_vars => BoundInv'
<1> SUFFICES ASSUME IInv, BoundInv, [Next]_vars PROVE BoundInv'
  OBVIOUS
<1>1. TypeOK /\ Good(defrag) /\ defrag \in Reassembly
  BY DEF IInv, TypeOK
<1>2. ASSUME NEW d, Bounded(d), defrag' = d PROVE BoundInv'
  BY <1>2 DEF BoundInv, Bounded
<1>3. CASE defrag' = NoMessage \/ defrag' = [NoMessage EXCEPT !.state = "spent"]
  <2>1. Bounded(NoMessage)
    BY NothingBounded DEF NoMessage
  <2>2. Bounded([NoMessage EXCEPT !.state = "spent"])
    BY NothingBounded DEF NoMessage
  <2> QED BY <1>2, <1>3, <2>1, <2>2
<1>4. CASE UNCHANGED defrag
  BY <1>2, <1>4 DEF BoundInv
<1>5. ASSUME NEW f \in Sent, Receives(f) PROVE BoundInv'
  <2>1. CASE Refused(f)
    <3>1. Under(f) \in Reassembly
      BY <1>1, UnderGood DEF Good
    <3>2. Bounded(Reset(Under(f)))
      BY <3>1, ResetBounded
    <3> QED BY <1>2, <1>4, <2>1, <3>2 DEF Refused
  <2>2. CASE /\ version = 2 => Under(f).id = IdOf(f) /\ Count(f.of) <= MaxFragments
             /\ Adds(Begun(f), f)
    <3> DEFINE d == Begun(f)
    <3>1. Bounded(d) /\ d \in Reassembly
      BY <1>1, <2>2, BegunBounded, BegunGood DEF Good
    <3>2. Adds(d, f)
      BY <2>2
    <3> HIDE DEF d
    <3>3. CASE defrag' = d
      BY <1>2, <3>1, <3>3
    <3>4. CASE defrag' = Reset(d)
      BY <1>2, <3>1, <3>4, ResetBounded
    <3>5. CASE ~Duplicate(d, f) /\ ~TooLarge(d, f) /\ defrag' = Added(d, f)
      BY <1>1, <1>2, <3>1, <3>5, AddedBounded
    <3>6. CASE Merges(Added(d, f))
      BY <1>3, <3>6 DEF Merges
    <3> QED BY <3>2, <3>3, <3>4, <3>5, <3>6 DEF Adds
  <2> QED BY <1>5, <2>1, <2>2 DEF Receives
<1>6. CASE UNCHANGED vars
  BY <1>4, <1>6 DEF vars
<1>7. ASSUME NEW sp \in Split, Sends(sp) PROVE BoundInv'
  BY <1>4, <1>7 DEF Sends
<1>8. CASE OwnerDrops
  BY <1>3, <1>8 DEF OwnerDrops
<1> QED BY <1>5, <1>6, <1>7, <1>8 DEF Next

---------------------------------------------------------------------------
(* Theorems *)

\* The invariant holds of every reassembly (message.c:2706-2900).
THEOREM Invariant == Spec => []IInv
BY InitIInv, NextIInv, PTL DEF Spec

\* The numbers and lengths of what is held are those of the code's types, and
\* what is held are fragments (fragment_data_t, message.c:824-844).
THEOREM TypeCorrect == Spec => []TypeOK
<1>1. IInv => TypeOK
  BY DEF IInv
<1> QED BY Invariant, <1>1, PTL

\* A message that was split once, and alone if it is IKEv1, is reassembled to
\* all of its fragments and nothing else, with its unencrypted payloads once
\* (message.c:2706-2900).
THEOREM ReassembledIntact == Spec => []Intact
<1>1. Spec => []PlainInv
  BY Invariant, InitPlain, NextPlain, PTL DEF Spec
<1>2. IInv /\ PlainInv => Intact
  BY DEF IInv, PlainInv, Intact
<1> QED BY Invariant, <1>1, <1>2, PTL

\* What is held is what its length says, and never more than max_packet,
\* whatever mixture of splits it is (message.c:2706-2900).
THEOREM HeldBounded == Spec => []HeldIsBounded
<1>1. Spec => []BoundInv
  BY Invariant, InitBound, NextBound, PTL DEF Spec
<1>2. BoundInv => HeldIsBounded
  BY DEF BoundInv, Bounded, HeldIsBounded
<1> QED BY <1>1, <1>2, PTL

===========================================================================

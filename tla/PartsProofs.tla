------------------------------ MODULE PartsProofs ------------------------------
(***************************************************************************)
(* Proofs about the components that stand alone: Segmentation, for any     *)
(* text and sizes; RateLimiter, for any requests, keys, limits and         *)
(* windows; SealedStream, for any document, chunk size and store;          *)
(* Extraction, for any file and limit; SpanSelection, for any hits,        *)
(* severities and thresholds.                                              *)
(***************************************************************************)
EXTENDS Segmentation, RateLimiter, SealedStream, Extraction, SpanSelection,
        FiniteSetTheorems, SequenceTheorems, WellFoundedInduction, TLAPS

-----------------------------------------------------------------------------
(***************************************************************************)
(* A set of natural numbers has a least element, and a largest one if it   *)
(* has a bound: what the proofs need to know of the last break in a text,  *)
(* of the oldest hit in a bucket and of the smallest of some sets.         *)
(***************************************************************************)

Below == {p \in Nat \X Nat : p[1] < p[2]}

LEMMA BelowIsWellFounded == IsWellFoundedOn(Below, Nat)
    BY Zenon, NatLessThanWellFounded DEF OpToRel, Below

LEMMA LeastExists ==
    ASSUME NEW S, S \subseteq Nat, S # {}
    PROVE  \E e \in S : \A f \in S : e <= f
<1>1. PICK e \in S : \A f \in S : ~(<<f, e>> \in Below)
    BY BelowIsWellFounded, WFMin
<1>2. ASSUME NEW f \in S PROVE e <= f
  <2>1. e \in Nat /\ f \in Nat /\ ~(f < e)
    BY <1>1 DEF Below
  <2> QED BY <2>1
<1> QED BY <1>2

LEMMA LargestExists ==
    ASSUME NEW S, S \subseteq Nat, NEW n \in Nat, S # {}, \A e \in S : e <= n
    PROVE  \E e \in S : \A f \in S : f <= e
<1> DEFINE T == {n - e : e \in S}
<1>1. \A e \in S : e \in Nat /\ n - e \in Nat
    OBVIOUS
<1>2. T \subseteq Nat /\ T # {}
  <2>1. T \subseteq Nat
    BY <1>1
  <2>2. PICK e \in S : TRUE
    OBVIOUS
  <2>3. n - e \in T
    OBVIOUS
  <2> QED BY <2>1, <2>3
<1>3. \E x \in T : \A y \in T : x <= y
  <2> HIDE DEF T
  <2> QED BY <1>2, LeastExists
<1>4. PICK e \in S : \A y \in T : n - e <= y
    BY <1>3
<1>5. ASSUME NEW f \in S PROVE f <= e
  <2>1. n - e <= n - f
    BY <1>4
  <2> QED BY <2>1, <1>1
<1> QED BY <1>5

\* A collection of finite sets has one that contains no other of them.
LEMMA SmallestSet ==
    ASSUME NEW T, T # {}, \A S \in T : IsFiniteSet(S)
    PROVE  \E S \in T : \A R \in T : R \subseteq S => R = S
<1> DEFINE sizes == {Cardinality(S) : S \in T}
<1>1. sizes \subseteq Nat /\ sizes # {}
    BY FS_CardinalityType
<1>2. \E n \in sizes : \A m \in sizes : n <= m
  <2> HIDE DEF sizes
  <2> QED BY <1>1, LeastExists
<1>3. PICK S \in T : \A R \in T : Cardinality(S) <= Cardinality(R)
    BY <1>2
<1>4. ASSUME NEW R \in T, R \subseteq S PROVE R = S
  <2>1. Cardinality(R) \in Nat /\ Cardinality(S) \in Nat /\ IsFiniteSet(S)
    BY FS_CardinalityType
  <2>2. Cardinality(R) <= Cardinality(S) /\ (Cardinality(S) = Cardinality(R) => S = R)
    BY <1>4, <2>1, FS_Subset
  <2> QED BY <1>3, <2>1, <2>2
<1> QED BY <1>4

-----------------------------------------------------------------------------
(***************************************************************************)
(* The segments of a text cover it, for every text, every list of break    *)
(* patterns and every pair of sizes that the settings accept.  The         *)
(* inductive invariant adds to the property where the next segment may     *)
(* begin: after the segment before it began, no later than that one ended, *)
(* and no more than the overlap before its end.                            *)
(***************************************************************************)

\* Where a segment ends.

LEMMA FloorIsWithin ==
    ASSUME NEW s \in Sizes, size = s
    PROVE  /\ size.max \in Nat /\ size.overlap \in Nat /\ size.overlap < size.max
           /\ Floor \in Nat /\ 1 <= Floor /\ Floor <= size.max
<1>1. size.max \in Nat \ {0} /\ size.overlap \in Nat /\ size.overlap < size.max
    BY SizeAssumption
<1> DEFINE m == size.max
           q == (3 * m) \div 4
<1>2. m \in Nat /\ 1 <= m
    BY <1>1
<1> HIDE DEF m
<1>3. q \in Int /\ q <= m
    BY <1>2
<1>4. Floor = IF q > 1 THEN q ELSE 1
    BY DEF Floor, m
<1> HIDE DEF q
<1>5. Floor \in Nat /\ 1 <= Floor /\ Floor <= m
    BY <1>2, <1>3, <1>4
<1> QED BY <1>1, <1>5 DEF m

\* The last occurrence of a pattern is one of its occurrences.
LEMMA LastIsOne ==
    ASSUME NEW n \in DOMAIN Patterns, NEW floor \in Nat, NEW limit \in Nat,
           Ends(n, floor, limit) # {}
    PROVE  LastOf(Ends(n, floor, limit)) \in floor + 1 .. limit
<1> DEFINE E == Ends(n, floor, limit)
<1>1. Len(Patterns[n]) \in Nat \ {0}
    BY PatternAssumption
<1>2. \A e \in E : e \in floor + 1 .. limit /\ e \in Nat
    BY <1>1 DEF Ends
<1>3. E \subseteq Nat /\ \A e \in E : e <= limit
    BY <1>2
<1>4. \E e \in E : \A f \in E : f <= e
  <2>1. E # {}
    OBVIOUS
  <2> HIDE DEF E
  <2> QED BY <1>3, <2>1, LargestExists
<1>5. LastOf(E) \in E
  <2> HIDE DEF E
  <2> QED BY <1>4 DEF LastOf
<1> QED BY <1>2, <1>5

\* The loop's bounds at the head of a round.
Cutting ==
    /\ text \in Texts /\ size \in Sizes
    /\ start \in Nat /\ previousEnd \in Nat
    /\ start < Len(text)
    /\ previousEnd < Len(text)
    /\ start <= previousEnd
    /\ previousEnd <= start + size.overlap
    /\ Roomy /\ segments # {} => start <= (previousEnd - size.overlap) + 1
    /\ segments = {} => start = 0 /\ previousEnd = 0

LEMMA EndIsAhead ==
    ASSUME Cutting
    PROVE  /\ EndOfSegment \in Nat
           /\ start < EndOfSegment /\ previousEnd < EndOfSegment
           /\ EndOfSegment <= Len(text) /\ EndOfSegment <= start + size.max
           /\ EndOfSegment < Len(text) => start + Floor <= EndOfSegment
<1> DEFINE limit == start + size.max
           floor == start + Floor
           usable == Usable(floor, limit)
<1>1. /\ size.max \in Nat /\ size.overlap \in Nat /\ size.overlap < size.max
      /\ Floor \in Nat /\ 1 <= Floor /\ Floor <= size.max
    BY FloorIsWithin DEF Cutting
<1>2. limit \in Nat /\ floor \in Nat
    BY <1>1 DEF Cutting
<1>3. Len(text) \in Nat
    BY TextAssumption DEF Cutting
<1>4. CASE limit >= Len(text)
  <2>1. EndOfSegment = Len(text)
    BY <1>2, <1>3, <1>4 DEF EndOfSegment
  <2> QED BY <2>1, <1>1, <1>3, <1>4 DEF Cutting
<1>5. CASE limit < Len(text) /\ usable = {}
  <2>1. EndOfSegment = limit
    BY <1>2, <1>3, <1>5 DEF EndOfSegment
  <2> QED BY <2>1, <1>1, <1>2, <1>3, <1>5 DEF Cutting
<1>6. CASE limit < Len(text) /\ usable # {}
  <2>1. usable \subseteq DOMAIN Patterns /\ usable \subseteq Nat
    BY PatternAssumption DEF Usable
  <2> DEFINE n == CHOOSE k \in usable : \A j \in usable : k <= j
  <2>2. n \in usable
    <3>1. \E k \in usable : \A j \in usable : k <= j
      <4> HIDE DEF usable
      <4> QED BY <2>1, <1>6, LeastExists
    <3> HIDE DEF usable
    <3> QED BY <3>1
  <2>3. EndOfSegment = LastOf(Ends(n, floor, limit))
    BY <1>2, <1>3, <1>6 DEF EndOfSegment
  <2> HIDE DEF n
  <2>4. /\ n \in DOMAIN Patterns /\ Ends(n, floor, limit) # {}
        /\ LastOf(Ends(n, floor, limit)) > previousEnd
    BY <2>2 DEF Usable
  <2>5. LastOf(Ends(n, floor, limit)) \in floor + 1 .. limit
    BY <2>4, <1>2, LastIsOne
  <2> QED BY <2>3, <2>4, <2>5, <1>1, <1>2, <1>3, <1>6 DEF Cutting
<1>7. limit < Len(text) \/ limit >= Len(text)
    BY <1>2, <1>3
<1> QED BY <1>4, <1>5, <1>6, <1>7

-----------------------------------------------------------------------------
\* The inductive invariant.

Laid ==
    /\ segments \subseteq [start : Nat, end : Nat]
    /\ \A s \in segments : s.start < s.end /\ s.end <= Covered /\ s.end - s.start <= size.max
    /\ \A s, t \in segments : s.start < t.start <=> s.end < t.end
    /\ \A a \in 0..Covered - 1 : Within(a, a + 1)
    /\ Roomy => \A a \in 0..Covered - 1 : \A b \in a + 1 .. a + size.overlap :
                  b <= Covered => Within(a, b)
Behind == \A s \in segments : s.start < start
SegmentationInv ==
    /\ cutting \in BOOLEAN
    /\ cutting => Cutting /\ Behind
    /\ text \in Texts /\ size \in Sizes
    /\ Laid

LEMMA SegmentationHolds == SegmentationInit => SegmentationInv
<1> SUFFICES ASSUME SegmentationInit PROVE SegmentationInv
    OBVIOUS
<1>1. Len(text) \in Nat \ {0}
    BY TextAssumption DEF SegmentationInit
<1>2. size.max \in Nat /\ size.overlap \in Nat
    BY SizeAssumption DEF SegmentationInit
<1>3. Cutting /\ Behind
    BY <1>1, <1>2 DEF SegmentationInit, Cutting, Behind
<1>4. Covered = 0 /\ 0..Covered - 1 = {}
    BY DEF SegmentationInit, Covered
<1>5. Laid
    BY <1>4 DEF SegmentationInit, Laid
<1> QED BY <1>3, <1>5 DEF SegmentationInit, SegmentationInv

LEMMA SegmentationIsKept == SegmentationInv /\ [Cut]_segmentationVars => SegmentationInv'
<1> SUFFICES ASSUME SegmentationInv, [Cut]_segmentationVars PROVE SegmentationInv'
    OBVIOUS
<1>1. CASE UNCHANGED segmentationVars
    BY <1>1 DEF SegmentationInv, segmentationVars, Cutting, Behind, Laid, Covered, Within,
                Roomy, Floor
<1>2. CASE Cut
  <2> DEFINE new == [start |-> start, end |-> EndOfSegment]
  <2>1. Cutting /\ Behind /\ Laid /\ cutting
    BY <1>2 DEF Cut, SegmentationInv
  <2>2. /\ EndOfSegment \in Nat
        /\ start < EndOfSegment /\ previousEnd < EndOfSegment
        /\ EndOfSegment <= Len(text) /\ EndOfSegment <= start + size.max
        /\ EndOfSegment < Len(text) => start + Floor <= EndOfSegment
    BY <2>1, EndIsAhead
  <2>3. /\ size.max \in Nat /\ size.overlap \in Nat /\ size.overlap < size.max
        /\ Floor \in Nat /\ 1 <= Floor /\ Floor <= size.max
    BY <2>1, FloorIsWithin DEF Cutting
  <2>4. /\ text' = text /\ size' = size /\ cutting' \in BOOLEAN
        /\ segments' = segments \cup {new}
        /\ cutting' <=> EndOfSegment < Len(text)
        /\ Len(text) \in Nat
        /\ (Roomy)' <=> Roomy
    <3>1. text' = text /\ size' = size /\ segments' = segments \cup {new}
      BY <1>2 DEF Cut
    <3>2. cutting' = (EndOfSegment < Len(text))
      BY <1>2 DEF Cut
    <3>3. Len(text) \in Nat
      BY <2>1, TextAssumption DEF Cutting
    <3>4. Roomy' <=> Roomy
      BY <3>1 DEF Roomy, Floor
    <3>5. cutting' \in BOOLEAN
      BY <3>2
    <3> QED BY <3>1, <3>2, <3>3, <3>4, <3>5
  <2>5. Covered = previousEnd /\ Covered' = EndOfSegment
    BY <1>2, <2>2, <2>4 DEF Cut, Covered
  <2>6. new \in [start : Nat, end : Nat] /\ new.start = start /\ new.end = EndOfSegment
    BY <2>1, <2>2 DEF Cutting
  <2> HIDE DEF new
  <2>7. /\ \A s \in segments : s.start \in Nat /\ s.end \in Nat
        /\ start \in Nat /\ previousEnd \in Nat
    BY <2>1 DEF Laid, Cutting
  <2>8. Laid'
    <3>1. segments' \subseteq [start : Nat, end : Nat]
      BY <2>1, <2>4, <2>6 DEF Laid
    <3>2. \A s \in segments' : s.start < s.end /\ s.end <= Covered' /\ s.end - s.start <= size'.max
      <4>1. \A s \in segments : s.start < s.end /\ s.end <= previousEnd /\ s.end - s.start <= size.max
        BY <2>1, <2>5 DEF Laid
      <4>2. new.end - new.start <= size.max
        BY <2>2, <2>3, <2>6, <2>7
      <4> QED BY <4>1, <4>2, <2>2, <2>4, <2>5, <2>6, <2>7
    <3>3. \A s, t \in segments' : s.start < t.start <=> s.end < t.end
      <4>1. \A s \in segments : s.start < new.start /\ s.end < new.end
        BY <2>1, <2>2, <2>5, <2>6, <2>7 DEF Laid, Behind
      <4>2. \A s, t \in segments : s.start < t.start <=> s.end < t.end
        BY <2>1 DEF Laid
      <4> QED BY <4>1, <4>2, <2>4, <2>6, <2>7
    <3>4. ASSUME NEW a \in 0..Covered' - 1 PROVE Within(a, a + 1)'
      <4>1. CASE a < previousEnd
        <5>1. Within(a, a + 1)
          BY <4>1, <2>1, <2>5, <2>7 DEF Laid
        <5> QED BY <5>1, <2>4 DEF Within
      <4>2. CASE previousEnd <= a
        <5>1. new.start <= a /\ a + 1 <= new.end
          BY <4>2, <2>1, <2>2, <2>5, <2>6, <2>7 DEF Cutting
        <5> QED BY <5>1, <2>4 DEF Within
      <4> QED BY <4>1, <4>2, <2>7
    <3>5. ASSUME Roomy, NEW a \in 0..Covered' - 1, NEW b \in a + 1 .. a + size.overlap,
                 b <= Covered'
          PROVE  Within(a, b)'
      <4>1. CASE b <= previousEnd
        <5>1. a \in 0..Covered - 1 /\ b <= Covered
          BY <4>1, <2>5, <2>7
        <5>2. Within(a, b)
          BY <5>1, <3>5, <2>1 DEF Laid
        <5> QED BY <5>2, <2>4 DEF Within
      <4>2. CASE previousEnd < b
        <5>1. start <= a
          <6>1. CASE segments = {}
            BY <6>1, <2>1 DEF Cutting
          <6>2. CASE segments # {}
            <7>1. start <= (previousEnd - size.overlap) + 1
              BY <6>2, <3>5, <2>1 DEF Cutting
            <7> QED BY <7>1, <4>2, <2>3, <2>7
          <6> QED BY <6>1, <6>2
        <5>2. new.start <= a /\ b <= new.end
          BY <5>1, <3>5, <2>5, <2>6
        <5> QED BY <5>2, <2>4 DEF Within
      <4> QED BY <4>1, <4>2, <2>7
    <3>6. Roomy' => \A a \in 0..Covered' - 1 : \A b \in a + 1 .. a + size'.overlap :
                      b <= Covered' => Within(a, b)'
      BY <3>5, <2>4
    <3> QED BY <3>1, <3>2, <3>3, <3>4, <3>6 DEF Laid
  <2>9. ASSUME cutting' PROVE Cutting' /\ Behind'
    <3>1. EndOfSegment < Len(text) /\ previousEnd' = EndOfSegment
      BY <1>2, <2>4, <2>9 DEF Cut
    <3>2. start' = Later(EndOfSegment - size.overlap, start + 1)
      BY <1>2, <2>9 DEF Cut
    <3>3. /\ start' \in Nat /\ start < start' /\ start' <= EndOfSegment
          /\ EndOfSegment <= start' + size.overlap
      BY <3>2, <2>2, <2>3, <2>7 DEF Later
    <3>4. Roomy => start' <= (EndOfSegment - size.overlap) + 1
      BY <3>1, <3>2, <2>2, <2>3, <2>7 DEF Later, Roomy
    <3>5. segments' # {}
      BY <2>4
    <3>6. Cutting'
      BY <3>1, <3>3, <3>4, <3>5, <2>1, <2>2, <2>4 DEF Cutting
    <3>7. Behind'
      BY <3>3, <2>1, <2>4, <2>6, <2>7 DEF Behind
    <3> QED BY <3>6, <3>7
  <2> QED BY <2>1, <2>4, <2>8, <2>9 DEF SegmentationInv, Cutting
<1> QED BY <1>1, <1>2 DEF Cut

\* However the breaks fall, the segments of a text cover it without a gap, none lies in
\* another, none is empty or too long, and a value no longer than the overlap lies whole
\* in one of them (Segmenter.segment).
THEOREM TextIsCovered == SegmentationSpec => []SegmentsCoverText
<1>1. SegmentationInv => SegmentsCoverText
    BY DEF SegmentationInv, Laid, SegmentsCoverText
<1> QED BY <1>1, SegmentationHolds, SegmentationIsKept, PTL DEF SegmentationSpec

-----------------------------------------------------------------------------
(***************************************************************************)
(* What the limiter promises holds for any number of requests, keys and    *)
(* tenants, any limits and windows, and any number of broken connections.  *)
(*                                                                         *)
(* The argument: while a request watches its two buckets and neither has   *)
(* changed, every member ever added to them arrived no later than the      *)
(* request did, and every one that is no longer there had left the         *)
(* request's window.  So what it counted is what a window that begins with *)
(* it can hold, and what it adds fits.                                     *)
(***************************************************************************)

LEMMA BucketFacts ==
    /\ \A b \in Buckets : Limit(b) \in Nat \ {0} /\ Window(b) \in Nat \ {0}
    /\ \A r \in Requests : Charged(r) \subseteq Buckets /\ KeyOf[r] \in Charged(r)
                           /\ TenantOf[KeyOf[r]] \in Charged(r)
    /\ None \notin Buckets
<1>1. \A b \in Buckets : Limit(b) \in Nat \ {0} /\ Window(b) \in Nat \ {0}
    BY RuleAssumption DEF Buckets, Limit, Window
<1>2. \A r \in Requests : KeyOf[r] \in Keys /\ TenantOf[KeyOf[r]] \in Tenants
    BY IdentityAssumption
<1>3. None \notin Buckets
    BY IdentityAssumption DEF Buckets
<1> QED BY <1>1, <1>2, <1>3 DEF Charged, Buckets

-----------------------------------------------------------------------------
\* The inductive invariant.

Times ==
    /\ \A r \in Requests : call[r].at <= now
    /\ \A b \in Buckets : \A m \in granted[b] :
         m.at <= now /\ (m \in hits[b] \/ m.at + Window(b) <= now)
    /\ \A b \in Buckets : \A m \in hits[b] : m.at + Window(b) <= until[b]
    /\ \A b \in Buckets : until[b] <= now + Window(b)

\* What a request finds while its buckets are as they were when it began to watch them.
Watches(r) == call[r].step \in Open /\ r \notin stale
SeesAll(r) ==
    \A b \in Charged(r) : \A m \in granted[b] :
        m.at <= call[r].at /\ (m \in hits[b] \/ m.at + Window(b) <= call[r].at)
HasRoom(r) == \A b \in Charged(r) : Cardinality(hits[b]) < Limit(b)

\* The oldest member of the bucket that refused it, which its wait outlasts.
HasOldest(r) ==
    /\ call[r].denied \in Buckets
    /\ \E o \in granted[call[r].denied] :
         /\ o.at <= call[r].at /\ call[r].at < o.at + Window(call[r].denied)
         /\ o.at + Window(call[r].denied) <= call[r].retryAt
         /\ call[r].at <= call[r].retryAt

Transactions ==
    \A r \in Requests :
        /\ Watches(r) => SeesAll(r)
        /\ Watches(r) /\ call[r].step = "executing" /\ call[r].denied = None => HasRoom(r)
        /\ Watches(r) /\ call[r].step = "executing" /\ call[r].denied # None => HasOldest(r)
        /\ call[r].step = "denied" => HasOldest(r)

Bounded ==
    \A b \in Buckets :
        /\ IsFiniteSet(granted[b])
        /\ Cardinality(hits[b]) <= Limit(b)
        /\ \A t \in 0..now : Cardinality(InWindow(granted[b], b, t)) <= Limit(b)

Recorded ==
    \A r \in Requests : call[r].step = "admitted" =>
        \A b \in Charged(r) : Member(r) \in granted[b]

LimiterInv == TypeOK /\ Times /\ Transactions /\ Bounded /\ Recorded

LEMMA LimiterHolds == Init => LimiterInv
<1> SUFFICES ASSUME Init PROVE LimiterInv
    OBVIOUS
<1>1. /\ now = 0 /\ faults = 0 /\ stale = {}
      /\ hits = [b \in Buckets |-> {}] /\ granted = [b \in Buckets |-> {}]
      /\ until = [b \in Buckets |-> 0]
      /\ call = [r \in Requests |-> NewCall]
    BY DEF Init
<1>2. NewCall \in Calls /\ NewCall.step = "calling" /\ NewCall.at = 0
    BY DEF NewCall, Calls, Steps
<1>3. TypeOK
    BY <1>1, <1>2 DEF TypeOK
<1>4. Times
    BY <1>1, <1>2, BucketFacts DEF Times
<1>5. Transactions
    BY <1>1, <1>2 DEF Transactions, Watches, Open
<1>6. Bounded
  <2>1. ASSUME NEW b \in Buckets, NEW t \in 0..now PROVE InWindow(granted[b], b, t) = {}
    BY <1>1 DEF InWindow
  <2>2. IsFiniteSet({}) /\ Cardinality({}) = 0
    BY FS_EmptySet
  <2>3. \A b \in Buckets : granted[b] = {} /\ hits[b] = {} /\ 0 <= Limit(b)
    BY <1>1, BucketFacts
  <2> QED BY <2>1, <2>2, <2>3 DEF Bounded
<1>7. Recorded
    BY <1>1, <1>2 DEF Recorded
<1> QED BY <1>3, <1>4, <1>5, <1>6, <1>7 DEF LimiterInv

-----------------------------------------------------------------------------
\* A step that only ends a request's transaction, or gives one up.

Moves(r, s) ==
    /\ call' = [call EXCEPT ![r].step = s]
    /\ UNCHANGED <<now, hits, until, stale, granted>> /\ faults' \in Nat

LEMMA MoveKeeps ==
    ASSUME LimiterInv, NEW r \in Requests, NEW s \in Steps, Moves(r, s),
           s \notin Open, s # "admitted",
           s = "denied" => HasOldest(r)
    PROVE  LimiterInv'
<1>1. /\ now' = now /\ hits' = hits /\ until' = until /\ stale' = stale /\ granted' = granted
      /\ call' = [call EXCEPT ![r].step = s]
    BY DEF Moves
<1>2. TypeOK /\ call \in [Requests -> Calls]
    BY DEF LimiterInv, TypeOK
<1>3. /\ call' \in [Requests -> Calls]
      /\ call'[r].step = s
      /\ \A q \in Requests : call'[q].at = call[q].at /\ call'[q].denied = call[q].denied
                             /\ call'[q].retryAt = call[q].retryAt /\ call'[q].lost = call[q].lost
      /\ \A q \in Requests \ {r} : call'[q] = call[q]
    BY <1>1, <1>2 DEF Calls
<1>4. TypeOK'
    BY <1>1, <1>2, <1>3 DEF TypeOK, Moves
<1>5. Times'
    BY <1>1, <1>3 DEF Times, LimiterInv
<1>6. Bounded'
    BY <1>1 DEF Bounded, LimiterInv, InWindow
<1>7. ASSUME NEW q \in Requests
      PROVE  /\ Watches(q)' => Watches(q)
             /\ SeesAll(q)' <=> SeesAll(q)
             /\ HasRoom(q)' <=> HasRoom(q)
             /\ HasOldest(q)' <=> HasOldest(q)
             /\ call'[q].step # s => call'[q] = call[q]
             /\ q = r => call'[q].step = s
    BY <1>1, <1>3 DEF Watches, SeesAll, HasRoom, HasOldest
<1>8. Transactions'
  <2> SUFFICES ASSUME NEW q \in Requests
               PROVE  /\ Watches(q)' => SeesAll(q)'
                      /\ Watches(q)' /\ call'[q].step = "executing" /\ call'[q].denied = None => HasRoom(q)'
                      /\ Watches(q)' /\ call'[q].step = "executing" /\ call'[q].denied # None => HasOldest(q)'
                      /\ call'[q].step = "denied" => HasOldest(q)'
    BY DEF Transactions
  <2>1. CASE q = r
    BY <2>1, <1>3, <1>7 DEF Watches, Open
  <2>2. CASE q # r
    BY <2>2, <1>3, <1>7 DEF LimiterInv, Transactions
  <2> QED BY <2>1, <2>2
<1>9. Recorded'
    BY <1>1, <1>3 DEF Recorded, LimiterInv, Member
<1> QED BY <1>4, <1>5, <1>6, <1>8, <1>9 DEF LimiterInv

-----------------------------------------------------------------------------
\* A request begins to watch: all it can see arrived by now.

LEMMA WatchKeeps ==
    ASSUME LimiterInv, NEW r \in Requests, Watch(r)
    PROVE  LimiterInv'
<1>1. /\ now' = now /\ hits' = hits /\ until' = until /\ granted' = granted
      /\ faults' = faults /\ stale' = stale \ {r} /\ call[r].step = "calling"
      /\ call' = [call EXCEPT ![r] = [call[r] EXCEPT !.step = "reading", !.at = now]]
    BY DEF Watch
<1>2. TypeOK /\ call \in [Requests -> Calls] /\ now \in Nat
    BY DEF LimiterInv, TypeOK
<1>3. /\ call' \in [Requests -> Calls]
      /\ call'[r].step = "reading" /\ call'[r].at = now
      /\ \A q \in Requests \ {r} : call'[q] = call[q]
    BY <1>1, <1>2 DEF Calls, Steps
<1>4. TypeOK'
    BY <1>1, <1>2, <1>3 DEF TypeOK
<1>5. Times'
    BY <1>1, <1>2, <1>3 DEF Times, LimiterInv
<1>6. Bounded'
    BY <1>1 DEF Bounded, LimiterInv, InWindow
<1>7. Transactions'
  <2> SUFFICES ASSUME NEW q \in Requests
               PROVE  /\ Watches(q)' => SeesAll(q)'
                      /\ Watches(q)' /\ call'[q].step = "executing" /\ call'[q].denied = None => HasRoom(q)'
                      /\ Watches(q)' /\ call'[q].step = "executing" /\ call'[q].denied # None => HasOldest(q)'
                      /\ call'[q].step = "denied" => HasOldest(q)'
    BY DEF Transactions
  <2>1. CASE q = r
    <3>1. SeesAll(q)'
      BY <2>1, <1>1, <1>3, BucketFacts DEF SeesAll, Times, LimiterInv
    <3> QED BY <3>1, <2>1, <1>3
  <2>2. CASE q # r
    <3>1. /\ Watches(q)' => Watches(q)
          /\ SeesAll(q)' <=> SeesAll(q)
          /\ HasRoom(q)' <=> HasRoom(q)
          /\ HasOldest(q)' <=> HasOldest(q)
      BY <2>2, <1>1, <1>3 DEF Watches, SeesAll, HasRoom, HasOldest
    <3> QED BY <3>1, <2>2, <1>3 DEF LimiterInv, Transactions
  <2> QED BY <2>1, <2>2
<1>8. Recorded'
    BY <1>1, <1>3 DEF Recorded, LimiterInv, Member
<1> QED BY <1>4, <1>5, <1>6, <1>7, <1>8 DEF LimiterInv

-----------------------------------------------------------------------------
\* A request whose buckets stay as they are finds what it found.

LEMMA OthersKeep ==
    ASSUME LimiterInv, NEW q \in Requests, call'[q] = call[q],
           stale \subseteq stale',
           \A b \in Buckets : granted[b] \subseteq granted'[b],
           q \notin stale' /\ call[q].step \in Open =>
               \A b \in Charged(q) : hits'[b] = hits[b] /\ granted'[b] = granted[b]
    PROVE  /\ Watches(q)' => SeesAll(q)'
           /\ Watches(q)' /\ call'[q].step = "executing" /\ call'[q].denied = None => HasRoom(q)'
           /\ Watches(q)' /\ call'[q].step = "executing" /\ call'[q].denied # None => HasOldest(q)'
           /\ call'[q].step = "denied" => HasOldest(q)'
<1>1. Watches(q)' => Watches(q)
    BY DEF Watches
<1>2. HasOldest(q) => HasOldest(q)'
    BY DEF HasOldest
<1>3. /\ Watches(q)' /\ SeesAll(q) => SeesAll(q)'
      /\ Watches(q)' /\ HasRoom(q) => HasRoom(q)'
    BY DEF Watches, SeesAll, HasRoom
<1> QED BY <1>1, <1>2, <1>3 DEF LimiterInv, Transactions

\* What fits in the buckets of a request that saw them unchanged.

LEMMA AddsFit ==
    ASSUME LimiterInv, NEW r \in Requests, MayExecute(r), Adds(r), now' = now
    PROVE  Bounded'
<1> DEFINE n == Member(r)
           a == call[r].at
<1>1. /\ TypeOK /\ Times /\ Bounded /\ SeesAll(r) /\ HasRoom(r)
    BY DEF LimiterInv, Transactions, MayExecute, Watches, Open
<1>2. /\ a \in Nat /\ n.at = a /\ a <= now /\ now \in Nat
    BY <1>1 DEF TypeOK, Calls, Member, Times
<1>3. \A b \in Buckets :
         /\ b \in Charged(r) => hits'[b] = hits[b] \cup {n} /\ granted'[b] = granted[b] \cup {n}
         /\ b \notin Charged(r) => hits'[b] = hits[b] /\ granted'[b] = granted[b]
    BY DEF Adds, With
<1> SUFFICES ASSUME NEW b \in Buckets
             PROVE  /\ IsFiniteSet(granted'[b])
                    /\ Cardinality(hits'[b]) <= Limit(b)
                    /\ \A t \in 0..now : Cardinality(InWindow(granted'[b], b, t)) <= Limit(b)
    BY <1>2 DEF Bounded, InWindow
<1>4. CASE b \notin Charged(r)
    BY <1>4, <1>3, <1>1 DEF Bounded
<1>5. CASE b \in Charged(r)
  <2>1. /\ IsFiniteSet(granted[b]) /\ hits[b] \subseteq granted[b] /\ granted[b] \subseteq Members
        /\ Limit(b) \in Nat /\ Window(b) \in Nat /\ Cardinality(hits[b]) < Limit(b)
    BY <1>5, <1>1, BucketFacts DEF Bounded, TypeOK, HasRoom
  <2>2. IsFiniteSet(hits[b]) /\ Cardinality(hits[b]) \in Nat
    BY <2>1, FS_Subset, FS_CardinalityType
  <2>3. IsFiniteSet(hits[b] \cup {n}) /\ Cardinality(hits[b] \cup {n}) <= Limit(b)
    <3> HIDE DEF n
    <3>1. /\ IsFiniteSet(hits[b] \cup {n})
          /\ Cardinality(hits[b] \cup {n}) = IF n \in hits[b] THEN Cardinality(hits[b])
                                                            ELSE Cardinality(hits[b]) + 1
      BY <2>2, FS_AddElement
    <3> QED BY <3>1, <2>1, <2>2
  <2>4. IsFiniteSet(granted'[b])
    <3> HIDE DEF n
    <3>1. IsFiniteSet(granted[b] \cup {n})
      BY <2>1, FS_AddElement
    <3>2. granted'[b] = granted[b] \cup {n}
      BY <1>3, <1>5
    <3> QED BY <3>1, <3>2
  <2>5. ASSUME NEW t \in 0..now
        PROVE  Cardinality(InWindow(granted'[b], b, t)) <= Limit(b)
    <3>1. CASE t < a
      <4>1. InWindow(granted'[b], b, t) = InWindow(granted[b], b, t)
        BY <3>1, <1>2, <1>3, <1>5 DEF InWindow
      <4> QED BY <4>1, <1>1 DEF Bounded
    <3>2. CASE a <= t
      <4>1. InWindow(granted'[b], b, t) \subseteq hits[b] \cup {n}
        <5>1. ASSUME NEW m \in granted[b], t - Window(b) < m.at PROVE m \in hits[b]
          <6>1. m.at \in Nat
            BY <2>1 DEF Members
          <6> QED BY <6>1, <5>1, <3>2, <1>2, <2>1, <1>1, <1>5 DEF SeesAll
        <5> QED BY <5>1, <1>3, <1>5 DEF InWindow
      <4>2. Cardinality(InWindow(granted'[b], b, t)) <= Cardinality(hits[b] \cup {n})
        BY <4>1, <2>3, FS_Subset
      <4>3. IsFiniteSet(InWindow(granted'[b], b, t))
        BY <4>1, <2>3, FS_Subset
      <4> QED BY <4>2, <4>3, <2>3, <2>1, FS_CardinalityType
    <3> QED BY <3>1, <3>2, <1>2
  <2> QED BY <2>3, <2>4, <2>5, <1>3, <1>5
<1> QED BY <1>4, <1>5

LEMMA AddsKeep ==
    ASSUME LimiterInv, NEW r \in Requests, NEW s \in Steps, NEW l \in Nat,
           MayExecute(r), Adds(r), s \notin Open, s # "denied",
           s = "admitted" => l = call[r].lost,
           call' = [call EXCEPT ![r] = [@ EXCEPT !.step = s, !.lost = l]],
           now' = now, faults' \in Nat
    PROVE  LimiterInv'
<1> DEFINE n == Member(r)
<1>1. TypeOK /\ Times /\ call \in [Requests -> Calls] /\ call[r] \in Calls
    BY DEF LimiterInv, TypeOK
<1>2. /\ call' \in [Requests -> Calls]
      /\ call'[r].step = s /\ call'[r].at = call[r].at /\ call'[r].lost = l
      /\ \A q \in Requests \ {r} : call'[q] = call[q]
    BY <1>1 DEF Calls
<1>3. /\ n \in Members /\ n.at = call[r].at
    BY <1>1 DEF Member, Members, Calls
<1>4. \A b \in Buckets :
         /\ b \in Charged(r) => /\ hits'[b] = hits[b] \cup {n} /\ granted'[b] = granted[b] \cup {n}
                                /\ until'[b] = now + Window(b)
         /\ b \notin Charged(r) => hits'[b] = hits[b] /\ granted'[b] = granted[b] /\ until'[b] = until[b]
    BY DEF Adds, With
<1>5. stale' = stale \cup UNION {Watching(b) : b \in Charged(r)}
    BY DEF Adds
<1>6. TypeOK'
  <2>1. hits' \in [Buckets -> SUBSET Members]
    BY <1>1, <1>3 DEF TypeOK, Adds, With
  <2>2. granted' \in [Buckets -> SUBSET Members]
    BY <1>1, <1>3 DEF TypeOK, Adds, With
  <2>3. until' \in [Buckets -> Nat]
    BY <1>1, BucketFacts DEF TypeOK, Adds
  <2>4. stale' \subseteq Requests
    BY <1>1, <1>5 DEF TypeOK, Watching
  <2>5. \A b \in Buckets : hits'[b] \subseteq granted'[b]
    BY <1>1, <1>4 DEF TypeOK
  <2> QED BY <2>1, <2>2, <2>3, <2>4, <2>5, <1>1, <1>2 DEF TypeOK
<1>7. Times'
  <2>1. \A q \in Requests : call'[q].at <= now'
    BY <1>1, <1>2 DEF Times
  <2>2. \A b \in Buckets : \A m \in granted'[b] : m.at <= now' /\ (m \in hits'[b] \/ m.at + Window(b) <= now')
    BY <1>1, <1>3, <1>4 DEF Times
  <2>3. \A b \in Buckets : \A m \in hits'[b] : m.at + Window(b) <= until'[b]
    <3> SUFFICES ASSUME NEW b \in Buckets, NEW m \in hits'[b] PROVE m.at + Window(b) <= until'[b]
      OBVIOUS
    <3>1. CASE b \notin Charged(r)
      BY <3>1, <1>4, <1>1 DEF Times
    <3>2. CASE b \in Charged(r)
      <4>1. m \in Members /\ m.at \in Nat /\ now \in Nat /\ Window(b) \in Nat
        BY <3>2, <1>3, <1>4, <1>1, BucketFacts DEF TypeOK, Members
      <4>2. m.at <= now
        BY <3>2, <1>3, <1>4, <1>1 DEF Times, TypeOK
      <4> QED BY <4>1, <4>2, <3>2, <1>4
    <3> QED BY <3>1, <3>2
  <2>4. \A b \in Buckets : until'[b] <= now' + Window(b)
    BY <1>1, <1>4, BucketFacts DEF Times, TypeOK
  <2> QED BY <2>1, <2>2, <2>3, <2>4 DEF Times
<1>8. Transactions'
  <2> SUFFICES ASSUME NEW q \in Requests
               PROVE  /\ Watches(q)' => SeesAll(q)'
                      /\ Watches(q)' /\ call'[q].step = "executing" /\ call'[q].denied = None => HasRoom(q)'
                      /\ Watches(q)' /\ call'[q].step = "executing" /\ call'[q].denied # None => HasOldest(q)'
                      /\ call'[q].step = "denied" => HasOldest(q)'
    BY DEF Transactions
  <2>1. CASE q = r
    BY <2>1, <1>2 DEF Watches
  <2>2. CASE q # r
    <3>1. call'[q] = call[q] /\ stale \subseteq stale'
      BY <2>2, <1>2, <1>5
    <3>2. \A b \in Buckets : granted[b] \subseteq granted'[b]
      BY <1>4
    <3>3. ASSUME q \notin stale', call[q].step \in Open, NEW b \in Charged(q)
          PROVE  hits'[b] = hits[b] /\ granted'[b] = granted[b]
      <4>1. b \notin Charged(r)
        BY <3>3, <1>5 DEF Watching
      <4> QED BY <4>1, <1>4, BucketFacts
    <3> QED BY <3>1, <3>2, <3>3, OthersKeep
  <2> QED BY <2>1, <2>2
<1>9. Bounded'
    BY AddsFit
<1>10. Recorded'
  <2> SUFFICES ASSUME NEW q \in Requests, call'[q].step = "admitted", NEW b \in Charged(q)
               PROVE  Member(q)' \in granted'[b]
    BY DEF Recorded
  <2>1. CASE q = r
    <3>1. Member(q)' = n
      BY <2>1, <1>2 DEF Member
    <3> QED BY <3>1, <2>1, <1>4, BucketFacts
  <2>2. CASE q # r
    <3>1. Member(q)' = Member(q) /\ Member(q) \in granted[b]
      BY <2>2, <1>2 DEF Member, Recorded, LimiterInv
    <3> QED BY <3>1, <1>4, BucketFacts
  <2> QED BY <2>1, <2>2
<1> QED BY <1>6, <1>7, <1>8, <1>9, <1>10 DEF LimiterInv

-----------------------------------------------------------------------------
\* A request prunes its buckets and counts what is left.

LEMMA OldestIsLeast ==
    ASSUME NEW S, S \subseteq Members, S # {}
    PROVE  /\ \E o \in S : o.at = Oldest(S)
           /\ Oldest(S) \in Nat /\ \A m \in S : Oldest(S) <= m.at
<1> DEFINE T == {m.at : m \in S}
<1>1. T \subseteq Nat /\ T # {}
    BY DEF Members
<1>2. \E t \in T : \A u \in T : t <= u
    <2> HIDE DEF T
    <2> QED BY <1>1, LeastExists
<1>3. \E t \in T : \A m \in S : t <= m.at
    BY <1>2
<1>4. Oldest(S) \in T /\ \A m \in S : Oldest(S) <= m.at
    BY <1>3 DEF Oldest
<1> QED BY <1>1, <1>4

\* The wait in seconds, turned back into ticks, is not shorter than the wait.
LEMMA RoundsUp ==
    ASSUME NEW x \in Nat, x >= 1
    PROVE  /\ RetryAfter(x) \in Nat /\ Second * RetryAfter(x) \in Nat
           /\ x <= Second * RetryAfter(x)
<1>1. Second \in Nat /\ Second >= 1
    BY RuleAssumption
<1> DEFINE y == x + Second - 1
           d == y \div Second
<1>2. y \in Nat
    BY <1>1
<1>3. d \in Nat /\ y = Second * d + (y % Second) /\ y % Second \in 0..(Second - 1)
    BY <1>1, <1>2
<1>4. RetryAfter(x) = d
    BY DEF RetryAfter
<1>5. Second * d \in Nat
    BY <1>1, <1>3
<1>6. x <= Second * d
    <2> HIDE DEF d
    <2> QED BY <1>1, <1>3, <1>5
<1> QED BY <1>3, <1>4, <1>5, <1>6

\* What a request is told when a bucket is full.
LEMMA ReadFinds ==
    ASSUME LimiterInv, NEW r \in Requests, call[r].step = "reading",
           NEW b \in Charged(r), Cardinality(Live(b, call[r].at)) >= Limit(b)
    PROVE  /\ Second * Told(r, b) \in Nat
           /\ \E o \in hits[b] :
                /\ call[r].at < o.at + Window(b)
                /\ o.at + Window(b) <= call[r].at + Second * Told(r, b)
<1> DEFINE S == Live(b, call[r].at)
           x == Oldest(S) + Window(b) - call[r].at
<1>1. /\ TypeOK /\ Bounded /\ b \in Buckets /\ Limit(b) \in Nat \ {0} /\ Window(b) \in Nat
    BY BucketFacts DEF LimiterInv
<1>2. /\ call[r].at \in Nat /\ hits[b] \subseteq Members
    BY <1>1 DEF TypeOK, Calls
<1>3. S \subseteq hits[b] /\ \A m \in S : m.at > call[r].at - Window(b)
    BY DEF Live
<1>4. S # {}
    BY <1>1, FS_EmptySet
<1>5. PICK o \in S : o.at = Oldest(S) /\ Oldest(S) \in Nat
    BY <1>2, <1>3, <1>4, OldestIsLeast
<1>6. x \in Nat /\ x >= 1 /\ o.at \in Nat /\ x = o.at + Window(b) - call[r].at
    BY <1>1, <1>2, <1>3, <1>5
<1>7. Told(r, b) = RetryAfter(x)
    BY DEF Told
<1>8. Second * Told(r, b) \in Nat /\ x <= Second * Told(r, b)
    <2> HIDE DEF x
    <2> QED BY <1>6, <1>7, RoundsUp
<1>9. o \in hits[b] /\ call[r].at < o.at + Window(b)
    BY <1>1, <1>2, <1>3, <1>6
<1>10. o.at + Window(b) <= call[r].at + Second * Told(r, b)
    <2> DEFINE w == Second * Told(r, b)
    <2>1. w \in Nat /\ x <= w
      BY <1>8
    <2> HIDE DEF w
    <2>2. o.at + Window(b) <= call[r].at + w
      BY <2>1, <1>6, <1>1, <1>2
    <2> QED BY <2>2 DEF w
<1> QED BY <1>8, <1>9, <1>10

LEMMA ReadKeeps ==
    ASSUME LimiterInv, NEW r \in Requests, Read(r)
    PROVE  LimiterInv'
<1> DEFINE a == call[r].at
           pruned == {b \in Charged(r) : Live(b, a) # hits[b]}
<1>1. /\ TypeOK /\ Times /\ Bounded /\ call \in [Requests -> Calls] /\ call[r] \in Calls
      /\ a \in Nat /\ now \in Nat /\ a <= now
    BY DEF LimiterInv, TypeOK, Calls, Times
<1>2. /\ call[r].step = "reading"
      /\ now' = now /\ until' = until /\ granted' = granted /\ faults' = faults
      /\ stale' = stale \cup UNION {Watching(b) : b \in pruned}
      /\ hits' = [b \in Buckets |-> IF b \in pruned THEN Live(b, a) ELSE hits[b]]
    BY DEF Read
<1>3. \A b \in Buckets :
         /\ hits'[b] \subseteq hits[b]
         /\ b \in Charged(r) => hits'[b] = Live(b, a)
         /\ b \notin pruned => hits'[b] = hits[b]
    BY <1>2 DEF Live
<1>4. /\ Full(r) # {} => Refusing(r) \in Full(r) /\ Refusing(r) \in Charged(r)
      /\ Charged(r) \subseteq Buckets
    BY BucketFacts DEF Full, Refusing, Charged
<1>5. Full(r) # {} =>
         /\ Second * Told(r, Refusing(r)) \in Nat
         /\ \E o \in hits[Refusing(r)] :
              /\ a < o.at + Window(Refusing(r))
              /\ o.at + Window(Refusing(r)) <= a + Second * Told(r, Refusing(r))
    BY <1>2, <1>4, ReadFinds DEF Full
<1> DEFINE d == IF Full(r) = {} THEN None ELSE Refusing(r)
           w == IF Full(r) = {} THEN 0 ELSE a + Second * Told(r, Refusing(r))
<1>6. d \in Buckets \cup {None} /\ w \in Nat
    BY <1>1, <1>4, <1>5
<1>7. /\ call' \in [Requests -> Calls]
      /\ call'[r].step = "executing" /\ call'[r].at = a
      /\ call'[r].denied = d /\ call'[r].retryAt = w
      /\ \A q \in Requests \ {r} : call'[q] = call[q]
  <2>1. call' = [call EXCEPT ![r] = [call[r] EXCEPT !.step = "executing", !.denied = d, !.retryAt = w]]
    BY DEF Read
  <2> HIDE DEF d, w
  <2> QED BY <2>1, <1>1, <1>6 DEF Calls, Steps
<1>8. TypeOK'
  <2>1. hits' \in [Buckets -> SUBSET Members]
    BY <1>1, <1>2 DEF TypeOK, Live
  <2>2. stale' \subseteq Requests
    BY <1>1, <1>2 DEF TypeOK, Watching
  <2> QED BY <2>1, <2>2, <1>1, <1>2, <1>3, <1>7 DEF TypeOK
<1>9. Times'
  <2>1. ASSUME NEW b \in Buckets, NEW m \in granted[b], m \notin hits'[b]
        PROVE  m.at + Window(b) <= now
    <3>1. m.at \in Nat /\ Window(b) \in Nat
      BY <1>1, BucketFacts DEF TypeOK, Members
    <3>2. CASE m \in hits[b]
      <4>1. b \in Charged(r) /\ m \notin Live(b, a)
        BY <3>2, <2>1, <1>3
      <4>2. m.at <= a - Window(b)
        BY <4>1, <3>1, <3>2, <1>1 DEF Live
      <4> QED BY <4>2, <3>1, <1>1
    <3>3. CASE m \notin hits[b]
      BY <3>3, <1>1 DEF Times
    <3> QED BY <3>2, <3>3
  <2>2. \A b \in Buckets : \A m \in granted'[b] : m.at <= now' /\ (m \in hits'[b] \/ m.at + Window(b) <= now')
    BY <2>1, <1>1, <1>2 DEF Times
  <2>3. \A q \in Requests : call'[q].at <= now'
    BY <1>1, <1>2, <1>7 DEF Times
  <2>4. \A b \in Buckets : \A m \in hits'[b] : m.at + Window(b) <= until'[b]
    BY <1>1, <1>2, <1>3 DEF Times
  <2>5. \A b \in Buckets : until'[b] <= now' + Window(b)
    BY <1>1, <1>2 DEF Times
  <2> QED BY <2>2, <2>3, <2>4, <2>5 DEF Times
<1>10. Bounded'
  <2> SUFFICES ASSUME NEW b \in Buckets
               PROVE  Cardinality(hits'[b]) <= Limit(b)
    BY <1>1, <1>2 DEF Bounded, InWindow
  <2>1. IsFiniteSet(hits[b]) /\ hits'[b] \subseteq hits[b] /\ Cardinality(hits[b]) <= Limit(b)
    BY <1>1, <1>3, FS_Subset DEF Bounded, TypeOK
  <2>2. Cardinality(hits'[b]) <= Cardinality(hits[b]) /\ IsFiniteSet(hits'[b])
    BY <2>1, FS_Subset
  <2> QED BY <2>1, <2>2, FS_CardinalityType, BucketFacts
<1>11. Transactions'
  <2> SUFFICES ASSUME NEW q \in Requests
               PROVE  /\ Watches(q)' => SeesAll(q)'
                      /\ Watches(q)' /\ call'[q].step = "executing" /\ call'[q].denied = None => HasRoom(q)'
                      /\ Watches(q)' /\ call'[q].step = "executing" /\ call'[q].denied # None => HasOldest(q)'
                      /\ call'[q].step = "denied" => HasOldest(q)'
    BY DEF Transactions
  <2>1. ASSUME q \notin stale', call[q].step \in Open, NEW b \in Charged(q)
        PROVE  hits'[b] = hits[b] /\ granted'[b] = granted[b]
    <3>1. b \notin pruned
      BY <2>1, <1>2 DEF Watching
    <3> QED BY <3>1, <1>2, <1>3, BucketFacts
  <2>2. CASE q # r
    <3>1. call'[q] = call[q] /\ stale \subseteq stale'
      BY <2>2, <1>2, <1>7
    <3>2. \A b \in Buckets : granted[b] \subseteq granted'[b]
      BY <1>2
    <3> QED BY <3>1, <3>2, <2>1, OthersKeep
  <2>3. CASE q = r
    <3> SUFFICES ASSUME Watches(r)'
                 PROVE  SeesAll(r)' /\ (d = None => HasRoom(r)') /\ (d # None => HasOldest(r)')
      BY <2>3, <1>7
    <3>1. /\ r \notin stale' /\ r \notin stale
          /\ \A b \in Charged(r) : hits'[b] = hits[b] /\ Live(b, a) = hits[b]
      BY <2>1, <2>3, <1>2, <1>3, <1>4 DEF Watches, Open
    <3>2. SeesAll(r)
      BY <3>1, <1>2 DEF LimiterInv, Transactions, Watches, Open
    <3>3. SeesAll(r)'
      BY <3>1, <3>2, <1>2, <1>7 DEF SeesAll
    <3>4. ASSUME d = None PROVE HasRoom(r)'
      <4>1. Full(r) = {}
        BY <3>4, <1>4, BucketFacts
      <4>2. ASSUME NEW b \in Charged(r) PROVE Cardinality(hits'[b]) < Limit(b)
        <5>1. ~(Cardinality(hits[b]) >= Limit(b))
          BY <4>1, <3>1 DEF Full
        <5>2. Cardinality(hits[b]) \in Nat /\ Limit(b) \in Nat
          BY <1>1, <1>4, BucketFacts, FS_Subset, FS_CardinalityType DEF Bounded, TypeOK
        <5> QED BY <5>1, <5>2, <3>1
      <4> QED BY <4>2 DEF HasRoom
    <3>5. ASSUME d # None PROVE HasOldest(r)'
      <4>1. Full(r) # {} /\ d = Refusing(r) /\ d \in Charged(r) /\ d \in Buckets
        BY <3>5, <1>4
      <4>2. PICK o \in hits[d] : a < o.at + Window(d) /\ o.at + Window(d) <= w
        BY <4>1, <1>5
      <4>3. o \in granted[d] /\ o.at <= a /\ o.at \in Nat /\ Window(d) \in Nat
        BY <4>1, <3>2, <1>1, BucketFacts DEF SeesAll, TypeOK, Members
      <4>4. a <= w
        BY <4>2, <4>3, <1>1, <1>6
      <4> HIDE DEF d, w
      <4> QED BY <4>1, <4>2, <4>3, <4>4, <1>2, <1>7 DEF HasOldest
    <3> QED BY <3>3, <3>4, <3>5
  <2> QED BY <2>2, <2>3
<1>12. Recorded'
    BY <1>1, <1>2, <1>7 DEF Recorded, LimiterInv, Member
<1> QED BY <1>8, <1>9, <1>10, <1>11, <1>12 DEF LimiterInv

-----------------------------------------------------------------------------
\* Time passes: a window that ends later begins later, and what Redis drops is older
\* than any window that begins now.

LEMMA TickKeeps ==
    ASSUME LimiterInv, Tick
    PROVE  LimiterInv'
<1>1. /\ TypeOK /\ Times /\ Bounded /\ now \in Nat
    BY DEF LimiterInv, TypeOK
<1>2. /\ now' = now + 1 /\ until' = until /\ granted' = granted /\ faults' = faults /\ call' = call
      /\ stale' = stale \cup UNION {Watching(b) : b \in Gone}
      /\ hits' = [b \in Buckets |-> IF b \in Gone THEN {} ELSE hits[b]]
    BY DEF Tick
<1>3. \A b \in Buckets : /\ b \in Gone => hits'[b] = {} /\ until[b] <= now + 1
                         /\ b \notin Gone => hits'[b] = hits[b]
    BY <1>2 DEF Gone
<1>4. TypeOK'
  <2>1. hits' \in [Buckets -> SUBSET Members]
    BY <1>1, <1>2 DEF TypeOK
  <2>2. stale' \subseteq Requests
    BY <1>1, <1>2 DEF TypeOK, Watching
  <2>3. \A b \in Buckets : hits'[b] \subseteq granted'[b]
    BY <1>1, <1>2, <1>3 DEF TypeOK
  <2> QED BY <2>1, <2>2, <2>3, <1>1, <1>2 DEF TypeOK
<1>5. Times'
  <2>1. ASSUME NEW b \in Buckets, NEW m \in granted[b]
        PROVE  m.at <= now + 1 /\ (m \in hits'[b] \/ m.at + Window(b) <= now + 1)
    <3>1. m.at \in Nat /\ Window(b) \in Nat /\ until[b] \in Nat
      BY <1>1, BucketFacts DEF TypeOK, Members
    <3>2. m.at <= now /\ (m \in hits[b] \/ m.at + Window(b) <= now)
      BY <1>1 DEF Times
    <3>3. m \in hits[b] => m.at + Window(b) <= until[b]
      BY <1>1 DEF Times
    <3> QED BY <3>1, <3>2, <3>3, <1>1, <1>3
  <2>2. \A q \in Requests : call'[q].at <= now'
    BY <1>1, <1>2 DEF Times, TypeOK, Calls
  <2>3. \A b \in Buckets : \A m \in hits'[b] : m.at + Window(b) <= until'[b]
    BY <1>1, <1>2, <1>3 DEF Times
  <2>4. \A b \in Buckets : until'[b] <= now' + Window(b)
    BY <1>1, <1>2, BucketFacts DEF Times, TypeOK
  <2> QED BY <2>1, <2>2, <2>3, <2>4, <1>2 DEF Times
<1>6. Bounded'
  <2> SUFFICES ASSUME NEW b \in Buckets
               PROVE  /\ Cardinality(hits'[b]) <= Limit(b)
                      /\ \A t \in 0..(now + 1) : Cardinality(InWindow(granted[b], b, t)) <= Limit(b)
    BY <1>1, <1>2 DEF Bounded, InWindow
  <2>1. IsFiniteSet(granted[b]) /\ Limit(b) \in Nat /\ Window(b) \in Nat
    BY <1>1, BucketFacts DEF Bounded
  <2>2. Cardinality(hits'[b]) <= Limit(b)
    <3>1. Cardinality({}) <= Limit(b)
      BY <2>1, FS_EmptySet
    <3>2. Cardinality(hits[b]) <= Limit(b)
      BY <1>1 DEF Bounded
    <3> QED BY <3>1, <3>2, <1>3
  <2>3. Cardinality(InWindow(granted[b], b, now + 1)) <= Limit(b)
    <3>1. InWindow(granted[b], b, now + 1) \subseteq InWindow(granted[b], b, now)
      <4> SUFFICES ASSUME NEW m \in InWindow(granted[b], b, now + 1)
                   PROVE  m \in InWindow(granted[b], b, now)
        OBVIOUS
      <4>1. m \in granted[b] /\ now + 1 - Window(b) < m.at
        BY <1>1, <2>1 DEF InWindow
      <4>2. m.at \in Nat /\ m.at <= now
        BY <4>1, <1>1 DEF TypeOK, Members, Times
      <4>3. now - Window(b) < m.at
        BY <4>1, <4>2, <1>1, <2>1
      <4> QED BY <4>1, <4>2, <4>3 DEF InWindow
    <3>2. InWindow(granted[b], b, now) \subseteq granted[b]
      BY DEF InWindow
    <3>3. IsFiniteSet(InWindow(granted[b], b, now))
      BY <3>2, <2>1, FS_Subset
    <3>4. /\ Cardinality(InWindow(granted[b], b, now + 1)) <= Cardinality(InWindow(granted[b], b, now))
          /\ IsFiniteSet(InWindow(granted[b], b, now + 1))
      BY <3>1, <3>3, FS_Subset
    <3>5. Cardinality(InWindow(granted[b], b, now)) <= Limit(b)
      BY <1>1 DEF Bounded
    <3> QED BY <3>3, <3>4, <3>5, <2>1, FS_CardinalityType
  <2>4. ASSUME NEW t \in 0..(now + 1) PROVE Cardinality(InWindow(granted[b], b, t)) <= Limit(b)
    <3>1. t \in 0..now \/ t = now + 1
      BY <1>1
    <3> QED BY <3>1, <2>3, <1>1 DEF Bounded
  <2> QED BY <2>2, <2>4
<1>7. Transactions'
  <2> SUFFICES ASSUME NEW q \in Requests
               PROVE  /\ Watches(q)' => SeesAll(q)'
                      /\ Watches(q)' /\ call'[q].step = "executing" /\ call'[q].denied = None => HasRoom(q)'
                      /\ Watches(q)' /\ call'[q].step = "executing" /\ call'[q].denied # None => HasOldest(q)'
                      /\ call'[q].step = "denied" => HasOldest(q)'
    BY DEF Transactions
  <2>1. call'[q] = call[q] /\ stale \subseteq stale'
    BY <1>2
  <2>2. \A b \in Buckets : granted[b] \subseteq granted'[b]
    BY <1>2
  <2>3. ASSUME q \notin stale', call[q].step \in Open, NEW b \in Charged(q)
        PROVE  hits'[b] = hits[b] /\ granted'[b] = granted[b]
    <3>1. b \notin Gone
      BY <2>3, <1>2 DEF Watching
    <3> QED BY <3>1, <1>2, <1>3, BucketFacts
  <2> QED BY <2>1, <2>2, <2>3, OthersKeep
<1>8. Recorded'
    BY <1>2 DEF Recorded, LimiterInv, Member
<1> QED BY <1>4, <1>5, <1>6, <1>7, <1>8 DEF LimiterInv

-----------------------------------------------------------------------------
LEMMA LimiterIsKept == LimiterInv /\ [Next]_vars => LimiterInv'
<1> SUFFICES ASSUME LimiterInv, [Next]_vars PROVE LimiterInv'
    OBVIOUS
<1>1. TypeOK /\ call \in [Requests -> Calls] /\ faults \in Nat
    BY DEF LimiterInv, TypeOK
<1>2. ASSUME NEW r \in Requests, Works(r) PROVE LimiterInv'
  <2>1. CASE Watch(r)
    BY <2>1, WatchKeeps
  <2>2. CASE Read(r)
    BY <2>2, ReadKeeps
  <2>3. CASE Retry(r)
    <3>1. Moves(r, "calling")
      BY <2>3, <1>1 DEF Retry, Moves
    <3> QED BY <3>1, MoveKeeps DEF Steps, Open
  <2>4. CASE Deny(r)
    <3>1. Moves(r, "denied")
      BY <2>4, <1>1 DEF Deny, Moves
    <3>2. HasOldest(r)
      BY <2>4 DEF Deny, LimiterInv, Transactions, Watches, Open
    <3> QED BY <3>1, <3>2, MoveKeeps DEF Steps, Open
  <2>5. CASE Admit(r)
    <3>1. call[r] \in Calls /\ call[r].lost \in Nat
      BY <1>1 DEF Calls
    <3>2. call' = [call EXCEPT ![r] = [@ EXCEPT !.step = "admitted", !.lost = call[r].lost]]
      BY <2>5, <1>1, <3>1 DEF Admit, Calls
    <3>3. MayExecute(r) /\ Adds(r) /\ now' = now /\ faults' = faults
      BY <2>5 DEF Admit
    <3>4. "admitted" \in Steps /\ "admitted" \notin Open
      BY DEF Steps, Open
    <3> QED BY <3>1, <3>2, <3>3, <3>4, <1>1, AddsKeep
  <2> QED BY <1>2, <2>1, <2>2, <2>3, <2>4, <2>5 DEF Works
<1>3. ASSUME NEW r \in Requests, Trouble(r) PROVE LimiterInv'
  <2>1. CASE Unreachable(r)
    <3>1. CASE FailOpen
      <4>1. Moves(r, "unmetered")
        BY <3>1, <2>1, <1>1 DEF Unreachable, Moves
      <4> QED BY <4>1, MoveKeeps DEF Steps, Open
    <3>2. CASE ~FailOpen
      <4>1. Moves(r, "refused")
        BY <3>2, <2>1, <1>1 DEF Unreachable, Moves
      <4> QED BY <4>1, MoveKeeps DEF Steps, Open
    <3> QED BY <3>1, <3>2
  <2>2. CASE Breaks(r)
    <3>1. Moves(r, "calling")
      BY <2>2, <1>1 DEF Breaks, Moves
    <3> QED BY <3>1, MoveKeeps DEF Steps, Open
  <2>3. CASE LosesReply(r)
    <3>1. call[r] \in Calls /\ call[r].lost + 1 \in Nat
      BY <1>1 DEF Calls
    <3>2. /\ MayExecute(r) /\ Adds(r) /\ now' = now /\ faults' \in Nat
          /\ call' = [call EXCEPT ![r] = [@ EXCEPT !.step = "calling", !.lost = call[r].lost + 1]]
      BY <2>3, <1>1 DEF LosesReply
    <3>3. "calling" \in Steps /\ "calling" \notin Open
      BY DEF Steps, Open
    <3> QED BY <3>1, <3>2, <3>3, AddsKeep
  <2> QED BY <1>3, <2>1, <2>2, <2>3 DEF Trouble
<1>4. CASE Tick
    BY <1>4, TickKeeps
<1>5. CASE UNCHANGED vars
  <2> USE <1>5 DEF vars
  <2>1. TypeOK' /\ Times' /\ Bounded' /\ Recorded'
    BY DEF LimiterInv, TypeOK, Times, Bounded, Recorded, InWindow, Member
  <2>2. Transactions'
    BY DEF LimiterInv, Transactions, Watches, SeesAll, HasRoom, HasOldest
  <2> QED BY <2>1, <2>2 DEF LimiterInv
<1> QED BY <1>2, <1>3, <1>4, <1>5 DEF Next

LEMMA SpecKeeps == Spec => []LimiterInv
<1> QED BY LimiterHolds, LimiterIsKept, PTL DEF Spec

\* The buckets, the transactions and the members keep their shape, and a bucket holds
\* nothing that was not added to it.
THEOREM TypeCorrect == Spec => []TypeOK
<1>1. LimiterInv => TypeOK
    BY DEF LimiterInv
<1> QED BY <1>1, SpecKeeps, PTL

\* No window of a bucket lets in more requests than its limit, wherever the window is
\* laid, however the transactions overlap and however often the connection breaks, and
\* whoever was let in is counted in both of its buckets (rate_limit.py:4-21).
THEOREM WindowsAreBounded == Spec => []WindowsHold
<1>1. LimiterInv => WindowsHold
    BY DEF LimiterInv, Bounded, Recorded, WindowsHold
<1> QED BY <1>1, SpecKeeps, PTL

\* The wait a refused caller is told ends after the oldest hit of the bucket has left
\* the window, so that the bucket has a place if nobody else came (rate_limit.py:235-238).
THEOREM WaitIsEnough == Spec => []RetryAfterIsEnough
<1>1. LimiterInv => RetryAfterIsEnough
  <2> SUFFICES ASSUME LimiterInv, NEW r \in Requests, call[r].step = "denied"
               PROVE  LET b == call[r].denied
                          left == {m \in granted[b] : m.at <= call[r].at
                                                      /\ m.at > call[r].retryAt - Window(b)}
                      IN  Cardinality(left) < Limit(b)
    BY DEF RetryAfterIsEnough
  <2> DEFINE b == call[r].denied
             a == call[r].at
             left == {m \in granted[b] : m.at <= a /\ m.at > call[r].retryAt - Window(b)}
             seen == InWindow(granted[b], b, a)
  <2>1. HasOldest(r) /\ TypeOK /\ Times /\ Bounded
    BY DEF LimiterInv, Transactions
  <2>2. /\ b \in Buckets /\ Limit(b) \in Nat /\ Window(b) \in Nat
        /\ a \in 0..now /\ call[r].retryAt \in Nat /\ granted[b] \subseteq Members
    BY <2>1, BucketFacts DEF HasOldest, TypeOK, Calls, Times
  <2>3. PICK o \in granted[b] : /\ o.at <= a /\ a < o.at + Window(b)
                                /\ o.at + Window(b) <= call[r].retryAt /\ a <= call[r].retryAt
    BY <2>1 DEF HasOldest
  <2>4. \A m \in granted[b] : m.at \in Nat
    BY <2>2 DEF Members
  <2>5. o \in seen /\ left \subseteq seen \ {o}
    BY <2>2, <2>3, <2>4 DEF InWindow
  <2>6. IsFiniteSet(seen) /\ Cardinality(seen) <= Limit(b) /\ Cardinality(seen) \in Nat
    <3>1. seen \subseteq granted[b]
      BY DEF InWindow
    <3> QED BY <3>1, <2>1, <2>2, FS_Subset, FS_CardinalityType DEF Bounded
  <2> HIDE DEF seen, left
  <2>7. IsFiniteSet(seen \ {o}) /\ Cardinality(seen \ {o}) = Cardinality(seen) - 1
    BY <2>5, <2>6, FS_RemoveElement
  <2>8. IsFiniteSet(left) /\ Cardinality(left) <= Cardinality(seen \ {o})
    BY <2>5, <2>7, FS_Subset
  <2>9. Cardinality(left) < Limit(b)
    BY <2>6, <2>7, <2>8, <2>2, FS_CardinalityType
  <2> QED BY <2>9 DEF left
<1> QED BY <1>1, SpecKeeps, PTL

-----------------------------------------------------------------------------
(***************************************************************************)
(* A stream opens as what was sealed, or fails: for any document, chunk    *)
(* size, header, and rearrangement or truncation of its frames.  The       *)
(* inductive invariant says what each frame holds, which is a multiple of  *)
(* the chunk size for all but the last, and that the reader has yielded as *)
(* many chunks as it has opened frames; of an untouched object also where  *)
(* in it the reader stands.                                                *)
(***************************************************************************)

LEMMA BytesFacts ==
    ASSUME NEW a \in Nat, NEW b \in Nat, a <= b
    PROVE  /\ Bytes(a, b) \in Seq(Nat) /\ Len(Bytes(a, b)) = b - a
           /\ \A i \in 1..b - a : Bytes(a, b)[i] = a + i
           /\ Bytes(a, b) # NoBlock
<1>1. (IF b > a THEN b - a ELSE 0) = b - a
    OBVIOUS
<1>2. Bytes(a, b) = [i \in 1..b - a |-> a + i]
    BY <1>1 DEF Bytes
<1>3. Bytes(a, b) \in Seq(Nat) /\ Len(Bytes(a, b)) = b - a
    BY <1>2
<1>4. Bytes(a, b) # NoBlock
  <2>1. NoBlock[1] = 0 /\ Len(NoBlock) = 1
    BY DEF NoBlock
  <2> QED BY <1>2, <1>3, <2>1
<1> QED BY <1>2, <1>3, <1>4

LEMMA BytesJoin ==
    ASSUME NEW a \in Nat, NEW b \in Nat, a <= b
    PROVE  Bytes(0, a) \o Bytes(a, b) = Bytes(0, b)
<1> DEFINE u == Bytes(0, a)
           v == Bytes(a, b)
           w == Bytes(0, b)
<1>1. /\ u \in Seq(Nat) /\ Len(u) = a /\ \A i \in 1..a : u[i] = i
      /\ v \in Seq(Nat) /\ Len(v) = b - a /\ \A i \in 1..b - a : v[i] = a + i
      /\ w \in Seq(Nat) /\ Len(w) = b /\ \A i \in 1..b : w[i] = i
  <2>1. u \in Seq(Nat) /\ Len(u) = a - 0 /\ \A i \in 1..a - 0 : u[i] = 0 + i
    BY 0 \in Nat, BytesFacts
  <2>2. v \in Seq(Nat) /\ Len(v) = b - a /\ \A i \in 1..b - a : v[i] = a + i
    BY BytesFacts
  <2>3. w \in Seq(Nat) /\ Len(w) = b - 0 /\ \A i \in 1..b - 0 : w[i] = 0 + i
    BY 0 \in Nat, BytesFacts
  <2> HIDE DEF u, v, w
  <2> QED BY <2>1, <2>2, <2>3
<1> HIDE DEF u, v, w
<1>2. u \o v \in Seq(Nat) /\ Len(u \o v) = b
    BY <1>1
<1>3. \A i \in 1..b : (u \o v)[i] = i
    BY <1>1
<1>4. u \o v = w
  <2> DEFINE x == u \o v
  <2>1. x \in Seq(Nat) /\ Len(x) = b /\ \A i \in 1..b : x[i] = i
    BY <1>2, <1>3
  <2> HIDE DEF x
  <2>2. x = w
    BY <1>1, <2>1
  <2> QED BY <2>2 DEF x
<1> QED BY <1>4 DEF u, v, w

\* The units of k frames of one size, and of those with one more frame behind them.
LEMMA UnitsOfChunks ==
    ASSUME NEW fs, NEW k \in Nat, NEW f \in Nat, DOMAIN fs = 1..k,
           \A i \in 1..k : Size(fs[i]) = f
    PROVE  Total(fs) = k * f
<1>1. UnitsOf(fs) = (1..k) \X (1..f)
  <2>1. ASSUME NEW x PROVE x \in UnitsOf(fs) <=> x \in (1..k) \X (1..f)
    <3>1. x \in UnitsOf(fs) <=> \E i \in 1..k : x \in {i} \X (1..Size(fs[i]))
      BY DEF UnitsOf
    <3> QED BY <3>1
  <2> QED BY <2>1
<1>2. /\ IsFiniteSet(1..k) /\ IsFiniteSet(1..f)
      /\ Cardinality(1..k) = k /\ Cardinality(1..f) = f
    BY FS_Interval
<1>3. Cardinality((1..k) \X (1..f)) = Cardinality(1..k) * Cardinality(1..f)
    BY <1>2, FS_Product
<1> QED BY <1>1, <1>2, <1>3 DEF Total

LEMMA UnitsOfStream ==
    ASSUME NEW fs, NEW k \in Nat, NEW f \in Nat, NEW last \in Nat, DOMAIN fs = 1..k + 1,
           \A i \in 1..k : Size(fs[i]) = f, Size(fs[k + 1]) = last
    PROVE  Total(fs) = k * f + last
<1> DEFINE A == (1..k) \X (1..f)
           B == {k + 1} \X (1..last)
<1>1. UnitsOf(fs) = A \cup B
  <2>1. ASSUME NEW x PROVE x \in UnitsOf(fs) <=> x \in A \cup B
    <3>1. x \in UnitsOf(fs) <=> \E i \in 1..k + 1 : x \in {i} \X (1..Size(fs[i]))
      BY DEF UnitsOf
    <3>2. 1..k + 1 = (1..k) \cup {k + 1}
      OBVIOUS
    <3> QED BY <3>1, <3>2
  <2> QED BY <2>1
<1>2. /\ IsFiniteSet(1..k) /\ IsFiniteSet(1..f) /\ IsFiniteSet(1..last) /\ IsFiniteSet({k + 1})
      /\ Cardinality(1..k) = k /\ Cardinality(1..f) = f /\ Cardinality(1..last) = last
      /\ Cardinality({k + 1}) = 1
  <2>1. IsFiniteSet({k + 1}) /\ Cardinality({k + 1}) = 1
    BY FS_Singleton
  <2>2. \A n \in Nat : IsFiniteSet(1..n) /\ Cardinality(1..n) = n
    BY FS_Interval
  <2> QED BY <2>1, <2>2
<1>3. IsFiniteSet(A) /\ Cardinality(A) = k * f
  <2>1. IsFiniteSet(A) /\ Cardinality(A) = Cardinality(1..k) * Cardinality(1..f)
    BY <1>2, FS_Product
  <2> QED BY <1>2, <2>1
<1>4. IsFiniteSet(B) /\ Cardinality(B) = last
  <2>1. IsFiniteSet(B) /\ Cardinality(B) = Cardinality({k + 1}) * Cardinality(1..last)
    BY <1>2, FS_Product
  <2>2. 1 * last = last
    OBVIOUS
  <2> QED BY <1>2, <2>1, <2>2
<1>5. A \cap B = {}
    OBVIOUS
<1> HIDE DEF A, B
<1>6. Cardinality(A \cup B) = Cardinality(A) + Cardinality(B) - Cardinality(A \cap B)
    BY <1>3, <1>4, FS_Union
<1>7. Cardinality(A \cap B) = 0
    BY <1>5, FS_EmptySet
<1>8. k * f \in Nat
    OBVIOUS
<1>9. Total(fs) = k * f + last - 0
    BY <1>1, <1>3, <1>4, <1>6, <1>7 DEF Total
<1> QED BY <1>8, <1>9

LEMMA Products ==
    ASSUME NEW n \in Nat, NEW k \in Nat, NEW f \in Nat
    PROVE  /\ n * f \in Nat /\ (n + 1) * f = n * f + f /\ 0 * f = 0
           /\ n <= k => n * f <= k * f
<1>1. n <= k => (k - n) \in Nat /\ k * f = n * f + (k - n) * f
    OBVIOUS
<1>2. \A x \in Nat : x * f \in Nat
    OBVIOUS
<1> QED BY <1>1, <1>2

-----------------------------------------------------------------------------
ChunkFrame(k) == Frame(k - 1, Bytes((k - 1) * chunk, k * chunk), FALSE)
LastFrame(k) == Frame(k - 1, Bytes((k - 1) * chunk, length), TRUE)
Chunks(k) == \A i \in 1..k : frames[i] = ChunkFrame(i)

FormatInv ==
    /\ length \in Nat /\ chunk \in Nat \ {0}
    /\ frames \in Seq([index : Nat, plain : Seq(Nat), final : BOOLEAN])

WriterInv ==
    /\ writer \in [step : {"sealing", "sealed", "stored"}, fed : Nat, cut : Nat, pending : Seq(Nat)]
    /\ writer.cut <= writer.fed /\ writer.fed <= length

SealingInv ==
    writer.step = "sealing" =>
      /\ Chunks(Len(frames))
      /\ writer.pending = NoBlock => frames = <<>> /\ writer.cut = 0
      /\ writer.pending # NoBlock =>
           /\ writer.pending = Bytes(Len(frames) * chunk, writer.cut)
           /\ Len(frames) * chunk < writer.cut /\ writer.cut <= Len(frames) * chunk + chunk
           /\ writer.cut < Len(frames) * chunk + chunk => writer.cut = length

SealedInv ==
    writer.step # "sealing" =>
      /\ Len(frames) # 0 /\ Chunks(Len(frames) - 1)
      /\ frames[Len(frames)] = LastFrame(Len(frames))
      /\ (Len(frames) - 1) * chunk <= length /\ length <= (Len(frames) - 1) * chunk + chunk

StoredInv ==
    /\ writer.step = "stored" =>
         /\ \A n \in DOMAIN stored.frames : \E k \in DOMAIN frames : stored.frames[n] = frames[k]
         /\ stored.intact => stored.frames = frames /\ stored.units = Header + Total(frames)
    /\ writer.step # "stored" =>
         /\ reader.step = "waiting" /\ reader.buffered = 0 /\ ~stored.intact

ReaderInv ==
    /\ reader \in [step : {"waiting", "opening", "read", "failed"},
                   taken : Nat, buffered : Nat, index : Nat]
    /\ reader.step = "waiting" => reader.taken = 0 /\ reader.index = 0
    /\ reader.step = "opening" => reader.taken = Header + reader.index * FrameSize

OpenedInv ==
    /\ reader.step = "read" => opened = Bytes(0, length)
    /\ reader.step # "read" =>
         /\ opened = Bytes(0, reader.index * chunk)
         /\ reader.index = 0 \/ reader.index < Len(frames)

IntactInv ==
    stored.intact =>
      /\ reader.step \in {"waiting", "opening"} => reader.taken + reader.buffered <= stored.units
      /\ reader.step = "failed" => reader.taken < Header

StreamInv ==
    /\ FormatInv /\ WriterInv /\ SealingInv /\ SealedInv
    /\ StoredInv /\ ReaderInv /\ OpenedInv /\ IntactInv

LEMMA StreamHolds == StreamInit => StreamInv
<1> SUFFICES ASSUME StreamInit PROVE StreamInv
    OBVIOUS
<1>1. length \in Nat /\ chunk \in Nat \ {0}
    BY FormatAssumption DEF StreamInit
<1>2. 0 * chunk = 0
    BY <1>1
<1>3. opened = Bytes(0, 0)
  <2>1. Bytes(0, 0) = [i \in 1..0 |-> 0 + i]
    BY DEF Bytes
  <2>2. \A f : f = [i \in 1..0 |-> 0 + i] => f = <<>>
    OBVIOUS
  <2> QED BY <2>1, <2>2 DEF StreamInit
<1>4. NoBlock \in Seq(Nat)
    BY DEF NoBlock
<1>5. frames = <<>> /\ Len(frames) = 0
    BY DEF StreamInit
<1>6. FormatInv /\ WriterInv /\ SealedInv /\ SealingInv
    BY <1>1, <1>4, <1>5 DEF StreamInit, FormatInv, WriterInv, SealedInv, SealingInv, Chunks
<1>7. StoredInv /\ ReaderInv /\ OpenedInv /\ IntactInv
    BY <1>1, <1>2, <1>3 DEF StreamInit, StoredInv, ReaderInv, OpenedInv, IntactInv
<1> QED BY <1>6, <1>7 DEF StreamInv

LEMMA StreamHasTheProperty == StreamInv => OpenedAsSealed
<1> SUFFICES ASSUME StreamInv PROVE OpenedAsSealed
    OBVIOUS
<1>1. length \in Nat /\ chunk \in Nat /\ reader.index \in Nat /\ Len(frames) \in Nat
    BY DEF StreamInv, FormatInv, ReaderInv
<1>2. Len(Bytes(0, length)) = length
    BY <1>1, BytesFacts
<1>3. CASE reader.step = "read"
    BY <1>1, <1>2, <1>3 DEF StreamInv, OpenedInv, OpenedAsSealed
<1>4. CASE reader.step # "read"
  <2> DEFINE yielded == reader.index * chunk
  <2>1. yielded \in Nat /\ opened = Bytes(0, yielded)
    BY <1>1, <1>4, Products DEF StreamInv, OpenedInv
  <2>2. Len(opened) = yielded
    <3> HIDE DEF yielded
    <3> QED BY <2>1, BytesFacts
  <2>3. yielded <= length
    <3>1. CASE reader.index = 0
      BY <1>1, <3>1
    <3>2. CASE reader.index # 0
      <4>1. reader.index <= Len(frames) - 1 /\ Len(frames) - 1 \in Nat
        BY <1>1, <1>4, <3>2 DEF StreamInv, OpenedInv
      <4>2. reader.index * chunk <= (Len(frames) - 1) * chunk
        BY <1>1, <4>1, Products
      <4>3. writer.step = "stored" \/ reader.index = 0
        BY DEF StreamInv, StoredInv, ReaderInv
      <4>4. (Len(frames) - 1) * chunk <= length
        BY <4>3, <3>2 DEF StreamInv, SealedInv
      <4>5. (Len(frames) - 1) * chunk \in Nat
        BY <1>1, <4>1, Products
      <4> QED BY <1>1, <4>2, <4>4, <4>5, <2>1
    <3> QED BY <3>1, <3>2
  <2>4. opened = Bytes(0, Len(opened)) /\ Len(opened) <= length
    BY <2>1, <2>2, <2>3
  <2> HIDE DEF yielded
  <2> QED BY <2>4, <1>4 DEF StreamInv, IntactInv, OpenedAsSealed
<1> QED BY <1>3, <1>4
-----------------------------------------------------------------------------
\* What the writer does: the reader, and what it will read, stay as they are.
LEMMA WriterKeeps ==
    ASSUME StreamInv, writer.step = "sealing",
           frames' \in Seq([index : Nat, plain : Seq(Nat), final : BOOLEAN]),
           UNCHANGED <<length, chunk, stored, reader, opened>>, writer'.step # "stored"
    PROVE  FormatInv' /\ StoredInv' /\ ReaderInv' /\ OpenedInv' /\ IntactInv'
<1>1. reader.step = "waiting" /\ reader.index = 0 /\ ~stored.intact /\ reader.buffered = 0
    BY DEF StreamInv, StoredInv, ReaderInv
<1>2. FormatInv' /\ StoredInv' /\ ReaderInv'
    BY <1>1 DEF StreamInv, FormatInv, StoredInv, ReaderInv, FrameSize
<1>3. OpenedInv' /\ IntactInv'
    BY <1>1 DEF StreamInv, OpenedInv, IntactInv
<1> QED BY <1>2, <1>3

LEMMA FeedKeeps ==
    ASSUME StreamInv, NEW n \in 1..length, Feed(n)
    PROVE  StreamInv'
<1>1. /\ writer.step = "sealing" /\ writer' = [writer EXCEPT !.fed = @ + n]
      /\ writer.fed + n <= length /\ UNCHANGED <<length, chunk, frames, stored, reader, opened>>
    BY DEF Feed
<1>2. n \in Nat /\ length \in Nat
    BY DEF StreamInv, FormatInv
<1>3. /\ writer'.step = "sealing" /\ writer'.cut = writer.cut /\ writer'.pending = writer.pending
      /\ writer'.fed = writer.fed + n /\ WriterInv'
  <2> DEFINE States == [step : {"sealing", "sealed", "stored"}, fed : Nat, cut : Nat, pending : Seq(Nat)]
             fed == writer.fed + n
  <2>1. writer \in States /\ writer.cut <= writer.fed
    BY DEF StreamInv, WriterInv
  <2>2. writer' = [writer EXCEPT !.fed = fed] /\ fed <= length /\ length' = length
    BY <1>1, <2>1
  <2>3. fed \in Nat /\ writer.cut <= fed
    BY <1>2, <2>1
  <2> HIDE DEF fed
  <2>4. /\ writer'.step = writer.step /\ writer'.cut = writer.cut /\ writer'.fed = fed
        /\ writer'.pending = writer.pending /\ writer' \in States
    BY <2>1, <2>2, <2>3
  <2>5. WriterInv'
    BY <2>2, <2>3, <2>4 DEF WriterInv
  <2> QED BY <1>1, <2>4, <2>5 DEF fed
<1>4. SealingInv' /\ SealedInv'
    BY <1>1, <1>3 DEF StreamInv, SealingInv, SealedInv, Chunks, ChunkFrame, Frame, Bytes
<1>5. frames' \in Seq([index : Nat, plain : Seq(Nat), final : BOOLEAN])
    BY <1>1 DEF StreamInv, FormatInv
<1>6. FormatInv' /\ StoredInv' /\ ReaderInv' /\ OpenedInv' /\ IntactInv'
    BY <1>1, <1>3, <1>5, WriterKeeps
<1> QED BY <1>3, <1>4, <1>6 DEF StreamInv

LEMMA SealBlockKeeps ==
    ASSUME StreamInv, SealBlock
    PROVE  StreamInv'
<1> DEFINE rest == writer.fed - writer.cut
           next == IF rest >= chunk THEN writer.cut + chunk ELSE writer.fed
           N == Len(frames)
           F == [index : Nat, plain : Seq(Nat), final : BOOLEAN]
<1>1. /\ writer.step = "sealing"
      /\ rest >= chunk \/ (writer.fed = length /\ rest > 0)
      /\ writer' = [writer EXCEPT !.cut = next, !.pending = Bytes(writer.cut, next)]
      /\ frames' = IF writer.pending = NoBlock THEN frames
                   ELSE Append(frames, Frame(N, writer.pending, FALSE))
      /\ UNCHANGED <<length, chunk, stored, reader, opened>>
    BY DEF SealBlock, Holds, Emits
<1>0. writer.step = "sealing"
    BY DEF SealBlock
<1>2. /\ length \in Nat /\ chunk \in Nat \ {0} /\ N \in Nat /\ frames \in Seq(F)
      /\ writer.fed \in Nat /\ writer.cut \in Nat /\ writer.cut <= writer.fed /\ writer.fed <= length
      /\ writer.pending \in Seq(Nat)
    BY DEF StreamInv, FormatInv, WriterInv
<1>3. /\ next \in Nat /\ writer.cut < next /\ next <= writer.fed /\ next <= writer.cut + chunk
      /\ next < writer.cut + chunk => next = length
    BY <1>1, <1>2
<1> HIDE DEF next
<1>4. /\ Bytes(writer.cut, next) \in Seq(Nat) /\ Bytes(writer.cut, next) # NoBlock
  <2>1. writer.cut <= next
    BY <1>2, <1>3
  <2> QED BY <1>2, <1>3, <2>1, BytesFacts
<1>5. /\ writer'.step = "sealing" /\ writer'.cut = next /\ writer'.fed = writer.fed
      /\ writer'.pending = Bytes(writer.cut, next) /\ WriterInv'
  <2> DEFINE held == Bytes(writer.cut, next)
  <2> HIDE DEF held
  <2>1. /\ writer' = [writer EXCEPT !.cut = next, !.pending = held] /\ held \in Seq(Nat)
        /\ length' = length
    BY <1>1, <1>4 DEF held
  <2> HIDE DEF rest, N, F
  <2>2. writer \in [step : {"sealing", "sealed", "stored"}, fed : Nat, cut : Nat, pending : Seq(Nat)]
    BY DEF StreamInv, WriterInv
  <2>3. writer' \in [step : {"sealing", "sealed", "stored"}, fed : Nat, cut : Nat, pending : Seq(Nat)]
    BY <1>3, <2>1, <2>2
  <2>4. /\ writer'.step = "sealing" /\ writer'.cut = next /\ writer'.fed = writer.fed
        /\ writer'.pending = held
    BY <1>0, <2>1, <2>2
  <2>5. WriterInv'
    BY <1>2, <1>3, <2>1, <2>3, <2>4 DEF WriterInv
  <2> QED BY <2>4, <2>5 DEF held
<1>6. N * chunk \in Nat /\ (N + 1) * chunk = N * chunk + chunk /\ 0 * chunk = 0
    BY <1>2, Products
<1>7. /\ frames' \in Seq(F) /\ Chunks(Len(frames))' /\ writer.cut = Len(frames') * chunk
  <2>1. CASE writer.pending = NoBlock
    <3>1. frames = <<>> /\ writer.cut = 0
      BY <1>0, <2>1 DEF StreamInv, SealingInv
    <3>2. frames' = frames
      BY <1>1, <2>1
    <3>3. Len(frames') = 0 /\ frames' \in Seq(F)
      BY <1>2, <3>1, <3>2
    <3>4. Chunks(Len(frames))'
      BY <3>3 DEF Chunks
    <3>5. writer.cut = Len(frames') * chunk
      BY <1>6, <3>1, <3>3
    <3> QED BY <3>3, <3>4, <3>5
  <2>2. CASE writer.pending # NoBlock
    <3>1. /\ writer.pending = Bytes(N * chunk, writer.cut) /\ Chunks(N)
          /\ N * chunk < writer.cut /\ writer.cut <= N * chunk + chunk
          /\ writer.cut < N * chunk + chunk => writer.cut = length
      BY <1>0, <2>2 DEF StreamInv, SealingInv
    <3>2. writer.cut = N * chunk + chunk
      <4> DEFINE at == N * chunk
      <4>1. /\ at \in Nat /\ at < writer.cut /\ writer.cut <= at + chunk
            /\ writer.cut < at + chunk => writer.cut = length
        BY <1>6, <3>1
      <4> HIDE DEF at
      <4>2. writer.cut < length
        BY <1>1, <1>2
      <4>3. writer.cut \in Nat /\ chunk \in Nat
        BY <1>2
      <4>4. writer.cut <= at + chunk /\ ~ (writer.cut < at + chunk)
        BY <4>1, <4>2, <1>2
      <4>5. writer.cut = at + chunk
        BY <4>1, <4>3, <4>4
      <4> QED BY <4>5 DEF at
    <3>3. writer.cut = (N + 1) * chunk
      BY <3>2, <1>6
    <3> DEFINE new == Frame(N, writer.pending, FALSE)
    <3>4. new \in F
      BY <1>2 DEF Frame
    <3>5. N = (N + 1) - 1
      BY <1>2
    <3>6. new = ChunkFrame(N + 1)
      BY <3>1, <3>3, <3>5 DEF ChunkFrame
    <3>7. frames' = Append(frames, new)
      BY <1>1, <2>2
    <3> HIDE DEF new
    <3>8. /\ frames' \in Seq(F) /\ Len(frames') = N + 1
          /\ \A i \in 1..N : frames'[i] = frames[i]
          /\ frames'[N + 1] = new
      BY <1>2, <3>4, <3>7
    <3>9. \A i \in 1..N + 1 : frames'[i] = ChunkFrame(i)
      <4> TAKE i \in 1..N + 1
      <4>1. i = N + 1 \/ i \in 1..N
        BY <1>2
      <4> QED BY <4>1, <3>1, <3>6, <3>8 DEF Chunks
    <3>10. \A i : ChunkFrame(i)' = ChunkFrame(i)
      BY <1>1 DEF ChunkFrame, Frame, Bytes
    <3>11. Chunks(Len(frames))'
      <4>1. Len(frames)' = N + 1
        BY <3>8
      <4>2. \A i \in 1..N + 1 : frames'[i] = ChunkFrame(i)'
        BY <3>9, <3>10
      <4> HIDE DEF N
      <4> QED BY <4>1, <4>2 DEF Chunks
    <3>12. writer.cut = Len(frames') * chunk
      BY <3>3, <3>8
    <3> QED BY <3>8, <3>11, <3>12
  <2> QED BY <2>1, <2>2
<1>8. SealingInv'
  <2>1. chunk' = chunk /\ length' = length
    BY <1>1
  <2> DEFINE at == Len(frames') * chunk
  <2>2. writer.cut = at /\ at = (Len(frames) * chunk)'
    BY <1>7, <2>1
  <2>3. Bytes(Len(frames) * chunk, writer.cut)' = Bytes(at, next)
    BY <1>5, <2>2 DEF Bytes
  <2>4. NoBlock' = NoBlock
    BY DEF NoBlock
  <2> HIDE DEF at
  <2>5. /\ writer'.pending = Bytes(Len(frames) * chunk, writer.cut)' /\ writer'.pending # NoBlock'
    BY <1>4, <1>5, <2>2, <2>3, <2>4
  <2>6. /\ at < writer'.cut /\ writer'.cut <= at + chunk'
        /\ writer'.cut < at + chunk' => writer'.cut = length'
    BY <1>3, <1>5, <2>1, <2>2
  <2>7. Chunks(Len(frames))' /\ at = (Len(frames) * chunk)'
    BY <1>7, <2>2
  <2>8. /\ (Len(frames) * chunk < writer.cut)'
        /\ (writer.cut <= Len(frames) * chunk + chunk)'
        /\ (writer.cut < Len(frames) * chunk + chunk => writer.cut = length)'
    BY <2>6, <2>7
  <2> HIDE DEF N
  <2> QED BY <2>5, <2>7, <2>8, Zenon DEF SealingInv
<1>9. SealedInv'
    BY <1>5 DEF SealedInv
<1>10. FormatInv' /\ StoredInv' /\ ReaderInv' /\ OpenedInv' /\ IntactInv'
    BY <1>1, <1>5, <1>7, WriterKeeps
<1> QED BY <1>5, <1>8, <1>9, <1>10 DEF StreamInv

LEMMA SealLastKeeps ==
    ASSUME StreamInv, SealLast
    PROVE  StreamInv'
<1> DEFINE N == Len(frames)
           F == [index : Nat, plain : Seq(Nat), final : BOOLEAN]
           plain == IF writer.pending = NoBlock THEN <<>> ELSE writer.pending
           new == Frame(N, plain, TRUE)
<1>1. /\ writer.step = "sealing" /\ writer.fed = length /\ writer.cut = length
      /\ writer' = [writer EXCEPT !.step = "sealed"] /\ frames' = Append(frames, new)
      /\ UNCHANGED <<length, chunk, stored, reader, opened>>
    BY DEF SealLast
<1>2. /\ length \in Nat /\ chunk \in Nat \ {0} /\ N \in Nat /\ frames \in Seq(F)
      /\ writer.pending \in Seq(Nat) /\ Chunks(N)
    BY <1>1 DEF StreamInv, FormatInv, WriterInv, SealingInv
<1>3. N * chunk \in Nat /\ 0 * chunk = 0
    BY <1>2, Products
<1>4. /\ plain = Bytes(N * chunk, length) /\ N * chunk <= length /\ length <= N * chunk + chunk
  <2>1. CASE writer.pending = NoBlock
    <3>1. N = 0 /\ length = 0
      BY <1>1, <2>1 DEF StreamInv, SealingInv
    <3>2. Bytes(0, 0) = <<>>
      <4>1. Bytes(0, 0) \in Seq(Nat) /\ Len(Bytes(0, 0)) = 0 - 0
        BY 0 \in Nat, BytesFacts
      <4> QED BY <4>1
    <3> QED BY <1>2, <1>3, <2>1, <3>1, <3>2
  <2>2. CASE writer.pending # NoBlock
    BY <1>1, <1>2, <1>3, <2>2 DEF StreamInv, SealingInv
  <2> QED BY <2>1, <2>2
<1>5. plain \in Seq(Nat)
    BY <1>2
<1> HIDE DEF plain
<1>6. new \in F
    BY <1>2, <1>5 DEF Frame
<1>7. N = (N + 1) - 1
    BY <1>2
<1>8. new = LastFrame(N + 1)
    BY <1>4, <1>7 DEF LastFrame
<1> HIDE DEF new
<1>9. /\ frames' \in Seq(F) /\ Len(frames') = N + 1
      /\ \A i \in 1..N : frames'[i] = frames[i]
      /\ frames'[N + 1] = new
    BY <1>1, <1>2, <1>6
<1>10. WriterInv' /\ writer'.step = "sealed"
    BY <1>1 DEF StreamInv, WriterInv
<1>11. SealedInv'
  <2>1. /\ \A i : ChunkFrame(i)' = Frame(i - 1, Bytes((i - 1) * chunk, i * chunk), FALSE)
        /\ LastFrame(Len(frames))' = Frame(Len(frames') - 1, Bytes((Len(frames') - 1) * chunk, length), TRUE)
    BY <1>1 DEF ChunkFrame, LastFrame, Frame, Bytes
  <2>2. \A i \in 1..N : frames'[i] = ChunkFrame(i)'
    BY <1>2, <1>9, <2>1 DEF Chunks, ChunkFrame
  <2>3. Len(frames') - 1 = N /\ Len(frames') # 0
    BY <1>2, <1>9
  <2>4. frames'[Len(frames')] = LastFrame(Len(frames))'
    BY <1>4, <1>9, <2>1, <2>3 DEF new
  <2> HIDE DEF N
  <2>5. Chunks(Len(frames) - 1)'
    BY <2>2, <2>3 DEF Chunks
  <2>6. (Len(frames') - 1) * chunk' <= length' /\ length' <= (Len(frames') - 1) * chunk' + chunk'
    BY <1>1, <1>4, <2>3
  <2> QED BY <2>3, <2>4, <2>5, <2>6 DEF SealedInv
<1>12. SealingInv'
    BY <1>10 DEF SealingInv
<1>13. FormatInv' /\ StoredInv' /\ ReaderInv' /\ OpenedInv' /\ IntactInv'
    BY <1>1, <1>9, <1>10, WriterKeeps
<1> QED BY <1>10, <1>11, <1>12, <1>13 DEF StreamInv
-----------------------------------------------------------------------------
\* What the frames of a sealed document hold, and what sizes they have.
LEMMA FrameFacts ==
    ASSUME StreamInv, writer.step # "sealing", NEW k \in DOMAIN frames
    PROVE  /\ Len(frames) \in Nat /\ k \in 1..Len(frames) /\ frames[k].index = k - 1
           /\ frames[k].final = (k = Len(frames))
           /\ k # Len(frames) =>
                /\ frames[k].plain = Bytes((k - 1) * chunk, (k - 1) * chunk + chunk)
                /\ Size(frames[k]) = FrameSize
           /\ k = Len(frames) =>
                /\ frames[k].plain = Bytes((k - 1) * chunk, length)
                /\ Size(frames[k]) = Overhead + (length - (k - 1) * chunk)
<1>1. /\ Len(frames) \in Nat /\ DOMAIN frames = 1..Len(frames) /\ length \in Nat /\ chunk \in Nat
    BY DEF StreamInv, FormatInv
<1>2. k \in 1..Len(frames) /\ k - 1 \in Nat /\ (k - 1) + 1 = k
    BY <1>1
<1>3. (k - 1) * chunk \in Nat /\ k * chunk = (k - 1) * chunk + chunk
    BY <1>1, <1>2, Products
<1>4. CASE k # Len(frames)
  <2>1. frames[k] = ChunkFrame(k)
    BY <1>1, <1>2, <1>4 DEF StreamInv, SealedInv, Chunks
  <2> DEFINE at == (k - 1) * chunk
             plain == Bytes(at, at + chunk)
  <2>2. frames[k] = Frame(k - 1, plain, FALSE)
    BY <2>1, <1>3 DEF ChunkFrame
  <2>3. Len(plain) = chunk
    <3>1. at \in Nat /\ at + chunk \in Nat /\ at <= at + chunk
      BY <1>1, <1>3
    <3> HIDE DEF at
    <3>2. Len(Bytes(at, at + chunk)) = (at + chunk) - at
      BY <3>1, BytesFacts
    <3> QED BY <1>1, <3>1, <3>2
  <2> HIDE DEF plain
  <2>4. frames[k].index = k - 1 /\ frames[k].plain = plain /\ frames[k].final = FALSE
    BY <2>2 DEF Frame
  <2>5. Size(frames[k]) = FrameSize
    BY <2>3, <2>4 DEF Size, FrameSize
  <2> QED BY <1>1, <1>2, <1>4, <2>4, <2>5 DEF plain
<1>5. CASE k = Len(frames)
  <2>1. /\ frames[k] = LastFrame(k) /\ (k - 1) * chunk <= length
    BY <1>5 DEF StreamInv, SealedInv
  <2> DEFINE at == (k - 1) * chunk
             plain == Bytes(at, length)
  <2>2. frames[k] = Frame(k - 1, plain, TRUE)
    BY <2>1 DEF LastFrame
  <2>3. Len(plain) = length - at
    <3>1. at \in Nat /\ at <= length
      BY <1>3, <2>1
    <3> HIDE DEF at
    <3> QED BY <1>1, <3>1, BytesFacts
  <2> HIDE DEF plain
  <2>4. frames[k].index = k - 1 /\ frames[k].plain = plain /\ frames[k].final = TRUE
    BY <2>2 DEF Frame
  <2>5. Size(frames[k]) = Overhead + (length - at)
    BY <2>3, <2>4 DEF Size
  <2> QED BY <1>1, <1>2, <1>5, <2>4, <2>5 DEF plain
<1> QED BY <1>4, <1>5

LEMMA StoreKeeps ==
    ASSUME StreamInv, Store
    PROVE  StreamInv'
<1>1. /\ writer.step = "sealed" /\ writer' = [writer EXCEPT !.step = "stored"]
      /\ UNCHANGED <<length, chunk, frames, reader, opened>>
    BY DEF Store
<1>2. PICK fs \in Arrangements : \E units \in 0..Header + Total(fs) :
         stored' = [frames |-> fs, units |-> units,
                    intact |-> fs = frames /\ units = Header + Total(fs)]
    BY DEF Store
<1>3. PICK units \in 0..Header + Total(fs) :
         stored' = [frames |-> fs, units |-> units,
                    intact |-> (fs = frames /\ units = Header + Total(fs))]
    BY <1>2
<1>4. \A n \in DOMAIN fs : \E k \in DOMAIN frames : fs[n] = frames[k]
  <2>1. \E n \in 0..Len(frames) : \E order \in [1..n -> DOMAIN frames] :
           fs = [i \in 1..n |-> frames[order[i]]]
    BY DEF Arrangements
  <2> QED BY <2>1
<1>5. /\ writer'.step = "stored" /\ WriterInv'
    BY <1>1 DEF StreamInv, WriterInv
<1>6. /\ reader.step = "waiting" /\ reader.buffered = 0 /\ reader.taken = 0
    BY <1>1 DEF StreamInv, StoredInv, ReaderInv
<1>7. stored'.intact => stored'.frames = frames /\ stored'.units = Header + Total(frames)
    BY <1>3
<1>8. StoredInv'
  <2>1. Total(frames)' = Total(frames)
    BY <1>1 DEF Total, UnitsOf, Size
  <2>2. stored'.frames = fs
    BY <1>3
  <2> QED BY <1>1, <1>4, <1>5, <1>7, <2>1, <2>2 DEF StoredInv
<1>9. IntactInv'
  <2>1. stored'.units >= 0 
    BY <1>3
  <2> QED BY <1>1, <1>6, <2>1 DEF IntactInv
<1>10. FormatInv' /\ ReaderInv' /\ OpenedInv'
  <2>1. \A a, b : Bytes(a, b)' = Bytes(a, b)
    BY DEF Bytes
  <2> QED BY <1>1, <2>1 DEF StreamInv, FormatInv, ReaderInv, OpenedInv, FrameSize, Bytes
<1>11. SealedInv'
  <2>1. SealedInv
    BY DEF StreamInv
  <2> QED BY <1>1, <2>1 DEF SealedInv, Chunks, ChunkFrame, LastFrame, Frame, Bytes
<1>12. SealingInv'
    BY <1>5 DEF SealingInv
<1> QED BY <1>5, <1>8, <1>9, <1>10, <1>11, <1>12 DEF StreamInv

\* What the reader does leaves what was sealed, and what is stored, as it is.
LEMMA ReaderKeeps ==
    ASSUME StreamInv, writer.step = "stored", UNCHANGED <<length, chunk, writer, frames, stored>>
    PROVE  FormatInv' /\ WriterInv' /\ SealingInv' /\ SealedInv' /\ StoredInv'
<1>1. FormatInv' /\ WriterInv'
    BY DEF StreamInv, FormatInv, WriterInv
<1>2. SealedInv' /\ SealingInv'
  <2>1. SealedInv
    BY DEF StreamInv
  <2> QED BY <2>1 DEF SealedInv, SealingInv, Chunks, ChunkFrame, LastFrame, Frame, Bytes
<1>3. StoredInv'
  <2>1. StoredInv
    BY DEF StreamInv
  <2> QED BY <2>1 DEF StoredInv, Total, UnitsOf, Size
<1> QED BY <1>1, <1>2, <1>3

LEMMA ArriveKeeps ==
    ASSUME StreamInv, NEW n \in 1..stored.units, Arrive(n)
    PROVE  StreamInv'
<1> DEFINE buffered == reader.buffered + n
           States == [step : {"waiting", "opening", "read", "failed"},
                      taken : Nat, buffered : Nat, index : Nat]
<1>1. /\ writer.step = "stored" /\ reader.taken + buffered <= stored.units
      /\ UNCHANGED <<length, chunk, writer, frames, stored, opened>>
    BY DEF Arrive, Fails
<1>2. reader \in States /\ n \in Nat /\ buffered \in Nat
    BY DEF StreamInv, ReaderInv
<1>3. Header \in Nat /\ MinimumHeader \in Nat \ {0} /\ MinimumHeader <= Header
    BY FormatAssumption
<1>4. /\ reader' \in States /\ reader'.step \in {"waiting", "opening", "failed"}
      /\ reader'.index = reader.index
      /\ reader.step \in {"waiting", "opening"}
      /\ reader'.step = "waiting" => reader'.taken = 0 /\ reader.step = "waiting"
      /\ reader'.step = "opening" =>
           IF reader.step = "waiting" THEN reader'.taken = Header ELSE reader'.taken = reader.taken
      /\ reader'.step = "failed" => reader'.taken = 0
      /\ reader'.step # "failed" => reader'.taken + reader'.buffered = reader.taken + buffered
  <2>1. CASE reader.step = "waiting"
    <3>1. reader.taken = 0
      BY <2>1 DEF StreamInv, ReaderInv
    <3>2. \/ /\ buffered < MinimumHeader /\ reader' = [reader EXCEPT !.buffered = buffered]
          \/ /\ buffered < Header /\ reader' = [reader EXCEPT !.step = "failed"]
          \/ /\ buffered >= Header
             /\ reader' = [reader EXCEPT !.step = "opening", !.taken = Header,
                                         !.buffered = buffered - Header]
      BY <1>2, <1>3, <2>1 DEF Arrive, Fails
    <3> HIDE DEF buffered
    <3>3. CASE buffered < MinimumHeader /\ reader' = [reader EXCEPT !.buffered = buffered]
      BY <1>2, <2>1, <3>1, <3>3
    <3>4. CASE reader' = [reader EXCEPT !.step = "failed"]
      BY <1>2, <2>1, <3>1, <3>4
    <3>5. CASE /\ buffered >= Header
               /\ reader' = [reader EXCEPT !.step = "opening", !.taken = Header,
                                           !.buffered = buffered - Header]
      <4>1. buffered - Header \in Nat /\ Header + (buffered - Header) = 0 + buffered
        BY <1>2, <1>3, <3>5
      <4> DEFINE left == buffered - Header
      <4> HIDE DEF left
      <4>2. reader' = [reader EXCEPT !.step = "opening", !.taken = Header, !.buffered = left]
        BY <3>5 DEF left
      <4>3. left \in Nat /\ Header + left = 0 + buffered
        BY <4>1 DEF left
      <4> QED BY <1>2, <1>3, <2>1, <3>1, <4>2, <4>3
    <3> QED BY <3>2, <3>3, <3>4, <3>5
  <2>2. CASE reader.step # "waiting"
    <3>1. reader.step = "opening" /\ reader' = [reader EXCEPT !.buffered = buffered]
      BY <2>2 DEF Arrive
    <3> HIDE DEF buffered
    <3> QED BY <1>2, <2>2, <3>1
  <2> QED BY <2>1, <2>2
<1> HIDE DEF buffered
<1>5. ReaderInv'
  <2>1. reader.step = "waiting" => reader.index = 0
    BY DEF StreamInv, ReaderInv
  <2>2. reader.step = "opening" => reader.taken = Header + reader.index * FrameSize
    BY DEF StreamInv, ReaderInv
  <2>3. FrameSize' = FrameSize /\ FrameSize \in Nat
    BY <1>1, FormatAssumption DEF FrameSize, StreamInv, FormatInv
  <2>4. 0 * FrameSize = 0
    BY <2>3
  <2>5. reader'.step = "opening" => reader'.taken = Header + reader'.index * FrameSize
    BY <1>3, <1>4, <2>1, <2>2, <2>4
  <2> QED BY <1>4, <2>1, <2>3, <2>5 DEF ReaderInv
<1>6. OpenedInv'
    BY <1>1, <1>4 DEF StreamInv, OpenedInv, Bytes
<1>7. IntactInv'
    BY <1>1, <1>3, <1>4 DEF StreamInv, IntactInv
<1> QED BY <1>1, <1>5, <1>6, <1>7, ReaderKeeps DEF StreamInv
-----------------------------------------------------------------------------
\* In an untouched object a frame begins behind as many whole frames as its number says.
LEMMA WhereFramesBegin ==
    ASSUME StreamInv, writer.step = "stored", stored.intact, NEW k \in DOMAIN frames
    PROVE  /\ k \in FrameAt(Header + (k - 1) * FrameSize,
                            Header + (k - 1) * FrameSize + Size(frames[k]))
           /\ Total(frames) = (Len(frames) - 1) * FrameSize + Size(frames[Len(frames)])
<1>1. /\ Len(frames) \in Nat /\ DOMAIN frames = 1..Len(frames) /\ FrameSize \in Nat
      /\ frames \in Seq([index : Nat, plain : Seq(Nat), final : BOOLEAN])
    BY FormatAssumption DEF StreamInv, FormatInv, FrameSize
<1>2. k - 1 \in Nat /\ Len(frames) - 1 \in Nat /\ k \in 1..Len(frames)
    BY <1>1
<1>3. \A i \in DOMAIN frames : i # Len(frames) => Size(frames[i]) = FrameSize
    BY FrameFacts
<1> DEFINE before == SubSeq(frames, 1, k - 1)
<1>4. DOMAIN before = 1..k - 1 /\ \A i \in 1..k - 1 : before[i] = frames[i]
    BY <1>1, <1>2
<1> HIDE DEF before
<1>5. \A i \in 1..k - 1 : Size(before[i]) = FrameSize
  <2> TAKE i \in 1..k - 1
  <2> DEFINE K == Len(frames)
  <2>1. K \in Nat /\ k \in 1..K /\ DOMAIN frames = 1..K
    BY <1>1, <1>2
  <2> HIDE DEF K
  <2>2. i \in DOMAIN frames /\ i # K
    BY <2>1
  <2> QED BY <1>3, <1>4, <2>2 DEF K
<1>6. Total(before) = (k - 1) * FrameSize
    BY <1>1, <1>2, <1>4, <1>5, UnitsOfChunks
<1>7. stored.frames = frames
    BY DEF StreamInv, StoredInv
<1>8. Starts(k) = Header + (k - 1) * FrameSize
    BY <1>6, <1>7 DEF Starts, before
<1>9. k \in FrameAt(Header + (k - 1) * FrameSize, Header + (k - 1) * FrameSize + Size(frames[k]))
    BY <1>7, <1>8 DEF FrameAt
<1>10. Total(frames) = (Len(frames) - 1) * FrameSize + Size(frames[Len(frames)])
  <2> DEFINE K == Len(frames) - 1
             last == Size(frames[Len(frames)])
  <2>1. K + 1 = Len(frames) /\ K \in Nat /\ Len(frames) \in DOMAIN frames
    BY <1>1, <1>2
  <2>2. last \in Nat
    <3>1. last = Overhead + (length - (Len(frames) - 1) * chunk)
      BY <2>1, FrameFacts
    <3>2. (Len(frames) - 1) * chunk <= length /\ length \in Nat /\ chunk \in Nat
      BY DEF StreamInv, SealedInv, FormatInv
    <3>3. (Len(frames) - 1) * chunk \in Nat
      BY <1>2, <3>2, Products
    <3> QED BY <3>1, <3>2, <3>3, FormatAssumption
  <2>3. DOMAIN frames = 1..K + 1 /\ \A i \in 1..K : Size(frames[i]) = FrameSize
    <3>1. DOMAIN frames = 1..K + 1
      BY <1>1, <2>1
    <3> HIDE DEF K
    <3>2. \A i \in 1..K : i \in DOMAIN frames /\ i # Len(frames)
      BY <2>1, <3>1
    <3> QED BY <1>3, <3>1, <3>2
  <2>4. Size(frames[K + 1]) = last
    BY <2>1
  <2> HIDE DEF K, last
  <2>5. K \in Nat /\ FrameSize \in Nat
    BY <1>1, <2>1
  <2>6. Total(frames) = K * FrameSize + last
    BY <2>2, <2>3, <2>4, <2>5, UnitsOfStream
  <2> QED BY <2>6 DEF K, last
<1> QED BY <1>9, <1>10

\* The frame that opens is the next one of the document.
LEMMA OpensTheNext ==
    ASSUME StreamInv, writer.step = "stored", NEW n \in DOMAIN stored.frames, NEW final, Opens(n, final)
    PROVE  /\ reader.index + 1 \in DOMAIN frames
           /\ stored.frames[n] = frames[reader.index + 1]
           /\ final = (reader.index + 1 = Len(frames))
<1>1. PICK k \in DOMAIN frames : stored.frames[n] = frames[k]
    BY DEF StreamInv, StoredInv
<1>2. frames[k].index = k - 1 /\ frames[k].final = (k = Len(frames)) /\ k \in 1..Len(frames)
    BY FrameFacts
<1>3. frames[k].index = reader.index /\ frames[k].final = final
    BY <1>1 DEF Opens
<1>4. k = reader.index + 1
    BY <1>2, <1>3
<1> QED BY <1>1, <1>2, <1>3, <1>4

LEMMA OpenFrameKeeps ==
    ASSUME StreamInv, OpenFrame
    PROVE  StreamInv'
<1> DEFINE fit == {n \in FrameAt(reader.taken, reader.taken + FrameSize) : Opens(n, FALSE)}
           i == reader.index
           States == [step : {"waiting", "opening", "read", "failed"},
                      taken : Nat, buffered : Nat, index : Nat]
<1>1. /\ reader.step = "opening" /\ reader.buffered > FrameSize /\ writer.step = "stored"
      /\ UNCHANGED <<length, chunk, writer, frames, stored>>
    BY DEF OpenFrame, StreamInv, StoredInv
<1>2. /\ reader \in States /\ i \in Nat /\ reader.taken = Header + i * FrameSize
      /\ length \in Nat /\ chunk \in Nat \ {0} /\ FrameSize \in Nat /\ Header \in Nat
      /\ FrameSize = Overhead + chunk /\ Overhead \in Nat \ {0}
      /\ Len(frames) \in Nat /\ DOMAIN frames = 1..Len(frames) /\ Len(frames) # 0
    BY <1>1, FormatAssumption DEF StreamInv, ReaderInv, FormatInv, SealedInv, FrameSize
<1>3. /\ i = 0 \/ i < Len(frames)
      /\ opened = Bytes(0, i * chunk)
    BY <1>1 DEF StreamInv, OpenedInv
<1>4. CASE fit = {}
  <2>1. reader' = [reader EXCEPT !.step = "failed"] /\ opened' = opened
    BY <1>4 DEF OpenFrame, Takes, Fails
  <2>2. ~stored.intact
    <3> SUFFICES ASSUME stored.intact PROVE FALSE
      OBVIOUS
    <3> DEFINE last == Size(frames[Len(frames)])
    <3>1. /\ Len(frames) \in DOMAIN frames /\ Len(frames) - 1 \in Nat
      BY <1>2
    <3>2. last = Overhead + (length - (Len(frames) - 1) * chunk) /\ last \in Nat /\ last <= FrameSize
      <4>1. last = Overhead + (length - (Len(frames) - 1) * chunk)
        BY <1>1, <3>1, FrameFacts
      <4>2. /\ (Len(frames) - 1) * chunk <= length /\ length <= (Len(frames) - 1) * chunk + chunk
        BY <1>1 DEF StreamInv, SealedInv
      <4>3. (Len(frames) - 1) * chunk \in Nat
        BY <1>2, <3>1, Products
      <4> QED BY <1>2, <4>1, <4>2, <4>3
    <3>3. Total(frames) = (Len(frames) - 1) * FrameSize + last
      BY <1>1, <3>1, WhereFramesBegin
    <3>4. reader.taken + reader.buffered <= Header + Total(frames)
      BY <1>1 DEF StreamInv, StoredInv, IntactInv
    <3>5. i + 1 < Len(frames)
      <4> SUFFICES ASSUME Len(frames) - 1 <= i PROVE FALSE
        BY <1>2
      <4> DEFINE a == (Len(frames) - 1) * FrameSize
                 b == i * FrameSize
      <4>1. a <= b /\ a \in Nat /\ b \in Nat
        BY <1>2, <3>1, Products
      <4>2. Header + b + reader.buffered <= Header + (a + last)
        BY <1>2, <3>3, <3>4
      <4>3. reader.buffered \in Nat
        BY <1>2
      <4> HIDE DEF a, b, last
      <4> QED BY <1>1, <1>2, <3>2, <4>1, <4>2, <4>3
    <3>6. i + 1 \in DOMAIN frames /\ i + 1 # Len(frames) /\ (i + 1) - 1 = i
      <4> DEFINE K == Len(frames)
      <4>1. i \in Nat /\ K \in Nat /\ DOMAIN frames = 1..K /\ i + 1 < K
        BY <1>2, <3>5
      <4> HIDE DEF i, K
      <4>2. i + 1 \in 1..K /\ i + 1 # K /\ (i + 1) - 1 = i
        BY <4>1
      <4> QED BY <4>1, <4>2 DEF K
    <3>7. /\ Size(frames[i + 1]) = FrameSize /\ frames[i + 1].index = i
          /\ frames[i + 1].final = FALSE
      BY <1>1, <3>6, FrameFacts
    <3>8. i + 1 \in FrameAt(reader.taken, reader.taken + FrameSize)
      <4>1. i + 1 \in FrameAt(Header + ((i + 1) - 1) * FrameSize,
                              Header + ((i + 1) - 1) * FrameSize + Size(frames[i + 1]))
        BY <1>1, <3>6, WhereFramesBegin
      <4> QED BY <1>2, <3>6, <3>7, <4>1
    <3>9. stored.frames = frames
      BY <1>1 DEF StreamInv, StoredInv
    <3>10. i + 1 \in fit
      BY <3>7, <3>8, <3>9 DEF Opens
    <3> QED BY <1>4, <3>10
  <2>3. reader' \in States /\ reader'.step = "failed" /\ reader'.index = i
    BY <1>2, <2>1
  <2>4. ReaderInv' /\ OpenedInv' /\ IntactInv'
    BY <1>1, <1>3, <2>1, <2>2, <2>3 DEF ReaderInv, OpenedInv, IntactInv, Bytes
  <2> QED BY <1>1, <2>4, ReaderKeeps DEF StreamInv
<1>5. CASE fit # {}
  <2> DEFINE n == CHOOSE x \in fit : TRUE
  <2>1. n \in fit
    BY <1>5
  <2>2. /\ reader' = [step |-> "opening", taken |-> reader.taken + FrameSize,
                      buffered |-> reader.buffered - FrameSize, index |-> i + 1]
        /\ opened' = opened \o stored.frames[n].plain
    BY <1>5 DEF OpenFrame, Takes
  <2>3. n \in DOMAIN stored.frames /\ Opens(n, FALSE)
    BY <2>1 DEF FrameAt
  <2> HIDE DEF n, fit
  <2>4. /\ i + 1 \in DOMAIN frames /\ stored.frames[n] = frames[i + 1] /\ i + 1 # Len(frames)
    BY <1>1, <2>3, OpensTheNext
  <2>5. (i + 1) - 1 = i /\ i + 1 < Len(frames)
    <3> DEFINE K == Len(frames)
    <3>1. i \in Nat /\ K \in Nat /\ i + 1 \in 1..K /\ i + 1 # K
      BY <1>2, <2>4
    <3> HIDE DEF i, K
    <3>2. (i + 1) - 1 = i /\ i + 1 < K
      BY <3>1
    <3> QED BY <3>2 DEF K
  <2>6. stored.frames[n].plain = Bytes(i * chunk, i * chunk + chunk)
    BY <1>1, <2>4, <2>5, FrameFacts
  <2>7. /\ i * chunk \in Nat /\ (i + 1) * chunk = i * chunk + chunk
        /\ i * FrameSize \in Nat /\ (i + 1) * FrameSize = i * FrameSize + FrameSize
    <3>1. i \in Nat /\ chunk \in Nat /\ FrameSize \in Nat
      BY <1>2
    <3> HIDE DEF i
    <3> QED BY <3>1, Products
  <2>8. opened' = Bytes(0, (i + 1) * chunk)
    <3> DEFINE at == i * chunk
    <3>1. at \in Nat /\ at + chunk \in Nat /\ at <= at + chunk
      <4>1. at \in Nat /\ chunk \in Nat
        BY <1>2, <2>7
      <4> HIDE DEF at
      <4> QED BY <4>1
    <3> HIDE DEF at
    <3>2. Bytes(0, at) \o Bytes(at, at + chunk) = Bytes(0, at + chunk)
      BY <3>1, BytesJoin
    <3> QED BY <1>3, <2>2, <2>6, <2>7, <3>2 DEF at
  <2>9. /\ reader'.step = "opening" /\ reader'.index = i + 1
        /\ reader'.taken = reader.taken + FrameSize
        /\ reader'.buffered = reader.buffered - FrameSize /\ reader' \in States
    BY <1>1, <1>2, <2>2
  <2>10. FrameSize' = FrameSize
    BY <1>1 DEF FrameSize
  <2>11. ReaderInv'
    <3>1. reader'.taken = Header + (i + 1) * FrameSize
      BY <1>2, <2>7, <2>9
    <3> QED BY <2>9, <2>10, <3>1 DEF ReaderInv
  <2>12. OpenedInv'
    BY <1>1, <2>5, <2>8, <2>9 DEF OpenedInv, Bytes
  <2>13. IntactInv'
    <3>1. stored.intact => reader.taken + reader.buffered <= stored.units
      BY <1>1 DEF StreamInv, IntactInv
    <3>2. reader'.taken + reader'.buffered = reader.taken + reader.buffered
      BY <1>2, <2>9
    <3> QED BY <1>1, <2>9, <3>1, <3>2 DEF IntactInv
  <2> QED BY <1>1, <2>11, <2>12, <2>13, ReaderKeeps DEF StreamInv
<1> QED BY <1>4, <1>5
LEMMA OpenLastKeeps ==
    ASSUME StreamInv, OpenLast
    PROVE  StreamInv'
<1> DEFINE fit == {n \in FrameAt(reader.taken, reader.taken + reader.buffered) : Opens(n, TRUE)}
           i == reader.index
           K == Len(frames)
           States == [step : {"waiting", "opening", "read", "failed"},
                      taken : Nat, buffered : Nat, index : Nat]
<1>1. /\ reader.step \in {"waiting", "opening"} /\ writer.step = "stored"
      /\ reader.taken + reader.buffered = stored.units
      /\ reader.step = "opening" => reader.buffered <= FrameSize
      /\ UNCHANGED <<length, chunk, writer, frames, stored>>
    BY DEF OpenLast
<1>2. /\ reader \in States /\ i \in Nat
      /\ length \in Nat /\ chunk \in Nat \ {0} /\ FrameSize \in Nat /\ Header \in Nat \ {0}
      /\ FrameSize = Overhead + chunk /\ Overhead \in Nat \ {0}
      /\ K \in Nat /\ DOMAIN frames = 1..K /\ K # 0
    BY <1>1, FormatAssumption DEF StreamInv, ReaderInv, FormatInv, SealedInv, FrameSize
<1>3. /\ i = 0 \/ i < K
      /\ opened = Bytes(0, i * chunk)
    BY <1>1 DEF StreamInv, OpenedInv
<1>4. ASSUME reader' = [reader EXCEPT !.step = "failed"], opened' = opened,
             stored.intact => reader.taken < Header
      PROVE  StreamInv'
  <2>1. reader' \in States /\ reader'.step = "failed" /\ reader'.index = i /\ reader'.taken = reader.taken
    BY <1>2, <1>4
  <2>2. ReaderInv' /\ OpenedInv' /\ IntactInv'
    BY <1>1, <1>3, <1>4, <2>1 DEF ReaderInv, OpenedInv, IntactInv, Bytes
  <2> QED BY <1>1, <2>2, ReaderKeeps DEF StreamInv
<1>5. CASE reader.step = "waiting"
  <2>1. reader' = [reader EXCEPT !.step = "failed"] /\ opened' = opened
    BY <1>5 DEF OpenLast, Fails
  <2>2. reader.taken = 0
    BY <1>5 DEF StreamInv, ReaderInv
  <2>3. reader.taken < Header
    BY <1>2, <2>2
  <2> QED BY <1>4, <2>1, <2>3
<1>6. CASE reader.step = "opening" /\ fit = {}
  <2>1. reader' = [reader EXCEPT !.step = "failed"] /\ opened' = opened
    BY <1>6 DEF OpenLast, Takes, Fails
  <2>2. ~stored.intact
    <3> SUFFICES ASSUME stored.intact PROVE FALSE
      OBVIOUS
    <3> DEFINE last == Size(frames[K])
    <3>1. K \in DOMAIN frames /\ K - 1 \in Nat
      BY <1>2
    <3>2. last = Overhead + (length - (K - 1) * chunk) /\ last \in Nat \ {0}
      <4>1. last = Overhead + (length - (K - 1) * chunk)
        BY <1>1, <3>1, FrameFacts
      <4>2. (K - 1) * chunk <= length
        BY <1>1 DEF StreamInv, SealedInv
      <4>3. (K - 1) * chunk \in Nat
        BY <1>2, <3>1, Products
      <4> QED BY <1>2, <4>1, <4>2, <4>3
    <3>3. Total(frames) = (K - 1) * FrameSize + last
      BY <1>1, <3>1, WhereFramesBegin
    <3>4. reader.taken + reader.buffered = Header + Total(frames)
      BY <1>1 DEF StreamInv, StoredInv
    <3>5. reader.taken = Header + i * FrameSize /\ reader.buffered <= FrameSize
      BY <1>1, <1>6 DEF StreamInv, ReaderInv
    <3>6. i = K - 1
      <4>1. i <= K - 1
        BY <1>2, <1>3
      <4> SUFFICES ASSUME i + 1 <= K - 1 PROVE FALSE
        BY <1>2, <4>1
      <4> DEFINE a == (K - 1) * FrameSize
                 b == i * FrameSize
                 c == (i + 1) * FrameSize
      <4>2. i \in Nat /\ i + 1 \in Nat /\ K - 1 \in Nat /\ FrameSize \in Nat
        BY <1>2, <3>1
      <4>3. c <= a /\ c = b + FrameSize /\ a \in Nat /\ b \in Nat
        <5> HIDE DEF i, K
        <5> QED BY <4>2, Products
      <4>4. Header + b + reader.buffered = Header + (a + last)
        BY <3>3, <3>4, <3>5
      <4>5. reader.buffered \in Nat
        BY <1>2
      <4>6. last \in Nat \ {0} /\ reader.buffered <= FrameSize /\ Header \in Nat /\ FrameSize \in Nat
        BY <1>2, <3>2, <3>5
      <4> HIDE DEF a, b, c, last
      <4>7. b + reader.buffered = a + last
        BY <4>3, <4>4, <4>5, <4>6
      <4>8. b + FrameSize <= a
        BY <4>3
      <4> QED BY <4>3, <4>5, <4>6, <4>7, <4>8
    <3>7. reader.buffered = last
      <4> DEFINE a == i * FrameSize
      <4>1. a \in Nat
        BY <1>2, Products
      <4>2. Header + a + reader.buffered = Header + (a + last)
        BY <3>3, <3>4, <3>5, <3>6
      <4>3. reader.buffered \in Nat
        BY <1>2
      <4> HIDE DEF a, last
      <4> QED BY <1>2, <3>2, <4>1, <4>2, <4>3
    <3>8. frames[K].index = i /\ frames[K].final = TRUE
      BY <1>1, <3>1, <3>6, FrameFacts
    <3>9. K \in FrameAt(reader.taken, reader.taken + reader.buffered)
      <4>1. K \in FrameAt(Header + (K - 1) * FrameSize,
                          Header + (K - 1) * FrameSize + Size(frames[K]))
        BY <1>1, <3>1, WhereFramesBegin
      <4>2. Header + (K - 1) * FrameSize = reader.taken
        BY <3>5, <3>6
      <4> QED BY <3>7, <4>1, <4>2
    <3>10. stored.frames = frames
      BY <1>1 DEF StreamInv, StoredInv
    <3>11. K \in fit
      BY <3>8, <3>9, <3>10 DEF Opens
    <3> QED BY <1>6, <3>11
  <2> QED BY <1>4, <2>1, <2>2
<1>7. CASE reader.step = "opening" /\ fit # {}
  <2> DEFINE n == CHOOSE x \in fit : TRUE
  <2>1. n \in fit
    BY <1>7
  <2>2. /\ reader' = [step |-> "read", taken |-> reader.taken + reader.buffered,
                      buffered |-> reader.buffered - reader.buffered, index |-> i + 1]
        /\ opened' = opened \o stored.frames[n].plain
    BY <1>7 DEF OpenLast, Takes
  <2>3. n \in DOMAIN stored.frames /\ Opens(n, TRUE)
    BY <2>1 DEF FrameAt
  <2> HIDE DEF n, fit
  <2>4. /\ i + 1 \in DOMAIN frames /\ stored.frames[n] = frames[i + 1] /\ i + 1 = Len(frames)
    BY <1>1, <2>3, OpensTheNext
  <2>5. (i + 1) - 1 = i
    BY <1>2
  <2>6. stored.frames[n].plain = Bytes(i * chunk, length)
    BY <1>1, <2>4, <2>5, FrameFacts
  <2>7. opened' = Bytes(0, length)
    <3> DEFINE at == i * chunk
    <3>1. at \in Nat
      BY <1>2, Products
    <3>2. at <= length
      <4>1. (Len(frames) - 1) * chunk <= length
        BY <1>1 DEF StreamInv, SealedInv
      <4> QED BY <2>4, <2>5, <4>1
    <3> HIDE DEF at
    <3>3. Bytes(0, at) \o Bytes(at, length) = Bytes(0, length)
      BY <1>2, <3>1, <3>2, BytesJoin
    <3> QED BY <1>3, <2>2, <2>6, <3>3 DEF at
  <2>8. reader'.step = "read" /\ reader' \in States
    <3>1. /\ reader.taken + reader.buffered \in Nat /\ reader.buffered - reader.buffered \in Nat
          /\ i + 1 \in Nat
      BY <1>2
    <3> HIDE DEF i
    <3> QED BY <2>2, <3>1
  <2>9. ReaderInv' /\ OpenedInv' /\ IntactInv'
    BY <1>1, <2>7, <2>8 DEF ReaderInv, OpenedInv, IntactInv, Bytes
  <2> QED BY <1>1, <2>9, ReaderKeeps DEF StreamInv
<1> QED BY <1>1, <1>5, <1>6, <1>7

LEMMA StreamIsKept == StreamInv /\ [StreamNext]_streamVars => StreamInv'
<1> SUFFICES ASSUME StreamInv, [StreamNext]_streamVars PROVE StreamInv'
    OBVIOUS
<1>1. CASE UNCHANGED streamVars
  <2> USE <1>1 DEF streamVars
  <2>1. FormatInv' /\ WriterInv'
    BY DEF StreamInv, FormatInv, WriterInv
  <2>2. SealingInv'
    BY DEF StreamInv, SealingInv, Chunks, ChunkFrame, Frame, Bytes, NoBlock
  <2>3. SealedInv'
    BY DEF StreamInv, SealedInv, Chunks, ChunkFrame, LastFrame, Frame, Bytes
  <2>4. StoredInv' /\ ReaderInv' /\ OpenedInv' /\ IntactInv'
    BY DEF StreamInv, StoredInv, ReaderInv, OpenedInv, IntactInv, Total, UnitsOf, Size, FrameSize, Bytes
  <2> QED BY <2>1, <2>2, <2>3, <2>4 DEF StreamInv
<1>2. CASE StreamNext
  <2>1. ASSUME NEW n \in 1..length, Feed(n) PROVE StreamInv'
    BY <2>1, FeedKeeps
  <2>2. ASSUME NEW n \in 1..stored.units, Arrive(n) PROVE StreamInv'
    BY <2>2, ArriveKeeps
  <2> QED BY <1>2, <2>1, <2>2, SealBlockKeeps, SealLastKeeps, StoreKeeps, OpenFrameKeeps,
             OpenLastKeeps DEF StreamNext
<1> QED BY <1>1, <1>2

\* What open_stream yields is what seal_stream was given: a prefix of it at any time, all
\* of it when it ends without an error, and it does end so for an untouched object whose
\* header has been parsed; for every document, chunk size and header, and whatever frames
\* of the object the store gives back, in whatever order and cut off wherever.
THEOREM StreamOpensAsSealed == StreamSpec => []OpenedAsSealed
<1>1. StreamInit => StreamInv
    BY StreamHolds
<1>2. StreamInv /\ [StreamNext]_streamVars => StreamInv'
    BY StreamIsKept
<1>3. StreamInv => OpenedAsSealed
    BY StreamHasTheProperty
<1> QED BY <1>1, <1>2, <1>3, PTL DEF StreamSpec
-----------------------------------------------------------------------------
(***************************************************************************)
(* What was extracted is what the parser gave, for any file.  Orderly says *)
(* of a text that it holds the units up to one of them, each once and in   *)
(* order, with separators anywhere; it is kept when the next unit, or a    *)
(* separator, is added, which is how the page of a DOCX grows and how the  *)
(* buffer of the others does.                                              *)
(***************************************************************************)
UnitSeq == Seq([length : Nat, width : Nat \ {0}])
IsCharacter(x) == x # Separator[1]
Precedes(x, y) == x[1] < y[1] \/ (x[1] = y[1] /\ x[2] < y[2])

Orderly(s, n) ==
    /\ s \in Seq(Nat \X Nat)
    /\ \A i \in 1..Len(s) : IsCharacter(s[i]) =>
         s[i][1] \in 1..n /\ s[i][2] \in 1..file.units[s[i][1]].length
    /\ \A m \in 1..n : \A k \in 1..file.units[m].length : \E i \in 1..Len(s) : s[i] = <<m, k>>
    /\ \A i, j \in 1..Len(s) : i < j /\ IsCharacter(s[i]) /\ IsCharacter(s[j]) => Precedes(s[i], s[j])

LEMMA NothingIsOrderly == Orderly(<<>>, 0)
<1>1. <<>> \in Seq(Nat \X Nat) /\ Len(<<>>) = 0
    OBVIOUS
<1> QED BY <1>1 DEF Orderly

LEMMA TextFacts ==
    ASSUME file.units \in UnitSeq, NEW n \in 1..Len(file.units)
    PROVE  /\ n \in Nat \ {0} /\ file.units[n].length \in Nat
           /\ Text(n) \in Seq(Nat \X Nat) /\ Len(Text(n)) = file.units[n].length
           /\ \A i \in 1..file.units[n].length :
                Text(n)[i] = <<n, i>> /\ IsCharacter(<<n, i>>) /\ <<n, i>>[1] = n /\ <<n, i>>[2] = i
<1>1. n \in Nat \ {0} /\ file.units[n].length \in Nat
  <2> DEFINE units == file.units
             R == [length : Nat, width : Nat \ {0}]
  <2>1. units \in Seq(R) /\ n \in 1..Len(units)
    BY DEF UnitSeq
  <2> HIDE DEF units, R
  <2>2. n \in Nat \ {0} /\ units[n] \in R
    BY <2>1
  <2> QED BY <2>2 DEF units, R
<1>2. Text(n) \in Seq(Nat \X Nat) /\ Len(Text(n)) = file.units[n].length
    BY <1>1 DEF Text
<1>3. ASSUME NEW i \in 1..file.units[n].length
      PROVE  Text(n)[i] = <<n, i>> /\ IsCharacter(<<n, i>>) /\ <<n, i>>[1] = n /\ <<n, i>>[2] = i
    BY <1>1 DEF Text, IsCharacter, Separator
<1> QED BY <1>1, <1>2, <1>3

LEMMA TextKeepsOrder ==
    ASSUME file.units \in UnitSeq, NEW n \in 1..Len(file.units), NEW s, Orderly(s, n - 1)
    PROVE  Orderly(s \o Text(n), n)
<1> DEFINE t == Text(n)
           L == file.units[n].length
           u == s \o t
<1>1. /\ n \in Nat \ {0} /\ L \in Nat /\ t \in Seq(Nat \X Nat) /\ Len(t) = L
      /\ \A i \in 1..L : t[i] = <<n, i>> /\ IsCharacter(<<n, i>>) /\ <<n, i>>[1] = n /\ <<n, i>>[2] = i
    BY TextFacts
<1> HIDE DEF t, L
<1>2. /\ s \in Seq(Nat \X Nat)
      /\ \A i \in 1..Len(s) : IsCharacter(s[i]) =>
           s[i][1] \in 1..n - 1 /\ s[i][2] \in 1..file.units[s[i][1]].length
      /\ \A m \in 1..n - 1 : \A k \in 1..file.units[m].length : \E i \in 1..Len(s) : s[i] = <<m, k>>
      /\ \A i, j \in 1..Len(s) :
           i < j /\ IsCharacter(s[i]) /\ IsCharacter(s[j]) => Precedes(s[i], s[j])
    BY DEF Orderly
<1>3. /\ u \in Seq(Nat \X Nat) /\ Len(u) = Len(s) + L /\ Len(s) \in Nat
      /\ \A i \in 1..Len(s) : u[i] = s[i]
      /\ \A i \in 1..L : u[Len(s) + i] = t[i]
    BY <1>1, <1>2
<1> HIDE DEF u
<1>4. ASSUME NEW i \in 1..Len(u)
      PROVE  \/ i \in 1..Len(s) /\ u[i] = s[i]
             \/ /\ i > Len(s) /\ i - Len(s) \in 1..L /\ u[i][1] = n /\ u[i][2] = i - Len(s)
  <2>1. CASE i <= Len(s)
    BY <1>3, <2>1
  <2>2. CASE i > Len(s)
    <3>1. i - Len(s) \in 1..L /\ Len(s) + (i - Len(s)) = i
      <4>1. i \in Nat /\ i <= Len(s) + L /\ Len(s) \in Nat /\ L \in Nat
        BY <1>1, <1>3
      <4> QED BY <2>2, <4>1
    <3>2. u[i] = <<n, i - Len(s)>>
      <4> DEFINE k == i - Len(s)
      <4>1. k \in 1..L /\ u[Len(s) + k] = t[k] /\ Len(s) + k = i
        BY <1>3, <3>1
      <4> HIDE DEF k
      <4>2. t[k] = <<n, k>>
        BY <1>1, <4>1
      <4> QED BY <4>1, <4>2 DEF k
    <3>3. u[i][1] = n /\ u[i][2] = i - Len(s)
      BY <1>1, <3>1, <3>2
    <3> QED BY <2>2, <3>1, <3>3
  <2> QED BY <1>3, <2>1, <2>2
<1>5. ASSUME NEW i \in 1..Len(u), IsCharacter(u[i])
      PROVE  u[i][1] \in 1..n /\ u[i][2] \in 1..file.units[u[i][1]].length
  <2>1. CASE i \in 1..Len(s) /\ u[i] = s[i]
    <3>1. u[i][1] \in 1..n - 1 /\ u[i][2] \in 1..file.units[u[i][1]].length
      BY <1>2, <1>5, <2>1
    <3> QED BY <1>1, <3>1
  <2>2. CASE i - Len(s) \in 1..L /\ u[i][1] = n /\ u[i][2] = i - Len(s)
    BY <1>1, <2>2 DEF L
  <2> QED BY <1>4, <2>1, <2>2
<1>6. ASSUME NEW m \in 1..n, NEW k \in 1..file.units[m].length
      PROVE  \E i \in 1..Len(u) : u[i] = <<m, k>>
  <2>1. CASE m = n
    <3>1. k \in 1..L
      BY <2>1 DEF L
    <3>2. Len(s) + k \in 1..Len(u)
      BY <1>1, <1>3, <3>1
    <3>3. u[Len(s) + k] = <<n, k>>
      <4>1. u[Len(s) + k] = t[k]
        BY <1>3, <3>1
      <4>2. t[k] = <<n, k>>
        BY <1>1, <3>1
      <4> QED BY <4>1, <4>2
    <3> QED BY <2>1, <3>2, <3>3
  <2>2. CASE m # n
    <3>1. m \in 1..n - 1
      BY <1>1, <2>2
    <3>2. PICK i \in 1..Len(s) : s[i] = <<m, k>>
      BY <1>2, <3>1
    <3>3. i \in 1..Len(u) /\ u[i] = s[i]
      BY <1>1, <1>3
    <3> QED BY <3>2, <3>3
  <2> QED BY <2>1, <2>2
<1>7. ASSUME NEW i \in 1..Len(u), NEW j \in 1..Len(u), i < j, IsCharacter(u[i]), IsCharacter(u[j])
      PROVE  Precedes(u[i], u[j])
  <2>1. CASE j \in 1..Len(s) /\ u[j] = s[j]
    <3>1. i \in 1..Len(s)
      BY <1>3, <1>7, <2>1
    <3>2. u[i] = s[i]
      BY <1>3, <3>1
    <3> QED BY <1>2, <1>7, <2>1, <3>1, <3>2
  <2>2. CASE j > Len(s) /\ j - Len(s) \in 1..L /\ u[j][1] = n /\ u[j][2] = j - Len(s)
    <3>1. CASE i \in 1..Len(s) /\ u[i] = s[i]
      <4>1. u[i][1] \in 1..n - 1
        BY <1>2, <1>7, <3>1
      <4> QED BY <1>1, <2>2, <4>1 DEF Precedes
    <3>2. CASE i > Len(s) /\ i - Len(s) \in 1..L /\ u[i][1] = n /\ u[i][2] = i - Len(s)
      BY <1>3, <1>7, <2>2, <3>2 DEF Precedes
    <3> QED BY <1>4, <3>1, <3>2
  <2> QED BY <1>4, <2>1, <2>2
<1>8. Orderly(u, n)
    BY <1>3, <1>5, <1>6, <1>7 DEF Orderly
<1> QED BY <1>8 DEF u, t

LEMMA SeparatorKeepsOrder ==
    ASSUME NEW n, NEW s, Orderly(s, n)
    PROVE  Orderly(s \o Separator, n)
<1> DEFINE u == s \o Separator
<1>1. /\ s \in Seq(Nat \X Nat) /\ Separator \in Seq(Nat \X Nat) /\ Len(Separator) = 1
      /\ ~IsCharacter(Separator[1])
    BY DEF Orderly, Separator, IsCharacter
<1>2. /\ u \in Seq(Nat \X Nat) /\ Len(u) = Len(s) + 1 /\ Len(s) \in Nat
      /\ \A i \in 1..Len(s) : u[i] = s[i]
      /\ u[Len(s) + 1] = Separator[1]
  <2> DEFINE t == Separator
             R == Nat \X Nat
  <2>1. s \in Seq(R) /\ t \in Seq(R) /\ Len(t) = 1
    BY <1>1
  <2> HIDE DEF t, R
  <2>2. /\ s \o t \in Seq(R) /\ Len(s \o t) = Len(s) + Len(t)
        /\ \A i \in 1..Len(s) + Len(t) : (s \o t)[i] = IF i <= Len(s) THEN s[i] ELSE t[i - Len(s)]
    BY <2>1, ConcatProperties
  <2>3. /\ Len(s) \in Nat /\ Len(s \o t) = Len(s) + 1
        /\ \A i \in 1..Len(s) + 1 : (s \o t)[i] = IF i <= Len(s) THEN s[i] ELSE t[i - Len(s)]
    BY <2>1, <2>2
  <2>4. Len(s) + 1 \in 1..Len(s) + 1 /\ (Len(s) + 1) - Len(s) = 1 /\ ~(Len(s) + 1 <= Len(s))
    BY <2>3
  <2>5. \A i \in 1..Len(s) : (s \o t)[i] = s[i]
    BY <2>3
  <2>6. (s \o t)[Len(s) + 1] = t[1]
    BY <2>3, <2>4
  <2> QED BY <2>2, <2>3, <2>5, <2>6 DEF t, R
<1> HIDE DEF u
<1>3. \A i \in 1..Len(u) : IsCharacter(u[i]) => i \in 1..Len(s) /\ u[i] = s[i]
  <2> TAKE i \in 1..Len(u)
  <2> HAVE IsCharacter(u[i])
  <2>1. i # Len(s) + 1
    BY <1>1, <1>2
  <2>2. i \in 1..Len(s)
    BY <1>2, <2>1
  <2> QED BY <1>2, <2>2
<1>4. \A i \in 1..Len(s) : i \in 1..Len(u) /\ u[i] = s[i]
    BY <1>2
<1>5. \A i \in 1..Len(u) : IsCharacter(u[i]) =>
         u[i][1] \in 1..n /\ u[i][2] \in 1..file.units[u[i][1]].length
  <2> TAKE i \in 1..Len(u)
  <2> HAVE IsCharacter(u[i])
  <2>1. i \in 1..Len(s) /\ u[i] = s[i]
    BY <1>3
  <2>2. s[i][1] \in 1..n /\ s[i][2] \in 1..file.units[s[i][1]].length
    BY <2>1 DEF Orderly
  <2> QED BY <2>1, <2>2
<1>6. \A m \in 1..n : \A k \in 1..file.units[m].length : \E i \in 1..Len(u) : u[i] = <<m, k>>
  <2> TAKE m \in 1..n
  <2> TAKE k \in 1..file.units[m].length
  <2>1. PICK i \in 1..Len(s) : s[i] = <<m, k>>
    BY DEF Orderly
  <2> QED BY <1>4, <2>1
<1>7. \A i, j \in 1..Len(u) :
         i < j /\ IsCharacter(u[i]) /\ IsCharacter(u[j]) => Precedes(u[i], u[j])
  <2> TAKE i, j \in 1..Len(u)
  <2> HAVE i < j /\ IsCharacter(u[i]) /\ IsCharacter(u[j])
  <2>1. i \in 1..Len(s) /\ u[i] = s[i] /\ j \in 1..Len(s) /\ u[j] = s[j]
    BY <1>3
  <2> QED BY <2>1 DEF Orderly
<1>8. Orderly(u, n)
    BY <1>2, <1>5, <1>6, <1>7 DEF Orderly
<1> QED BY <1>8 DEF u

LEMMA PassingOverKeepsOrder ==
    ASSUME NEW n \in Nat \ {0}, file.units[n].length = 0, NEW s, Orderly(s, n - 1)
    PROVE  Orderly(s, n)
<1>1. \A m \in 1..n : m \in 1..n - 1 \/ m = n
    OBVIOUS
<1>2. \A m \in 1..n : \A k \in 1..file.units[m].length : \E i \in 1..Len(s) : s[i] = <<m, k>>
  <2> TAKE m \in 1..n
  <2> TAKE k \in 1..file.units[m].length
  <2>1. m # n
    OBVIOUS
  <2>2. m \in 1..n - 1
    BY <1>1, <2>1
  <2> QED BY <2>2 DEF Orderly
<1>3. \A i \in 1..n - 1 : i \in 1..n
    OBVIOUS
<1> QED BY <1>2, <1>3 DEF Orderly
-----------------------------------------------------------------------------
\* The inductive invariant: what has been read is in order; while the pages are joined,
\* they follow each other, and each character is within the page it came from.
TextLists == Seq(Seq(Nat \X Nat))
PageRanges == Seq([number : Nat, start : Nat, end : Nat])

FileInv ==
    /\ file.type \in ContentTypes /\ file.units \in UnitSeq
    /\ file.type = "txt" => Len(file.units) = 1

CountInv ==
    /\ extraction \in {"opening", "reading", "joining", "done", "refused"}
    /\ taken \in 0..Len(file.units) /\ running \in Nat /\ running <= MaxCharacters
    /\ extraction = "opening" => taken = 0
    /\ extraction = "refused" => taken < Len(file.units) \/ file.units = <<>>

ReadInv ==
    extraction \in {"opening", "reading"} =>
      /\ pages = <<>> /\ buffer = <<>>
      /\ file.type # "docx" => pageTexts = [n \in 1..taken |-> Text(n)]
      /\ file.type = "docx" =>
           \/ pageTexts = <<>> /\ Orderly(<<>>, taken)
           \/ pageTexts = <<pageTexts[1]>> /\ Orderly(pageTexts[1], taken)

JoinedTexts ==
    /\ pageTexts \in TextLists /\ Len(pageTexts) # 0
    /\ file.type # "docx" => pageTexts = [n \in 1..Len(file.units) |-> Text(n)]
    /\ file.type = "docx" => Len(pageTexts) = 1 /\ Orderly(pageTexts[1], Len(file.units))

JoinedPages ==
    /\ pages \in PageRanges /\ Len(pages) <= Len(pageTexts)
    /\ \A n \in 1..Len(pages) : /\ pages[n].number = n /\ pages[n].start <= pages[n].end
                                /\ pages[n].end <= Len(buffer)
    /\ Len(pages) = 0 => buffer = <<>>
    /\ Len(pages) # 0 => pages[1].start = 0 /\ pages[Len(pages)].end = Len(buffer)
    /\ \A n \in 2..Len(pages) : pages[n].start = pages[n - 1].end
    /\ \A m, n \in 1..Len(pages) : m < n => pages[m].end <= pages[n].start

JoinedBuffer ==
    /\ buffer \in Seq(Nat \X Nat)
    /\ file.type = "docx" /\ Len(pages) = 1 => buffer = pageTexts[1]
    /\ file.type # "docx" =>
         /\ Orderly(buffer, Len(pages))
         /\ \A i \in 1..Len(buffer) : IsCharacter(buffer[i]) =>
              pages[buffer[i][1]].start < i /\ i <= pages[buffer[i][1]].end

JoinInv ==
    /\ extraction \in {"joining", "done"} => JoinedTexts /\ JoinedPages /\ JoinedBuffer
    /\ extraction = "done" => Len(pages) = Len(pageTexts)

ExtractionInv == FileInv /\ CountInv /\ ReadInv /\ JoinInv

LEMMA ExtractionHolds == ExtractionInit => ExtractionInv
<1> SUFFICES ASSUME ExtractionInit PROVE ExtractionInv
    OBVIOUS
<1>1. FileInv
    BY FileAssumption DEF ExtractionInit, FileInv, UnitSeq
<1>2. Len(file.units) \in Nat
    BY <1>1 DEF FileInv, UnitSeq
<1>3. CountInv
    BY <1>2, FileAssumption DEF ExtractionInit, CountInv
<1>4. ReadInv
  <2>1. \A f : f = [n \in 1..0 |-> Text(n)] => f = <<>>
    OBVIOUS
  <2>2. taken = 0 /\ pageTexts = <<>> /\ pages = <<>> /\ buffer = <<>>
    BY DEF ExtractionInit
  <2> QED BY <2>1, <2>2, NothingIsOrderly DEF ReadInv
<1>5. JoinInv
    BY DEF ExtractionInit, JoinInv
<1> QED BY <1>1, <1>3, <1>4, <1>5 DEF ExtractionInv

\* What the property says of a text that is in order, and of the pages around it.
LEMMA OrderlyIsComplete ==
    ASSUME FileInv, Orderly(buffer, Len(file.units))
    PROVE  /\ {buffer[i] : i \in Characters} = AllUnits
           /\ \A i, j \in Characters : i < j =>
                \/ Origin(i) < Origin(j)
                \/ Origin(i) = Origin(j) /\ buffer[i][2] < buffer[j][2]
<1> DEFINE N == Len(file.units)
<1>1. N \in Nat /\ file.units \in UnitSeq
    BY DEF FileInv, UnitSeq
<1>2. ASSUME NEW i \in Characters
      PROVE  /\ i \in 1..Len(buffer) /\ IsCharacter(buffer[i])
             /\ buffer[i][1] \in 1..N /\ buffer[i][2] \in 1..file.units[buffer[i][1]].length
             /\ buffer[i] = <<buffer[i][1], buffer[i][2]>>
  <2>1. i \in 1..Len(buffer) /\ IsCharacter(buffer[i])
    BY DEF Characters, IsCharacter
  <2>2. buffer[i] \in Nat \X Nat
    BY <2>1 DEF Orderly
  <2>3. buffer[i] = <<buffer[i][1], buffer[i][2]>>
    BY <2>2
  <2> QED BY <2>1, <2>3 DEF Orderly
<1>3. ASSUME NEW x PROVE x \in AllUnits <=> \E n \in 1..N : \E k \in 1..file.units[n].length : x = <<n, k>>
    BY DEF AllUnits
<1>4. ASSUME NEW x \in {buffer[i] : i \in Characters} PROVE x \in AllUnits
  <2>1. PICK i \in Characters : x = buffer[i]
    BY <1>4
  <2> QED BY <1>2, <1>3, <2>1
<1>5. ASSUME NEW x \in AllUnits PROVE x \in {buffer[i] : i \in Characters}
  <2>1. PICK n \in 1..N : \E k \in 1..file.units[n].length : x = <<n, k>>
    BY <1>3
  <2>2. PICK k \in 1..file.units[n].length : x = <<n, k>>
    BY <2>1
  <2>3. PICK i \in 1..Len(buffer) : buffer[i] = <<n, k>>
    BY DEF Orderly
  <2>4. IsCharacter(<<n, k>>)
    BY TextFacts, <1>1
  <2>5. i \in Characters
    BY <2>3, <2>4 DEF Characters, IsCharacter
  <2> QED BY <2>2, <2>3, <2>5
<1>6. ASSUME NEW i \in Characters, NEW j \in Characters, i < j
      PROVE  \/ Origin(i) < Origin(j)
             \/ Origin(i) = Origin(j) /\ buffer[i][2] < buffer[j][2]
  <2>1. Precedes(buffer[i], buffer[j])
    BY <1>2, <1>6 DEF Orderly
  <2> QED BY <2>1 DEF Precedes, Origin
<1> QED BY <1>4, <1>5, <1>6

LEMMA PagesCoverWhatTheyHold ==
    ASSUME JoinedPages,
           \A i \in Characters : /\ OfPage(i) \in 1..Len(pages)
                                 /\ pages[OfPage(i)].start < i /\ i <= pages[OfPage(i)].end
    PROVE  /\ \A a, b \in Characters : a <= b =>
                {OfPage(i) : i \in Characters \cap a..b} \subseteq PagesCovering(a - 1, b)
           /\ \A a \in Characters : PagesCovering(a - 1, a) = {OfPage(a)}
<1>1. \A i \in Characters : i \in Nat
    BY DEF Characters
<1>2. /\ Len(pages) \in Nat
      /\ \A n \in 1..Len(pages) : pages[n].start \in Nat /\ pages[n].end \in Nat /\ pages[n].number = n
      /\ \A m, n \in 1..Len(pages) : m < n => pages[m].end <= pages[n].start
  <2> DEFINE R == [number : Nat, start : Nat, end : Nat]
  <2>1. pages \in Seq(R)
    BY DEF JoinedPages, PageRanges
  <2>2. Len(pages) \in Nat /\ \A n \in 1..Len(pages) : pages[n] \in R
    <3> HIDE DEF R
    <3> QED BY <2>1
  <2> QED BY <2>2 DEF JoinedPages
<1>3. ASSUME NEW a, NEW b, NEW p
      PROVE  p \in PagesCovering(a, b) <=>
               \E n \in 1..Len(pages) : p = pages[n].number /\ pages[n].start < b /\ a < pages[n].end
    BY DEF PagesCovering
<1>4. ASSUME NEW a \in Characters, NEW b \in Characters, NEW i \in Characters \cap a..b
      PROVE  OfPage(i) \in PagesCovering(a - 1, b)
  <2> DEFINE p == OfPage(i)
  <2>1. p \in 1..Len(pages) /\ pages[p].start < i /\ i <= pages[p].end
    OBVIOUS
  <2> HIDE DEF p
  <2>2. pages[p].start \in Nat /\ pages[p].end \in Nat /\ pages[p].number = p
    BY <1>2, <2>1
  <2>3. pages[p].start < b /\ a - 1 < pages[p].end
    BY <1>1, <2>1, <2>2
  <2> QED BY <1>3, <2>1, <2>2, <2>3 DEF p
<1>5. ASSUME NEW a \in Characters PROVE PagesCovering(a - 1, a) = {OfPage(a)}
  <2> DEFINE p == OfPage(a)
  <2>1. p \in 1..Len(pages) /\ pages[p].start < a /\ a <= pages[p].end
    OBVIOUS
  <2> HIDE DEF p
  <2>2. p \in PagesCovering(a - 1, a)
    BY <1>1, <1>2, <1>3, <2>1
  <2>3. ASSUME NEW q \in PagesCovering(a - 1, a) PROVE q = p
    <3>1. PICK n \in 1..Len(pages) : q = pages[n].number /\ pages[n].start < a /\ a - 1 < pages[n].end
      BY <1>3
    <3>2. q = n
      BY <1>2, <3>1
    <3>3. ~(n < p)
      BY <1>1, <1>2, <2>1, <3>1
    <3>4. ~(p < n)
      BY <1>1, <1>2, <2>1, <3>1
    <3> QED BY <2>1, <3>1, <3>2, <3>3, <3>4
  <2> QED BY <2>2, <2>3 DEF p
<1> QED BY <1>4, <1>5

LEMMA ExtractionHasTheProperty == ExtractionInv => PagesHoldTheirText
<1> SUFFICES ASSUME ExtractionInv PROVE PagesHoldTheirText
    OBVIOUS
<1>1. CASE extraction # "done"
    BY <1>1 DEF ExtractionInv, CountInv, PagesHoldTheirText
<1>2. CASE extraction = "done"
  <2>1. FileInv /\ JoinedTexts /\ JoinedPages /\ JoinedBuffer /\ Len(pages) = Len(pageTexts)
    BY <1>2 DEF ExtractionInv, JoinInv
  <2>2. Len(file.units) \in Nat
    BY <2>1 DEF FileInv, UnitSeq
  <2>3. CASE file.type = "docx"
    <3>1. Len(pages) = 1 /\ buffer = pageTexts[1] /\ Orderly(buffer, Len(file.units))
      BY <2>1, <2>3 DEF JoinedTexts, JoinedBuffer
    <3>2. pages[1].start = 0 /\ pages[1].end = Len(buffer)
      BY <2>1, <3>1 DEF JoinedPages
    <3>3. \A i \in Characters : /\ OfPage(i) \in 1..Len(pages)
                                /\ pages[OfPage(i)].start < i /\ i <= pages[OfPage(i)].end
      BY <2>3, <3>1, <3>2 DEF OfPage, Characters
    <3> QED BY <1>2, <2>1, <3>1, <3>3, OrderlyIsComplete, PagesCoverWhatTheyHold
            DEF ExtractionInv, CountInv, PagesHoldTheirText
  <2>4. CASE file.type # "docx"
    <3>1. Len(pages) = Len(file.units) /\ Orderly(buffer, Len(file.units))
      BY <2>1, <2>2, <2>4 DEF JoinedTexts, JoinedBuffer
    <3>2. ASSUME NEW i \in Characters
          PROVE  /\ OfPage(i) \in 1..Len(pages)
                 /\ pages[OfPage(i)].start < i /\ i <= pages[OfPage(i)].end
      <4>1. i \in 1..Len(buffer) /\ IsCharacter(buffer[i])
        BY DEF Characters, IsCharacter
      <4>2. buffer[i][1] \in 1..Len(pages)
        BY <3>1, <4>1 DEF Orderly
      <4>3. OfPage(i) = buffer[i][1]
        <5>1. CASE file.type = "pdf"
          BY <5>1 DEF OfPage, Origin
        <5>2. CASE file.type = "txt"
          <6>1. Len(pages) = 1
            BY <2>1, <3>1, <5>2 DEF FileInv
          <6> QED BY <4>2, <5>2, <6>1 DEF OfPage
        <5> QED BY <2>1, <2>4, <5>1, <5>2 DEF FileInv, ContentTypes
      <4> QED BY <2>1, <2>4, <4>1, <4>2, <4>3 DEF JoinedBuffer
    <3> QED BY <1>2, <2>1, <3>1, <3>2, OrderlyIsComplete, PagesCoverWhatTheyHold
            DEF ExtractionInv, CountInv, PagesHoldTheirText
  <2> QED BY <2>3, <2>4
<1> QED BY <1>1, <1>2
-----------------------------------------------------------------------------
LEMMA RefuseKeeps ==
    ASSUME ExtractionInv, Refuse, taken < Len(file.units) \/ file.units = <<>>
    PROVE  ExtractionInv'
    BY DEF Refuse, ExtractionInv, FileInv, CountInv, ReadInv, JoinInv

LEMMA OpenFileKeeps == ASSUME ExtractionInv, OpenFile PROVE ExtractionInv'
<1>1. CASE file.sound /\ Guarded
  <2>1. /\ extraction = "opening" /\ extraction' = "reading"
        /\ UNCHANGED <<file, taken, running, pageTexts, buffer, pages>>
    BY <1>1 DEF OpenFile
  <2>2. FileInv' /\ CountInv' /\ JoinInv'
    BY <2>1 DEF ExtractionInv, FileInv, CountInv, JoinInv
  <2>3. ReadInv'
    BY <2>1 DEF ExtractionInv, ReadInv, Orderly, Text
  <2> QED BY <2>2, <2>3 DEF ExtractionInv
<1>2. CASE ~(file.sound /\ Guarded)
  <2>1. Refuse /\ taken = 0
    BY <1>2 DEF OpenFile, ExtractionInv, CountInv
  <2>2. Len(file.units) \in Nat /\ (Len(file.units) = 0 => file.units = <<>>)
    <3> DEFINE R == [length : Nat, width : Nat \ {0}]
    <3>1. file.units \in Seq(R)
      BY DEF ExtractionInv, FileInv, UnitSeq
    <3> HIDE DEF R
    <3> QED BY <3>1
  <2> QED BY <2>1, <2>2, RefuseKeeps
<1> QED BY <1>1, <1>2

LEMMA ReadUnitKeeps == ASSUME ExtractionInv, ReadUnit PROVE ExtractionInv'
<1> DEFINE n == taken + 1
<1>1. extraction = "reading" /\ taken < Len(file.units)
    BY DEF ReadUnit
<1>2. /\ file.units \in UnitSeq /\ n \in 1..Len(file.units) /\ taken \in Nat /\ n - 1 = taken
      /\ Len(file.units) \in Nat
    BY <1>1 DEF ExtractionInv, FileInv, CountInv, UnitSeq
<1>3. CASE ~WithinLimit(n)
    BY <1>1, <1>3, RefuseKeeps DEF ReadUnit
<1>4. CASE WithinLimit(n)
  <2>1. /\ taken' = n /\ running' = running + Counted(n) /\ pageTexts' = Extended(n)
        /\ UNCHANGED <<file, buffer, pages, extraction>>
    BY <1>4 DEF ReadUnit, Counted, Extended, Text
  <2> HIDE DEF n
  <2>2. file.units[n].length \in Nat /\ n \in Nat \ {0}
    BY <1>2, TextFacts
  <2>3. Counted(n) \in Nat
    BY <2>2 DEF Counted, Separator
  <2>4. CountInv'
    BY <1>1, <1>2, <1>4, <2>1, <2>3 DEF ExtractionInv, CountInv, WithinLimit
  <2>5. FileInv' /\ JoinInv'
    BY <1>1, <2>1 DEF ExtractionInv, FileInv, JoinInv
  <2>6. ReadInv'
    <3>1. pages' = <<>> /\ buffer' = <<>>
      BY <1>1, <2>1 DEF ExtractionInv, ReadInv
    <3>2. ASSUME file.type # "docx" PROVE pageTexts' = [m \in 1..n |-> Text(m)]
      <4>1. pageTexts = [m \in 1..taken |-> Text(m)] /\ pageTexts' = Append(pageTexts, Text(n))
        BY <1>1, <2>1, <3>2 DEF ExtractionInv, ReadInv, Extended
      <4>2. n = taken + 1
        BY DEF n
      <4> DEFINE t(m) == Text(m)
      <4> HIDE DEF t
      <4>3. \A s : s = [m \in 1..taken |-> t(m)] => Append(s, t(taken + 1)) = [m \in 1..taken + 1 |-> t(m)]
        <5> SUFFICES ASSUME NEW s, s = [m \in 1..taken |-> t(m)]
                     PROVE  Append(s, t(taken + 1)) = [m \in 1..taken + 1 |-> t(m)]
          OBVIOUS
        <5>1. s \in Seq({t(m) : m \in 1..taken + 1}) /\ Len(s) = taken
          BY <1>2
        <5> QED BY <1>2, <5>1
      <4> QED BY <4>1, <4>2, <4>3 DEF t
    <3>3. ASSUME file.type = "docx"
          PROVE  \/ pageTexts' = <<>> /\ Orderly(<<>>, n)
                 \/ pageTexts' = <<pageTexts'[1]>> /\ Orderly(pageTexts'[1], n)
      <4>1. \/ pageTexts = <<>> /\ Orderly(<<>>, n - 1)
            \/ pageTexts = <<pageTexts[1]>> /\ Orderly(pageTexts[1], n - 1)
        BY <1>1, <1>2, <3>3 DEF ExtractionInv, ReadInv
      <4>2. Text(n) = <<>> <=> file.units[n].length = 0
        BY <1>2, TextFacts
      <4>3. CASE Text(n) = <<>>
        <5>1. pageTexts' = pageTexts
          BY <2>1, <3>3, <4>3 DEF Extended
        <5> QED BY <2>2, <4>1, <4>2, <4>3, <5>1, PassingOverKeepsOrder
      <4>4. CASE Text(n) # <<>> /\ pageTexts = <<>>
        <5>1. pageTexts' = <<Text(n)>>
          BY <2>1, <3>3, <4>4 DEF Extended
        <5>2. Orderly(<<>>, n - 1)
          BY <4>1, <4>4
        <5>3. Orderly(<<>> \o Text(n), n)
          BY <1>2, <5>2, TextKeepsOrder
        <5>4. Text(n) \in Seq(Nat \X Nat)
          BY <1>2, TextFacts
        <5>5. <<>> \o Text(n) = Text(n)
          BY <5>4
        <5> QED BY <5>1, <5>3, <5>5
      <4>5. CASE Text(n) # <<>> /\ pageTexts # <<>>
        <5> DEFINE d == pageTexts[1]
        <5>1. pageTexts' = <<d \o Separator \o Text(n)>>
          BY <2>1, <3>3, <4>5 DEF Extended
        <5>2. Orderly(d, n - 1)
          BY <4>1, <4>5
        <5>3. Orderly(d \o Separator \o Text(n), n)
          BY <1>2, <5>2, SeparatorKeepsOrder, TextKeepsOrder
        <5> QED BY <5>1, <5>3
      <4> QED BY <4>3, <4>4, <4>5
    <3>4. \A m : Text(m)' = Text(m)
      BY <2>1 DEF Text
    <3>5. ASSUME file'.type # "docx" PROVE pageTexts' = [m \in 1..taken' |-> Text(m)']
      BY <2>1, <3>2, <3>4, <3>5
    <3>6. file.type = "docx" => \/ pageTexts' = <<>> /\ Orderly(<<>>, taken)'
                                \/ pageTexts' = <<pageTexts'[1]>> /\ Orderly(pageTexts[1], taken)'
      BY <2>1, <3>3 DEF Orderly
    <3> QED BY <2>1, <3>1, <3>5, <3>6 DEF ReadInv
  <2> QED BY <2>4, <2>5, <2>6 DEF ExtractionInv
<1> QED BY <1>3, <1>4

LEMMA UnreadableKeeps == ASSUME ExtractionInv, Unreadable PROVE ExtractionInv'
    BY RefuseKeeps DEF Unreadable
LEMMA EndOfFileKeeps == ASSUME ExtractionInv, EndOfFile PROVE ExtractionInv'
<1> DEFINE L == Len(file.units)
<1>1. extraction = "reading" /\ taken = L
    BY DEF EndOfFile
<1>2. /\ file.units \in UnitSeq /\ L \in Nat /\ (L = 0 => file.units = <<>>)
      /\ file.type \in ContentTypes /\ (file.type = "txt" => L = 1)
  <2> DEFINE R == [length : Nat, width : Nat \ {0}]
  <2>1. file.units \in Seq(R)
    BY DEF ExtractionInv, FileInv, UnitSeq
  <2>2. L \in Nat /\ (L = 0 => file.units = <<>>)
    <3> HIDE DEF R
    <3> QED BY <2>1
  <2> QED BY <2>2 DEF ExtractionInv, FileInv
<1>3. /\ pages = <<>> /\ buffer = <<>>
      /\ file.type # "docx" => pageTexts = [n \in 1..L |-> Text(n)]
      /\ file.type = "docx" =>
           \/ pageTexts = <<>> /\ Orderly(<<>>, L)
           \/ pageTexts = <<pageTexts[1]>> /\ Orderly(pageTexts[1], L)
    BY <1>1 DEF ExtractionInv, ReadInv
<1>4. \A n \in 1..L : Text(n) \in Seq(Nat \X Nat)
    BY <1>2, TextFacts
<1> HIDE DEF L
<1>5. file.type # "docx" => pageTexts \in TextLists /\ Len(pageTexts) = L
  <2> DEFINE t(n) == Text(n)
             R == Seq(Nat \X Nat)
  <2>1. \A n \in 1..L : t(n) \in R
    BY <1>4
  <2> HIDE DEF t, R
  <2>2. \A s : s = [n \in 1..L |-> t(n)] => s \in Seq(R) /\ Len(s) = L
    BY <1>2, <2>1
  <2> QED BY <1>3, <2>2 DEF t, R, TextLists
<1>6. CASE file.type = "pdf" /\ pageTexts = <<>>
  <2>1. Refuse
    BY <1>6 DEF EndOfFile
  <2>2. L = 0
    BY <1>5, <1>6
  <2> QED BY <1>2, <2>1, <2>2, RefuseKeeps
<1>7. CASE ~(file.type = "pdf" /\ pageTexts = <<>>)
  <2>1. /\ pageTexts' = IF pageTexts = <<>> THEN <<<<>>>> ELSE pageTexts
        /\ extraction' = "joining" /\ UNCHANGED <<file, taken, running, buffer, pages>>
    BY <1>7 DEF EndOfFile
  <2>2. FileInv' /\ CountInv' /\ ReadInv'
    BY <1>1, <2>1 DEF ExtractionInv, FileInv, CountInv, ReadInv
  <2>3. CASE file.type = "docx"
    <3> PICK d \in Seq(Nat \X Nat) : pageTexts' = <<d>> /\ Orderly(d, L)
      <4>1. CASE pageTexts = <<>>
        <5>1. <<>> \in Seq(Nat \X Nat)
          OBVIOUS
        <5>2. pageTexts' = <<<<>>>> /\ Orderly(<<>>, L)
          BY <1>3, <2>1, <2>3, <4>1
        <5> QED BY <5>1, <5>2
      <4>2. CASE pageTexts # <<>>
        <5>1. pageTexts' = <<pageTexts[1]>> /\ Orderly(pageTexts[1], L)
          BY <1>3, <2>1, <2>3, <4>2
        <5>2. pageTexts[1] \in Seq(Nat \X Nat)
          BY <5>1 DEF Orderly
        <5> QED BY <5>1, <5>2
      <4> QED BY <4>1, <4>2
    <3>1. pageTexts' \in TextLists /\ Len(pageTexts') = 1 /\ pageTexts'[1] = d
      <4> DEFINE R == Seq(Nat \X Nat)
      <4>1. d \in R
        OBVIOUS
      <4> HIDE DEF R
      <4>2. <<d>> \in Seq(R) /\ Len(<<d>>) = 1 /\ <<d>>[1] = d
        BY <4>1
      <4> QED BY <4>2 DEF R, TextLists
    <3>2. Orderly(pageTexts[1], Len(file.units))'
      BY <2>1, <3>1 DEF Orderly, L
    <3>3. JoinedTexts'
      BY <2>1, <2>3, <3>1, <3>2 DEF JoinedTexts
    <3>4. JoinedPages' /\ JoinedBuffer'
      BY <1>3, <2>1, <2>3, <3>1 DEF JoinedPages, JoinedBuffer, PageRanges
    <3> QED BY <2>1, <2>2, <3>3, <3>4 DEF ExtractionInv, JoinInv
  <2>4. CASE file.type # "docx"
    <3>1. L # 0 /\ pageTexts # <<>> /\ Len(pageTexts) # 0
      BY <1>2, <1>5, <1>7, <2>4 DEF ContentTypes
    <3>2. pageTexts' = pageTexts
      BY <2>1, <3>1
    <3>3. JoinedTexts'
      <4>1. \A n : Text(n)' = Text(n)
        BY <2>1 DEF Text
      <4>2. Len(file.units)' = L
        BY <2>1 DEF L
      <4> QED BY <1>3, <1>5, <2>1, <2>4, <3>1, <3>2, <4>1, <4>2 DEF JoinedTexts
    <3>4. JoinedPages'
      BY <1>3, <1>5, <1>2, <2>1, <2>4, <3>2 DEF JoinedPages, PageRanges
    <3>5. JoinedBuffer'
      <4>1. Len(pages') = 0 /\ buffer' = <<>> /\ Len(buffer') = 0
        BY <1>3, <2>1
      <4>2. buffer' \in Seq(Nat \X Nat)
        BY <4>1
      <4>3. Orderly(buffer, Len(pages))'
        BY <4>1, <4>2 DEF Orderly
      <4> QED BY <2>1, <2>4, <4>1, <4>2, <4>3 DEF JoinedBuffer
    <3> QED BY <2>1, <2>2, <3>3, <3>4, <3>5 DEF ExtractionInv, JoinInv
  <2> QED BY <2>3, <2>4
<1> QED BY <1>6, <1>7

LEMMA PlaceKeeps == ASSUME ExtractionInv, Place PROVE ExtractionInv'
<1> DEFINE n == Len(pages) + 1
           piece == Piece(n)
           page == [number |-> n, start |-> Len(buffer), end |-> EndOf(n)]
           R == [number : Nat, start : Nat, end : Nat]
           C == Nat \X Nat
<1>1. /\ extraction = "joining" /\ n <= Len(pageTexts)
      /\ pages' = Append(pages, page) /\ buffer' = buffer \o piece
      /\ UNCHANGED <<file, taken, running, pageTexts, extraction>>
    BY DEF Place
<1>2. FileInv /\ JoinedTexts /\ JoinedPages /\ JoinedBuffer
    BY <1>1 DEF ExtractionInv, JoinInv
<1>3. FileInv' /\ CountInv' /\ ReadInv'
    BY <1>1 DEF ExtractionInv, FileInv, CountInv, ReadInv
<1>4. JoinedTexts'
    BY <1>1, <1>2 DEF JoinedTexts, Orderly, Text
<1>5. /\ pages \in Seq(R) /\ Len(pages) \in Nat /\ buffer \in Seq(C) /\ Len(buffer) \in Nat
      /\ pageTexts \in Seq(Seq(C)) /\ Len(pageTexts) \in Nat /\ n \in 1..Len(pageTexts)
  <2>1. pages \in Seq(R) /\ buffer \in Seq(C) /\ pageTexts \in Seq(Seq(C))
    BY <1>2 DEF JoinedPages, JoinedBuffer, JoinedTexts, TextLists, PageRanges
  <2> HIDE DEF R, C
  <2>2. Len(pages) \in Nat /\ Len(buffer) \in Nat /\ Len(pageTexts) \in Nat
    BY <2>1
  <2> QED BY <1>1, <2>1, <2>2
<1>6. piece \in Seq(C)
  <2>1. pageTexts[n] \in Seq(C)
    <3> DEFINE S == Seq(C)
    <3> HIDE DEF S, n
    <3>1. pageTexts \in Seq(S) /\ n \in 1..Len(pageTexts)
      BY <1>5 DEF S
    <3>2. pageTexts[n] \in S
      BY <3>1
    <3> QED BY <3>2 DEF S
  <2>2. Separator \in Seq(C)
    BY DEF Separator
  <2>3. pageTexts[n] \o Separator \in Seq(C)
    BY <2>1, <2>2, ConcatProperties
  <2> QED BY <2>1, <2>3 DEF Piece
<1> HIDE DEF piece
<1>7. Len(piece) \in Nat /\ EndOf(n) = Len(buffer) + Len(piece)
  <2> HIDE DEF C
  <2> QED BY <1>6 DEF EndOf, piece
<1>8. /\ buffer' \in Seq(C) /\ Len(buffer') = Len(buffer) + Len(piece)
      /\ \A i \in 1..Len(buffer) + Len(piece) :
           buffer'[i] = IF i <= Len(buffer) THEN buffer[i] ELSE piece[i - Len(buffer)]
  <2> HIDE DEF C
  <2> QED BY <1>1, <1>5, <1>6, ConcatProperties
<1>9. page \in R /\ page.number = n /\ page.start = Len(buffer) /\ page.end = Len(buffer')
    BY <1>5, <1>7, <1>8
<1> HIDE DEF page
<1>10. /\ pages' \in Seq(R) /\ Len(pages') = n /\ \A k \in 1..Len(pages) : pages'[k] = pages[k]
       /\ pages'[n] = page /\ n \in Nat \ {0} /\ \A k \in 1..n : k = n \/ k \in 1..Len(pages)
       /\ Len(pages) = n - 1
  <2> HIDE DEF R
  <2> QED BY <1>1, <1>5, <1>9
<1>11. JoinedPages'
  <2>1. /\ \A k \in 1..Len(pages) : /\ pages[k].number = k /\ pages[k].start <= pages[k].end
                                    /\ pages[k].end <= Len(buffer)
        /\ Len(pages) = 0 => buffer = <<>>
        /\ Len(pages) # 0 => pages[1].start = 0 /\ pages[Len(pages)].end = Len(buffer)
        /\ \A k \in 2..Len(pages) : pages[k].start = pages[k - 1].end
        /\ \A m, k \in 1..Len(pages) : m < k => pages[m].end <= pages[k].start
    BY <1>2 DEF JoinedPages
  <2>2. \A k \in 1..Len(pages) : pages[k].start \in Nat /\ pages[k].end \in Nat
    <3>1. \A k \in 1..Len(pages) : pages[k] \in R
      <4> HIDE DEF R
      <4> QED BY <1>5
    <3> QED BY <3>1
  <2> HIDE DEF n, R
  <2>3. Len(buffer) <= Len(buffer') /\ Len(buffer') \in Nat
    BY <1>5, <1>7, <1>8
  <2>4. ASSUME NEW k \in 1..n
        PROVE  /\ pages'[k].number = k /\ pages'[k].start <= pages'[k].end
               /\ pages'[k].end <= Len(buffer')
    <3>1. CASE k = n
      BY <1>5, <1>9, <1>10, <2>3, <3>1
    <3>2. CASE k \in 1..Len(pages)
      <4>1. pages'[k] = pages[k]
        BY <1>10, <3>2
      <4>2. pages[k].number = k /\ pages[k].start <= pages[k].end /\ pages[k].end <= Len(buffer)
        BY <2>1, <3>2
      <4>3. pages[k].end \in Nat /\ Len(buffer) \in Nat
        BY <1>5, <2>2, <3>2
      <4>4. pages[k].end <= Len(buffer')
        BY <2>3, <4>2, <4>3
      <4> QED BY <4>1, <4>2, <4>4
    <3> QED BY <1>10, <3>1, <3>2
  <2>5. pages'[1].start = 0
    <3>1. CASE Len(pages) = 0
      BY <1>9, <1>10, <2>1, <3>1
    <3>2. CASE Len(pages) # 0
      BY <1>5, <1>10, <2>1, <3>2
    <3> QED BY <3>1, <3>2
  <2>6. ASSUME NEW k \in 2..n PROVE pages'[k].start = pages'[k - 1].end
    <3>1. CASE k = n
      <4>1. k - 1 = Len(pages) /\ Len(pages) # 0 /\ Len(pages) \in 1..Len(pages)
        BY <1>5, <1>10, <3>1
      <4> QED BY <1>9, <1>10, <2>1, <3>1, <4>1
    <3>2. CASE k # n
      <4>1. k \in 2..Len(pages) /\ k - 1 \in 1..Len(pages) /\ k \in 1..Len(pages)
        BY <1>10, <3>2
      <4> QED BY <1>10, <2>1, <4>1
    <3> QED BY <3>1, <3>2
  <2>7. ASSUME NEW m \in 1..n, NEW k \in 1..n, m < k PROVE pages'[m].end <= pages'[k].start
    <3>1. m \in 1..Len(pages)
      BY <1>10, <2>7
    <3>2. CASE k = n
      BY <1>9, <1>10, <2>1, <3>1, <3>2
    <3>3. CASE k \in 1..Len(pages)
      BY <1>10, <2>1, <2>7, <3>1, <3>3
    <3> QED BY <1>10, <3>2, <3>3
  <2>8. Len(pages') = n /\ n # 0 /\ Len(pages') <= Len(pageTexts') /\ pages'[n].end = Len(buffer')
    BY <1>1, <1>9, <1>10 DEF n
  <2> QED BY <1>10, <2>4, <2>5, <2>6, <2>7, <2>8 DEF JoinedPages, PageRanges, R
<1>12. JoinedBuffer'
  <2>1. CASE file.type = "docx"
    <3>1. Len(pageTexts) = 1
      BY <1>2, <2>1 DEF JoinedTexts
    <3>2. n = 1 /\ Len(pages) = 0
      BY <1>5, <3>1
    <3>3. piece = pageTexts[1] /\ buffer = <<>>
      BY <1>2, <3>1, <3>2 DEF Piece, piece, JoinedPages
    <3>4. buffer' = piece
      <4> HIDE DEF C
      <4> QED BY <1>1, <1>6, <3>3, ConcatEmptySeq
    <3> QED BY <1>1, <1>8, <2>1, <3>3, <3>4 DEF JoinedBuffer
  <2>2. CASE file.type # "docx"
    <3>1. /\ pageTexts = [m \in 1..Len(file.units) |-> Text(m)] /\ file.units \in UnitSeq
          /\ Orderly(buffer, n - 1)
          /\ \A i \in 1..Len(buffer) : IsCharacter(buffer[i]) =>
               pages[buffer[i][1]].start < i /\ i <= pages[buffer[i][1]].end
      BY <1>2, <1>10, <2>2 DEF JoinedTexts, JoinedBuffer, FileInv
    <3>2. n \in 1..Len(file.units) /\ pageTexts[n] = Text(n)
      <4>1. Len(file.units) \in Nat
        BY <3>1 DEF UnitSeq
      <4>2. Len(pageTexts) = Len(file.units)
        BY <3>1, <4>1
      <4> QED BY <1>5, <3>1, <4>2
    <3> HIDE DEF n, C
    <3>3. Orderly(buffer', n)
      <4>1. Orderly(buffer \o Text(n), n)
        BY <3>1, <3>2, TextKeepsOrder
      <4>2. CASE n = Len(pageTexts)
        BY <1>1, <3>2, <4>1, <4>2 DEF piece, Piece
      <4>3. CASE n # Len(pageTexts)
        <5>1. buffer' = buffer \o (Text(n) \o Separator)
          BY <1>1, <3>2, <4>3 DEF piece, Piece
        <5>2. Text(n) \in Seq(C) /\ Separator \in Seq(C)
          BY <3>1, <3>2, TextFacts DEF C, Separator
        <5>3. buffer' = (buffer \o Text(n)) \o Separator
          <6> DEFINE t == Text(n)
                     x == Separator
          <6>1. buffer \in Seq(C) /\ t \in Seq(C) /\ x \in Seq(C)
            BY <1>5, <5>2
          <6> HIDE DEF t, x
          <6>2. (buffer \o t) \o x = buffer \o (t \o x)
            BY <6>1, ConcatAssociative
          <6> QED BY <5>1, <6>2 DEF t, x
        <5> QED BY <4>1, <5>3, SeparatorKeepsOrder
      <4> QED BY <4>2, <4>3
    <3>4. ASSUME NEW i \in 1..Len(buffer'), IsCharacter(buffer'[i])
          PROVE  pages'[buffer'[i][1]].start < i /\ i <= pages'[buffer'[i][1]].end
      <4>1. CASE i <= Len(buffer)
        <5>1. i \in 1..Len(buffer) /\ buffer'[i] = buffer[i]
          BY <1>5, <1>7, <1>8, <4>1
        <5>2. buffer[i][1] \in 1..n - 1
          BY <3>1, <3>4, <5>1 DEF Orderly
        <5>3. pages'[buffer[i][1]] = pages[buffer[i][1]]
          BY <1>10, <5>2
        <5> QED BY <3>1, <3>4, <5>1, <5>3
      <4>2. CASE i > Len(buffer)
        <5> DEFINE k == i - Len(buffer)
        <5>1. k \in 1..Len(piece) /\ buffer'[i] = piece[k]
          BY <1>5, <1>7, <1>8, <4>2
        <5>2. buffer'[i][1] = n
          <6> HIDE DEF k
          <6> DEFINE t == Text(n)
                     x == Separator
          <6>1. t \in Seq(C) /\ x \in Seq(C) /\ Len(x) = 1 /\ Len(t) \in Nat
            BY <3>1, <3>2, TextFacts DEF C, Separator
          <6>2. \A j \in 1..Len(t) : t[j][1] = n
            <7> SUFFICES ASSUME NEW j \in 1..file.units[n].length PROVE Text(n)[j][1] = n
              BY <3>1, <3>2, TextFacts
            <7>1. Text(n)[j] = <<n, j>> /\ <<n, j>>[1] = n
              BY <3>1, <3>2, TextFacts
            <7> QED BY <7>1, Zenon
          <6> HIDE DEF t, x
          <6>3. CASE n = Len(pageTexts)
            <7>1. piece = t
              BY <3>2, <6>3 DEF piece, Piece, t
            <7> QED BY <5>1, <6>2, <7>1
          <6>4. CASE n # Len(pageTexts)
            <7>1. piece = t \o x
              BY <3>2, <6>4 DEF piece, Piece, t, x
            <7>2. /\ Len(piece) = Len(t) + 1
                  /\ \A j \in 1..Len(t) + 1 : piece[j] = IF j <= Len(t) THEN t[j] ELSE x[j - Len(t)]
              <8> DEFINE p == t \o x
              <8>1. /\ Len(p) = Len(t) + Len(x)
                    /\ \A j \in 1..Len(t) + Len(x) : p[j] = IF j <= Len(t) THEN t[j] ELSE x[j - Len(t)]
                BY <6>1, ConcatProperties
              <8>2. Len(t) + Len(x) = Len(t) + 1
                BY <6>1
              <8> QED BY <7>1, <8>1, <8>2
            <7>3. k \in 1..Len(t)
              <8> SUFFICES ASSUME k = Len(t) + 1 PROVE FALSE
                BY <5>1, <6>1, <7>2
              <8>1. piece[k] = x[1]
                BY <6>1, <7>2
              <8> QED BY <3>4, <5>1, <8>1 DEF IsCharacter, x
            <7>4. piece[k] = t[k]
              BY <6>1, <7>2, <7>3
            <7> QED BY <5>1, <6>2, <7>3, <7>4
          <6> QED BY <6>3, <6>4
        <5> QED BY <1>5, <1>7, <1>8, <1>9, <1>10, <4>2, <5>2
      <4> QED BY <1>5, <4>1, <4>2
    <3>5. Orderly(buffer, Len(pages))'
      BY <1>1, <1>10, <3>3 DEF Orderly
    <3> QED BY <1>1, <1>8, <2>2, <3>4, <3>5 DEF JoinedBuffer, C
  <2> QED BY <2>1, <2>2
<1>13. JoinInv'
    BY <1>1, <1>4, <1>11, <1>12 DEF JoinInv
<1> QED BY <1>3, <1>13 DEF ExtractionInv

LEMMA AssembleKeeps == ASSUME ExtractionInv, Assemble PROVE ExtractionInv'
<1>1. extraction = "joining" /\ Len(pages) = Len(pageTexts)
    BY DEF Assemble
<1>2. JoinedTexts /\ JoinedPages /\ JoinedBuffer
    BY <1>1 DEF ExtractionInv, JoinInv
<1>3. Contiguous
    BY <1>1, <1>2 DEF Contiguous, JoinedPages, JoinedTexts
<1>4. /\ extraction' = "done"
      /\ UNCHANGED <<file, taken, running, pageTexts, buffer, pages>>
    BY <1>3 DEF Assemble
<1>5. FileInv' /\ CountInv' /\ ReadInv'
    BY <1>1, <1>4 DEF ExtractionInv, FileInv, CountInv, ReadInv
<1>6. JoinInv'
  <2>1. JoinedTexts'
    BY <1>2, <1>4 DEF JoinedTexts, Orderly, Text
  <2>2. JoinedPages'
    BY <1>2, <1>4 DEF JoinedPages
  <2>3. JoinedBuffer'
    BY <1>2, <1>4 DEF JoinedBuffer, Orderly
  <2> QED BY <1>1, <1>4, <2>1, <2>2, <2>3 DEF JoinInv
<1> QED BY <1>5, <1>6 DEF ExtractionInv

LEMMA ExtractionIsKept == ExtractionInv /\ [ExtractionNext]_extractionVars => ExtractionInv'
<1> SUFFICES ASSUME ExtractionInv, [ExtractionNext]_extractionVars PROVE ExtractionInv'
    OBVIOUS
<1>1. CASE UNCHANGED extractionVars
  <2> USE <1>1 DEF extractionVars
  <2>1. FileInv' /\ CountInv' /\ ReadInv'
    BY DEF ExtractionInv, FileInv, CountInv, ReadInv, Orderly, Text
  <2>2. JoinedTexts => JoinedTexts'
    BY DEF JoinedTexts, Orderly, Text
  <2>3. JoinedPages => JoinedPages'
    BY DEF JoinedPages
  <2>4. JoinedBuffer => JoinedBuffer'
    BY DEF JoinedBuffer, Orderly
  <2>5. JoinInv'
    BY <2>2, <2>3, <2>4 DEF ExtractionInv, JoinInv
  <2> QED BY <2>1, <2>5 DEF ExtractionInv
<1> QED BY <1>1, OpenFileKeeps, ReadUnitKeeps, UnreadableKeeps, EndOfFileKeeps, PlaceKeeps,
           AssembleKeeps DEF ExtractionNext

\* What extract_text and build_extracted_document make of a file is its text, once and in
\* order, with the pages its characters came from; for any file of any type, and any limit.
THEOREM TextIsExtracted == ExtractionSpec => []PagesHoldTheirText
<1>1. ExtractionInit => ExtractionInv
    BY ExtractionHolds
<1>2. ExtractionInv /\ [ExtractionNext]_extractionVars => ExtractionInv'
    BY ExtractionIsKept
<1>3. ExtractionInv => PagesHoldTheirText
    BY ExtractionHasTheProperty
<1> QED BY <1>1, <1>2, <1>3, PTL DEF ExtractionSpec

-----------------------------------------------------------------------------
(***************************************************************************)
(* What a greedy loop over finitely many spans keeps.  Its rule decides a  *)
(* span by those met before it, so a function that obeys the rule has to   *)
(* be shown to exist: the smallest set of spans for which there is none    *)
(* would have a last span, and there is one for the others.                *)
(***************************************************************************)

IsOrder(order, spans) ==
    /\ \A e \in spans : <<e, e>> \notin order
    /\ \A e, f, g \in spans : <<e, f>> \in order /\ <<f, g>> \in order => <<e, g>> \in order

\* Of finitely many spans, one comes before no other.
LEMMA LastSpan ==
    ASSUME NEW spans, NEW order, IsOrder(order, spans), IsFiniteSet(spans), spans # {}
    PROVE  \E w \in spans : \A e \in spans : <<w, e>> \notin order
<1> DEFINE T == {S \in SUBSET spans : S # {} /\ ~\E w \in S : \A e \in S : <<w, e>> \notin order}
<1> SUFFICES ASSUME T # {} PROVE FALSE
    OBVIOUS
<1>1. \A S \in T : S \subseteq spans /\ IsFiniteSet(S)
    BY FS_Subset
<1>2. \E S \in T : \A R \in T : R \subseteq S => R = S
  <2> HIDE DEF T
  <2> QED BY <1>1, SmallestSet
<1>3. PICK S \in T : \A R \in T : R \subseteq S => R = S
    BY <1>2
<1>4. PICK x \in S : TRUE
    OBVIOUS
<1>5. <<x, x>> \notin order /\ x \in spans
    BY DEF IsOrder
<1>6. S \ {x} # {}
    BY <1>4, <1>5
<1>7. S \ {x} \notin T
  <2> HIDE DEF T
  <2> QED BY <1>3, <1>4
<1>8. PICK w \in S \ {x} : \A e \in S \ {x} : <<w, e>> \notin order
    BY <1>6, <1>7
<1>9. CASE <<w, x>> \in order
  <2>1. \A e \in S : <<x, e>> \in order => e # x /\ <<w, e>> \in order
    BY <1>5, <1>9 DEF IsOrder
  <2>2. \A e \in S : <<x, e>> \notin order
    BY <1>8, <2>1
  <2> QED BY <2>2, <1>4
<1>10. CASE <<w, x>> \notin order
    BY <1>8, <1>10
<1> QED BY <1>9, <1>10

\* A choice of some spans that is what the greedy loop makes of them.
Greedy(K, spans, drops) ==
    \A e \in spans : e \in K <=> \A k \in K : <<k, e>> \notin drops

\* The loop makes one: the last span of all decides nothing for the others.
LEMMA GreedyExists ==
    ASSUME NEW spans, NEW order, IsOrder(order, spans), IsFiniteSet(spans),
           NEW drops, drops \subseteq order
    PROVE  \E K \in SUBSET spans : Greedy(K, spans, drops)
<1> DEFINE T == {S \in SUBSET spans : ~\E K \in SUBSET S : Greedy(K, S, drops)}
<1> SUFFICES ASSUME T # {} PROVE FALSE
    OBVIOUS
<1>1. \A S \in T : S \subseteq spans /\ IsFiniteSet(S)
    BY FS_Subset
<1>2. \E S \in T : \A R \in T : R \subseteq S => R = S
  <2> HIDE DEF T
  <2> QED BY <1>1, SmallestSet
<1>3. PICK S \in T : \A R \in T : R \subseteq S => R = S
    BY <1>2
<1>4. S # {}
  <2>1. Greedy({}, {}, drops)
    BY DEF Greedy
  <2> QED BY <2>1
<1>5. \E w \in S : \A e \in S : <<w, e>> \notin order
  <2>1. IsOrder(order, S) /\ IsFiniteSet(S)
    BY <1>1 DEF IsOrder
  <2> QED BY <1>4, <2>1, LastSpan
<1>6. PICK w \in S : \A e \in S : <<w, e>> \notin order
    BY <1>5
<1>7. S \ {w} \notin T
  <2> HIDE DEF T
  <2> QED BY <1>3, <1>6
<1>8. PICK K \in SUBSET (S \ {w}) : Greedy(K, S \ {w}, drops)
    BY <1>7
<1>9. CASE \A k \in K : <<k, w>> \notin drops
  <2>1. ASSUME NEW e \in S
        PROVE  e \in K \cup {w} <=> \A k \in K \cup {w} : <<k, e>> \notin drops
    <3>1. <<w, e>> \notin drops
      BY <1>6
    <3>2. CASE e = w
      BY <1>9, <3>1, <3>2
    <3>3. CASE e # w
      BY <1>8, <3>1, <3>3 DEF Greedy
    <3> QED BY <3>2, <3>3
  <2>2. K \cup {w} \in SUBSET S /\ Greedy(K \cup {w}, S, drops)
    BY <2>1 DEF Greedy
  <2> QED BY <2>2
<1>10. CASE ~\A k \in K : <<k, w>> \notin drops
  <2>1. ASSUME NEW e \in S
        PROVE  e \in K <=> \A k \in K : <<k, e>> \notin drops
    <3>1. CASE e = w
      BY <1>8, <1>10, <3>1
    <3>2. CASE e # w
      BY <1>8, <3>2 DEF Greedy
    <3> QED BY <3>1, <3>2
  <2>2. K \in SUBSET S /\ Greedy(K, S, drops)
    BY <2>1 DEF Greedy
  <2> QED BY <2>2
<1> QED BY <1>9, <1>10

\* So what Kept computes is such a choice.
LEMMA KeptIsGreedy ==
    ASSUME NEW spans, NEW order, IsOrder(order, spans), IsFiniteSet(spans),
           NEW drops, drops \subseteq order
    PROVE  Kept(spans, drops) \subseteq spans /\ Greedy(Kept(spans, drops), spans, drops)
<1> DEFINE Rule(g) == [e \in spans |-> \A k \in spans : <<k, e>> \in drops => ~g[k]]
           keeps == CHOOSE g : g = Rule(g)
<1>1. \E g : g = Rule(g)
  <2>1. PICK K \in SUBSET spans : Greedy(K, spans, drops)
    BY GreedyExists
  <2> DEFINE h == [e \in spans |-> e \in K]
  <2>2. ASSUME NEW e \in spans
        PROVE  (e \in K) <=> (\A k \in spans : <<k, e>> \in drops => ~h[k])
    <3>1. \A k \in spans : h[k] <=> k \in K
      OBVIOUS
    <3> HIDE DEF h
    <3> QED BY <2>1, <3>1 DEF Greedy
  <2>3. h = Rule(h)
    <3>1. \A e \in spans : h[e] = Rule(h)[e]
      <4> SUFFICES ASSUME NEW e \in spans PROVE h[e] = Rule(h)[e]
        OBVIOUS
      <4>1. h[e] = (e \in K)
        BY Zenon
      <4>2. Rule(h)[e] = (\A k \in spans : <<k, e>> \in drops => ~h[k])
        <5> HIDE DEF h
        <5> QED BY Zenon
      <4>3. (e \in K) = (\A k \in spans : <<k, e>> \in drops => ~h[k])
        <5> DEFINE P == e \in K
                   Q == \A k \in spans : <<k, e>> \in drops => ~h[k]
        <5>1. P <=> Q
          BY <2>2
        <5>2. P \in BOOLEAN /\ Q \in BOOLEAN
          BY SMT
        <5>3. P = Q
          <6> HIDE DEF P, Q
          <6> QED BY <5>1, <5>2, SMT
        <5> QED BY <5>3, Zenon
      <4> QED BY <4>1, <4>2, <4>3, Zenon
    <3>2. h = [e \in spans |-> h[e]] /\ Rule(h) = [e \in spans |-> Rule(h)[e]]
      BY Zenon
    <3> HIDE DEF h, Rule
    <3> QED BY <3>1, <3>2, Zenon
  <2> QED BY <2>3
<1>2. keeps = Rule(keeps)
  <2> HIDE DEF Rule
  <2> QED BY <1>1
<1>3. Kept(spans, drops) = {e \in spans : keeps[e]}
    BY DEF Kept
<1> HIDE DEF keeps
<1>4. \A e \in spans : keeps[e] = (\A k \in spans : <<k, e>> \in drops => ~keeps[k])
    BY <1>2
<1> QED BY <1>3, <1>4 DEF Greedy

-----------------------------------------------------------------------------
(***************************************************************************)
(* The two orders of spans.                                                *)
(***************************************************************************)

LEMMA LessIsIrreflexive ==
    ASSUME NEW n \in Nat, NEW a \in [1..n -> Int]
    PROVE  ~Less(a, a)
BY DEF Less

LEMMA LessIsTransitive ==
    ASSUME NEW n \in Nat, NEW a \in [1..n -> Int], NEW b \in [1..n -> Int],
           NEW c \in [1..n -> Int], Less(a, b), Less(b, c)
    PROVE  Less(a, c)
<1>1. PICK i \in 1..n : a[i] < b[i] /\ \A j \in 1..i - 1 : a[j] = b[j]
    BY DEF Less
<1>2. PICK k \in 1..n : b[k] < c[k] /\ \A j \in 1..k - 1 : b[j] = c[j]
    BY DEF Less
<1> DEFINE m == IF i <= k THEN i ELSE k
<1>3. m \in 1..n /\ m <= i /\ m <= k /\ (m = i \/ m = k)
    OBVIOUS
<1> HIDE DEF m
<1>4. a[m] \in Int /\ b[m] \in Int /\ c[m] \in Int
    BY <1>3
<1>5. a[m] <= b[m] /\ (m = i => a[m] < b[m])
  <2>1. CASE m = i
    BY <1>1, <1>4, <2>1
  <2>2. CASE m # i
    <3>1. m \in 1..i - 1 /\ a[m] = b[m]
      BY <1>1, <1>3, <2>2
    <3> QED BY <1>4, <2>2, <3>1
  <2> QED BY <2>1, <2>2
<1>6. b[m] <= c[m] /\ (m = k => b[m] < c[m])
  <2>1. CASE m = k
    BY <1>2, <1>4, <2>1
  <2>2. CASE m # k
    <3>1. m \in 1..k - 1 /\ b[m] = c[m]
      BY <1>2, <1>3, <2>2
    <3> QED BY <1>4, <2>2, <3>1
  <2> QED BY <2>1, <2>2
<1>7. \A j \in 1..m - 1 : j \in 1..i - 1 /\ j \in 1..k - 1
    BY <1>3
<1>8. a[m] < c[m]
    BY <1>3, <1>4, <1>5, <1>6
<1>9. \A j \in 1..m - 1 : a[j] = c[j]
    BY <1>1, <1>2, <1>7
<1> QED BY <1>3, <1>8, <1>9 DEF Less

LEMMA LessIsTotal ==
    ASSUME NEW n \in Nat, NEW a \in [1..n -> Int], NEW b \in [1..n -> Int]
    PROVE  a = b \/ Less(a, b) \/ Less(b, a)
<1> SUFFICES ASSUME a # b PROVE Less(a, b) \/ Less(b, a)
    OBVIOUS
<1> DEFINE S == {i \in 1..n : a[i] # b[i]}
<1>1. S \subseteq Nat /\ S # {}
    OBVIOUS
<1>2. \E i \in S : \A j \in S : i <= j
  <2> HIDE DEF S
  <2> QED BY <1>1, LeastExists
<1>3. PICK i \in S : \A j \in S : i <= j
    BY <1>2
<1>4. \A j \in 1..i - 1 : j \in 1..n /\ j \notin S
    BY <1>3
<1>5. i \in 1..n /\ (a[i] < b[i] \/ b[i] < a[i]) /\ \A j \in 1..i - 1 : a[j] = b[j] /\ b[j] = a[j]
    BY <1>4
<1> QED BY <1>5 DEF Less

LEMMA KeysOfHits ==
    ASSUME NEW e \in Hits
    PROVE  /\ e.type \in Types /\ e.start \in Nat /\ e.end \in Nat /\ e.score \in Int
           /\ e.start < e.end /\ Length(e) \in Int /\ Overlaps(e, e)
           /\ Dominance(e) \in [1..5 -> Int]
           /\ <<e.start, -Length(e), -e.score, Name[e.type]>> \in [1..4 -> Int]
<1>1. e.type \in Types /\ e.start \in Nat /\ e.end \in Nat /\ e.score \in Int /\ e.start < e.end
    BY DEF Hits
<1>2. Length(e) \in Int /\ Overlaps(e, e)
    BY <1>1 DEF Length, Overlaps
<1>3. Severity[e.type] \in Int /\ Name[e.type] \in Int
    BY <1>1, TypeAssumption
<1>4. -Severity[e.type] \in Int /\ -e.score \in Int /\ -Length(e) \in Int
    BY <1>1, <1>2, <1>3
<1>5. Dominance(e) \in [1..5 -> Int]
    BY <1>1, <1>3, <1>4 DEF Dominance
<1>6. <<e.start, -Length(e), -e.score, Name[e.type]>> \in [1..4 -> Int]
    BY <1>1, <1>3, <1>4
<1> QED BY <1>1, <1>2, <1>5, <1>6

\* Two hits alike in the keys are one.
LEMMA SameHit ==
    ASSUME NEW e \in Hits, NEW f \in Hits, e.start = f.start, Length(e) = Length(f),
           e.score = f.score, Name[e.type] = Name[f.type]
    PROVE  e = f
<1>1. e.type = f.type
    BY KeysOfHits, TypeAssumption
<1>2. e.end = f.end
  <2>1. e.start \in Nat /\ e.end \in Nat /\ f.start \in Nat /\ f.end \in Nat
    BY KeysOfHits
  <2>2. e.end - e.start = f.end - f.start
    BY DEF Length
  <2> QED BY <2>1, <2>2
<1> QED BY <1>1, <1>2 DEF Hits

LEMMA BetterIsOrder ==
    /\ \A e \in Hits : ~Better(e, e)
    /\ \A e, f, g \in Hits : Better(e, f) /\ Better(f, g) => Better(e, g)
    /\ \A e, f \in Hits : e = f \/ Better(e, f) \/ Better(f, e)
<1>1. ASSUME NEW e \in Hits PROVE ~Better(e, e)
  <2>1. Dominance(e) \in [1..5 -> Int]
    BY KeysOfHits
  <2> QED BY <2>1, LessIsIrreflexive DEF Better
<1>2. ASSUME NEW e \in Hits, NEW f \in Hits, NEW g \in Hits, Better(e, f), Better(f, g)
      PROVE  Better(e, g)
  <2>1. /\ Dominance(e) \in [1..5 -> Int] /\ Dominance(f) \in [1..5 -> Int]
        /\ Dominance(g) \in [1..5 -> Int]
    BY KeysOfHits
  <2> QED BY <1>2, <2>1, LessIsTransitive DEF Better
<1>3. ASSUME NEW e \in Hits, NEW f \in Hits PROVE e = f \/ Better(e, f) \/ Better(f, e)
  <2>1. Dominance(e) \in [1..5 -> Int] /\ Dominance(f) \in [1..5 -> Int]
    BY KeysOfHits
  <2>2. Dominance(e) = Dominance(f) \/ Better(e, f) \/ Better(f, e)
    BY <2>1, LessIsTotal DEF Better
  <2>3. ASSUME Dominance(e) = Dominance(f) PROVE e = f
    <3>1. /\ Dominance(e)[2] = Dominance(f)[2] /\ Dominance(e)[3] = Dominance(f)[3]
          /\ Dominance(e)[4] = Dominance(f)[4] /\ Dominance(e)[5] = Dominance(f)[5]
      BY <2>3
    <3>2. /\ -e.score = -f.score /\ -Length(e) = -Length(f) /\ e.start = f.start
          /\ Name[e.type] = Name[f.type]
      BY <3>1 DEF Dominance
    <3>3. /\ e.score \in Int /\ Length(e) \in Int /\ f.score \in Int /\ Length(f) \in Int
      BY KeysOfHits
    <3>4. e.score = f.score /\ Length(e) = Length(f)
      BY <3>2, <3>3
    <3> QED BY <3>2, <3>4, SameHit
  <2> QED BY <2>2, <2>3
<1> QED BY <1>1, <1>2, <1>3

LEMMA EarlierIsOrder ==
    /\ \A e \in Hits : ~Earlier(e, e)
    /\ \A e, f, g \in Hits : Earlier(e, f) /\ Earlier(f, g) => Earlier(e, g)
    /\ \A e, f \in Hits : e = f \/ Earlier(e, f) \/ Earlier(f, e)
    /\ \A e, f \in Hits : Earlier(e, f) => e.start <= f.start
<1> DEFINE Key(e) == <<e.start, -Length(e), -e.score, Name[e.type]>>
<1>0. \A e \in Hits : Key(e) \in [1..4 -> Int]
    BY KeysOfHits
<1>1. \A e, f : Earlier(e, f) <=> Less(Key(e), Key(f))
    BY DEF Earlier
<1>2. ASSUME NEW e \in Hits, NEW f \in Hits, Key(e) = Key(f) PROVE e = f
  <2>1. /\ -e.score = -f.score /\ -Length(e) = -Length(f) /\ e.start = f.start
        /\ Name[e.type] = Name[f.type]
    BY <1>2
  <2>2. /\ e.score \in Int /\ Length(e) \in Int /\ f.score \in Int /\ Length(f) \in Int
    BY KeysOfHits
  <2>3. e.score = f.score /\ Length(e) = Length(f)
    BY <2>1, <2>2
  <2> QED BY <2>1, <2>3, SameHit
<1>3. ASSUME NEW e \in Hits, NEW f \in Hits, Earlier(e, f) PROVE e.start <= f.start
  <2>1. Key(e)[1] = e.start /\ Key(f)[1] = f.start /\ Key(e) \in [1..4 -> Int]
    BY <1>0
  <2>2. e.start \in Nat /\ f.start \in Nat /\ Less(Key(e), Key(f))
    BY <1>1, <1>3, KeysOfHits
  <2> HIDE DEF Key
  <2>3. PICK i \in 1..4 : Key(e)[i] < Key(f)[i] /\ \A j \in 1..i - 1 : Key(e)[j] = Key(f)[j]
    BY <2>1, <2>2 DEF Less
  <2>4. CASE i = 1
    BY <2>1, <2>2, <2>3, <2>4
  <2>5. CASE i # 1
    BY <2>1, <2>2, <2>3, <2>5
  <2> QED BY <2>4, <2>5
<1> HIDE DEF Key
<1>4. \A e \in Hits : ~Earlier(e, e)
    BY <1>0, <1>1, LessIsIrreflexive
<1>5. \A e, f, g \in Hits : Earlier(e, f) /\ Earlier(f, g) => Earlier(e, g)
    BY <1>0, <1>1, LessIsTransitive
<1>6. \A e, f \in Hits : e = f \/ Earlier(e, f) \/ Earlier(f, e)
    BY <1>0, <1>1, <1>2, LessIsTotal
<1> QED BY <1>3, <1>4, <1>5, <1>6

-----------------------------------------------------------------------------
(***************************************************************************)
(* What the two loops keep of a finite set of hits.                        *)
(***************************************************************************)

Apart(spans) == \A e, f \in spans : Overlaps(e, f) => e = f

LEMMA ResolveOverlapsKeeps ==
    ASSUME NEW spans, spans \subseteq Hits, IsFiniteSet(spans)
    PROVE  /\ ResolveOverlaps(spans) \subseteq spans
           /\ Apart(ResolveOverlaps(spans))
           /\ \A e \in spans : \/ e \in ResolveOverlaps(spans)
                               \/ \E k \in ResolveOverlaps(spans) : Better(k, e) /\ Overlaps(k, e)
<1> DEFINE order == {p \in spans \X spans : Better(p[1], p[2])}
           K == ResolveOverlaps(spans)
<1>1. \A e, f \in spans : <<e, f>> \in order <=> Better(e, f)
    OBVIOUS
<1>2. IsOrder(order, spans)
  <2> HIDE DEF order
  <2>1. \A e \in spans : e \in Hits
    OBVIOUS
  <2> QED BY <1>1, <2>1, BetterIsOrder DEF IsOrder
<1>3. /\ \A e, f \in spans : <<e, f>> \in Dominated(spans) <=> Better(e, f) /\ Overlaps(e, f)
      /\ Dominated(spans) \subseteq order
    BY DEF Dominated
<1>4. K \subseteq spans /\ Greedy(K, spans, Dominated(spans))
  <2> HIDE DEF order
  <2> QED BY <1>2, <1>3, KeptIsGreedy DEF ResolveOverlaps
<1> HIDE DEF K, order
<1>5. \A e \in spans : e \in K <=> \A k \in K : ~(Better(k, e) /\ Overlaps(k, e))
    BY <1>3, <1>4 DEF Greedy
<1>6. ASSUME NEW e \in K, NEW f \in K, Overlaps(e, f) PROVE e = f
  <2>1. e \in Hits /\ f \in Hits /\ e \in spans /\ f \in spans
    BY <1>4
  <2>2. Overlaps(f, e)
    BY <1>6 DEF Overlaps
  <2>3. ~Better(e, f) /\ ~Better(f, e)
    BY <1>5, <1>6, <2>1, <2>2
  <2> QED BY <2>1, <2>3, BetterIsOrder
<1> QED BY <1>4, <1>5, <1>6 DEF Apart, K

\* The simpler rule keeps every confident span, if none of them share a character.
LEMMA SelectedKeeps ==
    ASSUME NEW spans, spans \subseteq Hits, IsFiniteSet(spans)
    PROVE  /\ Selected(spans) \subseteq Confident(spans)
           /\ Apart(Selected(spans))
           /\ Apart(spans) => Confident(spans) \subseteq Selected(spans)
<1> DEFINE C == Confident(spans)
           order == {p \in C \X C : Earlier(p[1], p[2])}
           K == Selected(spans)
<1>1. C \subseteq spans /\ C \subseteq Hits /\ IsFiniteSet(C)
  <2>1. C \subseteq spans
    BY DEF Confident
  <2> HIDE DEF C
  <2> QED BY <2>1, FS_Subset
<1>2. K = Kept(C, Passed(C))
    BY DEF Selected
<1> HIDE DEF C
<1>3. \A e, f \in C : <<e, f>> \in order <=> Earlier(e, f)
    OBVIOUS
<1>4. IsOrder(order, C)
  <2> HIDE DEF order
  <2>1. \A e \in C : e \in Hits
    BY <1>1
  <2> QED BY <1>3, <2>1, EarlierIsOrder DEF IsOrder
<1>5. /\ \A e, f \in C : <<e, f>> \in Passed(C) <=> Earlier(e, f) /\ f.start < e.end
      /\ Passed(C) \subseteq order
    BY DEF Passed
<1>6. K \subseteq C /\ Greedy(K, C, Passed(C))
  <2> HIDE DEF order, K
  <2> QED BY <1>1, <1>2, <1>4, <1>5, KeptIsGreedy
<1> HIDE DEF K, order
<1>7. \A e \in C : e \in K <=> \A k \in K : ~(Earlier(k, e) /\ e.start < k.end)
    BY <1>5, <1>6 DEF Greedy
<1>8. ASSUME NEW e \in K, NEW f \in K, Overlaps(e, f) PROVE e = f
  <2>1. e \in Hits /\ f \in Hits /\ e \in C /\ f \in C
    BY <1>1, <1>6
  <2>2. e.start < f.end /\ f.start < e.end
    BY <1>8 DEF Overlaps
  <2>3. ~Earlier(e, f) /\ ~Earlier(f, e)
    BY <1>7, <2>1, <2>2
  <2> QED BY <2>1, <2>3, EarlierIsOrder
<1>9. ASSUME Apart(spans), NEW e \in C PROVE e \in K
  <2> SUFFICES ASSUME NEW k \in K, Earlier(k, e), e.start < k.end PROVE FALSE
    BY <1>7
  <2>1. e \in Hits /\ k \in Hits /\ k \in C /\ e \in spans /\ k \in spans
    BY <1>1, <1>6
  <2>2. k.start <= e.start
    BY <2>1, EarlierIsOrder
  <2>3. k.start \in Nat /\ e.start \in Nat /\ e.end \in Nat /\ e.start < e.end
    BY <2>1, KeysOfHits
  <2>4. Overlaps(k, e)
    BY <2>2, <2>3 DEF Overlaps
  <2>5. k = e
    BY <1>9, <2>1, <2>4 DEF Apart
  <2> QED BY <2>1, <2>5, EarlierIsOrder
<1> QED BY <1>6, <1>8, <1>9 DEF Apart, C, K

\* Moving spans along the text changes nothing between them.
LEMMA PromotedKeeps ==
    ASSUME NEW spans, spans \subseteq Hits, IsFiniteSet(spans), Apart(spans), NEW at \in Nat
    PROVE  /\ Promoted(spans, at) \subseteq Hits /\ IsFiniteSet(Promoted(spans, at))
           /\ Apart(Promoted(spans, at))
<1> DEFINE Move(e) == [e EXCEPT !.start = @ + at, !.end = @ + at]
           move == [e \in spans |-> Move(e)]
<1>1. Promoted(spans, at) = {Move(e) : e \in spans}
    BY DEF Promoted
<1>2. ASSUME NEW e \in spans
      PROVE  Move(e) \in Hits /\ Move(e).start = e.start + at /\ Move(e).end = e.end + at
  <2>1. e \in [type : Types, start : Nat, end : Nat, score : Int] /\ e.start < e.end
    BY DEF Hits
  <2>2. e.start \in Nat /\ e.end \in Nat /\ e.start + at \in Nat /\ e.end + at \in Nat
    BY <2>1
  <2>3. /\ Move(e) \in [type : Types, start : Nat, end : Nat, score : Int]
        /\ Move(e).start = e.start + at /\ Move(e).end = e.end + at
    BY <2>1, <2>2
  <2>4. e.start + at < e.end + at
    BY <2>1, <2>2
  <2> HIDE DEF Move
  <2> QED BY <2>3, <2>4 DEF Hits
<1>3. ASSUME NEW e \in spans, NEW f \in spans, Overlaps(Move(e), Move(f)) PROVE Move(e) = Move(f)
  <2>1. /\ e.start \in Nat /\ e.end \in Nat /\ f.start \in Nat /\ f.end \in Nat
    BY KeysOfHits
  <2>2. e.start + at < f.end + at /\ f.start + at < e.end + at
    BY <1>2, <1>3 DEF Overlaps
  <2>3. Overlaps(e, f)
    BY <2>1, <2>2 DEF Overlaps
  <2> QED BY <2>3 DEF Apart
<1>4. Promoted(spans, at) \subseteq Hits /\ Apart(Promoted(spans, at))
  <2> HIDE DEF Move
  <2> QED BY <1>1, <1>2, <1>3 DEF Apart
<1>5. IsFiniteSet(Promoted(spans, at))
  <2>1. Promoted(spans, at) = {move[e] : e \in spans}
    BY <1>1
  <2>2. move \in Surjection(spans, {move[e] : e \in spans})
    <3> HIDE DEF Move
    <3> QED BY DEF Surjection
  <2> HIDE DEF move
  <2> QED BY <2>1, <2>2, FS_Surjection
<1> QED BY <1>4, <1>5

-----------------------------------------------------------------------------
(***************************************************************************)
(* Nothing detected with confidence is dropped for less, whatever the      *)
(* types, their severity and thresholds, the segments and the hits.  The   *)
(* invariant says of each step what the spans it made are: hits, finitely  *)
(* many, apart from each other, and what each of those before them that is *)
(* confident lost to.                                                      *)
(***************************************************************************)

FoundInv ==
    /\ found \in Seq(SUBSET Hits) /\ DOMAIN found = DOMAIN input.hits
    /\ \A s \in DOMAIN found : IsFiniteSet(found[s]) /\ Apart(found[s])

\* Every confident detection has a rival to point at.
Answers(spans) ==
    \A e \in Confident(Detections) : \E a \in spans : Overlaps(a, e) /\ ~Better(e, a)

LabelledInv ==
    /\ labelled \subseteq Hits /\ IsFiniteSet(labelled) /\ Apart(labelled)
    /\ Answers(Confident(labelled))

SelectionInv ==
    /\ input \in Inputs /\ step \in {"hits", "refused", "found", "labelled", "spliced"}
    /\ step \in {"found", "labelled", "spliced"} => FoundInv
    /\ step \in {"labelled", "spliced"} => LabelledInv
    /\ step = "spliced" => acted = Selected(labelled)

LEMMA DetectionsAreHits ==
    ASSUME input \in Inputs, FoundInv
    PROVE  Detections \subseteq Hits /\ IsFiniteSet(Detections)
<1> DEFINE n == Len(input.hits)
           each == [s \in 1..n |-> found[s]]
<1>1. n \in Nat /\ DOMAIN found = 1..n /\ \A s \in 1..n : found[s] \in SUBSET Hits
  <2>1. input.hits \in Seq(SUBSET Hits)
    BY InputAssumption
  <2>2. n \in Nat /\ DOMAIN input.hits = 1..n
    BY <2>1
  <2>3. DOMAIN found = 1..n /\ found \in Seq(SUBSET Hits)
    BY <2>2 DEF FoundInv
  <2> QED BY <2>2, <2>3
<1>2. Detections \subseteq Hits
    BY <1>1 DEF Detections
<1> HIDE DEF n
<1>3. each \in Surjection(1..n, {found[s] : s \in 1..n}) /\ IsFiniteSet(1..n)
  <2>1. IsFiniteSet(1..n)
    BY <1>1, FS_Interval
  <2> QED BY <2>1 DEF Surjection
<1>4. IsFiniteSet({found[s] : s \in 1..n})
  <2> HIDE DEF each
  <2> QED BY <1>3, FS_Surjection
<1>5. \A S \in {found[s] : s \in 1..n} : IsFiniteSet(S)
    BY <1>1 DEF FoundInv
<1>6. Detections = UNION {found[s] : s \in 1..n}
    BY <1>1 DEF Detections
<1> QED BY <1>2, <1>4, <1>5, <1>6, FS_UNION

LEMMA DetectKeeps ==
    ASSUME SelectionInv, Detect
    PROVE  SelectionInv'
<1> DEFINE resolved == [s \in DOMAIN input.hits |-> ResolveOverlaps(Reportable(input.hits[s]))]
<1>1. input \in Inputs /\ input' = input /\ step' \in {"refused", "found"}
    BY DEF SelectionInv, Detect
<1>2. CASE step' = "refused"
    BY <1>1, <1>2 DEF SelectionInv
<1>3. CASE step' = "found"
  <2>1. found' = [s \in DOMAIN resolved |-> Promoted(resolved[s], input.segments[s])]
    BY <1>3 DEF Detect
  <2>2. /\ input.hits \in Seq(SUBSET Hits) /\ input.segments \in Seq(Nat)
        /\ DOMAIN input.hits = DOMAIN input.segments
        /\ \A s \in DOMAIN input.hits : IsFiniteSet(input.hits[s])
    BY <1>1, InputAssumption
  <2>3. DOMAIN resolved = DOMAIN input.hits /\ DOMAIN found' = DOMAIN input.hits
    BY <2>1
  <2>4. ASSUME NEW s \in DOMAIN input.hits
        PROVE  found'[s] \in SUBSET Hits /\ IsFiniteSet(found'[s]) /\ Apart(found'[s])
    <3> DEFINE reported == Reportable(input.hits[s])
    <3>1. reported \subseteq Hits /\ IsFiniteSet(reported)
      <4>1. reported \subseteq input.hits[s] /\ input.hits[s] \in SUBSET Hits
        BY <2>2 DEF Reportable
      <4> HIDE DEF reported
      <4> QED BY <2>2, <4>1, FS_Subset
    <3> HIDE DEF reported
    <3>2. /\ ResolveOverlaps(reported) \subseteq reported /\ Apart(ResolveOverlaps(reported))
      BY <3>1, ResolveOverlapsKeeps
    <3>3. ResolveOverlaps(reported) \subseteq Hits /\ IsFiniteSet(ResolveOverlaps(reported))
      BY <3>1, <3>2, FS_Subset
    <3>4. input.segments[s] \in Nat
      BY <2>2
    <3>5. found'[s] = Promoted(ResolveOverlaps(reported), input.segments[s])
      BY <2>1, <2>3 DEF reported
    <3> QED BY <3>2, <3>3, <3>4, <3>5, PromotedKeeps
  <2>5. found' \in Seq(SUBSET Hits)
    <3>1. DOMAIN input.hits = 1..Len(input.hits) /\ Len(input.hits) \in Nat
      BY <2>2
    <3>2. found' = [s \in 1..Len(input.hits) |-> found'[s]]
      <4>1. found' = [s \in DOMAIN input.hits |-> found'[s]]
        BY <2>1, <2>3
      <4> QED BY <3>1, <4>1
    <3>3. \A s \in 1..Len(input.hits) : found'[s] \in SUBSET Hits
      BY <2>4, <3>1
    <3> QED BY <3>1, <3>2, <3>3
  <2>6. FoundInv'
    BY <1>1, <2>3, <2>4, <2>5 DEF FoundInv, Apart, Overlaps
  <2> QED BY <1>1, <1>3, <2>6 DEF SelectionInv
<1> QED BY <1>1, <1>2, <1>3

\* Of the copies of a detection one has the highest score.
LEMMA CoalescedHolds ==
    ASSUME NEW spans, spans \subseteq Hits, IsFiniteSet(spans), NEW e \in spans
    PROVE  \E f \in Coalesced(spans) : SamePlace(e, f) /\ e.score <= f.score
<1> DEFINE copies == {f \in spans : SamePlace(e, f)}
           order == {p \in copies \X copies : p[1].score < p[2].score}
<1>1. \A f \in copies : f \in spans /\ f.score \in Int
    BY KeysOfHits
<1>2. copies # {} /\ IsFiniteSet(copies)
  <2>1. e \in copies /\ copies \subseteq spans
    BY DEF SamePlace
  <2> HIDE DEF copies
  <2> QED BY <2>1, FS_Subset
<1>3. \A f \in spans : f \in copies <=> SamePlace(e, f)
    OBVIOUS
<1> HIDE DEF copies
<1>4. \A f, g \in copies : <<f, g>> \in order <=> f.score < g.score
    OBVIOUS
<1>5. IsOrder(order, copies)
  <2> HIDE DEF order
  <2> QED BY <1>1, <1>4 DEF IsOrder
<1>6. \E w \in copies : \A f \in copies : <<w, f>> \notin order
  <2> HIDE DEF order
  <2> QED BY <1>2, <1>5, LastSpan
<1>7. PICK w \in copies : \A f \in copies : f.score <= w.score
  <2> HIDE DEF order
  <2>1. PICK w \in copies : \A f \in copies : ~(w.score < f.score)
    BY <1>4, <1>6
  <2> QED BY <1>1, <2>1
<1>8. ASSUME NEW f \in spans, SamePlace(w, f) PROVE f.score <= w.score
  <2>1. SamePlace(e, w)
    BY <1>1, <1>3
  <2>2. SamePlace(e, f)
    BY <1>8, <2>1 DEF SamePlace
  <2> QED BY <1>3, <1>7, <2>2
<1>9. w \in Coalesced(spans)
    BY <1>1, <1>8 DEF Coalesced
<1>10. e \in copies /\ SamePlace(e, w)
    BY <1>1, <1>3 DEF SamePlace
<1> QED BY <1>7, <1>9, <1>10

\* A copy with a lower score is not better.
LEMMA CopyIsNotBetter ==
    ASSUME NEW e \in Hits, NEW f \in Hits, SamePlace(e, f), e.score <= f.score
    PROVE  ~Better(e, f)
<1>1. /\ Dominance(e) \in [1..5 -> Int] /\ Dominance(f) \in [1..5 -> Int]
      /\ e.score \in Int /\ f.score \in Int
    BY KeysOfHits
<1>2. \A i \in {1, 3, 4, 5} : Dominance(e)[i] = Dominance(f)[i]
    BY DEF SamePlace, Dominance, Length
<1>3. Dominance(f)[2] <= Dominance(e)[2]
  <2>1. Dominance(e)[2] = -e.score /\ Dominance(f)[2] = -f.score
    BY DEF Dominance
  <2> QED BY <1>1, <2>1
<1>4. \A i \in 1..5 : ~(Dominance(e)[i] < Dominance(f)[i])
  <2>1. \A i \in 1..5 : Dominance(e)[i] \in Int /\ Dominance(f)[i] \in Int /\ (i = 2 \/ i \in {1, 3, 4, 5})
    BY <1>1
  <2> QED BY <1>2, <1>3, <2>1
<1> QED BY <1>1, <1>4 DEF Better, Less

LEMMA MergedAnswers ==
    ASSUME input \in Inputs, FoundInv
    PROVE  /\ Merged \subseteq Hits /\ IsFiniteSet(Merged) /\ Apart(Merged)
           /\ Answers(Confident(Merged))
<1> DEFINE D == Detections
           C == Confident(Coalesced(D))
<1>1. D \subseteq Hits /\ IsFiniteSet(D)
    BY DetectionsAreHits
<1>2. Coalesced(D) \subseteq D /\ C \subseteq Coalesced(D)
    BY DEF Coalesced, Confident
<1>3. \A e : e \in C <=> e \in Coalesced(D) /\ e.score >= MinScore[e.type]
    BY DEF Confident
<1>4. Merged = ResolveOverlaps(C)
    BY DEF Merged
<1>5. \A e \in Confident(D) : e \in D /\ e.score >= MinScore[e.type]
    BY DEF Confident
<1>6. Answers(Confident(Merged)) <=>
        \A e \in Confident(D) : \E a \in Confident(Merged) : Overlaps(a, e) /\ ~Better(e, a)
    BY DEF Answers
<1> HIDE DEF C, D
<1>7. C \subseteq Hits /\ IsFiniteSet(C)
    BY <1>1, <1>2, FS_Subset
<1>8. /\ Merged \subseteq C /\ Apart(Merged)
      /\ \A e \in C : e \in Merged \/ \E k \in Merged : Better(k, e) /\ Overlaps(k, e)
    BY <1>4, <1>7, ResolveOverlapsKeeps
<1>9. Merged \subseteq Hits /\ IsFiniteSet(Merged)
    BY <1>7, <1>8, FS_Subset
<1>10. Merged \subseteq Confident(Merged)
    BY <1>3, <1>8 DEF Confident
<1>11. ASSUME NEW e \in Confident(D)
       PROVE  \E a \in Confident(Merged) : Overlaps(a, e) /\ ~Better(e, a)
  <2>1. PICK f \in Coalesced(D) : SamePlace(e, f) /\ e.score <= f.score
    BY <1>1, <1>5, CoalescedHolds
  <2>2. e \in Hits /\ f \in Hits
    BY <1>1, <1>2, <1>5
  <2>3. f \in C
    <3>1. /\ e.score \in Int /\ f.score \in Int /\ MinScore[e.type] \in Int
          /\ f.type = e.type /\ e.score >= MinScore[e.type]
      BY <1>5, <2>1, <2>2, KeysOfHits, TypeAssumption DEF SamePlace
    <3>2. f.score >= MinScore[f.type]
      BY <2>1, <3>1
    <3> QED BY <1>3, <3>2
  <2>4. ~Better(e, f)
    BY <2>1, <2>2, CopyIsNotBetter
  <2>5. CASE f \in Merged
    <3>1. Overlaps(f, e)
      BY <2>1, <2>2, KeysOfHits DEF SamePlace, Overlaps
    <3> QED BY <1>10, <2>4, <2>5, <3>1
  <2>6. CASE f \notin Merged
    <3>1. PICK k \in Merged : Better(k, f) /\ Overlaps(k, f)
      BY <1>8, <2>3, <2>6
    <3>2. Overlaps(k, e)
      BY <2>1, <3>1 DEF SamePlace, Overlaps
    <3>3. ~Better(e, k)
      BY <1>9, <2>2, <2>4, <3>1, BetterIsOrder
    <3> QED BY <1>10, <3>2, <3>3
  <2> QED BY <2>5, <2>6
<1> QED BY <1>6, <1>8, <1>9, <1>11

\* A prompt is one segment: its detections are apart, and each answers for itself.
LEMMA PromptAnswers ==
    ASSUME input \in Inputs, FoundInv, input.path = "prompt"
    PROVE  Apart(Detections) /\ Answers(Confident(Detections))
<1>1. DOMAIN found = {1}
  <2>1. Len(input.segments) = 1 /\ input.segments \in Seq(Nat)
        /\ DOMAIN input.hits = DOMAIN input.segments
    BY InputAssumption
  <2> QED BY <2>1 DEF FoundInv
<1>2. Detections = found[1]
    BY <1>1 DEF Detections
<1>3. ASSUME NEW e \in Confident(Detections) PROVE Overlaps(e, e) /\ ~Better(e, e)
  <2>1. e \in Hits
    BY <1>3, DetectionsAreHits DEF Confident
  <2> QED BY <2>1, KeysOfHits, BetterIsOrder
<1>4. Apart(Detections)
    BY <1>1, <1>2 DEF FoundInv
<1>5. Answers(Confident(Detections))
    BY <1>3 DEF Answers
<1> QED BY <1>4, <1>5

LEMMA MergeKeeps ==
    ASSUME SelectionInv, Merge
    PROVE  SelectionInv'
<1>1. input \in Inputs /\ FoundInv /\ UNCHANGED <<input, found>> /\ step' = "labelled"
    BY DEF SelectionInv, Merge
<1>2. labelled' \subseteq Hits /\ IsFiniteSet(labelled') /\ Apart(labelled')
      /\ Answers(Confident(labelled'))
  <2>1. CASE input.path = "document"
    <3>1. labelled' = Merged
      BY <2>1 DEF Merge
    <3> QED BY <1>1, <3>1, MergedAnswers
  <2>2. CASE input.path # "document"
    <3>1. labelled' = Detections /\ input.path = "prompt"
      BY <1>1, <2>2, InputAssumption DEF Merge
    <3> QED BY <1>1, <3>1, DetectionsAreHits, PromptAnswers
  <2> QED BY <2>1, <2>2
<1>3. FoundInv'
    BY <1>1 DEF FoundInv
<1>4. LabelledInv'
  <2>1. Detections' = Detections
    BY <1>1 DEF Detections
  <2>2. Answers(Confident(labelled))'
    BY <1>2, <2>1 DEF Answers, Confident, Overlaps, Better
  <2> QED BY <1>2, <2>2 DEF LabelledInv, Apart, Overlaps
<1> QED BY <1>1, <1>3, <1>4 DEF SelectionInv

LEMMA SelectionHolds == SelectionSpec => []SelectionInv
<1>1. SelectionInit => SelectionInv
    BY DEF SelectionInit, SelectionInv
<1>2. SelectionInv /\ [SelectionNext]_selectionVars => SelectionInv'
  <2> SUFFICES ASSUME SelectionInv, [SelectionNext]_selectionVars PROVE SelectionInv'
    OBVIOUS
  <2>1. CASE Detect
    BY <2>1, DetectKeeps
  <2>2. CASE Merge
    BY <2>2, MergeKeeps
  <2>3. CASE Splice
    <3>1. /\ UNCHANGED <<input, found, labelled>> /\ step = "labelled" /\ step' = "spliced"
          /\ acted' = Selected(labelled)
      BY <2>3 DEF Splice
    <3> QED BY <3>1 DEF SelectionInv, FoundInv, LabelledInv, Answers, Detections, Apart, Selected,
                        Confident, Passed
  <2>4. CASE UNCHANGED selectionVars
    BY <2>4 DEF selectionVars, SelectionInv, FoundInv, LabelledInv, Answers, Detections, Apart,
                Selected, Confident, Passed
  <2> QED BY <2>1, <2>2, <2>3, <2>4 DEF SelectionNext
<1> QED BY <1>1, <1>2, PTL DEF SelectionSpec

\* The splice acts on every confident span it is given, on no character twice, and drops
\* nothing that was detected with confidence but for what ranks as high and shares a
\* character with it, whatever the thresholds, the severity of the types and the hits
\* (overlap.py:71-96, spans.py:105-190, selection.py:50-77).
THEOREM ConfidentIsNotDropped == SelectionSpec => []NothingIsDroppedForLess
<1>1. SelectionInv => NothingIsDroppedForLess
  <2> SUFFICES ASSUME SelectionInv, step = "spliced"
               PROVE  /\ Confident(labelled) \subseteq acted
                      /\ \A e, f \in acted : Overlaps(e, f) => e = f
                      /\ \A e \in Confident(Detections) :
                           \E a \in acted : Overlaps(a, e) /\ ~Better(e, a)
    BY DEF NothingIsDroppedForLess
  <2>1. LabelledInv /\ acted = Selected(labelled)
    BY DEF SelectionInv
  <2>2. Apart(acted) /\ Confident(labelled) \subseteq acted
    BY <2>1, SelectedKeeps DEF LabelledInv
  <2>3. \A e \in Confident(Detections) : \E a \in acted : Overlaps(a, e) /\ ~Better(e, a)
    BY <2>1, <2>2 DEF LabelledInv, Answers
  <2> QED BY <2>2, <2>3 DEF Apart
<1> QED BY <1>1, SelectionHolds, PTL

\* What each step made of the one before.
Derived ==
    /\ step \in {"found", "labelled", "spliced"} =>
         found = [s \in DOMAIN input.hits |->
                    Promoted(ResolveOverlaps(Reportable(input.hits[s])), input.segments[s])]
    /\ step \in {"labelled", "spliced"} => labelled \subseteq Detections

LEMMA MergedAreDetections ==
    ASSUME input \in Inputs, FoundInv
    PROVE  Merged \subseteq Detections
<1>1. /\ Confident(Coalesced(Detections)) \subseteq Detections
      /\ Detections \subseteq Hits /\ IsFiniteSet(Detections)
    BY DetectionsAreHits DEF Confident, Coalesced
<1>2. /\ Confident(Coalesced(Detections)) \subseteq Hits
      /\ IsFiniteSet(Confident(Coalesced(Detections)))
    BY <1>1, FS_Subset
<1> QED BY <1>1, <1>2, ResolveOverlapsKeeps DEF Merged

LEMMA DerivedHolds == SelectionSpec => []Derived
<1>1. SelectionInit => Derived
    BY DEF SelectionInit, Derived
<1>2. SelectionInv /\ Derived /\ [SelectionNext]_selectionVars => Derived'
  <2> SUFFICES ASSUME SelectionInv, Derived, [SelectionNext]_selectionVars PROVE Derived'
    OBVIOUS
  <2>1. CASE Detect
    <3>1. /\ input' = input /\ step' \in {"refused", "found"}
          /\ step' = "found" =>
               found' = [s \in DOMAIN input.hits |->
                          Promoted(ResolveOverlaps(Reportable(input.hits[s])), input.segments[s])]
      BY <2>1 DEF Detect
    <3> QED BY <3>1 DEF Derived
  <2>2. CASE Merge
    <3>1. UNCHANGED <<input, found>> /\ step = "found" /\ step' = "labelled"
          /\ labelled' \in {Merged, Detections}
      BY <2>2 DEF Merge
    <3>2. labelled' \subseteq Detections
      BY <3>1, MergedAreDetections DEF SelectionInv
    <3>3. Detections' = Detections
      BY <3>1 DEF Detections
    <3> QED BY <3>1, <3>2, <3>3 DEF Derived
  <2>3. CASE Splice
    BY <2>3 DEF Splice, Derived, Detections
  <2>4. CASE UNCHANGED selectionVars
    BY <2>4 DEF selectionVars, Derived, Detections
  <2> QED BY <2>1, <2>2, <2>3, <2>4 DEF SelectionNext
<1> QED BY <1>1, <1>2, SelectionHolds, PTL DEF SelectionSpec

\* Where a text is one segment and the policy asks of no type for more than the detector
\* reports, whatever clears the thresholds shares a character with something acted on: it
\* takes a type whose policy threshold is the higher one, or a second segment, for a
\* confident hit to be dropped for one that is dropped in its turn (spans.py:32-36).
THEOREM AlikeThresholdsDropNothing ==
    ASSUME \A t \in Types : MinScore[t] <= Threshold[t]
    PROVE  SelectionSpec => [](Len(input.hits) = 1 => ConfidentIsActedOn)
<1>1. SelectionInv /\ Derived /\ NothingIsDroppedForLess =>
        (Len(input.hits) = 1 => ConfidentIsActedOn)
  <2> DEFINE reported == Reportable(input.hits[1])
             at == input.segments[1]
             resolved == ResolveOverlaps(reported)
  <2> SUFFICES ASSUME SelectionInv, Derived, NothingIsDroppedForLess, Len(input.hits) = 1,
                      step = "spliced", NEW s \in DOMAIN input.hits,
                      NEW h \in Promoted(Confident(Reportable(input.hits[s])), input.segments[s])
               PROVE  \E a \in acted : Overlaps(a, h)
    BY DEF ConfidentIsActedOn
  <2>1. /\ input \in Inputs /\ FoundInv /\ LabelledInv /\ acted = Selected(labelled)
        /\ labelled \subseteq Detections
    BY DEF SelectionInv, Derived
  <2>2. /\ input.hits \in Seq(SUBSET Hits) /\ input.segments \in Seq(Nat)
        /\ DOMAIN input.hits = DOMAIN input.segments
        /\ \A i \in DOMAIN input.hits : IsFiniteSet(input.hits[i])
    BY <2>1, InputAssumption
  <2>3. DOMAIN input.hits = {1} /\ s = 1
    BY <2>2
  <2>4. at \in Nat /\ reported \subseteq Hits /\ IsFiniteSet(reported)
    <3>1. reported \subseteq input.hits[1]
      BY DEF Reportable
    <3>2. 1 \in DOMAIN input.hits /\ 1 \in DOMAIN input.segments
      BY <2>2, <2>3
    <3>3. input.hits[1] \in SUBSET Hits /\ IsFiniteSet(input.hits[1])
      BY <2>2, <3>2
    <3>4. at \in Nat
      BY <2>2, <3>2
    <3> HIDE DEF reported, at
    <3> QED BY <3>1, <3>3, <3>4, FS_Subset
  <2>5. found[1] = Promoted(resolved, at) /\ DOMAIN found = {1}
    BY <2>3 DEF Derived
  <2>6. Detections = Promoted(resolved, at) /\ Apart(Detections)
    <3>1. Detections = found[1]
      BY <2>5 DEF Detections
    <3>2. Apart(found[1])
      BY <2>1, <2>5 DEF FoundInv
    <3> QED BY <2>5, <3>1, <3>2
  <2>7. \A e \in reported : e.score >= Threshold[e.type]
    BY DEF Reportable
  <2>8. PICK g \in reported : h = [g EXCEPT !.start = @ + at, !.end = @ + at]
    BY <2>3 DEF Promoted, Confident
  <2> HIDE DEF reported, at
  <2>9. /\ resolved \subseteq reported
        /\ \A e \in reported : e \in resolved \/ \E k \in resolved : Better(k, e) /\ Overlaps(k, e)
    BY <2>4, ResolveOverlapsKeeps
  <2> HIDE DEF resolved
  <2>10. PICK k \in resolved : Overlaps(k, g)
    BY <2>4, <2>9, KeysOfHits
  <2> DEFINE d == [k EXCEPT !.start = @ + at, !.end = @ + at]
  <2>11. d \in Detections
    BY <2>6 DEF Promoted
  <2>12. d.type = k.type /\ d.score = k.score /\ d.start = k.start + at /\ d.end = k.end + at
         /\ h.start = g.start + at /\ h.end = g.end + at
    <3>1. /\ k \in [type : Types, start : Nat, end : Nat, score : Int]
          /\ g \in [type : Types, start : Nat, end : Nat, score : Int]
      BY <2>4, <2>9 DEF Hits
    <3> QED BY <2>8, <3>1
  <2> HIDE DEF d
  <2>13. Overlaps(d, h)
    <3>1. /\ k.start \in Nat /\ k.end \in Nat /\ g.start \in Nat /\ g.end \in Nat /\ at \in Nat
      BY <2>4, <2>9, KeysOfHits
    <3> QED BY <2>10, <2>12, <3>1 DEF Overlaps
  <2>14. d \in Confident(Detections)
    <3>1. /\ k \in reported /\ k \in Hits /\ k.type \in Types /\ k.score \in Int
      BY <2>4, <2>9, KeysOfHits
    <3>2. /\ k.score >= Threshold[k.type] /\ MinScore[k.type] <= Threshold[k.type]
          /\ MinScore[k.type] \in Int /\ Threshold[k.type] \in Int
      BY <2>7, <3>1, TypeAssumption
    <3>3. d.score >= MinScore[d.type]
      BY <2>12, <3>1, <3>2
    <3> QED BY <2>11, <3>3 DEF Confident
  <2>15. PICK a \in acted : Overlaps(a, d)
    BY <2>14 DEF NothingIsDroppedForLess
  <2>16. a \in Detections
    <3>1. Selected(labelled) \subseteq Confident(labelled)
      BY <2>1, SelectedKeeps DEF LabelledInv
    <3> QED BY <2>1, <3>1 DEF Confident
  <2>17. a = d
    BY <2>6, <2>11, <2>15, <2>16 DEF Apart
  <2> QED BY <2>13, <2>17
<1> QED BY <1>1, SelectionHolds, DerivedHolds, ConfidentIsNotDropped, PTL
=============================================================================

---------------------------- MODULE AdmissionProofs ----------------------------
(***************************************************************************)
(* Proofs about what stands around a handler: the tracker of Admission,    *)
(* for any requests, processes, keys, interval and cap; the middleware of  *)
(* HttpEdge, for any request; and the process of Lifespan, for any         *)
(* configuration and any number of users.                                  *)
(***************************************************************************)
EXTENDS Admission, HttpEdge, Lifespan, FiniteSetTheorems, TLAPS

-----------------------------------------------------------------------------
(***************************************************************************)
(* The tracker.  While a key is remembered, its claims are paid for by the *)
(* time of the last one; when it is forgotten, the eviction pays for one   *)
(* more.                                                                   *)
(***************************************************************************)
Claim == [key : Keys, at : Nat]
TrackerType ==
    /\ now \in Nat
    /\ seen \in [Processes -> Seq(Claim)]
    /\ tracked \in [Processes -> [Keys -> [claims : Nat, evicted : Nat]]]

Paid(p) ==
    /\ Len(seen[p]) <= MaxTracked
    /\ \A i, j \in DOMAIN seen[p] : seen[p][i].key = seen[p][j].key => i = j
    /\ \A i \in DOMAIN seen[p] :
         LET claim == seen[p][i]
             count == tracked[p][claim.key]
         IN  claim.at <= now /\ count.claims <= claim.at \div Interval + 1 + count.evicted
    /\ \A k \in Keys : Place(p, k) = {} =>
         tracked[p][k].claims <= now \div Interval + tracked[p][k].evicted

TrackerInv == TrackerType /\ \A p \in Processes : Paid(p)

\* An interval later there is one more interval to divide.
LEMMA IntervalsPass ==
    ASSUME NEW a \in Nat, NEW b \in Nat, a <= b
    PROVE  /\ a \div Interval \in Nat /\ b \div Interval \in Nat
           /\ a \div Interval <= b \div Interval
           /\ b - a >= Interval => a \div Interval + 1 <= b \div Interval
  <1>1. Interval \in Nat \ {0}
    BY ProcessAssumption
  <1>2. a \div Interval <= b \div Interval /\ a \div Interval \in Nat /\ b \div Interval \in Nat
    BY <1>1
  <1>3. ASSUME a + Interval <= b
        PROVE  a \div Interval + 1 <= b \div Interval
    BY <1>1, <1>3
  <1> QED
    BY <1>1, <1>2, <1>3

\* The key leaves its place, and every other claim keeps its turn.
LEMMA OthersAre ==
    ASSUME TrackerInv, NEW p \in Processes, NEW k \in Keys
    PROVE  /\ Others(p, k) \in Seq(Claim)
           /\ Len(Others(p, k)) \in Nat /\ Len(Others(p, k)) <= Len(seen[p])
           /\ Len(Others(p, k)) = Len(seen[p]) => Place(p, k) = {}
           /\ \A i, j \in DOMAIN Others(p, k) : Others(p, k)[i].key = Others(p, k)[j].key => i = j
           /\ \A i \in DOMAIN Others(p, k) :
                /\ Others(p, k)[i].key # k
                /\ \E j \in DOMAIN seen[p] : Others(p, k)[i] = seen[p][j]
           /\ \A j \in DOMAIN seen[p] : seen[p][j].key # k =>
                \E i \in DOMAIN Others(p, k) : Others(p, k)[i] = seen[p][j]
  <1> DEFINE s == seen[p]
             n == Len(s)
             place == CHOOSE i \in Place(p, k) : TRUE
  <1>1. /\ s \in Seq(Claim) /\ n \in Nat /\ DOMAIN s = 1..n
        /\ \A i \in 1..n : s[i] \in Claim
        /\ \A i, j \in 1..n : s[i].key = s[j].key => i = j
    BY DEF TrackerInv, TrackerType, Paid
  <1>2. CASE Place(p, k) = {}
    <2>1. Others(p, k) = s
      BY <1>2 DEF Others
    <2>2. \A i \in DOMAIN s : s[i].key # k
      BY <1>2 DEF Place
    <2> QED
      BY <1>1, <1>2, <2>1, <2>2
  <1>3. CASE Place(p, k) # {}
    <2>1. place \in 1..n /\ s[place].key = k
      BY <1>1, <1>3 DEF Place
    <2> DEFINE rest == [i \in 1..n - 1 |-> s[IF i < place THEN i ELSE i + 1]]
    <2>2. Others(p, k) = rest
      BY <1>3 DEF Others
    <2> HIDE DEF place, s, n
    <2>3. \A i \in 1..n - 1 : /\ (IF i < place THEN i ELSE i + 1) \in 1..n
                              /\ (IF i < place THEN i ELSE i + 1) # place
                              /\ rest[i] = s[IF i < place THEN i ELSE i + 1]
      BY <1>1, <2>1
    <2>4. /\ rest \in Seq(Claim) /\ Len(rest) = n - 1 /\ DOMAIN rest = 1..n - 1 /\ n - 1 \in Nat
      <3>1. n - 1 \in Nat
        BY <1>1, <2>1
      <3>2. rest \in [1..n - 1 -> Claim]
        BY <1>1, <2>3
      <3> QED
        BY <3>1, <3>2
    <2>5. \A i, j \in 1..n - 1 : rest[i].key = rest[j].key => i = j
      BY <1>1, <2>1, <2>3
    <2>6. \A i \in 1..n - 1 : rest[i].key # k /\ \E j \in 1..n : rest[i] = s[j]
      BY <1>1, <2>1, <2>3
    <2>7. ASSUME NEW j \in 1..n, s[j].key # k
          PROVE  \E i \in 1..n - 1 : rest[i] = s[j]
      <3>1. j # place
        BY <2>1, <2>7
      <3>2. CASE j < place
        <4>1. j \in 1..n - 1 /\ rest[j] = s[j]
          BY <1>1, <2>1, <2>3, <3>2
        <4> QED
          BY <4>1
      <3>3. CASE j > place
        <4>1. j - 1 \in 1..n - 1 /\ ~(j - 1 < place) /\ (j - 1) + 1 = j
          BY <1>1, <2>1, <3>3
        <4>2. rest[j - 1] = s[j]
          BY <2>3, <4>1
        <4> QED
          BY <4>1, <4>2
      <3> QED
        BY <1>1, <2>1, <3>1, <3>2, <3>3
    <2> HIDE DEF rest
    <2>8. /\ Len(rest) <= n /\ Len(rest) # n
      BY <1>1, <2>4
    <2> QED
      BY <1>1, <2>2, <2>4, <2>5, <2>6, <2>7, <2>8 DEF s, n
  <1> QED
    BY <1>2, <1>3

\* With the claim made, before anything is forgotten for it.
LEMMA ClaimedAre ==
    ASSUME TrackerInv, NEW p \in Processes, NEW k \in Keys, Due(p, k)
    PROVE  LET s == Claimed(p, k)
               paid(c) == tracked[p][c].claims + (IF c = k THEN 1 ELSE 0)
           IN  /\ s \in Seq(Claim) /\ Len(s) \in Nat /\ Len(s) > 0 /\ Len(s) <= MaxTracked + 1
               /\ \A i, j \in DOMAIN s : s[i].key = s[j].key => i = j
               /\ \A i \in DOMAIN s :
                    /\ s[i].at <= now
                    /\ paid(s[i].key) <= s[i].at \div Interval + 1 + tracked[p][s[i].key].evicted
               /\ \A c \in Keys : (\A i \in DOMAIN s : s[i].key # c) =>
                    paid(c) <= now \div Interval + tracked[p][c].evicted
  <1> DEFINE s == seen[p]
             others == Others(p, k)
             m == Len(others)
             claim == [key |-> k, at |-> now]
             longer == Claimed(p, k)
  <1>1. /\ s \in Seq(Claim) /\ DOMAIN s = 1..Len(s) /\ Len(s) \in Nat /\ now \in Nat
        /\ Len(s) <= MaxTracked /\ MaxTracked \in Nat
        /\ \A c \in Keys : tracked[p][c].claims \in Nat /\ tracked[p][c].evicted \in Nat
    BY ProcessAssumption DEF TrackerInv, TrackerType, Paid
  <1>2. /\ others \in Seq(Claim) /\ m \in Nat /\ m <= Len(s) /\ DOMAIN others = 1..m
        /\ \A i, j \in 1..m : others[i].key = others[j].key => i = j
        /\ \A i \in 1..m : /\ others[i].key # k
                           /\ \E j \in DOMAIN s : others[i] = s[j]
        /\ \A j \in DOMAIN s : s[j].key # k => \E i \in 1..m : others[i] = s[j]
    <2>1. /\ others \in Seq(Claim) /\ Len(others) \in Nat /\ Len(others) <= Len(seen[p])
          /\ \A i, j \in DOMAIN others : others[i].key = others[j].key => i = j
          /\ \A i \in DOMAIN others : /\ others[i].key # k
                                      /\ \E j \in DOMAIN seen[p] : others[i] = seen[p][j]
          /\ \A j \in DOMAIN seen[p] : seen[p][j].key # k =>
               \E i \in DOMAIN others : others[i] = seen[p][j]
      BY OthersAre
    <2> HIDE DEF others
    <2>2. DOMAIN others = 1..m
      BY <2>1
    <2> QED
      BY <2>1, <2>2
  <1>3. /\ longer = Append(others, claim) /\ claim \in Claim
    BY <1>1 DEF Claimed, Claim
  <1> HIDE DEF others, longer, claim
  <1>4. /\ longer \in Seq(Claim) /\ Len(longer) = m + 1 /\ DOMAIN longer = 1..m + 1
        /\ longer[m + 1] = claim /\ \A i \in 1..m : longer[i] = others[i]
    BY <1>2, <1>3
  <1>5. claim.key = k /\ claim.at = now
    BY DEF claim
  <1>6. \A i, j \in 1..m + 1 : longer[i].key = longer[j].key => i = j
    <2> SUFFICES ASSUME NEW i \in 1..m + 1, NEW j \in 1..m + 1, longer[i].key = longer[j].key
                 PROVE  i = j
      OBVIOUS
    <2>1. CASE i \in 1..m /\ j \in 1..m
      BY <1>2, <1>4, <2>1
    <2>2. CASE i = m + 1 /\ j = m + 1
      BY <2>2
    <2>3. \A l \in 1..m : longer[l].key # longer[m + 1].key
      BY <1>2, <1>4, <1>5
    <2> QED
      BY <1>2, <2>1, <2>2, <2>3
  <1>7. \A j \in DOMAIN s :
          /\ s[j].key \in Keys /\ s[j].at \in Nat /\ s[j].at <= now
          /\ tracked[p][s[j].key].claims <= s[j].at \div Interval + 1 + tracked[p][s[j].key].evicted
    <2> SUFFICES ASSUME NEW j \in DOMAIN s
                 PROVE  /\ s[j].key \in Keys /\ s[j].at \in Nat /\ s[j].at <= now
                        /\ tracked[p][s[j].key].claims
                             <= s[j].at \div Interval + 1 + tracked[p][s[j].key].evicted
      OBVIOUS
    <2>1. s[j] \in Claim
      BY <1>1
    <2>2. /\ s[j].at <= now
          /\ tracked[p][s[j].key].claims
               <= s[j].at \div Interval + 1 + tracked[p][s[j].key].evicted
      BY DEF TrackerInv, Paid
    <2> QED
      BY <2>1, <2>2 DEF Claim
  <1>8. tracked[p][k].claims <= now \div Interval + tracked[p][k].evicted
    <2>1. CASE Place(p, k) = {}
      BY <2>1 DEF TrackerInv, Paid
    <2>2. CASE Place(p, k) # {}
      <3>1. PICK j \in DOMAIN s : s[j].key = k
        BY <2>2 DEF Place
      <3>2. now - s[j].at >= Interval
        BY <3>1 DEF Due, Place
      <3>3. s[j].at \div Interval + 1 <= now \div Interval
            /\ s[j].at \div Interval \in Nat /\ now \div Interval \in Nat
        BY <1>1, <1>7, <3>2, IntervalsPass
      <3>4. tracked[p][k].claims <= s[j].at \div Interval + 1 + tracked[p][k].evicted
        BY <1>7, <3>1
      <3>5. tracked[p][k].claims \in Nat /\ tracked[p][k].evicted \in Nat
        BY <1>1
      <3> QED
        BY <3>3, <3>4, <3>5
    <2> QED
      BY <2>1, <2>2
  <1>9. now \div Interval \in Nat
    BY <1>1, IntervalsPass
  <1>10. ASSUME NEW i \in 1..m + 1
         PROVE  /\ longer[i].at <= now
                /\ tracked[p][longer[i].key].claims + (IF longer[i].key = k THEN 1 ELSE 0)
                     <= longer[i].at \div Interval + 1 + tracked[p][longer[i].key].evicted
    <2>1. CASE i = m + 1
      <3>1. longer[i].key = k /\ longer[i].at = now
        BY <1>4, <1>5, <2>1
      <3>2. tracked[p][k].claims + 1 <= now \div Interval + 1 + tracked[p][k].evicted
        BY <1>1, <1>8, <1>9
      <3> QED
        BY <1>1, <3>1, <3>2
    <2>2. CASE i \in 1..m
      <3>1. PICK j \in DOMAIN s : longer[i] = s[j]
        BY <1>2, <1>4, <2>2
      <3>2. longer[i].key # k
        BY <1>2, <1>4, <2>2
      <3>3. tracked[p][longer[i].key].claims \in Nat
        BY <1>1, <1>7, <3>1
      <3> QED
        BY <1>7, <3>1, <3>2, <3>3
    <2> QED
      BY <1>2, <2>1, <2>2
  <1>11. ASSUME NEW c \in Keys, \A i \in 1..m + 1 : longer[i].key # c
         PROVE  tracked[p][c].claims + (IF c = k THEN 1 ELSE 0)
                  <= now \div Interval + tracked[p][c].evicted
    <2>1. c # k
      BY <1>2, <1>4, <1>5, <1>11
    <2>2. \A j \in DOMAIN s : s[j].key # c
      BY <1>2, <1>4, <1>11, <2>1
    <2>3. Place(p, c) = {}
      BY <2>2 DEF Place
    <2>4. tracked[p][c].claims <= now \div Interval + tracked[p][c].evicted
      BY <2>3 DEF TrackerInv, Paid
    <2> QED
      BY <1>1, <2>1, <2>4
  <1>12. Len(longer) \in Nat /\ Len(longer) > 0 /\ Len(longer) <= MaxTracked + 1
    BY <1>1, <1>2, <1>4
  <1> QED
    BY <1>4, <1>6, <1>10, <1>11, <1>12 DEF longer

\* The oldest claim is forgotten if there is one too many; that is counted for its key.
LEMMA ClaimsArePaid ==
    ASSUME TrackerInv, NEW p \in Processes, NEW k \in Keys, Due(p, k), Claims(p, k), now' = now
    PROVE  TrackerInv'
  <1> DEFINE s == Claimed(p, k)
             paid(c) == tracked[p][c].claims + (IF c = k THEN 1 ELSE 0)
             over(c) == IF c \in Evicted(p, k) THEN 1 ELSE 0
             after == IF Evicted(p, k) = {} THEN s ELSE Tail(s)
  <1>1. /\ s \in Seq(Claim) /\ Len(s) \in Nat /\ Len(s) > 0 /\ Len(s) <= MaxTracked + 1
        /\ \A i, j \in DOMAIN s : s[i].key = s[j].key => i = j
        /\ \A i \in DOMAIN s :
             /\ s[i].at <= now
             /\ paid(s[i].key) <= s[i].at \div Interval + 1 + tracked[p][s[i].key].evicted
        /\ \A c \in Keys : (\A i \in DOMAIN s : s[i].key # c) =>
             paid(c) <= now \div Interval + tracked[p][c].evicted
    BY ClaimedAre
  <1>2. /\ now \in Nat /\ MaxTracked \in Nat \ {0} /\ now \div Interval \in Nat
        /\ seen \in [Processes -> Seq(Claim)]
        /\ tracked \in [Processes -> [Keys -> [claims : Nat, evicted : Nat]]]
        /\ \A c \in Keys : tracked[p][c].claims \in Nat /\ tracked[p][c].evicted \in Nat
    <2>1. TrackerType
      BY DEF TrackerInv
    <2>2. now \in Nat /\ now \div Interval \in Nat
      BY <2>1, IntervalsPass DEF TrackerType
    <2> QED
      BY <2>1, <2>2, ProcessAssumption DEF TrackerType
  <1>3. Evicted(p, k) = IF Len(s) > MaxTracked THEN {s[1].key} ELSE {}
    <2>1. Evicted(p, k) = IF Len(s) > MaxTracked THEN {Head(s).key} ELSE {}
      BY DEF Evicted
    <2> HIDE DEF s
    <2>2. Head(s) = s[1]
      BY <1>1
    <2> QED
      BY <2>1, <2>2
  <1>4. \A c \in Keys : paid(c) \in Nat /\ over(c) \in {0, 1}
    BY <1>2
  <1>5. seen' = [seen EXCEPT ![p] = after]
    BY DEF Claims
  <1>6. /\ tracked'[p] = [c \in Keys |-> [claims |-> paid(c),
                                          evicted |-> tracked[p][c].evicted + over(c)]]
        /\ tracked' = [tracked EXCEPT ![p] = tracked'[p]]
    BY <1>2 DEF Claims, Counted
  <1>7. DOMAIN s = 1..Len(s) /\ \A i \in 1..Len(s) : s[i] \in Claim
    BY <1>1
  <1> HIDE DEF s, paid, over
  <1>8. /\ after \in Seq(Claim) /\ Len(after) \in Nat /\ Len(after) <= MaxTracked
        /\ \A i \in 1..Len(after) :
             \E j \in 1..Len(s) : /\ after[i] = s[j] /\ j = i + (Len(s) - Len(after))
                                  /\ s[j].key \notin Evicted(p, k)
        /\ \A j \in 1..Len(s) : s[j].key \notin Evicted(p, k) =>
             \E i \in 1..Len(after) : after[i] = s[j]
    <2>1. CASE Len(s) > MaxTracked
      <3>1. Evicted(p, k) = {s[1].key} /\ after = Tail(s)
        BY <1>3, <2>1
      <3>2. /\ Tail(s) \in Seq(Claim) /\ Len(Tail(s)) = Len(s) - 1
            /\ \A i \in 1..Len(s) - 1 : Tail(s)[i] = s[i + 1]
        BY <1>1
      <3>3. \A i \in 1..Len(s) - 1 : i + 1 \in 1..Len(s) /\ s[i + 1].key # s[1].key
        BY <1>1, <1>7
      <3>4. ASSUME NEW j \in 1..Len(s), s[j].key # s[1].key
            PROVE  j - 1 \in 1..Len(s) - 1 /\ Tail(s)[j - 1] = s[j]
        <4>1. j # 1 /\ j - 1 \in 1..Len(s) - 1 /\ (j - 1) + 1 = j
          BY <1>1, <3>4
        <4> QED
          BY <3>2, <4>1
      <3>5. Len(s) - 1 \in Nat /\ Len(s) - 1 <= MaxTracked /\ Len(s) - (Len(s) - 1) = 1
        BY <1>1, <1>2
      <3>6. after \in Seq(Claim) /\ Len(after) = Len(s) - 1
        BY <3>1, <3>2
      <3>7. ASSUME NEW i \in 1..Len(after)
            PROVE  \E j \in 1..Len(s) : /\ after[i] = s[j] /\ j = i + (Len(s) - Len(after))
                                        /\ s[j].key \notin Evicted(p, k)
        <4>1. i \in 1..Len(s) - 1 /\ i + 1 = i + (Len(s) - Len(after))
          BY <1>1, <3>5, <3>6
        <4>2. i + 1 \in 1..Len(s) /\ after[i] = s[i + 1] /\ s[i + 1].key \notin Evicted(p, k)
          BY <3>1, <3>2, <3>3, <4>1
        <4> QED
          BY <4>1, <4>2
      <3>8. ASSUME NEW j \in 1..Len(s), s[j].key \notin Evicted(p, k)
            PROVE  \E i \in 1..Len(after) : after[i] = s[j]
        <4>1. s[j].key # s[1].key
          BY <3>1, <3>8
        <4> QED
          BY <3>1, <3>4, <3>6, <4>1
      <3> QED
        BY <3>5, <3>6, <3>7, <3>8
    <2>2. CASE ~(Len(s) > MaxTracked)
      <3>1. Evicted(p, k) = {} /\ after = s
        BY <1>3, <2>2
      <3>2. Len(s) <= MaxTracked /\ \A i \in 1..Len(s) : i = i + (Len(s) - Len(s))
        BY <1>1, <1>2, <2>2
      <3> QED
        BY <1>1, <3>1, <3>2
    <2> QED
      BY <2>1, <2>2
  <1> HIDE DEF after
  <1>9. seen'[p] = after /\ DOMAIN after = 1..Len(after)
        /\ \A q \in Processes \ {p} : seen'[q] = seen[q] /\ tracked'[q] = tracked[q]
    BY <1>2, <1>5, <1>6, <1>8
  <1>10. TrackerType'
    <2>1. seen' \in [Processes -> Seq(Claim)]
      BY <1>2, <1>5, <1>8
    <2>2. tracked'[p] \in [Keys -> [claims : Nat, evicted : Nat]]
      <3>1. \A c \in Keys : tracked[p][c].evicted + over(c) \in Nat
        BY <1>2, <1>4
      <3> QED
        BY <1>4, <1>6, <3>1
    <2>3. tracked' \in [Processes -> [Keys -> [claims : Nat, evicted : Nat]]]
      BY <1>2, <1>6, <2>2
    <2> QED
      BY <1>2, <2>1, <2>3 DEF TrackerType
  <1>11. Paid(p)'
    <2>1. \A i, j \in 1..Len(after) : after[i].key = after[j].key => i = j
      <3> SUFFICES ASSUME NEW i \in 1..Len(after), NEW j \in 1..Len(after),
                          after[i].key = after[j].key
                   PROVE  i = j
        OBVIOUS
      <3>1. PICK m \in 1..Len(s) : after[i] = s[m] /\ m = i + (Len(s) - Len(after))
        BY <1>8
      <3>2. PICK n \in 1..Len(s) : after[j] = s[n] /\ n = j + (Len(s) - Len(after))
        BY <1>8
      <3>3. m = n
        BY <1>1, <1>7, <3>1, <3>2
      <3> QED
        BY <1>1, <1>8, <3>1, <3>2, <3>3
    <2>2. ASSUME NEW i \in 1..Len(after)
          PROVE  /\ after[i].at <= now
                 /\ tracked'[p][after[i].key].claims
                      <= after[i].at \div Interval + 1 + tracked'[p][after[i].key].evicted
      <3>1. PICK j \in 1..Len(s) : after[i] = s[j] /\ s[j].key \notin Evicted(p, k)
        BY <1>8
      <3>2. /\ s[j].at <= now
            /\ paid(s[j].key) <= s[j].at \div Interval + 1 + tracked[p][s[j].key].evicted
        BY <1>1, <1>7
      <3>3. s[j].key \in Keys
        BY <1>7 DEF Claim
      <3>4. /\ tracked'[p][s[j].key].claims = paid(s[j].key)
            /\ tracked'[p][s[j].key].evicted = tracked[p][s[j].key].evicted
        BY <1>2, <1>6, <3>1, <3>3 DEF over
      <3> QED
        BY <3>1, <3>2, <3>4
    <2>3. ASSUME NEW c \in Keys, \A i \in 1..Len(after) : after[i].key # c
          PROVE  tracked'[p][c].claims <= now \div Interval + tracked'[p][c].evicted
      <3>1. /\ tracked'[p][c].claims = paid(c)
            /\ tracked'[p][c].evicted = tracked[p][c].evicted + over(c)
        BY <1>6
      <3>2. CASE c \notin Evicted(p, k)
        <4>1. \A i \in DOMAIN s : s[i].key # c
          BY <1>7, <1>8, <2>3, <3>2
        <4>2. paid(c) <= now \div Interval + tracked[p][c].evicted
          BY <1>1, <4>1
        <4>3. over(c) = 0 /\ tracked[p][c].evicted \in Nat
          BY <1>2, <3>2 DEF over
        <4> QED
          BY <3>1, <4>2, <4>3
      <3>3. CASE c \in Evicted(p, k)
        <4>1. c = s[1].key /\ 1 \in 1..Len(s) /\ over(c) = 1
          BY <1>1, <1>3, <3>3 DEF over
        <4>2. s[1].at \in Nat /\ s[1].at <= now
              /\ paid(c) <= s[1].at \div Interval + 1 + tracked[p][c].evicted
          BY <1>1, <1>7, <4>1 DEF Claim
        <4>3. s[1].at \div Interval \in Nat /\ s[1].at \div Interval <= now \div Interval
          BY <1>2, <4>2, IntervalsPass
        <4>4. paid(c) \in Nat /\ tracked[p][c].evicted \in Nat /\ now \div Interval \in Nat
          BY <1>2, <1>4
        <4>5. \A x, ev, then, today \in Nat :
                x <= then + 1 + ev /\ then <= today => x <= today + (ev + 1)
          OBVIOUS
        <4> HIDE DEF paid, over
        <4>6. paid(c) <= now \div Interval + (tracked[p][c].evicted + 1)
          BY <4>2, <4>3, <4>4, <4>5
        <4> QED
          BY <3>1, <4>1, <4>6
      <3> QED
        BY <3>2, <3>3
    <2>4. \A c \in Keys : Place(p, c)' = {} => \A i \in 1..Len(after) : after[i].key # c
      BY <1>9 DEF Place
    <2> QED
      BY <1>8, <1>9, <2>1, <2>2, <2>3, <2>4 DEF Paid
  <1>12. ASSUME NEW q \in Processes \ {p}
         PROVE  Paid(q)'
    <2>1. q # p /\ q \in Processes /\ Paid(q)
      BY <1>12 DEF TrackerInv
    <2>2. seen'[q] = seen[q] /\ tracked'[q] = tracked[q] /\ now' = now
      BY <1>9, <2>1
    <2> QED
      BY <2>1, <2>2 DEF Paid, Place
  <1> QED
    BY <1>10, <1>11, <1>12 DEF TrackerInv

\* WritesAreBounded: however its requests are spread over time, a key costs its process
\* one claim an interval, and one for each time the key was forgotten; and the process
\* remembers no more keys than its cap (last_used.py:8-13, 42-43, 60-61).
THEOREM ClaimsAreBounded == Spec => []WritesAreBounded
  <1>1. Init => TrackerInv
    <2> SUFFICES ASSUME Init PROVE TrackerInv
      OBVIOUS
    <2>1. TrackerType
      BY DEF Init, TrackerType
    <2>2. ASSUME NEW p \in Processes
          PROVE  Paid(p)
      <3>1. seen[p] = <<>> /\ now = 0 /\ \A k \in Keys : tracked[p][k] = [claims |-> 0, evicted |-> 0]
        BY DEF Init
      <3>2. now \div Interval \in Nat
        BY <3>1, IntervalsPass
      <3>3. Len(seen[p]) = 0 /\ DOMAIN seen[p] = {}
        BY <3>1
      <3> QED
        BY <3>1, <3>2, <3>3, ProcessAssumption DEF Paid
    <2> QED
      BY <2>1, <2>2 DEF TrackerInv
  <1>2. TrackerInv /\ [Next]_vars => TrackerInv'
    <2> SUFFICES ASSUME TrackerInv, [Next]_vars PROVE TrackerInv'
      OBVIOUS
    <2>1. CASE UNCHANGED <<now, seen, tracked>>
      BY <2>1 DEF TrackerInv, TrackerType, Paid, Place
    <2>2. ASSUME NEW r \in Requests, Enter(r)
          PROVE  TrackerInv'
      <3>1. CASE UNCHANGED <<seen, tracked>>
        BY <2>1, <2>2, <3>1 DEF Enter
      <3>2. CASE Due(ProcessOf[r], KeyOf[r]) /\ Claims(ProcessOf[r], KeyOf[r])
        <4>1. ProcessOf[r] \in Processes /\ KeyOf[r] \in Keys /\ now' = now
          BY <2>2, ProcessAssumption DEF Enter
        <4> QED
          BY <3>2, <4>1, ClaimsArePaid
      <3> QED
        BY <2>2, <3>1, <3>2 DEF Enter
    <2>3. CASE Tick
      <3>1. now \in Nat /\ now' = now + 1 /\ UNCHANGED <<seen, tracked>>
        BY <2>3 DEF Tick, TrackerInv, TrackerType
      <3>2. now' \in Nat /\ now <= now' /\ now \div Interval <= now' \div Interval
            /\ now \div Interval \in Nat /\ now' \div Interval \in Nat
        <4>1. now' \in Nat /\ now <= now'
          BY <3>1
        <4> QED
          BY <3>1, <4>1, IntervalsPass
      <3>3. TrackerType'
        BY <3>1, <3>2 DEF TrackerInv, TrackerType
      <3>4. ASSUME NEW p \in Processes
            PROVE  Paid(p)'
        <4>1. seen'[p] = seen[p] /\ tracked'[p] = tracked[p] /\ Paid(p)
          BY <3>1 DEF TrackerInv
        <4>2. /\ Len(seen'[p]) <= MaxTracked
              /\ \A i, j \in DOMAIN seen'[p] : seen'[p][i].key = seen'[p][j].key => i = j
          BY <4>1 DEF Paid
        <4>3. ASSUME NEW i \in DOMAIN seen[p]
              PROVE  /\ seen[p][i].at <= now'
                     /\ tracked[p][seen[p][i].key].claims
                          <= seen[p][i].at \div Interval + 1 + tracked[p][seen[p][i].key].evicted
          <5>1. seen[p][i] \in Claim
            BY DEF TrackerInv, TrackerType
          <5>2. seen[p][i].at \in Nat /\ seen[p][i].at <= now
            BY <4>1, <5>1 DEF Paid, Claim
          <5> QED
            BY <3>1, <3>2, <4>1, <5>2 DEF Paid
        <4>4. ASSUME NEW k \in Keys, Place(p, k)' = {}
              PROVE  tracked[p][k].claims <= now' \div Interval + tracked[p][k].evicted
          <5>1. Place(p, k) = {}
            BY <4>1, <4>4 DEF Place
          <5>2. tracked[p][k].claims <= now \div Interval + tracked[p][k].evicted
            BY <4>1, <5>1 DEF Paid
          <5>3. tracked[p][k].claims \in Nat /\ tracked[p][k].evicted \in Nat
            BY DEF TrackerInv, TrackerType
          <5> QED
            BY <3>2, <5>2, <5>3
        <4> QED
          BY <4>1, <4>2, <4>3, <4>4 DEF Paid
      <3> QED
        BY <3>3, <3>4 DEF TrackerInv
    <2> QED
      BY <2>1, <2>2, <2>3 DEF Next, Serves, Authenticate, NoConnection, TurnedAway, Touch,
         TouchFails, Handle, Forbidden, PoolTimeout, Finish, Close, Revoke, vars
  <1>3. TrackerInv => WritesAreBounded
    <2> SUFFICES ASSUME TrackerInv, NEW p \in Processes
                 PROVE  /\ Len(seen[p]) <= MaxTracked
                        /\ \A k \in Keys : tracked[p][k].claims
                                             <= now \div Interval + 1 + tracked[p][k].evicted
      BY DEF WritesAreBounded
    <2>1. Len(seen[p]) <= MaxTracked
      BY DEF TrackerInv, Paid
    <2>2. ASSUME NEW k \in Keys
          PROVE  tracked[p][k].claims <= now \div Interval + 1 + tracked[p][k].evicted
      <3>1. /\ tracked[p][k].claims \in Nat /\ tracked[p][k].evicted \in Nat
            /\ now \in Nat /\ now \div Interval \in Nat
        BY IntervalsPass DEF TrackerInv, TrackerType
      <3>2. CASE Place(p, k) = {}
        <4>1. tracked[p][k].claims <= now \div Interval + tracked[p][k].evicted
          BY <3>2 DEF TrackerInv, Paid
        <4> QED
          BY <3>1, <4>1
      <3>3. CASE Place(p, k) # {}
        <4>1. PICK i \in DOMAIN seen[p] : seen[p][i].key = k
          BY <3>3 DEF Place
        <4>2. /\ seen[p][i].at <= now
              /\ tracked[p][k].claims <= seen[p][i].at \div Interval + 1 + tracked[p][k].evicted
          BY <4>1 DEF TrackerInv, Paid
        <4>3. seen[p][i].at \in Nat
          <5>1. seen[p][i] \in Claim
            BY DEF TrackerInv, TrackerType
          <5> QED
            BY <5>1 DEF Claim
        <4>4. seen[p][i].at \div Interval \in Nat
              /\ seen[p][i].at \div Interval <= now \div Interval
          BY <3>1, <4>2, <4>3, IntervalsPass
        <4> QED
          BY <3>1, <4>2, <4>4
      <3> QED
        BY <3>2, <3>3
    <2> QED
      BY <2>1, <2>2
  <1> QED
    BY <1>1, <1>2, <1>3, PTL DEF Spec

-----------------------------------------------------------------------------
(***************************************************************************)
(* The pool and the rows.  A request that waits for a row waits for one    *)
(* that has gone past its own update, so there is no circle of waits; and  *)
(* a request that waits for its second connection is the one the pool's    *)
(* timeout ends.                                                           *)
(***************************************************************************)
Places == {"new", "limited", "touching", "handling", "working", "ending", "closed"}
Past == {"handling", "working", "ending"}
Single(p) == {r \in Requests : ProcessOf[r] = p /\ req[r] \in OneConnection}
Double(p) == {r \in Requests : ProcessOf[r] = p /\ req[r] \in {"working"}}

\* A pool lends no more connections than it has, and who waits for the row of its key
\* waits for another request of that key, which waits for no row.
PoolIsRespected == \A p \in Processes : InUse(p) <= PoolSize
WaitsAreShort ==
    \A r \in Requests :
        LET holder == rowLock[KeyOf[r]]
        IN  req[r] = "touching" /\ holder # None =>
              holder \in Requests \ {r} /\ KeyOf[holder] = KeyOf[r] /\ req[holder] \in Past

PoolInv ==
    /\ req \in [Requests -> Places]
    /\ rowLock \in [Keys -> Requests \cup {None}]
    /\ \A k \in Keys : rowLock[k] # None => KeyOf[rowLock[k]] = k /\ req[rowLock[k]] \in Past
    /\ PoolIsRespected

LEMMA PoolFacts ==
    ASSUME NEW p \in Processes
    PROVE  /\ IsFiniteSet(Single(p)) /\ IsFiniteSet(Double(p))
           /\ Cardinality(Single(p)) \in Nat /\ Cardinality(Double(p)) \in Nat
           /\ InUse(p) = Cardinality(Single(p)) + 2 * Cardinality(Double(p))
           /\ PoolSize \in Nat
  <1>1. IsFiniteSet(Single(p)) /\ IsFiniteSet(Double(p))
    <2>1. IsFiniteSet(Requests) /\ Single(p) \subseteq Requests /\ Double(p) \subseteq Requests
      BY ProcessAssumption DEF Single, Double
    <2> QED
      BY <2>1, FS_Subset
  <1>2. InUse(p) = Cardinality(Single(p)) + 2 * Cardinality(Double(p))
    BY DEF InUse, Single, Double
  <1> QED
    BY <1>1, <1>2, FS_CardinalityType, ProcessAssumption

\* One request moves: what it gives back and what it takes.
LEMMA RequestMoves ==
    ASSUME PoolInv, NEW r \in Requests, NEW s \in Places, req' = [req EXCEPT ![r] = s],
           s \in OneConnection => \/ req[r] \in OneConnection \cup {"working"}
                                  \/ HasConnection(ProcessOf[r]),
           s = "working" => req[r] \in OneConnection /\ HasConnection(ProcessOf[r])
    PROVE  req' \in [Requests -> Places] /\ PoolIsRespected'
  <1>1. req' \in [Requests -> Places] /\ req'[r] = s /\ \A q \in Requests \ {r} : req'[q] = req[q]
    BY DEF PoolInv
  <1>2. ASSUME NEW p \in Processes PROVE InUse(p)' <= PoolSize
    <2> DEFINE A == Single(p)
               B == Double(p)
               a == Cardinality(A)
               b == Cardinality(B)
    <2>1. /\ IsFiniteSet(A) /\ IsFiniteSet(B) /\ a \in Nat /\ b \in Nat
          /\ InUse(p) = a + 2 * b /\ a + 2 * b <= PoolSize /\ PoolSize \in Nat
      BY PoolFacts DEF PoolInv, PoolIsRespected
    <2>2. InUse(p)' = Cardinality(Single(p)') + 2 * Cardinality(Double(p)')
      BY DEF InUse, Single, Double
    <2>3. ProcessOf[r] = p /\ HasConnection(ProcessOf[r]) => a + 2 * b < PoolSize
      BY <2>1 DEF HasConnection
    <2>4. CASE ProcessOf[r] # p
      <3>1. Single(p)' = A /\ Double(p)' = B
        BY <1>1, <2>4 DEF Single, Double
      <3> QED
        BY <2>1, <2>2, <3>1
    <2>5. CASE ProcessOf[r] = p
      <3>1. /\ r \in A <=> req[r] \in OneConnection
            /\ r \in B <=> req[r] = "working"
        BY <2>5 DEF Single, Double
      <3>2. /\ Single(p)' = IF s \in OneConnection THEN A \cup {r} ELSE A \ {r}
            /\ Double(p)' = IF s = "working" THEN B \cup {r} ELSE B \ {r}
        BY <1>1, <2>5 DEF Single, Double
      <3>3. /\ IsFiniteSet(A \cup {r}) /\ IsFiniteSet(B \cup {r})
            /\ Cardinality(A \cup {r}) = IF r \in A THEN a ELSE a + 1
            /\ Cardinality(B \cup {r}) = IF r \in B THEN b ELSE b + 1
            /\ Cardinality(A \ {r}) = IF r \in A THEN a - 1 ELSE a
            /\ Cardinality(B \ {r}) = IF r \in B THEN b - 1 ELSE b
        BY <2>1, FS_AddElement, FS_RemoveElement
      <3>4. ~(r \in A /\ r \in B) /\ "working" \notin OneConnection
        BY <3>1 DEF OneConnection
      <3> HIDE DEF A, B, a, b
      <3>5. CASE s \in OneConnection
        <4>1. Cardinality(Double(p)') = IF r \in B THEN b - 1 ELSE b
          BY <3>2, <3>3, <3>4, <3>5
        <4>2. Cardinality(Single(p)') = IF r \in A THEN a ELSE a + 1
          BY <3>2, <3>3, <3>5
        <4>3. r \in A \/ r \in B \/ a + 2 * b < PoolSize
          BY <2>3, <2>5, <3>1, <3>5
        <4> QED
          BY <2>1, <2>2, <3>4, <4>1, <4>2, <4>3
      <3>6. CASE s = "working"
        <4>1. r \in A /\ r \notin B /\ a + 2 * b < PoolSize
          BY <2>3, <2>5, <3>1, <3>4, <3>6
        <4>2. Cardinality(Single(p)') = a - 1 /\ Cardinality(Double(p)') = b + 1
          BY <3>2, <3>3, <3>4, <3>6, <4>1
        <4> QED
          BY <2>1, <2>2, <4>1, <4>2
      <3>7. CASE s \notin OneConnection /\ s # "working"
        <4>1. /\ Cardinality(Single(p)') = IF r \in A THEN a - 1 ELSE a
              /\ Cardinality(Double(p)') = IF r \in B THEN b - 1 ELSE b
          BY <3>2, <3>3, <3>7
        <4> QED
          BY <2>1, <2>2, <3>4, <4>1
      <3> QED
        BY <3>5, <3>6, <3>7
    <2> QED
      BY <2>4, <2>5
  <1> QED
    BY <1>1, <1>2 DEF PoolIsRespected

\* Of any requests, processes, keys and pool sizes: no pool lends more than it has, and
\* no request that waits for a row another has updated waits for one that waits itself
\* (dependencies.py:113-116, app/db/session.py).
THEOREM NoCircleOfWaits == Spec => [](PoolIsRespected /\ WaitsAreShort)
  <1>1. Init => PoolInv
    <2> SUFFICES ASSUME Init PROVE PoolInv
      OBVIOUS
    <2>1. \A r \in Requests : req[r] = "new"
      BY DEF Init
    <2>2. ASSUME NEW p \in Processes PROVE InUse(p) <= PoolSize
      <3>1. Single(p) = {} /\ Double(p) = {}
        BY <2>1 DEF Single, Double, OneConnection
      <3>2. Cardinality(Single(p)) = 0 /\ Cardinality(Double(p)) = 0
        BY <3>1, FS_EmptySet
      <3> QED
        BY <3>2, PoolFacts
    <2> QED
      BY <2>2 DEF Init, PoolInv, PoolIsRespected, Places
  <1>2. PoolInv /\ [Next]_vars => PoolInv'
    <2> SUFFICES ASSUME PoolInv, [Next]_vars PROVE PoolInv'
      OBVIOUS
    <2>1. CASE UNCHANGED <<req, rowLock>>
      BY <2>1 DEF PoolInv, PoolIsRespected, InUse
    <2>2. ASSUME NEW r \in Requests, NEW s \in Places, req' = [req EXCEPT ![r] = s],
                 rowLock' = rowLock, req[r] \in Past => s \in Past,
                 req' \in [Requests -> Places], PoolIsRespected'
          PROVE  PoolInv'
      <3>1. \A k \in Keys : rowLock[k] # None => rowLock[k] \in Requests
        BY DEF PoolInv
      <3>2. ASSUME NEW k \in Keys, rowLock[k] # None
            PROVE  KeyOf[rowLock[k]] = k /\ req'[rowLock[k]] \in Past
        BY <2>2, <3>1, <3>2 DEF PoolInv
      <3> QED
        BY <2>2, <3>2 DEF PoolInv
    <2>3. ASSUME NEW r \in Requests, Authenticate(r) PROVE PoolInv'
      <3>1. PICK s \in {"limited", "ending"} :
              req[r] = "new" /\ HasConnection(ProcessOf[r]) /\ req' = [req EXCEPT ![r] = s]
              /\ rowLock' = rowLock
        BY <2>3 DEF Authenticate
      <3>2. s \in Places /\ s # "working" /\ req[r] \notin Past
        BY <3>1 DEF Places, Past
      <3>3. req' \in [Requests -> Places] /\ PoolIsRespected'
        BY <3>1, <3>2, RequestMoves
      <3> QED
        BY <2>2, <3>1, <3>2, <3>3
    <2>4. ASSUME NEW r \in Requests, NoConnection(r) PROVE PoolInv'
      <3>1. req[r] = "new" /\ req' = [req EXCEPT ![r] = "closed"] /\ rowLock' = rowLock
        BY <2>4 DEF NoConnection
      <3>2. "closed" \in Places /\ "closed" \notin OneConnection /\ req[r] \notin Past
        BY <3>1 DEF Places, Past, OneConnection
      <3>3. req' \in [Requests -> Places] /\ PoolIsRespected'
        BY <3>1, <3>2, RequestMoves
      <3> QED
        BY <2>2, <3>1, <3>2, <3>3
    <2>5. ASSUME NEW r \in Requests,
                 Enter(r) \/ TurnedAway(r) \/ TouchFails(r) \/ Forbidden(r) \/ PoolTimeout(r)
                 \/ Finish(r)
          PROVE  PoolInv'
      <3>1. PICK s \in {"touching", "handling", "ending"} :
              /\ req' = [req EXCEPT ![r] = s] /\ rowLock' = rowLock
              /\ req[r] \in OneConnection \cup {"working"}
              /\ req[r] \in Past => s \in Past
        BY <2>5 DEF Enter, TurnedAway, TouchFails, Forbidden, PoolTimeout, MayTimeOut, Finish,
                    OneConnection, Past
      <3>2. s \in Places /\ s # "working"
        BY DEF Places
      <3>3. req' \in [Requests -> Places] /\ PoolIsRespected'
        BY <3>1, <3>2, RequestMoves
      <3> QED
        BY <2>2, <3>1, <3>2, <3>3
    <2>6. ASSUME NEW r \in Requests, Handle(r) PROVE PoolInv'
      <3>1. /\ req' = [req EXCEPT ![r] = "working"] /\ rowLock' = rowLock
            /\ req[r] \in OneConnection /\ HasConnection(ProcessOf[r])
        BY <2>6 DEF Handle, OneConnection
      <3>2. "working" \in Places /\ "working" \in Past
        BY DEF Places, Past
      <3>3. req' \in [Requests -> Places] /\ PoolIsRespected'
        BY <3>1, <3>2, RequestMoves
      <3> QED
        BY <2>2, <3>1, <3>2, <3>3
    <2>7. ASSUME NEW r \in Requests, Touch(r) PROVE PoolInv'
      <3>1. /\ req' = [req EXCEPT ![r] = "handling"] /\ req[r] = "touching"
            /\ rowLock' = [rowLock EXCEPT ![KeyOf[r]] = r] /\ KeyOf[r] \in Keys
        BY <2>7, ProcessAssumption DEF Touch
      <3>2. /\ "handling" \in Places /\ "handling" # "working" /\ req[r] \notin Past
            /\ req[r] \in OneConnection /\ "handling" \in Past
        BY <3>1 DEF Places, Past, OneConnection
      <3>3. req' \in [Requests -> Places] /\ PoolIsRespected'
        BY <3>1, <3>2, RequestMoves
      <3>4. rowLock' \in [Keys -> Requests \cup {None}]
        BY <3>1 DEF PoolInv
      <3>5. ASSUME NEW k \in Keys, rowLock'[k] # None
            PROVE  KeyOf[rowLock'[k]] = k /\ req'[rowLock'[k]] \in Past
        <4>1. CASE k = KeyOf[r]
          BY <3>1, <3>2, <4>1 DEF PoolInv
        <4>2. CASE k # KeyOf[r]
          <5>1. rowLock'[k] = rowLock[k] /\ rowLock[k] \in Requests
            BY <3>1, <3>5, <4>2 DEF PoolInv
          <5>2. KeyOf[rowLock[k]] = k /\ req[rowLock[k]] \in Past
            BY <3>5, <5>1 DEF PoolInv
          <5> QED
            BY <3>1, <3>2, <5>1, <5>2 DEF PoolInv
        <4> QED
          BY <4>1, <4>2
      <3> QED
        BY <3>3, <3>4, <3>5 DEF PoolInv
    <2>8. ASSUME NEW r \in Requests, Close(r) PROVE PoolInv'
      <3>1. /\ req' = [req EXCEPT ![r] = "closed"]
            /\ rowLock' = [k \in Keys |-> IF rowLock[k] = r THEN None ELSE rowLock[k]]
        BY <2>8 DEF Close
      <3>2. "closed" \in Places /\ "closed" # "working" /\ "closed" \notin OneConnection
        BY DEF Places, OneConnection
      <3>3. req' \in [Requests -> Places] /\ PoolIsRespected'
        BY <3>1, <3>2, RequestMoves
      <3>4. rowLock' \in [Keys -> Requests \cup {None}]
        BY <3>1 DEF PoolInv
      <3>5. ASSUME NEW k \in Keys, rowLock'[k] # None
            PROVE  KeyOf[rowLock'[k]] = k /\ req'[rowLock'[k]] \in Past
        <4>1. rowLock'[k] = rowLock[k] /\ rowLock[k] # r /\ rowLock[k] \in Requests
          BY <3>1, <3>5 DEF PoolInv
        <4>2. KeyOf[rowLock[k]] = k /\ req[rowLock[k]] \in Past
          BY <3>5, <4>1 DEF PoolInv
        <4> QED
          BY <3>1, <4>1, <4>2 DEF PoolInv
      <3> QED
        BY <3>3, <3>4, <3>5 DEF PoolInv
    <2> QED
      BY <2>1, <2>3, <2>4, <2>5, <2>6, <2>7, <2>8 DEF Next, Serves, Revoke, Tick, vars
  <1>3. PoolInv => PoolIsRespected /\ WaitsAreShort
    <2> SUFFICES ASSUME PoolInv, NEW r \in Requests, req[r] = "touching", rowLock[KeyOf[r]] # None
                 PROVE  /\ rowLock[KeyOf[r]] \in Requests \ {r}
                        /\ KeyOf[rowLock[KeyOf[r]]] = KeyOf[r]
                        /\ req[rowLock[KeyOf[r]]] \in Past
      BY DEF PoolInv, WaitsAreShort
    <2>1. KeyOf[r] \in Keys /\ "touching" \notin Past
      BY ProcessAssumption DEF Past
    <2> QED
      BY <2>1 DEF PoolInv
  <1> QED
    BY <1>1, <1>2, <1>3, PTL DEF Spec

-----------------------------------------------------------------------------
(***************************************************************************)
(* The middleware.  What the route was given is where the last chunk it    *)
(* was given ends; the excess is noticed as it arrives and not forgotten;  *)
(* an answer that has started is of one of two shapes.                     *)
(***************************************************************************)
EdgeType ==
    /\ message \in Calls
    /\ arrived \in 0..Len(message.ends)
    /\ received \in Nat /\ held \in Nat /\ exceeded \in BOOLEAN
    /\ route \in {"arriving", "reading", "parsing", "handling", "starting", "raising",
                  "sending", "over"}

Measured ==
    /\ received = EndOf(arrived)
    /\ exceeded <=> received > LimitFor
    /\ held <= LimitFor
    /\ ~exceeded => held = received

\* A route that reads no body meets no excess.
ReadsNothing == ~message.reads => ~exceeded /\ route # "reading"

Underway ==
    /\ route = "reading" => ~exceeded /\ arrived < Len(message.ends)
    /\ route = "arriving" => arrived = 0 /\ inFlight = 0 /\ ~handled
    /\ route \notin {"sending", "over"} => wire = <<>> /\ counted = <<>> /\ ~sentStart
    /\ route \in {"reading", "parsing", "handling", "starting", "raising"} => inFlight = 1
    /\ route = "starting" => answer \in {200, 400, 404, 413, 503}

\* An answer that is over.
AnswerIs(status, headers) ==
    /\ \/ wire = <<Start(status, headers), Body>>
       \/ wire = <<Start(status, headers)>> /\ Streams /\ status = 200
    /\ counted = <<status>>
    /\ exceeded => status \in {413, 500}
    /\ handled /\ ~exceeded => status \in {answer, 500}
    /\ status = 413 /\ headers # All \cup {"request-id"} => EndOf(Len(message.ends)) > LimitFor
    /\ status = 413 /\ headers = All \cup {"request-id"} => answer = 413

Answered ==
    /\ route = "sending" =>
         /\ sentStart /\ inFlight = 0
         /\ exceeded => wire = Rejected(413) /\ counted = <<413>>
         /\ ~exceeded =>
              /\ answer \in {200, 400, 404, 413, 503}
              /\ wire = <<Start(answer, All \cup {"request-id"})>> /\ counted = <<answer>>
    /\ route = "over" =>
         /\ inFlight = 0
         /\ \E status \in {200, 400, 404, 413, 500, 503},
               headers \in {Own, Own \cup {"request-id"}, All \cup {"request-id"}} :
              /\ AnswerIs(status, headers)

EdgeInv == EdgeType /\ Measured /\ ReadsNothing /\ Underway /\ Answered

\* A request of the instance is framed: its chunks end in order, the last one at the
\* length it declares.
LEMMA BodiesAreFramed ==
    ASSUME EdgeType
    PROVE  /\ Len(message.ends) \in Nat \ {0}
           /\ \A n \in 0..Len(message.ends) : EndOf(n) \in Nat
           /\ \A m, n \in 0..Len(message.ends) : m <= n => EndOf(m) <= EndOf(n)
           /\ LimitFor \in Nat
           /\ TooLong => EndOf(Len(message.ends)) > LimitFor
  <1> DEFINE ends == message.ends
  <1>1. /\ ends \in Seq(Nat) /\ Len(ends) \in Nat /\ message.whole \in 1..Len(ends)
        /\ \A i, j \in 1..Len(ends) : i <= j => ends[i] <= ends[j]
        /\ message.declared \in {ends[Len(ends)], Absent, Malformed}
    BY CallAssumption DEF EdgeType
  <1>2. Len(ends) \in Nat \ {0}
    BY <1>1
  <1>3. \A n \in 1..Len(ends) : ends[n] \in Nat
    BY <1>1
  <1>4. \A n \in 0..Len(ends) : EndOf(n) \in Nat
    BY <1>3 DEF EndOf
  <1>5. \A m, n \in 0..Len(ends) : m <= n => EndOf(m) <= EndOf(n)
    <2> SUFFICES ASSUME NEW m \in 0..Len(ends), NEW n \in 0..Len(ends), m <= n
                 PROVE  EndOf(m) <= EndOf(n)
      OBVIOUS
    <2>1. CASE m = 0
      BY <2>1, <1>4 DEF EndOf
    <2>2. CASE m # 0
      BY <2>2, <1>1 DEF EndOf
    <2> QED
      BY <2>1, <2>2
  <1>6. LimitFor \in Nat
    BY CallAssumption DEF LimitFor
  <1>7. TooLong => EndOf(Len(ends)) > LimitFor
    BY <1>1, <1>2, CallAssumption DEF TooLong, EndOf
  <1> QED
    BY <1>2, <1>4, <1>5, <1>6, <1>7

\* An answer that has started ends with its body.
LEMMA OneMore == ASSUME NEW e, NEW b PROVE Append(<<e>>, b) = <<e, b>>
  <1> DEFINE both == Append(<<e>>, b)
  <1>1. <<e>> \in Seq({e, b}) /\ b \in {e, b}
    OBVIOUS
  <1>2. both \in Seq({e, b}) /\ Len(both) = 2 /\ both[1] = e /\ both[2] = b
    BY <1>1
  <1>3. Len(<<e, b>>) = 2 /\ <<e, b>>[1] = e /\ <<e, b>>[2] = b
    OBVIOUS
  <1> HIDE DEF both
  <1>4. both = [i \in 1..2 |-> both[i]]
    BY <1>2
  <1>5. <<e, b>> = [i \in 1..2 |-> <<e, b>>[i]]
    OBVIOUS
  <1>6. both = <<e, b>>
    BY <1>2, <1>3, <1>4, <1>5
  <1> QED
    BY <1>6 DEF both

LEMMA EdgeStarts == EdgeInit => EdgeInv
  <1> SUFFICES ASSUME EdgeInit PROVE EdgeInv
    OBVIOUS
  <1>1. EdgeType
    <2>1. message \in Calls /\ Len(message.ends) \in Nat
      BY CallAssumption DEF EdgeInit
    <2>2. arrived \in 0..Len(message.ends)
      BY <2>1 DEF EdgeInit
    <2> QED
      BY <2>1, <2>2 DEF EdgeInit, EdgeType
  <1>2. Measured
    BY <1>1, BodiesAreFramed DEF EdgeInit, Measured, EndOf
  <1> QED
    BY <1>1, <1>2 DEF EdgeInit, EdgeInv, ReadsNothing, Underway, Answered

\* An error's own headers are not those of the route's answers.
LEMMA HeadersDiffer == Own \cup {"request-id"} # All \cup {"request-id"}
  <1>1. "frame-options" \in All \cup {"request-id"} /\ "frame-options" \notin Own \cup {"request-id"}
    BY DEF All, Own
  <1> QED
    BY <1>1

\* No step of the middleware, the handlers or the route leaves the invariant.
LEMMA EdgeSteps == EdgeInv /\ [EdgeNext]_edgeVars => EdgeInv'
  <1> SUFFICES ASSUME EdgeInv, [EdgeNext]_edgeVars PROVE EdgeInv'
    OBVIOUS
  <1> USE DEF EdgeInv
  <1> DEFINE Last == Len(message.ends)
  <1>0. /\ Last \in Nat \ {0} /\ LimitFor \in Nat
        /\ \A n \in 0..Last : EndOf(n) \in Nat
        /\ \A m, n \in 0..Last : m <= n => EndOf(m) <= EndOf(n)
        /\ TooLong => EndOf(Last) > LimitFor
    BY BodiesAreFramed
  <1>same. ASSUME message' = message
           PROVE  /\ LimitFor' = LimitFor
                  /\ \A n \in 0..Last : EndOf(n)' = EndOf(n)
    BY <1>same DEF LimitFor, EndOf
  <1>meas. ASSUME UNCHANGED <<message, arrived, received, exceeded, held>>
           PROVE  Measured'
    BY <1>meas DEF Measured, LimitFor, EndOf
  <1>reads. ReadsNothing'
    BY DEF ReadsNothing, EdgeNext, edgeVars, Arrive, RejectDeclared, Receive, Parse, Handles,
           SendStart, SendBody, BreaksOff, Raise
  <1>1. CASE Arrive
    <2>1. EdgeType' /\ Measured'
      BY <1>1, <1>meas DEF Arrive, EdgeType
    <2>2. Underway'
      <3>1. ~exceeded /\ arrived = 0
        BY <1>1, <1>0 DEF Arrive, Underway, Measured, EndOf
      <3> QED
        BY <1>1, <1>0, <3>1 DEF Arrive, Underway
    <2>3. Answered'
      BY <1>1 DEF Arrive, Answered
    <2> QED
      BY <2>1, <2>2, <2>3, <1>reads
  <1>2. CASE RejectDeclared
    <2>1. EdgeType' /\ Measured'
      BY <1>2, <1>meas DEF RejectDeclared, EdgeType
    <2>2. Underway'
      BY <1>2 DEF RejectDeclared, Underway
    <2>3. Answered'
      <3> DEFINE status == IF TooLong THEN 413 ELSE 400
      <3>1. ~exceeded /\ counted = <<>> /\ inFlight = 0
        BY <1>2, <1>0 DEF RejectDeclared, Underway, Measured, EndOf
      <3>2. /\ wire' = <<Start(status, Own \cup {"request-id"}), Body>>
            /\ counted' = <<status>>
            /\ inFlight' = 0 /\ ~exceeded' /\ route' = "over"
        BY <1>2, <3>1 DEF RejectDeclared, Rejected, Start, Body
      <3>3. TooLong => (EndOf(Len(message.ends)) > LimitFor)'
        BY <1>2, <1>0, <1>same DEF RejectDeclared
      <3>4. ~handled'
        BY <1>2 DEF RejectDeclared, Underway
      <3>5. CASE TooLong
        <4>1. AnswerIs(413, Own \cup {"request-id"})'
          BY <3>2, <3>3, <3>4, <3>5, HeadersDiffer DEF AnswerIs
        <4> QED
          BY <3>2, <4>1 DEF Answered
      <3>6. CASE ~TooLong
        <4>1. AnswerIs(400, Own \cup {"request-id"})'
          BY <3>2, <3>4, <3>6 DEF AnswerIs
        <4> QED
          BY <3>2, <4>1 DEF Answered
      <3> QED
        BY <3>5, <3>6
    <2> QED
      BY <2>1, <2>2, <2>3, <1>reads
  <1>3. CASE Receive
    <2>1. /\ route = "reading" /\ arrived' = arrived + 1 /\ message' = message
          /\ ~exceeded /\ arrived < Last /\ arrived \in 0..Last /\ held = received
          /\ received = EndOf(arrived) /\ received <= LimitFor
          /\ exceeded' = (received' > LimitFor)
      BY <1>3, <1>0 DEF Receive, Underway, Measured, EdgeType
    <2>2. arrived' \in 0..Last /\ EndOf(arrived + 1) \in Nat /\ EndOf(arrived) \in Nat
      BY <2>1, <1>0
    <2>3. received' = EndOf(arrived + 1) /\ received' \in Nat
      BY <1>3, <2>1, <2>2 DEF Receive
    <2>4. EndOf(arrived)' = EndOf(arrived + 1) /\ LimitFor' = LimitFor
      BY <2>1 DEF EndOf, LimitFor
    <2>5. held' = (IF exceeded' THEN held ELSE received')
      BY <1>3, <2>1, <2>2, <2>3 DEF Receive
    <2>6. Measured'
      <3>1. received' = EndOf(arrived)'
        BY <2>1, <2>3, <2>4
      <3>2. exceeded' <=> received' > LimitFor'
        BY <2>1, <2>4
      <3>3. CASE exceeded'
        BY <3>1, <3>2, <3>3, <2>1, <2>4, <2>5 DEF Measured
      <3>4. CASE ~exceeded'
        <4>1. held' = received' /\ received' <= LimitFor'
          BY <3>2, <3>4, <2>3, <2>4, <2>5, <1>0
        <4> QED
          BY <3>1, <3>2, <3>4, <4>1 DEF Measured
      <3> QED
        BY <3>3, <3>4
    <2>7. EdgeType'
      BY <1>3, <2>1, <2>2, <2>3, <2>5 DEF Receive, EdgeType
    <2>8. Underway'
      BY <1>3, <2>1, <2>2 DEF Receive, Underway
    <2>9. Answered'
      BY <1>3 DEF Receive, Answered
    <2> QED
      BY <2>6, <2>7, <2>8, <2>9, <1>reads
  <1>4. CASE Parse
    <2>1. EdgeType' /\ Measured'
      BY <1>4, <1>meas DEF Parse, EdgeType
    <2>2. Underway' /\ Answered'
      BY <1>4 DEF Parse, Underway, Answered
    <2> QED
      BY <2>1, <2>2, <1>reads
  <1>5. CASE Handles
    <2>1. EdgeType' /\ Measured'
      BY <1>5, <1>meas DEF Handles, EdgeType
    <2>2. Underway' /\ Answered'
      BY <1>5 DEF Handles, Answers, Underway, Answered
    <2> QED
      BY <2>1, <2>2, <1>reads
  <1>6. CASE SendStart
    <2>1. EdgeType' /\ Measured'
      BY <1>6, <1>meas DEF SendStart, EdgeType
    <2>2. Underway'
      BY <1>6 DEF SendStart, Underway
    <2>3. Answered'
      <3>1. wire = <<>> /\ counted = <<>> /\ ~sentStart /\ inFlight = 1
            /\ answer \in {200, 400, 404, 413, 503}
        BY <1>6 DEF SendStart, Underway
      <3>2. inFlight' = 0 /\ sentStart' /\ route' = "sending" /\ answer' = answer
            /\ exceeded' = exceeded
        BY <1>6, <3>1 DEF SendStart, Remembers, Passes
      <3>3. CASE exceeded
        <4>1. wire' = Rejected(413) /\ counted' = <<413>>
          BY <1>6, <3>1, <3>3 DEF SendStart, Replaces, Passes, Rejected
        <4> QED
          BY <3>2, <3>3, <4>1 DEF Answered, Rejected, Start, Own, Body
      <3>4. CASE ~exceeded
        <4>1. /\ wire' = <<Start(answer, All \cup {"request-id"})>>
              /\ counted' = <<answer>>
          BY <1>6, <3>1, <3>4 DEF SendStart, Replaces, Passes
        <4> QED
          BY <3>1, <3>2, <3>4, <4>1 DEF Answered, Start, All, Own
      <3> QED
        BY <3>3, <3>4
    <2> QED
      BY <2>1, <2>2, <2>3, <1>reads
  <1>7. CASE SendBody
    <2>1. EdgeType' /\ Measured'
      BY <1>7, <1>meas DEF SendBody, EdgeType
    <2>2. Underway'
      BY <1>7 DEF SendBody, Underway
    <2>3. Answered'
      <3>1. sentStart /\ inFlight = 0 /\ inFlight' = 0 /\ route' = "over"
            /\ exceeded' = exceeded /\ counted' = counted
        BY <1>7 DEF SendBody, Answered
      <3>2. CASE exceeded
        <4>1. /\ wire' = <<Start(413, Own \cup {"request-id"}), Body>>
              /\ counted' = <<413>>
          BY <1>7, <3>1, <3>2 DEF SendBody, Replaces, Answered, Rejected
        <4>2. (EndOf(Len(message.ends)) > LimitFor)'
          <5>1. EndOf(arrived) > LimitFor /\ arrived \in 0..Last
            BY <3>2 DEF Measured, EdgeType
          <5>2. EndOf(Last) > LimitFor
            BY <5>1, <1>0
          <5> QED
            BY <5>2, <1>7, <1>0, <1>same DEF SendBody
        <4>3. AnswerIs(413, Own \cup {"request-id"})'
          BY <3>1, <3>2, <4>1, <4>2, HeadersDiffer DEF AnswerIs
        <4> QED
          BY <3>1, <4>3 DEF Answered
      <3>3. CASE ~exceeded
        <4>1. /\ wire = <<Start(answer, All \cup {"request-id"})>> /\ counted = <<answer>>
              /\ answer \in {200, 400, 404, 413, 503}
          BY <1>7, <3>3 DEF SendBody, Answered
        <4>2. wire' = Append(wire, Body)
          BY <1>7, <3>3 DEF SendBody, Replaces
        <4>3. wire' = <<Start(answer, All \cup {"request-id"}), Body>> /\ counted' = <<answer>>
          <5> DEFINE e == Start(answer, All \cup {"request-id"})
          <5>1. wire = <<e>>
            BY <4>1
          <5> HIDE DEF e
          <5>2. Append(wire, Body) = <<e, Body>>
            BY <5>1, OneMore
          <5>3. wire' = <<e, Body>> /\ counted' = <<answer>>
            BY <3>1, <4>1, <4>2, <5>2
          <5> QED
            BY <5>3 DEF e
        <4>4. answer' = answer
          BY <1>7 DEF SendBody
        <4>5. AnswerIs(answer, All \cup {"request-id"})'
          BY <3>1, <3>3, <4>3, <4>4 DEF AnswerIs
        <4> QED
          BY <3>1, <4>1, <4>4, <4>5 DEF Answered
      <3> QED
        BY <3>2, <3>3
    <2> QED
      BY <2>1, <2>2, <2>3, <1>reads
  <1>10. CASE BreaksOff
    <2>1. EdgeType' /\ Measured'
      BY <1>10, <1>meas DEF BreaksOff, EdgeType
    <2>2. Underway'
      BY <1>10 DEF BreaksOff, Underway
    <2>3. Answered'
      <3>1. /\ UNCHANGED <<message, exceeded, answer, handled, wire, counted, inFlight>>
            /\ route = "sending" /\ route' = "over" /\ Streams
        BY <1>10 DEF BreaksOff
      <3>2. answer = 200 /\ inFlight = 0
        BY <3>1 DEF Answered, Streams
      <3>3. ~exceeded => wire = <<Start(200, All \cup {"request-id"})>> /\ counted = <<200>>
        BY <3>1, <3>2 DEF Answered
      <3>4. ~exceeded
        BY <3>1 DEF Streams, ReadsNothing
      <3>5. AnswerIs(200, All \cup {"request-id"})'
        BY <3>1, <3>2, <3>3, <3>4 DEF AnswerIs, Streams
      <3> QED
        BY <3>1, <3>2, <3>5 DEF Answered
    <2> QED
      BY <2>1, <2>2, <2>3, <1>reads
  <1>8. CASE Raise
    <2>1. EdgeType' /\ Measured'
      BY <1>8, <1>meas DEF Raise, EdgeType
    <2>2. Underway'
      BY <1>8 DEF Raise, Underway
    <2>3. Answered'
      <3>1. counted' = <<500>> /\ inFlight' = 0
        BY <1>8 DEF Raise, Passes, Underway
      <3>2. wire' = <<Start(500, Own), Body>> /\ route' = "over"
        BY <1>8 DEF Raise
      <3>3. AnswerIs(500, Own)'
        BY <3>1, <3>2 DEF AnswerIs
      <3> QED
        BY <3>1, <3>2, <3>3 DEF Answered
    <2> QED
      BY <2>1, <2>2, <2>3, <1>reads
  <1>9. CASE UNCHANGED edgeVars
    BY <1>9, <1>meas DEF edgeVars, EdgeType, Underway, Answered, AnswerIs, Streams, ReadsNothing,
           EndOf, LimitFor
  <1> QED
    BY <1>1, <1>2, <1>3, <1>4, <1>5, <1>6, <1>7, <1>8, <1>9, <1>10 DEF EdgeNext

\* Whatever a request declares, however its body is cut and wherever it goes wrong, it has
\* one answer, counted once, never kept by a cache, whole unless it is a download that broke
\* off; and 413 only for a body past its limit or when the route itself answers so
\* (BodySizeLimitMiddleware, MetricsMiddleware, app/api/errors.py, documents/service.py:341).
THEOREM AnswersAreSingle == EdgeSpec => []OneAnswer
  <1>1. EdgeInv => OneAnswer
    <2> SUFFICES ASSUME EdgeInv PROVE OneAnswer
      OBVIOUS
    <2>1. held <= LimitFor
      BY DEF EdgeInv, Measured
    <2>2. inFlight \in {0, 1}
      BY DEF EdgeInv, EdgeType, Underway, Answered
    <2>3. ASSUME route = "over"
          PROVE  /\ Len(wire) \in {1, 2} /\ wire[1].type = "start"
                 /\ IF Len(wire) = 2 THEN wire[2] = Body ELSE Streams /\ wire[1].status = 200
                 /\ counted = <<wire[1].status>> /\ inFlight = 0
                 /\ EndOf(arrived) > LimitFor => wire[1].status \in {413, 500}
                 /\ handled /\ EndOf(arrived) <= LimitFor => wire[1].status \in {answer, 500}
                 /\ wire[1].status = 413 => answer = 413 \/ EndOf(Len(message.ends)) > LimitFor
                 /\ Own \subseteq wire[1].headers
      <3>1. PICK status \in {200, 400, 404, 413, 500, 503},
                 headers \in {Own, Own \cup {"request-id"}, All \cup {"request-id"}} :
              AnswerIs(status, headers)
        BY <2>3 DEF EdgeInv, Answered
      <3>2. /\ Len(wire) \in {1, 2}
            /\ IF Len(wire) = 2 THEN wire[2] = Body ELSE Streams /\ status = 200
            /\ wire[1].type = "start" /\ wire[1].status = status /\ wire[1].headers = headers
        BY <3>1 DEF AnswerIs, Start
      <3>3. Own \subseteq headers
        BY DEF All
      <3>4. inFlight = 0 /\ (exceeded <=> EndOf(arrived) > LimitFor)
        BY <2>3 DEF EdgeInv, Answered, Measured
      <3>5. EndOf(arrived) <= LimitFor => ~exceeded
        <4>1. EndOf(arrived) \in Nat /\ LimitFor \in Nat
          BY BodiesAreFramed DEF EdgeInv, EdgeType
        <4> QED
          BY <3>4, <4>1
      <3> QED
        BY <3>1, <3>2, <3>3, <3>4, <3>5 DEF AnswerIs
    <2> QED
      BY <2>1, <2>2, <2>3 DEF OneAnswer
  <1> QED
    BY EdgeStarts, EdgeSteps, <1>1, PTL DEF EdgeSpec

\* What stopped at the declared length.
DeclaredInv ==
    message.declared = Malformed \/ TooLong => route \in {"arriving", "over"} /\ ~handled

\* A body that declares its length, or declares it badly, is refused before any of the
\* handler's work: only one that comes in chunks may be served and refused
\* (middleware.py:138-145, 7-8).
THEOREM DeclaredRefusedIsNotServed ==
    EdgeSpec => [](message.declared # Absent => RefusedIsNotServed)
  <1>1. EdgeInit => DeclaredInv
    BY DEF EdgeInit, DeclaredInv
  <1>2. DeclaredInv /\ [EdgeNext]_edgeVars => DeclaredInv'
    BY DEF DeclaredInv, EdgeNext, edgeVars, Arrive, RejectDeclared, Receive, Parse, Handles,
           SendStart, SendBody, BreaksOff, Raise, TooLong, LimitFor
  <1>3. DeclaredInv /\ EdgeInv => (message.declared # Absent => RefusedIsNotServed)
    <2> SUFFICES ASSUME DeclaredInv, EdgeInv, message \in Calls, message.declared # Absent,
                        route = "over", wire = Rejected(413)
                 PROVE  ~handled
      BY DEF EdgeInv, EdgeType, RefusedIsNotServed
    <2>1. EndOf(Len(message.ends)) > LimitFor
      <3>1. PICK status \in {200, 400, 404, 413, 500, 503},
                 headers \in {Own, Own \cup {"request-id"}, All \cup {"request-id"}} :
              AnswerIs(status, headers)
        BY DEF EdgeInv, Answered
      <3>2. status = 413 /\ headers = Own \cup {"request-id"}
        BY <3>1 DEF AnswerIs, Rejected, Start
      <3> QED
        BY <3>1, <3>2, HeadersDiffer DEF AnswerIs
    <2>2. /\ message.ends \in Seq(Nat) /\ message.whole \in 1..Len(message.ends)
          /\ message.declared \in {message.ends[Len(message.ends)], Malformed}
      BY CallAssumption
    <2>3. Len(message.ends) \in Nat \ {0} /\ message.ends[Len(message.ends)] \in Nat
      BY <2>2
    <2>4. message.declared # Malformed => TooLong
      BY <2>1, <2>2, <2>3 DEF EndOf, TooLong
    <2> QED
      BY <2>4 DEF DeclaredInv
  <1> QED
    BY <1>1, <1>2, <1>3, EdgeStarts, EdgeSteps, AnswersAreSingle, PTL DEF EdgeSpec

-----------------------------------------------------------------------------
(***************************************************************************)
(* The process.  The engine is open before the writer runs; what is open   *)
(* when the process stops is what its closers still name, what they failed *)
(* to close, and what none of them names.                                  *)
(***************************************************************************)
Names == {"engine", "redis", "tokenizer", "hasher", "registry", "store", "ping", "audit",
          "detector", "processor", "documents"}
Left == {agenda[i] : i \in 1..Len(agenda)}

LifeType ==
    /\ agenda \in Seq(Names)
    /\ work \in [Tasks -> {"waiting", "asked", "opening", "using", "over"}]
    /\ life \in {"loading", "refused", "building", "unbuilt", "starting", "serving",
                 "stopping", "giving up", "stopped", "abandoned"}
    /\ life \in {"building", "starting"} \/ Closing => agenda # <<>>

WriterInv ==
    /\ life = "building" => agenda = Constructors \/ "engine" \in handles
    /\ life \in {"starting", "serving"} => "engine" \in handles
    /\ worker => "engine" \in handles
    /\ worker /\ life \notin {"starting", "serving"} => Closing /\ Head(agenda) = "audit"

\* Only an attempt at a document, or a probe of the store, opens a client.
ClientInv ==
    /\ life # "serving" => \A t \in Tasks : work[t] \in {"waiting", "over"}
    /\ ~settings.documents =>
         client = NoClient /\ \A t \in Tasks : work[t] \in {"waiting", "over"}

Client == {client} \ {NoClient}
OpenInv ==
    /\ ~Closing /\ life \notin {"stopped", "abandoned"} =>
         handles \subseteq {"engine", "redis", "openai"} \cup overwritten \cup Client
    /\ Closing =>
         handles \subseteq failedCloses \cup {"openai"} \cup overwritten
                           \cup (Left \cap {"engine", "redis"})
                           \cup {c \in Client : "documents" \in Left}
    /\ life \in {"stopped", "abandoned"} =>
         handles \subseteq failedCloses \cup {"openai"} \cup overwritten

KeysInv ==
    /\ life \notin {"loading", "refused"} => Accepted(settings)
    /\ settings.production => keyErrors = {}

LifeInv == LifeType /\ WriterInv /\ ClientInv /\ OpenInv /\ KeysInv

\* An agenda is gone through from its head.
LEMMA AgendaShortens ==
    ASSUME agenda \in Seq(Names), agenda # <<>>
    PROVE  /\ Head(agenda) \in Left
           /\ Tail(agenda) \in Seq(Names)
           /\ Len(agenda) # 1 => Tail(agenda) # <<>>
           /\ Len(agenda) = 1 => Left = {Head(agenda)}
           /\ Left \subseteq {Head(agenda)} \cup {Tail(agenda)[i] : i \in 1..Len(Tail(agenda))}
  <1>1. Len(agenda) \in Nat \ {0} /\ Head(agenda) = agenda[1]
    OBVIOUS
  <1>2. /\ Tail(agenda) \in Seq(Names) /\ Len(Tail(agenda)) = Len(agenda) - 1
        /\ \A i \in 1..(Len(agenda) - 1) : Tail(agenda)[i] = agenda[i + 1]
    BY <1>1
  <1>3. Left \subseteq {Head(agenda)} \cup {Tail(agenda)[i] : i \in 1..Len(Tail(agenda))}
    <2> SUFFICES ASSUME NEW i \in 1..Len(agenda), i # 1
                 PROVE  \E j \in 1..Len(Tail(agenda)) : Tail(agenda)[j] = agenda[i]
      BY <1>1 DEF Left
    <2>1. i - 1 \in 1..Len(Tail(agenda)) /\ Tail(agenda)[i - 1] = agenda[i]
      BY <1>1, <1>2
    <2> QED
      BY <2>1
  <1>4. Len(agenda) # 1 => Tail(agenda) # <<>>
    <2>1. Len(agenda) # 1 => Len(Tail(agenda)) # 0
      BY <1>1, <1>2
    <2> HIDE <1>2
    <2>2. Len(<<>>) = 0
      OBVIOUS
    <2> QED
      BY <2>1, <2>2
  <1>5. Len(agenda) = 1 => Left = {Head(agenda)}
    BY <1>1 DEF Left
  <1>6. Head(agenda) \in Left
    BY <1>1 DEF Left
  <1> QED
    BY <1>2, <1>3, <1>4, <1>5, <1>6

\* Two agendas, joined.
LEMMA Joined ==
    ASSUME NEW s \in Seq(Names), NEW t \in Seq(Names)
    PROVE  /\ s \o t \in Seq(Names) /\ Len(s \o t) = Len(s) + Len(t)
           /\ \A i \in 1..Len(s) : (s \o t)[i] = s[i]
           /\ \A i \in 1..Len(t) : (s \o t)[Len(s) + i] = t[i]
  OBVIOUS

LEMMA ClosersBegin ==
    ASSUME NEW s \in Seq(Names), Len(s) > 0
    PROVE  s # <<>> /\ Head(s) = s[1]
  OBVIOUS

\* The closers name every handle there is but the provider's, the store's client included
\* where there can be one, and begin with the writer.
LEMMA ClosersNameAll ==
    /\ Closers \in Seq(Names) /\ Closers # <<>> /\ Head(Closers) = "audit"
    /\ {"engine", "redis"} \subseteq {Closers[i] : i \in 1..Len(Closers)}
    /\ settings.documents => "documents" \in {Closers[i] : i \in 1..Len(Closers)}
  <1> DEFINE first == <<"audit", "redis">>
             last == <<"engine">>
             store == <<"processor", "documents">>
  <1>1. /\ first \in Seq(Names) /\ Len(first) = 2 /\ first[1] = "audit" /\ first[2] = "redis"
        /\ last \in Seq(Names) /\ Len(last) = 1 /\ last[1] = "engine"
        /\ store \in Seq(Names) /\ Len(store) = 2 /\ store[2] = "documents"
    <2>1. first \in Seq(Names) /\ Len(first) = 2 /\ first[1] = "audit" /\ first[2] = "redis"
      BY DEF Names
    <2>2. last \in Seq(Names) /\ Len(last) = 1 /\ last[1] = "engine"
      BY DEF Names
    <2>3. store \in Seq(Names) /\ Len(store) = 2 /\ store[2] = "documents"
      BY DEF Names
    <2> QED
      BY <2>1, <2>2, <2>3
  <1>5. <<>> \in Seq(Names) /\ Len(<<>>) = 0
    OBVIOUS
  <1>2. Closers = first \o (IF settings.documents THEN store ELSE <<>>) \o last
    BY DEF Closers
  <1> HIDE DEF first, last, store
  <1>3. CASE settings.documents
    <2> DEFINE opening == first \o store
    <2>1. Closers = opening \o last
      BY <1>2, <1>3
    <2>2. /\ opening \in Seq(Names) /\ Len(opening) = 4 /\ opening[1] = "audit"
          /\ opening[2] = "redis" /\ opening[4] = "documents"
      <3>1. /\ opening \in Seq(Names) /\ Len(opening) = Len(first) + Len(store)
            /\ \A i \in 1..Len(first) : opening[i] = first[i]
            /\ \A i \in 1..Len(store) : opening[Len(first) + i] = store[i]
        BY <1>1, Joined
      <3> HIDE DEF opening
      <3> QED
        BY <1>1, <3>1
    <2> HIDE DEF opening
    <2>3. /\ Closers \in Seq(Names) /\ Len(Closers) = 5
          /\ Closers[1] = "audit" /\ Closers[2] = "redis" /\ Closers[4] = "documents"
          /\ Closers[5] = "engine"
      <3>1. /\ Closers \in Seq(Names) /\ Len(Closers) = Len(opening) + Len(last)
            /\ \A i \in 1..Len(opening) : Closers[i] = opening[i]
            /\ \A i \in 1..Len(last) : Closers[Len(opening) + i] = last[i]
        BY <1>1, <2>1, <2>2, Joined
      <3> QED
        BY <1>1, <2>2, <3>1
    <2> QED
      BY <2>3, ClosersBegin
  <1>4. CASE ~settings.documents
    <2> DEFINE opening == first \o <<>>
    <2>1. Closers = opening \o last
      BY <1>2, <1>4
    <2>2. /\ opening \in Seq(Names) /\ Len(opening) = 2 /\ opening[1] = "audit"
          /\ opening[2] = "redis"
      <3>1. /\ opening \in Seq(Names) /\ Len(opening) = Len(first) + Len(<<>>)
            /\ \A i \in 1..Len(first) : opening[i] = first[i]
        BY <1>1, <1>5, Joined
      <3> HIDE DEF opening
      <3> QED
        BY <1>1, <1>5, <3>1
    <2> HIDE DEF opening
    <2>3. /\ Closers \in Seq(Names) /\ Len(Closers) = 3
          /\ Closers[1] = "audit" /\ Closers[2] = "redis" /\ Closers[3] = "engine"
      <3>1. /\ Closers \in Seq(Names) /\ Len(Closers) = Len(opening) + Len(last)
            /\ \A i \in 1..Len(opening) : Closers[i] = opening[i]
            /\ \A i \in 1..Len(last) : Closers[Len(opening) + i] = last[i]
        BY <1>1, <2>1, <2>2, Joined
      <3> QED
        BY <1>1, <2>2, <3>1
    <2> QED
      BY <1>4, <2>3, ClosersBegin
  <1> QED
    BY <1>3, <1>4

\* What the validators let into production has a key for whatever is sealed.
LEMMA AcceptedSeals ==
    ASSUME Accepted(settings), settings.production
    PROVE  /\ ~Unusable(settings.vault)
           /\ settings.documents => ~Unusable(settings.document)
  <1>1. \A source : KeyProblems(source) = {} => ~Unusable(source)
    BY DEF KeyProblems, Unusable
  <1>2. ProductionProblems(settings) = {}
    BY DEF Accepted
  <1>3. KeyProblems(settings.vault) = {}
    BY <1>2 DEF ProductionProblems
  <1>4. settings.documents => KeyProblems(settings.document) = {}
    BY <1>2 DEF ProductionProblems, StorageProblems
  <1> QED
    BY <1>1, <1>3, <1>4

\* The agendas of the constructors and of the checks.
LEMMA AgendasAre ==
    /\ Constructors \in Seq(Names) /\ Constructors # <<>> /\ Head(Constructors) = "engine"
    /\ Checks \in Seq(Names) /\ Checks # <<>>
  <1>1. Constructors \in Seq(Names) /\ Len(Constructors) = 6 /\ Constructors[1] = "engine"
    BY DEF Constructors, Names
  <1>2. Checks \in Seq(Names) /\ Len(Checks) = 3
    BY DEF Checks, Names
  <1>3. Constructors # <<>> /\ Head(Constructors) = Constructors[1]
    <2>1. Constructors \in Seq(Names) /\ Len(Constructors) > 0
      BY <1>1
    <2> HIDE <1>1
    <2> QED
      BY <2>1, ClosersBegin
  <1>4. Checks # <<>>
    BY <1>2, ClosersBegin
  <1> QED
    BY <1>1, <1>2, <1>3, <1>4

LEMMA LifeStarts == LifeInit => LifeInv
  <1> SUFFICES ASSUME LifeInit PROVE LifeInv
    OBVIOUS
  <1>1. <<>> \in Seq(Names)
    OBVIOUS
  <1>2. LifeType
    BY <1>1 DEF LifeInit, LifeType, Closing
  <1> QED
    BY <1>2 DEF LifeInit, LifeInv, WriterInv, ClientInv, OpenInv, KeysInv, Closing

\* A task goes on; the process, its agenda and its writer stay.
LEMMA TaskGoes ==
    ASSUME LifeInv, NEW t \in Tasks, Untouched,
           NEW step \in {"waiting", "asked", "opening", "using", "over"}, Goes(t, step),
           life = "serving", settings.documents \/ step = "over"
    PROVE  LifeType' /\ (client' = client \/ settings.documents => ClientInv')
  <1>1. LifeType'
    BY DEF LifeInv, LifeType, Untouched, Goes, Closing
  <1>2. ASSUME client' = client \/ settings.documents PROVE ClientInv'
    <2>1. \A s \in Tasks : work'[s] = IF s = t THEN step ELSE work[s]
      BY DEF Goes, LifeInv, LifeType
    <2> QED
      BY <1>2, <2>1 DEF LifeInv, ClientInv, Untouched
  <1> QED
    BY <1>1, <1>2

\* A closer that is gone through: the writer stops with the first one, and what is open
\* is still named by the rest, or has failed to close, or is nobody's.
LEMMA ClosingSteps ==
    ASSUME LifeInv, Closing, Forgets, GoesOn, UNCHANGED <<settings, work, overwritten, keyErrors>>,
           \/ handles' = handles \ Closes(Head(agenda)) /\ UNCHANGED failedCloses
           \/ failedCloses' = failedCloses \cup Closes(Head(agenda)) /\ UNCHANGED handles
    PROVE  LifeInv'
  <1> DEFINE name == Head(agenda)
             rest == {Tail(agenda)[i] : i \in 1..Len(Tail(agenda))}
  <1>1. /\ agenda \in Seq(Names) /\ agenda # <<>>
        /\ Tail(agenda) \in Seq(Names) /\ Len(agenda) # 1 => Tail(agenda) # <<>>
        /\ Len(agenda) = 1 => Left = {name}
        /\ Left \subseteq {name} \cup rest
    BY AgendaShortens DEF LifeInv, LifeType
  <1>2. ~worker'
    BY DEF Forgets, LifeInv, WriterInv, Closing
  <1>3. \/ Len(agenda) = 1 /\ life' \in {"stopped", "abandoned"} /\ agenda' = <<>>
        \/ Len(agenda) # 1 /\ agenda' = Tail(agenda) /\ life' = life
    BY DEF GoesOn, Ends
  <1>4. LifeType'
    <2>1. <<>> \in Seq(Names)
      OBVIOUS
    <2>2. work' = work
      OBVIOUS
    <2>3. CASE Len(agenda) = 1
      BY <1>3, <2>1, <2>2, <2>3 DEF LifeInv, LifeType, Closing
    <2>4. CASE Len(agenda) # 1
      <3>1. /\ agenda' \in Seq(Names) /\ agenda' # <<>> /\ life' = life
        BY <1>1, <1>3, <2>4
      <3> QED
        BY <2>2, <3>1 DEF LifeInv, LifeType
    <2> QED
      BY <2>3, <2>4
  <1>5. WriterInv'
    BY <1>2, <1>3 DEF WriterInv, Closing
  <1>6. ClientInv'
    BY <1>3 DEF LifeInv, ClientInv, Closing, Forgets
  <1>7. KeysInv'
    BY <1>3 DEF LifeInv, KeysInv, Closing
  <1>8. ASSUME NEW h \in handles'
        PROVE  \/ h \in failedCloses' \cup {"openai"} \cup overwritten'
               \/ h \in rest \cap {"engine", "redis"} /\ Len(agenda) # 1
               \/ h \in Client /\ "documents" \in rest /\ Client' = Client /\ Len(agenda) # 1
    <2>1. h \in handles /\ (h \in Closes(name) => h \in failedCloses')
      BY <1>8
    <2>2. failedCloses \subseteq failedCloses' /\ overwritten' = overwritten
      OBVIOUS
    <2>3. \/ h \in failedCloses \cup {"openai"} \cup overwritten
          \/ h \in Left \cap {"engine", "redis"}
          \/ h \in Client /\ "documents" \in Left
      BY <2>1 DEF LifeInv, OpenInv
    <2>4. CASE h \in Left \cap {"engine", "redis"}
      <3>1. CASE h = name
        <4>1. h \in Closes(name)
          BY <2>4, <3>1 DEF Closes
        <4> QED
          BY <2>1, <4>1
      <3>2. CASE h # name
        BY <1>1, <2>4, <3>2
      <3> QED
        BY <3>1, <3>2
    <2>5. CASE h \in Client /\ "documents" \in Left
      <3>1. CASE name = "documents"
        <4>1. h \in Closes(name)
          BY <2>5, <3>1 DEF Closes, Client
        <4> QED
          BY <2>1, <4>1
      <3>2. CASE name # "documents"
        <4>1. client' = client
          BY <3>2 DEF Forgets
        <4> QED
          BY <1>1, <2>5, <3>2, <4>1 DEF Client
      <3> QED
        BY <3>1, <3>2
    <2> QED
      BY <2>2, <2>3, <2>4, <2>5
  <1>9. OpenInv'
    <2> HIDE DEF name, rest
    <2>1. CASE Len(agenda) = 1
      <3>1. handles' \subseteq failedCloses' \cup {"openai"} \cup overwritten'
        BY <1>8, <2>1
      <3> QED
        BY <1>3, <2>1, <3>1 DEF OpenInv, Closing
    <2>2. CASE Len(agenda) # 1
      <3>1. rest = Left' /\ life' = life
        BY <1>3, <2>2 DEF Left, rest
      <3> QED
        BY <1>8, <3>1 DEF OpenInv, Closing
    <2> QED
      BY <2>1, <2>2
  <1> QED
    BY <1>4, <1>5, <1>6, <1>7, <1>9 DEF LifeInv

LEMMA LifeSteps == LifeInv /\ [LifeNext]_lifeVars => LifeInv'
  <1> SUFFICES ASSUME LifeInv, [LifeNext]_lifeVars PROVE LifeInv'
    OBVIOUS
  <1> USE DEF LifeInv
  <1>1. CASE Load
    <2>1. LifeType'
      BY <1>1, AgendasAre DEF Load, LifeType, Closing
    <2>2. WriterInv' /\ ClientInv' /\ OpenInv' /\ KeysInv'
      BY <1>1 DEF Load, WriterInv, ClientInv, OpenInv, KeysInv, Closing, Client
    <2> QED
      BY <2>1, <2>2
  <1>2. CASE Construct
    <2> DEFINE name == Head(agenda)
    <2>1. /\ agenda \in Seq(Names) /\ Tail(agenda) \in Seq(Names)
          /\ Len(agenda) # 1 => Tail(agenda) # <<>>
          /\ life = "building"
      BY <1>2, AgendaShortens DEF Construct, LifeType
    <2>2. CASE Raises(name)
      <3>1. life' = "unbuilt" /\ agenda' = <<>> /\ handles' = handles /\ <<>> \in Seq(Names)
        BY <1>2, <2>2 DEF Construct
      <3>2. LifeType'
        BY <1>2, <3>1 DEF Construct, LifeType, Closing
      <3> QED
        BY <1>2, <2>1, <3>1, <3>2
        DEF Construct, WriterInv, ClientInv, OpenInv, KeysInv, Closing, Client
    <2>3. CASE ~Raises(name)
      <3>1. /\ handles' = handles \cup Opens(name)
            /\ \/ Len(agenda) = 1 /\ life' = "starting" /\ agenda' = Checks
               \/ Len(agenda) # 1 /\ life' = life /\ agenda' = Tail(agenda)
        BY <1>2, <2>3 DEF Construct
      <3>2. "engine" \in handles'
        BY <2>1, <3>1, AgendasAre DEF WriterInv, Opens
      <3>3. Opens(name) \subseteq {"engine", "redis", "openai"}
        BY DEF Opens
      <3>4. LifeType'
        BY <1>2, <2>1, <3>1, AgendasAre DEF Construct, LifeType, Closing
      <3> HIDE DEF name
      <3> QED
        BY <1>2, <2>1, <3>1, <3>2, <3>3, <3>4
        DEF Construct, WriterInv, ClientInv, OpenInv, KeysInv, Closing, Client
    <2> QED
      BY <2>2, <2>3
  <1>3. CASE StartUp
    <2>1. /\ agenda \in Seq(Names) /\ Tail(agenda) \in Seq(Names)
          /\ Len(agenda) # 1 => Tail(agenda) # <<>>
          /\ life = "starting" /\ "engine" \in handles
      BY <1>3, AgendaShortens DEF StartUp, LifeType, WriterInv
    <2>2. CASE life' \in {"starting", "serving"}
      <3>1. LifeType'
        <4>1. \/ life' = "serving" /\ agenda' = <<>>
              \/ life' = "starting" /\ agenda' = Tail(agenda) /\ Tail(agenda) # <<>>
          BY <1>3, <2>1, <2>2 DEF StartUp
        <4>2. work' = work
          BY <1>3 DEF StartUp
        <4>3. <<>> \in Seq(Names)
          OBVIOUS
        <4> QED
          BY <2>1, <4>1, <4>2, <4>3 DEF LifeType, Closing
      <3> QED
        BY <1>3, <2>1, <2>2, <3>1
        DEF StartUp, WriterInv, ClientInv, OpenInv, KeysInv, Closing, Client
    <2>3. CASE life' = "giving up" /\ agenda' = Closers
      <3>1. LifeType' /\ WriterInv'
        BY <1>3, <2>1, <2>3, ClosersNameAll DEF StartUp, LifeType, WriterInv, Closing
      <3>2. ClientInv' /\ KeysInv'
        BY <1>3, <2>1, <2>3 DEF StartUp, ClientInv, KeysInv
      <3>3. OpenInv'
        <4>1. /\ {"engine", "redis"} \subseteq Left'
              /\ settings.documents => "documents" \in Left'
          BY <2>3, ClosersNameAll DEF Left
        <4>2. /\ handles \subseteq {"engine", "redis", "openai"} \cup overwritten \cup Client
              /\ ~settings.documents => client = NoClient
          BY <2>1 DEF OpenInv, ClientInv, Closing
        <4>3. UNCHANGED <<settings, handles, client, overwritten, failedCloses>>
          BY <1>3 DEF StartUp
        <4> QED
          BY <2>3, <4>1, <4>2, <4>3 DEF OpenInv, Client, Closing
      <3> QED
        BY <3>1, <3>2, <3>3
    <2> QED
      BY <1>3, <2>1, <2>2, <2>3 DEF StartUp
  <1>4. CASE Asks
    <2>1. /\ Probe \in Tasks /\ Untouched /\ life = "serving"
          /\ UNCHANGED <<handles, client, overwritten, keyErrors>>
          /\ \/ settings.documents /\ Goes(Probe, "asked")
             \/ Goes(Probe, "over")
      BY <1>4 DEF Asks, Tasks
    <2>2. LifeType' /\ ClientInv'
      BY <2>1, TaskGoes
    <2> QED
      BY <2>1, <2>2 DEF WriterInv, OpenInv, KeysInv, Closing, Client, Untouched
  <1>5. ASSUME NEW u \in Users, Seal(u) PROVE LifeInv'
    <2>1. PICK ring \in {"vault"} \cup (IF settings.documents THEN {"document"} ELSE {}) :
            IF Unusable(settings[ring])
            THEN keyErrors' = keyErrors \cup {ring} /\ Goes(u, "over")
            ELSE Goes(u, IF ring = "document" THEN "asked" ELSE "over") /\ UNCHANGED keyErrors
      BY <1>5 DEF Seal
    <2>2. /\ u \in Tasks /\ Untouched /\ life = "serving"
          /\ UNCHANGED <<handles, client, overwritten>>
      BY <1>5 DEF Seal, Tasks
    <2>3. Goes(u, "over") \/ (settings.documents /\ Goes(u, "asked"))
      <3> DEFINE step == IF ring = "document" THEN "asked" ELSE "over"
      <3>1. Goes(u, "over") \/ Goes(u, step)
        BY <2>1
      <3>2. step = "over" \/ (step = "asked" /\ settings.documents)
        OBVIOUS
      <3> HIDE DEF step
      <3> QED
        BY <3>1, <3>2 DEF Goes
    <2>4. LifeType' /\ ClientInv'
      BY <2>2, <2>3, TaskGoes
    <2>5. settings.production => keyErrors' = keyErrors
      <3>1. settings.production => ~Unusable(settings[ring])
        BY <2>1, <2>2, AcceptedSeals DEF KeysInv
      <3> QED
        BY <2>1, <3>1
    <2> QED
      BY <2>2, <2>4, <2>5 DEF WriterInv, OpenInv, KeysInv, Closing, Client, Untouched
  <1>6. ASSUME NEW t \in Tasks, Ready(t) \/ Opened(t) \/ Over(t) PROVE LifeInv'
    <2>1. /\ Untouched /\ work[t] \notin {"waiting", "over"} /\ UNCHANGED keyErrors
          /\ \E step \in {"opening", "using", "over"} : Goes(t, step)
      BY <1>6 DEF Ready, Opened, Over
    <2>2. life = "serving" /\ settings.documents
      BY <2>1 DEF ClientInv
    <2>3. LifeType' /\ ClientInv'
      BY <2>1, <2>2, TaskGoes
    <2>4. CASE Opened(t)
      <3>1. handles' = handles \cup {t} /\ client' = t /\ overwritten' = overwritten \cup Client
        BY <2>4 DEF Opened, Client
      <3>2. t # NoClient
        BY LifeAssumption
      <3> QED
        BY <2>1, <2>2, <2>3, <3>1, <3>2
        DEF WriterInv, OpenInv, KeysInv, Closing, Client, Untouched
    <2>5. CASE ~Opened(t)
      <3>1. UNCHANGED <<handles, client, overwritten>>
        BY <1>6, <2>5 DEF Ready, Over
      <3> QED
        BY <2>1, <2>2, <2>3, <3>1
        DEF WriterInv, OpenInv, KeysInv, Closing, Client, Untouched
    <2> QED
      BY <2>4, <2>5
  <1>7. CASE Stop
    <2>1. life = "serving" /\ life' = "stopping" /\ agenda' = Closers /\ "engine" \in handles
      BY <1>7 DEF Stop, WriterInv
    <2>2. LifeType' /\ WriterInv'
      BY <1>7, <2>1, ClosersNameAll DEF Stop, LifeType, WriterInv, Closing
    <2>3. ClientInv' /\ KeysInv'
      BY <1>7, <2>1 DEF Stop, ClientInv, KeysInv
    <2>4. OpenInv'
      <3>1. /\ {"engine", "redis"} \subseteq Left'
            /\ settings.documents => "documents" \in Left'
        BY <2>1, ClosersNameAll DEF Left
      <3>2. /\ handles \subseteq {"engine", "redis", "openai"} \cup overwritten \cup Client
            /\ ~settings.documents => client = NoClient
        BY <2>1 DEF OpenInv, ClientInv, Closing
      <3>3. UNCHANGED <<settings, handles, client, overwritten, failedCloses>>
        BY <1>7 DEF Stop
      <3> QED
        BY <2>1, <3>1, <3>2, <3>3 DEF OpenInv, Client, Closing
    <2> QED
      BY <2>2, <2>3, <2>4
  <1>8. CASE CloseNext
    BY <1>8, ClosingSteps DEF CloseNext
  <1>9. CASE CloseFails
    BY <1>9, ClosingSteps DEF CloseFails
  <1>10. CASE UNCHANGED lifeVars
    <2>1. LifeType' /\ WriterInv'
      BY <1>10 DEF lifeVars, LifeType, WriterInv, Closing
    <2>2. ClientInv' /\ KeysInv'
      BY <1>10 DEF lifeVars, ClientInv, KeysInv
    <2>3. OpenInv'
      <3>1. /\ Left' = Left /\ Client' = Client
            /\ UNCHANGED <<life, handles, overwritten, failedCloses>>
        BY <1>10 DEF lifeVars, Left, Client
      <3> QED
        BY <3>1 DEF OpenInv, Closing
    <2> QED
      BY <2>1, <2>2, <2>3
  <1> QED
    BY <1>1, <1>2, <1>3, <1>4, <1>5, <1>6, <1>7, <1>8, <1>9, <1>10 DEF LifeNext

\* Whatever of its closers fail, a process that has stopped leaves open only what a closer
\* could not close, the provider's pool and the clients that first users opened at once;
\* and its writer never outlives its engine (stop_services, app/api/composition.py).
THEOREM LittleStaysOpen == LifeSpec => []WhatStaysOpen
  <1>1. LifeInv => WhatStaysOpen
    BY DEF LifeInv, WriterInv, OpenInv, WhatStaysOpen, Closing
  <1> QED
    BY LifeStarts, LifeSteps, <1>1, PTL DEF LifeSpec

\* Whatever the environment says, what production's validators accept has a key for
\* whatever is sealed (Settings.production_problems, app/vault/keys.py).
THEOREM AcceptedProductionSeals == LifeSpec => []ProductionSeals
  <1>1. LifeInv => ProductionSeals
    BY DEF LifeInv, KeysInv, ProductionSeals
  <1> QED
    BY LifeStarts, LifeSteps, <1>1, PTL DEF LifeSpec
=============================================================================

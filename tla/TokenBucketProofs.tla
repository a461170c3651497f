------------------------- MODULE TokenBucketProofs -------------------------
(***************************************************************************)
(* Theorems about TokenBucket, for any number of requests, any capacity,   *)
(* any rate and any expiry that is no shorter than a full refill, and      *)
(* without a bound on time.                                                *)
(***************************************************************************)
EXTENDS TokenBucket, Integers, TLAPS

\* A full bucket holds a token, and a token costs something.
LEMMA FullFacts == Full \in Nat /\ Cost \in Nat /\ 0 < Cost /\ Cost <= Full
  BY BucketAssumption DEF Full

Buckets == [level : Nat, stamp : Nat]

BucketTypeOK ==
  /\ bucket \in Buckets \cup {NoBucket}
  /\ clock \in Nat /\ idle \in Nat /\ since \in Nat
  /\ sentAt \in [Requests -> Nat \cup {NotAsked}]
  /\ window \in [open : BOOLEAN, ticks : Nat, spent : Nat, late : Nat]

\* No request is ahead of the clock, a bucket is never more than full, and it has
\* aged at least as long as nobody has touched it.  Nothing is counted before
\* counting begins.
Aging ==
  /\ ~ window.open => window.ticks = 0 /\ window.spent = 0 /\ window.late = 0
  /\ \A r \in Requests : sentAt[r] # NotAsked => sentAt[r] <= clock
  /\ bucket # NoBucket =>
       /\ bucket.level <= Full
       /\ bucket.stamp + idle <= clock

\* What a request that takes the time now would find, without the cap.
Worth == bucket.level + clock - bucket.stamp

\* What is spent and what could still be spent at once are covered.  An absent
\* bucket, or one worth more, can spend a full one.
Covered ==
  IF bucket = NoBucket \/ Worth >= Full
  THEN window.spent <= window.ticks + window.late
  ELSE window.spent + Worth <= Full + window.ticks + window.late

\* Since the last admission the bucket has gained a unit a tick.
Gaining == bucket # NoBucket => since <= Worth

Inv == BucketTypeOK /\ Aging /\ Covered /\ Gaining

----------------------------------------------------------------------------

\* The bucket after a request: what the script computes, in numbers.
LEMMA TakeFacts ==
  ASSUME Inv, NEW r \in Requests, Take(r)
  PROVE  /\ sentAt[r] \in Nat /\ sentAt[r] <= clock
         /\ Refilled(sentAt[r]) \in Nat
         /\ Refilled(sentAt[r]) <= Full
         /\ bucket = NoBucket => Refilled(sentAt[r]) = Full
         /\ bucket # NoBucket =>
              /\ bucket \in Buckets
              /\ bucket.stamp <= sentAt[r] =>
                   Refilled(sentAt[r]) <= bucket.level + sentAt[r] - bucket.stamp
              /\ sentAt[r] < bucket.stamp => Refilled(sentAt[r]) = bucket.level
              /\ Refilled(sentAt[r]) < Full =>
                   Refilled(sentAt[r]) >= bucket.level
              /\ Refilled(sentAt[r]) < Full /\ bucket.stamp <= sentAt[r] =>
                   Refilled(sentAt[r]) = bucket.level + sentAt[r] - bucket.stamp
         /\ bucket' = [level |-> LeftOver(r), stamp |-> sentAt[r]]
         /\ LeftOver(r) = IF Admits(r) THEN Refilled(sentAt[r]) - Cost
                          ELSE Refilled(sentAt[r])
         /\ Admits(r) <=> Refilled(sentAt[r]) >= Cost
         /\ LeftOver(r) \in Nat
<1>1. sentAt[r] \in Nat /\ sentAt[r] <= clock
  BY DEF Take, Inv, BucketTypeOK, Aging
<1>2. bucket # NoBucket =>
        /\ bucket \in Buckets
        /\ bucket.level \in Nat /\ bucket.stamp \in Nat /\ bucket.level <= Full
  BY DEF Inv, BucketTypeOK, Aging, Buckets
<1>3. /\ Refilled(sentAt[r]) \in Nat
      /\ Refilled(sentAt[r]) <= Full
      /\ bucket = NoBucket => Refilled(sentAt[r]) = Full
  BY <1>1, <1>2, FullFacts DEF Refilled, Elapsed
<1>4. bucket # NoBucket =>
        /\ bucket.stamp <= sentAt[r] =>
             Refilled(sentAt[r]) <= bucket.level + sentAt[r] - bucket.stamp
        /\ sentAt[r] < bucket.stamp => Refilled(sentAt[r]) = bucket.level
        /\ Refilled(sentAt[r]) < Full => Refilled(sentAt[r]) >= bucket.level
        /\ Refilled(sentAt[r]) < Full /\ bucket.stamp <= sentAt[r] =>
             Refilled(sentAt[r]) = bucket.level + sentAt[r] - bucket.stamp
  BY <1>1, <1>2, FullFacts DEF Refilled, Elapsed
<1>5. /\ bucket' = [level |-> LeftOver(r), stamp |-> sentAt[r]]
      /\ LeftOver(r) = IF Admits(r) THEN Refilled(sentAt[r]) - Cost
                       ELSE Refilled(sentAt[r])
      /\ Admits(r) <=> Refilled(sentAt[r]) >= Cost
  BY DEF Take, LeftOver, Admits
<1>6. LeftOver(r) \in Nat
  BY <1>3, <1>5, FullFacts
<1> QED
  BY <1>1, <1>2, <1>3, <1>4, <1>5, <1>6

\* A full bucket that nobody has seen meets the invariant.
LEMMA InitInv == BucketInit => Inv
  BY BucketAssumption, FullFacts
  DEF BucketInit, Inv, BucketTypeOK, Aging, Covered, Gaining

\* Requests leave a bucket whose worth has fallen by what they spent, but for
\* what a late one may be credited again.
LEMMA TakeKeeps ==
  ASSUME Inv, NEW r \in Requests, Take(r)
  PROVE  Inv'
<1> DEFINE now == sentAt[r]
           got == Refilled(sentAt[r])
           left == LeftOver(r)
<1>1. /\ now \in Nat /\ now <= clock /\ clock \in Nat
      /\ got \in Nat /\ got <= Full /\ left \in Nat /\ left <= got
  BY TakeFacts, FullFacts DEF Inv, BucketTypeOK
<1>2. bucket' = [level |-> left, stamp |-> now] /\ clock' = clock /\ idle' = 0
  BY TakeFacts DEF Take
<1>3. bucket' \in Buckets /\ bucket' # NoBucket /\ bucket'.level = left /\ bucket'.stamp = now
  BY <1>1, <1>2, BucketAssumption DEF Buckets
<1>4. since' \in Nat /\ sentAt' \in [Requests -> Nat \cup {NotAsked}]
  BY DEF Take, Inv, BucketTypeOK
<1>5. PICK cost \in {0, Cost} : /\ cost = IF Admits(r) THEN Cost ELSE 0
                                /\ left = got - cost
  BY <1>1, TakeFacts, FullFacts
<1>6. /\ window.ticks \in Nat /\ window.spent \in Nat /\ window.late \in Nat
      /\ window.open \in BOOLEAN
      /\ window \in [open : BOOLEAN, ticks : Nat, spent : Nat, late : Nat]
  BY DEF Inv, BucketTypeOK
<1>7. window' = IF window.open
                THEN [window EXCEPT !.spent = window.spent + cost,
                                    !.late = window.late + (clock - now)]
                ELSE window
  <2>1. window' = IF window.open
                  THEN [window EXCEPT !.spent = IF Admits(r) THEN window.spent + Cost ELSE window.spent,
                                      !.late = window.late + (clock - now)]
                  ELSE window
    BY <1>6 DEF Take
  <2>2. (IF Admits(r) THEN window.spent + Cost ELSE window.spent) = window.spent + cost
    BY <1>5, <1>6, FullFacts
  <2> QED
    BY <2>1, <2>2
<1>8. cost \in Nat /\ window.spent + cost \in Nat /\ window.late + (clock - now) \in Nat
  BY <1>1, <1>5, <1>6, FullFacts
<1>9. BucketTypeOK'
  <2>1. window' \in [open : BOOLEAN, ticks : Nat, spent : Nat, late : Nat]
    BY <1>6, <1>7, <1>8
  <2> QED
    BY <1>1, <1>2, <1>3, <1>4, <2>1 DEF BucketTypeOK
<1>10. Aging'
  <2>1. \A q \in Requests : sentAt'[q] # NotAsked => sentAt'[q] <= clock'
    BY DEF Take, Inv, BucketTypeOK, Aging
  <2>2. ~ window'.open => window'.ticks = 0 /\ window'.spent = 0 /\ window'.late = 0
    BY <1>6, <1>7 DEF Inv, Aging
  <2>3. bucket'.level <= Full /\ bucket'.stamp + idle' <= clock'
    BY <1>1, <1>2, <1>3, FullFacts
  <2> QED
    BY <2>1, <2>2, <2>3 DEF Aging
<1>11. Worth' = left + clock - now /\ Worth' \in Int
  BY <1>1, <1>2, <1>3 DEF Worth
<1>12. bucket # NoBucket => /\ bucket.level \in Nat /\ bucket.stamp \in Nat
                            /\ bucket.level <= Full /\ Worth = bucket.level + clock - bucket.stamp
                            /\ bucket.stamp <= clock
  BY DEF Inv, BucketTypeOK, Aging, Buckets, Worth
<1>13. Covered'
  <2>1. CASE ~ window.open
    <3>1. window'.ticks = 0 /\ window'.spent = 0 /\ window'.late = 0
      BY <1>6, <1>7, <2>1 DEF Inv, Aging
    <3>2. Worth' >= Full \/ Worth' < Full
      BY <1>11, FullFacts
    <3>3. 0 + Worth' <= Full + 0 + 0 \/ Worth' >= Full
      BY <1>11, FullFacts
    <3>4. 0 <= 0 + 0
      OBVIOUS
    <3> QED
      BY <3>1, <3>3, <3>4 DEF Covered
  <2>2. CASE window.open
    <3>1. /\ window'.ticks = window.ticks /\ window'.spent = window.spent + cost
          /\ window'.late = window.late + (clock - now)
      BY <1>6, <1>7, <2>2
    <3>4. ASSUME window.spent + cost + Worth' <= Full + window.ticks + (window.late + (clock - now))
          PROVE  Covered'
      <4>1. window'.spent + Worth' <= Full + window'.ticks + window'.late
        BY <3>1, <3>4
      <4>2. window'.spent \in Nat /\ window'.ticks \in Nat /\ window'.late \in Nat
        BY <1>6, <1>8, <3>1
      <4>3. Worth' >= Full => window'.spent <= window'.ticks + window'.late
        BY <1>11, <4>1, <4>2, FullFacts
      <4> QED
        BY <1>3, <4>1, <4>3 DEF Covered
    <3>2. CASE bucket = NoBucket \/ Worth >= Full
      <4>1. window.spent <= window.ticks + window.late
        BY <3>2 DEF Inv, Covered
      <4>2. left + cost <= Full
        BY <1>1, <1>5, <1>8
      <4>3. window.spent + cost + (left + clock - now) <= Full + window.ticks + (window.late + (clock - now))
        BY <1>1, <1>6, <1>8, <4>1, <4>2, FullFacts
      <4> QED
        BY <1>11, <3>4, <4>3
    <3>3. CASE bucket # NoBucket /\ Worth < Full
      <4>1. window.spent + Worth <= Full + window.ticks + window.late
        BY <1>1, <1>12, <3>3, FullFacts DEF Inv, Covered
      <4>2. got + (clock - now) <= Worth + (clock - now)
        BY <1>1, <1>12, <3>3, TakeFacts
      <4>3. window.spent + cost + (left + clock - now) <= Full + window.ticks + (window.late + (clock - now))
        BY <1>1, <1>5, <1>6, <1>8, <1>12, <3>3, <4>1, <4>2, FullFacts
      <4> QED
        BY <1>11, <3>4, <4>3
    <3> QED
      BY <1>1, <1>12, <3>2, <3>3, FullFacts
  <2> QED
    BY <1>6, <2>1, <2>2
<1>14. Gaining'
  <2>1. CASE Admits(r)
    <3>1. since' = 0
      BY <2>1 DEF Take
    <3> QED
      BY <1>1, <1>11, <3>1 DEF Gaining
  <2>2. CASE ~ Admits(r)
    <3>1. since' = since /\ since \in Nat /\ got < Cost /\ left = got
      <4>1. since' = since /\ since \in Nat
        BY <2>2 DEF Take, Inv, BucketTypeOK
      <4>2. left = got
        BY <2>2 DEF LeftOver
      <4>3. got < Cost
        BY <1>1, <2>2, FullFacts DEF Admits
      <4> QED
        BY <4>1, <4>2, <4>3
    <3>2. bucket # NoBucket /\ got < Full
      BY <1>1, <3>1, TakeFacts, FullFacts
    <3>3. Worth <= got + clock - now
      BY <1>1, <1>12, <3>2, TakeFacts
    <3>4. since <= Worth
      BY <3>2 DEF Inv, Gaining
    <3> QED
      BY <1>1, <1>11, <1>12, <3>1, <3>2, <3>3, <3>4 DEF Gaining
  <2> QED
    BY <2>1, <2>2
<1> QED
  BY <1>9, <1>10, <1>13, <1>14 DEF Inv

\* A tick adds one to the worth of a bucket and one to what the window allows; a
\* key that expires was a full bucket.
LEMMA TickKeeps ==
  ASSUME Inv, BucketTick
  PROVE  Inv'
<1>1. /\ clock \in Nat /\ idle \in Nat /\ since \in Nat /\ window.open \in BOOLEAN
      /\ window.ticks \in Nat /\ window.spent \in Nat /\ window.late \in Nat
      /\ window \in [open : BOOLEAN, ticks : Nat, spent : Nat, late : Nat]
  BY DEF Inv, BucketTypeOK
<1>2. /\ clock' = clock + 1 /\ since' = since + 1 /\ sentAt' = sentAt
      /\ window' = IF window.open THEN [window EXCEPT !.ticks = window.ticks + 1] ELSE window
      /\ bucket' = IF idle + 1 >= ExpireTicks THEN NoBucket ELSE bucket
      /\ idle' = IF bucket = NoBucket \/ idle + 1 >= ExpireTicks THEN 0 ELSE idle + 1
  BY <1>1 DEF BucketTick
<1>3. bucket # NoBucket => /\ bucket \in Buckets /\ bucket.level \in Nat /\ bucket.stamp \in Nat
                           /\ bucket.level <= Full /\ bucket.stamp + idle <= clock
                           /\ Worth = bucket.level + clock - bucket.stamp
                           /\ since <= Worth
  BY DEF Inv, BucketTypeOK, Aging, Gaining, Buckets, Worth
<1>4. BucketTypeOK'
  <2>1. window' \in [open : BOOLEAN, ticks : Nat, spent : Nat, late : Nat]
    BY <1>1, <1>2
  <2> QED
    BY <1>1, <1>2, <2>1 DEF Inv, BucketTypeOK
<1>5. Aging'
  <2>1. \A q \in Requests : sentAt'[q] # NotAsked => sentAt'[q] <= clock'
    <3> SUFFICES ASSUME NEW q \in Requests, sentAt[q] # NotAsked PROVE sentAt[q] <= clock + 1
      BY <1>2
    <3>1. sentAt[q] \in Nat /\ sentAt[q] <= clock
      BY DEF Inv, BucketTypeOK, Aging
    <3> QED
      BY <1>1, <3>1
  <2>2. ~ window'.open => window'.ticks = 0 /\ window'.spent = 0 /\ window'.late = 0
    BY <1>1, <1>2 DEF Inv, Aging
  <2>3. bucket' # NoBucket => bucket'.level <= Full /\ bucket'.stamp + idle' <= clock'
    BY <1>1, <1>2, <1>3
  <2> QED
    BY <2>1, <2>2, <2>3 DEF Aging
<1>6. bucket' # NoBucket => bucket' = bucket /\ Worth' = Worth + 1
  BY <1>1, <1>2, <1>3 DEF Worth
<1>7. Gaining'
  BY <1>1, <1>2, <1>3, <1>6 DEF Gaining
<1>8. Covered'
  <2>1. CASE ~ window.open
    <3>1. window'.ticks = 0 /\ window'.spent = 0 /\ window'.late = 0
      BY <1>1, <1>2, <2>1 DEF Inv, Aging
    <3>2. bucket' # NoBucket => Worth' \in Int
      BY <1>1, <1>2, <1>3, <1>6
    <3> QED
      BY <3>1, <3>2, FullFacts DEF Covered
  <2>2. CASE window.open
    <3>1. /\ window'.ticks = window.ticks + 1 /\ window'.spent = window.spent
          /\ window'.late = window.late
      BY <1>1, <1>2, <2>2
    <3>2. CASE bucket = NoBucket \/ Worth >= Full
      <4>1. window.spent <= window.ticks + window.late
        BY <3>2 DEF Inv, Covered
      <4>2. bucket' = NoBucket \/ Worth' >= Full
        BY <1>1, <1>2, <1>3, <1>6, <3>2, FullFacts
      <4> QED
        BY <1>1, <3>1, <4>1, <4>2 DEF Covered
    <3>3. CASE bucket # NoBucket /\ Worth < Full
      <4>1. window.spent + Worth <= Full + window.ticks + window.late
        BY <1>1, <1>3, <3>3, FullFacts DEF Inv, Covered
      <4>2. bucket' = NoBucket => Worth + 1 >= Full
        <5>1. bucket' = NoBucket => idle + 1 >= ExpireTicks
          BY <1>2, <3>3
        <5> QED
          BY <1>1, <1>3, <3>3, <5>1, FullFacts, BucketAssumption
      <4>3. window.spent + Worth + 1 <= Full + (window.ticks + 1) + window.late
        BY <1>1, <1>3, <3>3, <4>1, FullFacts
      <4>4. CASE bucket' = NoBucket
        BY <1>1, <1>3, <3>1, <3>3, <4>2, <4>3, <4>4, FullFacts DEF Covered
      <4>5. CASE bucket' # NoBucket
        BY <1>1, <1>3, <1>6, <3>1, <3>3, <4>3, <4>5, FullFacts DEF Covered
      <4> QED
        BY <4>4, <4>5
    <3> QED
      BY <1>1, <1>3, <3>2, <3>3, FullFacts
  <2> QED
    BY <1>1, <2>1, <2>2
<1> QED
  BY <1>4, <1>5, <1>7, <1>8 DEF Inv

\* Sending a request and beginning to count change neither side.
LEMMA OthersKeep ==
  ASSUME Inv, Watch \/ (\E r \in Requests : Ask(r)) \/ UNCHANGED bucketVars
  PROVE  Inv'
<1>1. CASE Watch
  <2>1. window' = [window EXCEPT !.open = TRUE] /\ UNCHANGED <<bucket, clock, idle, sentAt, since>>
    BY <1>1 DEF Watch
  <2>2. /\ window \in [open : BOOLEAN, ticks : Nat, spent : Nat, late : Nat]
        /\ window.ticks = window'.ticks /\ window.spent = window'.spent /\ window.late = window'.late
        /\ window'.open
    BY <2>1 DEF Inv, BucketTypeOK
  <2> QED
    BY <2>1, <2>2 DEF Inv, BucketTypeOK, Aging, Covered, Gaining, Worth
<1>2. CASE \E r \in Requests : Ask(r)
  <2>1. PICK r \in Requests : Ask(r)
    BY <1>2
  <2>2. sentAt' \in [Requests -> Nat \cup {NotAsked}]
    BY <2>1 DEF Ask, Inv, BucketTypeOK
  <2>3. \A q \in Requests : sentAt'[q] # NotAsked => sentAt'[q] <= clock
    BY <2>1 DEF Ask, Inv, BucketTypeOK, Aging
  <2> QED
    BY <2>1, <2>2, <2>3 DEF Ask, Inv, BucketTypeOK, Aging, Covered, Gaining, Worth
<1>3. CASE UNCHANGED bucketVars
  BY <1>3 DEF bucketVars, Inv, BucketTypeOK, Aging, Covered, Gaining, Worth
<1> QED
  BY <1>1, <1>2, <1>3

\* The invariant holds throughout.
LEMMA InvHolds == BucketSpec => []Inv
<1>1. Inv /\ [BucketNext]_bucketVars => Inv'
  BY TakeKeeps, TickKeeps, OthersKeep DEF BucketNext
<1> QED
  BY <1>1, InitInv, PTL DEF BucketSpec

----------------------------------------------------------------------------

\* From any moment on no more is admitted than a full bucket, what time refills,
\* and what late requests are credited twice.
THEOREM AdmissionsAreBounded == BucketSpec => []AdmissionsBounded
<1>1. Inv => AdmissionsBounded
  <2> SUFFICES ASSUME Inv PROVE window.spent <= Full + window.ticks + window.late
    BY DEF AdmissionsBounded
  <2>1. window.ticks \in Nat /\ window.spent \in Nat /\ window.late \in Nat /\ clock \in Nat /\ idle \in Nat
    BY DEF Inv, BucketTypeOK
  <2>2. CASE bucket = NoBucket \/ Worth >= Full
    BY <2>1, <2>2, FullFacts DEF Inv, Covered
  <2>3. CASE bucket # NoBucket /\ ~ Worth >= Full
    <3>1. window.spent + Worth <= Full + window.ticks + window.late
      BY <2>3 DEF Inv, Covered
    <3>2. Worth \in Nat
      <4>1. bucket.level \in Nat /\ bucket.stamp \in Nat /\ bucket.stamp + idle <= clock
        BY <2>3 DEF Inv, BucketTypeOK, Aging, Buckets
      <4> QED
        BY <2>1, <4>1 DEF Worth
    <3> QED
      BY <2>1, <3>1, <3>2, FullFacts
  <2> QED
    BY <2>2, <2>3
<1> QED
  BY <1>1, InvHolds, PTL

\* A refusal means that a user was admitted less than a token's refill ago.
THEOREM RefusalsAreBrief == BucketSpec => RefusedOnlyBriefly
<1>1. ASSUME Inv, NEW r \in Requests, Take(r), ~ Admits(r)
      PROVE  since < Cost + (clock - sentAt[r])
  <2>1. /\ sentAt[r] \in Nat /\ sentAt[r] <= clock /\ clock \in Nat /\ since \in Nat
        /\ Refilled(sentAt[r]) \in Nat /\ Refilled(sentAt[r]) < Cost
    BY <1>1, TakeFacts, FullFacts DEF Inv, BucketTypeOK
  <2>2. bucket # NoBucket /\ Refilled(sentAt[r]) < Full
    BY <1>1, <2>1, TakeFacts, FullFacts
  <2>3. /\ bucket.level \in Nat /\ bucket.stamp \in Nat /\ since <= Worth
        /\ Worth = bucket.level + clock - bucket.stamp
    BY <1>1, <2>2 DEF Inv, BucketTypeOK, Buckets, Gaining, Worth
  <2>4. Worth <= Refilled(sentAt[r]) + clock - sentAt[r]
    BY <1>1, <2>1, <2>2, <2>3, TakeFacts
  <2> QED
    BY <2>1, <2>3, <2>4, FullFacts
<1>2. Inv /\ [BucketNext]_bucketVars =>
        [\A r \in Requests :
           Take(r) /\ ~ Admits(r) => since < Cost + (clock - sentAt[r])]_bucketVars
  BY <1>1
<1> QED
  BY <1>2, InvHolds, PTL DEF BucketSpec, RefusedOnlyBriefly
============================================================================

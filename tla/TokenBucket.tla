---------------------------- MODULE TokenBucket ----------------------------
(***************************************************************************)
(* One user's token bucket (security/rate_limit.py), which decides whether *)
(* POST /research goes on (api/research.py).  A request takes the time in  *)
(* its API process, and the script that refills, decrements and stores the *)
(* bucket runs in Redis, in one step, when it gets there: requests may     *)
(* overtake each other.  The in-memory limiter runs the same steps under a *)
(* lock, with nothing between taking the time and using it.                *)
(*                                                                         *)
(* The bucket refills one unit a tick, and a token is Cost units.          *)
(***************************************************************************)
EXTENDS Naturals

CONSTANTS
  Requests,         \* requests of the user under way at a time
  Capacity,         \* rate_limit_research_capacity, in tokens
  Cost,             \* ticks that refill one token
  ExpireTicks,      \* EXPIRE of the key, 3600 seconds
  MaxTime,          \* bounds the clock
  NoBucket,         \* the key is not there
  NotAsked

Full == Capacity * Cost

\* An expired key is a full bucket, so it must not expire before it is full.
ASSUME BucketAssumption ==
  /\ Capacity \in Nat \ {0}
  /\ Cost \in Nat \ {0}
  /\ ExpireTicks \in Nat
  /\ Full <= ExpireTicks
  /\ NoBucket \notin [level : Nat, stamp : Nat]

VARIABLES
  bucket,           \* the hash ratelimit:<user>: level, in units, and stamp
  clock,
  idle,             \* ticks since the script last ran
  sentAt,           \* request -> the time it took, until its script has run
  since,            \* history: ticks since a request was admitted
  window            \* history: what happened since some moment, see Watch

bucketVars == <<bucket, clock, idle, sentAt, since, window>>

BucketInit ==
  /\ bucket = NoBucket
  /\ clock = 0
  /\ idle = 0
  /\ sentAt = [r \in Requests |-> NotAsked]
  /\ since = 0
  /\ window = [open |-> FALSE, ticks |-> 0, spent |-> 0, late |-> 0]

\* RedisRateLimiter.allow: the process reads its clock and sends the script.
Ask(r) ==
  /\ sentAt[r] = NotAsked
  /\ sentAt' = [sentAt EXCEPT ![r] = clock]
  /\ UNCHANGED <<bucket, clock, idle, since, window>>

Elapsed(now) == IF now > bucket.stamp THEN now - bucket.stamp ELSE 0

\* Broken variant: the bucket overflows.
RefilledBeyond(now) ==
  IF bucket = NoBucket THEN Full ELSE bucket.level + Elapsed(now)

\* What the bucket holds for a request that took the time now.
Refilled(now) ==
  IF bucket = NoBucket THEN Full
  ELSE IF bucket.level + Elapsed(now) > Full THEN Full
  ELSE bucket.level + Elapsed(now)

Admits(r) == Refilled(sentAt[r]) >= Cost

\* Broken variant: a refusal stores the time but not what was refilled.
LeftOverLost(r) ==
  IF Admits(r) THEN Refilled(sentAt[r]) - Cost
  ELSE IF bucket = NoBucket THEN Full ELSE bucket.level

LeftOver(r) ==
  IF Admits(r) THEN Refilled(sentAt[r]) - Cost ELSE Refilled(sentAt[r])

\* The script runs.  The stamp is the request's time, though an older one.
Take(r) ==
  /\ sentAt[r] # NotAsked
  /\ bucket' = [level |-> LeftOver(r), stamp |-> sentAt[r]]
  /\ idle' = 0
  /\ since' = IF Admits(r) THEN 0 ELSE since
  /\ window' = IF window.open
               THEN [window EXCEPT !.spent = IF Admits(r) THEN @ + Cost ELSE @,
                                   !.late = @ + (clock - sentAt[r])]
               ELSE window
  /\ sentAt' = [sentAt EXCEPT ![r] = NotAsked]
  /\ UNCHANGED clock

\* Time passes; Redis drops a key nobody has used for ExpireTicks.
BucketTick ==
  /\ clock < MaxTime
  /\ clock' = clock + 1
  /\ since' = since + 1
  /\ idle' = IF bucket = NoBucket \/ idle + 1 >= ExpireTicks THEN 0 ELSE idle + 1
  /\ bucket' = IF idle + 1 >= ExpireTicks THEN NoBucket ELSE bucket
  /\ window' = IF window.open THEN [window EXCEPT !.ticks = @ + 1] ELSE window
  /\ UNCHANGED sentAt

\* History: from here on admissions are counted.
Watch ==
  /\ ~ window.open
  /\ window' = [window EXCEPT !.open = TRUE]
  /\ UNCHANGED <<bucket, clock, idle, sentAt, since>>

BucketNext == BucketTick \/ Watch \/ \E r \in Requests : Ask(r) \/ Take(r)

BucketSpec == BucketInit /\ [][BucketNext]_bucketVars

----------------------------------------------------------------------------
(* Properties *)

\* Whenever one starts to count, no more is admitted than a full bucket and
\* what the time since refilled, and for requests that arrive late what their
\* lateness may be credited twice (rate_limit.py:78 and 87).  Idle time, an
\* expired key and refusals give nothing extra.
AdmissionsBounded == window.spent <= Full + window.ticks + window.late

\* A user who was last admitted as long ago as a token takes to refill is not
\* refused, however often the requests in between were (rate_limit.py:54, 87).
RefusedOnlyBriefly ==
  [][\A r \in Requests :
       Take(r) /\ ~ Admits(r) => since < Cost + (clock - sentAt[r])]_bucketVars
============================================================================

-------------------------- MODULE GatewayServeProofs -------------------------
(***************************************************************************)
(* Proofs about GatewayServe, for every set of requests, manifest, limit   *)
(* of goroutines, rate and number of faults: no client is let through      *)
(* faster than its rate and burst allow, the disk cache never holds part   *)
(* of a file, an answer never carries part of one, and a path leads to     *)
(* the entry it names.                                                     *)
(*                                                                         *)
(* The bound on the requests let through is not inductive, for it says     *)
(* nothing of what the bucket holds.  With the bucket's tokens added it is *)
(* (Budget): a request moves one from the one to the other, a tick adds to *)
(* both sides, and a cleanup drops only buckets that are full by then.     *)
(*                                                                         *)
(* What carries the claims about bytes is what each goroutine holds        *)
(* (JobOK): the bytes of the hash it was started for, in the form of the   *)
(* cache it reads and writes; and that the goroutines of a request match   *)
(* the parts of the entry it looked up (RequestOK).                        *)
(*                                                                         *)
(* Where a path leads is decided by the order of the attempts, each of     *)
(* which finds the least index of its kind (ResolveCases).                 *)
(***************************************************************************)
EXTENDS GatewayServe, FiniteSetTheorems, SequenceTheorems,
        WellFoundedInduction, TLAPS

-----------------------------------------------------------------------------
(* The rate limiter *)


BucketsInv ==
    /\ now \in Nat
    /\ DOMAIN buckets \subseteq Client
    /\ \A c \in DOMAIN buckets :
        /\ buckets[c] \in [tokens : 0 .. Burst, last : 0 .. now, lastSeen : 0 .. now]
        /\ buckets[c].last <= buckets[c].lastSeen

GrantsInv == grants \in [Client -> Seq(0 .. now)]

Budget ==
    \A c \in Client : \A s \in 0 .. now :
        Cardinality(GrantsSince(c, s)) + Tokens(c) <= Burst + Rate * (now - s)

LimiterInv == BucketsInv /\ GrantsInv /\ Budget

-----------------------------------------------------------------------------
(* Arithmetic, and the tokens of a bucket *)

\* A longer time gives at least as many tokens.
LEMMA Longer == ASSUME NEW a \in Nat, NEW b \in Nat, a <= b
                PROVE  /\ Rate * a \in Nat
                       /\ Rate * a <= Rate * b
<1>1. Rate \in Nat
  BY RateLimiterAssumption
<1>2. PICK k \in Nat : b = a + k
  <2>1. b - a \in Nat /\ b = a + (b - a)
    OBVIOUS
  <2> QED
    BY <2>1
<1>3. Rate * b = Rate * a + Rate * k
  BY <1>1, <1>2
<1>4. Rate * a \in Nat /\ Rate * k \in Nat
  BY <1>1
<1> QED
  BY <1>3, <1>4

\* One tick gives Rate tokens.
LEMMA OneMore == ASSUME NEW a \in Nat
                 PROVE  Rate * (a + 1) = Rate * a + Rate
BY RateLimiterAssumption

\* A bucket never holds more than the burst, nor less than nothing.
LEMMA TokensType == ASSUME BucketsInv, NEW c \in Client
                    PROVE  Tokens(c) \in 0 .. Burst
<1>1. Burst \in Nat
  BY RateLimiterAssumption
<1>2. CASE c \in DOMAIN buckets
  <2> DEFINE t == buckets[c].tokens
             g == Rate * (now - buckets[c].last)
  <2>1. /\ t \in 0 .. Burst /\ buckets[c].last \in 0 .. now /\ now \in Nat
    BY <1>2 DEF BucketsInv
  <2>2. now - buckets[c].last \in Nat
    BY <2>1
  <2>3. g \in Nat
    BY <2>2, Longer
  <2>4. Tokens(c) = AtMost(Burst, t + g)
    BY <1>2 DEF Tokens
  <2> HIDE DEF t, g
  <2> QED
    BY <1>1, <2>1, <2>3, <2>4 DEF AtMost
<1>3. CASE c \notin DOMAIN buckets
  BY <1>1, <1>3 DEF Tokens
<1> QED
  BY <1>2, <1>3

TokensInv == \A c \in Client : Tokens(c) \in 0 .. Burst

LEMMA TokensTyped == BucketsInv => TokensInv
BY TokensType DEF TokensInv

\* The requests let through since s are finitely many.
LEMMA GrantsFinite == ASSUME GrantsInv, NEW c \in Client, NEW s
                      PROVE  /\ IsFiniteSet(GrantsSince(c, s))
                             /\ Cardinality(GrantsSince(c, s)) \in Nat
<1>1. /\ DOMAIN grants[c] = 1 .. Len(grants[c]) /\ Len(grants[c]) \in Nat
  BY DEF GrantsInv
<1>2. IsFiniteSet(DOMAIN grants[c])
  BY <1>1, FS_Interval
<1>3. GrantsSince(c, s) \subseteq DOMAIN grants[c]
  BY DEF GrantsSince
<1> QED
  BY <1>2, <1>3, FS_Subset, FS_CardinalityType

-----------------------------------------------------------------------------
(* The steps *)

\* No buckets, as at the start and after every restart.
Fresh == /\ now \in Nat
         /\ buckets = [c \in {} |-> 0]
         /\ grants = [c \in Client |-> << >>]

LEMMA FreshInv == Fresh => LimiterInv
<1> SUFFICES ASSUME Fresh PROVE LimiterInv
  OBVIOUS
<1>1. BucketsInv
  BY DEF Fresh, BucketsInv
<1>2. GrantsInv
  BY DEF Fresh, GrantsInv
<1>3. Budget
  <2> SUFFICES ASSUME NEW c \in Client, NEW s \in 0 .. now
               PROVE  Cardinality(GrantsSince(c, s)) + Tokens(c)
                        <= Burst + Rate * (now - s)
    BY DEF Budget
  <2>1. GrantsSince(c, s) = {}
    BY DEF Fresh, GrantsSince
  <2>2. Cardinality(GrantsSince(c, s)) = 0
    BY <2>1, FS_EmptySet
  <2>3. Tokens(c) \in 0 .. Burst
    BY <1>1, TokensType
  <2>4. now - s \in Nat /\ Burst \in Nat
    BY RateLimiterAssumption DEF Fresh
  <2>5. Rate * (now - s) \in Nat
    BY <2>4, Longer
  <2> DEFINE g == Rate * (now - s)
             n == Cardinality(GrantsSince(c, s))
  <2> HIDE DEF g, n
  <2>6. n = 0 /\ g \in Nat
    BY <2>2, <2>5 DEF g, n
  <2>7. n + Tokens(c) <= Burst + g
    BY <2>3, <2>4, <2>6
  <2> QED
    BY <2>7 DEF g, n
<1> QED
  BY <1>1, <1>2, <1>3 DEF LimiterInv

LEMMA LimiterInitInv == LimiterInit => LimiterInv
<1>1. LimiterInit => Fresh
  BY DEF LimiterInit, Fresh
<1> QED
  BY <1>1, FreshInv

\* Buckets of another client, and their tokens, are left alone.
LEMMA AllowedInv == ASSUME LimiterInv, NEW c \in Client, Allowed(c)
                    PROVE  LimiterInv'
<1> DEFINE b == [tokens |-> Tokens(c) - 1, last |-> now, lastSeen |-> now]
<1>1. /\ now \in Nat /\ now' = now /\ Tokens(c) >= 1 /\ Tokens(c) \in 0 .. Burst
      /\ buckets' = With(c, b)
      /\ grants' = [grants EXCEPT ![c] = Append(@, now)]
  BY TokensType DEF LimiterInv, BucketsInv, Allowed
<1>2. /\ DOMAIN buckets' = DOMAIN buckets \union {c}
      /\ buckets'[c] = b
      /\ \A x \in DOMAIN buckets \ {c} : buckets'[x] = buckets[x]
  BY <1>1 DEF With
<1>3. BucketsInv'
  <2>1. b \in [tokens : 0 .. Burst, last : 0 .. now, lastSeen : 0 .. now]
    BY <1>1, RateLimiterAssumption
  <2>2. \A x \in DOMAIN buckets' : x = c \/ x \in DOMAIN buckets \ {c}
    BY <1>2
  <2>3. b.last <= b.lastSeen
    BY <1>1
  <2> HIDE DEF b
  <2> QED
    BY <1>1, <1>2, <2>1, <2>2, <2>3 DEF LimiterInv, BucketsInv
<1>4. /\ grants[c] \in Seq(0 .. now) /\ now \in 0 .. now
      /\ grants \in [Client -> Seq(0 .. now)]
  BY <1>1 DEF LimiterInv, GrantsInv
<1>5. /\ Append(grants[c], now) \in Seq(0 .. now)
      /\ DOMAIN Append(grants[c], now) = DOMAIN grants[c] \union {Len(grants[c]) + 1}
      /\ Len(grants[c]) + 1 \notin DOMAIN grants[c]
      /\ \A i \in DOMAIN grants[c] : Append(grants[c], now)[i] = grants[c][i]
      /\ Append(grants[c], now)[Len(grants[c]) + 1] = now
  BY <1>4
<1>6. GrantsInv'
  BY <1>1, <1>4, <1>5 DEF GrantsInv
<1>7. Tokens(c)' = Tokens(c) - 1
  <2>1. Tokens(c)' = AtMost(Burst, Tokens(c) - 1 + Rate * (now - now))
    BY <1>1, <1>2 DEF Tokens
  <2>2. Rate * (now - now) = 0
    BY <1>1, RateLimiterAssumption
  <2> QED
    BY <1>1, <2>1, <2>2, RateLimiterAssumption DEF AtMost
<1>8. \A x \in Client \ {c} : Tokens(x)' = Tokens(x)
  BY <1>1, <1>2 DEF Tokens
<1>9. Budget'
  <2> SUFFICES ASSUME NEW x \in Client, NEW s \in 0 .. now
               PROVE  (Cardinality(GrantsSince(x, s)) + Tokens(x))'
                        <= Burst + Rate * (now - s)
    BY <1>1 DEF Budget
  <2>1. Cardinality(GrantsSince(x, s)) + Tokens(x) <= Burst + Rate * (now - s)
    BY DEF LimiterInv, Budget
  <2>2. CASE x # c
    <3>1. grants'[x] = grants[x]
      BY <1>1, <1>4, <2>2
    <3>2. GrantsSince(x, s)' = GrantsSince(x, s)
      BY <3>1 DEF GrantsSince
    <3> QED
      BY <1>8, <2>1, <2>2, <3>2
  <2>3. CASE x = c
    <3>1. grants'[c] = Append(grants[c], now)
      BY <1>1, <1>4
    <3>2. GrantsSince(c, s)' = GrantsSince(c, s) \union {Len(grants[c]) + 1}
      BY <1>5, <3>1 DEF GrantsSince
    <3>3. Len(grants[c]) + 1 \notin GrantsSince(c, s)
      BY <1>5 DEF GrantsSince
    <3>4. /\ IsFiniteSet(GrantsSince(c, s))
          /\ Cardinality(GrantsSince(c, s)) \in Nat
      BY GrantsFinite DEF LimiterInv
    <3>5. Cardinality(GrantsSince(c, s))' = Cardinality(GrantsSince(c, s)) + 1
      BY <3>2, <3>3, <3>4, FS_AddElement
    <3> DEFINE n == Cardinality(GrantsSince(c, s))
               m == Cardinality(GrantsSince(c, s))'
               t == Tokens(c)
               u == Tokens(c)'
               g == Burst + Rate * (now - s)
    <3>6. m = n + 1 /\ n \in Nat /\ u = t - 1 /\ t \in Int /\ n + t <= g
      BY <1>1, <1>7, <2>1, <2>3, <3>4, <3>5
    <3> HIDE DEF n, m, t, u, g
    <3>7. m + u = n + t
      BY <3>6
    <3>8. m + u <= g
      BY <3>6, <3>7
    <3> QED
      BY <2>3, <3>8 DEF m, u, g
  <2> QED
    BY <2>2, <2>3
<1> QED
  BY <1>3, <1>6, <1>9 DEF LimiterInv

LEMMA DeniedInv == ASSUME LimiterInv, NEW c \in Client, Denied(c)
                   PROVE  LimiterInv'
<1>1. /\ now \in Nat /\ now' = now /\ grants' = grants /\ Tokens(c) < 1
      /\ buckets' = [buckets EXCEPT ![c].lastSeen = now]
  BY DEF LimiterInv, BucketsInv, Denied
<1>2. /\ DOMAIN buckets' = DOMAIN buckets
      /\ \A x \in DOMAIN buckets : /\ buckets'[x].tokens = buckets[x].tokens
                                   /\ buckets'[x].last = buckets[x].last
  BY <1>1 DEF LimiterInv, BucketsInv
<1>3. BucketsInv'
  BY <1>1, <1>2 DEF LimiterInv, BucketsInv
<1>4. GrantsInv'
  BY <1>1 DEF LimiterInv, GrantsInv
<1>5. \A x \in Client : Tokens(x)' = Tokens(x)
  BY <1>1, <1>2 DEF Tokens
<1>6. Budget'
  BY <1>1, <1>5 DEF LimiterInv, Budget, GrantsSince
<1> QED
  BY <1>3, <1>4, <1>6 DEF LimiterInv

\* A tick adds at most Rate tokens to a bucket, and Rate to what is allowed.
LEMMA TickInv == LimiterInv /\ Tick => LimiterInv'
<1> SUFFICES ASSUME LimiterInv, Tick PROVE LimiterInv'
  OBVIOUS
<1>1. now \in Nat /\ now' = now + 1 /\ buckets' = buckets /\ grants' = grants
  BY DEF LimiterInv, BucketsInv, Tick
<1>r. Rate \in Nat /\ Burst \in Nat
  BY RateLimiterAssumption
<1>2. BucketsInv'
  BY <1>1 DEF LimiterInv, BucketsInv
<1>3. GrantsInv'
  <2>1. 0 .. now \subseteq 0 .. now'
    BY <1>1
  <2>2. \A c \in Client : grants[c] \in Seq(0 .. now')
    <3> SUFFICES ASSUME NEW c \in Client PROVE grants[c] \in Seq(0 .. now')
      OBVIOUS
    <3>1. grants[c] \in Seq(0 .. now)
      BY DEF LimiterInv, GrantsInv
    <3> DEFINE S == 0 .. now
               T == 0 .. now'
    <3>2. S \subseteq T /\ grants[c] \in Seq(S)
      BY <2>1, <3>1
    <3> HIDE DEF S, T
    <3>3. grants[c] \in Seq(T)
      BY <3>2
    <3> QED
      BY <3>3 DEF T
  <2> QED
    BY <1>1, <2>2 DEF LimiterInv, GrantsInv
<1>4. \A c \in Client : Tokens(c)' <= Tokens(c) + Rate
  <2> SUFFICES ASSUME NEW c \in Client PROVE Tokens(c)' <= Tokens(c) + Rate
    OBVIOUS
  <2>1. CASE c \in DOMAIN buckets
    <3> DEFINE a == now - buckets[c].last
               t == buckets[c].tokens
    <3>1. /\ a \in Nat /\ t \in Nat
          /\ now' - buckets[c].last = a + 1
      BY <1>1, <2>1 DEF LimiterInv, BucketsInv
    <3>2. Rate * (a + 1) = Rate * a + Rate /\ Rate * a \in Nat
      BY <3>1, OneMore, Longer
    <3>3. /\ Tokens(c) = AtMost(Burst, t + Rate * a)
          /\ Tokens(c)' = AtMost(Burst, t + Rate * (a + 1))
      BY <1>1, <2>1, <3>1 DEF Tokens
    <3> DEFINE g == Rate * a
    <3> HIDE DEF t, a, g
    <3>4. /\ g \in Nat /\ Tokens(c) = AtMost(Burst, t + g)
          /\ Tokens(c)' = AtMost(Burst, t + (g + Rate))
      BY <3>2, <3>3 DEF g
    <3> QED
      BY <1>r, <3>1, <3>4 DEF AtMost
  <2>2. CASE c \notin DOMAIN buckets
    BY <1>1, <1>r, <2>2 DEF Tokens
  <2> QED
    BY <2>1, <2>2
<1>5. Budget'
  <2> SUFFICES ASSUME NEW c \in Client, NEW s \in 0 .. now'
               PROVE  (Cardinality(GrantsSince(c, s)) + Tokens(c))'
                        <= Burst + Rate * (now' - s)
    BY DEF Budget
  <2>1. GrantsSince(c, s)' = GrantsSince(c, s)
    BY <1>1 DEF GrantsSince
  <2>2. Tokens(c) \in 0 .. Burst /\ Tokens(c)' \in 0 .. Burst
    <3>1. Tokens(c) \in 0 .. Burst
      BY TokensType DEF LimiterInv
    <3>2. TokensInv'
      BY <1>2, TokensTyped, PTL
    <3> QED
      BY <3>1, <3>2 DEF TokensInv
  <2>3. CASE s = now'
    <3>1. GrantsSince(c, s) = {}
      BY <1>1, <2>3 DEF LimiterInv, GrantsInv, GrantsSince
    <3>2. Cardinality(GrantsSince(c, s))' = 0
      BY <2>1, <3>1, FS_EmptySet
    <3>3. Rate * (now' - s) = 0
      BY <1>1, <1>r, <2>3
    <3> QED
      BY <1>r, <2>2, <3>2, <3>3
  <2>4. CASE s \in 0 .. now
    <3>1. Cardinality(GrantsSince(c, s)) + Tokens(c) <= Burst + Rate * (now - s)
      BY <2>4 DEF LimiterInv, Budget
    <3>2. now - s \in Nat /\ now' - s = (now - s) + 1
      BY <1>1, <2>4
    <3>3. Rate * (now' - s) = Rate * (now - s) + Rate /\ Rate * (now - s) \in Nat
      BY <3>2, OneMore, Longer
    <3>4. Cardinality(GrantsSince(c, s)) \in Nat
      BY GrantsFinite DEF LimiterInv
    <3> DEFINE n == Cardinality(GrantsSince(c, s))
               g == Rate * (now - s)
               h == Rate * (now' - s)
    <3>5. /\ n \in Nat /\ g \in Nat /\ h = g + Rate
          /\ n + Tokens(c) <= Burst + g
          /\ Cardinality(GrantsSince(c, s))' = n
      BY <2>1, <3>1, <3>3, <3>4
    <3> HIDE DEF n, g, h
    <3>6. n + Tokens(c)' <= Burst + h
      BY <1>r, <1>4, <2>2, <3>5
    <3> QED
      BY <3>5, <3>6 DEF h
  <2> QED
    BY <1>1, <2>3, <2>4
<1> QED
  BY <1>2, <1>3, <1>5 DEF LimiterInv

\* A bucket that is dropped was full: its client has not been seen for Idle.
LEMMA StaleFull == ASSUME LimiterInv, NEW c \in DOMAIN buckets, Stale(c)
                   PROVE  Tokens(c) = Burst
<1> DEFINE a == now - buckets[c].last
           t == buckets[c].tokens
<1>1. a \in Nat /\ t \in Nat /\ Idle \in Nat /\ Idle <= a
  BY RateLimiterAssumption DEF LimiterInv, BucketsInv, Stale
<1>2. /\ Rate * Idle <= Rate * a /\ Rate * a \in Nat /\ Rate * Idle \in Nat
      /\ Burst <= Rate * Idle /\ Burst \in Nat
  BY <1>1, Longer, RateLimiterAssumption
<1>3. Tokens(c) = AtMost(Burst, t + Rate * a)
  BY DEF Tokens
<1> DEFINE g == Rate * a
           i == Rate * Idle
<1>4. g \in Nat /\ i \in Nat /\ i <= g /\ Burst <= i /\ Burst \in Nat
      /\ Tokens(c) = AtMost(Burst, t + g)
  BY <1>2, <1>3
<1> HIDE DEF t, a, g, i
<1> QED
  BY <1>1, <1>4 DEF AtMost

LEMMA CleanupInv == LimiterInv /\ Cleanup => LimiterInv'
<1> SUFFICES ASSUME LimiterInv, Cleanup PROVE LimiterInv'
  OBVIOUS
<1>1. /\ now' = now /\ grants' = grants
      /\ DOMAIN buckets' = {x \in DOMAIN buckets : ~Stale(x)}
      /\ \A x \in DOMAIN buckets' : buckets'[x] = buckets[x]
  BY DEF Cleanup
<1>2. BucketsInv'
  BY <1>1 DEF LimiterInv, BucketsInv
<1>3. GrantsInv'
  BY <1>1 DEF LimiterInv, GrantsInv
<1>4. \A c \in Client : Tokens(c)' = Tokens(c)
  <2> SUFFICES ASSUME NEW c \in Client PROVE Tokens(c)' = Tokens(c)
    OBVIOUS
  <2>1. CASE c \in DOMAIN buckets'
    BY <1>1, <2>1 DEF Tokens
  <2>2. CASE c \notin DOMAIN buckets' /\ c \in DOMAIN buckets
    BY <1>1, <2>2, StaleFull DEF Tokens
  <2>3. CASE c \notin DOMAIN buckets
    BY <1>1, <2>3 DEF Tokens
  <2> QED
    BY <2>1, <2>2, <2>3
<1>5. Budget'
  BY <1>1, <1>4 DEF LimiterInv, Budget, GrantsSince
<1> QED
  BY <1>2, <1>3, <1>5 DEF LimiterInv

-----------------------------------------------------------------------------
(* The theorems *)

LEMMA LimiterNextInv == LimiterInv /\ [LimiterNext]_limiterVars => LimiterInv'
<1> SUFFICES ASSUME LimiterInv, [LimiterNext]_limiterVars PROVE LimiterInv'
  OBVIOUS
<1>1. CASE UNCHANGED limiterVars
  BY <1>1 DEF limiterVars, LimiterInv, BucketsInv, GrantsInv, Budget, Tokens,
     GrantsSince
<1>2. CASE LimiterNext
  BY <1>2, TickInv, CleanupInv, AllowedInv, DeniedInv DEF LimiterNext
<1> QED
  BY <1>1, <1>2

LEMMA LimiterInvTyped == LimiterInv => LimiterTypeOK
BY DEF LimiterInv, BucketsInv, GrantsInv, LimiterTypeOK

LEMMA LimiterInvWithinRate == LimiterInv => WithinRate
<1> SUFFICES ASSUME LimiterInv, NEW c \in Client, NEW s \in 0 .. now
             PROVE  Cardinality(GrantsSince(c, s)) <= Burst + Rate * (now - s)
  BY DEF WithinRate
<1>1. Cardinality(GrantsSince(c, s)) + Tokens(c) <= Burst + Rate * (now - s)
  BY DEF LimiterInv, Budget
<1>2. Cardinality(GrantsSince(c, s)) \in Nat /\ Tokens(c) \in Nat
  BY GrantsFinite, TokensType DEF LimiterInv
<1>3. Rate * (now - s) \in Nat /\ Burst \in Nat
  BY Longer, RateLimiterAssumption DEF LimiterInv, BucketsInv
<1> DEFINE n == Cardinality(GrantsSince(c, s))
           g == Rate * (now - s)
<1>4. n \in Nat /\ g \in Nat /\ n + Tokens(c) <= Burst + g
  BY <1>1, <1>2, <1>3
<1> HIDE DEF n, g
<1>5. n <= Burst + g
  BY <1>2, <1>3, <1>4
<1> QED
  BY <1>5 DEF n, g

\* The buckets are typed, and none holds more than the burst.
THEOREM LimiterTypeCorrect == LimiterSpec => []LimiterTypeOK
BY LimiterInitInv, LimiterNextInv, LimiterInvTyped, PTL DEF LimiterSpec

\* From any moment on, no client is let through more often than its burst and
\* the rate since then allow, whatever buckets are dropped in between.
THEOREM LimiterWithinRate == LimiterSpec => []WithinRate
BY LimiterInitInv, LimiterNextInv, LimiterInvWithinRate, PTL DEF LimiterSpec

-----------------------------------------------------------------------------
(* The handlers *)


Fields == {"stage", "client", "target", "entry", "jobs", "answer"}

JobOK(j) == /\ DOMAIN j = {"h", "dir", "st", "data"}
            /\ j.dir \in {"raw", "plain"}
            /\ j.st \in {"write", "rename", "done"} => j.data = Wanted(j)

\* One job per part; a file in parts is unzipped only as a whole.
JobsOf(jobs, parts) ==
    /\ parts \in Seq(Hash) /\ parts # << >>
    /\ DOMAIN jobs = DOMAIN parts
    /\ \A k \in DOMAIN jobs : /\ jobs[k].h = parts[k]
                              /\ jobs[k].dir = IF Len(parts) > 1 THEN "raw" ELSE "plain"

ServedOK(q) ==
    q.answer.status = 200 /\ q.entry # None =>
        \/ q.answer.body = Body(q.entry)
        \/ ~q.answer.immutable /\ q.answer.body = [Body(q.entry) EXCEPT !.form = "rewritten"]

RequestOK(q) ==
    /\ DOMAIN q = Fields
    /\ q.stage \in Stages
    /\ \E n \in Nat : DOMAIN q.jobs = 1 .. n
    /\ \A k \in DOMAIN q.jobs : JobOK(q.jobs[k])
    /\ Cardinality(Running(q.jobs)) <= Limit
    /\ q.stage \in {"manifest", "content"} <=> q.jobs # << >>
    /\ q.stage = "answered" <=> q.answer # NoAnswer
    /\ q.stage \in {"none", "resolve", "manifest"} => q.entry = None
    /\ q.stage = "resolve" => Routed(q.target) /\ q.client \in Client
    /\ q.stage = "manifest" => q.target.h \in DOMAIN Manifest
    /\ q.stage = "content" => /\ JobsOf(q.jobs, q.entry.parts)
                              /\ q.target.kind \in {"entry", "file"}
    /\ ServedOK(q)
    /\ Leads(q.entry, q.target) /\ NotThere(q.answer, q.target)

RequestsOK == DOMAIN reqs = Request /\ \A r \in Request : RequestOK(reqs[r])

FaultsOK == faults \in 0 .. MaxFaults

ServeInv == RequestsOK /\ DiskWhole /\ FaultsOK

-----------------------------------------------------------------------------
(* Requests and their jobs *)

\* A step that gives one request an allowed new state.
LEMMA OneRequest ==
    ASSUME RequestsOK, NEW r \in Request, NEW q, RequestOK(q),
           reqs' = [reqs EXCEPT ![r] = q]
    PROVE  RequestsOK'
<1>1. /\ DOMAIN reqs' = Request
      /\ \A x \in Request : reqs'[x] = IF x = r THEN q ELSE reqs[x]
  BY DEF RequestsOK
<1>2. \A x \in Request : RequestOK(reqs'[x])
  BY <1>1 DEF RequestsOK
<1> QED
  BY <1>1, <1>2 DEF RequestsOK

LEMMA NoJobs == /\ DOMAIN << >> = 1 .. 0
                /\ Cardinality(Running(<< >>)) = 0
<1>1. DOMAIN << >> = 1 .. 0 /\ DOMAIN << >> = {}
  OBVIOUS
<1>2. Running(<< >>) = {}
  BY <1>1 DEF Running
<1> QED
  BY <1>1, <1>2, FS_EmptySet

\* A request that is answered has nothing under way.
LEMMA ReplyOK ==
    ASSUME NEW q, DOMAIN q = Fields, NEW a, a # NoAnswer,
           a.status = 200 /\ q.entry # None =>
               \/ a.body = Body(q.entry)
               \/ ~a.immutable /\ a.body = [Body(q.entry) EXCEPT !.form = "rewritten"],
           Leads(q.entry, q.target), NotThere(a, q.target)
    PROVE  RequestOK(Reply(q, a))
<1> DEFINE p == Reply(q, a)
<1>1. /\ DOMAIN p = Fields /\ p.stage = "answered" /\ p.jobs = << >>
      /\ p.answer = a /\ p.entry = q.entry /\ p.target = q.target
  BY DEF Reply, Fields
<1>2. 0 \in Nat /\ 0 <= Limit /\ DOMAIN << >> = {}
  BY ServeAssumption
<1> HIDE DEF p
<1>3. /\ DOMAIN p.jobs = 1 .. 0 /\ Cardinality(Running(p.jobs)) = 0
  BY <1>1, NoJobs
<1>4. ServedOK(p)
  BY <1>1 DEF ServedOK
<1>5. RequestOK(p)
  BY <1>1, <1>2, <1>3, <1>4 DEF RequestOK, Stages
<1> QED
  BY <1>5 DEF p

LEMMA AnswerStatus ==
    ASSUME NEW status \in Nat \ {0}
    PROVE  Answer(status) # NoAnswer /\ Answer(status).status = status
BY DEF Answer, NoAnswer

LEMMA FreshJob == ASSUME NEW h, NEW dir \in {"raw", "plain"}
                  PROVE  /\ JobOK(Job(h, dir)) /\ Job(h, dir).st = "wait"
                         /\ Job(h, dir).h = h /\ Job(h, dir).dir = dir
BY DEF JobOK, Job

\* A request goes on to fetch something: none of its jobs has begun.
LEMMA GotoOK ==
    ASSUME NEW q, DOMAIN q = Fields, q.answer = NoAnswer,
           NEW stage \in {"manifest", "content"}, NEW t, NEW e, NEW jobs,
           NEW n \in Nat \ {0}, DOMAIN jobs = 1 .. n,
           \A k \in DOMAIN jobs : JobOK(jobs[k]) /\ jobs[k].st = "wait",
           stage = "manifest" => e = None /\ t.h \in DOMAIN Manifest,
           stage = "content" => /\ JobsOf(jobs, e.parts)
                                /\ t.kind \in {"entry", "file"} /\ Leads(e, t)
    PROVE  RequestOK(Goto(q, stage, t, e, jobs))
<1> DEFINE p == Goto(q, stage, t, e, jobs)
<1>1. /\ DOMAIN p = Fields /\ p.stage = stage /\ p.jobs = jobs
      /\ p.answer = NoAnswer /\ p.entry = e /\ p.target = t
  BY DEF Goto, Fields
<1>2. 0 <= Limit
  BY ServeAssumption
<1> HIDE DEF p
<1>3. Running(p.jobs) = {}
  BY <1>1 DEF Running
<1>4. Cardinality(Running(p.jobs)) = 0
  BY <1>3, FS_EmptySet
<1>5. ServedOK(p)
  BY <1>1 DEF ServedOK, NoAnswer
<1>6. p.jobs # << >>
  <2>1. 1 \in DOMAIN p.jobs
    BY <1>1
  <2> QED
    BY <2>1
<1>7. Leads(e, t) /\ NotThere(NoAnswer, t)
  <2>1. NotThere(NoAnswer, t)
    BY DEF NotThere, NoAnswer
  <2>2. e # None => Leads(e, t)
    OBVIOUS
  <2> QED
    BY <2>1, <2>2 DEF Leads
<1>8. RequestOK(p)
  BY <1>1, <1>2, <1>4, <1>5, <1>6, <1>7 DEF RequestOK, Stages
<1> QED
  BY <1>8 DEF p

\* The manifest is fetched as one file.
LEMMA GotoManifest ==
    ASSUME NEW q, DOMAIN q = Fields, q.answer = NoAnswer,
           NEW t, t.h \in DOMAIN Manifest
    PROVE  RequestOK(Goto(q, "manifest", t, None, <<Job(t.h, "plain")>>))
<1> DEFINE j == Job(t.h, "plain")
<1>1. JobOK(j) /\ j.st = "wait"
  BY FreshJob
<1> HIDE DEF j
<1>2. DOMAIN <<j>> = 1 .. 1 /\ 1 \in Nat \ {0} /\ <<j>>[1] = j
  OBVIOUS
<1>3. \A k \in DOMAIN <<j>> : JobOK(<<j>>[k]) /\ <<j>>[k].st = "wait"
  BY <1>1, <1>2
<1>4. RequestOK(Goto(q, "manifest", t, None, <<j>>))
  BY <1>2, <1>3, GotoOK
<1> QED
  BY <1>4 DEF j

\* What is known of a request and of its jobs.
LEMMA RequestFacts ==
    ASSUME RequestsOK, NEW r \in Request
    PROVE  /\ RequestOK(reqs[r])
           /\ DOMAIN reqs[r] = Fields
           /\ IsFiniteSet(DOMAIN reqs[r].jobs)
           /\ IsFiniteSet(Running(reqs[r].jobs))
           /\ Cardinality(Running(reqs[r].jobs)) \in 0 .. Limit
<1>1. RequestOK(reqs[r])
  BY DEF RequestsOK
<1>2. PICK n \in Nat : DOMAIN reqs[r].jobs = 1 .. n
  BY <1>1 DEF RequestOK
<1>3. IsFiniteSet(DOMAIN reqs[r].jobs)
  BY <1>2, FS_Interval
<1>4. Running(reqs[r].jobs) \subseteq DOMAIN reqs[r].jobs
  BY DEF Running
<1>5. /\ IsFiniteSet(Running(reqs[r].jobs))
      /\ Cardinality(Running(reqs[r].jobs)) \in Nat
  BY <1>3, <1>4, FS_Subset, FS_CardinalityType
<1>6. DOMAIN reqs[r] = Fields /\ Cardinality(Running(reqs[r].jobs)) <= Limit
  BY <1>1 DEF RequestOK
<1> QED
  BY <1>1, <1>3, <1>5, <1>6, ServeAssumption

\* A job that goes on, within the limit and with the bytes of its hash.
LEMMA JobChanges ==
    ASSUME RequestsOK, NEW r \in Request, NEW k \in DOMAIN reqs[r].jobs,
           NEW st \in {"fetch", "write", "rename", "done", "failed"}, NEW data,
           SetJob(r, k, st, data),
           st \in {"write", "rename", "done"} => data = Wanted(reqs[r].jobs[k]),
           k \in Running(reqs[r].jobs) \/ Slots(reqs[r].jobs) > 0
    PROVE  RequestsOK'
<1> DEFINE q == reqs[r]
           j == q.jobs[k]
           i == [j EXCEPT !.st = st, !.data = data]
           js == [q.jobs EXCEPT ![k] = i]
           p == [q EXCEPT !.jobs = js]
<1>1. RequestOK(q) /\ DOMAIN q = Fields
  BY RequestFacts
<1>2. JobOK(j)
  BY <1>1 DEF RequestOK
<1>3. reqs' = [reqs EXCEPT ![r] = p]
  BY DEF SetJob
<1>4. JobOK(i) /\ i.h = j.h /\ i.dir = j.dir /\ i.st = st
  <2>1. /\ DOMAIN i = {"h", "dir", "st", "data"}
        /\ i.h = j.h /\ i.dir = j.dir /\ i.st = st /\ i.data = data
    BY <1>2 DEF JobOK
  <2>2. Wanted(i) = Wanted(j)
    BY <2>1 DEF Wanted
  <2> QED
    BY <1>2, <2>1, <2>2 DEF JobOK
<1> HIDE DEF i
<1>5. /\ DOMAIN js = DOMAIN q.jobs /\ k \in DOMAIN js /\ js[k] = i
      /\ \A m \in DOMAIN q.jobs \ {k} : js[m] = q.jobs[m]
  OBVIOUS
<1>6. /\ DOMAIN p = Fields /\ p.jobs = js /\ p.stage = q.stage /\ p.entry = q.entry
      /\ p.target = q.target /\ p.answer = q.answer
  BY <1>1 DEF Fields
<1>7. Cardinality(Running(js)) <= Limit
  <2> DEFINE old == Running(q.jobs)
  <2>1. IsFiniteSet(old) /\ Cardinality(old) \in 0 .. Limit
    BY RequestFacts
  <2>2. Running(js) \subseteq old \union {k}
    BY <1>5 DEF Running
  <2>3. CASE k \in old
    <3>1. Running(js) \subseteq old
      BY <2>2, <2>3
    <3>2. Cardinality(Running(js)) <= Cardinality(old)
      BY <2>1, <3>1, FS_Subset
    <3>3. Cardinality(Running(js)) \in Nat
      BY <2>1, <3>1, FS_Subset, FS_CardinalityType
    <3> QED
      BY <2>1, <3>2, <3>3, ServeAssumption
  <2>4. CASE k \notin old /\ Limit - Cardinality(old) > 0
    <3>1. /\ IsFiniteSet(old \union {k})
          /\ Cardinality(old \union {k}) = Cardinality(old) + 1
      BY <2>1, <2>4, FS_AddElement
    <3>2. Cardinality(Running(js)) <= Cardinality(old \union {k})
      BY <2>2, <3>1, FS_Subset
    <3>3. Cardinality(Running(js)) \in Nat
      BY <2>2, <3>1, FS_Subset, FS_CardinalityType
    <3>4. Cardinality(old) + 1 <= Limit
      BY <2>1, <2>4, ServeAssumption
    <3> QED
      BY <2>1, <3>1, <3>2, <3>3, <3>4, ServeAssumption
  <2> QED
    BY <2>3, <2>4 DEF Slots
<1>8. q.jobs # << >> /\ js # << >>
  BY <1>5
<1>9. q.stage = "content" => JobsOf(js, q.entry.parts)
  <2> HAVE q.stage = "content"
  <2>1. JobsOf(q.jobs, q.entry.parts)
    BY <1>1 DEF RequestOK
  <2> HIDE DEF js
  <2> QED
    BY <1>4, <1>5, <2>1 DEF JobsOf
<1>10. \A m \in DOMAIN js : JobOK(js[m])
  BY <1>1, <1>4, <1>5 DEF RequestOK
<1>11. ServedOK(p)
  BY <1>1, <1>6 DEF RequestOK, ServedOK
<1>12. \E n \in Nat : DOMAIN js = 1 .. n
  BY <1>1, <1>5 DEF RequestOK
<1> HIDE DEF p, js, q
<1>13. RequestOK(p)
  BY <1>1, <1>6, <1>7, <1>8, <1>9, <1>10, <1>11, <1>12 DEF RequestOK
<1> QED
  BY <1>3, <1>13, OneRequest

-----------------------------------------------------------------------------
(* The steps of the goroutines *)

LEMMA StartJobInv ==
    ASSUME ServeInv, NEW r \in Request, NEW k \in DOMAIN reqs[r].jobs, StartJob(r, k)
    PROVE  ServeInv'
<1> DEFINE j == reqs[r].jobs[k]
<1>1. RequestsOK /\ DiskWhole /\ FaultsOK /\ disk' = disk /\ faults' = faults
  BY DEF ServeInv, StartJob
<1> SUFFICES RequestsOK'
  BY <1>1 DEF ServeInv, DiskWhole, FaultsOK
<1>2. JobOK(j)
  BY <1>1 DEF RequestsOK, RequestOK
<1>3. /\ Slots(reqs[r].jobs) > 0
      /\ \/ \E f \in disk : f.dir = j.dir /\ f.h = j.h /\ SetJob(r, k, "done", f.data)
         \/ SetJob(r, k, "fetch", None)
  BY DEF StartJob
<1>4. CASE SetJob(r, k, "fetch", None)
  BY <1>1, <1>3, <1>4, JobChanges
<1>5. CASE \E f \in disk : f.dir = j.dir /\ f.h = j.h /\ SetJob(r, k, "done", f.data)
  <2>1. PICK f \in disk : f.dir = j.dir /\ f.h = j.h /\ SetJob(r, k, "done", f.data)
    BY <1>5
  <2>2. f.data = Wanted(j)
    BY <1>1, <1>2, <2>1 DEF DiskWhole, JobOK, Wanted
  <2> QED
    BY <1>1, <1>3, <2>1, <2>2, JobChanges
<1> QED
  BY <1>3, <1>4, <1>5

\* The bytes of a job may be written: it holds those of its hash.
LEMMA JobHolds ==
    ASSUME RequestsOK, NEW r \in Request, NEW k \in DOMAIN reqs[r].jobs,
           reqs[r].jobs[k].st \in {"write", "rename", "done"}
    PROVE  /\ reqs[r].jobs[k].data = Wanted(reqs[r].jobs[k])
           /\ reqs[r].jobs[k].dir \in {"raw", "plain"}
BY DEF RequestsOK, RequestOK, JobOK

LEMMA FetchedInv ==
    ASSUME ServeInv, NEW r \in Request, NEW k \in DOMAIN reqs[r].jobs, Fetched(r, k)
    PROVE  ServeInv'
<1> DEFINE j == reqs[r].jobs[k]
<1>1. RequestsOK /\ DiskWhole /\ FaultsOK /\ disk' = disk /\ j.st = "fetch"
  BY DEF ServeInv, Fetched
<1>2. k \in Running(reqs[r].jobs)
  BY <1>1 DEF Running
<1>3. FaultsOK'
  BY <1>1, ServeAssumption DEF FaultsOK, Fetched, Fault
<1>4. SetJob(r, k, "write", Wanted(j)) \/ SetJob(r, k, "failed", None)
  BY DEF Fetched
<1>5. CASE SetJob(r, k, "write", Wanted(j))
  <2>1. RequestsOK'
    BY <1>1, <1>2, <1>5, JobChanges
  <2> QED
    BY <1>1, <1>3, <2>1 DEF ServeInv, DiskWhole
<1>6. CASE SetJob(r, k, "failed", None)
  <2>1. RequestsOK'
    BY <1>1, <1>2, <1>6, JobChanges
  <2> QED
    BY <1>1, <1>3, <2>1 DEF ServeInv, DiskWhole
<1> QED
  BY <1>4, <1>5, <1>6

LEMMA WriteInv ==
    ASSUME ServeInv, NEW r \in Request, NEW k \in DOMAIN reqs[r].jobs, Write(r, k)
    PROVE  ServeInv'
<1> DEFINE j == reqs[r].jobs[k]
<1>1. RequestsOK /\ DiskWhole /\ FaultsOK /\ disk' = disk /\ j.st = "write"
  BY DEF ServeInv, Write
<1>2. k \in Running(reqs[r].jobs) /\ j.data = Wanted(j)
  BY <1>1, JobHolds DEF Running
<1>3. FaultsOK'
  BY <1>1, ServeAssumption DEF FaultsOK, Write, Fault
<1>4. SetJob(r, k, "rename", j.data) \/ SetJob(r, k, "done", j.data)
  BY DEF Write
<1>5. RequestsOK'
  <2>1. CASE SetJob(r, k, "rename", j.data)
    BY <1>1, <1>2, <2>1, JobChanges
  <2>2. CASE SetJob(r, k, "done", j.data)
    BY <1>1, <1>2, <2>2, JobChanges
  <2> QED
    BY <1>4, <2>1, <2>2
<1> QED
  BY <1>1, <1>3, <1>5 DEF ServeInv, DiskWhole

\* Whoever renames last, the file is whole.
LEMMA RenameInv ==
    ASSUME ServeInv, NEW r \in Request, NEW k \in DOMAIN reqs[r].jobs, Rename(r, k)
    PROVE  ServeInv'
<1> DEFINE j == reqs[r].jobs[k]
<1>1. /\ RequestsOK /\ DiskWhole /\ FaultsOK /\ faults' = faults /\ j.st = "rename"
      /\ disk' = CacheFile(j, j.data) /\ SetJob(r, k, "done", j.data)
  BY DEF ServeInv, Rename
<1>2. k \in Running(reqs[r].jobs) /\ j.data = Wanted(j) /\ j.dir \in {"raw", "plain"}
  BY <1>1, JobHolds DEF Running
<1>3. RequestsOK'
  BY <1>1, <1>2, JobChanges
<1>4. DiskWhole'
  <2> SUFFICES ASSUME NEW f \in disk'
               PROVE  f.data = IF f.dir = "raw" THEN Raw(f.h) ELSE Plain(f.h)
    BY DEF DiskWhole
  <2>1. f \in disk \/ f = [dir |-> j.dir, h |-> j.h, data |-> j.data]
    BY <1>1 DEF CacheFile
  <2> QED
    BY <1>1, <1>2, <2>1 DEF DiskWhole, Wanted
<1> QED
  BY <1>1, <1>3, <1>4 DEF ServeInv, FaultsOK

LEMMA JobStepInv == ServeInv /\ JobStep => ServeInv'
BY StartJobInv, FetchedInv, WriteInv, RenameInv DEF JobStep

-----------------------------------------------------------------------------
(* Paths and the entries they lead to *)

LEMMA LeastFound ==
    ASSUME NEW n \in Nat, NEW S, S \subseteq 1 .. n
    PROVE  /\ S = {} => Least(S) = -1
           /\ S # {} => Least(S) >= 0 /\ Least(S) \in Nat /\ Least(S) + 1 \in S
<1>1. CASE S = {}
  BY <1>1 DEF Least
<1>2. CASE S # {}
  <2>1. S \subseteq Nat
    OBVIOUS
  <2>2. PICK m \in S : \A k \in S : m <= k
    <3> DEFINE R == OpToRel(<, Nat)
    <3>1. IsWellFoundedOn(R, Nat)
      BY NatLessThanWellFounded
    <3>2. \A x, y \in Nat : <<x, y>> \in R <=> x < y
      BY DEF OpToRel
    <3> HIDE DEF R
    <3>3. PICK m \in S : \A k \in S : ~(<<k, m>> \in R)
      BY <1>2, <2>1, <3>1, WFMin
    <3>4. ASSUME NEW k \in S PROVE m <= k
      <4>1. m \in Nat /\ k \in Nat
        BY <2>1
      <4>2. ~(k < m)
        BY <3>2, <3>3, <4>1
      <4> QED
        BY <4>1, <4>2
    <3> QED
      BY <3>4
  <2> DEFINE c == CHOOSE i \in S : \A j \in S : i <= j
  <2>3. c \in S /\ Least(S) = c - 1
    BY <1>2, <2>2 DEF Least
  <2> HIDE DEF c
  <2> QED
    BY <1>2, <2>3
<1> QED
  BY <1>1, <1>2

\* What the attempts come to when the first one hits, or the second one after
\* a first one that misses.
LEMMA FirstHit ==
    ASSUME NEW s, DOMAIN s = 1 .. 4
    PROVE  /\ s[1] >= 0 => FirstFound(s) = s[1]
           /\ ~(s[1] >= 0) /\ s[2] >= 0 => FirstFound(s) = s[2]
           /\ ~(s[1] >= 0) /\ ~(s[2] >= 0) /\ s[3] >= 0 => FirstFound(s) = s[3]
<1> DEFINE hits == {i \in DOMAIN s : s[i] >= 0}
           m == CHOOSE i \in hits : \A j \in hits : i <= j
<1>2. FirstFound(s) = IF hits = {} THEN -1 ELSE s[m]
  BY DEF FirstFound
<1>3. hits \subseteq 1 .. 4
  OBVIOUS
<1>4. ASSUME NEW k \in hits, \A j \in hits : k <= j
      PROVE  FirstFound(s) = s[k]
  <2>1. m \in hits /\ \A j \in hits : m <= j
    BY <1>4
  <2> HIDE DEF m
  <2>2. m = k
    <3> HIDE DEF hits
    <3> QED
      BY <1>3, <1>4, <2>1
  <2> QED
    BY <1>2, <1>4, <2>2
<1>5. ASSUME s[1] >= 0 PROVE FirstFound(s) = s[1]
  <2>1. 1 \in hits /\ \A j \in hits : 1 <= j
    BY <1>5
  <2> HIDE DEF hits
  <2> QED
    BY <1>4, <2>1
<1>6. ASSUME ~(s[1] >= 0), s[2] >= 0 PROVE FirstFound(s) = s[2]
  <2>1. 2 \in hits /\ \A j \in hits : 2 <= j
    BY <1>6
  <2> HIDE DEF hits
  <2> QED
    BY <1>4, <2>1
<1>7. ASSUME ~(s[1] >= 0), ~(s[2] >= 0), s[3] >= 0 PROVE FirstFound(s) = s[3]
  <2>1. 3 \in hits /\ \A j \in hits : 3 <= j
    BY <1>7
  <2> HIDE DEF hits
  <2> QED
    BY <1>4, <2>1
<1> QED
  BY <1>5, <1>6, <1>7

\* Looking among the names finds an entry if there is one.
LEMMA NameFound ==
    ASSUME NEW es, NEW n \in Nat, DOMAIN es = 1 .. n, NEW p
    PROVE  /\ (\E i \in DOMAIN es : es[i].f = p)
                => /\ FindByFilename(es, p) \in Nat
                   /\ FindByFilename(es, p) + 1 \in DOMAIN es
                   /\ es[FindByFilename(es, p) + 1].f = p
           /\ (\A i \in DOMAIN es : es[i].f # p) => FindByFilename(es, p) = -1
           /\ ByStem(es, p) # {}
                => FindByStem(es, p) \in Nat /\ FindByStem(es, p) + 1 \in ByStem(es, p)
           /\ ByStem(es, p) = {} => FindByStem(es, p) = -1
<1> DEFINE S == {i \in DOMAIN es : es[i].f = p}
<1>1. S \subseteq 1 .. n /\ ByStem(es, p) \subseteq 1 .. n
  BY DEF ByStem
<1>2. FindByFilename(es, p) = Least(S) /\ FindByStem(es, p) = Least(ByStem(es, p))
  BY DEF FindByFilename, FindByStem
<1> HIDE DEF S
<1>3. /\ S = {} => Least(S) = -1
      /\ S # {} => Least(S) \in Nat /\ Least(S) + 1 \in S
      /\ ByStem(es, p) = {} => Least(ByStem(es, p)) = -1
      /\ ByStem(es, p) # {}
            => Least(ByStem(es, p)) \in Nat /\ Least(ByStem(es, p)) + 1 \in ByStem(es, p)
  BY <1>1, LeastFound
<1> QED
  BY <1>2, <1>3 DEF S

Named(es, p) == HasFilenames(es) /\ \E i \in DOMAIN es : es[i].f = p
Stemmed(es, p) == Ext[p] = "" /\ ByStem(es, p) # {}

\* The order of the attempts: a name, a name without its extension, and only
\* then a number.
LEMMA ResolveCases ==
    ASSUME NEW es, NEW n \in Nat, DOMAIN es = 1 .. n, NEW p
    PROVE  /\ Named(es, p) => /\ Resolve(es, p) + 1 \in DOMAIN es
                              /\ Resolve(es, p) \in Nat
                              /\ es[Resolve(es, p) + 1].f = p
           /\ ~Named(es, p) /\ Stemmed(es, p) =>
                /\ Resolve(es, p) \in Nat /\ Resolve(es, p) + 1 \in ByStem(es, p)
           /\ ~Named(es, p) /\ ~Stemmed(es, p) /\ Number[p] \in Nat =>
                Resolve(es, p) = Number[p]
<1> DEFINE named == HasFilenames(es)
           a == When(named, FindByFilename(es, p))
           b == When(named /\ Ext[p] = "", FindByStem(es, p))
           d == When(named /\ Ext[p] \in {"", ".html"}, FindByFilename(es, Index))
           s == <<a, b, Number[p], d>>
<1>1. /\ Resolve(es, p) = FirstFound(s)
      /\ DOMAIN s = 1 .. 4 /\ s[1] = a /\ s[2] = b /\ s[3] = Number[p]
  BY DEF Resolve
<1> HIDE DEF s, d
<1>2. ASSUME Named(es, p)
      PROVE  /\ Resolve(es, p) + 1 \in DOMAIN es /\ Resolve(es, p) \in Nat
             /\ es[Resolve(es, p) + 1].f = p
  <2>1. named /\ \E i \in DOMAIN es : es[i].f = p
    BY <1>2 DEF Named
  <2>2. a = FindByFilename(es, p)
    BY <2>1 DEF When
  <2> HIDE DEF named
  <2>3. LET k == FindByFilename(es, p)
        IN  k \in Nat /\ k + 1 \in DOMAIN es /\ es[k + 1].f = p
    BY <2>1, NameFound
  <2> HIDE DEF a
  <2>a. a \in Nat /\ a + 1 \in DOMAIN es /\ es[a + 1].f = p
    BY <2>2, <2>3
  <2>4. a >= 0
    BY <2>a
  <2>5. Resolve(es, p) = a
    BY <1>1, <2>4, FirstHit
  <2> QED
    BY <2>a, <2>5
<1>3. ASSUME ~Named(es, p) PROVE a = -1
  <2>1. CASE named
    <3>1. \A i \in DOMAIN es : es[i].f # p
      BY <1>3, <2>1 DEF Named
    <3>2. FindByFilename(es, p) = -1
      BY <3>1, NameFound
    <3> QED
      BY <2>1, <3>2 DEF When
  <2>2. CASE ~named
    BY <2>2 DEF When
  <2> QED
    BY <2>1, <2>2
<1>4. ASSUME ~Named(es, p), Stemmed(es, p)
      PROVE  Resolve(es, p) \in Nat /\ Resolve(es, p) + 1 \in ByStem(es, p)
  <2>1. named
    BY <1>4 DEF Stemmed, ByStem, HasFilenames
  <2>2. b = FindByStem(es, p)
    BY <1>4, <2>1 DEF Stemmed, When
  <2>3. FindByStem(es, p) \in Nat /\ FindByStem(es, p) + 1 \in ByStem(es, p)
    BY <1>4, NameFound DEF Stemmed
  <2>4. a = -1
    BY <1>3, <1>4
  <2> HIDE DEF a, b
  <2>5. ~(a >= 0) /\ b >= 0
    BY <2>2, <2>3, <2>4
  <2>6. Resolve(es, p) = b
    BY <1>1, <2>5, FirstHit
  <2> QED
    BY <2>2, <2>3, <2>6
<1>5. ASSUME ~Named(es, p), ~Stemmed(es, p), Number[p] \in Nat
      PROVE  Resolve(es, p) = Number[p]
  <2>1. b = -1
    <3>1. CASE named /\ Ext[p] = ""
      <4>1. ByStem(es, p) = {}
        BY <1>5, <3>1 DEF Stemmed
      <4>2. FindByStem(es, p) = -1
        BY <4>1, NameFound
      <4> QED
        BY <3>1, <4>2 DEF When
    <3>2. CASE ~(named /\ Ext[p] = "")
      BY <3>2 DEF When
    <3> QED
      BY <3>1, <3>2
  <2>2. a = -1
    BY <1>3, <1>5
  <2> HIDE DEF a, b
  <2>3. ~(a >= 0) /\ ~(b >= 0) /\ Number[p] >= 0
    BY <1>5, <2>1, <2>2
  <2> QED
    BY <1>1, <2>3, FirstHit
<1> QED
  BY <1>2, <1>4, <1>5

LEMMA ResolveLeads ==
    ASSUME NEW es, NEW n \in Nat, DOMAIN es = 1 .. n, NEW p,
           Resolve(es, p) + 1 \in DOMAIN es
    PROVE  MeantBy(es[Resolve(es, p) + 1], es, p)
<1>1. CASE Named(es, p)
  BY <1>1, ResolveCases DEF MeantBy
<1>2. CASE ~Named(es, p) /\ \E i \in DOMAIN es : es[i].f = p
  BY <1>2 DEF Named, HasFilenames, MeantBy
<1>3. CASE \A i \in DOMAIN es : es[i].f # p
  <2>1. ~Named(es, p)
    BY <1>3 DEF Named
  <2>2. CASE Stemmed(es, p)
    <3>1. Resolve(es, p) + 1 \in ByStem(es, p)
      BY <2>1, <2>2, ResolveCases
    <3> QED
      BY <1>3, <3>1 DEF MeantBy
  <2>3. CASE ~Stemmed(es, p)
    BY <1>3, <2>3 DEF MeantBy, Stemmed
  <2> QED
    BY <2>2, <2>3
<1> QED
  BY <1>1, <1>2, <1>3

LEMMA ResolveFinds ==
    ASSUME NEW es, NEW n \in Nat, DOMAIN es = 1 .. n, Len(es) = n, NEW p,
           Resolve(es, p) \notin 0 .. Len(es) - 1
    PROVE  ~StandsFor(es, p)
<1>1. ~Named(es, p)
  BY ResolveCases
<1>2. ~Stemmed(es, p)
  <2>1. ByStem(es, p) \subseteq DOMAIN es
    BY DEF ByStem
  <2> QED
    BY <1>1, <2>1, ResolveCases
<1>3. Number[p] \notin 0 .. Len(es) - 1
  <2> SUFFICES ASSUME Number[p] \in 0 .. Len(es) - 1 PROVE FALSE
    OBVIOUS
  <2>1. Number[p] \in Nat
    OBVIOUS
  <2> QED
    BY <1>1, <1>2, <2>1, ResolveCases
<1> QED
  BY <1>1, <1>2, <1>3 DEF StandsFor, Named, HasFilenames, Stemmed

-----------------------------------------------------------------------------
(* The steps of the handlers *)

\* An answer without a file.
LEMMA NoFile ==
    ASSUME NEW q, DOMAIN q = Fields, NEW status \in Nat \ {0, 200},
           Leads(q.entry, q.target),
           status = 404 => NotThere(Answer(404), q.target)
    PROVE  RequestOK(Reply(q, Answer(status)))
<1>1. Answer(status) # NoAnswer /\ Answer(status).status = status
  BY AnswerStatus
<1>2. NotThere(Answer(status), q.target)
  BY <1>1 DEF NotThere
<1> QED
  BY <1>1, <1>2, ReplyOK

\* The file of a hash is one part.
LEMMA GotoFile ==
    ASSUME NEW q, DOMAIN q = Fields, q.answer = NoAnswer, NEW t, t.h \in Hash,
           t.kind = "file"
    PROVE  RequestOK(Goto(q, "content", t, [f |-> NoName, parts |-> <<t.h>>],
                          <<Job(t.h, "plain")>>))
<1> DEFINE j == Job(t.h, "plain")
           e == [f |-> NoName, parts |-> <<t.h>>]
<1>1. JobOK(j) /\ j.st = "wait" /\ j.h = t.h /\ j.dir = "plain"
  BY FreshJob
<1>2. e.parts = <<t.h>> /\ t.h \in Hash
  OBVIOUS
<1> HIDE DEF j, e
<1>3. /\ DOMAIN <<j>> = 1 .. 1 /\ 1 \in Nat \ {0} /\ <<j>>[1] = j
      /\ <<t.h>> \in Seq(Hash) /\ <<t.h>> # << >> /\ Len(<<t.h>>) = 1
      /\ DOMAIN <<t.h>> = 1 .. 1 /\ <<t.h>>[1] = t.h
  BY <1>2
<1>4. \A k \in DOMAIN <<j>> : JobOK(<<j>>[k]) /\ <<j>>[k].st = "wait"
  BY <1>1, <1>3
<1>5. JobsOf(<<j>>, <<t.h>>)
  BY <1>1, <1>3 DEF JobsOf
<1>6. Leads(e, t)
  BY DEF Leads
<1>7. RequestOK(Goto(q, "content", t, e, <<j>>))
  BY <1>2, <1>3, <1>4, <1>5, <1>6, GotoOK
<1> QED
  BY <1>7 DEF j, e

\* A routed request fetches its file or its manifest.
LEMMA DispatchOK ==
    ASSUME NEW q, DOMAIN q = Fields, q.answer = NoAnswer, NEW t, Routed(t)
    PROVE  RequestOK(Dispatch(q, t))
<1>1. CASE t.kind = "file"
  BY <1>1, GotoFile DEF Dispatch, Routed
<1>2. CASE t.kind # "file"
  BY <1>2, GotoManifest DEF Dispatch, Routed
<1> QED
  BY <1>1, <1>2

\* A request that is being served has no answer yet.
LEMMA NotAnswered ==
    ASSUME RequestsOK, NEW r \in Request, reqs[r].stage # "answered"
    PROVE  reqs[r].answer = NoAnswer /\ DOMAIN reqs[r] = Fields
BY DEF RequestsOK, RequestOK

LEMMA ArriveUnlimitedInv ==
    ASSUME ServeInv, NEW r \in Request, ArriveUnlimited(r)
    PROVE  ServeInv'
<1>1. /\ RequestsOK /\ disk' = disk /\ faults' = faults /\ reqs[r].stage = "none"
  BY DEF ServeInv, ArriveUnlimited
<1> SUFFICES RequestsOK'
  BY <1>1 DEF ServeInv, DiskWhole, FaultsOK
<1>2. PICK c \in Client, t \in Target :
        LET q == [reqs[r] EXCEPT !.client = c, !.target = t]
        IN \/ t.kind = "health" /\ reqs' = [reqs EXCEPT ![r] = Reply(q, Answer(200))]
           \/ /\ t.kind = "named"
              /\ \/ reqs' = [reqs EXCEPT ![r] = Reply(q, Answer(404))]
                 \/ reqs' = [reqs EXCEPT ![r] =
                        Dispatch(q, [kind |-> IF t.path = None THEN "root" ELSE "entry",
                                     h |-> Site, path |-> t.path])]
  BY DEF ArriveUnlimited
<1> DEFINE q == [reqs[r] EXCEPT !.client = c, !.target = t]
           u == [kind |-> IF t.path = None THEN "root" ELSE "entry",
                 h |-> Site, path |-> t.path]
<1>3. DOMAIN q = Fields /\ q.answer = NoAnswer /\ q.entry = None
  BY <1>1, NotAnswered DEF Fields, RequestsOK, RequestOK
<1>4. u.h \in DOMAIN Manifest /\ u.kind # "file"
  BY TargetAssumption
<1>5. \/ t.kind = "health" /\ reqs' = [reqs EXCEPT ![r] = Reply(q, Answer(200))]
      \/ t.kind = "named" /\ reqs' = [reqs EXCEPT ![r] = Reply(q, Answer(404))]
      \/ reqs' = [reqs EXCEPT ![r] = Dispatch(q, u)]
  BY <1>2
<1> HIDE DEF q, u
<1>6. ASSUME t.kind = "health" PROVE RequestOK(Reply(q, Answer(200)))
  <2>1. Answer(200) # NoAnswer
    BY AnswerStatus
  <2>3. NotThere(Answer(200), q.target) /\ Leads(q.entry, q.target)
    BY <1>3, AnswerStatus DEF NotThere, Leads
  <2> QED
    BY <1>3, <2>1, <2>3, ReplyOK
<1>7. ASSUME t.kind = "named" PROVE RequestOK(Reply(q, Answer(404)))
  <2>1. Leads(q.entry, q.target)
    BY <1>3 DEF Leads
  <2>2. q.target.kind = "named"
    BY <1>1, <1>7, RequestFacts DEF q, Fields
  <2>3. NotThere(Answer(404), q.target)
    BY <2>2 DEF NotThere
  <2> QED
    BY <1>3, <2>1, <2>3, NoFile
<1>8. RequestOK(Dispatch(q, u))
  BY <1>3, <1>4, GotoManifest DEF Dispatch
<1>9. CASE t.kind = "health" /\ reqs' = [reqs EXCEPT ![r] = Reply(q, Answer(200))]
  BY <1>1, <1>6, <1>9, OneRequest
<1>10. CASE t.kind = "named" /\ reqs' = [reqs EXCEPT ![r] = Reply(q, Answer(404))]
  BY <1>1, <1>7, <1>10, OneRequest
<1>11. CASE reqs' = [reqs EXCEPT ![r] = Dispatch(q, u)]
  BY <1>1, <1>8, <1>11, OneRequest
<1> QED
  BY <1>5, <1>9, <1>10, <1>11

LEMMA ServeStepInv ==
    ASSUME ServeInv, NEW r \in Request, reqs[r].stage \in {"none", "resolve"},
           NEW c \in Client, NEW t, Serve(r, c, t),
           \/ Routed(t)
           \/ t.kind = "resolve" /\ Routed(t.to)
    PROVE  ServeInv'
<1>1. /\ RequestsOK /\ disk' = disk /\ faults' = faults
  BY DEF ServeInv, Serve
<1> SUFFICES RequestsOK'
  BY <1>1 DEF ServeInv, DiskWhole, FaultsOK
<1> DEFINE q == reqs[r]
           a == [q EXCEPT !.client = c]
           b == [q EXCEPT !.client = c, !.target = t]
           d == [q EXCEPT !.stage = "resolve", !.client = c, !.target = t.to]
<1>2. RequestOK(q) /\ DOMAIN q = Fields /\ q.answer = NoAnswer /\ q.entry = None
  BY <1>1, NotAnswered, RequestFacts DEF RequestOK
<1>3. /\ DOMAIN a = Fields /\ a.answer = NoAnswer
      /\ DOMAIN b = Fields /\ b.answer = NoAnswer /\ b.entry = None
  BY <1>2 DEF Fields
<1>4. \/ t.kind = "resolve" /\ reqs' = [reqs EXCEPT ![r] = d]
      \/ t.kind # "resolve" /\ reqs' = [reqs EXCEPT ![r] = Dispatch(a, t)]
      \/ reqs' = [reqs EXCEPT ![r] = Reply(b, Answer(429))]
  BY DEF Serve
<1>5. CASE t.kind = "resolve" /\ reqs' = [reqs EXCEPT ![r] = d]
  <2>1. Routed(t.to)
    BY <1>5 DEF Routed
  <2>2. /\ DOMAIN d = Fields /\ d.stage = "resolve" /\ d.target = t.to /\ d.client = c
        /\ d.entry = q.entry /\ d.jobs = q.jobs /\ d.answer = q.answer
    BY <1>2 DEF Fields
  <2> HIDE DEF d, q
  <2>3. ServedOK(d) /\ Leads(d.entry, d.target) /\ NotThere(d.answer, d.target)
    BY <1>2, <2>2 DEF ServedOK, NoAnswer, Leads, NotThere
  <2>4. RequestOK(d)
    BY <1>2, <2>1, <2>2, <2>3 DEF RequestOK, Stages, q
  <2> QED
    BY <1>1, <1>5, <2>4, OneRequest
<1>6. CASE t.kind # "resolve" /\ reqs' = [reqs EXCEPT ![r] = Dispatch(a, t)]
  <2> HIDE DEF a
  <2>1. RequestOK(Dispatch(a, t))
    BY <1>3, <1>6, DispatchOK
  <2> QED
    BY <1>1, <1>6, <2>1, OneRequest
<1>7. CASE reqs' = [reqs EXCEPT ![r] = Reply(b, Answer(429))]
  <2> HIDE DEF b
  <2>1. Leads(b.entry, b.target)
    BY <1>3 DEF Leads
  <2>2. RequestOK(Reply(b, Answer(429)))
    BY <1>3, <2>1, NoFile
  <2> QED
    BY <1>1, <1>7, <2>2, OneRequest
<1> QED
  BY <1>4, <1>5, <1>6, <1>7

\* The goroutines of an entry are those of its parts.
LEMMA OpenEntryOK ==
    ASSUME NEW q, DOMAIN q = Fields, q.answer = NoAnswer, q.entry = None,
           q.target.kind = "entry", q.target.h \in DOMAIN Manifest
    PROVE  RequestOK(OpenEntry(q, Manifest[q.target.h]))
<1> DEFINE es == Manifest[q.target.h]
           i == Resolve(es, q.target.path)
           e == es[i + 1]
<1>1. CASE i \notin 0 .. Len(es) - 1
  <2>1. Leads(q.entry, q.target)
    BY DEF Leads
  <2>2. Len(es) \in Nat /\ DOMAIN es = 1 .. Len(es)
    BY ManifestAssumption
  <2>3. ~StandsFor(es, q.target.path)
    BY <1>1, <2>2, ResolveFinds
  <2>4. NotThere(Answer(404), q.target)
    BY <2>3 DEF NotThere
  <2>5. OpenEntry(q, es) = Reply(q, Answer(404))
    BY <1>1 DEF OpenEntry
  <2> QED
    BY <2>1, <2>4, <2>5, NoFile
<1>2. CASE i \in 0 .. Len(es) - 1
  <2>1. /\ es \in Seq([f : Path \union {NoName}, parts : Seq(Hash)])
        /\ \A k \in DOMAIN es : es[k].parts # << >>
    BY ManifestAssumption
  <2>2. OpenEntry(q, es) = Goto(q, "content", q.target, e, Entry(e))
    BY <1>2 DEF OpenEntry
  <2> HIDE DEF es
  <2>3. i + 1 \in DOMAIN es /\ e \in [f : Path \union {NoName}, parts : Seq(Hash)]
    <3> DEFINE S == [f : Path \union {NoName}, parts : Seq(Hash)]
    <3>1. es \in Seq(S) /\ i \in 0 .. Len(es) - 1
      BY <1>2, <2>1 DEF es
    <3> HIDE DEF i, S
    <3>2. i + 1 \in DOMAIN es
      BY <3>1
    <3>3. es[i + 1] \in S
      BY <3>1, <3>2
    <3> QED
      BY <3>2, <3>3 DEF S
  <2>4. e.parts \in Seq(Hash) /\ e.parts # << >>
    BY <2>1, <2>3
  <2>9. Leads(e, q.target)
    <3>1. Len(es) \in Nat /\ DOMAIN es = 1 .. Len(es)
      BY <2>1
    <3>2. MeantBy(e, es, q.target.path)
      BY <2>3, <3>1, ResolveLeads
    <3> QED
      BY <3>2 DEF Leads, es
  <2> HIDE DEF i, e
  <2> DEFINE js == Entry(e)
             n == Len(e.parts)
  <2>5. n \in Nat \ {0} /\ DOMAIN e.parts = 1 .. n /\ 1 \in 1 .. n
    BY <2>4
  <2>6. CASE n > 1
    <3>1. js = [k \in 1 .. n |-> Job(e.parts[k], "raw")]
      BY <2>5, <2>6 DEF Entry
    <3>2. \A k \in 1 .. n : /\ JobOK(js[k]) /\ js[k].st = "wait"
                            /\ js[k].h = e.parts[k] /\ js[k].dir = "raw"
      BY <3>1, FreshJob
    <3>3. DOMAIN js = 1 .. n
      BY <3>1
    <3> HIDE DEF js
    <3>4. JobsOf(js, e.parts)
      BY <2>4, <2>5, <2>6, <3>2, <3>3 DEF JobsOf
    <3>5. RequestOK(Goto(q, "content", q.target, e, js))
      BY <2>5, <2>9, <3>2, <3>3, <3>4, GotoOK
    <3> QED
      BY <2>2, <3>5 DEF js, es
  <2>7. CASE ~(n > 1)
    <3>1. js = <<Job(e.parts[1], "plain")>> /\ n = 1
      BY <2>5, <2>7 DEF Entry
    <3>2. /\ DOMAIN js = 1 .. n /\ js[1] = Job(e.parts[1], "plain")
          /\ \A k \in 1 .. n : k = 1
      BY <3>1
    <3>3. \A k \in 1 .. n : /\ JobOK(js[k]) /\ js[k].st = "wait"
                            /\ js[k].h = e.parts[k] /\ js[k].dir = "plain"
      <4>1. /\ JobOK(js[1]) /\ js[1].st = "wait"
            /\ js[1].h = e.parts[1] /\ js[1].dir = "plain"
        BY <3>2, FreshJob
      <4> HIDE DEF js, n
      <4> QED
        BY <3>2, <4>1
    <3> HIDE DEF js
    <3>4. JobsOf(js, e.parts)
      BY <2>4, <2>5, <2>7, <3>2, <3>3 DEF JobsOf
    <3>5. RequestOK(Goto(q, "content", q.target, e, js))
      BY <2>5, <2>9, <3>2, <3>3, <3>4, GotoOK
    <3> QED
      BY <2>2, <3>5 DEF js, es
  <2> QED
    BY <2>6, <2>7
<1> QED
  BY <1>1, <1>2

\* A directory, its listing or its JSON: no file is served yet.
LEMMA OpenDirectoryOK ==
    ASSUME NEW q, DOMAIN q = Fields, q.answer = NoAnswer, q.entry = None,
           q.target.h \in DOMAIN Manifest
    PROVE  RequestOK(OpenDirectory(q, Manifest[q.target.h]))
<1> DEFINE es == Manifest[q.target.h]
           to(kind, p) == Goto(q, "manifest",
                               [kind |-> kind, h |-> q.target.h, path |-> p], None,
                               <<Job(q.target.h, "plain")>>)
           a == [status |-> 200, body |-> es, immutable |-> FALSE]
<1>1. \/ OpenDirectory(q, es) = to("entry", Index)
      \/ OpenDirectory(q, es) = to("dir", None)
      \/ OpenDirectory(q, es) = Reply(q, a)
  BY DEF OpenDirectory
<1>2. ASSUME NEW kind, NEW p PROVE RequestOK(to(kind, p))
  <2> DEFINE t == [kind |-> kind, h |-> q.target.h, path |-> p]
  <2>1. t.h \in DOMAIN Manifest /\ t.h = q.target.h
    OBVIOUS
  <2> HIDE DEF t
  <2>2. RequestOK(Goto(q, "manifest", t, None, <<Job(t.h, "plain")>>))
    BY <2>1, GotoManifest
  <2> QED
    BY <2>1, <2>2 DEF t
<1>3. RequestOK(Reply(q, a))
  <2>1. a # NoAnswer
    BY DEF NoAnswer
  <2>2. a.status = 200
    OBVIOUS
  <2> HIDE DEF a
  <2>3. NotThere(a, q.target)
    BY <2>2 DEF NotThere
  <2>4. Leads(q.entry, q.target)
    BY DEF Leads
  <2> QED
    BY <2>1, <2>3, <2>4, ReplyOK
<1>4. RequestOK(to("entry", Index)) /\ RequestOK(to("dir", None))
  BY <1>2
<1> HIDE DEF to, a
<1> QED
  BY <1>1, <1>3, <1>4

LEMMA ManifestReadInv ==
    ASSUME ServeInv, NEW r \in Request, ManifestRead(r)
    PROVE  ServeInv'
<1> DEFINE q == reqs[r]
<1>1. /\ RequestsOK /\ disk' = disk /\ faults' = faults /\ q.stage = "manifest"
  BY DEF ServeInv, ManifestRead
<1> SUFFICES RequestsOK'
  BY <1>1 DEF ServeInv, DiskWhole, FaultsOK
<1>2. /\ DOMAIN q = Fields /\ q.answer = NoAnswer /\ q.entry = None
      /\ q.target.h \in DOMAIN Manifest
  BY <1>1, NotAnswered DEF RequestsOK, RequestOK
<1> DEFINE es == Manifest[q.target.h]
           p == IF Failed(q) THEN Reply(q, Answer(502))
                ELSE IF q.target.kind = "entry" THEN OpenEntry(q, es)
                ELSE OpenDirectory(q, es)
<1>3. reqs' = [reqs EXCEPT ![r] = p]
  BY DEF ManifestRead
<1>4. RequestOK(Reply(q, Answer(502)))
  <2>1. Leads(q.entry, q.target)
    BY <1>2 DEF Leads
  <2> QED
    BY <1>2, <2>1, NoFile
<1>5. q.target.kind = "entry" => RequestOK(OpenEntry(q, es))
  BY <1>2, OpenEntryOK
<1>6. RequestOK(OpenDirectory(q, es))
  BY <1>2, OpenDirectoryOK
<1>7. RequestOK(p)
  <2> HIDE DEF q, es
  <2> QED
    BY <1>4, <1>5, <1>6
<1> HIDE DEF p
<1> QED
  BY <1>1, <1>3, <1>7, OneRequest

\* All parts are there, each in its place, and nothing else.
LEMMA AllParts ==
    ASSUME NEW jobs, NEW e, JobsOf(jobs, e.parts),
           \A k \in DOMAIN jobs : JobOK(jobs[k]) /\ jobs[k].st = "done"
    PROVE  Combined(jobs) = Body(e)
<1> DEFINE ps == e.parts
<1>1. /\ ps \in Seq(Hash) /\ ps # << >> /\ DOMAIN jobs = DOMAIN ps
      /\ \A k \in DOMAIN jobs : /\ jobs[k].h = ps[k]
                                /\ jobs[k].dir = IF Len(ps) > 1 THEN "raw" ELSE "plain"
  BY DEF JobsOf
<1>2. \A k \in DOMAIN jobs : jobs[k].data = Wanted(jobs[k])
  BY DEF JobOK
<1> HIDE DEF ps
<1>3. /\ Len(ps) \in Nat \ {0} /\ DOMAIN ps = 1 .. Len(ps)
      /\ ps = [k \in DOMAIN ps |-> ps[k]]
  BY <1>1
<1>4. CASE Len(ps) = 1
  <2>1. DOMAIN jobs = {1} /\ jobs[1].data = Plain(ps[1])
    BY <1>1, <1>2, <1>3, <1>4 DEF Wanted
  <2>2. ps = <<ps[1]>>
    BY <1>1, <1>3, <1>4
  <2>3. Plain(ps[1]) = [form |-> "plain", of |-> ps]
    BY <2>2 DEF Plain
  <2> QED
    BY <2>1, <2>3 DEF Combined, Body, ps
<1>5. CASE Len(ps) > 1
  <2>1. 2 \in DOMAIN jobs
    BY <1>1, <1>3, <1>5
  <2>2. DOMAIN jobs # {1}
    BY <2>1
  <2>3. \A k \in DOMAIN jobs : jobs[k].data = Raw(jobs[k].h)
    BY <1>1, <1>2, <1>5 DEF Wanted
  <2>4. [k \in DOMAIN jobs |-> jobs[k].h] = ps
    BY <1>1, <1>3
  <2> QED
    BY <2>2, <2>3, <2>4 DEF Combined, Body, ps
<1> QED
  BY <1>3, <1>4, <1>5

LEMMA ContentReadInv ==
    ASSUME ServeInv, NEW r \in Request, ContentRead(r)
    PROVE  ServeInv'
<1> DEFINE q == reqs[r]
           body == Combined(q.jobs)
           rewrite == q.entry.parts[1] \in Rewritten
           a == [status |-> 200, immutable |-> ~rewrite,
                 body |-> IF rewrite THEN [body EXCEPT !.form = "rewritten"] ELSE body]
<1>1. /\ RequestsOK /\ disk' = disk /\ faults' = faults /\ q.stage = "content"
      /\ Over(q)
  BY DEF ServeInv, ContentRead
<1> SUFFICES RequestsOK'
  BY <1>1 DEF ServeInv, DiskWhole, FaultsOK
<1>2. /\ DOMAIN q = Fields /\ q.answer = NoAnswer
      /\ JobsOf(q.jobs, q.entry.parts)
      /\ \A k \in DOMAIN q.jobs : JobOK(q.jobs[k])
      /\ Leads(q.entry, q.target) /\ q.target.kind \in {"entry", "file"}
  BY <1>1, NotAnswered DEF RequestsOK, RequestOK
<1>3. reqs' = [reqs EXCEPT ![r] = IF Failed(q) THEN Reply(q, Answer(502)) ELSE Reply(q, a)]
  BY DEF ContentRead, PartsFailed
<1>4. CASE Failed(q)
  <2>1. RequestOK(Reply(q, Answer(502)))
    BY <1>2, NoFile
  <2>2. reqs' = [reqs EXCEPT ![r] = Reply(q, Answer(502))]
    BY <1>3, <1>4
  <2> QED
    BY <1>1, <2>1, <2>2, OneRequest
<1>5. CASE ~Failed(q)
  <2>1. \A k \in DOMAIN q.jobs : JobOK(q.jobs[k]) /\ q.jobs[k].st = "done"
    BY <1>1, <1>2, <1>5 DEF Over, Failed
  <2>2. body = Body(q.entry)
    BY <1>2, <2>1, AllParts
  <2>3. /\ a.status = 200 /\ a # NoAnswer
        /\ rewrite => ~a.immutable /\ a.body = [body EXCEPT !.form = "rewritten"]
        /\ ~rewrite => a.body = body
    <3>1. a.status = 200
      OBVIOUS
    <3>2. a # NoAnswer
      <4>1. NoAnswer.status = 0
        BY DEF NoAnswer
      <4> HIDE DEF a
      <4> QED
        BY <3>1, <4>1
    <3>3. a.immutable = ~rewrite
      OBVIOUS
    <3>4. a.body = IF rewrite THEN [body EXCEPT !.form = "rewritten"] ELSE body
      OBVIOUS
    <3> HIDE DEF a, rewrite, body
    <3> QED
      BY <3>1, <3>2, <3>3, <3>4
  <2>4. reqs' = [reqs EXCEPT ![r] = Reply(q, a)]
    BY <1>3, <1>5
  <2>b. a.status = 200
    OBVIOUS
  <2> HIDE DEF a, body, rewrite
  <2>5. \/ a.body = Body(q.entry)
        \/ ~a.immutable /\ a.body = [Body(q.entry) EXCEPT !.form = "rewritten"]
    BY <2>2, <2>3
  <2> HIDE DEF q
  <2>6. NotThere(a, q.target)
    BY <2>b DEF NotThere
  <2>7. RequestOK(Reply(q, a))
    BY <1>2, <2>3, <2>5, <2>6, ReplyOK
  <2> QED
    BY <1>1, <2>4, <2>7, OneRequest DEF q
<1> QED
  BY <1>4, <1>5

\* What was under way is lost; the files under their own names stay whole.
LEMMA RestartInv == ServeInv /\ Restart => ServeInv'
<1> SUFFICES ASSUME ServeInv, Restart PROVE ServeInv'
  OBVIOUS
<1>1. RequestsOK /\ DiskWhole /\ FaultsOK /\ disk' = disk
  BY DEF ServeInv, Restart
<1>2. FaultsOK'
  <2>1. faults < MaxFaults /\ faults' = faults + 1
    BY DEF Restart, Fault
  <2> QED
    BY <1>1, <2>1, ServeAssumption DEF FaultsOK
<1>3. RequestsOK'
  <2>1. DOMAIN reqs' = Request
    BY DEF Restart
  <2>2. ASSUME NEW r \in Request PROVE RequestOK(reqs'[r])
    <3> DEFINE q == reqs[r]
               p == [q EXCEPT !.stage = "lost", !.jobs = << >>]
    <3>1. reqs'[r] = IF q.stage \in {"none", "answered"} THEN q ELSE p
      BY DEF Restart
    <3>2. RequestOK(q)
      BY <1>1 DEF RequestsOK
    <3>3. CASE q.stage \notin {"none", "answered"}
      <4>1. /\ DOMAIN p = Fields /\ p.stage = "lost" /\ p.jobs = << >>
            /\ p.answer = NoAnswer /\ q.answer = NoAnswer
            /\ p.entry = q.entry /\ p.target = q.target
        BY <1>1, <3>2, <3>3, NotAnswered DEF RequestOK, Fields
      <4> HIDE DEF p
      <4>2. ServedOK(p)
        BY <4>1 DEF ServedOK, NoAnswer
      <4>3. /\ DOMAIN p.jobs = 1 .. 0 /\ DOMAIN << >> = {}
            /\ Cardinality(Running(p.jobs)) <= Limit
        BY <4>1, NoJobs, ServeAssumption
      <4>4. RequestOK(p)
        BY <3>2, <4>1, <4>2, <4>3 DEF RequestOK, Stages
      <4> QED
        BY <3>1, <3>3, <4>4
    <3> HIDE DEF p
    <3> QED
      BY <3>1, <3>2, <3>3
  <2> QED
    BY <2>1, <2>2 DEF RequestsOK
<1> QED
  BY <1>1, <1>2, <1>3 DEF ServeInv, DiskWhole

-----------------------------------------------------------------------------
(* The theorems *)

LEMMA ServeInit == Init => ServeInv
<1> SUFFICES ASSUME Init PROVE ServeInv
  OBVIOUS
<1>1. /\ DOMAIN reqs = Request /\ \A r \in Request : reqs[r] = NewRequest
      /\ disk = {} /\ faults = 0
  BY DEF Init
<1>2. RequestOK(NewRequest)
  <2> DEFINE p == NewRequest
  <2>1. /\ DOMAIN p = Fields /\ p.stage = "none" /\ p.entry = None
        /\ p.jobs = << >> /\ p.answer = NoAnswer
    BY DEF NewRequest, Fields
  <2> HIDE DEF p
  <2>2. ServedOK(p) /\ Leads(p.entry, p.target) /\ NotThere(p.answer, p.target)
    BY <2>1 DEF ServedOK, NoAnswer, Leads, NotThere
  <2>3. /\ DOMAIN p.jobs = 1 .. 0 /\ DOMAIN << >> = {}
        /\ Cardinality(Running(p.jobs)) <= Limit
    BY <2>1, NoJobs, ServeAssumption
  <2>4. RequestOK(p)
    BY <2>1, <2>2, <2>3 DEF RequestOK, Stages
  <2> QED
    BY <2>4 DEF p
<1> QED
  BY <1>1, <1>2, ServeAssumption DEF ServeInv, RequestsOK, DiskWhole, FaultsOK

LEMMA ArriveInv == ASSUME ServeInv, NEW r \in Request, Arrive(r) PROVE ServeInv'
<1>1. PICK c \in Client, t \in Target :
         t.kind \notin {"named", "health"} /\ Serve(r, c, t)
  BY DEF Arrive
<1>2. \/ Routed(t)
      \/ t.kind = "resolve" /\ Routed(t.to)
  BY <1>1, TargetAssumption
<1>3. reqs[r].stage \in {"none", "resolve"}
  BY DEF Arrive
<1> QED
  BY <1>1, <1>2, <1>3, ServeStepInv

LEMMA RedispatchInv ==
    ASSUME ServeInv, NEW r \in Request, Redispatch(r) PROVE ServeInv'
<1>1. reqs[r].stage = "resolve" /\ Serve(r, reqs[r].client, reqs[r].target)
  BY DEF Redispatch
<1>2. Routed(reqs[r].target) /\ reqs[r].client \in Client
  <2>1. RequestOK(reqs[r])
    BY DEF ServeInv, RequestsOK
  <2> QED
    BY <1>1, <2>1 DEF RequestOK
<1> QED
  BY <1>1, <1>2, ServeStepInv

LEMMA ServeNext == ServeInv /\ [Next]_vars => ServeInv'
<1> SUFFICES ASSUME ServeInv, [Next]_vars PROVE ServeInv'
  OBVIOUS
<1>1. CASE UNCHANGED <<reqs, disk, faults>>
  BY <1>1 DEF ServeInv, RequestsOK, DiskWhole, FaultsOK
<1>2. CASE UNCHANGED vars
  BY <1>1, <1>2 DEF vars
<1>3. CASE \E r \in Request : Arrive(r) \/ ArriveUnlimited(r)
  BY <1>3, ArriveInv, ArriveUnlimitedInv
<1>4. CASE HandlerStep
  BY <1>4, RedispatchInv, ManifestReadInv, ContentReadInv DEF HandlerStep
<1> QED
  BY <1>1, <1>2, <1>3, <1>4, JobStepInv, RestartInv DEF Next

LEMMA ServeInvTyped == ServeInv => TypeOK
BY DEF ServeInv, RequestsOK, RequestOK, FaultsOK, TypeOK

LEMMA ServeInvWhole == ServeInv => ServedWhole
BY DEF ServeInv, RequestsOK, RequestOK, ServedOK, ServedWhole

LEMMA ServeInvLeads == ServeInv => PathsLead
BY DEF ServeInv, RequestsOK, RequestOK, PathsLead

LEMMA ServeInvDisk == ServeInv => DiskWhole
BY DEF ServeInv

\* The requests are typed; none has more than Limit goroutines at work.
THEOREM ServeTypeCorrect == Spec => []TypeOK
BY ServeInit, ServeNext, ServeInvTyped, PTL DEF Spec

\* The cache directory never holds part of a file under a file's name.
THEOREM ServeDiskWhole == Spec => []DiskWhole
BY ServeInit, ServeNext, ServeInvDisk, PTL DEF Spec

\* No answer carries part of a file, or its parts out of order.
THEOREM ServeServedWhole == Spec => []ServedWhole
BY ServeInit, ServeNext, ServeInvWhole, PTL DEF Spec

\* Every path leads to the file it names, and "not found" is said only of a path
\* that stands for no entry, whatever the names and their number.
THEOREM ServePathsLead == Spec => []PathsLead
BY ServeInit, ServeNext, ServeInvLeads, PTL DEF Spec

\* The limiter within the gateway: every step is one of its own, leaves it
\* alone, or begins it anew.
LEMMA LimiterStep == ServeInv /\ [Next]_vars => [LimiterNext]_limiterVars \/ Restart
<1> SUFFICES ASSUME ServeInv, [Next]_vars
             PROVE  [LimiterNext]_limiterVars \/ Restart
  OBVIOUS
<1>1. CASE UNCHANGED limiterVars
  BY <1>1
<1>2. CASE UNCHANGED vars
  BY <1>2 DEF vars
<1>3. ASSUME NEW r \in Request, NEW c \in Client, NEW t, Serve(r, c, t)
      PROVE  LimiterNext
  <2>1. Allowed(c) \/ Denied(c)
    BY <1>3 DEF Serve
  <2> QED
    BY <2>1 DEF LimiterNext
<1>4. CASE \E r \in Request : Arrive(r) \/ ArriveUnlimited(r)
  <2>1. CASE \E r \in Request : ArriveUnlimited(r)
    BY <1>1, <2>1 DEF ArriveUnlimited
  <2>2. CASE \E r \in Request : Arrive(r)
    BY <1>3, <2>2 DEF Arrive
  <2> QED
    BY <1>4, <2>1, <2>2
<1>5. CASE HandlerStep
  <2>1. CASE \E r \in Request : Redispatch(r)
    <3>1. PICK r \in Request : /\ reqs[r].stage = "resolve"
                               /\ Serve(r, reqs[r].client, reqs[r].target)
      BY <2>1 DEF Redispatch
    <3>2. RequestOK(reqs[r])
      BY DEF ServeInv, RequestsOK
    <3>3. reqs[r].client \in Client
      BY <3>1, <3>2 DEF RequestOK
    <3> QED
      BY <1>3, <3>1, <3>3
  <2>2. CASE \E r \in Request : ManifestRead(r) \/ ContentRead(r)
    <3>1. UNCHANGED limiterVars
      BY <2>2 DEF ManifestRead, ContentRead
    <3> QED
      BY <1>1, <3>1
  <2> QED
    BY <1>5, <2>1, <2>2 DEF HandlerStep
<1>6. CASE JobStep
  <2>1. UNCHANGED limiterVars
    BY <1>6 DEF JobStep, StartJob, Fetched, Write, Rename
  <2> QED
    BY <1>1, <2>1
<1>7. CASE now < MaxTime /\ Tick /\ UNCHANGED <<reqs, disk, faults>>
  BY <1>7 DEF LimiterNext
<1>8. CASE Cleanup /\ UNCHANGED <<reqs, disk, faults>>
  BY <1>8 DEF LimiterNext
<1> QED
  BY <1>2, <1>4, <1>5, <1>6, <1>7, <1>8 DEF Next

LEMMA RestartFresh == LimiterInv /\ Restart => Fresh'
BY DEF LimiterInv, BucketsInv, Restart, Fresh

LEMMA ServeLimiterInv == LimiterInv /\ ServeInv /\ [Next]_vars => LimiterInv'
<1>1. Restart /\ LimiterInv => LimiterInv'
  BY RestartFresh, FreshInv, PTL
<1> QED
  BY <1>1, LimiterStep, LimiterNextInv

LEMMA ServeLimiterInit == Init => LimiterInv
BY LimiterInitInv DEF Init

\* The gateway serves no client faster than its rate and burst allow, though
\* a request for a site's URL asks the limiter twice and buckets are dropped.
THEOREM ServeWithinRate == Spec => []WithinRate
BY ServeInit, ServeNext, ServeLimiterInit, ServeLimiterInv, LimiterInvWithinRate,
   PTL DEF Spec

\* The limiter's buckets stay typed within the gateway.
THEOREM ServeLimiterTyped == Spec => []LimiterTypeOK
BY ServeInit, ServeNext, ServeLimiterInit, ServeLimiterInv, LimiterInvTyped,
   PTL DEF Spec
=============================================================================

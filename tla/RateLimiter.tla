----------------------------- MODULE RateLimiter ----------------------------
(***************************************************************************)
(* The gateway's rate limiter (gateway/ratelimit.go): a token bucket per   *)
(* client, made full when the client is first seen, and dropped by a       *)
(* cleanup when the client has not been seen for a while.  golang.org/x/   *)
(* time/rate refills a bucket lazily, when it is asked.  Time is counted   *)
(* in ticks, in each of which a bucket gains Rate tokens.                  *)
(***************************************************************************)
EXTENDS Integers, Sequences, FiniteSets

CONSTANTS Client,   \* addresses as clientIP reports them
          Rate,     \* RateLimitRPS, as tokens per tick
          Burst,    \* RateLimitBurst
          Idle      \* 15 minutes, in ticks

\* A bucket that is dropped would be full again: with the default burst of
\* four times the rate it is after four seconds.
ASSUME RateLimiterAssumption ==
    /\ Rate \in Nat \ {0} /\ Burst \in Nat \ {0} /\ Idle \in Nat
    /\ Burst <= Rate * Idle

VARIABLES now,      \* time.Now
          buckets,  \* the limiters map: client -> tokens, last, lastSeen
          grants    \* history: the times of the requests let through

limiterVars == <<now, buckets, grants>>

LimiterInit == /\ now = 0
               /\ buckets = [c \in {} |-> 0]
               /\ grants = [c \in Client |-> << >>]

AtMost(n, m) == IF n <= m THEN n ELSE m

\* What the limiter of client c would hold now; a new limiter is full.
Tokens(c) ==
    IF c \in DOMAIN buckets
    THEN AtMost(Burst, buckets[c].tokens + Rate * (now - buckets[c].last))
    ELSE Burst

With(c, b) == [x \in DOMAIN buckets \union {c} |-> IF x = c THEN b ELSE buckets[x]]

\* Allow returns true: a token is taken.
Allowed(c) ==
    /\ Tokens(c) >= 1
    /\ buckets' = With(c, [tokens |-> Tokens(c) - 1, last |-> now, lastSeen |-> now])
    /\ grants' = [grants EXCEPT ![c] = Append(@, now)]
    /\ UNCHANGED now

\* Allow returns false: the client has been seen.
Denied(c) ==
    /\ Tokens(c) < 1
    /\ buckets' = [buckets EXCEPT ![c].lastSeen = now]
    /\ UNCHANGED <<now, grants>>

Tick == now' = now + 1 /\ UNCHANGED <<buckets, grants>>

\* Faulty variant: the cleanup drops every bucket.
StaleAlways(c) == TRUE

Stale(c) == buckets[c].lastSeen < now - Idle

\* cleanupLoop
Cleanup == /\ buckets' = [c \in {x \in DOMAIN buckets : ~Stale(x)} |-> buckets[c]]
           /\ UNCHANGED <<now, grants>>

LimiterNext == Tick \/ Cleanup \/ \E c \in Client : Allowed(c) \/ Denied(c)

LimiterSpec == LimiterInit /\ [][LimiterNext]_limiterVars

-----------------------------------------------------------------------------

\* Buckets of known clients, never above the burst, with times in the past.
LimiterTypeOK ==
    /\ now \in Nat
    /\ DOMAIN buckets \subseteq Client
    /\ \A c \in DOMAIN buckets :
        /\ buckets[c] \in [tokens : 0 .. Burst, last : 0 .. now, lastSeen : 0 .. now]
        /\ buckets[c].last <= buckets[c].lastSeen
    /\ grants \in [Client -> Seq(0 .. now)]

GrantsSince(c, s) == {i \in DOMAIN grants[c] : grants[c][i] >= s}

\* From any moment on, no client has been let through more often than its
\* burst and the rate since then allow, though its bucket may have been
\* dropped and made anew, full, in between.
WithinRate ==
    \A c \in Client : \A s \in 0 .. now :
        Cardinality(GrantsSince(c, s)) <= Burst + Rate * (now - s)
=============================================================================

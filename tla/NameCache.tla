----------------------------- MODULE NameCache ------------------------------
(***************************************************************************)
(* How the gateway resolves a site's name (gateway/names.go): concurrent   *)
(* requests, the cache with its expiry and its limit, the collapsing of    *)
(* concurrent lookups into one (`do`), and the lookup itself, which asks   *)
(* the registries in turn, each through the RPC nodes in turn.             *)
(*                                                                         *)
(* A request is a goroutine that resolves one name.  An inflightLookup is  *)
(* named by the request that leads it: result[r] is its info and err,      *)
(* r \in landed says that its WaitGroup is released.  Lookups are numbered *)
(* in the order in which they begin, and every result carries its number.  *)
(***************************************************************************)
EXTENDS Integers, FiniteSets

CONSTANTS Request, Name, Site,
          NRegistries,          \* registries, the preferred one first: V2, V1
          NRpcs,                \* RPC nodes of the names chain
          TTL,                  \* nameCacheTTL
          MaxSize,              \* nameCacheMaxSize
          Registries,           \* what the registries may hold at the start
          NotRegistered, Failed, None,
          MaxTime, MaxChanges   \* bounds

ASSUME NameCacheAssumption ==
    /\ Request \subseteq Nat
    /\ NRegistries \in Nat \ {0} /\ NRpcs \in Nat \ {0}
    /\ TTL \in Nat /\ MaxSize \in Nat \ {0}
    /\ MaxTime \in Nat /\ MaxChanges \in Nat
    /\ NotRegistered \notin Site /\ Failed \notin Site \union {NotRegistered}
    /\ None \notin Site
    /\ Registries \subseteq [1 .. NRegistries -> [Name -> Site \union {None}]]

VARIABLES registry,     \* registry[c][n]: the site of n in registry c
          entries,      \* the cache: name -> result and expiresAt
          flight,       \* the request that leads the lookup of a name
          landed,       \* the leaders whose waiters are released
          pc, name,     \* where a request is, the name it resolves
          asking,       \* the registry and the node a leader asks next
          saw,          \* sawNotRegistered
          result,       \* info and err of the lookup a request leads
          joined,       \* the leader a request waits for
          answer,       \* what a request got
          lookups,      \* lookups begun
          now, changes, \* the clock; changes of the registries
          started, floor  \* when a request began; the newest lookup whose
                          \* result had been given for its name by then

cacheVars == <<entries, flight, landed>>
reqVars == <<pc, name, asking, saw, result, joined, answer, lookups,
             started, floor>>
vars == <<registry, cacheVars, reqVars, now, changes>>

First == [registry |-> 1, rpc |-> 1]
NoResult == [site |-> Failed, lookup |-> 0, at |-> 0]

Init == /\ registry \in Registries
        /\ entries = [n \in {} |-> NoResult]
        /\ flight = [n \in {} |-> None] /\ landed = {}
        /\ pc = [r \in Request |-> "new"]
        /\ name = [r \in Request |-> None]
        /\ asking = [r \in Request |-> First]
        /\ saw = [r \in Request |-> FALSE]
        /\ result = [r \in Request |-> NoResult]
        /\ joined = [r \in Request |-> r]
        /\ answer = [r \in Request |-> NoResult]
        /\ lookups = 0 /\ now = 0 /\ changes = 0
        /\ started = [r \in Request |-> 0] /\ floor = [r \in Request |-> 0]

-----------------------------------------------------------------------------
(* The cache *)

Expired(n) == now > entries[n].expiresAt

\* Faulty variant: an entry is good for as long as the cleanup leaves it.
FreshUnchecked(n) == n \in DOMAIN entries

\* get finds n.
Fresh(n) == n \in DOMAIN entries /\ ~Expired(n)

Cached(n) == [site |-> entries[n].site, lookup |-> entries[n].lookup,
              at |-> entries[n].at]

Put(kept, n, res) ==
    entries' = [k \in kept \union {n} |->
        IF k = n THEN [site |-> res.site, lookup |-> res.lookup,
                       at |-> res.at, expiresAt |-> now + TTL]
                 ELSE entries[k]]

\* Faulty variant: a full cache only drops what has expired.
SetExpiredOnly(n, res) ==
    IF Cardinality(DOMAIN entries) < MaxSize
    THEN Put(DOMAIN entries, n, res)
    ELSE Put({k \in DOMAIN entries : ~Expired(k)}, n, res)

\* set: a full cache drops what has expired, then arbitrary entries.
Set(n, res) ==
    IF Cardinality(DOMAIN entries) < MaxSize
    THEN Put(DOMAIN entries, n, res)
    ELSE \E kept \in SUBSET {k \in DOMAIN entries : ~Expired(k)} :
            /\ Cardinality(kept) < MaxSize
            /\ \A k \in DOMAIN entries \ kept :
                    Expired(k) \/ Cardinality(kept) = MaxSize - 1
            /\ Put(kept, n, res)

\* One round of cleanupLoop.
Cleanup == /\ \E n \in DOMAIN entries : Expired(n)
           /\ entries' = [n \in {k \in DOMAIN entries : ~Expired(k)} |-> entries[n]]
           /\ UNCHANGED <<registry, flight, landed, reqVars, now, changes>>

-----------------------------------------------------------------------------
(* Requests *)

Goto(r, l) == pc' = [pc EXCEPT ![r] = l]

Answer(r, res) == /\ answer' = [answer EXCEPT ![r] = res]
                  /\ Goto(r, "answered")

\* The numbers of the lookups whose results were given for n.
Given(n) == {answer[r].lookup : r \in {q \in Request : /\ pc[q] = "answered"
                                                       /\ name[q] = n}}

\* A request for a site arrives; requests are numbered as they arrive.
Begin(r, n) ==
    /\ pc[r] = "new" /\ Goto(r, "get")
    /\ \A q \in Request : q < r => pc[q] # "new"
    /\ name' = [name EXCEPT ![r] = n]
    /\ started' = [started EXCEPT ![r] = now]
    /\ \E f \in Given(n) \union {0} :
        /\ \A g \in Given(n) : g <= f
        /\ floor' = [floor EXCEPT ![r] = f]
    /\ UNCHANGED <<registry, cacheVars, asking, saw, result, joined, answer,
                   lookups, now, changes>>

\* lookupName looks into the cache first.
Get(r) ==
    /\ pc[r] = "get"
    /\ IF Fresh(name[r]) THEN Answer(r, Cached(name[r]))
                         ELSE Goto(r, "do") /\ UNCHANGED answer
    /\ UNCHANGED <<registry, cacheVars, name, asking, saw, result, joined,
                   lookups, now, changes, started, floor>>

\* Faulty variant: concurrent lookups are not collapsed.
DoAlone(r) ==
    /\ pc[r] = "do"
    /\ flight' = [n \in DOMAIN flight \union {name[r]} |->
                    IF n = name[r] THEN r ELSE flight[n]]
    /\ Goto(r, "recheck") /\ UNCHANGED joined
    /\ UNCHANGED <<registry, entries, landed, name, asking, saw, result,
                   answer, lookups, now, changes, started, floor>>

\* do: join the lookup that is in flight, or lead one.
Do(r) ==
    /\ pc[r] = "do"
    /\ IF name[r] \in DOMAIN flight
       THEN /\ joined' = [joined EXCEPT ![r] = flight[name[r]]]
            /\ Goto(r, "wait") /\ UNCHANGED flight
       ELSE /\ flight' = [n \in DOMAIN flight \union {name[r]} |->
                            IF n = name[r] THEN r ELSE flight[n]]
            /\ Goto(r, "recheck") /\ UNCHANGED joined
    /\ UNCHANGED <<registry, entries, landed, name, asking, saw, result,
                   answer, lookups, now, changes, started, floor>>

\* The WaitGroup is released.
Wake(r) ==
    /\ pc[r] = "wait" /\ joined[r] \in landed
    /\ Answer(r, result[joined[r]])
    /\ joined' = [joined EXCEPT ![r] = r]
    /\ UNCHANGED <<registry, cacheVars, name, asking, saw, result, lookups,
                    now, changes, started, floor>>

\* Faulty variant: the leader does not look into the cache again.
RecheckNot(r) ==
    /\ pc[r] = "recheck" /\ Goto(r, "rpc")
    /\ lookups' = lookups + 1
    /\ result' = [result EXCEPT ![r].lookup = lookups + 1]
    /\ UNCHANGED <<registry, cacheVars, name, asking, saw, joined, answer,
                   now, changes, started, floor>>

\* The leader looks into the cache again: the lookup it missed may have ended
\* before it took the lead.
Recheck(r) ==
    /\ pc[r] = "recheck"
    /\ IF Fresh(name[r])
       THEN /\ result' = [result EXCEPT ![r] = Cached(name[r])]
            /\ Goto(r, "land") /\ UNCHANGED lookups
       ELSE /\ lookups' = lookups + 1
            /\ result' = [result EXCEPT ![r].lookup = lookups + 1]
            /\ Goto(r, "rpc")
    /\ UNCHANGED <<registry, cacheVars, name, asking, saw, joined, answer,
                   now, changes, started, floor>>

\* The loop over registries and nodes ends with s; its variables are gone.
Conclude(r, s) ==
    /\ result' = [result EXCEPT ![r].site = s, ![r].at = now]
    /\ Goto(r, IF s = Failed THEN "land" ELSE "store")
    /\ asking' = [asking EXCEPT ![r] = First]
    /\ saw' = [saw EXCEPT ![r] = FALSE]

\* On to the next registry; after the last one, "not registered" if any
\* registry said so.
NextRegistry(r, sawIt) ==
    IF asking[r].registry < NRegistries
    THEN /\ asking' = [asking EXCEPT ![r] =
                        [registry |-> asking[r].registry + 1, rpc |-> 1]]
         /\ saw' = [saw EXCEPT ![r] = sawIt]
         /\ UNCHANGED <<pc, result>>
    ELSE Conclude(r, IF sawIt THEN NotRegistered ELSE Failed)

\* The node asked answers.
Ask(r) ==
    /\ pc[r] = "rpc"
    /\ LET s == registry[asking[r].registry][name[r]] IN
        IF s # None THEN Conclude(r, s) ELSE NextRegistry(r, TRUE)
    /\ UNCHANGED <<registry, cacheVars, name, joined, answer, lookups, now,
                   changes, started, floor>>

\* The node asked cannot be reached, or answers an error or nonsense.
AskFails(r) ==
    /\ pc[r] = "rpc"
    /\ IF asking[r].rpc < NRpcs
       THEN /\ asking' = [asking EXCEPT ![r].rpc = asking[r].rpc + 1]
            /\ UNCHANGED <<pc, result, saw>>
       ELSE NextRegistry(r, saw[r])
    /\ UNCHANGED <<registry, cacheVars, name, joined, answer, lookups,
                   now, changes, started, floor>>

\* Sites and "not registered" are cached, other failures are not.
Store(r) ==
    /\ pc[r] = "store" /\ Goto(r, "land")
    /\ Set(name[r], result[r])
    /\ UNCHANGED <<registry, flight, landed, name, asking, saw, result,
                   joined, answer, lookups, now, changes, started, floor>>

\* Faulty variant: a lookup that failed stays in flight.
LandOnSuccess(r) ==
    /\ pc[r] = "land" /\ Goto(r, "release")
    /\ flight' = IF result[r].site = Failed THEN flight
                 ELSE [n \in DOMAIN flight \ {name[r]} |-> flight[n]]
    /\ UNCHANGED <<registry, entries, landed, name, asking, saw, result,
                   joined, answer, lookups, now, changes, started, floor>>

\* The deferred function of do takes the lookup out of flight ...
Land(r) ==
    /\ pc[r] = "land" /\ Goto(r, "release")
    /\ flight' = [n \in DOMAIN flight \ {name[r]} |-> flight[n]]
    /\ UNCHANGED <<registry, entries, landed, name, asking, saw, result,
                   joined, answer, lookups, now, changes, started, floor>>

\* Faulty variant: only a lookup that found something wakes those who wait.
ReleaseOnSuccess(r) ==
    /\ pc[r] = "release" /\ Answer(r, result[r])
    /\ landed' = IF result[r].site = Failed THEN landed
                                            ELSE landed \union {r}
    /\ UNCHANGED <<registry, entries, flight, name, asking, saw, result,
                   joined, lookups, now, changes, started, floor>>

\* ... and wakes those who wait for it.
Release(r) ==
    /\ pc[r] = "release" /\ Answer(r, result[r])
    /\ landed' = landed \union {r}
    /\ UNCHANGED <<registry, entries, flight, name, asking, saw, result,
                   joined, lookups, now, changes, started, floor>>

-----------------------------------------------------------------------------
(* The world *)

\* A name is registered or its site is changed; names never go away.
Change(c, n, s) ==
    /\ changes < MaxChanges /\ changes' = changes + 1
    /\ registry[c][n] # s
    /\ registry' = [registry EXCEPT ![c][n] = s]
    /\ UNCHANGED <<cacheVars, reqVars, now>>

\* Only the network takes time: a goroutine's own steps are instantaneous on
\* the scale of the TTL.
Busy(r) == \/ pc[r] \in {"get", "do", "recheck", "store", "land", "release"}
           \/ pc[r] = "wait" /\ joined[r] \in landed

Tick == /\ now < MaxTime /\ now' = now + 1
        /\ \A r \in Request : ~Busy(r)
        /\ UNCHANGED <<registry, cacheVars, reqVars, changes>>

Step(r) == \/ Get(r) \/ Do(r) \/ Wake(r) \/ Recheck(r) \/ Ask(r) \/ AskFails(r)
           \/ Store(r) \/ Land(r) \/ Release(r)

Next == \/ \E r \in Request : Step(r) \/ \E n \in Name : Begin(r, n)
        \/ \E c \in 1 .. NRegistries, n \in Name, s \in Site : Change(c, n, s)
        \/ Cleanup \/ Tick

Spec == Init /\ [][Next]_vars

\* When goroutines can run, one of them does, and every RPC call ends with an
\* answer or an error.  (The gateway itself puts no time limit on a call.)
FairSpec == Spec /\ WF_vars(\E r \in Request : Step(r))

-----------------------------------------------------------------------------
(* Properties *)

Results == [site : Site \union {NotRegistered, Failed}, lookup : Nat, at : Nat]

Leading == {"recheck", "rpc", "store", "land"}

\* Types; the lookups in flight are those whose leaders have not landed.
TypeOK ==
    /\ registry \in [1 .. NRegistries -> [Name -> Site \union {None}]]
    /\ DOMAIN entries \subseteq Name
    /\ \A n \in DOMAIN entries : /\ Cached(n) \in Results
                                 /\ entries[n].expiresAt \in Nat
    /\ pc \in [Request -> {"new", "get", "do", "wait", "release", "answered"}
                            \union Leading]
    /\ \A r \in Request : pc[r] # "new" => name[r] \in Name
    /\ asking \in [Request -> [registry : 1 .. NRegistries, rpc : 1 .. NRpcs]]
    /\ result \in [Request -> Results] /\ answer \in [Request -> Results]
    /\ joined \in [Request -> Request] /\ landed \subseteq Request
    /\ now \in Nat /\ lookups \in Nat
    /\ \A n \in DOMAIN flight : /\ flight[n] \in Request
                                /\ pc[flight[n]] \in Leading
                                /\ name[flight[n]] = n

\* While nodes are asked for a name, nobody else asks for it, and the cache
\* does not know it: no lookup is made that another one made superfluous.
NoSuperfluousLookup ==
    \A r \in Request : pc[r] \in {"rpc", "store"} =>
        /\ ~Fresh(name[r])
        /\ \A q \in Request \ {r} :
                pc[q] \in {"rpc", "store"} => name[q] # name[r]

\* A visitor who comes after another one was answered never gets the result of
\* an older lookup: sites do not flip back.
NeverBackInTime ==
    \A r \in Request : pc[r] = "answered" => answer[r].lookup >= floor[r]

\* What a request gets was found out at most TTL before the request came.
StaleAtMostTTL ==
    \A r \in Request : pc[r] = "answered" => answer[r].at + TTL >= started[r]

\* nameCacheMaxSize is a limit.
CacheBounded == Cardinality(DOMAIN entries) <= MaxSize

\* Every request that arrives is answered, also those that wait for a lookup
\* that fails.
EveryRequestAnswered ==
    <>[](\A r \in Request : pc[r] \in {"new", "answered"})
=============================================================================

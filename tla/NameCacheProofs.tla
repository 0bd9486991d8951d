-------------------------- MODULE NameCacheProofs ---------------------------
(***************************************************************************)
(* Proofs about NameCache, for any number of requests, names, registries   *)
(* and nodes, any time to live and any limit of the cache: no lookup is    *)
(* superfluous, no visitor gets an older result than one before, what is   *)
(* served is as fresh as promised, and the cache keeps to its limit.       *)
(*                                                                         *)
(* The argument has four layers, each inductive over those before it: who  *)
(* leads and who waits (Roles), that nobody asks for what the cache knows  *)
(* (MissInv), how the numbers of lookups are ordered (Order), and how old  *)
(* results are (Ages).                                                     *)
(***************************************************************************)
EXTENDS NameCache, FiniteSetTheorems, TLAPS

(***************************************************************************)
(* Roles.  Every leader holds the entry of its name in flight, so a name   *)
(* has one leader; a WaitGroup is released when its leader has its answer; *)
(* who waits, waits for a request of the same name.                        *)
(***************************************************************************)
Statuses == {"new", "get", "do", "wait", "release", "answered"} \union Leading

RequestTypes ==
    /\ pc \in [Request -> Statuses]
    /\ name \in [Request -> Name \union {None}]
    /\ \A r \in Request : pc[r] # "new" => name[r] \in Name
    /\ result \in [Request -> Results] /\ answer \in [Request -> Results]
    /\ joined \in [Request -> Request] /\ landed \subseteq Request
    /\ started \in [Request -> Nat] /\ floor \in [Request -> Nat]
    /\ lookups \in Nat

RegistryTypes ==
    /\ registry \in [1 .. NRegistries -> [Name -> Site \union {None}]]
    /\ asking \in [Request -> [registry : 1 .. NRegistries, rpc : 1 .. NRpcs]]

CacheTypes ==
    /\ DOMAIN entries \subseteq Name /\ IsFiniteSet(DOMAIN entries)
    /\ \A n \in DOMAIN entries : /\ Cached(n) \in Results
                                 /\ entries[n].expiresAt \in Nat
    /\ now \in Nat

Types == RequestTypes /\ RegistryTypes /\ CacheTypes

FlightInv == \A n \in DOMAIN flight : /\ flight[n] \in Request
                                      /\ pc[flight[n]] \in Leading
                                      /\ name[flight[n]] = n

LeadInv == \A r \in Request : pc[r] \in Leading =>
                name[r] \in DOMAIN flight /\ flight[name[r]] = r

LandedInv == \A r \in landed : pc[r] = "answered"

WaitInv == \A w \in Request : pc[w] = "wait" =>
                /\ name[joined[w]] = name[w]
                /\ \/ pc[joined[w]] \in Leading \union {"release"}
                   \/ pc[joined[w]] = "answered" /\ joined[w] \in landed

Crew == FlightInv /\ LeadInv /\ LandedInv /\ WaitInv

Roles == Types /\ Crew

\* While nodes are asked for a name the cache does not know it.
MissInv == \A r \in Request : pc[r] \in {"rpc", "store"} => ~Fresh(name[r])

(***************************************************************************)
(* Order.  The result of the lookup that is under way, or of the entry     *)
(* that is fresh, is at least as new as anything a request of that name    *)
(* has got, can get, or knew of when it came.                              *)
(***************************************************************************)
Below(q, k) == result[q].lookup <= k /\ answer[q].lookup <= k /\ floor[q] <= k

Of(n) == {q \in Request : pc[q] # "new" /\ name[q] = n}

NumberInv == /\ \A q \in Request : Below(q, lookups)
             /\ \A n \in DOMAIN entries : entries[n].lookup <= lookups

BlankInv == \A q \in Request : pc[q] = "new" =>
                result[q].lookup = 0 /\ answer[q].lookup = 0

FreshInv == \A n \in Name : Fresh(n) => \A q \in Of(n) : Below(q, entries[n].lookup)

NewestInv == \A l \in Request : pc[l] \in {"rpc", "store", "land"} =>
                /\ \A q \in Of(name[l]) : Below(q, result[l].lookup)
                /\ Fresh(name[l]) => entries[name[l]].lookup <= result[l].lookup

FloorInv == \A r \in Request :
                /\ pc[r] = "release" => floor[r] <= result[r].lookup
                /\ pc[r] = "wait" /\ pc[joined[r]] # "recheck" =>
                        floor[r] <= result[joined[r]].lookup

Order == NumberInv /\ BlankInv /\ FreshInv /\ NewestInv /\ FloorInv /\ NeverBackInTime

(***************************************************************************)
(* Ages.  An entry expires no later than TTL after its result was found    *)
(* out, and no time passes while a result is on its way to a request.      *)
(***************************************************************************)
Young(q) == result[q].at + TTL >= now

Ages == /\ \A n \in DOMAIN entries : entries[n].expiresAt <= entries[n].at + TTL
        /\ \A r \in Request :
            /\ started[r] <= now
            /\ pc[r] = "store" => result[r].at = now
            /\ pc[r] \in {"land", "release"} => Young(r)
            /\ pc[r] = "wait" /\ joined[r] \in landed => Young(joined[r])
        /\ StaleAtMostTTL

IInv == Roles /\ MissInv /\ Order /\ Ages /\ CacheBounded
-----------------------------------------------------------------------------
(* Roles.  RolesTyped: they contain the types the runs check.  RolesInit,   *)
(* then one lemma per action, then RolesStep: Roles is inductive.          *)

LEMMA RolesTyped == Roles => TypeOK
BY DEF Roles, Crew, Types, RequestTypes, RegistryTypes, CacheTypes, FlightInv,
   Statuses, TypeOK

LEMMA RolesInit == Init => Roles
<1> SUFFICES ASSUME Init PROVE Roles
  OBVIOUS
<1>1. DOMAIN entries = {} /\ DOMAIN flight = {}
  BY DEF Init
<1>2. CacheTypes
  BY <1>1, FS_EmptySet DEF Init, CacheTypes
<1>3. NoResult \in Results /\ First \in [registry : 1 .. NRegistries, rpc : 1 .. NRpcs]
  BY NameCacheAssumption DEF NoResult, Results, First
<1>4. RegistryTypes
  BY <1>3, NameCacheAssumption DEF Init, RegistryTypes
<1>5. RequestTypes
  BY <1>3 DEF Init, RequestTypes, Statuses
<1>6. Crew
  BY <1>1 DEF Init, Crew, FlightInv, LeadInv, LandedInv, WaitInv, Leading
<1> QED
  BY <1>2, <1>4, <1>5, <1>6 DEF Roles, Types

\* A step of a request that keeps or leaves a place where it is nobody's
\* leader and waits for nobody.
LEMMA QuietCrew ==
    ASSUME Roles, NEW r \in Request, NEW l \in Statuses \ {"wait"},
           Goto(r, l), UNCHANGED <<flight, landed, joined>>,
           pc[r] \in Leading <=> l \in Leading,
           pc[r] \notin {"release", "answered"},
           \A q \in Request : pc[q] # "new" => name'[q] = name[q]
    PROVE  Crew'
<1>1. \A q \in Request : pc'[q] = IF q = r THEN l ELSE pc[q]
  BY DEF Goto, Roles, Types, RequestTypes
<1>2. FlightInv'
  BY <1>1 DEF FlightInv, Roles, Crew, Leading
<1>3. LeadInv'
  BY <1>1 DEF LeadInv, Roles, Crew, Leading
<1>4. LandedInv'
  BY <1>1 DEF LandedInv, Roles, Crew, Types, RequestTypes
<1>5. WaitInv'
  BY <1>1 DEF WaitInv, Roles, Crew, Leading, Types, RequestTypes
<1> QED
  BY <1>2, <1>3, <1>4, <1>5 DEF Crew

\* Nothing about roles depends on the registries, the clock or the numbers.
LEMMA SameCrew ==
    ASSUME Crew, UNCHANGED <<flight, landed, joined, pc, name>>
    PROVE  Crew'
BY DEF Crew, FlightInv, LeadInv, LandedInv, WaitInv

LEMMA BeginRoles ==
    ASSUME Roles, NEW r \in Request, NEW n \in Name, Begin(r, n)
    PROVE  Roles'
<1>1. \A g \in Given(n) : g \in Nat
  BY DEF Given, Roles, Types, RequestTypes, Results
<1>2. floor' \in [Request -> Nat]
  <2>1. PICK f \in Given(n) \union {0} : floor' = [floor EXCEPT ![r] = f]
    BY DEF Begin
  <2> QED
    BY <1>1, <2>1 DEF Roles, Types, RequestTypes
<1>0. started' \in [Request -> Nat] /\ name' \in [Request -> Name \union {None}]
  BY DEF Begin, Roles, Types, RequestTypes, CacheTypes
<1>5. RequestTypes'
  BY <1>0, <1>2 DEF Begin, Goto, Roles, Types, RequestTypes, cacheVars, Statuses
<1>3. RegistryTypes' /\ CacheTypes'
  BY DEF Begin, Roles, Types, RegistryTypes, CacheTypes, cacheVars, Cached
<1>4. Crew'
  BY QuietCrew DEF Begin, cacheVars, Statuses, Leading, Roles, Types, RequestTypes
<1> QED
  BY <1>5, <1>3, <1>4 DEF Roles, Types

LEMMA GetRoles == ASSUME Roles, NEW r \in Request, Get(r) PROVE Roles'
<1>1. Fresh(name[r]) => Cached(name[r]) \in Results
  BY DEF Fresh, Roles, Types, CacheTypes
<1>2. RequestTypes'
  BY <1>1 DEF Get, Goto, Answer, Roles, Types, RequestTypes, cacheVars, Statuses
<1>3. RegistryTypes' /\ CacheTypes'
  BY DEF Get, Roles, Types, RegistryTypes, CacheTypes, cacheVars, Cached
<1>4. Crew'
  BY QuietCrew DEF Get, Answer, cacheVars, Statuses, Leading
<1> QED
  BY <1>2, <1>3, <1>4 DEF Roles, Types

LEMMA DoRoles == ASSUME Roles, NEW r \in Request, Do(r) PROVE Roles'
<1>1. CASE name[r] \in DOMAIN flight
  <2> USE <1>1 DEF Do, Goto
  <2>1. RequestTypes'
    BY DEF Roles, Types, RequestTypes, Statuses, Crew, FlightInv
  <2>2. FlightInv' /\ LeadInv'
    BY DEF Roles, Types, RequestTypes, Crew, FlightInv, LeadInv, Leading
  <2>3. LandedInv' /\ WaitInv'
    BY DEF Roles, Types, RequestTypes, Crew, FlightInv, LandedInv, WaitInv, Leading
  <2>4. RegistryTypes' /\ CacheTypes'
    BY DEF Roles, Types, RegistryTypes, CacheTypes, Cached
  <2> QED
    BY <2>1, <2>2, <2>3, <2>4 DEF Roles, Types, Crew
<1>2. CASE name[r] \notin DOMAIN flight
  <2> USE <1>2 DEF Do, Goto
  <2>1. RequestTypes'
    BY DEF Roles, Types, RequestTypes, Statuses, Leading
  <2>2. FlightInv'
    BY DEF Roles, Types, RequestTypes, Crew, FlightInv, Leading
  <2>3. LeadInv'
    BY DEF Roles, Types, RequestTypes, Crew, LeadInv, Leading
  <2>4. LandedInv' /\ WaitInv'
    BY DEF Roles, Types, RequestTypes, Crew, LandedInv, WaitInv, Leading
  <2>5. RegistryTypes' /\ CacheTypes'
    BY DEF Roles, Types, RegistryTypes, CacheTypes, Cached
  <2> QED
    BY <2>1, <2>2, <2>3, <2>4, <2>5 DEF Roles, Types, Crew
<1> QED
  BY <1>1, <1>2

LEMMA WakeRoles == ASSUME Roles, NEW r \in Request, Wake(r) PROVE Roles'
<1> USE DEF Wake, Goto, Answer
<1>1. RequestTypes'
  BY DEF Roles, Types, RequestTypes, cacheVars, Statuses
<1>2. RegistryTypes' /\ CacheTypes'
  BY DEF Roles, Types, RegistryTypes, CacheTypes, cacheVars, Cached
<1>3. FlightInv' /\ LeadInv'
  BY DEF Roles, Types, RequestTypes, Crew, FlightInv, LeadInv, Leading, cacheVars
<1>4. LandedInv' /\ WaitInv'
  BY DEF Roles, Types, RequestTypes, Crew, LandedInv, WaitInv, Leading, cacheVars
<1> QED
  BY <1>1, <1>2, <1>3, <1>4 DEF Roles, Types, Crew

LEMMA RecheckRoles == ASSUME Roles, NEW r \in Request, Recheck(r) PROVE Roles'
<1>1. Fresh(name[r]) => Cached(name[r]) \in Results
  BY DEF Fresh, Roles, Types, CacheTypes
<1>2. lookups' \in Nat /\ result' \in [Request -> Results]
  <2>1. CASE Fresh(name[r])
    BY <1>1, <2>1 DEF Recheck, Roles, Types, RequestTypes
  <2>2. CASE ~Fresh(name[r])
    <3>1. result' = [result EXCEPT ![r].lookup = lookups + 1] /\ lookups' = lookups + 1
      BY <2>2 DEF Recheck
    <3>2. result[r] \in Results /\ lookups + 1 \in Nat
      BY DEF Roles, Types, RequestTypes
    <3>3. [result[r] EXCEPT !.lookup = lookups + 1] \in Results
      BY <3>2 DEF Results
    <3> QED
      BY <3>1, <3>2, <3>3 DEF Roles, Types, RequestTypes
  <2> QED
    BY <2>1, <2>2
<1>6. PICK l \in {"land", "rpc"} : pc' = [pc EXCEPT ![r] = l]
  BY DEF Recheck, Goto
<1>7. pc[r] = "recheck" /\ UNCHANGED <<name, joined, landed, answer, started, floor>>
  BY DEF Recheck, cacheVars
<1>3. RequestTypes'
  BY <1>2, <1>6, <1>7 DEF Roles, Types, RequestTypes, Statuses, Leading
<1>4. RegistryTypes' /\ CacheTypes'
  BY DEF Recheck, Roles, Types, RegistryTypes, CacheTypes, cacheVars, Cached
<1>5. Crew'
  BY QuietCrew DEF Recheck, cacheVars, Statuses, Leading
<1> QED
  BY <1>3, <1>4, <1>5 DEF Roles, Types

\* What a call to a node does: it goes on with another one, or concludes with
\* the number its lookup has.
LEMMA CallLemma ==
    ASSUME Roles, NEW r \in Request, Ask(r) \/ AskFails(r)
    PROVE  /\ pc[r] = "rpc"
           /\ UNCHANGED <<registry, cacheVars, name, joined, answer, lookups,
                          now, changes, started, floor>>
           /\ RegistryTypes'
           /\ \/ UNCHANGED <<pc, result>>
              \/ \E s \in Site \union {NotRegistered, Failed} :
                    /\ result' = [result EXCEPT ![r].site = s, ![r].at = now]
                    /\ Goto(r, IF s = Failed THEN "land" ELSE "store")
<1>1. pc[r] = "rpc" /\ UNCHANGED <<registry, cacheVars, name, joined, answer,
                                   lookups, now, changes, started, floor>>
  BY DEF Ask, AskFails
<1> DEFINE Calls == [registry : 1 .. NRegistries, rpc : 1 .. NRpcs]
<1>2. asking[r] \in Calls /\ asking \in [Request -> Calls] /\ name[r] \in Name
  BY <1>1 DEF Roles, Types, RegistryTypes, RequestTypes
<1>3. First \in Calls
  BY NameCacheAssumption DEF First
<1>4. ASSUME NEW s \in Site \union {NotRegistered, Failed}, Conclude(r, s)
      PROVE  /\ asking' \in [Request -> Calls]
             /\ result' = [result EXCEPT ![r].site = s, ![r].at = now]
             /\ Goto(r, IF s = Failed THEN "land" ELSE "store")
  BY <1>2, <1>3, <1>4 DEF Conclude
<1>5. ASSUME NEW v, NextRegistry(r, v)
      PROVE  /\ asking' \in [Request -> Calls]
             /\ \/ UNCHANGED <<pc, result>>
                \/ \E s \in Site \union {NotRegistered, Failed} :
                    /\ result' = [result EXCEPT ![r].site = s, ![r].at = now]
                    /\ Goto(r, IF s = Failed THEN "land" ELSE "store")
  <2>1. CASE asking[r].registry < NRegistries
    <3>1. [registry |-> asking[r].registry + 1, rpc |-> 1] \in Calls
      BY <1>2, <2>1, NameCacheAssumption
    <3> QED
      BY <1>2, <1>5, <2>1, <3>1 DEF NextRegistry
  <2>2. CASE ~(asking[r].registry < NRegistries)
    <3>1. Conclude(r, IF v THEN NotRegistered ELSE Failed)
      BY <1>5, <2>2 DEF NextRegistry
    <3> QED
      BY <1>4, <3>1
  <2> QED
    BY <2>1, <2>2
<1>6. CASE Ask(r)
  <2>1. registry[asking[r].registry][name[r]] \in Site \union {None}
    BY <1>2 DEF Roles, Types, RegistryTypes
  <2>2. \/ \E s \in Site : Conclude(r, s)
        \/ NextRegistry(r, TRUE)
    BY <1>6, <2>1 DEF Ask
  <2> HIDE DEF Calls
  <2>3. asking' \in [Request -> Calls]
    BY <1>4, <1>5, <2>2
  <2> QED
    BY <1>1, <1>4, <1>5, <2>2, <2>3 DEF RegistryTypes, Calls, Roles, Types
<1>7. CASE AskFails(r)
  <2>1. CASE asking[r].rpc < NRpcs
    <3>1. asking' = [asking EXCEPT ![r].rpc = asking[r].rpc + 1]
      BY <1>7, <2>1 DEF AskFails
    <3>2. [asking[r] EXCEPT !.rpc = asking[r].rpc + 1] \in Calls
      BY <1>2, <2>1, NameCacheAssumption
    <3>3. asking' \in [Request -> Calls]
      BY <1>2, <3>1, <3>2
    <3> QED
      BY <1>1, <1>7, <2>1, <3>3 DEF AskFails, RegistryTypes, Roles, Types
  <2>2. CASE ~(asking[r].rpc < NRpcs)
    <3>1. NextRegistry(r, saw[r])
      BY <1>7, <2>2 DEF AskFails
    <3> QED
      BY <1>1, <1>5, <3>1 DEF RegistryTypes, Roles, Types
  <2> QED
    BY <2>1, <2>2
<1> QED
  BY <1>6, <1>7

LEMMA CallRoles ==
    ASSUME Roles, NEW r \in Request, Ask(r) \/ AskFails(r)
    PROVE  Roles'
<1>1. /\ pc[r] = "rpc" /\ RegistryTypes'
      /\ UNCHANGED <<registry, cacheVars, name, joined, answer, lookups, now,
                     changes, started, floor>>
  BY CallLemma
<1>2. CacheTypes'
  BY <1>1 DEF Roles, Types, CacheTypes, cacheVars, Cached
<1>3. CASE UNCHANGED <<pc, result>>
  <2>1. RequestTypes'
    BY <1>1, <1>3 DEF Roles, Types, RequestTypes, cacheVars
  <2>2. Crew'
    BY <1>1, <1>3, SameCrew DEF Roles, cacheVars
  <2> QED
    BY <1>1, <1>2, <2>1, <2>2 DEF Roles, Types
<1>4. ASSUME NEW s \in Site \union {NotRegistered, Failed},
             result' = [result EXCEPT ![r].site = s, ![r].at = now],
             Goto(r, IF s = Failed THEN "land" ELSE "store")
      PROVE  Roles'
  <2>1. PICK l \in {"land", "store"} : Goto(r, l)
    BY <1>4
  <2>2. result[r] \in Results /\ now \in Nat
    BY DEF Roles, Types, RequestTypes, CacheTypes
  <2>3. [result[r] EXCEPT !.site = s, !.at = now] \in Results
    BY <2>2 DEF Results
  <2>4. result' \in [Request -> Results]
    BY <1>4, <2>3 DEF Roles, Types, RequestTypes
  <2>5. RequestTypes'
    BY <1>1, <2>1, <2>4 DEF Goto, Roles, Types, RequestTypes, Statuses, Leading,
       cacheVars
  <2>6. Crew'
    BY <1>1, <2>1, QuietCrew DEF cacheVars, Statuses, Leading
  <2> QED
    BY <1>1, <1>2, <2>5, <2>6 DEF Roles, Types
<1> QED
  BY <1>3, <1>4, CallLemma

\* What storing a result does to the cache.
LEMMA StoreLemma ==
    ASSUME Roles, NEW r \in Request, Store(r)
    PROVE  /\ pc[r] = "store" /\ name[r] \in Name /\ name[r] \in DOMAIN entries'
           /\ entries'[name[r]] = [site |-> result[r].site,
                    lookup |-> result[r].lookup, at |-> result[r].at,
                    expiresAt |-> now + TTL]
           /\ \A k \in DOMAIN entries' \ {name[r]} :
                    k \in DOMAIN entries /\ entries'[k] = entries[k]
           /\ IsFiniteSet(DOMAIN entries')
           /\ CacheBounded => CacheBounded'
<1> DEFINE n == name[r]
           e == [site |-> result[r].site, lookup |-> result[r].lookup,
                 at |-> result[r].at, expiresAt |-> now + TTL]
<1>1. pc[r] = "store" /\ n \in Name /\ Set(n, result[r])
  BY DEF Store, Roles, Types, RequestTypes
<1>2. PICK kept \in SUBSET DOMAIN entries :
        /\ Put(kept, n, result[r])
        /\ Cardinality(kept) < MaxSize
  BY <1>1 DEF Set
<1>3. entries' = [k \in kept \union {n} |-> IF k = n THEN e ELSE entries[k]]
  BY <1>2 DEF Put
<1> HIDE DEF e
<1>4. DOMAIN entries' = kept \union {n}
  BY <1>3
<1>5. IsFiniteSet(kept)
  BY <1>2, FS_Subset DEF Roles, Types, CacheTypes
<1>6. IsFiniteSet(kept \union {n}) /\ Cardinality(kept \union {n}) <= Cardinality(kept) + 1
  <2>1. Cardinality(kept) \in Nat
    BY <1>5, FS_CardinalityType
  <2>2. /\ IsFiniteSet(kept \union {n})
        /\ Cardinality(kept \union {n}) =
                IF n \in kept THEN Cardinality(kept) ELSE Cardinality(kept) + 1
    BY <1>5, FS_AddElement
  <2> HIDE DEF n
  <2> QED
    BY <2>1, <2>2
<1>7. Cardinality(DOMAIN entries') <= MaxSize
  BY <1>2, <1>4, <1>5, <1>6, FS_CardinalityType, NameCacheAssumption
<1>8. entries'[n] = e
  BY <1>3
<1>9. \A k \in DOMAIN entries' \ {n} : k \in DOMAIN entries /\ entries'[k] = entries[k]
  BY <1>2, <1>3
<1> QED
  BY <1>1, <1>4, <1>6, <1>7, <1>8, <1>9 DEF CacheBounded, e

LEMMA StoreRoles == ASSUME Roles, NEW r \in Request, Store(r) PROVE Roles'
<1>1. RequestTypes' /\ RegistryTypes'
  BY DEF Store, Goto, Roles, Types, RequestTypes, RegistryTypes, Statuses, Leading
<1>2. now' \in Nat /\ DOMAIN entries' \subseteq Name /\ IsFiniteSet(DOMAIN entries')
  BY StoreLemma DEF Store, Roles, Types, CacheTypes
<1>3. result[r] \in Results
  BY DEF Roles, Types, RequestTypes
<1>4. ASSUME NEW k \in DOMAIN entries'
      PROVE  Cached(k)' \in Results /\ entries'[k].expiresAt \in Nat
  <2>1. CASE k = name[r]
    <3>1. entries'[k] = [site |-> result[r].site, lookup |-> result[r].lookup,
                         at |-> result[r].at, expiresAt |-> now + TTL]
      BY <2>1, StoreLemma
    <3>2. Cached(k)' = [site |-> entries'[k].site, lookup |-> entries'[k].lookup,
                        at |-> entries'[k].at]
      BY <2>1 DEF Cached
    <3>4. Cached(k)' = [site |-> result[r].site, lookup |-> result[r].lookup,
                        at |-> result[r].at]
      BY <3>1, <3>2
    <3>5. now + TTL \in Nat
      BY NameCacheAssumption DEF Roles, Types, CacheTypes
    <3>3. entries'[k].expiresAt \in Nat
      BY <3>1, <3>5
    <3> QED
      BY <1>3, <3>4, <3>3 DEF Results
  <2>2. CASE k # name[r]
    <3>1. k \in DOMAIN entries /\ entries'[k] = entries[k]
      BY <2>2, StoreLemma
    <3> QED
      BY <3>1 DEF Cached, Roles, Types, CacheTypes
  <2> QED
    BY <2>1, <2>2
<1>5. Crew'
  BY QuietCrew DEF Store, Statuses, Leading
<1> QED
  BY <1>1, <1>2, <1>4, <1>5 DEF Roles, Types, CacheTypes

LEMMA LandRoles == ASSUME Roles, NEW r \in Request, Land(r) PROVE Roles'
<1> USE DEF Land, Goto
<1>1. RequestTypes' /\ RegistryTypes' /\ CacheTypes'
  BY DEF Roles, Types, RequestTypes, RegistryTypes, CacheTypes, Cached, Statuses,
     Leading
<1>2. FlightInv'
  BY DEF Roles, Types, RequestTypes, Crew, FlightInv, Leading
<1>3. LeadInv'
  BY DEF Roles, Types, RequestTypes, Crew, LeadInv, Leading
<1>4. LandedInv' /\ WaitInv'
  BY DEF Roles, Types, RequestTypes, Crew, LandedInv, WaitInv, Leading
<1> QED
  BY <1>1, <1>2, <1>3, <1>4 DEF Roles, Types, Crew

LEMMA ReleaseRoles == ASSUME Roles, NEW r \in Request, Release(r) PROVE Roles'
<1> USE DEF Release, Goto, Answer
<1>1. RequestTypes' /\ RegistryTypes' /\ CacheTypes'
  BY DEF Roles, Types, RequestTypes, RegistryTypes, CacheTypes, Cached, Statuses
<1>2. FlightInv'
  BY DEF Roles, Types, RequestTypes, Crew, FlightInv, Leading
<1>3. LeadInv'
  BY DEF Roles, Types, RequestTypes, Crew, LeadInv, Leading
<1>4. LandedInv' /\ WaitInv'
  BY DEF Roles, Types, RequestTypes, Crew, LandedInv, WaitInv, Leading
<1> QED
  BY <1>1, <1>2, <1>3, <1>4 DEF Roles, Types, Crew

LEMMA WorldRoles ==
    ASSUME Roles,
           \/ \E c \in 1 .. NRegistries, n \in Name, s \in Site : Change(c, n, s)
           \/ Cleanup \/ Tick \/ UNCHANGED vars
    PROVE  Roles'
<1>1. UNCHANGED <<flight, landed, reqVars>>
  BY DEF Change, Cleanup, Tick, vars, cacheVars
<1>2. RequestTypes' /\ Crew'
  BY <1>1, SameCrew DEF reqVars, Roles, Types, RequestTypes
<1>3. RegistryTypes'
  BY <1>1 DEF reqVars, Roles, Types, RegistryTypes, Change, Cleanup, Tick, vars
<1>4. CASE Cleanup
  <2>1. DOMAIN entries' \subseteq DOMAIN entries /\ IsFiniteSet(DOMAIN entries')
    BY <1>4, FS_Subset DEF Cleanup, Roles, Types, CacheTypes
  <2>2. CacheTypes'
    BY <1>4, <2>1 DEF Cleanup, Roles, Types, CacheTypes, Cached
  <2> QED
    BY <1>2, <1>3, <2>2 DEF Roles, Types
<1>5. CASE UNCHANGED entries
  <2>1. CacheTypes'
    BY <1>5 DEF Change, Cleanup, Tick, vars, Roles, Types, CacheTypes, Cached
  <2> QED
    BY <1>2, <1>3, <2>1 DEF Roles, Types
<1> QED
  BY <1>4, <1>5 DEF Change, Tick, vars, cacheVars

LEMMA RolesStep == Roles /\ [Next]_vars => Roles'
<1> SUFFICES ASSUME Roles, [Next]_vars PROVE Roles'
  OBVIOUS
<1>1. CASE \E r \in Request : Step(r)
  BY <1>1, GetRoles, DoRoles, WakeRoles, RecheckRoles, CallRoles, StoreRoles,
     LandRoles, ReleaseRoles DEF Step
<1>2. CASE \E r \in Request : \E n \in Name : Begin(r, n)
  BY <1>2, BeginRoles
<1> QED
  BY <1>1, <1>2, WorldRoles DEF Next

-----------------------------------------------------------------------------
(* Lookups that the cache makes superfluous *)

\* A name has one leader.
LEMMA OneLeader ==
    ASSUME Roles, NEW r \in Request, NEW q \in Request \ {r},
           pc[r] \in Leading, pc[q] \in Leading
    PROVE  name[q] # name[r]
BY DEF Roles, Crew, LeadInv

\* Except where a result is stored, what is fresh after a step was so before.
LEMMA StaysStale ==
    ASSUME Roles, [Next]_vars, \A r \in Request : ~Store(r), NEW n, Fresh(n)'
    PROVE  Fresh(n) /\ entries'[n] = entries[n]
<1> DEFINE Kept == DOMAIN entries' \subseteq DOMAIN entries
                    /\ \A k \in DOMAIN entries' : entries'[k] = entries[k]
<1>1. CASE UNCHANGED <<entries, now>>
  BY <1>1 DEF Fresh, Expired
<1>2. CASE Cleanup
  BY <1>2 DEF Cleanup, Fresh, Expired
<1>3. CASE Tick
  <2>1. n \in DOMAIN entries /\ entries' = entries /\ now' = now + 1
    BY <1>3 DEF Tick, Fresh, cacheVars
  <2>2. entries[n].expiresAt \in Nat /\ now \in Nat
    BY <2>1 DEF Roles, Types, CacheTypes
  <2> QED
    BY <2>1, <2>2 DEF Fresh, Expired
<1>4. CASE \E r \in Request : Step(r)
  <2>1. PICK r \in Request : Step(r)
    BY <1>4
  <2>2. UNCHANGED <<entries, now>>
    BY <2>1 DEF Step, Get, Do, Wake, Recheck, Ask, AskFails, Land, Release, cacheVars
  <2> QED
    BY <1>1, <2>2
<1>5. CASE UNCHANGED vars \/ \E r \in Request, m \in Name : Begin(r, m)
  BY <1>1, <1>5 DEF vars, cacheVars, Begin
<1>6. CASE \E c \in 1 .. NRegistries, m \in Name, s \in Site : Change(c, m, s)
  BY <1>1, <1>6 DEF cacheVars, Change
<1> QED
  BY <1>2, <1>3, <1>4, <1>5, <1>6 DEF Next

\* Storing a result leaves the other names as they are, or drops them.
LEMMA StoreFresh ==
    ASSUME Roles, NEW r \in Request, Store(r), NEW n, n # name[r], Fresh(n)'
    PROVE  Fresh(n) /\ entries'[n] = entries[n]
<1>1. n \in DOMAIN entries' \ {name[r]}
  BY DEF Fresh
<1>2. n \in DOMAIN entries /\ entries'[n] = entries[n] /\ now' = now
  BY <1>1, StoreLemma DEF Store
<1> QED
  BY <1>2 DEF Fresh, Expired

\* A request asks nodes, or has just done so: where it was a step before.
LEMMA AskingBefore ==
    ASSUME Roles, [Next]_vars, NEW q \in Request, pc'[q] \in {"rpc", "store"}
    PROVE  /\ name'[q] = name[q]
           /\ \/ pc[q] \in {"rpc", "store"}
              \/ pc[q] = "recheck" /\ ~Fresh(name[q])
<1> USE DEF Goto, Roles, Types, RequestTypes
<1>1. CASE \E r \in Request : Ask(r) \/ AskFails(r)
  BY <1>1, CallLemma
<1>2. CASE \E r \in Request : Get(r) \/ Do(r) \/ Wake(r)
  BY <1>2 DEF Get, Do, Wake, Answer
<1>3. CASE \E r \in Request : Recheck(r)
  BY <1>3 DEF Recheck
<1>4. CASE \E r \in Request : Store(r) \/ Land(r) \/ Release(r)
  BY <1>4 DEF Store, Land, Release, Answer
<1>5. CASE \E r \in Request, n \in Name : Begin(r, n)
  BY <1>5 DEF Begin
<1>6. CASE UNCHANGED reqVars
  BY <1>6 DEF reqVars
<1> QED
  BY <1>1, <1>2, <1>3, <1>4, <1>5, <1>6
  DEF Next, Step, Change, Cleanup, Tick, vars

\* What a leader missed stays missing: only a name's leader stores it.
LEMMA MissStep == Roles /\ MissInv /\ [Next]_vars => MissInv'
<1> SUFFICES ASSUME Roles, MissInv, [Next]_vars,
                    NEW q \in Request, pc'[q] \in {"rpc", "store"}
             PROVE  (~Fresh(name[q]))'
  BY DEF MissInv
<1>1. PICK n : n = name[q] /\ n = name'[q] /\ ~Fresh(n)
  BY AskingBefore DEF MissInv
<1>2. CASE \A r \in Request : ~Store(r)
  <2>1. ~Fresh(n)'
    BY <1>1, <1>2, StaysStale
  <2> QED
    BY <1>1, <2>1 DEF Fresh, Expired
<1>3. CASE \E r \in Request : Store(r)
  <2>1. PICK r \in Request : Store(r)
    BY <1>3
  <2>2. pc[r] = "store" /\ pc'[r] = "land" /\ pc[q] \in Leading
    BY <2>1, AskingBefore DEF Store, Goto, Roles, Types, RequestTypes, Leading
  <2>3. q # r /\ name[q] # name[r]
    BY <2>2, OneLeader DEF Leading
  <2>4. ~Fresh(n)'
    BY <1>1, <2>1, <2>3, StoreFresh
  <2> QED
    BY <1>1, <2>4 DEF Fresh, Expired
<1> QED
  BY <1>2, <1>3

-----------------------------------------------------------------------------
(* The order of lookups: OrderInit, one lemma per action, then OrderStep.   *)

\* The types the arithmetic of this section needs.
LEMMA Numbers ==
    ASSUME Roles
    PROVE  /\ lookups \in Nat
           /\ \A q \in Request : /\ result[q].lookup \in Nat
                                 /\ answer[q].lookup \in Nat /\ floor[q] \in Nat
           /\ \A n \in DOMAIN entries : entries[n].lookup \in Nat
           /\ \A q \in Request : pc[q] # "new" => name[q] \in Name
BY DEF Roles, Types, RequestTypes, CacheTypes, Results, Cached

LEMMA OrderInit == Init => Order
<1> SUFFICES ASSUME Init PROVE Order
  OBVIOUS
<1>1. DOMAIN entries = {} /\ NoResult.lookup = 0
  BY DEF Init, NoResult
<1>2. NumberInv /\ BlankInv
  BY <1>1 DEF Init, NumberInv, BlankInv, Below
<1>3. FreshInv /\ NewestInv
  BY <1>1 DEF Init, FreshInv, NewestInv, Fresh
<1>4. FloorInv /\ NeverBackInTime
  BY DEF Init, FloorInv, NeverBackInTime
<1> QED
  BY <1>2, <1>3, <1>4 DEF Order

\* A request that comes knows of no result newer than those that bound the
\* requests before it.
LEMMA BeginOrder ==
    ASSUME Roles, Order, NEW r \in Request, NEW n \in Name, Begin(r, n)
    PROVE  Order'
<1>1. /\ pc[r] = "new" /\ pc' = [pc EXCEPT ![r] = "get"]
      /\ name' = [name EXCEPT ![r] = n]
      /\ UNCHANGED <<entries, landed, result, joined, answer, lookups, now>>
  BY DEF Begin, Goto, cacheVars
<1>2. PICK f \in Given(n) \union {0} : floor' = [floor EXCEPT ![r] = f]
  BY DEF Begin
<1>3. ASSUME NEW k \in Nat, \A q \in Of(n) : Below(q, k)
      PROVE  f <= k /\ \A q \in Of(n)' : Below(q, k)'
  <2>1. f <= k
    BY <1>3, Numbers DEF Given, Of, Below
  <2>2. Below(r, k)'
    BY <1>1, <1>2, <1>3, <2>1, Numbers DEF Below, Order, BlankInv, Roles, Types,
       RequestTypes
  <2>3. ASSUME NEW q \in Of(n)', q # r PROVE Below(q, k)'
    BY <1>1, <1>2, <1>3, <2>3 DEF Below, Of, Roles, Types, RequestTypes
  <2> QED
    BY <2>1, <2>2, <2>3
<1>4. ASSUME NEW m, m # n PROVE Of(m)' = Of(m) /\ r \notin Of(m)
  BY <1>1, <1>4 DEF Of, Roles, Types, RequestTypes
<1>5. ASSUME NEW q \in Request, q # r, NEW k, Below(q, k) PROVE Below(q, k)'
  BY <1>1, <1>2, <1>5 DEF Below, Roles, Types, RequestTypes
<1>6. NumberInv' /\ BlankInv'
  BY <1>1, <1>2, <1>3, Numbers DEF Order, NumberInv, BlankInv, Below, Of, Given,
     Roles, Types, RequestTypes
<1>7. FreshInv'
  BY <1>1, <1>3, <1>4, <1>5, Numbers DEF Order, FreshInv, Fresh, Expired, Of
<1>8. NewestInv'
  BY <1>1, <1>3, <1>4, <1>5, Numbers DEF Order, NewestInv, Fresh, Expired, Of,
     Roles, Types, RequestTypes
<1>9. FloorInv'
  BY <1>1, <1>2 DEF Order, FloorInv, Roles, Types, RequestTypes, Crew, WaitInv,
     Leading
<1>10. NeverBackInTime'
  BY <1>1, <1>2 DEF Order, NeverBackInTime, Roles, Types, RequestTypes
<1> QED
  BY <1>6, <1>7, <1>8, <1>9, <1>10 DEF Order

\* A request is answered with a result that is no older than its floor and no
\* newer than what bounds the requests of its name.
LEMMA AnswerOrder ==
    ASSUME Roles, Order, NEW r \in Request, NEW res \in Results,
           answer' = [answer EXCEPT ![r] = res],
           pc' = [pc EXCEPT ![r] = "answered"],
           pc[r] \in {"get", "wait", "release"},
           joined' \in {joined, [joined EXCEPT ![r] = r]},
           UNCHANGED <<entries, name, result, lookups, now, floor>>,
           floor[r] <= res.lookup, res.lookup <= lookups,
           Fresh(name[r]) => res.lookup <= entries[name[r]].lookup,
           \A l \in Request : /\ pc[l] \in {"rpc", "store", "land"}
                              /\ name[l] = name[r]
                              => res.lookup <= result[l].lookup
    PROVE  Order'
<1> USE DEF Roles, Types, RequestTypes
<1>1. \A q \in Request :
        /\ pc'[q] = IF q = r THEN "answered" ELSE pc[q]
        /\ answer'[q] = IF q = r THEN res ELSE answer[q]
        /\ q # r => joined'[q] = joined[q]
  OBVIOUS
<1>2. \A n : Of(n)' = Of(n)
  BY <1>1 DEF Of
<1>3. NumberInv' /\ BlankInv'
  BY <1>1 DEF Order, NumberInv, BlankInv, Below
<1>4. FreshInv'
  BY <1>1, <1>2 DEF Order, FreshInv, Fresh, Expired, Below, Of
<1>5. NewestInv'
  BY <1>1, <1>2 DEF Order, NewestInv, Fresh, Expired, Below, Of
<1>6. FloorInv'
  BY <1>1 DEF Order, FloorInv, Crew, WaitInv, Leading
<1>7. NeverBackInTime'
  BY <1>1 DEF Order, NeverBackInTime
<1> QED
  BY <1>3, <1>4, <1>5, <1>6, <1>7 DEF Order

\* A request changes its place without entering or leaving one that a number
\* is tied to.
LEMMA QuietOrder ==
    ASSUME Roles, Order, NEW r \in Request, NEW l \in Statuses \ {"wait", "answered"},
           pc' = [pc EXCEPT ![r] = l],
           \/ pc[r] \in {"get", "do"} /\ l \in {"do", "recheck"}
           \/ pc[r] = "land" /\ l = "release",
           UNCHANGED <<entries, name, result, answer, joined, lookups, now, floor>>
    PROVE  Order'
<1> USE DEF Roles, Types, RequestTypes
<1>1. \A q \in Request : pc'[q] = IF q = r THEN l ELSE pc[q]
  OBVIOUS
<1>2. \A n : Of(n)' = Of(n)
  BY <1>1 DEF Of
<1>3. NumberInv' /\ BlankInv' /\ NeverBackInTime'
  BY <1>1 DEF Order, NumberInv, BlankInv, NeverBackInTime, Below
<1>4. FreshInv' /\ NewestInv'
  BY <1>1, <1>2 DEF Order, FreshInv, NewestInv, Fresh, Expired, Below
<1>5. FloorInv'
  <2>1. l = "release" => floor[r] <= result[r].lookup
    BY DEF Order, NewestInv, Of, Below
  <2> QED
    BY <1>1, <2>1 DEF Order, FloorInv, Crew, WaitInv, Leading
<1> QED
  BY <1>3, <1>4, <1>5 DEF Order

LEMMA GetOrder == ASSUME Roles, Order, NEW r \in Request, Get(r) PROVE Order'
<1>1. /\ pc[r] = "get" /\ r \in Of(name[r]) /\ name[r] \in Name
      /\ UNCHANGED <<entries, name, result, joined, lookups, now, floor>>
  BY DEF Get, cacheVars, Of, Roles, Types, RequestTypes
<1>2. CASE Fresh(name[r])
  <2>1. PICK res : res = Cached(name[r])
    OBVIOUS
  <2>2. /\ res \in Results /\ res.lookup = entries[name[r]].lookup
        /\ name[r] \in DOMAIN entries
    BY <1>2, <2>1 DEF Fresh, Cached, Roles, Types, CacheTypes
  <2>3. answer' = [answer EXCEPT ![r] = res] /\ pc' = [pc EXCEPT ![r] = "answered"]
    BY <1>2, <2>1 DEF Get, Answer, Goto
  <2>4. floor[r] <= res.lookup /\ res.lookup <= lookups
    BY <1>1, <1>2, <2>2 DEF Order, FreshInv, NumberInv, Below
  <2>5. \A l \in Request : pc[l] \in {"rpc", "store", "land"} /\ name[l] = name[r]
                            => res.lookup <= result[l].lookup
    BY <1>2, <2>2 DEF Order, NewestInv
  <2>6. res.lookup <= entries[name[r]].lookup
    BY <2>2, Numbers
  <2> QED
    BY <1>1, <2>2, <2>3, <2>4, <2>5, <2>6, AnswerOrder
<1>3. CASE ~Fresh(name[r])
  <2>1. pc' = [pc EXCEPT ![r] = "do"] /\ UNCHANGED answer
    BY <1>3 DEF Get, Goto
  <2> QED
    BY <1>1, <2>1, QuietOrder DEF Statuses
<1> QED
  BY <1>2, <1>3

LEMMA DoOrder == ASSUME Roles, Order, NEW r \in Request, Do(r) PROVE Order'
<1>1. /\ pc[r] = "do" /\ r \in Of(name[r])
      /\ UNCHANGED <<entries, name, result, answer, lookups, now, floor>>
  BY DEF Do, Of
<1>2. CASE name[r] \in DOMAIN flight
  <2>1. PICK l \in Request : /\ l = flight[name[r]] /\ pc[l] \in Leading
                             /\ name[l] = name[r]
    BY <1>2 DEF Roles, Crew, FlightInv
  <2> USE DEF Roles, Types, RequestTypes
  <2>2. joined' = [joined EXCEPT ![r] = l] /\ pc' = [pc EXCEPT ![r] = "wait"]
    BY <1>2, <2>1 DEF Do, Goto
  <2>3. pc[l] # "recheck" => floor[r] <= result[l].lookup
    BY <1>1, <2>1 DEF Order, NewestInv, Below, Leading
  <2>4. \A q \in Request : /\ pc'[q] = IF q = r THEN "wait" ELSE pc[q]
                           /\ joined'[q] = IF q = r THEN l ELSE joined[q]
    BY <2>2
  <2>5. \A n : Of(n)' = Of(n)
    BY <1>1, <2>4 DEF Of
  <2>6. NumberInv' /\ BlankInv' /\ NeverBackInTime'
    BY <1>1, <2>4 DEF Order, NumberInv, BlankInv, NeverBackInTime, Below
  <2>7. FreshInv' /\ NewestInv'
    BY <1>1, <2>4, <2>5 DEF Order, FreshInv, NewestInv, Fresh, Expired, Below
  <2>8. FloorInv'
    BY <1>1, <2>1, <2>3, <2>4 DEF Order, FloorInv, Leading
  <2> QED
    BY <2>6, <2>7, <2>8 DEF Order
<1>3. CASE name[r] \notin DOMAIN flight
  <2>1. pc' = [pc EXCEPT ![r] = "recheck"] /\ UNCHANGED joined
    BY <1>3 DEF Do, Goto
  <2> QED
    BY <1>1, <2>1, QuietOrder DEF Statuses, Leading
<1> QED
  BY <1>2, <1>3

\* What has been given for a name bounds the result another request gets.
LEMMA GivenBelow ==
    ASSUME Roles, Order, NEW r \in Request, NEW l \in Request, pc[l] # "new",
           name[l] = name[r]
    PROVE  /\ result[l].lookup <= lookups /\ name[r] \in Name
           /\ Fresh(name[r]) => result[l].lookup <= entries[name[r]].lookup
           /\ \A q \in Request : /\ pc[q] \in {"rpc", "store", "land"}
                                 /\ name[q] = name[r]
                                 => result[l].lookup <= result[q].lookup
<1>1. l \in Of(name[r]) /\ name[r] \in Name
  BY Numbers DEF Of
<1>2. result[l].lookup <= lookups
  BY DEF Order, NumberInv, Below
<1>3. Fresh(name[r]) => result[l].lookup <= entries[name[r]].lookup
  BY <1>1 DEF Order, FreshInv, Below
<1>4. \A q \in Request : /\ pc[q] \in {"rpc", "store", "land"} /\ name[q] = name[r]
                         => result[l].lookup <= result[q].lookup
  BY <1>1 DEF Order, NewestInv, Below
<1> QED
  BY <1>1, <1>2, <1>3, <1>4

LEMMA WakeOrder == ASSUME Roles, Order, NEW r \in Request, Wake(r) PROVE Order'
<1>1. PICK l \in Request : l = joined[r] /\ l \in landed
  BY DEF Wake, Roles, Types, RequestTypes
<1>2. pc[r] = "wait" /\ pc[l] = "answered" /\ name[l] = name[r]
  BY <1>1 DEF Wake, Roles, Crew, LandedInv, WaitInv
<1>3. result[l] \in Results /\ floor[r] <= result[l].lookup
  BY <1>1, <1>2 DEF Order, FloorInv, Roles, Types, RequestTypes
<1>4. /\ answer' = [answer EXCEPT ![r] = result[l]]
      /\ pc' = [pc EXCEPT ![r] = "answered"] /\ joined' = [joined EXCEPT ![r] = r]
      /\ UNCHANGED <<entries, name, result, lookups, now, floor>>
  BY <1>1 DEF Wake, Answer, Goto, cacheVars
<1> QED
  BY <1>2, <1>3, <1>4, GivenBelow, AnswerOrder

LEMMA ReleaseOrder == ASSUME Roles, Order, NEW r \in Request, Release(r) PROVE Order'
<1>1. /\ pc[r] = "release" /\ result[r] \in Results
      /\ floor[r] <= result[r].lookup
  BY DEF Release, Order, FloorInv, Roles, Types, RequestTypes
<1>2. /\ answer' = [answer EXCEPT ![r] = result[r]]
      /\ pc' = [pc EXCEPT ![r] = "answered"]
      /\ UNCHANGED <<entries, name, result, lookups, now, floor, joined>>
  BY DEF Release, Answer, Goto
<1> QED
  BY <1>1, <1>2, GivenBelow, AnswerOrder

LEMMA LandOrder == ASSUME Roles, Order, NEW r \in Request, Land(r) PROVE Order'
<1>1. /\ pc[r] = "land" /\ pc' = [pc EXCEPT ![r] = "release"]
      /\ UNCHANGED <<entries, name, result, answer, joined, lookups, now, floor>>
  BY DEF Land, Goto
<1> QED
  BY <1>1, QuietOrder DEF Statuses

\* The leader takes what the cache has got in the meantime, or starts a lookup
\* that is newer than all before.
LEMMA RecheckOrder == ASSUME Roles, Order, NEW r \in Request, Recheck(r) PROVE Order'
<1> USE DEF Roles, Types, RequestTypes
<1>1. /\ pc[r] = "recheck" /\ name[r] \in Name
      /\ UNCHANGED <<entries, name, answer, joined, now, floor>>
  BY Numbers DEF Recheck, cacheVars
<1>2. PICK k \in Nat, l \in {"land", "rpc"} :
        /\ pc' = [pc EXCEPT ![r] = l]
        /\ result'[r].lookup = k
        /\ \A q \in Request \ {r} : result'[q] = result[q]
        /\ Fresh(name[r]) => entries[name[r]].lookup = k
        /\ \A q \in Of(name[r]) : q # r => Below(q, k)
        /\ answer[r].lookup <= k /\ floor[r] <= k
        /\ k <= lookups' /\ lookups <= lookups' /\ lookups' \in Nat
  <2>1. CASE Fresh(name[r])
    <3>1. /\ name[r] \in DOMAIN entries /\ entries[name[r]].lookup \in Nat
          /\ \A q \in Of(name[r]) : Below(q, entries[name[r]].lookup)
      BY <1>1, <2>1, Numbers DEF Order, FreshInv, Fresh
    <3>2. entries[name[r]].lookup <= lookups /\ r \in Of(name[r])
      BY <1>1, <3>1 DEF Order, NumberInv, Of
    <3>3. /\ result' = [result EXCEPT ![r] = Cached(name[r])] /\ lookups' = lookups
          /\ pc' = [pc EXCEPT ![r] = "land"]
      BY <2>1 DEF Recheck, Goto
    <3>4. result'[r].lookup = entries[name[r]].lookup
      BY <3>3 DEF Cached
    <3>5. lookups \in Nat
      OBVIOUS
    <3> QED
      BY <3>1, <3>2, <3>3, <3>4, <3>5 DEF Below
  <2>2. CASE ~Fresh(name[r])
    <3>1. /\ result' = [result EXCEPT ![r].lookup = lookups + 1]
          /\ lookups' = lookups + 1 /\ pc' = [pc EXCEPT ![r] = "rpc"]
      BY <2>2 DEF Recheck, Goto
    <3>2. result[r] \in Results /\ lookups + 1 \in Nat
      OBVIOUS
    <3>3. result'[r].lookup = lookups + 1
      BY <3>1, <3>2 DEF Results
    <3>4. \A q \in Request : Below(q, lookups + 1)
      BY Numbers DEF Order, NumberInv, Below
    <3>5. \A q \in Request \ {r} : result'[q] = result[q]
      BY <3>1
    <3>6. \A q \in Of(name[r]) : q \in Request
      BY DEF Of
    <3> QED
      BY <2>2, <3>1, <3>2, <3>3, <3>4, <3>5, <3>6 DEF Below
  <2> QED
    BY <2>1, <2>2
<1>3. \A q \in Request : pc'[q] = IF q = r THEN l ELSE pc[q]
  BY <1>2
<1>4. \A n : Of(n)' = Of(n)
  BY <1>1, <1>2, <1>3 DEF Of
<1>5. \A q \in Of(name[r]) : Below(q, k)'
  BY <1>1, <1>2 DEF Below, Of
<1>6. ASSUME NEW q \in Request \ {r}, NEW m, Below(q, m) PROVE Below(q, m)'
  BY <1>1, <1>2, <1>6 DEF Below
<1>7. \A n : n # name[r] => r \notin Of(n)
  BY DEF Of
<1>8. Fresh(name[r]) = Fresh(name[r])' /\ \A n : Fresh(n)' = Fresh(n)
  BY <1>1 DEF Fresh, Expired
<1>9. NumberInv'
  <2>1. ASSUME NEW q \in Request PROVE Below(q, lookups)'
    <3>1. /\ q # r => result'[q] = result[q]
          /\ answer'[q] = answer[q] /\ floor'[q] = floor[q]
      BY <1>1, <1>2
    <3>2. result[q].lookup <= lookups /\ answer[q].lookup <= lookups /\ floor[q] <= lookups
      BY DEF Order, NumberInv, Below
    <3>3. result'[q].lookup <= lookups'
      BY <1>2, <3>1, <3>2, Numbers
    <3> QED
      BY <1>2, <3>1, <3>2, <3>3, Numbers DEF Below
  <2>2. \A n \in DOMAIN entries' : entries'[n].lookup <= lookups'
    BY <1>1, <1>2, Numbers DEF Order, NumberInv
  <2> QED
    BY <2>1, <2>2 DEF NumberInv
<1>10. BlankInv' /\ NeverBackInTime'
  BY <1>1, <1>2, <1>3 DEF Order, BlankInv, NeverBackInTime
<1>11. FreshInv'
  <2> SUFFICES ASSUME NEW n \in Name, Fresh(n)', NEW q \in Of(n)
               PROVE  Below(q, entries[n].lookup)'
    BY <1>4 DEF FreshInv
  <2>1. Below(q, entries[n].lookup) /\ entries'[n].lookup = entries[n].lookup
    BY <1>1, <1>8 DEF Order, FreshInv
  <2>2. CASE n = name[r]
    BY <1>2, <1>5, <1>8, <2>1, <2>2 DEF Below
  <2>3. CASE n # name[r]
    BY <1>6, <1>7, <2>1, <2>3 DEF Of, Below
  <2> QED
    BY <2>2, <2>3
<1>12. NewestInv'
  <2> SUFFICES ASSUME NEW x \in Request, pc'[x] \in {"rpc", "store", "land"}
               PROVE  /\ \A q \in Of(name[x]) : Below(q, result[x].lookup)'
                      /\ Fresh(name[x])' => entries'[name[x]].lookup <= result'[x].lookup
    BY <1>1, <1>4 DEF NewestInv
  <2>1. CASE x = r
    BY <1>1, <1>2, <1>5, <1>8, <2>1 DEF Below
  <2>2. CASE x # r
    <3>1. pc[x] \in {"rpc", "store", "land"} /\ result'[x] = result[x] /\ name[x] # name[r]
      BY <1>1, <1>2, <1>3, <2>2, OneLeader DEF Leading
    <3>2. /\ \A q \in Of(name[x]) : Below(q, result[x].lookup) /\ q # r
          /\ Fresh(name[x]) => entries[name[x]].lookup <= result[x].lookup
      BY <1>7, <3>1 DEF Order, NewestInv
    <3> QED
      BY <1>1, <1>6, <1>8, <3>1, <3>2 DEF Of, Below
  <2> QED
    BY <2>1, <2>2
<1>13. FloorInv'
  <2> SUFFICES ASSUME NEW x \in Request
               PROVE  /\ pc'[x] = "release" => floor[x] <= result'[x].lookup
                      /\ pc'[x] = "wait" /\ pc'[joined[x]] # "recheck" =>
                            floor[x] <= result'[joined[x]].lookup
    BY <1>1 DEF FloorInv
  <2>1. pc'[x] = "release" => floor[x] <= result'[x].lookup
    BY <1>1, <1>2, <1>3 DEF Order, FloorInv
  <2>2. CASE pc[x] = "wait" /\ joined[x] = r
    BY <1>1, <1>2, <2>2 DEF Below, Of, Crew, WaitInv
  <2>3. CASE pc[x] = "wait" /\ joined[x] # r
    BY <1>1, <1>2, <1>3, <2>3 DEF Order, FloorInv
  <2> QED
    BY <1>1, <1>2, <1>3, <2>1, <2>2, <2>3
<1> QED
  BY <1>9, <1>10, <1>11, <1>12, <1>13 DEF Order

\* A step that leaves the numbers of the requests alone, and the cache to
\* forget.
LEMMA SameOrder ==
    ASSUME Roles, Order, UNCHANGED <<name, answer, joined, lookups, floor>>,
           \A q \in Request : result'[q].lookup = result[q].lookup,
           \/ UNCHANGED pc
           \/ \E r \in Request, l \in {"rpc", "store", "land"} :
                /\ pc[r] \in {"rpc", "store"} /\ pc' = [pc EXCEPT ![r] = l],
           DOMAIN entries' \subseteq DOMAIN entries,
           \A n \in DOMAIN entries' : entries'[n] = entries[n],
           \A n : Fresh(n)' => Fresh(n)
    PROVE  Order'
<1> USE DEF Roles, Types, RequestTypes
<1>1. \A q \in Request : \/ pc'[q] = pc[q]
                         \/ /\ pc[q] \in {"rpc", "store"}
                            /\ pc'[q] \in {"rpc", "store", "land"}
  OBVIOUS
<1>2. \A n : Of(n)' = Of(n)
  BY <1>1 DEF Of
<1>3. \A q \in Request : \A k : Below(q, k)' <=> Below(q, k)
  BY DEF Below
<1>4. NumberInv' /\ BlankInv' /\ NeverBackInTime'
  BY <1>1, <1>3 DEF Order, NumberInv, BlankInv, NeverBackInTime, Below
<1>5. FreshInv'
  BY <1>2, <1>3 DEF Order, FreshInv, Of, Fresh, Below
<1>6. NewestInv'
  BY <1>1, <1>2, <1>3 DEF Order, NewestInv, Of, Fresh, Below
<1>7. FloorInv'
  BY <1>1 DEF Order, FloorInv
<1> QED
  BY <1>4, <1>5, <1>6, <1>7 DEF Order

LEMMA CallOrder ==
    ASSUME Roles, Order, NEW r \in Request, Ask(r) \/ AskFails(r)
    PROVE  Order'
<1> USE DEF Roles, Types, RequestTypes
<1>1. /\ pc[r] = "rpc"
      /\ UNCHANGED <<entries, name, joined, answer, lookups, now, floor>>
  BY CallLemma DEF cacheVars
<1>2. /\ \A q \in Request : result'[q].lookup = result[q].lookup
      /\ \/ UNCHANGED pc
         \/ \E l \in {"rpc", "store", "land"} : pc' = [pc EXCEPT ![r] = l]
  <2>1. CASE UNCHANGED <<pc, result>>
    BY <2>1
  <2>2. ASSUME NEW s, result' = [result EXCEPT ![r].site = s, ![r].at = now],
               Goto(r, IF s = Failed THEN "land" ELSE "store")
        PROVE  /\ \A q \in Request : result'[q].lookup = result[q].lookup
               /\ \E l \in {"rpc", "store", "land"} : pc' = [pc EXCEPT ![r] = l]
    <3>1. result[r] \in Results
      OBVIOUS
    <3>2. result'[r].lookup = result[r].lookup
      BY <2>2, <3>1 DEF Results
    <3> QED
      BY <2>2, <3>2 DEF Goto
  <2> QED
    BY <2>1, <2>2, CallLemma
<1>3. \A n : Fresh(n)' => Fresh(n)
  BY <1>1 DEF Fresh, Expired
<1> QED
  BY <1>1, <1>2, <1>3, SameOrder

\* The result stored is the newest of its name.
LEMMA StoreOrder == ASSUME Roles, Order, NEW r \in Request, Store(r) PROVE Order'
<1>stored. entries'[name[r]] = [site |-> result[r].site, lookup |-> result[r].lookup,
                            at |-> result[r].at, expiresAt |-> now + TTL]
  BY StoreLemma
<1>kept. \A k \in DOMAIN entries' \ {name[r]} :
            k \in DOMAIN entries /\ entries'[k] = entries[k]
  BY StoreLemma
<1> USE DEF Roles, Types, RequestTypes
<1>1. /\ pc[r] = "store" /\ pc' = [pc EXCEPT ![r] = "land"]
      /\ UNCHANGED <<name, result, answer, joined, lookups, now, floor>>
  BY DEF Store, Goto
<1>2. \A q \in Request : pc'[q] = IF q = r THEN "land" ELSE pc[q]
  BY <1>1
<1>3. \A n : Of(n)' = Of(n)
  BY <1>1, <1>2 DEF Of
<1>4. \A q \in Request : \A k : Below(q, k)' <=> Below(q, k)
  BY <1>1 DEF Below
<1>5. /\ entries'[name[r]].lookup = result[r].lookup
      /\ \A k \in DOMAIN entries' \ {name[r]} :
            k \in DOMAIN entries /\ entries'[k] = entries[k]
  BY <1>stored, <1>kept
<1>6. ASSUME NEW n, n # name[r], Fresh(n)'
      PROVE  Fresh(n) /\ entries'[n] = entries[n]
  BY <1>6, StoreFresh
<1>7. \A q \in Of(name[r]) : Below(q, result[r].lookup)
  BY <1>1 DEF Order, NewestInv
<1>8. NumberInv'
  BY <1>1, <1>4, <1>5 DEF Order, NumberInv, Below
<1>9. BlankInv' /\ NeverBackInTime' /\ FloorInv'
  BY <1>1, <1>2 DEF Order, BlankInv, NeverBackInTime, FloorInv
<1>10. FreshInv'
  <2> SUFFICES ASSUME NEW n \in Name, Fresh(n)', NEW q \in Of(n)
               PROVE  Below(q, entries[n].lookup)'
    BY <1>3 DEF FreshInv
  <2>1. CASE n = name[r]
    BY <1>1, <1>5, <1>7, <2>1 DEF Below
  <2>2. CASE n # name[r]
    BY <1>1, <1>6, <2>2 DEF Order, FreshInv, Below
  <2> QED
    BY <2>1, <2>2
<1>11. NewestInv'
  <2> SUFFICES ASSUME NEW x \in Request, pc'[x] \in {"rpc", "store", "land"}
               PROVE  /\ \A q \in Of(name[x]) : Below(q, result[x].lookup)
                      /\ Fresh(name[x])' => entries'[name[x]].lookup <= result[x].lookup
    BY <1>1, <1>3, <1>4 DEF NewestInv, Below
  <2>1. CASE x = r
    BY <1>5, <1>7, <2>1, Numbers
  <2>2. CASE x # r
    <3>1. pc[x] \in {"rpc", "store", "land"} /\ name[x] # name[r]
      BY <1>1, <1>2, <2>2, OneLeader DEF Leading
    <3>2. PICK n : n = name[x]
      OBVIOUS
    <3>3. Fresh(n)' => Fresh(n) /\ entries'[n] = entries[n]
      BY <1>6, <3>1, <3>2
    <3> QED
      BY <1>1, <3>1, <3>2, <3>3 DEF Order, NewestInv, Fresh, Expired
  <2> QED
    BY <2>1, <2>2
<1> QED
  BY <1>8, <1>9, <1>10, <1>11 DEF Order

LEMMA WorldOrder ==
    ASSUME Roles, Order, [Next]_vars,
           \/ \E c \in 1 .. NRegistries, n \in Name, s \in Site : Change(c, n, s)
           \/ Cleanup \/ Tick \/ UNCHANGED vars
    PROVE  Order'
<1>1. UNCHANGED reqVars
  BY DEF Change, Cleanup, Tick, vars
<1>2. \A r \in Request : ~Store(r)
  BY <1>1 DEF reqVars, Store, Goto, Roles, Types, RequestTypes
<1>3. \A n : Fresh(n)' => Fresh(n)
  BY <1>2, StaysStale
<1>4. /\ DOMAIN entries' \subseteq DOMAIN entries
      /\ \A n \in DOMAIN entries' : entries'[n] = entries[n]
  BY DEF Change, Cleanup, Tick, vars, cacheVars
<1> QED
  BY <1>1, <1>3, <1>4, SameOrder DEF reqVars

LEMMA OrderStep == Roles /\ Order /\ [Next]_vars => Order'
<1> SUFFICES ASSUME Roles, Order, [Next]_vars PROVE Order'
  OBVIOUS
<1>1. CASE \E r \in Request : Step(r)
  BY <1>1, GetOrder, DoOrder, WakeOrder, RecheckOrder, CallOrder, StoreOrder,
     LandOrder, ReleaseOrder DEF Step
<1>2. CASE \E r \in Request : \E n \in Name : Begin(r, n)
  BY <1>2, BeginOrder
<1> QED
  BY <1>1, <1>2, WorldOrder DEF Next

-----------------------------------------------------------------------------
(* The age of results: AgesInit, one lemma per action, then AgesStep.       *)

\* The types the arithmetic of this section needs.
LEMMA Times ==
    ASSUME Roles
    PROVE  /\ now \in Nat /\ TTL \in Nat
           /\ \A q \in Request : /\ result[q].at \in Nat /\ answer[q].at \in Nat
                                 /\ started[q] \in Nat
           /\ \A n \in DOMAIN entries : /\ entries[n].at \in Nat
                                        /\ entries[n].expiresAt \in Nat
BY NameCacheAssumption DEF Roles, Types, RequestTypes, CacheTypes, Results, Cached

LEMMA AgesInit == Init => Ages
<1> SUFFICES ASSUME Init PROVE Ages
  OBVIOUS
<1>1. DOMAIN entries = {}
  BY DEF Init
<1> QED
  BY <1>1 DEF Init, Ages, StaleAtMostTTL

\* A request is answered with a result of which no more than TTL has passed.
LEMMA AnswerAges ==
    ASSUME Roles, Ages, NEW r \in Request, NEW res \in Results,
           answer' = [answer EXCEPT ![r] = res],
           pc' = [pc EXCEPT ![r] = "answered"],
           joined' \in {joined, [joined EXCEPT ![r] = r]},
           landed' \subseteq landed \union {r},
           pc[r] = "release" \/ landed' = landed,
           UNCHANGED <<entries, result, now, started>>,
           res.at + TTL >= now
    PROVE  Ages'
<1> USE DEF Roles, Types, RequestTypes
<1>1. \A q \in Request :
        /\ pc'[q] = IF q = r THEN "answered" ELSE pc[q]
        /\ answer'[q] = IF q = r THEN res ELSE answer[q]
        /\ q # r => joined'[q] = joined[q]
  OBVIOUS
<1>2. StaleAtMostTTL'
  <2>1. res.at \in Nat
    BY DEF Results
  <2>2. res.at + TTL >= started[r]
    BY <2>1, Times DEF Ages
  <2> QED
    BY <1>1, <2>2 DEF Ages, StaleAtMostTTL
<1>3. \A q \in Request :
        /\ started'[q] <= now'
        /\ pc'[q] = "store" => result'[q].at = now'
        /\ pc'[q] \in {"land", "release"} => Young(q)'
        /\ pc'[q] = "wait" /\ joined'[q] \in landed' => Young(joined[q])'
  BY <1>1 DEF Ages, Young
<1> QED
  BY <1>2, <1>3 DEF Ages

\* A step that changes neither results nor answers, and where nobody enters a
\* place where age matters.
LEMMA QuietAges ==
    ASSUME Roles, Ages, NEW r \in Request, NEW l \in Statuses \ {"store", "answered"},
           pc' = [pc EXCEPT ![r] = l],
           l = "land" => pc[r] = "store",
           l = "release" => pc[r] = "land",
           l = "wait" => joined'[r] \notin landed,
           \A q \in Request \ {r} : joined'[q] = joined[q],
           UNCHANGED <<landed, entries, result, answer, now>>,
           started' \in {started, [started EXCEPT ![r] = now]}
    PROVE  Ages'
<1> USE DEF Roles, Types, RequestTypes
<1>1. \A q \in Request :
        /\ pc'[q] = IF q = r THEN l ELSE pc[q]
        /\ q # r => started'[q] = started[q]
  OBVIOUS
<1>2. \A q \in Request : started'[q] <= now
  BY Times DEF Ages
<1>3. StaleAtMostTTL'
  BY <1>1 DEF Ages, StaleAtMostTTL
<1>4. pc[r] = "store" => Young(r)
  BY Times DEF Ages, Young
<1>5. \A q \in Request :
        /\ pc'[q] = "store" => result'[q].at = now'
        /\ pc'[q] \in {"land", "release"} => Young(q)'
  BY <1>1, <1>4 DEF Ages, Young
<1>6. \A q \in Request : pc'[q] = "wait" /\ joined'[q] \in landed' => Young(joined[q])'
  BY <1>1 DEF Ages, Young
<1> QED
  BY <1>2, <1>3, <1>5, <1>6 DEF Ages

LEMMA BeginAges ==
    ASSUME Roles, Ages, NEW r \in Request, NEW n \in Name, Begin(r, n)
    PROVE  Ages'
BY QuietAges DEF Begin, Goto, cacheVars, Statuses

\* What get finds was found out at most TTL ago.
LEMMA FreshYoung ==
    ASSUME Roles, Ages, NEW n, Fresh(n)
    PROVE  Cached(n) \in Results /\ Cached(n).at + TTL >= now
<1>1. n \in DOMAIN entries /\ ~(now > entries[n].expiresAt)
  BY DEF Fresh, Expired
<1>2. entries[n].expiresAt <= entries[n].at + TTL /\ Cached(n).at = entries[n].at
  BY <1>1 DEF Ages, Cached
<1> QED
  BY <1>1, <1>2, Times DEF Roles, Types, CacheTypes

LEMMA GetAges == ASSUME Roles, Ages, NEW r \in Request, Get(r) PROVE Ages'
<1>1. CASE Fresh(name[r])
  <2>1. PICK res \in Results : res = Cached(name[r]) /\ res.at + TTL >= now
    BY <1>1, FreshYoung
  <2>2. /\ answer' = [answer EXCEPT ![r] = res]
        /\ pc' = [pc EXCEPT ![r] = "answered"]
        /\ UNCHANGED <<landed, joined, entries, result, now, started>>
    BY <1>1, <2>1 DEF Get, Answer, Goto, cacheVars
  <2> QED
    BY <2>1, <2>2, AnswerAges
<1>2. CASE ~Fresh(name[r])
  BY <1>2, QuietAges DEF Get, Goto, cacheVars, Statuses
<1> QED
  BY <1>1, <1>2

LEMMA DoAges == ASSUME Roles, Ages, NEW r \in Request, Do(r) PROVE Ages'
<1>1. PICK l \in {"wait", "recheck"} :
        /\ pc' = [pc EXCEPT ![r] = l]
        /\ l = "wait" => joined'[r] \notin landed
        /\ \A q \in Request \ {r} : joined'[q] = joined[q]
  <2>1. CASE name[r] \in DOMAIN flight
    <3>1. flight[name[r]] \notin landed
      BY <2>1 DEF Roles, Crew, FlightInv, LandedInv, Leading
    <3> QED
      BY <2>1, <3>1 DEF Do, Goto, Roles, Types, RequestTypes
  <2>2. CASE name[r] \notin DOMAIN flight
    BY <2>2 DEF Do, Goto
  <2> QED
    BY <2>1, <2>2
<1>2. UNCHANGED <<landed, entries, result, answer, now, started>>
  BY DEF Do
<1> QED
  BY <1>1, <1>2, QuietAges DEF Statuses, Leading

LEMMA WakeAges == ASSUME Roles, Ages, NEW r \in Request, Wake(r) PROVE Ages'
<1>1. PICK l \in Request : l = joined[r] /\ pc[r] = "wait" /\ l \in landed
  BY DEF Wake, Roles, Types, RequestTypes
<1>2. result[l] \in Results /\ result[l].at + TTL >= now
  BY <1>1 DEF Ages, Young, Roles, Types, RequestTypes
<1>3. /\ answer' = [answer EXCEPT ![r] = result[l]]
      /\ pc' = [pc EXCEPT ![r] = "answered"] /\ joined' = [joined EXCEPT ![r] = r]
      /\ UNCHANGED <<landed, entries, result, now, started>>
  BY <1>1 DEF Wake, Answer, Goto, cacheVars
<1> QED
  BY <1>2, <1>3, AnswerAges

LEMMA ReleaseAges == ASSUME Roles, Ages, NEW r \in Request, Release(r) PROVE Ages'
<1>1. pc[r] = "release" /\ result[r] \in Results /\ result[r].at + TTL >= now
  BY DEF Release, Ages, Young, Roles, Types, RequestTypes
<1>2. /\ answer' = [answer EXCEPT ![r] = result[r]]
      /\ pc' = [pc EXCEPT ![r] = "answered"] /\ landed' = landed \union {r}
      /\ UNCHANGED <<joined, entries, result, now, started>>
  BY DEF Release, Answer, Goto
<1> QED
  BY <1>1, <1>2, AnswerAges

LEMMA LandAges == ASSUME Roles, Ages, NEW r \in Request, Land(r) PROVE Ages'
BY QuietAges DEF Land, Goto, Statuses

\* A leader's result changes: to one that is not older than TTL, and where it
\* is to be stored, to one just found out.
LEMMA ResultAges ==
    ASSUME Roles, Ages, NEW r \in Request, pc[r] \in Leading,
           NEW l \in {"rpc", "store", "land"}, pc' = [pc EXCEPT ![r] = l],
           \A q \in Request \ {r} : result'[q] = result[q],
           l = "store" => result'[r].at = now,
           l = "land" => result'[r].at + TTL >= now,
           UNCHANGED <<landed, joined, entries, answer, now, started>>
    PROVE  Ages'
<1> USE DEF Roles, Types, RequestTypes
<1>1. \A q \in Request : pc'[q] = IF q = r THEN l ELSE pc[q]
  OBVIOUS
<1>2. r \notin landed
  BY DEF Crew, LandedInv, Leading
<1>3. StaleAtMostTTL'
  BY <1>1 DEF Ages, StaleAtMostTTL
<1>4. \A q \in Request :
        /\ started'[q] <= now'
        /\ pc'[q] = "store" => result'[q].at = now'
        /\ pc'[q] \in {"land", "release"} => Young(q)'
        /\ pc'[q] = "wait" /\ joined'[q] \in landed' => Young(joined[q])'
  BY <1>1, <1>2 DEF Ages, Young
<1> QED
  BY <1>3, <1>4 DEF Ages

LEMMA RecheckAges == ASSUME Roles, Ages, NEW r \in Request, Recheck(r) PROVE Ages'
<1>1. /\ pc[r] \in Leading
      /\ UNCHANGED <<landed, joined, entries, answer, now, started>>
  BY DEF Recheck, cacheVars, Leading
<1>2. CASE Fresh(name[r])
  <2>1. PICK res \in Results : res = Cached(name[r]) /\ res.at + TTL >= now
    BY <1>2, FreshYoung
  <2>2. result' = [result EXCEPT ![r] = res] /\ pc' = [pc EXCEPT ![r] = "land"]
    BY <1>2, <2>1 DEF Recheck, Goto
  <2>3. result'[r] = res /\ \A q \in Request \ {r} : result'[q] = result[q]
    BY <2>2 DEF Roles, Types, RequestTypes
  <2> QED
    BY <1>1, <2>1, <2>2, <2>3, ResultAges
<1>3. CASE ~Fresh(name[r])
  <2>1. /\ \A q \in Request \ {r} : result'[q] = result[q]
        /\ pc' = [pc EXCEPT ![r] = "rpc"]
    BY <1>3 DEF Recheck, Goto, Roles, Types, RequestTypes
  <2> QED
    BY <1>1, <2>1, ResultAges
<1> QED
  BY <1>2, <1>3

LEMMA CallAges ==
    ASSUME Roles, Ages, NEW r \in Request, Ask(r) \/ AskFails(r)
    PROVE  Ages'
<1>1. /\ pc[r] = "rpc" /\ pc[r] \in Leading
      /\ UNCHANGED <<landed, joined, entries, answer, now, started>>
  BY CallLemma DEF cacheVars, Leading
<1>2. CASE UNCHANGED <<pc, result>>
  <2>1. pc' = [pc EXCEPT ![r] = "rpc"]
    BY <1>1, <1>2 DEF Roles, Types, RequestTypes
  <2> QED
    BY <1>1, <1>2, <2>1, ResultAges
<1>3. ASSUME NEW s, result' = [result EXCEPT ![r].site = s, ![r].at = now],
             Goto(r, IF s = Failed THEN "land" ELSE "store")
      PROVE  Ages'
  <2>1. PICK l \in {"land", "store"} : pc' = [pc EXCEPT ![r] = l]
    BY <1>3 DEF Goto
  <2>2. result[r] \in Results /\ \A q \in Request \ {r} : result'[q] = result[q]
    BY <1>3 DEF Roles, Types, RequestTypes
  <2>3. result'[r].at = now
    BY <1>3, <2>2 DEF Roles, Types, RequestTypes, Results
  <2>4. now + TTL >= now
    BY Times
  <2> QED
    BY <1>1, <2>1, <2>2, <2>3, <2>4, ResultAges
<1> QED
  BY <1>2, <1>3, CallLemma

LEMMA StoreAges == ASSUME Roles, Ages, NEW r \in Request, Store(r) PROVE Ages'
<1>1. entries'[name[r]] = [site |-> result[r].site, lookup |-> result[r].lookup,
                           at |-> result[r].at, expiresAt |-> now + TTL]
  BY StoreLemma
<1>2. \A k \in DOMAIN entries' \ {name[r]} :
            k \in DOMAIN entries /\ entries'[k] = entries[k]
  BY StoreLemma
<1>3. /\ pc[r] = "store" /\ pc' = [pc EXCEPT ![r] = "land"]
      /\ UNCHANGED <<landed, joined, result, answer, now, started>>
  BY DEF Store, Goto
<1>4. result[r].at = now
  BY <1>3 DEF Ages
<1>5. \A n \in DOMAIN entries' : entries'[n].expiresAt <= entries'[n].at + TTL
  BY <1>1, <1>2, <1>4, Times DEF Ages
<1> USE DEF Roles, Types, RequestTypes
<1>6. \A q \in Request : pc'[q] = IF q = r THEN "land" ELSE pc[q]
  BY <1>3
<1>7. StaleAtMostTTL'
  BY <1>3, <1>6 DEF Ages, StaleAtMostTTL
<1>8. Young(r)
  BY <1>4, Times DEF Young
<1>9. \A q \in Request :
        /\ started'[q] <= now'
        /\ pc'[q] = "store" => result'[q].at = now'
        /\ pc'[q] \in {"land", "release"} => Young(q)'
        /\ pc'[q] = "wait" /\ joined'[q] \in landed' => Young(joined[q])'
  BY <1>3, <1>6, <1>8 DEF Ages, Young
<1> QED
  BY <1>5, <1>7, <1>9 DEF Ages

\* The clock only moves while no result is on its way.
LEMMA WorldAges ==
    ASSUME Roles, Ages,
           \/ \E c \in 1 .. NRegistries, n \in Name, s \in Site : Change(c, n, s)
           \/ Cleanup \/ Tick \/ UNCHANGED vars
    PROVE  Ages'
<1>1. UNCHANGED <<landed, reqVars>>
  BY DEF Change, Cleanup, Tick, vars, cacheVars
<1>2. \A n \in DOMAIN entries' : entries'[n].expiresAt <= entries'[n].at + TTL
  BY DEF Ages, Change, Cleanup, Tick, vars, cacheVars
<1>3. StaleAtMostTTL'
  BY <1>1 DEF Ages, StaleAtMostTTL, reqVars
<1>4. CASE Tick
  <2>1. /\ now' = now + 1
        /\ \A r \in Request : /\ pc[r] \notin {"store", "land", "release"}
                              /\ ~(pc[r] = "wait" /\ joined[r] \in landed)
    BY <1>4 DEF Tick, Busy
  <2>2. \A r \in Request : started[r] <= now + 1
    BY Times DEF Ages
  <2> QED
    BY <1>1, <1>2, <1>3, <2>1, <2>2 DEF Ages, reqVars
<1>5. CASE UNCHANGED now
  BY <1>1, <1>2, <1>3, <1>5 DEF Ages, Young, reqVars
<1> QED
  BY <1>4, <1>5 DEF Change, Cleanup, vars

LEMMA AgesStep == Roles /\ Ages /\ [Next]_vars => Ages'
<1> SUFFICES ASSUME Roles, Ages, [Next]_vars PROVE Ages'
  OBVIOUS
<1>1. CASE \E r \in Request : Step(r)
  BY <1>1, GetAges, DoAges, WakeAges, RecheckAges, CallAges, StoreAges,
     LandAges, ReleaseAges DEF Step
<1>2. CASE \E r \in Request : \E n \in Name : Begin(r, n)
  BY <1>2, BeginAges
<1> QED
  BY <1>1, <1>2, WorldAges DEF Next

-----------------------------------------------------------------------------
(* The size of the cache, and the theorems *)

\* Only Store adds to the cache, and StoreLemma bounds what it leaves.
LEMMA BoundStep == Roles /\ CacheBounded /\ [Next]_vars => CacheBounded'
<1> SUFFICES ASSUME Roles, CacheBounded, [Next]_vars PROVE CacheBounded'
  OBVIOUS
<1>1. CASE \E r \in Request : Store(r)
  BY <1>1, StoreLemma
<1>2. CASE Cleanup
  <2>1. DOMAIN entries' \subseteq DOMAIN entries /\ IsFiniteSet(DOMAIN entries)
    BY <1>2 DEF Cleanup, Roles, Types, CacheTypes
  <2>2. /\ Cardinality(DOMAIN entries') <= Cardinality(DOMAIN entries)
        /\ IsFiniteSet(DOMAIN entries')
    BY <2>1, FS_Subset
  <2>3. Cardinality(DOMAIN entries') \in Nat /\ Cardinality(DOMAIN entries) \in Nat
    BY <2>1, <2>2, FS_CardinalityType
  <2> QED
    BY <2>2, <2>3, NameCacheAssumption DEF CacheBounded
<1>3. CASE UNCHANGED entries
  BY <1>3 DEF CacheBounded
<1>4. CASE \E r \in Request : \/ Get(r) \/ Do(r) \/ Wake(r) \/ Recheck(r)
                              \/ Ask(r) \/ AskFails(r) \/ Land(r) \/ Release(r)
  BY <1>3, <1>4 DEF Get, Do, Wake, Recheck, Ask, AskFails, Land, Release, cacheVars
<1>5. CASE \E r \in Request, n \in Name : Begin(r, n)
  BY <1>3, <1>5 DEF Begin, cacheVars
<1>6. CASE \/ \E c \in 1 .. NRegistries, n \in Name, s \in Site : Change(c, n, s)
           \/ Tick \/ UNCHANGED vars
  BY <1>3, <1>6 DEF Change, Tick, vars, cacheVars
<1> QED
  BY <1>1, <1>2, <1>4, <1>5, <1>6 DEF Next, Step

\* The inductive invariant holds in every reachable state.
THEOREM Invariance == Spec => []IInv
<1>1. Init => IInv
  <2> SUFFICES ASSUME Init PROVE IInv
    OBVIOUS
  <2>1. MissInv
    BY DEF Init, MissInv
  <2>2. CacheBounded
    <3>1. DOMAIN entries = {}
      BY DEF Init
    <3> QED
      BY <3>1, FS_EmptySet, NameCacheAssumption DEF CacheBounded
  <2> QED
    BY <2>1, <2>2, RolesInit, OrderInit, AgesInit DEF IInv
<1>2. IInv /\ [Next]_vars => IInv'
  BY RolesStep, MissStep, OrderStep, AgesStep, BoundStep DEF IInv
<1> QED
  BY <1>1, <1>2, PTL DEF Spec

\* Every variable keeps its type, and every lookup in flight has its leader.
THEOREM TypeCorrect == Spec => []TypeOK
<1>1. IInv => TypeOK
  BY RolesTyped DEF IInv
<1> QED
  BY <1>1, Invariance, PTL

\* While nodes are asked for a name, nobody else asks for it and the cache does
\* not know it: do collapses lookups, and looks into the cache again.
THEOREM OneLookup == Spec => []NoSuperfluousLookup
<1>1. IInv => NoSuperfluousLookup
  BY OneLeader DEF IInv, MissInv, NoSuperfluousLookup, Leading
<1> QED
  BY <1>1, Invariance, PTL

\* No visitor gets the result of an older lookup than a visitor of the same
\* name who was answered before: the cache, its eviction and the collapsing of
\* lookups never let a site flip back.
THEOREM SitesDoNotFlipBack == Spec => []NeverBackInTime
<1>1. IInv => NeverBackInTime
  BY DEF IInv, Order
<1> QED
  BY <1>1, Invariance, PTL

\* What a visitor gets was found out at most TTL before the visitor came.
THEOREM FreshEnough == Spec => []StaleAtMostTTL
<1>1. IInv => StaleAtMostTTL
  BY DEF IInv, Ages
<1> QED
  BY <1>1, Invariance, PTL

\* The cache keeps to its limit: nameCacheMaxSize.
THEOREM CacheKeepsLimit == Spec => []CacheBounded
<1>1. IInv => CacheBounded
  BY DEF IInv
<1> QED
  BY <1>1, Invariance, PTL
=============================================================================

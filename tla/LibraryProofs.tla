--------------------------- MODULE LibraryProofs ----------------------------
(***************************************************************************)
(* Proofs about Library, for every manifest with one name per file, any    *)
(* number of workers, any chain and any window of the search: every file   *)
(* is fetched once, a call gives all it was asked for or throws, and if no *)
(* RPC call fails it throws only for what is not stored.                   *)
(*                                                                         *)
(* The invariant has two parts that do not depend on each other: PoolInv,  *)
(* what the workers and the counters of fetchAll know of each other, and   *)
(* JobsInv, what a search that has not failed has left behind it.          *)
(***************************************************************************)
EXTENDS Library, FiniteSetTheorems, TLAPS

\* Nothing has been taken yet.
Before == /\ idx = 0 /\ completed = 0 /\ told = << >>
          /\ DOMAIN result = {}
          /\ workers = [w \in Worker |-> NoWorker]

Busy(w) == workers[w].st \in {"fetch", "failed"}

\* A worker that has an entry works on the parts of that entry.
WorkerOK(w) ==
    /\ DOMAIN workers[w] = {"st", "item", "jobs"}
    /\ workers[w].st \in {"none", "fetch", "ended", "failed"}
    /\ workers[w].item \in 0 .. Len(Entries)
    /\ Busy(w) =>
        /\ workers[w].item \in DOMAIN Entries
        /\ DOMAIN workers[w].jobs = DOMAIN Entries[workers[w].item].parts
        /\ \A k \in DOMAIN workers[w].jobs :
            /\ DOMAIN workers[w].jobs[k] = {"h", "b", "to", "st"}
            /\ workers[w].jobs[k].h = Entries[workers[w].item].parts[k].h

\* What is kept is whole.
ResultOK ==
    \A key \in DOMAIN result :
        \E i \in 1 .. idx : key = NameOf(i) /\ result[key] = Body(i)

\* fetchAll: every entry below the index is kept or in the hands of one worker.
AllInv ==
    /\ \A v, w \in InFlight : workers[v].item = workers[w].item => v = w
    /\ \A w \in InFlight : /\ workers[w].item <= idx
                           /\ NameOf(workers[w].item) \notin DOMAIN result
    /\ \A i \in 1 .. idx : \/ NameOf(i) \in DOMAIN result
                           \/ \E w \in InFlight : workers[w].item = i
    /\ completed + Cardinality(InFlight) = idx
    /\ told \in Seq(Nat) /\ Len(told) = completed
    /\ \A n \in 1 .. completed : told[n] = n

\* fetch: one worker has the entry asked for, or has kept it.
OneInv ==
    /\ idx = Len(Entries) /\ EntryOf(call.path) # {}
    /\ \E i \in EntryOf(call.path) :
        \/ InFlight = {1} /\ workers[1].item = i /\ DOMAIN result = {} /\ completed = 0
        \/ InFlight = {} /\ DOMAIN result = {NameOf(i)} /\ completed = 1

Stages == {"idle", "v2", "index", "manifest", "files", "returned", "rejected"}

PoolInv ==
    /\ stage \in Stages
    /\ idx \in 0 .. Len(Entries) /\ completed \in Nat
    /\ DOMAIN workers = Worker /\ \A w \in Worker : WorkerOK(w)
    /\ stage # "idle" => call \in Call
    /\ stage = "idle" => call = None
    /\ stage \in {"idle", "v2", "index", "manifest"} => Before
    /\ stage \in {"files", "returned"} => ~Before
    /\ (\E w \in Worker : workers[w].st = "ended") => idx = Len(Entries)
    /\ stage = "returned" => \A w \in Worker : workers[w].st = "ended"
    /\ ResultOK
    /\ call # None /\ call.kind = "all" => AllInv
    /\ call # None /\ call.kind = "one" /\ ~Before => OneInv

-----------------------------------------------------------------------------
(* Helpers *)

LEMMA EntriesFacts ==
    /\ Len(Entries) \in Nat /\ DOMAIN Entries = 1 .. Len(Entries)
BY LibraryAssumption

\* A path leads to one entry.
LEMMA OneEntry ==
    ASSUME NEW c \in Call, c.kind = "one",
           NEW i \in EntryOf(c.path), NEW j \in EntryOf(c.path)
    PROVE  i = j
BY LibraryAssumption DEF EntryOf, NameOf

LEMMA EntryOfDomain == \A p : EntryOf(p) \subseteq DOMAIN Entries
BY DEF EntryOf

LEMMA InFlightFinite ==
    /\ InFlight \subseteq Worker /\ IsFiniteSet(InFlight)
    /\ Cardinality(InFlight) \in Nat
<1>1. IsFiniteSet(Worker)
  <2>1. 1 \in Int /\ Concurrency \in Int
    BY LibraryAssumption
  <2>2. QED
    BY <2>1, FS_Interval DEF Worker
<1>2. QED
  BY <1>1, FS_Subset, FS_CardinalityType DEF InFlight

\* Before anything is taken, fetchAll's promises hold.
LEMMA BeforeAll == ASSUME Before PROVE AllInv /\ InFlight = {} /\ ResultOK
<1>1. InFlight = {}
  BY DEF Before, InFlight, NoWorker, Worker
<1>2. Cardinality(InFlight) = 0
  BY <1>1, FS_EmptySet
<1>3. told \in Seq(Nat) /\ Len(told) = completed /\ completed = 0
  BY DEF Before
<1>4. QED
  BY <1>1, <1>2, <1>3 DEF AllInv, Before, ResultOK

\* The changes of one worker.
LEMMA OneWorker ==
    ASSUME NEW w \in Worker, NEW x, workers' = [workers EXCEPT ![w] = x],
           DOMAIN workers = Worker
    PROVE  /\ DOMAIN workers' = Worker /\ workers'[w] = x
           /\ \A v \in Worker \ {w} : workers'[v] = workers[v]
OBVIOUS

-----------------------------------------------------------------------------
(* The pool *)

LEMMA PoolInit == Init => PoolInv
<1> SUFFICES ASSUME Init PROVE PoolInv
  OBVIOUS
<1>1. Before
  BY DEF Init, Before
<1>2. \A w \in Worker : WorkerOK(w) /\ workers[w].st = "none"
  BY EntriesFacts DEF Init, WorkerOK, NoWorker, Busy
<1>3. ResultOK
  BY <1>1, BeforeAll
<1>4. QED
  BY <1>1, <1>2, <1>3, EntriesFacts DEF Init, PoolInv, Stages

\* Until the pool starts, only the stage and the call change.
LEMMA EarlyStep ==
    ASSUME PoolInv, UNCHANGED poolVars, stage \in {"idle", "v2", "index", "manifest"},
           stage' \in {"v2", "index", "manifest", "rejected"},
           call' \in Call, stage # "idle" => call' = call
    PROVE  PoolInv'
<1>1. Before /\ Before'
  BY DEF PoolInv, Before, poolVars
<1>2. AllInv' /\ InFlight' = {} /\ ResultOK'
  <2>1. AllInv /\ InFlight = {} /\ ResultOK
    BY <1>1, BeforeAll
  <2>2. QED
    BY <2>1 DEF AllInv, InFlight, ResultOK, poolVars
<1>3. \A w \in Worker : WorkerOK(w)'
  BY DEF PoolInv, WorkerOK, Busy, poolVars
<1>4. \A w \in Worker : workers'[w].st = "none"
  BY <1>1 DEF Before, NoWorker
<1>5. QED
  BY <1>1, <1>2, <1>3, <1>4 DEF PoolInv, Stages, poolVars

LEMMA BeginInv == ASSUME PoolInv, NEW c \in Call, Begin(c) PROVE PoolInv'
<1>1. /\ UNCHANGED poolVars /\ stage = "idle" /\ call' = c
      /\ stage' \in {"v2", "index", "manifest"}
  BY DEF Begin, Read
<1>2. QED
  BY <1>1, EarlyStep

LEMMA AskedInv ==
    ASSUME PoolInv, AskV2 \/ AskIndex \/ AskManifest \/ ManifestFails
    PROVE  PoolInv'
<1>1. /\ UNCHANGED poolVars /\ stage \in {"v2", "index", "manifest"}
      /\ stage' \in {"index", "manifest", "rejected"} /\ call' = call
  BY DEF AskV2, AskIndex, AskManifest, ManifestFails, Read
<1>2. call' \in Call
  BY <1>1 DEF PoolInv
<1>3. QED
  BY <1>1, <1>2, EarlyStep

LEMMA StartPoolInv == PoolInv /\ StartPool => PoolInv'
<1> SUFFICES ASSUME PoolInv, StartPool PROVE PoolInv'
  OBVIOUS
<1> DEFINE n == IF Concurrency < Len(Entries) THEN Concurrency ELSE Len(Entries)
<1>1. Before /\ call \in Call /\ stage' = "files" /\ idx' = n
      /\ workers' = [w \in Worker |-> IF w <= n THEN Take(w) ELSE Ended]
      /\ UNCHANGED <<call, completed, result, told>>
  BY DEF StartPool, PoolInv
<1>2. /\ Concurrency \in Nat \ {0} /\ n \in Nat /\ n <= Concurrency
      /\ n \in 0 .. Len(Entries)
  BY LibraryAssumption, EntriesFacts
<1> HIDE DEF n
<1>3. \A w \in Worker : WorkerOK(w)' /\ (Busy(w)' <=> w <= n)
                         /\ (w <= n => workers'[w].item = w)
  BY <1>1, <1>2, EntriesFacts
     DEF WorkerOK, Busy, Take, Ended, NoWorker, Worker, Job
<1>4. InFlight' = 1 .. n
  BY <1>2, <1>3 DEF InFlight, Busy, Worker
<1>5. Cardinality(1 .. n) = n
  BY <1>2, FS_Interval
<1>6. AllInv' /\ ResultOK'
  <2>1. completed = 0 /\ DOMAIN result = {} /\ told \in Seq(Nat) /\ Len(told) = 0
    BY <1>1 DEF Before
  <2>2. \A w \in InFlight' : workers'[w].item = w
    BY <1>2, <1>3, <1>4 DEF Worker
  <2>3. ResultOK'
    BY <1>1, <2>1 DEF ResultOK
  <2>4. \A v, w \in InFlight' : workers'[v].item = workers'[w].item => v = w
    BY <2>2
  <2>5. \A w \in InFlight' : /\ workers'[w].item <= idx'
                             /\ NameOf(workers'[w].item) \notin DOMAIN result'
    BY <1>1, <1>2, <1>4, <2>1, <2>2
  <2>6. \A i \in 1 .. idx' : i \in InFlight' /\ workers'[i].item = i
    BY <1>1, <1>4, <2>2
  <2>7. completed' + Cardinality(InFlight') = idx'
    BY <1>1, <1>2, <1>4, <1>5, <2>1
  <2>8. /\ told' \in Seq(Nat) /\ Len(told') = completed'
        /\ \A i \in 1 .. completed' : told'[i] = i
    BY <1>1, <2>1
  <2>9. QED
    BY <2>3, <2>4, <2>5, <2>6, <2>7, <2>8 DEF AllInv
<1>7. (\E w \in Worker : workers'[w].st = "ended") => n = Len(Entries)
  <2>1. SUFFICES ASSUME NEW w \in Worker, workers'[w].st = "ended"
                 PROVE  n = Len(Entries)
    OBVIOUS
  <2>2. ~(w <= n)
    BY <1>1, <2>1 DEF Take
  <2>3. n # Concurrency
    BY <1>2, <2>2 DEF Worker
  <2>4. QED
    BY <2>3 DEF n
<1>8. call.kind = "all"
  BY DEF StartPool
<1>9. workers'[1].st \in {"fetch", "ended"}
  BY <1>1, <1>2 DEF Take, Ended, NoWorker, Worker
<1>10. ~Before'
  BY <1>2, <1>9 DEF Before, NoWorker, Worker
<1>11. call # None
  BY <1>1, LibraryAssumption
<1>12. QED
  BY <1>1, <1>2, <1>3, <1>6, <1>7, <1>8, <1>10, <1>11 DEF PoolInv, Stages, Before

LEMMA FetchOneInv == PoolInv /\ FetchOne => PoolInv'
<1> SUFFICES ASSUME PoolInv, FetchOne PROVE PoolInv'
  OBVIOUS
<1>1. Before /\ call \in Call /\ call.kind = "one"
      /\ UNCHANGED <<call, completed, result, told>>
  BY DEF FetchOne, PoolInv
<1>2. CASE UNCHANGED <<idx, workers>> /\ stage' = "rejected"
  BY <1>1, <1>2, EarlyStep DEF FetchOne, poolVars
<1>3. ASSUME NEW i \in EntryOf(call.path), stage' = "files", idx' = Len(Entries),
             workers' = [w \in Worker |-> IF w = 1 THEN Take(i) ELSE Ended]
      PROVE  PoolInv'
  <2>1. /\ i \in DOMAIN Entries /\ 1 \in Worker /\ i \in 0 .. Len(Entries)
        /\ Len(Entries) \in Nat
    BY EntriesFacts, LibraryAssumption DEF EntryOf, Worker
  <2>2. \A w \in Worker : WorkerOK(w)' /\ (Busy(w)' <=> w = 1)
    BY <1>3, <2>1, EntriesFacts
       DEF WorkerOK, Busy, Take, Ended, NoWorker, Job
  <2>3. InFlight' = {1} /\ workers'[1].item = i
    BY <1>3, <2>1, <2>2 DEF InFlight, Busy, Take
  <2>4. completed = 0 /\ DOMAIN result = {}
    BY <1>1 DEF Before
  <2>5. OneInv' /\ ResultOK'
    BY <1>1, <1>3, <2>1, <2>3, <2>4 DEF OneInv, ResultOK
  <2>6. workers'[1].st = "fetch"
    BY <1>3, <2>1 DEF Take
  <2>7. ~Before'
    BY <2>1, <2>6 DEF Before, NoWorker
  <2>8. call # None
    BY <1>1, LibraryAssumption
  <2>9. QED
    BY <1>1, <1>3, <2>1, <2>2, <2>4, <2>5, <2>7, <2>8 DEF PoolInv, Stages
<1>4. QED
  BY <1>2, <1>3 DEF FetchOne

\* Once the pool runs it never looks unused again.
LEMMA AskPartInv ==
    ASSUME PoolInv, NEW w \in Worker, NEW k \in DOMAIN workers[w].jobs, AskPart(w, k)
    PROVE  PoolInv'
<1>1. workers[w].st = "fetch" /\ Busy(w) /\ WorkerOK(w)
  BY DEF AskPart, Busy, PoolInv
<1>2. PICK j : /\ workers' = [workers EXCEPT ![w].jobs[k] = j]
                /\ DOMAIN j = {"h", "b", "to", "st"} /\ j.h = workers[w].jobs[k].h
  <2> DEFINE j == workers[w].jobs[k]
  <2>1. DOMAIN j = {"h", "b", "to", "st"}
    BY <1>1 DEF WorkerOK
  <2> HIDE DEF j
  <2>2. DOMAIN Lost(j) = {"h", "b", "to", "st"} /\ Lost(j).h = j.h
    BY <2>1 DEF Lost
  <2>3. Pending(j) => DOMAIN Asked(j) = {"h", "b", "to", "st"} /\ Asked(j).h = j.h
    BY <2>1 DEF Asked, Pending
  <2>4. /\ Pending(j)
        /\ \/ workers' = [workers EXCEPT ![w].jobs[k] = Asked(j)]
           \/ workers' = [workers EXCEPT ![w].jobs[k] = Lost(j)]
    BY DEF AskPart, j
  <2>5. QED
    BY <2>2, <2>3, <2>4 DEF j
<1>3. /\ DOMAIN workers' = Worker
      /\ \A v \in Worker : /\ workers'[v].st = workers[v].st
                             /\ workers'[v].item = workers[v].item
                             /\ WorkerOK(v)'
  BY <1>1, <1>2 DEF PoolInv, WorkerOK, Busy
<1>4. InFlight' = InFlight
  BY <1>3 DEF InFlight
<1>5. UNCHANGED <<stage, call, idx, completed, result, told>>
  BY DEF AskPart
<1>6. ~Before /\ ~Before'
  BY <1>1, <1>3 DEF Before, NoWorker
<1>7. AllInv => AllInv'
  BY <1>3, <1>4, <1>5, InFlightFinite DEF AllInv
<1>8. OneInv => OneInv'
  <2>1. call' = call /\ EntryOf(call.path)' = EntryOf(call.path)
    BY <1>5 DEF EntryOf
  <2>2. 1 \in Worker
    BY LibraryAssumption DEF Worker
  <2>3. QED
    BY <1>3, <1>4, <1>5, <2>1, <2>2 DEF OneInv
<1>9. ResultOK'
  BY <1>5 DEF PoolInv, ResultOK
<1>10. QED
  BY <1>3, <1>5, <1>6, <1>7, <1>8, <1>9 DEF PoolInv, Before

\* The index against the number of entries.
LEMMA IndexCases ==
    ASSUME NEW n \in Nat, NEW i \in 0 .. n
    PROVE  \/ i < n /\ i + 1 \in 0 .. n /\ i + 1 \in 1 .. n
           \/ i = n /\ ~(i < n)
OBVIOUS

LEMMA EntryFailsInv ==
    ASSUME PoolInv, NEW w \in Worker, EntryFails(w) PROVE PoolInv'
<1>1. workers[w].st = "fetch" /\ Busy(w) /\ WorkerOK(w)
  BY DEF EntryFails, SomeFailed, Busy, PoolInv
<1>2. /\ DOMAIN workers' = Worker
      /\ \A v \in Worker : /\ workers'[v].item = workers[v].item
                             /\ WorkerOK(v)'
                             /\ workers'[v].st = IF v = w THEN "failed" ELSE workers[v].st
  <2>1. DOMAIN workers = Worker /\ \A v \in Worker : WorkerOK(v)
    BY DEF PoolInv
  <2>2. /\ DOMAIN workers' = Worker
        /\ workers'[w] = [workers[w] EXCEPT !.st = "failed"]
        /\ \A v \in Worker \ {w} : workers'[v] = workers[v]
    BY <2>1 DEF EntryFails
  <2>3. /\ DOMAIN workers'[w] = {"st", "item", "jobs"}
        /\ workers'[w].st = "failed" /\ workers'[w].item = workers[w].item
        /\ workers'[w].jobs = workers[w].jobs
    BY <1>1, <2>2 DEF WorkerOK
  <2>4. WorkerOK(w)'
    BY <1>1, <2>3 DEF WorkerOK, Busy
  <2>5. \A v \in Worker \ {w} : WorkerOK(v)'
    BY <2>1, <2>2 DEF WorkerOK, Busy
  <2>6. QED
    BY <2>2, <2>3, <2>4, <2>5
<1>3. InFlight' = InFlight
  <2>1. \A v \in Worker : workers'[v].st \in {"fetch", "failed"}
                            <=> workers[v].st \in {"fetch", "failed"}
    BY <1>1, <1>2
  <2>2. QED
    BY <2>1 DEF InFlight
<1>4. UNCHANGED <<call, idx, completed, result, told>> /\ stage' = "rejected"
  BY DEF EntryFails
<1>5. ~Before
  BY <1>1 DEF Before, NoWorker
<1>6. AllInv => AllInv'
  BY <1>2, <1>3, <1>4, InFlightFinite DEF AllInv
<1>7. OneInv => OneInv'
  <2>1. call' = call /\ EntryOf(call.path)' = EntryOf(call.path)
    BY <1>4 DEF EntryOf
  <2>2. 1 \in Worker
    BY LibraryAssumption DEF Worker
  <2>3. QED
    BY <1>2, <1>3, <1>4, <2>1, <2>2 DEF OneInv
<1>8. ResultOK'
  BY <1>4 DEF PoolInv, ResultOK
<1>9. stage # "idle" /\ call \in Call
  BY <1>5 DEF PoolInv
<1>10. (\E v \in Worker : workers'[v].st = "ended") => idx' = Len(Entries)
  BY <1>2, <1>4 DEF PoolInv
<1>11. /\ call # None /\ call.kind = "all" => AllInv'
       /\ call # None /\ call.kind = "one" => OneInv'
  BY <1>5, <1>6, <1>7 DEF PoolInv
<1>12. QED
  BY <1>2, <1>4, <1>8, <1>9, <1>10, <1>11 DEF PoolInv, Stages

\* What a worker that has read its entry leaves in the result.
LEMMA KeepOK ==
    ASSUME PoolInv, NEW w \in Worker, Fetched(w), Keep(w),
           NEW i, i = workers[w].item
    PROVE  /\ i \in DOMAIN Entries
           /\ DOMAIN result' = DOMAIN result \union {NameOf(i)}
           /\ result'[NameOf(i)] = Body(i)
           /\ \A key \in DOMAIN result \ {NameOf(i)} : result'[key] = result[key]
<1>1. WorkerOK(w) /\ Busy(w)
  BY DEF PoolInv, Fetched, Busy
<1>2. i \in DOMAIN Entries
  BY <1>1 DEF WorkerOK
<1> DEFINE body == [k \in DOMAIN workers[w].jobs |-> workers[w].jobs[k].h]
<1>3. body = Body(i)
  BY <1>1 DEF WorkerOK, Body
<1> HIDE DEF body
<1>4. result' = [x \in DOMAIN result \union {NameOf(i)} |->
                    IF x = NameOf(i) THEN body ELSE result[x]]
  BY DEF Keep, body
<1>5. QED
  BY <1>2, <1>3, <1>4

\* The index and the workers after an entry was read: the next one is taken,
\* or the worker ends.
LEMMA NextEntry ==
    ASSUME PoolInv, NEW w \in Worker, EntryRead(w)
    PROVE  /\ DOMAIN workers' = Worker
           /\ \A v \in Worker \ {w} : workers'[v] = workers[v]
           /\ \A v \in Worker : WorkerOK(v)'
           /\ w \in InFlight
           /\ idx' \in 0 .. Len(Entries) /\ Len(Entries) \in Nat
           /\ \/ /\ idx < Len(Entries) /\ idx' = idx + 1
                 /\ workers'[w].st = "fetch" /\ workers'[w].item = idx + 1
                 /\ InFlight' = InFlight
              \/ /\ idx = Len(Entries) /\ idx' = idx
                 /\ workers'[w].st = "ended"
                 /\ InFlight' = InFlight \ {w}
<1>1. /\ DOMAIN workers = Worker /\ \A v \in Worker : WorkerOK(v)
      /\ idx \in 0 .. Len(Entries) /\ Len(Entries) \in Nat
      /\ DOMAIN Entries = 1 .. Len(Entries)
  BY EntriesFacts DEF PoolInv
<1>a. \/ /\ idx < Len(Entries) /\ idx + 1 \in 0 .. Len(Entries)
         /\ idx + 1 \in DOMAIN Entries
      \/ idx = Len(Entries) /\ ~(idx < Len(Entries))
  BY <1>1, IndexCases
<1>2. w \in InFlight
  BY DEF EntryRead, Fetched, InFlight
<1>3. CASE idx < Len(Entries)
  <2>1. idx' = idx + 1 /\ workers' = [workers EXCEPT ![w] = Take(idx + 1)]
    BY <1>3 DEF EntryRead
  <2>2. /\ DOMAIN workers' = Worker /\ workers'[w] = Take(idx + 1)
        /\ \A v \in Worker \ {w} : workers'[v] = workers[v]
    BY <1>1, <2>1
  <2>3. /\ DOMAIN Take(idx + 1) = {"st", "item", "jobs"}
        /\ Take(idx + 1).st = "fetch" /\ Take(idx + 1).item = idx + 1
    BY DEF Take
  <2>4. WorkerOK(w)'
    BY <1>a, <1>3, <2>2 DEF WorkerOK, Busy, Take, Job
  <2>5. \A v \in Worker \ {w} : WorkerOK(v)'
    BY <1>1, <2>2 DEF WorkerOK, Busy
  <2>6. InFlight' = InFlight
    BY <1>2, <2>2, <2>3 DEF InFlight
  <2>7. \A v \in Worker : WorkerOK(v)'
    BY <2>4, <2>5
  <2>8. QED
    BY <1>1, <1>a, <1>2, <1>3, <2>1, <2>2, <2>3, <2>6, <2>7
<1>4. CASE ~(idx < Len(Entries))
  <2>1. idx' = idx /\ workers' = [workers EXCEPT ![w] = Ended]
    BY <1>4 DEF EntryRead
  <2>2. /\ DOMAIN workers' = Worker /\ workers'[w] = Ended
        /\ \A v \in Worker \ {w} : workers'[v] = workers[v]
    BY <1>1, <2>1
  <2>3. /\ DOMAIN Ended = {"st", "item", "jobs"}
        /\ Ended.st = "ended" /\ Ended.item = 0
    BY DEF Ended, NoWorker
  <2>4. WorkerOK(w)'
    BY <1>1, <2>2, <2>3 DEF WorkerOK, Busy
  <2>5. \A v \in Worker \ {w} : WorkerOK(v)'
    BY <1>1, <2>2 DEF WorkerOK, Busy
  <2>6. InFlight' = InFlight \ {w}
    BY <2>2, <2>3 DEF InFlight
  <2>7. idx = Len(Entries)
    BY <1>a, <1>4
  <2>8. \A v \in Worker : WorkerOK(v)'
    BY <2>4, <2>5
  <2>9. QED
    BY <1>1, <1>2, <2>1, <2>2, <2>3, <2>6, <2>7, <2>8
<1>5. QED
  BY <1>3, <1>4

LEMMA EntryReadInv ==
    ASSUME PoolInv, NEW w \in Worker, EntryRead(w) PROVE PoolInv'
<1> DEFINE i == workers[w].item
<1> USE DEF i
<1>1. /\ i \in DOMAIN Entries
      /\ DOMAIN result' = DOMAIN result \union {NameOf(i)}
      /\ result'[NameOf(i)] = Body(i)
      /\ \A key \in DOMAIN result \ {NameOf(i)} : result'[key] = result[key]
  BY KeepOK DEF EntryRead
<1> HIDE DEF i
<1>2. /\ completed' = completed + 1 /\ completed \in Nat
      /\ told' = IF call.kind = "all" THEN Append(told, completed + 1) ELSE told
      /\ UNCHANGED <<stage, call>>
  BY DEF EntryRead, Tell, PoolInv
<1>3. ~Before /\ ~Before' /\ stage \in {"files", "rejected"} /\ call \in Call
  <2>1. workers[w].st = "fetch"
    BY DEF EntryRead, Fetched
  <2>2. ~Before /\ stage # "returned"
    BY <2>1 DEF Before, NoWorker, PoolInv
  <2>3. QED
    BY <1>2, <2>2 DEF PoolInv, Stages, Before
<1>4. call # None /\ call.kind \in {"one", "all"}
  BY <1>3, LibraryAssumption
<1>5. i <= idx /\ idx \in Nat /\ i \in Nat /\ idx <= Len(Entries)
  <2>1. call.kind = "all" => i <= idx
    BY <1>4, NextEntry DEF PoolInv, AllInv, i
  <2>2. call.kind = "one" => i <= idx
    BY <1>1, <1>3, <1>4, EntriesFacts DEF PoolInv, OneInv
  <2>3. i <= idx
    BY <1>4, <2>1, <2>2
  <2>4. idx \in Nat /\ idx <= Len(Entries)
    <3>1. idx \in 0 .. Len(Entries)
      BY DEF PoolInv
    <3>2. QED
      BY <3>1, EntriesFacts
  <2>5. i \in Nat
    BY <1>1, EntriesFacts
  <2>6. QED
    BY <2>3, <2>4, <2>5
<1>6. ResultOK'
  <2>1. idx <= idx' /\ idx' \in Nat
    BY <1>5, NextEntry
  <2>2. ASSUME NEW key \in DOMAIN result'
        PROVE  \E j \in 1 .. idx' : key = NameOf(j) /\ result'[key] = Body(j)
    <3>1. CASE key = NameOf(i)
      BY <1>1, <1>5, <2>1, <3>1, EntriesFacts
    <3>2. CASE key # NameOf(i)
      <4>1. PICK j \in 1 .. idx : key = NameOf(j) /\ result[key] = Body(j)
        BY <1>1, <3>2 DEF PoolInv, ResultOK
      <4>2. QED
        BY <1>1, <1>5, <2>1, <3>2, <4>1
    <3>3. QED
      BY <3>1, <3>2
  <2>3. QED
    BY <2>2 DEF ResultOK, NameOf, Body
<1>7. ASSUME call.kind = "all" PROVE AllInv'
  <2>1. AllInv /\ ResultOK
    BY <1>4, <1>7 DEF PoolInv
  <2>2. \A a, b \in DOMAIN Entries : NameOf(a) = NameOf(b) => a = b
    BY LibraryAssumption
  <2>3. /\ \A v \in InFlight : v \in Worker /\ workers[v].item \in 1 .. idx
        /\ \A a \in 1 .. idx : a \in DOMAIN Entries
    <3>1. \A v \in InFlight : workers[v].item \in DOMAIN Entries /\ v \in Worker
      BY DEF InFlight, PoolInv, WorkerOK, Busy
    <3>2. QED
      BY <1>5, <2>1, <3>1, EntriesFacts DEF AllInv
  <2>4. \A v \in InFlight \ {w} :
            /\ workers[v].item # i /\ NameOf(workers[v].item) \notin DOMAIN result'
    BY <1>1, <2>1, <2>2, <2>3, NextEntry DEF AllInv, i
  <2>5. /\ told' \in Seq(Nat) /\ Len(told') = completed'
        /\ \A n \in 1 .. completed' : told'[n] = n
    BY <1>2, <1>7, <2>1 DEF AllInv
  <2>6. \A a \in 1 .. idx :
            \/ NameOf(a) \in DOMAIN result'
            \/ \E v \in InFlight \ {w} : workers[v].item = a
    BY <1>1, <2>1 DEF AllInv, i
  <2>7. CASE idx < Len(Entries)
    <3>1. /\ idx' = idx + 1 /\ workers'[w].item = idx + 1 /\ InFlight' = InFlight
          /\ w \in InFlight
          /\ \A v \in InFlight \ {w} : workers'[v] = workers[v]
      BY <2>3, <2>7, NextEntry
    <3>2. NameOf(idx + 1) \notin DOMAIN result'
      <4>1. idx + 1 \in DOMAIN Entries
        BY <1>5, <2>7, EntriesFacts
      <4>2. \A a \in 1 .. idx : NameOf(a) # NameOf(idx + 1)
        BY <1>5, <2>2, <2>3, <4>1
      <4>3. NameOf(idx + 1) # NameOf(i)
        BY <1>1, <1>5, <4>2, EntriesFacts
      <4>4. QED
        BY <1>1, <2>1, <4>2, <4>3 DEF ResultOK
    <3>3. \A u, v \in InFlight' : workers'[u].item = workers'[v].item => u = v
      <4>1. \A v \in InFlight \ {w} : /\ workers'[v].item = workers[v].item
                                      /\ workers'[v].item # idx + 1
        BY <1>5, <2>3, <3>1
      <4>2. \A u, v \in InFlight : workers[u].item = workers[v].item => u = v
        BY <2>1 DEF AllInv
      <4>3. QED
        BY <3>1, <4>1, <4>2
    <3>4. \A v \in InFlight' : /\ workers'[v].item <= idx'
                               /\ NameOf(workers'[v].item) \notin DOMAIN result'
      BY <1>5, <2>3, <2>4, <3>1, <3>2
    <3>5. \A a \in 1 .. idx' : \/ NameOf(a) \in DOMAIN result'
                               \/ \E v \in InFlight' : workers'[v].item = a
      BY <1>5, <2>6, <3>1
    <3>6. completed' + Cardinality(InFlight') = idx'
      BY <1>2, <2>1, <3>1, InFlightFinite DEF AllInv
    <3>7. QED
      BY <2>5, <3>3, <3>4, <3>5, <3>6 DEF AllInv, NameOf
  <2>8. CASE idx = Len(Entries)
    <3>1. /\ idx' = idx /\ InFlight' = InFlight \ {w} /\ w \in InFlight
          /\ \A v \in InFlight \ {w} : workers'[v] = workers[v]
      BY <1>5, <2>3, <2>8, NextEntry
    <3>2. Cardinality(InFlight') = Cardinality(InFlight) - 1
      BY <3>1, InFlightFinite, FS_RemoveElement
    <3>3. completed' + Cardinality(InFlight') = idx'
      BY <1>2, <2>1, <3>1, <3>2, InFlightFinite DEF AllInv
    <3>4. \A u, v \in InFlight' : workers'[u].item = workers'[v].item => u = v
      BY <2>1, <3>1 DEF AllInv
    <3>5. \A v \in InFlight' : /\ workers'[v].item <= idx'
                               /\ NameOf(workers'[v].item) \notin DOMAIN result'
      BY <1>5, <2>3, <2>4, <3>1
    <3>6. \A a \in 1 .. idx' : \/ NameOf(a) \in DOMAIN result'
                               \/ \E v \in InFlight' : workers'[v].item = a
      BY <2>6, <3>1
    <3>7. QED
      BY <2>5, <3>3, <3>4, <3>5, <3>6 DEF AllInv, NameOf
  <2>9. idx < Len(Entries) \/ idx = Len(Entries)
    BY NextEntry
  <2>10. QED
    BY <2>7, <2>8, <2>9
<1>8. ASSUME call.kind = "one" PROVE OneInv'
  <2>1. OneInv
    BY <1>3, <1>4, <1>8 DEF PoolInv
  <2>2. w \in InFlight /\ idx = Len(Entries)
    BY <2>1, NextEntry DEF OneInv
  <2>3. PICK a \in EntryOf(call.path) :
            InFlight = {1} /\ workers[1].item = a /\ DOMAIN result = {} /\ completed = 0
    BY <2>1, <2>2 DEF OneInv
  <2>4. w = 1 /\ i = a
    BY <2>2, <2>3 DEF i
  <2>5. InFlight' = {} /\ idx' = idx
    BY <1>5, <2>2, <2>3, <2>4, NextEntry
  <2>6. DOMAIN result' = {NameOf(a)} /\ completed' = 1
    BY <1>1, <1>2, <2>3, <2>4
  <2>7. EntryOf(call.path)' = EntryOf(call.path)
    BY <1>2 DEF EntryOf
  <2>8. QED
    BY <2>1, <2>2, <2>5, <2>6, <2>7 DEF OneInv, NameOf
<1>9. (\E v \in Worker : workers'[v].st = "ended") => idx' = Len(Entries)
  <2>1. SUFFICES ASSUME NEW v \in Worker, workers'[v].st = "ended"
                 PROVE  idx' = Len(Entries)
    OBVIOUS
  <2>2. CASE v = w
    BY <2>1, <2>2, NextEntry
  <2>3. CASE v # w
    <3>1. workers[v].st = "ended"
      BY <2>1, <2>3, NextEntry
    <3>2. idx = Len(Entries)
      BY <3>1 DEF PoolInv
    <3>3. QED
      BY <1>5, <3>2, NextEntry
  <2>4. QED
    BY <2>2, <2>3
<1>10. QED
  BY <1>2, <1>3, <1>4, <1>6, <1>7, <1>8, <1>9, NextEntry DEF PoolInv, Stages

LEMMA FinishInv == PoolInv /\ Finish => PoolInv'
<1> SUFFICES ASSUME PoolInv, Finish PROVE PoolInv'
  OBVIOUS
<1>1. /\ UNCHANGED poolVars /\ UNCHANGED call /\ stage' = "returned" /\ stage = "files"
      /\ \A w \in Worker : workers[w].st = "ended"
  BY DEF Finish
<1>2. QED
  BY <1>1 DEF PoolInv, poolVars, WorkerOK, Busy, Before, ResultOK, AllInv, OneInv,
              InFlight, Stages

\* Steps that leave the pool and the call alone.
LEMMA QuietInv ==
    ASSUME PoolInv, UNCHANGED <<stage, call, poolVars>> PROVE PoolInv'
<1>1. (\A w \in Worker : WorkerOK(w)) => \A w \in Worker : WorkerOK(w)'
  BY DEF WorkerOK, Busy, poolVars
<1>2. (Before <=> Before') /\ (ResultOK => ResultOK')
  BY DEF Before, ResultOK, poolVars
<1>3. InFlight' = InFlight
  BY DEF InFlight, poolVars
<1>4. AllInv => AllInv'
  BY <1>3 DEF AllInv, poolVars
<1>5. OneInv => OneInv'
  BY <1>3 DEF OneInv, EntryOf, poolVars
<1>6. QED
  BY <1>1, <1>2, <1>4, <1>5 DEF PoolInv, poolVars

LEMMA PoolNext == PoolInv /\ [Next]_vars => PoolInv'
<1> SUFFICES ASSUME PoolInv, [Next]_vars PROVE PoolInv'
  OBVIOUS
<1>1. CASE \E c \in Call : Begin(c)
  BY <1>1, BeginInv
<1>2. CASE AskV2 \/ AskIndex \/ AskManifest \/ ManifestFails
  BY <1>2, AskedInv
<1>3. CASE StartPool \/ FetchOne \/ Finish
  BY <1>3, StartPoolInv, FetchOneInv, FinishInv
<1>4. CASE \E w \in Worker : EntryRead(w) \/ EntryFails(w)
  BY <1>4, EntryReadInv, EntryFailsInv
<1>5. CASE \E w \in Worker : \E k \in DOMAIN workers[w].jobs : AskPart(w, k)
  BY <1>5, AskPartInv
<1>6. CASE Grow
  BY <1>6, QuietInv DEF Grow
<1>7. CASE UNCHANGED vars
  BY <1>7, QuietInv DEF vars, poolVars
<1>8. QED
  BY <1>1, <1>2, <1>3, <1>4, <1>5, <1>6, <1>7 DEF Next, Step

LEMMA PoolSpec == Spec => []PoolInv
BY PoolInit, PoolNext, PTL DEF Spec

\* No two workers of fetchAll work on one entry, none is skipped, and progress
\* is counted 1, 2, 3, ..., in whatever order the calls return.
THEOREM LibraryEachEntryOnce == Spec => []EachEntryOnce
<1>1. PoolInv => EachEntryOnce
  <2> SUFFICES ASSUME PoolInv, call # None, call.kind = "all" PROVE EachEntryOnce
    BY DEF EachEntryOnce
  <2>1. AllInv
    BY DEF PoolInv
  <2>2. told = [n \in 1 .. completed |-> n]
    <3>1. told \in Seq(Nat) /\ Len(told) = completed
      BY <2>1 DEF AllInv
    <3>2. told = [n \in 1 .. Len(told) |-> told[n]]
      BY <3>1
    <3>3. QED
      BY <2>1, <3>1, <3>2 DEF AllInv
  <2>3. QED
    BY <2>1, <2>2 DEF AllInv, EachEntryOnce
<1>2. QED
  BY <1>1, PoolSpec, PTL

\* fetchAll and fetch give all they were asked for, whole, or throw.
THEOREM LibraryFetchedWhole == Spec => []FetchedWhole
<1>1. PoolInv => FetchedWhole
  <2> SUFFICES ASSUME PoolInv, stage = "returned" PROVE FetchedWhole
    BY DEF FetchedWhole
  <2>1. \A i, j \in DOMAIN Entries : NameOf(i) = NameOf(j) => i = j
    BY LibraryAssumption
  <2>2. InFlight = {} /\ idx = Len(Entries) /\ ~Before /\ call \in Call
    BY LibraryAssumption DEF PoolInv, InFlight, Worker
  <2>3. call # None /\ call.kind \in {"one", "all"}
    BY <2>2, LibraryAssumption
  <2>4. ASSUME NEW i \in DOMAIN Entries, NameOf(i) \in DOMAIN result
        PROVE  result[NameOf(i)] = Body(i)
    <3>1. PICK j \in 1 .. idx : NameOf(i) = NameOf(j) /\ result[NameOf(i)] = Body(j)
      BY <2>4 DEF PoolInv, ResultOK
    <3>2. j \in DOMAIN Entries
      BY <2>2, EntriesFacts
    <3>3. QED
      BY <2>1, <3>1, <3>2
  <2>5. CASE call.kind = "all"
    <3>1. AllInv /\ ResultOK
      BY <2>3, <2>5 DEF PoolInv
    <3>2. \A i \in DOMAIN Entries : NameOf(i) \in DOMAIN result
      BY <2>2, <3>1, EntriesFacts DEF AllInv
    <3>3. \A key \in DOMAIN result : \E i \in DOMAIN Entries : key = NameOf(i)
      BY <2>2, <3>1, EntriesFacts DEF ResultOK
    <3>4. QED
      BY <2>4, <2>5, <3>2, <3>3 DEF FetchedWhole
  <2>6. CASE call.kind = "one"
    <3>1. PICK i \in EntryOf(call.path) : DOMAIN result = {NameOf(i)}
      BY <2>2, <2>3, <2>6 DEF PoolInv, OneInv
    <3>2. EntryOf(call.path) = {i}
      BY <2>2, <2>6, <3>1, OneEntry
    <3>3. i \in DOMAIN Entries
      BY <3>1, EntryOfDomain
    <3>4. QED
      BY <2>4, <2>6, <3>1, <3>2, <3>3 DEF FetchedWhole
  <2>7. QED
    BY <2>3, <2>5, <2>6
<1>2. QED
  BY <1>1, PoolSpec, PTL

-----------------------------------------------------------------------------
(* The searches *)

\* What a search that has not failed has left behind it: nothing that was
\* stored when the call was made is above the window to come.
JobOK(j) ==
    /\ DOMAIN j = {"h", "b", "to", "st"} /\ j.h \in Hash
    /\ j.st = "scan" => /\ j.to \in Nat
                       /\ \A b \in at[j.h] : b <= FirstHeight => b <= j.to
    /\ j.st = "failed" /\ faults = 0 => ~Stored(j.h)

ChainInv == /\ at \in Chains /\ height \in Nat /\ FirstHeight <= height
            /\ faults \in 0 .. MaxFaults

WorkersJobs == \A w \in Worker : workers[w].st \in {"fetch", "failed"} =>
                    \A k \in DOMAIN workers[w].jobs : JobOK(workers[w].jobs[k])

JobsInv == /\ ChainInv /\ WorkersJobs
           /\ stage = "manifest" => JobOK(reader) /\ reader.h = Manifest
           /\ FailsOnlyIfLost

LEMMA NewJob == ASSUME NEW h \in Hash, NEW b PROVE JobOK(Job(h, b))
BY DEF JobOK, Job

\* An answer of the node moves the search on without leaving anything out.
LEMMA AskedOK == ASSUME ChainInv, NEW j, JobOK(j), Pending(j) PROVE JobOK(Asked(j))
<1>1. at[j.h] \subseteq Nat
  BY ChainsAssumption DEF JobOK, ChainInv
<1>2. CASE j.st = "hint"
  BY <1>2 DEF JobOK, Asked
<1>3. CASE j.st = "head"
  <2>1. /\ DOMAIN Asked(j) = DOMAIN j /\ Asked(j).h = j.h
        /\ Asked(j).st = "scan" /\ Asked(j).to = height
    BY <1>3 DEF JobOK, Asked
  <2>2. \A b \in at[j.h] : b <= FirstHeight => b <= height
    BY <1>1, LibraryAssumption DEF ChainInv
  <2>3. QED
    BY <2>1, <2>2 DEF JobOK, ChainInv
<1>4. CASE j.st = "scan"
  <2> DEFINE from == WindowFrom(j)
  <2>1. from \in Nat /\ j.to \in Nat
    BY <1>4, LibraryAssumption DEF JobOK, WindowFrom
  <2> HIDE DEF from
  <2>2. CASE Found(j, from, j.to)
    <3>1. /\ DOMAIN Asked(j) = DOMAIN j /\ Asked(j).h = j.h /\ Asked(j).st = "done"
      BY <1>4, <2>2 DEF JobOK, Asked, from
    <3>2. QED
      BY <3>1 DEF JobOK
  <2>3. CASE ~Found(j, from, j.to)
    <3>1. \A b \in at[j.h] : b <= FirstHeight => b < from
      BY <1>1, <1>4, <2>1, <2>3, LibraryAssumption DEF JobOK, Found
    <3>2. CASE from = 0
      <4>1. /\ DOMAIN Asked(j) = DOMAIN j /\ Asked(j).h = j.h /\ Asked(j).st = "failed"
        BY <1>4, <2>3, <3>2 DEF JobOK, Asked, from
      <4>2. ~Stored(j.h)
        BY <1>1, <3>1, <3>2 DEF Stored
      <4>3. QED
        BY <4>1, <4>2 DEF JobOK
    <3>3. CASE from # 0
      <4>1. /\ DOMAIN Asked(j) = DOMAIN j /\ Asked(j).h = j.h
            /\ Asked(j).st = "scan" /\ Asked(j).to = from - 1
        BY <1>4, <2>3, <3>3 DEF JobOK, Asked, from
      <4>2. \A b \in at[j.h] : b <= FirstHeight => b <= from - 1
        BY <1>1, <2>1, <3>1
      <4>3. QED
        BY <2>1, <3>3, <4>1, <4>2 DEF JobOK
    <3>4. QED
      BY <3>2, <3>3
  <2>4. QED
    BY <2>2, <2>3
<1>5. QED
  BY <1>2, <1>3, <1>4 DEF Pending

LEMMA LostOK ==
    ASSUME NEW j, JobOK(j), at' = at, faults \in Nat, Fault
    PROVE  JobOK(Lost(j))' /\ Lost(j).h = j.h
<1>1. /\ DOMAIN Lost(j) = DOMAIN j /\ Lost(j).h = j.h /\ Lost(j).st = "failed"
  BY DEF JobOK, Lost
<1>2. faults' # 0
  BY DEF Fault
<1>3. QED
  BY <1>1, <1>2 DEF JobOK, Lost

\* Time and failures of other calls do not invalidate what a job has found.
LEMMA JobKept ==
    ASSUME NEW j, JobOK(j), at' = at, faults' = 0 => faults = 0
    PROVE  j.h \in Hash /\ (j.st = "failed" /\ faults' = 0 => ~Stored(j.h)')
           /\ (\A i : i = j => JobOK(i)')
BY DEF JobOK, Stored

LEMMA JobsInit == Init => JobsInv
BY LibraryAssumption
   DEF Init, JobsInv, ChainInv, WorkersJobs, NoWorker, FailsOnlyIfLost

\* What holds of every step.
LEMMA ChainStep ==
    ASSUME ChainInv, Next
    PROVE  ChainInv' /\ at' = at /\ (faults' = 0 => faults = 0)
<1>1. at' = at /\ (height' = height \/ height' = height + 1)
  BY DEF Next, Begin, Step, AskV2, AskIndex, AskManifest, ManifestFails, StartPool,
         FetchOne, Finish, EntryRead, EntryFails, AskPart, Grow
<1>2. faults' = faults \/ (faults' = faults + 1 /\ faults < MaxFaults)
  BY DEF Next, Begin, Step, AskV2, AskIndex, AskManifest, ManifestFails, StartPool,
         FetchOne, Finish, EntryRead, EntryFails, AskPart, Grow, Fault
<1>3. QED
  BY <1>1, <1>2, LibraryAssumption DEF ChainInv

\* A call that has thrown has thrown for good reason, also later.
LEMMA RejectedKept ==
    ASSUME FailsOnlyIfLost, at' = at, faults' = 0 => faults = 0,
           UNCHANGED <<stage, call>>
    PROVE  FailsOnlyIfLost'
BY DEF FailsOnlyIfLost, Stored, EntryOf

\* The jobs of workers that a step leaves alone.
LEMMA WorkersKept ==
    ASSUME WorkersJobs, at' = at, faults' = 0 => faults = 0, UNCHANGED workers
    PROVE  WorkersJobs'
BY DEF WorkersJobs, JobOK, Stored

LEMMA HashOfPart ==
    /\ Manifest \in Hash
    /\ \A i \in DOMAIN Entries : \A k \in DOMAIN Entries[i].parts :
            Entries[i].parts[k].h \in Hash
BY DEF Hash

LEMMA TakeOK ==
    ASSUME NEW i \in DOMAIN Entries
    PROVE  \A k \in DOMAIN Take(i).jobs : JobOK(Take(i).jobs[k])'
BY HashOfPart DEF Take, JobOK, Job

LEMMA AskedHash == ASSUME NEW j, JobOK(j), Pending(j) PROVE Asked(j).h = j.h
BY DEF JobOK, Pending, Asked

\* The step of a job: it is answered, or its call fails.
LEMMA JobStepOK ==
    ASSUME ChainInv, at' = at, NEW j, JobOK(j), Pending(j), NEW x,
           \/ x = Asked(j) /\ UNCHANGED faults
           \/ x = Lost(j) /\ Fault
    PROVE  (\A y : y = x => JobOK(y)') /\ x.h = j.h
<1>1. CASE x = Asked(j) /\ UNCHANGED faults
  <2>1. JobOK(x) /\ x.h = j.h
    BY <1>1, AskedOK, AskedHash
  <2>2. QED
    BY <1>1, <2>1, JobKept DEF JobOK, Stored
<1>2. CASE x = Lost(j) /\ Fault
  <2>1. JobOK(Lost(j))' /\ Lost(j).h = j.h
    BY <1>2, LostOK DEF ChainInv
  <2>2. faults' # 0
    BY <1>2 DEF ChainInv, Fault
  <2>3. x.h = j.h /\ DOMAIN x = {"h", "b", "to", "st"} /\ x.st = "failed"
    BY <1>2, <2>1 DEF JobOK, Lost
  <2>4. QED
    BY <2>2, <2>3 DEF JobOK
<1>3. QED
  BY <1>1, <1>2

LEMMA JobsNext ==
    ASSUME JobsInv, PoolInv, Next PROVE JobsInv'
<1>1. /\ ChainInv /\ WorkersJobs /\ FailsOnlyIfLost
      /\ stage = "manifest" => JobOK(reader) /\ reader.h = Manifest
  BY DEF JobsInv
<1>2. ChainInv' /\ at' = at /\ (faults' = 0 => faults = 0)
  BY <1>1, ChainStep
<1>3. \A b : JobOK(Job(Manifest, b))' /\ Job(Manifest, b).h = Manifest
  BY HashOfPart DEF JobOK, Job
<1>4. UNCHANGED workers => WorkersJobs'
  BY <1>1, <1>2, WorkersKept
<1>5. CASE (\E c \in Call : Begin(c)) \/ AskV2 \/ AskIndex
  <2>1. /\ UNCHANGED workers
        /\ stage' \in {"v2", "index"} \/ (stage' = "manifest" /\ \E b : reader' = Job(Manifest, b))
    BY <1>5 DEF Begin, AskV2, AskIndex, Read, poolVars
  <2>2. stage' = "manifest" => JobOK(reader)' /\ reader'.h = Manifest
    BY <1>3, <2>1 DEF JobOK
  <2>3. FailsOnlyIfLost'
    BY <2>1 DEF FailsOnlyIfLost
  <2>4. QED
    BY <1>2, <1>4, <2>1, <2>2, <2>3 DEF JobsInv
<1>6. CASE AskManifest
  <2>1. /\ stage = "manifest" /\ UNCHANGED <<stage, workers, call>> /\ Pending(reader)
        /\ \/ reader' = Asked(reader) /\ UNCHANGED faults
           \/ reader' = Lost(reader) /\ Fault
    BY <1>6 DEF AskManifest, poolVars
  <2>2. JobOK(reader)' /\ reader'.h = Manifest
    BY <1>1, <1>2, <2>1, JobStepOK
  <2>3. QED
    BY <1>1, <1>2, <1>4, <2>1, <2>2, RejectedKept DEF JobsInv
<1>7. CASE ManifestFails
  <2>1. /\ stage = "manifest" /\ reader.st = "failed" /\ stage' = "rejected"
        /\ UNCHANGED workers
    BY <1>7 DEF ManifestFails, poolVars
  <2>2. faults = 0 => ~Stored(Manifest)
    BY <1>1, <2>1 DEF JobOK
  <2>3. FailsOnlyIfLost'
    BY <1>2, <2>2 DEF FailsOnlyIfLost, Stored
  <2>4. QED
    BY <1>2, <1>4, <2>1, <2>3 DEF JobsInv
<1>8. CASE StartPool
  <2>1. /\ stage' = "files" /\ idx' <= Len(Entries) /\ idx' \in Nat
        /\ workers' = [w \in Worker |-> IF w <= idx' THEN Take(w) ELSE Ended]
    BY <1>8, LibraryAssumption, EntriesFacts DEF StartPool
  <2>2. ASSUME NEW w \in Worker, workers'[w].st \in {"fetch", "failed"},
               NEW k \in DOMAIN workers'[w].jobs
        PROVE  JobOK(workers[w].jobs[k])'
    <3>1. w <= idx' /\ workers'[w] = Take(w)
      BY <2>1, <2>2 DEF Ended, NoWorker
    <3>2. w \in DOMAIN Entries
      BY <2>1, <3>1, EntriesFacts, LibraryAssumption DEF Worker
    <3>3. QED
      BY <2>2, <3>1, <3>2, TakeOK DEF JobOK
  <2>3. FailsOnlyIfLost'
    BY <2>1 DEF FailsOnlyIfLost
  <2>4. QED
    BY <1>2, <2>1, <2>2, <2>3 DEF JobsInv, WorkersJobs
<1>9. CASE FetchOne
  <2>1. CASE EntryOf(call.path) = {} /\ stage' = "rejected" /\ UNCHANGED workers
    <3>1. call.kind = "one" /\ call' = call
      BY <1>9 DEF FetchOne
    <3>2. FailsOnlyIfLost'
      BY <2>1, <3>1 DEF FailsOnlyIfLost, EntryOf
    <3>3. QED
      BY <1>2, <1>4, <2>1, <3>2 DEF JobsInv
  <2>2. ASSUME NEW i \in EntryOf(call.path), stage' = "files",
               workers' = [w \in Worker |-> IF w = 1 THEN Take(i) ELSE Ended]
        PROVE  JobsInv'
    <3>1. i \in DOMAIN Entries
      BY EntryOfDomain
    <3>2. ASSUME NEW w \in Worker, workers'[w].st \in {"fetch", "failed"},
                 NEW k \in DOMAIN workers'[w].jobs
          PROVE  JobOK(workers[w].jobs[k])'
      <4>1. workers'[w] = Take(i)
        BY <2>2, <3>2 DEF Ended, NoWorker
      <4>2. QED
        BY <3>1, <3>2, <4>1, TakeOK DEF JobOK
    <3>3. FailsOnlyIfLost'
      BY <2>2 DEF FailsOnlyIfLost
    <3>4. QED
      BY <1>2, <2>2, <3>2, <3>3 DEF JobsInv, WorkersJobs
  <2>3. QED
    BY <1>9, <2>1, <2>2 DEF FetchOne
<1>10. ASSUME NEW w \in Worker, NEW k \in DOMAIN workers[w].jobs, AskPart(w, k)
       PROVE  JobsInv'
  <2> DEFINE j == workers[w].jobs[k]
  <2>1. /\ workers[w].st = "fetch" /\ JobOK(j) /\ Pending(j)
        /\ UNCHANGED <<stage, call, reader>>
    BY <1>1, <1>10 DEF AskPart, WorkersJobs
  <2>2. /\ DOMAIN workers = Worker /\ WorkerOK(w)
    BY DEF PoolInv
  <2>3. PICK x : /\ workers' = [workers EXCEPT ![w].jobs[k] = x]
                 /\ \/ x = Asked(j) /\ UNCHANGED faults
                    \/ x = Lost(j) /\ Fault
    BY <1>10 DEF AskPart
  <2>4. \A y : y = x => JobOK(y)'
    BY <1>1, <1>2, <2>1, <2>3, JobStepOK
  <2> HIDE DEF j
  <2>5. /\ \A v \in Worker \ {w} : workers'[v] = workers[v]
        /\ DOMAIN workers'[w].jobs = DOMAIN workers[w].jobs
        /\ \A l \in DOMAIN workers[w].jobs :
                workers'[w].jobs[l] = IF l = k THEN x ELSE workers[w].jobs[l]
    BY <2>2, <2>3 DEF WorkerOK
  <2>6. \A v \in Worker : workers'[v].st = workers[v].st
    BY <2>2, <2>3 DEF WorkerOK
  <2>7. ASSUME NEW v \in Worker, workers'[v].st \in {"fetch", "failed"},
               NEW l \in DOMAIN workers'[v].jobs
        PROVE  JobOK(workers[v].jobs[l])'
    <3>1. CASE v = w /\ l = k
      BY <2>4, <2>5, <3>1
    <3>2. CASE ~(v = w /\ l = k)
      <4>1. workers'[v].jobs[l] = workers[v].jobs[l] /\ l \in DOMAIN workers[v].jobs
        BY <2>5, <2>7, <3>2
      <4>2. JobOK(workers[v].jobs[l])
        BY <1>1, <2>6, <2>7, <4>1 DEF WorkersJobs
      <4>3. QED
        BY <1>2, <4>1, <4>2 DEF JobOK, Stored
    <3>3. QED
      BY <3>1, <3>2
  <2>8. stage' = "manifest" => JobOK(reader)' /\ reader'.h = Manifest
    BY <1>1, <1>2, <2>1 DEF JobOK, Stored
  <2>9. QED
    BY <1>1, <1>2, <2>1, <2>7, <2>8, RejectedKept DEF JobsInv, WorkersJobs
<1>11. ASSUME NEW w \in Worker, EntryRead(w) PROVE JobsInv'
  <2>1. UNCHANGED <<stage, call, reader>>
    BY <1>11 DEF EntryRead
  <2>2. /\ DOMAIN workers = Worker /\ idx \in 0 .. Len(Entries) /\ Len(Entries) \in Nat
    BY EntriesFacts DEF PoolInv
  <2>3. \/ idx + 1 \in DOMAIN Entries /\ workers' = [workers EXCEPT ![w] = Take(idx + 1)]
        \/ workers' = [workers EXCEPT ![w] = Ended]
    BY <1>11, <2>2, IndexCases, EntriesFacts DEF EntryRead
  <2>4. ASSUME NEW v \in Worker, workers'[v].st \in {"fetch", "failed"},
               NEW l \in DOMAIN workers'[v].jobs
        PROVE  JobOK(workers[v].jobs[l])'
    <3>1. CASE v = w
      <4>1. workers'[w] = Take(idx + 1) /\ idx + 1 \in DOMAIN Entries
        BY <2>2, <2>3, <2>4, <3>1 DEF Ended, NoWorker
      <4>2. QED
        BY <2>4, <3>1, <4>1, TakeOK DEF JobOK
    <3>2. CASE v # w
      <4>1. workers'[v] = workers[v]
        BY <2>2, <2>3, <3>2
      <4>2. JobOK(workers[v].jobs[l])
        BY <1>1, <2>4, <4>1 DEF WorkersJobs
      <4>3. QED
        BY <1>2, <4>1, <4>2 DEF JobOK, Stored
    <3>3. QED
      BY <3>1, <3>2
  <2>5. stage' = "manifest" => JobOK(reader)' /\ reader'.h = Manifest
    BY <1>1, <1>2, <2>1 DEF JobOK, Stored
  <2>6. QED
    BY <1>1, <1>2, <2>1, <2>4, <2>5, RejectedKept DEF JobsInv, WorkersJobs
<1>12. ASSUME NEW w \in Worker, EntryFails(w) PROVE JobsInv'
  <2>1. /\ workers[w].st = "fetch" /\ DOMAIN workers = Worker /\ WorkerOK(w) /\ Busy(w)
        /\ stage' = "rejected" /\ workers' = [workers EXCEPT ![w].st = "failed"]
    BY <1>12 DEF EntryFails, SomeFailed, PoolInv, Busy
  <2>2. ASSUME workers[w].jobs = << >> PROVE FailsOnlyIfLost'
    <3>1. workers[w].item \in DOMAIN Entries
      BY <2>1 DEF Busy, WorkerOK
    <3>2. DOMAIN Entries[workers[w].item].parts = {}
      BY <2>1, <2>2 DEF WorkerOK
    <3>3. QED
      BY <1>2, <3>1, <3>2 DEF FailsOnlyIfLost
  <2>3. ASSUME workers[w].jobs # << >> PROVE FailsOnlyIfLost'
    <3>1. PICK k \in DOMAIN workers[w].jobs : workers[w].jobs[k].st = "failed"
      BY <1>12, <2>3 DEF EntryFails, SomeFailed
    <3>2. JobOK(workers[w].jobs[k])
      BY <1>1, <2>1, <3>1 DEF WorkersJobs
    <3>3. \E i \in DOMAIN Entries : \E l \in DOMAIN Entries[i].parts :
              Entries[i].parts[l].h = workers[w].jobs[k].h
      BY <2>1, <3>1 DEF WorkerOK
    <3>4. QED
      BY <1>2, <3>1, <3>2, <3>3 DEF FailsOnlyIfLost, JobOK, Stored
  <2>5. FailsOnlyIfLost'
    BY <2>2, <2>3
  <2>6. \A v \in Worker : /\ workers'[v].jobs = workers[v].jobs
                          /\ v # w => workers'[v].st = workers[v].st
    BY <2>1 DEF WorkerOK
  <2>7. ASSUME NEW v \in Worker, workers'[v].st \in {"fetch", "failed"},
               NEW l \in DOMAIN workers'[v].jobs
        PROVE  JobOK(workers[v].jobs[l])'
    <3>1. JobOK(workers[v].jobs[l])
      BY <1>1, <2>1, <2>6, <2>7 DEF WorkersJobs
    <3>2. QED
      BY <1>2, <2>6, <3>1 DEF JobOK, Stored
  <2>8. QED
    BY <1>2, <2>1, <2>5, <2>7 DEF JobsInv, WorkersJobs
<1>13. CASE Finish \/ Grow
  <2>1. /\ UNCHANGED <<call, reader, workers>>
        /\ UNCHANGED stage \/ stage' = "returned"
    BY <1>13 DEF Finish, Grow, poolVars
  <2>2. stage' = "manifest" => JobOK(reader)' /\ reader'.h = Manifest
    BY <1>1, <1>2, <2>1 DEF JobOK, Stored
  <2>3. FailsOnlyIfLost'
    BY <1>1, <1>2, <2>1, RejectedKept DEF FailsOnlyIfLost
  <2>4. QED
    BY <1>2, <1>4, <2>1, <2>2, <2>3 DEF JobsInv
<1>14. QED
  BY <1>5, <1>6, <1>7, <1>8, <1>9, <1>10, <1>11, <1>12, <1>13 DEF Next, Step

LEMMA JobsStutter == ASSUME JobsInv, UNCHANGED vars PROVE JobsInv'
<1>1. ChainInv' /\ at' = at /\ faults' = faults /\ UNCHANGED <<stage, call, reader, workers>>
  BY DEF JobsInv, ChainInv, vars
<1>2. WorkersJobs' /\ FailsOnlyIfLost'
  BY <1>1, WorkersKept, RejectedKept DEF JobsInv
<1>3. stage' = "manifest" => JobOK(reader)' /\ reader'.h = Manifest
  BY <1>1 DEF JobsInv, JobOK, Stored
<1>4. QED
  BY <1>1, <1>2, <1>3 DEF JobsInv

\* If no call fails, only a file that is not stored or an unknown path is an
\* error, whatever the hints say and however the chain grows during the search.
THEOREM LibraryFailsOnlyIfLost == Spec => []FailsOnlyIfLost
<1>1. PoolInv /\ JobsInv /\ [Next]_vars => JobsInv'
  BY JobsNext, JobsStutter
<1>2. JobsInv => FailsOnlyIfLost
  BY DEF JobsInv
<1>3. QED
  BY <1>1, <1>2, JobsInit, PoolSpec, PTL DEF Spec

\* Types, and: no more files are counted than were taken.
THEOREM LibraryTypeCorrect == Spec => []TypeOK
<1>1. PoolInv => completed \in 0 .. idx
  <2> SUFFICES ASSUME PoolInv PROVE completed \in 0 .. idx
    OBVIOUS
  <2>1. completed \in Nat /\ idx \in Nat
    <3>1. completed \in Nat /\ idx \in 0 .. Len(Entries)
      BY DEF PoolInv
    <3>2. QED
      BY <3>1
  <2>2. CASE Before
    BY <2>1, <2>2 DEF Before
  <2>3. CASE ~Before
    <3>1. call \in Call
      BY <2>3 DEF PoolInv, Stages
    <3>a. call # None /\ call.kind \in {"one", "all"}
      BY <3>1, LibraryAssumption
    <3>2. AllInv \/ OneInv
      BY <2>3, <3>a DEF PoolInv
    <3>3. CASE AllInv
      BY <2>1, <3>3, InFlightFinite DEF AllInv
    <3>4. CASE OneInv
      <4>1. EntryOf(call.path) \subseteq 1 .. idx /\ EntryOf(call.path) # {}
        BY <3>4, EntryOfDomain, EntriesFacts DEF OneInv
      <4>2. idx >= 1
        BY <2>1, <4>1
      <4>3. completed \in {0, 1}
        BY <3>4 DEF OneInv
      <4>4. QED
        BY <2>1, <4>2, <4>3
    <3>5. QED
      BY <3>2, <3>3, <3>4
  <2>4. QED
    BY <2>2, <2>3
<1>2. PoolInv /\ JobsInv => TypeOK
  BY <1>1 DEF PoolInv, JobsInv, ChainInv, TypeOK, Stages, WorkerOK
<1>3. PoolInv /\ JobsInv /\ [Next]_vars => JobsInv'
  BY JobsNext, JobsStutter
<1>4. QED
  BY <1>2, <1>3, JobsInit, PoolSpec, PTL DEF Spec
=============================================================================

------------------------------- MODULE Library ------------------------------
(***************************************************************************)
(* The reader library (lib/src/index.ts, rpc.ts, blockIndex.ts): a         *)
(* manifest is fetched, and then one file of it or, by a pool of workers   *)
(* that share an index, all of them; the parts of a file are fetched at    *)
(* the same time.  There is one RPC node, any call of which may fail.      *)
(*                                                                         *)
(* JavaScript runs one piece of code at a time, up to its next await: an   *)
(* action is such a piece, and the calls in flight interleave.             *)
(***************************************************************************)
EXTENDS Integers, Sequences, FiniteSets

CONSTANTS
    Entries,        \* the manifest's entries: [f, parts], parts of [h, b]
    Manifest,       \* its hash
    Chains,         \* what may be stored: hash -> the blocks with its Store logs
    Digits,         \* Digits[i]: String(i - 1)
    Call,           \* calls: [kind, path, block], block 0 for none
    Concurrency,    \* options.concurrency
    MaxBlockRange,  \* MAX_BLOCK_RANGE
    IsV2, HasIndex, \* isV2Contract(contract), blockIndex
    V2Blocks, IndexBlocks,  \* what their blockOf may answer, 0 for none
    FirstHeight,    \* bound: the latest block when the call is made
    MaxHeight,      \* bound: how far the chain grows
    MaxFaults,      \* bound: calls that fail
    None

\* e.f ?? String(i)
NameOf(i) == IF Entries[i].f # None THEN Entries[i].f ELSE Digits[i]

\* With no worker nothing would be fetched, and files of one name would be one
\* file of the result.  A path names at most one entry.
ASSUME LibraryAssumption ==
    /\ Concurrency \in Nat \ {0} /\ MaxBlockRange \in Nat \ {0}
    /\ FirstHeight \in Nat /\ MaxHeight \in Nat /\ MaxFaults \in Nat
    /\ Entries \in Seq({Entries[i] : i \in DOMAIN Entries})
    /\ \A i, j \in DOMAIN Entries : NameOf(i) = NameOf(j) => i = j
    /\ \A i, j \in DOMAIN Entries : Digits[i] = Digits[j] => i = j
    /\ \A c \in Call : /\ c # None /\ c.kind \in {"one", "all"}
                       /\ c.kind = "one" => c.path # None

\* The hashes of the manifest and of its parts.
Hash == {Manifest} \union UNION { {Entries[i].parts[k].h : k \in DOMAIN Entries[i].parts}
                                 : i \in DOMAIN Entries }

ASSUME ChainsAssumption == \A c \in Chains : \A h \in Hash : c[h] \subseteq Nat

Worker == 1 .. Concurrency

VARIABLES
    at,             \* at[h]: the blocks with a Store log of hash h
    height,         \* the latest block
    stage,          \* of the call: "idle", "v2", "index", "manifest", "files",
                    \* "returned" or "rejected"
    call,           \* the call made
    reader,         \* fetchContent of the manifest
    idx, completed, \* the counters of fetchAll
    result,         \* the files fetched: key -> the hashes of its bytes
    told,           \* the counts given to onProgress
    workers,        \* workers[w]: its item, the calls for its parts, its state
    faults          \* counter for the bound

vars == <<at, height, stage, call, reader, idx, completed, result, told, workers, faults>>

poolVars == <<idx, completed, result, told, workers>>

NoWorker == [st |-> "none", item |-> 0, jobs |-> << >>]

Init == /\ at \in Chains
        /\ height = FirstHeight /\ stage = "idle" /\ call = None /\ reader = None
        /\ idx = 0 /\ completed = 0 /\ result = [k \in {} |-> << >>] /\ told = << >>
        /\ workers = [w \in Worker |-> NoWorker]
        /\ faults = 0

-----------------------------------------------------------------------------
(* fetchContent *)

\* A call of fetchContent: with a hint it asks there first.
Job(h, b) == [h |-> h, b |-> b, to |-> 0, st |-> IF b > 0 THEN "hint" ELSE "head"]

\* fetchLogsInRange
Found(j, from, to) == \E b \in at[j.h] : b \in from .. to

WindowFrom(j) == IF j.to - MaxBlockRange + 1 < 0 THEN 0 ELSE j.to - MaxBlockRange + 1

\* Faulty variant: the windows of the search leave a block out between them.
AskedWithGap(j) ==
    CASE j.st = "hint" ->
            [j EXCEPT !.st = IF Found(j, j.b - 1, j.b + 1) THEN "done" ELSE "head"]
      [] j.st = "head" -> [j EXCEPT !.st = "scan", !.to = height]
      [] j.st = "scan" ->
            IF Found(j, WindowFrom(j), j.to) THEN [j EXCEPT !.st = "done"]
            ELSE IF WindowFrom(j) <= 1 THEN [j EXCEPT !.st = "failed"]
            ELSE [j EXCEPT !.to = WindowFrom(j) - 2]

\* Faulty variant: the first block does not end the search.
AskedForever(j) ==
    CASE j.st = "hint" ->
            [j EXCEPT !.st = IF Found(j, j.b - 1, j.b + 1) THEN "done" ELSE "head"]
      [] j.st = "head" -> [j EXCEPT !.st = "scan", !.to = height]
      [] j.st = "scan" ->
            IF Found(j, WindowFrom(j), j.to) THEN [j EXCEPT !.st = "done"]
            ELSE [j EXCEPT !.to = IF WindowFrom(j) = 0 THEN 0 ELSE WindowFrom(j) - 1]

\* The call after the node's next answer: the three blocks around the hint, the
\* latest block, windows backwards from there to block 0.
Asked(j) ==
    CASE j.st = "hint" ->
            [j EXCEPT !.st = IF Found(j, j.b - 1, j.b + 1) THEN "done" ELSE "head"]
      [] j.st = "head" -> [j EXCEPT !.st = "scan", !.to = height]
      [] j.st = "scan" ->
            IF Found(j, WindowFrom(j), j.to) THEN [j EXCEPT !.st = "done"]
            ELSE IF WindowFrom(j) = 0 THEN [j EXCEPT !.st = "failed"]
            ELSE [j EXCEPT !.to = WindowFrom(j) - 1]

Pending(j) == j.st \in {"hint", "head", "scan"}

Fault == faults < MaxFaults /\ faults' = faults + 1

\* An RPC call of the job fails, and an error is thrown.
Lost(j) == [j EXCEPT !.st = "failed"]

-----------------------------------------------------------------------------
(* manifest() *)

Read(b) == stage' = "manifest" /\ reader' = Job(Manifest, b)

\* fetch or fetchAll is called; without a block resolveBlock asks for it.
Begin(c) ==
    /\ stage = "idle" /\ call' = c
    /\ IF c.block > 0 THEN Read(c.block)
       ELSE IF IsV2 THEN stage' = "v2" /\ UNCHANGED reader
       ELSE IF HasIndex THEN stage' = "index" /\ UNCHANGED reader
       ELSE Read(0)
    /\ UNCHANGED <<at, height, poolVars, faults>>

\* lookupBlock on EVMFSV2; an error counts as no block.
AskV2 ==
    /\ stage = "v2"
    /\ \/ (\E b \in V2Blocks \ {0} : Read(b)) /\ UNCHANGED faults
       \/ /\ \/ 0 \in V2Blocks /\ UNCHANGED faults
             \/ Fault
          /\ IF HasIndex THEN stage' = "index" /\ UNCHANGED reader ELSE Read(0)
    /\ UNCHANGED <<at, height, call, poolVars>>

\* lookupBlock on the BlockIndex
AskIndex ==
    /\ stage = "index"
    /\ \/ (\E b \in IndexBlocks : Read(b)) /\ UNCHANGED faults
       \/ Read(0) /\ Fault
    /\ UNCHANGED <<at, height, call, poolVars>>

AskManifest ==
    /\ stage = "manifest" /\ Pending(reader)
    /\ \/ reader' = Asked(reader) /\ UNCHANGED faults
       \/ reader' = Lost(reader) /\ Fault
    /\ UNCHANGED <<at, height, stage, call, poolVars>>

ManifestFails ==
    /\ stage = "manifest" /\ reader.st = "failed"
    /\ stage' = "rejected"
    /\ UNCHANGED <<at, height, call, reader, poolVars, faults>>

-----------------------------------------------------------------------------
(* fetch and fetchAll *)

\* fetchEntry: the parts are asked for at once.  Without any it has thrown, as
\* the entry has no hash.
Take(i) == [st |-> "fetch", item |-> i,
            jobs |-> [k \in DOMAIN Entries[i].parts |->
                        Job(Entries[i].parts[k].h, Entries[i].parts[k].b)]]

Ended == [NoWorker EXCEPT !.st = "ended"]

\* resolveEntry: an index in range, or else the entry of that name.
EntryOf(path) ==
    LET numbered == {i \in DOMAIN Entries : path = Digits[i]}
    IN IF numbered # {} THEN numbered ELSE {i \in DOMAIN Entries : path = Entries[i].f}

\* The loop fetchAll starts its workers in: each runs up to its first await.
StartPool ==
    /\ stage = "manifest" /\ reader.st = "done" /\ call.kind = "all"
    /\ stage' = "files"
    /\ idx' = IF Concurrency < Len(Entries) THEN Concurrency ELSE Len(Entries)
    /\ workers' = [w \in Worker |-> IF w <= idx' THEN Take(w) ELSE Ended]
    /\ UNCHANGED <<at, height, call, reader, completed, result, told, faults>>

\* fetch has one entry to fetch, or throws.
FetchOne ==
    /\ stage = "manifest" /\ reader.st = "done" /\ call.kind = "one"
    /\ \/ /\ EntryOf(call.path) = {}
          /\ stage' = "rejected" /\ UNCHANGED <<idx, workers>>
       \/ \E i \in EntryOf(call.path) :
            /\ stage' = "files" /\ idx' = Len(Entries)
            /\ workers' = [w \in Worker |-> IF w = 1 THEN Take(i) ELSE Ended]
    /\ UNCHANGED <<at, height, call, reader, completed, result, told, faults>>

\* A part's call goes on, also after fetchAll has thrown for another entry.
AskPart(w, k) ==
    /\ workers[w].st = "fetch" /\ Pending(workers[w].jobs[k])
    /\ \/ workers' = [workers EXCEPT ![w].jobs[k] = Asked(@)] /\ UNCHANGED faults
       \/ workers' = [workers EXCEPT ![w].jobs[k] = Lost(@)] /\ Fault
    /\ UNCHANGED <<at, height, stage, call, reader, idx, completed, result, told>>

Fetched(w) == /\ workers[w].st = "fetch" /\ workers[w].jobs # << >>
              /\ \A k \in DOMAIN workers[w].jobs : workers[w].jobs[k].st = "done"

Keep(w) ==
    LET key == NameOf(workers[w].item)
        body == [k \in DOMAIN workers[w].jobs |-> workers[w].jobs[k].h]
    IN result' = [x \in DOMAIN result \union {key} |-> IF x = key THEN body ELSE result[x]]

Tell == /\ completed' = completed + 1
        /\ told' = IF call.kind = "all" THEN Append(told, completed') ELSE told

\* Faulty variant: the index is read before the await and stored after it.
EntryReadLate(w) ==
    /\ Fetched(w) /\ Keep(w) /\ Tell
    /\ LET i == IF workers[w].item + 1 < idx THEN workers[w].item + 1 ELSE idx
       IN IF i < Len(Entries)
          THEN /\ idx' = i + 1
               /\ workers' = [workers EXCEPT ![w] = Take(i + 1)]
          ELSE /\ workers' = [workers EXCEPT ![w] = Ended] /\ UNCHANGED idx
    /\ UNCHANGED <<at, height, stage, call, reader, faults>>

\* The rest of a worker's loop, up to its next await: the file is kept and
\* counted, and the next entry taken, if one is left.
EntryRead(w) ==
    /\ Fetched(w) /\ Keep(w) /\ Tell
    /\ IF idx < Len(Entries)
       THEN /\ idx' = idx + 1
            /\ workers' = [workers EXCEPT ![w] = Take(idx + 1)]
       ELSE /\ workers' = [workers EXCEPT ![w] = Ended] /\ UNCHANGED idx
    /\ UNCHANGED <<at, height, stage, call, reader, faults>>

SomeFailed(w) == /\ workers[w].st = "fetch"
                 /\ workers[w].jobs # << >>
                      => \E k \in DOMAIN workers[w].jobs : workers[w].jobs[k].st = "failed"

\* Faulty variant: a worker whose file fails only stops.
EntryFailsQuietly(w) ==
    /\ SomeFailed(w)
    /\ workers' = [workers EXCEPT ![w] = Ended]
    /\ UNCHANGED <<at, height, stage, call, reader, idx, completed, result, told, faults>>

\* A part's call or fetchEntry threw: so does the worker, and fetch or fetchAll at once.
EntryFails(w) ==
    /\ SomeFailed(w)
    /\ workers' = [workers EXCEPT ![w].st = "failed"]
    /\ stage' = "rejected"
    /\ UNCHANGED <<at, height, call, reader, idx, completed, result, told, faults>>

\* Promise.all of the workers
Finish == /\ stage = "files" /\ \A w \in Worker : workers[w].st = "ended"
          /\ stage' = "returned"
          /\ UNCHANGED <<at, height, call, reader, poolVars, faults>>

Grow == /\ stage \notin {"idle", "returned", "rejected"}
        /\ height < MaxHeight /\ height' = height + 1
        /\ UNCHANGED <<at, stage, call, reader, poolVars, faults>>

Step == \/ AskV2 \/ AskIndex \/ AskManifest \/ ManifestFails
        \/ StartPool \/ FetchOne \/ Finish
        \/ \E w \in Worker : EntryRead(w) \/ EntryFails(w)
        \/ \E w \in Worker : \E k \in DOMAIN workers[w].jobs : AskPart(w, k)

Next == (\E c \in Call : Begin(c)) \/ Step \/ Grow

Spec == Init /\ [][Next]_vars

\* The event loop runs, and the node answers or the call fails.
FairSpec == Spec /\ WF_vars(Step)

-----------------------------------------------------------------------------
(* Properties *)

\* Types, and: what is counted was taken before.
TypeOK ==
    /\ height \in Nat /\ faults \in 0 .. MaxFaults
    /\ stage \in {"idle", "v2", "index", "manifest", "files", "returned", "rejected"}
    /\ idx \in 0 .. Len(Entries) /\ completed \in 0 .. idx
    /\ \A w \in Worker : /\ workers[w].st \in {"none", "fetch", "ended", "failed"}
                         /\ workers[w].item \in 0 .. Len(Entries)

InFlight == {w \in Worker : workers[w].st \in {"fetch", "failed"}}

\* However the answers of the calls come in, no two workers work on one entry,
\* and every entry taken is fetched, being fetched or has failed; so the counts
\* given to onProgress are 1, 2, ... up to the number of files.
EachEntryOnce ==
    call # None /\ call.kind = "all" =>
        /\ \A v, w \in InFlight : workers[v].item = workers[w].item => v = w
        /\ \A w \in InFlight : NameOf(workers[w].item) \notin DOMAIN result
        /\ completed + Cardinality(InFlight) = idx
        /\ told = [n \in 1 .. completed |-> n]

Body(i) == [k \in DOMAIN Entries[i].parts |-> Entries[i].parts[k].h]

\* fetchAll gives all files of the manifest or throws, fetch the one asked for,
\* each with all its parts in order.
FetchedWhole ==
    stage = "returned" =>
        LET wanted == IF call.kind = "all" THEN DOMAIN Entries ELSE EntryOf(call.path)
        IN /\ DOMAIN result = {NameOf(i) : i \in wanted}
           /\ \A i \in wanted : result[NameOf(i)] = Body(i)

Stored(h) == \E b \in at[h] : b <= FirstHeight

\* If no call fails, then what was stored is found, whatever the hints say and
\* however the chain grows: only a missing file, an unknown path or an entry
\* without a hash is an error.
FailsOnlyIfLost ==
    stage = "rejected" /\ faults = 0 =>
        \/ ~Stored(Manifest)
        \/ call.kind = "one" /\ EntryOf(call.path) = {}
        \/ \E i \in DOMAIN Entries : DOMAIN Entries[i].parts = {}
        \/ \E i \in DOMAIN Entries : \E k \in DOMAIN Entries[i].parts :
              ~Stored(Entries[i].parts[k].h)

\* A call of fetch or fetchAll returns or throws.
CallEnds == (stage # "idle") ~> (stage \in {"returned", "rejected"})
=============================================================================

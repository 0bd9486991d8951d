---------------------------- MODULE GatewayServe ----------------------------
(***************************************************************************)
(* The gateway's HTTP handlers (gateway/handlers.go) over its disk cache   *)
(* (cache.go) and rate limiter: requests for files, for files named or     *)
(* numbered by a manifest, for directories and for named sites.  Several   *)
(* requests run at once, and a file in parts is fetched by several         *)
(* goroutines of which at most Limit run.                                  *)
(*                                                                         *)
(* FetchContent is what GatewayFetch models: here it returns the bytes of  *)
(* the chain or fails.  Bytes are kept symbolically, by their form and the *)
(* hashes they come from: "raw" as stored, "plain" as unzipped, "half" for *)
(* a file not wholly written.  What lookupName answers is modelled in      *)
(* NameCache: here it finds the site or not.                               *)
(***************************************************************************)
EXTENDS RateLimiter

CONSTANTS
    Request,        \* requests that may come in
    Target,         \* what they may ask for: [kind, h, path], or [kind, to]
    Hash,           \* hashes of files and of parts of files
    Manifest,       \* hash of a manifest -> its entries, [f, parts] each
    Missing,        \* hashes that are on no chain
    Site,           \* the manifest the site's name stands for
    Path,           \* names of files and paths in URLs
    Ext,            \* Ext[p]: "", ".html" or another extension
    Stem,           \* Stem[p]: p without its extension
    Number,         \* Number[p]: strconv.Atoi, or -1 for an error
    Index,          \* the path "index.html"
    NoName,         \* the empty file name
    Rewritten,      \* hashes of files that name a host to be rewritten
    Limit,          \* multipartFetchConcurrency
    None,
    MaxFaults,      \* bound: failed calls and restarts
    MaxTime         \* bound: ticks

ASSUME ServeAssumption == /\ Limit \in Nat \ {0}
                          /\ MaxFaults \in Nat /\ MaxTime \in Nat

\* An entry is a file in one part, or in several.
ASSUME ManifestAssumption ==
    \A h \in DOMAIN Manifest :
        /\ Manifest[h] \in Seq([f : Path \union {NoName}, parts : Seq(Hash)])
        /\ \A i \in DOMAIN Manifest[h] : Manifest[h][i].parts # << >>

\* The routes behind the limiter: a file, an entry of a manifest, a directory
\* or its JSON.
Routed(t) == \/ t.kind = "file" /\ t.h \in Hash
             \/ t.kind \in {"entry", "dir", "json"} /\ t.h \in DOMAIN Manifest

\* The URL given to /resolve is routed, but not to /resolve again.
ASSUME TargetAssumption ==
    /\ Site \in DOMAIN Manifest
    /\ \A t \in Target : \/ t.kind \in {"named", "health"}
                         \/ t.kind = "resolve" /\ Routed(t.to)
                         \/ Routed(t)

VARIABLES
    reqs,           \* the requests: stage, client, target, jobs, answer
    disk,           \* the cache directory: files [dir, h, data]
    faults          \* counter for the bound

vars == <<limiterVars, reqs, disk, faults>>

-----------------------------------------------------------------------------
(* Manifests and paths *)

Least(S) == IF S = {} THEN -1 ELSE (CHOOSE i \in S : \A j \in S : i <= j) - 1

HasFilenames(es) == \E i \in DOMAIN es : es[i].f # NoName

FindByFilename(es, p) == Least({i \in DOMAIN es : es[i].f = p})

\* The entries whose names are p and an extension.
ByStem(es, p) == {i \in DOMAIN es : /\ es[i].f # NoName /\ Ext[es[i].f] # ""
                                    /\ Stem[es[i].f] = p}

FindByStem(es, p) == Least(ByStem(es, p))

\* The first of the attempts that gives an index, from 0.
FirstFound(s) == LET hits == {i \in DOMAIN s : s[i] >= 0}
                 IN IF hits = {} THEN -1
                    ELSE s[CHOOSE i \in hits : \A j \in hits : i <= j]

When(cond, i) == IF cond THEN i ELSE -1

\* Faulty variant: a number is an index before it is looked for among the
\* names without their extensions.
ResolveNumberFirst(es, p) ==
    FirstFound(<< When(HasFilenames(es), FindByFilename(es, p)), Number[p],
                  When(HasFilenames(es) /\ Ext[p] = "", FindByStem(es, p)),
                  When(HasFilenames(es) /\ Ext[p] \in {"", ".html"},
                       FindByFilename(es, Index)) >>)

\* The entry a path stands for: its name, its name without extension, its
\* number, index.html for what may be a page of a site.
Resolve(es, p) ==
    FirstFound(<< When(HasFilenames(es), FindByFilename(es, p)),
                  When(HasFilenames(es) /\ Ext[p] = "", FindByStem(es, p)),
                  Number[p],
                  When(HasFilenames(es) /\ Ext[p] \in {"", ".html"},
                       FindByFilename(es, Index)) >>)

-----------------------------------------------------------------------------
(* Fetching: one job per goroutine, or for the handler itself *)

Raw(h) == [form |-> "raw", of |-> <<h>>]
Plain(h) == [form |-> "plain", of |-> <<h>>]
Half(h) == [form |-> "half", of |-> <<h>>]

\* fetchAndDecompress keeps its files apart from those of fetchRawChunk.
Job(h, dir) == [h |-> h, dir |-> dir, st |-> "wait", data |-> None]

Wanted(j) == IF j.dir = "raw" THEN Raw(j.h) ELSE Plain(j.h)

Running(jobs) == {k \in DOMAIN jobs : jobs[k].st \notin {"wait", "done", "failed"}}

\* Faulty variant: a goroutine that fails keeps its place.
SlotsLeaked(jobs) == Limit - Cardinality({k \in DOMAIN jobs :
                                jobs[k].st \notin {"wait", "done"}})

\* Faulty variant: the semaphore is checked for being over-full.
SlotsOffByOne(jobs) == Limit + 1 - Cardinality(Running(jobs))

\* Places left in the semaphore.
Slots(jobs) == Limit - Cardinality(Running(jobs))

SetJob(r, k, st, data) ==
    reqs' = [reqs EXCEPT ![r].jobs[k] = [@ EXCEPT !.st = st, !.data = data]]

\* A goroutine is started in the order of the parts, and reads the cache.
StartJob(r, k) ==
    LET jobs == reqs[r].jobs
    IN /\ jobs[k].st = "wait" /\ Slots(jobs) > 0
       /\ \A j \in 1 .. k - 1 : jobs[j].st # "wait"
       /\ LET cached == {f.data : f \in {g \in disk : /\ g.dir = jobs[k].dir
                                                      /\ g.h = jobs[k].h}}
          IN IF cached # {} THEN \E d \in cached : SetJob(r, k, "done", d)
                            ELSE SetJob(r, k, "fetch", None)
       /\ UNCHANGED <<limiterVars, disk, faults>>

Fault == faults < MaxFaults /\ faults' = faults + 1

\* FetchContent returns.
Fetched(r, k) ==
    LET j == reqs[r].jobs[k]
    IN /\ j.st = "fetch"
       /\ \/ /\ j.h \notin Missing /\ SetJob(r, k, "write", Wanted(j))
             /\ UNCHANGED faults
          \/ /\ j.h \in Missing /\ SetJob(r, k, "failed", None)
             /\ UNCHANGED faults
          \/ Fault /\ SetJob(r, k, "failed", None)
       /\ UNCHANGED <<limiterVars, disk>>

CacheFile(j, d) == {f \in disk : f.dir # j.dir \/ f.h # j.h}
                     \union {[dir |-> j.dir, h |-> j.h, data |-> d]}

\* Faulty variant: the file is written under its own name.
WriteInPlace(r, k) ==
    LET j == reqs[r].jobs[k]
    IN /\ j.st = "write"
       /\ SetJob(r, k, "rename", j.data)
       /\ disk' = CacheFile(j, Half(j.h))
       /\ UNCHANGED <<limiterVars, faults>>

\* writeFile: a temporary file of its own name is written; a failure is only
\* logged.
Write(r, k) ==
    LET j == reqs[r].jobs[k]
    IN /\ j.st = "write"
       /\ \/ SetJob(r, k, "rename", j.data) /\ UNCHANGED faults
          \/ SetJob(r, k, "done", j.data) /\ Fault
       /\ UNCHANGED <<limiterVars, disk>>

\* os.Rename: at once the whole file has its name, whoever had written it.
Rename(r, k) ==
    LET j == reqs[r].jobs[k]
    IN /\ j.st = "rename"
       /\ SetJob(r, k, "done", j.data)
       /\ disk' = CacheFile(j, j.data)
       /\ UNCHANGED <<limiterVars, faults>>

JobStep == \E r \in Request : \E k \in DOMAIN reqs[r].jobs :
              StartJob(r, k) \/ Fetched(r, k) \/ Write(r, k) \/ Rename(r, k)

-----------------------------------------------------------------------------
(* The handlers *)

NoAnswer == [status |-> 0, body |-> None, immutable |-> FALSE]
Answer(status) == [NoAnswer EXCEPT !.status = status]

NewRequest == [stage |-> "none", client |-> None, target |-> None,
               entry |-> None, jobs |-> << >>, answer |-> NoAnswer]

Init == /\ LimiterInit
        /\ reqs = [r \in Request |-> NewRequest]
        /\ disk = {} /\ faults = 0

\* The request goes on: to its answer, or to a stage with jobs of its own.
Reply(q, a) == [q EXCEPT !.stage = "answered", !.jobs = << >>, !.answer = a]

Goto(q, stage, t, e, jobs) ==
    [q EXCEPT !.stage = stage, !.target = t, !.entry = e, !.jobs = jobs]

\* The routes of ServeHTTP behind the limiter, and handleNamedSite: a file is
\* fetched; everything else begins with the manifest.
Dispatch(q, t) ==
    IF t.kind = "file"
    THEN Goto(q, "content", t, [f |-> NoName, parts |-> <<t.h>>], <<Job(t.h, "plain")>>)
    ELSE Goto(q, "manifest", t, None, <<Job(t.h, "plain")>>)

\* A request that the limiter does not see: the name of a site, or /health.
ArriveUnlimited(r) ==
    /\ reqs[r].stage = "none"
    /\ \E c \in Client, t \in {u \in Target : u.kind \in {"named", "health"}} :
        LET q == [reqs[r] EXCEPT !.client = c, !.target = t]
        IN \/ t.kind = "health" /\ reqs' = [reqs EXCEPT ![r] = Reply(q, Answer(200))]
           \/ /\ t.kind = "named"
              /\ \/ reqs' = [reqs EXCEPT ![r] = Reply(q, Answer(404))]
                 \/ reqs' = [reqs EXCEPT ![r] =
                        Dispatch(q, [kind |-> IF t.path = None THEN "root" ELSE "entry",
                                     h |-> Site, path |-> t.path])]
    /\ UNCHANGED <<limiterVars, disk, faults>>

\* ServeHTTP for any other request; /resolve dispatches it a second time, which
\* the limiter sees as another request.
Serve(r, c, t) ==
    /\ \/ /\ Allowed(c)
          /\ reqs' = [reqs EXCEPT ![r] =
                IF t.kind = "resolve"
                THEN [@ EXCEPT !.stage = "resolve", !.client = c, !.target = t.to]
                ELSE Dispatch([@ EXCEPT !.client = c], t)]
       \/ /\ Denied(c)
          /\ reqs' = [reqs EXCEPT ![r] =
                Reply([@ EXCEPT !.client = c, !.target = t], Answer(429))]
    /\ UNCHANGED <<disk, faults>>

Arrive(r) == /\ reqs[r].stage = "none"
             /\ \E c \in Client, t \in {u \in Target : u.kind \notin {"named", "health"}} :
                    Serve(r, c, t)

Redispatch(r) == /\ reqs[r].stage = "resolve"
                 /\ Serve(r, reqs[r].client, reqs[r].target)

Over(q) == \A k \in DOMAIN q.jobs : q.jobs[k].st \in {"done", "failed"}
Failed(q) == \E k \in DOMAIN q.jobs : q.jobs[k].st = "failed"

Entry(e) == IF Len(e.parts) > 1
            THEN [k \in DOMAIN e.parts |-> Job(e.parts[k], "raw")]
            ELSE <<Job(e.parts[1], "plain")>>

\* handleManifestOrFile: the entry is looked up and fetched.
OpenEntry(q, es) ==
    LET i == Resolve(es, q.target.path)
    IN IF i \notin 0 .. Len(es) - 1 THEN Reply(q, Answer(404))
       ELSE Goto(q, "content", q.target, es[i + 1], Entry(es[i + 1]))

\* handleDirectory and handleNamedRoot: index.html, by way of another request
\* for the manifest, or the listing, which the root of a site leaves to the
\* handler of directories.
OpenDirectory(q, es) ==
    LET to(kind, p) == Goto(q, "manifest",
                            [kind |-> kind, h |-> q.target.h, path |-> p], None,
                            <<Job(q.target.h, "plain")>>)
    IN CASE q.target.kind # "json" /\ FindByFilename(es, Index) >= 0 -> to("entry", Index)
         [] q.target.kind = "root" /\ FindByFilename(es, Index) < 0 -> to("dir", None)
         [] OTHER -> Reply(q, [status |-> 200, body |-> es, immutable |-> FALSE])

ManifestRead(r) ==
    LET q == reqs[r]
    IN /\ q.stage = "manifest" /\ Over(q)
       /\ reqs' = [reqs EXCEPT ![r] =
             IF Failed(q) THEN Reply(q, Answer(502))
             ELSE IF q.target.kind = "entry" THEN OpenEntry(q, Manifest[q.target.h])
             ELSE OpenDirectory(q, Manifest[q.target.h])]
       /\ UNCHANGED <<limiterVars, disk, faults>>

\* The parts put together, and unzipped as a whole.
Combined(jobs) ==
    IF DOMAIN jobs = {1} THEN jobs[1].data
    ELSE [form |-> IF \A k \in DOMAIN jobs : jobs[k].data = Raw(jobs[k].h)
                   THEN "plain" ELSE "mixed",
          of |-> [k \in DOMAIN jobs |-> jobs[k].h]]

\* Faulty variant: what was fetched is served although some part failed.
PartsFailedIgnored(q) == \A k \in DOMAIN q.jobs : q.jobs[k].st = "failed"

PartsFailed(q) == Failed(q)

\* fetchMultipart's end, or that of fetchAndDecompress; serveContent marks as
\* immutable what it has not rewritten.
ContentRead(r) ==
    LET q == reqs[r]
        body == Combined(q.jobs)
        rewrite == q.entry.parts[1] \in Rewritten
    IN /\ q.stage = "content" /\ Over(q)
       /\ reqs' = [reqs EXCEPT ![r] =
             IF PartsFailed(q) THEN Reply(q, Answer(502))
             ELSE Reply(q, [status |-> 200, immutable |-> ~rewrite,
                            body |-> IF rewrite THEN [body EXCEPT !.form = "rewritten"]
                                     ELSE body])]
       /\ UNCHANGED <<limiterVars, disk, faults>>

\* The process is stopped and started: requests and buckets are lost, the
\* files under their own names stay.
Restart == /\ Fault
           /\ buckets' = [c \in {} |-> 0]
           /\ grants' = [c \in Client |-> << >>]
           /\ reqs' = [r \in Request |->
                IF reqs[r].stage \in {"none", "answered"} THEN reqs[r]
                ELSE [reqs[r] EXCEPT !.stage = "lost", !.jobs = << >>]]
           /\ UNCHANGED <<now, disk>>

HandlerStep == \E r \in Request : Redispatch(r) \/ ManifestRead(r) \/ ContentRead(r)

Next == \/ \E r \in Request : Arrive(r) \/ ArriveUnlimited(r)
        \/ HandlerStep \/ JobStep \/ Restart
        \/ now < MaxTime /\ Tick /\ UNCHANGED <<reqs, disk, faults>>
        \/ Cleanup /\ UNCHANGED <<reqs, disk, faults>>

Spec == Init /\ [][Next]_vars

\* The Go scheduler runs every goroutine, and a call of the node returns.
FairSpec == Spec /\ WF_vars(HandlerStep \/ JobStep)

-----------------------------------------------------------------------------
(* Properties *)

Stages == {"none", "resolve", "manifest", "content", "answered", "lost"}

\* The type invariant; a request has jobs exactly while it fetches.
TypeOK ==
    /\ faults \in 0 .. MaxFaults
    /\ \A r \in Request :
        LET q == reqs[r]
        IN /\ q.stage \in Stages
           /\ q.stage \in {"manifest", "content"} <=> q.jobs # << >>
           /\ q.stage = "answered" <=> q.answer # NoAnswer
           /\ Cardinality(Running(q.jobs)) <= Limit

\* What a path of a manifest, or a file's hash, stands for.
Body(e) == [form |-> "plain", of |-> e.parts]

\* Whatever other requests, failures, time-outs and restarts do, an answer
\* that carries a file carries all of it, every part in order; and only bytes
\* the chain vouches for are marked as immutable.
ServedWhole ==
    \A r \in Request : LET q == reqs[r] IN
        q.answer.status = 200 /\ q.entry # None =>
            \/ q.answer.body = Body(q.entry)
            \/ ~q.answer.immutable /\ q.answer.body = [Body(q.entry) EXCEPT !.form = "rewritten"]

\* A file in the cache directory is whole and of the kind its directory is
\* for, at every moment, with several requests writing it.
DiskWhole == \A f \in disk : f.data = IF f.dir = "raw" THEN Raw(f.h) ELSE Plain(f.h)

\* Some entry has the path for its name, or its name is the path and an
\* extension, or the path is its number.
StandsFor(es, p) ==
    \/ \E i \in DOMAIN es : es[i].f # NoName /\ es[i].f = p
    \/ Ext[p] = "" /\ ByStem(es, p) # {}
    \/ Number[p] \in 0 .. Len(es) - 1

\* The entry has the path for its name; or none has, and it is one of those
\* whose names are the path and an extension, if there are any.
MeantBy(e, es, p) ==
    \/ e.f = p
    \/ /\ \A i \in DOMAIN es : es[i].f # p
       /\ Ext[p] = "" /\ ByStem(es, p) # {} => \E i \in ByStem(es, p) : e = es[i]

\* The entry that is served is the one the path means.
Leads(e, t) == e # None /\ t.kind = "entry" => MeantBy(e, Manifest[t.h], t.path)

\* "Not found" is not said of what is there.
NotThere(a, t) == a.status = 404 /\ t.kind = "entry" => ~StandsFor(Manifest[t.h], t.path)

\* A path leads to the file it names, with its extension or without, even if
\* it is also a number within the manifest, and is found missing only if it is
\* neither a name, nor one without its extension, nor such a number.
PathsLead ==
    \A r \in Request : LET q == reqs[r] IN
        Leads(q.entry, q.target) /\ NotThere(q.answer, q.target)

\* Every request that has come in is answered in the end, unless the process
\* is stopped: no goroutine waits for a place that is never given back.
EveryRequestAnswered ==
    <>[](\A r \in Request : reqs[r].stage \in {"none", "answered", "lost"})
=============================================================================

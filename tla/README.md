# EVMFS in TLA+

A verification project for this repository: files stored as event logs of an
EVM contract, a CLI and a web page that upload them, a registry of names, a
gateway that reads everything back and serves it, and a reader library. The
modules here model the parts with state and concurrency, TLC checks them on
small instances, and TLAPS proves what matters most for every value of the
constants.

`PROJECT.json` lists the components, the runs, the mutants (one change of the
code per property, which the property must catch), the lines each definition
stands for, the hazards and the theorems.

## 1. Inventory

| part | state | operations | depends on |
|---|---|---|---|
| `contracts/src/EVMFS.sol` | the `manifests` mapping; `Store` logs | `store`, `storeBatch`, `storeManifest` | - |
| `contracts/src/EVMFSNames.sol` | ERC-721 owners, `sites`, `feeRecipient` | `register`, `update`, `lookup`, `setFeeRecipient`, transfers | `EVMFS.manifests` |
| EVMFSBlockIndex, EVMFSV2, EVMFSNamesV2 | hash -> block; V2 of the two above | `register`, `blockOf`, ... | not in the repository |
| `cli/src` upload, deploy | memory of the process, `.evmfs-upload-state.json`, `manifest.json` | read folder, plan batches, send, wait, save, manifest, index | EVMFS, BlockIndex |
| `cli/src/names.ts` | memory of the process | `register`, `update-name`, `lookup` | EVMFSNames |
| `names-ui/src/App.tsx` | React state of the forms | connect, register, check owner, update, lookup | EVMFSNames, EVMFSNamesV2, wallet |
| `gateway/names.go` | cache of names, lookups in flight | `lookupName`, `do`, `get`, `set`, cleanup | name registries by RPC |
| `gateway/rpc.go` | none of its own | `FetchContent` | EVMFS contracts, BlockIndex by RPC |
| `gateway/handlers.go`, `cache.go` | disk cache | routing, paths in manifests, multipart fetch | the two above, the limiter |
| `gateway/ratelimit.go` | a token bucket per client | `Allow`, cleanup | - |
| `web/src/lib/evmfs.ts`, `App.tsx` | memory of the page, saved progress | select, fee, upload with retries, resume | EVMFSV2, wallet or key |
| `web/src/lib/history.ts`, `useUploadHistory.ts` | an IndexedDB store, the list shown | save, rename, delete, list | the page |
| `lib/src` | none | `resolveBlock`, `manifest`, `fetch`, `fetchAll` | EVMFS, BlockIndex |
| `cli/src/verify.ts` | none | compare stored content with its hash | EVMFS |

What is hard in them:

* **Upload and deploy.** A process that may die at any point between sending a
  transaction and saving what it achieved, is run again by its user, and finds a
  state file, a folder that may have changed, and transactions that are still
  pending. Correct means: nothing is counted as uploaded that is not on chain,
  every manifest on chain can be resolved and describes the folder, work is not
  done twice, and re-running ends with a manifest.
* **The web uploader.** The same aim with other means: a receipt that is late is
  given up and the batch sent again while the first may still be mined; a nonce
  the page counts itself; progress in the browser's storage, matched by names;
  callbacks that captured state when the upload began, while the page lets the
  user select other files, perhaps of the same names. Correct means the same as above, and that the history
  tells the truth.
* **Names.** Several programs look, decide and send while the chain executes
  transactions in its own order. Correct means: one registration per name, paid
  for, pointing at something that was stored; only its owner moves it; programs
  tell the truth.
* **The forms of names-ui.** Answers about a name come when they come: the form may
  show another name or registry by then, several questions may be under way (the
  Enter key is never disabled), two registries are read one after the other.
  Correct means: what is said about a name was true of it since the user asked,
  and is shown for that name.
* **The gateway's names.** Two mutexes, a WaitGroup, a double look into a cache
  with expiry and a limit, two loops with partial failure. Correct means: one
  lookup at a time per name, bounded staleness, no flipping back, nobody waits
  for ever.
* **Fetching.** Two nested loops, a hint that may come from the user or an
  index, a backward search with a cap, nodes that lag or fail. Correct means: if
  a node can answer, the request is answered; no node is flooded.
* **Serving.** Goroutines per part with a semaphore, some of which fail; files
  that several requests write at once; a path that may be read in four ways; a
  limiter whose buckets are dropped. Correct means: an answer is whole or an
  error, the disk holds nothing else, a path leads to its file, a client stays
  within its rate.
* **The library.** Workers that share an index across awaits, parts fetched at
  once, a search over a growing chain. Correct means: every file once, all or an
  error, found if stored.

## 2. Modules

    EVMFS ----+-> Upload -----------> MCUpload
      |       |      +--------------> UploadProofs
      |       +-> WebUpload --+
      |   Units (both)        +-> WebPage --> MCWebPage
      |           WebHistory -+      +------> WebPageProofs
      |   Publishing: instantiated by Upload and WebPage
      +-> EVMFSNames -> Names -----> MCNames
                          +--------> NamesProofs
    NamesPage -------> NamesPageProofs
    NameCache -------> MCNameCache, NameCacheProofs
    GatewayFetch ----> MCGatewayFetch, GatewayFetchProofs
    RateLimiter -----> GatewayServe --> MCGatewayServe, GatewayServeProofs
    Library ---------> MCLibrary, LibraryProofs

### EVMFS

The chain: `height`, the set `logs` of `Store` events, and the mapping
`manifests`. One operator per external function. `keccak256` is a free
constructor over its preimage: equal hashes, equal data. Every transaction has
a block of its own.

### Units and Publishing

`Units` is what both uploaders do with the pieces of files: their keys and
order, and the map from hashes to units in which the later of two equal units
wins. `Publishing` is the abstract specification of an uploader, three actions
long: content is written, a manifest is published after everything it refers
to, a manifest is announced after it is published. `Upload` and `WebPage`
instantiate it with the logs of the chain, the mined `storeManifest`
transactions, and the manifest in the state file (CLI) or on the screen (page);
both are checked and proved to implement it (`Publishes`).

### Upload

`cli/src/upload.ts` with `batch.ts`, `manifest.ts` and `blockIndex.ts`: one
wallet's process, its state file (`disk`), the folder, and its transactions in
nonce order (`txs`). The two commands differ in `IncludeFilenames`. `pc` names
the `await` the process is at; each action is the code between two of them:

| action | code |
|---|---|
| `Start` | reading the folder and the state file, dropping stale entries, planning; "Upload already complete!" |
| `Proceed` | the prompt answered `y` (`n` is `Crash`) |
| `SendBatch` | `store`/`storeBatch` of the next batch of `packBatches` |
| `BatchConfirmed` | the receipt: `hashToUnit`, `state.chunks.push`, save |
| `BatchReverted`, `BatchError` | the `catch` block: save and exit |
| `MissingChunks`, `SendManifest` | sorting and counting each file's chunks, then the error or the manifest |
| `ManifestConfirmed`, `ManifestReverted` | its receipt, saved; or the process dies |
| `SaveLocalManifest` | `manifest.json` written *into the folder* |
| `SendIndex`, `SkipIndex`, `IndexDone` | `registerInBlockIndex`, which never fails the run |
| `Finish` | the summary and its URL |
| `Crash`, `FailTx`, `EditFolder` | what the world does |

A file is the sequence of its chunks, a chunk is a value with a size; names are
numbers, since only their order matters. `packBatches` is computed greedily from
what is left (`NextBatch`), which gives the same batches since they are cut from
the left. The array `state.chunks` is a set of records that carry the
transaction and the log they came from; its order, where the code uses it
(`chunks[0]`, the stable sort), is recovered from these. The state file is
written atomically.

### WebUpload, WebHistory, WebPage

`WebUpload` is `uploadFiles` (a wallet signs) and `uploadFilesWithPrivateKey`
(the page signs; `job.key`), which run the same loop:

| action | code |
|---|---|
| `Begin` | the head of `startUpload`: the files and saved units are captured |
| `SendFee`, `FeeMined` | the protocol fee, skipped by a resumed upload; only ethers looks at its status |
| `StartBatches` | `getTransactionCount("pending")` |
| `SkipBatch`, `TakeBatch` | a batch wholly confirmed before, or one to be read and sent |
| `SendBatch`, `BatchConfirmed` | one attempt: send, receipt, `confirmed.set`, `saveProgress` (which may fail silently), `nonce++` |
| `RetryBatch`, `BatchFails` | the `catch` block: the nonce read anew, or the last attempt |
| `MissingChunks`, `SendManifest`, `ManifestFails`, `ManifestConfirmed` | `buildManifestEntries` and `storeManifest`, which is not tried again |
| `CallFails` | any await outside the `try` |
| `TryAgain`, `Reload`, `DropProgress` | the button, the browser, "Discard" or 24 hours |
| `OtherTx`, `FailTx`, `MineTx` | the account used elsewhere, a revert, a block |

`AttemptFails` lists what makes an attempt fail; a time-out is a fault that
leaves the transaction pending, so that it may be mined before, with or after
the second one. `WebHistory` is the IndexedDB store: every call is a
transaction in a queue, and after each change the hook queues a reading of the
list. `WebPage` composes both and adds the selection (`HandOver`: sorted once by
path for labels and once by name for files), the buttons (`Start`, `Retry`) and
`onComplete` (`Complete`), which saves an entry made of the files captured when
the upload began. A drop of a folder is read asynchronously, and whether the
page is busy is looked at only before, so `HandOver` may happen in the middle of
an upload.

The only assumption on what is selected is that the files of one selection have
different paths: selections may share their names, repeat chunks within a file
or among files, and sort differently by name and by path. What the properties
need to tell such cases apart is history: `job.from` and `progress.from` are the
lists of files of which the saved units may be, and `strays` counts the uploads
that resumed the progress of other files than their own.

### EVMFSNames and Names

`EVMFSNames` is the registry, each function as a condition (`May...`, the
`require`s) and an effect. `Names` adds the programs: per account a command goes
through lookup, send, execution and report, with other accounts in between.
`Execute` is the transaction's execution on the state it finds; `Report` is
what the user is told: the CLI checks the receipt's status, names-ui does not.
`LookUpFails` is the `catch` of `registerCommand`, which takes the name for
free. `Direct` calls `register` without a client, with any name and payment.

### NamesPage

The two forms of names-ui that ask before they tell, over two registries of
which one is in the repository. What the page sends, and what it reports, is in
`Names`; here the questions are in flight one by one:

| action | code |
|---|---|
| `Claim`, `Transfer` | the registries; `held` is history |
| `Connect`, `Connected` | the button and `handleConnect`, which may fail |
| `ChangeVersion`, `ChangeName` | the fields of the update form, which clear the owner |
| `AskOwner`, `ReadOwner`, `TakeOwner` | `checkUpdateOwner`: asked, read by the node, taken up; `None` is a failed call |
| `AskLookup`, `ReadLookup`, `TakeLookup` | `handleLookup`, which goes round once for V2 and once for V1 |

The fields may be edited at any time, as no field is disabled while a check
runs. `claimed` in a question is history: what had been claimed when it was
asked; so are `form.about`, the question the owner in the form is the answer to,
and `edited`, which says that the form was changed while that check ran.

### NameCache

`gateway/names.go`: a request is a goroutine, and its steps are the critical
sections of `mu` and `flightMu` and the RPC calls. `entries` and `flight` are
the two maps; `landed` is the set of leaders whose WaitGroup is released. Each
lookup has a number and a time, which results carry into the cache and to the
requests; the properties compare them. `Land` (out of `flight`) and `Release`
(`wg.Done`) are two steps, as in the deferred function. The registries are two
maps that may change at any time; each answer is read in one step.

### GatewayFetch

`FetchContent` of `gateway/rpc.go` for one content hash: which contract, which
node, the hint or the search window. Every RPC call is a step, and may fail;
between two of them blocks are added, the content may be stored again, nodes
catch up. The chain is reduced to the places where the content is stored. The
last return of `FetchContent` (rpc.go:171) cannot be reached, as an attempt
with the last contract gives data or an error.

### RateLimiter and GatewayServe

`RateLimiter`: a bucket is made full by the first request of a client, refilled
lazily, and dropped by the cleanup after `Idle` ticks. `grants` is history.

`GatewayServe` puts `ServeHTTP` and its handlers over the limiter and the disk
cache. A request has a stage ("manifest", "content", ...) and the jobs of that
stage, one per goroutine (`fetchMultipart`) or one for the handler itself:

| action | code |
|---|---|
| `Arrive`, `Redispatch` | the limiter and the `switch` of `ServeHTTP`; `/resolve` passes both a second time |
| `ArriveUnlimited` | named sites and `/health`, which the limiter does not see |
| `StartJob` | a place in the semaphore, in the order of the parts; the cache is read |
| `Fetched` | `FetchContent` returns the bytes or an error |
| `Write`, `Rename` | `writeFile`: the temporary file, then its name |
| `ManifestRead` | `Resolve` (name, stem, number, `index.html`), or the directory, which may lead back to an entry by a second reading of the manifest |
| `ContentRead` | all jobs over: an error if one failed, else the parts put together, rewritten or not |
| `Restart`, `Cleanup`, `Tick` | the process, the limiter's ticker, the clock |

Bytes are symbolic: their form (as stored, unzipped, half written, rewritten)
and the hashes they come from. `Restart` empties the buckets, so `grants` begins
anew too: the limiter promises nothing across restarts.

### Library

`lib/src/index.ts` and `rpc.ts`: an action is what runs between two awaits.
`reader` is the `fetchContent` of the manifest, `workers` the promises of
`fetchAll` with one job per part. After `fetchAll` has thrown the other workers
go on, as they do in the code.

## 3. Runs

| run | question | bounds | result |
|---|---|---|---|
| `upload` | the properties of uploading, with and without equal files, and `Publishing` | a file of two chunks and a small one after `manifest.json` in the order of names, two batches; folders with two equal files in one batch or in two; 2 faults, 1 edit, 12 transactions | holds |
| `upload_twins` | "Re-run to retry." with two equal files | no fault, no edit | violated |
| `upload_redeploy` | a redeploy prints a manifest of the present files | 1 edit, no fault | violated |
| `web_upload` | the properties of the page, and `Publishing` | three selections: a chunked and a small file; two equal small files under the very same names; a file that repeats a chunk, with paths in another order than the names; set to deploy a folder; both signing methods; 2 attempts per batch (3 in the code); 2 faults, 3 uploads, 1 new selection, 2 changes of the history | holds |
| `web_site_labels` | labels and files are in one order | a folder with two sub-folders, no fault | violated |
| `web_resume` | a manifest lists each chunk of the file that is uploaded | two versions of one file of two chunks, of which the first differ; 1 fault, 2 uploads, 1 new selection | violated |
| `names` | the registry's safety and the CLI's reports | 2 accounts (CLI, page), a legal and an illegal name, 2 manifests, 3 commands, 2 stores, 2 moves | holds |
| `names_page` | what the forms of names-ui tell | 2 accounts, 1 name on 2 registries, 2 checks and 1 lookup at a time | holds |
| `name_cache` | the cache's safety; every request is answered | 3 requests, 2 names, cache for 1, 2 registries, 1 node, TTL 1, times 0..2, 1 change | holds |
| `fetch` | one healthy node is enough; few calls | 2 contracts, 2 nodes one block apart at most, heights 5..6, windows of 2 blocks, 2 windows, hints near and far | holds |
| `serve` | whole answers, whole cache files, paths, the limiter, no request stuck | 2 requests of 1 client, one place for goroutines (8 in the code), rate, burst and idle time 1, 2 ticks, 1 fault; a site with a file in two parts whose name begins with a number, and a manifest with a lost file | holds |
| `library` | every file once, all or an error, found if stored | 4 files, one in two parts, 2 workers, windows of 2 blocks, heights 4..5, 1 fault; all stored, a part lost, or the manifest lost | holds |

Properties, in short (each is stated with its meaning in its module):

* `Upload`. `RecordedOnChain`: what the state file counts as uploaded
  exists, at the block it says. `ManifestFaithful`: every
  manifest ever stored lists the folder's files with their chunks in order.
  `FaultCostsOneBatch`: a fault costs at most the transaction in flight. `IndexPointsAtManifest`. `CompleteUnlessTwins`: the user who keeps
  running the command gets a manifest, except for what `upload_twins` shows.
  `Publishes`: no manifest is on chain before the chunks it lists.
* `WebPage`. `ConfirmedOnChain`: what counts as confirmed, in memory or saved, is
  on chain in that block, however often an attempt timed out and was mined
  twice. `ManifestFaithful`: progress of one selection is never mixed into the
  manifest of another, unless the upload resumed progress saved under the very
  same names, which the code cannot tell; without that, and without two equal
  units that may share a batch, the manifest lists exactly the chunks of the
  files, in order. `NonceNeverAhead`, `ResumeIsCheap`: a transaction with a
  nonce from the future would wait for ever; a batch is paid for again only after
  a fault, or for files that resumed the progress of others. `HistoryFaithful`:
  an entry of the history names a published manifest in its block and lists its
  files. `HistoryKept`, `EventuallyStored`, `Publishes`.
* `Names`. `SitesArePublished`, `MintedOnce`, `NamesArePaid`, `NameKept`,
  `CLITellsTruth`.
* `NamesPage`. `OwnsWhatIsShown`: "You own this name" is said only to an account
  that was given the name it asked for, on the registry it asked; and the form
  shows these, unless it was changed while that very check ran. `LookupTellsTruth`: a name
  said to be available was free on both registries at one time since the user
  asked, though they are read one after the other; an owner is shown only with a
  registry on which he was given the name.
* `NameCache`. `NoSuperfluousLookup`: no two lookups of a name at once, and none
  while a fresh entry exists. `NeverBackInTime`: who comes after an answer was
  given gets no result of an older lookup. `StaleAtMostTTL`, `CacheBounded`,
  `EveryRequestAnswered`.
* `GatewayFetch`. `OneHealthyNodeSuffices`: a request fails only if every node
  failed a call, did not know of the content when the request came, or the
  content was out of reach (not next to the hint, beyond the last window, or not
  in the contract that is searched). `CallBudget`.
* `GatewayServe`. `ServedWhole`, `DiskWhole`: answers and cache files have all
  their parts or are not there. `PathsLead`: a path leads to the file of that
  name, also if the name without extension is a number, and "not found" is said
  only of a path that is no name, no name without extension and no number. `WithinRate`: no client gets through more often than its
  burst and rate allow, though its bucket may be dropped. `EveryRequestAnswered`.
* `Library`. `EachEntryOnce`: no two workers on one entry, no entry skipped,
  progress counted 1, 2, 3, ... `FetchedWhole`, `FailsOnlyIfLost`, `CallEnds`.

*Same names.* `progressMatchesFiles` compares names only. If two selections have
the same names and different contents, the page offers "Resume", and an upload
that resumes puts saved chunks of the old contents into the manifest of the new.
`web_upload` has such selections: there `ManifestFaithful` says what is true of
the manifest nevertheless (every part is the chunk of that file and place in one
of the lists of files resumed from, and no chunk is left out but twins), and
`web_resume` shows that the documented promise, each chunk of the file in order,
is not kept.

Why the bounds are enough. The upload needs two batches for an order of batches,
two chunks in one file for an order within it, a file after `manifest.json` for
the shift of indices, and two faults so that a repeated run can fail too. The
page needs two faults for a time-out followed by a reload or by a transaction
from elsewhere, three uploads for a resumed one after a failed one and one more,
selections that share names for a resumption of the wrong files,
and two changes for a rename that races a deletion. Names need two competing
accounts, two manifests (a copy and an own one) and three commands for register,
update, and a loser. The cache needs three requests to have a leader, a waiter
and a late-comer at once, and more names than it can hold. The fetch needs a
first and a last contract, a healthy and a failing node, and a chain longer than
the windows reach; no window of the run reaches block 0, which is left to the
proof. Serving needs two requests for one file of two parts (four
writers in turn) with fewer places than parts, a part that fails, and a bucket
that can be dropped and used again. The library needs fewer workers than files,
and hints off by one and by more; an entry with neither parts nor a hash, at which
`fetchEntry` throws, occurs in no manifest of the run and is covered by the proofs.

What the bounds leave to the proofs: a gas limit that binds (the runs cut batches
by bytes), a unit over a limit by itself, goroutines of one request that overlap
(`serve` has one place for them), several nodes of one registry (`name_cache` has
one), other users' lookups that overlap.

The forms need two checks that overtake each other and two registries; more
names, and lookups that overlap, are covered by the proofs.

`TypeOK` of `Upload` and of `WebPage` is proved and no longer checked by a run;
`TypeOK` of `NamesPage` is proved as well.

Symmetry is used for the manifests of `names`, which checks no liveness. The
requests of `name_cache` are numbered as they arrive, as nothing tells them apart
before. Deadlock is checked for `upload`, where `Start`
can always be taken again; the other systems come to an end when their requests
or commands are used up.

Assumptions in the models:

* Fairness. `Upload!FairSpec`: the user runs the command again when it has
  stopped, which is what the messages "Re-run to resume" and "Re-run to retry"
  ask for; the process takes its steps; a pending transaction is mined in the
  end. `WebPage!FairSpec`: while the page or the chain can go on one of them does
  (the browser runs the page's calls, pending transactions are mined), and while
  the user can, he makes a first selection, presses a button that starts an
  upload, or tries again after an error. `NameCache!FairSpec`: when goroutines
  can run, one of them does; `GatewayServe!FairSpec`: goroutines are scheduled.
  In both, RPC calls end. The gateway sets no time limit on its HTTP calls, so
  this is an assumption on the nodes and on TCP, not something the code ensures.
  `Library!FairSpec`: the event loop runs, and calls end. Nothing that goes wrong
  is ever fair.
* Time. `NameCache!Tick` is not taken while a goroutine can do a step of its
  own: only the network takes time compared with the TTL of 60 seconds.
  `RateLimiterAssumption`: a bucket refills (four seconds by default) within the
  idle time (15 minutes). The defaults satisfy it; config.go:147-150 takes any
  rate and burst, and with a burst that takes longer to refill a client who comes
  back gets more than the promise.
* `GatewayFetch`: what the chain does before and after the one request
  (`Running`) does not matter to it, except for the initial states, which have
  the content anywhere or nowhere.
* The user turns to the history when an upload is complete (`History`): before
  that nothing the changes read or write is touched by the upload.

## 4. Findings

Shown by runs:

1. `upload_twins`: two files with equal bytes in one batch can never be uploaded
   with the CLI; the state file they leave behind is never repaired.
2. `upload_redeploy`: a redeploy with changed contents stores no new manifest
   and prints the old one, against the hint the command prints.
3. `web_site_labels`: deploying a folder with sub-folders from the page can give
   the path of one file to the content of another; the comment beside the sort
   names the very hazard.
4. `web_resume`: a file of two chunks is uploaded, the upload is interrupted
   after the first chunk, and the upload of an edited version of the file resumes: the
   manifest lists a chunk of each version, against "The manifest entry uses a p
   (parts) field listing each chunk in order" (Docs.tsx:323).

Met while modelling, without a run of their own:

* names-ui: a reverted registration is reported as "Registered! ... is live"
  (App.tsx:105-106), since the status of the receipt is not looked at; with two
  pages in `Names` one sees it at once. An answer of `checkUpdateOwner` that comes
  after the form was edited is taken for the new name or registry (App.tsx:126),
  since no field is disabled while a check runs: the page says "You own this name"
  of a name that was never asked about, and lets the user send an update, which
  the registry rejects. `OwnsWhatIsShown` names this case (`form.about.edited`);
  without that disjunct it fails in a few steps. Of two lookups
  that overlap one may show an owner and the other "Available", both at once, and
  the URL beside an owner is that of the name in the field by now (App.tsx:466).
* The page: two equal small files in one batch end in "missing chunks" on every
  attempt. A short last chunk that equals a small file, or another such chunk, of
  its batch is lost without an error, and the manifest is one part short
  (evmfs.ts:262 looks only for files without any chunk); these are the `Twins` of
  `ManifestFaithful`. The counter of completed parts passes
  100 % when a resumed upload counts skipped ones again (App.tsx:173, 104).
  The exported JSON of a history entry has URLs by number
  (UploadHistory.tsx:29-43), which on a manifest with names the gateway tries as
  a stem first.
* The gateway's listing of a directory writes names into its links as they are
  (handlers.go:484-488), so the link of `Track #1.mp3` or `100%.png` does not lead
  to the file; a request for the escaped name does. A property about links would
  be false by this line, so `PathsLead` is about the paths that are requested.
* The gateway's README promises an "HTML directory listing of the manifest's files"
  for `/<chainId>/<block>/<manifestHash>` (gateway/README.md:85). Without a slash
  at its end this path gets the manifest itself, as a file (handlers.go:108-110);
  with one it gets the listing only if no file is called `index.html`
  (handlers.go:400-407). `/<chainId>/<contentHash>/`, which should "Force directory
  mode" (gateway/README.md:89), is served as a file, slash or not
  (handlers.go:116-117).
* The URL the CLI prints has the first chunk's block (upload.ts:646); the
  README's form has the manifest's. The gateway takes it as a hint.
* The gateway goes on to the older registry also when all calls to the preferred
  one failed (names.go:183-207), where the README says "fall back" after a query.
  It searches the last contract only, so a near miss of the hint on another one is
  not found (rpc.go:153-157). A number beyond a named manifest is a 404 without
  the fallback to `index.html`. Named sites are not rate limited
  (handlers.go:66-75), although the comment at line 82 excepts only `/health`.
  A temporary file whose writer dies stays in the cache directory.
* The library takes a number before a name, the gateway a name before a number.
  With `concurrency: 0` `fetchAll` gives an empty result, and of two files with
  one name the later one (`LibraryAssumption` excludes both). The result of
  `verifyHash` is ignored (index.ts:144).

## 5. Proofs

`tlapm` checks every proof from nothing. The theorems are for arbitrary constants
that satisfy the assumptions of the modules: any folders, chunks, limits and
number of faults, any set of accounts, names and fees, any number of requests,
registries and nodes, any TTL, cache limit, rate and burst, any number of places
for goroutines.

`UploadProofs`. None of the safety properties is inductive. The invariant `IInv`
adds what carries them: the transaction a process waits for is the last one sent
and has the bytes of the batch, or the manifest, that it holds in memory
(`WaitInv`, `LocalInv`); a mined transaction has its logs on chain at its block
(`MinedInv`); a manifest transaction, pending or not and whether or not its
sender still runs, refers to records that were on chain when it was sent, in
blocks up to the height (`ManifestTxInv`), so that it is mined in a later one;
and a registration that is under way carries the block of the manifest's own
receipt (`IndexTxInv`). `FolderInv` and `RemainingInv` say that what is uploaded
as a file is never itself a manifest of the chain. Every action of the model is
covered, crashes and edits included.

`UploadPublishes` is the refinement: under `IInv` every step of `Upload` is a
step of `Publishing` or a stutter. Sending and settling leave the three abstract
variables alone or write (`PubQuiet`, `PubSend`, `PubSettle`); mining a manifest
publishes it, with its references written by `ManifestTxInv`; the receipt
announces what `MinedInv` knows to be mined. It also needs that the manifest hash
in memory and the one in the state file agree while the process runs (`HashInv`).

`UploadFaultCostsOneBatch` counts the batches no entry of the state file stands
for (`Lost`). `FaultInv` bounds them by the faults plus one for a batch in flight
that has not failed, and says what lets a receipt take its batch off the list:
in a folder nobody has touched no entry is ever stale, so `Start` drops none
(`Tidy`), and a batch waited for is not empty and has no entry yet. That
`packBatches` never yields an empty batch (`NextBatchSome`) is proved by
well-founded induction over the keys of units. The theorem assumes that `None`
is no hash. `UploadTypeCorrect` needs that only hashes of mined manifests are
saved (`HashesInv`).

`NamesProofs`. Here the strengthening says that `minted` and `owner` have the
same names, that the uploaders on record are accounts whose manifest is in the
logs, that a command which is "mined" has left its events in `minted` and
`updated`, and that those events never go away (which gives `CLITellsTruth`).
`NamesArePaid` needs the finiteness of the set of owned names, and that
`register` is undone when the payment fails. `NameKept` is an action property,
proved from the guard of each action under the invariant.

`NameCacheProofs`. The invariant has layers, each inductive over those before
it. `Roles`: every leader holds the entry of its name in `flight`, so a name has
one leader; a WaitGroup is released only when its leader has its answer; who
waits, waits for a request of the same name. `MissInv`: while nodes are asked the
cache has nothing fresh, since only the leader could put it there; with the one
leader this is `NoSuperfluousLookup`. `Order`: the number of the lookup under way,
and that of a fresh entry, bounds every number a request of that name has got,
can still get, or knew of when it came (`FreshInv`, `NewestInv`, `FloorInv`), which
gives `NeverBackInTime`; it needs `MissInv` nowhere, but it needs the one leader,
which is why `DoAlone` breaks it. `Ages`: an entry expires at most TTL after its
result was found out, and the clock stands still while a result is on its way.
The limit of the cache follows from `Set` alone and finiteness. The invariant was
also checked by TLC on the instance of `name_cache`.

`GatewayServeProofs`, the limiter. `WithinRate` counts grants from every moment on.
It follows from `Budget`: what a client was let through since a time, together
with what is left in its bucket, is at most its burst and what was refilled
since. A bucket that is dropped was full when it was (`StaleFull`: it refills
within the idle time), so that making it anew adds nothing; this is where
`RateLimiterAssumption` is needed, and where dropping buckets at once breaks the
property. `LimiterStep`: every step of the composition with the handlers is a
step of the limiter, a stutter, or a restart, after which the limiter is `Fresh`;
so `LimiterInv` carries over.

`GatewayServeProofs`, the handlers. `ServeInv` describes one request at a time:
what stage it is in, that each of its jobs is for a part of its target, in order,
and holds either nothing, bytes from the node, or bytes from a whole cache file
(`RequestOK`); with `DiskWhole` it is inductive, since a file gets its name only
when all its bytes are written. `ServePathsLead` follows each of the attempts to
read a path: what is found by name, by stem or by number is the least index of
its kind, and when no attempt finds anything the path stands for no entry.

`GatewayFetchProofs`. When a request fails it has gone through all contracts and
nodes; `TriedInv` says of each attempt that is over, if its node failed no call,
that nothing the node knew of when the request came was within reach; `HereInv`
says the same of the windows of the search under way (`toBlock` is the head
first read less the windows done); together they are `OneHealthyNodeSuffices`.
`BudgetInv` counts the calls of the finished and the present attempts for
`CallBudget`. `TypeOK` is part of the invariant, since TLAPS needs it, and no
property of the run.

`LibraryProofs`. Two invariants that do not need each other. `PoolInv`: the
entries taken are those up to the shared index, each by one worker, and the
number of files counted is the number of entries taken that no worker still
has; for that the workers with an entry are counted (`Cardinality`), which gives
`EachEntryOnce` and, when all workers have ended, `FetchedWhole`. `JobsInv`: a
search that goes on has left no block behind it in which the content was stored
when it began, so one that ends without a result and without a failed call shows
that it is not stored (`FailsOnlyIfLost`).

`WebPageProofs`. The parts of `UploadInv` are those of `UploadProofs` for the
page's uploaders: the receipt waited for is that of the batch at hand (`WaitInv`),
which must survive retries that change `sent`; mined transactions have their logs
(`MinedInv`); a manifest is sent only over confirmed units (`ManifestTxInv`).
`UnitsOK` says there is one confirmed unit for each key, which makes the parts of
a file a sequence in one order; that finite sets of files and units can be sorted
at all is proved first (`Enumerable`), by well-founded induction over their
subsets; `SelectionsAssumption` says that two files of a folder have different
paths. `NonceInv`: while a batch is waited for, the nonce is that of a transaction
already sent. `HistoryInv`: the number of an entry being saved is used by no other
pending call and is neither stored nor deleted, so saving it brings nothing back
(`HistoryKept`), and the list is current or a reading of it is pending.
`PagePublishes` is the refinement, as for `Upload`; `Complete` announces and
`Reload` withdraws, and what is on the screen is the manifest of a transaction
that is mined and can no more be settled (`ShownKept`).

`UploadManifestFaithful` and `PageManifestFaithful` say that every manifest ever
stored describes the files it was made of. The receipt of a batch is read through
a map keyed by content, so of two equal units one is recorded twice and the other
never, and what is saved can be wrong. For the CLI `FaithInv` shows what saves
the manifest: every chunk but the last of a file fills a batch of its own
(`CutAssumption`, from `MAX_BATCH_BYTES`), so only last chunks can be confused,
and the entry that is doubled makes its file have one chunk too many for ever,
which no run gets past (`Blocked`); all other entries are those of the folder
(`Genuine`, `Filled`, `Orderly`). It holds while nobody edits the folder. The page
counts nothing, and matches progress by names, so what its theorem says is
weaker, but needs no hypothesis on what is selected. `GenuineFor`: every unit
confirmed or saved stands for the same chunk of the same file in one of the lists
in `from`, all of which have the same names (`FromOK`). `CoveredInv` says that a
unit is still to be sent, or recorded, or one of two equal units that may share a
batch (`Twins`); `MissingChunks` notices the loss of a twin that is the only
chunk of its file, unless the upload resumed the progress of other files. `PageHistoryFaithful`
adds that an entry of the history is made of the manifest that was shown
(`EntriesInv`) and that the manifest's transaction stays mined (`Kept`).

`PageResumeIsCheap` bounds what is sent. A fee opens a budget of `MaxBatches`
batches, which is the length of a packing: `BatchesAssumption` says that
the sets of units left before each batch (`Packing`) are at most that many, and
TLC evaluates it for the selections of `web_upload`. `CheapInv` says that the
batches sent so far and those still to be taken of the present packing, less the
ones that will be skipped, are within the budget and the faults; a resumed upload
pays no fee but finds what was confirmed (`CheapProgress`), so that it sends only
what a fault has cost; one that resumes the progress of other files may find
nothing of use, and is counted in `strays`.

`NamesPageProofs`. What has been read and not yet taken up was true when it was
read: an owner on his way was given the name (`HeldInv`), and a name asked of V1
was not on V2 when the user asked, since names stay claimed (`FreeInv`).
For `FormOwnsWhatIsShown` a check on its way is about what the form shows, or is
marked as one during which the form was changed; this holds for any edits.

Assumptions about constants that a theorem needs beyond their types:
`CutAssumption`, `SelectionsAssumption`, `BatchesAssumption`,
`RateLimiterAssumption` and `LibraryAssumption` are stated in the modules and
evaluated by TLC for every run of them; `NoHashIsNone` (`None` is no hash) is a
hypothesis of the theorem named above.

All safety properties that runs check, and all refinements, are proved. Only
model-checked are the liveness properties (`CompleteUnlessTwins`,
`EventuallyStored`, `CallEnds` and both `EveryRequestAnswered`), since fairness
and ENABLED are out of the prover's reach. Facts by induction over data, such as
how many batches `packBatches` makes of every input, are out of reach as well:
`MaxBatches` takes their place.

## 6. Not modelled

Encodings (ABI, JSON, gzip, URLs), wording and layout; options and defaults of
the commands; the legacy formats of the state file and of saved progress; a write
of the state file cut off in the middle; chain reorganisations, which no part of
the code looks at; the three contracts that are not in the repository, beyond
what clients rely on; content types and static files of the gateway, and
malformed manifests, which it answers with an error; addresses behind proxies
(`clientIP`). `cli/src/verify.ts` reads one hash at a time and prints PASS or
FAIL: it has no state to model. Presentation, deployment scripts and build files
have none either.

## 7. Plan

Done: every component with state is modelled and checked, and all its safety
properties are proved. What is left would be, in this order:

1. Proofs of the lemmas behind the liveness properties, as far as they are
   safety: that a state in which a process is not done has a step that is not
   blocked by another process for ever (the waiters of the name cache, the slots
   of the gateway's goroutines, the workers of the library).
2. An abstract name service (lookups that return a value the registry had within
   the last TTL) which `NameCache` and the registries of `Names` implement, to
   compose the gateway with the registry.
3. `ManifestFaithful` of the CLI for folders that are edited between finished
   runs.

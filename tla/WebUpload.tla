------------------------------ MODULE WebUpload -----------------------------
(***************************************************************************)
(* The web page's uploader (web/src/lib/evmfs.ts): uploadFiles, which      *)
(* sends through the connected wallet, and uploadFilesWithPrivateKey,      *)
(* which signs by itself and keeps its own nonce.  Both run the same loop  *)
(* over the batches, with retries, and save what is confirmed in the       *)
(* browser's storage, from which a later upload may resume.                *)
(*                                                                         *)
(* A file is a record: its name, its path in the folder, and the chunks    *)
(* its bytes are cut into.  Names and paths are numbers, so that < is the  *)
(* order the page sorts by.  The page talks to one contract, EVMFSV2, on   *)
(* one chain, so the branch that registers a block in EVMFSBlockIndex is   *)
(* never taken.  WebPage says when an upload is started.                   *)
(***************************************************************************)
EXTENDS EVMFS, Units, FiniteSetsExt

CONSTANTS
    Chunk,              \* contents of chunks
    Size,               \* Size[d]: bytes of chunk d
    MaxBatchBytes,      \* MAX_BATCH_BYTES
    GasLimit,           \* GAS_LIMIT
    Retries,            \* BATCH_RETRIES
    Wallet,             \* the account that signs
    None,
    MaxFaults,          \* bound: everything that goes wrong or is interrupted
    MaxUploads          \* bound: uploads started

ASSUME WebUploadAssumption ==
    /\ Wallet \in Account
    /\ Retries \in Nat \ {0} /\ MaxFaults \in Nat /\ MaxUploads \in Nat

VARIABLES
    txs,        \* the account's transactions in nonce order
    progress,   \* localStorage: the names of the files and confirmed units
                \* (and, as history, job.from)
    pc,         \* where the upload is; "idle" when none runs
    job,        \* what startUpload was called with; from is history: the
                \* lists of files whose units its progress may hold
    left,       \* the units of batches not yet begun
    batch,      \* the units of the current batch
    attempt,    \* 1 .. Retries
    nonce,      \* the private-key uploader's own count of transactions
    sent,       \* the transaction waited for
    confirmed,  \* the confirmed units, one per key
    faults, uploadsStarted,     \* counters for the bounds
    strays      \* history: uploads that resumed the progress of other files

uploadVars == <<pc, job, left, batch, attempt, nonce, sent, confirmed>>
webUploadVars == <<chainVars, txs, progress, uploadVars, faults, uploadsStarted, strays>>

counters == <<faults, uploadsStarted, strays>>

NoJob == [files |-> << >>, labels |-> << >>, key |-> FALSE, from |-> {}]

Idle == /\ job = NoJob /\ left = {} /\ batch = << >> /\ attempt = 0
        /\ nonce = 0 /\ sent = 0 /\ confirmed = {}

WebUploadInit == /\ ChainInit /\ txs = << >> /\ progress = None
                 /\ pc = "idle" /\ Idle /\ faults = 0 /\ uploadsStarted = 0
                 /\ strays = 0

-----------------------------------------------------------------------------
(* Units, batches and the manifest *)

\* expandFilesToUnits
AllUnits(fs) ==
    UNION { {[file |-> i - 1, chunk |-> c, total |-> Len(fs[i].chunks),
              data |-> fs[i].chunks[c + 1]] : c \in 0 .. Len(fs[i].chunks) - 1}
            : i \in DOMAIN fs }

FileGas(u) == Size[u.data] * 26 + 5000
BatchGas(us) == 21000 + 10000 + MapThenSumSet(FileGas, us)
Bytes(u) == Size[u.data]

Fits(us) == \/ Cardinality(us) = 1
            \/ /\ BatchGas(us) <= GasLimit
               /\ MapThenSumSet(Bytes, us) <= MaxBatchBytes

\* packBatches: the longest prefix of what is left that fits.
NextBatch(us) ==
    UNION {p \in {us \ {v \in us : Precedes(u, v)} : u \in us} : Fits(p)}

Names(fs) == [i \in DOMAIN fs |-> fs[i].name]

\* Faulty variant: only the number of files is compared.
MatchesCount(p, fs) == p # None /\ Len(p.names) = Len(fs)

\* progressMatchesFiles: the names, and nothing about the contents.
Matches(p, fs) == p # None /\ p.names = Names(fs)

\* What the receipt of transaction t confirms of batch b: each of its logs is
\* looked up in the map f; a unit confirmed before is confirmed anew.
Confirm(cs, b, f, t) ==
    LET new == {[file |-> b[f[k]].file, chunk |-> b[f[k]].chunk,
                 total |-> b[f[k]].total, hash |-> Keccak(b[k].data),
                 block |-> txs[t].block] : k \in DOMAIN b}
    IN new \union {c \in cs : \A n \in new : Key(n) # Key(c)}

FileChunks(cs, i) == {c \in cs : c.file = i}

\* buildManifestEntries gives up on a file none of whose chunks is confirmed.
MissingChunksOf(fs, cs) == {i \in DOMAIN fs : FileChunks(cs, i - 1) = {}}

PartBefore(c, d) == c.chunk < d.chunk

\* buildManifestEntries: the labels, when there are any, become file names.
ManifestOf(fs, ls, cs) ==
    [kind |-> "manifest",
     entries |->
        [i \in DOMAIN fs |->
            [f |-> IF i \in DOMAIN ls THEN {ls[i]} ELSE {},
             parts |-> LET s == CHOOSE s \in SortedBy(FileChunks(cs, i - 1), PartBefore) : TRUE
                       IN [k \in DOMAIN s |-> [hash |-> s[k].hash, block |-> s[k].block]]]]]

-----------------------------------------------------------------------------
(* The upload *)

Fault == /\ faults < MaxFaults /\ faults' = faults + 1
         /\ UNCHANGED <<uploadsStarted, strays>>

NoFault == UNCHANGED counters

Send(kind, data) ==
    /\ txs' = Append(txs, [kind |-> kind, data |-> data, status |-> "pending",
                           block |-> 0])
    /\ sent' = Len(txs) + 1

\* The node takes a transaction only with the next nonce; a wallet finds it.
NonceAccepted == job.key => nonce = Len(txs)

Goto(p) == /\ pc' = p
           /\ UNCHANGED <<chainVars, txs, progress, job, left, batch, attempt,
                          nonce, sent, confirmed>>

\* startUpload and the head of uploadFiles: the saved units are taken over;
\* the fee is paid unless the upload is resumed.
Begin(fs, ls, key, resume) ==
    /\ pc = "idle" /\ uploadsStarted < MaxUploads
    /\ uploadsStarted' = uploadsStarted + 1
    /\ resume => Matches(progress, fs)
    /\ pc' = IF resume THEN "start" ELSE "fee"
    /\ job' = [files |-> fs, labels |-> ls, key |-> key,
               from |-> {fs} \union (IF resume THEN progress.from ELSE {})]
    /\ strays' = IF resume /\ progress.from # {fs} THEN strays + 1 ELSE strays
    /\ confirmed' = IF resume THEN progress.confirmed ELSE {}
    /\ UNCHANGED <<chainVars, txs, progress, left, batch, attempt, nonce,
                   sent, faults>>

SendFee == /\ pc = "fee"
           /\ Send("fee", << >>)
           /\ pc' = "waitFee"
           /\ UNCHANGED <<chainVars, progress, job, left, batch, attempt,
                          nonce, confirmed, counters>>

\* The fee is mined; only ethers looks whether it was reverted.
FeeMined == /\ pc = "waitFee" /\ txs[sent].status # "pending"
            /\ Goto(IF job.key /\ txs[sent].status = "failed" THEN "error"
                                                              ELSE "start")
            /\ NoFault

\* The first call of the upload: getTransactionCount(pending).
StartBatches ==
    /\ pc = "start"
    /\ pc' = "batches"
    /\ left' = AllUnits(job.files)
    /\ nonce' = IF job.key THEN Len(txs) ELSE nonce
    /\ UNCHANGED <<chainVars, txs, progress, job, batch, attempt, sent,
                   confirmed, counters>>

\* Faulty variant: no batch counts as confirmed already.
AlreadyConfirmedNever(us) == FALSE

\* Every unit of the batch was confirmed by an earlier upload.
AlreadyConfirmed(us) == \A u \in us : \E c \in confirmed : Key(c) = Key(u)

SkipBatch == /\ pc = "batches" /\ left # {}
             /\ AlreadyConfirmed(NextBatch(left))
             /\ left' = left \ NextBatch(left)
             /\ UNCHANGED <<chainVars, txs, progress, pc, job, batch, attempt,
                            nonce, sent, confirmed, counters>>

\* The files of the batch are read.
TakeBatch == /\ pc = "batches" /\ left # {}
             /\ ~AlreadyConfirmed(NextBatch(left))
             /\ batch' \in SortedBy(NextBatch(left), Precedes)
             /\ left' = left \ NextBatch(left)
             /\ attempt' = 1 /\ pc' = "send"
             /\ UNCHANGED <<chainVars, txs, progress, job, nonce, sent,
                            confirmed, counters>>

SendBatch == /\ pc = "send" /\ NonceAccepted
             /\ Send("batch", [k \in DOMAIN batch |-> batch[k].data])
             /\ pc' = "wait"
             /\ UNCHANGED <<chainVars, progress, job, left, batch, attempt,
                            nonce, confirmed, counters>>

\* saveProgress: setItem may fail, which is ignored.
SaveProgress ==
    \/ /\ progress' = [names |-> Names(job.files), confirmed |-> confirmed',
                       from |-> job.from]
       /\ NoFault
    \/ Fault /\ UNCHANGED progress

\* Faulty variant: whatever transaction was sent is taken for confirmed.
BatchConfirmedEarly ==
    /\ pc = "wait"
    /\ \E f \in HashToUnit(batch) :
        confirmed' = Confirm(confirmed, batch, f, sent)
    /\ SaveProgress
    /\ nonce' = IF job.key THEN nonce + 1 ELSE nonce
    /\ pc' = "batches" /\ batch' = << >> /\ attempt' = 0
    /\ UNCHANGED <<chainVars, txs, job, left, sent>>

\* The receipt arrives and is not a revert.
BatchConfirmed ==
    /\ pc = "wait" /\ txs[sent].status = "mined"
    /\ \E f \in HashToUnit(batch) :
        confirmed' = Confirm(confirmed, batch, f, sent)
    /\ SaveProgress
    /\ nonce' = IF job.key THEN nonce + 1 ELSE nonce
    /\ pc' = "batches" /\ batch' = << >> /\ attempt' = 0
    /\ UNCHANGED <<chainVars, txs, job, left, sent>>

\* What makes an attempt fail: the nonce was used by somebody else, the
\* transaction was reverted, or (a fault) it is refused, or its receipt does
\* not come in time, though it may still be mined.
AttemptFails == \/ pc = "send" /\ ~NonceAccepted /\ NoFault
                \/ pc = "wait" /\ txs[sent].status = "failed" /\ NoFault
                \/ pc = "send" /\ Fault
                \/ pc = "wait" /\ txs[sent].status = "pending" /\ Fault

\* Faulty variant: the failed attempt is counted as a used nonce.
RetryBatchNextNonce ==
    /\ attempt < Retries /\ AttemptFails
    /\ pc' = "send" /\ attempt' = attempt + 1
    /\ nonce' = IF job.key THEN nonce + 1 ELSE nonce
    /\ UNCHANGED <<chainVars, txs, progress, job, left, batch, sent, confirmed>>

\* The batch is sent again, with a nonce read anew.
RetryBatch ==
    /\ attempt < Retries /\ AttemptFails
    /\ pc' = "send" /\ attempt' = attempt + 1
    /\ nonce' = IF job.key THEN Len(txs) ELSE nonce
    /\ UNCHANGED <<chainVars, txs, progress, job, left, batch, sent, confirmed>>

BatchFails == attempt = Retries /\ AttemptFails /\ Goto("error")

\* "missing chunks for file index i"
MissingChunks == /\ pc = "batches" /\ left = {}
                 /\ MissingChunksOf(job.files, confirmed) # {}
                 /\ Goto("error") /\ NoFault

SendManifest == /\ pc = "batches" /\ left = {}
                /\ MissingChunksOf(job.files, confirmed) = {}
                /\ NonceAccepted
                /\ Send("manifest", <<ManifestOf(job.files, job.labels, confirmed)>>)
                /\ pc' = "waitManifest"
                /\ UNCHANGED <<chainVars, progress, job, left, batch, attempt,
                               nonce, confirmed, counters>>

\* The manifest is not sent again.
ManifestFails ==
    /\ \/ /\ pc = "batches" /\ left = {} /\ NoFault
          /\ MissingChunksOf(job.files, confirmed) = {} /\ ~NonceAccepted
       \/ pc = "waitManifest" /\ txs[sent].status = "failed" /\ NoFault
       \/ pc = "waitManifest" /\ txs[sent].status = "pending" /\ Fault
    /\ Goto("error")

\* Faulty variant: the upload is complete as soon as the manifest is sent.
ManifestConfirmedEarly ==
    /\ pc = "waitManifest"
    /\ progress' = None
    /\ pc' = "complete"
    /\ UNCHANGED <<chainVars, txs, job, left, batch, attempt, nonce, sent,
                   confirmed, counters>>

\* clearProgress, and onComplete of the page, which WebPage adds.
ManifestConfirmed ==
    /\ pc = "waitManifest" /\ txs[sent].status = "mined"
    /\ progress' = None
    /\ pc' = "complete"
    /\ UNCHANGED <<chainVars, txs, job, left, batch, attempt, nonce, sent,
                   confirmed, counters>>

\* Any call outside the try block rejects: the fee, getTransactionCount (also
\* the one in the catch block), the reading of a file that has changed, the
\* sending of the manifest.
CallFails == /\ \/ pc \in {"fee", "waitFee", "start", "batches"}
                \/ pc = "send" /\ job.key /\ attempt > 1
             /\ Fault /\ Goto("error")

UploadStep == \/ SendFee \/ FeeMined \/ StartBatches \/ SkipBatch \/ TakeBatch
              \/ SendBatch \/ BatchConfirmed \/ RetryBatch \/ BatchFails
              \/ MissingChunks \/ SendManifest \/ ManifestFails \/ CallFails

-----------------------------------------------------------------------------
(* The user, the browser and the chain *)

Forget == /\ job' = NoJob /\ left' = {} /\ batch' = << >> /\ attempt' = 0
          /\ nonce' = 0 /\ sent' = 0 /\ confirmed' = {}

\* Faulty variant: the button leaves the page in the state of the error.
TryAgainStays == /\ pc = "error"
                 /\ pc' = "error" /\ Forget
                 /\ UNCHANGED <<chainVars, txs, progress, counters>>

TryAgain == /\ pc = "error"
            /\ pc' = "idle" /\ Forget
            /\ UNCHANGED <<chainVars, txs, progress, counters>>

\* The page is loaded again: nothing but the browser's storage is left.
Reload == /\ pc # "idle"
          /\ pc' = "idle" /\ Forget /\ Fault
          /\ UNCHANGED <<chainVars, txs, progress>>

\* The saved progress is discarded by the user, or is over 24 hours old.
DropProgress == /\ pc = "idle" /\ progress # None
                /\ progress' = None /\ Fault
                /\ UNCHANGED <<chainVars, txs, uploadVars>>

\* The account is used elsewhere.  (While no upload runs it would change
\* nothing the next one does not read anew.)
OtherTx == /\ pc \notin {"idle", "error", "complete"}
           /\ txs' = Append(txs, [kind |-> "other", data |-> << >>,
                                  status |-> "pending", block |-> 0])
           /\ Fault
           /\ UNCHANGED <<chainVars, progress, uploadVars>>

\* Nonces order the account's transactions.
NextTx(i) == /\ i \in DOMAIN txs /\ txs[i].status = "pending"
             /\ \A j \in 1 .. i - 1 : txs[j].status # "pending"

Settle(i, s, b) == txs' = [txs EXCEPT ![i].status = s, ![i].block = b]

MineTx(i) ==
    /\ NextTx(i)
    /\ Settle(i, "mined", height + 1)
    /\ CASE txs[i].kind = "batch" /\ Len(txs[i].data) = 1 -> Store(txs[i].data[1])
         [] txs[i].kind = "batch" /\ Len(txs[i].data) # 1 -> StoreBatch(txs[i].data)
         [] txs[i].kind = "manifest" -> StoreManifest(Wallet, txs[i].data[1])
         [] OTHER -> height' = height + 1 /\ UNCHANGED <<logs, manifests>>
    /\ UNCHANGED <<progress, uploadVars, counters>>

\* The transaction is mined and reverts, for want of gas.
FailTx(i) == /\ NextTx(i) /\ Fault
             /\ Settle(i, "failed", height)
             /\ UNCHANGED <<chainVars, progress, uploadVars>>

MineSome == \E i \in DOMAIN txs : MineTx(i)
=============================================================================

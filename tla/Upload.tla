------------------------------- MODULE Upload ------------------------------
(***************************************************************************)
(* The CLI's `upload` and `deploy` commands (cli/src/upload.ts) over the   *)
(* storage contract: one process that is started, interrupted and started  *)
(* again on a folder, its state file, and the transactions it has sent.    *)
(*                                                                         *)
(* A file is the sequence of chunks expandFilesToUnits cuts its gzipped    *)
(* bytes into; file names are numbers, so that < is the order of sort().   *)
(* `state.chunks` is a set of records: tx and pos (the transaction and the *)
(* log of its receipt that the record was pushed for) give the order in    *)
(* which the code's array holds them.                                      *)
(***************************************************************************)
EXTENDS EVMFS, Units, FiniteSetsExt

CONSTANTS
    Chunk,              \* contents of chunks
    Size,               \* Size[d]: bytes of chunk d
    LocalSize,          \* bytes of the manifest.json the CLI writes
    MaxBatchBytes,      \* MAX_BATCH_BYTES
    GasLimit,           \* --gas-limit
    ManifestName,       \* the name "manifest.json" in the order of names
    Folders,            \* what the user may put in the folder
    IncludeFilenames,   \* TRUE for `deploy`, FALSE for `upload`
    IsV2,               \* isV2Contract(contractAddress)
    Wallet,             \* the account of --private-key
    None,
    MaxFaults,          \* bound: crashes, cancellations, failed calls
    MaxEdits,           \* bound: changes of the folder by the user
    MaxTxs              \* bound: transactions of the wallet

ASSUME UploadAssumption ==
    /\ Wallet \in Account
    /\ Folders # {}
    /\ \A fs \in Folders : /\ DOMAIN fs \subseteq Nat /\ IsFiniteSet(DOMAIN fs)
                           /\ \A n \in DOMAIN fs : fs[n] \in Seq(Chunk)
    /\ MaxFaults \in Nat /\ MaxEdits \in Nat /\ MaxTxs \in Nat
    /\ IncludeFilenames \in BOOLEAN /\ IsV2 \in BOOLEAN

VARIABLES
    blockIndex,     \* the BlockIndex contract: <<hash, block>> registered
    txs,            \* the wallet's transactions in nonce order
    folder,         \* the folder: file name -> chunks of its gzipped bytes
    disk,           \* the state file: chunks and manifestHash
    pc,             \* where the process is; "idle" when none runs
    files,          \* the files the process read when it started
    remaining,      \* remainingUnits not yet sent, in later batches
    batch,          \* the units of the batch waited for
    chunks,         \* state.chunks
    manifestHash,   \* state.manifestHash
    printed,        \* what the last printResult showed
    faults, edits   \* counters for the bounds

cliVars == <<pc, files, remaining, batch, chunks, manifestHash>>
vars == <<chainVars, blockIndex, txs, folder, disk, cliVars, printed,
          faults, edits>>

-----------------------------------------------------------------------------
(* Units and batches *)

\* The index of a file: its position, from 0, in the sorted file names.
FileIndex(fs, n) == Cardinality({m \in DOMAIN fs : m < n})

\* expandFilesToUnits: the chunks of every file.
AllUnits(fs) ==
    UNION { {[file |-> FileIndex(fs, n), chunk |-> c, total |-> Len(fs[n]),
              data |-> fs[n][c + 1]] : c \in 0 .. Len(fs[n]) - 1}
            : n \in DOMAIN fs }

Bytes(u) == IF u.data \in Chunk THEN Size[u.data] ELSE LocalSize
FileGas(u) == Bytes(u) * 24 + 1750
BatchGas(us) == 21000 + 10000 + MapThenSumSet(FileGas, us)
BatchBytes(us) == MapThenSumSet(Bytes, us)

Fits(us) == \/ Cardinality(us) = 1
            \/ BatchGas(us) <= GasLimit /\ BatchBytes(us) <= MaxBatchBytes

\* packBatches fills each batch with the longest prefix of what is left that
\* fits; a unit too large for any batch is sent alone.
NextBatch(us) ==
    UNION {p \in {us \ {v \in us : Precedes(u, v)} : u \in us} : Fits(p)}

\* Every chunk of a file but its last one has MAX_BATCH_BYTES bytes, which is
\* how expandFilesToUnits cuts: no other unit fits into its batch.
ASSUME CutAssumption ==
    \A fs \in Folders : \A us \in SUBSET AllUnits(fs) :
        Fits(us) => \A u \in us : u.chunk + 1 < u.total => us = {u}

\* state.chunks.push for every Store log of the receipt of transaction t.
Confirmed(b, f, t) ==
    {[file |-> b[f[k]].file, chunk |-> b[f[k]].chunk, total |-> b[f[k]].total,
      hash |-> Keccak(b[k].data), block |-> txs[t].block, tx |-> t, pos |-> k]
     : k \in DOMAIN b}

-----------------------------------------------------------------------------
(* The manifest *)

FileChunks(cs, i) == {c \in cs : c.file = i}

\* Faulty variant: the parts of a file are kept in the order they were
\* confirmed, newest first, instead of being sorted by chunkIndex.
PartBeforeUnsorted(c, d) == c.tx > d.tx \/ (c.tx = d.tx /\ c.pos > d.pos)

PartBefore(c, d) == \/ c.chunk < d.chunk
                    \/ c.chunk = d.chunk /\ c.tx < d.tx
                    \/ c.chunk = d.chunk /\ c.tx = d.tx /\ c.pos < d.pos

\* Faulty variant: one chunk is expected of every file.
MissingSingle(fs, cs) ==
    {n \in DOMAIN fs : Cardinality(FileChunks(cs, FileIndex(fs, n))) # 1}

\* The files whose chunks do not add up.
Missing(fs, cs) ==
    {n \in DOMAIN fs :
        Cardinality(FileChunks(cs, FileIndex(fs, n))) # Len(fs[n])}

\* The sorted chunks of every file, as functions of the file name.
PartLists(fs, cs) ==
    LET lists(n) == SortedBy(FileChunks(cs, FileIndex(fs, n)), PartBefore)
    IN {p \in [DOMAIN fs -> UNION {lists(n) : n \in DOMAIN fs}] :
            \A n \in DOMAIN fs : p[n] \in lists(n)}

\* buildManifest: one entry per file; `upload` leaves the file name out.
BuildManifest(fs, p) ==
    [kind |-> "manifest",
     entries |-> {[index |-> FileIndex(fs, n),
                   f |-> IF IncludeFilenames THEN {n} ELSE {},
                   parts |-> [k \in DOMAIN p[n] |->
                        [hash |-> p[n][k].hash, block |-> p[n][k].block]]]
                  : n \in DOMAIN fs}]

\* What saveLocalManifest writes to manifest.json: a small file of its own.
LocalManifest(cs) == [kind |-> "local", entries |-> {c.hash : c \in cs}]

\* The block of state.chunks[0].
FirstBlock(cs) ==
    IF cs = {} THEN 0
    ELSE (CHOOSE c \in cs : \A d \in cs : \/ c.tx < d.tx
                                          \/ c.tx = d.tx /\ c.pos <= d.pos).block

-----------------------------------------------------------------------------
(* The process *)

NoState == [chunks |-> {}, manifestHash |-> None]

Exit == /\ pc' = "idle"
        /\ files' = << >> /\ remaining' = {} /\ batch' = << >>
        /\ chunks' = {} /\ manifestHash' = None

Init == /\ ChainInit
        /\ blockIndex = {} /\ txs = << >>
        /\ folder \in Folders
        /\ disk = NoState
        /\ pc = "idle" /\ files = << >> /\ remaining = {} /\ batch = << >>
        /\ chunks = {} /\ manifestHash = None
        /\ printed = None /\ faults = 0 /\ edits = 0

\* Entries of the state file the present chunking still has.
Valid(cs, us) == {c \in cs : \E u \in us : /\ Key(u) = Key(c)
                                           /\ u.total = c.total}

\* The units without an entry in the state.
Unconfirmed(us, cs) == {u \in us : \A c \in cs : Key(c) # Key(u)}

\* printResult / printDeployResult, and the process ends.
PrintResult(fs, cs, h) ==
    printed' = [files |-> fs, block |-> FirstBlock(cs), hash |-> h]

\* The command is run: it reads the folder and the state file, drops stale
\* entries, and stops at once if nothing is left to do.
Start ==
    /\ pc = "idle" /\ DOMAIN folder # {}
    /\ LET us == AllUnits(folder)
           cs == Valid(disk.chunks, us)
       IN IF Unconfirmed(us, cs) = {} /\ disk.manifestHash # None
          THEN /\ PrintResult(folder, cs, disk.manifestHash)
               /\ UNCHANGED cliVars
          ELSE /\ pc' = "prompt"
               /\ files' = folder
               /\ remaining' = Unconfirmed(us, cs)
               /\ chunks' = cs
               /\ manifestHash' = disk.manifestHash
               /\ UNCHANGED <<batch, printed>>
    /\ UNCHANGED <<chainVars, blockIndex, txs, folder, disk, faults, edits>>

\* "Proceed with upload? (y/N)" is answered y.
Proceed == /\ pc = "prompt"
           /\ pc' = "batch"
           /\ UNCHANGED <<chainVars, blockIndex, txs, folder, disk, files,
                          remaining, batch, chunks, manifestHash, printed,
                          faults, edits>>

\* A transaction is handed to the node; it takes the wallet's next nonce.
Send(kind, data, ref) ==
    /\ Len(txs) < MaxTxs
    /\ txs' = Append(txs, [kind |-> kind, data |-> data, ref |-> ref,
                           status |-> "pending", block |-> 0])

\* store or storeBatch of the next batch.
SendBatch ==
    /\ pc = "batch" /\ remaining # {}
    /\ \E b \in SortedBy(NextBatch(remaining), Precedes) :
        /\ Send("batch", [k \in DOMAIN b |-> b[k].data], None)
        /\ batch' = b
    /\ remaining' = remaining \ NextBatch(remaining)
    /\ pc' = "wait"
    /\ UNCHANGED <<chainVars, blockIndex, folder, disk, files, chunks,
                   manifestHash, printed, faults, edits>>

\* Faulty variant: the chunks are recorded when the transaction has been
\* sent, without waiting for its receipt.
BatchConfirmedEarly ==
    /\ pc = "wait"
    /\ \E f \in HashToUnit(batch) :
        chunks' = chunks \union Confirmed(batch, f, Len(txs))
    /\ disk' = [chunks |-> chunks', manifestHash |-> manifestHash]
    /\ pc' = "batch" /\ batch' = << >>
    /\ UNCHANGED <<chainVars, blockIndex, txs, folder, files, remaining,
                   manifestHash, printed, faults, edits>>

\* Faulty variant: the state is saved at the end of the run only.
BatchConfirmedUnsaved ==
    /\ pc = "wait" /\ txs[Len(txs)].status = "mined"
    /\ \E f \in HashToUnit(batch) :
        chunks' = chunks \union Confirmed(batch, f, Len(txs))
    /\ pc' = "batch" /\ batch' = << >>
    /\ UNCHANGED <<chainVars, blockIndex, txs, folder, disk, files, remaining,
                   manifestHash, printed, faults, edits>>

\* tx.wait() resolves: the chunks are recorded and the state is saved.
BatchConfirmed ==
    /\ pc = "wait" /\ txs[Len(txs)].status = "mined"
    /\ \E f \in HashToUnit(batch) :
        chunks' = chunks \union Confirmed(batch, f, Len(txs))
    /\ disk' = [chunks |-> chunks', manifestHash |-> manifestHash]
    /\ pc' = "batch" /\ batch' = << >>
    /\ UNCHANGED <<chainVars, blockIndex, txs, folder, files, remaining,
                   manifestHash, printed, faults, edits>>

\* tx.wait() rejects: the state is saved and the process exits.
BatchReverted ==
    /\ pc = "wait" /\ txs[Len(txs)].status = "failed"
    /\ disk' = [chunks |-> chunks, manifestHash |-> manifestHash]
    /\ Exit
    /\ UNCHANGED <<chainVars, blockIndex, txs, folder, printed, faults, edits>>

\* All batches are done, the manifest is not, and some file's chunks do not
\* add up: "Error: N files missing chunks. Re-run to retry."
MissingChunks ==
    /\ pc = "batch" /\ remaining = {} /\ manifestHash = None
    /\ Missing(files, chunks) # {}
    /\ Exit
    /\ UNCHANGED <<chainVars, blockIndex, txs, folder, disk, printed,
                   faults, edits>>

SendManifest ==
    /\ pc = "batch" /\ remaining = {} /\ manifestHash = None
    /\ Missing(files, chunks) = {}
    /\ \E p \in PartLists(files, chunks) :
        Send("manifest", <<BuildManifest(files, p)>>, None)
    /\ pc' = "waitManifest"
    /\ UNCHANGED <<chainVars, blockIndex, folder, disk, files, remaining,
                   batch, chunks, manifestHash, printed, faults, edits>>

\* Faulty variant: the manifest counts as stored as soon as it is sent.
ManifestConfirmedEarly ==
    /\ pc = "waitManifest"
    /\ manifestHash' = Keccak(txs[Len(txs)].data[1])
    /\ disk' = [chunks |-> chunks, manifestHash |-> manifestHash']
    /\ pc' = "local"
    /\ UNCHANGED <<chainVars, blockIndex, txs, folder, files, remaining,
                   batch, chunks, printed, faults, edits>>

ManifestConfirmed ==
    /\ pc = "waitManifest" /\ txs[Len(txs)].status = "mined"
    /\ manifestHash' = Keccak(txs[Len(txs)].data[1])
    /\ disk' = [chunks |-> chunks, manifestHash |-> manifestHash']
    /\ pc' = "local"
    /\ UNCHANGED <<chainVars, blockIndex, txs, folder, files, remaining,
                   batch, chunks, printed, faults, edits>>

\* tx.wait() rejects outside the try block: the process dies.
ManifestReverted ==
    /\ pc = "waitManifest" /\ txs[Len(txs)].status = "failed"
    /\ Exit
    /\ UNCHANGED <<chainVars, blockIndex, txs, folder, disk, printed,
                   faults, edits>>

\* saveLocalManifest writes manifest.json into the folder just uploaded.
SaveLocalManifest ==
    /\ pc = "local"
    /\ folder' = [n \in DOMAIN folder \union {ManifestName} |->
                    IF n = ManifestName THEN <<LocalManifest(chunks)>>
                    ELSE folder[n]]
    /\ pc' = IF IsV2 THEN "print" ELSE "index"
    /\ UNCHANGED <<chainVars, blockIndex, txs, disk, files, remaining, batch,
                   chunks, manifestHash, printed, faults, edits>>

\* Faulty variant: the block registered is that of the first chunk.
SendIndexFirstBlock ==
    /\ pc = "index"
    /\ Send("index", << >>, [hash |-> manifestHash, block |-> FirstBlock(chunks)])
    /\ pc' = "waitIndex"
    /\ UNCHANGED <<chainVars, blockIndex, folder, disk, files, remaining,
                   batch, chunks, manifestHash, printed, faults, edits>>

\* registerInBlockIndex with the block of the manifest's receipt.
SendIndex ==
    /\ pc = "index"
    /\ Send("index", << >>,
            [hash |-> manifestHash, block |-> txs[Len(txs)].block])
    /\ pc' = "waitIndex"
    /\ UNCHANGED <<chainVars, blockIndex, folder, disk, files, remaining,
                   batch, chunks, manifestHash, printed, faults, edits>>

\* --no-block-index, no index on this chain, or the call is refused.
SkipIndex ==
    /\ pc = "index"
    /\ pc' = "print"
    /\ UNCHANGED <<chainVars, blockIndex, txs, folder, disk, files, remaining,
                   batch, chunks, manifestHash, printed, faults, edits>>

\* The registration is mined or fails; a failure is only logged.
IndexDone ==
    /\ pc = "waitIndex" /\ txs[Len(txs)].status # "pending"
    /\ pc' = "print"
    /\ UNCHANGED <<chainVars, blockIndex, txs, folder, disk, files, remaining,
                   batch, chunks, manifestHash, printed, faults, edits>>

\* The run ends with its summary; with a manifest from an earlier run the
\* chunks just sent are the whole run.
Finish ==
    /\ \/ pc = "print"
       \/ pc = "batch" /\ remaining = {} /\ manifestHash # None
    /\ PrintResult(files, chunks, manifestHash)
    /\ Exit
    /\ UNCHANGED <<chainVars, blockIndex, txs, folder, disk, faults, edits>>

-----------------------------------------------------------------------------
(* What goes wrong *)

Fault == faults < MaxFaults /\ faults' = faults + 1

\* The process is killed, the prompt is answered no, or a call outside the
\* try block rejects: the memory is lost, the state file stays as it is.
Crash ==
    /\ pc # "idle"
    /\ Fault /\ Exit
    /\ UNCHANGED <<chainVars, blockIndex, txs, folder, disk, printed, edits>>

\* The node refuses the transaction, or stops answering while it is waited
\* for: the state is saved and the process exits; what was sent stays sent.
BatchError ==
    /\ pc = "wait" \/ (pc = "batch" /\ remaining # {})
    /\ Fault /\ Exit
    /\ disk' = [chunks |-> chunks, manifestHash |-> manifestHash]
    /\ UNCHANGED <<chainVars, blockIndex, txs, folder, printed, edits>>

\* The user changes the folder.
EditFolder ==
    /\ edits < MaxEdits /\ edits' = edits + 1
    /\ folder' \in Folders
    /\ UNCHANGED <<chainVars, blockIndex, txs, disk, cliVars, printed, faults>>

-----------------------------------------------------------------------------
(* The chain *)

\* Nonces order the wallet's transactions: only the first pending one can be
\* mined.
NextTx(i) == /\ i \in DOMAIN txs /\ txs[i].status = "pending"
             /\ \A j \in 1 .. i - 1 : txs[j].status # "pending"

Settle(i, s, b) == txs' = [txs EXCEPT ![i].status = s, ![i].block = b]

MineBatch(i) == /\ NextTx(i) /\ txs[i].kind = "batch"
                /\ IF Len(txs[i].data) = 1 THEN Store(txs[i].data[1])
                                           ELSE StoreBatch(txs[i].data)
                /\ Settle(i, "mined", height + 1)
                /\ UNCHANGED <<blockIndex, folder, disk, cliVars, printed,
                               faults, edits>>

MineManifest(i) == /\ NextTx(i) /\ txs[i].kind = "manifest"
                   /\ StoreManifest(Wallet, txs[i].data[1])
                   /\ Settle(i, "mined", height + 1)
                   /\ UNCHANGED <<blockIndex, folder, disk, cliVars, printed,
                                  faults, edits>>

\* EVMFSBlockIndex.register: only for a known manifest of the caller, once,
\* and not for a block that is not there yet.
MayIndex(ref) == /\ Uploader(ref.hash) = Wallet
                 /\ ref.block \in 1 .. height
                 /\ \A r \in blockIndex : r.hash # ref.hash

MineIndex(i) == /\ NextTx(i) /\ txs[i].kind = "index"
                /\ height' = height + 1
                /\ UNCHANGED <<logs, manifests>>
                /\ IF MayIndex(txs[i].ref)
                   THEN /\ blockIndex' = blockIndex \union {txs[i].ref}
                        /\ Settle(i, "mined", height + 1)
                   ELSE /\ Settle(i, "failed", height + 1)
                        /\ UNCHANGED blockIndex
                /\ UNCHANGED <<folder, disk, cliVars, printed, faults, edits>>

\* The transaction runs out of gas, or is dropped and replaced.
FailTx(i) == /\ NextTx(i)
             /\ Fault
             /\ Settle(i, "failed", height)
             /\ UNCHANGED <<chainVars, blockIndex, folder, disk, cliVars,
                            printed, edits>>

Mine == \E i \in DOMAIN txs : MineBatch(i) \/ MineManifest(i) \/ MineIndex(i)

CLIStep == \/ Proceed \/ SendBatch \/ BatchConfirmed \/ BatchReverted
           \/ MissingChunks \/ SendManifest \/ ManifestConfirmed
           \/ ManifestReverted \/ SaveLocalManifest \/ SendIndex \/ SkipIndex
           \/ IndexDone \/ Finish

Next == \/ Start \/ CLIStep \/ Mine
        \/ Crash \/ BatchError \/ EditFolder
        \/ \E i \in DOMAIN txs : FailTx(i)

Spec == Init /\ [][Next]_vars

(***************************************************************************)
(* The user runs the command again whenever it has stopped ("Re-run to     *)
(* resume", "Re-run to retry"), a running process takes its steps, and a   *)
(* pending transaction is mined.  Faults and edits are never fair.         *)
(***************************************************************************)
FairSpec == Spec /\ WF_vars(Start) /\ WF_vars(CLIStep) /\ WF_vars(Mine)

-----------------------------------------------------------------------------
(* Properties *)

OnChain(h, b) == \E l \in logs : l.hash = h /\ l.block = b

IsHash(h) == \E d \in {l.data : l \in logs} : h = Keccak(d)

States == {"idle", "prompt", "batch", "wait", "waitManifest", "local",
           "index", "waitIndex", "print"}

\* Types, and the links between the parts of the state: what is waited for is
\* a transaction of the right kind, and only hashes of stored data are saved.
TypeOK ==
    /\ height \in Nat
    /\ \A l \in logs : l.block \in 1 .. height /\ l.hash = Keccak(l.data)
    /\ \A h \in DOMAIN manifests : manifests[h] \in Account
    /\ pc \in States
    /\ \A i \in DOMAIN txs :
        /\ txs[i].kind \in {"batch", "manifest", "index"}
        /\ txs[i].status \in {"pending", "mined", "failed"}
        /\ txs[i].block \in 0 .. height
    /\ pc = "wait" => txs # << >> /\ txs[Len(txs)].kind = "batch"
    /\ pc = "waitManifest" => txs # << >> /\ txs[Len(txs)].kind = "manifest"
    /\ \A h \in {disk.manifestHash, manifestHash} \ {None} : IsHash(h)
    /\ faults \in 0 .. MaxFaults /\ edits \in 0 .. MaxEdits

\* Every chunk the state file or the running process counts as uploaded has
\* its Store log on chain, in the very block that is recorded for it.
RecordedOnChain ==
    \A c \in disk.chunks \union chunks : OnChain(c.hash, c.block)

\* Whatever manifest is on chain, every chunk it lists is on chain too, in the
\* listed block, and that block is older than the manifest's.  (The runs check
\* it as part of Publishes; UploadProofs proves it on its own.)
ManifestRefsOnChain ==
    \A l \in logs : l.data \notin Chunk /\ l.data.kind = "manifest" =>
        \A e \in l.data.entries : \A k \in DOMAIN e.parts :
            /\ OnChain(e.parts[k].hash, e.parts[k].block)
            /\ e.parts[k].block < l.block

\* The manifest m lists exactly the files of fs in their order, each with the
\* hashes of its chunks in order.
Describes(m, fs) ==
    /\ {e.index : e \in m.entries} = {FileIndex(fs, n) : n \in DOMAIN fs}
    /\ \A n \in DOMAIN fs : \A e \in m.entries : e.index = FileIndex(fs, n) =>
        /\ IncludeFilenames => e.f = {n}
        /\ [k \in DOMAIN e.parts |-> e.parts[k].hash]
             = [k \in DOMAIN fs[n] |-> Keccak(fs[n][k])]

UserFiles(fs) == [n \in DOMAIN fs \ {ManifestName} |-> fs[n]]

\* The manifest describes the folder as the user had filled it, which differs
\* from what is there now by the manifest.json the command writes.
DescribesFolder(m) ==
    \E fs \in Folders : UserFiles(fs) = UserFiles(folder) /\ Describes(m, fs)

\* As long as the user leaves the folder alone, every manifest that reaches
\* the chain, through whatever crashes and repeated runs, describes it: no
\* chunk is missing, in the wrong place or another one's, even if chunks with
\* the same bytes were taken for each other.
ManifestFaithful ==
    edits = 0 => \A l \in logs : l.data \notin Chunk /\ l.data.kind = "manifest" =>
                    DescribesFolder(l.data)

\* Until the manifest is saved, a fault costs at most the one transaction in
\* flight: every other batch that was sent is in the state file and is not
\* sent again.
FaultCostsOneBatch ==
    edits = 0 /\ disk.manifestHash = None =>
        Cardinality({i \in DOMAIN txs : /\ txs[i].kind = "batch"
                                        /\ \A c \in disk.chunks : c.tx # i})
            <= faults + (IF pc = "wait" THEN 1 ELSE 0)

\* The block registered in the block index is one where the manifest's bytes
\* can be read.
IndexPointsAtManifest == \A r \in blockIndex : OnChain(r.hash, r.block)

\* "Re-run to retry": a user who keeps running the command ends up with a
\* stored manifest.
EventuallyComplete == <>[](disk.manifestHash # None)

DistinctChunks(fs) ==
    \A u, v \in AllUnits(fs) : u.data = v.data => Key(u) = Key(v)

\* Two entries for one chunk: what a batch with two equal chunks leaves in the
\* state file.  No later run removes them, whatever the folder becomes.
DoubleEntry == \E x, y \in disk.chunks : x # y /\ Key(x) = Key(y)

\* The same, through crashes, failed calls and edits of the folder, unless two
\* chunks have the same bytes, or once had: those two may share a batch, and
\* EventuallyComplete says what happens then.
CompleteUnlessTwins ==
    <>[](disk.manifestHash # None \/ ~DistinctChunks(folder) \/ DoubleEntry)

\* The manifest a finished run prints describes the files this run was given.
PrintedIsFaithful ==
    printed # None => Describes(printed.hash.keccak, UserFiles(printed.files))

-----------------------------------------------------------------------------
(* What the uploader promises *)

\* A manifest is published when its storeManifest is mined.
Published == {i \in DOMAIN txs : txs[i].kind = "manifest" /\ txs[i].status = "mined"}

Refs(m) == UNION { {<<e.parts[k].hash, e.parts[k].block>> : k \in DOMAIN e.parts}
                   : e \in m.entries }

\* The chain and the state file, as readers of the manifests see them.
Pub == INSTANCE Publishing WITH
            NoManifest <- None,
            stored <- {<<l.hash, l.block>> : l \in logs},
            published <- {[id |-> Keccak(txs[i].data[1]), refs |-> Refs(txs[i].data[1])]
                            : i \in Published},
            announced <- disk.manifestHash

\* Batches, crashes, repeated runs and edits of the folder implement the
\* abstract publisher: no manifest ever reaches the chain before the chunks it
\* lists, and the state file never names one that is not there.
Publishes == Pub!Spec
=============================================================================

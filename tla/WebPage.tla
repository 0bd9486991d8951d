------------------------------ MODULE WebPage -------------------------------
(***************************************************************************)
(* The web page (web/src/App.tsx with FileDropzone.tsx and                 *)
(* useFileProcessor.ts): the selection of files, the buttons that start,   *)
(* resume and retry an upload, and what a finished upload leaves in the    *)
(* history.  It composes WebUpload and WebHistory.                         *)
(*                                                                         *)
(* A selection is a set of files.  Dropping a folder reads its tree        *)
(* asynchronously, and whether the page may take files is looked at only   *)
(* when the drop begins, so a selection may be replaced while an upload of *)
(* the former one runs.                                                    *)
(***************************************************************************)
EXTENDS WebUpload, WebHistory

CONSTANTS
    Selections,         \* what the user may select: sets of files
    DeploySite,         \* bound: whether the page is set to deploy a folder
    MaxReselections,    \* bound: selections made when there is one
    MaxBatches          \* the most batches a selection is packed into

\* The files of a selection come from one folder: their paths differ.
ASSUME SelectionsAssumption ==
    \A S \in Selections :
        /\ S # {} /\ IsFiniteSet(S)
        /\ S \subseteq [name : Nat, path : Nat, chunks : Seq(Chunk)]
        /\ \A f, g \in S : f.path = g.path => f = g

VARIABLES result,       \* the files useFileProcessor holds and the labels that
                        \* go with them; None before the first selection
          reselections, \* counter for the bound
          completed     \* uploads completed so far; numbers the history's ids

pageVars == <<result, reselections, completed>>
vars == <<webUploadVars, historyVars, pageVars>>

ByName(f, g) == f.name < g.name \/ (f.name = g.name /\ f.path < g.path)
ByPath(f, g) == f.path < g.path

\* handleFiles and processFiles: the files are sorted by name; the labels for
\* the deployment of a folder are the paths, in the order of the paths.
Processed == [S \in Selections |->
    [files |-> CHOOSE s \in SortedBy(S, ByName) : TRUE,
     labels |-> LET s == CHOOSE s \in SortedBy(S, ByPath) : TRUE
                IN [i \in DOMAIN s |-> s[i].path]]]

\* C holds what is left of the units us before each batch is taken.
Packing(C, us) ==
    us \in C \union {{}} /\ \A l \in C : l \ NextBatch(l) \in C \union {{}}

ASSUME BatchesAssumption ==
    /\ MaxBatches \in Nat /\ DeploySite \subseteq BOOLEAN
    /\ \A S \in Selections :
        LET us == AllUnits(Processed[S].files)
        IN \E C \in SUBSET SUBSET us : Packing(C, us) /\ Cardinality(C) <= MaxBatches

Init == /\ WebUploadInit /\ HistoryInit
        /\ result = None /\ reselections = 0 /\ completed = 0

Reselect == /\ reselections < MaxReselections
            /\ reselections' = reselections + 1

\* Files chosen or dropped are handed over: at once from the picker, and when
\* its tree has been read, whatever goes on by then, from a dropped folder.
HandOver == /\ IF result = None THEN UNCHANGED reselections ELSE Reselect
            /\ \E S \in Selections : result' = Processed[S]
            /\ result' # result /\ pc # "complete"
            /\ UNCHANGED <<webUploadVars, historyVars, completed>>

\* The buttons "Upload" and "Resume", with either signing method.  The labels
\* are used if the page is set to deploy a folder, and was so when the files
\* were handed over.
Start == /\ result # None
         /\ \E key, resume \in BOOLEAN, site \in DeploySite :
                Begin(result.files, IF site THEN result.labels ELSE << >>, key, resume)
         /\ UNCHANGED <<historyVars, pageVars>>

\* Faulty variant: the entry lists the files selected when the upload ends.
HistoryFilesLate == result.files

\* onComplete was made by startUpload: it lists the files captured then.
HistoryFiles == job.files

\* What onComplete saves: the manifest, the block in the base URI, and the
\* first hash of each entry of the manifest.
HistoryEntry(m, b) ==
    [hash |-> Keccak(m), block |-> b, label |-> FirstLabel,
     files |-> [i \in DOMAIN HistoryFiles |->
                    [name |-> HistoryFiles[i].name,
                     hash |-> IF i \in DOMAIN m.entries
                              THEN m.entries[i].parts[1].hash ELSE None]]]

Complete == /\ ManifestConfirmed
            /\ SaveUpload(completed + 1,
                          HistoryEntry(txs[sent].data[1], txs[sent].block))
            /\ completed' = completed + 1
            /\ UNCHANGED <<result, reselections>>

Run == UploadStep /\ UNCHANGED <<historyVars, pageVars>>

Mine == MineSome /\ UNCHANGED <<historyVars, pageVars>>

\* Loading the page again also forgets the selection; the user hands over the
\* same files once more, or others (HandOver).
Disturb == \/ (TryAgain \/ DropProgress \/ OtherTx \/ \E i \in DOMAIN txs : FailTx(i))
              /\ UNCHANGED <<historyVars, pageVars>>
           \/ Reload /\ Remount /\ UNCHANGED pageVars

\* The user turns to the history when an upload is complete: at other times
\* nothing the changes read or write is touched by the upload.  (Bound: changes
\* and faults together.)
History == /\ \/ HistoryStep
              \/ pc = "complete" /\ faults + changes < MaxFaults /\ (Rename \/ Remove)
           /\ UNCHANGED <<webUploadVars, pageVars>>

Next == HandOver \/ Start \/ Run \/ Complete \/ Mine
        \/ Disturb \/ History

Spec == Init /\ [][Next]_vars

\* After an error the user tries again.
Retry == TryAgain /\ UNCHANGED <<historyVars, pageVars>>

(***************************************************************************)
(* While the page or the chain can go on, one of them does: the browser    *)
(* runs the page's calls and pending transactions are mined.  While the    *)
(* user can, the user selects something, presses a button that is there to *)
(* start an upload, or tries again after an error.  Nothing that goes      *)
(* wrong is fair.                                                          *)
(***************************************************************************)
FairSpec == /\ Spec
            /\ WF_vars(Run \/ Complete \/ Mine)
            /\ WF_vars((result = None /\ HandOver) \/ Start \/ Retry)

-----------------------------------------------------------------------------
(* Properties *)

States == {"idle", "fee", "waitFee", "start", "batches", "send", "wait",
           "waitManifest", "complete", "error"}

\* The type invariant, with the links between the parts of the state.
TypeOK ==
    /\ pc \in States /\ faults \in 0 .. MaxFaults /\ changes \in 0 .. MaxChanges
    /\ \A i \in DOMAIN txs : /\ txs[i].kind \in {"fee", "batch", "manifest", "other"}
                             /\ txs[i].status \in {"pending", "mined", "failed"}
                             /\ txs[i].block \in 0 .. height
    /\ pc \in {"idle", "error"} \/ job.files # << >>
    /\ pc = "wait" => sent \in DOMAIN txs /\ txs[sent].kind = "batch"
    /\ pc = "waitManifest" => sent \in DOMAIN txs /\ txs[sent].kind = "manifest"
    /\ pc \in {"send", "wait"} => batch # << >> /\ attempt \in 1 .. Retries
    /\ completed \in Nat /\ DOMAIN db \subseteq 1 .. completed

OnChain(h, b) == \E l \in logs : l.hash = h /\ l.block = b

\* Every unit the page or the browser's storage holds for confirmed is on
\* chain in the block recorded for it, although an attempt may time out, be
\* sent again, and be mined twice.
ConfirmedOnChain ==
    \A c \in confirmed \union (IF progress = None THEN {} ELSE progress.confirmed) :
        OnChain(c.hash, c.block)

IsManifest(l) == l.data \notin Chunk

\* The units that may share a batch with another one of the same bytes: the log
\* of the one may be taken for that of the other.
Twins(fs) == {u \in AllUnits(fs) : \E us \in SUBSET AllUnits(fs) :
                u \in us /\ Fits(us) /\ \E v \in us \ {u} : v.data = u.data}

\* The parts ps of file i of fs are chunks of that file in ascending order, as
\* they are in some list of files of from, and none is left out but a twin,
\* which is not noticed if there are others.
Lists(ps, i, fs, from) ==
    \E at \in [DOMAIN ps -> UNION {DOMAIN g[i].chunks : g \in from}] :
        /\ \A j, k \in DOMAIN ps : j < k => at[j] < at[k]
        /\ \A k \in DOMAIN ps : \E g \in from :
            at[k] \in DOMAIN g[i].chunks /\ ps[k].hash = Keccak(g[i].chunks[at[k]])
        /\ \A u \in AllUnits(fs) :
            u.file = i - 1 /\ (u \in Twins(fs) => u.total = 1 /\ from = {fs})
                => \E k \in DOMAIN ps : at[k] = u.chunk + 1

\* The manifest m lists the files of S, each with its chunks in order, and
\* either no file has a label or each that of its place.
Describes(m, S, from) ==
    LET fs == Processed[S].files
    IN /\ DOMAIN m.entries = DOMAIN fs
       /\ \A i \in DOMAIN fs : Lists(m.entries[i].parts, i, fs, from)
       /\ \/ \A i \in DOMAIN fs : m.entries[i].f = {}
          \/ \A i \in DOMAIN fs : m.entries[i].f = {Processed[S].labels[i]}

\* What the user may select under the names of S.
Namesakes(S) == {g \in {Processed[T].files : T \in Selections} :
                    Names(g) = Names(Processed[S].files)}

\* Through retries, time-outs, reloads, resumed uploads and changes of the
\* selection, every manifest that is sent describes the selection of its
\* upload, chunk by chunk, and holds bytes of others only if the upload went on
\* from the progress of files with the very same names.  Where it did not, and
\* no two units of a batch are twins, it lists exactly the chunks of the files.
ManifestFaithful ==
    pc \in {"waitManifest", "complete"} =>
        \E S \in Selections :
            /\ job.files = Processed[S].files
            /\ Describes(txs[sent].data[1], S, job.from \intersect Namesakes(S))

\* "The manifest entry uses a p (parts) field listing each chunk in order"
\* (web/src/components/Docs.tsx): each chunk of the file that is uploaded.
EveryChunkInOrder ==
    pc = "waitManifest" =>
        \A i \in DOMAIN job.files :
            LET ps == txs[sent].data[1].entries[i].parts
            IN [k \in DOMAIN ps |-> ps[k].hash]
                 = [k \in DOMAIN job.files[i].chunks |-> Keccak(job.files[i].chunks[k])]

\* An upload that is signed by the page never uses a nonce beyond the next: a
\* transaction with such a nonce would wait for ever.
NonceNeverAhead == job.key => nonce <= Len(txs)

Sent(kind) == {i \in DOMAIN txs : txs[i].kind = kind}

EqualChunks(i) == \E j, k \in DOMAIN txs[i].data :
                    j # k /\ txs[i].data[j] = txs[i].data[k]

\* A batch is paid for again only after something went wrong: what was saved
\* is skipped by the upload that resumes, and the fee is paid once for all of
\* them.  Files that resume the progress of others with the same names may cost
\* a whole upload, for no fee.  (A batch with two equal chunks is never wholly
\* confirmed.)
ResumeIsCheap ==
    (\A i \in Sent("batch") : ~EqualChunks(i)) =>
        Cardinality(Sent("batch"))
            <= (Cardinality(Sent("fee")) + strays) * MaxBatches + faults

\* A manifest is published when its storeManifest is mined.
Published == {i \in Sent("manifest") : txs[i].status = "mined"}

\* Every entry of the history names a manifest the page published, on chain in
\* the block of its base URI, and lists the files of that manifest, which are
\* those of one selection (but for what ManifestFaithful says of namesakes).
HistoryFaithful ==
    \A id \in DOMAIN db : \E i \in Published :
        LET m == txs[i].data[1]
        IN /\ db[id].hash = Keccak(m) /\ db[id].block = txs[i].block
           /\ OnChain(db[id].hash, db[id].block)
           /\ \E S \in Selections :
                /\ [k \in DOMAIN db[id].files |-> db[id].files[k].name]
                     = Names(Processed[S].files)
                /\ Describes(m, S, Namesakes(S))
           /\ \A k \in DOMAIN db[id].files :
                db[id].files[k].hash = m.entries[k].parts[1].hash

\* A deleted entry never comes back, though it may be renamed meanwhile, and
\* when nothing is under way the list shows what is stored.
HistoryKept == /\ removed \intersect DOMAIN db = {}
               /\ ops = << >> => uploads = db

\* The user who goes on pressing the buttons stores a manifest, unless two
\* files of a batch have the same bytes.
EventuallyStored ==
    <>((\E l \in logs : IsManifest(l)) \/ \E i \in Sent("batch") : EqualChunks(i))

\* "Must use { numeric: true } to match useFileProcessor's sort, otherwise
\* filename labels and uploaded content end up at mismatched indices."
LabelsMatch ==
    \A l \in logs : IsManifest(l) =>
        \A i \in DOMAIN l.data.entries : \A p \in l.data.entries[i].f :
            \E S \in Selections : \E f \in S :
                /\ f.path = p
                /\ Keccak(f.chunks[1]) = l.data.entries[i].parts[1].hash

-----------------------------------------------------------------------------
(* What the page promises *)

Refs(m) == UNION { {<<m.entries[i].parts[k].hash, m.entries[i].parts[k].block>>
                      : k \in DOMAIN m.entries[i].parts} : i \in DOMAIN m.entries }

Pub == INSTANCE Publishing WITH
            NoManifest <- None,
            stored <- {<<l.hash, l.block>> : l \in logs},
            published <- {[id |-> Keccak(txs[i].data[1]), refs |-> Refs(txs[i].data[1])]
                            : i \in Published},
            announced <- IF pc = "complete" THEN Keccak(txs[sent].data[1]) ELSE None

\* Whatever is retried, resumed or reloaded, the page implements the abstract
\* publisher: a manifest is on chain only after the chunks it lists, and "Upload
\* complete" is shown only for a manifest that is.
Publishes == Pub!Spec
=============================================================================

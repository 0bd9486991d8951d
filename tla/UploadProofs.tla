---------------------------- MODULE UploadProofs ----------------------------
(***************************************************************************)
(* Proofs about Upload, for every folder, chunk size, gas limit and number *)
(* of faults: what the state file counts as uploaded is on chain, every    *)
(* manifest on chain refers only to older content and describes the folder *)
(* it was made of, and the block index holds blocks in which the manifest  *)
(* can be read; a fault costs at most one batch; and the command           *)
(* implements the abstract publisher.                                      *)
(*                                                                         *)
(* None of these is inductive.  What carries them is that the receipt      *)
(* a run waits for is the receipt of the batch it holds in memory          *)
(* (WaitInv, LocalInv), that a mined transaction has its logs on chain     *)
(* (MinedInv), and that a manifest is only sent over recorded chunks, so   *)
(* its references are on chain before it is (ManifestTxInv), however long  *)
(* it stays pending and whether or not its sender is still running.        *)
(*                                                                         *)
(* That every manifest describes the folder rests on more: the receipt     *)
(* maps equal chunks of a batch to one unit, so the state file may hold    *)
(* wrong entries.  FaithInv says what then saves the manifest: the file    *)
(* whose entry is doubled is itself complete, hence has one entry too many *)
(* for ever, and no run gets past the test for missing chunks (Blocked).   *)
(***************************************************************************)
EXTENDS Upload, FiniteSetTheorems, SequenceTheorems, WellFoundedInduction, TLAPS

\* Data that is no manifest: the chunks, and a manifest.json picked up again.
Plain(x) == x \in Chunk \/ x.kind = "local"

FolderInv ==
    /\ IsFiniteSet(DOMAIN folder)
    /\ \A n \in DOMAIN folder :
        /\ Len(folder[n]) \in Nat
        /\ \A k \in 1 .. Len(folder[n]) : Plain(folder[n][k])

RemainingInv == /\ IsFiniteSet(remaining)
                /\ \A u \in remaining : Plain(u.data)

\* txs is a sequence of transactions; what they carry does not matter.
Tx(D, R) == [kind : {"batch", "manifest", "index"}, data : D, ref : R,
             status : {"pending", "mined", "failed"}, block : Nat]

TxsSeq == \E D, R : txs \in Seq(Tx(D, R))

TxsInv == /\ height \in Nat
          /\ \A i \in DOMAIN txs : txs[i].block \in 0 .. height

BatchTxInv == \A i \in DOMAIN txs : txs[i].kind = "batch" =>
                /\ Len(txs[i].data) \in Nat
                /\ DOMAIN txs[i].data = 1 .. Len(txs[i].data)
                /\ \A k \in DOMAIN txs[i].data : Plain(txs[i].data[k])

\* The references of manifest m are on chain, in blocks up to h.
RefsOld(m, h) == \A e \in m.entries : \A k \in DOMAIN e.parts :
                    /\ OnChain(e.parts[k].hash, e.parts[k].block)
                    /\ e.parts[k].block \in 0 .. h

ManifestTxInv == \A i \in DOMAIN txs : txs[i].kind = "manifest" =>
                    /\ DOMAIN txs[i].data = {1}
                    /\ RefsOld(txs[i].data[1], height)

IndexTxInv == \A i \in DOMAIN txs : txs[i].kind = "index" =>
                /\ DOMAIN txs[i].data = {}
                /\ OnChain(txs[i].ref.hash, txs[i].ref.block)

MinedInv == \A i \in DOMAIN txs : txs[i].status = "mined" =>
                \A k \in DOMAIN txs[i].data :
                    Log(txs[i].data[k], txs[i].block) \in logs

WaitInv == pc = "wait" =>
            /\ Len(txs) \in DOMAIN txs
            /\ DOMAIN batch = DOMAIN txs[Len(txs)].data
            /\ \A k \in DOMAIN batch : batch[k].data = txs[Len(txs)].data[k]

LocalInv ==
    /\ pc = "waitManifest" => /\ Len(txs) \in DOMAIN txs
                              /\ txs[Len(txs)].kind = "manifest"
    /\ pc \in {"local", "index"} =>
        /\ Len(txs) \in DOMAIN txs
        /\ txs[Len(txs)].kind = "manifest"
        /\ txs[Len(txs)].status = "mined"
        /\ manifestHash = Keccak(txs[Len(txs)].data[1])

RecordedInv == /\ RecordedOnChain
               /\ \A c \in disk.chunks \union chunks : c.block \in 0 .. height

\* The part of the state that only a transaction or its sender touches.
SentInv == TxsInv /\ BatchTxInv /\ ManifestTxInv /\ IndexTxInv /\ MinedInv

IInv == /\ TxsSeq /\ SentInv
        /\ FolderInv /\ RemainingInv
        /\ WaitInv /\ LocalInv
        /\ RecordedInv /\ ManifestRefsOnChain /\ IndexPointsAtManifest

-----------------------------------------------------------------------------
(* Lemmas about the sequence of transactions *)

\* Sending appends one pending transaction and changes no other.
LEMMA SendLemma ==
    ASSUME TxsSeq, NEW kind \in {"batch", "manifest", "index"}, NEW data,
           NEW ref, Send(kind, data, ref)
    PROVE  /\ TxsSeq'
           /\ Len(txs) \in Nat /\ DOMAIN txs = 1 .. Len(txs)
           /\ Len(txs)' = Len(txs) + 1
           /\ DOMAIN txs' = DOMAIN txs \union {Len(txs) + 1}
           /\ \A i \in DOMAIN txs : txs'[i] = txs[i]
           /\ txs'[Len(txs) + 1] = [kind |-> kind, data |-> data, ref |-> ref,
                                    status |-> "pending", block |-> 0]
<1> DEFINE r == [kind |-> kind, data |-> data, ref |-> ref,
                 status |-> "pending", block |-> 0]
<1>1. PICK D, R : txs \in Seq(Tx(D, R))
  BY DEF TxsSeq
<1>2. /\ Tx(D, R) \subseteq Tx(D \union {data}, R \union {ref})
      /\ r \in Tx(D \union {data}, R \union {ref})
  BY DEF Tx
<1>3. txs \in Seq(Tx(D \union {data}, R \union {ref}))
  BY <1>1, <1>2, SeqMonotonic
<1> HIDE DEF r
<1>4. txs' = Append(txs, r)
  BY DEF Send, r
<1>5. /\ txs' \in Seq(Tx(D \union {data}, R \union {ref}))
      /\ Len(txs') = Len(txs) + 1
      /\ \A i \in 1 .. Len(txs) : txs'[i] = txs[i]
      /\ txs'[Len(txs) + 1] = r
  <2> DEFINE T == Tx(D \union {data}, R \union {ref})
  <2>1. txs \in Seq(T) /\ r \in T
    BY <1>2, <1>3
  <2> HIDE DEF T
  <2>2. /\ Append(txs, r) \in Seq(T)
        /\ Len(Append(txs, r)) = Len(txs) + 1
        /\ \A i \in 1 .. Len(txs) : Append(txs, r)[i] = txs[i]
        /\ Append(txs, r)[Len(txs) + 1] = r
    BY <2>1, AppendProperties
  <2> QED
    BY <2>2, <1>4 DEF T
<1>7. /\ Len(txs) \in Nat /\ DOMAIN txs = 1 .. Len(txs)
      /\ DOMAIN txs' = 1 .. Len(txs')
  BY <1>3, <1>5, LenProperties
<1>8. DOMAIN txs' = DOMAIN txs \union {Len(txs) + 1}
  BY <1>5, <1>7
<1>6. TxsSeq'
  BY <1>5 DEF TxsSeq
<1> QED
  BY <1>5, <1>6, <1>7, <1>8 DEF r

\* Settling changes the status and the block of one transaction.
LEMMA SettleLemma ==
    ASSUME TxsSeq, NEW i \in DOMAIN txs, NEW s \in {"mined", "failed"},
           NEW b \in Nat, Settle(i, s, b)
    PROVE  /\ TxsSeq'
           /\ Len(txs') = Len(txs) /\ DOMAIN txs' = DOMAIN txs
           /\ \A j \in DOMAIN txs : j # i => txs'[j] = txs[j]
           /\ txs'[i].kind = txs[i].kind /\ txs'[i].data = txs[i].data
           /\ txs'[i].ref = txs[i].ref
           /\ txs'[i].status = s /\ txs'[i].block = b
<1>1. PICK D, R : txs \in Seq(Tx(D, R))
  BY DEF TxsSeq
<1>2. txs[i] \in Tx(D, R)
  BY <1>1
<1> DEFINE r == [txs[i] EXCEPT !.status = s, !.block = b]
<1>3. /\ r \in Tx(D, R)
      /\ r.kind = txs[i].kind /\ r.data = txs[i].data /\ r.ref = txs[i].ref
      /\ r.status = s /\ r.block = b
  BY <1>2 DEF Tx
<1>4. txs' = [txs EXCEPT ![i] = r]
  BY <1>1, <1>2 DEF Settle, Tx
<1> HIDE DEF r
<1>5. /\ txs' \in Seq(Tx(D, R)) /\ Len(txs') = Len(txs)
      /\ DOMAIN txs' = DOMAIN txs /\ txs'[i] = r
      /\ \A j \in DOMAIN txs : j # i => txs'[j] = txs[j]
  BY <1>1, <1>3, <1>4
<1>6. TxsSeq'
  BY <1>5 DEF TxsSeq
<1> QED
  BY <1>3, <1>5, <1>6

\* What is on chain stays on chain.
LEMMA OnChainGrows ==
    ASSUME NEW h, NEW b, OnChain(h, b), logs \subseteq logs'
    PROVE  OnChain(h, b)'
BY DEF OnChain

-----------------------------------------------------------------------------
(* What a step of each kind preserves *)

\* A step that neither sends nor mines a transaction.
LEMMA QuietLemma ==
    ASSUME IInv, UNCHANGED <<height, logs, blockIndex, txs>>
    PROVE  /\ TxsSeq' /\ SentInv'
           /\ ManifestRefsOnChain' /\ IndexPointsAtManifest'
<1>1. TxsSeq'
  BY DEF IInv, TxsSeq
<1>2. SentInv'
  BY DEF IInv, SentInv, TxsInv, BatchTxInv, ManifestTxInv, IndexTxInv,
         MinedInv, RefsOld, OnChain
<1>3. ManifestRefsOnChain' /\ IndexPointsAtManifest'
  BY DEF IInv, ManifestRefsOnChain, IndexPointsAtManifest, OnChain
<1> QED
  BY <1>1, <1>2, <1>3

\* A step that sends a transaction whose references are on chain.
LEMMA SendInv ==
    ASSUME IInv, UNCHANGED <<height, logs, blockIndex>>,
           NEW kind \in {"batch", "manifest", "index"}, NEW data, NEW ref,
           Send(kind, data, ref),
           kind = "batch" => /\ Len(data) \in Nat
                             /\ DOMAIN data = 1 .. Len(data)
                             /\ \A k \in DOMAIN data : Plain(data[k]),
           kind = "manifest" => DOMAIN data = {1} /\ RefsOld(data[1], height),
           kind = "index" => DOMAIN data = {} /\ OnChain(ref.hash, ref.block)
    PROVE  /\ TxsSeq' /\ SentInv'
           /\ ManifestRefsOnChain' /\ IndexPointsAtManifest'
<1> DEFINE n == Len(txs) + 1
           r == [kind |-> kind, data |-> data, ref |-> ref,
                 status |-> "pending", block |-> 0]
<1>1. /\ TxsSeq'
      /\ DOMAIN txs' = DOMAIN txs \union {n}
      /\ \A i \in DOMAIN txs : txs'[i] = txs[i]
      /\ txs'[n] = r
  BY SendLemma DEF IInv
<1>2. /\ r.kind = kind /\ r.data = data /\ r.ref = ref
      /\ r.status = "pending" /\ r.block = 0
  OBVIOUS
<1> HIDE DEF n, r
<1>3. TxsInv'
  BY <1>1, <1>2 DEF IInv, SentInv, TxsInv
<1>4. BatchTxInv'
  BY <1>1, <1>2 DEF IInv, SentInv, BatchTxInv
<1>5. ManifestTxInv'
  BY <1>1, <1>2 DEF IInv, SentInv, ManifestTxInv, RefsOld, OnChain
<1>6. IndexTxInv'
  BY <1>1, <1>2 DEF IInv, SentInv, IndexTxInv, OnChain
<1>7. MinedInv'
  BY <1>1, <1>2 DEF IInv, SentInv, MinedInv
<1>8. ManifestRefsOnChain' /\ IndexPointsAtManifest'
  BY DEF IInv, ManifestRefsOnChain, IndexPointsAtManifest, OnChain
<1> QED
  BY <1>1, <1>3, <1>4, <1>5, <1>6, <1>7, <1>8 DEF SentInv

\* A step that settles transaction i, adding to the logs and raising the
\* height; if i is mined its logs are there.
LEMMA SettleInv ==
    ASSUME IInv, NEW i \in DOMAIN txs, NEW s \in {"mined", "failed"},
           NEW b \in Nat, Settle(i, s, b), b <= height',
           height' \in Nat, height <= height', logs \subseteq logs',
           s = "mined" => \A k \in DOMAIN txs[i].data :
                            Log(txs[i].data[k], b) \in logs'
    PROVE  TxsSeq' /\ SentInv'
<1>1. /\ TxsSeq' /\ DOMAIN txs' = DOMAIN txs
      /\ \A j \in DOMAIN txs : j # i => txs'[j] = txs[j]
      /\ txs'[i].kind = txs[i].kind /\ txs'[i].data = txs[i].data
      /\ txs'[i].ref = txs[i].ref
      /\ txs'[i].status = s /\ txs'[i].block = b
  BY SettleLemma DEF IInv
<1>2. \A j \in DOMAIN txs : /\ txs'[j].kind = txs[j].kind
                            /\ txs'[j].data = txs[j].data
                            /\ txs'[j].ref = txs[j].ref
  BY <1>1
<1>3. TxsInv'
  BY <1>1 DEF IInv, SentInv, TxsInv
<1>4. BatchTxInv'
  BY <1>1, <1>2 DEF IInv, SentInv, BatchTxInv
<1>5. ASSUME NEW j \in DOMAIN txs', txs'[j].kind = "manifest"
      PROVE  DOMAIN txs'[j].data = {1} /\ RefsOld(txs[j].data[1], height)'
  <2>1. PICK m : m = txs[j].data[1]
    OBVIOUS
  <2>2. /\ j \in DOMAIN txs /\ DOMAIN txs[j].data = {1}
        /\ RefsOld(m, height) /\ txs'[j].data = txs[j].data
    BY <1>1, <1>2, <1>5, <2>1 DEF IInv, SentInv, ManifestTxInv
  <2>3. height \in Nat
    BY DEF IInv, SentInv, TxsInv
  <2>4. RefsOld(m, height)'
    BY <2>2, <2>3 DEF RefsOld, OnChain
  <2> QED
    BY <2>1, <2>2, <2>4
<1>6. IndexTxInv'
  BY <1>1, <1>2 DEF IInv, SentInv, IndexTxInv, OnChain
<1>7. MinedInv'
  BY <1>1, <1>2 DEF IInv, SentInv, MinedInv
<1> QED
  BY <1>1, <1>3, <1>4, <1>5, <1>6, <1>7 DEF SentInv, ManifestTxInv

\* The image of a finite set is finite.
LEMMA FiniteImage ==
    ASSUME NEW S, NEW f, IsFiniteSet(S)
    PROVE  IsFiniteSet({f[x] : x \in S})
<1> DEFINE T == {f[x] : x \in S}
           g == [x \in S |-> f[x]]
<1>1. g \in Surjection(S, T)
  BY DEF Surjection
<1> QED
  BY <1>1, FS_Surjection

\* A folder has finitely many units, and none of them is a manifest.
LEMMA UnitsLemma ==
    ASSUME FolderInv
    PROVE  /\ IsFiniteSet(AllUnits(folder))
           /\ \A u \in AllUnits(folder) : Plain(u.data)
<1> DEFINE unit(n, c) == [file |-> FileIndex(folder, n), chunk |-> c,
                          total |-> Len(folder[n]),
                          data |-> folder[n][c + 1]]
           unitsOf(n) == {unit(n, c) : c \in 0 .. Len(folder[n]) - 1}
<1>1. ASSUME NEW n \in DOMAIN folder
      PROVE  IsFiniteSet(unitsOf(n)) /\ \A u \in unitsOf(n) : Plain(u.data)
  <2>1. Len(folder[n]) \in Nat
    BY DEF FolderInv
  <2>2. IsFiniteSet(0 .. Len(folder[n]) - 1)
    BY <2>1, FS_Interval
  <2>3. IsFiniteSet(unitsOf(n))
    <3> DEFINE f == [c \in 0 .. Len(folder[n]) - 1 |-> unit(n, c)]
    <3>1. unitsOf(n) = {f[c] : c \in 0 .. Len(folder[n]) - 1}
      OBVIOUS
    <3> HIDE DEF f, unitsOf
    <3> QED
      BY <2>2, <3>1, FiniteImage
  <2>4. ASSUME NEW c \in 0 .. Len(folder[n]) - 1
        PROVE  Plain(unit(n, c).data)
    BY <2>1, <2>4 DEF FolderInv
  <2> QED
    BY <2>3, <2>4
<1>2. AllUnits(folder) = UNION {unitsOf(n) : n \in DOMAIN folder}
  BY DEF AllUnits
<1> HIDE DEF unitsOf
<1>3. IsFiniteSet({unitsOf(n) : n \in DOMAIN folder})
  <2> DEFINE g == [n \in DOMAIN folder |-> unitsOf(n)]
  <2>1. {unitsOf(n) : n \in DOMAIN folder} = {g[n] : n \in DOMAIN folder}
    OBVIOUS
  <2>2. IsFiniteSet(DOMAIN folder)
    BY DEF FolderInv
  <2> HIDE DEF g
  <2> QED
    BY <2>1, <2>2, FiniteImage
<1>4. IsFiniteSet(UNION {unitsOf(n) : n \in DOMAIN folder})
  BY <1>1, <1>3, FS_UNION
<1> QED
  BY <1>1, <1>2, <1>4

-----------------------------------------------------------------------------
(* Initial states and steps *)

LEMMA InitLemma == Init => IInv
<1> SUFFICES ASSUME Init PROVE IInv
  OBVIOUS
<1> USE DEF Init, ChainInit
<1>1. TxsSeq
  <2>1. txs \in Seq(Tx({}, {}))
    BY EmptySeq
  <2> QED
    BY <2>1 DEF TxsSeq
<1>2. DOMAIN txs = {}
  OBVIOUS
<1>3. SentInv
  BY <1>2 DEF SentInv, TxsInv, BatchTxInv, ManifestTxInv, IndexTxInv, MinedInv
<1>4. FolderInv
  <2>1. /\ folder \in Folders /\ IsFiniteSet(DOMAIN folder)
        /\ \A n \in DOMAIN folder : folder[n] \in Seq(Chunk)
    BY UploadAssumption
  <2> QED
    BY <2>1 DEF FolderInv, Plain
<1>5. RemainingInv
  BY FS_EmptySet DEF RemainingInv
<1>6. WaitInv /\ LocalInv
  BY DEF WaitInv, LocalInv
<1>7. RecordedInv /\ ManifestRefsOnChain /\ IndexPointsAtManifest
  BY DEF RecordedInv, RecordedOnChain, NoState, ManifestRefsOnChain,
         IndexPointsAtManifest
<1> QED
  BY <1>1, <1>3, <1>4, <1>5, <1>6, <1>7 DEF IInv

LEMMA StartStep == IInv /\ Start => IInv'
<1> SUFFICES ASSUME IInv, Start PROVE IInv'
  OBVIOUS
<1> USE DEF Start, cliVars, chainVars
<1>1. TxsSeq' /\ SentInv' /\ ManifestRefsOnChain' /\ IndexPointsAtManifest'
  BY QuietLemma
<1>2. FolderInv'
  BY DEF IInv, FolderInv
<1>3. RemainingInv'
  <2>1. CASE UNCHANGED remaining
    BY <2>1 DEF IInv, RemainingInv
  <2>2. CASE remaining' = Unconfirmed(AllUnits(folder),
                            Valid(disk.chunks, AllUnits(folder)))
    <3>1. remaining' \subseteq AllUnits(folder)
      BY <2>2 DEF Unconfirmed
    <3> QED
      BY <3>1, UnitsLemma, FS_Subset DEF RemainingInv, IInv
  <2> QED
    BY <2>1, <2>2
<1>4. WaitInv' /\ LocalInv'
  BY DEF IInv, WaitInv, LocalInv
<1>5. RecordedInv'
  BY DEF IInv, RecordedInv, RecordedOnChain, Valid, OnChain
<1> QED
  BY <1>1, <1>2, <1>3, <1>4, <1>5 DEF IInv

LEMMA SendBatchStep == IInv /\ SendBatch => IInv'
<1> SUFFICES ASSUME IInv, SendBatch PROVE IInv'
  OBVIOUS
<1> DEFINE us == NextBatch(remaining)
<1>1. PICK b \in SortedBy(us, Precedes) :
        /\ Send("batch", [k \in DOMAIN b |-> b[k].data], None)
        /\ batch' = b
  BY DEF SendBatch
<1> DEFINE data == [k \in DOMAIN b |-> b[k].data]
<1>2. us \subseteq remaining
  BY DEF NextBatch
<1>3. Cardinality(us) \in Nat
  BY <1>2, FS_Subset, FS_CardinalityType DEF IInv, RemainingInv
<1>4. b \in [1 .. Cardinality(us) -> us]
  BY <1>1 DEF SortedBy
<1> HIDE DEF us
<1>5. /\ Len(data) \in Nat /\ DOMAIN data = 1 .. Len(data)
      /\ \A k \in DOMAIN data : Plain(data[k])
  <2>1. DOMAIN data = 1 .. Cardinality(us)
    BY <1>4
  <2>2. \A k \in DOMAIN data : Plain(data[k])
    BY <1>2, <1>4 DEF IInv, RemainingInv
  <2>3. data \in Seq({data[k] : k \in 1 .. Cardinality(us)})
    <3> DEFINE n == Cardinality(us)
               T == {data[k] : k \in 1 .. n}
    <3>1. data = [k \in 1 .. n |-> data[k]]
      BY <2>1
    <3>2. n \in Nat
      BY <1>3
    <3> HIDE DEF n, data
    <3>3. data \in [1 .. n -> T]
      BY <3>1
    <3> HIDE DEF T
    <3>4. data \in Seq(T)
      BY <3>2, <3>3, SeqDef
    <3> QED
      BY <3>4 DEF T, n
  <2> QED
    BY <2>2, <2>3, LenProperties
<1> HIDE DEF data
<1>6. UNCHANGED <<height, logs, blockIndex>>
  BY DEF SendBatch, chainVars
<1>7. TxsSeq' /\ SentInv' /\ ManifestRefsOnChain' /\ IndexPointsAtManifest'
  BY <1>1, <1>5, <1>6, SendInv DEF data
<1>8. FolderInv' /\ RemainingInv'
  BY FS_Subset DEF SendBatch, IInv, FolderInv, RemainingInv
<1>9. WaitInv'
  <2>1. /\ Len(txs)' \in DOMAIN txs' /\ txs'[Len(txs)'].data = data
    <3>1. /\ Len(txs)' = Len(txs) + 1
          /\ DOMAIN txs' = DOMAIN txs \union {Len(txs) + 1}
          /\ txs'[Len(txs) + 1].data = data
      <4>1. Send("batch", data, None)
        BY <1>1 DEF data
      <4>2. TxsSeq
        BY DEF IInv
      <4> HIDE DEF data
      <4>3. /\ Len(txs)' = Len(txs) + 1
            /\ DOMAIN txs' = DOMAIN txs \union {Len(txs) + 1}
            /\ txs'[Len(txs) + 1] = [kind |-> "batch", data |-> data,
                                     ref |-> None, status |-> "pending",
                                     block |-> 0]
        BY <4>1, <4>2, SendLemma
      <4> QED
        BY <4>3
    <3> QED
      BY <3>1
  <2> QED
    BY <1>1, <2>1 DEF WaitInv, data
<1>10. LocalInv'
  BY DEF SendBatch, LocalInv
<1>11. RecordedInv'
  BY <1>6 DEF SendBatch, IInv, RecordedInv, RecordedOnChain, OnChain
<1> QED
  BY <1>7, <1>8, <1>9, <1>10, <1>11 DEF IInv

LEMMA BatchConfirmedStep == IInv /\ BatchConfirmed => IInv'
<1> SUFFICES ASSUME IInv, BatchConfirmed PROVE IInv'
  OBVIOUS
<1> DEFINE t == Len(txs)
<1>1. PICK f \in HashToUnit(batch) : chunks' = chunks \union Confirmed(batch, f, t)
  BY DEF BatchConfirmed
<1>2. /\ t \in DOMAIN txs /\ txs[t].status = "mined"
      /\ DOMAIN batch = DOMAIN txs[t].data
      /\ \A k \in DOMAIN batch : batch[k].data = txs[t].data[k]
      /\ txs[t].block \in 0 .. height
  BY DEF BatchConfirmed, IInv, WaitInv, SentInv, TxsInv
<1>3. \A k \in DOMAIN batch : Log(batch[k].data, txs[t].block) \in logs
  BY <1>2 DEF IInv, SentInv, MinedInv
<1>4. \A c \in Confirmed(batch, f, t) :
        OnChain(c.hash, c.block) /\ c.block \in 0 .. height
  <2> SUFFICES ASSUME NEW k \in DOMAIN batch
               PROVE  OnChain(Keccak(batch[k].data), txs[t].block)
    BY <1>2 DEF Confirmed
  <2>1. /\ Log(batch[k].data, txs[t].block).hash = Keccak(batch[k].data)
        /\ Log(batch[k].data, txs[t].block).block = txs[t].block
    BY DEF Log
  <2> QED
    BY <1>3, <2>1 DEF OnChain
<1> HIDE DEF t
<1>5. RecordedInv'
  <2>1. disk'.chunks = chunks' /\ UNCHANGED <<height, logs>>
    BY DEF BatchConfirmed, chainVars
  <2> QED
    BY <1>1, <1>4, <2>1 DEF IInv, RecordedInv, RecordedOnChain, OnChain
<1>6. TxsSeq' /\ SentInv' /\ ManifestRefsOnChain' /\ IndexPointsAtManifest'
  BY QuietLemma DEF BatchConfirmed, chainVars
<1>7. FolderInv' /\ RemainingInv' /\ WaitInv' /\ LocalInv'
  BY DEF BatchConfirmed, IInv, FolderInv, RemainingInv, WaitInv, LocalInv
<1> QED
  BY <1>5, <1>6, <1>7 DEF IInv

LEMMA SendManifestStep == IInv /\ SendManifest => IInv'
<1> SUFFICES ASSUME IInv, SendManifest PROVE IInv'
  OBVIOUS
<1> USE DEF chainVars
<1>1. PICK p \in PartLists(files, chunks) :
        Send("manifest", <<BuildManifest(files, p)>>, None)
  BY DEF SendManifest
<1> DEFINE m == BuildManifest(files, p)
<1>2. \A n \in DOMAIN files : \A k \in DOMAIN p[n] : p[n][k] \in chunks
  <2> SUFFICES ASSUME NEW n \in DOMAIN files, NEW k \in DOMAIN p[n]
               PROVE  p[n][k] \in chunks
    OBVIOUS
  <2>1. p[n] \in SortedBy(FileChunks(chunks, FileIndex(files, n)), PartBefore)
    BY DEF PartLists
  <2>2. p[n][k] \in FileChunks(chunks, FileIndex(files, n))
    BY <2>1 DEF SortedBy
  <2> QED
    BY <2>2 DEF FileChunks
<1>3. RefsOld(m, height)
  <2> SUFFICES ASSUME NEW e \in m.entries, NEW k \in DOMAIN e.parts
               PROVE  /\ OnChain(e.parts[k].hash, e.parts[k].block)
                      /\ e.parts[k].block \in 0 .. height
    BY DEF RefsOld
  <2>1. PICK n \in DOMAIN files :
          e.parts = [j \in DOMAIN p[n] |->
                        [hash |-> p[n][j].hash, block |-> p[n][j].block]]
    BY DEF BuildManifest
  <2>2. /\ k \in DOMAIN p[n]
        /\ e.parts[k].hash = p[n][k].hash /\ e.parts[k].block = p[n][k].block
    BY <2>1
  <2> QED
    BY <1>2, <2>2 DEF IInv, RecordedInv, RecordedOnChain
<1>4. DOMAIN <<m>> = {1} /\ <<m>>[1] = m
  OBVIOUS
<1>5. UNCHANGED <<height, logs, blockIndex>>
  BY DEF SendManifest
<1>6. Send("manifest", <<m>>, None)
  BY <1>1
<1> HIDE DEF m
<1>7. TxsSeq' /\ SentInv' /\ ManifestRefsOnChain' /\ IndexPointsAtManifest'
  BY <1>3, <1>4, <1>5, <1>6, SendInv
<1>8. FolderInv' /\ RemainingInv' /\ WaitInv'
  BY DEF SendManifest, IInv, FolderInv, RemainingInv, WaitInv
<1>9. LocalInv'
  <2>1. TxsSeq
    BY DEF IInv
  <2>2. /\ Len(txs)' = Len(txs) + 1
        /\ DOMAIN txs' = DOMAIN txs \union {Len(txs) + 1}
        /\ txs'[Len(txs) + 1] = [kind |-> "manifest", data |-> <<m>>,
                                 ref |-> None, status |-> "pending",
                                 block |-> 0]
    BY <1>6, <2>1, SendLemma
  <2> QED
    BY <2>2 DEF SendManifest, LocalInv
<1>10. RecordedInv'
  BY <1>5 DEF SendManifest, IInv, RecordedInv, RecordedOnChain, OnChain
<1> QED
  BY <1>7, <1>8, <1>9, <1>10 DEF IInv

LEMMA ManifestConfirmedStep == IInv /\ ManifestConfirmed => IInv'
<1> SUFFICES ASSUME IInv, ManifestConfirmed PROVE IInv'
  OBVIOUS
<1> USE DEF ManifestConfirmed, chainVars
<1>1. TxsSeq' /\ SentInv' /\ ManifestRefsOnChain' /\ IndexPointsAtManifest'
  BY QuietLemma
<1>2. FolderInv' /\ RemainingInv' /\ WaitInv' /\ LocalInv'
  BY DEF IInv, FolderInv, RemainingInv, WaitInv, LocalInv
<1>3. RecordedInv'
  BY DEF IInv, RecordedInv, RecordedOnChain, OnChain
<1> QED
  BY <1>1, <1>2, <1>3 DEF IInv

LEMMA SaveLocalStep == IInv /\ SaveLocalManifest => IInv'
<1> SUFFICES ASSUME IInv, SaveLocalManifest PROVE IInv'
  OBVIOUS
<1> USE DEF SaveLocalManifest, chainVars
<1>1. TxsSeq' /\ SentInv' /\ ManifestRefsOnChain' /\ IndexPointsAtManifest'
  BY QuietLemma
<1>2. FolderInv'
  <2>1. IsFiniteSet(DOMAIN folder')
    BY FS_AddElement DEF IInv, FolderInv
  <2>2. ASSUME NEW n \in DOMAIN folder'
        PROVE  /\ Len(folder'[n]) \in Nat
               /\ \A k \in 1 .. Len(folder'[n]) : Plain(folder'[n][k])
    <3>1. CASE n = ManifestName
      <4>1. folder'[n] = <<LocalManifest(chunks)>>
        BY <2>2, <3>1
      <4>2. LocalManifest(chunks).kind = "local"
        BY DEF LocalManifest
      <4> DEFINE lm == LocalManifest(chunks)
      <4>3. Len(<<lm>>) = 1 /\ <<lm>>[1] = lm
        OBVIOUS
      <4> HIDE DEF lm
      <4>4. \A k \in 1 .. 1 : k = 1
        OBVIOUS
      <4>5. folder'[n] = <<lm>> /\ Plain(lm)
        BY <4>1, <4>2 DEF lm, Plain
      <4> QED
        BY <4>3, <4>4, <4>5
    <3>2. CASE n # ManifestName
      BY <2>2, <3>2 DEF IInv, FolderInv, Plain
    <3> QED
      BY <3>1, <3>2
  <2> QED
    BY <2>1, <2>2 DEF FolderInv, Plain
<1>3. RemainingInv' /\ WaitInv'
  BY DEF IInv, RemainingInv, WaitInv
<1>4. LocalInv'
  BY DEF IInv, LocalInv
<1>5. RecordedInv'
  BY DEF IInv, RecordedInv, RecordedOnChain, OnChain
<1> QED
  BY <1>1, <1>2, <1>3, <1>4, <1>5 DEF IInv

LEMMA SendIndexStep == IInv /\ SendIndex => IInv'
<1> SUFFICES ASSUME IInv, SendIndex PROVE IInv'
  OBVIOUS
<1> DEFINE ref == [hash |-> manifestHash, block |-> txs[Len(txs)].block]
<1>1. Send("index", << >>, ref) /\ UNCHANGED <<height, logs, blockIndex>>
  BY DEF SendIndex, chainVars
<1>2. OnChain(ref.hash, ref.block)
  <2> DEFINE t == Len(txs)
  <2>1. /\ t \in DOMAIN txs /\ txs[t].kind = "manifest"
        /\ txs[t].status = "mined" /\ manifestHash = Keccak(txs[t].data[1])
    BY DEF SendIndex, IInv, LocalInv
  <2>2. Log(txs[t].data[1], txs[t].block) \in logs
    BY <2>1 DEF IInv, SentInv, ManifestTxInv, MinedInv
  <2>3. /\ Log(txs[t].data[1], txs[t].block).hash = manifestHash
        /\ Log(txs[t].data[1], txs[t].block).block = txs[t].block
    BY <2>1 DEF Log
  <2> QED
    BY <2>2, <2>3 DEF OnChain
<1>3. DOMAIN << >> = {}
  OBVIOUS
<1> HIDE DEF ref
<1>4. TxsSeq' /\ SentInv' /\ ManifestRefsOnChain' /\ IndexPointsAtManifest'
  BY <1>1, <1>2, <1>3, SendInv
<1>5. FolderInv' /\ RemainingInv' /\ WaitInv' /\ LocalInv'
  BY DEF SendIndex, IInv, FolderInv, RemainingInv, WaitInv, LocalInv
<1>6. RecordedInv'
  BY <1>1 DEF SendIndex, IInv, RecordedInv, RecordedOnChain, OnChain
<1> QED
  BY <1>4, <1>5, <1>6 DEF IInv

\* The steps that only move the process, or end it, or change the folder.
LEMMA OtherCLISteps ==
    ASSUME IInv,
           \/ Proceed \/ BatchReverted \/ MissingChunks \/ ManifestReverted
           \/ SkipIndex \/ IndexDone \/ Finish \/ Crash \/ BatchError
    PROVE  IInv'
<1> USE DEF Proceed, BatchReverted, MissingChunks, ManifestReverted, SkipIndex,
            IndexDone, Finish, Crash, BatchError, Exit, chainVars
<1>1. TxsSeq' /\ SentInv' /\ ManifestRefsOnChain' /\ IndexPointsAtManifest'
  <2>1. UNCHANGED <<height, logs, blockIndex, txs>>
    OBVIOUS
  <2> QED
    BY <2>1, QuietLemma
<1>2. FolderInv'
  BY DEF IInv, FolderInv
<1>3. RemainingInv'
  BY FS_EmptySet DEF IInv, RemainingInv
<1>4. WaitInv' /\ LocalInv'
  BY DEF WaitInv, LocalInv
<1>5. RecordedInv'
  <2>1. disk'.chunks \union chunks' \subseteq disk.chunks \union chunks
    OBVIOUS
  <2>2. UNCHANGED <<height, logs>>
    OBVIOUS
  <2> QED
    BY <2>1, <2>2 DEF IInv, RecordedInv, RecordedOnChain, OnChain
<1> QED
  BY <1>1, <1>2, <1>3, <1>4, <1>5 DEF IInv

LEMMA EditFolderStep == IInv /\ EditFolder => IInv'
<1> SUFFICES ASSUME IInv, EditFolder PROVE IInv'
  OBVIOUS
<1> USE DEF EditFolder, cliVars, chainVars
<1>1. TxsSeq' /\ SentInv' /\ ManifestRefsOnChain' /\ IndexPointsAtManifest'
  BY QuietLemma
<1>2. FolderInv'
  <2>1. /\ folder' \in Folders /\ IsFiniteSet(DOMAIN folder')
        /\ \A n \in DOMAIN folder' : folder'[n] \in Seq(Chunk)
    BY UploadAssumption
  <2> QED
    BY <2>1 DEF FolderInv, Plain
<1>3. RemainingInv' /\ WaitInv' /\ LocalInv'
  BY DEF IInv, RemainingInv, WaitInv, LocalInv
<1>4. RecordedInv'
  BY DEF IInv, RecordedInv, RecordedOnChain, OnChain
<1> QED
  BY <1>1, <1>2, <1>3, <1>4 DEF IInv

\* What a step of the chain leaves to show when the logs and the transactions
\* are settled: the process does not move.
LEMMA ChainStep ==
    ASSUME IInv, UNCHANGED <<folder, disk, cliVars>>,
           height' \in Nat, height <= height', logs \subseteq logs',
           NEW i \in DOMAIN txs, NEW s \in {"mined", "failed"}, NEW b \in Nat,
           NextTx(i), Settle(i, s, b)
    PROVE  /\ FolderInv' /\ RemainingInv' /\ WaitInv' /\ LocalInv'
           /\ RecordedInv'
<1> USE DEF cliVars
<1>1. /\ Len(txs') = Len(txs) /\ DOMAIN txs' = DOMAIN txs
      /\ \A j \in DOMAIN txs : j # i => txs'[j] = txs[j]
      /\ txs'[i].kind = txs[i].kind /\ txs'[i].data = txs[i].data
      /\ txs[i].status = "pending"
  BY SettleLemma DEF IInv, NextTx
<1>2. FolderInv' /\ RemainingInv'
  BY DEF IInv, FolderInv, RemainingInv
<1>3. WaitInv'
  BY <1>1 DEF IInv, WaitInv
<1>4. LocalInv'
  BY <1>1 DEF IInv, LocalInv
<1>5. RecordedInv'
  BY DEF IInv, SentInv, TxsInv, RecordedInv, RecordedOnChain, OnChain
<1> QED
  BY <1>2, <1>3, <1>4, <1>5

LEMMA MineBatchStep == ASSUME NEW i \in DOMAIN txs
                       PROVE  IInv /\ MineBatch(i) => IInv'
<1> SUFFICES ASSUME IInv, MineBatch(i) PROVE IInv'
  OBVIOUS
<1> DEFINE ds == txs[i].data
<1>1. /\ NextTx(i) /\ Settle(i, "mined", height + 1)
      /\ UNCHANGED <<blockIndex, folder, disk, cliVars>>
      /\ height \in Nat
  BY DEF MineBatch, IInv, SentInv, TxsInv
<1>2. /\ Len(ds) \in Nat /\ DOMAIN ds = 1 .. Len(ds)
      /\ \A k \in DOMAIN ds : Plain(ds[k])
  BY DEF MineBatch, IInv, SentInv, BatchTxInv
<1>3. /\ height' = height + 1
      /\ logs' = logs \union {Log(ds[k], height + 1) : k \in DOMAIN ds}
  <2>1. CASE Len(ds) = 1
    BY <1>2, <2>1 DEF MineBatch, Store
  <2>2. CASE Len(ds) # 1
    BY <2>2 DEF MineBatch, StoreBatch
  <2> QED
    BY <2>1, <2>2
<1> HIDE DEF ds
<1>4. TxsSeq' /\ SentInv'
  BY <1>1, <1>3, SettleInv DEF ds
<1>5. FolderInv' /\ RemainingInv' /\ WaitInv' /\ LocalInv' /\ RecordedInv'
  BY <1>1, <1>3, ChainStep
<1>6. ManifestRefsOnChain'
  <2>1. \A k \in DOMAIN ds : Log(ds[k], height + 1).data = ds[k]
    BY DEF Log
  <2> QED
    BY <1>2, <1>3, <2>1 DEF IInv, ManifestRefsOnChain, OnChain, Plain
<1>7. IndexPointsAtManifest'
  BY <1>1, <1>3 DEF IInv, IndexPointsAtManifest, OnChain
<1> QED
  BY <1>4, <1>5, <1>6, <1>7 DEF IInv

LEMMA MineManifestStep == ASSUME NEW i \in DOMAIN txs
                          PROVE  IInv /\ MineManifest(i) => IInv'
<1> SUFFICES ASSUME IInv, MineManifest(i) PROVE IInv'
  OBVIOUS
<1>m. PICK m : m = txs[i].data[1]
  OBVIOUS
<1>1. /\ NextTx(i) /\ Settle(i, "mined", height + 1)
      /\ UNCHANGED <<blockIndex, folder, disk, cliVars>>
      /\ height \in Nat /\ height' = height + 1
      /\ logs' = logs \union {Log(m, height + 1)}
  BY <1>m DEF MineManifest, StoreManifest, IInv, SentInv, TxsInv
<1>2. DOMAIN txs[i].data = {1} /\ RefsOld(m, height)
  BY <1>m DEF MineManifest, IInv, SentInv, ManifestTxInv
<1>3. TxsSeq' /\ SentInv'
  BY <1>m, <1>1, <1>2, SettleInv
<1>4. FolderInv' /\ RemainingInv' /\ WaitInv' /\ LocalInv' /\ RecordedInv'
  BY <1>1, ChainStep
<1>5. ManifestRefsOnChain'
  <2> SUFFICES ASSUME NEW l \in logs', l.data \notin Chunk,
                      l.data.kind = "manifest",
                      NEW e \in l.data.entries, NEW k \in DOMAIN e.parts
               PROVE  /\ OnChain(e.parts[k].hash, e.parts[k].block)'
                      /\ e.parts[k].block < l.block
    BY DEF ManifestRefsOnChain
  <2>1. CASE l \in logs
    BY <1>1, <2>1 DEF IInv, ManifestRefsOnChain, OnChain
  <2>2. CASE l = Log(m, height + 1)
    <3>1. l.data = m /\ l.block = height + 1
      BY <2>2 DEF Log
    <3>2. /\ OnChain(e.parts[k].hash, e.parts[k].block)
          /\ e.parts[k].block \in 0 .. height
      BY <1>2, <3>1 DEF RefsOld
    <3> QED
      BY <1>1, <3>1, <3>2 DEF OnChain
  <2> QED
    BY <1>1, <2>1, <2>2
<1>6. IndexPointsAtManifest'
  BY <1>1 DEF IInv, IndexPointsAtManifest, OnChain
<1> QED
  BY <1>3, <1>4, <1>5, <1>6 DEF IInv

LEMMA MineIndexStep == ASSUME NEW i \in DOMAIN txs
                       PROVE  IInv /\ MineIndex(i) => IInv'
<1> SUFFICES ASSUME IInv, MineIndex(i) PROVE IInv'
  OBVIOUS
<1>1. /\ NextTx(i) /\ UNCHANGED <<folder, disk, cliVars, logs>>
      /\ height \in Nat /\ height' = height + 1
      /\ Settle(i, "mined", height + 1) \/ Settle(i, "failed", height + 1)
  BY DEF MineIndex, IInv, SentInv, TxsInv
<1>2. /\ DOMAIN txs[i].data = {}
      /\ OnChain(txs[i].ref.hash, txs[i].ref.block)
  BY DEF MineIndex, IInv, SentInv, IndexTxInv
<1>3. TxsSeq' /\ SentInv'
  <2>1. CASE Settle(i, "mined", height + 1)
    BY <1>1, <1>2, <2>1, SettleInv
  <2>2. CASE Settle(i, "failed", height + 1)
    BY <1>1, <1>2, <2>2, SettleInv
  <2> QED
    BY <1>1, <2>1, <2>2
<1>4. FolderInv' /\ RemainingInv' /\ WaitInv' /\ LocalInv' /\ RecordedInv'
  <2>1. CASE Settle(i, "mined", height + 1)
    BY <1>1, <2>1, ChainStep
  <2>2. CASE Settle(i, "failed", height + 1)
    BY <1>1, <2>2, ChainStep
  <2> QED
    BY <1>1, <2>1, <2>2
<1>5. ManifestRefsOnChain'
  BY <1>1 DEF IInv, ManifestRefsOnChain, OnChain
<1>6. IndexPointsAtManifest'
  <2>1. blockIndex' \subseteq blockIndex \union {txs[i].ref}
    BY DEF MineIndex
  <2> QED
    BY <1>1, <1>2, <2>1 DEF IInv, IndexPointsAtManifest, OnChain
<1> QED
  BY <1>3, <1>4, <1>5, <1>6 DEF IInv

LEMMA FailTxStep == ASSUME NEW i \in DOMAIN txs
                    PROVE  IInv /\ FailTx(i) => IInv'
<1> SUFFICES ASSUME IInv, FailTx(i) PROVE IInv'
  OBVIOUS
<1>1. /\ NextTx(i) /\ UNCHANGED <<folder, disk, cliVars, blockIndex>>
      /\ UNCHANGED <<height, logs>> /\ height \in Nat
      /\ Settle(i, "failed", height)
  BY DEF FailTx, chainVars, IInv, SentInv, TxsInv
<1>2. TxsSeq' /\ SentInv'
  BY <1>1, SettleInv
<1>3. FolderInv' /\ RemainingInv' /\ WaitInv' /\ LocalInv' /\ RecordedInv'
  BY <1>1, ChainStep
<1>4. ManifestRefsOnChain' /\ IndexPointsAtManifest'
  BY <1>1 DEF IInv, ManifestRefsOnChain, IndexPointsAtManifest, OnChain
<1> QED
  BY <1>2, <1>3, <1>4 DEF IInv

-----------------------------------------------------------------------------
(* The theorems *)

LEMMA NextLemma == IInv /\ [Next]_vars => IInv'
<1> SUFFICES ASSUME IInv, [Next]_vars PROVE IInv'
  OBVIOUS
<1>1. CASE UNCHANGED vars
  <2>1. TxsSeq' /\ SentInv' /\ ManifestRefsOnChain' /\ IndexPointsAtManifest'
    BY <1>1, QuietLemma DEF vars, chainVars
  <2> QED
    BY <1>1, <2>1 DEF vars, chainVars, cliVars, IInv, FolderInv, RemainingInv,
       WaitInv, LocalInv, RecordedInv, RecordedOnChain, OnChain
<1>2. CASE Start
  BY <1>2, StartStep
<1>3. CASE CLIStep
  BY <1>3, SendBatchStep, BatchConfirmedStep, SendManifestStep,
     ManifestConfirmedStep, SaveLocalStep, SendIndexStep, OtherCLISteps
     DEF CLIStep
<1>4. CASE Mine
  BY <1>4, MineBatchStep, MineManifestStep, MineIndexStep DEF Mine
<1>5. CASE Crash \/ BatchError
  BY <1>5, OtherCLISteps
<1>6. CASE EditFolder
  BY <1>6, EditFolderStep
<1>7. CASE \E i \in DOMAIN txs : FailTx(i)
  BY <1>7, FailTxStep
<1> QED
  BY <1>1, <1>2, <1>3, <1>4, <1>5, <1>6, <1>7 DEF Next

\* The inductive invariant holds in every run.
THEOREM Invariance == Spec => []IInv
BY InitLemma, NextLemma, PTL DEF Spec

\* The state file and the process never count a chunk that is not on chain
\* in the recorded block.
THEOREM ChunksAreOnChain == Spec => []RecordedOnChain
<1>1. IInv => RecordedOnChain
  BY DEF IInv, RecordedInv
<1> QED
  BY <1>1, Invariance, PTL

\* A manifest on chain refers only to content in older blocks.
THEOREM ManifestsAreComplete == Spec => []ManifestRefsOnChain
<1>1. IInv => ManifestRefsOnChain
  BY DEF IInv
<1> QED
  BY <1>1, Invariance, PTL

\* The block index gives a block in which the manifest can be read.
THEOREM IndexIsExact == Spec => []IndexPointsAtManifest
<1>1. IInv => IndexPointsAtManifest
  BY DEF IInv
<1> QED
  BY <1>1, Invariance, PTL

-----------------------------------------------------------------------------
(* Types *)

LogsInv == /\ \A l \in logs : l.block \in 1 .. height /\ l.hash = Keccak(l.data)
           /\ \A h \in DOMAIN manifests : manifests[h] \in Account

PlaceInv == /\ pc \in States /\ faults \in 0 .. MaxFaults /\ edits \in 0 .. MaxEdits
            /\ pc = "wait" => txs[Len(txs)].kind = "batch"

HashesInv == \A h \in {disk.manifestHash, manifestHash} \ {None} : IsHash(h)

TypeInv == LogsInv /\ PlaceInv /\ HashesInv

\* A log is added with the next block.
LEMMA LogsStep ==
    ASSUME LogsInv, height \in Nat, NEW D, manifests' = manifests,
           height' = height + 1, logs' = logs \union {Log(d, height + 1) : d \in D}
    PROVE  LogsInv' /\ logs \subseteq logs'
<1>1. \A l \in logs' : l.block \in 1 .. height + 1 /\ l.hash = Keccak(l.data)
  BY DEF LogsInv, Log
<1> QED
  BY <1>1 DEF LogsInv

LEMMA HashesKept ==
    ASSUME HashesInv, logs \subseteq logs', UNCHANGED <<disk, manifestHash>>
    PROVE  HashesInv'
BY DEF HashesInv, IsHash

LEMMA TypeMine ==
    ASSUME IInv, TypeInv, NEW i \in DOMAIN txs,
           MineBatch(i) \/ MineManifest(i) \/ MineIndex(i) \/ FailTx(i)
    PROVE  TypeInv'
<1>1. /\ height \in Nat /\ UNCHANGED <<disk, cliVars>> /\ UNCHANGED <<pc, manifestHash>>
      /\ UNCHANGED edits
  BY DEF IInv, SentInv, TxsInv, MineBatch, MineManifest, MineIndex, FailTx, cliVars
<1>2. faults' \in 0 .. MaxFaults
  BY UploadAssumption DEF TypeInv, PlaceInv, MineBatch, MineManifest, MineIndex,
     FailTx, Fault
<1>3. LogsInv' /\ logs \subseteq logs'
  <2>1. CASE MineBatch(i)
    <3>1. CASE Len(txs[i].data) = 1
      <4>1. /\ logs' = logs \union {Log(d, height + 1) : d \in {txs[i].data[1]}}
            /\ height' = height + 1 /\ manifests' = manifests
        BY <2>1, <3>1 DEF MineBatch, Store
      <4> QED
        BY <1>1, <4>1, LogsStep DEF TypeInv
    <3>2. CASE Len(txs[i].data) # 1
      <4> DEFINE D == {txs[i].data[k] : k \in DOMAIN txs[i].data}
      <4>1. /\ logs' = logs \union {Log(d, height + 1) : d \in D}
            /\ height' = height + 1 /\ manifests' = manifests
        BY <2>1, <3>2 DEF MineBatch, StoreBatch
      <4> HIDE DEF D
      <4> QED
        BY <1>1, <4>1, LogsStep DEF TypeInv
    <3> QED
      BY <3>1, <3>2
  <2>2. CASE MineManifest(i)
    <3>1. StoreManifest(Wallet, txs[i].data[1])
      BY <2>2 DEF MineManifest
    <3>2. \A l \in logs' : l.block \in 1 .. height' /\ l.hash = Keccak(l.data)
      BY <1>1, <3>1 DEF StoreManifest, TypeInv, LogsInv, Log
    <3>3. \A h \in DOMAIN manifests' : manifests'[h] \in Account
      BY <3>1, UploadAssumption DEF StoreManifest, TypeInv, LogsInv
    <3> QED
      BY <3>1, <3>2, <3>3 DEF StoreManifest, LogsInv
  <2>3. CASE MineIndex(i)
    <3>1. height' = height + 1 /\ UNCHANGED <<logs, manifests>>
      BY <2>3 DEF MineIndex
    <3> QED
      BY <1>1, <3>1 DEF TypeInv, LogsInv
  <2>4. CASE FailTx(i)
    BY <2>4 DEF FailTx, chainVars, TypeInv, LogsInv
  <2> QED
    BY <2>1, <2>2, <2>3, <2>4
<1>4. \A j \in DOMAIN txs : txs'[j].kind = txs[j].kind /\ Len(txs') = Len(txs)
  <2>1. \E s \in {"mined", "failed"}, b \in Nat : Settle(i, s, b)
    BY <1>1 DEF MineBatch, MineManifest, MineIndex, FailTx
  <2> QED
    BY <2>1, SettleLemma DEF IInv
<1>5. pc = "wait" => Len(txs) \in DOMAIN txs
  BY DEF IInv, WaitInv
<1>6. PlaceInv'
  BY <1>1, <1>2, <1>4, <1>5 DEF TypeInv, PlaceInv
<1> QED
  BY <1>1, <1>3, <1>6, HashesKept DEF TypeInv

\* A step of the process, or of its user, that leaves the chain alone.
LEMMA TypeCLI ==
    ASSUME IInv, TypeInv, UNCHANGED chainVars,
           pc' \in States, faults' \in 0 .. MaxFaults, edits' \in 0 .. MaxEdits,
           pc' = "wait" => txs'[Len(txs')].kind = "batch",
           \A h \in {disk'.manifestHash, manifestHash'} \ {None} : IsHash(h)
    PROVE  TypeInv'
<1>1. LogsInv'
  BY DEF TypeInv, LogsInv, chainVars
<1>2. HashesInv'
  BY DEF HashesInv, IsHash, chainVars
<1> QED
  BY <1>1, <1>2 DEF TypeInv, PlaceInv

LEMMA TypeSend ==
    ASSUME IInv, TypeInv, SendBatch \/ SendManifest \/ SendIndex
    PROVE  TypeInv'
<1>1. /\ UNCHANGED chainVars /\ pc' \in {"wait", "waitManifest", "waitIndex"}
      /\ UNCHANGED <<disk, manifestHash, faults, edits>>
  BY DEF SendBatch, SendManifest, SendIndex
<1>2. pc' = "wait" => txs'[Len(txs')].kind = "batch"
  <2>1. CASE SendBatch
    <3>1. PICK data : Send("batch", data, None)
      BY <2>1 DEF SendBatch
    <3>2. /\ Len(txs') = Len(txs) + 1
          /\ txs'[Len(txs) + 1] = [kind |-> "batch", data |-> data, ref |-> None,
                                   status |-> "pending", block |-> 0]
      BY <3>1, SendLemma DEF IInv
    <3> QED
      BY <3>2
  <2> QED
    BY <2>1 DEF SendManifest, SendIndex
<1> QED
  BY <1>1, <1>2, TypeCLI DEF TypeInv, PlaceInv, HashesInv, States

\* The manifest whose hash is saved has been mined.
LEMMA TypeManifest == IInv /\ TypeInv /\ ManifestConfirmed => TypeInv'
<1> SUFFICES ASSUME IInv, TypeInv, ManifestConfirmed PROVE TypeInv'
  OBVIOUS
<1> DEFINE t == Len(txs)
<1>1. /\ t \in DOMAIN txs /\ txs[t].kind = "manifest" /\ txs[t].status = "mined"
      /\ manifestHash' = Keccak(txs[t].data[1]) /\ disk'.manifestHash = manifestHash'
      /\ pc' = "local" /\ UNCHANGED chainVars /\ UNCHANGED <<faults, edits>>
  BY DEF ManifestConfirmed, IInv, LocalInv
<1>2. Log(txs[t].data[1], txs[t].block) \in logs
  BY <1>1 DEF IInv, SentInv, ManifestTxInv, MinedInv
<1>3. IsHash(manifestHash')
  BY <1>1, <1>2 DEF IsHash, Log
<1> HIDE DEF t
<1> QED
  BY <1>1, <1>3, TypeCLI DEF TypeInv, PlaceInv, States

LEMMA TypeQuiet ==
    ASSUME IInv, TypeInv,
           \/ Start \/ Proceed \/ BatchConfirmed \/ BatchReverted \/ MissingChunks
           \/ ManifestReverted \/ SaveLocalManifest \/ SkipIndex \/ IndexDone
           \/ Finish \/ Crash \/ BatchError \/ EditFolder \/ UNCHANGED vars
    PROVE  TypeInv'
<1>1. /\ UNCHANGED chainVars
      /\ pc' = "wait" => pc = "wait" /\ txs' = txs
      /\ pc' \in States
  BY DEF Start, Proceed, BatchConfirmed, BatchReverted, MissingChunks, ManifestReverted,
     SaveLocalManifest, SkipIndex, IndexDone, Finish, Crash, BatchError, EditFolder,
     Exit, vars, cliVars, chainVars, TypeInv, PlaceInv, States
<1>2. faults' \in 0 .. MaxFaults /\ edits' \in 0 .. MaxEdits
  BY UploadAssumption
     DEF Start, Proceed, BatchConfirmed, BatchReverted, MissingChunks, ManifestReverted,
     SaveLocalManifest, SkipIndex, IndexDone, Finish, Crash, BatchError, EditFolder,
     Fault, vars, TypeInv, PlaceInv
<1>3. {disk'.manifestHash, manifestHash'}
        \subseteq {disk.manifestHash, manifestHash} \union {None}
  BY DEF Start, Proceed, BatchConfirmed, BatchReverted, MissingChunks, ManifestReverted,
     SaveLocalManifest, SkipIndex, IndexDone, Finish, Crash, BatchError, EditFolder,
     Exit, vars, cliVars
<1>4. \A h \in {disk'.manifestHash, manifestHash'} \ {None} : IsHash(h)
  BY <1>3 DEF TypeInv, HashesInv
<1> QED
  BY <1>1, <1>2, <1>4, TypeCLI DEF TypeInv, PlaceInv

LEMMA TypeStep == IInv /\ TypeInv /\ [Next]_vars => TypeInv'
BY TypeMine, TypeSend, TypeManifest, TypeQuiet DEF Next, CLIStep, Mine

\* The types of the state, the kind of the transaction that is waited for, and
\* that only hashes of stored data are in memory or saved.
THEOREM UploadTypeCorrect == Spec => []TypeOK
<1>1. Init => TypeInv
  BY UploadAssumption
     DEF Init, ChainInit, NoState, TypeInv, LogsInv, PlaceInv, HashesInv, States
<1>2. IInv /\ TypeInv => TypeOK
  <2> SUFFICES ASSUME IInv, TypeInv PROVE TypeOK
    OBVIOUS
  <2>1. height \in Nat /\ \A i \in DOMAIN txs : txs[i].block \in 0 .. height
    BY DEF IInv, SentInv, TxsInv
  <2>2. \A i \in DOMAIN txs : /\ txs[i].kind \in {"batch", "manifest", "index"}
                              /\ txs[i].status \in {"pending", "mined", "failed"}
    <3>1. PICK D, R : txs \in Seq(Tx(D, R))
      BY DEF IInv, TxsSeq
    <3>2. \A i \in DOMAIN txs : txs[i] \in Tx(D, R)
      BY <3>1, ElementOfSeq, LenProperties
    <3> QED
      BY <3>2 DEF Tx
  <2>3. /\ pc = "wait" => txs # << >> /\ txs[Len(txs)].kind = "batch"
        /\ pc = "waitManifest" => txs # << >> /\ txs[Len(txs)].kind = "manifest"
    <3>1. Len(txs) \in DOMAIN txs => txs # << >>
      <4>1. DOMAIN << >> = {}
        OBVIOUS
      <4> QED
        BY <4>1
    <3> QED
      BY <3>1 DEF IInv, WaitInv, LocalInv, TypeInv, PlaceInv
  <2> QED
    BY <2>1, <2>2, <2>3 DEF TypeInv, LogsInv, PlaceInv, HashesInv, TypeOK
<1> QED
  BY <1>1, <1>2, TypeStep, Invariance, PTL DEF Spec

-----------------------------------------------------------------------------
(* The uploader implements the abstract publisher *)

\* What Publishing sees of the state, by name.
Written == {<<l.hash, l.block>> : l \in logs}
Manifests == {[id |-> Keccak(txs[i].data[1]), refs |-> Refs(txs[i].data[1])]
              : i \in Published}

LEMMA PubInit == Init => Pub!Init
<1> SUFFICES ASSUME Init PROVE Pub!Init
  OBVIOUS
<1>1. logs = {} /\ DOMAIN txs = {} /\ disk.manifestHash = None
  BY DEF Init, ChainInit, NoState
<1> QED
  BY <1>1 DEF Pub!Init, Published

\* A step after which the same transactions of the wallet are mined and the same
\* manifest is saved: content is written, or nothing happens.
LEMMA PubQuiet ==
    ASSUME logs \subseteq logs', Manifests' = Manifests,
           disk'.manifestHash = disk.manifestHash
    PROVE  [Pub!Next]_(Pub!vars)
<1>1. Written \subseteq Written'
  BY DEF Written
<1> QED
  BY <1>1 DEF Pub!Next, Pub!Write, Written, Manifests

\* Sending a transaction publishes nothing.
LEMMA PubSend ==
    ASSUME IInv, UNCHANGED <<logs, disk>>,
           NEW kind \in {"batch", "manifest", "index"}, NEW data, NEW ref,
           Send(kind, data, ref)
    PROVE  [Pub!Next]_(Pub!vars)
<1>1. /\ Len(txs) \in Nat /\ DOMAIN txs = 1 .. Len(txs)
      /\ DOMAIN txs' = DOMAIN txs \union {Len(txs) + 1}
      /\ \A i \in DOMAIN txs : txs'[i] = txs[i]
      /\ txs'[Len(txs) + 1].status = "pending"
  <2>1. TxsSeq
    BY DEF IInv
  <2>2. /\ Len(txs) \in Nat /\ DOMAIN txs = 1 .. Len(txs)
        /\ DOMAIN txs' = DOMAIN txs \union {Len(txs) + 1}
        /\ \A i \in DOMAIN txs : txs'[i] = txs[i]
        /\ txs'[Len(txs) + 1] = [kind |-> kind, data |-> data, ref |-> ref,
                                 status |-> "pending", block |-> 0]
    BY <2>1, SendLemma
  <2> QED
    BY <2>2
<1>2. Published' = Published
  <2>1. ASSUME NEW i PROVE i \in Published' <=> i \in Published
    BY <1>1 DEF Published
  <2> QED
    BY <2>1 DEF Published
<1>3. \A i \in Published : txs'[i] = txs[i]
  BY <1>1 DEF Published
<1>4. Manifests' = Manifests
  BY <1>2, <1>3 DEF Manifests
<1> QED
  BY <1>4, PubQuiet

\* A transaction that is no manifest, or is not mined, publishes nothing.
LEMMA PubSettle ==
    ASSUME IInv, NEW i \in DOMAIN txs, txs[i].status = "pending",
           NEW s \in {"mined", "failed"}, NEW b \in Nat, Settle(i, s, b),
           s = "failed" \/ txs[i].kind # "manifest",
           logs \subseteq logs', UNCHANGED disk
    PROVE  [Pub!Next]_(Pub!vars)
<1>1. /\ DOMAIN txs' = DOMAIN txs
      /\ \A j \in DOMAIN txs : j # i => txs'[j] = txs[j]
      /\ txs'[i].kind = txs[i].kind /\ txs'[i].data = txs[i].data
      /\ txs'[i].status = s
  BY SettleLemma DEF IInv
<1>2. Published' = Published /\ i \notin Published
  BY <1>1 DEF Published
<1>3. Manifests' = Manifests
  BY <1>1, <1>2 DEF Manifests, Published
<1> QED
  BY <1>3, PubQuiet

\* A manifest that is mined refers only to what has been written.
LEMMA PubMineManifest ==
    ASSUME IInv, NEW i \in DOMAIN txs, MineManifest(i)
    PROVE  [Pub!Next]_(Pub!vars)
<1> DEFINE m == [id |-> Keccak(txs[i].data[1]), refs |-> Refs(txs[i].data[1])]
<1>1. /\ txs[i].kind = "manifest" /\ txs[i].status = "pending"
      /\ Settle(i, "mined", height + 1) /\ height + 1 \in Nat
      /\ logs \subseteq logs' /\ disk' = disk
  BY DEF MineManifest, StoreManifest, NextTx, IInv, SentInv, TxsInv
<1>2. /\ DOMAIN txs' = DOMAIN txs
      /\ \A j \in DOMAIN txs : j # i => txs'[j] = txs[j]
      /\ txs'[i].kind = txs[i].kind /\ txs'[i].data = txs[i].data
      /\ txs'[i].status = "mined"
  BY <1>1, SettleLemma DEF IInv
<1>3. Published' = Published \union {i}
  BY <1>1, <1>2 DEF Published
<1>4. \A j \in Published : txs'[j].data = txs[j].data
  BY <1>2 DEF Published
<1>5. Manifests' = Manifests \union {m}
  BY <1>2, <1>3, <1>4 DEF Manifests
<1>6. m.refs \subseteq Written
  <2>1. RefsOld(txs[i].data[1], height)
    BY <1>1 DEF IInv, SentInv, ManifestTxInv
  <2> QED
    BY <2>1 DEF RefsOld, OnChain, Refs, Written
<1>7. Written \subseteq Written'
  BY <1>1 DEF Written
<1> HIDE DEF m
<1> QED
  BY <1>1, <1>5, <1>6, <1>7 DEF Pub!Next, Pub!Publish, Written, Manifests

\* The state file names the manifest of the transaction that was waited for.
LEMMA PubManifestConfirmed ==
    ASSUME IInv, ManifestConfirmed
    PROVE  [Pub!Next]_(Pub!vars)
<1> DEFINE t == Len(txs)
<1>1. /\ t \in DOMAIN txs /\ txs[t].kind = "manifest" /\ txs[t].status = "mined"
      /\ disk'.manifestHash = Keccak(txs[t].data[1])
      /\ UNCHANGED <<logs, txs>>
  BY DEF ManifestConfirmed, IInv, LocalInv, chainVars
<1>2. t \in Published
  BY <1>1 DEF Published
<1>3. disk'.manifestHash \in {m.id : m \in Manifests}
  <2> DEFINE r == [id |-> Keccak(txs[t].data[1]), refs |-> Refs(txs[t].data[1])]
  <2>1. r \in Manifests
    BY <1>2 DEF Manifests
  <2>2. r.id = disk'.manifestHash
    BY <1>1
  <2> QED
    BY <2>1, <2>2
<1>4. Manifests' = Manifests /\ Written' = Written
  BY <1>1 DEF Manifests, Published, Written
<1> QED
  BY <1>3, <1>4 DEF Pub!Next, Pub!Announce, Written, Manifests

\* The other steps: nothing is mined, and the saved hash stays.
LEMMA PubOther ==
    ASSUME IInv, UNCHANGED <<logs, txs>>, disk'.manifestHash = disk.manifestHash
    PROVE  [Pub!Next]_(Pub!vars)
<1>1. Manifests' = Manifests
  BY DEF Manifests, Published
<1> QED
  BY <1>1, PubQuiet

\* A running process holds the manifest hash of the state file.
HashInv == pc # "idle" => manifestHash = disk.manifestHash

LEMMA HashStep == HashInv /\ [Next]_vars => HashInv'
<1> SUFFICES ASSUME HashInv, [Next]_vars PROVE HashInv'
  OBVIOUS
<1> USE DEF HashInv
<1>1. CASE UNCHANGED vars
  BY <1>1 DEF vars, cliVars
<1>2. CASE Start
  BY <1>2 DEF Start, cliVars
<1>3. CASE CLIStep
  BY <1>3 DEF CLIStep, Proceed, SendBatch, BatchConfirmed, BatchReverted,
     MissingChunks, SendManifest, ManifestConfirmed, ManifestReverted,
     SaveLocalManifest, SendIndex, SkipIndex, IndexDone, Finish, Exit
<1>4. CASE Mine
  BY <1>4 DEF Mine, MineBatch, MineManifest, MineIndex, cliVars
<1>5. CASE Crash \/ BatchError \/ EditFolder
  BY <1>5 DEF Crash, BatchError, EditFolder, Exit, cliVars
<1>6. CASE \E i \in DOMAIN txs : FailTx(i)
  BY <1>6 DEF FailTx, cliVars
<1> QED
  BY <1>1, <1>2, <1>3, <1>4, <1>5, <1>6 DEF Next

LEMMA PubMine ==
    ASSUME IInv, NEW i \in DOMAIN txs,
           MineBatch(i) \/ MineIndex(i) \/ FailTx(i)
    PROVE  [Pub!Next]_(Pub!vars)
<1>1. /\ txs[i].status = "pending" /\ disk' = disk
      /\ height \in Nat /\ height + 1 \in Nat
  BY DEF MineBatch, MineIndex, FailTx, NextTx, IInv, SentInv, TxsInv
<1>2. logs \subseteq logs'
  BY DEF MineBatch, MineIndex, FailTx, Store, StoreBatch, chainVars
<1>3. \/ txs[i].kind # "manifest" /\ Settle(i, "mined", height + 1)
      \/ Settle(i, "failed", height + 1)
      \/ Settle(i, "failed", height)
  BY DEF MineBatch, MineIndex, FailTx
<1> QED
  BY <1>1, <1>2, <1>3, PubSettle

LEMMA PubStep == IInv /\ HashInv /\ [Next]_vars => [Pub!Next]_(Pub!vars)
<1> SUFFICES ASSUME IInv, HashInv, [Next]_vars PROVE [Pub!Next]_(Pub!vars)
  OBVIOUS
<1>1. CASE SendBatch \/ SendManifest \/ SendIndex
  BY <1>1, PubSend DEF SendBatch, SendManifest, SendIndex, chainVars
<1>2. CASE ManifestConfirmed
  BY <1>2, PubManifestConfirmed
<1>3. CASE \/ Proceed \/ MissingChunks \/ ManifestReverted \/ SaveLocalManifest
           \/ SkipIndex \/ IndexDone \/ Finish \/ Start \/ Crash \/ EditFolder
           \/ UNCHANGED vars
  <2>1. UNCHANGED <<logs, txs, disk>>
    BY <1>3 DEF Proceed, MissingChunks, ManifestReverted, SaveLocalManifest,
       SkipIndex, IndexDone, Finish, Start, Crash, EditFolder, vars, chainVars
  <2> QED
    BY <2>1, PubOther
<1>4. CASE BatchConfirmed \/ BatchReverted \/ BatchError
  <2>1. UNCHANGED <<logs, txs>> /\ disk'.manifestHash = disk.manifestHash
    BY <1>4 DEF BatchConfirmed, BatchReverted, BatchError, HashInv, chainVars
  <2> QED
    BY <2>1, PubOther
<1>5. CASE Mine \/ \E i \in DOMAIN txs : FailTx(i)
  BY <1>5, PubMine, PubMineManifest DEF Mine
<1> QED
  BY <1>1, <1>2, <1>3, <1>4, <1>5 DEF Next, CLIStep

\* The uploader implements the abstract publisher: whatever crashes, fails, is
\* run again or edited, a manifest is published only over what is written, and
\* the state file names only a manifest that is published.
THEOREM UploadPublishes == Spec => Publishes
<1>1. Init => HashInv
  BY DEF Init, HashInv
<1> QED
  BY <1>1, PubInit, PubStep, HashStep, Invariance, PTL DEF Spec, Publishes, Pub!Spec

-----------------------------------------------------------------------------
(* A fault costs one batch *)

\* Files have different indices.
LEMMA IndexOfOne ==
    ASSUME NEW fs, DOMAIN fs \subseteq Nat, IsFiniteSet(DOMAIN fs),
           NEW n \in DOMAIN fs, NEW m \in DOMAIN fs, FileIndex(fs, n) = FileIndex(fs, m)
    PROVE  n = m
<1>1. ASSUME NEW x \in DOMAIN fs, NEW y \in DOMAIN fs, x < y,
             FileIndex(fs, x) = FileIndex(fs, y)
      PROVE  FALSE
  <2> DEFINE X == {k \in DOMAIN fs : k < x}
             Y == {k \in DOMAIN fs : k < y}
  <2>1. x \in Nat /\ y \in Nat /\ \A k \in DOMAIN fs : k \in Nat
    OBVIOUS
  <2>2. X \subseteq Y /\ x \in Y /\ x \notin X
    BY <1>1, <2>1
  <2>3. Cardinality(X) = Cardinality(Y)
    BY <1>1 DEF FileIndex
  <2>4. Y \in SUBSET DOMAIN fs
    OBVIOUS
  <2> HIDE DEF X, Y
  <2>5. IsFiniteSet(Y)
    BY <2>4, FS_Subset
  <2>6. X = Y
    BY <2>2, <2>3, <2>5, FS_Subset
  <2> QED
    BY <2>2, <2>6
<1>2. n \in Nat /\ m \in Nat
  OBVIOUS
<1> QED
  BY <1>1, <1>2

\* Units have different keys, which can be compared.
LEMMA KeysDiffer ==
    ASSUME NEW fs \in Folders
    PROVE  /\ \A u \in AllUnits(fs) : u.file \in Nat /\ u.chunk \in Nat
           /\ \A u, v \in AllUnits(fs) : Key(u) = Key(v) => u = v
<1> DEFINE unit(n, c) == [file |-> FileIndex(fs, n), chunk |-> c, total |-> Len(fs[n]),
                          data |-> fs[n][c + 1]]
<1>1. /\ DOMAIN fs \subseteq Nat /\ IsFiniteSet(DOMAIN fs)
      /\ \A n \in DOMAIN fs : fs[n] \in Seq(Chunk)
  BY UploadAssumption
<1>2. ASSUME NEW n \in DOMAIN fs PROVE Len(fs[n]) \in Nat /\ FileIndex(fs, n) \in Nat
  <2> DEFINE X == {m \in DOMAIN fs : m < n}
  <2>1. X \in SUBSET DOMAIN fs
    OBVIOUS
  <2> HIDE DEF X
  <2>2. Cardinality(X) \in Nat
    BY <1>1, <2>1, FS_Subset, FS_CardinalityType
  <2> QED
    BY <1>1, <2>2, LenProperties DEF FileIndex, X
<1>3. ASSUME NEW u \in AllUnits(fs)
      PROVE  \E n \in DOMAIN fs : \E c \in Nat : u = unit(n, c)
  <2>1. PICK n \in DOMAIN fs : \E c \in 0 .. Len(fs[n]) - 1 : u = unit(n, c)
    BY <1>3 DEF AllUnits
  <2>2. \A c \in 0 .. Len(fs[n]) - 1 : c \in Nat
    BY <1>2
  <2> QED
    BY <2>1, <2>2
<1>4. ASSUME NEW n \in DOMAIN fs, NEW m \in DOMAIN fs, NEW c \in Nat, NEW d \in Nat,
             Key(unit(n, c)) = Key(unit(m, d))
      PROVE  unit(n, c) = unit(m, d)
  <2>1. FileIndex(fs, n) = FileIndex(fs, m) /\ c = d
    BY <1>4 DEF Key
  <2>2. n = m
    BY <1>1, <2>1, IndexOfOne
  <2> QED
    BY <2>1, <2>2
<1>5. \A n \in DOMAIN fs, c \in Nat : unit(n, c).file \in Nat /\ unit(n, c).chunk \in Nat
  BY <1>2
<1> HIDE DEF unit
<1> QED
  BY <1>3, <1>4, <1>5

\* The next batch of units that are left is not empty.
LEMMA NextBatchSome ==
    ASSUME NEW fs \in Folders, NEW us, us \subseteq AllUnits(fs), us # {}
    PROVE  NextBatch(us) # {}
<1> DEFINE R == OpToRel(<, Nat)
           L == LexPairOrdering(R, R, Nat, Nat)
           K == {Key(u) : u \in us}
<1>1. IsWellFoundedOn(R, Nat)
  BY NatLessThanWellFounded
<1>2. \A a, b \in Nat : <<a, b>> \in R <=> a < b
  BY DEF OpToRel
<1> HIDE DEF R
<1>3. IsWellFoundedOn(L, Nat \X Nat)
  BY <1>1, WFLexPairOrdering
<1>4. \A u \in us : u.file \in Nat /\ u.chunk \in Nat
  BY KeysDiffer
<1>5. \A a, b, c, d \in Nat : <<<<a, b>>, <<c, d>>>> \in L <=> a < c \/ (a = c /\ b < d)
  BY <1>2 DEF LexPairOrdering
<1> HIDE DEF L
<1>6. K \subseteq Nat \X Nat /\ K # {}
  <2>1. ASSUME NEW u \in us PROVE Key(u) \in Nat \X Nat
    BY <1>4 DEF Key
  <2> QED
    BY <2>1
<1> HIDE DEF K
<1>7. PICK x \in K : \A y \in K : ~(<<y, x>> \in L)
  BY <1>3, <1>6, WFMin
<1>8. PICK u \in us : x = Key(u)
  BY DEF K
<1>9. ASSUME NEW v \in us, v # u PROVE Precedes(u, v)
  <2>1. ~(v.file < u.file \/ (v.file = u.file /\ v.chunk < u.chunk))
    <3>1. Key(v) \in K
      BY DEF K
    <3>2. ~(<<Key(v), Key(u)>> \in L)
      BY <1>7, <1>8, <3>1
    <3> QED
      BY <1>4, <1>5, <3>2 DEF Key
  <2>2. ~(v.file = u.file /\ v.chunk = u.chunk)
    BY <1>9, KeysDiffer DEF Key
  <2> QED
    BY <1>4, <2>1, <2>2 DEF Precedes
<1>10. ~Precedes(u, u)
  BY <1>4 DEF Precedes
<1> DEFINE p == us \ {v \in us : Precedes(u, v)}
<1>11. p = {u}
  BY <1>9, <1>10
<1>12. Fits(p)
  BY <1>11, FS_Singleton DEF Fits
<1>13. u \in NextBatch(us)
  BY <1>11, <1>12 DEF NextBatch
<1> QED
  BY <1>13

\* The batches that no entry of the state file stands for.
Lost == {i \in DOMAIN txs : txs[i].kind = "batch" /\ \A c \in disk.chunks : c.tx # i}

InFlight == IF pc = "wait" /\ txs[Len(txs)].status # "failed" THEN 1 ELSE 0

\* In a folder nobody has touched, no entry of the state file is stale.
Tidy == /\ folder \in Folders
        /\ \A c \in disk.chunks : c.tx \in DOMAIN txs
        /\ Valid(disk.chunks, AllUnits(folder)) = disk.chunks
        /\ pc # "idle" => chunks = disk.chunks
        /\ remaining \subseteq AllUnits(folder)
        /\ pc = "wait" => /\ \A k \in DOMAIN batch : batch[k] \in AllUnits(folder)
                          /\ DOMAIN batch # {}
                          /\ \A c \in disk.chunks : c.tx # Len(txs)

\* Every lost batch but the one in flight is paid for by a fault.
FewLost == Cardinality(Lost) <= faults + InFlight

FaultInv == edits = 0 /\ disk.manifestHash = None => Tidy /\ FewLost

\* None stands for "no hash": it is the hash of nothing.
NoHashIsNone == \A d : Keccak(d) # None

LEMMA LostFinite ==
    ASSUME IInv
    PROVE  /\ IsFiniteSet(Lost) /\ Cardinality(Lost) \in Nat
           /\ Len(txs) \in Nat /\ DOMAIN txs = 1 .. Len(txs)
<1>1. Len(txs) \in Nat /\ DOMAIN txs = 1 .. Len(txs)
  BY LenProperties DEF IInv, TxsSeq
<1>2. IsFiniteSet(1 .. Len(txs))
  BY <1>1, FS_Interval
<1>3. Lost \subseteq 1 .. Len(txs)
  BY <1>1 DEF Lost
<1> QED
  BY <1>1, <1>2, <1>3, FS_Subset, FS_CardinalityType

\* Where the claim is made after a step, it was made before it.
LEMMA ClaimKept ==
    ASSUME NoHashIsNone, TypeInv, HashInv, [Next]_vars,
           edits' = 0, disk'.manifestHash = None
    PROVE  edits = 0 /\ disk.manifestHash = None /\ ~EditFolder /\ ~ManifestConfirmed
<1>1. edits \in Nat
  BY UploadAssumption DEF TypeInv, PlaceInv
<1>2. ~EditFolder
  BY <1>1 DEF EditFolder
<1>3. ~ManifestConfirmed
  BY DEF ManifestConfirmed, NoHashIsNone
<1>4. CASE UNCHANGED vars
  BY <1>2, <1>3, <1>4 DEF vars
<1>5. CASE Start \/ CLIStep
  BY <1>2, <1>3, <1>5 DEF Start, CLIStep, Proceed, SendBatch, BatchConfirmed, BatchReverted,
     MissingChunks, SendManifest, ManifestReverted, SaveLocalManifest, SendIndex,
     SkipIndex, IndexDone, Finish, HashInv
<1>6. CASE Mine \/ \E i \in DOMAIN txs : FailTx(i)
  BY <1>2, <1>3, <1>6 DEF Mine, MineBatch, MineManifest, MineIndex, FailTx
<1>7. CASE Crash \/ BatchError
  BY <1>2, <1>3, <1>7 DEF Crash, BatchError, HashInv
<1> QED
  BY <1>2, <1>4, <1>5, <1>6, <1>7 DEF Next

\* The chain settles a transaction: no batch is lost without a fault.
LEMMA FaultChain ==
    ASSUME IInv, TypeInv, Tidy, FewLost, NEW i \in DOMAIN txs,
           MineBatch(i) \/ MineManifest(i) \/ MineIndex(i) \/ FailTx(i)
    PROVE  Tidy' /\ FewLost'
<1>1. /\ UNCHANGED <<folder, disk, pc, remaining, batch, chunks>>
      /\ txs[i].status = "pending" /\ height \in Nat /\ height + 1 \in Nat
  BY DEF MineBatch, MineManifest, MineIndex, FailTx, NextTx, cliVars, IInv, SentInv, TxsInv
<1>2. \E s \in {"mined", "failed"}, b \in Nat :
        /\ Settle(i, s, b)
        /\ \/ faults' = faults + 1
           \/ faults' = faults /\ (s = "mined" \/ txs[i].kind = "index")
  <2>1. CASE MineBatch(i) \/ MineManifest(i)
    BY <1>1, <2>1 DEF MineBatch, MineManifest
  <2>2. CASE MineIndex(i)
    BY <1>1, <2>2 DEF MineIndex
  <2>3. CASE FailTx(i)
    BY <1>1, <2>3 DEF FailTx, Fault
  <2> QED
    BY <2>1, <2>2, <2>3
<1>3. PICK s \in {"mined", "failed"}, b \in Nat :
        /\ Settle(i, s, b)
        /\ \/ faults' = faults + 1
           \/ faults' = faults /\ (s = "mined" \/ txs[i].kind = "index")
  BY <1>2
<1>4. /\ Len(txs') = Len(txs) /\ DOMAIN txs' = DOMAIN txs
      /\ \A j \in DOMAIN txs : j # i => txs'[j] = txs[j]
      /\ txs'[i].kind = txs[i].kind /\ txs'[i].status = s
  BY <1>3, SettleLemma DEF IInv
<1>5. Lost' = Lost
  BY <1>1, <1>4 DEF Lost
<1>6. faults \in Nat /\ (pc = "wait" => txs[Len(txs)].kind = "batch")
  BY UploadAssumption DEF TypeInv, PlaceInv
<1>7. pc = "wait" => Len(txs) \in DOMAIN txs
  BY DEF IInv, WaitInv
<1>8. faults' + InFlight' >= faults + InFlight /\ faults' \in Nat
  <2>1. \/ faults' = faults + 1
        \/ faults' = faults /\ InFlight' = InFlight
    <3> SUFFICES ASSUME faults' = faults, s = "mined" \/ txs[i].kind = "index"
                 PROVE  InFlight' = InFlight
      BY <1>3
    <3>1. CASE pc # "wait"
      BY <1>1, <3>1 DEF InFlight
    <3>2. CASE pc = "wait" /\ i # Len(txs)
      BY <1>1, <1>4, <1>7, <3>2 DEF InFlight
    <3>3. CASE pc = "wait" /\ i = Len(txs)
      BY <1>1, <1>4, <1>6, <3>3 DEF InFlight
    <3> QED
      BY <3>1, <3>2, <3>3
  <2>2. InFlight \in 0 .. 1 /\ InFlight' \in 0 .. 1
    BY DEF InFlight
  <2> QED
    BY <1>6, <2>1, <2>2
<1>9. FewLost'
  BY <1>5, <1>6, <1>8, LostFinite DEF FewLost, InFlight
<1>10. Tidy'
  BY <1>1, <1>4 DEF Tidy
<1> QED
  BY <1>9, <1>10

\* The steps that neither send nor record anything.
LEMMA FaultQuiet ==
    ASSUME IInv, TypeInv, Tidy, FewLost,
           \/ Start \/ Proceed \/ BatchReverted \/ MissingChunks \/ ManifestReverted
           \/ SkipIndex \/ IndexDone \/ Finish \/ Crash \/ BatchError \/ UNCHANGED vars
    PROVE  Tidy' /\ FewLost'
<1>1. /\ UNCHANGED <<txs, folder>> /\ disk'.chunks = disk.chunks
      /\ pc' = "wait" => pc = "wait" /\ batch' = batch
      /\ pc' # "idle" => chunks' = disk.chunks
  BY DEF Start, Proceed, BatchReverted, MissingChunks, ManifestReverted, SkipIndex,
     IndexDone, Finish, Crash, BatchError, Exit, vars, cliVars, Tidy
<1>2. remaining' \subseteq AllUnits(folder)
  BY DEF Start, Proceed, BatchReverted, MissingChunks, ManifestReverted, SkipIndex,
     IndexDone, Finish, Crash, BatchError, Exit, vars, cliVars, Tidy, Unconfirmed
<1>3. faults \in Nat
  BY UploadAssumption DEF TypeInv, PlaceInv
<1>4. \/ faults' = faults + 1
      \/ faults' = faults /\ InFlight' = InFlight
  BY DEF Start, Proceed, BatchReverted, MissingChunks, ManifestReverted, SkipIndex,
     IndexDone, Finish, Crash, BatchError, Fault, Exit, vars, cliVars, InFlight
<1>5. InFlight \in 0 .. 1 /\ InFlight' \in 0 .. 1
  BY DEF InFlight
<1>6. Lost' = Lost
  BY <1>1 DEF Lost
<1>7. FewLost'
  BY <1>3, <1>4, <1>5, <1>6, LostFinite DEF FewLost
<1>8. Tidy'
  BY <1>1, <1>2 DEF Tidy
<1> QED
  BY <1>7, <1>8

\* A batch that is sent is the only one in flight.
LEMMA FaultSendBatch ==
    ASSUME IInv, TypeInv, Tidy, FewLost, SendBatch
    PROVE  Tidy' /\ FewLost'
<1> DEFINE n == Len(txs) + 1
<1>1. PICK b \in SortedBy(NextBatch(remaining), Precedes) :
        /\ Send("batch", [k \in DOMAIN b |-> b[k].data], None)
        /\ batch' = b
  BY DEF SendBatch
<1>2. PICK data : Send("batch", data, None)
  BY <1>1
<1>3. /\ Len(txs)' = n /\ DOMAIN txs' = DOMAIN txs \union {n}
      /\ \A i \in DOMAIN txs : txs'[i] = txs[i]
      /\ txs'[n].status = "pending" /\ n \notin DOMAIN txs
  <2>1. /\ Len(txs) \in Nat /\ DOMAIN txs = 1 .. Len(txs)
        /\ Len(txs)' = n /\ DOMAIN txs' = DOMAIN txs \union {n}
        /\ \A i \in DOMAIN txs : txs'[i] = txs[i]
        /\ txs'[n] = [kind |-> "batch", data |-> data, ref |-> None,
                      status |-> "pending", block |-> 0]
    BY <1>2, SendLemma DEF IInv
  <2> QED
    BY <2>1
<1> HIDE DEF n
<1>4. /\ UNCHANGED <<folder, disk, chunks, faults>> /\ pc = "batch" /\ pc' = "wait"
      /\ remaining # {} /\ remaining' \subseteq remaining
  BY DEF SendBatch
<1>5. NextBatch(remaining) \subseteq AllUnits(folder) /\ NextBatch(remaining) # {}
  BY <1>4, NextBatchSome DEF Tidy, NextBatch
<1>6. /\ DOMAIN batch' # {}
      /\ \A k \in DOMAIN batch' : batch'[k] \in NextBatch(remaining)
  <2> DEFINE N == NextBatch(remaining)
  <2>1. IsFiniteSet(N)
    <3>1. N \subseteq remaining
      BY DEF NextBatch
    <3> HIDE DEF N
    <3> QED
      BY <3>1, FS_Subset DEF IInv, RemainingInv
  <2>2. N # {}
    BY <1>5
  <2>3. b \in [1 .. Cardinality(N) -> N]
    BY DEF SortedBy
  <2> HIDE DEF N
  <2>4. Cardinality(N) \in Nat /\ Cardinality(N) # 0
    BY <2>1, <2>2, FS_CardinalityType, FS_EmptySet
  <2>5. 1 \in 1 .. Cardinality(N)
    BY <2>4
  <2> QED
    BY <1>1, <2>3, <2>5 DEF N
<1>7. Tidy'
  BY <1>3, <1>4, <1>5, <1>6 DEF Tidy
<1>8. Lost' \subseteq Lost \union {n}
  BY <1>3, <1>4 DEF Lost
<1>9. Cardinality(Lost') <= Cardinality(Lost) + 1
  <2>1. /\ IsFiniteSet(Lost \union {n})
        /\ Cardinality(Lost \union {n}) <= Cardinality(Lost) + 1
    <3>1. IsFiniteSet(Lost) /\ Cardinality(Lost) \in Nat
      BY LostFinite
    <3>2. /\ IsFiniteSet(Lost \union {n})
          /\ Cardinality(Lost \union {n})
               = IF n \in Lost THEN Cardinality(Lost) ELSE Cardinality(Lost) + 1
      BY <3>1, FS_AddElement
    <3> QED
      BY <3>1, <3>2
  <2>2. Cardinality(Lost \union {n}) \in Nat /\ Cardinality(Lost') \in Nat
        /\ Cardinality(Lost') <= Cardinality(Lost \union {n})
    BY <1>8, <2>1, FS_Subset, FS_CardinalityType
  <2> QED
    BY <2>1, <2>2, LostFinite
<1>10. InFlight = 0 /\ InFlight' = 1
  BY <1>3, <1>4 DEF InFlight
<1>11. IsFiniteSet(Lost') /\ Cardinality(Lost') \in Nat
  BY <1>8, LostFinite, FS_AddElement, FS_Subset, FS_CardinalityType
<1>12. FewLost'
  <2>1. faults \in Nat
    BY UploadAssumption DEF TypeInv, PlaceInv
  <2> QED
    BY <1>4, <1>9, <1>10, <1>11, <2>1, LostFinite DEF FewLost
<1> QED
  BY <1>7, <1>12

\* A batch that is recorded is not lost any more.
LEMMA FaultConfirmed ==
    ASSUME IInv, TypeInv, Tidy, FewLost, BatchConfirmed
    PROVE  Tidy' /\ FewLost'
<1> DEFINE n == Len(txs)
<1>1. PICK f \in HashToUnit(batch) : chunks' = chunks \union Confirmed(batch, f, n)
  BY DEF BatchConfirmed
<1>2. /\ n \in DOMAIN txs /\ txs[n].kind = "batch" /\ txs[n].status = "mined"
      /\ pc = "wait" /\ pc' = "batch" /\ disk'.chunks = chunks'
      /\ UNCHANGED <<txs, folder, remaining, faults>>
  BY DEF BatchConfirmed, IInv, WaitInv, TypeInv, PlaceInv
<1>3. /\ chunks = disk.chunks /\ n \in Lost
      /\ disk'.chunks = disk.chunks \union Confirmed(batch, f, n)
  BY <1>1, <1>2 DEF Tidy, Lost
<1>4. \A c \in Confirmed(batch, f, n) :
        c.tx = n /\ \E u \in AllUnits(folder) : Key(u) = Key(c) /\ u.total = c.total
  <2> SUFFICES ASSUME NEW k \in DOMAIN batch
               PROVE  \E u \in AllUnits(folder) :
                        /\ Key(u) = <<batch[f[k]].file, batch[f[k]].chunk>>
                        /\ u.total = batch[f[k]].total
    BY DEF Confirmed, Key
  <2>1. f[k] \in DOMAIN batch
    BY DEF HashToUnit
  <2> QED
    BY <1>2, <2>1 DEF Tidy, Key
<1>5. \E c \in Confirmed(batch, f, n) : c.tx = n
  <2>1. Confirmed(batch, f, n) # {}
    <3>1. PICK k : k \in DOMAIN batch
      BY <1>2 DEF Tidy
    <3> QED
      BY <3>1 DEF Confirmed
  <2> QED
    BY <1>4, <2>1
<1> HIDE DEF n
<1>6. Tidy'
  <2>1. Valid(disk'.chunks, AllUnits(folder)) = disk'.chunks
    BY <1>3, <1>4 DEF Tidy, Valid
  <2>2. \A c \in disk'.chunks : c.tx \in DOMAIN txs'
    BY <1>2, <1>3, <1>4 DEF Tidy
  <2> QED
    BY <1>2, <2>1, <2>2 DEF Tidy
<1>7. Lost' \subseteq Lost \ {n}
  BY <1>2, <1>3, <1>5 DEF Lost
<1>8. /\ IsFiniteSet(Lost \ {n})
      /\ Cardinality(Lost \ {n}) = Cardinality(Lost) - 1
  BY <1>3, LostFinite, FS_RemoveElement
<1>9. /\ Cardinality(Lost') \in Nat /\ Cardinality(Lost \ {n}) \in Nat
      /\ Cardinality(Lost') <= Cardinality(Lost \ {n})
  BY <1>7, <1>8, FS_Subset, FS_CardinalityType
<1>10. InFlight = 1 /\ InFlight' = 0
  BY <1>2 DEF InFlight, n
<1>11. faults \in Nat
  BY UploadAssumption DEF TypeInv, PlaceInv
<1>12. FewLost'
  BY <1>2, <1>8, <1>9, <1>10, <1>11, LostFinite DEF FewLost
<1> QED
  BY <1>6, <1>12

LEMMA FaultSendManifest ==
    ASSUME IInv, TypeInv, Tidy, FewLost, SendManifest
    PROVE  Tidy' /\ FewLost'
<1> DEFINE n == Len(txs) + 1
<1>1. PICK data : Send("manifest", data, None)
  BY DEF SendManifest
<1>2. /\ DOMAIN txs' = DOMAIN txs \union {n}
      /\ \A i \in DOMAIN txs : txs'[i] = txs[i]
      /\ txs'[n].kind = "manifest"
  <2>1. /\ DOMAIN txs' = DOMAIN txs \union {n}
        /\ \A i \in DOMAIN txs : txs'[i] = txs[i]
        /\ txs'[n] = [kind |-> "manifest", data |-> data, ref |-> None,
                      status |-> "pending", block |-> 0]
    BY <1>1, SendLemma DEF IInv
  <2> QED
    BY <2>1
<1>3. /\ UNCHANGED <<folder, disk, chunks, remaining, faults>>
      /\ pc = "batch" /\ pc' = "waitManifest"
  BY DEF SendManifest
<1> HIDE DEF n
<1>4. Lost' = Lost
  BY <1>2, <1>3 DEF Lost
<1>5. FewLost'
  BY <1>3, <1>4 DEF FewLost, InFlight
<1>6. Tidy'
  BY <1>2, <1>3 DEF Tidy
<1> QED
  BY <1>5, <1>6

LEMMA FaultStep ==
    ASSUME NoHashIsNone, IInv, TypeInv, HashInv, FaultInv, [Next]_vars
    PROVE  FaultInv'
<1> SUFFICES ASSUME edits' = 0, disk'.manifestHash = None
             PROVE  Tidy' /\ FewLost'
  BY DEF FaultInv
<1>1. /\ Tidy /\ FewLost /\ disk.manifestHash = None
      /\ ~EditFolder /\ ~ManifestConfirmed
  BY ClaimKept DEF FaultInv
<1>2. ~SaveLocalManifest /\ ~SendIndex
  <2>1. pc \in {"local", "index"} => manifestHash # None
    BY DEF IInv, LocalInv, NoHashIsNone
  <2> QED
    BY <1>1, <2>1 DEF SaveLocalManifest, SendIndex, HashInv
<1>3. CASE \/ Start \/ Proceed \/ BatchReverted \/ MissingChunks \/ ManifestReverted
           \/ SkipIndex \/ IndexDone \/ Finish \/ Crash \/ BatchError \/ UNCHANGED vars
  BY <1>1, <1>3, FaultQuiet
<1>4. CASE SendBatch \/ BatchConfirmed \/ SendManifest
  BY <1>1, <1>4, FaultSendBatch, FaultConfirmed, FaultSendManifest
<1>5. CASE Mine \/ \E i \in DOMAIN txs : FailTx(i)
  BY <1>1, <1>5, FaultChain DEF Mine
<1> QED
  BY <1>1, <1>2, <1>3, <1>4, <1>5 DEF Next, CLIStep

LEMMA FaultInit == Init => FaultInv /\ HashInv /\ TypeInv
<1> SUFFICES ASSUME Init PROVE FaultInv /\ HashInv /\ TypeInv
  OBVIOUS
<1>1. TypeInv
  BY UploadAssumption
     DEF Init, ChainInit, NoState, TypeInv, LogsInv, PlaceInv, HashesInv, States
<1>2. Tidy /\ HashInv
  BY DEF Init, NoState, Tidy, Valid, HashInv
<1>3. Lost = {} /\ faults = 0 /\ InFlight = 0
  BY DEF Init, Lost, InFlight
<1>4. FewLost
  BY <1>3, FS_EmptySet DEF FewLost
<1> QED
  BY <1>1, <1>2, <1>4 DEF FaultInv

\* As long as the user leaves the folder alone and the manifest is not saved,
\* a crash, a failed call or a failed transaction costs at most one batch: all
\* others are in the state file, and no run sends them again.
THEOREM UploadFaultCostsOneBatch ==
    ASSUME NoHashIsNone
    PROVE  Spec => []FaultCostsOneBatch
<1>1. Init => FaultInv /\ HashInv /\ TypeInv
  BY FaultInit
<1>2. IInv /\ TypeInv /\ HashInv /\ FaultInv /\ [Next]_vars => FaultInv'
  BY FaultStep
<1>3. IInv /\ TypeInv /\ FaultInv => FaultCostsOneBatch
  <2> SUFFICES ASSUME IInv, TypeInv, FewLost
               PROVE  Cardinality(Lost) <= faults + (IF pc = "wait" THEN 1 ELSE 0)
    BY DEF FaultInv, FaultCostsOneBatch, Lost
  <2>1. faults \in Nat
    BY UploadAssumption DEF TypeInv, PlaceInv
  <2> QED
    BY <2>1, LostFinite DEF FewLost, InFlight
<1> QED
  BY <1>1, <1>2, <1>3, TypeStep, HashStep, Invariance, PTL DEF Spec

-----------------------------------------------------------------------------
(* Every manifest describes the folder *)

\* The units of a folder: a file's are its chunks, from 0, without a gap.
LEMMA UnitFacts ==
    ASSUME NEW fs \in Folders
    PROVE  /\ \A u \in AllUnits(fs) : /\ u.file \in Nat /\ u.chunk \in Nat /\ u.total \in Nat
                                      /\ u.chunk < u.total
           /\ \A u, v \in AllUnits(fs) : u.file = v.file => u.total = v.total
           /\ \A n \in DOMAIN fs, c \in Nat : c < Len(fs[n]) =>
                [file |-> FileIndex(fs, n), chunk |-> c, total |-> Len(fs[n]),
                 data |-> fs[n][c + 1]] \in AllUnits(fs)
           /\ \A u \in AllUnits(fs), n \in DOMAIN fs : u.file = FileIndex(fs, n) =>
                /\ u.total = Len(fs[n]) /\ u.data = fs[n][u.chunk + 1]
           /\ \A u \in AllUnits(fs) : \E n \in DOMAIN fs : u.file = FileIndex(fs, n)
<1> DEFINE unit(n, c) == [file |-> FileIndex(fs, n), chunk |-> c, total |-> Len(fs[n]),
                          data |-> fs[n][c + 1]]
<1>1. /\ DOMAIN fs \subseteq Nat /\ IsFiniteSet(DOMAIN fs)
      /\ \A n \in DOMAIN fs : Len(fs[n]) \in Nat
  BY UploadAssumption, LenProperties
<1>2. ASSUME NEW u \in AllUnits(fs)
      PROVE  \E n \in DOMAIN fs : \E c \in Nat : c < Len(fs[n]) /\ u = unit(n, c)
  <2>1. PICK n \in DOMAIN fs : \E c \in 0 .. Len(fs[n]) - 1 : u = unit(n, c)
    BY <1>2 DEF AllUnits
  <2>2. PICK c \in 0 .. Len(fs[n]) - 1 : u = unit(n, c)
    BY <2>1
  <2>3. c \in Nat /\ c < Len(fs[n])
    BY <1>1
  <2> HIDE DEF unit
  <2> QED
    BY <2>2, <2>3
<1>3. ASSUME NEW n \in DOMAIN fs, NEW c \in Nat, c < Len(fs[n])
      PROVE  unit(n, c) \in AllUnits(fs)
  <2>1. c \in 0 .. Len(fs[n]) - 1
    BY <1>1, <1>3
  <2> DEFINE units(m) == {unit(m, d) : d \in 0 .. Len(fs[m]) - 1}
  <2>2. AllUnits(fs) = UNION {units(m) : m \in DOMAIN fs}
    BY DEF AllUnits
  <2>3. unit(n, c) \in units(n)
    BY <2>1
  <2> HIDE DEF unit, units
  <2> QED
    BY <2>2, <2>3
<1>4. ASSUME NEW u \in AllUnits(fs), NEW n \in DOMAIN fs, u.file = FileIndex(fs, n)
      PROVE  u.total = Len(fs[n]) /\ u.data = fs[n][u.chunk + 1]
  <2>1. PICK m \in DOMAIN fs : \E c \in Nat : u = unit(m, c)
    BY <1>2
  <2>a. PICK c \in Nat : u = unit(m, c)
    BY <2>1
  <2>b. u.file = FileIndex(fs, m) /\ u.chunk = c /\ u.total = Len(fs[m])
        /\ u.data = fs[m][c + 1]
    BY <2>a
  <2> HIDE DEF unit
  <2>2. FileIndex(fs, m) = FileIndex(fs, n)
    BY <1>4, <2>b
  <2>3. m = n
    BY <1>1, <2>2, IndexOfOne
  <2> QED
    BY <2>b, <2>3
<1>5. \A u \in AllUnits(fs) : u.file \in Nat /\ u.chunk \in Nat
  BY KeysDiffer
<1>6. ASSUME NEW u \in AllUnits(fs)
      PROVE  /\ u.total \in Nat /\ u.chunk < u.total
             /\ \E n \in DOMAIN fs : u.file = FileIndex(fs, n)
  <2>a. PICK n \in DOMAIN fs : \E c \in Nat : c < Len(fs[n]) /\ u = unit(n, c)
    BY <1>6, <1>2
  <2>1. PICK c \in Nat : c < Len(fs[n]) /\ u = unit(n, c)
    BY <2>a
  <2>2. u.total = Len(fs[n]) /\ u.chunk = c /\ u.file = FileIndex(fs, n)
    BY <2>1
  <2> HIDE DEF unit
  <2> QED
    BY <1>1, <2>1, <2>2
<1>7. ASSUME NEW u \in AllUnits(fs), NEW v \in AllUnits(fs), u.file = v.file
      PROVE  u.total = v.total
  <2>1. PICK n \in DOMAIN fs : u.file = FileIndex(fs, n)
    BY <1>6
  <2> QED
    BY <1>4, <1>7, <2>1
<1> HIDE DEF unit
<1>8. \A n \in DOMAIN fs, c \in Nat : c < Len(fs[n]) => unit(n, c) \in AllUnits(fs)
  BY <1>3
<1> QED
  BY <1>4, <1>5, <1>6, <1>7, <1>8 DEF unit

\* Precedes is a strict order on the units.
LEMMA UnitOrder ==
    ASSUME NEW fs \in Folders, NEW u \in AllUnits(fs), NEW v \in AllUnits(fs)
    PROVE  /\ ~Precedes(u, u)
           /\ u = v \/ Precedes(u, v) \/ Precedes(v, u)
           /\ Precedes(u, v) => ~Precedes(v, u)
           /\ \A w \in AllUnits(fs) : Precedes(u, v) /\ Precedes(v, w) => Precedes(u, w)
<1>1. \A w \in AllUnits(fs) : w.file \in Nat /\ w.chunk \in Nat
  BY KeysDiffer
<1>2. u = v \/ u.file # v.file \/ u.chunk # v.chunk
  BY KeysDiffer DEF Key
<1> QED
  BY <1>1, <1>2 DEF Precedes

\* The next batch is an initial part of what is left, and any two of its units
\* fit together.
LEMMA NextBatchInitial ==
    ASSUME NEW fs \in Folders, NEW us \in SUBSET AllUnits(fs)
    PROVE  /\ NextBatch(us) \subseteq us
           /\ \A v \in NextBatch(us), u \in us : Precedes(u, v) => u \in NextBatch(us)
           /\ \A u, v \in NextBatch(us) :
                \E p \in SUBSET us : Fits(p) /\ u \in p /\ v \in p
<1> DEFINE pre(w) == us \ {x \in us : Precedes(w, x)}
<1>1. ASSUME NEW v \in NextBatch(us)
      PROVE  \E w \in us : Fits(pre(w)) /\ v \in pre(w)
  BY <1>1 DEF NextBatch
<1>2. ASSUME NEW w \in us, NEW x \in pre(w), NEW y \in us, Precedes(y, x)
      PROVE  y \in pre(w)
  <2>1. ~Precedes(w, x)
    OBVIOUS
  <2>2. Precedes(w, y) => Precedes(w, x)
    BY <1>2, UnitOrder
  <2> QED
    BY <2>1, <2>2
<1>3. ASSUME NEW w \in us, Fits(pre(w)) PROVE pre(w) \subseteq NextBatch(us)
  BY <1>3 DEF NextBatch
<1>4. NextBatch(us) \subseteq us
  BY DEF NextBatch
<1>5. \A w \in us : pre(w) \in SUBSET us
  OBVIOUS
<1> HIDE DEF pre
<1>6. ASSUME NEW v \in NextBatch(us), NEW u \in us, Precedes(u, v)
      PROVE  u \in NextBatch(us)
  <2>1. PICK w \in us : Fits(pre(w)) /\ v \in pre(w)
    BY <1>1
  <2> QED
    BY <1>2, <1>3, <1>6, <2>1
<1>7. ASSUME NEW u \in NextBatch(us), NEW v \in NextBatch(us), u = v \/ Precedes(u, v)
      PROVE  \E p \in SUBSET us : Fits(p) /\ u \in p /\ v \in p
  <2>1. PICK w \in us : Fits(pre(w)) /\ v \in pre(w)
    BY <1>1
  <2>2. u \in pre(w)
    BY <1>2, <1>4, <1>7, <2>1
  <2> QED
    BY <1>2, <1>5, <2>1, <2>2
<1>8. ASSUME NEW u \in NextBatch(us), NEW v \in NextBatch(us)
      PROVE  u = v \/ Precedes(u, v) \/ Precedes(v, u)
  BY <1>4, UnitOrder
<1> QED
  BY <1>4, <1>6, <1>7, <1>8

\* A unit that shares its batch with another one is the last chunk of its file.
LEMMA BatchPairs ==
    ASSUME NEW fs \in Folders, NEW us \in SUBSET AllUnits(fs),
           NEW u \in NextBatch(us), NEW v \in NextBatch(us), u # v
    PROVE  u.chunk + 1 = u.total
<1>1. PICK p \in SUBSET us : Fits(p) /\ u \in p /\ v \in p
  BY NextBatchInitial
<1>2. p \in SUBSET AllUnits(fs) /\ p # {u}
  BY <1>1
<1>3. ~(u.chunk + 1 < u.total)
  BY <1>1, <1>2, CutAssumption
<1>4. u \in AllUnits(fs)
  BY NextBatchInitial
<1> QED
  BY <1>3, <1>4, UnitFacts

\* A strictly increasing sequence of n numbers below n counts them.
LEMMA Counting ==
    ASSUME NEW n \in Nat, NEW g, \A k \in 1 .. n : g[k] \in 0 .. n - 1,
           \A i, j \in 1 .. n : i < j => g[i] < g[j]
    PROVE  \A k \in 1 .. n : g[k] = k - 1
<1> DEFINE R == OpToRel(<, Nat)
<1>1. IsWellFoundedOn(R, Nat)
  BY NatLessThanWellFounded
<1>2. \A x, y \in Nat : <<x, y>> \in R <=> x < y
  BY DEF OpToRel
<1> HIDE DEF R
<1>3. ASSUME NEW h, \A k \in 1 .. n : h[k] \in 0 .. n - 1,
             \A i, j \in 1 .. n : i < j => h[i] < h[j]
      PROVE  \A k \in 1 .. n : h[k] >= k - 1
  <2> DEFINE S == {k \in 1 .. n : ~(h[k] >= k - 1)}
  <2> SUFFICES ASSUME S # {} PROVE FALSE
    OBVIOUS
  <2>1. S \subseteq Nat
    OBVIOUS
  <2>2. PICK m \in S : \A k \in S : ~(<<k, m>> \in R)
    <3> HIDE DEF S
    <3> QED
      BY <1>1, <2>1, WFMin
  <2>3. m \in 1 .. n /\ ~(h[m] >= m - 1) /\ h[m] \in 0 .. n - 1
    BY <1>3
  <2>4. m # 1
    BY <2>3
  <2>5. m - 1 \in 1 .. n /\ m - 1 < m
    BY <2>3, <2>4
  <2>6. h[m - 1] < h[m] /\ h[m - 1] \in 0 .. n - 1
    BY <1>3, <2>3, <2>5
  <2>7. m - 1 \in S
    BY <2>3, <2>5, <2>6
  <2> HIDE DEF S
  <2> QED
    BY <1>2, <2>1, <2>2, <2>5, <2>7
<1>4. \A k \in 1 .. n : g[k] >= k - 1
  BY <1>3
<1>5. \A k \in 1 .. n : g[k] <= k - 1
  <2> DEFINE h == [k \in 1 .. n |-> n - 1 - g[n + 1 - k]]
  <2>1. \A k \in 1 .. n : n + 1 - k \in 1 .. n /\ h[k] = n - 1 - g[n + 1 - k]
    OBVIOUS
  <2> HIDE DEF h
  <2>2. \A k \in 1 .. n : h[k] \in 0 .. n - 1
    <3> SUFFICES ASSUME NEW k \in 1 .. n PROVE h[k] \in 0 .. n - 1
      OBVIOUS
    <3>1. g[n + 1 - k] \in 0 .. n - 1 /\ h[k] = n - 1 - g[n + 1 - k]
      BY <2>1
    <3> QED
      BY <3>1
  <2>3. ASSUME NEW i \in 1 .. n, NEW j \in 1 .. n, i < j PROVE h[i] < h[j]
    <3>1. n + 1 - j \in 1 .. n /\ n + 1 - i \in 1 .. n /\ n + 1 - j < n + 1 - i
      BY <2>3
    <3>2. /\ g[n + 1 - j] < g[n + 1 - i]
          /\ g[n + 1 - j] \in 0 .. n - 1 /\ g[n + 1 - i] \in 0 .. n - 1
      BY <3>1
    <3>3. h[i] = n - 1 - g[n + 1 - i] /\ h[j] = n - 1 - g[n + 1 - j]
      BY <2>1
    <3> QED
      BY <3>2, <3>3
  <2>4. \A k \in 1 .. n : h[k] >= k - 1
    BY <1>3, <2>2, <2>3
  <2> SUFFICES ASSUME NEW k \in 1 .. n PROVE g[k] <= k - 1
    OBVIOUS
  <2>5. n + 1 - k \in 1 .. n /\ n + 1 - (n + 1 - k) = k
    OBVIOUS
  <2>6. h[n + 1 - k] = n - 1 - g[k] /\ h[n + 1 - k] >= (n + 1 - k) - 1
    BY <2>1, <2>4, <2>5
  <2>7. g[k] \in 0 .. n - 1
    OBVIOUS
  <2> QED
    BY <2>6, <2>7
<1> SUFFICES ASSUME NEW k \in 1 .. n PROVE g[k] = k - 1
  OBVIOUS
<1>6. g[k] \in 0 .. n - 1 /\ g[k] >= k - 1 /\ g[k] <= k - 1
  BY <1>4, <1>5
<1> QED
  BY <1>6

\* As many entries as chunks, and one for every chunk: none is there twice.
LEMMA NoDouble ==
    ASSUME NEW S, IsFiniteSet(S), NEW n \in Nat, Cardinality(S) = n,
           \A c \in S : c.chunk \in 0 .. n - 1,
           \A k \in 0 .. n - 1 : \E c \in S : c.chunk = k
    PROVE  \A c, d \in S : c.chunk = d.chunk => c = d
<1> DEFINE T == 0 .. n - 1
           f == [c \in S |-> c.chunk]
<1>1. IsFiniteSet(T) /\ Cardinality(T) = n
  BY FS_Interval
<1>2. f \in Surjection(S, T)
  <2>1. f \in [S -> T]
    OBVIOUS
  <2>2. \A k \in T : \E c \in S : f[c] = k
    OBVIOUS
  <2> HIDE DEF f, T
  <2> QED
    BY <2>1, <2>2 DEF Surjection
<1> HIDE DEF T
<1>3. \A c \in S : f[c] = c.chunk
  OBVIOUS
<1> HIDE DEF f
<1>4. f \in Injection(S, T)
  BY <1>1, <1>2, FS_SurjSameCardinalityImpliesInj
<1>5. \A c, d \in S : f[c] = f[d] => c = d
  BY <1>4 DEF Injection, IsInjective
<1> QED
  BY <1>3, <1>5

\* The state file has an entry for unit u.
Recorded(cs, u) == \E c \in cs : Key(c) = Key(u)

\* A file of which every unit is recorded, and one of them twice: its chunks
\* never add up again, and no manifest is ever sent.
Blocked(cs) ==
    \E c, d \in cs : /\ c # d /\ Key(c) = Key(d)
                     /\ \A u \in AllUnits(folder) : u.file = c.file => Recorded(cs, u)

\* The recorded units are the first ones of the folder.
InOrder(cs) == \A u, v \in AllUnits(folder) :
                    Precedes(u, v) /\ Recorded(cs, v) => Recorded(cs, u)

\* Every entry is one of a unit of the folder, with the hash of its bytes.
Genuine == /\ IsFiniteSet(disk.chunks)
           /\ \A c \in disk.chunks :
                /\ c.pos \in Nat /\ c.tx \in Nat
                /\ \E u \in AllUnits(folder) : Key(u) = Key(c) /\ c.hash = Keccak(u.data)

Left == Unconfirmed(AllUnits(folder), disk.chunks)

\* A run sends what the state file lacks, the batch in flight apart.
Progress ==
    /\ pc \in {"prompt", "batch"} => remaining = Left
    /\ pc = "wait" => /\ remaining = Left \ NextBatch(Left)
                      /\ {batch[k] : k \in DOMAIN batch} = NextBatch(Left)
                      /\ \A j, k \in DOMAIN batch : batch[j] = batch[k] => j = k

\* Either two equal chunks of a batch have blocked the folder for good, or
\* nothing has been taken for something else.
Orderly == Blocked(disk.chunks) \/ (InOrder(disk.chunks) /\ Progress)

Filled == Genuine /\ Orderly /\ (pc # "idle" => files = folder)

SentFaithful == \A i \in DOMAIN txs :
                    txs[i].kind = "manifest" => DescribesFolder(txs[i].data[1])

LoggedFaithful == \A l \in logs : l.data \notin Chunk /\ l.data.kind = "manifest" =>
                    DescribesFolder(l.data)

FaithInv == edits = 0 => /\ SentFaithful /\ LoggedFaithful
                         /\ disk.manifestHash = None => Filled

\* What is not recorded is left.
LEMMA LeftLemma ==
    /\ Left \subseteq AllUnits(folder)
    /\ \A u \in AllUnits(folder) : u \in Left <=> ~Recorded(disk.chunks, u)
BY DEF Left, Unconfirmed, Recorded

\* A sorted enumeration of units names each of them once.
LEMMA SortedOnce ==
    ASSUME NEW fs \in Folders, NEW S \in SUBSET AllUnits(fs), IsFiniteSet(S),
           NEW b \in SortedBy(S, Precedes)
    PROVE  /\ {b[k] : k \in DOMAIN b} = S
           /\ \A j, k \in DOMAIN b : b[j] = b[k] => j = k
<1> DEFINE T == 1 .. Cardinality(S)
<1>1. Cardinality(S) \in Nat
  BY FS_CardinalityType
<1>2. IsFiniteSet(T) /\ Cardinality(T) = Cardinality(S)
  BY <1>1, FS_Interval
<1>3. b \in [T -> S] /\ \A i, j \in T : i < j => Precedes(b[i], b[j])
  BY DEF SortedBy
<1>4. \A i, j \in T : i = j \/ i < j \/ j < i
  BY <1>1
<1> HIDE DEF T
<1>5. ASSUME NEW j \in T, NEW k \in T, b[j] = b[k] PROVE j = k
  <2>1. b[j] \in AllUnits(fs)
    BY <1>3
  <2>2. ~Precedes(b[j], b[j])
    BY <2>1, UnitOrder
  <2> QED
    BY <1>3, <1>4, <1>5, <2>2
<1>6. b \in Injection(T, S)
  BY <1>3, <1>5 DEF Injection, IsInjective
<1>7. b \in Surjection(T, S)
  BY <1>2, <1>6, FS_Injection
<1>8. \A x \in S : \E k \in T : b[k] = x
  BY <1>7 DEF Surjection
<1> QED
  BY <1>3, <1>5, <1>8

\* The entries of a batch are entries of its units.
LEMMA ConfirmedGenuine ==
    ASSUME IInv, TypeInv, Tidy, Genuine, BatchConfirmed
    PROVE  Genuine'
<1> DEFINE n == Len(txs)
<1>1. PICK f \in HashToUnit(batch) : chunks' = chunks \union Confirmed(batch, f, n)
  BY DEF BatchConfirmed
<1>2. /\ disk'.chunks = disk.chunks \union Confirmed(batch, f, n)
      /\ pc = "wait" /\ UNCHANGED folder /\ n \in Nat
  <2>1. Len(txs) \in Nat
    BY LostFinite
  <2> QED
    BY <1>1, <2>1 DEF BatchConfirmed, Tidy
<1>3. /\ DOMAIN batch = 1 .. Len(txs[n].data) /\ Len(txs[n].data) \in Nat
      /\ \A k \in DOMAIN batch : batch[k] \in AllUnits(folder)
  BY <1>2 DEF IInv, WaitInv, SentInv, BatchTxInv, TypeInv, PlaceInv, Tidy
<1>4. \A c \in Confirmed(batch, f, n) :
        /\ c.pos \in Nat /\ c.tx \in Nat
        /\ \E u \in AllUnits(folder) : Key(u) = Key(c) /\ c.hash = Keccak(u.data)
  <2> SUFFICES ASSUME NEW k \in DOMAIN batch
               PROVE  /\ k \in Nat
                      /\ \E u \in AllUnits(folder) :
                            /\ Key(u) = <<batch[f[k]].file, batch[f[k]].chunk>>
                            /\ Keccak(batch[k].data) = Keccak(u.data)
    BY <1>2 DEF Confirmed, Key
  <2>1. f[k] \in DOMAIN batch /\ batch[f[k]].data = batch[k].data
    BY DEF HashToUnit
  <2> QED
    BY <1>3, <2>1 DEF Key
<1>f. IsFiniteSet(DOMAIN batch)
  <2>1. PICK m \in Nat : DOMAIN batch = 1 .. m
    BY <1>3
  <2>2. IsFiniteSet(1 .. m)
    BY <2>1, FS_Interval
  <2> QED
    BY <2>1, <2>2
<1>5. IsFiniteSet(Confirmed(batch, f, n))
  <2> DEFINE g == [k \in DOMAIN batch |->
                     [file |-> batch[f[k]].file, chunk |-> batch[f[k]].chunk,
                      total |-> batch[f[k]].total, hash |-> Keccak(batch[k].data),
                      block |-> txs[n].block, tx |-> n, pos |-> k]]
  <2>1. Confirmed(batch, f, n) = {g[k] : k \in DOMAIN batch}
    BY DEF Confirmed
  <2> HIDE DEF g
  <2> QED
    BY <1>f, <2>1, FiniteImage
<1>6. IsFiniteSet(disk'.chunks)
  BY <1>2, <1>5, FS_Union DEF Genuine
<1> QED
  BY <1>2, <1>4, <1>6 DEF Genuine

\* Two equal chunks of a batch block the folder; otherwise every unit of the
\* batch is recorded, and nothing else.
LEMMA ConfirmedOrderly ==
    ASSUME IInv, TypeInv, Tidy, Genuine, Orderly, BatchConfirmed
    PROVE  Orderly'
<1> DEFINE n == Len(txs)
           N == NextBatch(Left)
<1>1. PICK f \in HashToUnit(batch) : chunks' = chunks \union Confirmed(batch, f, n)
  BY DEF BatchConfirmed
<1> DEFINE C == Confirmed(batch, f, n)
           D == disk.chunks
<1>2. /\ disk'.chunks = D \union C
      /\ pc = "wait" /\ pc' = "batch" /\ UNCHANGED <<folder, remaining>>
      /\ folder \in Folders
      /\ \A k \in DOMAIN batch : batch[k] \in AllUnits(folder)
  BY <1>1 DEF BatchConfirmed, Tidy
<1>3. ASSUME NEW k \in DOMAIN batch
      PROVE  \E c \in C : /\ Key(c) = Key(batch[f[k]]) /\ c.pos = k
                          /\ c.file = batch[f[k]].file
  <2> DEFINE c == [file |-> batch[f[k]].file, chunk |-> batch[f[k]].chunk,
                   total |-> batch[f[k]].total, hash |-> Keccak(batch[k].data),
                   block |-> txs[n].block, tx |-> n, pos |-> k]
  <2>1. c \in C
    BY DEF Confirmed
  <2>2. Key(c) = Key(batch[f[k]]) /\ c.pos = k /\ c.file = batch[f[k]].file
    BY DEF Key
  <2> HIDE DEF c, C
  <2> QED
    BY <2>1, <2>2
<1>4. \A c \in C : \E k \in DOMAIN batch : Key(c) = Key(batch[f[k]])
  BY DEF Confirmed, Key
<1>5. \A k \in DOMAIN batch : f[k] \in DOMAIN batch /\ batch[f[k]].data = batch[k].data
  BY DEF HashToUnit
<1>6. \A j, k \in DOMAIN batch : batch[j].data = batch[k].data => j <= f[k]
  BY DEF HashToUnit
<1>7. \A j \in DOMAIN batch : j \in Nat
  BY <1>2 DEF IInv, WaitInv, SentInv, BatchTxInv, TypeInv, PlaceInv
<1> HIDE DEF n, C, D, N
<1>8. \A u : Recorded(D \union C, u) <=> Recorded(D, u) \/ Recorded(C, u)
  BY DEF Recorded
<1>9. CASE Blocked(D)
  <2>1. Blocked(D \union C)
    BY <1>8, <1>9 DEF Blocked
  <2>2. Blocked(disk.chunks)'
    BY <1>2, <2>1 DEF Blocked, Recorded
  <2> QED
    BY <2>2 DEF Orderly
<1>10. CASE ~Blocked(D)
  <2>1. /\ InOrder(D) /\ remaining = Left \ N
        /\ {batch[k] : k \in DOMAIN batch} = N
        /\ \A j, k \in DOMAIN batch : batch[j] = batch[k] => j = k
    BY <1>2, <1>10 DEF Orderly, Progress, D, N
  <2>2. /\ N \subseteq Left
        /\ \A v \in N, u \in Left : Precedes(u, v) => u \in N
        /\ \A u, v \in N : u # v => u.chunk + 1 = u.total
    <3>1. Left \in SUBSET AllUnits(folder)
      BY LeftLemma
    <3> QED
      BY <1>2, <3>1, NextBatchInitial, BatchPairs DEF N
  <2>3. \A u \in AllUnits(folder) : u \in Left <=> ~Recorded(D, u)
    BY LeftLemma DEF D
  <2>4. CASE \A k \in DOMAIN batch : f[k] = k
    <3>1. \A u \in AllUnits(folder) : Recorded(C, u) <=> u \in N
      <4>1. ASSUME NEW u \in AllUnits(folder), Recorded(C, u) PROVE u \in N
        <5>1. PICK k \in DOMAIN batch : Key(batch[f[k]]) = Key(u)
          BY <1>4, <4>1 DEF Recorded
        <5>2. batch[k] = u
          BY <1>2, <2>4, <5>1, KeysDiffer
        <5> QED
          BY <2>1, <5>2
      <4>2. ASSUME NEW u \in N PROVE Recorded(C, u)
        <5>1. PICK k \in DOMAIN batch : batch[k] = u
          BY <2>1
        <5> QED
          BY <1>3, <2>4, <5>1 DEF Recorded
      <4> QED
        BY <4>1, <4>2
    <3>2. \A u \in AllUnits(folder) : Recorded(D \union C, u) <=> Recorded(D, u) \/ u \in N
      BY <1>8, <3>1
    <3>3. InOrder(D \union C)
      <4> SUFFICES ASSUME NEW u \in AllUnits(folder), NEW v \in AllUnits(folder),
                          Precedes(u, v), Recorded(D \union C, v)
                   PROVE  Recorded(D \union C, u)
        BY DEF InOrder
      <4>1. CASE Recorded(D, v)
        BY <2>1, <3>2, <4>1 DEF InOrder
      <4>2. CASE v \in N
        BY <2>2, <2>3, <3>2, <4>2
      <4> QED
        BY <3>2, <4>1, <4>2
    <3>4. Left' = Left \ N
      <4>1. Left' = {u \in AllUnits(folder) : ~Recorded(D \union C, u)}
        BY <1>2 DEF Left, Unconfirmed, Recorded
      <4> QED
        BY <2>3, <3>2, <4>1, LeftLemma
    <3>5. InOrder(disk.chunks)'
      BY <1>2, <3>3 DEF InOrder, Recorded
    <3>6. Progress'
      BY <1>2, <2>1, <3>4 DEF Progress
    <3> QED
      BY <3>5, <3>6 DEF Orderly
  <2>5. CASE \E k \in DOMAIN batch : f[k] # k
    <3>1. PICK i \in DOMAIN batch : f[i] # i
      BY <2>5
    <3>2. PICK m \in DOMAIN batch : m = f[i]
      BY <1>5
    <3>3. f[m] = m
      <4>1. /\ batch[m].data = batch[i].data /\ batch[f[m]].data = batch[m].data
            /\ f[m] \in DOMAIN batch
        BY <1>5, <3>2
      <4>2. f[m] <= m /\ m <= f[m]
        BY <1>6, <3>2, <4>1
      <4> QED
        BY <1>7, <4>1, <4>2
    <3>4. PICK c \in C : Key(c) = Key(batch[m]) /\ c.pos = i /\ c.file = batch[m].file
      BY <1>3, <3>2
    <3>5. PICK d \in C : Key(d) = Key(batch[m]) /\ d.pos = m
      BY <1>3, <3>3
    <3>6. c # d /\ Key(c) = Key(d)
      BY <3>1, <3>2, <3>4, <3>5
    <3>7. PICK x \in N : x = batch[m]
      BY <2>1
    <3>8. batch[i] \in N /\ batch[i] # x
      BY <2>1, <3>1, <3>2, <3>7
    <3>9. x.chunk + 1 = x.total /\ x \in AllUnits(folder)
      BY <1>2, <2>2, <3>7, <3>8
    <3>10. ASSUME NEW u \in AllUnits(folder), u.file = c.file
           PROVE  Recorded(D \union C, u)
      <4>1. /\ u.file \in Nat /\ u.chunk \in Nat /\ u.total \in Nat
            /\ x.file \in Nat /\ x.chunk \in Nat /\ x.total \in Nat
            /\ u.chunk < u.total /\ u.total = x.total /\ u.file = x.file
        BY <1>2, <3>4, <3>7, <3>9, <3>10, UnitFacts
      <4>2. CASE u.chunk = x.chunk
        <5>1. Key(c) = Key(u)
          BY <3>4, <3>7, <4>1, <4>2 DEF Key
        <5> QED
          BY <5>1 DEF Recorded
      <4>3. CASE u.chunk # x.chunk
        <5>1. Precedes(u, x) /\ u.chunk + 1 # u.total
          BY <3>9, <4>1, <4>3 DEF Precedes
        <5>2. u # x
          BY <4>3
        <5>3. u \notin Left
          BY <2>2, <5>1, <5>2
        <5> QED
          BY <1>8, <2>3, <5>3
      <4> QED
        BY <4>2, <4>3
    <3>11. Blocked(D \union C)
      BY <3>6, <3>10 DEF Blocked
    <3>12. Blocked(disk.chunks)'
      BY <1>2, <3>11 DEF Blocked, Recorded
    <3> QED
      BY <3>12 DEF Orderly
  <2> QED
    BY <2>4, <2>5
<1> QED
  BY <1>9, <1>10

\* The steps that leave the entries as they are and send nothing.
LEMMA FilledQuiet ==
    ASSUME IInv, Tidy, Filled,
           \/ Start \/ Proceed \/ BatchReverted \/ MissingChunks \/ ManifestReverted
           \/ SkipIndex \/ IndexDone \/ Finish \/ Crash \/ BatchError \/ UNCHANGED vars
           \/ SendManifest \/ Mine \/ \E i \in DOMAIN txs : FailTx(i)
    PROVE  Filled'
<1>1. UNCHANGED folder /\ disk'.chunks = disk.chunks
  BY DEF Start, Proceed, BatchReverted, MissingChunks, ManifestReverted, SkipIndex,
     IndexDone, Finish, Crash, BatchError, Exit, vars, cliVars, Tidy, SendManifest,
     Mine, MineBatch, MineManifest, MineIndex, FailTx
<1>2. \/ pc' \notin {"prompt", "batch", "wait"}
      \/ pc' = pc /\ UNCHANGED <<remaining, batch>>
      \/ pc' = "batch" /\ pc = "prompt" /\ UNCHANGED remaining
      \/ pc' = "prompt" /\ remaining' = Unconfirmed(AllUnits(folder),
                                          Valid(disk.chunks, AllUnits(folder)))
  BY DEF Start, Proceed, BatchReverted, MissingChunks, ManifestReverted, SkipIndex,
     IndexDone, Finish, Crash, BatchError, Exit, vars, cliVars, SendManifest,
     Mine, MineBatch, MineManifest, MineIndex, FailTx
<1>3. pc' # "idle" => files' = folder
  BY DEF Start, Proceed, BatchReverted, MissingChunks, ManifestReverted, SkipIndex,
     IndexDone, Finish, Crash, BatchError, Exit, vars, cliVars, SendManifest,
     Mine, MineBatch, MineManifest, MineIndex, FailTx, Filled
<1>4. Left' = Left
  BY <1>1 DEF Left
<1>5. Valid(disk.chunks, AllUnits(folder)) = disk.chunks
  BY DEF Tidy
<1>6. Progress => Progress'
  <2> SUFFICES ASSUME Progress PROVE Progress'
    OBVIOUS
  <2>1. CASE pc' \notin {"prompt", "batch", "wait"}
    BY <2>1 DEF Progress
  <2>2. CASE pc' = pc /\ UNCHANGED <<remaining, batch>>
    BY <1>4, <2>2 DEF Progress
  <2>3. CASE pc' = "batch" /\ pc = "prompt" /\ UNCHANGED remaining
    BY <1>4, <2>3 DEF Progress
  <2>4. CASE pc' = "prompt" /\ remaining' = Unconfirmed(AllUnits(folder),
                                              Valid(disk.chunks, AllUnits(folder)))
    <3>1. remaining' = Left
      BY <1>5, <2>4 DEF Left
    <3> QED
      BY <1>4, <2>4, <3>1 DEF Progress
  <2> QED
    BY <1>2, <2>1, <2>2, <2>3, <2>4
<1>7. Orderly'
  BY <1>1, <1>6 DEF Filled, Orderly, Blocked, InOrder, Recorded
<1>8. Genuine'
  BY <1>1 DEF Filled, Genuine
<1> QED
  BY <1>1, <1>3, <1>7, <1>8 DEF Filled

LEMMA FilledSendBatch ==
    ASSUME IInv, Tidy, Filled, SendBatch
    PROVE  Filled'
<1>1. PICK b \in SortedBy(NextBatch(remaining), Precedes) : batch' = b
  BY DEF SendBatch
<1>2. /\ UNCHANGED <<folder, disk, files>> /\ pc = "batch" /\ pc' = "wait"
      /\ remaining' = remaining \ NextBatch(remaining)
  BY DEF SendBatch
<1>3. Left' = Left
  BY <1>2 DEF Left
<1>4. Progress => Progress'
  <2> SUFFICES ASSUME Progress PROVE Progress'
    OBVIOUS
  <2>1. remaining = Left /\ folder \in Folders
    BY <1>2 DEF Progress, Tidy
  <2>2. NextBatch(Left) \in SUBSET AllUnits(folder) /\ NextBatch(Left) \subseteq remaining
    BY <2>1, LeftLemma DEF NextBatch
  <2>3. IsFiniteSet(NextBatch(Left))
    BY <2>2, FS_Subset DEF IInv, RemainingInv
  <2>4. /\ {b[k] : k \in DOMAIN b} = NextBatch(Left)
        /\ \A j, k \in DOMAIN b : b[j] = b[k] => j = k
    BY <1>1, <2>1, <2>2, <2>3, SortedOnce
  <2> QED
    BY <1>1, <1>2, <1>3, <2>1, <2>4 DEF Progress
<1>5. Orderly'
  BY <1>2, <1>4 DEF Filled, Orderly, Blocked, InOrder, Recorded
<1>6. Genuine'
  BY <1>2 DEF Filled, Genuine
<1> QED
  BY <1>2, <1>5, <1>6 DEF Filled

\* A file whose chunks add up and are all recorded has one entry for each.
LEMMA OneEach ==
    ASSUME NEW fs \in Folders, fs = folder, Genuine, NEW n \in DOMAIN fs,
           Cardinality(FileChunks(disk.chunks, FileIndex(fs, n))) = Len(fs[n]),
           \A u \in AllUnits(fs) : u.file = FileIndex(fs, n) => Recorded(disk.chunks, u)
    PROVE  LET S == FileChunks(disk.chunks, FileIndex(fs, n))
           IN /\ IsFiniteSet(S)
              /\ \A c \in S : c.chunk \in 0 .. Len(fs[n]) - 1
              /\ \A c, d \in S : c.chunk = d.chunk => c = d
<1> DEFINE S == FileChunks(disk.chunks, FileIndex(fs, n))
<1>1. S \subseteq disk.chunks /\ \A c \in S : c.file = FileIndex(fs, n)
  BY DEF FileChunks
<1>2. IsFiniteSet(S)
  BY <1>1, FS_Subset DEF Genuine
<1>3. Len(fs[n]) \in Nat
  BY UploadAssumption, LenProperties
<1>4. ASSUME NEW c \in S PROVE c.chunk \in 0 .. Len(fs[n]) - 1
  <2>1. PICK u \in AllUnits(fs) : Key(u) = Key(c)
    BY <1>1 DEF Genuine
  <2>2. u.file = FileIndex(fs, n) /\ u.chunk = c.chunk
    BY <1>1, <2>1 DEF Key
  <2>3. u.total = Len(fs[n]) /\ u.chunk < u.total /\ u.chunk \in Nat
    BY <2>2, UnitFacts
  <2> QED
    BY <1>3, <2>2, <2>3
<1>5. ASSUME NEW k \in 0 .. Len(fs[n]) - 1 PROVE \E c \in S : c.chunk = k
  <2>1. k \in Nat /\ k < Len(fs[n])
    BY <1>3
  <2> DEFINE u == [file |-> FileIndex(fs, n), chunk |-> k, total |-> Len(fs[n]),
                   data |-> fs[n][k + 1]]
  <2>2. u \in AllUnits(fs) /\ u.file = FileIndex(fs, n) /\ u.chunk = k
    BY <2>1, UnitFacts
  <2> HIDE DEF u
  <2>3. PICK c \in disk.chunks : Key(c) = Key(u)
    BY <2>2 DEF Recorded
  <2>4. c.file = FileIndex(fs, n) /\ c.chunk = k
    BY <2>2, <2>3 DEF Key
  <2> QED
    BY <2>3, <2>4 DEF FileChunks
<1> HIDE DEF S
<1>6. \A c, d \in S : c.chunk = d.chunk => c = d
  <2>1. Cardinality(S) = Len(fs[n])
    BY DEF S
  <2> QED
    BY <1>2, <1>3, <1>4, <1>5, <2>1, NoDouble
<1> QED
  BY <1>2, <1>4, <1>6 DEF S

\* When the manifest may be sent, nothing is missing, and the k-th part of a
\* file is the entry of its k-th chunk.
LEMMA PartsInPlace ==
    ASSUME IInv, HashInv, Tidy, Filled, disk.manifestHash = None, SendManifest,
           NEW p \in PartLists(files, chunks), NEW n \in DOMAIN folder
    PROVE  /\ DOMAIN p[n] = DOMAIN folder[n]
           /\ \A k \in DOMAIN p[n] : p[n][k].hash = Keccak(folder[n][k])
<1>1. /\ pc = "batch" /\ remaining = {} /\ Missing(files, chunks) = {}
      /\ files = folder /\ chunks = disk.chunks /\ folder \in Folders
  BY DEF SendManifest, Filled, Tidy
<1>2. \A m \in DOMAIN folder :
        Cardinality(FileChunks(disk.chunks, FileIndex(folder, m))) = Len(folder[m])
  BY <1>1 DEF Missing
<1>3. ~Blocked(disk.chunks)
  <2> SUFFICES ASSUME NEW c \in disk.chunks, NEW d \in disk.chunks,
                      c # d, Key(c) = Key(d),
                      \A u \in AllUnits(folder) :
                        u.file = c.file => Recorded(disk.chunks, u)
               PROVE  FALSE
    BY DEF Blocked
  <2>1. PICK u \in AllUnits(folder) : Key(u) = Key(c)
    BY DEF Filled, Genuine
  <2>2. PICK m \in DOMAIN folder : u.file = FileIndex(folder, m)
    BY <1>1, UnitFacts
  <2>3. c.file = FileIndex(folder, m) /\ d.file = c.file /\ d.chunk = c.chunk
    BY <2>1, <2>2 DEF Key
  <2>4. /\ c \in FileChunks(disk.chunks, FileIndex(folder, m))
        /\ d \in FileChunks(disk.chunks, FileIndex(folder, m))
    BY <2>3 DEF FileChunks
  <2> QED
    BY <1>1, <1>2, <2>3, <2>4, OneEach DEF Filled
<1>4. \A u \in AllUnits(folder) : Recorded(disk.chunks, u)
  <2>1. Left = {}
    BY <1>1, <1>3 DEF Filled, Orderly, Progress
  <2> QED
    BY <2>1, LeftLemma
<1> DEFINE S == FileChunks(disk.chunks, FileIndex(folder, n))
           L == Len(folder[n])
<1>5. /\ \A c \in S : c.chunk \in 0 .. L - 1
      /\ \A c, d \in S : c.chunk = d.chunk => c = d
  BY <1>1, <1>2, <1>4, OneEach DEF Filled
<1>6. L \in Nat /\ DOMAIN folder[n] = 1 .. L
  BY <1>1, UploadAssumption, LenProperties
<1>7. p[n] \in SortedBy(S, PartBefore)
  BY <1>1 DEF PartLists
<1>8. \A c \in S : /\ c \in disk.chunks /\ c.file = FileIndex(folder, n)
                   /\ c.pos \in Nat /\ c.tx \in Nat
  BY DEF FileChunks, Filled, Genuine
<1>9. Cardinality(S) = L
  BY <1>2
<1> HIDE DEF S, L
<1>10. /\ p[n] \in [1 .. L -> S]
       /\ \A i, j \in 1 .. L : i < j => PartBefore(p[n][i], p[n][j])
  BY <1>7, <1>9 DEF SortedBy
<1> DEFINE g == [k \in 1 .. L |-> p[n][k].chunk]
<1>11. \A k \in 1 .. L : g[k] = p[n][k].chunk
  OBVIOUS
<1> HIDE DEF g
<1>12. ASSUME NEW i \in 1 .. L, NEW j \in 1 .. L, i < j PROVE g[i] < g[j]
  <2>1. p[n][i] \in S /\ p[n][j] \in S /\ PartBefore(p[n][i], p[n][j])
    BY <1>10, <1>12
  <2>2. ~PartBefore(p[n][i], p[n][i])
    <3>1. p[n][i].chunk \in 0 .. L - 1
      BY <1>5, <2>1
    <3>2. p[n][i].pos \in Nat /\ p[n][i].tx \in Nat
      BY <1>8, <2>1
    <3> QED
      BY <3>1, <3>2 DEF PartBefore
  <2>3. p[n][i].chunk # p[n][j].chunk
    <3>1. p[n][i] # p[n][j]
      BY <2>1, <2>2
    <3> QED
      BY <1>5, <2>1, <3>1
  <2>4. p[n][i].chunk < p[n][j].chunk
    BY <2>1, <2>3 DEF PartBefore
  <2> QED
    BY <1>11, <2>4
<1>13. \A k \in 1 .. L : g[k] = k - 1
  <2>1. \A k \in 1 .. L : g[k] \in 0 .. L - 1
    BY <1>5, <1>10, <1>11
  <2> QED
    BY <1>6, <1>12, <2>1, Counting
<1>14. ASSUME NEW k \in 1 .. L PROVE p[n][k].hash = Keccak(folder[n][k])
  <2>1. p[n][k] \in S /\ p[n][k].chunk = k - 1
    BY <1>10, <1>11, <1>13
  <2>2. p[n][k] \in disk.chunks /\ p[n][k].file = FileIndex(folder, n)
    BY <1>8, <2>1
  <2>3. PICK u \in AllUnits(folder) : Key(u) = Key(p[n][k])
                                      /\ p[n][k].hash = Keccak(u.data)
    BY <2>2 DEF Filled, Genuine
  <2>4. u.file = FileIndex(folder, n) /\ u.chunk = k - 1
    BY <2>1, <2>2, <2>3 DEF Key
  <2>5. u.data = folder[n][u.chunk + 1] /\ u.chunk + 1 = k
    <3>1. u.data = folder[n][u.chunk + 1]
      BY <1>1, <2>4, UnitFacts
    <3>2. k - 1 + 1 = k
      BY <1>6
    <3> QED
      BY <2>4, <3>1, <3>2
  <2> QED
    BY <2>3, <2>5
<1> QED
  BY <1>6, <1>10, <1>14

LEMMA SentDescribes ==
    ASSUME IInv, HashInv, Tidy, Filled, disk.manifestHash = None, SendManifest,
           NEW p \in PartLists(files, chunks)
    PROVE  Describes(BuildManifest(files, p), folder)
<1> DEFINE m == BuildManifest(files, p)
           parts(n) == [k \in DOMAIN p[n] |-> [hash |-> p[n][k].hash,
                                               block |-> p[n][k].block]]
           entry(n) == [index |-> FileIndex(folder, n),
                        f |-> IF IncludeFilenames THEN {n} ELSE {},
                        parts |-> parts(n)]
<1>1. files = folder /\ folder \in Folders
  BY DEF SendManifest, Filled, Tidy
<1>2. m.entries = {entry(n) : n \in DOMAIN folder}
  BY <1>1 DEF BuildManifest
<1>3. \A n \in DOMAIN folder :
        /\ entry(n).index = FileIndex(folder, n)
        /\ IncludeFilenames => entry(n).f = {n}
        /\ entry(n).parts = parts(n)
  OBVIOUS
<1>4. \A n \in DOMAIN folder : /\ DOMAIN parts(n) = DOMAIN p[n]
                               /\ \A k \in DOMAIN p[n] : parts(n)[k].hash = p[n][k].hash
  OBVIOUS
<1> HIDE DEF m, parts, entry
<1>5. {e.index : e \in m.entries} = {FileIndex(folder, n) : n \in DOMAIN folder}
  BY <1>2, <1>3
<1>6. ASSUME NEW n \in DOMAIN folder, NEW e \in m.entries, e.index = FileIndex(folder, n)
      PROVE  /\ IncludeFilenames => e.f = {n}
             /\ [k \in DOMAIN e.parts |-> e.parts[k].hash]
                  = [k \in DOMAIN folder[n] |-> Keccak(folder[n][k])]
  <2>1. PICK i \in DOMAIN folder : e = entry(i)
    BY <1>2
  <2>2. i = n
    <3>1. DOMAIN folder \subseteq Nat /\ IsFiniteSet(DOMAIN folder)
      BY <1>1, UploadAssumption
    <3>2. FileIndex(folder, i) = FileIndex(folder, n)
      BY <1>3, <1>6, <2>1
    <3> QED
      BY <3>1, <3>2, IndexOfOne
  <2>3. /\ DOMAIN p[n] = DOMAIN folder[n]
        /\ \A k \in DOMAIN p[n] : p[n][k].hash = Keccak(folder[n][k])
    BY PartsInPlace
  <2>4. e.parts = parts(n) /\ (IncludeFilenames => e.f = {n})
    BY <1>3, <2>1, <2>2
  <2>5. /\ DOMAIN e.parts = DOMAIN folder[n]
        /\ \A k \in DOMAIN folder[n] : e.parts[k].hash = Keccak(folder[n][k])
    BY <1>4, <2>3, <2>4
  <2> QED
    BY <2>4, <2>5
<1>7. Describes(m, folder)
  BY <1>5, <1>6 DEF Describes
<1> QED
  BY <1>7 DEF m

\* The folder the manifests are compared with is the user's, and the command
\* adds only its own file to it.
LEMMA SameFolder ==
    ASSUME NEW m, UserFiles(folder') = UserFiles(folder), DescribesFolder(m)
    PROVE  DescribesFolder(m)'
BY DEF DescribesFolder, UserFiles, Describes, FileIndex

\* What a step does to the manifests that were sent and logged.
LEMMA FaithfulMine ==
    ASSUME IInv, SentFaithful, LoggedFaithful, NEW i \in DOMAIN txs,
           MineBatch(i) \/ MineManifest(i) \/ MineIndex(i) \/ FailTx(i)
    PROVE  SentFaithful' /\ LoggedFaithful'
<1>1. /\ UNCHANGED folder /\ txs[i].status = "pending"
      /\ height \in Nat /\ height + 1 \in Nat
  BY DEF MineBatch, MineManifest, MineIndex, FailTx, NextTx, IInv, SentInv, TxsInv
<1>2. \E s \in {"mined", "failed"}, b \in Nat : Settle(i, s, b)
  BY <1>1 DEF MineBatch, MineManifest, MineIndex, FailTx
<1>3. /\ DOMAIN txs' = DOMAIN txs
      /\ \A j \in DOMAIN txs : txs'[j].kind = txs[j].kind /\ txs'[j].data = txs[j].data
  <2>1. PICK s \in {"mined", "failed"}, b \in Nat : Settle(i, s, b)
    BY <1>2
  <2> QED
    BY <2>1, SettleLemma DEF IInv
<1>4. \A m : DescribesFolder(m) => DescribesFolder(m)'
  BY <1>1, SameFolder
<1>5. SentFaithful'
  <2> SUFFICES ASSUME NEW j \in DOMAIN txs, txs[j].kind = "manifest"
               PROVE  DescribesFolder(txs[j].data[1])'
    BY <1>3 DEF SentFaithful
  <2>1. PICK m : m = txs[j].data[1]
    OBVIOUS
  <2>2. m = txs'[j].data[1] /\ DescribesFolder(m)
    BY <1>3, <2>1 DEF SentFaithful
  <2>3. DescribesFolder(m)'
    BY <1>4, <2>2
  <2> QED
    BY <1>3, <2>1, <2>2, <2>3
<1>6. \A l \in logs' \ logs : l.data \notin Chunk /\ l.data.kind = "manifest" =>
                                DescribesFolder(l.data)
  <2> SUFFICES ASSUME NEW l \in logs', l \notin logs, l.data \notin Chunk,
                      l.data.kind = "manifest"
               PROVE  DescribesFolder(l.data)
    OBVIOUS
  <2>1. CASE MineBatch(i)
    <3> DEFINE ds == txs[i].data
    <3>1. /\ Len(ds) \in Nat /\ DOMAIN ds = 1 .. Len(ds)
          /\ \A k \in DOMAIN ds : Plain(ds[k])
      BY <2>1 DEF MineBatch, IInv, SentInv, BatchTxInv
    <3>2. logs' = logs \union {Log(ds[k], height + 1) : k \in DOMAIN ds}
      <4>1. CASE Len(ds) = 1
        BY <2>1, <3>1, <4>1 DEF MineBatch, Store
      <4>2. CASE Len(ds) # 1
        BY <2>1, <4>2 DEF MineBatch, StoreBatch
      <4> QED
        BY <4>1, <4>2
    <3> HIDE DEF ds
    <3>3. \A k \in DOMAIN ds : Log(ds[k], height + 1).data = ds[k]
      BY DEF Log
    <3>4. PICK k \in DOMAIN ds : l.data = ds[k]
      BY <3>2, <3>3
    <3> QED
      BY <3>1, <3>4 DEF Plain
  <2>2. CASE MineManifest(i)
    <3>1. l = Log(txs[i].data[1], height + 1) /\ txs[i].kind = "manifest"
      BY <2>2 DEF MineManifest, StoreManifest
    <3>2. l.data = txs[i].data[1]
      BY <3>1 DEF Log
    <3> QED
      BY <3>1, <3>2 DEF SentFaithful
  <2>3. CASE MineIndex(i) \/ FailTx(i)
    BY <2>3 DEF MineIndex, FailTx, chainVars
  <2> QED
    BY <2>1, <2>2, <2>3
<1>7. LoggedFaithful'
  <2> SUFFICES ASSUME NEW l \in logs', l.data \notin Chunk, l.data.kind = "manifest"
               PROVE  DescribesFolder(l.data)'
    BY DEF LoggedFaithful
  <2>1. DescribesFolder(l.data)
    BY <1>6 DEF LoggedFaithful
  <2> QED
    BY <1>4, <2>1
<1> QED
  BY <1>5, <1>7

\* The steps that keep the transactions and the chain, and the user's files.
LEMMA FaithfulQuiet ==
    ASSUME SentFaithful, LoggedFaithful, UNCHANGED <<txs, logs>>,
           UserFiles(folder') = UserFiles(folder)
    PROVE  SentFaithful' /\ LoggedFaithful'
<1>1. \A m : DescribesFolder(m) => DescribesFolder(m)'
  BY SameFolder
<1>2. SentFaithful'
  <2> SUFFICES ASSUME NEW j \in DOMAIN txs, txs[j].kind = "manifest"
               PROVE  DescribesFolder(txs[j].data[1])'
    BY DEF SentFaithful
  <2>1. PICK m : m = txs[j].data[1]
    OBVIOUS
  <2>2. DescribesFolder(m)'
    BY <1>1, <2>1 DEF SentFaithful
  <2> QED
    BY <2>1, <2>2
<1>3. LoggedFaithful'
  <2> SUFFICES ASSUME NEW l \in logs, l.data \notin Chunk, l.data.kind = "manifest"
               PROVE  DescribesFolder(l.data)'
    BY DEF LoggedFaithful
  <2> QED
    BY <1>1 DEF LoggedFaithful
<1> QED
  BY <1>2, <1>3

\* A step that sends a transaction: a manifest that is sent describes the folder.
LEMMA FaithfulSend ==
    ASSUME IInv, SentFaithful, LoggedFaithful, UNCHANGED <<logs, folder>>,
           NEW kind \in {"batch", "manifest", "index"}, NEW data, NEW ref,
           Send(kind, data, ref),
           kind = "manifest" => DescribesFolder(data[1])
    PROVE  SentFaithful' /\ LoggedFaithful'
<1> DEFINE n == Len(txs) + 1
           r == [kind |-> kind, data |-> data, ref |-> ref,
                 status |-> "pending", block |-> 0]
<1>1. /\ DOMAIN txs' = DOMAIN txs \union {n}
      /\ \A j \in DOMAIN txs : txs'[j] = txs[j]
      /\ txs'[n] = r
  BY SendLemma DEF IInv
<1>2. r.kind = kind /\ r.data = data
  OBVIOUS
<1> HIDE DEF n, r
<1>3. \A m : DescribesFolder(m) => DescribesFolder(m)'
  BY SameFolder
<1>4. \A j \in DOMAIN txs' : txs'[j].kind = "manifest" => DescribesFolder(txs'[j].data[1])
  BY <1>1, <1>2 DEF SentFaithful
<1>5. SentFaithful'
  <2> SUFFICES ASSUME NEW j \in DOMAIN txs', txs'[j].kind = "manifest"
               PROVE  DescribesFolder(txs[j].data[1])'
    BY DEF SentFaithful
  <2>1. PICK m : m = txs'[j].data[1]
    OBVIOUS
  <2>2. DescribesFolder(m)'
    BY <1>3, <1>4, <2>1
  <2> QED
    BY <2>1, <2>2
<1>6. LoggedFaithful'
  <2> SUFFICES ASSUME NEW l \in logs, l.data \notin Chunk, l.data.kind = "manifest"
               PROVE  DescribesFolder(l.data)'
    BY DEF LoggedFaithful
  <2> QED
    BY <1>3 DEF LoggedFaithful
<1> QED
  BY <1>5, <1>6

LEMMA FaithStep ==
    ASSUME NoHashIsNone, IInv, TypeInv, HashInv, FaultInv, FaithInv, [Next]_vars
    PROVE  FaithInv'
<1> SUFFICES ASSUME edits' = 0
             PROVE  /\ SentFaithful' /\ LoggedFaithful'
                    /\ disk'.manifestHash = None => Filled'
  BY DEF FaithInv
<1>1. edits = 0 /\ ~EditFolder
  <2>1. edits \in Nat
    BY UploadAssumption DEF TypeInv, PlaceInv
  <2>2. ~EditFolder
    BY <2>1 DEF EditFolder
  <2> QED
    BY <2>2 DEF Next, Start, CLIStep, Proceed, SendBatch, BatchConfirmed, BatchReverted,
       MissingChunks, SendManifest, ManifestConfirmed, ManifestReverted,
       SaveLocalManifest, SendIndex, SkipIndex, IndexDone, Finish, Mine, MineBatch,
       MineManifest, MineIndex, Crash, BatchError, FailTx, vars
<1>2. /\ SentFaithful /\ LoggedFaithful
      /\ disk.manifestHash = None => Filled /\ Tidy
  BY <1>1 DEF FaithInv, FaultInv
<1>3. ASSUME disk'.manifestHash = None
      PROVE  /\ disk.manifestHash = None /\ Filled /\ Tidy
             /\ ~ManifestConfirmed /\ ~SaveLocalManifest /\ ~SendIndex
  <2>1. disk.manifestHash = None /\ ~ManifestConfirmed
    BY <1>3, ClaimKept
  <2>2. pc \in {"local", "index"} => manifestHash # None
    BY DEF IInv, LocalInv, NoHashIsNone
  <2> QED
    BY <1>2, <2>1, <2>2 DEF SaveLocalManifest, SendIndex, HashInv
<1>4. CASE \/ Start \/ Proceed \/ BatchReverted \/ MissingChunks \/ ManifestReverted
           \/ SkipIndex \/ IndexDone \/ Finish \/ Crash \/ BatchError \/ UNCHANGED vars
  <2>1. UNCHANGED <<txs, logs, folder>>
    BY <1>4 DEF Start, Proceed, BatchReverted, MissingChunks, ManifestReverted, SkipIndex,
       IndexDone, Finish, Crash, BatchError, vars, chainVars
  <2>2. SentFaithful' /\ LoggedFaithful'
    BY <1>2, <2>1, FaithfulQuiet
  <2> QED
    BY <1>3, <1>4, <2>2, FilledQuiet
<1>5. CASE SendBatch
  <2>1. PICK data : Send("batch", data, None)
    BY <1>5 DEF SendBatch
  <2>2. UNCHANGED <<logs, folder>>
    BY <1>5 DEF SendBatch, chainVars
  <2>3. SentFaithful' /\ LoggedFaithful'
    BY <1>2, <2>1, <2>2, FaithfulSend
  <2> QED
    BY <1>3, <1>5, <2>3, FilledSendBatch
<1>6. CASE BatchConfirmed
  <2>1. UNCHANGED <<txs, logs, folder, files>>
    BY <1>6 DEF BatchConfirmed, chainVars
  <2>2. SentFaithful' /\ LoggedFaithful'
    BY <1>2, <2>1, FaithfulQuiet
  <2>3. disk'.manifestHash = None => Filled'
    <3> SUFFICES ASSUME disk'.manifestHash = None PROVE Filled'
      OBVIOUS
    <3>1. Filled /\ Tidy /\ pc # "idle"
      BY <1>3, <1>6 DEF BatchConfirmed
    <3> QED
      BY <1>6, <2>1, <3>1, ConfirmedGenuine, ConfirmedOrderly DEF Filled
  <2> QED
    BY <2>2, <2>3
<1>7. CASE SendManifest
  <2>1. PICK p \in PartLists(files, chunks) :
          Send("manifest", <<BuildManifest(files, p)>>, None)
    BY <1>7 DEF SendManifest
  <2>2. UNCHANGED <<logs, folder, disk>> /\ disk.manifestHash = None
    BY <1>7 DEF SendManifest, chainVars, HashInv
  <2>3. DescribesFolder(BuildManifest(files, p))
    <3>1. Filled /\ Tidy
      BY <1>2, <2>2
    <3>2. Describes(BuildManifest(files, p), folder)
      BY <1>7, <2>2, <3>1, SentDescribes
    <3> QED
      BY <3>1, <3>2 DEF DescribesFolder, Tidy
  <2>4. PICK m : m = BuildManifest(files, p)
    OBVIOUS
  <2>5. Send("manifest", <<m>>, None) /\ DescribesFolder(<<m>>[1])
    BY <2>1, <2>3, <2>4
  <2>6. PICK data : data = <<m>>
    OBVIOUS
  <2>7. Send("manifest", data, None) /\ DescribesFolder(data[1])
    BY <2>5, <2>6
  <2>8. SentFaithful' /\ LoggedFaithful'
    BY <1>2, <2>2, <2>7, FaithfulSend
  <2> QED
    BY <1>2, <1>3, <1>7, <2>8, FilledQuiet
<1>8. CASE ManifestConfirmed
  <2>1. UNCHANGED <<txs, logs, folder>>
    BY <1>8 DEF ManifestConfirmed, chainVars
  <2> QED
    BY <1>2, <1>3, <1>8, <2>1, FaithfulQuiet
<1>9. CASE SaveLocalManifest
  <2>1. UNCHANGED <<txs, logs>> /\ UserFiles(folder') = UserFiles(folder)
    BY <1>9 DEF SaveLocalManifest, chainVars, UserFiles
  <2> QED
    BY <1>2, <1>3, <1>9, <2>1, FaithfulQuiet
<1>10. CASE SendIndex
  <2>1. PICK ref : Send("index", << >>, ref)
    BY <1>10 DEF SendIndex
  <2>2. UNCHANGED <<logs, folder>>
    BY <1>10 DEF SendIndex, chainVars
  <2>3. SentFaithful' /\ LoggedFaithful'
    BY <1>2, <2>1, <2>2, FaithfulSend
  <2> QED
    BY <1>3, <1>10, <2>3
<1>11. CASE Mine \/ \E i \in DOMAIN txs : FailTx(i)
  <2>1. SentFaithful' /\ LoggedFaithful'
    BY <1>2, <1>11, FaithfulMine DEF Mine
  <2> QED
    BY <1>3, <1>11, <2>1, FilledQuiet
<1> QED
  BY <1>1, <1>4, <1>5, <1>6, <1>7, <1>8, <1>9, <1>10, <1>11 DEF Next, CLIStep

\* As long as the user leaves the folder alone, every manifest that reaches the
\* chain describes it, for every folder, however its files are cut and whatever
\* goes wrong: no chunk is missing, in the wrong place or another one's.
THEOREM UploadManifestFaithful ==
    ASSUME NoHashIsNone
    PROVE  Spec => []ManifestFaithful
<1>1. Init => FaultInv /\ HashInv /\ TypeInv /\ FaithInv
  <2> SUFFICES ASSUME Init PROVE FaultInv /\ HashInv /\ TypeInv /\ FaithInv
    OBVIOUS
  <2>1. FaultInv /\ HashInv /\ TypeInv
    BY FaultInit
  <2>2. DOMAIN txs = {} /\ logs = {} /\ pc = "idle" /\ disk.chunks = {}
    BY DEF Init, ChainInit, NoState
  <2>3. SentFaithful /\ LoggedFaithful
    BY <2>2 DEF SentFaithful, LoggedFaithful
  <2>4. Genuine
    BY <2>2, FS_EmptySet DEF Genuine
  <2>5. InOrder(disk.chunks) /\ Progress
    BY <2>2 DEF InOrder, Recorded, Progress
  <2> QED
    BY <2>1, <2>2, <2>3, <2>4, <2>5 DEF FaithInv, Filled, Orderly
<1>2. IInv /\ TypeInv /\ HashInv /\ FaultInv /\ FaithInv /\ [Next]_vars => FaithInv'
  BY FaithStep
<1>3. IInv /\ TypeInv /\ HashInv /\ FaultInv /\ [Next]_vars => FaultInv'
  BY FaultStep
<1>4. FaithInv => ManifestFaithful
  BY DEF FaithInv, LoggedFaithful, ManifestFaithful
<1> QED
  BY <1>1, <1>2, <1>3, <1>4, TypeStep, HashStep, Invariance, PTL DEF Spec
=============================================================================

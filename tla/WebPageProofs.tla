--------------------------- MODULE WebPageProofs ----------------------------
(***************************************************************************)
(* Proofs about WebPage, for any selections, chunk sizes, limits and       *)
(* faults: what is held or saved for confirmed is on chain, the nonce is   *)
(* never ahead, deleted entries of the history stay deleted, the page      *)
(* implements the abstract publisher, every manifest that is sent and      *)
(* every entry of the history describes a selection, and batches are sent  *)
(* again only after a fault, or for other files of the same names.         *)
(*                                                                         *)
(* As in UploadProofs, the receipt that is waited for must be shown to be  *)
(* the receipt of the batch at hand (WaitInv), a mined transaction to have *)
(* its logs on chain (MinedInv), and the references of a manifest to be on *)
(* chain when it is sent (ManifestTxInv).  That the manifest lists the     *)
(* units in order rests on there being one unit for each key (UnitsOK).    *)
(*                                                                         *)
(* Progress is matched by the names of the files alone, so the units it    *)
(* holds may be those of other lists of files: job.from and progress.from  *)
(* name them, and GenuineFor says that there are no others.  CoveredInv    *)
(* says which units of the files are confirmed, which are in the batch at  *)
(* hand and which are left; when none is left, the manifest can be short   *)
(* only of twins.  CheapInv counts: the batches sent are bounded by the    *)
(* fees paid, each good for the batches of a packing, less those of the    *)
(* upload that are still open.                                             *)
(***************************************************************************)
EXTENDS WebPage, FiniteSetTheorems, SequenceTheorems, WellFoundedInduction, TLAPS

-----------------------------------------------------------------------------
(* Sorting.  R is a strict order in which two elements can be compared. *)

Order(R, S) ==
    /\ \A x, y \in S : x # y => <<x, y>> \in R \/ <<y, x>> \in R
    /\ \A x, y, z \in S : <<x, y>> \in R /\ <<y, z>> \in R => <<x, z>> \in R

Last(R, S) == {x \in S : \A y \in S : y # x => <<y, x>> \in R}

Enumerations(R, S) == {s \in [1 .. Cardinality(S) -> S] :
                         \A i, j \in 1 .. Cardinality(S) : i < j => <<s[i], s[j]>> \in R}

\* A set of finite subsets has a minimal element.
LEMMA MinimalSubset ==
    ASSUME NEW S, IsFiniteSet(S), NEW X, X \subseteq SUBSET S, X # {}
    PROVE  \E T \in X : \A U \in X : ~(U \subseteq T /\ U # T)
<1>1. IsWellFoundedOn(StrictSubsetOrdering(S), FiniteSubsetsOf(S))
  BY FS_StrictSubsetOrderingWellFounded
<1>2. FiniteSubsetsOf(S) = SUBSET S
  BY FS_FiniteSubsetsOfFinite
<1>3. \E T \in X : \A U \in X : ~(<<U, T>> \in StrictSubsetOrdering(S))
  BY <1>1, <1>2, WFMin
<1>4. QED
  BY <1>3 DEF StrictSubsetOrdering

LEMMA LastExists ==
    ASSUME NEW S, IsFiniteSet(S), NEW R, Order(R, S), S # {}
    PROVE  Last(R, S) # {}
<1> DEFINE X == {T \in SUBSET S : T # {} /\ Last(R, T) = {}}
<1>1. SUFFICES ASSUME X # {} PROVE FALSE
  OBVIOUS
<1>2. PICK T \in X : \A U \in X : ~(U \subseteq T /\ U # T)
  <2>1. X \subseteq SUBSET S
    OBVIOUS
  <2> HIDE DEF X
  <2>2. QED
    BY <1>1, <2>1, MinimalSubset
<1>3. PICK x \in T : TRUE
  OBVIOUS
<1>4. CASE T = {x}
  BY <1>4 DEF Last
<1>5. CASE T # {x}
  <2>1. T \ {x} \in SUBSET S /\ T \ {x} # {} /\ T \ {x} # T
    BY <1>3, <1>5
  <2>2. PICK y \in Last(R, T \ {x}) : TRUE
    BY <1>2, <2>1
  <2>3. y \in T /\ y # x /\ T \subseteq S
    BY <2>2 DEF Last
  <2>4. CASE <<x, y>> \in R
    BY <2>2, <2>3, <2>4 DEF Last
  <2>5. CASE <<y, x>> \in R
    <3>1. \A z \in T : z # x => <<z, x>> \in R
      BY <1>3, <2>2, <2>3, <2>5 DEF Last, Order
    <3>2. x \in Last(R, T)
      BY <1>3, <3>1 DEF Last
    <3>3. QED
      BY <3>2
  <2>6. QED
    BY <1>3, <2>3, <2>4, <2>5 DEF Order
<1>6. QED
  BY <1>4, <1>5

\* The last element goes behind the others.
LEMMA EnumerateLast ==
    ASSUME NEW T, IsFiniteSet(T), NEW R, NEW x \in Last(R, T),
           NEW s \in Enumerations(R, T \ {x})
    PROVE  Enumerations(R, T) # {}
<1> DEFINE n == Cardinality(T \ {x})
           t == [i \in 1 .. Cardinality(T) |-> IF i = Cardinality(T) THEN x ELSE s[i]]
<1>1. n \in Nat /\ Cardinality(T) = n + 1
  <2>1. x \in T
    BY DEF Last
  <2>2. IsFiniteSet(T \ {x}) /\ n = Cardinality(T) - 1
    BY <2>1, FS_RemoveElement
  <2>3. Cardinality(T) \in Nat /\ n \in Nat
    BY <2>2, FS_CardinalityType
  <2>4. QED
    BY <2>2, <2>3
<1>2. /\ s \in [1 .. n -> T \ {x}]
      /\ \A i, j \in 1 .. n : i < j => <<s[i], s[j]>> \in R
  BY DEF Enumerations
<1>3. x \in T /\ \A y \in T : y # x => <<y, x>> \in R
  BY DEF Last
<1> HIDE DEF n
<1>4. \A i \in 1 .. n + 1 : i = n + 1 \/ (i \in 1 .. n /\ i # n + 1)
  BY <1>1
<1>5. t \in [1 .. n + 1 -> T]
  BY <1>1, <1>2, <1>3, <1>4
<1>6. \A i, j \in 1 .. n + 1 : i < j => <<t[i], t[j]>> \in R
  <2>1. SUFFICES ASSUME NEW i \in 1 .. n + 1, NEW j \in 1 .. n + 1, i < j
                 PROVE  <<t[i], t[j]>> \in R
    OBVIOUS
  <2>2. i \in 1 .. n /\ t[i] = s[i] /\ s[i] \in T /\ s[i] # x
    BY <1>1, <1>2, <2>1
  <2>3. CASE j = n + 1
    BY <1>1, <1>3, <2>2, <2>3
  <2>4. CASE j # n + 1
    BY <1>1, <1>2, <1>4, <2>1, <2>2, <2>4
  <2>5. QED
    BY <2>3, <2>4
<1>7. t \in Enumerations(R, T)
  BY <1>1, <1>5, <1>6 DEF Enumerations
<1>8. QED
  BY <1>7

LEMMA Enumerable ==
    ASSUME NEW S, IsFiniteSet(S), NEW R, Order(R, S)
    PROVE  Enumerations(R, S) # {}
<1> DEFINE X == {T \in SUBSET S : Enumerations(R, T) = {}}
<1>1. SUFFICES ASSUME X # {} PROVE FALSE
  OBVIOUS
<1>2. PICK T \in X : \A U \in X : ~(U \subseteq T /\ U # T)
  <2>1. X \subseteq SUBSET S
    OBVIOUS
  <2> HIDE DEF X
  <2>2. QED
    BY <1>1, <2>1, MinimalSubset
<1>3. T \subseteq S /\ IsFiniteSet(T)
  BY FS_Subset
<1>4. CASE T = {}
  <2>1. 1 .. Cardinality(T) = {}
    BY <1>4, FS_EmptySet
  <2>2. [i \in {} |-> i] \in Enumerations(R, T)
    BY <1>4, <2>1 DEF Enumerations
  <2>3. QED
    BY <2>2
<1>5. CASE T # {}
  <2>1. Order(R, T)
    BY <1>3 DEF Order
  <2>2. PICK x \in Last(R, T) : TRUE
    BY <1>3, <1>5, <2>1, LastExists
  <2>3. x \in T
    BY <2>2 DEF Last
  <2>4. T \ {x} \in SUBSET S /\ T \ {x} # T
    BY <1>3, <2>3
  <2>5. Enumerations(R, T \ {x}) # {}
    BY <1>2, <2>4
  <2>6. QED
    BY <1>3, <2>2, <2>5, EnumerateLast
<1>6. QED
  BY <1>4, <1>5

-----------------------------------------------------------------------------
(* Files and units *)

File == [name : Nat, path : Nat, chunks : Seq(Chunk)]

\* What useFileProcessor makes of a selection is a sequence of its files.
LEMMA ProcessedFiles ==
    ASSUME NEW S \in Selections
    PROVE  /\ Processed[S].files \in Seq(File) /\ Processed[S].files # << >>
           /\ DOMAIN Processed[S].files = 1 .. Cardinality(S)
<1> DEFINE R == {p \in S \X S : ByName(p[1], p[2])}
           n == Cardinality(S)
<1>1. /\ S # {} /\ IsFiniteSet(S) /\ S \subseteq File
      /\ \A f, g \in S : f.path = g.path => f = g
  BY SelectionsAssumption DEF File
<1>2. Order(R, S)
  <2>1. \A f \in S : f.name \in Nat /\ f.path \in Nat
    BY <1>1 DEF File
  <2>2. ASSUME NEW f \in S, NEW g \in S, f # g
        PROVE  <<f, g>> \in R \/ <<g, f>> \in R
    <3>1. ~(f.name = g.name /\ f.path = g.path)
      BY <1>1, <2>2
    <3>2. ByName(f, g) \/ ByName(g, f)
      BY <2>1, <3>1 DEF ByName
    <3>3. QED
      BY <3>2
  <2>3. ASSUME NEW f \in S, NEW g \in S, NEW h \in S, <<f, g>> \in R, <<g, h>> \in R
        PROVE  <<f, h>> \in R
    <3>1. ByName(f, g) /\ ByName(g, h)
      BY <2>3
    <3>2. ByName(f, h)
      BY <2>1, <3>1 DEF ByName
    <3>3. QED
      BY <3>2
  <2> HIDE DEF R
  <2>4. QED
    BY <2>2, <2>3 DEF Order
<1>3. \E s : s \in SortedBy(S, ByName)
  <2>1. PICK s \in Enumerations(R, S) : TRUE
    BY <1>1, <1>2, Enumerable
  <2>2. s \in [1 .. n -> S] /\ \A i, j \in 1 .. n : i < j => <<s[i], s[j]>> \in R
    BY <2>1 DEF Enumerations
  <2>3. \A i, j \in 1 .. n : i < j => ByName(s[i], s[j])
    BY <2>2
  <2>4. s \in SortedBy(S, ByName)
    BY <2>2, <2>3 DEF SortedBy
  <2>5. QED
    BY <2>4
<1> DEFINE fs == CHOOSE s \in SortedBy(S, ByName) : TRUE
<1>4. fs \in SortedBy(S, ByName)
  BY <1>3
<1>5. Processed[S].files = fs
  BY DEF Processed
<1>6. n \in Nat /\ n # 0
  BY <1>1, FS_CardinalityType, FS_EmptySet
<1>7. fs \in [1 .. n -> File]
  BY <1>1, <1>4 DEF SortedBy
<1> HIDE DEF fs, n
<1>8. fs \in Seq(File) /\ DOMAIN fs = 1 .. n
  BY <1>6, <1>7, SeqDef
<1>9. 1 \in DOMAIN fs
  BY <1>6, <1>8
<1>10. fs # << >>
  <2>1. DOMAIN << >> = {}
    OBVIOUS
  <2>2. QED
    BY <1>9, <2>1
<1>11. QED
  BY <1>5, <1>8, <1>10 DEF n

\* There is one label for each file.
LEMMA ProcessedLabels ==
    ASSUME NEW S \in Selections
    PROVE  DOMAIN Processed[S].labels = 1 .. Cardinality(S)
<1> DEFINE R == {p \in S \X S : ByPath(p[1], p[2])}
           n == Cardinality(S)
<1>1. /\ IsFiniteSet(S) /\ \A f \in S : f.path \in Nat
      /\ \A f, g \in S : f.path = g.path => f = g
  BY SelectionsAssumption
<1>2. Order(R, S)
  <2>1. ASSUME NEW f \in S, NEW g \in S, f # g
        PROVE  <<f, g>> \in R \/ <<g, f>> \in R
    <3>1. f.path # g.path
      BY <1>1, <2>1
    <3>2. ByPath(f, g) \/ ByPath(g, f)
      BY <1>1, <3>1 DEF ByPath
    <3>3. QED
      BY <3>2
  <2>2. ASSUME NEW f \in S, NEW g \in S, NEW h \in S, <<f, g>> \in R, <<g, h>> \in R
        PROVE  <<f, h>> \in R
    <3>1. ByPath(f, g) /\ ByPath(g, h)
      BY <2>2
    <3>2. ByPath(f, h)
      BY <1>1, <3>1 DEF ByPath
    <3>3. QED
      BY <3>2
  <2> HIDE DEF R
  <2>3. QED
    BY <2>1, <2>2 DEF Order
<1>3. PICK s \in Enumerations(R, S) : TRUE
  BY <1>1, <1>2, Enumerable
<1>4. s \in [1 .. n -> S] /\ \A i, j \in 1 .. n : i < j => <<s[i], s[j]>> \in R
  BY <1>3 DEF Enumerations
<1>5. \A i, j \in 1 .. n : i < j => ByPath(s[i], s[j])
  BY <1>4
<1>6. s \in SortedBy(S, ByPath)
  BY <1>4, <1>5 DEF SortedBy
<1> DEFINE t == CHOOSE t \in SortedBy(S, ByPath) : TRUE
<1>7. t \in SortedBy(S, ByPath)
  BY <1>6
<1>8. DOMAIN t = 1 .. n
  BY <1>7 DEF SortedBy
<1>9. Processed[S].labels = [i \in DOMAIN t |-> t[i].path]
  BY DEF Processed
<1> HIDE DEF t, n
<1>10. DOMAIN Processed[S].labels = 1 .. n
  BY <1>8, <1>9
<1>11. QED
  BY <1>10 DEF n

Unit == [file : Nat, chunk : Nat, total : Nat, data : Chunk]

\* A list of files has finitely many units.
LEMMA UnitsFinite ==
    ASSUME NEW fs \in Seq(File)
    PROVE  IsFiniteSet(AllUnits(fs)) /\ AllUnits(fs) \subseteq Unit
<1> DEFINE unit(i, c) == [file |-> i - 1, chunk |-> c, total |-> Len(fs[i].chunks),
                          data |-> fs[i].chunks[c + 1]]
           unitsOf(i) == {unit(i, c) : c \in 0 .. Len(fs[i].chunks) - 1}
<1>1. /\ DOMAIN fs = 1 .. Len(fs) /\ Len(fs) \in Nat
      /\ \A i \in DOMAIN fs : fs[i] \in File
  BY LenProperties
<1>2. ASSUME NEW i \in DOMAIN fs
      PROVE  IsFiniteSet(unitsOf(i)) /\ unitsOf(i) \subseteq Unit
  <2>1. /\ fs[i].chunks \in Seq(Chunk) /\ i \in Nat /\ i - 1 \in Nat
    BY <1>1 DEF File
  <2>2. /\ Len(fs[i].chunks) \in Nat
        /\ \A k \in 1 .. Len(fs[i].chunks) : fs[i].chunks[k] \in Chunk
    <3> DEFINE cs == fs[i].chunks
    <3>1. cs \in Seq(Chunk)
      BY <2>1
    <3> HIDE DEF cs
    <3>2. Len(cs) \in Nat /\ \A k \in 1 .. Len(cs) : cs[k] \in Chunk
      BY <3>1, LenProperties, ElementOfSeq
    <3>3. QED
      BY <3>2 DEF cs
  <2>3. IsFiniteSet(0 .. Len(fs[i].chunks) - 1)
    <3>1. 0 \in Int /\ Len(fs[i].chunks) - 1 \in Int
      BY <2>2
    <3>2. QED
      BY <3>1, FS_Interval
  <2>4. IsFiniteSet(unitsOf(i))
    <3> DEFINE D == 0 .. Len(fs[i].chunks) - 1
               f == [c \in D |-> unit(i, c)]
    <3>1. f \in Surjection(D, unitsOf(i))
      BY DEF Surjection
    <3> HIDE DEF D, f, unitsOf
    <3>2. QED
      BY <2>3, <3>1, FS_Surjection DEF D
  <2>5. ASSUME NEW c \in 0 .. Len(fs[i].chunks) - 1 PROVE unit(i, c) \in Unit
    BY <2>1, <2>2 DEF Unit
  <2>6. QED
    BY <2>4, <2>5
<1> HIDE DEF unitsOf
<1>3. IsFiniteSet({unitsOf(i) : i \in DOMAIN fs})
  <2> DEFINE f == [i \in DOMAIN fs |-> unitsOf(i)]
             T == {unitsOf(i) : i \in DOMAIN fs}
  <2>1. f \in Surjection(DOMAIN fs, T)
    BY DEF Surjection
  <2>2. IsFiniteSet(DOMAIN fs)
    BY <1>1, FS_Interval
  <2> HIDE DEF f, T
  <2>3. IsFiniteSet(T)
    BY <2>1, <2>2, FS_Surjection
  <2>4. QED
    BY <2>3 DEF T
<1>4. IsFiniteSet(UNION {unitsOf(i) : i \in DOMAIN fs})
  BY <1>2, <1>3, FS_UNION
<1>5. AllUnits(fs) = UNION {unitsOf(i) : i \in DOMAIN fs}
  BY DEF AllUnits, unitsOf
<1>6. QED
  BY <1>2, <1>4, <1>5

-----------------------------------------------------------------------------
(* The invariant *)

\* A finite set of confirmed units, each for a key of its own and on chain.
UnitsOK(cs) ==
    /\ IsFiniteSet(cs)
    /\ \A c \in cs : c.file \in Nat /\ c.chunk \in Nat /\ OnChain(c.hash, c.block)
    /\ \A c, d \in cs : Key(c) = Key(d) => c = d

ConfirmedInv == /\ UnitsOK(confirmed)
                /\ progress # None => UnitsOK(progress.confirmed)

FilesInv ==
    /\ result # None => result.files \in Seq(File) /\ result.files # << >>
    /\ job.files \in Seq(File)
    /\ pc \notin {"idle", "error"} => job.files # << >>

\* A batch is sorted, and every attempt is one of those it has.
BatchInv ==
    /\ IsFiniteSet(left) /\ left \subseteq Unit
    /\ batch \in Seq(Unit)
    /\ \A i, j \in DOMAIN batch : i < j => Precedes(batch[i], batch[j])
    /\ pc \in {"send", "wait"} => batch # << >> /\ attempt \in 1 .. Retries

Kinds == {"fee", "batch", "manifest", "other"}

Tx(D) == [kind : Kinds, data : D, status : {"pending", "mined", "failed"}, block : Nat]

TxsSeq == \E D : txs \in Seq(Tx(D))

TxsInv == /\ height \in Nat
          /\ \A i \in DOMAIN txs : txs[i].block \in 0 .. height

BatchTxInv == \A i \in DOMAIN txs : txs[i].kind = "batch" => txs[i].data \in Seq(Chunk)

Written == {<<l.hash, l.block>> : l \in logs}

ManifestTxInv == \A i \in DOMAIN txs : txs[i].kind = "manifest" =>
                    /\ DOMAIN txs[i].data = {1}
                    /\ Refs(txs[i].data[1]) \subseteq Written

MinedInv == \A i \in DOMAIN txs :
                txs[i].kind \in {"batch", "manifest"} /\ txs[i].status = "mined" =>
                    \A k \in DOMAIN txs[i].data : Log(txs[i].data[k], txs[i].block) \in logs

\* The part of the state that only the sending of a transaction and the chain
\* change.
SentInv == TxsSeq /\ TxsInv /\ BatchTxInv /\ ManifestTxInv /\ MinedInv

WaitInv ==
    /\ pc = "wait" =>
        /\ sent \in DOMAIN txs /\ txs[sent].kind = "batch"
        /\ txs[sent].data = [k \in DOMAIN batch |-> batch[k].data]
    /\ pc \in {"waitManifest", "complete"} =>
        /\ sent \in DOMAIN txs /\ txs[sent].kind = "manifest"
        /\ pc = "complete" => txs[sent].status = "mined"

NonceInv ==
    /\ nonce \in Nat
    /\ pc = "idle" => nonce = 0
    /\ job.key => nonce <= Len(txs)
    /\ pc = "wait" /\ job.key => nonce < Len(txs)

CountInv == /\ pc \in States /\ faults \in 0 .. MaxFaults /\ changes \in 0 .. MaxChanges
            /\ strays \in Nat

UploadInv == /\ CountInv /\ FilesInv /\ BatchInv /\ SentInv /\ WaitInv
             /\ NonceInv /\ ConfirmedInv

\* The history: a new entry's number is not used elsewhere until it is stored.
Op(k) == ops[k].op

HistoryInv ==
    /\ \E T : ops \in Seq(T)
    /\ \A k \in DOMAIN ops : Op(k) \in {"put", "label", "delete", "list"}
    /\ completed \in Nat
    /\ DOMAIN db \union DOMAIN uploads \union removed \subseteq 1 .. completed
    /\ \A k \in DOMAIN ops : Op(k) # "list" => ops[k].id \in 1 .. completed
    /\ \A k \in DOMAIN ops : Op(k) = "put" =>
        /\ ops[k].id \notin DOMAIN db \union DOMAIN uploads \union removed
        /\ \A j \in DOMAIN ops : j # k /\ Op(j) # "list" => ops[j].id # ops[k].id
    /\ removed \intersect DOMAIN db = {}
    /\ uploads = db \/ \E k \in DOMAIN ops : Op(k) = "list"

IInv == UploadInv /\ HistoryInv

-----------------------------------------------------------------------------
(* Transactions *)

\* Sending appends one pending transaction and changes no other.
LEMMA SendLemma ==
    ASSUME TxsSeq, NEW kind \in Kinds, NEW data, Send(kind, data)
    PROVE  /\ TxsSeq'
           /\ Len(txs) \in Nat /\ DOMAIN txs = 1 .. Len(txs)
           /\ Len(txs') = Len(txs) + 1 /\ sent' = Len(txs) + 1
           /\ DOMAIN txs' = DOMAIN txs \union {Len(txs) + 1}
           /\ \A i \in DOMAIN txs : txs'[i] = txs[i]
           /\ txs'[Len(txs) + 1] = [kind |-> kind, data |-> data,
                                    status |-> "pending", block |-> 0]
<1> DEFINE r == [kind |-> kind, data |-> data, status |-> "pending", block |-> 0]
<1>1. PICK D : txs \in Seq(Tx(D))
  BY DEF TxsSeq
<1> DEFINE T == Tx(D \union {data})
<1>2. Tx(D) \subseteq T /\ r \in T
  BY DEF Tx
<1>3. txs' = Append(txs, r) /\ sent' = Len(txs) + 1
  BY DEF Send
<1> HIDE DEF r, T
<1>4. txs \in Seq(T)
  BY <1>1, <1>2, SeqMonotonic
<1>5. /\ Append(txs, r) \in Seq(T) /\ Len(Append(txs, r)) = Len(txs) + 1
      /\ \A i \in 1 .. Len(txs) : Append(txs, r)[i] = txs[i]
      /\ Append(txs, r)[Len(txs) + 1] = r
  BY <1>2, <1>4, AppendProperties
<1>6. /\ Len(txs) \in Nat /\ DOMAIN txs = 1 .. Len(txs)
      /\ DOMAIN txs' = 1 .. Len(txs')
  BY <1>3, <1>4, <1>5, LenProperties
<1>7. DOMAIN txs' = DOMAIN txs \union {Len(txs) + 1}
  BY <1>3, <1>5, <1>6
<1>8. TxsSeq'
  BY <1>3, <1>5 DEF TxsSeq, T
<1>9. QED
  BY <1>3, <1>5, <1>6, <1>7, <1>8 DEF r

\* Settling changes the status and the block of one transaction.
LEMMA SettleLemma ==
    ASSUME TxsSeq, NEW i \in DOMAIN txs, NEW s \in {"mined", "failed"},
           NEW b \in Nat, Settle(i, s, b)
    PROVE  /\ TxsSeq'
           /\ Len(txs') = Len(txs) /\ DOMAIN txs' = DOMAIN txs
           /\ \A j \in DOMAIN txs : j # i => txs'[j] = txs[j]
           /\ txs'[i].kind = txs[i].kind /\ txs'[i].data = txs[i].data
           /\ txs'[i].status = s /\ txs'[i].block = b
<1>1. PICK D : txs \in Seq(Tx(D))
  BY DEF TxsSeq
<1>2. txs[i] \in Tx(D)
  BY <1>1
<1> DEFINE r == [txs[i] EXCEPT !.status = s, !.block = b]
<1>3. /\ r \in Tx(D) /\ r.kind = txs[i].kind /\ r.data = txs[i].data
      /\ r.status = s /\ r.block = b
  BY <1>2 DEF Tx
<1>4. txs' = [txs EXCEPT ![i] = r]
  BY <1>1, <1>2 DEF Settle, Tx
<1> HIDE DEF r
<1>5. /\ txs' \in Seq(Tx(D)) /\ Len(txs') = Len(txs)
      /\ DOMAIN txs' = DOMAIN txs /\ txs'[i] = r
      /\ \A j \in DOMAIN txs : j # i => txs'[j] = txs[j]
  BY <1>1, <1>3, <1>4
<1>6. TxsSeq'
  BY <1>5 DEF TxsSeq
<1>7. QED
  BY <1>3, <1>5, <1>6

\* A step that sends a transaction: a batch of chunks, or a manifest all of
\* whose references are on chain.
LEMMA SendInv ==
    ASSUME SentInv, UNCHANGED chainVars, NEW kind \in Kinds, NEW data, Send(kind, data),
           kind = "batch" => data \in Seq(Chunk),
           kind = "manifest" => DOMAIN data = {1} /\ Refs(data[1]) \subseteq Written
    PROVE  SentInv'
<1> DEFINE n == Len(txs) + 1
           r == [kind |-> kind, data |-> data, status |-> "pending", block |-> 0]
<1>1. /\ TxsSeq' /\ DOMAIN txs' = DOMAIN txs \union {n}
      /\ \A i \in DOMAIN txs : txs'[i] = txs[i]
      /\ txs'[n] = r
  BY SendLemma DEF SentInv
<1>2. r.kind = kind /\ r.data = data /\ r.status = "pending" /\ r.block = 0
  OBVIOUS
<1> HIDE DEF n, r
<1>3. Written' = Written /\ logs' = logs /\ height' = height
  BY DEF Written, chainVars
<1>4. TxsInv'
  BY <1>1, <1>2, <1>3 DEF SentInv, TxsInv
<1>5. BatchTxInv' /\ MinedInv'
  BY <1>1, <1>2, <1>3 DEF SentInv, BatchTxInv, MinedInv
<1>6. ManifestTxInv'
  BY <1>1, <1>2, <1>3 DEF SentInv, ManifestTxInv
<1>7. QED
  BY <1>1, <1>4, <1>5, <1>6 DEF SentInv

\* A step that settles transaction i, adding to the logs and raising the height;
\* if i is mined its logs are there.
LEMMA SettleInv ==
    ASSUME SentInv, NEW i \in DOMAIN txs, NEW s \in {"mined", "failed"},
           NEW b \in Nat, Settle(i, s, b), b <= height', height' \in Nat,
           height <= height', logs \subseteq logs',
           s = "mined" /\ txs[i].kind \in {"batch", "manifest"} =>
                \A k \in DOMAIN txs[i].data : Log(txs[i].data[k], b) \in logs'
    PROVE  SentInv'
<1>1. /\ TxsSeq' /\ DOMAIN txs' = DOMAIN txs
      /\ \A j \in DOMAIN txs : j # i => txs'[j] = txs[j]
      /\ txs'[i].kind = txs[i].kind /\ txs'[i].data = txs[i].data
      /\ txs'[i].status = s /\ txs'[i].block = b
  BY SettleLemma DEF SentInv
<1>2. \A j \in DOMAIN txs : txs'[j].kind = txs[j].kind /\ txs'[j].data = txs[j].data
  BY <1>1
<1>3. Written \subseteq Written'
  BY DEF Written
<1>4. TxsInv'
  BY <1>1 DEF SentInv, TxsInv
<1>5. BatchTxInv'
  BY <1>1, <1>2 DEF SentInv, BatchTxInv
<1>6. ManifestTxInv'
  BY <1>1, <1>2, <1>3 DEF SentInv, ManifestTxInv
<1>7. MinedInv'
  BY <1>1, <1>2 DEF SentInv, MinedInv
<1>8. QED
  BY <1>1, <1>4, <1>5, <1>6, <1>7 DEF SentInv

\* A step that neither sends nor mines.
LEMMA QuietInv ==
    ASSUME SentInv, UNCHANGED <<height, logs, txs>> PROVE SentInv'
BY DEF SentInv, TxsSeq, TxsInv, BatchTxInv, ManifestTxInv, MinedInv, Written

LEMMA UnitsKept ==
    ASSUME NEW cs, UnitsOK(cs), logs \subseteq logs'
    PROVE  UnitsOK(cs)'
BY DEF UnitsOK, OnChain

-----------------------------------------------------------------------------
(* Initial states *)

LEMMA InitInv == Init => IInv
<1> SUFFICES ASSUME Init PROVE IInv
  OBVIOUS
<1> USE DEF Init, WebUploadInit, HistoryInit, Idle, NoJob, ChainInit
<1>1. CountInv
  BY WebUploadAssumption, WebHistoryAssumption DEF CountInv, States
<1>2. FilesInv
  BY EmptySeq DEF FilesInv
<1>3. BatchInv
  BY EmptySeq, FS_EmptySet DEF BatchInv
<1>4. SentInv
  <2>1. txs \in Seq(Tx({})) /\ DOMAIN txs = {}
    BY EmptySeq
  <2>2. TxsSeq
    BY <2>1 DEF TxsSeq
  <2>3. QED
    BY <2>1, <2>2 DEF SentInv, TxsInv, BatchTxInv, ManifestTxInv, MinedInv
<1>5. WaitInv /\ NonceInv
  BY DEF WaitInv, NonceInv
<1>6. ConfirmedInv
  BY FS_EmptySet DEF ConfirmedInv, UnitsOK
<1>7. HistoryInv
  <2>1. DOMAIN ops = {} /\ ops \in Seq({}) /\ DOMAIN db = {} /\ uploads = db
    BY EmptySeq DEF NoEntries
  <2>2. QED
    BY <2>1 DEF HistoryInv
<1>8. QED
  BY <1>1, <1>2, <1>3, <1>4, <1>5, <1>6, <1>7 DEF IInv, UploadInv

-----------------------------------------------------------------------------
(* The uploader's steps *)

LEMMA NotBefore ==
    ASSUME NEW u, NEW v, u.file \in Nat, u.chunk \in Nat,
           u.file = v.file, u.chunk = v.chunk
    PROVE  ~Precedes(u, v)
BY DEF Precedes

\* The units of the batch, as the receipt of its transaction confirms them.
LEMMA ConfirmOK ==
    ASSUME UnitsOK(confirmed), batch \in Seq(Unit),
           \A i, j \in DOMAIN batch : i < j => Precedes(batch[i], batch[j]),
           NEW f \in HashToUnit(batch), NEW t,
           \A k \in DOMAIN batch : OnChain(Keccak(batch[k].data), txs[t].block)
    PROVE  UnitsOK(Confirm(confirmed, batch, f, t))
<1> DEFINE unit(k) == [file |-> batch[f[k]].file, chunk |-> batch[f[k]].chunk,
                       total |-> batch[f[k]].total, hash |-> Keccak(batch[k].data),
                       block |-> txs[t].block]
           new == {unit(k) : k \in DOMAIN batch}
           old == {c \in confirmed : \A n \in new : Key(n) # Key(c)}
<1>1. /\ DOMAIN batch = 1 .. Len(batch) /\ Len(batch) \in Nat
      /\ \A k \in DOMAIN batch : batch[k] \in Unit
  BY LenProperties, ElementOfSeq
<1>2. \A k \in DOMAIN batch : f[k] \in DOMAIN batch /\ batch[f[k]].data = batch[k].data
  BY DEF HashToUnit
<1>3. Confirm(confirmed, batch, f, t) = new \union old
  BY DEF Confirm
<1>4. IsFiniteSet(new)
  <2> DEFINE D == DOMAIN batch
             g == [k \in D |-> unit(k)]
  <2>1. IsFiniteSet(D)
    BY <1>1, FS_Interval
  <2>2. g \in Surjection(D, new)
    BY DEF Surjection
  <2> HIDE DEF D, g, new
  <2>3. QED
    BY <2>1, <2>2, FS_Surjection
<1>5. IsFiniteSet(new \union old)
  <2>1. old \subseteq confirmed /\ IsFiniteSet(confirmed)
    BY DEF UnitsOK
  <2> HIDE DEF new, old
  <2>2. IsFiniteSet(old)
    BY <2>1, FS_Subset
  <2>3. QED
    BY <1>4, <2>2, FS_Union
<1>6. ASSUME NEW k \in DOMAIN batch
      PROVE  /\ unit(k).file \in Nat /\ unit(k).chunk \in Nat
             /\ OnChain(unit(k).hash, unit(k).block)
  BY <1>1, <1>2, <1>6 DEF Unit
<1>7. ASSUME NEW k \in DOMAIN batch, NEW j \in DOMAIN batch, Key(unit(k)) = Key(unit(j))
      PROVE  unit(k) = unit(j)
  <2>1. /\ batch[f[k]].file = batch[f[j]].file /\ batch[f[k]].chunk = batch[f[j]].chunk
    BY <1>7 DEF Key
  <2>2. ~(f[k] < f[j]) /\ ~(f[j] < f[k])
    <3>1. \A i \in DOMAIN batch : batch[i].file \in Nat /\ batch[i].chunk \in Nat
      BY <1>1 DEF Unit
    <3>2. ~Precedes(batch[f[k]], batch[f[j]]) /\ ~Precedes(batch[f[j]], batch[f[k]])
      BY <1>2, <2>1, <3>1, NotBefore
    <3>3. QED
      BY <1>2, <3>2
  <2>3. f[k] = f[j]
    BY <1>1, <1>2, <2>2
  <2>4. batch[k].data = batch[j].data
    BY <1>2, <2>3
  <2>5. QED
    BY <2>3, <2>4
<1>8. \A c \in new \union old : c.file \in Nat /\ c.chunk \in Nat /\ OnChain(c.hash, c.block)
  <2>1. \A c \in new : c.file \in Nat /\ c.chunk \in Nat /\ OnChain(c.hash, c.block)
    BY <1>6
  <2>2. \A c \in old : c.file \in Nat /\ c.chunk \in Nat /\ OnChain(c.hash, c.block)
    BY DEF UnitsOK
  <2>3. QED
    BY <2>1, <2>2
<1>9. \A c, d \in new \union old : Key(c) = Key(d) => c = d
  <2>1. \A c, d \in new : Key(c) = Key(d) => c = d
    BY <1>7
  <2>2. \A c, d \in old : Key(c) = Key(d) => c = d
    BY DEF UnitsOK
  <2>3. \A c \in new, d \in old : Key(c) # Key(d)
    OBVIOUS
  <2> HIDE DEF new, old
  <2>4. QED
    BY <2>1, <2>2, <2>3
<1>10. QED
  BY <1>3, <1>5, <1>8, <1>9 DEF UnitsOK

\* The confirmed units of a file can be sorted.
LEMMA PartsSorted ==
    ASSUME NEW cs, UnitsOK(cs), NEW n
    PROVE  /\ FileChunks(cs, n) \subseteq cs /\ IsFiniteSet(FileChunks(cs, n))
           /\ \A x, y \in FileChunks(cs, n) : x.chunk = y.chunk => x = y
           /\ \E s : s \in SortedBy(FileChunks(cs, n), PartBefore)
<1> DEFINE S == FileChunks(cs, n)
           R == {p \in S \X S : PartBefore(p[1], p[2])}
<1>1. /\ S \subseteq cs /\ IsFiniteSet(S)
      /\ \A x \in S : x.file = n /\ x.chunk \in Nat
      /\ \A x, y \in S : x.chunk = y.chunk => x = y
  <2>1. S \subseteq cs /\ \A x \in S : x.file = n
    BY DEF FileChunks
  <2>2. IsFiniteSet(S)
    BY <2>1, FS_Subset DEF UnitsOK
  <2>3. \A x, y \in S : x.chunk = y.chunk => Key(x) = Key(y)
    BY <2>1 DEF Key
  <2> HIDE DEF S
  <2>4. QED
    BY <2>1, <2>2, <2>3 DEF UnitsOK
<1>2. Order(R, S)
  <2>1. ASSUME NEW x \in S, NEW y \in S, x # y PROVE <<x, y>> \in R \/ <<y, x>> \in R
    <3>1. x.chunk \in Nat /\ y.chunk \in Nat /\ x.chunk # y.chunk
      BY <1>1, <2>1
    <3>2. PartBefore(x, y) \/ PartBefore(y, x)
      BY <3>1 DEF PartBefore
    <3>3. QED
      BY <3>2
  <2>2. ASSUME NEW x \in S, NEW y \in S, NEW z \in S, <<x, y>> \in R, <<y, z>> \in R
        PROVE  <<x, z>> \in R
    <3>1. PartBefore(x, y) /\ PartBefore(y, z)
      BY <2>2
    <3>2. PartBefore(x, z)
      BY <1>1, <3>1 DEF PartBefore
    <3>3. QED
      BY <3>2
  <2> HIDE DEF R, S
  <2>3. QED
    BY <2>1, <2>2 DEF Order
<1>3. PICK s \in Enumerations(R, S) : TRUE
  <2> HIDE DEF R, S
  <2>1. QED
    BY <1>1, <1>2, Enumerable
<1>4. s \in SortedBy(S, PartBefore)
  BY <1>3 DEF Enumerations, SortedBy
<1>5. QED
  BY <1>1, <1>4

\* The manifest refers to what is confirmed, and to nothing else.
LEMMA ManifestRefs ==
    ASSUME NEW fs, NEW ls, NEW cs, UnitsOK(cs)
    PROVE  Refs(ManifestOf(fs, ls, cs)) \subseteq Written
<1> DEFINE own(i) == FileChunks(cs, i - 1)
           sorted(i) == SortedBy(own(i), PartBefore)
           list(i) == CHOOSE s \in sorted(i) : TRUE
           m == ManifestOf(fs, ls, cs)
<1>1. ASSUME NEW i \in DOMAIN fs
      PROVE  \A k \in DOMAIN list(i) : list(i)[k] \in cs
  <2>1. own(i) \subseteq cs /\ \E s : s \in sorted(i)
    BY PartsSorted
  <2>2. list(i) \in sorted(i)
    BY <2>1
  <2>3. list(i) \in [1 .. Cardinality(own(i)) -> own(i)]
    BY <2>2 DEF SortedBy
  <2>4. QED
    BY <2>1, <2>3
<1>2. /\ m.entries = [i \in DOMAIN fs |-> m.entries[i]]
      /\ \A i \in DOMAIN fs : m.entries[i].parts =
            [k \in DOMAIN list(i) |-> [hash |-> list(i)[k].hash, block |-> list(i)[k].block]]
  BY DEF ManifestOf
<1> HIDE DEF m, list
<1>3. ASSUME NEW i \in DOMAIN fs, NEW k \in DOMAIN list(i)
      PROVE  <<list(i)[k].hash, list(i)[k].block>> \in Written
  <2>1. OnChain(list(i)[k].hash, list(i)[k].block)
    BY <1>1, <1>3 DEF UnitsOK
  <2>2. QED
    BY <2>1 DEF OnChain, Written
<1>4. Refs(m) \subseteq Written
  <2>1. DOMAIN m.entries = DOMAIN fs
    BY <1>2
  <2>2. ASSUME NEW i \in DOMAIN fs, NEW k \in DOMAIN m.entries[i].parts
        PROVE  <<m.entries[i].parts[k].hash, m.entries[i].parts[k].block>> \in Written
    <3> DEFINE ps == m.entries[i].parts
    <3>1. ps = [j \in DOMAIN list(i) |-> [hash |-> list(i)[j].hash, block |-> list(i)[j].block]]
      BY <1>2
    <3>2. k \in DOMAIN ps
      BY <2>2
    <3> HIDE DEF ps
    <3>3. /\ k \in DOMAIN list(i)
          /\ ps[k].hash = list(i)[k].hash /\ ps[k].block = list(i)[k].block
      BY <3>1, <3>2
    <3>4. <<ps[k].hash, ps[k].block>> \in Written
      BY <1>3, <3>3
    <3>5. QED
      BY <3>4 DEF ps
  <2> DEFINE refsOf(i) == {<<m.entries[i].parts[k].hash, m.entries[i].parts[k].block>>
                            : k \in DOMAIN m.entries[i].parts}
  <2>3. \A i \in DOMAIN fs : refsOf(i) \subseteq Written
    BY <2>2
  <2>4. Refs(m) = UNION {refsOf(i) : i \in DOMAIN fs}
    BY <2>1 DEF Refs
  <2> HIDE DEF refsOf
  <2>5. QED
    BY <2>3, <2>4
<1>5. QED
  BY <1>4 DEF m

LEMMA Counts ==
    ASSUME CountInv, Fault \/ NoFault
    PROVE  faults' \in 0 .. MaxFaults /\ strays' \in Nat
BY WebUploadAssumption DEF CountInv, Fault, NoFault, counters

LEMMA SentTypes ==
    ASSUME SentInv
    PROVE  /\ Len(txs) \in Nat /\ DOMAIN txs = 1 .. Len(txs)
           /\ \A i \in DOMAIN txs : txs[i].status \in {"pending", "mined", "failed"}
                                    /\ txs[i].kind \in Kinds
<1>1. PICK D : txs \in Seq(Tx(D))
  BY DEF SentInv, TxsSeq
<1>2. /\ Len(txs) \in Nat /\ DOMAIN txs = 1 .. Len(txs)
      /\ \A i \in 1 .. Len(txs) : txs[i] \in Tx(D)
  BY <1>1, LenProperties, ElementOfSeq
<1>3. QED
  BY <1>2 DEF Tx

\* A step that only moves the upload, to an error or past the fee.
LEMMA GotoInv ==
    ASSUME UploadInv, UNCHANGED <<result, changes>>, NEW p \in {"start", "error"},
           pc # "idle", pc # "error", Goto(p), Fault \/ NoFault
    PROVE  UploadInv'
<1>1. /\ pc' = p
      /\ UNCHANGED <<height, logs, txs, progress, job, left, batch, attempt, nonce,
                     sent, confirmed>>
  BY DEF Goto, chainVars
<1>2. CountInv'
  BY <1>1, Counts DEF UploadInv, CountInv, States
<1>3. FilesInv' /\ BatchInv' /\ WaitInv' /\ NonceInv'
  BY <1>1 DEF UploadInv, FilesInv, BatchInv, WaitInv, NonceInv
<1>4. SentInv'
  BY <1>1, QuietInv DEF UploadInv
<1>5. ConfirmedInv'
  BY <1>1, UnitsKept DEF UploadInv, ConfirmedInv
<1>6. QED
  BY <1>2, <1>3, <1>4, <1>5 DEF UploadInv

LEMMA GotoSteps ==
    ASSUME UploadInv, UNCHANGED <<result, changes>>,
           FeeMined \/ BatchFails \/ MissingChunks \/ ManifestFails \/ CallFails
    PROVE  UploadInv'
<1>1. CASE FeeMined
  <2>1. \E p \in {"start", "error"} : Goto(p)
    BY <1>1 DEF FeeMined
  <2>2. pc # "idle" /\ pc # "error" /\ NoFault
    BY <1>1 DEF FeeMined
  <2>3. QED
    BY <2>1, <2>2, GotoInv
<1>2. CASE BatchFails \/ MissingChunks \/ ManifestFails \/ CallFails
  <2>1. Goto("error") /\ pc # "idle" /\ pc # "error" /\ (Fault \/ NoFault)
    BY <1>2 DEF BatchFails, AttemptFails, MissingChunks, ManifestFails, CallFails
  <2>2. QED
    BY <2>1, GotoInv
<1>3. QED
  BY <1>1, <1>2

LEMMA BeginInv ==
    ASSUME UploadInv, UNCHANGED <<result, changes>>, result # None,
           NEW ls, NEW key \in BOOLEAN, NEW resume \in BOOLEAN,
           Begin(result.files, ls, key, resume)
    PROVE  UploadInv'
<1>1. /\ pc = "idle" /\ pc' \in {"start", "fee"}
      /\ job'.files = result.files
      /\ confirmed' = (IF resume THEN progress.confirmed ELSE {})
      /\ resume => progress # None
      /\ strays' \in {strays, strays + 1}
      /\ UNCHANGED <<height, logs, txs, progress, left, batch, attempt, nonce, sent, faults>>
  BY DEF Begin, Matches, chainVars
<1>2. CountInv'
  BY <1>1 DEF UploadInv, CountInv, States
<1>3. FilesInv' /\ BatchInv' /\ WaitInv'
  BY <1>1 DEF UploadInv, FilesInv, BatchInv, WaitInv
<1>4. NonceInv'
  <2>1. nonce = 0 /\ Len(txs) \in Nat
    BY <1>1, SentTypes DEF UploadInv, NonceInv
  <2>2. QED
    BY <1>1, <2>1 DEF NonceInv
<1>5. SentInv'
  BY <1>1, QuietInv DEF UploadInv
<1>6. ConfirmedInv'
  <2>1. UnitsOK({})'
    BY FS_EmptySet DEF UnitsOK
  <2>2. progress # None => UnitsOK(progress.confirmed)'
    BY <1>1, UnitsKept DEF UploadInv, ConfirmedInv
  <2>3. UnitsOK(confirmed)'
    <3>1. CASE resume
      BY <1>1, <2>2, <3>1 DEF UnitsOK, OnChain
    <3>2. CASE ~resume
      BY <1>1, <2>1, <3>2 DEF UnitsOK
    <3>3. QED
      BY <3>1, <3>2
  <2>4. QED
    BY <1>1, <2>2, <2>3 DEF ConfirmedInv, UnitsOK, OnChain
<1>7. QED
  BY <1>2, <1>3, <1>4, <1>5, <1>6 DEF UploadInv

LEMMA SendFeeInv == UploadInv /\ SendFee /\ UNCHANGED <<result, changes>> => UploadInv'
<1> SUFFICES ASSUME UploadInv, SendFee, UNCHANGED <<result, changes>> PROVE UploadInv'
  OBVIOUS
<1>1. /\ pc = "fee" /\ Send("fee", << >>) /\ pc' = "waitFee" /\ UNCHANGED chainVars
      /\ UNCHANGED <<height, logs, progress, job, left, batch, attempt, nonce,
                     confirmed, faults, strays>>
  BY DEF SendFee, chainVars, counters
<1>2. CountInv' /\ FilesInv' /\ BatchInv' /\ WaitInv'
  BY <1>1 DEF UploadInv, CountInv, States, FilesInv, BatchInv, WaitInv
<1>3. SentInv'
  BY <1>1, SendInv DEF UploadInv, Kinds
<1>4. NonceInv'
  <2>1. Len(txs) \in Nat /\ Len(txs') = Len(txs) + 1
    BY <1>1, SendLemma DEF UploadInv, SentInv, Kinds
  <2>2. QED
    BY <1>1, <2>1 DEF UploadInv, NonceInv
<1>5. ConfirmedInv'
  BY <1>1, UnitsKept DEF UploadInv, ConfirmedInv
<1>6. QED
  BY <1>2, <1>3, <1>4, <1>5 DEF UploadInv

LEMMA StartBatchesInv ==
    UploadInv /\ StartBatches /\ UNCHANGED <<result, changes>> => UploadInv'
<1> SUFFICES ASSUME UploadInv, StartBatches, UNCHANGED <<result, changes>> PROVE UploadInv'
  OBVIOUS
<1>1. /\ pc = "start" /\ pc' = "batches" /\ left' = AllUnits(job.files)
      /\ nonce' = (IF job.key THEN Len(txs) ELSE nonce)
      /\ UNCHANGED <<height, logs, txs, progress, job, batch, attempt, sent,
                     confirmed, faults, strays>>
  BY DEF StartBatches, chainVars, counters
<1>2. CountInv' /\ FilesInv' /\ WaitInv'
  BY <1>1 DEF UploadInv, CountInv, States, FilesInv, WaitInv
<1>3. BatchInv'
  <2>1. IsFiniteSet(left') /\ left' \subseteq Unit
    BY <1>1, UnitsFinite DEF UploadInv, FilesInv
  <2>2. QED
    BY <1>1, <2>1 DEF UploadInv, BatchInv
<1>4. SentInv'
  BY <1>1, QuietInv DEF UploadInv
<1>5. NonceInv'
  <2>1. Len(txs) \in Nat
    BY SentTypes DEF UploadInv
  <2>2. QED
    BY <1>1, <2>1 DEF UploadInv, NonceInv
<1>6. ConfirmedInv'
  BY <1>1, UnitsKept DEF UploadInv, ConfirmedInv
<1>7. QED
  BY <1>2, <1>3, <1>4, <1>5, <1>6 DEF UploadInv

\* The next batch comes from what is left.
LEMMA NextBatchSubset ==
    ASSUME UploadInv
    PROVE  /\ NextBatch(left) \subseteq left
           /\ IsFiniteSet(NextBatch(left)) /\ NextBatch(left) \subseteq Unit
           /\ IsFiniteSet(left \ NextBatch(left))
<1>1. NextBatch(left) \subseteq left
  BY DEF NextBatch
<1>2. IsFiniteSet(left) /\ left \subseteq Unit
  BY DEF UploadInv, BatchInv
<1>3. QED
  BY <1>1, <1>2, FS_Subset

LEMMA TakeOrSkipInv ==
    ASSUME UploadInv, SkipBatch \/ TakeBatch, UNCHANGED <<result, changes>>
    PROVE  UploadInv'
<1> DEFINE us == NextBatch(left)
<1>1. /\ pc = "batches" /\ left' = left \ us
      /\ UNCHANGED <<height, logs, txs, progress, job, nonce, sent, confirmed, faults, strays>>
      /\ \/ pc' = pc /\ batch' = batch /\ attempt' = attempt
         \/ /\ pc' = "send" /\ batch' \in SortedBy(us, Precedes) /\ attempt' = 1
            /\ ~AlreadyConfirmed(us)
  BY DEF SkipBatch, TakeBatch, chainVars, counters
<1>2. /\ IsFiniteSet(us) /\ us \subseteq Unit
      /\ IsFiniteSet(left') /\ left' \subseteq Unit
  BY <1>1, NextBatchSubset DEF UploadInv, BatchInv
<1> HIDE DEF us
<1>3. BatchInv'
  <2>1. CASE pc' = pc /\ batch' = batch /\ attempt' = attempt
    BY <1>1, <1>2, <2>1 DEF UploadInv, BatchInv
  <2>2. CASE pc' = "send" /\ batch' \in SortedBy(us, Precedes) /\ attempt' = 1
             /\ ~AlreadyConfirmed(us)
    <3>1. us # {}
      BY <2>2 DEF AlreadyConfirmed
    <3> DEFINE n == Cardinality(us)
    <3>2. n \in Nat /\ n # 0
      BY <1>2, <3>1, FS_CardinalityType, FS_EmptySet
    <3>3. /\ batch' \in [1 .. n -> us]
          /\ \A i, j \in 1 .. n : i < j => Precedes(batch'[i], batch'[j])
      BY <2>2 DEF SortedBy
    <3> HIDE DEF n
    <3>4. batch' \in [1 .. n -> Unit] /\ DOMAIN batch' = 1 .. n
      BY <1>2, <3>3
    <3>5. batch' \in Seq(Unit)
      BY <3>2, <3>4, SeqDef
    <3>6. batch' # << >>
      <4>1. 1 \in DOMAIN batch'
        BY <3>2, <3>4
      <4>2. DOMAIN << >> = {}
        OBVIOUS
      <4>3. QED
        BY <4>1, <4>2
    <3>7. 1 \in 1 .. Retries
      BY WebUploadAssumption
    <3>8. QED
      BY <1>2, <2>2, <3>3, <3>4, <3>5, <3>6, <3>7 DEF BatchInv
  <2>3. QED
    BY <1>1, <2>1, <2>2
<1>4. CountInv' /\ FilesInv' /\ WaitInv' /\ NonceInv'
  BY <1>1 DEF UploadInv, CountInv, States, FilesInv, WaitInv, NonceInv
<1>5. SentInv'
  BY <1>1, QuietInv DEF UploadInv
<1>6. ConfirmedInv'
  BY <1>1, UnitsKept DEF UploadInv, ConfirmedInv
<1>7. QED
  BY <1>3, <1>4, <1>5, <1>6 DEF UploadInv

LEMMA SendBatchInv == UploadInv /\ SendBatch /\ UNCHANGED <<result, changes>> => UploadInv'
<1> SUFFICES ASSUME UploadInv, SendBatch, UNCHANGED <<result, changes>> PROVE UploadInv'
  OBVIOUS
<1> DEFINE data == [k \in DOMAIN batch |-> batch[k].data]
<1>1. /\ pc = "send" /\ NonceAccepted /\ Send("batch", data) /\ pc' = "wait"
      /\ UNCHANGED chainVars
      /\ UNCHANGED <<height, logs, progress, job, left, batch, attempt, nonce,
                     confirmed, faults, strays>>
  BY DEF SendBatch, chainVars, counters
<1>2. CountInv' /\ FilesInv' /\ BatchInv'
  BY <1>1 DEF UploadInv, CountInv, States, FilesInv, BatchInv
<1>3. data \in Seq(Chunk)
  <2>1. /\ DOMAIN batch = 1 .. Len(batch) /\ Len(batch) \in Nat
        /\ \A k \in DOMAIN batch : batch[k] \in Unit
    BY LenProperties, ElementOfSeq DEF UploadInv, BatchInv
  <2>2. \A k \in DOMAIN batch : batch[k].data \in Chunk
    BY <2>1 DEF Unit
  <2>3. data \in [1 .. Len(batch) -> Chunk]
    BY <2>1, <2>2
  <2> HIDE DEF data
  <2>4. QED
    BY <2>1, <2>3, SeqDef
<1>4. SentInv'
  <2> HIDE DEF data
  <2>1. SentInv /\ "batch" \in Kinds
    BY DEF UploadInv, Kinds
  <2>2. QED
    BY <1>1, <1>3, <2>1, SendInv
<1>5. /\ Len(txs) \in Nat /\ Len(txs') = Len(txs) + 1 /\ sent' = Len(txs) + 1
      /\ sent' \in DOMAIN txs' /\ txs'[sent'].kind = "batch" /\ txs'[sent'].data = data
  <2> HIDE DEF data
  <2>1. TxsSeq /\ "batch" \in Kinds
    BY DEF UploadInv, SentInv, Kinds
  <2>2. /\ Len(txs) \in Nat /\ Len(txs') = Len(txs) + 1 /\ sent' = Len(txs) + 1
        /\ DOMAIN txs' = DOMAIN txs \union {Len(txs) + 1}
        /\ txs'[Len(txs) + 1] = [kind |-> "batch", data |-> data,
                                 status |-> "pending", block |-> 0]
    BY <1>1, <2>1, SendLemma
  <2>3. QED
    BY <2>2
<1>6. WaitInv'
  BY <1>1, <1>5 DEF WaitInv
<1>7. NonceInv'
  BY <1>1, <1>5 DEF UploadInv, NonceInv, NonceAccepted
<1>8. ConfirmedInv'
  BY <1>1, UnitsKept DEF UploadInv, ConfirmedInv
<1>9. QED
  BY <1>2, <1>4, <1>6, <1>7, <1>8 DEF UploadInv

\* The receipt that has come is that of the batch at hand.
LEMMA BatchConfirmedInv ==
    UploadInv /\ BatchConfirmed /\ UNCHANGED <<result, changes>> => UploadInv'
<1> SUFFICES ASSUME UploadInv, BatchConfirmed, UNCHANGED <<result, changes>>
             PROVE  UploadInv'
  OBVIOUS
<1>1. /\ pc = "wait" /\ txs[sent].status = "mined" /\ pc' = "batches"
      /\ batch' = << >> /\ attempt' = 0
      /\ nonce' = (IF job.key THEN nonce + 1 ELSE nonce)
      /\ UNCHANGED <<height, logs, txs, job, left, sent>>
      /\ Fault \/ NoFault
  BY DEF BatchConfirmed, SaveProgress, chainVars
<1>2. CountInv'
  BY <1>1, Counts DEF UploadInv, CountInv, States
<1>3. FilesInv' /\ WaitInv'
  BY <1>1 DEF UploadInv, FilesInv, WaitInv
<1>4. BatchInv'
  BY <1>1, EmptySeq DEF UploadInv, BatchInv
<1>5. SentInv'
  BY <1>1, QuietInv DEF UploadInv
<1>6. NonceInv'
  <2>1. Len(txs) \in Nat
    BY SentTypes DEF UploadInv
  <2>2. QED
    BY <1>1, <2>1 DEF UploadInv, NonceInv
<1>7. UnitsOK(confirmed')
  <2>1. PICK f \in HashToUnit(batch) : confirmed' = Confirm(confirmed, batch, f, sent)
    BY DEF BatchConfirmed
  <2>2. /\ sent \in DOMAIN txs /\ txs[sent].kind = "batch"
        /\ txs[sent].data = [k \in DOMAIN batch |-> batch[k].data]
    BY <1>1 DEF UploadInv, WaitInv
  <2>3. ASSUME NEW k \in DOMAIN batch
        PROVE  OnChain(Keccak(batch[k].data), txs[sent].block)
    <3>1. k \in DOMAIN txs[sent].data /\ txs[sent].data[k] = batch[k].data
      BY <2>2
    <3>2. Log(txs[sent].data[k], txs[sent].block) \in logs
      BY <1>1, <2>2, <3>1 DEF UploadInv, SentInv, MinedInv
    <3>3. QED
      BY <3>1, <3>2 DEF OnChain, Log
  <2>4. UnitsOK(Confirm(confirmed, batch, f, sent))
    BY <2>3, ConfirmOK DEF UploadInv, ConfirmedInv, BatchInv
  <2>5. QED
    BY <2>1, <2>4
<1>8. ConfirmedInv'
  <2>1. UnitsOK(confirmed)'
    BY <1>1, <1>7 DEF UnitsOK, OnChain
  <2>2. \/ progress' = [names |-> Names(job.files), confirmed |-> confirmed',
                       from |-> job.from]
        \/ progress' = progress
    BY DEF BatchConfirmed, SaveProgress
  <2>3. CASE progress' # progress
    <3>1. progress'.confirmed = confirmed'
      BY <2>2, <2>3
    <3>2. QED
      BY <2>1, <3>1 DEF ConfirmedInv, UnitsOK, OnChain
  <2>4. CASE progress' = progress
    <3>1. progress # None => UnitsOK(progress.confirmed)'
      BY <1>1, <2>4, UnitsKept DEF UploadInv, ConfirmedInv
    <3>2. QED
      BY <2>1, <2>4, <3>1 DEF ConfirmedInv, UnitsOK, OnChain
  <2>5. QED
    BY <2>2, <2>3, <2>4
<1>9. QED
  BY <1>2, <1>3, <1>4, <1>5, <1>6, <1>8 DEF UploadInv

LEMMA RetryBatchInv ==
    UploadInv /\ RetryBatch /\ UNCHANGED <<result, changes>> => UploadInv'
<1> SUFFICES ASSUME UploadInv, RetryBatch, UNCHANGED <<result, changes>> PROVE UploadInv'
  OBVIOUS
<1>1. /\ pc \in {"send", "wait"} /\ attempt < Retries /\ pc' = "send"
      /\ attempt' = attempt + 1
      /\ nonce' = (IF job.key THEN Len(txs) ELSE nonce)
      /\ Fault \/ NoFault
      /\ UNCHANGED <<height, logs, txs, progress, job, left, batch, sent, confirmed>>
  BY DEF RetryBatch, AttemptFails, chainVars
<1>2. CountInv'
  BY <1>1, Counts DEF UploadInv, CountInv, States
<1>3. FilesInv' /\ WaitInv'
  BY <1>1 DEF UploadInv, FilesInv, WaitInv
<1>4. BatchInv'
  <2>1. attempt' \in 1 .. Retries
    BY <1>1, WebUploadAssumption DEF UploadInv, BatchInv
  <2>2. QED
    BY <1>1, <2>1 DEF UploadInv, BatchInv
<1>5. SentInv'
  BY <1>1, QuietInv DEF UploadInv
<1>6. NonceInv'
  <2>1. Len(txs) \in Nat
    BY SentTypes DEF UploadInv
  <2>2. QED
    BY <1>1, <2>1 DEF UploadInv, NonceInv
<1>7. ConfirmedInv'
  BY <1>1, UnitsKept DEF UploadInv, ConfirmedInv
<1>8. QED
  BY <1>2, <1>3, <1>4, <1>5, <1>6, <1>7 DEF UploadInv

LEMMA SendManifestInv ==
    UploadInv /\ SendManifest /\ UNCHANGED <<result, changes>> => UploadInv'
<1> SUFFICES ASSUME UploadInv, SendManifest, UNCHANGED <<result, changes>> PROVE UploadInv'
  OBVIOUS
<1> DEFINE m == ManifestOf(job.files, job.labels, confirmed)
<1>1. /\ pc = "batches" /\ Send("manifest", <<m>>) /\ pc' = "waitManifest"
      /\ UNCHANGED chainVars
      /\ UNCHANGED <<height, logs, progress, job, left, batch, attempt, nonce,
                     confirmed, faults, strays>>
  BY DEF SendManifest, chainVars, counters
<1>2. Refs(m) \subseteq Written
  BY ManifestRefs DEF UploadInv, ConfirmedInv
<1> HIDE DEF m
<1>3. CountInv' /\ FilesInv' /\ BatchInv'
  BY <1>1 DEF UploadInv, CountInv, States, FilesInv, BatchInv
<1>4. SentInv'
  <2>1. SentInv /\ "manifest" \in Kinds
    BY DEF UploadInv, Kinds
  <2>2. DOMAIN <<m>> = {1} /\ <<m>>[1] = m
    OBVIOUS
  <2>3. QED
    BY <1>1, <1>2, <2>1, <2>2, SendInv
<1>5. /\ Len(txs) \in Nat /\ Len(txs') = Len(txs) + 1
      /\ sent' \in DOMAIN txs' /\ txs'[sent'].kind = "manifest"
  <2>1. TxsSeq /\ "manifest" \in Kinds
    BY DEF UploadInv, SentInv, Kinds
  <2>2. /\ Len(txs) \in Nat /\ Len(txs') = Len(txs) + 1 /\ sent' = Len(txs) + 1
        /\ DOMAIN txs' = DOMAIN txs \union {Len(txs) + 1}
        /\ txs'[Len(txs) + 1] = [kind |-> "manifest", data |-> <<m>>,
                                 status |-> "pending", block |-> 0]
    BY <1>1, <2>1, SendLemma
  <2>3. QED
    BY <2>2
<1>6. WaitInv'
  BY <1>1, <1>5 DEF WaitInv
<1>7. NonceInv'
  BY <1>1, <1>5 DEF UploadInv, NonceInv
<1>8. ConfirmedInv'
  BY <1>1, UnitsKept DEF UploadInv, ConfirmedInv
<1>9. QED
  BY <1>3, <1>4, <1>6, <1>7, <1>8 DEF UploadInv

LEMMA ManifestConfirmedInv ==
    UploadInv /\ ManifestConfirmed /\ UNCHANGED <<result, changes>> => UploadInv'
<1> SUFFICES ASSUME UploadInv, ManifestConfirmed, UNCHANGED <<result, changes>>
             PROVE  UploadInv'
  OBVIOUS
<1>1. /\ pc = "waitManifest" /\ txs[sent].status = "mined" /\ pc' = "complete"
      /\ progress' = None
      /\ UNCHANGED <<height, logs, txs, job, left, batch, attempt, nonce, sent,
                     confirmed, faults, strays>>
  BY DEF ManifestConfirmed, chainVars, counters
<1>2. CountInv' /\ FilesInv' /\ BatchInv' /\ WaitInv' /\ NonceInv'
  BY <1>1 DEF UploadInv, CountInv, States, FilesInv, BatchInv, WaitInv, NonceInv
<1>3. SentInv'
  BY <1>1, QuietInv DEF UploadInv
<1>4. ConfirmedInv'
  BY <1>1, UnitsKept DEF UploadInv, ConfirmedInv
<1>5. QED
  BY <1>2, <1>3, <1>4 DEF UploadInv

-----------------------------------------------------------------------------
(* The user, the browser and the chain *)

\* The page forgets the upload.
LEMMA ForgetInv ==
    ASSUME UploadInv, Forget, pc' = "idle", UNCHANGED <<result, changes, chainVars, txs>>,
           UNCHANGED progress, Fault \/ NoFault
    PROVE  UploadInv'
<1>1. /\ job' = NoJob /\ left' = {} /\ batch' = << >> /\ attempt' = 0 /\ nonce' = 0
      /\ confirmed' = {} /\ UNCHANGED <<height, logs>>
  BY DEF Forget, chainVars
<1>2. CountInv'
  BY Counts DEF UploadInv, CountInv, States
<1>3. FilesInv' /\ BatchInv'
  BY <1>1, EmptySeq, FS_EmptySet DEF UploadInv, FilesInv, BatchInv, NoJob
<1>4. WaitInv' /\ NonceInv'
  BY <1>1 DEF WaitInv, NonceInv, NoJob
<1>5. SentInv'
  BY <1>1, QuietInv DEF UploadInv
<1>6. ConfirmedInv'
  <2>1. UnitsOK(confirmed)'
    BY <1>1, FS_EmptySet DEF UnitsOK
  <2>2. progress # None => UnitsOK(progress.confirmed)'
    BY <1>1, UnitsKept DEF UploadInv, ConfirmedInv
  <2>3. QED
    BY <2>1, <2>2 DEF ConfirmedInv, UnitsOK, OnChain
<1>7. QED
  BY <1>2, <1>3, <1>4, <1>5, <1>6 DEF UploadInv

LEMMA DropProgressInv ==
    UploadInv /\ DropProgress /\ UNCHANGED <<result, changes>> => UploadInv'
<1> SUFFICES ASSUME UploadInv, DropProgress, UNCHANGED <<result, changes>>
             PROVE  UploadInv'
  OBVIOUS
<1>1. /\ progress' = None /\ Fault
      /\ UNCHANGED <<height, logs, txs, pc, job, left, batch, attempt, nonce, sent,
                     confirmed>>
  BY DEF DropProgress, chainVars, uploadVars
<1>2. CountInv'
  BY <1>1, Counts DEF UploadInv, CountInv
<1>3. FilesInv' /\ BatchInv' /\ WaitInv' /\ NonceInv'
  BY <1>1 DEF UploadInv, FilesInv, BatchInv, WaitInv, NonceInv
<1>4. SentInv'
  BY <1>1, QuietInv DEF UploadInv
<1>5. ConfirmedInv'
  BY <1>1, UnitsKept DEF UploadInv, ConfirmedInv
<1>6. QED
  BY <1>2, <1>3, <1>4, <1>5 DEF UploadInv

\* What stays when only the chain or the account goes on.
LEMMA OutsideInv ==
    ASSUME UploadInv, UNCHANGED <<result, changes, strays, progress, uploadVars>>,
           faults' \in 0 .. MaxFaults, SentInv', logs \subseteq logs',
           Len(txs) <= Len(txs'), Len(txs') \in Nat,
           sent \in DOMAIN txs =>
                /\ sent \in DOMAIN txs'
                /\ txs'[sent].kind = txs[sent].kind /\ txs'[sent].data = txs[sent].data
                /\ txs[sent].status = "mined" => txs'[sent].status = "mined"
    PROVE  UploadInv'
<1>1. UNCHANGED <<pc, job, left, batch, attempt, nonce, sent, confirmed>>
  BY DEF uploadVars
<1>2. CountInv' /\ FilesInv' /\ BatchInv'
  BY <1>1 DEF UploadInv, CountInv, FilesInv, BatchInv
<1>3. WaitInv'
  BY <1>1 DEF UploadInv, WaitInv
<1>4. NonceInv'
  <2>1. Len(txs) \in Nat
    BY SentTypes DEF UploadInv
  <2>2. QED
    BY <1>1, <2>1 DEF UploadInv, NonceInv
<1>5. ConfirmedInv'
  BY <1>1, UnitsKept DEF UploadInv, ConfirmedInv
<1>6. QED
  BY <1>2, <1>3, <1>4, <1>5 DEF UploadInv

LEMMA OtherTxInv == UploadInv /\ OtherTx /\ UNCHANGED <<result, changes>> => UploadInv'
<1> SUFFICES ASSUME UploadInv, OtherTx, UNCHANGED <<result, changes>> PROVE UploadInv'
  OBVIOUS
<1> DEFINE r == [kind |-> "other", data |-> << >>, status |-> "pending", block |-> 0]
<1>1. /\ txs' = Append(txs, r) /\ Fault
      /\ UNCHANGED <<strays, progress, uploadVars>> /\ UNCHANGED <<height, logs>>
  BY DEF OtherTx, Fault, chainVars
<1>2. PICK D : txs \in Seq(Tx(D))
  BY DEF UploadInv, SentInv, TxsSeq
<1> DEFINE T == Tx(D \union {<< >>})
<1>3. Tx(D) \subseteq T /\ r \in T /\ r.kind = "other" /\ r.block = 0
  BY DEF Tx, Kinds
<1> HIDE DEF r, T
<1>4. txs \in Seq(T)
  BY <1>2, <1>3, SeqMonotonic
<1>5. /\ txs' \in Seq(T) /\ Len(txs') = Len(txs) + 1
      /\ \A i \in 1 .. Len(txs) : txs'[i] = txs[i]
      /\ txs'[Len(txs) + 1] = r
  BY <1>1, <1>3, <1>4, AppendProperties
<1>6. /\ Len(txs) \in Nat /\ DOMAIN txs = 1 .. Len(txs) /\ DOMAIN txs' = 1 .. Len(txs')
  BY <1>4, <1>5, LenProperties
<1>7. /\ \A i \in DOMAIN txs : i \in DOMAIN txs' /\ txs'[i] = txs[i]
      /\ \A i \in DOMAIN txs' : i \in DOMAIN txs \/ txs'[i] = r
  BY <1>5, <1>6
<1>8. SentInv'
  <2>1. TxsSeq'
    BY <1>5 DEF TxsSeq, T
  <2>2. TxsInv' /\ BatchTxInv' /\ ManifestTxInv' /\ MinedInv'
    BY <1>1, <1>3, <1>7
       DEF UploadInv, SentInv, TxsInv, BatchTxInv, ManifestTxInv, MinedInv, Written
  <2>3. QED
    BY <2>1, <2>2 DEF SentInv
<1>9. faults' \in 0 .. MaxFaults
  BY <1>1, Counts DEF UploadInv
<1>10. QED
  BY <1>1, <1>5, <1>6, <1>7, <1>8, <1>9, OutsideInv

\* What is left to show of a transaction that is settled.
LEMMA SettledInv ==
    ASSUME UploadInv, UNCHANGED <<result, changes, strays, progress, uploadVars>>,
           faults' \in 0 .. MaxFaults, NEW i \in DOMAIN txs, txs[i].status = "pending",
           NEW s \in {"mined", "failed"}, NEW b \in Nat, Settle(i, s, b),
           SentInv', logs \subseteq logs'
    PROVE  UploadInv'
<1>1. /\ Len(txs') = Len(txs) /\ DOMAIN txs' = DOMAIN txs
      /\ \A j \in DOMAIN txs : j # i => txs'[j] = txs[j]
      /\ txs'[i].kind = txs[i].kind /\ txs'[i].data = txs[i].data
  BY SettleLemma DEF UploadInv, SentInv
<1>2. Len(txs) \in Nat
  BY SentTypes DEF UploadInv
<1>3. sent \in DOMAIN txs =>
        /\ sent \in DOMAIN txs'
        /\ txs'[sent].kind = txs[sent].kind /\ txs'[sent].data = txs[sent].data
        /\ txs[sent].status = "mined" => txs'[sent].status = "mined"
  BY <1>1
<1>4. QED
  BY <1>1, <1>2, <1>3, OutsideInv

LEMMA FailTxInv ==
    ASSUME UploadInv, NEW i \in DOMAIN txs, FailTx(i), UNCHANGED <<result, changes>>
    PROVE  UploadInv'
<1>1. /\ txs[i].status = "pending" /\ Settle(i, "failed", height) /\ Fault
      /\ UNCHANGED <<height, logs>> /\ UNCHANGED <<strays, progress, uploadVars>>
  BY DEF FailTx, NextTx, Fault, chainVars
<1>2. height \in Nat /\ SentInv /\ CountInv
  BY DEF UploadInv, SentInv, TxsInv
<1>3. SentInv'
  BY <1>1, <1>2, SettleInv
<1>4. faults' \in 0 .. MaxFaults
  BY <1>1, <1>2, Counts
<1>5. QED
  BY <1>1, <1>2, <1>3, <1>4, SettledInv

LEMMA MineTxInv ==
    ASSUME UploadInv, NEW i \in DOMAIN txs, MineTx(i), UNCHANGED <<result, changes>>
    PROVE  UploadInv'
<1> DEFINE ds == txs[i].data
<1>1. /\ txs[i].status = "pending" /\ Settle(i, "mined", height + 1)
      /\ UNCHANGED <<progress, uploadVars, faults, strays>>
  BY DEF MineTx, NextTx, counters
<1>2. height \in Nat /\ SentInv /\ txs[i].kind \in Kinds
  BY SentTypes DEF UploadInv, SentInv, TxsInv
<1>3. /\ height' = height + 1 /\ logs \subseteq logs'
      /\ txs[i].kind \in {"batch", "manifest"} =>
            \A k \in DOMAIN ds : Log(ds[k], height + 1) \in logs'
  <2>1. CASE txs[i].kind = "batch"
    <3>1. ds \in Seq(Chunk)
      BY <1>2, <2>1 DEF SentInv, BatchTxInv
    <3>2. Len(ds) \in Nat /\ DOMAIN ds = 1 .. Len(ds)
      BY <3>1, LenProperties
    <3>3. CASE Len(ds) = 1
      <4>1. Store(ds[1])
        BY <2>1, <3>3 DEF MineTx
      <4>2. DOMAIN ds = {1}
        BY <3>2, <3>3
      <4> HIDE DEF ds
      <4>3. QED
        BY <4>1, <4>2 DEF Store
    <3>4. CASE Len(ds) # 1
      <4>1. StoreBatch(ds)
        BY <2>1, <3>4 DEF MineTx
      <4> HIDE DEF ds
      <4>2. QED
        BY <4>1 DEF StoreBatch
    <3>5. QED
      BY <3>3, <3>4
  <2>2. CASE txs[i].kind = "manifest"
    <3>1. StoreManifest(Wallet, ds[1])
      BY <2>2 DEF MineTx
    <3>2. DOMAIN ds = {1}
      BY <1>2, <2>2 DEF SentInv, ManifestTxInv
    <3> HIDE DEF ds
    <3>3. QED
      BY <3>1, <3>2 DEF StoreManifest
  <2>3. CASE txs[i].kind \in {"fee", "other"}
    BY <2>3 DEF MineTx
  <2>4. QED
    BY <1>2, <2>1, <2>2, <2>3 DEF Kinds
<1>4. height + 1 \in Nat /\ height <= height' /\ height + 1 <= height'
  BY <1>2, <1>3
<1>5. SentInv'
  BY <1>1, <1>2, <1>3, <1>4, SettleInv
<1>6. faults' \in 0 .. MaxFaults
  BY <1>1 DEF UploadInv, CountInv
<1>7. QED
  BY <1>1, <1>3, <1>4, <1>5, <1>6, SettledInv

LEMMA HandOverInv == UploadInv /\ HandOver => UploadInv'
<1> SUFFICES ASSUME UploadInv, HandOver PROVE UploadInv'
  OBVIOUS
<1>1. PICK S \in Selections : result' = Processed[S]
  BY DEF HandOver
<1>2. UNCHANGED <<height, logs, txs, progress, pc, job, left, batch, attempt, nonce,
                  sent, confirmed, faults, strays, changes>>
  BY DEF HandOver, webUploadVars, uploadVars, chainVars, historyVars
<1>3. FilesInv'
  BY <1>1, <1>2, ProcessedFiles DEF UploadInv, FilesInv
<1>4. CountInv' /\ BatchInv' /\ WaitInv' /\ NonceInv'
  BY <1>2 DEF UploadInv, CountInv, BatchInv, WaitInv, NonceInv
<1>5. SentInv'
  BY <1>2, QuietInv DEF UploadInv
<1>6. ConfirmedInv'
  BY <1>2, UnitsKept DEF UploadInv, ConfirmedInv
<1>7. QED
  BY <1>3, <1>4, <1>5, <1>6 DEF UploadInv

-----------------------------------------------------------------------------
(* The history *)

\* Appending a call to the list of those not yet run.
LEMMA AppendOp ==
    ASSUME NEW o, \E T : ops \in Seq(T), ops' = Append(ops, o)
    PROVE  /\ \E T : ops' \in Seq(T)
           /\ Len(ops) \in Nat /\ DOMAIN ops = 1 .. Len(ops)
           /\ DOMAIN ops' = DOMAIN ops \union {Len(ops) + 1}
           /\ \A k \in DOMAIN ops : ops'[k] = ops[k]
           /\ ops'[Len(ops) + 1] = o
<1>1. PICK T : ops \in Seq(T)
  OBVIOUS
<1>2. ops \in Seq(T \union {o}) /\ o \in T \union {o}
  BY <1>1, SeqMonotonic
<1>3. /\ ops' \in Seq(T \union {o}) /\ Len(ops') = Len(ops) + 1
      /\ \A k \in 1 .. Len(ops) : ops'[k] = ops[k]
      /\ ops'[Len(ops) + 1] = o
  BY <1>2, AppendProperties
<1>4. /\ Len(ops) \in Nat /\ DOMAIN ops = 1 .. Len(ops) /\ DOMAIN ops' = 1 .. Len(ops')
  BY <1>2, <1>3, LenProperties
<1>5. DOMAIN ops' = DOMAIN ops \union {Len(ops) + 1}
  BY <1>3, <1>4
<1>6. QED
  BY <1>3, <1>4, <1>5

\* Taking the first call off the list: the others are those behind it.
LEMMA TailOp ==
    ASSUME \E T : ops \in Seq(T), ops # << >>
    PROVE  /\ \E T : Tail(ops) \in Seq(T)
           /\ Len(ops) \in Nat /\ DOMAIN ops = 1 .. Len(ops) /\ 1 \in DOMAIN ops
           /\ Head(ops) = ops[1]
           /\ Len(Tail(ops)) = Len(ops) - 1 /\ Len(Tail(ops)) \in Nat
           /\ DOMAIN Tail(ops) = 1 .. Len(ops) - 1
           /\ \A k \in 1 .. Len(ops) - 1 : k + 1 \in DOMAIN ops /\ Tail(ops)[k] = ops[k + 1]
<1>1. PICK T : ops \in Seq(T)
  OBVIOUS
<1>2. Len(ops) \in Nat /\ DOMAIN ops = 1 .. Len(ops) /\ Len(ops) # 0
  BY <1>1, LenProperties, EmptySeq
<1>3. /\ Tail(ops) \in Seq(T) /\ Len(Tail(ops)) = Len(ops) - 1
      /\ \A k \in 1 .. Len(Tail(ops)) : Tail(ops)[k] = ops[k + 1]
  BY <1>1, HeadTailProperties
<1>4. DOMAIN Tail(ops) = 1 .. Len(Tail(ops)) /\ Len(Tail(ops)) \in Nat
  BY <1>3, LenProperties
<1>5. Head(ops) = ops[1]
  BY <1>1
<1>6. QED
  BY <1>2, <1>3, <1>4, <1>5

\* A step that has nothing to do with the history.
LEMMA HistoryQuiet ==
    ASSUME HistoryInv, UNCHANGED <<historyVars, completed>> PROVE HistoryInv'
BY DEF HistoryInv, historyVars, Op

LEMMA SaveUploadInv ==
    ASSUME HistoryInv, NEW entry, SaveUpload(completed + 1, entry),
           completed' = completed + 1
    PROVE  HistoryInv'
<1> DEFINE o == [op |-> "put", id |-> completed + 1, entry |-> entry]
           n == Len(ops) + 1
<1>1. /\ ops' = Append(ops, o) /\ UNCHANGED <<db, uploads, removed>>
      /\ o.op = "put" /\ o.id = completed + 1
  BY DEF SaveUpload
<1> HIDE DEF o
<1>2. /\ \E T : ops' \in Seq(T)
      /\ Len(ops) \in Nat /\ DOMAIN ops = 1 .. Len(ops)
      /\ DOMAIN ops' = DOMAIN ops \union {n}
      /\ \A k \in DOMAIN ops : ops'[k] = ops[k]
      /\ ops'[n] = o
  BY <1>1, AppendOp DEF HistoryInv
<1> HIDE DEF n
<1>3. /\ completed \in Nat /\ completed + 1 \notin 1 .. completed
      /\ completed + 1 \in 1 .. completed + 1 /\ 1 .. completed \subseteq 1 .. completed + 1
  BY DEF HistoryInv
<1>4. n \notin DOMAIN ops
  BY <1>2 DEF n
<1>5. \A k \in DOMAIN ops : ops'[k].op = Op(k)
  BY <1>2 DEF Op
<1>6. ops'[n].op = "put" /\ ops'[n].id = completed + 1
  BY <1>1, <1>2
<1>7. \A k \in DOMAIN ops' : ops'[k].op \in {"put", "label", "delete", "list"}
  BY <1>2, <1>5, <1>6 DEF HistoryInv
<1>8. /\ completed' \in Nat
      /\ (DOMAIN db \union DOMAIN uploads \union removed \subseteq 1 .. completed)'
      /\ removed' \intersect DOMAIN db' = {}
  BY <1>1, <1>3 DEF HistoryInv
<1>9. \A k \in DOMAIN ops' : ops'[k].op # "list" => ops'[k].id \in 1 .. completed'
  BY <1>2, <1>3, <1>5, <1>6 DEF HistoryInv
<1>10. ASSUME NEW k \in DOMAIN ops', ops'[k].op = "put"
       PROVE  /\ ops'[k].id \notin (DOMAIN db \union DOMAIN uploads \union removed)'
              /\ \A j \in DOMAIN ops' : j # k /\ ops'[j].op # "list" => ops'[j].id # ops'[k].id
  <2>1. CASE k = n
    BY <1>1, <1>2, <1>3, <1>5, <1>6, <2>1 DEF HistoryInv
  <2>2. CASE k \in DOMAIN ops
    <3>1. Op(k) = "put" /\ ops'[k] = ops[k] /\ ops[k].id \in 1 .. completed
      BY <1>2, <1>5, <1>10, <2>2 DEF HistoryInv
    <3>2. ops[k].id # completed + 1
      BY <1>3, <3>1
    <3>3. QED
      BY <1>1, <1>2, <1>5, <1>6, <2>2, <3>1, <3>2 DEF HistoryInv
  <2>3. QED
    BY <1>2, <2>1, <2>2
<1>11. uploads' = db' \/ \E k \in DOMAIN ops' : ops'[k].op = "list"
  <2>1. CASE uploads = db
    BY <1>1, <2>1
  <2>2. CASE \E k \in DOMAIN ops : Op(k) = "list"
    BY <1>2, <1>5, <2>2
  <2>3. QED
    BY <2>1, <2>2 DEF HistoryInv
<1>12. QED
  BY <1>2, <1>7, <1>8, <1>9, <1>10, <1>11 DEF HistoryInv, Op

\* A renaming or deletion asked for: of an entry that is shown.
LEMMA ChangeInv ==
    ASSUME HistoryInv, NEW o, Change(o), o.op \in {"label", "delete"},
           o.id \in DOMAIN uploads, completed' = completed
    PROVE  HistoryInv'
<1> DEFINE n == Len(ops) + 1
<1>1. ops' = Append(ops, o) /\ UNCHANGED <<db, uploads, removed>>
  BY DEF Change
<1>2. /\ \E T : ops' \in Seq(T)
      /\ DOMAIN ops' = DOMAIN ops \union {n}
      /\ \A k \in DOMAIN ops : ops'[k] = ops[k]
      /\ ops'[n] = o
  BY <1>1, AppendOp DEF HistoryInv
<1> HIDE DEF n
<1>3. \A k \in DOMAIN ops : ops'[k].op = Op(k)
  BY <1>2 DEF Op
<1>4. \A k \in DOMAIN ops' : ops'[k].op \in {"put", "label", "delete", "list"}
  BY <1>2, <1>3 DEF HistoryInv
<1>5. \A k \in DOMAIN ops' : ops'[k].op # "list" => ops'[k].id \in 1 .. completed'
  BY <1>2, <1>3 DEF HistoryInv
<1>6. ASSUME NEW k \in DOMAIN ops', ops'[k].op = "put"
      PROVE  /\ ops'[k].id \notin (DOMAIN db \union DOMAIN uploads \union removed)'
             /\ \A j \in DOMAIN ops' : j # k /\ ops'[j].op # "list" => ops'[j].id # ops'[k].id
  <2>1. k \in DOMAIN ops /\ Op(k) = "put" /\ ops'[k] = ops[k]
    BY <1>2, <1>3, <1>6
  <2>2. ops[k].id # o.id
    BY <2>1 DEF HistoryInv
  <2>3. QED
    BY <1>1, <1>2, <1>3, <2>1, <2>2 DEF HistoryInv
<1>7. uploads' = db' \/ \E k \in DOMAIN ops' : ops'[k].op = "list"
  <2>1. CASE uploads = db
    BY <1>1, <2>1
  <2>2. CASE \E k \in DOMAIN ops : Op(k) = "list"
    BY <1>2, <1>3, <2>2
  <2>3. QED
    BY <2>1, <2>2 DEF HistoryInv
<1>8. QED
  BY <1>1, <1>2, <1>4, <1>5, <1>6, <1>7 DEF HistoryInv, Op

\* What a change does to the ids that are stored and those that are deleted.
LEMMA ChangeRuns ==
    ASSUME HistoryInv, RunChange
    PROVE  /\ DOMAIN db' \subseteq DOMAIN db \union {ops[1].id}
           /\ removed' \subseteq removed \union {ops[1].id}
           /\ removed' \intersect DOMAIN db' = {}
<1> DEFINE o == Head(ops)
<1>1. /\ ops # << >> /\ o.op # "list"
      /\ db' = CASE o.op = "put"    -> Put(o.id, o.entry)
                 [] o.op = "label"  -> Labeled(o)
                 [] o.op = "delete" -> [i \in DOMAIN db \ {o.id} |-> db[i]]
      /\ removed' = IF o.op = "delete" THEN removed \union {o.id} ELSE removed
  BY DEF RunChange
<1>2. 1 \in DOMAIN ops /\ o = ops[1]
  BY <1>1, TailOp DEF HistoryInv
<1>3. o.op \in {"put", "label", "delete", "list"} /\ removed \intersect DOMAIN db = {}
  BY <1>2 DEF HistoryInv, Op
<1>4. o.op = "put" => o.id \notin removed
  BY <1>2 DEF HistoryInv, Op
<1> HIDE DEF o
<1>5. CASE o.op = "put"
  BY <1>1, <1>2, <1>3, <1>4, <1>5 DEF Put
<1>6. CASE o.op = "label"
  <2>1. db' = Labeled(o) /\ removed' = removed
    BY <1>1, <1>6
  <2>2. DOMAIN Labeled(o) = DOMAIN db
    BY DEF Labeled, Put
  <2>3. QED
    BY <1>3, <2>1, <2>2
<1>7. CASE o.op = "delete"
  <2>1. db' = [i \in DOMAIN db \ {o.id} |-> db[i]] /\ removed' = removed \union {o.id}
    BY <1>1, <1>7
  <2>2. QED
    BY <1>2, <1>3, <2>1
<1>8. QED
  BY <1>1, <1>3, <1>5, <1>6, <1>7

LEMMA RunChangeInv ==
    ASSUME HistoryInv, RunChange, completed' = completed
    PROVE  HistoryInv'
<1> DEFINE n == Len(ops)
           l == [op |-> "list"]
<1>1. /\ ops # << >> /\ Op(1) # "list" /\ ops' = Append(Tail(ops), l) /\ l.op = "list"
      /\ UNCHANGED uploads
  BY TailOp DEF RunChange, Refresh, HistoryInv, Op
<1> HIDE DEF l
<1>2. /\ n \in Nat /\ n - 1 \in Nat /\ DOMAIN ops = 1 .. n /\ 1 \in DOMAIN ops
      /\ Len(Tail(ops)) = n - 1
      /\ \A k \in 1 .. n - 1 : k + 1 \in DOMAIN ops /\ Tail(ops)[k] = ops[k + 1]
  BY <1>1, TailOp DEF HistoryInv
<1>3. /\ \E T : ops' \in Seq(T)
      /\ DOMAIN ops' = 1 .. n
      /\ \A k \in 1 .. n - 1 : ops'[k] = ops[k + 1]
      /\ ops'[n] = l
  <2>1. PICK T : Tail(ops) \in Seq(T)
    BY <1>1, TailOp DEF HistoryInv
  <2>2. Tail(ops) \in Seq(T \union {l}) /\ l \in T \union {l}
    BY <2>1, SeqMonotonic
  <2>3. /\ ops' \in Seq(T \union {l}) /\ Len(ops') = Len(Tail(ops)) + 1
        /\ \A k \in 1 .. Len(Tail(ops)) : ops'[k] = Tail(ops)[k]
        /\ ops'[Len(Tail(ops)) + 1] = l
    BY <1>1, <2>2, AppendProperties
  <2>4. DOMAIN ops' = 1 .. Len(ops')
    BY <2>3, LenProperties
  <2>5. QED
    BY <1>2, <2>3, <2>4
<1> HIDE DEF n
<1>4. n \in DOMAIN ops' /\ ops'[n].op = "list"
  BY <1>1, <1>2, <1>3
<1>5. \A k \in DOMAIN ops' : k = n \/ (/\ k + 1 \in DOMAIN ops /\ k + 1 # 1
                                         /\ ops'[k] = ops[k + 1] /\ ops'[k].op = Op(k + 1))
  BY <1>2, <1>3 DEF Op
<1>6. \A k, j \in DOMAIN ops' : j # k => j + 1 # k + 1
  BY <1>2, <1>3
<1>7. /\ DOMAIN db' \subseteq DOMAIN db \union {ops[1].id}
      /\ removed' \subseteq removed \union {ops[1].id}
      /\ removed' \intersect DOMAIN db' = {}
  BY ChangeRuns
<1>8. \A k \in DOMAIN ops' : ops'[k].op \in {"put", "label", "delete", "list"}
  BY <1>4, <1>5 DEF HistoryInv
<1>9. \A k \in DOMAIN ops' : ops'[k].op # "list" => ops'[k].id \in 1 .. completed'
  BY <1>4, <1>5 DEF HistoryInv
<1>10. (DOMAIN db \union DOMAIN uploads \union removed \subseteq 1 .. completed)'
  <2>1. ops[1].id \in 1 .. completed
    BY <1>1, <1>2 DEF HistoryInv
  <2>2. QED
    BY <1>1, <1>7, <2>1 DEF HistoryInv
<1>11. ASSUME NEW k \in DOMAIN ops', ops'[k].op = "put"
       PROVE  /\ ops'[k].id \notin (DOMAIN db \union DOMAIN uploads \union removed)'
              /\ \A j \in DOMAIN ops' : j # k /\ ops'[j].op # "list" => ops'[j].id # ops'[k].id
  <2>1. /\ k + 1 \in DOMAIN ops /\ k + 1 # 1 /\ Op(k + 1) = "put"
        /\ ops'[k] = ops[k + 1]
    BY <1>4, <1>5, <1>11
  <2>2. /\ ops[k + 1].id \notin DOMAIN db \union DOMAIN uploads \union removed
        /\ \A j \in DOMAIN ops : j # k + 1 /\ Op(j) # "list" => ops[j].id # ops[k + 1].id
    BY <2>1 DEF HistoryInv
  <2>3. ops[1].id # ops[k + 1].id
    BY <1>1, <1>2, <2>1, <2>2
  <2>4. ASSUME NEW j \in DOMAIN ops', j # k, ops'[j].op # "list"
        PROVE  ops'[j].id # ops'[k].id
    BY <1>4, <1>5, <1>6, <2>1, <2>2, <2>4
  <2>5. QED
    BY <1>1, <1>7, <2>1, <2>2, <2>3, <2>4
<1>12. completed' \in Nat
  BY DEF HistoryInv
<1>13. QED
  BY <1>3, <1>4, <1>7, <1>8, <1>9, <1>10, <1>11, <1>12 DEF HistoryInv, Op

LEMMA ListInv ==
    ASSUME HistoryInv, List, completed' = completed
    PROVE  HistoryInv'
<1>1. ops # << >> /\ ops' = Tail(ops) /\ uploads' = db /\ UNCHANGED <<db, removed>>
  BY DEF List
<1>2. /\ \E T : ops' \in Seq(T)
      /\ \A k \in DOMAIN ops' : k \in Int /\ k + 1 \in DOMAIN ops /\ ops'[k] = ops[k + 1]
  BY <1>1, TailOp DEF HistoryInv
<1>3. \A k \in DOMAIN ops' : ops'[k].op = Op(k + 1)
  BY <1>2 DEF Op
<1>4. \A k, j \in DOMAIN ops' : j # k => j + 1 # k + 1
  BY <1>2
<1>5. ASSUME NEW k \in DOMAIN ops', ops'[k].op = "put"
      PROVE  /\ ops'[k].id \notin (DOMAIN db \union DOMAIN uploads \union removed)'
             /\ \A j \in DOMAIN ops' : j # k /\ ops'[j].op # "list" => ops'[j].id # ops'[k].id
  <2>1. k + 1 \in DOMAIN ops /\ Op(k + 1) = "put" /\ ops'[k] = ops[k + 1]
    BY <1>2, <1>3, <1>5
  <2>2. /\ ops[k + 1].id \notin DOMAIN db \union DOMAIN uploads \union removed
        /\ \A j \in DOMAIN ops : j # k + 1 /\ Op(j) # "list" => ops[j].id # ops[k + 1].id
    BY <2>1 DEF HistoryInv
  <2>3. QED
    BY <1>1, <1>2, <1>3, <1>4, <2>1, <2>2
<1>6. /\ \A k \in DOMAIN ops' : ops'[k].op \in {"put", "label", "delete", "list"}
      /\ \A k \in DOMAIN ops' : ops'[k].op # "list" => ops'[k].id \in 1 .. completed'
  BY <1>2, <1>3 DEF HistoryInv
<1>7. QED
  BY <1>1, <1>2, <1>5, <1>6 DEF HistoryInv, Op

LEMMA RemountInv ==
    ASSUME HistoryInv, Remount, completed' = completed
    PROVE  HistoryInv'
<1>1. ops' = << >> /\ uploads' = db /\ UNCHANGED <<db, removed>>
  BY DEF Remount
<1>2. ops' \in Seq({}) /\ DOMAIN ops' = {}
  BY <1>1, EmptySeq
<1>3. QED
  BY <1>1, <1>2 DEF HistoryInv

-----------------------------------------------------------------------------
(* Every step *)

\* A step of the history leaves the upload alone.
LEMMA UploadQuiet ==
    ASSUME UploadInv, UNCHANGED <<webUploadVars, result>>, changes' \in 0 .. MaxChanges
    PROVE  UploadInv'
<1>1. UNCHANGED <<height, logs, txs, progress, pc, job, left, batch, attempt, nonce,
                  sent, confirmed, faults, strays, result>>
  BY DEF webUploadVars, uploadVars, chainVars
<1>2. CountInv' /\ FilesInv' /\ BatchInv' /\ WaitInv' /\ NonceInv'
  BY <1>1 DEF UploadInv, CountInv, FilesInv, BatchInv, WaitInv, NonceInv
<1>3. SentInv'
  BY <1>1, QuietInv DEF UploadInv
<1>4. ConfirmedInv'
  BY <1>1, UnitsKept DEF UploadInv, ConfirmedInv
<1>5. QED
  BY <1>2, <1>3, <1>4 DEF UploadInv

LEMMA RunInv == UploadInv /\ UploadStep /\ UNCHANGED <<result, changes>> => UploadInv'
BY GotoSteps, SendFeeInv, StartBatchesInv, TakeOrSkipInv, SendBatchInv,
   BatchConfirmedInv, RetryBatchInv, SendManifestInv
   DEF UploadStep

LEMMA StartInv == IInv /\ Start => IInv'
<1> SUFFICES ASSUME IInv, Start PROVE IInv'
  OBVIOUS
<1>1. UNCHANGED <<historyVars, completed>> /\ UNCHANGED <<result, changes>>
  BY DEF Start, pageVars, historyVars
<1>2. UploadInv'
  <2>1. PICK key \in BOOLEAN, resume \in BOOLEAN, site \in BOOLEAN :
            Begin(result.files, IF site THEN result.labels ELSE << >>, key, resume)
    BY DEF Start
  <2>2. result # None
    BY DEF Start
  <2>3. QED
    BY <1>1, <2>1, <2>2, BeginInv DEF IInv
<1>3. QED
  BY <1>1, <1>2, HistoryQuiet DEF IInv

LEMMA CompleteInv == IInv /\ Complete => IInv'
<1> SUFFICES ASSUME IInv, Complete PROVE IInv'
  OBVIOUS
<1>1. /\ ManifestConfirmed /\ completed' = completed + 1 /\ UNCHANGED <<result, changes>>
      /\ SaveUpload(completed + 1, HistoryEntry(txs[sent].data[1], txs[sent].block))
  BY DEF Complete, SaveUpload
<1>2. UploadInv'
  BY <1>1, ManifestConfirmedInv DEF IInv
<1>3. HistoryInv'
  BY <1>1, SaveUploadInv DEF IInv
<1>4. QED
  BY <1>2, <1>3 DEF IInv

LEMMA DisturbInv == IInv /\ Disturb => IInv'
<1> SUFFICES ASSUME IInv, Disturb PROVE IInv'
  OBVIOUS
<1>1. CASE Reload /\ Remount /\ UNCHANGED pageVars
  <2>1. UNCHANGED <<result, completed>> /\ changes' = changes
    BY <1>1 DEF pageVars, Remount
  <2>2. UploadInv'
    BY <1>1, <2>1, ForgetInv DEF Reload, IInv
  <2>3. QED
    BY <1>1, <2>1, <2>2, RemountInv DEF IInv
<1>2. CASE /\ TryAgain \/ DropProgress \/ OtherTx \/ \E i \in DOMAIN txs : FailTx(i)
           /\ UNCHANGED <<historyVars, pageVars>>
  <2>1. UNCHANGED <<historyVars, completed>> /\ UNCHANGED <<result, changes>>
    BY <1>2 DEF pageVars, historyVars
  <2>2. HistoryInv'
    BY <2>1, HistoryQuiet DEF IInv
  <2>3. CASE TryAgain
    <3>1. NoFault
      BY <2>3 DEF TryAgain, NoFault
    <3>2. QED
      BY <2>1, <2>2, <2>3, <3>1, ForgetInv DEF TryAgain, IInv
  <2>4. CASE DropProgress \/ OtherTx \/ \E i \in DOMAIN txs : FailTx(i)
    BY <2>1, <2>2, <2>4, DropProgressInv, OtherTxInv, FailTxInv DEF IInv
  <2>5. QED
    BY <1>2, <2>3, <2>4
<1>3. QED
  BY <1>1, <1>2 DEF Disturb

LEMMA HistoryStepInv == IInv /\ History => IInv'
<1> SUFFICES ASSUME IInv, History PROVE IInv'
  OBVIOUS
<1>1. UNCHANGED <<webUploadVars, result>> /\ completed' = completed
  BY DEF History, pageVars
<1>2. /\ changes' \in 0 .. MaxChanges
      /\ HistoryInv'
  <2>1. changes \in 0 .. MaxChanges /\ MaxChanges \in Nat
    BY WebHistoryAssumption DEF IInv, UploadInv, CountInv
  <2>2. CASE RunChange
    BY <1>1, <2>1, <2>2, RunChangeInv DEF IInv, RunChange
  <2>3. CASE List
    BY <1>1, <2>1, <2>3, ListInv DEF IInv, List
  <2>4. CASE Rename
    <3>1. PICK id \in DOMAIN uploads, l \in Label :
              Change([op |-> "label", id |-> id, label |-> l])
      BY <2>4 DEF Rename
    <3>2. HistoryInv'
      BY <1>1, <3>1, ChangeInv DEF IInv
    <3>3. QED
      BY <2>1, <3>1, <3>2 DEF Change
  <2>5. CASE Remove
    <3>1. PICK id \in DOMAIN uploads : Change([op |-> "delete", id |-> id])
      BY <2>5 DEF Remove
    <3>2. HistoryInv'
      BY <1>1, <3>1, ChangeInv DEF IInv
    <3>3. QED
      BY <2>1, <3>1, <3>2 DEF Change
  <2>6. QED
    BY <2>2, <2>3, <2>4, <2>5 DEF History, HistoryStep
<1>3. QED
  BY <1>1, <1>2, UploadQuiet DEF IInv

LEMMA IInvStep == IInv /\ [Next]_vars => IInv'
<1> SUFFICES ASSUME IInv, [Next]_vars PROVE IInv'
  OBVIOUS
<1>1. CASE HandOver
  BY <1>1, HandOverInv, HistoryQuiet DEF HandOver, IInv
<1>2. CASE Run
  <2>1. UploadStep /\ UNCHANGED <<historyVars, completed>> /\ UNCHANGED <<result, changes>>
    BY <1>2 DEF Run, pageVars, historyVars
  <2>2. QED
    BY <2>1, RunInv, HistoryQuiet DEF IInv
<1>3. CASE Mine
  <2>1. /\ UNCHANGED <<historyVars, completed>> /\ UNCHANGED <<result, changes>>
        /\ \E i \in DOMAIN txs : MineTx(i)
    BY <1>3 DEF Mine, MineSome, pageVars, historyVars
  <2>2. QED
    BY <2>1, MineTxInv, HistoryQuiet DEF IInv
<1>4. CASE UNCHANGED vars
  <2>1. UNCHANGED <<webUploadVars, result>> /\ UNCHANGED <<historyVars, completed>>
    BY <1>4 DEF vars, pageVars
  <2>2. changes' \in 0 .. MaxChanges
    BY <2>1 DEF IInv, UploadInv, CountInv, historyVars
  <2>3. QED
    BY <2>1, <2>2, UploadQuiet, HistoryQuiet DEF IInv
<1>5. QED
  BY <1>1, <1>2, <1>3, <1>4, StartInv, CompleteInv, DisturbInv, HistoryStepInv DEF Next

THEOREM Invariance == Spec => []IInv
BY InitInv, IInvStep, PTL DEF Spec

-----------------------------------------------------------------------------
(* What follows *)

\* The types of the page's state, and the links between its parts: an upload
\* that waits, waits for a transaction of the kind it sent; the attempts of a
\* batch are those it has; a stored entry belongs to a completed upload.
THEOREM PageTypeCorrect == Spec => []TypeOK
<1>1. IInv => TypeOK
  <2> SUFFICES ASSUME IInv PROVE TypeOK
    OBVIOUS
  <2>1. \A i \in DOMAIN txs : /\ txs[i].kind \in {"fee", "batch", "manifest", "other"}
                              /\ txs[i].status \in {"pending", "mined", "failed"}
                              /\ txs[i].block \in 0 .. height
    BY SentTypes DEF IInv, UploadInv, SentInv, TxsInv, Kinds
  <2>2. pc \in States /\ faults \in 0 .. MaxFaults /\ changes \in 0 .. MaxChanges
    BY DEF IInv, UploadInv, CountInv
  <2>3. /\ pc \in {"idle", "error"} \/ job.files # << >>
        /\ pc = "wait" => sent \in DOMAIN txs /\ txs[sent].kind = "batch"
        /\ pc = "waitManifest" => sent \in DOMAIN txs /\ txs[sent].kind = "manifest"
    BY DEF IInv, UploadInv, FilesInv, WaitInv
  <2>4. pc \in {"send", "wait"} => batch # << >> /\ attempt \in 1 .. Retries
    BY DEF IInv, UploadInv, BatchInv
  <2>5. completed \in Nat /\ DOMAIN db \subseteq 1 .. completed
    BY DEF IInv, HistoryInv
  <2>6. QED
    BY <2>1, <2>2, <2>3, <2>4, <2>5 DEF TypeOK
<1>2. QED
  BY <1>1, Invariance, PTL

\* What the page holds, or has saved, for confirmed is on chain in the block
\* recorded for it, whatever times out, is sent again, reverts or is resumed.
THEOREM PageConfirmedOnChain == Spec => []ConfirmedOnChain
<1>1. IInv => ConfirmedOnChain
  BY DEF IInv, UploadInv, ConfirmedInv, UnitsOK, ConfirmedOnChain
<1>2. QED
  BY <1>1, Invariance, PTL

\* The page's own count of the account's transactions is never beyond the next
\* nonce, however many attempts fail and whoever else uses the account.
THEOREM PageNonceNeverAhead == Spec => []NonceNeverAhead
<1>1. IInv => NonceNeverAhead
  BY DEF IInv, UploadInv, NonceInv, NonceNeverAhead
<1>2. QED
  BY <1>1, Invariance, PTL

\* A deleted entry of the history stays deleted, whatever is renamed, completed
\* or read meanwhile, and the list shows what is stored once all calls have run.
THEOREM PageHistoryKept == Spec => []HistoryKept
<1>1. IInv => HistoryKept
  <2> SUFFICES ASSUME IInv PROVE HistoryKept
    OBVIOUS
  <2>1. ops = << >> => uploads = db
    BY EmptySeq DEF IInv, HistoryInv
  <2>2. QED
    BY <2>1 DEF IInv, HistoryInv, HistoryKept
<1>2. QED
  BY <1>1, Invariance, PTL

-----------------------------------------------------------------------------
(* The page implements the abstract publisher *)

\* What Publishing sees of the state, by name (see also Written).
Manifests == {[id |-> Keccak(txs[i].data[1]), refs |-> Refs(txs[i].data[1])]
              : i \in Published}
Announced == IF pc = "complete" THEN Keccak(txs[sent].data[1]) ELSE None

LEMMA PubInit == Init => Pub!Init
<1> SUFFICES ASSUME Init PROVE Pub!Init
  OBVIOUS
<1>1. logs = {} /\ DOMAIN txs = {} /\ pc = "idle"
  BY EmptySeq DEF Init, WebUploadInit, ChainInit
<1>2. QED
  BY <1>1 DEF Pub!Init, Published, Sent

\* A step after which the same manifests are mined and the same one is shown:
\* content is written, or nothing happens.
LEMMA PubQuiet ==
    ASSUME logs \subseteq logs', Manifests' = Manifests, Announced' = Announced
    PROVE  [Pub!Next]_(Pub!vars)
<1>1. Written \subseteq Written'
  BY DEF Written
<1>2. QED
  BY <1>1 DEF Pub!Next, Pub!Write, Written, Manifests, Announced

\* Appending a transaction that is not mined publishes nothing.
LEMMA PubAppend ==
    ASSUME UNCHANGED logs, pc # "complete", pc' # "complete", NEW n,
           n \notin DOMAIN txs, DOMAIN txs' = DOMAIN txs \union {n},
           \A i \in DOMAIN txs : txs'[i] = txs[i],
           txs'[n].status = "pending"
    PROVE  [Pub!Next]_(Pub!vars)
<1>1. ASSUME NEW i PROVE i \in Published' <=> i \in Published
  BY DEF Published, Sent
<1>2. Published' = Published
  BY <1>1 DEF Published, Sent
<1>3. \A i \in Published : txs'[i] = txs[i]
  BY DEF Published, Sent
<1>4. Manifests' = Manifests
  BY <1>2, <1>3 DEF Manifests
<1>5. QED
  BY <1>4, PubQuiet DEF Announced

LEMMA PubSend ==
    ASSUME IInv, UNCHANGED chainVars, pc # "complete", pc' # "complete",
           NEW kind \in Kinds, NEW data, Send(kind, data)
    PROVE  [Pub!Next]_(Pub!vars)
<1>1. TxsSeq
  BY DEF IInv, UploadInv, SentInv
<1>2. /\ Len(txs) \in Nat /\ DOMAIN txs = 1 .. Len(txs)
      /\ DOMAIN txs' = DOMAIN txs \union {Len(txs) + 1}
      /\ \A i \in DOMAIN txs : txs'[i] = txs[i]
      /\ txs'[Len(txs) + 1] = [kind |-> kind, data |-> data,
                               status |-> "pending", block |-> 0]
  BY <1>1, SendLemma
<1>3. Len(txs) + 1 \notin DOMAIN txs /\ txs'[Len(txs) + 1].status = "pending"
  BY <1>2
<1>4. QED
  BY <1>2, <1>3, PubAppend DEF chainVars

\* Transactions of the account that are not the page's publish nothing.
LEMMA PubOtherTx == IInv /\ OtherTx => [Pub!Next]_(Pub!vars)
<1> SUFFICES ASSUME IInv, OtherTx PROVE [Pub!Next]_(Pub!vars)
  OBVIOUS
<1> DEFINE r == [kind |-> "other", data |-> << >>, status |-> "pending", block |-> 0]
           n == Len(txs) + 1
<1>1. txs' = Append(txs, r) /\ r.status = "pending"
      /\ pc # "complete" /\ UNCHANGED <<logs, pc>>
  BY DEF OtherTx, chainVars, uploadVars
<1>2. PICK D : txs \in Seq(Tx(D))
  BY DEF IInv, UploadInv, SentInv, TxsSeq
<1> HIDE DEF r
<1>3. txs \in Seq(Tx(D) \union {r}) /\ r \in Tx(D) \union {r}
  BY <1>2, SeqMonotonic
<1>4. /\ txs' \in Seq(Tx(D) \union {r}) /\ Len(txs') = n
      /\ \A i \in 1 .. Len(txs) : txs'[i] = txs[i]
      /\ txs'[n] = r
  BY <1>1, <1>3, AppendProperties
<1>5. Len(txs) \in Nat /\ DOMAIN txs = 1 .. Len(txs) /\ DOMAIN txs' = 1 .. n
  BY <1>3, <1>4, LenProperties
<1>6. n \notin DOMAIN txs /\ DOMAIN txs' = DOMAIN txs \union {n} /\ txs'[n].status = "pending"
  BY <1>1, <1>4, <1>5
<1> HIDE DEF n
<1>7. QED
  BY <1>1, <1>4, <1>5, <1>6, PubAppend

\* What is shown does not change when a pending transaction is settled.
LEMMA ShownKept ==
    ASSUME IInv, NEW i \in DOMAIN txs, txs[i].status = "pending",
           \A j \in DOMAIN txs : j # i => txs'[j] = txs[j], UNCHANGED <<pc, sent>>
    PROVE  Announced' = Announced
<1>1. pc = "complete" => sent \in DOMAIN txs /\ sent # i
  BY DEF IInv, UploadInv, WaitInv
<1>2. QED
  BY <1>1 DEF Announced

\* A transaction that is no manifest, or is not mined, publishes nothing.
LEMMA PubSettle ==
    ASSUME IInv, NEW i \in DOMAIN txs, txs[i].status = "pending",
           NEW s \in {"mined", "failed"}, NEW b \in Nat, Settle(i, s, b),
           s = "failed" \/ txs[i].kind # "manifest",
           logs \subseteq logs', UNCHANGED <<pc, sent>>
    PROVE  [Pub!Next]_(Pub!vars)
<1>1. /\ DOMAIN txs' = DOMAIN txs
      /\ \A j \in DOMAIN txs : j # i => txs'[j] = txs[j]
      /\ txs'[i].kind = txs[i].kind /\ txs'[i].data = txs[i].data
      /\ txs'[i].status = s
  BY SettleLemma DEF IInv, UploadInv, SentInv
<1>2. ASSUME NEW j PROVE j \in Published' <=> j \in Published
  BY <1>1 DEF Published, Sent
<1>3. Published' = Published /\ i \notin Published
  BY <1>2 DEF Published, Sent
<1>4. Manifests' = Manifests
  BY <1>1, <1>3 DEF Manifests, Published, Sent
<1>5. QED
  BY <1>1, <1>4, ShownKept, PubQuiet

\* A manifest that is mined refers only to what has been written.
LEMMA PubMineManifest ==
    ASSUME IInv, NEW i \in DOMAIN txs, MineTx(i), txs[i].kind = "manifest"
    PROVE  [Pub!Next]_(Pub!vars)
<1> DEFINE m == [id |-> Keccak(txs[i].data[1]), refs |-> Refs(txs[i].data[1])]
<1>1. /\ txs[i].status = "pending" /\ Settle(i, "mined", height + 1) /\ height + 1 \in Nat
      /\ logs \subseteq logs' /\ UNCHANGED <<pc, sent>>
  BY DEF MineTx, NextTx, StoreManifest, uploadVars, IInv, UploadInv, SentInv, TxsInv
<1>2. /\ DOMAIN txs' = DOMAIN txs
      /\ \A j \in DOMAIN txs : j # i => txs'[j] = txs[j]
      /\ txs'[i].kind = txs[i].kind /\ txs'[i].data = txs[i].data
      /\ txs'[i].status = "mined"
  BY <1>1, SettleLemma DEF IInv, UploadInv, SentInv
<1>3. Published' = Published \union {i}
  BY <1>1, <1>2 DEF Published, Sent
<1>4. \A j \in Published : txs'[j].data = txs[j].data
  BY <1>2 DEF Published, Sent
<1>5. Manifests' = Manifests \union {m}
  BY <1>2, <1>3, <1>4 DEF Manifests
<1>6. m.refs \subseteq Written
  BY DEF IInv, UploadInv, SentInv, ManifestTxInv
<1>7. Written \subseteq Written'
  BY <1>1 DEF Written
<1>8. Announced' = Announced
  BY <1>1, <1>2, ShownKept
<1> HIDE DEF m
<1>9. QED
  BY <1>5, <1>6, <1>7, <1>8
     DEF Pub!Next, Pub!Publish, Written, Manifests, Announced

LEMMA PubMine ==
    ASSUME IInv, NEW i \in DOMAIN txs, MineTx(i) \/ FailTx(i)
    PROVE  [Pub!Next]_(Pub!vars)
<1>1. /\ txs[i].status = "pending" /\ height \in Nat /\ height + 1 \in Nat
      /\ UNCHANGED <<pc, sent>>
  BY DEF MineTx, FailTx, NextTx, uploadVars, IInv, UploadInv, SentInv, TxsInv
<1>2. CASE FailTx(i)
  <2>1. Settle(i, "failed", height) /\ logs' = logs
    BY <1>2 DEF FailTx, chainVars
  <2>2. QED
    BY <1>1, <2>1, PubSettle
<1>3. CASE MineTx(i) /\ txs[i].kind # "manifest"
  <2>1. Settle(i, "mined", height + 1) /\ logs \subseteq logs'
    <3>1. txs[i].kind \in {"batch", "fee", "other"}
      BY <1>3, SentTypes DEF IInv, UploadInv, Kinds
    <3>2. QED
      BY <1>3, <3>1 DEF MineTx, Store, StoreBatch
  <2>2. QED
    BY <1>1, <1>3, <2>1, PubSettle
<1>4. QED
  BY <1>2, <1>3, PubMineManifest

\* A step that neither sends nor mines, and completes nothing.
LEMMA PubOther ==
    ASSUME UNCHANGED <<logs, txs>>, Announced' = Announced
    PROVE  [Pub!Next]_(Pub!vars)
<1>1. Manifests' = Manifests
  BY DEF Manifests, Published, Sent
<1>2. QED
  BY <1>1, PubQuiet

\* "Upload complete" shows the manifest whose transaction was waited for.
LEMMA PubComplete == IInv /\ ManifestConfirmed => [Pub!Next]_(Pub!vars)
<1> SUFFICES ASSUME IInv, ManifestConfirmed PROVE [Pub!Next]_(Pub!vars)
  OBVIOUS
<1>1. /\ sent \in DOMAIN txs /\ txs[sent].kind = "manifest" /\ txs[sent].status = "mined"
      /\ pc' = "complete" /\ UNCHANGED <<logs, txs, sent>>
  BY DEF ManifestConfirmed, chainVars, IInv, UploadInv, WaitInv
<1>2. Announced' \in {m.id : m \in Manifests}
  <2> DEFINE r == [id |-> Keccak(txs[sent].data[1]), refs |-> Refs(txs[sent].data[1])]
  <2>1. r \in Manifests
    BY <1>1 DEF Manifests, Published, Sent
  <2>2. r.id = Announced'
    BY <1>1 DEF Announced
  <2>3. QED
    BY <2>1, <2>2
<1>3. Manifests' = Manifests /\ Written' = Written
  BY <1>1 DEF Manifests, Published, Sent, Written
<1>4. QED
  BY <1>2, <1>3 DEF Pub!Next, Pub!Announce, Written, Manifests, Announced

\* Loading the page again takes the message away.
LEMMA PubReload == Reload => [Pub!Next]_(Pub!vars)
<1> SUFFICES ASSUME Reload PROVE [Pub!Next]_(Pub!vars)
  OBVIOUS
<1>1. UNCHANGED <<logs, txs>> /\ Announced' = None
  BY DEF Reload, chainVars, Announced
<1>2. Manifests' = Manifests /\ Written' = Written
  BY <1>1 DEF Manifests, Published, Sent, Written
<1>3. QED
  BY <1>1, <1>2 DEF Pub!Next, Pub!Announce, Written, Manifests, Announced

LEMMA PubRun == IInv /\ UploadStep => [Pub!Next]_(Pub!vars)
<1> SUFFICES ASSUME IInv, UploadStep PROVE [Pub!Next]_(Pub!vars)
  OBVIOUS
<1>1. CASE SendFee \/ SendBatch \/ SendManifest
  <2>1. /\ UNCHANGED chainVars /\ pc # "complete" /\ pc' # "complete"
        /\ \E kind \in Kinds : \E data : Send(kind, data)
    BY <1>1 DEF SendFee, SendBatch, SendManifest, Kinds
  <2>2. QED
    BY <2>1, PubSend
<1>2. CASE StartBatches \/ SkipBatch \/ TakeBatch \/ BatchConfirmed \/ RetryBatch
  <2>1. UNCHANGED <<logs, txs>> /\ pc # "complete" /\ pc' # "complete"
    BY <1>2 DEF StartBatches, SkipBatch, TakeBatch, BatchConfirmed, RetryBatch,
       AttemptFails, chainVars
  <2>2. QED
    BY <2>1, PubOther DEF Announced
<1>3. CASE FeeMined \/ BatchFails \/ MissingChunks \/ ManifestFails \/ CallFails
  <2>1. UNCHANGED <<logs, txs>> /\ pc # "complete" /\ pc' # "complete"
    BY <1>3 DEF FeeMined, BatchFails, MissingChunks, ManifestFails, CallFails,
       AttemptFails, Goto, chainVars
  <2>2. QED
    BY <2>1, PubOther DEF Announced
<1>4. QED
  BY <1>1, <1>2, <1>3 DEF UploadStep

LEMMA PubDisturb == IInv /\ Disturb => [Pub!Next]_(Pub!vars)
<1> SUFFICES ASSUME IInv, Disturb PROVE [Pub!Next]_(Pub!vars)
  OBVIOUS
<1>1. CASE TryAgain \/ DropProgress
  <2>1. UNCHANGED <<logs, txs>> /\ pc # "complete" /\ pc' # "complete"
    BY <1>1 DEF TryAgain, DropProgress, uploadVars, chainVars
  <2>2. QED
    BY <2>1, PubOther DEF Announced
<1>2. QED
  BY <1>1, PubOtherTx, PubMine, PubReload DEF Disturb

LEMMA PubStep == IInv /\ [Next]_vars => [Pub!Next]_(Pub!vars)
<1> SUFFICES ASSUME IInv, [Next]_vars PROVE [Pub!Next]_(Pub!vars)
  OBVIOUS
<1>1. CASE HandOver \/ History \/ UNCHANGED vars
  <2>1. UNCHANGED <<logs, txs>> /\ UNCHANGED <<pc, sent>>
    BY <1>1 DEF HandOver, History, vars, webUploadVars, uploadVars, chainVars
  <2>2. QED
    BY <2>1, PubOther DEF Announced
<1>2. CASE Start
  <2>1. UNCHANGED <<logs, txs>> /\ pc # "complete" /\ pc' # "complete"
    BY <1>2 DEF Start, Begin, chainVars
  <2>2. QED
    BY <2>1, PubOther DEF Announced
<1>3. QED
  BY <1>1, <1>2, PubRun, PubComplete, PubMine, PubDisturb
     DEF Next, Run, Complete, Mine, MineSome

\* The page implements the abstract publisher: whatever times out, reverts, is
\* retried, resumed or loaded again, a manifest is published only over what is
\* written, and "Upload complete" is shown only for a manifest that is published.
THEOREM PagePublishes == Spec => Publishes
BY PubInit, PubStep, Invariance, PTL DEF Spec, Publishes, Pub!Spec

-----------------------------------------------------------------------------
(* What the manifests describe.  First the units of a list of files. *)

\* The units are the chunks of the files, one for each.
LEMMA UnitFacts ==
    ASSUME NEW fs \in Seq(File)
    PROVE  /\ \A i \in DOMAIN fs : i \in Nat /\ Len(fs[i].chunks) \in Nat
                                   /\ DOMAIN fs[i].chunks = 1 .. Len(fs[i].chunks)
           /\ \A u \in AllUnits(fs) :
                /\ u.file \in Nat /\ u.chunk \in Nat /\ u.file + 1 \in DOMAIN fs
                /\ u.total = Len(fs[u.file + 1].chunks) /\ u.chunk < u.total
                /\ u.data = fs[u.file + 1].chunks[u.chunk + 1]
           /\ \A i \in DOMAIN fs, k \in Nat : k < Len(fs[i].chunks) =>
                \E u \in AllUnits(fs) : u.file = i - 1 /\ u.chunk = k
           /\ \A u, v \in AllUnits(fs) : Key(u) = Key(v) => u = v
<1> DEFINE unit(i, k) == [file |-> i - 1, chunk |-> k, total |-> Len(fs[i].chunks),
                          data |-> fs[i].chunks[k + 1]]
           units(i) == {unit(i, k) : k \in 0 .. Len(fs[i].chunks) - 1}
<1>1. \A i \in DOMAIN fs : i \in Nat /\ i - 1 \in Nat /\ i - 1 + 1 = i /\ fs[i] \in File
  <2>1. /\ DOMAIN fs = 1 .. Len(fs) /\ Len(fs) \in Nat
        /\ \A i \in 1 .. Len(fs) : fs[i] \in File
    BY LenProperties, ElementOfSeq
  <2>2. QED
    BY <2>1
<1>2. ASSUME NEW i \in DOMAIN fs
      PROVE  Len(fs[i].chunks) \in Nat /\ DOMAIN fs[i].chunks = 1 .. Len(fs[i].chunks)
  <2>1. PICK s : s = fs[i].chunks
    OBVIOUS
  <2>2. s \in Seq(Chunk)
    BY <1>1, <2>1 DEF File
  <2>3. Len(s) \in Nat /\ DOMAIN s = 1 .. Len(s)
    BY <2>2, LenProperties
  <2>4. QED
    BY <2>1, <2>3
<1>3. /\ AllUnits(fs) = UNION {units(i) : i \in DOMAIN fs}
      /\ \A i, k : /\ unit(i, k).file = i - 1 /\ unit(i, k).chunk = k
                   /\ unit(i, k).total = Len(fs[i].chunks)
                   /\ unit(i, k).data = fs[i].chunks[k + 1]
      /\ \A i, k : k \in 0 .. Len(fs[i].chunks) - 1 => unit(i, k) \in units(i)
      /\ \A i : \A u \in units(i) : \E k \in 0 .. Len(fs[i].chunks) - 1 : u = unit(i, k)
  BY DEF AllUnits
<1> HIDE DEF units, unit
<1>4. ASSUME NEW u \in AllUnits(fs)
      PROVE  /\ u.file \in Nat /\ u.chunk \in Nat /\ u.file + 1 \in DOMAIN fs
             /\ u.total = Len(fs[u.file + 1].chunks) /\ u.chunk < u.total
             /\ u.data = fs[u.file + 1].chunks[u.chunk + 1]
             /\ u = unit(u.file + 1, u.chunk)
  <2>1. PICK i \in DOMAIN fs : u \in units(i)
    BY <1>3
  <2>2. PICK k \in 0 .. Len(fs[i].chunks) - 1 : u = unit(i, k)
    BY <1>3, <2>1
  <2>3. u.file = i - 1 /\ u.chunk = k /\ u.total = Len(fs[i].chunks)
        /\ u.data = fs[i].chunks[k + 1]
    BY <1>3, <2>2
  <2>4. k \in Nat /\ k < Len(fs[i].chunks) /\ u.file + 1 = i
    BY <1>1, <1>2, <2>3
  <2>5. QED
    BY <1>1, <2>2, <2>3, <2>4
<1>5. ASSUME NEW i \in DOMAIN fs, NEW k \in Nat, k < Len(fs[i].chunks)
      PROVE  \E u \in AllUnits(fs) : u.file = i - 1 /\ u.chunk = k
  <2>1. k \in 0 .. Len(fs[i].chunks) - 1
    BY <1>2, <1>5
  <2>2. unit(i, k) \in AllUnits(fs)
    BY <1>3, <2>1
  <2>3. QED
    BY <1>3, <2>2
<1>6. \A u, v \in AllUnits(fs) : Key(u) = Key(v) => u = v
  BY <1>4 DEF Key
<1>7. QED
  BY <1>1, <1>2, <1>4, <1>5, <1>6

\* Precedes is a strict order on the units.
LEMMA UnitOrder ==
    ASSUME NEW fs \in Seq(File), NEW u \in AllUnits(fs), NEW v \in AllUnits(fs)
    PROVE  /\ ~Precedes(u, u)
           /\ u = v \/ Precedes(u, v) \/ Precedes(v, u)
           /\ \A w \in AllUnits(fs) : Precedes(u, v) /\ Precedes(v, w) => Precedes(u, w)
<1>1. \A w \in AllUnits(fs) : w.file \in Nat /\ w.chunk \in Nat
  BY UnitFacts
<1>2. u = v \/ u.file # v.file \/ u.chunk # v.chunk
  BY UnitFacts DEF Key
<1>3. QED
  BY <1>1, <1>2 DEF Precedes

\* Any two units of the next batch fit into one batch.
LEMMA PairsFit ==
    ASSUME NEW fs \in Seq(File), NEW us \in SUBSET AllUnits(fs),
           NEW u \in NextBatch(us), NEW v \in NextBatch(us)
    PROVE  \E p \in SUBSET us : Fits(p) /\ u \in p /\ v \in p
<1> DEFINE pre(w) == us \ {x \in us : Precedes(w, x)}
<1>1. ASSUME NEW x \in NextBatch(us)
      PROVE  x \in us /\ \E w \in us : Fits(pre(w)) /\ x \in pre(w)
  BY <1>1 DEF NextBatch
<1>2. ASSUME NEW w \in us, NEW x \in pre(w), NEW y \in us, Precedes(y, x)
      PROVE  y \in pre(w)
  <2>1. ~Precedes(w, x)
    OBVIOUS
  <2>2. Precedes(w, y) => Precedes(w, x)
    BY <1>2, UnitOrder
  <2>3. QED
    BY <2>1, <2>2
<1>3. \A w \in us : pre(w) \in SUBSET us
  OBVIOUS
<1> HIDE DEF pre
<1>4. ASSUME NEW x \in NextBatch(us), NEW y \in NextBatch(us), x = y \/ Precedes(x, y)
      PROVE  \E p \in SUBSET us : Fits(p) /\ x \in p /\ y \in p
  <2>1. PICK w \in us : Fits(pre(w)) /\ y \in pre(w)
    BY <1>1
  <2>2. x \in pre(w)
    BY <1>1, <1>2, <1>4, <2>1
  <2>3. QED
    BY <1>3, <2>1, <2>2
<1>5. u = v \/ Precedes(u, v) \/ Precedes(v, u)
  BY <1>1, UnitOrder
<1>6. QED
  BY <1>4, <1>5

\* The sequence of a batch has each of its units once.
LEMMA SortedAll ==
    ASSUME NEW fs \in Seq(File), NEW S \in SUBSET AllUnits(fs), IsFiniteSet(S),
           NEW s \in SortedBy(S, Precedes)
    PROVE  {s[k] : k \in DOMAIN s} = S
<1> DEFINE T == 1 .. Cardinality(S)
<1>1. Cardinality(S) \in Nat
  BY FS_CardinalityType
<1>2. IsFiniteSet(T) /\ Cardinality(T) = Cardinality(S)
  BY <1>1, FS_Interval
<1>3. s \in [T -> S] /\ \A i, j \in T : i < j => Precedes(s[i], s[j])
  BY DEF SortedBy
<1>4. \A i, j \in T : i = j \/ i < j \/ j < i
  BY <1>1
<1> HIDE DEF T
<1>5. ASSUME NEW j \in T, NEW k \in T, s[j] = s[k] PROVE j = k
  <2>1. s[j] \in AllUnits(fs)
    BY <1>3
  <2>2. ~Precedes(s[j], s[j])
    BY <2>1, UnitOrder
  <2>3. QED
    BY <1>3, <1>4, <1>5, <2>2
<1>6. s \in Injection(T, S)
  BY <1>3, <1>5 DEF Injection, IsInjective
<1>7. s \in Surjection(T, S)
  BY <1>2, <1>6, FS_Injection
<1>8. \A x \in S : \E k \in T : s[k] = x
  BY <1>7 DEF Surjection
<1>9. QED
  BY <1>3, <1>8

-----------------------------------------------------------------------------
(* What is confirmed is genuine, and nothing but a twin's key goes missing *)

\* Every confirmed unit has the key of a unit of some list of files of G and
\* the hash of its bytes.
GenuineFor(cs, G) == \A x \in cs : \E g \in G : \E u \in AllUnits(g) :
                        Key(u) = Key(x) /\ x.hash = Keccak(u.data)

\* The lists of from are those of selections, with the names ns.
FromOK(from, ns) ==
    \A g \in from : Names(g) = ns /\ \E T \in Selections : g = Processed[T].files

Recorded(cs, u) == \E x \in cs : Key(x) = Key(u)

Taken == {batch[k] : k \in DOMAIN batch}

ResultInv == result # None => \E S \in Selections : result = Processed[S]

\* The upload is one of the files of S.
JobOf(S) ==
    /\ job.files = Processed[S].files
    /\ job.labels = << >> \/ job.labels = Processed[S].labels
    /\ job.files \in job.from /\ FromOK(job.from, Names(job.files))
    /\ GenuineFor(confirmed, job.from)
    /\ pc \in {"waitManifest", "complete"} => Describes(txs[sent].data[1], S, job.from)

JobInv == pc # "idle" => \E S \in Selections : JobOf(S)

ProgressInv == progress # None => /\ FromOK(progress.from, progress.names)
                                  /\ GenuineFor(progress.confirmed, progress.from)

\* While batches are sent, a unit is still to come, or recorded, or a twin.
CoveredInv ==
    /\ pc \in {"batches", "send", "wait"} =>
        /\ left \subseteq AllUnits(job.files)
        /\ \A u \in AllUnits(job.files) :
            \/ u \in left \/ (pc # "batches" /\ u \in Taken)
            \/ Recorded(confirmed, u) \/ u \in Twins(job.files)
    /\ pc \in {"send", "wait"} =>
        /\ Taken \subseteq AllUnits(job.files)
        /\ \A u, v \in Taken : u.data = v.data /\ u # v => u \in Twins(job.files)

FaithInv == ResultInv /\ JobInv /\ ProgressInv /\ CoveredInv

\* The receipt of a batch of units of fs confirms only units of fs.
LEMMA ConfirmGenuine ==
    ASSUME NEW G, NEW fs \in G, Taken \subseteq AllUnits(fs), GenuineFor(confirmed, G),
           NEW f \in HashToUnit(batch), NEW t
    PROVE  GenuineFor(Confirm(confirmed, batch, f, t), G)
<1> DEFINE unit(k) == [file |-> batch[f[k]].file, chunk |-> batch[f[k]].chunk,
                       total |-> batch[f[k]].total, hash |-> Keccak(batch[k].data),
                       block |-> txs[t].block]
           new == {unit(k) : k \in DOMAIN batch}
           old == {x \in confirmed : \A n \in new : Key(n) # Key(x)}
<1>1. Confirm(confirmed, batch, f, t) = new \union old
  BY DEF Confirm
<1>2. \A k \in DOMAIN batch : /\ f[k] \in DOMAIN batch
                              /\ batch[f[k]].data = batch[k].data
  BY DEF HashToUnit
<1>3. \A k : /\ unit(k).file = batch[f[k]].file /\ unit(k).chunk = batch[f[k]].chunk
             /\ unit(k).hash = Keccak(batch[k].data)
  OBVIOUS
<1>4. \A x \in new : \E k \in DOMAIN batch : x = unit(k)
  OBVIOUS
<1>5. old \subseteq confirmed
  OBVIOUS
<1> HIDE DEF unit, new, old
<1>6. ASSUME NEW x \in new
      PROVE  \E u \in AllUnits(fs) : Key(u) = Key(x) /\ x.hash = Keccak(u.data)
  <2>1. PICK k \in DOMAIN batch : x = unit(k)
    BY <1>4
  <2>2. batch[f[k]] \in AllUnits(fs)
    BY <1>2 DEF Taken
  <2>3. Key(batch[f[k]]) = Key(x) /\ x.hash = Keccak(batch[f[k]].data)
    BY <1>2, <1>3, <2>1 DEF Key
  <2>4. QED
    BY <2>2, <2>3
<1>7. QED
  BY <1>1, <1>5, <1>6 DEF GenuineFor

\* After it, a unit of the batch is recorded, or a twin of it is in its place.
LEMMA ConfirmRecords ==
    ASSUME NEW f \in HashToUnit(batch), NEW t
    PROVE  /\ \A u : Recorded(confirmed, u) =>
                        Recorded(Confirm(confirmed, batch, f, t), u)
           /\ \A u \in Taken : \/ Recorded(Confirm(confirmed, batch, f, t), u)
                               \/ \E v \in Taken : v # u /\ v.data = u.data
<1> DEFINE unit(k) == [file |-> batch[f[k]].file, chunk |-> batch[f[k]].chunk,
                       total |-> batch[f[k]].total, hash |-> Keccak(batch[k].data),
                       block |-> txs[t].block]
           new == {unit(k) : k \in DOMAIN batch}
           old == {x \in confirmed : \A n \in new : Key(n) # Key(x)}
           cs == Confirm(confirmed, batch, f, t)
<1>1. cs = new \union old
  BY DEF Confirm
<1>2. \A k \in DOMAIN batch : /\ f[k] \in DOMAIN batch
                              /\ batch[f[k]].data = batch[k].data
  BY DEF HashToUnit
<1>3. \A k : unit(k).file = batch[f[k]].file /\ unit(k).chunk = batch[f[k]].chunk
  OBVIOUS
<1>4. \A k \in DOMAIN batch : unit(k) \in new
  OBVIOUS
<1>5. \A x \in confirmed : x \in old \/ \E n \in new : Key(n) = Key(x)
  OBVIOUS
<1> HIDE DEF unit, new, old, cs
<1>6. \A u : Recorded(confirmed, u) => Recorded(cs, u)
  BY <1>1, <1>5 DEF Recorded
<1>7. ASSUME NEW u \in Taken
      PROVE  Recorded(cs, u) \/ \E v \in Taken : v # u /\ v.data = u.data
  <2>1. PICK k \in DOMAIN batch : u = batch[k]
    BY DEF Taken
  <2>2. batch[f[k]] \in Taken /\ batch[f[k]].data = u.data
    BY <1>2, <2>1 DEF Taken
  <2>3. CASE batch[f[k]] = u
    <3>1. unit(k) \in cs /\ Key(unit(k)) = Key(u)
      BY <1>1, <1>3, <1>4, <2>3 DEF Key
    <3>2. QED
      BY <3>1 DEF Recorded
  <2>4. QED
    BY <2>2, <2>3
<1>8. QED
  BY <1>6, <1>7 DEF cs

\* Two units of the next batch with the same bytes are twins.
LEMMA TwinsTaken ==
    ASSUME NEW fs \in Seq(File), NEW us \in SUBSET AllUnits(fs),
           NEW u \in NextBatch(us), NEW v \in NextBatch(us), u.data = v.data, u # v
    PROVE  u \in Twins(fs)
<1>1. PICK p \in SUBSET us : Fits(p) /\ u \in p /\ v \in p
  BY PairsFit
<1>2. p \in SUBSET AllUnits(fs) /\ u \in AllUnits(fs) /\ v \in p \ {u}
  BY <1>1
<1>3. QED
  BY <1>1, <1>2 DEF Twins

-----------------------------------------------------------------------------
(* The manifest that is sent *)

\* The only chunk of a file that is not without a chunk is recorded.
LEMMA OnlyChunkRecorded ==
    ASSUME NEW fs \in Seq(File), NEW cs, GenuineFor(cs, {fs}), MissingChunksOf(fs, cs) = {},
           NEW u \in AllUnits(fs), u.total = 1
    PROVE  Recorded(cs, u)
<1>1. /\ u.file + 1 \in DOMAIN fs /\ u.file \in Nat /\ u.chunk \in Nat /\ u.chunk < u.total
      /\ u.total = Len(fs[u.file + 1].chunks)
  BY UnitFacts
<1>2. u.file + 1 - 1 = u.file
  BY <1>1
<1>3. FileChunks(cs, u.file) # {}
  BY <1>1, <1>2 DEF MissingChunksOf
<1>4. PICK x \in cs : x.file = u.file
  BY <1>3 DEF FileChunks
<1>5. PICK v \in AllUnits(fs) : Key(v) = Key(x)
  BY DEF GenuineFor
<1>6. /\ v.file = u.file /\ v.chunk \in Nat /\ v.chunk < v.total
      /\ v.total = Len(fs[v.file + 1].chunks) /\ x.chunk = v.chunk
  BY <1>4, <1>5, UnitFacts DEF Key
<1>7. v.total = 1
  BY <1>1, <1>6
<1>8. v.chunk = 0 /\ u.chunk = 0
  BY <1>1, <1>6, <1>7
<1>9. Key(x) = Key(u)
  BY <1>4, <1>6, <1>8 DEF Key
<1>10. QED
  BY <1>9 DEF Recorded

\* The sorted confirmed units of a file are all of them.
LEMMA PartsAll ==
    ASSUME NEW cs, UnitsOK(cs), NEW n, NEW s \in SortedBy(FileChunks(cs, n), PartBefore)
    PROVE  /\ DOMAIN s \subseteq Nat /\ \A k \in DOMAIN s : s[k] \in FileChunks(cs, n)
           /\ \A j, k \in DOMAIN s : j < k => s[j].chunk < s[k].chunk
           /\ \A x \in FileChunks(cs, n) : \E k \in DOMAIN s : s[k] = x
<1> DEFINE S == FileChunks(cs, n)
           T == 1 .. Cardinality(S)
<1>1. S \subseteq cs /\ IsFiniteSet(S) /\ \A x \in S : x.chunk \in Nat
  BY PartsSorted DEF UnitsOK
<1>2. Cardinality(S) \in Nat
  BY <1>1, FS_CardinalityType
<1>3. IsFiniteSet(T) /\ Cardinality(T) = Cardinality(S)
  BY <1>2, FS_Interval
<1>4. s \in [T -> S] /\ \A i, j \in T : i < j => s[i].chunk < s[j].chunk
  BY DEF SortedBy, PartBefore
<1>5. T \subseteq Nat /\ \A i, j \in T : i = j \/ i < j \/ j < i
  BY <1>2
<1> HIDE DEF T, S
<1>6. ASSUME NEW j \in T, NEW k \in T, s[j] = s[k] PROVE j = k
  <2>1. s[j].chunk \in Nat /\ s[k].chunk = s[j].chunk
    BY <1>1, <1>4, <1>6
  <2>2. ~(s[j].chunk < s[k].chunk) /\ ~(s[k].chunk < s[j].chunk)
    BY <2>1
  <2>3. QED
    BY <1>4, <1>5, <2>2
<1>7. s \in Injection(T, S)
  BY <1>4, <1>6 DEF Injection, IsInjective
<1>8. s \in Surjection(T, S)
  BY <1>1, <1>3, <1>7, FS_Injection
<1>9. \A x \in S : \E k \in T : s[k] = x
  BY <1>8 DEF Surjection
<1>10. QED
  BY <1>4, <1>5, <1>9 DEF S

\* A confirmed unit is a chunk of its file in one of the lists of from.
LEMMA GenuineChunk ==
    ASSUME NEW from \in SUBSET Seq(File), NEW cs, GenuineFor(cs, from),
           NEW i \in Nat, NEW x \in FileChunks(cs, i - 1)
    PROVE  \E g \in from : /\ x.chunk + 1 \in DOMAIN g[i].chunks
                           /\ x.hash = Keccak(g[i].chunks[x.chunk + 1])
<1>1. x \in cs /\ x.file = i - 1
  BY DEF FileChunks
<1>2. PICK g \in from : \E u \in AllUnits(g) : Key(u) = Key(x) /\ x.hash = Keccak(u.data)
  BY <1>1 DEF GenuineFor
<1>3. PICK u \in AllUnits(g) : Key(u) = Key(x) /\ x.hash = Keccak(u.data)
  BY <1>2
<1>4. g \in Seq(File) /\ u.file = i - 1 /\ u.chunk = x.chunk
  BY <1>1, <1>3 DEF Key
<1>5. /\ u.chunk \in Nat /\ u.file + 1 \in DOMAIN g
      /\ u.chunk < Len(g[u.file + 1].chunks)
      /\ u.data = g[u.file + 1].chunks[u.chunk + 1]
      /\ Len(g[u.file + 1].chunks) \in Nat
      /\ DOMAIN g[u.file + 1].chunks = 1 .. Len(g[u.file + 1].chunks)
  BY <1>4, UnitFacts
<1>6. u.file + 1 = i
  BY <1>4
<1>7. QED
  BY <1>3, <1>4, <1>5, <1>6

\* The parts made of the sorted confirmed units of a file list it.
LEMMA PartsList ==
    ASSUME NEW from \in SUBSET Seq(File), NEW fs \in from, NEW cs, UnitsOK(cs),
           GenuineFor(cs, from), MissingChunksOf(fs, cs) = {},
           \A u \in AllUnits(fs) : Recorded(cs, u) \/ u \in Twins(fs),
           NEW i \in DOMAIN fs, NEW s \in SortedBy(FileChunks(cs, i - 1), PartBefore),
           NEW ps, DOMAIN ps = DOMAIN s, \A k \in DOMAIN s : ps[k].hash = s[k].hash
    PROVE  Lists(ps, i, fs, from)
<1> DEFINE S == FileChunks(cs, i - 1)
           at == [k \in DOMAIN ps |-> s[k].chunk + 1]
<1>1. i \in Nat /\ fs \in Seq(File)
  BY UnitFacts
<1>2. /\ DOMAIN s \subseteq Nat /\ \A k \in DOMAIN s : s[k] \in S
      /\ \A j, k \in DOMAIN s : j < k => s[j].chunk < s[k].chunk
      /\ \A x \in S : \E k \in DOMAIN s : s[k] = x
  BY PartsAll
<1>3. \A x \in S : \E g \in from : /\ x.chunk + 1 \in DOMAIN g[i].chunks
                                   /\ x.hash = Keccak(g[i].chunks[x.chunk + 1])
  BY <1>1, GenuineChunk
<1>4. \A x \in S : x \in cs /\ x.file = i - 1 /\ x.chunk \in Nat
  BY DEF FileChunks, UnitsOK
<1>5. \A k \in DOMAIN ps : at[k] = s[k].chunk + 1
  OBVIOUS
<1>6. at \in [DOMAIN ps -> UNION {DOMAIN g[i].chunks : g \in from}]
  BY <1>2, <1>3
<1> HIDE DEF at
<1>7. \A j, k \in DOMAIN ps : j < k => at[j] < at[k]
  <2>1. ASSUME NEW j \in DOMAIN ps, NEW k \in DOMAIN ps, j < k PROVE at[j] < at[k]
    <3>1. s[j].chunk \in Nat /\ s[k].chunk \in Nat /\ s[j].chunk < s[k].chunk
      BY <1>2, <1>4, <2>1
    <3>2. QED
      BY <1>5, <3>1
  <2>2. QED
    BY <2>1
<1>8. \A k \in DOMAIN ps : \E g \in from :
            at[k] \in DOMAIN g[i].chunks /\ ps[k].hash = Keccak(g[i].chunks[at[k]])
  BY <1>2, <1>3, <1>5
<1>9. ASSUME NEW u \in AllUnits(fs), u.file = i - 1,
             u \in Twins(fs) => u.total = 1 /\ from = {fs}
      PROVE  \E k \in DOMAIN ps : at[k] = u.chunk + 1
  <2>1. Recorded(cs, u)
    BY <1>1, <1>9, OnlyChunkRecorded
  <2>2. PICK x \in cs : Key(x) = Key(u)
    BY <2>1 DEF Recorded
  <2>3. x \in S /\ x.chunk = u.chunk
    BY <1>9, <2>2 DEF Key, FileChunks
  <2>4. PICK k \in DOMAIN s : s[k] = x
    BY <1>2, <2>3
  <2>5. QED
    BY <1>5, <2>3, <2>4
<1>10. QED
  BY <1>6, <1>7, <1>8, <1>9 DEF Lists

\* The manifest made of the confirmed units for a selection describes it.
LEMMA ManifestDescribes ==
    ASSUME NEW S \in Selections, NEW ls, ls = << >> \/ ls = Processed[S].labels,
           NEW from, Processed[S].files \in from,
           FromOK(from, Names(Processed[S].files)), NEW cs, UnitsOK(cs),
           GenuineFor(cs, from), MissingChunksOf(Processed[S].files, cs) = {},
           \A u \in AllUnits(Processed[S].files) :
                Recorded(cs, u) \/ u \in Twins(Processed[S].files)
    PROVE  Describes(ManifestOf(Processed[S].files, ls, cs), S, from)
<1>1. PICK fs : fs = Processed[S].files
  OBVIOUS
<1>2. from \in SUBSET Seq(File)
  BY ProcessedFiles DEF FromOK
<1> DEFINE sorted(i) == SortedBy(FileChunks(cs, i - 1), PartBefore)
           list(i) == CHOOSE s \in sorted(i) : TRUE
           label(i) == IF i \in DOMAIN ls THEN {ls[i]} ELSE {}
           m == ManifestOf(fs, ls, cs)
<1>3. /\ DOMAIN m.entries = DOMAIN fs
      /\ \A i \in DOMAIN fs :
            /\ m.entries[i].f = label(i)
            /\ m.entries[i].parts =
                 [k \in DOMAIN list(i) |-> [hash |-> list(i)[k].hash, block |-> list(i)[k].block]]
  BY DEF ManifestOf
<1>4. ASSUME NEW i \in DOMAIN fs PROVE Lists(m.entries[i].parts, i, fs, from)
  <2>1. PICK s : s = list(i)
    OBVIOUS
  <2>2. \E t : t \in sorted(i)
    BY PartsSorted
  <2>3. s \in sorted(i)
    BY <2>1, <2>2
  <2>4. PICK ps : ps = m.entries[i].parts
    OBVIOUS
  <2> HIDE DEF m, list
  <2>5. ps = [k \in DOMAIN s |-> [hash |-> s[k].hash, block |-> s[k].block]]
    BY <1>3, <2>1, <2>4
  <2>6. DOMAIN ps = DOMAIN s /\ \A k \in DOMAIN s : ps[k].hash = s[k].hash
    BY <2>5
  <2>7. QED
    BY <1>1, <1>2, <2>3, <2>4, <2>6, PartsList
<1>5. \/ \A i \in DOMAIN fs : m.entries[i].f = {}
      \/ \A i \in DOMAIN fs : m.entries[i].f = {Processed[S].labels[i]}
  <2>1. CASE ls = << >>
    <3>1. DOMAIN ls = {}
      BY <2>1
    <3>2. QED
      BY <1>3, <3>1
  <2>2. CASE ls = Processed[S].labels
    <3>1. DOMAIN ls = DOMAIN fs
      BY <1>1, <2>2, ProcessedFiles, ProcessedLabels
    <3>2. \A i \in DOMAIN fs : label(i) = {Processed[S].labels[i]}
      BY <2>2, <3>1
    <3>3. QED
      BY <1>3, <3>2
  <2>3. QED
    BY <2>1, <2>2
<1> HIDE DEF m
<1>6. Describes(m, S, from)
  BY <1>1, <1>3, <1>4, <1>5 DEF Describes
<1>7. QED
  BY <1>1, <1>6 DEF m

-----------------------------------------------------------------------------
(* What each step does to the invariant *)

\* The upload goes on with the same files and the same confirmed units.
LEMMA JobKept ==
    ASSUME JobInv, pc # "idle", UNCHANGED <<job, confirmed>>,
           \/ pc' \notin {"waitManifest", "complete"}
           \/ /\ pc \in {"waitManifest", "complete"}
              /\ txs'[sent'].data = txs[sent].data
    PROVE  JobInv'
<1>1. PICK S \in Selections : JobOf(S)
  BY DEF JobInv
<1>2. /\ job'.files = Processed[S].files
      /\ job'.labels = << >> \/ job'.labels = Processed[S].labels
      /\ job'.files \in job'.from /\ FromOK(job'.from, Names(job'.files))
      /\ GenuineFor(confirmed', job'.from)
  BY <1>1 DEF JobOf
<1>3. pc' \in {"waitManifest", "complete"} => Describes(txs'[sent'].data[1], S, job'.from)
  BY <1>1 DEF JobOf
<1>4. JobOf(S)'
  BY <1>2, <1>3 DEF JobOf
<1>5. QED
  BY <1>4 DEF JobInv

\* What the uploader's steps leave alone.
LEMMA ProgressKept ==
    ASSUME ProgressInv, ResultInv, UNCHANGED result, progress' = progress \/ progress' = None
    PROVE  ProgressInv' /\ ResultInv'
<1>1. CASE progress' = progress
  BY <1>1 DEF ProgressInv, ResultInv
<1>2. CASE progress' = None
  BY <1>2 DEF ProgressInv, ResultInv
<1>3. QED
  BY <1>1, <1>2

-----------------------------------------------------------------------------
(* FaithInv holds from the start and through every step *)

LEMMA FaithStart == Init => FaithInv
<1> SUFFICES ASSUME Init PROVE FaithInv
  OBVIOUS
<1>1. result = None /\ pc = "idle" /\ progress = None
  BY DEF Init, WebUploadInit
<1>2. QED
  BY <1>1 DEF FaithInv, ResultInv, JobInv, ProgressInv, CoveredInv

LEMMA FaithGoto ==
    ASSUME FaithInv, UNCHANGED result,
           FeeMined \/ BatchFails \/ MissingChunks \/ ManifestFails \/ CallFails
    PROVE  FaithInv'
<1>1. /\ \E p \in {"start", "error"} : Goto(p)
      /\ pc # "idle"
  BY DEF FeeMined, BatchFails, AttemptFails, MissingChunks, ManifestFails, CallFails
<1>2. /\ pc' \in {"start", "error"}
      /\ UNCHANGED <<progress, job, confirmed>>
  BY <1>1 DEF Goto
<1>3. JobInv'
  BY <1>1, <1>2, JobKept DEF FaithInv
<1>4. CoveredInv'
  BY <1>2 DEF CoveredInv
<1>5. QED
  BY <1>2, <1>3, <1>4, ProgressKept DEF FaithInv

LEMMA FaithSendFee ==
    ASSUME UploadInv, FaithInv, UNCHANGED result, SendFee PROVE FaithInv'
<1>1. /\ pc = "fee" /\ Send("fee", << >>) /\ pc' = "waitFee" /\ UNCHANGED chainVars
      /\ UNCHANGED <<progress, job, confirmed>>
  BY DEF SendFee
<1>2. JobInv'
  BY <1>1, JobKept DEF FaithInv
<1>3. CoveredInv'
  BY <1>1 DEF CoveredInv
<1>4. QED
  BY <1>1, <1>2, <1>3, ProgressKept DEF FaithInv

LEMMA FaithStartBatches ==
    ASSUME FaithInv, UNCHANGED result, StartBatches PROVE FaithInv'
<1>1. /\ pc = "start" /\ pc' = "batches" /\ left' = AllUnits(job.files)
      /\ UNCHANGED <<progress, job, confirmed>>
  BY DEF StartBatches
<1>2. JobInv'
  BY <1>1, JobKept DEF FaithInv
<1>3. CoveredInv'
  BY <1>1 DEF CoveredInv
<1>4. QED
  BY <1>1, <1>2, <1>3, ProgressKept DEF FaithInv

LEMMA FaithSkip ==
    ASSUME FaithInv, UNCHANGED result, SkipBatch PROVE FaithInv'
<1> DEFINE us == NextBatch(left)
<1>1. /\ pc = "batches" /\ pc' = pc /\ left' = left \ us
      /\ \A u \in us : Recorded(confirmed, u)
      /\ UNCHANGED <<progress, job, confirmed>>
  BY DEF SkipBatch, AlreadyConfirmed, Recorded
<1> HIDE DEF us
<1>2. JobInv'
  BY <1>1, JobKept DEF FaithInv
<1>3. CoveredInv'
  <2>1. /\ left \subseteq AllUnits(job.files)
        /\ \A u \in AllUnits(job.files) : u \in left \/ Recorded(confirmed, u) \/ u \in Twins(job.files)
    BY <1>1 DEF FaithInv, CoveredInv
  <2>2. /\ left' \subseteq AllUnits(job'.files)
        /\ \A u \in AllUnits(job'.files) :
                u \in left' \/ Recorded(confirmed', u) \/ u \in Twins(job'.files)
    BY <1>1, <2>1
  <2>3. QED
    BY <1>1, <2>2 DEF CoveredInv
<1>4. QED
  BY <1>1, <1>2, <1>3, ProgressKept DEF FaithInv

LEMMA FaithTake ==
    ASSUME UploadInv, FaithInv, UNCHANGED result, TakeBatch
    PROVE  FaithInv'
<1> DEFINE us == NextBatch(left)
<1>1. /\ pc = "batches" /\ pc' = "send" /\ left' = left \ us
      /\ batch' \in SortedBy(us, Precedes)
      /\ UNCHANGED <<progress, job, confirmed>>
  BY DEF TakeBatch
<1>2. /\ us \subseteq left /\ IsFiniteSet(us)
      /\ left \subseteq AllUnits(job.files)
      /\ \A u \in AllUnits(job.files) :
            u \in left \/ Recorded(confirmed, u) \/ u \in Twins(job.files)
  BY <1>1, NextBatchSubset DEF FaithInv, CoveredInv
<1>3. job.files \in Seq(File)
  BY DEF UploadInv, FilesInv
<1>4. \A u, v \in us : u.data = v.data /\ u # v => u \in Twins(job.files)
  BY <1>2, <1>3, TwinsTaken
<1> HIDE DEF us
<1>5. Taken' = us
  <2>1. PICK s : s = batch'
    OBVIOUS
  <2>2. {s[k] : k \in DOMAIN s} = us
    BY <1>1, <1>2, <1>3, <2>1, SortedAll
  <2>3. QED
    BY <2>1, <2>2 DEF Taken
<1>6. JobInv'
  BY <1>1, JobKept DEF FaithInv
<1>7. CoveredInv'
  <2>1. /\ left' \subseteq AllUnits(job'.files)
        /\ \A u \in AllUnits(job'.files) :
              \/ u \in left' \/ (pc' # "batches" /\ u \in Taken')
              \/ Recorded(confirmed', u) \/ u \in Twins(job'.files)
    BY <1>1, <1>2, <1>5
  <2>2. /\ Taken' \subseteq AllUnits(job'.files)
        /\ \A u, v \in Taken' : u.data = v.data /\ u # v => u \in Twins(job'.files)
    BY <1>1, <1>2, <1>4, <1>5
  <2>3. QED
    BY <2>1, <2>2 DEF CoveredInv
<1>8. QED
  BY <1>1, <1>6, <1>7, ProgressKept DEF FaithInv

\* The batch is sent, or is to be sent again.
LEMMA FaithAttempt ==
    ASSUME UploadInv, FaithInv, UNCHANGED result, SendBatch \/ RetryBatch
    PROVE  FaithInv'
<1>1. /\ pc \in {"send", "wait"} /\ pc' \in {"send", "wait"}
      /\ UNCHANGED <<progress, job, left, batch, confirmed>>
  BY DEF SendBatch, RetryBatch, AttemptFails
<1>2. JobInv'
  BY <1>1, JobKept DEF FaithInv
<1>3. CoveredInv'
  <2>1. Taken' = Taken
    BY <1>1 DEF Taken
  <2>2. QED
    BY <1>1, <2>1 DEF FaithInv, CoveredInv
<1>4. QED
  BY <1>1, <1>2, <1>3, ProgressKept DEF FaithInv

LEMMA FaithBatchConfirmed ==
    ASSUME FaithInv, UNCHANGED result, BatchConfirmed PROVE FaithInv'
<1>1. /\ pc = "wait" /\ pc' = "batches" /\ UNCHANGED <<job, left>>
      /\ \/ progress' = [names |-> Names(job.files), confirmed |-> confirmed',
                          from |-> job.from]
         \/ progress' = progress
  BY DEF BatchConfirmed, SaveProgress
<1>2. PICK f \in HashToUnit(batch) : confirmed' = Confirm(confirmed, batch, f, sent)
  BY DEF BatchConfirmed
<1>3. PICK S \in Selections : JobOf(S)
  BY <1>1 DEF FaithInv, JobInv
<1>4. /\ left \subseteq AllUnits(job.files) /\ Taken \subseteq AllUnits(job.files)
      /\ \A u \in AllUnits(job.files) :
            \/ u \in left \/ u \in Taken
            \/ Recorded(confirmed, u) \/ u \in Twins(job.files)
      /\ \A u, v \in Taken : u.data = v.data /\ u # v => u \in Twins(job.files)
  BY <1>1 DEF FaithInv, CoveredInv
<1>5. GenuineFor(confirmed', job.from)
  BY <1>2, <1>3, <1>4, ConfirmGenuine DEF JobOf
<1>6. JobInv'
  <2>1. JobOf(S)'
    BY <1>1, <1>3, <1>5 DEF JobOf
  <2>2. QED
    BY <2>1 DEF JobInv
<1>7. CoveredInv'
  <2>1. ASSUME NEW u \in AllUnits(job.files)
        PROVE  u \in left \/ Recorded(confirmed', u) \/ u \in Twins(job.files)
    <3>1. CASE Recorded(confirmed, u)
      BY <1>2, <3>1, ConfirmRecords
    <3>2. CASE u \in Taken
      <4>1. CASE \E v \in Taken : v # u /\ v.data = u.data
        BY <1>4, <3>2, <4>1
      <4>2. QED
        BY <1>2, <3>2, <4>1, ConfirmRecords
    <3>3. QED
      BY <1>4, <3>1, <3>2
  <2>2. QED
    BY <1>1, <1>4, <2>1 DEF CoveredInv
<1>8. ProgressInv' /\ ResultInv'
  <2>1. ResultInv'
    BY DEF FaithInv, ResultInv
  <2>2. CASE progress' = [names |-> Names(job.files), confirmed |-> confirmed',
                          from |-> job.from]
    <3>1. /\ progress'.names = Names(job.files) /\ progress'.confirmed = confirmed'
          /\ progress'.from = job.from
      BY <2>2
    <3>2. QED
      BY <1>3, <1>5, <2>1, <3>1 DEF ProgressInv, JobOf
  <2>3. CASE progress' = progress
    BY <2>1, <2>3 DEF FaithInv, ProgressInv
  <2>4. QED
    BY <1>1, <2>2, <2>3
<1>9. QED
  BY <1>6, <1>7, <1>8 DEF FaithInv

\* When nothing is left, what is not recorded are twins.
LEMMA FaithSendManifest ==
    ASSUME UploadInv, FaithInv, UNCHANGED result, SendManifest
    PROVE  FaithInv'
<1> DEFINE m == ManifestOf(job.files, job.labels, confirmed)
<1>1. /\ pc = "batches" /\ left = {} /\ MissingChunksOf(job.files, confirmed) = {}
      /\ Send("manifest", <<m>>) /\ pc' = "waitManifest"
      /\ UNCHANGED chainVars /\ UNCHANGED <<progress, job, confirmed>>
  BY DEF SendManifest
<1>2. PICK S \in Selections : JobOf(S)
  BY <1>1 DEF FaithInv, JobInv
<1>3. /\ job.files = Processed[S].files
      /\ job.labels = << >> \/ job.labels = Processed[S].labels
      /\ job.files \in job.from /\ FromOK(job.from, Names(job.files))
      /\ GenuineFor(confirmed, job.from)
  BY <1>2 DEF JobOf
<1>4. \A u \in AllUnits(job.files) : Recorded(confirmed, u) \/ u \in Twins(job.files)
  BY <1>1 DEF FaithInv, CoveredInv
<1>5. UnitsOK(confirmed)
  BY DEF UploadInv, ConfirmedInv
<1>6. Describes(m, S, job.from)
  <2>1. PICK fs, ls, from : fs = job.files /\ ls = job.labels /\ from = job.from
    OBVIOUS
  <2>2. Describes(ManifestOf(Processed[S].files, ls, confirmed), S, from)
    BY <1>1, <1>3, <1>4, <1>5, <2>1, ManifestDescribes
  <2>3. QED
    BY <1>3, <2>1, <2>2
<1> HIDE DEF m
<1>7. "manifest" \in Kinds /\ SentInv /\ <<m>>[1] = m
  BY DEF Kinds, UploadInv
<1>8. txs'[sent'].data[1] = m
  <2>1. /\ sent' = Len(txs) + 1
        /\ txs'[Len(txs) + 1] = [kind |-> "manifest", data |-> <<m>>,
                                 status |-> "pending", block |-> 0]
    BY <1>1, <1>7, SendLemma DEF SentInv
  <2>2. QED
    BY <2>1
<1>9. JobInv'
  <2>1. JobOf(S)'
    BY <1>1, <1>3, <1>6, <1>8 DEF JobOf
  <2>2. QED
    BY <2>1 DEF JobInv
<1>10. CoveredInv'
  BY <1>1 DEF CoveredInv
<1>11. QED
  BY <1>1, <1>9, <1>10, ProgressKept DEF FaithInv

\* The upload is complete: its progress is no longer needed.
LEMMA FaithManifestConfirmed ==
    ASSUME FaithInv, UNCHANGED result, ManifestConfirmed PROVE FaithInv'
<1>1. /\ pc = "waitManifest" /\ pc' = "complete" /\ progress' = None
      /\ UNCHANGED <<txs, job, sent, confirmed>>
  BY DEF ManifestConfirmed
<1>2. JobInv'
  BY <1>1, JobKept DEF FaithInv
<1>3. CoveredInv'
  BY <1>1 DEF CoveredInv
<1>4. QED
  BY <1>1, <1>2, <1>3, ProgressKept DEF FaithInv

\* Progress with the names of the files at hand may be that of others with the
\* same names.
LEMMA FaithBegin == ASSUME FaithInv, Start PROVE FaithInv'
<1>1. PICK key \in BOOLEAN, resume \in BOOLEAN, site \in DeploySite :
            Begin(result.files, IF site THEN result.labels ELSE << >>, key, resume)
  BY DEF Start
<1>2. PICK S \in Selections : result = Processed[S]
  BY DEF Start, FaithInv, ResultInv
<1>3. /\ pc' \in {"start", "fee"}
      /\ job' = [files |-> result.files, labels |-> IF site THEN result.labels ELSE << >>,
                 key |-> key,
                 from |-> {result.files} \union (IF resume THEN progress.from ELSE {})]
      /\ confirmed' = (IF resume THEN progress.confirmed ELSE {})
      /\ resume => progress # None /\ progress.names = Names(result.files)
      /\ UNCHANGED progress /\ UNCHANGED result
  BY <1>1 DEF Begin, Matches, Start, pageVars
<1>4. /\ job'.files = Processed[S].files
      /\ job'.labels = << >> \/ job'.labels = Processed[S].labels
      /\ job'.files \in job'.from
  BY <1>2, <1>3
<1>5. FromOK(job'.from, Names(job'.files)) /\ GenuineFor(confirmed', job'.from)
  <2>1. CASE resume
    <3>1. /\ FromOK(progress.from, Names(job'.files))
          /\ GenuineFor(progress.confirmed, progress.from)
      BY <1>3, <2>1 DEF FaithInv, ProgressInv
    <3>2. /\ job'.from = {job'.files} \union progress.from
          /\ confirmed' = progress.confirmed
      BY <1>3, <2>1
    <3>3. QED
      BY <1>4, <3>1, <3>2 DEF FromOK, GenuineFor
  <2>2. CASE ~resume
    <3>1. job'.from = {job'.files} /\ confirmed' = {}
      BY <1>3, <2>2
    <3>2. QED
      BY <1>4, <3>1 DEF FromOK, GenuineFor
  <2>3. QED
    BY <2>1, <2>2
<1>6. JobInv'
  <2>1. JobOf(S)'
    BY <1>3, <1>4, <1>5 DEF JobOf
  <2>2. QED
    BY <2>1 DEF JobInv
<1>7. CoveredInv'
  BY <1>3 DEF CoveredInv
<1>8. QED
  BY <1>3, <1>6, <1>7, ProgressKept DEF FaithInv

\* The page forgets its upload, or the browser what was saved.
LEMMA FaithForget ==
    ASSUME FaithInv, UNCHANGED result, TryAgain \/ Reload \/ DropProgress
    PROVE  FaithInv'
<1>1. pc' = "idle" /\ (progress' = progress \/ progress' = None)
  BY DEF TryAgain, Reload, DropProgress, uploadVars
<1>2. JobInv' /\ CoveredInv'
  BY <1>1 DEF JobInv, CoveredInv
<1>3. QED
  BY <1>1, <1>2, ProgressKept DEF FaithInv

\* The upload waits while the chain or the account goes on.
LEMMA FaithWaits ==
    ASSUME UploadInv, FaithInv, UNCHANGED uploadVars,
           sent \in DOMAIN txs => txs'[sent].data = txs[sent].data
    PROVE  JobInv' /\ CoveredInv'
<1>1. UNCHANGED <<pc, job, left, batch, sent, confirmed>>
  BY DEF uploadVars
<1>2. CASE pc = "idle"
  BY <1>1, <1>2 DEF JobInv, CoveredInv
<1>3. CASE pc # "idle"
  <2>1. pc \in {"waitManifest", "complete"} => txs'[sent'].data = txs[sent].data
    BY <1>1 DEF UploadInv, WaitInv
  <2>2. JobInv'
    BY <1>1, <1>3, <2>1, JobKept DEF FaithInv
  <2>3. Taken' = Taken
    BY <1>1 DEF Taken
  <2>4. CoveredInv'
    BY <1>1, <2>3 DEF FaithInv, CoveredInv
  <2>5. QED
    BY <2>2, <2>4
<1>4. QED
  BY <1>2, <1>3

LEMMA FaithOtherTx ==
    ASSUME UploadInv, FaithInv, UNCHANGED result, OtherTx PROVE FaithInv'
<1> DEFINE r == [kind |-> "other", data |-> << >>, status |-> "pending", block |-> 0]
<1>1. txs' = Append(txs, r) /\ UNCHANGED <<progress, uploadVars>>
  BY DEF OtherTx
<1>2. PICK D : txs \in Seq(Tx(D))
  BY DEF UploadInv, SentInv, TxsSeq
<1> DEFINE T == Tx(D \union {<< >>})
<1>3. Tx(D) \subseteq T /\ r \in T
  BY DEF Tx, Kinds
<1> HIDE DEF r, T
<1>4. txs \in Seq(T)
  BY <1>2, <1>3, SeqMonotonic
<1>5. /\ txs' \in Seq(T) /\ Len(txs') = Len(txs) + 1
      /\ \A i \in 1 .. Len(txs) : txs'[i] = txs[i]
      /\ txs'[Len(txs) + 1] = r
  BY <1>1, <1>3, <1>4, AppendProperties
<1>6. /\ Len(txs) \in Nat /\ DOMAIN txs = 1 .. Len(txs) /\ DOMAIN txs' = 1 .. Len(txs')
  BY <1>4, <1>5, LenProperties
<1>7. \A i \in DOMAIN txs : txs'[i] = txs[i]
  BY <1>5, <1>6
<1>8. JobInv' /\ CoveredInv'
  BY <1>1, <1>7, FaithWaits
<1>9. QED
  BY <1>1, <1>8, ProgressKept DEF FaithInv

LEMMA FaithChain ==
    ASSUME UploadInv, FaithInv, UNCHANGED result, NEW i \in DOMAIN txs,
           MineTx(i) \/ FailTx(i)
    PROVE  FaithInv'
<1>1. UNCHANGED <<progress, uploadVars>>
  BY DEF MineTx, FailTx
<1>2. \A j \in DOMAIN txs : txs'[j].data = txs[j].data
  <2>1. /\ SentInv /\ height \in Nat /\ height + 1 \in Nat
        /\ Settle(i, "mined", height + 1) \/ Settle(i, "failed", height)
    BY DEF MineTx, FailTx, UploadInv, SentInv, TxsInv
  <2>2. /\ \A j \in DOMAIN txs : j # i => txs'[j] = txs[j]
        /\ txs'[i].data = txs[i].data
    BY <2>1, SettleLemma DEF SentInv
  <2>3. QED
    BY <2>2
<1>3. JobInv' /\ CoveredInv'
  BY <1>1, <1>2, FaithWaits
<1>4. QED
  BY <1>1, <1>3, ProgressKept DEF FaithInv

\* The upload keeps the files it was started with.
LEMMA FaithHandOver == FaithInv /\ UploadInv /\ HandOver => FaithInv'
<1> SUFFICES ASSUME FaithInv, UploadInv, HandOver PROVE FaithInv'
  OBVIOUS
<1>1. /\ ResultInv'
      /\ UNCHANGED <<uploadVars, progress, txs>>
  BY DEF HandOver, ResultInv, webUploadVars
<1>2. JobInv' /\ CoveredInv'
  BY <1>1, FaithWaits
<1>3. ProgressInv'
  BY <1>1 DEF FaithInv, ProgressInv
<1>4. QED
  BY <1>1, <1>2, <1>3 DEF FaithInv

\* The history goes on, or nothing happens.
LEMMA FaithQuiet ==
    ASSUME FaithInv, UploadInv, UNCHANGED <<webUploadVars, result>> PROVE FaithInv'
<1>1. UNCHANGED <<uploadVars, progress, txs>>
  BY DEF webUploadVars
<1>2. JobInv' /\ CoveredInv'
  BY <1>1, FaithWaits
<1>3. QED
  BY <1>1, <1>2, ProgressKept DEF FaithInv

LEMMA FaithStep ==
    ASSUME IInv, FaithInv, [Next]_vars PROVE FaithInv'
<1>1. UploadInv
  BY DEF IInv
<1>2. CASE HandOver
  BY <1>1, <1>2, FaithHandOver
<1>3. CASE Start
  BY <1>1, <1>3, FaithBegin
<1>4. CASE Run
  <2>1. UploadStep /\ UNCHANGED result
    BY <1>4 DEF Run, pageVars
  <2>2. CASE FeeMined \/ BatchFails \/ MissingChunks \/ ManifestFails \/ CallFails
    BY <2>1, <2>2, FaithGoto
  <2>3. CASE SendFee \/ StartBatches
    BY <1>1, <2>1, <2>3, FaithSendFee, FaithStartBatches
  <2>4. CASE SkipBatch \/ TakeBatch
    BY <1>1, <2>1, <2>4, FaithSkip, FaithTake
  <2>5. CASE SendBatch \/ RetryBatch \/ BatchConfirmed
    BY <1>1, <2>1, <2>5, FaithAttempt, FaithBatchConfirmed
  <2>6. CASE SendManifest
    BY <1>1, <2>1, <2>6, FaithSendManifest
  <2>7. QED
    BY <2>1, <2>2, <2>3, <2>4, <2>5, <2>6 DEF UploadStep
<1>5. CASE Complete
  <2>1. UNCHANGED result /\ ManifestConfirmed
    BY <1>5 DEF Complete
  <2>2. QED
    BY <2>1, FaithManifestConfirmed
<1>6. CASE Mine
  <2>1. UNCHANGED result /\ \E i \in DOMAIN txs : MineTx(i)
    BY <1>6 DEF Mine, MineSome, pageVars
  <2>2. QED
    BY <1>1, <2>1, FaithChain
<1>7. CASE Disturb
  <2>1. /\ UNCHANGED result
        /\ \/ TryAgain \/ Reload \/ DropProgress
           \/ OtherTx
           \/ \E i \in DOMAIN txs : FailTx(i)
    BY <1>7 DEF Disturb, pageVars
  <2>2. QED
    BY <1>1, <2>1, FaithForget, FaithOtherTx, FaithChain
<1>8. CASE History \/ UNCHANGED vars
  <2>1. UNCHANGED <<webUploadVars, result>>
    BY <1>8 DEF History, vars, pageVars
  <2>2. QED
    BY <1>1, <2>1, FaithQuiet
<1>9. QED
  BY <1>2, <1>3, <1>4, <1>5, <1>6, <1>7, <1>8 DEF Next

LEMMA FaithInvariance == Spec => [](IInv /\ FaithInv)
<1>1. Init => IInv /\ FaithInv
  BY InitInv, FaithStart
<1>2. IInv /\ FaithInv /\ [Next]_vars => (IInv /\ FaithInv)'
  BY IInvStep, FaithStep
<1>3. QED
  BY <1>1, <1>2, PTL DEF Spec

\* Whatever the user selects and in whatever order attempts fail, pages are
\* loaded again and uploads resumed: a manifest that is sent describes the
\* selection of its upload, with the chunks of each file in order, and can hold
\* others only if the upload resumed the progress of files of the same names,
\* and lack others only if two units that may share a batch have the same bytes.
THEOREM PageManifestFaithful == Spec => []ManifestFaithful
<1>1. ASSUME FaithInv, pc \in {"waitManifest", "complete"}
      PROVE  ManifestFaithful
  <2>1. PICK S \in Selections : JobOf(S)
    BY <1>1 DEF FaithInv, JobInv
  <2>2. job.from \intersect Namesakes(S) = job.from
    BY <2>1 DEF JobOf, FromOK, Namesakes
  <2>3. QED
    BY <1>1, <2>1, <2>2 DEF JobOf, ManifestFaithful
<1>2. FaithInv => ManifestFaithful
  BY <1>1 DEF ManifestFaithful
<1>3. QED
  BY <1>2, FaithInvariance, PTL

-----------------------------------------------------------------------------
(* The entries of the history *)

\* What is published stays published, and what is on chain stays there.
Kept == /\ logs \subseteq logs'
        /\ \A i \in Published : i \in Published' /\ txs'[i] = txs[i]

\* The manifest of transaction i is that of the entry e.
EntryOf(e, i) ==
    /\ e.hash = Keccak(txs[i].data[1]) /\ e.block = txs[i].block /\ OnChain(e.hash, e.block)
    /\ \E S \in Selections :
        /\ [k \in DOMAIN e.files |-> e.files[k].name] = Names(Processed[S].files)
        /\ Describes(txs[i].data[1], S, Namesakes(S))
    /\ \A k \in DOMAIN e.files : e.files[k].hash = txs[i].data[1].entries[k].parts[1].hash

EntryFaithful(e) ==
    /\ e = [hash |-> e.hash, block |-> e.block, label |-> e.label, files |-> e.files]
    /\ \E i \in Published : EntryOf(e, i)

EntriesInv ==
    /\ \A id \in DOMAIN db : EntryFaithful(db[id])
    /\ \A k \in DOMAIN ops : Op(k) = "put" => EntryFaithful(ops[k].entry)

\* A transaction is only ever appended, or settled while it is pending.
LEMMA TxsKept ==
    ASSUME UNCHANGED txs \/ \E kind \in Kinds : \E data : Send(kind, data),
           SentInv, logs \subseteq logs'
    PROVE  Kept
<1>1. CASE UNCHANGED txs
  BY <1>1 DEF Kept, Published, Sent
<1>2. CASE \E kind \in Kinds : \E data : Send(kind, data)
  <2>1. PICK kind \in Kinds : \E data : Send(kind, data)
    BY <1>2
  <2>2. PICK data : Send(kind, data)
    BY <2>1
  <2>3. \A i \in DOMAIN txs : i \in DOMAIN txs' /\ txs'[i] = txs[i]
    BY <2>2, SendLemma DEF SentInv
  <2>4. QED
    BY <2>3 DEF Kept, Published, Sent
<1>3. QED
  BY <1>1, <1>2

LEMMA SettleKept ==
    ASSUME SentInv, NEW i \in DOMAIN txs, txs[i].status = "pending",
           NEW s \in {"mined", "failed"}, NEW b \in Nat, Settle(i, s, b), logs \subseteq logs'
    PROVE  Kept
<1>1. DOMAIN txs' = DOMAIN txs /\ \A j \in DOMAIN txs : j # i => txs'[j] = txs[j]
  BY SettleLemma DEF SentInv
<1>2. \A j \in Published : j \in DOMAIN txs /\ j # i
  BY DEF Published, Sent
<1>3. QED
  BY <1>1, <1>2 DEF Kept, Published, Sent

LEMMA OtherKept == ASSUME SentInv, OtherTx PROVE Kept
<1> DEFINE r == [kind |-> "other", data |-> << >>, status |-> "pending", block |-> 0]
<1>1. txs' = Append(txs, r) /\ logs' = logs
  BY DEF OtherTx, chainVars
<1>2. PICK D : txs \in Seq(Tx(D))
  BY DEF SentInv, TxsSeq
<1> DEFINE T == Tx(D \union {<< >>})
<1>3. Tx(D) \subseteq T /\ r \in T
  BY DEF Tx, Kinds
<1> HIDE DEF r, T
<1>4. txs \in Seq(T)
  BY <1>2, <1>3, SeqMonotonic
<1>5. /\ txs' \in Seq(T) /\ Len(txs') = Len(txs) + 1
      /\ \A i \in 1 .. Len(txs) : txs'[i] = txs[i]
  BY <1>1, <1>3, <1>4, AppendProperties
<1>6. /\ Len(txs) \in Nat /\ DOMAIN txs = 1 .. Len(txs) /\ DOMAIN txs' = 1 .. Len(txs')
  BY <1>4, <1>5, LenProperties
<1>7. \A i \in DOMAIN txs : i \in DOMAIN txs' /\ txs'[i] = txs[i]
  BY <1>5, <1>6
<1>8. QED
  BY <1>1, <1>7 DEF Kept, Published, Sent

LEMMA MineKept ==
    ASSUME UploadInv, NEW i \in DOMAIN txs, MineTx(i) PROVE Kept
<1>1. /\ txs[i].status = "pending" /\ Settle(i, "mined", height + 1)
      /\ SentInv /\ height + 1 \in Nat
  BY DEF MineTx, NextTx, UploadInv, SentInv, TxsInv
<1>2. logs \subseteq logs'
  BY DEF MineTx, Store, StoreBatch, StoreManifest
<1>3. QED
  BY <1>1, <1>2, SettleKept

LEMMA KeptStep ==
    ASSUME UploadInv, [Next]_vars PROVE Kept
<1>1. SentInv /\ height \in Nat
  BY DEF UploadInv, SentInv, TxsInv
<1>2. CASE Run
  <2>1. UNCHANGED logs
    BY <1>2 DEF Run, UploadStep, SendFee, FeeMined, StartBatches, SkipBatch, TakeBatch,
                SendBatch, BatchConfirmed, RetryBatch, BatchFails, MissingChunks,
                SendManifest, ManifestFails, CallFails, Goto, chainVars
  <2>2. UNCHANGED txs \/ \E kind \in Kinds : \E data : Send(kind, data)
    BY <1>2 DEF Run, UploadStep, SendFee, FeeMined, StartBatches, SkipBatch, TakeBatch,
                SendBatch, BatchConfirmed, RetryBatch, BatchFails, MissingChunks,
                SendManifest, ManifestFails, CallFails, Goto, Kinds
  <2>3. QED
    BY <1>1, <2>1, <2>2, TxsKept
<1>3. CASE Mine
  BY <1>3, MineKept DEF Mine, MineSome
<1>4. CASE OtherTx
  BY <1>1, <1>4, OtherKept
<1>5. CASE \E i \in DOMAIN txs : FailTx(i)
  <2>1. PICK i \in DOMAIN txs : FailTx(i)
    BY <1>5
  <2>2. txs[i].status = "pending" /\ Settle(i, "failed", height) /\ logs' = logs
    BY <2>1 DEF FailTx, NextTx, chainVars
  <2>3. QED
    BY <1>1, <2>2, SettleKept
<1>6. CASE UNCHANGED <<txs, logs>>
  BY <1>1, <1>6, TxsKept
<1>7. CASE TryAgain \/ DropProgress \/ Reload
  BY <1>6, <1>7 DEF TryAgain, DropProgress, Reload, chainVars
<1>8. CASE HandOver \/ Start \/ Complete \/ History \/ UNCHANGED vars
  BY <1>6, <1>8 DEF HandOver, Start, Begin, Complete, ManifestConfirmed, History, vars,
                    webUploadVars, chainVars
<1>9. CASE Disturb
  BY <1>4, <1>5, <1>7, <1>9 DEF Disturb
<1>10. QED
  BY <1>2, <1>3, <1>8, <1>9 DEF Next

\* What describes S with the bytes of some of its namesakes does so with all.
LEMMA DescribesAll ==
    ASSUME NEW S \in Selections, NEW m, NEW from, Describes(m, S, from),
           Processed[S].files \in from, FromOK(from, Names(Processed[S].files))
    PROVE  Describes(m, S, Namesakes(S))
<1>1. PICK fs, all : fs = Processed[S].files /\ all = Namesakes(S)
  OBVIOUS
<1>2. from \subseteq all /\ (all = {fs} => from = {fs})
  BY <1>1 DEF Namesakes, FromOK
<1>3. ASSUME NEW ps, NEW i, Lists(ps, i, fs, from) PROVE Lists(ps, i, fs, all)
  <2>1. PICK at \in [DOMAIN ps -> UNION {DOMAIN g[i].chunks : g \in from}] :
        /\ \A j, k \in DOMAIN ps : j < k => at[j] < at[k]
        /\ \A k \in DOMAIN ps : \E g \in from :
            at[k] \in DOMAIN g[i].chunks /\ ps[k].hash = Keccak(g[i].chunks[at[k]])
        /\ \A u \in AllUnits(fs) :
            u.file = i - 1 /\ (u \in Twins(fs) => u.total = 1 /\ from = {fs})
                => \E k \in DOMAIN ps : at[k] = u.chunk + 1
    BY <1>3 DEF Lists
  <2>2. at \in [DOMAIN ps -> UNION {DOMAIN g[i].chunks : g \in all}]
    BY <1>2, <2>1
  <2>3. QED
    BY <1>2, <2>1, <2>2 DEF Lists
<1>4. QED
  BY <1>1, <1>3 DEF Describes

\* An entry stays faithful when the chain grows, and whatever its label.
LEMMA EntryKept ==
    ASSUME Kept, NEW e, EntryFaithful(e) PROVE EntryFaithful(e)'
<1>1. PICK i \in Published : EntryOf(e, i)
  BY DEF EntryFaithful
<1>2. i \in Published' /\ txs'[i] = txs[i] /\ logs \subseteq logs'
  BY DEF Kept
<1>3. EntryOf(e, i)'
  BY <1>1, <1>2 DEF EntryOf, OnChain
<1>4. QED
  BY <1>2, <1>3 DEF EntryFaithful

LEMMA EntryLabel ==
    ASSUME NEW e, EntryFaithful(e), NEW l PROVE EntryFaithful([e EXCEPT !.label = l])
<1>1. PICK r : r = [e EXCEPT !.label = l]
  OBVIOUS
<1>2. PICK h, b, o, fs : e = [hash |-> h, block |-> b, label |-> o, files |-> fs]
  BY DEF EntryFaithful
<1>3. r = [hash |-> h, block |-> b, label |-> l, files |-> fs]
  BY <1>1, <1>2
<1>4. /\ r.hash = e.hash /\ r.block = e.block /\ r.files = e.files
      /\ r = [hash |-> r.hash, block |-> r.block, label |-> r.label, files |-> r.files]
  BY <1>2, <1>3
<1>5. EntryFaithful(r)
  BY <1>4 DEF EntryFaithful, EntryOf
<1>6. QED
  BY <1>1, <1>5

\* What onComplete saves: the manifest is in the block it waited for, and lists
\* the files the upload was started with.
LEMMA EntrySaved ==
    ASSUME IInv, FaithInv, ManifestConfirmed
    PROVE  EntryFaithful(HistoryEntry(txs[sent].data[1], txs[sent].block))
<1>1. PICK m : m = txs[sent].data[1]
  OBVIOUS
<1>2. PICK b : b = txs[sent].block
  OBVIOUS
<1>3. /\ pc = "waitManifest" /\ txs[sent].status = "mined"
      /\ sent \in DOMAIN txs /\ txs[sent].kind = "manifest"
      /\ 1 \in DOMAIN txs[sent].data
  BY DEF ManifestConfirmed, IInv, UploadInv, WaitInv, SentInv, ManifestTxInv
<1>4. Log(m, b) \in logs /\ sent \in Published
  BY <1>1, <1>2, <1>3 DEF IInv, UploadInv, SentInv, MinedInv, Published, Sent
<1>5. PICK S \in Selections : JobOf(S)
  BY <1>3 DEF FaithInv, JobInv
<1>6. PICK fs : fs = job.files
  OBVIOUS
<1>7. /\ fs = Processed[S].files /\ DOMAIN m.entries = DOMAIN fs
      /\ Describes(m, S, Namesakes(S))
  <2>1. PICK from : from = job.from
    OBVIOUS
  <2>2. /\ fs = Processed[S].files /\ fs \in from /\ FromOK(from, Names(fs))
        /\ Describes(m, S, from)
    BY <1>1, <1>3, <1>5, <1>6, <2>1 DEF JobOf
  <2>3. Describes(m, S, Namesakes(S))
    BY <2>2, DescribesAll
  <2>4. QED
    BY <2>2, <2>3 DEF Describes
<1> DEFINE item(i) == [name |-> fs[i].name,
                       hash |-> IF i \in DOMAIN m.entries
                                THEN m.entries[i].parts[1].hash ELSE None]
<1>8. PICK gs : gs = [i \in DOMAIN fs |-> item(i)]
  OBVIOUS
<1>9. /\ DOMAIN gs = DOMAIN fs
      /\ \A i \in DOMAIN fs : gs[i].name = fs[i].name
                              /\ gs[i].hash = m.entries[i].parts[1].hash
  BY <1>7, <1>8
<1>10. PICK e : e = HistoryEntry(m, b)
  OBVIOUS
<1>11. e = [hash |-> Keccak(m), block |-> b, label |-> FirstLabel, files |-> gs]
  BY <1>6, <1>8, <1>10 DEF HistoryEntry, HistoryFiles
<1> HIDE DEF item
<1>12. /\ e = [hash |-> e.hash, block |-> e.block, label |-> e.label, files |-> e.files]
       /\ e.hash = Keccak(m) /\ e.block = b /\ e.files = gs
  BY <1>11
<1>13. /\ Log(m, b).hash = Keccak(m) /\ Log(m, b).block = b /\ Log(m, b).data = m
  BY DEF Log
<1>14. [k \in DOMAIN gs |-> gs[k].name] = Names(fs)
  BY <1>9 DEF Names
<1>15. EntryFaithful(e)
  <2>1. OnChain(e.hash, e.block)
    BY <1>4, <1>12, <1>13 DEF OnChain
  <2>2. \E T \in Selections :
            /\ [k \in DOMAIN e.files |-> e.files[k].name] = Names(Processed[T].files)
            /\ Describes(m, T, Namesakes(T))
    BY <1>7, <1>12, <1>14
  <2>3. \A i \in DOMAIN e.files : e.files[i].hash = m.entries[i].parts[1].hash
    BY <1>9, <1>12
  <2>4. EntryOf(e, sent)
    BY <1>1, <1>2, <1>12, <2>1, <2>2, <2>3 DEF EntryOf
  <2>5. QED
    BY <1>4, <1>12, <2>4 DEF EntryFaithful
<1>16. QED
  BY <1>1, <1>2, <1>10, <1>15

\* A call is added: its entry, if it has one, is faithful.
LEMMA EntriesAppend ==
    ASSUME HistoryInv, EntriesInv, Kept, UNCHANGED db,
           NEW o, ops' = Append(ops, o), o.op = "put" => EntryFaithful(o.entry)
    PROVE  EntriesInv'
<1>1. /\ DOMAIN ops' = DOMAIN ops \union {Len(ops) + 1}
      /\ \A k \in DOMAIN ops : ops'[k] = ops[k]
      /\ ops'[Len(ops) + 1] = o
  BY AppendOp DEF HistoryInv
<1>2. \A k \in DOMAIN ops' : ops'[k].op = "put" => EntryFaithful(ops'[k].entry)
  BY <1>1 DEF EntriesInv, Op
<1>3. \A k \in DOMAIN ops' : ops'[k].op = "put" => EntryFaithful(ops[k].entry)'
  <2> SUFFICES ASSUME NEW k \in DOMAIN ops', ops'[k].op = "put"
               PROVE  EntryFaithful(ops[k].entry)'
    OBVIOUS
  <2>1. PICK e : e = ops'[k].entry
    OBVIOUS
  <2>2. EntryFaithful(e)'
    BY <1>2, <2>1, EntryKept
  <2>3. QED
    BY <2>1, <2>2
<1>4. \A id \in DOMAIN db' : EntryFaithful(db[id])'
  <2> SUFFICES ASSUME NEW id \in DOMAIN db PROVE EntryFaithful(db[id])'
    OBVIOUS
  <2>1. PICK e : e = db[id]
    OBVIOUS
  <2>2. EntryFaithful(e)'
    BY <2>1, EntryKept DEF EntriesInv
  <2>3. QED
    BY <2>1, <2>2
<1>5. QED
  BY <1>3, <1>4 DEF EntriesInv, Op

\* The store keeps its entries, and calls are only taken off the list.
LEMMA EntriesTail ==
    ASSUME EntriesInv, Kept,
           \A id \in DOMAIN db' : EntryFaithful(db'[id]),
           \A k \in DOMAIN ops' : ops'[k].op = "put" =>
                \E j \in DOMAIN ops : ops'[k] = ops[j]
    PROVE  EntriesInv'
<1>1. ASSUME NEW k \in DOMAIN ops', ops'[k].op = "put" PROVE EntryFaithful(ops[k].entry)'
  <2>1. PICK j \in DOMAIN ops : ops'[k] = ops[j]
    BY <1>1
  <2>2. PICK e : e = ops'[k].entry
    OBVIOUS
  <2>3. EntryFaithful(e)
    BY <1>1, <2>1, <2>2 DEF EntriesInv, Op
  <2>4. EntryFaithful(e)'
    BY <2>3, EntryKept
  <2>5. QED
    BY <2>2, <2>4
<1>2. ASSUME NEW id \in DOMAIN db' PROVE EntryFaithful(db[id])'
  <2>1. PICK e : e = db'[id]
    OBVIOUS
  <2>2. EntryFaithful(e)'
    BY <1>2, <2>1, EntryKept
  <2>3. QED
    BY <2>1, <2>2
<1>3. QED
  BY <1>1, <1>2 DEF EntriesInv, Op

\* The change that runs stores the entry it brings, changes a label, or deletes.
LEMMA EntriesRun ==
    ASSUME HistoryInv, EntriesInv, Kept, RunChange
    PROVE  EntriesInv'
<1> DEFINE l == [op |-> "list"]
<1>1. PICK o : o = Head(ops)
  OBVIOUS
<1>2. /\ ops # << >> /\ o.op # "list" /\ ops' = Append(Tail(ops), l) /\ l.op # "put"
      /\ db' = CASE o.op = "put"    -> Put(o.id, o.entry)
                 [] o.op = "label"  -> Labeled(o)
                 [] o.op = "delete" -> [i \in DOMAIN db \ {o.id} |-> db[i]]
  BY <1>1 DEF RunChange, Refresh
<1> HIDE DEF l
<1>3. /\ 1 \in DOMAIN ops /\ o = ops[1]
      /\ Len(ops) \in Nat /\ Len(Tail(ops)) \in Nat
      /\ \E T : Tail(ops) \in Seq(T)
      /\ DOMAIN Tail(ops) = 1 .. Len(ops) - 1
      /\ \A k \in 1 .. Len(ops) - 1 : k + 1 \in DOMAIN ops /\ Tail(ops)[k] = ops[k + 1]
  BY <1>1, <1>2, TailOp DEF HistoryInv
<1>4. o.op \in {"put", "label", "delete"} /\ (o.op = "put" => EntryFaithful(o.entry))
  BY <1>2, <1>3 DEF HistoryInv, EntriesInv, Op
<1>5. \A k \in DOMAIN ops' : ops'[k].op = "put" => \E j \in DOMAIN ops : ops'[k] = ops[j]
  <2>1. PICK T : Tail(ops) \in Seq(T)
    BY <1>3
  <2>2. PICK s : s = Tail(ops)
    OBVIOUS
  <2>3. s \in Seq(T \union {l}) /\ l \in T \union {l}
    BY <2>1, <2>2, SeqMonotonic
  <2>4. /\ ops' \in Seq(T \union {l}) /\ Len(ops') = Len(s) + 1
        /\ \A k \in 1 .. Len(s) : ops'[k] = s[k]
        /\ ops'[Len(s) + 1] = l
    BY <1>2, <2>2, <2>3, AppendProperties
  <2>5. DOMAIN ops' = 1 .. Len(s) + 1 /\ DOMAIN s = 1 .. Len(s) /\ Len(s) \in Nat
    BY <2>3, <2>4, LenProperties
  <2>6. \A k \in DOMAIN ops' : ops'[k] = l \/ (k \in DOMAIN s /\ ops'[k] = s[k])
    BY <2>4, <2>5
  <2>7. \A k \in DOMAIN s : \E j \in DOMAIN ops : s[k] = ops[j]
    BY <1>3, <2>2
  <2>8. QED
    BY <1>2, <2>6, <2>7
<1>6. \A id \in DOMAIN db' : EntryFaithful(db'[id])
  <2>1. CASE o.op = "put"
    <3>1. db' = Put(o.id, o.entry)
      BY <1>2, <2>1
    <3>2. QED
      BY <1>4, <2>1, <3>1 DEF Put, EntriesInv
  <2>2. CASE o.op = "label"
    <3>1. db' = Labeled(o)
      BY <1>2, <2>2
    <3>2. CASE o.id \in DOMAIN db
      <4>1. PICK e : e = [db[o.id] EXCEPT !.label = o.label]
        OBVIOUS
      <4>2. EntryFaithful(e)
        BY <3>2, <4>1, EntryLabel DEF EntriesInv
      <4>3. db' = Put(o.id, e)
        BY <3>1, <3>2, <4>1 DEF Labeled
      <4>4. QED
        BY <4>2, <4>3 DEF Put, EntriesInv
    <3>3. CASE o.id \notin DOMAIN db
      BY <3>1, <3>3 DEF Labeled, EntriesInv
    <3>4. QED
      BY <3>2, <3>3
  <2>3. CASE o.op = "delete"
    <3>1. db' = [i \in DOMAIN db \ {o.id} |-> db[i]]
      BY <1>2, <2>3
    <3>2. QED
      BY <3>1 DEF EntriesInv
  <2>4. QED
    BY <1>4, <2>1, <2>2, <2>3
<1>7. QED
  BY <1>5, <1>6, EntriesTail

LEMMA EntriesStep ==
    ASSUME IInv, FaithInv, EntriesInv, [Next]_vars PROVE EntriesInv'
<1>1. Kept /\ HistoryInv
  BY KeptStep DEF IInv
<1>2. CASE Complete
  <2>1. PICK e : e = HistoryEntry(txs[sent].data[1], txs[sent].block)
    OBVIOUS
  <2>2. EntryFaithful(e)
    BY <1>2, <2>1, EntrySaved DEF Complete
  <2>3. /\ ops' = Append(ops, [op |-> "put", id |-> completed + 1, entry |-> e])
        /\ UNCHANGED db
    BY <1>2, <2>1 DEF Complete, SaveUpload
  <2>4. PICK o : o = [op |-> "put", id |-> completed + 1, entry |-> e]
    OBVIOUS
  <2>5. o.entry = e
    BY <2>4
  <2>6. QED
    BY <1>1, <2>2, <2>3, <2>4, <2>5, EntriesAppend
<1>3. CASE RunChange
  BY <1>1, <1>3, EntriesRun
<1>4. CASE List
  <2>1. ops # << >> /\ ops' = Tail(ops) /\ UNCHANGED db
    BY <1>4 DEF List
  <2>2. \A k \in DOMAIN ops' : \E j \in DOMAIN ops : ops'[k] = ops[j]
    BY <1>1, <2>1, TailOp DEF HistoryInv
  <2>3. \A id \in DOMAIN db' : EntryFaithful(db'[id])
    BY <2>1 DEF EntriesInv
  <2>4. QED
    BY <1>1, <2>2, <2>3, EntriesTail
<1>5. CASE Rename \/ Remove
  <2>1. \E o : o.op # "put" /\ Change(o)
    BY <1>5 DEF Rename, Remove
  <2>2. PICK o : o.op # "put" /\ Change(o)
    BY <2>1
  <2>3. ops' = Append(ops, o) /\ UNCHANGED db
    BY <2>2 DEF Change
  <2>4. QED
    BY <1>1, <2>2, <2>3, EntriesAppend
<1>6. CASE Remount
  <2>1. ops' = << >> /\ UNCHANGED db
    BY <1>6 DEF Remount
  <2>2. DOMAIN ops' = {} /\ \A id \in DOMAIN db' : EntryFaithful(db'[id])
    BY <2>1 DEF EntriesInv
  <2>3. QED
    BY <1>1, <2>2, EntriesTail
<1>7. CASE UNCHANGED historyVars
  <2>1. /\ UNCHANGED <<db, ops>>
        /\ \A id \in DOMAIN db' : EntryFaithful(db'[id])
    BY <1>7 DEF historyVars, EntriesInv
  <2>2. QED
    BY <1>1, <2>1, EntriesTail
<1>8. CASE HandOver \/ Start \/ Run \/ Mine \/ UNCHANGED vars
  BY <1>7, <1>8 DEF HandOver, Start, Run, Mine, vars
<1>9. CASE Disturb
  BY <1>6, <1>7, <1>9 DEF Disturb
<1>10. CASE History
  BY <1>3, <1>4, <1>5, <1>10 DEF History, HistoryStep
<1>11. QED
  BY <1>2, <1>8, <1>9, <1>10 DEF Next

\* Every entry of the history names a manifest that was published, in the block
\* of its base URI, and lists the names and first hashes of the files of that
\* manifest, even if the selection was replaced during the upload, the upload
\* resumed the progress of other files, or the entry was renamed since.
THEOREM PageHistoryFaithful == Spec => []HistoryFaithful
<1>1. Init => EntriesInv
  <2> SUFFICES ASSUME Init PROVE EntriesInv
    OBVIOUS
  <2>1. DOMAIN ops = {} /\ DOMAIN db = {}
    BY DEF Init, HistoryInit, NoEntries
  <2>2. QED
    BY <2>1 DEF EntriesInv
<1>2. IInv /\ FaithInv /\ EntriesInv /\ [Next]_vars => EntriesInv'
  BY EntriesStep
<1>3. EntriesInv => HistoryFaithful
  <2> SUFFICES ASSUME EntriesInv, NEW id \in DOMAIN db
               PROVE  \E i \in Published : EntryOf(db[id], i)
    BY DEF HistoryFaithful, EntryOf
  <2>1. QED
    BY DEF EntriesInv, EntryFaithful
<1>4. QED
  BY <1>1, <1>2, <1>3, FaithInvariance, PTL DEF Spec

-----------------------------------------------------------------------------
(***************************************************************************)
(* What an upload costs.  As left always starts with all units of the      *)
(* files, the batches of a selection are the same in every upload of it.   *)
(* A batch is open while not all of its units are recorded; the batches    *)
(* that were sent and those open in what an upload, or the browser, has    *)
(* recorded, never exceed what the fees and the faults account for.        *)
(***************************************************************************)

UnitsOf(S) == AllUnits(Processed[S].files)

LeftsOf(us) == CHOOSE C \in SUBSET SUBSET us :
                    Packing(C, us) /\ Cardinality(C) <= MaxBatches

Lefts(S) == LeftsOf(UnitsOf(S))

Open(S, cs) == {l \in Lefts(S) : \E u \in NextBatch(l) : ~Recorded(cs, u)}

Sends == Cardinality(Sent("batch"))

Paid == Cardinality(Sent("fee")) + strays

Budget == Paid * MaxBatches + faults

\* The last batch sent may still be confirmed.
Flying == IF pc = "wait" /\ txs[sent].status # "failed" THEN 1 ELSE 0

Within(S, cs) == Sends + Cardinality(Open(S, cs)) <= Budget + Flying

Apart == \A i \in Sent("batch") : ~EqualChunks(i)

CheapJob(S) ==
    /\ job.files = Processed[S].files /\ job.files \in job.from
    /\ pc \in {"waitFee", "start", "batches", "send", "wait"} => Within(S, confirmed)
    /\ pc \in {"batches", "send", "wait"} => left \in Lefts(S) \union {{}}
    /\ pc \in {"send", "wait"} => \E l \in Open(S, confirmed) : Taken = NextBatch(l)

\* Progress that holds units of the files of S only.
CheapProgress == progress # None =>
    \A S \in Selections :
        progress.from = {Processed[S].files} => Within(S, progress.confirmed)

CheapInv == Apart =>
    /\ Sends <= Budget + Flying
    /\ pc # "idle" => \E S \in Selections : CheapJob(S)
    /\ CheapProgress

LEMMA LeftsFacts ==
    ASSUME NEW S \in Selections
    PROVE  /\ Packing(Lefts(S), UnitsOf(S))
           /\ IsFiniteSet(Lefts(S)) /\ Cardinality(Lefts(S)) <= MaxBatches
           /\ Lefts(S) \subseteq SUBSET UnitsOf(S)
           /\ MaxBatches \in Nat
<1> DEFINE C == Lefts(S)
<1>1. /\ C \in SUBSET SUBSET UnitsOf(S)
      /\ Packing(C, UnitsOf(S)) /\ Cardinality(C) <= MaxBatches
  <2>1. \E D \in SUBSET SUBSET UnitsOf(S) :
            Packing(D, UnitsOf(S)) /\ Cardinality(D) <= MaxBatches
    BY BatchesAssumption DEF UnitsOf
  <2>2. QED
    BY <2>1 DEF Lefts, LeftsOf
<1>2. IsFiniteSet(UnitsOf(S))
  BY ProcessedFiles, UnitsFinite DEF UnitsOf
<1>3. IsFiniteSet(SUBSET UnitsOf(S))
  BY <1>2, FS_SUBSET
<1>4. IsFiniteSet(C)
  BY <1>1, <1>3, FS_Subset
<1>5. QED
  BY <1>1, <1>4, BatchesAssumption

LEMMA OpenFacts ==
    ASSUME NEW S \in Selections, NEW cs
    PROVE  /\ IsFiniteSet(Open(S, cs)) /\ Cardinality(Open(S, cs)) \in Nat
           /\ Cardinality(Open(S, cs)) <= MaxBatches
<1>1. Open(S, cs) \subseteq Lefts(S)
  BY DEF Open
<1>2. /\ IsFiniteSet(Lefts(S)) /\ Cardinality(Lefts(S)) <= MaxBatches /\ MaxBatches \in Nat
  BY LeftsFacts
<1>3. /\ IsFiniteSet(Open(S, cs)) /\ Cardinality(Open(S, cs)) <= Cardinality(Lefts(S))
  BY <1>1, <1>2, FS_Subset
<1>4. Cardinality(Open(S, cs)) \in Nat /\ Cardinality(Lefts(S)) \in Nat
  BY <1>2, <1>3, FS_CardinalityType
<1>5. QED
  BY <1>2, <1>3, <1>4

\* A batch that was open and is recorded now is one fewer.
LEMMA OpenShrinks ==
    ASSUME NEW S \in Selections, NEW cs, NEW ds, NEW l \in Open(S, cs),
           \A u : Recorded(cs, u) => Recorded(ds, u),
           \A u \in NextBatch(l) : Recorded(ds, u)
    PROVE  Cardinality(Open(S, ds)) + 1 <= Cardinality(Open(S, cs))
<1>1. Open(S, ds) \subseteq Open(S, cs) \ {l}
  BY DEF Open
<1>2. IsFiniteSet(Open(S, cs)) /\ Cardinality(Open(S, cs)) \in Nat
      /\ Cardinality(Open(S, ds)) \in Nat
  BY OpenFacts
<1>3. IsFiniteSet(Open(S, cs) \ {l})
      /\ Cardinality(Open(S, cs) \ {l}) = Cardinality(Open(S, cs)) - 1
  BY <1>2, FS_RemoveElement
<1>4. Cardinality(Open(S, ds)) <= Cardinality(Open(S, cs) \ {l})
  BY <1>1, <1>3, FS_Subset
<1>5. QED
  BY <1>2, <1>3, <1>4

-----------------------------------------------------------------------------
(* Counting the transactions *)

Counted == /\ \A k : IsFiniteSet(Sent(k)) /\ Cardinality(Sent(k)) \in Nat
           /\ Sends \in Nat /\ Budget \in Nat /\ Flying \in Nat /\ faults \in Nat
           /\ strays \in Nat /\ Paid * MaxBatches \in Nat

LEMMA CountTypes == UploadInv => Counted
<1> SUFFICES ASSUME UploadInv PROVE Counted
  OBVIOUS
<1>1. Len(txs) \in Nat /\ DOMAIN txs = 1 .. Len(txs)
  BY SentTypes DEF UploadInv
<1>2. IsFiniteSet(DOMAIN txs)
  BY <1>1, FS_Interval
<1>3. ASSUME NEW k PROVE IsFiniteSet(Sent(k)) /\ Cardinality(Sent(k)) \in Nat
  <2>1. Sent(k) \subseteq DOMAIN txs
    BY DEF Sent
  <2>2. QED
    BY <1>2, <2>1, FS_Subset, FS_CardinalityType
<1>4. faults \in Nat /\ strays \in Nat /\ MaxBatches \in Nat
  BY WebUploadAssumption, BatchesAssumption DEF UploadInv, CountInv
<1>5. Paid * MaxBatches \in Nat
  <2>1. PICK a \in Nat : a = Paid
    BY <1>3, <1>4 DEF Paid
  <2>2. a * MaxBatches \in Nat
    BY <1>4
  <2>3. QED
    BY <2>1, <2>2
<1>6. QED
  BY <1>3, <1>4, <1>5 DEF Counted, Sends, Budget, Flying

LEMMA CountTypesNext == UploadInv' => Counted'
BY CountTypes, PTL

\* One more transaction counts for its kind only.
LEMMA AppendCounts ==
    ASSUME UploadInv, NEW kind \in Kinds, NEW data,
           txs' = Append(txs, [kind |-> kind, data |-> data, status |-> "pending",
                               block |-> 0])
    PROVE  /\ Cardinality(Sent(kind)') = Cardinality(Sent(kind)) + 1
           /\ \A k : k # kind => Sent(k)' = Sent(k)
           /\ Apart' => Apart
           /\ \A i \in DOMAIN txs : txs'[i] = txs[i]
           /\ txs'[Len(txs) + 1].status = "pending"
<1> DEFINE r == [kind |-> kind, data |-> data, status |-> "pending", block |-> 0]
           n == Len(txs) + 1
<1>1. PICK D : txs \in Seq(Tx(D))
  BY DEF UploadInv, SentInv, TxsSeq
<1> DEFINE T == Tx(D \union {data})
<1>2. /\ Tx(D) \subseteq T /\ r \in T /\ txs' = Append(txs, r)
      /\ r.kind = kind /\ r.status = "pending"
  BY DEF Tx
<1> HIDE DEF r, T
<1>3. txs \in Seq(T)
  BY <1>1, <1>2, SeqMonotonic
<1>4. /\ txs' \in Seq(T) /\ Len(txs') = Len(txs) + 1
      /\ \A i \in 1 .. Len(txs) : txs'[i] = txs[i]
      /\ txs'[Len(txs) + 1] = r
  BY <1>2, <1>3, AppendProperties
<1>5. /\ Len(txs) \in Nat /\ DOMAIN txs = 1 .. Len(txs) /\ DOMAIN txs' = 1 .. Len(txs')
  BY <1>3, <1>4, LenProperties
<1>6. /\ DOMAIN txs' = DOMAIN txs \union {n} /\ n \notin DOMAIN txs
      /\ \A i \in DOMAIN txs : txs'[i] = txs[i]
      /\ txs'[n] = r
  BY <1>4, <1>5
<1> HIDE DEF n
<1>7. \A k : k # kind => Sent(k)' = Sent(k)
  BY <1>2, <1>6 DEF Sent
<1>8. Sent(kind)' = Sent(kind) \union {n} /\ n \notin Sent(kind)
  BY <1>2, <1>6 DEF Sent
<1>9. Cardinality(Sent(kind)') = Cardinality(Sent(kind)) + 1
  BY <1>8, CountTypes, FS_AddElement DEF Counted
<1>10. Apart' => Apart
  <2>1. Sent("batch") \subseteq Sent("batch")'
    BY <1>7, <1>8
  <2>2. \A i \in Sent("batch") : txs'[i] = txs[i]
    BY <1>6 DEF Sent
  <2>3. ASSUME Apart', NEW i \in Sent("batch") PROVE ~EqualChunks(i)
    <3>1. ~EqualChunks(i)'
      BY <2>1, <2>3 DEF Apart
    <3>2. EqualChunks(i)' <=> EqualChunks(i)
      <4> DEFINE twins(d) == \E j, k \in DOMAIN d : j # k /\ d[j] = d[k]
      <4>1. EqualChunks(i) <=> twins(txs[i].data)
        BY DEF EqualChunks
      <4>2. EqualChunks(i)' <=> twins(txs'[i].data)
        BY DEF EqualChunks
      <4> HIDE DEF twins
      <4>3. QED
        BY <2>2, <4>1, <4>2
    <3>3. QED
      BY <3>1, <3>2
  <2>4. QED
    BY <2>3 DEF Apart
<1>11. QED
  BY <1>2, <1>6, <1>7, <1>9, <1>10 DEF n

\* A settled transaction is counted as before.
LEMMA SettleCounts ==
    ASSUME UploadInv, NEW i \in DOMAIN txs, NEW s \in {"mined", "failed"},
           NEW b \in Nat, Settle(i, s, b)
    PROVE  /\ \A k : Sent(k)' = Sent(k)
           /\ Apart' => Apart
           /\ \A j \in DOMAIN txs : j # i => txs'[j] = txs[j]
           /\ txs'[i].status = s
<1>1. /\ DOMAIN txs' = DOMAIN txs
      /\ \A j \in DOMAIN txs : j # i => txs'[j] = txs[j]
      /\ txs'[i].kind = txs[i].kind /\ txs'[i].data = txs[i].data
      /\ txs'[i].status = s
  BY SettleLemma DEF UploadInv, SentInv
<1>2. \A j \in DOMAIN txs : txs'[j].kind = txs[j].kind /\ txs'[j].data = txs[j].data
  BY <1>1
<1>3. \A k : Sent(k)' = Sent(k)
  BY <1>1, <1>2 DEF Sent
<1>4. Apart' => Apart
  <2>1. \A j \in Sent("batch") : txs'[j].data = txs[j].data
    BY <1>2 DEF Sent
  <2>2. QED
    BY <1>3, <2>1 DEF Apart, EqualChunks
<1>5. QED
  BY <1>1, <1>3, <1>4

LEMMA SlackSum ==
    \A s, b, f, s1, b1, f1 :
        /\ s \in Nat /\ b \in Nat /\ f \in Nat /\ s1 \in Nat /\ b1 \in Nat /\ f1 \in Nat
        /\ s1 + b + f <= s + b1 + f1 /\ s <= b + f
        => s1 <= b1 + f1
OBVIOUS

LEMMA OneMore ==
    ASSUME NEW a \in Nat, NEW b \in Nat PROVE (a + 1) * b = a * b + b
OBVIOUS

-----------------------------------------------------------------------------
(* CheapInv holds from the start and through every step *)

\* What the fees and faults account for grows with what was sent.
Slack == Sends' + Budget + Flying <= Sends + Budget' + Flying'

LEMMA SlackStep ==
    ASSUME Counted, Counted', Slack, NEW o \in Nat, Sends + o <= Budget + Flying
    PROVE  Sends' + o <= Budget' + Flying'
<1>1. Sends \in Nat /\ Budget \in Nat /\ Flying \in Nat
  BY DEF Counted
<1>2. Sends' \in Nat /\ Budget' \in Nat /\ Flying' \in Nat
  BY DEF Counted
<1>3. Sends' + Budget + Flying <= Sends + Budget' + Flying'
  BY DEF Slack
<1> DEFINE P(s, b, f, s1, b1, f1) ==
                /\ s \in Nat /\ b \in Nat /\ f \in Nat
                /\ s1 \in Nat /\ b1 \in Nat /\ f1 \in Nat
                /\ s1 + b + f <= s + b1 + f1 /\ s + o <= b + f
<1>4. \A s, b, f, s1, b1, f1 : P(s, b, f, s1, b1, f1) => s1 + o <= b1 + f1
  OBVIOUS
<1>5. P(Sends, Budget, Flying, Sends', Budget', Flying')
  BY <1>1, <1>2, <1>3
<1> HIDE DEF P
<1>6. QED
  BY <1>4, <1>5, Zenon

\* What does not concern the upload that runs.
LEMMA CheapRest ==
    ASSUME UploadInv, UploadInv', CheapInv, Apart' => Apart, Apart', Slack,
           progress' = progress \/ progress' = None
    PROVE  /\ Sends' <= Budget' + Flying'
           /\ CheapProgress'
<1>1. /\ Sends \in Nat /\ Budget \in Nat /\ Flying \in Nat
  BY CountTypes DEF Counted
<1>2. /\ Sends' \in Nat /\ Budget' \in Nat /\ Flying' \in Nat
  BY CountTypesNext DEF Counted
<1>3. Sends' <= Budget' + Flying'
  <2>1. Sends <= Budget + Flying
    BY DEF CheapInv
  <2>2. Sends' + Budget + Flying <= Sends + Budget' + Flying'
    BY DEF Slack
  <2>3. QED
    BY <1>1, <1>2, <2>1, <2>2, SlackSum
<1>4. CheapProgress'
  <2> SUFFICES ASSUME progress' # None, NEW S \in Selections,
                      progress'.from = {Processed[S].files}
               PROVE  Within(S, progress.confirmed)'
    BY DEF CheapProgress
  <2>1. progress' = progress
    OBVIOUS
  <2>2. PICK o \in Nat : o = Cardinality(Open(S, progress.confirmed))
    BY OpenFacts
  <2>3. Open(S, progress.confirmed)' = Open(S, progress.confirmed)
    BY <2>1 DEF Open, Lefts, Recorded
  <2>4. Sends + o <= Budget + Flying
    BY <2>1, <2>2 DEF CheapInv, CheapProgress, Within
  <2>5. Sends' + o <= Budget' + Flying'
    BY <2>4, CountTypes, CountTypesNext, SlackStep
  <2>6. QED
    BY <2>2, <2>3, <2>5 DEF Within
<1>5. QED
  BY <1>3, <1>4

\* The upload goes on with the same files, batch and confirmed units, or stops.
LEMMA CheapKept ==
    ASSUME UploadInv, UploadInv', CheapInv, Apart' => Apart, Slack,
           UNCHANGED <<job, confirmed, left, batch>>,
           progress' = progress \/ progress' = None,
           pc' # "idle" => pc # "idle",
           pc' \in {"waitFee", "start", "batches", "send", "wait"} =>
                pc \in {"waitFee", "start", "batches", "send", "wait"},
           pc' \in {"batches", "send", "wait"} => pc \in {"batches", "send", "wait"},
           pc' \in {"send", "wait"} => pc \in {"send", "wait"}
    PROVE  CheapInv'
<1> SUFFICES ASSUME Apart' PROVE
        /\ Sends' <= Budget' + Flying'
        /\ pc' # "idle" => \E S \in Selections : CheapJob(S)'
        /\ CheapProgress'
  BY DEF CheapInv
<1>1. /\ Sends \in Nat /\ Budget \in Nat /\ Flying \in Nat
  BY CountTypes DEF Counted
<1>2. /\ Sends' \in Nat /\ Budget' \in Nat /\ Flying' \in Nat
  BY CountTypesNext DEF Counted
<1>3. ASSUME pc' # "idle" PROVE \E S \in Selections : CheapJob(S)'
  <2>1. PICK S \in Selections : CheapJob(S)
    BY <1>3 DEF CheapInv
  <2>2. PICK o \in Nat : o = Cardinality(Open(S, confirmed))
    BY OpenFacts
  <2>3. Open(S, confirmed)' = Open(S, confirmed)
    BY DEF Open, Lefts, Recorded
  <2>4. Taken' = Taken
    BY DEF Taken
  <2>5. ASSUME pc \in {"waitFee", "start", "batches", "send", "wait"}
        PROVE  Within(S, confirmed)'
    <3>1. Sends + o <= Budget + Flying
      BY <2>1, <2>2, <2>5 DEF CheapJob, Within
    <3>2. Sends' + o <= Budget' + Flying'
      BY <3>1, CountTypes, CountTypesNext, SlackStep
    <3>3. QED
      BY <2>2, <2>3, <3>2 DEF Within
  <2>6. job'.files = Processed[S].files /\ job'.files \in job'.from
    BY <2>1 DEF CheapJob
  <2>7. pc \in {"batches", "send", "wait"} => left' \in Lefts(S) \union {{}}
    BY <2>1 DEF CheapJob
  <2>8. pc \in {"send", "wait"} => \E l \in Open(S, confirmed)' : Taken' = NextBatch(l)
    BY <2>1, <2>3, <2>4 DEF CheapJob
  <2>9. CheapJob(S)'
    BY <2>5, <2>6, <2>7, <2>8 DEF CheapJob
  <2>10. QED
    BY <2>9
<1>4. QED
  BY <1>3, CheapRest

LEMMA CheapStart == Init => CheapInv
<1> SUFFICES ASSUME Init PROVE CheapInv
  OBVIOUS
<1>1. txs = << >> /\ pc = "idle" /\ progress = None /\ faults = 0 /\ strays = 0
  BY DEF Init, WebUploadInit
<1>2. DOMAIN txs = {}
  BY <1>1
<1>3. \A k : Sent(k) = {}
  BY <1>2 DEF Sent
<1>4. \A k : Cardinality(Sent(k)) = 0
  BY <1>3, FS_EmptySet
<1>5. 0 * MaxBatches = 0
  BY BatchesAssumption
<1>6. Sends <= Budget + Flying
  BY <1>1, <1>4, <1>5 DEF Sends, Budget, Paid, Flying
<1>7. QED
  BY <1>1, <1>6 DEF CheapInv, CheapProgress

\* Steps that send nothing and stop nothing, or stop the upload for a fault.
LEMMA CheapGoto ==
    ASSUME UploadInv, UploadInv', CheapInv,
           \/ FeeMined \/ BatchFails \/ MissingChunks \/ ManifestFails \/ CallFails
           \/ RetryBatch \/ ManifestConfirmed
    PROVE  CheapInv'
<1>1. /\ UNCHANGED <<txs, job, confirmed, left, batch>>
      /\ progress' = progress \/ progress' = None
      /\ pc # "idle"
  BY DEF FeeMined, BatchFails, AttemptFails, MissingChunks, ManifestFails, CallFails,
         RetryBatch, ManifestConfirmed, Goto
<1>2. /\ faults' = faults \/ faults' = faults + 1
      /\ strays' = strays
      /\ pc = "wait" /\ txs[sent].status # "failed" => faults' = faults + 1
      /\ pc' # "wait"
  <2>1. CASE FeeMined \/ MissingChunks \/ ManifestFails \/ CallFails \/ ManifestConfirmed
    BY <2>1 DEF FeeMined, MissingChunks, ManifestFails, CallFails, ManifestConfirmed,
                Goto, Fault, NoFault, counters
  <2>2. CASE BatchFails \/ RetryBatch
    <3>1. AttemptFails /\ pc' \in {"error", "send"}
      BY <2>2 DEF BatchFails, RetryBatch, Goto
    <3>2. QED
      BY <3>1 DEF AttemptFails, Fault, NoFault, counters
  <2>3. QED
    BY <2>1, <2>2
<1>3. Sent("batch")' = Sent("batch") /\ Sent("fee")' = Sent("fee") /\ (Apart' => Apart)
  BY <1>1 DEF Sent, Apart, EqualChunks
<1>4. Slack
  <2>1. Sends' = Sends /\ Sends \in Nat
    BY <1>3, CountTypes DEF Sends, Counted
  <2>2. PICK g \in Nat : g = Paid * MaxBatches
    BY CountTypes DEF Counted
  <2>3. Budget = g + faults /\ Budget' = g + faults' /\ faults \in Nat
    BY <1>2, <1>3, <2>2, CountTypes DEF Budget, Paid, Counted
  <2>4. Flying' = 0
    BY <1>2 DEF Flying
  <2>5. Flying = 0 \/ (Flying = 1 /\ faults' = faults + 1)
    BY <1>2 DEF Flying
  <2>6. QED
    BY <1>2, <2>1, <2>2, <2>3, <2>4, <2>5 DEF Slack
<1>5. /\ pc' \in {"waitFee", "start", "batches", "send", "wait"} =>
            pc \in {"waitFee", "start", "batches", "send", "wait"}
      /\ pc' \in {"batches", "send", "wait"} => pc \in {"send", "wait"}
  BY DEF FeeMined, BatchFails, AttemptFails, MissingChunks, ManifestFails, CallFails,
         RetryBatch, ManifestConfirmed, Goto
<1>6. QED
  BY <1>1, <1>3, <1>4, <1>5, CheapKept

\* A batch sent is one more, and one that may yet be confirmed; a manifest and
\* what others send do not count.
LEMMA CheapSend ==
    ASSUME UploadInv, UploadInv', CheapInv, SendBatch \/ SendManifest \/ OtherTx
    PROVE  CheapInv'
<1>1. /\ UNCHANGED <<job, confirmed, left, batch, progress>>
      /\ faults' = faults \/ faults' = faults + 1
      /\ strays' = strays
      /\ pc # "idle"
  BY DEF SendBatch, SendManifest, OtherTx, uploadVars, counters, Fault
<1>2. CASE SendBatch
  <2>1. PICK d : Send("batch", d)
    BY <1>2 DEF SendBatch
  <2>2. /\ pc = "send" /\ pc' = "wait" /\ faults' = faults
    BY <1>2 DEF SendBatch, counters
  <2>3. /\ txs' = Append(txs, [kind |-> "batch", data |-> d, status |-> "pending",
                               block |-> 0])
        /\ sent' = Len(txs) + 1 /\ "batch" \in Kinds
    BY <2>1 DEF Send, Kinds
  <2>4. /\ Sends' = Sends + 1 /\ Sent("fee")' = Sent("fee") /\ (Apart' => Apart)
        /\ txs'[sent'].status = "pending"
    BY <2>3, AppendCounts DEF Sends
  <2>5. Flying = 0 /\ Flying' = 1 /\ Budget' = Budget
    BY <1>1, <2>2, <2>4 DEF Flying, Budget, Paid
  <2>6. Sends \in Nat /\ Budget \in Nat
    BY CountTypes DEF Counted
  <2>7. Slack
    BY <2>4, <2>5, <2>6 DEF Slack
  <2>8. QED
    BY <1>1, <2>2, <2>4, <2>7, CheapKept
<1>3. CASE SendManifest
  <2>1. PICK d : Send("manifest", d)
    BY <1>3 DEF SendManifest
  <2>2. /\ pc = "batches" /\ pc' = "waitManifest" /\ faults' = faults
    BY <1>3 DEF SendManifest, counters
  <2>3. /\ txs' = Append(txs, [kind |-> "manifest", data |-> d, status |-> "pending",
                               block |-> 0])
        /\ "manifest" \in Kinds
    BY <2>1 DEF Send, Kinds
  <2>4. Sent("batch")' = Sent("batch") /\ Sent("fee")' = Sent("fee") /\ (Apart' => Apart)
    BY <2>3, AppendCounts
  <2>5. Flying = 0 /\ Flying' = 0 /\ Budget' = Budget /\ Sends' = Sends
    BY <1>1, <2>2, <2>4 DEF Flying, Budget, Paid, Sends
  <2>6. Sends \in Nat /\ Budget \in Nat
    BY CountTypes DEF Counted
  <2>7. Slack
    BY <2>5, <2>6 DEF Slack
  <2>8. QED
    BY <1>1, <2>2, <2>4, <2>7, CheapKept
<1>4. CASE OtherTx
  <2>1. /\ pc' = pc /\ faults' = faults + 1 /\ sent' = sent
        /\ txs' = Append(txs, [kind |-> "other", data |-> << >>, status |-> "pending",
                               block |-> 0])
        /\ "other" \in Kinds
    BY <1>4 DEF OtherTx, Fault, uploadVars, Kinds
  <2>2. /\ Sent("batch")' = Sent("batch") /\ Sent("fee")' = Sent("fee") /\ (Apart' => Apart)
        /\ \A i \in DOMAIN txs : txs'[i] = txs[i]
    BY <2>1, AppendCounts
  <2>3. Flying' = Flying
    BY <2>1, <2>2 DEF Flying, UploadInv, WaitInv
  <2>4. Sends' = Sends /\ Sends \in Nat /\ Flying \in Nat
    BY <2>2, CountTypes DEF Sends, Counted
  <2>5. PICK g \in Nat : g = Paid * MaxBatches
    BY CountTypes DEF Counted
  <2>6. Budget = g + faults /\ Budget' = g + faults + 1 /\ faults \in Nat
    BY <1>1, <2>1, <2>2, <2>5, CountTypes DEF Budget, Paid, Counted
  <2>7. Slack
    BY <2>3, <2>4, <2>5, <2>6 DEF Slack
  <2>8. QED
    BY <1>1, <2>1, <2>2, <2>7, CheapKept
<1>5. QED
  BY <1>2, <1>3, <1>4

\* A fee pays for every batch of a selection once.
LEMMA CheapFee ==
    ASSUME UploadInv, UploadInv', CheapInv, SendFee PROVE CheapInv'
<1>1. /\ pc = "fee" /\ pc' = "waitFee" /\ faults' = faults /\ strays' = strays
      /\ txs' = Append(txs, [kind |-> "fee", data |-> << >>, status |-> "pending",
                             block |-> 0])
      /\ "fee" \in Kinds
      /\ UNCHANGED <<job, confirmed, progress>>
  BY DEF SendFee, Send, counters, Kinds
<1>2. /\ Cardinality(Sent("fee")') = Cardinality(Sent("fee")) + 1
      /\ Sent("batch")' = Sent("batch") /\ (Apart' => Apart)
  BY <1>1, AppendCounts
<1>3. PICK a \in Nat : a = Paid /\ Paid' = a + 1
  BY <1>1, <1>2, CountTypes DEF Counted, Paid
<1>4. PICK g \in Nat : g = a * MaxBatches
  BY <1>3, CountTypes DEF Counted
<1>5. MaxBatches \in Nat /\ (a + 1) * MaxBatches = g + MaxBatches
  BY <1>4, BatchesAssumption, OneMore
<1>6. Budget = g + faults /\ Budget' = g + MaxBatches + faults /\ faults \in Nat
  BY <1>1, <1>3, <1>4, <1>5, CountTypes DEF Budget, Counted
<1>7. Sends' = Sends /\ Sends \in Nat /\ Flying = 0 /\ Flying' = 0
  BY <1>1, <1>2, CountTypes DEF Sends, Flying, Counted
<1>8. Slack
  BY <1>5, <1>6, <1>7 DEF Slack
<1> SUFFICES ASSUME Apart' PROVE
        /\ Sends' <= Budget' + Flying'
        /\ pc' # "idle" => \E S \in Selections : CheapJob(S)'
        /\ CheapProgress'
  BY DEF CheapInv
<1>9. PICK S \in Selections : CheapJob(S)
  BY <1>1, <1>2 DEF CheapInv
<1>10. PICK o \in Nat : o = Cardinality(Open(S, confirmed)) /\ o <= MaxBatches
  BY OpenFacts
<1>11. Open(S, confirmed)' = Open(S, confirmed)
  BY <1>1 DEF Open, Lefts, Recorded
<1>12. Sends' + o <= Budget' + Flying'
  <2>1. Sends <= g + faults
    BY <1>2, <1>6, <1>7 DEF CheapInv
  <2>2. QED
    BY <1>5, <1>6, <1>7, <1>10, <2>1
<1>13. Within(S, confirmed)'
  BY <1>10, <1>11, <1>12 DEF Within
<1>14. CheapJob(S)'
  BY <1>1, <1>9, <1>13 DEF CheapJob
<1>15. QED
  BY <1>1, <1>2, <1>8, <1>14, CheapRest

\* What was not sent or settled: the count stays.
LEMMA SameCounts ==
    ASSUME UploadInv, UNCHANGED <<txs, faults, strays>>
    PROVE  /\ Sends' = Sends /\ Budget' = Budget /\ (Apart' => Apart)
           /\ Flying' = Flying => Slack
<1>1. Sends' = Sends /\ Budget' = Budget
  BY DEF Sends, Budget, Paid, Sent
<1>2. Apart' => Apart
  BY DEF Apart, Sent, EqualChunks
<1>3. Sends \in Nat /\ Budget \in Nat /\ Flying \in Nat
  BY CountTypes DEF Counted
<1>4. QED
  BY <1>1, <1>2, <1>3 DEF Slack

\* The batches of the upload are those of the selection.
LEMMA CheapBatches ==
    ASSUME UploadInv, UploadInv', CheapInv, StartBatches \/ SkipBatch \/ TakeBatch
    PROVE  CheapInv'
<1>1. /\ UNCHANGED <<txs, faults, strays, progress, job, confirmed>>
      /\ pc \in {"start", "batches"} /\ pc' \in {"batches", "send"}
  BY DEF StartBatches, SkipBatch, TakeBatch, counters
<1>2. Flying = 0 /\ Flying' = 0
  BY <1>1 DEF Flying
<1>3. Slack /\ Sends' = Sends /\ Budget' = Budget /\ (Apart' => Apart)
  BY <1>1, <1>2, SameCounts
<1> SUFFICES ASSUME Apart' PROVE
        /\ Sends' <= Budget' + Flying'
        /\ pc' # "idle" => \E S \in Selections : CheapJob(S)'
        /\ CheapProgress'
  BY DEF CheapInv
<1>4. PICK S \in Selections : CheapJob(S)
  BY <1>1, <1>3 DEF CheapInv
<1>5. /\ job.files = Processed[S].files /\ job.files \in job.from
      /\ Within(S, confirmed)
  BY <1>1, <1>4 DEF CheapJob
<1>6. Open(S, confirmed)' = Open(S, confirmed)
  BY <1>1 DEF Open, Lefts, Recorded
<1>7. Within(S, confirmed)'
  BY <1>2, <1>3, <1>5, <1>6 DEF Within
<1>8. Packing(Lefts(S), UnitsOf(S))
  BY LeftsFacts
<1>9. left' \in Lefts(S) \union {{}}
  <2>1. CASE StartBatches
    BY <1>5, <1>8, <2>1 DEF StartBatches, Packing, UnitsOf
  <2>2. CASE SkipBatch \/ TakeBatch
    <3>1. pc = "batches" /\ left # {} /\ left' = left \ NextBatch(left)
      BY <2>2 DEF SkipBatch, TakeBatch
    <3>2. left \in Lefts(S)
      BY <1>4, <3>1 DEF CheapJob
    <3>3. QED
      BY <1>8, <3>1, <3>2 DEF Packing
  <2>3. QED
    BY <2>1, <2>2
<1>10. pc' = "send" => \E l \in Open(S, confirmed) : Taken' = NextBatch(l)
  <2> SUFFICES ASSUME pc' = "send"
               PROVE  \E l \in Open(S, confirmed) : Taken' = NextBatch(l)
    OBVIOUS
  <2>1. /\ TakeBatch /\ pc = "batches" /\ left # {}
        /\ ~AlreadyConfirmed(NextBatch(left))
        /\ batch' \in SortedBy(NextBatch(left), Precedes)
    BY DEF StartBatches, SkipBatch, TakeBatch
  <2>2. left \in Lefts(S)
    BY <1>4, <2>1 DEF CheapJob
  <2>3. left \in Open(S, confirmed)
    BY <2>1, <2>2 DEF Open, AlreadyConfirmed, Recorded
  <2>4. NextBatch(left) \in SUBSET AllUnits(Processed[S].files) /\ IsFiniteSet(NextBatch(left))
    BY <2>2, LeftsFacts, NextBatchSubset DEF UnitsOf
  <2>5. Taken' = NextBatch(left)
    <3>1. PICK s : s = batch'
      OBVIOUS
    <3>2. PICK us : us = NextBatch(left)
      OBVIOUS
    <3>3. {s[k] : k \in DOMAIN s} = us
      BY <2>1, <2>4, <3>1, <3>2, ProcessedFiles, SortedAll
    <3>4. QED
      BY <3>1, <3>2, <3>3 DEF Taken
  <2>6. QED
    BY <2>3, <2>5
<1>11. CheapJob(S)'
  BY <1>1, <1>5, <1>6, <1>7, <1>9, <1>10 DEF CheapJob
<1>12. QED
  BY <1>3, <1>11, <1>1, CheapRest

\* A batch without equal chunks is recorded whole: it is open no more, and what
\* is saved is what was confirmed.
LEMMA CheapConfirmed ==
    ASSUME UploadInv, UploadInv', CheapInv, BatchConfirmed PROVE CheapInv'
<1>1. /\ pc = "wait" /\ pc' = "batches" /\ txs[sent].status = "mined"
      /\ UNCHANGED <<txs, strays, job, left>>
      /\ \/ /\ progress' = [names |-> Names(job.files), confirmed |-> confirmed',
                             from |-> job.from]
            /\ faults' = faults
         \/ progress' = progress /\ faults' = faults + 1
  BY DEF BatchConfirmed, SaveProgress, NoFault, Fault, counters
<1>2. PICK f \in HashToUnit(batch) : confirmed' = Confirm(confirmed, batch, f, sent)
  BY DEF BatchConfirmed
<1>3. Flying = 1 /\ Flying' = 0
  BY <1>1 DEF Flying
<1>4. Sent("batch")' = Sent("batch") /\ Sent("fee")' = Sent("fee") /\ (Apart' => Apart)
  BY <1>1 DEF Sent, Apart, EqualChunks
<1>5. PICK g \in Nat : g = Paid * MaxBatches
  BY CountTypes DEF Counted
<1>6. /\ Budget = g + faults /\ Budget' = g + faults' /\ faults \in Nat
      /\ Sends' = Sends /\ Sends \in Nat
  BY <1>1, <1>4, <1>5, CountTypes DEF Budget, Paid, Sends, Counted
<1> SUFFICES ASSUME Apart' PROVE
        /\ Sends' <= Budget' + Flying'
        /\ pc' # "idle" => \E S \in Selections : CheapJob(S)'
        /\ CheapProgress'
  BY DEF CheapInv
<1>7. PICK S \in Selections : CheapJob(S)
  BY <1>1, <1>4 DEF CheapInv
<1>8. /\ job.files = Processed[S].files /\ job.files \in job.from
      /\ left \in Lefts(S) \union {{}} /\ Within(S, confirmed)
  BY <1>1, <1>7 DEF CheapJob
<1>9. PICK l \in Open(S, confirmed) : Taken = NextBatch(l)
  BY <1>1, <1>7 DEF CheapJob
<1>10. \A u, v \in Taken : u.data = v.data => u = v
  <2>1. /\ ~EqualChunks(sent)
        /\ txs[sent].data = [k \in DOMAIN batch |-> batch[k].data]
    BY <1>1, <1>4 DEF Apart, Sent, UploadInv, WaitInv
  <2>2. \A j, k \in DOMAIN batch : batch[j].data = batch[k].data => j = k
    BY <2>1 DEF EqualChunks
  <2>3. QED
    BY <2>2 DEF Taken
<1>11. /\ \A u : Recorded(confirmed, u) => Recorded(confirmed', u)
       /\ \A u \in NextBatch(l) : Recorded(confirmed', u)
  BY <1>2, <1>9, <1>10, ConfirmRecords
<1>12. PICK cs : cs = confirmed'
  OBVIOUS
<1>13. PICK o \in Nat : o = Cardinality(Open(S, confirmed))
  BY OpenFacts
<1>14. PICK q \in Nat : q = Cardinality(Open(S, cs))
  BY OpenFacts
<1>15. q + 1 <= o
  BY <1>11, <1>12, <1>13, <1>14, OpenShrinks
<1>16. Open(S, confirmed)' = Open(S, cs)
  BY <1>12 DEF Open, Lefts, Recorded
<1>17. Sends + q <= g + faults
  <2>1. Sends + o <= g + faults + 1
    BY <1>3, <1>6, <1>8, <1>13 DEF Within
  <2>2. QED
    BY <1>6, <1>15, <2>1
<1>18. Sends' + q <= Budget' + Flying'
  BY <1>1, <1>3, <1>6, <1>17
<1>19. Within(S, confirmed)'
  BY <1>14, <1>16, <1>18 DEF Within
<1>20. CheapJob(S)'
  BY <1>1, <1>8, <1>19 DEF CheapJob
<1>21. Sends' <= Budget' + Flying'
  BY <1>1, <1>3, <1>6, <1>17
<1>22. CASE progress' = [names |-> Names(job.files), confirmed |-> confirmed',
                         from |-> job.from]
  <2>1. progress'.from = job.from /\ progress'.confirmed = cs
    BY <1>12, <1>22
  <2>2. ASSUME NEW T \in Selections, progress'.from = {Processed[T].files}
        PROVE  Within(T, progress.confirmed)'
    <3>1. Processed[T].files = Processed[S].files
      BY <1>8, <2>1, <2>2
    <3>2. Lefts(T) = Lefts(S)
      BY <3>1 DEF Lefts, UnitsOf
    <3>3. Open(T, progress.confirmed)' = Open(S, cs)
      BY <2>1, <3>2 DEF Open, Recorded
    <3>4. QED
      BY <1>14, <1>18, <3>3 DEF Within
  <2>3. CheapProgress'
    BY <2>2 DEF CheapProgress
  <2>4. QED
    BY <1>20, <1>21, <2>3
<1>23. CASE progress' = progress /\ faults' = faults + 1
  <2>1. Slack
    BY <1>3, <1>6, <1>23 DEF Slack
  <2>2. QED
    BY <1>4, <1>20, <1>23, <2>1, CheapRest
<1>24. QED
  BY <1>1, <1>22, <1>23

\* A resumed upload has the batches open that the saved one had; one that goes on
\* from the progress of other files has at most all of its own.
LEMMA CheapBegin ==
    ASSUME UploadInv, UploadInv', CheapInv, ResultInv, Start PROVE CheapInv'
<1>1. PICK key \in BOOLEAN, resume \in BOOLEAN, site \in DeploySite :
            Begin(result.files, IF site THEN result.labels ELSE << >>, key, resume)
  BY DEF Start
<1>2. PICK S \in Selections : result = Processed[S]
  BY DEF Start, ResultInv
<1> DEFINE stray == resume /\ progress.from # {Processed[S].files}
<1>3. /\ pc = "idle" /\ pc' = IF resume THEN "start" ELSE "fee"
      /\ job'.files = Processed[S].files /\ job'.files \in job'.from
      /\ confirmed' = (IF resume THEN progress.confirmed ELSE {})
      /\ resume => progress # None
      /\ strays' = IF stray THEN strays + 1 ELSE strays
      /\ UNCHANGED <<txs, progress, faults>>
  BY <1>1, <1>2 DEF Begin, Matches
<1> HIDE DEF stray
<1>4. Flying = 0 /\ Flying' = 0
  BY <1>3 DEF Flying
<1>5. /\ Sends' = Sends /\ Sends \in Nat /\ Budget \in Nat /\ (Apart' => Apart)
      /\ Cardinality(Sent("fee"))' = Cardinality(Sent("fee"))
  BY <1>3, CountTypes DEF Sends, Sent, Apart, EqualChunks, Counted
<1>6. MaxBatches \in Nat /\ Budget' = IF stray THEN Budget + MaxBatches ELSE Budget
  <2>1. CASE stray
    <3>1. PICK a \in Nat : a = Paid /\ Paid' = a + 1
      BY <1>3, <1>5, <2>1, CountTypes DEF Paid, Counted
    <3>2. PICK g \in Nat : g = a * MaxBatches
      BY <3>1, CountTypes DEF Counted
    <3>3. MaxBatches \in Nat /\ (a + 1) * MaxBatches = g + MaxBatches
      BY <3>2, BatchesAssumption, OneMore
    <3>4. Budget = g + faults /\ Budget' = g + MaxBatches + faults /\ faults \in Nat
      BY <1>3, <3>1, <3>2, <3>3, CountTypes DEF Budget, Counted
    <3>5. QED
      BY <2>1, <3>3, <3>4
  <2>2. CASE ~stray
    BY <1>3, <1>5, <2>2, BatchesAssumption DEF Budget, Paid
  <2>3. QED
    BY <2>1, <2>2
<1>7. Slack
  BY <1>4, <1>5, <1>6 DEF Slack
<1> SUFFICES ASSUME Apart' PROVE
        /\ Sends' <= Budget' + Flying'
        /\ pc' # "idle" => \E T \in Selections : CheapJob(T)'
        /\ CheapProgress'
  BY DEF CheapInv
<1>8. ASSUME resume PROVE Within(S, confirmed)'
  <2>1. PICK o \in Nat : o = Cardinality(Open(S, progress.confirmed)) /\ o <= MaxBatches
    BY OpenFacts
  <2>2. confirmed' = progress.confirmed
    BY <1>3, <1>8
  <2>3. Open(S, confirmed)' = Open(S, progress.confirmed)
    BY <2>2 DEF Open, Lefts, Recorded
  <2>4. Sends + o <= Budget'
    <3>1. CASE stray
      <4>1. Sends <= Budget
        BY <1>4, <1>5 DEF CheapInv
      <4>2. QED
        BY <1>5, <1>6, <2>1, <3>1, <4>1
    <3>2. CASE ~stray
      <4>1. Within(S, progress.confirmed)
        BY <1>3, <1>5, <1>8, <3>2 DEF CheapInv, CheapProgress, stray
      <4>2. QED
        BY <1>4, <1>5, <1>6, <2>1, <3>2, <4>1 DEF Within
    <3>3. QED
      BY <3>1, <3>2
  <2>5. Budget' \in Nat
    BY <1>5, <1>6
  <2>6. QED
    BY <1>4, <1>5, <2>1, <2>3, <2>4, <2>5 DEF Within
<1>9. CheapJob(S)'
  BY <1>3, <1>8 DEF CheapJob
<1>10. QED
  BY <1>3, <1>5, <1>7, <1>9, CheapRest

\* What is forgotten was over, or a fault pays for what may come too late.
LEMMA CheapForget ==
    ASSUME UploadInv, UploadInv', CheapInv, TryAgain \/ Reload \/ DropProgress
    PROVE  CheapInv'
<1>1. /\ pc' = "idle" /\ UNCHANGED <<txs, strays>>
      /\ progress' = progress \/ progress' = None
      /\ \/ pc # "wait" /\ faults' = faults
         \/ faults' = faults + 1
  BY DEF TryAgain, Reload, DropProgress, uploadVars, counters, Fault
<1>2. Sent("batch")' = Sent("batch") /\ Sent("fee")' = Sent("fee") /\ (Apart' => Apart)
  BY <1>1 DEF Sent, Apart, EqualChunks
<1>3. PICK g \in Nat : g = Paid * MaxBatches
  BY CountTypes DEF Counted
<1>4. /\ Budget = g + faults /\ Budget' = g + faults' /\ faults \in Nat
      /\ Sends' = Sends /\ Sends \in Nat
  BY <1>1, <1>2, <1>3, CountTypes DEF Budget, Paid, Sends, Counted
<1>5. Flying' = 0 /\ (Flying = 0 \/ (Flying = 1 /\ pc = "wait"))
  BY <1>1 DEF Flying
<1>6. Slack
  BY <1>1, <1>3, <1>4, <1>5 DEF Slack
<1> SUFFICES ASSUME Apart' PROVE
        /\ Sends' <= Budget' + Flying'
        /\ pc' # "idle" => \E S \in Selections : CheapJob(S)'
        /\ CheapProgress'
  BY DEF CheapInv
<1>7. QED
  BY <1>1, <1>2, <1>6, CheapRest

\* Only a failure of the batch that is waited for takes its hope.
LEMMA CheapChain ==
    ASSUME UploadInv, UploadInv', CheapInv, NEW i \in DOMAIN txs, MineTx(i) \/ FailTx(i)
    PROVE  CheapInv'
<1>1. /\ UNCHANGED <<progress, uploadVars>>
      /\ txs[i].status = "pending"
  BY DEF MineTx, FailTx, NextTx
<1>2. UNCHANGED <<pc, job, left, batch, sent, confirmed>>
  BY <1>1 DEF uploadVars
<1>3. height \in Nat /\ height + 1 \in Nat
  BY DEF UploadInv, SentInv, TxsInv
<1>4. CASE MineTx(i)
  <2>1. Settle(i, "mined", height + 1) /\ faults' = faults /\ strays' = strays
    BY <1>4 DEF MineTx, counters
  <2>2. /\ \A k : Sent(k)' = Sent(k)
        /\ Apart' => Apart
        /\ \A j \in DOMAIN txs : j # i => txs'[j] = txs[j]
        /\ txs'[i].status = "mined"
    BY <1>3, <2>1, SettleCounts
  <2>3. pc = "wait" => sent \in DOMAIN txs
    BY DEF UploadInv, WaitInv
  <2>4. Flying' = Flying
    BY <1>1, <1>2, <2>2, <2>3 DEF Flying
  <2>5. Sends' = Sends /\ Budget' = Budget
    BY <2>1, <2>2 DEF Sends, Budget, Paid
  <2>6. Sends \in Nat /\ Budget \in Nat /\ Flying \in Nat
    BY CountTypes DEF Counted
  <2>7. Slack
    BY <2>4, <2>5, <2>6 DEF Slack
  <2>8. QED
    BY <1>1, <1>2, <2>2, <2>7, CheapKept
<1>5. CASE FailTx(i)
  <2>1. Settle(i, "failed", height) /\ faults' = faults + 1 /\ strays' = strays
    BY <1>5 DEF FailTx, Fault
  <2>2. (\A k : Sent(k)' = Sent(k)) /\ (Apart' => Apart)
    BY <1>3, <2>1, SettleCounts
  <2>3. PICK g \in Nat : g = Paid * MaxBatches
    BY CountTypes DEF Counted
  <2>4. /\ Budget = g + faults /\ Budget' = g + faults + 1 /\ faults \in Nat
        /\ Sends' = Sends /\ Sends \in Nat
    BY <2>1, <2>2, <2>3, CountTypes DEF Budget, Paid, Sends, Counted
  <2>5. Flying \in {0, 1} /\ Flying' \in {0, 1}
    BY DEF Flying
  <2>6. Slack
    BY <2>3, <2>4, <2>5 DEF Slack
  <2>7. QED
    BY <1>1, <1>2, <2>2, <2>6, CheapKept
<1>6. QED
  BY <1>4, <1>5

\* Another selection, the history, or nothing.
LEMMA CheapQuiet ==
    ASSUME UploadInv, UploadInv', CheapInv, UNCHANGED webUploadVars PROVE CheapInv'
<1>1. UNCHANGED <<txs, progress, pc, job, left, batch, sent, confirmed, faults, strays>>
  BY DEF webUploadVars, uploadVars
<1>2. Flying' = Flying
  BY <1>1 DEF Flying
<1>3. Slack /\ (Apart' => Apart)
  BY <1>1, <1>2, SameCounts
<1>4. QED
  BY <1>1, <1>3, CheapKept

LEMMA ResultStep == ResultInv /\ [Next]_vars => ResultInv'
<1> SUFFICES ASSUME ResultInv, [Next]_vars PROVE ResultInv'
  OBVIOUS
<1>1. CASE HandOver
  BY <1>1 DEF HandOver, ResultInv
<1>2. CASE UNCHANGED result
  BY <1>2 DEF ResultInv
<1>3. QED
  BY <1>1, <1>2 DEF Next, Start, Run, Complete, Mine, Disturb, History, vars, pageVars

LEMMA CheapStep ==
    ASSUME IInv, IInv', ResultInv, CheapInv, [Next]_vars
    PROVE  CheapInv'
<1>1. UploadInv /\ UploadInv'
  BY DEF IInv
<1>2. CASE HandOver \/ History \/ UNCHANGED vars
  <2>1. UNCHANGED webUploadVars
    BY <1>2 DEF HandOver, History, vars
  <2>2. QED
    BY <1>1, <2>1, CheapQuiet
<1>3. CASE Start
  BY <1>1, <1>3, CheapBegin
<1>4. CASE Run
  <2>1. CASE \/ FeeMined \/ BatchFails \/ MissingChunks \/ ManifestFails \/ CallFails
             \/ RetryBatch
    BY <1>1, <2>1, CheapGoto
  <2>2. CASE SendFee
    BY <1>1, <2>2, CheapFee
  <2>3. CASE StartBatches \/ SkipBatch \/ TakeBatch
    BY <1>1, <2>3, CheapBatches
  <2>4. CASE SendBatch \/ SendManifest
    BY <1>1, <2>4, CheapSend
  <2>5. CASE BatchConfirmed
    BY <1>1, <2>5, CheapConfirmed
  <2>6. QED
    BY <1>4, <2>1, <2>2, <2>3, <2>4, <2>5 DEF Run, UploadStep
<1>5. CASE Complete
  BY <1>1, <1>5, CheapGoto DEF Complete
<1>6. CASE Mine
  BY <1>1, <1>6, CheapChain DEF Mine, MineSome
<1>7. CASE Disturb
  <2>1. \/ TryAgain \/ Reload \/ DropProgress
        \/ OtherTx
        \/ \E i \in DOMAIN txs : FailTx(i)
    BY <1>7 DEF Disturb
  <2>2. QED
    BY <1>1, <2>1, CheapForget, CheapSend, CheapChain
<1>8. QED
  BY <1>2, <1>3, <1>4, <1>5, <1>6, <1>7 DEF Next

\* A batch is paid for again only after something went wrong: through any retries,
\* reloads and resumed uploads, the batches that were sent are no more than the
\* fees pay for, once each, one for every fault, and once more for every upload
\* that resumed the progress of other files with the same names.
THEOREM PageResumeIsCheap == Spec => []ResumeIsCheap
<1>1. Init => IInv /\ ResultInv /\ CheapInv
  BY InitInv, CheapStart, FaithStart DEF FaithInv
<1>2. IInv /\ ResultInv /\ CheapInv /\ [Next]_vars => (IInv /\ ResultInv /\ CheapInv)'
  BY IInvStep, ResultStep, CheapStep
<1>3. IInv /\ CheapInv => ResumeIsCheap
  <2> SUFFICES ASSUME UploadInv, CheapInv, Apart PROVE Sends <= Budget
    BY DEF IInv, ResumeIsCheap, Apart, Sends, Budget, Paid
  <2>1. Sends \in Nat /\ Budget \in Nat
    BY CountTypes DEF Counted
  <2>2. CASE Flying = 0
    BY <2>1, <2>2 DEF CheapInv
  <2>3. CASE Flying = 1
    <3>1. pc = "wait"
      BY <2>3 DEF Flying
    <3>2. PICK S \in Selections : CheapJob(S)
      BY <3>1 DEF CheapInv
    <3>3. Within(S, confirmed) /\ \E l \in Open(S, confirmed) : TRUE
      BY <3>1, <3>2 DEF CheapJob
    <3>4. PICK o \in Nat : o = Cardinality(Open(S, confirmed))
      BY OpenFacts
    <3>5. o # 0
      BY <3>3, <3>4, OpenFacts, FS_EmptySet
    <3>6. Sends + o <= Budget + 1
      BY <2>3, <3>3, <3>4 DEF Within
    <3>7. QED
      BY <2>1, <3>5, <3>6
  <2>4. QED
    BY <2>2, <2>3 DEF Flying
<1>4. QED
  BY <1>1, <1>2, <1>3, PTL DEF Spec
=============================================================================

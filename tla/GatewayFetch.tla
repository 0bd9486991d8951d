---------------------------- MODULE GatewayFetch ----------------------------
(***************************************************************************)
(* How the gateway reads content from the chain (gateway/rpc.go): a request *)
(* for one hash, with or without a block hint, tries the storage contracts *)
(* in order, each through every RPC node in order; only on the last        *)
(* contract does it search the chain backwards, window by window.          *)
(*                                                                         *)
(* Logs are filtered by contract and hash, so the chain is here the set of *)
(* the places where the content was stored.  Nodes follow the chain at     *)
(* their own pace and may fail any call.  Each call is a step of its own:  *)
(* the chain grows and nodes catch up in between.                          *)
(***************************************************************************)
EXTENDS Integers, FiniteSets

CONSTANTS
    NContracts,         \* ResolvedContractAddresses, in order
    NRpcs,              \* the RPC URLs of the chain, in order
    MaxBlockRange,      \* maxBlockRangeFor(chainId)
    WindowCap,          \* fallbackScanWindowCap
    HasIndex,           \* blockIndexByChain has the chain
    Hints,              \* block hints of requests; 0 is none
    FirstHeight,        \* bound: the height when the request comes
    MaxHeight,          \* bound: the height the chain may reach
    MaxLag,             \* bound: how far a node is behind at first
    MaxStores           \* bound: Store logs of the content

ASSUME FetchAssumption ==
    /\ NContracts \in Nat \ {0} /\ NRpcs \in Nat \ {0}
    /\ MaxBlockRange \in Nat \ {0} /\ WindowCap \in Nat \ {0}
    /\ HasIndex \in BOOLEAN /\ Hints \subseteq Nat
    /\ FirstHeight \in 0 .. MaxHeight
    /\ MaxHeight \in Nat /\ MaxLag \in Nat /\ MaxStores \in Nat

Contract == 1 .. NContracts
Node == 1 .. NRpcs

VARIABLES
    height,         \* the chain's latest block
    stored,         \* <<contract, block>> of the content's Store logs
    index,          \* the block the BlockIndex has for the hash, 0 if none
    head,           \* head[n]: the latest block node n knows
    pc,             \* what the request asks next; "idle", "found", "error"
    hint,           \* blockHint
    contract, rpc,  \* the loops of FetchContent
    toBlock, windows,   \* the loop of fetchFromRPC
    before,         \* what was stored, and
    known,          \* which blocks the nodes knew, when the request came
    top,            \* top[n]: the latest block n reported to this request
    sick,           \* the nodes that failed a call of this request
    calls           \* calls[n]: eth_getLogs calls made to n for this request

chainVars == <<height, stored, index, head>>
vars == <<chainVars, pc, hint, contract, rpc, toBlock, windows,
          before, known, top, sick, calls>>

Init == /\ height = FirstHeight
        /\ stored \in {{}} \union {{<<c, b>>} : c \in Contract, b \in 0 .. height}
        /\ index \in {0} \union {p[2] : p \in stored}
        /\ head \in [Node -> {b \in 0 .. height : b + MaxLag >= height}]
        /\ pc = "idle" /\ hint = 0 /\ contract = 1 /\ rpc = 1
        /\ toBlock = 0 /\ windows = 0
        /\ before = {} /\ known = [n \in Node |-> 0]
        /\ top = [n \in Node |-> 0] /\ sick = {}
        /\ calls = [n \in Node |-> 0]

-----------------------------------------------------------------------------
(* Calls *)

\* fetchLogsInRange on the node asked: is there a log of the contract?
Found(from, to) ==
    \E b \in from .. to : b <= head[rpc] /\ <<contract, b>> \in stored

IsLast == contract = NContracts

\* Where an attempt for contract c begins: with the hint, with the search, or,
\* for a contract that is not searched, nowhere.
Entry(c) == IF hint' > 0 THEN "hint" ELSE IF c = NContracts THEN "head" ELSE "skip"

Try(c, n) == /\ contract' = c /\ rpc' = n
             /\ pc' = Entry(c)
             /\ toBlock' = 0 /\ windows' = 0

\* The attempt with this contract and node gave no data: the next one, or the
\* request has failed.
NextAttempt ==
    /\ UNCHANGED hint
    /\ IF rpc < NRpcs THEN Try(contract, rpc + 1)
       ELSE IF contract < NContracts THEN Try(contract + 1, 1)
       ELSE pc' = "error" /\ UNCHANGED <<contract, rpc, toBlock, windows>>

Fail == sick' = sick \union {rpc}

Call == calls' = [calls EXCEPT ![rpc] = @ + 1]

Return == /\ pc' = "found"
          /\ UNCHANGED <<hint, contract, rpc, toBlock, windows>>

-----------------------------------------------------------------------------
(* FetchContent *)

\* A request comes; without a hint the BlockIndex is asked first.
Request(h) ==
    /\ pc = "idle"
    /\ hint' = h
    /\ IF h <= 0 /\ HasIndex
       THEN pc' = "index" /\ UNCHANGED <<contract, rpc, toBlock, windows>>
       ELSE Try(1, 1)
    /\ before' = stored /\ known' = head
    /\ UNCHANGED <<chainVars, top, sick, calls>>

\* lookupBlockOf: the first node that has a block for the hash decides.
LookupBlockOf ==
    /\ pc = "index" /\ index > 0
    /\ hint' = index
    /\ Try(1, 1)
    /\ UNCHANGED <<chainVars, before, known, top, sick, calls>>

\* The hash is not registered, the node does not know it yet, or the call
\* fails: all three count as 0.
LookupBlockOfFails ==
    /\ pc = "index"
    /\ UNCHANGED hint
    /\ IF rpc < NRpcs
       THEN rpc' = rpc + 1 /\ UNCHANGED <<pc, contract, toBlock, windows>>
       ELSE Try(1, 1)
    /\ UNCHANGED <<chainVars, before, known, top, sick, calls>>

\* fetchFromRPCBlockHintOnly without a hint: no data, no call.
Skip == /\ pc = "skip" /\ NextAttempt
        /\ UNCHANGED <<chainVars, before, known, top, sick, calls>>

\* The three blocks around the hint; on the last contract a miss is followed by
\* a search.
AskHint ==
    /\ pc = "hint" /\ Call
    /\ IF Found(hint - 1, hint + 1) THEN Return
       ELSE IF IsLast THEN /\ pc' = "head"
                           /\ UNCHANGED <<hint, contract, rpc, toBlock, windows>>
       ELSE NextAttempt
    /\ UNCHANGED <<chainVars, before, known, top, sick>>

\* getBlockNumber: where the search begins.
AskHead ==
    /\ pc = "head"
    /\ toBlock' = head[rpc] /\ windows' = 0
    /\ top' = [top EXCEPT ![rpc] = head[rpc]]
    /\ pc' = "scan"
    /\ UNCHANGED <<chainVars, hint, contract, rpc, before, known, sick, calls>>

\* The first block of the window that ends at toBlock.
WindowFrom == IF toBlock - MaxBlockRange + 1 < 0 THEN 0 ELSE toBlock - MaxBlockRange + 1

\* Faulty variant: the windows leave a block out between them.
ScanGap ==
    /\ pc = "scan" /\ Call
    /\ IF Found(WindowFrom, toBlock) THEN Return
       ELSE IF WindowFrom <= 1 \/ windows + 1 >= WindowCap THEN NextAttempt
       ELSE /\ toBlock' = WindowFrom - 2
            /\ windows' = windows + 1
            /\ UNCHANGED <<pc, hint, contract, rpc>>
    /\ UNCHANGED <<chainVars, before, known, top, sick>>

\* Faulty variant: nothing but the first block ends the search.
ScanUncapped ==
    /\ pc = "scan" /\ Call
    /\ IF Found(WindowFrom, toBlock) THEN Return
       ELSE IF WindowFrom = 0 THEN NextAttempt
       ELSE /\ toBlock' = WindowFrom - 1
            /\ windows' = windows + 1
            /\ UNCHANGED <<pc, hint, contract, rpc>>
    /\ UNCHANGED <<chainVars, before, known, top, sick>>

\* One window of the search, which ends at block 0 or after WindowCap windows.
Scan ==
    /\ pc = "scan" /\ Call
    /\ IF Found(WindowFrom, toBlock) THEN Return
       ELSE IF WindowFrom = 0 \/ windows + 1 >= WindowCap THEN NextAttempt
       ELSE /\ toBlock' = WindowFrom - 1
            /\ windows' = windows + 1
            /\ UNCHANGED <<pc, hint, contract, rpc>>
    /\ UNCHANGED <<chainVars, before, known, top, sick>>

\* The node cannot be reached or answers an error: the attempt is over.
CallFails ==
    /\ pc \in {"hint", "head", "scan"}
    /\ Fail /\ NextAttempt
    /\ IF pc = "head" THEN UNCHANGED calls ELSE Call
    /\ UNCHANGED <<chainVars, before, known, top>>

-----------------------------------------------------------------------------
(* The chain *)

\* What the chain does before and after the request is left out.
Running == pc \notin {"idle", "found", "error"}

\* A block is added; the content may be stored in it once more.
Grow ==
    /\ Running /\ height < MaxHeight /\ height' = height + 1
    /\ \/ UNCHANGED stored
       \/ /\ Cardinality(stored) < MaxStores
          /\ \E c \in Contract : stored' = stored \union {<<c, height + 1>>}
    /\ UNCHANGED <<index, head, pc, hint, contract, rpc, toBlock, windows,
                   before, known, top, sick, calls>>

\* A node learns of new blocks.
Sync(n) ==
    /\ Running /\ head[n] < height
    /\ head' = [head EXCEPT ![n] = height]
    /\ UNCHANGED <<height, stored, index, pc, hint, contract, rpc, toBlock,
                   windows, before, known, top, sick, calls>>

Step == \/ LookupBlockOf \/ LookupBlockOfFails \/ Skip
        \/ AskHint \/ AskHead \/ Scan \/ CallFails

Next == \/ \E h \in Hints : Request(h)
        \/ Step
        \/ Grow
        \/ \E n \in Node : Sync(n)

Spec == Init /\ [][Next]_vars

-----------------------------------------------------------------------------
(* Properties *)

\* Types, and: a search is for the last contract only.
TypeOK ==
    /\ height \in 0 .. MaxHeight
    /\ stored \subseteq Contract \X (0 .. height)
    /\ index \in 0 .. height
    /\ head \in [Node -> 0 .. height]
    /\ pc \in {"idle", "index", "skip", "hint", "head", "scan", "found", "error"}
    /\ hint \in Nat /\ contract \in Contract /\ rpc \in Node
    /\ toBlock \in 0 .. height /\ windows \in 0 .. WindowCap - 1
    /\ before \subseteq stored
    /\ known \in [Node -> 0 .. height] /\ top \in [Node -> 0 .. height]
    /\ sick \subseteq Node /\ calls \in [Node -> Nat]
    /\ pc \in {"head", "scan"} => IsLast

\* Node n can lead the request to a log at block b of contract c: it is next to
\* the hint, or the search covers it.
InReach(n, c, b) ==
    \/ hint > 0 /\ b \in hint - 1 .. hint + 1
    \/ c = NContracts /\ b > top[n] - WindowCap * MaxBlockRange

\* A request fails only if no node that answered all its calls knew, when the
\* request came, of content within reach: one healthy node is enough, whatever
\* the others do and however the chain grows meanwhile.
OneHealthyNodeSuffices ==
    pc = "error" =>
        \A n \in Node \ sick : \A p \in before :
            ~(p[2] <= known[n] /\ InReach(n, p[1], p[2]))

\* A request costs a node at most one call per contract, if there is a hint, and
\* the windows of one search: "Full chain scan runs only on the LAST address".
CallBudget ==
    \A n \in Node :
        calls[n] <= (IF hint > 0 THEN NContracts ELSE 0) + WindowCap
=============================================================================

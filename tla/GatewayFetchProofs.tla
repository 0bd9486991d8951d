------------------------ MODULE GatewayFetchProofs -------------------------
(***************************************************************************)
(* Proofs about GatewayFetch, for any number of contracts and nodes, any   *)
(* window and any chain: a request that fails has been to every node, and  *)
(* none that answered could have led it to what was there when it came;    *)
(* and no node is asked more often than the budget allows.                 *)
(*                                                                         *)
(* Neither property is inductive.  TriedInv says of the attempts that are  *)
(* over, and HereInv of the calls of the one that is under way, what they  *)
(* have ruled out; BudgetInv counts the calls the attempts have made.      *)
(***************************************************************************)
EXTENDS GatewayFetch, TLAPS

Attempting == pc \in {"skip", "hint", "head", "scan"}

\* The attempt with contract c and node n is over.
Tried(n, c) == \/ pc = "error"
               \/ Attempting /\ (c < contract \/ (c = contract /\ n < rpc))

\* Nothing the node knew of was within reach.
Missed(n, c) == \A p \in before : p[1] = c /\ p[2] <= known[n] => ~InReach(n, c, p[2])

TriedInv == \A n \in Node \ sick, c \in Contract : Tried(n, c) => Missed(n, c)

\* What the node asked knew of the contract when the request came.
Here == {p \in before : p[1] = contract /\ p[2] <= known[rpc]}

HereInv ==
    /\ pc = "skip" => ~(hint > 0) /\ contract # NContracts
    /\ pc = "hint" => hint > 0
    /\ pc \in {"head", "scan"} /\ hint > 0 =>
            \A p \in Here : p[2] \notin hint - 1 .. hint + 1
    /\ pc = "scan" => /\ known[rpc] <= top[rpc]
                      /\ toBlock = top[rpc] - windows * MaxBlockRange
                      /\ \A p \in Here : p[2] <= toBlock

KnownInv == \A n \in Node : known[n] <= head[n]

\* The calls made to n with the hint, and by its search.
HintCalls(n) == IF hint > 0
                THEN IF n < rpc \/ (n = rpc /\ pc \in {"head", "scan"})
                     THEN contract ELSE contract - 1
                ELSE 0
ScanCalls(n) == IF contract = NContracts /\ n < rpc THEN WindowCap
                ELSE IF n = rpc /\ pc = "scan" THEN windows ELSE 0

BudgetInv ==
    /\ pc \in {"idle", "index"} => \A n \in Node : calls[n] = 0
    /\ Attempting => \A n \in Node : calls[n] <= HintCalls(n) + ScanCalls(n)
    /\ pc \in {"found", "error"} => CallBudget

IInv == TypeOK /\ TriedInv /\ HereInv /\ KnownInv /\ BudgetInv

-----------------------------------------------------------------------------
(* Types *)

LEMMA TypeInit == Init => TypeOK
<1> SUFFICES ASSUME Init PROVE TypeOK
  OBVIOUS
<1> USE FetchAssumption DEF Init, Contract, Node
<1>1. height \in 0 .. MaxHeight
  OBVIOUS
<1>2. stored \subseteq Contract \X (0 .. height)
  OBVIOUS
<1>3. index \in 0 .. height
  <2>1. CASE index = 0
    BY <1>1, <2>1
  <2>2. ASSUME NEW p \in stored, index = p[2] PROVE index \in 0 .. height
    BY <1>2, <2>2
  <2>3. QED
    BY <2>1, <2>2
<1>4. head \in [Node -> 0 .. height]
  OBVIOUS
<1>5. QED
  BY <1>1, <1>2, <1>3, <1>4 DEF TypeOK, IsLast

\* Numbers of contracts, nodes and windows.
LEMMA Numbers ==
    ASSUME TypeOK
    PROVE  /\ NContracts \in Nat /\ NRpcs \in Nat /\ WindowCap \in Nat /\ WindowCap > 0
           /\ contract \in Nat /\ 1 <= contract /\ contract <= NContracts
           /\ rpc \in Nat /\ 1 <= rpc /\ rpc <= NRpcs
           /\ \A n \in Node : n \in Nat /\ 1 <= n /\ n <= NRpcs
           /\ \A c \in Contract : c \in Nat /\ 1 <= c /\ c <= NContracts
           /\ \A n \in Nat : 1 <= n /\ n <= NRpcs => n \in Node
           /\ \A c \in Nat : 1 <= c /\ c <= NContracts => c \in Contract
           /\ windows \in Nat /\ windows + 1 <= WindowCap
           /\ 0 \in 0 .. height /\ 0 \in 0 .. WindowCap - 1
           /\ hint \in Nat
<1>1. /\ NContracts \in Nat /\ NRpcs \in Nat /\ WindowCap \in Nat /\ WindowCap > 0
  BY FetchAssumption
<1>2. /\ contract \in Contract /\ rpc \in Node /\ windows \in 0 .. WindowCap - 1
      /\ height \in 0 .. MaxHeight /\ hint \in Nat /\ MaxHeight \in Nat
  BY FetchAssumption DEF TypeOK
<1>3. windows \in Nat /\ windows + 1 <= WindowCap
  BY <1>1, <1>2
<1>4. 0 \in 0 .. height /\ 0 \in 0 .. WindowCap - 1
  BY <1>1, <1>2
<1>5. QED
  BY <1>1, <1>2, <1>3, <1>4 DEF Contract, Node

\* Where the next attempt goes.
LEMMA NextAttemptLemma ==
    ASSUME TypeOK, NextAttempt
    PROVE  /\ hint' = hint
           /\ \/ /\ rpc < NRpcs /\ contract' = contract /\ rpc' = rpc + 1
                 /\ pc' = Entry(contract) /\ toBlock' = 0 /\ windows' = 0
              \/ /\ rpc = NRpcs /\ contract < NContracts
                 /\ contract' = contract + 1 /\ rpc' = 1
                 /\ pc' = Entry(contract + 1) /\ toBlock' = 0 /\ windows' = 0
              \/ /\ rpc = NRpcs /\ contract = NContracts /\ pc' = "error"
                 /\ UNCHANGED <<contract, rpc, toBlock, windows>>
BY FetchAssumption DEF TypeOK, NextAttempt, Try, Contract, Node

LEMMA NextAttemptType ==
    ASSUME TypeOK, NextAttempt, UNCHANGED <<chainVars, before, known, top>>,
           sick' \subseteq Node, calls' \in [Node -> Nat]
    PROVE  TypeOK'
<1>1. /\ hint' = hint /\ contract' \in Contract /\ rpc' \in Node
      /\ toBlock' \in 0 .. height /\ windows' \in 0 .. WindowCap - 1
      /\ \/ pc' = "error"
         \/ pc' = Entry(contract')
  <2>1. /\ rpc < NRpcs => rpc + 1 \in Node
        /\ contract < NContracts => contract + 1 \in Contract
        /\ 1 \in Node /\ contract \in Contract /\ rpc \in Node
        /\ 0 \in 0 .. height /\ 0 \in 0 .. WindowCap - 1
        /\ toBlock \in 0 .. height /\ windows \in 0 .. WindowCap - 1
    BY Numbers DEF TypeOK
  <2>2. QED
    BY <2>1, NextAttemptLemma DEF Entry
<1>2. /\ pc' \in {"skip", "hint", "head", "error"}
      /\ pc' = "head" => contract' = NContracts
  BY <1>1 DEF Entry
<1>3. QED
  BY <1>1, <1>2 DEF TypeOK, IsLast, chainVars

LEMMA CallType == ASSUME TypeOK, Call PROVE calls' \in [Node -> Nat]
BY DEF TypeOK, Call

LEMMA FirstTry ==
    ASSUME TypeOK, Try(1, 1), hint' \in Nat,
           UNCHANGED <<chainVars, top, sick, calls>>,
           before' \subseteq stored, known' \in [Node -> 0 .. height]
    PROVE  /\ TypeOK' /\ contract' = 1 /\ rpc' = 1
           /\ pc' \in {"hint", "head", "skip"}
           /\ pc' = "head" => ~(hint' > 0)
           /\ pc' = "skip" => ~(hint' > 0) /\ contract' # NContracts
           /\ pc' = "hint" => hint' > 0
<1>1. /\ contract' = 1 /\ rpc' = 1 /\ toBlock' = 0 /\ windows' = 0
      /\ pc' \in {"hint", "head", "skip"}
      /\ pc' = "head" => NContracts = 1 /\ ~(hint' > 0)
      /\ pc' = "skip" => ~(hint' > 0) /\ contract' # NContracts
      /\ pc' = "hint" => hint' > 0
  BY DEF Try, Entry
<1>2. 1 \in Contract /\ 1 \in Node /\ 0 \in 0 .. height /\ 0 \in 0 .. WindowCap - 1
  BY FetchAssumption DEF TypeOK, Contract, Node
<1>3. TypeOK'
  BY <1>1, <1>2 DEF TypeOK, IsLast, chainVars
<1>4. QED
  BY <1>1, <1>3

-----------------------------------------------------------------------------
(* Steps of the request *)

LEMMA InitInv == Init => IInv
<1> SUFFICES ASSUME Init PROVE IInv
  OBVIOUS
<1>1. TypeOK
  BY TypeInit
<1>2. pc = "idle" /\ calls = [n \in Node |-> 0] /\ known = [n \in Node |-> 0]
  BY DEF Init
<1>3. TriedInv /\ HereInv
  BY <1>2 DEF TriedInv, HereInv, Tried, Attempting
<1>4. KnownInv
  BY <1>1, <1>2 DEF KnownInv, TypeOK
<1>5. BudgetInv
  BY <1>2 DEF BudgetInv, Attempting
<1>6. QED
  BY <1>1, <1>3, <1>4, <1>5 DEF IInv

\* The first attempt begins, and nothing has been asked before it.
LEMMA FirstTryInv ==
    ASSUME IInv, Try(1, 1), hint' \in Nat, UNCHANGED <<chainVars, top, sick, calls>>,
           pc \in {"idle", "index"}, before' \subseteq stored,
           known' \in [Node -> 0 .. height], \A n \in Node : known'[n] <= head[n]
    PROVE  IInv'
<1>1. /\ TypeOK' /\ contract' = 1 /\ rpc' = 1 /\ pc' \in {"hint", "head", "skip"}
      /\ pc' = "head" => ~(hint' > 0)
      /\ pc' = "skip" => ~(hint' > 0) /\ contract' # NContracts
      /\ pc' = "hint" => hint' > 0
  BY FirstTry DEF IInv
<1>2. TriedInv'
  BY <1>1 DEF TriedInv, Tried, Contract, Node, Attempting
<1>3. HereInv'
  BY <1>1 DEF HereInv
<1>4. KnownInv'
  BY DEF KnownInv, chainVars
<1>5. BudgetInv'
  <2>1. \A n \in Node : calls'[n] = 0
    BY DEF IInv, BudgetInv
  <2>2. \A n \in Node : ~(n < 1)
    BY DEF Node
  <2>3. \A n \in Node : HintCalls(n)' = 0 /\ ScanCalls(n)' = 0
    BY <1>1, <2>2 DEF HintCalls, ScanCalls
  <2>4. pc' \notin {"idle", "index", "found", "error"}
    BY <1>1
  <2>5. QED
    BY <2>1, <2>3, <2>4 DEF BudgetInv
<1>6. QED
  BY <1>1, <1>2, <1>3, <1>4, <1>5 DEF IInv

\* The request is still before its first attempt.
LEMMA IndexInv ==
    ASSUME IInv, TypeOK', pc \in {"idle", "index"}, pc' = "index",
           UNCHANGED <<chainVars, top, sick, calls>>, \A n \in Node : known'[n] <= head[n]
    PROVE  IInv'
<1>1. TriedInv' /\ HereInv'
  BY DEF TriedInv, HereInv, Tried, Attempting
<1>2. KnownInv'
  BY DEF KnownInv, chainVars
<1>3. BudgetInv'
  BY DEF IInv, BudgetInv, Attempting
<1>4. QED
  BY <1>1, <1>2, <1>3 DEF IInv

LEMMA RequestInv == ASSUME IInv, NEW h \in Hints, Request(h) PROVE IInv'
<1>1. /\ pc = "idle" /\ hint' = h /\ h \in Nat /\ before' = stored /\ known' = head
      /\ UNCHANGED <<chainVars, top, sick, calls>>
  BY FetchAssumption DEF Request
<1>2. head \in [Node -> 0 .. height] /\ \A n \in Node : known'[n] <= head[n]
  BY <1>1 DEF IInv, TypeOK
<1>3. CASE Try(1, 1)
  BY <1>1, <1>2, <1>3, FirstTryInv
<1>4. CASE pc' = "index" /\ UNCHANGED <<contract, rpc, toBlock, windows>>
  <2>1. TypeOK'
    BY <1>1, <1>2, <1>4 DEF IInv, TypeOK, chainVars, IsLast
  <2>2. QED
    BY <1>1, <1>2, <1>4, <2>1, IndexInv
<1>5. QED
  BY <1>3, <1>4 DEF Request

LEMMA LookupInv == IInv /\ (LookupBlockOf \/ LookupBlockOfFails) => IInv'
<1> SUFFICES ASSUME IInv, LookupBlockOf \/ LookupBlockOfFails PROVE IInv'
  OBVIOUS
<1>1. /\ pc = "index" /\ UNCHANGED <<chainVars, before, known, top, sick, calls>>
      /\ hint' = index \/ hint' = hint
  BY DEF LookupBlockOf, LookupBlockOfFails
<1>2. /\ hint' \in Nat /\ before \subseteq stored /\ known \in [Node -> 0 .. height]
      /\ \A n \in Node : known[n] <= head[n]
  BY <1>1 DEF IInv, TypeOK, KnownInv
<1>3. CASE Try(1, 1)
  BY <1>1, <1>2, <1>3, FirstTryInv
<1>4. CASE /\ rpc < NRpcs /\ hint' = hint
           /\ rpc' = rpc + 1 /\ UNCHANGED <<pc, contract, toBlock, windows>>
  <2>1. TypeOK'
    <3>1. rpc + 1 \in Node
      BY <1>4, Numbers DEF IInv
    <3>2. QED
      BY <1>1, <1>4, <3>1 DEF IInv, TypeOK, chainVars, IsLast
  <2>2. QED
    BY <1>1, <1>2, <1>4, <2>1, IndexInv
<1>5. QED
  BY <1>3, <1>4 DEF LookupBlockOf, LookupBlockOfFails

\* An attempt is over: either its node failed a call, or nothing the node knew
\* of was within reach.
LEMMA AttemptOver ==
    ASSUME IInv, Attempting, NextAttempt,
           UNCHANGED <<chainVars, before, known, top>>,
           sick \subseteq sick', sick' \subseteq Node,
           rpc \in sick' \/ Missed(rpc, contract),
           calls' \in [Node -> Nat],
           \A n \in Node \ {rpc} : calls'[n] = calls[n],
           calls'[rpc] <= (IF hint > 0 THEN contract ELSE 0)
                            + (IF contract = NContracts THEN WindowCap ELSE 0)
    PROVE  IInv'
<1>1. TypeOK'
  BY NextAttemptType DEF IInv
<1>2. /\ NContracts \in Nat /\ NRpcs \in Nat /\ WindowCap \in Nat
      /\ contract \in Nat /\ 1 <= contract /\ contract <= NContracts
      /\ rpc \in Nat /\ 1 <= rpc /\ rpc <= NRpcs /\ rpc \in Node
      /\ windows \in Nat /\ windows + 1 <= WindowCap /\ hint \in Nat
      /\ \A n \in Node : n \in Nat /\ 1 <= n /\ n <= NRpcs
      /\ \A c \in Contract : c \in Nat /\ 1 <= c /\ c <= NContracts
  BY Numbers DEF IInv, TypeOK
<1>3. ASSUME NEW n \in Node, NEW c \in Contract, Tried(n, c)'
      PROVE  Tried(n, c) \/ (n = rpc /\ c = contract)
  <2>1. /\ n \in Nat /\ 1 <= n /\ n <= NRpcs /\ c \in Nat /\ c <= NContracts
    BY <1>2
  <2>2. TypeOK
    BY DEF IInv
  <2>3. c < contract \/ (c = contract /\ n < rpc) \/ (n = rpc /\ c = contract)
    <3>1. CASE rpc < NRpcs /\ contract' = contract /\ rpc' = rpc + 1 /\ pc' # "error"
      BY <1>2, <1>3, <2>1, <3>1 DEF Tried
    <3>2. CASE contract' = contract + 1 /\ rpc' = 1 /\ rpc = NRpcs /\ pc' # "error"
      BY <1>2, <1>3, <2>1, <3>2 DEF Tried
    <3>3. CASE rpc = NRpcs /\ contract = NContracts
      BY <1>2, <2>1, <3>3
    <3>4. Entry(contract) # "error" /\ Entry(contract + 1) # "error"
      BY DEF Entry
    <3>5. QED
      BY <2>2, <3>1, <3>2, <3>3, <3>4, NextAttemptLemma
  <2>4. QED
    BY <2>3 DEF Tried
<1>4. /\ \A n \in Node, c \in Contract : Missed(n, c)' <=> Missed(n, c)
  BY NextAttemptLemma DEF Missed, InReach, IInv
<1>5. TriedInv'
  BY <1>3, <1>4 DEF TriedInv, IInv
<1>6. HereInv'
  BY NextAttemptLemma DEF HereInv, Entry, IInv
<1>7. KnownInv'
  BY DEF KnownInv, IInv, chainVars
<1>8. BudgetInv'
  <2>1. \A n \in Node : calls[n] <= HintCalls(n) + ScanCalls(n)
    BY DEF IInv, BudgetInv
  <2>2. \A n \in Node : calls[n] \in Nat /\ calls'[n] \in Nat
    BY DEF IInv, TypeOK
  <2>3. CASE /\ rpc < NRpcs /\ contract' = contract /\ rpc' = rpc + 1
             /\ pc' = Entry(contract) /\ hint' = hint
    <3>1. pc' \in {"hint", "head", "skip"}
      BY <2>3 DEF Entry
    <3>2. ASSUME NEW n \in Node PROVE calls'[n] <= HintCalls(n)' + ScanCalls(n)'
      <4>1. CASE n = rpc
        BY <1>2, <2>2, <2>3, <3>1, <4>1 DEF HintCalls, ScanCalls
      <4>2. CASE n # rpc
        <5>1. calls'[n] = calls[n] /\ calls[n] <= HintCalls(n) + ScanCalls(n)
          BY <2>1, <4>2
        <5>2. HintCalls(n) <= HintCalls(n)' /\ ScanCalls(n) <= ScanCalls(n)'
          <6>1. HintCalls(n) <= HintCalls(n)'
            BY <1>2, <2>3, <3>1, <4>2 DEF HintCalls
          <6>2. ScanCalls(n) <= ScanCalls(n)'
            <7>1. n < rpc => n < rpc + 1
              BY <1>2
            <7>2. pc' # "scan"
              BY <3>1
            <7>3. ScanCalls(n) = IF contract = NContracts /\ n < rpc THEN WindowCap ELSE 0
              BY <4>2 DEF ScanCalls
            <7>4. ScanCalls(n)' = IF contract = NContracts /\ n < rpc + 1 THEN WindowCap ELSE 0
              BY <2>3, <7>2 DEF ScanCalls
            <7>5. QED
              BY <1>2, <7>1, <7>3, <7>4
          <6>3. QED
            BY <6>1, <6>2
        <5>3. /\ HintCalls(n) \in Int /\ HintCalls(n)' \in Int
              /\ ScanCalls(n) \in Int /\ ScanCalls(n)' \in Int
          BY <1>2, <2>3, <3>1, <4>2 DEF HintCalls, ScanCalls
        <5>4. QED
          BY <2>2, <5>1, <5>2, <5>3
      <4>3. QED
        BY <4>1, <4>2
    <3>3. QED
      BY <3>1, <3>2 DEF BudgetInv
  <2>4. CASE /\ rpc = NRpcs /\ contract < NContracts /\ contract' = contract + 1
             /\ rpc' = 1 /\ pc' = Entry(contract + 1) /\ hint' = hint
    <3>1. pc' \in {"hint", "head", "skip"} /\ (pc' = "head" => ~(hint > 0))
      BY <2>4 DEF Entry
    <3>2. ASSUME NEW n \in Node PROVE calls'[n] <= HintCalls(n)' + ScanCalls(n)'
      <4>1. calls'[n] <= (IF hint > 0 THEN contract ELSE 0)
        <5>1. CASE n = rpc
          BY <1>2, <2>2, <2>4, <5>1
        <5>2. CASE n # rpc
          <6>1. n < rpc /\ calls'[n] = calls[n]
            BY <1>2, <2>4, <5>2
          <6>2. /\ HintCalls(n) = (IF hint > 0 THEN contract ELSE 0)
                /\ ScanCalls(n) = 0
            BY <1>2, <2>4, <6>1 DEF HintCalls, ScanCalls
          <6>3. QED
            BY <1>2, <2>1, <2>2, <6>1, <6>2
        <5>3. QED
          BY <5>1, <5>2
      <4>2. /\ HintCalls(n)' = (IF hint > 0 THEN contract ELSE 0)
            /\ ScanCalls(n)' = 0
        BY <1>2, <2>4, <3>1 DEF HintCalls, ScanCalls
      <4>3. QED
        BY <1>2, <2>2, <4>1, <4>2
    <3>3. QED
      BY <3>1, <3>2 DEF BudgetInv
  <2>5. CASE /\ rpc = NRpcs /\ contract = NContracts /\ pc' = "error" /\ hint' = hint
    <3>1. ASSUME NEW n \in Node
          PROVE  calls'[n] <= (IF hint > 0 THEN NContracts ELSE 0) + WindowCap
      <4>1. CASE n = rpc
        BY <1>2, <2>2, <2>5, <4>1
      <4>2. CASE n # rpc
        <5>1. n < rpc /\ calls'[n] = calls[n]
          BY <1>2, <2>5, <4>2
        <5>2. /\ HintCalls(n) = (IF hint > 0 THEN contract ELSE 0)
              /\ ScanCalls(n) = WindowCap
          BY <1>2, <2>5, <5>1 DEF HintCalls, ScanCalls
        <5>3. QED
          BY <1>2, <2>1, <2>2, <2>5, <5>1, <5>2
      <4>3. QED
        BY <4>1, <4>2
    <3>2. CallBudget'
      BY <2>5, <3>1 DEF CallBudget
    <3>3. QED
      BY <2>5, <3>2 DEF BudgetInv, Attempting
  <2>6. QED
    BY <2>3, <2>4, <2>5, NextAttemptLemma DEF IInv
<1>9. QED
  BY <1>1, <1>5, <1>6, <1>7, <1>8 DEF IInv

\* A step of the request within an attempt.
LEMMA HintMissed ==
    ASSUME IInv, pc = "hint", ~Found(hint - 1, hint + 1)
    PROVE  \A p \in Here : p[2] \notin hint - 1 .. hint + 1
<1> SUFFICES ASSUME NEW p \in Here, p[2] \in hint - 1 .. hint + 1 PROVE FALSE
  OBVIOUS
<1>1. /\ p \in stored /\ p[1] = contract /\ p[2] <= known[rpc] /\ rpc \in Node
      /\ p = <<p[1], p[2]>> /\ p[2] \in Nat
  BY FetchAssumption DEF Here, IInv, TypeOK
<1>2. known[rpc] <= head[rpc] /\ known[rpc] \in Nat /\ head[rpc] \in Nat
  BY <1>1, FetchAssumption DEF IInv, TypeOK, KnownInv
<1>3. p[2] <= head[rpc] /\ <<contract, p[2]>> \in stored
  BY <1>1, <1>2
<1>4. QED
  BY <1>3 DEF Found

LEMMA SkipInv == IInv /\ Skip => IInv'
<1> SUFFICES ASSUME IInv, Skip PROVE IInv'
  OBVIOUS
<1>1. /\ pc = "skip" /\ Attempting /\ NextAttempt
      /\ UNCHANGED <<chainVars, before, known, top, sick, calls>>
  BY DEF Skip, Attempting
<1>2. ~(hint > 0) /\ contract # NContracts
  BY <1>1 DEF IInv, HereInv
<1>3. Missed(rpc, contract)
  BY <1>2 DEF Missed, InReach
<1>4. /\ calls' \in [Node -> Nat] /\ sick' \subseteq Node /\ rpc \in Node
  BY <1>1 DEF IInv, TypeOK
<1>5. calls[rpc] <= HintCalls(rpc) + ScanCalls(rpc)
  BY <1>1, <1>4 DEF IInv, BudgetInv
<1>6. HintCalls(rpc) = 0 /\ ScanCalls(rpc) = 0
  BY <1>1, <1>2 DEF HintCalls, ScanCalls
<1>7. calls'[rpc] <= (IF hint > 0 THEN contract ELSE 0)
                      + (IF contract = NContracts THEN WindowCap ELSE 0)
  BY <1>1, <1>2, <1>5, <1>6
<1>8. QED
  BY <1>1, <1>3, <1>4, <1>7, AttemptOver

\* What the calls of the attempt cost its node.
LEMMA CallCount ==
    ASSUME IInv, Attempting, Call
    PROVE  /\ calls' \in [Node -> Nat]
           /\ \A n \in Node \ {rpc} : calls'[n] = calls[n]
           /\ rpc \in Node
           /\ calls'[rpc] = calls[rpc] + 1 /\ calls[rpc] \in Nat
           /\ calls[rpc] <= HintCalls(rpc) + ScanCalls(rpc)
BY DEF IInv, TypeOK, Call, BudgetInv

\* Facts of a step that stays with its attempt or ends the request.
LEMMA Untried ==
    ASSUME IInv, UNCHANGED <<hint, contract, rpc, before, known>>,
           Attempting, pc' \in {"head", "scan", "found"}, sick \subseteq sick',
           \A n \in Node : top'[n] = top[n] \/ (n = rpc /\ contract = NContracts)
    PROVE  TriedInv'
<1> SUFFICES ASSUME NEW n \in Node \ sick', NEW c \in Contract, Tried(n, c)'
             PROVE  Missed(n, c)'
  BY DEF TriedInv
<1>1. Tried(n, c) /\ n \notin sick
  BY DEF Tried, Attempting
<1>2. c < contract \/ (c = contract /\ n < rpc)
  BY DEF Tried, Attempting
<1>3. Missed(n, c)
  BY <1>1 DEF IInv, TriedInv
<1>4. top'[n] = top[n] \/ c # NContracts
  <2>1. TypeOK
    BY DEF IInv
  <2>2. /\ contract \in Nat /\ rpc \in Nat /\ n \in Nat /\ c \in Nat
    BY <2>1, Numbers
  <2>3. n = rpc => c < contract
    BY <1>2, <2>2
  <2>4. QED
    BY <2>2, <2>3
<1>5. QED
  BY <1>3, <1>4 DEF Missed, InReach

LEMMA AskHintInv == IInv /\ AskHint => IInv'
<1> SUFFICES ASSUME IInv, AskHint PROVE IInv'
  OBVIOUS
<1>1. /\ pc = "hint" /\ Attempting /\ Call /\ hint > 0
      /\ UNCHANGED <<chainVars, before, known, top, sick>>
  BY DEF AskHint, Attempting, IInv, HereInv
<1>2. /\ calls' \in [Node -> Nat] /\ \A n \in Node \ {rpc} : calls'[n] = calls[n]
      /\ rpc \in Node /\ calls'[rpc] = calls[rpc] + 1 /\ calls[rpc] \in Nat
      /\ calls[rpc] <= HintCalls(rpc) + ScanCalls(rpc)
  BY <1>1, CallCount
<1>3. TypeOK /\ KnownInv /\ KnownInv'
  BY <1>1 DEF IInv, KnownInv, chainVars
<1>4. /\ NContracts \in Nat /\ WindowCap \in Nat /\ contract \in Nat /\ rpc \in Nat
      /\ 1 <= contract /\ contract <= NContracts
      /\ \A n \in Node : n \in Nat
  BY <1>3, Numbers
<1>5. calls'[rpc] <= contract
  <2>1. HintCalls(rpc) = contract - 1 /\ ScanCalls(rpc) = 0
    BY <1>1, <1>4 DEF HintCalls, ScanCalls
  <2>2. QED
    BY <1>2, <1>4, <2>1
<1>6. CASE Found(hint - 1, hint + 1) /\ Return
  <2>1. /\ pc' = "found" /\ UNCHANGED <<hint, contract, rpc, toBlock, windows>>
    BY <1>6 DEF Return
  <2>2. TypeOK' /\ HereInv'
    BY <1>1, <1>2, <1>3, <2>1 DEF TypeOK, HereInv, chainVars, IsLast
  <2>3. TriedInv'
    BY <1>1, <2>1, Untried
  <2>4. ASSUME NEW n \in Node
        PROVE  calls'[n] <= (IF hint > 0 THEN NContracts ELSE 0) + WindowCap
    <3>1. CASE n = rpc
      BY <1>1, <1>2, <1>4, <1>5, <3>1
    <3>2. CASE n # rpc
      <4>1. calls'[n] = calls[n] /\ calls[n] <= HintCalls(n) + ScanCalls(n)
        BY <1>1, <1>2, <3>2 DEF IInv, BudgetInv
      <4>2. calls[n] \in Nat /\ n \in Nat
        BY <1>3, <1>4 DEF TypeOK
      <4>3. /\ HintCalls(n) \in Nat /\ HintCalls(n) <= NContracts
            /\ ScanCalls(n) \in Nat /\ ScanCalls(n) <= WindowCap
        BY <1>1, <1>4, <3>2, <4>2 DEF HintCalls, ScanCalls
      <4>4. QED
        BY <1>1, <1>4, <4>1, <4>2, <4>3
    <3>3. QED
      BY <3>1, <3>2
  <2>5. BudgetInv'
    BY <2>1, <2>4 DEF BudgetInv, CallBudget, Attempting
  <2>6. QED
    BY <1>3, <2>2, <2>3, <2>5 DEF IInv
<1>7. CASE /\ ~Found(hint - 1, hint + 1) /\ IsLast /\ pc' = "head"
           /\ UNCHANGED <<hint, contract, rpc, toBlock, windows>>
  <2>1. TypeOK'
    BY <1>1, <1>2, <1>3, <1>7 DEF TypeOK, chainVars, IsLast
  <2>2. HereInv'
    BY <1>1, <1>7, HintMissed DEF HereInv, Here
  <2>3. TriedInv'
    BY <1>1, <1>7, Untried
  <2>4. ASSUME NEW n \in Node PROVE calls'[n] <= HintCalls(n)' + ScanCalls(n)'
    <3>1. n \in Nat
      BY <1>4
    <3>2. CASE n = rpc
      <4>1. HintCalls(n)' = contract /\ ScanCalls(n)' = 0
        BY <1>1, <1>4, <1>7, <3>2 DEF HintCalls, ScanCalls
      <4>2. QED
        BY <1>4, <1>5, <3>2, <4>1
    <3>3. CASE n # rpc
      <4>1. HintCalls(n)' = HintCalls(n) /\ ScanCalls(n)' = ScanCalls(n)
        BY <1>7, <3>3 DEF HintCalls, ScanCalls
      <4>2. QED
        BY <1>1, <1>2, <3>3, <4>1 DEF IInv, BudgetInv
    <3>4. QED
      BY <3>2, <3>3
  <2>5. BudgetInv'
    BY <1>7, <2>4 DEF BudgetInv
  <2>6. QED
    BY <1>3, <2>1, <2>2, <2>3, <2>5 DEF IInv
<1>8. CASE ~Found(hint - 1, hint + 1) /\ ~IsLast /\ NextAttempt
  <2>1. Missed(rpc, contract)
    BY <1>1, <1>8, HintMissed DEF Missed, InReach, Here, IsLast
  <2>2. calls'[rpc] <= (IF hint > 0 THEN contract ELSE 0)
                        + (IF contract = NContracts THEN WindowCap ELSE 0)
    BY <1>1, <1>4, <1>5, <1>8 DEF IsLast
  <2>3. sick' \subseteq Node
    BY <1>1, <1>3 DEF TypeOK
  <2>4. QED
    BY <1>1, <1>2, <1>8, <2>1, <2>2, <2>3, AttemptOver
<1>9. QED
  BY <1>6, <1>7, <1>8 DEF AskHint

LEMMA AskHeadInv == IInv /\ AskHead => IInv'
<1> SUFFICES ASSUME IInv, AskHead PROVE IInv'
  OBVIOUS
<1>1. /\ pc = "head" /\ Attempting /\ pc' = "scan"
      /\ toBlock' = head[rpc] /\ windows' = 0 /\ top' = [top EXCEPT ![rpc] = head[rpc]]
      /\ UNCHANGED <<chainVars, hint, contract, rpc, before, known, sick, calls>>
  BY DEF AskHead, Attempting
<1>2. TypeOK /\ KnownInv /\ KnownInv' /\ contract = NContracts
  BY <1>1 DEF IInv, KnownInv, chainVars, TypeOK, IsLast
<1>3. /\ rpc \in Node /\ head[rpc] \in 0 .. height /\ known[rpc] <= head[rpc]
      /\ known[rpc] \in 0 .. height /\ top'[rpc] = head[rpc] /\ height \in Nat
      /\ 0 \in 0 .. WindowCap - 1 /\ top' \in [Node -> 0 .. height]
  BY <1>1, <1>2, Numbers, FetchAssumption DEF TypeOK, KnownInv
<1>4. TypeOK'
  BY <1>1, <1>2, <1>3 DEF TypeOK, chainVars, IsLast
<1>5. HereInv'
  <2>1. \A p \in Here : p[2] <= head[rpc]
    <3>1. SUFFICES ASSUME NEW p \in Here PROVE p[2] <= head[rpc]
      OBVIOUS
    <3>2. p \in Contract \X (0 .. height) /\ p[2] <= known[rpc]
      BY <1>2 DEF Here, TypeOK
    <3>3. QED
      BY <1>3, <3>2
  <2>2. MaxBlockRange \in Nat
    BY FetchAssumption
  <2>3. top'[rpc] - 0 * MaxBlockRange = head[rpc]
    BY <1>3, <2>2
  <2>4. QED
    BY <1>1, <1>3, <2>1, <2>3 DEF HereInv, Here, IInv
<1>6. TriedInv'
  BY <1>1, <1>2, Untried
<1>7. ASSUME NEW n \in Node PROVE calls'[n] <= HintCalls(n)' + ScanCalls(n)'
  <2>1. n \in Nat /\ rpc \in Nat
    BY <1>2, Numbers
  <2>2. HintCalls(n)' = HintCalls(n) /\ ScanCalls(n)' = ScanCalls(n)
    BY <1>1, <2>1 DEF HintCalls, ScanCalls
  <2>3. QED
    BY <1>1, <2>2 DEF IInv, BudgetInv
<1>8. BudgetInv'
  BY <1>1, <1>7 DEF BudgetInv
<1>9. QED
  BY <1>2, <1>4, <1>5, <1>6, <1>8 DEF IInv

\* A window in which nothing is found.
LEMMA WindowMissed ==
    ASSUME IInv, pc = "scan", ~Found(WindowFrom, toBlock)
    PROVE  \A p \in Here : p[2] < WindowFrom
<1> SUFFICES ASSUME NEW p \in Here PROVE p[2] < WindowFrom
  OBVIOUS
<1>1. /\ p \in stored /\ p[1] = contract /\ p[2] <= known[rpc] /\ rpc \in Node
      /\ p = <<p[1], p[2]>> /\ p[2] \in Nat
  BY FetchAssumption DEF Here, IInv, TypeOK
<1>2. known[rpc] <= head[rpc] /\ known[rpc] \in Nat /\ head[rpc] \in Nat
  BY <1>1, FetchAssumption DEF IInv, TypeOK, KnownInv
<1>3. p[2] <= toBlock
  BY DEF IInv, HereInv
<1>4. toBlock \in Nat /\ MaxBlockRange \in Nat
  BY FetchAssumption DEF IInv, TypeOK
<1>5. WindowFrom \in Nat
  BY <1>4 DEF WindowFrom
<1>6. SUFFICES ASSUME ~(p[2] < WindowFrom) PROVE FALSE
  OBVIOUS
<1>7. p[2] \in WindowFrom .. toBlock /\ p[2] <= head[rpc]
  BY <1>1, <1>2, <1>3, <1>4, <1>5, <1>6
<1>8. QED
  BY <1>1, <1>7 DEF Found

LEMMA ScanInv == IInv /\ Scan => IInv'
<1> SUFFICES ASSUME IInv, Scan PROVE IInv'
  OBVIOUS
<1>1. /\ pc = "scan" /\ Attempting /\ Call
      /\ UNCHANGED <<chainVars, before, known, top, sick>>
  BY DEF Scan, Attempting
<1>2. /\ calls' \in [Node -> Nat] /\ \A n \in Node \ {rpc} : calls'[n] = calls[n]
      /\ rpc \in Node /\ calls'[rpc] = calls[rpc] + 1 /\ calls[rpc] \in Nat
      /\ calls[rpc] <= HintCalls(rpc) + ScanCalls(rpc)
  BY <1>1, CallCount
<1>3. TypeOK /\ KnownInv /\ KnownInv' /\ contract = NContracts
  BY <1>1 DEF IInv, KnownInv, chainVars, TypeOK, IsLast
<1>4. /\ NContracts \in Nat /\ WindowCap \in Nat /\ rpc \in Nat /\ windows \in Nat
      /\ windows + 1 <= WindowCap /\ \A n \in Node : n \in Nat
      /\ 1 <= contract /\ contract \in Nat
  BY <1>3, Numbers
<1> DEFINE H == IF hint > 0 THEN NContracts ELSE 0
<1>5. calls'[rpc] <= H + (windows + 1) /\ H \in Nat
  <2>1. HintCalls(rpc) = H /\ ScanCalls(rpc) = windows
    BY <1>1, <1>3, <1>4 DEF HintCalls, ScanCalls
  <2>2. H \in Nat
    BY <1>4
  <2> HIDE DEF H
  <2>3. QED
    BY <1>2, <1>4, <2>1, <2>2
<1>6. /\ toBlock = top[rpc] - windows * MaxBlockRange /\ toBlock \in 0 .. height
      /\ top[rpc] \in 0 .. height /\ MaxBlockRange \in Nat \ {0} /\ height \in Nat
  BY <1>1, <1>2, <1>3, FetchAssumption DEF IInv, HereInv, TypeOK
<1>7. WindowFrom \in 0 .. height
  BY <1>6 DEF WindowFrom
<1>8. CASE Found(WindowFrom, toBlock) /\ Return
  <2>1. /\ pc' = "found" /\ UNCHANGED <<hint, contract, rpc, toBlock, windows>>
    BY <1>8 DEF Return
  <2>2. TypeOK' /\ HereInv'
    BY <1>1, <1>2, <1>3, <2>1 DEF TypeOK, HereInv, chainVars, IsLast
  <2>3. TriedInv'
    BY <1>1, <2>1, Untried
  <2>4. ASSUME NEW n \in Node PROVE calls'[n] <= H + WindowCap
    <3>1. CASE n = rpc
      <4> HIDE DEF H
      <4> QED
        BY <1>2, <1>4, <1>5, <3>1
    <3>2. CASE n # rpc
      <4>1. calls'[n] = calls[n] /\ calls[n] <= HintCalls(n) + ScanCalls(n)
        BY <1>1, <1>2, <3>2 DEF IInv, BudgetInv
      <4>2. calls[n] \in Nat /\ n \in Nat
        BY <1>3, <1>4 DEF TypeOK
      <4>3. /\ HintCalls(n) \in Nat /\ HintCalls(n) <= H
            /\ ScanCalls(n) \in Nat /\ ScanCalls(n) <= WindowCap
        BY <1>1, <1>3, <1>4, <3>2, <4>2 DEF HintCalls, ScanCalls
      <4> HIDE DEF H
      <4>4. QED
        BY <1>4, <1>5, <4>1, <4>2, <4>3
    <3>3. QED
      BY <3>1, <3>2
  <2>5. BudgetInv'
    BY <2>1, <2>4 DEF BudgetInv, CallBudget, Attempting
  <2>6. QED
    BY <1>3, <2>2, <2>3, <2>5 DEF IInv
<1>9. CASE /\ ~Found(WindowFrom, toBlock)
           /\ WindowFrom = 0 \/ windows + 1 >= WindowCap
           /\ NextAttempt
  <2>1. ASSUME NEW p \in before, p[1] = contract, p[2] <= known[rpc]
        PROVE  ~InReach(rpc, contract, p[2])
    <3>1. p \in Here /\ p[2] \in Nat
      BY <1>3, <2>1, FetchAssumption DEF Here, TypeOK
    <3>2. p[2] < WindowFrom
      BY <1>1, <1>9, <3>1, WindowMissed
    <3>3. windows + 1 = WindowCap
      BY <1>4, <1>9, <3>1, <3>2
    <3>4. WindowFrom = toBlock - MaxBlockRange + 1
      BY <1>6, <3>1, <3>2 DEF WindowFrom
    <3>5. WindowCap * MaxBlockRange = windows * MaxBlockRange + MaxBlockRange
      BY <1>4, <1>6, <3>3
    <3>6. windows * MaxBlockRange \in Int
      BY <1>4, <1>6
    <3>7. ~(p[2] > top[rpc] - WindowCap * MaxBlockRange)
      BY <1>6, <3>1, <3>2, <3>4, <3>5, <3>6
    <3>8. hint > 0 => p[2] \notin hint - 1 .. hint + 1
      BY <1>1, <3>1 DEF IInv, HereInv
    <3>9. QED
      BY <3>7, <3>8 DEF InReach
  <2>2. Missed(rpc, contract)
    BY <2>1 DEF Missed
  <2>3. calls'[rpc] <= (IF hint > 0 THEN contract ELSE 0)
                        + (IF contract = NContracts THEN WindowCap ELSE 0)
    <3>1. calls'[rpc] <= H + WindowCap
      <4> HIDE DEF H
      <4> QED
        BY <1>2, <1>4, <1>5
    <3>2. QED
      BY <1>3, <3>1
  <2>4. sick' \subseteq Node
    BY <1>1, <1>3 DEF TypeOK
  <2>5. QED
    BY <1>1, <1>2, <1>9, <2>2, <2>3, <2>4, AttemptOver
<1>10. CASE /\ ~Found(WindowFrom, toBlock)
            /\ WindowFrom # 0 /\ ~(windows + 1 >= WindowCap)
            /\ toBlock' = WindowFrom - 1 /\ windows' = windows + 1
            /\ UNCHANGED <<pc, hint, contract, rpc>>
  <2>1. toBlock' \in 0 .. height /\ windows' \in 0 .. WindowCap - 1
    BY <1>4, <1>6, <1>7, <1>10
  <2>2. TypeOK'
    BY <1>1, <1>2, <1>3, <1>10, <2>1 DEF TypeOK, chainVars, IsLast
  <2>3. toBlock' = top[rpc] - windows' * MaxBlockRange
    <3>1. WindowFrom = toBlock - MaxBlockRange + 1
      BY <1>6, <1>10 DEF WindowFrom
    <3>2. windows' * MaxBlockRange = windows * MaxBlockRange + MaxBlockRange
      BY <1>4, <1>6, <1>10
    <3>3. windows * MaxBlockRange \in Int
      BY <1>4, <1>6
    <3>4. QED
      BY <1>6, <1>10, <3>1, <3>2, <3>3
  <2>4. \A p \in Here : p[2] <= toBlock'
    <3>1. SUFFICES ASSUME NEW p \in Here PROVE p[2] <= toBlock'
      OBVIOUS
    <3>2. p[2] \in Nat
      BY <1>3, FetchAssumption DEF Here, TypeOK
    <3>3. p[2] < WindowFrom
      BY <1>1, <1>10, <3>1, WindowMissed
    <3>4. QED
      BY <1>7, <1>6, <1>10, <3>2, <3>3
  <2>5. HereInv'
    BY <1>1, <1>10, <2>3, <2>4 DEF HereInv, Here, IInv
  <2>6. TriedInv'
    <3>1. \A n, c : Tried(n, c)' <=> Tried(n, c)
      BY <1>1, <1>10 DEF Tried, Attempting
    <3>2. \A n, c : Missed(n, c)' <=> Missed(n, c)
      BY <1>1, <1>10 DEF Missed, InReach
    <3>3. QED
      BY <1>1, <3>1, <3>2 DEF IInv, TriedInv
  <2>7. ASSUME NEW n \in Node PROVE calls'[n] <= HintCalls(n)' + ScanCalls(n)'
    <3>1. n \in Nat
      BY <1>4
    <3>2. CASE n = rpc
      <4>1. HintCalls(n)' = H /\ ScanCalls(n)' = windows + 1
        BY <1>1, <1>3, <1>4, <1>10, <3>2 DEF HintCalls, ScanCalls
      <4> HIDE DEF H
      <4>2. QED
        BY <1>5, <3>2, <4>1
    <3>3. CASE n # rpc
      <4>1. HintCalls(n)' = HintCalls(n) /\ ScanCalls(n)' = ScanCalls(n)
        BY <1>10, <3>3 DEF HintCalls, ScanCalls
      <4>2. QED
        BY <1>1, <1>2, <3>3, <4>1 DEF IInv, BudgetInv
    <3>4. QED
      BY <3>2, <3>3
  <2>8. BudgetInv'
    BY <1>1, <1>10, <2>7 DEF BudgetInv
  <2>9. QED
    BY <1>3, <2>2, <2>5, <2>6, <2>8 DEF IInv
<1>11. QED
  BY <1>8, <1>9, <1>10 DEF Scan

LEMMA CallFailsInv == IInv /\ CallFails => IInv'
<1> SUFFICES ASSUME IInv, CallFails PROVE IInv'
  OBVIOUS
<1>1. /\ pc \in {"hint", "head", "scan"} /\ Attempting /\ NextAttempt
      /\ sick' = sick \union {rpc}
      /\ IF pc = "head" THEN UNCHANGED calls ELSE Call
      /\ UNCHANGED <<chainVars, before, known, top>>
  BY DEF CallFails, Attempting, Fail
<1>2. TypeOK /\ rpc \in Node /\ sick' \subseteq Node /\ rpc \in sick' /\ sick \subseteq sick'
  BY <1>1 DEF IInv, TypeOK
<1>3. /\ NContracts \in Nat /\ WindowCap \in Nat /\ rpc \in Nat /\ windows \in Nat
      /\ windows + 1 <= WindowCap /\ contract \in Nat /\ 1 <= contract
  BY <1>2, Numbers
<1>4. /\ calls' \in [Node -> Nat] /\ \A n \in Node \ {rpc} : calls'[n] = calls[n]
      /\ calls[rpc] \in Nat /\ calls[rpc] <= HintCalls(rpc) + ScanCalls(rpc)
      /\ calls'[rpc] = IF pc = "head" THEN calls[rpc] ELSE calls[rpc] + 1
  <2>1. CASE pc = "head"
    BY <1>1, <1>2, <2>1 DEF IInv, TypeOK, BudgetInv
  <2>2. CASE pc # "head"
    BY <1>1, <2>2, CallCount
  <2>3. QED
    BY <2>1, <2>2
<1>5. calls'[rpc] <= (IF hint > 0 THEN contract ELSE 0)
                      + (IF contract = NContracts THEN WindowCap ELSE 0)
  <2>1. CASE pc = "hint"
    <3>1. hint > 0
      BY <2>1 DEF IInv, HereInv
    <3>2. HintCalls(rpc) = contract - 1 /\ ScanCalls(rpc) = 0
      BY <1>3, <2>1, <3>1 DEF HintCalls, ScanCalls
    <3>3. QED
      BY <1>3, <1>4, <2>1, <3>1, <3>2
  <2>2. CASE pc \in {"head", "scan"}
    <3>1. contract = NContracts
      BY <1>2, <2>2 DEF TypeOK, IsLast
    <3>2. /\ HintCalls(rpc) = IF hint > 0 THEN contract ELSE 0
          /\ ScanCalls(rpc) = IF pc = "scan" THEN windows ELSE 0
      BY <1>3, <2>2 DEF HintCalls, ScanCalls
    <3>3. QED
      BY <1>3, <1>4, <2>2, <3>1, <3>2
  <2>3. QED
    BY <1>1, <2>1, <2>2
<1>6. QED
  BY <1>1, <1>2, <1>4, <1>5, AttemptOver

-----------------------------------------------------------------------------
(* The chain goes on *)

LEMMA ChainInv ==
    ASSUME IInv, TypeOK', KnownInv',
           UNCHANGED <<pc, hint, contract, rpc, toBlock, windows, before, known,
                       top, sick, calls>>
    PROVE  IInv'
<1>1. TriedInv' /\ HereInv'
  BY DEF IInv, TriedInv, HereInv, Here, Tried, Missed, InReach, Attempting
<1>2. BudgetInv'
  BY DEF IInv, BudgetInv, Attempting, HintCalls, ScanCalls, CallBudget
<1>3. QED
  BY <1>1, <1>2 DEF IInv

LEMMA GrowInv == IInv /\ Grow => IInv'
<1> SUFFICES ASSUME IInv, Grow PROVE IInv'
  OBVIOUS
<1>1. /\ height < MaxHeight /\ height' = height + 1
      /\ UNCHANGED <<index, head, pc, hint, contract, rpc, toBlock, windows,
                     before, known, top, sick, calls>>
      /\ \/ stored' = stored
         \/ \E c \in Contract : stored' = stored \union {<<c, height + 1>>}
  BY DEF Grow
<1>2. TypeOK /\ height \in Nat /\ MaxHeight \in Nat
  BY FetchAssumption DEF IInv, TypeOK
<1>3. height' \in 0 .. MaxHeight /\ 0 .. height \subseteq 0 .. height'
  BY <1>1, <1>2
<1>4. stored' \subseteq Contract \X (0 .. height') /\ stored \subseteq stored'
  <2>1. stored \subseteq Contract \X (0 .. height')
    BY <1>2, <1>3 DEF TypeOK
  <2>2. height + 1 \in 0 .. height'
    BY <1>1, <1>2
  <2>3. QED
    BY <1>1, <2>1, <2>2
<1>5. /\ index \in 0 .. height' /\ toBlock \in 0 .. height'
      /\ head \in [Node -> 0 .. height'] /\ known \in [Node -> 0 .. height']
      /\ top \in [Node -> 0 .. height']
  BY <1>2, <1>3 DEF TypeOK
<1>6. TypeOK'
  BY <1>1, <1>2, <1>3, <1>4, <1>5 DEF TypeOK, IsLast
<1>7. KnownInv'
  BY <1>1 DEF IInv, KnownInv
<1>8. QED
  BY <1>1, <1>6, <1>7, ChainInv

LEMMA SyncInv == ASSUME IInv, NEW n \in Node, Sync(n) PROVE IInv'
<1>1. /\ head[n] < height /\ head' = [head EXCEPT ![n] = height]
      /\ UNCHANGED <<height, stored, index, pc, hint, contract, rpc, toBlock,
                     windows, before, known, top, sick, calls>>
  BY DEF Sync
<1>2. TypeOK /\ height \in Nat /\ height \in 0 .. height /\ head \in [Node -> 0 .. height]
  BY FetchAssumption DEF IInv, TypeOK
<1>3. TypeOK'
  BY <1>1, <1>2 DEF TypeOK, IsLast
<1>4. KnownInv'
  <2>1. SUFFICES ASSUME NEW m \in Node PROVE known[m] <= head'[m]
    BY <1>1 DEF KnownInv
  <2>2. known[m] \in 0 .. height /\ known[m] <= head[m]
    BY <1>2 DEF IInv, TypeOK, KnownInv
  <2>3. QED
    BY <1>1, <1>2, <2>2
<1>5. QED
  BY <1>1, <1>3, <1>4, ChainInv

-----------------------------------------------------------------------------
(* The theorems *)

LEMMA IInvStep == IInv /\ [Next]_vars => IInv'
<1> SUFFICES ASSUME IInv, [Next]_vars PROVE IInv'
  OBVIOUS
<1>1. CASE \E h \in Hints : Request(h)
  BY <1>1, RequestInv
<1>2. CASE Step
  BY <1>2, LookupInv, SkipInv, AskHintInv, AskHeadInv, ScanInv, CallFailsInv DEF Step
<1>3. CASE Grow
  BY <1>3, GrowInv
<1>4. CASE \E n \in Node : Sync(n)
  BY <1>4, SyncInv
<1>5. CASE UNCHANGED vars
  <2>1. TypeOK' /\ KnownInv'
    BY <1>5 DEF vars, chainVars, IInv, TypeOK, KnownInv, IsLast
  <2>2. QED
    BY <1>5, <2>1, ChainInv DEF vars, chainVars
<1>6. QED
  BY <1>1, <1>2, <1>3, <1>4, <1>5 DEF Next

LEMMA Invariance == Spec => []IInv
BY InitInv, IInvStep, PTL DEF Spec

\* Types of the request's loops, of the nodes' heads and of the counts of calls.
THEOREM FetchTypeCorrect == Spec => []TypeOK
<1>1. IInv => TypeOK
  BY DEF IInv
<1>2. QED
  BY <1>1, Invariance, PTL

\* A request fails only if no node that answered all its calls knew, when the
\* request came, of content within reach.
THEOREM FetchOneHealthyNode == Spec => []OneHealthyNodeSuffices
<1>1. IInv => OneHealthyNodeSuffices
  <2>1. SUFFICES ASSUME IInv, pc = "error", NEW n \in Node \ sick, NEW p \in before
                 PROVE  ~(p[2] <= known[n] /\ InReach(n, p[1], p[2]))
    BY DEF OneHealthyNodeSuffices
  <2>2. p[1] \in Contract
    BY <2>1 DEF IInv, TypeOK
  <2>3. Missed(n, p[1])
    BY <2>1, <2>2 DEF IInv, TriedInv, Tried
  <2>4. QED
    BY <2>3 DEF Missed
<1>2. QED
  BY <1>1, Invariance, PTL

\* A request costs a node at most one call per contract and one search.
THEOREM FetchCallBudget == Spec => []CallBudget
<1>1. IInv => CallBudget
  <2>1. SUFFICES ASSUME IInv, NEW n \in Node
                 PROVE  calls[n] <= (IF hint > 0 THEN NContracts ELSE 0) + WindowCap
    BY DEF CallBudget
  <2>2. TypeOK /\ calls[n] \in Nat /\ BudgetInv
    BY <2>1 DEF IInv, TypeOK
  <2>3. /\ NContracts \in Nat /\ WindowCap \in Nat /\ contract \in Nat /\ 1 <= contract
        /\ contract <= NContracts /\ rpc \in Nat /\ n \in Nat /\ windows \in Nat
        /\ windows + 1 <= WindowCap
    BY <2>2, Numbers
  <2>4. CASE pc \in {"idle", "index"}
    BY <2>2, <2>3, <2>4 DEF BudgetInv
  <2>5. CASE pc \in {"found", "error"}
    BY <2>2, <2>5 DEF BudgetInv, CallBudget
  <2>6. CASE Attempting
    <3>1. calls[n] <= HintCalls(n) + ScanCalls(n)
      BY <2>2, <2>6 DEF BudgetInv
    <3>2. /\ HintCalls(n) \in Nat /\ HintCalls(n) <= IF hint > 0 THEN NContracts ELSE 0
          /\ ScanCalls(n) \in Nat /\ ScanCalls(n) <= WindowCap
      BY <2>3 DEF HintCalls, ScanCalls
    <3>3. QED
      BY <2>2, <2>3, <3>1, <3>2
  <2>7. QED
    BY <2>2, <2>4, <2>5, <2>6 DEF TypeOK, Attempting
<1>2. QED
  BY <1>1, Invariance, PTL
=============================================================================

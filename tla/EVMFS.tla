------------------------------- MODULE EVMFS -------------------------------
(***************************************************************************)
(* The storage contract contracts/src/EVMFS.sol and the part of the chain  *)
(* it lives on.  Content is never kept in storage: `store`, `storeBatch`   *)
(* and `storeManifest` only emit Store(hash, data) logs, and               *)
(* `storeManifest` also writes manifests[hash] := msg.sender, whoever had  *)
(* stored the same manifest before.                                        *)
(*                                                                         *)
(* This module holds the state and one operator per external function;     *)
(* the modules that extend it say who calls them and when.  Every          *)
(* transaction has a block of its own: blocks with several transactions or *)
(* none differ only in numbers that nothing here compares.                 *)
(***************************************************************************)
EXTENDS Naturals

CONSTANTS Account,      \* senders of transactions
          NoAccount     \* address(0), the default of the manifests mapping

ASSUME NoAccountAssumption == NoAccount \notin Account

VARIABLES height,       \* number of the latest block
          logs,         \* the Store logs of all blocks up to height
          manifests     \* the manifests mapping: the hashes written so far

chainVars == <<height, logs, manifests>>

(***************************************************************************)
(* keccak256: two data have the same hash only if they are equal.  A hash  *)
(* is a free constructor over its preimage, which is all that collision    *)
(* resistance gives.                                                       *)
(***************************************************************************)
Keccak(d) == [keccak |-> d]

Log(d, b) == [block |-> b, hash |-> Keccak(d), data |-> d]

ChainInit == /\ height = 0
             /\ logs = {}
             /\ manifests = [h \in {} |-> NoAccount]

\* manifests(h) as a caller reads it: zero for a hash never written.
Uploader(h) == IF h \in DOMAIN manifests THEN manifests[h] ELSE NoAccount

\* store(data)
Store(d) == /\ height' = height + 1
            /\ logs' = logs \union {Log(d, height + 1)}
            /\ UNCHANGED manifests

\* storeBatch(data[]): one Store log per element, all in the same block.
StoreBatch(ds) ==
    /\ height' = height + 1
    /\ logs' = logs \union {Log(ds[i], height + 1) : i \in DOMAIN ds}
    /\ UNCHANGED manifests

\* storeManifest(data): logs the bytes and records the sender, overwriting.
StoreManifest(sender, d) ==
    /\ height' = height + 1
    /\ logs' = logs \union {Log(d, height + 1)}
    /\ manifests' = [h \in DOMAIN manifests \union {Keccak(d)} |->
                        IF h = Keccak(d) THEN sender ELSE manifests[h]]
=============================================================================

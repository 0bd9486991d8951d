------------------------------- MODULE Names --------------------------------
(***************************************************************************)
(* The registry with the programs that use it: the CLI's `register` and    *)
(* `update-name` (cli/src/names.ts) and the web page of names-ui           *)
(* (names-ui/src/App.tsx).  Every account runs one program at a time, looks *)
(* a name up, sends a transaction that the chain executes some time later, *)
(* and tells its user how it went.  Meanwhile others store manifests, send *)
(* transactions of their own, and trade names.                             *)
(***************************************************************************)
EXTENDS EVMFSNames, FiniteSets

CONSTANTS Manifest,     \* contents of manifests
          Block,        \* block numbers users pass along
          Program,      \* Program[a]: "cli" or "ui", what account a uses
          MaxRuns,      \* bound: commands started, in all
          MaxStores,    \* bound: manifests stored
          MaxMoves      \* bound: transfers, direct calls, and changes of the
                        \* fee recipient

ASSUME ClientAssumption == /\ Program \in [Account -> {"cli", "ui"}]
                           /\ MaxRuns \in Nat /\ MaxStores \in Nat
                           /\ MaxMoves \in Nat

VARIABLES client,       \* client[a]: the command account a is running
          told,         \* the successes reported to users
          runs, stores, moves   \* counters for the bounds

vars == <<chainVars, namesVars, client, told, runs, stores, moves>>

Idle == [pc |-> "idle"]

\* The commands of the programs.
Command == [pc : {"lookup", "send", "sent", "orphan", "mined", "reverted"},
            op : {"register", "update"}, name : Name,
            hash : {Keccak(m) : m \in Manifest}, block : Block]

Init == /\ ChainInit /\ NamesInit
        /\ client = [a \in Account |-> Idle]
        /\ told = {} /\ runs = 0 /\ stores = 0 /\ moves = 0

-----------------------------------------------------------------------------
(* Programs *)

Goto(a, l) == client' = [client EXCEPT ![a].pc = l]
Stop(a) == client' = [client EXCEPT ![a] = Idle]

\* A command is given.  Both programs register well-formed names only.  The
\* CLI's register and the page's update look the name up first; the other two
\* send at once.
Begin(a) ==
    /\ client[a].pc = "idle" /\ runs < MaxRuns
    /\ \E op \in {"register", "update"}, n \in Name, m \in Manifest, b \in Block :
        /\ op = "register" => n \in ValidName
        /\ client' = [client EXCEPT ![a] =
            [pc |-> IF (op = "register") = (Program[a] = "cli")
                    THEN "lookup" ELSE "send",
             op |-> op, name |-> n, hash |-> Keccak(m), block |-> b]]
    /\ runs' = runs + 1
    /\ UNCHANGED <<chainVars, namesVars, told, stores, moves>>

\* The answer of the lookup decides.  When the call fails the CLI takes the
\* name for free and goes on; the page does not let the user go on.
LookUp(a) ==
    /\ client[a].pc = "lookup"
    /\ LET c == client[a]
           answer == Lookup(c.name).owner
       IN IF c.op = "register"
          THEN \/ answer = NoAccount /\ Goto(a, "send")
               \/ answer # NoAccount /\ Stop(a)
          ELSE \/ answer = a /\ Goto(a, "send")
               \/ answer # a /\ Stop(a)
    /\ UNCHANGED <<chainVars, namesVars, told, runs, stores, moves>>

LookUpFails(a) ==
    /\ client[a].pc = "lookup"
    /\ IF client[a].op = "register" THEN Goto(a, "send") ELSE Stop(a)
    /\ UNCHANGED <<chainVars, namesVars, told, runs, stores, moves>>

\* What the chain does with the call of account a.
Accepted(a) == LET c == client[a] IN
    IF c.op = "register" THEN MayRegister(a, c.name, c.hash, Fee)
                         ELSE MayUpdate(a, c.name, c.hash)

\* The CLI's ethers estimates the gas first, which executes the call on the
\* present state: a call that would revert now is not sent.  The page leaves it
\* to the wallet, which may send it.  Sending fails, or the user declines.
SendTx(a) ==
    /\ client[a].pc = "send"
    /\ \/ (Accepted(a) \/ Program[a] = "ui") /\ Goto(a, "sent")
       \/ Stop(a)
    /\ UNCHANGED <<chainVars, namesVars, told, runs, stores, moves>>

\* The program loses the node, or is closed, while it waits.
GiveUp(a) ==
    /\ client[a].pc = "sent"
    /\ Goto(a, "orphan")
    /\ UNCHANGED <<chainVars, namesVars, told, runs, stores, moves>>

\* The transaction gets into a block and is executed on the state it finds.
Execute(a) ==
    /\ client[a].pc \in {"sent", "orphan"}
    /\ LET c == client[a] IN
        /\ IF ~Accepted(a) THEN UNCHANGED namesVars
           ELSE IF c.op = "register"
                THEN Register(a, c.name, c.block, c.hash, Fee)
                ELSE Update(a, c.name, c.block, c.hash)
        /\ IF c.pc = "orphan" THEN Stop(a)
           ELSE Goto(a, IF Accepted(a) THEN "mined" ELSE "reverted")
    /\ height' = height + 1
    /\ UNCHANGED <<logs, manifests, told, runs, stores, moves>>

Success(a) == [to |-> a, program |-> Program[a], op |-> client[a].op,
               name |-> client[a].name, hash |-> client[a].hash]

\* Faulty variant: the CLI does not look at the receipt either.
ReportBlindly(a) ==
    /\ client[a].pc \in {"mined", "reverted"}
    /\ told' = told \union {Success(a)}
    /\ Stop(a)
    /\ UNCHANGED <<chainVars, namesVars, runs, stores, moves>>

\* The receipt arrives.  ethers' wait() rejects for a reverted transaction and
\* the CLI checks its status; viem's waitForTransactionReceipt resolves, and
\* the page reports a success whatever the status.
Report(a) ==
    /\ client[a].pc \in {"mined", "reverted"}
    /\ told' = IF client[a].pc = "mined" \/ Program[a] = "ui"
               THEN told \union {Success(a)} ELSE told
    /\ Stop(a)
    /\ UNCHANGED <<chainVars, namesVars, runs, stores, moves>>

-----------------------------------------------------------------------------
(* Everybody else *)

\* Any account stores any manifest, its own or a copy of another's.
StoreSome(a, m) == /\ stores < MaxStores /\ stores' = stores + 1
                   /\ StoreManifest(a, m)
                   /\ UNCHANGED <<namesVars, client, told, runs, moves>>

Move == moves < MaxMoves /\ moves' = moves + 1

\* An account calls register itself, with any name and any payment.
Direct(a, n, m, b, value) ==
    /\ Move
    /\ MayRegister(a, n, Keccak(m), value)
    /\ Register(a, n, b, Keccak(m), value)
    /\ height' = height + 1
    /\ UNCHANGED <<logs, manifests, client, told, runs, stores>>

Trade(a, n, to) == /\ Move /\ Transfer(a, n, to)
                   /\ UNCHANGED <<chainVars, client, told, runs, stores>>

Redirect(a, r) == /\ Move /\ SetFeeRecipient(a, r)
                  /\ UNCHANGED <<chainVars, client, told, runs, stores>>

Next == \E a \in Account :
    \/ Begin(a) \/ LookUp(a) \/ LookUpFails(a) \/ SendTx(a) \/ GiveUp(a)
    \/ Execute(a) \/ Report(a)
    \/ \E m \in Manifest : StoreSome(a, m)
    \/ \E n \in Name, m \in Manifest, b \in Block, value \in 0 .. Fee + 1 :
            Direct(a, n, m, b, value)
    \/ \E n \in Name, to \in Account : Trade(a, n, to)
    \/ \E r \in Account : Redirect(a, r)

Spec == Init /\ [][Next]_vars

-----------------------------------------------------------------------------
(* Properties *)

\* Types; a name is owned if and only if it has a site.
TypeOK ==
    /\ height \in Nat /\ collected \in Nat
    /\ \A h \in DOMAIN manifests : manifests[h] \in Account
    /\ DOMAIN owner \subseteq ValidName
    /\ \A n \in DOMAIN owner : owner[n] \in Account
    /\ DOMAIN sites = DOMAIN owner
    /\ feeRecipient \in Account
    /\ client \in [Account -> {Idle} \union Command]

\* Every site leads to content: the manifest a name points at was stored, and
\* its bytes are in the logs of the storage contract.
SitesArePublished ==
    \A n \in DOMAIN sites : \E l \in logs : l.hash = sites[n].hash

\* A name is registered once: it never changes hands by a second registration.
MintedOnce ==
    \A e, f \in minted : e.name = f.name => e.to = f.to

\* Every registered name was paid for, also when the payment to the fee
\* recipient can fail at the end of the call.
NamesArePaid == Fee * Cardinality(DOMAIN owner) <= collected

\* A program that reports success tells the truth: its account was given the
\* name, or the name was pointed at its manifest.
True(t) == /\ t.op = "register" => [name |-> t.name, to |-> t.to] \in minted
           /\ [name |-> t.name, hash |-> t.hash] \in updated

\* The CLI tells the truth, whoever was faster.
CLITellsTruth == \A t \in told : t.program = "cli" => True(t)

\* Once owned a name stays owned, and its site changes only to a manifest
\* whose uploader on record is the owner.
NameKept ==
    [][\A n \in DOMAIN owner :
        /\ n \in DOMAIN owner'
        /\ sites'[n] # sites[n] => Uploader(sites'[n].hash) = owner[n]]_vars
=============================================================================

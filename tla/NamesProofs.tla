---------------------------- MODULE NamesProofs -----------------------------
(***************************************************************************)
(* Proofs about Names, for every set of accounts, names and manifests, any *)
(* fee, and any interleaving of programs: a registered name leads to       *)
(* stored content and was paid for, is minted once, changes only by its    *)
(* owner, and the CLI reports no success that did not happen.              *)
(*                                                                         *)
(* SitesArePublished rests on the storage contract: an uploader is on      *)
(* record only for bytes it logged (UploadersInv).  CLITellsTruth rests on *)
(* what a program knows while it waits: "mined" means that its own call    *)
(* was accepted, which no later step of anybody can undo (MinedInv).       *)
(***************************************************************************)
EXTENDS Names, FiniteSetTheorems, TLAPS

\* Who is on record for a hash has logged bytes with that hash.
UploadersInv == \A h \in DOMAIN manifests : \E l \in logs : l.hash = h

\* Only registered names were ever minted.
OwnedInv == /\ \A e \in minted : e.name \in DOMAIN owner
            /\ IsFiniteSet(DOMAIN owner)

\* A program that has seen its transaction mined has got what it asked for.
MinedInv == \A a \in Account : client[a].pc = "mined" => True(Success(a))

IInv == /\ TypeOK /\ UploadersInv /\ SitesArePublished
        /\ OwnedInv /\ MintedOnce /\ NamesArePaid
        /\ MinedInv /\ CLITellsTruth

-----------------------------------------------------------------------------
(* What the functions of the contracts preserve *)

\* Account 0 owns nothing and is nobody's sender.
LEMMA UploaderLemma ==
    ASSUME NEW h, NEW a \in Account, Uploader(h) = a
    PROVE  h \in DOMAIN manifests
BY NoAccountAssumption DEF Uploader

\* The part of the invariant about contracts.
ContractInv == /\ UploadersInv /\ SitesArePublished /\ OwnedInv /\ MintedOnce
               /\ NamesArePaid
               /\ height \in Nat /\ collected \in Nat
               /\ \A h \in DOMAIN manifests : manifests[h] \in Account
               /\ DOMAIN owner \subseteq ValidName
               /\ \A n \in DOMAIN owner : owner[n] \in Account
               /\ DOMAIN sites = DOMAIN owner
               /\ feeRecipient \in Account

LEMMA RegisterLemma ==
    ASSUME ContractInv, UNCHANGED <<logs, manifests>>, height' = height + 1,
           NEW a \in Account, NEW n, NEW b, NEW h, NEW v \in Nat,
           MayRegister(a, n, h, v), Register(a, n, b, h, v)
    PROVE  /\ ContractInv'
           /\ minted \subseteq minted' /\ updated \subseteq updated'
           /\ [name |-> n, to |-> a] \in minted'
           /\ [name |-> n, hash |-> h] \in updated'
<1> USE DEF ContractInv, Register, SetSite
<1>1. /\ n \notin DOMAIN owner /\ n \in ValidName
      /\ feeRecipient \notin Refusing
      /\ DOMAIN owner' = DOMAIN owner \union {n}
      /\ \E l \in logs : l.hash = h
  BY UploaderLemma DEF MayRegister, Registered, UploadersInv
<1>2. SitesArePublished'
  BY <1>1 DEF SitesArePublished
<1>3. OwnedInv'
  BY <1>1, FS_AddElement DEF OwnedInv
<1>4. MintedOnce'
  <2> SUFFICES ASSUME NEW e \in minted', NEW f \in minted', e.name = f.name
               PROVE  e.to = f.to
    BY DEF MintedOnce
  <2>1. \A g \in minted : g.name # n
    BY <1>1 DEF OwnedInv
  <2> QED
    BY <2>1 DEF MintedOnce
<1>5. NamesArePaid'
  <2>1. Cardinality(DOMAIN owner') = Cardinality(DOMAIN owner) + 1
    BY <1>1, FS_AddElement DEF OwnedInv
  <2>2. collected' = collected + v /\ v >= Fee
    BY <1>1 DEF Paid, MayRegister
  <2>3. Cardinality(DOMAIN owner) \in Nat
    BY FS_CardinalityType DEF OwnedInv
  <2>4. Fee * (Cardinality(DOMAIN owner) + 1)
          = Fee * Cardinality(DOMAIN owner) + Fee
    BY <2>3, NamesAssumption
  <2> QED
    BY <2>1, <2>2, <2>3, <2>4, NamesAssumption DEF NamesArePaid
<1>6. UploadersInv' /\ height' \in Nat /\ collected' \in Nat
  BY DEF UploadersInv, Paid
<1>7. /\ DOMAIN owner' \subseteq ValidName
      /\ \A k \in DOMAIN owner' : owner'[k] \in Account
      /\ DOMAIN sites' = DOMAIN owner'
      /\ feeRecipient' \in Account
      /\ \A k \in DOMAIN manifests' : manifests'[k] \in Account
  BY <1>1
<1> QED
  BY <1>2, <1>3, <1>4, <1>5, <1>6, <1>7

LEMMA UpdateLemma ==
    ASSUME ContractInv, UNCHANGED <<logs, manifests>>, height' = height + 1,
           NEW a \in Account, NEW n, NEW b, NEW h,
           MayUpdate(a, n, h), Update(a, n, b, h)
    PROVE  /\ ContractInv'
           /\ minted \subseteq minted' /\ updated \subseteq updated'
           /\ [name |-> n, hash |-> h] \in updated'
<1> USE DEF ContractInv, Update, SetSite
<1>1. /\ n \in DOMAIN owner /\ \E l \in logs : l.hash = h
  BY UploaderLemma DEF MayUpdate, Registered, UploadersInv
<1>2. SitesArePublished'
  BY <1>1 DEF SitesArePublished
<1>3. OwnedInv' /\ MintedOnce' /\ NamesArePaid' /\ UploadersInv'
  BY DEF OwnedInv, MintedOnce, NamesArePaid, UploadersInv
<1> QED
  BY <1>1, <1>2, <1>3

LEMMA TransferLemma ==
    ASSUME ContractInv, NEW a \in Account, NEW n, NEW to \in Account,
           UNCHANGED chainVars, Transfer(a, n, to)
    PROVE  ContractInv' /\ UNCHANGED <<minted, updated>>
<1> USE DEF ContractInv, Transfer, chainVars
<1>1. DOMAIN owner' = DOMAIN owner
  OBVIOUS
<1>2. SitesArePublished' /\ OwnedInv' /\ MintedOnce' /\ NamesArePaid'
      /\ UploadersInv'
  BY <1>1 DEF SitesArePublished, OwnedInv, MintedOnce, NamesArePaid,
              UploadersInv
<1> QED
  BY <1>1, <1>2

LEMMA RedirectLemma ==
    ASSUME ContractInv, NEW a, NEW r \in Account,
           UNCHANGED chainVars, SetFeeRecipient(a, r)
    PROVE  ContractInv' /\ UNCHANGED <<minted, updated>>
BY DEF ContractInv, SetFeeRecipient, chainVars, SitesArePublished, OwnedInv,
       MintedOnce, NamesArePaid, UploadersInv

LEMMA StoreLemma ==
    ASSUME ContractInv, NEW a \in Account, NEW m, StoreManifest(a, m),
           UNCHANGED namesVars
    PROVE  ContractInv' /\ UNCHANGED <<minted, updated>>
<1> USE DEF ContractInv, StoreManifest, namesVars
<1>1. \E l \in logs' : l.hash = Keccak(m)
  <2>1. Log(m, height + 1).hash = Keccak(m)
    BY DEF Log
  <2>2. Log(m, height + 1) \in logs'
    OBVIOUS
  <2> QED
    BY <2>1, <2>2
<1>2. UploadersInv'
  BY <1>1 DEF UploadersInv
<1>3. SitesArePublished' /\ OwnedInv' /\ MintedOnce' /\ NamesArePaid'
  BY DEF SitesArePublished, OwnedInv, MintedOnce, NamesArePaid
<1>4. \A h \in DOMAIN manifests' : manifests'[h] \in Account
  OBVIOUS
<1> QED
  BY <1>2, <1>3, <1>4

-----------------------------------------------------------------------------
(* Initial states and steps *)

LEMMA InitLemma == Init => IInv
<1> SUFFICES ASSUME Init PROVE IInv
  OBVIOUS
<1> USE DEF Init, ChainInit, NamesInit
<1>1. DOMAIN owner = {} /\ DOMAIN sites = {} /\ DOMAIN manifests = {}
  OBVIOUS
<1>2. TypeOK
  BY <1>1, NamesAssumption DEF TypeOK
<1>3. UploadersInv /\ SitesArePublished /\ OwnedInv /\ MintedOnce
  BY <1>1, FS_EmptySet DEF UploadersInv, SitesArePublished, OwnedInv, MintedOnce
<1>4. NamesArePaid
  <2>1. Cardinality(DOMAIN owner) = 0 /\ Fee * 0 = 0
    BY <1>1, FS_EmptySet, NamesAssumption
  <2> QED
    BY <2>1 DEF NamesArePaid
<1>5. MinedInv /\ CLITellsTruth
  BY DEF MinedInv, CLITellsTruth, Idle
<1> QED
  BY <1>2, <1>3, <1>4, <1>5 DEF IInv

\* TypeOK is the types of the programs and the types of the contracts.
LEMMA Parts == IInv <=> /\ ContractInv
                        /\ client \in [Account -> {Idle} \union Command]
                        /\ MinedInv /\ CLITellsTruth
BY DEF IInv, ContractInv, TypeOK

\* What a step of the world outside the programs leaves to show.
LEMMA OutsideLemma ==
    ASSUME IInv, ContractInv', UNCHANGED <<client, told>>,
           minted \subseteq minted', updated \subseteq updated'
    PROVE  IInv'
<1>1. MinedInv' /\ CLITellsTruth'
  BY DEF IInv, MinedInv, CLITellsTruth, True, Success
<1> QED
  BY <1>1 DEF IInv, ContractInv, TypeOK

\* A step of one program that does not shrink what happened, and that knows
\* of a mined transaction only if the call was accepted.
LEMMA ProgramLemma ==
    ASSUME IInv, ContractInv', NEW a \in Account,
           minted \subseteq minted', updated \subseteq updated',
           NEW c \in {Idle} \union Command,
           client' = [client EXCEPT ![a] = c],
           c.pc = "mined" => True(Success(a))',
           CLITellsTruth'
    PROVE  IInv'
<1>1. client' \in [Account -> {Idle} \union Command]
  BY DEF IInv, TypeOK
<1>2. MinedInv'
  <2> SUFFICES ASSUME NEW b \in Account, client'[b].pc = "mined"
               PROVE  True(Success(b))'
    BY DEF MinedInv
  <2>1. CASE b = a
    BY <2>1 DEF IInv, TypeOK
  <2>2. CASE b # a
    <3>1. client'[b] = client[b]
      BY <2>2 DEF IInv, TypeOK
    <3>2. True(Success(b))
      BY <3>1 DEF IInv, MinedInv
    <3> QED
      BY <3>1, <3>2 DEF True, Success
  <2> QED
    BY <2>1, <2>2
<1> QED
  BY <1>1, <1>2 DEF IInv, ContractInv, TypeOK

\* The contracts do not change, or only the height does.
LEMMA SameContracts ==
    ASSUME IInv, UNCHANGED <<logs, manifests, namesVars>>,
           height' = height \/ height' = height + 1
    PROVE  ContractInv' /\ UNCHANGED <<minted, updated>>
BY DEF IInv, TypeOK, ContractInv, UploadersInv, SitesArePublished, OwnedInv,
       MintedOnce, NamesArePaid, namesVars

\* Moving a command on keeps it a command.
LEMMA GotoLemma ==
    ASSUME IInv, NEW a \in Account, client[a].pc # "idle",
           NEW l \in {"lookup", "send", "sent", "orphan", "mined", "reverted"}
    PROVE  /\ client[a] \in Command
           /\ [client[a] EXCEPT !.pc = l] \in Command
           /\ [client[a] EXCEPT !.pc = l].pc = l
           /\ [client[a] EXCEPT !.pc = l].op = client[a].op
           /\ [client[a] EXCEPT !.pc = l].name = client[a].name
           /\ [client[a] EXCEPT !.pc = l].hash = client[a].hash
           /\ Goto(a, l) => client' = [client EXCEPT ![a] =
                                [client[a] EXCEPT !.pc = l]]
<1>1. client[a] \in Command
  BY DEF IInv, TypeOK, Idle
<1> QED
  BY <1>1 DEF Command, Goto

\* Without a new report, what was told stays true.
LEMMA NothingTold ==
    ASSUME IInv, UNCHANGED told,
           \/ UNCHANGED namesVars
           \/ minted \subseteq minted' /\ updated \subseteq updated'
    PROVE  CLITellsTruth'
BY DEF IInv, CLITellsTruth, True, namesVars

LEMMA BeginStep == ASSUME NEW a \in Account PROVE IInv /\ Begin(a) => IInv'
<1> SUFFICES ASSUME IInv, Begin(a) PROVE IInv'
  OBVIOUS
<1>1. PICK c \in Command : client' = [client EXCEPT ![a] = c] /\ c.pc # "mined"
  <2>1. PICK op \in {"register", "update"}, n \in Name, m \in Manifest,
             b \in Block :
        /\ op = "register" => n \in ValidName
        /\ client' = [client EXCEPT ![a] =
            [pc |-> IF (op = "register") = (Program[a] = "cli")
                    THEN "lookup" ELSE "send",
             op |-> op, name |-> n, hash |-> Keccak(m), block |-> b]]
    BY Zenon DEF Begin
  <2> DEFINE l == IF (op = "register") = (Program[a] = "cli")
                  THEN "lookup" ELSE "send"
             c == [pc |-> l, op |-> op, name |-> n, hash |-> Keccak(m),
                   block |-> b]
  <2>2. l \in {"lookup", "send"}
    OBVIOUS
  <2>3. client' = [client EXCEPT ![a] = c]
    BY <2>1
  <2> HIDE DEF l
  <2>4. c \in Command /\ c.pc # "mined"
    BY <2>2 DEF Command
  <2> QED
    BY <2>3, <2>4
<1>2. CLITellsTruth'
  BY NothingTold DEF Begin
<1>3. ContractInv' /\ UNCHANGED <<minted, updated>>
  BY SameContracts DEF Begin, chainVars
<1> QED
  BY <1>1, <1>2, <1>3, ProgramLemma

LEMMA QuietSteps ==
    ASSUME NEW a \in Account, IInv,
           LookUp(a) \/ LookUpFails(a) \/ SendTx(a) \/ GiveUp(a)
    PROVE  IInv'
<1> USE DEF LookUp, LookUpFails, SendTx, GiveUp
<1>1. UNCHANGED <<chainVars, namesVars, told>> /\ client[a].pc # "idle"
  OBVIOUS
<1>2. /\ CLITellsTruth'
      /\ ContractInv' /\ UNCHANGED <<minted, updated>>
  BY <1>1, NothingTold, SameContracts DEF chainVars
<1>3. \/ Stop(a) \/ Goto(a, "send") \/ Goto(a, "sent") \/ Goto(a, "orphan")
  OBVIOUS
<1>4. CASE Stop(a)
  <2>1. Idle.pc # "mined" /\ client' = [client EXCEPT ![a] = Idle]
    BY <1>4 DEF Stop, Idle
  <2> QED
    BY <1>1, <1>2, <2>1, ProgramLemma
<1>5. ASSUME NEW l \in {"send", "sent", "orphan"}, Goto(a, l)
      PROVE  IInv'
  <2>1. PICK c \in Command : c.pc = l /\ client' = [client EXCEPT ![a] = c]
    <3>1. l \in {"lookup", "send", "sent", "orphan", "mined", "reverted"}
      OBVIOUS
    <3>2. /\ [client[a] EXCEPT !.pc = l] \in Command
          /\ [client[a] EXCEPT !.pc = l].pc = l
          /\ client' = [client EXCEPT ![a] = [client[a] EXCEPT !.pc = l]]
      BY <1>1, <1>5, <3>1, GotoLemma
    <3> QED
      BY <3>2
  <2>2. c.pc # "mined"
    BY <2>1
  <2> QED
    BY <1>1, <1>2, <2>1, <2>2, ProgramLemma
<1> QED
  BY <1>3, <1>4, <1>5

\* A report is true as soon as the events it speaks of have happened.
LEMMA SuccessLemma ==
    ASSUME NEW a \in Account, NEW n, NEW h,
           client'[a].name = n, client'[a].hash = h,
           [name |-> n, hash |-> h] \in updated',
           client'[a].op = "register" => [name |-> n, to |-> a] \in minted'
    PROVE  True(Success(a))'
BY DEF True, Success

LEMMA ExecuteStep == ASSUME NEW a \in Account PROVE IInv /\ Execute(a) => IInv'
<1> SUFFICES ASSUME IInv, Execute(a) PROVE IInv'
  OBVIOUS
<1> DEFINE c == client[a]
<1>0. client[a].pc \in {"sent", "orphan"} /\ ContractInv /\ c \in Command
  BY GotoLemma, Parts DEF Execute
<1>1. PICK k \in {Idle} \union Command :
        /\ client' = [client EXCEPT ![a] = k]
        /\ k.pc = "mined" => /\ Accepted(a) /\ k.op = c.op
                             /\ k.name = c.name /\ k.hash = c.hash
  <2>1. CASE c.pc = "orphan"
    <3>1. client' = [client EXCEPT ![a] = Idle] /\ Idle.pc # "mined"
      BY <2>1 DEF Execute, Stop, Idle
    <3> QED
      BY <3>1
  <2>2. CASE c.pc # "orphan"
    <3>1. PICK l \in {"mined", "reverted"} :
             Goto(a, l) /\ (l = "mined" => Accepted(a))
      BY <2>2 DEF Execute
    <3>2. /\ client[a].pc # "idle"
          /\ l \in {"lookup", "send", "sent", "orphan", "mined", "reverted"}
      BY <1>0
    <3>3. /\ [c EXCEPT !.pc = l] \in Command
          /\ [c EXCEPT !.pc = l].pc = l
          /\ [c EXCEPT !.pc = l].op = c.op
          /\ [c EXCEPT !.pc = l].name = c.name
          /\ [c EXCEPT !.pc = l].hash = c.hash
          /\ client' = [client EXCEPT ![a] = [c EXCEPT !.pc = l]]
      BY <3>1, <3>2, GotoLemma
    <3> QED
      BY <3>1, <3>3
  <2> QED
    BY <2>1, <2>2
<1>2. client'[a] = k
  BY <1>1 DEF IInv, TypeOK
<1>3. /\ ContractInv' /\ minted \subseteq minted' /\ updated \subseteq updated'
      /\ k.pc = "mined" => True(Success(a))'
  <2>1. CASE ~Accepted(a)
    BY <1>1, <2>1, SameContracts DEF Execute
  <2>2. CASE Accepted(a) /\ c.op = "register"
    <3>1. /\ MayRegister(a, c.name, c.hash, Fee)
          /\ Register(a, c.name, c.block, c.hash, Fee)
          /\ UNCHANGED <<logs, manifests>> /\ height' = height + 1
      BY <2>2 DEF Execute, Accepted
    <3>2. /\ ContractInv' /\ minted \subseteq minted' /\ updated \subseteq updated'
          /\ [name |-> c.name, to |-> a] \in minted'
          /\ [name |-> c.name, hash |-> c.hash] \in updated'
      BY <1>0, <3>1, RegisterLemma, NamesAssumption
    <3> HIDE DEF c
    <3>3. ASSUME k.pc = "mined" PROVE True(Success(a))'
      BY <1>1, <1>2, <3>2, <3>3, SuccessLemma
    <3> QED
      BY <3>2, <3>3
  <2>3. CASE Accepted(a) /\ c.op # "register"
    <3>1. /\ MayUpdate(a, c.name, c.hash)
          /\ Update(a, c.name, c.block, c.hash)
          /\ UNCHANGED <<logs, manifests>> /\ height' = height + 1
      BY <2>3 DEF Execute, Accepted
    <3>2. /\ ContractInv' /\ minted \subseteq minted' /\ updated \subseteq updated'
          /\ [name |-> c.name, hash |-> c.hash] \in updated'
      BY <1>0, <3>1, UpdateLemma
    <3> HIDE DEF c
    <3>3. ASSUME k.pc = "mined" PROVE True(Success(a))'
      BY <1>1, <1>2, <2>3, <3>2, <3>3, SuccessLemma
    <3> QED
      BY <3>2, <3>3
  <2> QED
    BY <2>1, <2>2, <2>3
<1>4. CLITellsTruth'
  BY <1>3, NothingTold DEF Execute
<1> QED
  BY <1>1, <1>3, <1>4, ProgramLemma

LEMMA ReportStep == ASSUME NEW a \in Account PROVE IInv /\ Report(a) => IInv'
<1> SUFFICES ASSUME IInv, Report(a) PROVE IInv'
  OBVIOUS
<1>1. ContractInv' /\ UNCHANGED <<minted, updated>>
  BY SameContracts DEF Report, chainVars
<1>2. CLITellsTruth'
  <2> SUFFICES ASSUME NEW t \in told', t.program = "cli" PROVE True(t)'
    BY DEF CLITellsTruth
  <2>1. CASE t \in told
    BY <1>1, <2>1 DEF IInv, CLITellsTruth, True
  <2>2. CASE t \notin told
    <3>1. t = Success(a) /\ (client[a].pc = "mined" \/ Program[a] = "ui")
      BY <2>2 DEF Report
    <3>2. client[a].pc = "mined"
      BY <3>1 DEF Success
    <3> QED
      BY <1>1, <3>1, <3>2 DEF IInv, MinedInv, True
  <2> QED
    BY <2>1, <2>2
<1>3. client' = [client EXCEPT ![a] = Idle] /\ Idle.pc # "mined"
  BY DEF Report, Stop, Idle
<1> QED
  BY <1>1, <1>2, <1>3, ProgramLemma

LEMMA StepLemma == IInv /\ [Next]_vars => IInv'
<1> SUFFICES ASSUME IInv, [Next]_vars PROVE IInv'
  OBVIOUS
<1>1. ContractInv
  BY Parts
<1>2. ASSUME NEW a \in Account, Begin(a) PROVE IInv'
  BY <1>2, BeginStep
<1>3. ASSUME NEW a \in Account,
             LookUp(a) \/ LookUpFails(a) \/ SendTx(a) \/ GiveUp(a)
      PROVE  IInv'
  BY <1>3, QuietSteps
<1>4. ASSUME NEW a \in Account, Execute(a) PROVE IInv'
  BY <1>4, ExecuteStep
<1>5. ASSUME NEW a \in Account, Report(a) PROVE IInv'
  BY <1>5, ReportStep
<1>6. ASSUME NEW a \in Account, NEW m \in Manifest, StoreSome(a, m)
      PROVE  IInv'
  <2>1. StoreManifest(a, m) /\ UNCHANGED namesVars /\ UNCHANGED <<client, told>>
    BY <1>6 DEF StoreSome
  <2>2. ContractInv' /\ UNCHANGED <<minted, updated>>
    BY <1>1, <2>1, StoreLemma
  <2> QED
    BY <2>1, <2>2, OutsideLemma
<1>7. ASSUME NEW a \in Account, NEW n \in Name, NEW to \in Account,
             Trade(a, n, to)
      PROVE  IInv'
  <2>1. Transfer(a, n, to) /\ UNCHANGED chainVars /\ UNCHANGED <<client, told>>
    BY <1>7 DEF Trade
  <2>2. ContractInv' /\ UNCHANGED <<minted, updated>>
    BY <1>1, <2>1, TransferLemma
  <2> QED
    BY <2>1, <2>2, OutsideLemma
<1>8. ASSUME NEW a \in Account, NEW r \in Account, Redirect(a, r)
      PROVE  IInv'
  <2>1. SetFeeRecipient(a, r) /\ UNCHANGED chainVars /\ UNCHANGED <<client, told>>
    BY <1>8 DEF Redirect
  <2>2. ContractInv' /\ UNCHANGED <<minted, updated>>
    BY <1>1, <2>1, RedirectLemma
  <2> QED
    BY <2>1, <2>2, OutsideLemma
<1>10. ASSUME NEW a \in Account, NEW n \in Name, NEW m \in Manifest,
              NEW b \in Block, NEW v \in 0 .. Fee + 1, Direct(a, n, m, b, v)
       PROVE  IInv'
  <2>1. /\ MayRegister(a, n, Keccak(m), v) /\ Register(a, n, b, Keccak(m), v)
        /\ UNCHANGED <<logs, manifests>> /\ height' = height + 1
        /\ UNCHANGED <<client, told>>
    BY <1>10 DEF Direct
  <2>2. /\ ContractInv'
        /\ minted \subseteq minted' /\ updated \subseteq updated'
    <3>1. v \in Nat
      BY NamesAssumption
    <3> QED
      BY <1>1, <2>1, <3>1, RegisterLemma
  <2> QED
    BY <2>1, <2>2, OutsideLemma
<1>9. CASE UNCHANGED vars
  <2>1. /\ UNCHANGED <<logs, manifests, namesVars>> /\ height' = height
        /\ UNCHANGED <<client, told>>
    BY <1>9 DEF vars, chainVars
  <2>2. ContractInv' /\ UNCHANGED <<minted, updated>>
    BY <2>1, SameContracts
  <2> QED
    BY <2>1, <2>2, OutsideLemma
<1> QED
  BY <1>2, <1>3, <1>4, <1>5, <1>6, <1>7, <1>8, <1>9, <1>10 DEF Next

-----------------------------------------------------------------------------
(* Theorems *)

THEOREM Invariance == Spec => []IInv
BY InitLemma, StepLemma, PTL DEF Spec

\* Types, and: a name is owned if and only if it has a site.
THEOREM NamesAreTyped == Spec => []TypeOK
<1>1. IInv => TypeOK
  BY DEF IInv
<1> QED
  BY <1>1, Invariance, PTL

\* A name that is registered or updated points at bytes in the logs, whatever
\* happens to the name later.
THEOREM SitesLeadToContent == Spec => []SitesArePublished
<1>1. IInv => SitesArePublished
  BY DEF IInv
<1> QED
  BY <1>1, Invariance, PTL

\* No name is minted for two accounts, whichever registrations race.
THEOREM OneRegistration == Spec => []MintedOnce
<1>1. IInv => MintedOnce
  BY DEF IInv
<1> QED
  BY <1>1, Invariance, PTL

\* The fee recipients were paid for every name there is.
THEOREM EveryNamePaid == Spec => []NamesArePaid
<1>1. IInv => NamesArePaid
  BY DEF IInv
<1> QED
  BY <1>1, Invariance, PTL

\* What the CLI reports as done was done on the chain.
THEOREM CLIIsTruthful == Spec => []CLITellsTruth
<1>1. IInv => CLITellsTruth
  BY DEF IInv
<1> QED
  BY <1>1, Invariance, PTL

\* A step changes the site of a name only in the update of its owner.
LEMMA KeptLemma ==
    ASSUME TypeOK, [Next]_vars, NEW n \in DOMAIN owner
    PROVE  /\ n \in DOMAIN owner'
           /\ sites'[n] # sites[n] => Uploader(sites'[n].hash) = owner[n]
<1>0. DOMAIN sites = DOMAIN owner
  BY DEF TypeOK
<1>1. CASE UNCHANGED <<owner, sites>>
  BY <1>1
<1>6. ASSUME NEW a \in Account, NEW m, NEW b, NEW h, NEW v,
             MayRegister(a, m, h, v), Register(a, m, b, h, v)
      PROVE  n \in DOMAIN owner' /\ sites'[n] = sites[n]
  <2>1. m # n
    BY <1>6 DEF MayRegister, Registered
  <2> QED
    BY <1>0, <1>6, <2>1 DEF Register, SetSite
<1>2. ASSUME NEW a \in Account, Execute(a)
      PROVE  /\ n \in DOMAIN owner'
             /\ sites'[n] # sites[n] => Uploader(sites'[n].hash) = owner[n]
  <2> DEFINE c == client[a]
  <2>1. CASE UNCHANGED <<owner, sites>>
    BY <2>1
  <2>2. CASE /\ MayRegister(a, c.name, c.hash, Fee)
             /\ Register(a, c.name, c.block, c.hash, Fee)
    BY <1>6, <2>2
  <2>3. CASE /\ MayUpdate(a, c.name, c.hash)
             /\ Update(a, c.name, c.block, c.hash)
    <3> HIDE DEF c
    <3>1. Uploader(c.hash) = owner[c.name] /\ UNCHANGED owner
      BY <2>3 DEF MayUpdate, Update
    <3>2. /\ c.name = n => sites'[n].hash = c.hash
          /\ c.name # n => sites'[n] = sites[n]
      BY <1>0, <2>3 DEF Update, SetSite
    <3> QED
      BY <3>1, <3>2
  <2> QED
    BY <1>2, <2>1, <2>2, <2>3 DEF Execute, Accepted, namesVars
<1>3. ASSUME NEW a \in Account, NEW m \in Name, NEW to \in Account,
             Trade(a, m, to)
      PROVE  UNCHANGED sites /\ n \in DOMAIN owner'
  BY <1>3 DEF Trade, Transfer
<1>4. ASSUME NEW a \in Account,
             \/ Begin(a) \/ LookUp(a) \/ LookUpFails(a) \/ SendTx(a)
             \/ GiveUp(a) \/ Report(a)
             \/ \E m \in Manifest : StoreSome(a, m)
             \/ \E r \in Account : Redirect(a, r)
      PROVE  UNCHANGED <<owner, sites>>
  BY <1>4 DEF Begin, LookUp, LookUpFails, SendTx, GiveUp, Report, StoreSome,
              Redirect, SetFeeRecipient, namesVars
<1>5. UNCHANGED vars => UNCHANGED <<owner, sites>>
  BY DEF vars, namesVars
<1>7. ASSUME NEW a \in Account, NEW k \in Name, NEW m \in Manifest,
             NEW b \in Block, NEW v \in 0 .. Fee + 1, Direct(a, k, m, b, v)
      PROVE  n \in DOMAIN owner' /\ sites'[n] = sites[n]
  BY <1>6, <1>7 DEF Direct
<1> QED
  BY <1>1, <1>2, <1>3, <1>4, <1>5, <1>7 DEF Next

\* A registered name stays registered and only its owner changes its site, to
\* a manifest the owner uploaded.
THEOREM OwnersDecide == Spec => NameKept
<1>1. IInv /\ [Next]_vars =>
        [\A n \in DOMAIN owner :
            /\ n \in DOMAIN owner'
            /\ sites'[n] # sites[n] => Uploader(sites'[n].hash) = owner[n]]_vars
  BY KeptLemma DEF IInv
<1> QED
  BY <1>1, Invariance, PTL DEF Spec, NameKept
=============================================================================

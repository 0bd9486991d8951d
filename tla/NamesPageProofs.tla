-------------------------- MODULE NamesPageProofs ---------------------------
(***************************************************************************)
(* Proofs about NamesPage, for any accounts, names and number of calls at  *)
(* a time.                                                                 *)
(*                                                                         *)
(* The answers that are on their way are what counts (HeldInv, FreeInv):   *)
(* an owner on his way was given the name that was asked for, and a name   *)
(* that is asked of V1 was free on V2 when the user asked, for what is     *)
(* claimed stays claimed.  Of the form it must be known that a check on    *)
(* its way is about what the form shows, or has seen it change (AboutForm).*)
(***************************************************************************)
EXTENDS NamesPage, TLAPS

LEMMA Distinct == /\ NoAccount \notin Account /\ None \notin Account
                  /\ None # NoAccount /\ None \notin Name
  BY NoneAssumption

\* What has been read, or is shown, was given.
HeldInv ==
    /\ \A v \in Version, n \in Name :
            owner[v][n] # NoAccount => <<v, n, owner[v][n]>> \in held
    /\ \A c \in Check : checks[c].pc = "read" /\ checks[c].owner \in Account =>
            <<checks[c].version, checks[c].name, checks[c].owner>> \in held
    /\ \A c \in Search : searches[c].pc = "read" /\ searches[c].owner \in Account =>
            <<searches[c].version, searches[c].name, searches[c].owner>> \in held

\* What a lookup has passed by was free when the user asked.
FreeInv ==
    \A c \in Search : searches[c] # Idle =>
        LET q == searches[c] IN
        /\ q.claimed \subseteq Claimed
        /\ q.version = "v1" => <<"v2", q.name>> \notin q.claimed
        /\ q.pc = "read" /\ q.owner = NoAccount => <<q.version, q.name>> \notin q.claimed

Shows(q) == q.version = form.version /\ q.name = form.name

\* The checks on their way are about what the form shows, or know better.
AboutForm == \A c \in Check : checks[c] # Idle => Shows(checks[c]) \/ checks[c].edited

FormHeld == form.owner \in Account =>
                /\ <<form.about.version, form.about.name, form.owner>> \in held
                /\ Shows(form.about) \/ form.about.edited

Inv == /\ TypeOK /\ HeldInv /\ FreeInv /\ AboutForm /\ FormHeld
       /\ AvailableWasFree /\ RecordWasTrue

-----------------------------------------------------------------------------

\* A call is idle, asked or read, and can be told by its pc.
LEMMA CheckCases ==
    ASSUME NEW q \in CheckType
    PROVE  \/ q = Idle /\ q.pc = "idle"
           \/ /\ q # Idle /\ q.pc = "asked"
              /\ q \in [pc : {"asked"}, version : Version, name : Name, edited : BOOLEAN]
           \/ /\ q # Idle /\ q.pc = "read"
              /\ q \in [pc : {"read"}, version : Version, name : Name, edited : BOOLEAN,
                        owner : Owner \union {None}]
  BY DEF CheckType, Idle

LEMMA SearchCases ==
    ASSUME NEW q \in SearchType
    PROVE  \/ q = Idle /\ q.pc = "idle"
           \/ /\ q # Idle /\ q.pc = "asked"
              /\ q \in [pc : {"asked"}, version : Version, name : Name,
                        claimed : SUBSET (Version \X Name)]
           \/ /\ q # Idle /\ q.pc = "read"
              /\ q \in [pc : {"read"}, version : Version, name : Name,
                        claimed : SUBSET (Version \X Name), owner : Owner \union {None}]
  BY DEF SearchType, Idle

LEMMA InitInv == ASSUME Init PROVE Inv
<1> USE Distinct
<1>1. TypeOK
  BY DEF Init, TypeOK, Version, Owner, CheckType, FormType, SearchType, Blank
<1>2. HeldInv /\ FreeInv /\ AboutForm /\ FormHeld
  BY DEF Init, HeldInv, FreeInv, AboutForm, FormHeld, Idle
<1>3. AvailableWasFree /\ RecordWasTrue
  BY DEF Init, AvailableWasFree, RecordWasTrue, Blank
<1>4. QED
  BY <1>1, <1>2, <1>3 DEF Inv

\* What is claimed stays claimed, and what was given was given.
LEMMA GiveInv ==
    ASSUME Inv, NEW v \in Version, NEW n \in Name, NEW a \in Account, Give(v, n, a)
    PROVE  Inv'
<1> USE Distinct DEF Give, Inv, registryVars, walletVars, updateVars, lookupVars
<1>1. TypeOK'
  BY DEF TypeOK, Owner
<1>2. /\ owner' \in [Version -> [Name -> Owner]] /\ held \subseteq held'
      /\ owner'[v][n] = a
      /\ \A w \in Version, m \in Name : <<w, m>> # <<v, n>> => owner'[w][m] = owner[w][m]
      /\ \A w \in Version, m \in Name :
             owner'[w][m] # NoAccount => <<w, m, owner'[w][m]>> \in held'
  BY <1>1 DEF TypeOK, HeldInv
<1>3. Claimed \subseteq Claimed'
  BY <1>2 DEF Claimed
<1>4. HeldInv'
  BY <1>2 DEF HeldInv
<1>5. FreeInv'
  BY <1>3 DEF FreeInv
<1>6. AboutForm' /\ FormHeld'
  BY <1>2 DEF AboutForm, FormHeld, Shows
<1>7. AvailableWasFree' /\ RecordWasTrue'
  BY <1>2 DEF AvailableWasFree, RecordWasTrue
<1>8. QED
  BY <1>1, <1>4, <1>5, <1>6, <1>7

LEMMA WalletInv == ASSUME Inv, Wallet PROVE Inv'
<1> USE Distinct DEF Wallet, Connect, Connected, Inv, registryVars, walletVars, updateVars,
                     lookupVars
<1>0. address' \in Owner /\ connecting' \in BOOLEAN
  BY DEF TypeOK, Owner
<1>1. TypeOK'
  BY <1>0 DEF TypeOK
<1>2. HeldInv' /\ FreeInv' /\ AboutForm' /\ FormHeld'
  BY DEF HeldInv, FreeInv, AboutForm, FormHeld, Shows, Claimed
<1>3. AvailableWasFree' /\ RecordWasTrue'
  BY DEF AvailableWasFree, RecordWasTrue
<1>4. QED
  BY <1>1, <1>2, <1>3

LEMMA EditInv == ASSUME Inv, Edit PROVE Inv'
<1> USE Distinct DEF Inv, registryVars, walletVars, lookupVars
<1>1. PICK f \in FormType : Edited(f)
  BY DEF Edit, ChangeVersion, ChangeName, TypeOK, FormType
<1>2. form' \in FormType /\ form'.owner = None
  BY <1>1 DEF Edited, FormType
<1>3. UNCHANGED <<owner, held, address, connecting, checking, panel, searches>>
  BY <1>1 DEF Edited
<1>4. ASSUME NEW c \in Check
      PROVE  /\ checks'[c] \in CheckType /\ (checks'[c] # Idle <=> checks[c] # Idle)
             /\ checks[c] # Idle => /\ checks'[c].edited /\ checks'[c].pc = checks[c].pc
                                    /\ checks'[c].version = checks[c].version
                                    /\ checks'[c].name = checks[c].name
             /\ checks[c].pc = "read" => checks'[c].owner = checks[c].owner
             /\ checks[c] = Idle => checks'[c] = Idle
  <2>1. checks'[c] = IF checks[c] = Idle THEN Idle ELSE [checks[c] EXCEPT !.edited = TRUE]
    BY <1>1 DEF Edited
  <2>2. checks[c] \in CheckType
    BY DEF TypeOK
  <2>3. CASE checks[c] = Idle
    BY <2>1, <2>3 DEF Idle, CheckType
  <2>4. CASE checks[c] \in [pc : {"asked"}, version : Version, name : Name, edited : BOOLEAN]
    BY <2>1, <2>4 DEF Idle, CheckType
  <2>5. CASE checks[c] \in [pc : {"read"}, version : Version, name : Name, edited : BOOLEAN,
                            owner : Owner \union {None}]
    BY <2>1, <2>5 DEF Idle, CheckType
  <2>6. QED
    BY <2>2, <2>3, <2>4, <2>5 DEF CheckType
<1>5. checks' \in [Check -> CheckType]
  <2>1. checks' = [c \in Check |-> checks'[c]]
    BY <1>1 DEF Edited
  <2>2. QED
    BY <1>4, <2>1
<1>6. checking' => \E c \in Check : checks'[c] # Idle
  BY <1>3, <1>4 DEF TypeOK
<1>7. TypeOK'
  BY <1>2, <1>3, <1>5, <1>6 DEF TypeOK
<1>8. HeldInv'
  <2>1. \A c \in Check : checks'[c].pc = "read" => checks[c].pc = "read"
    BY <1>4 DEF Idle
  <2>2. \A c \in Check : checks'[c].pc = "read" =>
            /\ checks'[c].owner = checks[c].owner
            /\ checks'[c].version = checks[c].version /\ checks'[c].name = checks[c].name
    BY <1>4, <2>1 DEF Idle
  <2>3. QED
    BY <1>3, <2>1, <2>2 DEF HeldInv
<1>9. FreeInv' /\ AvailableWasFree' /\ RecordWasTrue'
  BY <1>3 DEF FreeInv, Claimed, AvailableWasFree, RecordWasTrue
<1>10. AboutForm' /\ FormHeld'
  BY <1>2, <1>4 DEF AboutForm, FormHeld
<1>11. QED
  BY <1>7, <1>8, <1>9, <1>10

LEMMA UpdateInv == ASSUME Inv, Update PROVE Inv'
<1> USE Distinct DEF Inv, registryVars, walletVars, updateVars, lookupVars
<1>1. PICK c \in Check : AskOwner(c) \/ ReadOwner(c) \/ TakeOwner(c)
  BY DEF Update
<1>2. checks[c] \in CheckType
  BY DEF TypeOK
<1>3. CASE AskOwner(c)
  <2> USE <1>3 DEF AskOwner
  <2>1. form.name \in Name /\ form.version \in Version
    BY DEF TypeOK, FormType
  <2>2. /\ checks' \in [Check -> CheckType]
        /\ checks'[c].pc = "asked" /\ checks'[c] # Idle
        /\ checks'[c].version = form.version /\ checks'[c].name = form.name
        /\ \A d \in Check : d # c => checks'[d] = checks[d]
    BY <2>1 DEF TypeOK, CheckType, Idle
  <2>3. form' \in FormType
        /\ form'.owner = None /\ form'.version = form.version /\ form'.name = form.name
    BY DEF TypeOK, FormType
  <2>4. TypeOK'
    BY <2>2, <2>3 DEF TypeOK
  <2>5. HeldInv'
    BY <2>2 DEF HeldInv
  <2>6. FreeInv' /\ AvailableWasFree' /\ RecordWasTrue'
    BY DEF FreeInv, Claimed, AvailableWasFree, RecordWasTrue
  <2>7. AboutForm' /\ FormHeld'
    BY <2>2, <2>3 DEF AboutForm, FormHeld, Shows
  <2>8. QED
    BY <2>4, <2>5, <2>6, <2>7
<1>4. CASE ReadOwner(c)
  <2> USE <1>4 DEF ReadOwner
  <2>1. /\ checks[c] # Idle
        /\ checks[c] \in [pc : {"asked"}, version : Version, name : Name, edited : BOOLEAN]
    BY <1>2, CheckCases
  <2>2. PICK o \in Answers(checks[c].version, checks[c].name) :
            checks' = [checks EXCEPT ![c] = [pc |-> "read", version |-> checks[c].version,
                                             name |-> checks[c].name,
                                             edited |-> checks[c].edited, owner |-> o]]
    OBVIOUS
  <2>3. o \in Owner \union {None}
    BY <2>1, <2>2 DEF Answers, TypeOK
  <2>4. /\ checks' \in [Check -> CheckType]
        /\ checks'[c].owner = o /\ checks'[c] # Idle
        /\ checks'[c].version = checks[c].version /\ checks'[c].name = checks[c].name
        /\ checks'[c].edited = checks[c].edited
        /\ \A d \in Check : d # c => checks'[d] = checks[d]
    BY <2>1, <2>2, <2>3 DEF TypeOK, CheckType, Idle
  <2>5. TypeOK'
    BY <2>4 DEF TypeOK
  <2>6. o \in Account => <<checks[c].version, checks[c].name, o>> \in held
    BY <2>1, <2>2 DEF Answers, HeldInv
  <2>7. HeldInv'
    BY <2>4, <2>6 DEF HeldInv
  <2>8. FreeInv' /\ AvailableWasFree' /\ RecordWasTrue'
    BY DEF FreeInv, Claimed, AvailableWasFree, RecordWasTrue
  <2>9. AboutForm' /\ FormHeld'
    BY <2>1, <2>4 DEF AboutForm, FormHeld, Shows
  <2>10. QED
    BY <2>5, <2>7, <2>8, <2>9
<1>5. CASE TakeOwner(c)
  <2> USE <1>5 DEF TakeOwner
  <2>1. /\ checks[c] # Idle
        /\ checks[c] \in [pc : {"read"}, version : Version, name : Name, edited : BOOLEAN,
                          owner : Owner \union {None}]
    BY <1>2, CheckCases
  <2>2. /\ checks' \in [Check -> CheckType]
        /\ checks'[c] = Idle
        /\ \A d \in Check : d # c => checks'[d] = checks[d]
    BY DEF TypeOK, CheckType
  <2>3. /\ form' \in FormType
        /\ form'.owner = checks[c].owner /\ form'.version = form.version
        /\ form'.name = form.name
        /\ form'.about = [version |-> checks[c].version, name |-> checks[c].name,
                          edited |-> checks[c].edited]
    BY <2>1 DEF TypeOK, FormType
  <2>4. TypeOK'
    BY <2>2, <2>3 DEF TypeOK
  <2>5. HeldInv'
    BY <2>2 DEF HeldInv, Idle
  <2>6. FreeInv' /\ AvailableWasFree' /\ RecordWasTrue'
    BY DEF FreeInv, Claimed, AvailableWasFree, RecordWasTrue
  <2>7. AboutForm'
    BY <2>2, <2>3 DEF AboutForm, Shows
  <2>8. FormHeld'
    BY <2>1, <2>3 DEF FormHeld, AboutForm, HeldInv, Shows
  <2>9. QED
    BY <2>4, <2>5, <2>6, <2>7, <2>8
<1>6. QED
  BY <1>1, <1>3, <1>4, <1>5

LEMMA LookupInv == ASSUME Inv, Lookup PROVE Inv'
<1> USE Distinct DEF Inv, registryVars, walletVars, updateVars, lookupVars
<1>1. PICK c \in Search :
          (\E n \in Name : AskLookup(c, n)) \/ ReadLookup(c) \/ TakeLookup(c)
  BY DEF Lookup
<1>2. searches \in [Search -> SearchType] /\ searches[c] \in SearchType
  <2>1. searches \in [Search -> SearchType]
    BY DEF TypeOK
  <2>2. QED
    BY <2>1
<1> DEFINE q == searches[c]
<1>3. ASSUME NEW n \in Name, AskLookup(c, n) PROVE Inv'
  <2> USE <1>3 DEF AskLookup
  <2>1. Question(n, "v2", Claimed) \in [pc : {"asked"}, version : Version, name : Name,
                                        claimed : SUBSET (Version \X Name)]
    BY DEF Question, Version, Claimed
  <2>2. /\ searches' \in [Search -> SearchType]
        /\ searches'[c] = Question(n, "v2", Claimed)
        /\ \A d \in Search : d # c => searches'[d] = searches[d]
    BY <2>1 DEF TypeOK, SearchType
  <2>3. panel' = Blank
    OBVIOUS
  <2>4. TypeOK'
    BY <2>2, <2>3 DEF TypeOK, Blank
  <2>5. HeldInv'
    BY <2>2 DEF HeldInv, Question
  <2>6. Claimed' = Claimed
    BY DEF Claimed
  <2>7. FreeInv'
    BY <2>2, <2>6 DEF FreeInv, Question
  <2>8. AboutForm' /\ FormHeld'
    BY DEF AboutForm, FormHeld, Shows
  <2>9. AvailableWasFree' /\ RecordWasTrue'
    BY <2>3 DEF AvailableWasFree, RecordWasTrue, Blank
  <2>10. QED
    BY <2>4, <2>5, <2>7, <2>8, <2>9
<1>4. CASE ReadLookup(c)
  <2> USE <1>4 DEF ReadLookup
  <2>1. /\ q # Idle
        /\ q \in [pc : {"asked"}, version : Version, name : Name,
                  claimed : SUBSET (Version \X Name)]
    BY <1>2, SearchCases
  <2>2. PICK o \in Answers(q.version, q.name) :
            searches' = [searches EXCEPT ![c] =
                [pc |-> "read", name |-> q.name, owner |-> o,
                 version |-> q.version, claimed |-> q.claimed]]
    OBVIOUS
  <2>3. o \in Owner \union {None}
    BY <2>1, <2>2 DEF Answers, TypeOK
  <2>4. /\ searches' \in [Search -> SearchType]
        /\ searches'[c].owner = o /\ searches'[c] # Idle
        /\ searches'[c].version = q.version /\ searches'[c].name = q.name
        /\ searches'[c].claimed = q.claimed
        /\ \A d \in Search : d # c => searches'[d] = searches[d]
    BY <2>1, <2>2, <2>3 DEF TypeOK, SearchType, Idle
  <2>5. TypeOK'
    BY <2>4 DEF TypeOK
  <2>6. o \in Account => <<q.version, q.name, o>> \in held
    BY <2>1, <2>2 DEF Answers, HeldInv
  <2>7. HeldInv'
    BY <2>4, <2>6 DEF HeldInv
  <2>8. Claimed' = Claimed /\ q.claimed \subseteq Claimed
    BY <2>1 DEF Claimed, FreeInv
  <2>9. o = NoAccount => <<q.version, q.name>> \notin q.claimed
    BY <2>1, <2>2, <2>8 DEF Answers, Claimed
  <2>10. FreeInv'
    BY <2>1, <2>4, <2>8, <2>9 DEF FreeInv
  <2>11. AboutForm' /\ FormHeld' /\ AvailableWasFree' /\ RecordWasTrue'
    BY DEF AboutForm, FormHeld, Shows, AvailableWasFree, RecordWasTrue
  <2>12. QED
    BY <2>5, <2>7, <2>10, <2>11
<1>5. CASE TakeLookup(c)
  <2>1. /\ q # Idle /\ q.pc = "read"
        /\ q \in [pc : {"read"}, version : Version, name : Name,
                  claimed : SUBSET (Version \X Name), owner : Owner \union {None}]
    BY <1>2, <1>5, SearchCases DEF TakeLookup
  <2>2. /\ q.claimed \subseteq Claimed
        /\ q.version = "v1" => <<"v2", q.name>> \notin q.claimed
        /\ q.owner = NoAccount => <<q.version, q.name>> \notin q.claimed
    BY <2>1 DEF FreeInv
  <2>3. q.owner \in Account => <<q.version, q.name, q.owner>> \in held
    BY <2>1 DEF HeldInv
  <2>4. UNCHANGED <<registryVars, walletVars, updateVars>>
    BY <1>5 DEF TakeLookup
  <2>5. Claimed' = Claimed
    BY <2>4 DEF Claimed
  <2>6. AboutForm' /\ FormHeld'
    BY <2>4 DEF AboutForm, FormHeld, Shows
  <2>7. CASE q.owner = NoAccount /\ q.version = "v2"
    <3>1. searches' = [searches EXCEPT ![c] = Question(q.name, "v1", q.claimed)]
          /\ UNCHANGED panel
      BY <1>5, <2>7 DEF TakeLookup
    <3>2. Question(q.name, "v1", q.claimed) \in [pc : {"asked"}, version : Version,
                                name : Name, claimed : SUBSET (Version \X Name)]
      BY <2>1 DEF Question, Version
    <3>3. /\ searches' \in [Search -> SearchType]
          /\ searches'[c] = Question(q.name, "v1", q.claimed)
          /\ \A d \in Search : d # c => searches'[d] = searches[d]
      BY <3>1, <3>2 DEF TypeOK, SearchType
    <3>4. TypeOK'
      BY <2>4, <3>1, <3>3 DEF TypeOK
    <3>5. HeldInv'
      BY <2>4, <3>3 DEF HeldInv, Question
    <3>6. FreeInv'
      BY <2>2, <2>5, <2>7, <3>3 DEF FreeInv, Question
    <3>7. AvailableWasFree' /\ RecordWasTrue'
      BY <2>4, <3>1 DEF AvailableWasFree, RecordWasTrue
    <3>8. QED
      BY <2>6, <3>4, <3>5, <3>6, <3>7
  <2>8. CASE ~(q.owner = NoAccount /\ q.version = "v2")
    <3>1. /\ searches' = [searches EXCEPT ![c] = Idle]
          /\ panel' = IF q.owner \in Account THEN [panel EXCEPT !.record = Shown(q)]
                      ELSE [panel EXCEPT !.notice =
                              Notice(IF q.owner = None THEN "failed" ELSE "available", q)]
      BY <1>5, <2>8 DEF TakeLookup
    <3>2. /\ searches' \in [Search -> SearchType]
          /\ searches'[c] = Idle
          /\ \A d \in Search : d # c => searches'[d] = searches[d]
      BY <3>1 DEF TypeOK, SearchType
    <3>3. HeldInv' /\ FreeInv'
      BY <2>4, <2>5, <3>2 DEF HeldInv, FreeInv, Idle
    <3>4. /\ q.owner \in Account => Shown(q) \in RecordType
          /\ \A t \in {"failed", "available"} : Notice(t, q) \in NoticeType
      BY <2>1 DEF Shown, Notice, RecordType, NoticeType
    <3>5. panel' \in [notice : {None} \union NoticeType, record : {None} \union RecordType]
      BY <3>1, <3>4 DEF TypeOK
    <3>6. TypeOK'
      BY <2>4, <3>2, <3>5 DEF TypeOK
    <3>7. CASE q.owner \in Account
      <4>1. panel'.record = Shown(q) /\ panel'.notice = panel.notice
        BY <3>1, <3>7 DEF TypeOK
      <4>2. RecordWasTrue'
        BY <2>2, <2>3, <2>4, <3>7, <4>1 DEF RecordWasTrue, Shown
      <4>3. AvailableWasFree'
        BY <4>1 DEF AvailableWasFree
      <4>4. QED
        BY <2>6, <3>3, <3>6, <4>2, <4>3
    <3>8. CASE q.owner \notin Account
      <4>1. /\ panel'.record = panel.record
            /\ panel'.notice = Notice(IF q.owner = None THEN "failed" ELSE "available", q)
        BY <3>1, <3>8 DEF TypeOK
      <4>2. RecordWasTrue'
        BY <2>4, <4>1 DEF RecordWasTrue
      <4>3. q.owner # None =>
                \A v \in Version : <<v, q.name>> \notin q.claimed
        BY <2>1, <2>2, <2>8, <3>8 DEF Owner, Version
      <4>4. AvailableWasFree'
        BY <4>1, <4>3 DEF AvailableWasFree, Notice
      <4>5. QED
        BY <2>6, <3>3, <3>6, <4>2, <4>4
    <3>9. QED
      BY <3>7, <3>8
  <2>9. QED
    BY <2>7, <2>8
<1>6. QED
  BY <1>1, <1>3, <1>4, <1>5

-----------------------------------------------------------------------------

LEMMA RegistriesInv == ASSUME Inv, Registries PROVE Inv'
  BY GiveInv DEF Registries, Claim, Transfer

LEMMA StutterInv == ASSUME Inv, UNCHANGED vars PROVE Inv'
<1> USE DEF Inv, vars, registryVars, walletVars, updateVars, lookupVars
<1>1. TypeOK' /\ HeldInv' /\ AboutForm' /\ FormHeld'
  BY DEF TypeOK, HeldInv, AboutForm, FormHeld, Shows
<1>2. FreeInv' /\ AvailableWasFree' /\ RecordWasTrue'
  BY DEF FreeInv, Claimed, AvailableWasFree, RecordWasTrue
<1>3. QED
  BY <1>1, <1>2

LEMMA Invariance == Spec => []Inv
<1>1. ASSUME Inv, [Next]_vars PROVE Inv'
  BY <1>1, RegistriesInv, WalletInv, EditInv, UpdateInv, LookupInv, StutterInv DEF Next
<1>2. QED
  BY <1>1, InitInv, PTL DEF Spec

\* Types; the button reads "Checking..." only while a check runs.
THEOREM FormTypeCorrect == Spec => []TypeOK
  BY Invariance, PTL DEF Inv

\* However many checks run, fail and overtake each other, and whatever is
\* changed meanwhile: "You own this name" is said only to an account that was
\* given the name that was asked for, and this is the name the form shows unless
\* the form was changed while that check ran.
THEOREM FormOwnsWhatIsShown == Spec => []OwnsWhatIsShown
<1>1. Inv => OwnsWhatIsShown
  <2> SUFFICES ASSUME Inv, address # NoAccount, form.owner = address
               PROVE  /\ <<form.about.version, form.about.name, address>> \in held
                      /\ Shows(form.about) \/ form.about.edited
    BY DEF OwnsWhatIsShown, Shows
  <2>1. address \in Account
    BY DEF Inv, TypeOK, Owner
  <2>2. QED
    BY <2>1 DEF Inv, FormHeld
<1>2. QED
  BY <1>1, Invariance, PTL

\* "Available" is said only of a name that was free on both registries at one
\* time since the user asked; an owner is shown only with a registry on which he
\* was given the name, and V1 only if V2 did not have it when the user asked.
THEOREM LookupIsTrue == Spec => []LookupTellsTruth
  BY Invariance, PTL DEF Inv, LookupTellsTruth
=============================================================================

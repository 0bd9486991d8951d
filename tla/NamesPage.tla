------------------------------ MODULE NamesPage ------------------------------
(***************************************************************************)
(* The forms of names-ui (names-ui/src/App.tsx) in which a user checks     *)
(* that a name is his before he updates it, and looks a name up, with the  *)
(* two registries that are asked.  What the page then sends is in Names.   *)
(*                                                                         *)
(* An answer is taken up whenever it comes: the fields may have been       *)
(* edited, the question asked again (the Enter key is never disabled), a   *)
(* wallet connected, and the name claimed or sold in the meantime.         *)
(***************************************************************************)

CONSTANTS
    Account, NoAccount,
    Name,               \* what the fields may hold; a field may also be empty
    None,               \* null, and the empty field
    Check, Search       \* bounds: the calls of each form that run at a time

ASSUME NoneAssumption ==
    /\ NoAccount \notin Account /\ None \notin Account \union {NoAccount}
    /\ None \notin Name

\* V1 is EVMFSNames.sol; V2 is not in the repository.
Version == {"v1", "v2"}

VARIABLES
    owner,              \* owner[v][n]: NoAccount if n is not claimed on v
    held,               \* history: who has owned what
    address, connecting,    \* the connected account, the button to connect
    form, checks,       \* the update form; the calls of checkUpdateOwner
                        \* (form.about is history: the question form.owner is
                        \* the answer to; edited: the form was changed since)
    checking,           \* updateChecking: the button reads "Checking..."
    panel, searches     \* what the lookup shows; the calls of handleLookup

registryVars == <<owner, held>>
walletVars == <<address, connecting>>
updateVars == <<form, checks, checking>>
lookupVars == <<panel, searches>>
vars == <<registryVars, walletVars, updateVars, lookupVars>>

Idle == [pc |-> "idle"]
Blank == [notice |-> None, record |-> None]

Init == /\ owner = [v \in Version |-> [n \in Name |-> NoAccount]] /\ held = {}
        /\ address = NoAccount /\ connecting = FALSE
        /\ form = [version |-> "v2", name |-> None, owner |-> None,
                   about |-> None]
        /\ checks = [c \in Check |-> Idle] /\ checking = FALSE
        /\ panel = Blank /\ searches = [c \in Search |-> Idle]

Claimed == {u \in Version \X Name : owner[u[1]][u[2]] # NoAccount}

-----------------------------------------------------------------------------
(* The registries *)

Give(v, n, a) == /\ owner' = [owner EXCEPT ![v][n] = a]
                 /\ held' = held \union {<<v, n, a>>}
                 /\ UNCHANGED <<walletVars, updateVars, lookupVars>>

\* "V2 cannot squat V1 names owned by someone else."
Claim(v, n, a) == /\ owner[v][n] = NoAccount
                  /\ v = "v2" => owner["v1"][n] \in {NoAccount, a}
                  /\ Give(v, n, a)

Transfer(v, n, a) == owner[v][n] # NoAccount /\ Give(v, n, a)

\* The answer of a node to a lookup; None if the call fails.
Answers(v, n) == {owner[v][n], None}

-----------------------------------------------------------------------------
(* The wallet: the button is there until an account is connected. *)

Connect == /\ address = NoAccount /\ ~connecting
           /\ connecting' = TRUE
           /\ UNCHANGED <<registryVars, address, updateVars, lookupVars>>

Connected == /\ connecting
             /\ address' \in Account \union {address}
             /\ connecting' = FALSE
             /\ UNCHANGED <<registryVars, updateVars, lookupVars>>

-----------------------------------------------------------------------------
(* The update form *)

\* The form forgets the owner; a check that runs goes on.
Edited(f) == /\ form' = [f EXCEPT !.owner = None, !.about = None]
             /\ checks' = [c \in Check |-> IF checks[c] = Idle THEN Idle
                                           ELSE [checks[c] EXCEPT !.edited = TRUE]]
             /\ UNCHANGED <<registryVars, walletVars, checking, lookupVars>>

\* Faulty variant: the other registry is chosen and the owner stays.
KeepOwner(v) == /\ form' = [form EXCEPT !.version = v]
                /\ UNCHANGED <<registryVars, walletVars, checks, checking, lookupVars>>

ChangeVersion(v) == Edited([form EXCEPT !.version = v])

ChangeName(n) == Edited([form EXCEPT !.name = n])

\* checkUpdateOwner, by the button or the Enter key.
AskOwner(c) ==
    /\ checks[c] = Idle /\ form.name # None
    /\ checks' = [checks EXCEPT ![c] = [pc |-> "asked", version |-> form.version,
                                        name |-> form.name, edited |-> FALSE]]
    /\ form' = [form EXCEPT !.owner = None, !.about = None] /\ checking' = TRUE
    /\ UNCHANGED <<registryVars, walletVars, lookupVars>>

ReadOwner(c) ==
    LET q == checks[c] IN
    /\ q.pc = "asked"
    /\ \E o \in Answers(q.version, q.name) :
            checks' = [checks EXCEPT ![c] = [pc |-> "read", version |-> q.version,
                            name |-> q.name, edited |-> q.edited, owner |-> o]]
    /\ UNCHANGED <<registryVars, walletVars, form, checking, lookupVars>>

\* The answer becomes the owner of what the form shows by now.
TakeOwner(c) ==
    LET q == checks[c] IN
    /\ q.pc = "read" /\ checks' = [checks EXCEPT ![c] = Idle]
    /\ form' = [form EXCEPT !.owner = q.owner,
                    !.about = [version |-> q.version, name |-> q.name, edited |-> q.edited]]
    /\ checking' = FALSE
    /\ UNCHANGED <<registryVars, walletVars, lookupVars>>

-----------------------------------------------------------------------------
(* The lookup *)

\* A question to registry v.  "claimed" is history: what had been claimed when
\* the user asked.
Question(n, v, claimed) ==
    [pc |-> "asked", name |-> n, version |-> v, claimed |-> claimed]

\* handleLookup, as often as the user likes.
AskLookup(c, n) ==
    /\ searches[c] = Idle
    /\ panel' = Blank
    /\ searches' = [searches EXCEPT ![c] = Question(n, "v2", Claimed)]
    /\ UNCHANGED <<registryVars, walletVars, updateVars>>

ReadLookup(c) ==
    /\ searches[c].pc = "asked"
    /\ \E o \in Answers(searches[c].version, searches[c].name) :
            searches' = [searches EXCEPT ![c] =
                [pc |-> "read", name |-> searches[c].name, owner |-> o,
                 version |-> searches[c].version, claimed |-> searches[c].claimed]]
    /\ UNCHANGED <<registryVars, walletVars, updateVars, panel>>

Shown(q) == [name |-> q.name, version |-> q.version, owner |-> q.owner,
             claimed |-> q.claimed]

Notice(text, q) == [text |-> text, name |-> q.name, claimed |-> q.claimed]

\* Faulty variant: a name that V2 does not know is taken for available.
TakeFirstLookup(c) ==
    LET q == searches[c] IN
    /\ q.pc = "read" /\ searches' = [searches EXCEPT ![c] = Idle]
    /\ panel' = IF q.owner \in Account THEN [panel EXCEPT !.record = Shown(q)]
                ELSE [panel EXCEPT !.notice = Notice(IF q.owner = None THEN "failed"
                                                     ELSE "available", q)]
    /\ UNCHANGED <<registryVars, walletVars, updateVars>>

\* The owner is shown, V1 is asked after V2, or the name is available; neither
\* the record nor the notice takes the other away.
TakeLookup(c) ==
    LET q == searches[c] IN
    /\ q.pc = "read"
    /\ IF q.owner = NoAccount /\ q.version = "v2"
       THEN /\ searches' = [searches EXCEPT ![c] = Question(q.name, "v1", q.claimed)]
            /\ UNCHANGED panel
       ELSE /\ searches' = [searches EXCEPT ![c] = Idle]
            /\ panel' = IF q.owner \in Account THEN [panel EXCEPT !.record = Shown(q)]
                        ELSE [panel EXCEPT !.notice =
                                Notice(IF q.owner = None THEN "failed" ELSE "available", q)]
    /\ UNCHANGED <<registryVars, walletVars, updateVars>>

-----------------------------------------------------------------------------

Registries == \E v \in Version, n \in Name, a \in Account :
                  Claim(v, n, a) \/ Transfer(v, n, a)

Wallet == Connect \/ Connected

Edit == \/ \E v \in Version : ChangeVersion(v)
        \/ \E n \in Name \union {None} : ChangeName(n)

Update == \E c \in Check : AskOwner(c) \/ ReadOwner(c) \/ TakeOwner(c)

Lookup == \E c \in Search : \/ \E n \in Name : AskLookup(c, n)
                            \/ ReadLookup(c) \/ TakeLookup(c)

Next == Registries \/ Wallet \/ Edit \/ Update \/ Lookup

Spec == Init /\ [][Next]_vars

-----------------------------------------------------------------------------
(* Properties *)

Owner == Account \union {NoAccount}

CheckType ==
    {Idle} \union [pc : {"asked"}, version : Version, name : Name, edited : BOOLEAN]
           \union [pc : {"read"}, version : Version, name : Name, edited : BOOLEAN,
                   owner : Owner \union {None}]

FormType == [version : Version, name : Name \union {None}, owner : Owner \union {None},
             about : {None} \union [version : Version, name : Name, edited : BOOLEAN]]

SearchType ==
    {Idle} \union [pc : {"asked"}, version : Version, name : Name,
                   claimed : SUBSET (Version \X Name)]
           \union [pc : {"read"}, version : Version, name : Name,
                   claimed : SUBSET (Version \X Name), owner : Owner \union {None}]

NoticeType == [text : {"available", "failed"}, name : Name,
               claimed : SUBSET (Version \X Name)]

RecordType == [name : Name, version : Version, owner : Account,
               claimed : SUBSET (Version \X Name)]

\* Types; the button reads "Checking..." only while a check runs.
TypeOK ==
    /\ owner \in [Version -> [Name -> Owner]]
    /\ held \subseteq Version \X Name \X Account
    /\ address \in Owner /\ connecting \in BOOLEAN
    /\ form \in FormType
    /\ checks \in [Check -> CheckType] /\ checking \in BOOLEAN
    /\ checking => \E c \in Check : checks[c] # Idle
    /\ panel \in [notice : {None} \union NoticeType, record : {None} \union RecordType]
    /\ searches \in [Search -> SearchType]

\* The page says "You own this name" (App.tsx:417-419), and lets the user send
\* an update, only if the connected account has been given the name that was
\* asked for on the registry that was asked; and this is what the form shows,
\* unless it was changed while that very check ran: the answer to a former
\* question never outlives a change of the form otherwise.
OwnsWhatIsShown ==
    address # NoAccount /\ form.owner = address =>
        /\ <<form.about.version, form.about.name, address>> \in held
        /\ \/ form.about.version = form.version /\ form.about.name = form.name
           \/ form.about.edited

\* "Available - this name hasn't been claimed on V2 or V1" (App.tsx:200): it
\* was free on both at one time since the user asked, though the registries are
\* read one after the other while names are claimed.
AvailableWasFree ==
    panel.notice # None =>
        (panel.notice.text = "available" =>
            \A v \in Version : <<v, panel.notice.name>> \notin panel.notice.claimed)

\* The owner the lookup shows has owned the name on the registry shown with him,
\* and this registry is V1 only if V2 did not have the name when the user asked
\* (App.tsx:180, "V2-first, V1-fallback").
RecordWasTrue ==
    panel.record # None =>
        LET r == panel.record IN
        /\ <<r.version, r.name, r.owner>> \in held
        /\ r.version = "v1" => <<"v2", r.name>> \notin r.claimed

\* What a lookup tells is true, though nothing holds the registries still.
LookupTellsTruth == AvailableWasFree /\ RecordWasTrue
=============================================================================

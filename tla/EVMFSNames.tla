----------------------------- MODULE EVMFSNames -----------------------------
(***************************************************************************)
(* The name registry contracts/src/EVMFSNames.sol over the storage         *)
(* contract: a name is an ERC-721 token with a site, and a site may only   *)
(* be set by the token's owner to a manifest whose recorded uploader is    *)
(* the owner.                                                              *)
(*                                                                         *)
(* A call is atomic.  `register` ends with an external call to the fee     *)
(* recipient, but only after all its writes, so what the recipient does in *)
(* that call is a call of its own after this one.  A call that reverts     *)
(* changes nothing: each function is a condition (May...) and an effect.   *)
(***************************************************************************)
EXTENDS EVMFS

CONSTANTS Name,         \* strings used as names
          ValidName,    \* those with a legal length and legal characters
          Fee,          \* REGISTRATION_FEE
          Deployer,     \* owner() of the contract
          FirstRecipient,   \* the fee recipient the constructor sets
          Refusing      \* accounts that refuse to be paid

ASSUME NamesAssumption == /\ ValidName \subseteq Name
                          /\ Fee \in Nat
                          /\ Deployer \in Account
                          /\ FirstRecipient \in Account
                          /\ Refusing \subseteq Account

VARIABLES owner,        \* ownerOf: the tokens minted so far
          sites,        \* sites: block and manifest hash of a token
          minted,       \* the Transfer events from address 0
          updated,      \* the SiteUpdated events
          feeRecipient, \* who is paid
          collected     \* what the recipients were paid so far

namesVars == <<owner, sites, minted, updated, feeRecipient, collected>>

NamesInit == /\ owner = [n \in {} |-> NoAccount]
             /\ sites = [n \in {} |-> [block |-> 0, hash |-> 0]]
             /\ minted = {} /\ updated = {}
             /\ feeRecipient = FirstRecipient
             /\ collected = 0

Registered(n) == n \in DOMAIN owner

SetSite(n, b, h) ==
    /\ sites' = [k \in DOMAIN sites \union {n} |->
                    IF k = n THEN [block |-> b, hash |-> h] ELSE sites[k]]
    /\ updated' = updated \union {[name |-> n, hash |-> h]}

\* Faulty variant: the result of the payment is not checked.
MayRegisterUnpaid(a, n, h, value) == /\ value >= Fee
                                     /\ n \in ValidName
                                     /\ Uploader(h) = a
                                     /\ ~Registered(n)

\* Faulty variant: the characters of the name are not checked.
MayRegisterAnyName(a, n, h, value) == /\ value >= Fee
                                      /\ Uploader(h) = a
                                      /\ ~Registered(n)
                                      /\ feeRecipient \notin Refusing

\* Faulty variant: a name that exists is minted again.
MayRegisterTaken(a, n, h, value) == /\ value >= Fee
                                    /\ n \in ValidName
                                    /\ Uploader(h) = a
                                    /\ feeRecipient \notin Refusing

\* register's requirements: _mint reverts for an existing token, and the last
\* one is that the fee recipient accepts the payment.
MayRegister(a, n, h, value) == /\ value >= Fee
                               /\ n \in ValidName
                               /\ Uploader(h) = a
                               /\ ~Registered(n)
                               /\ feeRecipient \notin Refusing

\* The whole value of the call goes to the recipient; none of it is kept.
Paid(value) == IF feeRecipient \in Refusing THEN 0 ELSE value

Register(a, n, b, h, value) ==
    /\ owner' = [k \in DOMAIN owner \union {n} |->
                    IF k = n THEN a ELSE owner[k]]
    /\ SetSite(n, b, h)
    /\ minted' = minted \union {[name |-> n, to |-> a]}
    /\ collected' = collected + Paid(value)
    /\ UNCHANGED feeRecipient

\* Faulty variant: the owner may point its name at any hash.
MayUpdateAnyHash(a, n, h) == Registered(n) /\ owner[n] = a

\* Faulty variant: any uploader may point any name at its manifest.
MayUpdateAnyone(a, n, h) == Registered(n) /\ Uploader(h) = a

\* ownerOf reverts for a name that does not exist.
MayUpdate(a, n, h) == Registered(n) /\ owner[n] = a /\ Uploader(h) = a

Update(a, n, b, h) == /\ SetSite(n, b, h)
                      /\ UNCHANGED <<owner, minted, feeRecipient, collected>>

\* ERC-721: the owner gives the token away; its site stays as it is.
Transfer(a, n, to) ==
    /\ Registered(n) /\ owner[n] = a
    /\ owner' = [owner EXCEPT ![n] = to]
    /\ UNCHANGED <<sites, minted, updated, feeRecipient, collected>>

SetFeeRecipient(a, r) ==
    /\ a = Deployer
    /\ feeRecipient' = r
    /\ UNCHANGED <<owner, sites, minted, updated, collected>>

\* lookup(name): address(0) and an empty site for a name nobody owns.
Lookup(n) == IF Registered(n) THEN [owner |-> owner[n], site |-> {sites[n]}]
                              ELSE [owner |-> NoAccount, site |-> {}]
=============================================================================

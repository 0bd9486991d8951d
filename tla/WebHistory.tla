----------------------------- MODULE WebHistory -----------------------------
(***************************************************************************)
(* The web page's list of finished uploads: an IndexedDB object store      *)
(* (web/src/lib/history.ts), the hook that changes it and reads it again   *)
(* (useUploadHistory.ts), and what the list offers (UploadHistory.tsx).    *)
(* The calls are asynchronous: each is a transaction, transactions on one  *)
(* store run in the order in which they were made, and the list is read by *)
(* a transaction made when the change has completed, so that further calls *)
(* may come in between.                                                    *)
(***************************************************************************)
EXTENDS Naturals, Sequences

CONSTANTS Label,        \* what the user types as the name of an entry
          FirstLabel,   \* the label of a new entry, "Upload <date>"
          MaxChanges    \* bound: renames and deletions by the user

ASSUME WebHistoryAssumption == FirstLabel \notin Label /\ MaxChanges \in Nat

VARIABLES db,       \* the object store: id -> entry
          ops,      \* transactions not yet run, in order
          uploads,  \* the list the page shows: id -> entry
          removed,  \* the ids whose deletion has run
          changes   \* counter for the bound

historyVars == <<db, ops, uploads, removed, changes>>

NoEntries == [id \in {} |-> FirstLabel]

\* The hook reads the store when it is mounted, before anything else happens.
HistoryInit == /\ db = NoEntries /\ uploads = NoEntries /\ removed = {}
               /\ changes = 0
               /\ ops = << >>

\* history.save, called by the page when an upload is complete.
SaveUpload(id, entry) ==
    /\ ops' = Append(ops, [op |-> "put", id |-> id, entry |-> entry])
    /\ UNCHANGED <<db, uploads, removed, changes>>

\* The user renames or deletes an entry of the list that is shown.
Change(o) == /\ changes < MaxChanges /\ changes' = changes + 1
             /\ ops' = Append(ops, o)
             /\ UNCHANGED <<db, uploads, removed>>

Rename == \E id \in DOMAIN uploads, l \in Label :
            Change([op |-> "label", id |-> id, label |-> l])

Remove == \E id \in DOMAIN uploads : Change([op |-> "delete", id |-> id])

Put(id, entry) == [i \in DOMAIN db \union {id} |->
                    IF i = id THEN entry ELSE db[i]]

\* When the change has completed the hook calls refresh.
Refresh(o) == ops' = Append(Tail(ops), [op |-> "list"])

\* Faulty variant: the entry the page knows is written back with its label.
LabeledBlindly(o) ==
    IF o.id \in DOMAIN uploads
    THEN Put(o.id, [uploads[o.id] EXCEPT !.label = o.label]) ELSE db

\* updateUploadLabel: get and put in one transaction, nothing if it is gone.
Labeled(o) ==
    IF o.id \in DOMAIN db
    THEN Put(o.id, [db[o.id] EXCEPT !.label = o.label]) ELSE db

\* The next transaction runs.
RunChange ==
    /\ ops # << >> /\ Head(ops).op # "list"
    /\ LET o == Head(ops)
       IN /\ db' = CASE o.op = "put"    -> Put(o.id, o.entry)
                     [] o.op = "label"  -> Labeled(o)
                     [] o.op = "delete" -> [i \in DOMAIN db \ {o.id} |-> db[i]]
          /\ removed' = IF o.op = "delete" THEN removed \union {o.id} ELSE removed
          /\ Refresh(o)
    /\ UNCHANGED <<uploads, changes>>

\* getAllUploads
List == /\ ops # << >> /\ Head(ops).op = "list"
        /\ uploads' = db
        /\ ops' = Tail(ops)
        /\ UNCHANGED <<db, removed, changes>>

\* The page is loaded again: what has not run is lost, the store is not.
Remount == /\ uploads' = db
           /\ ops' = << >>
           /\ UNCHANGED <<db, removed, changes>>

HistoryStep == RunChange \/ List
=============================================================================

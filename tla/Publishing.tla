----------------------------- MODULE Publishing ----------------------------
(***************************************************************************)
(* What an uploader promises, whatever it does about batches, retries,     *)
(* crashes and saved progress: content is written and never unwritten; a   *)
(* manifest is published only when everything it refers to is already      *)
(* there, so that no reader ever meets a manifest with a dangling          *)
(* reference; and a manifest is announced to the user only once it is      *)
(* published.  Upload and WebPage are shown to implement it.             *)
(***************************************************************************)
CONSTANT NoManifest

VARIABLES stored,       \* what has been written: <<hash, block>>
          published,    \* the manifests readers can see: [id, refs]
          announced     \* the manifest the user has been given

vars == <<stored, published, announced>>

Init == stored = {} /\ published = {} /\ announced = NoManifest

\* Content is written.
Write == /\ stored \subseteq stored'
         /\ UNCHANGED <<published, announced>>

\* A manifest is published; it may be written in the same step.
Publish == /\ stored \subseteq stored'
           /\ \E m \in published' : /\ m.refs \subseteq stored
                                    /\ published' = published \union {m}
           /\ UNCHANGED announced

\* A manifest is announced, or an earlier announcement is withdrawn.
Announce == /\ announced' \in {m.id : m \in published} \union {NoManifest}
            /\ UNCHANGED <<stored, published>>

Next == Write \/ Publish \/ Announce

Spec == Init /\ [][Next]_vars
=============================================================================

---------------------------- MODULE MCGatewayServe ----------------------------
(***************************************************************************)
(* An instance of GatewayServe for TLC: a site whose file 1.png, the first *)
(* entry, has two parts and whose second entry is index.html, and a        *)
(* manifest without names one of whose files is on no chain; the named     *)
(* site is the latter, so its root is a listing.                           *)
(***************************************************************************)
EXTENDS GatewayServe, TLC

CONSTANTS ha, hb, hc, hx,       \* hashes of files and parts
          site, list,           \* hashes of the manifests
          noName

Entries(s) == [i \in DOMAIN s |-> [f |-> s[i][1], parts |-> s[i][2]]]

MCManifest == (site :> Entries(<< <<"1.png", <<hb, hc>>>>, <<"index.html", <<ha>>>> >>))
           @@ (list :> Entries(<< <<noName, <<ha>>>>, <<noName, <<hx>>>> >>))

MCPath == {"1.png", "index.html", "0", "1", "about", "x.png", "1.html"}
MCExt == [p \in MCPath |-> CASE p \in {"1.png", "x.png"} -> ".png"
                             [] p \in {"index.html", "1.html"} -> ".html"
                             [] OTHER -> ""]
MCStem == [p \in MCPath |-> CASE p = "1.png" -> "1" [] p = "1.html" -> "1"
                              [] p = "index.html" -> "index" [] p = "x.png" -> "x"
                              [] OTHER -> p]
MCNumber == [p \in MCPath |-> CASE p = "0" -> 0 [] p = "1" -> 1 [] OTHER -> -1]

Kind(k, h, p) == [kind |-> k, h |-> h, path |-> p]

MCTarget == { Kind("entry", site, "1"), Kind("entry", site, "about"),
              Kind("entry", list, "1"), Kind("entry", list, "x.png"),
              Kind("dir", site, None),
              Kind("json", site, None), Kind("file", hb, None),
              Kind("named", None, None), Kind("health", None, None),
              [kind |-> "resolve", to |-> Kind("entry", site, "1.png")] }
=============================================================================

------------------------------ MODULE MCCsConfig ------------------------------
(* Documents for CsConfig.  The main file sets plugin-dir, as the shipped  *)
(* configuration does; the plugin directory holds two files that declare   *)
(* the same plugin p1 (so readdir order decides which one wins), a file    *)
(* for p2 whose state-file is empty, and an entry that is not a ".conf"    *)
(* file.                                                                   *)
EXTENDS CsConfig

CONSTANTS p1, p2, d1, d2, d3, d4

(* An opening tag with the attributes the code reads.                     *)
OpenTag(t, n, lib, ver) ==
    [ev |-> "open", tag |-> t, name |-> n, lib |-> lib, ver |-> ver, text |-> FALSE]

(* A closing tag; text tells whether the element's text is non-empty.     *)
CloseTag(t, text) ==
    [ev |-> "close", tag |-> t, name |-> NoName, lib |-> FALSE, ver |-> "missing",
     text |-> text]

(* An element with no children.                                           *)
Leaf(t, text) == << OpenTag(t, NoName, FALSE, "missing"), CloseTag(t, text) >>

PluginDoc(n, body) ==
    << OpenTag("plugin", n, TRUE, "missing") >> \o body \o << CloseTag("plugin", FALSE) >>

MCNames == {p1, p2}

MCDirEntries == {d1, d2, d3, d4}

(* <csconf version="1"><plugin-dir>/etc/clearsync.d</plugin-dir></csconf> *)
MCMainDoc ==
    << OpenTag("csconf", NoName, FALSE, "ok") >> \o Leaf("plugin-dir", TRUE)
        \o << CloseTag("csconf", FALSE) >>

MCDirDoc ==
    [e \in MCDirEntries |->
        CASE e = d1 -> PluginDoc(p1, Leaf("state-file", TRUE) \o Leaf("event-filter", TRUE))
          [] e = d2 -> PluginDoc(p1, Leaf("other", TRUE) \o Leaf("state-file", TRUE))
          [] e = d3 -> PluginDoc(p2, Leaf("state-file", FALSE))
          [] e = d4 -> PluginDoc(p2, << >>)]

MCDirKind == [e \in MCDirEntries |-> IF e = d4 THEN "other" ELSE "conf"]

=============================================================================

---- MODULE MCEditorServers ----
(***************************************************************************)
(* The two servers an editor starts and the library of one of them.  They  *)
(* share nothing, so each is explored while the others stay as they began. *)
(***************************************************************************)
EXTENDS DebugAdapter, LanguageServer

CONSTANTS c1, c2

----------------------------------------------------------------------------
(* Lines for the adapter: a command it has and one it has not, with the    *)
(* same number, and garbage.                                               *)

DapLine(seq, command, query) ==
  [valid |-> TRUE, seq |-> seq, command |-> command, query |-> query]

MCLines ==
  {DapLine(1, "continue", {"delete", "insert", "users"}), DapLine(1, "other", {}),
   [DapLine(1, "other", {}) EXCEPT !.valid = FALSE]}

----------------------------------------------------------------------------
(* Messages for the language server. *)

Asks(method, valid, character) ==
  [kind |-> "request", method |-> method, valid |-> valid, character |-> character]

Tells(method) == [kind |-> "notification", method |-> method]

MCMessages ==
  {Asks("hover", TRUE, 15), Asks("definition", TRUE, 0), Asks("completion", TRUE, 0),
   Asks("completion", FALSE, 0), Asks("shutdown", TRUE, 0), Asks("other", TRUE, 0),
   Tells("exit"), [kind |-> "unframable"]}

Handshakes ==
  {Asks("initialize", TRUE, 0), Asks("hover", TRUE, 0), Tells("initialized"), Tells("exit"),
   Tells("other"), [kind |-> "response"]}

MCScripts ==
  LET opened == <<Asks("initialize", TRUE, 0), Tells("initialized")>>
  IN  {opened \o s : s \in [1 .. 3 -> MCMessages]} \cup [1 .. 2 -> Handshakes]
        \cup {opened \o <<m>> : m \in Handshakes}

MCWidth(table) == IF table = "comments" THEN 8 ELSE 5

----------------------------------------------------------------------------
MCInit == AdapterInit /\ LspInit /\ New

MCNext ==
  \/ LspInit /\ New /\ AdapterNext /\ UNCHANGED <<lspVars, libraryVars>>
  \/ AdapterInit /\ New /\ LspNext /\ UNCHANGED <<adapterVars, libraryVars>>
  \/ AdapterInit /\ LspInit /\ LibraryNext /\ UNCHANGED <<adapterVars, lspVars>>

MCSpec ==
  /\ MCInit /\ [][MCNext]_<<adapterVars, lspVars, libraryVars>>
  /\ AdapterFairness /\ LspFairness
====

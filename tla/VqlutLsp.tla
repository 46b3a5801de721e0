---- MODULE VqlutLsp ----
(***************************************************************************)
(* The library of the language server, src/interface/lsp/src/lib.rs: an    *)
(* object with a schema and the URL of a database, whose handlers answer   *)
(* requests from the schema.  The state machine is a program that embeds   *)
(* the library: it names a database, fetches the schema and edits the      *)
(* schema's public field, in any order.                                    *)
(*                                                                         *)
(* The name of a table stands for its columns; Width gives its length.     *)
(***************************************************************************)
EXTENDS Integers, Sequences, FiniteSets

CONSTANTS
  U32,              \* 2^32, or a smaller modulus on small instances
  OverflowChecks,   \* the build stops at an overflow instead of wrapping
  URLs,             \* the URLs a program names besides the empty one
  Tables,           \* the tables there are
  Width(_),         \* the length of a table's name
  MaxCalls          \* bound: calls of one program

\* No URL is configured.
EmptyUrl == ""

Fetched == {"users", "posts", "comments"}

ASSUME LibraryAssumption ==
  /\ U32 \in Nat /\ U32 > 10
  /\ OverflowChecks \in BOOLEAN
  /\ EmptyUrl \notin URLs
  /\ Fetched \subseteq Tables
  /\ \A t \in Tables : Width(t) \in 0 .. U32 - 1
  /\ MaxCalls \in Nat

Character == 0 .. U32 - 1

\* No u32: the addition stopped the thread.
Overflowed == U32

\* Mutant: the sum is as wide as a usize.
AddWide(a, b) == a + b

\* a + b on u32.
add_u32(a, b) ==
  CASE a + b < U32                     -> a + b
    [] a + b >= U32 /\ OverflowChecks  -> Overflowed
    [] a + b >= U32 /\ ~OverflowChecks -> (a + b) % U32

----------------------------------------------------------------------------
(* The handlers.  A range is on the line of the request and starts at its  *)
(* character; each handler gives the characters the range may end at.      *)

\* The first table of a HashMap is any of its tables.
handle_goto_definition(tables, character) ==
  IF tables = {} THEN {add_u32(character, 10)}
                 ELSE {add_u32(character, Width(t)) : t \in tables}

\* Mutant: the range of a hover is the character alone.
HoverPoint(character) == {character}

handle_hover(character) == {add_u32(character, 10)}

Keywords ==
  {"SELECT", "FROM", "WHERE", "GROUP BY", "ORDER BY", "HAVING", "LIMIT", "OFFSET", "EFFECTS",
   "PROOF ATTACHED", "AT VERSION", "CONSUME AFTER", "USAGE LIMIT"}

\* The items of a completion; every table brings its columns with it.
handle_completion(tables) ==
  [kind : {"keyword"}, label : Keywords] \cup [kind : {"table", "columns"}, label : tables]

----------------------------------------------------------------------------
VARIABLES
  verisimdb_url,
  schema,           \* the tables in the schema
  calls             \* the calls made so far

libraryVars == <<verisimdb_url, schema, calls>>

Calls == [op : {"connect"}, url : URLs \cup {EmptyUrl}] \cup [op : {"fetch"}, ok : BOOLEAN]
           \cup [op : {"insert"}, table : Tables]

Called(call) ==
  /\ Len(calls) < MaxCalls
  /\ calls' = Append(calls, call)

New ==
  /\ verisimdb_url = EmptyUrl
  /\ schema = {}
  /\ calls = <<>>

connect_verisimdb(url) ==
  /\ Called([op |-> "connect", url |-> url])
  /\ verisimdb_url' = url
  /\ UNCHANGED schema

\* Mutant: the fetched tables join the ones that were there.
FetchAdds ==
  /\ Called([op |-> "fetch", ok |-> verisimdb_url # EmptyUrl])
  /\ schema' = IF verisimdb_url = EmptyUrl THEN schema ELSE schema \cup Fetched
  /\ UNCHANGED verisimdb_url

fetch_schema ==
  /\ Called([op |-> "fetch", ok |-> verisimdb_url # EmptyUrl])
  /\ schema' = IF verisimdb_url = EmptyUrl THEN schema ELSE Fetched
  /\ UNCHANGED verisimdb_url

\* The field is public, and the tests write to it.
Insert(table) ==
  /\ Called([op |-> "insert", table |-> table])
  /\ schema' = schema \cup {table}
  /\ UNCHANGED verisimdb_url

LibraryNext ==
  \/ \E url \in URLs \cup {EmptyUrl} : connect_verisimdb(url)
  \/ fetch_schema
  \/ \E table \in Tables : Insert(table)

LibrarySpec == New /\ [][LibraryNext]_libraryVars

----------------------------------------------------------------------------
(* Properties *)

\* The calls that succeeded in fetching, and the URLs that were named before one.
FetchesDone == {i \in DOMAIN calls : calls[i].op = "fetch" /\ calls[i].ok}
ConnectsBefore(i) == {j \in 1 .. i - 1 : calls[j].op = "connect"}
Newest(is) == CHOOSE i \in is : \A j \in is : j <= i

\* The schema is what the last successful fetch brought and what was inserted since,
\* and completion offers just that besides the keywords: a failed fetch, or a new URL,
\* even the empty one, leaves it alone; a successful fetch takes inserted tables away.
\* A fetch succeeds exactly when the last URL named before it is not empty.
SchemaAccounted ==
  LET last == IF FetchesDone = {} THEN 0 ELSE Newest(FetchesDone)
      own  == {calls[i].table : i \in {i \in last + 1 .. Len(calls) : calls[i].op = "insert"}}
      held == own \cup (IF last = 0 THEN {} ELSE Fetched)
  IN  /\ {item.label : item \in handle_completion(schema)} = held \cup Keywords
      /\ \A i \in DOMAIN calls :
           calls[i].op = "fetch" =>
             (calls[i].ok <=> /\ ConnectsBefore(i) # {}
                              /\ calls[Newest(ConnectsBefore(i))].url # EmptyUrl)
====

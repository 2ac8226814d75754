--------------------------- MODULE MCCommandShell ---------------------------
(***************************************************************************)
(* The commands that start a process, in any order.                        *)
(***************************************************************************)
EXTENDS CommandShell

StartCommands == {<<"port", "here">>, <<"create">>, <<"join", "there", "port">>}
WithPut == StartCommands \cup {<<"put", "there", "here">>}
Joins == {c \in StartCommands : c[1] = "join"}
=============================================================================

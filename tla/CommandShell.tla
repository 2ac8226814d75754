---------------------------- MODULE CommandShell ----------------------------
(***************************************************************************)
(* The command line of one process: main starts a thread of its own for    *)
(* every line, which splits it into words (extractArgs, with strtok, whose *)
(* position is one static variable), looks at PORT_SET_BIT, CREATE_BIT and *)
(* JOIN_BIT, and runs the command.  A bit is set after the command has     *)
(* done what it guards.                                                    *)
(*                                                                         *)
(* A command is the sequence of its words.  The table commands (nset, lset *)
(* ...) change nothing here; quit and shutdown are in the modules Overlay  *)
(* and Shutdown.  Bounds: the user types MaxLines lines, and not more than *)
(* two are worked on at a time.                                            *)
(***************************************************************************)
EXTENDS Integers, Sequences, FiniteSets

CONSTANTS
  Commands,  \* the lines the user may type
  Hasty,     \* those typed while another line may still be worked on
  MaxLines

VARIABLES
  lines,     \* what was typed, in order
  threads,   \* the thread of each line: its step and the words it has found
  cursor,    \* strtok's position: a line and the number of its next word
  bits,      \* those of PORT_SET_BIT, CREATE_BIT and JOIN_BIT that are set
  listener,  \* ClientDatabase's listener: the line that set it last, or 0
  listening, \* the lines whose startListening thread runs
  repairing, \* the lines whose leafSetRepairer thread runs
  joins,     \* the lines that sent a JoinMe message
  crashed    \* a null listener has been dereferenced

vars == <<lines, threads, cursor, bits, listener, listening, repairing, joins, crashed>>

Words == UNION {{c[i] : i \in DOMAIN c} : c \in Commands}
Steps == {"split", "more", "dispatch", "setListener", "portBit", "listen", "createBit",
          "repairer", "send", "joinBit", "store", "invalid", "done"}

TypeOK ==
  /\ lines \in Seq(Commands) /\ Len(lines) <= MaxLines
  /\ threads \in Seq([step : Steps, args : Seq(Words)]) /\ Len(threads) = Len(lines)
  /\ cursor \in [line : 0 .. MaxLines, word : Nat]
  /\ bits \subseteq {"port", "create", "join"} /\ listener \in 0 .. MaxLines
  /\ \A used \in {listening, repairing, joins} : used \subseteq DOMAIN lines

Init ==
  /\ lines = <<>> /\ threads = <<>> /\ cursor = [line |-> 0, word |-> 1]
  /\ bits = {} /\ listener = 0 /\ listening = {} /\ repairing = {}
  /\ joins = {} /\ crashed = FALSE

Running(i, step) == ~ crashed /\ i \in DOMAIN threads /\ threads[i].step = step
GoesTo(i, step) == threads' = [threads EXCEPT ![i].step = step]
-----------------------------------------------------------------------------
\* main: getline, and a thread for the line.
Type(c) ==
  /\ ~ crashed /\ Len(lines) < MaxLines
  /\ Cardinality({i \in DOMAIN threads : threads[i].step # "done"}) <= IF c \in Hasty THEN 1 ELSE 0
  /\ lines' = Append(lines, c)
  /\ threads' = Append(threads, [step |-> "split", args |-> <<>>])
  /\ UNCHANGED <<cursor, bits, listener, listening, repairing, joins, crashed>>

Finds(i, found, next) ==
  /\ threads' = [threads EXCEPT ![i].args = @ \o found, ![i].step = next]
  /\ UNCHANGED <<lines, bits, listener, listening, repairing, joins, crashed>>

\* extractArgs: strtok(line, " ") sets the position, ...
FirstWord(i) ==
  /\ Running(i, "split")
  /\ cursor' = [line |-> i, word |-> 2]
  /\ Finds(i, <<lines[i][1]>>, "more")

\* ... strtok(NULL, " ") goes on from it, wherever it is: in this line, in a
\* line another thread is splitting, or in one that has been freed, where any
\* word may be read, or none.
NextWord(i) ==
  LET at == lines[cursor.line]
      freed == threads[cursor.line].step # "more"
  IN  /\ Running(i, "more")
      /\ \/ /\ ~ freed /\ cursor.word <= Len(at)
            /\ cursor' = [cursor EXCEPT !.word = @ + 1]
            /\ Finds(i, <<at[cursor.word]>>, "more")
         \/ /\ freed \/ cursor.word > Len(at)
            /\ Finds(i, <<>>, "dispatch") /\ UNCHANGED cursor
         \/ /\ freed /\ Len(threads[i].args) < 3
            /\ \E w \in Words : Finds(i, <<w>>, "more") /\ UNCHANGED cursor

\* handleCommand: the branch the words and the bits select.
Branch(args) ==
  CASE args[1] = "port" /\ Len(args) \in {2, 3} /\ "port" \notin bits -> "setListener"
    [] args = <<"create">> /\ "port" \in bits /\ "create" \notin bits -> "listen"
    [] args[1] = "join" /\ Len(args) = 3 /\ {"port", "create"} \subseteq bits
         /\ "join" \notin bits -> "send"
    [] (args[1] = "put" /\ Len(args) = 3) \/ (args[1] = "get" /\ Len(args) = 2) -> "store"
    [] OTHER -> "invalid"

Dispatch(i) ==
  /\ Running(i, "dispatch") /\ GoesTo(i, Branch(threads[i].args))
  /\ UNCHANGED <<lines, cursor, bits, listener, listening, repairing, joins, crashed>>
-----------------------------------------------------------------------------
\* port: the listener is replaced, then the bit is set.
SetListener(i) ==
  /\ Running(i, "setListener") /\ GoesTo(i, "portBit") /\ listener' = i
  /\ UNCHANGED <<lines, cursor, bits, listening, repairing, joins, crashed>>

SetBit(i, step, bit, next) ==
  /\ Running(i, step) /\ GoesTo(i, next) /\ bits' = bits \cup {bit}
  /\ UNCHANGED <<lines, cursor, listener, listening, repairing, joins, crashed>>

\* create: the listener thread, the bit, the timer thread.  SO_REUSEPORT lets a
\* second listener of the process bind the same port.
Listen(i) ==
  /\ Running(i, "listen") /\ GoesTo(i, "createBit") /\ listening' = listening \cup {i}
  /\ UNCHANGED <<lines, cursor, bits, listener, repairing, joins, crashed>>

StartRepairer(i) ==
  /\ Running(i, "repairer") /\ GoesTo(i, "done") /\ repairing' = repairing \cup {i}
  /\ UNCHANGED <<lines, cursor, bits, listener, listening, joins, crashed>>

\* join: JoinMe is sent; if nobody accepts the connection, ErrorMsg.
SendJoinMe(i) ==
  /\ Running(i, "send")
  /\ \/ GoesTo(i, "joinBit") /\ joins' = joins \cup {i}
     \/ GoesTo(i, "done") /\ UNCHANGED joins
  /\ UNCHANGED <<lines, cursor, bits, listener, listening, repairing, crashed>>

\* put and get ask for no bit, but they need the listener.
PutOrGet(i) ==
  /\ Running(i, "store") /\ GoesTo(i, "done") /\ crashed' = (listener = 0)
  /\ UNCHANGED <<lines, cursor, bits, listener, listening, repairing, joins>>

Invalid(i) ==
  /\ Running(i, "invalid") /\ GoesTo(i, "done")
  /\ UNCHANGED <<lines, cursor, bits, listener, listening, repairing, joins, crashed>>

Step(i) ==
  \/ FirstWord(i) \/ NextWord(i) \/ Dispatch(i)
  \/ SetListener(i) \/ SetBit(i, "portBit", "port", "done")
  \/ Listen(i) \/ SetBit(i, "createBit", "create", "repairer") \/ StartRepairer(i)
  \/ SendJoinMe(i) \/ SetBit(i, "joinBit", "join", "done")
  \/ PutOrGet(i) \/ Invalid(i)

Next == (\E c \in Commands : Type(c)) \/ \E i \in DOMAIN threads : Step(i)

Spec == Init /\ [][Next]_vars
-----------------------------------------------------------------------------
\* commandHandler.cpp:461, "Pasty Node already connected": a process that has
\* joined a network does not join another.
JoinedOnce == Cardinality(joins) <= 1

\* commandHandler.cpp:453, "PORT already assigned": the NodeID of a process that
\* listens does not change.
PortAssignedOnce == [][listening # {} => listener' = listener]_vars

\* client_main.cpp:23, "port <IP> <Port>", and the lines after it: a command is
\* run with the words of its line.
OwnWords ==
  \A i \in DOMAIN threads :
    threads[i].step \notin {"split", "more"} => threads[i].args = lines[i]

\* commandHandler.cpp:445, "Please assign PORT": without a port nothing is run.
PortFirst == ~ crashed
=============================================================================
